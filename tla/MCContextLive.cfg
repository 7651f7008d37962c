CONSTANTS
  Root = root  Usr = usr  boss = boss  kid = kid  None = None  Worker = sys
  t1 = t1  t2 = t2
  Actors = {root, usr, boss, kid}
  Dad <- DadChain
  Clients = {main}
  Pool = {t1}
  Targets = {boss, kid}
  Stoppable = {kid}
  Decisions = {"REINIT", "STOP", "ESCALATE", "RESUME"}
  MaxSends = 2
SPECIFICATION FairSpec
INVARIANT NeverCrashes
PROPERTIES Delivered OnStartRuns
