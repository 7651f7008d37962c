CONSTANTS
  Root = root  Usr = usr  boss = boss  kid = kid  None = None  Worker = sys
  t1 = t1  t2 = t2
  Actors = {root, usr, boss, kid}
  Dad <- DadChain
  Clients = {main}
  Pool = {t1, t2}
  Targets = {boss, kid}
  Stoppable = {boss, kid}
  Decisions = {"REINIT", "STOP", "ESCALATE", "RESUME"}
  MaxSends = 2
SYMMETRY Symmetry
SPECIFICATION Spec
INVARIANTS TypeOK BusyToken HandlerExclusion ApplyFindsMail RegistryMirror
PROPERTY ImplementsSerialActors
