CONSTANTS
  None = None
  Tasks = {k1}
  Background = {}
  Endless = {}
  Workers = {w1}
  Clients = {c1}
  Stopper = c1
  Flushers = {c1}
  Waiters = {c1}
SPECIFICATION FairSpec
PROPERTY WaitReturns
