CONSTANTS
  None = None
  Tasks = {k1, k2}
  Background = {k2}
  Endless = {k2}
  Workers = {w1, w2}
  Clients = {c1, c2}
  Stopper = c1
  Flushers = {c1}
  Waiters = {c2}
SPECIFICATION FairSpec
INVARIANTS TypeOK OnePlace RunnedCount
PROPERTIES FlushSound WaitSound PostedRuns FlushReturns StopReturns SettledWaiterReturns
