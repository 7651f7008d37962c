CONSTANTS
  Users = {u1, u2}
  Nets = {n1, n2}
  Sys = sys
  Main = main
  None = None
  MaxPosts = 4
SPECIFICATION FairSpec
INVARIANTS TypeOK ManagerOutlivesUse QuietStop
PROPERTY StopCompletes
