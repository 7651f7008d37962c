CONSTANTS
  Users = {u1}
  Nets = {n1}
  Sys = sys
  Main = main
  None = None
  MaxPosts = 4
SPECIFICATION Spec
INVARIANT DropIsSafe
