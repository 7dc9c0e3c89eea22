SPECIFICATION Spec
CONSTANTS
  u1 = u1
  Units = {u1}
  Ports = {1, 2, 3}
  Shared = {1, 2}
  Asks <- MCAsks
  None = None
INVARIANT ToldClosedTrue
