SPECIFICATION Spec
CONSTANTS
  a1 = a1  a2 = a2  g1 = g1  g2 = g2  u1 = u1  u2 = u2
  s1 = s1  s2 = s2  s3 = s3  s4 = s4  k1 = k1  k2 = k2  k3 = k3
  None = None
  Sockets = {s1, s2}
  Accounts = {a1, a2}
  Groups = {g1, g2}
  Names = {u1, u2}
  Keys = {k1, k2}
  ActorTypes = {"d"}
  Identities <- ExclusiveIdentities
  LocalServer = FALSE
  LocalAccount = a1
  LocalGroup = g1
  OldCompat = TRUE
SYMMETRY Symmetry
PROPERTIES
  StaleCloseHarmless
CHECK_DEADLOCK FALSE
