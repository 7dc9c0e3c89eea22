SPECIFICATION FairSpec
CONSTANTS
  root = root  left = left  right = right  leaf = leaf
  gcs = gcs  drone = drone  other = other  guest = guest
  a = a  b = b
  None = None
  Servers = {root, left, right, leaf}
  Parent <- Tree
  Ids = {root, left, right, leaf}
  ServerId <- OwnId
  Below <- Subtree
  Units = {gcs, drone, other}
  Home <- HomeOf
  Name <- OwnName
  Account <- AccountOf
  Group <- GroupOne
  ActorType <- TypeOf
  Kinds = {"group", "gcs", "all", "agents", "untargeted", gcs, other}
  MaxMessages = 1
INVARIANTS
  Frontier
  HeardOnce
PROPERTIES
  KeepsPromise
  EverybodyHears
CHECK_DEADLOCK FALSE
