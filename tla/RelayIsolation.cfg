SPECIFICATION Spec
CONSTANTS
  root = root  left = left  right = right  leaf = leaf
  gcs = gcs  drone = drone  other = other  guest = guest
  a = a  b = b
  None = None
  Servers = {root, right}
  Parent <- Tree
  Ids = {root, left, right, leaf}
  ServerId <- OwnId
  Below <- Subtree
  Units = {gcs, guest}
  Home <- HomeOf
  Name <- OwnName
  Account <- AccountOf
  Group <- GroupOne
  ActorType <- TypeOf
  Kinds = {"all", guest}
  MaxMessages = 1
INVARIANTS
  Isolated
CHECK_DEADLOCK FALSE
