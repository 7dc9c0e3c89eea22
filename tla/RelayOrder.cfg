SPECIFICATION Spec
CONSTANTS
  root = root  left = left  right = right  leaf = leaf
  gcs = gcs  drone = drone  other = other  guest = guest
  a = a  b = b
  None = None
  Servers = {root, left, leaf}
  Parent <- Tree
  Ids = {root, left, right, leaf}
  ServerId <- OwnId
  Below <- Subtree
  Units = {gcs, drone}
  Home <- HomeOf
  Name <- OwnName
  Account <- AccountOf
  Group <- GroupOne
  ActorType <- TypeOf
  Kinds = {"all", gcs}
  MaxMessages = 3
INVARIANTS
  TypeOK
  HeardInOrder
  NoOvertaking
CHECK_DEADLOCK FALSE
