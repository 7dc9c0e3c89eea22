SPECIFICATION FairSpec
CONSTANTS
  r1 = r1  r2 = r2
  None = None
  Requests = {r1, r2}
  Kinds = {"LoadTasks", "SaveMission", "SaveNews", "DeleteNews"}
INVARIANTS
  TypeOK
  StatusIsTrue
  RequestsCovered
  RepliesAreTrue
PROPERTIES
  TrustIsEarned
  RequestsSettle
  LinkRetries
