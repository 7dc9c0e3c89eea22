SPECIFICATION FairSpec
CONSTANTS
  MaxChanges = 4
  Response = Response
  None = None
INVARIANTS TypeOK ReadAllUpToDate
PROPERTIES CardArrives
