SPECIFICATION FairSpec
CONSTANTS
  good = good
  stranger = stranger
  retired = retired
  k1 = k1
  k2 = k2
  Children = {good, stranger}
  Conns = {k1, k2}
  None = None
  ServerIds <- MCServerIds
  TrustedKeys <- MCTrustedKeys
  Readable = {good, stranger}
  Signers = {good, stranger}
  Genuine = {good}
  MaxPosts = 2
  MaxCut = 1
INVARIANTS TypeOK GateHolds
PROPERTIES KeepsLinkPromise StrangersLeave HonestGetsThrough
