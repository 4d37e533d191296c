SPECIFICATION ReadsFairSpec

CONSTANTS
  zero = zero
  leafDomain = leafDomain
  nullifierDomain = nullifierDomain
  holder = holder
  secret = secret
  Depth = 1
  EmptyLeaf = zero
  LeafDomain = leafDomain
  NullifierDomain = nullifierDomain
  Setups = {setup1}
  Issuers = {i1}
  Commitments = {holder}
  Nullifiers <- MCNullifiers
  NoRoot = NoRoot
  Adders = {a1, a2}
  Publishers = {p1}
  Readers = {g1}
  MaxConnections = 2
  Malformed = Malformed

INVARIANTS
  ReadsSeeEarlierWrites
  ReadsReportOnlyStored

PROPERTIES
  InfoNeverFalselyStale
  AddSettles
