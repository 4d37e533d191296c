SPECIFICATION Spec

CONSTANTS
  zero = zero
  leafDomain = leafDomain
  nullifierDomain = nullifierDomain
  holder = holder
  secret = secret
  Depth = 1
  EmptyLeaf = zero
  LeafDomain = leafDomain
  NullifierDomain = nullifierDomain
  Setups = {setup1}
  Issuers = {i1, i2}
  Commitments <- MCCommitments
  Nullifiers <- MCNullifiers
  NoRoot = NoRoot
  Adders = {a1, a2, a3}
  Publishers = {}
  MaxConnections = 2
  Malformed = Malformed

SYMMETRY AdderSymmetry

INVARIANTS
  TypeOK
  PositionsContiguous
  AcknowledgedLeafDurable

PROPERTIES
  LeavesAppendOnly
