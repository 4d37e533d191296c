SPECIFICATION Spec

CONSTANTS
  zero = zero
  leafDomain = leafDomain
  nullifierDomain = nullifierDomain
  holder = holder
  secret = secret
  Depth = 1
  EmptyLeaf = zero
  LeafDomain = leafDomain
  NullifierDomain = nullifierDomain
  Setups = {setup1}
  Issuers = {i1}
  Commitments <- MCCommitments
  Nullifiers <- MCNullifiers
  NoRoot = NoRoot
  Adders = {a1, a2}
  Publishers = {p1, p2}
  MaxConnections = 2
  Malformed = Malformed

SYMMETRY RequestSymmetry

INVARIANTS
  StatementsFindTheirIssuer
  PublishCoversEarlierLeaves

PROPERTIES
  ImplementsCredentialTree
