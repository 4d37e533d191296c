SPECIFICATION ServerFairSpec

CONSTANTS
  zero = zero
  leafDomain = leafDomain
  nullifierDomain = nullifierDomain
  holder = holder
  Depth = 1
  EmptyLeaf = zero
  LeafDomain = leafDomain
  NullifierDomain = nullifierDomain
  Setups = {setup1}
  Issuers = {i1}
  Commitments <- MCCommitments
  Nullifiers <- MCNullifiers
  NoRoot = NoRoot
  Adders = {a1}
  Publishers = {p1}
  MaxConnections = 1
  Malformed = Malformed
  Provers = {r1}
  Secrets = {holder}
  Addresses = {address}
  ProofBudget = 1
  MaxDetached = 1
  Workers = 1

PROPERTIES
  IssuersMeetHoldersAssumption
  PublishSettles
  ProveSettles
  HealthSettles
  ShutdownCompletes
