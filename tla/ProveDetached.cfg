SPECIFICATION Spec

CONSTANTS
  zero = zero
  leafDomain = leafDomain
  nullifierDomain = nullifierDomain
  holder = holder
  outsider = outsider
  Depth = 1
  EmptyLeaf = zero
  LeafDomain = leafDomain
  NullifierDomain = nullifierDomain
  Setups = {setup1}
  Issuers = {i1}
  Commitments <- MCCommitments
  Nullifiers <- MCNullifiers
  NoRoot = NoRoot
  Provers = {r1, r2}
  Secrets = {holder}
  Addresses = {address}
  ProofBudget = 1
  MaxDetached = 1

INVARIANTS
  RunningProofsWithinBudget
