SPECIFICATION Spec

CONSTANTS
  zero = zero
  leafDomain = leafDomain
  nullifierDomain = nullifierDomain
  holder = holder
  outsider = outsider
  Depth = 1
  EmptyLeaf = zero
  LeafDomain = leafDomain
  NullifierDomain = nullifierDomain
  Setups = {setup1, setup2}
  Issuers = {i1}
  Commitments <- MCCommitments
  Nullifiers <- MCNullifiers
  NoRoot = NoRoot
  Provers = {r1, r2, r3}
  Secrets <- MCSecrets
  Addresses = {address1, address2}
  ProofBudget = 2
  MaxDetached = 1

SYMMETRY Symmetry

INVARIANTS
  TypeOK
  PermitsConserved
  ServedProofIsSound

PROPERTIES
  RowsMeanProofs
  MembersGetProofs
