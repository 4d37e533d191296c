SPECIFICATION Spec

CONSTANTS
  zero = zero
  leafDomain = leafDomain
  nullifierDomain = nullifierDomain
  member = member
  outsider = outsider
  other = other
  Depth = 1
  EmptyLeaf = zero
  LeafDomain = leafDomain
  NullifierDomain = nullifierDomain
  Setups = {setup1, setup2}
  LeafValues <- MCLeafValues
  Secrets <- MCSecrets
  Addresses = {address}
  PathNodes = {zero}

PROPERTIES
  PushChangesRoot
