SPECIFICATION Spec

CONSTANTS
  zero = zero
  leafDomain = leafDomain
  nullifierDomain = nullifierDomain
  setup1 = setup1
  setup2 = setup2
  Depth = 1
  EmptyLeaf = zero
  LeafDomain = leafDomain
  NullifierDomain = nullifierDomain
  Dev = dev
  Registered = setup1
  Setups = {dev, setup1, setup2}
  Missing = Missing
  Partial = Partial
  NoPin = NoPin
  BadPin = BadPin
  Secret = holder
  Address = address

INVARIANTS
  TypeOK
  PinnedProofsAccepted
  DevKeysOnlyUnconfigured

PROPERTIES
  RestartHeals
