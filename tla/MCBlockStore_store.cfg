SPECIFICATION Spec

CONSTANTS
  MaxBlocks = 4
  MaxCrashes = 2

INVARIANTS
  TypeOK
  NoPanic
  ChainReadable

PROPERTIES
  NewestGrows

CHECK_DEADLOCK FALSE
