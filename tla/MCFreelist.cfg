CONSTANTS
  Cap = 16
  Requests = {0, 1, 33, 49}
  SizeMod = 1024
  NULL = NULL
SPECIFICATION Spec
INVARIANTS Tiling ListIsFree NoAdjacentFree NullOnlyIfNoRoom PayloadIsPrivate
PROPERTIES ImplementsBlocks
