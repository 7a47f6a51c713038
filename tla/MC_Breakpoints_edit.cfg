CONSTANTS
  Addr = {entry, loop}
  Entry = entry
  Nowhere = nowhere
  MaxCost = 2
SPECIFICATION AnySpec
INVARIANT HaltHolds
