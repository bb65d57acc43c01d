SPECIFICATION LSpec
CONSTANTS
  Base = 4
  Sizes = {1, 2, 4}
  Counts = {0, 1, 3, 5, 8}
  Offsets = {0, 1, 2, 3, 6}
  MaxTraversed = 14
INVARIANTS
  ListingTypeOK
  WithinCount
  Contiguous
PROPERTIES
  RefusalIsFinal
