SPECIFICATION DSpec
CONSTANTS
  Base = 8
  Sizes = {50}
  Counts <- MCCounts
  Offsets = {0}
  MaxTraversed = 200
  Dirs <- MCDirs
  Limits <- MCLimits
INVARIANTS
  AnswerHoldsListing
  EachEntryOnce
  EmptyAnswerIsEnd
PROPERTIES
  ListingEnds
  ListsDirectory
