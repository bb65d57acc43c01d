SPECIFICATION Spec
CONSTANTS
  Base = 8
  Dirs <- MCDirs
  Rooms <- MCRooms
INVARIANTS
  WholeEntriesOnly
PROPERTIES
  IterationEnds
  ListsDirectory
