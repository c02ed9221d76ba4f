SPECIFICATION Spec
CONSTANTS
  Base = 2
  Size = 7
  Sizes = {1, 2, 3}
INVARIANTS MapSorted HolesBounded NoIdleRoom
PROPERTY ImplementsArena
