SPECIFICATION Spec
CONSTANTS
  Base = 1000
  HeapSize = 108
  Sizes = {4}
INVARIANTS NeverLost ListsSound LiveDisjoint
PROPERTIES PayloadKept DoubleFreeRefused
