SPECIFICATION Spec
CONSTANTS
  Base = 1000
  HeapSize = 64
  Sizes = {4}
INVARIANT FindsFittingBlock

