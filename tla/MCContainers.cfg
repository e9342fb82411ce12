SPECIFICATION MCSpec
CONSTANTS
  Byte = {0, 1}
  Decls <- OneLength
  Heads = {h1, h2}
  Entries = {e1, e2, e3}
  NULL = NULL
INVARIANTS RingsSound SeenRight
PROPERTIES ImplementsQueue CallsRight
