SPECIFICATION Spec
CONSTANTS
  WIDTH = 3
  HEIGHT = 2
  MEM_CELLS = 13
  Chars <- MCChars
INVARIANT NoWritePastEnd
