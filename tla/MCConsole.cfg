SPECIFICATION SpeakerSpec
CONSTANTS
  WIDTH = 2
  HEIGHT = 2
  MEM_CELLS = 9
  Chars <- MCChars
  BEEP_TICKS = 1
  MaxJiffies = 5
INVARIANTS TypeOK CursorInStep BeepEnds
PROPERTY ShowsTerminal
