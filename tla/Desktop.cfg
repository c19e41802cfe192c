\* Four windows, one move, one visit to the text shell, one program; a small
\* screen that every movement of the mouse may overshoot, also at half speed; a
\* board of six cells.  The sizes of the other parts are in DesktopMC.
SPECIFICATION DeskSpec
CONSTANTS
  InitOrder <- MCOrder
  Points <- MCPoints
  Files <- MCFiles
  MaxMoves = 1
  MaxLeaves = 1
  MaxLaunches = 1
  MaxX = 4
  MaxY = 3
  PointerX = 2
  PointerY = 1
  Steps = {0, 3, 5}
  MaxReturns = 1
  BOARD_W = 3
  BOARD_H = 2
  StartX = 2
  StartY = 1
  MaxLen = 5
  VGA_WIDTH = 5
  VGA_HEIGHT = 4
  CELL = 2
  Colors = {7}
  Positions <- MCPositions
  Sizes <- MCSizes
  Texts <- MCTexts
  Clips <- MCClips
  Chars <- MCChars
  Means <- MCMeans
  HISTORY_LINES = 8
  CMD_HIST_SIZE = 2
  INPUT_MAX = 2
  MaxLines = 12
  MAX_PROCESSES = 3
  ARP_CACHE_SIZE = 2
  APP_NAMES = 3
  PACKAGES = 2
  PACKAGE_FILES = 1
\* Integers of 5 bits and a display of 2 digits: typing, sums and products
\* exceed the range.
  Digits = {0, 1, 6}
  DISPLAY = 2
  HALF = 16
\* Lines of 4 characters, 2 of them visible.
  Pages <- MCPages
  WRAP = 4
  VISIBLE = 2
  MAX_LINES = 8
  MaxScroll = 4
  TRACK = 5
\* More windows than the taskbar has room for.
  Taskbar <- MCTaskbar
VIEW DeskView
INVARIANTS
  FocusSound
  DragsSound
  PacketsSound
  ControlsSound
  FrameSound
  TerminalSound
  SnakeSound
  CalculatorSound
  PageSound
CHECK_DEADLOCK FALSE
