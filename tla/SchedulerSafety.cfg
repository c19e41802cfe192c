\* The safety of the process table: two programs and the system task.
SPECIFICATION SleepSpec
CONSTANTS
  MaxProcesses = 3
  HeapBlocks = 7
  Windows = {w1, w2}
  SleepTicks = {2}
  SystemSleepTicks = {3}
  TimerUnmasked = TRUE
INVARIANTS
  ContextIsKept
  LoadIsPrivate
  MemorySafe
  NeverOversleeps
PROPERTIES
  ReapsOnlyTheDead
SYMMETRY WindowSymmetry
CHECK_DEADLOCK FALSE
