\* The scheduling of the build: IRQ0 is masked and the desktop never sleeps.
SPECIFICATION FairSpec
CONSTANTS
  MaxProcesses = 2
  HeapBlocks = 2
  Windows = {w1}
  SleepTicks = {2}
  SystemSleepTicks = {}
  TimerUnmasked = FALSE
PROPERTY ReadyRuns
CHECK_DEADLOCK FALSE
