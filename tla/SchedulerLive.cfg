\* A load comes to its end under every interleaving of the timer, page faults
\* and clicks; five blocks serve two flat programs, or an ELF process with a page.
SPECIFICATION FairSpec
CONSTANTS
  MaxProcesses = 3
  HeapBlocks = 5
  Windows = {w1}
  SleepTicks = {2}
  SystemSleepTicks = {3}
  TimerUnmasked = TRUE
PROPERTY LoadReturns
CHECK_DEADLOCK FALSE
