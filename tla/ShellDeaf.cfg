SPECIFICATION ShellSpec
CONSTANT
  InputMax = 79
INVARIANT ShellHearsKeys
CHECK_DEADLOCK FALSE
