CHECK_DEADLOCK FALSE
SPECIFICATION Spec
CONSTANTS
  Op = {o1}
  MaxVersion = 2
  Late = {FALSE}
INVARIANT SuccessIsWritten
