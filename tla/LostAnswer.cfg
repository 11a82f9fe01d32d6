CHECK_DEADLOCK FALSE
SPECIFICATION Spec
CONSTANTS
  Op = {o1}
  MaxVersion = 1
  Late = {TRUE}
INVARIANT LostAnswerIsUncertain
