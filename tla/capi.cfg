SPECIFICATION Spec
CONSTANTS
  p = p
  q = q
  f = f
  Address = {p, q}
  Callback = {f}
  MaxInstances = 2
  MaxErrors = 2
  MaxStrings = 2
CHECK_DEADLOCK FALSE
INVARIANTS StringsStayValid LastErrorKept
