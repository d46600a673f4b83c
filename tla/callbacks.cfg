SPECIFICATION Spec
CONSTANTS
  a = a
  b = b
  Self = Self
  Friend = {a, b}
  CallsIn <- Calls
  Env = {}
  MaxObjects = 6
SYMMETRY Symmetry
CHECK_DEADLOCK FALSE
INVARIANTS CallsSpareTheObject InformedDespiteCalls
PROPERTIES EndsReportedOnce CallsKeepLifecycle
