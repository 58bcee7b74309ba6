SPECIFICATION Spec
INVARIANT TypeOK
INVARIANT WindowIsShut
INVARIANT NeverTooOld
SYMMETRY ProcSymmetry
CONSTANTS
  Procs = {p1, p2, p3}
  Window = 3
  CacheTTL = 2
  Timeout = 2
  MaxTime = 6
  Absent = Absent
