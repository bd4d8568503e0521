CONSTANTS
  Run = {r1, r2}
  Client = {c1, c2, c3}
  Case = {"1", "2", "3", "4", "5", "log"}
  MaxCrashes = 2
SPECIFICATION Spec
INVARIANT OneEntry PolicyDurable LogDurable ServerInv
PROPERTY ClientEnds
CHECK_DEADLOCK FALSE
