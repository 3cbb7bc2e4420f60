CONSTANTS
  Order = {o1, o2}
  Courier = {c1, c2}
  Search = {s1, s2}
  None = None
  Settings <- WavesAndTwo
SPECIFICATION Spec
SYMMETRY Symmetry
INVARIANTS WinnerWasAsked OneSearchPerOrder OneActiveOrder BusyForAReason
CHECK_DEADLOCK FALSE
