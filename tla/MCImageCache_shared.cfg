SPECIFICATION Spec
CONSTANTS
  p = p  q = q  a = a  b = b  c = c  ka = ka  kb = kb  kc = kc  NoJob = NoJob
  Procs = {p, q}
  Jobs = {a, b, c}
  Keys = {ka, kc}
  ProcOf <- SharedProcOf
  KeyOf <- SharedKeyOf
  ParentOf <- ChildOfA
  Capacity = 2
  Cleaning = TRUE
  Faults = {"drop", "kill", "daemon"}
INVARIANTS
  BoxesDestroyed
  OnlyRacingBuildsForgotten
