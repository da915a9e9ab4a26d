SPECIFICATION Spec
CONSTANTS
  p = p  q = q  a = a  b = b  c = c  ka = ka  kb = kb  kc = kc  NoJob = NoJob
  Procs = {p, q}
  Jobs = {a, b}
  Keys = {ka, kb, kc}
  ProcOf <- SharedProcOf
  KeyOf <- SoloKeyOf
  ParentOf <- ChildOfA
  Capacity = 1
  Cleaning = FALSE
  Faults = {}
PROPERTIES
  EvictedAreReturned
