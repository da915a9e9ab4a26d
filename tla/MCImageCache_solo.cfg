SPECIFICATION Spec
CONSTANTS
  p = p  q = q  a = a  b = b  c = c  ka = ka  kb = kb  kc = kc  NoJob = NoJob
  Procs = {p}
  Jobs = {a, b, c}
  Keys = {ka, kb, kc}
  ProcOf <- SoloProcOf
  KeyOf <- SoloKeyOf
  ParentOf <- ChildOfA
  Capacity = 1
  Cleaning = FALSE
  Faults = {"drop", "kill", "daemon"}
INVARIANTS
  WithinCapacity
  ImagesTracked
  SelectedStillOldest
  ParentsRestorable
PROPERTIES
  EvictedAreReturned
