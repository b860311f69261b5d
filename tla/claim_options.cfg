SPECIFICATION Spec
CONSTANTS
  None = None
  Entries = {e1, e2}
  Flows = {f1, f2}
  Endpoints = {p1, p2}
  Options = {o1, o2}
  e1 = e1
  e2 = e2
  f1 = f1
  f2 = f2
  p1 = p1
  p2 = p2
  o1 = o1
  o2 = o2
  DefaultOptions = o1
  Names <- DefaultName
  MayCancel = TRUE
  MayRefuse = TRUE
INVARIANT OptionsInUse
CHECK_DEADLOCK FALSE
