SPECIFICATION Spec
CONSTANTS
  Procs = {p1}
  Operations = {o1, o2}
  None = None
  Unfinished = Unfinished
INVARIANT ContradictionsRefused
