\* Two processes with the library loaded and no lock between them.
CONSTANTS
  Procs = {p1, p2}
  kMaxNumSlots = 2
  NumSlots = 2
  kActivePriority = 15
  kActiveTries = 1
  InitialTries = 1
  PropMayBeUnset = FALSE
SPECIFICATION Spec
INVARIANTS SuccessfulIsBootable UniqueActive BoundedAttempts
PROPERTIES VerityKept
SYMMETRY Interchangeable
