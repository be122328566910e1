\* The comment on the unset property against what BootControlInit does.
CONSTANTS
  Procs = {service}
  kMaxNumSlots = 2
  NumSlots = 2
  kActivePriority = 15
  kActiveTries = 6
  InitialTries = 7
  PropMayBeUnset = TRUE
SPECIFICATION Spec
PROPERTIES UnsetPropertyInitializes
