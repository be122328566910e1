\* One process, as in the running system: the boot service.
CONSTANTS
  Procs = {service}
  kMaxNumSlots = 3
  NumSlots = 2
  kActivePriority = 15
  kActiveTries = 6
  InitialTries = 7
  PropMayBeUnset = TRUE
SPECIFICATION Spec
INVARIANTS TypeOK InitializedIsRunning
PROPERTIES ImplementsSlotTable
