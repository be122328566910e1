\* Two client threads against the event thread, which closing the device must stop.
CONSTANTS
  Clients = {c1, c2}
  Callbacks = {framework}
  Addresses = {playback}
  QueueLen = 1
SPECIFICATION FairSpec
INVARIANTS TypeOK NoUseAfterFree AtMostOneLate StandbyFilters 
PROPERTIES CloseReturns
