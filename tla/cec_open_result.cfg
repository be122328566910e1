\* What open returns when it fails.
CONSTANTS
  Clients = {c1}
  Callbacks = {framework}
  Addresses = {playback}
  QueueLen = 1
SPECIFICATION Spec
INVARIANTS OpenReturnsDevice
