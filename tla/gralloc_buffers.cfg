\* What buffers look like, and how several threads allocate and free them.
SPECIFICATION Spec
CONSTANTS
  Descriptors <- MCDescriptors
  Settings <- MCSettings
  Threads = {t1, t2, t3}
  Third = t3
  Nobody = Nobody
  Kernels = {"dmabuf", "modern", "legacy"}
  Calls <- MCCalls
  MaxFd = 7
  MaxHandle = 4
  MaxCalls = 3
SYMMETRY Interchangeable
INVARIANTS
  LayoutTypeOK HoldsImage PlanesInside ReadersCanRead LayoutIsOwn
  AllocTypeOK  NothingLost SelectsFinalCaps  DumpReadsLive
