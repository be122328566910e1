\* An output that is closed while the echo reference is being read.
CONSTANTS
  Threads = {t1, t2}
  Outs = {primary}
  Mics = {}
  Echoes = {echo}
  NoThread = NoThread
  NoStream = NoStream
SPECIFICATION Spec
INVARIANTS ReaderHasReference
