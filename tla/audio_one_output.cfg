\* One output, a microphone and an echo reference stream, four threads.
CONSTANTS
  Threads = {t1, t2, t3, t4}
  Outs = {primary}
  Mics = {mic}
  Echoes = {echo}
  NoThread = NoThread
  NoStream = NoStream
SPECIFICATION Spec
INVARIANTS TypeOK NoCircularWait PcmIsOpen PlaybackIsTold  MuteIsPrompt
SYMMETRY Interchangeable
