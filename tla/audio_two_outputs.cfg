\* The two outputs of the policy configuration, of which one may go into standby.
CONSTANTS
  Threads = {t1, t2}
  Outs = {primary, hdmi}
  Mics = {}
  Echoes = {}
  NoThread = NoThread
  NoStream = NoStream
SPECIFICATION Spec
INVARIANTS PlaybackIsTold
