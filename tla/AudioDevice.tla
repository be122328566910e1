------------------------------ MODULE AudioDevice ------------------------------
(***************************************************************************)
(* The primary audio HAL (hal/audio/audio_hw.c) and the part of the echo   *)
(* reference it drives (audio_aec.c): which streams are open or in         *)
(* standby, which PCM is open, who holds which mutex, whether playback is  *)
(* announced to the reader of the reference, whether its FIFOs exist.      *)
(*                                                                         *)
(* A step runs from one point where another thread can interfere to the    *)
(* next: taking a mutex, blocking in the PCM, touching the FIFOs, which no *)
(* mutex guards.  This is the build without AEC_HAL, whose library is not  *)
(* in the repository: only an echo reference stream uses the reference.    *)
(*                                                                         *)
(* The caller (AudioFlinger) has one reader or writer per stream, may call *)
(* standby and set_parameters from another thread, and puts a stream into  *)
(* standby before it closes it.                                            *)
(***************************************************************************)
EXTENDS Naturals, FiniteSets

CONSTANTS
  Threads,
  Outs,     \* output streams: the mixPorts of the policy configuration
  Mics,     \* input streams from the microphone
  Echoes,   \* input streams of AUDIO_SOURCE_ECHO_REFERENCE
  NoThread, \* nobody: the owner of a free mutex
  NoStream  \* NULL

Ins == Mics \cup Echoes
Streams == Outs \cup Ins

\* Each stream's mutex bears its name.
Locks == {"adev", "aec"} \cup Streams

ASSUME AudioDeviceAssumption ==
  /\ NoThread \notin Threads
  /\ NoStream \notin Streams
  /\ Outs \cap Ins = {} /\ Mics \cap Echoes = {}
  /\ "adev" \notin Streams /\ "aec" \notin Streams
  /\ IsFiniteSet(Mics)

VARIABLES
  owner,            \* who holds each mutex
  pc, obj,          \* where every thread is, and the stream it was called for
  open,             \* streams handed to the caller
  standby, pcm,     \* of every stream; pcm: the PCM is open
  active_output, active_input, mic_mute,
  spk_running, spk_initialized,
  fifo,             \* what spk_fifo and ts_fifo point to: "NULL", "live", "freed"
  lateSound         \* history: reads that returned sound since the mic was muted

thread == <<pc, obj>>
stream == <<open, standby, pcm>>
device == <<active_output, active_input, mic_mute, lateSound>>
reference == <<spk_running, spk_initialized, fifo>>
vars == <<owner, thread, stream, device, reference>>

Init ==
  /\ owner = [l \in Locks |-> NoThread]
  /\ pc = [t \in Threads |-> "idle"]
  /\ obj = [t \in Threads |-> NoStream]
  /\ open = {}
  /\ standby = [s \in Streams |-> TRUE]
  /\ pcm = [s \in Streams |-> FALSE]
  /\ active_output = NoStream
  /\ active_input = NoStream
  /\ mic_mute = FALSE
  /\ spk_running = FALSE
  /\ spk_initialized = FALSE
  /\ fifo = "NULL"
  /\ lateSound = 0

-----------------------------------------------------------------------------
\* Mutexes and control.

Lock(t, l) == owner[l] = NoThread /\ owner' = [owner EXCEPT ![l] = t]
Unlock(L) == owner' = [l \in Locks |-> IF l \in L THEN NoThread ELSE owner[l]]
\* Take l and give up L, l itself among them or not.
LockUnlock(t, l, L) ==
  /\ owner[l] = NoThread
  /\ owner' = [k \in Locks |-> IF k \in L THEN NoThread ELSE IF k = l THEN t ELSE owner[k]]

At(t, here) == pc[t] = here
Goto(t, there) == pc' = [pc EXCEPT ![t] = there] /\ UNCHANGED obj
Return(t) == pc' = [pc EXCEPT ![t] = "idle"] /\ obj' = [obj EXCEPT ![t] = NoStream]

Call(t, s, there) ==
  /\ At(t, "idle")
  /\ pc' = [pc EXCEPT ![t] = there]
  /\ obj' = [obj EXCEPT ![t] = s]
  /\ UNCHANGED <<owner, stream, device, reference>>

\* What the caller keeps to: one reader or writer per stream, and no call on a
\* stream that is not open or that is being opened or closed.
Data == {"w_adev", "w_out", "w_run", "w_pcm", "w_spk", "w_ts",
         "r_in", "r_adev", "r_pcm", "r_mute", "r_sound", "e_run", "e_check", "e_fifo"}
Unused(s) == \A t \in Threads : obj[t] # s
MayRun(s) == \A t \in Threads : obj[t] = s => ~(pc[t] \in Data)
Closing == {"o_close", "i_close"}
MayControl(s) == \A t \in Threads : obj[t] = s => ~(pc[t] \in Closing)

Begin(t) ==
  \/ \E s \in open :
       /\ MayControl(s)
       /\ \/ s \in Outs /\ MayRun(s) /\ Call(t, s, "w_adev")
          \/ s \in Outs /\ (Call(t, s, "s_adev") \/ Call(t, s, "p_adev"))
          \/ s \in Mics /\ MayRun(s) /\ Call(t, s, "r_in")
          \/ s \in Echoes /\ MayRun(s) /\ Call(t, s, "e_run")
          \/ s \in Ins /\ Call(t, s, "i_in")
  \/ \E s \in open :
       /\ Unused(s) /\ standby[s]
       /\ Call(t, s, IF s \in Outs THEN "o_close" ELSE "i_close")
  \/ \E s \in Streams \ open :
       /\ Unused(s)
       /\ Call(t, s, IF s \in Outs THEN "o_open" ELSE "i_open")

-----------------------------------------------------------------------------
\* out_write.  start_output_stream may fail after its retries; pcm_write may
\* fail; adev is released before the PCM blocks.

WriteAdev(t) ==
  /\ At(t, "w_adev")
  /\ Lock(t, "adev")
  /\ Goto(t, "w_out")
  /\ UNCHANGED <<stream, device, reference>>

WriteOut(t) ==
  /\ At(t, "w_out")
  /\ ~standby[obj[t]]
  /\ LockUnlock(t, obj[t], {"adev"})
  /\ Goto(t, "w_pcm")
  /\ UNCHANGED <<stream, device, reference>>

StartOutput(t) ==
  /\ At(t, "w_out")
  /\ standby[obj[t]]
  /\ Lock(t, obj[t])
  /\ pcm' = [pcm EXCEPT ![obj[t]] = TRUE]
  /\ standby' = [standby EXCEPT ![obj[t]] = FALSE]
  /\ active_output' = obj[t]
  /\ Goto(t, "w_run")
  /\ UNCHANGED <<open, active_input, mic_mute, lateSound, reference>>

StartOutputFails(t) ==
  /\ At(t, "w_out")
  /\ standby[obj[t]]
  /\ LockUnlock(t, obj[t], {"adev", obj[t]})
  /\ Return(t)
  /\ UNCHANGED <<stream, device, reference>>

\* Variants the run must refute: standby does not take the stream's mutex, does
\* not tell the canceller, or drops the reference, as closing does.

StandbyOutUnlocked(t) ==
  /\ At(t, "s_out")
  /\ pcm' = [pcm EXCEPT ![obj[t]] = FALSE]
  /\ active_output' = NoStream
  /\ standby' = [standby EXCEPT ![obj[t]] = TRUE]
  /\ Goto(t, "s_run")
  /\ UNCHANGED <<owner, open, active_input, mic_mute, lateSound, reference>>

StandbyUntold(t) ==
  /\ At(t, "s_run")
  /\ LockUnlock(t, "aec", {"aec", "adev", obj[t]})
  /\ Return(t)
  /\ UNCHANGED <<stream, device, reference>>

StandbyDestroys(t) ==
  /\ At(t, "s_run")
  /\ LockUnlock(t, "aec", {"aec", "adev", obj[t]})
  /\ spk_running' = FALSE
  /\ spk_initialized' = FALSE
  /\ fifo' = "freed"
  /\ Return(t)
  /\ UNCHANGED <<stream, device>>

\* aec_set_spk_running(true)
WriteRunning(t) ==
  /\ At(t, "w_run")
  /\ LockUnlock(t, "aec", {"aec", "adev"})
  /\ spk_running' = TRUE
  /\ Goto(t, "w_pcm")
  /\ UNCHANGED <<stream, device, spk_initialized, fifo>>

PcmWrite(t) ==
  /\ At(t, "w_pcm")
  /\ Goto(t, "w_spk")
  /\ UNCHANGED <<owner, stream, device, reference>>

PcmWriteFails(t) ==
  /\ At(t, "w_pcm")
  /\ Unlock({obj[t]})
  /\ Return(t)
  /\ UNCHANGED <<stream, device, reference>>

\* write_to_reference_fifo: samples, then their timestamp, without the aec lock.
WriteSamples(t) ==
  /\ At(t, "w_spk")
  /\ Goto(t, "w_ts")
  /\ UNCHANGED <<owner, stream, device, reference>>

WriteTimestamp(t) ==
  /\ At(t, "w_ts")
  /\ Unlock({obj[t]})
  /\ Return(t)
  /\ UNCHANGED <<stream, device, reference>>

-----------------------------------------------------------------------------
\* out_standby and out_set_parameters.

StandbyAdev(t) ==
  /\ At(t, "s_adev")
  /\ Lock(t, "adev")
  /\ Goto(t, "s_out")
  /\ UNCHANGED <<stream, device, reference>>

\* do_output_standby up to the call into the echo canceller.
StandbyOut(t) ==
  /\ At(t, "s_out")
  /\ Lock(t, obj[t])
  /\ IF standby[obj[t]] THEN UNCHANGED <<standby, pcm, active_output>>
     ELSE /\ pcm' = [pcm EXCEPT ![obj[t]] = FALSE]
          /\ active_output' = NoStream
          /\ standby' = [standby EXCEPT ![obj[t]] = TRUE]
  /\ Goto(t, "s_run")
  /\ UNCHANGED <<open, active_input, mic_mute, lateSound, reference>>

StandbyRunning(t) ==
  /\ At(t, "s_run")
  /\ LockUnlock(t, "aec", {"aec", "adev", obj[t]})
  /\ spk_running' = FALSE
  /\ Return(t)
  /\ UNCHANGED <<stream, device, spk_initialized, fifo>>

SetParametersAdev(t) ==
  /\ At(t, "p_adev")
  /\ Lock(t, "adev")
  /\ Goto(t, "p_out")
  /\ UNCHANGED <<stream, device, reference>>

\* Changes out->devices, which the next start reads.
SetParametersOut(t) ==
  /\ At(t, "p_out")
  /\ LockUnlock(t, obj[t], {"adev", obj[t]})
  /\ Return(t)
  /\ UNCHANGED <<stream, device, reference>>

-----------------------------------------------------------------------------
\* adev_open_output_stream and adev_close_output_stream: the reference is
\* made anew for every output that is opened, and goes with any that is closed.

\* destroy_aec_reference_config_no_lock; the pointers are left as they are.
DestroyReference ==
  IF spk_initialized
  THEN spk_running' = FALSE /\ fifo' = "freed" /\ spk_initialized' = FALSE
  ELSE UNCHANGED reference

OpenOutput(t) ==
  /\ At(t, "o_open")
  /\ Lock(t, "aec")
  /\ DestroyReference
  /\ Goto(t, "o_init")
  /\ UNCHANGED <<stream, device>>

InitReference(t) ==
  /\ At(t, "o_init")
  /\ fifo' = "live"
  /\ spk_initialized' = TRUE
  /\ Unlock({"aec"})
  /\ open' = open \cup {obj[t]}
  /\ Return(t)
  /\ UNCHANGED <<standby, pcm, device, spk_running>>

CloseOutput(t) ==
  /\ At(t, "o_close")
  /\ LockUnlock(t, "aec", {"aec"})
  /\ DestroyReference
  /\ open' = open \ {obj[t]}
  /\ Return(t)
  /\ UNCHANGED <<standby, pcm, device>>

-----------------------------------------------------------------------------
\* in_read of the microphone: here the stream's mutex is taken first.

ReadIn(t) ==
  /\ At(t, "r_in")
  /\ Lock(t, obj[t])
  /\ Goto(t, "r_adev")
  /\ UNCHANGED <<stream, device, reference>>

\* Variants the run must refute: adev is kept over the PCM; the wrong active
\* stream is set; the mute flag is not looked at.

ReadAdevKept(t) ==
  /\ At(t, "r_adev")
  /\ ~standby[obj[t]]
  /\ Lock(t, "adev")
  /\ Goto(t, "r_pcm")
  /\ UNCHANGED <<stream, device, reference>>

StartInputAsOutput(t) ==
  /\ At(t, "r_adev")
  /\ standby[obj[t]]
  /\ LockUnlock(t, "adev", {"adev"})
  /\ pcm' = [pcm EXCEPT ![obj[t]] = TRUE]
  /\ standby' = [standby EXCEPT ![obj[t]] = FALSE]
  /\ active_output' = obj[t]
  /\ Goto(t, "r_pcm")
  /\ UNCHANGED <<open, active_input, mic_mute, lateSound, reference>>

ReadAnyway(t) ==
  /\ At(t, "r_mute")
  /\ LockUnlock(t, "adev", {"adev"})
  /\ Goto(t, "r_sound")
  /\ UNCHANGED <<stream, device, reference>>

ReadAdev(t) ==
  /\ At(t, "r_adev")
  /\ ~standby[obj[t]]
  /\ LockUnlock(t, "adev", {"adev"})
  /\ Goto(t, "r_pcm")
  /\ UNCHANGED <<stream, device, reference>>

StartInput(t) ==
  /\ At(t, "r_adev")
  /\ standby[obj[t]]
  /\ LockUnlock(t, "adev", {"adev"})
  /\ pcm' = [pcm EXCEPT ![obj[t]] = TRUE]
  /\ standby' = [standby EXCEPT ![obj[t]] = FALSE]
  /\ active_input' = obj[t]
  /\ Goto(t, "r_pcm")
  /\ UNCHANGED <<open, active_output, mic_mute, lateSound, reference>>

StartInputFails(t) ==
  /\ At(t, "r_adev")
  /\ standby[obj[t]]
  /\ LockUnlock(t, "adev", {"adev", obj[t]})
  /\ Goto(t, "r_mute")
  /\ UNCHANGED <<stream, device, reference>>

PcmRead(t) ==
  /\ At(t, "r_pcm")
  /\ Unlock({obj[t]})
  /\ Goto(t, "r_mute")
  /\ UNCHANGED <<stream, device, reference>>

\* adev_get_mic_mute, after the audio was taken: a muted buffer is zeroed.
ReadMuted(t) ==
  /\ At(t, "r_mute")
  /\ mic_mute
  /\ LockUnlock(t, "adev", {"adev"})
  /\ Return(t)
  /\ UNCHANGED <<stream, device, reference>>

ReadUnmuted(t) ==
  /\ At(t, "r_mute")
  /\ ~mic_mute
  /\ LockUnlock(t, "adev", {"adev"})
  /\ Goto(t, "r_sound")
  /\ UNCHANGED <<stream, device, reference>>

ReturnSound(t) ==
  /\ At(t, "r_sound")
  /\ lateSound' = IF mic_mute /\ lateSound <= Cardinality(Mics) THEN lateSound + 1 ELSE lateSound
  /\ Return(t)
  /\ UNCHANGED <<owner, stream, active_output, active_input, mic_mute, reference>>

SetMicMute(t, state) ==
  /\ At(t, "idle")
  /\ LockUnlock(t, "adev", {"adev"})
  /\ mic_mute' = state
  /\ lateSound' = 0
  /\ UNCHANGED <<thread, stream, active_output, active_input, reference>>

-----------------------------------------------------------------------------
\* in_standby, and opening and closing an input stream.

InStandbyIn(t) ==
  /\ At(t, "i_in")
  /\ Lock(t, obj[t])
  /\ Goto(t, "i_adev")
  /\ UNCHANGED <<stream, device, reference>>

InStandbyAdev(t) ==
  /\ At(t, "i_adev")
  /\ LockUnlock(t, "adev", {"adev", obj[t]})
  /\ IF standby[obj[t]] THEN UNCHANGED <<standby, pcm, active_input>>
     ELSE /\ pcm' = [pcm EXCEPT ![obj[t]] = FALSE]
          /\ active_input' = NoStream
          /\ standby' = [standby EXCEPT ![obj[t]] = TRUE]
  /\ Return(t)
  /\ UNCHANGED <<open, active_output, mic_mute, lateSound, reference>>

\* Only an echo reference stream sets up the canceller's microphone side,
\* which ends with a flush of the FIFOs.
OpenInput(t) ==
  /\ At(t, "i_open")
  /\ obj[t] \in Mics
  /\ open' = open \cup {obj[t]}
  /\ Return(t)
  /\ UNCHANGED <<owner, standby, pcm, device, reference>>

OpenEcho(t) ==
  /\ At(t, "i_open")
  /\ obj[t] \in Echoes
  /\ Lock(t, "aec")
  /\ Goto(t, "i_flush")
  /\ UNCHANGED <<stream, device, reference>>

FlushFifos(t) ==
  /\ At(t, "i_flush")
  /\ Unlock({"aec"})
  /\ open' = open \cup {obj[t]}
  /\ Return(t)
  /\ UNCHANGED <<standby, pcm, device, reference>>

CloseInput(t) ==
  /\ At(t, "i_close")
  /\ obj[t] \in Echoes => owner["aec"] = NoThread
  /\ open' = open \ {obj[t]}
  /\ Return(t)
  /\ UNCHANGED <<owner, standby, pcm, device, reference>>

-----------------------------------------------------------------------------
\* in_read of the echo reference: no mutex but for the question whether the
\* speaker is running; get_reference_samples checks spk_initialized once.

EchoRunning(t) ==
  /\ At(t, "e_run")
  /\ LockUnlock(t, "aec", {"aec"})
  /\ IF spk_running THEN Goto(t, "e_check") ELSE Return(t)
  /\ UNCHANGED <<stream, device, reference>>

EchoCheck(t) ==
  /\ At(t, "e_check")
  /\ IF spk_initialized THEN Goto(t, "e_fifo") ELSE Return(t)
  /\ UNCHANGED <<owner, stream, device, reference>>

\* It polls the FIFO for up to 80 ms, reads samples and timestamps, returns.
EchoRead(t) ==
  /\ At(t, "e_fifo")
  /\ Return(t)
  /\ UNCHANGED <<owner, stream, device, reference>>

-----------------------------------------------------------------------------
OutStep(t) ==
  \/ WriteAdev(t) \/ WriteOut(t) \/ StartOutput(t) \/ StartOutputFails(t)
  \/ WriteRunning(t) \/ PcmWrite(t) \/ PcmWriteFails(t)
  \/ WriteSamples(t) \/ WriteTimestamp(t)
  \/ StandbyAdev(t) \/ StandbyOut(t) \/ StandbyRunning(t)
  \/ SetParametersAdev(t) \/ SetParametersOut(t)
  \/ OpenOutput(t) \/ InitReference(t) \/ CloseOutput(t)

InStep(t) ==
  \/ ReadIn(t) \/ ReadAdev(t) \/ StartInput(t) \/ StartInputFails(t) \/ PcmRead(t)
  \/ ReadMuted(t) \/ ReadUnmuted(t) \/ ReturnSound(t)
  \/ InStandbyIn(t) \/ InStandbyAdev(t)
  \/ OpenInput(t) \/ OpenEcho(t) \/ FlushFifos(t) \/ CloseInput(t)
  \/ EchoRunning(t) \/ EchoCheck(t) \/ EchoRead(t)

Next ==
  \E t \in Threads :
    \/ Begin(t)
    \/ \E state \in BOOLEAN : SetMicMute(t, state)
    \/ OutStep(t)
    \/ InStep(t)

Spec == Init /\ [][Next]_vars

-----------------------------------------------------------------------------
Places ==
  Data \cup Closing \cup
  {"idle", "s_adev", "s_out", "s_run", "p_adev", "p_out", "o_open", "o_init",
   "i_in", "i_adev", "i_open", "i_flush"}

TypeOK ==
  /\ owner \in [Locks -> Threads \cup {NoThread}]
  /\ pc \in [Threads -> Places]
  /\ obj \in [Threads -> Streams \cup {NoStream}]
  /\ open \subseteq Streams
  /\ standby \in [Streams -> BOOLEAN] /\ pcm \in [Streams -> BOOLEAN]
  /\ active_output \in Outs \cup {NoStream} /\ active_input \in Mics \cup {NoStream}
  /\ mic_mute \in BOOLEAN /\ spk_running \in BOOLEAN /\ spk_initialized \in BOOLEAN
  /\ fifo \in {"NULL", "live", "freed"}
  /\ lateSound \in Nat

\* The mutex a thread is about to take; NoStream when it is not waiting.
Wants(t) ==
  CASE pc[t] \in {"w_adev", "s_adev", "p_adev", "r_adev", "r_mute", "i_adev"} -> "adev"
    [] pc[t] \in {"w_out", "s_out", "p_out", "r_in", "i_in"}                  -> obj[t]
    [] pc[t] \in {"w_run", "s_run", "o_open", "o_close", "e_run"}             -> "aec"
    [] pc[t] \in {"i_open", "i_close"} /\ obj[t] \in Echoes                   -> "aec"
    [] OTHER                                                                  -> NoStream

\* Output calls take adev before the stream, input calls the stream before
\* adev ("see notes in in_read/out_write on mutex acquisition order"): still no
\* set of threads waits only for one another.
NoCircularWait ==
  \A T \in (SUBSET Threads) \ {{}} :
    \E t \in T : Wants(t) = NoStream \/ owner[Wants(t)] \notin T

\* adev is released before the PCM blocks, and standby closes the PCM from
\* another thread: still nobody is ever in a PCM that is not open, nor do two
\* threads use the same one.
UsesPcm(t, s) == obj[t] = s /\ pc[t] \in {"w_pcm", "w_spk", "r_pcm"}

PcmIsOpen ==
  \A s \in Streams, t \in Threads :
    UsesPcm(t, s) => pcm[s] /\ ~standby[s] /\ \A u \in Threads \ {t} : ~UsesPcm(u, s)

\* "Used to communicate playback state (running or not) to the caller": when no
\* transition is under way, the flag, and the device's active output, say
\* whether some output plays.
PlaybackIsTold ==
  owner["adev"] = NoThread =>
    /\ spk_running <=> \E o \in Outs : ~standby[o]
    /\ active_output # NoStream <=> spk_running

\* An output that is written to has the FIFOs its samples go into.
WriterHasReference ==
  \A t \in Threads : pc[t] \in {"w_spk", "w_ts"} => fifo = "live"

\* in_read asks for mic_mute after the audio was taken: once set_mic_mute(true)
\* has returned, each microphone stream returns sound at most once.
MuteIsPrompt == lateSound <= Cardinality(Mics)

\* get_reference_samples returns "-EINVAL if the AEC object is invalid" and
\* samples otherwise: it does not go on reading when the FIFOs are gone.
ReaderHasReference == \A t \in Threads : pc[t] = "e_fifo" => fifo = "live"
-----------------------------------------------------------------------------
(* The inductive invariant behind the safety properties, by subject. *)

\* Which mutexes a thread holds is told by where it is.
Holds(t, l) ==
  \/ l = "adev" /\ pc[t] \in {"w_out", "w_run", "s_out", "s_run", "p_out"}
  \/ l = "aec" /\ pc[t] \in {"o_init", "i_flush"}
  \/ l = obj[t] /\ pc[t] \in {"w_run", "w_pcm", "w_spk", "w_ts", "s_run",
                             "r_adev", "r_pcm", "i_adev"}

LockInv == \A t \in Threads, l \in Locks : owner[l] = t <=> Holds(t, l)

\* Every call is for a stream of its kind.
OutPlaces == {"w_adev", "w_out", "w_run", "w_pcm", "w_spk", "w_ts", "s_adev", "s_out", "s_run",
              "p_adev", "p_out", "o_open", "o_init", "o_close"}
MicPlaces == {"r_in", "r_adev", "r_pcm", "r_mute", "r_sound"}
EchoPlaces == {"e_run", "e_check", "e_fifo", "i_flush"}
InPlaces == {"i_in", "i_adev", "i_open", "i_close"}

ObjInv ==
  \A t \in Threads :
    /\ pc[t] = "idle" <=> obj[t] = NoStream
    /\ pc[t] \in OutPlaces => obj[t] \in Outs
    /\ pc[t] \in MicPlaces => obj[t] \in Mics
    /\ pc[t] \in EchoPlaces => obj[t] \in Echoes
    /\ pc[t] \in InPlaces => obj[t] \in Ins

\* A stream is out of standby exactly while its PCM is open, and in it while
\* it is not open or being opened or closed, when one thread at most is at it.
StreamInv ==
  /\ \A s \in Streams : pcm[s] <=> ~standby[s]
  /\ \A t \in Threads :
       /\ pc[t] \in {"w_run", "w_pcm", "w_spk", "r_pcm"} => ~standby[obj[t]]
       /\ pc[t] = "s_run" => standby[obj[t]]

Exclusive == {"o_open", "o_init", "o_close", "i_open", "i_flush", "i_close"}

OpenInv ==
  /\ \A s \in Streams \ open : standby[s]
  /\ \A t \in Threads :
       /\ pc[t] \in Exclusive => standby[obj[t]] /\ \A u \in Threads \ {t} : obj[u] # obj[t]
       /\ pc[t] \in {"o_open", "o_init", "i_open", "i_flush"} <=>
            pc[t] # "idle" /\ obj[t] \notin open

\* A stream has one reader or writer; while the microphone is muted, those that have seen it
\* unmuted and have yet to return sound are as many as still may.
ReaderInv ==
  \A t, u \in Threads : t # u /\ pc[t] \in Data /\ pc[u] \in Data => obj[t] # obj[u]

Late == {s \in Mics : \E t \in Threads : pc[t] = "r_sound" /\ obj[t] = s}
MuteInv ==
  IF mic_mute THEN lateSound + Cardinality(Late) <= Cardinality(Mics) ELSE lateSound = 0

\* With one output, what is told of playback lags behind only in the two
\* transitions, and the reference exists while the output is open.
ToldInv(o) ==
  /\ active_output \in {o, NoStream} /\ (active_output = o <=> ~standby[o])
  /\ (\A t \in Threads : pc[t] \notin {"w_run", "s_run"}) => (spk_running <=> ~standby[o])
  /\ o \in open => fifo = "live" /\ spk_initialized
=============================================================================
