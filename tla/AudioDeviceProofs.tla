--------------------------- MODULE AudioDeviceProofs ---------------------------
(***************************************************************************)
(* Theorems about AudioDevice, for any number of threads and streams; the  *)
(* two about playback and its reference are for one output.                *)
(***************************************************************************)
EXTENDS AudioDevice, FiniteSetTheorems, TLAPS

\* Every variable keeps its type, and every call is for a stream of its kind.
LEMMA TypedCalls == Spec => [](TypeOK /\ ObjInv)
<1>1. Init => TypeOK /\ ObjInv
  <2> SUFFICES ASSUME Init PROVE TypeOK /\ ObjInv
    OBVIOUS
  <2>1. /\ owner \in [Locks -> Threads \cup {NoThread}]
        /\ standby \in [Streams -> BOOLEAN] /\ pcm \in [Streams -> BOOLEAN]
    BY DEF Init
  <2>2. pc \in [Threads -> Places] /\ obj \in [Threads -> Streams \cup {NoStream}]
    BY DEF Init, Places
  <2>3. ObjInv
    BY DEF Init, ObjInv, OutPlaces, MicPlaces, EchoPlaces, InPlaces
  <2>4. QED
    BY <2>1, <2>2, <2>3 DEF Init, TypeOK
<1>2. TypeOK /\ ObjInv /\ [Next]_vars => TypeOK' /\ ObjInv'
  <2> SUFFICES ASSUME TypeOK, ObjInv, [Next]_vars PROVE TypeOK' /\ ObjInv'
    OBVIOUS
  <2>1. TypeOK'
    <3> USE DEF TypeOK, Places, Data, Closing, Lock, Unlock, LockUnlock, At, Goto, Return,
                thread, stream, device, reference
    <3>1. ASSUME NEW t \in Threads, Begin(t) PROVE TypeOK'
      BY <3>1 DEF Begin, Call, Data, Closing
    <3>2. ASSUME NEW t \in Threads, NEW state \in BOOLEAN, SetMicMute(t, state) PROVE TypeOK'
      BY <3>2 DEF SetMicMute
    <3>3. ASSUME NEW t \in Threads, OutStep(t) PROVE TypeOK'
      <4>1. CASE WriteAdev(t)
        BY <4>1 DEF WriteAdev
      <4>2. CASE WriteOut(t)
        BY <4>2 DEF WriteOut
      <4>3. CASE StartOutput(t)
        <5>1. obj[t] \in Outs
          BY <4>3 DEF StartOutput, ObjInv, OutPlaces
        <5>2. QED
          BY <4>3, <5>1 DEF StartOutput, Streams
      <4>4. CASE StartOutputFails(t)
        BY <4>4 DEF StartOutputFails
      <4>5. CASE WriteRunning(t)
        BY <4>5 DEF WriteRunning
      <4>6. CASE PcmWrite(t)
        BY <4>6 DEF PcmWrite
      <4>7. CASE PcmWriteFails(t)
        BY <4>7 DEF PcmWriteFails
      <4>8. CASE WriteSamples(t)
        BY <4>8 DEF WriteSamples
      <4>9. CASE WriteTimestamp(t)
        BY <4>9 DEF WriteTimestamp
      <4>10. CASE StandbyAdev(t)
        BY <4>10 DEF StandbyAdev
      <4>11. CASE StandbyOut(t)
        BY <4>11 DEF StandbyOut
      <4>12. CASE StandbyRunning(t)
        BY <4>12 DEF StandbyRunning
      <4>13. CASE SetParametersAdev(t)
        BY <4>13 DEF SetParametersAdev
      <4>14. CASE SetParametersOut(t)
        BY <4>14 DEF SetParametersOut
      <4>15. CASE OpenOutput(t)
        BY <4>15 DEF OpenOutput, DestroyReference
      <4>16. CASE InitReference(t)
        <5>1. obj[t] \in Streams
          BY <4>16 DEF InitReference, ObjInv, OutPlaces, Streams
        <5>2. QED
          BY <4>16, <5>1 DEF InitReference
      <4>17. CASE CloseOutput(t)
        BY <4>17 DEF CloseOutput, DestroyReference
      <4>18. QED
        BY <3>3, <4>1, <4>2, <4>3, <4>4, <4>5, <4>6, <4>7, <4>8, <4>9, <4>10, <4>11,
           <4>12, <4>13, <4>14, <4>15, <4>16, <4>17 DEF OutStep
    <3>4. ASSUME NEW t \in Threads, InStep(t) PROVE TypeOK'
      <4>1. CASE ReadIn(t)
        BY <4>1 DEF ReadIn
      <4>2. CASE ReadAdev(t)
        BY <4>2 DEF ReadAdev
      <4>3. CASE StartInput(t)
        <5>1. obj[t] \in Mics
          BY <4>3 DEF StartInput, ObjInv, MicPlaces
        <5>2. QED
          BY <4>3, <5>1 DEF StartInput, Streams, Ins
      <4>4. CASE StartInputFails(t)
        BY <4>4 DEF StartInputFails
      <4>5. CASE PcmRead(t)
        BY <4>5 DEF PcmRead
      <4>6. CASE ReadMuted(t)
        BY <4>6 DEF ReadMuted
      <4>7. CASE ReadUnmuted(t)
        BY <4>7 DEF ReadUnmuted
      <4>8. CASE ReturnSound(t)
        BY <4>8 DEF ReturnSound
      <4>9. CASE InStandbyIn(t)
        BY <4>9 DEF InStandbyIn
      <4>10. CASE InStandbyAdev(t)
        BY <4>10 DEF InStandbyAdev
      <4>11. CASE OpenInput(t)
        <5>1. obj[t] \in Streams
          BY <4>11 DEF OpenInput, ObjInv, InPlaces, Streams
        <5>2. QED
          BY <4>11, <5>1 DEF OpenInput
      <4>12. CASE OpenEcho(t)
        BY <4>12 DEF OpenEcho
      <4>13. CASE FlushFifos(t)
        <5>1. obj[t] \in Streams
          BY <4>13 DEF FlushFifos, ObjInv, EchoPlaces, Streams, Ins
        <5>2. QED
          BY <4>13, <5>1 DEF FlushFifos
      <4>14. CASE CloseInput(t)
        BY <4>14 DEF CloseInput
      <4>15. CASE EchoRunning(t)
        BY <4>15 DEF EchoRunning
      <4>16. CASE EchoCheck(t)
        BY <4>16 DEF EchoCheck
      <4>17. CASE EchoRead(t)
        BY <4>17 DEF EchoRead
      <4>18. QED
        BY <3>4, <4>1, <4>2, <4>3, <4>4, <4>5, <4>6, <4>7, <4>8, <4>9, <4>10, <4>11,
           <4>12, <4>13, <4>14, <4>15, <4>16, <4>17 DEF InStep
    <3>5. CASE UNCHANGED vars
      BY <3>5 DEF vars
    <3>6. QED
      BY <3>1, <3>2, <3>3, <3>4, <3>5 DEF Next
  <2>2. ObjInv'
    <3> USE AudioDeviceAssumption
            DEF TypeOK, ObjInv, OutPlaces, MicPlaces, EchoPlaces, InPlaces, Streams, Ins,
                Lock, Unlock, LockUnlock, At, Goto, Return, thread, stream, device,
                reference
    <3>1. ASSUME NEW t \in Threads, Begin(t) PROVE ObjInv'
      BY <3>1 DEF Begin, Call, Data, Closing
    <3>2. ASSUME NEW t \in Threads, NEW state \in BOOLEAN, SetMicMute(t, state) PROVE ObjInv'
      BY <3>2 DEF SetMicMute
    <3>3. ASSUME NEW t \in Threads, OutStep(t) PROVE ObjInv'
      <4>1. CASE WriteAdev(t)
        BY <4>1 DEF WriteAdev
      <4>2. CASE WriteOut(t)
        BY <4>2 DEF WriteOut
      <4>3. CASE StartOutput(t)
        BY <4>3 DEF StartOutput
      <4>4. CASE StartOutputFails(t)
        BY <4>4 DEF StartOutputFails
      <4>5. CASE WriteRunning(t)
        BY <4>5 DEF WriteRunning
      <4>6. CASE PcmWrite(t)
        BY <4>6 DEF PcmWrite
      <4>7. CASE PcmWriteFails(t)
        BY <4>7 DEF PcmWriteFails
      <4>8. CASE WriteSamples(t)
        BY <4>8 DEF WriteSamples
      <4>9. CASE WriteTimestamp(t)
        BY <4>9 DEF WriteTimestamp
      <4>10. CASE StandbyAdev(t)
        BY <4>10 DEF StandbyAdev
      <4>11. CASE StandbyOut(t)
        BY <4>11 DEF StandbyOut
      <4>12. CASE StandbyRunning(t)
        BY <4>12 DEF StandbyRunning
      <4>13. CASE SetParametersAdev(t)
        BY <4>13 DEF SetParametersAdev
      <4>14. CASE SetParametersOut(t)
        BY <4>14 DEF SetParametersOut
      <4>15. CASE OpenOutput(t)
        BY <4>15 DEF OpenOutput, DestroyReference
      <4>16. CASE InitReference(t)
        BY <4>16 DEF InitReference
      <4>17. CASE CloseOutput(t)
        BY <4>17 DEF CloseOutput, DestroyReference
      <4>18. QED
        BY <3>3, <4>1, <4>2, <4>3, <4>4, <4>5, <4>6, <4>7, <4>8, <4>9, <4>10, <4>11,
           <4>12, <4>13, <4>14, <4>15, <4>16, <4>17 DEF OutStep
    <3>4. ASSUME NEW t \in Threads, InStep(t) PROVE ObjInv'
      <4>1. CASE ReadIn(t)
        BY <4>1 DEF ReadIn
      <4>2. CASE ReadAdev(t)
        BY <4>2 DEF ReadAdev
      <4>3. CASE StartInput(t)
        BY <4>3 DEF StartInput
      <4>4. CASE StartInputFails(t)
        BY <4>4 DEF StartInputFails
      <4>5. CASE PcmRead(t)
        BY <4>5 DEF PcmRead
      <4>6. CASE ReadMuted(t)
        BY <4>6 DEF ReadMuted
      <4>7. CASE ReadUnmuted(t)
        BY <4>7 DEF ReadUnmuted
      <4>8. CASE ReturnSound(t)
        BY <4>8 DEF ReturnSound
      <4>9. CASE InStandbyIn(t)
        BY <4>9 DEF InStandbyIn
      <4>10. CASE InStandbyAdev(t)
        BY <4>10 DEF InStandbyAdev
      <4>11. CASE OpenInput(t)
        BY <4>11 DEF OpenInput
      <4>12. CASE OpenEcho(t)
        BY <4>12 DEF OpenEcho
      <4>13. CASE FlushFifos(t)
        BY <4>13 DEF FlushFifos
      <4>14. CASE CloseInput(t)
        BY <4>14 DEF CloseInput
      <4>15. CASE EchoRunning(t)
        BY <4>15 DEF EchoRunning
      <4>16. CASE EchoCheck(t)
        BY <4>16 DEF EchoCheck
      <4>17. CASE EchoRead(t)
        BY <4>17 DEF EchoRead
      <4>18. QED
        BY <3>4, <4>1, <4>2, <4>3, <4>4, <4>5, <4>6, <4>7, <4>8, <4>9, <4>10, <4>11,
           <4>12, <4>13, <4>14, <4>15, <4>16, <4>17 DEF InStep
    <3>5. CASE UNCHANGED vars
      BY <3>5 DEF vars
    <3>6. QED
      BY <3>1, <3>2, <3>3, <3>4, <3>5 DEF Next
  <2>3. QED
    BY <2>1, <2>2
<1>3. QED
  BY <1>1, <1>2, PTL DEF Spec

\* Every variable keeps its type.
THEOREM TypeInvariant == Spec => []TypeOK
<1>1. QED
  BY TypedCalls, PTL

-----------------------------------------------------------------------------
\* Which mutexes a thread holds is told by where it is.
LEMMA LockInvariant == Spec => []LockInv
<1>1. Init => LockInv
  BY AudioDeviceAssumption DEF Init, LockInv, Holds, Streams, Locks
<1>2. TypeOK /\ ObjInv /\ LockInv /\ Next
      => LockInv'
  <2> SUFFICES ASSUME TypeOK, ObjInv, LockInv, Next
               PROVE  LockInv'
    OBVIOUS
  <2> USE AudioDeviceAssumption
          DEF TypeOK, ObjInv, LockInv, Holds, OutPlaces, MicPlaces, EchoPlaces, InPlaces,
              Streams, Ins, Locks, Lock, Unlock, LockUnlock, At, Goto, Return, thread,
              stream, device, reference
  <2>1. ASSUME NEW t \in Threads, Begin(t) PROVE LockInv'
    BY <2>1 DEF Begin, Call, Data, Closing
  <2>2. ASSUME NEW t \in Threads, NEW state \in BOOLEAN, SetMicMute(t, state) PROVE LockInv'
    BY <2>2 DEF SetMicMute
  <2>3. ASSUME NEW t \in Threads, OutStep(t) PROVE LockInv'
    <3>1. CASE WriteAdev(t)
      BY <3>1 DEF WriteAdev
    <3>2. CASE WriteOut(t)
      BY <3>2 DEF WriteOut
    <3>3. CASE StartOutput(t)
      BY <3>3 DEF StartOutput
    <3>4. CASE StartOutputFails(t)
      BY <3>4 DEF StartOutputFails
    <3>5. CASE WriteRunning(t)
      BY <3>5 DEF WriteRunning
    <3>6. CASE PcmWrite(t)
      BY <3>6 DEF PcmWrite
    <3>7. CASE PcmWriteFails(t)
      BY <3>7 DEF PcmWriteFails
    <3>8. CASE WriteSamples(t)
      BY <3>8 DEF WriteSamples
    <3>9. CASE WriteTimestamp(t)
      BY <3>9 DEF WriteTimestamp
    <3>10. CASE StandbyAdev(t)
      BY <3>10 DEF StandbyAdev
    <3>11. CASE StandbyOut(t)
      BY <3>11 DEF StandbyOut
    <3>12. CASE StandbyRunning(t)
      BY <3>12 DEF StandbyRunning
    <3>13. CASE SetParametersAdev(t)
      BY <3>13 DEF SetParametersAdev
    <3>14. CASE SetParametersOut(t)
      BY <3>14 DEF SetParametersOut
    <3>15. CASE OpenOutput(t)
      BY <3>15 DEF OpenOutput, DestroyReference
    <3>16. CASE InitReference(t)
      BY <3>16 DEF InitReference
    <3>17. CASE CloseOutput(t)
      BY <3>17 DEF CloseOutput, DestroyReference
    <3>18. QED
      BY <2>3, <3>1, <3>2, <3>3, <3>4, <3>5, <3>6, <3>7, <3>8, <3>9, <3>10, <3>11, <3>12,
         <3>13, <3>14, <3>15, <3>16, <3>17 DEF OutStep
  <2>4. ASSUME NEW t \in Threads, InStep(t) PROVE LockInv'
    <3>1. CASE ReadIn(t)
      BY <3>1 DEF ReadIn
    <3>2. CASE ReadAdev(t)
      BY <3>2 DEF ReadAdev
    <3>3. CASE StartInput(t)
      BY <3>3 DEF StartInput
    <3>4. CASE StartInputFails(t)
      BY <3>4 DEF StartInputFails
    <3>5. CASE PcmRead(t)
      BY <3>5 DEF PcmRead
    <3>6. CASE ReadMuted(t)
      BY <3>6 DEF ReadMuted
    <3>7. CASE ReadUnmuted(t)
      BY <3>7 DEF ReadUnmuted
    <3>8. CASE ReturnSound(t)
      BY <3>8 DEF ReturnSound
    <3>9. CASE InStandbyIn(t)
      BY <3>9 DEF InStandbyIn
    <3>10. CASE InStandbyAdev(t)
      BY <3>10 DEF InStandbyAdev
    <3>11. CASE OpenInput(t)
      BY <3>11 DEF OpenInput
    <3>12. CASE OpenEcho(t)
      BY <3>12 DEF OpenEcho
    <3>13. CASE FlushFifos(t)
      BY <3>13 DEF FlushFifos
    <3>14. CASE CloseInput(t)
      BY <3>14 DEF CloseInput
    <3>15. CASE EchoRunning(t)
      BY <3>15 DEF EchoRunning
    <3>16. CASE EchoCheck(t)
      BY <3>16 DEF EchoCheck
    <3>17. CASE EchoRead(t)
      BY <3>17 DEF EchoRead
    <3>18. QED
      BY <2>4, <3>1, <3>2, <3>3, <3>4, <3>5, <3>6, <3>7, <3>8, <3>9, <3>10, <3>11, <3>12,
         <3>13, <3>14, <3>15, <3>16, <3>17 DEF InStep
  <2> QED
    BY <2>1, <2>2, <2>3, <2>4 DEF Next
<1>3. LockInv /\ UNCHANGED vars => LockInv'
  BY DEF vars, thread, stream, device, reference, LockInv, Holds
<1> QED
  BY <1>1, <1>2, <1>3, TypedCalls, PTL DEF Spec

\* A thread in a PCM, or past the standby of its stream, holds that stream.
LEMMA OthersHold ==
  ASSUME LockInv, NEW u \in Threads, obj[u] \in Locks,
         pc[u] \in {"w_run", "w_pcm", "w_spk", "w_ts", "r_pcm", "s_run"}
  PROVE  owner[obj[u]] = u
BY DEF LockInv, Holds

-----------------------------------------------------------------------------
\* Who is in a PCM has started the stream, and standby needs the stream's mutex.
LEMMA StreamInvariant == Spec => []StreamInv
<1>1. Init => StreamInv
  BY DEF Init, StreamInv
<1>2. TypeOK /\ ObjInv /\ LockInv /\ StreamInv /\ Next
      => StreamInv'
  <2> SUFFICES ASSUME TypeOK, ObjInv, LockInv, StreamInv, Next
               PROVE  StreamInv'
    OBVIOUS
  <2> USE AudioDeviceAssumption
          DEF TypeOK, ObjInv, LockInv, Holds, StreamInv, OutPlaces, MicPlaces, EchoPlaces,
              InPlaces, Streams, Ins, Locks, Lock, Unlock, LockUnlock, At, Goto, Return,
              thread, stream, device, reference
  <2>1. ASSUME NEW t \in Threads, Begin(t) PROVE StreamInv'
    BY <2>1 DEF Begin, Call, Data, Closing
  <2>2. ASSUME NEW t \in Threads, NEW state \in BOOLEAN, SetMicMute(t, state) PROVE StreamInv'
    BY <2>2 DEF SetMicMute
  <2>3. ASSUME NEW t \in Threads, OutStep(t) PROVE StreamInv'
    <3>1. CASE WriteAdev(t)
      BY <3>1 DEF WriteAdev
    <3>2. CASE WriteOut(t)
      BY <3>2 DEF WriteOut
    <3>3. CASE StartOutput(t)
      BY <3>3 DEF StartOutput
    <3>4. CASE StartOutputFails(t)
      BY <3>4 DEF StartOutputFails
    <3>5. CASE WriteRunning(t)
      BY <3>5 DEF WriteRunning
    <3>6. CASE PcmWrite(t)
      BY <3>6 DEF PcmWrite
    <3>7. CASE PcmWriteFails(t)
      BY <3>7 DEF PcmWriteFails
    <3>8. CASE WriteSamples(t)
      BY <3>8 DEF WriteSamples
    <3>9. CASE WriteTimestamp(t)
      BY <3>9 DEF WriteTimestamp
    <3>10. CASE StandbyAdev(t)
      BY <3>10 DEF StandbyAdev
    <3>11. CASE StandbyOut(t)
      <4>1. obj[t] \in Outs /\ owner[obj[t]] \notin Threads
        BY <3>11 DEF StandbyOut
      <4>2. \A u \in Threads \ {t} :
               pc[u] \in {"w_run", "w_pcm", "w_spk", "r_pcm", "s_run"} => obj[u] # obj[t]
        BY <4>1, OthersHold
      <4>3. \A s \in Streams : pcm'[s] <=> ~standby'[s]
        BY <3>11, <4>1 DEF StandbyOut
      <4>4. pc' = [pc EXCEPT ![t] = "s_run"] /\ obj' = obj
             /\ standby' = [standby EXCEPT ![obj[t]] = TRUE]
        BY <3>11, <4>1 DEF StandbyOut
      <4>5. QED
        BY <4>1, <4>2, <4>3, <4>4
    <3>12. CASE StandbyRunning(t)
      BY <3>12 DEF StandbyRunning
    <3>13. CASE SetParametersAdev(t)
      BY <3>13 DEF SetParametersAdev
    <3>14. CASE SetParametersOut(t)
      BY <3>14 DEF SetParametersOut
    <3>15. CASE OpenOutput(t)
      BY <3>15 DEF OpenOutput, DestroyReference
    <3>16. CASE InitReference(t)
      BY <3>16 DEF InitReference
    <3>17. CASE CloseOutput(t)
      BY <3>17 DEF CloseOutput, DestroyReference
    <3>18. QED
      BY <2>3, <3>1, <3>2, <3>3, <3>4, <3>5, <3>6, <3>7, <3>8, <3>9, <3>10, <3>11, <3>12,
         <3>13, <3>14, <3>15, <3>16, <3>17 DEF OutStep
  <2>4. ASSUME NEW t \in Threads, InStep(t) PROVE StreamInv'
    <3>1. CASE ReadIn(t)
      BY <3>1 DEF ReadIn
    <3>2. CASE ReadAdev(t)
      BY <3>2 DEF ReadAdev
    <3>3. CASE StartInput(t)
      BY <3>3 DEF StartInput
    <3>4. CASE StartInputFails(t)
      BY <3>4 DEF StartInputFails
    <3>5. CASE PcmRead(t)
      BY <3>5 DEF PcmRead
    <3>6. CASE ReadMuted(t)
      BY <3>6 DEF ReadMuted
    <3>7. CASE ReadUnmuted(t)
      BY <3>7 DEF ReadUnmuted
    <3>8. CASE ReturnSound(t)
      BY <3>8 DEF ReturnSound
    <3>9. CASE InStandbyIn(t)
      BY <3>9 DEF InStandbyIn
    <3>10. CASE InStandbyAdev(t)
      <4>1. obj[t] \in Ins /\ owner[obj[t]] = t
        BY <3>10 DEF InStandbyAdev
      <4>2. \A u \in Threads \ {t} :
               pc[u] \in {"w_run", "w_pcm", "w_spk", "r_pcm", "s_run"} => obj[u] # obj[t]
        BY <4>1, OthersHold
      <4>3. \A s \in Streams : pcm'[s] <=> ~standby'[s]
        BY <3>10, <4>1 DEF InStandbyAdev
      <4>4. /\ pc' = [pc EXCEPT ![t] = "idle"] /\ obj' = [obj EXCEPT ![t] = NoStream]
             /\ standby' = [standby EXCEPT ![obj[t]] = TRUE]
        BY <3>10, <4>1 DEF InStandbyAdev
      <4>5. QED
        BY <4>1, <4>2, <4>3, <4>4
    <3>11. CASE OpenInput(t)
      BY <3>11 DEF OpenInput
    <3>12. CASE OpenEcho(t)
      BY <3>12 DEF OpenEcho
    <3>13. CASE FlushFifos(t)
      BY <3>13 DEF FlushFifos
    <3>14. CASE CloseInput(t)
      BY <3>14 DEF CloseInput
    <3>15. CASE EchoRunning(t)
      BY <3>15 DEF EchoRunning
    <3>16. CASE EchoCheck(t)
      BY <3>16 DEF EchoCheck
    <3>17. CASE EchoRead(t)
      BY <3>17 DEF EchoRead
    <3>18. QED
      BY <2>4, <3>1, <3>2, <3>3, <3>4, <3>5, <3>6, <3>7, <3>8, <3>9, <3>10, <3>11, <3>12,
         <3>13, <3>14, <3>15, <3>16, <3>17 DEF InStep
  <2> QED
    BY <2>1, <2>2, <2>3, <2>4 DEF Next
<1>3. StreamInv /\ UNCHANGED vars => StreamInv'
  BY DEF vars, thread, stream, device, reference, StreamInv
<1> QED
  BY <1>1, <1>2, <1>3, TypedCalls, LockInvariant, PTL DEF Spec

-----------------------------------------------------------------------------
\* Opening and closing are alone with their stream, which is in standby.
LEMMA OpenInvariant == Spec => []OpenInv
<1>1. Init => OpenInv
  BY DEF Init, OpenInv, Exclusive
<1>2. TypeOK /\ ObjInv /\ OpenInv /\ Next
      => OpenInv'
  <2> SUFFICES ASSUME TypeOK, ObjInv, OpenInv, Next
               PROVE  OpenInv'
    OBVIOUS
  <2> USE AudioDeviceAssumption
          DEF TypeOK, ObjInv, OpenInv, Exclusive, OutPlaces, MicPlaces, EchoPlaces,
              InPlaces, Streams, Ins, Lock, Unlock, LockUnlock, At, Goto, Return, thread,
              stream, device, reference
  <2>1. ASSUME NEW t \in Threads, Begin(t) PROVE OpenInv'
    BY <2>1 DEF Begin, Call, Unused, MayControl, MayRun, Data, Closing
  <2>2. ASSUME NEW t \in Threads, NEW state \in BOOLEAN, SetMicMute(t, state) PROVE OpenInv'
    BY <2>2 DEF SetMicMute
  <2>3. ASSUME NEW t \in Threads, OutStep(t) PROVE OpenInv'
    <3>1. CASE WriteAdev(t)
      BY <3>1 DEF WriteAdev
    <3>2. CASE WriteOut(t)
      BY <3>2 DEF WriteOut
    <3>3. CASE StartOutput(t)
      BY <3>3 DEF StartOutput
    <3>4. CASE StartOutputFails(t)
      BY <3>4 DEF StartOutputFails
    <3>5. CASE WriteRunning(t)
      BY <3>5 DEF WriteRunning
    <3>6. CASE PcmWrite(t)
      BY <3>6 DEF PcmWrite
    <3>7. CASE PcmWriteFails(t)
      BY <3>7 DEF PcmWriteFails
    <3>8. CASE WriteSamples(t)
      BY <3>8 DEF WriteSamples
    <3>9. CASE WriteTimestamp(t)
      BY <3>9 DEF WriteTimestamp
    <3>10. CASE StandbyAdev(t)
      BY <3>10 DEF StandbyAdev
    <3>11. CASE StandbyOut(t)
      BY <3>11 DEF StandbyOut
    <3>12. CASE StandbyRunning(t)
      BY <3>12 DEF StandbyRunning
    <3>13. CASE SetParametersAdev(t)
      BY <3>13 DEF SetParametersAdev
    <3>14. CASE SetParametersOut(t)
      BY <3>14 DEF SetParametersOut
    <3>15. CASE OpenOutput(t)
      BY <3>15 DEF OpenOutput, DestroyReference
    <3>16. CASE InitReference(t)
      BY <3>16 DEF InitReference
    <3>17. CASE CloseOutput(t)
      BY <3>17 DEF CloseOutput, DestroyReference
    <3>18. QED
      BY <2>3, <3>1, <3>2, <3>3, <3>4, <3>5, <3>6, <3>7, <3>8, <3>9, <3>10, <3>11, <3>12,
         <3>13, <3>14, <3>15, <3>16, <3>17 DEF OutStep
  <2>4. ASSUME NEW t \in Threads, InStep(t) PROVE OpenInv'
    <3>1. CASE ReadIn(t)
      BY <3>1 DEF ReadIn
    <3>2. CASE ReadAdev(t)
      BY <3>2 DEF ReadAdev
    <3>3. CASE StartInput(t)
      BY <3>3 DEF StartInput
    <3>4. CASE StartInputFails(t)
      BY <3>4 DEF StartInputFails
    <3>5. CASE PcmRead(t)
      BY <3>5 DEF PcmRead
    <3>6. CASE ReadMuted(t)
      BY <3>6 DEF ReadMuted
    <3>7. CASE ReadUnmuted(t)
      BY <3>7 DEF ReadUnmuted
    <3>8. CASE ReturnSound(t)
      BY <3>8 DEF ReturnSound
    <3>9. CASE InStandbyIn(t)
      BY <3>9 DEF InStandbyIn
    <3>10. CASE InStandbyAdev(t)
      BY <3>10 DEF InStandbyAdev
    <3>11. CASE OpenInput(t)
      BY <3>11 DEF OpenInput
    <3>12. CASE OpenEcho(t)
      BY <3>12 DEF OpenEcho
    <3>13. CASE FlushFifos(t)
      BY <3>13 DEF FlushFifos
    <3>14. CASE CloseInput(t)
      BY <3>14 DEF CloseInput
    <3>15. CASE EchoRunning(t)
      BY <3>15 DEF EchoRunning
    <3>16. CASE EchoCheck(t)
      BY <3>16 DEF EchoCheck
    <3>17. CASE EchoRead(t)
      BY <3>17 DEF EchoRead
    <3>18. QED
      BY <2>4, <3>1, <3>2, <3>3, <3>4, <3>5, <3>6, <3>7, <3>8, <3>9, <3>10, <3>11, <3>12,
         <3>13, <3>14, <3>15, <3>16, <3>17 DEF InStep
  <2> QED
    BY <2>1, <2>2, <2>3, <2>4 DEF Next
<1>3. OpenInv /\ UNCHANGED vars => OpenInv'
  BY DEF vars, thread, stream, device, reference, OpenInv, Exclusive
<1> QED
  BY <1>1, <1>2, <1>3, TypedCalls, PTL DEF Spec

-----------------------------------------------------------------------------
\* With one output, the flag and the active output tell what it does, but for the
\* moments between a start or a standby and the call into the canceller.
LEMMA ToldInvariant ==
  ASSUME NEW o, Outs = {o}
  PROVE  Spec => []ToldInv(o)
<1>1. Init => ToldInv(o)
  BY AudioDeviceAssumption DEF Init, ToldInv, Streams
<1>2. TypeOK /\ ObjInv /\ LockInv /\ StreamInv /\ OpenInv /\ ToldInv(o) /\ Next
      => ToldInv(o)'
  <2> SUFFICES ASSUME TypeOK, ObjInv, LockInv, StreamInv, OpenInv, ToldInv(o), Next
               PROVE  ToldInv(o)'
    OBVIOUS
  <2> USE AudioDeviceAssumption
          DEF TypeOK, ObjInv, LockInv, Holds, StreamInv, OpenInv, Exclusive, ToldInv,
              OutPlaces, MicPlaces, EchoPlaces, InPlaces, Streams, Ins, Locks, Lock,
              Unlock, LockUnlock, At, Goto, Return, thread, stream, device, reference
  <2>1. ASSUME NEW t \in Threads, Begin(t) PROVE ToldInv(o)'
    BY <2>1 DEF Begin, Call, Data, Closing
  <2>2. ASSUME NEW t \in Threads, NEW state \in BOOLEAN, SetMicMute(t, state) PROVE ToldInv(o)'
    BY <2>2 DEF SetMicMute
  <2>3. ASSUME NEW t \in Threads, OutStep(t) PROVE ToldInv(o)'
    <3>1. CASE WriteAdev(t)
      BY <3>1 DEF WriteAdev
    <3>2. CASE WriteOut(t)
      BY <3>2 DEF WriteOut
    <3>3. CASE StartOutput(t)
      BY <3>3 DEF StartOutput
    <3>4. CASE StartOutputFails(t)
      BY <3>4 DEF StartOutputFails
    <3>5. CASE WriteRunning(t)
      BY <3>5 DEF WriteRunning
    <3>6. CASE PcmWrite(t)
      BY <3>6 DEF PcmWrite
    <3>7. CASE PcmWriteFails(t)
      BY <3>7 DEF PcmWriteFails
    <3>8. CASE WriteSamples(t)
      BY <3>8 DEF WriteSamples
    <3>9. CASE WriteTimestamp(t)
      BY <3>9 DEF WriteTimestamp
    <3>10. CASE StandbyAdev(t)
      BY <3>10 DEF StandbyAdev
    <3>11. CASE StandbyOut(t)
      BY <3>11 DEF StandbyOut
    <3>12. CASE StandbyRunning(t)
      BY <3>12 DEF StandbyRunning
    <3>13. CASE SetParametersAdev(t)
      BY <3>13 DEF SetParametersAdev
    <3>14. CASE SetParametersOut(t)
      BY <3>14 DEF SetParametersOut
    <3>15. CASE OpenOutput(t)
      BY <3>15 DEF OpenOutput, DestroyReference
    <3>16. CASE InitReference(t)
      BY <3>16 DEF InitReference
    <3>17. CASE CloseOutput(t)
      BY <3>17 DEF CloseOutput, DestroyReference
    <3>18. QED
      BY <2>3, <3>1, <3>2, <3>3, <3>4, <3>5, <3>6, <3>7, <3>8, <3>9, <3>10, <3>11, <3>12,
         <3>13, <3>14, <3>15, <3>16, <3>17 DEF OutStep
  <2>4. ASSUME NEW t \in Threads, InStep(t) PROVE ToldInv(o)'
    <3>1. CASE ReadIn(t)
      BY <3>1 DEF ReadIn
    <3>2. CASE ReadAdev(t)
      BY <3>2 DEF ReadAdev
    <3>3. CASE StartInput(t)
      BY <3>3 DEF StartInput
    <3>4. CASE StartInputFails(t)
      BY <3>4 DEF StartInputFails
    <3>5. CASE PcmRead(t)
      BY <3>5 DEF PcmRead
    <3>6. CASE ReadMuted(t)
      BY <3>6 DEF ReadMuted
    <3>7. CASE ReadUnmuted(t)
      BY <3>7 DEF ReadUnmuted
    <3>8. CASE ReturnSound(t)
      BY <3>8 DEF ReturnSound
    <3>9. CASE InStandbyIn(t)
      BY <3>9 DEF InStandbyIn
    <3>10. CASE InStandbyAdev(t)
      BY <3>10 DEF InStandbyAdev
    <3>11. CASE OpenInput(t)
      BY <3>11 DEF OpenInput
    <3>12. CASE OpenEcho(t)
      BY <3>12 DEF OpenEcho
    <3>13. CASE FlushFifos(t)
      BY <3>13 DEF FlushFifos
    <3>14. CASE CloseInput(t)
      BY <3>14 DEF CloseInput
    <3>15. CASE EchoRunning(t)
      BY <3>15 DEF EchoRunning
    <3>16. CASE EchoCheck(t)
      BY <3>16 DEF EchoCheck
    <3>17. CASE EchoRead(t)
      BY <3>17 DEF EchoRead
    <3>18. QED
      BY <2>4, <3>1, <3>2, <3>3, <3>4, <3>5, <3>6, <3>7, <3>8, <3>9, <3>10, <3>11, <3>12,
         <3>13, <3>14, <3>15, <3>16, <3>17 DEF InStep
  <2> QED
    BY <2>1, <2>2, <2>3, <2>4 DEF Next
<1>3. ToldInv(o) /\ UNCHANGED vars => ToldInv(o)'
  BY DEF vars, thread, stream, device, reference, ToldInv
<1> QED
  BY <1>1, <1>2, <1>3, TypedCalls, LockInvariant, StreamInvariant, OpenInvariant, PTL DEF Spec

-----------------------------------------------------------------------------
\* The order behind both lock orders of the code: input streams, the device,
\* output streams, the canceller.  Who holds one waits only for later ones.

\* Who holds the canceller's mutex waits for none.
LEMMA CancellerHoldersRun ==
  ASSUME AudioDeviceAssumption, TypeOK, ObjInv, LockInv,
         NEW t \in Threads, owner["aec"] = t
  PROVE  Wants(t) = NoStream
<1>1. pc[t] \in {"o_init", "i_flush"}
  BY DEF LockInv, Holds, Locks, ObjInv, Streams, TypeOK
<1>2. QED
  BY <1>1 DEF Wants

\* Who holds an output's mutex waits for the canceller's or for none.
LEMMA OutputHoldersWaitForCanceller ==
  ASSUME AudioDeviceAssumption, TypeOK, ObjInv, LockInv,
         NEW t \in Threads, NEW s \in Outs, owner[s] = t
  PROVE  Wants(t) \in {NoStream, "aec"}
<1>1. Holds(t, s) /\ s # "adev" /\ s # "aec"
  BY DEF LockInv, Locks, Streams, AudioDeviceAssumption
<1>2. obj[t] \in Outs
  BY <1>1 DEF Holds
<1>3. pc[t] \in {"w_run", "w_pcm", "w_spk", "w_ts", "s_run"}
  BY <1>1, <1>2 DEF Holds, ObjInv, MicPlaces, InPlaces, AudioDeviceAssumption, Ins
<1>4. QED
  BY <1>3 DEF Wants

\* Who holds the device's mutex waits for an output's, the canceller's or none.
LEMMA DeviceHoldersWaitForOutputs ==
  ASSUME AudioDeviceAssumption, TypeOK, ObjInv, LockInv,
         NEW t \in Threads, owner["adev"] = t
  PROVE  Wants(t) \in Outs \cup {NoStream, "aec"}
<1>1. pc[t] \in {"w_out", "w_run", "s_out", "s_run", "p_out"}
  BY DEF LockInv, Holds, Locks, Streams, AudioDeviceAssumption, TypeOK, ObjInv
<1>2. obj[t] \in Outs
  BY <1>1 DEF ObjInv, OutPlaces
<1>3. QED
  BY <1>1, <1>2 DEF Wants

\* Who holds an input's mutex waits for the device's or for none.
LEMMA InputHoldersWaitForDevice ==
  ASSUME AudioDeviceAssumption, TypeOK, ObjInv, LockInv,
         NEW t \in Threads, NEW s \in Ins, owner[s] = t
  PROVE  Wants(t) \in {NoStream, "adev"}
<1>1. Holds(t, s) /\ s # "adev" /\ s # "aec"
  BY DEF LockInv, Locks, Streams, AudioDeviceAssumption
<1>2. obj[t] \in Ins
  BY <1>1 DEF Holds
<1>3. pc[t] \in {"r_adev", "r_pcm", "i_adev"}
  BY <1>1, <1>2 DEF Holds, ObjInv, OutPlaces, AudioDeviceAssumption
<1>4. QED
  BY <1>3 DEF Wants

\* Every thread waits for one of these mutexes or for none.
LEMMA WantsAMutex ==
  ASSUME ObjInv, NEW t \in Threads
  PROVE  Wants(t) \in Outs \cup Ins \cup {NoStream, "aec", "adev"}
<1>1. pc[t] \in {"w_out", "s_out", "p_out"} => obj[t] \in Outs
  BY DEF ObjInv, OutPlaces
<1>2. pc[t] = "r_in" => obj[t] \in Mics
  BY DEF ObjInv, MicPlaces
<1>3. pc[t] = "i_in" => obj[t] \in Ins
  BY DEF ObjInv, InPlaces
<1>4. QED
  BY <1>1, <1>2, <1>3 DEF Wants, Ins

\* No set of threads waits only for one another, though output calls take the
\* device's mutex before the stream's and input calls after it.
THEOREM LocksAreOrdered == Spec => []NoCircularWait
<1>1. TypeOK /\ ObjInv /\ LockInv => NoCircularWait
  <2> SUFFICES ASSUME TypeOK, ObjInv, LockInv,
                      NEW T \in (SUBSET Threads) \ {{}},
                      ~ \E t \in T : Wants(t) = NoStream \/ owner[Wants(t)] \notin T
               PROVE  FALSE
    BY DEF NoCircularWait
  <2> USE AudioDeviceAssumption
  <2>1. \A t \in T : Wants(t) # "aec"
    BY CancellerHoldersRun
  <2>2. \A t \in T : Wants(t) \notin Outs
    BY <2>1, OutputHoldersWaitForCanceller
  <2>3. \A t \in T : Wants(t) # "adev"
    BY <2>1, <2>2, DeviceHoldersWaitForOutputs
  <2>4. \A t \in T : Wants(t) \notin Ins
    BY <2>3, InputHoldersWaitForDevice
  <2>5. QED
    BY <2>1, <2>2, <2>3, <2>4, WantsAMutex
<1>2. QED
  BY <1>1, TypedCalls, LockInvariant, PTL

-----------------------------------------------------------------------------
\* Nobody is in a PCM that is not open, and nobody shares it: the stream's
\* mutex is held over the PCM, and standby takes it.
THEOREM NobodyInAClosedPcm == Spec => []PcmIsOpen
<1>1. TypeOK /\ ObjInv /\ LockInv /\ StreamInv => PcmIsOpen
  <2> SUFFICES ASSUME TypeOK, ObjInv, LockInv, StreamInv,
                      NEW s \in Streams, NEW t \in Threads, UsesPcm(t, s)
               PROVE  pcm[s] /\ ~standby[s] /\ \A u \in Threads \ {t} : ~UsesPcm(u, s)
    BY DEF PcmIsOpen
  <2>1. \A u \in Threads : UsesPcm(u, s) => owner[s] = u
    BY OthersHold DEF UsesPcm, Locks
  <2>2. pcm[s] /\ ~standby[s]
    BY DEF UsesPcm, StreamInv
  <2>3. QED
    BY <2>1, <2>2
<1>2. QED
  BY <1>1, TypedCalls, LockInvariant, StreamInvariant, PTL

\* With one output the playback flag, and the device's active output, say
\* whether it plays whenever no transition is under way.
THEOREM OneOutputIsTold ==
  ASSUME NEW o, Outs = {o}
  PROVE  Spec => []PlaybackIsTold
<1>1. TypeOK /\ LockInv /\ ToldInv(o) => PlaybackIsTold
  <2> SUFFICES ASSUME TypeOK, LockInv, ToldInv(o), owner["adev"] = NoThread
               PROVE  /\ spk_running <=> \E s \in Outs : ~standby[s]
                      /\ active_output # NoStream <=> spk_running
    BY DEF PlaybackIsTold
  <2>1. \A t \in Threads : pc[t] \notin {"w_run", "s_run"}
    BY AudioDeviceAssumption DEF LockInv, Holds, Locks
  <2>2. o # NoStream
    BY AudioDeviceAssumption DEF Streams
  <2>3. QED
    BY <2>1, <2>2 DEF ToldInv
<1>2. QED
  BY <1>1, TypedCalls, LockInvariant, ToldInvariant, PTL

\* With one output, whoever writes samples has FIFOs to put them into: the
\* reference goes only with the output, whose callers are gone by then.
THEOREM OneWriterHasReference ==
  ASSUME NEW o, Outs = {o}
  PROVE  Spec => []WriterHasReference
<1>1. ObjInv /\ OpenInv /\ ToldInv(o) => WriterHasReference
  <2> SUFFICES ASSUME ObjInv, OpenInv, ToldInv(o),
                      NEW t \in Threads, pc[t] \in {"w_spk", "w_ts"}
               PROVE  fifo = "live"
    BY DEF WriterHasReference
  <2>1. obj[t] = o
    BY DEF ObjInv, OutPlaces
  <2>2. o \in open
    BY <2>1 DEF OpenInv
  <2>3. QED
    BY <2>2 DEF ToldInv
<1>2. QED
  BY <1>1, TypedCalls, OpenInvariant, ToldInvariant, PTL

-----------------------------------------------------------------------------
\* What a step of a call leaves alone: the other threads, and a stream that is read or written is
\* so until the call returns.  Only two steps are about the sound of a microphone.
CallStep(t) ==
  /\ \A u \in Threads \ {t} : pc'[u] = pc[u] /\ obj'[u] = obj[u]
  /\ pc'[t] \in Data => pc[t] \in Data /\ obj'[t] = obj[t]
  /\ \/ ReadUnmuted(t) \/ ReturnSound(t)
     \/ pc[t] # "r_sound" /\ pc'[t] # "r_sound" /\ UNCHANGED <<mic_mute, lateSound>>

\* The output side.
LEMMA OutCallStep ==
  ASSUME TypeOK, NEW t \in Threads, OutStep(t)
  PROVE  CallStep(t)
<1> USE DEF CallStep, TypeOK, At, Goto, Return, Data, thread, device, stream, reference
<1>1. CASE WriteAdev(t) BY <1>1 DEF WriteAdev
<1>2. CASE WriteOut(t) BY <1>2 DEF WriteOut
<1>3. CASE StartOutput(t) BY <1>3 DEF StartOutput
<1>4. CASE StartOutputFails(t) BY <1>4 DEF StartOutputFails
<1>5. CASE WriteRunning(t) BY <1>5 DEF WriteRunning
<1>6. CASE PcmWrite(t) BY <1>6 DEF PcmWrite
<1>7. CASE PcmWriteFails(t) BY <1>7 DEF PcmWriteFails
<1>8. CASE WriteSamples(t) BY <1>8 DEF WriteSamples
<1>9. CASE WriteTimestamp(t) BY <1>9 DEF WriteTimestamp
<1>10. CASE StandbyAdev(t) BY <1>10 DEF StandbyAdev
<1>11. CASE StandbyOut(t) BY <1>11 DEF StandbyOut
<1>12. CASE StandbyRunning(t) BY <1>12 DEF StandbyRunning
<1>13. CASE SetParametersAdev(t) BY <1>13 DEF SetParametersAdev
<1>14. CASE SetParametersOut(t) BY <1>14 DEF SetParametersOut
<1>15. CASE OpenOutput(t) BY <1>15 DEF OpenOutput
<1>16. CASE InitReference(t) BY <1>16 DEF InitReference
<1>17. CASE CloseOutput(t) BY <1>17 DEF CloseOutput
<1> QED
  BY <1>1, <1>2, <1>3, <1>4, <1>5, <1>6, <1>7, <1>8, <1>9, <1>10, <1>11, <1>12, <1>13, <1>14,
     <1>15, <1>16, <1>17 DEF OutStep

\* The input side: sound is on its way from ReadUnmuted to ReturnSound.
LEMMA InCallStep ==
  ASSUME TypeOK, NEW t \in Threads, InStep(t)
  PROVE  CallStep(t)
<1> USE DEF CallStep, TypeOK, At, Goto, Return, Data, thread, device, stream, reference
<1>1. CASE ReadIn(t) BY <1>1 DEF ReadIn
<1>2. CASE ReadAdev(t) BY <1>2 DEF ReadAdev
<1>3. CASE StartInput(t) BY <1>3 DEF StartInput
<1>4. CASE StartInputFails(t) BY <1>4 DEF StartInputFails
<1>5. CASE PcmRead(t) BY <1>5 DEF PcmRead
<1>6. CASE ReadMuted(t) BY <1>6 DEF ReadMuted
<1>7. CASE ReadUnmuted(t) BY <1>7 DEF ReadUnmuted
<1>8. CASE ReturnSound(t) BY <1>8 DEF ReturnSound
<1>9. CASE InStandbyIn(t) BY <1>9 DEF InStandbyIn
<1>10. CASE InStandbyAdev(t) BY <1>10 DEF InStandbyAdev
<1>11. CASE OpenInput(t) BY <1>11 DEF OpenInput
<1>12. CASE OpenEcho(t) BY <1>12 DEF OpenEcho
<1>13. CASE FlushFifos(t) BY <1>13 DEF FlushFifos
<1>14. CASE CloseInput(t) BY <1>14 DEF CloseInput
<1>15. CASE EchoRunning(t) BY <1>15 DEF EchoRunning
<1>16. CASE EchoCheck(t) BY <1>16 DEF EchoCheck
<1>17. CASE EchoRead(t) BY <1>17 DEF EchoRead
<1> QED
  BY <1>1, <1>2, <1>3, <1>4, <1>5, <1>6, <1>7, <1>8, <1>9, <1>10, <1>11, <1>12, <1>13, <1>14,
     <1>15, <1>16, <1>17 DEF InStep

\* A call begins in one thread, and one that reads or writes only when no other does.
LEMMA BeginStep ==
  ASSUME TypeOK, NEW t \in Threads, Begin(t)
  PROVE  /\ \A u \in Threads \ {t} : pc'[u] = pc[u] /\ obj'[u] = obj[u]
         /\ pc'[t] \in Data => \A u \in Threads \ {t} : pc[u] \in Data => obj[u] # obj'[t]
         /\ pc[t] # "r_sound" /\ pc'[t] # "r_sound" /\ UNCHANGED <<mic_mute, lateSound>>
<1> USE DEF TypeOK, At, Call, Data, device
<1>1. PICK s \in Streams, there \in Places \ {"r_sound"} : Call(t, s, there) /\ (there \in Data => MayRun(s))
  BY DEF Begin, Places, Closing, Streams
<1> QED BY <1>1 DEF MayRun

\* One reader or writer at a stream.
LEMMA ReaderInvariant == Spec => []ReaderInv
<1>1. Init => ReaderInv BY DEF Init, ReaderInv, Data
<1>2. TypeOK /\ ReaderInv /\ [Next]_vars => ReaderInv'
  <2> SUFFICES ASSUME TypeOK, ReaderInv, [Next]_vars PROVE ReaderInv'
    OBVIOUS
  <2>1. ASSUME NEW t \in Threads, Begin(t) PROVE ReaderInv'
    BY <2>1, BeginStep DEF ReaderInv
  <2>2. ASSUME NEW t \in Threads, NEW state \in BOOLEAN, SetMicMute(t, state) PROVE ReaderInv'
    BY <2>2 DEF SetMicMute, thread, ReaderInv
  <2>3. ASSUME NEW t \in Threads, OutStep(t) \/ InStep(t) PROVE ReaderInv'
    <3>1. CallStep(t) BY <2>3, OutCallStep, InCallStep
    <3> QED BY <3>1 DEF CallStep, ReaderInv
  <2>4. CASE UNCHANGED vars BY <2>4 DEF vars, thread, ReaderInv
  <2> QED BY <2>1, <2>2, <2>3, <2>4 DEF Next
<1> QED BY <1>1, <1>2, TypedCalls, PTL DEF Spec

\* Each read that returns late is one less that may.
LEMMA MuteInvariant == Spec => []MuteInv
<1>1. Init => MuteInv BY DEF Init, MuteInv
<1>2. TypeOK /\ ObjInv /\ ReaderInv /\ MuteInv /\ [Next]_vars => MuteInv'
  <2> SUFFICES ASSUME TypeOK, ObjInv, ReaderInv, MuteInv, [Next]_vars PROVE MuteInv'
    OBVIOUS
  <2>1. IsFiniteSet(Mics) /\ Late \subseteq Mics /\ Late' \subseteq Mics
    BY AudioDeviceAssumption DEF Late
  <2>2. IsFiniteSet(Late) /\ IsFiniteSet(Late') /\ Cardinality(Late) \in Nat /\ Cardinality(Mics) \in Nat
        /\ Cardinality(Late') \in Nat /\ Cardinality(Late') <= Cardinality(Mics)
    BY <2>1, FS_Subset, FS_CardinalityType
  <2>3. lateSound \in Nat /\ mic_mute \in BOOLEAN BY DEF TypeOK
  <2>4. ASSUME NEW t \in Threads, pc[t] # "r_sound", pc'[t] # "r_sound",
               \A u \in Threads \ {t} : pc'[u] = pc[u] /\ obj'[u] = obj[u],
               UNCHANGED <<mic_mute, lateSound>>
        PROVE  MuteInv'
    <3>1. Late' = Late BY <2>4 DEF Late
    <3> QED BY <3>1, <2>4 DEF MuteInv
  <2>5. ASSUME NEW t \in Threads, Begin(t) PROVE MuteInv'
    BY <2>4, <2>5, BeginStep
  <2>6. ASSUME NEW t \in Threads, NEW state \in BOOLEAN, SetMicMute(t, state) PROVE MuteInv'
    <3>1. lateSound' = 0 BY <2>6 DEF SetMicMute
    <3> QED BY <3>1, <2>2 DEF MuteInv
  <2>7. ASSUME NEW t \in Threads, ReadUnmuted(t) PROVE MuteInv'
    <3>1. ~mic_mute /\ UNCHANGED <<mic_mute, lateSound>> BY <2>7 DEF ReadUnmuted, device
    <3> QED BY <3>1 DEF MuteInv
  <2>8. ASSUME NEW t \in Threads, ReturnSound(t) PROVE MuteInv'
    <3>1. /\ pc[t] = "r_sound" /\ UNCHANGED mic_mute
          /\ pc' = [pc EXCEPT ![t] = "idle"] /\ obj' = [obj EXCEPT ![t] = NoStream]
          /\ lateSound' = IF mic_mute /\ lateSound <= Cardinality(Mics) THEN lateSound + 1 ELSE lateSound
      BY <2>8 DEF ReturnSound, At, Return
    <3>2. obj[t] \in Late BY <3>1 DEF Late, ObjInv, MicPlaces
    <3>3. \A u \in Threads \ {t} : pc[u] = "r_sound" => obj[u] # obj[t]
      BY <3>1 DEF ReaderInv, Data
    <3>4. Late' = Late \ {obj[t]}
      BY <3>1, <3>3 DEF Late, TypeOK
    <3>5. Cardinality(Late') = Cardinality(Late) - 1 BY <2>2, <3>2, <3>4, FS_RemoveElement
    <3>6. CASE mic_mute
      <4>1. lateSound + Cardinality(Late) <= Cardinality(Mics) /\ mic_mute' BY <3>6, <3>1 DEF MuteInv
      <4>2. lateSound' = lateSound + 1
        BY <4>1, <3>1, <3>6, <2>2, <2>3
      <4> QED BY <4>1, <4>2, <3>5, <2>2, <2>3 DEF MuteInv
    <3>7. CASE ~mic_mute BY <3>1, <3>7 DEF MuteInv
    <3> QED BY <3>6, <3>7
  <2>9. ASSUME NEW t \in Threads, OutStep(t) \/ InStep(t) PROVE MuteInv'
    <3>1. CallStep(t) BY <2>9, OutCallStep, InCallStep
    <3> QED BY <3>1, <2>4, <2>7, <2>8 DEF CallStep
  <2>10. CASE UNCHANGED vars
    <3>1. Late' = Late BY <2>10 DEF vars, thread, Late
    <3> QED BY <3>1, <2>10 DEF vars, device, MuteInv
  <2> QED BY <2>5, <2>6, <2>9, <2>10 DEF Next
<1> QED BY <1>1, <1>2, TypedCalls, ReaderInvariant, PTL DEF Spec

\* Once set_mic_mute(true) has returned, no more reads return sound than there are microphone
\* streams, however many threads there are: each had taken its audio before.
THEOREM MutesPromptly == Spec => []MuteIsPrompt
<1>1. TypeOK /\ MuteInv => MuteIsPrompt
  <2> SUFFICES ASSUME TypeOK, MuteInv PROVE MuteIsPrompt OBVIOUS
  <2>1. Late \subseteq Mics /\ IsFiniteSet(Mics) BY AudioDeviceAssumption DEF Late
  <2>2. Cardinality(Late) \in Nat /\ Cardinality(Mics) \in Nat BY <2>1, FS_Subset, FS_CardinalityType
  <2> QED BY <2>2 DEF TypeOK, MuteInv, MuteIsPrompt
<1> QED BY <1>1, TypedCalls, MuteInvariant, PTL
=============================================================================
