----------------------------- MODULE HdmiCecProofs -----------------------------
(***************************************************************************)
(* Theorems about HdmiCec, for any number of client threads, any callbacks *)
(* and addresses and any capacity of the driver's queues.                  *)
(***************************************************************************)
EXTENDS HdmiCec, TLAPS

\* Every variable keeps its type; no message that arrived broken is kept.
THEOREM TypeInvariant == Spec => []TypeOK
<1>1. Init => TypeOK
  <2> SUFFICES ASSUME Init PROVE TypeOK
    OBVIOUS
  <2>1. pc \in [Clients -> {"idle", "registering", "sending", "connected"}]
    BY DEF Init
  <2>2. seen \in [Clients -> SUBSET BOOLEAN] /\ claimed \in SUBSET Addresses
    BY DEF Init
  <2>3. lateCalls \in 0 .. 2 /\ lateOrdinary \in 0 .. 2 /\ lateSends \in [Clients -> 0 .. 2]
    BY DEF Init, NoneSent
  <2>4. msgs \in Seq(Message) /\ events \in Seq(Event)
    BY DEF Init
  <2>5. QED
    BY <2>1, <2>2, <2>3, <2>4 DEF Init, TypeOK
<1>2. TypeOK /\ [Next]_vars => TypeOK'
  <2> SUFFICES ASSUME TypeOK, [Next]_vars PROVE TypeOK'
    OBVIOUS
  <2> USE DEF TypeOK, late, options, registration, driver, clients, NoneSent, Goto, Begin
  <2>1. CASE OpenStep
    <3>1. CASE OpenDevice
      <4>1. lateCalls' \in 0 .. 2 /\ lateOrdinary' \in 0 .. 2 /\ lateSends' \in [Clients -> 0 .. 2]
        BY <3>1 DEF OpenDevice
      <4>2. claimed' \in SUBSET Addresses
        BY <3>1 DEF OpenDevice
      <4>3. QED
        BY <3>1, <4>1, <4>2 DEF OpenDevice
    <3>2. CASE CreateThread
      BY <3>2 DEF CreateThread
    <3>3. CASE EnableCec
      BY <3>3 DEF EnableCec
    <3>4. CASE EnableControl
      BY <3>4 DEF EnableControl
    <3>5. QED
      BY <2>1, <3>1, <3>2, <3>3, <3>4 DEF OpenStep
  <2>2. ASSUME NEW errno \in {0, 1}, OpenFails(errno) PROVE TypeOK'
    <3>1. life' = "closed" /\ handle' \in {"none", "bad"} /\ msgs' = <<>> /\ events' = <<>>
      BY <2>2 DEF OpenFails
    <3>2. QED
      BY <2>2, <3>1 DEF OpenFails
  <2>3. CASE CallerDies \/ SignalExit \/ CloseAndFree
    <3>1. CASE CallerDies
      BY <3>1 DEF CallerDies
    <3>2. CASE SignalExit
      BY <3>2 DEF SignalExit
    <3>3. CASE CloseAndFree
      <4>1. life' = "closed" /\ handle' = "none" /\ thread' = "none" /\ exiting' = FALSE
        BY <3>3 DEF CloseAndFree, Joined
      <4>2. msgs' \in Seq(Message) /\ events' \in Seq(Event)
        BY <3>3 DEF CloseAndFree
      <4>3. UNCHANGED <<held, options, registration, port, clients>>
        BY <3>3 DEF CloseAndFree
      <4>4. QED
        BY <4>1, <4>2, <4>3
    <3>4. QED
      BY <2>3, <3>1, <3>2, <3>3
  <2>4. CASE Poll \/ EventEnabled \/ MsgEnabled \/ MsgControl \/ IoctlFails
    BY <2>4 DEF Poll, EventEnabled, MsgEnabled, MsgControl, IoctlFails, NoMessage
  <2>5. CASE DqEvent
    BY <2>5 DEF DqEvent
  <2>6. CASE Receive
    BY <2>6 DEF Receive, Message
  <2>7. CASE Call
    BY <2>7 DEF Call, NoMessage
  <2>8. ASSUME NEW c \in Clients, ClientStep(c) PROVE TypeOK'
    <3>1. ASSUME NEW value \in BOOLEAN, SetEnableCec(c, value) \/ SetSystemCecControl(c, value)
          PROVE  TypeOK'
      BY <3>1 DEF SetEnableCec, SetSystemCecControl
    <3>2. ASSUME NEW f \in Callbacks, RegisterCallback(c, f) PROVE TypeOK'
      BY <3>2 DEF RegisterCallback
    <3>3. CASE RegisterArg(c) \/ SendCheck(c)
      BY <3>3 DEF RegisterArg, SendCheck
    <3>4. CASE Transmit(c)
      BY <3>4 DEF Transmit
    <3>5. ASSUME NEW a \in Addresses, AddLogicalAddress(c, a) PROVE TypeOK'
      BY <3>5 DEF AddLogicalAddress
    <3>6. CASE ClearLogicalAddress(c) \/ GetPortInfo(c)
      BY <3>6 DEF ClearLogicalAddress, GetPortInfo
    <3>7. CASE IsConnected(c) \/ ReadPortInfo(c)
      <4>1. seen' \in [Clients -> SUBSET BOOLEAN]
        BY <3>7 DEF IsConnected, ReadPortInfo
      <4>2. QED
        BY <3>7, <4>1 DEF IsConnected, ReadPortInfo
    <3>8. QED
      BY <2>8, <3>1, <3>2, <3>3, <3>4, <3>5, <3>6, <3>7 DEF ClientStep
  <2>9. ASSUME NEW m \in Message, MessageArrives(m) PROVE TypeOK'
    BY <2>9 DEF MessageArrives
  <2>10. CASE MessagesLost
    BY <2>10 DEF MessagesLost, Event
  <2>11. CASE HotPlug
    <3>1. port' \in BOOLEAN /\ events' \in Seq(Event)
      BY <2>11 DEF HotPlug, Event
    <3>2. seen' \in [Clients -> SUBSET BOOLEAN]
      BY <2>11, <3>1 DEF HotPlug
    <3>3. QED
      BY <2>11, <3>1, <3>2 DEF HotPlug
  <2>12. CASE UNCHANGED vars
    BY <2>12 DEF vars
  <2>13. QED
    BY <2>1, <2>2, <2>3, <2>4, <2>5, <2>6, <2>7, <2>8, <2>9, <2>10, <2>11, <2>12
       DEF Next, ThreadStep, DriverStep
<1>3. QED
  BY <1>1, <1>2, PTL DEF Spec

-----------------------------------------------------------------------------
\* A context that is freed has no thread, and no client is inside a call.

LEMMA LifeInvariant == Spec => []LifeInv
<1>1. Init => LifeInv
  BY DEF Init, LifeInv
<1>2. TypeOK /\ LifeInv /\ [Next]_vars => LifeInv'
  <2> SUFFICES ASSUME TypeOK, LifeInv, [Next]_vars PROVE LifeInv'
    OBVIOUS
  <2> USE DEF LifeInv, clients
  <2>1. CASE OpenStep
    BY <2>1 DEF OpenStep, OpenDevice, CreateThread, EnableCec, EnableControl
  <2>2. ASSUME NEW errno \in {0, 1}, OpenFails(errno) PROVE LifeInv'
    BY <2>2 DEF OpenFails
  <2>3. CASE CallerDies \/ SignalExit \/ CloseAndFree
    BY <2>3 DEF CallerDies, SignalExit, CloseAndFree, Joined
  <2>4. CASE ThreadStep
    BY <2>4 DEF ThreadStep, Poll, DqEvent, EventEnabled, Receive, IoctlFails, MsgEnabled,
                MsgControl, Call
  <2>5. ASSUME NEW c \in Clients, ClientStep(c) PROVE LifeInv'
    <3>1. life = "open" /\ life' = "open" /\ thread' = thread
      BY <2>5 DEF ClientStep, Begin, SetEnableCec, SetSystemCecControl, RegisterCallback,
                  RegisterArg, SendCheck, Transmit, AddLogicalAddress, ClearLogicalAddress,
                  GetPortInfo, IsConnected, ReadPortInfo
    <3>2. QED
      BY <3>1
  <2>6. CASE DriverStep
    BY <2>6 DEF DriverStep, MessageArrives, MessagesLost, HotPlug
  <2>7. CASE UNCHANGED vars
    BY <2>7 DEF vars
  <2>8. QED
    BY <2>1, <2>2, <2>3, <2>4, <2>5, <2>6, <2>7 DEF Next
<1>3. QED
  BY <1>1, <1>2, TypeInvariant, PTL DEF Spec

\* close joins the event thread before it frees the context, and a failed open
\* leaves no thread behind: nothing runs on freed memory.
THEOREM NothingOutlivesTheContext == Spec => []NoUseAfterFree
<1>1. LifeInv => NoUseAfterFree
  BY DEF LifeInv, NoUseAfterFree
<1>2. QED
  BY <1>1, LifeInvariant, PTL

-----------------------------------------------------------------------------
\* At most one callback, and one message of every sending client, after the
\* flag was cleared: each spends the check it made while the flag was set.

LEMMA LateInvariant == Spec => []LateInv
<1>1. Init => LateInv
  BY DEF Init, LateInv, NoneSent
<1>2. TypeOK /\ LifeInv /\ LateInv /\ [Next]_vars => LateInv'
  <2> SUFFICES ASSUME TypeOK, LifeInv, LateInv, [Next]_vars PROVE LateInv'
    OBVIOUS
  <2> USE DEF LateInv, PastEnabled, late, options, clients
  <2>1. CASE OpenStep
    <3>1. CASE OpenDevice
      BY <3>1 DEF OpenDevice, LifeInv, NoneSent
    <3>2. CASE CreateThread
      BY <3>2 DEF CreateThread
    <3>3. CASE EnableCec
      BY <3>3 DEF EnableCec, NoneSent
    <3>4. CASE EnableControl
      BY <3>4 DEF EnableControl
    <3>5. QED
      BY <2>1, <3>1, <3>2, <3>3, <3>4 DEF OpenStep
  <2>2. ASSUME NEW errno \in {0, 1}, OpenFails(errno) PROVE LateInv'
    BY <2>2 DEF OpenFails
  <2>3. CASE CallerDies
    BY <2>3 DEF CallerDies
  <2>4. CASE SignalExit
    BY <2>4 DEF SignalExit
  <2>5. CASE CloseAndFree
    BY <2>5 DEF CloseAndFree
  <2>6. CASE Poll \/ DqEvent \/ Receive \/ IoctlFails
    BY <2>6 DEF Poll, DqEvent, Receive, IoctlFails
  <2>7. CASE EventEnabled \/ MsgEnabled
    BY <2>7 DEF EventEnabled, MsgEnabled
  <2>8. CASE MsgControl
    BY <2>8 DEF MsgControl
  <2>9. CASE Call
    <3>1. lateCalls' \in {lateCalls, 1} /\ thread \in PastEnabled /\ thread' = "poll"
      BY <2>9 DEF Call, TypeOK
    <3>2. lateCalls' # lateCalls => ~enabled
      BY <2>9 DEF Call
    <3>3. UNCHANGED <<life, enabled, lateSends, pc>>
      BY <2>9 DEF Call
    <3>4. QED
      BY <3>1, <3>2, <3>3
  <2>10. ASSUME NEW c \in Clients, ClientStep(c) PROVE LateInv'
    <3>0. life = "open" /\ life' = "open" /\ thread' = thread
      BY <2>10 DEF ClientStep, Begin, SetEnableCec, SetSystemCecControl, RegisterCallback,
                  RegisterArg, SendCheck, Transmit, AddLogicalAddress, ClearLogicalAddress,
                  GetPortInfo, IsConnected, ReadPortInfo, LifeInv
    <3>1. ASSUME NEW value \in BOOLEAN, SetEnableCec(c, value) PROVE LateInv'
      BY <3>0, <3>1 DEF SetEnableCec, NoneSent
    <3>2. ASSUME NEW value \in BOOLEAN, SetSystemCecControl(c, value) PROVE LateInv'
      BY <3>0, <3>2 DEF SetSystemCecControl
    <3>3. CASE SendCheck(c)
      BY <3>0, <3>3 DEF SendCheck, Goto, TypeOK
    <3>4. CASE Transmit(c)
      <4>1. \A d \in Clients : pc'[d] = IF d = c THEN "idle" ELSE pc[d]
        BY <3>4 DEF Transmit, Goto, TypeOK
      <4>2. pc[c] = "sending" /\ lateSends[c] = 0
        BY <3>4 DEF Transmit
      <4>3. \A d \in Clients :
              lateSends'[d] = IF d = c THEN (IF enabled THEN 0 ELSE 1) ELSE lateSends[d]
        BY <3>4, <4>2 DEF Transmit, TypeOK
      <4>4. UNCHANGED <<enabled, lateCalls>>
        BY <3>4 DEF Transmit
      <4>5. QED
        BY <3>0, <4>1, <4>3, <4>4 DEF TypeOK
    <3>5. (\A d \in Clients : pc'[d] = "sending" => pc[d] = "sending") /\ UNCHANGED options
            => LateInv'
      BY <3>0
    <3>6. ASSUME NEW f \in Callbacks, RegisterCallback(c, f) PROVE LateInv'
      BY <3>5, <3>6 DEF RegisterCallback, Goto, TypeOK
    <3>7. CASE RegisterArg(c) \/ IsConnected(c) \/ ReadPortInfo(c)
      BY <3>5, <3>7 DEF RegisterArg, IsConnected, ReadPortInfo, Goto, TypeOK
    <3>8. ASSUME NEW a \in Addresses, AddLogicalAddress(c, a) PROVE LateInv'
      BY <3>5, <3>8 DEF AddLogicalAddress
    <3>9. CASE ClearLogicalAddress(c) \/ GetPortInfo(c)
      BY <3>5, <3>9 DEF ClearLogicalAddress, GetPortInfo
    <3>10. QED
      BY <2>10, <3>1, <3>2, <3>3, <3>4, <3>6, <3>7, <3>8, <3>9 DEF ClientStep
  <2>11. CASE DriverStep
    BY <2>11 DEF DriverStep, MessageArrives, MessagesLost, HotPlug
  <2>12. CASE UNCHANGED vars
    BY <2>12 DEF vars
  <2>13. QED
    BY <2>1, <2>2, <2>3, <2>4, <2>5, <2>6, <2>7, <2>8, <2>9, <2>10, <2>11, <2>12
       DEF Next, ThreadStep
<1>3. QED
  BY <1>1, <1>2, TypeInvariant, LifeInvariant, PTL DEF Spec

\* Disabling CEC takes effect for everything but what was already under way.
THEOREM DisablingIsPrompt == Spec => []AtMostOneLate
<1>1. TypeOK /\ LateInv => AtMostOneLate
  BY DEF TypeOK, LateInv, AtMostOneLate
<1>2. QED
  BY <1>1, TypeInvariant, LateInvariant, PTL

-----------------------------------------------------------------------------
\* Standby, in the same way, and with what the thread has in hand.

LEMMA HeldInvariant == Spec => []HeldInv
<1>1. Init => HeldInv
  BY DEF Init, HeldInv
<1>2. LifeInv /\ HeldInv /\ [Next]_vars => HeldInv'
  <2> SUFFICES ASSUME LifeInv, HeldInv, [Next]_vars PROVE HeldInv'
    OBVIOUS
  <2> USE DEF HeldInv
  <2>1. CASE Poll \/ DqEvent \/ EventEnabled
    BY <2>1 DEF Poll, DqEvent, EventEnabled
  <2>2. CASE Receive \/ IoctlFails
    BY <2>2 DEF Receive, IoctlFails
  <2>3. CASE MsgEnabled \/ MsgControl \/ Call
    BY <2>3 DEF MsgEnabled, MsgControl, Call
  <2>4. CASE OpenStep
    BY <2>4 DEF OpenStep, OpenDevice, CreateThread, EnableCec, EnableControl, LifeInv
  <2>5. ASSUME NEW errno \in {0, 1}, OpenFails(errno) PROVE HeldInv'
    BY <2>5 DEF OpenFails
  <2>6. CASE CallerDies \/ SignalExit \/ CloseAndFree
    BY <2>6 DEF CallerDies, SignalExit, CloseAndFree, Joined
  <2>7. CASE DriverStep
    BY <2>7 DEF DriverStep, MessageArrives, MessagesLost, HotPlug
  <2>8. ASSUME NEW c \in Clients, ClientStep(c) PROVE HeldInv'
    <3>1. UNCHANGED <<thread, held>>
      BY <2>8 DEF ClientStep, SetEnableCec, SetSystemCecControl, RegisterCallback,
                  RegisterArg, SendCheck, Transmit, AddLogicalAddress, ClearLogicalAddress,
                  GetPortInfo, IsConnected, ReadPortInfo
    <3>2. QED
      BY <3>1
  <2>9. CASE UNCHANGED vars
    BY <2>9 DEF vars
  <2>10. QED
    BY <2>1, <2>2, <2>3, <2>4, <2>5, <2>6, <2>7, <2>8, <2>9 DEF Next, ThreadStep
<1>3. QED
  BY <1>1, <1>2, LifeInvariant, PTL DEF Spec

LEMMA StandbyInvariant == Spec => []StandbyInv
<1>1. Init => StandbyInv
  BY DEF Init, StandbyInv
<1>2. TypeOK /\ LifeInv /\ HeldInv /\ StandbyInv /\ [Next]_vars => StandbyInv'
  <2> SUFFICES ASSUME TypeOK, LifeInv, HeldInv, StandbyInv, [Next]_vars PROVE StandbyInv'
    OBVIOUS
  <2> USE DEF StandbyInv, late, options
  <2>1. CASE OpenDevice
    BY <2>1 DEF OpenDevice, LifeInv
  <2>2. CASE CreateThread \/ EnableCec \/ EnableControl
    BY <2>2 DEF CreateThread, EnableCec, EnableControl
  <2>3. ASSUME NEW errno \in {0, 1}, OpenFails(errno) PROVE StandbyInv'
    BY <2>3 DEF OpenFails
  <2>4. CASE CallerDies \/ SignalExit \/ CloseAndFree
    BY <2>4 DEF CallerDies, SignalExit, CloseAndFree, Joined
  <2>5. CASE Poll \/ DqEvent \/ EventEnabled \/ Receive \/ IoctlFails \/ MsgEnabled
    BY <2>5 DEF Poll, DqEvent, EventEnabled, Receive, IoctlFails, MsgEnabled
  <2>6. CASE MsgControl
    BY <2>6 DEF MsgControl, is_transferable_in_sleep
  <2>7. CASE Call
    <3>1. thread' = "poll" /\ lateOrdinary' \in {lateOrdinary, 1}
      BY <2>7 DEF Call, HeldInv, NoMessage, TypeOK
    <3>2. lateOrdinary' # lateOrdinary => ~control /\ thread = "msg_call" /\ held = "ordinary"
      BY <2>7 DEF Call, HeldInv, NoMessage
    <3>3. UNCHANGED <<life, control>>
      BY <2>7 DEF Call
    <3>4. QED
      BY <3>1, <3>2, <3>3
  <2>8. ASSUME NEW c \in Clients, ClientStep(c) PROVE StandbyInv'
    <3>1. life = "open" /\ life' = "open" /\ UNCHANGED <<thread, held>>
      BY <2>8 DEF ClientStep, Begin, SetEnableCec, SetSystemCecControl, RegisterCallback,
                  RegisterArg, SendCheck, Transmit, AddLogicalAddress, ClearLogicalAddress,
                  GetPortInfo, IsConnected, ReadPortInfo, LifeInv
    <3>2. UNCHANGED <<control, lateOrdinary>> \/ lateOrdinary' = 0
      BY <2>8 DEF ClientStep, SetEnableCec, SetSystemCecControl, RegisterCallback,
                  RegisterArg, SendCheck, Transmit, AddLogicalAddress, ClearLogicalAddress,
                  GetPortInfo, IsConnected, ReadPortInfo
    <3>3. QED
      BY <3>1, <3>2
  <2>9. CASE DriverStep
    BY <2>9 DEF DriverStep, MessageArrives, MessagesLost, HotPlug
  <2>10. CASE UNCHANGED vars
    BY <2>10 DEF vars
  <2>11. QED
    BY <2>1, <2>2, <2>3, <2>4, <2>5, <2>6, <2>7, <2>8, <2>9, <2>10
       DEF Next, OpenStep, ThreadStep
<1>3. QED
  BY <1>1, <1>2, TypeInvariant, LifeInvariant, HeldInvariant, PTL DEF Spec

\* Standby takes effect for everything but the message already past the filter.
THEOREM StandbyIsPrompt == Spec => []StandbyFilters
<1>1. TypeOK /\ StandbyInv => StandbyFilters
  BY DEF TypeOK, StandbyInv, StandbyFilters
<1>2. QED
  BY <1>1, TypeInvariant, StandbyInvariant, PTL

-----------------------------------------------------------------------------
\* While a client is in is_connected, whoever writes port_info writes a state
\* the port has had since that client asked.

LEMMA SeenInvariant == Spec => []SeenInv
<1>1. Init => SeenInv
  BY DEF Init, SeenInv
<1>2. TypeOK /\ LifeInv /\ SeenInv /\ [Next]_vars => SeenInv'
  <2> SUFFICES ASSUME TypeOK, LifeInv, SeenInv, [Next]_vars PROVE SeenInv'
    OBVIOUS
  <2> USE DEF SeenInv
  <2>1. CASE OpenStep
    BY <2>1 DEF OpenStep, OpenDevice, CreateThread, EnableCec, EnableControl, driver, clients,
                LifeInv
  <2>2. UNCHANGED <<port, portInfo, pc, seen>> => SeenInv'
    OBVIOUS
  <2>3. ASSUME NEW errno \in {0, 1}, OpenFails(errno) PROVE SeenInv'
    BY <2>2, <2>3 DEF OpenFails, clients
  <2>4. CASE CallerDies \/ SignalExit \/ CloseAndFree
    BY <2>2, <2>4 DEF CallerDies, SignalExit, CloseAndFree, driver, clients
  <2>5. CASE ThreadStep
    BY <2>2, <2>5 DEF ThreadStep, Poll, DqEvent, EventEnabled, Receive, IoctlFails,
                      MsgEnabled, MsgControl, Call, driver, clients
  <2>6. ASSUME NEW c \in Clients, ClientStep(c) PROVE SeenInv'
    <3>1. UNCHANGED port
      BY <2>6 DEF ClientStep, SetEnableCec, SetSystemCecControl, RegisterCallback,
                  RegisterArg, SendCheck, Transmit, AddLogicalAddress, ClearLogicalAddress,
                  GetPortInfo, IsConnected, ReadPortInfo, driver
    <3>2. ASSUME NEW value \in BOOLEAN, SetEnableCec(c, value) \/ SetSystemCecControl(c, value)
          PROVE  SeenInv'
      BY <2>2, <3>1, <3>2 DEF SetEnableCec, SetSystemCecControl, clients
    <3>3. ASSUME NEW f \in Callbacks, RegisterCallback(c, f) PROVE SeenInv'
      BY <3>1, <3>3 DEF RegisterCallback, Goto, TypeOK
    <3>4. CASE RegisterArg(c) \/ SendCheck(c) \/ Transmit(c)
      BY <3>1, <3>4 DEF RegisterArg, SendCheck, Transmit, Goto, TypeOK
    <3>5. ASSUME NEW a \in Addresses, AddLogicalAddress(c, a) PROVE SeenInv'
      BY <2>2, <3>1, <3>5 DEF AddLogicalAddress
    <3>6. CASE ClearLogicalAddress(c)
      BY <2>2, <3>1, <3>6 DEF ClearLogicalAddress
    <3>7. CASE GetPortInfo(c)
      BY <3>1, <3>7 DEF GetPortInfo
    <3>8. CASE IsConnected(c)
      BY <3>1, <3>8 DEF IsConnected, Goto, TypeOK
    <3>9. CASE ReadPortInfo(c)
      BY <3>1, <3>9 DEF ReadPortInfo, Goto, TypeOK
    <3>10. QED
      BY <2>6, <3>2, <3>3, <3>4, <3>5, <3>6, <3>7, <3>8, <3>9 DEF ClientStep
  <2>7. CASE HotPlug
    BY <2>7 DEF HotPlug
  <2>8. CASE DriverStep
    BY <2>2, <2>7, <2>8 DEF DriverStep, MessageArrives, MessagesLost, clients
  <2>9. CASE UNCHANGED vars
    BY <2>2, <2>9 DEF vars, driver, clients
  <2>10. QED
    BY <2>1, <2>3, <2>4, <2>5, <2>6, <2>8, <2>9 DEF Next
<1>3. QED
  BY <1>1, <1>2, TypeInvariant, LifeInvariant, PTL DEF Spec

\* is_connected answers with a state of the port during the call.
THEOREM ConnectedIsFresh == Spec => []ConnectedWasSeen
<1>1. SeenInv => ConnectedWasSeen
  BY DEF SeenInv, ConnectedWasSeen
<1>2. QED
  BY <1>1, SeenInvariant, PTL
=============================================================================
