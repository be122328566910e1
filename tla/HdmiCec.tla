-------------------------------- MODULE HdmiCec --------------------------------
(***************************************************************************)
(* The HDMI-CEC HAL (hal/hdmicec/hdmi_cec.c): one context, an event thread *)
(* that polls the CEC driver, and client threads that call the device's    *)
(* functions.  options_lock guards one flag at a time, so each critical    *)
(* section is one step; everything else is shared without a lock.          *)
(*                                                                         *)
(* The CEC driver is external: it queues messages and events for the file  *)
(* descriptor, and CEC_TRANSMIT, CEC_ADAP_* are answered at once.          *)
(*                                                                         *)
(* The caller closes the device only when no other call is in progress; it *)
(* never closes it from the callback and never registers a NULL callback.  *)
(***************************************************************************)
EXTENDS Naturals, Sequences

CONSTANTS
  Clients,     \* threads that call the HAL
  Callbacks,   \* callbacks; the argument that belongs to one is its name
  Addresses,   \* logical addresses
  QueueLen     \* bound: messages, and events, the driver holds at once

NoCallback == "NULL"

ASSUME HdmiCecAssumption ==
  /\ QueueLen \in Nat \ {0}
  /\ NoCallback \notin Callbacks

\* What event_thread tells apart: "vital" passes in standby, "broken" is one
\* whose rx_status is not CEC_RX_STATUS_OK.
Message == {"vital", "ordinary", "broken"}
\* CEC_EVENT_STATE_CHANGE, and CEC_EVENT_LOST_MSGS.
Event == {"state", "lost"}
NoMessage == "none"

VARIABLES
  life,      \* where open_hdmi_cec or hdmicec_close is
  handle,    \* what the caller got: "none", "live", or "bad" (0 but no device)
  thread,    \* program counter of event_thread
  held,      \* the message event_thread has in hand
  exiting,   \* the eventfd is signalled
  enabled,   \* cec_enabled
  control,   \* cec_control_enabled
  cb, arg,   \* p_event_cb, cb_arg
  msgs,      \* received messages the driver holds
  events,    \* events the driver holds
  port,      \* the physical address is valid (a sink is connected)
  portInfo,  \* port_info.physical_address, as the last ioctl left it
  claimed,   \* logical addresses the driver was told to claim
  pc,        \* where every client is
  seen,      \* history: the states of the port while it is in is_connected
  lateCalls,     \* history: callbacks since cec_enabled was cleared,
  lateSends,     \* ... messages every client sent since then,
  lateOrdinary   \* ... and messages of kind "ordinary" passed on in standby

late == <<lateCalls, lateSends, lateOrdinary>>
options == <<enabled, control, late>>
registration == <<cb, arg>>
driver == <<msgs, events, port>>
clients == <<portInfo, claimed, pc, seen>>
vars == <<life, handle, thread, held, exiting, options, registration, driver, clients>>

NoneSent == [c \in Clients |-> 0]

Init ==
  /\ life = "closed"
  /\ handle = "none"
  /\ thread = "none"
  /\ held = NoMessage
  /\ exiting = FALSE
  /\ enabled = FALSE
  /\ control = FALSE
  /\ cb = NoCallback
  /\ arg = NoCallback
  /\ msgs = <<>>
  /\ events = <<>>
  /\ port \in BOOLEAN
  /\ portInfo = FALSE
  /\ claimed = {}
  /\ pc = [c \in Clients |-> "idle"]
  /\ seen = [c \in Clients |-> {}]
  /\ lateCalls = 0
  /\ lateSends = NoneSent
  /\ lateOrdinary = 0

-----------------------------------------------------------------------------
\* open_hdmi_cec.  The context is zeroed; cec_init empties the logical
\* addresses; the device is handed out before the thread exists.

OpenDevice ==
  /\ life = "closed"
  /\ handle = "none"
  /\ life' = "initialized"
  /\ enabled' = FALSE
  /\ control' = FALSE
  /\ lateCalls' = 0
  /\ lateSends' = NoneSent
  /\ lateOrdinary' = 0
  /\ cb' = NoCallback
  /\ arg' = NoCallback
  /\ claimed' = {}
  /\ portInfo' = FALSE
  /\ UNCHANGED <<handle, thread, held, exiting, driver, pc, seen>>

CreateThread ==
  /\ life = "initialized"
  /\ life' = "threaded"
  /\ thread' = "poll"
  /\ UNCHANGED <<handle, held, exiting, options, registration, driver, clients>>

\* The two assignments that follow are made without the lock.
EnableCec ==
  /\ life = "threaded"
  /\ life' = "enabled"
  /\ enabled' = TRUE
  /\ UNCHANGED <<handle, thread, held, exiting, control, late, registration, driver, clients>>

EnableControl ==
  /\ life = "enabled"
  /\ life' = "open"
  /\ control' = TRUE
  /\ handle' = "live"
  /\ UNCHANGED <<thread, held, exiting, enabled, late, registration, driver, clients>>

\* A step before that failed.  hdmicec_close frees the context, and -errno is
\* returned: zero when the failure was not that of a system call, as for the
\* missing capabilities in cec_init.
OpenFails(errno) ==
  /\ \/ life = "closed" /\ handle = "none"
     \/ life = "initialized"
  /\ life' = "closed"
  /\ handle' = IF errno = 0 THEN "bad" ELSE "none"
  /\ msgs' = <<>>
  /\ events' = <<>>
  /\ UNCHANGED <<thread, held, exiting, options, registration, port, clients>>

\* The caller dies of a device that is not there, and is started again.
CallerDies ==
  /\ handle = "bad"
  /\ handle' = "none"
  /\ UNCHANGED <<life, thread, held, exiting, options, registration, driver, clients>>

-----------------------------------------------------------------------------
\* hdmicec_close: signal the thread, join it, close both descriptors, free.

SignalExit ==
  /\ life = "open"
  /\ \A c \in Clients : pc[c] = "idle"
  /\ life' = "joining"
  /\ exiting' = TRUE
  /\ UNCHANGED <<handle, thread, held, options, registration, driver, clients>>

\* A variant the safety run must refute: close does not wait for the thread.
NotJoined == thread # "none"

Joined == thread = "exited"

CloseAndFree ==
  /\ life = "joining"
  /\ Joined
  /\ life' = "closed"
  /\ handle' = "none"
  /\ thread' = IF thread = "exited" THEN "none" ELSE thread
  /\ exiting' = FALSE
  /\ msgs' = <<>>
  /\ events' = <<>>
  /\ UNCHANGED <<held, options, registration, port, clients>>

-----------------------------------------------------------------------------
\* Variants the runs must refute: the exit descriptor comes last, a message is
\* passed on whatever its rx_status, the flag is not looked at again, nothing
\* is filtered in standby.

PollExitLast ==
  /\ thread = "poll"
  /\ \/ events # <<>> /\ thread' = "dqevent"
     \/ events = <<>> /\ msgs # <<>> /\ thread' = "receive"
     \/ events = <<>> /\ msgs = <<>> /\ exiting /\ thread' = "exited"
  /\ UNCHANGED <<life, handle, held, exiting, options, registration, driver, clients>>

ReceiveAnyStatus ==
  /\ thread = "receive"
  /\ msgs # <<>>
  /\ msgs' = Tail(msgs)
  /\ held' = Head(msgs)
  /\ thread' = "msg_enabled"
  /\ UNCHANGED <<life, handle, exiting, options, registration, events, port, clients>>

MsgEnabledUnread ==
  /\ thread = "msg_enabled"
  /\ thread' = "msg_control"
  /\ UNCHANGED <<life, handle, held, exiting, options, registration, driver, clients>>

TransferableAnyway(m) == m # NoMessage

\* event_thread.  POLLERR is reported for both entries of the descriptor, so
\* a message is read only in a round without an event.

Poll ==
  /\ thread = "poll"
  /\ \/ exiting /\ thread' = "exited"
     \/ ~exiting /\ events # <<>> /\ thread' = "dqevent"
     \/ ~exiting /\ events = <<>> /\ msgs # <<>> /\ thread' = "receive"
  /\ UNCHANGED <<life, handle, held, exiting, options, registration, driver, clients>>

DqEvent ==
  /\ thread = "dqevent"
  /\ events # <<>>
  /\ events' = Tail(events)
  /\ thread' = IF Head(events) = "state" THEN "event_enabled" ELSE "poll"
  /\ UNCHANGED <<life, handle, held, exiting, options, registration, msgs, port, clients>>

EventEnabled ==
  /\ thread = "event_enabled"
  /\ thread' = IF enabled THEN "event_call" ELSE "poll"
  /\ UNCHANGED <<life, handle, held, exiting, options, registration, driver, clients>>

\* CEC_RECEIVE; a message that did not arrive whole is dropped.
Receive ==
  /\ thread = "receive"
  /\ msgs # <<>>
  /\ msgs' = Tail(msgs)
  /\ IF Head(msgs) = "broken" THEN UNCHANGED held /\ thread' = "poll"
     ELSE held' = Head(msgs) /\ thread' = "msg_enabled"
  /\ UNCHANGED <<life, handle, exiting, options, registration, events, port, clients>>

\* CEC_DQEVENT or CEC_RECEIVE fails: back to the poll.
IoctlFails ==
  /\ thread \in {"dqevent", "receive"}
  /\ thread' = "poll"
  /\ UNCHANGED <<life, handle, held, exiting, options, registration, driver, clients>>

MsgEnabled ==
  /\ thread = "msg_enabled"
  /\ thread' = IF enabled THEN "msg_control" ELSE "poll"
  /\ held' = IF enabled THEN held ELSE NoMessage
  /\ UNCHANGED <<life, handle, exiting, options, registration, driver, clients>>

is_transferable_in_sleep(m) == m = "vital"

MsgControl ==
  /\ thread = "msg_control"
  /\ IF ~control /\ ~is_transferable_in_sleep(held)
     THEN thread' = "poll" /\ held' = NoMessage
     ELSE thread' = "msg_call" /\ UNCHANGED held
  /\ UNCHANGED <<life, handle, exiting, options, registration, driver, clients>>

\* p_event_cb(&event, cb_arg), when one is registered.
Call ==
  /\ thread \in {"event_call", "msg_call"}
  /\ thread' = "poll"
  /\ held' = NoMessage
  /\ lateCalls' = IF ~enabled /\ cb # NoCallback /\ lateCalls < 2
                  THEN lateCalls + 1 ELSE lateCalls
  /\ lateOrdinary' = IF ~control /\ held = "ordinary" /\ cb # NoCallback /\ lateOrdinary < 2
                     THEN lateOrdinary + 1 ELSE lateOrdinary
  /\ UNCHANGED <<life, handle, exiting, enabled, control, lateSends, registration, driver,
                 clients>>

-----------------------------------------------------------------------------
\* The device's functions, called by a client.

Begin(c) == life = "open" /\ pc[c] = "idle"
Goto(c, to) == pc' = [pc EXCEPT ![c] = to]

SetEnableCec(c, value) ==
  /\ Begin(c)
  /\ enabled' = value
  /\ lateCalls' = 0
  /\ lateSends' = NoneSent
  /\ UNCHANGED <<life, handle, thread, held, exiting, control, lateOrdinary, registration,
                 driver, clients>>

SetSystemCecControl(c, value) ==
  /\ Begin(c)
  /\ control' = value
  /\ lateOrdinary' = 0
  /\ UNCHANGED <<life, handle, thread, held, exiting, enabled, lateCalls, lateSends,
                 registration, driver, clients>>

\* register_event_callback: two assignments, no lock.
RegisterCallback(c, f) ==
  /\ Begin(c)
  /\ cb' = f
  /\ Goto(c, "registering")
  /\ UNCHANGED <<life, handle, thread, held, exiting, options, arg, driver,
                 portInfo, claimed, seen>>

RegisterArg(c) ==
  /\ pc[c] = "registering"
  /\ arg' = cb
  /\ Goto(c, "idle")
  /\ UNCHANGED <<life, handle, thread, held, exiting, options, cb, driver,
                 portInfo, claimed, seen>>

\* send_message: the flag is read under the lock, the message goes out later.
SendCheck(c) ==
  /\ Begin(c)
  /\ enabled
  /\ Goto(c, "sending")
  /\ UNCHANGED <<life, handle, thread, held, exiting, options, registration, driver,
                 portInfo, claimed, seen>>

Transmit(c) ==
  /\ pc[c] = "sending"
  /\ Goto(c, "idle")
  /\ lateSends' = [lateSends EXCEPT ![c] = IF ~enabled /\ @ < 2 THEN @ + 1 ELSE @]
  /\ UNCHANGED <<life, handle, thread, held, exiting, enabled, control, lateCalls,
                 lateOrdinary, registration, driver, portInfo, claimed, seen>>

\* The one address replaces whatever was claimed before.
AddLogicalAddress(c, a) ==
  /\ Begin(c)
  /\ claimed' = {a}
  /\ UNCHANGED <<life, handle, thread, held, exiting, options, registration, driver,
                 portInfo, pc, seen>>

ClearLogicalAddress(c) ==
  /\ Begin(c)
  /\ claimed' = {}
  /\ UNCHANGED <<life, handle, thread, held, exiting, options, registration, driver,
                 portInfo, pc, seen>>

\* A variant the safety run must refute: is_connected trusts what get_port_info
\* stored.
IsConnectedCached(c) ==
  /\ Begin(c)
  /\ seen' = [seen EXCEPT ![c] = {port}]
  /\ Goto(c, "connected")
  /\ UNCHANGED <<life, handle, thread, held, exiting, options, registration, driver,
                 portInfo, claimed>>

\* The ioctl stores the address in the context, shared by all callers ...
GetPortInfo(c) ==
  /\ Begin(c)
  /\ portInfo' = port
  /\ UNCHANGED <<life, handle, thread, held, exiting, options, registration, driver,
                 claimed, pc, seen>>

IsConnected(c) ==
  /\ Begin(c)
  /\ portInfo' = port
  /\ seen' = [seen EXCEPT ![c] = {port}]
  /\ Goto(c, "connected")
  /\ UNCHANGED <<life, handle, thread, held, exiting, options, registration, driver,
                 claimed>>

\* ... where is_connected reads it back: its answer is portInfo here.
ReadPortInfo(c) ==
  /\ pc[c] = "connected"
  /\ seen' = [seen EXCEPT ![c] = {}]
  /\ Goto(c, "idle")
  /\ UNCHANGED <<life, handle, thread, held, exiting, options, registration, driver,
                 portInfo, claimed>>

-----------------------------------------------------------------------------
\* The driver: a message, a lost-messages event, a plug or unplug.

MessageArrives(m) ==
  /\ life # "closed"
  /\ Len(msgs) < QueueLen
  /\ msgs' = Append(msgs, m)
  /\ UNCHANGED <<life, handle, thread, held, exiting, options, registration, events, port,
                 clients>>

MessagesLost ==
  /\ life # "closed"
  /\ Len(events) < QueueLen
  /\ events' = Append(events, "lost")
  /\ UNCHANGED <<life, handle, thread, held, exiting, options, registration, msgs, port,
                 clients>>

HotPlug ==
  /\ port' = ~port
  /\ seen' = [c \in Clients |-> IF pc[c] = "connected" THEN seen[c] \cup {port'} ELSE seen[c]]
  /\ events' = IF life = "closed" \/ Len(events) = QueueLen THEN events
               ELSE Append(events, "state")
  /\ UNCHANGED <<life, handle, thread, held, exiting, options, registration, msgs,
                 portInfo, claimed, pc>>

-----------------------------------------------------------------------------
ThreadStep ==
  \/ Poll \/ DqEvent \/ EventEnabled \/ Receive \/ IoctlFails
  \/ MsgEnabled \/ MsgControl \/ Call

OpenStep == OpenDevice \/ CreateThread \/ EnableCec \/ EnableControl

ClientStep(c) ==
  \/ \E value \in BOOLEAN : SetEnableCec(c, value) \/ SetSystemCecControl(c, value)
  \/ \E f \in Callbacks : RegisterCallback(c, f)
  \/ RegisterArg(c)
  \/ SendCheck(c)
  \/ Transmit(c)
  \/ \E a \in Addresses : AddLogicalAddress(c, a)
  \/ ClearLogicalAddress(c)
  \/ GetPortInfo(c)
  \/ IsConnected(c)
  \/ ReadPortInfo(c)

DriverStep ==
  \/ \E m \in Message : MessageArrives(m)
  \/ MessagesLost
  \/ HotPlug

Next ==
  \/ OpenStep
  \/ \E errno \in {0, 1} : OpenFails(errno)
  \/ CallerDies
  \/ SignalExit
  \/ CloseAndFree
  \/ ThreadStep
  \/ \E c \in Clients : ClientStep(c)
  \/ DriverStep

Spec == Init /\ [][Next]_vars

\* The scheduler runs a thread that can run, and a close in progress goes on.
Fairness == WF_vars(ThreadStep) /\ WF_vars(CloseAndFree)

FairSpec == Spec /\ Fairness

-----------------------------------------------------------------------------
TypeOK ==
  /\ life \in {"closed", "initialized", "threaded", "enabled", "open", "joining"}
  /\ handle \in {"none", "live", "bad"}
  /\ thread \in {"none", "poll", "dqevent", "event_enabled", "event_call", "receive",
                 "msg_enabled", "msg_control", "msg_call", "exited"}
  /\ held \in {"vital", "ordinary", NoMessage}
  /\ exiting \in BOOLEAN /\ enabled \in BOOLEAN /\ control \in BOOLEAN
  /\ cb \in Callbacks \cup {NoCallback} /\ arg \in Callbacks \cup {NoCallback}
  /\ msgs \in Seq(Message) /\ events \in Seq(Event)
  /\ port \in BOOLEAN /\ portInfo \in BOOLEAN
  /\ claimed \in SUBSET Addresses
  /\ pc \in [Clients -> {"idle", "registering", "sending", "connected"}]
  /\ seen \in [Clients -> SUBSET BOOLEAN]
  /\ lateCalls \in 0 .. 2 /\ lateOrdinary \in 0 .. 2
  /\ lateSends \in [Clients -> 0 .. 2]

\* Nobody touches the context once it is freed: not the event thread, which
\* close has to join, and no client; a failed open leaves no thread behind.
NoUseAfterFree ==
  life = "closed" => thread = "none" /\ \A c \in Clients : pc[c] = "idle"

\* set_option(ENABLE_CEC, 0) does not wait for the event thread, but the thread
\* reads the flag anew for everything it takes: at most one callback, and at
\* most one message per sending thread, slips through until CEC is on again.
AtMostOneLate ==
  /\ lateCalls <= 1
  /\ \A c \in Clients : lateSends[c] <= 1

\* The same for standby: after set_option(SYSTEM_CEC_CONTROL, 0) at most one
\* message that must not pass in standby does.
StandbyFilters == lateOrdinary <= 1

\* port_info is shared by all callers without a lock; still is_connected, which
\* may read it back at any moment once its ioctl is done, tells a state the port
\* had while the call was running.
ConnectedWasSeen == \A c \in Clients : pc[c] = "connected" => portInfo \in seen[c]

\* hdmi_cec_test_hal.c takes 0 from open for "open success" and uses the device.
OpenReturnsDevice == handle # "bad"

\* close returns: the thread always comes to see the exit signal, however many
\* messages and events keep arriving.
CloseReturns == life = "joining" ~> life = "closed"
-----------------------------------------------------------------------------
(* The inductive invariant behind the safety properties, by subject. *)

\* The thread has read cec_enabled as true and not yet called back.
PastEnabled == {"event_call", "msg_control", "msg_call"}

LifeInv ==
  /\ life \in {"closed", "initialized"} => thread = "none"
  /\ life # "open" => \A c \in Clients : pc[c] = "idle"

HeldInv == thread \notin {"msg_enabled", "msg_control", "msg_call"} => held = NoMessage

\* The one late callback, or message, uses up the check made while CEC was on.
LateInv ==
  /\ enabled => lateCalls = 0 /\ \A c \in Clients : lateSends[c] = 0
  /\ lateCalls # 0 => lateCalls = 1 /\ thread \notin PastEnabled
  /\ \A c \in Clients : lateSends[c] # 0 => lateSends[c] = 1 /\ pc[c] # "sending"
  /\ life \in {"initialized", "threaded"} =>
        ~enabled /\ lateCalls = 0 /\ lateSends = NoneSent /\ thread \notin PastEnabled

StandbyInv ==
  LET passing == thread = "msg_call" /\ held = "ordinary"
  IN  /\ control => lateOrdinary = 0
      /\ lateOrdinary # 0 => lateOrdinary = 1 /\ ~passing
      /\ life \in {"initialized", "threaded", "enabled"} =>
            ~control /\ lateOrdinary = 0 /\ ~passing

SeenInv == \A c \in Clients : pc[c] = "connected" => {port, portInfo} \subseteq seen[c]
=============================================================================
