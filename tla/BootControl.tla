------------------------------ MODULE BootControl ------------------------------
(***************************************************************************)
(* The A/B boot control HAL (hal/bootctrl/boot_control.cc) on top of the   *)
(* /misc accessors of bootloader_message.cpp.                              *)
(*                                                                         *)
(* Every operation of the HAL is load - modify - save on one 32-byte       *)
(* block, with no lock around it and a write followed by an fsync.  Each   *)
(* of these is a step here.  Several processes may have the library loaded *)
(* (the boot service; in recovery every client loads its own copy), any of *)
(* them may die between two steps, and power may be cut at any moment.     *)
(*                                                                         *)
(* The bootloader is not part of the repository: its actions are what the  *)
(* comments and the checks of boot_control.cc presume of it.               *)
(***************************************************************************)
EXTENDS Integers, FiniteSets

CONSTANTS
  Procs,          \* processes that have the HAL module loaded
  kMaxNumSlots,   \* length of bootloader_control.slot_info
  NumSlots,       \* nb_slot, as the bootloader wrote it
  kActivePriority,
  kActiveTries,
  InitialTries,   \* tries the bootloader gives a slot of a fresh device
  PropMayBeUnset  \* whether ro.boot.slot_suffix may be missing

NoSlot == -1

ASSUME BootControlAssumption ==
  /\ kMaxNumSlots \in Nat \ {0}
  /\ NumSlots \in 1 .. kMaxNumSlots
  /\ kActivePriority \in 1 .. 15     \* priority : 4
  /\ kActiveTries \in 1 .. 7         \* tries_remaining : 3
  /\ InitialTries \in 1 .. 7
  /\ PropMayBeUnset \in BOOLEAN

Slots == 0 .. kMaxNumSlots - 1
Managed == 0 .. NumSlots - 1

SlotMetadata ==
  [priority : 0 .. 15, tries : 0 .. 7, successful : BOOLEAN, verity : BOOLEAN]

\* The four fields of one slot, written out.
Slot(priority, tries, successful, verity) ==
  [priority |-> priority, tries |-> tries, successful |-> successful, verity |-> verity]

\* crc says whether crc32_le matches the other fields.
Control == [crc : BOOLEAN, suffix : Slots \cup {NoSlot}, slot : [Slots -> SlotMetadata]]

Calls ==
  [op : {"markSuccessful"}, slot : {NoSlot}]
    \cup [op : {"setActive", "setUnbootable"}, slot : Slots]

VARIABLES
  misc,      \* bootloader_control as a read of /misc returns it (page cache)
  disk,      \* bootloader_control as a power cut leaves it
  running,   \* the slot that was booted, NoSlot while the device is off
  prop,      \* index of ro.boot.slot_suffix, NoSlot when it is not set
  module,    \* BootControlPrivate of every process
  pc,        \* where every process is in BootControlInit and in an operation
  call,      \* the operation of a process that is about to save
  copy,      \* the block on that operation's stack, already modified
  attempts   \* history: boots of a slot since it was last set active

vars == <<misc, disk, running, prop, module, pc, call, copy, attempts>>
storage == <<misc, disk>>
device == <<running, prop>>
process == <<module, pc, call, copy>>

Unloaded == [initialized |-> FALSE, num_slots |-> 0, current_slot |-> 0]
NoCall == [op |-> "markSuccessful", slot |-> NoSlot]

\* What the bootloader writes when it sets up A/B for the first time.
FreshSlot(i) ==
  IF i \in Managed THEN Slot(kActivePriority, InitialTries, FALSE, FALSE)
                   ELSE Slot(0, 0, FALSE, FALSE)

Fresh == [crc |-> TRUE, suffix |-> 0, slot |-> [i \in Slots |-> FreshSlot(i)]]
Garbage == [Fresh EXCEPT !.crc = FALSE]
Empty == Garbage

Init ==
  /\ misc \in {Fresh, Garbage}
  /\ disk = misc
  /\ running = NoSlot
  /\ prop = NoSlot
  /\ module = [p \in Procs |-> Unloaded]
  /\ pc = [p \in Procs |-> "start"]
  /\ call = [p \in Procs |-> NoCall]
  /\ copy = [p \in Procs |-> Empty]
  /\ attempts = [i \in Slots |-> 0]

-----------------------------------------------------------------------------
\* Variants of BootControlInit that a run must refute: the slots of the array
\* are taken for the slots there are, and the suffix is not compared.

InitAllSlots(p) ==
  LET ok == misc.crc /\ misc.suffix = prop
  IN  /\ running # NoSlot
      /\ pc[p] = "start"
      /\ pc' = [pc EXCEPT ![p] = "idle"]
      /\ module' = [module EXCEPT ![p] =
                      [initialized  |-> ok,
                       num_slots    |-> IF ok THEN kMaxNumSlots ELSE 0,
                       current_slot |-> prop]]
      /\ UNCHANGED <<storage, device, call, copy, attempts>>

InitUncompared(p) ==
  /\ running # NoSlot
  /\ pc[p] = "start"
  /\ pc' = [pc EXCEPT ![p] = "idle"]
  /\ module' = [module EXCEPT ![p] =
                  [initialized  |-> misc.crc,
                   num_slots    |-> IF misc.crc THEN NumSlots ELSE 0,
                   current_slot |-> prop]]
  /\ UNCHANGED <<storage, device, call, copy, attempts>>

\* BootControlInit.  Both sides of the comparison of slots are converted to
\* unsigned, so an unknown suffix (-1) equals an unset property (-1).

BootControlInit(p) ==
  LET ok == misc.crc /\ misc.suffix = prop
  IN  /\ running # NoSlot
      /\ pc[p] = "start"
      /\ pc' = [pc EXCEPT ![p] = "idle"]
      /\ module' = [module EXCEPT ![p] =
                      [initialized  |-> ok,
                       num_slots    |-> IF ok THEN NumSlots ELSE 0,
                       current_slot |-> prop]]
      /\ UNCHANGED <<storage, device, call, copy, attempts>>

\* The block could not be read: what is on the stack does not match its CRC.
BootControlInitFails(p) ==
  /\ running # NoSlot
  /\ pc[p] = "start"
  /\ pc' = [pc EXCEPT ![p] = "idle"]
  /\ module' = [module EXCEPT ![p] = [Unloaded EXCEPT !.current_slot = prop]]
  /\ UNCHANGED <<storage, device, call, copy, attempts>>

-----------------------------------------------------------------------------
\* Variants a run must refute: the tries are not repaired, the successful bit
\* is not set, a slot of equal priority is not demoted, verity is always
\* reset, and success is forgotten.

MarkedTriesKept(m) == Slot(m.priority, m.tries, TRUE, m.verity)
MarkedUnsuccessful(m) == Slot(m.priority, 1, m.successful, m.verity)

ActivatedPriorityKept(m, isCurrent) ==
  Slot(m.priority, kActiveTries, m.successful, IF isCurrent THEN m.verity ELSE FALSE)

ActivatedVerityReset(m, isCurrent) ==
  Slot(kActivePriority, kActiveTries, m.successful, FALSE)

ActivatedAnew(m, isCurrent) ==
  Slot(kActivePriority, kActiveTries, FALSE, IF isCurrent THEN m.verity ELSE FALSE)

\* The operations' effect on a block.

Marked(m) == Slot(m.priority, 1, TRUE, m.verity)

MarkBootSuccessful(block, current) == [block EXCEPT !.slot[current] = Marked(@)]

\* Demotes the other slots to just below the active priority.
Demoted(m) ==
  IF m.priority >= kActivePriority
  THEN Slot(kActivePriority - 1, m.tries, m.successful, m.verity)
  ELSE m

\* The verity bit of the current slot is not touched.
Activated(m, isCurrent) ==
  Slot(kActivePriority, kActiveTries, m.successful, IF isCurrent THEN m.verity ELSE FALSE)

SetActiveBootSlot(block, s, m) ==
  [block EXCEPT !.slot =
     [i \in Slots |->
        IF i = s THEN Activated(@[i], i = m.current_slot)
        ELSE IF i < m.num_slots THEN Demoted(@[i])
        ELSE @[i]]]

Unbootable(m) == Slot(m.priority, 0, FALSE, m.verity)

SetSlotAsUnbootable(block, s) == [block EXCEPT !.slot[s] = Unbootable(@)]

ValidSlot(m, s) == s < kMaxNumSlots /\ s < m.num_slots

IsSlotMarkedSuccessful(block, s) == block.slot[s].successful /\ block.slot[s].tries # 0
IsSlotBootable(block, s) == block.slot[s].tries

Apply(c, m, block) ==
  CASE c.op = "markSuccessful" -> MarkBootSuccessful(block, m.current_slot)
    [] c.op = "setActive"      -> SetActiveBootSlot(block, c.slot, m)
    [] c.op = "setUnbootable"  -> SetSlotAsUnbootable(block, c.slot)

-----------------------------------------------------------------------------
\* An operation: LoadBootloaderControl and the changes on the stack, then
\* SaveBootloaderControl in two steps.  The CRC is not checked on this path.
\* A load that fails returns -1 and changes nothing.

Load(p, c) ==
  /\ pc[p] = "idle"
  /\ module[p].initialized
  /\ c.slot # NoSlot => ValidSlot(module[p], c.slot)
  /\ call' = [call EXCEPT ![p] = c]
  /\ copy' = [copy EXCEPT ![p] = Apply(c, module[p], misc)]
  /\ pc' = [pc EXCEPT ![p] = "saving"]
  /\ UNCHANGED <<storage, device, module, attempts>>

\* SaveBootloaderControl: the CRC is recomputed, the block is written ...
Save(p) ==
  /\ pc[p] = "saving"
  /\ misc' = [copy[p] EXCEPT !.crc = TRUE]
  /\ pc' = [pc EXCEPT ![p] = "written"]
  /\ attempts' = IF call[p].op = "setActive"
                 THEN [attempts EXCEPT ![call[p].slot] = 0]
                 ELSE attempts
  /\ call' = [call EXCEPT ![p] = NoCall]
  /\ copy' = [copy EXCEPT ![p] = Empty]
  /\ UNCHANGED <<disk, device, module>>

\* ... and then forced to the device; the operation returns 0.
Fsync(p) ==
  /\ pc[p] = "written"
  /\ disk' = misc
  /\ pc' = [pc EXCEPT ![p] = "idle"]
  /\ UNCHANGED <<misc, device, module, call, copy, attempts>>

\* open, lseek, write or fsync fails and the operation returns -1.  After a
\* failed fsync the new block is there for every later load.
SaveFails(p) ==
  /\ pc[p] \in {"saving", "written"}
  /\ pc' = [pc EXCEPT ![p] = "idle"]
  /\ call' = [call EXCEPT ![p] = NoCall]
  /\ copy' = [copy EXCEPT ![p] = Empty]
  /\ UNCHANGED <<storage, device, module, attempts>>

-----------------------------------------------------------------------------
\* The kernel, the power supply and the bootloader.

Writeback ==
  /\ disk' = misc
  /\ UNCHANGED <<misc, device, process, attempts>>

ProcDies(p) ==
  /\ pc[p] # "start"
  /\ module' = [module EXCEPT ![p] = Unloaded]
  /\ pc' = [pc EXCEPT ![p] = "start"]
  /\ call' = [call EXCEPT ![p] = NoCall]
  /\ copy' = [copy EXCEPT ![p] = Empty]
  /\ UNCHANGED <<storage, device, attempts>>

PowerCut ==
  /\ running # NoSlot
  /\ misc' = disk
  /\ running' = NoSlot
  /\ prop' = NoSlot
  /\ module' = [p \in Procs |-> Unloaded]
  /\ pc' = [p \in Procs |-> "start"]
  /\ call' = [p \in Procs |-> NoCall]
  /\ copy' = [p \in Procs |-> Empty]
  /\ UNCHANGED <<disk, attempts>>

\* The bootloader tries the best bootable slot, counting the attempt unless
\* the slot is known to be good, and may record a dm-verity corruption of it.
Best(block, s) ==
  /\ block.slot[s].tries > 0
  /\ \A i \in Managed :
        block.slot[i].tries > 0 => block.slot[i].priority <= block.slot[s].priority

Tried(m, corrupted) ==
  Slot(m.priority,
       IF m.successful THEN m.tries ELSE m.tries - 1,
       m.successful,
       IF corrupted THEN TRUE ELSE m.verity)

BootSlot(s, corrupted) ==
  /\ running = NoSlot
  /\ disk.crc
  /\ Best(disk, s)
  /\ disk' = [disk EXCEPT !.suffix = s, !.slot[s] = Tried(@, corrupted)]
  /\ misc' = disk'
  /\ running' = s
  /\ prop' \in (IF PropMayBeUnset THEN {s, NoSlot} ELSE {s})
  /\ attempts' = IF disk.slot[s].successful THEN attempts
                 ELSE [attempts EXCEPT ![s] = @ + 1]
  /\ UNCHANGED process

\* A bootloader without A/B support starts the only system there is.
BootWithoutMetadata ==
  /\ running = NoSlot
  /\ ~disk.crc
  /\ running' = 0
  /\ prop' \in {0, NoSlot}
  /\ UNCHANGED <<storage, process, attempts>>

\* Nothing to boot: the device is flashed again.
Reflash ==
  /\ running = NoSlot
  /\ disk.crc => \A i \in Managed : disk.slot[i].tries = 0
  /\ disk' = Fresh
  /\ misc' = Fresh
  /\ attempts' = [i \in Slots |-> 0]
  /\ UNCHANGED <<device, process>>

-----------------------------------------------------------------------------
HalStep(p) ==
  \/ BootControlInit(p)
  \/ BootControlInitFails(p)
  \/ \E c \in Calls : Load(p, c)
  \/ Save(p)
  \/ Fsync(p)
  \/ SaveFails(p)

Next ==
  \/ \E p \in Procs : HalStep(p) \/ ProcDies(p)
  \/ Writeback
  \/ PowerCut
  \/ \E s \in Managed, corrupted \in BOOLEAN : BootSlot(s, corrupted)
  \/ BootWithoutMetadata
  \/ Reflash

Spec == Init /\ [][Next]_vars

-----------------------------------------------------------------------------
ModuleState ==
  [initialized : BOOLEAN, num_slots : {0, NumSlots}, current_slot : Slots \cup {NoSlot}]

TypeOK ==
  /\ misc \in Control
  /\ disk \in Control
  /\ running \in Slots \cup {NoSlot}
  /\ prop \in Slots \cup {NoSlot}
  /\ module \in [Procs -> ModuleState]
  /\ pc \in [Procs -> {"start", "idle", "saving", "written"}]
  /\ call \in [Procs -> Calls]
  /\ copy \in [Procs -> Control]
  /\ attempts \in [Slots -> Nat]

\* A slot whose successful bit is set can be booted, in the block every reader
\* sees and in the one a power cut leaves: MarkBootSuccessful must repair the
\* tries the last attempt used up, and nothing may take them away again while
\* the bit stays, whatever two unlocked load-modify-save sequences do.
GoodBlock(block) ==
  \A i \in Slots : block.slot[i].successful => IsSlotBootable(block, i) > 0

SuccessfulIsBootable == GoodBlock(misc) /\ GoodBlock(disk)

\* "Set every other slot with a lower priority than the new active slot": once
\* a slot has been set active there is exactly one slot of highest priority;
\* before that all managed slots still have the priority they started with.
OneActive(block) ==
  \/ \A i \in Managed : block.slot[i].priority = kActivePriority
  \/ \E s \in Managed :
       /\ block.slot[s].priority = kActivePriority
       /\ \A i \in Managed \ {s} : block.slot[i].priority < kActivePriority

UniqueActive == OneActive(misc) /\ OneActive(disk)

\* An initialized HAL works on the slot that is running and on valid metadata,
\* also after the other processes and the device have died and come back.
InitializedIsRunning ==
  \A p \in Procs :
    module[p].initialized =>
      /\ module[p].current_slot = running
      /\ running \in Managed
      /\ misc.crc /\ disk.crc
      /\ misc.suffix = running

\* A slot that never succeeds is left after a bounded number of boots: every
\* attempt is paid for, and no sequence of calls, deaths and power cuts gives
\* one back short of setting the slot active again.
TryLimit == IF kActiveTries > InitialTries THEN kActiveTries ELSE InitialTries

BoundedIn(block) ==
  \A i \in Managed :
    ~block.slot[i].successful => attempts[i] + block.slot[i].tries <= TryLimit

BoundedAttempts == BoundedIn(misc) /\ BoundedIn(disk)

\* "We should only reset the verity_corrpted bit when attempting a new slot":
\* while a slot is running its bit never falls, not even in a stale copy.
VerityKept ==
  [][\A s \in Slots :
       running = s /\ running' = s /\ misc.slot[s].verity => misc'.slot[s].verity]_vars

\* "If the property was not set ..., we can later initialize it from the
\* bootloader_control struct": a readable, valid block is enough to initialize.
UnsetPropertyInitializes ==
  [][\A p \in Procs :
       BootControlInit(p) /\ prop = NoSlot /\ misc.crc => module'[p].initialized]_vars

\* With one process - calls are served one at a time - every load - modify -
\* save is one atomic step of the slot table, and a lost save is no step.
Table == INSTANCE SlotTable WITH table <- misc.slot, stable <- disk.slot

ImplementsSlotTable == Table!TableSpec

-----------------------------------------------------------------------------
(* The inductive invariant behind the properties above, by subject. *)

Saving(p) == pc[p] = "saving"

\* While the device is off nothing is cached and no process lives; while it is
\* on, the property and every valid block name the slot that was booted.
DeviceInv ==
  /\ running = NoSlot => misc = disk /\ \A p \in Procs : pc[p] = "start"
  /\ running # NoSlot => prop \in {running, NoSlot}
  /\ misc.crc <=> disk.crc
  /\ running # NoSlot /\ misc.crc =>
       misc.suffix = running /\ disk.suffix = running /\ running \in Managed

\* A process is in an operation only after a successful initialization, and
\* what it is about to write is a block of this boot.
ProcessInv ==
  \A p \in Procs :
    /\ module[p].initialized => /\ pc[p] # "start"
                                /\ misc.crc
                                /\ module[p].current_slot = running
                                /\ module[p].num_slots = NumSlots
    /\ pc[p] \in {"saving", "written"} => module[p].initialized
    /\ Saving(p) => /\ copy[p].suffix = running
                    /\ call[p].op # "markSuccessful" => call[p].slot \in Managed

\* The two block properties also hold of every copy.
GoodInv ==
  SuccessfulIsBootable /\ \A p \in Procs : Saving(p) => GoodBlock(copy[p])

ActiveInv ==
  UniqueActive /\ \A p \in Procs : Saving(p) => OneActive(copy[p])

\* A copy is bounded like a block, but for the slot it is about to set active.
Activates(p, i) == call[p].op = "setActive" /\ call[p].slot = i

AttemptInv ==
  /\ BoundedAttempts
  /\ \A i \in Managed : attempts[i] <= TryLimit
  /\ \A p \in Procs : Saving(p) =>
       \A i \in Managed :
         ~copy[p].slot[i].successful =>
            (IF Activates(p, i) THEN 0 ELSE attempts[i]) + copy[p].slot[i].tries <= TryLimit

\* No copy disagrees about the verity bit of the running slot.
VerityInv ==
  \A p \in Procs :
    Saving(p) => copy[p].slot[running].verity = misc.slot[running].verity

\* With one process, a copy is what the operation makes of the current block.
AtomicInv ==
  \A p \in Procs : Saving(p) => copy[p] = Apply(call[p], module[p], misc)
=============================================================================
