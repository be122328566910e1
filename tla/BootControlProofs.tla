--------------------------- MODULE BootControlProofs ---------------------------
(***************************************************************************)
(* Theorems about BootControl, for any number of processes and slots.      *)
(***************************************************************************)
EXTENDS BootControl, TLAPS

\* The constants have the types the bit fields give them.
LEMMA ConstantTypes ==
  /\ Managed \subseteq Slots
  /\ NoSlot \notin Slots
  /\ 0 \in Slots /\ 0 \in Managed
  /\ Slots \subseteq Int
  /\ \A s \in Managed : s >= 0 /\ s < NumSlots
  /\ NoCall \in Calls
BY BootControlAssumption DEF Managed, Slots, NoSlot, NoCall, Calls

LEMMA FreshTypes == Fresh \in Control /\ Garbage \in Control /\ Empty \in Control
<1>1. \A i \in Slots : FreshSlot(i) \in SlotMetadata
  BY BootControlAssumption DEF FreshSlot, Slot, SlotMetadata
<1>2. Fresh \in Control
  BY <1>1, ConstantTypes DEF Fresh, Control
<1>3. QED
  BY <1>2 DEF Garbage, Empty, Control

LEMMA SlotType ==
  ASSUME NEW priority \in 0 .. 15, NEW tries \in 0 .. 7,
         NEW successful \in BOOLEAN, NEW verity \in BOOLEAN
  PROVE  Slot(priority, tries, successful, verity) \in SlotMetadata
BY DEF Slot, SlotMetadata

\* The slot-level updates keep every field within its width.
LEMMA SlotUpdateTypes ==
  ASSUME NEW m \in SlotMetadata, NEW b \in BOOLEAN
  PROVE  /\ Activated(m, b) \in SlotMetadata
         /\ Demoted(m) \in SlotMetadata
         /\ Marked(m) \in SlotMetadata
         /\ Unbootable(m) \in SlotMetadata
         /\ m.tries > 0 => Tried(m, b) \in SlotMetadata
<1>1. Activated(m, b) \in SlotMetadata
  <2>1. m.successful \in BOOLEAN /\ m.verity \in BOOLEAN
    BY DEF SlotMetadata
  <2>2. kActivePriority \in 0 .. 15 /\ kActiveTries \in 0 .. 7
    BY BootControlAssumption
  <2>3. CASE b
    BY <2>1, <2>2, <2>3, SlotType DEF Activated
  <2>4. CASE ~b
    BY <2>1, <2>2, <2>4, SlotType DEF Activated
  <2>5. QED
    BY <2>3, <2>4
<1>2. Demoted(m) \in SlotMetadata
  BY BootControlAssumption DEF SlotMetadata, Slot, Demoted
<1>3. Marked(m) \in SlotMetadata
  BY DEF SlotMetadata, Slot, Marked
<1>4. Unbootable(m) \in SlotMetadata
  BY DEF SlotMetadata, Slot, Unbootable
<1>5. m.tries > 0 => Tried(m, b) \in SlotMetadata
  <2> HAVE m.tries > 0
  <2>1. m.successful \in BOOLEAN /\ m.verity \in BOOLEAN /\ m.priority \in 0 .. 15
    BY DEF SlotMetadata
  <2>2. (IF m.successful THEN m.tries ELSE m.tries - 1) \in 0 .. 7
    BY DEF SlotMetadata
  <2>3. CASE b
    BY <2>1, <2>2, <2>3, SlotType DEF Tried
  <2>4. CASE ~b
    BY <2>1, <2>2, <2>4, SlotType DEF Tried
  <2>5. QED
    BY <2>3, <2>4
<1>6. QED
  BY <1>1, <1>2, <1>3, <1>4, <1>5

LEMMA BlockUpdateType ==
  ASSUME NEW block \in Control, NEW s \in Slots, NEW x \in SlotMetadata
  PROVE  [block EXCEPT !.slot[s] = x] \in Control
BY DEF Control

\* An operation turns a block into a block.
LEMMA ApplyType ==
  ASSUME NEW block \in Control, NEW m \in ModuleState, NEW c \in Calls
  PROVE  Apply(c, m, block) \in Control
<1>0. \A s \in Slots : block.slot[s] \in SlotMetadata
  BY DEF Control
<1>1. CASE c.op = "markSuccessful"
  <2>1. CASE m.current_slot \in Slots
    BY <1>0, <1>1, <2>1, SlotUpdateTypes, BlockUpdateType DEF Apply, MarkBootSuccessful
  <2>2. CASE m.current_slot \notin Slots
    BY <1>1, <2>2 DEF Apply, MarkBootSuccessful, Control
  <2>3. QED
    BY <2>1, <2>2
<1>2. CASE c.op = "setActive"
  <2>1. \A i \in Slots : Activated(block.slot[i], i = m.current_slot) \in SlotMetadata
    BY <1>0, SlotUpdateTypes
  <2>2. \A i \in Slots : Demoted(block.slot[i]) \in SlotMetadata
    BY <1>0, SlotUpdateTypes
  <2>3. QED
    BY <1>0, <1>2, <2>1, <2>2 DEF Apply, SetActiveBootSlot, Control
<1>3. CASE c.op = "setUnbootable"
  <2>1. c.slot \in Slots
    BY <1>3 DEF Calls
  <2>2. QED
    BY <1>0, <1>3, <2>1, SlotUpdateTypes, BlockUpdateType DEF Apply, SetSlotAsUnbootable
<1>4. QED
  BY <1>1, <1>2, <1>3 DEF Calls

THEOREM TypeInvariant == Spec => []TypeOK
<1>1. Init => TypeOK
  BY FreshTypes, ConstantTypes DEF Init, TypeOK, ModuleState, Unloaded
<1>2. TypeOK /\ [Next]_vars => TypeOK'
  <2> SUFFICES ASSUME TypeOK, [Next]_vars PROVE TypeOK'
    OBVIOUS
  <2> USE DEF TypeOK, storage, device, process
  <2>1. ASSUME NEW p \in Procs, BootControlInit(p) PROVE TypeOK'
    BY <2>1, ConstantTypes DEF BootControlInit, ModuleState
  <2>2. ASSUME NEW p \in Procs, BootControlInitFails(p) PROVE TypeOK'
    BY <2>2, ConstantTypes DEF BootControlInitFails, ModuleState, Unloaded
  <2>3. ASSUME NEW p \in Procs, NEW c \in Calls, Load(p, c) PROVE TypeOK'
    BY <2>3, ApplyType DEF Load
  <2>4. ASSUME NEW p \in Procs, Save(p) PROVE TypeOK'
    <3>1. misc' \in Control
      BY <2>4 DEF Save, Control
    <3>2. attempts' \in [Slots -> Nat]
      BY <2>4 DEF Save
    <3>3. QED
      BY <2>4, <3>1, <3>2, FreshTypes, ConstantTypes DEF Save
  <2>5. ASSUME NEW p \in Procs, Fsync(p) PROVE TypeOK'
    BY <2>5 DEF Fsync
  <2>6. ASSUME NEW p \in Procs, SaveFails(p) PROVE TypeOK'
    BY <2>6, FreshTypes, ConstantTypes DEF SaveFails
  <2>7. ASSUME NEW p \in Procs, ProcDies(p) PROVE TypeOK'
    BY <2>7, FreshTypes, ConstantTypes DEF ProcDies, ModuleState, Unloaded
  <2>8. CASE Writeback
    BY <2>8 DEF Writeback
  <2>9. CASE PowerCut
    BY <2>9, FreshTypes, ConstantTypes DEF PowerCut, ModuleState, Unloaded
  <2>10. ASSUME NEW s \in Managed, NEW corrupted \in BOOLEAN, BootSlot(s, corrupted)
         PROVE TypeOK'
    <3>1. s \in Slots
      BY ConstantTypes
    <3>2. disk' \in Control
      <4>1. Tried(disk.slot[s], corrupted) \in SlotMetadata
        BY <2>10, <3>1, SlotUpdateTypes DEF BootSlot, Best, Control
      <4>2. [disk EXCEPT !.slot[s] = Tried(disk.slot[s], corrupted)] \in Control
        BY <3>1, <4>1, BlockUpdateType
      <4>3. QED
        BY <2>10, <3>1, <4>2 DEF BootSlot, Control
    <3>3. attempts' \in [Slots -> Nat]
      BY <2>10, <3>1 DEF BootSlot
    <3>4. QED
      BY <2>10, <3>1, <3>2, <3>3 DEF BootSlot
  <2>11. CASE BootWithoutMetadata
    BY <2>11, ConstantTypes DEF BootWithoutMetadata
  <2>12. CASE Reflash
    BY <2>12, FreshTypes DEF Reflash
  <2>13. CASE UNCHANGED vars
    BY <2>13 DEF vars
  <2>14. QED
    BY <2>1, <2>2, <2>3, <2>4, <2>5, <2>6, <2>7, <2>8, <2>9, <2>10, <2>11, <2>12, <2>13
       DEF Next, HalStep
<1>3. QED
  BY <1>1, <1>2, PTL DEF Spec

-----------------------------------------------------------------------------
\* The state of the device and of the processes.

LEMMA DeviceInvariant == Spec => [](DeviceInv /\ ProcessInv)
<1> USE DEF DeviceInv, ProcessInv, Saving
<1>1. Init => DeviceInv /\ ProcessInv
  BY DEF Init, Unloaded
<1>2. TypeOK /\ DeviceInv /\ ProcessInv /\ [Next]_vars => DeviceInv' /\ ProcessInv'
  <2> SUFFICES ASSUME TypeOK, DeviceInv, ProcessInv, [Next]_vars
               PROVE  DeviceInv' /\ ProcessInv'
    OBVIOUS
  <2> USE DEF TypeOK, storage, device, process
  <2>1. ASSUME NEW p \in Procs, BootControlInit(p) PROVE DeviceInv' /\ ProcessInv'
    <3>1. DeviceInv'
      BY <2>1 DEF BootControlInit
    <3>2. ASSUME NEW q \in Procs, module'[q].initialized
          PROVE  /\ pc'[q] # "start" /\ misc'.crc
                 /\ module'[q].current_slot = running' /\ module'[q].num_slots = NumSlots
      BY <2>1, <3>2, ConstantTypes DEF BootControlInit
    <3>3. QED
      BY <2>1, <3>1, <3>2 DEF BootControlInit
  <2>2. ASSUME NEW p \in Procs, BootControlInitFails(p) PROVE DeviceInv' /\ ProcessInv'
    BY <2>2 DEF BootControlInitFails, Unloaded
  <2>3. ASSUME NEW p \in Procs, NEW c \in Calls, Load(p, c)
        PROVE  DeviceInv' /\ ProcessInv'
    <3>1. Apply(c, module[p], misc).suffix = misc.suffix
      BY ONLY TypeOK DEF Apply, Calls, MarkBootSuccessful, SetActiveBootSlot,
                      SetSlotAsUnbootable, Control
    <3>2. running # NoSlot
      BY <2>3 DEF Load
    <3>3. c.op # "markSuccessful" => c.slot \in Managed
      BY <2>3, BootControlAssumption DEF Load, ValidSlot, Calls, Slots, NoSlot, Managed
    <3>4. QED
      BY <2>3, <3>1, <3>2, <3>3 DEF Load
  <2>4. ASSUME NEW p \in Procs, Save(p) PROVE DeviceInv' /\ ProcessInv'
    BY <2>4 DEF Save, Control
  <2>5. ASSUME NEW p \in Procs, Fsync(p) PROVE DeviceInv' /\ ProcessInv'
    BY <2>5 DEF Fsync
  <2>6. ASSUME NEW p \in Procs, SaveFails(p) PROVE DeviceInv' /\ ProcessInv'
    BY <2>6 DEF SaveFails
  <2>7. ASSUME NEW p \in Procs, ProcDies(p) PROVE DeviceInv' /\ ProcessInv'
    BY <2>7 DEF ProcDies, Unloaded
  <2>8. CASE Writeback
    BY <2>8 DEF Writeback
  <2>9. CASE PowerCut
    BY <2>9 DEF PowerCut, Unloaded
  <2>10. ASSUME NEW s \in Managed, NEW corrupted \in BOOLEAN, BootSlot(s, corrupted)
         PROVE  DeviceInv' /\ ProcessInv'
    <3>1. disk'.crc /\ disk'.suffix = s
      BY <2>10 DEF BootSlot, Control
    <3>2. s # NoSlot
      BY ConstantTypes
    <3>3. QED
      BY <2>10, <3>1, <3>2 DEF BootSlot
  <2>11. CASE BootWithoutMetadata
    BY <2>11, ConstantTypes DEF BootWithoutMetadata
  <2>12. CASE Reflash
    BY <2>12 DEF Reflash
  <2>13. CASE UNCHANGED vars
    BY <2>13 DEF vars
  <2>14. QED
    BY <2>1, <2>2, <2>3, <2>4, <2>5, <2>6, <2>7, <2>8, <2>9, <2>10, <2>11, <2>12, <2>13
       DEF Next, HalStep
<1>3. QED
  BY <1>1, <1>2, TypeInvariant, PTL DEF Spec

\* An initialized HAL works on the running slot and on valid metadata.
THEOREM Initialized == Spec => []InitializedIsRunning
<1>1. DeviceInv /\ ProcessInv => InitializedIsRunning
  BY ConstantTypes DEF DeviceInv, ProcessInv, InitializedIsRunning
<1>2. QED
  BY <1>1, DeviceInvariant, PTL

-----------------------------------------------------------------------------
\* Where a block can come from.

Booted(s, corrupted) == [disk.slot EXCEPT ![s] = Tried(disk.slot[s], corrupted)]

Source(slot) ==
  \/ slot \in {misc.slot, disk.slot, Fresh.slot}
  \/ \E p \in Procs : Saving(p) /\ slot = copy[p].slot
  \/ \E s \in Managed, corrupted \in BOOLEAN :
       disk.slot[s].tries > 0 /\ slot = Booted(s, corrupted)

\* The slots on /misc after a step are those of a known block, of a copy that
\* was about to be saved, or what the bootloader made of them; a copy is old or
\* was just loaded and modified.
LEMMA BlockFlow ==
  ASSUME TypeOK, DeviceInv, [Next]_vars
  PROVE  /\ Source(misc'.slot) /\ Source(disk'.slot)
         /\ \A p \in Procs : Saving(p)' =>
              \/ Saving(p) /\ copy'[p] = copy[p] /\ call'[p] = call[p]
              \/ \E c \in Calls : Load(p, c)
<1> USE DEF TypeOK, Source, Saving, storage, device, process
<1>1. ASSUME NEW p \in Procs, BootControlInit(p)
      PROVE  UNCHANGED <<misc, disk, copy, call>> /\ \A q \in Procs : Saving(q)' => Saving(q)
  BY <1>1 DEF BootControlInit
<1>2. ASSUME NEW p \in Procs, BootControlInitFails(p)
      PROVE  UNCHANGED <<misc, disk, copy, call>> /\ \A q \in Procs : Saving(q)' => Saving(q)
  BY <1>2 DEF BootControlInitFails
<1>3. ASSUME NEW p \in Procs, NEW c \in Calls, Load(p, c)
      PROVE  /\ UNCHANGED <<misc, disk>>
             /\ \A q \in Procs \ {p} :
                  Saving(q)' => Saving(q) /\ copy'[q] = copy[q] /\ call'[q] = call[q]
  BY <1>3 DEF Load
<1>4. ASSUME NEW p \in Procs, Save(p)
      PROVE  /\ Saving(p) /\ misc'.slot = copy[p].slot /\ disk' = disk
             /\ \A q \in Procs :
                  Saving(q)' => Saving(q) /\ copy'[q] = copy[q] /\ call'[q] = call[q]
  BY <1>4 DEF Save, Control
<1>5. ASSUME NEW p \in Procs, Fsync(p)
      PROVE  /\ UNCHANGED <<misc, copy, call>> /\ disk' = misc
             /\ \A q \in Procs : Saving(q)' => Saving(q)
  BY <1>5 DEF Fsync
<1>6. ASSUME NEW p \in Procs, SaveFails(p) \/ ProcDies(p)
      PROVE  /\ UNCHANGED <<misc, disk>>
             /\ \A q \in Procs :
                  Saving(q)' => Saving(q) /\ copy'[q] = copy[q] /\ call'[q] = call[q]
  BY <1>6 DEF SaveFails, ProcDies
<1>7. CASE Writeback
  BY <1>7 DEF Writeback
<1>8. CASE PowerCut
  BY <1>8 DEF PowerCut
<1>9. ASSUME NEW s \in Managed, NEW corrupted \in BOOLEAN, BootSlot(s, corrupted)
      PROVE  /\ disk.slot[s].tries > 0
             /\ disk'.slot = Booted(s, corrupted) /\ misc'.slot = Booted(s, corrupted)
             /\ UNCHANGED <<copy, call, pc>>
  BY <1>9 DEF BootSlot, Best, Booted, Control
<1>10. CASE BootWithoutMetadata
  BY <1>10 DEF BootWithoutMetadata
<1>11. CASE Reflash
  BY <1>11 DEF Reflash
<1>12. CASE UNCHANGED vars
  BY <1>12 DEF vars
<1>13. QED
  <2>1. ASSUME NEW p \in Procs, HalStep(p) \/ ProcDies(p)
        PROVE  /\ Source(misc'.slot) /\ Source(disk'.slot)
               /\ \A q \in Procs : Saving(q)' =>
                    \/ Saving(q) /\ copy'[q] = copy[q] /\ call'[q] = call[q]
                    \/ \E c \in Calls : Load(q, c)
    BY <2>1, <1>1, <1>2, <1>3, <1>4, <1>5, <1>6 DEF HalStep
  <2>2. QED
    BY <2>1, <1>7, <1>8, <1>9, <1>10, <1>11, <1>12 DEF Next

-----------------------------------------------------------------------------
\* The successful bit implies tries, in every block and every copy.

LEMMA ApplyGood ==
  ASSUME NEW block \in Control, NEW m \in ModuleState, NEW c \in Calls, GoodBlock(block)
  PROVE  GoodBlock(Apply(c, m, block))
<1> USE DEF GoodBlock, IsSlotBootable
<1>0. \A i \in Slots : block.slot[i] \in SlotMetadata
  BY DEF Control
<1>1. CASE c.op = "markSuccessful"
  BY <1>0, <1>1 DEF Apply, MarkBootSuccessful, Marked, Slot, Control
<1>2. CASE c.op = "setActive"
  <2>1. \A i \in Slots, b \in BOOLEAN : Activated(block.slot[i], b).tries > 0
    BY BootControlAssumption DEF Activated, Slot
  <2>2. \A i \in Slots : Demoted(block.slot[i]).successful => Demoted(block.slot[i]).tries > 0
    BY DEF Demoted, Slot
  <2>3. QED
    BY <1>2, <2>1, <2>2 DEF Apply, SetActiveBootSlot, Control
<1>3. CASE c.op = "setUnbootable"
  BY <1>0, <1>3 DEF Apply, SetSlotAsUnbootable, Unbootable, Slot, Control
<1>4. QED
  BY <1>1, <1>2, <1>3 DEF Calls

\* The bit that says a slot has booted is never seen on a slot without tries.
THEOREM SuccessfulStaysBootable == Spec => []SuccessfulIsBootable
<1> USE DEF GoodInv, SuccessfulIsBootable
<1>1. Init => GoodInv
  <2>1. \A i \in Slots : ~Fresh.slot[i].successful /\ ~Garbage.slot[i].successful
    BY DEF Fresh, Garbage, FreshSlot, Slot
  <2>2. QED
    BY <2>1 DEF Init, GoodBlock, Saving
<1>2. TypeOK /\ DeviceInv /\ GoodInv /\ [Next]_vars => GoodInv'
  <2> SUFFICES ASSUME TypeOK, DeviceInv, GoodInv, [Next]_vars PROVE GoodInv'
    OBVIOUS
  <2>1. \A slot : Source(slot) =>
          \A i \in Slots : slot[i].successful => slot[i].tries > 0
    <3>1. \A i \in Slots : ~Fresh.slot[i].successful
      BY DEF Fresh, FreshSlot, Slot
    <3>2. ASSUME NEW s \in Managed, NEW corrupted \in BOOLEAN, disk.slot[s].tries > 0
          PROVE  \A i \in Slots :
                   Booted(s, corrupted)[i].successful => Booted(s, corrupted)[i].tries > 0
      BY <3>2, ConstantTypes
         DEF Booted, Tried, Slot, GoodBlock, IsSlotBootable, TypeOK, Control, SlotMetadata
    <3>3. QED
      BY <3>1, <3>2 DEF Source, GoodBlock, IsSlotBootable
  <2>2. GoodBlock(misc)' /\ GoodBlock(disk)'
    BY <2>1, BlockFlow DEF GoodBlock, IsSlotBootable
  <2>3. ASSUME NEW p \in Procs, NEW c \in Calls, Load(p, c) PROVE GoodBlock(copy'[p])
    BY <2>3, ApplyGood DEF Load, TypeOK
  <2>4. \A p \in Procs : Saving(p)' => GoodBlock(copy'[p])
    BY <2>3, BlockFlow
  <2>5. QED
    BY <2>2, <2>4 DEF GoodBlock
<1>3. QED
  BY <1>1, <1>2, TypeInvariant, DeviceInvariant, PTL DEF Spec

-----------------------------------------------------------------------------
\* One slot of highest priority.

LEMMA ApplyActive ==
  ASSUME NEW block \in Control, NEW m \in ModuleState, NEW c \in Calls, OneActive(block),
         m.num_slots = NumSlots,
         c.op # "markSuccessful" => c.slot \in Managed
  PROVE  OneActive(Apply(c, m, block))
<1>0. \A i \in Managed : i \in Slots /\ block.slot[i] \in SlotMetadata
  BY ConstantTypes DEF Control
<1>1. CASE c.op = "markSuccessful"
  <2>1. \A i \in Managed : Apply(c, m, block).slot[i].priority = block.slot[i].priority
    BY <1>0, <1>1 DEF Apply, MarkBootSuccessful, Marked, Slot, Control
  <2>2. QED
    BY <2>1 DEF OneActive
<1>2. CASE c.op = "setActive"
  <2>1. \A i \in Managed \ {c.slot} : Apply(c, m, block).slot[i] = Demoted(block.slot[i])
    BY <1>0, <1>2, ConstantTypes DEF Apply, SetActiveBootSlot, Control
  <2>2. \A i \in Managed : Demoted(block.slot[i]).priority < kActivePriority
    BY <1>0, BootControlAssumption DEF Demoted, Slot, SlotMetadata
  <2>3. Apply(c, m, block).slot[c.slot].priority = kActivePriority
    BY <1>0, <1>2 DEF Apply, SetActiveBootSlot, Activated, Slot, Control
  <2>4. QED
    BY <1>2, <2>1, <2>2, <2>3 DEF OneActive
<1>3. CASE c.op = "setUnbootable"
  <2>1. \A i \in Managed : Apply(c, m, block).slot[i].priority = block.slot[i].priority
    BY <1>0, <1>3 DEF Apply, SetSlotAsUnbootable, Unbootable, Slot, Control
  <2>2. QED
    BY <2>1 DEF OneActive
<1>4. QED
  BY <1>1, <1>2, <1>3 DEF Calls

\* No two managed slots tie for the active priority once one was chosen.
THEOREM ActiveIsUnique == Spec => []UniqueActive
<1> USE DEF ActiveInv, UniqueActive
<1>1. Init => ActiveInv
  <2>1. \A i \in Managed : /\ Fresh.slot[i].priority = kActivePriority
                           /\ Garbage.slot[i].priority = kActivePriority
    BY ConstantTypes DEF Fresh, Garbage, FreshSlot, Slot
  <2>2. QED
    BY <2>1 DEF Init, OneActive, Saving
<1>2. TypeOK /\ DeviceInv /\ ProcessInv /\ ActiveInv /\ [Next]_vars => ActiveInv'
  <2> SUFFICES ASSUME TypeOK, DeviceInv, ProcessInv, ActiveInv, [Next]_vars
               PROVE  ActiveInv'
    OBVIOUS
  <2> DEFINE Unique(slot) ==
        \/ \A i \in Managed : slot[i].priority = kActivePriority
        \/ \E s \in Managed :
             /\ slot[s].priority = kActivePriority
             /\ \A i \in Managed \ {s} : slot[i].priority < kActivePriority
  <2>1. \A slot : Source(slot) => Unique(slot)
    <3>1. Unique(Fresh.slot)
      BY ConstantTypes DEF Fresh, FreshSlot, Slot
    <3>2. ASSUME NEW s \in Managed, NEW corrupted \in BOOLEAN
          PROVE  Unique(Booted(s, corrupted))
      <4>1. \A i \in Managed : Booted(s, corrupted)[i].priority = disk.slot[i].priority
        BY ConstantTypes DEF Booted, Tried, Slot, TypeOK, Control
      <4>2. QED
        BY <4>1 DEF OneActive
    <3>3. QED
      BY <3>1, <3>2 DEF Source, OneActive
  <2>2. OneActive(misc)' /\ OneActive(disk)'
    BY <2>1, BlockFlow DEF OneActive
  <2>3. ASSUME NEW p \in Procs, NEW c \in Calls, Load(p, c) PROVE OneActive(copy'[p])
    <3>1. c.op # "markSuccessful" => c.slot \in Managed
      BY <2>3, BootControlAssumption
         DEF Load, ValidSlot, Calls, Slots, NoSlot, Managed, ProcessInv
    <3>2. QED
      BY <2>3, <3>1, ApplyActive DEF Load, TypeOK, ProcessInv
  <2>4. \A p \in Procs : Saving(p)' => OneActive(copy'[p])
    BY <2>3, BlockFlow
  <2>5. QED
    BY <2>2, <2>4 DEF OneActive
<1>3. QED
  BY <1>1, <1>2, TypeInvariant, DeviceInvariant, PTL DEF Spec

-----------------------------------------------------------------------------
\* The number of boots of a slot that never succeeds.

LEMMA LimitType ==
  TryLimit \in Nat /\ kActiveTries <= TryLimit /\ InitialTries <= TryLimit
BY BootControlAssumption DEF TryLimit

\* What Load leaves of the tries of each managed slot.
LEMMA LoadedTries ==
  ASSUME NEW block \in Control, NEW m \in ModuleState, NEW c \in Calls, NEW i \in Managed
  PROVE  LET new == Apply(c, m, block).slot[i]
         IN  \/ new.successful
             \/ c.op = "setActive" /\ c.slot = i /\ new.tries = kActiveTries
             \/ new.tries = 0
             \/ new.tries = block.slot[i].tries /\ new.successful = block.slot[i].successful
<1>0. i \in Slots
  BY ConstantTypes
<1>1. CASE c.op = "markSuccessful"
  BY <1>0, <1>1 DEF Apply, MarkBootSuccessful, Marked, Slot, Control
<1>2. CASE c.op = "setActive"
  BY <1>0, <1>2 DEF Apply, SetActiveBootSlot, Activated, Demoted, Slot, Control
<1>3. CASE c.op = "setUnbootable"
  BY <1>0, <1>3 DEF Apply, SetSlotAsUnbootable, Unbootable, Slot, Control
<1>4. QED
  BY <1>1, <1>2, <1>3 DEF Calls

\* Every boot of a slot without success is paid for with a try.
THEOREM AttemptsAreBounded == Spec => []BoundedAttempts
<1> USE DEF AttemptInv, BoundedAttempts, BoundedIn, Saving, Activates
<1>1. Init => AttemptInv
  <2>1. \A i \in Managed : /\ Fresh.slot[i].tries = InitialTries
                           /\ Garbage.slot[i].tries = InitialTries
    BY ConstantTypes DEF Fresh, Garbage, FreshSlot, Slot
  <2>2. QED
    BY <2>1, ConstantTypes, LimitType, BootControlAssumption DEF Init
<1>2. TypeOK /\ DeviceInv /\ AttemptInv /\ [Next]_vars => AttemptInv'
  <2> SUFFICES ASSUME TypeOK, DeviceInv, AttemptInv, [Next]_vars PROVE AttemptInv'
    OBVIOUS
  <2>0. /\ \A i \in Managed : /\ i \in Slots /\ attempts[i] \in Nat
                              /\ misc.slot[i].tries \in Nat /\ disk.slot[i].tries \in Nat
        /\ \A p \in Procs, i \in Managed : copy[p].slot[i].tries \in Nat
    <3>1. \A m \in SlotMetadata : m.tries \in Nat
      BY DEF SlotMetadata
    <3>2. \A block \in Control, i \in Slots : block.slot[i] \in SlotMetadata
      BY DEF Control
    <3>3. QED
      BY <3>1, <3>2, ConstantTypes DEF TypeOK
  <2> USE DEF storage, device, process
  <2>1. ASSUME NEW p \in Procs, BootControlInit(p) \/ BootControlInitFails(p) \/ Fsync(p)
        PROVE  AttemptInv'
    BY <2>1 DEF BootControlInit, BootControlInitFails, Fsync, TypeOK
  <2>2. ASSUME NEW p \in Procs, NEW c \in Calls, Load(p, c) PROVE AttemptInv'
    <3>1. ASSUME NEW i \in Managed, ~copy'[p].slot[i].successful
          PROVE  (IF Activates(p, i)' THEN 0 ELSE attempts[i]) + copy'[p].slot[i].tries
                   <= TryLimit
      <4>1. copy'[p] = Apply(c, module[p], misc) /\ call'[p] = c
        BY <2>2 DEF Load, TypeOK
      <4>2. \/ c.op = "setActive" /\ c.slot = i /\ copy'[p].slot[i].tries = kActiveTries
            \/ copy'[p].slot[i].tries = 0
            \/ /\ copy'[p].slot[i].tries = misc.slot[i].tries
               /\ ~misc.slot[i].successful
        BY <3>1, <4>1, LoadedTries DEF TypeOK
      <4>3. QED
        BY <2>0, <3>1, <4>1, <4>2, LimitType, BootControlAssumption
    <3>2. ASSUME NEW q \in Procs, q # p
          PROVE  copy'[q] = copy[q] /\ call'[q] = call[q] /\ pc'[q] = pc[q]
      BY <2>2, <3>2 DEF Load, TypeOK
    <3>3. UNCHANGED <<misc, disk, attempts>>
      BY <2>2 DEF Load
    <3>4. QED
      BY <3>1, <3>2, <3>3
  <2>3. ASSUME NEW p \in Procs, Save(p) PROVE AttemptInv'
    <3>1. /\ \A i \in Managed : attempts'[i] = IF Activates(p, i) THEN 0 ELSE attempts[i]
          /\ misc'.slot = copy[p].slot /\ disk' = disk
      BY <2>0, <2>3 DEF Save, TypeOK, Control
    <3>2. ASSUME NEW q \in Procs, Saving(q)'
          PROVE  q # p /\ Saving(q) /\ copy'[q] = copy[q] /\ call'[q] = call[q]
      BY <2>3, <3>2 DEF Save, TypeOK
    <3>3. \A i \in Managed : attempts'[i] \in Nat /\ attempts'[i] <= attempts[i]
      BY <2>0, <3>1
    <3>4. BoundedIn(misc)'
      BY <2>3, <3>1 DEF Save
    <3>5. BoundedIn(disk)' /\ \A i \in Managed : attempts'[i] <= TryLimit
      BY <2>0, <3>1, <3>3, LimitType
    <3>6. ASSUME NEW q \in Procs, Saving(q)', NEW i \in Managed,
                 ~copy'[q].slot[i].successful
          PROVE  (IF Activates(q, i)' THEN 0 ELSE attempts'[i]) + copy'[q].slot[i].tries
                   <= TryLimit
      BY <2>0, <3>2, <3>3, <3>6, LimitType
    <3>7. QED
      BY <3>4, <3>5, <3>6
  <2>4. ASSUME NEW p \in Procs, SaveFails(p) \/ ProcDies(p) PROVE AttemptInv'
    BY <2>4 DEF SaveFails, ProcDies, TypeOK
  <2>5. CASE Writeback
    BY <2>5 DEF Writeback
  <2>6. CASE PowerCut
    BY <2>6 DEF PowerCut
  <2>7. ASSUME NEW s \in Managed, NEW corrupted \in BOOLEAN, BootSlot(s, corrupted)
        PROVE  AttemptInv'
    <3>1. \A p \in Procs : ~Saving(p)'
      BY <2>7 DEF BootSlot, DeviceInv
    <3>2. disk'.slot = Booted(s, corrupted) /\ misc' = disk' /\ disk.slot[s].tries > 0
      BY <2>7 DEF BootSlot, Best, Booted, TypeOK, Control
    <3>3. \A i \in Managed \ {s} : attempts'[i] = attempts[i] /\ disk'.slot[i] = disk.slot[i]
      BY <2>0, <2>7, <3>2 DEF BootSlot, Booted, TypeOK, Control
    <3>4. CASE disk.slot[s].successful
      <4>1. disk'.slot[s].successful /\ attempts'[s] = attempts[s]
        BY <2>0, <2>7, <3>2, <3>4 DEF BootSlot, Booted, Tried, Slot, TypeOK, Control
      <4>2. QED
        BY <3>1, <3>2, <3>3, <4>1
    <3>5. CASE ~disk.slot[s].successful
      <4>1. disk'.slot[s].tries = disk.slot[s].tries - 1 /\ attempts'[s] = attempts[s] + 1
        BY <2>0, <2>7, <3>2, <3>5 DEF BootSlot, Booted, Tried, Slot, TypeOK, Control
      <4>2. attempts'[s] + disk'.slot[s].tries <= TryLimit /\ attempts'[s] <= TryLimit
        BY <2>0, <3>2, <3>5, <4>1, LimitType
      <4>3. QED
        BY <3>1, <3>2, <3>3, <4>2
    <3>6. QED
      BY <3>4, <3>5
  <2>8. CASE BootWithoutMetadata
    BY <2>8 DEF BootWithoutMetadata
  <2>9. CASE Reflash
    <3>1. \A i \in Managed : Fresh.slot[i].tries = InitialTries /\ attempts'[i] = 0
      BY <2>9, ConstantTypes DEF Reflash, Fresh, FreshSlot, Slot
    <3>2. misc' = Fresh /\ disk' = Fresh /\ \A p \in Procs : ~Saving(p)'
      BY <2>9 DEF Reflash, DeviceInv
    <3>3. QED
      BY <3>1, <3>2, LimitType, BootControlAssumption
  <2>10. CASE UNCHANGED vars
    BY <2>10 DEF vars
  <2>11. QED
    BY <2>1, <2>2, <2>3, <2>4, <2>5, <2>6, <2>7, <2>8, <2>9, <2>10 DEF Next, HalStep
<1>3. QED
  BY <1>1, <1>2, TypeInvariant, DeviceInvariant, PTL DEF Spec

-----------------------------------------------------------------------------
\* The verity bit of the running slot.

LEMMA ApplyVerity ==
  ASSUME NEW block \in Control, NEW m \in ModuleState, NEW c \in Calls,
         m.current_slot \in Slots
  PROVE  Apply(c, m, block).slot[m.current_slot].verity = block.slot[m.current_slot].verity
<1>1. CASE c.op = "markSuccessful"
  BY <1>1 DEF Apply, MarkBootSuccessful, Marked, Slot, Control
<1>2. CASE c.op = "setActive"
  BY <1>2 DEF Apply, SetActiveBootSlot, Activated, Demoted, Slot, Control
<1>3. CASE c.op = "setUnbootable"
  BY <1>3 DEF Apply, SetSlotAsUnbootable, Unbootable, Slot, Control
<1>4. QED
  BY <1>1, <1>2, <1>3 DEF Calls

LEMMA VerityInvariant == Spec => []VerityInv
<1> USE DEF VerityInv, Saving
<1>1. Init => VerityInv
  BY DEF Init
<1>2. TypeOK /\ DeviceInv /\ ProcessInv /\ VerityInv /\ [Next]_vars => VerityInv'
  <2> SUFFICES ASSUME TypeOK, DeviceInv, ProcessInv, VerityInv, [Next]_vars
               PROVE  VerityInv'
    OBVIOUS
  <2> USE DEF storage, device, process
  <2>1. ASSUME NEW p \in Procs, BootControlInit(p) \/ BootControlInitFails(p) \/ Fsync(p)
        PROVE  VerityInv'
    BY <2>1 DEF BootControlInit, BootControlInitFails, Fsync, TypeOK
  <2>2. ASSUME NEW p \in Procs, NEW c \in Calls, Load(p, c) PROVE VerityInv'
    <3>1. module[p].current_slot = running /\ running \in Slots
      BY <2>2, ConstantTypes DEF Load, ProcessInv, DeviceInv
    <3>2. copy'[p].slot[running].verity = misc.slot[running].verity
      BY <2>2, <3>1, ApplyVerity DEF Load, TypeOK
    <3>3. QED
      BY <2>2, <3>2 DEF Load, TypeOK
  <2>3. ASSUME NEW p \in Procs, Save(p) PROVE VerityInv'
    <3>1. /\ misc'.slot[running] = copy[p].slot[running]
          /\ running' = running
          /\ \A q \in Procs : Saving(q)' => Saving(q) /\ copy'[q] = copy[q]
      BY <2>3 DEF Save, TypeOK, Control
    <3>2. copy[p].slot[running].verity = misc.slot[running].verity
      BY <2>3 DEF Save
    <3>3. QED
      BY <3>1, <3>2
  <2>4. ASSUME NEW p \in Procs, SaveFails(p) \/ ProcDies(p) PROVE VerityInv'
    BY <2>4 DEF SaveFails, ProcDies, TypeOK
  <2>5. CASE Writeback
    BY <2>5 DEF Writeback
  <2>6. CASE PowerCut
    BY <2>6 DEF PowerCut
  <2>7. CASE running = NoSlot /\ UNCHANGED pc
    BY <2>7 DEF DeviceInv
  <2>8. CASE UNCHANGED vars
    BY <2>8 DEF vars
  <2>9. QED
    BY <2>1, <2>2, <2>3, <2>4, <2>5, <2>6, <2>7, <2>8
       DEF Next, HalStep, BootSlot, BootWithoutMetadata, Reflash
<1>3. QED
  BY <1>1, <1>2, TypeInvariant, DeviceInvariant, PTL DEF Spec

\* No call, of any process, clears the corruption bit of the slot in use.
THEOREM VerityIsKept == Spec => VerityKept
<1>1. TypeOK /\ VerityInv /\ [Next]_vars =>
        [\A s \in Slots :
           running = s /\ running' = s /\ misc.slot[s].verity => misc'.slot[s].verity]_vars
  <2> SUFFICES ASSUME TypeOK, VerityInv, [Next]_vars, NEW s \in Slots,
                      running = s, running' = s, misc.slot[s].verity
               PROVE  misc'.slot[s].verity
    OBVIOUS
  <2> USE DEF storage, device, process
  <2>0. s # NoSlot
    BY ConstantTypes
  <2>1. ASSUME NEW p \in Procs, Save(p) PROVE misc'.slot[s].verity
    <3>1. misc'.slot[s] = copy[p].slot[s] /\ Saving(p)
      BY <2>1 DEF Save, TypeOK, Control, Saving
    <3>2. QED
      BY <3>1 DEF VerityInv
  <2>2. CASE misc' = misc
    BY <2>2
  <2>3. ASSUME NEW p \in Procs, HalStep(p), ~Save(p) PROVE misc' = misc
    BY <2>3 DEF HalStep, BootControlInit, BootControlInitFails, Load, Fsync, SaveFails
  <2>4. QED
    BY <2>0, <2>1, <2>2, <2>3
       DEF Next, ProcDies, Writeback, PowerCut, BootSlot, BootWithoutMetadata, Reflash, vars
<1>2. QED
  BY <1>1, TypeInvariant, VerityInvariant, PTL DEF Spec, VerityKept

-----------------------------------------------------------------------------
\* Refinement of the slot table.

LEMMA AtomicInvariant ==
  ASSUME NEW service, Procs = {service}
  PROVE  Spec => []AtomicInv
<1> USE DEF AtomicInv, Saving
<1>1. Init => AtomicInv
  BY DEF Init
<1>2. TypeOK /\ DeviceInv /\ AtomicInv /\ Next => AtomicInv'
  <2> SUFFICES ASSUME TypeOK, DeviceInv, AtomicInv, Next PROVE AtomicInv'
    OBVIOUS
  <2> USE DEF storage, device, process
  <2>1. ASSUME NEW p \in Procs, HalStep(p) \/ ProcDies(p) PROVE AtomicInv'
    BY <2>1 DEF HalStep, ProcDies, BootControlInit, BootControlInitFails, Load, Save,
                Fsync, SaveFails, TypeOK
  <2>2. CASE Writeback
    BY <2>2 DEF Writeback
  <2>3. CASE PowerCut
    BY <2>3 DEF PowerCut
  <2>4. CASE running = NoSlot /\ UNCHANGED pc
    BY <2>4 DEF DeviceInv
  <2> QED
    BY <2>1, <2>2, <2>3, <2>4 DEF Next, BootSlot, BootWithoutMetadata, Reflash
<1>3. AtomicInv /\ UNCHANGED vars => AtomicInv'
  BY DEF vars, storage, device, process
<1> QED
  BY <1>1, <1>2, <1>3, TypeInvariant, DeviceInvariant, PTL DEF Spec

\* The change an operation makes to a block is the one the table allows.
LEMMA SaveRefines ==
  ASSUME TypeOK, DeviceInv, ProcessInv, AtomicInv, NEW p \in Procs, Save(p)
  PROVE  \/ Table!MarkSuccessful
         \/ \E s \in Managed : Table!SetActive(s) \/ Table!SetUnbootable(s)
<1> DEFINE c == call[p]
           new == Apply(c, module[p], misc)
<1>0. /\ \A i \in Slots : misc.slot[i] \in SlotMetadata
      /\ Managed \subseteq Slots
      /\ c \in Calls /\ misc \in Control
  BY ConstantTypes DEF TypeOK, Control
<1>1. /\ module[p].current_slot = running /\ module[p].num_slots = NumSlots
      /\ running \in Slots /\ running # NoSlot
      /\ c.op # "markSuccessful" => c.slot \in Managed
  BY ConstantTypes DEF Save, Saving, ProcessInv, DeviceInv
<1>2. misc'.slot = new.slot /\ UNCHANGED <<disk, running>>
  BY DEF Save, Saving, AtomicInv, TypeOK, Control, device
<1>3. Table!On
  BY <1>1, <1>2 DEF Table!On
<1>4. CASE c.op = "markSuccessful"
  <2>1. misc'.slot = [misc.slot EXCEPT ![running] = Marked(misc.slot[running])]
    BY <1>0, <1>1, <1>2, <1>4 DEF Apply, MarkBootSuccessful, Control
  <2>2. Table!MarkSuccessful
    BY <1>0, <1>1, <1>3, <2>1
       DEF Table!MarkSuccessful, Table!OthersKept, Table!Bootable, Marked, Slot, Control
  <2>3. QED
    BY <2>2
<1>5. CASE c.op = "setActive"
  <2>1. misc'.slot = [i \in Slots |->
                        IF i = c.slot THEN Activated(misc.slot[i], i = running)
                        ELSE IF i < NumSlots THEN Demoted(misc.slot[i])
                        ELSE misc.slot[i]]
    BY <1>0, <1>1, <1>2, <1>5 DEF Apply, SetActiveBootSlot, Control
  <2>2. \A i \in Slots : /\ Demoted(misc.slot[i]).priority <= misc.slot[i].priority
                         /\ Demoted(misc.slot[i]).priority < kActivePriority
                         /\ Demoted(misc.slot[i]).tries = misc.slot[i].tries
                         /\ Demoted(misc.slot[i]).successful = misc.slot[i].successful
                         /\ Demoted(misc.slot[i]).verity = misc.slot[i].verity
    BY <1>0, BootControlAssumption DEF Demoted, Slot, SlotMetadata
  <2>3. c.slot \in Managed /\ c.slot \in Slots
    BY <1>0, <1>1, <1>5
  <2>4. /\ misc'.slot[c.slot].tries > 0
        /\ misc'.slot[c.slot].successful = misc.slot[c.slot].successful
        /\ misc'.slot[c.slot].priority = kActivePriority
    BY <2>1, <2>3, BootControlAssumption DEF Activated, Slot
  <2>5. misc'.slot[c.slot].verity = (c.slot = running /\ misc.slot[c.slot].verity)
    <3>1. misc.slot[c.slot].verity \in BOOLEAN
      BY <1>0, <2>3 DEF SlotMetadata
    <3>2. misc'.slot[c.slot].verity = IF c.slot = running THEN misc.slot[c.slot].verity
                                      ELSE FALSE
      <4>1. misc'.slot[c.slot] = Activated(misc.slot[c.slot], c.slot = running)
        BY <2>1, <2>3
      <4>2. CASE c.slot = running
        BY <4>1, <4>2 DEF Activated, Slot
      <4>3. CASE c.slot # running
        BY <4>1, <4>3 DEF Activated, Slot
      <4>4. QED
        BY <4>2, <4>3
    <3>3. QED
      BY <3>1, <3>2
  <2>6. \A i \in Managed \ {c.slot} : misc'.slot[i].priority < kActivePriority
    BY <1>0, <2>1, <2>2, ConstantTypes
  <2>7. \A i \in Slots \ {c.slot} :
           /\ misc'.slot[i].priority <= misc.slot[i].priority
           /\ misc'.slot[i].tries = misc.slot[i].tries
           /\ misc'.slot[i].successful = misc.slot[i].successful
           /\ misc'.slot[i].verity = misc.slot[i].verity
    <3>1. \A i \in Slots : misc.slot[i].priority <= misc.slot[i].priority
      BY <1>0 DEF SlotMetadata
    <3>2. QED
      BY <2>1, <2>2, <3>1
  <2>8. Table!SetActive(c.slot)
    BY <1>3, <2>4, <2>5, <2>6, <2>7 DEF Table!SetActive, Table!Bootable
  <2>9. QED
    BY <2>3, <2>8
<1>6. CASE c.op = "setUnbootable"
  <2>1. c.slot \in Managed /\ c.slot \in Slots
    BY <1>0, <1>1, <1>6
  <2>2. misc'.slot = [misc.slot EXCEPT ![c.slot] = Unbootable(misc.slot[c.slot])]
    BY <1>0, <1>2, <1>6, <2>1 DEF Apply, SetSlotAsUnbootable, Control
  <2>3. Table!SetUnbootable(c.slot)
    BY <1>0, <1>3, <2>1, <2>2
       DEF Table!SetUnbootable, Table!OthersKept, Table!Bootable, Unbootable, Slot, Control
  <2>4. QED
    BY <2>1, <2>3
<1>7. QED
  BY <1>0, <1>4, <1>5, <1>6 DEF Calls

\* Served one call at a time, the HAL is the atomic slot table.
THEOREM Refinement ==
  ASSUME NEW service, Procs = {service}
  PROVE  Spec => ImplementsSlotTable
<1>1. Init => misc.slot = disk.slot /\ running = NoSlot
  BY DEF Init
<1>2. TypeOK /\ DeviceInv /\ ProcessInv /\ AtomicInv /\ [Next]_vars
        => [Table!TableNext]_(Table!tvars)
  <2> SUFFICES ASSUME TypeOK, DeviceInv, ProcessInv, AtomicInv, [Next]_vars
               PROVE  [Table!TableNext]_(Table!tvars)
    OBVIOUS
  <2> USE DEF storage, device, process
  <2>1. ASSUME NEW p \in Procs, HalStep(p), ~Save(p), ~Fsync(p) PROVE UNCHANGED Table!tvars
    BY <2>1 DEF HalStep, BootControlInit, BootControlInitFails, Load, SaveFails, Table!tvars
  <2>2. ASSUME NEW p \in Procs, Save(p) PROVE Table!TableNext
    BY <2>2, SaveRefines DEF Table!TableNext
  <2>3. ASSUME NEW p \in Procs, Fsync(p) PROVE Table!Persist
    BY <2>3 DEF Fsync, Table!Persist
  <2>4. CASE Writeback
    BY <2>4 DEF Writeback, Table!TableNext, Table!Persist
  <2>5. CASE PowerCut
    BY <2>5 DEF PowerCut, Table!TableNext, Table!PowerCut
  <2>6. ASSUME NEW s \in Managed, NEW corrupted \in BOOLEAN, BootSlot(s, corrupted)
        PROVE  Table!Boot(s) /\ s \in Slots
    BY <2>6, ConstantTypes
       DEF BootSlot, Best, Table!Boot, Table!OthersKept, DeviceInv, TypeOK, Control
  <2>7. CASE BootWithoutMetadata
    BY <2>7, ConstantTypes
       DEF BootWithoutMetadata, DeviceInv, Table!TableNext, Table!Boot, Table!OthersKept
  <2>8. CASE Reflash
    BY <2>8 DEF Reflash, Table!TableNext, Table!Reflash
  <2>9. ASSUME NEW p \in Procs, ProcDies(p) PROVE UNCHANGED Table!tvars
    BY <2>9 DEF ProcDies, Table!tvars
  <2>10. CASE UNCHANGED vars
    BY <2>10 DEF vars, Table!tvars
  <2>11. QED
    BY <2>1, <2>2, <2>3, <2>4, <2>5, <2>6, <2>7, <2>8, <2>9, <2>10
       DEF Next, Table!TableNext
<1>3. QED
  BY <1>1, <1>2, TypeInvariant, DeviceInvariant, AtomicInvariant, PTL
     DEF Spec, ImplementsSlotTable, Table!TableSpec
=============================================================================
