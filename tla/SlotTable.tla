------------------------------- MODULE SlotTable -------------------------------
(***************************************************************************)
(* What the boot control HAL promises its callers, said without blocks,    *)
(* CRCs, loads or saves: a table of slots on which every operation is one  *)
(* atomic step that touches what it names and nothing else.  A step is     *)
(* seen at once by later calls; it survives a power cut once it has        *)
(* become stable.                                                          *)
(***************************************************************************)
EXTENDS Integers

CONSTANTS Slots, Managed, NoSlot

VARIABLES table, stable, running

tvars == <<table, stable, running>>

Bootable(m) == m.tries > 0

OthersKept(s) == \A i \in Slots \ {s} : table'[i] = table[i]

On == running # NoSlot /\ running' = running /\ stable' = stable

MarkSuccessful ==
  /\ On
  /\ OthersKept(running)
  /\ Bootable(table'[running])
  /\ table'[running].successful
  /\ table'[running].priority = table[running].priority
  /\ table'[running].verity = table[running].verity

\* The slot becomes the one to try next.  Nothing else about the other slots
\* changes than that they give way; an old success is not forgotten.
SetActive(s) ==
  /\ On
  /\ Bootable(table'[s])
  /\ table'[s].successful = table[s].successful
  /\ table'[s].verity = (s = running /\ table[s].verity)
  /\ \A i \in Managed \ {s} : table'[i].priority < table'[s].priority
  /\ \A i \in Slots \ {s} :
       /\ table'[i].priority <= table[i].priority
       /\ table'[i].tries = table[i].tries
       /\ table'[i].successful = table[i].successful
       /\ table'[i].verity = table[i].verity

SetUnbootable(s) ==
  /\ On
  /\ OthersKept(s)
  /\ ~Bootable(table'[s])
  /\ ~table'[s].successful
  /\ table'[s].priority = table[s].priority
  /\ table'[s].verity = table[s].verity

Persist == stable' = table /\ UNCHANGED <<table, running>>

PowerCut == running # NoSlot /\ table' = stable /\ running' = NoSlot /\ UNCHANGED stable

\* The bootloader: it boots a slot, charging at most that slot, or reflashes.
Boot(s) ==
  /\ running = NoSlot
  /\ running' = s
  /\ OthersKept(s)
  /\ stable' = table'

Reflash == running = NoSlot /\ stable' = table' /\ UNCHANGED running

TableNext ==
  \/ MarkSuccessful
  \/ \E s \in Managed : SetActive(s) \/ SetUnbootable(s)
  \/ Persist
  \/ PowerCut
  \/ \E s \in Slots : Boot(s)
  \/ Reflash

TableSpec == table = stable /\ running = NoSlot /\ [][TableNext]_tvars
=============================================================================
