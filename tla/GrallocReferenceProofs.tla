------------------------ MODULE GrallocReferenceProofs ------------------------
(***************************************************************************)
(* Theorems about GrallocReference, for any processes, structs, buffers,   *)
(* addresses and bounds.                                                   *)
(*                                                                         *)
(* The record updates are dealt with once, in a lemma on the effect of     *)
(* each action; the steps of the invariants use those lemmas, with the     *)
(* structs' record type hidden.  TypeOK needs CountInv (a struct that is   *)
(* freed has no references left), OwnerInv and WriterInv need both.        *)
(***************************************************************************)
EXTENDS GrallocReference, TLAPS

(***************************************************************************)
(* Structs and their updates.                                              *)
(***************************************************************************)

\* The same struct, as far as ref_count, base and writeOwner do not matter.
Same(r, s) ==
  /\ r.proc = s.proc /\ r.buf = s.buf /\ r.own = s.own
  /\ r.allocating_pid = s.allocating_pid /\ r.remote_pid = s.remote_pid

LEMMA StructFields ==
  ASSUME NEW s \in Struct
  PROVE  /\ s.proc \in Procs /\ s.buf \in Buffers /\ s.allocating_pid \in Procs
         /\ s.remote_pid \in Procs \cup {None} /\ s.ref_count \in Nat
         /\ s.base \in Addrs \cup {None} /\ s.writeOwner \in BOOLEAN /\ s.own \in BOOLEAN
         /\ s # None
BY GrallocReferenceAssumption DEF Struct

LEMMA SetEntry ==
  ASSUME NEW D, NEW R, NEW f \in [D -> R], NEW h \in D, NEW r \in R
  PROVE  /\ [f EXCEPT ![h] = r] \in [D -> R]
         /\ [f EXCEPT ![h] = r][h] = r
         /\ \A g \in D : g # h => [f EXCEPT ![h] = r][g] = f[g]
OBVIOUS

LEMMA LiveStruct ==
  ASSUME TypeOK, NEW h \in Live
  PROVE  h \in Handles /\ handle[h] \in Struct
BY DEF Live, TypeOK

(***************************************************************************)
(* What each action does to its struct.                                    *)
(***************************************************************************)
HandleTypes ==
  /\ handle \in [Handles -> Struct \cup {None}]
  /\ held \in [Handles -> Nat]
  /\ access \in [Handles -> {"none", "read", "write", "lost"}]

Others(h) == \A g \in Handles : g # h =>
  handle'[g] = handle[g] /\ held'[g] = held[g] /\ access'[g] = access[g]

LEMMA RetainEffect ==
  ASSUME TypeOK, NEW h \in Handles, Retain(h)
  PROVE  /\ HandleTypes' /\ Others(h)
         /\ handle[h] \in Struct /\ held[h] \in Nat
         /\ handle'[h] \in Struct /\ Same(handle'[h], handle[h])
         /\ handle'[h].base = handle[h].base /\ handle'[h].writeOwner = handle[h].writeOwner
         /\ handle'[h].ref_count = handle[h].ref_count + 1
         /\ held'[h] = held[h] + 1 /\ access'[h] = access[h]
<1>1. handle[h] \in Struct /\ held[h] \in Nat
  BY LiveStruct DEF Retain, TypeOK
<1> DEFINE r == [handle[h] EXCEPT !.ref_count = handle[h].ref_count + 1]
<1>2. /\ r \in Struct /\ Same(r, handle[h]) /\ r.ref_count = handle[h].ref_count + 1
      /\ r.base = handle[h].base /\ r.writeOwner = handle[h].writeOwner
  BY <1>1 DEF Struct, Same
<1>3. handle' = [handle EXCEPT ![h] = r]
  BY DEF Retain
<1>. HIDE DEF r
<1>4. /\ handle' \in [Handles -> Struct \cup {None}] /\ handle'[h] = r
      /\ \A g \in Handles : g # h => handle'[g] = handle[g]
  BY <1>2, <1>3, SetEntry DEF TypeOK
<1>5. /\ held' \in [Handles -> Nat] /\ held'[h] = held[h] + 1
      /\ \A g \in Handles : g # h => held'[g] = held[g]
  BY DEF Retain, TypeOK
<1>6. /\ access' \in [Handles -> {"none", "read", "write", "lost"}]
      /\ access'[h] = access[h] /\ \A g \in Handles : g # h => access'[g] = access[g]
  BY DEF Retain, TypeOK
<1> QED
  BY <1>1, <1>2, <1>4, <1>5, <1>6 DEF HandleTypes, Others

LEMMA ReleaseEffect ==
  ASSUME TypeOK, NEW h \in Handles, Release(h)
  PROVE  /\ HandleTypes' /\ Others(h)
         /\ handle[h] \in Struct /\ held[h] \in Nat \ {0} /\ handle[h].ref_count > 1
         /\ handle'[h] \in Struct /\ Same(handle'[h], handle[h])
         /\ handle'[h].base = handle[h].base /\ handle'[h].writeOwner = handle[h].writeOwner
         /\ handle'[h].ref_count = handle[h].ref_count - 1
         /\ held'[h] = held[h] - 1 /\ access'[h] = access[h]
<1>1. handle[h] \in Struct /\ held[h] \in Nat \ {0} /\ handle[h].ref_count > 1
  BY LiveStruct DEF Release, MayRelease, TypeOK
<1> DEFINE r == [handle[h] EXCEPT !.ref_count = handle[h].ref_count - 1]
<1>2. /\ r \in Struct /\ Same(r, handle[h]) /\ r.ref_count = handle[h].ref_count - 1
      /\ r.base = handle[h].base /\ r.writeOwner = handle[h].writeOwner
  BY <1>1 DEF Struct, Same
<1>3. handle' = [handle EXCEPT ![h] = r]
  BY DEF Release
<1>. HIDE DEF r
<1>4. /\ handle' \in [Handles -> Struct \cup {None}] /\ handle'[h] = r
      /\ \A g \in Handles : g # h => handle'[g] = handle[g]
  BY <1>2, <1>3, SetEntry DEF TypeOK
<1>5. /\ held' \in [Handles -> Nat] /\ held'[h] = held[h] - 1
      /\ \A g \in Handles : g # h => held'[g] = held[g]
  <2>1. held[h] - 1 \in Nat
    BY <1>1
  <2> QED
    BY <2>1, SetEntry DEF Release, TypeOK
<1>6. /\ access' \in [Handles -> {"none", "read", "write", "lost"}]
      /\ access'[h] = access[h] /\ \A g \in Handles : g # h => access'[g] = access[g]
  BY DEF Release, TypeOK
<1> QED
  BY <1>1, <1>2, <1>4, <1>5, <1>6 DEF HandleTypes, Others

LEMMA ReleaseImportedEffect ==
  ASSUME TypeOK, NEW h \in Handles, ReleaseImported(h)
  PROVE  /\ HandleTypes' /\ Others(h)
         /\ handle[h] \in Struct /\ held[h] \in Nat \ {0} /\ handle[h].ref_count = 1
         /\ handle'[h] \in Struct /\ Same(handle'[h], handle[h])
         /\ handle'[h].ref_count = 0
         /\ held'[h] = held[h] - 1 /\ access'[h] = access[h]
<1>1. handle[h] \in Struct /\ held[h] \in Nat \ {0} /\ handle[h].ref_count = 1
  BY LiveStruct DEF ReleaseImported, MayRelease, TypeOK
<1> DEFINE r == [handle[h] EXCEPT !.ref_count = 0, !.base = None, !.writeOwner = FALSE]
<1>2. /\ r \in Struct /\ Same(r, handle[h]) /\ r.ref_count = 0
  BY <1>1 DEF Struct, Same
<1>3. handle' = [handle EXCEPT ![h] = r]
  BY DEF ReleaseImported
<1>. HIDE DEF r
<1>4. /\ handle' \in [Handles -> Struct \cup {None}] /\ handle'[h] = r
      /\ \A g \in Handles : g # h => handle'[g] = handle[g]
  BY <1>2, <1>3, SetEntry DEF TypeOK
<1>5. /\ held' \in [Handles -> Nat] /\ held'[h] = held[h] - 1
      /\ \A g \in Handles : g # h => held'[g] = held[g]
  BY <1>1 DEF ReleaseImported, TypeOK
<1>6. /\ access' \in [Handles -> {"none", "read", "write", "lost"}]
      /\ access'[h] = access[h] /\ \A g \in Handles : g # h => access'[g] = access[g]
  BY DEF ReleaseImported, TypeOK
<1> QED
  BY <1>1, <1>2, <1>4, <1>5, <1>6 DEF HandleTypes, Others

LEMMA LockEffect ==
  ASSUME TypeOK, NEW h \in Handles, NEW mode \in {"read", "write"}, LockBuffer(h, mode)
  PROVE  /\ HandleTypes' /\ Others(h)
         /\ handle[h] \in Struct
         /\ handle'[h] \in Struct /\ Same(handle'[h], handle[h])
         /\ handle'[h].ref_count = handle[h].ref_count /\ handle'[h].base = handle[h].base
         /\ handle'[h].writeOwner = (mode = "write")
         /\ held'[h] = held[h] /\ access'[h] = mode
<1>1. handle[h] \in Struct
  BY LiveStruct DEF LockBuffer
<1> DEFINE r == [handle[h] EXCEPT !.writeOwner = (mode = "write")]
<1>2. /\ r \in Struct /\ Same(r, handle[h]) /\ r.ref_count = handle[h].ref_count
      /\ r.base = handle[h].base /\ r.writeOwner = (mode = "write")
  BY <1>1 DEF Struct, Same
<1>3. handle' = [handle EXCEPT ![h] = r]
  BY DEF LockBuffer
<1>. HIDE DEF r
<1>4. /\ handle' \in [Handles -> Struct \cup {None}] /\ handle'[h] = r
      /\ \A g \in Handles : g # h => handle'[g] = handle[g]
  BY <1>2, <1>3, SetEntry DEF TypeOK
<1>5. /\ held' \in [Handles -> Nat] /\ held'[h] = held[h]
      /\ \A g \in Handles : g # h => held'[g] = held[g]
  BY DEF LockBuffer, TypeOK
<1>6. /\ access' \in [Handles -> {"none", "read", "write", "lost"}]
      /\ access'[h] = mode /\ \A g \in Handles : g # h => access'[g] = access[g]
  BY DEF LockBuffer, TypeOK
<1> QED
  BY <1>1, <1>2, <1>4, <1>5, <1>6 DEF HandleTypes, Others

LEMMA ImportKnownEffect ==
  ASSUME TypeOK, NEW h \in Handles, NEW s \in parcels, ImportKnown(s, h)
  PROVE  /\ HandleTypes' /\ Others(h)
         /\ s \in Struct /\ handle'[h] \in Struct /\ Same(handle'[h], s)
         /\ handle'[h].ref_count = s.ref_count + 1
         /\ held'[h] = 1 /\ access'[h] = access[h] /\ access[h] # "write"
<1>1. s \in Struct
  BY DEF TypeOK
<1> DEFINE r == [s EXCEPT !.ref_count = s.ref_count + 1]
<1>2. /\ r \in Struct /\ Same(r, s) /\ r.ref_count = s.ref_count + 1
  BY <1>1 DEF Struct, Same
<1>3. handle' = [handle EXCEPT ![h] = r]
  BY DEF ImportKnown
<1>. HIDE DEF r
<1>4. /\ handle' \in [Handles -> Struct \cup {None}] /\ handle'[h] = r
      /\ \A g \in Handles : g # h => handle'[g] = handle[g]
  BY <1>2, <1>3, SetEntry DEF TypeOK
<1>5. /\ held' \in [Handles -> Nat] /\ held'[h] = 1
      /\ \A g \in Handles : g # h => held'[g] = held[g]
  BY DEF ImportKnown, TypeOK
<1>6. /\ access' \in [Handles -> {"none", "read", "write", "lost"}]
      /\ access'[h] = access[h] /\ access[h] = "none"
      /\ \A g \in Handles : g # h => access'[g] = access[g]
  BY DEF ImportKnown, TypeOK
<1> QED
  BY <1>1, <1>2, <1>4, <1>5, <1>6 DEF HandleTypes, Others

LEMMA ImportMapsEffect ==
  ASSUME TypeOK, NEW h \in Handles, NEW s \in parcels, NEW a \in Addrs,
         ImportMaps(s, h, a)
  PROVE  /\ HandleTypes' /\ Others(h)
         /\ s \in Struct /\ handle'[h] \in Struct
         /\ handle'[h].proc = s.proc /\ handle'[h].buf = s.buf /\ handle'[h].own
         /\ handle'[h].remote_pid = s.proc /\ handle'[h].base = a
         /\ handle'[h].ref_count = 1
         /\ held'[h] = 1 /\ access'[h] = access[h] /\ access[h] # "write"
<1>1. s \in Struct
  BY DEF TypeOK
<1> DEFINE r == [s EXCEPT !.remote_pid = s.proc, !.ref_count = 1, !.base = a, !.own = TRUE]
<1>2. /\ r \in Struct /\ r.proc = s.proc /\ r.buf = s.buf /\ r.own
      /\ r.remote_pid = s.proc /\ r.base = a /\ r.ref_count = 1
  BY <1>1 DEF Struct
<1>3. handle' = [handle EXCEPT ![h] = r]
  BY DEF ImportMaps
<1>. HIDE DEF r
<1>4. /\ handle' \in [Handles -> Struct \cup {None}] /\ handle'[h] = r
      /\ \A g \in Handles : g # h => handle'[g] = handle[g]
  BY <1>2, <1>3, SetEntry DEF TypeOK
<1>5. /\ held' \in [Handles -> Nat] /\ held'[h] = 1
      /\ \A g \in Handles : g # h => held'[g] = held[g]
  BY DEF ImportMaps, TypeOK
<1>6. /\ access' \in [Handles -> {"none", "read", "write", "lost"}]
      /\ access'[h] = access[h] /\ access[h] = "none"
      /\ \A g \in Handles : g # h => access'[g] = access[g]
  BY DEF ImportMaps, TypeOK
<1> QED
  BY <1>1, <1>2, <1>4, <1>5, <1>6 DEF HandleTypes, Others

LEMMA ImportFailsEffect ==
  ASSUME TypeOK, NEW h \in Handles, NEW s \in parcels, ImportFails(s, h)
  PROVE  /\ HandleTypes' /\ Others(h)
         /\ s \in Struct /\ handle'[h] \in Struct
         /\ handle'[h].own = s.own /\ handle'[h].ref_count = 1
         /\ held'[h] = held[h] /\ held[h] = 0 /\ access'[h] = "lost"
<1>1. s \in Struct
  BY DEF TypeOK
<1> DEFINE r == [s EXCEPT !.remote_pid = s.proc, !.ref_count = 1]
<1>2. /\ r \in Struct /\ r.own = s.own /\ r.ref_count = 1
  BY <1>1 DEF Struct
<1>3. handle' = [handle EXCEPT ![h] = r]
  BY DEF ImportFails
<1>. HIDE DEF r
<1>4. /\ handle' \in [Handles -> Struct \cup {None}] /\ handle'[h] = r
      /\ \A g \in Handles : g # h => handle'[g] = handle[g]
  BY <1>2, <1>3, SetEntry DEF TypeOK
<1>5. /\ held' \in [Handles -> Nat] /\ held'[h] = held[h] /\ held[h] = 0
      /\ \A g \in Handles : g # h => held'[g] = held[g]
  BY DEF ImportFails, TypeOK
<1>6. /\ access' \in [Handles -> {"none", "read", "write", "lost"}]
      /\ access'[h] = "lost" /\ \A g \in Handles : g # h => access'[g] = access[g]
  BY DEF ImportFails, TypeOK
<1> QED
  BY <1>1, <1>2, <1>4, <1>5, <1>6 DEF HandleTypes, Others

LEMMA AllocateEffect ==
  ASSUME TypeOK, NEW h \in Handles, NEW p \in Procs, NEW b \in Buffers, NEW a \in Addrs,
         Allocate(p, h, b, a)
  PROVE  /\ HandleTypes' /\ Others(h)
         /\ handle'[h] \in Struct /\ handle'[h].own
         /\ handle'[h].proc = p /\ handle'[h].buf = b /\ handle'[h].base = a
         /\ handle'[h].allocating_pid = p /\ handle'[h].ref_count = 1
         /\ held'[h] = 1 /\ access'[h] = access[h] /\ access[h] # "write"
<1>1. p \in Procs /\ b \in Buffers /\ a \in Addrs
  OBVIOUS
<1> DEFINE r == [proc |-> p, buf |-> b, allocating_pid |-> p, remote_pid |-> None, ref_count |-> 1,
                 base |-> a, writeOwner |-> FALSE, own |-> TRUE]
<1>2. /\ r \in Struct /\ r.own /\ r.proc = p /\ r.buf = b /\ r.base = a
      /\ r.allocating_pid = p /\ r.ref_count = 1
  BY <1>1 DEF Struct
<1>3. handle' = [handle EXCEPT ![h] = r]
  BY DEF Allocate
<1>. HIDE DEF r
<1>4. /\ handle' \in [Handles -> Struct \cup {None}] /\ handle'[h] = r
      /\ \A g \in Handles : g # h => handle'[g] = handle[g]
  BY <1>2, <1>3, SetEntry DEF TypeOK
<1>5. /\ held' \in [Handles -> Nat] /\ held'[h] = 1
      /\ \A g \in Handles : g # h => held'[g] = held[g]
  BY DEF Allocate, TypeOK
<1>6. /\ access' \in [Handles -> {"none", "read", "write", "lost"}]
      /\ access'[h] = access[h] /\ access[h] = "none"
      /\ \A g \in Handles : g # h => access'[g] = access[g]
  BY DEF Allocate, TypeOK
<1> QED
  BY <1>1, <1>2, <1>4, <1>5, <1>6 DEF HandleTypes, Others

LEMMA FreesEffect ==
  ASSUME TypeOK, CountInv, NEW h \in Handles, ReleaseFrees(h)
  PROVE  /\ HandleTypes' /\ Others(h)
         /\ handle[h] \in Struct /\ handle[h].own /\ held[h] = 1
         /\ handle'[h] = None /\ held'[h] = 0 /\ access'[h] = "none"
<1>1. handle[h] \in Struct /\ held[h] \in Nat \ {0} /\ handle[h].ref_count = 1 /\ Counted(h)
  BY LiveStruct DEF ReleaseFrees, MayRelease, TypeOK, CountInv
<1>2. handle[h].own /\ held[h] = 1
  BY <1>1, StructFields DEF Counted
<1>3. /\ handle' \in [Handles -> Struct \cup {None}] /\ handle'[h] = None
      /\ \A g \in Handles : g # h => handle'[g] = handle[g]
  BY SetEntry DEF ReleaseFrees, TypeOK
<1>4. held' = [held EXCEPT ![h] = 0]
  BY <1>2 DEF ReleaseFrees, TypeOK
<1>5. /\ held' \in [Handles -> Nat] /\ held'[h] = 0
      /\ \A g \in Handles : g # h => held'[g] = held[g]
  BY <1>4, SetEntry DEF TypeOK
<1>6. access' = access /\ access[h] = "none"
      /\ access \in [Handles -> {"none", "read", "write", "lost"}]
  BY <1>2 DEF ReleaseFrees, MayRelease, TypeOK
<1> QED
  BY <1>1, <1>2, <1>3, <1>5, <1>6 DEF HandleTypes, Others

LEMMA DeleteEffect ==
  ASSUME TypeOK, NEW h \in Handles, Delete(h)
  PROVE  /\ HandleTypes' /\ Others(h) /\ held[h] = 0
         /\ handle'[h] = None /\ held'[h] = 0 /\ access'[h] = "none"
BY SetEntry DEF Delete, TypeOK, HandleTypes, Others

LEMMA UnlockEffect ==
  ASSUME TypeOK, NEW h \in Handles, Unlock(h)
  PROVE  /\ HandleTypes' /\ Others(h) /\ handle[h] \in Struct
         /\ handle'[h] = handle[h] /\ held'[h] = held[h] /\ access'[h] = "none"
BY LiveStruct, SetEntry DEF Unlock, TypeOK, HandleTypes, Others

(***************************************************************************)
(* Types and counts.                                                       *)
(***************************************************************************)

\* A step that touches one struct keeps the types if it leaves that struct counted.
LEMMA OneStructCounts ==
  ASSUME TypeOK, CountInv, NEW h \in Handles, HandleTypes', Others(h),
         handle'[h] = None => held'[h] = 0 /\ access'[h] = "none",
         handle'[h] # None => Counted(h)',
         parcels' = parcels, unsynced' \subseteq Buffers,
         maps' \in [Procs -> [Addrs -> Buffers \cup {None}]]
  PROVE  TypeOK' /\ CountInv'
<1>1. \A g \in Handles : g \notin Live' => held'[g] = 0 /\ access'[g] = "none"
  BY DEF TypeOK, Live, Others
<1>2. TypeOK'
  BY <1>1 DEF TypeOK, HandleTypes
<1>3. ASSUME NEW g \in Live' PROVE Counted(g)'
  <2>1. g \in Handles /\ handle'[g] # None
    BY DEF Live
  <2>2. CASE g = h
    BY <2>1, <2>2
  <2>3. CASE g # h
    BY <2>1, <2>3 DEF Live, Others, CountInv, Counted, Known
  <2> QED
    BY <2>2, <2>3
<1> QED
  BY <1>2, <1>3 DEF CountInv

\* What Map and Unmap do to the mappings of a process.
LEMMA MapEffect ==
  ASSUME TypeOK, NEW p \in Procs, NEW a \in Addrs, NEW b \in Buffers, Map(p, a, b)
  PROVE  /\ maps' \in [Procs -> [Addrs -> Buffers \cup {None}]]
         /\ maps'[p][a] = b
         /\ \A q \in Procs, x \in Addrs : q # p \/ x # a => maps'[q][x] = maps[q][x]
<1> DEFINE m == [maps[p] EXCEPT ![a] = b]
<1>1. /\ m \in [Addrs -> Buffers \cup {None}] /\ m[a] = b
      /\ \A x \in Addrs : x # a => m[x] = maps[p][x]
  BY DEF TypeOK
<1>2. maps' = [maps EXCEPT ![p] = m]
  BY DEF Map
<1>. HIDE DEF m
<1> QED
  BY <1>1, <1>2 DEF TypeOK

LEMMA UnmapEffect ==
  ASSUME TypeOK, NEW p \in Procs, NEW a, Unmap(p, a)
  PROVE  /\ maps' \in [Procs -> [Addrs -> Buffers \cup {None}]]
         /\ a \in Addrs => maps'[p][a] = None
         /\ \A q \in Procs, x \in Addrs : q # p \/ x # a => maps'[q][x] = maps[q][x]
<1> DEFINE m == [x \in Addrs |-> IF x = a THEN None ELSE maps[p][x]]
<1>1. /\ m \in [Addrs -> Buffers \cup {None}] /\ (a \in Addrs => m[a] = None)
      /\ \A x \in Addrs : x # a => m[x] = maps[p][x]
  BY DEF TypeOK
<1>2. maps' = [maps EXCEPT ![p] = m]
  BY DEF Unmap
<1>. HIDE DEF m
<1> QED
  BY <1>1, <1>2 DEF TypeOK

LEMMA CountStep ==
  TypeOK /\ CountInv /\ [Next]_vars => TypeOK' /\ CountInv'
<1> SUFFICES ASSUME TypeOK, CountInv, [Next]_vars PROVE TypeOK' /\ CountInv'
  OBVIOUS
<1> DEFINE Kept == TypeOK' /\ CountInv'
<1>1. ASSUME NEW h \in Handles, HandleStep(h) PROVE Kept
  <2>1. CASE Retain(h)
    <3>1. h \in Live /\ held[h] > 0 /\ Counted(h)
      BY <2>1 DEF Retain, CountInv
    <3>2. Counted(h)'
      BY <2>1, <3>1, RetainEffect, StructFields DEF Counted, Same, Known
    <3>3. UNCHANGED <<parcels, maps, unsynced>>
      BY <2>1 DEF Retain
    <3> QED
      BY <2>1, <3>2, <3>3, RetainEffect, StructFields, OneStructCounts DEF TypeOK
  <2>2. CASE Release(h)
    <3>1. h \in Live /\ held[h] > 0 /\ Counted(h)
      BY <2>2 DEF Release, MayRelease, CountInv
    <3>2. Counted(h)'
      BY <2>2, <3>1, ReleaseEffect, StructFields DEF Counted, Same, Known
    <3>3. UNCHANGED <<parcels, maps, unsynced>>
      BY <2>2 DEF Release
    <3> QED
      BY <2>2, <3>2, <3>3, ReleaseEffect, StructFields, OneStructCounts DEF TypeOK
  <2>3. CASE ReleaseFrees(h)
    <3>1. /\ handle[h].proc \in Procs /\ Unmap(handle[h].proc, handle[h].base)
          /\ UNCHANGED <<parcels, unsynced>>
      BY <2>3, FreesEffect, StructFields DEF ReleaseFrees
    <3> QED
      BY <2>3, <3>1, FreesEffect, UnmapEffect, OneStructCounts DEF TypeOK
  <2>4. CASE ReleaseImported(h)
    <3>1. h \in Live /\ held[h] > 0 /\ Counted(h)
      BY <2>4 DEF ReleaseImported, MayRelease, CountInv
    <3>2. Counted(h)'
      BY <2>4, <3>1, ReleaseImportedEffect, StructFields DEF Counted, Same, Known
    <3>3. /\ handle[h].proc \in Procs /\ Unmap(handle[h].proc, handle[h].base)
          /\ UNCHANGED <<parcels, unsynced>>
      BY <2>4, ReleaseImportedEffect, StructFields DEF ReleaseImported
    <3> QED
      BY <2>4, <3>2, <3>3, ReleaseImportedEffect, StructFields, UnmapEffect, OneStructCounts
      DEF TypeOK
  <2>5. CASE Delete(h)
    <3>1. UNCHANGED <<parcels, maps, unsynced>>
      BY <2>5 DEF Delete
    <3> QED
      BY <2>5, <3>1, DeleteEffect, OneStructCounts DEF TypeOK
  <2>6. CASE Unlock(h)
    <3>1. Counted(h)'
      BY <2>6, UnlockEffect DEF Unlock, CountInv, Counted, Known
    <3>2. UNCHANGED <<parcels, maps>> /\ unsynced' \subseteq unsynced \cup {handle[h].buf}
      BY <2>6 DEF Unlock
    <3>3. unsynced' \subseteq Buffers
      BY <2>6, <3>2, UnlockEffect, StructFields DEF TypeOK
    <3>4. maps' \in [Procs -> [Addrs -> Buffers \cup {None}]]
      BY <3>2 DEF TypeOK
    <3> QED
      BY <2>6, <3>1, <3>2, <3>3, <3>4, UnlockEffect, StructFields, OneStructCounts
  <2>7. ASSUME NEW mode \in {"read", "write"}, LockBuffer(h, mode) PROVE Kept
    <3>1. h \in Live /\ Counted(h) /\ UNCHANGED <<parcels, maps, unsynced>>
      BY <2>7 DEF LockBuffer, CountInv
    <3>2. Counted(h)'
      BY <2>7, <3>1, LockEffect DEF Counted, Same, Known
    <3> QED
      BY <2>7, <3>1, <3>2, LockEffect, StructFields, OneStructCounts DEF TypeOK
  <2>8. ASSUME NEW p \in Procs, Send(h, p) PROVE Kept
    <3> DEFINE r == [handle[h] EXCEPT !.proc = p, !.own = FALSE]
    <3>1. h \in Live /\ held[h] \in Nat \ {0} /\ Counted(h) /\ handle[h] \in Struct
      BY <2>8, LiveStruct DEF Send, CountInv, TypeOK
    <3>2. r \in Struct /\ ~r.own /\ r.ref_count = handle[h].ref_count
      BY <3>1 DEF Struct
    <3>3. parcels' = parcels \cup {r} /\ UNCHANGED <<handle, held, access, maps, unsynced>>
      BY <2>8 DEF Send
    <3>4. handle[h].ref_count > 0
      BY <3>1, StructFields DEF Counted
    <3>. HIDE DEF r
    <3>5. TypeOK'
      BY <3>2, <3>3 DEF TypeOK, Live
    <3>6. CountInv'
      BY <3>2, <3>3, <3>4 DEF CountInv, Counted, Known, Live
    <3> QED
      BY <3>5, <3>6
  <2>9. ASSUME NEW s \in parcels, ImportKnown(s, h) PROVE Kept
    <3>1. ~s.own /\ s.ref_count > 0 /\ Known(s, s.proc) /\ UNCHANGED <<parcels, maps, unsynced>>
      BY <2>9 DEF ImportKnown, CountInv
    <3>2. Counted(h)'
      BY <2>9, <3>1, ImportKnownEffect, StructFields DEF Counted, Same, Known
    <3> QED
      BY <2>9, <3>1, <3>2, ImportKnownEffect, StructFields, OneStructCounts DEF TypeOK
  <2>10. ASSUME NEW s \in parcels, ImportFails(s, h) PROVE Kept
    <3>1. ~s.own /\ UNCHANGED <<parcels, maps, unsynced>>
      BY <2>10 DEF ImportFails, CountInv
    <3>2. Counted(h)'
      BY <2>10, <3>1, ImportFailsEffect, StructFields DEF Counted
    <3> QED
      BY <2>10, <3>1, <3>2, ImportFailsEffect, StructFields, OneStructCounts DEF TypeOK
  <2>11. ASSUME NEW s \in parcels, NEW a \in Addrs, ImportMaps(s, h, a) PROVE Kept
    <3>1. Map(s.proc, a, s.buf) /\ UNCHANGED <<parcels, unsynced>>
      BY <2>11 DEF ImportMaps
    <3>2. Counted(h)'
      BY <2>11, ImportMapsEffect, StructFields DEF Counted, Known
    <3> QED
      BY <2>11, <3>1, <3>2, ImportMapsEffect, StructFields, MapEffect, OneStructCounts DEF TypeOK
  <2>12. ASSUME NEW p \in Procs, NEW b \in Buffers, NEW a \in Addrs, Allocate(p, h, b, a)
         PROVE  Kept
    <3>1. Map(p, a, b) /\ UNCHANGED parcels /\ unsynced' \subseteq unsynced
      BY <2>12 DEF Allocate
    <3>2. Counted(h)'
      BY <2>12, AllocateEffect, StructFields DEF Counted, Known
    <3> QED
      BY <2>12, <3>1, <3>2, AllocateEffect, StructFields, MapEffect, OneStructCounts DEF TypeOK
  <2> QED
    BY <1>1, <2>1, <2>2, <2>3, <2>4, <2>5, <2>6, <2>7, <2>8, <2>9, <2>10, <2>11, <2>12
    DEF HandleStep
<1>2. ASSUME NEW s \in parcels, Drop(s) PROVE Kept
  BY <1>2 DEF Drop, TypeOK, Live, CountInv, Counted, Known
<1>3. ASSUME NEW p \in Procs, ProcDies(p) PROVE Kept
  <2>1. TypeOK'
    BY <1>3 DEF ProcDies, TypeOK, Live
  <2>2. CountInv'
    BY <1>3 DEF ProcDies, CountInv, Counted, Known, Live, TypeOK
  <2> QED
    BY <2>1, <2>2
<1>4. CASE UNCHANGED vars
  BY <1>4 DEF vars, TypeOK, Live, CountInv, Counted, Known
<1> QED
  BY <1>1, <1>2, <1>3, <1>4 DEF Next

(***************************************************************************)
(* Mappings and their owners.                                              *)
(***************************************************************************)
LEMMA OtherOwners ==
  ASSUME TypeOK, NEW h \in Handles, Others(h)
  PROVE  \A g \in Handles : g # h => Owns(g)' = Owns(g) /\ handle'[g] = handle[g]
<1> TAKE g \in Handles
<1>1. CASE g # h
  <2>1. handle'[g] = handle[g] /\ held'[g] = held[g]
    BY <1>1 DEF Others
  <2> QED
    BY <2>1 DEF Owns, Live
<1> QED
  BY <1>1

\* A step that leaves the mappings, and what the struct owns, alone.
LEMMA SameOwners ==
  ASSUME TypeOK, OwnerInv, NEW h \in Handles, Others(h), maps' = maps, Owns(h)' = Owns(h),
         Owns(h) => /\ handle'[h].proc = handle[h].proc /\ handle'[h].buf = handle[h].buf
                    /\ handle'[h].base = handle[h].base
  PROVE  OwnerInv'
<1>1. \A g \in Handles : /\ Owns(g)' = Owns(g)
                         /\ Owns(g) => /\ handle'[g].proc = handle[g].proc
                                       /\ handle'[g].buf = handle[g].buf
                                       /\ handle'[g].base = handle[g].base
  BY OtherOwners
<1>2. \A g \in Handles : Owns(g)' =>
        handle'[g].base \in Addrs /\ maps'[handle'[g].proc][handle'[g].base] = handle'[g].buf
  BY <1>1 DEF OwnerInv
<1>3. \A f, g \in Handles :
        f # g /\ Owns(f)' /\ Owns(g)' /\ handle'[f].proc = handle'[g].proc =>
          handle'[f].base # handle'[g].base
  BY <1>1 DEF OwnerInv
<1>4. \A p \in Procs, a \in Addrs : maps'[p][a] # None =>
        \E g \in Handles : /\ Owns(g)' /\ handle'[g].proc = p /\ handle'[g].base = a
                           /\ handle'[g].buf = maps'[p][a]
  BY <1>1 DEF OwnerInv
<1> QED
  BY <1>2, <1>3, <1>4 DEF OwnerInv

\* A step that unmaps what the struct owned, with its last reference.
LEMMA OwnerGone ==
  ASSUME TypeOK, OwnerInv, NEW h \in Handles, Others(h), handle[h] \in Struct,
         Owns(h), ~Owns(h)', Unmap(handle[h].proc, handle[h].base)
  PROVE  OwnerInv'
<1>1. handle[h].proc \in Procs /\ handle[h].base \in Addrs
  BY StructFields DEF OwnerInv
<1>2. /\ maps'[handle[h].proc][handle[h].base] = None
      /\ \A q \in Procs, x \in Addrs :
           q # handle[h].proc \/ x # handle[h].base => maps'[q][x] = maps[q][x]
  BY <1>1, UnmapEffect
<1>3. \A g \in Handles : Owns(g)' => g # h /\ Owns(g) /\ handle'[g] = handle[g]
  BY OtherOwners
<1>4. \A g \in Handles : Owns(g) => handle[g].proc \in Procs
  BY LiveStruct, StructFields DEF Owns
<1>5. \A g \in Handles : Owns(g)' =>
        handle'[g].base \in Addrs /\ maps'[handle'[g].proc][handle'[g].base] = handle'[g].buf
  BY <1>2, <1>3, <1>4 DEF OwnerInv
<1>6. \A f, g \in Handles :
        f # g /\ Owns(f)' /\ Owns(g)' /\ handle'[f].proc = handle'[g].proc =>
          handle'[f].base # handle'[g].base
  BY <1>3 DEF OwnerInv
<1>7. ASSUME NEW p \in Procs, NEW a \in Addrs, maps'[p][a] # None
      PROVE  \E g \in Handles : /\ Owns(g)' /\ handle'[g].proc = p /\ handle'[g].base = a
                                /\ handle'[g].buf = maps'[p][a]
  <2>1. (p # handle[h].proc \/ a # handle[h].base) /\ maps'[p][a] = maps[p][a]
    BY <1>2, <1>7
  <2>2. PICK g \in Handles : /\ Owns(g) /\ handle[g].proc = p /\ handle[g].base = a
                             /\ handle[g].buf = maps[p][a]
    BY <1>7, <2>1 DEF OwnerInv
  <2>3. Owns(g)' /\ handle'[g] = handle[g]
    BY <2>1, <2>2, OtherOwners
  <2> QED
    BY <2>1, <2>2, <2>3
<1> QED
  BY <1>5, <1>6, <1>7 DEF OwnerInv

\* A step that maps a buffer where nothing was mapped, for a new struct.
LEMMA OwnerNew ==
  ASSUME TypeOK, OwnerInv, NEW h \in Handles, Others(h), ~Owns(h), Owns(h)',
         NEW p \in Procs, NEW a \in Addrs, NEW b \in Buffers, Map(p, a, b), maps[p][a] = None,
         handle'[h].proc = p, handle'[h].base = a, handle'[h].buf = b
  PROVE  OwnerInv'
<1>1. /\ maps'[p][a] = b
      /\ \A q \in Procs, x \in Addrs : q # p \/ x # a => maps'[q][x] = maps[q][x]
  BY MapEffect
<1>2. \A g \in Handles : g # h => Owns(g)' = Owns(g) /\ handle'[g] = handle[g]
  BY OtherOwners
<1>3. ASSUME NEW g \in Handles, g # h, Owns(g)
      PROVE  /\ handle[g].proc \in Procs /\ handle[g].base \in Addrs
             /\ maps[handle[g].proc][handle[g].base] = handle[g].buf
             /\ handle[g].proc # p \/ handle[g].base # a
  <2>1. handle[g] \in Struct
    BY <1>3, LiveStruct DEF Owns
  <2>2. handle[g].proc \in Procs /\ handle[g].buf # None
    BY <2>1, StructFields, GrallocReferenceAssumption
  <2> QED
    BY <1>3, <2>2 DEF OwnerInv
<1>4. ASSUME NEW g \in Handles, Owns(g)'
      PROVE  handle'[g].base \in Addrs /\ maps'[handle'[g].proc][handle'[g].base] = handle'[g].buf
  <2>1. CASE g = h
    BY <2>1, <1>1
  <2>2. CASE g # h
    BY <1>1, <1>2, <1>3, <1>4, <2>2
  <2> QED
    BY <2>1, <2>2
<1>5. ASSUME NEW f \in Handles, NEW g \in Handles, f # g, Owns(f)', Owns(g)',
             handle'[f].proc = handle'[g].proc
      PROVE  handle'[f].base # handle'[g].base
  <2>1. CASE f # h /\ g # h
    BY <1>2, <1>5, <2>1 DEF OwnerInv
  <2>2. CASE f = h \/ g = h
    BY <1>2, <1>3, <1>5, <2>2
  <2> QED
    BY <2>1, <2>2
<1>6. ASSUME NEW q \in Procs, NEW x \in Addrs, maps'[q][x] # None
      PROVE  \E g \in Handles : /\ Owns(g)' /\ handle'[g].proc = q /\ handle'[g].base = x
                                /\ handle'[g].buf = maps'[q][x]
  <2>1. CASE q = p /\ x = a
    BY <1>1, <2>1
  <2>2. CASE q # p \/ x # a
    <3>1. maps'[q][x] = maps[q][x]
      BY <1>1, <2>2
    <3>2. PICK g \in Handles : /\ Owns(g) /\ handle[g].proc = q /\ handle[g].base = x
                               /\ handle[g].buf = maps[q][x]
      BY <1>6, <3>1 DEF OwnerInv
    <3> QED
      BY <1>2, <3>1, <3>2
  <2> QED
    BY <2>1, <2>2
<1> QED
  BY <1>4, <1>5, <1>6 DEF OwnerInv

LEMMA OwnerStep ==
  TypeOK /\ CountInv /\ OwnerInv /\ [Next]_vars => OwnerInv'
<1> SUFFICES ASSUME TypeOK, CountInv, OwnerInv, [Next]_vars PROVE OwnerInv'
  OBVIOUS
<1>1. ASSUME NEW h \in Handles, HandleStep(h) PROVE OwnerInv'
  <2>1. CASE Retain(h)
    <3>1. h \in Live /\ held[h] > 0 /\ maps' = maps
      BY <2>1 DEF Retain
    <3>2. Owns(h)' = Owns(h)
      BY <2>1, <3>1, RetainEffect, StructFields DEF Owns, Live, Same
    <3> QED
      BY <2>1, <3>1, <3>2, RetainEffect, SameOwners DEF Same
  <2>2. CASE Release(h)
    <3>1. h \in Live /\ held[h] > 0 /\ maps' = maps /\ Counted(h)
      BY <2>2 DEF Release, MayRelease, CountInv
    <3>2. Owns(h)' = Owns(h)
      BY <2>2, <3>1, ReleaseEffect, StructFields DEF Owns, Live, Same, Counted
    <3> QED
      BY <2>2, <3>1, <3>2, ReleaseEffect, SameOwners DEF Same
  <2>3. CASE ReleaseFrees(h)
    <3>1. h \in Live /\ Unmap(handle[h].proc, handle[h].base)
      BY <2>3 DEF ReleaseFrees, MayRelease
    <3>2. Owns(h) /\ ~Owns(h)'
      BY <2>3, <3>1, FreesEffect DEF Owns, Live
    <3> QED
      BY <2>3, <3>1, <3>2, FreesEffect, OwnerGone
  <2>4. CASE ReleaseImported(h)
    <3>1. h \in Live /\ Counted(h) /\ Unmap(handle[h].proc, handle[h].base)
      BY <2>4 DEF ReleaseImported, MayRelease, CountInv
    <3>2. handle[h].own /\ held[h] = 1
      BY <2>4, <3>1, ReleaseImportedEffect, StructFields DEF Counted
    <3>3. Owns(h) /\ ~Owns(h)'
      BY <2>4, <3>1, <3>2, ReleaseImportedEffect DEF Owns
    <3> QED
      BY <2>4, <3>1, <3>3, ReleaseImportedEffect, OwnerGone
  <2>5. CASE Delete(h)
    <3>1. maps' = maps /\ ~Owns(h) /\ ~Owns(h)'
      BY <2>5, DeleteEffect DEF Delete, Owns
    <3>2. Owns(h)' = Owns(h)
      BY <3>1 DEF Owns
    <3> QED
      BY <2>5, <3>1, <3>2, DeleteEffect, SameOwners
  <2>6. CASE Unlock(h)
    <3>1. maps' = maps /\ Owns(h)' = Owns(h)
      BY <2>6, UnlockEffect DEF Unlock, Owns, Live
    <3> QED
      BY <2>6, <3>1, UnlockEffect, SameOwners
  <2>7. ASSUME NEW mode \in {"read", "write"}, LockBuffer(h, mode) PROVE OwnerInv'
    <3>1. h \in Live /\ maps' = maps
      BY <2>7 DEF LockBuffer
    <3>2. Owns(h)' = Owns(h)
      BY <2>7, <3>1, LockEffect, StructFields DEF Owns, Live, Same
    <3> QED
      BY <2>7, <3>1, <3>2, LockEffect, SameOwners DEF Same
  <2>8. ASSUME NEW p \in Procs, Send(h, p) PROVE OwnerInv'
    BY <2>8, SameOwners DEF Send, Others, Owns, Live
  <2>9. ASSUME NEW s \in parcels, ImportKnown(s, h) PROVE OwnerInv'
    <3>1. h \notin Live /\ maps' = maps /\ ~s.own
      BY <2>9 DEF ImportKnown, CountInv
    <3>2. ~Owns(h) /\ ~Owns(h)'
      BY <2>9, <3>1, ImportKnownEffect DEF Owns, Same
    <3>3. Owns(h)' = Owns(h)
      BY <3>2 DEF Owns
    <3> QED
      BY <2>9, <3>1, <3>2, <3>3, ImportKnownEffect, SameOwners
  <2>10. ASSUME NEW s \in parcels, ImportFails(s, h) PROVE OwnerInv'
    <3>1. maps' = maps
      BY <2>10 DEF ImportFails
    <3>2. ~Owns(h) /\ ~Owns(h)'
      BY <2>10, ImportFailsEffect DEF Owns
    <3>3. Owns(h)' = Owns(h)
      BY <3>2 DEF Owns
    <3> QED
      BY <2>10, <3>1, <3>2, <3>3, ImportFailsEffect, SameOwners
  <2>11. ASSUME NEW s \in parcels, NEW a \in Addrs, ImportMaps(s, h, a) PROVE OwnerInv'
    <3>1. h \notin Live /\ Map(s.proc, a, s.buf) /\ maps[s.proc][a] = None
      BY <2>11 DEF ImportMaps
    <3>2. ~Owns(h) /\ Owns(h)'
      BY <2>11, <3>1, ImportMapsEffect, StructFields DEF Owns, Live
    <3>3. s.proc \in Procs /\ s.buf \in Buffers
      BY <2>11, ImportMapsEffect, StructFields
    <3> QED
      BY <2>11, <3>1, <3>2, <3>3, ImportMapsEffect, OwnerNew
  <2>12. ASSUME NEW p \in Procs, NEW b \in Buffers, NEW a \in Addrs, Allocate(p, h, b, a)
         PROVE  OwnerInv'
    <3>1. h \notin Live /\ Map(p, a, b) /\ maps[p][a] = None
      BY <2>12 DEF Allocate
    <3>2. ~Owns(h) /\ Owns(h)'
      BY <2>12, <3>1, AllocateEffect, StructFields DEF Owns, Live
    <3> QED
      BY <2>12, <3>1, <3>2, AllocateEffect, OwnerNew
  <2> QED
    BY <1>1, <2>1, <2>2, <2>3, <2>4, <2>5, <2>6, <2>7, <2>8, <2>9, <2>10, <2>11, <2>12
    DEF HandleStep
<1>2. ASSUME NEW s \in parcels, Drop(s) PROVE OwnerInv'
  BY <1>2 DEF Drop, OwnerInv, Owns, Live
<1>3. ASSUME NEW p \in Procs, ProcDies(p) PROVE OwnerInv'
  <2>1. \A g \in Handles :
          /\ handle'[g] = IF g \in Live /\ handle[g].proc = p THEN None ELSE handle[g]
          /\ held'[g] = IF g \in Live /\ handle[g].proc = p THEN 0 ELSE held[g]
    BY <1>3 DEF ProcDies
  <2>2. \A g \in Handles : Owns(g)' <=> Owns(g) /\ handle[g].proc # p
    BY <2>1 DEF Owns, Live, TypeOK
  <2>3. \A g \in Handles : Owns(g)' => handle'[g] = handle[g] /\ handle[g].proc \in Procs
    BY <2>1, <2>2, LiveStruct, StructFields DEF Owns
  <2>4. \A q \in Procs, x \in Addrs : maps'[q][x] = IF q = p THEN None ELSE maps[q][x]
    BY <1>3 DEF ProcDies, TypeOK
  <2>5. \A g \in Handles : Owns(g)' =>
          handle'[g].base \in Addrs /\ maps'[handle'[g].proc][handle'[g].base] = handle'[g].buf
    BY <2>2, <2>3, <2>4 DEF OwnerInv
  <2>6. \A f, g \in Handles :
          f # g /\ Owns(f)' /\ Owns(g)' /\ handle'[f].proc = handle'[g].proc =>
            handle'[f].base # handle'[g].base
    BY <2>2, <2>3 DEF OwnerInv
  <2>7. \A q \in Procs, x \in Addrs : maps'[q][x] # None =>
          \E g \in Handles : /\ Owns(g)' /\ handle'[g].proc = q /\ handle'[g].base = x
                             /\ handle'[g].buf = maps'[q][x]
    BY <2>2, <2>3, <2>4 DEF OwnerInv
  <2> QED
    BY <2>5, <2>6, <2>7 DEF OwnerInv
<1>4. CASE UNCHANGED vars
  BY <1>4 DEF vars, OwnerInv, Owns, Live
<1> QED
  BY <1>1, <1>2, <1>3, <1>4 DEF Next

(***************************************************************************)
(* Writers.                                                                *)
(***************************************************************************)
LEMMA OneStructWrites ==
  ASSUME TypeOK, WriterInv, NEW h \in Handles, Others(h),
         access'[h] = "write" => handle'[h].writeOwner /\ held'[h] > 0
  PROVE  WriterInv'
BY DEF WriterInv, Live, Others

LEMMA WriterStep ==
  TypeOK /\ CountInv /\ WriterInv /\ WritesAreSynced /\ [Next]_vars =>
    WriterInv' /\ WritesAreSynced'
<1> SUFFICES ASSUME TypeOK, CountInv, WriterInv, WritesAreSynced, [Next]_vars
             PROVE  WriterInv' /\ WritesAreSynced'
  OBVIOUS
<1> USE DEF WritesAreSynced
<1> DEFINE Kept == WriterInv' /\ WritesAreSynced'
<1>1. ASSUME NEW h \in Handles, HandleStep(h) PROVE Kept
  <2>1. CASE Retain(h)
    <3>1. h \in Live /\ held[h] > 0 /\ unsynced' = unsynced
      BY <2>1 DEF Retain
    <3> QED
      BY <2>1, <3>1, RetainEffect, OneStructWrites DEF WriterInv
  <2>2. CASE Release(h)
    <3>1. h \in Live /\ held[h] > 0 /\ (held[h] > 1 \/ access[h] = "none") /\ unsynced' = unsynced
      BY <2>2 DEF Release, MayRelease
    <3> QED
      BY <2>2, <3>1, ReleaseEffect, OneStructWrites DEF WriterInv
  <2>3. CASE ReleaseFrees(h)
    BY <2>3, FreesEffect, OneStructWrites DEF ReleaseFrees
  <2>4. CASE ReleaseImported(h)
    <3>1. h \in Live /\ (held[h] > 1 \/ access[h] = "none") /\ unsynced' = unsynced /\ Counted(h)
      BY <2>4 DEF ReleaseImported, MayRelease, CountInv
    <3>2. held[h] = 1
      BY <2>4, <3>1, ReleaseImportedEffect, StructFields DEF Counted
    <3> QED
      BY <2>4, <3>1, <3>2, ReleaseImportedEffect, OneStructWrites
  <2>5. CASE Delete(h)
    BY <2>5, DeleteEffect, OneStructWrites DEF Delete
  <2>6. CASE Unlock(h)
    <3>1. h \in Live /\ (access[h] = "write" => handle[h].writeOwner)
      BY <2>6 DEF Unlock, WriterInv
    <3>2. unsynced' = {}
      BY <2>6, <3>1 DEF Unlock
    <3> QED
      BY <2>6, <3>2, UnlockEffect, OneStructWrites
  <2>7. ASSUME NEW mode \in {"read", "write"}, LockBuffer(h, mode) PROVE Kept
    BY <2>7, LockEffect, OneStructWrites DEF LockBuffer
  <2>8. ASSUME NEW p \in Procs, Send(h, p) PROVE Kept
    BY <2>8 DEF Send, WriterInv, Live
  <2>9. ASSUME NEW s \in parcels, ImportKnown(s, h) PROVE Kept
    BY <2>9, ImportKnownEffect, OneStructWrites DEF ImportKnown
  <2>10. ASSUME NEW s \in parcels, ImportFails(s, h) PROVE Kept
    BY <2>10, ImportFailsEffect, OneStructWrites DEF ImportFails
  <2>11. ASSUME NEW s \in parcels, NEW a \in Addrs, ImportMaps(s, h, a) PROVE Kept
    BY <2>11, ImportMapsEffect, OneStructWrites DEF ImportMaps
  <2>12. ASSUME NEW p \in Procs, NEW b \in Buffers, NEW a \in Addrs, Allocate(p, h, b, a)
         PROVE  Kept
    BY <2>12, AllocateEffect, OneStructWrites DEF Allocate
  <2> QED
    BY <1>1, <2>1, <2>2, <2>3, <2>4, <2>5, <2>6, <2>7, <2>8, <2>9, <2>10, <2>11, <2>12
    DEF HandleStep
<1>2. ASSUME NEW s \in parcels, Drop(s) PROVE Kept
  BY <1>2 DEF Drop, WriterInv, Live
<1>3. ASSUME NEW p \in Procs, ProcDies(p) PROVE Kept
  BY <1>3 DEF ProcDies, WriterInv, Live, TypeOK
<1>4. CASE UNCHANGED vars
  BY <1>4 DEF vars, WriterInv, Live
<1> QED
  BY <1>1, <1>2, <1>3, <1>4 DEF Next

(***************************************************************************)
(* The theorems.                                                           *)
(***************************************************************************)

\* Every variable keeps its type, callers refer to live structs only, and every
\* struct counts the references of its callers (mali_gralloc_reference.cpp).
THEOREM TypeInvariant == Spec => [](TypeOK /\ CountInv)
<1>1. Init => TypeOK /\ CountInv
  BY GrallocReferenceAssumption DEF Init, TypeOK, CountInv, Live
<1> QED
  BY <1>1, CountStep, PTL DEF Spec

\* The mappings and the structs in use that made them keep in step.
LEMMA OwnerInvariant == Spec => []OwnerInv
<1>1. Init => OwnerInv
  BY DEF Init, OwnerInv, Owns, Live
<1> QED
  BY <1>1, OwnerStep, TypeInvariant, PTL DEF Spec

\* Whatever is done with its copies, a struct that mapped its buffer keeps that
\* mapping while its callers hold a reference.
THEOREM OwnMappingStaysMapped == Spec => []OwnMappingStays
<1>1. TypeOK /\ OwnerInv => OwnMappingStays
  BY GrallocReferenceAssumption DEF TypeOK, OwnerInv, Owns, OwnMappingStays, Live
<1> QED
  BY <1>1, TypeInvariant, OwnerInvariant, PTL

\* Every mapping belongs to a struct with a reference whose release unmaps it.
THEOREM NoMappingLeaks == Spec => []MappingHasOwner
<1>1. TypeOK /\ CountInv /\ OwnerInv => MappingHasOwner
  <2> SUFFICES ASSUME TypeOK, CountInv, OwnerInv,
                      NEW p \in Procs, NEW a \in Addrs, maps[p][a] # None
               PROVE  \E h \in Live : /\ handle[h].proc = p /\ handle[h].base = a
                                      /\ handle[h].buf = maps[p][a] /\ handle[h].own
                                      /\ handle[h].ref_count > 0 /\ held[h] > 0
    BY DEF MappingHasOwner
  <2>1. PICK h \in Handles : /\ Owns(h) /\ handle[h].proc = p /\ handle[h].base = a
                             /\ handle[h].buf = maps[p][a]
    BY DEF OwnerInv
  <2>2. h \in Live /\ handle[h].own /\ held[h] > 0 /\ Counted(h)
    BY <2>1 DEF Owns, CountInv
  <2> QED
    BY <2>1, <2>2 DEF Counted
<1> QED
  BY <1>1, TypeInvariant, OwnerInvariant, PTL

\* A copy that shares a mapping never counts down to zero, so its last release
\* neither unmaps nor frees.
THEOREM CopiesNeverFree == Spec => []CopyNeverFrees
<1>1. CountInv => CopyNeverFrees
  BY DEF CountInv, Counted, CopyNeverFrees
<1> QED
  BY <1>1, TypeInvariant, PTL

\* No writer ever unlocks without a sync.
THEOREM WritersSync == Spec => []WritesAreSynced
<1>1. Init => WriterInv /\ WritesAreSynced
  BY DEF Init, WriterInv, WritesAreSynced, Live
<1> QED
  BY <1>1, WriterStep, TypeInvariant, PTL DEF Spec

(***************************************************************************)
(* The abstract specification: every mapping counts its own users.         *)
(***************************************************************************)
\* A struct's callers are the users of the mapping it made; it shares that with no other struct.
LEMMA UsersCounted ==
  TypeOK /\ OwnerInv =>
    /\ Users \in [Procs -> [Addrs -> Nat]]
    /\ \A h \in Handles : Owns(h) => Users[handle[h].proc][handle[h].base] = held[h]
    /\ \A p \in Procs, a \in Addrs :
         (\A h \in Handles : ~Owner(h, p, a)) => Users[p][a] = 0
<1> SUFFICES ASSUME TypeOK, OwnerInv
             PROVE  /\ Users \in [Procs -> [Addrs -> Nat]]
                    /\ \A h \in Handles : Owns(h) => Users[handle[h].proc][handle[h].base] = held[h]
                    /\ \A p \in Procs, a \in Addrs :
                         (\A h \in Handles : ~Owner(h, p, a)) => Users[p][a] = 0
  OBVIOUS
<1>1. ASSUME NEW p \in Procs, NEW a \in Addrs
      PROVE  /\ Users[p][a] \in Nat
             /\ (\A h \in Handles : ~Owner(h, p, a)) => Users[p][a] = 0
             /\ \A h \in Handles : Owner(h, p, a) => Users[p][a] = held[h]
  <2> DEFINE c == CHOOSE h \in Handles : Owner(h, p, a)
  <2>1. Users[p][a] = IF \E h \in Handles : Owner(h, p, a) THEN held[c] ELSE 0
    BY DEF Users
  <2>2. CASE \A h \in Handles : ~Owner(h, p, a)
    BY <2>1, <2>2
  <2>3. CASE \E h \in Handles : Owner(h, p, a)
    <3>1. c \in Handles /\ Owner(c, p, a)
      BY <2>3
    <3>2. \A h \in Handles : Owner(h, p, a) => h = c
      BY <3>1 DEF Owner, OwnerInv
    <3> QED
      BY <2>1, <2>3, <3>1, <3>2 DEF TypeOK
  <2> QED
    BY <2>2, <2>3
<1>2. Users \in [Procs -> [Addrs -> Nat]]
  BY <1>1 DEF Users
<1>3. ASSUME NEW h \in Handles, Owns(h)
      PROVE  Users[handle[h].proc][handle[h].base] = held[h]
  <2>1. handle[h].proc \in Procs /\ handle[h].base \in Addrs
    BY <1>3, LiveStruct, StructFields DEF Owns, OwnerInv
  <2> QED
    BY <1>1, <1>3, <2>1 DEF Owner
<1> QED
  BY <1>1, <1>2, <1>3

\* What the lemma says of a state it says of the next one.
LEMMA UsersCountedNext ==
  ASSUME TypeOK', OwnerInv'
  PROVE  /\ Users' \in [Procs -> [Addrs -> Nat]]
         /\ \A h \in Handles : Owns(h)' => Users'[handle'[h].proc][handle'[h].base] = held'[h]
         /\ \A p \in Procs, a \in Addrs :
              (\A h \in Handles : ~Owner(h, p, a)') => Users'[p][a] = 0
<1>1. (TypeOK /\ OwnerInv)' =>
        (/\ Users \in [Procs -> [Addrs -> Nat]]
         /\ \A h \in Handles : Owns(h) => Users[handle[h].proc][handle[h].base] = held[h]
         /\ \A p \in Procs, a \in Addrs :
              (\A h \in Handles : ~Owner(h, p, a)) => Users[p][a] = 0)'
  BY UsersCounted, PTL
<1> QED
  BY <1>1

\* Where no struct but h owns a mapping, before or after, the users are h's callers; all
\* other mappings keep theirs.
LEMMA UsersStep ==
  ASSUME TypeOK, OwnerInv, TypeOK', OwnerInv', NEW h \in Handles, Others(h)
  PROVE  \A p \in Procs, a \in Addrs :
           /\ Owner(h, p, a) => Users[p][a] = held[h]
           /\ Owner(h, p, a)' => Users'[p][a] = held'[h]
           /\ ~Owner(h, p, a) /\ ~Owner(h, p, a)' => Users'[p][a] = Users[p][a]
           /\ Owner(h, p, a) /\ ~Owner(h, p, a)' => Users'[p][a] = 0
           /\ ~Owner(h, p, a) /\ Owner(h, p, a)' => Users[p][a] = 0
<1> TAKE p \in Procs, a \in Addrs
<1>1. \A g \in Handles : g # h =>
        /\ Owner(g, p, a)' = Owner(g, p, a)
        /\ held'[g] = held[g]
  BY OtherOwners DEF Owner, Others
<1>2. /\ \A g \in Handles : Owner(g, p, a) => Users[p][a] = held[g]
      /\ (\A g \in Handles : ~Owner(g, p, a)) => Users[p][a] = 0
  BY UsersCounted DEF Owner
<1>3. /\ \A g \in Handles : Owner(g, p, a)' => Users'[p][a] = held'[g]
      /\ (\A g \in Handles : ~Owner(g, p, a)') => Users'[p][a] = 0
  BY UsersCountedNext DEF Owner
<1>4. \A g \in Handles : g # h => ~(Owner(g, p, a) /\ Owner(h, p, a))
  BY DEF Owner, OwnerInv
<1>5. \A g \in Handles : g # h => ~(Owner(g, p, a)' /\ Owner(h, p, a)')
  BY DEF Owner, OwnerInv
<1>6. ~Owner(h, p, a) /\ ~Owner(h, p, a)' => Users'[p][a] = Users[p][a]
  <2> SUFFICES ASSUME ~Owner(h, p, a), ~Owner(h, p, a)' PROVE Users'[p][a] = Users[p][a]
    OBVIOUS
  <2>1. CASE \E g \in Handles : Owner(g, p, a)
    BY <1>1, <1>2, <1>3, <2>1
  <2>2. CASE \A g \in Handles : ~Owner(g, p, a)
    BY <1>1, <1>2, <1>3, <2>2
  <2> QED
    BY <2>1, <2>2
<1> QED
  BY <1>1, <1>2, <1>3, <1>4, <1>5, <1>6

\* A step that leaves the mapping that h may own, and its callers, alone.
LEMMA UsersSame ==
  ASSUME TypeOK, OwnerInv, TypeOK', OwnerInv', NEW h \in Handles, Others(h), Owns(h)' = Owns(h),
         Owns(h) => /\ handle'[h].proc = handle[h].proc /\ handle'[h].base = handle[h].base
                    /\ held'[h] = held[h]
  PROVE  Users' = Users
<1>1. \A p \in Procs, a \in Addrs : Users'[p][a] = Users[p][a]
  <2> TAKE p \in Procs, a \in Addrs
  <2>1. Owner(h, p, a)' = Owner(h, p, a)
    BY DEF Owner
  <2> QED
    BY <2>1, UsersStep DEF Owner
<1>2. Users \in [Procs -> [Addrs -> Nat]] /\ Users' \in [Procs -> [Addrs -> Nat]]
  BY UsersCounted, UsersCountedNext
<1> QED
  BY <1>1, <1>2

\* A step that changes the users of the one mapping that h owns, before or after.
LEMMA UsersSet ==
  ASSUME TypeOK, OwnerInv, TypeOK', OwnerInv', NEW h \in Handles, Others(h),
         NEW p \in Procs, NEW a \in Addrs, Owner(h, p, a) \/ Owner(h, p, a)',
         Owns(h) => Owner(h, p, a), Owns(h)' => Owner(h, p, a)'
  PROVE  /\ Users' = [Users EXCEPT ![p][a] = IF Owns(h)' THEN held'[h] ELSE 0]
         /\ Users[p][a] = IF Owns(h) THEN held[h] ELSE 0
<1>1. Users'[p][a] = IF Owns(h)' THEN held'[h] ELSE 0
  BY UsersStep DEF Owner
<1>2. Users[p][a] = IF Owns(h) THEN held[h] ELSE 0
  BY UsersStep DEF Owner
<1>3. ASSUME NEW q \in Procs, NEW x \in Addrs, q # p \/ x # a PROVE Users'[q][x] = Users[q][x]
  <2>1. ~Owner(h, q, x) /\ ~Owner(h, q, x)'
    BY <1>3 DEF Owner
  <2> QED
    BY <2>1, UsersStep
<1>4. Users \in [Procs -> [Addrs -> Nat]] /\ Users' \in [Procs -> [Addrs -> Nat]]
  BY UsersCounted, UsersCountedNext
<1> DEFINE u == IF Owns(h)' THEN held'[h] ELSE 0
<1>5. Users' = [Users EXCEPT ![p][a] = u]
  <2> HIDE DEF u
  <2> QED
    BY <1>1, <1>3, <1>4 DEF u
<1> QED
  BY <1>2, <1>5

\* Every step of gralloc is one of the lifetimes' or changes none.
LEMMA LifetimesStep ==
  TypeOK /\ CountInv /\ OwnerInv /\ TypeOK' /\ OwnerInv' /\ [Next]_vars =>
    [Lifetimes!LifetimesNext]_(Lifetimes!lvars)
<1> SUFFICES ASSUME TypeOK, CountInv, OwnerInv, TypeOK', OwnerInv', [Next]_vars
             PROVE  Lifetimes!LifetimesNext \/ UNCHANGED <<maps, Users>>
  BY DEF Lifetimes!lvars
<1> DEFINE Kept == Lifetimes!LifetimesNext \/ UNCHANGED <<maps, Users>>
<1>1. ASSUME NEW h \in Handles, Owns(h)
      PROVE  /\ handle[h].proc \in Procs /\ handle[h].base \in Addrs
             /\ Owner(h, handle[h].proc, handle[h].base)
             /\ maps[handle[h].proc][handle[h].base] # None
  BY <1>1, LiveStruct, StructFields, GrallocReferenceAssumption DEF Owns, Owner, OwnerInv
<1>2. ASSUME NEW h \in Handles, Others(h), maps' = maps, Owns(h), Owns(h)',
             handle'[h].proc = handle[h].proc, handle'[h].base = handle[h].base,
             held'[h] = held[h] + 1 \/ held'[h] = held[h] - 1
      PROVE  Lifetimes!LifetimesNext
  <2> DEFINE p == handle[h].proc
             a == handle[h].base
  <2>1. p \in Procs /\ a \in Addrs /\ Owner(h, p, a) /\ Owner(h, p, a)' /\ maps[p][a] # None
    BY <1>1, <1>2 DEF Owner
  <2>2. Users' = [Users EXCEPT ![p][a] = held'[h]] /\ Users[p][a] = held[h]
    BY <1>2, <2>1, UsersSet
  <2>3. held[h] \in Nat /\ held'[h] \in Nat /\ held'[h] > 0
    BY <1>2 DEF TypeOK, Owns
  <2> HIDE DEF p, a
  <2>4. CASE held'[h] = held[h] + 1
    <3>1. Users' = [Users EXCEPT ![p][a] = Users[p][a] + 1]
      BY <2>2, <2>4
    <3> QED
      BY <1>2, <2>1, <3>1 DEF Lifetimes!LifetimesNext, Lifetimes!Join
  <2>5. CASE held'[h] = held[h] - 1
    <3>1. Users' = [Users EXCEPT ![p][a] = Users[p][a] - 1]
      BY <2>2, <2>5
    <3>2. Users[p][a] > 1
      BY <2>2, <2>3, <2>5
    <3> QED
      BY <1>2, <2>1, <3>1, <3>2 DEF Lifetimes!LifetimesNext, Lifetimes!Leave
  <2> QED
    BY <1>2, <2>4, <2>5
<1>3. ASSUME NEW h \in Handles, Others(h), Owns(h), ~Owns(h)', held[h] = 1,
             Unmap(handle[h].proc, handle[h].base)
      PROVE  Lifetimes!LifetimesNext
  <2> DEFINE p == handle[h].proc
             a == handle[h].base
  <2>1. p \in Procs /\ a \in Addrs /\ Owner(h, p, a)
    BY <1>1, <1>3
  <2>2. Users' = [Users EXCEPT ![p][a] = 0] /\ Users[p][a] = 1
    BY <1>3, <2>1, UsersSet
  <2>3. maps' = [maps EXCEPT ![p][a] = None]
    BY <1>3, <2>1 DEF Unmap, TypeOK
  <2> QED
    BY <2>1, <2>2, <2>3 DEF Lifetimes!LifetimesNext, Lifetimes!UnmapBuffer
<1>4. ASSUME NEW h \in Handles, Others(h), ~Owns(h), NEW p \in Procs, NEW a \in Addrs,
             NEW b \in Buffers, Map(p, a, b), maps[p][a] = None, Owner(h, p, a)', held'[h] = 1
      PROVE  Lifetimes!LifetimesNext
  <2>1. Owns(h)'
    BY <1>4 DEF Owner
  <2>2. Users' = [Users EXCEPT ![p][a] = 1]
    BY <1>4, <2>1, UsersSet
  <2> QED
    BY <1>4, <2>2 DEF Lifetimes!LifetimesNext, Lifetimes!MapBuffer, Map
<1>5. ASSUME NEW h \in Handles, HandleStep(h) PROVE Kept
  <2>1. CASE Retain(h)
    <3>1. h \in Live /\ held[h] > 0 /\ maps' = maps
      BY <2>1 DEF Retain
    <3>2. Owns(h)' = Owns(h)
      BY <2>1, <3>1, RetainEffect, StructFields DEF Owns, Live, Same
    <3> QED
      BY <2>1, <3>1, <3>2, <1>2, RetainEffect, UsersSame DEF Same
  <2>2. CASE Release(h)
    <3>1. h \in Live /\ held[h] > 0 /\ maps' = maps /\ Counted(h)
      BY <2>2 DEF Release, MayRelease, CountInv
    <3>2. Owns(h)' = Owns(h)
      BY <2>2, <3>1, ReleaseEffect, StructFields DEF Owns, Live, Same, Counted
    <3> QED
      BY <2>2, <3>1, <3>2, <1>2, ReleaseEffect, UsersSame DEF Same
  <2>3. CASE ReleaseFrees(h)
    <3>1. h \in Live /\ Unmap(handle[h].proc, handle[h].base)
      BY <2>3 DEF ReleaseFrees, MayRelease
    <3>2. Owns(h) /\ ~Owns(h)' /\ held[h] = 1
      BY <2>3, <3>1, FreesEffect DEF Owns, Live
    <3> QED
      BY <2>3, <3>1, <3>2, <1>3, FreesEffect
  <2>4. CASE ReleaseImported(h)
    <3>1. h \in Live /\ Counted(h) /\ Unmap(handle[h].proc, handle[h].base)
      BY <2>4 DEF ReleaseImported, MayRelease, CountInv
    <3>2. handle[h].own /\ held[h] = 1
      BY <2>4, <3>1, ReleaseImportedEffect, StructFields DEF Counted
    <3>3. Owns(h) /\ ~Owns(h)'
      BY <2>4, <3>1, <3>2, ReleaseImportedEffect DEF Owns
    <3> QED
      BY <2>4, <3>1, <3>2, <3>3, <1>3, ReleaseImportedEffect
  <2>5. CASE Delete(h)
    <3>1. maps' = maps /\ ~Owns(h) /\ ~Owns(h)'
      BY <2>5, DeleteEffect DEF Delete, Owns
    <3>2. Owns(h)' = Owns(h)
      BY <3>1 DEF Owns
    <3> QED
      BY <2>5, <3>1, <3>2, DeleteEffect, UsersSame
  <2>6. CASE Unlock(h)
    <3>1. maps' = maps /\ Owns(h)' = Owns(h)
      BY <2>6, UnlockEffect DEF Unlock, Owns, Live
    <3> QED
      BY <2>6, <3>1, UnlockEffect, UsersSame DEF Unlock
  <2>7. ASSUME NEW mode \in {"read", "write"}, LockBuffer(h, mode) PROVE Kept
    <3>1. h \in Live /\ maps' = maps
      BY <2>7 DEF LockBuffer
    <3>2. Owns(h)' = Owns(h)
      BY <2>7, <3>1, LockEffect, StructFields DEF Owns, Live, Same
    <3> QED
      BY <2>7, <3>1, <3>2, LockEffect, UsersSame DEF Same
  <2>8. ASSUME NEW p \in Procs, Send(h, p) PROVE Kept
    BY <2>8, UsersSame DEF Send, Others, Owns, Live
  <2>9. ASSUME NEW s \in parcels, ImportKnown(s, h) PROVE Kept
    <3>1. h \notin Live /\ maps' = maps /\ ~s.own
      BY <2>9 DEF ImportKnown, CountInv
    <3>2. ~Owns(h) /\ ~Owns(h)'
      BY <2>9, <3>1, ImportKnownEffect DEF Owns, Same
    <3>3. Owns(h)' = Owns(h)
      BY <3>2 DEF Owns
    <3> QED
      BY <2>9, <3>1, <3>2, <3>3, ImportKnownEffect, UsersSame
  <2>10. ASSUME NEW s \in parcels, ImportFails(s, h) PROVE Kept
    <3>1. maps' = maps
      BY <2>10 DEF ImportFails
    <3>2. ~Owns(h) /\ ~Owns(h)'
      BY <2>10, ImportFailsEffect DEF Owns
    <3>3. Owns(h)' = Owns(h)
      BY <3>2 DEF Owns
    <3> QED
      BY <2>10, <3>1, <3>2, <3>3, ImportFailsEffect, UsersSame
  <2>11. ASSUME NEW s \in parcels, NEW a \in Addrs, ImportMaps(s, h, a) PROVE Kept
    <3>1. h \notin Live /\ Map(s.proc, a, s.buf) /\ maps[s.proc][a] = None
      BY <2>11 DEF ImportMaps
    <3>2. ~Owns(h) /\ Owner(h, s.proc, a)' /\ held'[h] = 1
      BY <2>11, <3>1, ImportMapsEffect, StructFields DEF Owner, Owns, Live
    <3>3. s.proc \in Procs /\ s.buf \in Buffers
      BY <2>11, ImportMapsEffect, StructFields
    <3> QED
      BY <2>11, <3>1, <3>2, <3>3, <1>4, ImportMapsEffect
  <2>12. ASSUME NEW p \in Procs, NEW b \in Buffers, NEW a \in Addrs, Allocate(p, h, b, a)
         PROVE  Kept
    <3>1. h \notin Live /\ Map(p, a, b) /\ maps[p][a] = None
      BY <2>12 DEF Allocate
    <3>2. ~Owns(h) /\ Owner(h, p, a)' /\ held'[h] = 1
      BY <2>12, <3>1, AllocateEffect, StructFields DEF Owner, Owns, Live
    <3> QED
      BY <2>12, <3>1, <3>2, <1>4, AllocateEffect
  <2> QED
    BY <1>5, <2>1, <2>2, <2>3, <2>4, <2>5, <2>6, <2>7, <2>8, <2>9, <2>10, <2>11, <2>12
    DEF HandleStep
<1>6. ASSUME NEW s \in parcels, Drop(s) PROVE Kept
  <2>1. UNCHANGED <<handle, held, maps>>
    BY <1>6 DEF Drop
  <2> QED
    BY <2>1 DEF Users, Owner, Owns, Live
<1>7. ASSUME NEW p \in Procs, ProcDies(p) PROVE Lifetimes!Die(p)
  <2>1. \A g \in Handles :
          /\ handle'[g] = IF g \in Live /\ handle[g].proc = p THEN None ELSE handle[g]
          /\ held'[g] = IF g \in Live /\ handle[g].proc = p THEN 0 ELSE held[g]
    BY <1>7 DEF ProcDies
  <2>2. \A g \in Handles, q \in Procs, x \in Addrs : Owner(g, q, x)' <=> Owner(g, q, x) /\ q # p
    BY <2>1 DEF Owner, Owns, Live, TypeOK
  <2>3. \A g \in Handles, q \in Procs, x \in Addrs :
          Owner(g, q, x) /\ q # p => held'[g] = held[g]
    BY <2>1 DEF Owner
  <2>4. /\ Users \in [Procs -> [Addrs -> Nat]] /\ Users' \in [Procs -> [Addrs -> Nat]]
        /\ \A h \in Handles, q \in Procs, x \in Addrs :
             /\ Owner(h, q, x) => Users[q][x] = held[h]
             /\ Owner(h, q, x)' => Users'[q][x] = held'[h]
        /\ \A q \in Procs, x \in Addrs :
             /\ (\A h \in Handles : ~Owner(h, q, x)) => Users[q][x] = 0
             /\ (\A h \in Handles : ~Owner(h, q, x)') => Users'[q][x] = 0
    BY UsersCounted, UsersCountedNext DEF Owner
  <2>5. \A x \in Addrs : Users'[p][x] = 0
    BY <2>2, <2>4
  <2>6. ASSUME NEW q \in Procs, q # p, NEW x \in Addrs PROVE Users'[q][x] = Users[q][x]
    <3>1. CASE \E g \in Handles : Owner(g, q, x)
      BY <2>2, <2>3, <2>4, <2>6, <3>1
    <3>2. CASE \A g \in Handles : ~Owner(g, q, x)
      BY <2>2, <2>4, <3>2
    <3> QED
      BY <3>1, <3>2
  <2>7. Users' = [Users EXCEPT ![p] = [x \in Addrs |-> 0]]
    BY <2>4, <2>5, <2>6
  <2>8. maps' = [maps EXCEPT ![p] = [x \in Addrs |-> None]]
    BY <1>7 DEF ProcDies
  <2> QED
    BY <2>7, <2>8 DEF Lifetimes!Die
<1>8. CASE UNCHANGED vars
  BY <1>8 DEF vars, Users, Owner, Owns, Live
<1> QED
  BY <1>5, <1>6, <1>7, <1>8 DEF Next, Lifetimes!LifetimesNext

\* Gralloc implements the lifetimes of buffers: each mapping comes with the first reference to the
\* struct that made it, stays through all others and goes with the last, whatever is done with
\* copies of the struct.
THEOREM LifetimesImplemented == Spec => ImplementsLifetimes
<1>1. Init => maps = Lifetimes!Nowhere(None) /\ Users = Lifetimes!Nowhere(0)
  BY DEF Init, Lifetimes!Nowhere, Users, Owner, Owns, Live
<1> QED
  BY <1>1, LifetimesStep, TypeInvariant, OwnerInvariant, PTL
  DEF Spec, ImplementsLifetimes, Lifetimes!LifetimesSpec
===============================================================================
