--------------------------- MODULE GrallocReference ---------------------------
(***************************************************************************)
(* How gralloc counts the references to a buffer and maps it               *)
(* (mali_gralloc_reference.cpp, the allocate, import, retain, release,     *)
(* lock and unlock entries of mali_gralloc_public_interface.cpp, and the   *)
(* ion and attribute functions they call).                                 *)
(*                                                                         *)
(* A private_handle_t is a struct in the memory of one process.  Binder    *)
(* and native_handle_clone copy it field by field: the pids, the count and *)
(* the address in it then describe another process, or another struct.     *)
(*                                                                         *)
(* s_map_lock makes retain and release atomic within a process; processes  *)
(* share only copies.  Only CPU-accessible ion buffers are modelled: the   *)
(* product has no framebuffer HAL.  The caller keeps the gralloc contract: *)
(* it uses a handle only while it holds a reference, unlocks before it     *)
(* releases, lets several readers or one writer lock a handle, and deletes *)
(* what it imported after its last release, as the device does not claim   *)
(* RELEASE_IMPLY_DELETE.                                                   *)
(***************************************************************************)
EXTENDS Naturals, FiniteSets

CONSTANTS
  Procs,      \* pids; a process that dies is followed by one with its pid
  Allocators, \* the processes that allocate
  Handles,    \* room for private_handle_t structs, of all processes together
  Buffers,    \* dma-bufs
  Addrs,      \* addresses where mmap may put a buffer, in any process
  None,       \* no struct, no buffer, no address, no pid
  MaxRefs,    \* bound of ref_count and of the references of a caller
  MaxParcels  \* bound of the copies under way

\* private_handle_t.  own is history: this very struct made its mapping.
Struct == [proc : Procs, buf : Buffers, allocating_pid : Procs,
           remote_pid : Procs \cup {None}, ref_count : Nat,
           base : Addrs \cup {None}, writeOwner : BOOLEAN, own : BOOLEAN]

ASSUME GrallocReferenceAssumption ==
  /\ Allocators \subseteq Procs
  /\ None \notin Procs \cup Handles \cup Buffers \cup Addrs \cup Struct
  /\ MaxRefs \in Nat \ {0} /\ MaxParcels \in Nat

VARIABLES
  handle,   \* the structs, None where there is none
  held,     \* how many references the callers of a process have to each
  access,   \* how they have locked it: "none", "read", "write"; or it is "lost"
  parcels,  \* raw handles handed to a process that has not imported them
  maps,     \* of every process: what is mapped at each address
  unsynced  \* history: buffers a writer unlocked without calling mali_gralloc_ion_sync

vars == <<handle, held, access, parcels, maps, unsynced>>

Init ==
  /\ handle = [h \in Handles |-> None]
  /\ held = [h \in Handles |-> 0]
  /\ access = [h \in Handles |-> "none"]
  /\ parcels = {}
  /\ maps = [p \in Procs |-> [a \in Addrs |-> None]]
  /\ unsynced = {}

Live == {h \in Handles : handle[h] # None}
Known(s, p) == s.allocating_pid = p \/ s.remote_pid = p

\* A dma-buf lives while a descriptor or a mapping of it is left.
Fresh(b) ==
  /\ \A h \in Live : handle[h].buf # b
  /\ \A s \in parcels : s.buf # b
  /\ \A p \in Procs, a \in Addrs : maps[p][a] # b

Map(p, a, b) == maps' = [maps EXCEPT ![p][a] = b]
Unmap(p, a) == maps' = [maps EXCEPT ![p] = [x \in Addrs |-> IF x = a THEN None ELSE @[x]]]

(***************************************************************************)
(* allocate: mali_gralloc_ion_allocate constructs and maps the handle.     *)
(***************************************************************************)
Allocate(p, h, b, a) ==
  /\ p \in Allocators /\ h \notin Live /\ Fresh(b) /\ maps[p][a] = None
  /\ handle' = [handle EXCEPT ![h] =
       [proc |-> p, buf |-> b, allocating_pid |-> p, remote_pid |-> None, ref_count |-> 1,
        base |-> a, writeOwner |-> FALSE, own |-> TRUE]]
  /\ held' = [held EXCEPT ![h] = 1]
  /\ Map(p, a, b)
  /\ unsynced' = unsynced \ {b}
  /\ UNCHANGED <<access, parcels>>

(***************************************************************************)
(* A handle is sent to a process, perhaps the one it is in: a local clone. *)
(* Forwarding what was received is sending it to the last receiver.        *)
(***************************************************************************)
Send(h, p) ==
  /\ h \in Live /\ held[h] > 0
  /\ Cardinality(parcels) < MaxParcels
  /\ parcels' = parcels \cup {[handle[h] EXCEPT !.proc = p, !.own = FALSE]}
  /\ UNCHANGED <<handle, held, access, maps, unsynced>>

\* The receiver is done with the raw handle.
Drop(s) ==
  /\ parcels' = parcels \ {s}
  /\ UNCHANGED <<handle, held, access, maps, unsynced>>

\* A count copied from elsewhere is never trusted.
ImportRestarts(s, h) ==
  /\ h \notin Live /\ Known(s, s.proc) /\ s.ref_count < MaxRefs
  /\ handle' = [handle EXCEPT ![h] = [s EXCEPT !.ref_count = 1]]
  /\ held' = [held EXCEPT ![h] = 1]
  /\ UNCHANGED <<access, parcels, maps, unsynced>>

(***************************************************************************)
(* import_buffer: clone, then mali_gralloc_reference_retain.  A process    *)
(* the struct already names is taken to have it mapped.                    *)
(***************************************************************************)
ImportKnown(s, h) ==
  /\ h \notin Live /\ Known(s, s.proc) /\ s.ref_count < MaxRefs
  /\ handle' = [handle EXCEPT ![h] = [s EXCEPT !.ref_count = @ + 1]]
  /\ held' = [held EXCEPT ![h] = 1]
  /\ UNCHANGED <<access, parcels, maps, unsynced>>

ImportMaps(s, h, a) ==
  /\ h \notin Live /\ ~Known(s, s.proc) /\ maps[s.proc][a] = None
  /\ handle' = [handle EXCEPT ![h] =
       [s EXCEPT !.remote_pid = s.proc, !.ref_count = 1, !.base = a, !.own = TRUE]]
  /\ held' = [held EXCEPT ![h] = 1]
  /\ Map(s.proc, a, s.buf)
  /\ UNCHANGED <<access, parcels, unsynced>>

\* ion_map fails: the caller gets an error and no handle, the clone is lost.
ImportFails(s, h) ==
  /\ h \notin Live /\ ~Known(s, s.proc)
  /\ handle' = [handle EXCEPT ![h] = [s EXCEPT !.remote_pid = s.proc, !.ref_count = 1]]
  /\ access' = [access EXCEPT ![h] = "lost"]
  /\ UNCHANGED <<held, parcels, maps, unsynced>>

\* retain, of a handle the process has allocated or imported.
Retain(h) ==
  /\ h \in Live /\ held[h] \in 1..(MaxRefs - 1)
  /\ Known(handle[h], handle[h].proc) /\ handle[h].ref_count < MaxRefs
  /\ handle' = [handle EXCEPT ![h] = [handle[h] EXCEPT !.ref_count = @ + 1]]
  /\ held' = [held EXCEPT ![h] = @ + 1]
  /\ UNCHANGED <<access, parcels, maps, unsynced>>

(***************************************************************************)
(* mali_gralloc_reference_release, with canFree: release passes true.      *)
(***************************************************************************)
MayRelease(h) ==
  /\ h \in Live /\ held[h] > 0 /\ (held[h] > 1 \/ access[h] = "none")
  /\ handle[h].ref_count # 0

ReleaseForgetsWriter(h) ==
  /\ MayRelease(h) /\ handle[h].ref_count > 1 /\ Known(handle[h], handle[h].proc)
  /\ handle' = [handle EXCEPT ![h] = [handle[h] EXCEPT !.ref_count = @ - 1, !.writeOwner = FALSE]]
  /\ held' = [held EXCEPT ![h] = @ - 1]
  /\ UNCHANGED <<access, parcels, maps, unsynced>>

ReleaseUnmaps(h) ==
  /\ MayRelease(h) /\ handle[h].ref_count > 1 /\ Known(handle[h], handle[h].proc)
  /\ handle' = [handle EXCEPT ![h] = [handle[h] EXCEPT !.ref_count = @ - 1]]
  /\ held' = [held EXCEPT ![h] = @ - 1]
  /\ Unmap(handle[h].proc, handle[h].base)
  /\ UNCHANGED <<access, parcels, unsynced>>

Release(h) ==
  /\ MayRelease(h) /\ handle[h].ref_count > 1 /\ Known(handle[h], handle[h].proc)
  /\ handle' = [handle EXCEPT ![h] = [handle[h] EXCEPT !.ref_count = @ - 1]]
  /\ held' = [held EXCEPT ![h] = @ - 1]
  /\ UNCHANGED <<access, parcels, maps, unsynced>>

ReleaseFreesAtOnce(h) ==
  /\ MayRelease(h) /\ handle[h].allocating_pid = handle[h].proc
  /\ handle' = [handle EXCEPT ![h] = None]
  /\ held' = [held EXCEPT ![h] = @ - 1]
  /\ Unmap(handle[h].proc, handle[h].base)
  /\ UNCHANGED <<access, parcels, unsynced>>

\* The allocating process frees: munmap, close, delete.
ReleaseFrees(h) ==
  /\ MayRelease(h) /\ handle[h].ref_count = 1 /\ handle[h].allocating_pid = handle[h].proc
  /\ handle' = [handle EXCEPT ![h] = None]
  /\ held' = [held EXCEPT ![h] = @ - 1]
  /\ Unmap(handle[h].proc, handle[h].base)
  /\ UNCHANGED <<access, parcels, unsynced>>

ReleaseKeepsMapping(h) ==
  /\ MayRelease(h) /\ handle[h].ref_count = 1
  /\ handle[h].allocating_pid # handle[h].proc /\ handle[h].remote_pid = handle[h].proc
  /\ handle' = [handle EXCEPT ![h] =
       [handle[h] EXCEPT !.ref_count = 0, !.base = None, !.writeOwner = FALSE]]
  /\ held' = [held EXCEPT ![h] = @ - 1]
  /\ UNCHANGED <<access, parcels, maps, unsynced>>

\* Any other process unmaps.
ReleaseImported(h) ==
  /\ MayRelease(h) /\ handle[h].ref_count = 1
  /\ handle[h].allocating_pid # handle[h].proc /\ handle[h].remote_pid = handle[h].proc
  /\ handle' = [handle EXCEPT ![h] =
       [handle[h] EXCEPT !.ref_count = 0, !.base = None, !.writeOwner = FALSE]]
  /\ held' = [held EXCEPT ![h] = @ - 1]
  /\ Unmap(handle[h].proc, handle[h].base)
  /\ UNCHANGED <<access, parcels, unsynced>>

\* The caller closes and deletes what it imported and has released.
Delete(h) ==
  /\ h \in Live /\ held[h] = 0 /\ access[h] = "none"
  /\ handle' = [handle EXCEPT ![h] = None]
  /\ UNCHANGED <<held, access, parcels, maps, unsynced>>

(***************************************************************************)
(* lock and unlock, for the CPU.  ion_sync_fd is called for a writer only. *)
(***************************************************************************)
LockBuffer(h, mode) ==
  /\ h \in Live /\ held[h] > 0
  /\ access[h] = "none"
  /\ access' = [access EXCEPT ![h] = mode]
  /\ handle' = [handle EXCEPT ![h] = [handle[h] EXCEPT !.writeOwner = (mode = "write")]]
  /\ UNCHANGED <<held, parcels, maps, unsynced>>

Unlock(h) ==
  /\ h \in Live /\ access[h] \in {"read", "write"}
  /\ access' = [access EXCEPT ![h] = "none"]
  /\ unsynced' = IF access[h] = "write" /\ ~handle[h].writeOwner
                 THEN unsynced \cup {handle[h].buf} ELSE unsynced
  /\ UNCHANGED <<handle, held, parcels, maps>>

\* A process dies; the kernel takes back its memory and its descriptors.
ProcDies(p) ==
  LET Gone == {h \in Live : handle[h].proc = p} IN
  /\ handle' = [h \in Handles |-> IF h \in Gone THEN None ELSE handle[h]]
  /\ held' = [h \in Handles |-> IF h \in Gone THEN 0 ELSE held[h]]
  /\ access' = [h \in Handles |-> IF h \in Gone THEN "none" ELSE access[h]]
  /\ parcels' = {s \in parcels : s.proc # p}
  /\ maps' = [maps EXCEPT ![p] = [a \in Addrs |-> None]]
  /\ UNCHANGED unsynced

HandleStep(h) ==
  \/ Retain(h) \/ Release(h) \/ ReleaseFrees(h) \/ ReleaseImported(h) \/ Delete(h) \/ Unlock(h)
  \/ \E mode \in {"read", "write"} : LockBuffer(h, mode)
  \/ \E p \in Procs : Send(h, p)
  \/ \E s \in parcels : ImportKnown(s, h) \/ ImportFails(s, h)
  \/ \E s \in parcels, a \in Addrs : ImportMaps(s, h, a)
  \/ \E p \in Procs, b \in Buffers, a \in Addrs : Allocate(p, h, b, a)

Next ==
  \/ \E h \in Handles : HandleStep(h)
  \/ \E s \in parcels : Drop(s)
  \/ \E p \in Procs : ProcDies(p)

Spec == Init /\ [][Next]_vars

(***************************************************************************)
(* Properties                                                              *)
(***************************************************************************)

\* The types of the variables; a caller's references are to live structs.
TypeOK ==
  /\ handle \in [Handles -> Struct \cup {None}]
  /\ held \in [Handles -> Nat]
  /\ access \in [Handles -> {"none", "read", "write", "lost"}]
  /\ parcels \subseteq Struct
  /\ maps \in [Procs -> [Addrs -> Buffers \cup {None}]]
  /\ unsynced \subseteq Buffers
  /\ \A h \in Handles : h \notin Live => held[h] = 0 /\ access[h] = "none"

\* A struct that mapped its buffer has it mapped, at its address, as long as
\* its callers hold a reference, whatever is done with copies of it
\* (mali_gralloc_reference.cpp:130).
OwnMappingStays ==
  \A h \in Live : held[h] > 0 /\ handle[h].own =>
    handle[h].base # None /\ maps[handle[h].proc][handle[h].base] = handle[h].buf

\* A copy that shares the mapping of another struct never counts down to zero:
\* it would unmap what is not its own, and in the allocating process release
\* would delete a struct that its caller deletes too (lines 106 to 121).
CopyNeverFrees ==
  \A h \in Live : ~handle[h].own => handle[h].ref_count > held[h]

\* What a writer wrote is synced when it unlocks, although writeOwner is a
\* field of a struct with several users (mali_gralloc_bufferaccess.cpp:178).
WritesAreSynced == unsynced = {}

\* A locked handle sees its buffer at the address lock returned
\* (mali_gralloc_bufferaccess.cpp:64).
LockedSeesBuffer ==
  \A h \in Live : access[h] \in {"read", "write"} =>
    handle[h].base # None /\ maps[handle[h].proc][handle[h].base] = handle[h].buf

(***************************************************************************)
(* The inductive invariant behind the properties above, by subject.        *)
(***************************************************************************)
\* A struct that mapped its buffer counts exactly its callers' references, a
\* copy more than that; who holds a reference is named in the struct.
Counted(h) ==
  /\ handle[h].own => handle[h].ref_count = held[h]
  /\ ~handle[h].own => handle[h].ref_count > held[h]
  /\ held[h] > 0 => Known(handle[h], handle[h].proc)

CountInv ==
  /\ \A h \in Live : Counted(h)
  /\ \A s \in parcels : ~s.own /\ s.ref_count > 0

\* The structs in use that made a mapping correspond one to one to the mappings.
Owns(h) == h \in Live /\ handle[h].own /\ held[h] > 0

OwnerInv ==
  /\ \A h \in Handles : Owns(h) =>
       handle[h].base \in Addrs /\ maps[handle[h].proc][handle[h].base] = handle[h].buf
  /\ \A g, h \in Handles :
       g # h /\ Owns(g) /\ Owns(h) /\ handle[g].proc = handle[h].proc =>
         handle[g].base # handle[h].base
  /\ \A p \in Procs, a \in Addrs : maps[p][a] # None =>
       \E h \in Handles : /\ Owns(h) /\ handle[h].proc = p /\ handle[h].base = a
                          /\ handle[h].buf = maps[p][a]

\* A lock for writing and writeOwner go together.
WriterInv ==
  \A h \in Live : access[h] = "write" => handle[h].writeOwner /\ held[h] > 0

(***************************************************************************)
(* A mapping is used by the callers of the struct that made it; copies of  *)
(* that struct, and what their counts say, do not come into it.            *)
(***************************************************************************)
Owner(h, p, a) == Owns(h) /\ handle[h].proc = p /\ handle[h].base = a

Users == [p \in Procs |-> [a \in Addrs |->
           IF \E h \in Handles : Owner(h, p, a)
             THEN held[CHOOSE h \in Handles : Owner(h, p, a)] ELSE 0]]

Lifetimes == INSTANCE BufferLifetimes WITH mapping <- maps, users <- Users

\* A buffer is mapped by the first reference to a struct, stays where it is
\* through every later one and is unmapped by the last, or when the process
\* dies; no step for one struct changes the mapping of another
\* (mali_gralloc_reference.cpp:37 to 155).
ImplementsLifetimes == Lifetimes!LifetimesSpec

\* So nothing stays mapped that no release will unmap: every mapping belongs to a
\* struct of its process that made it and still has a reference.
MappingHasOwner ==
  \A p \in Procs, a \in Addrs : maps[p][a] # None =>
    \E h \in Live : /\ handle[h].proc = p /\ handle[h].base = a /\ handle[h].buf = maps[p][a]
                    /\ handle[h].own /\ handle[h].ref_count > 0 /\ held[h] > 0
===============================================================================
