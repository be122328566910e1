-------------------------- MODULE GrallocAllocation --------------------------
(***************************************************************************)
(* Allocating buffers and freeing them, by several threads of the process  *)
(* that allocates: the lock around the capabilities in                     *)
(* mali_gralloc_formats.cpp, the heaps and buffers of mali_gralloc_ion.cpp, *)
(* the attribute regions of gralloc_buffer_priv.cpp, the list of           *)
(* mali_gralloc_debug.cpp, and the call that goes through all of them,     *)
(* mali_gralloc_buffer_allocate.                                           *)
(*                                                                         *)
(* File descriptors are numbers, the lowest free one is given; 0 is open   *)
(* to something else.  A system call may fail at any time.  The layout of  *)
(* a buffer is in GrallocLayout; here it has a usage and a size.  The      *)
(* globals are read and written without a lock as the code does it, one    *)
(* access after the other (sequential consistency is presumed).            *)
(*                                                                         *)
(* Where the code goes on with a variable it never set (alloc_from_ion_heap *)
(* after two failures) and finds no negative number, or closes a number    *)
(* that was closed and given to somebody else, nothing is known of what    *)
(* follows: lost is set, and the model ends.                               *)
(***************************************************************************)
EXTENDS Integers, Sequences, FiniteSets

CONSTANTS
  Threads,  \* threads of the allocating process
  Nobody,   \* not a thread: the mutex is free
  Kernels,  \* interfaces the kernel may have: "dmabuf", "modern", "legacy"
  Calls,    \* sequences of descriptors a client may pass
  MaxFd,    \* bound: file descriptors 0 .. MaxFd
  MaxHandle,\* bound: handles 1 .. MaxHandle
  MaxCalls  \* bound: calls that are begun

IonUsages == {"PROTECTED", "HW_VIDEO_ENCODER", "HW_FB", "HW_COMPOSER", "SW_READ_OFTEN"}
IonDescriptor == [usage : SUBSET IonUsages, size : Nat \ {0}]
Fds == 0 .. MaxFd
Handles == 1 .. MaxHandle

ASSUME GrallocAllocationAssumption ==
  /\ Nobody \notin Threads
  /\ Kernels \subseteq {"dmabuf", "modern", "legacy"}
  /\ Calls \subseteq Seq(IonDescriptor) \ {<<>>}
  /\ MaxFd \in Nat /\ MaxHandle \in Nat /\ MaxCalls \in Nat

VARIABLES
  kernel,  \* what the kernel offers
  runtime, \* runtime_caps_read, the capabilities and caps_init_mutex
  ion,     \* interface_ver, system_heap_id, cma_heap_id and m->ion_client
  fds,     \* what each file descriptor is open to
  handles, \* the private_handle_t
  dumped,  \* dump_buffers
  thr,     \* for each thread, where it is in a call and its variables
  given,   \* how many dma-bufs were made and how many backing store ids given
  dropped, \* history: file descriptors no variable holds any more
  calls,   \* history: how many calls were begun
  lost     \* history: the rest is undefined

allocVars == <<kernel, runtime, ion, fds, handles, dumped, thr, given, dropped, calls, lost>>

\* What a file descriptor may be open to; the number tells dma-bufs apart.
Closed == <<"closed", 0>>
IsBuffer(o) == o[1] = "buffer"
Opens(o, k) == [fds EXCEPT ![k] = o]
FreeFds == {k \in Fds : fds[k] = Closed}
Lowest(S) == CHOOSE k \in S : \A l \in S : k <= l

\* base is the dma-buf that is mapped, 0 for NULL; state tells whether the struct exists.
NoHandle == [state |-> "none", share_fd |-> 0, attr_fd |-> 0, base |-> 0, id |-> 0]
ZeroHandle == [NoHandle EXCEPT !.state = "zeroed"]

IdleThread == [pc |-> "idle", ds |-> <<>>, i |-> 1, hs |-> <<>>, shared |-> FALSE, fd |-> -1,
               id |-> 0, old |-> 0]

AllocInit ==
  /\ kernel \in Kernels
  /\ runtime = [read |-> FALSE, caps |-> "zero", mutex |-> Nobody]
  /\ ion = [ver |-> "UNKNOWN", system |-> 0, cma |-> 0, client |-> -1]
  /\ fds = [k \in Fds |-> IF k = 0 THEN <<"other", 0>> ELSE Closed]
  /\ handles = [h \in Handles |-> NoHandle]
  /\ dumped = {}
  /\ thr = [t \in Threads |-> IdleThread]
  /\ given = [buffers |-> 0, ids |-> 0]
  /\ dropped = {} /\ calls = 0 /\ lost = FALSE

At(t, pc) == thr[t].pc = pc
GoTo(t, pc) == thr' = [thr EXCEPT ![t].pc = pc]
Fail(t) == thr' = [thr EXCEPT ![t] = IdleThread]

\* A call begins.
mali_gralloc_buffer_allocate(t) ==
  /\ At(t, "idle")
  /\ \E ds \in Calls :
       /\ calls < MaxCalls /\ calls' = calls + 1
       /\ thr' = [thr EXCEPT ![t] = [IdleThread EXCEPT !.pc = "format", !.ds = ds, !.hs = [i \in 1 .. Len(ds) |-> 0]]]
  /\ UNCHANGED <<kernel, runtime, ion, fds, handles, dumped, given, dropped, lost>>

(***************************************************************************)
(* mali_gralloc_select_format: the flag is read without the lock, once for *)
(* each descriptor; once it is set it stays so.                            *)
(***************************************************************************)
test_caps_read(t) ==
  /\ At(t, "format")
  /\ GoTo(t, IF runtime.read THEN "select" ELSE "lock")
  /\ UNCHANGED <<kernel, runtime, ion, fds, handles, dumped, given, dropped, calls, lost>>

lock_caps(t) ==
  /\ At(t, "lock") /\ runtime.mutex = Nobody
  /\ runtime' = [runtime EXCEPT !.mutex = t]
  /\ GoTo(t, "determine")
  /\ UNCHANGED <<kernel, ion, fds, handles, dumped, given, dropped, calls, lost>>

\* A bug: who waited for the lock determines the capabilities once more.
determine_caps_again(t) ==
  /\ At(t, "determine")
  /\ runtime' = [runtime EXCEPT !.caps = "partial"]
  /\ GoTo(t, "restrict")
  /\ UNCHANGED <<kernel, ion, fds, handles, dumped, given, dropped, calls, lost>>

\* The masks are cleared and filled from libraries and build options ...
determine_caps(t) ==
  /\ At(t, "determine")
  /\ IF runtime.read THEN UNCHANGED runtime /\ GoTo(t, "unlock")
     ELSE runtime' = [runtime EXCEPT !.caps = "partial"] /\ GoTo(t, "restrict")
  /\ UNCHANGED <<kernel, ion, fds, handles, dumped, given, dropped, calls, lost>>

\* ... then lose what may not leave the SoC ...
restrict_caps(t) ==
  /\ At(t, "restrict")
  /\ runtime' = [runtime EXCEPT !.caps = "final"]
  /\ GoTo(t, "publish")
  /\ UNCHANGED <<kernel, ion, fds, handles, dumped, given, dropped, calls, lost>>

\* ... and only then may others use them.
publish_caps(t) ==
  /\ At(t, "publish")
  /\ runtime' = [runtime EXCEPT !.read = TRUE]
  /\ GoTo(t, "unlock")
  /\ UNCHANGED <<kernel, ion, fds, handles, dumped, given, dropped, calls, lost>>

unlock_caps(t) ==
  /\ At(t, "unlock")
  /\ runtime' = [runtime EXCEPT !.mutex = Nobody]
  /\ GoTo(t, "select")
  /\ UNCHANGED <<kernel, ion, fds, handles, dumped, given, dropped, calls, lost>>

\* The formats are selected and the sizes computed from them: see GrallocLayout.
use_caps(t) ==
  /\ At(t, "select")
  /\ GoTo(t, "interface")
  /\ UNCHANGED <<kernel, runtime, ion, fds, handles, dumped, given, dropped, calls, lost>>

(***************************************************************************)
(* initialize_interface, without a lock.  In the branch for dma-buf heaps  *)
(* interface_ver is set before the heaps are.                              *)
(***************************************************************************)
unchangedButIon == UNCHANGED <<kernel, runtime, handles, dumped, given, dropped, calls, lost>>

initialize_interface(t) ==
  /\ At(t, "interface")
  /\ GoTo(t, IF ion.ver # "UNKNOWN" THEN "client" ELSE "probe")
  /\ UNCHANGED <<ion, fds>> /\ unchangedButIon

\* What was open through a global that is overwritten stays open for nobody.
Dropped(k) == IF k \in Fds \ {0} /\ fds[k] # Closed THEN dropped \cup {k} ELSE dropped

\* /dev/dma_heap/system is there, or it is not.
dma_heap_open_system(t) ==
  /\ At(t, "probe")
  /\ \/ /\ kernel = "dmabuf" /\ FreeFds # {}
        /\ fds' = Opens(<<"system", 0>>, Lowest(FreeFds))
        /\ thr' = [thr EXCEPT ![t].pc = "version", ![t].fd = Lowest(FreeFds)]
     \/ GoTo(t, "ion_open") /\ UNCHANGED fds
  /\ UNCHANGED ion /\ unchangedButIon

set_interface_ver(t) ==
  /\ At(t, "version")
  /\ ion' = [ion EXCEPT !.ver = "DMABUF"]
  /\ GoTo(t, "system")
  /\ UNCHANGED fds /\ unchangedButIon

set_system_heap(t) ==
  /\ At(t, "system")
  /\ ion' = [ion EXCEPT !.system = thr[t].fd]
  /\ dropped' = Dropped(ion.system)
  /\ GoTo(t, "cma")
  /\ UNCHANGED <<kernel, runtime, fds, handles, dumped, given, calls, lost>>

\* The CMA heap may be missing; its descriptor is then negative.
dma_heap_open_cma(t) ==
  /\ At(t, "cma")
  /\ \/ /\ FreeFds # {}
        /\ fds' = Opens(<<"cma", 0>>, Lowest(FreeFds))
        /\ ion' = [ion EXCEPT !.cma = Lowest(FreeFds)]
     \/ ion' = [ion EXCEPT !.cma = -1] /\ UNCHANGED fds
  /\ dropped' = Dropped(ion.cma)
  /\ thr' = [thr EXCEPT ![t].pc = "client", ![t].fd = -1]
  /\ UNCHANGED <<kernel, runtime, handles, dumped, given, calls, lost>>

\* ion_open, here and where mali_gralloc_ion_allocate opens the device again.
ion_open(t, next) ==
  /\ \/ /\ kernel # "dmabuf" /\ FreeFds # {}
        /\ fds' = Opens(<<"ion", 0>>, Lowest(FreeFds))
        /\ ion' = [ion EXCEPT !.client = Lowest(FreeFds)]
        /\ GoTo(t, next)
     \/ /\ ion' = [ion EXCEPT !.client = -1]
        /\ Fail(t) /\ UNCHANGED fds
  /\ dropped' = Dropped(ion.client)
  /\ UNCHANGED <<kernel, runtime, handles, dumped, given, calls, lost>>

ion_open_first(t) == At(t, "ion_open") /\ ion_open(t, "heaps")

\* Legacy ION has masks for heaps, modern ION is asked for their numbers (here 1 and 2); a
\* missing CMA heap is replaced by the system heap.  What a failure stores stays.
find_heaps(t) ==
  /\ At(t, "heaps")
  /\ \/ /\ kernel = "legacy"
        /\ ion' = [ion EXCEPT !.ver = "LEGACY"]
        /\ GoTo(t, "client")
     \/ /\ kernel = "modern" /\ ion.client >= 0
        /\ \E cma \in {1, 2} : ion' = [ion EXCEPT !.system = 1, !.cma = cma, !.ver = "MODERN"]
        /\ GoTo(t, "client")
     \/ /\ kernel = "modern"
        /\ \E cma \in {-1, 2} : ion' = [ion EXCEPT !.system = -1, !.cma = cma]
        /\ GoTo(t, "ion_close")
  /\ UNCHANGED fds /\ unchangedButIon

\* The device is closed first and then forgotten.  Who closes it in between a second time closes
\* whatever has its number by then.
ion_close(t) ==
  /\ At(t, "ion_close")
  /\ IF ion.client >= 0 /\ fds[ion.client] \notin {Closed, <<"ion", 0>>}
     THEN lost' = TRUE /\ UNCHANGED <<fds, thr>>
     ELSE /\ fds' = IF ion.client < 0 THEN fds ELSE Opens(Closed, ion.client)
          /\ GoTo(t, "forget")
          /\ UNCHANGED lost
  /\ UNCHANGED <<kernel, runtime, ion, handles, dumped, given, dropped, calls>>

\* A bug: the closed device is remembered.
remember_client(t) ==
  /\ At(t, "forget")
  /\ Fail(t)
  /\ UNCHANGED <<ion, fds>> /\ unchangedButIon

forget_client(t) ==
  /\ At(t, "forget")
  /\ ion' = [ion EXCEPT !.client = -1]
  /\ dropped' = Dropped(ion.client)
  /\ Fail(t)
  /\ UNCHANGED <<kernel, runtime, fds, handles, dumped, given, calls, lost>>

reopen_client(t) ==
  /\ At(t, "client")
  /\ \/ /\ ion.ver = "DMABUF" \/ ion.client >= 0
        /\ GoTo(t, "share")
        /\ UNCHANGED <<ion, fds>> /\ unchangedButIon
     \/ ion.ver # "DMABUF" /\ ion.client < 0 /\ ion_open(t, "share")

(***************************************************************************)
(* One backing store for all buffers, or one for each.                     *)
(***************************************************************************)
pick_ion_heap(usage) ==
  CASE "PROTECTED" \in usage -> "none"
    [] "HW_VIDEO_ENCODER" \notin usage /\ usage \cap {"HW_FB", "HW_COMPOSER"} # {} -> "DMA"
    [] OTHER -> "SYSTEM"

\* Does set_ion_flags store flags for a cached buffer?  Otherwise it stores none.
SetsCached(usage) == pick_ion_heap(usage) # "DMA" /\ "SW_READ_OFTEN" \in usage

\* Flags that set_ion_flags did not store are compared uninitialised: where one of them is,
\* the comparison may come out either way.
check_buffers_sharable(ds) ==
  LET n == Len(ds)
      heap(i) == pick_ion_heap(ds[i].usage)
  IN IF n <= 1 \/ \E i \in 1 .. n : heap(i) = "none" \/ heap(i) # heap(1) THEN {FALSE}
     ELSE IF \A i \in 1 .. n : SetsCached(ds[i].usage) THEN {TRUE}
     ELSE BOOLEAN

\* The first of the largest.
get_max_buffer_descriptor_index(ds) ==
  CHOOSE i \in DOMAIN ds : \A j \in DOMAIN ds : ds[j].size < ds[i].size \/ (ds[j].size = ds[i].size /\ i <= j)

share(t) ==
  /\ At(t, "share")
  /\ \E shared \in check_buffers_sharable(thr[t].ds) :
       thr' = [thr EXCEPT ![t].shared = shared, ![t].pc = "allocate",
                          ![t].i = IF shared THEN get_max_buffer_descriptor_index(thr[t].ds) ELSE 1]
  /\ UNCHANGED <<ion, fds>> /\ unchangedButIon

\* dma_heap_alloc and ion_alloc_fd need what the globals name to be open, or to be a heap's number,
\* at this moment.
Usable(heap) ==
  LET k == IF heap = "DMA" THEN ion.cma ELSE ion.system
  IN CASE ion.ver = "DMABUF" -> k >= 0 /\ fds[k] \in {<<"system", 0>>, <<"cma", 0>>}
       [] ion.ver = "MODERN" -> k >= 0 /\ ion.client >= 0 /\ fds[ion.client] = <<"ion", 0>>
       [] OTHER -> ion.client >= 0 /\ fds[ion.client] = <<"ion", 0>>

FreshBuffer == given.buffers + 1

FreeHandles == {h \in Handles : handles[h].state = "none"}
FreshHandle == Lowest(FreeHandles)

\* new private_handle_t, into pHandle[i]: from the file descriptor k.
Adopt(k) ==
  /\ FreeHandles # {}
  /\ handles' = [handles EXCEPT ![FreshHandle] = [NoHandle EXCEPT !.state = "made", !.share_fd = k, !.attr_fd = -1]]

\* alloc_from_ion_heap: from the heap that was picked, then from the system heap.
CanAllocate(usage) == FreeFds # {} /\ (Usable(pick_ion_heap(usage)) \/ Usable("SYSTEM"))

\* After two failures the result was never set; it is negative when ION is not open.
NeverSet == ion.ver = "DMABUF" \/ ion.client >= 0
GiveUp(t) == thr' = [thr EXCEPT ![t].pc = "undo", ![t].i = 1, ![t].fd = -1]

\* A bug: the next loop goes on where this one ended.
allocate_own_past(t) ==
  LET i == thr[t].i
      last == i = Len(thr[t].ds)
      usage == thr[t].ds[i].usage
  IN /\ At(t, "allocate") /\ ~thr[t].shared
     /\ pick_ion_heap(usage) # "none" /\ CanAllocate(usage)
     /\ fds' = Opens(<<"buffer", FreshBuffer>>, Lowest(FreeFds))
     /\ given' = [given EXCEPT !.buffers = FreshBuffer]
     /\ Adopt(Lowest(FreeFds))
     /\ thr' = [thr EXCEPT ![t].hs[i] = FreshHandle, ![t].i = i + 1, ![t].pc = IF last THEN "map" ELSE "allocate"]
     /\ UNCHANGED <<kernel, runtime, ion, dumped, dropped, calls, lost>>

\* An iteration of the loop for buffers with memory of their own.
allocate_own(t) ==
  LET i == thr[t].i
      last == i = Len(thr[t].ds)
      usage == thr[t].ds[i].usage
  IN /\ At(t, "allocate") /\ ~thr[t].shared
     /\ pick_ion_heap(usage) # "none" /\ CanAllocate(usage)
     /\ fds' = Opens(<<"buffer", FreshBuffer>>, Lowest(FreeFds))
     /\ given' = [given EXCEPT !.buffers = FreshBuffer]
     /\ Adopt(Lowest(FreeFds))
     /\ thr' = [thr EXCEPT ![t].hs[i] = FreshHandle, ![t].i = IF last THEN 1 ELSE i + 1,
                           ![t].pc = IF last THEN "map" ELSE "allocate"]
     /\ UNCHANGED <<kernel, runtime, ion, dumped, dropped, calls, lost>>

\* The memory all buffers will share, for the largest.
allocate_shared(t) ==
  /\ At(t, "allocate") /\ thr[t].shared
  /\ CanAllocate(thr[t].ds[thr[t].i].usage)
  /\ fds' = Opens(<<"buffer", FreshBuffer>>, Lowest(FreeFds))
  /\ given' = [given EXCEPT !.buffers = FreshBuffer]
  /\ thr' = [thr EXCEPT ![t].pc = "dup", ![t].fd = Lowest(FreeFds), ![t].i = 1]
  /\ UNCHANGED <<kernel, runtime, ion, handles, dumped, dropped, calls, lost>>

\* No heap for this usage, or no memory.
allocate_fails(t) ==
  /\ At(t, "allocate")
  /\ GiveUp(t)
  /\ UNCHANGED <<kernel, runtime, ion, fds, handles, dumped, given, dropped, calls, lost>>

allocate_undefined(t) ==
  /\ At(t, "allocate")
  /\ pick_ion_heap(thr[t].ds[thr[t].i].usage) # "none" /\ NeverSet
  /\ lost' = TRUE
  /\ UNCHANGED <<kernel, runtime, ion, fds, handles, dumped, thr, given, dropped, calls>>

\* The largest buffer takes the descriptor, the others duplicate it.  A dup that fails before
\* the largest one's turn leaves the descriptor to nobody.
dup_shared(t) ==
  LET i == thr[t].i
      largest == get_max_buffer_descriptor_index(thr[t].ds)
      last == i = Len(thr[t].ds)
      goOn == thr' = [thr EXCEPT ![t].hs[i] = FreshHandle, ![t].i = IF last THEN 1 ELSE i + 1,
                                 ![t].pc = IF last THEN "map" ELSE "dup",
                                 ![t].fd = IF last THEN -1 ELSE thr[t].fd]
  IN /\ At(t, "dup")
     /\ \/ /\ i = largest
           /\ Adopt(thr[t].fd) /\ goOn
           /\ UNCHANGED <<fds, dropped>>
        \/ /\ i # largest /\ FreeFds # {}
           /\ fds' = Opens(fds[thr[t].fd], Lowest(FreeFds))
           /\ Adopt(Lowest(FreeFds)) /\ goOn
           /\ UNCHANGED dropped
        \/ /\ i # largest
           /\ dropped' = IF i < largest THEN dropped \cup {thr[t].fd} ELSE dropped
           /\ GiveUp(t)
           /\ UNCHANGED <<fds, handles>>
     /\ UNCHANGED <<kernel, runtime, ion, dumped, given, calls, lost>>

\* mmap of the i-th buffer.
map_buffer(t) ==
  LET i == thr[t].i
      h == thr[t].hs[i]
      last == i = Len(thr[t].ds)
  IN /\ At(t, "map")
     /\ \/ /\ IsBuffer(fds[handles[h].share_fd])
           /\ handles' = [handles EXCEPT ![h].base = fds[handles[h].share_fd][2]]
           /\ thr' = [thr EXCEPT ![t].i = IF last THEN 1 ELSE i + 1, ![t].pc = IF last THEN "attributes" ELSE "map"]
        \/ GiveUp(t) /\ UNCHANGED handles
     /\ UNCHANGED <<kernel, runtime, ion, fds, dumped, given, dropped, calls, lost>>

(***************************************************************************)
(* The second loop of mali_gralloc_buffer_allocate: attribute region, list *)
(* and backing store id of each.  The number is new or, when the memory is *)
(* shared, was new at the beginning of the loop.                           *)
(***************************************************************************)
FreshId == given.ids + 1

gralloc_buffer_attr_allocate(t) ==
  /\ At(t, "attributes")
  /\ \/ /\ FreeFds # {}
        /\ fds' = Opens(<<"attributes", 0>>, Lowest(FreeFds))
        /\ handles' = [handles EXCEPT ![thr[t].hs[thr[t].i]].attr_fd = Lowest(FreeFds)]
        /\ GoTo(t, "list")
     \/ GiveUp(t) /\ UNCHANGED <<fds, handles>>
  /\ UNCHANGED <<kernel, runtime, ion, dumped, given, dropped, calls, lost>>

\* A bug: buffers with shared memory get numbers of their own.
list_and_number_each(t) ==
  LET i == thr[t].i
  IN /\ At(t, "list")
     /\ dumped' = dumped \cup {thr[t].hs[i]}
     /\ handles' = [handles EXCEPT ![thr[t].hs[i]].id = FreshId]
     /\ given' = [given EXCEPT !.ids = FreshId]
     /\ thr' = IF i = Len(thr[t].ds) THEN [thr EXCEPT ![t] = IdleThread]
               ELSE [thr EXCEPT ![t].i = i + 1, ![t].pc = "attributes"]
     /\ UNCHANGED <<kernel, runtime, ion, fds, dropped, calls, lost>>

\* mali_gralloc_dump_buffer_add and getUniqueId.
list_and_number(t) ==
  LET i == thr[t].i
      id == IF thr[t].shared /\ i > 1 THEN thr[t].id ELSE FreshId
  IN /\ At(t, "list")
     /\ dumped' = dumped \cup {thr[t].hs[i]}
     /\ handles' = [handles EXCEPT ![thr[t].hs[i]].id = id]
     /\ given' = IF thr[t].shared /\ i > 1 THEN given ELSE [given EXCEPT !.ids = FreshId]
     /\ thr' = IF i = Len(thr[t].ds) THEN [thr EXCEPT ![t] = IdleThread]
               ELSE [thr EXCEPT ![t].i = i + 1, ![t].pc = "attributes", ![t].id = IF thr[t].shared THEN id ELSE 0]
     /\ UNCHANGED <<kernel, runtime, ion, fds, dropped, calls, lost>>

(***************************************************************************)
(* mali_gralloc_ion_free_internal and mali_gralloc_buffer_free_internal:   *)
(* attribute region, mapping and descriptor of each handle there is.  The  *)
(* structs are cleared and not deleted, nor taken from the list; one that  *)
(* is on no list is of no further interest.                                *)
(***************************************************************************)
\* attr_free and ion_free: what is closed.
CloseAll(S) == [k \in Fds |-> IF k \in S THEN Closed ELSE fds[k]]
Held(h) == {k \in {handles[h].share_fd, handles[h].attr_fd} : k >= 0}

\* A bug: a buffer that is not mapped is not closed either.
free_internal_mapped_only(t) ==
  LET i == thr[t].i
      h == thr[t].hs[i]
  IN /\ At(t, "undo")
     /\ IF h = 0 THEN UNCHANGED <<fds, handles>>
        ELSE /\ fds' = IF handles[h].base = 0 THEN fds ELSE CloseAll(Held(h))
             /\ handles' = [handles EXCEPT ![h] = IF h \in dumped THEN ZeroHandle ELSE NoHandle]
     /\ thr' = IF i = Len(thr[t].ds) THEN [thr EXCEPT ![t] = IdleThread] ELSE [thr EXCEPT ![t].i = i + 1, ![t].hs[i] = 0]
     /\ UNCHANGED <<kernel, runtime, ion, dumped, given, dropped, calls, lost>>

free_internal(t) ==
  LET i == thr[t].i
      h == thr[t].hs[i]
  IN /\ At(t, "undo")
     /\ IF h = 0 THEN UNCHANGED <<fds, handles>>
        ELSE /\ fds' = CloseAll(Held(h))
             /\ handles' = [handles EXCEPT ![h] = IF h \in dumped THEN ZeroHandle ELSE NoHandle]
     /\ thr' = IF i = Len(thr[t].ds) THEN [thr EXCEPT ![t] = IdleThread] ELSE [thr EXCEPT ![t].i = i + 1, ![t].hs[i] = 0]
     /\ UNCHANGED <<kernel, runtime, ion, dumped, given, dropped, calls, lost>>

(***************************************************************************)
(* The last reference is released (GrallocReference): off the list, then   *)
(* mali_gralloc_buffer_free, then the struct is deleted.                   *)
(***************************************************************************)
Busy == UNION {{thr[t].hs[i] : i \in DOMAIN thr[t].hs} \cup {thr[t].old} : t \in Threads}

\* A bug: the list is left to the end.
release_unlisted(t) ==
  /\ At(t, "idle")
  /\ \E h \in Handles \ Busy :
       /\ handles[h].state = "made"
       /\ thr' = [thr EXCEPT ![t] = [IdleThread EXCEPT !.pc = "free", !.old = h]]
  /\ UNCHANGED <<kernel, runtime, ion, fds, handles, dumped, given, dropped, calls, lost>>

mali_gralloc_dump_buffer_erase(t) ==
  /\ At(t, "idle")
  /\ \E h \in Handles \ Busy :
       /\ handles[h].state = "made"
       /\ dumped' = dumped \ {h}
       /\ thr' = [thr EXCEPT ![t] = [IdleThread EXCEPT !.pc = "free", !.old = h]]
  /\ UNCHANGED <<kernel, runtime, ion, fds, handles, given, dropped, calls, lost>>

mali_gralloc_buffer_free(t) ==
  /\ At(t, "free")
  /\ fds' = CloseAll(Held(thr[t].old))
  /\ handles' = [handles EXCEPT ![thr[t].old] = NoHandle]
  /\ Fail(t)
  /\ UNCHANGED <<kernel, runtime, ion, dumped, given, dropped, calls, lost>>

\* mali_gralloc_dump_buffers reads every handle of the list.
mali_gralloc_dump_buffers == UNCHANGED allocVars

AllocStep(t) ==
  \/ mali_gralloc_buffer_allocate(t) \/ test_caps_read(t) \/ lock_caps(t)
  \/ determine_caps(t) \/ restrict_caps(t) \/ publish_caps(t) \/ unlock_caps(t) \/ use_caps(t)
  \/ initialize_interface(t) \/ dma_heap_open_system(t) \/ set_interface_ver(t) \/ set_system_heap(t)
  \/ dma_heap_open_cma(t) \/ ion_open_first(t) \/ find_heaps(t) \/ ion_close(t) \/ forget_client(t)
  \/ reopen_client(t) \/ share(t) \/ allocate_own(t) \/ allocate_shared(t) \/ allocate_fails(t)
  \/ allocate_undefined(t) \/ dup_shared(t) \/ map_buffer(t) \/ gralloc_buffer_attr_allocate(t)
  \/ list_and_number(t)
  \/ free_internal(t) \/ mali_gralloc_dump_buffer_erase(t) \/ mali_gralloc_buffer_free(t)

AllocNext == \/ ~lost /\ \E t \in Threads : AllocStep(t)
             \/ mali_gralloc_dump_buffers
AllocSpec == AllocInit /\ [][AllocNext]_allocVars

(***************************************************************************)
(* Properties.                                                             *)
(***************************************************************************)
\* The types: in particular i is always an index of the loop a thread is in.
Places == {"idle", "format", "lock", "determine", "restrict", "publish", "unlock", "select", "interface", "probe",
           "version", "system", "cma", "ion_open", "heaps", "ion_close", "forget", "client", "share",
           "allocate", "dup", "map", "attributes", "list", "undo", "free"}
Opened == ({"closed", "other", "system", "cma", "ion", "attributes"} \X {0}) \cup ({"buffer"} \X (Nat \ {0}))
ThreadType ==
  [pc : Places, ds : Calls \cup {<<>>}, i : Nat, hs : Seq(Handles \cup {0}), shared : BOOLEAN,
   fd : Fds \cup {-1}, id : Nat, old : Handles \cup {0}]
AllocTypeOK ==
  /\ kernel \in Kernels
  /\ runtime \in [read : BOOLEAN, caps : {"zero", "partial", "final"}, mutex : Threads \cup {Nobody}]
  /\ ion \in [ver : {"UNKNOWN", "LEGACY", "MODERN", "DMABUF"}, system : Fds \cup {-1, 1, 2},
              cma : Fds \cup {-1, 1, 2}, client : Fds \cup {-1}]
  /\ fds \in [Fds -> Opened]
  /\ handles \in [Handles -> [state : {"none", "made", "zeroed"}, share_fd : Fds, attr_fd : Fds \cup {-1},
                              base : Nat, id : Nat]]
  /\ dumped \subseteq Handles
  /\ thr \in [Threads -> ThreadType]
  /\ \A t \in Threads : /\ Len(thr[t].hs) = Len(thr[t].ds)
                        /\ thr[t].i \in DOMAIN thr[t].ds \/ thr[t].pc \in {"idle", "free"}
  /\ given \in [buffers : Nat, ids : Nat]
  /\ dropped \subseteq Fds /\ calls \in Nat /\ lost \in BOOLEAN

Complete == {h \in Handles \ Busy : handles[h].state = "made"}

\* Whatever is allocated, freed and rolled back at the same time, each handle has its own file
\* descriptors, the memory it maps is the memory its descriptor names, and of the handles that
\* clients have two are in the same memory exactly if they have the same backing store id.
OwnBuffers ==
  /\ \A h \in Handles : handles[h].state = "made" =>
       /\ IsBuffer(fds[handles[h].share_fd]) /\ handles[h].base \in {0, fds[handles[h].share_fd][2]}
       /\ handles[h].attr_fd >= 0 => fds[handles[h].attr_fd] = <<"attributes", 0>>
       /\ \A g \in Handles \ {h} : handles[g].state = "made" => Held(h) \cap Held(g) = {}
  /\ \A h, g \in Complete :
       /\ handles[h].base # 0 /\ handles[h].attr_fd >= 0 /\ handles[h].id # 0
       /\ (handles[h].id = handles[g].id) <=> (handles[h].base = handles[g].base)

\* No file descriptor is forgotten, at no failure: each that is open is a handle's, a global's or
\* is in a local variable.  Two exceptions the code makes are in dropped: a dup that fails before
\* the largest buffer's turn, and globals that two first calls write at the same time.
Globals == {ion.client} \cup (IF ion.ver = "DMABUF" THEN {ion.system, ion.cma} ELSE {})
NothingLost ==
  \A k \in Fds \ {0} : fds[k] # Closed =>
    \/ k \in Globals \cup dropped
    \/ \E h \in Handles : handles[h].state = "made" /\ k \in Held(h)
    \/ \E t \in Threads : thr[t].fd = k

\* Nobody selects a format with capabilities that are not yet final, though the flag is read
\* without the lock.
SelectsFinalCaps ==
  \A t \in Threads : At(t, "select") => runtime.caps = "final"

\* interface_ver is set before the heaps it promises, but no later than the first thread has left
\* initialize_interface what the globals name is open, whoever else initializes or gives up.
HeapsAreOpen ==
  /\ ion.ver = "DMABUF" =>
       /\ fds[ion.system] = <<"system", 0>> \/ \E t \in Threads : At(t, "system")
       /\ \/ ion.cma = -1 \/ fds[ion.cma] = <<"cma", 0>>
          \/ \E t \in Threads : At(t, "system") \/ At(t, "cma")
  /\ ion.client = -1 \/ fds[ion.client] = <<"ion", 0>> \/ \E t \in Threads : At(t, "forget")

\* The list for dumpsys has every buffer a client has and no struct that was deleted, so that a dump
\* at any moment reads only memory that is there.
DumpReadsLive ==
  /\ \A h \in dumped : handles[h].state # "none"
  /\ Complete \subseteq dumped
===============================================================================
