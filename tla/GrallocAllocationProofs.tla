----------------------- MODULE GrallocAllocationProofs -----------------------
(***************************************************************************)
(* Proofs about GrallocAllocation, for any number of threads, file         *)
(* descriptors, handles and calls: the types, the capabilities that are    *)
(* read without their lock, and the list that dumpsys reads.               *)
(***************************************************************************)
EXTENDS GrallocAllocation, FiniteSetTheorems, TLAPS

(* Numbers, file descriptors and handles. *)

\* Among the intervals 0 .. k with k in S one has no other inside.
LEMMA LeastNumber ==
  ASSUME NEW S, S \subseteq Nat, S # {}
  PROVE  \E k \in S : \A l \in S : k <= l
<1> DEFINE Intervals == {0 .. k : k \in S}
<1>1. \A k \in S : IsFiniteSet(0 .. k)
  BY FS_Interval
<1>2. Intervals \subseteq FiniteSubsetsOf(Nat) /\ Intervals # {}
  <2>1. \A k \in S : 0 .. k \in SUBSET Nat
    OBVIOUS
  <2> QED
    BY <1>1, <2>1, Zenon DEF FiniteSubsetsOf
<1>3. \E I \in Intervals : \A J \in Intervals : ~(<<J, I>> \in StrictSubsetOrdering(Nat))
  <2> HIDE DEF Intervals
  <2> QED
    BY <1>2, FS_StrictSubsetOrderingWellFounded, WFMin, Zenon
<1>4. PICK k \in S : \A l \in S : ~(<<0 .. l, 0 .. k>> \in StrictSubsetOrdering(Nat))
  BY <1>3
<1>5. ASSUME NEW l \in S, ~(k <= l) PROVE FALSE
  <2>1. (0 .. l) \subseteq (0 .. k) /\ k \in 0 .. k /\ k \notin 0 .. l
    BY <1>5
  <2>2. <<0 .. l, 0 .. k>> \in StrictSubsetOrdering(Nat)
    BY <2>1 DEF StrictSubsetOrdering
  <2> QED
    BY <2>2, <1>4
<1> QED
  BY <1>5

LEMMA LowestIsLeast ==
  ASSUME NEW S, S \subseteq Nat, S # {}
  PROVE  Lowest(S) \in S
BY LeastNumber DEF Lowest

LEMMA LessThrough ==
  ASSUME NEW a \in Nat, NEW b \in Nat, NEW c \in Nat, a < b \/ a = b, b < c
  PROVE  a < c
OBVIOUS

\* Finitely many numbers have a first that is largest: take the shortest prefix without one.
LEMMA FirstOfLargest ==
  ASSUME NEW N \in Nat \ {0}, NEW size \in [1 .. N -> Nat]
  PROVE  \E i \in 1 .. N : \A j \in 1 .. N : size[j] < size[i] \/ (size[j] = size[i] /\ i <= j)
<1> DEFINE Ahead(i, j) == size[j] < size[i] \/ (size[j] = size[i] /\ i <= j)
           Has(n) == \E i \in 1 .. n : \A j \in 1 .. n : Ahead(i, j)
           Without == {n \in 1 .. N : ~Has(n)}
<1>1. Without = {}
  <2> SUFFICES ASSUME Without # {} PROVE FALSE
    OBVIOUS
  <2>1. Without \subseteq Nat
    OBVIOUS
  <2>2. PICK n \in Without : \A m \in Without : n <= m
    <3> HIDE DEF Without
    <3> QED
      BY <2>1, LeastNumber
  <2>3. n \in 1 .. N /\ n \in Nat /\ n >= 1 /\ ~Has(n) /\ \A m \in 1 .. N : ~Has(m) => n <= m
    BY <2>2
  <2>4. n # 1
    <3>1. Has(1)
      OBVIOUS
    <3> QED
      BY <3>1, <2>3
  <2>5. n - 1 \in 1 .. N /\ ~(n <= n - 1)
    BY <2>3, <2>4
  <2>6. Has(n - 1)
    <3> HIDE DEF Has
    <3> QED
      BY <2>3, <2>5
  <2>7. PICK i \in 1 .. (n - 1) : \A j \in 1 .. (n - 1) : Ahead(i, j)
    BY <2>6
  <2>8. i \in 1 .. n /\ i < n /\ n \in 1 .. n /\ size[n] \in Nat /\ size[i] \in Nat
    BY <2>3, <2>7
  <2>9. \A j \in 1 .. n : j \in 1 .. (n - 1) \/ j = n
    BY <2>3
  <2>10. CASE Ahead(i, n)
    <3>1. \A j \in 1 .. n : Ahead(i, j)
      <4> HIDE DEF Ahead
      <4> QED
        BY <2>7, <2>9, <2>10
    <3> QED
      BY <3>1, <2>8, <2>3
  <2>11. CASE ~Ahead(i, n)
    <3>1. size[i] < size[n]
      BY <2>8, <2>11
    <3>2. \A j \in 1 .. (n - 1) : size[j] \in Nat
      BY <2>3
    <3>3. ASSUME NEW j \in 1 .. (n - 1) PROVE size[j] < size[n]
      <4>1. Ahead(i, j)
        BY <2>7
      <4>2. size[j] < size[i] \/ size[j] = size[i]
        BY <4>1, Zenon
      <4>3. size[j] \in Nat /\ size[i] \in Nat /\ size[n] \in Nat
        BY <3>2, <2>8, Zenon
      <4> QED
        BY <3>1, <4>2, <4>3, LessThrough, Zenon
    <3>4. ASSUME NEW j \in 1 .. n PROVE Ahead(n, j)
      <4>1. CASE j = n
        BY <2>8, <4>1
      <4>2. CASE j \in 1 .. (n - 1)
        BY <3>3, <4>2, Zenon
      <4> QED
        BY <2>9, <4>1, <4>2
    <3> QED
      BY <3>4, <2>8, <2>3
  <2> QED
    BY <2>10, <2>11
<1>2. N \in 1 .. N
  OBVIOUS
<1>3. Has(N)
  <2> HIDE DEF Has
  <2> QED
    BY <1>1, <1>2
<1> QED
  BY <1>3

LEMMA FreeFdFacts ==
  ASSUME FreeFds # {}
  PROVE  Lowest(FreeFds) \in Fds /\ fds[Lowest(FreeFds)] = Closed
<1>1. FreeFds \subseteq Nat
  BY GrallocAllocationAssumption DEF FreeFds, Fds
<1>2. Lowest(FreeFds) \in FreeFds
  BY <1>1, LowestIsLeast
<1> QED
  BY <1>2 DEF FreeFds

LEMMA FreshHandleFacts ==
  ASSUME FreeHandles # {}
  PROVE  FreshHandle \in Handles /\ handles[FreshHandle].state = "none"
<1>1. FreeHandles \subseteq Nat
  BY GrallocAllocationAssumption DEF FreeHandles, Handles
<1>2. Lowest(FreeHandles) \in FreeHandles
  BY <1>1, LowestIsLeast
<1> QED
  BY <1>2 DEF FreeHandles, FreshHandle

LEMMA CallFacts ==
  ASSUME NEW ds \in Calls
  PROVE  /\ ds \in Seq(IonDescriptor) /\ Len(ds) \in Nat \ {0} /\ DOMAIN ds = 1 .. Len(ds)
         /\ \A i \in DOMAIN ds : ds[i].size \in Nat
<1>1. ds \in Seq(IonDescriptor) /\ ds # <<>>
  BY GrallocAllocationAssumption
<1>2. Len(ds) \in Nat \ {0} /\ DOMAIN ds = 1 .. Len(ds)
  BY <1>1
<1>3. \A i \in DOMAIN ds : ds[i] \in IonDescriptor
  BY <1>1
<1> QED
  BY <1>1, <1>2, <1>3 DEF IonDescriptor

LEMMA LargestIsThere ==
  ASSUME NEW ds \in Calls
  PROVE  get_max_buffer_descriptor_index(ds) \in DOMAIN ds
<1> DEFINE size == [i \in 1 .. Len(ds) |-> ds[i].size]
<1>1. Len(ds) \in Nat \ {0} /\ DOMAIN ds = 1 .. Len(ds) /\ size \in [1 .. Len(ds) -> Nat]
  BY CallFacts
<1>2. \E i \in 1 .. Len(ds) : \A j \in 1 .. Len(ds) : size[j] < size[i] \/ (size[j] = size[i] /\ i <= j)
  <2> HIDE DEF size
  <2> QED
    BY <1>1, FirstOfLargest
<1>3. \E i \in DOMAIN ds : \A j \in DOMAIN ds : ds[j].size < ds[i].size \/ (ds[j].size = ds[i].size /\ i <= j)
  BY <1>1, <1>2
<1> QED
  BY <1>3, Zenon DEF get_max_buffer_descriptor_index

-----------------------------------------------------------------------------
(* The inductive invariant. *)

\* No handle is made yet where a thread is at one of these places.
Early == {"idle", "format", "lock", "determine", "restrict", "publish", "unlock", "select", "interface", "probe",
          "version", "system", "cma", "ion_open", "heaps", "ion_close", "forget", "client", "share"}
Initializing == {"version", "system", "cma"}
Filled == {"map", "attributes", "list"}

IsMade(h) == handles[h].state = "made"
Memory(h) == fds[handles[h].share_fd][2]
Largest(t) == get_max_buffer_descriptor_index(thr[t].ds)
Slots(t) == DOMAIN thr[t].hs

\* The capabilities: only one thread determines them, and only before they may be read.
CapsInv ==
  /\ \A t \in Threads :
       /\ thr[t].pc \in {"determine", "restrict", "publish", "unlock"} => runtime.mutex = t
       /\ thr[t].pc \in {"restrict", "publish"} => ~runtime.read
       /\ thr[t].pc = "publish" => runtime.caps = "final"
       /\ thr[t].pc \in {"unlock", "select"} => runtime.read
  /\ runtime.read => runtime.caps = "final"

\* Which of its handles a thread has made, and whether it has a file descriptor.
PlaceInv(t) ==
  /\ thr[t].pc \in {"idle", "free"} => thr[t].hs = <<>>
  /\ thr[t].pc \in Early => \A j \in Slots(t) : thr[t].hs[j] = 0
  /\ thr[t].pc = "allocate" /\ thr[t].shared => \A j \in Slots(t) : thr[t].hs[j] = 0
  /\ thr[t].pc = "allocate" /\ ~thr[t].shared => \A j \in Slots(t) : thr[t].hs[j] # 0 <=> j < thr[t].i
  /\ thr[t].pc = "dup" => thr[t].shared /\ \A j \in Slots(t) : thr[t].hs[j] # 0 <=> j < thr[t].i
  /\ thr[t].pc \in Filled => \A j \in Slots(t) : thr[t].hs[j] # 0
  /\ thr[t].pc = "undo" => \A j \in Slots(t) : j < thr[t].i => thr[t].hs[j] = 0
  /\ thr[t].pc \notin Initializing \cup {"dup"} => thr[t].fd = -1
  /\ thr[t].pc \in Initializing \cup {"dup"} => thr[t].fd \in Fds
  /\ thr[t].pc # "free" => thr[t].old = 0
  /\ thr[t].pc = "free" => thr[t].old # 0

\* A handle a thread is busy with is there, and is nobody else's; one that is being freed is off the list.
SlotsMade == \A t \in Threads : \A j \in Slots(t) : thr[t].hs[j] # 0 => IsMade(thr[t].hs[j])
SlotsApart ==
  \A t, u \in Threads : \A j \in Slots(t), k \in Slots(u) :
    thr[t].hs[j] # 0 /\ thr[t].hs[j] = thr[u].hs[k] => t = u /\ j = k
FreedMade == \A t \in Threads : thr[t].pc = "free" => IsMade(thr[t].old) /\ thr[t].old \notin dumped
FreedApart ==
  \A t, u \in Threads : thr[t].pc = "free" => /\ \A j \in Slots(u) : thr[u].hs[j] # thr[t].old
                                              /\ u # t => thr[u].old # thr[t].old
BusyInv == SlotsMade /\ SlotsApart /\ FreedMade /\ FreedApart

\* Every handle that nobody is busy with is on the list, and the list has no others.
Has(t, h) == thr[t].old = h \/ \E j \in Slots(t) : thr[t].hs[j] = h
ListedUpTo(t) == thr[t].pc \in {"attributes", "list"} => \A j \in Slots(t) : j < thr[t].i => thr[t].hs[j] \in dumped
ListedLive == \A h \in dumped : handles[h].state # "none"
MadeFound == \A h \in Handles : IsMade(h) => h \in dumped \/ \E t \in Threads : Has(t, h)
DumpInv == ListedLive /\ MadeFound /\ \A t \in Threads : ListedUpTo(t)

TypeInv == AllocTypeOK /\ \A t \in Threads : PlaceInv(t)

-----------------------------------------------------------------------------
(* Steps before anything is allocated. *)

ThreadOK(r) == /\ r \in ThreadType /\ Len(r.hs) = Len(r.ds)
               /\ r.i \in DOMAIN r.ds \/ r.pc \in {"idle", "free"}

LEMMA ThreadFacts ==
  ASSUME AllocTypeOK, NEW t \in Threads
  PROVE  /\ thr \in [Threads -> ThreadType] /\ ThreadOK(thr[t])
         /\ thr[t].hs \in Seq(Handles \cup {0}) /\ DOMAIN thr[t].hs = DOMAIN thr[t].ds
BY DEF AllocTypeOK, ThreadOK, ThreadType

\* A thread gets further, or gives up; at most globals and what they name change.
GlobalFds ==
  /\ UNCHANGED <<kernel, handles, dumped, given>>
  /\ fds' \in [Fds -> Opened]
  /\ \A k \in Fds : \/ fds'[k] = fds[k]
                    \/ /\ fds[k] \in {Closed, <<"ion", 0>>}
                       /\ fds'[k] \in {Closed, <<"ion", 0>>, <<"system", 0>>, <<"cma", 0>>}
GlobalThread(t) ==
  /\ thr' \in [Threads -> ThreadType] /\ \A u \in Threads \ {t} : thr'[u] = thr[u]
  /\ thr[t].pc \in Early
  /\ ThreadOK(thr'[t]) /\ thr'[t].pc \in Early \cup {"allocate"}
  /\ \A j \in DOMAIN thr'[t].hs : thr'[t].hs[j] = 0
  /\ thr'[t].pc = "idle" => thr'[t].hs = <<>>
  /\ thr'[t].pc = "allocate" /\ ~thr'[t].shared => thr'[t].i = 1
  /\ thr'[t].pc \notin Initializing => thr'[t].fd = -1
  /\ thr'[t].pc \in Initializing =>
       /\ thr'[t].fd \in Fds
       /\ \/ thr[t].pc \in Initializing /\ thr'[t].fd = thr[t].fd
          \/ fds'[thr'[t].fd] = <<"system", 0>> /\ kernel = "dmabuf"
  /\ thr'[t].old = 0 /\ thr'[t].id \in {0, thr[t].id}

LEMMA ThreadUpdate ==
  ASSUME thr \in [Threads -> ThreadType], NEW t \in Threads, NEW r \in ThreadType, thr' = [thr EXCEPT ![t] = r]
  PROVE  thr' \in [Threads -> ThreadType] /\ thr'[t] = r /\ \A u \in Threads \ {t} : thr'[u] = thr[u]
OBVIOUS

LEMMA GoToFacts ==
  ASSUME AllocTypeOK, NEW t \in Threads, NEW p \in Places, thr[t].pc \notin {"idle", "free"}, GoTo(t, p)
  PROVE  /\ thr' \in [Threads -> ThreadType] /\ \A u \in Threads \ {t} : thr'[u] = thr[u]
         /\ ThreadOK(thr'[t]) /\ thr'[t] = [thr[t] EXCEPT !.pc = p]
<1> DEFINE r == [thr[t] EXCEPT !.pc = p]
<1>1. thr \in [Threads -> ThreadType] /\ ThreadOK(thr[t])
  BY ThreadFacts
<1>2. r \in ThreadType
  BY <1>1 DEF ThreadType
<1>3. ThreadOK(r)
  BY <1>1, <1>2 DEF ThreadOK, ThreadType
<1>4. thr' = [thr EXCEPT ![t] = r]
  BY <1>1 DEF GoTo
<1> HIDE DEF r
<1>5. thr' \in [Threads -> ThreadType] /\ thr'[t] = r /\ \A u \in Threads \ {t} : thr'[u] = thr[u]
  BY <1>1, <1>2, <1>4, ThreadUpdate
<1> QED
  BY <1>3, <1>5 DEF r

LEMMA FailFacts ==
  ASSUME AllocTypeOK, NEW t \in Threads, Fail(t)
  PROVE  /\ thr' \in [Threads -> ThreadType] /\ \A u \in Threads \ {t} : thr'[u] = thr[u]
         /\ ThreadOK(thr'[t]) /\ thr'[t] = IdleThread
<1>1. IdleThread \in ThreadType
  BY DEF IdleThread, ThreadType, Places
<1>2. Len(IdleThread.hs) = Len(IdleThread.ds) /\ IdleThread.pc = "idle"
  BY DEF IdleThread
<1>3. thr \in [Threads -> ThreadType]
  BY DEF AllocTypeOK
<1> QED
  BY <1>1, <1>2, <1>3 DEF Fail, ThreadOK

LEMMA SameFds ==
  ASSUME AllocTypeOK, UNCHANGED <<kernel, fds, handles, dumped, given>>
  PROVE  GlobalFds
BY DEF GlobalFds, AllocTypeOK

LEMMA OpenedFds ==
  ASSUME AllocTypeOK, UNCHANGED <<kernel, handles, dumped, given>>, FreeFds # {},
         NEW o \in {<<"ion", 0>>, <<"system", 0>>, <<"cma", 0>>}, fds' = Opens(o, Lowest(FreeFds))
  PROVE  GlobalFds /\ fds'[Lowest(FreeFds)] = o /\ Lowest(FreeFds) \in Fds
<1>1. Lowest(FreeFds) \in Fds /\ fds[Lowest(FreeFds)] = Closed
  BY FreeFdFacts
<1>2. fds \in [Fds -> Opened]
  BY DEF AllocTypeOK
<1>3. o \in Opened
  BY DEF Opened
<1>4. fds' = [fds EXCEPT ![Lowest(FreeFds)] = o]
  BY DEF Opens
<1> QED
  BY <1>1, <1>2, <1>3, <1>4 DEF GlobalFds

LEMMA GoToIsGlobal ==
  ASSUME AllocTypeOK, NEW t \in Threads, PlaceInv(t), GlobalFds,
         NEW p \in Early \ {"idle"}, thr[t].pc \in Early \ {"idle"}, GoTo(t, p),
         (p \in Initializing) <=> (thr[t].pc \in Initializing)
  PROVE  GlobalThread(t)
<1>1. p \in Places
  BY DEF Early, Places
<1>2. /\ thr' \in [Threads -> ThreadType] /\ \A u \in Threads \ {t} : thr'[u] = thr[u]
      /\ ThreadOK(thr'[t]) /\ thr'[t] = [thr[t] EXCEPT !.pc = p]
  BY <1>1, GoToFacts DEF Early
<1>3. ThreadOK(thr[t])
  BY ThreadFacts
<1>4. /\ thr'[t].pc = p /\ thr'[t].hs = thr[t].hs /\ thr'[t].fd = thr[t].fd
      /\ thr'[t].old = thr[t].old /\ thr'[t].id = thr[t].id
  BY <1>2, <1>3 DEF ThreadOK, ThreadType
<1>5. \A j \in DOMAIN thr[t].hs : thr[t].hs[j] = 0
  BY DEF PlaceInv, Slots
<1>6. thr[t].old = 0 /\ (thr[t].pc \notin Initializing => thr[t].fd = -1)
  BY DEF PlaceInv, Early
<1>7. thr[t].pc \in Initializing => thr[t].fd \in Fds
  BY DEF PlaceInv
<1>8. p \notin {"idle", "allocate"} /\ p \in Early
  BY DEF Early
<1> QED
  BY <1>2, <1>4, <1>5, <1>6, <1>7, <1>8 DEF GlobalThread

LEMMA FailIsGlobal ==
  ASSUME AllocTypeOK, NEW t \in Threads, thr[t].pc \in Early, Fail(t)
  PROVE  GlobalThread(t)
<1>1. /\ thr' \in [Threads -> ThreadType] /\ \A u \in Threads \ {t} : thr'[u] = thr[u]
      /\ ThreadOK(thr'[t]) /\ thr'[t] = IdleThread
  BY FailFacts
<1>2. /\ IdleThread.pc = "idle" /\ IdleThread.hs = <<>> /\ IdleThread.fd = -1
      /\ IdleThread.old = 0 /\ IdleThread.id = 0
  BY DEF IdleThread
<1> QED
  BY <1>1, <1>2 DEF GlobalThread, Early, Initializing

\* Up to share.
EarlyStep(t) ==
  \/ mali_gralloc_buffer_allocate(t) \/ test_caps_read(t) \/ lock_caps(t)
  \/ determine_caps(t) \/ restrict_caps(t) \/ publish_caps(t) \/ unlock_caps(t) \/ use_caps(t)
  \/ initialize_interface(t) \/ dma_heap_open_system(t) \/ set_interface_ver(t) \/ set_system_heap(t)
  \/ dma_heap_open_cma(t) \/ ion_open_first(t) \/ find_heaps(t) \/ ion_close(t) \/ forget_client(t)
  \/ reopen_client(t) \/ share(t)

LEMMA OpenIsGlobal ==
  ASSUME AllocTypeOK, NEW t \in Threads, PlaceInv(t), NEW p \in {"heaps", "share"},
         thr[t].pc \in {"ion_open", "client"}, ion_open(t, p)
  PROVE  GlobalFds /\ GlobalThread(t)
<1>1. CASE GoTo(t, p) /\ FreeFds # {} /\ fds' = Opens(<<"ion", 0>>, Lowest(FreeFds))
  <2>1. GlobalFds
    BY <1>1, OpenedFds DEF ion_open
  <2> QED
    BY <2>1, <1>1, GoToIsGlobal DEF Early, Initializing
<1>2. CASE Fail(t) /\ UNCHANGED fds
  <2>1. GlobalFds
    BY <1>2, SameFds DEF ion_open
  <2> QED
    BY <2>1, <1>2, FailIsGlobal DEF Early
<1> QED
  BY <1>1, <1>2 DEF ion_open

LEMMA EarlyIsGlobal ==
  ASSUME AllocTypeOK, NEW t \in Threads, PlaceInv(t), EarlyStep(t)
  PROVE  GlobalFds /\ (GlobalThread(t) \/ (lost' /\ UNCHANGED <<fds, thr, ion, runtime, dropped>>))
<1>0. thr \in [Threads -> ThreadType] /\ ThreadOK(thr[t]) /\ DOMAIN thr[t].hs = DOMAIN thr[t].ds
  BY ThreadFacts
<1>1. CASE mali_gralloc_buffer_allocate(t)
  <2>1. PICK ds \in Calls :
          thr' = [thr EXCEPT ![t] = [IdleThread EXCEPT !.pc = "format", !.ds = ds, !.hs = [i \in 1 .. Len(ds) |-> 0]]]
    BY <1>1 DEF mali_gralloc_buffer_allocate
  <2> DEFINE r == [IdleThread EXCEPT !.pc = "format", !.ds = ds, !.hs = [i \in 1 .. Len(ds) |-> 0]]
  <2>2. /\ r.pc = "format" /\ r.ds = ds /\ r.hs = [i \in 1 .. Len(ds) |-> 0] /\ r.i = 1 /\ r.fd = -1
        /\ r.old = 0 /\ r.id = 0
    BY DEF IdleThread
  <2>3. Len(ds) \in Nat \ {0} /\ DOMAIN ds = 1 .. Len(ds)
    BY CallFacts
  <2>4. [i \in 1 .. Len(ds) |-> 0] \in Seq(Handles \cup {0}) /\ Len([i \in 1 .. Len(ds) |-> 0]) = Len(ds)
    BY <2>3
  <2>5. r \in ThreadType
    BY <2>4 DEF IdleThread, ThreadType, Places
  <2> HIDE DEF r
  <2>6. ThreadOK(r)
    BY <2>2, <2>3, <2>4, <2>5 DEF ThreadOK
  <2>7. thr' \in [Threads -> ThreadType] /\ thr'[t] = r /\ \A u \in Threads \ {t} : thr'[u] = thr[u]
    <3>1. thr' = [thr EXCEPT ![t] = r]
      BY <2>1 DEF r
    <3> QED
      BY <3>1, <1>0, <2>5, ThreadUpdate
  <2>8. GlobalFds
    BY <1>1, SameFds DEF mali_gralloc_buffer_allocate
  <2> QED
    BY <1>1, <2>2, <2>6, <2>7, <2>8 DEF GlobalThread, mali_gralloc_buffer_allocate, At, Early, Initializing
<1>2. CASE test_caps_read(t)
  <2>1. GlobalFds
    BY <1>2, SameFds DEF test_caps_read, At
  <2> QED
    BY <1>2, <2>1, GoToIsGlobal DEF test_caps_read, At, Early, Initializing
<1>3. CASE lock_caps(t)
  <2>1. GlobalFds
    BY <1>3, SameFds DEF lock_caps, At
  <2> QED
    BY <1>3, <2>1, GoToIsGlobal DEF lock_caps, At, Early, Initializing
<1>4. CASE determine_caps(t)
  <2>1. GlobalFds
    BY <1>4, SameFds DEF determine_caps, At
  <2> QED
    BY <1>4, <2>1, GoToIsGlobal DEF determine_caps, At, Early, Initializing
<1>5. CASE restrict_caps(t)
  <2>1. GlobalFds
    BY <1>5, SameFds DEF restrict_caps, At
  <2> QED
    BY <1>5, <2>1, GoToIsGlobal DEF restrict_caps, At, Early, Initializing
<1>6. CASE publish_caps(t)
  <2>1. GlobalFds
    BY <1>6, SameFds DEF publish_caps, At
  <2> QED
    BY <1>6, <2>1, GoToIsGlobal DEF publish_caps, At, Early, Initializing
<1>7. CASE unlock_caps(t)
  <2>1. GlobalFds
    BY <1>7, SameFds DEF unlock_caps, At
  <2> QED
    BY <1>7, <2>1, GoToIsGlobal DEF unlock_caps, At, Early, Initializing
<1>8. CASE use_caps(t)
  <2>1. GlobalFds
    BY <1>8, SameFds DEF use_caps, At
  <2> QED
    BY <1>8, <2>1, GoToIsGlobal DEF use_caps, At, Early, Initializing
<1>9. CASE initialize_interface(t)
  <2>1. GlobalFds
    BY <1>9, SameFds DEF initialize_interface, At, unchangedButIon
  <2> QED
    BY <1>9, <2>1, GoToIsGlobal DEF initialize_interface, At, unchangedButIon, Early, Initializing
<1>10. CASE set_interface_ver(t)
  <2>1. GlobalFds
    BY <1>10, SameFds DEF set_interface_ver, At, unchangedButIon
  <2> QED
    BY <1>10, <2>1, GoToIsGlobal DEF set_interface_ver, At, unchangedButIon, Early, Initializing
<1>11. CASE set_system_heap(t)
  <2>1. GlobalFds
    BY <1>11, SameFds DEF set_system_heap, At
  <2> QED
    BY <1>11, <2>1, GoToIsGlobal DEF set_system_heap, At, Early, Initializing
<1>12. CASE find_heaps(t)
  <2>1. GlobalFds
    BY <1>12, SameFds DEF find_heaps, At, unchangedButIon
  <2> QED
    BY <1>12, <2>1, GoToIsGlobal DEF find_heaps, At, unchangedButIon, Early, Initializing
<1>13. CASE dma_heap_open_system(t)
  <2>1. CASE GoTo(t, "ion_open") /\ UNCHANGED fds
    <3>1. GlobalFds
      BY <1>13, <2>1, SameFds DEF dma_heap_open_system, unchangedButIon
    <3> QED
      BY <1>13, <2>1, <3>1, GoToIsGlobal DEF dma_heap_open_system, At, Early, Initializing
  <2>2. CASE /\ kernel = "dmabuf" /\ FreeFds # {} /\ fds' = Opens(<<"system", 0>>, Lowest(FreeFds))
             /\ thr' = [thr EXCEPT ![t].pc = "version", ![t].fd = Lowest(FreeFds)]
    <3> DEFINE k == Lowest(FreeFds)
               r == [thr[t] EXCEPT !.pc = "version", !.fd = k]
    <3>1. GlobalFds /\ fds'[k] = <<"system", 0>> /\ k \in Fds
      BY <1>13, <2>2, OpenedFds DEF dma_heap_open_system, unchangedButIon
    <3> HIDE DEF k
    <3>2. r \in ThreadType /\ ThreadOK(r)
      BY <1>0, <3>1, <1>13 DEF ThreadType, ThreadOK, Places, dma_heap_open_system, At
    <3>3. thr' = [thr EXCEPT ![t] = r]
      BY <1>0, <2>2 DEF k
    <3>4. r.pc = "version" /\ r.fd = k /\ r.hs = thr[t].hs /\ r.old = thr[t].old /\ r.id = thr[t].id
      BY <1>0 DEF ThreadOK, ThreadType
    <3> HIDE DEF r
    <3>5. thr' \in [Threads -> ThreadType] /\ thr'[t] = r /\ \A u \in Threads \ {t} : thr'[u] = thr[u]
      BY <1>0, <3>2, <3>3, ThreadUpdate
    <3>6. thr[t].old = 0 /\ thr[t].pc = "probe" /\ \A j \in DOMAIN thr[t].hs : thr[t].hs[j] = 0
      BY <1>13 DEF PlaceInv, Slots, dma_heap_open_system, At, Early
    <3> QED
      BY <2>2, <3>1, <3>2, <3>4, <3>5, <3>6 DEF GlobalThread, Early, Initializing
  <2> QED
    BY <1>13, <2>1, <2>2 DEF dma_heap_open_system
<1>14. CASE dma_heap_open_cma(t)
  <2> DEFINE r == [thr[t] EXCEPT !.pc = "client", !.fd = -1]
  <2>1. GlobalFds
    <3>1. CASE FreeFds # {} /\ fds' = Opens(<<"cma", 0>>, Lowest(FreeFds))
      BY <1>14, <3>1, OpenedFds DEF dma_heap_open_cma
    <3>2. CASE UNCHANGED fds
      BY <1>14, <3>2, SameFds DEF dma_heap_open_cma
    <3> QED
      BY <1>14, <3>1, <3>2 DEF dma_heap_open_cma
  <2>2. r \in ThreadType /\ ThreadOK(r)
    BY <1>0, <1>14 DEF ThreadType, ThreadOK, Places, dma_heap_open_cma, At
  <2>3. thr' = [thr EXCEPT ![t] = r]
    BY <1>0, <1>14 DEF dma_heap_open_cma
  <2>4. r.pc = "client" /\ r.fd = -1 /\ r.hs = thr[t].hs /\ r.old = thr[t].old /\ r.id = thr[t].id
    BY <1>0 DEF ThreadOK, ThreadType
  <2> HIDE DEF r
  <2>5. thr' \in [Threads -> ThreadType] /\ thr'[t] = r /\ \A u \in Threads \ {t} : thr'[u] = thr[u]
    BY <1>0, <2>2, <2>3, ThreadUpdate
  <2>6. thr[t].old = 0 /\ thr[t].pc = "cma" /\ \A j \in DOMAIN thr[t].hs : thr[t].hs[j] = 0
    BY <1>14 DEF PlaceInv, Slots, dma_heap_open_cma, At, Early
  <2> QED
    BY <2>1, <2>2, <2>4, <2>5, <2>6 DEF GlobalThread, Early, Initializing
<1>15. CASE ion_open_first(t)
  BY <1>15, OpenIsGlobal DEF ion_open_first, At
<1>16. CASE ion_close(t)
  <2>1. CASE lost' = TRUE /\ UNCHANGED <<fds, thr>>
    BY <1>16, <2>1, SameFds DEF ion_close
  <2>2. CASE /\ ~(ion.client >= 0 /\ fds[ion.client] \notin {Closed, <<"ion", 0>>})
             /\ fds' = (IF ion.client < 0 THEN fds ELSE Opens(Closed, ion.client)) /\ GoTo(t, "forget")
    <3>1. ion.client \in Fds \cup {-1} /\ fds \in [Fds -> Opened] /\ Closed \in Opened
      BY DEF AllocTypeOK, Closed, Opened
    <3>2. GlobalFds
      BY <1>16, <2>2, <3>1 DEF ion_close, GlobalFds, Opens, Fds
    <3> QED
      BY <1>16, <2>2, <3>2, GoToIsGlobal DEF ion_close, At, Early, Initializing
  <2> QED
    BY <1>16, <2>1, <2>2 DEF ion_close
<1>17. CASE forget_client(t)
  <2>1. GlobalFds
    BY <1>17, SameFds DEF forget_client
  <2> QED
    BY <1>17, <2>1, FailIsGlobal DEF forget_client, At, Early
<1>18. CASE reopen_client(t)
  <2>1. CASE GoTo(t, "share") /\ UNCHANGED <<ion, fds>> /\ unchangedButIon
    <3>1. GlobalFds
      BY <2>1, SameFds DEF unchangedButIon
    <3> QED
      BY <1>18, <2>1, <3>1, GoToIsGlobal DEF reopen_client, At, Early, Initializing
  <2>2. CASE ion_open(t, "share")
    BY <1>18, <2>2, OpenIsGlobal DEF reopen_client, At
  <2> QED
    BY <1>18, <2>1, <2>2 DEF reopen_client
<1>19. CASE share(t)
  <2>1. PICK shared \in check_buffers_sharable(thr[t].ds) :
          thr' = [thr EXCEPT ![t].shared = shared, ![t].pc = "allocate",
                             ![t].i = IF shared THEN get_max_buffer_descriptor_index(thr[t].ds) ELSE 1]
    BY <1>19 DEF share
  <2> DEFINE k == IF shared THEN get_max_buffer_descriptor_index(thr[t].ds) ELSE 1
             r == [thr[t] EXCEPT !.shared = shared, !.pc = "allocate", !.i = k]
  <2>2. shared \in BOOLEAN
    BY DEF check_buffers_sharable
  <2>3. thr[t].pc = "share" /\ thr[t].ds \in Calls
    <3>1. thr[t].i \in DOMAIN thr[t].ds
      BY <1>0, <1>19 DEF ThreadOK, share, At
    <3> QED
      BY <3>1, <1>0, <1>19 DEF ThreadOK, ThreadType, share, At
  <2>4. k \in DOMAIN thr[t].ds /\ k \in Nat
    <3>1. Len(thr[t].ds) \in Nat \ {0} /\ DOMAIN thr[t].ds = 1 .. Len(thr[t].ds)
      BY <2>3, CallFacts
    <3>2. get_max_buffer_descriptor_index(thr[t].ds) \in DOMAIN thr[t].ds
      BY <2>3, LargestIsThere
    <3> QED
      BY <3>1, <3>2
  <2>5. thr' = [thr EXCEPT ![t] = r]
    BY <1>0, <2>1
  <2> HIDE DEF k
  <2>6. r \in ThreadType /\ ThreadOK(r)
    BY <1>0, <2>2, <2>4 DEF ThreadType, ThreadOK, Places
  <2>7. r.pc = "allocate" /\ r.shared = shared /\ r.i = k /\ r.fd = thr[t].fd /\ r.hs = thr[t].hs /\ r.old = thr[t].old /\ r.id = thr[t].id
    BY <1>0 DEF ThreadOK, ThreadType
  <2> HIDE DEF r
  <2>8. thr' \in [Threads -> ThreadType] /\ thr'[t] = r /\ \A u \in Threads \ {t} : thr'[u] = thr[u]
    BY <1>0, <2>5, <2>6, ThreadUpdate
  <2>9. thr[t].old = 0 /\ thr[t].fd = -1 /\ \A j \in DOMAIN thr[t].hs : thr[t].hs[j] = 0
    BY <2>3 DEF PlaceInv, Slots, Early, Initializing
  <2>10. GlobalFds
    BY <1>19, SameFds DEF share, unchangedButIon
  <2> QED
    BY <2>3, <2>6, <2>7, <2>8, <2>9, <2>10 DEF GlobalThread, Early, Initializing, k
<1> QED
  BY <1>1, <1>2, <1>3, <1>4, <1>5, <1>6, <1>7, <1>8, <1>9, <1>10, <1>11, <1>12, <1>13, <1>14, <1>15, <1>16, <1>17, <1>18, <1>19 DEF EarlyStep

-----------------------------------------------------------------------------
(* Steps of the loops that allocate, map and number. *)

HandleType == [state : {"none", "made", "zeroed"}, share_fd : Fds, attr_fd : Fds \cup {-1}, base : Nat, id : Nat]
NewHandle(k) == [NoHandle EXCEPT !.state = "made", !.share_fd = k, !.attr_fd = -1]

OnlyThread(t) ==
  /\ thr' \in [Threads -> ThreadType] /\ \A u \in Threads \ {t} : thr'[u] = thr[u]
  /\ ThreadOK(thr'[t])
SameCall(t) ==
  /\ thr'[t].ds = thr[t].ds /\ thr'[t].shared = thr[t].shared /\ thr'[t].old = thr[t].old
NextSlot(t, p, q) ==
  IF thr[t].i = Len(thr[t].ds) THEN thr'[t].pc = q /\ thr'[t].i = 1 ELSE thr'[t].pc = p /\ thr'[t].i = thr[t].i + 1

LEMMA NewHandleFacts ==
  ASSUME NEW k \in Fds
  PROVE  /\ NewHandle(k) \in HandleType /\ NewHandle(k).state = "made" /\ NewHandle(k).share_fd = k
         /\ NewHandle(k).attr_fd = -1 /\ NewHandle(k).base = 0 /\ NewHandle(k).id = 0
BY DEF NewHandle, NoHandle, HandleType

LEMMA NoHandleFacts ==
  /\ NoHandle \in HandleType /\ NoHandle.state = "none" /\ NoHandle.id = 0
  /\ ZeroHandle \in HandleType /\ ZeroHandle.state = "zeroed" /\ ZeroHandle.id = 0
BY GrallocAllocationAssumption DEF NoHandle, ZeroHandle, HandleType, Fds

LEMMA CallInLoop ==
  ASSUME AllocTypeOK, NEW t \in Threads, thr[t].pc \notin {"idle", "free"}
  PROVE  /\ thr[t].ds \in Calls /\ thr[t].i \in DOMAIN thr[t].ds /\ Len(thr[t].ds) \in Nat \ {0}
         /\ DOMAIN thr[t].ds = 1 .. Len(thr[t].ds) /\ DOMAIN thr[t].hs = 1 .. Len(thr[t].ds)
         /\ thr[t].hs \in Seq(Handles \cup {0}) /\ Largest(t) \in 1 .. Len(thr[t].ds)
<1>1. ThreadOK(thr[t]) /\ thr[t].hs \in Seq(Handles \cup {0}) /\ DOMAIN thr[t].hs = DOMAIN thr[t].ds
  BY ThreadFacts
<1>2. thr[t].i \in DOMAIN thr[t].ds
  BY <1>1 DEF ThreadOK
<1>3. thr[t].ds \in Calls
  BY <1>1, <1>2 DEF ThreadOK, ThreadType
<1>4. Len(thr[t].ds) \in Nat \ {0} /\ DOMAIN thr[t].ds = 1 .. Len(thr[t].ds)
  BY <1>3, CallFacts
<1>5. Largest(t) \in DOMAIN thr[t].ds
  BY <1>3, LargestIsThere DEF Largest
<1> QED
  BY <1>1, <1>2, <1>3, <1>4, <1>5

LEMMA TypedState ==
  ASSUME AllocTypeOK
  PROVE  /\ thr \in [Threads -> ThreadType] /\ fds \in [Fds -> Opened] /\ handles \in [Handles -> HandleType]
         /\ given.buffers \in Nat /\ given.ids \in Nat /\ given \in [buffers : Nat, ids : Nat]
BY DEF AllocTypeOK, HandleType

LEMMA SlotUpdate ==
  ASSUME AllocTypeOK, NEW t \in Threads, thr[t].pc \notin {"idle", "free"}, NEW h \in Handles \cup {0}
  PROVE  /\ [thr[t].hs EXCEPT ![thr[t].i] = h] \in Seq(Handles \cup {0})
         /\ Len([thr[t].hs EXCEPT ![thr[t].i] = h]) = Len(thr[t].ds)
         /\ DOMAIN [thr[t].hs EXCEPT ![thr[t].i] = h] = 1 .. Len(thr[t].ds)
<1>1. /\ thr[t].i \in DOMAIN thr[t].ds /\ Len(thr[t].ds) \in Nat \ {0} /\ thr[t].hs \in Seq(Handles \cup {0})
      /\ DOMAIN thr[t].ds = 1 .. Len(thr[t].ds) /\ DOMAIN thr[t].hs = 1 .. Len(thr[t].ds)
  BY CallInLoop
<1>2. Len(thr[t].hs) = Len(thr[t].ds)
  BY ThreadFacts DEF ThreadOK
<1> QED
  BY <1>1, <1>2

\* The thread after a step of a loop: f is its descriptor, s its handles, b its backing store id.
Moved(r, p, n, s, f, b) == [r EXCEPT !.pc = p, !.i = n, !.hs = s, !.fd = f, !.id = b]
MovesTo(t, p, n, s, f, b) == thr' = [thr EXCEPT ![t] = Moved(thr[t], p, n, s, f, b)]
Moves(t) ==
  \A p \in Places, n \in DOMAIN thr[t].ds, s \in Seq(Handles \cup {0}), f \in Fds \cup {-1}, b \in Nat :
    Len(s) = Len(thr[t].ds) /\ MovesTo(t, p, n, s, f, b) =>
      /\ OnlyThread(t) /\ SameCall(t)
      /\ thr'[t].pc = p /\ thr'[t].i = n /\ thr'[t].hs = s /\ thr'[t].fd = f /\ thr'[t].id = b

LEMMA LoopUpdate ==
  ASSUME AllocTypeOK, NEW t \in Threads, thr[t].pc \notin {"idle", "free"}
  PROVE  Moves(t)
<1> SUFFICES ASSUME NEW p \in Places, NEW n \in DOMAIN thr[t].ds, NEW s \in Seq(Handles \cup {0}),
                    NEW f \in Fds \cup {-1}, NEW b \in Nat, Len(s) = Len(thr[t].ds),
                    MovesTo(t, p, n, s, f, b)
             PROVE  /\ OnlyThread(t) /\ SameCall(t)
                    /\ thr'[t].pc = p /\ thr'[t].i = n /\ thr'[t].hs = s /\ thr'[t].fd = f /\ thr'[t].id = b
  BY DEF Moves
<1> DEFINE r == Moved(thr[t], p, n, s, f, b)
<1>1. thr \in [Threads -> ThreadType] /\ ThreadOK(thr[t])
  BY ThreadFacts
<1>2. n \in Nat
  BY CallInLoop
<1>3. r \in ThreadType
  BY <1>1, <1>2 DEF ThreadOK, ThreadType, Moved
<1>4. /\ r.pc = p /\ r.i = n /\ r.hs = s /\ r.fd = f /\ r.id = b
      /\ r.ds = thr[t].ds /\ r.shared = thr[t].shared /\ r.old = thr[t].old
  BY <1>1 DEF ThreadOK, ThreadType, Moved
<1> HIDE DEF r
<1>5. thr' \in [Threads -> ThreadType] /\ thr'[t] = r /\ \A u \in Threads \ {t} : thr'[u] = thr[u]
  <2>1. thr' = [thr EXCEPT ![t] = r]
    BY DEF r, MovesTo
  <2> QED
    BY <2>1, <1>1, <1>3, ThreadUpdate
<1> QED
  BY <1>3, <1>4, <1>5 DEF OnlyThread, SameCall, ThreadOK

LEMMA GiveUpFacts ==
  ASSUME AllocTypeOK, NEW t \in Threads, thr[t].pc \notin {"idle", "free"}, GiveUp(t)
  PROVE  /\ OnlyThread(t) /\ SameCall(t)
         /\ thr'[t].pc = "undo" /\ thr'[t].i = 1 /\ thr'[t].hs = thr[t].hs /\ thr'[t].fd = -1 /\ thr'[t].id = thr[t].id
<1>1. thr \in [Threads -> ThreadType] /\ ThreadOK(thr[t]) /\ thr[t].hs \in Seq(Handles \cup {0})
  BY ThreadFacts
<1>2. 1 \in DOMAIN thr[t].ds
  BY CallInLoop
<1>3. MovesTo(t, "undo", 1, thr[t].hs, -1, thr[t].id)
  BY <1>1 DEF GiveUp, ThreadOK, ThreadType, Moved, MovesTo
<1>4. "undo" \in Places /\ thr[t].id \in Nat /\ Len(thr[t].hs) = Len(thr[t].ds)
  BY <1>1 DEF Places, ThreadOK, ThreadType
<1>5. Moves(t)
  BY LoopUpdate
<1> DEFINE p == "undo"
           n == 1
           f == -1
           s == thr[t].hs
           b == thr[t].id
<1>6. /\ n \in DOMAIN thr[t].ds /\ p \in Places /\ f \in Fds \cup {-1} /\ s \in Seq(Handles \cup {0}) /\ b \in Nat
      /\ Len(s) = Len(thr[t].ds) /\ MovesTo(t, p, n, s, f, b)
  BY <1>1, <1>2, <1>3, <1>4
<1> HIDE DEF p, n, f, s, b
<1>7. /\ OnlyThread(t) /\ SameCall(t)
      /\ thr'[t].pc = p /\ thr'[t].i = n /\ thr'[t].hs = s /\ thr'[t].fd = f /\ thr'[t].id = b
  BY <1>5, <1>6, Zenon DEF Moves
<1> QED
  BY <1>7 DEF p, n, f, s, b

\* A new dma-buf in the lowest free descriptor.
NewBuffer == <<"buffer", given.buffers + 1>>

LEMMA AllocateOwnFacts ==
  ASSUME AllocTypeOK, NEW t \in Threads, allocate_own(t)
  PROVE  LET i == thr[t].i
             k == Lowest(FreeFds)
             h == FreshHandle
         IN /\ thr[t].pc = "allocate" /\ ~thr[t].shared
            /\ k \in Fds /\ fds[k] = Closed /\ h \in Handles /\ handles[h].state = "none"
            /\ OnlyThread(t) /\ SameCall(t) /\ NextSlot(t, "allocate", "map")
            /\ thr'[t].hs = [thr[t].hs EXCEPT ![i] = h] /\ thr'[t].fd = thr[t].fd /\ thr'[t].id = thr[t].id
            /\ fds' = [fds EXCEPT ![k] = NewBuffer] /\ handles' = [handles EXCEPT ![h] = NewHandle(k)]
            /\ given' = [given EXCEPT !.buffers = given.buffers + 1]
            /\ UNCHANGED <<kernel, runtime, ion, dumped, dropped, calls, lost>>
<1> DEFINE i == thr[t].i
           k == Lowest(FreeFds)
           h == FreshHandle
           last == i = Len(thr[t].ds)
           s == [thr[t].hs EXCEPT ![i] = h]
           n == IF last THEN 1 ELSE i + 1
           p == IF last THEN "map" ELSE "allocate"
<1>0. thr[t].pc = "allocate"
  BY DEF allocate_own, At
<1>1. k \in Fds /\ fds[k] = Closed
  BY FreeFdFacts DEF allocate_own, CanAllocate
<1>2. h \in Handles /\ handles[h].state = "none"
  BY FreshHandleFacts DEF allocate_own, Adopt
<1>3. /\ thr[t].i \in DOMAIN thr[t].ds /\ Len(thr[t].ds) \in Nat \ {0} /\ DOMAIN thr[t].ds = 1 .. Len(thr[t].ds)
  BY <1>0, CallInLoop
<1>4. n \in DOMAIN thr[t].ds /\ p \in Places
  BY <1>3 DEF Places
<1>5. s \in Seq(Handles \cup {0}) /\ Len(s) = Len(thr[t].ds)
  BY <1>0, <1>2, SlotUpdate
<1>6. thr[t].fd \in Fds \cup {-1} /\ thr[t].id \in Nat /\ thr \in [Threads -> ThreadType] /\ thr[t] \in ThreadType
  BY ThreadFacts DEF ThreadOK, ThreadType
<1>7. thr' = [thr EXCEPT ![t].hs[i] = h, ![t].i = n, ![t].pc = p]
  BY DEF allocate_own
<1> HIDE DEF n, p, h
<1>8. MovesTo(t, p, n, s, thr[t].fd, thr[t].id)
  BY <1>6, <1>7 DEF Moved, MovesTo, ThreadType
<1>9. Moves(t)
  BY <1>0, LoopUpdate
<1> HIDE DEF s
<1>10. /\ OnlyThread(t) /\ SameCall(t)
       /\ thr'[t].pc = p /\ thr'[t].i = n /\ thr'[t].hs = s /\ thr'[t].fd = thr[t].fd /\ thr'[t].id = thr[t].id
  BY <1>4, <1>5, <1>6, <1>8, <1>9 DEF Moves
<1>11. NextSlot(t, "allocate", "map")
  BY <1>10 DEF NextSlot, n, p
<1>12. fds' = [fds EXCEPT ![k] = NewBuffer]
  BY DEF allocate_own, Opens, NewBuffer, FreshBuffer
<1>13. handles' = [handles EXCEPT ![h] = NewHandle(k)]
  BY DEF allocate_own, Adopt, NewHandle, h
<1>14. given' = [given EXCEPT !.buffers = given.buffers + 1] /\ UNCHANGED <<kernel, runtime, ion, dumped, dropped, calls, lost>>
  BY DEF allocate_own, FreshBuffer
<1> QED
  BY <1>0, <1>1, <1>2, <1>10, <1>11, <1>12, <1>13, <1>14 DEF allocate_own, s, h

LEMMA AllocateSharedFacts ==
  ASSUME AllocTypeOK, NEW t \in Threads, allocate_shared(t)
  PROVE  LET k == Lowest(FreeFds)
         IN /\ thr[t].pc = "allocate" /\ thr[t].shared
            /\ k \in Fds /\ fds[k] = Closed
            /\ OnlyThread(t) /\ SameCall(t)
            /\ thr'[t].pc = "dup" /\ thr'[t].i = 1 /\ thr'[t].hs = thr[t].hs /\ thr'[t].fd = k /\ thr'[t].id = thr[t].id
            /\ fds' = [fds EXCEPT ![k] = NewBuffer]
            /\ given' = [given EXCEPT !.buffers = given.buffers + 1]
            /\ UNCHANGED <<kernel, runtime, ion, handles, dumped, dropped, calls, lost>>
<1> DEFINE k == Lowest(FreeFds)
<1>0. thr[t].pc = "allocate" /\ thr[t].shared
  BY DEF allocate_shared, At
<1>1. k \in Fds /\ fds[k] = Closed
  BY FreeFdFacts DEF allocate_shared, CanAllocate
<1>2. 1 \in DOMAIN thr[t].ds
  BY <1>0, CallInLoop
<1>3. /\ thr[t].id \in Nat /\ thr \in [Threads -> ThreadType] /\ thr[t] \in ThreadType
      /\ thr[t].hs \in Seq(Handles \cup {0}) /\ Len(thr[t].hs) = Len(thr[t].ds)
  BY ThreadFacts DEF ThreadOK, ThreadType
<1>4. thr' = [thr EXCEPT ![t].pc = "dup", ![t].fd = k, ![t].i = 1]
  BY DEF allocate_shared
<1> HIDE DEF k
<1>5. MovesTo(t, "dup", 1, thr[t].hs, k, thr[t].id)
  BY <1>3, <1>4 DEF Moved, MovesTo, ThreadType
<1>6. Moves(t)
  BY <1>0, LoopUpdate
<1>7. "dup" \in Places /\ k \in Fds \cup {-1}
  BY <1>1 DEF Places
<1>8. /\ OnlyThread(t) /\ SameCall(t)
      /\ thr'[t].pc = "dup" /\ thr'[t].i = 1 /\ thr'[t].hs = thr[t].hs /\ thr'[t].fd = k /\ thr'[t].id = thr[t].id
  <2> DEFINE p == "dup"
             n == 1
             s == thr[t].hs
             b == thr[t].id
  <2>1. /\ p \in Places /\ n \in DOMAIN thr[t].ds /\ s \in Seq(Handles \cup {0}) /\ b \in Nat
        /\ Len(s) = Len(thr[t].ds) /\ MovesTo(t, p, n, s, k, b)
    BY <1>2, <1>3, <1>5, <1>7
  <2> HIDE DEF p, n, s, b
  <2>2. /\ OnlyThread(t) /\ SameCall(t)
        /\ thr'[t].pc = p /\ thr'[t].i = n /\ thr'[t].hs = s /\ thr'[t].fd = k /\ thr'[t].id = b
    BY <1>6, <1>7, <2>1, Zenon DEF Moves
  <2> QED
    BY <2>2 DEF p, n, s, b
<1>9. fds' = [fds EXCEPT ![k] = NewBuffer]
  BY DEF allocate_shared, Opens, NewBuffer, FreshBuffer, k
<1>10. given' = [given EXCEPT !.buffers = given.buffers + 1] /\ UNCHANGED <<kernel, runtime, ion, handles, dumped, dropped, calls, lost>>
  BY DEF allocate_shared, FreshBuffer
<1> QED
  BY <1>0, <1>1, <1>8, <1>9, <1>10 DEF k

\* dup_shared gives a handle to a buffer: the first of the descriptors, or a duplicate.
DupAdopts(t, k) ==
  LET i == thr[t].i
      h == FreshHandle
  IN /\ h \in Handles /\ handles[h].state = "none"
     /\ OnlyThread(t) /\ SameCall(t) /\ NextSlot(t, "dup", "map")
     /\ thr'[t].hs = [thr[t].hs EXCEPT ![i] = h]
     /\ thr'[t].fd = (IF i = Len(thr[t].ds) THEN -1 ELSE thr[t].fd) /\ thr'[t].id = thr[t].id
     /\ handles' = [handles EXCEPT ![h] = NewHandle(k)]
     /\ UNCHANGED dropped

Adopts(t, h, n, p, f) == thr' = [thr EXCEPT ![t].hs[thr[t].i] = h, ![t].i = n, ![t].pc = p, ![t].fd = f]

LEMMA SlotStep ==
  ASSUME AllocTypeOK, NEW t \in Threads, thr[t].pc \notin {"idle", "free"}, NEW h \in Handles \cup {0},
         NEW n \in DOMAIN thr[t].ds, NEW p \in Places, NEW f \in Fds \cup {-1},
         Adopts(t, h, n, p, f)
  PROVE  /\ OnlyThread(t) /\ SameCall(t)
         /\ thr'[t].pc = p /\ thr'[t].i = n /\ thr'[t].hs = [thr[t].hs EXCEPT ![thr[t].i] = h]
         /\ thr'[t].fd = f /\ thr'[t].id = thr[t].id
<1> DEFINE s == [thr[t].hs EXCEPT ![thr[t].i] = h]
<1>1. s \in Seq(Handles \cup {0}) /\ Len(s) = Len(thr[t].ds)
  BY SlotUpdate
<1>2. thr[t].id \in Nat /\ thr \in [Threads -> ThreadType] /\ thr[t] \in ThreadType
  BY ThreadFacts DEF ThreadOK, ThreadType
<1>3. MovesTo(t, p, n, s, f, thr[t].id)
  BY <1>2 DEF Moved, MovesTo, Adopts, ThreadType
<1>4. Moves(t)
  BY LoopUpdate
<1> HIDE DEF s
<1>5. /\ OnlyThread(t) /\ SameCall(t)
      /\ thr'[t].pc = p /\ thr'[t].i = n /\ thr'[t].hs = s /\ thr'[t].fd = f /\ thr'[t].id = thr[t].id
  BY <1>1, <1>2, <1>3, <1>4, Zenon DEF Moves
<1> QED
  BY <1>5 DEF s

LEMMA DupAdoptsFacts ==
  ASSUME AllocTypeOK, NEW t \in Threads, NEW k \in Fds, thr[t].pc = "dup", Adopt(k), UNCHANGED dropped,
         Adopts(t, FreshHandle, IF thr[t].i = Len(thr[t].ds) THEN 1 ELSE thr[t].i + 1,
                IF thr[t].i = Len(thr[t].ds) THEN "map" ELSE "dup", IF thr[t].i = Len(thr[t].ds) THEN -1 ELSE thr[t].fd)
  PROVE  DupAdopts(t, k)
<1> DEFINE h == FreshHandle
           n == IF thr[t].i = Len(thr[t].ds) THEN 1 ELSE thr[t].i + 1
           p == IF thr[t].i = Len(thr[t].ds) THEN "map" ELSE "dup"
           f == IF thr[t].i = Len(thr[t].ds) THEN -1 ELSE thr[t].fd
<1>1. h \in Handles /\ handles[h].state = "none"
  BY FreshHandleFacts DEF Adopt
<1>2. /\ thr[t].i \in DOMAIN thr[t].ds /\ Len(thr[t].ds) \in Nat \ {0} /\ DOMAIN thr[t].ds = 1 .. Len(thr[t].ds)
  BY CallInLoop
<1>3. n \in DOMAIN thr[t].ds /\ p \in Places
  BY <1>2 DEF Places
<1>4. f \in Fds \cup {-1}
  BY ThreadFacts DEF ThreadOK, ThreadType
<1>5. Adopts(t, h, n, p, f)
  OBVIOUS
<1> HIDE DEF h, n, p, f
<1>6. /\ OnlyThread(t) /\ SameCall(t)
      /\ thr'[t].pc = p /\ thr'[t].i = n /\ thr'[t].hs = [thr[t].hs EXCEPT ![thr[t].i] = h]
      /\ thr'[t].fd = f /\ thr'[t].id = thr[t].id
  <2>1. h \in Handles \cup {0} /\ thr[t].pc \notin {"idle", "free"}
    BY <1>1
  <2> QED
    BY <1>3, <1>4, <1>5, <2>1, SlotStep, Zenon
<1>7. NextSlot(t, "dup", "map")
  BY <1>6 DEF NextSlot, n, p
<1>8. handles' = [handles EXCEPT ![h] = NewHandle(k)]
  BY DEF Adopt, NewHandle, h
<1> QED
  BY <1>1, <1>6, <1>7, <1>8 DEF DupAdopts, h, f

LEMMA DupFacts ==
  ASSUME AllocTypeOK, NEW t \in Threads, PlaceInv(t), dup_shared(t)
  PROVE  /\ thr[t].pc = "dup" /\ UNCHANGED <<kernel, runtime, ion, dumped, given, calls, lost>>
         /\ \/ /\ thr[t].i = Largest(t) /\ DupAdopts(t, thr[t].fd) /\ UNCHANGED fds
            \/ /\ thr[t].i # Largest(t) /\ Lowest(FreeFds) \in Fds /\ fds[Lowest(FreeFds)] = Closed
               /\ DupAdopts(t, Lowest(FreeFds)) /\ fds' = [fds EXCEPT ![Lowest(FreeFds)] = fds[thr[t].fd]]
            \/ /\ GiveUp(t) /\ UNCHANGED <<fds, handles>>
               /\ dropped' = IF thr[t].i < Largest(t) THEN dropped \cup {thr[t].fd} ELSE dropped
               /\ thr[t].i # Largest(t)
<1>0. thr[t].pc = "dup" /\ UNCHANGED <<kernel, runtime, ion, dumped, given, calls, lost>>
  BY DEF dup_shared, At
<1>1. thr[t].fd \in Fds
  BY <1>0 DEF PlaceInv
<1> DEFINE goOn ==
      Adopts(t, FreshHandle, IF thr[t].i = Len(thr[t].ds) THEN 1 ELSE thr[t].i + 1,
             IF thr[t].i = Len(thr[t].ds) THEN "map" ELSE "dup", IF thr[t].i = Len(thr[t].ds) THEN -1 ELSE thr[t].fd)
<1>2. \/ thr[t].i = Largest(t) /\ Adopt(thr[t].fd) /\ goOn /\ UNCHANGED <<fds, dropped>>
      \/ /\ thr[t].i # Largest(t) /\ FreeFds # {} /\ fds' = Opens(fds[thr[t].fd], Lowest(FreeFds))
         /\ Adopt(Lowest(FreeFds)) /\ goOn /\ UNCHANGED dropped
      \/ /\ thr[t].i # Largest(t) /\ dropped' = (IF thr[t].i < Largest(t) THEN dropped \cup {thr[t].fd} ELSE dropped)
         /\ GiveUp(t) /\ UNCHANGED <<fds, handles>>
  BY Zenon DEF dup_shared, Largest, Adopts
<1>3. CASE thr[t].i = Largest(t) /\ Adopt(thr[t].fd) /\ goOn /\ UNCHANGED <<fds, dropped>>
  BY <1>0, <1>1, <1>3, DupAdoptsFacts
<1>4. CASE /\ thr[t].i # Largest(t) /\ FreeFds # {} /\ fds' = Opens(fds[thr[t].fd], Lowest(FreeFds))
           /\ Adopt(Lowest(FreeFds)) /\ goOn /\ UNCHANGED dropped
  <2>1. Lowest(FreeFds) \in Fds /\ fds[Lowest(FreeFds)] = Closed
    BY <1>4, FreeFdFacts
  <2> QED
    BY <1>0, <2>1, <1>4, DupAdoptsFacts DEF Opens
<1> QED
  BY <1>0, <1>2, <1>3, <1>4

LEMMA GoesOn ==
  ASSUME AllocTypeOK, NEW t \in Threads, thr[t].pc \notin {"idle", "free"}, NEW p \in Places,
         NEW n \in DOMAIN thr[t].ds, NEW s \in Seq(Handles \cup {0}), NEW f \in Fds \cup {-1}, NEW b \in Nat,
         Len(s) = Len(thr[t].ds), MovesTo(t, p, n, s, f, b)
  PROVE  /\ OnlyThread(t) /\ SameCall(t)
         /\ thr'[t].pc = p /\ thr'[t].i = n /\ thr'[t].hs = s /\ thr'[t].fd = f /\ thr'[t].id = b
<1>1. Moves(t)
  BY LoopUpdate
<1> QED
  BY <1>1, Zenon DEF Moves

\* A handle that is changed, a file descriptor that is.
SetHandle(h, r) == handles' \in [Handles -> HandleType] /\ handles'[h] = r /\ \A g \in Handles \ {h} : handles'[g] = handles[g]
SetFd(k, o) == fds' \in [Fds -> Opened] /\ fds'[k] = o /\ \A l \in Fds \ {k} : fds'[l] = fds[l]

LEMMA HandleUpdate ==
  ASSUME AllocTypeOK, NEW h \in Handles, NEW r \in HandleType, handles' = [handles EXCEPT ![h] = r]
  PROVE  SetHandle(h, r)
<1>1. handles \in [Handles -> HandleType]
  BY TypedState
<1> QED
  BY <1>1 DEF SetHandle

LEMMA FdUpdate ==
  ASSUME AllocTypeOK, NEW k \in Fds, NEW o \in Opened, fds' = [fds EXCEPT ![k] = o]
  PROVE  SetFd(k, o)
<1>1. fds \in [Fds -> Opened]
  BY TypedState
<1> QED
  BY <1>1 DEF SetFd

\* The number of what is open.
LEMMA OpenedNumber == \A o \in Opened : o[2] \in Nat
BY DEF Opened

\* The handle at i is there in these loops.
LEMMA SlotFilled ==
  ASSUME AllocTypeOK, NEW t \in Threads, PlaceInv(t), thr[t].pc \in Filled
  PROVE  thr[t].hs[thr[t].i] \in Handles /\ thr[t].hs[thr[t].i] # 0 /\ thr[t].i \in Slots(t)
<1>1. thr[t].i \in DOMAIN thr[t].hs /\ thr[t].hs \in Seq(Handles \cup {0})
  <2>1. thr[t].pc \notin {"idle", "free"}
    BY DEF Filled
  <2> QED
    BY <2>1, CallInLoop
<1>2. thr[t].hs[thr[t].i] # 0
  BY <1>1 DEF PlaceInv, Slots
<1>3. thr[t].hs[thr[t].i] \in Handles \cup {0}
  BY <1>1
<1> QED
  BY <1>1, <1>2, <1>3 DEF Slots

\* Where a loop goes after its body.
NextOf(t, p, q) == IF thr[t].i = Len(thr[t].ds) THEN q ELSE p
NextIndex(t) == IF thr[t].i = Len(thr[t].ds) THEN 1 ELSE thr[t].i + 1

LEMMA NextIndexFacts ==
  ASSUME AllocTypeOK, NEW t \in Threads, thr[t].pc \notin {"idle", "free"}
  PROVE  NextIndex(t) \in DOMAIN thr[t].ds /\ (thr[t].i # Len(thr[t].ds) => thr[t].i + 1 \in DOMAIN thr[t].ds)
<1>1. thr[t].i \in DOMAIN thr[t].ds /\ Len(thr[t].ds) \in Nat \ {0} /\ DOMAIN thr[t].ds = 1 .. Len(thr[t].ds)
  BY CallInLoop
<1> QED
  BY <1>1 DEF NextIndex

LEMMA ThreadParts ==
  ASSUME AllocTypeOK, NEW t \in Threads
  PROVE  /\ thr[t].hs \in Seq(Handles \cup {0}) /\ Len(thr[t].hs) = Len(thr[t].ds)
         /\ thr[t].fd \in Fds \cup {-1} /\ thr[t].id \in Nat /\ thr[t].old \in Handles \cup {0}
         /\ thr[t].shared \in BOOLEAN /\ thr[t].i \in Nat /\ thr[t].pc \in Places
         /\ thr \in [Threads -> ThreadType] /\ thr[t] \in ThreadType
BY ThreadFacts DEF ThreadOK, ThreadType

LEMMA MapFacts ==
  ASSUME AllocTypeOK, NEW t \in Threads, PlaceInv(t), map_buffer(t)
  PROVE  LET h == thr[t].hs[thr[t].i]
         IN /\ thr[t].pc = "map" /\ UNCHANGED <<kernel, runtime, ion, fds, dumped, given, dropped, calls, lost>>
            /\ h \in Handles
            /\ \/ GiveUp(t) /\ UNCHANGED handles
               \/ /\ IsBuffer(fds[handles[h].share_fd]) /\ SetHandle(h, [handles[h] EXCEPT !.base = Memory(h)])
                  /\ OnlyThread(t) /\ SameCall(t) /\ NextSlot(t, "map", "attributes")
                  /\ thr'[t].hs = thr[t].hs /\ thr'[t].fd = thr[t].fd /\ thr'[t].id = thr[t].id
<1> DEFINE h == thr[t].hs[thr[t].i]
           r == [handles[h] EXCEPT !.base = Memory(h)]
           p == NextOf(t, "map", "attributes")
           n == NextIndex(t)
<1>1. thr[t].pc = "map" /\ UNCHANGED <<kernel, runtime, ion, fds, dumped, given, dropped, calls, lost>>
  BY DEF map_buffer, At
<1>2. h \in Handles
  BY <1>1, SlotFilled DEF Filled
<1>3. \/ GiveUp(t) /\ UNCHANGED handles
      \/ /\ IsBuffer(fds[handles[h].share_fd]) /\ handles' = [handles EXCEPT ![h].base = Memory(h)]
         /\ thr' = [thr EXCEPT ![t].i = n, ![t].pc = p]
  BY DEF map_buffer, Memory, NextOf, NextIndex
<1>4. ASSUME IsBuffer(fds[handles[h].share_fd]), handles' = [handles EXCEPT ![h].base = Memory(h)],
             thr' = [thr EXCEPT ![t].i = n, ![t].pc = p]
      PROVE  /\ SetHandle(h, r) /\ OnlyThread(t) /\ SameCall(t) /\ NextSlot(t, "map", "attributes")
             /\ thr'[t].hs = thr[t].hs /\ thr'[t].fd = thr[t].fd /\ thr'[t].id = thr[t].id
  <2>1. handles \in [Handles -> HandleType] /\ fds \in [Fds -> Opened]
    BY TypedState
  <2>2. handles[h] \in HandleType /\ handles[h].share_fd \in Fds
    BY <1>2, <2>1 DEF HandleType
  <2>3. Memory(h) \in Nat
    <3>1. fds[handles[h].share_fd] \in Opened
      BY <2>1, <2>2
    <3> QED
      BY <3>1, OpenedNumber, Zenon DEF Memory
  <2>4. r \in HandleType
    BY <2>2, <2>3 DEF HandleType
  <2>5. handles' = [handles EXCEPT ![h] = r]
    BY <1>4, <2>1, <1>2 DEF HandleType
  <2>6. SetHandle(h, r)
    <3> HIDE DEF h, r
    <3> QED
      BY <1>2, <2>4, <2>5, HandleUpdate
  <2> DEFINE s == thr[t].hs
             f == thr[t].fd
             b == thr[t].id
  <2>7. /\ n \in DOMAIN thr[t].ds /\ p \in Places /\ f \in Fds \cup {-1} /\ s \in Seq(Handles \cup {0}) /\ b \in Nat
        /\ Len(s) = Len(thr[t].ds) /\ thr[t].pc \notin {"idle", "free"} /\ thr[t] \in ThreadType
        /\ thr \in [Threads -> ThreadType]
    BY <1>1, NextIndexFacts, ThreadParts DEF Places, NextOf
  <2>8. MovesTo(t, p, n, s, f, b)
    <3> HIDE DEF p, n
    <3> QED
      BY <1>4, <2>7 DEF MovesTo, Moved, ThreadType
  <2>9. /\ OnlyThread(t) /\ SameCall(t)
        /\ thr'[t].pc = p /\ thr'[t].i = n /\ thr'[t].hs = s /\ thr'[t].fd = f /\ thr'[t].id = b
    <3> HIDE DEF p, n, f, s, b
    <3> QED
      BY <2>7, <2>8, GoesOn, Zenon
  <2> QED
    BY <2>6, <2>9 DEF NextSlot, NextOf, NextIndex
<1> QED
  BY <1>1, <1>2, <1>3, <1>4

LEMMA AttributesFacts ==
  ASSUME AllocTypeOK, NEW t \in Threads, PlaceInv(t), gralloc_buffer_attr_allocate(t)
  PROVE  LET h == thr[t].hs[thr[t].i]
             k == Lowest(FreeFds)
         IN /\ thr[t].pc = "attributes" /\ UNCHANGED <<kernel, runtime, ion, dumped, given, dropped, calls, lost>>
            /\ h \in Handles
            /\ \/ GiveUp(t) /\ UNCHANGED <<fds, handles>>
               \/ /\ k \in Fds /\ fds[k] = Closed /\ SetFd(k, <<"attributes", 0>>)
                  /\ SetHandle(h, [handles[h] EXCEPT !.attr_fd = k])
                  /\ OnlyThread(t) /\ SameCall(t) /\ thr'[t].pc = "list" /\ thr'[t].i = thr[t].i
                  /\ thr'[t].hs = thr[t].hs /\ thr'[t].fd = thr[t].fd /\ thr'[t].id = thr[t].id
<1> DEFINE h == thr[t].hs[thr[t].i]
           k == Lowest(FreeFds)
           r == [handles[h] EXCEPT !.attr_fd = k]
           p == "list"
           n == thr[t].i
<1>1. thr[t].pc = "attributes" /\ UNCHANGED <<kernel, runtime, ion, dumped, given, dropped, calls, lost>>
  BY DEF gralloc_buffer_attr_allocate, At
<1>2. h \in Handles
  BY <1>1, SlotFilled DEF Filled
<1>3. \/ GiveUp(t) /\ UNCHANGED <<fds, handles>>
      \/ /\ FreeFds # {} /\ fds' = [fds EXCEPT ![k] = <<"attributes", 0>>]
         /\ handles' = [handles EXCEPT ![h].attr_fd = k] /\ thr' = [thr EXCEPT ![t].pc = p]
  BY DEF gralloc_buffer_attr_allocate, Opens, GoTo
<1>4. ASSUME FreeFds # {}, fds' = [fds EXCEPT ![k] = <<"attributes", 0>>],
             handles' = [handles EXCEPT ![h].attr_fd = k], thr' = [thr EXCEPT ![t].pc = p]
      PROVE  /\ k \in Fds /\ fds[k] = Closed /\ SetFd(k, <<"attributes", 0>>) /\ SetHandle(h, r)
             /\ OnlyThread(t) /\ SameCall(t) /\ thr'[t].pc = "list" /\ thr'[t].i = thr[t].i
             /\ thr'[t].hs = thr[t].hs /\ thr'[t].fd = thr[t].fd /\ thr'[t].id = thr[t].id
  <2>1. handles \in [Handles -> HandleType] /\ fds \in [Fds -> Opened]
    BY TypedState
  <2>2. k \in Fds /\ fds[k] = Closed
    BY <1>4, FreeFdFacts
  <2>3. SetFd(k, <<"attributes", 0>>)
    <3>1. <<"attributes", 0>> \in Opened
      BY DEF Opened
    <3> HIDE DEF k
    <3> QED
      BY <1>4, <2>2, <3>1, FdUpdate
  <2>4. handles[h] \in HandleType /\ r \in HandleType
    <3> HIDE DEF k
    <3> QED
      BY <1>2, <2>1, <2>2 DEF HandleType
  <2>5. handles' = [handles EXCEPT ![h] = r]
    BY <1>4, <2>1, <1>2 DEF HandleType
  <2>6. SetHandle(h, r)
    <3> HIDE DEF h, r
    <3> QED
      BY <1>2, <2>4, <2>5, HandleUpdate
  <2> DEFINE s == thr[t].hs
             f == thr[t].fd
             b == thr[t].id
  <2>7. /\ n \in DOMAIN thr[t].ds /\ p \in Places /\ f \in Fds \cup {-1} /\ s \in Seq(Handles \cup {0}) /\ b \in Nat
        /\ Len(s) = Len(thr[t].ds) /\ thr[t].pc \notin {"idle", "free"} /\ thr[t] \in ThreadType
        /\ thr \in [Threads -> ThreadType]
    BY <1>1, CallInLoop, ThreadParts DEF Places
  <2>8. MovesTo(t, p, n, s, f, b)
    <3> HIDE DEF p
    <3> QED
      BY <1>4, <2>7 DEF MovesTo, Moved, ThreadType
  <2>9. /\ OnlyThread(t) /\ SameCall(t)
        /\ thr'[t].pc = p /\ thr'[t].i = n /\ thr'[t].hs = s /\ thr'[t].fd = f /\ thr'[t].id = b
    <3> HIDE DEF p, n, f, s, b
    <3> QED
      BY <2>7, <2>8, GoesOn, Zenon
  <2> QED
    BY <2>2, <2>3, <2>6, <2>9
<1> QED
  BY <1>1, <1>2, <1>3, <1>4

\* The backing store id of the handle at i.
NumberOf(t) == IF thr[t].shared /\ thr[t].i > 1 THEN thr[t].id ELSE given.ids + 1

LEMMA ListFacts ==
  ASSUME AllocTypeOK, NEW t \in Threads, PlaceInv(t), list_and_number(t)
  PROVE  LET h == thr[t].hs[thr[t].i]
         IN /\ thr[t].pc = "list" /\ UNCHANGED <<kernel, runtime, ion, fds, dropped, calls, lost>>
            /\ h \in Handles /\ dumped' = dumped \cup {h} /\ NumberOf(t) \in Nat
            /\ SetHandle(h, [handles[h] EXCEPT !.id = NumberOf(t)])
            /\ given' \in [buffers : Nat, ids : Nat] /\ given'.buffers = given.buffers
            /\ given'.ids = IF thr[t].shared /\ thr[t].i > 1 THEN given.ids ELSE given.ids + 1
            /\ \/ thr[t].i = Len(thr[t].ds) /\ Fail(t)
               \/ /\ thr[t].i # Len(thr[t].ds) /\ OnlyThread(t) /\ SameCall(t)
                  /\ thr'[t].pc = "attributes" /\ thr'[t].i = thr[t].i + 1 /\ thr'[t].hs = thr[t].hs /\ thr'[t].fd = thr[t].fd
                  /\ thr'[t].id = IF thr[t].shared THEN NumberOf(t) ELSE 0
<1> DEFINE h == thr[t].hs[thr[t].i]
           r == [handles[h] EXCEPT !.id = NumberOf(t)]
           p == "attributes"
           n == thr[t].i + 1
           b == IF thr[t].shared THEN NumberOf(t) ELSE 0
<1>1. thr[t].pc = "list" /\ UNCHANGED <<kernel, runtime, ion, fds, dropped, calls, lost>>
  BY DEF list_and_number, At
<1>2. h \in Handles
  BY <1>1, SlotFilled DEF Filled
<1>3. /\ dumped' = dumped \cup {h} /\ handles' = [handles EXCEPT ![h].id = NumberOf(t)]
      /\ given' = IF thr[t].shared /\ thr[t].i > 1 THEN given ELSE [given EXCEPT !.ids = given.ids + 1]
      /\ thr' = IF thr[t].i = Len(thr[t].ds) THEN [thr EXCEPT ![t] = IdleThread]
                ELSE [thr EXCEPT ![t].i = n, ![t].pc = p, ![t].id = b]
  BY DEF list_and_number, NumberOf, FreshId
<1>4. NumberOf(t) \in Nat /\ given \in [buffers : Nat, ids : Nat] /\ handles \in [Handles -> HandleType]
  BY TypedState, ThreadParts DEF NumberOf
<1>5. SetHandle(h, r)
  <2>1. handles[h] \in HandleType /\ r \in HandleType
    BY <1>2, <1>4 DEF HandleType
  <2>2. handles' = [handles EXCEPT ![h] = r]
    BY <1>3, <1>4, <1>2 DEF HandleType
  <2> HIDE DEF h, r
  <2> QED
    BY <1>2, <2>1, <2>2, HandleUpdate
<1>6. /\ given' \in [buffers : Nat, ids : Nat] /\ given'.buffers = given.buffers
      /\ given'.ids = IF thr[t].shared /\ thr[t].i > 1 THEN given.ids ELSE given.ids + 1
  <2> DEFINE shared == thr[t].shared /\ thr[t].i > 1
  <2>1. given \in [buffers : Nat, ids : Nat] /\ given' = IF shared THEN given ELSE [given EXCEPT !.ids = given.ids + 1]
    BY <1>3, <1>4, Zenon
  <2> HIDE DEF shared
  <2>2. CASE shared
    BY <2>1, <2>2 DEF shared
  <2>3. CASE ~shared
    <3>1. given' = [given EXCEPT !.ids = given.ids + 1]
      BY <2>1, <2>3
    <3>2. given' \in [buffers : Nat, ids : Nat] /\ given'.buffers = given.buffers /\ given'.ids = given.ids + 1
      BY <2>1, <3>1
    <3> QED
      BY <2>3, <3>2 DEF shared
  <2> QED
    BY <2>2, <2>3
<1>7. ASSUME thr[t].i # Len(thr[t].ds)
      PROVE  /\ OnlyThread(t) /\ SameCall(t)
             /\ thr'[t].pc = p /\ thr'[t].i = n /\ thr'[t].hs = thr[t].hs /\ thr'[t].fd = thr[t].fd /\ thr'[t].id = b
  <2> DEFINE s == thr[t].hs
             f == thr[t].fd
  <2>1. /\ n \in DOMAIN thr[t].ds /\ p \in Places /\ f \in Fds \cup {-1} /\ s \in Seq(Handles \cup {0}) /\ b \in Nat
        /\ Len(s) = Len(thr[t].ds) /\ thr[t].pc \notin {"idle", "free"} /\ thr[t] \in ThreadType
        /\ thr \in [Threads -> ThreadType]
    BY <1>1, <1>4, <1>7, NextIndexFacts, ThreadParts DEF Places
  <2>2. thr' = [thr EXCEPT ![t].i = n, ![t].pc = p, ![t].id = b]
    BY <1>3, <1>7
  <2>3. MovesTo(t, p, n, s, f, b)
    <3> HIDE DEF p, b, n
    <3> QED
      BY <2>1, <2>2 DEF MovesTo, Moved, ThreadType
  <2>4. /\ OnlyThread(t) /\ SameCall(t)
        /\ thr'[t].pc = p /\ thr'[t].i = n /\ thr'[t].hs = s /\ thr'[t].fd = f /\ thr'[t].id = b
    <3> HIDE DEF p, n, f, s, b
    <3> QED
      BY <2>1, <2>3, GoesOn, Zenon
  <2> QED
    BY <2>4
<1>8. thr[t].i = Len(thr[t].ds) => Fail(t)
  BY <1>3 DEF Fail
<1> QED
  BY <1>1, <1>2, <1>3, <1>4, <1>5, <1>6, <1>7, <1>8

LEMMA CloseAllTyped ==
  ASSUME AllocTypeOK, NEW S, fds' = CloseAll(S)
  PROVE  fds' \in [Fds -> Opened] /\ \A k \in Fds : fds'[k] = IF k \in S THEN Closed ELSE fds[k]
<1>1. fds \in [Fds -> Opened] /\ Closed \in Opened
  BY TypedState DEF Closed, Opened
<1> QED
  BY <1>1 DEF CloseAll

\* What is left of a handle that is rolled back.
RolledBack(h) == IF h \in dumped THEN ZeroHandle ELSE NoHandle

LEMMA FreeInternalFacts ==
  ASSUME AllocTypeOK, NEW t \in Threads, free_internal(t)
  PROVE  LET h == thr[t].hs[thr[t].i]
         IN /\ thr[t].pc = "undo" /\ UNCHANGED <<kernel, runtime, ion, dumped, given, dropped, calls, lost>>
            /\ thr[t].i \in Slots(t) /\ thr[t].hs \in Seq(Handles \cup {0}) /\ Slots(t) = 1 .. Len(thr[t].ds)
            /\ \/ h = 0 /\ UNCHANGED <<fds, handles>>
               \/ /\ h \in Handles /\ h # 0 /\ fds' \in [Fds -> Opened]
                  /\ \A k \in Fds : fds'[k] = IF k \in Held(h) THEN Closed ELSE fds[k]
                  /\ SetHandle(h, RolledBack(h))
            /\ \/ thr[t].i = Len(thr[t].ds) /\ Fail(t)
               \/ /\ thr[t].i # Len(thr[t].ds) /\ OnlyThread(t) /\ SameCall(t)
                  /\ thr'[t].pc = "undo" /\ thr'[t].i = thr[t].i + 1 /\ thr'[t].hs = [thr[t].hs EXCEPT ![thr[t].i] = 0]
                  /\ thr'[t].fd = thr[t].fd /\ thr'[t].id = thr[t].id
<1> DEFINE h == thr[t].hs[thr[t].i]
           p == "undo"
           n == thr[t].i + 1
           s == [thr[t].hs EXCEPT ![thr[t].i] = 0]
           f == thr[t].fd
           b == thr[t].id
<1>1. /\ thr[t].pc = "undo" /\ thr[t].pc \notin {"idle", "free"}
      /\ UNCHANGED <<kernel, runtime, ion, dumped, given, dropped, calls, lost>>
  BY DEF free_internal, At
<1>2. /\ thr[t].i \in Slots(t) /\ thr[t].hs \in Seq(Handles \cup {0}) /\ Slots(t) = 1 .. Len(thr[t].ds)
  BY <1>1, CallInLoop DEF Slots
<1>3. h \in Handles \cup {0}
  BY <1>2 DEF Slots
<1>4. /\ h = 0 => UNCHANGED <<fds, handles>>
      /\ h # 0 => fds' = CloseAll(Held(h)) /\ handles' = [handles EXCEPT ![h] = RolledBack(h)]
      /\ thr' = IF thr[t].i = Len(thr[t].ds) THEN [thr EXCEPT ![t] = IdleThread] ELSE [thr EXCEPT ![t].i = n, ![t].hs[thr[t].i] = 0]
  BY DEF free_internal, RolledBack
<1>5. ASSUME h # 0
      PROVE  /\ h \in Handles /\ fds' \in [Fds -> Opened] /\ SetHandle(h, RolledBack(h))
             /\ \A k \in Fds : fds'[k] = IF k \in Held(h) THEN Closed ELSE fds[k]
  <2>1. h \in Handles /\ fds' = CloseAll(Held(h)) /\ handles' = [handles EXCEPT ![h] = RolledBack(h)]
    BY <1>3, <1>4, <1>5
  <2>2. RolledBack(h) \in HandleType
    BY NoHandleFacts DEF RolledBack
  <2> HIDE DEF h
  <2> QED
    BY <2>1, <2>2, HandleUpdate, CloseAllTyped
<1>6. ASSUME thr[t].i # Len(thr[t].ds)
      PROVE  /\ OnlyThread(t) /\ SameCall(t)
             /\ thr'[t].pc = p /\ thr'[t].i = n /\ thr'[t].hs = s /\ thr'[t].fd = f /\ thr'[t].id = b
  <2>1. s \in Seq(Handles \cup {0}) /\ Len(s) = Len(thr[t].ds)
    BY <1>1, SlotUpdate
  <2>2. /\ n \in DOMAIN thr[t].ds /\ p \in Places /\ f \in Fds \cup {-1} /\ b \in Nat
        /\ thr[t] \in ThreadType /\ thr \in [Threads -> ThreadType]
    BY <1>1, <1>6, NextIndexFacts, ThreadParts DEF Places
  <2>3. thr' = [thr EXCEPT ![t].i = n, ![t].hs[thr[t].i] = 0]
    BY <1>4, <1>6
  <2>4. MovesTo(t, p, n, s, f, b)
    <3>1. thr[t].pc = p
      BY <1>1
    <3> HIDE DEF p, n
    <3> QED
      BY <2>2, <2>3, <3>1 DEF MovesTo, Moved, ThreadType
  <2> HIDE DEF p, n, f, s, b
  <2> QED
    BY <1>1, <2>1, <2>2, <2>4, GoesOn, Zenon
<1>7. thr[t].i = Len(thr[t].ds) => Fail(t)
  BY <1>4 DEF Fail
<1> QED
  BY <1>1, <1>2, <1>4, <1>5, <1>6, <1>7

LEMMA EraseFacts ==
  ASSUME AllocTypeOK, NEW t \in Threads, mali_gralloc_dump_buffer_erase(t)
  PROVE  /\ thr[t].pc = "idle" /\ UNCHANGED <<kernel, runtime, ion, fds, handles, given, dropped, calls, lost>>
         /\ \E h \in Handles \ Busy :
              /\ IsMade(h) /\ dumped' = dumped \ {h} /\ OnlyThread(t)
              /\ thr'[t].pc = "free" /\ thr'[t].old = h /\ thr'[t].ds = <<>> /\ thr'[t].hs = <<>> /\ thr'[t].fd = -1
              /\ thr'[t].id = 0 /\ thr'[t].shared = FALSE
<1>1. PICK h \in Handles \ Busy :
        /\ IsMade(h) /\ dumped' = dumped \ {h}
        /\ thr' = [thr EXCEPT ![t] = [IdleThread EXCEPT !.pc = "free", !.old = h]]
  BY DEF mali_gralloc_dump_buffer_erase, IsMade
<1> DEFINE r == [IdleThread EXCEPT !.pc = "free", !.old = h]
<1>2. /\ r.pc = "free" /\ r.old = h /\ r.ds = <<>> /\ r.hs = <<>> /\ r.fd = -1 /\ r.id = 0 /\ r.shared = FALSE
  BY DEF IdleThread
<1>3. r \in ThreadType
  <2>1. IdleThread \in ThreadType
    BY DEF IdleThread, ThreadType, Places
  <2>2. h \in Handles \cup {0} /\ "free" \in Places
    BY DEF Places
  <2> QED
    BY <2>1, <2>2 DEF ThreadType
<1>4. thr' = [thr EXCEPT ![t] = r] /\ thr \in [Threads -> ThreadType]
  BY <1>1, ThreadParts
<1> HIDE DEF r
<1>5. thr' \in [Threads -> ThreadType] /\ thr'[t] = r /\ \A u \in Threads \ {t} : thr'[u] = thr[u]
  BY <1>3, <1>4, ThreadUpdate
<1>6. OnlyThread(t)
  BY <1>2, <1>3, <1>5 DEF OnlyThread, ThreadOK
<1> QED
  BY <1>1, <1>2, <1>5, <1>6 DEF mali_gralloc_dump_buffer_erase, At

LEMMA FreeFacts ==
  ASSUME AllocTypeOK, NEW t \in Threads, PlaceInv(t), mali_gralloc_buffer_free(t)
  PROVE  LET h == thr[t].old
         IN /\ thr[t].pc = "free" /\ UNCHANGED <<kernel, runtime, ion, dumped, given, dropped, calls, lost>>
            /\ h \in Handles /\ fds' \in [Fds -> Opened] /\ SetHandle(h, NoHandle) /\ Fail(t)
            /\ \A k \in Fds : fds'[k] = IF k \in Held(h) THEN Closed ELSE fds[k]
<1> DEFINE h == thr[t].old
<1>1. /\ thr[t].pc = "free" /\ UNCHANGED <<kernel, runtime, ion, dumped, given, dropped, calls, lost>>
      /\ fds' = CloseAll(Held(h)) /\ handles' = [handles EXCEPT ![h] = NoHandle] /\ Fail(t)
  BY DEF mali_gralloc_buffer_free, At
<1>2. h \in Handles
  BY <1>1, ThreadParts DEF PlaceInv
<1> HIDE DEF h
<1>3. SetHandle(h, NoHandle)
  BY <1>1, <1>2, NoHandleFacts, HandleUpdate
<1>4. fds' \in [Fds -> Opened] /\ \A k \in Fds : fds'[k] = IF k \in Held(h) THEN Closed ELSE fds[k]
  BY <1>1, CloseAllTyped
<1> QED
  BY <1>1, <1>2, <1>3, <1>4 DEF h

LEMMA AllocateOwnSets ==
  ASSUME AllocTypeOK, NEW t \in Threads, allocate_own(t)
  PROVE  SetFd(Lowest(FreeFds), NewBuffer) /\ SetHandle(FreshHandle, NewHandle(Lowest(FreeFds)))
<1> DEFINE k == Lowest(FreeFds)
           h == FreshHandle
<1>1. k \in Fds /\ h \in Handles /\ fds' = [fds EXCEPT ![k] = NewBuffer] /\ handles' = [handles EXCEPT ![h] = NewHandle(k)]
  BY AllocateOwnFacts
<1>2. NewBuffer \in Opened
  BY TypedState DEF NewBuffer, Opened
<1> HIDE DEF k, h
<1>3. NewHandle(k) \in HandleType
  BY <1>1, NewHandleFacts
<1>4. SetFd(k, NewBuffer) /\ SetHandle(h, NewHandle(k))
  BY <1>1, <1>2, <1>3, FdUpdate, HandleUpdate
<1> QED
  BY <1>4 DEF k, h

LEMMA AllocateSharedSets ==
  ASSUME AllocTypeOK, NEW t \in Threads, allocate_shared(t)
  PROVE  SetFd(Lowest(FreeFds), NewBuffer)
<1> DEFINE k == Lowest(FreeFds)
<1>1. k \in Fds /\ fds' = [fds EXCEPT ![k] = NewBuffer]
  BY AllocateSharedFacts
<1>2. NewBuffer \in Opened
  BY TypedState DEF NewBuffer, Opened
<1> HIDE DEF k
<1>3. SetFd(k, NewBuffer)
  BY <1>1, <1>2, FdUpdate
<1> QED
  BY <1>3 DEF k

LEMMA DupAdoptsSets ==
  ASSUME AllocTypeOK, NEW t \in Threads, NEW k \in Fds, DupAdopts(t, k)
  PROVE  SetHandle(FreshHandle, NewHandle(k))
<1> DEFINE h == FreshHandle
<1>1. h \in Handles /\ handles' = [handles EXCEPT ![h] = NewHandle(k)]
  BY DEF DupAdopts
<1> HIDE DEF h
<1>2. SetHandle(h, NewHandle(k))
  BY <1>1, NewHandleFacts, HandleUpdate
<1> QED
  BY <1>2 DEF h

LEMMA DupSets ==
  ASSUME AllocTypeOK, NEW t \in Threads, NEW k \in Fds, fds' = [fds EXCEPT ![k] = fds[thr[t].fd]], thr[t].fd \in Fds
  PROVE  SetFd(k, fds[thr[t].fd])
<1>1. fds[thr[t].fd] \in Opened
  BY TypedState
<1> QED
  BY <1>1, FdUpdate

-----------------------------------------------------------------------------
(* Types, and which handles a thread has made. *)

GlobalsTyped ==
  /\ kernel \in Kernels
  /\ runtime \in [read : BOOLEAN, caps : {"zero", "partial", "final"}, mutex : Threads \cup {Nobody}]
  /\ ion \in [ver : {"UNKNOWN", "LEGACY", "MODERN", "DMABUF"}, system : Fds \cup {-1, 1, 2},
              cma : Fds \cup {-1, 1, 2}, client : Fds \cup {-1}]
  /\ dumped \subseteq Handles
  /\ given \in [buffers : Nat, ids : Nat]
  /\ dropped \subseteq Fds /\ calls \in Nat /\ lost \in BOOLEAN

LEMMA PlaceKept ==
  ASSUME NEW u \in Threads, thr'[u] = thr[u], PlaceInv(u)
  PROVE  PlaceInv(u)'
BY DEF PlaceInv, Slots

LEMMA TypeKept ==
  ASSUME TypeInv, NEW t \in Threads, GlobalsTyped', OnlyThread(t), PlaceInv(t)',
         fds' \in [Fds -> Opened], handles' \in [Handles -> HandleType]
  PROVE  TypeInv'
<1>1. \A u \in Threads : PlaceInv(u)'
  BY PlaceKept DEF TypeInv, OnlyThread
<1>2. \A u \in Threads : ThreadOK(thr'[u])
  BY ThreadFacts DEF TypeInv, OnlyThread
<1>3. AllocTypeOK'
  BY <1>2 DEF GlobalsTyped, OnlyThread, ThreadOK, AllocTypeOK, HandleType
<1> QED
  BY <1>1, <1>3 DEF TypeInv

LEMMA SameGlobals ==
  ASSUME AllocTypeOK, UNCHANGED <<kernel, runtime, ion, dropped, calls, lost>>,
         dumped' \subseteq Handles, given' \in [buffers : Nat, ids : Nat]
  PROVE  GlobalsTyped'
BY DEF AllocTypeOK, GlobalsTyped

LEMMA SameHandles ==
  ASSUME AllocTypeOK
  PROVE  /\ UNCHANGED fds => fds' \in [Fds -> Opened]
         /\ UNCHANGED handles => handles' \in [Handles -> HandleType]
         /\ UNCHANGED given => given' \in [buffers : Nat, ids : Nat]
         /\ UNCHANGED dumped => dumped' \subseteq Handles
BY TypedState DEF AllocTypeOK

LEMMA DroppedTyped ==
  ASSUME AllocTypeOK, NEW k
  PROVE  Dropped(k) \subseteq Fds
BY DEF AllocTypeOK, Dropped

LEMMA EarlyGlobalsTyped ==
  ASSUME AllocTypeOK, NEW t \in Threads, PlaceInv(t), EarlyStep(t)
  PROVE  GlobalsTyped'
<1>0. /\ thr[t].fd \in Fds \cup {-1} /\ dumped \subseteq Handles /\ given \in [buffers : Nat, ids : Nat]
      /\ ion.system \in Fds \cup {-1, 1, 2} /\ ion.cma \in Fds \cup {-1, 1, 2} /\ ion.client \in Fds \cup {-1}
      /\ GlobalsTyped /\ 0 \in Fds
  BY ThreadParts, GrallocAllocationAssumption DEF AllocTypeOK, GlobalsTyped, Fds
<1>1. CASE mali_gralloc_buffer_allocate(t)
  BY <1>0, <1>1 DEF mali_gralloc_buffer_allocate, GlobalsTyped
<1>2. CASE test_caps_read(t)
  BY <1>0, <1>2 DEF test_caps_read, GlobalsTyped, unchangedButIon
<1>3. CASE lock_caps(t)
  BY <1>0, <1>3 DEF lock_caps, GlobalsTyped, unchangedButIon
<1>4. CASE determine_caps(t)
  BY <1>0, <1>4 DEF determine_caps, GlobalsTyped, unchangedButIon
<1>5. CASE restrict_caps(t)
  BY <1>0, <1>5 DEF restrict_caps, GlobalsTyped, unchangedButIon
<1>6. CASE publish_caps(t)
  BY <1>0, <1>6 DEF publish_caps, GlobalsTyped, unchangedButIon
<1>7. CASE unlock_caps(t)
  BY <1>0, <1>7 DEF unlock_caps, GlobalsTyped, unchangedButIon
<1>8. CASE use_caps(t)
  BY <1>0, <1>8 DEF use_caps, GlobalsTyped, unchangedButIon
<1>9. CASE initialize_interface(t)
  BY <1>0, <1>9 DEF initialize_interface, GlobalsTyped, unchangedButIon
<1>10. CASE set_interface_ver(t)
  BY <1>0, <1>10 DEF set_interface_ver, GlobalsTyped, unchangedButIon
<1>11. CASE set_system_heap(t)
  BY <1>0, <1>11, DroppedTyped, FreeFdFacts DEF set_system_heap, GlobalsTyped, unchangedButIon
<1>12. CASE find_heaps(t)
  BY <1>0, <1>12 DEF find_heaps, GlobalsTyped, unchangedButIon
<1>13. CASE dma_heap_open_system(t)
  BY <1>0, <1>13 DEF dma_heap_open_system, GlobalsTyped, unchangedButIon
<1>14. CASE dma_heap_open_cma(t)
  BY <1>0, <1>14, DroppedTyped, FreeFdFacts DEF dma_heap_open_cma, GlobalsTyped, unchangedButIon
<1>15. CASE ion_open_first(t)
  BY <1>0, <1>15, DroppedTyped, FreeFdFacts DEF ion_open_first, GlobalsTyped, unchangedButIon, ion_open
<1>16. CASE ion_close(t)
  <2>1. UNCHANGED <<kernel, runtime, ion, dumped, given, dropped, calls>> /\ (lost' = TRUE \/ lost' = lost)
    BY <1>16, Zenon DEF ion_close
  <2>2. lost' \in BOOLEAN
    BY <1>0, <2>1 DEF GlobalsTyped
  <2> QED
    BY <1>0, <2>1, <2>2, Zenon DEF GlobalsTyped
<1>17. CASE forget_client(t)
  BY <1>0, <1>17, DroppedTyped, FreeFdFacts DEF forget_client, GlobalsTyped, unchangedButIon
<1>18. CASE reopen_client(t)
  BY <1>0, <1>18, DroppedTyped, FreeFdFacts DEF reopen_client, GlobalsTyped, unchangedButIon, ion_open
<1>19. CASE share(t)
  BY <1>0, <1>19 DEF share, GlobalsTyped, unchangedButIon
<1> QED
  BY <1>1, <1>2, <1>3, <1>4, <1>5, <1>6, <1>7, <1>8, <1>9, <1>10, <1>11, <1>12, <1>13, <1>14, <1>15, <1>16, <1>17, <1>18, <1>19 DEF EarlyStep

LEMMA GlobalPlace ==
  ASSUME AllocTypeOK, NEW t \in Threads, GlobalThread(t)
  PROVE  PlaceInv(t)' /\ OnlyThread(t)
<1>1. thr'[t].pc \in Early \cup {"allocate"} /\ ThreadOK(thr'[t]) /\ \A j \in Slots(t)' : thr'[t].hs[j] = 0
  BY DEF GlobalThread, Slots
<1>2. thr'[t].pc = "allocate" /\ ~thr'[t].shared => \A j \in Slots(t)' : ~(j < thr'[t].i)
  <2>1. \A j \in Slots(t)' : j \in Nat /\ j >= 1
    BY <1>1 DEF ThreadOK, ThreadType, Slots
  <2> QED
    BY <2>1 DEF GlobalThread
<1> QED
  BY <1>1, <1>2 DEF GlobalThread, PlaceInv, OnlyThread, Early, Filled, Initializing

LEMMA FailPlace ==
  ASSUME AllocTypeOK, NEW t \in Threads, Fail(t)
  PROVE  PlaceInv(t)' /\ OnlyThread(t)
<1>1. OnlyThread(t) /\ thr'[t] = IdleThread
  BY FailFacts DEF OnlyThread
<1> QED
  BY <1>1 DEF IdleThread, PlaceInv, Slots, Early, Filled, Initializing

LEMMA GiveUpPlace ==
  ASSUME AllocTypeOK, NEW t \in Threads, PlaceInv(t), thr[t].pc \notin {"idle", "free"}, GiveUp(t)
  PROVE  PlaceInv(t)' /\ OnlyThread(t)
<1>1. OnlyThread(t) /\ SameCall(t) /\ thr'[t].pc = "undo" /\ thr'[t].i = 1 /\ thr'[t].hs = thr[t].hs /\ thr'[t].fd = -1
  BY GiveUpFacts
<1>2. \A j \in Slots(t)' : ~(j < 1)
  BY <1>1, ThreadParts DEF Slots
<1> QED
  BY <1>1, <1>2 DEF PlaceInv, Slots, SameCall, Early, Filled, Initializing

LEMMA AllocateOwnPlace ==
  ASSUME AllocTypeOK, NEW t \in Threads, PlaceInv(t), allocate_own(t)
  PROVE  PlaceInv(t)' /\ OnlyThread(t)
<1> DEFINE i == thr[t].i
           h == FreshHandle
<1>1. /\ thr[t].pc = "allocate" /\ ~thr[t].shared /\ h \in Handles
      /\ OnlyThread(t) /\ SameCall(t) /\ NextSlot(t, "allocate", "map")
      /\ thr'[t].hs = [thr[t].hs EXCEPT ![i] = h] /\ thr'[t].fd = thr[t].fd
  BY AllocateOwnFacts
<1>2. /\ i \in 1 .. Len(thr[t].ds) /\ Slots(t) = 1 .. Len(thr[t].ds) /\ Len(thr[t].ds) \in Nat \ {0}
  BY <1>1, CallInLoop DEF Slots
<1>3. Slots(t)' = 1 .. Len(thr[t].ds) /\ h # 0
  BY <1>1, <1>2 DEF Slots, Handles
<1>4. \A j \in 1 .. Len(thr[t].ds) : thr[t].hs[j] # 0 <=> j < i
  BY <1>1, <1>2 DEF PlaceInv
<1> HIDE DEF h
<1>5. \A j \in 1 .. Len(thr[t].ds) : thr'[t].hs[j] = IF j = i THEN h ELSE thr[t].hs[j]
  BY <1>1, <1>2 DEF Slots
<1>6. thr[t].fd = -1 /\ thr[t].old = 0
  BY <1>1 DEF PlaceInv, Initializing
<1>7. CASE i = Len(thr[t].ds)
  <2>1. thr'[t].pc = "map" /\ thr'[t].i = 1
    BY <1>1, <1>7 DEF NextSlot
  <2>2. \A j \in Slots(t)' : thr'[t].hs[j] # 0
    BY <1>2, <1>3, <1>4, <1>5, <1>7
  <2> QED
    BY <1>1, <1>6, <2>1, <2>2 DEF PlaceInv, SameCall, Early, Filled, Initializing
<1>8. CASE i # Len(thr[t].ds)
  <2>1. thr'[t].pc = "allocate" /\ thr'[t].i = i + 1
    BY <1>1, <1>8 DEF NextSlot
  <2>2. \A j \in Slots(t)' : thr'[t].hs[j] # 0 <=> j < i + 1
    BY <1>2, <1>3, <1>4, <1>5
  <2> QED
    BY <1>1, <1>6, <2>1, <2>2 DEF PlaceInv, SameCall, Early, Filled, Initializing
<1> QED
  BY <1>7, <1>8

LEMMA AllocateSharedPlace ==
  ASSUME AllocTypeOK, NEW t \in Threads, PlaceInv(t), allocate_shared(t)
  PROVE  PlaceInv(t)' /\ OnlyThread(t)
<1>1. /\ thr[t].pc = "allocate" /\ thr[t].shared /\ OnlyThread(t) /\ SameCall(t)
      /\ thr'[t].pc = "dup" /\ thr'[t].i = 1 /\ thr'[t].hs = thr[t].hs /\ thr'[t].fd \in Fds
  BY AllocateSharedFacts
<1>2. \A j \in Slots(t)' : ~(j < 1) /\ thr'[t].hs[j] = 0
  BY <1>1, ThreadParts DEF Slots, PlaceInv
<1> QED
  BY <1>1, <1>2 DEF PlaceInv, SameCall, Early, Filled, Initializing

LEMMA DupPlace ==
  ASSUME AllocTypeOK, NEW t \in Threads, PlaceInv(t), thr[t].pc = "dup", NEW k \in Fds, DupAdopts(t, k)
  PROVE  PlaceInv(t)' /\ OnlyThread(t)
<1> DEFINE i == thr[t].i
           h == FreshHandle
<1>1. /\ h \in Handles /\ OnlyThread(t) /\ SameCall(t) /\ NextSlot(t, "dup", "map")
      /\ thr'[t].hs = [thr[t].hs EXCEPT ![i] = h] /\ thr'[t].fd = (IF i = Len(thr[t].ds) THEN -1 ELSE thr[t].fd)
  BY DEF DupAdopts
<1>2. /\ i \in 1 .. Len(thr[t].ds) /\ Slots(t) = 1 .. Len(thr[t].ds) /\ Len(thr[t].ds) \in Nat \ {0}
  BY <1>1, CallInLoop DEF Slots
<1>3. Slots(t)' = 1 .. Len(thr[t].ds) /\ h # 0
  BY <1>1, <1>2 DEF Slots, Handles
<1>4. thr[t].shared /\ \A j \in 1 .. Len(thr[t].ds) : thr[t].hs[j] # 0 <=> j < i
  BY <1>1, <1>2 DEF PlaceInv
<1> HIDE DEF h
<1>5. \A j \in 1 .. Len(thr[t].ds) : thr'[t].hs[j] = IF j = i THEN h ELSE thr[t].hs[j]
  BY <1>1, <1>2 DEF Slots
<1>6. thr[t].fd \in Fds /\ thr[t].old = 0
  BY <1>1 DEF PlaceInv
<1>7. CASE i = Len(thr[t].ds)
  <2>1. thr'[t].pc = "map" /\ thr'[t].i = 1 /\ thr'[t].fd = -1
    BY <1>1, <1>7 DEF NextSlot
  <2>2. \A j \in Slots(t)' : thr'[t].hs[j] # 0
    BY <1>2, <1>3, <1>4, <1>5, <1>7
  <2> QED
    BY <1>1, <1>6, <2>1, <2>2 DEF PlaceInv, SameCall, Early, Filled, Initializing
<1>8. CASE i # Len(thr[t].ds)
  <2>1. thr'[t].pc = "dup" /\ thr'[t].i = i + 1 /\ thr'[t].fd = thr[t].fd
    BY <1>1, <1>8 DEF NextSlot
  <2>2. \A j \in Slots(t)' : thr'[t].hs[j] # 0 <=> j < i + 1
    BY <1>2, <1>3, <1>4, <1>5
  <2> QED
    BY <1>1, <1>4, <1>6, <2>1, <2>2 DEF PlaceInv, SameCall, Early, Filled, Initializing
<1> QED
  BY <1>7, <1>8

\* The loops that change only what the handles point to.
LEMMA FilledPlace ==
  ASSUME AllocTypeOK, NEW t \in Threads, PlaceInv(t), thr[t].pc \in Filled, OnlyThread(t), SameCall(t),
         thr'[t].pc \in Filled, thr'[t].hs = thr[t].hs, thr'[t].fd = thr[t].fd
  PROVE  PlaceInv(t)'
BY DEF PlaceInv, SameCall, Slots, Early, Filled, Initializing

LEMMA UndoPlace ==
  ASSUME AllocTypeOK, NEW t \in Threads, PlaceInv(t), thr[t].pc = "undo", OnlyThread(t), SameCall(t),
         thr'[t].pc = "undo", thr'[t].i = thr[t].i + 1, thr'[t].hs = [thr[t].hs EXCEPT ![thr[t].i] = 0], thr'[t].fd = thr[t].fd
  PROVE  PlaceInv(t)'
<1>1. /\ thr[t].i \in 1 .. Len(thr[t].ds) /\ Slots(t) = 1 .. Len(thr[t].ds) /\ Len(thr[t].ds) \in Nat \ {0}
  BY CallInLoop DEF Slots
<1>2. Slots(t)' = 1 .. Len(thr[t].ds)
  BY <1>1 DEF Slots
<1>3. \A j \in 1 .. Len(thr[t].ds) : j < thr[t].i => thr[t].hs[j] = 0
  BY <1>1 DEF PlaceInv
<1>4. \A j \in 1 .. Len(thr[t].ds) : thr'[t].hs[j] = IF j = thr[t].i THEN 0 ELSE thr[t].hs[j]
  BY <1>1 DEF Slots
<1>5. \A j \in 1 .. Len(thr[t].ds) : j < thr[t].i + 1 => thr'[t].hs[j] = 0
  BY <1>1, <1>3, <1>4
<1>6. thr[t].fd = -1 /\ thr[t].old = 0
  BY DEF PlaceInv, Initializing
<1> QED
  BY <1>2, <1>5, <1>6 DEF PlaceInv, SameCall, Early, Filled, Initializing

LateStep(t) ==
  \/ allocate_own(t) \/ allocate_shared(t) \/ allocate_fails(t) \/ allocate_undefined(t) \/ dup_shared(t)
  \/ map_buffer(t) \/ gralloc_buffer_attr_allocate(t) \/ list_and_number(t)
  \/ free_internal(t) \/ mali_gralloc_dump_buffer_erase(t) \/ mali_gralloc_buffer_free(t)

LEMMA StepKinds ==
  ASSUME AllocNext
  PROVE  UNCHANGED allocVars \/ \E t \in Threads : ~lost /\ (EarlyStep(t) \/ LateStep(t))
BY Zenon DEF AllocNext, AllocStep, EarlyStep, LateStep, mali_gralloc_dump_buffers

LEMMA TypeEarly ==
  ASSUME TypeInv, NEW t \in Threads, EarlyStep(t)
  PROVE  TypeInv'
<1>1. AllocTypeOK /\ PlaceInv(t)
  BY DEF TypeInv
<1>2. GlobalsTyped' /\ GlobalFds /\ (GlobalThread(t) \/ (lost' /\ UNCHANGED <<fds, thr, ion, runtime, dropped>>))
  BY <1>1, EarlyIsGlobal, EarlyGlobalsTyped
<1>3. fds' \in [Fds -> Opened] /\ handles' \in [Handles -> HandleType]
  BY <1>1, <1>2, SameHandles DEF GlobalFds
<1>4. CASE GlobalThread(t)
  BY <1>1, <1>2, <1>3, <1>4, GlobalPlace, TypeKept
<1>5. CASE UNCHANGED thr
  <2>1. OnlyThread(t)
    BY <1>1, <1>5, ThreadFacts DEF OnlyThread, ThreadOK
  <2>2. PlaceInv(t)'
    BY <1>1, <1>5, PlaceKept
  <2> QED
    BY <1>2, <1>3, <2>1, <2>2, TypeKept
<1> QED
  BY <1>2, <1>4, <1>5

LEMMA TypeLate ==
  ASSUME TypeInv, NEW t \in Threads, LateStep(t)
  PROVE  TypeInv'
<1>0. AllocTypeOK /\ PlaceInv(t)
  BY DEF TypeInv
<1>s. /\ UNCHANGED fds => fds' \in [Fds -> Opened]
      /\ UNCHANGED handles => handles' \in [Handles -> HandleType]
      /\ UNCHANGED given => given' \in [buffers : Nat, ids : Nat]
      /\ UNCHANGED dumped => dumped' \subseteq Handles
  BY <1>0, SameHandles
<1> DEFINE Shape == /\ fds' \in [Fds -> Opened] /\ handles' \in [Handles -> HandleType] /\ dumped' \subseteq Handles
                    /\ given' \in [buffers : Nat, ids : Nat]
<1>p. ASSUME PlaceInv(t)', OnlyThread(t), Shape, UNCHANGED <<kernel, runtime, ion, dropped, calls, lost>>
      PROVE  TypeInv'
  BY <1>0, <1>p, SameGlobals, TypeKept
<1>g. ASSUME thr[t].pc \notin {"idle", "free"}, GiveUp(t) PROVE PlaceInv(t)' /\ OnlyThread(t)
  BY <1>0, <1>g, GiveUpPlace
<1>f. Fail(t) => PlaceInv(t)' /\ OnlyThread(t)
  BY <1>0, FailPlace
<1>1. CASE allocate_own(t)
  <2>1. UNCHANGED <<kernel, runtime, ion, dumped, dropped, calls, lost>> /\ given' \in [buffers : Nat, ids : Nat]
    <3>1. /\ UNCHANGED <<kernel, runtime, ion, dumped, dropped, calls, lost>>
          /\ given' = [given EXCEPT !.buffers = given.buffers + 1]
      BY <1>0, <1>1, AllocateOwnFacts
    <3> QED
      BY <1>0, <3>1, TypedState
  <2>2. fds' \in [Fds -> Opened] /\ handles' \in [Handles -> HandleType]
    BY <1>0, <1>1, AllocateOwnSets DEF SetFd, SetHandle
  <2> QED
    BY <1>0, <1>1, <1>s, <1>p, <2>1, <2>2, AllocateOwnPlace
<1>2. CASE allocate_shared(t)
  <2>1. UNCHANGED <<kernel, runtime, ion, handles, dumped, dropped, calls, lost>> /\ given' \in [buffers : Nat, ids : Nat]
    BY <1>0, <1>2, AllocateSharedFacts, TypedState
  <2>2. fds' \in [Fds -> Opened]
    BY <1>0, <1>2, AllocateSharedSets DEF SetFd
  <2> QED
    BY <1>0, <1>2, <1>s, <1>p, <2>1, <2>2, AllocateSharedPlace
<1>3. CASE allocate_fails(t)
  <2>1. thr[t].pc = "allocate" /\ GiveUp(t) /\ UNCHANGED <<kernel, runtime, ion, fds, handles, dumped, given, dropped, calls, lost>>
    BY <1>3 DEF allocate_fails, At
  <2> QED
    BY <2>1, <1>s, <1>p, <1>g
<1>4. CASE allocate_undefined(t)
  <2>1. lost' = TRUE /\ UNCHANGED <<kernel, runtime, ion, fds, handles, dumped, thr, given, dropped, calls>>
    BY <1>4 DEF allocate_undefined
  <2>2. GlobalsTyped'
    BY <1>0, <2>1 DEF AllocTypeOK, GlobalsTyped
  <2>3. OnlyThread(t)
    BY <1>0, <2>1, ThreadFacts DEF OnlyThread, ThreadOK
  <2>4. PlaceInv(t)'
    BY <1>0, <2>1, PlaceKept
  <2> QED
    BY <1>s, <2>1, <2>2, <2>3, <2>4, TypeKept
<1>5. CASE dup_shared(t)
  <2>1. thr[t].pc = "dup" /\ thr[t].fd \in Fds /\ UNCHANGED <<kernel, runtime, ion, dumped, given, calls, lost>>
    BY <1>0, <1>5, DupFacts DEF PlaceInv
  <2>2. ASSUME NEW k \in Fds, DupAdopts(t, k), fds' \in [Fds -> Opened] PROVE TypeInv'
    <3>1. handles' \in [Handles -> HandleType] /\ UNCHANGED dropped
      BY <1>0, <2>2, DupAdoptsSets DEF SetHandle, DupAdopts
    <3>2. PlaceInv(t)' /\ OnlyThread(t)
      BY <1>0, <2>1, <2>2, DupPlace
    <3> QED
      BY <1>s, <1>p, <2>1, <2>2, <3>1, <3>2
  <2>3. CASE DupAdopts(t, thr[t].fd) /\ UNCHANGED fds
    BY <1>s, <2>1, <2>2, <2>3
  <2>4. CASE /\ Lowest(FreeFds) \in Fds /\ DupAdopts(t, Lowest(FreeFds))
             /\ fds' = [fds EXCEPT ![Lowest(FreeFds)] = fds[thr[t].fd]]
    <3>1. fds' \in [Fds -> Opened]
      BY <1>0, <2>1, <2>4, DupSets DEF SetFd
    <3> QED
      BY <2>2, <2>4, <3>1
  <2>5. CASE GiveUp(t) /\ UNCHANGED <<fds, handles>> /\ dropped' = IF thr[t].i < Largest(t) THEN dropped \cup {thr[t].fd} ELSE dropped
    <3>1. GlobalsTyped'
      BY <1>0, <2>1, <2>5 DEF AllocTypeOK, GlobalsTyped
    <3> QED
      BY <1>s, <1>g, <2>1, <2>5, <3>1, TypeKept
  <2> QED
    BY <1>0, <1>5, <2>3, <2>4, <2>5, DupFacts
<1>6. CASE map_buffer(t)
  <2>1. thr[t].pc = "map" /\ UNCHANGED <<kernel, runtime, ion, fds, dumped, given, dropped, calls, lost>>
    BY <1>0, <1>6, MapFacts
  <2>2. CASE GiveUp(t) /\ UNCHANGED handles
    BY <1>s, <1>p, <1>g, <2>1, <2>2
  <2>3. CASE /\ SetHandle(thr[t].hs[thr[t].i], [handles[thr[t].hs[thr[t].i]] EXCEPT !.base = Memory(thr[t].hs[thr[t].i])])
             /\ OnlyThread(t) /\ SameCall(t) /\ NextSlot(t, "map", "attributes")
             /\ thr'[t].hs = thr[t].hs /\ thr'[t].fd = thr[t].fd
    <3>1. PlaceInv(t)'
      BY <1>0, <2>1, <2>3, FilledPlace DEF NextSlot, Filled
    <3> QED
      BY <1>s, <1>p, <2>1, <2>3, <3>1 DEF SetHandle
  <2> QED
    BY <1>0, <1>6, <2>2, <2>3, MapFacts
<1>7. CASE gralloc_buffer_attr_allocate(t)
  <2>1. thr[t].pc = "attributes" /\ UNCHANGED <<kernel, runtime, ion, dumped, given, dropped, calls, lost>>
    BY <1>0, <1>7, AttributesFacts
  <2>2. CASE GiveUp(t) /\ UNCHANGED <<fds, handles>>
    BY <1>s, <1>p, <1>g, <2>1, <2>2
  <2>3. CASE /\ fds' \in [Fds -> Opened] /\ handles' \in [Handles -> HandleType]
             /\ OnlyThread(t) /\ SameCall(t) /\ thr'[t].pc = "list"
             /\ thr'[t].hs = thr[t].hs /\ thr'[t].fd = thr[t].fd
    <3>1. PlaceInv(t)'
      BY <1>0, <2>1, <2>3, FilledPlace DEF Filled
    <3> QED
      BY <1>s, <1>p, <2>1, <2>3, <3>1
  <2> QED
    BY <1>0, <1>7, <2>2, <2>3, AttributesFacts DEF SetFd, SetHandle
<1>8. CASE list_and_number(t)
  <2>1. /\ thr[t].pc = "list" /\ UNCHANGED <<kernel, runtime, ion, fds, dropped, calls, lost>>
        /\ dumped' \subseteq Handles /\ given' \in [buffers : Nat, ids : Nat] /\ handles' \in [Handles -> HandleType]
    <3>1. /\ thr[t].pc = "list" /\ UNCHANGED <<kernel, runtime, ion, fds, dropped, calls, lost>>
          /\ given' \in [buffers : Nat, ids : Nat] /\ thr[t].hs[thr[t].i] \in Handles
          /\ dumped' = dumped \cup {thr[t].hs[thr[t].i]}
          /\ SetHandle(thr[t].hs[thr[t].i], [handles[thr[t].hs[thr[t].i]] EXCEPT !.id = NumberOf(t)])
      BY <1>0, <1>8, ListFacts
    <3>2. dumped \subseteq Handles
      BY <1>0 DEF AllocTypeOK
    <3> QED
      BY <3>1, <3>2 DEF SetHandle
  <2>2. CASE Fail(t)
    BY <1>s, <1>p, <1>f, <2>1, <2>2
  <2>3. CASE /\ OnlyThread(t) /\ SameCall(t) /\ thr'[t].pc = "attributes" /\ thr'[t].hs = thr[t].hs /\ thr'[t].fd = thr[t].fd
    <3>1. PlaceInv(t)'
      BY <1>0, <2>1, <2>3, FilledPlace DEF Filled
    <3> QED
      BY <1>s, <1>p, <2>1, <2>3, <3>1
  <2> QED
    BY <1>0, <1>8, <2>2, <2>3, ListFacts
<1>9. CASE free_internal(t)
  <2>1. thr[t].pc = "undo" /\ UNCHANGED <<kernel, runtime, ion, dumped, given, dropped, calls, lost>>
    BY <1>0, <1>9, FreeInternalFacts
  <2>2. fds' \in [Fds -> Opened] /\ handles' \in [Handles -> HandleType]
    BY <1>0, <1>s, <1>9, FreeInternalFacts DEF SetHandle
  <2>3. CASE Fail(t)
    BY <1>s, <1>p, <1>f, <2>1, <2>2, <2>3
  <2>4. CASE /\ OnlyThread(t) /\ SameCall(t) /\ thr'[t].pc = "undo" /\ thr'[t].i = thr[t].i + 1
             /\ thr'[t].hs = [thr[t].hs EXCEPT ![thr[t].i] = 0] /\ thr'[t].fd = thr[t].fd
    <3>1. PlaceInv(t)'
      BY <1>0, <2>1, <2>4, UndoPlace
    <3> QED
      BY <1>s, <1>p, <2>1, <2>2, <2>4, <3>1
  <2> QED
    BY <1>0, <1>9, <2>3, <2>4, FreeInternalFacts
<1>10. CASE mali_gralloc_dump_buffer_erase(t)
  <2>1. UNCHANGED <<kernel, runtime, ion, fds, handles, given, dropped, calls, lost>>
    BY <1>0, <1>10, EraseFacts
  <2>2. PICK h \in Handles \ Busy :
          /\ dumped' = dumped \ {h} /\ OnlyThread(t)
          /\ thr'[t].pc = "free" /\ thr'[t].old = h /\ thr'[t].hs = <<>> /\ thr'[t].fd = -1
    BY <1>0, <1>10, EraseFacts
  <2>3. PlaceInv(t)'
    BY <2>2 DEF PlaceInv, Slots, Early, Filled, Initializing, Handles
  <2>4. dumped' \subseteq Handles
    BY <1>0, <2>2 DEF AllocTypeOK
  <2> QED
    BY <1>s, <1>p, <2>1, <2>2, <2>3, <2>4
<1>11. CASE mali_gralloc_buffer_free(t)
  <2>1. /\ UNCHANGED <<kernel, runtime, ion, dumped, given, dropped, calls, lost>>
        /\ fds' \in [Fds -> Opened] /\ handles' \in [Handles -> HandleType] /\ Fail(t)
    BY <1>0, <1>11, FreeFacts DEF SetHandle
  <2> QED
    BY <1>s, <1>p, <1>f, <2>1
<1> QED
  BY <1>1, <1>2, <1>3, <1>4, <1>5, <1>6, <1>7, <1>8, <1>9, <1>10, <1>11 DEF LateStep

LEMMA TypeInit == AllocInit => TypeInv
<1> SUFFICES ASSUME AllocInit PROVE TypeInv
  OBVIOUS
<1>1. IdleThread \in ThreadType
  BY DEF IdleThread, ThreadType, Places
<1>2. \A t \in Threads : thr[t] = IdleThread
  BY DEF AllocInit
<1>3. fds \in [Fds -> Opened]
  BY DEF AllocInit, Opened, Closed
<1>4. AllocTypeOK
  <2>1. thr \in [Threads -> ThreadType]
    BY <1>1 DEF AllocInit
  <2>2. handles \in [Handles -> HandleType]
    BY NoHandleFacts DEF AllocInit
  <2>3. \A t \in Threads : /\ Len(thr[t].hs) = Len(thr[t].ds)
                           /\ thr[t].i \in DOMAIN thr[t].ds \/ thr[t].pc \in {"idle", "free"}
    BY <1>2 DEF IdleThread
  <2>4. 0 \in Fds
    BY GrallocAllocationAssumption DEF Fds
  <2>5. /\ kernel \in Kernels
        /\ runtime \in [read : BOOLEAN, caps : {"zero", "partial", "final"}, mutex : Threads \cup {Nobody}]
        /\ ion \in [ver : {"UNKNOWN", "LEGACY", "MODERN", "DMABUF"}, system : Fds \cup {-1, 1, 2},
                    cma : Fds \cup {-1, 1, 2}, client : Fds \cup {-1}]
        /\ dumped \subseteq Handles /\ given \in [buffers : Nat, ids : Nat]
        /\ dropped \subseteq Fds /\ calls \in Nat /\ lost \in BOOLEAN
    BY <2>4 DEF AllocInit
  <2> QED
    BY <1>3, <2>1, <2>2, <2>3, <2>5 DEF AllocTypeOK, HandleType
<1>5. ASSUME NEW t \in Threads PROVE PlaceInv(t)
  BY <1>2 DEF PlaceInv, Slots, IdleThread, Early, Filled, Initializing
<1> QED
  BY <1>4, <1>5 DEF TypeInv

LEMMA Typed == AllocSpec => []TypeInv
<1>1. TypeInv /\ [AllocNext]_allocVars => TypeInv'
  <2> SUFFICES ASSUME TypeInv, [AllocNext]_allocVars PROVE TypeInv'
    OBVIOUS
  <2>1. CASE UNCHANGED allocVars
    BY <2>1 DEF TypeInv, AllocTypeOK, PlaceInv, Slots, allocVars
  <2>2. CASE AllocNext
    BY <2>1, <2>2, StepKinds, TypeEarly, TypeLate
  <2> QED
    BY <2>1, <2>2
<1> QED
  BY <1>1, TypeInit, PTL DEF AllocSpec

\* Every state is well typed: the loops of mali_gralloc_buffer_allocate stay within their arrays, through
\* every failure, and a thread that maps, numbers or frees a handle has one.
THEOREM AllocTypeInvariant == AllocSpec => []AllocTypeOK
<1>1. TypeInv => AllocTypeOK
  BY DEF TypeInv
<1> QED
  BY <1>1, Typed, PTL

-----------------------------------------------------------------------------
(* The capabilities. *)

CapsPlaces == {"determine", "restrict", "publish", "unlock", "select"}

LEMMA CapsElsewhere ==
  ASSUME CapsInv, UNCHANGED runtime, NEW t \in Threads, \A u \in Threads \ {t} : thr'[u].pc = thr[u].pc,
         thr'[t].pc \notin CapsPlaces
  PROVE  CapsInv'
BY DEF CapsInv, CapsPlaces

LEMMA GoToPc ==
  ASSUME AllocTypeOK, NEW t \in Threads, NEW p, GoTo(t, p)
  PROVE  \A u \in Threads : thr'[u].pc = IF u = t THEN p ELSE thr[u].pc
<1>1. thr \in [Threads -> ThreadType] /\ \A u \in Threads : thr[u] \in ThreadType
  BY TypedState
<1> QED
  BY <1>1 DEF GoTo, ThreadType

LEMMA FailPc ==
  ASSUME AllocTypeOK, NEW t \in Threads, Fail(t)
  PROVE  thr'[t].pc = "idle" /\ \A u \in Threads \ {t} : thr'[u].pc = thr[u].pc
BY FailFacts DEF IdleThread

LEMMA LatePc ==
  ASSUME TypeInv, NEW t \in Threads, LateStep(t)
  PROVE  /\ UNCHANGED <<kernel, runtime, ion>> /\ \A u \in Threads \ {t} : thr'[u] = thr[u]
         /\ thr'[t].pc \in {"idle", "free", "allocate", "dup", "undo"} \cup Filled
<1>0. AllocTypeOK /\ PlaceInv(t)
  BY DEF TypeInv
<1>f. Fail(t) => thr'[t].pc = "idle" /\ \A u \in Threads \ {t} : thr'[u] = thr[u]
  BY <1>0, FailFacts DEF IdleThread
<1>g. thr[t].pc \notin {"idle", "free"} /\ GiveUp(t) => thr'[t].pc = "undo" /\ \A u \in Threads \ {t} : thr'[u] = thr[u]
  BY <1>0, GiveUpFacts DEF OnlyThread
<1>1. CASE allocate_own(t)
  BY <1>0, <1>1, AllocateOwnFacts DEF OnlyThread, NextSlot, Filled
<1>2. CASE allocate_shared(t)
  BY <1>0, <1>2, AllocateSharedFacts DEF OnlyThread
<1>3. CASE allocate_fails(t)
  BY <1>g, <1>3 DEF allocate_fails, At
<1>4. CASE allocate_undefined(t)
  BY <1>4 DEF allocate_undefined, At
<1>5. CASE dup_shared(t)
  BY <1>0, <1>g, <1>5, DupFacts DEF DupAdopts, OnlyThread, NextSlot, Filled
<1>6. CASE map_buffer(t)
  BY <1>0, <1>g, <1>6, MapFacts DEF OnlyThread, NextSlot, Filled
<1>7. CASE gralloc_buffer_attr_allocate(t)
  BY <1>0, <1>g, <1>7, AttributesFacts DEF OnlyThread, Filled
<1>8. CASE list_and_number(t)
  BY <1>0, <1>f, <1>8, ListFacts DEF OnlyThread, Filled
<1>9. CASE free_internal(t)
  BY <1>0, <1>f, <1>9, FreeInternalFacts DEF OnlyThread, Filled
<1>10. CASE mali_gralloc_dump_buffer_erase(t)
  BY <1>0, <1>10, EraseFacts DEF OnlyThread
<1>11. CASE mali_gralloc_buffer_free(t)
  BY <1>0, <1>f, <1>11, FreeFacts
<1> QED
  BY <1>1, <1>2, <1>3, <1>4, <1>5, <1>6, <1>7, <1>8, <1>9, <1>10, <1>11 DEF LateStep

LEMMA CapsEarly ==
  ASSUME TypeInv, CapsInv, NEW t \in Threads, EarlyStep(t)
  PROVE  CapsInv'
<1>0. AllocTypeOK /\ thr \in [Threads -> ThreadType] /\ runtime \in [read : BOOLEAN, caps : {"zero", "partial", "final"}, mutex : Threads \cup {Nobody}]
  BY DEF TypeInv, AllocTypeOK
<1>g. ASSUME NEW p, p \notin CapsPlaces, GoTo(t, p), UNCHANGED runtime PROVE CapsInv'
  BY <1>0, <1>g, GoToPc, CapsElsewhere
<1>f. ASSUME Fail(t), UNCHANGED runtime PROVE CapsInv'
  BY <1>0, <1>f, FailPc, CapsElsewhere DEF CapsPlaces
<1>n. Nobody \notin Threads
  BY GrallocAllocationAssumption
<1>1. CASE mali_gralloc_buffer_allocate(t)
  <2>1. thr'[t].pc = "format" /\ \A u \in Threads \ {t} : thr'[u].pc = thr[u].pc
    BY <1>0, <1>1 DEF mali_gralloc_buffer_allocate, IdleThread
  <2> QED
    BY <1>1, <2>1, CapsElsewhere DEF mali_gralloc_buffer_allocate, CapsPlaces
<1>2. CASE test_caps_read(t)
  <2>1. \A u \in Threads : thr'[u].pc = IF u = t THEN (IF runtime.read THEN "select" ELSE "lock") ELSE thr[u].pc
    BY <1>0, <1>2, GoToPc DEF test_caps_read
  <2> QED
    BY <1>2, <2>1 DEF test_caps_read, CapsInv
<1>3. CASE lock_caps(t)
  <2>1. \A u \in Threads : thr'[u].pc = IF u = t THEN "determine" ELSE thr[u].pc
    BY <1>0, <1>3, GoToPc DEF lock_caps
  <2>2. /\ runtime.mutex = Nobody /\ runtime'.mutex = t /\ runtime'.read = runtime.read /\ runtime'.caps = runtime.caps
    BY <1>0, <1>3 DEF lock_caps
  <2> QED
    BY <1>n, <2>1, <2>2 DEF CapsInv
<1>4. CASE determine_caps(t)
  <2>1. CASE runtime.read
    <3>1. \A u \in Threads : thr'[u].pc = IF u = t THEN "unlock" ELSE thr[u].pc
      BY <1>0, <1>4, <2>1, GoToPc DEF determine_caps
    <3>2. UNCHANGED runtime /\ thr[t].pc = "determine"
      BY <1>4, <2>1 DEF determine_caps, At
    <3> QED
      BY <2>1, <3>1, <3>2 DEF CapsInv
  <2>2. CASE ~runtime.read
    <3>1. \A u \in Threads : thr'[u].pc = IF u = t THEN "restrict" ELSE thr[u].pc
      BY <1>0, <1>4, <2>2, GoToPc DEF determine_caps
    <3>2. thr[t].pc = "determine" /\ runtime'.mutex = runtime.mutex /\ runtime'.read = runtime.read
      BY <1>0, <1>4, <2>2 DEF determine_caps, At
    <3> QED
      BY <2>2, <3>1, <3>2 DEF CapsInv
  <2> QED
    BY <2>1, <2>2
<1>5. CASE restrict_caps(t)
  <2>1. \A u \in Threads : thr'[u].pc = IF u = t THEN "publish" ELSE thr[u].pc
    BY <1>0, <1>5, GoToPc DEF restrict_caps
  <2>2. /\ thr[t].pc = "restrict" /\ runtime'.mutex = runtime.mutex /\ runtime'.read = runtime.read /\ runtime'.caps = "final"
    BY <1>0, <1>5 DEF restrict_caps, At
  <2> QED
    BY <2>1, <2>2 DEF CapsInv
<1>6. CASE publish_caps(t)
  <2>1. \A u \in Threads : thr'[u].pc = IF u = t THEN "unlock" ELSE thr[u].pc
    BY <1>0, <1>6, GoToPc DEF publish_caps
  <2>2. /\ thr[t].pc = "publish" /\ runtime'.mutex = runtime.mutex /\ runtime'.read = TRUE /\ runtime'.caps = runtime.caps
    BY <1>0, <1>6 DEF publish_caps, At
  <2> QED
    BY <2>1, <2>2 DEF CapsInv
<1>7. CASE unlock_caps(t)
  <2>1. \A u \in Threads : thr'[u].pc = IF u = t THEN "select" ELSE thr[u].pc
    BY <1>0, <1>7, GoToPc DEF unlock_caps
  <2>2. /\ thr[t].pc = "unlock" /\ runtime'.read = runtime.read /\ runtime'.caps = runtime.caps
    BY <1>0, <1>7 DEF unlock_caps, At
  <2> QED
    BY <2>1, <2>2 DEF CapsInv
<1>8. CASE use_caps(t)
  BY <1>g, <1>8 DEF use_caps, CapsPlaces
<1>9. CASE initialize_interface(t)
  BY <1>g, <1>9 DEF initialize_interface, unchangedButIon, CapsPlaces
<1>10. CASE dma_heap_open_system(t)
  <2>1. CASE thr' = [thr EXCEPT ![t].pc = "version", ![t].fd = Lowest(FreeFds)]
    <3> DEFINE k == Lowest(FreeFds)
    <3>1. thr' = [thr EXCEPT ![t].pc = "version", ![t].fd = k] /\ thr[t] \in ThreadType
      BY <1>0, <2>1
    <3> HIDE DEF k
    <3>2. thr'[t].pc = "version" /\ \A u \in Threads \ {t} : thr'[u].pc = thr[u].pc
      BY <1>0, <3>1 DEF ThreadType
    <3> QED
      BY <1>10, <3>2, CapsElsewhere DEF dma_heap_open_system, unchangedButIon, CapsPlaces
  <2>2. CASE GoTo(t, "ion_open")
    BY <1>g, <1>10, <2>2 DEF dma_heap_open_system, unchangedButIon, CapsPlaces
  <2> QED
    BY <1>10, <2>1, <2>2 DEF dma_heap_open_system
<1>11. CASE set_interface_ver(t)
  BY <1>g, <1>11 DEF set_interface_ver, unchangedButIon, CapsPlaces
<1>12. CASE set_system_heap(t)
  BY <1>g, <1>12 DEF set_system_heap, CapsPlaces
<1>13. CASE dma_heap_open_cma(t)
  <2>1. thr' = [thr EXCEPT ![t].pc = "client", ![t].fd = -1] /\ thr[t] \in ThreadType
    BY <1>0, <1>13 DEF dma_heap_open_cma
  <2>2. thr'[t].pc = "client" /\ \A u \in Threads \ {t} : thr'[u].pc = thr[u].pc
    BY <1>0, <2>1 DEF ThreadType
  <2> QED
    BY <1>13, <2>2, CapsElsewhere DEF dma_heap_open_cma, CapsPlaces
<1>14. CASE ion_open_first(t)
  BY <1>g, <1>f, <1>14 DEF ion_open_first, ion_open, CapsPlaces
<1>15. CASE find_heaps(t)
  BY <1>g, <1>15 DEF find_heaps, unchangedButIon, CapsPlaces
<1>16. CASE ion_close(t)
  <2>1. CASE UNCHANGED thr
    BY <1>16, <2>1 DEF ion_close, CapsInv
  <2>2. CASE GoTo(t, "forget")
    BY <1>g, <1>16, <2>2 DEF ion_close, CapsPlaces
  <2> QED
    BY <1>16, <2>1, <2>2 DEF ion_close
<1>17. CASE forget_client(t)
  BY <1>f, <1>17 DEF forget_client
<1>18. CASE reopen_client(t)
  BY <1>g, <1>f, <1>18 DEF reopen_client, ion_open, unchangedButIon, CapsPlaces
<1>19. CASE share(t)
  <2>1. PICK shared \in check_buffers_sharable(thr[t].ds) :
          thr' = [thr EXCEPT ![t].shared = shared, ![t].pc = "allocate",
                             ![t].i = IF shared THEN get_max_buffer_descriptor_index(thr[t].ds) ELSE 1]
    BY <1>19 DEF share
  <2> DEFINE k == IF shared THEN get_max_buffer_descriptor_index(thr[t].ds) ELSE 1
  <2>2. thr' = [thr EXCEPT ![t].shared = shared, ![t].pc = "allocate", ![t].i = k] /\ thr[t] \in ThreadType
    BY <1>0, <2>1
  <2> HIDE DEF k
  <2>3. thr'[t].pc = "allocate" /\ \A u \in Threads \ {t} : thr'[u].pc = thr[u].pc
    BY <1>0, <2>2 DEF ThreadType
  <2> QED
    BY <1>19, <2>3, CapsElsewhere DEF share, unchangedButIon, CapsPlaces
<1> QED
  BY <1>1, <1>2, <1>3, <1>4, <1>5, <1>6, <1>7, <1>8, <1>9, <1>10, <1>11, <1>12, <1>13, <1>14, <1>15, <1>16, <1>17, <1>18, <1>19 DEF EarlyStep

\* determine_format_capabilities: whoever selects a format does so with final capabilities, although
\* the flag is read without the lock.
THEOREM CapsAreFinal == AllocSpec => []SelectsFinalCaps
<1>1. AllocInit => CapsInv
  BY DEF AllocInit, CapsInv, IdleThread
<1>2. TypeInv /\ CapsInv /\ [AllocNext]_allocVars => CapsInv'
  <2> SUFFICES ASSUME TypeInv, CapsInv, [AllocNext]_allocVars PROVE CapsInv'
    OBVIOUS
  <2>1. CASE UNCHANGED allocVars
    BY <2>1 DEF CapsInv, allocVars
  <2>2. ASSUME NEW t \in Threads, LateStep(t) PROVE CapsInv'
    <3>1. UNCHANGED runtime /\ thr'[t].pc \notin CapsPlaces /\ \A u \in Threads \ {t} : thr'[u].pc = thr[u].pc
      BY <2>2, LatePc DEF Filled, CapsPlaces
    <3> QED
      BY <3>1, CapsElsewhere
  <2> QED
    BY <2>1, <2>2, StepKinds, CapsEarly
<1>3. CapsInv => SelectsFinalCaps
  BY DEF CapsInv, SelectsFinalCaps, At
<1> QED
  BY <1>1, <1>2, <1>3, Typed, PTL DEF AllocSpec

-----------------------------------------------------------------------------
(* Who has which handle, and the list for dumps. *)

\* A thread keeps the handles it has.
SameSlots(t) ==
  /\ \A j \in Slots(t)' : thr'[t].hs[j] # 0 => j \in Slots(t) /\ thr[t].hs[j] = thr'[t].hs[j]
  /\ \A j \in Slots(t) : thr[t].hs[j] # 0 => j \in Slots(t)' /\ thr'[t].hs[j] = thr[t].hs[j]
SameStates == \A h \in Handles : handles'[h].state = handles[h].state

LEMMA SlotTyped ==
  ASSUME AllocTypeOK, NEW t \in Threads, NEW j \in Slots(t)
  PROVE  thr[t].hs[j] \in Handles \cup {0}
<1>1. thr[t].hs \in Seq(Handles \cup {0})
  BY ThreadParts
<1> QED
  BY <1>1 DEF Slots

LEMMA HandleIsNumber == \A h \in Handles : h # 0
BY DEF Handles

LEMMA OldTyped ==
  ASSUME TypeInv, NEW t \in Threads
  PROVE  /\ thr[t].old \in Handles \cup {0} /\ (thr[t].pc = "free" => thr[t].old \in Handles)
         /\ (thr[t].pc # "free" => thr[t].old = 0)
<1>1. thr[t].old \in Handles \cup {0}
  BY ThreadParts DEF TypeInv
<1> QED
  BY <1>1 DEF TypeInv, PlaceInv

\* The other threads in any step.
Others(t) == \A u \in Threads \ {t} : thr'[u] = thr[u]

LEMMA OthersSame ==
  ASSUME NEW t \in Threads, Others(t), NEW u \in Threads, u # t
  PROVE  /\ Slots(u)' = Slots(u) /\ thr'[u] = thr[u] /\ thr'[u].hs = thr[u].hs /\ thr'[u].pc = thr[u].pc
         /\ thr'[u].old = thr[u].old /\ thr'[u].i = thr[u].i /\ thr'[u].fd = thr[u].fd /\ thr'[u].shared = thr[u].shared
BY DEF Others, Slots

\* A thread keeps some of its handles, puts some on the list, and clears some.
Gone(t, g) == (\E j \in Slots(t) : thr[t].hs[j] = g) /\ \A j \in Slots(t)' : thr'[t].hs[j] # g

LEMMA BusyKept ==
  ASSUME TypeInv, BusyInv, DumpInv, NEW t \in Threads, Others(t),
         thr'[t].old = 0, thr'[t].pc # "free", thr[t].pc # "free", ListedUpTo(t)',
         \A j \in Slots(t)' : thr'[t].hs[j] # 0 => j \in Slots(t) /\ thr[t].hs[j] = thr'[t].hs[j],
         \A g \in Handles : Gone(t, g) => g \in dumped' \/ handles'[g].state # "made",
         \A g \in Handles : \/ handles'[g].state = handles[g].state
                            \/ Gone(t, g) /\ handles'[g].state # "made" /\ (g \in dumped' => handles'[g].state # "none"),
         dumped \subseteq dumped', \A g \in dumped' \ dumped : g \in Handles /\ \E j \in Slots(t) : thr[t].hs[j] = g
  PROVE  BusyInv' /\ DumpInv'
<1>0. AllocTypeOK /\ thr[t].old = 0
  BY OldTyped DEF TypeInv
<1>n. \A h \in Handles : h # 0
  BY HandleIsNumber
<1>1. \A u \in Threads : \A j \in Slots(u)' : thr'[u].hs[j] # 0 => j \in Slots(u) /\ thr[u].hs[j] = thr'[u].hs[j]
  BY OthersSame
<1>2. \A u \in Threads : thr'[u].old = thr[u].old /\ (thr'[u].pc = "free" <=> thr[u].pc = "free")
  BY <1>0, OthersSame
<1>3. \A u \in Threads \ {t} : \A j \in Slots(u) : thr[u].hs[j] # 0 => ~Gone(t, thr[u].hs[j])
  BY DEF BusyInv, SlotsApart, Gone
<1>4. \A u \in Threads : thr[u].pc = "free" => \A j \in Slots(t) : thr[t].hs[j] # thr[u].old
  BY DEF BusyInv, FreedApart
<1>5. SlotsMade'
  <2> SUFFICES ASSUME NEW u \in Threads, NEW j \in Slots(u)', thr'[u].hs[j] # 0
               PROVE  handles'[thr'[u].hs[j]].state = "made"
    BY DEF SlotsMade, IsMade
  <2>1. j \in Slots(u) /\ thr[u].hs[j] = thr'[u].hs[j]
    BY <1>1
  <2>2. thr[u].hs[j] \in Handles /\ handles[thr[u].hs[j]].state = "made"
    BY <1>0, <2>1, SlotTyped DEF BusyInv, SlotsMade, IsMade
  <2>3. ~Gone(t, thr[u].hs[j])
    <3>1. CASE u = t
      BY <2>1, <3>1 DEF Gone
    <3>2. CASE u # t
      BY <1>3, <2>1, <3>2
    <3> QED
      BY <3>1, <3>2
  <2> QED
    BY <2>1, <2>2, <2>3
<1>6. SlotsApart'
  BY <1>1 DEF BusyInv, SlotsApart
<1>7. FreedMade'
  <2> SUFFICES ASSUME NEW u \in Threads, thr'[u].pc = "free"
               PROVE  handles'[thr'[u].old].state = "made" /\ thr'[u].old \notin dumped'
    BY DEF FreedMade, IsMade
  <2>1. thr[u].pc = "free" /\ thr'[u].old = thr[u].old
    BY <1>2
  <2>2. thr[u].old \in Handles
    BY <2>1, OldTyped
  <2>3. handles[thr[u].old].state = "made" /\ thr[u].old \notin dumped
    BY <2>1 DEF BusyInv, FreedMade, IsMade
  <2>4. ~Gone(t, thr[u].old) /\ thr[u].old \notin dumped' \ dumped
    BY <1>4, <2>1 DEF Gone
  <2> QED
    BY <2>1, <2>2, <2>3, <2>4
<1>8. FreedApart'
  <2> SUFFICES ASSUME NEW u \in Threads, NEW v \in Threads, thr'[u].pc = "free"
               PROVE  /\ \A j \in Slots(v)' : thr'[v].hs[j] # thr'[u].old
                      /\ v # u => thr'[v].old # thr'[u].old
    BY DEF FreedApart
  <2>1. thr[u].pc = "free" /\ thr'[u].old = thr[u].old /\ thr'[v].old = thr[v].old
    BY <1>2
  <2>2. thr[u].old # 0
    BY <2>1, <1>n, OldTyped
  <2> QED
    BY <1>1, <2>1, <2>2 DEF BusyInv, FreedApart
<1>9. ListedLive'
  <2> SUFFICES ASSUME NEW g \in dumped' PROVE handles'[g].state # "none"
    BY DEF ListedLive
  <2>1. CASE g \in dumped
    BY <1>0, <2>1 DEF DumpInv, ListedLive, AllocTypeOK
  <2>2. CASE g \notin dumped
    <3>1. g \in Handles /\ handles[g].state = "made"
      BY <1>n, <2>2 DEF BusyInv, SlotsMade, IsMade
    <3> QED
      BY <3>1
  <2> QED
    BY <2>1, <2>2
<1>10. MadeFound'
  <2> SUFFICES ASSUME NEW h \in Handles, handles'[h].state = "made"
               PROVE  h \in dumped' \/ \E u \in Threads : Has(u, h)'
    BY DEF MadeFound, IsMade
  <2>1. handles[h].state = "made" /\ (Gone(t, h) => h \in dumped')
    OBVIOUS
  <2>2. h \in dumped \/ \E u \in Threads : Has(u, h)
    BY <2>1 DEF DumpInv, MadeFound, IsMade
  <2>3. \A u \in Threads \ {t} : Has(u, h) => Has(u, h)'
    BY OthersSame DEF Has
  <2>4. Has(t, h) => Gone(t, h) \/ Has(t, h)'
    BY <1>0, <1>n DEF Has, Gone
  <2> QED
    BY <2>1, <2>2, <2>3, <2>4
<1>11. \A u \in Threads : ListedUpTo(u)'
  BY OthersSame DEF DumpInv, ListedUpTo
<1> QED
  BY <1>5, <1>6, <1>7, <1>8, <1>9, <1>10, <1>11 DEF BusyInv, DumpInv

\* A thread makes a handle.
LEMMA BusyAdopts ==
  ASSUME TypeInv, BusyInv, DumpInv, NEW t \in Threads, Others(t),
         NEW i \in Slots(t), NEW h \in Handles, handles[h].state = "none", thr[t].hs[i] = 0,
         Slots(t)' = Slots(t), \A j \in Slots(t) : thr'[t].hs[j] = IF j = i THEN h ELSE thr[t].hs[j],
         handles'[h].state = "made", \A g \in Handles \ {h} : handles'[g].state = handles[g].state, UNCHANGED dumped,
         thr[t].pc # "free", thr'[t].old = 0, thr'[t].pc \notin {"free", "attributes", "list"}
  PROVE  BusyInv' /\ DumpInv'
<1>0. AllocTypeOK /\ thr[t].old = 0
  BY OldTyped DEF TypeInv
<1>n. \A g \in Handles : g # 0
  BY HandleIsNumber
<1>1. \A u \in Threads : \A j \in Slots(u)' : thr'[u].hs[j] # 0 =>
        j \in Slots(u) /\ (thr[u].hs[j] = thr'[u].hs[j] \/ (u = t /\ j = i /\ thr'[u].hs[j] = h))
  BY OthersSame
<1>2. \A u \in Threads : thr'[u].old = thr[u].old /\ (thr'[u].pc = "free" <=> thr[u].pc = "free")
  BY <1>0, OthersSame
<1>3. \A u \in Threads : \A j \in Slots(u) : thr[u].hs[j] # h
  BY <1>n DEF BusyInv, SlotsMade, IsMade
<1>4. \A u \in Threads : thr[u].pc = "free" => thr[u].old # h /\ thr[u].old # 0
  BY <1>n, OldTyped DEF BusyInv, FreedMade, IsMade
<1>5. SlotsMade'
  <2> SUFFICES ASSUME NEW u \in Threads, NEW j \in Slots(u)', thr'[u].hs[j] # 0
               PROVE  handles'[thr'[u].hs[j]].state = "made"
    BY DEF SlotsMade, IsMade
  <2>1. CASE j \in Slots(u) /\ thr[u].hs[j] = thr'[u].hs[j]
    <3>1. thr[u].hs[j] \in Handles /\ handles[thr[u].hs[j]].state = "made" /\ thr[u].hs[j] # h
      BY <1>0, <1>3, <2>1, SlotTyped DEF BusyInv, SlotsMade, IsMade
    <3> QED
      BY <2>1, <3>1
  <2>2. CASE thr'[u].hs[j] = h
    BY <2>2
  <2> QED
    BY <1>1, <2>1, <2>2
<1>6. SlotsApart'
  <2> SUFFICES ASSUME NEW u \in Threads, NEW v \in Threads, NEW j \in Slots(u)', NEW k \in Slots(v)',
                      thr'[u].hs[j] # 0, thr'[u].hs[j] = thr'[v].hs[k]
               PROVE  u = v /\ j = k
    BY DEF SlotsApart
  <2>1. /\ j \in Slots(u) /\ (thr[u].hs[j] = thr'[u].hs[j] \/ (u = t /\ j = i /\ thr'[u].hs[j] = h))
        /\ k \in Slots(v) /\ (thr[v].hs[k] = thr'[v].hs[k] \/ (v = t /\ k = i /\ thr'[v].hs[k] = h))
    BY <1>1
  <2>2. CASE thr'[u].hs[j] = h
    BY <1>3, <2>1, <2>2
  <2>3. CASE thr'[u].hs[j] # h
    BY <2>1, <2>3 DEF BusyInv, SlotsApart
  <2> QED
    BY <2>2, <2>3
<1>7. FreedMade'
  <2> SUFFICES ASSUME NEW u \in Threads, thr'[u].pc = "free"
               PROVE  handles'[thr'[u].old].state = "made" /\ thr'[u].old \notin dumped'
    BY DEF FreedMade, IsMade
  <2>1. thr[u].pc = "free" /\ thr'[u].old = thr[u].old
    BY <1>2
  <2>2. thr[u].old \in Handles /\ thr[u].old # h
    BY <1>4, <2>1, OldTyped
  <2>3. handles[thr[u].old].state = "made" /\ thr[u].old \notin dumped
    BY <2>1 DEF BusyInv, FreedMade, IsMade
  <2> QED
    BY <2>1, <2>2, <2>3
<1>8. FreedApart'
  <2> SUFFICES ASSUME NEW u \in Threads, NEW v \in Threads, thr'[u].pc = "free"
               PROVE  /\ \A j \in Slots(v)' : thr'[v].hs[j] # thr'[u].old
                      /\ v # u => thr'[v].old # thr'[u].old
    BY DEF FreedApart
  <2>1. thr[u].pc = "free" /\ thr'[u].old = thr[u].old /\ thr'[v].old = thr[v].old
    BY <1>2
  <2> QED
    BY <1>1, <1>4, <2>1 DEF BusyInv, FreedApart
<1>9. ListedLive'
  <2>1. dumped \subseteq Handles
    BY <1>0 DEF AllocTypeOK
  <2> QED
    BY <2>1 DEF DumpInv, ListedLive
<1>10. MadeFound'
  <2> SUFFICES ASSUME NEW g \in Handles, handles'[g].state = "made"
               PROVE  g \in dumped' \/ \E u \in Threads : Has(u, g)'
    BY DEF MadeFound, IsMade
  <2>1. CASE g = h
    <3>1. Has(t, g)'
      BY <2>1 DEF Has
    <3> QED
      BY <3>1
  <2>2. CASE g # h
    <3>1. g \in dumped \/ \E u \in Threads : Has(u, g)
      BY <2>2 DEF DumpInv, MadeFound, IsMade
    <3>2. \A u \in Threads \ {t} : Has(u, g) => Has(u, g)'
      BY OthersSame DEF Has
    <3>3. Has(t, g) => Has(t, g)'
      BY <1>0, <1>n DEF Has
    <3> QED
      BY <3>1, <3>2, <3>3
  <2> QED
    BY <2>1, <2>2
<1>11. \A u \in Threads : ListedUpTo(u)'
  BY OthersSame DEF DumpInv, ListedUpTo
<1> QED
  BY <1>5, <1>6, <1>7, <1>8, <1>9, <1>10, <1>11 DEF BusyInv, DumpInv

LEMMA BusyErases ==
  ASSUME TypeInv, BusyInv, DumpInv, NEW t \in Threads, mali_gralloc_dump_buffer_erase(t)
  PROVE  BusyInv' /\ DumpInv'
<1>0. AllocTypeOK
  BY DEF TypeInv
<1>1. thr[t].pc = "idle" /\ UNCHANGED handles
  BY <1>0, EraseFacts
<1>2. PICK h \in Handles \ Busy :
        /\ IsMade(h) /\ dumped' = dumped \ {h} /\ OnlyThread(t)
        /\ thr'[t].pc = "free" /\ thr'[t].old = h /\ thr'[t].hs = <<>>
  BY <1>0, EraseFacts
<1>3. Others(t) /\ Slots(t)' = {} /\ Slots(t) = {} /\ thr[t].old = 0
  <2>1. thr[t].hs = <<>>
    BY <1>1 DEF TypeInv, PlaceInv
  <2> QED
    BY <1>1, <1>2, <2>1, OldTyped DEF Others, OnlyThread, Slots
<1>4. \A u \in Threads : thr[u].old # h /\ \A j \in Slots(u) : thr[u].hs[j] # h
  BY <1>2 DEF Busy, Slots
<1>5. \A u \in Threads : \A j \in Slots(u)' : j \in Slots(u) /\ thr[u].hs[j] = thr'[u].hs[j] /\ u # t
  BY <1>3, OthersSame
<1>6. \A u \in Threads : thr'[u].pc = "free" =>
        \/ u = t /\ thr'[u].old = h
        \/ u # t /\ thr[u].pc = "free" /\ thr'[u].old = thr[u].old
  BY <1>2, <1>3, OthersSame
<1>7. SlotsMade' /\ SlotsApart'
  BY <1>1, <1>5 DEF BusyInv, SlotsMade, SlotsApart, IsMade
<1>8. FreedMade'
  BY <1>1, <1>2, <1>6 DEF BusyInv, FreedMade, IsMade
<1>9. FreedApart'
  <2> SUFFICES ASSUME NEW u \in Threads, NEW v \in Threads, thr'[u].pc = "free"
               PROVE  /\ \A j \in Slots(v)' : thr'[v].hs[j] # thr'[u].old
                      /\ v # u => thr'[v].old # thr'[u].old
    BY DEF FreedApart
  <2>1. thr'[v].old = IF v = t THEN h ELSE thr[v].old
    BY <1>2, <1>3, OthersSame
  <2>2. CASE u = t
    BY <1>2, <1>4, <1>5, <2>1, <2>2
  <2>3. CASE u # t
    <3>1. thr[u].pc = "free" /\ thr'[u].old = thr[u].old
      BY <1>6, <2>3
    <3> QED
      BY <1>4, <1>5, <2>1, <3>1 DEF BusyInv, FreedApart
  <2> QED
    BY <2>2, <2>3
<1>10. ListedLive'
  BY <1>1, <1>2 DEF DumpInv, ListedLive
<1>11. MadeFound'
  <2> SUFFICES ASSUME NEW g \in Handles, IsMade(g)
               PROVE  g \in dumped' \/ \E u \in Threads : Has(u, g)'
    BY <1>1 DEF MadeFound, IsMade
  <2>1. g \in dumped \/ \E u \in Threads : Has(u, g)
    BY DEF DumpInv, MadeFound
  <2>2. \A u \in Threads \ {t} : Has(u, g) => Has(u, g)'
    BY <1>3, OthersSame DEF Has
  <2>3. ~Has(t, g) /\ (g = h => Has(t, g)')
    BY <1>2, <1>3, HandleIsNumber DEF Has
  <2> QED
    BY <1>2, <2>1, <2>2, <2>3
<1>12. \A u \in Threads : ListedUpTo(u)'
  <2> SUFFICES ASSUME NEW u \in Threads, u # t PROVE ListedUpTo(u)'
    BY <1>2 DEF ListedUpTo
  <2>1. ListedUpTo(u)
    BY DEF DumpInv
  <2> QED
    BY <1>2, <1>3, <1>4, <2>1, OthersSame DEF ListedUpTo
<1> QED
  BY <1>7, <1>8, <1>9, <1>10, <1>11, <1>12 DEF BusyInv, DumpInv

LEMMA BusyFrees ==
  ASSUME TypeInv, BusyInv, DumpInv, NEW t \in Threads, mali_gralloc_buffer_free(t)
  PROVE  BusyInv' /\ DumpInv'
<1> DEFINE h == thr[t].old
<1>0. AllocTypeOK /\ PlaceInv(t)
  BY DEF TypeInv
<1>1. /\ thr[t].pc = "free" /\ UNCHANGED dumped /\ h \in Handles /\ Fail(t)
      /\ handles'[h] = NoHandle /\ \A g \in Handles \ {h} : handles'[g] = handles[g]
  BY <1>0, FreeFacts DEF SetHandle
<1>2. Others(t) /\ Slots(t)' = {} /\ thr'[t].pc = "idle" /\ thr'[t].old = 0
  BY <1>0, <1>1, FailFacts DEF IdleThread, Slots, Others
<1>3. Slots(t) = {}
  BY <1>0, <1>1 DEF PlaceInv, Slots
<1>4. h \notin dumped
  BY <1>1 DEF BusyInv, FreedMade
<1>a. \A u \in Threads : \A j \in Slots(u) : thr[u].hs[j] # h
  BY <1>1 DEF BusyInv, FreedApart
<1>b. \A u \in Threads \ {t} : thr[u].old # h
  BY <1>1 DEF BusyInv, FreedApart
<1> HIDE DEF h
<1>5. \A u \in Threads : \A j \in Slots(u)' : j \in Slots(u) /\ thr[u].hs[j] = thr'[u].hs[j] /\ u # t
  BY <1>2, <1>3, OthersSame
<1>6. \A u \in Threads : thr'[u].pc = "free" => u # t /\ thr[u].pc = "free" /\ thr'[u].old = thr[u].old /\ thr[u].old \in Handles
  BY <1>2, OthersSame, OldTyped
<1>7. SlotsMade'
  <2> SUFFICES ASSUME NEW u \in Threads, NEW j \in Slots(u)', thr'[u].hs[j] # 0
               PROVE  handles'[thr'[u].hs[j]].state = "made"
    BY DEF SlotsMade, IsMade
  <2>1. j \in Slots(u) /\ thr[u].hs[j] = thr'[u].hs[j]
    BY <1>5
  <2>2. thr[u].hs[j] \in Handles /\ handles[thr[u].hs[j]].state = "made"
    BY <1>0, <2>1, SlotTyped DEF BusyInv, SlotsMade, IsMade
  <2>3. thr[u].hs[j] # h
    BY <1>a, <2>1
  <2> QED
    BY <1>1, <2>1, <2>2, <2>3
<1>8. SlotsApart'
  BY <1>5 DEF BusyInv, SlotsApart
<1>9. FreedMade'
  <2> SUFFICES ASSUME NEW u \in Threads, thr'[u].pc = "free"
               PROVE  handles'[thr'[u].old].state = "made" /\ thr'[u].old \notin dumped'
    BY DEF FreedMade, IsMade
  <2>1. u # t /\ thr[u].pc = "free" /\ thr'[u].old = thr[u].old /\ thr[u].old \in Handles
    BY <1>6
  <2>2. handles[thr[u].old].state = "made" /\ thr[u].old \notin dumped /\ thr[u].old # h
    BY <1>b, <2>1 DEF BusyInv, FreedMade, IsMade
  <2> QED
    BY <1>1, <2>1, <2>2
<1>10. FreedApart'
  <2> SUFFICES ASSUME NEW u \in Threads, NEW v \in Threads, thr'[u].pc = "free"
               PROVE  /\ \A j \in Slots(v)' : thr'[v].hs[j] # thr'[u].old
                      /\ v # u => thr'[v].old # thr'[u].old
    BY DEF FreedApart
  <2>1. u # t /\ thr[u].pc = "free" /\ thr'[u].old = thr[u].old /\ thr[u].old # 0
    BY <1>6, HandleIsNumber
  <2>2. thr'[v].old = IF v = t THEN 0 ELSE thr[v].old
    BY <1>2, OthersSame
  <2> QED
    BY <1>5, <2>1, <2>2 DEF BusyInv, FreedApart
<1>11. ListedLive'
  BY <1>0, <1>1, <1>4 DEF DumpInv, ListedLive, AllocTypeOK
<1>12. MadeFound'
  <2> SUFFICES ASSUME NEW g \in Handles, handles'[g].state = "made"
               PROVE  g \in dumped' \/ \E u \in Threads : Has(u, g)'
    BY DEF MadeFound, IsMade
  <2>1. g # h
    BY <1>1, NoHandleFacts
  <2>2. g \in dumped \/ \E u \in Threads : Has(u, g)
    BY <1>1, <2>1 DEF DumpInv, MadeFound, IsMade
  <2>3. \A u \in Threads \ {t} : Has(u, g) => Has(u, g)'
    BY <1>2, OthersSame DEF Has
  <2>4. ~Has(t, g)
    BY <1>3, <2>1 DEF Has, h
  <2> QED
    BY <1>1, <2>2, <2>3, <2>4
<1>13. \A u \in Threads : ListedUpTo(u)'
  BY <1>1, <1>2, OthersSame DEF DumpInv, ListedUpTo
<1> QED
  BY <1>7, <1>8, <1>9, <1>10, <1>11, <1>12, <1>13 DEF BusyInv, DumpInv

LEMMA BusySame ==
  ASSUME TypeInv, BusyInv, DumpInv, NEW t \in Threads, Others(t), SameSlots(t), SameStates, UNCHANGED dumped,
         thr'[t].old = 0, thr'[t].pc # "free", thr[t].pc # "free", ListedUpTo(t)'
  PROVE  BusyInv' /\ DumpInv'
<1>1. \A g \in Handles : ~Gone(t, g)
  BY HandleIsNumber DEF Gone, SameSlots
<1> QED
  BY <1>1, BusyKept DEF SameSlots, SameStates

LEMMA BusyGivesUp ==
  ASSUME TypeInv, BusyInv, DumpInv, NEW t \in Threads, thr[t].pc \notin {"idle", "free"}, GiveUp(t), UNCHANGED <<handles, dumped>>
  PROVE  BusyInv' /\ DumpInv'
<1>1. OnlyThread(t) /\ SameCall(t) /\ thr'[t].pc = "undo" /\ thr'[t].hs = thr[t].hs
  BY GiveUpFacts DEF TypeInv
<1>2. thr'[t].old = 0 /\ SameSlots(t) /\ Others(t) /\ SameStates /\ ListedUpTo(t)'
  BY <1>1, OldTyped DEF SameCall, SameSlots, Slots, OnlyThread, Others, SameStates, ListedUpTo
<1> QED
  BY <1>1, <1>2, BusySame

LEMMA BusyEarly ==
  ASSUME TypeInv, BusyInv, DumpInv, NEW t \in Threads, EarlyStep(t)
  PROVE  BusyInv' /\ DumpInv'
<1>1. GlobalFds /\ (GlobalThread(t) \/ UNCHANGED thr)
  BY EarlyIsGlobal DEF TypeInv
<1>2. UNCHANGED <<handles, dumped>>
  BY <1>1 DEF GlobalFds
<1>3. CASE GlobalThread(t)
  <2>1. /\ thr[t].pc \in Early /\ thr'[t].pc \in Early \cup {"allocate"} /\ thr'[t].old = 0 /\ Others(t)
        /\ \A j \in Slots(t)' : thr'[t].hs[j] = 0
    BY <1>3 DEF GlobalThread, Others, Slots
  <2>2. \A j \in Slots(t) : thr[t].hs[j] = 0
    BY <2>1 DEF TypeInv, PlaceInv
  <2>3. SameSlots(t) /\ SameStates /\ ListedUpTo(t)' /\ thr[t].pc # "free" /\ thr'[t].pc # "free"
    BY <1>2, <2>1, <2>2 DEF SameSlots, SameStates, ListedUpTo, Early
  <2> QED
    BY <1>2, <2>1, <2>3, BusySame
<1>4. CASE UNCHANGED thr
  BY <1>2, <1>4 DEF BusyInv, DumpInv, SlotsMade, SlotsApart, FreedMade, FreedApart, ListedLive, MadeFound, ListedUpTo, Has, Slots, IsMade
<1> QED
  BY <1>1, <1>3, <1>4

LEMMA BusyLate ==
  ASSUME TypeInv, BusyInv, DumpInv, NEW t \in Threads, LateStep(t)
  PROVE  BusyInv' /\ DumpInv'
<1>0. AllocTypeOK /\ PlaceInv(t) /\ thr[t].old \in Handles \cup {0} /\ (thr[t].pc # "free" => thr[t].old = 0)
  BY OldTyped DEF TypeInv
<1>k. ASSUME NEW h \in Handles, NEW k, handles[h].state = "none", SetHandle(h, NewHandle(k)), thr[t].hs[thr[t].i] = 0,
             thr[t].pc \in {"allocate", "dup"}, OnlyThread(t), SameCall(t), thr'[t].hs = [thr[t].hs EXCEPT ![thr[t].i] = h],
             UNCHANGED dumped, thr'[t].pc \in {"allocate", "dup", "map"}
      PROVE  BusyInv' /\ DumpInv'
  <2>1. thr[t].i \in Slots(t) /\ thr[t].hs \in Seq(Handles \cup {0}) /\ Slots(t) = 1 .. Len(thr[t].ds)
    BY <1>0, <1>k, CallInLoop DEF Slots
  <2>2. Slots(t)' = Slots(t) /\ \A j \in Slots(t) : thr'[t].hs[j] = IF j = thr[t].i THEN h ELSE thr[t].hs[j]
    BY <1>k, <2>1 DEF Slots
  <2>3. handles'[h].state = "made" /\ \A g \in Handles \ {h} : handles'[g].state = handles[g].state
    BY <1>k DEF SetHandle, NewHandle, NoHandle
  <2>4. Others(t) /\ thr'[t].old = 0 /\ thr[t].pc # "free" /\ thr'[t].pc \notin {"free", "attributes", "list"}
    BY <1>0, <1>k DEF Others, OnlyThread, SameCall
  <2> DEFINE i == thr[t].i
  <2>5. /\ i \in Slots(t) /\ thr[t].hs[i] = 0 /\ \A j \in Slots(t) : thr'[t].hs[j] = IF j = i THEN h ELSE thr[t].hs[j]
        /\ Slots(t)' = Slots(t) /\ handles[h].state = "none" /\ UNCHANGED dumped
    BY <1>k, <2>1, <2>2
  <2> HIDE DEF i
  <2> QED
    BY <2>3, <2>4, <2>5, BusyAdopts
<1>1. CASE allocate_own(t)
  <2>1. /\ thr[t].pc = "allocate" /\ ~thr[t].shared /\ FreshHandle \in Handles /\ handles[FreshHandle].state = "none"
        /\ OnlyThread(t) /\ SameCall(t) /\ NextSlot(t, "allocate", "map")
        /\ thr'[t].hs = [thr[t].hs EXCEPT ![thr[t].i] = FreshHandle] /\ UNCHANGED dumped
    BY <1>0, <1>1, AllocateOwnFacts
  <2>2. SetHandle(FreshHandle, NewHandle(Lowest(FreeFds)))
    BY <1>0, <1>1, AllocateOwnSets
  <2>3. thr[t].hs[thr[t].i] = 0 /\ thr'[t].pc \in {"allocate", "dup", "map"}
    <3>1. thr[t].i \in Slots(t) /\ thr[t].i \in Nat
      BY <1>0, <2>1, CallInLoop DEF Slots
    <3> QED
      BY <1>0, <2>1, <3>1 DEF PlaceInv, NextSlot
  <2> QED
    BY <1>k, <2>1, <2>2, <2>3
<1>2. CASE allocate_shared(t)
  <2>1. /\ thr[t].pc = "allocate" /\ OnlyThread(t) /\ SameCall(t) /\ thr'[t].pc = "dup" /\ thr'[t].hs = thr[t].hs
        /\ UNCHANGED <<handles, dumped>>
    BY <1>0, <1>2, AllocateSharedFacts
  <2>2. thr'[t].old = 0 /\ SameSlots(t) /\ Others(t) /\ SameStates /\ ListedUpTo(t)'
    BY <1>0, <2>1 DEF SameCall, SameSlots, Slots, OnlyThread, Others, SameStates, ListedUpTo
  <2> QED
    BY <2>1, <2>2, BusySame
<1>3. CASE allocate_fails(t)
  BY <1>3, BusyGivesUp DEF allocate_fails, At
<1>4. CASE allocate_undefined(t)
  BY <1>4 DEF allocate_undefined, BusyInv, DumpInv, SlotsMade, SlotsApart, FreedMade, FreedApart, ListedLive, MadeFound, ListedUpTo, Has, Slots, IsMade
<1>5. CASE dup_shared(t)
  <2>1. thr[t].pc = "dup" /\ thr[t].fd \in Fds /\ UNCHANGED dumped
    BY <1>0, <1>5, DupFacts DEF PlaceInv
  <2>2. ASSUME NEW k \in Fds, DupAdopts(t, k) PROVE BusyInv' /\ DumpInv'
    <3>1. /\ FreshHandle \in Handles /\ handles[FreshHandle].state = "none"
          /\ OnlyThread(t) /\ SameCall(t) /\ NextSlot(t, "dup", "map")
          /\ thr'[t].hs = [thr[t].hs EXCEPT ![thr[t].i] = FreshHandle]
      BY <2>2 DEF DupAdopts
    <3>2. SetHandle(FreshHandle, NewHandle(k))
      BY <1>0, <2>2, DupAdoptsSets
    <3>3. thr[t].hs[thr[t].i] = 0 /\ thr'[t].pc \in {"allocate", "dup", "map"}
      <4>1. thr[t].i \in Slots(t) /\ thr[t].i \in Nat
        BY <1>0, <2>1, CallInLoop DEF Slots
      <4> QED
        BY <1>0, <2>1, <3>1, <4>1 DEF PlaceInv, NextSlot
    <3> QED
      BY <1>k, <2>1, <3>1, <3>2, <3>3
  <2>3. CASE GiveUp(t) /\ UNCHANGED handles
    BY <2>1, <2>3, BusyGivesUp
  <2> QED
    BY <1>0, <1>5, <2>1, <2>2, <2>3, DupFacts
<1>6. CASE map_buffer(t)
  <2> DEFINE h == thr[t].hs[thr[t].i]
  <2>1. thr[t].pc = "map" /\ UNCHANGED dumped /\ h \in Handles
    BY <1>0, <1>6, MapFacts
  <2>2. CASE GiveUp(t) /\ UNCHANGED handles
    BY <2>1, <2>2, BusyGivesUp
  <2>3. CASE /\ SetHandle(h, [handles[h] EXCEPT !.base = Memory(h)])
             /\ OnlyThread(t) /\ SameCall(t) /\ NextSlot(t, "map", "attributes") /\ thr'[t].hs = thr[t].hs
    <3>1. SameStates
      <4>1. handles[h] \in HandleType
        BY <1>0, <2>1, TypedState
      <4> QED
        BY <2>3, <4>1 DEF SetHandle, SameStates, HandleType
    <3>2. Slots(t)' = Slots(t) /\ \A j \in Slots(t) : j \in Nat /\ j >= 1
      BY <1>0, <2>1, <2>3, CallInLoop DEF Slots
    <3>3. thr'[t].old = 0 /\ SameSlots(t) /\ Others(t) /\ ListedUpTo(t)' /\ thr'[t].pc # "free" /\ thr[t].pc # "free"
      BY <1>0, <2>1, <2>3, <3>2 DEF SameCall, SameSlots, OnlyThread, Others, ListedUpTo, NextSlot
    <3> QED
      BY <2>1, <3>1, <3>3, BusySame
  <2> QED
    BY <1>0, <1>6, <2>2, <2>3, MapFacts
<1>7. CASE gralloc_buffer_attr_allocate(t)
  <2> DEFINE h == thr[t].hs[thr[t].i]
  <2>1. thr[t].pc = "attributes" /\ UNCHANGED dumped /\ h \in Handles
    BY <1>0, <1>7, AttributesFacts
  <2>2. CASE GiveUp(t) /\ UNCHANGED handles
    BY <2>1, <2>2, BusyGivesUp
  <2>3. CASE /\ SetHandle(h, [handles[h] EXCEPT !.attr_fd = Lowest(FreeFds)]) /\ OnlyThread(t) /\ SameCall(t)
             /\ thr'[t].pc = "list" /\ thr'[t].i = thr[t].i /\ thr'[t].hs = thr[t].hs
    <3>1. SameStates
      <4>1. handles[h] \in HandleType
        BY <1>0, <2>1, TypedState
      <4> QED
        BY <2>3, <4>1 DEF SetHandle, SameStates, HandleType
    <3>2. ListedUpTo(t)
      BY DEF DumpInv
    <3>3. thr'[t].old = 0 /\ SameSlots(t) /\ Others(t) /\ ListedUpTo(t)' /\ thr'[t].pc # "free" /\ thr[t].pc # "free"
      BY <1>0, <2>1, <2>3, <3>2 DEF SameCall, SameSlots, OnlyThread, Others, ListedUpTo, Slots
    <3> QED
      BY <2>1, <3>1, <3>3, BusySame
  <2> QED
    BY <1>0, <1>7, <2>2, <2>3, AttributesFacts
<1>8. CASE list_and_number(t)
  <2> DEFINE h == thr[t].hs[thr[t].i]
  <2>1. /\ thr[t].pc = "list" /\ h \in Handles /\ dumped' = dumped \cup {h}
        /\ SetHandle(h, [handles[h] EXCEPT !.id = NumberOf(t)])
    BY <1>0, <1>8, ListFacts
  <2>2. \A g \in Handles : handles'[g].state = handles[g].state
    <3>1. handles[h] \in HandleType
      BY <1>0, <2>1, TypedState
    <3> QED
      BY <2>1, <3>1 DEF SetHandle, HandleType
  <2>3. /\ thr[t].i \in Slots(t) /\ Slots(t) = 1 .. Len(thr[t].ds) /\ Len(thr[t].ds) \in Nat /\ thr[t].i \in Nat
    BY <1>0, <2>1, CallInLoop DEF Slots
  <2>4. \A j \in Slots(t) : j < thr[t].i => thr[t].hs[j] \in dumped
    BY <2>1 DEF DumpInv, ListedUpTo
  <2>5. CASE thr[t].i = Len(thr[t].ds) /\ Fail(t)
    <3>1. Slots(t)' = {} /\ thr'[t].old = 0 /\ thr'[t].pc = "idle" /\ Others(t)
      BY <1>0, <2>5, FailFacts DEF IdleThread, Slots, Others
    <3>2. \A j \in Slots(t) : thr[t].hs[j] \in dumped'
      BY <2>1, <2>3, <2>4, <2>5
    <3> HIDE DEF h
    <3>3. \A g \in Handles : Gone(t, g) => g \in dumped'
      BY <3>2 DEF Gone
    <3>4. ListedUpTo(t)' /\ thr[t].pc # "free"
      BY <2>1, <3>1 DEF ListedUpTo
    <3>5. dumped \subseteq dumped' /\ \A g \in dumped' \ dumped : g \in Handles /\ \E j \in Slots(t) : thr[t].hs[j] = g
      BY <2>1, <2>3 DEF h
    <3> QED
      BY <2>2, <3>1, <3>3, <3>4, <3>5, BusyKept
  <2>6. CASE /\ OnlyThread(t) /\ SameCall(t)
             /\ thr'[t].pc = "attributes" /\ thr'[t].i = thr[t].i + 1 /\ thr'[t].hs = thr[t].hs
    <3>1. Slots(t)' = Slots(t) /\ thr'[t].old = 0 /\ thr'[t].pc # "free" /\ thr[t].pc # "free" /\ Others(t)
      BY <1>0, <2>1, <2>6 DEF Slots, Others, OnlyThread, SameCall
    <3>2. \A j \in Slots(t)' : j < thr[t].i + 1 => thr'[t].hs[j] \in dumped'
      BY <2>1, <2>3, <2>4, <2>6, <3>1
    <3>3. ListedUpTo(t)'
      BY <2>6, <3>2 DEF ListedUpTo
    <3> HIDE DEF h
    <3>4. \A g \in Handles : ~Gone(t, g)
      BY <2>6, <3>1 DEF Gone
    <3>5. \A j \in Slots(t)' : j \in Slots(t) /\ thr[t].hs[j] = thr'[t].hs[j]
      BY <2>6, <3>1
    <3>6. dumped \subseteq dumped' /\ \A g \in dumped' \ dumped : g \in Handles /\ \E j \in Slots(t) : thr[t].hs[j] = g
      BY <2>1, <2>3 DEF h
    <3> QED
      BY <2>2, <3>1, <3>3, <3>4, <3>5, <3>6, BusyKept
  <2> QED
    BY <1>0, <1>8, <2>5, <2>6, ListFacts
<1>9. CASE free_internal(t)
  <2> DEFINE i == thr[t].i
             h == thr[t].hs[i]
  <2>1. /\ thr[t].pc = "undo" /\ UNCHANGED dumped /\ i \in Slots(t) /\ thr[t].hs \in Seq(Handles \cup {0})
        /\ Slots(t) = 1 .. Len(thr[t].ds)
        /\ (h = 0 /\ UNCHANGED handles) \/ (h \in Handles /\ h # 0 /\ SetHandle(h, RolledBack(h)))
    BY <1>0, <1>9, FreeInternalFacts
  <2>2. \A g \in Handles : handles'[g].state = handles[g].state
                           \/ (g = h /\ handles'[g].state # "made" /\ (g \in dumped' => handles'[g].state # "none"))
    BY <2>1, NoHandleFacts DEF SetHandle, RolledBack
  <2>3. h # 0 => h \in Handles /\ handles'[h].state # "made"
    BY <2>1, NoHandleFacts DEF SetHandle, RolledBack
  <2>4. h # 0 => \A j \in Slots(t) : thr[t].hs[j] = h => j = i
    BY <2>1 DEF BusyInv, SlotsApart
  <2>5. \A j \in Slots(t) : j < i => thr[t].hs[j] = 0
    BY <1>0, <2>1 DEF PlaceInv
  <2>n. \A g \in Handles : g # 0
    BY HandleIsNumber
  <2>6. CASE i = Len(thr[t].ds) /\ Fail(t)
    <3>1. Slots(t)' = {} /\ thr'[t].old = 0 /\ thr'[t].pc = "idle" /\ Others(t) /\ thr[t].pc # "free"
      BY <1>0, <2>1, <2>6, FailFacts DEF IdleThread, Slots, Others
    <3>2. \A j \in Slots(t) : thr[t].hs[j] # 0 => j = i
      BY <2>1, <2>5, <2>6
    <3> HIDE DEF i, h
    <3>3. \A g \in Handles : Gone(t, g) <=> g = h
      BY <2>1, <2>n, <3>1, <3>2 DEF Gone, h
    <3>4. ListedUpTo(t)'
      BY <3>1 DEF ListedUpTo
    <3>5. dumped \subseteq dumped' /\ dumped' \ dumped = {}
      BY <2>1
    <3>6. \A g \in Handles : \/ handles'[g].state = handles[g].state
                             \/ Gone(t, g) /\ handles'[g].state # "made" /\ (g \in dumped' => handles'[g].state # "none")
      BY <2>2, <3>3
    <3>7. \A g \in Handles : Gone(t, g) => handles'[g].state # "made"
      BY <2>3, <2>n, <3>3
    <3> QED
      BY <3>1, <3>4, <3>5, <3>6, <3>7, BusyKept
  <2>7. CASE /\ OnlyThread(t) /\ SameCall(t) /\ thr'[t].pc = "undo" /\ thr'[t].hs = [thr[t].hs EXCEPT ![i] = 0]
    <3>1. Slots(t)' = Slots(t) /\ thr'[t].old = 0 /\ thr'[t].pc # "free" /\ thr[t].pc # "free" /\ Others(t) /\ ListedUpTo(t)'
      BY <1>0, <2>1, <2>7 DEF Slots, Others, OnlyThread, SameCall, ListedUpTo
    <3>2. \A j \in Slots(t) : thr'[t].hs[j] = IF j = i THEN 0 ELSE thr[t].hs[j]
      BY <2>1, <2>7 DEF Slots
    <3> HIDE DEF i, h
    <3>3. \A g \in Handles : Gone(t, g) <=> g = h
      BY <2>1, <2>4, <2>n, <3>1, <3>2 DEF Gone, h
    <3>4. \A j \in Slots(t)' : thr'[t].hs[j] # 0 => j \in Slots(t) /\ thr[t].hs[j] = thr'[t].hs[j]
      BY <3>1, <3>2
    <3>5. dumped \subseteq dumped' /\ dumped' \ dumped = {}
      BY <2>1
    <3>6. \A g \in Handles : \/ handles'[g].state = handles[g].state
                             \/ Gone(t, g) /\ handles'[g].state # "made" /\ (g \in dumped' => handles'[g].state # "none")
      BY <2>2, <3>3
    <3>7. \A g \in Handles : Gone(t, g) => handles'[g].state # "made"
      BY <2>3, <2>n, <3>3
    <3> QED
      BY <3>1, <3>4, <3>5, <3>6, <3>7, BusyKept
  <2> QED
    BY <1>0, <1>9, <2>6, <2>7, FreeInternalFacts
<1>10. CASE mali_gralloc_dump_buffer_erase(t)
  BY <1>10, BusyErases
<1>11. CASE mali_gralloc_buffer_free(t)
  BY <1>11, BusyFrees
<1> QED
  BY <1>1, <1>2, <1>3, <1>4, <1>5, <1>6, <1>7, <1>8, <1>9, <1>10, <1>11 DEF LateStep

LEMMA BusyAlways == AllocSpec => [](BusyInv /\ DumpInv)
<1>1. AllocInit => BusyInv /\ DumpInv
  <2> SUFFICES ASSUME AllocInit PROVE BusyInv /\ DumpInv
    OBVIOUS
  <2>1. \A t \in Threads : thr[t].pc = "idle" /\ Slots(t) = {} /\ dumped = {}
    BY DEF AllocInit, IdleThread, Slots
  <2>2. \A h \in Handles : ~IsMade(h)
    BY NoHandleFacts DEF AllocInit, IsMade
  <2> QED
    BY <2>1, <2>2 DEF AllocInit, BusyInv, DumpInv, SlotsMade, SlotsApart, FreedMade, FreedApart, ListedLive, MadeFound, ListedUpTo
<1>2. TypeInv /\ BusyInv /\ DumpInv /\ [AllocNext]_allocVars => BusyInv' /\ DumpInv'
  <2> SUFFICES ASSUME TypeInv, BusyInv, DumpInv, [AllocNext]_allocVars PROVE BusyInv' /\ DumpInv'
    OBVIOUS
  <2>1. CASE UNCHANGED allocVars
    BY <2>1 DEF allocVars, BusyInv, DumpInv, SlotsMade, SlotsApart, FreedMade, FreedApart, ListedLive, MadeFound, ListedUpTo, Has, Slots, IsMade
  <2> QED
    BY <2>1, StepKinds, BusyEarly, BusyLate
<1> QED
  BY <1>1, <1>2, Typed, PTL DEF AllocSpec

\* mali_gralloc_dump_buffers: whenever it runs, the list has every buffer of a client and no struct that
\* was deleted, though structs are rolled back and freed by other threads.
THEOREM DumpsReadLive == AllocSpec => []DumpReadsLive
<1>1. TypeInv /\ DumpInv => DumpReadsLive
  <2> SUFFICES ASSUME TypeInv, DumpInv PROVE DumpReadsLive
    OBVIOUS
  <2>1. \A h \in Handles \ Busy : \A t \in Threads : ~Has(t, h)
    BY DEF Busy, Has, Slots
  <2> QED
    BY <2>1 DEF DumpInv, ListedLive, MadeFound, DumpReadsLive, Complete, IsMade
<1> QED
  BY <1>1, Typed, BusyAlways, PTL
=============================================================================
