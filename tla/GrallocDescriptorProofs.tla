------------------------ MODULE GrallocDescriptorProofs ------------------------
(***************************************************************************)
(* Proofs about the file descriptors of GrallocAllocation: whose each one  *)
(* is, that none is forgotten, that the globals name what is open, and     *)
(* which memory each buffer has and under which backing store id.          *)
(***************************************************************************)
EXTENDS GrallocAllocationProofs

\* What a step may replace although it is nobody's to close: nothing, and the ION device.
Quiet == {Closed, <<"ion", 0>>}

\* Handles have descriptors of their own.
StdioInv == fds[0] = <<"other", 0>>
Kinds ==
  \A h \in Handles : IsMade(h) =>
    /\ IsBuffer(fds[handles[h].share_fd])
    /\ handles[h].attr_fd >= 0 => fds[handles[h].attr_fd] = <<"attributes", 0>>
Apart ==
  \A g, h \in Handles : IsMade(g) /\ IsMade(h) /\ g # h =>
    /\ handles[g].share_fd # handles[h].share_fd
    /\ handles[g].attr_fd >= 0 => handles[g].attr_fd # handles[h].attr_fd

\* Buffers with shared memory: the descriptor it was allocated with belongs to no handle before the
\* largest one's turn, and then to that one.
Owner(t) == thr[t].hs[Largest(t)]
DupOK(t) == thr[t].pc = "dup" =>
  /\ IsBuffer(fds[thr[t].fd])
  /\ \A h \in Handles : IsMade(h) /\ handles[h].share_fd = thr[t].fd => h = Owner(t)
  /\ thr[t].i > Largest(t) => handles[Owner(t)].share_fd = thr[t].fd
DupsApart == \A t, u \in Threads : thr[t].pc = "dup" /\ thr[u].pc = "dup" /\ t # u => thr[t].fd # thr[u].fd
InitOK(t) == thr[t].pc \in Initializing => fds[thr[t].fd] = <<"system", 0>> /\ kernel = "dmabuf"

OwnInv == StdioInv /\ Kinds /\ Apart /\ DupsApart /\ \A t \in Threads : DupOK(t) /\ InitOK(t)

-----------------------------------------------------------------------------
(* A step of t that changes the handles of H, at most one. *)

Closes(H) == {k \in Fds : \E h \in H : IsMade(h) /\ handles'[h].state # "made" /\ k \in Held(h)}
HasSlot(t, h) == \E j \in Slots(t) : thr[t].hs[j] = h
GetsShare(t, h) ==
  \/ fds[handles'[h].share_fd] = Closed /\ IsBuffer(fds'[handles'[h].share_fd])
  \/ IsMade(h) /\ HasSlot(t, h) /\ handles'[h].share_fd = handles[h].share_fd
  \/ thr[t].pc = "dup" /\ thr[t].i = Largest(t) /\ handles'[h].share_fd = thr[t].fd
GetsAttributes(h) ==
  \/ handles'[h].attr_fd = -1
  \/ IsMade(h) /\ handles'[h].attr_fd = handles[h].attr_fd
  \/ fds[handles'[h].attr_fd] = Closed /\ fds'[handles'[h].attr_fd] = <<"attributes", 0>>
OwnStep(t, H) ==
  /\ Others(t) /\ UNCHANGED kernel
  /\ H \subseteq Handles /\ \A g, h \in H : g = h
  /\ \A g \in Handles \ H : handles'[g] = handles[g]
  /\ \A h \in H : IsMade(h) => Has(t, h)
  /\ \A k \in Fds : fds'[k] = fds[k] \/ fds[k] \in Quiet \/ k \in Closes(H)
  /\ \A h \in H : handles'[h].state = "made" => GetsShare(t, h) /\ GetsAttributes(h)

LEMMA HandleParts ==
  ASSUME AllocTypeOK, NEW h \in Handles
  PROVE  /\ handles[h].share_fd \in Fds /\ handles[h].attr_fd \in Fds \cup {-1}
         /\ Held(h) = {handles[h].share_fd} \cup (IF handles[h].attr_fd = -1 THEN {} ELSE {handles[h].attr_fd})
         /\ (handles[h].attr_fd >= 0 <=> handles[h].attr_fd # -1)
<1>1. handles[h] \in HandleType
  BY TypedState
<1>2. handles[h].share_fd \in Fds /\ handles[h].attr_fd \in Fds \cup {-1}
  BY <1>1 DEF HandleType
<1>3. \A k \in Fds : k \in Nat /\ k >= 0
  BY GrallocAllocationAssumption DEF Fds
<1> QED
  BY <1>2, <1>3 DEF Held

\* The kinds tell apart what is open.
LEMMA KindsDiffer ==
  /\ ~IsBuffer(Closed) /\ \A o \in Quiet : ~IsBuffer(o) /\ o # <<"attributes", 0>> /\ o # <<"system", 0>> /\ o # <<"other", 0>>
                                           /\ o # <<"cma", 0>>
  /\ ~IsBuffer(<<"attributes", 0>>) /\ ~IsBuffer(<<"system", 0>>) /\ ~IsBuffer(<<"other", 0>>) /\ ~IsBuffer(<<"cma", 0>>)
  /\ <<"attributes", 0>> # <<"system", 0>> /\ <<"attributes", 0>> # <<"other", 0>> /\ <<"attributes", 0>> # <<"cma", 0>>
BY DEF IsBuffer, Quiet, Closed

\* What is closed is a buffer or an attribute region of the handle.
LEMMA ClosedKinds ==
  ASSUME AllocTypeOK, Kinds, NEW H, H \subseteq Handles, NEW k \in Closes(H)
  PROVE  \E h \in H : /\ IsMade(h) /\ handles'[h].state # "made"
                      /\ \/ k = handles[h].share_fd /\ IsBuffer(fds[k])
                         \/ k = handles[h].attr_fd /\ fds[k] = <<"attributes", 0>>
<1>1. PICK h \in H : IsMade(h) /\ handles'[h].state # "made" /\ k \in Held(h)
  BY DEF Closes
<1>2. h \in Handles
  OBVIOUS
<1>3. k = handles[h].share_fd \/ (k = handles[h].attr_fd /\ handles[h].attr_fd >= 0)
  BY <1>1, <1>2, HandleParts
<1> QED
  BY <1>1, <1>2, <1>3 DEF Kinds

\* What belongs to no handle stays open.
LEMMA OtherFdsStay ==
  ASSUME AllocTypeOK, Kinds, NEW t \in Threads, NEW H, OwnStep(t, H), NEW k \in Fds,
         fds[k] \in {<<"system", 0>>, <<"cma", 0>>, <<"other", 0>>}
  PROVE  fds'[k] = fds[k]
<1>1. H \subseteq Handles /\ (fds'[k] = fds[k] \/ fds[k] \in Quiet \/ k \in Closes(H))
  BY DEF OwnStep
<1>2. k \notin Closes(H)
  BY <1>1, ClosedKinds, KindsDiffer
<1> QED
  BY <1>1, <1>2, KindsDiffer

\* What the other handles have stays open.
LEMMA OtherHandlesStay ==
  ASSUME AllocTypeOK, Kinds, Apart, NEW t \in Threads, NEW H, OwnStep(t, H), NEW g \in Handles, IsMade(g), g \notin H \/ handles'[g].state = "made"
  PROVE  /\ fds'[handles[g].share_fd] = fds[handles[g].share_fd]
         /\ handles[g].attr_fd >= 0 => fds'[handles[g].attr_fd] = fds[handles[g].attr_fd]
<1>1. H \subseteq Handles /\ \A k \in Fds : fds'[k] = fds[k] \/ fds[k] \in Quiet \/ k \in Closes(H)
  BY DEF OwnStep
<1>2. handles[g].share_fd \in Fds /\ handles[g].attr_fd \in Fds \cup {-1} /\ (handles[g].attr_fd >= 0 => handles[g].attr_fd \in Fds)
  BY HandleParts
<1>3. IsBuffer(fds[handles[g].share_fd]) /\ (handles[g].attr_fd >= 0 => fds[handles[g].attr_fd] = <<"attributes", 0>>)
  BY DEF Kinds
<1>4. handles[g].share_fd \notin Closes(H)
  <2> SUFFICES ASSUME handles[g].share_fd \in Closes(H) PROVE FALSE
    OBVIOUS
  <2>1. PICK h \in H : /\ IsMade(h) /\ handles'[h].state # "made"
                       /\ \/ handles[g].share_fd = handles[h].share_fd
                          \/ fds[handles[g].share_fd] = <<"attributes", 0>>
    BY <1>1, ClosedKinds
  <2>2. h # g /\ h \in Handles
    BY <1>1, <2>1
  <2> QED
    BY <1>3, <2>1, <2>2, KindsDiffer DEF Apart
<1>5. handles[g].attr_fd >= 0 => handles[g].attr_fd \notin Closes(H)
  <2> SUFFICES ASSUME handles[g].attr_fd >= 0, handles[g].attr_fd \in Closes(H) PROVE FALSE
    OBVIOUS
  <2>1. PICK h \in H : /\ IsMade(h) /\ handles'[h].state # "made"
                       /\ \/ IsBuffer(fds[handles[g].attr_fd])
                          \/ handles[g].attr_fd = handles[h].attr_fd
    BY <1>1, ClosedKinds
  <2>2. h # g /\ h \in Handles
    BY <1>1, <2>1
  <2> QED
    BY <1>3, <2>1, <2>2, KindsDiffer DEF Apart
<1> QED
  BY <1>1, <1>2, <1>3, <1>4, <1>5, KindsDiffer

LEMMA KindsKept ==
  ASSUME AllocTypeOK, AllocTypeOK', Kinds, Apart, NEW t \in Threads, NEW H, OwnStep(t, H), DupOK(t)
  PROVE  Kinds'
<1> SUFFICES ASSUME NEW g \in Handles, handles'[g].state = "made"
             PROVE  /\ IsBuffer(fds'[handles'[g].share_fd])
                    /\ handles'[g].attr_fd >= 0 => fds'[handles'[g].attr_fd] = <<"attributes", 0>>
  BY DEF Kinds, IsMade, IsBuffer
<1>0. H \subseteq Handles
  BY DEF OwnStep
<1>1. CASE g \notin H
  <2>1. handles'[g] = handles[g]
    BY <1>1 DEF OwnStep
  <2>2. IsMade(g)
    BY <2>1 DEF IsMade
  <2> QED
    BY <1>1, <2>1, <2>2, OtherHandlesStay DEF Kinds
<1>2. CASE g \in H
  <2>1. GetsShare(t, g) /\ GetsAttributes(g)
    BY <1>2 DEF OwnStep
  <2>2. IsBuffer(fds'[handles'[g].share_fd])
    <3>1. CASE IsMade(g) /\ handles'[g].share_fd = handles[g].share_fd
      BY <3>1, OtherHandlesStay DEF Kinds
    <3>2. CASE thr[t].pc = "dup" /\ handles'[g].share_fd = thr[t].fd
      <4>1. IsBuffer(fds[thr[t].fd]) /\ handles'[g].share_fd \in Fds
        BY <3>2 DEF DupOK, AllocTypeOK
      <4>2. thr[t].fd \notin Closes(H)
        <5> SUFFICES ASSUME thr[t].fd \in Closes(H) PROVE FALSE
          OBVIOUS
        <5>1. PICK h \in H : IsMade(h) /\ handles'[h].state # "made"
          BY DEF Closes
        <5>2. h = g
          BY <1>2 DEF OwnStep
        <5> QED
          BY <5>1, <5>2
      <4>3. fds'[thr[t].fd] = fds[thr[t].fd] \/ fds[thr[t].fd] \in Quiet \/ thr[t].fd \in Closes(H)
        BY <3>2, <4>1 DEF OwnStep
      <4> QED
        BY <3>2, <4>1, <4>2, <4>3, KindsDiffer
    <3> QED
      BY <2>1, <3>1, <3>2 DEF GetsShare
  <2>3. ASSUME handles'[g].attr_fd >= 0 PROVE fds'[handles'[g].attr_fd] = <<"attributes", 0>>
    <3>1. CASE IsMade(g) /\ handles'[g].attr_fd = handles[g].attr_fd
      BY <2>3, <3>1, OtherHandlesStay DEF Kinds
    <3> QED
      BY <2>1, <2>3, <3>1 DEF GetsAttributes
  <2> QED
    BY <2>2, <2>3
<1> QED
  BY <1>1, <1>2

\* A handle that is not changed has nothing of one that is.
LEMMA NewIsApart ==
  ASSUME AllocTypeOK, AllocTypeOK', Kinds, Apart, NEW t \in Threads, NEW H, OwnStep(t, H), DupOK(t), TypeInv,
         NEW h \in H, handles'[h].state = "made", NEW g \in Handles \ H, IsMade(g)
  PROVE  /\ handles[g].share_fd # handles'[h].share_fd
         /\ handles[g].attr_fd >= 0 => handles[g].attr_fd # handles'[h].attr_fd
<1>1. GetsShare(t, h) /\ GetsAttributes(h) /\ h \in Handles /\ g # h
  BY DEF OwnStep
<1>2. IsBuffer(fds[handles[g].share_fd]) /\ (handles[g].attr_fd >= 0 => fds[handles[g].attr_fd] = <<"attributes", 0>>)
  BY DEF Kinds
<1>3. handles[g].share_fd # handles'[h].share_fd
  <2>1. CASE fds[handles'[h].share_fd] = Closed
    BY <1>2, <2>1, KindsDiffer
  <2>2. CASE IsMade(h) /\ handles'[h].share_fd = handles[h].share_fd
    BY <1>1, <2>2 DEF Apart
  <2>3. CASE thr[t].pc = "dup" /\ thr[t].i = Largest(t) /\ handles'[h].share_fd = thr[t].fd
    <3> SUFFICES ASSUME handles[g].share_fd = thr[t].fd PROVE FALSE
      BY <2>3
    <3>1. g = Owner(t)
      BY <2>3 DEF DupOK
    <3>2. Largest(t) \in Slots(t) /\ Largest(t) \in Nat
      BY <2>3, CallInLoop DEF Slots
    <3>3. Owner(t) = 0
      BY <2>3, <3>2 DEF TypeInv, PlaceInv, Owner
    <3> QED
      BY <3>1, <3>3, HandleIsNumber
  <2> QED
    BY <1>1, <2>1, <2>2, <2>3 DEF GetsShare
<1>4. handles[g].attr_fd >= 0 => handles[g].attr_fd # handles'[h].attr_fd
  <2>1. CASE handles'[h].attr_fd = -1
    BY <2>1
  <2>2. CASE IsMade(h) /\ handles'[h].attr_fd = handles[h].attr_fd
    BY <1>1, <2>2 DEF Apart
  <2>3. CASE fds[handles'[h].attr_fd] = Closed
    BY <1>2, <2>3 DEF Closed
  <2> QED
    BY <1>1, <2>1, <2>2, <2>3 DEF GetsAttributes
<1> QED
  BY <1>3, <1>4

LEMMA ApartKept ==
  ASSUME TypeInv, TypeInv', Kinds, Apart, NEW t \in Threads, NEW H, OwnStep(t, H), DupOK(t)
  PROVE  Apart'
<1>0. AllocTypeOK /\ AllocTypeOK' /\ H \subseteq Handles /\ \A g, h \in H : g = h
  BY DEF TypeInv, OwnStep
<1> SUFFICES ASSUME NEW g \in Handles, NEW h \in Handles, handles'[g].state = "made", handles'[h].state = "made", g # h
             PROVE  /\ handles'[g].share_fd # handles'[h].share_fd
                    /\ handles'[g].attr_fd >= 0 => handles'[g].attr_fd # handles'[h].attr_fd
  BY DEF Apart, IsMade
<1>1. \A f \in Handles \ H : handles'[f] = handles[f]
  BY DEF OwnStep
<1>2. CASE g \notin H /\ h \notin H
  <2>1. handles'[g] = handles[g] /\ handles'[h] = handles[h]
    BY <1>1, <1>2
  <2>2. IsMade(g) /\ IsMade(h)
    BY <2>1 DEF IsMade
  <2> QED
    BY <2>1, <2>2 DEF Apart
<1>3. CASE g \notin H /\ h \in H
  <2>1. handles'[g] = handles[g]
    BY <1>1, <1>3
  <2>2. IsMade(g)
    BY <2>1 DEF IsMade
  <2> QED
    BY <1>0, <1>3, <2>1, <2>2, NewIsApart
<1>4. CASE g \in H /\ h \notin H
  <2>1. handles'[h] = handles[h]
    BY <1>1, <1>4
  <2>2. IsMade(h)
    BY <2>1 DEF IsMade
  <2>3. /\ handles[h].share_fd # handles'[g].share_fd
        /\ handles[h].attr_fd >= 0 => handles[h].attr_fd # handles'[g].attr_fd
    BY <1>0, <1>4, <2>2, NewIsApart
  <2> QED
    BY <2>1, <2>3
<1> QED
  BY <1>0, <1>2, <1>3, <1>4

LEMMA NotTwice ==
  ASSUME TypeInv, BusyInv, NEW t \in Threads, NEW u \in Threads, u # t, NEW h \in Handles, Has(t, h)
  PROVE  ~HasSlot(u, h)
<1> SUFFICES ASSUME NEW k \in Slots(u), thr[u].hs[k] = h PROVE FALSE
  BY DEF HasSlot
<1>1. h # 0
  BY HandleIsNumber
<1>2. CASE thr[t].old = h
  <2>1. thr[t].pc = "free"
    BY <1>1, <1>2, OldTyped
  <2> QED
    BY <1>2, <2>1 DEF BusyInv, FreedApart
<1>3. CASE \E j \in Slots(t) : thr[t].hs[j] = h
  BY <1>1, <1>3 DEF BusyInv, SlotsApart
<1> QED
  BY <1>2, <1>3 DEF Has

\* Who allocated shared memory finds it, whatever others do.
LEMMA DupOthers ==
  ASSUME TypeInv, BusyInv, OwnInv, NEW t \in Threads, NEW H, OwnStep(t, H), NEW u \in Threads, u # t
  PROVE  DupOK(u)'
<1>0. /\ AllocTypeOK /\ Kinds /\ Apart /\ DupsApart /\ DupOK(u) /\ H \subseteq Handles
      /\ \A h \in H : IsMade(h) => Has(t, h)
  BY DEF TypeInv, OwnInv, OwnStep
<1>1. thr'[u] = thr[u] /\ Owner(u)' = Owner(u) /\ Largest(u)' = Largest(u)
  BY DEF OwnStep, Others, Owner, Largest
<1> SUFFICES ASSUME thr[u].pc = "dup"
             PROVE  /\ IsBuffer(fds'[thr[u].fd])
                    /\ \A h \in Handles : handles'[h].state = "made" /\ handles'[h].share_fd = thr[u].fd => h = Owner(u)
                    /\ thr[u].i > Largest(u) => handles'[Owner(u)].share_fd = thr[u].fd
  BY <1>1 DEF DupOK, IsMade, IsBuffer
<1>2. thr[u].fd \in Fds /\ IsBuffer(fds[thr[u].fd]) /\ Largest(u) \in Slots(u)
  BY <1>0, CallInLoop DEF TypeInv, PlaceInv, DupOK, Slots
<1>3. \A h \in H : IsMade(h) => ~HasSlot(u, h)
  BY <1>0, NotTwice
<1>4. \A h \in Handles : IsMade(h) /\ handles[h].share_fd = thr[u].fd => h = Owner(u) /\ HasSlot(u, h)
  BY <1>0, <1>2 DEF DupOK, HasSlot, Owner
<1>5. IsBuffer(fds'[thr[u].fd])
  <2>1. thr[u].fd \notin Closes(H)
    BY <1>0, <1>2, <1>3, <1>4, ClosedKinds, KindsDiffer
  <2> QED
    BY <1>2, <2>1, KindsDiffer DEF OwnStep
<1>6. ASSUME NEW h \in Handles, handles'[h].state = "made", handles'[h].share_fd = thr[u].fd PROVE h = Owner(u)
  <2>1. CASE h \notin H
    <3>1. handles'[h] = handles[h]
      BY <2>1 DEF OwnStep
    <3> QED
      BY <1>4, <1>6, <3>1 DEF IsMade
  <2>2. CASE h \in H
    <3>1. GetsShare(t, h)
      BY <1>6, <2>2 DEF OwnStep
    <3>2. fds[handles'[h].share_fd] # Closed
      BY <1>2, <1>6, KindsDiffer
    <3>3. ~(thr[t].pc = "dup" /\ handles'[h].share_fd = thr[t].fd)
      BY <1>0, <1>6 DEF DupsApart
    <3> QED
      BY <1>4, <1>6, <3>1, <3>2, <3>3 DEF GetsShare
  <2> QED
    BY <2>1, <2>2
<1>7. ASSUME thr[u].i > Largest(u) PROVE handles'[Owner(u)].share_fd = thr[u].fd
  <2>1. Owner(u) # 0 /\ Largest(u) \in Nat /\ thr[u].i \in Nat
    BY <1>0, <1>2, <1>7, CallInLoop DEF TypeInv, PlaceInv, Owner
  <2>2. Owner(u) \in Handles /\ HasSlot(u, Owner(u)) /\ IsMade(Owner(u))
    BY <1>0, <1>2, <2>1, SlotTyped DEF BusyInv, SlotsMade, HasSlot, Owner
  <2>3. Owner(u) \notin H
    BY <1>3, <2>2
  <2>4. handles'[Owner(u)] = handles[Owner(u)]
    BY <2>2, <2>3 DEF OwnStep
  <2> QED
    BY <1>0, <1>7, <2>4 DEF DupOK
<1> QED
  BY <1>5, <1>6, <1>7

\* The thread that takes the step has begun to share memory, or goes on, or has nothing to share.
SharesOn(t) ==
  thr'[t].pc = "dup" => \/ thr[t].pc = "dup" /\ thr'[t].fd = thr[t].fd
                        \/ thr'[t].fd \in Fds /\ fds[thr'[t].fd] = Closed
LEMMA DupsApartKept ==
  ASSUME TypeInv, OwnInv, NEW t \in Threads, Others(t), SharesOn(t)
  PROVE  DupsApart'
<1>1. \A u \in Threads : thr[u].pc = "dup" => IsBuffer(fds[thr[u].fd])
  BY DEF OwnInv, DupOK
<1>2. \A u \in Threads : thr'[u].pc = "dup" =>
        \/ thr[u].pc = "dup" /\ thr'[u].fd = thr[u].fd
        \/ u = t /\ fds[thr'[u].fd] = Closed
  BY DEF Others, SharesOn
<1> QED
  BY <1>1, <1>2, KindsDiffer DEF OwnInv, DupsApart

LEMMA OwnKept ==
  ASSUME TypeInv, TypeInv', BusyInv, OwnInv, NEW t \in Threads, NEW H, OwnStep(t, H), SharesOn(t), DupOK(t)', InitOK(t)'
  PROVE  OwnInv'
<1>0. AllocTypeOK /\ AllocTypeOK' /\ Kinds /\ Apart /\ DupOK(t) /\ Others(t) /\ StdioInv
  BY DEF TypeInv, OwnInv, OwnStep
<1>1. StdioInv'
  <2>1. 0 \in Fds
    BY GrallocAllocationAssumption DEF Fds
  <2> QED
    BY <1>0, <2>1, OtherFdsStay DEF StdioInv
<1>2. Kinds' /\ Apart'
  BY <1>0, KindsKept, ApartKept
<1>3. DupsApart'
  BY <1>0, DupsApartKept
<1>4. \A u \in Threads : DupOK(u)'
  BY DupOthers
<1>5. ASSUME NEW u \in Threads, u # t PROVE InitOK(u)'
  <2>1. thr'[u] = thr[u] /\ InitOK(u) /\ UNCHANGED kernel
    BY <1>5 DEF OwnInv, OwnStep, Others
  <2>2. thr[u].pc \in Initializing => thr[u].fd \in Fds
    BY DEF TypeInv, PlaceInv
  <2> QED
    BY <1>0, <2>1, <2>2, OtherFdsStay DEF InitOK
<1> QED
  BY <1>1, <1>2, <1>3, <1>4, <1>5 DEF OwnInv

-----------------------------------------------------------------------------
(* The steps, one by one. *)

LEMMA OwnEarly ==
  ASSUME TypeInv, TypeInv', BusyInv, OwnInv, NEW t \in Threads, EarlyStep(t)
  PROVE  OwnInv'
<1>0. AllocTypeOK /\ PlaceInv(t) /\ InitOK(t) /\ Kinds
  BY DEF TypeInv, OwnInv
<1>1. GlobalFds /\ (GlobalThread(t) \/ (UNCHANGED <<fds, thr>>))
  BY <1>0, EarlyIsGlobal
<1>2. thr[t].pc # "dup" /\ thr'[t].pc # "dup"
  <2>1. thr[t].pc \in Early
    BY DEF EarlyStep, Early, At, mali_gralloc_buffer_allocate, test_caps_read, lock_caps, determine_caps, restrict_caps,
           publish_caps, unlock_caps, use_caps, initialize_interface, dma_heap_open_system, set_interface_ver, set_system_heap,
           dma_heap_open_cma, ion_open_first, find_heaps, ion_close, forget_client, reopen_client, share
  <2> QED
    BY <1>1, <2>1 DEF GlobalThread, Early
<1>3. OwnStep(t, {})
  BY <1>1 DEF OwnStep, GlobalFds, GlobalThread, Others, Quiet
<1>4. InitOK(t)'
  <2>1. UNCHANGED kernel
    BY <1>1 DEF GlobalFds
  <2>2. thr[t].pc \in Initializing => thr[t].fd \in Fds
    BY <1>0 DEF PlaceInv
  <2>3. thr[t].pc \in Initializing => fds'[thr[t].fd] = <<"system", 0>> /\ kernel = "dmabuf"
    BY <1>0, <1>3, <2>2, OtherFdsStay DEF InitOK
  <2>4. CASE GlobalThread(t)
    BY <2>1, <2>3, <2>4 DEF InitOK, GlobalThread
  <2>5. CASE UNCHANGED thr
    BY <2>1, <2>3, <2>5 DEF InitOK
  <2> QED
    BY <1>1, <2>4, <2>5
<1>5. DupOK(t)' /\ SharesOn(t)
  BY <1>2 DEF DupOK, SharesOn
<1> QED
  BY <1>3, <1>4, <1>5, OwnKept

LEMMA NoInit ==
  ASSUME NEW t \in Threads, thr'[t].pc \notin Initializing
  PROVE  InitOK(t)'
BY DEF InitOK

LEMMA NoDup ==
  ASSUME NEW t \in Threads, thr'[t].pc # "dup"
  PROVE  DupOK(t)' /\ SharesOn(t)
BY DEF DupOK, SharesOn

\* A step that changes neither descriptors nor handles, of a thread that does not share memory after it.
LEMMA OwnSame ==
  ASSUME TypeInv, TypeInv', BusyInv, OwnInv, NEW t \in Threads, Others(t), UNCHANGED <<kernel, fds, handles>>,
         thr'[t].pc # "dup", thr'[t].pc \notin Initializing
  PROVE  OwnInv'
<1>1. OwnStep(t, {})
  BY DEF OwnStep
<1> QED
  BY <1>1, NoDup, NoInit, OwnKept

LEMMA OwnGivesUp ==
  ASSUME TypeInv, TypeInv', BusyInv, OwnInv, NEW t \in Threads, thr[t].pc \notin {"idle", "free"},
         GiveUp(t), UNCHANGED <<kernel, fds, handles>>
  PROVE  OwnInv'
<1>1. OnlyThread(t) /\ thr'[t].pc = "undo"
  BY GiveUpFacts DEF TypeInv
<1> QED
  BY <1>1, OwnSame DEF OnlyThread, Others, Initializing

LEMMA OwnAllocateOwn ==
  ASSUME TypeInv, TypeInv', BusyInv, OwnInv, NEW t \in Threads, allocate_own(t)
  PROVE  OwnInv'
<1> DEFINE k == Lowest(FreeFds)
           h == FreshHandle
<1>0. AllocTypeOK
  BY DEF TypeInv
<1>1. /\ k \in Fds /\ fds[k] = Closed /\ h \in Handles /\ handles[h].state = "none" /\ OnlyThread(t)
      /\ UNCHANGED kernel /\ NextSlot(t, "allocate", "map")
  BY <1>0, AllocateOwnFacts
<1>2. SetFd(k, NewBuffer) /\ SetHandle(h, NewHandle(k))
  BY <1>0, AllocateOwnSets
<1>3. thr'[t].pc # "dup" /\ thr'[t].pc \notin Initializing
  BY <1>1 DEF NextSlot, Initializing
<1>4. NewHandle(k).share_fd = k /\ NewHandle(k).attr_fd = -1 /\ IsBuffer(NewBuffer)
  BY <1>1, NewHandleFacts DEF IsBuffer, NewBuffer
<1> HIDE DEF k, h
<1>5. GetsShare(t, h) /\ GetsAttributes(h)
  BY <1>1, <1>2, <1>4 DEF GetsShare, GetsAttributes, SetFd, SetHandle
<1>6. OwnStep(t, {h})
  BY <1>1, <1>2, <1>5 DEF OwnStep, OnlyThread, Others, SetFd, SetHandle, Quiet, IsMade
<1> QED
  BY <1>3, <1>6, NoDup, NoInit, OwnKept

LEMMA OwnAllocateShared ==
  ASSUME TypeInv, TypeInv', BusyInv, OwnInv, NEW t \in Threads, allocate_shared(t)
  PROVE  OwnInv'
<1> DEFINE k == Lowest(FreeFds)
<1>0. AllocTypeOK /\ AllocTypeOK' /\ Kinds
  BY DEF TypeInv, OwnInv
<1>1. /\ k \in Fds /\ fds[k] = Closed /\ OnlyThread(t) /\ UNCHANGED <<kernel, handles>>
      /\ thr'[t].pc = "dup" /\ thr'[t].fd = k /\ thr'[t].i = 1
  BY <1>0, AllocateSharedFacts
<1>2. SetFd(k, NewBuffer) /\ IsBuffer(NewBuffer)
  BY <1>0, AllocateSharedSets DEF IsBuffer, NewBuffer
<1> HIDE DEF k
<1>3. OwnStep(t, {})
  BY <1>1, <1>2 DEF OwnStep, OnlyThread, Others, SetFd, Quiet
<1>4. SharesOn(t) /\ InitOK(t)'
  BY <1>1 DEF SharesOn, InitOK, Initializing
<1>5. ~(thr'[t].i > Largest(t)')
  <2>1. Largest(t)' = Largest(t) /\ Largest(t) \in 1 .. Len(thr[t].ds)
    BY <1>0, AllocateSharedFacts, CallInLoop DEF Largest, SameCall
  <2> QED
    BY <1>1, <2>1
<1>6. \A h \in Handles : IsMade(h) => handles[h].share_fd # k
  BY <1>0, <1>1, KindsDiffer DEF Kinds
<1>7. DupOK(t)'
  BY <1>1, <1>2, <1>5, <1>6 DEF DupOK, SetFd, IsMade, IsBuffer
<1> QED
  BY <1>3, <1>4, <1>7, OwnKept

\* A thread that adopts a descriptor while it shares memory.
LEMMA OwnDupAdopts ==
  ASSUME TypeInv, TypeInv', BusyInv, OwnInv, NEW t \in Threads, thr[t].pc = "dup", UNCHANGED kernel,
         NEW k \in Fds, DupAdopts(t, k), \A l \in Fds \ {k} : fds'[l] = fds[l],
         \/ thr[t].i = Largest(t) /\ k = thr[t].fd /\ fds'[k] = fds[k]
         \/ thr[t].i # Largest(t) /\ fds[k] = Closed /\ fds'[k] = fds[thr[t].fd]
  PROVE  OwnInv'
<1> DEFINE h == FreshHandle
<1>0. /\ AllocTypeOK /\ Kinds /\ PlaceInv(t) /\ DupOK(t) /\ thr[t].fd \in Fds /\ IsBuffer(fds[thr[t].fd])
  BY DEF TypeInv, OwnInv, DupOK, PlaceInv
<1>1. /\ h \in Handles /\ handles[h].state = "none" /\ OnlyThread(t) /\ SameCall(t) /\ NextSlot(t, "dup", "map")
      /\ thr'[t].hs = [thr[t].hs EXCEPT ![thr[t].i] = h]
      /\ thr'[t].fd = IF thr[t].i = Len(thr[t].ds) THEN -1 ELSE thr[t].fd
  BY DEF DupAdopts
<1>2. SetHandle(h, NewHandle(k))
  BY <1>0, DupAdoptsSets
<1>3. NewHandle(k).state = "made" /\ NewHandle(k).share_fd = k /\ NewHandle(k).attr_fd = -1
  BY NewHandleFacts
<1> HIDE DEF h
<1>4. GetsShare(t, h) /\ GetsAttributes(h)
  BY <1>0, <1>2, <1>3 DEF GetsShare, GetsAttributes, SetHandle
<1>5. \A l \in Fds : fds'[l] = fds[l] \/ fds[l] \in Quiet
  BY DEF Quiet
<1>6. OwnStep(t, {h})
  BY <1>1, <1>2, <1>4, <1>5 DEF OwnStep, OnlyThread, Others, SetHandle, IsMade
<1>7. thr'[t].pc \notin Initializing
  BY <1>1 DEF NextSlot, Initializing
<1>8. CASE thr'[t].pc # "dup"
  BY <1>6, <1>7, <1>8, NoDup, NoInit, OwnKept
<1>9. CASE thr'[t].pc = "dup"
  <2>1. thr[t].i # Len(thr[t].ds) /\ thr'[t].i = thr[t].i + 1 /\ thr'[t].fd = thr[t].fd
    BY <1>1, <1>9 DEF NextSlot
  <2>2. /\ thr[t].i \in Slots(t) /\ Largest(t) \in Slots(t) /\ Slots(t) = 1 .. Len(thr[t].ds) /\ thr[t].hs \in Seq(Handles \cup {0})
        /\ \A j \in Slots(t) : j \in Nat
    BY <1>0, CallInLoop DEF Slots
  <2>3. Largest(t)' = Largest(t)
    BY <1>1 DEF Largest, SameCall
  <2>4. Owner(t)' = IF thr[t].i = Largest(t) THEN h ELSE Owner(t)
    BY <1>1, <2>2, <2>3 DEF Owner, Slots
  <2>5. IsBuffer(fds'[thr[t].fd])
    BY <1>0, KindsDiffer
  <2>6. thr[t].i = Largest(t) => Owner(t) = 0
    BY <1>0, <2>2 DEF PlaceInv, Owner
  <2>7. ASSUME NEW g \in Handles, handles'[g].state = "made", handles'[g].share_fd = thr[t].fd PROVE g = Owner(t)'
    <3>1. CASE g = h
      <4>1. k = thr[t].fd
        BY <1>2, <1>3, <2>7, <3>1 DEF SetHandle
      <4> QED
        BY <1>0, <2>4, <3>1, <4>1, KindsDiffer
    <3>2. CASE g # h
      <4>1. handles'[g] = handles[g]
        BY <1>2, <3>2 DEF SetHandle
      <4>2. g = Owner(t)
        BY <1>0, <2>7, <4>1 DEF DupOK, IsMade
      <4> QED
        BY <2>4, <2>6, <4>2, HandleIsNumber
    <3> QED
      BY <3>1, <3>2
  <2>8. ASSUME thr'[t].i > Largest(t) PROVE handles'[Owner(t)'].share_fd = thr[t].fd
    <3>1. CASE thr[t].i = Largest(t)
      BY <1>2, <1>3, <2>4, <3>1 DEF SetHandle
    <3>2. CASE thr[t].i # Largest(t)
      <4>1. thr[t].i > Largest(t)
        BY <2>1, <2>2, <2>8, <3>2
      <4>2. Owner(t) \in Handles /\ IsMade(Owner(t)) /\ handles[Owner(t)].share_fd = thr[t].fd
        <5>1. Owner(t) # 0
          BY <1>0, <2>2, <4>1 DEF PlaceInv, Owner
        <5> QED
          BY <1>0, <2>2, <4>1, <5>1, SlotTyped DEF Owner, DupOK, BusyInv, SlotsMade
      <4>3. Owner(t) # h
        BY <1>1, <4>2 DEF IsMade
      <4>4. handles'[Owner(t)] = handles[Owner(t)]
        BY <1>2, <4>2, <4>3 DEF SetHandle
      <4> QED
        BY <2>4, <3>2, <4>2, <4>4
    <3> QED
      BY <3>1, <3>2
  <2>9. DupOK(t)'
    BY <2>1, <2>3, <2>5, <2>7, <2>8 DEF DupOK, IsMade, IsBuffer
  <2>10. SharesOn(t)
    BY <2>1 DEF SharesOn
  <2> QED
    BY <1>6, <1>7, <2>9, <2>10, NoInit, OwnKept
<1> QED
  BY <1>8, <1>9

\* A thread fills in a handle it has made; at most an attribute region is opened for it.
LEMMA OwnFillsIn ==
  ASSUME TypeInv, TypeInv', BusyInv, OwnInv, NEW t \in Threads, UNCHANGED kernel, Others(t),
         NEW i \in Slots(t), NEW h \in Handles, h = thr[t].hs[i], NEW r, SetHandle(h, r),
         r.share_fd = handles[h].share_fd,
         r.attr_fd = handles[h].attr_fd \/ (fds[r.attr_fd] = Closed /\ fds'[r.attr_fd] = <<"attributes", 0>>),
         \A k \in Fds : fds'[k] = fds[k] \/ fds[k] = Closed,
         thr'[t].pc # "dup", thr'[t].pc \notin Initializing
  PROVE  OwnInv'
<1>1. IsMade(h) /\ HasSlot(t, h)
  BY HandleIsNumber DEF BusyInv, SlotsMade, HasSlot
<1>2. GetsShare(t, h) /\ GetsAttributes(h)
  BY <1>1 DEF GetsShare, GetsAttributes, SetHandle
<1>3. OwnStep(t, {h})
  BY <1>1, <1>2 DEF OwnStep, SetHandle, Quiet, Has, HasSlot
<1> QED
  BY <1>3, NoDup, NoInit, OwnKept

\* A thread closes what one of its handles has and clears it.
LEMMA OwnCloses ==
  ASSUME TypeInv, TypeInv', BusyInv, OwnInv, NEW t \in Threads, UNCHANGED kernel, Others(t),
         NEW h \in Handles, Has(t, h), IsMade(h), NEW r \in {NoHandle, ZeroHandle}, SetHandle(h, r),
         \A k \in Fds : fds'[k] = IF k \in Held(h) THEN Closed ELSE fds[k],
         thr'[t].pc # "dup", thr'[t].pc \notin Initializing
  PROVE  OwnInv'
<1>1. handles'[h].state # "made"
  BY NoHandleFacts DEF SetHandle
<1>2. \A k \in Fds : fds'[k] = fds[k] \/ k \in Closes({h})
  BY <1>1 DEF Closes
<1>3. OwnStep(t, {h})
  BY <1>1, <1>2 DEF OwnStep, SetHandle
<1> QED
  BY <1>3, NoDup, NoInit, OwnKept

LEMMA OwnLate ==
  ASSUME TypeInv, TypeInv', BusyInv, OwnInv, NEW t \in Threads, LateStep(t)
  PROVE  OwnInv'
<1>0. AllocTypeOK /\ PlaceInv(t) /\ UNCHANGED kernel /\ Others(t) /\ thr'[t].pc \notin Initializing
  BY LatePc DEF TypeInv, Others, Initializing, Filled
<1>f. Fail(t) => thr'[t].pc = "idle"
  BY <1>0, FailPc
<1>1. CASE allocate_own(t)
  BY <1>1, OwnAllocateOwn
<1>2. CASE allocate_shared(t)
  BY <1>2, OwnAllocateShared
<1>3. CASE allocate_fails(t)
  BY <1>0, <1>3, OwnGivesUp DEF allocate_fails, At
<1>4. CASE allocate_undefined(t)
  BY <1>0, <1>4, OwnSame DEF allocate_undefined, At
<1>5. CASE dup_shared(t)
  <2>1. thr[t].pc = "dup" /\ thr[t].fd \in Fds
    BY <1>0, <1>5, DupFacts DEF PlaceInv
  <2>2. CASE thr[t].i = Largest(t) /\ DupAdopts(t, thr[t].fd) /\ UNCHANGED fds
    BY <1>0, <2>1, <2>2, OwnDupAdopts
  <2>3. CASE /\ thr[t].i # Largest(t) /\ Lowest(FreeFds) \in Fds /\ fds[Lowest(FreeFds)] = Closed
             /\ DupAdopts(t, Lowest(FreeFds)) /\ fds' = [fds EXCEPT ![Lowest(FreeFds)] = fds[thr[t].fd]]
    <3> DEFINE k == Lowest(FreeFds)
    <3>1. SetFd(k, fds[thr[t].fd])
      BY <1>0, <2>1, <2>3, DupSets
    <3>2. k \in Fds /\ thr[t].i # Largest(t) /\ fds[k] = Closed /\ DupAdopts(t, k)
      BY <2>3
    <3> HIDE DEF k
    <3> QED
      BY <1>0, <2>1, <3>1, <3>2, OwnDupAdopts DEF SetFd
  <2>4. CASE GiveUp(t) /\ UNCHANGED <<fds, handles>>
    BY <1>0, <2>1, <2>4, OwnGivesUp
  <2> QED
    BY <1>0, <1>5, <2>2, <2>3, <2>4, DupFacts
<1>6. CASE map_buffer(t)
  <2> DEFINE i == thr[t].i
             h == thr[t].hs[i]
             r == [handles[h] EXCEPT !.base = Memory(h)]
  <2>1. thr[t].pc = "map" /\ UNCHANGED fds /\ h \in Handles
    BY <1>0, <1>6, MapFacts
  <2>2. i \in Slots(t)
    BY <1>0, <2>1, CallInLoop DEF Slots
  <2>3. CASE GiveUp(t) /\ UNCHANGED handles
    BY <1>0, <2>1, <2>3, OwnGivesUp
  <2>4. CASE SetHandle(h, r) /\ NextSlot(t, "map", "attributes")
    <3>1. handles[h] \in HandleType
      BY <1>0, <2>1, TypedState
    <3>2. r.share_fd = handles[h].share_fd /\ r.attr_fd = handles[h].attr_fd
      BY <3>1 DEF HandleType
    <3>3. thr'[t].pc # "dup"
      BY <2>4 DEF NextSlot
    <3> HIDE DEF r
    <3> QED
      BY <1>0, <2>1, <2>2, <2>4, <3>2, <3>3, OwnFillsIn
  <2> QED
    BY <1>0, <1>6, <2>3, <2>4, MapFacts
<1>7. CASE gralloc_buffer_attr_allocate(t)
  <2> DEFINE i == thr[t].i
             h == thr[t].hs[i]
             k == Lowest(FreeFds)
             r == [handles[h] EXCEPT !.attr_fd = k]
  <2>1. thr[t].pc = "attributes" /\ h \in Handles
    BY <1>0, <1>7, AttributesFacts
  <2>2. i \in Slots(t)
    BY <1>0, <2>1, CallInLoop DEF Slots
  <2>3. CASE GiveUp(t) /\ UNCHANGED <<fds, handles>>
    BY <1>0, <2>1, <2>3, OwnGivesUp
  <2>4. CASE k \in Fds /\ fds[k] = Closed /\ SetFd(k, <<"attributes", 0>>) /\ SetHandle(h, r) /\ thr'[t].pc = "list"
    <3>1. handles[h] \in HandleType
      BY <1>0, <2>1, TypedState
    <3>2. r.share_fd = handles[h].share_fd /\ r.attr_fd = k
      BY <3>1 DEF HandleType
    <3>3. fds'[k] = <<"attributes", 0>> /\ \A l \in Fds : fds'[l] = fds[l] \/ fds[l] = Closed
      BY <2>4 DEF SetFd
    <3> HIDE DEF r, k
    <3> QED
      BY <1>0, <2>1, <2>2, <2>4, <3>2, <3>3, OwnFillsIn
  <2> QED
    BY <1>0, <1>7, <2>3, <2>4, AttributesFacts
<1>8. CASE list_and_number(t)
  <2> DEFINE i == thr[t].i
             h == thr[t].hs[i]
             r == [handles[h] EXCEPT !.id = NumberOf(t)]
  <2>1. thr[t].pc = "list" /\ UNCHANGED fds /\ h \in Handles /\ SetHandle(h, r)
    BY <1>0, <1>8, ListFacts
  <2>2. i \in Slots(t)
    BY <1>0, <2>1, CallInLoop DEF Slots
  <2>3. thr'[t].pc # "dup"
    BY <1>0, <1>f, <1>8, ListFacts
  <2>4. handles[h] \in HandleType
    BY <1>0, <2>1, TypedState
  <2>5. r.share_fd = handles[h].share_fd /\ r.attr_fd = handles[h].attr_fd
    BY <2>4 DEF HandleType
  <2> HIDE DEF r
  <2> QED
    BY <1>0, <2>1, <2>2, <2>3, <2>5, OwnFillsIn
<1>9. CASE free_internal(t)
  <2> DEFINE i == thr[t].i
             h == thr[t].hs[i]
  <2>1. thr[t].pc = "undo" /\ i \in Slots(t) /\ thr'[t].pc # "dup"
    BY <1>0, <1>f, <1>9, FreeInternalFacts
  <2>2. CASE UNCHANGED <<fds, handles>>
    BY <1>0, <2>1, <2>2, OwnSame
  <2>3. CASE h \in Handles /\ h # 0 /\ SetHandle(h, RolledBack(h)) /\ \A k \in Fds : fds'[k] = IF k \in Held(h) THEN Closed ELSE fds[k]
    <3>1. Has(t, h) /\ IsMade(h) /\ RolledBack(h) \in {NoHandle, ZeroHandle}
      BY <2>1, <2>3 DEF BusyInv, SlotsMade, Has, RolledBack
    <3> HIDE DEF h, i
    <3> QED
      BY <1>0, <2>1, <2>3, <3>1, OwnCloses
  <2> QED
    BY <1>0, <1>9, <2>2, <2>3, FreeInternalFacts
<1>10. CASE mali_gralloc_dump_buffer_erase(t)
  BY <1>0, <1>10, EraseFacts, OwnSame
<1>11. CASE mali_gralloc_buffer_free(t)
  <2> DEFINE h == thr[t].old
  <2>1. /\ thr[t].pc = "free" /\ h \in Handles /\ SetHandle(h, NoHandle) /\ thr'[t].pc # "dup"
        /\ \A k \in Fds : fds'[k] = IF k \in Held(h) THEN Closed ELSE fds[k]
    BY <1>0, <1>f, <1>11, FreeFacts
  <2>2. Has(t, h) /\ IsMade(h)
    BY <2>1 DEF BusyInv, FreedMade, Has
  <2> HIDE DEF h
  <2> QED
    BY <1>0, <2>1, <2>2, OwnCloses
<1> QED
  BY <1>1, <1>2, <1>3, <1>4, <1>5, <1>6, <1>7, <1>8, <1>9, <1>10, <1>11 DEF LateStep

LEMMA OwnAlways == AllocSpec => []OwnInv
<1>1. AllocInit => OwnInv
  <2> SUFFICES ASSUME AllocInit PROVE OwnInv
    OBVIOUS
  <2>1. \A h \in Handles : ~IsMade(h)
    BY NoHandleFacts DEF AllocInit, IsMade
  <2>2. \A t \in Threads : thr[t].pc = "idle"
    BY DEF AllocInit, IdleThread
  <2>3. fds[0] = <<"other", 0>>
    BY GrallocAllocationAssumption DEF AllocInit, Fds
  <2> QED
    BY <2>1, <2>2, <2>3 DEF OwnInv, StdioInv, Kinds, Apart, DupsApart, DupOK, InitOK, Initializing
<1>2. TypeInv /\ TypeInv' /\ BusyInv /\ OwnInv /\ [AllocNext]_allocVars => OwnInv'
  <2> SUFFICES ASSUME TypeInv, TypeInv', BusyInv, OwnInv, [AllocNext]_allocVars PROVE OwnInv'
    OBVIOUS
  <2>1. CASE UNCHANGED allocVars
    BY <2>1 DEF allocVars, OwnInv, StdioInv, Kinds, Apart, DupsApart, DupOK, InitOK, IsMade, IsBuffer, Owner, Largest
  <2> QED
    BY <2>1, StepKinds, OwnEarly, OwnLate
<1> QED
  BY <1>1, <1>2, Typed, BusyAlways, PTL DEF AllocSpec

-----------------------------------------------------------------------------
(* What the globals name. *)

HeapInv ==
  /\ ion.ver = "DMABUF" => kernel = "dmabuf"
  /\ kernel = "dmabuf" => ion.ver \in {"UNKNOWN", "DMABUF"} /\ ion.system \in Fds /\ ion.cma \in Fds \cup {-1}
  /\ \A t \in Threads : thr[t].pc \in {"system", "cma"} => ion.ver = "DMABUF"
SystemOpen == ion.ver = "DMABUF" => fds[ion.system] = <<"system", 0>> \/ \E t \in Threads : thr[t].pc = "system"
CmaOpen == ion.ver = "DMABUF" =>
  ion.cma = -1 \/ fds[ion.cma] = <<"cma", 0>> \/ \E t \in Threads : thr[t].pc \in {"system", "cma"}
ClientOpen == ion.client = -1 \/ fds[ion.client] = <<"ion", 0>> \/ \E t \in Threads : thr[t].pc = "forget"
GlobalInv == HeapInv /\ SystemOpen /\ CmaOpen /\ ClientOpen

Stays(o) == \A k \in Fds : fds[k] = o => fds'[k] = o
HeapsStay == Stays(<<"system", 0>>) /\ Stays(<<"cma", 0>>)

\* A step that leaves the globals, and what they name, alone.
PlainStep(t) ==
  /\ UNCHANGED <<kernel, ion>> /\ Stays(<<"ion", 0>>)
  /\ thr[t].pc \notin {"version", "system", "cma", "forget"} /\ thr'[t].pc \notin {"system", "cma"}
IonOpens(t) == thr[t].pc \in {"ion_open", "client"} /\ (ion_open(t, "heaps") \/ ion_open(t, "share"))

LEMMA OpensStays ==
  ASSUME AllocTypeOK, NEW o, o # Closed, NEW p, FreeFds # {}, fds' = Opens(p, Lowest(FreeFds))
  PROVE  Stays(o)
<1>1. Lowest(FreeFds) \in Fds /\ fds[Lowest(FreeFds)] = Closed /\ fds \in [Fds -> Opened]
  BY FreeFdFacts, TypedState
<1> DEFINE k == Lowest(FreeFds)
<1> HIDE DEF k
<1>2. fds' = [fds EXCEPT ![k] = p] /\ fds[k] = Closed
  BY <1>1 DEF Opens, k
<1> QED
  BY <1>1, <1>2 DEF Stays

LEMMA EarlyKinds ==
  ASSUME TypeInv, NEW t \in Threads, EarlyStep(t)
  PROVE  \/ PlainStep(t) \/ set_interface_ver(t) \/ set_system_heap(t) \/ dma_heap_open_cma(t) \/ IonOpens(t)
         \/ find_heaps(t) \/ ion_close(t) \/ forget_client(t)
<1>0. AllocTypeOK
  BY DEF TypeInv
<1>g. ASSUME NEW p, GoTo(t, p) PROVE thr'[t].pc = p
  BY <1>0, <1>g, GoToPc
<1>t. thr \in [Threads -> ThreadType]
  BY <1>0, TypedState
<1>1. CASE mali_gralloc_buffer_allocate(t)
  <2>1. PICK ds \in Calls : thr' = [thr EXCEPT ![t] = [IdleThread EXCEPT !.pc = "format", !.ds = ds, !.hs = [i \in 1 .. Len(ds) |-> 0]]]
    BY <1>1 DEF mali_gralloc_buffer_allocate
  <2>2. thr'[t].pc = "format"
    BY <1>t, <2>1 DEF IdleThread
  <2> QED
    BY <1>1, <2>2 DEF mali_gralloc_buffer_allocate, PlainStep, At, Stays
<1>2. CASE test_caps_read(t)
  BY <1>g, <1>2 DEF test_caps_read, PlainStep, At, Stays
<1>3. CASE lock_caps(t)
  BY <1>g, <1>3 DEF lock_caps, PlainStep, At, Stays
<1>4. CASE determine_caps(t)
  BY <1>g, <1>4 DEF determine_caps, PlainStep, At, Stays
<1>5. CASE restrict_caps(t)
  BY <1>g, <1>5 DEF restrict_caps, PlainStep, At, Stays
<1>6. CASE publish_caps(t)
  BY <1>g, <1>6 DEF publish_caps, PlainStep, At, Stays
<1>7. CASE unlock_caps(t)
  BY <1>g, <1>7 DEF unlock_caps, PlainStep, At, Stays
<1>8. CASE use_caps(t)
  BY <1>g, <1>8 DEF use_caps, PlainStep, At, Stays
<1>9. CASE initialize_interface(t)
  BY <1>g, <1>9 DEF initialize_interface, unchangedButIon, PlainStep, At, Stays
<1>10. CASE dma_heap_open_system(t)
  <2>1. thr[t].pc = "probe" /\ UNCHANGED <<kernel, ion>>
    BY <1>10 DEF dma_heap_open_system, At, unchangedButIon
  <2>2. CASE /\ FreeFds # {} /\ fds' = Opens(<<"system", 0>>, Lowest(FreeFds))
             /\ thr' = [thr EXCEPT ![t].pc = "version", ![t].fd = Lowest(FreeFds)]
    <3>1. Stays(<<"ion", 0>>)
      BY <1>0, <2>2, OpensStays DEF Closed
    <3>2. thr'[t].pc = "version"
      BY <1>t, <2>2 DEF ThreadType
    <3> QED
      BY <2>1, <3>1, <3>2 DEF PlainStep
  <2>3. CASE GoTo(t, "ion_open") /\ UNCHANGED fds
    BY <1>g, <2>1, <2>3 DEF PlainStep, Stays
  <2> QED
    BY <1>10, <2>2, <2>3 DEF dma_heap_open_system
<1>11. CASE ion_open_first(t)
  BY <1>11 DEF ion_open_first, IonOpens, At
<1>12. CASE reopen_client(t)
  BY <1>g, <1>12 DEF reopen_client, unchangedButIon, PlainStep, IonOpens, At, Stays
<1>13. CASE share(t)
  <2>1. PICK shared \in check_buffers_sharable(thr[t].ds) :
          thr' = [thr EXCEPT ![t].shared = shared, ![t].pc = "allocate",
                             ![t].i = IF shared THEN get_max_buffer_descriptor_index(thr[t].ds) ELSE 1]
    BY <1>13 DEF share
  <2>2. thr'[t].pc = "allocate"
    BY <1>t, <2>1 DEF ThreadType
  <2> QED
    BY <1>13, <2>2 DEF share, unchangedButIon, PlainStep, At, Stays
<1> QED
  BY <1>1, <1>2, <1>3, <1>4, <1>5, <1>6, <1>7, <1>8, <1>9, <1>10, <1>11, <1>12, <1>13 DEF EarlyStep

LEMMA EarlyHeapsStay ==
  ASSUME TypeInv, NEW t \in Threads, EarlyStep(t)
  PROVE  HeapsStay /\ Others(t) /\ UNCHANGED kernel
<1>1. GlobalFds /\ (GlobalThread(t) \/ UNCHANGED thr)
  BY EarlyIsGlobal DEF TypeInv
<1> QED
  BY <1>1, KindsDiffer DEF GlobalFds, GlobalThread, Others, HeapsStay, Stays, Closed

LEMMA LateFds ==
  ASSUME TypeInv, BusyInv, OwnInv, NEW t \in Threads, LateStep(t)
  PROVE  HeapsStay /\ Stays(<<"ion", 0>>)
<1>0. AllocTypeOK /\ PlaceInv(t) /\ Kinds
  BY DEF TypeInv, OwnInv
<1>1. SUFFICES \A k \in Fds : fds'[k] = fds[k] \/ fds[k] = Closed \/ IsBuffer(fds[k]) \/ fds[k] = <<"attributes", 0>>
  BY KindsDiffer DEF HeapsStay, Stays, Closed, IsBuffer
<1>2. ASSUME NEW l \in Fds, fds[l] = Closed, NEW o, SetFd(l, o)
      PROVE \A k \in Fds : fds'[k] = fds[k] \/ fds[k] = Closed
  BY <1>2 DEF SetFd
<1>3. ASSUME NEW h \in Handles, IsMade(h), \A k \in Fds : fds'[k] = IF k \in Held(h) THEN Closed ELSE fds[k]
      PROVE  \A k \in Fds : fds'[k] = fds[k] \/ IsBuffer(fds[k]) \/ fds[k] = <<"attributes", 0>>
  BY <1>0, <1>3, HandleParts DEF Kinds
<1>4. CASE allocate_own(t)
  BY <1>0, <1>2, <1>4, AllocateOwnFacts, AllocateOwnSets
<1>5. CASE allocate_shared(t)
  BY <1>0, <1>2, <1>5, AllocateSharedFacts, AllocateSharedSets
<1>6. CASE allocate_fails(t) \/ allocate_undefined(t)
  BY <1>6 DEF allocate_fails, allocate_undefined
<1>7. CASE dup_shared(t)
  <2>1. thr[t].fd \in Fds
    BY <1>0, <1>7, DupFacts DEF PlaceInv
  <2> QED
    BY <1>0, <1>2, <1>7, <2>1, DupFacts, DupSets
<1>8. CASE map_buffer(t)
  BY <1>0, <1>8, MapFacts
<1>9. CASE gralloc_buffer_attr_allocate(t)
  BY <1>0, <1>2, <1>9, AttributesFacts
<1>10. CASE list_and_number(t)
  BY <1>0, <1>10, ListFacts
<1>11. CASE free_internal(t)
  <2>1. thr[t].hs[thr[t].i] \in Handles => IsMade(thr[t].hs[thr[t].i])
    BY <1>0, <1>11, FreeInternalFacts, HandleIsNumber DEF BusyInv, SlotsMade
  <2> QED
    BY <1>0, <1>3, <1>11, <2>1, FreeInternalFacts
<1>12. CASE mali_gralloc_dump_buffer_erase(t)
  BY <1>0, <1>12, EraseFacts
<1>13. CASE mali_gralloc_buffer_free(t)
  BY <1>0, <1>3, <1>13, FreeFacts DEF BusyInv, FreedMade
<1> QED
  BY <1>4, <1>5, <1>6, <1>7, <1>8, <1>9, <1>10, <1>11, <1>12, <1>13 DEF LateStep

\* Where the globals and the places that excuse them stay, what they name stays open.
LEMMA PlainKeeps ==
  ASSUME TypeInv, GlobalInv, NEW t \in Threads, Others(t), HeapsStay, PlainStep(t)
  PROVE  GlobalInv'
<1>0. /\ UNCHANGED <<kernel, ion>> /\ HeapInv
      /\ \A u \in Threads : thr[u].pc \in {"system", "cma", "forget"} => thr'[u].pc = thr[u].pc
      /\ \A u \in Threads : thr'[u].pc \in {"system", "cma"} => thr[u].pc = thr'[u].pc
  BY DEF PlainStep, Others, GlobalInv
<1>1. HeapInv'
  BY <1>0 DEF HeapInv
<1>2. SystemOpen'
  BY <1>0 DEF GlobalInv, HeapInv, SystemOpen, HeapsStay, Stays
<1>3. CmaOpen'
  <2>1. ion.ver = "DMABUF" => ion.cma = -1 \/ ion.cma \in Fds
    BY <1>0 DEF HeapInv
  <2> QED
    BY <1>0, <2>1 DEF GlobalInv, CmaOpen, HeapsStay, Stays
<1>4. ClientOpen'
  <2>1. ion.client = -1 \/ ion.client \in Fds
    BY DEF TypeInv, AllocTypeOK
  <2> QED
    BY <1>0, <2>1 DEF GlobalInv, ClientOpen, PlainStep, Stays
<1> QED
  BY <1>1, <1>2, <1>3, <1>4 DEF GlobalInv

\* A step that changes ion_client at most.
LEMMA ClientKeeps ==
  ASSUME TypeInv, GlobalInv, NEW t \in Threads, Others(t), HeapsStay, UNCHANGED kernel,
         ion'.ver = ion.ver, ion'.system = ion.system, ion'.cma = ion.cma,
         thr[t].pc \notin {"system", "cma"}, thr'[t].pc \notin {"system", "cma"}, ClientOpen'
  PROVE  GlobalInv'
<1>0. /\ UNCHANGED kernel /\ HeapInv
      /\ \A u \in Threads : thr[u].pc \in {"system", "cma"} => thr'[u].pc = thr[u].pc
      /\ \A u \in Threads : thr'[u].pc \in {"system", "cma"} => thr[u].pc = thr'[u].pc
  BY DEF Others, GlobalInv
<1>1. HeapInv'
  BY <1>0 DEF HeapInv
<1>2. SystemOpen'
  BY <1>0 DEF GlobalInv, HeapInv, SystemOpen, HeapsStay, Stays
<1>3. CmaOpen'
  <2>1. ion.ver = "DMABUF" => ion.cma = -1 \/ ion.cma \in Fds
    BY <1>0 DEF HeapInv
  <2> QED
    BY <1>0, <2>1 DEF GlobalInv, CmaOpen, HeapsStay, Stays
<1> QED
  BY <1>1, <1>2, <1>3 DEF GlobalInv

\* A step that changes the heaps at most.
LEMMA ClientSame ==
  ASSUME TypeInv, GlobalInv, NEW t \in Threads, Others(t), ion'.client = ion.client, Stays(<<"ion", 0>>), thr[t].pc # "forget"
  PROVE  ClientOpen'
<1>1. ion.client = -1 \/ ion.client \in Fds
  BY DEF TypeInv, AllocTypeOK
<1>2. \A u \in Threads : thr[u].pc = "forget" => thr'[u].pc = "forget"
  BY DEF Others
<1> QED
  BY <1>1, <1>2 DEF GlobalInv, ClientOpen, Stays

LEMMA IonParts ==
  ASSUME TypeInv
  PROVE  /\ ion \in [ver : {"UNKNOWN", "LEGACY", "MODERN", "DMABUF"}, system : Fds \cup {-1, 1, 2},
                     cma : Fds \cup {-1, 1, 2}, client : Fds \cup {-1}]
         /\ thr \in [Threads -> ThreadType] /\ fds \in [Fds -> Opened] /\ AllocTypeOK
BY TypedState DEF TypeInv, AllocTypeOK

LEMMA GlobalVersion ==
  ASSUME TypeInv, OwnInv, GlobalInv, NEW t \in Threads, Others(t), HeapsStay, UNCHANGED kernel, set_interface_ver(t)
  PROVE  GlobalInv'
<1>1. /\ thr[t].pc = "version" /\ ion' = [ion EXCEPT !.ver = "DMABUF"] /\ GoTo(t, "system") /\ UNCHANGED fds
  BY DEF set_interface_ver, At
<1>2. ion'.ver = "DMABUF" /\ ion'.system = ion.system /\ ion'.cma = ion.cma /\ ion'.client = ion.client
  BY <1>1, IonParts
<1>3. thr'[t].pc = "system"
  BY <1>1, IonParts, GoToPc
<1>4. kernel = "dmabuf"
  BY <1>1 DEF OwnInv, InitOK, Initializing
<1>5. HeapInv'
  BY <1>2, <1>4 DEF GlobalInv, HeapInv
<1>6. SystemOpen' /\ CmaOpen'
  BY <1>3 DEF SystemOpen, CmaOpen
<1>7. ClientOpen'
  BY <1>1, <1>2, ClientSame DEF Stays
<1> QED
  BY <1>5, <1>6, <1>7 DEF GlobalInv

LEMMA GlobalSystem ==
  ASSUME TypeInv, OwnInv, GlobalInv, NEW t \in Threads, Others(t), HeapsStay, UNCHANGED kernel, set_system_heap(t)
  PROVE  GlobalInv'
<1>1. /\ thr[t].pc = "system" /\ ion' = [ion EXCEPT !.system = thr[t].fd] /\ GoTo(t, "cma") /\ UNCHANGED fds
  BY DEF set_system_heap, At
<1>2. ion'.ver = ion.ver /\ ion'.system = thr[t].fd /\ ion'.cma = ion.cma /\ ion'.client = ion.client
  BY <1>1, IonParts
<1>3. thr'[t].pc = "cma"
  BY <1>1, IonParts, GoToPc
<1>4. kernel = "dmabuf" /\ fds[thr[t].fd] = <<"system", 0>> /\ thr[t].fd \in Fds
  BY <1>1 DEF OwnInv, InitOK, Initializing, TypeInv, PlaceInv
<1>5. \A u \in Threads : thr'[u].pc \in {"system", "cma"} => ion.ver = "DMABUF"
  BY <1>1 DEF GlobalInv, HeapInv, Others
<1>6. HeapInv'
  BY <1>2, <1>4, <1>5 DEF GlobalInv, HeapInv
<1>7. SystemOpen' /\ CmaOpen'
  BY <1>1, <1>2, <1>3, <1>4 DEF SystemOpen, CmaOpen
<1>8. ClientOpen'
  BY <1>1, <1>2, ClientSame DEF Stays
<1> QED
  BY <1>6, <1>7, <1>8 DEF GlobalInv

LEMMA GlobalCma ==
  ASSUME TypeInv, OwnInv, GlobalInv, NEW t \in Threads, Others(t), HeapsStay, UNCHANGED kernel, dma_heap_open_cma(t)
  PROVE  GlobalInv'
<1> DEFINE k == Lowest(FreeFds)
<1>1. /\ thr[t].pc = "cma" /\ thr' = [thr EXCEPT ![t].pc = "client", ![t].fd = -1]
      /\ \/ FreeFds # {} /\ fds' = Opens(<<"cma", 0>>, k) /\ ion' = [ion EXCEPT !.cma = k]
         \/ ion' = [ion EXCEPT !.cma = -1] /\ UNCHANGED fds
  BY DEF dma_heap_open_cma, At
<1>2. thr'[t].pc = "client"
  BY <1>1, IonParts DEF ThreadType
<1>3. ion'.ver = ion.ver /\ ion'.system = ion.system /\ ion'.client = ion.client
  BY <1>1, IonParts
<1>4. ion'.cma = -1 \/ (ion'.cma \in Fds /\ fds'[ion'.cma] = <<"cma", 0>>)
  <2>1. FreeFds # {} => k \in Fds
    BY FreeFdFacts
  <2> HIDE DEF k
  <2> QED
    BY <1>1, <2>1, IonParts DEF Opens
<1>5. ion.ver = "DMABUF" /\ \A u \in Threads : thr'[u].pc = "system" => thr[u].pc = "system"
  BY <1>1, <1>2 DEF GlobalInv, HeapInv, Others
<1>6. HeapInv'
  BY <1>3, <1>4, <1>5 DEF GlobalInv, HeapInv
<1>7. SystemOpen'
  <2>1. ion.system \in Fds
    BY <1>5 DEF GlobalInv, HeapInv
  <2>2. \A u \in Threads : thr[u].pc = "system" => thr'[u].pc = "system"
    BY <1>1 DEF Others
  <2> QED
    BY <1>3, <1>5, <2>1, <2>2 DEF GlobalInv, SystemOpen, HeapsStay, Stays
<1>8. CmaOpen'
  BY <1>4 DEF CmaOpen
<1>9. ClientOpen'
  <2>1. Stays(<<"ion", 0>>)
    BY <1>1, IonParts, OpensStays DEF Stays, Closed
  <2> QED
    BY <1>1, <1>3, <2>1, ClientSame
<1> QED
  BY <1>6, <1>7, <1>8, <1>9 DEF GlobalInv

LEMMA GlobalIonOpens ==
  ASSUME TypeInv, OwnInv, GlobalInv, NEW t \in Threads, Others(t), HeapsStay, UNCHANGED kernel, IonOpens(t)
  PROVE  GlobalInv'
<1> DEFINE k == Lowest(FreeFds)
<1>1. PICK next \in {"heaps", "share"} : ion_open(t, next)
  BY DEF IonOpens
<1>2. thr[t].pc \in {"ion_open", "client"}
  BY DEF IonOpens
<1>3. \/ FreeFds # {} /\ fds' = Opens(<<"ion", 0>>, k) /\ ion' = [ion EXCEPT !.client = k] /\ GoTo(t, next)
      \/ ion' = [ion EXCEPT !.client = -1] /\ Fail(t)
  BY <1>1 DEF ion_open
<1>4. thr'[t].pc \notin {"system", "cma"}
  BY <1>3, IonParts, GoToPc, FailPc
<1>5. ion'.ver = ion.ver /\ ion'.system = ion.system /\ ion'.cma = ion.cma
  BY <1>3, IonParts
<1>6. ion'.client = -1 \/ fds'[ion'.client] = <<"ion", 0>>
  <2>1. FreeFds # {} => k \in Fds
    BY FreeFdFacts
  <2> HIDE DEF k
  <2> QED
    BY <1>3, <2>1, IonParts DEF Opens
<1> QED
  BY <1>2, <1>4, <1>5, <1>6, ClientKeeps DEF ClientOpen

LEMMA GlobalFinds ==
  ASSUME TypeInv, OwnInv, GlobalInv, NEW t \in Threads, Others(t), HeapsStay, UNCHANGED kernel, find_heaps(t)
  PROVE  GlobalInv'
<1>1. thr[t].pc = "heaps" /\ UNCHANGED fds /\ kernel # "dmabuf" /\ (GoTo(t, "client") \/ GoTo(t, "ion_close"))
  BY DEF find_heaps, At
<1>2. ion'.client = ion.client /\ (ion'.ver = ion.ver \/ ion'.ver \in {"LEGACY", "MODERN"})
  BY IonParts DEF find_heaps
<1>3. thr'[t].pc \notin {"system", "cma"}
  BY <1>1, IonParts, GoToPc
<1>4. ion.ver # "DMABUF"
  BY <1>1 DEF GlobalInv, HeapInv
<1>5. \A u \in Threads : thr[u].pc \notin {"system", "cma"}
  BY <1>4 DEF GlobalInv, HeapInv
<1>6. ion'.ver # "DMABUF" /\ \A u \in Threads : thr'[u].pc \notin {"system", "cma"}
  BY <1>2, <1>3, <1>4, <1>5 DEF Others
<1>7. HeapInv' /\ SystemOpen' /\ CmaOpen'
  BY <1>1, <1>6 DEF HeapInv, SystemOpen, CmaOpen
<1>8. ClientOpen'
  BY <1>1, <1>2, ClientSame DEF Stays
<1> QED
  BY <1>7, <1>8 DEF GlobalInv

LEMMA GlobalCloses ==
  ASSUME TypeInv, OwnInv, GlobalInv, NEW t \in Threads, Others(t), HeapsStay, UNCHANGED kernel, ion_close(t)
  PROVE  GlobalInv'
<1>1. thr[t].pc = "ion_close" /\ UNCHANGED ion /\ (UNCHANGED <<fds, thr>> \/ GoTo(t, "forget"))
  BY DEF ion_close, At
<1>2. CASE UNCHANGED <<fds, thr>>
  BY <1>1, <1>2, PlainKeeps DEF PlainStep, Stays
<1>3. CASE GoTo(t, "forget")
  <2>1. thr'[t].pc = "forget"
    BY <1>3, IonParts, GoToPc
  <2> QED
    BY <1>1, <2>1, ClientKeeps DEF ClientOpen
<1> QED
  BY <1>1, <1>2, <1>3

LEMMA GlobalForgets ==
  ASSUME TypeInv, OwnInv, GlobalInv, NEW t \in Threads, Others(t), HeapsStay, UNCHANGED kernel, forget_client(t)
  PROVE  GlobalInv'
<1>1. thr[t].pc = "forget" /\ ion' = [ion EXCEPT !.client = -1] /\ Fail(t)
  BY DEF forget_client, At
<1>2. thr'[t].pc = "idle"
  BY <1>1, IonParts, FailPc
<1>3. ion'.client = -1 /\ ion'.ver = ion.ver /\ ion'.system = ion.system /\ ion'.cma = ion.cma
  BY <1>1, IonParts
<1> QED
  BY <1>1, <1>2, <1>3, ClientKeeps DEF ClientOpen

LEMMA GlobalLate ==
  ASSUME TypeInv, BusyInv, OwnInv, GlobalInv, NEW t \in Threads, LateStep(t)
  PROVE  GlobalInv'
<1>1. UNCHANGED <<kernel, ion>> /\ Others(t) /\ thr'[t].pc \notin {"system", "cma"}
  BY LatePc DEF Others, Filled
<1>2. thr[t].pc \notin {"version", "system", "cma", "forget"}
  BY DEF LateStep, At, allocate_own, allocate_shared, allocate_fails, allocate_undefined, dup_shared, map_buffer,
         gralloc_buffer_attr_allocate, list_and_number, free_internal, mali_gralloc_dump_buffer_erase, mali_gralloc_buffer_free
<1>3. HeapsStay /\ Stays(<<"ion", 0>>)
  BY LateFds
<1> QED
  BY <1>1, <1>2, <1>3, PlainKeeps DEF PlainStep

LEMMA GlobalAlways == AllocSpec => []GlobalInv
<1>1. AllocInit => GlobalInv
  <2> SUFFICES ASSUME AllocInit PROVE GlobalInv
    OBVIOUS
  <2>1. ion.ver = "UNKNOWN" /\ ion.system = 0 /\ ion.cma = 0 /\ ion.client = -1
    BY DEF AllocInit
  <2>2. 0 \in Fds /\ \A t \in Threads : thr[t].pc = "idle"
    BY GrallocAllocationAssumption DEF AllocInit, IdleThread, Fds
  <2> QED
    BY <2>1, <2>2 DEF GlobalInv, HeapInv, SystemOpen, CmaOpen, ClientOpen
<1>2. TypeInv /\ BusyInv /\ OwnInv /\ GlobalInv /\ [AllocNext]_allocVars => GlobalInv'
  <2> SUFFICES ASSUME TypeInv, BusyInv, OwnInv, GlobalInv, [AllocNext]_allocVars PROVE GlobalInv'
    OBVIOUS
  <2>1. CASE UNCHANGED allocVars
    BY <2>1 DEF allocVars, GlobalInv, HeapInv, SystemOpen, CmaOpen, ClientOpen
  <2>2. ASSUME NEW t \in Threads, EarlyStep(t) PROVE GlobalInv'
    <3>1. HeapsStay /\ Others(t) /\ UNCHANGED kernel
      BY <2>2, EarlyHeapsStay
    <3> QED
      BY <2>2, <3>1, EarlyKinds, PlainKeeps, GlobalVersion, GlobalSystem, GlobalCma, GlobalIonOpens, GlobalFinds,
         GlobalCloses, GlobalForgets
  <2> QED
    BY <2>1, <2>2, StepKinds, GlobalLate
<1> QED
  BY <1>1, <1>2, Typed, BusyAlways, OwnAlways, PTL DEF AllocSpec

\* initialize_interface: though interface_ver is set before the heaps and nothing is locked, what the
\* globals name is open once nobody is between the two, and the client unless somebody is giving it up.
THEOREM GlobalsAreOpen == AllocSpec => []HeapsAreOpen
<1>1. GlobalInv => HeapsAreOpen
  BY DEF GlobalInv, SystemOpen, CmaOpen, ClientOpen, HeapsAreOpen, At
<1> QED
  BY <1>1, GlobalAlways, PTL

-----------------------------------------------------------------------------
(* Attribute regions are allocated once. *)

Blank(h) == handles[h].attr_fd = -1
RegionOK(t) == \A j \in Slots(t) : thr[t].hs[j] # 0 =>
  /\ thr[t].pc \in {"allocate", "dup", "map"} => Blank(thr[t].hs[j])
  /\ thr[t].pc = "attributes" /\ j >= thr[t].i => Blank(thr[t].hs[j])
  /\ thr[t].pc = "list" /\ j > thr[t].i => Blank(thr[t].hs[j])
RegionInv == \A t \in Threads : RegionOK(t)

\* A step fills in or clears a struct that its thread has in hand, or makes one.
Touched(t, g) ==
  \/ handles'[g] = handles[g] \/ ~IsMade(g)
  \/ HasSlot(t, g) /\ handles'[g].share_fd = handles[g].share_fd
  \/ Has(t, g) /\ handles'[g].state # "made"
LEMMA LateTouches ==
  ASSUME TypeInv, BusyInv, NEW t \in Threads, LateStep(t), NEW g \in Handles
  PROVE  Touched(t, g)
<1>0. AllocTypeOK /\ PlaceInv(t)
  BY DEF TypeInv
<1>1. ASSUME NEW h \in Handles, NEW r, SetHandle(h, r),
             ~IsMade(h) \/ (HasSlot(t, h) /\ r.share_fd = handles[h].share_fd) \/ (Has(t, h) /\ r.state # "made")
      PROVE  Touched(t, g)
  BY <1>1 DEF SetHandle, Touched
<1>2. ASSUME NEW j \in Slots(t) PROVE Has(t, thr[t].hs[j]) /\ HasSlot(t, thr[t].hs[j])
  BY DEF Has, HasSlot
<1>3. thr[t].pc \in Filled => thr[t].i \in Slots(t)
  BY <1>0, SlotFilled
<1>s. UNCHANGED handles => Touched(t, g)
  BY DEF Touched
<1>k. ASSUME NEW h \in Handles PROVE /\ \A b : [handles[h] EXCEPT !.base = b].share_fd = handles[h].share_fd
                                     /\ \A k : [handles[h] EXCEPT !.attr_fd = k].share_fd = handles[h].share_fd
                                     /\ \A n : [handles[h] EXCEPT !.id = n].share_fd = handles[h].share_fd
  <2>1. handles[h] \in HandleType
    BY <1>0, TypedState
  <2> QED
    BY <2>1 DEF HandleType
<1>4. CASE allocate_own(t)
  BY <1>0, <1>1, <1>4, AllocateOwnFacts, AllocateOwnSets DEF IsMade
<1>5. CASE allocate_shared(t)
  BY <1>0, <1>s, <1>5, AllocateSharedFacts
<1>6. CASE allocate_fails(t) \/ allocate_undefined(t)
  BY <1>s, <1>6 DEF allocate_fails, allocate_undefined
<1>7. CASE dup_shared(t)
  <2>1. thr[t].fd \in Fds
    BY <1>0, <1>7, DupFacts DEF PlaceInv
  <2>2. ASSUME NEW k \in Fds, DupAdopts(t, k) PROVE Touched(t, g)
    <3>1. FreshHandle \in Handles /\ handles[FreshHandle].state = "none"
      BY <2>2 DEF DupAdopts
    <3>2. SetHandle(FreshHandle, NewHandle(k))
      BY <1>0, <2>2, DupAdoptsSets
    <3> QED
      BY <1>1, <3>1, <3>2 DEF IsMade
  <2> QED
    BY <1>0, <1>s, <1>7, <2>1, <2>2, DupFacts
<1>8. CASE map_buffer(t)
  <2> DEFINE h == thr[t].hs[thr[t].i]
             r == [handles[h] EXCEPT !.base = Memory(h)]
  <2>1. thr[t].pc = "map" /\ h \in Handles /\ (UNCHANGED handles \/ SetHandle(h, r))
    BY <1>0, <1>8, MapFacts
  <2>2. HasSlot(t, h) /\ r.share_fd = handles[h].share_fd
    BY <1>2, <1>3, <1>k, <2>1 DEF Filled
  <2> HIDE DEF h, r
  <2> QED
    BY <1>1, <1>s, <2>1, <2>2
<1>9. CASE gralloc_buffer_attr_allocate(t)
  <2> DEFINE h == thr[t].hs[thr[t].i]
             r == [handles[h] EXCEPT !.attr_fd = Lowest(FreeFds)]
  <2>1. thr[t].pc = "attributes" /\ h \in Handles /\ (UNCHANGED handles \/ SetHandle(h, r))
    BY <1>0, <1>9, AttributesFacts
  <2>2. HasSlot(t, h) /\ r.share_fd = handles[h].share_fd
    BY <1>2, <1>3, <1>k, <2>1 DEF Filled
  <2> HIDE DEF h, r
  <2> QED
    BY <1>1, <1>s, <2>1, <2>2
<1>10. CASE list_and_number(t)
  <2> DEFINE h == thr[t].hs[thr[t].i]
             r == [handles[h] EXCEPT !.id = NumberOf(t)]
  <2>1. thr[t].pc = "list" /\ h \in Handles /\ SetHandle(h, r)
    BY <1>0, <1>10, ListFacts
  <2>2. HasSlot(t, h) /\ r.share_fd = handles[h].share_fd
    BY <1>2, <1>3, <1>k, <2>1 DEF Filled
  <2> HIDE DEF h, r
  <2> QED
    BY <1>1, <2>1, <2>2
<1>11. CASE free_internal(t)
  BY <1>0, <1>1, <1>2, <1>s, <1>11, FreeInternalFacts, NoHandleFacts DEF RolledBack
<1>12. CASE mali_gralloc_dump_buffer_erase(t)
  BY <1>0, <1>s, <1>12, EraseFacts
<1>13. CASE mali_gralloc_buffer_free(t)
  BY <1>0, <1>1, <1>13, FreeFacts, NoHandleFacts DEF Has
<1> QED
  BY <1>4, <1>5, <1>6, <1>7, <1>8, <1>9, <1>10, <1>11, <1>12, <1>13 DEF LateStep

LEMMA RegionOthers ==
  ASSUME TypeInv, BusyInv, RegionInv, NEW t \in Threads, Others(t),
         \A g \in Handles : handles'[g] = handles[g] \/ ~IsMade(g) \/ Has(t, g), NEW u \in Threads, u # t
  PROVE  RegionOK(u)'
<1>1. thr'[u] = thr[u] /\ Slots(u)' = Slots(u) /\ RegionOK(u)
  BY DEF Others, Slots, RegionInv
<1>2. ASSUME NEW j \in Slots(u), thr[u].hs[j] # 0 PROVE handles'[thr[u].hs[j]] = handles[thr[u].hs[j]]
  <2>1. thr[u].hs[j] \in Handles /\ IsMade(thr[u].hs[j]) /\ HasSlot(u, thr[u].hs[j])
    BY <1>2, SlotTyped DEF TypeInv, BusyInv, SlotsMade, HasSlot
  <2> QED
    BY <2>1, NotTwice
<1> QED
  BY <1>1, <1>2 DEF RegionOK, Blank

\* A slot of the thread that keeps its blank handle, or gets a new one.
LEMMA RegionMakes ==
  ASSUME TypeInv, BusyInv, RegionInv, NEW t \in Threads, thr[t].pc \in {"allocate", "dup"}, thr'[t].pc \in {"allocate", "dup", "map"},
         NEW h \in Handles, handles[h].state = "none", NEW k \in Fds, SetHandle(h, NewHandle(k)),
         thr'[t].hs = [thr[t].hs EXCEPT ![thr[t].i] = h]
  PROVE  RegionOK(t)'
<1>0. thr[t].hs \in Seq(Handles \cup {0}) /\ NewHandle(k).attr_fd = -1
  BY ThreadParts, NewHandleFacts DEF TypeInv
<1>1. Slots(t)' = Slots(t) /\ \A j \in Slots(t) : thr'[t].hs[j] = IF j = thr[t].i THEN h ELSE thr[t].hs[j]
  BY <1>0 DEF Slots
<1>2. \A j \in Slots(t) : thr[t].hs[j] # 0 => thr[t].hs[j] \in Handles /\ IsMade(thr[t].hs[j]) /\ Blank(thr[t].hs[j])
  BY SlotTyped DEF TypeInv, BusyInv, SlotsMade, RegionInv, RegionOK
<1>3. ASSUME NEW j \in Slots(t), thr'[t].hs[j] # 0 PROVE handles'[thr'[t].hs[j]].attr_fd = -1
  <2>1. CASE j = thr[t].i
    BY <1>0, <1>1, <2>1 DEF SetHandle
  <2>2. CASE j # thr[t].i
    <3>1. thr'[t].hs[j] = thr[t].hs[j]
      BY <1>1, <2>2
    <3>2. thr[t].hs[j] \in Handles /\ IsMade(thr[t].hs[j]) /\ handles[thr[t].hs[j]].attr_fd = -1
      BY <1>2, <1>3, <3>1 DEF Blank
    <3>3. thr[t].hs[j] # h
      BY <3>2 DEF IsMade
    <3> QED
      BY <3>1, <3>2, <3>3 DEF SetHandle
  <2> QED
    BY <2>1, <2>2
<1> QED
  BY <1>1, <1>3 DEF RegionOK, Blank

LEMMA RegionNowhere ==
  ASSUME NEW t \in Threads, thr'[t].pc \notin {"allocate", "dup"} \cup Filled
  PROVE  RegionOK(t)'
BY DEF RegionOK, Filled

LEMMA RegionLate ==
  ASSUME TypeInv, BusyInv, RegionInv, NEW t \in Threads, LateStep(t)
  PROVE  RegionInv'
<1>0. AllocTypeOK /\ PlaceInv(t) /\ Others(t)
  BY LatePc DEF TypeInv, Others
<1>o. \A u \in Threads \ {t} : RegionOK(u)'
  <2>1. \A g \in Handles : handles'[g] = handles[g] \/ ~IsMade(g) \/ Has(t, g)
    BY LateTouches DEF Touched, Has, HasSlot
  <2> QED
    BY <1>0, <2>1, RegionOthers
<1>s. SUFFICES RegionOK(t)'
  BY <1>o DEF RegionInv
<1>f. Fail(t) => RegionOK(t)'
  BY <1>0, FailPc, RegionNowhere DEF Filled
<1>g. thr[t].pc \notin {"idle", "free"} /\ GiveUp(t) => RegionOK(t)'
  BY <1>0, GiveUpFacts, RegionNowhere DEF Filled
<1>r. RegionOK(t)
  BY DEF RegionInv
<1>1. CASE allocate_own(t)
  <2>1. thr[t].pc = "allocate" /\ thr'[t].pc \in {"allocate", "map"} /\ Lowest(FreeFds) \in Fds
    BY <1>0, <1>1, AllocateOwnFacts DEF NextSlot
  <2> QED
    BY <1>0, <1>1, <2>1, AllocateOwnFacts, AllocateOwnSets, RegionMakes
<1>2. CASE allocate_shared(t)
  BY <1>0, <1>r, <1>2, AllocateSharedFacts DEF RegionOK, Blank, Slots
<1>3. CASE allocate_fails(t)
  BY <1>g, <1>3 DEF allocate_fails, At
<1>4. CASE allocate_undefined(t)
  BY <1>r, <1>4 DEF allocate_undefined, RegionOK, Blank, Slots
<1>5. CASE dup_shared(t)
  <2>1. thr[t].pc = "dup" /\ thr[t].fd \in Fds
    BY <1>0, <1>5, DupFacts DEF PlaceInv
  <2>2. ASSUME NEW k \in Fds, DupAdopts(t, k) PROVE RegionOK(t)'
    <3>1. /\ FreshHandle \in Handles /\ handles[FreshHandle].state = "none" /\ thr'[t].pc \in {"dup", "map"}
          /\ thr'[t].hs = [thr[t].hs EXCEPT ![thr[t].i] = FreshHandle]
      BY <2>2 DEF DupAdopts, NextSlot
    <3>2. SetHandle(FreshHandle, NewHandle(k))
      BY <1>0, <2>2, DupAdoptsSets
    <3> QED
      BY <2>1, <3>1, <3>2, RegionMakes
  <2> QED
    BY <1>0, <1>g, <1>5, <2>1, <2>2, DupFacts
<1>6. CASE map_buffer(t)
  <2> DEFINE h == thr[t].hs[thr[t].i]
  <2>1. thr[t].pc = "map" /\ h \in Handles
    BY <1>0, <1>6, MapFacts
  <2>2. CASE GiveUp(t)
    BY <1>g, <2>1, <2>2
  <2>3. CASE SetHandle(h, [handles[h] EXCEPT !.base = Memory(h)]) /\ NextSlot(t, "map", "attributes") /\ thr'[t].hs = thr[t].hs
    <3>1. \A g \in Handles : handles'[g].attr_fd = handles[g].attr_fd
      <4>1. handles[h] \in HandleType
        BY <1>0, <2>1, TypedState
      <4> QED
        BY <2>3, <4>1 DEF SetHandle, HandleType
    <3>2. \A j \in Slots(t) : thr[t].hs[j] # 0 => handles[thr[t].hs[j]].attr_fd = -1 /\ thr[t].hs[j] \in Handles
      BY <1>0, <1>r, <2>1, SlotTyped DEF RegionOK, Blank
    <3> HIDE DEF h
    <3> QED
      BY <2>3, <3>1, <3>2 DEF RegionOK, Blank, Slots
  <2> QED
    BY <1>0, <1>6, <2>2, <2>3, MapFacts
<1>7. CASE gralloc_buffer_attr_allocate(t)
  <2> DEFINE i == thr[t].i
             h == thr[t].hs[i]
  <2>1. thr[t].pc = "attributes" /\ h \in Handles /\ i \in Slots(t)
    BY <1>0, <1>7, AttributesFacts, CallInLoop DEF Slots
  <2>2. CASE GiveUp(t)
    BY <1>g, <2>1, <2>2
  <2>3. CASE /\ SetHandle(h, [handles[h] EXCEPT !.attr_fd = Lowest(FreeFds)]) /\ thr'[t].pc = "list" /\ thr'[t].i = i
             /\ thr'[t].hs = thr[t].hs
    <3>1. i \in Nat /\ Slots(t) = 1 .. Len(thr[t].ds) /\ Len(thr[t].ds) \in Nat
      BY <1>0, <2>1, CallInLoop DEF Slots
    <3>2. ASSUME NEW j \in Slots(t), j > i, thr[t].hs[j] # 0 PROVE handles'[thr[t].hs[j]].attr_fd = -1
      <4>1. thr[t].hs[j] # h
        BY <2>1, <3>1, <3>2 DEF BusyInv, SlotsApart
      <4>2. thr[t].hs[j] \in Handles
        BY <1>0, <3>2, SlotTyped
      <4>3. handles[thr[t].hs[j]].attr_fd = -1
        BY <1>r, <2>1, <3>1, <3>2 DEF RegionOK, Blank
      <4> QED
        BY <2>3, <4>1, <4>2, <4>3 DEF SetHandle
    <3> HIDE DEF h, i
    <3> QED
      BY <2>3, <3>2 DEF RegionOK, Blank, Slots
  <2> QED
    BY <1>0, <1>7, <2>2, <2>3, AttributesFacts
<1>8. CASE list_and_number(t)
  <2> DEFINE i == thr[t].i
             h == thr[t].hs[i]
  <2>1. thr[t].pc = "list" /\ h \in Handles /\ SetHandle(h, [handles[h] EXCEPT !.id = NumberOf(t)])
    BY <1>0, <1>8, ListFacts
  <2>2. CASE Fail(t)
    BY <1>f, <2>2
  <2>3. CASE thr'[t].pc = "attributes" /\ thr'[t].i = i + 1 /\ thr'[t].hs = thr[t].hs
    <3>1. i \in Nat /\ Slots(t) = 1 .. Len(thr[t].ds) /\ Len(thr[t].ds) \in Nat
      BY <1>0, <2>1, CallInLoop DEF Slots
    <3>2. \A g \in Handles : handles'[g].attr_fd = handles[g].attr_fd
      <4>1. handles[h] \in HandleType
        BY <1>0, <2>1, TypedState
      <4> QED
        BY <2>1, <4>1 DEF SetHandle, HandleType
    <3>3. \A j \in Slots(t) : thr[t].hs[j] # 0 /\ j >= i + 1 => handles[thr[t].hs[j]].attr_fd = -1 /\ thr[t].hs[j] \in Handles
      BY <1>0, <1>r, <2>1, <3>1, SlotTyped DEF RegionOK, Blank
    <3> HIDE DEF h, i
    <3> QED
      BY <2>3, <3>2, <3>3 DEF RegionOK, Blank, Slots
  <2> QED
    BY <1>0, <1>8, <2>2, <2>3, ListFacts
<1>9. CASE free_internal(t)
  BY <1>0, <1>f, <1>9, FreeInternalFacts, RegionNowhere DEF Filled
<1>10. CASE mali_gralloc_dump_buffer_erase(t)
  BY <1>0, <1>10, EraseFacts, RegionNowhere DEF Filled
<1>11. CASE mali_gralloc_buffer_free(t)
  BY <1>0, <1>f, <1>11, FreeFacts
<1> QED
  BY <1>1, <1>2, <1>3, <1>4, <1>5, <1>6, <1>7, <1>8, <1>9, <1>10, <1>11 DEF LateStep

LEMMA RegionAlways == AllocSpec => []RegionInv
<1>1. AllocInit => RegionInv
  <2> SUFFICES ASSUME AllocInit PROVE RegionInv
    OBVIOUS
  <2>1. \A t \in Threads : thr[t].pc = "idle"
    BY DEF AllocInit, IdleThread
  <2> QED
    BY <2>1 DEF RegionInv, RegionOK
<1>2. TypeInv /\ BusyInv /\ RegionInv /\ [AllocNext]_allocVars => RegionInv'
  <2> SUFFICES ASSUME TypeInv, BusyInv, RegionInv, [AllocNext]_allocVars PROVE RegionInv'
    OBVIOUS
  <2>1. CASE UNCHANGED allocVars
    BY <2>1 DEF allocVars, RegionInv, RegionOK, Blank, Slots
  <2>2. ASSUME NEW t \in Threads, EarlyStep(t) PROVE RegionInv'
    <3>1. GlobalFds /\ (GlobalThread(t) \/ UNCHANGED thr)
      BY <2>2, EarlyIsGlobal DEF TypeInv
    <3>2. UNCHANGED handles
      BY <3>1 DEF GlobalFds
    <3>3. CASE UNCHANGED thr
      BY <3>2, <3>3 DEF RegionInv, RegionOK, Blank, Slots
    <3>4. CASE GlobalThread(t)
      <4>1. RegionOK(t)'
        BY <3>4 DEF GlobalThread, RegionOK, Slots
      <4>2. \A u \in Threads \ {t} : RegionOK(u)'
        BY <3>2, <3>4, RegionOthers DEF GlobalThread, Others
      <4> QED
        BY <4>1, <4>2 DEF RegionInv
    <3> QED
      BY <3>1, <3>3, <3>4
  <2> QED
    BY <2>1, <2>2, StepKinds, RegionLate
<1> QED
  BY <1>1, <1>2, Typed, BusyAlways, PTL DEF AllocSpec

-----------------------------------------------------------------------------
(* No descriptor is forgotten. *)

Accounted(k) ==
  \/ k \in Globals \cup dropped
  \/ \E h \in Handles : IsMade(h) /\ k \in Held(h)
  \/ \E t \in Threads : thr[t].fd = k

\* Who opens the CMA heap still has the descriptor of the system heap, but so has the global, or it was dropped.
CmaInv == \A t \in Threads : thr[t].pc = "cma" => thr[t].fd = ion.system \/ thr[t].fd \in dropped
LostInv == CmaInv /\ NothingLost

\* What was open and in a handle stays so, or is closed.
HandlesKeep == \A h \in Handles, k \in Fds : IsMade(h) /\ k \in Held(h) /\ fds'[k] # Closed => Accounted(k)'
GlobalsKeep == \A k \in Fds \ {0} : fds[k] # Closed /\ k \in Globals => Accounted(k)'
ThreadKeeps(t) == \A k \in Fds \ {0} : fds[k] # Closed /\ fds'[k] # Closed /\ thr[t].fd = k => Accounted(k)'
OpensFor == \A k \in Fds \ {0} : fds[k] = Closed /\ fds'[k] # Closed => Accounted(k)'

AccountsFor(k) == \A l \in Fds : l = k => Accounted(l)'

LEMMA NothingIsAccounted == NothingLost <=> \A k \in Fds \ {0} : fds[k] # Closed => Accounted(k)
BY DEF NothingLost, Accounted, IsMade

LEMMA AccountsKept ==
  ASSUME NothingLost, NEW t \in Threads, Others(t), dropped \subseteq dropped',
         HandlesKeep, GlobalsKeep, ThreadKeeps(t), OpensFor
  PROVE  NothingLost'
<1> SUFFICES ASSUME NEW k \in Fds \ {0}, fds'[k] # Closed PROVE Accounted(k)'
  BY DEF NothingLost, Accounted, IsMade, Held, Globals, Closed
<1>1. CASE fds[k] = Closed
  BY <1>1 DEF OpensFor
<1>2. CASE fds[k] # Closed
  <2>1. Accounted(k)
    BY <1>2, NothingIsAccounted
  <2>2. k \in dropped => Accounted(k)'
    BY DEF Accounted
  <2>3. ASSUME NEW u \in Threads, u # t, thr[u].fd = k PROVE Accounted(k)'
    BY <2>3 DEF Others, Accounted
  <2> QED
    BY <1>2, <2>1, <2>2, <2>3 DEF Accounted, HandlesKeep, GlobalsKeep, ThreadKeeps
<1> QED
  BY <1>1, <1>2

\* What a step of initialize_interface opens is a global's, or is in a local variable.
LEMMA EarlyOpens ==
  ASSUME TypeInv, NEW t \in Threads, EarlyStep(t)
  PROVE  \A k \in Fds : \/ fds'[k] = fds[k] \/ fds'[k] = Closed \/ thr'[t].fd = k \/ k = ion'.client
                        \/ dma_heap_open_cma(t) /\ k = ion'.cma
<1>0. ASSUME NEW o, FreeFds # {}, fds' = Opens(o, Lowest(FreeFds))
      PROVE  \A k \in Fds : fds'[k] = fds[k] \/ k = Lowest(FreeFds)
  BY <1>0, IonParts DEF Opens
<1>1. CASE dma_heap_open_system(t)
  <2>1. CASE FreeFds # {} /\ fds' = Opens(<<"system", 0>>, Lowest(FreeFds)) /\ thr' = [thr EXCEPT ![t].pc = "version", ![t].fd = Lowest(FreeFds)]
    <3>1. thr'[t].fd = Lowest(FreeFds)
      BY <2>1, IonParts DEF ThreadType
    <3> QED
      BY <1>0, <2>1, <3>1
  <2> QED
    BY <1>1, <2>1 DEF dma_heap_open_system
<1>2. CASE dma_heap_open_cma(t)
  <2>1. CASE FreeFds # {} /\ fds' = Opens(<<"cma", 0>>, Lowest(FreeFds)) /\ ion' = [ion EXCEPT !.cma = Lowest(FreeFds)]
    <3>1. ion'.cma = Lowest(FreeFds)
      BY <2>1, IonParts
    <3> QED
      BY <1>0, <1>2, <2>1, <3>1
  <2> QED
    BY <1>2, <2>1 DEF dma_heap_open_cma
<1>3. ASSUME NEW next, ion_open(t, next) PROVE \A k \in Fds : fds'[k] = fds[k] \/ k = ion'.client
  <2>1. CASE FreeFds # {} /\ fds' = Opens(<<"ion", 0>>, Lowest(FreeFds)) /\ ion' = [ion EXCEPT !.client = Lowest(FreeFds)]
    <3>1. ion'.client = Lowest(FreeFds)
      BY <2>1, IonParts
    <3> QED
      BY <1>0, <2>1, <3>1
  <2> QED
    BY <1>3, <2>1 DEF ion_open
<1>4. CASE ion_open_first(t)
  BY <1>3, <1>4 DEF ion_open_first
<1>5. CASE reopen_client(t)
  BY <1>3, <1>5 DEF reopen_client
<1>6. CASE ion_close(t)
  BY <1>6, IonParts DEF ion_close, Opens
<1>7. CASE UNCHANGED fds
  BY <1>7
<1> QED
  BY <1>1, <1>2, <1>4, <1>5, <1>6, <1>7 DEF EarlyStep, mali_gralloc_buffer_allocate, test_caps_read, lock_caps, determine_caps,
     restrict_caps, publish_caps, unlock_caps, use_caps, initialize_interface, set_interface_ver, set_system_heap, find_heaps,
     forget_client, share

LEMMA EarlyDrops ==
  ASSUME TypeInv, NEW t \in Threads, EarlyStep(t)
  PROVE  dropped \subseteq dropped' /\ UNCHANGED handles /\ Others(t)
<1>1. \A k : dropped \subseteq Dropped(k)
  BY DEF Dropped
<1>2. UNCHANGED dropped \/ \E k : dropped' = Dropped(k)
  BY DEF EarlyStep, mali_gralloc_buffer_allocate, test_caps_read, lock_caps, determine_caps, restrict_caps, publish_caps,
     unlock_caps, use_caps, initialize_interface, dma_heap_open_system, set_interface_ver, set_system_heap, dma_heap_open_cma,
     ion_open_first, ion_open, find_heaps, ion_close, forget_client, reopen_client, share, unchangedButIon
<1>3. UNCHANGED handles /\ Others(t)
  BY EarlyIsGlobal DEF TypeInv, GlobalFds, GlobalThread, Others
<1> QED
  BY <1>1, <1>2, <1>3

\* The global of the system heap changes only where the old one is dropped.
LEMMA CmaKept ==
  ASSUME TypeInv, OwnInv, LostInv, NEW t \in Threads, Others(t), dropped \subseteq dropped',
         ion'.system = ion.system \/ (\A u \in Threads : thr[u].pc # "cma") \/ dropped' = Dropped(ion.system),
         thr'[t].pc = "cma" => thr'[t].fd = ion'.system
  PROVE  CmaInv'
<1> SUFFICES ASSUME NEW u \in Threads, thr'[u].pc = "cma" PROVE thr'[u].fd = ion'.system \/ thr'[u].fd \in dropped'
  BY DEF CmaInv
<1>1. CASE u = t
  BY <1>1
<1>2. CASE u # t
  <2>1. thr'[u] = thr[u] /\ thr[u].pc = "cma"
    BY <1>2 DEF Others
  <2>2. thr[u].fd = ion.system \/ thr[u].fd \in dropped
    BY <2>1 DEF LostInv, CmaInv
  <2>3. thr[u].fd \in Fds /\ fds[thr[u].fd] = <<"system", 0>> /\ fds[0] = <<"other", 0>>
    BY <2>1 DEF TypeInv, PlaceInv, Initializing, OwnInv, InitOK, StdioInv
  <2>4. thr[u].fd \in Fds \ {0} /\ fds[thr[u].fd] # Closed
    BY <2>3, KindsDiffer DEF Closed
  <2> QED
    BY <2>1, <2>2, <2>4 DEF Dropped
<1> QED
  BY <1>1, <1>2

\* A thread outside initialize_interface has no descriptor, and what is opened is a global's or its own.
LEMMA EarlyThread ==
  ASSUME TypeInv, GlobalInv, NEW t \in Threads, EarlyStep(t)
  PROVE  /\ thr[t].pc \notin Initializing => ThreadKeeps(t)
         /\ thr'[t].fd = thr[t].fd => ThreadKeeps(t)
         /\ ~dma_heap_open_cma(t) => OpensFor
         /\ dma_heap_open_cma(t) /\ ion'.ver = "DMABUF" => OpensFor
<1>0. PlaceInv(t) /\ thr[t].pc # "dup"
  BY DEF TypeInv, EarlyStep, At, mali_gralloc_buffer_allocate, test_caps_read, lock_caps, determine_caps, restrict_caps,
         publish_caps, unlock_caps, use_caps, initialize_interface, dma_heap_open_system, set_interface_ver, set_system_heap,
         dma_heap_open_cma, ion_open_first, find_heaps, ion_close, forget_client, reopen_client, share
<1>1. ASSUME thr[t].pc \notin Initializing PROVE ThreadKeeps(t)
  <2>1. thr[t].fd = -1 /\ \A k \in Fds : k # -1
    BY <1>0, <1>1, GrallocAllocationAssumption DEF PlaceInv, Fds
  <2> QED
    BY <2>1 DEF ThreadKeeps
<1>2. thr'[t].fd = thr[t].fd => ThreadKeeps(t)
  BY DEF ThreadKeeps, Accounted
<1>3. ASSUME dma_heap_open_cma(t) => ion'.ver = "DMABUF" PROVE OpensFor
  <2> SUFFICES ASSUME NEW k \in Fds \ {0}, fds[k] = Closed, fds'[k] # Closed PROVE Accounted(k)'
    BY DEF OpensFor
  <2>1. thr'[t].fd = k \/ k = ion'.client \/ (ion'.ver = "DMABUF" /\ k = ion'.cma)
    BY <1>3, EarlyOpens
  <2> QED
    BY <2>1 DEF Accounted, Globals
<1> QED
  BY <1>1, <1>2, <1>3

\* The globals of a step that drops what it replaces.
LEMMA GlobalsDrop ==
  ASSUME dropped \subseteq dropped',
         ion.ver = "DMABUF" => ion'.ver = "DMABUF",
         ion'.client = ion.client \/ dropped' = Dropped(ion.client),
         ion.ver = "DMABUF" => ion'.system = ion.system \/ dropped' = Dropped(ion.system),
         ion.ver = "DMABUF" => ion'.cma = ion.cma \/ dropped' = Dropped(ion.cma)
  PROVE  GlobalsKeep
<1> SUFFICES ASSUME NEW k \in Fds \ {0}, fds[k] # Closed, k \in Globals PROVE Accounted(k)'
  BY DEF GlobalsKeep
<1>1. ASSUME NEW l, k = l, dropped' = Dropped(l) PROVE Accounted(k)'
  BY <1>1 DEF Dropped, Accounted
<1>2. CASE k = ion.client
  BY <1>1, <1>2 DEF Accounted, Globals
<1>3. CASE ion.ver = "DMABUF" /\ k = ion.system
  BY <1>1, <1>3 DEF Accounted, Globals
<1>4. CASE ion.ver = "DMABUF" /\ k = ion.cma
  BY <1>1, <1>4 DEF Accounted, Globals
<1> QED
  BY <1>2, <1>3, <1>4 DEF Globals

LEMMA LostEarly ==
  ASSUME TypeInv, OwnInv, GlobalInv, LostInv, NEW t \in Threads, EarlyStep(t)
  PROVE  LostInv'
<1>0. /\ HeapInv /\ NothingLost /\ AllocTypeOK /\ dropped \subseteq dropped' /\ UNCHANGED handles /\ Others(t)
  BY EarlyDrops DEF GlobalInv, LostInv, TypeInv
<1>h. HandlesKeep
  BY <1>0 DEF HandlesKeep, Accounted, IsMade, Held
<1>t. ASSUME NEW p, GoTo(t, p) PROVE thr'[t].pc = p /\ thr'[t].fd = thr[t].fd
  BY <1>t, IonParts DEF GoTo, ThreadType
<1>q. ASSUME GlobalsKeep, ThreadKeeps(t), dma_heap_open_cma(t) => ion'.ver = "DMABUF", CmaInv' PROVE LostInv'
  BY <1>0, <1>h, <1>q, EarlyThread, AccountsKept DEF LostInv
<1>n. ASSUME thr'[t].pc # "cma", ion'.system = ion.system PROVE CmaInv'
  BY <1>0, <1>n, CmaKept
<1>1. CASE PlainStep(t)
  <2>1. UNCHANGED ion /\ thr[t].pc \notin {"version", "system", "cma"} /\ thr'[t].pc # "cma"
    BY <1>1 DEF PlainStep
  <2>2. GlobalsKeep
    BY <1>0, <2>1, GlobalsDrop
  <2> QED
    BY <1>q, <1>n, <2>1, <2>2, EarlyThread DEF Initializing, dma_heap_open_cma, At
<1>2. CASE set_interface_ver(t)
  <2>1. thr[t].pc = "version" /\ ion' = [ion EXCEPT !.ver = "DMABUF"] /\ GoTo(t, "system")
    BY <1>2 DEF set_interface_ver, At
  <2>2. ion'.ver = "DMABUF" /\ ion'.system = ion.system /\ ion'.cma = ion.cma /\ ion'.client = ion.client
    BY <2>1, IonParts
  <2>3. GlobalsKeep
    BY <1>0, <2>2, GlobalsDrop
  <2> QED
    BY <1>q, <1>n, <1>t, <2>1, <2>2, <2>3, EarlyThread
<1>3. CASE set_system_heap(t)
  <2>1. thr[t].pc = "system" /\ ion' = [ion EXCEPT !.system = thr[t].fd] /\ GoTo(t, "cma") /\ dropped' = Dropped(ion.system)
    BY <1>3 DEF set_system_heap, At
  <2>2. ion'.ver = ion.ver /\ ion'.system = thr[t].fd /\ ion'.cma = ion.cma /\ ion'.client = ion.client
    BY <2>1, IonParts
  <2>3. GlobalsKeep
    BY <1>0, <2>1, <2>2, GlobalsDrop
  <2>4. thr'[t].fd = thr[t].fd
    BY <1>t, <2>1
  <2>5. CmaInv'
    BY <1>0, <2>1, <2>2, <2>4, CmaKept
  <2> QED
    BY <1>q, <2>1, <2>3, <2>4, <2>5, EarlyThread DEF dma_heap_open_cma, At
<1>4. CASE dma_heap_open_cma(t)
  <2>1. /\ thr[t].pc = "cma" /\ thr' = [thr EXCEPT ![t].pc = "client", ![t].fd = -1] /\ dropped' = Dropped(ion.cma)
        /\ ion' = [ion EXCEPT !.cma = -1] \/ ion' = [ion EXCEPT !.cma = Lowest(FreeFds)]
    BY <1>4 DEF dma_heap_open_cma, At
  <2>2. ion'.ver = ion.ver /\ ion'.system = ion.system /\ ion'.client = ion.client /\ ion.ver = "DMABUF"
    BY <1>0, <2>1, IonParts DEF HeapInv
  <2>3. GlobalsKeep
    BY <1>0, <2>1, <2>2, GlobalsDrop
  <2>4. thr'[t].pc = "client"
    BY <2>1, IonParts DEF ThreadType
  <2>5. ThreadKeeps(t)
    <3>1. thr[t].fd = ion.system \/ thr[t].fd \in dropped
      BY <2>1 DEF LostInv, CmaInv
    <3> QED
      BY <1>0, <2>2, <3>1 DEF ThreadKeeps, Accounted, Globals
  <2> QED
    BY <1>q, <1>n, <2>2, <2>3, <2>4, <2>5
<1>5. CASE IonOpens(t)
  <2>1. PICK next \in {"heaps", "share"} : ion_open(t, next)
    BY <1>5 DEF IonOpens
  <2>2. thr[t].pc \in {"ion_open", "client"}
    BY <1>5 DEF IonOpens
  <2>3. /\ dropped' = Dropped(ion.client) /\ (GoTo(t, next) \/ Fail(t))
        /\ ion' = [ion EXCEPT !.client = -1] \/ ion' = [ion EXCEPT !.client = Lowest(FreeFds)]
    BY <2>1 DEF ion_open
  <2>4. ion'.ver = ion.ver /\ ion'.system = ion.system /\ ion'.cma = ion.cma
    BY <2>3, IonParts
  <2>5. GlobalsKeep
    BY <1>0, <2>3, <2>4, GlobalsDrop
  <2>6. thr'[t].pc # "cma"
    BY <1>0, <1>t, <2>3, FailPc
  <2> QED
    BY <1>q, <1>n, <2>2, <2>4, <2>5, <2>6, EarlyThread DEF Initializing, dma_heap_open_cma, At
<1>6. CASE find_heaps(t)
  <2>1. thr[t].pc = "heaps" /\ kernel # "dmabuf" /\ (GoTo(t, "client") \/ GoTo(t, "ion_close"))
    BY <1>6 DEF find_heaps, At
  <2>2. ion'.client = ion.client
    BY <1>6, IonParts DEF find_heaps
  <2>3. ion.ver # "DMABUF" /\ \A u \in Threads : thr[u].pc # "cma"
    BY <1>0, <2>1 DEF HeapInv
  <2>4. GlobalsKeep
    BY <1>0, <2>2, <2>3, GlobalsDrop
  <2>5. CmaInv'
    BY <1>0, <1>t, <2>1, <2>3, CmaKept
  <2> QED
    BY <1>q, <2>1, <2>4, <2>5, EarlyThread DEF Initializing, dma_heap_open_cma, At
<1>7. CASE ion_close(t)
  <2>1. thr[t].pc = "ion_close" /\ UNCHANGED ion /\ (UNCHANGED thr \/ GoTo(t, "forget"))
    BY <1>7 DEF ion_close, At
  <2>2. GlobalsKeep
    BY <1>0, <2>1, GlobalsDrop
  <2>3. thr'[t].pc # "cma"
    BY <1>t, <2>1
  <2>4. ~dma_heap_open_cma(t) /\ thr[t].pc \notin Initializing
    BY <2>1 DEF Initializing, dma_heap_open_cma, At
  <2> QED
    BY <1>q, <1>n, <2>1, <2>2, <2>3, <2>4, EarlyThread
<1>8. CASE forget_client(t)
  <2>1. thr[t].pc = "forget" /\ ion' = [ion EXCEPT !.client = -1] /\ Fail(t) /\ dropped' = Dropped(ion.client)
    BY <1>8 DEF forget_client, At
  <2>2. ion'.ver = ion.ver /\ ion'.system = ion.system /\ ion'.cma = ion.cma
    BY <2>1, IonParts
  <2>3. GlobalsKeep
    BY <1>0, <2>1, <2>2, GlobalsDrop
  <2>4. thr'[t].pc # "cma"
    BY <1>0, <2>1, FailPc
  <2> QED
    BY <1>q, <1>n, <2>1, <2>2, <2>3, <2>4, EarlyThread DEF Initializing, dma_heap_open_cma, At
<1>9. \/ PlainStep(t) \/ set_interface_ver(t) \/ set_system_heap(t) \/ dma_heap_open_cma(t) \/ IonOpens(t)
      \/ find_heaps(t) \/ ion_close(t) \/ forget_client(t)
  BY EarlyKinds
<1> QED
  BY <1>1, <1>2, <1>3, <1>4, <1>5, <1>6, <1>7, <1>8, <1>9

LEMMA LateGlobals ==
  ASSUME TypeInv, NEW t \in Threads, LateStep(t)
  PROVE  /\ UNCHANGED <<kernel, ion>> /\ Others(t) /\ dropped \subseteq dropped'
         /\ thr'[t].pc \notin Initializing
         /\ thr[t].pc # "dup" => thr[t].fd = -1
<1>1. AllocTypeOK /\ PlaceInv(t)
  BY DEF TypeInv
<1>2. UNCHANGED <<kernel, ion>> /\ Others(t) /\ thr'[t].pc \notin Initializing
  BY LatePc DEF Others, Filled, Initializing
<1>3. dropped \subseteq dropped'
  BY DEF LateStep, allocate_own, allocate_shared, allocate_fails, allocate_undefined, dup_shared, map_buffer,
         gralloc_buffer_attr_allocate, list_and_number, free_internal, mali_gralloc_dump_buffer_erase, mali_gralloc_buffer_free
<1>4. thr[t].pc \notin Initializing
  BY DEF LateStep, At, allocate_own, allocate_shared, allocate_fails, allocate_undefined, dup_shared, map_buffer,
         gralloc_buffer_attr_allocate, list_and_number, free_internal, mali_gralloc_dump_buffer_erase, mali_gralloc_buffer_free,
         Initializing
<1> QED
  BY <1>1, <1>2, <1>3, <1>4 DEF PlaceInv

\* The globals are left alone: it remains what becomes of the handles, the thread's descriptor and the new ones.
LEMMA LateKeeps ==
  ASSUME TypeInv, LostInv, NEW t \in Threads, LateStep(t), HandlesKeep, ThreadKeeps(t), OpensFor
  PROVE  LostInv'
<1>1. UNCHANGED <<kernel, ion>> /\ Others(t) /\ dropped \subseteq dropped' /\ thr'[t].pc # "cma"
  BY LateGlobals DEF Initializing
<1>2. GlobalsKeep
  BY <1>1 DEF GlobalsKeep, Accounted, Globals
<1>3. CmaInv'
  BY <1>1 DEF LostInv, CmaInv, Others
<1> QED
  BY <1>1, <1>2, <1>3, AccountsKept DEF LostInv

LEMMA NoThread ==
  ASSUME TypeInv, NEW t \in Threads, LateStep(t), thr[t].pc # "dup"
  PROVE  ThreadKeeps(t)
<1>1. thr[t].fd = -1 /\ \A k \in Fds : k # -1
  BY LateGlobals, GrallocAllocationAssumption DEF Fds
<1> QED
  BY <1>1 DEF ThreadKeeps

\* The handles are the same, and nothing new is open.
LEMMA SameAccounts ==
  /\ UNCHANGED handles => HandlesKeep
  /\ (\A k \in Fds : fds'[k] = fds[k] \/ fds'[k] = Closed) => OpensFor
BY DEF HandlesKeep, OpensFor, Accounted, IsMade, Held

\* A new handle for what a file descriptor is open to.
LEMMA MakesKeep ==
  ASSUME AllocTypeOK, NEW h \in Handles, handles[h].state = "none", NEW k \in Fds, SetHandle(h, NewHandle(k))
  PROVE  HandlesKeep /\ AccountsFor(k)
<1>1. \A g \in Handles : IsMade(g) => handles'[g] = handles[g]
  BY DEF SetHandle, IsMade
<1>2. HandlesKeep
  BY <1>1 DEF HandlesKeep, Accounted, IsMade, Held
<1>3. k >= 0
  BY GrallocAllocationAssumption DEF Fds
<1>4. handles'[h].state = "made" /\ handles'[h].share_fd = k
  BY NewHandleFacts DEF SetHandle
<1> QED
  BY <1>2, <1>3, <1>4 DEF AccountsFor, Accounted, IsMade, Held

\* A handle that keeps what it has.
LEMMA FillsKeep ==
  ASSUME AllocTypeOK, NEW h \in Handles, IsMade(h), NEW r, SetHandle(h, r), r.state = "made",
         r.share_fd = handles[h].share_fd, r.attr_fd = handles[h].attr_fd \/ handles[h].attr_fd = -1
  PROVE  HandlesKeep /\ AccountsFor(r.attr_fd)
<1>1. handles'[h] = r /\ \A g \in Handles \ {h} : handles'[g] = handles[g]
  BY DEF SetHandle
<1>2. \A k \in Fds : k >= 0
  BY GrallocAllocationAssumption DEF Fds
<1>3. ASSUME NEW g \in Handles, NEW k \in Fds, IsMade(g), k \in Held(g) PROVE Accounted(k)'
  <2>1. CASE g = h
    <3>1. k = handles[h].share_fd \/ k = handles[h].attr_fd
      BY <1>3, <2>1 DEF Held
    <3>2. k = r.share_fd \/ k = r.attr_fd
      BY <1>2, <3>1
    <3> QED
      BY <1>1, <1>2, <3>2 DEF Accounted, IsMade, Held
  <2>2. CASE g # h
    BY <1>1, <1>3, <2>2 DEF Accounted, IsMade, Held
  <2> QED
    BY <2>1, <2>2
<1>4. AccountsFor(r.attr_fd)
  BY <1>1, <1>2 DEF AccountsFor, Accounted, IsMade, Held
<1> QED
  BY <1>3, <1>4 DEF HandlesKeep

\* A handle that is cleared, and what it had is closed.
LEMMA ClosesKeep ==
  ASSUME NEW h \in Handles, NEW r, SetHandle(h, r), \A k \in Fds : fds'[k] = IF k \in Held(h) THEN Closed ELSE fds[k]
  PROVE  HandlesKeep /\ OpensFor
<1>1. \A g \in Handles \ {h} : handles'[g] = handles[g]
  BY DEF SetHandle
<1>2. HandlesKeep
  BY <1>1 DEF HandlesKeep, Accounted, IsMade, Held
<1> QED
  BY <1>2, SameAccounts

\* The owner of shared memory, once its turn was.
LEMMA OwnerHolds ==
  ASSUME TypeInv, BusyInv, OwnInv, NEW t \in Threads, thr[t].pc = "dup", thr[t].i > Largest(t)
  PROVE  Owner(t) \in Handles /\ IsMade(Owner(t)) /\ thr[t].fd \in Held(Owner(t)) /\ thr[t].fd \in Fds
<1>1. /\ AllocTypeOK /\ PlaceInv(t) /\ DupOK(t) /\ thr[t].fd \in Fds
  BY DEF TypeInv, OwnInv, PlaceInv
<1>2. Largest(t) \in Slots(t) /\ Largest(t) \in Nat /\ thr[t].i \in Nat
  BY <1>1, CallInLoop DEF Slots
<1>3. Owner(t) # 0
  BY <1>1, <1>2 DEF PlaceInv, Owner
<1>4. Owner(t) \in Handles /\ IsMade(Owner(t))
  BY <1>1, <1>2, <1>3, SlotTyped DEF Owner, BusyInv, SlotsMade
<1>5. handles[Owner(t)].share_fd = thr[t].fd
  BY <1>1 DEF DupOK
<1> QED
  BY <1>1, <1>4, <1>5, HandleParts

LEMMA LostDup ==
  ASSUME TypeInv, BusyInv, OwnInv, LostInv, NEW t \in Threads, dup_shared(t)
  PROVE  LostInv'
<1>0. AllocTypeOK /\ PlaceInv(t) /\ LateStep(t)
  BY DEF TypeInv, LateStep
<1>1. thr[t].pc = "dup" /\ thr[t].fd \in Fds
  BY <1>0, DupFacts DEF PlaceInv
<1>2. thr[t].i \in Nat /\ Largest(t) \in 1 .. Len(thr[t].ds) /\ Len(thr[t].ds) \in Nat /\ thr[t].i \in 1 .. Len(thr[t].ds)
  BY <1>0, <1>1, CallInLoop
<1>3. CASE thr[t].i = Largest(t) /\ DupAdopts(t, thr[t].fd) /\ UNCHANGED fds
  <2>1. FreshHandle \in Handles /\ handles[FreshHandle].state = "none" /\ SetHandle(FreshHandle, NewHandle(thr[t].fd))
    BY <1>0, <1>1, <1>3, DupAdoptsSets DEF DupAdopts
  <2>2. HandlesKeep /\ AccountsFor(thr[t].fd)
    BY <1>0, <1>1, <2>1, MakesKeep
  <2>3. ThreadKeeps(t) /\ OpensFor
    BY <1>3, <2>2, SameAccounts DEF ThreadKeeps, AccountsFor
  <2> QED
    BY <1>0, <2>2, <2>3, LateKeeps
<1>4. CASE /\ thr[t].i # Largest(t) /\ Lowest(FreeFds) \in Fds /\ fds[Lowest(FreeFds)] = Closed
           /\ DupAdopts(t, Lowest(FreeFds)) /\ fds' = [fds EXCEPT ![Lowest(FreeFds)] = fds[thr[t].fd]]
  <2> DEFINE k == Lowest(FreeFds)
  <2>1. /\ k \in Fds /\ FreshHandle \in Handles /\ handles[FreshHandle].state = "none" /\ SetHandle(FreshHandle, NewHandle(k))
        /\ SetFd(k, fds[thr[t].fd])
    BY <1>0, <1>1, <1>4, DupAdoptsSets, DupSets DEF DupAdopts
  <2>2. /\ thr'[t].fd = IF thr[t].i = Len(thr[t].ds) THEN -1 ELSE thr[t].fd
        /\ thr[t].i # Largest(t)
    BY <1>4 DEF DupAdopts
  <2> HIDE DEF k
  <2>3. HandlesKeep /\ AccountsFor(k)
    BY <1>0, <2>1, MakesKeep
  <2>4. OpensFor
    BY <2>1, <2>3 DEF OpensFor, AccountsFor, SetFd
  <2>5. ThreadKeeps(t)
    <3>1. CASE thr[t].i = Len(thr[t].ds)
      <4>1. thr[t].i > Largest(t)
        BY <1>2, <2>2, <3>1
      <4> QED
        BY <1>1, <2>3, <4>1, OwnerHolds DEF ThreadKeeps, HandlesKeep
    <3>2. CASE thr[t].i # Len(thr[t].ds)
      BY <2>2, <3>2 DEF ThreadKeeps, Accounted
    <3> QED
      BY <3>1, <3>2
  <2> QED
    BY <1>0, <2>3, <2>4, <2>5, LateKeeps
<1>5. CASE /\ GiveUp(t) /\ UNCHANGED <<fds, handles>> /\ thr[t].i # Largest(t)
           /\ dropped' = IF thr[t].i < Largest(t) THEN dropped \cup {thr[t].fd} ELSE dropped
  <2>1. HandlesKeep /\ OpensFor
    BY <1>5, SameAccounts
  <2>2. ThreadKeeps(t)
    <3>1. CASE thr[t].i < Largest(t)
      BY <1>5, <3>1 DEF ThreadKeeps, Accounted
    <3>2. CASE thr[t].i > Largest(t)
      BY <1>1, <2>1, <3>2, OwnerHolds DEF ThreadKeeps, HandlesKeep
    <3> QED
      BY <1>2, <1>5, <3>1, <3>2
  <2> QED
    BY <1>0, <2>1, <2>2, LateKeeps
<1> QED
  BY <1>0, <1>3, <1>4, <1>5, DupFacts

LEMMA LostLate ==
  ASSUME TypeInv, BusyInv, OwnInv, RegionInv, LostInv, NEW t \in Threads, LateStep(t)
  PROVE  LostInv'
<1>0. AllocTypeOK /\ PlaceInv(t)
  BY DEF TypeInv
<1>n. thr[t].pc # "dup" => ThreadKeeps(t)
  BY NoThread
<1>1. CASE allocate_own(t)
  <2> DEFINE k == Lowest(FreeFds)
  <2>1. /\ thr[t].pc = "allocate" /\ k \in Fds /\ FreshHandle \in Handles /\ handles[FreshHandle].state = "none"
        /\ SetFd(k, NewBuffer) /\ SetHandle(FreshHandle, NewHandle(k))
    BY <1>0, <1>1, AllocateOwnFacts, AllocateOwnSets
  <2> HIDE DEF k
  <2>2. HandlesKeep /\ AccountsFor(k)
    BY <1>0, <2>1, MakesKeep
  <2>3. OpensFor
    BY <2>1, <2>2 DEF OpensFor, AccountsFor, SetFd
  <2> QED
    BY <1>n, <2>1, <2>2, <2>3, LateKeeps
<1>2. CASE allocate_shared(t)
  <2> DEFINE k == Lowest(FreeFds)
  <2>1. thr[t].pc = "allocate" /\ UNCHANGED handles /\ thr'[t].fd = k /\ SetFd(k, NewBuffer)
    BY <1>0, <1>2, AllocateSharedFacts, AllocateSharedSets
  <2> HIDE DEF k
  <2>2. OpensFor
    BY <2>1 DEF OpensFor, SetFd, Accounted
  <2> QED
    BY <1>n, <2>1, <2>2, SameAccounts, LateKeeps
<1>3. CASE allocate_fails(t) \/ allocate_undefined(t)
  <2>1. thr[t].pc = "allocate" /\ UNCHANGED <<fds, handles>>
    BY <1>3 DEF allocate_fails, allocate_undefined, At
  <2> QED
    BY <1>n, <2>1, SameAccounts, LateKeeps
<1>4. CASE dup_shared(t)
  BY <1>4, LostDup
<1>5. CASE map_buffer(t)
  <2> DEFINE h == thr[t].hs[thr[t].i]
             r == [handles[h] EXCEPT !.base = Memory(h)]
  <2>1. thr[t].pc = "map" /\ UNCHANGED fds /\ h \in Handles /\ (UNCHANGED handles \/ SetHandle(h, r))
    BY <1>0, <1>5, MapFacts
  <2>2. IsMade(h)
    BY <1>0, <2>1, SlotFilled DEF Filled, BusyInv, SlotsMade
  <2>3. r.state = "made" /\ r.share_fd = handles[h].share_fd /\ r.attr_fd = handles[h].attr_fd
    <3>1. handles[h] \in HandleType
      BY <1>0, <2>1, TypedState
    <3> QED
      BY <2>2, <3>1 DEF HandleType, IsMade
  <2> HIDE DEF h, r
  <2>4. HandlesKeep
    BY <1>0, <2>1, <2>2, <2>3, FillsKeep, SameAccounts
  <2> QED
    BY <1>n, <2>1, <2>4, SameAccounts, LateKeeps
<1>6. CASE gralloc_buffer_attr_allocate(t)
  <2> DEFINE h == thr[t].hs[thr[t].i]
             k == Lowest(FreeFds)
             r == [handles[h] EXCEPT !.attr_fd = k]
  <2>1. /\ thr[t].pc = "attributes" /\ h \in Handles
        /\ UNCHANGED <<fds, handles>> \/ (k \in Fds /\ SetFd(k, <<"attributes", 0>>) /\ SetHandle(h, r))
    BY <1>0, <1>6, AttributesFacts
  <2>2. IsMade(h) /\ handles[h].attr_fd = -1
    <3>1. thr[t].i \in Slots(t) /\ thr[t].i >= thr[t].i /\ h # 0
      BY <1>0, <2>1, SlotFilled, CallInLoop DEF Filled
    <3>2. IsMade(h)
      BY <3>1 DEF BusyInv, SlotsMade
    <3>3. RegionOK(t) /\ thr[t].pc = "attributes"
      BY <2>1 DEF RegionInv
    <3>4. Blank(h)
      BY <3>1, <3>3 DEF RegionOK
    <3> QED
      BY <3>2, <3>4 DEF Blank
  <2>3. r.state = "made" /\ r.share_fd = handles[h].share_fd /\ r.attr_fd = k
    <3>1. handles[h] \in HandleType
      BY <1>0, <2>1, TypedState
    <3> QED
      BY <2>2, <3>1 DEF HandleType, IsMade
  <2> HIDE DEF h, k, r
  <2>4. CASE UNCHANGED <<fds, handles>>
    BY <1>n, <2>1, <2>4, SameAccounts, LateKeeps
  <2>5. CASE k \in Fds /\ SetFd(k, <<"attributes", 0>>) /\ SetHandle(h, r)
    <3>1. HandlesKeep /\ AccountsFor(k)
      BY <1>0, <2>1, <2>2, <2>3, <2>5, FillsKeep
    <3>2. OpensFor
      BY <2>5, <3>1 DEF OpensFor, AccountsFor, SetFd
    <3> QED
      BY <1>n, <2>1, <3>1, <3>2, LateKeeps
  <2> QED
    BY <2>1, <2>4, <2>5
<1>7. CASE list_and_number(t)
  <2> DEFINE h == thr[t].hs[thr[t].i]
             r == [handles[h] EXCEPT !.id = NumberOf(t)]
  <2>1. thr[t].pc = "list" /\ UNCHANGED fds /\ h \in Handles /\ SetHandle(h, r)
    BY <1>0, <1>7, ListFacts
  <2>2. IsMade(h)
    BY <1>0, <2>1, SlotFilled DEF Filled, BusyInv, SlotsMade
  <2>3. r.state = "made" /\ r.share_fd = handles[h].share_fd /\ r.attr_fd = handles[h].attr_fd
    <3>1. handles[h] \in HandleType
      BY <1>0, <2>1, TypedState
    <3> QED
      BY <2>2, <3>1 DEF HandleType, IsMade
  <2> HIDE DEF h, r
  <2>4. HandlesKeep
    BY <1>0, <2>1, <2>2, <2>3, FillsKeep
  <2> QED
    BY <1>n, <2>1, <2>4, SameAccounts, LateKeeps
<1>8. CASE free_internal(t)
  <2> DEFINE h == thr[t].hs[thr[t].i]
  <2>1. thr[t].pc = "undo"
    BY <1>0, <1>8, FreeInternalFacts
  <2>2. CASE UNCHANGED <<fds, handles>>
    BY <1>n, <2>1, <2>2, SameAccounts, LateKeeps
  <2>3. CASE h \in Handles /\ SetHandle(h, RolledBack(h)) /\ \A k \in Fds : fds'[k] = IF k \in Held(h) THEN Closed ELSE fds[k]
    BY <1>n, <2>1, <2>3, ClosesKeep, LateKeeps
  <2> QED
    BY <1>0, <1>8, <2>2, <2>3, FreeInternalFacts
<1>9. CASE mali_gralloc_dump_buffer_erase(t)
  <2>1. thr[t].pc = "idle" /\ UNCHANGED <<fds, handles>>
    BY <1>0, <1>9, EraseFacts
  <2> QED
    BY <1>n, <2>1, SameAccounts, LateKeeps
<1>10. CASE mali_gralloc_buffer_free(t)
  <2>1. /\ thr[t].pc = "free" /\ thr[t].old \in Handles /\ SetHandle(thr[t].old, NoHandle)
        /\ \A k \in Fds : fds'[k] = IF k \in Held(thr[t].old) THEN Closed ELSE fds[k]
    BY <1>0, <1>10, FreeFacts
  <2> QED
    BY <1>n, <2>1, ClosesKeep, LateKeeps
<1> QED
  BY <1>1, <1>2, <1>3, <1>4, <1>5, <1>6, <1>7, <1>8, <1>9, <1>10 DEF LateStep

\* mali_gralloc_ion_free and the error paths: through every failure, each file descriptor that is open
\* is a handle's, a global's or a local variable's, or one of those the code is known to drop.
THEOREM DescriptorsAreKept == AllocSpec => []NothingLost
<1>1. AllocInit => LostInv
  <2> SUFFICES ASSUME AllocInit PROVE LostInv
    OBVIOUS
  <2>1. \A t \in Threads : thr[t].pc = "idle"
    BY DEF AllocInit, IdleThread
  <2>2. \A k \in Fds \ {0} : fds[k] = Closed
    BY DEF AllocInit
  <2> QED
    BY <2>1, <2>2 DEF LostInv, CmaInv, NothingLost
<1>2. TypeInv /\ BusyInv /\ OwnInv /\ GlobalInv /\ RegionInv /\ LostInv /\ [AllocNext]_allocVars => LostInv'
  <2> SUFFICES ASSUME TypeInv, BusyInv, OwnInv, GlobalInv, RegionInv, LostInv, [AllocNext]_allocVars PROVE LostInv'
    OBVIOUS
  <2>1. CASE UNCHANGED allocVars
    BY <2>1 DEF allocVars, LostInv, CmaInv, NothingLost, Globals, Held
  <2> QED
    BY <2>1, StepKinds, LostEarly, LostLate
<1>3. LostInv => NothingLost
  BY DEF LostInv
<1> QED
  BY <1>1, <1>2, <1>3, Typed, BusyAlways, OwnAlways, GlobalAlways, RegionAlways, PTL DEF AllocSpec

-----------------------------------------------------------------------------
(* The memory of the buffers, and their backing store ids. *)

Counted ==
  /\ \A k \in Fds : IsBuffer(fds[k]) => fds[k][2] <= given.buffers
  /\ \A h \in Handles : IsMade(h) => handles[h].id <= given.ids

\* Handles with a number have the same one exactly if they have the same memory.
Numbered ==
  \A g, h \in Handles : IsMade(g) /\ IsMade(h) /\ handles[g].id # 0 /\ handles[h].id # 0 =>
    (handles[g].id = handles[h].id <=> Memory(g) = Memory(h))

\* What shares memory while it is made, the handles of one call do; nobody else has that memory.
DupMemories ==
  \A t, u \in Threads : thr[t].pc = "dup" /\ thr[u].pc = "dup" /\ t # u => fds[thr[t].fd][2] # fds[thr[u].fd][2]
GroupOK(t) ==
  /\ thr[t].shared => \A g, h \in Handles : HasSlot(t, g) /\ HasSlot(t, h) => Memory(g) = Memory(h)
  /\ thr[t].pc = "dup" => \A g \in Handles : IsMade(g) => (Memory(g) = fds[thr[t].fd][2] <=> HasSlot(t, g))
LooseOK(t) ==
  \A g, x \in Handles : IsMade(g) /\ HasSlot(t, x) /\ handles[x].id = 0 /\ g # x /\ Memory(g) = Memory(x) =>
    thr[t].shared /\ HasSlot(t, g)

\* How far each handle of a call is.
SlotOK(t, j, r) ==
  /\ thr[t].pc \in {"allocate", "dup", "map"} => r.id = 0
  /\ thr[t].pc = "map" /\ j < thr[t].i => r.base # 0
  /\ thr[t].pc \in {"attributes", "list"} => r.base # 0
  /\ thr[t].pc \in {"attributes", "list"} /\ j < thr[t].i =>
       r.id # 0 /\ r.attr_fd >= 0 /\ (thr[t].shared => r.id = thr[t].id)
  /\ thr[t].pc \in {"attributes", "list"} /\ ~(j < thr[t].i) => r.id = 0
  /\ thr[t].pc = "list" /\ j = thr[t].i => r.attr_fd >= 0
FilledOK(t) == \A j \in Slots(t) : thr[t].hs[j] # 0 => SlotOK(t, j, handles[thr[t].hs[j]])
IsFinished(r) == r.base # 0 /\ r.attr_fd >= 0 /\ r.id # 0
Finished == \A h \in Handles : IsMade(h) /\ (\A t \in Threads : ~HasSlot(t, h)) => IsFinished(handles[h])
Bases == \A h \in Handles : IsMade(h) => handles[h].base \in {0, Memory(h)}

MemoryInv == /\ Counted /\ Numbered /\ DupMemories /\ Finished /\ Bases
             /\ \A t \in Threads : GroupOK(t) /\ LooseOK(t) /\ FilledOK(t)

-----------------------------------------------------------------------------
(* A step of t that lets the memory of the handles be. *)

MadeNow(h) == handles'[h].state = "made"
MemoryNow(h) == fds'[handles'[h].share_fd][2]
Slotted(t, h) == \E j \in DOMAIN thr'[t].hs : thr'[t].hs[j] = h
Remembers == \A g \in Handles : IsMade(g) /\ MadeNow(g) => MemoryNow(g) = Memory(g)
DupsRemember(t) == \A u \in Threads \ {t} : thr[u].pc = "dup" => fds'[thr[u].fd] = fds[thr[u].fd]
Touches(t) == \A g \in Handles : handles'[g] = handles[g] \/ ~IsMade(g) \/ HasSlot(t, g) \/ (thr[t].old = g /\ ~MadeNow(g))
\* What is new is nobody else's.
NewApart(t) ==
  \A h \in Handles : ~IsMade(h) /\ MadeNow(h) =>
    \A u \in Threads \ {t} :
      /\ thr[u].pc = "dup" => MemoryNow(h) # fds[thr[u].fd][2]
      /\ \A x \in Handles : HasSlot(u, x) => MemoryNow(h) # Memory(x)
MemoryStep(t) == Others(t) /\ Touches(t) /\ Remembers /\ DupsRemember(t) /\ NewApart(t)

LEMMA SlotIsMade ==
  ASSUME BusyInv, NEW u \in Threads, NEW g \in Handles, HasSlot(u, g)
  PROVE  IsMade(g)
BY HandleIsNumber DEF BusyInv, SlotsMade, HasSlot

LEMMA OthersKeepHandles ==
  ASSUME TypeInv, BusyInv, NEW t \in Threads, Touches(t), NEW u \in Threads, u # t, NEW g \in Handles, HasSlot(u, g)
  PROVE  handles'[g] = handles[g] /\ IsMade(g) /\ MadeNow(g)
<1>1. IsMade(g)
  BY SlotIsMade
<1>2. ~HasSlot(t, g) /\ thr[t].old # g
  BY NotTwice DEF Has, HasSlot
<1> QED
  BY <1>1, <1>2 DEF Touches, MadeNow, IsMade

LEMMA MemoryOthers ==
  ASSUME TypeInv, BusyInv, MemoryInv, NEW t \in Threads, MemoryStep(t), NEW u \in Threads, u # t
  PROVE  GroupOK(u)' /\ LooseOK(u)' /\ FilledOK(u)'
<1>0. thr'[u] = thr[u] /\ GroupOK(u) /\ LooseOK(u) /\ FilledOK(u)
  BY DEF MemoryStep, Others, MemoryInv
<1>1. \A g : HasSlot(u, g)' <=> HasSlot(u, g)
  BY <1>0 DEF HasSlot, Slots
<1>2. \A g \in Handles : HasSlot(u, g) => handles'[g] = handles[g] /\ IsMade(g) /\ MadeNow(g) /\ MemoryNow(g) = Memory(g)
  BY OthersKeepHandles DEF MemoryStep, Remembers
<1>3. \A g \in Handles : MadeNow(g) => MemoryNow(g) = Memory(g) \/ (~IsMade(g) /\ ~HasSlot(u, g))
  BY SlotIsMade DEF MemoryStep, Remembers
<1>4. \A g \in Handles : MadeNow(g) /\ ~IsMade(g) =>
        /\ thr[u].pc = "dup" => MemoryNow(g) # fds[thr[u].fd][2]
        /\ \A x \in Handles : HasSlot(u, x) => MemoryNow(g) # Memory(x)
  BY DEF MemoryStep, NewApart
<1>5. thr[u].pc = "dup" => fds'[thr[u].fd] = fds[thr[u].fd]
  BY DEF MemoryStep, DupsRemember
<1>6. \A g \in Handles : (IsMade(g)' <=> MadeNow(g)) /\ Memory(g)' = MemoryNow(g)
  BY DEF IsMade, MadeNow, Memory, MemoryNow
<1>7. GroupOK(u)'
  <2>1. ASSUME thr[u].shared, NEW g \in Handles, NEW h \in Handles, HasSlot(u, g), HasSlot(u, h) PROVE MemoryNow(g) = MemoryNow(h)
    BY <1>0, <1>2, <2>1 DEF GroupOK
  <2>2. ASSUME thr[u].pc = "dup", NEW g \in Handles, MadeNow(g) PROVE MemoryNow(g) = fds'[thr[u].fd][2] <=> HasSlot(u, g)
    <3>1. CASE IsMade(g)
      BY <1>0, <1>5, <2>2, <3>1 DEF GroupOK, MemoryStep, Remembers
    <3>2. CASE ~IsMade(g)
      BY <1>4, <1>5, <2>2, <3>2, SlotIsMade
    <3> QED
      BY <3>1, <3>2
  <2> QED
    BY <1>0, <1>1, <1>6, <2>1, <2>2 DEF GroupOK
<1>8. LooseOK(u)'
  <2>1. ASSUME NEW g \in Handles, NEW x \in Handles, MadeNow(g), HasSlot(u, x), handles[x].id = 0, g # x, MemoryNow(g) = Memory(x)
        PROVE  thr[u].shared /\ HasSlot(u, g)
    <3>1. IsMade(g)
      BY <1>4, <2>1
    <3>2. Memory(g) = Memory(x)
      BY <2>1, <3>1 DEF MemoryStep, Remembers
    <3> QED
      BY <1>0, <2>1, <3>1, <3>2 DEF LooseOK
  <2> QED
    BY <1>0, <1>1, <1>2, <1>6, <2>1 DEF LooseOK
<1>9. FilledOK(u)'
  <2>1. ASSUME NEW j \in Slots(u), thr[u].hs[j] # 0 PROVE handles'[thr[u].hs[j]] = handles[thr[u].hs[j]]
    <3>1. thr[u].hs[j] \in Handles /\ HasSlot(u, thr[u].hs[j])
      BY <2>1, SlotTyped DEF TypeInv, HasSlot
    <3> QED
      BY <1>2, <3>1
  <2> QED
    BY <1>0, <2>1 DEF FilledOK, SlotOK, Slots
<1> QED
  BY <1>7, <1>8, <1>9

LEMMA FinishedKept ==
  ASSUME TypeInv, BusyInv, MemoryInv, NEW t \in Threads, MemoryStep(t),
         \A g \in Handles : MadeNow(g) /\ ~Slotted(t, g) /\ (HasSlot(t, g) \/ ~IsMade(g)) => IsFinished(handles'[g])
  PROVE  Finished'
<1> SUFFICES ASSUME NEW g \in Handles, MadeNow(g), \A u \in Threads : ~HasSlot(u, g)' PROVE IsFinished(handles'[g])
  BY DEF Finished, IsMade, MadeNow, IsFinished
<1>1. ~Slotted(t, g) /\ \A u \in Threads \ {t} : ~HasSlot(u, g)
  BY DEF HasSlot, Slotted, Slots, MemoryStep, Others
<1>2. CASE IsMade(g) /\ ~HasSlot(t, g)
  <2>1. handles'[g] = handles[g]
    BY <1>2 DEF MemoryStep, Touches
  <2>2. \A u \in Threads : ~HasSlot(u, g)
    BY <1>1, <1>2
  <2> QED
    BY <1>2, <2>1, <2>2 DEF MemoryInv, Finished
<1> QED
  BY <1>1, <1>2

LEMMA BasesKept ==
  ASSUME MemoryInv, Remembers,
         \A g \in Handles : MadeNow(g) => handles'[g].base \in {0, MemoryNow(g)} \/ (IsMade(g) /\ handles'[g].base = handles[g].base)
  PROVE  Bases'
<1>1. \A g \in Handles : MadeNow(g) => handles'[g].base \in {0, MemoryNow(g)}
  BY DEF MemoryInv, Bases, Remembers
<1> QED
  BY <1>1 DEF Bases, IsMade, MadeNow, Memory, MemoryNow

LEMMA DupMemoriesKept ==
  ASSUME MemoryInv, NEW t \in Threads, MemoryStep(t),
         thr'[t].pc = "dup" => \/ thr[t].pc = "dup" /\ fds'[thr'[t].fd][2] = fds[thr[t].fd][2]
                               \/ \A u \in Threads \ {t} : thr[u].pc = "dup" => fds'[thr'[t].fd][2] # fds[thr[u].fd][2]
  PROVE  DupMemories'
<1>1. \A u \in Threads \ {t} : thr'[u] = thr[u] /\ (thr[u].pc = "dup" => fds'[thr[u].fd] = fds[thr[u].fd])
  BY DEF MemoryStep, Others, DupsRemember
<1>2. DupMemories
  BY DEF MemoryInv
<1>3. ASSUME NEW u \in Threads \ {t}, thr'[t].pc = "dup", thr[u].pc = "dup" PROVE fds'[thr'[t].fd][2] # fds'[thr[u].fd][2]
  BY <1>1, <1>2, <1>3 DEF DupMemories
<1> SUFFICES ASSUME NEW u \in Threads, NEW v \in Threads, u # v, thr'[u].pc = "dup", thr'[v].pc = "dup"
             PROVE  fds'[thr'[u].fd][2] # fds'[thr'[v].fd][2]
  BY DEF DupMemories
<1>4. CASE u = t
  BY <1>1, <1>3, <1>4
<1>5. CASE v = t
  BY <1>1, <1>3, <1>5
<1>6. CASE u # t /\ v # t
  BY <1>1, <1>2, <1>6 DEF DupMemories
<1> QED
  BY <1>4, <1>5, <1>6

LEMMA LateCloses ==
  ASSUME TypeInv, NEW t \in Threads, LateStep(t)
  PROVE  \A k \in Fds : fds'[k] = fds[k] \/ fds[k] = Closed \/ fds'[k] = Closed
<1>0. AllocTypeOK /\ PlaceInv(t)
  BY DEF TypeInv
<1>1. ASSUME NEW l \in Fds, fds[l] = Closed, NEW o, SetFd(l, o) PROVE \A k \in Fds : fds'[k] = fds[k] \/ fds[k] = Closed
  BY <1>1 DEF SetFd
<1>2. CASE allocate_own(t)
  BY <1>0, <1>1, <1>2, AllocateOwnFacts, AllocateOwnSets
<1>3. CASE allocate_shared(t)
  BY <1>0, <1>1, <1>3, AllocateSharedFacts, AllocateSharedSets
<1>4. CASE dup_shared(t)
  <2>1. thr[t].fd \in Fds
    BY <1>0, <1>4, DupFacts DEF PlaceInv
  <2> QED
    BY <1>0, <1>1, <1>4, <2>1, DupFacts, DupSets
<1>5. CASE gralloc_buffer_attr_allocate(t)
  BY <1>0, <1>1, <1>5, AttributesFacts
<1>6. CASE free_internal(t)
  BY <1>0, <1>6, FreeInternalFacts
<1>7. CASE mali_gralloc_buffer_free(t)
  BY <1>0, <1>7, FreeFacts
<1>8. CASE UNCHANGED fds
  BY <1>8
<1> QED
  BY <1>2, <1>3, <1>4, <1>5, <1>6, <1>7, <1>8 DEF LateStep, allocate_fails, allocate_undefined, map_buffer, list_and_number,
     mali_gralloc_dump_buffer_erase

\* A step that makes no handle leaves memory and numbers be.
LEMMA LateRemembers ==
  ASSUME TypeInv, BusyInv, OwnInv, OwnInv', NEW t \in Threads, LateStep(t)
  PROVE  /\ Others(t) /\ Touches(t) /\ Remembers /\ DupsRemember(t)
         /\ (\A g \in Handles : MadeNow(g) => IsMade(g)) => MemoryStep(t)
<1>1. Others(t)
  BY LateGlobals
<1>2. Touches(t)
  <2>1. \A g \in Handles : Touched(t, g)
    BY LateTouches
  <2> QED
    BY <2>1 DEF Touches, Touched, Has, HasSlot, MadeNow
<1>3. \A k \in Fds : IsBuffer(fds[k]) /\ IsBuffer(fds'[k]) => fds'[k] = fds[k]
  BY LateCloses, KindsDiffer
<1>4. Remembers
  <2> SUFFICES ASSUME NEW g \in Handles, IsMade(g), MadeNow(g) PROVE MemoryNow(g) = Memory(g)
    BY DEF Remembers
  <2>1. Touched(t, g)
    BY LateTouches
  <2>2. handles'[g].share_fd = handles[g].share_fd
    BY <2>1 DEF Touched, MadeNow
  <2>3. IsBuffer(fds[handles[g].share_fd]) /\ IsBuffer(fds'[handles[g].share_fd])
    BY <2>2 DEF OwnInv, Kinds, IsMade, MadeNow, IsBuffer
  <2>4. handles[g].share_fd \in Fds
    BY HandleParts DEF TypeInv
  <2> QED
    BY <1>3, <2>2, <2>3, <2>4 DEF Memory, MemoryNow
<1>5. DupsRemember(t)
  <2> SUFFICES ASSUME NEW u \in Threads \ {t}, thr[u].pc = "dup" PROVE fds'[thr[u].fd] = fds[thr[u].fd]
    BY DEF DupsRemember
  <2>1. thr'[u] = thr[u]
    BY <1>1 DEF Others
  <2>2. IsBuffer(fds[thr[u].fd]) /\ IsBuffer(fds'[thr[u].fd])
    BY <2>1 DEF OwnInv, DupOK, IsBuffer
  <2>3. thr[u].fd \in Fds
    BY DEF TypeInv, PlaceInv
  <2> QED
    BY <1>3, <2>2, <2>3
<1>6. (\A g \in Handles : MadeNow(g) => IsMade(g)) => MemoryStep(t)
  BY <1>1, <1>2, <1>4, <1>5 DEF MemoryStep, NewApart
<1> QED
  BY <1>1, <1>2, <1>4, <1>5, <1>6

LEMMA CountedKept ==
  ASSUME TypeInv, MemoryInv, given'.buffers = given.buffers, given'.ids = given.ids,
         \A k \in Fds : IsBuffer(fds'[k]) => \E l \in Fds : fds'[k] = fds[l],
         \A g \in Handles : MadeNow(g) => IsMade(g) /\ handles'[g].id = handles[g].id
  PROVE  Counted'
BY DEF MemoryInv, Counted, IsBuffer, IsMade, MadeNow

LEMMA MemorySame ==
  ASSUME TypeInv, BusyInv, BusyInv', MemoryInv, NEW t \in Threads, MemoryStep(t),
         \A g \in Handles : MadeNow(g) => IsMade(g) /\ handles'[g].id = handles[g].id,
         \A g \in Handles : Slotted(t, g) => HasSlot(t, g),
         \A g, x \in Handles : HasSlot(t, g) /\ MadeNow(g) /\ Slotted(t, x) => Slotted(t, g),
         thr'[t].pc # "dup", \A x \in Handles : Slotted(t, x) => thr'[t].shared = thr[t].shared
  PROVE  Numbered' /\ DupMemories' /\ GroupOK(t)' /\ LooseOK(t)'
<1>1. \A g \in Handles : (IsMade(g)' <=> MadeNow(g)) /\ Memory(g)' = MemoryNow(g) /\ (HasSlot(t, g)' <=> Slotted(t, g))
  BY DEF IsMade, MadeNow, Memory, MemoryNow, HasSlot, Slotted, Slots
<1>2. \A g \in Handles : MadeNow(g) => IsMade(g) /\ handles'[g].id = handles[g].id /\ MemoryNow(g) = Memory(g)
  BY DEF MemoryStep, Remembers
<1>3. Numbered'
  BY <1>1, <1>2 DEF MemoryInv, Numbered
<1>4. DupMemories'
  BY DupMemoriesKept
<1>5. \A g \in Handles : Slotted(t, g) => MadeNow(g)
  BY HandleIsNumber DEF BusyInv, SlotsMade, Slotted, Slots, IsMade, MadeNow
<1>6. GroupOK(t)'
  <2>1. ASSUME thr'[t].shared, NEW g \in Handles, NEW h \in Handles, Slotted(t, g), Slotted(t, h) PROVE MemoryNow(g) = MemoryNow(h)
    BY <1>2, <1>5, <2>1 DEF MemoryInv, GroupOK
  <2> QED
    BY <1>1, <2>1 DEF GroupOK
<1>7. LooseOK(t)'
  <2>1. ASSUME NEW g \in Handles, NEW x \in Handles, MadeNow(g), Slotted(t, x), handles'[x].id = 0, g # x, MemoryNow(g) = MemoryNow(x)
        PROVE  thr'[t].shared /\ Slotted(t, g)
    <3>1. IsMade(g) /\ HasSlot(t, x) /\ handles[x].id = 0 /\ Memory(g) = Memory(x)
      BY <1>2, <1>5, <2>1
    <3>2. thr[t].shared /\ HasSlot(t, g)
      BY <2>1, <3>1 DEF MemoryInv, LooseOK
    <3> QED
      BY <2>1, <3>2
  <2> QED
    BY <1>1, <2>1 DEF LooseOK
<1> QED
  BY <1>3, <1>4, <1>6, <1>7

\* A step of t by which handles are filled in or cleared.
LEMMA MemoryFills ==
  ASSUME TypeInv, BusyInv, BusyInv', OwnInv, OwnInv', MemoryInv, NEW t \in Threads, LateStep(t),
         given'.buffers = given.buffers, given'.ids = given.ids,
         \A k \in Fds : fds'[k] = fds[k] \/ ~IsBuffer(fds'[k]),
         \A g \in Handles : MadeNow(g) => IsMade(g) /\ handles'[g].id = handles[g].id /\ handles'[g].base \in {handles[g].base, Memory(g)},
         \A g \in Handles : Slotted(t, g) => HasSlot(t, g),
         \A g \in Handles : HasSlot(t, g) /\ MadeNow(g) => Slotted(t, g),
         thr'[t].pc # "dup", \A x \in Handles : Slotted(t, x) => thr'[t].shared = thr[t].shared,
         FilledOK(t)'
  PROVE  MemoryInv'
<1>1. MemoryStep(t) /\ Remembers
  BY LateRemembers
<1>2. Counted'
  BY CountedKept
<1>3. Numbered' /\ DupMemories' /\ GroupOK(t)' /\ LooseOK(t)'
  BY <1>1, MemorySame
<1>4. Finished'
  BY <1>1, FinishedKept
<1>5. Bases'
  BY <1>1, BasesKept DEF Remembers
<1>6. \A u \in Threads \ {t} : GroupOK(u)' /\ LooseOK(u)' /\ FilledOK(u)'
  BY <1>1, MemoryOthers
<1> QED
  BY <1>2, <1>3, <1>4, <1>5, <1>6 DEF MemoryInv

LEMMA NothingFilled ==
  ASSUME NEW t \in Threads, thr'[t].pc \notin {"allocate", "dup"} \cup Filled
  PROVE  FilledOK(t)'
BY DEF FilledOK, SlotOK, Filled

\* The thread keeps its slots, and neither descriptors nor handles change.
LEMMA MemoryIdle ==
  ASSUME TypeInv, BusyInv, BusyInv', OwnInv, OwnInv', MemoryInv, NEW t \in Threads, LateStep(t),
         UNCHANGED <<fds, handles, given>>, thr'[t].hs = thr[t].hs \/ \A g \in Handles : ~HasSlot(t, g) /\ ~Slotted(t, g),
         thr'[t].shared = thr[t].shared \/ (\A g \in Handles : ~Slotted(t, g)),
         thr'[t].pc # "dup", FilledOK(t)'
  PROVE  MemoryInv'
<1>1. \A g \in Handles : Slotted(t, g) <=> HasSlot(t, g)
  BY DEF Slotted, HasSlot, Slots
<1> QED
  BY <1>1, MemoryFills DEF MadeNow, IsMade

LEMMA MemoryGivesUp ==
  ASSUME TypeInv, BusyInv, BusyInv', OwnInv, OwnInv', MemoryInv, NEW t \in Threads, LateStep(t),
         thr[t].pc \notin {"idle", "free"}, GiveUp(t), UNCHANGED <<fds, handles, given>>
  PROVE  MemoryInv'
<1>1. thr'[t].pc = "undo" /\ thr'[t].hs = thr[t].hs /\ thr'[t].shared = thr[t].shared
  BY GiveUpFacts DEF TypeInv, SameCall
<1>2. FilledOK(t)'
  BY <1>1, NothingFilled DEF Filled
<1> QED
  BY <1>1, <1>2, MemoryIdle

\* A thread fills in the handle at i, but for its number.
LEMMA MemorySlot ==
  ASSUME TypeInv, BusyInv, BusyInv', OwnInv, OwnInv', MemoryInv, NEW t \in Threads, LateStep(t), UNCHANGED given,
         thr[t].pc \in {"map", "attributes"}, thr'[t].pc # "dup",
         thr'[t].hs = thr[t].hs, thr'[t].shared = thr[t].shared,
         NEW h \in Handles, h = thr[t].hs[thr[t].i], NEW r, SetHandle(h, r),
         r.id = handles[h].id, r.base \in {handles[h].base, Memory(h)},
         \A k \in Fds : fds'[k] = fds[k] \/ ~IsBuffer(fds'[k]), FilledOK(t)'
  PROVE  MemoryInv'
<1>1. \A g \in Handles : Slotted(t, g) <=> HasSlot(t, g)
  BY DEF Slotted, HasSlot, Slots
<1>2. IsMade(h)
  BY SlotFilled DEF TypeInv, BusyInv, SlotsMade, Filled
<1>3. \A g \in Handles : MadeNow(g) => IsMade(g) /\ handles'[g].id = handles[g].id /\ handles'[g].base \in {handles[g].base, Memory(g)}
  BY <1>2 DEF SetHandle, MadeNow, IsMade
<1> QED
  BY <1>1, <1>3, MemoryFills

LEMMA MemoryMap ==
  ASSUME TypeInv, BusyInv, BusyInv', OwnInv, OwnInv', MemoryInv, NEW t \in Threads, map_buffer(t)
  PROVE  MemoryInv'
<1> DEFINE i == thr[t].i
           h == thr[t].hs[i]
           r == [handles[h] EXCEPT !.base = Memory(h)]
<1>0. AllocTypeOK /\ PlaceInv(t) /\ LateStep(t)
  BY DEF TypeInv, LateStep
<1>1. thr[t].pc = "map" /\ UNCHANGED <<fds, given>> /\ h \in Handles
  BY <1>0, MapFacts
<1>2. CASE GiveUp(t) /\ UNCHANGED handles
  BY <1>0, <1>1, <1>2, MemoryGivesUp
<1>3. CASE /\ IsBuffer(fds[handles[h].share_fd]) /\ SetHandle(h, r)
           /\ SameCall(t) /\ NextSlot(t, "map", "attributes") /\ thr'[t].hs = thr[t].hs
  <2>1. handles[h] \in HandleType /\ fds[handles[h].share_fd] \in Opened
    BY <1>0, <1>1, TypedState, HandleParts
  <2>2. r.id = handles[h].id /\ r.base = Memory(h)
    BY <2>1 DEF HandleType
  <2>3. Memory(h) # 0
    BY <1>3, <2>1 DEF Opened, IsBuffer, Memory
  <2>4. i \in Slots(t) /\ Slots(t) = 1 .. Len(thr[t].ds) /\ Len(thr[t].ds) \in Nat /\ i \in Nat
    BY <1>0, <1>1, CallInLoop DEF Slots
  <2>5. thr'[t].pc \in {"map", "attributes"} /\ thr'[t].shared = thr[t].shared
    BY <1>3 DEF NextSlot, SameCall
  <2>6. FilledOK(t)'
    <3> SUFFICES ASSUME NEW j \in Slots(t), thr[t].hs[j] # 0 PROVE SlotOK(t, j, handles[thr[t].hs[j]])'
      BY <1>3 DEF FilledOK, Slots
    <3>1. SlotOK(t, j, handles[thr[t].hs[j]]) /\ thr[t].hs[j] \in Handles
      BY <1>0, SlotTyped DEF MemoryInv, FilledOK
    <3>2. handles[thr[t].hs[j]].id = 0 /\ (j < i => handles[thr[t].hs[j]].base # 0)
      BY <1>1, <3>1 DEF SlotOK
    <3>3. handles'[thr[t].hs[j]].id = 0 /\ (j <= i => handles'[thr[t].hs[j]].base # 0)
      <4>1. CASE thr[t].hs[j] = h
        BY <1>3, <2>2, <2>3, <3>2, <4>1 DEF SetHandle
      <4>2. CASE thr[t].hs[j] # h
        <5>1. j # i
          BY <4>2
        <5>2. handles'[thr[t].hs[j]] = handles[thr[t].hs[j]]
          BY <1>3, <3>1, <4>2 DEF SetHandle
        <5>3. j <= i => j < i
          BY <2>4, <5>1
        <5> HIDE DEF h, r
        <5> QED
          BY <3>2, <5>2, <5>3
      <4> QED
        BY <4>1, <4>2
    <3> HIDE DEF h, r
    <3>4. CASE i = Len(thr[t].ds)
      <4>1. thr'[t].pc = "attributes" /\ thr'[t].i = 1 /\ j <= i /\ ~(j < 1)
        BY <1>3, <2>4, <3>4 DEF NextSlot
      <4> QED
        BY <1>3, <3>3, <4>1 DEF SlotOK
    <3>5. CASE i # Len(thr[t].ds)
      <4>1. thr'[t].pc = "map" /\ thr'[t].i = i + 1 /\ (j < i + 1 => j <= i)
        BY <1>3, <2>4, <3>5 DEF NextSlot
      <4> QED
        BY <1>3, <3>3, <4>1 DEF SlotOK
    <3> QED
      BY <3>4, <3>5
  <2> HIDE DEF h, r
  <2>7. \A k \in Fds : fds'[k] = fds[k]
    BY <1>1
  <2> QED
    BY <1>0, <1>1, <1>3, <2>2, <2>5, <2>6, <2>7, MemorySlot DEF h
<1> QED
  BY <1>0, <1>2, <1>3, MapFacts

LEMMA MemoryAttributes ==
  ASSUME TypeInv, BusyInv, BusyInv', OwnInv, OwnInv', MemoryInv, NEW t \in Threads, gralloc_buffer_attr_allocate(t)
  PROVE  MemoryInv'
<1> DEFINE i == thr[t].i
           h == thr[t].hs[i]
           k == Lowest(FreeFds)
           r == [handles[h] EXCEPT !.attr_fd = k]
<1>0. AllocTypeOK /\ PlaceInv(t) /\ LateStep(t)
  BY DEF TypeInv, LateStep
<1>1. thr[t].pc = "attributes" /\ UNCHANGED given /\ h \in Handles
  BY <1>0, AttributesFacts
<1>2. CASE GiveUp(t) /\ UNCHANGED <<fds, handles>>
  BY <1>0, <1>1, <1>2, MemoryGivesUp
<1>3. CASE /\ k \in Fds /\ SetFd(k, <<"attributes", 0>>) /\ SetHandle(h, r)
           /\ SameCall(t) /\ thr'[t].pc = "list" /\ thr'[t].i = i /\ thr'[t].hs = thr[t].hs /\ thr'[t].id = thr[t].id
  <2>1. handles[h] \in HandleType /\ k >= 0
    BY <1>0, <1>1, <1>3, TypedState, GrallocAllocationAssumption DEF Fds
  <2>2. r.id = handles[h].id /\ r.base = handles[h].base /\ r.attr_fd = k
    BY <2>1 DEF HandleType
  <2>4. i \in Slots(t) /\ Slots(t) = 1 .. Len(thr[t].ds) /\ Len(thr[t].ds) \in Nat /\ i \in Nat
    BY <1>0, <1>1, CallInLoop DEF Slots
  <2>5. thr'[t].shared = thr[t].shared
    BY <1>3 DEF SameCall
  <2>6. FilledOK(t)'
    <3> SUFFICES ASSUME NEW j \in Slots(t), thr[t].hs[j] # 0 PROVE SlotOK(t, j, handles[thr[t].hs[j]])'
      BY <1>3 DEF FilledOK, Slots
    <3>1. SlotOK(t, j, handles[thr[t].hs[j]]) /\ thr[t].hs[j] \in Handles
      BY <1>0, SlotTyped DEF MemoryInv, FilledOK
    <3>2. CASE j = i
      <4>1. handles[h].base # 0 /\ handles[h].id = 0 /\ ~(i < i)
        BY <1>1, <2>4, <3>1, <3>2 DEF SlotOK
      <4>2. thr[t].hs[j] = h /\ handles'[h] = r
        BY <1>3, <3>2 DEF SetHandle
      <4> HIDE DEF h, r
      <4> QED
        BY <1>3, <2>1, <2>2, <3>2, <4>1, <4>2 DEF SlotOK
    <3>3. CASE j # i
      <4>1. thr[t].hs[j] # h
        BY <1>1, <2>4, <3>3 DEF BusyInv, SlotsApart
      <4>2. handles'[thr[t].hs[j]] = handles[thr[t].hs[j]]
        BY <1>3, <3>1, <4>1 DEF SetHandle
      <4> HIDE DEF h, r
      <4> QED
        BY <1>1, <1>3, <2>5, <3>1, <3>3, <4>2 DEF SlotOK
    <3> QED
      BY <3>2, <3>3
  <2>7. \A l \in Fds : fds'[l] = fds[l] \/ ~IsBuffer(fds'[l])
    BY <1>3, KindsDiffer DEF SetFd
  <2> HIDE DEF h, r, k
  <2> QED
    BY <1>0, <1>1, <1>3, <2>2, <2>5, <2>6, <2>7, MemorySlot DEF h
<1> QED
  BY <1>0, <1>2, <1>3, AttributesFacts

LEMMA MemoryUndo ==
  ASSUME TypeInv, BusyInv, BusyInv', OwnInv, OwnInv', MemoryInv, NEW t \in Threads, free_internal(t)
  PROVE  MemoryInv'
<1> DEFINE i == thr[t].i
           h == thr[t].hs[i]
<1>0. AllocTypeOK /\ PlaceInv(t) /\ LateStep(t)
  BY DEF TypeInv, LateStep
<1>1. /\ thr[t].pc = "undo" /\ UNCHANGED given /\ i \in Slots(t) /\ thr[t].hs \in Seq(Handles \cup {0}) /\ Slots(t) = 1 .. Len(thr[t].ds)
      /\ \/ h = 0 /\ UNCHANGED <<fds, handles>>
         \/ /\ h \in Handles /\ SetHandle(h, RolledBack(h))
            /\ \A k \in Fds : fds'[k] = IF k \in Held(h) THEN Closed ELSE fds[k]
      /\ \/ i = Len(thr[t].ds) /\ Fail(t)
         \/ SameCall(t) /\ thr'[t].pc = "undo" /\ thr'[t].hs = [thr[t].hs EXCEPT ![i] = 0]
  BY <1>0, <1>0, FreeInternalFacts
<1>2. RolledBack(h).state # "made"
  BY NoHandleFacts DEF RolledBack
<1>3. i \in Nat /\ Len(thr[t].ds) \in Nat
  BY <1>0, <1>1, CallInLoop
<1> HIDE DEF h
<1>4. \A k \in Fds : fds'[k] = fds[k] \/ ~IsBuffer(fds'[k])
  BY <1>1, KindsDiffer
<1>5. \A g \in Handles : MadeNow(g) => IsMade(g) /\ handles'[g] = handles[g] /\ g # h
  <2>1. CASE h = 0 /\ UNCHANGED handles
    BY <2>1, HandleIsNumber DEF MadeNow, IsMade
  <2>2. CASE h \in Handles /\ SetHandle(h, RolledBack(h))
    BY <1>2, <2>2 DEF SetHandle, MadeNow, IsMade
  <2> QED
    BY <1>1, <2>1, <2>2
<1>6. CASE i = Len(thr[t].ds) /\ Fail(t)
  <2>1. thr'[t] = IdleThread
    BY <1>0, <1>6, FailFacts
  <2>2. \A g : ~Slotted(t, g)
    BY <2>1 DEF IdleThread, Slotted
  <2>3. \A g \in Handles : ~(HasSlot(t, g) /\ MadeNow(g))
    <3> SUFFICES ASSUME NEW g \in Handles, NEW j \in Slots(t), thr[t].hs[j] = g, MadeNow(g) PROVE FALSE
      BY DEF HasSlot
    <3>1. j # i
      BY <1>5 DEF h
    <3>2. j < i
      BY <1>1, <1>3, <1>6, <3>1
    <3> QED
      BY <1>0, <1>1, <3>2, HandleIsNumber DEF PlaceInv
  <2>4. thr'[t].pc = "idle"
    BY <2>1 DEF IdleThread
  <2>5. FilledOK(t)'
    BY <2>4, NothingFilled DEF Filled
  <2> QED
    BY <1>0, <1>1, <1>4, <1>5, <2>2, <2>3, <2>4, <2>5, MemoryFills
<1>7. CASE SameCall(t) /\ thr'[t].pc = "undo" /\ thr'[t].hs = [thr[t].hs EXCEPT ![i] = 0]
  <2>1. DOMAIN thr'[t].hs = Slots(t) /\ \A j \in Slots(t) : thr'[t].hs[j] = IF j = i THEN 0 ELSE thr[t].hs[j]
    BY <1>1, <1>7 DEF Slots
  <2>2. \A g \in Handles : Slotted(t, g) => HasSlot(t, g)
    BY <2>1, HandleIsNumber DEF Slotted, HasSlot
  <2>3. ASSUME NEW g \in Handles, HasSlot(t, g), MadeNow(g) PROVE Slotted(t, g)
    <3>1. PICK j \in Slots(t) : thr[t].hs[j] = g
      BY <2>3 DEF HasSlot
    <3>2. j # i
      BY <1>5, <2>3, <3>1 DEF h
    <3> QED
      BY <2>1, <3>1, <3>2 DEF Slotted
  <2>4. FilledOK(t)'
    BY <1>7, NothingFilled DEF Filled
  <2> QED
    BY <1>0, <1>1, <1>4, <1>5, <1>7, <2>2, <2>3, <2>4, MemoryFills DEF SameCall
<1> QED
  BY <1>1, <1>6, <1>7

LEMMA MemoryFree ==
  ASSUME TypeInv, BusyInv, BusyInv', OwnInv, OwnInv', MemoryInv, NEW t \in Threads, mali_gralloc_buffer_free(t)
  PROVE  MemoryInv'
<1> DEFINE h == thr[t].old
<1>0. AllocTypeOK /\ PlaceInv(t) /\ LateStep(t)
  BY DEF TypeInv, LateStep
<1>1. /\ thr[t].pc = "free" /\ UNCHANGED given /\ h \in Handles /\ SetHandle(h, NoHandle) /\ Fail(t)
      /\ \A k \in Fds : fds'[k] = IF k \in Held(h) THEN Closed ELSE fds[k]
  BY <1>0, FreeFacts
<1>2. thr'[t] = IdleThread /\ thr[t].hs = <<>>
  BY <1>0, <1>1, FailFacts DEF PlaceInv
<1>3. \A g : ~Slotted(t, g) /\ ~HasSlot(t, g)
  BY <1>2 DEF IdleThread, Slotted, HasSlot, Slots
<1>4. thr'[t].pc = "idle"
  BY <1>2 DEF IdleThread
<1>5. FilledOK(t)'
  BY <1>4, NothingFilled DEF Filled
<1>6. \A k \in Fds : fds'[k] = fds[k] \/ ~IsBuffer(fds'[k])
  BY <1>1, KindsDiffer
<1>7. \A g \in Handles : MadeNow(g) => IsMade(g) /\ handles'[g] = handles[g]
  BY <1>1, NoHandleFacts DEF SetHandle, MadeNow, IsMade
<1> QED
  BY <1>0, <1>1, <1>3, <1>4, <1>5, <1>6, <1>7, MemoryFills

LEMMA MemoryErase ==
  ASSUME TypeInv, BusyInv, BusyInv', OwnInv, OwnInv', MemoryInv, NEW t \in Threads, mali_gralloc_dump_buffer_erase(t)
  PROVE  MemoryInv'
<1>0. AllocTypeOK /\ PlaceInv(t) /\ LateStep(t)
  BY DEF TypeInv, LateStep
<1>1. thr[t].pc = "idle" /\ UNCHANGED <<fds, handles, given>> /\ thr'[t].pc = "free" /\ thr'[t].hs = <<>>
  BY <1>0, EraseFacts
<1>2. \A g : ~Slotted(t, g) /\ ~HasSlot(t, g)
  BY <1>0, <1>1 DEF Slotted, HasSlot, Slots, PlaceInv
<1>3. FilledOK(t)'
  BY <1>1, NothingFilled DEF Filled
<1> QED
  BY <1>0, <1>1, <1>2, <1>3, MemoryIdle

LEMMA MemoryFails ==
  ASSUME TypeInv, BusyInv, BusyInv', OwnInv, OwnInv', MemoryInv, NEW t \in Threads, allocate_fails(t) \/ allocate_undefined(t)
  PROVE  MemoryInv'
<1>0. LateStep(t) /\ thr[t].pc = "allocate" /\ UNCHANGED <<fds, handles, given>> /\ (GiveUp(t) \/ UNCHANGED thr)
  BY DEF LateStep, allocate_fails, allocate_undefined, At
<1>1. CASE UNCHANGED thr
  <2>1. FilledOK(t)'
    BY <1>0, <1>1 DEF MemoryInv, FilledOK, SlotOK, Slots
  <2> QED
    BY <1>0, <1>1, <2>1, MemoryIdle
<1> QED
  BY <1>0, <1>1, MemoryGivesUp

\* The memory of a handle t makes: new, or what its call shares.
IsNew(b) == \A g \in Handles : IsMade(g) => Memory(g) # b
IsShared(t, b) == thr[t].shared /\ \A g \in Handles : IsMade(g) => (Memory(g) = b <=> HasSlot(t, g))

LEMMA MemoryMakes ==
  ASSUME TypeInv, BusyInv, BusyInv', OwnInv, OwnInv', MemoryInv, NEW t \in Threads, LateStep(t),
         NEW h \in Handles, handles[h].state = "none", NEW k \in Fds, SetHandle(h, NewHandle(k)), NEW b, fds'[k][2] = b,
         thr[t].pc \in {"allocate", "dup"}, thr[t].hs[thr[t].i] = 0, thr[t].i \in Slots(t), SameCall(t),
         thr'[t].hs = [thr[t].hs EXCEPT ![thr[t].i] = h], thr'[t].pc \in {"allocate", "dup", "map"},
         thr'[t].pc = "map" => thr'[t].i = 1,
         thr'[t].pc = "dup" => thr[t].pc = "dup" /\ fds'[thr'[t].fd][2] = b /\ fds[thr[t].fd][2] = b,
         (IsNew(b) /\ ~thr[t].shared) \/ IsShared(t, b), NewApart(t), Counted'
  PROVE  MemoryInv'
<1> DEFINE i == thr[t].i
<1>0. AllocTypeOK /\ thr[t].hs \in Seq(Handles \cup {0}) /\ ~IsMade(h)
  BY ThreadParts DEF TypeInv, IsMade
<1>1. MemoryStep(t)
  BY LateRemembers DEF MemoryStep
<1>2. handles'[h] = NewHandle(k) /\ \A g \in Handles \ {h} : handles'[g] = handles[g]
  BY DEF SetHandle
<1>3. handles'[h].id = 0 /\ handles'[h].base = 0 /\ MadeNow(h) /\ MemoryNow(h) = b
  BY <1>2, NewHandleFacts DEF MadeNow, MemoryNow
<1>4. \A g \in Handles : MadeNow(g) <=> g = h \/ IsMade(g)
  BY <1>0, <1>2, <1>3 DEF MadeNow, IsMade
<1>5. \A g \in Handles : IsMade(g) => handles'[g] = handles[g] /\ MemoryNow(g) = Memory(g) /\ g # h
  BY <1>0, <1>1, <1>2, <1>4 DEF MemoryStep, Remembers
<1>6. DOMAIN thr'[t].hs = Slots(t) /\ \A j \in Slots(t) : thr'[t].hs[j] = IF j = i THEN h ELSE thr[t].hs[j]
  BY <1>0 DEF Slots
<1>7. \A g \in Handles : Slotted(t, g) <=> g = h \/ HasSlot(t, g)
  <2>1. Slotted(t, h)
    BY <1>6 DEF Slotted
  <2>2. ASSUME NEW g \in Handles, HasSlot(t, g) PROVE Slotted(t, g)
    BY <1>6, <2>2, HandleIsNumber DEF Slotted, HasSlot
  <2>3. ASSUME NEW g \in Handles, Slotted(t, g), g # h PROVE HasSlot(t, g)
    BY <1>6, <2>3 DEF Slotted, HasSlot
  <2> QED
    BY <2>1, <2>2, <2>3
<1>8. \A g \in Handles : (IsMade(g)' <=> MadeNow(g)) /\ Memory(g)' = MemoryNow(g) /\ (HasSlot(t, g)' <=> Slotted(t, g))
  BY DEF IsMade, MadeNow, Memory, MemoryNow, HasSlot, Slotted, Slots
<1>9. \A g \in Handles : HasSlot(t, g) => IsMade(g)
  BY SlotIsMade
<1>10. thr'[t].shared = thr[t].shared
  BY DEF SameCall
<1>m. GroupOK(t) /\ LooseOK(t) /\ FilledOK(t) /\ Numbered
  BY DEF MemoryInv
<1>11. Numbered'
  <2>1. ASSUME NEW f \in Handles, NEW g \in Handles, MadeNow(f), MadeNow(g), handles'[f].id # 0, handles'[g].id # 0
        PROVE  handles'[f].id = handles'[g].id <=> MemoryNow(f) = MemoryNow(g)
    BY <1>m, <1>3, <1>4, <1>5, <2>1 DEF Numbered
  <2> QED
    BY <1>8, <2>1 DEF Numbered
<1>12. DupMemories'
  BY <1>1, DupMemoriesKept
<1>13. Finished'
  BY <1>1, <1>4, <1>7, FinishedKept
<1>14. Bases'
  BY <1>1, <1>3, <1>4, <1>5, BasesKept DEF MemoryStep
<1>15. GroupOK(t)'
  <2>1. ASSUME thr[t].shared, NEW f \in Handles, NEW g \in Handles, Slotted(t, f), Slotted(t, g) PROVE MemoryNow(f) = MemoryNow(g)
    BY <1>3, <1>5, <1>7, <1>9, <2>1 DEF IsShared
  <2>2. ASSUME thr'[t].pc = "dup", NEW g \in Handles, MadeNow(g) PROVE MemoryNow(g) = fds'[thr'[t].fd][2] <=> Slotted(t, g)
    BY <1>m, <1>3, <1>4, <1>5, <1>7, <2>2 DEF GroupOK
  <2> QED
    BY <1>8, <1>10, <2>1, <2>2 DEF GroupOK
<1>16. LooseOK(t)'
  <2>1. ASSUME NEW g \in Handles, NEW x \in Handles, MadeNow(g), Slotted(t, x), handles'[x].id = 0, g # x, MemoryNow(g) = MemoryNow(x)
        PROVE  thr[t].shared /\ Slotted(t, g)
    <3>1. CASE g = h
      BY <1>3, <1>5, <1>7, <1>9, <2>1, <3>1 DEF IsNew, IsShared
    <3>2. CASE x = h
      BY <1>3, <1>4, <1>5, <1>7, <2>1, <3>2 DEF IsNew, IsShared
    <3>3. CASE g # h /\ x # h
      <4>1. IsMade(g) /\ HasSlot(t, x) /\ handles[x].id = 0 /\ Memory(g) = Memory(x)
        BY <1>4, <1>5, <1>7, <1>9, <2>1, <3>3
      <4> QED
        BY <1>m, <1>7, <2>1, <4>1 DEF LooseOK
    <3> QED
      BY <3>1, <3>2, <3>3
  <2> QED
    BY <1>8, <1>10, <2>1 DEF LooseOK
<1>17. FilledOK(t)'
  <2>1. ASSUME NEW j \in Slots(t), thr'[t].hs[j] # 0 PROVE handles'[thr'[t].hs[j]].id = 0
    <3>1. CASE j = i
      BY <1>3, <1>6, <3>1
    <3>2. CASE j # i
      <4>1. thr'[t].hs[j] = thr[t].hs[j] /\ thr[t].hs[j] \in Handles
        BY <1>0, <1>6, <2>1, <3>2, SlotTyped
      <4>2. handles[thr[t].hs[j]].id = 0
        BY <1>m, <2>1, <4>1 DEF FilledOK, SlotOK
      <4>3. IsMade(thr[t].hs[j])
        BY <2>1, <4>1 DEF BusyInv, SlotsMade
      <4> QED
        BY <1>5, <4>1, <4>2, <4>3
    <3> QED
      BY <3>1, <3>2
  <2>2. \A j \in Slots(t) : ~(j < 1)
    BY <1>0 DEF Slots
  <2> HIDE DEF i
  <2> QED
    BY <1>6, <2>1, <2>2 DEF FilledOK, SlotOK, Slots
<1>18. \A u \in Threads \ {t} : GroupOK(u)' /\ LooseOK(u)' /\ FilledOK(u)'
  BY <1>1, MemoryOthers
<1> QED
  BY <1>11, <1>12, <1>13, <1>14, <1>15, <1>16, <1>17, <1>18 DEF MemoryInv

\* A new dma-buf is in nobody's memory.
LEMMA FreshMemory ==
  ASSUME TypeInv, OwnInv, MemoryInv
  PROVE  /\ IsNew(given.buffers + 1) /\ \A u \in Threads : thr[u].pc = "dup" => fds[thr[u].fd][2] # given.buffers + 1
         /\ \A g \in Handles : IsMade(g) => Memory(g) # given.buffers + 1
         /\ given.buffers \in Nat
<1>1. \A k \in Fds : IsBuffer(fds[k]) => fds[k][2] \in Nat
  <2>1. fds \in [Fds -> Opened]
    BY TypedState DEF TypeInv
  <2> QED
    BY <2>1 DEF Opened, IsBuffer
<1>2. given.buffers \in Nat
  BY TypedState DEF TypeInv
<1>3. \A k \in Fds : IsBuffer(fds[k]) => fds[k][2] # given.buffers + 1
  BY <1>1, <1>2 DEF MemoryInv, Counted
<1>4. \A u \in Threads : thr[u].pc = "dup" => thr[u].fd \in Fds /\ IsBuffer(fds[thr[u].fd])
  BY DEF TypeInv, PlaceInv, OwnInv, DupOK
<1>5. \A g \in Handles : IsMade(g) => handles[g].share_fd \in Fds /\ IsBuffer(fds[handles[g].share_fd])
  BY HandleParts DEF TypeInv, OwnInv, Kinds
<1> QED
  BY <1>2, <1>3, <1>4, <1>5 DEF IsNew, Memory

LEMMA CountedMore ==
  ASSUME TypeInv, MemoryInv, NEW k \in Fds, SetFd(k, NewBuffer), given'.buffers = given.buffers + 1, given'.ids = given.ids,
         \A g \in Handles : MadeNow(g) => handles'[g].id = 0 \/ (IsMade(g) /\ handles'[g].id = handles[g].id)
  PROVE  Counted'
<1>1. given.buffers \in Nat /\ given.ids \in Nat
  BY TypedState DEF TypeInv
<1>2. ASSUME NEW l \in Fds, IsBuffer(fds'[l]) PROVE fds'[l][2] <= given.buffers + 1
  <2>1. CASE l = k
    BY <1>1, <2>1 DEF SetFd, NewBuffer
  <2>2. CASE l # k
    <3>1. fds'[l] = fds[l] /\ fds[l] \in Opened /\ IsBuffer(fds[l])
      BY <1>2, <2>2, TypedState DEF SetFd, TypeInv, IsBuffer
    <3>2. fds[l][2] \in Nat /\ fds[l][2] <= given.buffers
      BY <3>1 DEF Opened, IsBuffer, MemoryInv, Counted
    <3> QED
      BY <1>1, <3>1, <3>2
  <2> QED
    BY <2>1, <2>2
<1>3. \A g \in Handles : MadeNow(g) => handles'[g].id <= given.ids
  BY <1>1 DEF MemoryInv, Counted
<1> QED
  BY <1>2, <1>3 DEF Counted, IsBuffer, IsMade, MadeNow

LEMMA MemoryAllocateOwn ==
  ASSUME TypeInv, BusyInv, BusyInv', OwnInv, OwnInv', MemoryInv, NEW t \in Threads, allocate_own(t)
  PROVE  MemoryInv'
<1> DEFINE k == Lowest(FreeFds)
           h == FreshHandle
           b == given.buffers + 1
<1>0. AllocTypeOK /\ PlaceInv(t) /\ LateStep(t)
  BY DEF TypeInv, LateStep
<1>1. /\ thr[t].pc = "allocate" /\ ~thr[t].shared /\ k \in Fds /\ h \in Handles /\ handles[h].state = "none"
      /\ SameCall(t) /\ NextSlot(t, "allocate", "map") /\ thr'[t].hs = [thr[t].hs EXCEPT ![thr[t].i] = h]
      /\ given' = [given EXCEPT !.buffers = given.buffers + 1]
  BY <1>0, AllocateOwnFacts
<1>2. SetFd(k, NewBuffer) /\ SetHandle(h, NewHandle(k))
  BY <1>0, AllocateOwnSets
<1>3. NewBuffer[2] = b
  BY DEF NewBuffer
<1>4. given'.buffers = given.buffers + 1 /\ given'.ids = given.ids
  BY <1>0, <1>1, TypedState
<1> HIDE DEF k, h, b
<1>5. fds'[k][2] = b
  BY <1>2, <1>3 DEF SetFd
<1>6. thr[t].i \in Slots(t) /\ thr[t].hs[thr[t].i] = 0
  <2>1. thr[t].i \in Slots(t) /\ thr[t].i \in Nat /\ ~(thr[t].i < thr[t].i)
    BY <1>0, <1>1, CallInLoop DEF Slots
  <2> QED
    BY <1>0, <1>1, <2>1 DEF PlaceInv
<1>7. MadeNow(h) /\ handles'[h].id = 0 /\ MemoryNow(h) = b
  BY <1>1, <1>2, <1>5, NewHandleFacts DEF SetHandle, MadeNow, MemoryNow
<1>8. \A g \in Handles : MadeNow(g) => g = h \/ (IsMade(g) /\ handles'[g].id = handles[g].id)
  BY <1>2 DEF SetHandle, MadeNow, IsMade
<1>9. Counted'
  BY <1>1, <1>2, <1>4, <1>7, <1>8, CountedMore
<1>10. IsNew(b)
  BY FreshMemory DEF b
<1>11. NewApart(t)
  BY <1>7, <1>8, FreshMemory, SlotIsMade DEF NewApart, b
<1>12. thr'[t].pc \in {"allocate", "map"} /\ (thr'[t].pc = "map" => thr'[t].i = 1)
  BY <1>1 DEF NextSlot
<1> QED
  BY <1>0, <1>1, <1>2, <1>5, <1>6, <1>9, <1>10, <1>11, <1>12, MemoryMakes

LEMMA MemoryAllocateShared ==
  ASSUME TypeInv, BusyInv, BusyInv', OwnInv, OwnInv', MemoryInv, NEW t \in Threads, allocate_shared(t)
  PROVE  MemoryInv'
<1> DEFINE k == Lowest(FreeFds)
           b == given.buffers + 1
<1>0. AllocTypeOK /\ PlaceInv(t) /\ LateStep(t)
  BY DEF TypeInv, LateStep
<1>1. /\ thr[t].pc = "allocate" /\ thr[t].shared /\ k \in Fds /\ UNCHANGED handles
      /\ thr'[t].pc = "dup" /\ thr'[t].fd = k /\ thr'[t].hs = thr[t].hs
      /\ given' = [given EXCEPT !.buffers = given.buffers + 1]
  BY <1>0, AllocateSharedFacts
<1>2. SetFd(k, NewBuffer) /\ NewBuffer[2] = b
  BY <1>0, AllocateSharedSets DEF NewBuffer
<1>3. given'.buffers = given.buffers + 1 /\ given'.ids = given.ids
  BY <1>0, <1>1, TypedState
<1> HIDE DEF k, b
<1>4. fds'[k][2] = b
  BY <1>2 DEF SetFd
<1>5. \A g \in Handles : ~HasSlot(t, g) /\ ~Slotted(t, g)
  BY <1>0, <1>1, HandleIsNumber DEF PlaceInv, HasSlot, Slotted, Slots
<1>6. \A g \in Handles : MadeNow(g) <=> IsMade(g)
  BY <1>1 DEF MadeNow, IsMade
<1>7. MemoryStep(t) /\ \A g \in Handles : IsMade(g) => MemoryNow(g) = Memory(g)
  BY <1>0, <1>6, LateRemembers DEF Remembers
<1>8. \A g \in Handles : (IsMade(g)' <=> MadeNow(g)) /\ Memory(g)' = MemoryNow(g) /\ (HasSlot(t, g)' <=> Slotted(t, g))
  BY DEF IsMade, MadeNow, Memory, MemoryNow, HasSlot, Slotted, Slots
<1>9. Counted'
  BY <1>1, <1>2, <1>3, <1>6, CountedMore
<1>10. Numbered'
  BY <1>1, <1>6, <1>7, <1>8 DEF MemoryInv, Numbered
<1>11. DupMemories'
  BY <1>1, <1>4, <1>7, FreshMemory, DupMemoriesKept DEF b
<1>12. Finished'
  BY <1>5, <1>6, <1>7, FinishedKept
<1>13. Bases'
  BY <1>1, <1>6, <1>7, BasesKept DEF MemoryStep
<1>14. GroupOK(t)' /\ LooseOK(t)'
  <2>1. \A g \in Handles : MadeNow(g) => MemoryNow(g) # b
    BY <1>6, <1>7, FreshMemory DEF b
  <2> QED
    BY <1>1, <1>4, <1>5, <1>8, <2>1 DEF GroupOK, LooseOK
<1>15. FilledOK(t)'
  BY <1>0, <1>1 DEF FilledOK, Slots, PlaceInv
<1>16. \A u \in Threads \ {t} : GroupOK(u)' /\ LooseOK(u)' /\ FilledOK(u)'
  BY <1>7, MemoryOthers
<1> QED
  BY <1>9, <1>10, <1>11, <1>12, <1>13, <1>14, <1>15, <1>16 DEF MemoryInv

LEMMA MemoryDupAdopts ==
  ASSUME TypeInv, BusyInv, BusyInv', OwnInv, OwnInv', MemoryInv, NEW t \in Threads, LateStep(t), thr[t].pc = "dup", UNCHANGED given,
         NEW k \in Fds, DupAdopts(t, k), fds'[k] = fds[thr[t].fd], \A l \in Fds \ {k} : fds'[l] = fds[l]
  PROVE  MemoryInv'
<1> DEFINE h == FreshHandle
           b == fds[thr[t].fd][2]
<1>0. /\ AllocTypeOK /\ PlaceInv(t) /\ GroupOK(t) /\ DupMemories /\ Counted /\ thr[t].fd \in Fds /\ thr[t].shared
  BY DEF TypeInv, MemoryInv, PlaceInv
<1>1. /\ h \in Handles /\ handles[h].state = "none" /\ SameCall(t) /\ NextSlot(t, "dup", "map")
      /\ thr'[t].hs = [thr[t].hs EXCEPT ![thr[t].i] = h]
      /\ thr'[t].fd = IF thr[t].i = Len(thr[t].ds) THEN -1 ELSE thr[t].fd
  BY DEF DupAdopts
<1>2. SetHandle(h, NewHandle(k))
  BY <1>0, DupAdoptsSets
<1> HIDE DEF h
<1>3. MadeNow(h) /\ handles'[h].id = 0 /\ MemoryNow(h) = b
  BY <1>1, <1>2, NewHandleFacts DEF SetHandle, MadeNow, MemoryNow
<1>4. \A g \in Handles : MadeNow(g) => g = h \/ (IsMade(g) /\ handles'[g].id = handles[g].id)
  BY <1>2 DEF SetHandle, MadeNow, IsMade
<1>5. Counted'
  <2>1. ASSUME NEW l \in Fds, IsBuffer(fds'[l]) PROVE fds'[l][2] <= given.buffers
    <3>1. PICK m \in Fds : fds'[l] = fds[m]
      BY <1>0
    <3> QED
      BY <1>0, <2>1, <3>1 DEF Counted, IsBuffer
  <2>2. given.ids \in Nat
    BY <1>0, TypedState
  <2>3. \A g \in Handles : MadeNow(g) => handles'[g].id <= given.ids
    BY <1>0, <1>3, <1>4, <2>2 DEF Counted
  <2> QED
    BY <2>1, <2>3 DEF Counted, IsBuffer, IsMade, MadeNow
<1>6. thr[t].i \in Slots(t) /\ thr[t].hs[thr[t].i] = 0
  <2>1. thr[t].i \in Slots(t) /\ thr[t].i \in Nat /\ ~(thr[t].i < thr[t].i)
    BY <1>0, CallInLoop DEF Slots
  <2> QED
    BY <1>0, <2>1 DEF PlaceInv
<1>7. IsShared(t, b)
  BY <1>0 DEF IsShared, GroupOK
<1>8. NewApart(t)
  <2> SUFFICES ASSUME NEW u \in Threads \ {t}
               PROVE  /\ thr[u].pc = "dup" => b # fds[thr[u].fd][2]
                      /\ \A x \in Handles : HasSlot(u, x) => b # Memory(x)
    BY <1>3, <1>4 DEF NewApart
  <2>1. thr[u].pc = "dup" => b # fds[thr[u].fd][2]
    BY <1>0 DEF DupMemories
  <2>2. ASSUME NEW x \in Handles, HasSlot(u, x) PROVE b # Memory(x)
    <3>1. ~HasSlot(t, x)
      BY <2>2, NotTwice DEF Has, HasSlot
    <3>2. IsMade(x)
      BY <2>2, SlotIsMade
    <3> QED
      BY <1>7, <3>1, <3>2 DEF IsShared
  <2> QED
    BY <2>1, <2>2
<1>9. thr'[t].pc \in {"dup", "map"} /\ (thr'[t].pc = "map" => thr'[t].i = 1) /\ (thr'[t].pc = "dup" => thr'[t].fd = thr[t].fd)
  BY <1>1 DEF NextSlot
<1>10. fds'[k][2] = b /\ fds'[thr[t].fd] = fds[thr[t].fd]
  BY <1>0
<1> HIDE DEF b
<1>11. thr'[t].pc = "dup" => fds'[thr'[t].fd][2] = b /\ fds[thr[t].fd][2] = b
  BY <1>9, <1>10 DEF b
<1> QED
  BY <1>1, <1>2, <1>5, <1>6, <1>7, <1>8, <1>9, <1>10, <1>11, MemoryMakes

LEMMA MemoryDup ==
  ASSUME TypeInv, BusyInv, BusyInv', OwnInv, OwnInv', MemoryInv, NEW t \in Threads, dup_shared(t)
  PROVE  MemoryInv'
<1>0. AllocTypeOK /\ PlaceInv(t) /\ LateStep(t)
  BY DEF TypeInv, LateStep
<1>1. thr[t].pc = "dup" /\ UNCHANGED given
  BY <1>0, DupFacts
<1>2. thr[t].fd \in Fds
  BY <1>0, <1>1 DEF PlaceInv
<1>3. CASE DupAdopts(t, thr[t].fd) /\ UNCHANGED fds
  BY <1>0, <1>1, <1>2, <1>3, MemoryDupAdopts
<1>4. CASE /\ Lowest(FreeFds) \in Fds
           /\ DupAdopts(t, Lowest(FreeFds)) /\ fds' = [fds EXCEPT ![Lowest(FreeFds)] = fds[thr[t].fd]]
  <2> DEFINE k == Lowest(FreeFds)
  <2>1. SetFd(k, fds[thr[t].fd])
    BY <1>0, <1>2, <1>4, DupSets
  <2>2. k \in Fds /\ DupAdopts(t, k)
    BY <1>4
  <2> HIDE DEF k
  <2> QED
    BY <1>0, <1>1, <2>1, <2>2, MemoryDupAdopts DEF SetFd
<1>5. CASE GiveUp(t) /\ UNCHANGED <<fds, handles>>
  BY <1>0, <1>1, <1>5, MemoryGivesUp
<1> QED
  BY <1>0, <1>3, <1>4, <1>5, DupFacts

\* The number a buffer gets is that of the buffers it shares memory with, or nobody's.
LEMMA NumberFits ==
  ASSUME TypeInv, BusyInv, MemoryInv, NEW t \in Threads, thr[t].pc = "list", NEW h \in Handles, h = thr[t].hs[thr[t].i],
         NEW n, n = NumberOf(t)
  PROVE  /\ IsMade(h) /\ HasSlot(t, h) /\ handles[h].id = 0 /\ handles[h].base # 0 /\ handles[h].attr_fd >= 0
         /\ n # 0 /\ n <= (IF thr[t].shared /\ thr[t].i > 1 THEN given.ids ELSE given.ids + 1)
         /\ \A g \in Handles \ {h} : IsMade(g) /\ handles[g].id # 0 => (handles[g].id = n <=> Memory(g) = Memory(h))
<1> DEFINE i == thr[t].i
<1>0. /\ AllocTypeOK /\ PlaceInv(t) /\ GroupOK(t) /\ LooseOK(t) /\ FilledOK(t) /\ Numbered /\ Counted
  BY DEF TypeInv, MemoryInv
<1>1. /\ i \in Slots(t) /\ Slots(t) = 1 .. Len(thr[t].ds) /\ Len(thr[t].ds) \in Nat \ {0} /\ i \in Nat /\ i >= 1 /\ 1 \in Slots(t)
  BY <1>0, CallInLoop DEF Slots
<1>2. given.ids \in Nat
  BY <1>0, TypedState
<1>3. \A j \in Slots(t) : thr[t].hs[j] \in Handles /\ thr[t].hs[j] # 0 /\ HasSlot(t, thr[t].hs[j]) /\ IsMade(thr[t].hs[j])
  <2>1. \A j \in Slots(t) : thr[t].hs[j] # 0
    BY <1>0 DEF PlaceInv, Filled
  <2> QED
    BY <1>0, <2>1, SlotTyped DEF HasSlot, BusyInv, SlotsMade
<1>4. \A j \in Slots(t) : SlotOK(t, j, handles[thr[t].hs[j]])
  BY <1>0, <1>3 DEF FilledOK
<1>5. /\ IsMade(h) /\ HasSlot(t, h) /\ handles[h].id = 0 /\ handles[h].base # 0 /\ handles[h].attr_fd >= 0
  <2>1. SlotOK(t, i, handles[h]) /\ ~(i < i)
    BY <1>1, <1>4
  <2> QED
    BY <1>1, <1>3, <2>1 DEF SlotOK
<1>6. CASE thr[t].shared /\ i > 1
  <2> DEFINE f == thr[t].hs[1]
  <2>1. n = thr[t].id
    BY <1>6 DEF NumberOf
  <2>2. f \in Handles /\ IsMade(f) /\ HasSlot(t, f)
    BY <1>1, <1>3
  <2>3. handles[f].id # 0 /\ handles[f].id = n
    <3>1. SlotOK(t, 1, handles[f]) /\ 1 < i
      BY <1>1, <1>4, <1>6
    <3> QED
      BY <1>6, <2>1, <3>1 DEF SlotOK
  <2>4. Memory(f) = Memory(h)
    BY <1>0, <1>5, <1>6, <2>2 DEF GroupOK
  <2> HIDE DEF f
  <2>5. n # 0 /\ n <= given.ids
    BY <1>0, <2>2, <2>3 DEF Counted
  <2>6. \A g \in Handles \ {h} : IsMade(g) /\ handles[g].id # 0 => (handles[g].id = n <=> Memory(g) = Memory(h))
    BY <1>0, <2>2, <2>3, <2>4 DEF Numbered
  <2> QED
    BY <1>5, <1>6, <2>5, <2>6
<1>7. CASE ~(thr[t].shared /\ i > 1)
  <2>1. n = given.ids + 1
    BY <1>7 DEF NumberOf
  <2>2. ASSUME NEW g \in Handles \ {h}, IsMade(g), handles[g].id # 0 PROVE handles[g].id # n /\ Memory(g) # Memory(h)
    <3>1. handles[g].id # n
      <4>1. handles[g].id <= given.ids /\ handles[g].id \in Nat
        BY <1>0, <2>2, TypedState DEF Counted, HandleType
      <4> QED
        BY <1>2, <2>1, <4>1
    <3>2. ASSUME Memory(g) = Memory(h) PROVE FALSE
      <4>1. thr[t].shared /\ HasSlot(t, g)
        BY <1>0, <1>5, <2>2, <3>2 DEF LooseOK
      <4>2. PICK j \in Slots(t) : thr[t].hs[j] = g
        BY <4>1 DEF HasSlot
      <4>3. ~(j < i)
        BY <1>1, <1>7, <4>1
      <4> QED
        BY <1>4, <2>2, <4>2, <4>3 DEF SlotOK
    <3> QED
      BY <3>1, <3>2
  <2> QED
    BY <1>2, <1>5, <1>7, <2>1, <2>2
<1> QED
  BY <1>6, <1>7

LEMMA MemoryList ==
  ASSUME TypeInv, BusyInv, BusyInv', OwnInv, OwnInv', MemoryInv, NEW t \in Threads, list_and_number(t)
  PROVE  MemoryInv'
<1> DEFINE i == thr[t].i
           h == thr[t].hs[i]
           n == NumberOf(t)
           r == [handles[h] EXCEPT !.id = n]
<1>0. /\ AllocTypeOK /\ PlaceInv(t) /\ LateStep(t) /\ GroupOK(t) /\ LooseOK(t) /\ FilledOK(t) /\ Numbered /\ Counted
  BY DEF TypeInv, MemoryInv, LateStep
<1>1. /\ thr[t].pc = "list" /\ UNCHANGED fds /\ h \in Handles /\ SetHandle(h, r) /\ given'.buffers = given.buffers
      /\ given'.ids = IF thr[t].shared /\ i > 1 THEN given.ids ELSE given.ids + 1
  BY <1>0, ListFacts
<1>2. \/ i = Len(thr[t].ds) /\ Fail(t)
      \/ /\ i # Len(thr[t].ds) /\ SameCall(t) /\ thr'[t].pc = "attributes" /\ thr'[t].i = i + 1 /\ thr'[t].hs = thr[t].hs
         /\ thr'[t].id = IF thr[t].shared THEN n ELSE 0
  BY <1>0, ListFacts
<1>3. handles[h] \in HandleType
  BY <1>0, <1>1, TypedState
<1>4. r.id = n /\ r.base = handles[h].base /\ r.attr_fd = handles[h].attr_fd /\ r.state = handles[h].state /\ r.share_fd = handles[h].share_fd
  BY <1>3 DEF HandleType
<1>5. /\ i \in Slots(t) /\ Slots(t) = 1 .. Len(thr[t].ds) /\ Len(thr[t].ds) \in Nat \ {0} /\ i \in Nat /\ i >= 1 /\ given.ids \in Nat
      /\ \A j \in Slots(t) : j \in Nat
  BY <1>0, <1>1, CallInLoop, TypedState DEF Slots
<1>6. /\ IsMade(h) /\ HasSlot(t, h) /\ handles[h].id = 0 /\ handles[h].base # 0 /\ handles[h].attr_fd >= 0
      /\ n # 0 /\ n <= given'.ids
      /\ \A g \in Handles \ {h} : IsMade(g) /\ handles[g].id # 0 => (handles[g].id = n <=> Memory(g) = Memory(h))
  <2>1. thr[t].pc = "list" /\ h \in Handles /\ h = thr[t].hs[thr[t].i] /\ n = NumberOf(t)
    BY <1>1
  <2>2. given'.ids = IF thr[t].shared /\ thr[t].i > 1 THEN given.ids ELSE given.ids + 1
    BY <1>1
  <2> HIDE DEF h, n, r, i
  <2> QED
    BY <2>1, <2>2, NumberFits
<1>7. /\ handles'[h].id = n /\ \A g \in Handles \ {h} : handles'[g] = handles[g]
      /\ handles'[h].base = handles[h].base /\ handles'[h].attr_fd = handles[h].attr_fd
  BY <1>1, <1>4 DEF SetHandle
<1>8. \A g \in Handles : (MadeNow(g) <=> IsMade(g)) /\ MemoryNow(g) = Memory(g) /\ handles'[g].base = handles[g].base
  BY <1>1, <1>4 DEF SetHandle, MadeNow, IsMade, Memory, MemoryNow
<1> HIDE DEF h, n, r
<1>9. \A g \in Handles : (IsMade(g)' <=> MadeNow(g)) /\ Memory(g)' = MemoryNow(g) /\ (HasSlot(t, g)' <=> Slotted(t, g))
  BY DEF IsMade, MadeNow, Memory, MemoryNow, HasSlot, Slotted, Slots
<1>10. MemoryStep(t)
  BY <1>0, <1>8, LateRemembers
<1>11. Counted'
  <2>1. \A g \in Handles : IsMade(g) => handles[g].id \in Nat /\ handles[g].id <= given.ids
    BY <1>0, TypedState DEF Counted, HandleType
  <2>2. \A g \in Handles : MadeNow(g) => handles'[g].id <= given'.ids
    BY <1>1, <1>5, <1>6, <1>7, <1>8, <2>1
  <2> QED
    BY <1>0, <1>1, <2>2 DEF Counted, IsBuffer, IsMade, MadeNow
<1>12. Numbered'
  <2>1. ASSUME NEW f \in Handles, NEW g \in Handles, MadeNow(f), MadeNow(g), handles'[f].id # 0, handles'[g].id # 0
        PROVE  handles'[f].id = handles'[g].id <=> MemoryNow(f) = MemoryNow(g)
    <3>1. IsMade(f) /\ IsMade(g) /\ MemoryNow(f) = Memory(f) /\ MemoryNow(g) = Memory(g)
      BY <1>8, <2>1
    <3>2. CASE f = h
      BY <1>6, <1>7, <2>1, <3>1, <3>2
    <3>3. CASE g = h
      BY <1>6, <1>7, <2>1, <3>1, <3>3
    <3>4. CASE f # h /\ g # h
      BY <1>0, <1>7, <2>1, <3>1, <3>4 DEF Numbered
    <3> QED
      BY <3>2, <3>3, <3>4
  <2> QED
    BY <1>9, <2>1 DEF Numbered
<1>13. Bases'
  BY <1>8, <1>10, BasesKept DEF MemoryStep
<1>14. \A u \in Threads \ {t} : GroupOK(u)' /\ LooseOK(u)' /\ FilledOK(u)'
  BY <1>10, MemoryOthers
<1>15. ASSUME NEW j \in Slots(t)
       PROVE  LET g == thr[t].hs[j]
              IN /\ g \in Handles /\ (j = i <=> g = h) /\ handles[g].base # 0 /\ (~(j < i) => handles[g].id = 0)
                 /\ j < i => handles[g].id # 0 /\ handles[g].attr_fd >= 0 /\ (thr[t].shared => handles[g].id = thr[t].id)
  <2>1. thr[t].hs[j] # 0
    BY <1>0, <1>1 DEF PlaceInv, Filled
  <2>2. thr[t].hs[j] \in Handles /\ SlotOK(t, j, handles[thr[t].hs[j]])
    BY <1>0, <2>1, SlotTyped DEF FilledOK
  <2>3. j = i <=> thr[t].hs[j] = h
    BY <1>5, <2>1 DEF h, BusyInv, SlotsApart
  <2> QED
    BY <1>1, <2>2, <2>3 DEF SlotOK
<1>16. CASE i = Len(thr[t].ds) /\ Fail(t)
  <2>1. thr'[t] = IdleThread
    BY <1>0, <1>16, FailFacts
  <2>2. thr'[t].pc = "idle" /\ \A g : ~Slotted(t, g)
    BY <2>1 DEF IdleThread, Slotted
  <2>3. ASSUME NEW g \in Handles, HasSlot(t, g) PROVE IsFinished(handles'[g])
    <3>1. PICK j \in Slots(t) : thr[t].hs[j] = g
      BY <2>3 DEF HasSlot
    <3>2. CASE j = i
      BY <1>6, <1>7, <1>15, <3>1, <3>2 DEF IsFinished
    <3>3. CASE j # i
      <4>1. j < i
        BY <1>5, <1>16, <3>3
      <4> QED
        BY <1>7, <1>15, <3>1, <3>3, <4>1 DEF IsFinished
    <3> QED
      BY <3>2, <3>3
  <2>4. Finished'
    BY <1>8, <1>10, <2>3, FinishedKept
  <2>5. DupMemories'
    BY <1>10, <2>2, DupMemoriesKept
  <2>6. GroupOK(t)' /\ LooseOK(t)' /\ FilledOK(t)'
    <3>1. FilledOK(t)'
      BY <2>2, NothingFilled DEF Filled
    <3> QED
      BY <1>9, <2>2, <3>1 DEF GroupOK, LooseOK
  <2> QED
    BY <1>11, <1>12, <1>13, <1>14, <2>4, <2>5, <2>6 DEF MemoryInv
<1>17. CASE /\ i # Len(thr[t].ds) /\ SameCall(t) /\ thr'[t].pc = "attributes" /\ thr'[t].i = i + 1 /\ thr'[t].hs = thr[t].hs
            /\ thr'[t].id = IF thr[t].shared THEN n ELSE 0
  <2>1. thr'[t].shared = thr[t].shared /\ thr'[t].pc # "dup"
    BY <1>17 DEF SameCall
  <2>2. \A g : Slotted(t, g) <=> HasSlot(t, g)
    BY <1>17 DEF Slotted, HasSlot, Slots
  <2>3. Finished'
    BY <1>8, <1>10, <2>2, FinishedKept
  <2>4. DupMemories'
    BY <1>10, <2>1, DupMemoriesKept
  <2>5. GroupOK(t)'
    BY <1>0, <1>8, <1>9, <2>1, <2>2 DEF GroupOK
  <2>6. LooseOK(t)'
    <3>1. ASSUME NEW g \in Handles, NEW x \in Handles, MadeNow(g), Slotted(t, x), handles'[x].id = 0, g # x, MemoryNow(g) = MemoryNow(x)
          PROVE  thr[t].shared /\ HasSlot(t, g)
      <4>1. x # h /\ handles[x].id = 0
        BY <1>6, <1>7, <3>1
      <4> QED
        BY <1>0, <1>8, <2>2, <3>1, <4>1 DEF LooseOK
    <3> QED
      BY <1>9, <2>1, <2>2, <3>1 DEF LooseOK
  <2>7. FilledOK(t)'
    <3> SUFFICES ASSUME NEW j \in Slots(t), thr[t].hs[j] # 0 PROVE SlotOK(t, j, handles[thr[t].hs[j]])'
      BY <1>17 DEF FilledOK, Slots
    <3>1. handles'[thr[t].hs[j]].base # 0
      BY <1>8, <1>15
    <3>2. j < i + 1 => /\ handles'[thr[t].hs[j]].id # 0 /\ handles'[thr[t].hs[j]].attr_fd >= 0
                       /\ thr[t].shared => handles'[thr[t].hs[j]].id = thr'[t].id
      <4>1. CASE j = i
        BY <1>6, <1>7, <1>15, <1>17, <4>1
      <4>2. CASE j < i
        <5>1. j # i /\ i > 1 /\ (thr[t].shared => n = thr[t].id)
          BY <1>5, <4>2 DEF n, NumberOf
        <5> QED
          BY <1>7, <1>15, <1>17, <4>2, <5>1
      <4>3. j < i + 1 => j = i \/ j < i
        BY <1>5
      <4> QED
        BY <4>1, <4>2, <4>3
    <3>3. ~(j < i + 1) => handles'[thr[t].hs[j]].id = 0
      <4>1. ~(j < i + 1) => j # i /\ ~(j < i)
        BY <1>5
      <4> QED
        BY <1>7, <1>15, <4>1
    <3> QED
      BY <1>17, <2>1, <3>1, <3>2, <3>3 DEF SlotOK
  <2> QED
    BY <1>11, <1>12, <1>13, <1>14, <2>3, <2>4, <2>5, <2>6, <2>7 DEF MemoryInv
<1> QED
  BY <1>2, <1>16, <1>17

LEMMA MemoryEarly ==
  ASSUME TypeInv, BusyInv, BusyInv', OwnInv, MemoryInv, NEW t \in Threads, EarlyStep(t)
  PROVE  MemoryInv'
<1>0. AllocTypeOK /\ PlaceInv(t) /\ Kinds
  BY DEF TypeInv, OwnInv
<1>1. GlobalFds /\ (GlobalThread(t) \/ UNCHANGED thr)
  BY <1>0, EarlyIsGlobal
<1>2. thr[t].pc \in Early
  BY DEF EarlyStep, Early, At, mali_gralloc_buffer_allocate, test_caps_read, lock_caps, determine_caps, restrict_caps,
         publish_caps, unlock_caps, use_caps, initialize_interface, dma_heap_open_system, set_interface_ver, set_system_heap,
         dma_heap_open_cma, ion_open_first, find_heaps, ion_close, forget_client, reopen_client, share
<1>3. \A k \in Fds : IsBuffer(fds[k]) \/ IsBuffer(fds'[k]) => fds'[k] = fds[k]
  <2>1. \A k \in Fds : fds'[k] = fds[k] \/ (fds[k] \in Quiet /\ fds'[k] \in Quiet \cup {<<"system", 0>>, <<"cma", 0>>})
    BY <1>1 DEF GlobalFds, Quiet
  <2> QED
    BY <2>1, KindsDiffer
<1>4. UNCHANGED <<handles, given>>
  BY <1>1 DEF GlobalFds
<1>5. Others(t) /\ thr'[t].pc # "dup" /\ \A j \in DOMAIN thr'[t].hs : thr'[t].hs[j] = 0
  <2>1. CASE GlobalThread(t)
    BY <2>1 DEF GlobalThread, Others, Early
  <2>2. CASE UNCHANGED thr
    BY <1>0, <1>2, <2>2 DEF PlaceInv, Others, Early, Slots
  <2> QED
    BY <1>1, <2>1, <2>2
<1>6. \A g \in Handles : ~HasSlot(t, g) /\ ~Slotted(t, g) /\ (MadeNow(g) <=> IsMade(g))
  BY <1>0, <1>2, <1>4, <1>5, HandleIsNumber DEF PlaceInv, HasSlot, Slotted, MadeNow, IsMade
<1>7. \A g \in Handles : IsMade(g) => MemoryNow(g) = Memory(g)
  BY <1>0, <1>3, <1>4, HandleParts DEF Kinds, MemoryNow, Memory
<1>8. DupsRemember(t)
  BY <1>3 DEF DupsRemember, OwnInv, DupOK, TypeInv, PlaceInv
<1>9. MemoryStep(t)
  BY <1>4, <1>5, <1>6, <1>7, <1>8 DEF MemoryStep, Touches, Remembers, NewApart
<1>10. Counted'
  BY <1>3, <1>4, <1>6, CountedKept
<1>11. Numbered' /\ DupMemories' /\ GroupOK(t)' /\ LooseOK(t)'
  BY <1>4, <1>5, <1>6, <1>9, MemorySame
<1>12. Finished'
  BY <1>6, <1>9, FinishedKept
<1>13. Bases'
  BY <1>4, <1>6, <1>9, BasesKept DEF MemoryStep
<1>14. FilledOK(t)'
  BY <1>5 DEF FilledOK, Slots
<1>15. \A u \in Threads \ {t} : GroupOK(u)' /\ LooseOK(u)' /\ FilledOK(u)'
  BY <1>9, MemoryOthers
<1> QED
  BY <1>10, <1>11, <1>12, <1>13, <1>14, <1>15 DEF MemoryInv

LEMMA MemoryLate ==
  ASSUME TypeInv, BusyInv, BusyInv', OwnInv, OwnInv', MemoryInv, NEW t \in Threads, LateStep(t)
  PROVE  MemoryInv'
BY MemoryAllocateOwn, MemoryAllocateShared, MemoryFails, MemoryDup, MemoryMap, MemoryAttributes, MemoryList, MemoryUndo,
   MemoryErase, MemoryFree DEF LateStep

LEMMA MemoryAlways == AllocSpec => []MemoryInv
<1>1. AllocInit => MemoryInv
  <2> SUFFICES ASSUME AllocInit PROVE MemoryInv
    OBVIOUS
  <2>1. \A h \in Handles : ~IsMade(h)
    BY NoHandleFacts DEF AllocInit, IsMade
  <2>2. \A t \in Threads : thr[t].pc = "idle" /\ thr[t].shared = FALSE /\ Slots(t) = {}
    BY DEF AllocInit, IdleThread, Slots
  <2>3. \A k \in Fds : ~IsBuffer(fds[k])
    BY KindsDiffer DEF AllocInit
  <2> QED
    BY <2>1, <2>2, <2>3 DEF MemoryInv, Counted, Numbered, DupMemories, Finished, Bases, GroupOK, LooseOK, FilledOK, HasSlot
<1>2. TypeInv /\ BusyInv /\ BusyInv' /\ OwnInv /\ OwnInv' /\ MemoryInv /\ [AllocNext]_allocVars => MemoryInv'
  <2> SUFFICES ASSUME TypeInv, BusyInv, BusyInv', OwnInv, OwnInv', MemoryInv, [AllocNext]_allocVars PROVE MemoryInv'
    OBVIOUS
  <2>1. CASE UNCHANGED allocVars
    <3>1. UNCHANGED <<fds, handles, thr, given>>
      BY <2>1 DEF allocVars
    <3>2. (Counted' <=> Counted) /\ (Numbered' <=> Numbered) /\ (DupMemories' <=> DupMemories)
      BY <3>1 DEF Counted, Numbered, DupMemories, IsMade, IsBuffer, Memory
    <3>3. (Finished' <=> Finished) /\ (Bases' <=> Bases)
      BY <3>1 DEF Finished, Bases, IsFinished, HasSlot, Slots, IsMade, Memory
    <3>4. \A t \in Threads : GroupOK(t)' <=> GroupOK(t)
      BY <3>1 DEF GroupOK, HasSlot, Slots, IsMade, Memory
    <3>5. \A t \in Threads : LooseOK(t)' <=> LooseOK(t)
      BY <3>1 DEF LooseOK, HasSlot, Slots, IsMade, Memory
    <3>6. \A t \in Threads : FilledOK(t)' <=> FilledOK(t)
      BY <3>1 DEF FilledOK, SlotOK, Slots
    <3> QED
      BY <3>2, <3>3, <3>4, <3>5, <3>6 DEF MemoryInv
  <2> QED
    BY <2>1, StepKinds, MemoryEarly, MemoryLate
<1> QED
  BY <1>1, <1>2, Typed, BusyAlways, OwnAlways, PTL DEF AllocSpec

\* mali_gralloc_buffer_allocate and mali_gralloc_buffer_free: whatever threads allocate, roll back and free
\* at the same time, each handle has file descriptors of its own and maps the memory they name, and two
\* handles of clients are in the same memory exactly if they have the same backing store id.
THEOREM BuffersAreOwn == AllocSpec => []OwnBuffers
<1>1. TypeInv /\ OwnInv /\ MemoryInv => OwnBuffers
  <2> SUFFICES ASSUME TypeInv, OwnInv, MemoryInv PROVE OwnBuffers
    OBVIOUS
  <2>0. AllocTypeOK /\ Kinds /\ Apart /\ Bases /\ Finished /\ Numbered
    BY DEF TypeInv, OwnInv, MemoryInv
  <2>1. ASSUME NEW h \in Handles, IsMade(h)
        PROVE  /\ IsBuffer(fds[handles[h].share_fd]) /\ handles[h].base \in {0, fds[handles[h].share_fd][2]}
               /\ handles[h].attr_fd >= 0 => fds[handles[h].attr_fd] = <<"attributes", 0>>
    BY <2>0, <2>1 DEF Kinds, Bases, Memory
  <2>2. ASSUME NEW h \in Handles, IsMade(h), NEW g \in Handles \ {h}, IsMade(g) PROVE Held(h) \cap Held(g) = {}
    <3> SUFFICES ASSUME NEW k, k \in Held(h), k \in Held(g) PROVE FALSE
      OBVIOUS
    <3>1. k = handles[h].share_fd \/ (k = handles[h].attr_fd /\ handles[h].attr_fd >= 0)
      BY <2>0, HandleParts
    <3>2. k = handles[g].share_fd \/ (k = handles[g].attr_fd /\ handles[g].attr_fd >= 0)
      BY <2>0, HandleParts
    <3>3. g # h
      OBVIOUS
    <3> QED
      BY <2>0, <2>2, <3>1, <3>2, <3>3, KindsDiffer DEF Kinds, Apart
  <2>3. ASSUME NEW h \in Complete PROVE h \in Handles /\ IsMade(h) /\ IsFinished(handles[h]) /\ handles[h].base = Memory(h)
    <3>1. h \in Handles /\ IsMade(h) /\ \A t \in Threads : ~HasSlot(t, h)
      BY DEF Complete, Busy, HasSlot, Slots, IsMade
    <3> QED
      BY <2>0, <3>1 DEF Finished, Bases, IsFinished
  <2>4. ASSUME NEW h \in Complete, NEW g \in Complete
        PROVE  /\ handles[h].base # 0 /\ handles[h].attr_fd >= 0 /\ handles[h].id # 0
               /\ (handles[h].id = handles[g].id) <=> (handles[h].base = handles[g].base)
    BY <2>0, <2>3 DEF IsFinished, Numbered
  <2> QED
    BY <2>1, <2>2, <2>4 DEF OwnBuffers, IsMade
<1> QED
  BY <1>1, Typed, OwnAlways, MemoryAlways, PTL
================================================================================
