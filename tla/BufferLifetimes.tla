---------------------------- MODULE BufferLifetimes ----------------------------
(***************************************************************************)
(* What gralloc promises a process about the buffers in its memory, said   *)
(* without handles, their copies, pids or the counts inside them: every    *)
(* mapping has its own users, it is there for as long as it has one, and   *)
(* nothing takes it away or puts another buffer in its place before.       *)
(***************************************************************************)
EXTENDS Naturals

CONSTANTS Procs, Addrs, Buffers, None

VARIABLES
  mapping, \* of every process: the buffer at each address, or None
  users    \* how many references keep it there

lvars == <<mapping, users>>

Nowhere(x) == [p \in Procs |-> [a \in Addrs |-> x]]

MapBuffer(p, a, b) ==
  /\ mapping[p][a] = None
  /\ mapping' = [mapping EXCEPT ![p][a] = b]
  /\ users' = [users EXCEPT ![p][a] = 1]

Join(p, a) ==
  /\ mapping[p][a] # None
  /\ users' = [users EXCEPT ![p][a] = @ + 1]
  /\ UNCHANGED mapping

Leave(p, a) ==
  /\ users[p][a] > 1
  /\ users' = [users EXCEPT ![p][a] = @ - 1]
  /\ UNCHANGED mapping

UnmapBuffer(p, a) ==
  /\ users[p][a] = 1
  /\ mapping' = [mapping EXCEPT ![p][a] = None]
  /\ users' = [users EXCEPT ![p][a] = 0]

\* A process dies: what it had mapped is gone, the others keep theirs.
Die(p) ==
  /\ mapping' = [mapping EXCEPT ![p] = [a \in Addrs |-> None]]
  /\ users' = [users EXCEPT ![p] = [a \in Addrs |-> 0]]

LifetimesNext ==
  \E p \in Procs :
    \/ Die(p)
    \/ \E a \in Addrs : Join(p, a) \/ Leave(p, a) \/ UnmapBuffer(p, a)
    \/ \E a \in Addrs, b \in Buffers : MapBuffer(p, a, b)

LifetimesSpec ==
  /\ mapping = Nowhere(None) /\ users = Nowhere(0)
  /\ [][LifetimesNext]_lvars
===============================================================================
