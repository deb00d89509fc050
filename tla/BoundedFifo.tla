---------------------------- MODULE BoundedFifo ----------------------------
(***************************************************************************)
(* What RouteQueue promises (RouteQueue.h): a first-in first-out queue of  *)
(* finished packets that holds at most Cap of them, gives up its oldest    *)
(* entry to make room for a new one, and hands out the oldest entry that   *)
(* is still within its maximum age, throwing away the expired ones ahead   *)
(* of it.  The queue is a plain sequence here; there is no ring.           *)
(***************************************************************************)
EXTENDS Integers, Sequences

CONSTANTS
  Cap,           \* depth ceiling of the queue
  Entries,       \* what may be queued: records with a stamp enq
  Expired(_, _)  \* Expired(now, stamp): too old to be worth airtime

VARIABLES
  q,        \* the queued entries, oldest first
  dropped,  \* lifetime count of entries given up or expired
  out,      \* the last entry handed to the caller of pop
  now       \* time

fifoVars == <<q, dropped, out, now>>

FifoInit ==
  /\ q = <<>>
  /\ dropped = 0
  /\ out = <<>>

\* A new entry goes to the back; a full queue first gives up its front.
FifoPush(e) ==
  /\ q' = Append(IF Len(q) = Cap THEN Tail(q) ELSE q, e)
  /\ dropped' = IF Len(q) = Cap THEN dropped + 1 ELSE dropped
  /\ UNCHANGED <<out, now>>

\* The oldest fresh entry, at position k, is delivered.
FifoDeliver(k) ==
  /\ k \in 1..Len(q)
  /\ ~Expired(now, q[k].enq)
  /\ \A i \in 1..(k - 1) : Expired(now, q[i].enq)
  /\ q' = SubSeq(q, k + 1, Len(q))
  /\ dropped' = dropped + (k - 1)
  /\ out' = <<q[k]>>
  /\ UNCHANGED now

\* Everything queued has expired: pop throws it all away and reports empty.
FifoFlush ==
  /\ \A i \in 1..Len(q) : Expired(now, q[i].enq)
  /\ q' = <<>>
  /\ dropped' = dropped + Len(q)
  /\ UNCHANGED <<out, now>>

\* Time moves; the queue does not.
FifoTick == UNCHANGED <<q, dropped, out>>

FifoNext ==
  \/ \E e \in Entries : FifoPush(e)
  \/ \E k \in 1..Len(q) : FifoDeliver(k)
  \/ FifoFlush
  \/ FifoTick

FifoSpec == FifoInit /\ [][FifoNext]_fifoVars
=============================================================================
