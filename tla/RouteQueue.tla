----------------------------- MODULE RouteQueue -----------------------------
(***************************************************************************)
(* One per-destination outbound queue (RouteQueue.cpp): a ring of _cap     *)
(* slots with _head, _tail and _count, written by the source radio's task  *)
(* (push) and read by the destination radio's task (pop).  Each of the two *)
(* runs wholly under _mutex, millis() included, so each is one action.     *)
(* A packet is identified by the number of the push that queued it.        *)
(* millis() is a 32-bit counter in the code; here it wraps at ClockMod.    *)
(***************************************************************************)
EXTENDS Integers, Sequences

CONSTANTS
  Cap,       \* BRIDGE_ROUTE_QUEUE_DEPTH
  MaxAge,    \* BRIDGE_ROUTE_MAX_AGE_MS; 0 disables expiry
  ClockMod,  \* 2^32: the modulus of millis()
  StartMs,   \* values of millis() when the queue is begun
  MaxPush,   \* bound on the number of pushes
  MaxNow     \* bound on time

ASSUME CapAssumption == Cap \in Nat \ {0}
ASSUME MaxAgeAssumption == MaxAge \in Nat
ASSUME ClockAssumption == /\ ClockMod \in Nat /\ ClockMod > MaxAge + 1
                          /\ StartMs \subseteq Nat
ASSUME BoundAssumption == MaxPush \in Nat /\ MaxNow \in Nat

VARIABLES
  ring,     \* _ring: slot number -> entry, or Blank where nothing was written yet
  head,     \* _head: the oldest entry
  tail,     \* _tail: the next free slot
  count,    \* _count
  dropped,  \* _dropped
  out,      \* pop's `out`: <<>> until something has been delivered
  begun,    \* begin() has allocated the ring
  now,      \* true time in ms; millis() is now % ClockMod
  born,     \* history: born[n] is the true time of push number n
  sent      \* history: how many entries pop has delivered

vars == <<ring, head, tail, count, dropped, out, begun, now, born, sent>>

Slots == 0..(Cap - 1)
Blank == [pkt |-> 0, enq |-> 0]
Entry == [pkt : 0..MaxPush, enq : 0..(ClockMod - 1)]

Millis == now % ClockMod

\* Mutant of Expired: the age is compared as a signed difference.
ExpiredSigned(ms, stamp) == MaxAge # 0 /\ ms - stamp > MaxAge

\* (uint32_t)(now - e.enqueueMs) > _maxAgeMs, unless _maxAgeMs is 0.
Expired(ms, stamp) == MaxAge # 0 /\ (ms - stamp) % ClockMod > MaxAge

\* Mutant of Succ: the index does not wrap.
SuccNoWrap(i) == i + 1

\* The ring index that follows i.
Succ(i) == (i + 1) % Cap

\* The slot of the k-th oldest entry, k counted from 0.
At(k) == (head + k) % Cap

Init ==
  /\ ring = [i \in Slots |-> Blank]
  /\ head = 0 /\ tail = 0 /\ count = 0 /\ dropped = 0
  /\ out = <<>>
  /\ begun = FALSE
  /\ now \in StartMs
  /\ born = <<>> /\ sent = 0

\* begin(): runs once, from setup().  A failed allocation leaves _ring null,
\* and push and pop keep returning false.
Begin ==
  /\ ~begun
  /\ begun' = TRUE
  /\ head' = 0 /\ tail' = 0 /\ count' = 0 /\ dropped' = 0
  /\ UNCHANGED <<ring, out, now, born, sent>>

\* The packet is copied into the slot at _tail and stamped.
Store ==
  /\ ring' = [ring EXCEPT ![tail] = [pkt |-> Len(born) + 1, enq |-> Millis]]
  /\ tail' = Succ(tail)
  /\ born' = Append(born, now)
  /\ UNCHANGED <<out, begun, now, sent>>

\* Mutant of Push: a full ring is overwritten without moving _head.
PushKeepsHead ==
  /\ begun
  /\ Len(born) < MaxPush
  /\ IF count = Cap THEN dropped' = dropped + 1 /\ UNCHANGED <<head, count>>
                    ELSE count' = count + 1 /\ UNCHANGED <<head, dropped>>
  /\ Store

\* push() of a packet with a valid length.
Push ==
  /\ begun
  /\ Len(born) < MaxPush
  /\ LET full == count = Cap IN
       /\ head' = IF full THEN Succ(head) ELSE head
       /\ count' = IF full THEN count ELSE count + 1
       /\ dropped' = IF full THEN dropped + 1 ELSE dropped
  /\ Store

\* The k oldest entries have expired.
Stale(k) == \A i \in 0..(k - 1) : Expired(Millis, ring[At(i)].enq)

\* pop() that discards k expired entries and delivers the next one.
PopDeliver(k) ==
  /\ begun
  /\ k < count /\ Stale(k) /\ ~Expired(Millis, ring[At(k)].enq)
  /\ out' = <<ring[At(k)]>>
  /\ head' = (head + k + 1) % Cap
  /\ count' = count - (k + 1)
  /\ dropped' = dropped + k
  /\ sent' = sent + 1
  /\ UNCHANGED <<ring, tail, begun, now, born>>

\* Mutant of PopEmpty: expired entries are not counted.
PopEmptyUncounted ==
  /\ begun
  /\ Stale(count)
  /\ head' = (head + count) % Cap
  /\ count' = 0
  /\ UNCHANGED <<ring, tail, dropped, out, begun, now, born, sent>>

\* pop() that finds nothing fresh and returns false.
PopEmpty ==
  /\ begun
  /\ Stale(count)
  /\ head' = (head + count) % Cap
  /\ count' = 0
  /\ dropped' = dropped + count
  /\ UNCHANGED <<ring, tail, out, begun, now, born, sent>>

Pop == PopEmpty \/ \E k \in 0..(Cap - 1) : PopDeliver(k)

\* Time passes.  radioTask calls pop every few milliseconds and holds a
\* packet for seconds at most, so nothing stays queued for the 49.7 days
\* after which a stamp would look recent again.
Tick ==
  /\ now < MaxNow
  /\ \A i \in 0..(count - 1) : now + 1 - born[ring[At(i)].pkt] < ClockMod
  /\ now' = now + 1
  /\ UNCHANGED <<ring, head, tail, count, dropped, out, begun, born, sent>>

Next == Begin \/ Push \/ Pop \/ Tick

Spec == Init /\ [][Next]_vars

-----------------------------------------------------------------------------
TypeOK ==
  /\ ring \in [Slots -> Entry]
  /\ head \in Slots /\ tail \in Slots /\ count \in 0..Cap
  /\ dropped \in Nat /\ sent \in Nat /\ now \in Nat
  /\ out \in {<<>>} \cup {<<e>> : e \in Entry}
  /\ begun \in BOOLEAN
  /\ born \in Seq(Nat) /\ Len(born) <= MaxPush

\* _tail is always _count slots past _head, around the ring.
RingInv == tail = (head + count) % Cap

\* The live slots hold exactly the last _count packets pushed, oldest first:
\* nothing is lost from the middle, duplicated, reordered or overwritten, and
\* what overflow gives up is the oldest (push, pop; "the freshest traffic wins").
FreshestKept ==
  \A k \in 0..(count - 1) : ring[At(k)].pkt = Len(born) - count + 1 + k

\* Every accepted packet is delivered, counted in _dropped or still queued,
\* and never two of these (dropped() is the "lifetime drop+expire count").
Accounting == Len(born) = sent + dropped + count

\* A packet leaves the queue only while its true age is within MaxAge, also
\* when millis() has wrapped since it was queued (pop's expiry test).
DeliveredFresh ==
  [][sent' # sent => \/ MaxAge = 0
                     \/ now - born[out'[1].pkt] <= MaxAge]_vars

-----------------------------------------------------------------------------
\* The ring read as a sequence, oldest entry first.
Queue == [i \in 1..count |-> ring[At(i - 1)]]

Fifo == INSTANCE BoundedFifo WITH q <- Queue, now <- Millis, Entries <- Entry

\* The ring implements the bounded FIFO.
ImplementsFifo == Fifo!FifoSpec
=============================================================================
