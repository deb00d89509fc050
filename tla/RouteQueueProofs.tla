-------------------------- MODULE RouteQueueProofs --------------------------
(*************************************************************************)
(* The ring of RouteQueue.cpp is a correct bounded FIFO for every depth, *)
(* every maximum age and every clock width. IndInv is about positions:   *)
(* which packet is in which slot. AgeInv adds times: a slot has the      *)
(* stamp of its packet's push, less than a lap ago while it is queued,   *)
(* so that the unsigned difference pop compares is the packet's age.     *)
(*************************************************************************)
EXTENDS RouteQueue, SequenceTheorems, TLAPS

\* Before begin() nothing has been queued or counted.
NotBegun ==
  ~begun => /\ head = 0 /\ tail = 0 /\ count = 0 /\ dropped = 0
            /\ sent = 0 /\ born = <<>>

\* The inductive invariant of the ring.
IndInv == TypeOK /\ RingInv /\ FreshestKept /\ Accounting /\ NotBegun

-----------------------------------------------------------------------------
\* Ring arithmetic: an index advanced by at most one lap wraps at most once.
LEMMA Lap ==
  ASSUME NEW h \in Slots, NEW k \in 0..Cap
  PROVE  /\ (h + k) % Cap = IF h + k < Cap THEN h + k ELSE h + k - Cap
         /\ (h + k) % Cap \in Slots
  <1>1. CASE h + k < Cap
    BY <1>1, CapAssumption DEF Slots
  <1>2. CASE h + k >= Cap
    BY <1>2, CapAssumption DEF Slots
  <1> QED BY <1>1, <1>2, CapAssumption DEF Slots

\* Two different live positions occupy two different slots.
LEMMA Apart ==
  ASSUME NEW h \in Slots, NEW i \in 0..(Cap - 1), NEW j \in 0..(Cap - 1),
         (h + i) % Cap = (h + j) % Cap
  PROVE  i = j
  <1>1. /\ (h + i) % Cap = IF h + i < Cap THEN h + i ELSE h + i - Cap
        /\ (h + j) % Cap = IF h + j < Cap THEN h + j ELSE h + j - Cap
    BY Lap, CapAssumption
  <1> QED BY <1>1, CapAssumption DEF Slots

\* Advancing twice is advancing by the sum, within a lap.
LEMMA LapSum ==
  ASSUME NEW h \in Slots, NEW i \in 0..Cap, NEW j \in 0..Cap, i + j <= Cap
  PROVE  (((h + i) % Cap) + j) % Cap = (h + (i + j)) % Cap
  <1>1. (h + i) % Cap \in Slots /\ i + j \in 0..Cap
    BY Lap, CapAssumption
  <1>2. (((h + i) % Cap) + j) % Cap
          = IF ((h + i) % Cap) + j < Cap THEN ((h + i) % Cap) + j
                                       ELSE ((h + i) % Cap) + j - Cap
    BY <1>1, Lap
  <1>3. (h + i) % Cap = IF h + i < Cap THEN h + i ELSE h + i - Cap
    BY Lap
  <1>4. (h + (i + j)) % Cap = IF h + (i + j) < Cap THEN h + (i + j)
                                                    ELSE h + (i + j) - Cap
    BY <1>1, Lap
  <1> QED BY <1>2, <1>3, <1>4, CapAssumption DEF Slots

\* millis() is a number below the modulus of the clock.
LEMMA MillisType ==
  ASSUME now \in Nat PROVE Millis \in 0..(ClockMod - 1)
  BY ClockAssumption, MaxAgeAssumption DEF Millis

-----------------------------------------------------------------------------
\* The invariant holds before begin() has run.
LEMMA InitInv == Init => IndInv
  <1> SUFFICES ASSUME Init PROVE IndInv
    OBVIOUS
  <1>1. TypeOK
    <2>1. Blank \in Entry
      BY BoundAssumption, ClockAssumption, MaxAgeAssumption DEF Blank, Entry
    <2>2. born \in Seq(Nat) /\ Len(born) <= MaxPush
      BY BoundAssumption DEF Init
    <2>3. ring \in [Slots -> Entry] /\ 0 \in Slots
      BY <2>1, CapAssumption DEF Init, Slots
    <2>4. out \in {<<>>} /\ begun \in BOOLEAN
      BY DEF Init
    <2>5. /\ head \in Slots /\ tail \in Slots /\ count \in 0..Cap
          /\ dropped \in Nat /\ sent \in Nat /\ now \in Nat
      BY <2>3, CapAssumption, ClockAssumption DEF Init
    <2> QED BY <2>2, <2>3, <2>4, <2>5 DEF TypeOK
  <1>2. RingInv
    BY Lap, CapAssumption DEF Init, RingInv, Slots
  <1>3. FreshestKept /\ Accounting /\ NotBegun
    BY CapAssumption DEF Init, FreshestKept, Accounting, NotBegun
  <1> QED BY <1>1, <1>2, <1>3 DEF IndInv

\* RouteQueue::begin keeps the invariant: it resets what is still zero.
LEMMA BeginInv == IndInv /\ Begin => IndInv'
  <1> SUFFICES ASSUME IndInv, Begin PROVE IndInv'
    OBVIOUS
  <1>1. UNCHANGED <<ring, head, tail, count, dropped, out, now, born, sent>>
    BY DEF Begin, IndInv, NotBegun
  <1> QED BY <1>1 DEF Begin, IndInv, NotBegun, TypeOK, RingInv, FreshestKept,
                      Accounting, At

\* RouteQueue::push keeps the invariant.  On a full ring _head and _tail advance
\* together and the oldest entry is the one overwritten.
LEMMA PushInv == IndInv /\ Push => IndInv'
  <1> SUFFICES ASSUME IndInv, Push PROVE IndInv'
    OBVIOUS
  <1> USE CapAssumption
  <1> DEFINE e == [pkt |-> Len(born) + 1, enq |-> Millis]
  <1>t. /\ ring \in [Slots -> Entry] /\ head \in Slots /\ tail \in Slots
        /\ count \in 0..Cap /\ dropped \in Nat /\ sent \in Nat /\ now \in Nat
        /\ born \in Seq(Nat) /\ Len(born) \in Nat /\ Len(born) < MaxPush
    BY DEF IndInv, TypeOK, Push, Store
  <1>e. e \in Entry
    BY <1>t, MillisType, BoundAssumption DEF Entry
  <1>b. born' \in Seq(Nat) /\ Len(born') = Len(born) + 1
    BY <1>t DEF Push, Store
  <1>s. /\ Succ(tail) = (tail + 1) % Cap /\ Succ(tail) \in Slots
        /\ Succ(head) = (head + 1) % Cap /\ Succ(head) \in Slots
    BY <1>t, Lap DEF Succ
  <1>r. /\ ring' = [ring EXCEPT ![tail] = e] /\ tail' = Succ(tail)
        /\ ring' \in [Slots -> Entry]
    BY <1>t, <1>e DEF Push, Store
  <1>u. /\ out' \in {<<>>} \cup {<<x>> : x \in Entry}
        /\ begun' \in BOOLEAN /\ sent' \in Nat /\ now' \in Nat
        /\ Len(born') <= MaxPush
    <2>1. out' = out /\ begun' = begun /\ sent' = sent /\ now' = now
      BY DEF Push, Store
    <2>2. /\ out \in {<<>>} \cup {<<x>> : x \in Entry}
          /\ begun \in BOOLEAN
      BY DEF IndInv, TypeOK
    <2>3. Len(born') <= MaxPush
      BY <1>b, <1>t, BoundAssumption
    <2> QED BY <2>1, <2>2, <2>3, <1>t
  <1>1. CASE count = Cap
    <2>0. head' = Succ(head) /\ count' = Cap /\ dropped' = dropped + 1
      BY <1>1 DEF Push, Store
    <2>h. tail = head
      BY <1>1, <1>t, Lap DEF IndInv, RingInv, Slots
    <2>1. TypeOK'
      BY <2>0, <1>t, <1>b, <1>s, <1>r, <1>u DEF TypeOK
    <2>2. RingInv'
      BY <2>0, <2>h, <1>s, <1>r, Lap DEF RingInv, Slots
    <2>3. FreshestKept'
      <3> SUFFICES ASSUME NEW k \in 0..(Cap - 1)
                   PROVE  ring'[(head' + k) % Cap].pkt
                            = Len(born') - Cap + 1 + k
        BY <2>0 DEF FreshestKept, At
      <3>1. (head' + k) % Cap = (head + (1 + k)) % Cap
        BY <2>0, <1>s, <1>t, LapSum
      <3>2. CASE k = Cap - 1
        <4>1. (head + (1 + k)) % Cap = head
          BY <3>2, <1>t, Lap DEF Slots
        <4> QED BY <4>1, <3>1, <3>2, <2>h, <1>r, <1>b, <1>t
      <3>3. CASE k < Cap - 1
        <4>1. 1 + k \in 0..(Cap - 1)
          BY <3>3
        <4>2. (head + (1 + k)) % Cap # tail
          <5>1. (head + (1 + k)) % Cap = IF head + (1 + k) < Cap
                                         THEN head + (1 + k)
                                         ELSE head + (1 + k) - Cap
            BY <4>1, <1>t, Lap
          <5>2. head \in Nat /\ k \in Nat /\ 1 + k < Cap /\ Cap \in Nat
            BY <4>1, <1>t DEF Slots
          <5>3. (head + (1 + k)) % Cap # head
            BY <5>1, <5>2
          <5> QED BY <5>3, <2>h
        <4>3. (head + (1 + k)) % Cap \in Slots
          BY <4>1, <1>t, Lap
        <4>4. ring'[(head + (1 + k)) % Cap] = ring[(head + (1 + k)) % Cap]
          BY <4>2, <4>3, <1>r, <1>t
        <4>5. ring[(head + (1 + k)) % Cap].pkt = Len(born) - Cap + 1 + (1 + k)
          BY <4>1, <1>1 DEF IndInv, FreshestKept, At
        <4> QED BY <4>4, <4>5, <3>1, <1>b, <1>t
      <3> QED BY <3>2, <3>3
    <2>4. Accounting' /\ NotBegun'
      BY <2>0, <1>1, <1>b, <1>t DEF IndInv, Accounting, NotBegun, Push, Store
    <2> QED BY <2>1, <2>2, <2>3, <2>4 DEF IndInv
  <1>2. CASE count < Cap
    <2>0. head' = head /\ count' = count + 1 /\ dropped' = dropped
      BY <1>2 DEF Push, Store
    <2>1. TypeOK'
      BY <2>0, <1>2, <1>t, <1>b, <1>s, <1>r, <1>u DEF TypeOK
    <2>h. tail = (head + count) % Cap
      BY DEF IndInv, RingInv
    <2>2. RingInv'
      <3>1. (((head + count) % Cap) + 1) % Cap = (head + (count + 1)) % Cap
        BY <1>2, <1>t, LapSum
      <3> QED BY <3>1, <2>0, <2>h, <1>s, <1>r DEF RingInv
    <2>3. FreshestKept'
      <3> SUFFICES ASSUME NEW k \in 0..count
                   PROVE  ring'[(head + k) % Cap].pkt
                            = Len(born') - (count + 1) + 1 + k
        BY <2>0, <1>t DEF FreshestKept, At
      <3>1. CASE k = count
        BY <3>1, <2>h, <1>r, <1>b, <1>t
      <3>2. CASE k < count
        <4>1. k \in 0..(Cap - 1) /\ count \in 0..(Cap - 1) /\ k # count
              /\ k \in 0..(count - 1)
          BY <3>2, <1>2, <1>t
        <4>2. (head + k) % Cap # tail
          BY <4>1, <2>h, <1>t, Apart
        <4>3. (head + k) % Cap \in Slots
          BY <4>1, <1>t, Lap
        <4>4. ring'[(head + k) % Cap] = ring[(head + k) % Cap]
          BY <4>2, <4>3, <1>r, <1>t
        <4>5. ring[(head + k) % Cap].pkt = Len(born) - count + 1 + k
          BY <4>1 DEF IndInv, FreshestKept, At
        <4> QED BY <4>4, <4>5, <1>b, <1>t
      <3> QED BY <3>1, <3>2, <1>t
    <2>4. Accounting' /\ NotBegun'
      BY <2>0, <1>b, <1>t DEF IndInv, Accounting, NotBegun, Push, Store
    <2> QED BY <2>1, <2>2, <2>3, <2>4 DEF IndInv
  <1> QED BY <1>1, <1>2, <1>t

\* Removing the n oldest entries, whatever becomes of them.
LEMMA Advance ==
  ASSUME IndInv, NEW n \in 0..count,
         head' = (head + n) % Cap, count' = count - n,
         UNCHANGED <<ring, tail, begun, now, born>>
  PROVE  RingInv' /\ FreshestKept' /\ head' \in Slots /\ count' \in 0..Cap
  <1> USE CapAssumption
  <1>t. /\ head \in Slots /\ count \in 0..Cap /\ n \in 0..Cap
        /\ count - n \in 0..Cap /\ Len(born) \in Nat
    BY DEF IndInv, TypeOK
  <1>1. head' \in Slots /\ count' \in 0..Cap
    BY <1>t, Lap
  <1>2. RingInv'
    <2>1. (((head + n) % Cap) + (count - n)) % Cap = (head + (n + (count - n))) % Cap
      BY <1>t, LapSum
    <2>2. n + (count - n) = count
      BY <1>t
    <2> QED BY <2>1, <2>2 DEF RingInv, IndInv
  <1>3. FreshestKept'
    <2> SUFFICES ASSUME NEW k \in 0..(count - n - 1)
                 PROVE  ring[(((head + n) % Cap) + k) % Cap].pkt
                          = Len(born) - (count - n) + 1 + k
      BY <1>t DEF FreshestKept, At
    <2>1. k \in 0..Cap /\ n + k <= Cap /\ n + k \in 0..(count - 1)
      BY <1>t
    <2>2. (((head + n) % Cap) + k) % Cap = (head + (n + k)) % Cap
      BY <2>1, <1>t, LapSum
    <2>3. ring[(head + (n + k)) % Cap].pkt = Len(born) - count + 1 + (n + k)
      BY <2>1 DEF IndInv, FreshestKept, At
    <2> QED BY <2>2, <2>3, <2>1, <1>t
  <1> QED BY <1>1, <1>2, <1>3

\* A pop that discards k expired entries and delivers the next keeps the invariant.
LEMMA DeliverInv ==
  ASSUME IndInv, NEW k \in 0..(Cap - 1), PopDeliver(k)
  PROVE  IndInv'
  <1> USE CapAssumption
  <1>t. /\ ring \in [Slots -> Entry] /\ head \in Slots /\ count \in 0..Cap
        /\ dropped \in Nat /\ sent \in Nat /\ Len(born) \in Nat
        /\ k + 1 \in 0..count
    BY DEF IndInv, TypeOK, PopDeliver
  <1>1. head' = (head + (k + 1)) % Cap /\ count' = count - (k + 1)
    BY <1>t DEF PopDeliver, Slots
  <1>2. RingInv' /\ FreshestKept' /\ head' \in Slots /\ count' \in 0..Cap
    BY <1>1, <1>t, Advance DEF PopDeliver
  <1>3. out' \in {<<x>> : x \in Entry}
    <2>1. At(k) \in Slots
      BY <1>t, Lap DEF At
    <2> QED BY <2>1, <1>t DEF PopDeliver
  <1>4. UNCHANGED <<ring, tail, begun, now, born>>
    BY DEF PopDeliver
  <1>5. dropped' \in Nat /\ sent' \in Nat
    BY <1>t DEF PopDeliver
  <1>6. TypeOK'
    BY <1>2, <1>3, <1>4, <1>5 DEF TypeOK, IndInv
  <1>7. Accounting'
    BY <1>1, <1>t, <1>4 DEF PopDeliver, IndInv, Accounting
  <1>8. NotBegun'
    BY DEF PopDeliver, NotBegun
  <1> QED BY <1>2, <1>6, <1>7, <1>8 DEF IndInv

\* A pop that finds nothing fresh keeps the invariant.
LEMMA EmptyInv == ASSUME IndInv, PopEmpty PROVE IndInv'
  <1> USE CapAssumption
  <1>t. /\ count \in 0..Cap /\ count \in 0..count /\ dropped \in Nat
        /\ sent \in Nat /\ Len(born) \in Nat
    BY DEF IndInv, TypeOK
  <1>1. head' = (head + count) % Cap /\ count' = count - count
    BY <1>t DEF PopEmpty
  <1>2. RingInv' /\ FreshestKept' /\ head' \in Slots /\ count' \in 0..Cap
    BY <1>1, <1>t, Advance DEF PopEmpty
  <1>3. UNCHANGED <<ring, tail, out, begun, now, born, sent>>
    BY DEF PopEmpty
  <1>4. dropped' \in Nat
    BY <1>t DEF PopEmpty
  <1>5. TypeOK'
    BY <1>2, <1>3, <1>4 DEF TypeOK, IndInv
  <1>6. Accounting'
    BY <1>1, <1>t, <1>3 DEF PopEmpty, IndInv, Accounting
  <1>7. NotBegun'
    BY DEF PopEmpty, NotBegun
  <1> QED BY <1>2, <1>5, <1>6, <1>7 DEF IndInv

\* The passing of time keeps the invariant.
LEMMA TickInv == IndInv /\ Tick => IndInv'
  <1> SUFFICES ASSUME IndInv, Tick PROVE IndInv'
    OBVIOUS
  <1>1. UNCHANGED <<ring, head, tail, count, dropped, out, begun, born, sent>>
    BY DEF Tick
  <1>2. now' \in Nat
    BY DEF Tick, IndInv, TypeOK
  <1>3. TypeOK'
    BY <1>1, <1>2 DEF IndInv, TypeOK
  <1>4. RingInv' /\ FreshestKept' /\ Accounting' /\ NotBegun'
    BY <1>1 DEF IndInv, RingInv, FreshestKept, Accounting, NotBegun, At
  <1> QED BY <1>3, <1>4 DEF IndInv

\* The ring invariant is inductive.
LEMMA NextInv == IndInv /\ [Next]_vars => IndInv'
  <1> SUFFICES ASSUME IndInv, [Next]_vars PROVE IndInv'
    OBVIOUS
  <1>1. CASE Begin    BY <1>1, BeginInv
  <1>2. CASE Push     BY <1>2, PushInv
  <1>3. CASE PopEmpty BY <1>3, EmptyInv
  <1>4. ASSUME NEW k \in 0..(Cap - 1), PopDeliver(k) PROVE IndInv'
    BY <1>4, DeliverInv
  <1>5. CASE Tick     BY <1>5, TickInv
  <1>6. CASE UNCHANGED vars
    BY <1>6 DEF vars, IndInv, TypeOK, RingInv, FreshestKept, Accounting,
                NotBegun, At
  <1> QED BY <1>1, <1>2, <1>3, <1>4, <1>5, <1>6 DEF Next, Pop

\* The invariant holds in every reachable state.
LEMMA SpecInv == Spec => []IndInv
  <1> QED BY InitInv, NextInv, PTL DEF Spec

\* The variables of the queue keep their types, for every depth and age.
THEOREM TypeCorrect == Spec => []TypeOK
  <1>1. IndInv => TypeOK
    BY DEF IndInv
  <1> QED BY <1>1, SpecInv, PTL

\* The live part of the ring is exactly the last _count packets pushed, in
\* order: no push overwrites a queued packet other than the oldest of a full
\* ring, and no pop skips a fresh one (RouteQueue::push, RouteQueue::pop).
THEOREM KeepsFreshest == Spec => []FreshestKept
  <1>1. IndInv => FreshestKept
    BY DEF IndInv
  <1> QED BY <1>1, SpecInv, PTL

\* Every packet accepted by push is delivered, counted as dropped or queued.
THEOREM Accounts == Spec => []Accounting
  <1>1. IndInv => Accounting
    BY DEF IndInv
  <1> QED BY <1>1, SpecInv, PTL

-----------------------------------------------------------------------------
(* Age *)

\* Quotient and remainder.
LEMMA Division ==
  ASSUME NEW M \in Nat \ {0}, NEW l \in Int
  PROVE  \E d \in Int, r \in 0..(M - 1) : l % M = r /\ l = M * d + r
  OBVIOUS

\* A number between 0 and M - 1 that differs from x by a multiple of M is x's remainder.
LEMMA Remainder ==
  ASSUME NEW M \in Nat \ {0}, NEW a \in 0..(M - 1), NEW d \in Int, NEW x \in Int,
         x = M * d + a
  PROVE  x % M = a
  OBVIOUS

\* The difference of two readings of millis() less than a lap apart, taken without a sign, is
\* the time between them.
LEMMA Elapsed ==
  ASSUME NEW M \in Nat \ {0}, NEW l \in Int, NEW t \in Int, l <= t, t - l < M
  PROVE  ((t % M) - (l % M)) % M = t - l
  <1>1. PICK d \in Int, r \in 0..(M - 1) : l % M = r /\ l = M * d + r
    BY Division
  <1>2. PICK c \in Int, s \in 0..(M - 1) : t % M = s /\ t = M * c + s
    BY Division
  <1> DEFINE x == s - r
             a == t - l
             e == d - c
  <1>3. x = M * e + a
    BY <1>1, <1>2
  <1>4. a \in 0..(M - 1) /\ x \in Int /\ e \in Int
    OBVIOUS
  <1> HIDE DEF a, x, e
  <1>5. x % M = a
    BY <1>3, <1>4, Remainder
  <1> QED BY <1>1, <1>2, <1>5 DEF a, x

\* Every slot that holds a packet has the stamp of its push, and what is queued was pushed
\* less than a lap ago.
AgeInv ==
  /\ \A i \in Slots : LET p == ring[i].pkt IN
       p \in 1..Len(born) => ring[i].enq = born[p] % ClockMod
  /\ \A i \in Slots : ring[i].pkt <= Len(born)
  /\ \A p \in 1..Len(born) : p > Len(born) - count => born[p] <= now /\ now - born[p] < ClockMod

\* Every step keeps stamps and ages.
LEMMA AgeStep == IndInv /\ AgeInv /\ [Next]_vars => AgeInv'
  <1> SUFFICES ASSUME IndInv, AgeInv, [Next]_vars PROVE AgeInv'
    OBVIOUS
  <1>t. /\ ring \in [Slots -> Entry] /\ head \in Slots /\ tail \in Slots /\ count \in 0..Cap
        /\ now \in Nat /\ born \in Seq(Nat) /\ Len(born) \in Nat
        /\ dropped \in Nat /\ sent \in Nat /\ Len(born) = sent + dropped + count
    BY DEF IndInv, TypeOK, Accounting
  <1>n. count \in Nat
    BY <1>t, CapAssumption
  <1>1. ASSUME UNCHANGED <<ring, born, now>>, count' \in Nat, count' <= count PROVE AgeInv'
    <2>1. ASSUME NEW p \in 1..Len(born), p > Len(born) - count' PROVE p > Len(born) - count
      <3>1. Len(born) \in Nat /\ count \in Nat /\ count' \in Nat /\ count' <= count
        BY <1>1, <1>n, <1>t
      <3> QED BY <2>1, <3>1
    <2> QED BY <1>1, <2>1 DEF AgeInv
  <1>2. CASE Push
    <2> DEFINE e == [pkt |-> Len(born) + 1, enq |-> Millis]
    <2>1. ring' = [ring EXCEPT ![tail] = e] /\ born' = Append(born, now) /\ now' = now
      BY <1>2 DEF Push, Store
    <2>2. e.pkt = Len(born) + 1 /\ e.enq = now % ClockMod
      BY DEF Millis
    <2> HIDE DEF e
    <2>3. /\ Len(born') = Len(born) + 1 /\ born'[Len(born) + 1] = now
          /\ \A p \in 1..Len(born) : born'[p] = born[p]
      BY <1>t, <2>1
    <2>4. \A i \in Slots : ring'[i] = IF i = tail THEN e ELSE ring[i]
      BY <1>t, <2>1
    <2>5. \A i \in Slots : ring[i].pkt \in Nat
      BY <1>t DEF Entry
    <2>6. ASSUME NEW i \in Slots
          PROVE  /\ ring'[i].pkt <= Len(born')
                 /\ ring'[i].pkt \in 1..Len(born') => ring'[i].enq = born'[ring'[i].pkt] % ClockMod
      <3>1. CASE i = tail
        BY <1>t, <2>2, <2>3, <2>4, <3>1
      <3>2. CASE i # tail
        <4>1. ring'[i] = ring[i] /\ ring[i].pkt <= Len(born) /\ ring[i].pkt \in Nat
          BY <2>4, <2>5, <3>2 DEF AgeInv
        <4>2. ring'[i].pkt <= Len(born')
          BY <1>t, <2>3, <4>1
        <4>3. ASSUME ring[i].pkt \in 1..Len(born') PROVE ring[i].enq = born'[ring[i].pkt] % ClockMod
          <5>1. ring[i].pkt \in 1..Len(born)
            BY <1>t, <4>1, <4>3
          <5> QED BY <2>3, <5>1 DEF AgeInv
        <4> QED BY <4>1, <4>2, <4>3
      <3> QED BY <3>1, <3>2
    <2>7. count' \in Nat /\ count' <= count + 1
      BY <1>2, <1>t DEF Push
    <2>8. ASSUME NEW p \in 1..Len(born'), p > Len(born') - count'
          PROVE  born'[p] <= now /\ now - born'[p] < ClockMod
      <3>1. CASE p = Len(born) + 1
        BY <1>t, <2>3, <3>1, ClockAssumption, MaxAgeAssumption
      <3>2. CASE p # Len(born) + 1
        <4>1. p \in 1..Len(born) /\ p > Len(born) - count
          <5>1. p \in 1..(Len(born) + 1) /\ p > Len(born) + 1 - count'
            <6>1. Len(born') = Len(born) + 1
              BY <2>3
            <6>2. p \in 1..Len(born') /\ p > Len(born') - count'
              BY <2>8
            <6>3. PICK n : n = Len(born')
              OBVIOUS
            <6>4. p \in 1..n /\ p > n - count' /\ n = Len(born) + 1
              BY <6>1, <6>2, <6>3
            <6>5. Len(born) \in Nat /\ count' \in Nat
              BY <1>t, <2>7
            <6> QED BY <6>4, <6>5
          <5>2. Len(born) \in Nat /\ count \in Nat /\ count' \in Nat /\ count' <= count + 1
            BY <1>n, <1>t, <2>7
          <5> QED BY <3>2, <5>1, <5>2
        <4> QED BY <2>3, <4>1 DEF AgeInv
      <3> QED BY <3>1, <3>2
    <2> QED BY <2>1, <2>6, <2>8 DEF AgeInv
  <1>3. CASE Tick
    <2>1. now' = now + 1 /\ UNCHANGED <<ring, head, count, born>>
      BY <1>3 DEF Tick
    <2>2. ASSUME NEW p \in 1..Len(born), p > Len(born) - count
          PROVE  born[p] <= now + 1 /\ now + 1 - born[p] < ClockMod
      <3> DEFINE i == p - (Len(born) - count) - 1
      <3>1. i \in 0..(count - 1) /\ p = Len(born) - count + 1 + i
        BY <1>t, <2>2
      <3> HIDE DEF i
      <3>2. ring[At(i)].pkt = p
        BY <3>1 DEF IndInv, FreshestKept
      <3>3. now + 1 - born[p] < ClockMod
        BY <1>3, <3>1, <3>2 DEF Tick
      <3>4. born[p] <= now /\ born[p] \in Nat
        BY <1>t, <2>2 DEF AgeInv
      <3> QED BY <1>t, <3>3, <3>4
    <2>3. \A p \in 1..Len(born') : p > Len(born') - count' => born'[p] <= now' /\ now' - born'[p] < ClockMod
      <3>1. Len(born') = Len(born) /\ count' = count /\ born' = born
        BY <2>1
      <3>2. now' = now + 1
        BY <2>1
      <3>3. \A p \in 1..Len(born) : p > Len(born) - count =>
               born[p] <= now + 1 /\ now + 1 - born[p] < ClockMod
        BY <2>2
      <3>4. PICK b, c, t : b = born' /\ c = count' /\ t = now'
        OBVIOUS
      <3>5. b = born /\ c = count /\ t = now + 1
        BY <3>1, <3>2, <3>4
      <3>6. \A p \in 1..Len(b) : p > Len(b) - c => b[p] <= t /\ t - b[p] < ClockMod
        BY <1>n, <1>t, <3>3, <3>5, ClockAssumption
      <3> QED BY <3>4, <3>6
    <2>4. \A i \in Slots :
            /\ ring'[i].pkt \in 1..Len(born') => ring'[i].enq = born'[ring'[i].pkt] % ClockMod
            /\ ring'[i].pkt <= Len(born')
      BY <2>1 DEF AgeInv
    <2> QED BY <2>3, <2>4 DEF AgeInv
  <1>4. CASE Begin
    BY <1>1, <1>4, <1>t DEF Begin
  <1>5. CASE PopEmpty
    BY <1>1, <1>5, <1>t DEF PopEmpty
  <1>6. ASSUME NEW k \in 0..(Cap - 1), PopDeliver(k) PROVE AgeInv'
    BY <1>1, <1>6, <1>t DEF PopDeliver
  <1>7. CASE UNCHANGED vars
    BY <1>1, <1>7, <1>t DEF vars
  <1> QED BY <1>2, <1>3, <1>4, <1>5, <1>6, <1>7 DEF Next, Pop

\* A packet is delivered only while its true age is within the maximum, at every depth and
\* across any wrap of millis(): the stamp in its slot is that of its own push, and it is less
\* than a lap old, so the unsigned difference that pop compares is its age.
THEOREM DeliversFresh == Spec => DeliveredFresh
  <1> DEFINE A == sent' # sent => \/ MaxAge = 0
                                  \/ now - born[out'[1].pkt] <= MaxAge
  <1>1. Init => AgeInv
    <2> SUFFICES ASSUME Init PROVE AgeInv
      OBVIOUS
    <2>1. Len(born) = 0 /\ \A i \in Slots : ring[i].pkt = 0
      BY DEF Init, Blank
    <2> QED BY <2>1 DEF AgeInv
  <1>2. IndInv /\ AgeInv /\ [Next]_vars => A
    <2> SUFFICES ASSUME IndInv, AgeInv, [Next]_vars, sent' # sent, MaxAge # 0
                 PROVE  now - born[out'[1].pkt] <= MaxAge
      OBVIOUS
    <2>1. PICK k \in 0..(Cap - 1) : PopDeliver(k)
      BY DEF Next, Pop, Begin, Push, Store, PopEmpty, Tick, vars
    <2>t. /\ ring \in [Slots -> Entry] /\ head \in Slots /\ count \in 0..Cap
          /\ now \in Nat /\ born \in Seq(Nat) /\ Len(born) \in Nat
          /\ dropped \in Nat /\ sent \in Nat /\ Len(born) = sent + dropped + count
      BY DEF IndInv, TypeOK, Accounting
    <2>2. At(k) \in Slots /\ k \in 0..(count - 1)
      BY <2>1, <2>t, Lap, CapAssumption DEF At, PopDeliver
    <2> DEFINE e == ring[At(k)]
               p == e.pkt
    <2>3. out'[1] = e /\ ~Expired(Millis, e.enq)
      BY <2>1 DEF PopDeliver
    <2>4. p = Len(born) - count + 1 + k
      BY <2>2 DEF IndInv, FreshestKept
    <2>5. p \in 1..Len(born) /\ p > Len(born) - count
      BY <2>2, <2>4, <2>t
    <2>6. e.enq = born[p] % ClockMod /\ born[p] <= now /\ now - born[p] < ClockMod
      BY <2>2, <2>5 DEF AgeInv
    <2>7. born[p] \in Nat
      BY <2>5, <2>t
    <2> HIDE DEF p, e
    <2>8. ((now % ClockMod) - (born[p] % ClockMod)) % ClockMod = now - born[p]
      <3>1. ClockMod \in Nat \ {0} /\ born[p] \in Int /\ now \in Int
        BY <2>7, <2>t, ClockAssumption, MaxAgeAssumption
      <3> QED BY <2>6, <3>1, Elapsed
    <2>9. ~(now - born[p] > MaxAge)
      BY <2>3, <2>6, <2>8 DEF Expired, Millis
    <2>10. now - born[p] <= MaxAge
      BY <2>7, <2>9, <2>t, MaxAgeAssumption
    <2> QED BY <2>3, <2>10 DEF p
  <1> HIDE DEF A
  <1>3. IndInv /\ AgeInv /\ [Next]_vars => [A]_vars
    BY <1>2
  <1>4. Spec => [][A]_vars
    BY <1>1, <1>3, AgeStep, InitInv, NextInv, PTL DEF Spec
  <1> QED BY <1>4 DEF DeliveredFresh, A

-----------------------------------------------------------------------------
(***************************************************************************)
(* The ring implements the bounded FIFO: read as a sequence, a push is an  *)
(* append, and a pop removes a prefix.                                     *)
(***************************************************************************)
View(r, h, c) == [i \in 1..c |-> r[(h + (i - 1)) % Cap]]

\* The view of c slots from h on is a sequence of c entries.
LEMMA ViewType ==
  ASSUME NEW r \in [Slots -> Entry], NEW h \in Slots, NEW c \in 0..Cap
  PROVE  /\ View(r, h, c) \in Seq(Entry)
         /\ Len(View(r, h, c)) = c
         /\ \A i \in 1..c : View(r, h, c)[i] = r[(h + (i - 1)) % Cap]
  <1> USE CapAssumption
  <1>1. \A i \in 1..c : r[(h + (i - 1)) % Cap] \in Entry
    <2> TAKE i \in 1..c
    <2>1. i - 1 \in 0..Cap
      OBVIOUS
    <2> QED BY <2>1, Lap
  <1>2. c \in Nat
    OBVIOUS
  <1> QED BY <1>1, <1>2 DEF View

\* The refinement mapping is the view of the live slots.
LEMMA QueueIsView == Queue = View(ring, head, count)
  BY DEF Queue, View, At

\* The refinement mapping is a sequence of _count entries.
LEMMA QueueType ==
  ASSUME IndInv
  PROVE  /\ Queue \in Seq(Entry) /\ Len(Queue) = count
         /\ \A i \in 1..count : Queue[i] = ring[At(i - 1)]
  BY ViewType, QueueIsView DEF IndInv, TypeOK, At

\* The same in the next state.
LEMMA QueueTypeNext ==
  ASSUME IndInv'
  PROVE  /\ Queue' \in Seq(Entry) /\ Len(Queue') = count'
         /\ \A i \in 1..count' : Queue'[i] = ring'[(head' + (i - 1)) % Cap]
  <1>1. Queue' = View(ring', head', count')
    BY DEF Queue, View, At
  <1>2. ring' \in [Slots -> Entry] /\ head' \in Slots /\ count' \in 0..Cap
    BY DEF IndInv, TypeOK
  <1> QED BY <1>1, <1>2, ViewType

\* Writing the slot after the last entry appends to the view.
LEMMA ViewAppend ==
  ASSUME NEW r \in [Slots -> Entry], NEW h \in Slots, NEW c \in 0..(Cap - 1),
         NEW e \in Entry
  PROVE  View([r EXCEPT ![(h + c) % Cap] = e], h, c + 1) = Append(View(r, h, c), e)
  <1> USE CapAssumption
  <1> DEFINE t  == (h + c) % Cap
             r2 == [r EXCEPT ![t] = e]
             v  == View(r, h, c)
             v2 == View(r2, h, c + 1)
             a  == Append(v, e)
  <1>t. t \in Slots /\ r2 \in [Slots -> Entry] /\ c \in 0..Cap /\ c + 1 \in 0..Cap
    BY Lap
  <1>1. /\ v \in Seq(Entry) /\ Len(v) = c
        /\ \A i \in 1..c : v[i] = r[(h + (i - 1)) % Cap]
    BY <1>t, ViewType
  <1>2. /\ v2 \in Seq(Entry) /\ Len(v2) = c + 1
        /\ \A i \in 1..(c + 1) : v2[i] = r2[(h + (i - 1)) % Cap]
    BY <1>t, ViewType
  <1>3. /\ a \in Seq(Entry) /\ Len(a) = c + 1
        /\ \A i \in 1..c : a[i] = v[i]
        /\ a[c + 1] = e
    BY <1>1, AppendProperties
  <1>4. ASSUME NEW i \in 1..(c + 1) PROVE v2[i] = a[i]
    <2>1. CASE i = c + 1
      <3>1. i - 1 = c
        BY <2>1
      <3>2. v2[i] = r2[t]
        BY <3>1, <1>2
      <3> QED BY <3>2, <2>1, <1>3, <1>t
    <2>2. CASE i <= c
      <3>1. i - 1 \in 0..(Cap - 1) /\ i - 1 # c /\ i \in 1..c /\ i - 1 \in 0..Cap
        BY <2>2
      <3>2. (h + (i - 1)) % Cap # t
        BY <3>1, Apart
      <3>3. (h + (i - 1)) % Cap \in Slots
        BY <3>1, Lap
      <3>4. r2[(h + (i - 1)) % Cap] = r[(h + (i - 1)) % Cap]
        BY <3>2, <3>3
      <3>5. v2[i] = r2[(h + (i - 1)) % Cap]
        BY <1>2
      <3>6. a[i] = v[i]
        BY <3>1, <1>3
      <3>7. v[i] = r[(h + (i - 1)) % Cap]
        BY <3>1, <1>1
      <3> QED BY <3>4, <3>5, <3>6, <3>7
    <2>3. i = c + 1 \/ i <= c
      OBVIOUS
    <2> HIDE DEF v2, a
    <2> QED BY <2>1, <2>2, <2>3
  <1>5. v2 = a
    <2> HIDE DEF v2, a
    <2>1. Len(v2) = Len(a) /\ \A i \in 1..Len(v2) : v2[i] = a[i]
      BY <1>2, <1>3, <1>4
    <2> QED BY <2>1, <1>2, <1>3, SeqEqual
  <1> QED BY <1>5

\* Dropping the oldest entry is taking the tail of the view.
LEMMA ViewTail ==
  ASSUME NEW r \in [Slots -> Entry], NEW h \in Slots, NEW c \in 1..Cap
  PROVE  View(r, (h + 1) % Cap, c - 1) = Tail(View(r, h, c))
  <1> USE CapAssumption
  <1> DEFINE g  == (h + 1) % Cap
             v  == View(r, h, c)
             v2 == View(r, g, c - 1)
             u  == Tail(v)
  <1>t. g \in Slots /\ 1 \in 0..Cap /\ c \in 0..Cap /\ c - 1 \in 0..Cap
    <2>1. 1 \in 0..Cap /\ c \in 0..Cap /\ c - 1 \in 0..Cap
      OBVIOUS
    <2> QED BY <2>1, Lap
  <1>1. /\ v \in Seq(Entry) /\ Len(v) = c
        /\ \A i \in 1..c : v[i] = r[(h + (i - 1)) % Cap]
    BY <1>t, ViewType
  <1>2. /\ v2 \in Seq(Entry) /\ Len(v2) = c - 1
        /\ \A i \in 1..(c - 1) : v2[i] = r[(g + (i - 1)) % Cap]
    BY <1>t, ViewType
  <1>3. /\ u \in Seq(Entry) /\ Len(u) = c - 1
        /\ \A i \in 1..(c - 1) : u[i] = v[i + 1]
    <2>1. v # <<>>
      BY <1>1
    <2> HIDE DEF v
    <2> QED BY <2>1, <1>1, HeadTailProperties
  <1>4. ASSUME NEW i \in 1..(c - 1) PROVE v2[i] = u[i]
    <2>1. i + 1 \in 1..c /\ (i + 1) - 1 = 1 + (i - 1) /\ i - 1 \in 0..Cap
          /\ 1 + (i - 1) <= Cap
      OBVIOUS
    <2>2. (g + (i - 1)) % Cap = (h + (1 + (i - 1))) % Cap
      BY <2>1, <1>t, LapSum
    <2>3. v[i + 1] = r[(h + (1 + (i - 1))) % Cap]
      BY <2>1, <1>1
    <2> HIDE DEF v, v2, u, g
    <2> QED BY <2>2, <2>3, <1>2, <1>3
  <1>5. v2 = u
    <2> HIDE DEF v2, u
    <2>1. Len(v2) = Len(u) /\ \A i \in 1..Len(v2) : v2[i] = u[i]
      BY <1>2, <1>3, <1>4
    <2> QED BY <2>1, <1>2, <1>3, SeqEqual
  <1> QED BY <1>5

\* RouteQueue::push is the abstract push, overflow included.
LEMMA PushRefines ==
  ASSUME IndInv, Push
  PROVE  \E e \in Entry : Fifo!FifoPush(e)
  <1> USE CapAssumption
  <1> DEFINE e == [pkt |-> Len(born) + 1, enq |-> Millis]
  <1>t. /\ ring \in [Slots -> Entry] /\ head \in Slots /\ tail \in Slots
        /\ count \in 0..Cap /\ Len(born) \in Nat /\ now \in Nat
        /\ Len(born) < MaxPush /\ tail = (head + count) % Cap
    BY DEF IndInv, TypeOK, RingInv, Push, Store
  <1>e. e \in Entry
    BY <1>t, MillisType, BoundAssumption DEF Entry
  <1>q. Queue = View(ring, head, count) /\ Len(Queue) = count
    BY QueueIsView, QueueType
  <1>n. Queue' = View([ring EXCEPT ![tail] = e], head', count')
    BY DEF Queue, View, At, Push, Store
  <1>u. Millis' = Millis /\ out' = out
    BY DEF Push, Store, Millis
  <1> HIDE DEF e
  <1>1. CASE count = Cap
    <2>0. head' = (head + 1) % Cap /\ count' = Cap /\ dropped' = dropped + 1
      BY <1>1 DEF Push, Store, Succ
    <2>1. /\ tail = (head' + (Cap - 1)) % Cap /\ head' \in Slots
          /\ Cap - 1 \in 0..(Cap - 1) /\ (Cap - 1) + 1 = Cap
      <3>1. 1 \in 0..Cap /\ Cap - 1 \in 0..Cap /\ 1 + (Cap - 1) = Cap
            /\ Cap - 1 \in 0..(Cap - 1) /\ (Cap - 1) + 1 = Cap
        OBVIOUS
      <3>2. (((head + 1) % Cap) + (Cap - 1)) % Cap = (head + (1 + (Cap - 1))) % Cap
        <4>1. head \in Slots /\ 1 + (Cap - 1) <= Cap
          BY <1>t
        <4> QED BY <4>1, <3>1, LapSum
      <3>3. (head + 1) % Cap \in Slots
        BY <3>1, <1>t, Lap
      <3> QED BY <3>1, <3>2, <3>3, <2>0, <1>1, <1>t
    <2>2. Queue' = Append(View(ring, head', Cap - 1), e)
      <3>1. View([ring EXCEPT ![(head' + (Cap - 1)) % Cap] = e], head', (Cap - 1) + 1)
              = Append(View(ring, head', Cap - 1), e)
        BY <2>1, <1>t, <1>e, ViewAppend
      <3>2. Queue' = View([ring EXCEPT ![tail] = e], head', Cap)
        BY <2>0, <1>n
      <3> QED BY <3>1, <3>2, <2>1
    <2>3. View(ring, head', Cap - 1) = Tail(Queue)
      <3>1. View(ring, (head + 1) % Cap, Cap - 1) = Tail(View(ring, head, Cap))
        <4>1. Cap \in 1..Cap
          OBVIOUS
        <4> QED BY <4>1, <1>t, ViewTail
      <3> QED BY <3>1, <2>0, <1>1, <1>q
    <2> QED BY <2>2, <2>3, <2>0, <1>q, <1>1, <1>u, <1>e DEF Fifo!FifoPush
  <1>2. CASE count < Cap
    <2>0. head' = head /\ count' = count + 1 /\ dropped' = dropped
      BY <1>2 DEF Push, Store
    <2>1. Queue' = Append(Queue, e)
      <3>1. View([ring EXCEPT ![(head + count) % Cap] = e], head, count + 1)
              = Append(View(ring, head, count), e)
        <4>1. count \in 0..(Cap - 1)
          BY <1>2, <1>t
        <4> QED BY <4>1, <1>t, <1>e, ViewAppend
      <3>2. Queue' = View([ring EXCEPT ![tail] = e], head, count + 1)
        BY <2>0, <1>n
      <3> QED BY <3>1, <3>2, <1>q, <1>t
    <2>2. Len(Queue) # Cap
      BY <1>q, <1>2, <1>t
    <2> QED BY <2>1, <2>2, <2>0, <1>u, <1>e DEF Fifo!FifoPush
  <1> QED BY <1>1, <1>2, <1>t

\* A delivering RouteQueue::pop is an abstract delivery.
LEMMA DeliverRefines ==
  ASSUME IndInv, IndInv', NEW k \in 0..(Cap - 1), PopDeliver(k)
  PROVE  \E j \in 1..Len(Queue) : Fifo!FifoDeliver(j)
  <1> USE CapAssumption
  <1>t. /\ head \in Slots /\ count \in 0..Cap /\ k \in Nat
        /\ k + 1 \in 1..count /\ k < count /\ (k + 1) - 1 = k
    BY DEF IndInv, TypeOK, PopDeliver
  <1>q. /\ Queue \in Seq(Entry) /\ Len(Queue) = count
        /\ \A i \in 1..count : Queue[i] = ring[(head + (i - 1)) % Cap]
    BY QueueType DEF At
  <1>n. /\ Queue' \in Seq(Entry) /\ Len(Queue') = count'
        /\ \A i \in 1..count' : Queue'[i] = ring'[(head' + (i - 1)) % Cap]
    BY QueueTypeNext
  <1>0. /\ head' = (head + (k + 1)) % Cap /\ count' = count - (k + 1)
        /\ dropped' = dropped + k /\ ring' = ring /\ now' = now
        /\ out' = <<ring[(head + k) % Cap]>>
    BY <1>t DEF PopDeliver, At, Slots
  <1>1. ~Expired(Millis, Queue[k + 1].enq) /\ out' = <<Queue[k + 1]>>
    BY <1>0, <1>q, <1>t DEF PopDeliver, At
  <1>2. \A i \in 1..k : Expired(Millis, Queue[i].enq)
    <2> TAKE i \in 1..k
    <2>1. i - 1 \in 0..(k - 1) /\ i \in 1..count
      BY <1>t
    <2> QED BY <2>1, <1>q DEF PopDeliver, Stale, At
  <1>3. Queue' = SubSeq(Queue, k + 2, Len(Queue))
    <2>1. /\ SubSeq(Queue, k + 2, count) \in Seq(Entry)
          /\ Len(SubSeq(Queue, k + 2, count)) = count - (k + 1)
          /\ \A i \in 1..(count - (k + 1)) :
               SubSeq(Queue, k + 2, count)[i] = Queue[k + 1 + i]
      <3>1. \A i \in (k + 2)..count : Queue[i] \in Entry
        BY <1>q, <1>t, ElementOfSeq
      <3>2. /\ SubSeq(Queue, k + 2, count) \in Seq(Entry)
            /\ Len(SubSeq(Queue, k + 2, count))
                 = IF k + 2 <= count THEN count - (k + 2) + 1 ELSE 0
            /\ \A i \in 1..(count - (k + 2) + 1) :
                 SubSeq(Queue, k + 2, count)[i] = Queue[k + 2 + i - 1]
        BY <3>1, <1>t, SubSeqProperties
      <3>3. count - (k + 2) + 1 = count - (k + 1)
        BY <1>t
      <3>4. \A i \in 1..(count - (k + 1)) : k + 2 + i - 1 = k + 1 + i
        BY <1>t
      <3>5. ~(k + 2 <= count) => count - (k + 1) = 0
        BY <1>t
      <3> QED BY <3>2, <3>3, <3>4, <3>5
    <2>2. \A i \in 1..(count - (k + 1)) : Queue'[i] = Queue[k + 1 + i]
      <3> TAKE i \in 1..(count - (k + 1))
      <3>1. i - 1 \in 0..Cap /\ k + 1 \in 0..Cap /\ (k + 1) + (i - 1) <= Cap
            /\ k + 1 + i \in 1..count /\ (k + 1 + i) - 1 = (k + 1) + (i - 1)
        BY <1>t
      <3>2. Queue'[i] = ring[(((head + (k + 1)) % Cap) + (i - 1)) % Cap]
        BY <1>0, <1>n
      <3>3. (((head + (k + 1)) % Cap) + (i - 1)) % Cap
              = (head + ((k + 1) + (i - 1))) % Cap
        BY <3>1, <1>t, LapSum
      <3>4. Queue[k + 1 + i] = ring[(head + ((k + 1 + i) - 1)) % Cap]
        BY <3>1, <1>q
      <3> QED BY <3>1, <3>2, <3>3, <3>4
    <2> QED BY <2>1, <2>2, <1>q, <1>n, <1>0, SeqEqual
  <1>4. /\ (k + 1) + 1 = k + 2 /\ k + 1 \in 1..Len(Queue)
        /\ dropped' = dropped + ((k + 1) - 1)
        /\ 1..((k + 1) - 1) = 1..k /\ Millis' = Millis
    BY <1>t, <1>q, <1>0 DEF Millis
  <1>5. Fifo!FifoDeliver(k + 1)
    BY <1>1, <1>2, <1>3, <1>4 DEF Fifo!FifoDeliver
  <1> QED BY <1>4, <1>5

\* A RouteQueue::pop that returns false is an abstract flush.
LEMMA EmptyRefines ==
  ASSUME IndInv, IndInv', PopEmpty
  PROVE  Fifo!FifoFlush
  <1> USE CapAssumption
  <1>t. count \in 0..Cap
    BY DEF IndInv, TypeOK
  <1>q. /\ Queue \in Seq(Entry) /\ Len(Queue) = count
        /\ \A i \in 1..count : Queue[i] = ring[(head + (i - 1)) % Cap]
    BY QueueType DEF At
  <1>1. Queue' = <<>>
    <2>1. Queue' \in Seq(Entry) /\ Len(Queue') = 0
      BY QueueTypeNext DEF PopEmpty
    <2> QED BY <2>1, EmptySeq
  <1>2. \A i \in 1..count : Expired(Millis, Queue[i].enq)
    <2> TAKE i \in 1..count
    <2>1. i - 1 \in 0..(count - 1)
      BY <1>t
    <2> QED BY <2>1, <1>q DEF PopEmpty, Stale, At
  <1> QED BY <1>1, <1>2, <1>q DEF PopEmpty, Fifo!FifoFlush, Millis

\* The ring starts as an empty queue.
LEMMA InitRefines == Init => Fifo!FifoInit
  <1> SUFFICES ASSUME Init PROVE Fifo!FifoInit
    OBVIOUS
  <1>1. Len(Queue) = 0 /\ Queue \in Seq(Entry) /\ count = 0
    BY InitInv, QueueType DEF Init
  <1>2. Queue = <<>>
    BY <1>1, EmptySeq
  <1> QED BY <1>2 DEF Init, Fifo!FifoInit

\* Every step of the ring is a step of the FIFO or a stutter.
LEMMA StepRefines ==
  IndInv /\ IndInv' /\ [Next]_vars => [Fifo!FifoNext]_(Fifo!fifoVars)
  <1> SUFFICES ASSUME IndInv, IndInv', [Next]_vars
               PROVE  [Fifo!FifoNext]_(Fifo!fifoVars)
    OBVIOUS
  <1> USE DEF Fifo!FifoNext
  <1>1. CASE Begin
    <2>1. UNCHANGED <<ring, head, count, dropped, out, now>>
      BY <1>1 DEF Begin, IndInv, NotBegun
    <2>2. UNCHANGED <<Queue, dropped, out, Millis>>
      BY <2>1 DEF Queue, At, Millis
    <2> QED BY <2>2 DEF Fifo!fifoVars
  <1>2. CASE Push     BY <1>2, PushRefines
  <1>3. CASE PopEmpty BY <1>3, EmptyRefines
  <1>4. ASSUME NEW k \in 0..(Cap - 1), PopDeliver(k)
        PROVE  Fifo!FifoNext
    BY <1>4, DeliverRefines
  <1>5. CASE Tick
    <2>1. UNCHANGED <<Queue, dropped, out>>
      BY <1>5 DEF Tick, Queue, At
    <2> QED BY <2>1 DEF Fifo!FifoTick
  <1>6. CASE UNCHANGED vars
    <2>1. UNCHANGED <<Queue, dropped, out, Millis>>
      BY <1>6 DEF vars, Queue, At, Millis
    <2> QED BY <2>1 DEF Fifo!fifoVars
  <1> QED BY <1>1, <1>2, <1>3, <1>4, <1>5, <1>6 DEF Next, Pop

\* The ring of RouteQueue.cpp implements the bounded drop-oldest FIFO with
\* maximum age that RouteQueue.h promises, for every depth and age.
THEOREM Refinement == Spec => ImplementsFifo
  <1> QED BY InitRefines, StepRefines, SpecInv, PTL
          DEF Spec, ImplementsFifo, Fifo!FifoSpec
=============================================================================
