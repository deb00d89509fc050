-------------------------- MODULE LoopGuardProofs --------------------------
(*************************************************************************)
(* The loop guard: the table that implements it (DedupCache), for any    *)
(* size, window, clock and set of hashes, and what it achieves for the   *)
(* bridge (Bridge), for any radios, routing rows and clients.            *)
(*                                                                       *)
(* Of the table: a hash has one slot, nothing new is dropped (WithinLap) *)
(* and, with OneCaller, a duplicate inside the window is recognised      *)
(* unless N other hashes have come in between.                           *)
(*                                                                       *)
(* Of the bridge: its own packets are recognised when they come back,    *)
(* unless two calls of the table overlap.  On that rest at-most-once     *)
(* forwarding (NoRelay: a bridge with uplinks of its own forwards        *)
(* nothing from LoRaWAN), no return to the network of origin (Apart: one *)
(* radio per frequency) and that only duplicates are dropped (Distinct:  *)
(* clients' packets differ in what is hashed).                           *)
(*************************************************************************)
EXTENDS DedupCache, Bridge, FiniteSetTheorems, FunctionTheorems, SequenceTheorems, TLAPS

\* The device has been up for less than a lap of millis(), 49.7 days: a stamp that is
\* not yet a lap old tells its true age, whether or not the counter has wrapped since.
WithinLap == MaxNow - StartMs < ClockMod

\* At most one task is between reading millis() and leaving the critical section.
OneCaller == \A t, u \in Tasks : t = u

\* Times lie between the start and now; used entries hold hashes.
TimeInv ==
  /\ now >= StartMs /\ (now = StartMs \/ now <= MaxNow)
  /\ \A h \in Hashes : last[h] # Never => last[h] \in StartMs..now
  /\ \A t \in Tasks : call[t] # NoCall => call[t].at \in StartMs..now
  /\ \A i \in Slots : table[i].used => table[i].hash \in Hashes

\* With one caller, a call comes after everything recorded.
CallerInv ==
  \A t \in Tasks : call[t] # NoCall =>
    \A h \in Hashes : last[h] # Never => last[h] <= call[t].at

\* A recorded hash that is no longer in the table has left its window, for the call in
\* hand too, or N other hashes were recorded since.
EvictInv ==
  \A h \in Hashes : last[h] # Never /\ (\A i \in Slots : ~Holds(i, h)) =>
    \/ Cardinality(Since(h)) >= N
    \/ /\ now - last[h] >= TTL
       /\ \A t \in Tasks : call[t] # NoCall => call[t].at - last[h] >= TTL

-----------------------------------------------------------------------------
(* The clock *)

\* Quotient and remainder, and that they are the only ones.
LEMMA Division ==
  ASSUME NEW M \in Nat \ {0}, NEW l \in Int
  PROVE  \E d \in Int, r \in 0..(M - 1) : l % M = r /\ l = M * d + r
  OBVIOUS

\* A number between 0 and M - 1 that differs from x by a multiple of M is x's remainder.
LEMMA Remainder ==
  ASSUME NEW M \in Nat \ {0}, NEW a \in 0..(M - 1), NEW d \in Int, NEW x \in Int,
         x = M * d + a
  PROVE  x % M = a
  OBVIOUS

\* Unsigned subtraction of a stamp less than a lap old gives its true age, also when the
\* counter has wrapped in between.
LEMMA TrueAge ==
  ASSUME NEW M \in Nat \ {0}, NEW l \in Int, NEW t \in Int, l <= t, t - l < M
  PROVE  (t - (l % M)) % M = t - l
  <1>1. PICK d \in Int, r \in 0..(M - 1) : l % M = r /\ l = M * d + r
    BY Division
  <1> DEFINE x == t - r
             a == t - l
  <1>2. x = M * d + a
    BY <1>1
  <1>3. a \in 0..(M - 1) /\ x \in Int
    OBVIOUS
  <1> HIDE DEF a, x
  <1>4. x % M = a
    BY <1>2, <1>3, Remainder
  <1> QED BY <1>1, <1>4 DEF a, x

-----------------------------------------------------------------------------
(* The table *)

Entries == [used : BOOLEAN, hash : Hashes \cup {0}, stamp : 0..(ClockMod - 1)]
Entry(h, at) == [used |-> TRUE, hash |-> h, stamp |-> at % ClockMod]

\* A call in hand has an operation, a hash and a time.
LEMMA CallFacts ==
  ASSUME CacheTypeOK, NEW t \in Tasks, call[t] # NoCall
  PROVE  call[t].op \in Ops /\ call[t].h \in Hashes /\ call[t].at \in Nat
  BY DEF CacheTypeOK, CallType

\* What insert writes.
LEMMA Inserted ==
  ASSUME CacheTypeOK, NEW h \in Hashes, NEW at \in Nat, NEW k \in Slots,
         table' = [table EXCEPT ![k] = [used |-> TRUE, hash |-> h, stamp |-> at % ClockMod]]
  PROVE  /\ table' \in [Slots -> Entries]
         /\ table'[k].used /\ table'[k].hash = h /\ table'[k].stamp = at % ClockMod
         /\ \A j \in Slots : j # k => table'[j] = table[j]
  <1>1. at % ClockMod \in 0..(ClockMod - 1)
    BY SizeAssumption, WindowAssumption
  <1>2. Entry(h, at) \in Entries
    BY <1>1 DEF Entry, Entries
  <1>3. table \in [Slots -> Entries] /\ table' = [table EXCEPT ![k] = Entry(h, at)]
    BY DEF CacheTypeOK, Entries, Entry
  <1>4. Entry(h, at).used /\ Entry(h, at).hash = h /\ Entry(h, at).stamp = at % ClockMod
    BY DEF Entry
  <1> QED BY <1>2, <1>3, <1>4

\* The inductive invariant of the table.
CacheInv == CacheTypeOK /\ TimeInv /\ OneSlot

\* An empty table.
LEMMA CacheStart == CacheInit => CacheInv
  <1> SUFFICES ASSUME CacheInit PROVE CacheInv
    OBVIOUS
  <1>1. Free \in Entries /\ ~Free.used
    BY SizeAssumption, WindowAssumption DEF Free, Entries
  <1>2. table \in [Slots -> Entries] /\ \A i \in Slots : ~table[i].used
    BY <1>1 DEF CacheInit
  <1>3. /\ now = StartMs /\ now \in Nat /\ last \in [Hashes -> {Never}]
        /\ call \in [Tasks -> {NoCall}] /\ answer = NoCall
    BY TimeAssumption DEF CacheInit
  <1>4. CacheTypeOK
    BY <1>2, <1>3 DEF CacheTypeOK, Entries, Times
  <1>5. TimeInv /\ OneSlot
    BY <1>2, <1>3 DEF TimeInv, OneSlot
  <1> QED BY <1>4, <1>5 DEF CacheInv

\* A critical section leaves every hash in one slot, with the time of its last record.
LEMMA BodyKeeps ==
  ASSUME CacheInv, NEW t \in Tasks, Body(t) PROVE CacheInv'
  <1>0. CacheTypeOK /\ TimeInv /\ OneSlot /\ call[t] # NoCall
    BY DEF CacheInv, Body
  <1> DEFINE h == call[t].h
             at == call[t].at
  <1>1. h \in Hashes /\ at \in Nat /\ call[t].op \in Ops /\ at \in StartMs..now
    BY <1>0, CallFacts DEF TimeInv
  <1>2. PICK k \in Slots : /\ SlotFor(k, h, at)
                           /\ table' = [table EXCEPT ![k] = [used |-> TRUE, hash |-> h,
                                                             stamp |-> at % ClockMod]]
    BY DEF Body, Insert
  <1>3. /\ UNCHANGED now /\ last' = [last EXCEPT ![h] = at]
        /\ call' = [call EXCEPT ![t] = NoCall]
        /\ answer' = IF call[t].op = "record" THEN NoCall
                     ELSE [op |-> call[t].op, h |-> h, at |-> at, seen |-> IsSeen(h, at)]
    BY DEF Body
  <1> HIDE DEF h, at
  <1>4. /\ table' \in [Slots -> Entries]
        /\ table'[k].used /\ table'[k].hash = h /\ table'[k].stamp = at % ClockMod
        /\ \A j \in Slots : j # k => table'[j] = table[j]
    BY <1>0, <1>1, <1>2, Inserted
  <1>5. /\ last' \in [Hashes -> Times] /\ last'[h] = at
        /\ \A g \in Hashes : g # h => last'[g] = last[g]
    BY <1>0, <1>1, <1>3 DEF CacheTypeOK, Times
  <1>6. /\ call' \in [Tasks -> CallType \cup {NoCall}]
        /\ \A u \in Tasks : call'[u] # NoCall => call'[u] = call[u]
    BY <1>0, <1>3 DEF CacheTypeOK
  <1>7. answer' \in [op : Ops, h : Hashes, at : Nat, seen : BOOLEAN] \cup {NoCall}
    <2>1. IsSeen(h, at) \in BOOLEAN
      BY DEF IsSeen
    <2> HIDE DEF IsSeen
    <2> QED BY <1>1, <1>3, <2>1
  <1>8. CacheTypeOK'
    BY <1>0, <1>3, <1>4, <1>5, <1>6, <1>7 DEF CacheTypeOK, Entries
  <1>9. TimeInv'
    <2>1. \A g \in Hashes : last'[g] # Never => last'[g] \in StartMs..now
      BY <1>0, <1>1, <1>5 DEF TimeInv
    <2>2. \A u \in Tasks : call'[u] # NoCall => call'[u].at \in StartMs..now
      BY <1>0, <1>6 DEF TimeInv
    <2>3. \A i \in Slots : table'[i].used => table'[i].hash \in Hashes
      BY <1>0, <1>1, <1>4 DEF TimeInv
    <2> QED BY <1>0, <1>3, <2>1, <2>2, <2>3 DEF TimeInv
  <1>10. \A j \in Slots : j # k /\ table[j].used => table[j].hash # h
    <2>1. CASE Holds(k, h)
      BY <1>0, <2>1 DEF OneSlot, Holds
    <2>2. CASE ~Holds(k, h)
      BY <1>2, <2>2 DEF SlotFor, Holds
    <2> QED BY <2>1, <2>2
  <1>11. at # Never
    BY <1>1, TimeAssumption
  <1>12. OneSlot'
    <2> SUFFICES ASSUME NEW i \in Slots, table'[i].used
                 PROVE  /\ last'[table'[i].hash] # Never
                        /\ table'[i].stamp = last'[table'[i].hash] % ClockMod
                        /\ \A j \in Slots : table'[j].used /\ table'[j].hash = table'[i].hash => j = i
      BY DEF OneSlot, Holds
    <2>1. CASE i = k
      BY <1>4, <1>5, <1>10, <1>11, <2>1
    <2>2. CASE i # k
      <3>1. /\ table'[i] = table[i] /\ table[i].used /\ table[i].hash \in Hashes
            /\ table[i].hash # h
        BY <1>0, <1>4, <1>10, <2>2 DEF TimeInv
      <3>2. last'[table[i].hash] = last[table[i].hash]
        BY <1>5, <3>1
      <3>3. \A j \in Slots : table'[j].used /\ table'[j].hash = table[i].hash => j = i
        BY <1>0, <1>4, <3>1 DEF OneSlot, Holds
      <3> QED BY <1>0, <3>1, <3>2, <3>3 DEF OneSlot
    <2> QED BY <2>1, <2>2
  <1> QED BY <1>8, <1>9, <1>12 DEF CacheInv

\* Every step keeps the table in order.
LEMMA CacheStep == CacheInv /\ [CacheNext]_cacheVars => CacheInv'
  <1> SUFFICES ASSUME CacheInv, [CacheNext]_cacheVars PROVE CacheInv'
    OBVIOUS
  <1>0. CacheTypeOK /\ TimeInv /\ OneSlot
    BY DEF CacheInv
  <1>1. ASSUME NEW t \in Tasks, NEW op \in Ops, NEW h \in Hashes, Call(t, op, h)
        PROVE  CacheInv'
    <2>1. [op |-> op, h |-> h, at |-> now] \in CallType
      BY <1>0 DEF CacheTypeOK, CallType
    <2>2. /\ UNCHANGED <<table, now, last>> /\ answer' = NoCall
          /\ call' = [call EXCEPT ![t] = [op |-> op, h |-> h, at |-> now]]
      BY <1>1 DEF Call
    <2>3. /\ call' \in [Tasks -> CallType \cup {NoCall}] /\ call'[t].at = now
          /\ \A u \in Tasks : u # t => call'[u] = call[u]
      BY <1>0, <2>1, <2>2 DEF CacheTypeOK
    <2>4. CacheTypeOK'
      BY <1>0, <2>2, <2>3 DEF CacheTypeOK
    <2>5. now \in StartMs..now
      BY <1>0, TimeAssumption DEF TimeInv, CacheTypeOK
    <2>6. TimeInv'
      BY <1>0, <2>2, <2>3, <2>5 DEF TimeInv
    <2>7. OneSlot'
      BY <1>0, <2>2 DEF OneSlot, Holds
    <2> QED BY <2>4, <2>6, <2>7 DEF CacheInv
  <1>2. ASSUME NEW t \in Tasks, Body(t) PROVE CacheInv'
    BY <1>2, BodyKeeps
  <1>3. CASE Tick
    <2>1. UNCHANGED <<table, call, last, answer>> /\ now' = now + 1 /\ now < MaxNow /\ now \in Nat
      BY <1>0, <1>3 DEF Tick, CacheTypeOK
    <2>2. CacheTypeOK' /\ OneSlot'
      BY <1>0, <2>1 DEF CacheTypeOK, OneSlot, Holds
    <2>3. \A x \in StartMs..now : x \in StartMs..now'
      BY <2>1, TimeAssumption
    <2>4. now' >= StartMs /\ now' <= MaxNow
      BY <1>0, <2>1, TimeAssumption DEF TimeInv
    <2>5. TimeInv'
      BY <1>0, <2>1, <2>3, <2>4 DEF TimeInv
    <2> QED BY <2>2, <2>5 DEF CacheInv
  <1>4. CASE UNCHANGED cacheVars
    BY <1>0, <1>4 DEF cacheVars, CacheInv, CacheTypeOK, TimeInv, OneSlot, Holds
  <1> QED BY <1>1, <1>2, <1>3, <1>4 DEF CacheNext

\* For any number of tasks and any length of time, a hash occupies one slot, stamped with
\* the millis() of its last record; insert refreshes it in place.
THEOREM HashOnce == CacheSpec => []OneSlot
  <1>1. CacheInv => OneSlot
    BY DEF CacheInv
  <1> QED BY <1>1, CacheStart, CacheStep, PTL DEF CacheSpec

-----------------------------------------------------------------------------
(* What the guard answers *)

\* Within a lap, an entry's age is the time since its hash was last recorded.
LEMMA AgeOf ==
  ASSUME CacheInv, WithinLap, NEW i \in Slots, table[i].used, NEW at \in StartMs..now,
         last[table[i].hash] <= at
  PROVE  Age(i, at) = at - last[table[i].hash]
  <1> DEFINE l == last[table[i].hash]
  <1>1. /\ l \in StartMs..now /\ table[i].stamp = l % ClockMod
    BY DEF CacheInv, TimeInv, OneSlot
  <1>2. /\ now \in Nat /\ StartMs \in Nat /\ MaxNow \in Nat /\ ClockMod \in Nat \ {0}
        /\ now = StartMs \/ now <= MaxNow
    BY SizeAssumption, WindowAssumption, TimeAssumption DEF CacheInv, CacheTypeOK, TimeInv
  <1>3. Age(i, at) = (at - (l % ClockMod)) % ClockMod /\ l <= at
    BY <1>1 DEF Age
  <1> HIDE DEF l
  <1>4. l \in Int /\ at \in Int /\ at - l < ClockMod
    BY <1>1, <1>2 DEF WithinLap
  <1>5. (at - (l % ClockMod)) % ClockMod = at - l
    BY <1>2, <1>3, <1>4, TrueAge
  <1> QED BY <1>3, <1>5 DEF l

\* An answer comes from the critical section of a call.
LEMMA Answered ==
  ASSUME CacheInv, [CacheNext]_cacheVars, answer' # answer, answer' # NoCall
  PROVE  \E t \in Tasks :
           /\ Body(t) /\ call[t] # NoCall
           /\ answer'.h = call[t].h /\ answer'.at = call[t].at
           /\ answer'.seen = IsSeen(call[t].h, call[t].at)
  <1>1. PICK t \in Tasks : Body(t)
    BY DEF CacheNext, Call, Tick, cacheVars
  <1> DEFINE h == call[t].h
             at == call[t].at
             s == IsSeen(h, at)
             op == call[t].op
  <1>2. answer' = [op |-> op, h |-> h, at |-> at, seen |-> s]
    BY <1>1 DEF Body
  <1> HIDE DEF h, at, s, op
  <1>3. answer'.h = h /\ answer'.at = at /\ answer'.seen = s
    BY <1>2
  <1>4. call[t] # NoCall
    BY <1>1 DEF Body
  <1> QED BY <1>1, <1>3, <1>4 DEF h, at, s

\* Within a lap, and for any number of callers, a packet is dropped as a duplicate only if
\* its hash was recorded less than the window before.  Past a lap it is false: an entry a
\* lap old looks new.
THEOREM NothingNewDropped == WithinLap => (CacheSpec => NoFalseDrop)
  <1> SUFFICES ASSUME WithinLap PROVE CacheSpec => NoFalseDrop
    OBVIOUS
  <1> DEFINE A == answer' # answer /\ answer' # NoCall /\ answer'.seen =>
                    /\ last[answer'.h] # Never
                    /\ answer'.at - last[answer'.h] < TTL
  <1>1. CacheInv /\ [CacheNext]_cacheVars => A
    <2> SUFFICES ASSUME CacheInv, [CacheNext]_cacheVars, answer' # answer, answer' # NoCall,
                        answer'.seen
                 PROVE  last[answer'.h] # Never /\ answer'.at - last[answer'.h] < TTL
      OBVIOUS
    <2>1. PICK t \in Tasks :
            /\ Body(t) /\ call[t] # NoCall
            /\ answer'.h = call[t].h /\ answer'.at = call[t].at
            /\ answer'.seen = IsSeen(call[t].h, call[t].at)
      BY Answered
    <2> DEFINE h == call[t].h
               at == call[t].at
    <2>2. h \in Hashes /\ at \in StartMs..now
      BY <2>1, CallFacts DEF CacheInv, TimeInv
    <2>3. PICK i \in Slots : table[i].used /\ table[i].hash = h /\ Age(i, at) < TTL
      BY <2>1 DEF IsSeen, Holds, Live
    <2> HIDE DEF h, at
    <2>4. last[h] # Never /\ last[h] \in StartMs..now
      BY <2>2, <2>3 DEF CacheInv, OneSlot, TimeInv
    <2>5. now \in Nat /\ StartMs \in Nat /\ TTL \in Nat
      BY SizeAssumption, TimeAssumption DEF CacheInv, CacheTypeOK
    <2>6. CASE last[h] <= at
      BY <2>2, <2>3, <2>6, AgeOf, <2>4, <2>1 DEF h, at
    <2>7. CASE ~(last[h] <= at)
      <3>1. at - last[h] < TTL
        BY <2>2, <2>4, <2>5, <2>7
      <3> QED BY <2>1, <2>4, <3>1 DEF h, at
    <2> QED BY <2>6, <2>7
  <1> HIDE DEF A
  <1>2. CacheInv /\ [CacheNext]_cacheVars => [A]_cacheVars
    BY <1>1
  <1>3. CacheSpec => [][A]_cacheVars
    BY <1>2, CacheStart, CacheStep, PTL DEF CacheSpec
  <1> QED BY <1>3 DEF NoFalseDrop, A

-----------------------------------------------------------------------------
(* What the guard forgets *)

\* With what it has forgotten.
GuardInv == CacheInv /\ CallerInv /\ EvictInv

\* Fewer hashes are not more.
LEMMA SinceGrows ==
  ASSUME NEW S \in SUBSET Hashes, NEW T \in SUBSET Hashes, S \subseteq T, Cardinality(S) >= N
  PROVE  Cardinality(T) >= N
  <1>1. IsFiniteSet(T) /\ IsFiniteSet(S)
    BY HashAssumption, FS_Subset
  <1>2. Cardinality(S) <= Cardinality(T)
    BY <1>1, FS_Subset
  <1>3. Cardinality(S) \in Nat /\ Cardinality(T) \in Nat
    BY <1>1, FS_CardinalityType
  <1> QED BY <1>2, <1>3, SizeAssumption

\* A table full of other hashes.
LEMMA FullTable ==
  ASSUME NEW S \in SUBSET Hashes, NEW f \in [Slots -> S],
         \A i, j \in Slots : f[i] = f[j] => i = j
  PROVE  Cardinality(S) >= N
  <1>1. IsFiniteSet(S)
    BY HashAssumption, FS_Subset
  <1>2. f \in Injection(Slots, S)
    BY DEF Injection, IsInjective
  <1>3. Cardinality(Slots) <= Cardinality(S)
    BY <1>1, <1>2, FS_Injection
  <1>4. Cardinality(Slots) = N
    BY SizeAssumption, FS_Interval DEF Slots
  <1>5. Cardinality(S) \in Nat
    BY <1>1, FS_CardinalityType
  <1> QED BY <1>3, <1>4, <1>5, SizeAssumption

\* The critical section of the only caller: a hash it takes out of the table has left its
\* window or was the oldest of a full table.
LEMMA BodyEvicts ==
  ASSUME WithinLap, OneCaller, GuardInv, NEW t \in Tasks, Body(t), CacheInv'
  PROVE  CallerInv' /\ EvictInv'
  <1>0. CacheInv /\ CacheTypeOK /\ TimeInv /\ OneSlot /\ CallerInv /\ EvictInv /\ call[t] # NoCall
    BY DEF GuardInv, CacheInv, Body
  <1> DEFINE h == call[t].h
             at == call[t].at
  <1>1. /\ h \in Hashes /\ at \in StartMs..now /\ now \in Nat /\ StartMs \in Nat /\ TTL \in Nat
        /\ N \in Nat /\ at \in Nat
    BY <1>0, CallFacts, SizeAssumption, TimeAssumption DEF TimeInv, CacheTypeOK
  <1>2. PICK k \in Slots : /\ SlotFor(k, h, at)
                           /\ table' = [table EXCEPT ![k] = [used |-> TRUE, hash |-> h,
                                                             stamp |-> at % ClockMod]]
    BY DEF Body, Insert
  <1>3. /\ UNCHANGED now /\ last' = [last EXCEPT ![h] = at]
        /\ call' = [call EXCEPT ![t] = NoCall]
    BY DEF Body
  <1>4. \A g \in Hashes : last[g] # Never => last[g] \in StartMs..now /\ last[g] <= at
    BY <1>0 DEF TimeInv, CallerInv
  <1> HIDE DEF h, at
  <1>5. /\ table'[k].used /\ table'[k].hash = h
        /\ \A j \in Slots : j # k => table'[j] = table[j]
    BY <1>0, <1>1, <1>2, Inserted
  <1>6. last'[h] = at /\ \A g \in Hashes : g # h => last'[g] = last[g]
    BY <1>0, <1>1, <1>3 DEF CacheTypeOK
  <1>7. \A u \in Tasks : call'[u] = NoCall
    BY <1>0, <1>3 DEF CacheTypeOK, OneCaller
  <1>8. CallerInv'
    BY <1>7 DEF CallerInv
  <1>9. ASSUME NEW g \in Hashes, last'[g] # Never, \A i \in Slots : ~Holds(i, g)'
        PROVE  Cardinality(Since(g)') >= N \/ now - last'[g] >= TTL
    <2>1. g # h
      BY <1>5, <1>9 DEF Holds
    <2>2. last'[g] = last[g] /\ last[g] # Never /\ last[g] \in StartMs..now /\ last[g] <= at
      BY <1>4, <1>6, <1>9, <2>1
    <2>3. at # Never /\ last[g] \in Nat
      BY <1>1, <2>2, TimeAssumption
    <2>4. CASE \A i \in Slots : ~Holds(i, g)
      <3>1. \/ Cardinality(Since(g)) >= N
            \/ now - last[g] >= TTL
        BY <1>0, <2>2, <2>4 DEF EvictInv
      <3>2. Since(g) \subseteq Since(g)'
        <4> SUFFICES ASSUME NEW x \in Hashes, x # g, last[x] # Never, last[x] >= last[g]
                     PROVE  last'[x] # Never /\ last'[x] >= last'[g]
          BY DEF Since
        <4> QED BY <1>6, <2>2, <2>3
      <3>3. Since(g) \in SUBSET Hashes /\ Since(g)' \in SUBSET Hashes
        BY DEF Since
      <3>4. Cardinality(Since(g)) >= N => Cardinality(Since(g)') >= N
        BY <3>2, <3>3, SinceGrows
      <3> QED BY <2>2, <3>1, <3>4
    <2>5. ASSUME NEW i \in Slots, Holds(i, g)
          PROVE  Cardinality(Since(g)') >= N \/ now - last'[g] >= TTL
      <3>1. i = k /\ table[k].used /\ table[k].hash = g
        BY <1>5, <1>9, <2>5 DEF Holds
      <3>2. ~Holds(k, h)
        BY <2>1, <3>1 DEF Holds
      <3>3. Age(k, at) = at - last[g]
        BY <1>0, <1>1, <2>2, <3>1, AgeOf
      <3>4. CASE k \in Reusable(at)
        <4>1. ~(at - last[g] < TTL)
          BY <3>1, <3>3, <3>4 DEF Reusable, Live
        <4>2. now - last[g] >= TTL
          BY <1>1, <2>2, <2>3, <4>1
        <4> QED BY <2>2, <4>2
      <3>5. CASE k \notin Reusable(at)
        <4>1. Reusable(at) = {} /\ \A j \in Slots : Age(j, at) <= Age(k, at)
          BY <1>2, <3>2, <3>5 DEF SlotFor, Victim
        <4>2. \A j \in Slots : table[j].used
          BY <4>1 DEF Reusable
        <4>3. ASSUME NEW j \in Slots, j # k
              PROVE  /\ table[j].hash \in Hashes \ {g} /\ last[table[j].hash] # Never
                     /\ last[table[j].hash] >= last[g]
          <5>1. table[j].hash \in Hashes /\ last[table[j].hash] # Never
            BY <1>0, <4>2 DEF TimeInv, OneSlot
          <5>2. table[j].hash # g
            BY <1>0, <3>1, <4>2, <4>3 DEF OneSlot, Holds
          <5>3. last[table[j].hash] \in StartMs..now /\ last[table[j].hash] <= at
            BY <1>4, <5>1
          <5>4. Age(j, at) = at - last[table[j].hash]
            BY <1>0, <1>1, <4>2, <5>3, AgeOf
          <5>5. at - last[table[j].hash] <= at - last[g]
            BY <3>3, <4>1, <5>4
          <5>6. last[table[j].hash] >= last[g]
            BY <1>1, <2>3, <5>3, <5>5
          <5> QED BY <5>1, <5>2, <5>6
        <4> DEFINE f == [j \in Slots |-> table'[j].hash]
        <4>4. ASSUME NEW j \in Slots PROVE table'[j].hash \in Since(g)' /\ table'[j].used
          <5>1. CASE j = k
            BY <1>1, <1>5, <1>6, <2>1, <2>2, <2>3, <5>1 DEF Since
          <5>2. CASE j # k
            <6>1. table'[j] = table[j] /\ table[j].hash \in Hashes \ {g}
              BY <1>5, <4>3, <5>2
            <6>2. last'[table[j].hash] # Never /\ last'[table[j].hash] >= last'[g]
              BY <1>6, <2>2, <2>3, <4>3, <5>2
            <6> QED BY <4>2, <6>1, <6>2 DEF Since
          <5> QED BY <5>1, <5>2
        <4>5. f \in [Slots -> Since(g)']
          BY <4>4
        <4>6. \A x, y \in Slots : f[x] = f[y] => x = y
          <5>1. \A x, y \in Slots : table'[x].hash = table'[y].hash => x = y
            BY <4>4 DEF CacheInv, OneSlot, Holds
          <5> QED BY <5>1
        <4>7. Since(g)' \in SUBSET Hashes
          BY DEF Since
        <4> HIDE DEF f
        <4> QED BY <4>5, <4>6, <4>7, FullTable
      <3> QED BY <3>4, <3>5
    <2> QED BY <2>4, <2>5
  <1>10. EvictInv'
    BY <1>3, <1>7, <1>9 DEF EvictInv
  <1> QED BY <1>8, <1>10

\* Every step keeps the reason why a recorded hash is not in the table.
LEMMA GuardStep ==
  WithinLap /\ OneCaller /\ GuardInv /\ [CacheNext]_cacheVars => GuardInv'
  <1> SUFFICES ASSUME WithinLap, OneCaller, GuardInv, [CacheNext]_cacheVars PROVE GuardInv'
    OBVIOUS
  <1>0. CacheInv /\ CacheTypeOK /\ TimeInv /\ CallerInv /\ EvictInv /\ CacheInv'
    BY CacheStep DEF GuardInv, CacheInv
  <1>1. ASSUME NEW t \in Tasks, NEW op \in Ops, NEW h \in Hashes, Call(t, op, h)
        PROVE  GuardInv'
    <2>1. UNCHANGED <<table, now, last>>
      BY <1>1 DEF Call
    <2>2. \A u \in Tasks : call'[u] # NoCall => call'[u].at = now
      BY <1>0, <1>1 DEF Call, CacheTypeOK, OneCaller
    <2>3. \A g \in Hashes : last[g] # Never => last[g] <= now
      BY <1>0, TimeAssumption DEF TimeInv, CacheTypeOK
    <2>4. CallerInv'
      BY <2>1, <2>2, <2>3 DEF CallerInv
    <2>5. EvictInv'
      BY <1>0, <2>1, <2>2 DEF EvictInv, Since, Holds
    <2> QED BY <1>0, <2>4, <2>5 DEF GuardInv
  <1>2. ASSUME NEW t \in Tasks, Body(t) PROVE GuardInv'
    BY <1>0, <1>2, BodyEvicts DEF GuardInv
  <1>3. CASE Tick
    <2>1. UNCHANGED <<table, call, last>> /\ now' = now + 1 /\ now \in Nat
      BY <1>0, <1>3 DEF Tick, CacheTypeOK
    <2>2. CallerInv'
      BY <1>0, <2>1 DEF CallerInv
    <2>3. ASSUME NEW h \in Hashes, last[h] # Never PROVE last[h] \in Nat
      BY <1>0, <2>3, TimeAssumption DEF CacheTypeOK, Times
    <2>4. EvictInv'
      <3> SUFFICES ASSUME NEW h \in Hashes, last[h] # Never, \A i \in Slots : ~Holds(i, h)
                   PROVE  \/ Cardinality(Since(h)) >= N
                          \/ /\ now' - last[h] >= TTL
                             /\ \A t \in Tasks : call[t] # NoCall => call[t].at - last[h] >= TTL
        BY <2>1 DEF EvictInv, Since, Holds
      <3>1. \/ Cardinality(Since(h)) >= N
            \/ /\ now - last[h] >= TTL
               /\ \A t \in Tasks : call[t] # NoCall => call[t].at - last[h] >= TTL
        BY <1>0 DEF EvictInv
      <3>2. now - last[h] >= TTL => now' - last[h] >= TTL
        BY <2>1, <2>3, SizeAssumption
      <3> QED BY <3>1, <3>2
    <2> QED BY <1>0, <2>2, <2>4 DEF GuardInv
  <1>4. CASE UNCHANGED cacheVars
    BY <1>0, <1>4 DEF cacheVars, GuardInv, CallerInv, EvictInv, Since, Holds
  <1> QED BY <1>1, <1>2, <1>3, <1>4 DEF CacheNext

\* Within a lap and with one caller at a time, a hash recorded less than the window before is
\* recognised unless N other hashes were recorded since.  With two callers it is false: one
\* that read millis() before the other's record takes the new entry for an old one.
THEOREM DuplicatesCaught == WithinLap /\ OneCaller => (CacheSpec => CatchesDuplicate)
  <1> SUFFICES ASSUME WithinLap, OneCaller PROVE CacheSpec => CatchesDuplicate
    OBVIOUS
  <1> DEFINE A == answer' # answer /\ answer' # NoCall /\ ~answer'.seen =>
                    \/ last[answer'.h] = Never
                    \/ answer'.at - last[answer'.h] >= TTL
                    \/ Cardinality(Since(answer'.h)) >= N
  <1>1. GuardInv /\ [CacheNext]_cacheVars => A
    <2> SUFFICES ASSUME GuardInv, [CacheNext]_cacheVars, answer' # answer, answer' # NoCall,
                        ~answer'.seen, last[answer'.h] # Never
                 PROVE  \/ answer'.at - last[answer'.h] >= TTL
                        \/ Cardinality(Since(answer'.h)) >= N
      OBVIOUS
    <2>0. CacheInv /\ CallerInv /\ EvictInv
      BY DEF GuardInv
    <2>1. PICK t \in Tasks :
            /\ Body(t) /\ call[t] # NoCall
            /\ answer'.h = call[t].h /\ answer'.at = call[t].at
            /\ answer'.seen = IsSeen(call[t].h, call[t].at)
      BY <2>0, Answered
    <2> DEFINE h == call[t].h
               at == call[t].at
    <2>2. h \in Hashes /\ at \in StartMs..now /\ last[h] # Never /\ last[h] <= at
      BY <2>0, <2>1, CallFacts DEF CacheInv, TimeInv, CallerInv
    <2>3. CASE \A i \in Slots : ~Holds(i, h)
      BY <2>0, <2>1, <2>2, <2>3 DEF EvictInv
    <2>4. ASSUME NEW i \in Slots, Holds(i, h) PROVE at - last[h] >= TTL
      <3>1. ~(Age(i, at) < TTL)
        BY <2>1, <2>4 DEF IsSeen, Live
      <3>2. table[i].used /\ table[i].hash = h
        BY <2>4 DEF Holds
      <3>3. Age(i, at) = at - last[h]
        BY <2>0, <2>2, <3>2, AgeOf
      <3>4. at \in Int /\ last[h] \in Int /\ TTL \in Int
        BY <2>0, <2>2, SizeAssumption, TimeAssumption DEF CacheInv, TimeInv, CacheTypeOK
      <3> QED BY <3>1, <3>3, <3>4
    <2> QED BY <2>1, <2>3, <2>4
  <1>2. CacheInit => GuardInv
    <2> SUFFICES ASSUME CacheInit PROVE CallerInv /\ EvictInv
      BY CacheStart DEF GuardInv
    <2> QED BY DEF CacheInit, CallerInv, EvictInv
  <1>3. GuardInv /\ [CacheNext]_cacheVars => GuardInv'
    BY GuardStep
  <1> HIDE DEF A
  <1>4. GuardInv /\ [CacheNext]_cacheVars => [A]_cacheVars
    BY <1>1
  <1>5. CacheSpec => [][A]_cacheVars
    BY <1>2, <1>3, <1>4, PTL DEF CacheSpec
  <1> QED BY <1>5 DEF CatchesDuplicate, A

-----------------------------------------------------------------------------
(* The forwarding core *)

\* A sequence, of whatever elements.
IsSeq(s) == s \in Seq({s[k] : k \in 1..Len(s)})

\* What clients do not send: the bodies that the bridge composes (a name it puts before a
\* text, a fragment, a summary, an uplink of its own) ...
Marked(b) == b.who[1] \in {"short", "hex"} \/ b.text[1] \in {"frag", "summary", "abp"}

\* ... and the packet ids it draws.  Two clients' packets have different hashes.
Distinct(c) ==
  \A o \in DOMAIN c.clients : LET p == c.clients[o].pkt IN
    /\ IF p.proto = "MT" THEN p.pid # NoPid /\ p.pid[1] \notin {"own", "fcnt"}
       ELSE ~Marked(p.body)
    /\ \A u \in DOMAIN c.clients : Hash(c.clients[u].pkt) = Hash(p) => u = o

\* A bridge that sends uplinks of its own does not forward what it hears on LoRaWAN.
NoRelay(c) ==
  c.keyed = {} \/ \A i \in DOMAIN c.radio : c.radio[i].proto = "LW" => c.route[i] = {}

\* No two radios on one frequency.
Apart(c) == \A i, j \in DOMAIN c.radio : c.radio[i].freq = c.radio[j].freq => i = j

\* The form of a packet.
Packet(p) ==
  /\ DOMAIN p = PacketFields /\ DOMAIN p.body = {"who", "text"} /\ p.hop \in Nat
  /\ p.org \in Origins /\ p.part \in Parts /\ p.by \in {"client", "bridge"}

Work(i) == job[i][1]
Busy(i) == job[i] # <<>>
Forwarded == {p.org : p \in accepted}

\* An uplink of the bridge's own, which the guard does not know.
Uplink(p) == p.proto = "LW" /\ p.body.text[1] = "abp" /\ Keyed # {}

\* Every hash that has been recorded.
Told == seen \cup lost

\* p's hash has been recorded, or p does not reach the guard, or p is an uplink.
Remembered(p) == p.kind = "nodeinfo" \/ Hash(p) \in Told \/ Uplink(p)

\* A client's packet, perhaps with fewer hops.
Copy(p) == p.by = "client" /\ Hash(p) = Hash(Clients[p.org].pkt)

\* A packet of the bridge.
Ours(p) == p.by = "bridge" /\ Packet(p) /\ Remembered(p) /\ p.org \in Forwarded

\* What has been on the air on a frequency was sent there by a client or by the bridge.
AirInv ==
  \A f \in Freqs : \A p \in ether[f] :
    Packet(p) /\ (Ours(p) \/ (Copy(p) /\ f = Clients[p.org].freq))

\* What is queued is the bridge's, and was recorded.
QueueInv == \A j \in Radios : IsSeq(q[j]) /\ \A k \in 1..Len(q[j]) : Ours(q[j][k])

\* Radio i has heard p and asks, or is about to ask, the guard.
Heard(i, p) ==
  /\ Packet(p) /\ p.kind # "nodeinfo" /\ p.proto = Radio[i].proto
  /\ Ours(p) \/ (Copy(p) /\ Clients[p.org].freq = Radio[i].freq)

\* Radio i hands on w.pkt: a packet the guard has recorded, a client's or an uplink, or one
\* that slipped through.
Handing(i, w) ==
  /\ Packet(w.pkt) /\ w.pkt \in accepted /\ w.pkt.proto = Radio[i].proto
  /\ Hash(w.pkt) \in Told /\ w.at \in Nat \ {0}
  /\ \/ Copy(w.pkt) /\ Clients[w.pkt.org].freq = Radio[i].freq
     \/ w.pkt.by = "bridge" /\ Uplink(w.pkt)
     \/ w.pkt \in slipped

\* e is one of its re-encodings: recorded, or to be recorded before the push.
Left(i, w, e) ==
  /\ e.dst \in Route[i] /\ e.dst < w.at
  /\ Packet(e.pkt) /\ e.pkt.by = "bridge" /\ e.pkt.org = w.pkt.org
  /\ Remembered(e.pkt) \/ Hash(e.pkt) \in e.rec

Working(i, w) ==
  Handing(i, w) /\ IsSeq(w.out) /\ \A k \in 1..Len(w.out) : Left(i, w, w.out[k])

\* Radio i waits for the guard's answer, or hands on.
Doing(i, w) == IF w.at = 0 THEN Heard(i, w.pkt) /\ w.out = <<>> ELSE Working(i, w)

\* What a task hands on passed the guard, and what it has still to queue is made of it.
HandInv == \A i \in Radios : Busy(i) => Doing(i, Work(i))

\* The shape of the variables.
ShapeInv ==
  /\ plan \in Plans /\ DOMAIN ether = Freqs /\ DOMAIN job = Radios /\ DOMAIN q = Radios
  /\ built \in Nat

\* The inductive invariant of the forwarding core.
BridgeInv == ShapeInv /\ AirInv /\ QueueInv /\ HandInv

\* Radio i hands a packet on.
Handed(i) == Busy(i) /\ Work(i).at # 0

\* A client's packet, of a message of which nothing slipped through.
Counted(p) == Copy(p) /\ p.org \notin Slipped

\* What radio i has still to queue of a client's message was not queued, and has no part twice.
Unsent(i, w) ==
  Counted(w.pkt) =>
    /\ \A j \in Radios, k \in Parts : j >= w.at => queued[<<w.pkt.org, j, k>>] = 0
    /\ \A k \in 1..Len(w.out) : w.out[k].pkt.kind # "nodeinfo" =>
         /\ queued[<<w.pkt.org, w.out[k].dst, w.out[k].pkt.part>>] = 0
         /\ \A m \in 1..Len(w.out) :
              w.out[m].pkt.kind # "nodeinfo" /\ w.out[m].pkt.part = w.out[k].pkt.part => m = k

\* Unless something slipped through, one task hands a client's message on, after the guard
\* recorded it.
CountInv ==
  /\ queued \in [Origins \X Radios \X Parts -> Nat] /\ AtMostOnce
  /\ \A i, u \in Radios :
       Handed(i) /\ Handed(u) /\ Counted(Work(i).pkt) /\ Counted(Work(u).pkt)
         /\ Work(i).pkt.org = Work(u).pkt.org => i = u
  /\ \A o \in Origins : Hash(Clients[o].pkt) \notin Told /\ o \notin Slipped =>
       \A j \in Radios, k \in Parts : queued[<<o, j, k>>] = 0
  /\ \A i \in Radios : Handed(i) => Unsent(i, Work(i))

\* The clients' packets with hash s have been forwarded.
Known(s) == \A o \in Origins : Hash(Clients[o].pkt) = s => o \in Forwarded

\* A hash that is or was in the guard, or is about to be, and that a client's packet has is
\* that packet's.
SeenInv ==
  /\ \A s \in Told : Known(s)
  /\ \A i \in Radios : \A s \in late[i] : Known(s)
  /\ \A i \in Radios : Busy(i) =>
       \A k \in 1..Len(Work(i).out) : \A s \in Work(i).out[k].rec : Known(s)

-----------------------------------------------------------------------------
(* What is built for a destination *)

\* A hash that may be recorded for an emission made from p: p's own, or one that no client's
\* packet has.
Own(p, s) ==
  \/ s = Hash(p)
  \/ s[3][1] \in {"own", "fcnt"}
  \/ s[3] = NoPid /\ Marked(s[1])

\* e is a packet of the bridge made from p, with the hashes to record before its push.
Emitted(p, e) ==
  /\ Packet(e.pkt) /\ e.pkt.by = "bridge" /\ e.pkt.org = p.org
  /\ \/ e.pkt.kind = "nodeinfo" \/ Hash(e.pkt) \in e.rec
     \/ Hash(e.pkt) = Hash(p) \/ Uplink(e.pkt)
  /\ \A s \in e.rec : Own(p, s)

\* A sequence of such packets in which no part comes twice.
Fine(p, o) ==
  /\ IsSeq(o) /\ Len(o) \in Nat
  /\ \A k \in 1..Len(o) : Emitted(p, o[k])
  /\ \A k, m \in 1..Len(o) :
       o[k].pkt.kind # "nodeinfo" /\ o[m].pkt.kind # "nodeinfo" /\ o[k].pkt.part = o[m].pkt.part
         => k = m

\* Nothing.
LEMMA FineNone == ASSUME NEW p PROVE Fine(p, <<>>)
  BY DEF Fine, IsSeq

\* One packet.
LEMMA FineOne ==
  ASSUME NEW p, NEW e, NEW r, Emitted(p, [pkt |-> e, rec |-> r])
  PROVE  Fine(p, Emission(e, r))
  <1> DEFINE x == [pkt |-> e, rec |-> r]
             o == Emission(e, r)
  <1>1. o = <<x>>
    BY DEF Emission
  <1> HIDE DEF o, x
  <1>2. Len(o) = 1 /\ o[1] = x
    BY <1>1
  <1>3. IsSeq(o)
    BY <1>1, <1>2 DEF IsSeq
  <1>4. \A k \in 1..Len(o) : k = 1
    BY <1>2
  <1>5. Emitted(p, o[1])
    BY <1>2 DEF x
  <1> QED BY <1>2, <1>3, <1>4, <1>5 DEF Fine, o

\* A NodeInfo and a packet.
LEMMA FineTwo ==
  ASSUME NEW p, NEW e, NEW r, Emitted(p, [pkt |-> e, rec |-> r]),
         NEW d, NEW s, Emitted(p, [pkt |-> d, rec |-> s]), d.kind = "nodeinfo"
  PROVE  Fine(p, Emission(d, s) \o Emission(e, r))
  <1> DEFINE x == [pkt |-> e, rec |-> r]
             y == [pkt |-> d, rec |-> s]
             o == Emission(d, s) \o Emission(e, r)
  <1>0. y.pkt.kind = "nodeinfo"
    OBVIOUS
  <1>1. o = <<y>> \o <<x>>
    BY DEF Emission
  <1> HIDE DEF o, x, y
  <1>2. <<y>> \in Seq({x, y}) /\ <<x>> \in Seq({x, y}) /\ Len(<<y>>) = 1 /\ Len(<<x>>) = 1
    OBVIOUS
  <1>3. Len(o) = 2 /\ o[1] = y /\ o[2] = x /\ o \in Seq({x, y})
    <2>1. o \in Seq({x, y}) /\ Len(o) = 2
      BY <1>1, <1>2
    <2>2. \A k \in 1..Len(o) : o[k] = IF k <= Len(<<y>>) THEN <<y>>[k] ELSE <<x>>[k - Len(<<y>>)]
      <3>1. <<y>> \in Seq({x, y}) /\ <<x>> \in Seq({x, y})
        BY <1>2
      <3> QED BY <1>1, <3>1, <2>1, ConcatProperties
    <2>3. 1 \in 1..Len(o) /\ 2 \in 1..Len(o)
      BY <2>1
    <2>4. o[1] = <<y>>[1] /\ o[2] = <<x>>[1]
      BY <1>2, <2>2, <2>3
    <2> QED BY <2>1, <2>4
  <1>4. IsSeq(o)
    <2>1. {x, y} = {o[k] : k \in 1..Len(o)}
      BY <1>3
    <2> QED BY <1>3, <2>1 DEF IsSeq
  <1>5. \A k \in 1..Len(o) : k = 1 \/ k = 2
    BY <1>3
  <1>6. Emitted(p, o[1]) /\ Emitted(p, o[2])
    BY <1>3 DEF x, y
  <1> QED BY <1>0, <1>3, <1>4, <1>5, <1>6 DEF Fine, o

\* The hash does not depend on the hops.
LEMMA Relayed ==
  ASSUME NEW p, Packet(p), NEW h \in Nat
  PROVE  LET e == [p EXCEPT !.by = "bridge", !.hop = h] IN
         Packet(e) /\ e.by = "bridge" /\ e.org = p.org /\ Hash(e) = Hash(p) /\ e.kind = p.kind
  BY DEF Packet, PacketFields, Hash

\* rawRepeatForDest
LEMMA FineRaw ==
  ASSUME NEW p, Packet(p), NEW j \in Radios PROVE Fine(p, RawRepeat(p, j))
  <1>1. ASSUME NEW h \in Nat PROVE Fine(p, Emission([p EXCEPT !.by = "bridge", !.hop = h], {}))
    <2> DEFINE e == [p EXCEPT !.by = "bridge", !.hop = h]
    <2>1. Packet(e) /\ e.by = "bridge" /\ e.org = p.org /\ Hash(e) = Hash(p)
      BY Relayed
    <2> HIDE DEF e
    <2>2. Emitted(p, [pkt |-> e, rec |-> {}])
      BY <2>1 DEF Emitted
    <2>3. Fine(p, Emission(e, {}))
      BY <2>2, FineOne
    <2> QED BY <2>3 DEF e
  <1>2. p.hop \in Nat
    BY DEF Packet
  <1>3. CASE RawRepeat(p, j) = <<>>
    BY <1>3, FineNone
  <1>4. CASE RawRepeat(p, j) = Emission([p EXCEPT !.by = "bridge"], {})
    <2> DEFINE e == [p EXCEPT !.by = "bridge"]
    <2>1. Packet(e) /\ e.by = "bridge" /\ e.org = p.org /\ Hash(e) = Hash(p)
      BY DEF Packet, PacketFields, Hash
    <2> HIDE DEF e
    <2>2. Emitted(p, [pkt |-> e, rec |-> {}])
      BY <2>1 DEF Emitted
    <2>3. Fine(p, Emission(e, {}))
      BY <2>2, FineOne
    <2> QED BY <1>4, <2>3 DEF e
  <1>5. CASE p.hop # 0 /\ RawRepeat(p, j) = Emission([p EXCEPT !.by = "bridge", !.hop = p.hop - 1], {})
    <2>1. p.hop - 1 \in Nat
      BY <1>2, <1>5
    <2> QED BY <1>1, <1>5, <2>1
  <1> QED BY <1>3, <1>4, <1>5 DEF RawRepeat

\* encodeMeshtasticText and encodeMeshCoreGrpTxt: the fields and the hash.
LEMMA Encoded ==
  ASSUME NEW p, Packet(p), NEW j \in Radios, Radio[j].proto \in {"MT", "MC"},
         NEW body, DOMAIN body = {"who", "text"}, NEW src, NEW n
  PROVE  LET e == Encode(p, j, body, src, n) IN
         /\ Packet(e) /\ e.by = "bridge" /\ e.org = p.org /\ e.kind = "text"
         /\ e.proto = Radio[j].proto /\ e.body = body /\ e.src = src /\ e.part = p.part
         /\ Hash(e) = IF Radio[j].proto = "MT" THEN <<body, src, <<"own", n>>>>
                      ELSE <<body, None, NoPid>>
  <1> DEFINE e == Encode(p, j, body, src, n)
  <1>1. /\ DOMAIN e = PacketFields /\ e.by = "bridge" /\ e.org = p.org /\ e.kind = "text"
        /\ e.proto = Radio[j].proto /\ e.body = body /\ e.src = src /\ e.part = p.part
        /\ e.hop = 1
        /\ e.pid = IF Radio[j].proto = "MT" THEN <<"own", n>> ELSE NoPid
    BY DEF Encode, Packet, PacketFields
  <1> HIDE DEF e
  <1>2. Packet(e)
    BY <1>1 DEF Packet
  <1>3. Hash(e) = IF Radio[j].proto = "MT" THEN <<body, src, <<"own", n>>>>
                  ELSE <<body, None, NoPid>>
    BY <1>1 DEF Hash
  <1> QED BY <1>1, <1>2, <1>3 DEF e

\* A re-encoding that is recorded: a Meshtastic one has an id of its own, a MeshCore one a
\* body that is p's or that no client sends.
LEMMA FineEncoded ==
  ASSUME NEW p, Packet(p), NEW j \in Radios, Radio[j].proto \in {"MT", "MC"},
         NEW body, DOMAIN body = {"who", "text"}, NEW src, NEW n,
         \/ Radio[j].proto = "MT" \/ Marked(body)
         \/ <<body, None, NoPid>> = Hash(p)
  PROVE  LET e == Encode(p, j, body, src, n) IN Emitted(p, [pkt |-> e, rec |-> Recorded(e)])
  <1> DEFINE e == Encode(p, j, body, src, n)
  <1>1. /\ Packet(e) /\ e.by = "bridge" /\ e.org = p.org
        /\ Hash(e) = IF Radio[j].proto = "MT" THEN <<body, src, <<"own", n>>>>
                      ELSE <<body, None, NoPid>>
    BY Encoded
  <1> HIDE DEF e
  <1>2. Own(p, Hash(e))
    BY <1>1 DEF Own
  <1>3. Emitted(p, [pkt |-> e, rec |-> Recorded(e)])
    BY <1>1, <1>2 DEF Emitted, Recorded
  <1> QED BY <1>3 DEF e

\* enqueueAbpUplink
LEMMA FineAbp ==
  ASSUME NEW p, Packet(p), NEW n PROVE Fine(p, AbpUplink(p, n))
  <1> DEFINE frame == [who |-> NoName, text |-> <<"abp", n>>]
             e == [p EXCEPT !.proto = "LW", !.chan = "lw", !.kind = "raw", !.body = frame,
                            !.src = None, !.pid = NoPid, !.by = "bridge"]
             s == <<frame, <<"devaddr", "">>, <<"fcnt", n>>>>
  <1>1. CASE p.proto \in Keyed
    <2>1. AbpUplink(p, n) = Emission(e, {s})
      BY <1>1 DEF AbpUplink
    <2>2. /\ DOMAIN e = PacketFields /\ e.by = "bridge" /\ e.org = p.org /\ e.hop = p.hop
          /\ e.part = p.part /\ e.proto = "LW" /\ e.body = frame
      BY DEF Packet, PacketFields
    <2>3. DOMAIN frame = {"who", "text"} /\ frame.text[1] = "abp"
      OBVIOUS
    <2>4. Own(p, s)
      BY DEF Own
    <2> HIDE DEF e, s, frame
    <2>5. Packet(e) /\ Uplink(e)
      BY <1>1, <2>2, <2>3 DEF Packet, Uplink
    <2>6. Emitted(p, [pkt |-> e, rec |-> {s}])
      BY <2>2, <2>4, <2>5 DEF Emitted
    <2> QED BY <2>1, <2>6, FineOne
  <1>2. CASE p.proto \notin Keyed
    BY <1>2, FineNone DEF AbpUplink
  <1> QED BY <1>1, <1>2

\* enqueueVirtualNodeInfo
LEMMA EmittedInfo ==
  ASSUME NEW p, Packet(p), NEW j \in Radios, Radio[j].proto \in {"MT", "MC"}, NEW vid, NEW n
  PROVE  LET e == [Encode(p, j, p.body, vid, n) EXCEPT !.kind = "nodeinfo"] IN
         e.kind = "nodeinfo" /\ Emitted(p, [pkt |-> e, rec |-> {}])
  <1> DEFINE d == Encode(p, j, p.body, vid, n)
             e == [d EXCEPT !.kind = "nodeinfo"]
  <1>1. Packet(d) /\ d.by = "bridge" /\ d.org = p.org
    <2>1. DOMAIN p.body = {"who", "text"}
      BY DEF Packet
    <2> QED BY <2>1, Encoded
  <1> HIDE DEF d
  <1>2. Packet(e) /\ e.by = "bridge" /\ e.org = p.org /\ e.kind = "nodeinfo"
    BY <1>1 DEF Packet, PacketFields
  <1> HIDE DEF e
  <1>3. Emitted(p, [pkt |-> e, rec |-> {}])
    BY <1>2 DEF Emitted
  <1> QED BY <1>2, <1>3 DEF e, d

\* enqueueTextForDest
LEMMA FineText ==
  ASSUME NEW p, Packet(p), NEW j \in Radios, NEW from, NEW n,
         NEW body, DOMAIN body = {"who", "text"},
         \/ from = p.proto /\ body = p.body
         \/ from # "MT" /\ Marked(body)
  PROVE  Fine(p, Text(p, from, body, j, n))
  <1> DEFINE to == Radio[j].proto
             src == IF to = "MT" THEN BridgeId ELSE None
             e1 == Encode(p, j, body, src, n)
             vid == <<"virtual", body.who[2]>>
             b2 == [body EXCEPT !.who = NoName]
             e2 == Encode(p, j, b2, vid, n)
             d2 == [Encode(p, j, p.body, vid, n + 1) EXCEPT !.kind = "nodeinfo"]
             who == IF p.src \in names THEN <<"short", p.src[2]>> ELSE <<"hex", p.src[2]>>
             b3 == [body EXCEPT !.who = who]
             e3 == Encode(p, j, b3, None, n)
  <1>1. CASE to = "LW"
    BY <1>1, FineAbp DEF Text
  <1>2. CASE to \notin {"LW", "MT", "MC"}
    BY <1>2, FineNone DEF Text
  <1>3. CASE \/ to = "MT"
             \/ to = "MC" /\ from # "MT"
    <2>1. Emitted(p, [pkt |-> e1, rec |-> Recorded(e1)])
      <3>1. \/ to = "MT" \/ Marked(body) \/ <<body, None, NoPid>> = Hash(p)
        BY <1>3 DEF Hash
      <3> HIDE DEF src
      <3> QED BY <1>3, <3>1, FineEncoded
    <2>2. Fine(p, Emission(e1, Recorded(e1)))
      BY <2>1, FineOne
    <2>3. CASE ~(to = "MT" /\ from = "MC" /\ body.who # NoName)
      <3>1. Text(p, from, body, j, n) = Emission(e1, Recorded(e1))
        BY <1>3, <2>3 DEF Text
      <3> QED BY <2>2, <3>1
    <2>4. CASE to = "MT" /\ from = "MC" /\ body.who # NoName
      <3>1. DOMAIN b2 = {"who", "text"}
        OBVIOUS
      <3>2. Text(p, from, body, j, n) =
              (IF vid \notin advertised THEN VirtualNodeInfo(p, j, vid, n + 1) ELSE <<>>)
                \o Emission(e2, Recorded(e2))
        BY <2>4 DEF Text
      <3>3. VirtualNodeInfo(p, j, vid, n + 1) = Emission(d2, {})
        BY DEF VirtualNodeInfo
      <3> HIDE DEF b2, vid
      <3>4. Emitted(p, [pkt |-> e2, rec |-> Recorded(e2)])
        BY <2>4, <3>1, FineEncoded
      <3>5. d2.kind = "nodeinfo" /\ Emitted(p, [pkt |-> d2, rec |-> {}])
        BY <2>4, EmittedInfo
      <3> HIDE DEF e2, d2
      <3>6. Fine(p, Emission(d2, {}) \o Emission(e2, Recorded(e2)))
        BY <3>4, <3>5, FineTwo
      <3>7. <<>> \o Emission(e2, Recorded(e2)) = Emission(e2, Recorded(e2))
        BY DEF Emission
      <3>8. Fine(p, Emission(e2, Recorded(e2)))
        BY <3>4, FineOne
      <3> QED BY <3>2, <3>3, <3>6, <3>7, <3>8
    <2> QED BY <2>3, <2>4
  <1>4. CASE to = "MC" /\ from = "MT"
    <2>1. DOMAIN b3 = {"who", "text"} /\ b3.who = who /\ who[1] \in {"short", "hex"}
      OBVIOUS
    <2>2. Text(p, from, body, j, n) = Emission(e3, Recorded(e3))
      BY <1>4 DEF Text
    <2> HIDE DEF b3, who
    <2>3. Emitted(p, [pkt |-> e3, rec |-> Recorded(e3)])
      BY <1>4, <2>1, FineEncoded DEF Marked
    <2> HIDE DEF e3
    <2> QED BY <2>2, <2>3, FineOne
  <1> QED BY <1>1, <1>2, <1>3, <1>4

\* enqueueReticulumForDest: the fragments have different numbers, which stay within the bound.
LEMMA FineFrags ==
  ASSUME plan \in Plans, NEW p, Packet(p), NEW j \in Radios, NEW n
  PROVE  Fine(p, Fragments(p, j, n))
  <1> DEFINE to == Radio[j].proto
             N0 == Frags[to]
             src == IF to = "MT" THEN BridgeId ELSE None
             b(k) == [who |-> NoName, text |-> <<"frag", k, p.body.text>>]
             d(k) == Encode(p, j, b(k), src, n + k)
             e(k) == [d(k) EXCEPT !.part = k]
             o == Fragments(p, j, n)
  <1>1. CASE to \notin {"MT", "MC"} \/ Frags[to] > BRIDGE_RNS_MAX_FRAGS
    BY <1>1, FineNone DEF Fragments
  <1>2. CASE to \in {"MT", "MC"} /\ ~(Frags[to] > BRIDGE_RNS_MAX_FRAGS)
    <2>1. N0 \in Nat /\ BRIDGE_RNS_MAX_FRAGS \in Nat /\ N0 <= BRIDGE_RNS_MAX_FRAGS
      BY <1>2, PlanAssumption DEF Frags
    <2>2. o = [k \in 1..N0 |-> [pkt |-> e(k), rec |-> Recorded(e(k))]]
      BY <1>2 DEF Fragments
    <2>3. ASSUME NEW k \in 1..N0 PROVE Emitted(p, [pkt |-> e(k), rec |-> Recorded(e(k))]) /\ e(k).part = k
      <3> DEFINE bk == b(k)
                 dk == d(k)
                 ek == e(k)
      <3>1. DOMAIN bk = {"who", "text"} /\ bk.text[1] = "frag"
        OBVIOUS
      <3>2. Marked(bk)
        BY <3>1 DEF Marked
      <3>3. k \in Parts
        BY <2>1 DEF Parts
      <3> HIDE DEF bk, src
      <3>4. /\ Packet(dk) /\ dk.by = "bridge" /\ dk.org = p.org
            /\ Hash(dk) = IF to = "MT" THEN <<bk, src, <<"own", n + k>>>> ELSE <<bk, None, NoPid>>
        BY <1>2, <3>1, Encoded DEF bk
      <3>5. ek = [dk EXCEPT !.part = k]
        OBVIOUS
      <3> HIDE DEF dk, ek
      <3>6. Packet(ek) /\ ek.by = "bridge" /\ ek.org = p.org /\ Hash(ek) = Hash(dk) /\ ek.part = k
        BY <3>3, <3>4, <3>5 DEF Packet, PacketFields, Hash
      <3>7. Own(p, Hash(ek))
        BY <3>2, <3>4, <3>6 DEF Own
      <3>8. Emitted(p, [pkt |-> ek, rec |-> Recorded(ek)])
        BY <3>6, <3>7 DEF Emitted, Recorded
      <3> QED BY <3>6, <3>8 DEF ek
    <2> HIDE DEF e, o, N0
    <2>4. Len(o) = N0 /\ \A k \in 1..N0 : o[k] = [pkt |-> e(k), rec |-> Recorded(e(k))]
      BY <2>1, <2>2
    <2>5. IsSeq(o)
      <3> DEFINE S == {o[k] : k \in 1..Len(o)}
      <3>1. o = [k \in 1..N0 |-> o[k]]
        BY <2>2, <2>4
      <3>2. \A k \in 1..N0 : o[k] \in S
        BY <2>4
      <3> HIDE DEF S
      <3>3. o \in Seq(S)
        BY <2>1, <3>1, <3>2
      <3> QED BY <3>3 DEF S, IsSeq
    <2>6. \A k \in 1..N0 : Emitted(p, o[k]) /\ o[k].pkt.part = k
      BY <2>3, <2>4
    <2>7. Fine(p, o)
      BY <2>1, <2>4, <2>5, <2>6 DEF Fine
    <2> QED BY <2>7 DEF o
  <1> QED BY <1>1, <1>2

\* Whatever ingestAndFanout chooses for a destination.
LEMMA FineOutputs ==
  ASSUME plan \in Plans, NEW i \in Radios, NEW j \in Radios, NEW n,
         NEW p, Packet(p), p.proto = Radio[i].proto
  PROVE  Fine(p, Outputs(i, p, j, n))
  <1> DEFINE from == Radio[i].proto
             b == [who |-> NoName, text |-> <<"summary", p.body>>]
             o == Outputs(i, p, j, n)
  <1>1. Fine(p, RawRepeat(p, j)) /\ Fine(p, <<>>) /\ Fine(p, AbpUplink(p, n))
        /\ Fine(p, Fragments(p, j, n))
    BY FineRaw, FineNone, FineAbp, FineFrags
  <1>2. Fine(p, Text(p, from, p.body, j, n))
    <2>1. DOMAIN p.body = {"who", "text"}
      BY DEF Packet
    <2> QED BY <2>1, FineText
  <1>3. Fine(p, Text(p, "LW", b, j, n))
    <2>1. DOMAIN b = {"who", "text"} /\ b.text[1] = "summary"
      OBVIOUS
    <2>2. Marked(b)
      BY <2>1 DEF Marked
    <2> HIDE DEF b
    <2> QED BY <2>1, <2>2, FineText
  <1>4. \/ o = RawRepeat(p, j) \/ o = <<>> \/ o = AbpUplink(p, n) \/ o = Fragments(p, j, n)
        \/ o = Text(p, from, p.body, j, n) \/ o = Text(p, "LW", b, j, n)
    BY DEF Outputs
  <1> HIDE DEF o
  <1>5. Fine(p, o)
    BY <1>1, <1>2, <1>3, <1>4
  <1> QED BY <1>5 DEF o

-----------------------------------------------------------------------------
(* The steps of the bridge *)

\* The plan is fixed, and what was recorded and what passed the guard only grow.
Grown ==
  /\ plan' = plan /\ Told \subseteq Told'
  /\ accepted \subseteq accepted' /\ slipped \subseteq slipped'

\* The critical section of a cache call: what it stores is in the table, and what leaves the
\* table for it is remembered as lost.
LEMMA Stored ==
  ASSUME NEW i, NEW hs, CacheInsert(i, hs)
  PROVE  /\ Told \cup hs \subseteq Told' /\ hs \subseteq seen'
         /\ Told' \subseteq Told \cup hs \cup late[i]
         /\ hs \subseteq seen => Told' = Told
         /\ \A u \in Radios : late'[u] \subseteq late[u] \cup hs
  <1>1. PICK x \in Overwritten(i, hs) :
          /\ seen' = (seen \ x) \cup hs /\ lost' = (lost \cup x) \ hs
          /\ late' = [u \in Radios |->
               IF u = i \/ ~InCall(u) THEN {}
               ELSE IF ReadBefore(u, i) THEN (late[u] \ x) \cup hs ELSE (late[u] \ x) \ hs]
    BY DEF CacheInsert
  <1>2. x \subseteq late[i] /\ (hs \subseteq seen => x = {})
    BY DEF Overwritten
  <1>3. \A u \in Radios : late'[u] \subseteq late[u] \cup hs
    <2> HIDE DEF InCall, ReadBefore
    <2> QED BY <1>1
  <1> QED BY <1>1, <1>2, <1>3 DEF Told

\* A packet the guard lets pass.
LEMMA PassFacts ==
  ASSUME NEW i, NEW p, HearNew(i, p)
  PROVE  /\ Grown /\ accepted' = accepted \cup {p} /\ Hash(p) \in Told'
         /\ slipped' = slipped \/ slipped' = slipped \cup {p}
         /\ Hash(p) \in Told => p \in slipped'
         /\ Told' \subseteq Told \cup {Hash(p)} \cup late[i]
         /\ \A u \in Radios : late'[u] \subseteq late[u] \cup {Hash(p)}
         /\ job' = [job EXCEPT ![i] = <<[pkt |-> p, at |-> 1, out |-> <<>>]>>]
         /\ UNCHANGED <<plan, ether, q, built, queued, dropped>>
  <1>1. CacheInsert(i, {Hash(p)}) /\ Pass(i, p)
    BY DEF HearNew
  <1>2. /\ Told \cup {Hash(p)} \subseteq Told'
        /\ Told' \subseteq Told \cup {Hash(p)} \cup late[i]
        /\ \A u \in Radios : late'[u] \subseteq late[u] \cup {Hash(p)}
    BY <1>1, Stored
  <1>3. /\ Hash(p) \notin seen \ late[i] /\ accepted' = accepted \cup {p}
        /\ slipped' = IF Hash(p) \in lost \cup late[i] THEN slipped \cup {p} ELSE slipped
        /\ job' = [job EXCEPT ![i] = <<[pkt |-> p, at |-> 1, out |-> <<>>]>>]
        /\ UNCHANGED <<plan, ether, q, built, queued, dropped>>
    BY <1>1 DEF Pass
  <1>4. Hash(p) \in Told => p \in slipped'
    BY <1>3 DEF Told
  <1> QED BY <1>2, <1>3, <1>4 DEF Grown

\* A packet it drops, and one whose call is held up.
LEMMA DropFacts ==
  ASSUME NEW i, NEW p, HearDuplicate(i, p) \/ HearHeldUp(i, p)
  PROVE  /\ Grown /\ Told' = Told
         /\ UNCHANGED <<plan, ether, q, built, accepted, slipped, queued>>
         /\ \A u \in Radios : late'[u] \subseteq late[u] \cup Told
  <1>1. UNCHANGED <<plan, ether, q, built, accepted, slipped, queued>>
    BY DEF HearDuplicate, HearHeldUp, past
  <1>2. Told' = Told /\ \A u \in Radios : late'[u] \subseteq late[u] \cup Told
    <2>1. CASE HearDuplicate(i, p)
      <3>1. CacheInsert(i, {Hash(p)}) /\ Hash(p) \in seen
        BY <2>1 DEF HearDuplicate
      <3>2. Told' = Told /\ \A u \in Radios : late'[u] \subseteq late[u] \cup {Hash(p)}
        BY <3>1, Stored
      <3> QED BY <3>1, <3>2 DEF Told
    <2>2. CASE HearHeldUp(i, p)
      BY <2>2 DEF HearHeldUp, HeldUp, Told
    <2> QED BY <2>1, <2>2
  <1> QED BY <1>1, <1>2 DEF Grown

\* DedupCache::record
LEMMA RecordFacts ==
  ASSUME NEW i, Record(i)
  PROVE  /\ Grown /\ Head(Out(i)).rec \subseteq Told'
         /\ Told' \subseteq Told \cup Head(Out(i)).rec \cup late[i]
         /\ \A u \in Radios : late'[u] \subseteq late[u] \cup Head(Out(i)).rec
         /\ UNCHANGED <<plan, ether, q, built, accepted, slipped, queued>>
  <1>1. PICK hs : hs = Head(Out(i)).rec
    OBVIOUS
  <1>2. CacheInsert(i, hs) /\ UNCHANGED <<plan, ether, q, built, accepted, slipped, queued>>
    BY <1>1 DEF Record, past
  <1>3. /\ Told \cup hs \subseteq Told' /\ Told' \subseteq Told \cup hs \cup late[i]
        /\ \A u \in Radios : late'[u] \subseteq late[u] \cup hs
    BY <1>2, Stored
  <1> QED BY <1>1, <1>2, <1>3 DEF Grown

\* What asks the guard was heard, now or before the call was held up.
LEMMA Guarded ==
  ASSUME BridgeInv, NEW i \in Radios, Hear(i) \/ Resume(i)
  PROVE  \/ \E p : HearNodeInfo(i, p)
         \/ \E p : Heard(i, p) /\ (HearDuplicate(i, p) \/ HearNew(i, p) \/ HearHeldUp(i, p))
  <1>1. CASE Resume(i)
    <2>1. Busy(i) /\ Work(i).at = 0
      BY <1>1 DEF Resume, Asking, Busy, Work
    <2>2. Heard(i, Work(i).pkt)
      BY <2>1 DEF BridgeInv, HandInv, Doing
    <2> QED BY <1>1, <2>2 DEF Resume, Work
  <1>2. ASSUME NEW p \in ether[Radio[i].freq], HearPacket(i, p)
        PROVE  Heard(i, p) /\ (HearDuplicate(i, p) \/ HearNew(i, p) \/ HearHeldUp(i, p))
    <2>1. Radio[i].freq \in Freqs
      BY DEF Freqs
    <2>2. Packet(p) /\ (Ours(p) \/ (Copy(p) /\ Radio[i].freq = Clients[p.org].freq))
      BY <2>1 DEF BridgeInv, AirInv
    <2>3. p.kind # "nodeinfo" /\ p.proto = Radio[i].proto
      BY <1>2 DEF HearPacket, Decodes
    <2> QED BY <1>2, <2>2, <2>3 DEF HearPacket, Heard
  <1> QED BY <1>1, <1>2 DEF Hear

\* No step takes back what was recorded or what passed.
LEMMA OnlyGrows ==
  ASSUME BridgeInv, [Next]_vars PROVE Grown
  <1>1. ASSUME NEW o \in Origins, ClientSends(o) PROVE Grown
    BY <1>1 DEF ClientSends, past, cache, Grown, Told
  <1>2. ASSUME NEW f \in Freqs, Flood(f) PROVE Grown
    BY <1>2 DEF Flood, past, cache, Grown, Told
  <1>3. ASSUME NEW i \in Radios, Hear(i) \/ Resume(i) PROVE Grown
    <2>1. ASSUME NEW p, HearNodeInfo(i, p) PROVE Grown
      BY <2>1 DEF HearNodeInfo, past, cache, Grown, Told
    <2> QED BY <1>3, <2>1, Guarded, PassFacts, DropFacts
  <1>4. ASSUME NEW i \in Radios, NextDest(i) \/ FanoutDone(i) \/ EncodeFail(i) PROVE Grown
    BY <1>4 DEF NextDest, FanoutDone, EncodeFail, past, cache, Grown, Told
  <1>5. ASSUME NEW i \in Radios, Record(i) PROVE Grown
    BY <1>5, RecordFacts
  <1>6. ASSUME NEW i \in Radios, RecordHeldUp(i) PROVE Grown
    BY <1>6 DEF RecordHeldUp, HeldUp, past, Grown, Told
  <1>7. ASSUME NEW i \in Radios, Push(i) \/ Transmit(i) \/ Discard(i) PROVE Grown
    BY <1>7 DEF Push, Transmit, Discard, past, cache, Grown, Told
  <1>8. CASE UNCHANGED vars
    BY <1>8 DEF vars, past, cache, Grown, Told
  <1> QED BY <1>1, <1>2, <1>3, <1>4, <1>5, <1>6, <1>7, <1>8 DEF Next, Task

\* What is known of a packet stays true.
LEMMA Kept ==
  ASSUME Grown, NEW p
  PROVE  /\ Packet(p) => Packet(p)'
         /\ Remembered(p) => Remembered(p)'
         /\ Ours(p) => Ours(p)'
         /\ Copy(p) <=> Copy(p)'
         /\ p.org \in Forwarded => p.org \in Forwarded'
  <1>0. /\ plan' = plan /\ Told \subseteq Told' /\ accepted \subseteq accepted'
    BY DEF Grown
  <1>1. Packet(p) => Packet(p)'
    BY <1>0 DEF Packet, Origins, Clients, Parts
  <1>2. Remembered(p) => Remembered(p)'
    BY <1>0 DEF Remembered, Uplink, Keyed, Hash
  <1>3. p.org \in Forwarded => p.org \in Forwarded'
    BY <1>0 DEF Forwarded
  <1>4. Copy(p) <=> Copy(p)'
    BY <1>0 DEF Copy, Clients, Hash
  <1>5. Ours(p) => Ours(p)'
    BY <1>1, <1>2, <1>3 DEF Ours
  <1> QED BY <1>1, <1>2, <1>3, <1>4, <1>5

\* What was heard stays true of a packet that waits.
LEMMA StillHeard ==
  ASSUME Grown, NEW i, NEW p PROVE Heard(i, p) => Heard(i, p)'
  BY Kept DEF Heard, Radio, Clients, Grown

\* A task that does nothing goes on as before.
LEMMA StillWorking ==
  ASSUME Grown, NEW i, NEW w
  PROVE  Working(i, w) => Working(i, w)'
  <1>1. Handing(i, w) => Handing(i, w)'
    <2>1. /\ Packet(w.pkt) => Packet(w.pkt)'
          /\ Copy(w.pkt) <=> Copy(w.pkt)'
      BY Kept
    <2>2. /\ plan' = plan /\ Told \subseteq Told'
          /\ accepted \subseteq accepted' /\ slipped \subseteq slipped'
      BY DEF Grown
    <2> QED BY <2>1, <2>2 DEF Handing, Uplink, Radio, Clients, Keyed, Hash
  <1>2. ASSUME NEW e, Left(i, w, e) PROVE Left(i, w, e)'
    <2>1. /\ Packet(e.pkt) => Packet(e.pkt)'
          /\ Remembered(e.pkt) => Remembered(e.pkt)'
      BY Kept
    <2> QED BY <1>2, <2>1 DEF Left, Route, Grown, Hash
  <1> QED BY <1>1, <1>2 DEF Working, IsSeq

\* Whether it waits or hands on.
LEMMA StillDoing ==
  ASSUME Grown, NEW i, NEW w PROVE Doing(i, w) => Doing(i, w)'
  BY StillHeard, StillWorking DEF Doing

\* The sequences that the queue and the fan-out keep.
LEMMA SeqFacts ==
  ASSUME NEW s, IsSeq(s)
  PROVE  /\ Len(s) \in Nat
         /\ s # <<>> => /\ Len(s) >= 1 /\ Head(s) = s[1]
                        /\ IsSeq(Tail(s)) /\ Len(Tail(s)) = Len(s) - 1
                        /\ \A k \in 1..Len(Tail(s)) : Tail(s)[k] = s[k + 1] /\ k + 1 \in 1..Len(s)
  <1> DEFINE S == {s[k] : k \in 1..Len(s)}
  <1>1. s \in Seq(S)
    BY DEF IsSeq
  <1> HIDE DEF S
  <1>2. Len(s) \in Nat
    BY <1>1
  <1>3. ASSUME s # <<>>
        PROVE  /\ Len(s) >= 1 /\ Head(s) = s[1]
               /\ Tail(s) \in Seq(S) /\ Len(Tail(s)) = Len(s) - 1
               /\ \A k \in 1..Len(Tail(s)) : Tail(s)[k] = s[k + 1] /\ k + 1 \in 1..Len(s)
    BY <1>1, <1>2, <1>3
  <1>4. ASSUME NEW t, t \in Seq(S) PROVE IsSeq(t)
    <2> DEFINE T == {t[k] : k \in 1..Len(t)}
    <2>1. Len(t) \in Nat /\ t = [k \in 1..Len(t) |-> t[k]]
      BY <1>4
    <2>2. \A k \in 1..Len(t) : t[k] \in T
      OBVIOUS
    <2> HIDE DEF T
    <2>3. t \in Seq(T)
      BY <2>1, <2>2
    <2> QED BY <2>3 DEF T, IsSeq
  <1> QED BY <1>2, <1>3, <1>4

\* What Append leaves: what there was, and the new element.
LEMMA AppendFacts ==
  ASSUME NEW s, IsSeq(s), NEW x
  PROVE  /\ IsSeq(Append(s, x)) /\ Len(Append(s, x)) = Len(s) + 1
         /\ \A k \in 1..Len(Append(s, x)) :
              (k \in 1..Len(s) /\ Append(s, x)[k] = s[k]) \/ Append(s, x)[k] = x
  <1> DEFINE S == {s[k] : k \in 1..Len(s)}
             t == Append(s, x)
             T == {t[k] : k \in 1..Len(t)}
  <1>1. s \in Seq(S)
    BY DEF IsSeq
  <1> HIDE DEF S
  <1>2. Len(s) \in Nat /\ Len(t) = Len(s) + 1 /\ t = [k \in 1..Len(t) |-> t[k]]
    <2> DEFINE U == S \cup {x}
    <2>1. s \in Seq(U) /\ x \in U
      BY <1>1
    <2> HIDE DEF U
    <2>2. t \in Seq(U) /\ Len(s) \in Nat /\ Len(t) = Len(s) + 1
      BY <2>1
    <2> HIDE DEF t
    <2> QED BY <2>2
  <1>3. \A k \in 1..Len(t) : (k \in 1..Len(s) /\ t[k] = s[k]) \/ t[k] = x
    BY <1>1, <1>2
  <1>4. \A k \in 1..Len(t) : t[k] \in T
    OBVIOUS
  <1> HIDE DEF T, t
  <1>5. t \in Seq(T)
    BY <1>2, <1>4
  <1> QED BY <1>2, <1>3, <1>5 DEF T, t, IsSeq

\* Replacing the first element leaves the others.
LEMMA FirstFacts ==
  ASSUME NEW s, IsSeq(s), s # <<>>, NEW x
  PROVE  LET t == [s EXCEPT ![1] = x] IN
         /\ IsSeq(t) /\ Len(t) = Len(s) /\ t[1] = x /\ 1 \in 1..Len(s)
         /\ \A k \in 1..Len(t) : k = 1 \/ t[k] = s[k]
  <1> DEFINE S == {s[k] : k \in 1..Len(s)}
             t == [s EXCEPT ![1] = x]
             T == {t[k] : k \in 1..Len(t)}
  <1>1. s \in Seq(S)
    BY DEF IsSeq
  <1> HIDE DEF S
  <1>2. Len(s) \in Nat /\ Len(s) >= 1 /\ s = [k \in 1..Len(s) |-> s[k]] /\ DOMAIN s = 1..Len(s)
    BY <1>1
  <1>3. t = [k \in 1..Len(s) |-> IF k = 1 THEN x ELSE s[k]]
    BY <1>2
  <1> HIDE DEF t
  <1>4. Len(t) = Len(s) /\ \A k \in 1..Len(s) : t[k] = IF k = 1 THEN x ELSE s[k]
    BY <1>2, <1>3
  <1>5. t = [k \in 1..Len(t) |-> t[k]]
    BY <1>3, <1>4
  <1>6. \A k \in 1..Len(t) : t[k] \in T
    OBVIOUS
  <1> HIDE DEF T
  <1>7. t \in Seq(T)
    BY <1>2, <1>4, <1>5, <1>6
  <1> QED BY <1>2, <1>4, <1>7 DEF T, t, IsSeq

\* What the plan says of radios and clients.
LEMMA PlanFacts ==
  ASSUME plan \in Plans
  PROVE  /\ Radios \subseteq Nat
         /\ \A i \in Radios : Route[i] \subseteq Radios /\ i \notin Route[i] /\ Radio[i].freq \in Freqs
         /\ \A o \in Origins : /\ Packet(Clients[o].pkt) /\ Copy(Clients[o].pkt)
                               /\ Clients[o].pkt.org = o /\ Clients[o].freq \in Freqs
  <1>1. Radios \subseteq Nat
    BY PlanAssumption DEF Radios, Radio
  <1>2. \A i \in Radios : Route[i] \subseteq Radios /\ i \notin Route[i] /\ Radio[i].freq \in Freqs
    BY PlanAssumption DEF Radios, Radio, Route, Freqs
  <1>3. ASSUME NEW o \in Origins
        PROVE  /\ Packet(Clients[o].pkt) /\ Clients[o].pkt.by = "client"
               /\ Clients[o].pkt.org = o /\ Clients[o].freq \in Freqs
    <2>1. LET p == Clients[o].pkt IN
          /\ DOMAIN p = PacketFields /\ DOMAIN p.body = {"who", "text"}
          /\ p.hop \in Nat /\ p.org = o /\ p.part = 0 /\ p.by = "client"
          /\ \E j \in Radios : Clients[o].freq = Radio[j].freq
      BY ClientAssumption DEF Clients, Origins, Radios, Radio
    <2>2. 0 \in Parts
      BY PlanAssumption DEF Parts
    <2> QED BY <2>1, <2>2 DEF Packet, Freqs
  <1> QED BY <1>1, <1>2, <1>3 DEF Copy

\* Steps that touch neither the queues nor what the tasks hand on.
LEMMA BridgeSame ==
  ASSUME BridgeInv, Grown
  PROVE  /\ ether' = ether => AirInv'
         /\ q' = q => QueueInv'
         /\ job' = job => HandInv'
  <1>0. plan' = plan
    BY DEF Grown
  <1>1. ASSUME ether' = ether PROVE AirInv'
    <2>1. Freqs' = Freqs
      BY <1>0 DEF Freqs, Radios, Radio
    <2>2. ASSUME NEW f \in Freqs, NEW p \in ether[f]
          PROVE  Packet(p)' /\ (Ours(p)' \/ (Copy(p)' /\ f = Clients[p.org].freq))
      BY <2>2, Kept DEF BridgeInv, AirInv
    <2> QED BY <1>0, <1>1, <2>1, <2>2 DEF AirInv, Clients
  <1>2. ASSUME q' = q PROVE QueueInv'
    <2>1. ASSUME NEW j \in Radios, NEW k \in 1..Len(q[j]) PROVE Ours(q[j][k])
      BY DEF BridgeInv, QueueInv
    <2>2. ASSUME NEW j \in Radios, NEW k \in 1..Len(q[j]), NEW p, p = q[j][k] PROVE Ours(p)'
      BY <2>1, <2>2, Kept
    <2>3. \A j \in Radios : IsSeq(q[j])
      BY DEF BridgeInv, QueueInv
    <2> QED BY <1>0, <1>2, <2>2, <2>3 DEF QueueInv, Radios, Radio, IsSeq
  <1>3. ASSUME job' = job PROVE HandInv'
    <2>1. ASSUME NEW i \in Radios, Busy(i), NEW w, w = Work(i) PROVE Doing(i, w)'
      BY <2>1, StillDoing DEF BridgeInv, HandInv
    <2> QED BY <1>0, <1>3, <2>1 DEF HandInv, Busy, Work, Radios, Radio
  <1> QED BY <1>1, <1>2, <1>3

\* Steps that touch none of them.
LEMMA BridgeIdle ==
  ASSUME BridgeInv, Grown, UNCHANGED <<ether, q, job, built>> PROVE BridgeInv'
  BY BridgeSame DEF BridgeInv, ShapeInv, Freqs, Radios, Radio, Grown

\* A packet more on the air.
LEMMA AirStep ==
  ASSUME BridgeInv, Grown,
         NEW f \in Freqs, NEW p, ether' = [ether EXCEPT ![f] = ether[f] \cup {p}],
         Packet(p), Ours(p) \/ (Copy(p) /\ f = Clients[p.org].freq)
  PROVE  AirInv'
  <1>1. Freqs' = Freqs /\ plan' = plan
    BY DEF Freqs, Radios, Radio, Grown
  <1>2. ASSUME NEW g \in Freqs, NEW x \in ether'[g]
        PROVE  Packet(x) /\ (Ours(x) \/ (Copy(x) /\ g = Clients[x.org].freq))
    BY <1>2 DEF BridgeInv, AirInv, ShapeInv
  <1>3. ASSUME NEW g \in Freqs, NEW x \in ether'[g]
        PROVE  Packet(x)' /\ (Ours(x)' \/ (Copy(x)' /\ g = Clients[x.org].freq))
    BY <1>2, <1>3, Kept
  <1> QED BY <1>1, <1>3 DEF AirInv, Clients

\* One task goes on.
LEMMA HandStep ==
  ASSUME BridgeInv, Grown,
         NEW i \in Radios, NEW w, job' = [job EXCEPT ![i] = <<w>>], Doing(i, w)'
  PROVE  HandInv'
  <1>1. ASSUME NEW u \in Radios, u # i, Busy(u), NEW x, x = Work(u) PROVE Doing(u, x)'
    BY <1>1, StillDoing DEF BridgeInv, HandInv
  <1>2. \A u \in Radios : job'[u] = IF u = i THEN <<w>> ELSE job[u]
    BY DEF BridgeInv, ShapeInv
  <1>3. <<w>>[1] = w
    OBVIOUS
  <1>4. ASSUME NEW u \in Radios, Busy(u)' PROVE Doing(u, Work(u))'
    <2>1. CASE u = i
      <3>1. Work(u)' = w
        BY <1>2, <1>3, <2>1 DEF Work
      <3> QED BY <2>1, <3>1
    <2>2. CASE u # i
      <3>1. Work(u)' = Work(u) /\ Busy(u)
        BY <1>2, <1>4, <2>2 DEF Work, Busy
      <3> QED BY <1>1, <2>2, <3>1
    <2> QED BY <2>1, <2>2
  <1> QED BY <1>4 DEF HandInv, Radios, Radio, Grown

\* One task is done.
LEMMA IdleStep ==
  ASSUME BridgeInv, Grown, NEW i \in Radios, job' = [job EXCEPT ![i] = <<>>]
  PROVE  HandInv'
  <1>1. \A u \in Radios : job'[u] = IF u = i THEN <<>> ELSE job[u]
    BY DEF BridgeInv, ShapeInv
  <1>2. ASSUME NEW u \in Radios, Busy(u)' PROVE Doing(u, Work(u))'
    <2>1. Work(u)' = Work(u) /\ Busy(u)
      BY <1>1, <1>2 DEF Work, Busy
    <2>2. PICK x : x = Work(u)
      OBVIOUS
    <2>3. Doing(u, x)'
      BY <2>1, <2>2, StillDoing DEF BridgeInv, HandInv
    <2> QED BY <2>1, <2>2, <2>3
  <1> QED BY <1>2 DEF HandInv, Radios, Radio, Grown

\* A packet whose hash was not recorded is a client's or an uplink of the bridge's own.
LEMMA Passed ==
  ASSUME NEW i, NEW p, Heard(i, p), Hash(p) \notin Told
  PROVE  \/ Copy(p) /\ Clients[p.org].freq = Radio[i].freq
         \/ p.by = "bridge" /\ Uplink(p)
  BY DEF Heard, Ours, Remembered

\* The guard lets a packet pass.
LEMMA HearStep ==
  ASSUME BridgeInv, NEW i \in Radios, NEW p, Heard(i, p), HearNew(i, p)
  PROVE  BridgeInv'
  <1> DEFINE w == [pkt |-> p, at |-> 1, out |-> <<>>]
  <1>1. /\ Grown /\ accepted' = accepted \cup {p} /\ Hash(p) \in Told'
        /\ Hash(p) \in Told => p \in slipped'
        /\ job' = [job EXCEPT ![i] = <<w>>]
        /\ UNCHANGED <<plan, ether, q, built>>
    BY PassFacts
  <1>2. /\ Packet(p) /\ p.proto = Radio[i].proto
        /\ \/ Copy(p) /\ Clients[p.org].freq = Radio[i].freq
           \/ p.by = "bridge" /\ Uplink(p)
           \/ p \in slipped'
    BY <1>1, Passed DEF Heard
  <1>3. w.pkt = p /\ w.at = 1 /\ w.out = <<>> /\ Len(w.out) = 0 /\ IsSeq(w.out)
    BY DEF IsSeq
  <1> HIDE DEF w
  <1>4. Packet(p)' /\ (Copy(p) <=> Copy(p)')
    BY <1>1, <1>2, Kept
  <1>5. Handing(i, w)'
    BY <1>1, <1>2, <1>3, <1>4 DEF Handing, Uplink, Radio, Clients, Keyed, Hash
  <1>6. Doing(i, w)'
    BY <1>3, <1>5 DEF Doing, Working, IsSeq
  <1>7. PICK x : x = w
    OBVIOUS
  <1>8. HandInv'
    <2>1. job' = [job EXCEPT ![i] = <<x>>] /\ Doing(i, x)'
      BY <1>1, <1>6, <1>7 DEF w
    <2> QED BY <1>1, <2>1, HandStep
  <1>9. AirInv' /\ QueueInv'
    BY <1>1, BridgeSame
  <1>10. ShapeInv'
    BY <1>1 DEF BridgeInv, ShapeInv, Freqs, Radios, Radio
  <1> QED BY <1>8, <1>9, <1>10 DEF BridgeInv

\* It drops one, or is held up.
LEMMA DropStep ==
  ASSUME BridgeInv, NEW i \in Radios, NEW p, Heard(i, p), HearDuplicate(i, p) \/ HearHeldUp(i, p)
  PROVE  BridgeInv'
  <1>1. Grown /\ UNCHANGED <<plan, ether, q, built>>
    BY DropFacts
  <1>2. HandInv'
    <2>1. CASE HearDuplicate(i, p)
      BY <1>1, <2>1, IdleStep DEF HearDuplicate
    <2>2. CASE HearHeldUp(i, p)
      <3>1. PICK w : w = [pkt |-> p, at |-> 0, out |-> <<>>]
        OBVIOUS
      <3>2. job' = [job EXCEPT ![i] = <<w>>] /\ w.pkt = p /\ w.at = 0 /\ w.out = <<>>
        BY <2>2, <3>1 DEF HearHeldUp
      <3>3. Heard(i, p)'
        BY <1>1, StillHeard
      <3>4. Doing(i, w)'
        BY <3>2, <3>3 DEF Doing
      <3> QED BY <1>1, <3>2, <3>4, HandStep
    <2> QED BY <2>1, <2>2
  <1>3. DOMAIN job' = DOMAIN job
    BY DEF HearDuplicate, HearHeldUp
  <1> QED BY <1>1, <1>2, <1>3, BridgeSame DEF BridgeInv, ShapeInv, Freqs, Radios, Radio

\* A task that has got past the guard, and one that has something to queue.
LEMMA AtWork ==
  ASSUME BridgeInv, NEW i \in Radios, Busy(i), Work(i).at # 0 \/ Work(i).out # <<>>
  PROVE  Working(i, Work(i))
  BY DEF BridgeInv, HandInv, Doing

\* The emissions for a destination, as the fan-out holds them.
For(j, o) == [k \in 1..Len(o) |-> [dst |-> j, pkt |-> o[k].pkt, rec |-> o[k].rec]]

\* They are packets of the bridge, of different parts.
LEMMA DestOut ==
  ASSUME BridgeInv, NEW i \in Radios, Busy(i), Work(i).at # 0, NEW j \in Route[i],
         NEW o, o = Outputs(i, Work(i).pkt, j, built + 1),
         NEW out, out = For(j, o)
  PROVE  /\ j \in Radios /\ Fine(Work(i).pkt, o) /\ Packet(Work(i).pkt)
         /\ Len(out) = Len(o) /\ IsSeq(out)
         /\ \A k \in 1..Len(o) : out[k].dst = j /\ out[k].pkt = o[k].pkt /\ out[k].rec = o[k].rec
  <1> DEFINE S == {out[k] : k \in 1..Len(out)}
  <1>1. Working(i, Work(i)) /\ plan \in Plans
    BY AtWork DEF BridgeInv, ShapeInv
  <1>2. j \in Radios
    BY <1>1, PlanFacts
  <1>3. Packet(Work(i).pkt) /\ Work(i).pkt.proto = Radio[i].proto
    BY <1>1 DEF Working, Handing
  <1>4. Fine(Work(i).pkt, o)
    BY <1>1, <1>2, <1>3, FineOutputs
  <1>5. Len(o) \in Nat
    BY <1>4 DEF Fine
  <1>6. \A k \in 1..Len(o) : out[k].dst = j /\ out[k].pkt = o[k].pkt /\ out[k].rec = o[k].rec
    BY DEF For
  <1>7. Len(out) = Len(o) /\ out = [k \in 1..Len(o) |-> out[k]]
    BY <1>5 DEF For
  <1>8. \A k \in 1..Len(o) : out[k] \in S
    BY <1>7
  <1> HIDE DEF S
  <1>9. out \in Seq(S)
    BY <1>5, <1>7, <1>8
  <1>10. IsSeq(out)
    BY <1>9 DEF S, IsSeq
  <1> QED BY <1>2, <1>3, <1>4, <1>6, <1>7, <1>10

\* The fan-out turns to a destination.
LEMMA DestStep ==
  ASSUME BridgeInv, NEW i \in Radios, NextDest(i)
  PROVE  BridgeInv'
  <1>1. /\ Busy(i) /\ Work(i).at # 0 /\ plan' = plan /\ Grown /\ ether' = ether /\ q' = q
    BY DEF NextDest, Asking, Busy, Work, past, cache, Grown, Told
  <1>2. PICK j \in Route[i] :
          LET o == Outputs(i, job[i][1].pkt, j, built + 1) IN
            /\ j >= job[i][1].at
            /\ built' = built + Len(o)
            /\ job' = [job EXCEPT ![i] =
                 <<[pkt |-> job[i][1].pkt, at |-> j + 1,
                    out |-> [k \in 1..Len(o) |-> [dst |-> j, pkt |-> o[k].pkt, rec |-> o[k].rec]]]>>]
    BY DEF NextDest
  <1>3. PICK o : o = Outputs(i, Work(i).pkt, j, built + 1)
    OBVIOUS
  <1>4. PICK out : out = For(j, o)
    OBVIOUS
  <1>5. PICK w : w = [pkt |-> Work(i).pkt, at |-> j + 1, out |-> out]
    OBVIOUS
  <1>6. job' = [job EXCEPT ![i] = <<w>>] /\ built' = built + Len(o)
    BY <1>2, <1>3, <1>4, <1>5 DEF Work, For
  <1>7. /\ j \in Radios /\ Fine(Work(i).pkt, o) /\ Packet(Work(i).pkt)
        /\ Len(out) = Len(o) /\ IsSeq(out)
        /\ \A k \in 1..Len(o) : out[k].dst = j /\ out[k].pkt = o[k].pkt /\ out[k].rec = o[k].rec
    <2>1. Busy(i) /\ Work(i).at # 0
      BY <1>1
    <2> QED BY <1>3, <1>4, <2>1, DestOut
  <1>8. Handing(i, Work(i)) /\ plan \in Plans
    BY <1>1, AtWork DEF BridgeInv, ShapeInv, Working
  <1>9. j \in Nat /\ built \in Nat /\ Len(o) \in Nat
    BY <1>7, <1>8, PlanFacts DEF BridgeInv, ShapeInv, Fine
  <1>10. w.pkt = Work(i).pkt /\ w.at = j + 1 /\ w.out = out
    BY <1>5
  <1>11. ASSUME NEW k \in 1..Len(o) PROVE Left(i, w, out[k])
    <2>1. Emitted(w.pkt, o[k])
      BY <1>7, <1>10 DEF Fine
    <2>2. Hash(w.pkt) \in Told
      BY <1>8, <1>10 DEF Handing
    <2>3. Remembered(o[k].pkt) \/ Hash(o[k].pkt) \in o[k].rec
      BY <2>1, <2>2 DEF Emitted, Remembered
    <2>4. j < w.at
      BY <1>9, <1>10
    <2> QED BY <1>7, <2>1, <2>3, <2>4 DEF Left, Emitted
  <1>12. Handing(i, w)
    <2>1. j + 1 \in Nat \ {0}
      BY <1>9
    <2> QED BY <1>8, <1>10, <2>1 DEF Handing
  <1>13. Working(i, w)
    BY <1>7, <1>10, <1>11, <1>12 DEF Working
  <1>14. Doing(i, w)'
    <2>1. w.at # 0
      BY <1>9, <1>10
    <2> QED BY <1>1, <1>13, <2>1, StillWorking DEF Doing
  <1>15. HandInv'
    BY <1>1, <1>6, <1>14, HandStep
  <1>16. AirInv' /\ QueueInv'
    BY <1>1, BridgeSame
  <1>17. ShapeInv'
    BY <1>1, <1>6, <1>9 DEF BridgeInv, ShapeInv, Freqs, Radios, Radio
  <1> QED BY <1>15, <1>16, <1>17 DEF BridgeInv

\* The packet in hand is recorded, given up or queued: what is left stays what it was.
LEMMA HandOnStep ==
  ASSUME BridgeInv, Grown,
         NEW i \in Radios, NEW x, x = Work(i), Working(i, x), NEW out, HandOn(i, out), IsSeq(out),
         \A k \in 1..Len(out) : Left(i, x, out[k])'
  PROVE  HandInv'
  <1>1. PICK w : w = [pkt |-> x.pkt, at |-> x.at, out |-> out]
    OBVIOUS
  <1>2. w.pkt = x.pkt /\ w.at = x.at /\ w.out = out
    BY <1>1
  <1>3. job' = [job EXCEPT ![i] = <<w>>]
    BY <1>1 DEF HandOn, Work
  <1>4. Working(i, x)'
    BY StillWorking
  <1>5. Handing(i, w)'
    BY <1>2, <1>4 DEF Working, Handing
  <1>6. \A k \in 1..Len(out) : Left(i, w, out[k])'
    BY <1>2 DEF Left
  <1>7. Doing(i, w)'
    <2>1. w.at # 0
      BY <1>2 DEF Working, Handing
    <2> QED BY <1>2, <1>5, <1>6, <2>1 DEF Doing, Working, IsSeq
  <1> QED BY <1>3, <1>7, HandStep

\* DedupCache::record
LEMMA RecordStep ==
  ASSUME BridgeInv, NEW i \in Radios, Record(i)
  PROVE  BridgeInv'
  <1>1. /\ Busy(i) /\ plan' = plan /\ ether' = ether /\ q' = q /\ built' = built
        /\ Grown /\ Head(Out(i)).rec \subseteq Told' /\ Out(i) # <<>>
    BY RecordFacts DEF Record, Busy
  <1>2. PICK x : x = Work(i)
    OBVIOUS
  <1>3. PICK h : h = Head(Out(i))
    OBVIOUS
  <1>4. PICK e : e = [dst |-> h.dst, pkt |-> h.pkt, rec |-> {}]
    OBVIOUS
  <1>5. PICK out : out = [Out(i) EXCEPT ![1] = e]
    OBVIOUS
  <1>6. HandOn(i, out) /\ h.rec \subseteq Told'
    BY <1>1, <1>3, <1>4, <1>5 DEF Record
  <1>7. Working(i, x) /\ Out(i) = x.out
    BY <1>1, <1>2, AtWork DEF Out, Work
  <1>8. IsSeq(x.out) /\ x.out # <<>>
    BY <1>1, <1>7 DEF Working
  <1>9. /\ IsSeq(out) /\ Len(out) = Len(x.out) /\ out[1] = e /\ 1 \in 1..Len(x.out)
        /\ \A k \in 1..Len(out) : k = 1 \/ out[k] = x.out[k]
    BY <1>5, <1>7, <1>8, FirstFacts
  <1>10. h = x.out[1]
    BY <1>3, <1>7, <1>8, SeqFacts
  <1>11. Working(i, x)'
    BY <1>1, <1>6, <1>7, StillWorking
  <1>12. ASSUME NEW k \in 1..Len(out) PROVE Left(i, x, out[k])'
    <2>1. CASE k # 1
      BY <1>9, <1>11, <2>1 DEF Working
    <2>2. CASE k = 1
      <3>1. e.dst = h.dst /\ e.pkt = h.pkt
        BY <1>4
      <3>2. Left(i, x, h)'
        BY <1>9, <1>10, <1>11 DEF Working
      <3>3. Left(i, x, h)
        BY <1>7, <1>9, <1>10 DEF Working
      <3>4. Remembered(h.pkt)'
        BY <1>1, <1>6, <3>3, Kept DEF Left, Remembered, Hash
      <3> QED BY <1>9, <2>2, <3>1, <3>2, <3>4 DEF Left
    <2> QED BY <2>1, <2>2
  <1>13. HandInv'
    BY <1>1, <1>2, <1>6, <1>7, <1>9, <1>12, HandOnStep
  <1>14. AirInv' /\ QueueInv'
    BY <1>1, <1>6, BridgeSame
  <1>15. ShapeInv'
    BY <1>1, <1>6 DEF BridgeInv, ShapeInv, Freqs, Radios, Radio, HandOn
  <1> QED BY <1>13, <1>14, <1>15 DEF BridgeInv

\* RouteQueue::push
LEMMA PushStep ==
  ASSUME BridgeInv, NEW i \in Radios, Push(i)
  PROVE  BridgeInv'
  <1>1. /\ Busy(i) /\ plan' = plan /\ Grown /\ ether' = ether /\ built' = built
        /\ Out(i) # <<>>
    BY DEF Push, Busy, cache, Grown, Told
  <1>2. PICK x : x = Work(i)
    OBVIOUS
  <1>3. PICK h : h = Head(Out(i))
    OBVIOUS
  <1>4. PICK out : out = Tail(Out(i))
    OBVIOUS
  <1>5. HandOn(i, out) /\ q' = [q EXCEPT ![h.dst] = Append(q[h.dst], h.pkt)] /\ h.rec = {}
    BY <1>3, <1>4 DEF Push
  <1>6. Working(i, x) /\ Out(i) = x.out
    BY <1>1, <1>2, AtWork DEF Out, Work
  <1>7. IsSeq(x.out) /\ x.out # <<>>
    BY <1>1, <1>6 DEF Working
  <1>8. /\ h = x.out[1] /\ 1 \in 1..Len(x.out) /\ IsSeq(out)
        /\ \A k \in 1..Len(out) : out[k] = x.out[k + 1] /\ k + 1 \in 1..Len(x.out)
    BY <1>3, <1>4, <1>6, <1>7, SeqFacts
  <1>9. Working(i, x)'
    BY <1>1, <1>6, StillWorking
  <1>10. HandInv'
    <2>1. \A k \in 1..Len(out) : Left(i, x, out[k])'
      BY <1>8, <1>9 DEF Working
    <2> QED BY <1>1, <1>2, <1>5, <1>6, <1>8, <2>1, HandOnStep
  <1>11. Left(i, x, h) /\ Handing(i, x)
    BY <1>6, <1>8 DEF Working
  <1>12. h.dst \in Radios
    BY <1>11, PlanFacts DEF Left, BridgeInv, ShapeInv
  <1>13. Ours(h.pkt)
    <2>1. x.pkt.org \in Forwarded
      BY <1>11 DEF Handing, Forwarded
    <2> QED BY <1>5, <1>11, <2>1 DEF Left, Ours
  <1>14. ASSUME NEW j \in Radios PROVE IsSeq(q'[j]) /\ \A k \in 1..Len(q'[j]) : Ours(q'[j][k])
    <2>1. IsSeq(q[j]) /\ \A k \in 1..Len(q[j]) : Ours(q[j][k])
      BY DEF BridgeInv, QueueInv
    <2>2. CASE j # h.dst
      BY <1>5, <2>1, <2>2 DEF BridgeInv, ShapeInv
    <2>3. CASE j = h.dst
      <3>1. q'[j] = Append(q[j], h.pkt)
        BY <1>5, <2>3 DEF BridgeInv, ShapeInv
      <3>2. /\ IsSeq(Append(q[j], h.pkt))
            /\ \A k \in 1..Len(Append(q[j], h.pkt)) :
                 (k \in 1..Len(q[j]) /\ Append(q[j], h.pkt)[k] = q[j][k]) \/ Append(q[j], h.pkt)[k] = h.pkt
        BY <2>1, AppendFacts
      <3> QED BY <1>13, <2>1, <3>1, <3>2
    <2> QED BY <2>2, <2>3
  <1>15. QueueInv'
    <2>1. ASSUME NEW j \in Radios, NEW k \in 1..Len(q'[j]), NEW p, p = q'[j][k] PROVE Ours(p)'
      BY <1>1, <1>14, <2>1, Kept
    <2> QED BY <1>1, <1>14, <2>1 DEF QueueInv, Radios, Radio, IsSeq
  <1>16. AirInv'
    BY <1>1, BridgeSame
  <1>17. ShapeInv'
    BY <1>1, <1>5 DEF BridgeInv, ShapeInv, Freqs, Radios, Radio, HandOn
  <1> QED BY <1>10, <1>15, <1>16, <1>17 DEF BridgeInv

\* A queue loses its oldest packet, to the air or for good.
LEMMA SendStep ==
  ASSUME BridgeInv, NEW j \in Radios, Transmit(j) \/ Discard(j)
  PROVE  BridgeInv'
  <1>1. /\ q[j] # <<>> /\ plan' = plan /\ Grown /\ job' = job
        /\ built' = built /\ q' = [q EXCEPT ![j] = Tail(q[j])]
    BY DEF Transmit, Discard, past, cache, Grown, Told
  <1>2. IsSeq(q[j]) /\ \A k \in 1..Len(q[j]) : Ours(q[j][k])
    BY DEF BridgeInv, QueueInv
  <1>3. /\ Len(q[j]) >= 1 /\ Len(q[j]) \in Nat /\ Head(q[j]) = q[j][1] /\ IsSeq(Tail(q[j]))
        /\ \A k \in 1..Len(Tail(q[j])) : Tail(q[j])[k] = q[j][k + 1] /\ k + 1 \in 1..Len(q[j])
    BY <1>1, <1>2, SeqFacts
  <1>4. ASSUME NEW u \in Radios PROVE IsSeq(q'[u]) /\ \A k \in 1..Len(q'[u]) : Ours(q'[u][k])
    <2>1. CASE u # j
      BY <1>1, <2>1 DEF BridgeInv, ShapeInv, QueueInv
    <2>2. CASE u = j
      <3>1. q'[u] = Tail(q[j])
        BY <1>1, <2>2 DEF BridgeInv, ShapeInv
      <3> QED BY <1>2, <1>3, <3>1
    <2> QED BY <2>1, <2>2
  <1>5. QueueInv'
    <2>1. ASSUME NEW u \in Radios, NEW k \in 1..Len(q'[u]), NEW p, p = q'[u][k] PROVE Ours(p)'
      BY <1>1, <1>4, <2>1, Kept
    <2> QED BY <1>1, <1>4, <2>1 DEF QueueInv, Radios, Radio, IsSeq
  <1>6. AirInv'
    <2>1. CASE ether' = ether
      BY <1>1, <2>1, BridgeSame
    <2>2. CASE Transmit(j)
      <3>1. PICK p : p = Head(q[j])
        OBVIOUS
      <3>2. Ours(p) /\ Packet(p)
        BY <1>2, <1>3, <3>1 DEF Ours
      <3>3. ether' = [ether EXCEPT ![Radio[j].freq] = ether[Radio[j].freq] \cup {p}]
        BY <2>2, <3>1 DEF Transmit
      <3>4. PICK f : f = Radio[j].freq
        OBVIOUS
      <3>5. f \in Freqs /\ ether' = [ether EXCEPT ![f] = ether[f] \cup {p}]
        BY <3>3, <3>4, PlanFacts DEF BridgeInv, ShapeInv
      <3> QED BY <1>1, <3>2, <3>5, AirStep
    <2> QED BY <2>1, <2>2 DEF Discard
  <1>7. HandInv'
    BY <1>1, BridgeSame
  <1>8. ShapeInv'
    <2>1. DOMAIN ether' = DOMAIN ether
      BY DEF Transmit, Discard
    <2> QED BY <1>1, <2>1 DEF BridgeInv, ShapeInv, Freqs, Radios, Radio
  <1> QED BY <1>5, <1>6, <1>7, <1>8 DEF BridgeInv

\* The meshes around the bridge: a client sends, a node repeats with a hop less.
LEMMA MeshStep ==
  ASSUME BridgeInv, (\E o \in Origins : ClientSends(o)) \/ (\E f \in Freqs : Flood(f))
  PROVE  BridgeInv'
  <1>1. /\ plan' = plan /\ Grown /\ job' = job /\ q' = q
        /\ built' = built /\ DOMAIN ether' = DOMAIN ether
    BY DEF ClientSends, Flood, past, cache, Grown, Told
  <1>2. AirInv'
    <2>1. ASSUME NEW o \in Origins, ClientSends(o) PROVE AirInv'
      <3>1. PICK p, f : p = Clients[o].pkt /\ f = Clients[o].freq
        OBVIOUS
      <3>2. f \in Freqs /\ Packet(p) /\ Copy(p) /\ p.org = o
        BY <3>1, PlanFacts DEF BridgeInv, ShapeInv
      <3>3. ether' = [ether EXCEPT ![f] = ether[f] \cup {p}]
        BY <2>1, <3>1 DEF ClientSends
      <3> QED BY <1>1, <3>1, <3>2, <3>3, AirStep
    <2>2. ASSUME NEW f \in Freqs, Flood(f) PROVE AirInv'
      <3>1. PICK p \in ether[f] :
              p.hop > 0 /\ ether' = [ether EXCEPT ![f] = ether[f] \cup {[p EXCEPT !.hop = p.hop - 1]}]
        BY <2>2 DEF Flood
      <3>2. Packet(p) /\ (Ours(p) \/ (Copy(p) /\ f = Clients[p.org].freq))
        BY DEF BridgeInv, AirInv
      <3>3. PICK r : r = [p EXCEPT !.hop = p.hop - 1]
        OBVIOUS
      <3>4. /\ DOMAIN r = DOMAIN p /\ r.hop = p.hop - 1 /\ r.proto = p.proto /\ r.body = p.body
            /\ r.src = p.src /\ r.pid = p.pid /\ r.kind = p.kind /\ r.org = p.org
            /\ r.part = p.part /\ r.by = p.by
        BY <3>2, <3>3 DEF Packet, PacketFields
      <3>5. p.hop - 1 \in Nat
        BY <3>1, <3>2 DEF Packet
      <3>6. Packet(r) /\ Hash(r) = Hash(p)
        BY <3>2, <3>4, <3>5 DEF Packet, Hash
      <3>7. Ours(r) \/ (Copy(r) /\ f = Clients[r.org].freq)
        BY <3>2, <3>4, <3>6 DEF Ours, Copy, Remembered, Uplink
      <3> QED BY <1>1, <3>1, <3>3, <3>6, <3>7, AirStep
    <2> QED BY <2>1, <2>2
  <1>3. QueueInv' /\ HandInv'
    BY <1>1, BridgeSame
  <1>4. ShapeInv'
    BY <1>1 DEF BridgeInv, ShapeInv, Freqs, Radios, Radio
  <1> QED BY <1>2, <1>3, <1>4 DEF BridgeInv

\* The fan-out ends, or the encoder fails and what is left for the destination is abandoned.
LEMMA EndStep ==
  ASSUME BridgeInv, NEW i \in Radios, FanoutDone(i) \/ EncodeFail(i)
  PROVE  BridgeInv'
  <1>1. /\ plan' = plan /\ Grown /\ ether' = ether /\ q' = q
        /\ built' = built /\ Busy(i) /\ DOMAIN job' = DOMAIN job
    BY DEF FanoutDone, EncodeFail, HandOn, Busy, past, cache, Grown, Told
  <1>2. HandInv'
    <2>1. CASE FanoutDone(i)
      BY <1>1, <2>1, IdleStep DEF FanoutDone
    <2>2. CASE EncodeFail(i)
      <3>1. PICK x, out : x = Work(i) /\ out = <<>>
        OBVIOUS
      <3>2. HandOn(i, out) /\ IsSeq(out) /\ \A k \in 1..Len(out) : Left(i, x, out[k])'
        BY <2>2, <3>1 DEF EncodeFail, IsSeq
      <3>3. Working(i, x)
        BY <1>1, <2>2, <3>1, AtWork DEF EncodeFail, Out, Work
      <3> QED BY <1>1, <3>1, <3>2, <3>3, HandOnStep
    <2> QED BY <2>1, <2>2
  <1> QED BY <1>1, <1>2, BridgeSame DEF Radios, Radio, BridgeInv, ShapeInv, Freqs

\* Every step keeps the invariant.
LEMMA BridgeStep == BridgeInv /\ [Next]_vars => BridgeInv'
  <1> SUFFICES ASSUME BridgeInv, [Next]_vars PROVE BridgeInv'
    OBVIOUS
  <1>1. ASSUME NEW i \in Radios, Hear(i) \/ Resume(i) PROVE BridgeInv'
    <2>1. ASSUME NEW p, HearNodeInfo(i, p) PROVE BridgeInv'
      <3>1. UNCHANGED <<ether, q, job, built>>
        BY <2>1 DEF HearNodeInfo
      <3> QED BY <3>1, OnlyGrows, BridgeIdle
    <2> QED BY <1>1, <2>1, Guarded, HearStep, DropStep
  <1>2. CASE UNCHANGED vars \/ \E i \in Radios : RecordHeldUp(i)
    <2>1. UNCHANGED <<ether, q, job, built>>
      BY <1>2 DEF vars, RecordHeldUp
    <2> QED BY <2>1, OnlyGrows, BridgeIdle
  <1> QED BY <1>1, <1>2, MeshStep, EndStep, DestStep, RecordStep, PushStep, SendStep DEF Next, Task

\* The bridge starts silent, with nothing in hand.
LEMMA BridgeStart == Init => BridgeInv
  <1> SUFFICES ASSUME Init PROVE BridgeInv
    OBVIOUS
  <1>1. ShapeInv
    BY DEF Init, ShapeInv
  <1>2. AirInv /\ HandInv
    BY DEF Init, AirInv, HandInv, Busy
  <1>3. QueueInv
    <2>1. IsSeq(<<>>) /\ Len(<<>>) = 0
      BY DEF IsSeq
    <2> QED BY <2>1 DEF Init, QueueInv
  <1> QED BY <1>1, <1>2, <1>3 DEF BridgeInv

\* The packets that pass the guard in a step.
LEMMA Accepted ==
  ASSUME BridgeInv, [Next]_vars
  PROVE  \/ accepted' = accepted
         \/ \E i \in Radios : \E p : Heard(i, p) /\ HearNew(i, p)
  <1>1. ASSUME NEW i \in Radios, Hear(i) \/ Resume(i)
        PROVE  accepted' = accepted \/ \E p : Heard(i, p) /\ HearNew(i, p)
    <2>1. ASSUME NEW p, HearNodeInfo(i, p) PROVE accepted' = accepted
      BY <2>1 DEF HearNodeInfo, past
    <2> QED BY <1>1, <2>1, Guarded, DropFacts
  <1>2. ASSUME \/ \E o \in Origins : ClientSends(o)
               \/ \E f \in Freqs : Flood(f)
               \/ UNCHANGED vars
        PROVE  accepted' = accepted
    BY <1>2 DEF ClientSends, Flood, vars, past
  <1>3. ASSUME NEW i \in Radios,
               \/ NextDest(i) \/ FanoutDone(i) \/ RecordHeldUp(i) \/ Record(i)
               \/ EncodeFail(i) \/ Push(i) \/ Transmit(i) \/ Discard(i)
        PROVE  accepted' = accepted
    <2>1. CASE NextDest(i) \/ FanoutDone(i) \/ RecordHeldUp(i)
      BY <2>1 DEF NextDest, FanoutDone, RecordHeldUp, past
    <2>2. CASE Record(i) \/ EncodeFail(i)
      BY <2>2 DEF Record, EncodeFail, past
    <2>3. CASE Push(i) \/ Transmit(i) \/ Discard(i)
      BY <2>3 DEF Push, Transmit, Discard, past
    <2> QED BY <1>3, <2>1, <2>2, <2>3
  <1> QED BY <1>1, <1>2, <1>3 DEF Next, Task

\* Whatever is heard again, a re-encoding or repeat of the bridge's own, LoRaWAN uplinks
\* excepted, passes the guard only by two overlapping calls: nothing is pushed, and so nothing
\* is on the air, before its hash is recorded, and a recorded hash is missed or overwritten
\* only by a call that read the clock before the recorder did.
THEOREM OwnDropped == Spec => []OwnEmissionDropped
  <1>1. Init => OwnEmissionDropped
    BY DEF Init, OwnEmissionDropped
  <1>2. BridgeInv /\ OwnEmissionDropped /\ [Next]_vars => OwnEmissionDropped'
    <2> SUFFICES ASSUME BridgeInv, OwnEmissionDropped, [Next]_vars PROVE OwnEmissionDropped'
      OBVIOUS
    <2>0. slipped \subseteq slipped'
      BY OnlyGrows DEF Grown
    <2>1. CASE accepted' = accepted
      BY <2>0, <2>1 DEF OwnEmissionDropped
    <2>2. ASSUME NEW i \in Radios, NEW p, Heard(i, p), HearNew(i, p)
          PROVE  OwnEmissionDropped'
      <3>1. accepted' = accepted \cup {p} /\ (Hash(p) \in Told => p \in slipped')
        BY <2>2, PassFacts
      <3>2. p.by = "client" \/ p.proto = "LW" \/ p \in slipped'
        BY <2>2, <3>1, Passed DEF Copy, Uplink
      <3> QED BY <2>0, <3>1, <3>2 DEF OwnEmissionDropped
    <2> QED BY <2>1, <2>2, Accepted
  <1> QED BY <1>1, <1>2, BridgeStart, BridgeStep, PTL DEF Spec

\* The predicates of CountInv, when the counters stay.
LEMMA CountKept ==
  ASSUME CountInv, Grown, queued' = queued
  PROVE  /\ Radios' = Radios /\ Origins' = Origins /\ Clients' = Clients /\ Parts' = Parts
         /\ Slipped \subseteq Slipped'
         /\ \A x : Counted(x)' => Counted(x)
         /\ \A u, x : Unsent(u, x) => Unsent(u, x)'
         /\ queued' \in [Origins' \X Radios' \X Parts' -> Nat] /\ AtMostOnce'
         /\ \A o \in Origins : Hash(Clients[o].pkt) \notin Told' /\ o \notin Slipped' =>
              \A j \in Radios, k \in Parts : queued[<<o, j, k>>] = 0
  <1>0. plan' = plan /\ Told \subseteq Told' /\ slipped \subseteq slipped'
    BY DEF Grown
  <1>1. Radios' = Radios /\ Origins' = Origins /\ Clients' = Clients /\ Parts' = Parts
    BY <1>0 DEF Radios, Radio, Origins, Clients, Parts
  <1>2. Slipped \subseteq Slipped'
    BY <1>0 DEF Slipped
  <1>3. \A x : Counted(x)' => Counted(x)
    BY <1>0, <1>2 DEF Counted, Copy, Clients, Hash
  <1>4. \A u, x : Unsent(u, x) => Unsent(u, x)'
    BY <1>1, <1>3 DEF Unsent
  <1>5. queued' \in [Origins' \X Radios' \X Parts' -> Nat]
    BY <1>1 DEF CountInv
  <1>6. AtMostOnce'
    BY <1>2 DEF CountInv, AtMostOnce
  <1>7. \A o \in Origins : Hash(Clients[o].pkt) \notin Told' /\ o \notin Slipped' =>
          \A j \in Radios, k \in Parts : queued[<<o, j, k>>] = 0
    BY <1>0, <1>2 DEF CountInv
  <1> QED BY <1>1, <1>2, <1>3, <1>4, <1>5, <1>6, <1>7

\* Tasks that go on hold what they held.
LEMMA CountIdle ==
  ASSUME CountInv, Grown, queued' = queued,
         \A u \in Radios : Handed(u)' => Handed(u) /\ Work(u)' = Work(u)
  PROVE  CountInv'
  <1>1. ASSUME NEW u \in Radios, NEW v \in Radios, Handed(u)', Handed(v)', Counted(Work(u).pkt)',
               Counted(Work(v).pkt)', Work(u)'.pkt.org = Work(v)'.pkt.org
        PROVE  u = v
    <2>1. PICK x, y : x = Work(u) /\ y = Work(v)
      OBVIOUS
    <2>2. Handed(u) /\ Handed(v) /\ Work(u)' = x /\ Work(v)' = y
      BY <1>1, <2>1
    <2>3. Counted(x.pkt)' /\ Counted(y.pkt)'
      BY <1>1, <2>2
    <2>4. Counted(x.pkt) /\ Counted(y.pkt)
      BY <2>3, CountKept
    <2> QED BY <1>1, <2>1, <2>2, <2>4 DEF CountInv
  <1>2. ASSUME NEW u \in Radios, Handed(u)' PROVE Unsent(u, Work(u))'
    <2>1. PICK x : x = Work(u)
      OBVIOUS
    <2>2. Unsent(u, x) /\ Work(u)' = x
      BY <1>2, <2>1 DEF CountInv
    <2>3. Unsent(u, x)'
      BY <2>2, CountKept
    <2> QED BY <2>2, <2>3
  <1> QED BY <1>1, <1>2, CountKept DEF CountInv, Hash

\* One task goes on, alone with its message.
LEMMA CountHand ==
  ASSUME CountInv, Grown, queued' = queued, DOMAIN job = Radios,
         NEW i \in Radios, NEW w, job' = [job EXCEPT ![i] = <<w>>], Unsent(i, w)',
         Counted(w.pkt)' =>
           \A u \in Radios \ {i} : Handed(u) /\ Counted(Work(u).pkt) => Work(u).pkt.org # w.pkt.org
  PROVE  CountInv'
  <1>1. \A u \in Radios \ {i} : (Handed(u)' <=> Handed(u)) /\ Work(u)' = Work(u)
    BY DEF Handed, Busy, Work
  <1>2. Work(i)' = w
    <2>1. job'[i] = <<w>> /\ <<w>>[1] = w
      OBVIOUS
    <2> QED BY <2>1 DEF Work
  <1>3. ASSUME NEW u \in Radios \ {i}, Handed(u)', Counted(Work(u).pkt)'
        PROVE  Handed(u) /\ Counted(Work(u).pkt)
    <2>1. PICK x : x = Work(u)
      OBVIOUS
    <2>2. Work(u)' = x /\ Handed(u)
      BY <1>1, <1>3, <2>1
    <2>3. Counted(x.pkt)'
      BY <1>3, <2>2
    <2>4. Counted(x.pkt)
      BY <2>3, CountKept
    <2> QED BY <2>1, <2>2, <2>4
  <1>4. ASSUME NEW u \in Radios \ {i}, Handed(u)', Counted(Work(u).pkt)', Counted(w.pkt)'
        PROVE  Work(u)'.pkt.org # w.pkt.org
    BY <1>1, <1>3, <1>4
  <1>5. ASSUME NEW u \in Radios, NEW v \in Radios, Handed(u)', Handed(v)', Counted(Work(u).pkt)',
               Counted(Work(v).pkt)', Work(u)'.pkt.org = Work(v)'.pkt.org
        PROVE  u = v
    <2>1. CASE u = i /\ v # i
      BY <1>2, <1>4, <1>5, <2>1
    <2>2. CASE u # i /\ v = i
      BY <1>2, <1>4, <1>5, <2>2
    <2>3. CASE u # i /\ v # i
      BY <1>1, <1>3, <1>5, <2>3 DEF CountInv
    <2> QED BY <2>1, <2>2, <2>3
  <1>6. ASSUME NEW u \in Radios, Handed(u)' PROVE Unsent(u, Work(u))'
    <2>1. CASE u = i
      BY <1>2, <2>1
    <2>2. CASE u # i
      <3>1. PICK x : x = Work(u)
        OBVIOUS
      <3>2. Unsent(u, x) /\ Work(u)' = x
        BY <1>1, <1>6, <2>2, <3>1 DEF CountInv
      <3>3. Unsent(u, x)'
        BY <3>2, CountKept
      <3> QED BY <3>2, <3>3
    <2> QED BY <2>1, <2>2
  <1> QED BY <1>5, <1>6, CountKept DEF CountInv, Hash

\* The guard lets a packet pass: the first copy of a client's packet, of which nothing was
\* queued, unless it slips through.
LEMMA CountHear ==
  ASSUME BridgeInv, CountInv, NEW i \in Radios, NEW p, Heard(i, p), HearNew(i, p)
  PROVE  CountInv'
  <1>1. PICK w : w = [pkt |-> p, at |-> 1, out |-> <<>>]
    OBVIOUS
  <1>2. /\ Grown /\ queued' = queued /\ DOMAIN job = Radios
        /\ job' = [job EXCEPT ![i] = <<w>>] /\ (Hash(p) \in Told => p \in slipped')
    BY <1>1, PassFacts DEF BridgeInv, ShapeInv
  <1>3. w.pkt = p /\ Len(w.out) = 0
    BY <1>1
  <1>4. Packet(p)
    BY DEF Heard
  <1>5. ASSUME Counted(p)' PROVE Copy(p) /\ p.org \notin Slipped /\ Hash(p) \notin Told
    <2>1. Counted(p)
      BY <1>2, <1>5, CountKept
    <2>2. p \notin slipped'
      BY <1>5 DEF Counted, Slipped
    <2> QED BY <1>2, <2>1, <2>2 DEF Counted
  <1>6. Unsent(i, w)'
    <2>1. Counted(p)' => \A j \in Radios, k \in Parts : queued[<<p.org, j, k>>] = 0
      BY <1>4, <1>5 DEF CountInv, Copy, Packet
    <2>2. Radios' = Radios /\ Parts' = Parts
      BY <1>2, CountKept
    <2> QED BY <1>2, <1>3, <2>1, <2>2 DEF Unsent
  <1>7. ASSUME Counted(p)', NEW u \in Radios, Handed(u), Counted(Work(u).pkt), Work(u).pkt.org = p.org
        PROVE  FALSE
    <2>1. Hash(Work(u).pkt) \in Told
      BY <1>7, AtWork DEF Handed, Working, Handing
    <2> QED BY <1>5, <1>7, <2>1 DEF Copy, Counted
  <1> QED BY <1>2, <1>3, <1>6, <1>7, CountHand

\* The fan-out turns to a destination for which nothing was queued.
LEMMA CountDest ==
  ASSUME BridgeInv, CountInv, NEW i \in Radios, NextDest(i)
  PROVE  CountInv'
  <1>1. /\ Handed(i) /\ Grown /\ queued' = queued /\ DOMAIN job = Radios
    BY DEF NextDest, Asking, Handed, Busy, Work, past, cache, Grown, Told, BridgeInv, ShapeInv
  <1>2. PICK j \in Route[i] :
          LET o == Outputs(i, job[i][1].pkt, j, built + 1) IN
            /\ j >= job[i][1].at
            /\ job' = [job EXCEPT ![i] =
                 <<[pkt |-> job[i][1].pkt, at |-> j + 1,
                    out |-> [k \in 1..Len(o) |-> [dst |-> j, pkt |-> o[k].pkt, rec |-> o[k].rec]]]>>]
    BY DEF NextDest
  <1>3. PICK o : o = Outputs(i, Work(i).pkt, j, built + 1)
    OBVIOUS
  <1>4. PICK out : out = For(j, o)
    OBVIOUS
  <1>5. PICK w : w = [pkt |-> Work(i).pkt, at |-> j + 1, out |-> out]
    OBVIOUS
  <1>6. job' = [job EXCEPT ![i] = <<w>>] /\ j >= Work(i).at
    BY <1>2, <1>3, <1>4, <1>5 DEF Work, For
  <1>7. /\ j \in Radios /\ Fine(Work(i).pkt, o) /\ Packet(Work(i).pkt)
        /\ Len(out) = Len(o)
        /\ \A k \in 1..Len(o) : out[k].dst = j /\ out[k].pkt = o[k].pkt
    <2>1. Busy(i) /\ Work(i).at # 0
      BY <1>1 DEF Handed
    <2>2. Packet(Work(i).pkt)
      BY <2>1, AtWork DEF Working, Handing
    <2> QED BY <1>3, <1>4, <2>1, <2>2, DestOut
  <1>8. w.pkt = Work(i).pkt /\ w.at = j + 1 /\ w.out = out
    BY <1>5
  <1>9. Radios \subseteq Nat /\ Work(i).at \in Nat
    BY <1>1, PlanFacts, AtWork DEF BridgeInv, ShapeInv, Handed, Working, Handing
  <1>10. ASSUME Counted(w.pkt)
         PROVE  /\ \A u \in Radios, k \in Parts : u >= j => queued[<<w.pkt.org, u, k>>] = 0
                /\ \A u \in Radios \ {i} : Handed(u) /\ Counted(Work(u).pkt) => Work(u).pkt.org # w.pkt.org
    <2>1. \A u \in Radios : u >= j => u >= Work(i).at
      BY <1>6, <1>7, <1>9
    <2>2. Counted(Work(i).pkt) /\ Unsent(i, Work(i))
      BY <1>1, <1>8, <1>10 DEF CountInv
    <2>3. \A u \in Radios, k \in Parts : u >= Work(i).at => queued[<<w.pkt.org, u, k>>] = 0
      BY <1>8, <2>2 DEF Unsent
    <2>4. \A u \in Radios \ {i} : Handed(u) /\ Counted(Work(u).pkt) => Work(u).pkt.org # w.pkt.org
      BY <1>1, <1>8, <2>2 DEF CountInv
    <2> QED BY <2>1, <2>3, <2>4
  <1>11. ASSUME NEW k \in 1..Len(o) PROVE o[k].pkt.part \in Parts
    BY <1>7 DEF Fine, Emitted, Packet
  <1>12. Unsent(i, w)
    <2> SUFFICES ASSUME Counted(w.pkt)
                 PROVE  /\ \A u \in Radios, k \in Parts : u >= w.at => queued[<<w.pkt.org, u, k>>] = 0
                        /\ \A k \in 1..Len(out) : out[k].pkt.kind # "nodeinfo" =>
                             /\ queued[<<w.pkt.org, out[k].dst, out[k].pkt.part>>] = 0
                             /\ \A m \in 1..Len(out) :
                                  out[m].pkt.kind # "nodeinfo" /\ out[m].pkt.part = out[k].pkt.part => m = k
      BY <1>8 DEF Unsent
    <2>1. \A u \in Radios, k \in Parts : u >= w.at => queued[<<w.pkt.org, u, k>>] = 0
      <3>1. \A u \in Radios : u >= w.at => u >= j
        BY <1>7, <1>8, <1>9
      <3> QED BY <1>10, <3>1
    <2>2. \A k \in 1..Len(out) : queued[<<w.pkt.org, out[k].dst, out[k].pkt.part>>] = 0
      <3>1. j >= j
        BY <1>7, <1>9
      <3> QED BY <1>7, <1>10, <1>11, <3>1
    <2>3. \A k, m \in 1..Len(out) :
            out[k].pkt.kind # "nodeinfo" /\ out[m].pkt.kind # "nodeinfo" /\ out[m].pkt.part = out[k].pkt.part
              => m = k
      BY <1>7 DEF Fine
    <2> QED BY <2>1, <2>2, <2>3
  <1>13. Unsent(i, w)' /\ (Counted(w.pkt)' => Counted(w.pkt))
    BY <1>1, <1>12, CountKept
  <1> QED BY <1>1, <1>6, <1>10, <1>13, CountHand

\* A packet is recorded, or what is left is abandoned.
LEMMA CountRecord ==
  ASSUME BridgeInv, CountInv, NEW i \in Radios, Record(i) \/ EncodeFail(i)
  PROVE  CountInv'
  <1>1. /\ Busy(i) /\ Grown /\ queued' = queued /\ DOMAIN job = Radios /\ Out(i) # <<>>
    BY RecordFacts DEF Record, EncodeFail, Busy, past, cache, Grown, Told, BridgeInv, ShapeInv
  <1>2. PICK x : x = Work(i)
    OBVIOUS
  <1>3. Working(i, x) /\ Out(i) = x.out /\ Handed(i) /\ Unsent(i, x)
    <2>1. Out(i) = x.out
      BY <1>2 DEF Out, Work
    <2>2. Working(i, x)
      BY <1>1, <1>2, <2>1, AtWork
    <2>3. Handed(i)
      BY <1>1, <1>2, <2>2 DEF Handed, Working, Handing
    <2> QED BY <1>2, <2>1, <2>2, <2>3 DEF CountInv
  <1>4. ASSUME NEW out, HandOn(i, out), Len(out) = 0 \/ Len(out) = Len(x.out),
               \A k \in 1..Len(out) : out[k].pkt = x.out[k].pkt /\ out[k].dst = x.out[k].dst
        PROVE  CountInv'
    <2>1. PICK w : w = [pkt |-> x.pkt, at |-> x.at, out |-> out]
      OBVIOUS
    <2>2. w.pkt = x.pkt /\ w.at = x.at /\ w.out = out
      BY <2>1
    <2>3. job' = [job EXCEPT ![i] = <<w>>]
      BY <1>2, <1>4, <2>1 DEF HandOn, Work
    <2>4. \A k \in 1..Len(out) : k \in 1..Len(x.out)
      BY <1>4
    <2>5. Unsent(i, w)
      BY <1>3, <1>4, <2>2, <2>4 DEF Unsent
    <2>6. Counted(w.pkt) =>
            \A u \in Radios \ {i} : Handed(u) /\ Counted(Work(u).pkt) => Work(u).pkt.org # w.pkt.org
      BY <1>2, <1>3, <2>2 DEF CountInv
    <2>7. Unsent(i, w)' /\ (Counted(w.pkt)' => Counted(w.pkt))
      BY <1>1, <2>5, CountKept
    <2> QED BY <1>1, <2>3, <2>6, <2>7, CountHand
  <1>5. CASE EncodeFail(i)
    <2>1. PICK out : out = <<>>
      OBVIOUS
    <2>2. HandOn(i, out) /\ Len(out) = 0
      BY <1>5, <2>1 DEF EncodeFail
    <2> QED BY <1>4, <2>2
  <1>6. CASE Record(i)
    <2>1. PICK h : h = Head(x.out)
      OBVIOUS
    <2>2. PICK e : e = [dst |-> h.dst, pkt |-> h.pkt, rec |-> {}]
      OBVIOUS
    <2>3. PICK out : out = [x.out EXCEPT ![1] = e]
      OBVIOUS
    <2>4. HandOn(i, out)
      BY <1>3, <1>6, <2>1, <2>2, <2>3 DEF Record
    <2>5. IsSeq(x.out) /\ x.out # <<>>
      BY <1>1, <1>3 DEF Working
    <2>6. /\ Len(out) = Len(x.out) /\ out[1] = e
          /\ \A k \in 1..Len(out) : k = 1 \/ out[k] = x.out[k]
      BY <2>3, <2>5, FirstFacts
    <2>7. h = x.out[1]
      BY <2>1, <2>5, SeqFacts
    <2>8. e.pkt = h.pkt /\ e.dst = h.dst
      BY <2>2
    <2>9. \A k \in 1..Len(out) : out[k].pkt = x.out[k].pkt /\ out[k].dst = x.out[k].dst
      BY <2>6, <2>7, <2>8
    <2> QED BY <1>4, <2>4, <2>6, <2>9
  <1> QED BY <1>5, <1>6

\* Of a packet that is pushed: it is made from a client's message or from one that slipped
\* through, and its counter is counted.
LEMMA PushFacts ==
  ASSUME BridgeInv, \A c \in Plans : NoRelay(c), NEW i \in Radios, Push(i)
  PROVE  \E x, h, out :
         /\ x = Work(i) /\ Handed(i) /\ Grown /\ slipped' = slipped /\ Told' = Told /\ DOMAIN job = Radios
         /\ HandOn(i, out) /\ Log(h.pkt, h.dst)
         /\ Working(i, x) /\ h = x.out[1] /\ 1 \in 1..Len(x.out) /\ Left(i, x, h)
         /\ \A k \in 1..Len(out) : out[k] = x.out[k + 1] /\ k + 1 \in 1..Len(x.out)
         /\ \/ Copy(x.pkt) /\ Clients[x.pkt.org].freq = Radio[i].freq
            \/ x.pkt.org \in Slipped
         /\ <<h.pkt.org, h.dst, h.pkt.part>> \in Origins \X Radios \X Parts
  <1>0. PICK x, h, out : x = Work(i) /\ h = Head(Out(i)) /\ out = Tail(Out(i))
    OBVIOUS
  <1>1. /\ Busy(i) /\ Grown /\ slipped' = slipped /\ Told' = Told /\ DOMAIN job = Radios
        /\ Out(i) # <<>>
    BY DEF Push, Busy, cache, Grown, Told, BridgeInv, ShapeInv
  <1>2. HandOn(i, out) /\ Log(h.pkt, h.dst)
    BY <1>0 DEF Push
  <1>3. Working(i, x) /\ Out(i) = x.out /\ Handed(i)
    <2>1. Out(i) = x.out
      BY <1>0 DEF Out, Work
    <2>2. Working(i, x)
      BY <1>0, <1>1, <2>1, AtWork
    <2> QED BY <1>0, <1>1, <2>1, <2>2 DEF Handed, Working, Handing
  <1>4. IsSeq(x.out) /\ x.out # <<>>
    BY <1>1, <1>3 DEF Working
  <1>5. /\ h = x.out[1] /\ 1 \in 1..Len(x.out)
        /\ \A k \in 1..Len(out) : out[k] = x.out[k + 1] /\ k + 1 \in 1..Len(x.out)
    BY <1>0, <1>3, <1>4, SeqFacts
  <1>6. Left(i, x, h) /\ Handing(i, x)
    BY <1>3, <1>5 DEF Working
  <1>7. h.dst \in Route[i] /\ h.dst \in Radios
    BY <1>6, PlanFacts DEF Left, BridgeInv, ShapeInv
  <1>8. \/ Copy(x.pkt) /\ Clients[x.pkt.org].freq = Radio[i].freq
        \/ x.pkt.org \in Slipped
    <2>1. ASSUME Uplink(x.pkt) PROVE FALSE
      <3>1. NoRelay(plan)
        BY DEF BridgeInv, ShapeInv
      <3>2. Radio[i].proto = "LW" /\ Keyed # {}
        BY <1>6, <2>1 DEF Uplink, Handing
      <3> QED BY <1>7, <3>1, <3>2 DEF NoRelay, Keyed, Radio, Route, Radios
    <2> QED BY <1>6, <2>1 DEF Handing, Slipped
  <1>9. <<h.pkt.org, h.dst, h.pkt.part>> \in Origins \X Radios \X Parts
    BY <1>6, <1>7 DEF Left, Packet
  <1> QED BY <1>0, <1>1, <1>2, <1>3, <1>5, <1>6, <1>8, <1>9

\* A push counts once: nothing left to this task or to another has the same counter.
LEMMA CountPush ==
  ASSUME BridgeInv, CountInv, \A c \in Plans : NoRelay(c), NEW i \in Radios, Push(i)
  PROVE  CountInv'
  <1>1. PICK x, h, out :
          /\ x = Work(i) /\ Handed(i) /\ Grown /\ slipped' = slipped /\ Told' = Told /\ DOMAIN job = Radios
          /\ HandOn(i, out) /\ Log(h.pkt, h.dst)
          /\ Working(i, x) /\ h = x.out[1] /\ 1 \in 1..Len(x.out) /\ Left(i, x, h)
          /\ \A k \in 1..Len(out) : out[k] = x.out[k + 1] /\ k + 1 \in 1..Len(x.out)
          /\ Copy(x.pkt) \/ x.pkt.org \in Slipped
          /\ <<h.pkt.org, h.dst, h.pkt.part>> \in Origins \X Radios \X Parts
    BY PushFacts
  <1>2. PICK w : w = [pkt |-> x.pkt, at |-> x.at, out |-> out]
    OBVIOUS
  <1>3. w.pkt = x.pkt /\ w.at = x.at /\ w.out = out
    BY <1>2
  <1>4. job' = [job EXCEPT ![i] = <<w>>]
    BY <1>1, <1>2 DEF HandOn, Work
  <1>5. Unsent(i, x)
    BY <1>1 DEF CountInv
  <1>6. \A k \in 1..Len(out) : k + 1 # 1
    OBVIOUS
  <1>7. Unsent(i, w)
    <2>1. \A k, m \in 1..Len(out) : k + 1 = m + 1 => k = m
      OBVIOUS
    <2>2. Counted(x.pkt) =>
            \A k \in 1..Len(out) : out[k].pkt.kind # "nodeinfo" =>
              /\ queued[<<x.pkt.org, out[k].dst, out[k].pkt.part>>] = 0
              /\ \A m \in 1..Len(out) :
                   out[m].pkt.kind # "nodeinfo" /\ out[m].pkt.part = out[k].pkt.part => m = k
      <3> SUFFICES ASSUME Counted(x.pkt), NEW k \in 1..Len(out), out[k].pkt.kind # "nodeinfo"
                   PROVE  /\ queued[<<x.pkt.org, out[k].dst, out[k].pkt.part>>] = 0
                          /\ \A m \in 1..Len(out) :
                               out[m].pkt.kind # "nodeinfo" /\ out[m].pkt.part = out[k].pkt.part => m = k
        OBVIOUS
      <3>1. out[k] = x.out[k + 1] /\ k + 1 \in 1..Len(x.out)
        BY <1>1
      <3>2. \A m \in 1..Len(out) : out[m] = x.out[m + 1] /\ m + 1 \in 1..Len(x.out)
        BY <1>1
      <3>3. /\ queued[<<x.pkt.org, x.out[k + 1].dst, x.out[k + 1].pkt.part>>] = 0
            /\ \A m \in 1..Len(x.out) :
                 x.out[m].pkt.kind # "nodeinfo" /\ x.out[m].pkt.part = x.out[k + 1].pkt.part => m = k + 1
        BY <1>5, <3>1 DEF Unsent
      <3> QED BY <2>1, <3>1, <3>2, <3>3
    <2> QED BY <1>3, <1>5, <2>2 DEF Unsent
  <1>8. Counted(w.pkt) =>
          \A u \in Radios \ {i} : Handed(u) /\ Counted(Work(u).pkt) => Work(u).pkt.org # w.pkt.org
    BY <1>1, <1>3 DEF CountInv
  <1>9. CASE queued' = queued
    <2>1. Unsent(i, w)' /\ (Counted(w.pkt)' => Counted(w.pkt))
      BY <1>1, <1>7, <1>9, CountKept
    <2> QED BY <1>1, <1>4, <1>8, <1>9, <2>1, CountHand
  <1>10. CASE h.pkt.kind # "nodeinfo" /\ queued' # queued
    <2> DEFINE t == <<x.pkt.org, h.dst, h.pkt.part>>
    <2>1. /\ queued' = [queued EXCEPT ![t] = queued[t] + 1] /\ t \in Origins \X Radios \X Parts
          /\ x.pkt.org \in Origins /\ h.dst \in Radios /\ h.pkt.part \in Parts
      BY <1>1, <1>10 DEF Log, Left
    <2>2. queued[t] = 0 \/ x.pkt.org \in Slipped
      BY <1>1, <1>5, <1>10 DEF Unsent, Counted
    <2>3. queued \in [Origins \X Radios \X Parts -> Nat] /\ AtMostOnce
      BY DEF CountInv
    <2>4. queued' \in [Origins \X Radios \X Parts -> Nat] /\ AtMostOnce'
      <3>1. queued' \in [Origins \X Radios \X Parts -> Nat]
        BY <2>1, <2>3
      <3>2. t[1] = x.pkt.org /\ Slipped' = Slipped
        BY <1>1 DEF Slipped
      <3> HIDE DEF t
      <3>3. ASSUME NEW r \in Origins \X Radios \X Parts PROVE queued'[r] <= 1 \/ r[1] \in Slipped
        <4>1. queued[r] <= 1 \/ r[1] \in Slipped
          BY <2>3 DEF AtMostOnce
        <4>2. CASE r # t
          BY <2>1, <2>3, <4>1, <4>2
        <4>3. CASE r = t
          <5>1. queued'[t] = queued[t] + 1
            BY <2>1, <2>3
          <5>2. CASE queued[t] = 0
            BY <4>3, <5>1, <5>2
          <5> QED BY <2>2, <3>2, <4>3, <5>2
        <4> QED BY <4>2, <4>3
      <3>4. DOMAIN queued' = Origins \X Radios \X Parts
        BY <3>1
      <3> QED BY <3>1, <3>2, <3>3, <3>4 DEF AtMostOnce
    <2>5. \A o \in Origins, j \in Radios, k \in Parts :
            <<o, j, k>> # t => queued'[<<o, j, k>>] = queued[<<o, j, k>>]
      BY <2>1, <2>3
    <2>6. \A o, j, k : <<o, j, k>> = t => o = x.pkt.org /\ j = h.dst /\ k = h.pkt.part
      OBVIOUS
    <2> HIDE DEF t
    <2>7. /\ Radios' = Radios /\ Origins' = Origins /\ Clients' = Clients /\ Parts' = Parts
          /\ \A y : Counted(y)' <=> Counted(y)
      BY <1>1 DEF Grown, Radios, Radio, Origins, Clients, Parts, Copy, Counted, Slipped, Hash
    <2>8. \A u \in Radios \ {i} : (Handed(u)' <=> Handed(u)) /\ Work(u)' = Work(u)
      BY <1>1, <1>4 DEF Handed, Busy, Work
    <2>9. Work(i)' = w
      <3>1. job'[i] = <<w>> /\ <<w>>[1] = w
        BY <1>1, <1>4
      <3> QED BY <3>1 DEF Work
    <2>10. ASSUME NEW u \in Radios, NEW v \in Radios, Handed(u)', Handed(v)', Counted(Work(u).pkt)',
                  Counted(Work(v).pkt)', Work(u)'.pkt.org = Work(v)'.pkt.org
           PROVE  u = v
      BY <1>1, <1>8, <2>7, <2>8, <2>9, <2>10 DEF CountInv
    <2>11. ASSUME NEW o \in Origins, Hash(Clients[o].pkt) \notin Told, o \notin Slipped,
                  NEW j \in Radios, NEW k \in Parts
           PROVE  queued'[<<o, j, k>>] = 0
      <3>1. Hash(Clients[x.pkt.org].pkt) \in Told \/ x.pkt.org \in Slipped
        BY <1>1 DEF Copy, Working, Handing
      <3>2. o # x.pkt.org
        BY <2>11, <3>1
      <3> QED BY <2>5, <2>6, <2>11, <3>2 DEF CountInv
    <2>12. ASSUME NEW u \in Radios, Handed(u)' PROVE Unsent(u, Work(u))'
      <3>1. CASE u # i
        <4>1. PICK y : y = Work(u)
          OBVIOUS
        <4>2. Unsent(u, y) /\ Handed(u) /\ Work(u)' = y
          BY <2>8, <2>12, <3>1, <4>1 DEF CountInv
        <4>0. Working(u, y)
          BY <4>1, <4>2, AtWork DEF Handed
        <4>3. ASSUME Counted(y.pkt) PROVE y.pkt.org # x.pkt.org /\ y.pkt.org \in Origins
          <5>1. y.pkt.org \in Origins
            BY <4>0 DEF Working, Handing, Packet
          <5>2. CASE Counted(x.pkt)
            BY <1>1, <1>3, <1>8, <3>1, <4>1, <4>2, <4>3, <5>1, <5>2
          <5>3. CASE ~Counted(x.pkt)
            BY <1>1, <4>3, <5>1, <5>3 DEF Counted
          <5> QED BY <5>2, <5>3
        <4>4. ASSUME Counted(y.pkt), NEW k \in 1..Len(y.out)
              PROVE  y.out[k].dst \in Radios /\ y.out[k].pkt.part \in Parts
          BY <4>0, <4>4, PlanFacts DEF BridgeInv, ShapeInv, Working, Left, Packet
        <4>5. Unsent(u, y)'
          BY <2>5, <2>6, <2>7, <4>2, <4>3, <4>4 DEF Unsent
        <4> QED BY <4>2, <4>5
      <3>2. CASE u = i
        <4>1. \A j \in Radios : j >= w.at => j # h.dst
          <5>1. h.dst < x.at /\ x.at \in Nat /\ Radios \subseteq Nat
            BY <1>1, PlanFacts DEF Left, Working, Handing, BridgeInv, ShapeInv
          <5>2. h.dst \in Nat /\ w.at = x.at
            BY <1>3, <2>1, <5>1
          <5> QED BY <5>1, <5>2
        <4>2. Counted(x.pkt) => \A k \in 1..Len(out) :
                out[k].pkt.kind # "nodeinfo" => out[k].pkt.part # h.pkt.part
          <5>1. Counted(x.pkt) => \A k, m \in 1..Len(x.out) :
                  x.out[k].pkt.kind # "nodeinfo" /\ x.out[m].pkt.kind # "nodeinfo"
                  /\ x.out[m].pkt.part = x.out[k].pkt.part => m = k
            BY <1>1, <1>5 DEF Unsent
          <5> QED BY <1>1, <1>6, <1>10, <5>1
        <4>3. ASSUME NEW k \in 1..Len(out) PROVE out[k].dst \in Radios /\ out[k].pkt.part \in Parts
          <5>1. Left(i, x, out[k])
            BY <1>1 DEF Working
          <5> QED BY <5>1, PlanFacts DEF BridgeInv, ShapeInv, Left, Packet
        <4>4. ASSUME Counted(w.pkt)
              PROVE  /\ \A j \in Radios, k \in Parts : j >= w.at => queued'[<<w.pkt.org, j, k>>] = 0
                     /\ \A k \in 1..Len(w.out) : w.out[k].pkt.kind # "nodeinfo" =>
                          queued'[<<w.pkt.org, w.out[k].dst, w.out[k].pkt.part>>] = 0
          <5>1. Counted(x.pkt) /\ w.pkt.org = x.pkt.org /\ w.out = out
            BY <1>3, <4>4
          <5>2. \A j \in Radios, k \in Parts : j >= w.at => queued[<<w.pkt.org, j, k>>] = 0
            BY <1>7, <4>4 DEF Unsent
          <5>3. \A k \in 1..Len(out) : out[k].pkt.kind # "nodeinfo" =>
                  queued[<<w.pkt.org, out[k].dst, out[k].pkt.part>>] = 0
            BY <1>7, <4>4, <5>1 DEF Unsent
          <5>4. \A j \in Radios, k \in Parts : j >= w.at => <<w.pkt.org, j, k>> # t
            BY <2>6, <4>1
          <5>5. \A k \in 1..Len(out) : out[k].pkt.kind # "nodeinfo" =>
                  <<w.pkt.org, out[k].dst, out[k].pkt.part>> # t
            BY <2>6, <4>2, <5>1
          <5>6. \A j \in Radios, k \in Parts : j >= w.at => queued'[<<w.pkt.org, j, k>>] = 0
            BY <2>1, <2>5, <5>1, <5>2, <5>4
          <5>7. \A k \in 1..Len(out) : out[k].pkt.kind # "nodeinfo" =>
                  queued'[<<w.pkt.org, out[k].dst, out[k].pkt.part>>] = 0
            BY <2>1, <2>5, <4>3, <5>1, <5>3, <5>5
          <5> QED BY <5>1, <5>6, <5>7
        <4>5. Unsent(i, w)'
          BY <1>7, <2>7, <4>4 DEF Unsent
        <4> QED BY <2>9, <3>2, <4>5
      <3> QED BY <3>1, <3>2
    <2>13. \A o \in Origins' : Hash(Clients[o].pkt)' \notin Told' /\ o \notin Slipped' =>
             \A j \in Radios', k \in Parts' : queued'[<<o, j, k>>] = 0
      <3>1. Slipped' = Slipped /\ Told' = Told
        BY <1>1 DEF Slipped
      <3>2. \A o \in Origins : Hash(Clients[o].pkt)' = Hash(Clients[o].pkt)
        BY <2>7 DEF Hash
      <3> QED BY <2>7, <2>11, <3>1, <3>2
    <2> QED BY <2>4, <2>7, <2>10, <2>12, <2>13 DEF CountInv
  <1> QED BY <1>1, <1>9, <1>10 DEF Log

\* A step that neither lets a packet pass nor queues anything.
Idle ==
  /\ Grown /\ Told' = Told /\ UNCHANGED <<plan, accepted, slipped, queued>>
  /\ \A u \in Radios : late'[u] \subseteq late[u] \cup Told
  /\ \A u \in Radios : Handed(u)' => Handed(u) /\ Work(u)' = Work(u)
  /\ \A u \in Radios : Busy(u)' => (Busy(u) /\ Work(u)' = Work(u)) \/ Work(u)'.out = <<>>

\* The steps that leave the counters and the tasks' work alone.
LEMMA OtherSteps ==
  ASSUME BridgeInv, [Next]_vars
  PROVE  \/ \E i \in Radios : \E p : Heard(i, p) /\ HearNew(i, p)
         \/ \E i \in Radios : NextDest(i) \/ Record(i) \/ EncodeFail(i) \/ Push(i)
         \/ Idle
  <1>0. Grown /\ DOMAIN job = Radios
    BY OnlyGrows DEF BridgeInv, ShapeInv
  <1>1. ASSUME UNCHANGED <<plan, accepted, slipped, queued, job, seen, lost, late>> PROVE Idle
    BY <1>0, <1>1 DEF Idle, Handed, Busy, Work, Told
  <1>2. ASSUME NEW i \in Radios, FanoutDone(i) PROVE Idle
    <2>1. \A u \in Radios : job'[u] = IF u = i THEN <<>> ELSE job[u]
      BY <1>0, <1>2 DEF FanoutDone
    <2>2. \A u \in Radios : Busy(u)' => Busy(u) /\ Work(u)' = Work(u)
      BY <2>1 DEF Busy, Work
    <2>3. UNCHANGED <<plan, accepted, slipped, queued, seen, lost, late>>
      BY <1>2 DEF FanoutDone, past, cache
    <2> QED BY <1>0, <2>2, <2>3 DEF Idle, Handed, Told
  <1>3. ASSUME \/ \E o \in Origins : ClientSends(o)
               \/ \E f \in Freqs : Flood(f)
               \/ \E i \in Radios : Transmit(i) \/ Discard(i) \/ RecordHeldUp(i)
               \/ \E i \in Radios : \E p : HearNodeInfo(i, p)
               \/ UNCHANGED vars
        PROVE  UNCHANGED <<plan, accepted, slipped, queued, job, seen, lost, late>>
    BY <1>3 DEF ClientSends, Flood, Transmit, Discard, RecordHeldUp, HeldUp, HearNodeInfo, vars,
                past, cache
  <1>4. ASSUME NEW i \in Radios, NEW p, HearDuplicate(i, p) \/ HearHeldUp(i, p) PROVE Idle
    <2>1. PICK w : w = [pkt |-> p, at |-> 0, out |-> <<>>]
      OBVIOUS
    <2>2. w.at = 0 /\ w.out = <<>> /\ <<w>>[1] = w
      BY <2>1
    <2>3. job' = [job EXCEPT ![i] = <<>>] \/ job' = [job EXCEPT ![i] = <<w>>]
      BY <1>4, <2>1 DEF HearDuplicate, HearHeldUp
    <2>4. \A u \in Radios \ {i} : job'[u] = job[u]
      BY <1>0, <2>3
    <2>5. job'[i] = <<>> \/ job'[i] = <<w>>
      BY <1>0, <2>3
    <2>6. Busy(i)' => Work(i)' = w
      BY <2>2, <2>5 DEF Busy, Work
    <2>7. \A u \in Radios \ {i} : (Busy(u)' <=> Busy(u)) /\ Work(u)' = Work(u)
      BY <2>4 DEF Busy, Work
    <2>8. \A u \in Radios : Handed(u)' => Handed(u) /\ Work(u)' = Work(u)
      BY <2>2, <2>6, <2>7 DEF Handed
    <2>9. \A u \in Radios : Busy(u)' => (Busy(u) /\ Work(u)' = Work(u)) \/ Work(u)'.out = <<>>
      BY <2>2, <2>6, <2>7
    <2>10. /\ Told' = Told /\ UNCHANGED <<plan, accepted, slipped, queued>>
           /\ \A u \in Radios : late'[u] \subseteq late[u] \cup Told
      BY <1>4, DropFacts
    <2> QED BY <1>0, <2>8, <2>9, <2>10 DEF Idle
  <1>5. ASSUME NEW i \in Radios, Hear(i) \/ Resume(i)
        PROVE  Idle \/ \E p : Heard(i, p) /\ HearNew(i, p)
    BY <1>1, <1>3, <1>4, <1>5, Guarded
  <1> QED BY <1>1, <1>2, <1>3, <1>5 DEF Next, Task

\* Every step keeps the counters right.
LEMMA CountStep ==
  ASSUME \A c \in Plans : NoRelay(c)
  PROVE  BridgeInv /\ CountInv /\ [Next]_vars => CountInv'
  <1> SUFFICES ASSUME BridgeInv, CountInv, [Next]_vars PROVE CountInv'
    OBVIOUS
  <1>1. ASSUME NEW i \in Radios, NEW p, Heard(i, p), HearNew(i, p) PROVE CountInv'
    BY <1>1, CountHear
  <1>2. ASSUME NEW i \in Radios, NextDest(i) \/ Record(i) \/ EncodeFail(i) \/ Push(i) PROVE CountInv'
    BY <1>2, CountDest, CountRecord, CountPush
  <1>3. CASE Idle
    BY <1>3, CountIdle DEF Idle
  <1> QED BY <1>1, <1>2, <1>3, OtherSteps

\* Nothing is counted at the start.
LEMMA CountStart == Init => CountInv
  BY DEF Init, CountInv, Handed, Busy, AtMostOnce

\* In a bridge that relays no LoRaWAN uplinks of its own, no message, and no fragment of one, is
\* queued twice for a destination, unless one of its packets slipped through two overlapping
\* calls of the guard.  The hypothesis is needed: the guard does not know the bridge's own
\* uplinks, and a copy of one that it hears is handed on as something new.
THEOREM QueuedOnce == (\A c \in Plans : NoRelay(c)) => (Spec => []AtMostOnce)
  <1> SUFFICES ASSUME \A c \in Plans : NoRelay(c) PROVE Spec => []AtMostOnce
    OBVIOUS
  <1>1. BridgeInv /\ CountInv /\ [Next]_vars => CountInv'
    BY CountStep
  <1>2. CountInv => AtMostOnce
    BY DEF CountInv
  <1> QED BY <1>1, <1>2, BridgeStart, BridgeStep, CountStart, PTL DEF Spec

\* If moreover no two radios share a frequency, no message of which nothing slipped through is
\* queued for the frequency it came from: what is handed on is a client's packet, heard on the
\* client's frequency, and a routing row does not name its own radio.
THEOREM NothingReturns ==
  (\A c \in Plans : NoRelay(c) /\ Apart(c)) => (Spec => []NoReturn)
  <1> SUFFICES ASSUME \A c \in Plans : NoRelay(c) /\ Apart(c) PROVE Spec => []NoReturn
    OBVIOUS
  <1>1. Init => NoReturn
    BY DEF Init, NoReturn
  <1>2. BridgeInv /\ CountInv /\ [Next]_vars => CountInv'
    BY CountStep
  <1>3. BridgeInv /\ CountInv /\ NoReturn /\ [Next]_vars => NoReturn'
    <2> SUFFICES ASSUME BridgeInv, CountInv, NoReturn, [Next]_vars PROVE NoReturn'
      OBVIOUS
    <2>1. plan' = plan /\ Slipped \subseteq Slipped'
      BY OnlyGrows DEF Grown, Slipped
    <2>2. CASE queued' = queued
      BY <2>1, <2>2 DEF NoReturn, Origins, Radios, Parts, Radio, Clients
    <2>3. ASSUME NEW i \in Radios, Push(i) PROVE NoReturn'
      <3>1. PICK x, h, out :
              /\ Log(h.pkt, h.dst) /\ Left(i, x, h)
              /\ Clients[x.pkt.org].freq = Radio[i].freq \/ x.pkt.org \in Slipped
              /\ <<h.pkt.org, h.dst, h.pkt.part>> \in Origins \X Radios \X Parts
        BY <2>3, PushFacts
      <3> DEFINE t == <<h.pkt.org, h.dst, h.pkt.part>>
      <3>2. h.dst \in Route[i] /\ h.dst \in Radios /\ h.dst # i /\ h.pkt.org = x.pkt.org
        BY <3>1, PlanFacts DEF Left, BridgeInv, ShapeInv
      <3>3. Radio[h.dst].freq # Clients[h.pkt.org].freq \/ h.pkt.org \in Slipped
        <4>1. Apart(plan)
          BY DEF BridgeInv, ShapeInv
        <4> QED BY <3>1, <3>2, <4>1 DEF Apart, Radio, Radios
      <3>4. queued' = queued \/ queued' = [queued EXCEPT ![t] = queued[t] + 1]
        BY <3>1 DEF Log
      <3>5. ASSUME NEW o \in Origins, NEW j \in Radios, NEW k \in Parts, Radio[j].freq = Clients[o].freq
            PROVE  queued'[<<o, j, k>>] = 0 \/ o \in Slipped
        <4>1. <<o, j, k>> # t \/ o \in Slipped
          BY <3>3, <3>5
        <4>2. queued[<<o, j, k>>] = 0 \/ o \in Slipped
          BY <3>5 DEF NoReturn
        <4>3. <<o, j, k>> \in DOMAIN queued
          BY DEF CountInv
        <4> HIDE DEF t
        <4> QED BY <3>4, <4>1, <4>2, <4>3
      <3> QED BY <2>1, <3>5 DEF NoReturn, Origins, Radios, Parts, Radio, Clients
    <2>4. queued' = queued \/ \E i \in Radios : Push(i)
      <3>1. ASSUME NEW i \in Radios, NextDest(i) \/ EncodeFail(i) PROVE queued' = queued
        BY <3>1 DEF NextDest, EncodeFail, past
      <3> QED BY <3>1, OtherSteps, PassFacts, RecordFacts DEF Idle
    <2> QED BY <2>2, <2>3, <2>4
  <1> QED BY <1>1, <1>2, <1>3, BridgeStart, BridgeStep, CountStart, PTL DEF Spec

\* No call of the guard has been held up, so none has missed or overwritten an entry.
Alone ==
  /\ plan.stalls = 0 /\ stalls = 0 /\ calls = <<>> /\ lost = {} /\ slipped = {}
  /\ \A i \in Radios : late[i] = {}

\* Every step leaves it so in a bridge whose calls do not overlap.
LEMMA AloneStep == BridgeInv /\ Alone /\ [Next]_vars => Alone'
  <1> SUFFICES ASSUME BridgeInv, Alone, [Next]_vars PROVE Alone'
    OBVIOUS
  <1>0. plan' = plan /\ Radios' = Radios
    BY OnlyGrows DEF Grown, Radios, Radio
  <1>1. ASSUME UNCHANGED <<cache, slipped>> PROVE Alone'
    BY <1>0, <1>1 DEF Alone, cache
  <1>2. ASSUME NEW i \in Radios, NEW hs, CacheInsert(i, hs), slipped' = {} PROVE Alone'
    <2>1. PICK x \in Overwritten(i, hs) :
            /\ lost' = (lost \cup x) \ hs /\ UNCHANGED stalls
            /\ calls' = IF InCall(i) THEN SelectSeq(calls, LAMBDA u : u # i) ELSE calls
            /\ late' = [u \in Radios |->
                 IF u = i \/ ~InCall(u) THEN {}
                 ELSE IF ReadBefore(u, i) THEN (late[u] \ x) \cup hs ELSE (late[u] \ x) \ hs]
      BY <1>2 DEF CacheInsert
    <2>2. x = {}
      BY <2>1 DEF Overwritten, Alone
    <2>3. \A u \in Radios : ~InCall(u)
      BY DEF InCall, Alone
    <2>4. \A u \in Radios : late'[u] = {}
      BY <2>1, <2>3
    <2>5. calls' = <<>>
      BY <2>1, <2>3 DEF Alone
    <2>6. lost' = {}
      BY <2>1, <2>2 DEF Alone
    <2> QED BY <1>0, <1>2, <2>1, <2>4, <2>5, <2>6 DEF Alone
  <1>3. ASSUME NEW i \in Radios, NEW p, HearDuplicate(i, p) \/ HearNew(i, p) PROVE Alone'
    <2>1. CacheInsert(i, {Hash(p)})
      BY <1>3 DEF HearDuplicate, HearNew
    <2>2. slipped' = {}
      BY <1>3 DEF HearDuplicate, HearNew, Pass, Alone
    <2> QED BY <1>2, <2>1, <2>2
  <1>4. ~ \E i \in Radios : HeldUp(i)
    BY DEF HeldUp, Alone
  <1>5. ASSUME NEW i \in Radios, Hear(i) \/ Resume(i) PROVE Alone'
    <2>1. CASE Hear(i)
      <3>1. PICK p \in ether[Radio[i].freq] : HearNodeInfo(i, p) \/ HearPacket(i, p)
        BY <2>1 DEF Hear
      <3>2. CASE HearNodeInfo(i, p)
        BY <1>1, <3>2 DEF HearNodeInfo, past
      <3>3. CASE HearPacket(i, p)
        BY <1>3, <1>4, <3>3 DEF HearPacket, HearHeldUp
      <3> QED BY <3>1, <3>2, <3>3
    <2>2. CASE Resume(i)
      BY <1>3, <2>2 DEF Resume
    <2> QED BY <1>5, <2>1, <2>2
  <1>6. ASSUME NEW i \in Radios, Record(i) PROVE Alone'
    <2>1. CacheInsert(i, Head(Out(i)).rec)
      BY <1>6 DEF Record
    <2>2. slipped' = {}
      BY <1>6 DEF Record, past, Alone
    <2> QED BY <1>2, <2>1, <2>2
  <1>7. ASSUME NEW i \in Radios, RecordHeldUp(i) PROVE FALSE
    BY <1>4, <1>7 DEF RecordHeldUp
  <1>8. ASSUME NEW i \in Radios, NextDest(i) \/ FanoutDone(i) \/ EncodeFail(i) \/ Push(i)
        PROVE  Alone'
    BY <1>1, <1>8 DEF NextDest, FanoutDone, EncodeFail, Push, past
  <1>9. ASSUME NEW i \in Radios, Transmit(i) \/ Discard(i) PROVE Alone'
    BY <1>1, <1>9 DEF Transmit, Discard, past
  <1>10. ASSUME NEW o \in Origins, ClientSends(o) PROVE Alone'
    BY <1>1, <1>10 DEF ClientSends, past
  <1>11. ASSUME NEW f \in Freqs, Flood(f) PROVE Alone'
    BY <1>1, <1>11 DEF Flood, past
  <1>12. CASE UNCHANGED vars
    BY <1>1, <1>12 DEF vars, past
  <1> QED BY <1>5, <1>6, <1>7, <1>8, <1>9, <1>10, <1>11, <1>12 DEF Next, Task

\* AtMostOnce and NoReturn without their exception.
Strict ==
  /\ \A t \in DOMAIN queued : queued[t] <= 1
  /\ \A o \in Origins, j \in Radios, k \in Parts :
       Radio[j].freq = Clients[o].freq => queued[<<o, j, k>>] = 0

\* Where no call of the guard is held up between reading the clock and taking the lock, no
\* message is queued twice for a destination and none for the frequency it came from, however
\* the radio tasks interleave.
THEOREM StrictAlone ==
  (\A c \in Plans : NoRelay(c) /\ Apart(c) /\ c.stalls = 0) => (Spec => []Strict)
  <1> SUFFICES ASSUME \A c \in Plans : NoRelay(c) /\ Apart(c) /\ c.stalls = 0
               PROVE  Spec => []Strict
    OBVIOUS
  <1>1. Spec => []AtMostOnce
    BY QueuedOnce
  <1>2. Spec => []NoReturn
    BY NothingReturns
  <1>3. Init => Alone
    <2> SUFFICES ASSUME Init PROVE Alone
      OBVIOUS
    <2>1. plan.stalls = 0
      BY DEF Init
    <2>2. \A i \in Radios : late[i] = {}
      BY DEF Init
    <2> QED BY <2>1, <2>2 DEF Init, Alone
  <1>4. AtMostOnce /\ NoReturn /\ Alone => Strict
    BY DEF AtMostOnce, NoReturn, Alone, Slipped, Strict
  <1> QED BY <1>1, <1>2, <1>3, <1>4, AloneStep, BridgeStart, BridgeStep, PTL DEF Spec

\* A hash that is recorded for an emission made from p is no client's but p's own.
LEMMA OwnKnown ==
  ASSUME plan \in Plans, \A c \in Plans : Distinct(c), NEW p, NEW s, Own(p, s), s # Hash(p)
  PROVE  Known(s)
  <1> SUFFICES ASSUME NEW o \in Origins, Hash(Clients[o].pkt) = s PROVE FALSE
    BY DEF Known
  <1>1. PICK x : x = Clients[o].pkt
    OBVIOUS
  <1>2. IF x.proto = "MT" THEN x.pid # NoPid /\ x.pid[1] \notin {"own", "fcnt"} ELSE ~Marked(x.body)
    BY <1>1 DEF Distinct, Clients, Origins
  <1>3. CASE x.proto = "MT"
    <2>1. s[3] = x.pid
      BY <1>1, <1>3 DEF Hash
    <2> QED BY <1>2, <1>3, <2>1 DEF Own
  <1>4. CASE x.proto # "MT"
    <2>1. s[3] = NoPid /\ s[1] = x.body
      BY <1>1, <1>4 DEF Hash
    <2>2. NoPid[1] = "nopid"
      BY DEF NoPid
    <2> QED BY <1>2, <1>4, <2>1, <2>2 DEF Own
  <1> QED BY <1>3, <1>4

\* What is known stays known.
LEMMA KnownKept ==
  ASSUME plan' = plan, accepted \subseteq accepted', NEW s PROVE Known(s) => Known(s)'
  BY DEF Known, Forwarded, Origins, Clients, Hash

\* A client's packet, and an uplink of the bridge's own, shares its hash with no other client's.
LEMMA OneClient ==
  ASSUME plan \in Plans, \A c \in Plans : Distinct(c), NEW p, Packet(p), Copy(p) \/ Uplink(p),
         NEW o \in Origins, Hash(Clients[o].pkt) = Hash(p)
  PROVE  o = p.org
  <1>1. CASE Copy(p)
    <2>1. p.org \in Origins /\ Hash(Clients[p.org].pkt) = Hash(Clients[o].pkt)
      BY <1>1 DEF Copy, Packet
    <2> QED BY <2>1 DEF Distinct, Clients, Origins
  <1>2. CASE Uplink(p)
    <2>1. PICK x : x = Clients[o].pkt
      OBVIOUS
    <2>2. IF x.proto = "MT" THEN x.pid # NoPid ELSE ~Marked(x.body)
      BY <2>1 DEF Distinct, Clients, Origins
    <2>3. Hash(p) = <<p.body, None, NoPid>> /\ Marked(p.body)
      BY <1>2 DEF Uplink, Hash, Marked
    <2>4. x.proto = "MT" => x.pid = NoPid
      BY <2>1, <2>3 DEF Hash
    <2>5. x.proto # "MT" => x.body = p.body
      BY <2>1, <2>3 DEF Hash
    <2> QED BY <2>2, <2>3, <2>4, <2>5
  <1> QED BY <1>1, <1>2

\* The packet the guard lets pass is known from now on.
LEMMA SeenHear ==
  ASSUME BridgeInv, \A c \in Plans : Distinct(c), SeenInv,
         NEW i \in Radios, NEW p, Heard(i, p), HearNew(i, p)
  PROVE  SeenInv'
  <1>1. /\ plan' = plan /\ accepted' = accepted \cup {p} /\ plan \in Plans
        /\ Told' \subseteq Told \cup {Hash(p)} \cup late[i]
        /\ \A u \in Radios : late'[u] \subseteq late[u] \cup {Hash(p)}
    BY PassFacts DEF BridgeInv, ShapeInv
  <1>2. DOMAIN job = Radios /\ job' = [job EXCEPT ![i] = <<[pkt |-> p, at |-> 1, out |-> <<>>]>>]
    BY PassFacts DEF BridgeInv, ShapeInv
  <1>4. \A s : Known(s) => Known(s)'
    BY <1>1, KnownKept
  <1>5. Known(Hash(p))'
    <2>1. CASE Hash(p) \in Told
      BY <1>4, <2>1 DEF SeenInv
    <2>2. CASE Hash(p) \notin Told
      <3>1. Packet(p) /\ (Copy(p) \/ Uplink(p))
        BY <2>2 DEF Heard, Ours, Remembered
      <3>2. \A o \in Origins : Hash(Clients[o].pkt) = Hash(p) => o = p.org
        BY <1>1, <3>1, OneClient
      <3>3. \A o \in Origins : Hash(Clients[o].pkt) = Hash(p) => o \in Forwarded'
        BY <1>1, <3>2 DEF Forwarded
      <3> QED BY <1>1, <3>3 DEF Known, Origins, Clients, Hash
    <2> QED BY <2>1, <2>2
  <1>6. (\A s \in Told' : Known(s)') /\ (\A u \in Radios : \A s \in late'[u] : Known(s)')
    BY <1>1, <1>4, <1>5 DEF SeenInv
  <1>7. ASSUME NEW u \in Radios, Busy(u)', NEW k \in 1..Len(Work(u)'.out), NEW s \in Work(u)'.out[k].rec
        PROVE  Known(s)'
    <2>1. CASE u = i
      <3>1. job'[i] = <<[pkt |-> p, at |-> 1, out |-> <<>>]>>
        BY <1>2
      <3>2. Work(i)'.out = <<>>
        BY <3>1 DEF Work
      <3>3. Len(<<>>) = 0
        OBVIOUS
      <3> QED BY <1>7, <2>1, <3>2, <3>3
    <2>2. CASE u # i
      <3>1. Work(u)' = Work(u) /\ Busy(u)
        BY <1>2, <1>7, <2>2 DEF Work, Busy
      <3> QED BY <1>4, <1>7, <3>1 DEF SeenInv
    <2> QED BY <2>1, <2>2
  <1>8. Radios' = Radios
    BY <1>1 DEF Radios, Radio
  <1> QED BY <1>6, <1>7, <1>8 DEF SeenInv

\* A task goes on with hashes to record that are known, and may record one of them.
LEMMA SeenHand ==
  ASSUME BridgeInv, SeenInv, plan' = plan, accepted' = accepted, \A s \in Told' : Known(s),
         \A u \in Radios : \A s \in late'[u] : Known(s), NEW i \in Radios, NEW w, job' = [job EXCEPT ![i] = <<w>>],
         \A k \in 1..Len(w.out) : \A s \in w.out[k].rec : Known(s)
  PROVE  SeenInv'
  <1>1. \A s : Known(s) => Known(s)'
    BY KnownKept
  <1>2. \A u \in Radios \ {i} : (Busy(u)' <=> Busy(u)) /\ Work(u)' = Work(u)
    BY DEF Busy, Work, BridgeInv, ShapeInv
  <1>3. Work(i)' = w
    <2>1. job'[i] = <<w>> /\ <<w>>[1] = w
      BY DEF BridgeInv, ShapeInv
    <2> QED BY <2>1 DEF Work
  <1>4. ASSUME NEW u \in Radios, Busy(u)', NEW k \in 1..Len(Work(u)'.out), NEW s \in Work(u)'.out[k].rec
        PROVE  Known(s)'
    BY <1>1, <1>2, <1>3, <1>4 DEF SeenInv
  <1>5. Radios' = Radios
    BY DEF Radios, Radio
  <1> QED BY <1>1, <1>4, <1>5 DEF SeenInv

\* The fan-out turns to a destination.
LEMMA SeenDest ==
  ASSUME BridgeInv, \A c \in Plans : Distinct(c), SeenInv, NEW i \in Radios, NextDest(i)
  PROVE  SeenInv'
  <1>1. /\ Handed(i) /\ plan' = plan /\ Told' = Told /\ late' = late /\ accepted' = accepted
        /\ DOMAIN job = Radios /\ plan \in Plans
    BY DEF NextDest, Asking, Handed, Busy, Work, past, cache, Told, BridgeInv, ShapeInv
  <1>2. PICK j \in Route[i] :
          LET o == Outputs(i, job[i][1].pkt, j, built + 1) IN
            job' = [job EXCEPT ![i] =
              <<[pkt |-> job[i][1].pkt, at |-> j + 1,
                 out |-> [k \in 1..Len(o) |-> [dst |-> j, pkt |-> o[k].pkt, rec |-> o[k].rec]]]>>]
    BY DEF NextDest
  <1>3. PICK o : o = Outputs(i, Work(i).pkt, j, built + 1)
    OBVIOUS
  <1>4. PICK out : out = For(j, o)
    OBVIOUS
  <1>5. PICK w : w = [pkt |-> Work(i).pkt, at |-> j + 1, out |-> out]
    OBVIOUS
  <1>6. job' = [job EXCEPT ![i] = <<w>>]
    BY <1>2, <1>3, <1>4, <1>5 DEF Work, For
  <1>7. /\ Fine(Work(i).pkt, o) /\ Len(out) = Len(o)
        /\ \A k \in 1..Len(o) : out[k].rec = o[k].rec
    <2>1. Busy(i) /\ Work(i).at # 0
      BY <1>1 DEF Handed
    <2> QED BY <1>3, <1>4, <2>1, DestOut
  <1>8. ASSUME NEW k \in 1..Len(out), NEW s \in out[k].rec PROVE Known(s)
    <2>1. Own(Work(i).pkt, s)
      BY <1>7 DEF Fine, Emitted
    <2>2. Known(Hash(Work(i).pkt))
      BY <1>1, AtWork DEF Handed, Working, Handing, SeenInv
    <2> QED BY <1>1, <2>1, <2>2, OwnKnown
  <1>9. \A k \in 1..Len(w.out) : \A s \in w.out[k].rec : Known(s)
    BY <1>5, <1>8
  <1>10. (\A s \in Told' : Known(s)) /\ (\A u \in Radios : \A s \in late'[u] : Known(s))
    BY <1>1 DEF SeenInv
  <1> QED BY <1>1, <1>6, <1>9, <1>10, SeenHand

\* What was to be recorded is recorded, abandoned or queued.
LEMMA SeenRest ==
  ASSUME BridgeInv, SeenInv, NEW i \in Radios, Record(i) \/ EncodeFail(i) \/ Push(i)
  PROVE  SeenInv'
  <1>1. /\ Busy(i) /\ plan' = plan /\ accepted' = accepted /\ DOMAIN job = Radios /\ Out(i) # <<>>
    BY DEF Record, EncodeFail, Push, Busy, past, BridgeInv, ShapeInv
  <1>2. PICK x : x = Work(i)
    OBVIOUS
  <1>3. /\ Out(i) = x.out /\ IsSeq(x.out) /\ x.out # <<>>
        /\ \A k \in 1..Len(x.out) : \A s \in x.out[k].rec : Known(s)
    <2>1. Out(i) = x.out
      BY <1>2 DEF Out, Work
    <2>2. Working(i, x)
      BY <1>1, <1>2, <2>1, AtWork
    <2> QED BY <1>1, <1>2, <2>1, <2>2 DEF Working, SeenInv
  <1>4. PICK h : h = Head(x.out)
    OBVIOUS
  <1>5. h = x.out[1] /\ 1 \in 1..Len(x.out)
    BY <1>3, <1>4, SeqFacts
  <1>6. ASSUME NEW out, HandOn(i, out), \A k \in 1..Len(out) : \A s \in out[k].rec : Known(s),
               Told' \subseteq Told \cup h.rec \cup late[i],
               \A u \in Radios : late'[u] \subseteq late[u] \cup h.rec
        PROVE  SeenInv'
    <2>1. PICK w : w = [pkt |-> x.pkt, at |-> x.at, out |-> out]
      OBVIOUS
    <2>2. job' = [job EXCEPT ![i] = <<w>>] /\ w.out = out
      BY <1>2, <1>6, <2>1 DEF HandOn, Work
    <2>3. (\A s \in Told' : Known(s)) /\ (\A u \in Radios : \A s \in late'[u] : Known(s))
      BY <1>3, <1>5, <1>6 DEF SeenInv
    <2> QED BY <1>1, <1>6, <2>2, <2>3, SeenHand
  <1>7. CASE EncodeFail(i)
    <2>1. PICK out : out = <<>>
      OBVIOUS
    <2>2. HandOn(i, out) /\ Len(out) = 0 /\ Told' = Told /\ late' = late
      BY <1>7, <2>1 DEF EncodeFail, cache, Told
    <2> QED BY <1>6, <2>2
  <1>8. CASE Record(i)
    <2>1. PICK e : e = [dst |-> h.dst, pkt |-> h.pkt, rec |-> {}]
      OBVIOUS
    <2>2. PICK out : out = [x.out EXCEPT ![1] = e]
      OBVIOUS
    <2>3. HandOn(i, out)
      BY <1>3, <1>4, <1>8, <2>1, <2>2 DEF Record
    <2>7. /\ Told' \subseteq Told \cup h.rec \cup late[i]
          /\ \A u \in Radios : late'[u] \subseteq late[u] \cup h.rec
      BY <1>3, <1>4, <1>8, RecordFacts
    <2>4. Len(out) = Len(x.out) /\ out[1] = e /\ \A k \in 1..Len(out) : k = 1 \/ out[k] = x.out[k]
      BY <1>3, <2>2, FirstFacts
    <2>5. e.rec = {}
      BY <2>1
    <2>6. \A k \in 1..Len(out) : \A s \in out[k].rec : Known(s)
      BY <1>3, <2>4, <2>5
    <2> QED BY <1>6, <2>3, <2>6, <2>7
  <1>9. CASE Push(i)
    <2>1. PICK out : out = Tail(x.out)
      OBVIOUS
    <2>2. HandOn(i, out) /\ Told' = Told /\ late' = late
      BY <1>3, <1>9, <2>1 DEF Push, cache, Told
    <2>3. \A k \in 1..Len(out) : out[k] = x.out[k + 1] /\ k + 1 \in 1..Len(x.out)
      BY <1>3, <2>1, SeqFacts
    <2>4. \A k \in 1..Len(out) : \A s \in out[k].rec : Known(s)
      BY <1>3, <2>3
    <2> QED BY <1>6, <2>2, <2>4
  <1> QED BY <1>7, <1>8, <1>9

\* Every step keeps the guard's hashes known.
LEMMA SeenStep ==
  ASSUME \A c \in Plans : Distinct(c)
  PROVE  BridgeInv /\ SeenInv /\ [Next]_vars => SeenInv'
  <1> SUFFICES ASSUME BridgeInv, SeenInv, [Next]_vars PROVE SeenInv'
    OBVIOUS
  <1>1. ASSUME NEW i \in Radios, NEW p, Heard(i, p), HearNew(i, p) PROVE SeenInv'
    BY <1>1, SeenHear
  <1>2. ASSUME NEW i \in Radios, NextDest(i) \/ Record(i) \/ EncodeFail(i) \/ Push(i) PROVE SeenInv'
    BY <1>2, SeenDest, SeenRest
  <1>3. CASE Idle
    <2>1. \A s : Known(s) => Known(s)'
      BY <1>3, KnownKept DEF Idle
    <2>2. ASSUME NEW u \in Radios, Busy(u)', NEW k \in 1..Len(Work(u)'.out), NEW s \in Work(u)'.out[k].rec
          PROVE  Known(s)'
      <3>1. CASE Work(u)'.out = <<>>
        BY <2>2, <3>1
      <3>2. CASE Busy(u) /\ Work(u)' = Work(u)
        BY <2>1, <2>2, <3>2 DEF SeenInv
      <3> QED BY <1>3, <2>2, <3>1, <3>2 DEF Idle
    <2>3. Radios' = Radios
      BY <1>3 DEF Idle, Radios, Radio
    <2>4. (\A s \in Told' : Known(s)') /\ (\A u \in Radios : \A s \in late'[u] : Known(s)')
      BY <1>3, <2>1 DEF Idle, SeenInv
    <2> QED BY <2>2, <2>3, <2>4 DEF SeenInv
  <1> QED BY <1>1, <1>2, <1>3, OtherSteps

\* If clients' packets differ from one another and from what the bridge composes, a packet is
\* dropped only when its message has passed the guard before.  Where two clients' MeshCore texts
\* are equal, or a client sends what the bridge would, the second is lost: for those protocols
\* the hash knows the content only.
THEOREM OnlyDuplicatesDropped ==
  (\A c \in Plans : Distinct(c)) => (Spec => []DropsOnlyDuplicates)
  <1> SUFFICES ASSUME \A c \in Plans : Distinct(c) PROVE Spec => []DropsOnlyDuplicates
    OBVIOUS
  <1>1. Init => SeenInv /\ DropsOnlyDuplicates
    BY DEF Init, SeenInv, DropsOnlyDuplicates, Busy, Told
  <1>2. BridgeInv /\ SeenInv /\ [Next]_vars => SeenInv'
    BY SeenStep
  <1>3. BridgeInv /\ SeenInv /\ DropsOnlyDuplicates /\ [Next]_vars => DropsOnlyDuplicates'
    <2> SUFFICES ASSUME BridgeInv, SeenInv, DropsOnlyDuplicates, [Next]_vars
                 PROVE  DropsOnlyDuplicates'
      OBVIOUS
    <2>1. accepted \subseteq accepted'
      BY OnlyGrows DEF Grown
    <2>2. CASE dropped' = dropped
      BY <2>1, <2>2 DEF DropsOnlyDuplicates
    <2>3. ASSUME NEW i \in Radios, NEW p, Heard(i, p), HearDuplicate(i, p)
          PROVE  DropsOnlyDuplicates'
      <3>1. dropped' = dropped \cup {p.org} /\ Hash(p) \in seen
        BY <2>3 DEF HearDuplicate
      <3>2. p.org \in Forwarded
        BY <2>3, <3>1 DEF Heard, Ours, Copy, SeenInv, Told, Known, Packet
      <3> QED BY <2>1, <3>1, <3>2 DEF DropsOnlyDuplicates, Forwarded
    <2>4. ASSUME NEW i \in Radios, Hear(i) \/ Resume(i)
          PROVE  dropped' = dropped \/ \E p : Heard(i, p) /\ HearDuplicate(i, p)
      <3>1. ASSUME NEW p, HearNodeInfo(i, p) \/ HearHeldUp(i, p) PROVE dropped' = dropped
        BY <3>1 DEF HearNodeInfo, HearHeldUp, past
      <3> QED BY <2>4, <3>1, Guarded, PassFacts
    <2>5. ASSUME \/ \E o \in Origins : ClientSends(o)
                 \/ \E f \in Freqs : Flood(f)
                 \/ UNCHANGED vars
          PROVE  dropped' = dropped
      BY <2>5 DEF ClientSends, Flood, vars, past
    <2>6. ASSUME NEW i \in Radios,
                 \/ NextDest(i) \/ FanoutDone(i) \/ RecordHeldUp(i) \/ Record(i)
                 \/ EncodeFail(i) \/ Push(i) \/ Transmit(i) \/ Discard(i)
          PROVE  dropped' = dropped
      <3>1. CASE NextDest(i) \/ FanoutDone(i) \/ RecordHeldUp(i)
        BY <3>1 DEF NextDest, FanoutDone, RecordHeldUp, past
      <3>2. CASE Record(i) \/ EncodeFail(i)
        BY <3>2 DEF Record, EncodeFail, past
      <3>3. CASE Push(i) \/ Transmit(i) \/ Discard(i)
        BY <3>3 DEF Push, Transmit, Discard, past
      <3> QED BY <2>6, <3>1, <3>2, <3>3
    <2>7. \/ dropped' = dropped
          \/ \E i \in Radios : \E p : Heard(i, p) /\ HearDuplicate(i, p)
      BY <2>4, <2>5, <2>6 DEF Next, Task
    <2> QED BY <2>2, <2>3, <2>7
  <1> QED BY <1>1, <1>2, <1>3, BridgeStart, BridgeStep, PTL DEF Spec
=============================================================================
