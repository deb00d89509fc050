----------------------------- MODULE DedupCache -----------------------------
(***************************************************************************)
(* The loop and duplicate guard (DedupCache.cpp): a fixed table of recent  *)
(* content hashes.  seenAndRecord and record run under the module's mutex, *)
(* but both read millis() before they take it, so a call is two steps:     *)
(* Call captures the time, Body does the work.  Hashes are members of a    *)
(* set (the FNV-1a value itself is not computed).  Stamps are millis(), a  *)
(* counter that wraps at ClockMod (2^32 in the code); the history keeps    *)
(* true times.                                                             *)
(***************************************************************************)
EXTENDS Integers, FiniteSets

CONSTANTS
  N,         \* BRIDGE_DEDUP_TABLE_SIZE
  TTL,       \* BRIDGE_DEDUP_TTL_MS
  ClockMod,  \* 2^32: the modulus of millis()
  Hashes,    \* content hashes
  Tasks,     \* radio tasks
  StartMs,   \* time at begin()
  MaxNow,    \* bound on time
  Never      \* "no time": not a number

ASSUME SizeAssumption == N \in Nat \ {0} /\ TTL \in Nat /\ ClockMod \in Nat
ASSUME WindowAssumption == TTL < ClockMod
ASSUME HashAssumption == IsFiniteSet(Hashes)
ASSUME TimeAssumption == StartMs \in Nat /\ MaxNow \in Nat /\ Never \notin Nat

VARIABLES
  table,   \* s_table
  now,     \* true time in ms; millis() is now % ClockMod
  call,    \* what each task is executing: NoCall, or [op, h, at]
  last,    \* history: true time at which each hash was last recorded, or Never
  answer   \* history: seenAndRecord's last result, with its circumstances

cacheVars == <<table, now, call, last, answer>>

Slots == 0..(N - 1)
Free == [used |-> FALSE, hash |-> 0, stamp |-> 0]
NoCall == [op |-> "none"]
Ops == {"seenAndRecord", "record"}

\* (uint32_t)(now - stampMs), for a call that read millis() at true time t.
Age(i, t) == (t - table[i].stamp) % ClockMod

\* Mutant of Live: the window includes its far end.
LiveInclusive(i, t) == Age(i, t) <= TTL

\* The entry is inside the window.
Live(i, t) == Age(i, t) < TTL

Holds(i, h) == table[i].used /\ table[i].hash = h

\* isSeen()
IsSeen(h, t) == \E i \in Slots : Holds(i, h) /\ Live(i, t)

\* The slots insert() may reuse: empty or expired.
Reusable(t) == {i \in Slots : ~table[i].used \/ ~Live(i, t)}

\* Mutant of Victim: the newest entry is evicted.
VictimNewest(i, t) == \A j \in Slots : Age(i, t) <= Age(j, t)

\* The last slot among those of the greatest age (age >= oldestAge).
Victim(i, t) ==
  /\ \A j \in Slots : Age(j, t) <= Age(i, t)
  /\ \A j \in Slots : Age(j, t) = Age(i, t) => j <= i

\* Mutant of SlotFor: a hash already present gets another slot.
SlotForNoRefresh(i, h, t) ==
  \/ i \in Reusable(t) /\ \A j \in Reusable(t) : i <= j
  \/ Reusable(t) = {} /\ Victim(i, t)

\* The slot insert() writes: h's own, else the first reusable one, else the victim.
SlotFor(i, h, t) ==
  \/ Holds(i, h)
  \/ /\ \A j \in Slots : ~Holds(j, h)
     /\ \/ i \in Reusable(t) /\ \A j \in Reusable(t) : i <= j
        \/ Reusable(t) = {} /\ Victim(i, t)

\* insert()
Insert(h, t) ==
  \E i \in Slots :
    /\ SlotFor(i, h, t)
    /\ table' = [table EXCEPT ![i] = [used |-> TRUE, hash |-> h,
                                      stamp |-> t % ClockMod]]

-----------------------------------------------------------------------------
\* After begin().
CacheInit ==
  /\ table = [i \in Slots |-> Free]
  /\ now = StartMs
  /\ call = [t \in Tasks |-> NoCall]
  /\ last = [h \in Hashes |-> Never]
  /\ answer = NoCall

\* A radio task enters seenAndRecord or record and reads millis().
Call(t, op, h) ==
  /\ call[t] = NoCall
  /\ call' = [call EXCEPT ![t] = [op |-> op, h |-> h, at |-> now]]
  /\ answer' = NoCall
  /\ UNCHANGED <<table, now, last>>

\* The critical section.
Body(t) ==
  LET c == call[t] IN
  /\ c # NoCall
  /\ Insert(c.h, c.at)
  /\ last' = [last EXCEPT ![c.h] = c.at]
  /\ answer' = IF c.op = "record" THEN NoCall
               ELSE [op |-> c.op, h |-> c.h, at |-> c.at, seen |-> IsSeen(c.h, c.at)]
  /\ call' = [call EXCEPT ![t] = NoCall]
  /\ UNCHANGED now

Tick ==
  /\ now < MaxNow
  /\ now' = now + 1
  /\ UNCHANGED <<table, call, last, answer>>

CacheNext ==
  \/ \E t \in Tasks, op \in Ops, h \in Hashes : Call(t, op, h)
  \/ \E t \in Tasks : Body(t)
  \/ Tick

CacheSpec == CacheInit /\ [][CacheNext]_cacheVars

-----------------------------------------------------------------------------
Times == Nat \cup {Never}
CallType == [op : Ops, h : Hashes, at : Nat]

CacheTypeOK ==
  /\ table \in [Slots -> [used : BOOLEAN, hash : Hashes \cup {0},
                          stamp : 0..(ClockMod - 1)]]
  /\ now \in Nat
  /\ call \in [Tasks -> CallType \cup {NoCall}]
  /\ last \in [Hashes -> Times]
  /\ answer \in [op : Ops, h : Hashes, at : Nat, seen : BOOLEAN] \cup {NoCall}

\* A hash occupies at most one slot, and a slot's stamp is the millis() of the
\* last time its hash was recorded: a refresh never leaves an older twin
\* behind to answer for it (insert: "refresh in place").
OneSlot ==
  \A i \in Slots : table[i].used =>
    /\ last[table[i].hash] # Never
    /\ table[i].stamp = last[table[i].hash] % ClockMod
    /\ \A j \in Slots : Holds(j, table[i].hash) => j = i

\* A packet is dropped as a duplicate only when its hash really was recorded
\* less than TTL before, also across a wrap of millis(); a recorded hash is
\* "stale and ignored" once the window has passed (isSeen).
NoFalseDrop ==
  [][answer' # answer /\ answer' # NoCall /\ answer'.seen =>
       /\ last[answer'.h] # Never
       /\ answer'.at - last[answer'.h] < TTL]_cacheVars

\* The hashes other than h recorded since h was.
Since(h) == {g \in Hashes \ {h} : last[g] # Never /\ last[g] >= last[h]}

\* A hash recorded less than TTL before is recognised unless at least N other
\* hashes were recorded since: a full table gives up its oldest entry only
\* (seenAndRecord: "catches both mesh-flood replays of one message AND the
\* same packet heard on two radios").
CatchesDuplicate ==
  [][answer' # answer /\ answer' # NoCall /\ ~answer'.seen =>
       \/ last[answer'.h] = Never
       \/ answer'.at - last[answer'.h] >= TTL
       \/ Cardinality(Since(answer'.h)) >= N]_cacheVars
=============================================================================
