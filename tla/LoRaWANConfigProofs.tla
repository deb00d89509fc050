------------------------ MODULE LoRaWANConfigProofs ------------------------
(***************************************************************************)
(* The frame counters of LoRaWANConfig.cpp are safe for every table size,  *)
(* reservation block and counter width as long as one radio task at a time *)
(* takes counters, the portal is modal and no two identities share a       *)
(* DevAddr.  The runs of the module show what happens without the first.   *)
(***************************************************************************)
EXTENDS LoRaWANConfig, SequenceTheorems, TLAPS

\* One user at a time, and one identity per address.
Serial == (\A t, u \in Tasks : t = u) /\ ~LivePortal /\ ~SharedAddrs

-----------------------------------------------------------------------------
ReadJob    == [step : {"read"}, ctr : Counters, addr : Addrs]
PersistJob == [step : {"persist"}, ctr : Counters, addr : Addrs,
               v : 0..UINT32_MAX, key : Addrs]
CommitJob  == [step : {"commit"}, ctr : Counters, addr : Addrs, v : 0..UINT32_MAX]
SendJob    == [step : {"send"}, addr : Addrs, v : 0..UINT32_MAX]

Jobs == {Idle} \cup ReadJob \cup PersistJob \cup CommitJob \cup SendJob

\* Where a radio task can be.
JobType == job \in [Tasks -> Jobs]

\* No two rows of a table, up to row n, share an address, with each other or
\* with the build-flag identity.
Distinct(table, n) ==
  \A i \in Slots : i <= n /\ table[i].addr # NoAddr =>
    /\ table[i].addr # ExtAddr
    /\ \A k \in Slots : k <= n /\ table[k].addr = table[i].addr => k = i

\* The portal is modal, and what it has entered so far is free of duplicates.
ModeInv ==
  /\ mode = "portal" => \A t \in Tasks : job[t] = Idle
  /\ mode = "run" => form = 0 /\ dev = nvsDev
  /\ Distinct(nvsDev, MAX_DEVICES)
  /\ form # 0 => Distinct(dev, form - 1)
  /\ extAddr \in {NoAddr, ExtAddr}

\* The address that counter c counts for.
AddrOf(c) == IF c = Ext THEN extAddr ELSE dev[c].addr

\* All FCnts sent under a are below b.
Below(a, b) == \A n \in 1..Len(lns[a]) : lns[a][n] < b

\* In bridge mode a counter that is in use agrees with NVS, has not left its
\* reserved block, and lies above everything sent.
CounterInv ==
  mode = "run" =>
    \A c \in Counters : AddrOf(c) # NoAddr =>
      /\ persisted[c] = nvsFc[AddrOf(c)]
      /\ fcnt[c] <= persisted[c]
      /\ Below(AddrOf(c), fcnt[c])

\* What a task has read is still so: nobody else moves its counter.
JobInv(j) ==
  /\ j.step = "read" => IF j.ctr = Ext THEN j.addr = ExtAddr ELSE dev[j.ctr].addr = j.addr
  /\ j.step = "persist" => /\ AddrOf(j.ctr) = j.addr /\ j.key = j.addr
                           /\ j.v = fcnt[j.ctr] /\ j.v = persisted[j.ctr]
                           /\ j.v <= UINT32_MAX - 1 - FCNT_RESERVE
  /\ j.step = "commit" => /\ AddrOf(j.ctr) = j.addr
                          /\ j.v = fcnt[j.ctr] /\ j.v < persisted[j.ctr]
  /\ j.step = "send" => /\ Below(j.addr, j.v) /\ j.v < nvsFc[j.addr]
                        /\ \A c \in Counters : AddrOf(c) = j.addr => j.v < fcnt[c]

\* The inductive invariant.
IndInv ==
  /\ TypeOK /\ JobType /\ ModeInv /\ CounterInv
  /\ \A t \in Tasks : JobInv(job[t])
  /\ NoReplay /\ Durable

-----------------------------------------------------------------------------
\* The step of a job tells its kind.
LEMMA JobKinds ==
  ASSUME NEW j \in Jobs
  PROVE  /\ j.step = "idle" => j = Idle
         /\ j.step = "read" => j \in ReadJob
         /\ j.step = "persist" => j \in PersistJob
         /\ j.step = "commit" => j \in CommitJob
         /\ j.step = "send" => j \in SendJob
  BY DEF Jobs, Idle, ReadJob, PersistJob, CommitJob, SendJob

\* Addresses of table rows, and of counters.
LEMMA AddrTypes ==
  ASSUME TypeOK
  PROVE  /\ \A i \in Slots : dev[i].addr \in Addrs \cup {NoAddr}
         /\ \A i \in Slots : nvsDev[i].addr \in Addrs \cup {NoAddr}
         /\ \A c \in Counters : AddrOf(c) \in Addrs \cup {NoAddr}
  <1>1. \A d \in Devices \cup {Empty} : d.addr \in Addrs \cup {NoAddr}
    BY DeviceAssumption DEF Empty
  <1>2. \A i \in Slots : dev[i] \in Devices \cup {Empty} /\ nvsDev[i] \in Devices \cup {Empty}
    BY DEF TypeOK
  <1> QED BY <1>1, <1>2 DEF TypeOK, AddrOf, Counters

\* In bridge mode an address belongs to one counter.
LEMMA OneCounter ==
  ASSUME IndInv, mode = "run", NEW c \in Counters, NEW d \in Counters,
         AddrOf(c) # NoAddr, AddrOf(c) = AddrOf(d)
  PROVE  c = d
  <1>1. Distinct(dev, MAX_DEVICES) /\ extAddr \in {NoAddr, ExtAddr}
    BY DEF IndInv, ModeInv
  <1>2. \A i \in Slots : i <= MAX_DEVICES
    BY ConstAssumption DEF Slots
  <1> QED BY <1>1, <1>2 DEF Distinct, AddrOf, Counters, Ext, Slots

\* What was sent is a sequence of numbers.
LEMMA SentTypes ==
  ASSUME TypeOK, NEW a \in Addrs
  PROVE  /\ lns[a] \in Seq(0..UINT32_MAX) /\ Len(lns[a]) \in Nat
         /\ \A n \in 1..Len(lns[a]) : lns[a][n] \in Nat
  <1>1. lns[a] \in Seq(0..UINT32_MAX)
    BY DEF TypeOK
  <1>2. \A n \in 1..Len(lns[a]) : lns[a][n] \in 0..UINT32_MAX
    BY <1>1, ElementOfSeq
  <1> QED BY <1>1, <1>2

\* A task with a job runs in bridge mode, and it is the only one.
LEMMA Running ==
  ASSUME Serial, IndInv, NEW t \in Tasks, job[t] # Idle
  PROVE  mode = "run" /\ form = 0 /\ dev = nvsDev /\ Tasks = {t}
  BY DEF Serial, IndInv, TypeOK, ModeInv

-----------------------------------------------------------------------------
\* The invariant holds before the first boot.
LEMMA InitInv == Serial /\ Init => IndInv
  <1> SUFFICES ASSUME Serial, Init PROVE IndInv
    OBVIOUS
  <1>1. TypeOK
    <2>1. 0 \in 0..UINT32_MAX /\ 0 \in 0..(MAX_DEVICES + 1)
      BY ConstAssumption
    <2>2. \A a \in Addrs : lns[a] \in Seq(0..UINT32_MAX)
      BY DEF Init
    <2>3. lns \in [Addrs -> Seq(0..UINT32_MAX)]
      BY <2>2 DEF Init
    <2>4. mode \in {"run", "portal"}
      BY DEF Init
    <2> QED BY <2>1, <2>3, <2>4 DEF Init, TypeOK
  <1>2. JobType /\ \A t \in Tasks : JobInv(job[t])
    BY DEF Init, JobType, Jobs, JobInv, Idle
  <1>3. ModeInv
    BY DEF Init, ModeInv, Distinct, Serial, Empty
  <1>4. CounterInv
    BY DEF Init, CounterInv, Serial
  <1>5. \A a \in Addrs : Len(lns[a]) = 0
    BY DEF Init
  <1>6. NoReplay /\ Durable
    BY <1>5 DEF NoReplay, Durable
  <1> QED BY <1>1, <1>2, <1>3, <1>4, <1>6 DEF IndInv

\* A step that only moves a task's job to one that tells the truth keeps the
\* invariant.
LEMMA JobStep ==
  ASSUME Serial, IndInv, mode = "run", NEW t \in Tasks, NEW j \in Jobs, JobInv(j),
         job' = [job EXCEPT ![t] = j], UNCHANGED <<ram, nvs, mode, form, lns>>
  PROVE  IndInv'
  <1> USE DEF ram, nvs
  <1>1. TypeOK' /\ NoReplay' /\ Durable'
    BY DEF IndInv, TypeOK, NoReplay, Durable
  <1>2. JobType'
    BY DEF IndInv, JobType
  <1>3. ModeInv'
    BY DEF IndInv, ModeInv, Distinct
  <1>4. CounterInv'
    BY DEF IndInv, CounterInv, AddrOf, Below
  <1>5. \A u \in Tasks : job'[u] = j
    BY DEF Serial, IndInv, JobType
  <1>6. \A u \in Tasks : JobInv(job[u])'
    BY <1>5 DEF JobInv, AddrOf, Below
  <1> QED BY <1>1, <1>2, <1>3, <1>4, <1>6 DEF IndInv

\* A job that is given up tells nothing.
LEMMA IdleTrue == Idle \in Jobs /\ JobInv(Idle)
  BY DEF Idle, Jobs, JobInv

\* resolve() and the copy of the DevAddr keep the invariant.
LEMMA ResolveInv ==
  ASSUME Serial, IndInv, NEW t \in Tasks, NEW src \in Sources, Resolve(t, src)
  PROVE  IndInv'
  <1>1. mode = "run" /\ UNCHANGED <<ram, nvs, mode, form, lns>>
    BY DEF Resolve
  <1>2. \E j \in Jobs : JobInv(j) /\ job' = [job EXCEPT ![t] = j]
    <2>1. ASSUME NEW i \in Slots, Resolves(src, i),
                 job' = [job EXCEPT ![t] = [step |-> "read", ctr |-> i, addr |-> dev[i].addr]]
          PROVE  \E j \in Jobs : JobInv(j) /\ job' = [job EXCEPT ![t] = j]
      <3> DEFINE j == [step |-> "read", ctr |-> i, addr |-> dev[i].addr]
      <3>1. dev[i].addr \in Addrs
        BY <2>1, AddrTypes DEF Resolves, Matches, IndInv
      <3>2. j \in Jobs
        BY <3>1 DEF Jobs, ReadJob, Counters
      <3>3. i # Ext
        BY ConstAssumption DEF Slots, Ext
      <3>4. JobInv(j)
        BY <3>3 DEF JobInv
      <3> QED BY <2>1, <3>2, <3>4
    <2>2. ASSUME ExtAddr # NoAddr,
                 job' = [job EXCEPT ![t] = [step |-> "read", ctr |-> Ext, addr |-> ExtAddr]]
          PROVE  \E j \in Jobs : JobInv(j) /\ job' = [job EXCEPT ![t] = j]
      <3> DEFINE j == [step |-> "read", ctr |-> Ext, addr |-> ExtAddr]
      <3>1. j \in Jobs
        BY <2>2, ConstAssumption DEF Jobs, ReadJob, Counters
      <3>2. JobInv(j)
        BY DEF JobInv
      <3> QED BY <2>2, <3>1, <3>2
    <2> QED BY <2>1, <2>2 DEF Resolve
  <1> QED BY <1>1, <1>2, JobStep

\* nextFcntForDevAddr's re-seeding keeps the invariant: the counter resumes at
\* the high-water, above everything sent.
LEMMA BindInv ==
  ASSUME Serial, IndInv, NEW t \in Tasks, Bind(t)
  PROVE  IndInv'
  <1> DEFINE j == job[t]
  <1>j. j \in Jobs /\ j.step = "read" /\ j.ctr = Ext /\ extAddr # j.addr
    BY DEF Bind, IndInv, JobType
  <1>r. j \in ReadJob /\ j.addr = ExtAddr /\ j.addr \in Addrs
    <2>1. j \in ReadJob
      BY <1>j, JobKinds
    <2>2. JobInv(j)
      BY DEF IndInv
    <2> QED BY <1>j, <2>1, <2>2 DEF JobInv, ReadJob
  <1>m. mode = "run" /\ form = 0 /\ dev = nvsDev /\ Tasks = {t}
    BY <1>j, Running DEF Idle
  <1>a. /\ extAddr' = ExtAddr /\ ExtAddr \in Addrs /\ ExtAddr # NoAddr
        /\ fcnt' = [fcnt EXCEPT ![Ext] = nvsFc[ExtAddr]]
        /\ persisted' = [persisted EXCEPT ![Ext] = nvsFc[ExtAddr]]
        /\ UNCHANGED <<dev, nvsDev, nvsFc, mode, form, job, lns>>
    BY <1>r, ConstAssumption DEF Bind, LoadReserved, nvs
  <1>1. TypeOK'
    BY <1>a DEF IndInv, TypeOK, Counters
  <1>2. JobType' /\ NoReplay' /\ Durable'
    BY <1>a DEF IndInv, JobType, NoReplay, Durable
  <1>3. ModeInv'
    BY <1>a DEF IndInv, ModeInv, Distinct
  <1>4. CounterInv'
    <2> SUFFICES ASSUME NEW c \in Counters, AddrOf(c)' # NoAddr
                 PROVE  (/\ persisted[c] = nvsFc[AddrOf(c)]
                         /\ fcnt[c] <= persisted[c]
                         /\ Below(AddrOf(c), fcnt[c]))'
      BY DEF CounterInv
    <2>1. CASE c = Ext
      <3>1. AddrOf(c)' = ExtAddr /\ fcnt'[c] = nvsFc[ExtAddr] /\ persisted'[c] = nvsFc[ExtAddr]
        BY <2>1, <1>a DEF AddrOf, IndInv, TypeOK, Counters
      <3>2. \A n \in 1..Len(lns[ExtAddr]) : lns[ExtAddr][n] < nvsFc[ExtAddr]
        BY <1>a DEF IndInv, Durable
      <3>3. nvsFc[ExtAddr] \in Nat
        BY <1>a DEF IndInv, TypeOK
      <3> QED BY <3>1, <3>2, <3>3, <1>a DEF Below
    <2>2. CASE c # Ext
      <3>1. AddrOf(c)' = AddrOf(c) /\ fcnt'[c] = fcnt[c] /\ persisted'[c] = persisted[c]
        BY <2>2, <1>a DEF AddrOf, IndInv, TypeOK
      <3>2. /\ persisted[c] = nvsFc[AddrOf(c)] /\ fcnt[c] <= persisted[c]
            /\ Below(AddrOf(c), fcnt[c])
        BY <3>1, <1>m DEF IndInv, CounterInv
      <3> QED BY <3>1, <3>2, <1>a DEF Below
    <2> QED BY <2>1, <2>2
  <1>5. \A u \in Tasks : JobInv(job[u])'
    <2>1. \A u \in Tasks : job'[u] = j
      BY <1>m, <1>a
    <2> QED BY <2>1, <1>j, <1>r, <1>a DEF JobInv
  <1> QED BY <1>1, <1>2, <1>3, <1>4, <1>5 DEF IndInv

\* advanceFcnt's reading of the counter keeps the invariant.
LEMMA ReadInv ==
  ASSUME Serial, IndInv, NEW t \in Tasks, Read(t)
  PROVE  IndInv'
  <1> DEFINE j == job[t]
             v == fcnt[j.ctr]
  <1>j. j \in Jobs /\ j.step = "read" /\ (j.ctr = Ext => extAddr = j.addr) /\ JobInv(j)
    BY DEF Read, IndInv, JobType
  <1>r. j \in ReadJob /\ j.ctr \in Counters /\ j.addr \in Addrs
    <2>1. j \in ReadJob
      BY <1>j, JobKinds
    <2> QED BY <2>1 DEF ReadJob
  <1>m. mode = "run" /\ UNCHANGED <<ram, nvs, mode, form, lns>>
    BY <1>j, Running DEF Idle, Read
  <1>a. AddrOf(j.ctr) = j.addr /\ KeyOf(j) = j.addr /\ j.addr # NoAddr
    BY <1>j, <1>r, ConstAssumption DEF JobInv, AddrOf, KeyOf
  <1>c. /\ persisted[j.ctr] = nvsFc[j.addr] /\ v <= persisted[j.ctr]
        /\ v \in 0..UINT32_MAX /\ persisted[j.ctr] \in 0..UINT32_MAX
    BY <1>a, <1>m, <1>r DEF IndInv, CounterInv, TypeOK
  <1>2. \E k \in Jobs : JobInv(k) /\ job' = [job EXCEPT ![t] = k]
    <2>1. CASE v < persisted[j.ctr]
      <3> DEFINE k == [step |-> "commit", ctr |-> j.ctr, addr |-> j.addr, v |-> v]
      <3>1. job' = [job EXCEPT ![t] = k]
        BY <2>1, <1>a DEF Read
      <3>2. k \in Jobs
        BY <1>r, <1>c DEF Jobs, CommitJob
      <3>3. JobInv(k)
        BY <2>1, <1>a DEF JobInv
      <3> QED BY <3>1, <3>2, <3>3
    <2>2. CASE ~(v < persisted[j.ctr]) /\ v > UINT32_MAX - 1 - FCNT_RESERVE
      <3>1. job' = [job EXCEPT ![t] = Idle]
        BY <2>2, <1>a DEF Read
      <3> QED BY <3>1, IdleTrue
    <2>3. CASE ~(v < persisted[j.ctr]) /\ ~(v > UINT32_MAX - 1 - FCNT_RESERVE)
      <3> DEFINE k == [step |-> "persist", ctr |-> j.ctr, addr |-> j.addr, v |-> v,
                       key |-> j.addr]
      <3>1. job' = [job EXCEPT ![t] = k]
        BY <2>3, <1>a DEF Read
      <3>2. k \in Jobs
        BY <1>r, <1>c DEF Jobs, PersistJob
      <3>3. v = persisted[j.ctr] /\ v <= UINT32_MAX - 1 - FCNT_RESERVE
        BY <2>3, <1>c, ConstAssumption
      <3>4. JobInv(k)
        BY <3>3, <1>a DEF JobInv
      <3> QED BY <3>1, <3>2, <3>4
    <2> QED BY <2>1, <2>2, <2>3
  <1> QED BY <1>m, <1>2, JobStep

\* Giving up (no reservation, or a rejected frame) keeps the invariant.
LEMMA GiveUpInv ==
  ASSUME Serial, IndInv, NEW t \in Tasks, PersistFail(t) \/ Discard(t)
  PROVE  IndInv'
  <1>1. /\ job[t] # Idle /\ job' = [job EXCEPT ![t] = Idle]
        /\ UNCHANGED <<ram, nvs, mode, form, lns>>
    BY DEF PersistFail, Discard, Idle
  <1> QED BY <1>1, Running, IdleTrue, JobStep

\* The confirmed reservation keeps the invariant: the high-water moves up by at
\* least one block, and only its own counter depends on it.
LEMMA PersistInv ==
  ASSUME Serial, IndInv, NEW t \in Tasks, PersistOk(t)
  PROVE  IndInv' /\ \A a \in Addrs : nvsFc'[a] >= nvsFc[a]
  <1> DEFINE j == job[t]
             w == j.v + 1 + FCNT_RESERVE
             k == [step |-> "commit", ctr |-> j.ctr, addr |-> j.addr, v |-> j.v]
  <1>j. j \in Jobs /\ j.step = "persist" /\ JobInv(j)
    BY DEF PersistOk, IndInv, JobType
  <1>r. j.ctr \in Counters /\ j.addr \in Addrs /\ j.v \in 0..UINT32_MAX
    <2>1. j \in PersistJob
      BY <1>j, JobKinds
    <2> QED BY <2>1 DEF PersistJob
  <1>m. mode = "run" /\ Tasks = {t}
    BY <1>j, Running DEF Idle
  <1>a. /\ AddrOf(j.ctr) = j.addr /\ j.key = j.addr /\ j.addr # NoAddr
        /\ j.v = fcnt[j.ctr] /\ j.v = persisted[j.ctr]
        /\ j.v <= UINT32_MAX - 1 - FCNT_RESERVE
    BY <1>j, <1>r, ConstAssumption DEF JobInv
  <1>w. w \in 0..UINT32_MAX /\ j.v < w
    BY <1>r, <1>a, ConstAssumption
  <1>n. nvsFc[j.addr] = j.v
    BY <1>m, <1>r, <1>a DEF IndInv, CounterInv
  <1>u. /\ nvsFc' = [nvsFc EXCEPT ![j.addr] = w]
        /\ persisted' = [persisted EXCEPT ![j.ctr] = w]
        /\ job' = [job EXCEPT ![t] = k]
        /\ UNCHANGED <<dev, fcnt, extAddr, nvsDev, mode, form, lns>>
    BY <1>a DEF PersistOk
  <1>k. k \in Jobs
    BY <1>r DEF Jobs, CommitJob
  <1> HIDE DEF w, k
  <1>1. TypeOK'
    <2>1. nvsFc' \in [Addrs -> 0..UINT32_MAX] /\ persisted' \in [Counters -> 0..UINT32_MAX]
      BY <1>u, <1>w, <1>r DEF IndInv, TypeOK
    <2> QED BY <2>1, <1>u DEF IndInv, TypeOK
  <1>2. JobType' /\ NoReplay'
    BY <1>u, <1>k DEF IndInv, JobType, NoReplay
  <1>3. ModeInv'
    BY <1>u, <1>m DEF IndInv, ModeInv, Distinct
  <1>g. \A a \in Addrs : nvsFc'[a] >= nvsFc[a] /\ nvsFc[a] \in Nat /\ nvsFc'[a] \in Nat
    <2> TAKE a \in Addrs
    <2>1. nvsFc[a] \in Nat /\ nvsFc'[a] \in Nat
      BY <1>1 DEF IndInv, TypeOK
    <2>2. CASE a = j.addr
      BY <2>1, <2>2, <1>u, <1>w, <1>n, <1>r DEF IndInv, TypeOK
    <2>3. CASE a # j.addr
      BY <2>1, <2>3, <1>u DEF IndInv, TypeOK
    <2> QED BY <2>1, <2>2, <2>3
  <1>4. Durable'
    <2> SUFFICES ASSUME NEW a \in Addrs, NEW n \in 1..Len(lns[a])
                 PROVE  lns[a][n] < nvsFc'[a]
      BY <1>u DEF Durable
    <2>1. lns[a][n] < nvsFc[a]
      BY DEF IndInv, Durable
    <2>2. lns[a][n] \in Nat
      BY SentTypes DEF IndInv
    <2> QED BY <2>1, <2>2, <1>g
  <1>5. CounterInv'
    <2> SUFFICES ASSUME NEW c \in Counters, AddrOf(c) # NoAddr
                 PROVE  /\ persisted'[c] = nvsFc'[AddrOf(c)]
                        /\ fcnt[c] <= persisted'[c]
                        /\ Below(AddrOf(c), fcnt[c])
      BY <1>u DEF CounterInv, AddrOf, Below
    <2>1. /\ persisted[c] = nvsFc[AddrOf(c)] /\ fcnt[c] <= persisted[c]
          /\ Below(AddrOf(c), fcnt[c])
      BY <1>m DEF IndInv, CounterInv
    <2>2. CASE c = j.ctr
      <3>1. persisted'[c] = w /\ nvsFc'[AddrOf(c)] = w
        BY <2>2, <1>u, <1>a, <1>r DEF IndInv, TypeOK
      <3>2. fcnt[c] <= w
        BY <2>2, <1>a, <1>w, <1>r
      <3> QED BY <2>1, <3>1, <3>2
    <2>3. CASE c # j.ctr
      <3>1. AddrOf(c) # j.addr
        BY <2>3, <1>a, <1>m, <1>r, OneCounter
      <3>2. AddrOf(c) \in Addrs
        BY AddrTypes DEF IndInv
      <3>3. persisted'[c] = persisted[c] /\ nvsFc'[AddrOf(c)] = nvsFc[AddrOf(c)]
        BY <2>3, <3>1, <3>2, <1>u DEF IndInv, TypeOK
      <3> QED BY <2>1, <3>3
    <2> QED BY <2>2, <2>3
  <1>6. \A u \in Tasks : JobInv(job[u])'
    <2>1. \A u \in Tasks : job'[u] = k
      BY <1>m, <1>u DEF IndInv, JobType
    <2>2. persisted'[j.ctr] = w
      BY <1>u, <1>r DEF IndInv, TypeOK
    <2>3. /\ k.step = "commit" /\ k.ctr = j.ctr /\ k.addr = j.addr /\ k.v = j.v
      BY DEF k
    <2>4. (IF k.ctr = Ext THEN extAddr' ELSE dev'[k.ctr].addr) = k.addr
      BY <2>3, <1>u, <1>a DEF AddrOf
    <2>5. k.v = fcnt'[k.ctr] /\ k.v < persisted'[k.ctr]
      BY <2>2, <2>3, <1>u, <1>a, <1>w
    <2> QED BY <2>1, <2>3, <2>4, <2>5 DEF JobInv, AddrOf
  <1> QED BY <1>1, <1>2, <1>3, <1>4, <1>5, <1>6, <1>g DEF IndInv

\* Consuming the FCnt keeps the invariant: it lies above all that was sent and
\* below the high-water.
LEMMA CommitInv ==
  ASSUME Serial, IndInv, NEW t \in Tasks, Commit(t)
  PROVE  IndInv'
  <1> DEFINE j == job[t]
             k == [step |-> "send", addr |-> j.addr, v |-> j.v]
  <1>j. j \in Jobs /\ j.step = "commit" /\ JobInv(j)
    BY DEF Commit, IndInv, JobType
  <1>r. j.ctr \in Counters /\ j.addr \in Addrs /\ j.v \in 0..UINT32_MAX
    <2>1. j \in CommitJob
      BY <1>j, JobKinds
    <2> QED BY <2>1 DEF CommitJob
  <1>m. mode = "run" /\ Tasks = {t}
    BY <1>j, Running DEF Idle
  <1>a. /\ AddrOf(j.ctr) = j.addr /\ j.addr # NoAddr
        /\ j.v = fcnt[j.ctr] /\ j.v < persisted[j.ctr]
    BY <1>j, <1>r, ConstAssumption DEF JobInv
  <1>n. /\ persisted[j.ctr] = nvsFc[j.addr] /\ Below(j.addr, j.v)
        /\ persisted[j.ctr] \in 0..UINT32_MAX
    BY <1>m, <1>r, <1>a DEF IndInv, CounterInv, TypeOK
  <1>w. j.v + 1 \in 0..UINT32_MAX /\ j.v + 1 <= persisted[j.ctr] /\ j.v < j.v + 1
    BY <1>r, <1>a, <1>n, ConstAssumption
  <1>u. /\ fcnt' = [fcnt EXCEPT ![j.ctr] = j.v + 1]
        /\ job' = [job EXCEPT ![t] = k]
        /\ UNCHANGED <<dev, persisted, extAddr, nvsDev, nvsFc, mode, form, lns>>
    BY DEF Commit, nvs
  <1>k. k \in Jobs
    BY <1>r DEF Jobs, SendJob
  <1> HIDE DEF k
  <1>1. TypeOK'
    <2>1. fcnt' \in [Counters -> 0..UINT32_MAX]
      BY <1>u, <1>w, <1>r DEF IndInv, TypeOK
    <2> QED BY <2>1, <1>u DEF IndInv, TypeOK
  <1>2. JobType' /\ NoReplay' /\ Durable'
    BY <1>u, <1>k DEF IndInv, JobType, NoReplay, Durable
  <1>3. ModeInv'
    BY <1>u, <1>m DEF IndInv, ModeInv, Distinct
  <1>f. /\ fcnt'[j.ctr] = j.v + 1
        /\ \A c \in Counters : c # j.ctr => fcnt'[c] = fcnt[c]
    BY <1>u, <1>r DEF IndInv, TypeOK
  <1>4. CounterInv'
    <2> SUFFICES ASSUME NEW c \in Counters, AddrOf(c) # NoAddr
                 PROVE  /\ persisted[c] = nvsFc[AddrOf(c)]
                        /\ fcnt'[c] <= persisted[c]
                        /\ Below(AddrOf(c), fcnt'[c])
      BY <1>u DEF CounterInv, AddrOf, Below
    <2>1. /\ persisted[c] = nvsFc[AddrOf(c)] /\ fcnt[c] <= persisted[c]
          /\ Below(AddrOf(c), fcnt[c])
      BY <1>m DEF IndInv, CounterInv
    <2>2. CASE c = j.ctr
      <3>1. Below(j.addr, j.v + 1)
        <4> SUFFICES ASSUME NEW n \in 1..Len(lns[j.addr])
                     PROVE  lns[j.addr][n] < j.v + 1
          BY DEF Below
        <4>1. lns[j.addr][n] \in Nat /\ lns[j.addr][n] < j.v
          BY <1>n, <1>r, SentTypes DEF IndInv, Below
        <4> QED BY <4>1, <1>r
      <3> QED BY <2>1, <2>2, <3>1, <1>f, <1>w, <1>a
    <2>3. CASE c # j.ctr
      BY <2>1, <2>3, <1>f
    <2> QED BY <2>2, <2>3
  <1>5. \A u \in Tasks : JobInv(job[u])'
    <2>1. \A u \in Tasks : job'[u] = k
      BY <1>m, <1>u DEF IndInv, JobType
    <2>2. /\ k.step = "send" /\ k.addr = j.addr /\ k.v = j.v
      BY DEF k
    <2>3. \A c \in Counters : AddrOf(c) = j.addr => j.v < fcnt'[c]
      <3> SUFFICES ASSUME NEW c \in Counters, AddrOf(c) = j.addr PROVE j.v < fcnt'[c]
        OBVIOUS
      <3>1. c = j.ctr
        BY <1>a, <1>m, <1>r, OneCounter
      <3> QED BY <3>1, <1>f, <1>w
    <2>4. Below(j.addr, j.v) /\ j.v < nvsFc[j.addr]
      BY <1>n, <1>a
    <2> QED BY <2>1, <2>2, <2>3, <2>4, <1>u DEF JobInv, AddrOf, Below
  <1> QED BY <1>1, <1>2, <1>3, <1>4, <1>5 DEF IndInv

\* Appending an FCnt to a history: the old entries stay, the last one is new.
LEMMA Appended ==
  ASSUME TypeOK, NEW a \in Addrs, NEW v \in 0..UINT32_MAX,
         lns' = [lns EXCEPT ![a] = Append(@, v)]
  PROVE  /\ lns' \in [Addrs -> Seq(0..UINT32_MAX)]
         /\ \A b \in Addrs : b # a => lns'[b] = lns[b]
         /\ Len(lns'[a]) = Len(lns[a]) + 1
         /\ \A n \in 1..Len(lns[a]) : lns'[a][n] = lns[a][n]
         /\ lns'[a][Len(lns[a]) + 1] = v
  <1>1. lns[a] \in Seq(0..UINT32_MAX) /\ lns \in [Addrs -> Seq(0..UINT32_MAX)]
    BY DEF TypeOK
  <1>2. lns'[a] = Append(lns[a], v) /\ \A b \in Addrs : b # a => lns'[b] = lns[b]
    BY <1>1
  <1>3. /\ Append(lns[a], v) \in Seq(0..UINT32_MAX)
        /\ Len(Append(lns[a], v)) = Len(lns[a]) + 1
        /\ \A n \in 1..Len(lns[a]) : Append(lns[a], v)[n] = lns[a][n]
        /\ Append(lns[a], v)[Len(lns[a]) + 1] = v
    BY <1>1, AppendProperties
  <1> QED BY <1>1, <1>2, <1>3

\* Putting the frame on the air keeps the invariant: its FCnt is above all that
\* was sent, and below the high-water and the counter.
LEMMA SendInv ==
  ASSUME Serial, IndInv, NEW t \in Tasks, Send(t)
  PROVE  IndInv'
  <1> DEFINE j == job[t]
             a == j.addr
  <1>j. j \in Jobs /\ j.step = "send" /\ JobInv(j)
    BY DEF Send, IndInv, JobType
  <1>r. a \in Addrs /\ j.v \in 0..UINT32_MAX
    <2>1. j \in SendJob
      BY <1>j, JobKinds
    <2> QED BY <2>1 DEF SendJob
  <1>m. mode = "run" /\ Tasks = {t}
    BY <1>j, Running DEF Idle
  <1>a. /\ Below(a, j.v) /\ j.v < nvsFc[a]
        /\ \A c \in Counters : AddrOf(c) = a => j.v < fcnt[c]
    BY <1>j DEF JobInv
  <1>u. /\ lns' = [lns EXCEPT ![a] = Append(@, j.v)]
        /\ job' = [job EXCEPT ![t] = Idle]
        /\ UNCHANGED <<dev, fcnt, persisted, extAddr, nvsDev, nvsFc, mode, form>>
    BY DEF Send, ram, nvs
  <1>l. /\ lns' \in [Addrs -> Seq(0..UINT32_MAX)]
        /\ \A b \in Addrs : b # a => lns'[b] = lns[b]
        /\ Len(lns'[a]) = Len(lns[a]) + 1
        /\ \A n \in 1..Len(lns[a]) : lns'[a][n] = lns[a][n]
        /\ lns'[a][Len(lns[a]) + 1] = j.v
    BY <1>u, <1>r, Appended DEF IndInv
  <1>s. Len(lns[a]) \in Nat /\ \A n \in 1..Len(lns[a]) : lns[a][n] \in Nat
    BY <1>r, SentTypes DEF IndInv
  <1>v. j.v \in Nat
    BY <1>r
  <1> DEFINE len == Len(lns[a])
             v == j.v
  <1>p. \A n \in 1..(len + 1) : n \in 1..len \/ n = len + 1
    BY <1>s
  <1> HIDE DEF len, v, a
  <1>1. TypeOK'
    BY <1>u, <1>l DEF IndInv, TypeOK
  <1>2. JobType'
    BY <1>u, IdleTrue DEF IndInv, JobType
  <1>3. ModeInv'
    BY <1>u, <1>m DEF IndInv, ModeInv, Distinct
  <1>4. CounterInv'
    <2> SUFFICES ASSUME NEW c \in Counters, AddrOf(c) # NoAddr,
                        NEW n \in 1..Len(lns'[AddrOf(c)])
                 PROVE  lns'[AddrOf(c)][n] < fcnt[c]
      BY <1>u, <1>m DEF IndInv, CounterInv, AddrOf, Below
    <2>1. /\ AddrOf(c) \in Addrs
          /\ \A i \in 1..Len(lns[AddrOf(c)]) : lns[AddrOf(c)][i] < fcnt[c]
      BY <1>m, AddrTypes DEF IndInv, CounterInv, Below
    <2>2. CASE AddrOf(c) # a
      BY <2>1, <2>2, <1>l
    <2>3. CASE AddrOf(c) = a
      <3>1. n \in 1..len \/ n = len + 1
        BY <2>3, <1>l, <1>p DEF len
      <3>2. CASE n \in 1..len
        BY <3>2, <2>1, <2>3, <1>l DEF len
      <3>3. CASE n = len + 1
        BY <3>3, <2>3, <1>l, <1>a DEF len
      <3> QED BY <3>1, <3>2, <3>3
    <2> QED BY <2>2, <2>3
  <1>5. \A u \in Tasks : JobInv(job[u])'
    <2>1. \A u \in Tasks : job'[u] = Idle
      BY <1>m, <1>u DEF IndInv, JobType
    <2> QED BY <2>1 DEF JobInv, Idle
  <1>6. NoReplay'
    <2> SUFFICES ASSUME NEW b \in Addrs, NEW m \in 1..Len(lns'[b]),
                        NEW n \in 1..Len(lns'[b]), m < n
                 PROVE  lns'[b][m] < lns'[b][n]
      BY DEF NoReplay
    <2>1. CASE b # a
      BY <2>1, <1>l DEF IndInv, NoReplay
    <2>2. CASE b = a
      <3>1. m \in 1..len /\ (n \in 1..len \/ n = len + 1)
        BY <2>2, <1>l, <1>p, <1>s DEF len
      <3>2. CASE n \in 1..len
        BY <3>1, <3>2, <2>2, <1>l, <1>r DEF IndInv, NoReplay, len
      <3>3. CASE n = len + 1
        BY <3>1, <3>3, <2>2, <1>l, <1>a DEF Below, len
      <3> QED BY <3>1, <3>2, <3>3
    <2> QED BY <2>1, <2>2
  <1>7. Durable'
    <2> SUFFICES ASSUME NEW b \in Addrs, NEW n \in 1..Len(lns'[b])
                 PROVE  lns'[b][n] < nvsFc[b]
      BY <1>u DEF Durable
    <2>1. CASE b # a
      BY <2>1, <1>l DEF IndInv, Durable
    <2>2. CASE b = a
      <3>1. n \in 1..len \/ n = len + 1
        BY <2>2, <1>l, <1>p DEF len
      <3>2. CASE n \in 1..len
        BY <3>2, <2>2, <1>l DEF IndInv, Durable, len
      <3>3. CASE n = len + 1
        BY <3>3, <2>2, <1>l, <1>a DEF len
      <3> QED BY <3>1, <3>2, <3>3
    <2> QED BY <2>1, <2>2
  <1> QED BY <1>1, <1>2, <1>3, <1>4, <1>5, <1>6, <1>7 DEF IndInv

-----------------------------------------------------------------------------
\* begin() on a table without duplicates establishes the invariant whatever was
\* in RAM: every counter resumes at its address's high-water.
LEMMA BeginInv ==
  ASSUME Serial, IndInv, nvsDev' \in [Slots -> Devices \cup {Empty}],
         Distinct(nvsDev', MAX_DEVICES), BeginRam(nvsDev'),
         mode' \in {"run", "portal"}, form' = 0, job' = [t \in Tasks |-> Idle],
         UNCHANGED <<nvsFc, lns>>
  PROVE  IndInv'
  <1>u. /\ dev' = nvsDev' /\ extAddr' = NoAddr
        /\ fcnt' = [c \in Counters |-> IF c = Ext THEN 0
                                       ELSE LoadReserved(nvsDev'[c].addr)]
        /\ persisted' = fcnt'
    BY DEF BeginRam
  <1>s. \A i \in Slots : /\ nvsDev'[i].addr \in Addrs \cup {NoAddr}
                         /\ LoadReserved(nvsDev'[i].addr) \in 0..UINT32_MAX
    <2> TAKE i \in Slots
    <2>1. nvsDev'[i] \in Devices \cup {Empty}
      OBVIOUS
    <2>2. nvsDev'[i].addr \in Addrs \cup {NoAddr}
      BY <2>1, DeviceAssumption DEF Empty
    <2>3. LoadReserved(nvsDev'[i].addr) \in 0..UINT32_MAX
      BY <2>2, ConstAssumption DEF LoadReserved, IndInv, TypeOK
    <2> QED BY <2>2, <2>3
  <1>1. TypeOK'
    <2>1. fcnt' \in [Counters -> 0..UINT32_MAX]
      BY <1>u, <1>s, ConstAssumption DEF Counters
    <2>2. form' \in 0..(MAX_DEVICES + 1)
      BY ConstAssumption
    <2> QED BY <1>u, <2>1, <2>2 DEF IndInv, TypeOK
  <1>2. JobType' /\ \A t \in Tasks : JobInv(job[t])'
    BY IdleTrue DEF JobType, JobInv, Idle
  <1>3. NoReplay' /\ Durable'
    BY DEF IndInv, NoReplay, Durable
  <1>4. ModeInv'
    BY <1>u DEF ModeInv
  <1>5. CounterInv'
    <2> SUFFICES ASSUME NEW c \in Counters, AddrOf(c)' # NoAddr
                 PROVE  (/\ persisted[c] = nvsFc[AddrOf(c)]
                         /\ fcnt[c] <= persisted[c]
                         /\ Below(AddrOf(c), fcnt[c]))'
      BY DEF CounterInv
    <2>1. c # Ext /\ c \in Slots /\ AddrOf(c)' = nvsDev'[c].addr
      BY <1>u DEF AddrOf, Counters
    <2>2. AddrOf(c)' \in Addrs
      BY <2>1, <1>s
    <2>3. fcnt'[c] = nvsFc[AddrOf(c)'] /\ persisted'[c] = nvsFc[AddrOf(c)']
      BY <2>1, <1>u DEF LoadReserved
    <2>4. nvsFc[AddrOf(c)'] \in Nat
      BY <2>2 DEF IndInv, TypeOK
    <2>5. \A n \in 1..Len(lns[AddrOf(c)']) : lns[AddrOf(c)'][n] < nvsFc[AddrOf(c)']
      BY <2>2 DEF IndInv, Durable
    <2> QED BY <2>3, <2>4, <2>5 DEF Below
  <1> QED BY <1>1, <1>2, <1>3, <1>4, <1>5 DEF IndInv

\* Power loss at any point keeps the invariant.
LEMMA ResetInv ==
  ASSUME Serial, IndInv, Reset
  PROVE  IndInv'
  <1>1. nvsDev' = nvsDev /\ UNCHANGED <<nvsFc, lns>>
    BY DEF Reset
  <1>2. nvsDev' \in [Slots -> Devices \cup {Empty}] /\ Distinct(nvsDev', MAX_DEVICES)
    BY <1>1 DEF IndInv, TypeOK, ModeInv
  <1>3. BeginRam(nvsDev')
    BY <1>1 DEF Reset
  <1>4. mode' \in {"run", "portal"} /\ form' = 0 /\ job' = [t \in Tasks |-> Idle]
    BY DEF Reset
  <1> QED BY <1>1, <1>2, <1>3, <1>4, BeginInv

\* Saving the form and restarting keeps the invariant, whether or not the table
\* reached NVS.
LEMMA FormSaveInv ==
  ASSUME Serial, IndInv, FormSave
  PROVE  IndInv'
  <1>1. form = MAX_DEVICES + 1 /\ nvsDev' \in {dev, nvsDev} /\ UNCHANGED <<nvsFc, lns>>
    BY DEF FormSave
  <1>2. nvsDev' \in [Slots -> Devices \cup {Empty}]
    BY <1>1 DEF IndInv, TypeOK
  <1>3. Distinct(dev, MAX_DEVICES)
    <2>1. form # 0 /\ form - 1 = MAX_DEVICES
      BY <1>1, ConstAssumption
    <2> QED BY <2>1 DEF IndInv, ModeInv
  <1>4. Distinct(nvsDev', MAX_DEVICES)
    BY <1>1, <1>3 DEF IndInv, ModeInv
  <1>5. BeginRam(nvsDev')
    BY DEF FormSave
  <1>6. mode' \in {"run", "portal"} /\ form' = 0 /\ job' = [t \in Tasks |-> Idle]
    BY DEF FormSave
  <1> QED BY <1>1, <1>2, <1>4, <1>5, <1>6, BeginInv

\* The form is applied with the radio tasks at rest, so only the table matters.
LEMMA PortalStep ==
  ASSUME Serial, IndInv, mode = "portal", TypeOK',
         UNCHANGED <<extAddr, nvsDev, nvsFc, mode, job, lns>>,
         form' # 0 => Distinct(dev', form' - 1)
  PROVE  IndInv'
  <1>1. \A t \in Tasks : job'[t] = Idle
    BY DEF IndInv, ModeInv
  <1>2. JobType' /\ NoReplay' /\ Durable'
    BY DEF IndInv, JobType, NoReplay, Durable
  <1>3. \A t \in Tasks : JobInv(job[t])'
    BY <1>1 DEF JobInv, Idle
  <1>4. CounterInv'
    BY DEF CounterInv
  <1>5. ModeInv'
    BY <1>1 DEF IndInv, ModeInv
  <1> QED BY <1>2, <1>3, <1>4, <1>5 DEF IndInv

\* Opening the form, or abandoning it at an invalid row, keeps the invariant.
LEMMA FormEdgeInv ==
  ASSUME Serial, IndInv, FormOpen \/ FormError
  PROVE  IndInv'
  <1>1. UNCHANGED <<dev, fcnt, persisted, extAddr, nvsDev, nvsFc, mode, job, lns>>
    BY DEF FormOpen, FormError, ram, nvs
  <1>2. form' \in {0, 1}
    BY DEF FormOpen, FormError
  <1>3. mode = "portal"
    BY ConstAssumption DEF FormOpen, FormError, Serial, IndInv, ModeInv, TypeOK, Slots
  <1>4. TypeOK'
    <2>1. form' \in 0..(MAX_DEVICES + 1)
      BY <1>2, ConstAssumption
    <2> QED BY <1>1, <2>1 DEF IndInv, TypeOK
  <1>5. form' # 0 => Distinct(dev', form' - 1)
    <2>1. form' # 0 => form' - 1 = 0
      BY <1>2
    <2>2. \A i \in Slots : ~(i <= 0)
      BY ConstAssumption DEF Slots
    <2> QED BY <2>1, <2>2 DEF Distinct
  <1> QED BY <1>1, <1>3, <1>4, <1>5, PortalStep

\* One row of the form keeps the invariant: the operator gives it an address of
\* its own, or none.
LEMMA FormSlotInv ==
  ASSUME Serial, IndInv, FormSlot
  PROVE  IndInv'
  <1>1. /\ form \in Slots /\ form' = form + 1
        /\ UNCHANGED <<extAddr, nvsDev, nvsFc, mode, job, lns>>
    BY DEF FormSlot, nvs
  <1>2. mode = "portal"
    BY <1>1, ConstAssumption DEF IndInv, ModeInv, TypeOK, Slots
  <1>d. Distinct(dev, form - 1)
    BY <1>1, ConstAssumption DEF IndInv, ModeInv, Slots
  <1>r. \E d \in Devices \cup {Empty}, r \in 0..UINT32_MAX :
          /\ dev' = [dev EXCEPT ![form] = d]
          /\ fcnt' \in {fcnt, [fcnt EXCEPT ![form] = r]}
          /\ persisted' \in {persisted, [persisted EXCEPT ![form] = r]}
          /\ d.addr # NoAddr => OwnAddr(form, d)
    <2>1. CASE ClearDevice(form)
      <3>1. Empty \in Devices \cup {Empty} /\ Empty.addr = NoAddr /\ 0 \in 0..UINT32_MAX
        BY ConstAssumption DEF Empty
      <3> QED BY <2>1, <3>1 DEF ClearDevice
    <2>2. ASSUME NEW d \in Devices, OwnAddr(form, d), SetDevice(form, d)
          PROVE  \E e \in Devices \cup {Empty}, r \in 0..UINT32_MAX :
                   /\ dev' = [dev EXCEPT ![form] = e]
                   /\ fcnt' \in {fcnt, [fcnt EXCEPT ![form] = r]}
                   /\ persisted' \in {persisted, [persisted EXCEPT ![form] = r]}
                   /\ e.addr # NoAddr => OwnAddr(form, e)
      <3>1. LoadReserved(d.addr) \in 0..UINT32_MAX
        BY DeviceAssumption, ConstAssumption DEF LoadReserved, IndInv, TypeOK
      <3>2. /\ dev' = [dev EXCEPT ![form] = d]
            /\ fcnt' \in {fcnt, [fcnt EXCEPT ![form] = LoadReserved(d.addr)]}
            /\ persisted' \in {persisted, [persisted EXCEPT ![form] = LoadReserved(d.addr)]}
        BY <2>2 DEF SetDevice
      <3> QED BY <2>2, <3>1, <3>2
    <2> QED BY <2>1, <2>2 DEF FormSlot, Serial
  <1>p. PICK d \in Devices \cup {Empty}, r \in 0..UINT32_MAX :
          /\ dev' = [dev EXCEPT ![form] = d]
          /\ fcnt' \in {fcnt, [fcnt EXCEPT ![form] = r]}
          /\ persisted' \in {persisted, [persisted EXCEPT ![form] = r]}
          /\ d.addr # NoAddr => OwnAddr(form, d)
    BY <1>r
  <1>3. TypeOK'
    <2>1. form' \in 0..(MAX_DEVICES + 1)
      BY <1>1, ConstAssumption DEF Slots
    <2>2. dev' \in [Slots -> Devices \cup {Empty}]
      BY <1>1, <1>p DEF IndInv, TypeOK
    <2>3. fcnt' \in [Counters -> 0..UINT32_MAX] /\ persisted' \in [Counters -> 0..UINT32_MAX]
      <3>1. form \in Counters
        BY <1>1 DEF Counters
      <3>2. \A f \in [Counters -> 0..UINT32_MAX] :
              [f EXCEPT ![form] = r] \in [Counters -> 0..UINT32_MAX]
        BY <3>1, <1>p
      <3>3. fcnt \in [Counters -> 0..UINT32_MAX] /\ persisted \in [Counters -> 0..UINT32_MAX]
        BY DEF IndInv, TypeOK
      <3>4. /\ fcnt' = fcnt \/ fcnt' = [fcnt EXCEPT ![form] = r]
            /\ persisted' = persisted \/ persisted' = [persisted EXCEPT ![form] = r]
        BY <1>p
      <3>5. fcnt' \in [Counters -> 0..UINT32_MAX]
        BY <3>2, <3>3, <3>4
      <3>6. persisted' \in [Counters -> 0..UINT32_MAX]
        BY <3>2, <3>3, <3>4
      <3> QED BY <3>5, <3>6
    <2> QED BY <1>1, <2>1, <2>2, <2>3 DEF IndInv, TypeOK
  <1>4. Distinct(dev', form)
    <2>1. dev'[form] = d /\ \A i \in Slots : i # form => dev'[i] = dev[i]
      BY <1>1, <1>p DEF IndInv, TypeOK
    <2>2. \A i \in Slots : i <= form /\ i # form => i <= form - 1 /\ i \in 1..(form - 1)
      BY <1>1, ConstAssumption DEF Slots
    <2>3. d.addr # NoAddr => /\ d.addr # ExtAddr
                             /\ \A i \in 1..(form - 1) : dev[i].addr # d.addr
      BY <1>p DEF OwnAddr
    <2> QED BY <1>d, <2>1, <2>2, <2>3 DEF Distinct
  <1>5. form' # 0 => Distinct(dev', form' - 1)
    <2>1. form' - 1 = form
      BY <1>1, ConstAssumption DEF Slots
    <2> QED BY <1>4, <2>1
  <1> QED BY <1>1, <1>2, <1>3, <1>5, PortalStep

-----------------------------------------------------------------------------
\* Every step keeps the invariant, and no step moves a high-water back.
LEMMA NextInv ==
  ASSUME Serial, IndInv, [Next]_vars
  PROVE  IndInv' /\ \A a \in Addrs : nvsFc'[a] >= nvsFc[a]
  <1>h. nvsFc' = nvsFc => \A a \in Addrs : nvsFc'[a] >= nvsFc[a]
    BY DEF IndInv, TypeOK
  <1>1. CASE UNCHANGED vars
    <2>1. IndInv'
      <3>1. TypeOK' /\ JobType' /\ NoReplay' /\ Durable'
        BY <1>1 DEF vars, IndInv, TypeOK, JobType, NoReplay, Durable
      <3>2. ModeInv' /\ CounterInv'
        BY <1>1 DEF vars, IndInv, ModeInv, Distinct, CounterInv, AddrOf, Below
      <3>3. \A t \in Tasks : JobInv(job[t])'
        BY <1>1 DEF vars, IndInv, JobInv, AddrOf, Below
      <3> QED BY <3>1, <3>2, <3>3 DEF IndInv
    <2>2. nvsFc' = nvsFc
      BY <1>1 DEF vars
    <2> QED BY <2>1, <2>2, <1>h
  <1>2. CASE Reset
    BY <1>2, <1>h, ResetInv DEF Reset
  <1>3. CASE FormSave
    BY <1>3, <1>h, FormSaveInv DEF FormSave
  <1>4. CASE FormOpen \/ FormError
    BY <1>4, <1>h, FormEdgeInv DEF FormOpen, FormError, nvs
  <1>5. CASE FormSlot
    BY <1>5, <1>h, FormSlotInv DEF FormSlot, nvs
  <1>6. ASSUME NEW t \in Tasks, Uplink(t)
        PROVE  IndInv' /\ \A a \in Addrs : nvsFc'[a] >= nvsFc[a]
    <2>1. ASSUME NEW src \in Sources, Resolve(t, src)
          PROVE  IndInv' /\ nvsFc' = nvsFc
      BY <2>1, ResolveInv DEF Resolve, nvs
    <2>2. CASE Bind(t)
      BY <2>2, <1>h, BindInv DEF Bind, nvs
    <2>3. CASE Read(t)
      BY <2>3, <1>h, ReadInv DEF Read, nvs
    <2>4. CASE PersistOk(t)
      BY <2>4, PersistInv
    <2>5. CASE PersistFail(t) \/ Discard(t)
      BY <2>5, <1>h, GiveUpInv DEF PersistFail, Discard, nvs
    <2>6. CASE Commit(t)
      BY <2>6, <1>h, CommitInv DEF Commit, nvs
    <2>7. CASE Send(t)
      BY <2>7, <1>h, SendInv DEF Send, nvs
    <2> QED BY <1>6, <1>h, <2>1, <2>2, <2>3, <2>4, <2>5, <2>6, <2>7 DEF Uplink
  <1> QED BY <1>1, <1>2, <1>3, <1>4, <1>5, <1>6 DEF Next, Form

\* No FCnt is reused: with one radio task at a time and distinct addresses,
\* every FCntUp under a DevAddr exceeds the ones before it, through power cuts,
\* failed NVS writes and portal edits (nextFcnt, advanceFcnt, begin).
THEOREM NeverReplays == Serial => (Spec => []NoReplay)
  <1> SUFFICES ASSUME Serial PROVE Spec => []NoReplay
    OBVIOUS
  <1>1. Init => IndInv
    BY InitInv
  <1>2. IndInv /\ [Next]_vars => IndInv'
    BY NextInv
  <1>3. IndInv => NoReplay
    BY DEF IndInv
  <1> QED BY <1>1, <1>2, <1>3, PTL DEF Spec

\* The tables, the counters and what the tasks hold keep their shape, and no counter leaves its
\* width: at the end of the space nextFcnt answers with an error.
THEOREM TypeCorrect == Serial => (Spec => []TypeOK)
  <1> SUFFICES ASSUME Serial PROVE Spec => []TypeOK
    OBVIOUS
  <1>1. Init => IndInv
    BY InitInv
  <1>2. IndInv /\ [Next]_vars => IndInv'
    BY NextInv
  <1>3. IndInv => TypeOK
    BY DEF IndInv
  <1> QED BY <1>1, <1>2, <1>3, PTL DEF Spec

\* What went on the air was reserved in NVS before it (advanceFcnt).
THEOREM ReservedFirst == Serial => (Spec => []Durable)
  <1> SUFFICES ASSUME Serial PROVE Spec => []Durable
    OBVIOUS
  <1>1. Init => IndInv
    BY InitInv
  <1>2. IndInv /\ [Next]_vars => IndInv'
    BY NextInv
  <1>3. IndInv => Durable
    BY DEF IndInv
  <1> QED BY <1>1, <1>2, <1>3, PTL DEF Spec

\* A high-water in NVS never moves back (persistReservedForAddr).
THEOREM HighWater == Serial => (Spec => HighWaterGrows)
  <1> SUFFICES ASSUME Serial PROVE Spec => HighWaterGrows
    OBVIOUS
  <1>1. Init => IndInv
    BY InitInv
  <1>2. IndInv /\ [Next]_vars => IndInv'
    BY NextInv
  <1>3. IndInv /\ [Next]_vars => [\A a \in Addrs : nvsFc'[a] >= nvsFc[a]]_vars
    BY NextInv
  <1> QED BY <1>1, <1>2, <1>3, PTL DEF Spec, HighWaterGrows
=============================================================================
