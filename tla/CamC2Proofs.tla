---------------------------- MODULE CamC2Proofs ----------------------------
(***************************************************************************)
(* The command channel is safe for every table size, number width and      *)
(* reservation block: commands are never replayed and nonces never used    *)
(* twice, across power loss, failed writes, boots at which NVS does not    *)
(* open and edits of the peer table, as long as one request is served at a *)
(* time and an NVS that did not open at boot stays closed; the floors need *)
(* a table without duplicates too.  The runs and the README show what      *)
(* happens without each of the three.                                      *)
(***************************************************************************)
EXTENDS CamC2, SequenceTheorems, TLAPS

\* One request at a time, and no NVS that comes back.
Serial == ~Overlap /\ ~OpenRecovers

-----------------------------------------------------------------------------
(* Types *)

AcceptJob  == [step : {"accept"}, slot : Slots, id : Ids, seq : Seqs]
PersistJob == [step : {"persist"}, slot : Slots, id : Ids, seq : Seqs, key : Ids]
RunJob     == [step : {"run"}, slot : Slots, id : Ids, seq : Seqs]
TakeJob    == [step : {"take"}]
ReserveJob == [step : {"reserve"}, v : 1..(UINT32_MAX - 1 - SEQ_RESERVE)]
CommitJob  == [step : {"commit"}, v : 1..(UINT32_MAX - 1)]
EmitJob    == [step : {"emit"}, v : 1..(UINT32_MAX - 1)]
RowJob     == [step : {"row"}, row : 1..(MAX_PEERS + 1)]
SetJob     == [step : {"set"}, row : Slots, id : Ids, hw : 0..UINT32_MAX]

InJobs  == AcceptJob \cup PersistJob \cup RunJob
OutJobs == TakeJob \cup ReserveJob \cup CommitJob \cup EmitJob
FormJobs == RowJob \cup SetJob
Jobs == {Idle} \cup InJobs \cup OutJobs \cup FormJobs

\* Where a task can be; only the portal handles forms.
JobType ==
  /\ job \in [Tasks -> Jobs]
  /\ \A t \in RadioTasks : job[t] \notin FormJobs

\* The step of a job tells its kind.
LEMMA JobKinds ==
  ASSUME NEW j \in Jobs
  PROVE  /\ j.step = "idle" => j = Idle
         /\ j.step = "accept" => j \in AcceptJob
         /\ j.step = "persist" => j \in PersistJob
         /\ j.step = "run" => j \in RunJob
         /\ j.step = "take" => j \in TakeJob
         /\ j.step = "reserve" => j \in ReserveJob
         /\ j.step = "commit" => j \in CommitJob
         /\ j.step = "emit" => j \in EmitJob
         /\ j.step = "row" => j \in RowJob
         /\ j.step = "set" => j \in SetJob
  <1> USE DEF Jobs, InJobs, OutJobs, FormJobs, Idle, AcceptJob, PersistJob, RunJob,
              TakeJob, ReserveJob, CommitJob, EmitJob, RowJob, SetJob
  <1>1. CASE j = Idle          BY <1>1
  <1>2. CASE j \in InJobs      BY <1>2
  <1>3. CASE j \in OutJobs     BY <1>3
  <1>4. CASE j \in FormJobs    BY <1>4
  <1> QED BY <1>1, <1>2, <1>3, <1>4

\* Steps of the kinds of jobs.
LEMMA StepOf ==
  /\ \A j \in InJobs : j.step \in {"accept", "persist", "run"}
  /\ \A j \in OutJobs : j.step \in {"take", "reserve", "commit", "emit"}
  /\ \A j \in FormJobs : j.step \in {"row", "set"}
  /\ Idle.step = "idle"
  BY DEF InJobs, OutJobs, FormJobs, Idle, AcceptJob, PersistJob, RunJob,
         TakeJob, ReserveJob, CommitJob, EmitJob, RowJob, SetJob

\* A task that gets a job of its kind keeps the jobs typed.
LEMMA JobTyped ==
  ASSUME JobType, NEW t \in Tasks, NEW j \in Jobs, t = Portal \/ j \notin FormJobs,
         job' = [job EXCEPT ![t] = j]
  PROVE  JobType'
  BY ConstAssumption DEF JobType, Tasks

\* Types hold at the first boot.
LEMMA InitTypes == Init => TypeOK /\ JobType
  <1> SUFFICES ASSUME Init PROVE TypeOK /\ JobType
    OBVIOUS
  <1>1. nvsPeer \in [Slots -> Ids \cup {NoId}] /\ nvsRx \in [Ids -> 0..UINT32_MAX]
    BY ConstAssumption DEF Init, NoTable
  <1>2. peer \in [Slots -> [id : Ids \cup {NoId}, hw : 0..UINT32_MAX]]
    BY <1>1, ConstAssumption DEF Init, BootIds, NoTable
  <1>3. txSeq \in 1..UINT32_MAX /\ txReserved \in 0..UINT32_MAX /\ nvsTx \in 0..UINT32_MAX
    BY ConstAssumption DEF Init, FirstTx
  <1>4. done \in [Ids -> Seq(0..UINT32_MAX)] /\ sent \in Seq(0..UINT32_MAX)
    <2>1. <<>> \in Seq(0..UINT32_MAX)
      OBVIOUS
    <2> QED BY <2>1 DEF Init
  <1>5. nvsOk \in BOOLEAN
    BY DEF Init
  <1>6. JobType
    BY StepOf DEF Init, JobType, Jobs, Tasks
  <1> QED BY <1>1, <1>2, <1>3, <1>4, <1>5, <1>6 DEF TypeOK

\* A boot loads typed values.
LEMMA ResetTypes ==
  ASSUME TypeOK, JobType, Reset
  PROVE  TypeOK' /\ JobType'
  <1>1. PICK ok \in BOOLEAN :
          LET ids == BootIds(IF ok THEN nvsPeer ELSE NoTable)
              tx == IF ok THEN nvsTx ELSE 0
          IN /\ nvsOk' = ok
             /\ peer' = [i \in Slots |-> [id |-> ids[i], hw |-> LoadRx(ids[i], ok)]]
             /\ txReserved' = tx
             /\ txSeq' = FirstTx(tx)
             /\ job' = [t \in Tasks |-> Idle]
             /\ UNCHANGED <<nvsPeer, nvsRx, nvsTx, done, sent>>
    BY DEF Reset
  <1> DEFINE ids == BootIds(IF ok THEN nvsPeer ELSE NoTable)
  <1>2. ids \in [Slots -> Ids \cup {NoId}]
    BY ConstAssumption DEF TypeOK, BootIds, NoTable
  <1>3. \A id \in Ids \cup {NoId} : LoadRx(id, ok) \in 0..UINT32_MAX
    BY ConstAssumption DEF TypeOK, LoadRx
  <1>4. peer' \in [Slots -> [id : Ids \cup {NoId}, hw : 0..UINT32_MAX]]
    BY <1>1, <1>2, <1>3
  <1>5. txReserved' \in 0..UINT32_MAX /\ txSeq' \in 1..UINT32_MAX
    BY <1>1, ConstAssumption DEF TypeOK, FirstTx
  <1>6. JobType'
    BY <1>1, StepOf DEF JobType, Jobs, Tasks
  <1> QED BY <1>1, <1>4, <1>5, <1>6 DEF TypeOK

\* The inbound path keeps types.
LEMMA InboundTypes ==
  ASSUME TypeOK, JobType, NEW t \in RadioTasks, Inbound(t)
  PROVE  TypeOK' /\ JobType'
  <1> DEFINE j == job[t]
  <1>t. t \in Tasks /\ j \in Jobs
    BY DEF Tasks, JobType
  <1>1. ASSUME NEW id \in Ids, NEW s \in Seqs, Receive(t, id, s)
        PROVE  TypeOK' /\ JobType'
    <2>1. PICK i \in Slots : job' = [job EXCEPT ![t] = [step |-> "accept", slot |-> i,
                                                       id |-> id, seq |-> s]]
      BY <1>1 DEF Receive
    <2> DEFINE n == [step |-> "accept", slot |-> i, id |-> id, seq |-> s]
    <2>2. n \in InJobs
      BY DEF InJobs, AcceptJob
    <2>3. JobType'
      BY <2>1, <2>2, <1>t, StepOf, JobTyped DEF Jobs
    <2>4. TypeOK'
      BY <1>1 DEF Receive, rxVars, txVars, TypeOK
    <2> QED BY <2>3, <2>4
  <1>2. CASE Accept(t)
    <2>1. j \in AcceptJob
      BY <1>2, <1>t, JobKinds DEF Accept
    <2> DEFINE p == peer[j.slot]
               n == [step |-> "persist", slot |-> j.slot, id |-> j.id, seq |-> j.seq,
                     key |-> p.id]
    <2>2. p.id \in Ids \cup {NoId}
      BY <2>1 DEF TypeOK, AcceptJob
    <2>3. p.id # NoId => n \in InJobs
      BY <2>1, <2>2 DEF InJobs, PersistJob, AcceptJob
    <2>4. CASE p.id = NoId \/ j.seq <= p.hw
      <3>1. job' = [job EXCEPT ![t] = Idle]
        BY <1>2, <2>4 DEF Accept
      <3> QED BY <3>1, <1>2, <1>t, StepOf, JobTyped DEF Jobs, Accept, rxVars, txVars, TypeOK
    <2>5. CASE ~(p.id = NoId \/ j.seq <= p.hw)
      <3>1. job' = [job EXCEPT ![t] = n]
        BY <1>2, <2>5 DEF Accept
      <3>2. JobType'
        BY <3>1, <2>3, <2>5, <1>t, StepOf, JobTyped DEF Jobs
      <3> QED BY <3>2, <1>2 DEF Accept, rxVars, txVars, TypeOK
    <2> QED BY <2>4, <2>5
  <1>3. CASE PersistRx(t)
    <2>1. j \in PersistJob
      BY <1>3, <1>t, JobKinds DEF PersistRx
    <2> DEFINE n == [step |-> "run", slot |-> j.slot, id |-> j.id, seq |-> j.seq]
    <2>2. n \in InJobs /\ j.key \in Ids /\ j.seq \in 0..UINT32_MAX
      BY <2>1, ConstAssumption DEF InJobs, RunJob, PersistJob
    <2>3. /\ job' = [job EXCEPT ![t] = n] \/ job' = [job EXCEPT ![t] = Idle]
          /\ nvsRx' = [nvsRx EXCEPT ![j.key] = j.seq] \/ nvsRx' = nvsRx
          /\ UNCHANGED <<peer, nvsPeer, nvsOk, done, txVars>>
      BY <1>3 DEF PersistRx
    <2>4. JobType'
      BY <2>2, <2>3, <1>t, StepOf, JobTyped DEF Jobs
    <2>5. nvsRx' \in [Ids -> 0..UINT32_MAX]
      BY <2>2, <2>3 DEF TypeOK
    <2> QED BY <2>3, <2>4, <2>5 DEF TypeOK, txVars
  <1>4. CASE Run(t)
    <2>1. j \in RunJob
      BY <1>4, <1>t, JobKinds DEF Run
    <2>2. j.slot \in Slots /\ j.id \in Ids /\ j.seq \in 0..UINT32_MAX
      BY <2>1, ConstAssumption DEF RunJob
    <2>3. /\ job' = [job EXCEPT ![t] = Idle] \/ job' = [job EXCEPT ![t] = [step |-> "take"]]
          /\ peer' = [peer EXCEPT ![j.slot].hw = j.seq]
          /\ done' = [done EXCEPT ![j.id] = Append(@, j.seq)]
          /\ UNCHANGED <<nvsPeer, nvsRx, nvsOk, txVars>>
      BY <1>4 DEF Run
    <2>4. JobType'
      <3>1. [step |-> "take"] \in OutJobs
        BY DEF OutJobs, TakeJob
      <3> QED BY <3>1, <2>3, <1>t, StepOf, JobTyped DEF Jobs
    <2>5. peer' \in [Slots -> [id : Ids \cup {NoId}, hw : 0..UINT32_MAX]]
      BY <2>2, <2>3 DEF TypeOK
    <2>6. done' \in [Ids -> Seq(0..UINT32_MAX)]
      <3>1. Append(done[j.id], j.seq) \in Seq(0..UINT32_MAX)
        BY <2>2, AppendProperties DEF TypeOK
      <3> QED BY <3>1, <2>2, <2>3 DEF TypeOK
    <2> QED BY <2>3, <2>4, <2>5, <2>6 DEF TypeOK, txVars
  <1> QED BY <1>1, <1>2, <1>3, <1>4 DEF Inbound

\* Taking a number keeps types; the number space is never left.
LEMMA OutboundTypes ==
  ASSUME TypeOK, JobType, NEW t \in Tasks, Outbound(t)
  PROVE  TypeOK' /\ JobType'
  <1> DEFINE j == job[t]
  <1>t. j \in Jobs
    BY DEF JobType
  <1>1. CASE Take(t)
    <2>1. ASSUME NEW n \in OutJobs \cup {Idle}, job' = [job EXCEPT ![t] = n]
          PROVE  TypeOK' /\ JobType'
      <3>1. n \in Jobs /\ n \notin FormJobs
        BY StepOf DEF Jobs
      <3>2. JobType'
        BY <2>1, <3>1, JobTyped
      <3> QED BY <3>2, <1>1 DEF Take, rxVars, txVars, TypeOK
    <2>2. CASE txSeq < txReserved
      <3>1. [step |-> "commit", v |-> txSeq] \in OutJobs
        BY <2>2, ConstAssumption DEF OutJobs, CommitJob, TypeOK
      <3> QED BY <3>1, <2>1, <2>2, <1>1 DEF Take
    <2>3. CASE ~(txSeq < txReserved) /\ txSeq > UINT32_MAX - 1 - SEQ_RESERVE
      BY <2>1, <2>3, <1>1 DEF Take
    <2>4. CASE ~(txSeq < txReserved) /\ ~(txSeq > UINT32_MAX - 1 - SEQ_RESERVE)
      <3>1. [step |-> "reserve", v |-> txSeq] \in OutJobs
        BY <2>4, ConstAssumption DEF OutJobs, ReserveJob, TypeOK
      <3> QED BY <3>1, <2>1, <2>4, <1>1 DEF Take
    <2> QED BY <2>2, <2>3, <2>4
  <1>2. CASE Reserve(t)
    <2>1. j \in ReserveJob
      BY <1>2, <1>t, JobKinds DEF Reserve
    <2>2. /\ [step |-> "commit", v |-> j.v] \in OutJobs
          /\ j.v + 1 + SEQ_RESERVE \in 0..UINT32_MAX
      BY <2>1, ConstAssumption DEF OutJobs, CommitJob, ReserveJob
    <2>3. JobType'
      BY <1>2, <2>2, StepOf, JobTyped DEF Reserve, Jobs
    <2>4. nvsTx' \in 0..UINT32_MAX /\ txReserved' \in 0..UINT32_MAX
      BY <1>2, <2>2 DEF Reserve, TypeOK
    <2> QED BY <1>2, <2>3, <2>4 DEF Reserve, TypeOK, rxVars
  <1>3. CASE Commit(t)
    <2>1. j \in CommitJob
      BY <1>3, <1>t, JobKinds DEF Commit
    <2>2. [step |-> "emit", v |-> j.v] \in OutJobs /\ j.v + 1 \in 1..UINT32_MAX
      BY <2>1, ConstAssumption DEF OutJobs, EmitJob, CommitJob
    <2>3. JobType'
      BY <1>3, <2>2, StepOf, JobTyped DEF Commit, Jobs
    <2> QED BY <1>3, <2>2, <2>3 DEF Commit, TypeOK, rxVars
  <1>4. CASE Emit(t)
    <2>1. j \in EmitJob
      BY <1>4, <1>t, JobKinds DEF Emit
    <2>2. j.v \in 0..UINT32_MAX
      BY <2>1, ConstAssumption DEF EmitJob
    <2>3. sent' \in Seq(0..UINT32_MAX)
      <3>1. Append(sent, j.v) \in Seq(0..UINT32_MAX)
        BY <2>2, AppendProperties DEF TypeOK
      <3> QED BY <3>1, <1>4 DEF Emit, TypeOK
    <2>4. JobType'
      BY <1>4, StepOf, JobTyped DEF Emit, Jobs
    <2> QED BY <1>4, <2>3, <2>4 DEF Emit, TypeOK, rxVars
  <1> QED BY <1>1, <1>2, <1>3, <1>4 DEF Outbound

\* The portal's forms keep types.
LEMMA PortalTypes ==
  ASSUME TypeOK, JobType, Form \/ \E id \in Ids : SendMessage(id)
  PROVE  TypeOK' /\ JobType'
  <1> DEFINE j == job[Portal]
  <1>t. Portal \in Tasks /\ j \in Jobs
    BY DEF Tasks, JobType
  <1>0. ASSUME NEW n \in Jobs, job' = [job EXCEPT ![Portal] = n]
        PROVE  JobType'
    BY <1>0, <1>t, JobTyped
  <1>1. ASSUME NEW id \in Ids, SendMessage(id)
        PROVE  TypeOK' /\ JobType'
    <2>1. [step |-> "take"] \in Jobs
      BY DEF Jobs, OutJobs, TakeJob
    <2> QED BY <1>0, <1>1, <2>1 DEF SendMessage, rxVars, txVars, TypeOK
  <1>2. CASE FormOpen
    <2>1. [step |-> "row", row |-> 1] \in Jobs
      BY ConstAssumption DEF Jobs, FormJobs, RowJob
    <2> QED BY <1>0, <1>2, <2>1 DEF FormOpen, rxVars, txVars, TypeOK
  <1>3. ASSUME j \in FormJobs, j.row \in Slots
        PROVE  [step |-> "row", row |-> j.row + 1] \in Jobs
    BY <1>3, ConstAssumption DEF Jobs, FormJobs, RowJob, Slots
  <1>4. CASE RowClear
    <2>1. j \in RowJob /\ j.row \in Slots
      BY <1>4, <1>t, JobKinds DEF RowClear
    <2>2. job' = [job EXCEPT ![Portal] = [step |-> "row", row |-> j.row + 1]]
      <3>1. [j EXCEPT !.row = @ + 1] = [step |-> "row", row |-> j.row + 1]
        BY <2>1 DEF RowJob
      <3> QED BY <3>1, <1>4 DEF RowClear
    <2>3. JobType'
      BY <1>0, <1>3, <2>1, <2>2 DEF FormJobs
    <2>4. peer' \in [Slots -> [id : Ids \cup {NoId}, hw : 0..UINT32_MAX]]
      BY <1>4, <2>1, ConstAssumption DEF RowClear, Empty, TypeOK
    <2> QED BY <1>4, <2>3, <2>4 DEF RowClear, txVars, TypeOK
  <1>5. ASSUME NEW id \in Ids, RowCopy(id)
        PROVE  TypeOK' /\ JobType'
    <2>1. j \in RowJob /\ j.row \in Slots
      BY <1>5, <1>t, JobKinds DEF RowCopy
    <2> DEFINE n == [step |-> "set", row |-> j.row, id |-> id,
                     hw |-> IF peer[j.row].id = id THEN peer[j.row].hw ELSE 0]
    <2>2. n \in Jobs
      BY <2>1, ConstAssumption DEF Jobs, FormJobs, SetJob, TypeOK
    <2>3. job' = [job EXCEPT ![Portal] = n]
      BY <1>5 DEF RowCopy
    <2>4. JobType'
      BY <1>0, <2>2, <2>3
    <2> QED BY <1>5, <2>4 DEF RowCopy, rxVars, txVars, TypeOK
  <1>6. CASE RowSet
    <2>1. j \in SetJob
      BY <1>6, <1>t, JobKinds DEF RowSet
    <2>2. j.row \in Slots /\ j.id \in Ids /\ j.hw \in 0..UINT32_MAX
      BY <2>1 DEF SetJob
    <2>3. JobType'
      BY <1>0, <1>3, <1>6, <2>1, <2>2 DEF RowSet, FormJobs
    <2>4. \A ok : LoadRx(j.id, ok) \in 0..UINT32_MAX
      BY <2>2, ConstAssumption DEF LoadRx, TypeOK
    <2>5. peer' \in [Slots -> [id : Ids \cup {NoId}, hw : 0..UINT32_MAX]]
      BY <1>6, <2>2, <2>4 DEF RowSet, TypeOK
    <2> QED BY <1>6, <2>3, <2>5 DEF RowSet, txVars, TypeOK
  <1>7. CASE RowError
    BY <1>0, <1>7 DEF RowError, Jobs, rxVars, txVars, TypeOK
  <1>8. CASE SaveTable
    <2>1. nvsPeer' \in [Slots -> Ids \cup {NoId}]
      BY <1>8 DEF SaveTable, TypeOK
    <2>2. JobType'
      BY <1>0, <1>8 DEF SaveTable, Jobs
    <2> QED BY <1>8, <2>1, <2>2 DEF SaveTable, txVars, TypeOK
  <1> QED BY <1>1, <1>2, <1>4, <1>5, <1>6, <1>7, <1>8 DEF Form

\* Every step keeps types.
LEMMA TypeStep == TypeOK /\ JobType /\ [Next]_vars => TypeOK' /\ JobType'
  <1> SUFFICES ASSUME TypeOK, JobType, [Next]_vars PROVE TypeOK' /\ JobType'
    OBVIOUS
  <1>1. CASE UNCHANGED vars
    BY <1>1 DEF vars, TypeOK, JobType
  <1>2. CASE Next
    BY <1>2, ResetTypes, InboundTypes, OutboundTypes, PortalTypes DEF Next
  <1> QED BY <1>1, <1>2

\* The tables, the numbers and the jobs stay within their types whatever
\* overlaps: nextTxSeq never leaves the 32-bit number space.
THEOREM TypeCorrect == Spec => [](TypeOK /\ JobType)
  BY InitTypes, TypeStep, PTL DEF Spec

-----------------------------------------------------------------------------
(* One request at a time *)

\* At most one task is at work.
Alone == \A t, u \in Tasks : job[t] # Idle /\ job[u] # Idle => t = u

\* The other tasks are idle while t is at work or starts.
OthersIdle(t) == \A u \in Tasks \ {t} : job[u] = Idle

\* Every step but a boot moves the job of one task, and that task is alone.
LEMMA Shape ==
  ASSUME Serial, TypeOK, JobType, Alone, Next
  PROVE  \/ Reset
         \/ \E t \in RadioTasks : Inbound(t) /\ OthersIdle(t)
         \/ \E t \in Tasks : Outbound(t) /\ OthersIdle(t)
         \/ (Form \/ \E id \in Ids : SendMessage(id)) /\ OthersIdle(Portal)
  <1>1. ASSUME NEW t \in Tasks, job[t] # Idle PROVE OthersIdle(t)
    BY <1>1 DEF Alone, OthersIdle
  <1>2. ASSUME NEW t \in Tasks, MayStart(t) PROVE OthersIdle(t)
    BY <1>2 DEF MayStart, Serial, OthersIdle
  <1>3. Portal \in Tasks /\ RadioTasks \subseteq Tasks
    BY DEF Tasks
  <1>4. ASSUME NEW t \in RadioTasks, Inbound(t) PROVE OthersIdle(t)
    BY <1>1, <1>2, <1>3, <1>4, StepOf DEF Inbound, Receive, Accept, PersistRx, Run
  <1>5. ASSUME NEW t \in Tasks, Outbound(t) PROVE OthersIdle(t)
    BY <1>1, <1>5, StepOf DEF Outbound, Take, Reserve, Commit, Emit
  <1>6. ASSUME Form \/ \E id \in Ids : SendMessage(id) PROVE OthersIdle(Portal)
    BY <1>1, <1>2, <1>3, <1>6, StepOf
    DEF Form, SendMessage, FormOpen, RowClear, RowCopy, RowSet, RowError, SaveTable
  <1> QED BY <1>4, <1>5, <1>6 DEF Next

\* A task that is alone gets its next job and is still alone.
LEMMA NextJob ==
  ASSUME JobType, NEW t \in Tasks, OthersIdle(t), NEW j, job' = [job EXCEPT ![t] = j]
  PROVE  Alone' /\ job'[t] = j /\ \A u \in Tasks \ {t} : job'[u] = Idle
  BY DEF JobType, OthersIdle, Alone

-----------------------------------------------------------------------------
(* Outbound numbers *)

\* All numbers sent are below b.
SentBelow(b) == \A n \in 1..Len(sent) : sent[n] < b

\* What a task has read of the counter is still so.
TxJob(j) ==
  /\ j.step = "reserve" => j.v = txSeq
  /\ j.step = "commit" => nvsOk /\ j.v = txSeq /\ j.v < txReserved
  /\ j.step = "emit" => nvsOk /\ j.v < txSeq /\ j.v < nvsTx /\ SentBelow(j.v)

\* The reservation in RAM is the one in NVS and the counter has not left it; what
\* was sent is below both.  Where NVS did not open, nothing is reserved.
ReservedInv ==
  /\ SentBelow(nvsTx)
  /\ nvsOk => /\ txReserved = nvsTx /\ SentBelow(txSeq)
              /\ txSeq <= txReserved \/ (txReserved = 0 /\ txSeq = 1)
  /\ ~nvsOk => txReserved = 0

\* The inductive invariant of the outbound counter.
TxInv ==
  /\ Alone /\ ReservedInv /\ FreshSeq
  /\ \A t \in Tasks : TxJob(job[t])

-----------------------------------------------------------------------------
(* Replay floors *)

\* The first n slots hold different peers.
Unique(n) ==
  \A i, k \in Slots :
    i <= n /\ k <= n /\ peer[i].id = peer[k].id /\ peer[i].id # NoId => i = k

\* The slots a form has been through, or all.
Filled == IF job[Portal].step \in {"row", "set"} THEN job[Portal].row - 1 ELSE MAX_PEERS

\* No two slots share a peer, in NVS and in the part of the table in order.
TableInv ==
  /\ \A i, k \in Slots : nvsPeer[i] = nvsPeer[k] /\ nvsPeer[i] # NoId => i = k
  /\ Unique(Filled)

\* All frames of a peer acted on have numbers below s.
Above(id, s) == \A n \in 1..Len(done[id]) : done[id][n] < s

\* The saved floor covers every frame acted on.
Durable == \A id \in Ids : \A n \in 1..Len(done[id]) : done[id][n] <= nvsRx[id]

\* A floor in RAM lags behind the saved one only between persistRxForPeer and the
\* assignment after it.
Lags(i) == \E t \in RadioTasks : job[t].step = "run" /\ job[t].slot = i

FloorInv ==
  nvsOk => \A i \in Slots : peer[i].id # NoId /\ ~Lags(i) => peer[i].hw = nvsRx[peer[i].id]

\* What a task has read of the table is still so.
RxJob(j) ==
  /\ j.step \in {"accept", "persist", "run"} => peer[j.slot].id = j.id
  /\ j.step = "persist" => j.key = j.id /\ peer[j.slot].hw < j.seq
  /\ j.step = "run" => nvsOk /\ j.seq = nvsRx[j.id] /\ Above(j.id, j.seq)
  /\ j.step = "set" => /\ \A k \in Slots : k < j.row => peer[k].id # j.id
                       /\ j.id = peer[j.row].id => j.hw = peer[j.row].hw

\* The inductive invariant of the replay floors.
RxInv ==
  /\ Alone /\ TableInv /\ Durable /\ FloorInv /\ NoReplay
  /\ \A t \in Tasks : RxJob(job[t])

-----------------------------------------------------------------------------
(* Proof for the outbound numbers *)

\* What was sent are numbers.
LEMMA SentTypes ==
  ASSUME TypeOK
  PROVE  Len(sent) \in Nat /\ \A n \in 1..Len(sent) : sent[n] \in Nat
  <1>1. sent \in Seq(0..UINT32_MAX)
    BY DEF TypeOK
  <1>2. \A n \in 1..Len(sent) : sent[n] \in 0..UINT32_MAX
    BY <1>1, ElementOfSeq
  <1> QED BY <1>1, <1>2

\* The invariant holds at the first boot.
LEMMA TxInit == Init => TxInv
  <1> SUFFICES ASSUME Init PROVE TxInv
    OBVIOUS
  <1>1. sent = <<>> /\ nvsTx = 0 /\ txReserved = 0 /\ txSeq = 1
        /\ \A t \in Tasks : job[t] = Idle
    BY DEF Init, FirstTx
  <1>2. Len(sent) = 0
    BY <1>1
  <1>3. FreshSeq /\ ReservedInv
    BY <1>1, <1>2 DEF FreshSeq, ReservedInv, SentBelow
  <1>4. Alone /\ \A t \in Tasks : TxJob(job[t])
    BY <1>1, StepOf DEF Alone, TxJob
  <1> QED BY <1>3, <1>4 DEF TxInv

\* A boot resumes at the reservation, above all that was sent.
LEMMA TxReset ==
  ASSUME TypeOK, TxInv, Reset
  PROVE  TxInv'
  <1>1. PICK ok \in BOOLEAN :
          /\ nvsOk' = ok /\ txReserved' = (IF ok THEN nvsTx ELSE 0)
          /\ txSeq' = FirstTx(IF ok THEN nvsTx ELSE 0)
          /\ job' = [t \in Tasks |-> Idle]
          /\ UNCHANGED <<nvsTx, sent>>
    BY DEF Reset
  <1>2. Alone' /\ \A t \in Tasks : TxJob(job[t])'
    BY <1>1, StepOf DEF Alone, TxJob
  <1>3. FreshSeq'
    BY <1>1 DEF TxInv, FreshSeq
  <1>4. SentBelow(nvsTx) /\ nvsTx \in Nat
    BY DEF TxInv, ReservedInv, TypeOK
  <1>5. ReservedInv'
    BY <1>1, <1>4, SentTypes DEF ReservedInv, SentBelow, FirstTx
  <1> QED BY <1>2, <1>3, <1>5 DEF TxInv

\* A step that leaves the counter alone and gives its task a job without a number
\* keeps the invariant.
LEMMA TxFrame ==
  ASSUME TxInv, JobType, NEW t \in Tasks, OthersIdle(t), NEW j, job' = [job EXCEPT ![t] = j],
         j.step \notin {"reserve", "commit", "emit"}, UNCHANGED <<txVars, nvsOk>>
  PROVE  TxInv'
  <1>1. Alone' /\ job'[t] = j /\ \A u \in Tasks \ {t} : job'[u] = Idle
    BY NextJob
  <1>2. \A u \in Tasks : job'[u].step \notin {"reserve", "commit", "emit"}
    BY <1>1, StepOf
  <1>3. \A u \in Tasks : TxJob(job[u])'
    BY <1>2 DEF TxJob
  <1>4. ReservedInv' /\ FreshSeq'
    BY DEF TxInv, ReservedInv, FreshSeq, SentBelow, txVars
  <1> QED BY <1>1, <1>3, <1>4 DEF TxInv

\* The inbound path and the portal leave the counter alone.
LEMMA TxOthers ==
  ASSUME TxInv, JobType,
         \/ \E t \in RadioTasks : Inbound(t) /\ OthersIdle(t)
         \/ (Form \/ \E id \in Ids : SendMessage(id)) /\ OthersIdle(Portal)
  PROVE  TxInv'
  <1>t. Portal \in Tasks /\ RadioTasks \subseteq Tasks
    BY DEF Tasks
  <1>1. ASSUME NEW t \in RadioTasks, Inbound(t), OthersIdle(t) PROVE TxInv'
    <2>1. UNCHANGED <<txVars, nvsOk>>
      BY <1>1 DEF Inbound, Receive, Accept, PersistRx, Run, rxVars
    <2>0. ASSUME NEW j, job' = [job EXCEPT ![t] = j],
                 j.step \notin {"reserve", "commit", "emit"}
          PROVE  TxInv'
      BY <1>1, <1>t, <2>0, <2>1, TxFrame
    <2>2. ASSUME NEW id \in Ids, NEW s \in Seqs, Receive(t, id, s) PROVE TxInv'
      <3>1. PICK i \in Slots : job' = [job EXCEPT ![t] = [step |-> "accept", slot |-> i,
                                                         id |-> id, seq |-> s]]
        BY <2>2 DEF Receive
      <3> QED BY <3>1, <2>0
    <2>3. CASE Accept(t)
      <3> DEFINE n == [step |-> "persist", slot |-> job[t].slot, id |-> job[t].id,
                       seq |-> job[t].seq, key |-> peer[job[t].slot].id]
      <3>1. job' = [job EXCEPT ![t] = Idle] \/ job' = [job EXCEPT ![t] = n]
        BY <2>3 DEF Accept
      <3> QED BY <3>1, <2>0, StepOf
    <2>4. CASE PersistRx(t)
      <3> DEFINE n == [step |-> "run", slot |-> job[t].slot, id |-> job[t].id,
                       seq |-> job[t].seq]
      <3>1. job' = [job EXCEPT ![t] = Idle] \/ job' = [job EXCEPT ![t] = n]
        BY <2>4 DEF PersistRx
      <3> QED BY <3>1, <2>0, StepOf
    <2>5. CASE Run(t)
      <3>1. job' = [job EXCEPT ![t] = Idle] \/ job' = [job EXCEPT ![t] = [step |-> "take"]]
        BY <2>5 DEF Run
      <3> QED BY <3>1, <2>0, StepOf
    <2> QED BY <1>1, <2>2, <2>3, <2>4, <2>5 DEF Inbound
  <1>2. ASSUME Form \/ \E id \in Ids : SendMessage(id), OthersIdle(Portal) PROVE TxInv'
    <2>1. UNCHANGED <<txVars, nvsOk>>
      BY <1>2 DEF Form, SendMessage, FormOpen, RowClear, RowCopy, RowSet, RowError,
                  SaveTable, rxVars
    <2>0. ASSUME NEW j, job' = [job EXCEPT ![Portal] = j],
                 j.step \notin {"reserve", "commit", "emit"}
          PROVE  TxInv'
      BY <1>2, <1>t, <2>0, <2>1, TxFrame
    <2>2. CASE (\E id \in Ids : SendMessage(id)) \/ FormOpen
      <3>1. \/ job' = [job EXCEPT ![Portal] = [step |-> "take"]]
            \/ job' = [job EXCEPT ![Portal] = [step |-> "row", row |-> 1]]
        BY <2>2 DEF SendMessage, FormOpen
      <3> QED BY <3>1, <2>0
    <2>3. CASE RowClear
      <3> DEFINE n == [job[Portal] EXCEPT !.row = @ + 1]
      <3>1. job[Portal] \in RowJob
        BY <2>3, <1>t, JobKinds DEF RowClear, JobType
      <3>2. n.step = "row" /\ job' = [job EXCEPT ![Portal] = n]
        BY <2>3, <3>1 DEF RowClear, RowJob
      <3> QED BY <3>2, <2>0
    <2>4. ASSUME NEW id \in Ids, RowCopy(id) PROVE TxInv'
      <3> DEFINE r == job[Portal].row
                 n == [step |-> "set", row |-> r, id |-> id,
                       hw |-> IF peer[r].id = id THEN peer[r].hw ELSE 0]
      <3>1. job' = [job EXCEPT ![Portal] = n]
        BY <2>4 DEF RowCopy
      <3>2. n.step = "set"
        OBVIOUS
      <3> HIDE DEF n
      <3> QED BY <3>1, <3>2, <2>0
    <2>5. CASE RowSet
      <3> DEFINE n == [step |-> "row", row |-> job[Portal].row + 1]
      <3>1. job' = [job EXCEPT ![Portal] = n]
        BY <2>5 DEF RowSet
      <3> QED BY <3>1, <2>0
    <2>6. CASE RowError \/ SaveTable
      BY <2>6, <2>0, StepOf DEF RowError, SaveTable
    <2> QED BY <1>2, <2>2, <2>3, <2>4, <2>5, <2>6 DEF Form
  <1> QED BY <1>1, <1>2

\* nextTxSeq and the emission keep the invariant.
LEMMA TxOutbound ==
  ASSUME Serial, TypeOK, JobType, TxInv, NEW t \in Tasks, Outbound(t), OthersIdle(t)
  PROVE  TxInv'
  <1> DEFINE j == job[t]
  <1>t. j \in Jobs /\ TxJob(j)
    BY DEF JobType, TxInv
  <1>n. txSeq \in Nat /\ txReserved \in Nat /\ nvsTx \in Nat
    BY DEF TypeOK
  <1>0. ASSUME NEW n, job' = [job EXCEPT ![t] = n]
        PROVE  /\ job'[t] = n /\ Alone'
               /\ TxJob(job[t])' => \A u \in Tasks : TxJob(job[u])'
    <2>1. Alone' /\ job'[t] = n /\ \A u \in Tasks \ {t} : job'[u] = Idle
      BY <1>0, NextJob
    <2>2. \A u \in Tasks \ {t} : TxJob(job[u])'
      BY <2>1, StepOf DEF TxJob
    <2> QED BY <2>1, <2>2
  <1>1. CASE Take(t)
    <2>1. UNCHANGED <<txVars, nvsOk>>
      BY <1>1 DEF Take, rxVars
    <2>2. ReservedInv' /\ FreshSeq'
      BY <2>1 DEF TxInv, ReservedInv, FreshSeq, SentBelow, txVars
    <2>3. CASE txSeq < txReserved
      <3> DEFINE n == [step |-> "commit", v |-> txSeq]
      <3>1. job' = [job EXCEPT ![t] = n]
        BY <1>1, <2>3 DEF Take
      <3>2. nvsOk
        BY <2>3, <1>n DEF TxInv, ReservedInv, TypeOK
      <3>3. TxJob(job[t])'
        <4>1. job'[t] = n
          BY <1>0, <3>1
        <4> QED BY <4>1, <2>1, <2>3, <3>2 DEF TxJob, txVars
      <3> QED BY <1>0, <2>2, <3>1, <3>3 DEF TxInv
    <2>4. CASE ~(txSeq < txReserved) /\ txSeq > UINT32_MAX - 1 - SEQ_RESERVE
      <3>1. job' = [job EXCEPT ![t] = Idle]
        BY <1>1, <2>4 DEF Take
      <3>2. TxJob(job[t])'
        BY <1>0, <3>1, StepOf DEF TxJob
      <3> QED BY <1>0, <2>2, <3>1, <3>2 DEF TxInv
    <2>5. CASE ~(txSeq < txReserved) /\ ~(txSeq > UINT32_MAX - 1 - SEQ_RESERVE)
      <3> DEFINE n == [step |-> "reserve", v |-> txSeq]
      <3>1. job' = [job EXCEPT ![t] = n]
        BY <1>1, <2>5 DEF Take
      <3>2. TxJob(job[t])'
        <4>1. job'[t] = n
          BY <1>0, <3>1
        <4> QED BY <4>1, <2>1 DEF TxJob, txVars
      <3> QED BY <1>0, <2>2, <3>1, <3>2 DEF TxInv
    <2> QED BY <2>3, <2>4, <2>5
  <1>2. CASE Reserve(t)
    <2> DEFINE r == j.v + 1 + SEQ_RESERVE
    <2>1. j \in ReserveJob /\ j.v = txSeq /\ UNCHANGED <<txSeq, sent, nvsOk>>
      BY <1>2, <1>t, JobKinds DEF Reserve, TxJob, rxVars
    <2>2. FreshSeq'
      BY <2>1 DEF TxInv, FreshSeq
    <2>3. CASE /\ TRUE \in Opens /\ nvsTx' = r /\ txReserved' = r
               /\ job' = [job EXCEPT ![t] = [step |-> "commit", v |-> j.v]]
      <3>1. nvsOk
        BY <2>3 DEF Opens, Serial
      <3>2. SentBelow(txSeq) /\ r \in Nat /\ txSeq < r
        BY <2>1, <3>1, <1>n, ConstAssumption DEF TxInv, ReservedInv
      <3>3. SentBelow(r)
        BY <3>2, <1>n, SentTypes DEF SentBelow
      <3>4. ReservedInv'
        BY <2>1, <2>3, <3>1, <3>2, <3>3, <1>n DEF ReservedInv, SentBelow
      <3>5. TxJob(job[t])'
        <4>1. job'[t] = [step |-> "commit", v |-> j.v]
          BY <1>0, <2>3
        <4> QED BY <4>1, <2>1, <2>3, <3>1, <3>2 DEF TxJob
      <3> QED BY <1>0, <2>2, <2>3, <3>4, <3>5 DEF TxInv
    <2>4. CASE job' = [job EXCEPT ![t] = Idle] /\ UNCHANGED <<nvsTx, txReserved>>
      <3>1. ReservedInv'
        BY <2>1, <2>4 DEF TxInv, ReservedInv, SentBelow
      <3>2. TxJob(job[t])'
        BY <1>0, <2>4, StepOf DEF TxJob
      <3> QED BY <1>0, <2>2, <2>4, <3>1, <3>2 DEF TxInv
    <2> QED BY <1>2, <2>3, <2>4 DEF Reserve
  <1>3. CASE Commit(t)
    <2> DEFINE n == [step |-> "emit", v |-> j.v]
    <2>1. /\ nvsOk /\ j.v = txSeq /\ j.v < txReserved /\ txSeq' = j.v + 1
          /\ job' = [job EXCEPT ![t] = n] /\ UNCHANGED <<txReserved, nvsTx, sent, nvsOk>>
      BY <1>3, <1>t DEF Commit, TxJob, rxVars
    <2>2. FreshSeq'
      BY <2>1 DEF TxInv, FreshSeq
    <2>3. SentBelow(txSeq) /\ txReserved = nvsTx
      BY <2>1 DEF TxInv, ReservedInv
    <2>4. ReservedInv'
      BY <2>1, <2>3, <1>n, SentTypes DEF TxInv, ReservedInv, SentBelow
    <2>5. TxJob(job[t])'
      <3>1. job'[t] = n
        BY <1>0, <2>1
      <3> QED BY <3>1, <2>1, <2>3, <1>n DEF TxJob, SentBelow
    <2> QED BY <1>0, <2>1, <2>2, <2>4, <2>5 DEF TxInv
  <1>4. CASE Emit(t)
    <2>1. /\ job' = [job EXCEPT ![t] = Idle]
          /\ sent' = sent \/ sent' = Append(sent, j.v)
          /\ UNCHANGED <<txSeq, txReserved, nvsTx, nvsOk>>
      BY <1>4 DEF Emit, rxVars
    <2>2. nvsOk /\ j.v < txSeq /\ j.v < nvsTx /\ SentBelow(j.v) /\ j.v \in Nat /\ j.v >= 1
      BY <1>4, <1>t, JobKinds DEF Emit, TxJob, EmitJob
    <2>3. ReservedInv' /\ FreshSeq'
      <3>1. CASE sent' = sent
        BY <2>1, <3>1 DEF TxInv, ReservedInv, FreshSeq, SentBelow
      <3>2. CASE sent' = Append(sent, j.v)
        <4>1. /\ Len(sent') = Len(sent) + 1 /\ Len(sent) \in Nat
              /\ \A n \in 1..Len(sent) : sent'[n] = sent[n] /\ sent[n] \in Nat
              /\ sent'[Len(sent) + 1] = j.v
          <5>1. sent \in Seq(Nat)
            BY ConstAssumption DEF TypeOK
          <5> QED BY <3>2, <5>1, <2>2, AppendProperties, SentTypes
        <4>2. \A n \in 1..Len(sent') : n \in 1..Len(sent) \/ n = Len(sent) + 1
          BY <4>1
        <4>3. ReservedInv'
          BY <2>1, <2>2, <4>1, <4>2, <1>n DEF TxInv, ReservedInv, SentBelow
        <4>4. FreshSeq'
          <5>1. \A n \in 1..Len(sent) : sent[n] < j.v
            BY <2>2 DEF SentBelow
          <5>2. FreshSeq
            BY DEF TxInv
          <5> QED BY <2>2, <4>1, <4>2, <5>1, <5>2, SMTT(40) DEF FreshSeq
        <4> QED BY <4>3, <4>4
      <3> QED BY <2>1, <3>1, <3>2
    <2>4. TxJob(job[t])'
      BY <1>0, <2>1, StepOf DEF TxJob
    <2> QED BY <1>0, <2>1, <2>3, <2>4 DEF TxInv
  <1> QED BY <1>1, <1>2, <1>3, <1>4 DEF Outbound

\* Every step keeps the invariant.
LEMMA TxStep == Serial /\ TypeOK /\ JobType /\ TxInv /\ [Next]_vars => TxInv'
  <1> SUFFICES ASSUME Serial, TypeOK, JobType, TxInv, [Next]_vars PROVE TxInv'
    OBVIOUS
  <1>1. CASE UNCHANGED vars
    BY <1>1 DEF vars, TxInv, Alone, ReservedInv, FreshSeq, SentBelow, TxJob
  <1>2. CASE Next
    BY <1>2, Shape, TxReset, TxOthers, TxOutbound DEF TxInv
  <1> QED BY <1>1, <1>2

\* No two frames leave with one number and each number is above the last, across
\* power loss, failed writes and boots without NVS (nextTxSeq).
THEOREM NoncesFresh == Serial => (Spec => []FreshSeq)
  <1> SUFFICES ASSUME Serial PROVE Spec => []FreshSeq
    OBVIOUS
  <1>1. TypeOK /\ JobType /\ TxInv /\ [Next]_vars => TxInv'
    BY TxStep
  <1>2. TxInv => FreshSeq
    BY DEF TxInv
  <1> QED BY <1>1, <1>2, TxInit, TypeCorrect, PTL DEF Spec

-----------------------------------------------------------------------------
(* Proof for the replay floors *)

\* What was acted on are numbers.
LEMMA DoneTypes ==
  ASSUME TypeOK, NEW id \in Ids
  PROVE  /\ done[id] \in Seq(Nat) /\ Len(done[id]) \in Nat
         /\ \A n \in 1..Len(done[id]) : done[id][n] \in Nat
  <1>1. done[id] \in Seq(0..UINT32_MAX)
    BY DEF TypeOK
  <1>2. done[id] \in Seq(Nat)
    BY <1>1, ConstAssumption
  <1> QED BY <1>1, <1>2, ElementOfSeq

\* Sequence numbers are numbers.
LEMMA SeqTypes == \A s \in Seqs : s \in Nat
  BY ConstAssumption

\* Ids and floors of the table.
LEMMA PeerTypes ==
  ASSUME TypeOK, NEW i \in Slots
  PROVE  peer[i].id \in Ids \cup {NoId} /\ peer[i].hw \in Nat
  BY ConstAssumption DEF TypeOK

\* The new job of a task that is alone; the others say nothing of the table.
LEMMA RxNextJob ==
  ASSUME JobType, NEW t \in Tasks, OthersIdle(t), NEW n, job' = [job EXCEPT ![t] = n]
  PROVE  /\ Alone' /\ job'[t] = n /\ \A u \in Tasks \ {t} : job'[u] = Idle
         /\ RxJob(job[t])' => \A u \in Tasks : RxJob(job[u])'
  <1>1. Alone' /\ job'[t] = n /\ \A u \in Tasks \ {t} : job'[u] = Idle
    BY NextJob
  <1>2. \A u \in Tasks \ {t} : RxJob(job[u])'
    BY <1>1, StepOf DEF RxJob
  <1> QED BY <1>1, <1>2

\* Outside a form the whole table is in order.
LEMMA FilledNow ==
  ASSUME NEW t \in Tasks, OthersIdle(t), job[t].step \notin {"row", "set"}
  PROVE  Filled = MAX_PEERS
  BY StepOf DEF Filled, OthersIdle, Tasks

\* It stays so when the task's next job is not part of a form.
LEMMA FilledNext ==
  ASSUME JobType, NEW t \in Tasks, OthersIdle(t), NEW n, job' = [job EXCEPT ![t] = n],
         n.step \notin {"row", "set"}
  PROVE  Filled' = MAX_PEERS
  BY NextJob, StepOf DEF Filled, Tasks

\* No floor lags unless the task at work is about to run a command.
LEMMA NoLag ==
  ASSUME NEW t \in Tasks, OthersIdle(t), job[t].step # "run", NEW i
  PROVE  ~Lags(i)
  BY StepOf DEF Lags, OthersIdle, Tasks

\* A step that leaves the table alone keeps the invariant, if its task's new job
\* tells the truth.
LEMMA RxFrame ==
  ASSUME TypeOK, JobType, RxInv, NEW t \in Tasks, OthersIdle(t), job[t].step # "run",
         NEW n, job' = [job EXCEPT ![t] = n], UNCHANGED rxVars,
         RxJob(job[t])', Unique(Filled)'
  PROVE  RxInv'
  <1>1. Alone' /\ \A u \in Tasks : RxJob(job[u])'
    BY RxNextJob
  <1>2. TableInv' /\ Durable' /\ NoReplay'
    BY DEF RxInv, TableInv, Durable, NoReplay, rxVars
  <1>3. \A i \in Slots : ~Lags(i)
    BY NoLag
  <1>4. FloorInv'
    BY <1>3 DEF RxInv, FloorInv, rxVars
  <1> QED BY <1>1, <1>2, <1>4 DEF RxInv

\* The invariant holds at the first boot.
LEMMA RxInit == Init => RxInv
  <1> SUFFICES ASSUME Init PROVE RxInv
    OBVIOUS
  <1>1. /\ \A i \in Slots : /\ nvsPeer[i] = NoId /\ peer[i].hw = 0
                            /\ peer[i].id = IF i = 1 THEN SeedId ELSE NoId
        /\ \A id \in Ids : nvsRx[id] = 0 /\ done[id] = <<>>
        /\ \A t \in Tasks : job[t] = Idle
    BY DEF Init, BootIds, NoTable
  <1>2. Alone /\ \A t \in Tasks : RxJob(job[t])
    BY <1>1, StepOf DEF Alone, RxJob
  <1>3. TableInv
    BY <1>1 DEF TableInv, Unique
  <1>4. \A id \in Ids : Len(done[id]) = 0
    BY <1>1
  <1>5. Durable /\ NoReplay
    BY <1>4 DEF Durable, NoReplay
  <1>6. FloorInv
    BY <1>1, ConstAssumption DEF FloorInv
  <1> QED BY <1>2, <1>3, <1>5, <1>6 DEF RxInv

\* A boot loads every peer with its saved floor.
LEMMA RxReset ==
  ASSUME TypeOK, RxInv, Reset
  PROVE  RxInv'
  <1>1. PICK ok \in BOOLEAN :
          LET ids == BootIds(IF ok THEN nvsPeer ELSE NoTable)
          IN /\ nvsOk' = ok
             /\ peer' = [i \in Slots |-> [id |-> ids[i], hw |-> LoadRx(ids[i], ok)]]
             /\ job' = [t \in Tasks |-> Idle]
             /\ UNCHANGED <<nvsPeer, nvsRx, done>>
    BY DEF Reset
  <1> DEFINE ids == BootIds(IF ok THEN nvsPeer ELSE NoTable)
  <1>2. Alone' /\ \A t \in Tasks : RxJob(job[t])'
    BY <1>1, StepOf DEF Alone, RxJob
  <1>3. \A i, k \in Slots : ids[i] = ids[k] /\ ids[i] # NoId => i = k
    BY DEF RxInv, TableInv, BootIds, NoTable
  <1>4. \A i \in Slots : peer'[i].id = ids[i] /\ peer'[i].hw = LoadRx(ids[i], ok)
    BY <1>1
  <1>5. TableInv'
    <2>1. Unique(Filled)'
      BY <1>3, <1>4 DEF Unique
    <2> QED BY <1>1, <2>1 DEF RxInv, TableInv
  <1>6. Durable' /\ NoReplay'
    BY <1>1 DEF RxInv, Durable, NoReplay
  <1>7. FloorInv'
    BY <1>1, <1>4 DEF FloorInv, LoadRx
  <1> QED BY <1>2, <1>5, <1>6, <1>7 DEF RxInv

\* Taking a number leaves the table alone.
LEMMA RxOutbound ==
  ASSUME TypeOK, JobType, RxInv, NEW t \in Tasks, Outbound(t), OthersIdle(t)
  PROVE  RxInv'
  <1>1. job[t].step \in {"take", "reserve", "commit", "emit"} /\ UNCHANGED rxVars
    BY DEF Outbound, Take, Reserve, Commit, Emit
  <1>2. Filled = MAX_PEERS
    BY <1>1, FilledNow
  <1>3. ASSUME NEW n, job' = [job EXCEPT ![t] = n],
               n.step \in {"reserve", "commit", "emit", "idle"}
        PROVE  RxInv'
    <2>1. Filled' = MAX_PEERS
      BY <1>3, FilledNext
    <2>2. Unique(Filled)'
      BY <1>1, <1>2, <2>1 DEF RxInv, TableInv, Unique, rxVars
    <2>3. job'[t] = n
      BY <1>3, RxNextJob
    <2>4. RxJob(job[t])'
      BY <2>3, <1>3 DEF RxJob
    <2> QED BY <1>1, <1>3, <2>2, <2>4, RxFrame
  <1>4. \E n : job' = [job EXCEPT ![t] = n] /\ n.step \in {"reserve", "commit", "emit", "idle"}
    <2> DEFINE a == [step |-> "commit", v |-> txSeq]
               b == [step |-> "reserve", v |-> txSeq]
               c == [step |-> "commit", v |-> job[t].v]
               d == [step |-> "emit", v |-> job[t].v]
    <2>1. \/ job' = [job EXCEPT ![t] = a] \/ job' = [job EXCEPT ![t] = b]
          \/ job' = [job EXCEPT ![t] = c] \/ job' = [job EXCEPT ![t] = d]
          \/ job' = [job EXCEPT ![t] = Idle]
      BY DEF Outbound, Take, Reserve, Commit, Emit
    <2>2. /\ a.step = "commit" /\ b.step = "reserve" /\ c.step = "commit" /\ d.step = "emit"
          /\ Idle.step = "idle"
      BY StepOf
    <2> HIDE DEF a, b, c, d
    <2> QED BY <2>1, <2>2
  <1> QED BY <1>3, <1>4

\* acceptInboundSeq and the command keep the invariant: the floor moves to a number
\* above all that was acted on, first in NVS, then in RAM.
LEMMA RxInbound ==
  ASSUME Serial, TypeOK, JobType, RxInv, NEW t \in RadioTasks, Inbound(t), OthersIdle(t)
  PROVE  RxInv'
  <1> DEFINE j == job[t]
  <1>t. t \in Tasks /\ j \in Jobs /\ RxJob(j)
    BY DEF Tasks, JobType, RxInv
  <1>p. j \notin FormJobs
    BY DEF JobType
  <1>f. Filled = MAX_PEERS
    <2>1. j.step \notin {"row", "set"}
      BY <1>t, <1>p, JobKinds DEF FormJobs
    <2> QED BY <2>1, <1>t, FilledNow
  <1>u. \A i, k \in Slots : peer[i].id = peer[k].id /\ peer[i].id # NoId => i = k
    <2>1. \A i \in Slots : i <= MAX_PEERS
      BY ConstAssumption DEF Slots
    <2> QED BY <1>f, <2>1 DEF RxInv, TableInv, Unique
  <1>0. ASSUME NEW n, job' = [job EXCEPT ![t] = n], n.step \notin {"row", "set"}
        PROVE  /\ Filled' = MAX_PEERS
               /\ (\A i \in Slots : peer'[i].id = peer[i].id) => Unique(Filled)'
    <2>1. Filled' = MAX_PEERS
      BY <1>0, <1>t, FilledNext
    <2> QED BY <2>1, <1>u DEF Unique
  <1>1. ASSUME NEW id \in Ids, NEW s \in Seqs, Receive(t, id, s) PROVE RxInv'
    <2>1. PICK i \in Slots : /\ Resolves(id, i)
                             /\ job' = [job EXCEPT ![t] = [step |-> "accept", slot |-> i,
                                                          id |-> id, seq |-> s]]
      BY <1>1 DEF Receive
    <2> DEFINE n == [step |-> "accept", slot |-> i, id |-> id, seq |-> s]
    <2>2. job'[t] = n /\ UNCHANGED rxVars /\ j.step # "run"
      BY <1>1, <1>t, <2>1, RxNextJob, StepOf DEF Receive, MayStart
    <2>3. RxJob(job[t])'
      BY <2>1, <2>2 DEF RxJob, rxVars, Resolves
    <2>4. Unique(Filled)'
      BY <1>0, <2>1, <2>2 DEF rxVars
    <2> QED BY <2>1, <2>2, <2>3, <2>4, <1>t, RxFrame
  <1>2. CASE Accept(t)
    <2>1. j \in AcceptJob /\ UNCHANGED rxVars
      BY <1>2, <1>t, JobKinds DEF Accept
    <2> DEFINE p == peer[j.slot]
               n == [step |-> "persist", slot |-> j.slot, id |-> j.id, seq |-> j.seq,
                     key |-> p.id]
    <2>2. j.slot \in Slots /\ j.seq \in Nat /\ p.id = j.id /\ p.hw \in Nat /\ j.step # "run"
      <3>1. j.slot \in Slots /\ j.seq \in Seqs /\ j.step = "accept"
        BY <2>1 DEF AcceptJob
      <3>2. p.id = j.id
        BY <3>1, <1>t DEF RxJob
      <3> QED BY <3>1, <3>2, PeerTypes, SeqTypes
    <2>3. CASE p.id = NoId \/ j.seq <= p.hw
      <3>1. job' = [job EXCEPT ![t] = Idle]
        BY <1>2, <2>3 DEF Accept
      <3>2. RxJob(job[t])'
        <4>1. job'[t] = Idle
          BY <3>1, <1>t, RxNextJob
        <4>2. job'[t].step = "idle"
          BY <4>1, StepOf
        <4> QED BY <4>2 DEF RxJob
      <3>3. Unique(Filled)'
        BY <1>0, <2>1, <3>1, StepOf DEF rxVars
      <3> QED BY <2>1, <2>2, <3>1, <3>2, <3>3, <1>t, RxFrame
    <2>4. CASE ~(p.id = NoId \/ j.seq <= p.hw)
      <3>1. job' = [job EXCEPT ![t] = n]
        BY <1>2, <2>4 DEF Accept
      <3>2. job'[t] = n
        <4> HIDE DEF n
        <4> QED BY <3>1, <1>t, RxNextJob
      <3>3. RxJob(job[t])'
        BY <2>1, <2>2, <2>4, <3>2 DEF RxJob, rxVars
      <3>4. n.step = "persist"
        OBVIOUS
      <3>5. Unique(Filled)'
        BY <1>0, <2>1, <3>1, <3>4 DEF rxVars
      <3> QED BY <2>1, <2>2, <3>1, <3>3, <3>5, <1>t, RxFrame
    <2> QED BY <2>3, <2>4
  <1>3. CASE PersistRx(t)
    <2>1. j \in PersistJob
      BY <1>3, <1>t, JobKinds DEF PersistRx
    <2> DEFINE i == j.slot
               n == [step |-> "run", slot |-> j.slot, id |-> j.id, seq |-> j.seq]
    <2>2. /\ i \in Slots /\ j.id \in Ids /\ j.key = j.id /\ j.seq \in Nat
          /\ peer[i].id = j.id /\ peer[i].hw < j.seq /\ peer[i].hw \in Nat
          /\ j.step = "persist" /\ j.id # NoId
      <3>1. /\ i \in Slots /\ j.id \in Ids /\ j.key \in Ids /\ j.seq \in Seqs
            /\ j.step = "persist"
        BY <2>1 DEF PersistJob
      <3>2. j.key = j.id /\ peer[i].id = j.id /\ peer[i].hw < j.seq
        BY <3>1, <1>t DEF RxJob
      <3>3. j.id # NoId
        BY <3>1, ConstAssumption
      <3> QED BY <3>1, <3>2, <3>3, PeerTypes, SeqTypes
    <2>3. CASE job' = [job EXCEPT ![t] = Idle] /\ UNCHANGED nvsRx
      <3>1. UNCHANGED rxVars
        BY <1>3, <2>3 DEF PersistRx, rxVars
      <3>2. RxJob(job[t])'
        <4>1. job'[t] = Idle
          BY <2>3, <1>t, RxNextJob
        <4>2. job'[t].step = "idle"
          BY <4>1, StepOf
        <4> QED BY <4>2 DEF RxJob
      <3>3. Unique(Filled)'
        BY <1>0, <2>3, <3>1, StepOf DEF rxVars
      <3> QED BY <2>2, <2>3, <3>1, <3>2, <3>3, <1>t, RxFrame
    <2>4. CASE /\ TRUE \in Opens /\ nvsRx' = [nvsRx EXCEPT ![j.key] = j.seq]
               /\ job' = [job EXCEPT ![t] = n]
      <3>1. nvsOk /\ UNCHANGED <<peer, nvsPeer, nvsOk, done>>
        BY <1>3, <2>4 DEF PersistRx, Opens, Serial
      <3>2. job'[t] = n /\ Alone'
        BY <2>4, <1>t, RxNextJob
      <3>3. nvsRx'[j.id] = j.seq /\ \A id \in Ids \ {j.id} : nvsRx'[id] = nvsRx[id]
        BY <2>2, <2>4 DEF TypeOK
      <3>4. \A k \in Slots : peer[k].id # NoId => peer[k].hw = nvsRx[peer[k].id]
        <4>1. \A k \in Slots : ~Lags(k)
          BY <2>2, <1>t, NoLag
        <4> QED BY <4>1, <3>1 DEF RxInv, FloorInv
      <3>5. nvsRx[j.id] < j.seq /\ nvsRx[j.id] \in Nat
        BY <2>2, <3>4
      <3>6. Above(j.id, j.seq)
        BY <2>2, <3>5, DoneTypes DEF Above, RxInv, Durable
      <3>7. RxJob(job[t])'
        BY <2>2, <3>1, <3>2, <3>3, <3>6 DEF RxJob, Above
      <3>8. Durable' /\ NoReplay'
        <4>1. NoReplay'
          BY <3>1 DEF RxInv, NoReplay
        <4>2. ASSUME NEW id \in Ids, NEW m \in 1..Len(done[id])
              PROVE  done[id][m] <= nvsRx'[id]
          <5>1. CASE id = j.id
            BY <5>1, <3>3, <3>6, <2>2, DoneTypes DEF Above
          <5>2. CASE id # j.id
            BY <5>2, <3>3 DEF RxInv, Durable
          <5> QED BY <5>1, <5>2
        <4> QED BY <4>1, <4>2, <3>1 DEF Durable
      <3>9. FloorInv'
        <4>1. ASSUME NEW k \in Slots, ~Lags(k)' PROVE k # i
          BY <4>1, <3>2 DEF Lags
        <4>2. \A k \in Slots : k # i /\ peer[k].id # NoId => peer[k].id \in Ids \ {j.id}
          BY <1>u, <2>2, PeerTypes
        <4> QED BY <4>1, <4>2, <3>1, <3>3, <3>4 DEF FloorInv
      <3>10. TableInv'
        <4>1. n.step = "run"
          OBVIOUS
        <4>2. Unique(Filled)'
          BY <1>0, <2>4, <3>1, <4>1
        <4> QED BY <4>2, <3>1 DEF RxInv, TableInv
      <3>11. \A u \in Tasks : RxJob(job[u])'
        BY <2>4, <3>7, <1>t, RxNextJob
      <3> QED BY <3>2, <3>8, <3>9, <3>10, <3>11 DEF RxInv
    <2> QED BY <1>3, <2>3, <2>4 DEF PersistRx
  <1>4. CASE Run(t)
    <2>1. j \in RunJob /\ UNCHANGED <<nvsPeer, nvsRx, nvsOk>>
      BY <1>4, <1>t, JobKinds DEF Run
    <2> DEFINE i == j.slot
    <2>2. /\ i \in Slots /\ j.id \in Ids /\ j.seq \in Nat /\ peer[i].id = j.id
          /\ j.seq = nvsRx[j.id] /\ Above(j.id, j.seq)
      <3>1. i \in Slots /\ j.id \in Ids /\ j.seq \in Seqs /\ j.step = "run"
        BY <2>1 DEF RunJob
      <3>2. peer[i].id = j.id /\ j.seq = nvsRx[j.id] /\ Above(j.id, j.seq)
        BY <3>1, <1>t DEF RxJob
      <3> QED BY <3>1, <3>2, SeqTypes
    <2>3. /\ \A k \in Slots : peer'[k].id = peer[k].id
          /\ \A k \in Slots \ {i} : peer'[k].hw = peer[k].hw
          /\ peer'[i].hw = j.seq
      <3>1. peer' = [peer EXCEPT ![i].hw = j.seq]
        BY <1>4 DEF Run
      <3> QED BY <3>1, <2>2 DEF TypeOK
    <2>4. PICK n \in {Idle, [step |-> "take"]} : job' = [job EXCEPT ![t] = n]
      BY <1>4 DEF Run
    <2>5. n.step \in {"idle", "take"}
      BY StepOf
    <2>6. job'[t] = n /\ Alone' /\ \A u \in Tasks : RxJob(job[u])'
      <3>1. job'[t] = n
        BY <2>4, <1>t, RxNextJob
      <3>2. RxJob(job[t])'
        BY <3>1, <2>5 DEF RxJob
      <3> QED BY <3>1, <3>2, <2>4, <1>t, RxNextJob
    <2>7. TableInv'
      <3>1. Unique(Filled)'
        BY <1>0, <2>3, <2>4, <2>5
      <3> QED BY <3>1, <2>1 DEF RxInv, TableInv
    <2>8. FloorInv'
      <3>1. \A k \in Slots \ {i} : ~Lags(k)
        BY <1>t, StepOf DEF Lags, OthersIdle, Tasks
      <3>2. \A k \in Slots \ {i} : nvsOk /\ peer[k].id # NoId => peer[k].hw = nvsRx[peer[k].id]
        BY <3>1 DEF RxInv, FloorInv
      <3> QED BY <3>2, <2>1, <2>2, <2>3 DEF FloorInv
    <2>9. Durable' /\ NoReplay'
      <3>1. done' = [done EXCEPT ![j.id] = Append(@, j.seq)]
        BY <1>4 DEF Run
      <3>2. /\ Len(done'[j.id]) = Len(done[j.id]) + 1 /\ Len(done[j.id]) \in Nat
            /\ \A m \in 1..Len(done[j.id]) : /\ done'[j.id][m] = done[j.id][m]
                                             /\ done[j.id][m] \in Nat
            /\ done'[j.id][Len(done[j.id]) + 1] = j.seq
        <4>1. done'[j.id] = Append(done[j.id], j.seq)
          BY <3>1, <2>2 DEF TypeOK
        <4> QED BY <4>1, <2>2, DoneTypes, AppendProperties
      <3>3. \A id \in Ids \ {j.id} : done'[id] = done[id]
        BY <3>1 DEF TypeOK
      <3>4. \A m \in 1..Len(done'[j.id]) : m \in 1..Len(done[j.id]) \/ m = Len(done[j.id]) + 1
        BY <3>2
      <3>5. \A m \in 1..Len(done[j.id]) : done[j.id][m] < j.seq
        BY <2>2 DEF Above
      <3>6. Durable'
        <4>1. \A m \in 1..Len(done'[j.id]) : done'[j.id][m] <= nvsRx[j.id]
          <5> SUFFICES ASSUME NEW m \in 1..Len(done'[j.id])
                       PROVE  done'[j.id][m] <= nvsRx[j.id]
            OBVIOUS
          <5>1. CASE m \in 1..Len(done[j.id])
            BY <5>1, <3>2, <3>5, <2>2
          <5>2. CASE m = Len(done[j.id]) + 1
            BY <5>2, <3>2, <2>2
          <5> QED BY <5>1, <5>2, <3>4
        <4> QED BY <4>1, <3>3, <2>1 DEF RxInv, Durable
      <3>7. NoReplay'
        <4>1. \A m, k \in 1..Len(done'[j.id]) : m < k => done'[j.id][m] < done'[j.id][k]
          <5> SUFFICES ASSUME NEW m \in 1..Len(done'[j.id]), NEW k \in 1..Len(done'[j.id]), m < k
                       PROVE  done'[j.id][m] < done'[j.id][k]
            OBVIOUS
          <5>1. m \in 1..Len(done[j.id]) /\ done'[j.id][m] = done[j.id][m]
            BY <3>2, <3>4
          <5>2. CASE k \in 1..Len(done[j.id])
            <6>1. done[j.id][m] < done[j.id][k]
              BY <2>2, <5>1, <5>2 DEF RxInv, NoReplay
            <6> QED BY <3>2, <5>1, <5>2, <6>1
          <5>3. CASE k = Len(done[j.id]) + 1
            BY <3>2, <3>5, <5>1, <5>3
          <5> QED BY <3>4, <5>2, <5>3
        <4> QED BY <4>1, <3>3 DEF RxInv, NoReplay
      <3> QED BY <3>6, <3>7
    <2> QED BY <2>6, <2>7, <2>8, <2>9 DEF RxInv
  <1> QED BY <1>1, <1>2, <1>3, <1>4 DEF Inbound

\* The portal's forms keep the invariant: each row leaves the slots up to it with
\* different peers, every one with its saved floor.
LEMMA RxPortal ==
  ASSUME Serial, ~SharedIds, TypeOK, JobType, RxInv,
         Form \/ \E id \in Ids : SendMessage(id), OthersIdle(Portal)
  PROVE  RxInv'
  <1> DEFINE j == job[Portal]
  <1>t. Portal \in Tasks /\ j \in Jobs /\ RxJob(j)
    BY DEF Tasks, JobType, RxInv
  <1>n. j.step # "run"
    BY <1>t, StepOf
    DEF Form, SendMessage, FormOpen, RowClear, RowCopy, RowSet, RowError, SaveTable, MayStart
  <1>l. \A i \in Slots : ~Lags(i)
    BY <1>n, <1>t, NoLag
  <1>m. \A i \in Slots : i \in Nat /\ 1 <= i /\ i <= MAX_PEERS
    BY ConstAssumption DEF Slots
  <1>0. ASSUME NEW n, job' = [job EXCEPT ![Portal] = n] PROVE job'[Portal] = n
    BY <1>0, <1>t, RxNextJob
  <1>1. CASE (\E id \in Ids : SendMessage(id)) \/ RowError
    <2>1. UNCHANGED rxVars
      BY <1>1 DEF SendMessage, RowError
    <2>2. PICK n \in {Idle, [step |-> "take"]} : job' = [job EXCEPT ![Portal] = n]
      BY <1>1 DEF SendMessage, RowError
    <2>3. n.step \in {"idle", "take"}
      BY StepOf
    <2>4. RxJob(job[Portal])' /\ Filled' = MAX_PEERS
      BY <1>0, <2>2, <2>3 DEF RxJob, Filled
    <2>5. Distinct
      <3>1. CASE RowError
        BY <3>1 DEF RowError
      <3>2. CASE \E id \in Ids : SendMessage(id)
        <4>1. Filled = MAX_PEERS
          BY <3>2, StepOf DEF SendMessage, MayStart, Filled
        <4> QED BY <4>1, <1>m DEF RxInv, TableInv, Unique, Distinct
      <3> QED BY <1>1, <3>1, <3>2
    <2>6. Unique(Filled)'
      BY <2>1, <2>5 DEF Unique, Distinct, rxVars
    <2> QED BY <1>n, <1>t, <2>1, <2>2, <2>4, <2>6, RxFrame
  <1>2. CASE FormOpen
    <2> DEFINE n == [step |-> "row", row |-> 1]
    <2>1. UNCHANGED rxVars /\ job' = [job EXCEPT ![Portal] = n]
      BY <1>2 DEF FormOpen
    <2>2. job'[Portal] = n
      BY <1>0, <2>1
    <2>3. RxJob(job[Portal])' /\ Filled' = 0
      BY <2>2 DEF RxJob, Filled
    <2>4. Unique(Filled)'
      BY <2>3, <1>m DEF Unique
    <2> QED BY <1>n, <1>t, <2>1, <2>3, <2>4, RxFrame
  <1>3. ASSUME NEW r \in Slots, Unique(r - 1), NEW id \in Ids \cup {NoId}, NEW hw,
               \A k \in Slots : k < r /\ id # NoId => peer[k].id # id,
               peer' = [peer EXCEPT ![r] = [id |-> id, hw |-> hw]],
               job' = [job EXCEPT ![Portal] = [step |-> "row", row |-> r + 1]],
               nvsOk /\ id # NoId => hw = nvsRx[id],
               UNCHANGED <<nvsPeer, nvsRx, nvsOk, done>>
        PROVE  RxInv'
    <2>1. /\ peer'[r].id = id /\ peer'[r].hw = hw
          /\ \A k \in Slots \ {r} : peer'[k] = peer[k]
      BY <1>3 DEF TypeOK
    <2>2. job'[Portal] = [step |-> "row", row |-> r + 1]
      BY <1>0, <1>3
    <2>3. RxJob(job[Portal])' /\ Filled' = r
      BY <2>2, <1>m DEF RxJob, Filled
    <2>4. Unique(Filled)'
      <3>1. \A k \in Slots : k <= r => k = r \/ k <= r - 1
        BY <1>m
      <3> QED BY <1>3, <2>1, <2>3, <3>1, <1>m DEF Unique
    <2>5. TableInv' /\ Durable' /\ NoReplay'
      BY <1>3, <2>4 DEF RxInv, TableInv, Durable, NoReplay
    <2>6. FloorInv'
      BY <1>3, <1>l, <2>1 DEF RxInv, FloorInv
    <2>7. Alone' /\ \A u \in Tasks : RxJob(job[u])'
      BY <1>t, <1>3, <2>3, RxNextJob
    <2> QED BY <2>5, <2>6, <2>7 DEF RxInv
  <1>4. CASE RowClear
    <2>1. j \in RowJob /\ j.row \in Slots
      BY <1>4, <1>t, JobKinds DEF RowClear
    <2>2. Unique(j.row - 1)
      BY <2>1 DEF RxInv, TableInv, Filled, RowJob
    <2>3. [j EXCEPT !.row = @ + 1] = [step |-> "row", row |-> j.row + 1]
      BY <2>1 DEF RowJob
    <2>4. /\ peer' = [peer EXCEPT ![j.row] = [id |-> NoId, hw |-> 0]]
          /\ job' = [job EXCEPT ![Portal] = [step |-> "row", row |-> j.row + 1]]
          /\ UNCHANGED <<nvsPeer, nvsRx, nvsOk, done>>
      BY <1>4, <2>3 DEF RowClear, Empty
    <2> QED BY <1>3, <2>1, <2>2, <2>4
  <1>5. ASSUME NEW id \in Ids, RowCopy(id) PROVE RxInv'
    <2>1. j \in RowJob /\ j.row \in Slots
      BY <1>5, <1>t, JobKinds DEF RowCopy
    <2> DEFINE n == [step |-> "set", row |-> j.row, id |-> id,
                     hw |-> IF peer[j.row].id = id THEN peer[j.row].hw ELSE 0]
    <2>2. UNCHANGED rxVars /\ job' = [job EXCEPT ![Portal] = n]
      BY <1>5 DEF RowCopy
    <2>3. job'[Portal] = n
      <3> HIDE DEF n
      <3> QED BY <1>0, <2>2
    <2>4. \A k \in Slots : k < j.row => peer[k].id # id
      BY <1>5, <1>m, <2>1 DEF RowCopy
    <2>5. RxJob(job[Portal])'
      BY <2>2, <2>3, <2>4 DEF RxJob, rxVars
    <2>6. Unique(Filled)'
      <3>1. Filled' = Filled
        BY <2>1, <2>3 DEF Filled, RowJob
      <3> QED BY <3>1, <2>2 DEF Unique, rxVars, RxInv, TableInv
    <2> QED BY <1>n, <1>t, <2>2, <2>5, <2>6, RxFrame
  <1>6. CASE RowSet
    <2>1. j \in SetJob /\ j.row \in Slots /\ j.id \in Ids
      BY <1>6, <1>t, JobKinds DEF RowSet, SetJob
    <2>2. Unique(j.row - 1)
      BY <2>1 DEF RxInv, TableInv, Filled, SetJob
    <2>3. /\ \A k \in Slots : k < j.row => peer[k].id # j.id
          /\ j.id = peer[j.row].id => j.hw = peer[j.row].hw
      BY <2>1, <1>t DEF RxJob, SetJob
    <2> DEFINE h == IF j.id = peer[j.row].id THEN j.hw ELSE LoadRx(j.id, nvsOk)
    <2>4. /\ peer' = [peer EXCEPT ![j.row] = [id |-> j.id, hw |-> h]]
          /\ job' = [job EXCEPT ![Portal] = [step |-> "row", row |-> j.row + 1]]
          /\ UNCHANGED <<nvsPeer, nvsRx, nvsOk, done>>
      BY <1>6 DEF RowSet, Opens, Serial
    <2>5. j.id # NoId
      BY <2>1, ConstAssumption
    <2>6. nvsOk => h = nvsRx[j.id]
      BY <1>l, <2>1, <2>3, <2>5 DEF LoadRx, RxInv, FloorInv
    <2>7. PICK r, k : r = j.row /\ k = j.id
      OBVIOUS
    <2> HIDE DEF h, j
    <2>8. /\ r \in Slots /\ Unique(r - 1) /\ k \in Ids \cup {NoId}
          /\ \A m \in Slots : m < r /\ k # NoId => peer[m].id # k
          /\ nvsOk /\ k # NoId => h = nvsRx[k]
      BY <2>1, <2>2, <2>3, <2>6, <2>7
    <2>9. /\ peer' = [peer EXCEPT ![r] = [id |-> k, hw |-> h]]
          /\ job' = [job EXCEPT ![Portal] = [step |-> "row", row |-> r + 1]]
          /\ UNCHANGED <<nvsPeer, nvsRx, nvsOk, done>>
      BY <2>4, <2>7
    <2> QED BY <1>3, <2>8, <2>9
  <1>7. CASE SaveTable
    <2>1. j \in RowJob /\ j.row = MAX_PEERS + 1
      BY <1>7, <1>t, JobKinds DEF SaveTable
    <2>2. \A i, k \in Slots : peer[i].id = peer[k].id /\ peer[i].id # NoId => i = k
      <3>1. Filled = MAX_PEERS
        BY <2>1, ConstAssumption DEF Filled, RowJob
      <3> QED BY <3>1, <1>m DEF RxInv, TableInv, Unique
    <2>3. /\ job' = [job EXCEPT ![Portal] = Idle]
          /\ nvsPeer' = nvsPeer \/ nvsPeer' = [i \in Slots |-> peer[i].id]
          /\ UNCHANGED <<peer, nvsRx, nvsOk, done>>
      BY <1>7 DEF SaveTable
    <2>4. TableInv'
      <3>1. Unique(Filled)'
        BY <2>2, <2>3 DEF Unique
      <3> QED BY <3>1, <2>2, <2>3 DEF RxInv, TableInv
    <2>5. Durable' /\ NoReplay' /\ FloorInv'
      BY <2>3, <1>l DEF RxInv, Durable, NoReplay, FloorInv
    <2>6. Alone' /\ \A u \in Tasks : RxJob(job[u])'
      <3>1. RxJob(job[Portal])'
        BY <1>0, <2>3, StepOf DEF RxJob
      <3> QED BY <3>1, <1>t, <2>3, RxNextJob
    <2> QED BY <2>4, <2>5, <2>6 DEF RxInv
  <1> QED BY <1>1, <1>2, <1>4, <1>5, <1>6, <1>7 DEF Form

\* Every step keeps the invariant.
LEMMA RxStep ==
  Serial /\ ~SharedIds /\ TypeOK /\ JobType /\ RxInv /\ [Next]_vars => RxInv'
  <1> SUFFICES ASSUME Serial, ~SharedIds, TypeOK, JobType, RxInv, [Next]_vars PROVE RxInv'
    OBVIOUS
  <1>1. CASE UNCHANGED vars
    BY <1>1 DEF vars, RxInv, Alone, TableInv, Unique, Filled, Durable, FloorInv, Lags,
                NoReplay, RxJob, Above
  <1>2. CASE Next
    BY <1>2, Shape, RxReset, RxOutbound, RxInbound, RxPortal DEF RxInv
  <1> QED BY <1>1, <1>2

\* The frames of a peer are acted on in increasing order and so never twice, across
\* power loss, failed writes, boots without NVS and edits of the table
\* (acceptInboundSeq, setPeer, begin).
THEOREM NeverReplays == Serial /\ ~SharedIds => (Spec => []NoReplay)
  <1> SUFFICES ASSUME Serial, ~SharedIds PROVE Spec => []NoReplay
    OBVIOUS
  <1>1. TypeOK /\ JobType /\ RxInv /\ [Next]_vars => RxInv'
    BY RxStep
  <1>2. RxInv => NoReplay
    BY DEF RxInv
  <1> QED BY <1>1, <1>2, RxInit, TypeCorrect, PTL DEF Spec

\* Between two requests every peer meets its saved floor (setPeer, clearPeer).
THEOREM FloorsAgree == Serial /\ ~SharedIds => (Spec => []FloorAgrees)
  <1> SUFFICES ASSUME Serial, ~SharedIds PROVE Spec => []FloorAgrees
    OBVIOUS
  <1>1. TypeOK /\ JobType /\ RxInv /\ [Next]_vars => RxInv'
    BY RxStep
  <1>2. RxInv => FloorAgrees
    <2> SUFFICES ASSUME RxInv, nvsOk, \A t \in Tasks : job[t] = Idle,
                        NEW i \in Slots, peer[i].id # NoId
                 PROVE  peer[i].hw = nvsRx[peer[i].id]
      BY DEF FloorAgrees
    <2>1. ~Lags(i)
      BY StepOf DEF Lags, Tasks
    <2> QED BY <2>1 DEF RxInv, FloorInv
  <1> QED BY <1>1, <1>2, RxInit, TypeCorrect, PTL DEF Spec

\* A saved floor never moves back (persistRxForPeer).
THEOREM FloorsGrow == Serial /\ ~SharedIds => (Spec => FloorGrows)
  <1> SUFFICES ASSUME Serial, ~SharedIds PROVE Spec => FloorGrows
    OBVIOUS
  <1>1. TypeOK /\ JobType /\ RxInv /\ [Next]_vars => RxInv'
    BY RxStep
  <1>2. TypeOK /\ JobType /\ RxInv /\ [Next]_vars
          => [\A id \in Ids : nvsRx'[id] >= nvsRx[id]]_vars
    <2> SUFFICES ASSUME TypeOK, JobType, RxInv, Next
                 PROVE  \A id \in Ids : nvsRx'[id] >= nvsRx[id]
      OBVIOUS
    <2>1. \A id \in Ids : nvsRx[id] \in Nat
      BY ConstAssumption DEF TypeOK
    <2>2. CASE nvsRx' = nvsRx
      BY <2>1, <2>2
    <2>3. ASSUME NEW t \in RadioTasks, PersistRx(t), OthersIdle(t)
          PROVE  \A id \in Ids : nvsRx'[id] >= nvsRx[id]
      <3> DEFINE j == job[t]
      <3>1. j \in PersistJob /\ RxJob(j) /\ t \in Tasks
        BY <2>3, JobKinds DEF PersistRx, JobType, RxInv, Tasks
      <3>2. /\ j.slot \in Slots /\ j.id \in Ids /\ j.key = j.id /\ peer[j.slot].id = j.id
            /\ peer[j.slot].hw < j.seq /\ j.seq \in Nat /\ j.id # NoId /\ j.step = "persist"
        BY <3>1, SeqTypes, ConstAssumption DEF PersistJob, RxJob
      <3>3. CASE TRUE \in Opens /\ nvsRx' = [nvsRx EXCEPT ![j.key] = j.seq]
        <4>1. nvsOk
          BY <3>3 DEF Opens, Serial
        <4>2. peer[j.slot].hw = nvsRx[j.id]
          BY <3>1, <3>2, <4>1, NoLag, <2>3 DEF RxInv, FloorInv
        <4> QED BY <2>1, <3>2, <3>3, <4>2 DEF TypeOK
      <3> QED BY <2>2, <2>3, <3>3 DEF PersistRx
    <2>4. ASSUME NEW t \in RadioTasks, Inbound(t), OthersIdle(t)
          PROVE  \A id \in Ids : nvsRx'[id] >= nvsRx[id]
      BY <2>2, <2>3, <2>4 DEF Inbound, Receive, Accept, Run, rxVars
    <2>5. Reset => nvsRx' = nvsRx
      BY DEF Reset
    <2>6. \A t \in Tasks : Outbound(t) => nvsRx' = nvsRx
      BY DEF Outbound, Take, Reserve, Commit, Emit, rxVars
    <2>7. Form \/ (\E id \in Ids : SendMessage(id)) => nvsRx' = nvsRx
      BY DEF Form, SendMessage, FormOpen, RowClear, RowCopy, RowSet, RowError, SaveTable, rxVars
    <2> QED BY <2>2, <2>4, <2>5, <2>6, <2>7, Shape DEF RxInv
  <1> QED BY <1>1, <1>2, RxInit, TypeCorrect, PTL DEF Spec, FloorGrows
=============================================================================
