-------------------------------- MODULE CamC2 --------------------------------
(***************************************************************************)
(* Command and control of the camera: the table of trusted peers with its  *)
(* replay floors and the outbound counter (CamC2Config.cpp), the inbound   *)
(* path and the senders (CamC2.cpp), and the pairing form and the message  *)
(* form of the camera's portal (CamPortal.cpp).  A radio task with a       *)
(* Custom channel runs handleInbound; the portal task runs the forms.      *)
(* Nothing here is locked, so with Overlap their steps interleave.  Power  *)
(* may fail between any two steps, any NVS write may fail, and NVS may not *)
(* open at a boot.                                                         *)
(* A frame is its sender and its sequence number: one whose tag does not   *)
(* verify changes nothing.  Frames arrive lost, late, repeated and in any  *)
(* order.  A peer's key plays no part here.                                *)
(***************************************************************************)
EXTENDS Integers, Sequences

CONSTANTS
  MAX_PEERS,     \* slots of the peer table
  SEQ_RESERVE,   \* outbound values reserved per NVS write
  UINT32_MAX,    \* largest sequence number, and SEQ_INVALID
  Ids,           \* C2 ids of possible peers
  NoId,          \* id 0: an empty slot
  SeedId,        \* the build-flag peer (BRIDGE_C2_PEER_ID), or NoId
  RadioTasks,    \* radio tasks with a Custom channel
  Portal,        \* the portal task
  Overlap,       \* handlers of different tasks may overlap in time
  SharedIds,     \* a form may leave one peer in two slots
  OpenRecovers,  \* a failure to open NVS may be gone at the next try
  Seqs,          \* sequence numbers of inbound frames
  MaxDone,       \* bound on the commands executed for one peer
  MaxSent        \* bound on the frames sent

ASSUME ConstAssumption ==
  /\ MAX_PEERS \in Nat /\ SEQ_RESERVE \in Nat
  /\ UINT32_MAX \in Nat /\ UINT32_MAX > SEQ_RESERVE + 1
  /\ NoId \notin Ids /\ SeedId \in Ids \cup {NoId}
  /\ Portal \notin RadioTasks
  /\ Overlap \in BOOLEAN /\ SharedIds \in BOOLEAN /\ OpenRecovers \in BOOLEAN
  /\ Seqs \subseteq 0..UINT32_MAX
  /\ MaxDone \in Nat /\ MaxSent \in Nat

VARIABLES
  peer,        \* s_peer: id and rxHighWater of each slot
  txSeq,       \* s_txSeq
  txReserved,  \* s_txReserved
  nvsPeer,     \* NVS "peers": the saved ids
  nvsRx,       \* NVS "rx_<id>": the floor of each id
  nvsTx,       \* NVS "txseq": the outbound reservation
  nvsOk,       \* NVS could be opened at this boot
  job,         \* what each task is doing
  done,        \* history: sequence numbers of the executed frames of each id
  sent         \* history: sequence numbers of the frames handed to the radio

vars == <<peer, txSeq, txReserved, nvsPeer, nvsRx, nvsTx, nvsOk, job, done, sent>>
rxVars == <<peer, nvsPeer, nvsRx, nvsOk, done>>
txVars == <<txSeq, txReserved, nvsTx, sent>>

Slots == 1..MAX_PEERS
Tasks == RadioTasks \cup {Portal}
Empty == [id |-> NoId, hw |-> 0]
Idle == [step |-> "idle"]

\* A task picks up its next request when the others have finished theirs.
MayStart(t) == job[t] = Idle /\ (Overlap \/ \A u \in Tasks : job[u] = Idle)

\* Whether Preferences::begin succeeds: as it did at boot, unless it recovers.
Opens == IF OpenRecovers THEN BOOLEAN ELSE {nvsOk}

\* Mutant of LoadRx: a slot starts without a floor.
LoadRxZero(id, ok) == 0

\* loadRxForPeer
LoadRx(id, ok) == IF id # NoId /\ ok THEN nvsRx[id] ELSE 0

\* resolve(): the first slot that holds the id.
Resolves(id, i) == peer[i].id = id /\ \A j \in 1..(i - 1) : peer[j].id # id
Known(id) == \E i \in Slots : peer[i].id = id

-----------------------------------------------------------------------------
\* begin(): the saved table, or the build-flag peer if that is empty.
NoTable == [i \in Slots |-> NoId]

BootIds(saved) ==
  IF \A i \in Slots : saved[i] = NoId
  THEN [i \in Slots |-> IF i = 1 THEN SeedId ELSE NoId]
  ELSE saved

\* Outbound numbers start at 1: a peer's floor is 0 and it accepts only above.
FirstTx(reserved) == IF reserved = 0 THEN 1 ELSE reserved

Init ==
  /\ nvsPeer = NoTable
  /\ nvsRx = [id \in Ids |-> 0]
  /\ nvsTx = 0 /\ nvsOk \in BOOLEAN
  /\ peer = [i \in Slots |-> [id |-> BootIds(nvsPeer)[i], hw |-> 0]]
  /\ txReserved = 0
  /\ txSeq = FirstTx(0)
  /\ job = [t \in Tasks |-> Idle]
  /\ done = [id \in Ids |-> <<>>]
  /\ sent = <<>>

\* Power loss or restart at any point, then begin().  An NVS that does not open is
\* taken for an empty one.
Reset ==
  \E ok \in BOOLEAN :
  LET ids == BootIds(IF ok THEN nvsPeer ELSE NoTable)
      tx == IF ok THEN nvsTx ELSE 0
  IN
  /\ nvsOk' = ok
  /\ peer' = [i \in Slots |-> [id |-> ids[i], hw |-> LoadRx(ids[i], ok)]]
  /\ txReserved' = tx
  /\ txSeq' = FirstTx(tx)
  /\ job' = [t \in Tasks |-> Idle]
  /\ UNCHANGED <<nvsPeer, nvsRx, nvsTx, done, sent>>

-----------------------------------------------------------------------------
(* Inbound: authInbound and handleInbound on a radio task *)

\* The frame is addressed to us, its sender is known and its tag verifies.
Receive(t, id, s) ==
  /\ t \in RadioTasks /\ MayStart(t)
  /\ Len(done[id]) < MaxDone
  /\ \E i \in Slots :
       /\ Resolves(id, i)
       /\ job' = [job EXCEPT ![t] = [step |-> "accept", slot |-> i, id |-> id,
                                     seq |-> s]]
  /\ UNCHANGED <<rxVars, txVars>>

\* acceptInboundSeq: the slot resolved before, read again; a number at or below
\* its floor is dropped.
Accept(t) ==
  LET j == job[t]
      p == peer[j.slot]
  IN
  /\ j.step = "accept"
  /\ job' = [job EXCEPT ![t] =
       IF p.id = NoId \/ j.seq <= p.hw THEN Idle
       ELSE [step |-> "persist", slot |-> j.slot, id |-> j.id, seq |-> j.seq,
             key |-> p.id]]
  /\ UNCHANGED <<rxVars, txVars>>

\* Mutant of PersistRx: the floor is written after the command has run, if at all.
PersistRxLate(t) ==
  LET j == job[t] IN
  /\ j.step = "persist"
  /\ nvsRx' \in {nvsRx, [nvsRx EXCEPT ![j.key] = j.seq]}
  /\ job' = [job EXCEPT ![t] = [step |-> "run", slot |-> j.slot, id |-> j.id,
                                seq |-> j.seq]]
  /\ UNCHANGED <<peer, nvsPeer, nvsOk, done, txVars>>

\* The new floor is durable before the command runs; if the write fails, the
\* command is dropped.
PersistRx(t) ==
  LET j == job[t] IN
  /\ j.step = "persist"
  /\ \/ /\ TRUE \in Opens
        /\ nvsRx' = [nvsRx EXCEPT ![j.key] = j.seq]
        /\ job' = [job EXCEPT ![t] = [step |-> "run", slot |-> j.slot, id |-> j.id,
                                      seq |-> j.seq]]
     \/ /\ job' = [job EXCEPT ![t] = Idle]
        /\ UNCHANGED nvsRx
  /\ UNCHANGED <<peer, nvsPeer, nvsOk, done, txVars>>

\* The floor in RAM follows; the command is executed or the message stored.
\* Only a command is acknowledged, if its sender is still in the table.
Run(t) ==
  LET j == job[t] IN
  /\ j.step = "run"
  /\ peer' = [peer EXCEPT ![j.slot].hw = j.seq]
  /\ done' = [done EXCEPT ![j.id] = Append(@, j.seq)]
  /\ \/ job' = [job EXCEPT ![t] = Idle]
     \/ /\ Known(j.id) /\ Len(sent) < MaxSent
        /\ job' = [job EXCEPT ![t] = [step |-> "take"]]
  /\ UNCHANGED <<nvsPeer, nvsRx, nvsOk, txVars>>

-----------------------------------------------------------------------------
(* Outbound: nextTxSeq, then camC2Emit; for an ACK, a message or a command *)

\* sendMessage, from the portal's message form.
SendMessage(id) ==
  /\ MayStart(Portal) /\ Known(id) /\ Len(sent) < MaxSent
  /\ job' = [job EXCEPT ![Portal] = [step |-> "take"]]
  /\ UNCHANGED <<rxVars, txVars>>

\* nextTxSeq reads the counter: issue, or extend the reservation first, or give up.
Take(t) ==
  /\ job[t].step = "take"
  /\ job' = [job EXCEPT ![t] =
       IF txSeq < txReserved THEN [step |-> "commit", v |-> txSeq]
       ELSE IF txSeq > UINT32_MAX - 1 - SEQ_RESERVE THEN Idle
       ELSE [step |-> "reserve", v |-> txSeq]]
  /\ UNCHANGED <<rxVars, txVars>>

\* Mutant of Reserve: a failed write still issues the number.
ReserveFailOpen(t) ==
  LET v == job[t].v IN
  /\ job[t].step = "reserve"
  /\ nvsTx' \in {nvsTx, v + 1 + SEQ_RESERVE}
  /\ txReserved' = v + 1 + SEQ_RESERVE
  /\ job' = [job EXCEPT ![t] = [step |-> "commit", v |-> v]]
  /\ UNCHANGED <<rxVars, txSeq, sent>>

\* The reservation is written and confirmed, or the frame is dropped.
Reserve(t) ==
  LET v == job[t].v IN
  /\ job[t].step = "reserve"
  /\ \/ /\ TRUE \in Opens
        /\ nvsTx' = v + 1 + SEQ_RESERVE
        /\ txReserved' = v + 1 + SEQ_RESERVE
        /\ job' = [job EXCEPT ![t] = [step |-> "commit", v |-> v]]
     \/ /\ job' = [job EXCEPT ![t] = Idle]
        /\ UNCHANGED <<nvsTx, txReserved>>
  /\ UNCHANGED <<rxVars, txSeq, sent>>

Commit(t) ==
  /\ job[t].step = "commit"
  /\ txSeq' = job[t].v + 1
  /\ job' = [job EXCEPT ![t] = [step |-> "emit", v |-> job[t].v]]
  /\ UNCHANGED <<rxVars, txReserved, nvsTx, sent>>

\* The frame is built and queued on the radio (or does not fit, and is not).
Emit(t) ==
  /\ job[t].step = "emit"
  /\ sent' \in {sent, Append(sent, job[t].v)}
  /\ job' = [job EXCEPT ![t] = Idle]
  /\ UNCHANGED <<rxVars, txSeq, txReserved, nvsTx>>

-----------------------------------------------------------------------------
(* The pairing form: handlePeersPost, one row after the other *)

FormOpen ==
  /\ MayStart(Portal)
  /\ job' = [job EXCEPT ![Portal] = [step |-> "row", row |-> 1]]
  /\ UNCHANGED <<rxVars, txVars>>

\* A row that is not enabled: clearPeer.
RowClear ==
  LET j == job[Portal] IN
  /\ j.step = "row" /\ j.row \in Slots
  /\ peer' = [peer EXCEPT ![j.row] = Empty]
  /\ job' = [job EXCEPT ![Portal].row = @ + 1]
  /\ UNCHANGED <<nvsPeer, nvsRx, nvsOk, done, txVars>>

\* No peer stands in two slots.  Nothing enforces this: the form accepts an id twice,
\* and a form that fails half-way has moved a peer without clearing its old slot.
Distinct == \A i, j \in Slots : peer[i].id = peer[j].id /\ peer[i].id # NoId => i = j

\* A row with an id: the slot is copied before the edits are made to the copy; a
\* new id starts the copy without a floor.
RowCopy(id) ==
  LET j == job[Portal] IN
  /\ j.step = "row" /\ j.row \in Slots
  /\ SharedIds \/ \A k \in 1..(j.row - 1) : peer[k].id # id
  /\ job' = [job EXCEPT ![Portal] = [step |-> "set", row |-> j.row, id |-> id,
                                     hw |-> IF peer[j.row].id = id
                                            THEN peer[j.row].hw ELSE 0]]
  /\ UNCHANGED <<rxVars, txVars>>

\* Mutant of RowSet: the copy is stored as it is.
RowSetCopy ==
  LET j == job[Portal] IN
  /\ j.step = "set"
  /\ peer' = [peer EXCEPT ![j.row] = [id |-> j.id, hw |-> j.hw]]
  /\ job' = [job EXCEPT ![Portal] = [step |-> "row", row |-> j.row + 1]]
  /\ UNCHANGED <<nvsPeer, nvsRx, nvsOk, done, txVars>>

\* setPeer: a slot that changes its peer loads the new one's floor from NVS; the
\* same peer gets the copied floor back.
RowSet ==
  LET j == job[Portal] IN
  /\ j.step = "set"
  /\ \E ok \in Opens :
       peer' = [peer EXCEPT ![j.row] =
                  [id |-> j.id,
                   hw |-> IF j.id = peer[j.row].id THEN j.hw ELSE LoadRx(j.id, ok)]]
  /\ job' = [job EXCEPT ![Portal] = [step |-> "row", row |-> j.row + 1]]
  /\ UNCHANGED <<nvsPeer, nvsRx, nvsOk, done, txVars>>

\* A row is invalid: the rows before it stay applied in RAM, nothing is saved.
RowError ==
  /\ job[Portal].step = "row" /\ job[Portal].row \in Slots
  /\ SharedIds \/ Distinct
  /\ job' = [job EXCEPT ![Portal] = Idle]
  /\ UNCHANGED <<rxVars, txVars>>

\* saveTable, whose write may fail unnoticed; the portal goes on without a restart.
SaveTable ==
  /\ job[Portal].step = "row" /\ job[Portal].row = MAX_PEERS + 1
  /\ \/ UNCHANGED nvsPeer
     \/ /\ TRUE \in Opens
        /\ nvsPeer' = [i \in Slots |-> peer[i].id]
  /\ job' = [job EXCEPT ![Portal] = Idle]
  /\ UNCHANGED <<peer, nvsRx, nvsOk, done, txVars>>

-----------------------------------------------------------------------------
Inbound(t) ==
  \/ \E id \in Ids, s \in Seqs : Receive(t, id, s)
  \/ Accept(t) \/ PersistRx(t) \/ Run(t)

Outbound(t) == Take(t) \/ Reserve(t) \/ Commit(t) \/ Emit(t)

Form ==
  \/ FormOpen \/ RowClear \/ RowSet \/ RowError \/ SaveTable
  \/ \E id \in Ids : RowCopy(id)

Next ==
  \/ Reset \/ Form
  \/ \E id \in Ids : SendMessage(id)
  \/ \E t \in RadioTasks : Inbound(t)
  \/ \E t \in Tasks : Outbound(t)

Spec == Init /\ [][Next]_vars

-----------------------------------------------------------------------------
TypeOK ==
  /\ peer \in [Slots -> [id : Ids \cup {NoId}, hw : 0..UINT32_MAX]]
  /\ txSeq \in 1..UINT32_MAX /\ txReserved \in 0..UINT32_MAX
  /\ nvsPeer \in [Slots -> Ids \cup {NoId}]
  /\ nvsRx \in [Ids -> 0..UINT32_MAX] /\ nvsTx \in 0..UINT32_MAX
  /\ nvsOk \in BOOLEAN
  /\ done \in [Ids -> Seq(0..UINT32_MAX)] /\ sent \in Seq(0..UINT32_MAX)

\* The frames of one peer are acted on in strictly increasing order, so none is
\* acted on twice, across restarts, failed NVS writes and edits of the table
\* (acceptInboundSeq, setPeer, begin; "can never replay a seq already accepted").
NoReplay ==
  \A id \in Ids : \A m, n \in 1..Len(done[id]) :
    m < n => done[id][m] < done[id][n]

\* Between two requests the floor the next frame of a peer meets is the saved one:
\* no edit of the table leaves it lower (an old command passes) or gives a peer
\* the floor of another (its commands are refused).  Where NVS does not open, there
\* is no floor to agree with and no command is accepted.
FloorAgrees ==
  nvsOk /\ (\A t \in Tasks : job[t] = Idle) =>
    \A i \in Slots : peer[i].id # NoId /\ Resolves(peer[i].id, i)
                       => peer[i].hw = nvsRx[peer[i].id]

\* No two frames leave with the same number, which is the AES-CTR nonce, and a
\* peer finds each above the last (nextTxSeq; "unique per (peer-key, message)
\* since seq is monotonic per sender"); the first is above a fresh peer's floor 0.
FreshSeq ==
  /\ \A n \in 1..Len(sent) : sent[n] >= 1
  /\ \A m, n \in 1..Len(sent) : m < n => sent[m] < sent[n]

\* The saved floor of a peer never moves back (persistRxForPeer).
FloorGrows == [][\A id \in Ids : nvsRx'[id] >= nvsRx[id]]_vars
=============================================================================
