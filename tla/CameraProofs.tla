---------------------------- MODULE CameraProofs ----------------------------
(*************************************************************************)
(* The camera, for any number of commanders and recorders, any frame     *)
(* lengths and any length of a recording. LockInv says which step holds  *)
(* the sensor; it needs no hypothesis. The rest assumes ~Overlap, that   *)
(* commands come one at a time: the flags of a recording are set without *)
(* a lock. RecInv then gives one recorder, NumberInv a number of its own *)
(* to each file on a card that was listed (NoCardInv: without a card     *)
(* nobody writes), and FileInv relates what recTask has counted (frames, *)
(* bytes, index) to what it has written, at each of its steps and unless *)
(* the file is deleted or a write falls short; a whole video it closes   *)
(* is therefore described correctly.                                     *)
(*************************************************************************)
EXTENDS Camera, FiniteSetTheorems, SequenceTheorems, WellFoundedInduction, TLAPS

SnapSteps == {"snap", "snapWrite", "snapEnd"}
GrabSteps == {"bus", "write"}

\* Who holds the sensor, by the step it is at.
LockInv ==
  /\ fb \subseteq {cam} \ {Nobody}
  /\ \A t \in Commanders : job[t].step \in SnapSteps <=> cam = t
  /\ \A r \in Recorders : rec[r].step \in GrabSteps <=> cam = r
  /\ stream.step = "send" <=> cam = Stream

\* One command at a time; and one recording, which the flag shows from before its task
\* exists until after its file is closed.
RecInv ==
  /\ \A t, u \in Commanders : job[t] # Idle /\ job[u] # Idle => t = u
  /\ \A r, q \in Recorders : rec[r] # Idle /\ rec[q] # Idle => r = q
  /\ \A r \in Recorders : rec[r] # Idle => recActive
  /\ \A t \in Commanders :
       /\ job[t].step \in {"number", "start"} => ~recActive
       /\ job[t].step = "spawn" => recActive /\ \A r \in Recorders : rec[r] = Idle

\* Without a card, no task is at a step that writes to one.
NoCardInv ==
  sd = "none" =>
    /\ \A t \in Commanders : job[t].step \notin {"snapWrite", "number", "start", "spawn"}
    /\ \A r \in Recorders : rec[r] = Idle

\* Numbers above those on the card, and the number of the recording in hand: not on the
\* card until its file is created.
Numbered ==
  /\ \A n \in Numbers(img) : n < nextIdx
  /\ \A n \in Numbers(vid) : n < nextVid
  /\ \A t \in Commanders :
       /\ job[t].step = "start" => job[t].n = nextVid
       /\ job[t].step = "spawn" => recIdx < nextVid /\ recIdx \notin Numbers(vid)
  /\ \A r \in Recorders :
       /\ rec[r].step = "begin" => recIdx < nextVid /\ recIdx \notin Numbers(vid)
       /\ rec[r].step = "open" => rec[r].n < nextVid /\ rec[r].n \notin Numbers(vid)

\* So it is when the last restart has listed the whole card.
NumberInv == sd = "listed" => Numbered

\* What the recorder has counted is what the file holds.
Counted(v, frames, movi) ==
  /\ Len(frames) = Len(v.chunks)
  /\ \A i \in 1..Len(frames) :
       frames[i].off + MOVI = v.chunks[i].at /\ frames[i].len = v.chunks[i].len
  /\ v.size = IF frames = <<>> THEN 0 ELSE MOVI + movi
  /\ frames = <<>> => movi = 4

\* ... as long as no write has fallen short.
Agrees(v, frames, movi) == ~v.sealed /\ (v.whole => Counted(v, frames, movi))

\* From its creation to the last update of its header, the file of a recording, unless it is
\* deleted, agrees with what the task has counted.
FileInv ==
  \A r \in Recorders :
    /\ rec[r].step = "open" => rec[r].frames = <<>> /\ rec[r].movi = 4
    /\ rec[r].step \in {"loop", "grab", "bus", "write", "final"} /\ rec[r].n \in Numbers(vid) =>
         Agrees(vid[rec[r].n], rec[r].frames, rec[r].movi)

-----------------------------------------------------------------------------
(* Numbering *)

\* A bounded set of numbers has a largest one.
LEMMA Largest ==
  ASSUME NEW S \in SUBSET Nat, S # {}, NEW k \in Nat, \A x \in S : x <= k
  PROVE  Max(S) \in S /\ \A y \in S : y <= Max(S)
  <1> DEFINE T == {b \in Nat : \A x \in S : x <= b}
  <1>1. T \subseteq Nat /\ T # {}
    OBVIOUS
  <1>2. PICK b \in T : \A c \in T : ~(<<c, b>> \in OpToRel(<, Nat))
    BY <1>1, WFMin, NatLessThanWellFounded
  <1>3. \A c \in T : ~(c < b)
    BY <1>1, <1>2 DEF OpToRel
  <1>4. b \in S
    <2> SUFFICES ASSUME b \notin S PROVE FALSE
      OBVIOUS
    <2>1. \A x \in S : x < b
      OBVIOUS
    <2>2. b - 1 \in Nat /\ \A x \in S : x <= b - 1
      <3>1. PICK x \in S : x \in Nat
        OBVIOUS
      <3>2. b \in Nat /\ x < b
        BY <2>1, <3>1
      <3>3. b - 1 \in Nat
        BY <3>1, <3>2
      <3>4. \A y \in S : y \in Nat /\ y < b
        BY <2>1
      <3> QED BY <3>2, <3>3, <3>4
    <2> QED BY <1>3, <2>2
  <1>5. \A y \in S : b >= y
    OBVIOUS
  <1>6. \E x \in S : \A y \in S : x >= y
    BY <1>4, <1>5
  <1>7. Max(S) \in S /\ \A y \in S : Max(S) >= y
    BY <1>6 DEF Max
  <1> QED BY <1>7

\* beginStorage finds a number above every one it has seen.
LEMMA NumberedAbove ==
  ASSUME NEW N \in SUBSET Nat, NEW k \in Nat, \A n \in N : n < k
  PROVE  NextNumber(N) \in Nat /\ \A n \in N : n < NextNumber(N)
  <1> DEFINE S == {0} \cup N
  <1>1. S \in SUBSET Nat /\ S # {} /\ \A x \in S : x <= k
    OBVIOUS
  <1>2. Max(S) \in S /\ \A y \in S : y <= Max(S)
    BY <1>1, Largest
  <1>3. NextNumber(N) = Max(S) + 1
    BY DEF NextNumber
  <1> HIDE DEF S
  <1>4. \A n \in N : n \in S
    BY DEF S
  <1>5. PICK m \in Nat : NextNumber(N) = m + 1 /\ \A y \in S : y \in Nat /\ y <= m
    BY <1>1, <1>2, <1>3
  <1> QED BY <1>4, <1>5

\* The numbers on the card have a bound.
Bounded(files) == \E k \in Nat : \A n \in Numbers(files) : n < k
CardInv == Bounded(img) /\ Bounded(vid)

\* A file more.
LEMMA WithFacts ==
  ASSUME NEW f, NEW n, NEW x
  PROVE  /\ Numbers(With(f, n, x)) = Numbers(f) \cup {n}
         /\ With(f, n, x)[n] = x
         /\ \A m \in Numbers(f) : m # n => With(f, n, x)[m] = f[m]
  BY DEF With, Numbers

\* A file less.
LEMMA WithoutFacts ==
  ASSUME NEW f, NEW n
  PROVE  /\ Numbers(Without(f, n)) = Numbers(f) \ {n}
         /\ \A m \in Numbers(f) \ {n} : Without(f, n)[m] = f[m]
  BY DEF Without, Numbers

\* A file in the hands of a recorder.
LEMMA UpdateFacts ==
  ASSUME NEW n, NEW x, Update(n, x)
  PROVE  /\ Numbers(vid') = Numbers(vid)
         /\ n \in Numbers(vid) => vid'[n] = x
         /\ \A m \in Numbers(vid) : m # n => vid'[m] = vid[m]
  BY DEF Update, Numbers

\* ... and the card stays bounded.
LEMMA StillBounded ==
  ASSUME NEW f, NEW g, Bounded(f), \A n \in Numbers(f) : n \in Nat, NEW n \in Nat,
         Numbers(g) \subseteq Numbers(f) \cup {n}
  PROVE  Bounded(g)
  <1>1. PICK k \in Nat : \A m \in Numbers(f) : m < k
    BY DEF Bounded
  <1>2. PICK j \in Nat : k <= j /\ n < j
    <2>1. CASE n < k
      BY <2>1
    <2>2. CASE ~(n < k)
      <3>1. n + 1 \in Nat /\ k <= n + 1 /\ n < n + 1
        BY <2>2
      <3> QED BY <3>1
    <2> QED BY <2>1, <2>2
  <1>3. \A m \in Numbers(g) : m < j
    BY <1>1, <1>2
  <1> QED BY <1>3 DEF Bounded

-----------------------------------------------------------------------------
(* Types *)

Jobs == SimpleJobs \cup StartJobs
Recs == {Idle, [step |-> "begin"]} \cup Recordings
JobSteps == {"idle", "snap", "snapWrite", "snapEnd", "number", "spawn"}
WorkSteps == {"open", "loop", "grab", "bus", "write", "final"}

\* The step of a task tells what else it keeps.
LEMMA StepKinds ==
  /\ \A j \in Jobs : /\ j.step = "start" => j \in StartJobs
                     /\ j.step = "idle" <=> j = Idle
  /\ \A x \in Recs : /\ x.step \in WorkSteps => x \in Recordings
                     /\ x.step = "idle" <=> x = Idle
  /\ Idle.step = "idle" /\ Idle \in Jobs
  /\ \A s \in JobSteps : [step |-> s] \in Jobs /\ [step |-> s].step = s
  BY DEF Jobs, Recs, SimpleJobs, StartJobs, Recordings, Idle, JobSteps, WorkSteps

\* A commander or a recorder moves on.
LEMMA JobMoved ==
  ASSUME TypeOK, NEW t \in Commanders, NEW s \in JobSteps, Goto(t, s)
  PROVE  /\ job' \in [Commanders -> Jobs] /\ job'[t] = [step |-> s] /\ job'[t].step = s
         /\ \A u \in Commanders : u # t => job'[u] = job[u]
  BY StepKinds DEF TypeOK, Goto, Jobs

\* A recorder that has its number goes on to another step and keeps what it has counted.
LEMMA RecMoved ==
  ASSUME TypeOK, NEW r \in Recorders, rec[r].step \in WorkSteps, NEW s \in WorkSteps, Step(r, s)
  PROVE  /\ rec' \in [Recorders -> Recs] /\ rec'[r].step = s /\ rec'[r] # Idle
         /\ rec'[r].n = rec[r].n /\ rec'[r].frames = rec[r].frames /\ rec'[r].movi = rec[r].movi
         /\ \A q \in Recorders : q # r => rec'[q] = rec[q]
  <1>1. rec[r] \in Recordings /\ rec \in [Recorders -> Recs]
    BY StepKinds DEF TypeOK, Recs
  <1> DEFINE x == [rec[r] EXCEPT !.step = s]
  <1>2. /\ x \in Recordings /\ x.step = s
        /\ x.n = rec[r].n /\ x.frames = rec[r].frames /\ x.movi = rec[r].movi
    BY <1>1 DEF Recordings, WorkSteps
  <1>3. rec' = [rec EXCEPT ![r] = x]
    BY DEF Step
  <1> HIDE DEF x
  <1>4. x # Idle /\ x \in Recs
    BY <1>2, StepKinds DEF Recs, WorkSteps
  <1> QED BY <1>1, <1>2, <1>3, <1>4

\* A recorder ends, with the flag cleared.
LEMMA RecEnded ==
  ASSUME TypeOK, NEW r \in Recorders, Ended(r)
  PROVE  /\ rec' \in [Recorders -> Recs] /\ rec'[r] = Idle /\ recActive' = FALSE
         /\ \A q \in Recorders : q # r => rec'[q] = rec[q]
  BY DEF TypeOK, Ended, Recs

\* The frame that recTask writes: in the file and in its own count.
LEMMA FrameWritten ==
  ASSUME TypeOK, NEW r \in Recorders, rec[r].step = "write", NEW n \in FrameLens, NEW all,
         WriteFrame(r, n, all)
  PROVE  LET k == rec[r].n
         IN
         /\ rec' \in [Recorders -> Recs] /\ rec'[r] # Idle /\ rec'[r].step = "loop"
         /\ rec'[r].n = k /\ rec'[r].movi = rec[r].movi + ChunkBytes(n)
         /\ rec'[r].frames = Append(rec[r].frames, [off |-> rec[r].movi, len |-> n])
         /\ \A q \in Recorders : q # r => rec'[q] = rec[q]
         /\ Numbers(vid') = Numbers(vid)
         /\ \A m \in Numbers(vid) : m # k => vid'[m] = vid[m]
         /\ k \in Numbers(vid) => vid'[k] = Chunked(vid[k], rec[r].frames = <<>>, n, all)
         /\ ChunkBytes(n) \in Nat /\ n \in Nat
  <1>1. rec[r] \in Recordings /\ rec \in [Recorders -> Recs]
    BY StepKinds DEF TypeOK, Recs, WorkSteps
  <1>2. n \in Nat /\ ChunkBytes(n) \in Nat
    BY ConstAssumption DEF ChunkBytes, Even
  <1>3. Append(rec[r].frames, [off |-> rec[r].movi, len |-> n]) \in Seq(Frames)
    BY <1>1, <1>2, AppendProperties DEF Recordings, Frames
  <1> DEFINE fs == Append(rec[r].frames, [off |-> rec[r].movi, len |-> n])
             mv == rec[r].movi + ChunkBytes(n)
             x == [rec[r] EXCEPT !.frames = fs, !.movi = mv, !.step = "loop"]
  <1>4. /\ x \in Recordings /\ x.step = "loop" /\ x.n = rec[r].n
        /\ x.movi = mv /\ x.frames = fs
    <2>1. fs \in Seq(Frames) /\ mv \in Nat
      BY <1>1, <1>2, <1>3 DEF Recordings
    <2> HIDE DEF fs, mv
    <2> QED BY <1>1, <2>1 DEF Recordings
  <1>5. rec' = [rec EXCEPT ![r] = x]
    BY <1>1 DEF WriteFrame
  <1> HIDE DEF x
  <1>6. x \in Recs /\ x # Idle
    BY <1>4, StepKinds DEF Recs
  <1>7. /\ rec' \in [Recorders -> Recs] /\ rec'[r] = x
        /\ \A q \in Recorders : q # r => rec'[q] = rec[q]
    BY <1>1, <1>5, <1>6
  <1>8. Update(rec[r].n, Chunked(vid[rec[r].n], rec[r].frames = <<>>, n, all))
    BY DEF WriteFrame
  <1>9. /\ Numbers(vid') = Numbers(vid)
        /\ \A m \in Numbers(vid) : m # rec[r].n => vid'[m] = vid[m]
        /\ rec[r].n \in Numbers(vid) =>
             vid'[rec[r].n] = Chunked(vid[rec[r].n], rec[r].frames = <<>>, n, all)
    BY <1>8, UpdateFacts
  <1> QED BY <1>2, <1>4, <1>6, <1>7, <1>9

\* Nothing is running after power-on.
LEMMA InitTypes == Init => TypeOK /\ CardInv
  <1> SUFFICES ASSUME Init PROVE TypeOK /\ CardInv
    OBVIOUS
  <1>1. Numbers(img) = {} /\ Numbers(vid) = {}
    BY DEF Init, Numbers
  <1>2. CardInv
    BY <1>1 DEF CardInv, Bounded
  <1>3. job \in [Commanders -> SimpleJobs] /\ Idle \in SimpleJobs
    BY DEF Init, Idle, SimpleJobs
  <1>4. rec \in [Recorders -> {Idle}] /\ stream = Idle
    BY DEF Init
  <1>5. /\ nextIdx \in Nat /\ nextVid \in Nat /\ recIdx \in Nat /\ boots \in 0..MaxBoots
        /\ orders \in 0..MaxOrders /\ sd \in {"none", "blind", "listed"}
    BY ConstAssumption DEF Init
  <1>6. /\ cam = Nobody /\ bus = Nobody /\ fb = {} /\ recActive \in BOOLEAN /\ recStop \in BOOLEAN
    BY DEF Init
  <1> QED BY <1>1, <1>2, <1>3, <1>4, <1>5, <1>6 DEF TypeOK

\* The two halves of the type invariant: the tasks and the card.
TaskTypes ==
  /\ cam \in Tasks \cup {Nobody} /\ bus \in Tasks \cup {Radio, Nobody} /\ fb \subseteq Tasks
  /\ recActive \in BOOLEAN /\ recStop \in BOOLEAN
  /\ job \in [Commanders -> Jobs] /\ rec \in [Recorders -> Recs]
  /\ stream \in {Idle} \cup Requests

CardTypes ==
  /\ \A n \in Numbers(img) : n \in Nat /\ img[n] \in FrameLens
  /\ \A n \in Numbers(vid) : n \in Nat /\ vid[n] \in Videos
  /\ nextIdx \in Nat /\ nextVid \in Nat /\ recIdx \in Nat /\ boots \in 0..MaxBoots
  /\ orders \in 0..MaxOrders /\ sd \in {"none", "blind", "listed"}
  /\ CardInv

\* Together they are the type invariant.
LEMMA TypeHalves == TypeOK /\ CardInv <=> TaskTypes /\ CardTypes
  BY DEF TypeOK, TaskTypes, CardTypes, Jobs, Recs

\* Every step leaves every task in a state the code has.
LEMMA TaskTypeStep == TypeOK /\ [Next]_vars => TaskTypes'
  <1> SUFFICES ASSUME TypeOK, [Next]_vars PROVE TaskTypes'
    OBVIOUS
  <1> USE DEF Tasks
  <1>0. TaskTypes
    BY DEF TypeOK, TaskTypes, Jobs, Recs
  <1>1. CASE Reset
    <2>1. /\ job' \in [Commanders -> Jobs] /\ rec' \in [Recorders -> Recs] /\ stream' = Idle
      BY <1>1, StepKinds DEF Reset, Recs
    <2> QED BY <1>1, <2>1 DEF Reset, TaskTypes
  <1>2. CASE RadioBus
    BY <1>0, <1>2 DEF RadioBus, TakeBus, FreeBus, flags, TaskTypes
  <1>3. CASE PhotoDelete
    BY <1>0, <1>3 DEF PhotoDelete, locks, flags, TaskTypes
  <1>4. CASE Server81
    <2>1. /\ cam' \in Tasks \cup {Nobody} /\ fb' \subseteq Tasks
          /\ UNCHANGED <<bus, recActive, recStop, job, rec>>
      BY <1>0, <1>4 DEF Server81, StreamOpen, StreamGrab, StreamNull, JpgBusy, StreamSent, Grab,
                        GiveBack, locks, flags, TaskTypes
    <2>2. stream' \in {Idle} \cup Requests
      <3>0. stream.step \in {"wait", "send"} => stream \in Requests
        BY <1>0 DEF TaskTypes, Idle
      <3>1. CASE StreamOpen
        BY <3>1 DEF StreamOpen, Requests
      <3>2. CASE StreamGrab
        BY <3>0, <3>2 DEF StreamGrab, Requests
      <3>3. CASE StreamNull
        BY <3>0, <3>3 DEF StreamNull, Requests
      <3>4. CASE JpgBusy
        BY <3>4 DEF JpgBusy
      <3>5. CASE StreamSent
        BY <3>0, <3>5 DEF StreamSent, Requests
      <3> QED BY <1>4, <3>1, <3>2, <3>3, <3>4, <3>5 DEF Server81
    <2> QED BY <1>0, <2>1, <2>2 DEF TaskTypes
  <1>5. ASSUME NEW t \in Commanders, Snap(t) PROVE TaskTypes'
    <2>1. /\ cam' \in Tasks \cup {Nobody} /\ fb' \subseteq Tasks
          /\ bus' \in Tasks \cup {Radio, Nobody}
          /\ UNCHANGED <<recActive, recStop, rec, stream>>
      BY <1>0, <1>5 DEF Snap, SnapGrab, SnapBus, SnapWrite, SnapEnd, Grab, GiveBack, TakeBus,
                        FreeBus, BusBusy, flags, TaskTypes
    <2>2. \E s \in JobSteps : Goto(t, s)
      BY <1>5 DEF Snap, SnapGrab, SnapBus, SnapWrite, SnapEnd, JobSteps
    <2>3. job' \in [Commanders -> Jobs]
      BY <2>2, JobMoved
    <2> QED BY <1>0, <2>1, <2>3 DEF TaskTypes
  <1>6. ASSUME NEW t \in Commanders, Record(t) PROVE TaskTypes'
    <2>1. UNCHANGED <<cam, bus, fb, stream>>
      BY <1>6 DEF Record, RecordCheck, RecordNumber, RecordStart, RecordSpawn, locks
    <2>2. job' \in [Commanders -> Jobs]
      <3>1. CASE RecordNumber(t)
        <4>1. [step |-> "start", n |-> nextVid] \in Jobs
          BY DEF TypeOK, Jobs, StartJobs
        <4> QED BY <1>0, <3>1, <4>1 DEF RecordNumber, TaskTypes
      <3>2. CASE RecordCheck(t) \/ RecordStart(t) \/ RecordSpawn(t)
        <4>1. \E s \in JobSteps : Goto(t, s)
          BY <3>2 DEF RecordCheck, RecordStart, RecordSpawn, JobSteps
        <4> QED BY <4>1, JobMoved
      <3> QED BY <1>6, <3>1, <3>2 DEF Record
    <2>3. recActive' \in BOOLEAN /\ recStop' \in BOOLEAN
      BY <1>0, <1>6 DEF Record, RecordCheck, RecordNumber, RecordStart, RecordSpawn, flags, TaskTypes
    <2>4. rec' \in [Recorders -> Recs]
      <3>1. CASE rec' = rec
        BY <1>0, <3>1 DEF TaskTypes
      <3>2. CASE \E r \in Recorders : rec' = [rec EXCEPT ![r] = [step |-> "begin"]]
        BY <1>0, <3>2 DEF TaskTypes, Recs
      <3> QED BY <1>6, <3>1, <3>2 DEF Record, RecordCheck, RecordNumber, RecordStart, RecordSpawn
    <2> QED BY <1>0, <2>1, <2>2, <2>3, <2>4 DEF TaskTypes
  <1>7. ASSUME NEW t \in Commanders, Stop(t) PROVE TaskTypes'
    BY <1>0, <1>7 DEF Stop, locks, TaskTypes
  <1>8. ASSUME NEW r \in Recorders, Recorder(r) PROVE TaskTypes'
    <2>1. /\ cam' \in Tasks \cup {Nobody} /\ fb' \subseteq Tasks
          /\ bus' \in Tasks \cup {Radio, Nobody}
      BY <1>0, <1>8 DEF Recorder, RecBegin, RecOpen, RecLoop, RecDeadline, RecGrab, RecBus, RecWrite,
                        RecFinal, Grab, GiveBack, TakeBus, FreeBus, BusBusy, locks, TaskTypes
    <2>2. /\ UNCHANGED <<job, stream, recStop>> /\ recActive' \in BOOLEAN
      BY <1>0, <1>8 DEF Recorder, RecBegin, RecOpen, RecLoop, RecDeadline, RecGrab, RecBus, RecWrite,
                        RecFinal, Ended, flags, TaskTypes
    <2>3. rec' \in [Recorders -> Recs]
      <3>1. CASE RecBegin(r)
        <4>1. [step |-> "open", n |-> recIdx, frames |-> <<>>, movi |-> 4] \in Recs
          BY EmptySeq DEF TypeOK, Recs, Recordings
        <4> QED BY <1>0, <3>1, <4>1 DEF RecBegin, TaskTypes
      <3>2. CASE RecWrite(r)
        BY <3>2, FrameWritten DEF RecWrite
      <3>3. CASE Ended(r)
        BY <3>3, RecEnded
      <3>4. CASE rec[r].step \in WorkSteps /\ \E s \in WorkSteps : Step(r, s)
        BY <3>4, RecMoved
      <3> QED BY <1>8, <3>1, <3>2, <3>3, <3>4
              DEF Recorder, RecOpen, RecLoop, RecDeadline, RecGrab, RecBus, RecFinal, WorkSteps
    <2> QED BY <1>0, <2>1, <2>2, <2>3 DEF TaskTypes
  <1>9. CASE UNCHANGED vars
    BY <1>0, <1>9 DEF vars, TaskTypes
  <1> QED BY <1>1, <1>2, <1>3, <1>4, <1>5, <1>6, <1>7, <1>8, <1>9 DEF Next

\* A video that is whole is open or sealed, and has a size and chunks.
LEMMA VideoKinds ==
  ASSUME NEW v \in Videos
  PROVE  /\ v.sealed \in BOOLEAN /\ v.whole \in BOOLEAN
         /\ v.whole => /\ v \in OpenVideos \cup SealedVideos
                       /\ v.size \in Nat /\ v.chunks \in Seq(Chunks)
                       /\ Len(v.chunks) \in Nat
  <1>1. CASE v \in OpenVideos \cup SealedVideos
    <2>1. v.size \in Nat /\ v.chunks \in Seq(Chunks) /\ v.sealed \in BOOLEAN
      BY <1>1 DEF OpenVideos, SealedVideos
    <2>2. v.whole \in BOOLEAN
      BY <1>1 DEF OpenVideos, SealedVideos
    <2>3. Len(v.chunks) \in Nat
      BY <2>1, LenProperties
    <2> QED BY <1>1, <2>1, <2>2, <2>3, Zenon
  <1>2. CASE v \in {NotWhole(FALSE), NotWhole(TRUE)}
    <2>1. v.sealed \in BOOLEAN
      <3>1. NotWhole(FALSE).sealed = FALSE
        BY DEF NotWhole
      <3>2. NotWhole(TRUE).sealed = TRUE
        BY DEF NotWhole
      <3> QED BY <1>2, <3>1, <3>2, Zenon
    <2>2. v.whole = FALSE
      BY <1>2 DEF NotWhole
    <2> QED BY <2>1, <2>2, Zenon
  <1> QED BY <1>1, <1>2 DEF Videos

\* A file with a whole chunk more.
Longer(v, first, n) ==
  LET at == IF first THEN v.size + HDR ELSE v.size
  IN  [v EXCEPT !.size = at + ChunkBytes(n),
                !.chunks = Append(v.chunks, [at |-> at, len |-> n])]

\* A chunk more: an open file is still open; if it is whole, it was whole before.
LEMMA ChunkTypes ==
  ASSUME NEW v \in Videos, NEW first, NEW n \in Nat, NEW all
  PROVE  /\ Chunked(v, first, n, all) \in Videos
         /\ ~v.sealed => ~Chunked(v, first, n, all).sealed
         /\ Chunked(v, first, n, all).whole =>
              /\ v.whole /\ Chunked(v, first, n, all) = Longer(v, first, n)
              /\ Len(Chunked(v, first, n, all).chunks) = Len(v.chunks) + 1
  <1> DEFINE w == Chunked(v, first, n, all)
             at == IF first THEN v.size + HDR ELSE v.size
             c == [at |-> at, len |-> n]
             size == at + ChunkBytes(n)
             cs == Append(v.chunks, c)
             x == [v EXCEPT !.size = size, !.chunks = cs]
  <1>1. CASE all /\ v.whole
    <2>1. w = x
      BY <1>1 DEF Chunked
    <2>2. v \in OpenVideos \cup SealedVideos /\ v.size \in Nat /\ v.chunks \in Seq(Chunks)
      BY <1>1, VideoKinds
    <2>3. at \in Nat /\ ChunkBytes(n) \in Nat
      BY <2>2 DEF HDR, ChunkBytes, Even
    <2>4. c \in Chunks /\ size \in Nat
      BY <2>3 DEF Chunks
    <2>5. cs \in Seq(Chunks) /\ Len(cs) = Len(v.chunks) + 1
      BY <2>2, <2>4, AppendProperties
    <2> HIDE DEF cs, size
    <2>6. x \in OpenVideos \cup SealedVideos /\ x.sealed = v.sealed /\ x.chunks = cs
      BY <2>2, <2>4, <2>5 DEF OpenVideos, SealedVideos
    <2> HIDE DEF x, w
    <2>7. w \in Videos /\ w.sealed = v.sealed /\ Len(w.chunks) = Len(v.chunks) + 1
      BY <2>1, <2>5, <2>6 DEF Videos
    <2>8. Longer(v, first, n) = x
      BY DEF Longer, x, size, cs
    <2> QED BY <1>1, <2>1, <2>7, <2>8 DEF w
  <1>2. CASE ~(all /\ v.whole)
    <2>1. w = NotWhole(FALSE)
      BY <1>2 DEF Chunked
    <2>2. NotWhole(FALSE) \in Videos /\ ~NotWhole(FALSE).sealed /\ ~NotWhole(FALSE).whole
      BY DEF Videos, NotWhole
    <2> HIDE DEF w
    <2>3. w \in Videos /\ ~w.sealed /\ ~w.whole
      BY <2>1, <2>2
    <2> QED BY <2>3 DEF w
  <1> QED BY <1>1, <1>2

\* The finished video.
LEMMA SealTypes ==
  ASSUME NEW v \in Videos, NEW frames \in Seq(Frames), NEW movi \in Nat, NEW all
  PROVE  Seal(v, frames, movi, all) \in Videos
  <1>1. CASE all /\ v.whole
    <2>1. v.size \in Nat /\ v.chunks \in Seq(Chunks) /\ Len(frames) \in Nat
      BY <1>1, VideoKinds, LenProperties
    <2>2. /\ v.size + 8 + 16 * Len(frames) \in Nat
          /\ HDR + (movi - 4) + 8 + 16 * Len(frames) - 8 \in Int
      BY <2>1 DEF HDR
    <2>3. Seal(v, frames, movi, all) \in SealedVideos
      BY <1>1, <2>1, <2>2 DEF Seal, SealedVideos
    <2> QED BY <2>3 DEF Videos
  <1>2. CASE ~(all /\ v.whole)
    BY <1>2 DEF Seal, Videos
  <1> QED BY <1>1, <1>2

\* A new file is open and empty.
LEMMA NewVideoType == NewVideo \in Videos /\ ~NewVideo.sealed
  BY EmptySeq DEF NewVideo, OpenVideos, Videos

\* Every step leaves the card with numbered, well-formed files.
LEMMA CardTypeStep == TypeOK /\ CardInv /\ [Next]_vars => CardTypes'
  <1> SUFFICES ASSUME TypeOK, CardInv, [Next]_vars PROVE CardTypes'
    OBVIOUS
  <1>0. CardTypes
    BY DEF TypeOK, CardTypes
  <1>U. ASSUME UNCHANGED <<img, vid, nextIdx, nextVid, recIdx, boots, sd, orders>> PROVE CardTypes'
    BY <1>0, <1>U DEF CardTypes, CardInv
  <1>N. Numbers(img) \in SUBSET Nat /\ Numbers(vid) \in SUBSET Nat
    BY <1>0 DEF CardTypes
  <1>1. CASE Reset
    <2>1. /\ \A I \in SUBSET Numbers(img) : NextNumber(I) \in Nat
          /\ \A V \in SUBSET Numbers(vid) : NextNumber(V) \in Nat
      BY <1>N, NumberedAbove DEF CardInv, Bounded
    <2>2. boots' \in 0..MaxBoots /\ UNCHANGED <<img, vid, orders>> /\ recIdx' = 0
      BY <1>0, <1>1, ConstAssumption DEF CardTypes, Reset, card
    <2>3. nextIdx' \in Nat /\ nextVid' \in Nat /\ sd' \in {"none", "blind", "listed"}
      BY <1>1, <2>1 DEF Reset, beginStorage
    <2> QED BY <1>0, <2>2, <2>3 DEF CardTypes, CardInv
  <1>2. CASE PhotoDelete
    <2>1. UNCHANGED <<nextIdx, nextVid, recIdx, boots, sd, orders>>
      BY <1>2 DEF PhotoDelete, flags
    <2>2. CASE \E n \in Numbers(img) : img' = Without(img, n) /\ UNCHANGED vid
      <3>1. PICK n \in Numbers(img) : img' = Without(img, n) /\ UNCHANGED vid
        BY <2>2
      <3>2. Numbers(img') = Numbers(img) \ {n} /\ \A m \in Numbers(img') : img'[m] = img[m]
        BY <3>1, WithoutFacts
      <3>3. Bounded(img')
        BY <1>0, <3>2, StillBounded DEF CardTypes, CardInv
      <3> QED BY <1>0, <2>1, <3>1, <3>2, <3>3 DEF CardTypes, CardInv
    <2>3. CASE \E n \in Numbers(vid) : vid' = Without(vid, n) /\ UNCHANGED img
      <3>1. PICK n \in Numbers(vid) : vid' = Without(vid, n) /\ UNCHANGED img
        BY <2>3
      <3>2. Numbers(vid') = Numbers(vid) \ {n} /\ \A m \in Numbers(vid') : vid'[m] = vid[m]
        BY <3>1, WithoutFacts
      <3>3. Bounded(vid')
        BY <1>0, <3>2, StillBounded DEF CardTypes, CardInv
      <3> QED BY <1>0, <2>1, <3>1, <3>2, <3>3 DEF CardTypes, CardInv
    <2> QED BY <1>2, <2>2, <2>3 DEF PhotoDelete
  <1>3. ASSUME NEW t \in Commanders, SnapWrite(t) PROVE CardTypes'
    <2>1. UNCHANGED <<vid, nextVid, recIdx, boots, sd, orders>> /\ nextIdx' \in Nat
      BY <1>0, <1>3 DEF SnapWrite, flags, CardTypes
    <2>2. \/ img' = img \/ img' = Without(img, nextIdx)
          \/ \E n \in FrameLens : img' = With(img, nextIdx, n)
      BY <1>3 DEF SnapWrite
    <2>3. /\ Numbers(img') \subseteq Numbers(img) \cup {nextIdx}
          /\ \A m \in Numbers(img') : img'[m] \in FrameLens
      <3>1. CASE img' = img
        BY <1>0, <3>1 DEF CardTypes
      <3>2. CASE img' = Without(img, nextIdx)
        BY <1>0, <3>2, WithoutFacts DEF CardTypes
      <3>3. ASSUME NEW n \in FrameLens, img' = With(img, nextIdx, n)
            PROVE  /\ Numbers(img') \subseteq Numbers(img) \cup {nextIdx}
                   /\ \A m \in Numbers(img') : img'[m] \in FrameLens
        BY <1>0, <3>3, WithFacts DEF CardTypes
      <3> QED BY <2>2, <3>1, <3>2, <3>3
    <2>4. Bounded(img')
      BY <1>0, <2>3, StillBounded DEF CardTypes, CardInv
    <2> QED BY <1>0, <2>1, <2>3, <2>4 DEF CardTypes, CardInv
  <1>4. ASSUME NEW t \in Commanders, RecordStart(t) PROVE CardTypes'
    <2>1. job[t].n \in Nat
      BY <1>4, StepKinds DEF RecordStart, TypeOK, Jobs, StartJobs
    <2> QED BY <1>0, <1>4, <2>1 DEF RecordStart, card, CardTypes, CardInv
  <1>5. ASSUME NEW r \in Recorders, RecOpen(r) \/ RecWrite(r) \/ RecFinal(r) PROVE CardTypes'
    <2>1. UNCHANGED <<img, nextIdx, nextVid, recIdx, boots, sd, orders>>
      BY <1>5 DEF RecOpen, RecWrite, RecFinal, flags
    <2>2. rec[r] \in Recordings /\ rec[r].n \in Nat
      BY <1>5, StepKinds DEF RecOpen, RecWrite, RecFinal, TypeOK, Recs, Recordings, WorkSteps
    <2> DEFINE k == rec[r].n
    <2>3. /\ Numbers(vid') \subseteq Numbers(vid) \cup {k}
          /\ \A m \in Numbers(vid') : vid'[m] \in Videos
      <3>1. CASE RecOpen(r)
        <4>1. vid' = vid \/ vid' = With(vid, k, NewVideo)
          BY <3>1 DEF RecOpen
        <4>2. /\ Numbers(With(vid, k, NewVideo)) = Numbers(vid) \cup {k}
              /\ With(vid, k, NewVideo)[k] = NewVideo
              /\ \A m \in Numbers(vid) : m # k => With(vid, k, NewVideo)[m] = vid[m]
          BY WithFacts
        <4>3. NewVideo \in Videos
          BY NewVideoType
        <4> QED BY <1>0, <4>1, <4>2, <4>3 DEF CardTypes
      <3>2. CASE RecWrite(r)
        <4>1. PICK n \in FrameLens, all \in BOOLEAN : WriteFrame(r, n, all)
          BY <3>2 DEF RecWrite
        <4> DEFINE w == Chunked(vid[k], rec[r].frames = <<>>, n, all)
        <4>2. /\ Numbers(vid') = Numbers(vid)
              /\ \A m \in Numbers(vid) : m # k => vid'[m] = vid[m]
              /\ k \in Numbers(vid) => vid'[k] = w
              /\ n \in Nat
          <5>1. rec[r].step = "write"
            BY <3>2 DEF RecWrite
          <5> QED BY <4>1, <5>1, FrameWritten, ZenonT(60)
        <4>3. k \in Numbers(vid) => w \in Videos
          BY <1>0, <4>2, ChunkTypes DEF CardTypes
        <4> HIDE DEF w
        <4> QED BY <1>0, <4>2, <4>3 DEF CardTypes
      <3>3. CASE RecFinal(r)
        <4>1. \/ vid' = vid \/ vid' = Without(vid, k)
              \/ \E all \in BOOLEAN : Update(k, Seal(vid[k], rec[r].frames, rec[r].movi, all))
          BY <3>3 DEF RecFinal
        <4>2. CASE vid' = vid \/ vid' = Without(vid, k)
          BY <1>0, <4>2, WithoutFacts DEF CardTypes
        <4>3. ASSUME NEW all \in BOOLEAN, Update(k, Seal(vid[k], rec[r].frames, rec[r].movi, all))
              PROVE  /\ Numbers(vid') \subseteq Numbers(vid) \cup {k}
                     /\ \A m \in Numbers(vid') : vid'[m] \in Videos
          <5> DEFINE w == Seal(vid[k], rec[r].frames, rec[r].movi, all)
          <5>1. k \in Numbers(vid) => w \in Videos
            BY <1>0, <2>2, SealTypes DEF CardTypes, Recordings
          <5>2. /\ Numbers(vid') = Numbers(vid)
                /\ k \in Numbers(vid) => vid'[k] = w
                /\ \A m \in Numbers(vid) : m # k => vid'[m] = vid[m]
            BY <4>3, UpdateFacts
          <5> HIDE DEF w
          <5> QED BY <1>0, <5>1, <5>2 DEF CardTypes
        <4> QED BY <4>1, <4>2, <4>3
      <3> QED BY <1>5, <3>1, <3>2, <3>3
    <2>4. Bounded(vid')
      BY <1>0, <2>2, <2>3, StillBounded DEF CardTypes, CardInv
    <2> QED BY <1>0, <2>1, <2>2, <2>3, <2>4 DEF CardTypes, CardInv
  <1>6. CASE RadioBus \/ Server81
    BY <1>U, <1>6 DEF RadioBus, Server81, StreamOpen, StreamGrab, StreamNull, JpgBusy, StreamSent,
                      card, flags
  <1>7. ASSUME NEW t \in Commanders,
               SnapBus(t) \/ SnapEnd(t) \/ Stop(t) \/ RecordNumber(t) \/ RecordSpawn(t)
        PROVE  CardTypes'
    BY <1>U, <1>7 DEF SnapBus, SnapEnd, Stop, RecordNumber, RecordSpawn, card, flags
  <1>10. ASSUME NEW t \in Commanders, SnapGrab(t) \/ RecordCheck(t) PROVE CardTypes'
    <2>1. UNCHANGED <<img, vid, nextIdx, nextVid, recIdx, boots, sd>> /\ Order
      BY <1>10 DEF SnapGrab, RecordCheck, card, flags
    <2>2. orders' \in 0..MaxOrders
      BY <1>0, <2>1, ConstAssumption DEF Order, CardTypes
    <2> QED BY <1>0, <2>1, <2>2 DEF CardTypes, CardInv
  <1>8. ASSUME NEW r \in Recorders,
               RecBegin(r) \/ RecLoop(r) \/ RecDeadline(r) \/ RecGrab(r) \/ RecBus(r)
        PROVE  CardTypes'
    BY <1>U, <1>8 DEF RecBegin, RecLoop, RecDeadline, RecGrab, RecBus, card, flags
  <1>9. CASE UNCHANGED vars
    BY <1>U, <1>9 DEF vars
  <1> QED BY <1>1, <1>2, <1>3, <1>4, <1>5, <1>6, <1>7, <1>8, <1>9, <1>10
          DEF Next, Snap, Record, Recorder

\* Types hold throughout, whether or not commands overlap.
THEOREM TypeCorrect == Spec => []TypeOK
  <1>1. TypeOK /\ CardInv /\ [Next]_vars => TypeOK' /\ CardInv'
    <2> SUFFICES ASSUME TypeOK, CardInv, [Next]_vars PROVE TypeOK' /\ CardInv'
      OBVIOUS
    <2>1. TaskTypes' /\ CardTypes'
      BY TaskTypeStep, CardTypeStep
    <2> QED BY <2>1 DEF TypeOK, TaskTypes, CardTypes, Jobs, Recs
  <1> QED BY <1>1, InitTypes, PTL DEF Spec

-----------------------------------------------------------------------------
(* The sensor and its frame buffers *)

\* Every step keeps the sensor with the task that took it: a task takes it when it is
\* free, and the one that has it gives frame and sensor back.
LEMMA LockStep == TypeOK /\ LockInv /\ [Next]_vars => LockInv'
  <1> SUFFICES ASSUME TypeOK, LockInv, [Next]_vars PROVE LockInv'
    OBVIOUS
  <1>0. /\ fb \subseteq {cam} \ {Nobody}
        /\ \A t \in Commanders : job[t].step \in SnapSteps <=> cam = t
        /\ \A r \in Recorders : rec[r].step \in GrabSteps <=> cam = r
        /\ stream.step = "send" <=> cam = Stream
    BY DEF LockInv
  <1>I. Idle.step \notin SnapSteps \cup GrabSteps \cup {"send"}
    BY DEF Idle, SnapSteps, GrabSteps
  <1>Q. ASSUME UNCHANGED <<cam, fb>>,
               \A t \in Commanders : job'[t].step \in SnapSteps <=> job[t].step \in SnapSteps,
               \A r \in Recorders : rec'[r].step \in GrabSteps <=> rec[r].step \in GrabSteps,
               stream'.step = "send" <=> stream.step = "send"
        PROVE  LockInv'
    BY <1>0, <1>Q DEF LockInv
  <1>G. ASSUME NEW x \in Tasks, Grab(x),
               \A t \in Commanders : t # x => job'[t] = job[t],
               \A r \in Recorders : r # x => rec'[r] = rec[r],
               x # Stream => stream' = stream,
               x \in Commanders => job'[x].step \in SnapSteps,
               x \in Recorders => rec'[x].step \in GrabSteps,
               x = Stream => stream'.step = "send"
        PROVE  LockInv'
    <2>1. cam = Nobody /\ cam' = x /\ fb' = {x}
      BY <1>0, <1>G DEF Grab
    <2>2. /\ \A t \in Commanders : job[t].step \notin SnapSteps
          /\ \A r \in Recorders : rec[r].step \notin GrabSteps
          /\ stream.step # "send"
      BY <1>0, <2>1, TaskAssumption
    <2>3. x # Nobody
      BY TaskAssumption DEF Tasks
    <2> QED BY <1>G, <2>1, <2>2, <2>3 DEF LockInv
  <1>B. ASSUME NEW x \in Tasks, cam = x, GiveBack(x),
               \A t \in Commanders : t # x => job'[t] = job[t],
               \A r \in Recorders : r # x => rec'[r] = rec[r],
               x # Stream => stream' = stream,
               x \in Commanders => job'[x].step \notin SnapSteps,
               x \in Recorders => rec'[x].step \notin GrabSteps,
               x = Stream => stream'.step # "send"
        PROVE  LockInv'
    <2>1. cam' = Nobody /\ fb' = {}
      BY <1>0, <1>B DEF GiveBack
    <2>2. /\ \A t \in Commanders : job'[t].step \notin SnapSteps
          /\ \A r \in Recorders : rec'[r].step \notin GrabSteps
          /\ stream'.step # "send"
      BY <1>0, <1>B
    <2>3. Nobody \notin Commanders /\ Nobody \notin Recorders /\ Nobody # Stream
      BY TaskAssumption
    <2> QED BY <2>1, <2>2, <2>3 DEF LockInv
  <1>1. CASE Reset
    <2>1. /\ cam' = Nobody /\ fb' = {} /\ stream' = Idle
          /\ \A t \in Commanders : job'[t] = Idle
          /\ \A r \in Recorders : rec'[r] = Idle
      BY <1>1 DEF Reset
    <2>2. Nobody \notin Commanders /\ Nobody \notin Recorders /\ Nobody # Stream
      BY TaskAssumption
    <2> QED BY <1>I, <2>1, <2>2 DEF LockInv
  <1>2. CASE RadioBus \/ PhotoDelete \/ UNCHANGED vars
    BY <1>Q, <1>2 DEF RadioBus, PhotoDelete, locks, vars
  <1>3. CASE Server81
    <2>0. UNCHANGED <<job, rec>> /\ Stream \in Tasks
      BY <1>3 DEF Server81, StreamOpen, StreamGrab, StreamNull, JpgBusy, StreamSent, Tasks
    <2>1. CASE StreamOpen \/ StreamNull \/ JpgBusy
      <3>1. UNCHANGED <<cam, fb>>
        BY <2>1 DEF StreamOpen, StreamNull, JpgBusy, locks
      <3>2. stream'.step # "send" /\ stream.step # "send"
        <4>1. CASE StreamOpen
          BY <4>1, <1>I DEF StreamOpen
        <4>2. CASE JpgBusy
          BY <4>2, <1>I DEF JpgBusy
        <4>3. CASE StreamNull
          <5>1. stream \in Requests
            BY <4>3 DEF StreamNull, TypeOK, Idle
          <5>2. [stream EXCEPT !.nulls = @ + 1].step = stream.step
            BY <5>1 DEF Requests
          <5> QED BY <1>I, <4>3, <5>2 DEF StreamNull
        <4> QED BY <2>1, <4>1, <4>2, <4>3
      <3> QED BY <1>Q, <2>0, <3>1, <3>2
    <2>2. CASE StreamGrab
      <3>1. Grab(Stream)
        BY <2>2 DEF StreamGrab
      <3>2. stream'.step = "send"
        <4>1. stream \in Requests
          BY <2>2 DEF StreamGrab, TypeOK, Idle
        <4> QED BY <2>2, <4>1 DEF StreamGrab, Requests
      <3>3. Stream \notin Commanders /\ Stream \notin Recorders
        BY TaskAssumption
      <3> QED BY <1>G, <2>0, <3>1, <3>2, <3>3
    <2>3. CASE StreamSent
      <3>1. stream \in Requests /\ GiveBack(Stream) /\ cam = Stream
        BY <1>0, <2>3 DEF StreamSent, TypeOK, Idle
      <3>2. [stream EXCEPT !.step = "wait"].step = "wait"
        BY <3>1 DEF Requests
      <3>3. stream'.step # "send"
        BY <1>I, <2>3, <3>2 DEF StreamSent
      <3>4. Stream \notin Commanders /\ Stream \notin Recorders
        BY TaskAssumption
      <3> QED BY <1>B, <2>0, <3>1, <3>3, <3>4
    <2> QED BY <1>3, <2>1, <2>2, <2>3 DEF Server81
  <1>4. ASSUME NEW t \in Commanders, Snap(t) PROVE LockInv'
    <2>0. UNCHANGED <<rec, stream>> /\ t \in Tasks /\ t \notin Recorders /\ t # Stream
      BY <1>4, TaskAssumption DEF Snap, SnapGrab, SnapBus, SnapWrite, SnapEnd, Tasks
    <2>1. CASE SnapGrab(t)
      <3>1. Grab(t) /\ Goto(t, "snap") /\ "snap" \in JobSteps
        BY <2>1 DEF SnapGrab, JobSteps
      <3>2. job'[t].step \in SnapSteps /\ \A u \in Commanders : u # t => job'[u] = job[u]
        BY <3>1, JobMoved DEF SnapSteps
      <3> QED BY <1>G, <2>0, <3>1, <3>2
    <2>2. CASE SnapBus(t) \/ SnapWrite(t)
      <3>1. /\ UNCHANGED <<cam, fb>> /\ job[t].step \in SnapSteps
            /\ \E s \in SnapSteps : Goto(t, s) /\ s \in JobSteps
        BY <2>2 DEF SnapBus, SnapWrite, SnapSteps, JobSteps
      <3>2. job'[t].step \in SnapSteps /\ \A u \in Commanders : u # t => job'[u] = job[u]
        BY <3>1, JobMoved
      <3> QED BY <1>Q, <2>0, <3>1, <3>2
    <2>3. CASE SnapEnd(t)
      <3>1. GiveBack(t) /\ Goto(t, "idle") /\ "idle" \in JobSteps /\ job[t].step \in SnapSteps
        BY <2>3 DEF SnapEnd, JobSteps, SnapSteps
      <3>2. job'[t].step \notin SnapSteps /\ \A u \in Commanders : u # t => job'[u] = job[u]
        BY <3>1, JobMoved DEF SnapSteps
      <3>3. cam = t
        BY <1>0, <3>1
      <3> QED BY <1>B, <2>0, <3>1, <3>2, <3>3
    <2> QED BY <1>4, <2>1, <2>2, <2>3 DEF Snap
  <1>5. ASSUME NEW t \in Commanders, Record(t) PROVE LockInv'
    <2>1. UNCHANGED <<cam, fb, stream>>
      BY <1>5 DEF Record, RecordCheck, RecordNumber, RecordStart, RecordSpawn, locks
    <2>2. \A u \in Commanders : job'[u].step \in SnapSteps <=> job[u].step \in SnapSteps
      <3>0. job[t].step \notin SnapSteps
        BY <1>5, <1>I DEF Record, RecordCheck, RecordNumber, RecordStart, RecordSpawn, MayStart,
                          SnapSteps
      <3>1. CASE RecordNumber(t)
        BY <3>0, <3>1 DEF RecordNumber, TypeOK, SnapSteps
      <3>2. CASE RecordCheck(t) \/ RecordStart(t) \/ RecordSpawn(t)
        <4>1. \E s \in {"number", "spawn", "idle"} : Goto(t, s) /\ s \in JobSteps
          BY <3>2 DEF RecordCheck, RecordStart, RecordSpawn, JobSteps
        <4>2. job'[t].step \in {"number", "spawn", "idle"}
          BY <4>1, JobMoved
        <4>3. \A u \in Commanders : u # t => job'[u] = job[u]
          BY <4>1, JobMoved
        <4>4. job'[t].step \notin SnapSteps
          BY <4>2 DEF SnapSteps
        <4> QED BY <3>0, <4>3, <4>4
      <3> QED BY <1>5, <3>1, <3>2 DEF Record
    <2>3. \A r \in Recorders : rec'[r].step \in GrabSteps <=> rec[r].step \in GrabSteps
      <3>1. \/ rec' = rec
            \/ \E r \in Recorders : /\ rec[r] = Idle
                                    /\ rec' = [rec EXCEPT ![r] = [step |-> "begin"]]
        BY <1>5 DEF Record, RecordCheck, RecordNumber, RecordStart, RecordSpawn
      <3> QED BY <1>I, <3>1 DEF TypeOK, GrabSteps
    <2> QED BY <1>Q, <2>1, <2>2, <2>3
  <1>6. ASSUME NEW t \in Commanders, Stop(t) PROVE LockInv'
    BY <1>Q, <1>6 DEF Stop, locks
  <1>7. ASSUME NEW r \in Recorders, Recorder(r) PROVE LockInv'
    <2>0. UNCHANGED <<job, stream>> /\ r \in Tasks /\ r \notin Commanders /\ r # Stream
      BY <1>7, TaskAssumption DEF Recorder, RecBegin, RecOpen, RecLoop, RecDeadline, RecGrab, RecBus,
                                  RecWrite, RecFinal, Tasks
    <2>E. ASSUME Ended(r), UNCHANGED <<cam, fb>>, rec[r].step \notin GrabSteps PROVE LockInv'
      <3>1. rec'[r] = Idle /\ \A q \in Recorders : q # r => rec'[q] = rec[q]
        BY <2>E, RecEnded
      <3> QED BY <1>I, <1>Q, <2>0, <2>E, <3>1
    <2>S. ASSUME NEW s \in WorkSteps, rec[r].step \in WorkSteps, Step(r, s)
          PROVE  rec'[r].step = s /\ \A q \in Recorders : q # r => rec'[q] = rec[q]
      BY <2>S, RecMoved
    <2>M. ASSUME rec[r].step \in WorkSteps \ GrabSteps, UNCHANGED <<cam, fb>>,
                 \E s \in {"loop", "final", "grab"} : Step(r, s)
          PROVE  LockInv'
      <3>1. PICK s \in {"loop", "final", "grab"} : Step(r, s)
        BY <2>M
      <3>2. rec'[r].step = s /\ \A q \in Recorders : q # r => rec'[q] = rec[q]
        BY <2>M, <2>S, <3>1 DEF WorkSteps
      <3>3. rec'[r].step \notin GrabSteps
        BY <3>2 DEF GrabSteps
      <3> QED BY <1>Q, <2>0, <2>M, <3>2, <3>3
    <2>1. CASE RecBegin(r)
      BY <1>Q, <2>0, <2>1 DEF RecBegin, locks, TypeOK, GrabSteps
    <2>2. CASE RecOpen(r)
      BY <2>2, <2>E, <2>M DEF RecOpen, locks, WorkSteps, GrabSteps
    <2>3. CASE RecLoop(r) \/ RecDeadline(r)
      BY <2>3, <2>M DEF RecLoop, RecDeadline, locks, WorkSteps, GrabSteps
    <2>4. CASE RecGrab(r)
      <3>1. CASE Grab(r) /\ Step(r, "bus")
        <4>1. rec'[r].step \in GrabSteps /\ \A q \in Recorders : q # r => rec'[q] = rec[q]
          BY <2>4, <2>S, <3>1 DEF RecGrab, WorkSteps, GrabSteps
        <4> QED BY <1>G, <2>0, <3>1, <4>1
      <3>2. CASE Step(r, "loop") /\ UNCHANGED <<cam, fb>>
        BY <2>4, <2>M, <3>2 DEF RecGrab, WorkSteps, GrabSteps
      <3> QED BY <2>4, <3>1, <3>2 DEF RecGrab
    <2>5. CASE RecBus(r)
      <3>0. rec[r].step \in WorkSteps /\ rec[r].step \in GrabSteps /\ cam = r
        BY <1>0, <2>5 DEF RecBus, WorkSteps, GrabSteps
      <3>1. CASE Step(r, "write") /\ UNCHANGED <<cam, fb>>
        <4>1. rec'[r].step \in GrabSteps /\ \A q \in Recorders : q # r => rec'[q] = rec[q]
          BY <2>S, <3>0, <3>1 DEF WorkSteps, GrabSteps
        <4> QED BY <1>Q, <2>0, <3>0, <3>1, <4>1
      <3>2. CASE GiveBack(r) /\ Step(r, "loop")
        <4>1. rec'[r].step = "loop" /\ \A q \in Recorders : q # r => rec'[q] = rec[q]
          BY <2>S, <3>0, <3>2 DEF WorkSteps
        <4>2. rec'[r].step \notin GrabSteps
          BY <4>1 DEF GrabSteps
        <4> QED BY <1>B, <2>0, <3>0, <3>2, <4>1, <4>2
      <3> QED BY <2>5, <3>1, <3>2 DEF RecBus
    <2>6. CASE RecWrite(r)
      <3>0. GiveBack(r) /\ cam = r
        BY <1>0, <2>6 DEF RecWrite, GrabSteps
      <3>1. rec'[r].step = "loop" /\ \A q \in Recorders : q # r => rec'[q] = rec[q]
        BY <2>6, FrameWritten DEF RecWrite
      <3>2. rec'[r].step \notin GrabSteps
        BY <3>1 DEF GrabSteps
      <3> QED BY <1>B, <2>0, <3>0, <3>1, <3>2
    <2>7. CASE RecFinal(r)
      BY <2>7, <2>E DEF RecFinal, locks, GrabSteps
    <2> QED BY <1>7, <2>1, <2>2, <2>3, <2>4, <2>5, <2>6, <2>7 DEF Recorder
  <1> QED BY <1>1, <1>2, <1>3, <1>4, <1>5, <1>6, <1>7 DEF Next

\* A frame buffer is out only with the task that holds the sensor, and no task holds the
\* sensor outside the steps that work on a frame: on every path through snap, recTask,
\* streamHandler and jpgHandler, time-outs of the bus included, and whether or not
\* commands overlap.
THEOREM FramesReturned == Spec => []BuffersReturned
  <1>1. Init => LockInv
    BY TaskAssumption DEF Init, LockInv, Idle, SnapSteps, GrabSteps
  <1>2. LockInv => BuffersReturned
    BY DEF LockInv, BuffersReturned, SnapSteps, GrabSteps
  <1> QED BY <1>1, <1>2, LockStep, TypeCorrect, PTL DEF Spec

-----------------------------------------------------------------------------
(* One recording *)

\* When commands do not overlap, a task that executes one is the only one that does.
LEMMA CommandAlone ==
  ASSUME ~Overlap, RecInv, NEW t \in Commanders, MayStart(t) \/ job[t] # Idle
  PROVE  \A u \in Commanders : u # t => job[u] = Idle
  BY DEF RecInv, MayStart

\* A recorder at work is the only one, the flag shows it, and no command is about to
\* start another.
LEMMA RecorderAlone ==
  ASSUME RecInv, NEW r \in Recorders, rec[r] # Idle
  PROVE  /\ \A q \in Recorders : q # r => rec[q] = Idle
         /\ recActive
         /\ \A t \in Commanders : job[t].step \notin {"number", "start", "spawn"}
  BY DEF RecInv

\* Every step keeps commands and recordings apart.
LEMMA RecStep == ~Overlap /\ TypeOK /\ RecInv /\ [Next]_vars => RecInv'
  <1> SUFFICES ASSUME ~Overlap, TypeOK, RecInv, [Next]_vars PROVE RecInv'
    OBVIOUS
  <1>I. Idle.step = "idle"
    BY DEF Idle
  <1>T. ASSUME NEW t \in Commanders, MayStart(t) \/ job[t] # Idle,
               \A u \in Commanders : u # t => job'[u] = job[u],
               \A r, q \in Recorders : rec'[r] # Idle /\ rec'[q] # Idle => r = q,
               \A r \in Recorders : rec'[r] # Idle => recActive',
               job'[t].step \in {"number", "start"} => ~recActive',
               job'[t].step = "spawn" => recActive' /\ \A r \in Recorders : rec'[r] = Idle
        PROVE  RecInv'
    <2>1. \A u \in Commanders : u # t => job'[u] = Idle
      BY <1>T, CommandAlone
    <2>2. \A u \in Commanders : u # t => job'[u].step = "idle"
      BY <1>I, <2>1
    <2> QED BY <1>T, <2>1, <2>2 DEF RecInv
  <1>Q. ASSUME UNCHANGED <<job, rec, recActive>> PROVE RecInv'
    BY <1>Q DEF RecInv
  <1>1. CASE Reset
    <2>1. /\ \A t \in Commanders : job'[t] = Idle
          /\ \A r \in Recorders : rec'[r] = Idle
      BY <1>1 DEF Reset
    <2> QED BY <1>I, <2>1 DEF RecInv
  <1>2. CASE RadioBus \/ PhotoDelete \/ Server81 \/ UNCHANGED vars
    BY <1>2, <1>Q DEF RadioBus, PhotoDelete, Server81, StreamOpen, StreamGrab, StreamNull, JpgBusy,
                      StreamSent, flags, vars
  <1>3. ASSUME NEW t \in Commanders, Snap(t) PROVE RecInv'
    <2>1. /\ UNCHANGED <<rec, recActive>>
          /\ MayStart(t) \/ job[t].step # "idle"
          /\ \E s \in {"snap", "snapWrite", "snapEnd", "idle"} : Goto(t, s) /\ s \in JobSteps
      BY <1>3 DEF Snap, SnapGrab, SnapBus, SnapWrite, SnapEnd, flags, JobSteps
    <2>2. job'[t].step \in {"snap", "snapWrite", "snapEnd", "idle"}
      BY <2>1, JobMoved
    <2>3. \A u \in Commanders : u # t => job'[u] = job[u]
      BY <2>1, JobMoved
    <2>4. /\ \A r, q \in Recorders : rec'[r] # Idle /\ rec'[q] # Idle => r = q
          /\ \A r \in Recorders : rec'[r] # Idle => recActive'
      BY <2>1 DEF RecInv
    <2>5. MayStart(t) \/ job[t] # Idle
      BY <1>I, <2>1
    <2> QED BY <1>T, <2>2, <2>3, <2>4, <2>5
  <1>4. ASSUME NEW t \in Commanders, Record(t) PROVE RecInv'
    <2>1. MayStart(t) \/ job[t] # Idle
      BY <1>4, <1>I DEF Record, RecordCheck, RecordNumber, RecordStart, RecordSpawn
    <2>2. CASE RecordCheck(t)
      <3>1. job'[t].step = "number" /\ \A u \in Commanders : u # t => job'[u] = job[u]
        BY <2>2, JobMoved DEF RecordCheck, JobSteps
      <3>2. UNCHANGED <<rec, recActive>> /\ ~recActive
        BY <2>2 DEF RecordCheck, flags
      <3>3. \A r \in Recorders : rec'[r] = Idle
        BY <3>2 DEF RecInv
      <3> QED BY <1>T, <2>1, <3>1, <3>2, <3>3
    <2>3. CASE RecordNumber(t)
      <3>1. job'[t].step = "start" /\ \A u \in Commanders : u # t => job'[u] = job[u]
        BY <2>3 DEF RecordNumber, TypeOK
      <3>2. UNCHANGED <<rec, recActive>> /\ ~recActive
        BY <2>3 DEF RecordNumber, flags, RecInv
      <3>3. \A r \in Recorders : rec'[r] = Idle
        BY <3>2 DEF RecInv
      <3> QED BY <1>T, <2>1, <3>1, <3>2, <3>3
    <2>4. CASE RecordStart(t)
      <3>1. job'[t].step = "spawn" /\ \A u \in Commanders : u # t => job'[u] = job[u]
        BY <2>4, JobMoved DEF RecordStart, JobSteps
      <3>2. UNCHANGED rec /\ recActive' /\ ~recActive
        BY <2>4 DEF RecordStart, RecInv
      <3>3. \A r \in Recorders : rec'[r] = Idle
        BY <3>2 DEF RecInv
      <3> QED BY <1>T, <2>1, <3>1, <3>2, <3>3
    <2>5. CASE RecordSpawn(t)
      <3>1. job'[t].step = "idle" /\ \A u \in Commanders : u # t => job'[u] = job[u]
        BY <2>5, JobMoved DEF RecordSpawn, JobSteps
      <3>2. recActive /\ \A r \in Recorders : rec[r] = Idle
        BY <2>5 DEF RecordSpawn, RecInv
      <3>3. CASE UNCHANGED rec
        BY <1>T, <2>1, <3>1, <3>2, <3>3
      <3>4. ASSUME NEW r \in Recorders, rec' = [rec EXCEPT ![r] = [step |-> "begin"]],
                   UNCHANGED recActive
            PROVE  RecInv'
        <4>1. \A q \in Recorders : q # r => rec'[q] = Idle
          BY <3>2, <3>4 DEF TypeOK
        <4> QED BY <1>T, <2>1, <3>1, <3>2, <3>4, <4>1
      <3> QED BY <2>5, <3>3, <3>4 DEF RecordSpawn
    <2> QED BY <1>4, <2>2, <2>3, <2>4, <2>5 DEF Record
  <1>5. ASSUME NEW t \in Commanders, Stop(t) PROVE RecInv'
    BY <1>5, <1>Q DEF Stop
  <1>6. ASSUME NEW r \in Recorders, Recorder(r) PROVE RecInv'
    <2>1. UNCHANGED job /\ rec[r] # Idle
      BY <1>6, <1>I DEF Recorder, RecBegin, RecOpen, RecLoop, RecDeadline, RecGrab, RecBus, RecWrite,
                        RecFinal
    <2>2. /\ \A q \in Recorders : q # r => rec[q] = Idle
          /\ recActive
          /\ \A t \in Commanders : job'[t].step \notin {"number", "start", "spawn"}
      BY <2>1, RecorderAlone
    <2>3. /\ \A q \in Recorders : q # r => rec'[q] = rec[q]
          /\ rec'[r] = Idle \/ UNCHANGED recActive
      <3>1. CASE RecBegin(r)
        BY <3>1 DEF RecBegin, flags, TypeOK
      <3>2. CASE RecWrite(r)
        BY <3>2, FrameWritten DEF RecWrite, flags
      <3>3. CASE Ended(r)
        BY <3>3, RecEnded
      <3>4. CASE /\ rec[r].step \in WorkSteps /\ UNCHANGED recActive
                 /\ \E s \in WorkSteps : Step(r, s)
        BY <3>4, RecMoved
      <3> QED BY <1>6, <3>1, <3>2, <3>3, <3>4
              DEF Recorder, RecOpen, RecLoop, RecDeadline, RecGrab, RecBus, RecFinal, WorkSteps, flags
    <2>4. \A t, u \in Commanders : job'[t] # Idle /\ job'[u] # Idle => t = u
      BY <2>1 DEF RecInv
    <2>5. \A q \in Recorders : rec'[q] # Idle => q = r /\ recActive'
      BY <2>2, <2>3
    <2> QED BY <2>2, <2>4, <2>5 DEF RecInv
  <1> QED BY <1>1, <1>2, <1>3, <1>4, <1>5, <1>6 DEF Next

\* Nothing runs at power-on.
LEMMA InitRec == Init => RecInv
  <1> SUFFICES ASSUME Init PROVE RecInv
    OBVIOUS
  <1>1. /\ \A t \in Commanders : job[t] = Idle /\ job[t].step = "idle"
        /\ \A r \in Recorders : rec[r] = Idle
    BY DEF Init, Idle
  <1> QED BY <1>1 DEF RecInv

\* When commands do not overlap, at most one recorder is at work: the flag is set
\* before its task exists and cleared after its file is closed, and recordStart looks
\* at it before it takes a number.
THEOREM OneRecording == ~Overlap => (Spec => []OneRecorder)
  <1> SUFFICES ASSUME ~Overlap PROVE Spec => []OneRecorder
    OBVIOUS
  <1>1. RecInv => OneRecorder
    <2> SUFFICES ASSUME RecInv PROVE OneRecorder
      OBVIOUS
    <2> DEFINE S == {r \in Recorders : rec[r] # Idle}
    <2>1. CASE S = {}
      BY <2>1, FS_EmptySet DEF OneRecorder
    <2>2. CASE S # {}
      <3>1. PICK r \in Recorders : r \in S
        BY <2>2
      <3>2. S = {r}
        BY <3>1 DEF RecInv
      <3> QED BY <3>2, FS_Singleton DEF OneRecorder
    <2> QED BY <2>1, <2>2
  <1>2. TypeOK /\ RecInv /\ [Next]_vars => RecInv'
    BY RecStep
  <1> QED BY <1>1, <1>2, InitRec, TypeCorrect, PTL DEF Spec
-----------------------------------------------------------------------------
(* Numbers *)

\* Every step keeps the next numbers above those on the card, and the number of the
\* recording in hand off the card until its file is created.
LEMMA NumberedStep ==
  ASSUME ~Overlap, TypeOK, RecInv, Numbered, [Next]_vars, ~Reset
  PROVE  Numbered'
  <1>I. Idle.step = "idle"
    BY DEF Idle
  <1>N. /\ \A n \in Numbers(img) \cup Numbers(vid) : n \in Nat
        /\ nextIdx \in Nat /\ nextVid \in Nat /\ recIdx \in Nat
    BY DEF TypeOK
  <1>Q. ASSUME UNCHANGED <<nextIdx, nextVid, recIdx>>,
               Numbers(img') \subseteq Numbers(img), Numbers(vid') \subseteq Numbers(vid),
               \A t \in Commanders : job'[t] = job[t] \/ job'[t].step \notin {"start", "spawn"},
               \A r \in Recorders : rec'[r] = rec[r] \/ rec'[r].step \notin {"begin", "open"}
        PROVE  Numbered'
    BY <1>Q DEF Numbered
  <1>M. ASSUME NEW t \in Commanders, UNCHANGED <<nextIdx, nextVid, recIdx, rec>>,
               Numbers(img') \subseteq Numbers(img), Numbers(vid') \subseteq Numbers(vid),
               NEW s \in JobSteps \ {"spawn"}, Goto(t, s)
        PROVE  Numbered'
    <2>1. job'[t].step = s /\ \A u \in Commanders : u # t => job'[u] = job[u]
      BY <1>M, JobMoved
    <2>2. job'[t].step \notin {"start", "spawn"}
      BY <2>1 DEF JobSteps
    <2> QED BY <1>M, <1>Q, <2>1, <2>2
  <1>2. CASE PhotoDelete
    <2>1. UNCHANGED <<nextIdx, nextVid, recIdx, job, rec>>
      BY <1>2 DEF PhotoDelete, flags
    <2>2. Numbers(img') \subseteq Numbers(img) /\ Numbers(vid') \subseteq Numbers(vid)
      BY <1>2, WithoutFacts DEF PhotoDelete
    <2> QED BY <1>Q, <2>1, <2>2
  <1>3. CASE RadioBus \/ Server81 \/ UNCHANGED vars
    BY <1>3, <1>Q DEF RadioBus, Server81, StreamOpen, StreamGrab, StreamNull, JpgBusy,
                      StreamSent, flags, card, vars
  <1>4. ASSUME NEW t \in Commanders, SnapGrab(t) \/ SnapBus(t) \/ SnapEnd(t) \/ RecordCheck(t)
        PROVE  Numbered'
    <2>1. UNCHANGED <<nextIdx, nextVid, recIdx, rec, img, vid>>
      BY <1>4 DEF SnapGrab, SnapBus, SnapEnd, RecordCheck, card, flags
    <2>2. \E s \in JobSteps \ {"spawn"} : Goto(t, s)
      BY <1>4 DEF SnapGrab, SnapBus, SnapEnd, RecordCheck, JobSteps
    <2> QED BY <1>M, <2>1, <2>2
  <1>5. ASSUME NEW t \in Commanders, SnapWrite(t) PROVE Numbered'
    <2>1. UNCHANGED <<nextVid, recIdx, rec, vid>> /\ Goto(t, "snapEnd")
      BY <1>5 DEF SnapWrite, flags
    <2>2. CASE UNCHANGED nextIdx /\ (img' = img \/ img' = Without(img, nextIdx))
      <3>1. Numbers(img') \subseteq Numbers(img)
        BY <2>2, WithoutFacts
      <3>2. "snapEnd" \in JobSteps \ {"spawn"}
        BY DEF JobSteps
      <3> QED BY <1>M, <2>1, <2>2, <3>1, <3>2
    <2>3. ASSUME NEW n \in FrameLens, img' = With(img, nextIdx, n), nextIdx' = nextIdx + 1
          PROVE  Numbered'
      <3>1. Numbers(img') = Numbers(img) \cup {nextIdx}
        BY <2>3, WithFacts
      <3>2. \A m \in Numbers(img') : m < nextIdx'
        BY <1>N, <2>3, <3>1 DEF Numbered
      <3>3. job'[t].step = "snapEnd" /\ \A u \in Commanders : u # t => job'[u] = job[u]
        BY <2>1, JobMoved DEF JobSteps
      <3> QED BY <2>1, <3>2, <3>3 DEF Numbered
    <2> QED BY <1>5, <2>2, <2>3 DEF SnapWrite
  <1>6. ASSUME NEW t \in Commanders, RecordNumber(t) PROVE Numbered'
    <2>1. UNCHANGED <<nextIdx, nextVid, recIdx, rec, img, vid>>
      BY <1>6 DEF RecordNumber, card, flags
    <2>2. /\ job'[t].step = "start" /\ job'[t].n = nextVid
          /\ \A u \in Commanders : u # t => job'[u] = job[u]
      BY <1>6 DEF RecordNumber, TypeOK
    <2> QED BY <2>1, <2>2 DEF Numbered
  <1>7. ASSUME NEW t \in Commanders, RecordStart(t) PROVE Numbered'
    <2>1. /\ UNCHANGED <<nextIdx, rec, img, vid>> /\ job[t].n = nextVid
          /\ recIdx' = nextVid /\ nextVid' = nextVid + 1
      BY <1>7 DEF RecordStart, Numbered, card
    <2>2. /\ job'[t].step = "spawn" /\ \A u \in Commanders : u # t => job'[u] = job[u]
      BY <1>7, JobMoved DEF RecordStart, JobSteps
    <2>3. \A u \in Commanders : u # t => job[u] = Idle
      BY <1>7, <1>I, CommandAlone DEF RecordStart
    <2>4. \A r \in Recorders : rec[r] = Idle
      BY <1>7 DEF RecordStart, RecInv
    <2>5. recIdx' < nextVid' /\ recIdx' \notin Numbers(vid)
      BY <1>N, <2>1 DEF Numbered
    <2>6. \A n \in Numbers(vid) : n < nextVid'
      BY <1>N, <2>1 DEF Numbered
    <2> QED BY <1>I, <2>1, <2>2, <2>3, <2>4, <2>5, <2>6 DEF Numbered
  <1>8. ASSUME NEW t \in Commanders, RecordSpawn(t) PROVE Numbered'
    <2>1. UNCHANGED <<nextIdx, nextVid, recIdx, img, vid>>
      BY <1>8 DEF RecordSpawn, card
    <2>2. /\ job'[t].step = "idle" /\ \A u \in Commanders : u # t => job'[u] = job[u]
      BY <1>8, JobMoved DEF RecordSpawn, JobSteps
    <2>3. recIdx < nextVid /\ recIdx \notin Numbers(vid)
      BY <1>8 DEF RecordSpawn, Numbered
    <2>4. \A r \in Recorders : rec'[r] = rec[r] \/ rec'[r].step = "begin"
      BY <1>8 DEF RecordSpawn, TypeOK
    <2> QED BY <2>1, <2>2, <2>3, <2>4 DEF Numbered
  <1>9. ASSUME NEW t \in Commanders, Stop(t) PROVE Numbered'
    BY <1>9, <1>Q DEF Stop, card
  <1>10. ASSUME NEW r \in Recorders, Recorder(r) PROVE Numbered'
    <2>0. UNCHANGED <<nextIdx, nextVid, recIdx, img, job>>
      BY <1>10 DEF Recorder, RecBegin, RecOpen, RecLoop, RecDeadline, RecGrab, RecBus, RecWrite,
                   RecFinal, card, flags
    <2>E. ASSUME Ended(r), Numbers(vid') \subseteq Numbers(vid) PROVE Numbered'
      <3>1. rec'[r].step = "idle" /\ \A q \in Recorders : q # r => rec'[q] = rec[q]
        BY <1>I, <2>E, RecEnded
      <3> QED BY <1>Q, <2>0, <2>E, <3>1
    <2>S. ASSUME rec[r].step \in WorkSteps, NEW s \in WorkSteps \ {"open"}, Step(r, s), UNCHANGED vid
          PROVE  Numbered'
      <3>1. rec'[r].step = s /\ \A q \in Recorders : q # r => rec'[q] = rec[q]
        BY <2>S, RecMoved
      <3>2. rec'[r].step \notin {"begin", "open"}
        BY <3>1 DEF WorkSteps
      <3> QED BY <1>Q, <2>0, <2>S, <3>1, <3>2
    <2>1. CASE RecBegin(r)
      <3>1. /\ rec'[r].step = "open" /\ rec'[r].n = recIdx /\ vid' = vid
            /\ \A q \in Recorders : q # r => rec'[q] = rec[q]
        BY <2>1 DEF RecBegin, card, TypeOK
      <3>2. recIdx < nextVid /\ recIdx \notin Numbers(vid)
        BY <2>1 DEF RecBegin, Numbered
      <3> QED BY <2>0, <3>1, <3>2 DEF Numbered
    <2>2. CASE RecOpen(r)
      <3>1. CASE Ended(r) /\ UNCHANGED vid
        BY <2>E, <3>1
      <3>2. CASE vid' = With(vid, rec[r].n, NewVideo) /\ Step(r, "loop")
        <4>1. rec'[r].step = "loop" /\ \A q \in Recorders : q # r => rec'[q] = rec[q]
          BY <2>2, <3>2, RecMoved DEF RecOpen, WorkSteps
        <4>2. rec[r] # Idle
          BY <1>I, <2>2 DEF RecOpen
        <4>3. /\ \A q \in Recorders : q # r => rec'[q] = Idle
              /\ \A t \in Commanders : job[t].step \notin {"number", "start", "spawn"}
          BY <4>1, <4>2, RecorderAlone
        <4>4. Numbers(vid') = Numbers(vid) \cup {rec[r].n}
          BY <3>2, WithFacts
        <4>5. rec[r].n < nextVid
          BY <2>2 DEF RecOpen, Numbered
        <4> QED BY <1>I, <2>0, <4>1, <4>3, <4>4, <4>5 DEF Numbered
      <3> QED BY <2>2, <3>1, <3>2 DEF RecOpen
    <2>3. CASE RecLoop(r) \/ RecDeadline(r) \/ RecGrab(r) \/ RecBus(r)
      <3>1. UNCHANGED vid /\ rec[r].step \in WorkSteps
        BY <2>3 DEF RecLoop, RecDeadline, RecGrab, RecBus, card, WorkSteps
      <3>2. \E s \in WorkSteps \ {"open"} : Step(r, s)
        BY <2>3 DEF RecLoop, RecDeadline, RecGrab, RecBus, WorkSteps
      <3> QED BY <2>S, <3>1, <3>2
    <2>4. CASE RecWrite(r)
      <3>1. /\ rec'[r].step = "loop" /\ Numbers(vid') = Numbers(vid)
            /\ \A q \in Recorders : q # r => rec'[q] = rec[q]
        BY <2>4, FrameWritten DEF RecWrite
      <3> QED BY <1>Q, <2>0, <3>1
    <2>5. CASE RecFinal(r)
      <3> DEFINE k == rec[r].n
      <3>1. \/ vid' = vid \/ vid' = Without(vid, k)
            \/ \E all \in BOOLEAN : Update(k, Seal(vid[k], rec[r].frames, rec[r].movi, all))
        BY <2>5 DEF RecFinal
      <3>2. Numbers(vid') \subseteq Numbers(vid)
        BY <3>1, WithoutFacts, UpdateFacts
      <3> QED BY <2>5, <2>E, <3>2 DEF RecFinal
    <2> QED BY <1>10, <2>1, <2>2, <2>3, <2>4, <2>5 DEF Recorder
  <1> QED BY <1>2, <1>3, <1>4, <1>5, <1>6, <1>7, <1>8, <1>9, <1>10 DEF Next, Snap, Record

\* The card is mounted at a restart only.
LEMMA MountKept ==
  ASSUME [Next]_vars, ~Reset
  PROVE  UNCHANGED sd
  <1>1. CASE RadioBus \/ PhotoDelete \/ Server81 \/ UNCHANGED vars
    BY <1>1 DEF RadioBus, PhotoDelete, Server81, StreamOpen, StreamGrab, StreamNull, JpgBusy,
                StreamSent, vars
  <1>2. ASSUME NEW t \in Commanders, Snap(t) \/ Stop(t) PROVE UNCHANGED sd
    BY <1>2 DEF Snap, SnapGrab, SnapBus, SnapWrite, SnapEnd, Stop
  <1>3. ASSUME NEW t \in Commanders, Record(t) PROVE UNCHANGED sd
    BY <1>3 DEF Record, RecordCheck, RecordNumber, RecordStart, RecordSpawn
  <1>4. ASSUME NEW r \in Recorders, Recorder(r) PROVE UNCHANGED sd
    BY <1>4 DEF Recorder, RecBegin, RecOpen, RecLoop, RecDeadline, RecGrab, RecBus, RecWrite,
                RecFinal
  <1> QED BY <1>1, <1>2, <1>3, <1>4 DEF Next

\* ... and a restart that lists the whole card resumes above the highest number.
LEMMA NumberStep ==
  ~Overlap /\ TypeOK /\ CardInv /\ RecInv /\ NumberInv /\ [Next]_vars => NumberInv'
  <1> SUFFICES ASSUME ~Overlap, TypeOK, CardInv, RecInv, NumberInv, [Next]_vars, sd' = "listed"
               PROVE  Numbered'
    BY DEF NumberInv
  <1>1. CASE Reset
    <2>1. /\ \A t \in Commanders : job'[t].step = "idle"
          /\ \A r \in Recorders : rec'[r].step = "idle"
          /\ img' = img /\ vid' = vid
      BY <1>1 DEF Reset, card, Idle
    <2>2. nextIdx' = NextNumber(Numbers(img)) /\ nextVid' = NextNumber(Numbers(vid))
      BY <1>1 DEF Reset, beginStorage
    <2>3. Numbers(img) \in SUBSET Nat /\ Numbers(vid) \in SUBSET Nat
      BY DEF TypeOK
    <2>4. /\ \A n \in Numbers(img) : n < NextNumber(Numbers(img))
          /\ \A n \in Numbers(vid) : n < NextNumber(Numbers(vid))
      BY <2>3, NumberedAbove DEF CardInv, Bounded
    <2> QED BY <2>1, <2>2, <2>4 DEF Numbered
  <1>2. CASE ~Reset
    BY <1>2, MountKept, NumberedStep DEF NumberInv
  <1> QED BY <1>1, <1>2

\* Every step keeps a device without a card from steps that write to one.
LEMMA NoCardStep == TypeOK /\ NoCardInv /\ [Next]_vars => NoCardInv'
  <1> SUFFICES ASSUME TypeOK, NoCardInv, [Next]_vars, sd' = "none"
               PROVE  /\ \A t \in Commanders :
                           job'[t].step \notin {"snapWrite", "number", "start", "spawn"}
                      /\ \A r \in Recorders : rec'[r] = Idle
    BY DEF NoCardInv
  <1>1. CASE Reset
    BY <1>1 DEF Reset, Idle
  <1>2. CASE ~Reset
    <2>0. /\ sd = "none"
          /\ \A t \in Commanders : job[t].step \notin {"snapWrite", "number", "start", "spawn"}
          /\ \A r \in Recorders : rec[r] = Idle
      BY <1>2, MountKept DEF NoCardInv
    <2>1. CASE RadioBus \/ PhotoDelete \/ Server81 \/ UNCHANGED vars
      BY <2>0, <2>1 DEF RadioBus, PhotoDelete, Server81, StreamOpen, StreamGrab, StreamNull, JpgBusy,
                        StreamSent, vars
    <2>2. ASSUME NEW t \in Commanders, Snap(t)
          PROVE  /\ UNCHANGED rec
                 /\ \A u \in Commanders :
                      job'[u].step \notin {"snapWrite", "number", "start", "spawn"}
      <3>1. \E s \in {"snap", "snapEnd", "idle"} : Goto(t, s) /\ s \in JobSteps
        BY <2>0, <2>2 DEF Snap, SnapGrab, SnapBus, SnapWrite, SnapEnd, JobSteps
      <3>2. job'[t].step \in {"snap", "snapEnd", "idle"}
        BY <3>1, JobMoved
      <3>3. \A u \in Commanders : u # t => job'[u] = job[u]
        BY <3>1, JobMoved
      <3>4. UNCHANGED rec
        BY <2>2 DEF Snap, SnapGrab, SnapBus, SnapWrite, SnapEnd
      <3> QED BY <2>0, <3>2, <3>3, <3>4
    <2>3. ASSUME NEW t \in Commanders, Record(t) PROVE FALSE
      BY <2>0, <2>3 DEF Record, RecordCheck, RecordNumber, RecordStart, RecordSpawn
    <2>4. ASSUME NEW t \in Commanders, Stop(t) PROVE UNCHANGED <<job, rec>>
      BY <2>4 DEF Stop
    <2>5. ASSUME NEW r \in Recorders, Recorder(r) PROVE FALSE
      BY <2>0, <2>5 DEF Recorder, RecBegin, RecOpen, RecLoop, RecDeadline, RecGrab, RecBus, RecWrite,
                        RecFinal, Idle
    <2> QED BY <1>2, <2>0, <2>1, <2>2, <2>3, <2>4, <2>5 DEF Next
  <1> QED BY <1>1, <1>2
-----------------------------------------------------------------------------
(* Videos *)

\* The body of Playable: what a finished video says of itself.
Plays(v) ==
  /\ v.riffSize + 8 = v.size
  /\ v.totalFrames = Len(v.chunks) /\ Len(v.idx1) = Len(v.chunks)
  /\ \A i \in 1..Len(v.chunks) :
       v.idx1[i].off + MOVI = v.chunks[i].at /\ v.idx1[i].len = v.chunks[i].len
  /\ v.chunks # <<>>
  /\ MOVI + v.moviSize + 8 + 16 * Len(v.chunks) = v.size

\* One more frame: the offset that the recorder counts is where the chunk went, the
\* header before the first one and the padding of an odd one included.
LEMMA FrameCounted ==
  ASSUME NEW v \in OpenVideos \cup SealedVideos, NEW frames \in Seq(Frames), NEW movi \in Nat,
         NEW n \in Nat, NEW at, at = IF frames = <<>> THEN v.size + HDR ELSE v.size,
         Counted(v, frames, movi)
  PROVE  Counted([v EXCEPT !.size = at + ChunkBytes(n),
                          !.chunks = Append(v.chunks, [at |-> at, len |-> n])],
                Append(frames, [off |-> movi, len |-> n]), movi + ChunkBytes(n))
  <1>0. v.size \in Nat /\ v.chunks \in Seq(Chunks) /\ ChunkBytes(n) \in Nat
    <2>1. ChunkBytes(n) \in Nat
      BY DEF ChunkBytes, Even
    <2> QED BY <2>1 DEF OpenVideos, SealedVideos
  <1>1. at \in Nat /\ at = MOVI + movi
    BY <1>0 DEF Counted, HDR, MOVI
  <1> DEFINE c == [at |-> at, len |-> n]
             f == [off |-> movi, len |-> n]
             cs == Append(v.chunks, c)
             fs == Append(frames, f)
             size == at + ChunkBytes(n)
             w == [v EXCEPT !.size = size, !.chunks = cs]
  <1>2. c \in Chunks /\ c.at = at /\ c.len = n /\ f \in Frames /\ f.off = movi /\ f.len = n
    BY <1>1 DEF Chunks, Frames
  <1> HIDE DEF c, f
  <1>3. /\ Len(cs) = Len(v.chunks) + 1 /\ cs[Len(v.chunks) + 1] = c
        /\ \A i \in 1..Len(v.chunks) : cs[i] = v.chunks[i]
    BY <1>0, <1>2, AppendProperties
  <1>4. /\ Len(fs) = Len(frames) + 1 /\ fs[Len(frames) + 1] = f /\ fs # <<>>
        /\ \A i \in 1..Len(frames) : fs[i] = frames[i]
    BY <1>2, AppendProperties
  <1>5. size = MOVI + (movi + ChunkBytes(n))
    BY <1>0, <1>1 DEF MOVI, HDR
  <1> HIDE DEF cs, fs, size
  <1>6. w.size = size /\ w.chunks = cs
    BY DEF OpenVideos, SealedVideos
  <1> HIDE DEF w
  <1>7. Len(frames) \in Nat /\ Len(frames) = Len(v.chunks)
    BY LenProperties DEF Counted
  <1>8. ASSUME NEW i \in 1..Len(fs)
        PROVE  fs[i].off + MOVI = cs[i].at /\ fs[i].len = cs[i].len
    <2>1. CASE i = Len(frames) + 1
      <3>1. fs[i] = f /\ cs[i] = c
        BY <1>3, <1>4, <1>7, <2>1
      <3>2. movi + MOVI = at
        BY <1>1 DEF MOVI, HDR
      <3> QED BY <1>2, <3>1, <3>2
    <2>2. CASE i # Len(frames) + 1
      <3>1. i \in 1..Len(frames)
        BY <1>4, <1>7, <2>2
      <3>2. fs[i] = frames[i] /\ cs[i] = v.chunks[i]
        BY <1>3, <1>4, <1>7, <3>1
      <3> QED BY <3>1, <3>2 DEF Counted
    <2> QED BY <2>1, <2>2
  <1>9. Counted(w, fs, movi + ChunkBytes(n))
    <2>1. Len(fs) = Len(w.chunks)
      BY <1>3, <1>4, <1>6, <1>7 DEF Counted
    <2> QED BY <1>4, <1>5, <1>6, <1>8, <2>1 DEF Counted
  <1> QED BY <1>9 DEF w, fs, cs, c, f, size

\* ... whether all of it reaches the file or not.
LEMMA FrameAgrees ==
  ASSUME NEW v \in Videos, NEW frames \in Seq(Frames), NEW movi \in Nat, NEW n \in Nat, NEW all,
         Agrees(v, frames, movi)
  PROVE  Agrees(Chunked(v, frames = <<>>, n, all), Append(frames, [off |-> movi, len |-> n]),
                movi + ChunkBytes(n))
  <1> DEFINE w == Chunked(v, frames = <<>>, n, all)
             fs == Append(frames, [off |-> movi, len |-> n])
             mv == movi + ChunkBytes(n)
             x == Longer(v, frames = <<>>, n)
  <1>1. ~v.sealed
    BY DEF Agrees
  <1>2. ~w.sealed /\ (w.whole => v.whole /\ w = x)
    <2>1. ~v.sealed => ~w.sealed
      BY ChunkTypes
    <2>2. w.whole => v.whole
      BY ChunkTypes
    <2>3. w.whole => w = x
      BY ChunkTypes
    <2> HIDE DEF w, x
    <2> QED BY <1>1, <2>1, <2>2, <2>3
  <1>3. v.whole => Counted(v, frames, movi) /\ v \in OpenVideos \cup SealedVideos
    BY VideoKinds DEF Agrees
  <1>4. v.whole => Counted(x, fs, mv)
    BY <1>3, FrameCounted DEF Longer
  <1> HIDE DEF w, fs, mv, x
  <1>5. Agrees(w, fs, mv)
    BY <1>2, <1>4 DEF Agrees
  <1> QED BY <1>5 DEF w, fs, mv

\* Sealing a video whose counts agree makes it playable.
LEMMA SealPlays ==
  ASSUME NEW v \in Videos, NEW frames \in Seq(Frames), NEW movi \in Nat, NEW all,
         Agrees(v, frames, movi), frames # <<>>
  PROVE  LET w == Seal(v, frames, movi, all)
         IN  w.whole => Plays(w) /\ v.whole /\ w.chunks = v.chunks
  <1> DEFINE w == Seal(v, frames, movi, all)
  <1>1. CASE ~(all /\ v.whole)
    <2>1. w = NotWhole(TRUE)
      BY <1>1 DEF Seal
    <2>2. ~NotWhole(TRUE).whole
      BY DEF NotWhole
    <2> QED BY <2>1, <2>2
  <1>2. CASE all /\ v.whole
    <2>0. v.size \in Nat /\ v.chunks \in Seq(Chunks) /\ Len(frames) \in Nat
      BY <1>2, VideoKinds, LenProperties
    <2>C. Counted(v, frames, movi)
      BY <1>2 DEF Agrees
    <2>1. Len(frames) = Len(v.chunks) /\ v.size = MOVI + movi /\ v.chunks # <<>>
      <3>1. Len(frames) # 0
        BY EmptySeq, LenProperties
      <3> QED BY <2>0, <2>C, <3>1, EmptySeq DEF Counted
    <2>2. /\ w.size = v.size + 8 + 16 * Len(frames) /\ w.chunks = v.chunks
          /\ w.riffSize = HDR + (movi - 4) + 8 + 16 * Len(frames) - 8
          /\ w.moviSize = movi /\ w.totalFrames = Len(frames) /\ w.idx1 = frames
      BY <1>2 DEF Seal
    <2> HIDE DEF w
    <2>3. w.riffSize + 8 = w.size /\ MOVI + w.moviSize + 8 + 16 * Len(w.chunks) = w.size
      BY <2>0, <2>1, <2>2 DEF MOVI, HDR
    <2>4. Plays(w)
      BY <2>1, <2>2, <2>3, <2>C DEF Plays, Counted
    <2>5. w.whole => Plays(w) /\ v.whole /\ w.chunks = v.chunks
      BY <1>2, <2>2, <2>4
    <2> QED BY <2>5 DEF w
  <1> QED BY <1>1, <1>2

\* Every step keeps what a recorder has counted in agreement with its file.
LEMMA FileStep ==
  ~Overlap /\ TypeOK /\ RecInv /\ FileInv /\ [Next]_vars => FileInv'
  <1> SUFFICES ASSUME ~Overlap, TypeOK, RecInv, FileInv, [Next]_vars PROVE FileInv'
    OBVIOUS
  <1> DEFINE FileSteps == {"loop", "grab", "bus", "write", "final"}
  <1>I. Idle.step = "idle"
    BY DEF Idle
  <1>Q. ASSUME \A n \in Numbers(vid') : n \in Numbers(vid) /\ vid'[n] = vid[n],
               \A r \in Recorders : rec'[r] = rec[r] \/ rec'[r].step \in {"idle", "begin"}
        PROVE  FileInv'
    <2> SUFFICES ASSUME NEW r \in Recorders, rec'[r] = rec[r],
                        rec'[r].step \in FileSteps \cup {"open"}
                 PROVE  /\ rec'[r].step = "open" => rec'[r].frames = <<>> /\ rec'[r].movi = 4
                        /\ rec'[r].step \in FileSteps /\ rec'[r].n \in Numbers(vid') =>
                             Agrees(vid'[rec'[r].n], rec'[r].frames, rec'[r].movi)
      BY <1>Q DEF FileInv
    <2> QED BY <1>Q DEF FileInv
  <1>1. CASE Reset
    BY <1>1, <1>I DEF Reset, FileInv
  <1>2. CASE PhotoDelete
    <2>1. UNCHANGED rec
      BY <1>2 DEF PhotoDelete
    <2>2. vid' = vid \/ \E n \in Numbers(vid) : vid' = Without(vid, n)
      BY <1>2 DEF PhotoDelete
    <2>3. \A n \in Numbers(vid') : n \in Numbers(vid) /\ vid'[n] = vid[n]
      BY <2>2, WithoutFacts
    <2> QED BY <1>Q, <2>1, <2>3
  <1>3. CASE RadioBus \/ Server81 \/ UNCHANGED vars
    BY <1>3, <1>Q DEF RadioBus, Server81, StreamOpen, StreamGrab, StreamNull, JpgBusy,
                      StreamSent, card, vars
  <1>4. ASSUME NEW t \in Commanders, Snap(t) \/ Record(t) \/ Stop(t) PROVE FileInv'
    <2>1. UNCHANGED vid
      BY <1>4 DEF Snap, SnapGrab, SnapBus, SnapWrite, SnapEnd, Record, RecordCheck, RecordNumber,
                  RecordStart, RecordSpawn, Stop, card
    <2>2. \/ rec' = rec
          \/ \E r \in Recorders : rec' = [rec EXCEPT ![r] = [step |-> "begin"]]
      BY <1>4 DEF Snap, SnapGrab, SnapBus, SnapWrite, SnapEnd, Record, RecordCheck, RecordNumber,
                  RecordStart, RecordSpawn, Stop
    <2>3. \A r \in Recorders : rec'[r] = rec[r] \/ rec'[r].step \in {"idle", "begin"}
      BY <2>2 DEF TypeOK
    <2> QED BY <1>Q, <2>1, <2>3
  <1>5. ASSUME NEW r \in Recorders, Recorder(r) PROVE FileInv'
    <2>0. \A q \in Recorders : q # r => rec[q] = Idle
      BY <1>5, <1>I, RecorderAlone DEF Recorder, RecBegin, RecOpen, RecLoop, RecDeadline, RecGrab,
                                       RecBus, RecWrite, RecFinal
    <2>R. ASSUME \A q \in Recorders : q # r => rec'[q] = rec[q],
                 rec'[r].step = "open" => rec'[r].frames = <<>> /\ rec'[r].movi = 4,
                 rec'[r].step \in FileSteps /\ rec'[r].n \in Numbers(vid') =>
                   Agrees(vid'[rec'[r].n], rec'[r].frames, rec'[r].movi)
          PROVE  FileInv'
      <3>1. \A q \in Recorders : q # r => rec'[q].step = "idle"
        BY <1>I, <2>0, <2>R
      <3> QED BY <2>R, <3>1 DEF FileInv
    <2>E. ASSUME Ended(r) PROVE FileInv'
      <3>1. rec'[r].step = "idle" /\ \A q \in Recorders : q # r => rec'[q] = rec[q]
        BY <1>I, <2>E, RecEnded
      <3> QED BY <2>R, <3>1
    <2>1. CASE RecBegin(r)
      <3>1. /\ rec'[r].step = "open" /\ rec'[r].frames = <<>> /\ rec'[r].movi = 4
            /\ \A q \in Recorders : q # r => rec'[q] = rec[q]
        BY <2>1 DEF RecBegin, TypeOK
      <3> QED BY <2>R, <3>1
    <2>2. CASE RecOpen(r)
      <3>1. CASE Ended(r)
        BY <2>E, <3>1
      <3>2. CASE vid' = With(vid, rec[r].n, NewVideo) /\ Step(r, "loop")
        <4>1. /\ rec'[r].step = "loop" /\ rec'[r].n = rec[r].n
              /\ rec'[r].frames = rec[r].frames /\ rec'[r].movi = rec[r].movi
              /\ \A q \in Recorders : q # r => rec'[q] = rec[q]
          BY <2>2, <3>2, RecMoved DEF RecOpen, WorkSteps
        <4>2. rec[r].n \in Numbers(vid') /\ vid'[rec[r].n] = NewVideo
          BY <3>2, WithFacts
        <4>3. rec[r].frames = <<>> /\ rec[r].movi = 4
          BY <2>2 DEF RecOpen, FileInv
        <4>4. Agrees(NewVideo, <<>>, 4)
          <5>1. NewVideo.size = 0 /\ NewVideo.chunks = <<>> /\ ~NewVideo.sealed
            BY DEF NewVideo
          <5> QED BY <5>1, EmptySeq DEF Agrees, Counted
        <4> QED BY <2>R, <4>1, <4>2, <4>3, <4>4
      <3> QED BY <2>2, <3>1, <3>2 DEF RecOpen
    <2>3. CASE RecLoop(r) \/ RecDeadline(r) \/ RecGrab(r) \/ RecBus(r)
      <3>1. UNCHANGED vid /\ rec[r].step \in WorkSteps /\ rec[r].step \in FileSteps
        BY <2>3 DEF RecLoop, RecDeadline, RecGrab, RecBus, card, WorkSteps
      <3>2. PICK s \in WorkSteps \ {"open"} : Step(r, s)
        BY <2>3 DEF RecLoop, RecDeadline, RecGrab, RecBus, WorkSteps
      <3>3. /\ rec'[r].step = s /\ rec'[r].n = rec[r].n
            /\ rec'[r].frames = rec[r].frames /\ rec'[r].movi = rec[r].movi
            /\ \A q \in Recorders : q # r => rec'[q] = rec[q]
        BY <3>1, <3>2, RecMoved
      <3>4. rec[r].n \in Numbers(vid) => Agrees(vid[rec[r].n], rec[r].frames, rec[r].movi)
        BY <3>1 DEF FileInv
      <3> QED BY <2>R, <3>1, <3>3, <3>4
    <2>4. CASE RecWrite(r)
      <3> DEFINE k == rec[r].n
      <3>1. PICK n \in FrameLens, all \in BOOLEAN : WriteFrame(r, n, all)
        BY <2>4 DEF RecWrite
      <3>2. k \in Numbers(vid) => Agrees(vid[k], rec[r].frames, rec[r].movi)
        BY <2>4 DEF RecWrite, FileInv
      <3> DEFINE w == Chunked(vid[k], rec[r].frames = <<>>, n, all)
                 fs == Append(rec[r].frames, [off |-> rec[r].movi, len |-> n])
                 mv == rec[r].movi + ChunkBytes(n)
      <3>3. /\ rec'[r].step = "loop" /\ rec'[r].n = k /\ rec'[r].movi = mv
            /\ rec'[r].frames = fs
            /\ \A q \in Recorders : q # r => rec'[q] = rec[q]
            /\ Numbers(vid') = Numbers(vid)
            /\ k \in Numbers(vid) => vid'[k] = w
            /\ n \in Nat
        <4>1. rec[r].step = "write"
          BY <2>4 DEF RecWrite
        <4> QED BY <3>1, <4>1, FrameWritten, ZenonT(60)
      <3>4. /\ rec[r].frames \in Seq(Frames) /\ rec[r].movi \in Nat
            /\ k \in Numbers(vid) => vid[k] \in Videos
        BY <2>4, StepKinds DEF RecWrite, TypeOK, Recs, Recordings, WorkSteps
      <3>5. k \in Numbers(vid) => Agrees(w, fs, mv)
        BY <3>2, <3>3, <3>4, FrameAgrees
      <3> HIDE DEF w, fs, mv, k
      <3> QED BY <2>R, <3>3, <3>5
    <2>5. CASE RecFinal(r)
      BY <2>5, <2>E DEF RecFinal
    <2> QED BY <1>5, <2>1, <2>2, <2>3, <2>4, <2>5 DEF Recorder
  <1> QED BY <1>1, <1>2, <1>3, <1>4, <1>5 DEF Next

\* What a step may do to a video: nothing, create it under a number not on the card, or,
\* by the recorder that has it open, write to it; and one that gets sealed plays.
LEMMA VideoStep ==
  ASSUME ~Overlap, TypeOK, RecInv, NoCardInv, NumberInv, FileInv, [Next]_vars,
         NEW m \in Numbers(vid')
  PROVE  \/ m \in Numbers(vid) /\ vid'[m] = vid[m]
         \/ (sd = "blind" \/ m \notin Numbers(vid)) /\ ~vid'[m].sealed
         \/ /\ m \in Numbers(vid) /\ ~vid[m].sealed /\ Writing(m)
            /\ vid'[m].whole => vid[m].whole /\ Len(vid'[m].chunks) >= Len(vid[m].chunks)
            /\ vid'[m].sealed /\ vid'[m].whole => Plays(vid'[m])
  <1> DEFINE Kept == m \in Numbers(vid) /\ vid'[m] = vid[m]
             Created == (sd = "blind" \/ m \notin Numbers(vid)) /\ ~vid'[m].sealed
             Rewritten ==
               /\ m \in Numbers(vid) /\ ~vid[m].sealed /\ Writing(m)
               /\ vid'[m].whole => vid[m].whole /\ Len(vid'[m].chunks) >= Len(vid[m].chunks)
               /\ vid'[m].sealed /\ vid'[m].whole => Plays(vid'[m])
  <1> SUFFICES Kept \/ Created \/ Rewritten
    OBVIOUS
  <1>Q. CASE UNCHANGED vid
    BY <1>Q
  <1>1. CASE PhotoDelete
    BY <1>1, <1>Q, WithoutFacts DEF PhotoDelete
  <1>2. CASE Reset \/ RadioBus \/ Server81 \/ UNCHANGED vars
    BY <1>2, <1>Q DEF Reset, RadioBus, Server81, StreamOpen, StreamGrab, StreamNull, JpgBusy,
                      StreamSent, card, vars
  <1>3. ASSUME NEW t \in Commanders, Snap(t) \/ Record(t) \/ Stop(t) PROVE UNCHANGED vid
    BY <1>3 DEF Snap, SnapGrab, SnapBus, SnapWrite, SnapEnd, Record, RecordCheck, RecordNumber,
                RecordStart, RecordSpawn, Stop, card
  <1>4. ASSUME NEW r \in Recorders, Recorder(r) PROVE Kept \/ Created \/ Rewritten
    <2> DEFINE k == rec[r].n
    <2>1. CASE RecBegin(r) \/ RecLoop(r) \/ RecDeadline(r) \/ RecGrab(r) \/ RecBus(r)
      BY <1>Q, <2>1 DEF RecBegin, RecLoop, RecDeadline, RecGrab, RecBus, card
    <2>2. CASE RecOpen(r)
      <3>1. CASE vid' = With(vid, k, NewVideo)
        <4>1. sd = "blind" \/ k \notin Numbers(vid)
          <5>1. sd # "none"
            BY <2>2 DEF RecOpen, NoCardInv, Idle
          <5>2. sd = "listed" => k \notin Numbers(vid)
            BY <2>2 DEF RecOpen, NumberInv, Numbered
          <5> QED BY <5>1, <5>2 DEF TypeOK
        <4>2. /\ Numbers(vid') = Numbers(vid) \cup {k} /\ vid'[k] = NewVideo
              /\ \A i \in Numbers(vid) : i # k => vid'[i] = vid[i]
          BY <3>1, WithFacts
        <4>3. ~NewVideo.sealed
          BY NewVideoType
        <4> QED BY <4>1, <4>2, <4>3
      <3> QED BY <1>Q, <2>2, <3>1 DEF RecOpen
    <2>3. CASE RecWrite(r) \/ RecFinal(r)
      <3>0. rec[r].step \in {"write", "final"}
        BY <2>3 DEF RecWrite, RecFinal
      <3>1. k \in Numbers(vid) => Agrees(vid[k], rec[r].frames, rec[r].movi) /\ Writing(k)
        BY <3>0 DEF FileInv, Writing
      <3>2. /\ rec[r].frames \in Seq(Frames) /\ rec[r].movi \in Nat
            /\ k \in Numbers(vid) => vid[k] \in Videos
        BY <3>0, StepKinds DEF TypeOK, Recs, Recordings, WorkSteps
      <3>3. k \in Numbers(vid) => ~vid[k].sealed /\ (vid[k].whole => Len(vid[k].chunks) \in Nat)
        BY <3>1, <3>2, VideoKinds DEF Agrees
      <3>U. ASSUME NEW w, Update(k, w),
                   k \in Numbers(vid) =>
                     /\ w.whole => vid[k].whole /\ Len(w.chunks) >= Len(vid[k].chunks)
                     /\ w.sealed /\ w.whole => Plays(w)
            PROVE  Kept \/ Created \/ Rewritten
        <4>1. /\ Numbers(vid') = Numbers(vid)
              /\ k \in Numbers(vid) => vid'[k] = w
              /\ \A i \in Numbers(vid) : i # k => vid'[i] = vid[i]
          BY <3>U, UpdateFacts
        <4>2. CASE m = k
          BY <3>1, <3>3, <3>U, <4>1, <4>2
        <4>3. CASE m # k
          BY <4>1, <4>3
        <4> QED BY <4>2, <4>3
      <3>4. CASE RecWrite(r)
        <4>1. PICK n \in FrameLens, all \in BOOLEAN : WriteFrame(r, n, all)
          BY <3>4 DEF RecWrite
        <4> DEFINE w == Chunked(vid[k], rec[r].frames = <<>>, n, all)
        <4>2. Update(k, w) /\ n \in Nat
          BY <4>1, ConstAssumption DEF WriteFrame
        <4>3. k \in Numbers(vid) =>
                /\ w.whole => vid[k].whole /\ Len(w.chunks) = Len(vid[k].chunks) + 1
                /\ ~w.sealed
          <5> SUFFICES ASSUME k \in Numbers(vid)
                       PROVE  /\ w.whole => /\ vid[k].whole
                                            /\ Len(w.chunks) = Len(vid[k].chunks) + 1
                              /\ ~w.sealed
            OBVIOUS
          <5>1. vid[k] \in Videos /\ ~vid[k].sealed /\ n \in Nat
            BY <3>2, <3>3, <4>2
          <5>2. ~vid[k].sealed => ~w.sealed
            BY <5>1, ChunkTypes
          <5>3. w.whole => vid[k].whole
            BY <5>1, ChunkTypes
          <5>4. w.whole => Len(w.chunks) = Len(vid[k].chunks) + 1
            <6> DEFINE Bare(v, first) ==
                         Chunked(v, first, n, all).whole =>
                           Len(Chunked(v, first, n, all).chunks) = Len(v.chunks) + 1
            <6>1. \A v \in Videos, first \in BOOLEAN : Bare(v, first)
              BY <5>1, ChunkTypes
            <6>2. (rec[r].frames = <<>>) \in BOOLEAN
              OBVIOUS
            <6>3. Bare(vid[k], rec[r].frames = <<>>)
              <7> HIDE DEF Bare
              <7> QED BY <5>1, <6>1, <6>2, Zenon
            <6> QED BY <6>3
          <5> HIDE DEF w
          <5> QED BY <5>1, <5>2, <5>3, <5>4
        <4> HIDE DEF w
        <4>4. k \in Numbers(vid) /\ w.whole => Len(w.chunks) >= Len(vid[k].chunks)
          BY <3>3, <4>3
        <4> QED BY <3>U, <4>2, <4>3, <4>4
      <3>5. CASE RecFinal(r)
        <4>1. \/ vid' = vid \/ vid' = Without(vid, k)
              \/ /\ rec[r].frames # <<>>
                 /\ \E all \in BOOLEAN : Update(k, Seal(vid[k], rec[r].frames, rec[r].movi, all))
          BY <3>5 DEF RecFinal
        <4>2. CASE vid' = Without(vid, k)
          BY <4>2, WithoutFacts
        <4>3. ASSUME rec[r].frames # <<>>, NEW all \in BOOLEAN,
                     Update(k, Seal(vid[k], rec[r].frames, rec[r].movi, all))
              PROVE  Kept \/ Created \/ Rewritten
          <5> DEFINE w == Seal(vid[k], rec[r].frames, rec[r].movi, all)
          <5>1. k \in Numbers(vid) =>
                  (w.whole => Plays(w) /\ vid[k].whole /\ w.chunks = vid[k].chunks)
            BY <3>1, <3>2, <4>3, SealPlays
          <5>2. Update(k, w)
            BY <4>3
          <5> HIDE DEF w
          <5>3. k \in Numbers(vid) /\ w.whole => Len(w.chunks) >= Len(vid[k].chunks)
            BY <3>3, <5>1
          <5> QED BY <3>U, <5>1, <5>2, <5>3
        <4> QED BY <1>Q, <4>1, <4>2, <4>3
      <3> QED BY <2>3, <3>4, <3>5
    <2> QED BY <1>4, <2>1, <2>2, <2>3 DEF Recorder
  <1> QED BY <1>Q, <1>1, <1>2, <1>3, <1>4 DEF Next

\* A picture on a card that was listed is never replaced by another.
LEMMA PictureStep ==
  ASSUME TypeOK, NoCardInv, NumberInv, sd # "blind", [Next]_vars,
         NEW m \in Numbers(img) \cap Numbers(img')
  PROVE  img'[m] = img[m]
  <1>1. CASE PhotoDelete
    BY <1>1, WithoutFacts DEF PhotoDelete
  <1>2. CASE Reset \/ RadioBus \/ Server81 \/ UNCHANGED vars
    BY <1>2 DEF Reset, RadioBus, Server81, StreamOpen, StreamGrab, StreamNull, JpgBusy, StreamSent,
                card, vars
  <1>3. ASSUME NEW t \in Commanders, SnapWrite(t) PROVE img'[m] = img[m]
    <2>0. sd = "listed"
      BY <1>3 DEF SnapWrite, NoCardInv, TypeOK
    <2>1. m # nextIdx
      BY <2>0 DEF NumberInv, Numbered, TypeOK
    <2>2. \/ img' = img \/ img' = Without(img, nextIdx)
          \/ \E n \in FrameLens : img' = With(img, nextIdx, n)
      BY <1>3 DEF SnapWrite
    <2> QED BY <2>1, <2>2, WithFacts, WithoutFacts
  <1>4. ASSUME NEW t \in Commanders,
               SnapGrab(t) \/ SnapBus(t) \/ SnapEnd(t) \/ Record(t) \/ Stop(t)
        PROVE  img'[m] = img[m]
    BY <1>4 DEF SnapGrab, SnapBus, SnapEnd, Record, RecordCheck, RecordNumber, RecordStart,
                RecordSpawn, Stop, card
  <1>5. ASSUME NEW r \in Recorders, Recorder(r) PROVE img'[m] = img[m]
    BY <1>5 DEF Recorder, RecBegin, RecOpen, RecLoop, RecDeadline, RecGrab, RecBus, RecWrite,
                RecFinal, card
  <1> QED BY <1>1, <1>2, <1>3, <1>4, <1>5 DEF Next, Snap

\* The strengthening under which everything about the card is inductive.
CameraInv == TypeOK /\ CardInv /\ RecInv /\ NoCardInv /\ NumberInv /\ FileInv

\* It holds throughout when commands do not overlap.
LEMMA CameraInvariant == ~Overlap => (Spec => []CameraInv)
  <1> SUFFICES ASSUME ~Overlap PROVE Spec => []CameraInv
    OBVIOUS
  <1>1. Init => CameraInv
    <2> SUFFICES ASSUME Init PROVE NoCardInv /\ NumberInv /\ FileInv
      BY InitTypes, InitRec DEF CameraInv
    <2>1. Numbers(img) = {} /\ Numbers(vid) = {}
      BY DEF Init, Numbers
    <2>2. /\ \A t \in Commanders : job[t].step = "idle"
          /\ \A r \in Recorders : rec[r] = Idle /\ rec[r].step = "idle"
      BY DEF Init, Idle
    <2> QED BY <2>1, <2>2 DEF NoCardInv, NumberInv, Numbered, FileInv
  <1>2. CameraInv /\ [Next]_vars => CameraInv'
    <2> SUFFICES ASSUME CameraInv, [Next]_vars PROVE CameraInv'
      OBVIOUS
    <2>1. TaskTypes' /\ CardTypes'
      BY TaskTypeStep, CardTypeStep DEF CameraInv
    <2>2. TypeOK' /\ CardInv'
      BY <2>1 DEF TypeOK, TaskTypes, CardTypes, Jobs, Recs
    <2>3. RecInv' /\ NoCardInv' /\ NumberInv' /\ FileInv'
      BY RecStep, NoCardStep, NumberStep, FileStep DEF CameraInv
    <2> QED BY <2>2, <2>3 DEF CameraInv
  <1> QED BY <1>1, <1>2, PTL DEF Spec

\* When commands do not overlap, every finished video to which no write fell short describes
\* itself, at every restart too: recTask counts what it writes and never reads it back, and
\* the counts agree with the file at every step of the recording, unless it is deleted.
THEOREM VideosPlay == ~Overlap => (Spec => []Playable)
  <1> SUFFICES ASSUME ~Overlap PROVE Spec => []Playable
    OBVIOUS
  <1>1. Init => Playable
    BY DEF Init, Playable, Numbers
  <1>2. Playable /\ CameraInv /\ [Next]_vars => Playable'
    <2> SUFFICES ASSUME Playable, CameraInv, [Next]_vars, NEW m \in Numbers(vid'),
                        vid'[m].sealed, vid'[m].whole
                 PROVE  Plays(vid'[m])
      BY DEF Playable, Plays
    <2>1. CASE m \in Numbers(vid) /\ vid'[m] = vid[m]
      BY <2>1 DEF Playable, Plays
    <2>2. CASE ~(m \in Numbers(vid) /\ vid'[m] = vid[m])
      BY <2>2, VideoStep DEF CameraInv
    <2> QED BY <2>1, <2>2
  <1> QED BY <1>1, <1>2, CameraInvariant, PTL DEF Spec

\* When commands do not overlap, no file on the card is overwritten as long as the last
\* restart saw every file when it listed the card: a picture never changes, a video only
\* while its own recorder has it open, and then it grows.
THEOREM FilesKept == ~Overlap => (Spec => NeverOverwritten)
  <1> SUFFICES ASSUME ~Overlap PROVE Spec => NeverOverwritten
    OBVIOUS
  <1> DEFINE A == sd # "blind" =>
                    /\ \A n \in Numbers(img) \cap Numbers(img') : img'[n] = img[n]
                    /\ \A n \in Numbers(vid) \cap Numbers(vid') :
                         vid'[n] # vid[n] =>
                           /\ ~vid[n].sealed /\ Writing(n)
                           /\ vid'[n].whole =>
                                vid[n].whole /\ Len(vid'[n].chunks) >= Len(vid[n].chunks)
  <1>1. CameraInv /\ [Next]_vars => A
    <2> SUFFICES ASSUME CameraInv, [Next]_vars, sd # "blind" PROVE A
      OBVIOUS
    <2>1. \A n \in Numbers(img) \cap Numbers(img') : img'[n] = img[n]
      BY PictureStep DEF CameraInv
    <2>2. ASSUME NEW n \in Numbers(vid) \cap Numbers(vid'), vid'[n] # vid[n]
          PROVE  /\ ~vid[n].sealed /\ Writing(n)
                 /\ vid'[n].whole =>
                      vid[n].whole /\ Len(vid'[n].chunks) >= Len(vid[n].chunks)
      BY <2>2, VideoStep DEF CameraInv
    <2> QED BY <2>1, <2>2
  <1>2. CameraInv /\ [Next]_vars => [A]_vars
    BY <1>1
  <1> HIDE DEF A
  <1>3. Spec => [][A]_vars
    BY <1>2, CameraInvariant, PTL DEF Spec
  <1> QED BY <1>3 DEF NeverOverwritten, A
=============================================================================
