------------------------------- MODULE Camera -------------------------------
(***************************************************************************)
(* The camera, its microSD card and their users (CameraNode.cpp,           *)
(* CamStream.cpp, executeCommand in CamC2.cpp, the Photos pages in         *)
(* CamPortal.cpp).  Commands come from a radio task and from the portal    *)
(* task; a recording runs in a task of its own, the live stream in the     *)
(* task of the :81 server.  One mutex guards the sensor, another the SPI   *)
(* bus that the card shares with the radios; both are taken with a         *)
(* time-out.  Power may fail at any point; only the card survives.         *)
(* The card may be missing, and the listing that the numbering resumes     *)
(* from may miss files.  A frame is its length.  A video file is its       *)
(* length, the chunks written to it and, once finalized, what its header   *)
(* and index say of them; after a short write it is not whole any more,    *)
(* and what it holds is not followed further.                              *)
(***************************************************************************)
EXTENDS Integers, Sequences, FiniteSets, FiniteSetsExt

CONSTANTS
  Commanders,     \* tasks that execute commands: a radio task, the portal task
  Portal,         \* the portal task
  Recorders,      \* instances of recTask
  Stream,         \* the task of the :81 server
  Radio,          \* the radio drivers, as users of the bus
  Nobody,         \* owner of a free mutex
  FrameLens,      \* lengths of JPEG frames
  REC_MAX_FRAMES, \* frames of one video
  NULL_STREAK,    \* failed grabs in a row after which a stream ends
  Overlap,        \* two tasks may execute a command at the same time
  MaxOrders,      \* bound on the pictures and recordings ordered
  MaxBoots        \* bound on restarts

ASSUME ConstAssumption ==
  /\ Portal \in Commanders
  /\ FrameLens \subseteq Nat /\ REC_MAX_FRAMES \in Nat \ {0}
  /\ NULL_STREAK \in Nat \ {0} /\ MaxOrders \in Nat /\ MaxBoots \in Nat
  /\ Overlap \in BOOLEAN

\* The tasks are different tasks.
ASSUME TaskAssumption ==
  /\ Commanders \cap Recorders = {}
  /\ Stream \notin Commanders \cup Recorders
  /\ {Radio, Nobody} \cap (Commanders \cup Recorders \cup {Stream}) = {}
  /\ Radio # Nobody

VARIABLES
  cam,        \* s_camMutex: its owner
  bus,        \* spiMutex: its owner
  fb,         \* tasks that hold a frame buffer of the driver
  img, vid,   \* the card: IMG_<n>.jpg and VID_<n>.avi, by number
  sd,         \* "none": ~s_sdOk; "listed", "blind": mounted, its listing complete or not
  nextIdx, nextVid,              \* s_nextIdx, s_nextVid
  recActive, recStop, recIdx,    \* s_recActive, s_recStop, s_recIdx
  job,        \* what each commander is doing
  rec,        \* what each recorder is doing
  stream,     \* what the :81 server is doing
  boots, orders

vars == <<cam, bus, fb, img, vid, sd, nextIdx, nextVid, recActive, recStop, recIdx,
          job, rec, stream, boots, orders>>
locks == <<cam, bus, fb>>
card  == <<img, vid>>
flags == <<nextVid, recActive, recStop, recIdx>>

HDR == 224      \* bytes of the AVI header; the 'movi' fourcc is its last four
MOVI == HDR - 4

Idle == [step |-> "idle"]
NewVideo == [size |-> 0, chunks |-> <<>>, sealed |-> FALSE, whole |-> TRUE]
NotWhole(sealed) == [sealed |-> sealed, whole |-> FALSE]
Numbers(files) == DOMAIN files
Without(f, n) == [m \in DOMAIN f \ {n} |-> f[m]]
With(f, n, x) == [m \in DOMAIN f \cup {n} |-> IF m = n THEN x ELSE f[m]]
NextNumber(S) == Max({0} \cup S) + 1

-----------------------------------------------------------------------------
Init ==
  /\ cam = Nobody /\ bus = Nobody /\ fb = {}
  /\ img = <<>> /\ vid = <<>>
  /\ sd \in {"none", "listed"}
  /\ nextIdx = 1 /\ nextVid = 1
  /\ recActive = FALSE /\ recStop = FALSE /\ recIdx = 0
  /\ job = [t \in Commanders |-> Idle]
  /\ rec = [r \in Recorders |-> Idle]
  /\ stream = Idle
  /\ boots = 0 /\ orders = 0

\* Mutant of beginStorage: numbering starts again at 1.
beginStorageFromOne == sd' = "listed" /\ nextIdx' = 1 /\ nextVid' = 1

\* The card is not mounted (busy bus, no card), and the numbers stay at 1; or it is, and
\* the numbering resumes above the highest number listed.  The directory may not open, or
\* its listing may end early: the card is in use all the same.
beginStorage ==
  \/ sd' = "none" /\ nextIdx' = 1 /\ nextVid' = 1
  \/ \E I \in SUBSET Numbers(img), V \in SUBSET Numbers(vid) :
       /\ nextIdx' = NextNumber(I) /\ nextVid' = NextNumber(V)
       /\ sd' = IF I = Numbers(img) /\ V = Numbers(vid) THEN "listed" ELSE "blind"

\* Power loss or restart: only the card survives.
Reset ==
  /\ boots < MaxBoots /\ boots' = boots + 1
  /\ cam' = Nobody /\ bus' = Nobody /\ fb' = {}
  /\ beginStorage
  /\ recActive' = FALSE /\ recStop' = FALSE /\ recIdx' = 0
  /\ job' = [t \in Commanders |-> Idle]
  /\ rec' = [r \in Recorders |-> Idle]
  /\ stream' = Idle
  /\ UNCHANGED <<card, orders>>

-----------------------------------------------------------------------------
(* The two mutexes *)

\* lockCamera succeeds and esp_camera_fb_get returns a frame.
Grab(t) == cam = Nobody /\ cam' = t /\ fb' = fb \cup {t}

\* Mutant of GiveBack: the frame buffer is not returned to the driver.
GiveBackNoReturn(t) == cam' = Nobody /\ UNCHANGED fb

\* esp_camera_fb_return, then unlockCamera.
GiveBack(t) == cam' = Nobody /\ fb' = fb \ {t}

TakeBus(t) == bus = Nobody /\ bus' = t
FreeBus(t) == bus = t /\ bus' = Nobody

\* busLock times out while another task holds the bus.
BusBusy(t) == bus \notin {Nobody, t} /\ UNCHANGED bus

\* A radio driver talks to its chip.
RadioBus ==
  /\ TakeBus(Radio) \/ FreeBus(Radio)
  /\ UNCHANGED <<cam, fb, card, nextIdx, flags, job, rec, stream, sd, boots, orders>>

-----------------------------------------------------------------------------
(* Commands: executeCommand, on a radio task or on the portal task *)

Order == orders < MaxOrders /\ orders' = orders + 1

MayStart(t) ==
  job[t] = Idle /\ (Overlap \/ \A u \in Commanders : job[u] = Idle)

Goto(t, s) == job' = [job EXCEPT ![t] = [step |-> s]]

\* snap(): the sensor is locked and gives a frame.  (If not, the command fails and
\* nothing has changed.)
SnapGrab(t) ==
  /\ MayStart(t) /\ Order /\ Grab(t)
  /\ Goto(t, "snap")
  /\ UNCHANGED <<bus, card, nextIdx, flags, rec, stream, sd, boots>>

SnapBus(t) ==
  /\ job[t].step = "snap"
  /\ \/ sd # "none" /\ TakeBus(t) /\ Goto(t, "snapWrite")
     \/ /\ BusBusy(t) \/ (sd = "none" /\ UNCHANGED bus)
        /\ Goto(t, "snapEnd")                   \* the picture stays in PSRAM
  /\ UNCHANGED <<cam, fb, card, nextIdx, flags, rec, stream, sd, boots, orders>>

\* The picture is written and its number used up; or the file cannot be opened; or
\* the write is short and the stub is removed.
SnapWrite(t) ==
  /\ job[t].step = "snapWrite"
  /\ \/ /\ \E n \in FrameLens : img' = With(img, nextIdx, n)
        /\ nextIdx' = nextIdx + 1
     \/ UNCHANGED <<img, nextIdx>>
     \/ img' = Without(img, nextIdx) /\ UNCHANGED nextIdx
  /\ FreeBus(t) /\ Goto(t, "snapEnd")
  /\ UNCHANGED <<cam, fb, vid, flags, rec, stream, sd, boots, orders>>

SnapEnd(t) ==
  /\ job[t].step = "snapEnd"
  /\ GiveBack(t) /\ Goto(t, "idle")
  /\ UNCHANGED <<bus, card, nextIdx, flags, rec, stream, sd, boots, orders>>

\* recordStart: there is a card and no recording is active (the answer is BUSY
\* otherwise).
RecordCheck(t) ==
  /\ MayStart(t) /\ sd # "none" /\ ~recActive /\ Order
  /\ Goto(t, "number")
  /\ UNCHANGED <<locks, card, nextIdx, flags, rec, stream, sd, boots>>

\* s_nextVid++ reads the number ...
RecordNumber(t) ==
  /\ job[t].step = "number"
  /\ job' = [job EXCEPT ![t] = [step |-> "start", n |-> nextVid]]
  /\ UNCHANGED <<locks, card, nextIdx, flags, rec, stream, sd, boots, orders>>

\* Mutant of RecordStart: the recording is not marked active until it has a file.
RecordStartLate(t) ==
  /\ job[t].step = "start"
  /\ recIdx' = job[t].n /\ nextVid' = job[t].n + 1
  /\ recStop' = FALSE
  /\ Goto(t, "spawn")
  /\ UNCHANGED <<locks, card, nextIdx, recActive, rec, stream, sd, boots, orders>>

\* ... and stores it; then the flags are set.
RecordStart(t) ==
  /\ job[t].step = "start"
  /\ recIdx' = job[t].n /\ nextVid' = job[t].n + 1
  /\ recStop' = FALSE /\ recActive' = TRUE
  /\ Goto(t, "spawn")
  /\ UNCHANGED <<locks, card, nextIdx, rec, stream, sd, boots, orders>>

\* The recorder task is created, or cannot be.
RecordSpawn(t) ==
  /\ job[t].step = "spawn"
  /\ \/ /\ \E r \in Recorders :
             rec[r] = Idle /\ rec' = [rec EXCEPT ![r] = [step |-> "begin"]]
        /\ UNCHANGED recActive
     \/ recActive' = FALSE /\ UNCHANGED rec
  /\ Goto(t, "idle")
  /\ UNCHANGED <<locks, card, nextIdx, nextVid, recStop, recIdx, stream, sd, boots,
                 orders>>

\* CMD_STOP: recordStop if a recording is active.
Stop(t) ==
  /\ MayStart(t) /\ recActive /\ ~recStop
  /\ recStop' = TRUE
  /\ UNCHANGED <<locks, card, nextIdx, nextVid, recActive, recIdx, job, rec, stream,
                 sd, boots, orders>>

\* A recorder has VID_<n> open.
Writing(n) == \E r \in Recorders : rec[r].step \notin {"idle", "begin"} /\ rec[r].n = n

\* photoDelete, from the Photos page: any file, the video being recorded included.
PhotoDelete ==
  /\ MayStart(Portal) /\ sd # "none" /\ bus = Nobody
  /\ \/ \E n \in Numbers(img) : img' = Without(img, n) /\ UNCHANGED vid
     \/ \E n \in Numbers(vid) : vid' = Without(vid, n) /\ UNCHANGED img
  /\ UNCHANGED <<locks, nextIdx, flags, job, rec, stream, sd, boots, orders>>

-----------------------------------------------------------------------------
(* The recorder: recTask *)

Step(r, s) == rec' = [rec EXCEPT ![r].step = s]
Ended(r) == rec' = [rec EXCEPT ![r] = Idle] /\ recActive' = FALSE

\* recTask takes its number from s_recIdx when it first runs.
RecBegin(r) ==
  /\ rec[r].step = "begin"
  /\ rec' = [rec EXCEPT ![r] = [step |-> "open", n |-> recIdx, frames |-> <<>>,
                                movi |-> 4]]
  /\ UNCHANGED <<locks, card, nextIdx, flags, job, stream, sd, boots, orders>>

\* The file is created (and emptied, if it exists), or the recording ends here.
RecOpen(r) ==
  /\ rec[r].step = "open"
  /\ \/ /\ bus = Nobody
        /\ vid' = With(vid, rec[r].n, NewVideo)
        /\ Step(r, "loop") /\ UNCHANGED recActive
     \/ Ended(r) /\ UNCHANGED vid
  /\ UNCHANGED <<locks, img, nextIdx, nextVid, recStop, recIdx, job, stream, sd, boots,
                 orders>>

\* Mutant of RecLoop: the stop flag is not looked at.
RecLoopNoStop(r) ==
  /\ rec[r].step = "loop"
  /\ \/ Len(rec[r].frames) = REC_MAX_FRAMES /\ Step(r, "final")
     \/ Len(rec[r].frames) < REC_MAX_FRAMES /\ Step(r, "grab")
  /\ UNCHANGED <<locks, card, nextIdx, flags, job, stream, sd, boots, orders>>

\* The head of the capture loop: stopped, full, or one more frame.
RecLoop(r) ==
  /\ rec[r].step = "loop"
  /\ IF recStop \/ Len(rec[r].frames) >= REC_MAX_FRAMES
     THEN Step(r, "final") ELSE Step(r, "grab")
  /\ UNCHANGED <<locks, card, nextIdx, flags, job, stream, sd, boots, orders>>

\* At the head of the loop, the deadline has passed.
RecDeadline(r) ==
  /\ rec[r].step = "loop"
  /\ Step(r, "final")
  /\ UNCHANGED <<locks, card, nextIdx, flags, job, stream, sd, boots, orders>>

\* A frame is taken; or the sensor is busy or gives none, and the loop goes on.
RecGrab(r) ==
  /\ rec[r].step = "grab"
  /\ \/ Grab(r) /\ Step(r, "bus")
     \/ Step(r, "loop") /\ UNCHANGED <<cam, fb>>
  /\ UNCHANGED <<bus, card, nextIdx, flags, job, stream, sd, boots, orders>>

RecBus(r) ==
  /\ rec[r].step = "bus"
  /\ \/ TakeBus(r) /\ Step(r, "write") /\ UNCHANGED <<cam, fb>>
     \/ BusBusy(r) /\ GiveBack(r) /\ Step(r, "loop")
  /\ UNCHANGED <<card, nextIdx, flags, job, stream, sd, boots, orders>>

Even(n) == n + (n % 2)
\* The bytes of a '00dc' chunk: fourcc, length, data, padding to an even length.
ChunkBytes(n) == 8 + Even(n)

\* A chunk is written to the file, after the header if it is the first; or, when all is
\* FALSE, a part of it.
Chunked(v, first, n, all) ==
  LET at == IF first THEN v.size + HDR ELSE v.size
  IN  IF all /\ v.whole
      THEN [v EXCEPT !.size = at + ChunkBytes(n),
                     !.chunks = Append(v.chunks, [at |-> at, len |-> n])]
      ELSE NotWhole(FALSE)

\* VID_<n>, open in a recorder, becomes v.  If it was deleted in the meantime, nothing on
\* the card changes.
Update(n, v) == vid' = IF n \in Numbers(vid) THEN [vid EXCEPT ![n] = v] ELSE vid

\* Mutant of WriteFrame: the padding byte is written but not counted.
WriteFrameNoPad(r, n, all) ==
  /\ Update(rec[r].n, Chunked(vid[rec[r].n], rec[r].frames = <<>>, n, all))
  /\ rec' = [rec EXCEPT ![r].frames = Append(@, [off |-> rec[r].movi, len |-> n]),
                        ![r].movi = @ + 8 + n,
                        ![r].step = "loop"]

\* The header before the first frame, then the chunk.  Results of write are not looked at:
\* moviBytes and the index in RAM count the frame whatever reached the file.
WriteFrame(r, n, all) ==
  /\ Update(rec[r].n, Chunked(vid[rec[r].n], rec[r].frames = <<>>, n, all))
  /\ rec' = [rec EXCEPT ![r].frames = Append(@, [off |-> rec[r].movi, len |-> n]),
                        ![r].movi = @ + ChunkBytes(n),
                        ![r].step = "loop"]

RecWrite(r) ==
  /\ rec[r].step = "write"
  /\ \E n \in FrameLens, all \in BOOLEAN : WriteFrame(r, n, all)
  /\ FreeBus(r) /\ GiveBack(r)
  /\ UNCHANGED <<img, nextIdx, flags, job, stream, sd, boots, orders>>

\* The finished file: the index is written and the sizes and counts are patched, or only
\* a part of them.
Seal(v, frames, movi, all) ==
  IF all /\ v.whole
  THEN [size |-> v.size + 8 + 16 * Len(frames), chunks |-> v.chunks, sealed |-> TRUE,
        whole |-> TRUE, riffSize |-> HDR + (movi - 4) + 8 + 16 * Len(frames) - 8,
        moviSize |-> movi, totalFrames |-> Len(frames), idx1 |-> frames]
  ELSE NotWhole(TRUE)

\* Finalize: an empty video is removed, another gets its index and its sizes.  If the
\* bus stays busy, the file is left as it is, without an index.
RecFinal(r) ==
  LET n == rec[r].n IN
  /\ rec[r].step = "final"
  /\ \/ /\ bus = Nobody /\ rec[r].frames = <<>>
        /\ vid' = Without(vid, n)
     \/ /\ bus = Nobody /\ rec[r].frames # <<>>
        /\ \E all \in BOOLEAN :
             Update(n, Seal(vid[n], rec[r].frames, rec[r].movi, all))
     \/ bus # Nobody /\ UNCHANGED vid
  /\ Ended(r)
  /\ UNCHANGED <<locks, img, nextIdx, nextVid, recStop, recIdx, job, stream, sd, boots,
                 orders>>

-----------------------------------------------------------------------------
(* The :81 server: streamHandler and jpgHandler, one request at a time *)

StreamOpen ==
  /\ stream = Idle
  /\ \E k \in {"stream", "jpg"} : stream' = [step |-> "wait", kind |-> k, nulls |-> 0]
  /\ UNCHANGED <<locks, card, nextIdx, flags, job, rec, sd, boots, orders>>

StreamGrab ==
  /\ stream.step = "wait" /\ Grab(Stream)
  /\ stream' = [stream EXCEPT !.step = "send", !.nulls = 0]
  /\ UNCHANGED <<bus, card, nextIdx, flags, job, rec, sd, boots, orders>>

\* The sensor gives no frame: a stream tries again a number of times.
StreamNull ==
  /\ stream.step = "wait" /\ cam = Nobody
  /\ stream' = IF stream.kind = "jpg" \/ stream.nulls + 1 >= NULL_STREAK THEN Idle
               ELSE [stream EXCEPT !.nulls = @ + 1]
  /\ UNCHANGED <<locks, card, nextIdx, flags, job, rec, sd, boots, orders>>

\* A single picture is not waited for: "camera busy".
JpgBusy ==
  /\ stream.step = "wait" /\ stream.kind = "jpg" /\ cam # Nobody
  /\ stream' = Idle
  /\ UNCHANGED <<locks, card, nextIdx, flags, job, rec, sd, boots, orders>>

\* The frame is sent with the sensor locked; the client goes on or has left.
StreamSent ==
  /\ stream.step = "send" /\ GiveBack(Stream)
  /\ \/ stream.kind = "stream" /\ stream' = [stream EXCEPT !.step = "wait"]
     \/ stream' = Idle
  /\ UNCHANGED <<bus, card, nextIdx, flags, job, rec, sd, boots, orders>>

-----------------------------------------------------------------------------
Snap(t) == SnapGrab(t) \/ SnapBus(t) \/ SnapWrite(t) \/ SnapEnd(t)
Record(t) == RecordCheck(t) \/ RecordNumber(t) \/ RecordStart(t) \/ RecordSpawn(t)
Recorder(r) ==
  \/ RecBegin(r) \/ RecOpen(r) \/ RecLoop(r) \/ RecDeadline(r)
  \/ RecGrab(r) \/ RecBus(r) \/ RecWrite(r) \/ RecFinal(r)
Server81 == StreamOpen \/ StreamGrab \/ StreamNull \/ JpgBusy \/ StreamSent

Next ==
  \/ Reset \/ RadioBus \/ PhotoDelete \/ Server81
  \/ \E t \in Commanders : Snap(t) \/ Record(t) \/ Stop(t)
  \/ \E r \in Recorders : Recorder(r)

Spec == Init /\ [][Next]_vars

\* The tasks are scheduled; a transmission and the sending of a frame end.  Nothing
\* is assumed of the deadline, which the code compares with a clock that wraps.
Fairness ==
  /\ WF_vars(RadioBus /\ bus = Radio)
  /\ WF_vars(StreamSent)
  /\ \A t \in Commanders :
       WF_vars(SnapBus(t) \/ SnapWrite(t) \/ SnapEnd(t)) /\ WF_vars(RecordSpawn(t))
  /\ \A r \in Recorders :
       /\ WF_vars(RecBegin(r) \/ RecOpen(r) \/ RecLoop(r) \/ RecFinal(r))
       /\ WF_vars(RecGrab(r) \/ RecBus(r) \/ RecWrite(r))

FairSpec == Spec /\ Fairness

-----------------------------------------------------------------------------
Tasks == Commanders \cup Recorders \cup {Stream}
Chunks == [at : Nat, len : Nat]
Frames == [off : Nat, len : Nat]
OpenVideos == [size : Nat, chunks : Seq(Chunks), sealed : {FALSE}, whole : {TRUE}]
SealedVideos == [size : Nat, chunks : Seq(Chunks), sealed : {TRUE}, whole : {TRUE},
                 riffSize : Int, moviSize : Nat, totalFrames : Nat, idx1 : Seq(Frames)]
Videos == OpenVideos \cup SealedVideos \cup {NotWhole(FALSE), NotWhole(TRUE)}
SimpleJobs == [step : {"idle", "snap", "snapWrite", "snapEnd", "number", "spawn"}]
StartJobs == [step : {"start"}, n : Nat]
Recordings == [step : {"open", "loop", "grab", "bus", "write", "final"}, n : Nat,
               frames : Seq(Frames), movi : Nat]
Requests == [step : {"wait", "send"}, kind : {"stream", "jpg"}, nulls : Nat]

TypeOK ==
  /\ cam \in Tasks \cup {Nobody} /\ bus \in Tasks \cup {Radio, Nobody} /\ fb \subseteq Tasks
  /\ \A n \in Numbers(img) : n \in Nat /\ img[n] \in FrameLens
  /\ \A n \in Numbers(vid) : n \in Nat /\ vid[n] \in Videos
  /\ nextIdx \in Nat /\ nextVid \in Nat /\ recIdx \in Nat /\ boots \in 0..MaxBoots
  /\ orders \in 0..MaxOrders
  /\ sd \in {"none", "blind", "listed"}
  /\ recActive \in BOOLEAN /\ recStop \in BOOLEAN
  /\ job \in [Commanders -> SimpleJobs \cup StartJobs]
  /\ rec \in [Recorders -> {Idle, [step |-> "begin"]} \cup Recordings]
  /\ stream \in {Idle} \cup Requests

\* A finished video describes itself: its sizes are those of the file, its index
\* points at every chunk (recTask; "every byte written is counted arithmetically"),
\* unless a write to it fell short, which recTask does not look at.
Playable ==
  \A n \in Numbers(vid) : LET v == vid[n] IN v.sealed /\ v.whole =>
    /\ v.riffSize + 8 = v.size
    /\ v.totalFrames = Len(v.chunks) /\ Len(v.idx1) = Len(v.chunks)
    /\ \A i \in 1..Len(v.chunks) :
         v.idx1[i].off + MOVI = v.chunks[i].at /\ v.idx1[i].len = v.chunks[i].len
    /\ v.chunks # <<>>
    /\ MOVI + v.moviSize + 8 + 16 * Len(v.chunks) = v.size

\* At most one recorder is at work, and each has a file of its own (recordStart;
\* "false = no card / already recording / task spawn failed").
OneRecorder == Cardinality({r \in Recorders : rec[r] # Idle}) <= 1

\* A frame buffer is out only while its task holds the sensor, and no task holds the
\* sensor outside the steps that work on a frame: every path through snap, recTask,
\* streamHandler and jpgHandler returns both, or the others would starve.
BuffersReturned ==
  /\ fb \subseteq {cam}
  /\ cam \in Commanders => job[cam].step \in {"snap", "snapWrite", "snapEnd"}
  /\ cam \in Recorders => rec[cam].step \in {"bus", "write"}
  /\ cam = Stream => stream.step = "send"

\* What is on the card is changed by its own recorder or removed, never overwritten: not
\* by a later recording, not after a restart (beginStorage, s_nextIdx, s_nextVid), as long
\* as the last restart saw every file when it listed the card.
NeverOverwritten ==
  [][sd # "blind" =>
       /\ \A n \in Numbers(img) \cap Numbers(img') : img'[n] = img[n]
       /\ \A n \in Numbers(vid) \cap Numbers(vid') :
            vid'[n] # vid[n] =>
              /\ ~vid[n].sealed /\ Writing(n)
              /\ vid'[n].whole =>
                   vid[n].whole /\ Len(vid'[n].chunks) >= Len(vid[n].chunks)]_vars

\* A recording that is told to stop ends, whatever the clock says and however busy
\* the sensor and the bus are: the flag is clear again and a new one may start.
StopEnds == (recStop /\ recActive) ~> ~recActive
=============================================================================
