------------------------------- MODULE Bridge -------------------------------
(***************************************************************************)
(* The forwarding core (ingestAndFanout and the enqueue functions of       *)
(* main.cpp): one task per radio hears packets, decodes them once, asks    *)
(* the dedup cache, and queues a repeat or a re-encoding for every other   *)
(* radio of its routing row.  The tasks share the cache and the queues, so *)
(* the steps of one hand-off interleave with the other tasks'.             *)
(*                                                                         *)
(* Around the bridge are the meshes: what has been on the air on a         *)
(* frequency may be heard again at any time (flood replays, echoes of the  *)
(* bridge's own packets, one packet heard by two radios).                  *)
(*                                                                         *)
(* The dedup cache is the set of hashes inside its window: a run is        *)
(* shorter than BRIDGE_DEDUP_TTL_MS and the table has room (module         *)
(* DedupCache is about those).  Its calls read millis() before they take   *)
(* the lock: a call is one step, or, when the task is preempted or waits   *)
(* for the lock in between, two.  To a call that read the clock earlier    *)
(* than the recorder did, an entry looks expired (the age wraps): isSeen   *)
(* misses it and insert may overwrite it.                                  *)
(* The queues neither overflow nor reorder (module RouteQueue), but a      *)
(* packet may be dropped instead of being sent.                            *)
(*                                                                         *)
(* A packet: proto, chan (hash and key of its channel), body, src, pid and *)
(* hop as in the code; body is [who, text], who being the name in front of *)
(* a MeshCore text.  For RNS, LoRaWAN and Custom the body stands for the   *)
(* raw frame.  org (the client packet it descends from), part (fragment    *)
(* number) and by ("client" or "bridge") are history.                      *)
(***************************************************************************)
EXTENDS Integers, Sequences, FiniteSets

CONSTANTS
  Plans,                 \* the bridges considered: records with the fields below
  BRIDGE_RNS_MAX_FRAGS,  \* the most texts a Reticulum frame is cut into
  MaxEmit                \* bound on packets the bridge builds

NoName == <<"noname", "">>
BridgeId == <<"bridge", "">>   \* BridgeConfig::mtNodeId()
None == <<"none", "">>         \* srcId 0
NoPid == <<"nopid", 0>>        \* pid 0

PacketFields == {"proto", "chan", "kind", "body", "src", "pid", "hop", "org", "part", "by"}

\* Radios are numbered; a row of the routing table names other radios.
ASSUME PlanAssumption ==
  /\ MaxEmit \in Nat /\ BRIDGE_RNS_MAX_FRAGS \in Nat
  /\ \A c \in Plans :
       /\ DOMAIN c.radio \subseteq Nat \ {0} /\ DOMAIN c.route = DOMAIN c.radio
       /\ \A j \in DOMAIN c.radio : c.route[j] \subseteq DOMAIN c.radio \ {j}
       /\ (\A t \in {"MT", "MC"} : c.frags[t] \in Nat) /\ c.stalls \in Nat

\* Clients send packets, on the frequencies of the radios.
ASSUME ClientAssumption ==
  \A c \in Plans : \A o \in DOMAIN c.clients :
    LET p == c.clients[o].pkt IN
    /\ DOMAIN p = PacketFields /\ DOMAIN p.body = {"who", "text"}
    /\ p.hop \in Nat /\ p.org = o /\ p.part = 0 /\ p.by = "client"
    /\ \E j \in DOMAIN c.radio : c.clients[o].freq = c.radio[j].freq

VARIABLES
  plan,      \* the configuration the bridge and its surroundings booted with
  ether,     \* frequency -> packets that have been on the air there
  seen,      \* the hashes in the dedup cache
  calls,     \* the tasks held up between millis() and the lock, in the order they read it
  late,      \* radio -> hashes stamped later than the time its call has read
  names,     \* node ids in the NodeDB
  job,       \* radio -> what its task is handing on: <<>>, or <<[pkt, at, out]>>; at is
             \* 0 until the guard has let the packet pass, then the next destination
  q,         \* radio -> outbound queue
  advertised, \* virtual nodes in the VirtualNodeMap whose NodeInfo is not due
  built,     \* packets built so far: the source of fresh packet ids and FCnts
  stalls,    \* how many calls have been held up (bounded by plan.stalls)
  lost,      \* history: recorded hashes that were overwritten since
  accepted,  \* history: packets that passed the guard
  slipped,   \* history: those whose hash had been recorded before
  dropped,   \* history: origins of the packets the guard dropped
  queued,    \* history: <<origin, radio, part>> -> how often it was queued
  virtual    \* history: <<kind, virtual node, radio>> queued

cache == <<seen, calls, late, stalls, lost>>
past == <<accepted, slipped, dropped, queued, virtual>>
vars == <<plan, ether, cache, names, job, q, advertised, built, past>>

\* The configuration is read at boot (setup) and not written while the bridge runs.
Radio == plan.radio      \* radio -> [proto, chan, freq] (g_chan and the RF plan)
Route == plan.route      \* radio -> set of destinations (g_routeMask, enabled radios)
Clients == plan.clients  \* origin -> [freq, pkt]: the packets mesh clients send
Keyed == plan.keyed      \* sources with an ABP identity: LoRaWANConfig::resolve finds one
Frags == plan.frags      \* proto -> fragments of an RNS frame tunnelled to it
CustomRepeat == plan.customRepeat   \* BRIDGE_CUSTOM_REPEAT

Radios == DOMAIN Radio
Origins == DOMAIN Clients
Parts == 0..BRIDGE_RNS_MAX_FRAGS   \* fragment numbers; 0 is not a fragment
Freqs == {Radio[j].freq : j \in Radios}

\* Mutant of Hash: the sender is not folded into the hash.
HashNoSrc(p) == <<p.body, None, NoPid>>

\* DedupCache::hash as ingestAndFanout calls it: body, src and packet id for
\* Meshtastic, content only for the others.
Hash(p) == IF p.proto = "MT" THEN <<p.body, p.src, p.pid>> ELSE <<p.body, None, NoPid>>

SameChannel(i, j) == Radio[i].proto = Radio[j].proto /\ Radio[i].chan = Radio[j].chan

-----------------------------------------------------------------------------
(* What is queued for destination j: a sequence of [pkt, rec], rec being the  *)
(* hashes recorded before the push.                                           *)

Emission(p, rec) == <<[pkt |-> p, rec |-> rec]>>

\* rawRepeatForDest: the bytes as they came, but for the relay fields of MT.
RawRepeat(p, j) ==
  IF Radio[j].proto # "MT" THEN Emission([p EXCEPT !.by = "bridge"], {})
  ELSE IF p.src = BridgeId \/ p.hop = 0 THEN <<>>
  ELSE Emission([p EXCEPT !.by = "bridge", !.hop = @ - 1], {})

\* encodeMeshtasticText, encodeMeshCoreGrpTxt
Encode(p, j, body, src, n) ==
  [p EXCEPT !.proto = Radio[j].proto, !.chan = Radio[j].chan, !.kind = "text",
            !.body = body, !.src = src, !.by = "bridge", !.hop = 1,
            !.pid = IF Radio[j].proto = "MT" THEN <<"own", n>> ELSE NoPid]

\* Mutant of Recorded: our own emission is not remembered.
RecordedNever(e) == {}

\* The hash under which an emission is remembered: body, stamped src, stamped pid.
Recorded(e) == {Hash(e)}

\* enqueueAbpUplink: FCnt n; the emission is recorded with DevAddr and FCnt.
AbpUplink(p, n) ==
  LET frame == [who |-> NoName, text |-> <<"abp", n>>]
      e == [p EXCEPT !.proto = "LW", !.chan = "lw", !.kind = "raw", !.body = frame,
                     !.src = None, !.pid = NoPid, !.by = "bridge"]
  IN  IF p.proto \in Keyed THEN Emission(e, {<<frame, <<"devaddr", "">>, <<"fcnt", n>>>>}) ELSE <<>>

\* enqueueVirtualNodeInfo: not recorded.
VirtualNodeInfo(p, j, vid, n) ==
  Emission([Encode(p, j, p.body, vid, n) EXCEPT !.kind = "nodeinfo"], {})

\* enqueueTextForDest; from is the protocol of the radio that heard the packet,
\* body the text decoded from it.
Text(p, from, body, j, n) ==
  LET to == Radio[j].proto
      plain == LET e == Encode(p, j, body, IF to = "MT" THEN BridgeId ELSE None, n)
               IN  Emission(e, Recorded(e))
      asVirtual ==
        LET vid == <<"virtual", body.who[2]>>
            e == Encode(p, j, [body EXCEPT !.who = NoName], vid, n)
        IN  (IF vid \notin advertised THEN VirtualNodeInfo(p, j, vid, n + 1) ELSE <<>>)
              \o Emission(e, Recorded(e))
      named ==
        LET who == IF p.src \in names THEN <<"short", p.src[2]>> ELSE <<"hex", p.src[2]>>
            e == Encode(p, j, [body EXCEPT !.who = who], None, n)
        IN  Emission(e, Recorded(e))
  IN CASE to = "LW" -> AbpUplink(p, n)
       [] to = "MT" -> IF from = "MC" /\ body.who # NoName THEN asVirtual ELSE plain
       [] to = "MC" -> IF from = "MT" THEN named ELSE plain
       [] OTHER -> <<>>          \* no RNS or Custom encoder

\* enqueueReticulumForDest: the frame in Frags[proto] numbered texts, unless they are
\* too many.
Fragments(p, j, n) ==
  IF Radio[j].proto \notin {"MT", "MC"} THEN <<>>
  ELSE IF Frags[Radio[j].proto] > BRIDGE_RNS_MAX_FRAGS THEN <<>>
  ELSE [k \in 1..Frags[Radio[j].proto] |->
         LET src == IF Radio[j].proto = "MT" THEN BridgeId ELSE None
             e == [Encode(p, j, [who |-> NoName, text |-> <<"frag", k, p.body.text>>],
                          src, n + k) EXCEPT !.part = k]
         IN  [pkt |-> e, rec |-> Recorded(e)]]

\* ingestAndFanout's choice for one destination.
Outputs(i, p, j, n) ==
  LET from == Radio[i].proto IN
  CASE from = "RNS" -> IF Radio[j].proto = "RNS" THEN RawRepeat(p, j)
                       ELSE Fragments(p, j, n)
    [] from = "LW" -> IF Radio[j].proto = "LW" THEN RawRepeat(p, j)
                      ELSE IF Radio[j].proto \in {"MT", "MC"}
                      THEN Text(p, "LW", [who |-> NoName, text |-> <<"summary", p.body>>],
                                j, n)
                      ELSE <<>>
    [] from = "CU" -> IF CustomRepeat
                      THEN IF SameChannel(i, j) THEN RawRepeat(p, j) ELSE <<>>
                      ELSE IF Radio[j].proto = "LW" THEN AbpUplink(p, n) ELSE <<>>
    [] OTHER -> IF SameChannel(i, j) THEN RawRepeat(p, j)
                ELSE Text(p, from, p.body, j, n)

-----------------------------------------------------------------------------
Init ==
  /\ plan \in Plans
  /\ ether = [f \in Freqs |-> {}]
  /\ seen = {} /\ calls = <<>> /\ late = [i \in Radios |-> {}]
  /\ stalls = 0 /\ lost = {}
  /\ names = {}
  /\ job = [i \in Radios |-> <<>>]
  /\ q = [j \in Radios |-> <<>>]
  /\ advertised = {} /\ built = 0
  /\ accepted = {} /\ slipped = {} /\ dropped = {} /\ virtual = {}
  /\ queued = [t \in Origins \X Radios \X Parts |-> 0]

\* A mesh client sends its packet.
ClientSends(o) ==
  /\ Clients[o].pkt \notin ether[Clients[o].freq]
  /\ ether' = [ether EXCEPT ![Clients[o].freq] = @ \cup {Clients[o].pkt}]
  /\ UNCHANGED <<plan, cache, names, job, q, advertised, built, past>>

\* A mesh node repeats a Meshtastic packet with one hop less.
Flood(f) ==
  \E p \in ether[f] :
    /\ p.proto = "MT" /\ p.hop > 0
    /\ ether' = [ether EXCEPT ![f] = @ \cup {[p EXCEPT !.hop = @ - 1]}]
    /\ UNCHANGED <<plan, cache, names, job, q, advertised, built, past>>

\* Radio i can demodulate p, and its channel key opens it.
Decodes(i, p) ==
  /\ p.proto = Radio[i].proto
  /\ p.proto \in {"MT", "MC"} => p.chan = Radio[i].chan

-----------------------------------------------------------------------------
(* The cache *)

\* Task i is between millis() and the lock, in seenAndRecord or record.
InCall(i) == \E n \in 1..Len(calls) : calls[n] = i

\* It is held up there.
HeldUp(i) ==
  /\ stalls < plan.stalls /\ stalls' = stalls + 1
  /\ calls' = Append(calls, i)
  /\ UNCHANGED <<seen, late, lost>>

\* u, which is held up, read the clock before i did (i reads it now if it is not held up).
ReadBefore(u, i) ==
  \E m \in 1..Len(calls) : calls[m] = u /\ \A n \in 1..m : calls[n] # i

\* What insert may overwrite when i's call stores the hashes hs: nothing if they have
\* their slots; else an entry that looks expired, or nothing if it was stamped in the
\* millisecond that i read.
Overwritten(i, hs) == IF hs \subseteq seen THEN {{}} ELSE {{}} \cup {{g} : g \in late[i]}

\* insert by i's call, with the time it read; ends the call, held up or not.
CacheInsert(i, hs) ==
  \E x \in Overwritten(i, hs) :
    /\ seen' = (seen \ x) \cup hs
    /\ lost' = (lost \cup x) \ hs
    /\ UNCHANGED stalls
    /\ calls' = IF InCall(i) THEN SelectSeq(calls, LAMBDA u : u # i) ELSE calls
    /\ late' = [u \in Radios |->
         IF u = i \/ ~InCall(u) THEN {}
         ELSE IF ReadBefore(u, i) THEN (late[u] \ x) \cup hs ELSE (late[u] \ x) \ hs]

-----------------------------------------------------------------------------
(* Hearing *)

\* A Meshtastic NodeInfo feeds the NodeDB and goes no further.
HearNodeInfo(i, p) ==
  /\ job[i] = <<>> /\ p.kind = "nodeinfo" /\ Decodes(i, p)
  /\ p.src # BridgeId
  /\ names' = names \cup {p.src}
  /\ UNCHANGED <<plan, ether, cache, job, q, advertised, built, past>>

\* The guard has seen p's hash: it is dropped, the entry refreshed.
HearDuplicate(i, p) ==
  /\ Hash(p) \in seen
  /\ CacheInsert(i, {Hash(p)})
  /\ dropped' = dropped \cup {p.org}
  /\ job' = [job EXCEPT ![i] = <<>>]
  /\ UNCHANGED <<plan, ether, names, q, advertised, built, accepted, slipped, queued, virtual>>

\* p passes and the fan-out begins.
Pass(i, p) ==
  /\ Hash(p) \notin seen \ late[i]
  /\ accepted' = accepted \cup {p}
  /\ slipped' = IF Hash(p) \in lost \cup late[i] THEN slipped \cup {p} ELSE slipped
  /\ job' = [job EXCEPT ![i] = <<[pkt |-> p, at |-> 1, out |-> <<>>]>>]
  /\ UNCHANGED <<plan, ether, names, q, advertised, built, dropped, queued, virtual>>

\* Mutant of HearNew: the guard looks the hash up but does not record it.
HearNewUnrecorded(i, p) == Pass(i, p) /\ CacheInsert(i, {})

\* The guard does not find the hash, or takes its entry for an expired one: it
\* records it.
HearNew(i, p) == Pass(i, p) /\ CacheInsert(i, {Hash(p)})

\* The call of the guard is held up.
HearHeldUp(i, p) ==
  /\ HeldUp(i)
  /\ job' = [job EXCEPT ![i] = <<[pkt |-> p, at |-> 0, out |-> <<>>]>>]
  /\ UNCHANGED <<plan, ether, names, q, advertised, built, past>>

\* A packet is decoded and the guard asked (seenAndRecord).
HearPacket(i, p) ==
  /\ job[i] = <<>> /\ p.kind # "nodeinfo" /\ Decodes(i, p)
  /\ HearDuplicate(i, p) \/ HearNew(i, p) \/ HearHeldUp(i, p)

Hear(i) == \E p \in ether[Radio[i].freq] : HearNodeInfo(i, p) \/ HearPacket(i, p)

\* Task i is held up in seenAndRecord.
Asking(i) == job[i] # <<>> /\ job[i][1].at = 0

\* It gets the lock.
Resume(i) ==
  /\ Asking(i)
  /\ HearDuplicate(i, job[i][1].pkt) \/ HearNew(i, job[i][1].pkt)

-----------------------------------------------------------------------------
(* Fan-out *)

\* What is left to queue for the destination in hand.
Out(i) == job[i][1].out
HandOn(i, out) ==
  job' = [job EXCEPT ![i] = <<[pkt |-> job[i][1].pkt, at |-> job[i][1].at, out |-> out]>>]

\* The fan-out loop reaches its next routed destination.  idForLabel and
\* nodeInfoDue are part of it: within the re-advertise period a virtual node's
\* NodeInfo is due once.
NextDest(i) ==
  /\ job[i] # <<>> /\ ~Asking(i) /\ Out(i) = <<>>
  /\ \E j \in Route[i] :
       LET o == Outputs(i, job[i][1].pkt, j, built + 1) IN
       /\ j >= job[i][1].at
       /\ \A k \in Route[i] : k >= job[i][1].at => j <= k
       /\ built + Len(o) <= MaxEmit
       /\ built' = built + Len(o)
       /\ advertised' = advertised \cup
            {o[k].pkt.src : k \in {m \in 1..Len(o) : o[m].pkt.kind = "nodeinfo"}}
       /\ job' = [job EXCEPT ![i] =
            <<[pkt |-> job[i][1].pkt, at |-> j + 1,
               out |-> [k \in 1..Len(o) |-> [dst |-> j, pkt |-> o[k].pkt, rec |-> o[k].rec]]]>>]
  /\ UNCHANGED <<plan, ether, cache, names, q, past>>

\* No destination is left.
FanoutDone(i) ==
  /\ job[i] # <<>> /\ ~Asking(i) /\ Out(i) = <<>>
  /\ \A j \in Route[i] : j < job[i][1].at
  /\ job' = [job EXCEPT ![i] = <<>>]
  /\ UNCHANGED <<plan, ether, cache, names, q, advertised, built, past>>

\* DedupCache::record is called before the packet is queued, and is held up.
RecordHeldUp(i) ==
  /\ job[i] # <<>> /\ Out(i) # <<>> /\ Head(Out(i)).rec # {} /\ ~InCall(i)
  /\ HeldUp(i)
  /\ UNCHANGED <<plan, ether, names, job, q, advertised, built, past>>

\* It stores the hash.
Record(i) ==
  /\ job[i] # <<>> /\ Out(i) # <<>>
  /\ LET h == Head(Out(i)) IN
       /\ h.rec # {}
       /\ CacheInsert(i, h.rec)
       /\ HandOn(i, [Out(i) EXCEPT ![1] = [dst |-> h.dst, pkt |-> h.pkt, rec |-> {}]])
  /\ UNCHANGED <<plan, ether, names, q, advertised, built, past>>

\* The encoder fails: what is left for this destination is abandoned, the
\* fragments already queued stay.
EncodeFail(i) ==
  /\ job[i] # <<>> /\ Out(i) # <<>> /\ Head(Out(i)).rec # {} /\ ~InCall(i)
  /\ HandOn(i, <<>>)
  /\ UNCHANGED <<plan, ether, cache, names, q, advertised, built, past>>

\* History of a push.
Log(p, j) ==
  /\ queued' = IF p.kind = "nodeinfo" THEN queued
               ELSE [queued EXCEPT ![<<p.org, j, p.part>>] = @ + 1]
  /\ virtual' = IF p.src[1] = "virtual" /\ p.by = "bridge"
                THEN virtual \cup {<<p.kind, p.src, j>>} ELSE virtual

\* Mutant of Push: the packet may be queued before it is recorded.
PushFirst(i) ==
  /\ job[i] # <<>> /\ Out(i) # <<>>
  /\ LET h == Head(Out(i)) IN
       /\ q' = [q EXCEPT ![h.dst] = Append(@, h.pkt)]
       /\ Log(h.pkt, h.dst)
       /\ HandOn(i, Tail(Out(i)))
  /\ UNCHANGED <<plan, ether, cache, names, advertised, built, accepted, slipped, dropped>>

\* RouteQueue::push
Push(i) ==
  /\ job[i] # <<>> /\ Out(i) # <<>>
  /\ LET h == Head(Out(i)) IN
       /\ h.rec = {}
       /\ q' = [q EXCEPT ![h.dst] = Append(@, h.pkt)]
       /\ Log(h.pkt, h.dst)
       /\ HandOn(i, Tail(Out(i)))
  /\ UNCHANGED <<plan, ether, cache, names, advertised, built, accepted, slipped, dropped>>

\* Radio j sends the oldest packet of its queue.
Transmit(j) ==
  /\ q[j] # <<>>
  /\ ether' = [ether EXCEPT ![Radio[j].freq] = @ \cup {Head(q[j])}]
  /\ q' = [q EXCEPT ![j] = Tail(@)]
  /\ UNCHANGED <<plan, cache, names, job, advertised, built, past>>

\* It expires, overflows, or its transmission fails.
Discard(j) ==
  /\ q[j] # <<>>
  /\ q' = [q EXCEPT ![j] = Tail(@)]
  /\ UNCHANGED <<plan, ether, cache, names, job, advertised, built, past>>

Task(i) ==
  \/ Hear(i) \/ Resume(i)
  \/ NextDest(i) \/ FanoutDone(i) \/ RecordHeldUp(i) \/ Record(i) \/ EncodeFail(i) \/ Push(i)

Next ==
  \/ \E o \in Origins : ClientSends(o)
  \/ \E f \in Freqs : Flood(f)
  \/ \E i \in Radios : Task(i) \/ Transmit(i) \/ Discard(i)

Spec == Init /\ [][Next]_vars

-----------------------------------------------------------------------------
TypeOK ==
  /\ plan \in Plans
  /\ DOMAIN ether = Freqs /\ DOMAIN job = Radios /\ DOMAIN q = Radios
  /\ built \in 0..MaxEmit
  /\ dropped \subseteq Origins
  /\ \A i \in Radios : Len(job[i]) <= 1
  /\ \A f \in Freqs : \A p \in ether[f] : p.hop \in Nat
  /\ queued \in [Origins \X Radios \X Parts -> Nat]

\* The messages of which a packet passed the guard although it was recorded: two calls
\* overlapped, and the later one's entry was missed or overwritten.
Slipped == {p.org : p \in slipped}

\* Whatever is heard, how often and by which radios, and however the tasks
\* interleave, no message is queued twice for the same destination
\* (ingestAndFanout's guard; record before push) unless one of its packets slipped
\* through two overlapping calls of the cache.
AtMostOnce == \A t \in DOMAIN queued : queued[t] <= 1 \/ t[1] \in Slipped

\* No message comes back to the frequency it was sent on, unless one of its packets
\* slipped: the loop that the dedup cache replaced the text marker for.
NoReturn ==
  \A o \in Origins, j \in Radios, k \in Parts :
    Radio[j].freq = Clients[o].freq => queued[<<o, j, k>>] = 0 \/ o \in Slipped

\* What the bridge itself emitted is never forwarded again when it is heard back
\* (enqueueTextForDest, enqueueReticulumForDest, rawRepeatForDest), unless its
\* entry was missed or overwritten by an overlapping call.  ABP uplinks
\* are left out: enqueueAbpUplink, too, means to "remember our own emission", but
\* records a hash that ingestAndFanout never asks for.
OwnEmissionDropped == \A p \in accepted : p.by = "client" \/ p.proto = "LW" \/ p \in slipped

\* A virtual sender is introduced on every Meshtastic destination its messages
\* go to: its NodeInfo is queued there before its first text
\* (enqueueVirtualNodeInfo: "so an MT client recognises a bridged MeshCore
\* sender as its own distinct node").
Introduced ==
  \A v \in virtual : v[1] = "text" => <<"nodeinfo", v[2], v[3]>> \in virtual

\* The guard drops nothing new: a message it drops has passed it before.
DropsOnlyDuplicates == dropped \subseteq {p.org : p \in accepted}
=============================================================================
