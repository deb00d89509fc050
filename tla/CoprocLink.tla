----------------------------- MODULE CoprocLink -----------------------------
(***************************************************************************)
(* One remote radio and the UART link to it: RemoteRadio and UartLink on   *)
(* the host (RemoteRadio.cpp, UartLink.cpp, radioTask and loop in          *)
(* main.cpp) and the co-processor firmware (coproc_main.cpp).  The two     *)
(* boards share nothing but the two directions of the wire, h2c and c2h.   *)
(* A frame is one element: a frame whose bytes are damaged fails its CRC   *)
(* and is dropped by feedByte, which is the step Damage.  Packets for the    *)
(* air are numbered in the order in which radioTask takes them from its    *)
(* route queue, received ones in the order in which the radio hears them.  *)
(* A TX_DONE frame carries no packet number; the one here is history.      *)
(***************************************************************************)
EXTENDS Integers, Sequences, FiniteSets

CONSTANTS
  RX_QUEUE_DEPTH,  \* host queue of received packets
  TX_Q_DEPTH,      \* co-processor queue of packets to send
  MaxLost,         \* bound on frames damaged on the wire
  MaxPkts,         \* bound on packets to send
  MaxRx,           \* bound on packets heard
  MaxTraffic,      \* bound on packets in both directions together
  MaxBoots         \* bound on boots of the co-processor

ASSUME DepthAssumption == RX_QUEUE_DEPTH \in Nat \ {0} /\ TX_Q_DEPTH \in Nat \ {0}
ASSUME BoundAssumption == MaxLost \in Nat /\ MaxPkts \in Nat /\ MaxRx \in Nat
                          /\ MaxTraffic \in Nat /\ MaxBoots \in Nat

VARIABLES
  h2c, c2h,   \* frames on the wire and in the UART buffers, oldest first
  \* host
  gate,       \* radioTask's transmit step: "idle", "armed", "sent", "busy" (g_txBusy)
  txDone,     \* UartLink::_txDone
  ready,      \* UartLink::_ready
  readyGen,   \* UartLink::_readyGen
  lastGen,    \* s_lastReadyGen in loop()
  rxOwed,     \* RemoteRadio::begin has sent CFG_RADIO and not yet START_RX
  rxQ,        \* RemoteRadio::_rxQueue
  sent,       \* packets radioTask has taken for this radio
  \* co-processor
  up,         \* setup() has run since power-on
  enabled,    \* g_enabled
  plan,       \* the radio's settings: "default" until a CFG_RADIO arrives
  txq,        \* g_txq
  active,     \* g_txActive, with the packet on the air: <<p>>, or <<>>
  chip,       \* packet held by the radio with its IRQ flag set, 0 for none
  heardRx,    \* packets the radio has heard
  \* history
  boots,      \* boots of the co-processor
  air,        \* packets put on the air, each with the settings in force
  done,       \* TX_DONE frames sent, by packet
  lost,       \* frames damaged on the wire
  released,   \* packets whose TX_DONE the host has handled
  got         \* received packets read by radioTask

wire == <<h2c, c2h>>
host == <<gate, txDone, ready, readyGen, lastGen, rxOwed, rxQ, sent>>
coproc == <<up, enabled, plan, txq, active, chip, heardRx>>
history == <<boots, air, done, lost, released, got>>
vars == <<wire, host, coproc, history>>

Pkts == 1..MaxPkts
Quiet == sent + heardRx < MaxTraffic
Cfg == [type |-> "CFG_RADIO", pkt |-> 0]
StartRx == [type |-> "START_RX", pkt |-> 0]
Tx(p) == [type |-> "TX", pkt |-> p]
Ready == [type |-> "READY", pkt |-> 0]
TxDone(p) == [type |-> "TX_DONE", pkt |-> p]
Rx(p) == [type |-> "RX", pkt |-> p]

\* setup() of the host has opened the link and pushed the configuration; the
\* co-processor has not booted yet.
Init ==
  /\ h2c = <<Cfg, StartRx, StartRx>> /\ c2h = <<>>
  /\ gate = "idle" /\ txDone = TRUE /\ ready = FALSE
  /\ readyGen = 0 /\ lastGen = 0 /\ rxOwed = FALSE /\ rxQ = <<>> /\ sent = 0
  /\ up = FALSE /\ enabled = FALSE /\ plan = "default" /\ txq = <<>>
  /\ active = <<>> /\ chip = 0 /\ heardRx = 0
  /\ boots = 0 /\ air = <<>> /\ done = [p \in Pkts |-> 0] /\ lost = 0
  /\ released = {} /\ got = <<>>

-----------------------------------------------------------------------------
(* The wire *)

\* A frame is damaged in one direction or the other.
Damage ==
  /\ lost < MaxLost
  /\ lost' = lost + 1
  /\ \/ h2c # <<>> /\ h2c' = Tail(h2c) /\ UNCHANGED c2h
     \/ c2h # <<>> /\ c2h' = Tail(c2h) /\ UNCHANGED h2c
  /\ UNCHANGED <<host, coproc, boots, air, done, released, got>>

\* A frame reaches a co-processor that is down.
SentInVain ==
  /\ ~up /\ h2c # <<>>
  /\ h2c' = Tail(h2c)
  /\ UNCHANGED <<c2h, host, coproc, history>>

-----------------------------------------------------------------------------
(* The host *)

\* UartLink::handleFrame, in the link's service task.
HandleFrame ==
  /\ c2h # <<>>
  /\ c2h' = Tail(c2h)
  /\ LET f == Head(c2h) IN
     \/ /\ f.type = "RX"
        /\ rxQ' = IF Len(rxQ) < RX_QUEUE_DEPTH THEN Append(rxQ, f.pkt) ELSE rxQ
        /\ UNCHANGED <<txDone, ready, readyGen, released>>
     \/ /\ f.type = "READY"
        /\ ready' = TRUE /\ readyGen' = readyGen + 1
        /\ UNCHANGED <<txDone, rxQ, released>>
     \/ /\ f.type = "TX_DONE"
        /\ txDone' = TRUE
        /\ released' = released \cup {f.pkt}
        /\ UNCHANGED <<ready, readyGen, rxQ>>
  /\ UNCHANGED <<h2c, gate, lastGen, rxOwed, sent, coproc, boots, air, done, lost, got>>

\* radioTask (B): RemoteRadio::read, then startReceive.
HostRead ==
  /\ gate = "idle" /\ rxQ # <<>>
  /\ got' = Append(got, Head(rxQ))
  /\ rxQ' = Tail(rxQ)
  /\ h2c' = Append(h2c, StartRx)
  /\ UNCHANGED <<c2h, gate, txDone, ready, readyGen, lastGen, rxOwed, sent, coproc,
                 boots, air, done, lost, released>>

\* radioTask (D) with a link that never came up: startTransmit fails at once.
StartFail ==
  /\ gate = "idle" /\ rxQ = <<>> /\ sent < MaxPkts /\ Quiet /\ ~ready
  /\ sent' = sent + 1
  /\ h2c' = Append(h2c, StartRx)
  /\ UNCHANGED <<c2h, gate, txDone, ready, readyGen, lastGen, rxOwed, rxQ, coproc, history>>

\* RemoteRadio::startTransmit arms the gate ...
Arm ==
  /\ gate = "idle" /\ rxQ = <<>> /\ sent < MaxPkts /\ Quiet /\ ready
  /\ sent' = sent + 1
  /\ gate' = "armed"
  /\ txDone' = FALSE
  /\ UNCHANGED <<wire, ready, readyGen, lastGen, rxOwed, rxQ, coproc, history>>

\* ... and hands the frame to the co-processor;
SendTx ==
  /\ gate = "armed"
  /\ gate' = "sent"
  /\ h2c' = Append(h2c, Tx(sent))
  /\ UNCHANGED <<c2h, txDone, ready, readyGen, lastGen, rxOwed, rxQ, sent, coproc, history>>

\* Mutant of Started: the gate is armed after the frame was sent.
StartedArms ==
  /\ gate = "sent"
  /\ gate' = "busy" /\ txDone' = FALSE
  /\ UNCHANGED <<wire, ready, readyGen, lastGen, rxOwed, rxQ, sent, coproc, history>>

\* back in radioTask, g_txBusy is set.
Started ==
  /\ gate = "sent"
  /\ gate' = "busy"
  /\ UNCHANGED <<wire, txDone, ready, readyGen, lastGen, rxOwed, rxQ, sent, coproc, history>>

\* Mutant of Release: no timeout.
ReleaseOnDoneOnly ==
  /\ gate = "busy" /\ txDone
  /\ gate' = "idle"
  /\ UNCHANGED <<wire, txDone, ready, readyGen, lastGen, rxOwed, rxQ, sent, coproc, history>>

\* radioTask (A): the gate opens on TX_DONE, or on the 10 s timeout.  The
\* co-processor may wait for a clear channel for longer than that, so the
\* timeout may come at any point of the exchange.
Release ==
  /\ gate = "busy"
  /\ gate' = "idle"
  /\ UNCHANGED <<wire, txDone, ready, readyGen, lastGen, rxOwed, rxQ, sent, coproc, history>>

\* Mutant of SelfHeal: the configuration is pushed only once.
SelfHealOnce ==
  /\ readyGen # lastGen /\ lastGen = 0 /\ ~rxOwed
  /\ lastGen' = readyGen
  /\ h2c' = Append(h2c, Cfg)
  /\ rxOwed' = TRUE
  /\ UNCHANGED <<c2h, gate, txDone, ready, readyGen, rxQ, sent, coproc, history>>

\* loop(): a new READY makes the host push CFG_RADIO again ...
SelfHeal ==
  /\ readyGen # lastGen /\ ~rxOwed
  /\ lastGen' = readyGen
  /\ h2c' = Append(h2c, Cfg)
  /\ rxOwed' = TRUE
  /\ UNCHANGED <<c2h, gate, txDone, ready, readyGen, rxQ, sent, coproc, history>>

\* ... and then START_RX; a frame of the radio's task may come between them.
SelfHealRx ==
  /\ rxOwed
  /\ rxOwed' = FALSE
  /\ h2c' = Append(h2c, StartRx)
  /\ UNCHANGED <<c2h, gate, txDone, ready, readyGen, lastGen, rxQ, sent, coproc, history>>

-----------------------------------------------------------------------------
(* The co-processor *)

\* Power-on or reset, and setup(): the radio's begin() may fail; READY is sent
\* either way.
Boot ==
  /\ ~up /\ boots < MaxBoots
  /\ up' = TRUE /\ boots' = boots + 1
  /\ enabled' \in BOOLEAN
  /\ plan' = "default" /\ txq' = <<>> /\ active' = <<>> /\ chip' = 0
  /\ c2h' = Append(c2h, Ready)
  /\ UNCHANGED <<h2c, host, heardRx, air, done, lost, released, got>>

\* Brown-out, re-flash or reset: RAM and what is in the UART buffer are lost.
Crash ==
  /\ up /\ boots < MaxBoots
  /\ up' = FALSE
  /\ h2c' = <<>>
  /\ UNCHANGED <<c2h, host, enabled, plan, txq, active, chip, heardRx, history>>

Answer(p) ==
  /\ c2h' = Append(c2h, TxDone(p))
  /\ done' = [done EXCEPT ![p] = @ + 1]

\* WioSX1262::startReceive clears the IRQ flag: a packet not yet read is gone.
ReArm == chip' = 0

\* handleHostFrame: CFG_RADIO with enable, which is applyCfg.
HandleCfg ==
  /\ up /\ h2c # <<>> /\ Head(h2c) = Cfg
  /\ h2c' = Tail(h2c)
  /\ plan' = "host" /\ active' = <<>>
  /\ enabled' \in BOOLEAN
  /\ ReArm
  /\ UNCHANGED <<c2h, host, up, txq, heardRx, history>>

\* handleHostFrame: TX.
HandleTx ==
  /\ up /\ h2c # <<>> /\ Head(h2c).type = "TX"
  /\ h2c' = Tail(h2c)
  /\ LET p == Head(h2c).pkt IN
       IF enabled /\ Len(txq) < TX_Q_DEPTH
       THEN txq' = Append(txq, p) /\ UNCHANGED <<c2h, done>>
       ELSE Answer(p) /\ UNCHANGED txq
  /\ UNCHANGED <<host, up, enabled, plan, active, chip, heardRx, boots, air, lost, released, got>>

\* handleHostFrame: START_RX, ignored while a packet is on the air.
HandleStartRx ==
  /\ up /\ h2c # <<>> /\ Head(h2c) = StartRx
  /\ h2c' = Tail(h2c)
  /\ IF enabled /\ active = <<>> THEN ReArm ELSE UNCHANGED chip
  /\ UNCHANGED <<c2h, host, up, enabled, plan, txq, active, heardRx, history>>

\* The radio hears a packet: DIO1 raises the flag; an unread one is overwritten.
Hear ==
  /\ up /\ active = <<>> /\ heardRx < MaxRx /\ Quiet
  /\ heardRx' = heardRx + 1
  /\ chip' = heardRx + 1
  /\ UNCHANGED <<wire, host, up, enabled, plan, txq, active, history>>

\* loop() (1): TxDone or the 8 s timeout; finishTransmit returns to RX.
Finish ==
  /\ up /\ active # <<>>
  /\ active' = <<>>
  /\ Answer(active[1])
  /\ UNCHANGED <<h2c, host, up, enabled, plan, txq, chip, heardRx, boots, air, lost, released, got>>

\* Mutant of Forward: the radio is not re-armed, the flag stays set.
ForwardTwice ==
  /\ up /\ active = <<>> /\ enabled /\ chip # 0 /\ Len(c2h) < 4
  /\ c2h' = Append(c2h, Rx(chip))
  /\ UNCHANGED <<h2c, host, up, enabled, plan, txq, active, chip, heardRx, history>>

\* loop() (2): a received packet goes to the host; a read error goes nowhere.
Forward ==
  /\ up /\ active = <<>> /\ enabled /\ chip # 0
  /\ c2h' \in {Append(c2h, Rx(chip)), c2h}
  /\ ReArm
  /\ UNCHANGED <<h2c, host, up, enabled, plan, txq, active, heardRx, history>>

\* Mutant of Dispatch: the job is not taken off the queue.
DispatchKeeps ==
  /\ up /\ active = <<>> /\ enabled /\ chip = 0 /\ txq # <<>>
  /\ active' = <<Head(txq)>>
  /\ air' = Append(air, [pkt |-> Head(txq), plan |-> plan])
  /\ UNCHANGED <<wire, host, up, enabled, plan, txq, chip, heardRx, boots, done, lost, released, got>>

\* loop() (3), channel clear: the packet goes on the air.
Dispatch ==
  /\ up /\ active = <<>> /\ enabled /\ chip = 0 /\ txq # <<>>
  /\ active' = <<Head(txq)>>
  /\ txq' = Tail(txq)
  /\ air' = Append(air, [pkt |-> Head(txq), plan |-> plan])
  /\ UNCHANGED <<wire, host, up, enabled, plan, chip, heardRx, boots, done, lost, released, got>>

\* Mutant of DispatchFail: the job stays queued after it has been answered.
DispatchFailKeeps ==
  /\ up /\ active = <<>> /\ enabled /\ chip = 0 /\ txq # <<>> /\ Len(c2h) < 4
  /\ Answer(Head(txq))
  /\ UNCHANGED <<h2c, host, up, enabled, plan, txq, active, chip, heardRx, boots, air,
                 lost, released, got>>

\* loop() (3), startTransmit fails.  A busy channel changes nothing.
DispatchFail ==
  /\ up /\ active = <<>> /\ enabled /\ chip = 0 /\ txq # <<>>
  /\ Answer(Head(txq))
  /\ txq' = Tail(txq)
  /\ UNCHANGED <<h2c, host, up, enabled, plan, active, chip, heardRx, boots, air,
                 lost, released, got>>

-----------------------------------------------------------------------------
RadioTask == HostRead \/ StartFail \/ Arm \/ SendTx \/ Started \/ Release
HostLoop == SelfHeal \/ SelfHealRx
HandleHostFrame == HandleCfg \/ HandleTx \/ HandleStartRx
CoprocLoop == HandleHostFrame \/ Finish \/ Forward \/ Dispatch \/ DispatchFail

Next == Damage \/ SentInVain \/ HandleFrame \/ RadioTask \/ HostLoop \/ Boot \/ Crash \/ Hear \/ CoprocLoop

\* The link's service task, loop() and the two boards' schedulers keep running:
\* each is an endless loop with delays of at most a second.
Fairness ==
  /\ WF_vars(HandleFrame) /\ WF_vars(SelfHeal) /\ WF_vars(SelfHealRx)
  /\ WF_vars(SendTx) /\ WF_vars(Started) /\ WF_vars(Release)
  /\ WF_vars(HandleHostFrame)

Spec == Init /\ [][Next]_vars
FairSpec == Spec /\ Fairness /\ WF_vars(Boot)

-----------------------------------------------------------------------------
Frames(types, n) == [type : types, pkt : 0..n]

TypeOK ==
  /\ h2c \in Seq(Frames({"CFG_RADIO", "START_RX", "TX"}, MaxPkts))
  /\ c2h \in Seq(Frames({"READY", "TX_DONE"}, MaxPkts) \cup Frames({"RX"}, MaxRx))
  /\ gate \in {"idle", "armed", "sent", "busy"}
  /\ txDone \in BOOLEAN /\ ready \in BOOLEAN /\ rxOwed \in BOOLEAN
  /\ readyGen \in Nat /\ lastGen \in Nat /\ sent \in 0..MaxPkts
  /\ rxQ \in Seq(1..MaxRx) /\ Len(rxQ) <= RX_QUEUE_DEPTH
  /\ up \in BOOLEAN /\ enabled \in BOOLEAN /\ plan \in {"default", "host"}
  /\ txq \in Seq(Pkts) /\ Len(txq) <= TX_Q_DEPTH
  /\ active \in {<<>>} \cup {<<p>> : p \in Pkts}
  /\ chip \in 0..MaxRx /\ heardRx \in 0..MaxRx
  /\ boots \in 0..MaxBoots
  /\ air \in Seq([pkt : Pkts, plan : {"default", "host"}])
  /\ done \in [Pkts -> Nat] /\ lost \in 0..MaxLost /\ released \subseteq Pkts
  /\ got \in Seq(1..MaxRx)

\* A packet is put on the air at most once and in the order in which the host
\* took it, whatever the host times out on, the wire loses or the
\* co-processor forgets (MSG_TX, txqPush, loop() (3)).
AirOnceInOrder ==
  \A m, n \in 1..Len(air) : m < n => air[m].pkt < air[n].pkt

\* No packet is answered twice: a second TX_DONE would open the gate of a
\* later packet (handleHostFrame, loop(): "exactly one MSG_TX_DONE").
AnsweredAtMostOnce == \A p \in Pkts : done[p] <= 1

\* A TX_DONE for the packet in hand is never missed: once the host has handled
\* it, the gate reads done (startTransmit: arm the gate BEFORE sending so a
\* fast MSG_TX_DONE can't be missed).
NoMissedDone == gate = "busy" /\ sent \in released => txDone

\* Received packets reach radioTask in the order in which the radio heard them
\* and never twice (loop() (2), xQueueSend, RemoteRadio::read).
ReceivedInOrder == \A m, n \in 1..Len(got) : m < n => got[m] < got[n]

\* Nothing is sent with the placeholder settings of a co-processor that has
\* not been configured ("sits idle until it receives CFG_RADIO").
IdleUntilConfigured == \A n \in 1..Len(air) : air[n].plan = "host"

\* The host's gate never wedges, whatever is lost (radioTask (A)).
GateOpens == gate # "idle" ~> gate = "idle"

\* A co-processor that has booted is given its configuration, without a reboot
\* of the host, unless it goes down again or a frame is damaged: neither READY
\* nor CFG_RADIO is acknowledged or repeated (loop(): self-heal).
Heals == up /\ plan = "default" ~> ~up \/ plan = "host" \/ lost > 0
=============================================================================
