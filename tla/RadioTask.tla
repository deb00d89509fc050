----------------------------- MODULE RadioTask ------------------------------
(***************************************************************************)
(* The scheduler of one local radio (radioTask in main.cpp) on its driver  *)
(* (WioSX1262.cpp).  One iteration of the loop is the steps (A) in-flight  *)
(* TX, (B) RX drain, (C) NodeInfo, (D) TX scheduler, CAD and transmission; *)
(* the DIO1 interrupt and the other radios' tasks, which queue packets for *)
(* this one, act between any two of them.  Time passes while the task      *)
(* sleeps between iterations, and on the way from the decision to send to  *)
(* the transmission: the driver waits for the SPI mutex that the radios    *)
(* share, and a channel scan blocks.  millis() starts at 0 at boot and     *)
(* wraps at ClockMod; deadlines are kept as true times and compared the    *)
(* way the code does, on their 32-bit values.                              *)
(***************************************************************************)
EXTENDS Integers, Sequences

CONSTANTS
  ClockMod,   \* 2^32: the modulus of millis()
  Cap,        \* BRIDGE_ROUTE_QUEUE_DEPTH
  MaxAge,     \* BRIDGE_ROUTE_MAX_AGE_MS
  Inflight,   \* BRIDGE_TX_INFLIGHT_TIMEOUT_MS
  Scan,       \* bound on the time from the age check to the start of the transmission:
              \* the CAD, a few symbols, and the waits for the SPI mutex
  Backoffs,   \* CSMA backoffs, BRIDGE_CAD_BACKOFF_MIN_MS..MAX_MS
  Air,        \* estimateAirtimeMs of a packet
  Duty,       \* BRIDGE_TX_DUTY_PERCENT; 0 is no cap
  MinGap,     \* BRIDGE_TX_MIN_GAP_MS
  IsMT,       \* the radio runs Meshtastic
  NodeInfoMs, \* period of its NodeInfo
  MaxPkts,    \* bound on packets queued by the other tasks
  MaxRx,      \* bound on packets heard
  MaxNow      \* bound on time

ASSUME TimeAssumption ==
  /\ ClockMod \in Nat \ {0} /\ ClockMod % 2 = 0 /\ MaxNow \in Nat
  /\ MaxAge \in Nat /\ Inflight \in Nat /\ Scan \in Nat /\ Backoffs \subseteq Nat
  /\ Air \in Nat /\ Duty \in Nat /\ MinGap \in Nat /\ NodeInfoMs \in Nat
ASSUME TimeoutAssumption == Inflight + 1 < ClockMod   \* 10 s against 49.7 days
ASSUME BoundAssumption == Cap \in Nat \ {0} /\ MaxPkts \in Nat /\ MaxRx \in Nat

VARIABLES
  pc,        \* where the task is: "A", "B", "C", "D", "cad", "tx", "sleep"
  mode,      \* the chip: "rx", "standby", "tx"
  flag,      \* _rxFlag, set by DIO1
  inFlight,  \* _txInFlight
  busy,      \* g_txBusy
  txStart,   \* g_txStartMs
  latch,     \* g_txPending: <<>>, or <<stamp>>
  queue,     \* g_routeQ: the stamps of the queued packets
  backoff,   \* g_txBackoffUntil
  nextTx,    \* g_nextTxAllowedMs
  nextInfo,  \* nextNodeInfoMs
  now,       \* time since boot
  scan,      \* history: time from the last age check to the last step towards the channel
  pushed,    \* packets queued by the other tasks
  heard,     \* history: packets received by the chip
  fresh,     \* history: the chip holds a received packet nobody has read
  onAir      \* history: the transmission in progress has not ended

chip == <<mode, flag, inFlight, fresh, onAir>>
sched == <<busy, txStart, latch, backoff, nextTx>>
env == <<now, scan, pushed, heard>>
vars == <<pc, chip, sched, queue, nextInfo, env>>

\* Mutant of Passed: > instead of >=.
PassedStrict(t) == (now - t) % ClockMod \in 1..(ClockMod \div 2 - 1)

\* (int32_t)(millis() - t) >= 0
Passed(t) == (now - t) % ClockMod < ClockMod \div 2

\* (uint32_t)(millis() - t) > limit
Older(t, limit) == (now - t) % ClockMod > limit

\* The airtime throttle after a transmission.
Gap ==
  LET duty == IF Duty > 0 THEN (Air * 100) \div Duty ELSE Air
  IN  IF duty < Air + MinGap THEN Air + MinGap ELSE duty

\* RouteQueue::push
Pushed(s, t) == Append(IF Len(s) = Cap THEN Tail(s) ELSE s, t)

\* RouteQueue::pop: position of the oldest packet still fresh.
FirstFresh(k) ==
  /\ k \in 1..Len(queue) /\ ~Older(queue[k], MaxAge)
  /\ \A m \in 1..(k - 1) : Older(queue[m], MaxAge)

Init ==
  /\ pc = "A" /\ mode = "rx" /\ flag = FALSE /\ inFlight = FALSE
  /\ fresh = FALSE /\ onAir = FALSE
  /\ busy = FALSE /\ txStart = 0 /\ latch = <<>> /\ backoff = 0 /\ nextTx = 0
  /\ queue = <<>> /\ nextInfo = 1
  /\ now = 0 /\ scan = 0 /\ pushed = 0 /\ heard = 0

-----------------------------------------------------------------------------
(* The chip and the other tasks *)

\* RxDone
RxDone ==
  /\ mode = "rx" /\ heard < MaxRx
  /\ flag' = TRUE /\ fresh' = TRUE /\ heard' = heard + 1
  /\ UNCHANGED <<pc, mode, inFlight, onAir, sched, queue, nextInfo, now, scan, pushed>>

\* TxDone
TxDone ==
  /\ mode = "tx"
  /\ flag' = TRUE /\ mode' = "standby" /\ onAir' = FALSE
  /\ UNCHANGED <<pc, inFlight, fresh, sched, queue, nextInfo, env>>

\* Another radio's task queues a packet for this one.
Enqueue ==
  /\ pushed < MaxPkts
  /\ pushed' = pushed + 1
  /\ queue' = Pushed(queue, now)
  /\ UNCHANGED <<pc, chip, sched, nextInfo, now, scan, heard>>

\* vTaskDelay(BRIDGE_POLL_MS)
Tick ==
  /\ pc = "sleep" /\ now < MaxNow
  /\ now' = now + 1 /\ pc' = "A"
  /\ UNCHANGED <<chip, sched, queue, nextInfo, scan, pushed, heard>>

\* scanChannel and startTransmit take their time: they wait for the mutex, and the CAD
\* blocks.
ScanTime ==
  /\ pc \in {"cad", "tx"} /\ scan < Scan /\ now < MaxNow
  /\ now' = now + 1 /\ scan' = scan + 1
  /\ UNCHANGED <<pc, chip, sched, queue, nextInfo, pushed, heard>>

-----------------------------------------------------------------------------
(* The driver *)

\* WioSX1262::startReceive
StartReceive ==
  flag' = FALSE /\ mode' = "rx" /\ fresh' = FALSE /\ UNCHANGED <<inFlight, onAir>>

\* Mutant of FinishTransmit: the interrupt flag of TxDone is left set.
FinishTransmitKeepsFlag ==
  mode' = "rx" /\ fresh' = FALSE /\ inFlight' = FALSE /\ onAir' = FALSE /\ UNCHANGED flag

\* WioSX1262::finishTransmit, which returns to RX.
FinishTransmit ==
  flag' = FALSE /\ mode' = "rx" /\ fresh' = FALSE /\ inFlight' = FALSE /\ onAir' = FALSE

\* WioSX1262::txDone
IsTxDone == ~inFlight \/ flag

-----------------------------------------------------------------------------
(* radioTask *)

\* Mutant of ServiceTx: no timeout.
ServiceTxNoTimeout ==
  /\ pc = "A" /\ busy
  /\ IF IsTxDone THEN FinishTransmit /\ busy' = FALSE
                 ELSE UNCHANGED <<chip, busy>>
  /\ pc' = "sleep"
  /\ UNCHANGED <<txStart, latch, backoff, nextTx, queue, nextInfo, env>>

\* (A) A transmission is in flight: nothing else until it is over.
ServiceTx ==
  /\ pc = "A" /\ busy
  /\ IF IsTxDone \/ Older(txStart, Inflight)
     THEN FinishTransmit /\ busy' = FALSE
     ELSE UNCHANGED <<chip, busy>>
  /\ pc' = "sleep"
  /\ UNCHANGED <<txStart, latch, backoff, nextTx, queue, nextInfo, env>>

NoTx ==
  /\ pc = "A" /\ ~busy
  /\ pc' = "B"
  /\ UNCHANGED <<chip, sched, queue, nextInfo, env>>

\* (B) A packet is read and RX re-armed before it is decoded, also after a read
\* error; a read that yields no bytes leaves the radio as it is.
Drain ==
  /\ pc = "B" /\ flag
  /\ \/ StartReceive
     \/ flag' = FALSE /\ fresh' = FALSE /\ UNCHANGED <<mode, inFlight, onAir>>
  /\ pc' = "C"
  /\ UNCHANGED <<sched, queue, nextInfo, env>>

NoRx ==
  /\ pc = "B" /\ ~flag
  /\ pc' = "C"
  /\ UNCHANGED <<chip, sched, queue, nextInfo, env>>

\* (C) The periodic NodeInfo joins the queue; it may fail to encode.
NodeInfo ==
  /\ pc = "C"
  /\ IF IsMT /\ Passed(nextInfo)
     THEN queue' \in {Pushed(queue, now), queue} /\ nextInfo' = now + NodeInfoMs
     ELSE UNCHANGED <<queue, nextInfo>>
  /\ pc' = "D"
  /\ UNCHANGED <<chip, sched, env>>

\* The packet in the latch after pop(), or <<>>.
Popped == IF \E k \in 1..Len(queue) : FirstFresh(k)
          THEN <<queue[CHOOSE k \in 1..Len(queue) : FirstFresh(k)]>> ELSE <<>>
Unpopped == IF \E k \in 1..Len(queue) : FirstFresh(k)
            THEN SubSeq(queue, (CHOOSE k \in 1..Len(queue) : FirstFresh(k)) + 1, Len(queue))
            ELSE <<>>

\* Mutant of MaySend: the throttle is not consulted.
MaySendUnthrottled == ~flag /\ Passed(backoff)

\* RX first, then the CSMA backoff and the airtime throttle.
MaySend == ~flag /\ Passed(backoff) /\ Passed(nextTx)

\* Mutant of Expire: a latched packet does not expire.
ExpireNever(l) == l

\* A latched packet that has grown stale is dropped.
Expire(l) == IF l # <<>> /\ Older(l[1], MaxAge) THEN <<>> ELSE l

\* (D) Fill the latch, expire it, and decide whether to go for the channel.
Schedule ==
  LET l == Expire(IF latch = <<>> THEN Popped ELSE latch) IN
  /\ pc = "D"
  /\ latch' = l
  /\ queue' = IF latch = <<>> THEN Unpopped ELSE queue
  /\ pc' = IF l # <<>> /\ MaySend THEN "cad" ELSE "sleep"
  /\ scan' = 0
  /\ UNCHANGED <<chip, busy, txStart, backoff, nextTx, nextInfo, now, pushed, heard>>

\* scanChannel finds the channel busy: back off, stay in RX.
CadBusy ==
  /\ pc = "cad"
  /\ \E b \in Backoffs : backoff' = now + b
  /\ StartReceive
  /\ pc' = "sleep"
  /\ UNCHANGED <<busy, txStart, latch, nextTx, queue, nextInfo, env>>

\* It is clear; CAD leaves the chip in standby and the flag cleared.
CadClear ==
  /\ pc = "cad"
  /\ mode' = "standby" /\ flag' = FALSE /\ fresh' = FALSE
  /\ pc' = "tx"
  /\ UNCHANGED <<inFlight, onAir, sched, queue, nextInfo, env>>

\* startTransmit succeeds.
TxStart ==
  /\ pc = "tx"
  /\ mode' = "tx" /\ flag' = FALSE /\ inFlight' = TRUE /\ onAir' = TRUE
  /\ busy' = TRUE /\ txStart' = now /\ latch' = <<>>
  /\ nextTx' = now + Gap
  /\ pc' = "sleep"
  /\ UNCHANGED <<fresh, backoff, queue, nextInfo, env>>

\* Mutant of TxAbort: the radio is left in standby.
TxAbortDeaf ==
  /\ pc = "tx"
  /\ latch' = <<>>
  /\ pc' = "sleep"
  /\ UNCHANGED <<chip, busy, txStart, backoff, nextTx, queue, nextInfo, env>>

\* startTransmit fails, or the dwell limit forbids the packet: it is dropped.
TxAbort ==
  /\ pc = "tx"
  /\ latch' = <<>>
  /\ StartReceive
  /\ pc' = "sleep"
  /\ UNCHANGED <<busy, txStart, backoff, nextTx, queue, nextInfo, env>>

Loop ==
  \/ ServiceTx \/ NoTx \/ Drain \/ NoRx \/ NodeInfo \/ Schedule
  \/ CadBusy \/ CadClear \/ TxStart \/ TxAbort

Next == RxDone \/ TxDone \/ Enqueue \/ Tick \/ ScanTime \/ Loop

Spec == Init /\ [][Next]_vars

-----------------------------------------------------------------------------
TypeOK ==
  /\ pc \in {"A", "B", "C", "D", "cad", "tx", "sleep"}
  /\ mode \in {"rx", "standby", "tx"}
  /\ flag \in BOOLEAN /\ inFlight \in BOOLEAN /\ fresh \in BOOLEAN /\ onAir \in BOOLEAN
  /\ busy \in BOOLEAN /\ txStart \in Nat /\ backoff \in Nat /\ nextTx \in Nat
  /\ nextInfo \in Nat /\ now \in Nat /\ scan \in 0..Scan /\ pushed \in 0..MaxPkts /\ heard \in 0..MaxRx
  /\ latch \in Seq(Nat) /\ Len(latch) <= 1
  /\ queue \in Seq(Nat) /\ Len(queue) <= Cap

\* The radio is never left deaf: whenever the task sleeps without a
\* transmission in flight, the chip is receiving, whichever way the last
\* iteration went (finishTransmit, CAD busy, dwell drop, failed start).
NeverDeaf == pc \in {"sleep", "A", "B", "C", "D"} /\ ~busy => mode = "rx"

\* DIO1 is never mistaken: with no transmission in flight a set flag means an
\* unread packet, and while one is in flight it means that it has ended
\* (_txInFlight "marks which a flag belongs to").
FlagNotMistaken ==
  flag => IF busy THEN ~onAir ELSE fresh

\* A transmission occupies the task for the in-flight timeout at most, even if
\* TxDone never comes (radioTask (A)).
BusyBounded == busy => now - txStart <= Inflight + 1

\* Two transmissions begin at least Gap apart: the radio stays within its duty
\* cycle however much is queued (the airtime throttle).
DutyHeld == [][txStart' # txStart /\ txStart # 0 =>
                 (txStart' - txStart) * Duty >= Air * 100]_vars

\* Nothing goes on the air that was older than the maximum age when the task went for
\* the channel, however long the packet waited in the latch ("stale mesh text is not
\* worth airtime"): the scan alone comes on top of it.
SentFresh == [][busy' /\ ~busy => now - latch[1] <= MaxAge + Scan]_vars

\* A packet is held back only while another one waits to be read, in a backoff
\* window or by the throttle ("skip TX while a packet is waiting to be read,
\* while inside a CSMA backoff window, or while the airtime throttle is holding
\* this radio off the air").
HeldOnlyForCause ==
  [][pc = "D" /\ pc' = "sleep" /\ latch' # <<>> =>
       flag \/ now < backoff \/ now < nextTx]_vars
=============================================================================
