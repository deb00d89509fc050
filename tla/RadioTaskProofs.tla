-------------------------- MODULE RadioTaskProofs --------------------------
(*************************************************************************)
(* The scheduler of radioTask, for every timing. The receive path: the   *)
(* radio is never left deaf, DIO1 is never attributed to the wrong event *)
(* and a transmission never outlives its timeout. What is sent: nothing  *)
(* too old when the task went for the channel, nothing within the duty   *)
(* gap, and nothing held back without a cause as long as the clock has   *)
(* not run through half its range.                                       *)
(* Comparisons are those of the code, on 32-bit differences; the         *)
(* invariants bound the true times so that the differences mean what     *)
(* they should.                                                          *)
(*************************************************************************)
EXTENDS RadioTask, SequenceTheorems, TLAPS

\* Types of the variables the chip and the TX gate are made of.
ChipType ==
  /\ pc \in {"A", "B", "C", "D", "cad", "tx", "sleep"}
  /\ mode \in {"rx", "standby", "tx"}
  /\ flag \in BOOLEAN /\ inFlight \in BOOLEAN /\ fresh \in BOOLEAN /\ onAir \in BOOLEAN
  /\ busy \in BOOLEAN

\* While g_txBusy is set the chip transmits or has just ended, and the task is
\* nowhere but in (A) or asleep.
BusyInv ==
  busy => /\ inFlight /\ pc \in {"sleep", "A"} /\ mode # "rx"
          /\ (onAir <=> mode = "tx") /\ (flag => ~onAir)

\* While it is not, nothing is in flight, and only between CAD and the start of
\* a transmission is the chip not receiving.
IdleInv ==
  ~busy => /\ ~inFlight /\ ~onAir /\ (flag => fresh)
           /\ IF pc = "tx" THEN mode = "standby" ELSE mode = "rx"

\* The age of a transmission, by where the task is.
AgeInv ==
  /\ now \in Nat /\ txStart \in Nat
  /\ busy => /\ txStart <= now
             /\ now - txStart <= IF pc = "A" THEN Inflight + 1 ELSE Inflight

\* The inductive invariant of the scheduler.
IndInv == ChipType /\ BusyInv /\ IdleInv /\ AgeInv

-----------------------------------------------------------------------------
\* The invariant holds when the task starts.
LEMMA InitInv == Init => IndInv
  <1> SUFFICES ASSUME Init PROVE IndInv
    OBVIOUS
  <1>1. /\ pc = "A" /\ mode = "rx" /\ flag = FALSE /\ inFlight = FALSE
        /\ fresh = FALSE /\ onAir = FALSE /\ busy = FALSE
    BY DEF Init
  <1>2. ChipType /\ BusyInv /\ IdleInv
    BY <1>1 DEF ChipType, BusyInv, IdleInv
  <1>3. AgeInv
    BY <1>1 DEF Init, AgeInv
  <1> QED BY <1>2, <1>3 DEF IndInv

\* A transmission that (A) leaves running is within its timeout: the unsigned
\* difference of the two readings of millis() is the true one.
LEMMA NotOlder ==
  ASSUME NEW n \in Nat, NEW t \in Nat, t <= n, n - t <= Inflight + 1,
         (n - t) % ClockMod <= Inflight
  PROVE  n - t <= Inflight
  <1>1. n - t \in 0..(ClockMod - 1)
    BY TimeAssumption, TimeoutAssumption
  <1>2. (n - t) % ClockMod = n - t
    BY <1>1, TimeAssumption
  <1> QED BY <1>2

\* The interrupts, the other tasks and the passing of time keep the invariant.
LEMMA EnvInv ==
  ASSUME IndInv, RxDone \/ TxDone \/ Enqueue \/ Tick \/ ScanTime
  PROVE  IndInv'
  <1> USE DEF IndInv, ChipType, BusyInv, IdleInv
  <1>1. CASE RxDone
    BY <1>1 DEF RxDone, AgeInv, sched
  <1>2. CASE TxDone
    BY <1>2 DEF TxDone, AgeInv, sched, env
  <1>3. CASE Enqueue
    BY <1>3 DEF Enqueue, AgeInv, sched, chip
  <1>4. CASE Tick
    <2>1. (ChipType /\ BusyInv /\ IdleInv)'
      BY <1>4 DEF Tick, sched, chip
    <2>2. AgeInv'
      BY <1>4, TimeAssumption DEF Tick, AgeInv, sched, chip
    <2> QED BY <2>1, <2>2
  <1>5. CASE ScanTime
    <2>1. pc \in {"cad", "tx"} /\ now' = now + 1 /\ UNCHANGED <<pc, chip, busy, txStart>>
      BY <1>5 DEF ScanTime, sched
    <2>2. ~busy
      BY <2>1
    <2>3. (ChipType /\ BusyInv /\ IdleInv)'
      BY <2>1 DEF chip
    <2>4. AgeInv'
      BY <2>1, <2>2 DEF AgeInv
    <2> QED BY <2>3, <2>4
  <1> QED BY <1>1, <1>2, <1>3, <1>4, <1>5

\* Step (A) keeps the invariant.
LEMMA ServiceInv ==
  ASSUME IndInv, ServiceTx
  PROVE  IndInv'
  <1>1. CASE IsTxDone \/ Older(txStart, Inflight)
    BY <1>1 DEF ServiceTx, FinishTransmit, env, IndInv, ChipType, BusyInv, IdleInv, AgeInv
  <1>2. CASE ~(IsTxDone \/ Older(txStart, Inflight))
    <2>1. UNCHANGED <<chip, busy, txStart, now>> /\ pc' = "sleep" /\ pc = "A" /\ busy
      BY <1>2 DEF ServiceTx, env
    <2>2. now - txStart <= Inflight
      <3>1. now \in Nat /\ txStart \in Nat /\ txStart <= now /\ now - txStart <= Inflight + 1
        BY <2>1 DEF IndInv, AgeInv
      <3>2. (now - txStart) % ClockMod <= Inflight
        BY <1>2, <3>1, TimeAssumption DEF Older
      <3> QED BY <3>1, <3>2, NotOlder
    <2>3. (ChipType /\ BusyInv /\ IdleInv)'
      BY <2>1 DEF chip, IndInv, ChipType, BusyInv, IdleInv
    <2>4. AgeInv'
      BY <2>1, <2>2 DEF IndInv, AgeInv
    <2> QED BY <2>3, <2>4 DEF IndInv
  <1> QED BY <1>1, <1>2

\* Steps (B), (C) and (D) up to the decision to send keep the invariant.
LEMMA ReceiveInv ==
  ASSUME IndInv, NoTx \/ Drain \/ NoRx \/ NodeInfo \/ Schedule
  PROVE  IndInv'
  <1> USE DEF IndInv, ChipType, BusyInv, IdleInv, AgeInv, chip, sched, env
  <1>1. CASE NoTx     BY <1>1 DEF NoTx
  <1>2. CASE Drain
    <2>1. /\ pc = "B" /\ pc' = "C" /\ flag' = FALSE /\ fresh' = FALSE
          /\ mode' \in {"rx", mode} /\ UNCHANGED <<inFlight, onAir, busy, txStart, now>>
      BY <1>2 DEF Drain, StartReceive
    <2>2. ~busy /\ ~inFlight /\ ~onAir /\ mode = "rx"
      BY <2>1
    <2>3. (ChipType /\ BusyInv /\ IdleInv)'
      BY <2>1, <2>2
    <2>4. AgeInv'
      BY <2>1, <2>2
    <2> QED BY <2>3, <2>4
  <1>3. CASE NoRx     BY <1>3 DEF NoRx
  <1>4. CASE NodeInfo
    <2>1. pc = "C" /\ pc' = "D" /\ UNCHANGED <<chip, sched, env>>
      BY <1>4 DEF NodeInfo
    <2> QED BY <2>1
  <1>5. CASE Schedule
    <2>1. pc = "D" /\ pc' \in {"cad", "sleep"} /\ UNCHANGED <<chip, busy, txStart, now>>
      BY <1>5 DEF Schedule
    <2> QED BY <2>1
  <1> QED BY <1>1, <1>2, <1>3, <1>4, <1>5

\* Channel scan and transmission keep the invariant.
LEMMA SendInv ==
  ASSUME IndInv, CadBusy \/ CadClear \/ TxStart \/ TxAbort
  PROVE  IndInv'
  <1> USE DEF IndInv, ChipType, BusyInv, IdleInv, AgeInv, chip, sched, env
  <1>1. CASE CadBusy
    <2>1. pc = "cad" /\ pc' = "sleep" /\ StartReceive /\ UNCHANGED <<busy, txStart, now>>
      BY <1>1 DEF CadBusy
    <2> QED BY <2>1 DEF StartReceive
  <1>2. CASE CadClear BY <1>2 DEF CadClear
  <1>3. CASE TxStart
    <2>1. /\ pc' = "sleep" /\ mode' = "tx" /\ flag' = FALSE /\ inFlight' = TRUE
          /\ onAir' = TRUE /\ busy' = TRUE /\ txStart' = now /\ UNCHANGED <<fresh, now>>
      BY <1>3 DEF TxStart
    <2>2. (ChipType /\ BusyInv /\ IdleInv)'
      BY <2>1
    <2>3. AgeInv'
      BY <2>1, TimeAssumption
    <2> QED BY <2>2, <2>3
  <1>4. CASE TxAbort  BY <1>4 DEF TxAbort, StartReceive
  <1> QED BY <1>1, <1>2, <1>3, <1>4

\* The invariant is inductive.
LEMMA NextInv == IndInv /\ [Next]_vars => IndInv'
  <1> SUFFICES ASSUME IndInv, [Next]_vars PROVE IndInv'
    OBVIOUS
  <1>1. CASE RxDone \/ TxDone \/ Enqueue \/ Tick \/ ScanTime
    BY <1>1, EnvInv
  <1>2. CASE Loop
    BY <1>2, ServiceInv, ReceiveInv, SendInv DEF Loop
  <1>3. CASE UNCHANGED vars
    BY <1>3 DEF vars, chip, sched, env, IndInv, ChipType, BusyInv, IdleInv, AgeInv
  <1> QED BY <1>1, <1>2, <1>3 DEF Next

\* The invariant holds in every reachable state.
LEMMA SpecInv == Spec => []IndInv
  BY InitInv, NextInv, PTL DEF Spec

\* However an iteration of radioTask ends (TxDone, timeout, CAD busy, dwell
\* drop, failed start, read error), the radio is receiving again before the
\* task sleeps: it never stays deaf.
THEOREM AlwaysListens == Spec => []NeverDeaf
  <1>1. IndInv => NeverDeaf
    BY DEF IndInv, ChipType, IdleInv, NeverDeaf
  <1> QED BY <1>1, SpecInv, PTL

\* The one interrupt flag of WioSX1262 is never attributed to the wrong event.
THEOREM FlagAttributed == Spec => []FlagNotMistaken
  <1>1. IndInv => FlagNotMistaken
    BY DEF IndInv, ChipType, BusyInv, IdleInv, FlagNotMistaken
  <1> QED BY <1>1, SpecInv, PTL

\* A transmission occupies the task for at most the in-flight timeout and one
\* sleep, for every timeout shorter than the range of millis().
THEOREM TransmitBounded == Spec => []BusyBounded
  <1>1. IndInv => BusyBounded
    BY TimeAssumption DEF IndInv, AgeInv, BusyBounded
  <1> QED BY <1>1, SpecInv, PTL
-----------------------------------------------------------------------------
(* The clock *)

\* The unsigned difference of two times less than a lap apart is the true one.
LEMMA TrueAge ==
  ASSUME NEW n \in Nat, NEW t \in Nat, t <= n, n - t < ClockMod
  PROVE  (n - t) % ClockMod = n - t
  <1>1. n - t \in 0..(ClockMod - 1)
    BY TimeAssumption
  <1> QED BY <1>1, TimeAssumption

\* Half of an even number.
LEMMA Half ==
  ASSUME NEW m \in Nat, m % 2 = 0
  PROVE  m \div 2 \in Nat /\ m = 2 * (m \div 2)
  OBVIOUS

\* Half of the range of the clock.
LEMMA HalfLap ==
  \E h \in Nat : ClockMod \div 2 = h /\ ClockMod = 2 * h
  BY Half, TimeAssumption

\* A quotient.
LEMMA Quotient ==
  ASSUME NEW a \in Nat, NEW d \in Nat, d > 0
  PROVE  a \div d \in Nat
  OBVIOUS

\* The quotient of a multiple.
LEMMA Exactly ==
  ASSUME NEW a \in Nat, NEW d \in Nat, d > 0, a % d = 0
  PROVE  a = d * (a \div d)
  OBVIOUS

\* The gap after a transmission is a number of milliseconds that covers the duty cap.
LEMMA GapFacts ==
  Gap \in Nat /\ (Duty > 0 => Gap >= (Air * 100) \div Duty)
  <1>1. Air \in Nat /\ Duty \in Nat /\ MinGap \in Nat /\ Air * 100 \in Nat
    BY TimeAssumption
  <1> DEFINE q == (Air * 100) \div Duty
  <1>2. Duty > 0 => q \in Nat
    BY <1>1, Quotient
  <1>3. Gap = LET duty == IF Duty > 0 THEN q ELSE Air
              IN  IF duty < Air + MinGap THEN Air + MinGap ELSE duty
    BY DEF Gap
  <1> HIDE DEF q
  <1>4. Gap \in Nat /\ (Duty > 0 => Gap >= q)
    BY <1>1, <1>2, <1>3
  <1> QED BY <1>4 DEF q

\* A deadline at most half a lap ahead has not passed by the signed comparison.
LEMMA NotYet ==
  ASSUME NEW n \in Nat, NEW t \in Nat, n < t, 2 * (t - n) <= ClockMod
  PROVE  ~((n - t) % ClockMod < ClockMod \div 2)
  <1>1. PICK h \in Nat : ClockMod \div 2 = h /\ ClockMod = 2 * h
    BY HalfLap
  <1>2. ClockMod \in Nat \ {0}
    BY TimeAssumption
  <1> DEFINE a == n - t + ClockMod
  <1>3. a \in 0..(ClockMod - 1) /\ n - t = ClockMod * (-1) + a /\ a >= h
    BY <1>1, <1>2
  <1>4. (n - t) % ClockMod = a
    BY <1>2, <1>3
  <1> QED BY <1>1, <1>3, <1>4

-----------------------------------------------------------------------------
(* What waits *)

\* One tick of the clock lies between the sleep of an iteration and its steps.
Slept == IF pc \in {"A", "B", "C", "D"} THEN 1 ELSE 0

\* How far past the maximum age a queued packet can be when the latch is empty: what the way
\* to the channel can have taken, and what a transmission has taken so far, or can have taken.
Slack == Scan + (IF busy THEN now - txStart ELSE Inflight + 1 + Slept)

\* The stamps of a queue are past times, in the order of the pushes.
Ordered(q, n) ==
  /\ q \in Seq(Nat)
  /\ \A i \in 1..Len(q) : q[i] <= n
  /\ \A i, j \in 1..Len(q) : i <= j => q[i] <= q[j]

\* Nothing in the queue was pushed before t; nothing in it is older than b.
Behind(q, t) == \A i \in 1..Len(q) : t <= q[i]
Young(q, n, b) == \A i \in 1..Len(q) : n - q[i] <= b

\* What is in the latch was pushed before everything in the queue.
StampInv ==
  /\ Ordered(queue, now)
  /\ latch # <<>> => latch[1] \in Nat /\ latch[1] <= now /\ Behind(queue, latch[1])

\* Nothing waits much longer than the maximum age, because every iteration that is not
\* transmitting empties the latch of what is too old, and then the queue.
WaitInv ==
  /\ scan \in 0..Scan
  /\ pc \in {"cad", "tx"} => latch # <<>>
  /\ latch # <<>> => ~busy /\ now - latch[1] <= MaxAge + scan + Slept
  /\ latch = <<>> => Young(queue, now, MaxAge + Slack)

\* The throttle counts from the start of the last transmission, and a packet goes for the
\* channel only when it has run out.
ThrottleInv ==
  /\ nextTx \in Nat /\ txStart \in Nat
  /\ ((nextTx = 0 /\ txStart = 0) \/ (nextTx = txStart + Gap /\ txStart <= now))
  /\ pc \in {"cad", "tx"} => nextTx <= now

-----------------------------------------------------------------------------
\* A deadline behind us has passed by the signed comparison, if less than half a lap has been
\* counted since boot.
LEMMA Deadline ==
  ASSUME NEW n \in Nat, NEW t \in Nat, t <= n, 2 * n < ClockMod
  PROVE  (n - t) % ClockMod < ClockMod \div 2
  <1>1. PICK h \in Nat : ClockMod \div 2 = h /\ ClockMod = 2 * h
    BY HalfLap
  <1>2. (n - t) % ClockMod = n - t
    BY TrueAge, TimeAssumption
  <1> QED BY <1>1, <1>2

\* The deadlines of the scheduler are times, and the run is bounded.
DeadlineInv == now \in 0..MaxNow /\ backoff \in Nat /\ nextTx \in Nat

\* Every step keeps the deadlines.
LEMMA DeadlineStep == DeadlineInv /\ [Next]_vars => DeadlineInv'
  <1> SUFFICES ASSUME DeadlineInv, [Next]_vars PROVE DeadlineInv'
    OBVIOUS
  <1>t. now \in 0..MaxNow /\ now \in Nat /\ MaxNow \in Nat /\ backoff \in Nat /\ nextTx \in Nat
    BY TimeAssumption DEF DeadlineInv
  <1>1. ASSUME UNCHANGED <<now, backoff, nextTx>> PROVE DeadlineInv'
    BY <1>1, <1>t DEF DeadlineInv
  <1>2. CASE RxDone    BY <1>1, <1>2 DEF RxDone, sched
  <1>3. CASE TxDone    BY <1>1, <1>3 DEF TxDone, sched, env
  <1>4. CASE Enqueue   BY <1>1, <1>4 DEF Enqueue, sched
  <1>5. CASE Tick \/ ScanTime
    <2>1. now' = now + 1 /\ now < MaxNow /\ UNCHANGED <<backoff, nextTx>>
      BY <1>5 DEF Tick, ScanTime, sched
    <2>2. now' \in 0..MaxNow
      BY <1>t, <2>1
    <2> QED BY <1>t, <2>1, <2>2 DEF DeadlineInv
  <1>6. CASE ServiceTx BY <1>1, <1>6 DEF ServiceTx, env
  <1>7. CASE NoTx      BY <1>1, <1>7 DEF NoTx, sched, env
  <1>8. CASE Drain     BY <1>1, <1>8 DEF Drain, sched, env
  <1>9. CASE NoRx      BY <1>1, <1>9 DEF NoRx, sched, env
  <1>10. CASE NodeInfo BY <1>1, <1>10 DEF NodeInfo, sched, env
  <1>11. CASE Schedule BY <1>1, <1>11 DEF Schedule
  <1>12. CASE CadBusy
    <2>1. PICK b \in Backoffs : backoff' = now + b
      BY <1>12 DEF CadBusy
    <2>2. b \in Nat /\ UNCHANGED <<now, nextTx>>
      BY <1>12, TimeAssumption DEF CadBusy, env
    <2>3. backoff' \in Nat
      BY <1>t, <2>1, <2>2
    <2> QED BY <1>t, <2>2, <2>3 DEF DeadlineInv
  <1>13. CASE CadClear BY <1>1, <1>13 DEF CadClear, sched, env
  <1>14. CASE TxStart
    <2>1. nextTx' = now + Gap /\ UNCHANGED <<now, backoff>>
      BY <1>14 DEF TxStart, env
    <2>2. nextTx' \in Nat
      BY <1>t, <2>1, GapFacts
    <2> QED BY <1>t, <2>1, <2>2 DEF DeadlineInv
  <1>15. CASE TxAbort  BY <1>1, <1>15 DEF TxAbort, env
  <1>16. CASE UNCHANGED vars
    BY <1>1, <1>16 DEF vars, sched, env
  <1> QED BY <1>2, <1>3, <1>4, <1>5, <1>6, <1>7, <1>8, <1>9, <1>10, <1>11, <1>12, <1>13,
             <1>14, <1>15, <1>16 DEF Next, Loop

\* For the first half of the range of millis() after boot, a latched packet is held back only
\* by an unread packet, a backoff window or the throttle.  Past it the claim fails: a deadline
\* that was never moved looks as if it lay ahead.
THEOREM HeldForCause == 2 * MaxNow < ClockMod => (Spec => HeldOnlyForCause)
  <1> SUFFICES ASSUME 2 * MaxNow < ClockMod PROVE Spec => HeldOnlyForCause
    OBVIOUS
  <1> DEFINE A == pc = "D" /\ pc' = "sleep" /\ latch' # <<>> =>
                    flag \/ now < backoff \/ now < nextTx
  <1>1. Init => DeadlineInv
    BY TimeAssumption DEF Init, DeadlineInv
  <1>2. DeadlineInv /\ [Next]_vars => A
    <2> SUFFICES ASSUME DeadlineInv, [Next]_vars, pc = "D", pc' = "sleep", latch' # <<>>,
                        ~flag, ~(now < backoff), ~(now < nextTx)
                 PROVE  FALSE
      OBVIOUS
    <2>1. Schedule
      BY DEF Next, Loop, RxDone, TxDone, Enqueue, Tick, ScanTime, ServiceTx, NoTx, Drain, NoRx, NodeInfo,
             CadBusy, CadClear, TxStart, TxAbort, vars
    <2>2. ~MaySend
      BY <2>1 DEF Schedule
    <2>3. /\ now \in Nat /\ backoff \in Nat /\ nextTx \in Nat /\ 2 * now < ClockMod
          /\ backoff <= now /\ nextTx <= now
      BY TimeAssumption DEF DeadlineInv
    <2>4. Passed(backoff) /\ Passed(nextTx)
      BY <2>3, Deadline DEF Passed
    <2> QED BY <2>2, <2>4 DEF MaySend
  <1> HIDE DEF A
  <1>3. DeadlineInv /\ [Next]_vars => [A]_vars
    BY <1>2
  <1>4. Spec => [][A]_vars
    BY <1>1, <1>3, DeadlineStep, PTL DEF Spec
  <1> QED BY <1>4 DEF HeldOnlyForCause, A

-----------------------------------------------------------------------------
\* Every step keeps the throttle, if the longest gap is at most half the range of millis().
LEMMA ThrottleStep ==
  ASSUME 2 * Gap <= ClockMod
  PROVE  DeadlineInv /\ ThrottleInv /\ [Next]_vars => ThrottleInv'
  <1> SUFFICES ASSUME DeadlineInv, ThrottleInv, [Next]_vars PROVE ThrottleInv'
    OBVIOUS
  <1>t. /\ now \in Nat /\ nextTx \in Nat /\ txStart \in Nat
        /\ Gap \in Nat /\ ClockMod \in Nat
    BY GapFacts, TimeAssumption DEF DeadlineInv, ThrottleInv
  <1>1. ASSUME UNCHANGED <<now, txStart, nextTx>>, pc' \in {"cad", "tx"} => nextTx <= now
        PROVE  ThrottleInv'
    BY <1>1 DEF ThrottleInv, Gap
  <1>2. ASSUME UNCHANGED <<now, txStart, nextTx>>, pc' = pc \/ pc' \notin {"cad", "tx"}
        PROVE  ThrottleInv'
    BY <1>1, <1>2 DEF ThrottleInv
  <1>3. CASE RxDone \/ TxDone \/ Enqueue
    BY <1>2, <1>3 DEF RxDone, TxDone, Enqueue, sched, env
  <1>4. CASE Tick \/ ScanTime
    <2>1. now' = now + 1 /\ pc' \in {"A", pc} /\ UNCHANGED <<txStart, nextTx>>
      BY <1>4 DEF Tick, ScanTime, sched
    <2>2. (nextTx = 0 /\ txStart = 0) \/ (nextTx = txStart + Gap /\ txStart <= now)
      BY DEF ThrottleInv
    <2>3. CASE nextTx = 0 /\ txStart = 0
      BY <1>t, <2>1, <2>3 DEF ThrottleInv
    <2>4. CASE nextTx = txStart + Gap /\ txStart <= now
      <3>1. txStart <= now + 1
        BY <1>t, <2>4
      <3> QED BY <1>t, <2>1, <2>4, <3>1 DEF ThrottleInv, Gap
    <2> QED BY <2>2, <2>3, <2>4
  <1>5. CASE ServiceTx \/ NoTx \/ Drain \/ NoRx \/ NodeInfo
    BY <1>2, <1>5 DEF ServiceTx, NoTx, Drain, NoRx, NodeInfo, sched, env
  <1>6. CASE Schedule
    <2>1. UNCHANGED <<now, txStart, nextTx>> /\ (pc' \in {"cad", "tx"} => MaySend)
      BY <1>6 DEF Schedule
    <2>2. ASSUME MaySend, ~(nextTx <= now) PROVE FALSE
      <3>1. Passed(nextTx)
        BY <2>2 DEF MaySend
      <3>2. nextTx = txStart + Gap /\ txStart <= now
        BY <1>t, <2>2 DEF ThrottleInv
      <3>3. now < nextTx /\ 2 * (nextTx - now) <= ClockMod
        BY <1>t, <2>2, <3>2
      <3> QED BY <1>t, <3>1, <3>3, NotYet DEF Passed
    <2> QED BY <1>1, <2>1, <2>2
  <1>7. CASE CadBusy \/ TxAbort
    BY <1>2, <1>7 DEF CadBusy, TxAbort, env
  <1>8. CASE CadClear
    BY <1>1, <1>8 DEF CadClear, sched, env, ThrottleInv
  <1>9. CASE TxStart
    <2>1. txStart' = now /\ nextTx' = now + Gap /\ now' = now /\ pc' = "sleep"
      BY <1>9 DEF TxStart, env
    <2>2. nextTx' \in Nat /\ txStart' \in Nat /\ txStart' <= now'
      BY <1>t, <2>1
    <2> QED BY <2>1, <2>2 DEF ThrottleInv, Gap
  <1>10. CASE UNCHANGED vars
    BY <1>2, <1>10 DEF vars, sched, env
  <1> QED BY <1>3, <1>4, <1>5, <1>6, <1>7, <1>8, <1>9, <1>10 DEF Next, Loop

\* Multiplication is monotone.
LEMMA Scaled ==
  ASSUME NEW a \in Nat, NEW b \in Nat, NEW d \in Nat, a >= b
  PROVE  a * d >= d * b
  OBVIOUS

\* With a duty cap that divides the airtime in percent, and a gap of at most half the range of
\* millis(), a radio never exceeds the cap, however long it has been idle or up: the signed
\* comparison may hold a packet back too long but never lets one go too early.
THEOREM DutyKept ==
  Duty > 0 /\ (Air * 100) % Duty = 0 /\ 2 * Gap <= ClockMod => (Spec => DutyHeld)
  <1> SUFFICES ASSUME Duty > 0, (Air * 100) % Duty = 0, 2 * Gap <= ClockMod
               PROVE  Spec => DutyHeld
    OBVIOUS
  <1> DEFINE Inv == IndInv /\ DeadlineInv /\ ThrottleInv
             A == txStart' # txStart /\ txStart # 0 =>
                    (txStart' - txStart) * Duty >= Air * 100
  <1>1. Init => Inv
    <2> SUFFICES ASSUME Init PROVE Inv
      OBVIOUS
    <2>1. pc = "A" /\ now = 0 /\ nextTx = 0 /\ txStart = 0 /\ backoff = 0
      BY DEF Init
    <2> QED BY <2>1, InitInv, TimeAssumption DEF DeadlineInv, ThrottleInv
  <1>2. Inv /\ [Next]_vars => Inv'
    BY NextInv, DeadlineStep, ThrottleStep
  <1>3. Inv /\ [Next]_vars => A
    <2> SUFFICES ASSUME Inv, [Next]_vars, txStart' # txStart, txStart # 0
                 PROVE  (txStart' - txStart) * Duty >= Air * 100
      OBVIOUS
    <2>1. pc = "tx" /\ txStart' = now
      BY DEF Next, Loop, RxDone, TxDone, Enqueue, Tick, ScanTime, ServiceTx, NoTx, Drain, NoRx, NodeInfo,
             Schedule, CadBusy, CadClear, TxStart, TxAbort, vars, sched, env
    <2>2. txStart \in Nat /\ now \in Nat
      BY DEF IndInv, AgeInv
    <2>3. nextTx = txStart + Gap /\ nextTx <= now
      BY <2>1 DEF ThrottleInv
    <2> DEFINE a == now - txStart
               q == (Air * 100) \div Duty
    <2>4. Air * 100 \in Nat /\ Duty \in Nat
      BY TimeAssumption
    <2>5. q \in Nat /\ Air * 100 = Duty * q
      BY <2>4, Quotient, Exactly
    <2>6. a \in Nat /\ a >= q
      <3>1. Gap \in Nat /\ Gap >= q
        BY GapFacts
      <3> HIDE DEF q
      <3> QED BY <2>2, <2>3, <2>5, <3>1
    <2> HIDE DEF a, q
    <2>7. a * Duty >= Duty * q
      BY <2>4, <2>5, <2>6, Scaled
    <2>8. txStart' - txStart = a
      BY <2>1 DEF a
    <2> QED BY <2>5, <2>7, <2>8
  <1> HIDE DEF A, Inv
  <1>4. Inv /\ [Next]_vars => [A]_vars
    BY <1>3
  <1>5. Spec => [][A]_vars
    BY <1>1, <1>2, <1>4, PTL DEF Spec
  <1> QED BY <1>5 DEF DutyHeld, A

-----------------------------------------------------------------------------
\* pop() takes the oldest packet that is fresh and everything before it, or all there is.
LEMMA PopFacts ==
  \/ Popped = <<>> /\ Unpopped = <<>>
  \/ \E k \in 1..Len(queue) : /\ Popped = <<queue[k]>>
                              /\ Unpopped = SubSeq(queue, k + 1, Len(queue))
                              /\ ~Older(queue[k], MaxAge)
  <1>1. CASE \E k \in 1..Len(queue) : FirstFresh(k)
    <2> DEFINE c == CHOOSE k \in 1..Len(queue) : FirstFresh(k)
    <2>1. c \in 1..Len(queue) /\ FirstFresh(c)
      BY <1>1
    <2>2. Popped = <<queue[c]>> /\ Unpopped = SubSeq(queue, c + 1, Len(queue))
      BY <1>1 DEF Popped, Unpopped
    <2> HIDE DEF c
    <2> QED BY <2>1, <2>2 DEF FirstFresh
  <1>2. CASE ~\E k \in 1..Len(queue) : FirstFresh(k)
    BY <1>2 DEF Popped, Unpopped
  <1> QED BY <1>1, <1>2

\* What a suffix of a sequence holds.
LEMMA SuffixFacts ==
  ASSUME NEW s \in Seq(Nat), NEW k \in 1..Len(s)
  PROVE  LET r == SubSeq(s, k + 1, Len(s)) IN
         /\ r \in Seq(Nat) /\ Len(r) = Len(s) - k
         /\ \A i \in 1..Len(r) : i + k \in 1..Len(s) /\ r[i] = s[i + k]
  <1>1. Len(s) \in Nat /\ k \in Nat /\ k <= Len(s)
    OBVIOUS
  <1> QED BY <1>1

\* What push() leaves: the old packets, without the first of a full queue, and the new one.
LEMMA PushFacts ==
  ASSUME NEW s \in Seq(Nat), NEW t \in Nat
  PROVE  \E d \in {0, 1} : LET r == Pushed(s, t) IN
         /\ r \in Seq(Nat) /\ Len(r) = Len(s) + 1 - d /\ r[Len(r)] = t
         /\ \A i \in 1..(Len(r) - 1) : i + d \in 1..Len(s) /\ r[i] = s[i + d]
  <1>1. CASE Len(s) = Cap
    <2>1. Len(s) \in Nat /\ Len(s) > 0 /\ s # <<>>
      BY <1>1, BoundAssumption
    <2> DEFINE u == Tail(s)
    <2>2. u \in Seq(Nat) /\ Len(u) = Len(s) - 1 /\ \A i \in 1..Len(u) : u[i] = s[i + 1]
      BY <2>1
    <2>3. Pushed(s, t) = Append(u, t)
      BY <1>1 DEF Pushed
    <2> HIDE DEF u
    <2>4. /\ Pushed(s, t) \in Seq(Nat) /\ Len(Pushed(s, t)) = Len(s) + 1 - 1
          /\ Pushed(s, t)[Len(Pushed(s, t))] = t
      BY <2>1, <2>2, <2>3
    <2>5. \A i \in 1..(Len(Pushed(s, t)) - 1) : i + 1 \in 1..Len(s) /\ Pushed(s, t)[i] = s[i + 1]
      BY <2>1, <2>2, <2>3
    <2> QED BY <2>4, <2>5
  <1>2. CASE Len(s) # Cap
    <2>1. Pushed(s, t) = Append(s, t) /\ Len(s) \in Nat
      BY <1>2 DEF Pushed
    <2>2. /\ Pushed(s, t) \in Seq(Nat) /\ Len(Pushed(s, t)) = Len(s) + 1 - 0
          /\ Pushed(s, t)[Len(Pushed(s, t))] = t
      BY <2>1
    <2>3. \A i \in 1..(Len(Pushed(s, t)) - 1) : i + 0 \in 1..Len(s) /\ Pushed(s, t)[i] = s[i + 0]
      BY <2>1
    <2> QED BY <2>2, <2>3
  <1> QED BY <1>1, <1>2

\* A push keeps the order of a queue and the age of what is in it.
LEMMA PushKeeps ==
  ASSUME NEW s, NEW n \in Nat, Ordered(s, n)
  PROVE  /\ Ordered(Pushed(s, n), n)
         /\ \A t \in Nat : t <= n /\ Behind(s, t) => Behind(Pushed(s, n), t)
         /\ \A b \in Nat : Young(s, n, b) => Young(Pushed(s, n), n, b)
  <1>1. s \in Seq(Nat) /\ Len(s) \in Nat
    BY DEF Ordered
  <1>2. PICK r : r = Pushed(s, n)
    OBVIOUS
  <1>3. PICK d \in {0, 1} :
          /\ r \in Seq(Nat) /\ Len(r) = Len(s) + 1 - d /\ r[Len(r)] = n
          /\ \A i \in 1..(Len(r) - 1) : i + d \in 1..Len(s) /\ r[i] = s[i + d]
    BY <1>1, <1>2, PushFacts
  <1>4. Len(r) \in Nat
    BY <1>3
  <1>5. \A i \in 1..Len(r) : i = Len(r) \/ i \in 1..(Len(r) - 1)
    BY <1>4
  <1>6. \A i \in 1..Len(r) : r[i] \in Nat /\ r[i] <= n
    <2> TAKE i \in 1..Len(r)
    <2>1. CASE i = Len(r)
      BY <1>3, <2>1
    <2>2. CASE i \in 1..(Len(r) - 1)
      <3>1. i + d \in 1..Len(s) /\ r[i] = s[i + d]
        BY <1>3, <2>2
      <3>2. s[i + d] \in Nat /\ s[i + d] <= n
        BY <1>1, <3>1 DEF Ordered
      <3> QED BY <3>1, <3>2
    <2> QED BY <1>5, <2>1, <2>2
  <1>7. ASSUME NEW i \in 1..Len(r), NEW j \in 1..Len(r), i <= j PROVE r[i] <= r[j]
    <2>1. CASE j = Len(r)
      BY <1>3, <1>6, <2>1
    <2>2. CASE j \in 1..(Len(r) - 1)
      <3>1. i \in 1..(Len(r) - 1)
        BY <1>4, <1>7, <2>2
      <3>2. i + d \in 1..Len(s) /\ j + d \in 1..Len(s) /\ i + d <= j + d
        BY <1>3, <1>7, <2>2, <3>1
      <3>3. r[i] = s[i + d] /\ r[j] = s[j + d]
        BY <1>3, <2>2, <3>1
      <3> QED BY <3>2, <3>3 DEF Ordered
    <2> QED BY <1>5, <2>1, <2>2
  <1>8. ASSUME NEW t \in Nat, t <= n, Behind(s, t) PROVE Behind(r, t)
    <2> SUFFICES ASSUME NEW i \in 1..Len(r) PROVE t <= r[i]
      BY DEF Behind
    <2>1. CASE i = Len(r)
      BY <1>3, <1>8, <2>1
    <2>2. CASE i \in 1..(Len(r) - 1)
      BY <1>3, <1>8, <2>2 DEF Behind
    <2> QED BY <1>5, <2>1, <2>2
  <1>9. ASSUME NEW b \in Nat, Young(s, n, b) PROVE Young(r, n, b)
    <2> SUFFICES ASSUME NEW i \in 1..Len(r) PROVE n - r[i] <= b
      BY DEF Young
    <2>1. CASE i = Len(r)
      BY <1>3, <2>1
    <2>2. CASE i \in 1..(Len(r) - 1)
      BY <1>3, <1>9, <2>2 DEF Young
    <2> QED BY <1>5, <2>1, <2>2
  <1>10. Ordered(r, n)
    BY <1>3, <1>6, <1>7 DEF Ordered
  <1> QED BY <1>2, <1>8, <1>9, <1>10

\* A pop leaves an ordered queue, pushed after the packet it takes.
LEMMA PopKeeps ==
  ASSUME NEW s, NEW n \in Nat, Ordered(s, n), NEW k \in 1..Len(s)
  PROVE  /\ Ordered(SubSeq(s, k + 1, Len(s)), n)
         /\ Behind(SubSeq(s, k + 1, Len(s)), s[k])
  <1>1. s \in Seq(Nat) /\ Len(s) \in Nat /\ k \in Nat
    BY DEF Ordered
  <1>2. PICK r : r = SubSeq(s, k + 1, Len(s))
    OBVIOUS
  <1>3. /\ r \in Seq(Nat) /\ Len(r) = Len(s) - k
        /\ \A i \in 1..Len(r) : i + k \in 1..Len(s) /\ r[i] = s[i + k]
    BY <1>1, <1>2, SuffixFacts
  <1>4. \A i \in 1..Len(r) : r[i] <= n
    BY <1>3 DEF Ordered
  <1>5. ASSUME NEW i \in 1..Len(r), NEW j \in 1..Len(r), i <= j PROVE r[i] <= r[j]
    <2>1. i + k <= j + k /\ i + k \in 1..Len(s) /\ j + k \in 1..Len(s)
      BY <1>1, <1>3, <1>5
    <2> QED BY <1>3, <2>1 DEF Ordered
  <1>6. Behind(r, s[k])
    <2> SUFFICES ASSUME NEW i \in 1..Len(r) PROVE s[k] <= r[i]
      BY DEF Behind
    <2>1. k <= i + k /\ i + k \in 1..Len(s)
      BY <1>1, <1>3
    <2> QED BY <1>3, <2>1 DEF Ordered
  <1>7. Ordered(r, n)
    BY <1>3, <1>4, <1>5 DEF Ordered
  <1> QED BY <1>2, <1>6, <1>7

\* A moment later.
LEMMA LaterKeeps ==
  ASSUME NEW s, NEW n \in Nat, Ordered(s, n)
  PROVE  /\ Ordered(s, n + 1)
         /\ \A b \in Int : Young(s, n, b) => Young(s, n + 1, b + 1)
  <1>1. s \in Seq(Nat) /\ \A i \in 1..Len(s) : s[i] \in Nat
    BY DEF Ordered
  <1>2. \A i \in 1..Len(s) : s[i] <= n + 1
    BY <1>1 DEF Ordered
  <1>3. ASSUME NEW b \in Int, Young(s, n, b), NEW i \in 1..Len(s) PROVE n + 1 - s[i] <= b + 1
    <2>1. s[i] \in Nat /\ n - s[i] <= b
      BY <1>1, <1>3 DEF Young
    <2> QED BY <2>1
  <1> QED BY <1>1, <1>2, <1>3 DEF Ordered, Young

\* A queue behind a packet of age b is as young.
LEMMA BehindYoung ==
  ASSUME NEW s, NEW n \in Nat, Ordered(s, n), NEW t \in Nat, NEW b \in Int,
         Behind(s, t), n - t <= b
  PROVE  Young(s, n, b)
  <1> SUFFICES ASSUME NEW i \in 1..Len(s) PROVE n - s[i] <= b
    BY DEF Young
  <1>1. s[i] \in Nat /\ t <= s[i]
    BY DEF Ordered, Behind
  <1> QED BY <1>1

\* A queue that is younger than b is younger than any longer time.
LEMMA YoungWeaker ==
  ASSUME NEW s, NEW n \in Nat, Ordered(s, n), NEW b \in Int, NEW c \in Int, b <= c, Young(s, n, b)
  PROVE  Young(s, n, c)
  <1> SUFFICES ASSUME NEW i \in 1..Len(s) PROVE n - s[i] <= c
    BY DEF Young
  <1>1. s[i] \in Nat /\ n - s[i] <= b
    BY DEF Ordered, Young
  <1> QED BY <1>1

\* A packet that is not too old by the unsigned comparison, and less than a lap old, is not
\* too old.
LEMMA NotStale ==
  ASSUME NEW t \in Nat, now \in Nat, t <= now, now - t < ClockMod, ~Older(t, MaxAge)
  PROVE  now - t <= MaxAge
  <1>1. (now - t) % ClockMod = now - t
    BY TrueAge
  <1> QED BY <1>1, TimeAssumption DEF Older

\* What holds of latch and queue before and after a step of the scheduler (D).
LEMMA ScheduleWait ==
  ASSUME MaxAge + Inflight + Scan + 2 < ClockMod, IndInv, StampInv, WaitInv, Schedule
  PROVE  StampInv' /\ WaitInv'
  <1>t. /\ now \in Nat /\ MaxAge \in Nat /\ Inflight \in Nat /\ ClockMod \in Nat /\ Scan \in Nat
        /\ Ordered(queue, now) /\ queue \in Seq(Nat) /\ scan \in 0..Scan
    BY TimeAssumption DEF IndInv, AgeInv, StampInv, WaitInv, Ordered
  <1>0. /\ pc = "D" /\ ~busy /\ ~busy' /\ now' = now /\ Slept = 1 /\ Slack = Scan + Inflight + 2
        /\ pc' \in {"cad", "sleep"} /\ Slept' = 0 /\ Slack' = Scan + Inflight + 1
        /\ scan' = 0
        /\ (latch' = <<>> => pc' = "sleep")
    <2>1. pc = "D" /\ pc' \in {"cad", "sleep"} /\ busy' = busy /\ now' = now /\ scan' = 0
      BY DEF Schedule
    <2>2. ~busy
      BY <2>1 DEF IndInv, BusyInv
    <2>3. latch' = <<>> => pc' = "sleep"
      BY DEF Schedule
    <2>4. Slept = 1 /\ Slept' = 0
      BY <2>1 DEF Slept
    <2>5. Slack = Scan + Inflight + 2 /\ Slack' = Scan + Inflight + 1
      BY <1>t, <2>1, <2>2, <2>4 DEF Slack
    <2> QED BY <2>1, <2>2, <2>3, <2>4, <2>5
  <1>1. ASSUME latch' = <<>>, Ordered(queue', now), Young(queue', now, MaxAge + Scan + Inflight + 1)
        PROVE  StampInv' /\ WaitInv'
    <2>1. MaxAge + Slack' = MaxAge + Scan + Inflight + 1
      BY <1>0, <1>t
    <2>2. Ordered(queue', now') /\ Young(queue', now', MaxAge + Slack')
      BY <1>0, <1>1, <2>1
    <2>3. scan' \in 0..Scan
      BY <1>0, <1>t
    <2> QED BY <1>0, <1>1, <2>2, <2>3 DEF StampInv, WaitInv, Ordered, Young
  <1>2. ASSUME NEW t \in Nat, latch' = <<t>>, Ordered(queue', now), Behind(queue', t),
               t <= now, now - t <= MaxAge
        PROVE  StampInv' /\ WaitInv'
    <2>1. latch' # <<>> /\ latch'[1] = t
      BY <1>2
    <2>2. Ordered(queue', now') /\ Behind(queue', latch'[1]) /\ now' - latch'[1] <= MaxAge + scan' + Slept'
      BY <1>0, <1>2, <1>t, <2>1
    <2>3. scan' \in 0..Scan
      BY <1>0, <1>t
    <2> QED BY <1>0, <1>2, <2>1, <2>2, <2>3 DEF StampInv, WaitInv, Ordered, Behind
  <1>3. CASE latch # <<>>
    <2> DEFINE t == latch[1]
    <2>1. t \in Nat /\ t <= now /\ Behind(queue, t) /\ now - t <= MaxAge + Scan + 1
      BY <1>0, <1>3, <1>t DEF StampInv, WaitInv
    <2>2. queue' = queue /\ latch' = Expire(latch)
      BY <1>3 DEF Schedule
    <2>3. CASE Older(t, MaxAge)
      <3>1. latch' = <<>>
        BY <1>3, <2>2, <2>3 DEF Expire
      <3>2. Young(queue, now, MaxAge + Scan + Inflight + 1)
        BY <1>t, <2>1, BehindYoung
      <3> QED BY <1>1, <1>t, <2>2, <3>1, <3>2
    <2>4. CASE ~Older(t, MaxAge)
      <3>1. latch' = latch
        BY <2>2, <2>4 DEF Expire
      <3>2. now - t <= MaxAge
        BY <1>t, <2>1, <2>4, NotStale
      <3> QED
        <4>1. latch' # <<>> /\ latch'[1] = t
          BY <1>3, <3>1
        <4>2. now' - latch'[1] <= MaxAge + scan' + Slept'
          BY <1>0, <1>t, <2>1, <3>2, <4>1
        <4>3. scan' \in 0..Scan
          BY <1>0, <1>t
        <4> QED BY <1>0, <1>t, <2>1, <2>2, <4>1, <4>2, <4>3 DEF StampInv, WaitInv, Ordered, Behind
    <2> QED BY <2>3, <2>4
  <1>4. CASE latch = <<>>
    <2>1. queue' = Unpopped /\ latch' = Expire(Popped)
      BY <1>4 DEF Schedule
    <2>2. CASE Popped = <<>> /\ Unpopped = <<>>
      <3>1. latch' = <<>> /\ queue' = <<>>
        BY <2>1, <2>2 DEF Expire
      <3>2. Ordered(queue', now) /\ Young(queue', now, MaxAge + Scan + Inflight + 1)
        BY <3>1 DEF Ordered, Young
      <3> QED BY <1>1, <3>1, <3>2
    <2>3. ASSUME NEW k \in 1..Len(queue), Popped = <<queue[k]>>,
                 Unpopped = SubSeq(queue, k + 1, Len(queue)), ~Older(queue[k], MaxAge)
          PROVE  StampInv' /\ WaitInv'
      <3>1. PICK t : t = queue[k]
        OBVIOUS
      <3>2. t \in Nat /\ t <= now
        BY <1>t, <3>1 DEF Ordered
      <3>3. now - t <= MaxAge + Scan + Inflight + 2
        <4>1. Young(queue, now, MaxAge + Slack)
          BY <1>4 DEF WaitInv
        <4>2. now - t <= MaxAge + Slack
          BY <3>1, <4>1 DEF Young
        <4> QED BY <1>0, <1>t, <3>2, <4>2
      <3>4. now - t <= MaxAge
        BY <1>t, <2>3, <3>1, <3>2, <3>3, NotStale
      <3>5. latch' = <<t>>
        BY <2>1, <2>3, <3>1 DEF Expire
      <3>6. Ordered(queue', now) /\ Behind(queue', t)
        BY <1>t, <2>1, <2>3, <3>1, PopKeeps
      <3> QED BY <1>2, <3>2, <3>4, <3>5, <3>6
    <2> QED BY <2>2, <2>3, PopFacts
  <1> QED BY <1>3, <1>4

\* Every step keeps the order and the age of what waits, if the maximum age and the time a
\* transmission can take stay below the range of millis().
LEMMA WaitStep ==
  ASSUME MaxAge + Inflight + Scan + 2 < ClockMod
  PROVE  IndInv /\ StampInv /\ WaitInv /\ [Next]_vars => StampInv' /\ WaitInv'
  <1> SUFFICES ASSUME IndInv, StampInv, WaitInv, [Next]_vars PROVE StampInv' /\ WaitInv'
    OBVIOUS
  <1>t. /\ now \in Nat /\ txStart \in Nat /\ MaxAge \in Nat /\ Inflight \in Nat
        /\ Scan \in Nat /\ scan \in 0..Scan
        /\ Ordered(queue, now) /\ Slept \in {0, 1} /\ Slack \in Int /\ Slack >= 0
    <2>1. now \in Nat /\ txStart \in Nat /\ (busy => txStart <= now)
      BY DEF IndInv, AgeInv
    <2>2. MaxAge \in Nat /\ Inflight \in Nat /\ Scan \in Nat /\ scan \in 0..Scan
      BY TimeAssumption DEF WaitInv
    <2>3. Slept \in {0, 1} /\ (pc \in {"A", "B", "C", "D"} => Slept = 1)
      BY DEF Slept
    <2>4. Slack \in Int /\ Slack >= 0
      BY <2>1, <2>2, <2>3 DEF Slack
    <2>5. Ordered(queue, now)
      BY DEF StampInv
    <2> QED BY <2>1, <2>2, <2>3, <2>4, <2>5
  <1>1. ASSUME UNCHANGED <<queue, latch, now>> PROVE StampInv'
    BY <1>1 DEF StampInv, Ordered, Behind
  <1>2. ASSUME UNCHANGED <<queue, latch, now, scan, busy, txStart>>, Slept' = Slept,
               pc' \in {"cad", "tx"} => pc \in {"cad", "tx"}
        PROVE  WaitInv'
    <2>1. Slack' = Slack
      BY <1>2 DEF Slack
    <2> QED BY <1>2, <2>1 DEF WaitInv, Young
  <1>3. ASSUME queue' = Pushed(queue, now), UNCHANGED <<latch, now, scan, busy, txStart>>, Slept' = Slept,
               pc' \in {"cad", "tx"} => pc \in {"cad", "tx"}
        PROVE  StampInv' /\ WaitInv'
    <2>1. Slack' = Slack
      BY <1>3 DEF Slack
    <2>2. Ordered(queue', now)
      BY <1>3, <1>t, PushKeeps
    <2>3. latch # <<>> => Behind(queue', latch[1])
      BY <1>3, <1>t, PushKeeps DEF StampInv
    <2>4. MaxAge + Slack \in Nat
      BY <1>t
    <2>5. latch = <<>> => Young(queue', now, MaxAge + Slack)
      BY <1>3, <1>t, <2>4, PushKeeps DEF WaitInv
    <2>6. StampInv'
      BY <1>3, <2>2, <2>3 DEF StampInv, Ordered, Behind
    <2>7. WaitInv'
      BY <1>3, <2>1, <2>5 DEF WaitInv, Young
    <2> QED BY <2>6, <2>7
  <1>4. CASE RxDone \/ TxDone
    <2>1. UNCHANGED <<queue, latch, now, scan, busy, txStart, pc>>
      BY <1>4 DEF RxDone, TxDone, sched, env
    <2>2. Slept' = Slept
      BY <2>1 DEF Slept
    <2> QED BY <1>1, <1>2, <2>1, <2>2
  <1>5. CASE Enqueue
    <2>1. queue' = Pushed(queue, now) /\ UNCHANGED <<latch, now, scan, busy, txStart, pc>>
      BY <1>5 DEF Enqueue, sched
    <2>2. Slept' = Slept
      BY <2>1 DEF Slept
    <2> QED BY <1>3, <2>1, <2>2
  <1>6. CASE Tick
    <2>1. pc = "sleep" /\ pc' = "A" /\ now' = now + 1 /\ UNCHANGED <<queue, latch, scan, busy, txStart>>
      BY <1>6 DEF Tick, sched
    <2>2. Slept = 0 /\ Slept' = 1
      BY <2>1 DEF Slept
    <2>3. Slack' = Slack + 1
      BY <1>t, <2>1, <2>2 DEF Slack
    <2>4. Ordered(queue, now + 1)
      BY <1>t, LaterKeeps
    <2>5. latch = <<>> => Young(queue, now + 1, MaxAge + Slack + 1)
      <3>1. MaxAge + Slack \in Int
        BY <1>t
      <3> QED BY <1>t, <3>1, LaterKeeps DEF WaitInv
    <2>6. latch # <<>> => /\ latch[1] \in Nat /\ latch[1] <= now + 1 /\ ~busy
                          /\ now + 1 - latch[1] <= MaxAge + scan + 1 /\ Behind(queue, latch[1])
      BY <1>t, <2>2 DEF StampInv, WaitInv
    <2>7. MaxAge + Slack' = MaxAge + Slack + 1 /\ MaxAge + scan' + Slept' = MaxAge + scan + 1
      BY <1>t, <2>1, <2>2, <2>3
    <2>8. StampInv'
      BY <2>1, <2>4, <2>6 DEF StampInv, Ordered, Behind
    <2>9. WaitInv'
      <3>1. ASSUME latch' # <<>> PROVE ~busy' /\ now' - latch'[1] <= MaxAge + scan' + Slept'
        <4>1. latch' = latch /\ latch # <<>> /\ busy' = busy /\ now' = now + 1
          BY <2>1, <3>1
        <4>2. ~busy /\ now + 1 - latch[1] <= MaxAge + scan + 1
          BY <2>6, <4>1
        <4>3. now' - latch'[1] <= MaxAge + scan + 1
          <5>1. PICK x : x = latch[1]
            OBVIOUS
          <5>2. latch'[1] = x /\ now + 1 - x <= MaxAge + scan + 1 /\ x \in Nat
            BY <2>6, <4>1, <5>1
          <5> QED BY <1>t, <4>1, <5>2
        <4> QED BY <2>7, <4>1, <4>2, <4>3
      <3>2. latch' = <<>> => Young(queue, now', MaxAge + Slack')
        BY <2>1, <2>5, <2>7
      <3> QED BY <2>1, <3>1, <3>2 DEF WaitInv, Young
    <2> QED BY <2>8, <2>9
  <1>14. CASE ScanTime
    <2>1. /\ pc \in {"cad", "tx"} /\ pc' = pc /\ now' = now + 1 /\ scan' = scan + 1 /\ scan < Scan
          /\ UNCHANGED <<queue, latch, busy>>
      BY <1>14 DEF ScanTime, sched
    <2>2. Slept = 0 /\ Slept' = 0 /\ latch # <<>>
      BY <2>1 DEF Slept, WaitInv
    <2>3. /\ latch[1] \in Nat /\ latch[1] <= now /\ ~busy /\ Behind(queue, latch[1])
          /\ now - latch[1] <= MaxAge + scan + 0
      BY <2>2 DEF StampInv, WaitInv
    <2>4. PICK x : x = latch[1]
      OBVIOUS
    <2>5. x \in Nat /\ x <= now + 1 /\ now + 1 - x <= MaxAge + (scan + 1) + 0
      BY <1>t, <2>3, <2>4
    <2>6. Ordered(queue, now + 1)
      BY <1>t, LaterKeeps
    <2>7. StampInv'
      BY <2>1, <2>3, <2>4, <2>5, <2>6 DEF StampInv, Ordered, Behind
    <2>8. scan' \in 0..Scan
      BY <1>t, <2>1
    <2>9. ~busy'
      BY <2>1, <2>3
    <2>10. now' - latch'[1] <= MaxAge + scan' + Slept'
      <3>1. PICK y, n, d, z : y = latch'[1] /\ n = now' /\ d = scan' /\ z = Slept'
        OBVIOUS
      <3>2. y = x
        BY <2>1, <2>4, <3>1
      <3>3. n = now + 1 /\ d = scan + 1 /\ z = 0
        BY <2>1, <2>2, <3>1
      <3>4. n - y <= MaxAge + d + z
        BY <1>t, <2>5, <3>2, <3>3
      <3> QED BY <3>1, <3>4
    <2> QED BY <2>1, <2>2, <2>7, <2>8, <2>9, <2>10 DEF WaitInv
  <1>7. CASE ServiceTx
    <2>1. pc = "A" /\ busy /\ pc' = "sleep" /\ UNCHANGED <<queue, latch, now, scan, txStart>>
      BY <1>7 DEF ServiceTx, env
    <2>2. latch = <<>> /\ Young(queue, now, MaxAge + (Scan + (now - txStart)))
      BY <2>1 DEF WaitInv, Slack
    <2>3. busy' \in BOOLEAN
      BY <2>1, <1>7 DEF ServiceTx, chip
    <2>4. Slept' = 0
      BY <2>1 DEF Slept
    <2>5. now - txStart <= Inflight + 1
      BY <2>1 DEF IndInv, AgeInv
    <2>6. Slack' \in Int /\ Scan + (now - txStart) <= Slack'
      BY <1>t, <2>1, <2>3, <2>4, <2>5 DEF Slack
    <2>7. PICK z : z = Slack'
      OBVIOUS
    <2>8. Young(queue, now, MaxAge + z)
      <3>1. /\ MaxAge + (Scan + (now - txStart)) \in Int /\ MaxAge + z \in Int
            /\ MaxAge + (Scan + (now - txStart)) <= MaxAge + z
        <4>1. z \in Int /\ Scan + (now - txStart) <= z
          BY <2>6, <2>7
        <4> QED BY <1>t, <4>1
      <3> QED BY <1>t, <2>2, <3>1, YoungWeaker
    <2>9. WaitInv'
      BY <1>t, <2>1, <2>2, <2>7, <2>8 DEF WaitInv, Young
    <2> QED BY <1>1, <2>1, <2>9
  <1>8. CASE NoTx \/ Drain \/ NoRx
    <2>1. /\ UNCHANGED <<queue, latch, now, scan, busy, txStart>>
          /\ pc \in {"A", "B"} /\ pc' \in {"B", "C"}
      BY <1>8 DEF NoTx, Drain, NoRx, sched, env
    <2>2. Slept' = Slept
      BY <2>1 DEF Slept
    <2> QED BY <1>1, <1>2, <2>1, <2>2
  <1>9. CASE NodeInfo
    <2>1. /\ queue' \in {Pushed(queue, now), queue} /\ UNCHANGED <<latch, now, scan, busy, txStart>>
          /\ pc = "C" /\ pc' = "D"
      BY <1>9 DEF NodeInfo, sched, env
    <2>2. Slept' = Slept
      BY <2>1 DEF Slept
    <2>3. CASE queue' = queue
      BY <1>1, <1>2, <2>1, <2>2, <2>3
    <2>4. CASE queue' = Pushed(queue, now)
      BY <1>3, <2>1, <2>2, <2>4
    <2> QED BY <2>1, <2>3, <2>4
  <1>10. CASE Schedule
    BY <1>10, ScheduleWait
  <1>11. CASE CadBusy \/ CadClear
    <2>1. /\ UNCHANGED <<queue, latch, now, scan, busy, txStart>>
          /\ pc = "cad" /\ pc' \in {"sleep", "tx"}
      BY <1>11 DEF CadBusy, CadClear, sched, env
    <2>2. Slept' = Slept
      BY <2>1 DEF Slept
    <2> QED BY <1>1, <1>2, <2>1, <2>2
  <1>12. CASE TxStart \/ TxAbort
    <2>1. /\ UNCHANGED <<queue, now, scan>> /\ latch' = <<>> /\ pc = "tx" /\ pc' = "sleep"
          /\ busy' \in BOOLEAN /\ (busy' => txStart' = now)
      <3>1. CASE TxStart
        BY <3>1 DEF TxStart, env
      <3>2. CASE TxAbort
        BY <3>2 DEF TxAbort, env, IndInv, BusyInv, ChipType
      <3> QED BY <1>12, <3>1, <3>2
    <2>2. Slept = 0 /\ Slept' = 0
      BY <2>1 DEF Slept
    <2>3. latch[1] \in Nat /\ Behind(queue, latch[1]) /\ now - latch[1] <= MaxAge + Scan
      <3>1. /\ latch[1] \in Nat /\ Behind(queue, latch[1])
            /\ now - latch[1] <= MaxAge + scan + 0
        BY <2>1, <2>2 DEF StampInv, WaitInv
      <3> QED BY <1>t, <3>1
    <2>4. Slack' \in Int /\ Slack' >= Scan
      BY <1>t, <2>1, <2>2 DEF Slack
    <2>5. PICK z : z = Slack'
      OBVIOUS
    <2>6. Young(queue, now, MaxAge + z)
      <3>1. z \in Int /\ z >= Scan
        BY <2>4, <2>5
      <3>2. MaxAge + z \in Int /\ now - latch[1] <= MaxAge + z
        BY <1>t, <2>3, <3>1
      <3> QED BY <1>t, <2>3, <3>2, BehindYoung
    <2>7. WaitInv'
      BY <1>t, <2>1, <2>5, <2>6 DEF WaitInv, Young
    <2>8. StampInv'
      BY <1>t, <2>1 DEF StampInv, Ordered
    <2> QED BY <2>7, <2>8
  <1>13. CASE UNCHANGED vars
    <2>1. UNCHANGED <<queue, latch, now, scan, busy, txStart, pc>>
      BY <1>13 DEF vars, sched, env
    <2>2. Slept' = Slept
      BY <2>1 DEF Slept
    <2> QED BY <1>1, <1>2, <2>1, <2>2
  <1> QED BY <1>4, <1>5, <1>6, <1>7, <1>8, <1>9, <1>10, <1>11, <1>12, <1>13,
             <1>14 DEF Next, Loop

\* Nothing goes on the air that was older than the maximum age when its task went for the
\* channel, however often millis() has wrapped, if the maximum age, the in-flight timeout and
\* the way to the channel together fit in its range with two milliseconds to spare.  Without
\* that a packet that waited for a whole transmission looks as if it had just been queued.
THEOREM SendsFresh == MaxAge + Inflight + Scan + 2 < ClockMod => (Spec => SentFresh)
  <1> SUFFICES ASSUME MaxAge + Inflight + Scan + 2 < ClockMod PROVE Spec => SentFresh
    OBVIOUS
  <1> DEFINE Inv == IndInv /\ StampInv /\ WaitInv
             A == busy' /\ ~busy => now - latch[1] <= MaxAge + Scan
  <1>1. Init => Inv
    <2> SUFFICES ASSUME Init PROVE Inv
      OBVIOUS
    <2>1. pc = "A" /\ latch = <<>> /\ queue = <<>> /\ scan \in 0..Scan
      BY TimeAssumption DEF Init
    <2> QED BY <2>1, InitInv DEF StampInv, WaitInv, Ordered, Young
  <1>2. Inv /\ [Next]_vars => Inv'
    BY NextInv, WaitStep
  <1>3. Inv /\ [Next]_vars => A
    <2> SUFFICES ASSUME Inv, [Next]_vars, busy', ~busy PROVE now - latch[1] <= MaxAge + Scan
      OBVIOUS
    <2>1. pc = "tx"
      BY DEF Next, Loop, RxDone, TxDone, Enqueue, Tick, ScanTime, ServiceTx, NoTx, Drain, NoRx, NodeInfo,
             Schedule, CadBusy, CadClear, TxStart, TxAbort, vars, sched, chip
    <2>2. latch # <<>> /\ Slept = 0
      BY <2>1 DEF WaitInv, Slept
    <2>3. /\ now - latch[1] <= MaxAge + scan + 0 /\ scan \in 0..Scan
          /\ now \in Nat /\ latch[1] \in Nat
      BY <2>2 DEF WaitInv, StampInv, IndInv, AgeInv
    <2> QED BY <2>3, TimeAssumption
  <1> HIDE DEF A, Inv
  <1>4. Inv /\ [Next]_vars => [A]_vars
    BY <1>3
  <1>5. Spec => [][A]_vars
    BY <1>1, <1>2, <1>4, PTL DEF Spec
  <1> QED BY <1>5 DEF SentFresh, A
=============================================================================
