-------------------------- MODULE CoprocLinkProofs --------------------------
(***************************************************************************)
(* Proofs about CoprocLink, for every depth of the two queues and every    *)
(* number of packets, boots and damaged frames.                            *)
(* Numbers flow through the link in one direction each.  A packet to send  *)
(* goes from h2c to txq to the air and is answered on c2h; a received one  *)
(* goes from the chip to c2h to rxQ to radioTask.  The invariants say that *)
(* what is further along the way is older, that nothing is younger than    *)
(* the last packet handed out, and that a packet still on its way has not  *)
(* been answered.                                                          *)
(***************************************************************************)
EXTENDS CoprocLink, SequenceTheorems, TLAPS

\* The elements of a sequence, and the numbers of the frames of one type.
Elems(s) == {s[i] : i \in 1..Len(s)}
Of(s, type) == {s[i].pkt : i \in {j \in 1..Len(s) : s[j].type = type}}

Increasing(s) == \A m, n \in 1..Len(s) : m < n => s[m] < s[n]
Sorted(s, type) ==
  \A m, n \in 1..Len(s) :
    m < n /\ s[m].type = type /\ s[n].type = type => s[m].pkt < s[n].pkt

Before(A, B) == \A a \in A, b \in B : a < b

\* The last packet handed to the co-processor: not the one for which
\* startTransmit has armed the gate and not yet sent the frame.
Out == IF gate = "armed" THEN sent - 1 ELSE sent

OnAir == {air[i].pkt : i \in 1..Len(air)}
Waiting == Elems(txq) \cup Of(h2c, "TX")
Held == IF chip = 0 THEN {} ELSE {chip}

\* No number is ahead of the ones handed out.
TxBound ==
  /\ gate = "armed" => sent >= 1
  /\ Elems(txq) \subseteq 1..Out /\ Of(h2c, "TX") \subseteq 1..Out
  /\ Elems(active) \subseteq 1..Out
  /\ OnAir \subseteq 1..Out
  /\ Of(c2h, "TX_DONE") \subseteq 1..Out
  /\ released \subseteq 1..Out

\* The packets to send are in order along their way.
TxOrder ==
  /\ AirOnceInOrder
  /\ Increasing(txq)
  /\ Sorted(h2c, "TX")
  /\ Before(OnAir, Elems(txq)) /\ Before(OnAir, Of(h2c, "TX"))
  /\ Before(Elems(active), Elems(txq)) /\ Before(Elems(active), Of(h2c, "TX"))
  /\ Before(Elems(txq), Of(h2c, "TX"))

\* A packet that is still to be answered has not been.
DoneInv ==
  \A p \in Pkts :
    /\ done[p] <= 1
    /\ p > Out \/ p \in Elems(txq) \/ p \in Of(h2c, "TX") \/ p \in Elems(active)
       => done[p] = 0

\* From the moment the gate is armed.
GateInv == gate # "idle" /\ sent \in released => txDone

RxBound ==
  /\ Of(c2h, "RX") \subseteq 1..heardRx
  /\ Elems(rxQ) \subseteq 1..heardRx
  /\ Elems(got) \subseteq 1..heardRx
  /\ chip <= heardRx

\* The received packets are in order along their way.
RxOrder ==
  /\ Increasing(got) /\ Increasing(rxQ) /\ Sorted(c2h, "RX")
  /\ Before(Elems(got), Elems(rxQ)) /\ Before(Elems(got), Of(c2h, "RX"))
  /\ Before(Elems(rxQ), Of(c2h, "RX"))
  /\ Before(Elems(got), Held) /\ Before(Elems(rxQ), Held)
  /\ Before(Of(c2h, "RX"), Held)

-----------------------------------------------------------------------------
(* Sequences *)

\* What a frame or a number put at the end adds.
LEMMA AppendElems ==
  ASSUME NEW S, NEW s \in Seq(S), NEW x \in S
  PROVE  /\ Append(s, x) \in Seq(S)
         /\ Elems(Append(s, x)) = Elems(s) \cup {x}
  <1>1. /\ Append(s, x) \in Seq(S) /\ Len(Append(s, x)) = Len(s) + 1
        /\ Len(s) \in Nat
        /\ \A i \in 1..Len(s) : Append(s, x)[i] = s[i]
        /\ Append(s, x)[Len(s) + 1] = x
    BY AppendProperties, LenProperties
  <1>2. \A i : i \in 1..(Len(s) + 1) <=> i \in 1..Len(s) \/ i = Len(s) + 1
    BY <1>1
  <1> QED BY <1>1, <1>2 DEF Elems

\* What a frame put at the end adds to the frames of a type.
LEMMA AppendOf ==
  ASSUME NEW S, NEW s \in Seq(S), NEW f \in S, NEW type
  PROVE  Of(Append(s, f), type) =
           IF f.type = type THEN Of(s, type) \cup {f.pkt} ELSE Of(s, type)
  <1>1. /\ Len(Append(s, f)) = Len(s) + 1
        /\ Len(s) \in Nat
        /\ \A i \in 1..Len(s) : Append(s, f)[i] = s[i]
        /\ Append(s, f)[Len(s) + 1] = f
    BY AppendProperties, LenProperties
  <1>2. \A i : i \in 1..(Len(s) + 1) <=> i \in 1..Len(s) \/ i = Len(s) + 1
    BY <1>1
  <1> QED BY <1>1, <1>2 DEF Of

\* What remains when the first one is taken.
LEMMA TailElems ==
  ASSUME NEW S, NEW s \in Seq(S), s # <<>>
  PROVE  /\ Tail(s) \in Seq(S) /\ Head(s) \in S
         /\ Head(s) \in Elems(s)
         /\ Elems(Tail(s)) \subseteq Elems(s)
  <1>1. /\ Tail(s) \in Seq(S) /\ Head(s) \in S /\ Head(s) = s[1]
        /\ Len(s) \in Nat \ {0} /\ Len(Tail(s)) = Len(s) - 1
        /\ \A i \in 1..Len(Tail(s)) : Tail(s)[i] = s[i + 1]
    BY HeadTailProperties, EmptySeq, LenProperties
  <1>2. 1 \in 1..Len(s) /\ \A i \in 1..Len(Tail(s)) : i + 1 \in 1..Len(s)
    BY <1>1
  <1> QED BY <1>1, <1>2 DEF Elems

\* Which frames of a type remain.
LEMMA TailOf ==
  ASSUME NEW S, NEW s \in Seq(S), s # <<>>, NEW type
  PROVE  /\ Head(s).type = type => Head(s).pkt \in Of(s, type)
         /\ Of(Tail(s), type) \subseteq Of(s, type)
  <1>1. /\ Head(s) = s[1]
        /\ Len(s) \in Nat \ {0} /\ Len(Tail(s)) = Len(s) - 1
        /\ \A i \in 1..Len(Tail(s)) : Tail(s)[i] = s[i + 1]
    BY HeadTailProperties, EmptySeq, LenProperties
  <1>2. 1 \in 1..Len(s) /\ \A i \in 1..Len(Tail(s)) : i + 1 \in 1..Len(s)
    BY <1>1
  <1> QED BY <1>1, <1>2 DEF Of

\* A larger number at the end, and the smallest taken from the front, keep order.
LEMMA AppendIncreasing ==
  ASSUME NEW S, NEW s \in Seq(S), NEW x \in S, Increasing(s), Before(Elems(s), {x})
  PROVE  Increasing(Append(s, x))
  <1>1. /\ Len(Append(s, x)) = Len(s) + 1
        /\ Len(s) \in Nat
        /\ \A i \in 1..Len(s) : Append(s, x)[i] = s[i]
        /\ Append(s, x)[Len(s) + 1] = x
    BY AppendProperties, LenProperties
  <1>2. SUFFICES ASSUME NEW m \in 1..(Len(s) + 1), NEW n \in 1..(Len(s) + 1), m < n
                 PROVE  Append(s, x)[m] < Append(s, x)[n]
    BY <1>1 DEF Increasing
  <1>3. m \in 1..Len(s) /\ s[m] \in Elems(s)
    BY <1>1, <1>2 DEF Elems
  <1>4. CASE n \in 1..Len(s)
    BY <1>1, <1>2, <1>3, <1>4 DEF Increasing
  <1>5. CASE n = Len(s) + 1
    BY <1>1, <1>3, <1>5 DEF Before
  <1> QED BY <1>1, <1>4, <1>5

\* The one taken was the smallest.
LEMMA TailIncreasing ==
  ASSUME NEW S, NEW s \in Seq(S), s # <<>>, Increasing(s)
  PROVE  Increasing(Tail(s)) /\ Before({Head(s)}, Elems(Tail(s)))
  <1>1. /\ Head(s) = s[1]
        /\ Len(s) \in Nat \ {0} /\ Len(Tail(s)) = Len(s) - 1
        /\ \A i \in 1..Len(Tail(s)) : Tail(s)[i] = s[i + 1]
    BY HeadTailProperties, EmptySeq, LenProperties
  <1>2. /\ 1 \in 1..Len(s)
        /\ \A i \in 1..Len(Tail(s)) : i + 1 \in 1..Len(s) /\ 1 < i + 1
    BY <1>1
  <1>3. Before({Head(s)}, Elems(Tail(s)))
    BY <1>1, <1>2 DEF Increasing, Before, Elems
  <1>4. \A m, n \in 1..Len(Tail(s)) : m < n => m + 1 < n + 1
    BY <1>1
  <1>5. Increasing(Tail(s))
    BY <1>1, <1>2, <1>4 DEF Increasing
  <1> QED BY <1>3, <1>5

\* The same of the frames of one type.
LEMMA AppendSorted ==
  ASSUME NEW S, NEW s \in Seq(S), NEW f \in S, NEW type, Sorted(s, type),
         f.type = type => Before(Of(s, type), {f.pkt})
  PROVE  Sorted(Append(s, f), type)
  <1>1. /\ Len(Append(s, f)) = Len(s) + 1
        /\ Len(s) \in Nat
        /\ \A i \in 1..Len(s) : Append(s, f)[i] = s[i]
        /\ Append(s, f)[Len(s) + 1] = f
    BY AppendProperties, LenProperties
  <1>2. SUFFICES ASSUME NEW m \in 1..(Len(s) + 1), NEW n \in 1..(Len(s) + 1), m < n,
                        Append(s, f)[m].type = type, Append(s, f)[n].type = type
                 PROVE  Append(s, f)[m].pkt < Append(s, f)[n].pkt
    BY <1>1 DEF Sorted
  <1>3. m \in 1..Len(s) /\ s[m].pkt \in Of(s, type)
    BY <1>1, <1>2 DEF Of
  <1>4. CASE n \in 1..Len(s)
    BY <1>1, <1>2, <1>3, <1>4 DEF Sorted
  <1>5. CASE n = Len(s) + 1
    BY <1>1, <1>2, <1>3, <1>5 DEF Before
  <1> QED BY <1>1, <1>4, <1>5

\* The frame taken had the smallest number of its type.
LEMMA TailSorted ==
  ASSUME NEW S, NEW s \in Seq(S), s # <<>>, NEW type, Sorted(s, type)
  PROVE  /\ Sorted(Tail(s), type)
         /\ Head(s).type = type => Before({Head(s).pkt}, Of(Tail(s), type))
  <1>1. /\ Head(s) = s[1]
        /\ Len(s) \in Nat \ {0} /\ Len(Tail(s)) = Len(s) - 1
        /\ \A i \in 1..Len(Tail(s)) : Tail(s)[i] = s[i + 1]
    BY HeadTailProperties, EmptySeq, LenProperties
  <1>2. /\ 1 \in 1..Len(s)
        /\ \A i \in 1..Len(Tail(s)) : i + 1 \in 1..Len(s) /\ 1 < i + 1
    BY <1>1
  <1>3. Head(s).type = type => Before({Head(s).pkt}, Of(Tail(s), type))
    BY <1>1, <1>2 DEF Sorted, Before, Of
  <1>4. \A m, n \in 1..Len(Tail(s)) : m < n => m + 1 < n + 1
    BY <1>1
  <1>5. Sorted(Tail(s), type)
    BY <1>1, <1>2, <1>4 DEF Sorted
  <1> QED BY <1>3, <1>5

\* Nothing is in an empty queue.
LEMMA EmptyQueue ==
  /\ Elems(<<>>) = {} /\ Increasing(<<>>)
  /\ \A type : Of(<<>>, type) = {} /\ Sorted(<<>>, type)
  BY DEF Elems, Increasing, Of, Sorted

\* One packet on the air.
LEMMA SingleElem == ASSUME NEW x PROVE Elems(<<x>>) = {x}
  BY DEF Elems

-----------------------------------------------------------------------------
(* Types *)

\* The frames of each direction.
ToCoproc == Frames({"CFG_RADIO", "START_RX", "TX"}, MaxPkts)
ToHost == Frames({"READY", "TX_DONE"}, MaxPkts) \cup Frames({"RX"}, MaxRx)

\* The inductive invariant of the link.
IndInv == TypeOK /\ TxBound /\ TxOrder /\ DoneInv /\ GateInv /\ RxBound /\ RxOrder

\* The frames are well formed.
LEMMA FrameTypes ==
  /\ Cfg \in ToCoproc /\ StartRx \in ToCoproc /\ \A p \in Pkts : Tx(p) \in ToCoproc
  /\ Ready \in ToHost /\ \A p \in Pkts : TxDone(p) \in ToHost
  /\ \A p \in 1..MaxRx : Rx(p) \in ToHost
  BY BoundAssumption DEF ToCoproc, ToHost, Frames, Cfg, StartRx, Tx, Ready, TxDone, Rx, Pkts

\* The last packet handed out is one of those taken.
LEMMA OutRange == TypeOK /\ TxBound => Out \in 0..MaxPkts /\ Out <= sent /\ 1..Out \subseteq Pkts
  BY BoundAssumption DEF TypeOK, TxBound, Out, Pkts

\* The wires hold what setup() and boot put there.
LEMMA InitInv == Init => IndInv
  <1> SUFFICES ASSUME Init PROVE IndInv
    OBVIOUS
  <1> USE BoundAssumption, DepthAssumption
  <1>1. /\ \A i \in 1..Len(h2c) : h2c[i].type # "TX"
        /\ h2c \in Seq(ToCoproc)
    BY FrameTypes DEF Init, Cfg, StartRx
  <1>2. TypeOK
    <2>1. /\ c2h \in Seq(ToHost) /\ rxQ \in Seq(1..MaxRx) /\ Len(rxQ) = 0
          /\ txq \in Seq(Pkts) /\ Len(txq) = 0 /\ got \in Seq(1..MaxRx)
          /\ air \in Seq([pkt : Pkts, plan : {"default", "host"}])
      BY EmptySeq DEF Init
    <2>2. done \in [Pkts -> Nat] /\ released \subseteq Pkts
      BY DEF Init
    <2>3. /\ readyGen \in Nat /\ lastGen \in Nat /\ sent \in 0..MaxPkts
          /\ chip \in 0..MaxRx /\ heardRx \in 0..MaxRx
          /\ boots \in 0..MaxBoots /\ lost \in 0..MaxLost
      BY DEF Init
    <2>4. /\ Len(rxQ) <= RX_QUEUE_DEPTH /\ Len(txq) <= TX_Q_DEPTH
      BY <2>1
    <2>5. /\ gate = "idle" /\ plan = "default" /\ active = <<>>
          /\ txDone \in BOOLEAN /\ ready \in BOOLEAN /\ rxOwed \in BOOLEAN
          /\ up \in BOOLEAN /\ enabled \in BOOLEAN
      BY DEF Init
    <2> QED BY <1>1, <2>1, <2>2, <2>3, <2>4, <2>5 DEF TypeOK, ToCoproc, ToHost
  <1>3. Of(h2c, "TX") = {} /\ Sorted(h2c, "TX")
    BY <1>1 DEF Of, Sorted
  <1>4. /\ Elems(txq) = {} /\ Elems(active) = {} /\ OnAir = {} /\ released = {}
        /\ Of(c2h, "TX_DONE") = {} /\ Of(c2h, "RX") = {}
        /\ Elems(rxQ) = {} /\ Elems(got) = {} /\ Held = {}
    BY EmptyQueue DEF Init, OnAir, Held
  <1>5. TxBound /\ GateInv
    BY <1>3, <1>4 DEF Init, TxBound, Out, GateInv
  <1>6. TxOrder
    BY <1>3, <1>4, EmptyQueue DEF Init, TxOrder, Before, AirOnceInOrder
  <1>7. DoneInv
    BY DEF Init, DoneInv
  <1>8. RxBound
    BY <1>4 DEF Init, RxBound
  <1>9. RxOrder
    BY <1>4, EmptyQueue DEF Init, RxOrder, Before
  <1> QED BY <1>2, <1>5, <1>6, <1>7, <1>8, <1>9 DEF IndInv

\* Every step leaves every variable in its range.
LEMMA TypeStep == IndInv /\ [Next]_vars => TypeOK'
  <1> SUFFICES ASSUME IndInv, [Next]_vars PROVE TypeOK'
    OBVIOUS
  <1> USE BoundAssumption, DepthAssumption
  <1>0. /\ TypeOK /\ h2c \in Seq(ToCoproc) /\ c2h \in Seq(ToHost)
        /\ Out \in 0..MaxPkts /\ 1..Out \subseteq Pkts
    BY OutRange DEF IndInv, TypeOK, ToCoproc, ToHost
  <1>T. h2c # <<>> => /\ Tail(h2c) \in Seq(ToCoproc) /\ Head(h2c) \in ToCoproc
                      /\ Head(h2c).type = "TX" => Head(h2c).pkt \in Pkts
    BY <1>0, TailElems, TailOf DEF IndInv, TxBound
  <1>S. c2h # <<>> => /\ Tail(c2h) \in Seq(ToHost) /\ Head(c2h) \in ToHost
                      /\ Head(c2h).type = "TX_DONE" => Head(c2h).pkt \in Pkts
                      /\ Head(c2h).type = "RX" => Head(c2h).pkt \in 1..MaxRx
    <2>1. 1..heardRx \subseteq 1..MaxRx
      BY <1>0 DEF TypeOK
    <2> QED BY <1>0, <2>1, TailElems, TailOf DEF IndInv, TxBound, RxBound
  <1>A. ASSUME NEW f \in ToCoproc PROVE Append(h2c, f) \in Seq(ToCoproc)
    BY <1>0, AppendElems
  <1>B. ASSUME NEW f \in ToHost PROVE Append(c2h, f) \in Seq(ToHost)
    BY <1>0, AppendElems
  <1>C. ASSUME NEW p \in Pkts, Answer(p)
        PROVE  c2h' \in Seq(ToHost) /\ done' \in [Pkts -> Nat]
    <2>1. c2h' \in Seq(ToHost)
      BY <1>B, <1>C, FrameTypes DEF Answer
    <2>2. done' \in [Pkts -> Nat]
      BY <1>0, <1>C DEF Answer, TypeOK
    <2> QED BY <2>1, <2>2
  <1>1. CASE Damage
    <2>1. h2c' \in Seq(ToCoproc) /\ c2h' \in Seq(ToHost)
      <3>1. CASE h2c # <<>> /\ h2c' = Tail(h2c) /\ c2h' = c2h
        <4>1. Tail(h2c) \in Seq(ToCoproc) /\ c2h \in Seq(ToHost)
          BY <1>0, <1>T, <3>1
        <4> QED BY <3>1, <4>1
      <3>2. CASE c2h # <<>> /\ c2h' = Tail(c2h) /\ h2c' = h2c
        <4>1. Tail(c2h) \in Seq(ToHost) /\ h2c \in Seq(ToCoproc)
          BY <1>0, <1>S, <3>2
        <4> QED BY <3>2, <4>1
      <3> QED BY <1>1, <3>1, <3>2 DEF Damage
    <2>2. lost' \in 0..MaxLost
      BY <1>0, <1>1 DEF Damage, TypeOK
    <2> QED BY <1>0, <1>1, <2>1, <2>2 DEF Damage, TypeOK, host, coproc, ToCoproc, ToHost
  <1>2. CASE SentInVain
    BY <1>0, <1>T, <1>2 DEF SentInVain, TypeOK, host, coproc, history, ToCoproc
  <1>3. CASE HandleFrame
    <2>1. c2h' \in Seq(ToHost)
      BY <1>S, <1>3 DEF HandleFrame
    <2>2. rxQ' \in Seq(1..MaxRx) /\ Len(rxQ') <= RX_QUEUE_DEPTH
      <3>1. ASSUME NEW p \in 1..MaxRx
            PROVE  Append(rxQ, p) \in Seq(1..MaxRx) /\ Len(Append(rxQ, p)) = Len(rxQ) + 1
        BY <1>0, AppendProperties DEF TypeOK
      <3>2. CASE rxQ' = rxQ
        BY <1>0, <3>2 DEF TypeOK
      <3>3. CASE Head(c2h).type = "RX" /\ Len(rxQ) < RX_QUEUE_DEPTH
                 /\ rxQ' = Append(rxQ, Head(c2h).pkt)
        BY <1>0, <1>S, <1>3, <3>1, <3>3, LenProperties DEF HandleFrame, TypeOK
      <3> QED BY <1>3, <3>2, <3>3 DEF HandleFrame
    <2>3. txDone' \in BOOLEAN /\ ready' \in BOOLEAN /\ readyGen' \in Nat
      <3>1. CASE Head(c2h).type = "RX"
        BY <1>0, <1>3, <3>1 DEF HandleFrame, TypeOK
      <3>2. CASE Head(c2h).type = "READY"
        <4>1. readyGen' \in Nat
          BY <1>0, <1>3, <3>2 DEF HandleFrame, TypeOK
        <4>2. ready' = TRUE /\ txDone' = txDone
          BY <1>3, <3>2 DEF HandleFrame
        <4> QED BY <1>0, <4>1, <4>2 DEF TypeOK
      <3>3. CASE Head(c2h).type = "TX_DONE"
        BY <1>0, <1>3, <3>3 DEF HandleFrame, TypeOK
      <3> QED BY <1>3, <3>1, <3>2, <3>3 DEF HandleFrame
    <2>4. released' \subseteq Pkts
      BY <1>0, <1>S, <1>3 DEF HandleFrame, TypeOK
    <2> QED BY <1>0, <1>3, <2>1, <2>2, <2>3, <2>4
            DEF HandleFrame, TypeOK, coproc, ToHost
  <1>4. CASE HostRead
    <2>1. rxQ' \in Seq(1..MaxRx) /\ got' \in Seq(1..MaxRx) /\ Len(rxQ') <= RX_QUEUE_DEPTH
      <3>1. rxQ \in Seq(1..MaxRx) /\ rxQ # <<>> /\ Len(rxQ) <= RX_QUEUE_DEPTH
        BY <1>0, <1>4 DEF HostRead, TypeOK
      <3>2. /\ Head(rxQ) \in 1..MaxRx /\ Tail(rxQ) \in Seq(1..MaxRx)
            /\ Len(Tail(rxQ)) = Len(rxQ) - 1 /\ Len(rxQ) \in Nat
        BY <3>1, HeadTailProperties, LenProperties
      <3>3. Append(got, Head(rxQ)) \in Seq(1..MaxRx)
        BY <1>0, <3>2, AppendElems DEF TypeOK
      <3> QED BY <1>4, <3>1, <3>2, <3>3 DEF HostRead
    <2> QED BY <1>0, <1>4, <2>1, <1>A, FrameTypes DEF HostRead, TypeOK, coproc, ToCoproc
  <1>5. CASE StartFail
    BY <1>0, <1>5, <1>A, FrameTypes DEF StartFail, TypeOK, coproc, history, ToCoproc
  <1>6. CASE Arm
    <2>1. sent' \in 0..MaxPkts
      BY <1>0, <1>6 DEF Arm, TypeOK
    <2>2. gate' = "armed" /\ txDone' = FALSE /\ UNCHANGED <<h2c, c2h>>
      BY <1>6 DEF Arm, wire
    <2> QED BY <1>0, <1>6, <2>1, <2>2 DEF Arm, TypeOK, coproc, history
  <1>7. CASE SendTx
    <2>1. Tx(sent) \in ToCoproc
      BY <1>7, FrameTypes DEF SendTx, IndInv, TypeOK, TxBound, Pkts
    <2> QED BY <1>0, <1>7, <1>A, <2>1 DEF SendTx, TypeOK, coproc, history, ToCoproc
  <1>8. CASE Started \/ Release
    BY <1>0, <1>8 DEF Started, Release, TypeOK, wire, coproc, history
  <1>9. CASE SelfHeal \/ SelfHealRx
    BY <1>0, <1>9, <1>A, FrameTypes
    DEF SelfHeal, SelfHealRx, TypeOK, coproc, history, ToCoproc
  <1>10. CASE Boot
    BY <1>0, <1>10, <1>B, FrameTypes, EmptySeq DEF Boot, TypeOK, host, ToHost
  <1>11. CASE Crash
    BY <1>0, <1>11, EmptySeq DEF Crash, TypeOK, host, history
  <1>12. CASE Hear
    BY <1>0, <1>12 DEF Hear, TypeOK, wire, host, history
  <1>13. CASE HandleCfg
    BY <1>0, <1>13, <1>T DEF HandleCfg, ReArm, TypeOK, host, history, ToCoproc
  <1>14. CASE HandleTx
    <2>1. PICK p \in Pkts : p = Head(h2c).pkt
      BY <1>T, <1>14 DEF HandleTx
    <2>2. CASE enabled /\ Len(txq) < TX_Q_DEPTH
      <3>1. txq' \in Seq(Pkts) /\ Len(txq') <= TX_Q_DEPTH
        <4>1. txq \in Seq(Pkts)
          BY <1>0 DEF TypeOK
        <4>2. Append(txq, p) \in Seq(Pkts) /\ Len(Append(txq, p)) = Len(txq) + 1 /\ Len(txq) \in Nat
          BY <4>1, AppendProperties, LenProperties
        <4> QED BY <1>14, <2>1, <2>2, <4>2 DEF HandleTx
      <3> QED BY <1>0, <1>T, <1>14, <2>2, <3>1 DEF HandleTx, TypeOK, host, ToCoproc
    <2>3. CASE ~(enabled /\ Len(txq) < TX_Q_DEPTH)
      <3>1. c2h' \in Seq(ToHost) /\ done' \in [Pkts -> Nat]
        <4>1. Answer(p)
          BY <1>14, <2>1, <2>3 DEF HandleTx
        <4> QED BY <1>C, <4>1
      <3> QED BY <1>0, <1>T, <1>14, <2>3, <3>1 DEF HandleTx, TypeOK, host, ToCoproc, ToHost
    <2> QED BY <2>2, <2>3
  <1>15. CASE HandleStartRx
    BY <1>0, <1>15, <1>T DEF HandleStartRx, ReArm, TypeOK, host, history, ToCoproc
  <1>16. CASE Finish
    <2>1. active[1] \in Pkts
      BY <1>0, <1>16 DEF Finish, TypeOK
    <2>2. c2h' \in Seq(ToHost) /\ done' \in [Pkts -> Nat]
      BY <1>C, <1>16, <2>1 DEF Finish
    <2> QED BY <1>0, <1>16, <2>2 DEF Finish, TypeOK, host, ToHost
  <1>17. CASE Forward
    <2>1. c2h' \in Seq(ToHost)
      <3>1. Rx(chip) \in ToHost
        BY <1>0, <1>17, FrameTypes DEF Forward, TypeOK
      <3> QED BY <1>0, <1>17, <1>B, <3>1 DEF Forward
    <2> QED BY <1>0, <1>17, <2>1 DEF Forward, ReArm, TypeOK, host, history, ToHost
  <1>18. CASE Dispatch \/ DispatchFail
    <2>1. /\ Head(txq) \in Pkts /\ Tail(txq) \in Seq(Pkts)
          /\ Len(Tail(txq)) <= TX_Q_DEPTH
      BY <1>0, <1>18, HeadTailProperties, EmptySeq, LenProperties
      DEF Dispatch, DispatchFail, TypeOK
    <2>2. CASE Dispatch
      <3>1. air' \in Seq([pkt : Pkts, plan : {"default", "host"}])
        <4>1. [pkt |-> Head(txq), plan |-> plan] \in [pkt : Pkts, plan : {"default", "host"}]
          BY <1>0, <2>1 DEF TypeOK
        <4> QED BY <1>0, <2>2, <4>1, AppendProperties DEF Dispatch, TypeOK
      <3> QED BY <1>0, <2>1, <2>2, <3>1 DEF Dispatch, TypeOK, wire, host
    <2>3. CASE DispatchFail
      <3>1. c2h' \in Seq(ToHost) /\ done' \in [Pkts -> Nat]
        BY <1>C, <2>1, <2>3 DEF DispatchFail
      <3> QED BY <1>0, <2>1, <2>3, <3>1 DEF DispatchFail, TypeOK, host, ToHost
    <2> QED BY <1>18, <2>2, <2>3
  <1>19. CASE UNCHANGED vars
    BY <1>0, <1>19 DEF vars, wire, host, coproc, history, TypeOK
  <1> QED BY <1>1, <1>2, <1>3, <1>4, <1>5, <1>6, <1>7, <1>8, <1>9, <1>10, <1>11, <1>12,
             <1>13, <1>14, <1>15, <1>16, <1>17, <1>18, <1>19
          DEF Next, RadioTask, HostLoop, CoprocLoop, HandleHostFrame

-----------------------------------------------------------------------------
(* Packets to send *)

\* Order and answers of the packets to send.
TxInv == TxBound /\ TxOrder /\ DoneInv

\* A step that hands out no packet and answers none, and at most loses some on their
\* way, keeps everything in order.
LEMMA TxQuiet ==
  ASSUME TypeOK, TxInv, Out' \in Nat, Out <= Out', gate' = "armed" => sent' >= 1,
         Elems(txq') \subseteq Elems(txq), Of(h2c', "TX") \subseteq Of(h2c, "TX"),
         Elems(active') \subseteq Elems(active),
         Increasing(txq'), Sorted(h2c', "TX"), air' = air, done' = done,
         Of(c2h', "TX_DONE") \subseteq Of(c2h, "TX_DONE"),
         released' \subseteq released \cup Of(c2h, "TX_DONE")
  PROVE  TxInv'
  <1>0. Out \in 0..MaxPkts /\ 1..Out \subseteq 1..Out'
    BY OutRange DEF TxInv
  <1>1. TxBound'
    BY <1>0 DEF TxInv, TxBound, OnAir
  <1>2. TxOrder'
    BY DEF TxInv, TxOrder, Before, OnAir, AirOnceInOrder
  <1>3. DoneInv'
    BY <1>0 DEF TxInv, DoneInv, Pkts
  <1> QED BY <1>1, <1>2, <1>3 DEF TxInv

\* A packet that is answered on its way out: by a full or disabled co-processor, by
\* the end of its transmission, or because that could not start.
LEMMA TxAnswered ==
  ASSUME TypeOK, TxInv, UNCHANGED <<gate, sent, air, released>>,
         NEW p \in 1..Out, Answer(p), done[p] = 0,
         Elems(txq') \subseteq Elems(txq), Of(h2c', "TX") \subseteq Of(h2c, "TX"),
         Elems(active') \subseteq Elems(active),
         p \notin Elems(txq') \cup Of(h2c', "TX") \cup Elems(active'),
         Increasing(txq'), Sorted(h2c', "TX")
  PROVE  TxInv'
  <1>0. Out \in 0..MaxPkts /\ 1..Out \subseteq Pkts /\ Out' = Out
    BY OutRange DEF TxInv, Out
  <1>1. Of(c2h', "TX_DONE") = Of(c2h, "TX_DONE") \cup {p}
    <2>1. c2h \in Seq(ToHost) /\ TxDone(p) \in ToHost
      BY <1>0, FrameTypes DEF TypeOK, ToHost
    <2>2. TxDone(p).type = "TX_DONE" /\ TxDone(p).pkt = p /\ c2h' = Append(c2h, TxDone(p))
      BY DEF TxDone, Answer
    <2> QED BY <2>1, <2>2, AppendOf
  <1>2. TxBound'
    BY <1>0, <1>1 DEF TxInv, TxBound, OnAir
  <1>3. TxOrder'
    BY DEF TxInv, TxOrder, Before, OnAir, AirOnceInOrder
  <1>4. DoneInv'
    <2>1. done' = [done EXCEPT ![p] = 1] /\ p \in Pkts /\ done \in [Pkts -> Nat]
      BY <1>0 DEF Answer, TypeOK
    <2>2. ASSUME NEW q \in Pkts, q # p
          PROVE  /\ done'[q] <= 1
                 /\ q > Out' \/ q \in Elems(txq') \/ q \in Of(h2c', "TX") \/ q \in Elems(active')
                    => done'[q] = 0
      BY <1>0, <2>1, <2>2 DEF TxInv, DoneInv
    <2>3. done'[p] = 1 /\ ~(p > Out')
      BY <1>0, <2>1
    <2> QED BY <2>2, <2>3 DEF DoneInv
  <1> QED BY <1>2, <1>3, <1>4 DEF TxInv

\* Every step keeps the packets to send in order.
LEMMA TxStep == IndInv /\ [Next]_vars => TxInv'
  <1> SUFFICES ASSUME IndInv, [Next]_vars PROVE TxInv'
    OBVIOUS
  <1>0. /\ TypeOK /\ TxInv /\ h2c \in Seq(ToCoproc) /\ c2h \in Seq(ToHost)
        /\ txq \in Seq(Pkts) /\ gate \in {"idle", "armed", "sent", "busy"}
        /\ sent \in Nat /\ Out \in 0..MaxPkts /\ Out <= sent /\ 1..Out \subseteq Pkts
    BY OutRange, BoundAssumption DEF IndInv, TxInv, TypeOK, ToCoproc, ToHost
  <1>H. h2c # <<>> => /\ Of(Tail(h2c), "TX") \subseteq Of(h2c, "TX")
                      /\ Sorted(Tail(h2c), "TX")
    BY <1>0, TailOf, TailSorted DEF TxInv, TxOrder
  <1>I. ASSUME NEW f \in ToCoproc, f.type # "TX"
        PROVE  Of(Append(h2c, f), "TX") = Of(h2c, "TX") /\ Sorted(Append(h2c, f), "TX")
    <2>1. Of(Append(h2c, f), "TX") = Of(h2c, "TX")
      BY <1>0, <1>I, AppendOf
    <2>2. Sorted(Append(h2c, f), "TX")
      BY <1>0, <1>I, AppendSorted DEF TxInv, TxOrder
    <2> QED BY <2>1, <2>2
  <1>J. /\ Cfg \in ToCoproc /\ Cfg.type # "TX" /\ StartRx \in ToCoproc /\ StartRx.type # "TX"
        /\ Ready \in ToHost /\ Ready.type = "READY"
    BY FrameTypes DEF Cfg, StartRx, Ready
  <1>K. Increasing(txq) /\ Sorted(h2c, "TX")
    BY <1>0 DEF TxInv, TxOrder
  <1>1. CASE Damage \/ SentInVain
    <2>1. /\ UNCHANGED <<gate, sent, txq, active, air, done, released>>
          /\ h2c' = h2c \/ (h2c # <<>> /\ h2c' = Tail(h2c))
          /\ c2h' = c2h \/ (c2h # <<>> /\ c2h' = Tail(c2h))
      BY <1>1 DEF Damage, SentInVain, host, coproc, history
    <2>2. Of(h2c', "TX") \subseteq Of(h2c, "TX") /\ Sorted(h2c', "TX")
      BY <1>H, <1>K, <2>1
    <2>3. Of(c2h', "TX_DONE") \subseteq Of(c2h, "TX_DONE")
      BY <1>0, <2>1, TailOf
    <2>4. Out' = Out /\ Out \in Nat /\ (gate' = "armed" => sent' >= 1)
      BY <1>0, <2>1 DEF Out, TxInv, TxBound
    <2> QED BY <1>0, <1>K, <2>1, <2>2, <2>3, <2>4, TxQuiet
  <1>2. CASE HandleFrame
    <2>1. /\ UNCHANGED <<gate, sent, txq, active, air, done, h2c>>
          /\ c2h # <<>> /\ c2h' = Tail(c2h)
          /\ \/ released' = released
             \/ Head(c2h).type = "TX_DONE" /\ released' = released \cup {Head(c2h).pkt}
      BY <1>2 DEF HandleFrame, coproc
    <2>2. /\ Of(c2h', "TX_DONE") \subseteq Of(c2h, "TX_DONE")
          /\ released' \subseteq released \cup Of(c2h, "TX_DONE")
      BY <1>0, <2>1, TailOf
    <2>4. Out' = Out /\ Out \in Nat /\ (gate' = "armed" => sent' >= 1)
      BY <1>0, <2>1 DEF Out, TxInv, TxBound
    <2> QED BY <1>0, <1>K, <2>1, <2>2, <2>4, TxQuiet
  <1>3. CASE HostRead \/ StartFail \/ SelfHeal \/ SelfHealRx
    <2>1. /\ UNCHANGED <<gate, txq, active, air, done, c2h, released>>
          /\ sent' = sent \/ (sent' = sent + 1 /\ gate # "armed")
          /\ h2c' = Append(h2c, Cfg) \/ h2c' = Append(h2c, StartRx)
      BY <1>3 DEF HostRead, StartFail, SelfHeal, SelfHealRx, coproc, history
    <2>2. Of(h2c', "TX") = Of(h2c, "TX") /\ Sorted(h2c', "TX")
      <3>1. /\ Of(Append(h2c, Cfg), "TX") = Of(h2c, "TX") /\ Sorted(Append(h2c, Cfg), "TX")
            /\ Of(Append(h2c, StartRx), "TX") = Of(h2c, "TX") /\ Sorted(Append(h2c, StartRx), "TX")
        BY <1>I, <1>J
      <3> QED BY <2>1, <3>1
    <2>3. Out' \in Nat /\ Out <= Out' /\ (gate' = "armed" => sent' >= 1)
      BY <1>0, <2>1 DEF Out, TxInv, TxBound
    <2> QED BY <1>0, <1>K, <2>1, <2>2, <2>3, TxQuiet
  <1>4. CASE Arm \/ Started \/ Release
    <2>1. /\ UNCHANGED <<h2c, txq, active, air, done, c2h, released>>
          /\ gate # "armed"
          /\ \/ sent' = sent /\ gate' # "armed"
             \/ sent' = sent + 1 /\ gate' = "armed"
      BY <1>4 DEF Arm, Started, Release, wire, coproc, history
    <2>2. Out' \in Nat /\ Out <= Out' /\ (gate' = "armed" => sent' >= 1)
      BY <1>0, <2>1 DEF Out
    <2> QED BY <1>0, <1>K, <2>1, <2>2, TxQuiet
  <1>5. CASE SendTx
    <2>1. /\ UNCHANGED <<txq, active, air, done, c2h, released, sent>>
          /\ gate = "armed" /\ gate' = "sent" /\ sent >= 1 /\ sent \in Pkts
          /\ Out = sent - 1 /\ Out' = sent
          /\ h2c' = Append(h2c, Tx(sent))
      BY <1>0, <1>5 DEF SendTx, coproc, history, Out, TxInv, TxBound, TypeOK, Pkts
    <2>2. Tx(sent) \in ToCoproc /\ Tx(sent).type = "TX" /\ Tx(sent).pkt = sent
      BY <2>1, FrameTypes DEF Tx
    <2>3. Of(h2c', "TX") = Of(h2c, "TX") \cup {sent}
      BY <1>0, <2>1, <2>2, AppendOf
    <2>4. \A x \in 1..Out : x < sent
      BY <1>0, <2>1
    <2>5. Sorted(h2c', "TX")
      <3>1. Before(Of(h2c, "TX"), {sent})
        BY <1>0, <2>4 DEF TxInv, TxBound, Before
      <3> QED BY <1>0, <1>K, <2>1, <2>2, <3>1, AppendSorted
    <2>6. TxBound'
      <3>1. 1..Out \subseteq 1..Out' /\ sent \in 1..Out'
        BY <1>0, <2>1
      <3> QED BY <1>0, <2>1, <2>3, <3>1 DEF TxInv, TxBound, OnAir
    <2>7. TxOrder'
      <3>1. OnAir' = OnAir /\ OnAir \subseteq 1..Out /\ Elems(txq) \subseteq 1..Out
            /\ Elems(active) \subseteq 1..Out
        BY <1>0, <2>1 DEF TxInv, TxBound, OnAir
      <3> QED BY <1>0, <2>1, <2>3, <2>4, <2>5, <3>1 DEF TxInv, TxOrder, Before, AirOnceInOrder
    <2>8. DoneInv'
      BY <1>0, <2>1, <2>3 DEF TxInv, DoneInv, Pkts
    <2> QED BY <2>6, <2>7, <2>8 DEF TxInv
  <1>6. CASE Boot
    <2>1. /\ UNCHANGED <<gate, sent, air, done, released, h2c>>
          /\ txq' = <<>> /\ active' = <<>> /\ c2h' = Append(c2h, Ready)
      BY <1>6 DEF Boot, host
    <2>2. Elems(txq') = {} /\ Elems(active') = {} /\ Increasing(txq')
      BY <2>1, EmptyQueue
    <2>3. Of(c2h', "TX_DONE") = Of(c2h, "TX_DONE")
      BY <1>0, <1>J, <2>1, AppendOf
    <2>4. Out' = Out /\ Out \in Nat /\ (gate' = "armed" => sent' >= 1)
      BY <1>0, <2>1 DEF Out, TxInv, TxBound
    <2> QED BY <1>0, <1>K, <2>1, <2>2, <2>3, <2>4, TxQuiet
  <1>7. CASE Crash
    <2>1. /\ UNCHANGED <<gate, sent, air, done, released, c2h, txq, active>>
          /\ h2c' = <<>>
      BY <1>7 DEF Crash, host, history
    <2>2. Of(h2c', "TX") = {} /\ Sorted(h2c', "TX")
      BY <2>1, EmptyQueue
    <2>4. Out' = Out /\ Out \in Nat /\ (gate' = "armed" => sent' >= 1)
      BY <1>0, <2>1 DEF Out, TxInv, TxBound
    <2> QED BY <1>0, <1>K, <2>1, <2>2, <2>4, TxQuiet
  <1>8. CASE Hear \/ Forward
    <2>1. /\ UNCHANGED <<gate, sent, air, done, released, h2c, txq, active>>
          /\ c2h' = c2h \/ (chip \in 1..MaxRx /\ c2h' = Append(c2h, Rx(chip)))
      BY <1>0, <1>8 DEF Hear, Forward, wire, host, history, TypeOK
    <2>3. Of(c2h', "TX_DONE") = Of(c2h, "TX_DONE")
      <3>1. chip \in 1..MaxRx => Rx(chip) \in ToHost /\ Rx(chip).type = "RX"
        BY FrameTypes DEF Rx
      <3>2. chip \in 1..MaxRx => Of(Append(c2h, Rx(chip)), "TX_DONE") = Of(c2h, "TX_DONE")
        BY <1>0, <3>1, AppendOf
      <3> QED BY <2>1, <3>2
    <2>4. Out' = Out /\ Out \in Nat /\ (gate' = "armed" => sent' >= 1)
      BY <1>0, <2>1 DEF Out, TxInv, TxBound
    <2> QED BY <1>0, <1>K, <2>1, <2>3, <2>4, TxQuiet
  <1>9. CASE HandleCfg \/ HandleStartRx
    <2>1. /\ UNCHANGED <<gate, sent, air, done, released, c2h, txq>>
          /\ active' = active \/ active' = <<>>
          /\ h2c # <<>> /\ h2c' = Tail(h2c)
      BY <1>9 DEF HandleCfg, HandleStartRx, host, history
    <2>2. Elems(active') \subseteq Elems(active)
      BY <2>1, EmptyQueue
    <2>4. Out' = Out /\ Out \in Nat /\ (gate' = "armed" => sent' >= 1)
      BY <1>0, <2>1 DEF Out, TxInv, TxBound
    <2> QED BY <1>0, <1>H, <1>K, <2>1, <2>2, <2>4, TxQuiet
  <1>10. CASE HandleTx
    <2>1. /\ UNCHANGED <<gate, sent, air, released, active>>
          /\ h2c # <<>> /\ h2c' = Tail(h2c) /\ Head(h2c).type = "TX"
          /\ \/ txq' = Append(txq, Head(h2c).pkt) /\ UNCHANGED <<c2h, done>>
             \/ Answer(Head(h2c).pkt) /\ UNCHANGED txq
      BY <1>10 DEF HandleTx, host
    <2>2. PICK p : p = Head(h2c).pkt
      OBVIOUS
    <2>3. /\ p \in Of(h2c, "TX") /\ p \in 1..Out /\ p \in Pkts
          /\ Before({p}, Of(h2c', "TX"))
      BY <1>0, <1>K, <2>1, <2>2, TailOf, TailSorted DEF TxInv, TxBound
    <2>4. /\ Before(Elems(txq), {p}) /\ Before(Elems(active), {p}) /\ Before(OnAir, {p})
          /\ done[p] = 0
      BY <1>0, <2>3 DEF TxInv, TxOrder, DoneInv, Before
    <2>5. p \notin Elems(txq) \cup Of(h2c', "TX") \cup Elems(active)
      BY <2>3, <2>4 DEF Before, Pkts
    <2>6. CASE Answer(Head(h2c).pkt) /\ UNCHANGED txq
      BY <1>0, <1>H, <1>K, <2>1, <2>2, <2>3, <2>4, <2>5, <2>6, TxAnswered
    <2>7. CASE txq' = Append(txq, Head(h2c).pkt) /\ UNCHANGED <<c2h, done>>
      <3>1. Elems(txq') = Elems(txq) \cup {p}
        BY <1>0, <2>2, <2>3, <2>7, AppendElems
      <3>2. Increasing(txq')
        BY <1>0, <1>K, <2>2, <2>3, <2>4, <2>7, AppendIncreasing
      <3>3. Out' = Out /\ OnAir' = OnAir
        BY <2>1 DEF Out, OnAir
      <3>4. TxBound'
        BY <1>0, <1>H, <2>1, <2>3, <2>7, <3>1, <3>3 DEF TxInv, TxBound
      <3>5. TxOrder'
        BY <1>0, <1>H, <2>1, <2>3, <2>4, <3>1, <3>2, <3>3
        DEF TxInv, TxOrder, Before, AirOnceInOrder
      <3>6. DoneInv'
        BY <1>0, <1>H, <2>1, <2>3, <2>4, <2>7, <3>1, <3>3 DEF TxInv, DoneInv
      <3> QED BY <3>4, <3>5, <3>6 DEF TxInv
    <2> QED BY <2>1, <2>6, <2>7
  <1>11. CASE Finish
    <2>1. /\ UNCHANGED <<gate, sent, air, released, txq, h2c>>
          /\ active # <<>> /\ active' = <<>> /\ Answer(active[1])
      BY <1>11 DEF Finish, host
    <2>2. PICK p \in Pkts : active = <<p>>
      BY <1>0, <2>1 DEF TypeOK
    <2>3. active[1] = p /\ Elems(active) = {p} /\ Elems(active') = {}
      BY <2>1, <2>2, EmptyQueue, SingleElem
    <2>4. p \in 1..Out /\ done[p] = 0
      BY <1>0, <2>3 DEF TxInv, TxBound, DoneInv
    <2>5. p \notin Elems(txq) \cup Of(h2c, "TX")
      BY <1>0, <2>3 DEF TxInv, TxOrder, Before, Pkts
    <2> QED BY <1>0, <1>K, <2>1, <2>3, <2>4, <2>5, TxAnswered
  <1>12. CASE Dispatch \/ DispatchFail
    <2>1. PICK p : p = Head(txq)
      OBVIOUS
    <2>2. /\ txq # <<>> /\ txq' = Tail(txq) /\ UNCHANGED <<gate, sent, h2c, released>>
          /\ \/ air' = Append(air, [pkt |-> p, plan |-> plan])
                /\ active' = <<p>> /\ UNCHANGED <<c2h, done>>
             \/ Answer(p) /\ UNCHANGED <<active, air>>
      BY <1>12, <2>1 DEF Dispatch, DispatchFail, wire, host
    <2>3. /\ p \in Elems(txq) /\ p \in 1..Out /\ p \in Pkts
          /\ Elems(txq') \subseteq Elems(txq)
          /\ Increasing(txq') /\ Before({p}, Elems(txq'))
      BY <1>0, <1>K, <2>1, <2>2, TailElems, TailIncreasing DEF TxInv, TxBound
    <2>4. /\ Before({p}, Of(h2c, "TX")) /\ Before(Elems(active), {p}) /\ Before(OnAir, {p})
          /\ done[p] = 0
      BY <1>0, <2>3 DEF TxInv, TxOrder, DoneInv, Before
    <2>5. p \notin Elems(txq') \cup Of(h2c, "TX") \cup Elems(active)
      BY <2>3, <2>4 DEF Before, Pkts
    <2>6. CASE Answer(p) /\ UNCHANGED <<active, air>>
      BY <1>0, <1>K, <2>2, <2>3, <2>4, <2>5, <2>6, TxAnswered
    <2>7. CASE air' = Append(air, [pkt |-> p, plan |-> plan]) /\ active' = <<p>>
               /\ UNCHANGED <<c2h, done>>
      <3>1. Elems(active') = {p}
        BY <2>7, SingleElem
      <3>2. /\ Len(air) \in Nat /\ Len(air') = Len(air) + 1
            /\ \A i \in 1..Len(air) : air'[i] = air[i]
            /\ air'[Len(air) + 1].pkt = p
        <4>1. /\ air \in Seq([pkt : Pkts, plan : {"default", "host"}])
              /\ [pkt |-> p, plan |-> plan] \in [pkt : Pkts, plan : {"default", "host"}]
          BY <1>0, <2>3 DEF TypeOK
        <4> QED BY <2>7, <4>1, AppendProperties, LenProperties
      <3>3. OnAir' = OnAir \cup {p}
        <4>1. \A i : i \in 1..Len(air') <=> i \in 1..Len(air) \/ i = Len(air) + 1
          BY <3>2
        <4> QED BY <3>2, <4>1 DEF OnAir
      <3>4. AirOnceInOrder'
        <4>1. SUFFICES ASSUME NEW m \in 1..(Len(air) + 1), NEW n \in 1..(Len(air) + 1), m < n
                       PROVE  air'[m].pkt < air'[n].pkt
          BY <3>2 DEF AirOnceInOrder
        <4>2. m \in 1..Len(air) /\ air[m].pkt \in OnAir
          BY <3>2, <4>1 DEF OnAir
        <4>3. CASE n \in 1..Len(air)
          BY <1>0, <3>2, <4>1, <4>2, <4>3 DEF TxInv, TxOrder, AirOnceInOrder
        <4>4. CASE n = Len(air) + 1
          BY <2>4, <3>2, <4>2, <4>4 DEF Before
        <4> QED BY <3>2, <4>3, <4>4
      <3>5. Out' = Out
        BY <2>2 DEF Out
      <3>6. TxBound'
        BY <1>0, <2>2, <2>3, <2>7, <3>1, <3>3, <3>5 DEF TxInv, TxBound
      <3>7. TxOrder'
        BY <1>0, <2>2, <2>3, <2>4, <3>1, <3>3, <3>4 DEF TxInv, TxOrder, Before
      <3>8. DoneInv'
        BY <1>0, <2>2, <2>3, <2>4, <2>7, <3>1, <3>5 DEF TxInv, DoneInv
      <3> QED BY <3>6, <3>7, <3>8 DEF TxInv
    <2> QED BY <2>2, <2>6, <2>7
  <1>13. CASE UNCHANGED vars
    <2>1. UNCHANGED <<gate, sent, air, done, released, h2c, c2h, txq, active>>
      BY <1>13 DEF vars, wire, host, coproc, history
    <2>2. Out' = Out /\ Out \in Nat /\ (gate' = "armed" => sent' >= 1)
      BY <1>0, <2>1 DEF Out, TxInv, TxBound
    <2> QED BY <1>0, <1>K, <2>1, <2>2, TxQuiet
  <1> QED BY <1>1, <1>2, <1>3, <1>4, <1>5, <1>6, <1>7, <1>8, <1>9, <1>10, <1>11, <1>12, <1>13
          DEF Next, RadioTask, HostLoop, CoprocLoop, HandleHostFrame

\* Every step keeps what a handled TX_DONE says of the gate.  A packet for which the
\* gate is armed has no number any TX_DONE carries.
LEMMA GateStep == IndInv /\ [Next]_vars => GateInv'
  <1> SUFFICES ASSUME IndInv, [Next]_vars PROVE GateInv'
    OBVIOUS
  <1>0. /\ sent \in Nat /\ Out <= sent /\ Out \in Nat /\ released \subseteq 1..Out
        /\ GateInv /\ txDone \in BOOLEAN
    <2>1. TypeOK /\ TxBound /\ GateInv
      BY DEF IndInv
    <2>2. Out \in 0..MaxPkts /\ Out <= sent
      BY <2>1, OutRange
    <2>3. released \subseteq 1..Out
      BY <2>1 DEF TxBound
    <2>4. sent \in Nat /\ txDone \in BOOLEAN
      BY <2>1, BoundAssumption DEF TypeOK
    <2>5. Out \in Nat
      BY <2>2, BoundAssumption
    <2> QED BY <2>1, <2>2, <2>3, <2>4, <2>5
  <1>1. CASE Arm
    <2>1. sent' = sent + 1 /\ released' = released
      BY <1>1 DEF Arm, history
    <2>2. sent' \notin released'
      BY <1>0, <2>1
    <2> QED BY <2>2 DEF GateInv
  <1>2. CASE HandleFrame
    <2>1. UNCHANGED <<gate, sent>> /\ (UNCHANGED <<txDone, released>> \/ txDone' = TRUE)
      BY <1>2 DEF HandleFrame
    <2> QED BY <1>0, <2>1 DEF GateInv
  <1>3. CASE StartFail
    <2>1. gate' = "idle"
      BY <1>3 DEF StartFail
    <2> QED BY <2>1 DEF GateInv
  <1>4. CASE Started \/ Release \/ SendTx
    <2>1. UNCHANGED <<sent, txDone, released>> /\ gate # "idle"
      BY <1>4 DEF Started, Release, SendTx, history
    <2> QED BY <1>0, <2>1 DEF GateInv
  <1>5. CASE UNCHANGED <<gate, sent, txDone, released>>
    BY <1>0, <1>5 DEF GateInv
  <1>6. CASE Damage \/ SentInVain \/ HostRead \/ HostLoop \/ Boot \/ Crash \/ Hear
    BY <1>5, <1>6 DEF Damage, SentInVain, HostRead, HostLoop, SelfHeal, SelfHealRx, Boot,
                      Crash, Hear, host, history
  <1>7. CASE CoprocLoop
    BY <1>5, <1>7 DEF CoprocLoop, HandleHostFrame, HandleCfg, HandleTx, HandleStartRx, Finish,
                      Forward, Dispatch, DispatchFail, host, history
  <1>8. CASE UNCHANGED vars
    BY <1>5, <1>8 DEF vars, host, history
  <1> QED BY <1>1, <1>2, <1>3, <1>4, <1>6, <1>7, <1>8 DEF Next, RadioTask

-----------------------------------------------------------------------------
(* Received packets *)

\* Order of the received packets.
RxInv == RxBound /\ RxOrder

\* A step that hears and passes on nothing, and at most loses some packets on their
\* way, keeps the others in order.
LEMMA RxQuiet ==
  ASSUME TypeOK, RxInv, UNCHANGED <<got, heardRx>>, chip' = chip \/ chip' = 0,
         Elems(rxQ') \subseteq Elems(rxQ), Of(c2h', "RX") \subseteq Of(c2h, "RX"),
         Increasing(rxQ'), Sorted(c2h', "RX")
  PROVE  RxInv'
  <1>1. Held' \subseteq Held
    BY DEF Held
  <1>2. RxBound'
    BY DEF RxInv, RxBound, TypeOK
  <1>3. RxOrder'
    BY <1>1 DEF RxInv, RxOrder, Before
  <1> QED BY <1>2, <1>3 DEF RxInv

\* Every step keeps the received packets in order.
LEMMA RxStep == IndInv /\ [Next]_vars => RxInv'
  <1> SUFFICES ASSUME IndInv, [Next]_vars PROVE RxInv'
    OBVIOUS
  <1>0. /\ TypeOK /\ RxInv /\ c2h \in Seq(ToHost) /\ rxQ \in Seq(1..MaxRx)
        /\ got \in Seq(1..MaxRx) /\ heardRx \in 0..MaxRx /\ chip \in 0..MaxRx
        /\ chip <= heardRx /\ 1..heardRx \subseteq 1..MaxRx
    <2>1. TypeOK /\ RxInv /\ chip <= heardRx
      BY DEF IndInv, RxInv, RxBound
    <2>2. c2h \in Seq(ToHost)
      BY <2>1 DEF TypeOK, ToHost
    <2>3. /\ rxQ \in Seq(1..MaxRx) /\ got \in Seq(1..MaxRx)
          /\ heardRx \in 0..MaxRx /\ chip \in 0..MaxRx
      BY <2>1 DEF TypeOK
    <2>4. 1..heardRx \subseteq 1..MaxRx
      BY <2>3, BoundAssumption
    <2> QED BY <2>1, <2>2, <2>3, <2>4
  <1>K. Increasing(rxQ) /\ Sorted(c2h, "RX") /\ Increasing(got)
    BY <1>0 DEF RxInv, RxOrder
  <1>T. c2h # <<>> => Of(Tail(c2h), "RX") \subseteq Of(c2h, "RX") /\ Sorted(Tail(c2h), "RX")
    BY <1>0, <1>K, TailOf, TailSorted
  <1>E. ASSUME NEW x \in 1..MaxRx PROVE Elems(Append(rxQ, x)) = Elems(rxQ) \cup {x}
    <2> DEFINE S == 1..MaxRx
    <2>1. rxQ \in Seq(S) /\ x \in S
      BY <1>0, <1>E
    <2> HIDE DEF S
    <2> QED BY <2>1, AppendElems
  <1>A. ASSUME NEW f \in ToHost, f.type # "RX"
        PROVE  Of(Append(c2h, f), "RX") = Of(c2h, "RX") /\ Sorted(Append(c2h, f), "RX")
    <2>1. Of(Append(c2h, f), "RX") = Of(c2h, "RX")
      BY <1>0, <1>A, AppendOf
    <2>2. Sorted(Append(c2h, f), "RX")
      BY <1>0, <1>A, <1>K, AppendSorted
    <2> QED BY <2>1, <2>2
  <1>Q. ASSUME UNCHANGED <<got, heardRx, rxQ>>, chip' = chip \/ chip' = 0,
               Of(c2h', "RX") \subseteq Of(c2h, "RX"), Sorted(c2h', "RX")
        PROVE  RxInv'
    BY <1>0, <1>K, <1>Q, RxQuiet
  <1>1. CASE UNCHANGED <<got, heardRx, rxQ, chip, c2h>>
    BY <1>K, <1>Q, <1>1
  <1>2. CASE SentInVain \/ StartFail \/ Arm \/ SendTx \/ Started \/ Release \/ HostLoop \/ Crash
             \/ Dispatch
    BY <1>1, <1>2 DEF SentInVain, StartFail, Arm, SendTx, Started, Release, HostLoop, SelfHeal,
                      SelfHealRx, Crash, Dispatch, wire, host, coproc, history
  <1>3. CASE Damage
    <2>1. /\ UNCHANGED <<got, heardRx, rxQ, chip>>
          /\ c2h' = c2h \/ (c2h # <<>> /\ c2h' = Tail(c2h))
      BY <1>3 DEF Damage, host, coproc
    <2>2. Of(c2h', "RX") \subseteq Of(c2h, "RX") /\ Sorted(c2h', "RX")
      BY <1>K, <1>T, <2>1
    <2> QED BY <1>Q, <2>1, <2>2
  <1>4. CASE HandleFrame
    <2>1. /\ UNCHANGED <<got, heardRx, chip>> /\ c2h # <<>> /\ c2h' = Tail(c2h)
          /\ \/ rxQ' = rxQ
             \/ Head(c2h).type = "RX" /\ rxQ' = Append(rxQ, Head(c2h).pkt)
      BY <1>4 DEF HandleFrame, coproc
    <2>2. CASE rxQ' = rxQ
      BY <1>Q, <1>T, <2>1, <2>2
    <2>3. CASE Head(c2h).type = "RX" /\ rxQ' = Append(rxQ, Head(c2h).pkt)
      <3>1. PICK p : p = Head(c2h).pkt
        OBVIOUS
      <3>2. /\ p \in Of(c2h, "RX") /\ p \in 1..heardRx /\ p \in 1..MaxRx
            /\ Before({p}, Of(c2h', "RX"))
        BY <1>0, <1>K, <2>1, <2>3, <3>1, TailOf, TailSorted DEF RxInv, RxBound
      <3>3. Before(Elems(rxQ), {p}) /\ Before(Elems(got), {p}) /\ Before({p}, Held)
        BY <1>0, <3>2 DEF RxInv, RxOrder, Before
      <3>4. Elems(rxQ') = Elems(rxQ) \cup {p}
        <4>1. rxQ \in Seq(1..MaxRx) /\ p \in 1..MaxRx /\ rxQ' = Append(rxQ, p)
          BY <1>0, <2>3, <3>1, <3>2
        <4> QED BY <1>E, <4>1
      <3>5. Increasing(rxQ')
        BY <1>0, <1>K, <2>3, <3>1, <3>2, <3>3, AppendIncreasing
      <3>6. Held' = Held
        BY <2>1 DEF Held
      <3>7. RxBound'
        BY <1>0, <1>T, <2>1, <3>2, <3>4 DEF RxInv, RxBound
      <3>8. RxOrder'
        BY <1>0, <1>T, <2>1, <3>2, <3>3, <3>4, <3>5, <3>6 DEF RxInv, RxOrder, Before
      <3> QED BY <3>7, <3>8 DEF RxInv
    <2> QED BY <2>1, <2>2, <2>3
  <1>5. CASE HostRead
    <2>1. /\ UNCHANGED <<heardRx, chip, c2h>> /\ rxQ # <<>> /\ rxQ' = Tail(rxQ)
          /\ got' = Append(got, Head(rxQ))
      BY <1>5 DEF HostRead, coproc
    <2>2. PICK p : p = Head(rxQ)
      OBVIOUS
    <2>3. /\ p \in Elems(rxQ) /\ p \in 1..MaxRx /\ p \in 1..heardRx
          /\ Elems(rxQ') \subseteq Elems(rxQ)
          /\ Increasing(rxQ') /\ Before({p}, Elems(rxQ'))
      BY <1>0, <1>K, <2>1, <2>2, TailElems, TailIncreasing DEF RxInv, RxBound
    <2>4. Before(Elems(got), {p}) /\ Before({p}, Of(c2h, "RX")) /\ Before({p}, Held)
      BY <1>0, <2>3 DEF RxInv, RxOrder, Before
    <2>5. Elems(got') = Elems(got) \cup {p}
      BY <1>0, <2>1, <2>2, <2>3, AppendElems
    <2>6. Increasing(got')
      BY <1>0, <1>K, <2>1, <2>2, <2>3, <2>4, AppendIncreasing
    <2>7. Held' = Held
      BY <2>1 DEF Held
    <2>8. RxBound'
      BY <1>0, <2>1, <2>3, <2>5 DEF RxInv, RxBound
    <2>9. RxOrder'
      BY <1>0, <2>1, <2>3, <2>4, <2>5, <2>6, <2>7 DEF RxInv, RxOrder, Before
    <2> QED BY <2>8, <2>9 DEF RxInv
  <1>6. CASE Boot
    <2>1. UNCHANGED <<got, heardRx, rxQ>> /\ chip' = 0 /\ c2h' = Append(c2h, Ready)
      BY <1>6 DEF Boot, host
    <2>2. Ready \in ToHost /\ Ready.type # "RX"
      BY FrameTypes DEF Ready
    <2>3. Of(c2h', "RX") = Of(c2h, "RX") /\ Sorted(c2h', "RX")
      BY <1>A, <2>1, <2>2
    <2> QED BY <1>Q, <2>1, <2>3
  <1>7. CASE HandleCfg \/ HandleStartRx
    <2>1. UNCHANGED <<got, heardRx, rxQ, c2h>> /\ (chip' = chip \/ chip' = 0)
      BY <1>7 DEF HandleCfg, HandleStartRx, ReArm, host, history
    <2> QED BY <1>K, <1>Q, <2>1
  <1>8. CASE Hear
    <2>1. /\ UNCHANGED <<got, rxQ, c2h>>
          /\ heardRx' = heardRx + 1 /\ chip' = heardRx + 1
      BY <1>8 DEF Hear, wire, host, history
    <2>2. Held' = {heardRx + 1} /\ \A x \in 1..heardRx : x < heardRx + 1 /\ x \in 1..heardRx'
      BY <1>0, <2>1 DEF Held
    <2>3. RxBound'
      BY <1>0, <2>1, <2>2 DEF RxInv, RxBound
    <2>4. RxOrder'
      BY <1>0, <2>1, <2>2 DEF RxInv, RxBound, RxOrder, Before
    <2> QED BY <2>3, <2>4 DEF RxInv
  <1>9. CASE Forward
    <2>1. /\ UNCHANGED <<got, heardRx, rxQ>> /\ chip \in 1..MaxRx /\ chip' = 0
          /\ c2h' = c2h \/ c2h' = Append(c2h, Rx(chip))
      BY <1>0, <1>9 DEF Forward, ReArm, host, history
    <2>2. CASE c2h' = c2h
      BY <1>K, <1>Q, <2>1, <2>2
    <2>3. CASE c2h' = Append(c2h, Rx(chip))
      <3>1. Rx(chip) \in ToHost /\ Rx(chip).type = "RX" /\ Rx(chip).pkt = chip
        BY <2>1, FrameTypes DEF Rx
      <3>2. Of(c2h', "RX") = Of(c2h, "RX") \cup {chip}
        BY <1>0, <2>3, <3>1, AppendOf
      <3>3. /\ Before(Of(c2h, "RX"), {chip}) /\ Before(Elems(got), {chip})
            /\ Before(Elems(rxQ), {chip})
        BY <1>0, <2>1 DEF RxInv, RxOrder, Held
      <3>4. Sorted(c2h', "RX")
        BY <1>0, <1>K, <2>3, <3>1, <3>3, AppendSorted
      <3>5. Held' = {} /\ chip \in 1..heardRx
        BY <1>0, <2>1 DEF Held
      <3>6. RxBound'
        BY <1>0, <2>1, <3>2, <3>5 DEF RxInv, RxBound
      <3>7. RxOrder'
        BY <1>0, <2>1, <3>2, <3>3, <3>4, <3>5 DEF RxInv, RxOrder, Before
      <3> QED BY <3>6, <3>7 DEF RxInv
    <2> QED BY <2>1, <2>2, <2>3
  <1>B. ASSUME NEW p \in Pkts, Answer(p)
        PROVE  Of(c2h', "RX") = Of(c2h, "RX") /\ Sorted(c2h', "RX")
    <2>1. TxDone(p) \in ToHost /\ TxDone(p).type # "RX" /\ c2h' = Append(c2h, TxDone(p))
      BY <1>B, FrameTypes DEF TxDone, Answer
    <2> QED BY <1>A, <2>1
  <1>10. CASE HandleTx
    <2>1. UNCHANGED <<got, heardRx, rxQ, chip>> /\ (UNCHANGED c2h \/ Answer(Head(h2c).pkt))
      BY <1>10 DEF HandleTx, host
    <2>2. Head(h2c).pkt \in Pkts
      BY <1>10, TailOf, OutRange DEF HandleTx, IndInv, TypeOK, TxBound
    <2> QED BY <1>1, <1>B, <1>Q, <2>1, <2>2
  <1>11. CASE Finish
    <2>1. UNCHANGED <<got, heardRx, rxQ, chip>> /\ Answer(active[1]) /\ active[1] \in Pkts
      BY <1>0, <1>11 DEF Finish, host, TypeOK
    <2> QED BY <1>B, <1>Q, <2>1
  <1>12. CASE DispatchFail
    <2>1. UNCHANGED <<got, heardRx, rxQ, chip>> /\ Answer(Head(txq)) /\ txq # <<>>
      BY <1>12 DEF DispatchFail, host
    <2>2. Head(txq) \in Pkts
      BY <1>0, <2>1, TailElems DEF TypeOK
    <2> QED BY <1>B, <1>Q, <2>1, <2>2
  <1>13. CASE UNCHANGED vars
    BY <1>1, <1>13 DEF vars, wire, host, coproc, history
  <1> QED BY <1>2, <1>3, <1>4, <1>5, <1>6, <1>7, <1>8, <1>9, <1>10, <1>11, <1>12, <1>13
          DEF Next, RadioTask, CoprocLoop, HandleHostFrame

-----------------------------------------------------------------------------
(* Theorems *)

\* The invariant holds throughout.
LEMMA Inductive == Spec => []IndInv
  <1>1. IndInv /\ [Next]_vars => IndInv'
    BY TypeStep, TxStep, GateStep, RxStep DEF IndInv, TxInv, RxInv
  <1> QED BY <1>1, InitInv, PTL DEF Spec

\* Every variable of host, wire and co-processor stays in its range.
THEOREM TypeCorrect == Spec => []TypeOK
  <1>1. IndInv => TypeOK
    BY DEF IndInv
  <1> QED BY <1>1, Inductive, PTL

\* A packet goes on the air at most once and in the order in which radioTask took it,
\* whatever is damaged, times out or reboots (MSG_TX, txqPush, loop() (3)).
THEOREM SentOnceInOrder == Spec => []AirOnceInOrder
  <1>1. IndInv => AirOnceInOrder
    BY DEF IndInv, TxOrder
  <1> QED BY <1>1, Inductive, PTL

\* No packet is answered by two TX_DONE frames (handleHostFrame, loop()).
THEOREM AnsweredOnce == Spec => []AnsweredAtMostOnce
  <1>1. IndInv => AnsweredAtMostOnce
    BY DEF IndInv, DoneInv, AnsweredAtMostOnce
  <1> QED BY <1>1, Inductive, PTL

\* The TX_DONE of the packet in hand opens the gate, however early it comes
\* (RemoteRadio::startTransmit).
THEOREM DoneNotMissed == Spec => []NoMissedDone
  <1>1. IndInv => NoMissedDone
    BY DEF IndInv, GateInv, NoMissedDone
  <1> QED BY <1>1, Inductive, PTL

\* radioTask reads received packets in the order in which the radio heard them, none
\* twice (loop() (2), xQueueSend, RemoteRadio::read).
THEOREM HeardInOrder == Spec => []ReceivedInOrder
  <1>1. IndInv => ReceivedInOrder
    BY DEF IndInv, RxOrder, Increasing, ReceivedInOrder
  <1> QED BY <1>1, Inductive, PTL
=============================================================================
