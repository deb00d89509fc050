---------------------------- MODULE LoRaWANConfig ----------------------------
(***************************************************************************)
(* The ABP identities and their uplink frame counters (LoRaWANConfig.cpp), *)
(* with the two users of that module: the radio tasks, which take an FCnt  *)
(* for every uplink they build (enqueueAbpUplink in main.cpp), and the     *)
(* portal form, which edits the device table (applyLoRaWANDevices in       *)
(* CaptivePortal.cpp).  The module has no lock, so the radio tasks' steps  *)
(* interleave.  Power may fail between any two steps; only NVS survives.   *)
(* s_fcntReserved always equals s_fcntPersisted and is left out.           *)
(***************************************************************************)
EXTENDS Integers, Sequences, FiniteSets

CONSTANTS
  MAX_DEVICES,   \* slots of the device table
  FCNT_RESERVE,  \* FCnt values reserved per NVS write
  UINT32_MAX,    \* largest FCnt; it is also the sentinel FCNT_INVALID
  Addrs,         \* DevAddrs
  NoAddr,        \* DevAddr 0: an empty slot
  Devices,       \* devices the operator may enter: [addr, srcSel, srcMatch]
  Sources,       \* inbound sources: [proto, id]
  ExtAddr,       \* DevAddr of the build-flag identity, or NoAddr
  Tasks,         \* radio tasks with a LoRaWAN destination
  LivePortal,    \* the portal runs beside the radio tasks (camera role)
  SharedAddrs,   \* the operator may give one DevAddr to several identities
  MaxUplinks     \* bound on the uplinks of one DevAddr

ASSUME ConstAssumption ==
  /\ MAX_DEVICES \in Nat /\ FCNT_RESERVE \in Nat
  /\ UINT32_MAX \in Nat /\ UINT32_MAX > FCNT_RESERVE + 1 /\ MaxUplinks \in Nat
  /\ NoAddr \notin Addrs /\ ExtAddr \in Addrs \cup {NoAddr}
  /\ LivePortal \in BOOLEAN /\ SharedAddrs \in BOOLEAN
ASSUME DeviceAssumption ==
  \A d \in Devices : /\ DOMAIN d = {"addr", "srcSel", "srcMatch"}
                     /\ d.addr \in Addrs

VARIABLES
  dev,        \* s_dev
  fcnt,       \* s_fcnt, and s_extFcnt at Ext: the next FCnt to issue
  persisted,  \* s_fcntPersisted, and s_extReserved at Ext
  extAddr,    \* s_extDevAddr
  nvsDev,     \* NVS "devs": the saved device table
  nvsFc,      \* NVS "fc_<devaddr>": reservation high-water, keyed by DevAddr
  mode,       \* "run": bridge mode; "portal": the modal captive portal
  form,       \* slot the form handler is at, 0 when no form is being applied
  job,        \* what each radio task is doing
  lns         \* history: the FCnts put on the air under each DevAddr

vars == <<dev, fcnt, persisted, extAddr, nvsDev, nvsFc, mode, form, job, lns>>
ram  == <<dev, fcnt, persisted, extAddr>>
nvs  == <<nvsDev, nvsFc>>

Slots == 1..MAX_DEVICES
Ext == 0                        \* index of the build-flag counter
Counters == {Ext} \cup Slots
Empty == [addr |-> NoAddr, srcSel |-> "any", srcMatch |-> 0]
Idle == [step |-> "idle"]

\* Mutant of LoadReserved: the high-water is not read back.
LoadReservedZero(a) == 0

\* loadReservedForAddr: 0 for DevAddr 0 and for an address never reserved.
LoadReserved(a) == IF a = NoAddr THEN 0 ELSE nvsFc[a]

\* matches(): an entry matches only at the pass of its selector's specificity.
Matches(d, src, specificity) ==
  /\ d.addr # NoAddr
  /\ \/ d.srcSel = "node" /\ specificity = 2 /\ src.proto = "MT" /\ src.id = d.srcMatch
     \/ d.srcSel = "proto" /\ specificity = 1 /\ src.proto = d.srcMatch
     \/ d.srcSel = "any" /\ specificity = 0

\* resolve(): slot i is the first one at the most specific pass that matches.
Resolves(src, i) ==
  \E s \in 0..2 :
    /\ Matches(dev[i], src, s)
    /\ \A j \in 1..(i - 1) : ~Matches(dev[j], src, s)
    /\ \A r \in (s + 1)..2, j \in Slots : ~Matches(dev[j], src, r)

-----------------------------------------------------------------------------
\* RAM after begin(): the saved table, each counter at its address's high-water.
BeginRam(table) ==
  /\ dev' = table
  /\ fcnt' = [c \in Counters |-> IF c = Ext THEN 0 ELSE LoadReserved(table[c].addr)]
  /\ persisted' = fcnt'
  /\ extAddr' = NoAddr

Init ==
  /\ dev = [i \in Slots |-> Empty]
  /\ fcnt = [c \in Counters |-> 0]
  /\ persisted = [c \in Counters |-> 0]
  /\ extAddr = NoAddr
  /\ nvsDev = [i \in Slots |-> Empty]
  /\ nvsFc = [a \in Addrs |-> 0]
  /\ mode = IF LivePortal THEN "run" ELSE "portal"
  /\ form = 0
  /\ job = [t \in Tasks |-> Idle]
  /\ lns = [a \in Addrs |-> <<>>]

\* Power loss or restart at any point; the boot window may enter the portal,
\* except in the camera role, whose portal is always up.
Reset ==
  /\ BeginRam(nvsDev)
  /\ mode' \in (IF LivePortal THEN {"run"} ELSE {"run", "portal"})
  /\ form' = 0
  /\ job' = [t \in Tasks |-> Idle]
  /\ UNCHANGED <<nvsDev, nvsFc, lns>>

-----------------------------------------------------------------------------
(* The radio tasks: enqueueAbpUplink, nextFcnt, nextFcntForDevAddr, advanceFcnt *)

\* resolve() picks the identity; its DevAddr is copied here.
Resolve(t, src) ==
  /\ mode = "run" /\ job[t] = Idle
  /\ \/ \E i \in Slots :
          /\ Resolves(src, i)
          /\ Len(lns[dev[i].addr]) < MaxUplinks
          /\ job' = [job EXCEPT ![t] = [step |-> "read", ctr |-> i,
                                        addr |-> dev[i].addr]]
     \/ /\ \A i \in Slots : ~Resolves(src, i)
        /\ ExtAddr # NoAddr
        /\ Len(lns[ExtAddr]) < MaxUplinks
        /\ job' = [job EXCEPT ![t] = [step |-> "read", ctr |-> Ext,
                                      addr |-> ExtAddr]]
  /\ UNCHANGED <<ram, nvs, mode, form, lns>>

\* nextFcntForDevAddr binds the spare counter to the build-flag identity.
Bind(t) ==
  /\ job[t].step = "read" /\ job[t].ctr = Ext /\ extAddr # job[t].addr
  /\ extAddr' = job[t].addr
  /\ fcnt' = [fcnt EXCEPT ![Ext] = LoadReserved(job[t].addr)]
  /\ persisted' = [persisted EXCEPT ![Ext] = LoadReserved(job[t].addr)]
  /\ UNCHANGED <<dev, nvs, mode, form, job, lns>>

\* The identity whose high-water advanceFcnt is given: nextFcnt reads s_dev again.
KeyOf(j) == IF j.ctr = Ext THEN extAddr ELSE dev[j.ctr].addr

\* Mutant of Read: the end of the counter space is not noticed.
ReadNoLimit(t) ==
  LET j == job[t]
      v == fcnt[j.ctr]
  IN
  /\ j.step = "read" /\ (j.ctr = Ext => extAddr = j.addr)
  /\ job' = [job EXCEPT ![t] =
       IF KeyOf(j) = NoAddr THEN Idle
       ELSE IF v < persisted[j.ctr]
         THEN [step |-> "commit", ctr |-> j.ctr, addr |-> j.addr, v |-> v]
         ELSE [step |-> "persist", ctr |-> j.ctr, addr |-> j.addr, v |-> v,
               key |-> KeyOf(j)]]
  /\ UNCHANGED <<ram, nvs, mode, form, lns>>

\* advanceFcnt reads the counter: issue from the reserved block, or extend it,
\* or give up because the space is exhausted or the slot has been emptied.
Read(t) ==
  LET j == job[t]
      v == fcnt[j.ctr]
  IN
  /\ j.step = "read" /\ (j.ctr = Ext => extAddr = j.addr)
  /\ job' = [job EXCEPT ![t] =
       IF KeyOf(j) = NoAddr THEN Idle
       ELSE IF v < persisted[j.ctr]
         THEN [step |-> "commit", ctr |-> j.ctr, addr |-> j.addr, v |-> v]
       ELSE IF v > UINT32_MAX - 1 - FCNT_RESERVE THEN Idle
         ELSE [step |-> "persist", ctr |-> j.ctr, addr |-> j.addr, v |-> v,
               key |-> KeyOf(j)]]
  /\ UNCHANGED <<ram, nvs, mode, form, lns>>

\* Mutant of PersistOk: the block just issued from is recorded, not the next one.
PersistCurrent(t) ==
  LET j == job[t] IN
  /\ j.step = "persist"
  /\ nvsFc' = [nvsFc EXCEPT ![j.key] = j.v]
  /\ persisted' = [persisted EXCEPT ![j.ctr] = j.v + 1 + FCNT_RESERVE]
  /\ job' = [job EXCEPT ![t] = [step |-> "commit", ctr |-> j.ctr, addr |-> j.addr,
                                v |-> j.v]]
  /\ UNCHANGED <<dev, fcnt, extAddr, nvsDev, mode, form, lns>>

\* The NVS write of the next reservation is confirmed.
PersistOk(t) ==
  LET j == job[t] IN
  /\ j.step = "persist"
  /\ nvsFc' = [nvsFc EXCEPT ![j.key] = j.v + 1 + FCNT_RESERVE]
  /\ persisted' = [persisted EXCEPT ![j.ctr] = j.v + 1 + FCNT_RESERVE]
  /\ job' = [job EXCEPT ![t] = [step |-> "commit", ctr |-> j.ctr, addr |-> j.addr,
                                v |-> j.v]]
  /\ UNCHANGED <<dev, fcnt, extAddr, nvsDev, mode, form, lns>>

\* Mutant of PersistFail: the uplink goes out although nothing was reserved.
PersistFailOpen(t) ==
  LET j == job[t] IN
  /\ j.step = "persist"
  /\ job' = [job EXCEPT ![t] = [step |-> "commit", ctr |-> j.ctr, addr |-> j.addr,
                                v |-> j.v]]
  /\ UNCHANGED <<ram, nvs, mode, form, lns>>

\* It is not: FCNT_INVALID, the caller drops the uplink.
PersistFail(t) ==
  /\ job[t].step = "persist"
  /\ job' = [job EXCEPT ![t] = Idle]
  /\ UNCHANGED <<ram, nvs, mode, form, lns>>

\* The counter moves on; the FCnt is consumed.
Commit(t) ==
  LET j == job[t] IN
  /\ j.step = "commit"
  /\ fcnt' = [fcnt EXCEPT ![j.ctr] = j.v + 1]
  /\ job' = [job EXCEPT ![t] = [step |-> "send", addr |-> j.addr, v |-> j.v]]
  /\ UNCHANGED <<dev, persisted, extAddr, nvs, mode, form, lns>>

\* The frame is encoded and queued for the air.
Send(t) ==
  LET j == job[t] IN
  /\ j.step = "send"
  /\ lns' = [lns EXCEPT ![j.addr] = Append(@, j.v)]
  /\ job' = [job EXCEPT ![t] = Idle]
  /\ UNCHANGED <<ram, nvs, mode, form>>

\* The self-test, the payload cap or the encoder rejects the uplink.
Discard(t) ==
  /\ job[t].step = "send"
  /\ job' = [job EXCEPT ![t] = Idle]
  /\ UNCHANGED <<ram, nvs, mode, form, lns>>

-----------------------------------------------------------------------------
(* The portal form: applyLoRaWANDevices, one slot after the other *)

\* clearDevice
ClearDevice(i) ==
  /\ dev' = [dev EXCEPT ![i] = Empty]
  /\ fcnt' = [fcnt EXCEPT ![i] = 0]
  /\ persisted' = [persisted EXCEPT ![i] = 0]

\* setDevice: a slot whose identity changes is re-seeded from the new one.
SetDevice(i, d) ==
  LET keep == d.addr = dev[i].addr IN
  /\ dev' = [dev EXCEPT ![i] = d]
  /\ fcnt' = IF keep THEN fcnt ELSE [fcnt EXCEPT ![i] = LoadReserved(d.addr)]
  /\ persisted' = IF keep THEN persisted
                  ELSE [persisted EXCEPT ![i] = LoadReserved(d.addr)]

FormOpen ==
  /\ form = 0 /\ (mode = "portal" \/ LivePortal)
  /\ form' = 1
  /\ UNCHANGED <<ram, nvs, mode, job, lns>>

\* The operator gives each identity an address of its own: d's is neither in an
\* earlier row nor the build-flag identity's.  The form does not check this.
OwnAddr(i, d) ==
  d.addr # ExtAddr /\ \A j \in 1..(i - 1) : dev[j].addr # d.addr

\* One row of the form: disabled, or a valid device.
FormSlot ==
  /\ form \in Slots
  /\ \/ ClearDevice(form)
     \/ \E d \in Devices : (SharedAddrs \/ OwnAddr(form, d)) /\ SetDevice(form, d)
  /\ form' = form + 1
  /\ UNCHANGED <<extAddr, nvs, mode, job, lns>>

\* A row fails validation: the rows before it stay applied in RAM, unsaved.
FormError ==
  /\ form \in Slots
  /\ form' = 0
  /\ UNCHANGED <<ram, nvs, mode, job, lns>>

\* saveTable, whose write may fail unnoticed, and then ESP.restart().
FormSave ==
  /\ form = MAX_DEVICES + 1
  /\ nvsDev' \in {dev, nvsDev}
  /\ BeginRam(nvsDev')
  /\ mode' \in (IF LivePortal THEN {"run"} ELSE {"run", "portal"})
  /\ form' = 0
  /\ job' = [t \in Tasks |-> Idle]
  /\ UNCHANGED <<nvsFc, lns>>

-----------------------------------------------------------------------------
Uplink(t) ==
  \/ \E src \in Sources : Resolve(t, src)
  \/ Bind(t) \/ Read(t) \/ PersistOk(t) \/ PersistFail(t)
  \/ Commit(t) \/ Send(t) \/ Discard(t)

Form == FormOpen \/ FormSlot \/ FormError \/ FormSave

Next == Reset \/ Form \/ \E t \in Tasks : Uplink(t)

Spec == Init /\ [][Next]_vars

-----------------------------------------------------------------------------
TypeOK ==
  /\ dev \in [Slots -> Devices \cup {Empty}]
  /\ nvsDev \in [Slots -> Devices \cup {Empty}]
  /\ fcnt \in [Counters -> 0..UINT32_MAX]
  /\ persisted \in [Counters -> 0..UINT32_MAX]
  /\ extAddr \in Addrs \cup {NoAddr}
  /\ nvsFc \in [Addrs -> 0..UINT32_MAX]
  /\ mode \in {"run", "portal"}
  /\ form \in 0..(MAX_DEVICES + 1)
  /\ lns \in [Addrs -> Seq(0..UINT32_MAX)]

\* Under one DevAddr the network server sees a strictly increasing FCntUp,
\* across reboots, failed NVS writes and portal edits: no frame is dropped as
\* a replay (nextFcnt, advanceFcnt; "never goes backwards across reboots").
NoReplay ==
  \A a \in Addrs : \A m, n \in 1..Len(lns[a]) : m < n => lns[a][m] < lns[a][n]

\* Every FCnt that went on the air lies below its address's high-water in NVS,
\* so a power cut now cannot lead to its reuse (advanceFcnt: reserve, then issue).
Durable ==
  \A a \in Addrs : \A n \in 1..Len(lns[a]) : lns[a][n] < nvsFc[a]

\* The high-water of a DevAddr never moves back (persistReservedForAddr).
HighWaterGrows == [][\A a \in Addrs : nvsFc'[a] >= nvsFc[a]]_vars
=============================================================================
