---------------------------- MODULE BridgeConfig ----------------------------
(***************************************************************************)
(* The configuration of the bridge: build-flag defaults, the blob in NVS   *)
(* with its four schema versions, the upgrade at boot (BridgeConfig.cpp),  *)
(* the boot sequence that decides between portal and bridge (main.cpp) and *)
(* the configuration form (CaptivePortal.cpp).  A form is applied row by   *)
(* row straight to the configuration in RAM, with checks in between.  Any  *)
(* NVS write may fail and power may be lost between any two steps.         *)
(* In the camera role the form is served while the radios run; otherwise   *)
(* the portal blocks the boot.                                             *)
(* An RF plan stands for a radio's frequency, bandwidth, SF and CR; its    *)
(* frequency, which the form compares on its own, is Freq[plan].  One      *)
(* value stands for a channel's name and key.                              *)
(***************************************************************************)
EXTENDS Integers, FiniteSets

CONSTANTS
  NUM_RADIOS,  \* radio slots; the first two are the ones older schemas know
  Builds,      \* the build flags of the firmwares considered
  OldBlobs,    \* blobs older firmwares may have left in NVS
  Rows,        \* the radio rows a form may carry (protocol not None)
  Regions,     \* regions
  Cap,         \* TX power cap of each region (SX1262_TX_MAX if it has none)
  Ids, Rfs, Chans, \* identities, RF plans, channels
  Freq,        \* the frequency of each RF plan
  FormIds,     \* identities a form may carry
  FlagId,      \* the build-flag identity
  MacId,       \* the identity derived from the MAC address
  NoChan,      \* empty channel name and key
  FlagRf,      \* build-flag RF plan
  OpenRecovers, \* a failure to open NVS at boot may be gone at the next try
  MaxForms     \* bound on the forms posted

VARIABLES
  build,    \* the firmware; never changes
  nvs,      \* the blob under the key "v1"
  cfg,      \* s_cfg
  mode,     \* off, setup, portal, run or restart
  nvsOk,    \* NVS could be opened at this boot
  form,     \* the form being handled, or NoForm
  running,  \* what the radios were set up with, or Off
  posted    \* forms posted so far

vars == <<build, nvs, cfg, mode, nvsOk, form, running, posted>>

Radios == 1..NUM_RADIOS
NoForm == [step |-> "none"]
Off == [id |-> "off"]
NoBlob == [ver |-> 0]

PROTO_NONE == "NONE"
PROTO_MT == "MT"
PROTO_MC == "MC"
ActiveProtos == {PROTO_MT, PROTO_MC, "RNS", "LORAWAN", "CUSTOM"}
Protos == ActiveProtos \cup {PROTO_NONE}

\* RadioSlot, the configuration in RAM, the build flags, and the schemas of the blob.
RadioSlot == [proto : Protos, rf : Rfs, chan : Chans, tx : Int, routes : SUBSET Radios]
Config == [configured : BOOLEAN, region : Regions, id : Ids, radio : [Radios -> RadioSlot]]
BuildFlags == [camera : BOOLEAN, autosave : BOOLEAN, disabled : SUBSET Radios,
               enabled : SUBSET Radios, sync : [Radios -> ActiveProtos],
               chan : UNION {[S -> Chans] : S \in SUBSET Radios}, tx : Int,
               region : Regions]
BlobV2 == [ver : {2}, configured : BOOLEAN, id : Ids, mt : Chans, mc : Chans]
BlobV3 == [ver : {3}, configured : BOOLEAN, id : Ids, chan : [1..2 -> Chans]]
BlobV4 == [ver : {4}, configured : BOOLEAN, id : Ids, region : Regions,
           radio : [1..2 -> [proto : Protos, rf : Rfs, chan : Chans, tx : Int]]]
BlobV5 == [ver : {5}, cfg : Config]
Blobs == [ver : {0, 1}] \cup BlobV2 \cup BlobV3 \cup BlobV4 \cup BlobV5

ASSUME ConfigAssumption ==
  /\ NUM_RADIOS \in Nat /\ NUM_RADIOS >= 2
  /\ Cap \in [Regions -> Nat]
  /\ OpenRecovers \in BOOLEAN /\ MaxForms \in Nat

ASSUME ValuesAssumption ==
  /\ FormIds \cup {FlagId, MacId} \subseteq Ids
  /\ FlagRf \in Rfs /\ DOMAIN Freq = Rfs
  /\ {NoChan, "mt", "mc"} \subseteq Chans
  /\ Builds \subseteq BuildFlags
  /\ OldBlobs \subseteq Blobs
  /\ Rows \subseteq RadioSlot /\ \A r \in Rows : r.proto # PROTO_NONE

-----------------------------------------------------------------------------
(* Defaults *)

\* radioDefaultChannel, and the per-radio override flags.
DefaultChannel(i) ==
  CASE i \in DOMAIN build.chan    -> build.chan[i]
    [] build.sync[i] = PROTO_MT   -> "mt"
    [] build.sync[i] = PROTO_MC   -> "mc"
    [] OTHER                      -> NoChan

\* seedRadio: the protocol of the build-flag sync word; the radios of the second
\* board only if they are enabled, a radio whose pins are taken never.
SeedRadio(i) ==
  [proto |-> IF i \in build.disabled \/ (i > 2 /\ i \notin build.enabled)
             THEN PROTO_NONE ELSE build.sync[i],
   rf |-> FlagRf, chan |-> DefaultChannel(i), tx |-> build.tx,
   routes |-> IF i = 1 THEN {2} ELSE IF i = 2 THEN {1} ELSE {}]

\* loadDefaults
Defaults ==
  [configured |-> FALSE, region |-> build.region, id |-> FlagId,
   radio |-> [i \in Radios |-> SeedRadio(i)]]

\* applyBuildDisables
ApplyBuildDisables(c) ==
  [c EXCEPT !.radio = [i \in Radios |->
     IF i \in build.disabled THEN [c.radio[i] EXCEPT !.proto = PROTO_NONE]
     ELSE c.radio[i]]]

-----------------------------------------------------------------------------
(* begin(): load, and upgrade an older schema *)

\* migrateV2Channel: v2 has one channel per protocol.
V2Channel(blob, i) ==
  CASE build.sync[i] = PROTO_MT -> blob.mt
    [] build.sync[i] = PROTO_MC -> blob.mc
    [] OTHER                    -> NoChan

\* The defaults with the channels of the first two radios replaced (v2, v3).
WithChannels(blob, chan) ==
  [Defaults EXCEPT !.configured = blob.configured, !.id = blob.id,
     !.radio = [i \in Radios |->
        IF i <= 2 THEN [Defaults.radio[i] EXCEPT !.chan = chan[i]]
        ELSE Defaults.radio[i]]]

\* migrateV4toV5: two radios without routes, which get the crossover.
MigrateV4toV5(blob) ==
  [configured |-> blob.configured, region |-> blob.region, id |-> blob.id,
   radio |-> [i \in Radios |->
     IF i <= 2 THEN [proto |-> blob.radio[i].proto, rf |-> blob.radio[i].rf,
                     chan |-> blob.radio[i].chan, tx |-> blob.radio[i].tx,
                     routes |-> {3 - i}]
     ELSE Defaults.radio[i]]]

\* The blob by its size and version; any other size or version keeps the defaults.
FromBlob(blob) ==
  CASE blob.ver = 5 -> blob.cfg
    [] blob.ver = 4 -> MigrateV4toV5(blob)
    [] blob.ver = 3 -> WithChannels(blob, blob.chan)
    [] blob.ver = 2 -> WithChannels(blob, [i \in 1..2 |-> V2Channel(blob, i)])
    [] OTHER        -> Defaults

\* Mutant of Upgraded: the upgrade is written without what the blob carried.
UpgradedDefaults(blob) == IF blob.ver \in 2..4 THEN [ver |-> 5, cfg |-> Defaults] ELSE blob

\* What begin() writes back: an older schema in the new form, before the build
\* disables are applied.
Upgraded(blob) == IF blob.ver \in 2..4 THEN [ver |-> 5, cfg |-> FromBlob(blob)] ELSE blob

\* deriveMacIdentity, on a device nothing was ever saved on.
Identified(c) == IF c.configured THEN c ELSE [c EXCEPT !.id = MacId]

-----------------------------------------------------------------------------
\* What the radios are set up with: the identity, the region and the rows of the
\* active radios.
ActiveRadios(c) == {i \in Radios : c.radio[i].proto # PROTO_NONE}
Settings(c) == [id |-> c.id, region |-> c.region,
                radio |-> [i \in ActiveRadios(c) |-> c.radio[i]]]

\* The settings a boot finds in a blob.
BootSettings(blob) == Settings(Identified(ApplyBuildDisables(FromBlob(blob))))

Init ==
  /\ build \in Builds
  /\ nvs \in OldBlobs \cup {NoBlob}
  /\ cfg = Defaults
  /\ mode = "off"
  /\ nvsOk = FALSE
  /\ form = NoForm
  /\ running = Off
  /\ posted = 0

\* Power loss, or ESP.restart() after a form was saved.
Reset ==
  /\ mode # "off"
  /\ mode' = "off"
  /\ cfg' = Defaults
  /\ form' = NoForm
  /\ running' = Off
  /\ nvsOk' = FALSE
  /\ UNCHANGED <<build, nvs, posted>>

\* begin(): NVS cannot be opened and the defaults stand, or the blob is loaded and
\* its upgrade written, if the write succeeds.
Begin ==
  /\ mode = "off"
  /\ \/ /\ nvsOk' = FALSE /\ cfg' = Defaults
        /\ UNCHANGED nvs
     \/ /\ nvsOk' = TRUE /\ cfg' = ApplyBuildDisables(FromBlob(nvs))
        /\ nvs' \in {nvs, Upgraded(nvs)}
  /\ mode' = "setup"
  /\ UNCHANGED <<build, form, running, posted>>

\* save(): what it makes of the configuration in RAM ...
Saved(c) == [ApplyBuildDisables(c) EXCEPT !.configured = TRUE]

\* ... and of NVS, where opening and writing may fail unnoticed.
SaveResults(c) ==
  {nvs} \cup (IF nvsOk \/ OpenRecovers THEN {[ver |-> 5, cfg |-> Saved(c)]} ELSE {})

\* A device without a configuration saves its defaults by itself.
SelfSaves == ~cfg.configured /\ (build.camera \/ build.autosave)

\* Mutant of Setup: the defaults are saved before the identity is derived.
SetupSaveFirst ==
  LET c == IF SelfSaves THEN Saved(Identified(cfg)) ELSE Identified(cfg) IN
  /\ mode = "setup"
  /\ cfg' = c
  /\ nvs' \in IF SelfSaves THEN SaveResults(cfg) ELSE {nvs}
  /\ \/ /\ c.configured
        /\ mode' = "run" /\ running' = Settings(c)
     \/ /\ ~build.camera
        /\ mode' = "portal" /\ UNCHANGED running
  /\ UNCHANGED <<build, nvsOk, form, posted>>

\* The rest of setup().  A device without a configuration saves its defaults in
\* the camera role and in bench builds, and opens the portal otherwise; a
\* configured bridge opens it on request; a camera has no such portal.
Setup ==
  LET c == IF SelfSaves THEN Saved(Identified(cfg)) ELSE Identified(cfg) IN
  /\ mode = "setup"
  /\ cfg' = c
  /\ nvs' \in IF SelfSaves THEN SaveResults(Identified(cfg)) ELSE {nvs}
  /\ \/ /\ c.configured
        /\ mode' = "run" /\ running' = Settings(c)
     \/ /\ ~build.camera
        /\ mode' = "portal" /\ UNCHANGED running
  /\ UNCHANGED <<build, nvsOk, form, posted>>

-----------------------------------------------------------------------------
(* handleSave *)

\* The identity is valid; a form with another one is refused and changes nothing.
Post(id, region) ==
  /\ mode = "portal" \/ (mode = "run" /\ build.camera)
  /\ form = NoForm /\ posted < MaxForms
  /\ form' = [step |-> "row", row |-> 1, id |-> id, region |-> region]
  /\ posted' = posted + 1
  /\ UNCHANGED <<build, nvs, cfg, mode, nvsOk, running>>

AtRow == form.step = "row" /\ form.row \in Radios

\* applyRadio, protocol None: the slot's other fields stay.
RowNone ==
  /\ AtRow
  /\ cfg' = [cfg EXCEPT !.radio[form.row].proto = PROTO_NONE]
  /\ form' = [form EXCEPT !.row = @ + 1]
  /\ UNCHANGED <<build, nvs, mode, nvsOk, running, posted>>

\* applyRadio: the row is valid; its power is capped for the form's region.
RowSet(r) ==
  /\ AtRow
  /\ cfg' = [cfg EXCEPT !.radio[form.row] =
       [r EXCEPT !.tx = IF r.tx > Cap[form.region] THEN Cap[form.region] ELSE r.tx,
                 !.routes = r.routes \ {form.row}]]
  /\ form' = [form EXCEPT !.row = @ + 1]
  /\ UNCHANGED <<build, nvs, mode, nvsOk, running, posted>>

\* applyRadio: the row is not valid; the rows before it stay applied in RAM.
RowError ==
  /\ AtRow
  /\ form' = NoForm
  /\ UNCHANGED <<build, nvs, cfg, mode, nvsOk, running, posted>>

\* Frequencies less than 1 kHz apart, whatever the bandwidth, SF and CR.
SameFrequency(p, q) == Freq[p] = Freq[q]

\* Mutant of SelfBridge: only routes to a later radio are looked at.
SelfBridgeUpward(c) ==
  \E i, j \in Radios :
    /\ c.radio[i].proto \in {PROTO_MT, PROTO_MC} /\ c.radio[j].proto = c.radio[i].proto
    /\ i < j /\ j \in c.radio[i].routes
    /\ SameFrequency(c.radio[i].rf, c.radio[j].rf) /\ c.radio[i].chan = c.radio[j].chan

\* The self-bridge guard: a route between two radios on one channel and frequency.
SelfBridge(c) ==
  \E i, j \in Radios :
    /\ c.radio[i].proto \in {PROTO_MT, PROTO_MC} /\ c.radio[j].proto = c.radio[i].proto
    /\ i # j /\ j \in c.radio[i].routes
    /\ SameFrequency(c.radio[i].rf, c.radio[j].rf) /\ c.radio[i].chan = c.radio[j].chan

\* All rows applied: refuse, or commit identity and region; then the ABP table is
\* refused, or saved (see LoRaWANConfig).
Commit ==
  /\ form.step = "row" /\ form.row = NUM_RADIOS + 1
  /\ IF ActiveRadios(cfg) = {} \/ SelfBridge(cfg)
     THEN /\ form' = NoForm
          /\ UNCHANGED cfg
     ELSE /\ cfg' = [cfg EXCEPT !.id = form.id, !.region = form.region]
          /\ form' \in {NoForm, [step |-> "save"]}
  /\ UNCHANGED <<build, nvs, mode, nvsOk, running, posted>>

\* save(), "Saved. Rebooting", restart.
Save ==
  /\ form.step = "save"
  /\ nvs' \in SaveResults(cfg)
  /\ cfg' = Saved(cfg)
  /\ form' = NoForm
  /\ mode' = "restart"
  /\ UNCHANGED <<build, nvsOk, running, posted>>

Next ==
  \/ Reset \/ Begin \/ Setup
  \/ \E id \in FormIds, region \in Regions : Post(id, region)
  \/ RowNone \/ RowError \/ Commit \/ Save
  \/ \E r \in Rows : RowSet(r)

Spec == Init /\ [][Next]_vars

-----------------------------------------------------------------------------
TypeOK ==
  /\ build \in Builds
  /\ nvs \in Blobs
  /\ cfg \in Config
  /\ mode \in {"off", "setup", "portal", "run", "restart"}
  /\ nvsOk \in BOOLEAN
  /\ form \in {NoForm, [step |-> "save"]} \cup
       [step : {"row"}, row : 1..(NUM_RADIOS + 1), id : Ids, region : Regions]
  /\ \/ running = Off
     \/ \E S \in SUBSET Radios :
          running \in [id : Ids, region : Regions, radio : [S -> RadioSlot]]
  /\ posted \in 0..MaxForms

\* Only a form that passed every check changes the settings the next boot will
\* find, or the first save of a device that has none: not an upgrade of the
\* schema, written or not, nor a refused form, a failed save or a loss of power
\* (begin, handleSave).
OnlyFormsChange ==
  [][BootSettings(nvs') # BootSettings(nvs) =>
       form.step = "save" \/ ~FromBlob(nvs).configured]_vars

\* The bridge runs with the settings the next boot will find, so that a restart
\* changes nothing, whatever writes failed and whatever a camera's user tried in
\* the form and had refused.
RunsSaved ==
  running # Off /\ nvsOk /\ mode = "run" => running = BootSettings(nvs)

\* What runs has passed the form's checks: a radio whose pins the camera holds is
\* off, no channel is bridged to itself, no radio exceeds the cap of the region
\* in force (applyBuildDisables, handleSave, applyRadio).
RunsLegal ==
  running # Off =>
    LET on == DOMAIN running.radio IN
    /\ on \cap build.disabled = {}
    /\ \A i \in on : running.radio[i].tx <= Cap[running.region]
    /\ \A i, j \in on :
         /\ i # j /\ j \in running.radio[i].routes
         /\ running.radio[i].proto \in {PROTO_MT, PROTO_MC}
         /\ running.radio[i].proto = running.radio[j].proto
         => \/ ~SameFrequency(running.radio[i].rf, running.radio[j].rf)
            \/ running.radio[i].chan # running.radio[j].chan

\* "At least one radio must be active" (CONFIG-USER-MANUAL.md:203).  Does not hold:
\* handleSave counts a radio that save() then turns off as the build demands.
SomeActive == running # Off => DOMAIN running.radio # {}

\* While the radios run, the configuration their tasks consult (ingestAndFanout
\* reads radioProtocol, radioTask reads region and radioSf) is the one they were set
\* up with.  Does not hold in the camera role: the form edits it row by row, and a
\* form that is refused leaves its edits there.
LiveAgrees == running # Off /\ form = NoForm /\ mode = "run" => running = Settings(cfg)
=============================================================================
