------------------------- MODULE BridgeConfigProofs -------------------------
(***************************************************************************)
(* Proofs about BridgeConfig, for every number of radios, every set of     *)
(* builds, rows and regions, and any blob an older firmware may have left: *)
(* what runs is what is saved, only a form that passed the checks changes  *)
(* it, and what runs has passed them.                                      *)
(***************************************************************************)
EXTENDS BridgeConfig, TLAPS

\* What handleSave would accept: the power of each active radio is within the cap of
\* the region, and no channel is bridged to itself.
Legal(c) ==
  /\ \A i \in Radios : c.radio[i].proto # PROTO_NONE => c.radio[i].tx <= Cap[c.region]
  /\ ~SelfBridge(c)

\* The configuration begin() makes of a blob.
BootConfig(blob) == ApplyBuildDisables(FromBlob(blob))

\* The build flags, and what is in NVS, are legal.
LegalBoot == Legal(Defaults) /\ Legal(BootConfig(nvs))

\* A form is handled only while its page is served, and what setup() starts from is
\* what begin() loaded.
ModeInv ==
  /\ mode \in {"off", "setup", "restart"} => form = NoForm
  /\ mode = "setup" => cfg = IF nvsOk THEN BootConfig(nvs) ELSE Defaults

\* The rows a form has applied so far are within the cap of its region; a form that
\* passed every check left a legal configuration.
FormInv ==
  /\ form.step = "row" => \A i \in Radios :
       i < form.row /\ cfg.radio[i].proto # PROTO_NONE => cfg.radio[i].tx <= Cap[form.region]
  /\ form.step = "save" => Legal(cfg)

-----------------------------------------------------------------------------
(* The configurations that the operators make *)

\* The build flags have their types.
LEMMA BuildType == ASSUME TypeOK PROVE build \in BuildFlags
  BY ValuesAssumption DEF TypeOK

\* A default channel is a channel.
LEMMA ChannelType ==
  ASSUME build \in BuildFlags, NEW i \in Radios
  PROVE  DefaultChannel(i) \in Chans
  <1>1. i \in DOMAIN build.chan => build.chan[i] \in Chans
    BY DEF BuildFlags
  <1> QED BY <1>1, ValuesAssumption DEF DefaultChannel

\* seedRadio and loadDefaults give a configuration, in which a radio the build
\* disables is off.
LEMMA SeedType ==
  ASSUME build \in BuildFlags, NEW i \in Radios
  PROVE  /\ SeedRadio(i) \in RadioSlot
         /\ i \in build.disabled => SeedRadio(i).proto = PROTO_NONE
  <1>1. /\ build.sync[i] \in Protos /\ PROTO_NONE \in Protos /\ build.tx \in Int
        /\ {1} \subseteq Radios /\ {2} \subseteq Radios /\ {} \subseteq Radios
    BY ConfigAssumption DEF BuildFlags, Protos, Radios
  <1> QED BY <1>1, ChannelType, ValuesAssumption DEF SeedRadio, RadioSlot

\* loadDefaults gives a configuration.
LEMMA DefaultsType ==
  ASSUME build \in BuildFlags
  PROVE  /\ Defaults \in Config /\ Defaults.configured = FALSE
         /\ Defaults.region = build.region /\ Defaults.id = FlagId
         /\ \A i \in Radios : Defaults.radio[i] = SeedRadio(i)
  <1>1. build.region \in Regions /\ FlagId \in Ids
    BY ValuesAssumption DEF BuildFlags
  <1>2. [i \in Radios |-> SeedRadio(i)] \in [Radios -> RadioSlot]
    BY SeedType
  <1> QED BY <1>1, <1>2 DEF Defaults, Config

\* applyBuildDisables turns the disabled radios off and changes nothing else.
LEMMA DisablesFacts ==
  ASSUME NEW c \in Config
  PROVE  LET d == ApplyBuildDisables(c) IN
         /\ d \in Config
         /\ d.configured = c.configured /\ d.region = c.region /\ d.id = c.id
         /\ \A i \in Radios :
              IF i \in build.disabled
              THEN /\ d.radio[i] = [c.radio[i] EXCEPT !.proto = PROTO_NONE]
                   /\ d.radio[i].proto = PROTO_NONE
              ELSE d.radio[i] = c.radio[i]
  <1> DEFINE R == [i \in Radios |->
                     IF i \in build.disabled THEN [c.radio[i] EXCEPT !.proto = PROTO_NONE]
                     ELSE c.radio[i]]
  <1>1. \A i \in Radios : /\ c.radio[i] \in RadioSlot
                          /\ [c.radio[i] EXCEPT !.proto = PROTO_NONE] \in RadioSlot
                          /\ [c.radio[i] EXCEPT !.proto = PROTO_NONE].proto = PROTO_NONE
    BY DEF Config, RadioSlot, Protos
  <1>2. R \in [Radios -> RadioSlot]
    BY <1>1
  <1>3. ApplyBuildDisables(c) = [c EXCEPT !.radio = R]
    BY DEF ApplyBuildDisables
  <1>4. \A i \in Radios : R[i] = IF i \in build.disabled
                                 THEN [c.radio[i] EXCEPT !.proto = PROTO_NONE]
                                 ELSE c.radio[i]
    OBVIOUS
  <1> HIDE DEF R
  <1>5. /\ [c EXCEPT !.radio = R] \in Config /\ [c EXCEPT !.radio = R].radio = R
        /\ [c EXCEPT !.radio = R].configured = c.configured
        /\ [c EXCEPT !.radio = R].region = c.region /\ [c EXCEPT !.radio = R].id = c.id
    BY <1>2 DEF Config
  <1> DEFINE d == ApplyBuildDisables(c)
  <1>6. /\ d \in Config /\ d.radio = R
        /\ d.configured = c.configured /\ d.region = c.region /\ d.id = c.id
    BY <1>3, <1>5
  <1> HIDE DEF d
  <1>7. \A i \in Radios :
          IF i \in build.disabled
          THEN /\ d.radio[i] = [c.radio[i] EXCEPT !.proto = PROTO_NONE]
               /\ d.radio[i].proto = PROTO_NONE
          ELSE d.radio[i] = c.radio[i]
    BY <1>1, <1>4, <1>6
  <1> QED BY <1>6, <1>7 DEF d

\* Two configurations are equal when their fields are.
LEMMA ConfigEqual ==
  ASSUME NEW c \in Config, NEW d \in Config, c.configured = d.configured,
         c.region = d.region, c.id = d.id, \A i \in Radios : c.radio[i] = d.radio[i]
  PROVE  c = d
  <1>1. c.radio = d.radio
    BY DEF Config
  <1> QED BY <1>1 DEF Config

\* Radios that are off already are not turned off again.
LEMMA DisablesIdle ==
  ASSUME NEW c \in Config, \A i \in Radios \cap build.disabled : c.radio[i].proto = PROTO_NONE
  PROVE  ApplyBuildDisables(c) = c
  <1>1. \A i \in Radios \cap build.disabled : [c.radio[i] EXCEPT !.proto = PROTO_NONE] = c.radio[i]
    BY DEF Config, RadioSlot
  <1> DEFINE d == ApplyBuildDisables(c)
  <1>2. /\ d \in Config /\ d.configured = c.configured /\ d.region = c.region /\ d.id = c.id
        /\ \A i \in Radios : IF i \in build.disabled
                            THEN d.radio[i] = [c.radio[i] EXCEPT !.proto = PROTO_NONE]
                            ELSE d.radio[i] = c.radio[i]
    BY DisablesFacts
  <1> HIDE DEF d
  <1>3. \A i \in Radios : d.radio[i] = c.radio[i]
    BY <1>1, <1>2
  <1>4. d = c
    BY <1>2, <1>3, ConfigEqual
  <1> QED BY <1>4 DEF d

\* Whatever the schema of the blob, begin() makes a configuration of it.
LEMMA FromBlobType ==
  ASSUME build \in BuildFlags, NEW b \in Blobs
  PROVE  FromBlob(b) \in Config
  <1> USE DefaultsType
  <1>0. b.ver \in {0, 1} \/ b \in BlobV2 \/ b \in BlobV3 \/ b \in BlobV4 \/ b \in BlobV5
    BY DEF Blobs
  <1>C. ASSUME NEW chan, \A i \in 1..2 : chan[i] \in Chans, b.configured \in BOOLEAN,
               b.id \in Ids
        PROVE  WithChannels(b, chan) \in Config
    <2> DEFINE R == [i \in Radios |-> IF i <= 2 THEN [Defaults.radio[i] EXCEPT !.chan = chan[i]]
                                      ELSE Defaults.radio[i]]
    <2>1. \A i \in Radios : Defaults.radio[i] \in RadioSlot /\ (i <= 2 => i \in 1..2)
      BY ConfigAssumption DEF Config, Radios
    <2>2. \A i \in Radios : i <= 2 => [Defaults.radio[i] EXCEPT !.chan = chan[i]] \in RadioSlot
      BY <1>C, <2>1 DEF RadioSlot
    <2>3. R \in [Radios -> RadioSlot]
      BY <2>1, <2>2
    <2> HIDE DEF R
    <2>4. WithChannels(b, chan) =
            [Defaults EXCEPT !.configured = b.configured, !.id = b.id, !.radio = R]
      BY DEF WithChannels, R
    <2> QED BY <1>C, <2>3, <2>4 DEF Config
  <1>1. CASE b.ver \in {0, 1}
    BY <1>1 DEF FromBlob
  <1>2. CASE b \in BlobV2
    <2>1. \A i \in 1..2 : [j \in 1..2 |-> V2Channel(b, j)][i] \in Chans
      BY <1>2, ValuesAssumption DEF V2Channel, BlobV2
    <2>2. FromBlob(b) = WithChannels(b, [j \in 1..2 |-> V2Channel(b, j)])
      BY <1>2 DEF FromBlob, BlobV2
    <2>3. b.configured \in BOOLEAN /\ b.id \in Ids
      BY <1>2 DEF BlobV2
    <2> QED BY <1>C, <2>1, <2>2, <2>3
  <1>3. CASE b \in BlobV3
    <2>1. FromBlob(b) = WithChannels(b, b.chan)
      BY <1>3 DEF FromBlob, BlobV3
    <2>2. b.configured \in BOOLEAN /\ b.id \in Ids /\ \A i \in 1..2 : b.chan[i] \in Chans
      BY <1>3 DEF BlobV3
    <2> QED BY <1>C, <2>1, <2>2
  <1>4. CASE b \in BlobV4
    <2>1. FromBlob(b) = MigrateV4toV5(b)
      BY <1>4 DEF FromBlob, BlobV4
    <2>2. ASSUME NEW i \in Radios, i <= 2
          PROVE  [proto |-> b.radio[i].proto, rf |-> b.radio[i].rf, chan |-> b.radio[i].chan,
                  tx |-> b.radio[i].tx, routes |-> {3 - i}] \in RadioSlot
      <3>1. i \in 1..2 /\ 3 - i \in Radios
        BY <2>2, ConfigAssumption DEF Radios
      <3>2. b.radio[i] \in [proto : Protos, rf : Rfs, chan : Chans, tx : Int]
        BY <1>4, <3>1 DEF BlobV4
      <3> QED BY <3>1, <3>2 DEF RadioSlot
    <2>3. \A i \in Radios : Defaults.radio[i] \in RadioSlot
      BY DEF Config
    <2>4. b.configured \in BOOLEAN /\ b.id \in Ids /\ b.region \in Regions
      BY <1>4 DEF BlobV4
    <2> QED BY <2>1, <2>2, <2>3, <2>4 DEF MigrateV4toV5, Config
  <1>5. CASE b \in BlobV5
    BY <1>5 DEF FromBlob, BlobV5
  <1> QED BY <1>0, <1>1, <1>2, <1>3, <1>4, <1>5

\* An upgraded blob says what the older one said.
LEMMA UpgradeSame ==
  ASSUME build \in BuildFlags, NEW b \in Blobs
  PROVE  Upgraded(b) \in Blobs /\ FromBlob(Upgraded(b)) = FromBlob(b)
  <1>1. CASE b.ver \in 2..4
    <2>1. Upgraded(b) = [ver |-> 5, cfg |-> FromBlob(b)]
      BY <1>1 DEF Upgraded
    <2>2. [ver |-> 5, cfg |-> FromBlob(b)] \in Blobs
      BY FromBlobType DEF Blobs, BlobV5
    <2> QED BY <2>1, <2>2 DEF FromBlob
  <1>2. CASE b.ver \notin 2..4
    BY <1>2 DEF Upgraded
  <1> QED BY <1>1, <1>2

\* The configuration a boot makes of a blob has the radios the build disables off, and
\* so have the defaults.
Disabled(c) == \A i \in Radios \cap build.disabled : c.radio[i].proto = PROTO_NONE

\* Neither can run a radio whose pins the build has taken.
LEMMA BootDisabled ==
  ASSUME build \in BuildFlags, NEW b \in Blobs
  PROVE  /\ BootConfig(b) \in Config /\ Disabled(BootConfig(b))
         /\ BootConfig(b).configured = FromBlob(b).configured
         /\ Disabled(Defaults)
  <1>1. /\ ApplyBuildDisables(FromBlob(b)) \in Config
        /\ ApplyBuildDisables(FromBlob(b)).configured = FromBlob(b).configured
        /\ \A i \in Radios :
             i \in build.disabled => ApplyBuildDisables(FromBlob(b)).radio[i].proto = PROTO_NONE
    BY FromBlobType, DisablesFacts
  <1>2. Disabled(Defaults)
    BY DefaultsType, SeedType DEF Disabled
  <1> QED BY <1>1, <1>2 DEF BootConfig, Disabled

\* What save() makes of a configuration, and what the next boot makes of that.
LEMMA SavedFacts ==
  ASSUME NEW c \in Config
  PROVE  /\ Saved(c) \in Config /\ Saved(c).configured = TRUE
         /\ Saved(c).region = c.region /\ Saved(c).id = c.id /\ Disabled(Saved(c))
         /\ \A i \in Radios : Saved(c).radio[i] = ApplyBuildDisables(c).radio[i]
         /\ [ver |-> 5, cfg |-> Saved(c)] \in Blobs
         /\ FromBlob([ver |-> 5, cfg |-> Saved(c)]) = Saved(c)
         /\ BootConfig([ver |-> 5, cfg |-> Saved(c)]) = Saved(c)
  <1> DEFINE d == ApplyBuildDisables(c)
             e == [d EXCEPT !.configured = TRUE]
  <1>1. /\ d \in Config /\ d.region = c.region /\ d.id = c.id
        /\ \A i \in Radios : i \in build.disabled => d.radio[i].proto = PROTO_NONE
    BY DisablesFacts
  <1> HIDE DEF d
  <1>2. /\ e \in Config /\ e.configured = TRUE /\ e.region = d.region /\ e.id = d.id
        /\ e.radio = d.radio
    BY <1>1 DEF Config
  <1>3. Saved(c) = e
    BY DEF Saved, d
  <1> HIDE DEF e
  <1>4. Disabled(e)
    BY <1>1, <1>2 DEF Disabled
  <1>5. ApplyBuildDisables(e) = e
    BY <1>2, <1>4, DisablesIdle DEF Disabled
  <1>6. [ver |-> 5, cfg |-> e] \in Blobs /\ FromBlob([ver |-> 5, cfg |-> e]) = e
    BY <1>2 DEF Blobs, BlobV5, FromBlob
  <1>7. BootConfig([ver |-> 5, cfg |-> e]) = e
    BY <1>5, <1>6 DEF BootConfig
  <1>8. e.region = c.region /\ e.id = c.id /\ \A i \in Radios : e.radio[i] = d.radio[i]
    BY <1>1, <1>2
  <1>9. \A i \in Radios : e.radio[i] = ApplyBuildDisables(c).radio[i]
    BY <1>8 DEF d
  <1> QED BY <1>2, <1>3, <1>4, <1>6, <1>7, <1>8, <1>9

\* deriveMacIdentity changes the identity only, and only of a device never configured.
LEMMA IdentifiedFacts ==
  ASSUME NEW c \in Config
  PROVE  /\ Identified(c) \in Config /\ Identified(c).configured = c.configured
         /\ Identified(c).region = c.region /\ Identified(c).radio = c.radio
         /\ c.configured => Identified(c) = c
         /\ Disabled(c) => Disabled(Identified(c))
  <1>1. MacId \in Ids
    BY ValuesAssumption
  <1>2. CASE c.configured
    BY <1>2 DEF Identified
  <1>3. CASE ~c.configured
    <2> DEFINE e == [c EXCEPT !.id = MacId]
    <2>1. e \in Config /\ e.configured = c.configured /\ e.region = c.region /\ e.radio = c.radio
      BY <1>1 DEF Config
    <2>2. Identified(c) = e
      BY <1>3 DEF Identified
    <2> HIDE DEF e
    <2> QED BY <1>3, <2>1, <2>2 DEF Disabled
  <1> QED BY <1>2, <1>3

\* The radios are set up alike from configurations that differ in "configured" only.
LEMMA SettingsSame ==
  ASSUME NEW c \in Config, NEW d \in Config, c.region = d.region, c.id = d.id,
         \A i \in Radios : c.radio[i] = d.radio[i]
  PROVE  Settings(c) = Settings(d)
  <1>1. ActiveRadios(c) = ActiveRadios(d)
    BY DEF ActiveRadios
  <1>2. [i \in ActiveRadios(c) |-> c.radio[i]] = [i \in ActiveRadios(d) |-> d.radio[i]]
    BY <1>1 DEF ActiveRadios
  <1> QED BY <1>2 DEF Settings

\* What the radios are set up with is well formed.
LEMMA SettingsType ==
  ASSUME NEW c \in Config
  PROVE  \E S \in SUBSET Radios :
           Settings(c) \in [id : Ids, region : Regions, radio : [S -> RadioSlot]]
  <1>1. ActiveRadios(c) \in SUBSET Radios
    BY DEF ActiveRadios
  <1>2. [i \in ActiveRadios(c) |-> c.radio[i]] \in [ActiveRadios(c) -> RadioSlot]
    BY <1>1 DEF Config
  <1>3. c.id \in Ids /\ c.region \in Regions
    BY DEF Config
  <1> WITNESS ActiveRadios(c) \in SUBSET Radios
  <1> QED BY <1>2, <1>3 DEF Settings

-----------------------------------------------------------------------------
(* Types, and what a boot starts from *)

FormRow == [step : {"row"}, row : 1..(NUM_RADIOS + 1), id : Ids, region : Regions]

\* The build never changes, so an operator that depends on it means the same after a
\* step as before.
LEMMA BuildSame == Next \/ UNCHANGED vars => build' = build
  BY DEF Next, Reset, Begin, Setup, Post, RowNone, RowSet, RowError, Commit, Save, vars

\* The same of the operators that read the build.
LEMMA SameMeaning ==
  ASSUME build' = build
  PROVE  /\ Defaults' = Defaults
         /\ BootConfig(nvs)' = BootConfig(nvs')
         /\ BootSettings(nvs)' = BootSettings(nvs')
  BY DEF Defaults, SeedRadio, DefaultChannel, BootConfig, BootSettings, ApplyBuildDisables,
         FromBlob, MigrateV4toV5, WithChannels, V2Channel, Settings, ActiveRadios, Identified

\* begin() and loadDefaults give well-formed values.
LEMMA InitTypes == Init => TypeOK /\ ModeInv
  <1> SUFFICES ASSUME Init PROVE TypeOK /\ ModeInv
    OBVIOUS
  <1>1. build \in BuildFlags /\ nvs \in Blobs /\ cfg = Defaults
    BY ValuesAssumption DEF Init, NoBlob, Blobs
  <1>2. cfg \in Config
    BY <1>1, DefaultsType
  <1>3. TypeOK
    <2>1. posted \in 0..MaxForms
      BY ConfigAssumption DEF Init
    <2>2. nvsOk = FALSE /\ build \in Builds /\ mode = "off" /\ form = NoForm /\ running = Off
      BY DEF Init
    <2> QED BY <1>1, <1>2, <2>1, <2>2 DEF TypeOK
  <1>4. ModeInv
    BY DEF Init, ModeInv
  <1> QED BY <1>3, <1>4

\* What a form's handler writes to a row, and to identity and region.
LEMMA RowWritten ==
  ASSUME NEW c \in Config, NEW i \in Radios, NEW r \in RadioSlot
  PROVE  LET d == [c EXCEPT !.radio[i] = r] IN
         /\ d \in Config /\ d.radio[i] = r
         /\ \A j \in Radios \ {i} : d.radio[j] = c.radio[j]
         /\ d.region = c.region /\ d.id = c.id
  BY DEF Config

\* The row of a radio that is turned off.
LEMMA RowTurnedOff ==
  ASSUME NEW c \in Config, NEW i \in Radios
  PROVE  LET d == [c EXCEPT !.radio[i].proto = PROTO_NONE] IN
         /\ d \in Config /\ d.radio[i].proto = PROTO_NONE
         /\ \A j \in Radios \ {i} : d.radio[j] = c.radio[j]
  <1> DEFINE r == [c.radio[i] EXCEPT !.proto = PROTO_NONE]
  <1>1. r \in RadioSlot /\ r.proto = PROTO_NONE
    BY DEF Config, RadioSlot, Protos
  <1>2. [c EXCEPT !.radio[i].proto = PROTO_NONE] = [c EXCEPT !.radio[i] = r]
    OBVIOUS
  <1> HIDE DEF r
  <1> DEFINE d == [c EXCEPT !.radio[i] = r]
  <1>3. d \in Config /\ d.radio[i] = r /\ \A j \in Radios \ {i} : d.radio[j] = c.radio[j]
    BY <1>1, RowWritten
  <1> HIDE DEF d
  <1>4. [c EXCEPT !.radio[i].proto = PROTO_NONE] = d
    BY <1>2 DEF d
  <1> QED BY <1>1, <1>3, <1>4

\* Identity and region of a form that passed the checks.
LEMMA Committed ==
  ASSUME NEW c \in Config, NEW id \in Ids, NEW region \in Regions
  PROVE  LET d == [c EXCEPT !.id = id, !.region = region] IN
         d \in Config /\ d.radio = c.radio /\ d.region = region
  BY DEF Config

\* The row a form carries, with its power capped and without a route to itself.
Capped(r, i, region) ==
  [r EXCEPT !.tx = IF r.tx > Cap[region] THEN Cap[region] ELSE r.tx,
            !.routes = r.routes \ {i}]

\* The row is well formed and within the cap.
LEMMA CappedFacts ==
  ASSUME NEW r \in RadioSlot, NEW i \in Radios, NEW region \in Regions
  PROVE  Capped(r, i, region) \in RadioSlot /\ Capped(r, i, region).tx <= Cap[region]
  <1>1. Cap[region] \in Int /\ r.tx \in Int
    BY ConfigAssumption DEF RadioSlot
  <1>2. PICK t \in Int : t = (IF r.tx > Cap[region] THEN Cap[region] ELSE r.tx) /\ t <= Cap[region]
    BY <1>1
  <1>3. Capped(r, i, region) = [r EXCEPT !.tx = t, !.routes = r.routes \ {i}]
    BY <1>2 DEF Capped
  <1>4. r.routes \ {i} \in SUBSET Radios
    BY DEF RadioSlot
  <1> QED BY <1>2, <1>3, <1>4 DEF RadioSlot

\* Every step leaves every variable in its range, and setup() finds what begin() left.
LEMMA TypeStep == TypeOK /\ ModeInv /\ [Next]_vars => TypeOK' /\ ModeInv'
  <1> SUFFICES ASSUME TypeOK, ModeInv, [Next]_vars PROVE TypeOK' /\ ModeInv'
    OBVIOUS
  <1>0. build \in BuildFlags /\ nvs \in Blobs /\ cfg \in Config /\ build' = build
    BY BuildType, BuildSame DEF TypeOK
  <1>M. Defaults' = Defaults /\ BootConfig(nvs)' = BootConfig(nvs')
    BY <1>0, SameMeaning
  <1>D. Defaults \in Config
    BY <1>0, DefaultsType
  <1>S. ASSUME NEW c \in Config, nvs' \in SaveResults(c) PROVE nvs' \in Blobs
    BY <1>0, <1>S, SavedFacts DEF SaveResults
  <1>1. CASE Reset
    <2>1. TypeOK'
      BY <1>0, <1>1, <1>D DEF Reset, TypeOK
    <2>2. ModeInv'
      BY <1>1 DEF Reset, ModeInv
    <2> QED BY <2>1, <2>2
  <1>2. CASE Begin
    <2>1. nvs' \in Blobs /\ FromBlob(nvs') = FromBlob(nvs)
      BY <1>0, <1>2, UpgradeSame DEF Begin
    <2>2. cfg' = IF nvsOk' THEN BootConfig(nvs') ELSE Defaults
      BY <1>2, <2>1 DEF Begin, BootConfig
    <2>3. cfg' \in Config
      BY <1>0, <1>D, <2>1, <2>2, BootDisabled
    <2>4. nvsOk' \in BOOLEAN
      BY <1>2 DEF Begin
    <2>5. TypeOK'
      BY <1>0, <1>2, <2>1, <2>3, <2>4 DEF Begin, TypeOK
    <2>6. form' = NoForm /\ mode' = "setup"
      BY <1>2 DEF Begin, ModeInv
    <2>7. ModeInv'
      BY <1>M, <2>2, <2>6 DEF ModeInv
    <2> QED BY <2>5, <2>7
  <1>3. CASE Setup
    <2>1. Identified(cfg) \in Config /\ Saved(Identified(cfg)) \in Config
      BY <1>0, IdentifiedFacts, SavedFacts
    <2>2. PICK c \in Config : /\ c = IF SelfSaves THEN Saved(Identified(cfg)) ELSE Identified(cfg)
      BY <2>1
    <2>3. /\ cfg' = c /\ UNCHANGED <<nvsOk, form, posted>>
          /\ nvs' = nvs \/ nvs' \in SaveResults(Identified(cfg))
          /\ \/ mode' = "run" /\ running' = Settings(c)
             \/ mode' = "portal" /\ running' = running
      BY <1>3, <2>2 DEF Setup
    <2>4. nvs' \in Blobs
      BY <1>0, <1>S, <2>1, <2>3
    <2>5. TypeOK'
      BY <1>0, <2>3, <2>4, SettingsType DEF TypeOK
    <2>6. ModeInv'
      BY <2>3 DEF ModeInv
    <2> QED BY <2>5, <2>6
  <1>4. CASE \E id \in FormIds, region \in Regions : Post(id, region)
    <2>1. PICK id \in FormIds, region \in Regions : Post(id, region)
      BY <1>4
    <2>2. form' \in FormRow
      BY <2>1, ValuesAssumption, ConfigAssumption DEF Post, FormRow
    <2>3. posted' \in 0..MaxForms
      BY <2>1, ConfigAssumption DEF Post, TypeOK
    <2>4. TypeOK'
      BY <1>0, <2>1, <2>2, <2>3 DEF Post, TypeOK, FormRow
    <2>5. ModeInv'
      BY <2>1 DEF Post, ModeInv
    <2> QED BY <2>4, <2>5
  <1>R. AtRow => /\ form \in FormRow /\ form.row \in Radios
                 /\ [form EXCEPT !.row = @ + 1] \in FormRow
                 /\ form # NoForm
    <2> SUFFICES ASSUME AtRow PROVE /\ form \in FormRow /\ form.row \in Radios
                                    /\ [form EXCEPT !.row = @ + 1] \in FormRow
                                    /\ form # NoForm
      OBVIOUS
    <2>1. form \in FormRow /\ form.row \in Radios /\ form # NoForm
      BY DEF AtRow, TypeOK, FormRow, NoForm
    <2>2. form.row + 1 \in 1..(NUM_RADIOS + 1)
      BY <2>1, ConfigAssumption DEF Radios
    <2> QED BY <2>1, <2>2 DEF FormRow
  <1>5. CASE RowNone \/ \E r \in Rows : RowSet(r)
    <2>1. /\ AtRow /\ form' = [form EXCEPT !.row = @ + 1]
          /\ UNCHANGED <<build, nvs, mode, nvsOk, running, posted>>
      BY <1>5 DEF RowNone, RowSet
    <2>2. cfg' \in Config
      <3>1. CASE RowNone
        BY <1>0, <1>R, <2>1, <3>1, RowTurnedOff DEF RowNone
      <3>2. ASSUME NEW r \in Rows, RowSet(r) PROVE cfg' \in Config
        <4>1. r \in RadioSlot /\ form.row \in Radios /\ form.region \in Regions
          BY <1>R, <2>1, ValuesAssumption DEF FormRow
        <4>2. cfg' = [cfg EXCEPT !.radio[form.row] = Capped(r, form.row, form.region)]
          BY <3>2 DEF RowSet, Capped
        <4> QED BY <1>0, <4>1, <4>2, CappedFacts, RowWritten
      <3> QED BY <1>5, <3>1, <3>2
    <2>3. TypeOK'
      BY <1>0, <1>R, <2>1, <2>2 DEF TypeOK, FormRow
    <2>4. mode \notin {"off", "setup", "restart"}
      BY <1>R, <2>1 DEF ModeInv
    <2>5. ModeInv'
      BY <2>1, <2>4 DEF ModeInv
    <2> QED BY <2>3, <2>5
  <1>6. CASE RowError
    <2>1. TypeOK'
      BY <1>0, <1>6 DEF RowError, TypeOK
    <2>2. ModeInv'
      BY <1>0, <1>6, <1>M DEF RowError, ModeInv
    <2> QED BY <2>1, <2>2
  <1>7. CASE Commit
    <2>1. /\ form.step = "row" /\ UNCHANGED <<build, nvs, mode, nvsOk, running, posted>>
          /\ form' \in {NoForm, [step |-> "save"]}
          /\ cfg' = cfg \/ cfg' = [cfg EXCEPT !.id = form.id, !.region = form.region]
      BY <1>7 DEF Commit
    <2>2. form \in FormRow /\ form # NoForm
      BY <2>1 DEF TypeOK, FormRow, NoForm
    <2>3. cfg' \in Config
      <3>1. PICK id \in Ids, region \in Regions : id = form.id /\ region = form.region
        BY <2>2 DEF FormRow
      <3>2. [cfg EXCEPT !.id = id, !.region = region] \in Config
        BY <1>0, Committed
      <3> QED BY <1>0, <2>1, <3>1, <3>2
    <2>4. TypeOK'
      BY <1>0, <2>1, <2>3 DEF TypeOK
    <2>5. ModeInv'
      BY <2>1, <2>2 DEF ModeInv
    <2> QED BY <2>4, <2>5
  <1>8. CASE Save
    <2>1. cfg' \in Config /\ nvs' \in Blobs
      BY <1>0, <1>8, <1>S, SavedFacts DEF Save
    <2>2. TypeOK'
      BY <1>0, <1>8, <2>1 DEF Save, TypeOK
    <2>3. ModeInv'
      BY <1>8 DEF Save, ModeInv
    <2> QED BY <2>2, <2>3
  <1>9. CASE UNCHANGED vars
    <2>1. TypeOK'
      BY <1>9 DEF vars, TypeOK
    <2>2. ModeInv'
      BY <1>9, <1>M DEF vars, ModeInv
    <2> QED BY <2>1, <2>2
  <1> QED BY <1>1, <1>2, <1>3, <1>4, <1>5, <1>6, <1>7, <1>8, <1>9 DEF Next

-----------------------------------------------------------------------------
(* What runs is what is saved *)

\* The settings setup() gives to the radios are those of the blob it leaves in NVS.
LEMMA SetupRunsSaved ==
  ASSUME TypeOK, ModeInv, Setup, nvsOk, mode' = "run"
  PROVE  running' = BootSettings(nvs')
  <1>0. build \in BuildFlags /\ nvs \in Blobs /\ cfg = BootConfig(nvs)
    BY BuildType DEF TypeOK, ModeInv, Setup
  <1>1. cfg \in Config /\ Disabled(cfg)
    BY <1>0, BootDisabled
  <1> DEFINE j == Identified(cfg)
  <1>2. j \in Config /\ Disabled(j) /\ j.configured = cfg.configured
    BY <1>1, IdentifiedFacts
  <1>3. BootSettings(nvs) = Settings(j)
    BY <1>0 DEF BootSettings, BootConfig
  <1>4. running' = Settings(IF SelfSaves THEN Saved(j) ELSE j)
    BY DEF Setup
  <1>5. nvs' = nvs \/ (SelfSaves /\ nvs' = [ver |-> 5, cfg |-> Saved(j)])
    BY DEF Setup, SaveResults
  <1> HIDE DEF j
  <1>6. Settings(Saved(j)) = Settings(j)
    <2>1. ApplyBuildDisables(j) = j
      BY <1>2, DisablesIdle DEF Disabled
    <2>2. /\ Saved(j) \in Config /\ Saved(j).region = j.region /\ Saved(j).id = j.id
          /\ \A i \in Radios : Saved(j).radio[i] = j.radio[i]
      BY <1>2, <2>1, SavedFacts
    <2> QED BY <1>2, <2>2, SettingsSame
  <1>7. BootSettings([ver |-> 5, cfg |-> Saved(j)]) = Settings(Saved(j))
    <2>1. /\ Saved(j) \in Config /\ Saved(j).configured = TRUE
          /\ BootConfig([ver |-> 5, cfg |-> Saved(j)]) = Saved(j)
      BY <1>2, SavedFacts
    <2>2. Identified(Saved(j)) = Saved(j)
      BY <2>1 DEF Identified
    <2> QED BY <2>1, <2>2 DEF BootSettings, BootConfig
  <1> QED BY <1>3, <1>4, <1>5, <1>6, <1>7

\* Every step keeps them the same: nothing but setup() and save() writes NVS once
\* begin() is done, and save() ends in a restart.
LEMMA RunsSavedStep == TypeOK /\ ModeInv /\ RunsSaved /\ [Next]_vars => RunsSaved'
  <1> SUFFICES ASSUME TypeOK, ModeInv, RunsSaved, [Next]_vars,
                      running' # Off, nvsOk', mode' = "run"
               PROVE  running' = BootSettings(nvs)'
    BY DEF RunsSaved
  <1>0. BootSettings(nvs)' = BootSettings(nvs')
    BY BuildSame, SameMeaning
  <1>1. CASE Setup
    <2>1. nvsOk
      BY <1>1 DEF Setup
    <2> QED BY <1>0, <1>1, <2>1, SetupRunsSaved
  <1>2. CASE UNCHANGED <<nvs, mode, nvsOk, running>>
    BY <1>0, <1>2 DEF RunsSaved
  <1>3. CASE Reset \/ Begin \/ Save
    BY <1>3 DEF Reset, Begin, Save
  <1>4. CASE \E id \in FormIds, region \in Regions : Post(id, region)
    BY <1>2, <1>4 DEF Post
  <1>5. CASE RowNone \/ RowError \/ Commit \/ \E r \in Rows : RowSet(r)
    BY <1>2, <1>5 DEF RowNone, RowError, Commit, RowSet
  <1>6. CASE UNCHANGED vars
    BY <1>2, <1>6 DEF vars
  <1> QED BY <1>1, <1>3, <1>4, <1>5, <1>6 DEF Next

\* A step changes what the next boot finds only by saving a form, or a first
\* configuration.
LEMMA ChangeStep ==
  ASSUME ~OpenRecovers, TypeOK, ModeInv, Next, BootSettings(nvs') # BootSettings(nvs)
  PROVE  form.step = "save" \/ ~FromBlob(nvs).configured
  <1>0. build \in BuildFlags /\ nvs \in Blobs /\ nvs' # nvs
    BY BuildType DEF TypeOK
  <1>1. CASE Begin
    <2>1. FromBlob(nvs') = FromBlob(nvs)
      BY <1>0, <1>1, UpgradeSame DEF Begin
    <2> QED BY <2>1 DEF BootSettings
  <1>2. CASE Setup
    <2>1. nvsOk /\ ~cfg.configured
      BY <1>0, <1>2 DEF Setup, SaveResults, SelfSaves
    <2>2. cfg = BootConfig(nvs)
      BY <1>2, <2>1 DEF Setup, ModeInv
    <2> QED BY <1>0, <2>1, <2>2, BootDisabled
  <1>3. CASE Save
    BY <1>3 DEF Save
  <1>4. CASE Reset \/ RowNone \/ RowError \/ Commit \/ (\E r \in Rows : RowSet(r))
             \/ \E id \in FormIds, region \in Regions : Post(id, region)
    BY <1>0, <1>4 DEF Reset, RowNone, RowError, Commit, RowSet, Post
  <1> QED BY <1>1, <1>2, <1>3, <1>4 DEF Next

-----------------------------------------------------------------------------
(* What runs has passed the checks *)

\* Turning radios off keeps a configuration legal.
LEMMA LegalFewer ==
  ASSUME NEW c \in Config, NEW d \in Config, Legal(c), d.region = c.region,
         \A i \in Radios : d.radio[i] = c.radio[i] \/ d.radio[i].proto = PROTO_NONE
  PROVE  Legal(d)
  <1>1. PROTO_NONE \notin {PROTO_MT, PROTO_MC}
    BY DEF PROTO_NONE, PROTO_MT, PROTO_MC
  <1>2. ~SelfBridge(d)
    BY <1>1 DEF Legal, SelfBridge
  <1> QED BY <1>2 DEF Legal

\* So do save() and deriveMacIdentity.
LEMMA LegalSaved ==
  ASSUME NEW c \in Config, Legal(c)
  PROVE  /\ Legal(Saved(c)) /\ Legal(Identified(c))
         /\ Legal(Saved(Identified(c)))
  <1>1. ASSUME NEW b \in Config, Legal(b) PROVE Legal(Saved(b))
    <2>1. /\ Saved(b) \in Config /\ Saved(b).region = b.region
          /\ \A i \in Radios : Saved(b).radio[i] = ApplyBuildDisables(b).radio[i]
      BY SavedFacts
    <2>2. \A i \in Radios : \/ ApplyBuildDisables(b).radio[i] = b.radio[i]
                            \/ ApplyBuildDisables(b).radio[i].proto = PROTO_NONE
      BY DisablesFacts
    <2>3. \A i \in Radios : Saved(b).radio[i] = b.radio[i] \/ Saved(b).radio[i].proto = PROTO_NONE
      BY <2>1, <2>2
    <2> QED BY <1>1, <2>1, <2>3, LegalFewer
  <1>2. Identified(c) \in Config /\ Legal(Identified(c))
    BY IdentifiedFacts, LegalFewer
  <1> QED BY <1>1, <1>2

\* Radios set up from a legal configuration.
LEMMA LegalRuns ==
  ASSUME NEW c \in Config, Legal(c), Disabled(c), running' = Settings(c), build' = build
  PROVE  RunsLegal'
  <1>1. /\ DOMAIN running'.radio = ActiveRadios(c) /\ running'.region = c.region
        /\ \A i \in ActiveRadios(c) : running'.radio[i] = c.radio[i]
    BY DEF Settings
  <1>2. \A i \in ActiveRadios(c) : i \in Radios /\ c.radio[i].proto # PROTO_NONE
    BY DEF ActiveRadios
  <1>3. ActiveRadios(c) \cap build.disabled = {}
    BY <1>2 DEF Disabled
  <1>4. \A i \in ActiveRadios(c) : c.radio[i].tx <= Cap[c.region]
    BY <1>2 DEF Legal
  <1>5. \A i, j \in ActiveRadios(c) :
          /\ i # j /\ j \in c.radio[i].routes
          /\ c.radio[i].proto \in {PROTO_MT, PROTO_MC} /\ c.radio[i].proto = c.radio[j].proto
          => \/ ~SameFrequency(c.radio[i].rf, c.radio[j].rf)
             \/ c.radio[i].chan # c.radio[j].chan
    BY <1>2 DEF Legal, SelfBridge
  <1> QED BY <1>1, <1>3, <1>4, <1>5 DEF RunsLegal

\* Legal at boot, in a form that has been checked, and on the air.
LegalInv == LegalBoot /\ FormInv /\ RunsLegal

\* Every step keeps NVS, the configuration of an accepted form and what runs legal.
LEMMA LegalStep == TypeOK /\ ModeInv /\ LegalInv /\ [Next]_vars => LegalInv'
  <1> SUFFICES ASSUME TypeOK, ModeInv, LegalInv, [Next]_vars PROVE LegalInv'
    OBVIOUS
  <1>0. build \in BuildFlags /\ nvs \in Blobs /\ cfg \in Config /\ build' = build
    BY BuildType, BuildSame DEF TypeOK
  <1>M. Defaults' = Defaults /\ BootConfig(nvs)' = BootConfig(nvs')
    BY <1>0, SameMeaning
  <1>B. ASSUME Legal(BootConfig(nvs')) PROVE LegalBoot'
    BY <1>B, <1>M DEF LegalInv, LegalBoot
  <1>C. ASSUME nvs' = nvs PROVE LegalBoot'
    BY <1>B, <1>C DEF LegalInv, LegalBoot
  <1>F. ASSUME form' = NoForm PROVE FormInv'
    BY <1>F DEF FormInv, NoForm
  <1>R. ASSUME running' = running PROVE RunsLegal'
    BY <1>0, <1>R DEF LegalInv, RunsLegal
  <1>S. ASSUME NEW c \in Config, Legal(c), nvs' \in SaveResults(c) PROVE LegalBoot'
    BY <1>B, <1>C, <1>S, SavedFacts, LegalSaved DEF SaveResults
  <1>1. CASE Reset
    BY <1>1, <1>C, <1>F DEF Reset, LegalInv, RunsLegal
  <1>2. CASE Begin
    <2>1. FromBlob(nvs') = FromBlob(nvs)
      BY <1>0, <1>2, UpgradeSame DEF Begin
    <2>2. LegalBoot'
      BY <1>B, <2>1 DEF BootConfig, LegalInv, LegalBoot
    <2>3. form' = NoForm /\ running' = running
      BY <1>2 DEF Begin, ModeInv
    <2> QED BY <1>F, <1>R, <2>2, <2>3 DEF LegalInv
  <1>3. CASE Setup
    <2>1. Legal(cfg) /\ Disabled(cfg)
      BY <1>0, <1>3, BootDisabled DEF Setup, ModeInv, LegalInv, LegalBoot
    <2> DEFINE j == Identified(cfg)
               c == IF SelfSaves THEN Saved(j) ELSE j
    <2>2. j \in Config /\ Legal(j) /\ Disabled(j)
      BY <1>0, <2>1, IdentifiedFacts, LegalSaved
    <2>3. c \in Config /\ Legal(c) /\ Disabled(c)
      BY <2>2, SavedFacts, LegalSaved
    <2>4. /\ nvs' = nvs \/ nvs' \in SaveResults(j)
          /\ running' = running \/ running' = Settings(c)
          /\ form' = NoForm
      BY <1>3 DEF Setup, ModeInv
    <2> HIDE DEF j, c
    <2>5. LegalBoot'
      BY <1>C, <1>S, <2>2, <2>4
    <2>6. RunsLegal'
      BY <1>0, <1>R, <2>3, <2>4, LegalRuns
    <2> QED BY <1>F, <2>4, <2>5, <2>6 DEF LegalInv
  <1>4. CASE \E id \in FormIds, region \in Regions : Post(id, region)
    <2>1. /\ form'.step = "row" /\ form'.row = 1 /\ UNCHANGED <<nvs, running>>
      BY <1>4 DEF Post
    <2>2. FormInv'
      BY <2>1, ConfigAssumption DEF FormInv, Radios
    <2> QED BY <1>C, <1>R, <2>1, <2>2 DEF LegalInv
  <1>5. CASE RowNone \/ \E r \in Rows : RowSet(r)
    <2>1. /\ form \in FormRow /\ form.row \in Radios /\ form.step = "row"
          /\ form' = [form EXCEPT !.row = @ + 1] /\ UNCHANGED <<nvs, running>>
      <3>1. AtRow /\ form' = [form EXCEPT !.row = @ + 1] /\ UNCHANGED <<nvs, running>>
        BY <1>5 DEF RowNone, RowSet
      <3> QED BY <3>1 DEF AtRow, TypeOK, FormRow, NoForm
    <2>2. form'.step = "row" /\ form'.row = form.row + 1 /\ form'.region = form.region
      BY <2>1 DEF FormRow
    <2>3. /\ \A j \in Radios \ {form.row} : cfg'.radio[j] = cfg.radio[j]
          /\ \/ cfg'.radio[form.row].proto = PROTO_NONE
             \/ cfg'.radio[form.row].tx <= Cap[form.region]
      <3>1. CASE RowNone
        BY <1>0, <2>1, <3>1, RowTurnedOff DEF RowNone
      <3>2. ASSUME NEW r \in Rows, RowSet(r)
            PROVE  /\ \A j \in Radios \ {form.row} : cfg'.radio[j] = cfg.radio[j]
                   /\ cfg'.radio[form.row].tx <= Cap[form.region]
        <4>1. r \in RadioSlot /\ form.region \in Regions
          BY <2>1, ValuesAssumption DEF FormRow
        <4>2. cfg' = [cfg EXCEPT !.radio[form.row] = Capped(r, form.row, form.region)]
          BY <3>2 DEF RowSet, Capped
        <4> QED BY <1>0, <2>1, <4>1, <4>2, CappedFacts, RowWritten
      <3> QED BY <1>5, <3>1, <3>2
    <2>4. \A i \in Radios : i < form.row + 1 => i = form.row \/ i < form.row
      BY <2>1, ConfigAssumption DEF Radios
    <2>5. FormInv'
      BY <2>1, <2>2, <2>3, <2>4 DEF LegalInv, FormInv
    <2> QED BY <1>C, <1>R, <2>1, <2>5 DEF LegalInv
  <1>6. CASE RowError
    BY <1>6, <1>C, <1>F, <1>R DEF RowError, LegalInv
  <1>7. CASE Commit
    <2>1. /\ form.step = "row" /\ form.row = NUM_RADIOS + 1 /\ UNCHANGED <<nvs, running>>
          /\ \/ form' = NoForm
             \/ /\ form' = [step |-> "save"] /\ ~SelfBridge(cfg)
                /\ cfg' = [cfg EXCEPT !.id = form.id, !.region = form.region]
      BY <1>7 DEF Commit
    <2>2. CASE form' = NoForm
      BY <1>C, <1>F, <1>R, <2>1, <2>2 DEF LegalInv
    <2>3. CASE /\ form' = [step |-> "save"] /\ ~SelfBridge(cfg)
               /\ cfg' = [cfg EXCEPT !.id = form.id, !.region = form.region]
      <3>1. form.id \in Ids /\ form.region \in Regions
        BY <2>1 DEF TypeOK, NoForm
      <3>2. cfg'.radio = cfg.radio /\ cfg'.region = form.region
        <4>1. PICK d : d = [cfg EXCEPT !.id = form.id, !.region = form.region]
          OBVIOUS
        <4>2. d.radio = cfg.radio /\ d.region = form.region
          BY <1>0, <3>1, <4>1, Committed, ZenonT(60)
        <4>3. cfg' = d
          BY <2>3, <4>1
        <4> QED BY <4>2, <4>3
      <3>3. \A i \in Radios : i < form.row
        BY <2>1, ConfigAssumption DEF Radios
      <3>4. \A i \in Radios : cfg.radio[i].proto # PROTO_NONE => cfg.radio[i].tx <= Cap[form.region]
        BY <2>1, <3>3 DEF LegalInv, FormInv
      <3>5. ~SelfBridge(cfg')
        BY <2>3, <3>2 DEF SelfBridge
      <3>6. Legal(cfg')
        BY <3>2, <3>4, <3>5 DEF Legal
      <3>7. FormInv'
        BY <2>3, <3>6 DEF FormInv
      <3> QED BY <1>C, <1>R, <2>1, <3>7 DEF LegalInv
    <2> QED BY <2>1, <2>2, <2>3
  <1>8. CASE Save
    <2>1. Legal(cfg) /\ nvs' \in SaveResults(cfg) /\ form' = NoForm /\ running' = running
      BY <1>8 DEF Save, LegalInv, FormInv
    <2> QED BY <1>0, <1>F, <1>R, <1>S, <2>1 DEF LegalInv
  <1>9. CASE UNCHANGED vars
    <2>1. nvs' = nvs /\ running' = running /\ form' = form /\ cfg' = cfg
      BY <1>9 DEF vars
    <2>2. FormInv'
      BY <2>1 DEF LegalInv, FormInv
    <2> QED BY <1>C, <1>R, <2>1, <2>2 DEF LegalInv
  <1> QED BY <1>1, <1>2, <1>3, <1>4, <1>5, <1>6, <1>7, <1>8, <1>9 DEF Next

-----------------------------------------------------------------------------
(* Theorems *)

\* Configuration, blob and form are well formed, whatever blob the device starts with
\* and however a form is cut off.
THEOREM TypeCorrect == Spec => [](TypeOK /\ ModeInv)
  <1> QED BY InitTypes, TypeStep, PTL DEF Spec

\* The radios run with the settings the next boot will find (begin, setup, handleSave):
\* for every build and every blob, with any writes failing.
THEOREM RunsWhatIsSaved == Spec => []RunsSaved
  <1>1. Init => RunsSaved
    BY DEF Init, RunsSaved
  <1> QED BY <1>1, RunsSavedStep, TypeCorrect, PTL DEF Spec

\* Unless an NVS that did not open at boot opens later, only a form that passed every
\* check, or a first save, changes what the next boot finds; an upgrade of the schema
\* never does (begin, handleSave).
THEOREM OnlyAcceptedForms == ~OpenRecovers => (Spec => OnlyFormsChange)
  <1> SUFFICES ASSUME ~OpenRecovers PROVE Spec => OnlyFormsChange
    OBVIOUS
  <1>1. TypeOK /\ ModeInv /\ [Next]_vars =>
          [BootSettings(nvs') # BootSettings(nvs) =>
             form.step = "save" \/ ~FromBlob(nvs).configured]_vars
    BY ChangeStep
  <1> QED BY <1>1, TypeCorrect, PTL DEF Spec, OnlyFormsChange

\* Started from legal build flags and a legal blob, the bridge only ever runs what the
\* form's checks accept (applyBuildDisables, handleSave, applyRadio): refused forms,
\* forms cut off half-way and saves that fail leave nothing behind that is not.
THEOREM RunsOnlyLegal == LegalBoot /\ Spec => []RunsLegal
  <1>1. LegalBoot /\ Init => LegalInv
    BY DEF Init, LegalInv, FormInv, RunsLegal, NoForm
  <1>2. LegalInv => RunsLegal
    BY DEF LegalInv
  <1> QED BY <1>1, <1>2, LegalStep, TypeCorrect, PTL DEF Spec
=============================================================================
