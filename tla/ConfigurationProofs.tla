------------------------ MODULE ConfigurationProofs ------------------------
(***************************************************************************)
(* What the two configuration files and their copies in memory promise,    *)
(* for any calls, any values of the settings, any accepted patches and any *)
(* faults.  The invariant says who holds the mutexes and the updater, what *)
(* each step of a save has written so far, and how what is being saved     *)
(* relates to what memory holds.  Files are related to memory by what a    *)
(* launch would read from them.                                            *)
(***************************************************************************)
EXTENDS Configuration, TLAPS

\* A launch would read settings s from settings.json as it stands ...
SettingsHold(s) == fileS \notin {Corrupt, Garbled} /\ SettingsFromJson(fileS) = s
\* ... and channel state s from update-channel.json.
ChannelHolds(s) == fileC \notin {Corrupt, Garbled} /\ ChannelFromJson(fileC) = s

\* A writer at work holds both mutexes, and only while the process runs.
Holding ==
  /\ \A c \in Calls : pc[c] \in Saving => guard = c
  /\ guard # None => guard \in Calls /\ pc[guard] \in Saving
  /\ up # "up" => \A c \in Calls : pc[c] \in {"idle", "done"}

\* What is in the files, step by step.
Files ==
  /\ up \in {"loading", "reconciling"} => SettingsHold(memS)
  /\ up = "reconciling" => ChannelHolds(memC)
  /\ up = "up" => fileC \notin {Corrupt, Garbled}
  /\ up = "up" /\ guard = None => SettingsHold(memS)
  /\ \A c \in Calls : pc[c] \in {"channel", "settings", "rollback"} => SettingsHold(memS)
  /\ \A c \in Calls : pc[c] \in {"settings", "publishing"} => ChannelHolds(ChannelOf(next[c]))
  /\ \A c \in Calls : pc[c] = "publishing" => SettingsHold(next[c])

\* The channel file too, until a rollback fails.
ChannelFile ==
  (\A c \in Calls : pc[c] # "unrepaired") =>
    /\ up = "up" /\ guard = None => ChannelHolds(memC)
    /\ \A c \in Calls : pc[c] = "channel" => ChannelHolds(memC)

\* What is being saved is what memory holds but for the writer's own fields.
Merging ==
  /\ up \in {"loading", "reconciling", "up"} => memS = acked
  /\ \A c \in Patches : pc[c] \in Saving /\ stamp[c] = 0 => next[c].check = memS.check
  /\ \A c \in Checks \cup Installs : pc[c] \in Saving =>
       next[c] = [memS EXCEPT !.check = stamp[c]]

\* A time of a check is the latest while its operation holds the updater.
Times ==
  /\ \A c \in Checks \cup Installs :
       pc[c] \in {"asking", "checked", "downloading"} \cup Saving => updater = c
  /\ \A c \in Checks \cup Installs :
       pc[c] \in {"checked"} \cup Saving => stamp[c] = clock

Inv == ConfigTypeOK /\ Holding /\ Files /\ ChannelFile /\ Merging /\ MemoryAgrees /\ Times

-----------------------------------------------------------------------------
(* The schema                                                              *)

LEMMA CallsDisjoint ==
  /\ Patches \cap (Checks \cup Installs) = {} /\ Checks \cap Installs = {}
  /\ None \notin Calls
BY ConfigCallsAssumption

\* A tagged value is of its type.
LEMMA FieldValue ==
  ASSUME NEW S, NEW x \in Field(S), x.is = "value"
  PROVE  x.value \in S
BY DEF Field, Invalid, Missing

LEMMA ValueIsField ==
  ASSUME NEW S, NEW v \in S
  PROVE  Value(v) \in Field(S) /\ Value(v).is = "value" /\ Value(v).value = v
BY DEF Field, Value

LEMMA DefaultsTyped ==
  /\ 1 \in Amounts /\ 2 \in Precisions /\ MaxDecimalPrecision \in Precisions
  /\ DefaultTolerances \in Tolerances /\ DefaultAdvanced \in Advanced
BY TolerancesAssumption DEF DefaultTolerances, DefaultAdvanced, Tolerances, Advanced,
  RawTolerances, RawAdvanced, TolerancesValid, AdvancedValid, MaxDecimalPrecision

LEMMA ChannelOfSettings ==
  ASSUME NEW s \in Settings
  PROVE  ChannelOf(s) \in ChannelStates
BY DEF Settings, ChannelOf, ChannelStates

LEMMA DefaultIsSettings ==
  Default \in Settings /\ ChannelOf(Default) \in ChannelStates /\ Default.check = 0
<1>1. Default \in Settings /\ Default.check = 0
  BY ThemesAssumption, ClockAssumption, DefaultsTyped DEF Default, Settings, Channels
<1> QED
  BY <1>1, ChannelOfSettings

\* What is written is a document.
LEMMA ToJsonTyped ==
  ASSUME NEW s \in Settings
  PROVE  SettingsToJson(s) \in SettingsDocuments
<1>1. /\ s.channel \in Channels /\ s.check \in 0 .. MaxClock /\ s.theme \in Themes
      /\ s.tolerances \in Tolerances /\ s.privacy \in [ai : BOOLEAN] /\ s.advanced \in Advanced
  BY DEF Settings
<1>2. s.tolerances.absolute \in Amounts /\ s.tolerances.precision \in Precisions
  BY <1>1 DEF Tolerances, RawTolerances
<1>3. s.advanced.use \in BOOLEAN /\ s.advanced.binary \in Binaries \cup {None}
  BY <1>1 DEF Advanced, RawAdvanced
<1>4. SchemaVersion \in Versions
  BY DEF SchemaVersion, Versions
<1> DEFINE t == [absolute |-> Value(s.tolerances.absolute),
                 precision |-> Value(s.tolerances.precision)]
           q == [ai |-> Value(s.privacy.ai)]
           a == [use |-> Value(s.advanced.use), binary |-> Value(s.advanced.binary)]
<1>5. Value(t) \in TolerancesField
  <2>1. t \in [absolute : Field(Amounts), precision : Field(Precisions)]
    BY <1>2, ValueIsField
  <2> QED
    BY <2>1, ValueIsField DEF TolerancesField
<1>6. Value(q) \in PrivacyField
  <2>1. q \in [ai : Field(BOOLEAN)]
    BY <1>1, ValueIsField
  <2> QED
    BY <2>1, ValueIsField DEF PrivacyField
<1>7. Value(a) \in AdvancedField
  <2>1. a \in [use : Field(BOOLEAN), binary : Field(Binaries \cup {None})]
    BY <1>3, ValueIsField
  <2> QED
    BY <2>1, ValueIsField DEF AdvancedField
<1>8. /\ Value(SchemaVersion) \in Field(Versions) /\ Value(s.channel) \in Field(Channels)
      /\ Value(s.check) \in Field(0 .. MaxClock) /\ Value(s.theme) \in Field(Themes)
  BY <1>1, <1>4, ValueIsField
<1> QED
  BY <1>5, <1>6, <1>7, <1>8 DEF SettingsToJson, SettingsDocuments

LEMMA ChannelToJsonTyped ==
  ASSUME NEW s \in ChannelStates
  PROVE  ChannelToJson(s) \in ChannelDocuments
<1>1. s.channel \in Channels /\ s.check \in 0 .. MaxClock
  BY DEF ChannelStates
<1>2. /\ Value(SchemaVersion) \in Field(Versions) /\ Value(s.channel) \in Field(Channels)
      /\ Value(s.check) \in Field(0 .. MaxClock)
  BY <1>1, ValueIsField DEF SchemaVersion, Versions
<1> QED
  BY <1>2 DEF ChannelToJson, ChannelDocuments

LEMMA DefaultedField ==
  ASSUME NEW S, NEW x \in Field(S), NEW v \in S
  PROVE  FieldOrDefault(x, v) \in S
BY FieldValue DEF FieldOrDefault

LEMMA ValueOrDefault ==
  ASSUME NEW v, NEW w
  PROVE  FieldOrDefault(Value(v), w) = v
BY DEF FieldOrDefault, Value

\* A switch is on if the file says so.
LEMMA SwitchField ==
  ASSUME NEW x \in Field(BOOLEAN)
  PROVE  /\ FieldOrDefault(x, FALSE) = TRUE => x = Value(TRUE)
         /\ x = Value(TRUE) => FieldOrDefault(x, FALSE) = TRUE
<1>1. x = Value(TRUE) => FieldOrDefault(x, FALSE) = TRUE
  BY ValueOrDefault
<1>2. CASE x.is = "value"
  <2>1. x = Value(x.value)
    BY <1>2 DEF Field, Value, Invalid, Missing
  <2>2. FieldOrDefault(x, FALSE) = x.value
    BY <2>1, ValueOrDefault, Zenon
  <2>3. x.value = TRUE => x = Value(TRUE)
    BY <2>1, Zenon
  <2> QED
    BY <1>1, <2>2, <2>3, Zenon
<1>3. CASE x.is # "value"
  <2>1. FieldOrDefault(x, FALSE) = FALSE
    BY <1>3, Zenon DEF FieldOrDefault
  <2> QED
    BY <1>1, <2>1, Zenon
<1> QED
  BY <1>2, <1>3

\* A group that is read is valid, whatever the file holds.
LEMMA TolerancesRead ==
  ASSUME NEW raw \in TolerancesField
  PROVE  TolerancesFromJson(raw) \in Tolerances
<1>1. CASE raw.is # "value"
  BY <1>1, DefaultsTyped DEF TolerancesFromJson
<1>2. CASE raw.is = "value"
  <2>1. raw.value \in [absolute : Field(Amounts), precision : Field(Precisions)]
    BY <1>2, FieldValue DEF TolerancesField
  <2> DEFINE x == FieldOrDefault(raw.value.absolute, 1)
             y == FieldOrDefault(raw.value.precision, 2)
  <2>2. x \in Amounts /\ y \in Precisions
    BY <2>1, DefaultedField, DefaultsTyped
  <2>3. TolerancesFromJson(raw) =
          [absolute |-> IF x < 0 THEN 1 ELSE x, precision |-> IF y > MaxDecimalPrecision THEN 2 ELSE y]
    BY <1>2 DEF TolerancesFromJson
  <2> HIDE DEF x, y
  <2>4. x \in Int /\ y \in Nat
    BY <2>2, TolerancesAssumption
  <2> QED
    BY <2>2, <2>3, <2>4, DefaultsTyped DEF Tolerances, RawTolerances, TolerancesValid, MaxDecimalPrecision
<1> QED
  BY <1>1, <1>2

LEMMA AdvancedRead ==
  ASSUME NEW raw \in AdvancedField
  PROVE  AdvancedFromJson(raw) \in Advanced
<1>1. CASE raw.is # "value"
  BY <1>1, DefaultsTyped DEF AdvancedFromJson
<1>2. CASE raw.is = "value"
  <2>1. raw.value \in [use : Field(BOOLEAN), binary : Field(Binaries \cup {None})]
    BY <1>2, FieldValue DEF AdvancedField
  <2> DEFINE a == [use |-> FieldOrDefault(raw.value.use, FALSE),
                   binary |-> FieldOrDefault(raw.value.binary, None)]
  <2>2. a \in RawAdvanced
    BY <2>1, DefaultedField, ZenonT(40) DEF RawAdvanced
  <2>3. AdvancedFromJson(raw) = IF AdvancedValid(a) THEN a ELSE DefaultAdvanced
    BY <1>2 DEF AdvancedFromJson
  <2> HIDE DEF a
  <2> QED
    BY <2>2, <2>3, DefaultsTyped DEF Advanced
<1> QED
  BY <1>1, <1>2

LEMMA PrivacyRead ==
  ASSUME NEW raw \in PrivacyField
  PROVE  PrivacyFromJson(raw) \in [ai : BOOLEAN]
<1>1. CASE raw.is # "value"
  BY <1>1 DEF PrivacyFromJson
<1>2. CASE raw.is = "value"
  <2>1. raw.value \in [ai : Field(BOOLEAN)]
    BY <1>2, FieldValue DEF PrivacyField
  <2>2. FieldOrDefault(raw.value.ai, FALSE) \in BOOLEAN
    BY <2>1, DefaultedField
  <2> QED
    BY <1>2, <2>2 DEF PrivacyFromJson
<1> QED
  BY <1>1, <1>2

\* What a launch reads is settings, whatever document the file holds.
LEMMA SettingsRead ==
  ASSUME NEW d \in SettingsDocuments \cup {Corrupt}
  PROVE  SettingsFromJson(d) \in Settings
<1>1. CASE d = Corrupt
  BY <1>1, DefaultIsSettings DEF SettingsFromJson
<1>2. CASE d # Corrupt
  <2>1. /\ d.channel \in Field(Channels) /\ d.check \in Field(0 .. MaxClock)
        /\ d.theme \in Field(Themes) /\ d.tolerances \in TolerancesField
        /\ d.privacy \in PrivacyField /\ d.advanced \in AdvancedField
    BY <1>2 DEF SettingsDocuments
  <2>2. "stable" \in Channels /\ 0 \in 0 .. MaxClock /\ Default.theme \in Themes
    BY ClockAssumption, DefaultIsSettings DEF Channels, Settings
  <2>3. /\ FieldOrDefault(d.channel, "stable") \in Channels
        /\ FieldOrDefault(d.check, 0) \in 0 .. MaxClock
        /\ FieldOrDefault(d.theme, Default.theme) \in Themes
    BY <2>1, <2>2, DefaultedField
  <2> QED
    BY <1>2, <2>1, <2>3, TolerancesRead, PrivacyRead, AdvancedRead DEF SettingsFromJson, Settings
<1> QED
  BY <1>1, <1>2

LEMMA ChannelRead ==
  ASSUME NEW d \in ChannelDocuments \cup {Corrupt}
  PROVE  ChannelFromJson(d) \in ChannelStates
<1>1. CASE d = Corrupt
  BY <1>1, DefaultIsSettings DEF ChannelFromJson
<1>2. CASE d # Corrupt
  <2>1. d.channel \in Field(Channels) /\ d.check \in Field(0 .. MaxClock)
    BY <1>2 DEF ChannelDocuments
  <2>2. "stable" \in Channels /\ 0 \in 0 .. MaxClock
    BY ClockAssumption DEF Channels
  <2>3. /\ FieldOrDefault(d.channel, "stable") \in Channels
        /\ FieldOrDefault(d.check, 0) \in 0 .. MaxClock
    BY <2>1, <2>2, DefaultedField
  <2> QED
    BY <1>2, <2>3 DEF ChannelFromJson, ChannelStates
<1> QED
  BY <1>1, <1>2

\* What was written is read back as it was.
LEMMA SettingsRoundTrip ==
  ASSUME NEW s \in Settings
  PROVE  /\ SettingsToJson(s) \notin {Corrupt, Garbled}
         /\ SettingsFromJson(SettingsToJson(s)) = s
<1> DEFINE d == SettingsToJson(s)
<1>1. d \notin {Corrupt, Garbled}
  BY ToJsonTyped, DamageAssumption
<1>2. /\ d.channel = Value(s.channel) /\ d.check = Value(s.check) /\ d.theme = Value(s.theme)
      /\ d.tolerances = Value([absolute |-> Value(s.tolerances.absolute),
                               precision |-> Value(s.tolerances.precision)])
      /\ d.privacy = Value([ai |-> Value(s.privacy.ai)])
      /\ d.advanced = Value([use |-> Value(s.advanced.use), binary |-> Value(s.advanced.binary)])
  BY DEF SettingsToJson
<1> HIDE DEF d
<1>3. /\ s.tolerances \in Tolerances /\ s.privacy \in [ai : BOOLEAN] /\ s.advanced \in Advanced
      /\ s = [channel |-> s.channel, check |-> s.check, theme |-> s.theme,
              tolerances |-> s.tolerances, privacy |-> s.privacy, advanced |-> s.advanced]
  BY DEF Settings
<1>4. TolerancesFromJson(d.tolerances) = s.tolerances
  <2>1. /\ s.tolerances = [absolute |-> s.tolerances.absolute, precision |-> s.tolerances.precision]
        /\ s.tolerances.absolute \in Int /\ s.tolerances.absolute >= 0
        /\ s.tolerances.precision \in Nat /\ s.tolerances.precision <= MaxDecimalPrecision
    BY <1>3, TolerancesAssumption DEF Tolerances, RawTolerances, TolerancesValid
  <2>2. TolerancesFromJson(d.tolerances) =
          [absolute |-> IF s.tolerances.absolute < 0 THEN 1 ELSE s.tolerances.absolute,
           precision |-> IF s.tolerances.precision > MaxDecimalPrecision THEN 2 ELSE s.tolerances.precision]
    BY <1>2 DEF TolerancesFromJson, FieldOrDefault, Value
  <2> QED
    BY <2>1, <2>2 DEF MaxDecimalPrecision
<1>5. PrivacyFromJson(d.privacy) = s.privacy
  <2>1. d.privacy.is = "value" /\ d.privacy.value.ai = Value(s.privacy.ai)
    BY <1>2 DEF Value
  <2>2. FieldOrDefault(d.privacy.value.ai, FALSE) = s.privacy.ai
    BY <2>1, ValueOrDefault, Zenon
  <2>3. PrivacyFromJson(d.privacy) = [ai |-> FieldOrDefault(d.privacy.value.ai, FALSE)]
    BY <2>1, Zenon DEF PrivacyFromJson
  <2>4. s.privacy = [ai |-> s.privacy.ai]
    BY <1>3
  <2> QED
    BY <2>2, <2>3, <2>4, Zenon
<1>6. AdvancedFromJson(d.advanced) = s.advanced
  <2>1. s.advanced = [use |-> s.advanced.use, binary |-> s.advanced.binary] /\ AdvancedValid(s.advanced)
    BY <1>3 DEF Advanced, RawAdvanced
  <2>2. AdvancedFromJson(d.advanced) =
          IF AdvancedValid([use |-> s.advanced.use, binary |-> s.advanced.binary])
            THEN [use |-> s.advanced.use, binary |-> s.advanced.binary] ELSE DefaultAdvanced
    <3>1. /\ d.advanced.is = "value" /\ d.advanced.value.use = Value(s.advanced.use)
          /\ d.advanced.value.binary = Value(s.advanced.binary)
      BY <1>2 DEF Value
    <3>2. /\ FieldOrDefault(d.advanced.value.use, FALSE) = s.advanced.use
          /\ FieldOrDefault(d.advanced.value.binary, None) = s.advanced.binary
      BY <3>1, ValueOrDefault, Zenon
    <3> QED
      BY <3>1, <3>2, Zenon DEF AdvancedFromJson
  <2> QED
    BY <2>1, <2>2
<1>7. /\ FieldOrDefault(d.channel, "stable") = s.channel /\ FieldOrDefault(d.check, 0) = s.check
      /\ FieldOrDefault(d.theme, Default.theme) = s.theme
  BY <1>2 DEF FieldOrDefault, Value
<1>8. SettingsFromJson(d) = s
  BY <1>1, <1>3, <1>4, <1>5, <1>6, <1>7 DEF SettingsFromJson
<1> QED
  BY <1>1, <1>8 DEF d

LEMMA ChannelRoundTrip ==
  ASSUME NEW s \in ChannelStates
  PROVE  /\ ChannelToJson(s) \notin {Corrupt, Garbled}
         /\ ChannelFromJson(ChannelToJson(s)) = s
<1>1. ChannelToJson(s) \notin {Corrupt, Garbled}
  BY ChannelToJsonTyped, DamageAssumption
<1>2. s = [channel |-> s.channel, check |-> s.check]
  BY DEF ChannelStates
<1>3. ChannelFromJson(ChannelToJson(s)) = [channel |-> s.channel, check |-> s.check]
  BY <1>1 DEF ChannelFromJson, ChannelToJson, FieldOrDefault, Value
<1> QED
  BY <1>1, <1>2, <1>3

\* A patch that is accepted gives settings, and leaves the time of the check.
LEMMA PatchGivesSettings ==
  ASSUME NEW s \in Settings, NEW p \in Requests, PatchAccepted(p)
  PROVE  /\ ApplyTypedPatch(s, p) \in Settings /\ FieldOrDefault(p.check, 0) \in 0 .. MaxClock
         /\ FieldOrDefault(p.check, 0) = 0 => ApplyTypedPatch(s, p).check = s.check
<1>1. p \in SettingsPatches
  BY RequestsAssumption
<1>2. /\ p.channel \in Field(Channels) /\ p.theme \in Field(Themes)
      /\ p.tolerances \in Field(RawTolerances) /\ p.privacy \in Field([ai : BOOLEAN])
      /\ p.advanced \in Field(RawAdvanced) /\ p.check \in Field(1 .. MaxClock)
  BY <1>1 DEF SettingsPatches
<1>3. /\ s.channel \in Channels /\ s.theme \in Themes /\ s.tolerances \in Tolerances
      /\ s.privacy \in [ai : BOOLEAN] /\ s.advanced \in Advanced /\ s.check \in 0 .. MaxClock
  BY DEF Settings
<1> DEFINE t == IF p.tolerances.is = "value" THEN Sanitize(p.tolerances.value) ELSE s.tolerances
           a == FieldOrDefault(p.advanced, s.advanced)
<1>4. t \in Tolerances
  <2>1. CASE p.tolerances.is = "value"
    <3>1. p.tolerances.value \in RawTolerances
      BY <1>2, <2>1, FieldValue
    <3>2. TolerancesValid(Sanitize(p.tolerances.value))
      BY <2>1 DEF PatchAccepted
    <3>3. /\ Sanitize(p.tolerances.value) \in RawTolerances
          /\ Sanitize(p.tolerances.value).precision <= MaxDecimalPrecision
      BY <3>1, DefaultsTyped, TolerancesAssumption DEF Sanitize, RawTolerances, MaxDecimalPrecision
    <3> QED
      BY <2>1, <3>2, <3>3 DEF Tolerances
  <2>2. CASE p.tolerances.is # "value"
    BY <1>3, <2>2
  <2> QED
    BY <2>1, <2>2
<1>5. a \in Advanced
  <2>1. CASE p.advanced.is = "value"
    <3>1. p.advanced.value \in RawAdvanced
      BY <1>2, <2>1, FieldValue
    <3>2. AdvancedValid(p.advanced.value)
      BY <2>1 DEF PatchAccepted
    <3> QED
      BY <2>1, <3>1, <3>2 DEF Advanced, FieldOrDefault
  <2>2. CASE p.advanced.is # "value"
    BY <1>3, <2>2 DEF FieldOrDefault
  <2> QED
    BY <2>1, <2>2
<1>6. /\ FieldOrDefault(p.channel, s.channel) \in Channels
      /\ FieldOrDefault(p.theme, s.theme) \in Themes
      /\ FieldOrDefault(p.privacy, s.privacy) \in [ai : BOOLEAN]
  BY <1>2, <1>3, DefaultedField
<1>c. /\ FieldOrDefault(p.check, s.check) \in 0 .. MaxClock
      /\ FieldOrDefault(p.check, 0) \in 0 .. MaxClock
      /\ FieldOrDefault(p.check, 0) = 0 => FieldOrDefault(p.check, s.check) = s.check
  <2>1. p.check.is = "value" => p.check.value \in 1 .. MaxClock
    BY <1>2, FieldValue
  <2> QED
    BY <1>3, <2>1, ClockAssumption DEF FieldOrDefault
<1>7. ApplyTypedPatch(s, p) =
        [s EXCEPT !.channel = FieldOrDefault(p.channel, s.channel),
                  !.check = FieldOrDefault(p.check, s.check),
                  !.theme = FieldOrDefault(p.theme, s.theme), !.tolerances = t,
                  !.privacy = FieldOrDefault(p.privacy, s.privacy), !.advanced = a]
  BY DEF ApplyTypedPatch, Settings
<1> HIDE DEF t, a
<1> QED
  BY <1>4, <1>5, <1>6, <1>7, <1>c DEF Settings

\* An edited file is a document.
LEMMA EditedIsDocument ==
  ASSUME NEW d \in SettingsDocuments \cup {Corrupt, Garbled}, NEW e \in EditedSettings(d)
  PROVE  e \in SettingsDocuments
<1>1. d \in SettingsDocuments /\ d \notin {Corrupt, Garbled}
  BY DEF EditedSettings
<1>2. Invalid \in Field(Channels) /\ Missing \in Field(0 .. MaxClock) /\ Invalid \in Field(Themes)
      /\ Invalid \in PrivacyField
  BY DEF Field, PrivacyField
<1>3. TolerancesEdits \subseteq TolerancesField /\ AdvancedEdits \subseteq AdvancedField
  BY EditsAssumption
<1>4. \/ \E v \in Field(Versions) : e = [d EXCEPT !.version = v]
      \/ e = [d EXCEPT !.channel = Invalid] \/ e = [d EXCEPT !.check = Missing]
      \/ e = [d EXCEPT !.theme = Invalid] \/ e = [d EXCEPT !.privacy = Invalid]
      \/ \E t \in TolerancesField : e = [d EXCEPT !.tolerances = t]
      \/ \E a \in AdvancedField : e = [d EXCEPT !.advanced = a]
  BY <1>1, <1>3 DEF EditedSettings
<1> QED
  BY <1>1, <1>2, <1>4 DEF SettingsDocuments

LEMMA EditedChannelIsDocument ==
  ASSUME NEW d \in ChannelDocuments \cup {Corrupt, Garbled}, NEW e \in EditedChannel(d)
  PROVE  e \in ChannelDocuments
<1>1. d \in ChannelDocuments
  BY DEF EditedChannel
<1>2. Value(1) \in Field(Versions) /\ Missing \in Field(Channels)
  BY ValueIsField DEF Versions, Field
<1> QED
  BY <1>1, <1>2 DEF EditedChannel, ChannelDocuments

-----------------------------------------------------------------------------
(* Steps                                                                   *)

\* The initial states satisfy the invariant.
LEMMA InitInv == Init => Inv
<1> SUFFICES ASSUME Init PROVE Inv
  OBVIOUS
<1>1. ConfigTypeOK
  BY DefaultIsSettings, ToJsonTyped, ChannelToJsonTyped, ClockAssumption, MaxDamageAssumption
    DEF Init, ConfigTypeOK, Channels
<1>2. SettingsHold(Default) /\ ChannelHolds(ChannelOf(Default))
  BY DefaultIsSettings, SettingsRoundTrip, ChannelRoundTrip DEF Init, SettingsHold, ChannelHolds
<1>3. Holding /\ MemoryAgrees
  BY DEF Init, Holding, MemoryAgrees, Saving, Calls
<1>4. ChannelFile
  BY <1>2 DEF Init, ChannelFile
<1>5. Files
  BY <1>2 DEF Init, Files, Calls, ChannelHolds
<1>6. Merging
  BY DEF Init, Merging, Saving, Calls
<1>7. Times
  BY <1>2, DefaultIsSettings DEF Init, Times, Saving, Calls, SettingsHold
<1> QED
  BY <1>1, <1>3, <1>4, <1>5, <1>6, <1>7 DEF Inv

\* Every step preserves ConfigTypeOK.
LEMMA TypeStep == Inv /\ [Next]_vars => ConfigTypeOK'
<1> SUFFICES ASSUME Inv, [Next]_vars PROVE ConfigTypeOK'
  OBVIOUS
<1> USE CallsDisjoint DEF At, Calls, ConfigTypeOK, Finish, Goto, Inv, Saving
<1>1. ASSUME NEW c \in Patches, NEW p \in Requests, Patch(c, p) PROVE ConfigTypeOK'
  BY <1>1, PatchGivesSettings DEF Patch
<1>2. ASSUME NEW c \in Calls, SaveChannel(c) PROVE ConfigTypeOK'
  BY <1>2, ChannelOfSettings, ChannelToJsonTyped DEF SaveChannel
<1>3. ASSUME NEW c \in Calls, ChannelFails(c) PROVE ConfigTypeOK'
  BY <1>3 DEF ChannelFails
<1>4. ASSUME NEW c \in Calls, SaveSettings(c) PROVE ConfigTypeOK'
  BY <1>4, ToJsonTyped DEF SaveSettings
<1>5. ASSUME NEW c \in Calls, SettingsFail(c) PROVE ConfigTypeOK'
  BY <1>5 DEF SettingsFail
<1>6. ASSUME NEW c \in Calls, RollBack(c) PROVE ConfigTypeOK'
  BY <1>6, ChannelToJsonTyped DEF RollBack
<1>7. ASSUME NEW c \in Calls, Publish(c) PROVE ConfigTypeOK'
  <2>1. memS' \in Settings /\ memC' \in ChannelStates
    BY <1>7, ChannelOfSettings DEF Publish
  <2>2. acked' \in Settings
    <3>1. next[c] \in Settings /\ acked \in Settings /\ stamp[c] \in 0 .. MaxClock
      BY <1>7 DEF Publish
    <3>2. [next[c] EXCEPT !.check = IF stamp[c] = 0 THEN acked.check ELSE @] \in Settings
          /\ [acked EXCEPT !.check = stamp[c]] \in Settings
      BY <3>1 DEF Settings
    <3> QED
      BY <1>7, <3>2 DEF Publish
  <2> QED
    BY <1>7, <2>1, <2>2 DEF Publish
<1>8. ASSUME NEW c \in Checks, BeginCheck(c) PROVE ConfigTypeOK'
  BY <1>8 DEF BeginCheck, ChannelStates
<1>8s. ASSUME NEW c \in Checks, SkipCheck(c) PROVE ConfigTypeOK'
  BY <1>8s DEF SkipCheck
<1>9. ASSUME NEW c \in Installs, NEW ch \in Channels, BeginInstall(c, ch) PROVE ConfigTypeOK'
  BY <1>9 DEF BeginInstall
<1>10. ASSUME NEW c \in Checks \cup Installs, Persist(c) PROVE ConfigTypeOK'
  <2>1. stamp[c] \in 0 .. MaxClock /\ memS \in Settings
    BY <1>10 DEF Persist
  <2>2. [memS EXCEPT !.check = stamp[c]] \in Settings
    BY <2>1 DEF Settings
  <2> QED
    BY <1>10, <2>2 DEF Persist
<1>11. ASSUME NEW c \in Checks \cup Installs, FeedAnswers(c) PROVE ConfigTypeOK'
  BY <1>11, ClockAssumption DEF FeedAnswers
<1>12. ASSUME NEW c \in Checks \cup Installs, GiveUp(c) PROVE ConfigTypeOK'
  BY <1>12 DEF GiveUp
<1>13. ASSUME NEW c \in Installs, Install(c) PROVE ConfigTypeOK'
  BY <1>13 DEF Install
<1>14. CASE ProcessEnds
  BY <1>14 DEF ProcessEnds, callVars
<1>15. CASE DamageFiles
  BY <1>15, EditedIsDocument, EditedChannelIsDocument, MaxDamageAssumption DEF DamageFiles, Damage, callVars
<1>16. CASE Launch
  BY <1>16 DEF Launch, callVars
<1>17. ASSUME NEW f \in {"settings", "channel"}, BackUpCorrupt(f) PROVE ConfigTypeOK'
  BY <1>17 DEF BackUpCorrupt, callVars
<1>18. CASE LoadSettings
  BY <1>18, SettingsRead, ToJsonTyped DEF LoadSettings, callVars
<1>19. CASE LoadChannel
  BY <1>19, ChannelRead, ChannelToJsonTyped DEF LoadChannel, callVars
<1>20. CASE LoadFails
  BY <1>20 DEF LoadFails, callVars
<1>21. CASE Reconcile
  BY <1>21, ChannelOfSettings, ChannelToJsonTyped DEF Reconcile, callVars
<1>22. CASE UNCHANGED vars
  BY <1>22 DEF vars, callVars
<1> QED
  BY <1>1, <1>2, <1>3, <1>4, <1>5, <1>6, <1>7, <1>8, <1>8s, <1>9, <1>10, <1>11, <1>12, <1>13, <1>14, <1>15, <1>16, <1>17, <1>18, <1>19, <1>20, <1>21, <1>22 DEF Next, SaveStep

\* Every step preserves Holding.
LEMMA HoldingStep == Inv /\ [Next]_vars => Holding'
<1> SUFFICES ASSUME Inv, [Next]_vars PROVE Holding'
  OBVIOUS
<1>t. ConfigTypeOK'
  BY TypeStep
<1> USE CallsDisjoint DEF At, Calls, ConfigTypeOK, Finish, Goto, Holding, Inv, Saving
<1>1. ASSUME NEW c \in Patches, NEW p \in Requests, Patch(c, p) PROVE Holding'
  BY <1>1, <1>t DEF Patch
<1>2. ASSUME NEW c \in Calls, SaveChannel(c) PROVE Holding'
  BY <1>2, <1>t DEF SaveChannel
<1>3. ASSUME NEW c \in Calls, ChannelFails(c) PROVE Holding'
  BY <1>3, <1>t DEF ChannelFails
<1>4. ASSUME NEW c \in Calls, SaveSettings(c) PROVE Holding'
  BY <1>4, <1>t DEF SaveSettings
<1>5. ASSUME NEW c \in Calls, SettingsFail(c) PROVE Holding'
  BY <1>5, <1>t DEF SettingsFail
<1>6. ASSUME NEW c \in Calls, RollBack(c) PROVE Holding'
  BY <1>6, <1>t DEF RollBack
<1>7. ASSUME NEW c \in Calls, Publish(c) PROVE Holding'
  BY <1>7, <1>t DEF Publish
<1>8. ASSUME NEW c \in Checks, BeginCheck(c) PROVE Holding'
  BY <1>8, <1>t DEF BeginCheck
<1>8s. ASSUME NEW c \in Checks, SkipCheck(c) PROVE Holding'
  BY <1>8s, <1>t DEF SkipCheck
<1>9. ASSUME NEW c \in Installs, NEW ch \in Channels, BeginInstall(c, ch) PROVE Holding'
  BY <1>9, <1>t DEF BeginInstall
<1>10. ASSUME NEW c \in Checks \cup Installs, Persist(c) PROVE Holding'
  BY <1>10, <1>t DEF Persist
<1>11. ASSUME NEW c \in Checks \cup Installs, FeedAnswers(c) PROVE Holding'
  BY <1>11, <1>t DEF FeedAnswers
<1>12. ASSUME NEW c \in Checks \cup Installs, GiveUp(c) PROVE Holding'
  BY <1>12, <1>t DEF GiveUp
<1>13. ASSUME NEW c \in Installs, Install(c) PROVE Holding'
  BY <1>13, <1>t DEF Install
<1>14. CASE ProcessEnds
  BY <1>14, <1>t DEF ProcessEnds, callVars
<1>15. CASE DamageFiles
  BY <1>15, <1>t DEF DamageFiles, callVars
<1>16. CASE Launch
  BY <1>16, <1>t DEF Launch, callVars
<1>17. ASSUME NEW f \in {"settings", "channel"}, BackUpCorrupt(f) PROVE Holding'
  BY <1>17, <1>t DEF BackUpCorrupt, callVars
<1>18. CASE LoadSettings
  BY <1>18, <1>t DEF LoadSettings, callVars
<1>19. CASE LoadChannel
  BY <1>19, <1>t DEF LoadChannel, callVars
<1>20. CASE LoadFails
  BY <1>20, <1>t DEF LoadFails, callVars
<1>21. CASE Reconcile
  BY <1>21, <1>t DEF Reconcile, callVars
<1>22. CASE UNCHANGED vars
  BY <1>22 DEF vars, callVars
<1> QED
  BY <1>1, <1>2, <1>3, <1>4, <1>5, <1>6, <1>7, <1>8, <1>8s, <1>9, <1>10, <1>11, <1>12, <1>13, <1>14, <1>15, <1>16, <1>17, <1>18, <1>19, <1>20, <1>21, <1>22 DEF Next, SaveStep

\* Every step preserves Files.
LEMMA FilesStep == Inv /\ [Next]_vars => Files'
<1> SUFFICES ASSUME Inv, [Next]_vars PROVE Files'
  OBVIOUS
<1>t. ConfigTypeOK'
  BY TypeStep
<1> USE CallsDisjoint DEF At, Calls, ChannelHolds, ConfigTypeOK, Files, Finish, Goto, Holding, Inv, Saving, SettingsHold
<1>1. ASSUME NEW c \in Patches, NEW p \in Requests, Patch(c, p) PROVE Files'
  BY <1>1, <1>t DEF Patch
<1>2. ASSUME NEW c \in Calls, SaveChannel(c) PROVE Files'
  BY <1>2, <1>t, ChannelRoundTrip, ChannelOfSettings DEF SaveChannel
<1>3. ASSUME NEW c \in Calls, ChannelFails(c) PROVE Files'
  BY <1>3, <1>t DEF ChannelFails
<1>4. ASSUME NEW c \in Calls, SaveSettings(c) PROVE Files'
  BY <1>4, <1>t, SettingsRoundTrip DEF SaveSettings
<1>5. ASSUME NEW c \in Calls, SettingsFail(c) PROVE Files'
  BY <1>5, <1>t DEF SettingsFail
<1>6. ASSUME NEW c \in Calls, RollBack(c) PROVE Files'
  BY <1>6, <1>t, ChannelRoundTrip, ChannelOfSettings DEF RollBack
<1>7. ASSUME NEW c \in Calls, Publish(c) PROVE Files'
  BY <1>7, <1>t DEF Publish
<1>8. ASSUME NEW c \in Checks, BeginCheck(c) PROVE Files'
  BY <1>8, <1>t DEF BeginCheck
<1>8s. ASSUME NEW c \in Checks, SkipCheck(c) PROVE Files'
  BY <1>8s, <1>t DEF SkipCheck
<1>9. ASSUME NEW c \in Installs, NEW ch \in Channels, BeginInstall(c, ch) PROVE Files'
  BY <1>9, <1>t DEF BeginInstall
<1>10. ASSUME NEW c \in Checks \cup Installs, Persist(c) PROVE Files'
  BY <1>10, <1>t DEF Persist
<1>11. ASSUME NEW c \in Checks \cup Installs, FeedAnswers(c) PROVE Files'
  BY <1>11, <1>t DEF FeedAnswers
<1>12. ASSUME NEW c \in Checks \cup Installs, GiveUp(c) PROVE Files'
  BY <1>12, <1>t DEF GiveUp
<1>13. ASSUME NEW c \in Installs, Install(c) PROVE Files'
  BY <1>13, <1>t DEF Install
<1>14. CASE ProcessEnds
  BY <1>14, <1>t DEF ProcessEnds, callVars
<1>15. CASE DamageFiles
  BY <1>15, <1>t DEF DamageFiles, callVars
<1>16. CASE Launch
  BY <1>16, <1>t DEF Launch, callVars
<1>17. ASSUME NEW f \in {"settings", "channel"}, BackUpCorrupt(f) PROVE Files'
  BY <1>17, <1>t DEF BackUpCorrupt, callVars
<1>18. CASE LoadSettings
  BY <1>18, <1>t, SettingsRoundTrip, SettingsRead DEF LoadSettings, Rewritten, callVars
<1>19. CASE LoadChannel
  BY <1>19, <1>t, ChannelRoundTrip, ChannelOfSettings, ChannelRead DEF LoadChannel, Rewritten, callVars
<1>20. CASE LoadFails
  BY <1>20, <1>t DEF LoadFails, callVars
<1>21. CASE Reconcile
  BY <1>21, <1>t, ChannelRoundTrip, ChannelOfSettings DEF Reconcile, callVars
<1>22. CASE UNCHANGED vars
  BY <1>22 DEF vars, callVars
<1> QED
  BY <1>1, <1>2, <1>3, <1>4, <1>5, <1>6, <1>7, <1>8, <1>8s, <1>9, <1>10, <1>11, <1>12, <1>13, <1>14, <1>15, <1>16, <1>17, <1>18, <1>19, <1>20, <1>21, <1>22 DEF Next, SaveStep

\* Every step preserves ChannelFile.
LEMMA ChannelFileStep == Inv /\ [Next]_vars => ChannelFile'
<1> SUFFICES ASSUME Inv, [Next]_vars PROVE ChannelFile'
  OBVIOUS
<1>t. ConfigTypeOK'
  BY TypeStep
<1> USE CallsDisjoint DEF At, Calls, ChannelFile, ChannelHolds, ConfigTypeOK, Files, Finish, Goto, Holding, Inv, Saving, SettingsHold
<1>1. ASSUME NEW c \in Patches, NEW p \in Requests, Patch(c, p) PROVE ChannelFile'
  BY <1>1, <1>t DEF Patch
<1>2. ASSUME NEW c \in Calls, SaveChannel(c) PROVE ChannelFile'
  BY <1>2, <1>t, ChannelRoundTrip, ChannelOfSettings DEF SaveChannel
<1>3. ASSUME NEW c \in Calls, ChannelFails(c) PROVE ChannelFile'
  BY <1>3, <1>t DEF ChannelFails
<1>4. ASSUME NEW c \in Calls, SaveSettings(c) PROVE ChannelFile'
  BY <1>4, <1>t DEF SaveSettings
<1>5. ASSUME NEW c \in Calls, SettingsFail(c) PROVE ChannelFile'
  BY <1>5, <1>t DEF SettingsFail
<1>6. ASSUME NEW c \in Calls, RollBack(c) PROVE ChannelFile'
  BY <1>6, <1>t, ChannelRoundTrip, ChannelOfSettings DEF RollBack
<1>7. ASSUME NEW c \in Calls, Publish(c) PROVE ChannelFile'
  BY <1>7, <1>t DEF Publish
<1>8. ASSUME NEW c \in Checks, BeginCheck(c) PROVE ChannelFile'
  BY <1>8, <1>t DEF BeginCheck
<1>8s. ASSUME NEW c \in Checks, SkipCheck(c) PROVE ChannelFile'
  BY <1>8s, <1>t DEF SkipCheck
<1>9. ASSUME NEW c \in Installs, NEW ch \in Channels, BeginInstall(c, ch) PROVE ChannelFile'
  BY <1>9, <1>t DEF BeginInstall
<1>10. ASSUME NEW c \in Checks \cup Installs, Persist(c) PROVE ChannelFile'
  BY <1>10, <1>t DEF Persist
<1>11. ASSUME NEW c \in Checks \cup Installs, FeedAnswers(c) PROVE ChannelFile'
  BY <1>11, <1>t DEF FeedAnswers
<1>12. ASSUME NEW c \in Checks \cup Installs, GiveUp(c) PROVE ChannelFile'
  BY <1>12, <1>t DEF GiveUp
<1>13. ASSUME NEW c \in Installs, Install(c) PROVE ChannelFile'
  BY <1>13, <1>t DEF Install
<1>14. CASE ProcessEnds
  BY <1>14, <1>t DEF ProcessEnds, callVars
<1>15. CASE DamageFiles
  BY <1>15, <1>t DEF DamageFiles, callVars
<1>16. CASE Launch
  BY <1>16, <1>t DEF Launch, callVars
<1>17. ASSUME NEW f \in {"settings", "channel"}, BackUpCorrupt(f) PROVE ChannelFile'
  BY <1>17, <1>t DEF BackUpCorrupt, callVars
<1>18. CASE LoadSettings
  BY <1>18, <1>t DEF LoadSettings, callVars
<1>19. CASE LoadChannel
  BY <1>19, <1>t, ChannelRoundTrip, ChannelOfSettings, ChannelRead DEF LoadChannel, Rewritten, callVars
<1>20. CASE LoadFails
  BY <1>20, <1>t DEF LoadFails, callVars
<1>21. CASE Reconcile
  BY <1>21, <1>t, ChannelRoundTrip, ChannelOfSettings DEF Reconcile, callVars
<1>22. CASE UNCHANGED vars
  BY <1>22 DEF vars, callVars
<1> QED
  BY <1>1, <1>2, <1>3, <1>4, <1>5, <1>6, <1>7, <1>8, <1>8s, <1>9, <1>10, <1>11, <1>12, <1>13, <1>14, <1>15, <1>16, <1>17, <1>18, <1>19, <1>20, <1>21, <1>22 DEF Next, SaveStep

\* Every step preserves Merging.
LEMMA MergingStep == Inv /\ [Next]_vars => Merging'
<1> SUFFICES ASSUME Inv, [Next]_vars PROVE Merging'
  OBVIOUS
<1>t. ConfigTypeOK'
  BY TypeStep
<1> USE CallsDisjoint DEF At, Calls, ConfigTypeOK, Files, Finish, Goto, Holding, Inv, Merging, Saving
<1>1. ASSUME NEW c \in Patches, NEW p \in Requests, Patch(c, p) PROVE Merging'
  BY <1>1, <1>t, PatchGivesSettings DEF Patch
<1>2. ASSUME NEW c \in Calls, SaveChannel(c) PROVE Merging'
  BY <1>2, <1>t DEF SaveChannel
<1>3. ASSUME NEW c \in Calls, ChannelFails(c) PROVE Merging'
  BY <1>3, <1>t DEF ChannelFails
<1>4. ASSUME NEW c \in Calls, SaveSettings(c) PROVE Merging'
  BY <1>4, <1>t DEF SaveSettings
<1>5. ASSUME NEW c \in Calls, SettingsFail(c) PROVE Merging'
  BY <1>5, <1>t DEF SettingsFail
<1>6. ASSUME NEW c \in Calls, RollBack(c) PROVE Merging'
  BY <1>6, <1>t DEF RollBack
<1>7. ASSUME NEW c \in Calls, Publish(c) PROVE Merging'
  <2>1. memS' = next[c] /\ memS = acked /\ memS \in Settings /\ next[c] \in Settings
    BY <1>7 DEF Publish
  <2>2. CASE c \in Patches
    <3>1. stamp[c] = 0 => next[c].check = acked.check
      BY <1>7, <2>1, <2>2 DEF Publish
    <3>2. [next[c] EXCEPT !.check = IF stamp[c] = 0 THEN acked.check ELSE @] = next[c]
      BY <2>1, <3>1 DEF Settings
    <3>3. acked' = next[c]
      BY <1>7, <2>2, <3>2 DEF Publish
    <3> QED
      BY <1>7, <2>1, <3>3 DEF Publish
  <2>3. CASE c \in Checks \cup Installs
    <3>1. acked' = [memS EXCEPT !.check = stamp[c]]
      BY <1>7, <2>1, <2>3 DEF Publish
    <3>2. acked' = next[c]
      BY <1>7, <2>3, <3>1 DEF Publish
    <3> QED
      BY <1>7, <2>1, <3>2 DEF Publish
  <2> QED
    BY <2>2, <2>3
<1>8. ASSUME NEW c \in Checks, BeginCheck(c) PROVE Merging'
  BY <1>8, <1>t DEF BeginCheck
<1>8s. ASSUME NEW c \in Checks, SkipCheck(c) PROVE Merging'
  BY <1>8s, <1>t DEF SkipCheck
<1>9. ASSUME NEW c \in Installs, NEW ch \in Channels, BeginInstall(c, ch) PROVE Merging'
  BY <1>9, <1>t DEF BeginInstall
<1>10. ASSUME NEW c \in Checks \cup Installs, Persist(c) PROVE Merging'
  BY <1>10, <1>t DEF Persist
<1>11. ASSUME NEW c \in Checks \cup Installs, FeedAnswers(c) PROVE Merging'
  BY <1>11, <1>t DEF FeedAnswers
<1>12. ASSUME NEW c \in Checks \cup Installs, GiveUp(c) PROVE Merging'
  BY <1>12, <1>t DEF GiveUp
<1>13. ASSUME NEW c \in Installs, Install(c) PROVE Merging'
  BY <1>13, <1>t DEF Install
<1>14. CASE ProcessEnds
  BY <1>14, <1>t DEF ProcessEnds, callVars
<1>15. CASE DamageFiles
  BY <1>15, <1>t DEF DamageFiles, callVars
<1>16. CASE Launch
  BY <1>16, <1>t DEF Launch, callVars
<1>17. ASSUME NEW f \in {"settings", "channel"}, BackUpCorrupt(f) PROVE Merging'
  BY <1>17, <1>t DEF BackUpCorrupt, callVars
<1>18. CASE LoadSettings
  BY <1>18, <1>t DEF LoadSettings, callVars
<1>19. CASE LoadChannel
  BY <1>19, <1>t DEF LoadChannel, callVars
<1>20. CASE LoadFails
  BY <1>20, <1>t DEF LoadFails, callVars
<1>21. CASE Reconcile
  BY <1>21, <1>t DEF Reconcile, callVars
<1>22. CASE UNCHANGED vars
  BY <1>22 DEF vars, callVars
<1> QED
  BY <1>1, <1>2, <1>3, <1>4, <1>5, <1>6, <1>7, <1>8, <1>8s, <1>9, <1>10, <1>11, <1>12, <1>13, <1>14, <1>15, <1>16, <1>17, <1>18, <1>19, <1>20, <1>21, <1>22 DEF Next, SaveStep

\* Every step preserves MemoryAgrees.
LEMMA AgreeStep == Inv /\ [Next]_vars => MemoryAgrees'
<1> SUFFICES ASSUME Inv, [Next]_vars PROVE MemoryAgrees'
  OBVIOUS
<1>t. ConfigTypeOK'
  BY TypeStep
<1> USE CallsDisjoint DEF At, Calls, ConfigTypeOK, Finish, Goto, Holding, Inv, MemoryAgrees, Merging, Saving
<1>1. ASSUME NEW c \in Patches, NEW p \in Requests, Patch(c, p) PROVE MemoryAgrees'
  BY <1>1, <1>t DEF Patch
<1>2. ASSUME NEW c \in Calls, SaveChannel(c) PROVE MemoryAgrees'
  BY <1>2, <1>t DEF SaveChannel
<1>3. ASSUME NEW c \in Calls, ChannelFails(c) PROVE MemoryAgrees'
  BY <1>3, <1>t DEF ChannelFails
<1>4. ASSUME NEW c \in Calls, SaveSettings(c) PROVE MemoryAgrees'
  BY <1>4, <1>t DEF SaveSettings
<1>5. ASSUME NEW c \in Calls, SettingsFail(c) PROVE MemoryAgrees'
  BY <1>5, <1>t DEF SettingsFail
<1>6. ASSUME NEW c \in Calls, RollBack(c) PROVE MemoryAgrees'
  BY <1>6, <1>t DEF RollBack
<1>7. ASSUME NEW c \in Calls, Publish(c) PROVE MemoryAgrees'
  BY <1>7, <1>t DEF Publish
<1>8. ASSUME NEW c \in Checks, BeginCheck(c) PROVE MemoryAgrees'
  BY <1>8, <1>t DEF BeginCheck
<1>8s. ASSUME NEW c \in Checks, SkipCheck(c) PROVE MemoryAgrees'
  BY <1>8s, <1>t DEF SkipCheck
<1>9. ASSUME NEW c \in Installs, NEW ch \in Channels, BeginInstall(c, ch) PROVE MemoryAgrees'
  BY <1>9, <1>t DEF BeginInstall
<1>10. ASSUME NEW c \in Checks \cup Installs, Persist(c) PROVE MemoryAgrees'
  BY <1>10, <1>t DEF Persist
<1>11. ASSUME NEW c \in Checks \cup Installs, FeedAnswers(c) PROVE MemoryAgrees'
  BY <1>11, <1>t DEF FeedAnswers
<1>12. ASSUME NEW c \in Checks \cup Installs, GiveUp(c) PROVE MemoryAgrees'
  BY <1>12, <1>t DEF GiveUp
<1>13. ASSUME NEW c \in Installs, Install(c) PROVE MemoryAgrees'
  BY <1>13, <1>t DEF Install
<1>14. CASE ProcessEnds
  BY <1>14, <1>t DEF ProcessEnds, callVars
<1>15. CASE DamageFiles
  BY <1>15, <1>t DEF DamageFiles, callVars
<1>16. CASE Launch
  BY <1>16, <1>t DEF Launch, callVars
<1>17. ASSUME NEW f \in {"settings", "channel"}, BackUpCorrupt(f) PROVE MemoryAgrees'
  BY <1>17, <1>t DEF BackUpCorrupt, callVars
<1>18. CASE LoadSettings
  BY <1>18, <1>t DEF LoadSettings, callVars
<1>19. CASE LoadChannel
  BY <1>19, <1>t DEF LoadChannel, callVars
<1>20. CASE LoadFails
  BY <1>20, <1>t DEF LoadFails, callVars
<1>21. CASE Reconcile
  BY <1>21, <1>t DEF Reconcile, callVars
<1>22. CASE UNCHANGED vars
  BY <1>22 DEF vars, callVars
<1> QED
  BY <1>1, <1>2, <1>3, <1>4, <1>5, <1>6, <1>7, <1>8, <1>8s, <1>9, <1>10, <1>11, <1>12, <1>13, <1>14, <1>15, <1>16, <1>17, <1>18, <1>19, <1>20, <1>21, <1>22 DEF Next, SaveStep

\* Every step preserves Times.
LEMMA TimesStep == Inv /\ [Next]_vars => Times'
<1> SUFFICES ASSUME Inv, [Next]_vars PROVE Times'
  OBVIOUS
<1>t. ConfigTypeOK'
  BY TypeStep
<1> USE CallsDisjoint DEF At, Calls, ConfigTypeOK, Files, Finish, Goto, Holding, Inv, Merging, Saving, Times
<1>1. ASSUME NEW c \in Patches, NEW p \in Requests, Patch(c, p) PROVE Times'
  BY <1>1, <1>t DEF Patch
<1>2. ASSUME NEW c \in Calls, SaveChannel(c) PROVE Times'
  BY <1>2, <1>t DEF SaveChannel
<1>3. ASSUME NEW c \in Calls, ChannelFails(c) PROVE Times'
  BY <1>3, <1>t DEF ChannelFails
<1>4. ASSUME NEW c \in Calls, SaveSettings(c) PROVE Times'
  BY <1>4, <1>t DEF SaveSettings
<1>5. ASSUME NEW c \in Calls, SettingsFail(c) PROVE Times'
  BY <1>5, <1>t DEF SettingsFail
<1>6. ASSUME NEW c \in Calls, RollBack(c) PROVE Times'
  BY <1>6, <1>t DEF RollBack
<1>7. ASSUME NEW c \in Calls, Publish(c) PROVE Times'
  BY <1>7, <1>t DEF Publish
<1>8. ASSUME NEW c \in Checks, BeginCheck(c) PROVE Times'
  BY <1>8, <1>t DEF BeginCheck
<1>8s. ASSUME NEW c \in Checks, SkipCheck(c) PROVE Times'
  BY <1>8s, <1>t DEF SkipCheck
<1>9. ASSUME NEW c \in Installs, NEW ch \in Channels, BeginInstall(c, ch) PROVE Times'
  BY <1>9, <1>t DEF BeginInstall
<1>10. ASSUME NEW c \in Checks \cup Installs, Persist(c) PROVE Times'
  BY <1>10, <1>t DEF Persist
<1>11. ASSUME NEW c \in Checks \cup Installs, FeedAnswers(c) PROVE Times'
  BY <1>11, <1>t DEF FeedAnswers
<1>12. ASSUME NEW c \in Checks \cup Installs, GiveUp(c) PROVE Times'
  BY <1>12, <1>t DEF GiveUp
<1>13. ASSUME NEW c \in Installs, Install(c) PROVE Times'
  BY <1>13, <1>t DEF Install
<1>14. CASE ProcessEnds
  BY <1>14, <1>t DEF ProcessEnds, callVars
<1>15. CASE DamageFiles
  BY <1>15, <1>t DEF DamageFiles, callVars
<1>16. CASE Launch
  BY <1>16, <1>t DEF Launch, callVars
<1>17. ASSUME NEW f \in {"settings", "channel"}, BackUpCorrupt(f) PROVE Times'
  BY <1>17, <1>t DEF BackUpCorrupt, callVars
<1>18. CASE LoadSettings
  BY <1>18, <1>t DEF LoadSettings, callVars
<1>19. CASE LoadChannel
  BY <1>19, <1>t DEF LoadChannel, callVars
<1>20. CASE LoadFails
  BY <1>20, <1>t DEF LoadFails, callVars
<1>21. CASE Reconcile
  BY <1>21, <1>t DEF Reconcile, callVars
<1>22. CASE UNCHANGED vars
  BY <1>22 DEF vars, callVars
<1> QED
  BY <1>1, <1>2, <1>3, <1>4, <1>5, <1>6, <1>7, <1>8, <1>8s, <1>9, <1>10, <1>11, <1>12, <1>13, <1>14, <1>15, <1>16, <1>17, <1>18, <1>19, <1>20, <1>21, <1>22 DEF Next, SaveStep

LEMMA NextInv == Inv /\ [Next]_vars => Inv'
BY TypeStep, HoldingStep, FilesStep, ChannelFileStep, MergingStep, AgreeStep, TimesStep DEF Inv

\* An updater operation leaves its last step in Publish only, and holds
\* updater_operation until then.
LEMMA RecordedStep ==
  ASSUME Inv, Next, NEW c \in Checks \cup Installs,
         up' = "up", pc[c] = "publishing", pc'[c] # "publishing"
  PROVE  memS'.check = clock
<1>1. guard = c /\ up = "up" /\ c \in Calls
  BY DEF Inv, Holding, Saving, Calls
<1>2. Publish(c)
  BY <1>1, CallsDisjoint DEF Inv, Holding, ConfigTypeOK, Saving, Calls, Next, SaveStep, Patch, SaveChannel,
    ChannelFails, SaveSettings, SettingsFail, RollBack, Publish, BeginCheck, SkipCheck,
    BeginInstall, Persist, FeedAnswers, GiveUp, Install, ProcessEnds, DamageFiles, Launch,
    BackUpCorrupt, LoadSettings, LoadChannel, LoadFails, Reconcile, At, Finish, Goto, callVars
<1>3. stamp[c] = clock /\ next[c] = [memS EXCEPT !.check = stamp[c]]
  BY DEF Inv, Times, Merging, Saving
<1> QED
  BY <1>2, <1>3 DEF Publish, Inv, ConfigTypeOK, Settings

\* What was read keeps every valid value of its document ...
LEMMA ReadKeeps ==
  ASSUME NEW d \in SettingsDocuments, d # Corrupt
  PROVE  KeepsWhatIsValid(d, SettingsFromJson(d))
<1> DEFINE s == SettingsFromJson(d)
<1>1. /\ s.channel = FieldOrDefault(d.channel, "stable") /\ s.check = FieldOrDefault(d.check, 0)
      /\ s.theme = FieldOrDefault(d.theme, Default.theme)
      /\ s.tolerances = TolerancesFromJson(d.tolerances)
      /\ s.privacy = PrivacyFromJson(d.privacy) /\ s.advanced = AdvancedFromJson(d.advanced)
  BY DEF SettingsFromJson
<1>2. d.privacy \in PrivacyField /\ d.advanced \in AdvancedField /\ d.tolerances \in TolerancesField
  BY DEF SettingsDocuments
<1> HIDE DEF s
<1>3. \A f \in {"channel", "check", "theme"} : d[f].is = "value" => s[f] = d[f].value
  BY <1>1 DEF FieldOrDefault
<1>4. ASSUME d.tolerances.is = "value"
      PROVE  /\ d.tolerances.value.absolute.is = "value" /\ d.tolerances.value.absolute.value >= 0 =>
                  s.tolerances.absolute = d.tolerances.value.absolute.value
             /\ d.tolerances.value.precision.is = "value"
                  /\ d.tolerances.value.precision.value <= MaxDecimalPrecision =>
                  s.tolerances.precision = d.tolerances.value.precision.value
  <2>1. d.tolerances.value \in [absolute : Field(Amounts), precision : Field(Precisions)]
    BY <1>2, <1>4, FieldValue DEF TolerancesField
  <2> DEFINE x == FieldOrDefault(d.tolerances.value.absolute, 1)
             y == FieldOrDefault(d.tolerances.value.precision, 2)
  <2>2. x \in Int /\ y \in Nat
    BY <2>1, DefaultedField, DefaultsTyped, TolerancesAssumption
  <2>3. s.tolerances = [absolute |-> IF x < 0 THEN 1 ELSE x,
                        precision |-> IF y > MaxDecimalPrecision THEN 2 ELSE y]
    BY <1>1, <1>4 DEF TolerancesFromJson
  <2>4. /\ d.tolerances.value.absolute.is = "value" => x = d.tolerances.value.absolute.value
        /\ d.tolerances.value.precision.is = "value" => y = d.tolerances.value.precision.value
    BY DEF FieldOrDefault
  <2> HIDE DEF x, y
  <2> QED
    BY <2>2, <2>3, <2>4 DEF MaxDecimalPrecision
<1>5. s.privacy.ai <=> d.privacy.is = "value" /\ d.privacy.value.ai = Value(TRUE)
  <2>1. CASE d.privacy.is # "value"
    <3>1. s.privacy = [ai |-> FALSE]
      BY <1>1, <2>1, Zenon DEF PrivacyFromJson
    <3>2. s.privacy.ai = FALSE
      BY <3>1
    <3> QED
      BY <2>1, <3>2, Zenon
  <2>2. CASE d.privacy.is = "value"
    <3>1. d.privacy.value.ai \in Field(BOOLEAN)
      BY <1>2, <2>2, FieldValue DEF PrivacyField
    <3>2. s.privacy = [ai |-> FieldOrDefault(d.privacy.value.ai, FALSE)]
      BY <1>1, <2>2, Zenon DEF PrivacyFromJson
    <3>3. s.privacy.ai = FieldOrDefault(d.privacy.value.ai, FALSE)
      BY <3>2
    <3>4. FieldOrDefault(d.privacy.value.ai, FALSE) \in BOOLEAN
      BY <3>1, DefaultedField
    <3>5. FieldOrDefault(d.privacy.value.ai, FALSE) <=> d.privacy.value.ai = Value(TRUE)
      BY <3>1, <3>4, SwitchField, Zenon
    <3> QED
      BY <2>2, <3>3, <3>5, Zenon
  <2> QED
    BY <2>1, <2>2
<1>6. ASSUME d.advanced.is = "value"
      PROVE  d.advanced.value \in [use : Field(BOOLEAN), binary : Field(Binaries \cup {None})]
  BY <1>2, <1>6, FieldValue DEF AdvancedField
<1>7. ASSUME d.advanced.is = "value", d.advanced.value.use.is = "value", d.advanced.value.binary.is = "value"
      PROVE  s.advanced =
               IF AdvancedValid([use |-> d.advanced.value.use.value, binary |-> d.advanced.value.binary.value])
                 THEN [use |-> d.advanced.value.use.value, binary |-> d.advanced.value.binary.value]
                 ELSE DefaultAdvanced
  BY <1>1, <1>7 DEF AdvancedFromJson, FieldOrDefault
<1>8. s.advanced.use => d.advanced.is = "value" /\ d.advanced.value.use = Value(TRUE)
  <2>1. SUFFICES ASSUME s.advanced.use PROVE d.advanced.is = "value" /\ d.advanced.value.use = Value(TRUE)
    OBVIOUS
  <2>2. s.advanced # DefaultAdvanced
    BY <2>1 DEF DefaultAdvanced
  <2>3. d.advanced.is = "value"
    BY <1>1, <2>2 DEF AdvancedFromJson
  <2>4. s.advanced = [use |-> FieldOrDefault(d.advanced.value.use, FALSE),
                      binary |-> FieldOrDefault(d.advanced.value.binary, None)]
    BY <1>1, <2>2, <2>3 DEF AdvancedFromJson
  <2>5. d.advanced.value.use \in Field(BOOLEAN)
    BY <1>6, <2>3
  <2>6. FieldOrDefault(d.advanced.value.use, FALSE) \in BOOLEAN
    BY <2>5, DefaultedField
  <2>7. s.advanced.use = FieldOrDefault(d.advanced.value.use, FALSE)
    BY <2>4
  <2>8. d.advanced.value.use = Value(TRUE)
    BY <2>1, <2>5, <2>6, <2>7, SwitchField, Zenon
  <2> QED
    BY <2>3, <2>8
<1> QED
  BY <1>3, <1>4, <1>5, <1>7, <1>8 DEF KeepsWhatIsValid, s

\* ... and so does what is written, for it reads back as what it was.
LEMMA WrittenKeeps ==
  ASSUME NEW s \in Settings
  PROVE  KeepsWhatIsValid(SettingsToJson(s), s)
<1>1. SettingsToJson(s) \in SettingsDocuments /\ SettingsToJson(s) # Corrupt
  BY ToJsonTyped, SettingsRoundTrip
<1>2. KeepsWhatIsValid(SettingsToJson(s), SettingsFromJson(SettingsToJson(s)))
  BY <1>1, ReadKeeps
<1> QED
  BY <1>2, SettingsRoundTrip

\* Settings are loaded in LoadSettings only.
LEMMA LoadStep ==
  ASSUME Inv, Next, up = "starting", up' = "loading", fileS # Corrupt
  PROVE  KeepsWhatIsValid(fileS, memS') /\ KeepsWhatIsValid(fileS', memS')
<1>1. LoadSettings
  BY DEF Next, SaveStep, Patch, SaveChannel, ChannelFails, SaveSettings, SettingsFail, RollBack, Publish,
    BeginCheck, SkipCheck, BeginInstall, Persist, FeedAnswers, GiveUp, Install, ProcessEnds, DamageFiles,
    Launch, BackUpCorrupt, LoadChannel, LoadFails, Reconcile, At
<1>2. fileS \in SettingsDocuments /\ memS' = SettingsFromJson(fileS)
  BY <1>1 DEF LoadSettings, Inv, ConfigTypeOK
<1>3. memS' \in Settings
  BY <1>2, SettingsRead
<1>4. fileS' = fileS \/ fileS' = SettingsToJson(memS')
  BY <1>1 DEF LoadSettings
<1> QED
  BY <1>2, <1>3, <1>4, ReadKeeps, WrittenKeeps

\* Damaged files are replaced by the loads only, which wait for the copies.
LEMMA ReplaceStep ==
  ASSUME Inv, Next, up # "down"
  PROVE  /\ fileS = Corrupt /\ fileS' # Corrupt => "settings" \in copied
         /\ fileC = Corrupt /\ fileC' # Corrupt => "channel" \in copied
<1>1. fileS' = fileS \/ LoadSettings \/ \E c \in Calls : SaveSettings(c)
  BY DEF Next, SaveStep, Patch, SaveChannel, ChannelFails, SettingsFail, RollBack, Publish,
    BeginCheck, SkipCheck, BeginInstall, Persist, FeedAnswers, GiveUp, Install, ProcessEnds, DamageFiles,
    Launch, BackUpCorrupt, LoadChannel, LoadFails, Reconcile, At
<1>2. \/ fileC' = fileC \/ LoadChannel \/ Reconcile
      \/ \E c \in Calls : SaveChannel(c) \/ RollBack(c)
  BY DEF Next, SaveStep, Patch, ChannelFails, SaveSettings, SettingsFail, Publish,
    BeginCheck, SkipCheck, BeginInstall, Persist, FeedAnswers, GiveUp, Install, ProcessEnds, DamageFiles,
    Launch, BackUpCorrupt, LoadSettings, LoadFails, At
<1>3. ASSUME NEW c \in Calls, SaveSettings(c) PROVE fileS # Corrupt
  BY <1>3 DEF SaveSettings, At, Inv, Files, SettingsHold
<1>4. ASSUME NEW c \in Calls, SaveChannel(c) \/ RollBack(c) PROVE fileC # Corrupt
  BY <1>4 DEF SaveChannel, RollBack, At, Inv, Files
<1>5. Reconcile => fileC # Corrupt
  BY DEF Reconcile, Inv, Files, ChannelHolds
<1> QED
  BY <1>1, <1>2, <1>3, <1>4, <1>5 DEF LoadSettings, LoadChannel

-----------------------------------------------------------------------------

LEMMA SpecInv == Spec => []Inv
<1> QED
  BY InitInv, NextInv, PTL DEF Spec

\* Type correctness of the configuration.
THEOREM ConfigTypeCorrect == Spec => []ConfigTypeOK
<1>1. Inv => ConfigTypeOK
  BY DEF Inv
<1> QED
  BY <1>1, SpecInv, PTL

\* Settings and channel state agree in memory after any saves, failed
\* rollbacks, crashes and damaged files (update_settings, bootstrap_home).
THEOREM MemoryAgreesAlways == Spec => []MemoryAgrees
<1>1. Inv => MemoryAgrees
  BY DEF Inv
<1> QED
  BY <1>1, SpecInv, PTL

\* The files hold what memory holds whenever no writer is at work, until a
\* rollback fails (update_settings, persist_successful_check).
THEOREM FilesFollowMemoryAlways == Spec => []FilesFollowMemory
<1>1. Inv => FilesFollowMemory
  BY DEF Inv, Files, ChannelFile, FilesFollowMemory, SettingsHold, ChannelHolds
<1> QED
  BY <1>1, SpecInv, PTL

\* No writer loses a field that another writer has set (update_settings and
\* persist_successful_check).
THEOREM NoLostUpdateAlways == Spec => []NoLostUpdate
<1>1. Inv => NoLostUpdate
  BY DEF Inv, Merging, NoLostUpdate
<1> QED
  BY <1>1, SpecInv, PTL

\* An older check never replaces a newer one, whatever the wall clock shows
\* (updater_operation, persist_successful_check).
THEOREM LatestCheckIsRecordedAlways == Spec => LatestCheckIsRecorded
<1>1. Inv /\ [Next]_vars =>
        [\A c \in Checks \cup Installs :
           up' = "up" /\ pc[c] = "publishing" /\ pc'[c] # "publishing" =>
             memS'.check = clock]_vars
  BY RecordedStep DEF vars, callVars
<1> QED
  BY <1>1, SpecInv, PTL DEF Spec, LatestCheckIsRecorded

\* A launch loses no valid value of the settings file, turns no switch on and
\* saves no less than it has read, for any document (from_json_str).
THEOREM LoadLosesOnlyDamageAlways == Spec => LoadLosesOnlyDamage
<1>1. Inv /\ [Next]_vars =>
        [up = "starting" /\ up' = "loading" /\ fileS # Corrupt =>
           /\ KeepsWhatIsValid(fileS, memS')
           /\ KeepsWhatIsValid(fileS', memS')]_vars
  BY LoadStep
<1> QED
  BY <1>1, SpecInv, PTL DEF Spec, LoadLosesOnlyDamage

\* What is not JSON is copied before it is replaced, wherever a launch stops
\* (load_settings, load_update_channel, backup_corrupt).
THEOREM CorruptIsBackedUpAlways == Spec => CorruptIsBackedUp
<1>1. Inv /\ [Next]_vars =>
        [/\ up # "down" /\ fileS = Corrupt /\ fileS' # Corrupt => "settings" \in copied
         /\ up # "down" /\ fileC = Corrupt /\ fileC' # Corrupt => "channel" \in copied]_vars
  BY ReplaceStep
<1> QED
  BY <1>1, SpecInv, PTL DEF Spec, CorruptIsBackedUp

-----------------------------------------------------------------------------
(* What stops a launch.                                                    *)

\* The files can be read as text.
Readable == fileS # Garbled /\ fileC # Garbled

LEMMA ReadableStep ==
  ASSUME "garble" \notin Faults, Inv, Readable, [Next]_vars
  PROVE  Readable'
<1>1. \A s \in Settings : SettingsToJson(s) # Garbled
  BY SettingsRoundTrip
<1>2. \A s \in ChannelStates : ChannelToJson(s) # Garbled
  BY ChannelRoundTrip
<1>3. ConfigTypeOK /\ ConfigTypeOK'
  BY TypeStep DEF Inv
<1>4. ASSUME NEW c \in Calls, SaveStep(c)
      PROVE  Readable'
  <2>1. ChannelOf(next[c]) \in ChannelStates /\ next[c] \in Settings /\ memC \in ChannelStates
    BY <1>3, ChannelOfSettings DEF ConfigTypeOK
  <2>2. /\ fileS' \in {fileS, SettingsToJson(next[c])}
        /\ fileC' \in {fileC, ChannelToJson(ChannelOf(next[c])), ChannelToJson(memC)}
    BY <1>4 DEF SaveStep, SaveChannel, ChannelFails, SaveSettings, SettingsFail, RollBack, Publish
  <2> QED
    BY <1>1, <1>2, <2>1, <2>2 DEF Readable
<1>5. CASE DamageFiles
  <2>1. fileS \in SettingsDocuments \cup {Corrupt} /\ fileC \in ChannelDocuments \cup {Corrupt}
    BY <1>3 DEF ConfigTypeOK, Readable
  <2>2. \A e \in EditedSettings(fileS) : e # Garbled
    BY <2>1, EditedIsDocument, DamageAssumption
  <2>3. \A e \in EditedChannel(fileC) : e # Garbled
    BY <2>1, EditedChannelIsDocument, DamageAssumption
  <2>4. \A e \in Damage : e # Garbled
    BY DamageAssumption DEF Damage
  <2> QED
    BY <1>5, <2>2, <2>3, <2>4 DEF DamageFiles, Readable
<1>6. CASE LoadSettings \/ LoadChannel \/ Reconcile
  <2>1. memS' \in Settings /\ memC' \in ChannelStates
    BY <1>3 DEF ConfigTypeOK
  <2>2. fileS' \in {fileS, SettingsToJson(memS')} /\ fileC' \in {fileC, ChannelToJson(memC')}
    BY <1>6 DEF LoadSettings, LoadChannel, Reconcile
  <2> QED
    BY <1>1, <1>2, <2>1, <2>2 DEF Readable
<1>7. CASE UNCHANGED <<fileS, fileC>>
  BY <1>7 DEF Readable
<1> QED
  BY <1>4, <1>5, <1>6, <1>7
     DEF Next, vars, Patch, BeginCheck, SkipCheck, BeginInstall, Persist, FeedAnswers, GiveUp,
         Install, ProcessEnds, Launch, BackUpCorrupt, LoadFails

\* A launch comes to its end whatever else than a file that is not UTF-8 it
\* finds, while the process lives and can write (load_settings and
\* load_update_channel; settings_store.rs: "Corrupt or unparseable file").
THEOREM LaunchSurvivesDamageAlways ==
  ASSUME Faults \cap {"garble", "save", "crash"} = {}
  PROVE  Spec => LaunchSurvivesDamage
<1>1. Init => Readable
  BY InitInv, SettingsRoundTrip, ChannelRoundTrip DEF Init, Inv, ConfigTypeOK, Readable
<1>2. Inv /\ Readable /\ [Next]_vars => Readable'
  BY ReadableStep
<1>3. Readable /\ [Next]_vars =>
        [(up \in {"starting", "loading", "reconciling"}) => up' # "down"]_vars
  BY DEF Readable, Next, vars, SaveStep, Patch, SaveChannel, ChannelFails, SaveSettings,
    SettingsFail, RollBack, Publish, BeginCheck, SkipCheck, BeginInstall, Persist, FeedAnswers,
    GiveUp, Install, ProcessEnds, DamageFiles, Launch, BackUpCorrupt, LoadSettings, LoadChannel,
    LoadFails, Reconcile, At
<1> QED
  BY <1>1, <1>2, <1>3, SpecInv, PTL DEF Spec, LaunchSurvivesDamage
=============================================================================
