--------------------------- MODULE SettingsSchema ---------------------------
(***************************************************************************)
(* What settings.json and update-channel.json hold, how a file somebody    *)
(* may have damaged or edited becomes settings again, and which patches    *)
(* of the settings are accepted.                                           *)
(*                                                                         *)
(* A field of a file is a value of its type, something else, or missing; a *)
(* group is an object of such fields.  theme stands for the other plain    *)
(* fields (language, onboarding), absolute for both tolerances, ai for     *)
(* both privacy switches.                                                  *)
(***************************************************************************)
EXTENDS Integers

CONSTANTS
  Themes,     \* values of a plain field
  Amounts,    \* values of a tolerance
  Precisions, \* values of decimal_precision
  Binaries,   \* texts of system_codex_binary
  CodexPaths, \* those that are absolute paths ending in codex
  MaxClock,   \* bound: times of update checks, 0 for none
  Corrupt,    \* content of a file that is not a JSON object
  Garbled,    \* content of a file that is not even UTF-8
  None

Channels == {"stable", "beta"}
SchemaVersion == 2
MaxDecimalPrecision == 6

ASSUME ThemesAssumption == Themes # {}
ASSUME ClockAssumption == MaxClock \in Nat
ASSUME TolerancesAssumption ==
  /\ Amounts \subseteq Int /\ 1 \in Amounts
  /\ Precisions \subseteq Nat /\ {2, MaxDecimalPrecision} \subseteq Precisions

-----------------------------------------------------------------------------
(* Settings                                                                *)

TolerancesValid(t) == t.absolute >= 0

\* A path is needed when the override is on, and any path must be a usable one.
AdvancedValid(a) == IF a.binary = None THEN ~a.use ELSE a.binary \in CodexPaths

RawTolerances == [absolute : Amounts, precision : Precisions]
RawAdvanced == [use : BOOLEAN, binary : Binaries \cup {None}]

Tolerances == {t \in RawTolerances : TolerancesValid(t) /\ t.precision <= MaxDecimalPrecision}
Advanced == {a \in RawAdvanced : AdvancedValid(a)}

\* What the program may hold: only valid tolerances and overrides.
Settings == [channel : Channels, check : 0 .. MaxClock, theme : Themes,
             tolerances : Tolerances, privacy : [ai : BOOLEAN], advanced : Advanced]
ChannelStates == [channel : Channels, check : 0 .. MaxClock]

DefaultTolerances == [absolute |-> 1, precision |-> 2]
DefaultAdvanced == [use |-> FALSE, binary |-> None]
Default ==
  [channel |-> "stable", check |-> 0, theme |-> CHOOSE t \in Themes : TRUE,
   tolerances |-> DefaultTolerances, privacy |-> [ai |-> FALSE], advanced |-> DefaultAdvanced]

\* The fields of the channel file that follow from settings s.
ChannelOf(s) == [channel |-> s.channel, check |-> s.check]

-----------------------------------------------------------------------------
(* Files                                                                   *)

Value(v) == [is |-> "value", value |-> v]
Invalid == [is |-> "invalid"]
Missing == [is |-> "missing"]
Field(S) == [is : {"value"}, value : S] \cup {Invalid, Missing}

Versions == {1, SchemaVersion, 3}
TolerancesField == Field([absolute : Field(Amounts), precision : Field(Precisions)])
PrivacyField == Field([ai : Field(BOOLEAN)])
AdvancedField == Field([use : Field(BOOLEAN), binary : Field(Binaries \cup {None})])

SettingsDocuments ==
  [version : Field(Versions), channel : Field(Channels), check : Field(0 .. MaxClock),
   theme : Field(Themes), tolerances : TolerancesField, privacy : PrivacyField,
   advanced : AdvancedField]
ChannelDocuments ==
  [version : Field(Versions), channel : Field(Channels), check : Field(0 .. MaxClock)]

\* to_json_string.
SettingsToJson(s) ==
  [version |-> Value(SchemaVersion), channel |-> Value(s.channel), check |-> Value(s.check),
   theme |-> Value(s.theme),
   tolerances |-> Value([absolute |-> Value(s.tolerances.absolute),
                         precision |-> Value(s.tolerances.precision)]),
   privacy |-> Value([ai |-> Value(s.privacy.ai)]),
   advanced |-> Value([use |-> Value(s.advanced.use), binary |-> Value(s.advanced.binary)])]
ChannelToJson(s) ==
  [version |-> Value(SchemaVersion), channel |-> Value(s.channel), check |-> Value(s.check)]

FieldOrDefault(raw, default) == IF raw.is = "value" THEN raw.value ELSE default

\* Values out of range count as damaged, each for itself ...
TolerancesFromJson(raw) ==
  IF raw.is # "value" THEN DefaultTolerances ELSE
  LET absolute == FieldOrDefault(raw.value.absolute, 1)
      precision == FieldOrDefault(raw.value.precision, 2)
  IN [absolute |-> IF absolute < 0 THEN 1 ELSE absolute,
      precision |-> IF precision > MaxDecimalPrecision THEN 2 ELSE precision]

PrivacyFromJson(raw) ==
  [ai |-> IF raw.is = "value" THEN FieldOrDefault(raw.value.ai, FALSE) ELSE FALSE]

\* ... but an override that is not valid as a whole is given up as a whole.
AdvancedFromJson(raw) ==
  IF raw.is # "value" THEN DefaultAdvanced ELSE
  LET a == [use |-> FieldOrDefault(raw.value.use, FALSE),
            binary |-> FieldOrDefault(raw.value.binary, None)]
  IN IF AdvancedValid(a) THEN a ELSE DefaultAdvanced

\* Mutant: one invalid field restores all defaults.
SettingsFromJsonWholesale(d) ==
  IF d = Corrupt \/ \E f \in DOMAIN d : d[f] = Invalid THEN Default ELSE
  [channel |-> FieldOrDefault(d.channel, "stable"), check |-> FieldOrDefault(d.check, 0),
   theme |-> FieldOrDefault(d.theme, Default.theme),
   tolerances |-> TolerancesFromJson(d.tolerances),
   privacy |-> PrivacyFromJson(d.privacy), advanced |-> AdvancedFromJson(d.advanced)]

\* AppSettings::from_json_str never fails: each field for itself.
SettingsFromJson(d) ==
  IF d = Corrupt THEN Default ELSE
  [channel |-> FieldOrDefault(d.channel, "stable"), check |-> FieldOrDefault(d.check, 0),
   theme |-> FieldOrDefault(d.theme, Default.theme),
   tolerances |-> TolerancesFromJson(d.tolerances),
   privacy |-> PrivacyFromJson(d.privacy), advanced |-> AdvancedFromJson(d.advanced)]

\* UpdateChannelState::from_json_str.
ChannelFromJson(d) ==
  IF d = Corrupt THEN ChannelOf(Default) ELSE
  [channel |-> FieldOrDefault(d.channel, "stable"), check |-> FieldOrDefault(d.check, 0)]

\* has_legacy_schema: the file is written again when it was read.
Legacy(d) == d # Corrupt /\ d.version.is = "value" /\ d.version.value < SchemaVersion

\* load_settings and load_update_channel write the file before they return.
Rewritten(d) == d = Corrupt \/ Legacy(d)

-----------------------------------------------------------------------------
(* Patches                                                                 *)

\* A typed patch: what it does not set is missing.
SettingsPatches ==
  [channel : Field(Channels), check : Field(1 .. MaxClock), theme : Field(Themes),
   tolerances : Field(RawTolerances), privacy : Field([ai : BOOLEAN]),
   advanced : Field(RawAdvanced)]

\* A precision that is too large is cut, a negative tolerance is refused.
Sanitize(t) ==
  [t EXCEPT !.precision = IF t.precision > MaxDecimalPrecision
                            THEN MaxDecimalPrecision ELSE t.precision]

\* Mutant: the override is saved as it comes.
PatchAcceptedUnvalidated(p) ==
  p.tolerances.is = "value" => TolerancesValid(Sanitize(p.tolerances.value))

PatchAccepted(p) ==
  /\ p.tolerances.is = "value" => TolerancesValid(Sanitize(p.tolerances.value))
  /\ p.advanced.is = "value" => AdvancedValid(p.advanced.value)

ApplyTypedPatch(s, p) ==
  [s EXCEPT !.channel = FieldOrDefault(p.channel, @),
            !.check = FieldOrDefault(p.check, @),
            !.theme = FieldOrDefault(p.theme, @),
            !.tolerances = IF p.tolerances.is = "value" THEN Sanitize(p.tolerances.value) ELSE @,
            !.privacy = FieldOrDefault(p.privacy, @),
            !.advanced = FieldOrDefault(p.advanced, @)]

-----------------------------------------------------------------------------
(* What loading owes the user                                              *)

\* Every value of document d that is valid where it stands is in settings s,
\* and no switch is on that d does not turn on.
KeepsWhatIsValid(d, s) ==
  /\ \A f \in {"channel", "check", "theme"} : d[f].is = "value" => s[f] = d[f].value
  /\ d.tolerances.is = "value" =>
       LET t == d.tolerances.value
       IN /\ t.absolute.is = "value" /\ t.absolute.value >= 0 =>
               s.tolerances.absolute = t.absolute.value
          /\ t.precision.is = "value" /\ t.precision.value <= MaxDecimalPrecision =>
               s.tolerances.precision = t.precision.value
  /\ s.privacy.ai <=> d.privacy.is = "value" /\ d.privacy.value.ai = Value(TRUE)
  /\ d.advanced.is = "value" /\ d.advanced.value.use.is = "value"
       /\ d.advanced.value.binary.is = "value" =>
       LET a == [use |-> d.advanced.value.use.value, binary |-> d.advanced.value.binary.value]
       IN s.advanced = IF AdvancedValid(a) THEN a ELSE DefaultAdvanced
  /\ s.advanced.use => d.advanced.is = "value" /\ d.advanced.value.use = Value(TRUE)
=============================================================================
