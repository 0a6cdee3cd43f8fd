--------------------------- MODULE Configuration ---------------------------
(***************************************************************************)
(* The settings and the update-channel state: two files, their copies in   *)
(* memory under two mutexes that are always taken together, the commands   *)
(* that write both (update_settings and the update checks), the installer  *)
(* that depends on them, and the reconciliation at launch.                 *)
(*                                                                         *)
(* The channel file repeats two fields of the settings; the settings are   *)
(* canonical.  What the files hold, and what a file that was damaged or    *)
(* edited means, is SettingsSchema.                                        *)
(***************************************************************************)
EXTENDS SettingsSchema

CONSTANTS
  Patches,  \* invocations of update_settings
  Requests, \* the typed patches they are called with
  Checks,   \* invocations of check_for_updates and automatic_check
  Installs, \* invocations of install_update
  TolerancesEdits, \* what a user may leave as tolerances in the file
  AdvancedEdits,   \* ... and as advanced settings
  MaxDamage, \* bound: how often a file is damaged or edited
  Faults    \* what may go wrong: see ConfigFaultKinds

ConfigFaultKinds ==
  { "save",     \* a file cannot be written
    "rollback", \* ... nor can the old channel state be written back
    "network",  \* the feed or the download fails
    "crash",    \* the application dies
    "corrupt",  \* a file is Corrupt at the next launch
    "garble",   \* ... or Garbled
    "edit" }    \* ... or one field of it is not what was saved

Calls == Patches \cup Checks \cup Installs

ASSUME ConfigCallsAssumption ==
  /\ Patches \cap (Checks \cup Installs) = {} /\ Checks \cap Installs = {}
  /\ None \notin Calls
ASSUME MaxDamageAssumption == MaxDamage \in Nat
ASSUME ConfigFaultsAssumption == Faults \subseteq ConfigFaultKinds
ASSUME RequestsAssumption == Requests \subseteq SettingsPatches
ASSUME EditsAssumption ==
  TolerancesEdits \subseteq TolerancesField /\ AdvancedEdits \subseteq AdvancedField
ASSUME DamageAssumption ==
  /\ {Corrupt, Garbled} \cap (SettingsDocuments \cup ChannelDocuments) = {}
  /\ Corrupt # Garbled

VARIABLES
  pc,       \* call -> its step
  selected, \* call -> the channel it works for
  stamp,    \* call -> the time its check succeeded or its patch sets, 0 for none
  next,     \* call -> the settings it is saving
  guard,    \* holder of the two mutexes
  updater,  \* holder of updater_operation
  clock,    \* what the clock showed at the latest answer of the feed
  up,       \* "up", "down", or the step of the launch
  fileS, fileC, \* settings.json and update-channel.json
  damages,      \* how often a file has been damaged
  copied,       \* files this launch has copied to the backups
  memS, memC,   \* AppState.settings and AppState.update_channel
  acked,    \* history: the fields the last acknowledged writers set
  installed \* history: what the installers were started for

callVars == <<pc, selected, stamp, next>>
vars == <<callVars, guard, updater, clock, up, fileS, fileC, damages, copied, memS, memC, acked, installed>>

At(c, step) == up = "up" /\ pc[c] = step
Goto(c, step) == pc' = [pc EXCEPT ![c] = step]
Saving == {"channel", "settings", "rollback", "publishing"}

Init ==
  /\ pc = [c \in Calls |-> "idle"]
  /\ selected = [c \in Calls |-> "stable"]
  /\ stamp = [c \in Calls |-> 0]
  /\ next = [c \in Calls |-> Default]
  /\ guard = None /\ updater = None /\ clock = 0
  /\ up = "up"
  /\ fileS = SettingsToJson(Default) /\ fileC = ChannelToJson(ChannelOf(Default))
  /\ damages = 0 /\ copied = {}
  /\ memS = Default /\ memC = ChannelOf(Default)
  /\ acked = Default
  /\ installed = {}

-----------------------------------------------------------------------------
(* Writing both files, under both mutexes                                  *)

\* update_settings applies a patch to what is in memory, or refuses it.
Patch(c, p) ==
  /\ At(c, "idle") /\ guard = None
  /\ IF PatchAccepted(p)
       THEN /\ guard' = c
            /\ next' = [next EXCEPT ![c] = ApplyTypedPatch(memS, p)]
            /\ stamp' = [stamp EXCEPT ![c] = FieldOrDefault(p.check, 0)]
            /\ Goto(c, "channel")
       ELSE Goto(c, "done") /\ UNCHANGED <<guard, next, stamp>>
  /\ UNCHANGED <<selected, updater, clock, up, fileS, fileC, damages, copied, memS, memC, acked, installed>>

\* Mutant: the mutexes are not taken.
PersistUnlocked(c) ==
  /\ At(c, "checked")
  /\ next' = [next EXCEPT ![c] = [memS EXCEPT !.check = stamp[c]]]
  /\ Goto(c, "channel")
  /\ UNCHANGED <<selected, stamp, guard, updater, clock, up, fileS, fileC, damages, copied, memS, memC, acked, installed>>

\* persist_successful_check adds the time to what is in memory.
Persist(c) ==
  /\ At(c, "checked") /\ guard = None
  /\ guard' = c
  /\ next' = [next EXCEPT ![c] = [memS EXCEPT !.check = stamp[c]]]
  /\ Goto(c, "channel")
  /\ UNCHANGED <<selected, stamp, updater, clock, up, fileS, fileC, damages, copied, memS, memC, acked, installed>>

\* A command ends: an updater operation gives its lock back.
Finish(c, end) ==
  /\ Goto(c, end)
  /\ updater' = IF updater = c THEN None ELSE updater

SaveChannel(c) ==
  /\ At(c, "channel")
  /\ fileC' = ChannelToJson(ChannelOf(next[c]))
  /\ Goto(c, "settings")
  /\ UNCHANGED <<selected, stamp, next, guard, updater, clock, up, fileS, damages, copied, memS, memC, acked, installed>>

ChannelFails(c) ==
  /\ "save" \in Faults
  /\ At(c, "channel")
  /\ guard' = None /\ Finish(c, "done")
  /\ UNCHANGED <<selected, stamp, next, clock, up, fileS, fileC, damages, copied, memS, memC, acked, installed>>

SaveSettings(c) ==
  /\ At(c, "settings")
  /\ fileS' = SettingsToJson(next[c])
  /\ Goto(c, "publishing")
  /\ UNCHANGED <<selected, stamp, next, guard, updater, clock, up, fileC, damages, copied, memS, memC, acked, installed>>

\* Mutant: the channel file keeps what was written.
SettingsFailUncompensated(c) ==
  /\ "save" \in Faults
  /\ At(c, "settings")
  /\ guard' = None /\ Finish(c, "done")
  /\ UNCHANGED <<selected, stamp, next, clock, up, fileS, fileC, damages, copied, memS, memC, acked, installed>>

SettingsFail(c) ==
  /\ "save" \in Faults
  /\ At(c, "settings")
  /\ Goto(c, "rollback")
  /\ UNCHANGED <<selected, stamp, next, guard, updater, clock, up, fileS, fileC, damages, copied, memS, memC, acked, installed>>

\* The old channel state is written back, or that fails too, which the
\* command reports as an error of its own.
RollBack(c) ==
  /\ At(c, "rollback")
  /\ \/ fileC' = ChannelToJson(memC) /\ Finish(c, "done")
     \/ "rollback" \in Faults /\ UNCHANGED fileC /\ Finish(c, "unrepaired")
  /\ guard' = None
  /\ UNCHANGED <<selected, stamp, next, clock, up, fileS, damages, copied, memS, memC, acked, installed>>

\* Both files are written: memory follows, the mutexes are released.  An
\* install goes on to its download.
Publish(c) ==
  /\ At(c, "publishing")
  /\ memS' = next[c] /\ memC' = ChannelOf(next[c])
  /\ acked' = IF c \in Patches
       THEN [next[c] EXCEPT !.check = IF stamp[c] = 0 THEN acked.check ELSE @]
       ELSE [acked EXCEPT !.check = stamp[c]]
  /\ guard' = None
  /\ IF c \in Installs THEN Goto(c, "downloading") /\ UNCHANGED updater ELSE Finish(c, "done")
  /\ UNCHANGED <<selected, stamp, next, clock, up, fileS, fileC, damages, copied, installed>>

-----------------------------------------------------------------------------
(* The updater                                                             *)

\* Mutant: updater_operation is not taken.
BeginCheckUnserialized(c) ==
  /\ At(c, "idle") /\ guard = None
  /\ selected' = [selected EXCEPT ![c] = memC.channel]
  /\ Goto(c, "asking")
  /\ UNCHANGED <<stamp, next, guard, updater, clock, up, fileS, fileC, damages, copied, memS, memC, acked, installed>>

\* One updater operation at a time; the channel is read once.
BeginCheck(c) ==
  /\ At(c, "idle") /\ guard = None /\ updater = None
  /\ updater' = c
  /\ selected' = [selected EXCEPT ![c] = memC.channel]
  /\ Goto(c, "asking")
  /\ UNCHANGED <<stamp, next, guard, clock, up, fileS, fileC, damages, copied, memS, memC, acked, installed>>

\* automatic_check_due: without a check on record, or with one that lies in
\* the future; else it depends on how long ago that check was.
AlwaysDue(now) == memC.check \notin 1 .. now

\* automatic_check does what a check by hand does, or finds it is not due.
SkipCheck(c) ==
  /\ At(c, "idle") /\ guard = None /\ updater = None
  /\ \E now \in 1 .. MaxClock : ~AlwaysDue(now)
  /\ Goto(c, "done")
  /\ UNCHANGED <<selected, stamp, next, guard, updater, clock, up, fileS, fileC, damages, copied, memS, memC, acked, installed>>

\* install_update: the channel the user reviewed must be the selected one.
BeginInstall(c, ch) ==
  /\ At(c, "idle") /\ guard = None /\ updater = None
  /\ IF memC.channel = ch
       THEN updater' = c /\ Goto(c, "asking")
       ELSE UNCHANGED updater /\ Goto(c, "done")
  /\ selected' = [selected EXCEPT ![c] = ch]
  /\ UNCHANGED <<stamp, next, guard, clock, up, fileS, fileC, damages, copied, memS, memC, acked, installed>>

\* The feed answers; the time is taken before the mutexes are.  It is the
\* wall clock's, which may stand still or be set back.
FeedAnswers(c) ==
  /\ At(c, "asking")
  /\ clock' \in 1 .. MaxClock
  /\ stamp' = [stamp EXCEPT ![c] = clock']
  /\ Goto(c, "checked")
  /\ UNCHANGED <<selected, next, guard, updater, up, fileS, fileC, damages, copied, memS, memC, acked, installed>>

\* The feed or the download fails, or the feed now announces nothing or
\* another version.
GiveUp(c) ==
  /\ "network" \in Faults
  /\ up = "up" /\ pc[c] \in {"asking", "downloading"}
  /\ Finish(c, "done")
  /\ UNCHANGED <<selected, stamp, next, guard, clock, up, fileS, fileC, damages, copied, memS, memC, acked, installed>>

Install(c) ==
  /\ At(c, "downloading")
  /\ installed' = installed \cup {selected[c]}
  /\ Finish(c, "done")
  /\ UNCHANGED <<selected, stamp, next, guard, clock, up, fileS, fileC, damages, copied, memS, memC, acked>>

-----------------------------------------------------------------------------
(* Crashes and launches                                                    *)

\* The user quits, between two saves, or the process dies anywhere.
ProcessEnds ==
  /\ up # "down"
  /\ (up = "up" /\ guard = None) \/ "crash" \in Faults
  /\ up' = "down"
  /\ pc' = [c \in Calls |-> IF pc[c] = "idle" THEN "idle" ELSE "done"]
  /\ guard' = None /\ updater' = None
  /\ UNCHANGED <<selected, stamp, next, clock, fileS, fileC, damages, copied, memS, memC, acked, installed>>

\* What may have happened to a file while the application was down.
Damage == (IF "corrupt" \in Faults THEN {Corrupt} ELSE {}) \cup
          (IF "garble" \in Faults THEN {Garbled} ELSE {})

\* One field is gone, is no longer of its type, or was written by another
\* version of the application.  Bound: only in a file as it was saved.
EditedSettings(d) ==
  IF "edit" \notin Faults \/ d \in {Corrupt, Garbled} THEN {}
  ELSE IF d # SettingsToJson(SettingsFromJson(d)) THEN {} ELSE
    {[d EXCEPT !.version = v] : v \in Field(Versions)} \cup
    {[d EXCEPT !.channel = Invalid], [d EXCEPT !.check = Missing],
     [d EXCEPT !.theme = Invalid], [d EXCEPT !.privacy = Invalid]} \cup
    {[d EXCEPT !.tolerances = t] : t \in TolerancesEdits} \cup
    {[d EXCEPT !.advanced = a] : a \in AdvancedEdits}
EditedChannel(d) ==
  IF "edit" \notin Faults \/ d \in {Corrupt, Garbled} THEN {}
  ELSE {[d EXCEPT !.version = Value(1)], [d EXCEPT !.channel = Missing]}

DamageFiles ==
  /\ up = "down" /\ damages < MaxDamage
  /\ \/ fileS' \in Damage \cup EditedSettings(fileS) /\ UNCHANGED fileC
     \/ fileC' \in Damage \cup EditedChannel(fileC) /\ UNCHANGED fileS
  /\ damages' = damages + 1
  /\ UNCHANGED <<callVars, guard, updater, clock, up, copied, memS, memC, acked, installed>>

Launch ==
  /\ up = "down"
  /\ up' = "starting" /\ copied' = {}
  /\ UNCHANGED <<callVars, guard, updater, clock, fileS, fileC, damages, memS, memC, acked, installed>>

\* backup_corrupt: what is not JSON is copied before it is overwritten.
BackUpCorrupt(f) ==
  /\ IF f = "settings" THEN up = "starting" /\ fileS = Corrupt
                       ELSE up = "loading" /\ fileC = Corrupt
  /\ f \notin copied
  /\ copied' = copied \cup {f}
  /\ UNCHANGED <<callVars, guard, updater, clock, up, fileS, fileC, damages, memS, memC, acked, installed>>

\* Mutant: the file is overwritten before it is copied.
LoadSettingsUncopied ==
  /\ up = "starting" /\ fileS # Garbled
  /\ up' = "loading"
  /\ memS' = SettingsFromJson(fileS) /\ acked' = memS'
  /\ fileS' = IF Rewritten(fileS) THEN SettingsToJson(memS') ELSE fileS
  /\ UNCHANGED <<callVars, guard, updater, clock, fileC, damages, copied, memC, installed>>

\* load_settings: defaults for what is not JSON, each field for itself
\* otherwise; what was replaced or is of an older version is saved at once.
LoadSettings ==
  /\ up = "starting" /\ fileS # Garbled
  /\ fileS = Corrupt => "settings" \in copied
  /\ up' = "loading"
  /\ memS' = SettingsFromJson(fileS) /\ acked' = memS'
  /\ fileS' = IF Rewritten(fileS) THEN SettingsToJson(memS') ELSE fileS
  /\ UNCHANGED <<callVars, guard, updater, clock, fileC, damages, copied, memC, installed>>

\* load_update_channel.
LoadChannel ==
  /\ up = "loading" /\ fileC # Garbled
  /\ fileC = Corrupt => "channel" \in copied
  /\ up' = "reconciling"
  /\ memC' = ChannelFromJson(fileC)
  /\ fileC' = IF Rewritten(fileC) THEN ChannelToJson(memC') ELSE fileC
  /\ UNCHANGED <<callVars, guard, updater, clock, fileS, damages, copied, memS, acked, installed>>

\* read_to_string refuses what is not UTF-8, or a copy or a save that the
\* launch needs cannot be made: the launch fails.
LoadFails ==
  /\ \/ up = "starting" /\ fileS = Garbled
     \/ up = "loading" /\ fileC = Garbled
     \/ /\ "save" \in Faults
        /\ \/ up = "starting" /\ fileS # Garbled /\ Rewritten(fileS)
           \/ up = "loading" /\ fileC # Garbled /\ Rewritten(fileC)
           \/ up = "reconciling" /\ memC # ChannelOf(memS)
  /\ up' = "down"
  /\ UNCHANGED <<callVars, guard, updater, clock, fileS, fileC, damages, copied, memS, memC, acked, installed>>

\* Mutant: only the channel is compared.
ReconcileChannelOnly ==
  /\ up = "reconciling"
  /\ up' = "up"
  /\ IF memC.channel = memS.channel
       THEN UNCHANGED <<fileC, memC>>
       ELSE memC' = ChannelOf(memS) /\ fileC' = ChannelToJson(memC')
  /\ UNCHANGED <<callVars, guard, updater, clock, fileS, damages, copied, memS, acked, installed>>

\* bootstrap_home makes the channel state follow the settings.
Reconcile ==
  /\ up = "reconciling"
  /\ up' = "up"
  /\ IF memC = ChannelOf(memS)
       THEN UNCHANGED <<fileC, memC>>
       ELSE memC' = ChannelOf(memS) /\ fileC' = ChannelToJson(memC')
  /\ UNCHANGED <<callVars, guard, updater, clock, fileS, damages, copied, memS, acked, installed>>

SaveStep(c) ==
  \/ SaveChannel(c) \/ ChannelFails(c) \/ SaveSettings(c) \/ SettingsFail(c)
  \/ RollBack(c) \/ Publish(c)

Next ==
  \/ \E c \in Patches, p \in Requests : Patch(c, p)
  \/ \E c \in Calls : SaveStep(c)
  \/ \E c \in Checks : BeginCheck(c) \/ SkipCheck(c)
  \/ \E c \in Installs, ch \in Channels : BeginInstall(c, ch)
  \/ \E c \in Checks \cup Installs :
       Persist(c) \/ FeedAnswers(c) \/ GiveUp(c)
  \/ \E c \in Installs : Install(c)
  \/ ProcessEnds \/ DamageFiles \/ Launch
  \/ \E f \in {"settings", "channel"} : BackUpCorrupt(f)
  \/ LoadSettings \/ LoadChannel \/ LoadFails \/ Reconcile

Spec == Init /\ [][Next]_vars

-----------------------------------------------------------------------------
(* Properties                                                              *)

\* The shape of every variable.
ConfigTypeOK ==
  /\ pc \in [Calls -> {"idle", "asking", "checked", "downloading", "done", "unrepaired"} \cup Saving]
  /\ selected \in [Calls -> Channels]
  /\ stamp \in [Calls -> 0 .. MaxClock]
  /\ next \in [Calls -> Settings]
  /\ guard \in Calls \cup {None} /\ updater \in Calls \cup {None}
  /\ clock \in 0 .. MaxClock
  /\ up \in {"up", "starting", "loading", "reconciling", "down"}
  /\ fileS \in SettingsDocuments \cup {Corrupt, Garbled}
  /\ fileC \in ChannelDocuments \cup {Corrupt, Garbled}
  /\ damages \in 0 .. MaxDamage
  /\ copied \subseteq {"settings", "channel"}
  /\ memS \in Settings /\ memC \in ChannelStates
  /\ acked \in Settings
  /\ installed \subseteq Channels

\* A launch starts whatever a file holds (settings_store.rs: "Corrupt or
\* unparseable file" gives defaults and a warning).
LaunchSurvivesDamage ==
  [][(up \in {"starting", "loading", "reconciling"}) => up' # "down"]_vars

\* The two states a reader can see agree, whatever save, rollback or crash
\* preceded: a failed rollback shows in the file only, and the next launch
\* repairs it.
MemoryAgrees ==
  up = "up" => memC = ChannelOf(memS)

\* With no writer at work a launch that reads the files starts with what
\* memory holds, whatever patches were accepted and however damaged the
\* files were at the last launch: a crash loses nothing.  Only a rollback
\* that failed since, and was reported, may leave the channel file behind.
FilesFollowMemory ==
  up = "up" /\ guard = None =>
    /\ fileS \notin {Corrupt, Garbled} /\ SettingsFromJson(fileS) = memS
    /\ \/ fileC \notin {Corrupt, Garbled} /\ ChannelFromJson(fileC) = memC
       \/ \E c \in Calls : pc[c] = "unrepaired"

\* Settings "can be corrupted or hand-edited, so deserialization NEVER fails
\* wholesale" (config.rs:3): a launch keeps every value that is valid where
\* it stands, turns no switch on, and never saves less than it has read.
LoadLosesOnlyDamage ==
  [][up = "starting" /\ up' = "loading" /\ fileS # Corrupt =>
       /\ KeepsWhatIsValid(fileS, memS')
       /\ KeepsWhatIsValid(fileS', memS')]_vars

\* What is not JSON is in the backups before anything replaces it, whenever
\* the process dies (settings_store.rs: "the corrupt file is backed up").
CorruptIsBackedUp ==
  [][/\ up # "down" /\ fileS = Corrupt /\ fileS' # Corrupt => "settings" \in copied
     /\ up # "down" /\ fileC = Corrupt /\ fileC' # Corrupt => "channel" \in copied]_vars

\* No writer loses what another has set: a check that was on the network
\* while the user changed the settings keeps the change, and a change of
\* the settings keeps the time of the check.
NoLostUpdate ==
  up = "up" /\ guard = None => memS = acked

\* What a check or an install records is the time of the latest answer of the
\* feed, whatever the wall clock does: one that answered earlier never
\* replaces what a later one has recorded (updater_operation is held from the
\* request to the save).
LatestCheckIsRecorded ==
  [][\A c \in Checks \cup Installs :
       up' = "up" /\ pc[c] = "publishing" /\ pc'[c] # "publishing" =>
         memS'.check = clock]_vars

\* What is installed comes from the channel that is selected at that time
\* (install_update refuses when it "changed before installation").
InstallsSelectedChannel ==
  [][\A ch \in installed' \ installed : ch = memC.channel]_vars
=============================================================================
