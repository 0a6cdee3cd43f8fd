---------------------------- MODULE SourceVault ----------------------------
(***************************************************************************)
(* Importing a workbook into the built-in project (quick_import_source):   *)
(* a file operation, a database operation and the compensation that ties   *)
(* them together, for imports that run on separate blocking workers.       *)
(*                                                                         *)
(* A content stands for the bytes of a workbook and for their SHA-256.     *)
(* Only the built-in project receives imports, so a stored path is a hash  *)
(* prefix and a file name.                                                 *)
(***************************************************************************)
EXTENDS Naturals, Sequences

CONSTANTS
  Imports,     \* invocations of quick_import_source
  Contents,    \* workbook contents
  Names,       \* sanitized file names
  Files,       \* names a stored file can have
  Prefixes,    \* the first two digits of a hash
  Uploads,     \* the <<import, content, name>> triples users may submit
  Prefix,      \* content -> the prefix of its hash
  Candidates,  \* name -> the sequence of file names unique_dest tries
  Collisions,  \* imports that may want one stored name overlap
  Faults,      \* which steps may fail: see FaultKinds
  None

FaultKinds ==
  { "copy",     \* the source is refused or cannot be copied
    "dest",     \* the destination directory cannot be made or hardened
    "rename",   \* the rename fails
    "harden",   \* the stored file cannot be made read-only
    "database", \* a repository call returns an error
    "discard",  \* removing a stored or a temporary file fails
    "crash" }   \* the process dies

Paths == Prefixes \X Files

ASSUME UploadsAssumption == Uploads \subseteq Imports \X Contents \X Names
ASSUME PrefixAssumption == Prefix \in [Contents -> Prefixes]
ASSUME CandidatesAssumption == Candidates \in [Names -> Seq(Files)]
ASSUME CollisionsAssumption == Collisions \in BOOLEAN
ASSUME VaultFaultsAssumption == Faults \subseteq FaultKinds
ASSUME VaultNoneAssumption ==
  None \notin Contents \cup Paths \cup [content : Contents, name : Names]

VARIABLES
  pc,       \* import -> the step it is at
  upload,   \* import -> the content and name it was submitted with
  dest,     \* import -> the path unique_dest chose
  found,    \* imports that found a revision of the same content
  reply,    \* import -> "none", "revision" or one of Errors
  up,       \* the process runs
  project,  \* the built-in project has a row
  temps,    \* imports whose temporary file exists
  vault,    \* path -> the content stored there
  rows      \* content -> the path its revision row records

callVars == <<pc, upload, dest, found, reply>>
fileVars == <<temps, vault>>
vars     == <<callVars, up, project, fileVars, rows>>

\* From the choice of a path to the row that records it, or its removal.
Holding == {"renaming", "hardening", "looking", "saving", "discarding"}
InFlight == {"finding", "creating", "opening", "filling", "choosing"} \cup Holding

\* The errors an import answers with: that it found no place in the vault,
\* that it could not undo the file it stored, and any other.  Where a removal
\* fails silently (let _ = fs::remove_file) the caller sees that other error;
\* temp_left and file_left only keep for the properties what stayed behind.
Errors == {"error", "unplaced", "uncleaned", "temp_left", "file_left"}

Content(i) == upload[i].content
PathOf(i, n) == <<Prefix[Content(i)], Candidates[upload[i].name][n]>>
Tries(i) == 1 .. Len(Candidates[upload[i].name])
Taken(i, n) == vault[PathOf(i, n)] # None

\* Where a file of content h and that name can be stored.
Places(h, name) == {<<Prefix[h], Candidates[name][n]>> : n \in 1 .. Len(Candidates[name])}

\* Import i could not want a place that an import in flight may want.
Apart(i, h, name) ==
  \A j \in Imports \ {i} : pc[j] \in InFlight =>
    Places(h, name) \cap Places(Content(j), upload[j].name) = {}

Init ==
  /\ pc = [i \in Imports |-> "idle"]
  /\ upload = [i \in Imports |-> None]
  /\ dest = [i \in Imports |-> None]
  /\ found = {}
  /\ reply = [i \in Imports |-> "none"]
  /\ up = TRUE
  /\ project = FALSE
  /\ temps = {}
  /\ vault = [p \in Paths |-> None]
  /\ rows = [h \in Contents |-> None]

-----------------------------------------------------------------------------
At(i, step) == up /\ pc[i] = step

Goto(i, step) == pc' = [pc EXCEPT ![i] = step]

Answer(i, r) ==
  /\ Goto(i, "done")
  /\ reply' = [reply EXCEPT ![i] = r]

Submit(i, h, name) ==
  /\ At(i, "idle")
  /\ <<i, h, name>> \in Uploads
  /\ Collisions \/ Apart(i, h, name)
  /\ upload' = [upload EXCEPT ![i] = [content |-> h, name |-> name]]
  /\ Goto(i, "finding")
  /\ UNCHANGED <<dest, found, reply, up, project, fileVars, rows>>

\* QuickImport: find the built-in project ...
FindProject(i) ==
  /\ At(i, "finding")
  /\ Goto(i, IF project THEN "opening" ELSE "creating")
  /\ UNCHANGED <<upload, dest, found, reply, up, project, fileVars, rows>>

\* ... or create it.  Losing the race to another import is not an error: the
\* insertion changes nothing, and the row is read again.
CreateProject(i) ==
  /\ At(i, "creating")
  /\ project' = TRUE
  /\ Goto(i, "opening")
  /\ UNCHANGED <<upload, dest, found, reply, up, fileVars, rows>>

ProjectFails(i) ==
  /\ "database" \in Faults
  /\ At(i, "finding") \/ At(i, "creating")
  /\ Answer(i, "error")
  /\ UNCHANGED <<upload, dest, found, up, project, fileVars, rows>>

-----------------------------------------------------------------------------
(* FsSourceStorage                                                         *)

\* Create the temporary file, under a name no other import has ...
OpenTemp(i) ==
  /\ At(i, "opening")
  /\ temps' = temps \cup {i}
  /\ Goto(i, "filling")
  /\ UNCHANGED <<upload, dest, found, reply, up, project, vault, rows>>

\* ... and stream the source into it, hashing.
FillTemp(i) ==
  /\ At(i, "filling")
  /\ Goto(i, "choosing")
  /\ UNCHANGED <<upload, dest, found, reply, up, project, fileVars, rows>>

\* The error is returned once the temporary file is removed, or once its
\* removal has failed: the result of remove_file is ignored.
DropTemp(i) ==
  \/ /\ temps' = temps \ {i}
     /\ Answer(i, "error")
  \/ /\ "discard" \in Faults
     /\ i \in temps
     /\ temps' = temps
     /\ Answer(i, "temp_left")

\* The source is refused, or copying fails.
CopyFails(i) ==
  /\ "copy" \in Faults
  /\ At(i, "opening") \/ At(i, "filling")
  /\ DropTemp(i)
  /\ UNCHANGED <<upload, dest, found, up, project, vault, rows>>

\* unique_dest: the first candidate that does not exist.
ChooseDest(i) ==
  /\ At(i, "choosing")
  /\ \E n \in Tries(i) :
       /\ ~Taken(i, n)
       /\ \A m \in Tries(i) : m < n => Taken(i, m)
       /\ dest' = [dest EXCEPT ![i] = PathOf(i, n)]
  /\ Goto(i, "renaming")
  /\ UNCHANGED <<upload, found, reply, up, project, fileVars, rows>>

\* No directory, or no candidate is left: the temporary file stays behind.
DestFails(i) ==
  /\ At(i, "choosing")
  /\ "dest" \in Faults \/ \A n \in Tries(i) : Taken(i, n)
  /\ Answer(i, "unplaced")
  /\ UNCHANGED <<upload, dest, found, up, project, fileVars, rows>>

\* rename replaces whatever is at the destination by now.
Rename(i) ==
  /\ At(i, "renaming")
  /\ vault' = [vault EXCEPT ![dest[i]] = Content(i)]
  /\ temps' = temps \ {i}
  /\ Goto(i, "hardening")
  /\ UNCHANGED <<upload, dest, found, reply, up, project, rows>>

\* Mutant: the temporary file is not removed.
RenameFailsUncleaned(i) ==
  /\ "rename" \in Faults
  /\ At(i, "renaming")
  /\ Answer(i, "error")
  /\ UNCHANGED <<upload, dest, found, up, project, fileVars, rows>>

RenameFails(i) ==
  /\ "rename" \in Faults
  /\ At(i, "renaming")
  /\ DropTemp(i)
  /\ UNCHANGED <<upload, dest, found, up, project, vault, rows>>

\* The stored copy becomes read-only; another import may have removed it.
Harden(i) ==
  /\ At(i, "hardening")
  /\ vault[dest[i]] # None
  /\ Goto(i, "looking")
  /\ UNCHANGED <<upload, dest, found, reply, up, project, fileVars, rows>>

\* The stored copy is removed again, unless the removal fails, whose result
\* is ignored.
HardenFails(i) ==
  /\ At(i, "hardening")
  /\ "harden" \in Faults \/ vault[dest[i]] = None
  /\ \/ /\ vault' = [vault EXCEPT ![dest[i]] = None]
        /\ Answer(i, "error")
     \/ /\ "discard" \in Faults
        /\ vault[dest[i]] # None
        /\ vault' = vault
        /\ Answer(i, "file_left")
  /\ UNCHANGED <<upload, dest, found, up, project, temps, rows>>

-----------------------------------------------------------------------------
(* ImportSource                                                            *)

\* find_by_project_and_hash.
Lookup(i) ==
  /\ At(i, "looking")
  /\ IF rows[Content(i)] # None
       THEN found' = found \cup {i} /\ Goto(i, "discarding")
       ELSE found' = found /\ Goto(i, "saving")
  /\ UNCHANGED <<upload, dest, reply, up, project, fileVars, rows>>

\* The insertion; the table is unique in project and hash.
Save(i) ==
  /\ At(i, "saving")
  /\ rows[Content(i)] = None
  /\ rows' = [rows EXCEPT ![Content(i)] = dest[i]]
  /\ Answer(i, "revision")
  /\ UNCHANGED <<upload, dest, found, up, project, fileVars>>

\* Mutant: the error is returned and the stored file forgotten.
DatabaseFailsUncleaned(i) ==
  /\ \/ At(i, "looking") /\ "database" \in Faults
     \/ At(i, "saving") /\ ("database" \in Faults \/ rows[Content(i)] # None)
  /\ Answer(i, "error")
  /\ UNCHANGED <<upload, dest, found, up, project, fileVars, rows>>

\* A repository error, or the row another import has inserted meanwhile:
\* cleanup_after_failure discards the file.
DatabaseFails(i) ==
  /\ \/ At(i, "looking") /\ "database" \in Faults
     \/ At(i, "saving") /\ ("database" \in Faults \/ rows[Content(i)] # None)
  /\ Goto(i, "discarding")
  /\ UNCHANGED <<upload, dest, found, reply, up, project, fileVars, rows>>

\* Mutant: the file of the existing revision is discarded, not the new one.
DiscardRecorded(i) ==
  /\ At(i, "discarding")
  /\ LET p == IF i \in found THEN rows[Content(i)] ELSE dest[i]
     IN  vault' = [vault EXCEPT ![p] = None]
  /\ Answer(i, IF i \in found THEN "revision" ELSE "error")
  /\ UNCHANGED <<upload, dest, found, up, project, temps, rows>>

\* Mutant: a cleaned-up failure counts as a success.
DiscardAlwaysSucceeds(i) ==
  /\ At(i, "discarding")
  /\ vault' = [vault EXCEPT ![dest[i]] = None]
  /\ Answer(i, "revision")
  /\ UNCHANGED <<upload, dest, found, up, project, temps, rows>>

\* discard: the path is removed, whoever put the file there.
Discard(i) ==
  /\ At(i, "discarding")
  /\ vault' = [vault EXCEPT ![dest[i]] = None]
  /\ Answer(i, IF i \in found THEN "revision" ELSE "error")
  /\ UNCHANGED <<upload, dest, found, up, project, temps, rows>>

DiscardFails(i) ==
  /\ "discard" \in Faults
  /\ At(i, "discarding")
  /\ vault[dest[i]] # None
  /\ Answer(i, "uncleaned")
  /\ UNCHANGED <<upload, dest, found, up, project, fileVars, rows>>

-----------------------------------------------------------------------------
Crash ==
  /\ "crash" \in Faults
  /\ up
  /\ up' = FALSE
  /\ pc' = [i \in Imports |-> IF pc[i] \in InFlight THEN "gone" ELSE pc[i]]
  /\ UNCHANGED <<upload, dest, found, reply, project, fileVars, rows>>

\* The next launch sweeps neither temporary files nor the vault.
Boot ==
  /\ ~up
  /\ up' = TRUE
  /\ UNCHANGED <<callVars, project, fileVars, rows>>

ImportStep(i) ==
  \/ FindProject(i) \/ CreateProject(i) \/ ProjectFails(i)
  \/ OpenTemp(i) \/ FillTemp(i) \/ CopyFails(i)
  \/ ChooseDest(i) \/ DestFails(i) \/ Rename(i) \/ RenameFails(i)
  \/ Harden(i) \/ HardenFails(i)
  \/ Lookup(i) \/ Save(i) \/ DatabaseFails(i) \/ Discard(i) \/ DiscardFails(i)

Next ==
  \/ \E i \in Imports, h \in Contents, name \in Names : Submit(i, h, name)
  \/ \E i \in Imports : ImportStep(i)
  \/ Crash \/ Boot

Spec == Init /\ [][Next]_vars

-----------------------------------------------------------------------------
(* Properties                                                              *)

\* The shape of every variable.
VaultTypeOK ==
  /\ pc \in [Imports -> {"idle", "done", "gone"} \cup InFlight]
  /\ upload \in [Imports -> [content : Contents, name : Names] \cup {None}]
  /\ dest \in [Imports -> Paths \cup {None}]
  /\ found \in SUBSET Imports
  /\ reply \in [Imports -> {"none", "revision"} \cup Errors]
  /\ up \in BOOLEAN /\ project \in BOOLEAN
  /\ temps \in SUBSET Imports
  /\ vault \in [Paths -> Contents \cup {None}]
  /\ rows \in [Contents -> Paths \cup {None}]
  /\ \A i \in Imports : pc[i] \in InFlight => upload[i] # None
  /\ \A i \in Imports : pc[i] \in Holding => dest[i] # None

\* The bytes behind a revision row are the bytes its hash was computed from:
\* no later import, compensation or crash replaces or removes them.
RevisionsIntact ==
  \A h \in Contents : rows[h] # None => vault[rows[h]] = h

\* A revision that an import returns exists, and names the content imported,
\* also when the import found it instead of saving it.
RepliesAreRecorded ==
  \A i \in Imports : reply[i] = "revision" => rows[Content(i)] # None

\* A path is written once: a stored file is never given another content, and
\* is removed only while no revision records it.
ImmutableVault ==
  [][\A p \in Paths : vault[p] # None =>
       \/ vault'[p] = vault[p]
       \/ vault'[p] = None /\ \A h \in Contents : rows[h] # p]_vars

\* A stored file without a revision is accounted for by its import: it is at
\* work on the file, died with the process, or tried to remove the file and
\* failed, the only failure that leaves one behind.
NoOrphans ==
  \A p \in Paths : vault[p] # None =>
    \/ \E h \in Contents : rows[h] = p
    \/ \E i \in Imports :
         /\ dest[i] = p
         /\ pc[i] \in Holding \cup {"gone"} \/ reply[i] \in {"uncleaned", "file_left"}

\* A failing import leaves no temporary file, unless the process dies, the
\* import found no place in the vault or the removal of the file failed.
NoLeftoverTemps ==
  \A i \in temps :
    pc[i] \in InFlight \cup {"gone"} \/ reply[i] \in {"unplaced", "temp_left"}

\* Seen through its answers and its revision rows the vault is a store that
\* is only added to (source_storage.rs:1: "immutable source vault").
Store == INSTANCE SourceStore WITH
  asked <- [i \in Imports |-> IF upload[i] = None THEN None ELSE Content(i)],
  answer <- reply,
  readable <- [h \in Contents |-> IF rows[h] = None THEN None ELSE vault[rows[h]]]

StoreSpec == Store!Spec
=============================================================================
