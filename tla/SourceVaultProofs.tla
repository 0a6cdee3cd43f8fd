------------------------- MODULE SourceVaultProofs -------------------------
(***************************************************************************)
(* SourceVault for any number of imports, contents and names.  The vault   *)
(* is safe when no two imports in flight may want the same stored name;    *)
(* VaultRace.cfg shows that it needs that.                                 *)
(***************************************************************************)
EXTENDS SourceVault, TLAPS

\* No two imports can ever try the same path.
OwnPaths ==
  \A s, t \in Uploads : s[1] # t[1] =>
    \A m \in 1 .. Len(Candidates[s[3]]), n \in 1 .. Len(Candidates[t[3]]) :
      <<Prefix[s[2]], Candidates[s[3]][m]>> # <<Prefix[t[2]], Candidates[t[3]][n]>>

NoRace == ~Collisions \/ OwnPaths

\* What a call carries was submitted, and it leaves the loop once.
Submitted ==
  /\ \A i \in Imports : pc[i] \in InFlight \cup {"done"} =>
       /\ upload[i] # None
       /\ <<i, Content(i), upload[i].name>> \in Uploads
  /\ \A i \in Imports : reply[i] # "none" => pc[i] = "done"
  /\ \A i \in found : pc[i] \in {"discarding", "done", "gone"}

\* Imports that may not overlap do not.
Alone ==
  ~Collisions => \A i, j \in Imports :
    pc[i] \in InFlight /\ pc[j] \in InFlight /\ i # j =>
      Places(Content(i), upload[i].name) \cap Places(Content(j), upload[j].name) = {}

\* The path an import works on is one of its candidates.
OwnCandidate ==
  \A i \in Imports : pc[i] \in Holding => \E n \in Tries(i) : dest[i] = PathOf(i, n)

\* Nobody records the path of an import still at work.
Unrecorded ==
  \A i \in Imports : pc[i] \in Holding => \A h \in Contents : rows[h] # dest[i]

\* A stored copy stays where its import put it until the import is done.
StoredCopy ==
  \A i \in Imports : pc[i] \in {"hardening", "looking", "saving"} =>
    vault[dest[i]] = Content(i)

\* Until the rename the chosen path stays free.
Reserved ==
  \A i \in Imports : pc[i] = "renaming" => vault[dest[i]] = None

\* A revision an import has found is not removed.
FoundIsRecorded == \A i \in found : rows[Content(i)] # None

\* Two imports never work on one path, so that what one of them stores,
\* hardens or discards is its own file.  It is what the others rest on.
SeparatePaths ==
  \A i, j \in Imports :
    pc[i] \in Holding /\ pc[j] \in Holding /\ i # j => dest[i] # dest[j]

VaultInv ==
  /\ VaultTypeOK /\ Submitted /\ Alone /\ OwnCandidate /\ SeparatePaths
  /\ Unrecorded /\ StoredCopy /\ Reserved /\ RevisionsIntact
  /\ FoundIsRecorded /\ RepliesAreRecorded

\* Import i's step leaves the files of the others alone.
OthersKept(i) ==
  /\ \A h \in Contents : rows[h] # None => vault'[rows[h]] = vault[rows[h]]
  /\ \A j \in Imports \ {i} : pc[j] \in Holding => vault'[dest[j]] = vault[dest[j]]

-----------------------------------------------------------------------------
\* No step changes the shape of a variable.
LEMMA VaultTypeStep == VaultTypeOK /\ [Next]_vars => VaultTypeOK'
<1>2. VaultTypeOK /\ [Next]_vars => VaultTypeOK'
  <2> SUFFICES ASSUME VaultTypeOK, [Next]_vars PROVE VaultTypeOK'
    OBVIOUS
  <2> USE DEF VaultTypeOK, Errors, InFlight, Holding, At, Goto, Answer, fileVars, callVars
  <2>1. ASSUME NEW i \in Imports, NEW h \in Contents, NEW name \in Names, Submit(i, h, name)
        PROVE  VaultTypeOK'
    BY <2>1, VaultNoneAssumption DEF Submit
  <2>2. ASSUME NEW i \in Imports, FindProject(i) \/ CreateProject(i) \/ ProjectFails(i)
        PROVE  VaultTypeOK'
    BY <2>2 DEF FindProject, CreateProject, ProjectFails
  <2>3. ASSUME NEW i \in Imports, OpenTemp(i) \/ FillTemp(i) \/ CopyFails(i)
        PROVE  VaultTypeOK'
    BY <2>3 DEF OpenTemp, FillTemp, CopyFails, DropTemp
  <2>4. ASSUME NEW i \in Imports, ChooseDest(i) PROVE VaultTypeOK'
    <3>1. PICK n \in Tries(i) : dest' = [dest EXCEPT ![i] = PathOf(i, n)]
      BY <2>4 DEF ChooseDest
    <3>2. upload[i].content \in Contents /\ upload[i].name \in Names
      BY <2>4 DEF ChooseDest
    <3>3. PathOf(i, n) \in Paths
      BY <3>2, PrefixAssumption, CandidatesAssumption DEF PathOf, Content, Tries, Paths
    <3>4. PathOf(i, n) # None
      BY <3>3, VaultNoneAssumption
    <3> QED BY <2>4, <3>1, <3>3, <3>4 DEF ChooseDest
  <2>5. ASSUME NEW i \in Imports, DestFails(i) \/ RenameFails(i) PROVE VaultTypeOK'
    BY <2>5 DEF DestFails, RenameFails, DropTemp
  <2>6. ASSUME NEW i \in Imports, Rename(i) PROVE VaultTypeOK'
    <3>1. upload[i].content \in Contents
      BY <2>6 DEF Rename
    <3> QED BY <2>6, <3>1, VaultNoneAssumption DEF Rename, Content
  <2>7. ASSUME NEW i \in Imports, Harden(i) \/ HardenFails(i) PROVE VaultTypeOK'
    BY <2>7 DEF Harden, HardenFails
  <2>8. ASSUME NEW i \in Imports, Lookup(i) \/ DatabaseFails(i) PROVE VaultTypeOK'
    <3>1. CASE Lookup(i)
      BY <3>1 DEF Lookup
    <3>2. CASE DatabaseFails(i)
      BY <3>2 DEF DatabaseFails
    <3> QED BY <2>8, <3>1, <3>2
  <2>9. ASSUME NEW i \in Imports, Save(i) PROVE VaultTypeOK'
    BY <2>9 DEF Save
  <2>10. ASSUME NEW i \in Imports, Discard(i) \/ DiscardFails(i) PROVE VaultTypeOK'
    BY <2>10 DEF Discard, DiscardFails
  <2>11. CASE Crash
    BY <2>11 DEF Crash
  <2>12. CASE Boot
    BY <2>12 DEF Boot
  <2>13. CASE UNCHANGED vars
    BY <2>13 DEF vars
  <2> QED
    BY <2>1, <2>2, <2>3, <2>4, <2>5, <2>6, <2>7, <2>8, <2>9, <2>10, <2>11,
       <2>12, <2>13 DEF Next, ImportStep
<1> QED BY <1>2

\* Every variable keeps its shape, in every execution.
THEOREM VaultTypeCorrect == Spec => []VaultTypeOK
<1>1. Init => VaultTypeOK
  BY DEF Init, VaultTypeOK, InFlight, Holding
<1> QED BY <1>1, VaultTypeStep, PTL DEF Spec

-----------------------------------------------------------------------------
\* A stored copy that cannot be made read-only is removed, or stays because
\* its removal fails.
HardenUndoes(i) ==
  /\ At(i, "hardening")
  /\ vault' = [vault EXCEPT ![dest[i]] = None]
  /\ Answer(i, "error")
  /\ UNCHANGED <<upload, dest, found, up, project, temps, rows>>

HardenLeaves(i) ==
  /\ At(i, "hardening")
  /\ Answer(i, "file_left")
  /\ UNCHANGED <<upload, dest, found, up, project, fileVars, rows>>

LEMMA HardenSplits ==
  ASSUME NEW i \in Imports, HardenFails(i) PROVE HardenUndoes(i) \/ HardenLeaves(i)
BY DEF HardenFails, HardenUndoes, HardenLeaves, fileVars

\* A step of an import that touches neither a stored file nor a revision, nor
\* its own destination, leaves the invariant alone when it moves the import
\* forward or ends it.
LEMMA QuietStep ==
  ASSUME VaultInv, VaultTypeOK', NEW i \in Imports, NEW to, NEW e \in Errors,
         pc[i] \in InFlight,
         to \in InFlight \cup {"done"},
         to \in Holding => pc[i] \in Holding, to # "renaming",
         to \in {"hardening", "looking", "saving"} =>
           pc[i] \in {"hardening", "looking", "saving"},
         i \in found => to \in {"discarding", "done"},
         pc' = [pc EXCEPT ![i] = to],
         \/ reply' = reply
         \/ to = "done" /\ reply' = [reply EXCEPT ![i] = e],
         UNCHANGED <<upload, dest, found, vault, rows>>
  PROVE  VaultInv'
<1> USE DEF VaultInv, InFlight, Holding, Errors
<1>1. Submitted'
  BY DEF Submitted, VaultTypeOK, Content
<1>2. Alone'
  <2>1. \A j \in Imports : pc'[j] \in InFlight => pc[j] \in InFlight
    BY DEF VaultTypeOK
  <2>2. \A j \in Imports : Content(j)' = Content(j) /\ upload'[j] = upload[j]
    BY DEF Content
  <2> HIDE DEF VaultInv, InFlight, Holding, Errors
  <2>3. Alone
    BY DEF VaultInv
  <2> QED BY <2>1, <2>2, <2>3 DEF Alone
<1>3. OwnCandidate'
  BY DEF OwnCandidate, VaultTypeOK, Tries, PathOf, Content
<1>4. SeparatePaths'
  BY DEF SeparatePaths, VaultTypeOK
<1>5. Unrecorded'
  BY DEF Unrecorded, VaultTypeOK
<1>6. StoredCopy' /\ Reserved'
  BY DEF StoredCopy, Reserved, VaultTypeOK, Content
<1>7. RevisionsIntact'
  BY DEF RevisionsIntact
<1>8. FoundIsRecorded' /\ RepliesAreRecorded'
  BY DEF FoundIsRecorded, RepliesAreRecorded, VaultTypeOK, Content
<1> QED BY <1>1, <1>2, <1>3, <1>4, <1>5, <1>6, <1>7, <1>8

\* Under NoRace an untaken candidate is nobody else's destination, and no
\* revision records it.
LEMMA FreshDestination ==
  ASSUME NoRace, VaultInv, NEW i \in Imports, pc[i] = "choosing",
         NEW n \in Tries(i), ~Taken(i, n)
  PROVE  /\ \A j \in Imports \ {i} : pc[j] \in Holding => dest[j] # PathOf(i, n)
         /\ \A h \in Contents : rows[h] # PathOf(i, n)
<1>1. ASSUME NEW j \in Imports \ {i}, pc[j] \in Holding
      PROVE  dest[j] # PathOf(i, n)
  <2>2. PICK m \in Tries(j) : dest[j] = PathOf(j, m)
    BY <1>1 DEF VaultInv, OwnCandidate
  <2>1. CASE ~Collisions
    <3>1. Places(Content(j), upload[j].name) \cap Places(Content(i), upload[i].name) = {}
      BY <1>1, <2>1 DEF VaultInv, Alone, InFlight
    <3>2. /\ PathOf(j, m) \in Places(Content(j), upload[j].name)
          /\ PathOf(i, n) \in Places(Content(i), upload[i].name)
      BY DEF PathOf, Places, Tries
    <3> QED BY <2>2, <3>1, <3>2
  <2>6. CASE OwnPaths
    <3> DEFINE s == <<j, Content(j), upload[j].name>>
               t == <<i, Content(i), upload[i].name>>
    <3>1. s \in Uploads /\ t \in Uploads /\ s[1] # t[1]
      BY <1>1 DEF VaultInv, Submitted, InFlight
    <3>2. \A k \in 1 .. Len(Candidates[s[3]]), l \in 1 .. Len(Candidates[t[3]]) :
            <<Prefix[s[2]], Candidates[s[3]][k]>> # <<Prefix[t[2]], Candidates[t[3]][l]>>
      BY <2>6, <3>1 DEF OwnPaths
    <3>3. <<Prefix[Content(j)], Candidates[upload[j].name][m]>> #
          <<Prefix[Content(i)], Candidates[upload[i].name][n]>>
      BY <3>2 DEF Tries
    <3> QED BY <2>2, <3>3 DEF PathOf
  <2> QED BY <2>1, <2>6 DEF NoRace
<1>2. ASSUME NEW h \in Contents PROVE rows[h] # PathOf(i, n)
  <2>1. CASE rows[h] = None
    <3>1. PathOf(i, n) \in Paths
      BY PrefixAssumption, CandidatesAssumption
      DEF PathOf, Paths, VaultInv, VaultTypeOK, Content, Tries, InFlight
    <3> QED BY <2>1, <3>1, VaultNoneAssumption
  <2>2. CASE rows[h] # None
    BY <2>2, VaultNoneAssumption DEF VaultInv, RevisionsIntact, Taken
  <2> QED BY <2>1, <2>2
<1> QED BY <1>1, <1>2

\* The invariant is kept by every step, under either assumption.
LEMMA VaultInvStep ==
  ASSUME NoRace, VaultInv, [Next]_vars PROVE VaultInv'
<1>0. VaultTypeOK'
  BY VaultTypeStep DEF VaultInv
<1>f. found \subseteq Imports
  BY DEF VaultInv, VaultTypeOK
<1> USE <1>0 DEF At, Goto, Answer, fileVars, callVars
<1>1. ASSUME NEW i \in Imports, NEW h \in Contents, NEW name \in Names, Submit(i, h, name)
      PROVE  VaultInv'
  <2>1. pc[i] = "idle" /\ pc'[i] = "finding" /\ \A j \in Imports \ {i} : pc'[j] = pc[j]
    BY <1>1 DEF Submit, VaultInv, VaultTypeOK
  <2>2. /\ upload'[i] = [content |-> h, name |-> name]
        /\ \A j \in Imports \ {i} : upload'[j] = upload[j]
    BY <1>1 DEF Submit, VaultInv, VaultTypeOK
  <2>3. <<i, h, name>> \in Uploads /\ reply[i] = "none" /\ i \notin found
    BY <1>1, <2>1 DEF Submit, VaultInv, Submitted
  <2>4. UNCHANGED <<dest, found, reply, up, project, temps, vault, rows>>
    BY <1>1 DEF Submit
  <2> USE DEF InFlight, Holding
  <2>5. Submitted'
    BY <1>1, <1>f, <2>1, <2>2, <2>3, <2>4, VaultNoneAssumption DEF VaultInv, Submitted, Content
  <2>6. Alone'
    <3>1. Content(i)' = h /\ upload'[i].name = name
      BY <2>2 DEF Content
    <3>2. \A j \in Imports \ {i} : Content(j)' = Content(j) /\ upload'[j] = upload[j]
      BY <2>2 DEF Content
    <3>3. ~Collisions => Apart(i, h, name)
      BY <1>1 DEF Submit
    <3> QED BY <2>1, <3>1, <3>2, <3>3 DEF VaultInv, Alone, Apart
  <2>7. OwnCandidate' /\ StoredCopy' /\ Reserved'
    BY <2>1, <2>2, <2>4 DEF VaultInv, OwnCandidate, StoredCopy, Reserved, Tries, PathOf, Content
  <2>8. SeparatePaths' /\ Unrecorded' /\ RevisionsIntact'
    BY <2>1, <2>4 DEF VaultInv, SeparatePaths, Unrecorded, RevisionsIntact
  <2>9. FoundIsRecorded' /\ RepliesAreRecorded'
    BY <2>2, <2>3, <2>4 DEF VaultInv, FoundIsRecorded, RepliesAreRecorded, VaultTypeOK, Content
  <2> QED BY <2>5, <2>6, <2>7, <2>8, <2>9 DEF VaultInv
<1>2. ASSUME NEW i \in Imports,
             \/ FindProject(i) \/ CreateProject(i) \/ ProjectFails(i)
             \/ OpenTemp(i) \/ FillTemp(i) \/ CopyFails(i)
             \/ DestFails(i) \/ RenameFails(i) \/ Harden(i) \/ HardenLeaves(i)
             \/ DatabaseFails(i) \/ DiscardFails(i)
      PROVE  VaultInv'
  <2>1. \E to \in InFlight \cup {"done"}, e \in Errors :
          /\ pc[i] \in InFlight
          /\ to \in Holding => pc[i] \in Holding
          /\ to # "renaming"
          /\ to \in {"hardening", "looking", "saving"} =>
               pc[i] \in {"hardening", "looking", "saving"}
          /\ i \in found => to \in {"discarding", "done"}
          /\ pc' = [pc EXCEPT ![i] = to]
          /\ \/ reply' = reply
             \/ to = "done" /\ reply' = [reply EXCEPT ![i] = e]
          /\ UNCHANGED <<upload, dest, found, vault, rows>>
    <3> USE DEF VaultInv, Submitted, InFlight, Holding, Errors
    <3>1. CASE FindProject(i) \/ CreateProject(i) \/ ProjectFails(i)
      BY <3>1 DEF FindProject, CreateProject, ProjectFails
    <3>2. CASE OpenTemp(i) \/ FillTemp(i) \/ CopyFails(i)
      BY <3>2 DEF OpenTemp, FillTemp, CopyFails, DropTemp
    <3>3. CASE DestFails(i) \/ RenameFails(i) \/ Harden(i)
      BY <3>3 DEF DestFails, RenameFails, DropTemp, Harden
    <3>4. CASE HardenLeaves(i) \/ DatabaseFails(i) \/ DiscardFails(i)
      BY <3>4 DEF HardenLeaves, DatabaseFails, DiscardFails
    <3> QED BY <1>2, <3>1, <3>2, <3>3, <3>4
  <2> QED BY <2>1, QuietStep
<1>3. ASSUME NEW i \in Imports, ChooseDest(i) PROVE VaultInv'
  <2>1. PICK n \in Tries(i) : ~Taken(i, n) /\ dest' = [dest EXCEPT ![i] = PathOf(i, n)]
    BY <1>3 DEF ChooseDest
  <2>2. /\ pc[i] = "choosing" /\ pc' = [pc EXCEPT ![i] = "renaming"]
        /\ UNCHANGED <<upload, found, reply, vault, rows>>
    BY <1>3 DEF ChooseDest
  <2>3. /\ pc'[i] = "renaming" /\ \A j \in Imports \ {i} : pc'[j] = pc[j]
        /\ dest'[i] = PathOf(i, n) /\ \A j \in Imports \ {i} : dest'[j] = dest[j]
    BY <2>1, <2>2 DEF VaultInv, VaultTypeOK
  <2>4. /\ \A j \in Imports \ {i} : pc[j] \in Holding => dest[j] # PathOf(i, n)
        /\ \A h \in Contents : rows[h] # PathOf(i, n)
    BY <2>1, <2>2, FreshDestination
  <2>5. Submitted' /\ Alone' /\ StoredCopy' /\ Reserved'
    BY <1>f, <2>1, <2>2, <2>3
    DEF VaultInv, Taken, Submitted, Alone, StoredCopy, Reserved, InFlight, Holding, Content
  <2>6. OwnCandidate'
    BY <2>2, <2>3 DEF VaultInv, OwnCandidate, Holding, Tries, PathOf, Content
  <2>7. SeparatePaths' /\ Unrecorded'
    BY <2>2, <2>3, <2>4 DEF VaultInv, SeparatePaths, Unrecorded, Holding
  <2>8. RevisionsIntact' /\ FoundIsRecorded' /\ RepliesAreRecorded'
    BY <2>2 DEF VaultInv, RevisionsIntact, FoundIsRecorded, RepliesAreRecorded, Content
  <2> QED BY <2>5, <2>6, <2>7, <2>8 DEF VaultInv
<1>4. ASSUME NEW i \in Imports, Rename(i) PROVE VaultInv'
  <2>1. /\ pc[i] = "renaming" /\ pc' = [pc EXCEPT ![i] = "hardening"]
        /\ vault' = [vault EXCEPT ![dest[i]] = Content(i)]
        /\ UNCHANGED <<upload, dest, found, reply, rows>>
    BY <1>4 DEF Rename
  <2>2. OthersKept(i)
    BY <2>1 DEF OthersKept, VaultInv, VaultTypeOK, Unrecorded, SeparatePaths, Holding
  <2>3. vault'[dest[i]] = Content(i)
    BY <2>1 DEF VaultInv, VaultTypeOK, Holding
  <2>4. pc'[i] = "hardening" /\ \A j \in Imports \ {i} : pc'[j] = pc[j]
    BY <2>1 DEF VaultInv, VaultTypeOK
  <2>5. Submitted' /\ Alone'
    BY <2>1, <2>4 DEF VaultInv, Submitted, Alone, InFlight, Holding, Content
  <2>6. OwnCandidate' /\ SeparatePaths' /\ Unrecorded'
    BY <2>1, <2>4
    DEF VaultInv, OwnCandidate, SeparatePaths, Unrecorded, Holding, Tries, PathOf, Content
  <2>7. StoredCopy' /\ Reserved'
    BY <2>1, <2>2, <2>3, <2>4 DEF VaultInv, StoredCopy, Reserved, OthersKept, Holding, Content
  <2>8. RevisionsIntact' /\ FoundIsRecorded' /\ RepliesAreRecorded'
    BY <2>1, <2>2
    DEF VaultInv, RevisionsIntact, OthersKept, FoundIsRecorded, RepliesAreRecorded, Content
  <2> QED BY <2>5, <2>6, <2>7, <2>8 DEF VaultInv
<1>5. ASSUME NEW i \in Imports, HardenUndoes(i) \/ Discard(i) PROVE VaultInv'
  <2>1. /\ pc[i] \in {"hardening", "discarding"} /\ pc' = [pc EXCEPT ![i] = "done"]
        /\ vault' = [vault EXCEPT ![dest[i]] = None]
        /\ UNCHANGED <<upload, dest, found, rows>>
        /\ reply' = [reply EXCEPT ![i] =
             IF pc[i] = "discarding" /\ i \in found THEN "revision" ELSE "error"]
    BY <1>5 DEF HardenUndoes, Discard
  <2>2. OthersKept(i)
    BY <2>1 DEF OthersKept, VaultInv, VaultTypeOK, Unrecorded, SeparatePaths, Holding
  <2>3. pc'[i] = "done" /\ \A j \in Imports \ {i} : pc'[j] = pc[j] /\ reply'[j] = reply[j]
    BY <2>1 DEF VaultInv, VaultTypeOK
  <2>4. Submitted' /\ Alone'
    BY <1>f, <2>1, <2>3 DEF VaultInv, Submitted, Alone, InFlight, Holding, Content
  <2>5. OwnCandidate' /\ SeparatePaths' /\ Unrecorded'
    BY <2>1, <2>3
    DEF VaultInv, OwnCandidate, SeparatePaths, Unrecorded, Holding, Tries, PathOf, Content
  <2>6. StoredCopy' /\ Reserved' /\ RevisionsIntact'
    BY <2>1, <2>2, <2>3
    DEF VaultInv, StoredCopy, Reserved, RevisionsIntact, OthersKept, Holding, Content
  <2>7. FoundIsRecorded' /\ RepliesAreRecorded'
    BY <2>1, <2>3
    DEF VaultInv, VaultTypeOK, FoundIsRecorded, RepliesAreRecorded, Content
  <2> QED BY <2>4, <2>5, <2>6, <2>7 DEF VaultInv
<1>6. ASSUME NEW i \in Imports, Lookup(i) PROVE VaultInv'
  <2>1. /\ pc[i] = "looking" /\ pc'[i] \in {"discarding", "saving"}
        /\ \A j \in Imports \ {i} : pc'[j] = pc[j]
        /\ rows[Content(i)] # None => found' = found \cup {i} /\ pc'[i] = "discarding"
        /\ rows[Content(i)] = None => found' = found
        /\ UNCHANGED <<upload, dest, reply, vault, rows>>
    BY <1>6 DEF Lookup, VaultInv, VaultTypeOK
  <2>2. Submitted' /\ Alone'
    BY <1>f, <2>1 DEF VaultInv, Submitted, Alone, InFlight, Holding, Content
  <2>3. OwnCandidate' /\ SeparatePaths' /\ Unrecorded' /\ StoredCopy' /\ Reserved'
    BY <2>1
    DEF VaultInv, OwnCandidate, SeparatePaths, Unrecorded, StoredCopy, Reserved, Holding,
        Tries, PathOf, Content
  <2>4. RevisionsIntact' /\ FoundIsRecorded' /\ RepliesAreRecorded'
    BY <2>1 DEF VaultInv, RevisionsIntact, FoundIsRecorded, RepliesAreRecorded, Content
  <2> QED BY <2>2, <2>3, <2>4 DEF VaultInv
<1>7. ASSUME NEW i \in Imports, Save(i) PROVE VaultInv'
  <2>1. /\ pc[i] = "saving" /\ pc'[i] = "done" /\ rows[Content(i)] = None
        /\ \A j \in Imports \ {i} : pc'[j] = pc[j] /\ reply'[j] = reply[j]
        /\ UNCHANGED <<upload, dest, found, vault>>
    BY <1>7 DEF Save, VaultInv, VaultTypeOK
  <2>2. Content(i) \in Contents /\ dest[i] \in Paths /\ dest[i] # None
    BY <2>1 DEF Content, VaultInv, VaultTypeOK, InFlight, Holding
  <2>3. /\ rows'[Content(i)] = dest[i]
        /\ \A h \in Contents : h # Content(i) => rows'[h] = rows[h]
    BY <1>7, <2>2 DEF Save, VaultInv, VaultTypeOK
  <2>4. Submitted' /\ Alone'
    BY <1>f, <2>1 DEF VaultInv, Submitted, Alone, InFlight, Holding, Content
  <2>5. OwnCandidate' /\ SeparatePaths' /\ StoredCopy' /\ Reserved'
    BY <2>1
    DEF VaultInv, OwnCandidate, SeparatePaths, StoredCopy, Reserved, Holding, Tries, PathOf, Content
  <2>6. Unrecorded'
    BY <2>1, <2>3 DEF VaultInv, Unrecorded, SeparatePaths, Holding
  <2>7. RevisionsIntact'
    BY <2>1, <2>2, <2>3 DEF VaultInv, RevisionsIntact, StoredCopy
  <2>8. FoundIsRecorded' /\ RepliesAreRecorded'
    <3>1. \A j \in Imports : rows[Content(j)] # None => rows'[Content(j)] # None
      BY <1>7, <2>1, <2>2, <2>3 DEF Save, VaultInv, VaultTypeOK
    <3>2. UNCHANGED <<upload, found>>
      BY <2>1
    <3> QED BY <2>1, <2>2, <2>3, <3>1, <3>2
         DEF VaultInv, VaultTypeOK, FoundIsRecorded, RepliesAreRecorded, Content
  <2> QED BY <2>4, <2>5, <2>6, <2>7, <2>8 DEF VaultInv
<1>8. CASE Crash
  <2>1. /\ \A i \in Imports : pc'[i] = IF pc[i] \in InFlight THEN "gone" ELSE pc[i]
        /\ UNCHANGED <<upload, dest, found, reply, vault, rows>>
    BY <1>8 DEF Crash
  <2>2. /\ Submitted' /\ Alone' /\ OwnCandidate' /\ SeparatePaths'
        /\ Unrecorded' /\ StoredCopy' /\ Reserved'
    BY <1>f, <2>1
    DEF VaultInv, Submitted, Alone, OwnCandidate, SeparatePaths, Unrecorded,
        StoredCopy, Reserved, InFlight, Holding, Content
  <2>3. RevisionsIntact' /\ FoundIsRecorded' /\ RepliesAreRecorded'
    BY <2>1 DEF VaultInv, RevisionsIntact, FoundIsRecorded, RepliesAreRecorded, Content
  <2> QED BY <2>2, <2>3 DEF VaultInv
<1>9. CASE Boot \/ UNCHANGED vars
  <2>1. UNCHANGED <<pc, upload, dest, found, reply, vault, rows>>
    BY <1>9 DEF Boot, vars
  <2> QED BY <2>1
       DEF VaultInv, Submitted, Alone, OwnCandidate, SeparatePaths, Unrecorded, StoredCopy,
           Reserved, RevisionsIntact, FoundIsRecorded, RepliesAreRecorded, Tries, PathOf, Content
<1> QED
  BY <1>1, <1>2, <1>3, <1>4, <1>5, <1>6, <1>7, <1>8, <1>9, HardenSplits DEF Next, ImportStep

-----------------------------------------------------------------------------
\* Without races on one path the invariant holds in every execution.
LEMMA VaultInvAlways == ASSUME NoRace PROVE Spec => []VaultInv
<1>1. Init => VaultInv
  <2> SUFFICES ASSUME Init PROVE VaultInv
    OBVIOUS
  <2>1. VaultTypeOK
    BY DEF Init, VaultTypeOK, InFlight, Holding
  <2> QED BY <2>1
       DEF Init, VaultInv, Submitted, Alone, OwnCandidate, SeparatePaths, Unrecorded,
           StoredCopy, Reserved, RevisionsIntact, FoundIsRecorded, RepliesAreRecorded, InFlight, Holding
<1>2. VaultInv /\ [Next]_vars => VaultInv'
  BY VaultInvStep
<1> QED BY <1>1, <1>2, PTL DEF Spec

\* Every revision row points at the bytes its hash was computed from, through
\* failures, compensations, crashes and imports of the same content.
THEOREM RevisionsIntactAlways == ASSUME NoRace PROVE Spec => []RevisionsIntact
<1>1. VaultInv => RevisionsIntact
  BY DEF VaultInv
<1> QED BY <1>1, VaultInvAlways, PTL

\* An import that answers with a revision has one recorded for its content.
THEOREM RepliesAreRecordedAlways == ASSUME NoRace PROVE Spec => []RepliesAreRecorded
<1>1. VaultInv => RepliesAreRecorded
  BY DEF VaultInv
<1> QED BY <1>1, VaultInvAlways, PTL

\* No step replaces a stored file or removes one that a revision records.
THEOREM ImmutableVaultAlways == ASSUME NoRace PROVE Spec => ImmutableVault
<1>1. ASSUME VaultInv, VaultInv', [Next]_vars
      PROVE  [\A p \in Paths : vault[p] # None =>
                \/ vault'[p] = vault[p]
                \/ vault'[p] = None /\ \A h \in Contents : rows[h] # p]_vars
  <2>1. CASE UNCHANGED vault
    BY <2>1
  <2>2. ASSUME NEW i \in Imports, HardenUndoes(i) \/ Discard(i)
        PROVE  \A p \in Paths :
                 \/ vault'[p] = vault[p]
                 \/ vault'[p] = None /\ \A h \in Contents : rows[h] # p
    <3>1. pc[i] \in Holding /\ vault' = [vault EXCEPT ![dest[i]] = None]
      BY <2>2 DEF HardenUndoes, Discard, At, Holding
    <3> QED BY <1>1, <3>1 DEF VaultInv, VaultTypeOK, Unrecorded
  <2>3. ASSUME NEW i \in Imports, Rename(i)
        PROVE  \A p \in Paths : vault[p] # None => vault'[p] = vault[p]
    <3>1. pc[i] = "renaming" /\ vault' = [vault EXCEPT ![dest[i]] = Content(i)]
      BY <2>3 DEF Rename, At
    <3>2. vault[dest[i]] = None
      BY <1>1, <3>1 DEF VaultInv, Reserved
    <3> QED BY <1>1, <3>1, <3>2 DEF VaultInv, VaultTypeOK
  <2>4. ASSUME NEW i \in Imports, HardenLeaves(i) PROVE UNCHANGED vault
    BY <2>4 DEF HardenLeaves, fileVars
  <2> QED
    BY <1>1, <2>1, <2>2, <2>3, <2>4, HardenSplits
    DEF Next, ImportStep, Submit, FindProject, CreateProject, ProjectFails, OpenTemp,
        FillTemp, CopyFails, DropTemp, ChooseDest, DestFails, RenameFails, Harden, Lookup, Save,
        DatabaseFails, DiscardFails, Crash, Boot, vars, fileVars, callVars
<1> QED BY <1>1, VaultInvAlways, PTL DEF Spec, ImmutableVault

-----------------------------------------------------------------------------
(* What failing imports leave behind, whether or not they race.            *)

\* NoOrphans, with the imports whose file it is.
OrphanInv ==
  \A p \in Paths : vault[p] # None =>
    \/ \E h \in Contents : rows[h] = p
    \/ \E i \in Imports :
         /\ dest[i] = p
         /\ \/ pc[i] \in {"hardening", "looking", "saving", "discarding", "gone"}
            \/ pc[i] = "done" /\ reply[i] \in {"uncleaned", "file_left"}

\* NoLeftoverTemps, with the steps at which a temporary file exists.
TempInv ==
  \A i \in temps :
    \/ pc[i] \in {"filling", "choosing", "renaming", "gone"}
    \/ pc[i] = "done" /\ reply[i] \in {"unplaced", "temp_left"}

\* A step keeps an orphan accounted for when it moves no file in, takes no
\* row away, and ends no import that answers for one.
LEMMA OrphanStep ==
  ASSUME VaultTypeOK, OrphanInv, [Next]_vars PROVE OrphanInv'
<1> USE DEF At, Goto, Answer, fileVars, callVars
<1>1. ASSUME NEW i \in Imports, Rename(i) PROVE OrphanInv'
  <2>1. /\ pc[i] = "renaming" /\ pc'[i] = "hardening"
        /\ \A j \in Imports \ {i} : pc'[j] = pc[j]
        /\ \A p \in Paths : p # dest[i] => vault'[p] = vault[p]
        /\ UNCHANGED <<dest, rows, reply>>
    BY <1>1 DEF Rename, VaultTypeOK
  <2> QED BY <2>1 DEF OrphanInv
<1>2. ASSUME NEW i \in Imports, HardenUndoes(i) \/ Discard(i) PROVE OrphanInv'
  <2>1. /\ pc[i] \in Holding /\ UNCHANGED <<dest, rows>>
        /\ \A j \in Imports \ {i} : pc'[j] = pc[j] /\ reply'[j] = reply[j]
        /\ vault' = [vault EXCEPT ![dest[i]] = None]
    BY <1>2 DEF HardenUndoes, Discard, VaultTypeOK, Holding
  <2>2. vault'[dest[i]] = None /\ \A p \in Paths : p # dest[i] => vault'[p] = vault[p]
    BY <2>1 DEF VaultTypeOK
  <2> QED BY <2>1, <2>2 DEF OrphanInv
<1>3. ASSUME NEW i \in Imports, Save(i) PROVE OrphanInv'
  <2>1. /\ \A j \in Imports \ {i} : pc'[j] = pc[j] /\ reply'[j] = reply[j]
        /\ UNCHANGED <<dest, vault>>
    BY <1>3 DEF Save, VaultTypeOK
  <2>2. Content(i) \in Contents /\ rows[Content(i)] = None
    BY <1>3 DEF Save, Content, VaultTypeOK, InFlight, Holding
  <2>3. /\ rows'[Content(i)] = dest[i]
        /\ \A h \in Contents : h # Content(i) => rows'[h] = rows[h]
    BY <1>3, <2>2 DEF Save, VaultTypeOK
  <2>4. \A p \in Paths : p # None
    BY VaultNoneAssumption
  <2> QED BY <2>1, <2>2, <2>3, <2>4 DEF OrphanInv
<1>4. ASSUME NEW i \in Imports, DiscardFails(i) \/ HardenLeaves(i) PROVE OrphanInv'
  <2>1. /\ pc'[i] = "done" /\ reply'[i] \in {"uncleaned", "file_left"}
        /\ \A j \in Imports \ {i} : pc'[j] = pc[j] /\ reply'[j] = reply[j]
        /\ UNCHANGED <<dest, vault, rows>>
    BY <1>4 DEF DiscardFails, HardenLeaves, VaultTypeOK
  <2> QED BY <2>1 DEF OrphanInv
<1>5. ASSUME NEW i \in Imports, Lookup(i) \/ DatabaseFails(i) \/ Harden(i) PROVE OrphanInv'
  <2>1. /\ pc'[i] \in {"looking", "saving", "discarding"}
        /\ \A j \in Imports \ {i} : pc'[j] = pc[j]
        /\ UNCHANGED <<dest, vault, rows, reply>>
    BY <1>5 DEF Lookup, DatabaseFails, Harden, VaultTypeOK
  <2> QED BY <2>1 DEF OrphanInv
<1>6. ASSUME NEW i \in Imports, ChooseDest(i) PROVE OrphanInv'
  <2>1. /\ pc[i] = "choosing"
        /\ \A j \in Imports \ {i} : pc'[j] = pc[j] /\ dest'[j] = dest[j]
        /\ UNCHANGED <<vault, rows, reply>>
    BY <1>6 DEF ChooseDest, VaultTypeOK
  <2> QED BY <2>1 DEF OrphanInv
<1>7. ASSUME NEW i \in Imports,
             \/ \E h \in Contents, name \in Names : Submit(i, h, name)
             \/ FindProject(i) \/ CreateProject(i) \/ ProjectFails(i)
             \/ OpenTemp(i) \/ FillTemp(i) \/ CopyFails(i)
             \/ DestFails(i) \/ RenameFails(i)
      PROVE  OrphanInv'
  <2>1. /\ pc[i] \in {"idle", "finding", "creating", "opening", "filling", "choosing", "renaming"}
        /\ \A j \in Imports \ {i} : pc'[j] = pc[j] /\ reply'[j] = reply[j]
        /\ UNCHANGED <<dest, vault, rows>>
    BY <1>7
    DEF Submit, FindProject, CreateProject, ProjectFails, OpenTemp, FillTemp, CopyFails,
        DestFails, RenameFails, DropTemp, VaultTypeOK
  <2> QED BY <2>1 DEF OrphanInv
<1>8. CASE Crash
  <2>1. /\ \A i \in Imports : pc'[i] = IF pc[i] \in InFlight THEN "gone" ELSE pc[i]
        /\ UNCHANGED <<dest, vault, rows, reply>>
    BY <1>8 DEF Crash
  <2> QED BY <2>1 DEF OrphanInv, InFlight, Holding
<1>9. CASE Boot \/ UNCHANGED vars
  BY <1>9 DEF Boot, vars, OrphanInv
<1> QED
  BY <1>1, <1>2, <1>3, <1>4, <1>5, <1>6, <1>7, <1>8, <1>9, HardenSplits DEF Next, ImportStep

\* A temporary file is removed by the step that ends its use.
LEMMA TempStep ==
  ASSUME VaultTypeOK, TempInv, [Next]_vars PROVE TempInv'
<1> USE DEF At, Goto, Answer, fileVars, callVars, VaultTypeOK, TempInv
<1>1. ASSUME NEW i \in Imports, OpenTemp(i) \/ FillTemp(i) \/ CopyFails(i) PROVE TempInv'
  BY <1>1 DEF OpenTemp, FillTemp, CopyFails, DropTemp
<1>2. ASSUME NEW i \in Imports, ChooseDest(i) \/ DestFails(i) PROVE TempInv'
  BY <1>2 DEF ChooseDest, DestFails
<1>3. ASSUME NEW i \in Imports, Rename(i) \/ RenameFails(i) PROVE TempInv'
  BY <1>3 DEF Rename, RenameFails, DropTemp
<1>4. ASSUME NEW i \in Imports,
             \/ \E h \in Contents, name \in Names : Submit(i, h, name)
             \/ FindProject(i) \/ CreateProject(i) \/ ProjectFails(i)
      PROVE  TempInv'
  BY <1>4 DEF Submit, FindProject, CreateProject, ProjectFails
<1>5. ASSUME NEW i \in Imports,
             Harden(i) \/ HardenFails(i) \/ Lookup(i) \/ Save(i) \/ DatabaseFails(i)
      PROVE  TempInv'
  BY <1>5 DEF Harden, HardenFails, Lookup, Save, DatabaseFails
<1>6. ASSUME NEW i \in Imports, Discard(i) \/ DiscardFails(i) PROVE TempInv'
  BY <1>6 DEF Discard, DiscardFails
<1>7. CASE Crash
  BY <1>7 DEF Crash, InFlight, Holding
<1>8. CASE Boot \/ UNCHANGED vars
  BY <1>8 DEF Boot, vars
<1> QED BY <1>1, <1>2, <1>3, <1>4, <1>5, <1>6, <1>7, <1>8 DEF Next, ImportStep

\* Every stored file has its revision, or an import that answers for it: one
\* still at work, one the process took with it, or one whose attempt to remove
\* the file has failed.
THEOREM NoOrphansAlways == Spec => []NoOrphans
<1>1. Init => OrphanInv
  BY DEF Init, OrphanInv
<1>2. OrphanInv => NoOrphans
  BY DEF OrphanInv, NoOrphans, Holding
<1> QED BY <1>1, <1>2, OrphanStep, VaultTypeCorrect, PTL DEF Spec

\* No failure but the two named ones, no place in the vault and a removal that
\* fails, leaves a temporary file behind a process that lives on.
THEOREM NoLeftoverTempsAlways == Spec => []NoLeftoverTemps
<1>1. Init => TempInv
  BY DEF Init, TempInv
<1>2. TempInv => NoLeftoverTemps
  BY DEF TempInv, NoLeftoverTemps, InFlight, Holding
<1> QED BY <1>1, <1>2, TempStep, VaultTypeCorrect, PTL DEF Spec

-----------------------------------------------------------------------------
(* The refinement: what callers and readers see of all this is a store     *)
(* that is only added to.                                                  *)

\* The variables of the store.
Asked == [i \in Imports |-> IF upload[i] = None THEN None ELSE Content(i)]
Readable == [h \in Contents |-> IF rows[h] = None THEN None ELSE vault[rows[h]]]

\* An import that has not been submitted carries nothing.
Unasked == \A i \in Imports : pc[i] = "idle" => upload[i] = None

LEMMA UnaskedStep == VaultTypeOK /\ Unasked /\ [Next]_vars => Unasked'
<1> SUFFICES ASSUME VaultTypeOK, Unasked, [Next]_vars PROVE Unasked'
  OBVIOUS
<1> USE DEF Unasked, VaultTypeOK
<1>1. ASSUME NEW i \in Imports, NEW h \in Contents, NEW name \in Names, Submit(i, h, name)
      PROVE  Unasked'
  BY <1>1 DEF Submit, Goto
<1>2. ASSUME NEW i \in Imports, ImportStep(i) PROVE Unasked'
  <2>1. UNCHANGED upload
    BY <1>2
    DEF ImportStep, FindProject, CreateProject, ProjectFails, OpenTemp, FillTemp, CopyFails,
        ChooseDest, DestFails, Rename, RenameFails, DropTemp, Harden, HardenFails, Lookup, Save,
        DatabaseFails, Discard, DiscardFails
  <2>2. PICK to \in InFlight \cup {"done"} : pc' = [pc EXCEPT ![i] = to]
    BY <1>2
    DEF ImportStep, FindProject, CreateProject, ProjectFails, OpenTemp, FillTemp, CopyFails,
        ChooseDest, DestFails, Rename, RenameFails, DropTemp, Harden, HardenFails, Lookup, Save,
        DatabaseFails, Discard, DiscardFails, Goto, Answer, InFlight, Holding
  <2>3. to # "idle"
    BY DEF InFlight, Holding
  <2> QED BY <2>1, <2>2, <2>3
<1>3. CASE Crash
  BY <1>3 DEF Crash
<1>4. CASE Boot \/ UNCHANGED vars
  BY <1>4 DEF Boot, vars, callVars
<1> QED BY <1>1, <1>2, <1>3, <1>4 DEF Next

\* The file an import puts down or removes is behind no revision.
LEMMA OwnFileIsUnseen ==
  ASSUME VaultInv, NEW i \in Imports, pc[i] \in Holding, NEW x,
         vault' = [vault EXCEPT ![dest[i]] = x], UNCHANGED rows
  PROVE  Readable' = Readable
<1>1. \A h \in Contents : rows[h] # None => rows[h] \in Paths /\ rows[h] # dest[i]
  BY DEF VaultInv, VaultTypeOK, Unrecorded
<1>2. \A h \in Contents : rows[h] # None => vault'[rows[h]] = vault[rows[h]]
  BY <1>1 DEF VaultInv, VaultTypeOK
<1> QED BY <1>2 DEF Readable

\* An import in flight has been asked for something and has no answer.
LEMMA Unanswered ==
  ASSUME VaultInv, NEW i \in Imports, pc[i] \in InFlight
  PROVE  /\ Asked[i] = Content(i) /\ Content(i) \in Contents /\ Content(i) # None
         /\ reply[i] = "none"
<1>1. upload[i] # None /\ reply[i] = "none" /\ Content(i) \in Contents
  BY DEF VaultInv, VaultTypeOK, Submitted, Content, InFlight, Holding
<1> QED BY <1>1, VaultNoneAssumption DEF Asked

LEMMA RefuseStep ==
  ASSUME VaultInv, NEW i \in Imports, pc[i] \in InFlight, NEW e \in Errors,
         reply' = [reply EXCEPT ![i] = e], Asked' = Asked, Readable' = Readable
  PROVE  Store!Next
<1>1. Asked[i] # None /\ reply[i] = "none"
  BY Unanswered
<1>2. Store!Refuse(i, e)
  BY <1>1 DEF Store!Refuse, Asked, Readable
<1> QED BY <1>2 DEF Store!Next

\* An answer that is a revision: the content is readable from now on.
LEMMA StoreStep ==
  ASSUME VaultInv, NEW i \in Imports, pc[i] \in InFlight,
         reply' = [reply EXCEPT ![i] = "revision"], Asked' = Asked,
         Readable' = [Readable EXCEPT ![Content(i)] = Content(i)]
  PROVE  Store!Next
<1>1. Asked[i] = Content(i) /\ Asked[i] # None /\ reply[i] = "none"
  BY Unanswered
<1>2. Readable' = [Readable EXCEPT ![Asked[i]] = Asked[i]]
  BY <1>1
<1>3. Store!Store(i)
  BY <1>1, <1>2 DEF Store!Store, Asked, Readable
<1> QED BY <1>3 DEF Store!Next

LEMMA SaveStores ==
  ASSUME VaultInv, NEW i \in Imports, Save(i)
  PROVE  Store!Next
<1>1. /\ pc[i] = "saving" /\ pc[i] \in InFlight
      /\ rows' = [rows EXCEPT ![Content(i)] = dest[i]]
      /\ reply' = [reply EXCEPT ![i] = "revision"]
      /\ UNCHANGED <<upload, vault>>
  BY DEF Save, At, Answer, fileVars, InFlight, Holding
<1>2. Content(i) \in Contents /\ dest[i] # None /\ vault[dest[i]] = Content(i)
  BY <1>1, Unanswered DEF VaultInv, VaultTypeOK, StoredCopy, Holding
<1>3. Readable' = [Readable EXCEPT ![Content(i)] = Content(i)]
  BY <1>1, <1>2 DEF Readable, VaultInv, VaultTypeOK
<1>4. Asked' = Asked
  BY <1>1 DEF Asked, Content
<1> QED BY <1>1, <1>3, <1>4, StoreStep

\* A copy that is not needed goes: the revision found is read as before.
LEMMA DiscardStores ==
  ASSUME VaultInv, NEW i \in Imports, Discard(i)
  PROVE  Store!Next
<1>1. /\ pc[i] \in Holding /\ pc[i] \in InFlight
      /\ vault' = [vault EXCEPT ![dest[i]] = None] /\ UNCHANGED <<upload, rows>>
      /\ reply' = [reply EXCEPT ![i] = IF i \in found THEN "revision" ELSE "error"]
  BY DEF Discard, At, Answer, InFlight, Holding
<1>2. Readable' = Readable
  BY <1>1, OwnFileIsUnseen
<1>3. Asked' = Asked
  BY <1>1 DEF Asked, Content
<1>4. CASE i \in found
  <2>1. Content(i) \in Contents /\ rows[Content(i)] # None
    BY <1>1, <1>4, Unanswered DEF VaultInv, FoundIsRecorded
  <2>2. Readable[Content(i)] = Content(i)
    BY <2>1 DEF Readable, VaultInv, RevisionsIntact
  <2>3. Readable' = [Readable EXCEPT ![Content(i)] = Content(i)]
    BY <1>2, <2>2 DEF Readable
  <2> QED BY <1>1, <1>3, <1>4, <2>3, StoreStep
<1>5. CASE i \notin found
  BY <1>1, <1>2, <1>3, <1>5, RefuseStep DEF Errors
<1> QED BY <1>4, <1>5

LEMMA StoreNext ==
  ASSUME VaultInv, Unasked, [Next]_vars
  PROVE  [Store!Next]_(Store!storeVars)
<1> SUFFICES Store!Next \/ (Asked' = Asked /\ reply' = reply /\ Readable' = Readable)
  BY DEF Store!storeVars, Asked, Readable
<1>1. ASSUME NEW i \in Imports, NEW h \in Contents, NEW name \in Names, Submit(i, h, name)
      PROVE  Store!Next
  <2>1. /\ upload[i] = None
        /\ upload' = [upload EXCEPT ![i] = [content |-> h, name |-> name]]
        /\ UNCHANGED <<reply, rows, vault>>
    BY <1>1 DEF Submit, At, fileVars, Unasked
  <2>2. [content |-> h, name |-> name] # None
    BY VaultNoneAssumption
  <2>3. Asked' = [Asked EXCEPT ![i] = h]
    BY <2>1, <2>2 DEF Asked, Content, VaultInv, VaultTypeOK
  <2>4. Store!Ask(i, h)
    BY <2>1, <2>3 DEF Store!Ask, Asked, Readable
  <2> QED BY <2>4 DEF Store!Next
<1>2. ASSUME NEW i \in Imports, ImportStep(i)
      PROVE  Store!Next \/ (Asked' = Asked /\ reply' = reply /\ Readable' = Readable)
  <2> USE DEF At, Goto, Answer, fileVars
  <2>1. CASE Save(i) \/ Discard(i)
    BY <2>1, SaveStores, DiscardStores
  <2>2. CASE Rename(i)
    <3>1. /\ pc[i] \in Holding /\ vault' = [vault EXCEPT ![dest[i]] = Content(i)]
          /\ UNCHANGED <<upload, reply, rows>>
      BY <2>2 DEF Rename, Holding
    <3> QED BY <3>1, OwnFileIsUnseen DEF Asked, Content
  <2>3. CASE HardenUndoes(i)
    <3>1. /\ pc[i] \in Holding /\ pc[i] \in InFlight
          /\ vault' = [vault EXCEPT ![dest[i]] = None] /\ UNCHANGED <<upload, rows>>
          /\ reply' = [reply EXCEPT ![i] = "error"]
      BY <2>3 DEF HardenUndoes, Holding, InFlight
    <3>2. Readable' = Readable /\ Asked' = Asked
      BY <3>1, OwnFileIsUnseen DEF Asked, Content
    <3> QED BY <3>1, <3>2, RefuseStep DEF Errors
  <2>4. CASE \/ ProjectFails(i) \/ CopyFails(i) \/ DestFails(i) \/ RenameFails(i)
             \/ HardenLeaves(i) \/ DiscardFails(i)
    <3>1. PICK e \in Errors :
            /\ pc[i] \in InFlight /\ reply' = [reply EXCEPT ![i] = e]
            /\ UNCHANGED <<upload, rows, vault>>
      BY <2>4
      DEF ProjectFails, CopyFails, DestFails, RenameFails, DropTemp, HardenLeaves,
          DiscardFails, Errors, InFlight, Holding
    <3>2. Readable' = Readable /\ Asked' = Asked
      BY <3>1 DEF Readable, Asked, Content
    <3> QED BY <3>1, <3>2, RefuseStep
  <2>5. CASE \/ FindProject(i) \/ CreateProject(i) \/ OpenTemp(i) \/ FillTemp(i)
             \/ ChooseDest(i) \/ Harden(i) \/ Lookup(i) \/ DatabaseFails(i)
    <3>1. UNCHANGED <<upload, reply, rows, vault>>
      BY <2>5
      DEF FindProject, CreateProject, OpenTemp, FillTemp, ChooseDest, Harden, Lookup, DatabaseFails
    <3> QED BY <3>1 DEF Readable, Asked, Content
  <2> QED BY <1>2, <2>1, <2>2, <2>3, <2>4, <2>5, HardenSplits DEF ImportStep
<1>3. CASE Crash \/ Boot \/ UNCHANGED vars
  <2>1. UNCHANGED <<upload, reply, rows, vault>>
    BY <1>3 DEF Crash, Boot, vars, callVars, fileVars
  <2> QED BY <2>1 DEF Readable, Asked, Content
<1> QED BY <1>1, <1>2, <1>3 DEF Next

\* As long as imports do not race for a name, importing is adding to a store
\* of contents under their hashes: a revision is readable for good as the
\* bytes that were imported, the same content is stored once, and an import
\* that fails has changed nothing (quick_import_source).
THEOREM ImplementsStore == ASSUME NoRace PROVE Spec => StoreSpec
<1>1. Init => Store!Init /\ Unasked
  BY DEF Init, Store!Init, Unasked
<1>2. VaultInv /\ Unasked /\ [Next]_vars => [Store!Next]_(Store!storeVars)
  BY StoreNext
<1>3. VaultInv /\ Unasked /\ [Next]_vars => Unasked'
  BY UnaskedStep DEF VaultInv
<1> QED BY <1>1, <1>2, <1>3, VaultInvAlways, PTL DEF Spec, StoreSpec, Store!Spec
=============================================================================
