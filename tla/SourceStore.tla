---------------------------- MODULE SourceStore ----------------------------
(***************************************************************************)
(* What importing a workbook promises: a store of contents, each under its *)
(* hash, that is only added to.  An import asks once and is answered once, *)
(* at the latest when the process dies.  Answered with a revision, it can  *)
(* be read for good and gives the bytes that were imported; answered with  *)
(* an error, nothing has changed for any reader, whatever the import has   *)
(* done and undone on disk.  SourceVault implements this store as long as  *)
(* imports do not race for a name.                                         *)
(***************************************************************************)

CONSTANTS
  Imports,  \* invocations of quick_import_source
  Contents, \* workbook contents, one to a hash
  Errors,   \* what an import may answer instead of a revision
  None

VARIABLES
  asked,    \* import -> the content it was given
  answer,   \* import -> "none", "revision" or one of Errors
  readable  \* content -> what reading its revision gives

storeVars == <<asked, answer, readable>>

Init ==
  /\ asked = [i \in Imports |-> None]
  /\ answer = [i \in Imports |-> "none"]
  /\ readable = [h \in Contents |-> None]

Ask(i, h) ==
  /\ asked[i] = None
  /\ asked' = [asked EXCEPT ![i] = h]
  /\ UNCHANGED <<answer, readable>>

\* A content is stored once; the next import of it gets the same revision.
Store(i) ==
  /\ asked[i] # None /\ answer[i] = "none"
  /\ answer' = [answer EXCEPT ![i] = "revision"]
  /\ readable' = [readable EXCEPT ![asked[i]] = asked[i]]
  /\ UNCHANGED asked

Refuse(i, e) ==
  /\ asked[i] # None /\ answer[i] = "none"
  /\ answer' = [answer EXCEPT ![i] = e]
  /\ UNCHANGED <<asked, readable>>

Next ==
  \/ \E i \in Imports, h \in Contents : Ask(i, h)
  \/ \E i \in Imports : Store(i)
  \/ \E i \in Imports, e \in Errors : Refuse(i, e)

Spec == Init /\ [][Next]_storeVars
=============================================================================
