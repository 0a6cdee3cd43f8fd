--------------------------- MODULE MCSourceVault ---------------------------
(* Small instances of SourceVault.                                         *)
EXTENDS SourceVault, TLC

CONSTANTS i1, i2, i3, h1, h2, n1, n2, n3

\* Users import what they like, and again, under the same names.
AnyUploads == Imports \X Contents \X Names

\* Two imports contend for the same names, a third brings a name of its own.
MixedUploads == {i1, i2, i3} \X Contents \X {n1, n2} \cup {i3} \X Contents \X {n3}

\* Both hashes share the two digits that name their directory.
SharedPrefix == [h \in Contents |-> "p"]

\* a, a-2 for one name and a-2, a-2-2 for a file that arrives as a-2: they
\* share a candidate, and a third import can find every candidate taken.  The
\* third name meets neither.
SharedCandidates == [n \in Names |->
  CASE n = n1 -> <<"a", "a-2">> [] n = n2 -> <<"a-2", "a-2-2">> [] n = n3 -> <<"b">>]

NoFaults == {}
AllFaults == FaultKinds
=============================================================================
