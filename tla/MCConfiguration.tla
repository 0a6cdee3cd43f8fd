-------------------------- MODULE MCConfiguration --------------------------
(* Small instances of Configuration.                                       *)
EXTENDS Configuration, TLC

CONSTANTS p1, p2, k1, k2, n1, light, dark, codex, other

NoFaults == {}
AllFaults == ConfigFaultKinds
GarbledFiles == {"garble"}

MCAmounts == {-1, 0, 1}
MCPrecisions == {2, 6, 7}

Unset == [channel |-> Missing, check |-> Missing, theme |-> Missing, tolerances |-> Missing,
          privacy |-> Missing, advanced |-> Missing]

ToBeta == [Unset EXCEPT !.channel = Value("beta")]
Override(use, binary) ==
  [Unset EXCEPT !.advanced = Value([use |-> use, binary |-> binary])]
Rounding(absolute, precision) ==
  [Unset EXCEPT !.tolerances = Value([absolute |-> absolute, precision |-> precision])]

ChannelsOnly == {ToBeta, [ToBeta EXCEPT !.channel = Value("stable")]}
\* Patches that set one to three groups, with values to cut and to refuse.
MCRequests ==
  {ToBeta, [Rounding(0, 7) EXCEPT !.check = Value(1)], Rounding(-1, 2),
   [Override(TRUE, codex) EXCEPT !.theme = Value(dark), !.privacy = Value([ai |-> TRUE])],
   Override(TRUE, None), Override(FALSE, other)}

MCTolerancesEdits ==
  {Invalid, Value([absolute |-> Value(-1), precision |-> Value(6)]),
   Value([absolute |-> Value(0), precision |-> Value(7)]),
   Value([absolute |-> Missing, precision |-> Value(6)])}
MCAdvancedEdits ==
  {Missing, Value([use |-> Value(TRUE), binary |-> Invalid]),
   Value([use |-> Invalid, binary |-> Value(codex)])}
=============================================================================
