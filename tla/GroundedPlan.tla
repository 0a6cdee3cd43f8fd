---------------------------- MODULE GroundedPlan ----------------------------
(***************************************************************************)
(* The plan of one grounded AI review: the stored output of a run is cut   *)
(* into prompts that fit the model's input, each prompt is one turn whose  *)
(* answer is validated against the facts of that prompt, and the validated *)
(* answers are merged, in rounds, until one last prompt holds them all     *)
(* (openconkit-tool-boq-inspector ai.rs, execute_grounded_plan and its     *)
(* helpers in commands.rs).  The turns themselves are those of AiReviews:  *)
(* here a turn fails or brings some answer.                                *)
(*                                                                         *)
(* A fact is a finding or a row; sizes are bytes of the serialized form.   *)
(***************************************************************************)
EXTENDS Integers, Sequences, SequencesExt, FiniteSets

CONSTANTS
  Scopes,      \* stored outputs: [whole, base, facts], see Fact below
  Answers,     \* what the model may say: [size, wellFormed, risks]
  MaxPrompt,   \* MAX_AI_PROMPT_BYTES
  MaxAnswers,  \* values of MAX_AI_INTERMEDIATE_OUTPUT_BYTES: one in the code
  Reserve,     \* CHUNK_FRAME_RESERVE_BYTES
  Numerals,    \* digits of the counts in a prompt beyond those of an empty one
  Frame,       \* the text of a synthesis prompt around its fragments
  MaxRisk,     \* MAX_RISK_FINDINGS
  None         \* no finding: the fact is a row

\* A fact: [finding |-> id or None, size, evidence |-> references of a finding].
\* whole is the size of the prompt with everything, base of one with no fact.

ASSUME LimitsAssumption ==
  /\ MaxPrompt \in Nat /\ MaxAnswers \subseteq Nat /\ Reserve \in Nat /\ Numerals \in Nat
  /\ Frame \in Nat /\ MaxRisk \in Nat

Facts == UNION {ToSet(s.facts) : s \in Scopes}

ASSUME ScopesAssumption == \A s \in Scopes : s.facts \in Seq(Facts)
ASSUME AnswersAssumption == \A a \in Answers : a.size \in Nat

VARIABLES
  scope,    \* the stored output
  maxAnswer, \* the bound on intermediate answers
  pc,       \* "prepare", "pack", "source", "synthesis", "partition", "reduce", "done"
  todo,     \* facts, then answers, that are not placed yet
  current,  \* the group that is being filled
  bytes,    \* estimated_bytes of that group of facts
  chunks,   \* source_chunks, as the facts of each
  planned,  \* planned_turn_count
  answers,  \* validated_outputs
  groups,   \* the groups of one round of synthesis
  next,     \* the group whose turn it is
  reduced,  \* the answers of the round
  turns,    \* completed turns (no variable of the code)
  result    \* "none", then "ok", "refused", "too_large", "grounding" or "codex"

packing == <<todo, current, bytes>>
round == <<groups, next, reduced>>
input == <<scope, maxAnswer>>
vars == <<input, pc, packing, chunks, planned, answers, round, turns, result>>

Init ==
  /\ scope \in Scopes /\ maxAnswer \in MaxAnswers
  /\ pc = "prepare" /\ result = "none"
  /\ todo = <<>> /\ current = <<>> /\ bytes = 0
  /\ chunks = <<>> /\ planned = 0
  /\ answers = <<>> /\ turns = 0
  /\ groups = <<>> /\ next = 1 /\ reduced = <<>>

End(r) == pc' = "done" /\ result' = r
Goto(step) == pc' = step /\ UNCHANGED result

-----------------------------------------------------------------------------
(* prompt_chunks, before consent is asked for                              *)

ContentLimit == MaxPrompt - Reserve

\* One turn when everything fits, else the facts are packed.
Prepare ==
  /\ pc = "prepare"
  /\ IF scope.whole <= MaxPrompt
     THEN /\ chunks' = <<scope.facts>> /\ planned' = 1
          /\ Goto("source") /\ UNCHANGED packing
     ELSE IF scope.base > ContentLimit
     THEN End("refused") /\ UNCHANGED <<packing, chunks, planned>>
     ELSE /\ todo' = scope.facts /\ bytes' = scope.base
          /\ Goto("pack") /\ UNCHANGED <<current, chunks, planned>>
  /\ UNCHANGED <<input, answers, round, turns>>

Fits(used) == used + Head(todo).size + 1 <= ContentLimit

AddFact ==
  /\ pc = "pack" /\ todo # <<>> /\ Fits(bytes)
  /\ current' = Append(current, Head(todo))
  /\ bytes' = bytes + Head(todo).size + 1
  /\ todo' = Tail(todo)
  /\ UNCHANGED <<input, pc, chunks, planned, answers, round, turns, result>>

\* Mutant: the fact that did not fit is not taken into the new chunk.
CloseChunkAndSkip ==
  /\ pc = "pack" /\ todo # <<>> /\ ~Fits(bytes)
  /\ IF current = <<>> \/ ~Fits(scope.base)
     THEN End("refused") /\ UNCHANGED <<packing, chunks>>
     ELSE /\ chunks' = Append(chunks, current)
          /\ current' = <<>> /\ bytes' = scope.base /\ todo' = Tail(todo)
          /\ UNCHANGED <<pc, result>>
  /\ UNCHANGED <<input, planned, answers, round, turns>>

\* The current chunk is full: it is closed, and the fact starts a new one.
CloseChunk ==
  /\ pc = "pack" /\ todo # <<>> /\ ~Fits(bytes)
  /\ IF current = <<>> \/ ~Fits(scope.base)
     THEN End("refused") /\ UNCHANGED <<packing, chunks>>
     ELSE /\ chunks' = Append(chunks, current)
          /\ current' = <<Head(todo)>>
          /\ bytes' = scope.base + Head(todo).size + 1
          /\ todo' = Tail(todo)
          /\ UNCHANGED <<pc, result>>
  /\ UNCHANGED <<input, planned, answers, round, turns>>

Packed == IF current # <<>> \/ chunks = <<>> THEN Append(chunks, current) ELSE chunks

\* render_chunk_prompt: the facts with a comma between them.
PromptSize(facts) ==
  scope.base + FoldLeft(LAMBDA n, f : n + f.size, 0, facts)
  + (IF facts = <<>> THEN 0 ELSE Len(facts) - 1) + Numerals

\* The size that was estimated is checked once the prompts are there.
EndPacking ==
  /\ pc = "pack" /\ todo = <<>>
  /\ current' = <<>> /\ UNCHANGED <<todo, bytes>>
  /\ IF \A i \in DOMAIN Packed : PromptSize(Packed[i]) <= MaxPrompt
     THEN /\ chunks' = Packed
          /\ planned' = IF Len(Packed) > 1 THEN Len(Packed) + 1 ELSE 1
          /\ Goto("source")
     ELSE End("refused") /\ UNCHANGED <<chunks, planned>>
  /\ UNCHANGED <<input, answers, round, turns>>

-----------------------------------------------------------------------------
(* validate_review: an answer against the facts it may speak of            *)

FindingsOf(facts) == {f \in ToSet(facts) : f.finding # None}
Evidence(facts, ids) == UNION {f.evidence : f \in {g \in FindingsOf(facts) : g.finding \in ids}}
Distinct(seq) == Cardinality(ToSet(seq)) = Len(seq)

\* Each risk names findings that are there, no finding is named twice, and
\* the references of a risk belong to the findings it names.
Grounded(facts, answer) ==
  LET risks == answer.risks
  IN /\ answer.wellFormed
     /\ Distinct(FlattenSeq([i \in DOMAIN risks |-> risks[i].ids]))
     /\ \A i \in DOMAIN risks :
          /\ Len(risks[i].ids) \in 1 .. MaxRisk
          /\ ToSet(risks[i].ids) \subseteq {f.finding : f \in FindingsOf(facts)}
          /\ Distinct(risks[i].refs)
          /\ ToSet(risks[i].refs) \subseteq Evidence(facts, ToSet(risks[i].ids))

\* Mutant: require_bounded_intermediate is not called.
BoundedByModel(answer) == answer.size >= 0

Bounded(answer) == answer.size <= maxAnswer

-----------------------------------------------------------------------------
(* execute_grounded_plan                                                   *)

Chunked == Len(chunks) > 1

\* A turn fails: the connection, the model, the time limit or a cancellation.
TurnFails ==
  /\ pc \in {"source", "synthesis", "reduce"}
  /\ End("codex")
  /\ UNCHANGED <<input, packing, chunks, planned, answers, round, turns>>

SourceTurn(answer) ==
  /\ pc = "source"
  /\ turns' = turns + 1
  /\ IF ~Grounded(chunks[Len(answers) + 1], answer) THEN End("grounding") /\ UNCHANGED answers
     ELSE IF ~Chunked THEN End("ok") /\ UNCHANGED answers
     ELSE IF ~Bounded(answer) THEN End("grounding") /\ UNCHANGED answers
     ELSE /\ answers' = Append(answers, answer)
          /\ Goto(IF Len(answers) + 1 = Len(chunks) THEN "synthesis" ELSE "source")
  /\ UNCHANGED <<input, packing, chunks, planned, round>>

\* synthesis_prompt: the size of the prompt that merges the fragments.
SynthesisSize(fragments) ==
  Frame + Len(fragments) + FoldLeft(LAMBDA n, a : n + a.size, 0, fragments)
OnePrompt(fragments) == SynthesisSize(fragments) <= MaxPrompt

LastTurn(answer) ==
  /\ pc = "synthesis" /\ OnePrompt(answers)
  /\ turns' = turns + 1
  /\ End(IF Grounded(scope.facts, answer) THEN "ok" ELSE "grounding")
  /\ UNCHANGED <<input, packing, chunks, planned, answers, round>>

\* partition_synthesis_outputs, one answer at a time.
StartRound ==
  /\ pc = "synthesis" /\ ~OnePrompt(answers)
  /\ todo' = answers /\ current' = <<>> /\ groups' = <<>>
  /\ Goto("partition")
  /\ UNCHANGED <<input, bytes, chunks, planned, answers, next, reduced, turns>>

AddAnswer ==
  /\ pc = "partition" /\ todo # <<>>
  /\ OnePrompt(Append(current, Head(todo)))
  /\ current' = Append(current, Head(todo))
  /\ todo' = Tail(todo)
  /\ UNCHANGED <<input, pc, bytes, chunks, planned, answers, round, turns, result>>

CloseGroup ==
  /\ pc = "partition" /\ todo # <<>>
  /\ ~OnePrompt(Append(current, Head(todo)))
  /\ IF current = <<>> \/ ~OnePrompt(<<Head(todo)>>)
     THEN End("too_large") /\ UNCHANGED <<packing, groups>>
     ELSE /\ groups' = Append(groups, current)
          /\ current' = <<Head(todo)>> /\ todo' = Tail(todo)
          /\ UNCHANGED <<pc, bytes, result>>
  /\ UNCHANGED <<input, chunks, planned, answers, next, reduced, turns>>

AllGroups == IF current # <<>> THEN Append(groups, current) ELSE groups

\* Mutant: a round is started although it cannot make the answers fewer.
EndPartitionAnyway ==
  /\ pc = "partition" /\ todo = <<>>
  /\ groups' = AllGroups /\ next' = 1 /\ reduced' = <<>>
  /\ Goto("reduce")
  /\ UNCHANGED <<input, packing, chunks, planned, answers, turns>>

EndPartition ==
  /\ pc = "partition" /\ todo = <<>>
  /\ IF Len(AllGroups) >= Len(answers)
     THEN End("too_large") /\ UNCHANGED round
     ELSE /\ groups' = AllGroups /\ next' = 1 /\ reduced' = <<>>
          /\ Goto("reduce")
  /\ UNCHANGED <<input, packing, chunks, planned, answers, turns>>

\* A group of one is taken over as it is.
KeepAnswer ==
  /\ pc = "reduce" /\ next <= Len(groups) /\ Len(groups[next]) = 1
  /\ reduced' = Append(reduced, groups[next][1])
  /\ next' = next + 1
  /\ UNCHANGED <<input, pc, packing, chunks, planned, answers, groups, turns, result>>

\* Mutant: a group of one is merged as well.
MergeAnyTurn(answer) ==
  /\ pc = "reduce" /\ next <= Len(groups)
  /\ turns' = turns + 1
  /\ IF Grounded(scope.facts, answer) /\ Bounded(answer)
     THEN /\ reduced' = Append(reduced, answer) /\ next' = next + 1
          /\ UNCHANGED <<pc, result>>
     ELSE End("grounding") /\ UNCHANGED <<reduced, next>>
  /\ UNCHANGED <<input, packing, chunks, planned, answers, groups>>

\* The fragments of a group become one, validated against the whole output.
MergeTurn(answer) ==
  /\ pc = "reduce" /\ next <= Len(groups) /\ Len(groups[next]) # 1
  /\ turns' = turns + 1
  /\ IF Grounded(scope.facts, answer) /\ Bounded(answer)
     THEN /\ reduced' = Append(reduced, answer) /\ next' = next + 1
          /\ UNCHANGED <<pc, result>>
     ELSE End("grounding") /\ UNCHANGED <<reduced, next>>
  /\ UNCHANGED <<input, packing, chunks, planned, answers, groups>>

EndRound ==
  /\ pc = "reduce" /\ next > Len(groups)
  /\ answers' = reduced
  /\ Goto("synthesis")
  /\ UNCHANGED <<input, packing, chunks, planned, round, turns>>

Turn == \E answer \in Answers : SourceTurn(answer) \/ LastTurn(answer) \/ MergeTurn(answer)

Step ==
  \/ Prepare \/ AddFact \/ CloseChunk \/ EndPacking
  \/ Turn \/ TurnFails
  \/ StartRound \/ AddAnswer \/ CloseGroup \/ EndPartition \/ KeepAnswer \/ EndRound

\* The review is over.
Rest == pc = "done" /\ UNCHANGED vars

Next == Step \/ Rest

\* A turn ends, if only by its time limit, and the host goes on.
Spec == Init /\ [][Next]_vars /\ WF_vars(Step)

-----------------------------------------------------------------------------
(* Properties                                                              *)

\* Every finding and every row is in exactly one prompt, in its order, as long
\* as chunks are made and ever after: no fact falls between two chunks.
EveryFactOnce ==
  LET placed == FlattenSeq(chunks)
  IN /\ pc = "pack" => placed \o current \o todo = scope.facts
     /\ pc \in {"source", "synthesis", "partition", "reduce"} => placed = scope.facts

\* However the answers are merged, a review takes at most two turns for each
\* prompt, and one that succeeds never takes fewer than the user was told.
TurnsAreBounded ==
  /\ turns <= 2 * Len(chunks)
  /\ result = "ok" => planned <= turns

\* When the model may answer with no more than half of a prompt, the merging of
\* answers never gets stuck: what is too large is refused before the first
\* turn, when it has cost nothing.
TooLargeIsKnownEarly ==
  Frame + 2 * maxAnswer + 2 <= MaxPrompt => result # "too_large"

\* Every review ends, whatever the model answers.
ReviewEnds == <>(pc = "done")
=============================================================================
