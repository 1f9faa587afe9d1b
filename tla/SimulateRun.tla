------------------------------ MODULE SimulateRun ------------------------------
(***************************************************************************)
(* One run of the simulate agent: drafts are written concurrently, every   *)
(* persona reacts to every draft concurrently, the scores pick a winner,   *)
(* and the runner writes the row of the run (graphs/simulate_graph.py).    *)
(* A call of the LLM is open until it answers or its client gives up; the  *)
(* calls of a run that failed go on.                                       *)
(***************************************************************************)
EXTENDS VariantScores, SequencesExt

CONSTANTS
  Personas,      \* files under context/personas/simulate
  PersonaLimit,  \* rules.simulate.persona_count; 0 means all
  VariantCounts, \* what rules.simulate.variant_count may be
  Intensities,   \* bound: the intensities the LLM may give
  Faults         \* what may go wrong: "llm", "render" (a prompt template), "db"

SimulateAssumption ==
  /\ IsFiniteSet(Personas) /\ PersonaLimit \in Nat
  /\ VariantCounts \subseteq Nat /\ Intensities \subseteq 1..5
  /\ Faults \subseteq {"llm", "render", "db"}

VARIABLES
  pc,         \* the next node, or how the run ended
  personas,   \* GraphState.personas
  drafts,     \* draft_one per draft
  reactions,  \* react per draft and persona
  records,    \* usage_records of the node that runs
  usage,      \* GraphState.usage
  ranking,    \* GraphState.scores: the drafts, the best first
  winner,     \* GraphState.winner: a draft, or 0
  row         \* the DecisionLog row

vars == <<pc, personas, drafts, reactions, records, usage, ranking, winner, row>>

Max1(n) == IF n < 1 THEN 1 ELSE n
NoRow == [status |-> "none", calls |-> 0, score |-> 0]
Open == [stance |-> "open"]
IsOpen(d, p) == reactions[d][p] = Open

TypeOK ==
  /\ pc \in {"spawn", "draft", "react", "score", "pick", "log", "failing", "done", "failed"}
  /\ personas \subseteq Personas
  /\ drafts \in Seq({"open", "answered", "failed"})
  /\ reactions \in Seq(UNION {[P -> Reaction \cup {Open}] : P \in SUBSET Personas})
  /\ records \in Nat /\ usage \in Nat
  /\ ranking \in Seq(DOMAIN drafts) /\ winner \in {0} \cup DOMAIN drafts
  /\ row \in [status : {"none", "succeeded", "failed"}, calls : Nat, score : 0..10000]

Init ==
  /\ pc = "spawn" /\ personas = {} /\ drafts = <<>> /\ reactions = <<>>
  /\ records = 0 /\ usage = 0 /\ ranking = <<>> /\ winner = 0 /\ row = NoRow

-----------------------------------------------------------------------------
Selected(available) == IF PersonaLimit > 0 /\ PersonaLimit < available THEN PersonaLimit ELSE available

(* Any of the personas may exist; the first of them by file name are taken.
   Then one draft at least is asked for. *)
SpawnPersonas ==
  /\ pc = "spawn"
  /\ \E available, chosen \in SUBSET Personas, count \in VariantCounts :
       /\ chosen \subseteq available
       /\ Cardinality(chosen) = Selected(Cardinality(available))
       /\ personas' = chosen
       /\ drafts' = [d \in 1..Max1(count) |-> "open"]
  /\ pc' = "draft"
  /\ UNCHANGED <<reactions, records, usage, ranking, winner, row>>

(* The answer of a call that nobody waits for any more is dropped with the
   list it is counted in. *)
DraftAnswers(d) ==
  /\ drafts[d] = "open"
  /\ drafts' = [drafts EXCEPT ![d] = "answered"]
  /\ records' = records + 1
  /\ UNCHANGED <<pc, personas, reactions, usage, ranking, winner, row>>

(* Mutant: every failure is reported to the run, not the first only. *)
MutDraftFails(d) ==
  /\ "llm" \in Faults
  /\ drafts[d] = "open"
  /\ drafts' = [drafts EXCEPT ![d] = "failed"]
  /\ pc' = "failing"
  /\ UNCHANGED <<personas, reactions, records, usage, ranking, winner, row>>

(* The first failure fails gather, and with it the graph. *)
DraftFails(d) ==
  /\ "llm" \in Faults
  /\ drafts[d] = "open"
  /\ drafts' = [drafts EXCEPT ![d] = "failed"]
  /\ pc' = IF pc = "draft" THEN "failing" ELSE pc
  /\ UNCHANGED <<personas, reactions, records, usage, ranking, winner, row>>

AllDrafted == \A d \in DOMAIN drafts : drafts[d] = "answered"

(* Mutant: the state keeps the usage of the last node only. *)
MutSpend == usage' = records

(* The reducer of GraphState.usage appends what the node returns. *)
Spend == usage' = usage + records

JoinDrafts ==
  /\ pc = "draft" /\ AllDrafted
  /\ pc' = "react"
  /\ Spend /\ records' = 0
  /\ reactions' = [d \in DOMAIN drafts |-> [p \in personas |-> Open]]
  /\ UNCHANGED <<personas, drafts, ranking, winner, row>>

React(d, p, reaction) == reactions' = [reactions EXCEPT ![d][p] = reaction]

(* A stance and an intensity, each of which has a default when it is not one;
   the call is paid for before the answer is parsed. *)
ReactionAnswers(d, p) ==
  /\ IsOpen(d, p)
  /\ \E stance \in Stances, i \in Intensities : React(d, p, [stance |-> stance, intensity |-> i])
  /\ records' = records + 1
  /\ UNCHANGED <<pc, personas, drafts, usage, ranking, winner, row>>

ReactionFails(d, p) ==
  /\ "llm" \in Faults
  /\ IsOpen(d, p)
  /\ React(d, p, NeutralReaction)
  /\ UNCHANGED <<pc, personas, drafts, records, usage, ranking, winner, row>>

Pairs == (DOMAIN reactions) \X personas

(* The prompt is rendered outside of react's try: a persona without a field of
   the template raises in gather before any of its siblings has its answer. The
   calls of those are made. *)
ReactionPromptRaises ==
  /\ "render" \in Faults
  /\ pc = "react" /\ Pairs # {}
  /\ \A q \in Pairs : IsOpen(q[1], q[2])
  /\ \E p \in personas :
       reactions' = [d \in DOMAIN reactions |-> [reactions[d] EXCEPT ![p] = NeutralReaction]]
  /\ pc' = "failing"
  /\ UNCHANGED <<personas, drafts, records, usage, ranking, winner, row>>

JoinReactions ==
  /\ pc = "react"
  /\ \A q \in Pairs : ~IsOpen(q[1], q[2])
  /\ pc' = "score"
  /\ Spend /\ records' = 0
  /\ UNCHANGED <<personas, drafts, reactions, ranking, winner, row>>

Scores == [d \in DOMAIN reactions |-> ScoreVariant(reactions[d])]

ScoreVariants ==
  /\ pc = "score"
  /\ ranking' = Ranking(Scores)
  /\ pc' = "pick"
  /\ UNCHANGED <<personas, drafts, reactions, records, usage, winner, row>>

PickWinner ==
  /\ pc = "pick"
  /\ winner' = IF ranking = <<>> THEN 0 ELSE ranking[1]
  /\ pc' = "log"
  /\ UNCHANGED <<personas, drafts, reactions, records, usage, ranking, row>>

(* persist_decision_log; a commit that fails is rolled back and only logged. *)
WriteRow(r) == row' = r \/ ("db" \in Faults /\ row' = row)

LogDecision ==
  /\ pc = "log"
  /\ WriteRow([status |-> "succeeded", calls |-> usage,
               score |-> IF winner = 0 THEN 0 ELSE Scores[winner]])
  /\ pc' = "done"
  /\ UNCHANGED <<personas, drafts, reactions, records, usage, ranking, winner>>

(* A failed run has no decision record: its row counts no calls. *)
LogFailure ==
  /\ pc = "failing"
  /\ WriteRow([status |-> "failed", calls |-> 0, score |-> 0])
  /\ pc' = "failed"
  /\ UNCHANGED <<personas, drafts, reactions, records, usage, ranking, winner>>

Call ==
  \/ \E d \in DOMAIN drafts : DraftAnswers(d) \/ DraftFails(d)
  \/ \E q \in Pairs : ReactionAnswers(q[1], q[2]) \/ ReactionFails(q[1], q[2])

Node ==
  \/ SpawnPersonas \/ JoinDrafts \/ JoinReactions \/ ScoreVariants \/ PickWinner
  \/ LogDecision \/ LogFailure

Next == Call \/ ReactionPromptRaises \/ Node

Spec == Init /\ [][Next]_vars

(* The event loop runs what is ready, and the client of the LLM answers or
   gives up on every call: LlmClient!Ends. *)
FairSpec == Spec /\ WF_vars(Node) /\ WF_vars(Call)

-----------------------------------------------------------------------------
(* The row of a run that succeeded counts every call that was answered, also
   of a reaction that could not be parsed; none is still open. *)
Answered == Cardinality({d \in DOMAIN drafts : drafts[d] = "answered"})

RowCountsCalls ==
  row.status = "succeeded" =>
    /\ \A q \in Pairs : ~IsOpen(q[1], q[2])
    /\ Answered = Len(drafts)
    /\ IF "llm" \in Faults THEN row.calls \in Answered..(Answered + Cardinality(Pairs))
                           ELSE row.calls = Answered + Cardinality(Pairs)

(* A draft that every one of up to four personas supports is not beaten by one
   that some persona does not support, however strongly the others feel. *)
UnanimityWins ==
  winner # 0 /\ Cardinality(personas) \in 1..4 =>
    \A d \in DOMAIN reactions :
      Of("support", reactions[d]) = personas => Of("support", reactions[winner]) = personas

(* A draft does not win over one with no less support, no more opposition and
   no less intensity that is better in support or opposition, unless both are
   at the bottom of the scale, where the order of the drafts decides. *)
BeatenNeverWins ==
  winner # 0 => \A d \in DOMAIN reactions :
    LET mine == reactions[winner]
        other == reactions[d]
        Num(stance, r) == Cardinality(Of(stance, r))
    IN ~ /\ ScoreVariant(other) > 0
         /\ Intensity(other) >= Intensity(mine)
         /\ Num("support", other) >= Num("support", mine)
         /\ Num("oppose", other) =< Num("oppose", mine)
         /\ \/ Num("support", other) > Num("support", mine)
            \/ Num("oppose", other) < Num("oppose", mine)

(* The calls that a failed draft leaves behind answer late: none of them brings
   the run back or touches what it recorded. *)
LateAnswersChangeNothing ==
  [][ /\ pc \in {"failing", "failed", "done"} =>
           pc' \in {pc, "failed"} /\ UNCHANGED <<usage, ranking, winner>>
      /\ row' # row => pc' = (IF row'.status = "succeeded" THEN "done" ELSE "failed")]_vars

(* A run ends, and not before every call of it has. *)
RunEnds ==
  <>[](/\ pc \in {"done", "failed"}
       /\ "open" \notin ToSet(drafts) /\ \A q \in Pairs : ~IsOpen(q[1], q[2]))
=============================================================================
