---------------------------- MODULE ResearchLoop ----------------------------
(***************************************************************************)
(* One run of the research agent: generations of peers that answer         *)
(* concurrently, a deterministic evaluation of their evidence, and a       *)
(* synthesis that is final once the evidence suffices or the generation    *)
(* budget is spent. A peer's contribution is reduced to what evaluation    *)
(* reads: how many evidence items, and how confident (in percent).         *)
(***************************************************************************)
EXTENDS Integers, Sequences, FiniteSets, Functions

CONSTANTS
  Personas,           \* the personas selected for this run
  MaxGenerations,     \* rules.research.max_generations
  MinEvidence,        \* rules.research.min_evidence_per_peer
  Threshold,          \* rules.research.consensus_threshold, in thousandths
  EvidenceWeight,     \* rules.research.scoring weights, in tenths
  CalibrationWeight,
  EvidenceCounts,     \* bound: how many evidence items a peer may give
  Confidences         \* bound: how confident it may be, in percent

ASSUME ResearchAssumption ==
  /\ IsFiniteSet(Personas)
  /\ MaxGenerations \in Nat
  /\ MinEvidence \in Nat
  /\ Threshold \in 0..1000
  /\ EvidenceWeight \in 0..10
  /\ CalibrationWeight = 10 - EvidenceWeight
  /\ EvidenceCounts \subseteq 0..6
  /\ Confidences \subseteq 0..100

VARIABLES
  pc,           \* the node to run next, "done" or "failed"
  answers,      \* [Personas -> contribution]: the gathered or gathering peers
  generation,   \* GraphState.generation
  brief,        \* which brief the last generation of peers analysed
  nextBrief,    \* GraphState.next_brief
  quality,      \* GraphState.research_quality, times 1000 * number of peers
  ready,        \* GraphState.research_ready
  synthesis,    \* GraphState.synthesis
  consensus     \* Seq(BOOLEAN): what evaluate_evidence found, per generation

vars == <<pc, answers, generation, brief, nextBrief, quality, ready, synthesis, consensus>>

Contribution ==
  [from : {"nobody", "peer", "failure"}, evidence : 0..6, confidence : 0..100]

Waiting == [from |-> "nobody", evidence |-> 0, confidence |-> 0]

(* What a peer whose call or answer failed contributes. *)
FailedPeer == [from |-> "failure", evidence |-> 0, confidence |-> 50]

(* The state has the shape of GraphState; the quality is a mean of scores
   between 0 and 1, and the budget bounds the generations. *)
TypeOK ==
  /\ pc \in {"parallel_peers", "evaluate_evidence", "synthesize", "log_decision",
             "done", "failed"}
  /\ answers \in [Personas -> Contribution]
  /\ generation \in 0..(IF MaxGenerations = 0 THEN 1 ELSE MaxGenerations)
  /\ brief \in {"query", "refined"}
  /\ nextBrief \in {"none", "query", "refined"}
  /\ quality \in 0..(1000 * Cardinality(Personas))
  /\ ready \in BOOLEAN
  /\ synthesis \in {"none", "interim", "final"}
  /\ consensus \in Seq(BOOLEAN)

NobodyYet == [p \in Personas |-> Waiting]

Init ==
  /\ pc = "parallel_peers"
  /\ answers = NobodyYet
  /\ generation = 0
  /\ brief = "query"
  /\ nextBrief = "none"
  /\ quality = 0
  /\ ready = FALSE
  /\ synthesis = "none"
  /\ consensus = <<>>

-----------------------------------------------------------------------------
(* Scoring, in percent and thousandths. *)

(* Four pieces of evidence are full strength. *)
Strength(n) == IF n >= 4 THEN 100 ELSE 25 * n

Distance(a, b) == IF a >= b THEN a - b ELSE b - a

(* Evidence strength, and how well the claimed confidence is calibrated to it. *)
Score(c) ==
  EvidenceWeight * Strength(c.evidence)
    + CalibrationWeight * (100 - Distance(c.confidence, Strength(c.evidence)))

Quality(ans) == FoldFunction(+, 0, [p \in Personas |-> Score(ans[p])])

(* Mutant: the evidence of each single peer is not asked for. *)
MutConsensus(ans) ==
  /\ Personas # {}
  /\ Quality(ans) >= Threshold * Cardinality(Personas)

(* Consensus: the mean score reaches the threshold, and no peer stays below the
   minimum evidence. *)
Consensus(ans) ==
  /\ Personas # {}
  /\ Quality(ans) >= Threshold * Cardinality(Personas)
  /\ \A p \in Personas : ans[p].evidence >= MinEvidence

(* Mutant: the last generation the budget allows still gives an interim text. *)
MutForcedStop(gen) == gen > MaxGenerations

(* The budget as synthesize sees it ... *)
ForcedStop(gen) == gen >= MaxGenerations

(* Mutant: the router looks at the budget only. *)
MutNextNode(rdy, gen) ==
  IF gen >= MaxGenerations THEN "log_decision" ELSE "parallel_peers"

(* Mutant: the conditional edge leads back to the synthesis. *)
MutWrongEdge(rdy, gen) ==
  IF rdy \/ gen >= MaxGenerations THEN "log_decision" ELSE "synthesize"

(* ... and as _next_gen_or_stop sees it. *)
NextNode(rdy, gen) ==
  IF rdy \/ gen >= MaxGenerations THEN "log_decision" ELSE "parallel_peers"

-----------------------------------------------------------------------------
(* A peer answers, in whatever order the concurrent calls return. *)
PeerAnswers(p) ==
  /\ pc = "parallel_peers"
  /\ answers[p] = Waiting
  /\ \E n \in EvidenceCounts, c \in Confidences :
       answers' = [answers EXCEPT ![p] = [from |-> "peer", evidence |-> n, confidence |-> c]]
  /\ UNCHANGED <<pc, generation, brief, nextBrief, quality, ready, synthesis, consensus>>

(* A failing peer degrades to an empty contribution of middling confidence. *)
PeerFails(p) ==
  /\ pc = "parallel_peers"
  /\ answers[p] = Waiting
  /\ answers' = [answers EXCEPT ![p] = FailedPeer]
  /\ UNCHANGED <<pc, generation, brief, nextBrief, quality, ready, synthesis, consensus>>

(* asyncio.gather returns when all have: the node writes back the brief it had
   been given, GraphState.brief or the query. *)
GatherPeers ==
  /\ pc = "parallel_peers"
  /\ \A p \in Personas : answers[p] # Waiting
  /\ generation' = generation + 1
  /\ brief' = brief
  /\ pc' = "evaluate_evidence"
  /\ UNCHANGED <<answers, nextBrief, quality, ready, synthesis, consensus>>

EvaluateEvidence ==
  /\ pc = "evaluate_evidence"
  /\ quality' = Quality(answers)
  /\ ready' = Consensus(answers)
  /\ consensus' = Append(consensus, Consensus(answers))
  /\ pc' = "synthesize"
  /\ UNCHANGED <<answers, generation, brief, nextBrief, synthesis>>

(* The final answer, or an interim one with a refined brief (the query again if
   the model gave none); then the router decides. *)
Synthesize ==
  LET stop == ready \/ ForcedStop(generation) IN
  /\ pc = "synthesize"
  /\ ready' = stop
  /\ synthesis' = IF stop THEN "final" ELSE "interim"
  /\ nextBrief' \in IF stop THEN {"none"} ELSE {"query", "refined"}
  /\ pc' = NextNode(stop, generation)
  /\ answers' = IF pc' = "parallel_peers" THEN NobodyYet ELSE answers
  /\ UNCHANGED <<generation, brief, quality, consensus>>

LogDecision ==
  /\ pc = "log_decision"
  /\ pc' = "done"
  /\ UNCHANGED <<answers, generation, brief, nextBrief, quality, ready, synthesis, consensus>>

(* A template is missing, or the one call of synthesize fails: nothing degrades
   here, and run_agent_graph reports the run as failed. *)
NodeRaises ==
  /\ pc \in {"parallel_peers", "synthesize"}
  /\ pc' = "failed"
  /\ UNCHANGED <<answers, generation, brief, nextBrief, quality, ready, synthesis, consensus>>

Next ==
  \/ \E p \in Personas : PeerAnswers(p) \/ PeerFails(p)
  \/ GatherPeers \/ EvaluateEvidence \/ Synthesize \/ LogDecision
  \/ NodeRaises

Spec == Init /\ [][Next]_vars

(* Every call of a peer or of the synthesis ends or raises (timeouts of the
   LiteLLM client), and LangGraph runs the next node when the last returned. *)
FairSpec == Spec /\ WF_vars(Next)

-----------------------------------------------------------------------------
(* The answer reported is never an interim synthesis: the two tests of the
   budget, in synthesize and in the router, agree for every budget. *)
FinalAnswerOnly ==
  pc \in {"log_decision", "done"} => synthesis = "final" /\ nextBrief = "none"

(* The loop stops at the first generation that reaches consensus, and without
   consensus only when the budget is spent. *)
StopsAtConsensus ==
  /\ \A g \in 1..(Len(consensus) - 1) : ~consensus[g]
  /\ pc \in {"log_decision", "done"} =>
       consensus[Len(consensus)] \/ generation >= MaxGenerations

(* With a minimum of evidence asked for, a peer that failed is never part of a
   consensus, however well the others did: the mean alone would let it pass. *)
FailedPeerBlocksConsensus ==
  /\ MinEvidence > 0
  /\ pc \in {"synthesize", "log_decision", "done"}
  /\ \E p \in Personas : answers[p].from = "failure"
  => ~consensus[Len(consensus)]

(* Every run ends. *)
Terminates == <>(pc \in {"done", "failed"})

(* "each generation gets a refined brief": the peers of a later generation work
   on the brief the synthesis before them asked for. *)
RefinedBriefIsRead ==
  pc = "evaluate_evidence" /\ generation > 1 => brief = nextBrief
=============================================================================
