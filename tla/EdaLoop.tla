------------------------------ MODULE EdaLoop ------------------------------
(***************************************************************************)
(* One run of the iterative analysis agent (mode "eda"): the nodes of      *)
(* graphs/eda_graph.py, one action each, over the AnalysisState they pass  *)
(* along. What the LLM answers is a choice: how many hypotheses the plan   *)
(* holds, whether it wants web research, and each verdict. What a query    *)
(* returns is left out, because no routing decision reads it.              *)
(***************************************************************************)
EXTENDS Naturals, Sequences

CONSTANTS
  MaxIterations,  \* AnalysisState.max_iterations (5 unless overridden)
  MaxPlanned      \* bound: initial hypotheses in a plan

ASSUME EdaAssumption ==
  /\ MaxIterations \in Nat \ {0}
  /\ MaxPlanned \in Nat \ {0}

VARIABLES
  pc,          \* the node to run next, "done" or "failed"
  hypotheses,  \* Seq(status): AnalysisState.hypotheses, hK is at index K
  queries,     \* Seq of query records: AnalysisState.queries
  iteration,   \* AnalysisState.current_iteration
  needsWeb,    \* AnalysisState.needs_web_research
  searches,    \* number of AnalysisState.web_searches
  fused,       \* is AnalysisState.fused_context set
  reason,      \* the case of decide_next_step that set analysis_complete
  steps        \* nodes run so far

vars == <<pc, hypotheses, queries, iteration, needsWeb, searches, fused, reason, steps>>

Verdicts == {"supported", "rejected", "refined", "insufficient_evidence"}
HypothesisStatus == Verdicts \cup {"pending"}

(* hyp is the number of the hypothesis the query serves, 0 for none. *)
QueryRecord == [hyp : Nat, executed : BOOLEAN]

Nodes == {"load_context", "plan_analysis", "generate_eda_sql", "execute_eda_sql",
          "evaluate_hypothesis", "decide_next_step", "perform_web_research",
          "fuse_context", "generate_findings", "log_eda_decision"}

(* The nodes that call the LLM or read the context: what they raise ends the
   run. The others catch their errors or compute only. *)
MayRaise == {"load_context", "plan_analysis", "generate_eda_sql",
             "evaluate_hypothesis", "fuse_context", "generate_findings"}

(* AnalysisState and the graph position have the shape the code gives them. *)
TypeOK ==
  /\ pc \in Nodes \cup {"done", "failed"}
  /\ hypotheses \in Seq(HypothesisStatus)
  /\ queries \in Seq(QueryRecord)
  /\ iteration \in 0..MaxIterations
  /\ needsWeb \in BOOLEAN
  /\ searches \in 0..3
  /\ fused \in BOOLEAN
  /\ reason \in {"none", "iterations", "evaluated"}
  /\ steps \in Nat

Init ==
  /\ pc = "load_context"
  /\ hypotheses = <<>>
  /\ queries = <<>>
  /\ iteration = 0
  /\ needsWeb = FALSE
  /\ searches = 0
  /\ fused = FALSE
  /\ reason = "none"
  /\ steps = 0

Pending(i) == i \in DOMAIN hypotheses /\ hypotheses[i] = "pending"

SomePending == \E i \in DOMAIN hypotheses : Pending(i)

(* Mutant: the hypothesis added last goes first. *)
MutLastPending(i) == Pending(i) /\ \A j \in DOMAIN hypotheses : Pending(j) => i >= j

(* pending_hypotheses()[0] *)
FirstPending(i) == Pending(i) /\ \A j \in DOMAIN hypotheses : Pending(j) => i <= j

(* A query counts as evidence for a hypothesis once executed, with or without
   an error, if it was written for it or for none at all. *)
Related(q, i) == q.executed /\ q.hyp \in {0, i}

(* Mutant: the query is not tied to its hypothesis. *)
MutNewQuery(i) == [hyp |-> 0, executed |-> FALSE]

NewQuery(i) == [hyp |-> i, executed |-> FALSE]

OutOfBudget(n) == n >= MaxIterations

Run(node, next) == pc = node /\ pc' = next /\ steps' = steps + 1

LoadContext ==
  /\ Run("load_context", "plan_analysis")
  /\ UNCHANGED <<hypotheses, queries, iteration, needsWeb, searches, fused, reason>>

(* A plan without a usable hypothesis gets a default one. *)
PlanAnalysis ==
  /\ Run("plan_analysis", "generate_eda_sql")
  /\ \E n \in 0..MaxPlanned :
       hypotheses' = [i \in 1..(IF n = 0 THEN 1 ELSE n) |-> "pending"]
  /\ needsWeb' \in BOOLEAN
  /\ UNCHANGED <<queries, iteration, searches, fused, reason>>

(* The query serves the first pending hypothesis; with none left it would
   serve a sub-question not asked before, if there is one. *)
GenerateSql ==
  /\ Run("generate_eda_sql", "execute_eda_sql")
  /\ IF SomePending
       THEN \E i \in DOMAIN hypotheses :
              FirstPending(i) /\ queries' = Append(queries, NewQuery(i))
       ELSE queries' \in {queries, Append(queries, NewQuery(0))}
  /\ UNCHANGED <<hypotheses, iteration, needsWeb, searches, fused, reason>>

(* The latest query not executed yet; validation and runtime errors are
   recorded in it, and count as executed. *)
ExecuteSql ==
  LET open == {i \in DOMAIN queries : ~queries[i].executed} IN
  /\ Run("execute_eda_sql", "evaluate_hypothesis")
  /\ queries' = [i \in DOMAIN queries |->
       IF i \in open /\ \A j \in open : j <= i
         THEN [queries[i] EXCEPT !.executed = TRUE] ELSE queries[i]]
  /\ UNCHANGED <<hypotheses, iteration, needsWeb, searches, fused, reason>>

(* Without a pending hypothesis, or evidence for it, nothing changes. A verdict
   "refined" adds the refined statement, if one was given, as a new hypothesis. *)
EvaluateHypothesis ==
  /\ Run("evaluate_hypothesis", "decide_next_step")
  /\ IF \E i \in DOMAIN hypotheses :
          FirstPending(i) /\ \E k \in DOMAIN queries : Related(queries[k], i)
       THEN \E i \in DOMAIN hypotheses, v \in Verdicts, child \in BOOLEAN :
              /\ FirstPending(i)
              /\ child => v = "refined"
              /\ LET judged == [hypotheses EXCEPT ![i] = v] IN
                   hypotheses' = IF child THEN Append(judged, "pending") ELSE judged
       ELSE UNCHANGED hypotheses
  /\ UNCHANGED <<queries, iteration, needsWeb, searches, fused, reason>>

(* Mutant: the hypotheses are looked at before the budget. *)
MutDecideOrder ==
  LET n == iteration + 1
      why == IF ~SomePending THEN "evaluated"
             ELSE IF OutOfBudget(n) THEN "iterations" ELSE "none"
  IN
  /\ Run("decide_next_step",
         CASE why = "iterations" -> "generate_findings"
           [] why = "none"       -> "generate_eda_sql"
           [] why = "evaluated"  -> IF needsWeb /\ searches = 0
                                      THEN "perform_web_research"
                                      ELSE "generate_findings")
  /\ iteration' = n
  /\ reason' = why
  /\ UNCHANGED <<hypotheses, queries, needsWeb, searches, fused>>

(* Mutant: the flag is taken for the name of the next node. *)
MutDecideFlag ==
  /\ Run("decide_next_step",
         IF OutOfBudget(iteration + 1) \/ ~SomePending THEN "finalize" ELSE "generate_eda_sql")
  /\ iteration' = iteration + 1
  /\ UNCHANGED <<hypotheses, queries, needsWeb, searches, fused, reason>>

(* The iteration budget is looked at before the hypotheses are. *)
DecideNextStep ==
  LET n == iteration + 1
      why == IF OutOfBudget(n) THEN "iterations"
             ELSE IF SomePending THEN "none" ELSE "evaluated"
  IN
  /\ Run("decide_next_step",
         CASE why = "iterations" -> "generate_findings"
           [] why = "none"       -> "generate_eda_sql"
           [] why = "evaluated"  -> IF needsWeb /\ searches = 0
                                      THEN "perform_web_research"
                                      ELSE "generate_findings")
  /\ iteration' = n
  /\ reason' = why
  /\ UNCHANGED <<hypotheses, queries, needsWeb, searches, fused>>

(* One to three searches; a failed one is recorded all the same. *)
PerformWebResearch ==
  /\ Run("perform_web_research", "fuse_context")
  /\ IF needsWeb THEN \E n \in 1..3 : searches' = searches + n
                 ELSE UNCHANGED searches
  /\ UNCHANGED <<hypotheses, queries, iteration, needsWeb, fused, reason>>

FuseContext ==
  /\ Run("fuse_context", "generate_findings")
  /\ fused' = TRUE
  /\ UNCHANGED <<hypotheses, queries, iteration, needsWeb, searches, reason>>

GenerateFindings ==
  /\ Run("generate_findings", "log_eda_decision")
  /\ UNCHANGED <<hypotheses, queries, iteration, needsWeb, searches, fused, reason>>

LogDecision ==
  /\ Run("log_eda_decision", "done")
  /\ UNCHANGED <<hypotheses, queries, iteration, needsWeb, searches, fused, reason>>

(* A node raises: run_agent_graph reports the run as failed. *)
NodeRaises ==
  /\ pc \in MayRaise
  /\ pc' = "failed"
  /\ UNCHANGED <<hypotheses, queries, iteration, needsWeb, searches, fused, reason, steps>>

Next ==
  \/ LoadContext \/ PlanAnalysis
  \/ GenerateSql \/ ExecuteSql \/ EvaluateHypothesis \/ DecideNextStep
  \/ PerformWebResearch \/ FuseContext \/ GenerateFindings \/ LogDecision
  \/ NodeRaises

Spec == Init /\ [][Next]_vars

(* LangGraph runs the next node as soon as the last one returned; every LLM and
   database call in a node ends or raises. *)
FairSpec == Spec /\ WF_vars(Next)

-----------------------------------------------------------------------------
(* How many iterations have written, or judged, a hypothesis so far. *)
Queried == iteration +
  (IF pc \in {"execute_eda_sql", "evaluate_hypothesis", "decide_next_step"} THEN 1 ELSE 0)
Judged == iteration + (IF pc = "decide_next_step" THEN 1 ELSE 0)

(* A hypothesis is only judged on an executed query written for it, although
   generate_eda_sql, execute_eda_sql and evaluate_hypothesis each pick their
   own subject. *)
EvidenceBeforeVerdict ==
  \A i \in DOMAIN hypotheses :
    hypotheses[i] # "pending" =>
      \E k \in DOMAIN queries : queries[k].executed /\ queries[k].hyp = i

(* Every iteration spends its query on one hypothesis and settles it: they are
   taken in order, none twice, and an iteration is never spent on a sub-question
   or on nothing (outside a failed run). *)
OneQueryPerHypothesis ==
  pc # "failed" =>
    /\ Len(queries) = Queried
    /\ \A k \in DOMAIN queries : queries[k].hyp = k
    /\ \A i \in DOMAIN hypotheses : hypotheses[i] = "pending" <=> i > Judged

(* A run that ends has judged every hypothesis or used up its budget. *)
FinishedOrOutOfBudget ==
  pc = "done" => ~SomePending \/ iteration = MaxIterations

(* Web research comes at most once (three searches), when it was planned and
   all hypotheses are judged, and what it found is fused before the findings. *)
WebResearchLast ==
  searches > 0 =>
    /\ needsWeb /\ ~SomePending /\ iteration < MaxIterations
    /\ pc \in {"fuse_context", "failed"} \/ fused

(* The run takes a bounded number of graph steps: two before the loop, four per
   iteration, and at most two after it when the budget is used up. *)
StepsBounded == steps <= 4 * MaxIterations + 4

(* Every run ends. *)
Terminates == <>(pc \in {"done", "failed"})
=============================================================================
