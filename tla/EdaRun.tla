-------------------------------- MODULE EdaRun --------------------------------
(***************************************************************************)
(* The books an exploratory analysis keeps while EdaLoop runs: the LLM     *)
(* calls counted in the graph state and again in RunMetrics, the trace of  *)
(* tool calls, the failures and their modes, what each query brought, and  *)
(* the row the runner writes in the end. Every action is one of EdaLoop    *)
(* with the bookkeeping of its node, so all that holds of EdaLoop holds    *)
(* here. Tokens are counted in calls.                                      *)
(***************************************************************************)
EXTENDS EdaLoop, FiniteSets

CONSTANTS
  MaxItems,  \* bound: charts, findings and recommendations the LLM gives
  Faults     \* what may go wrong: "render" (a prompt template), "db"

ASSUME EdaRunAssumption == MaxItems \in Nat /\ Faults \subseteq {"render", "db"}

VARIABLES
  books,     \* the counters of AnalysisState.metrics, and the usage list
  outcomes,  \* Seq: what AnalysisState.queries[k] brought
  modes,     \* AnalysisState.failure_modes
  needs,     \* how many sub-questions evaluations added to AnalysisState
  product,   \* what generate_findings added
  row        \* the DecisionLog row of the run

bookVars == <<books, outcomes, modes, needs, product, row>>
runVars == <<vars, bookVars>>

Outcomes == {"open", "rows", "empty", "invalid", "runtime"}
Failed == {"invalid", "runtime"}
Books == [usage : Nat,         \* GraphState.usage
          llm_calls : Nat,     \* metrics.total_llm_calls
          sql_queries : Nat,   \* metrics.total_sql_queries
          tool_calls : Nat,    \* the tool call records
          total_tools : Nat,   \* metrics.total_tool_calls
          failures : Nat]      \* the failure records
NoRow == [status |-> "none", calls |-> 0, score |-> 0]
NoProduct == [charts |-> 0, drawn |-> "none", findings |-> 0, recommendations |-> 0]

RunInit ==
  /\ Init
  /\ books = [usage |-> 0, llm_calls |-> 0, sql_queries |-> 0, tool_calls |-> 0,
              total_tools |-> 0, failures |-> 0]
  /\ outcomes = <<>> /\ modes = {} /\ needs = 0 /\ product = NoProduct /\ row = NoRow

-----------------------------------------------------------------------------
(* The two accounts of a call are kept apart, and by each node for itself: the
   records it returns, which the graph adds to its usage list, ... *)
Billed(b, n) == [b EXCEPT !.usage = @ + n]

(* ... and RunMetrics.add_llm_usage, once for each. *)
Metered(b, n) == [b EXCEPT !.llm_calls = @ + n]

(* AnalysisState.record_tool_call: the trace grows, metrics.total_tool_calls
   does not. *)
Traced(b, n) == [b EXCEPT !.tool_calls = @ + n]

(* Mutant: a mode seen before is not recorded again, nor is the failure. *)
MutRecordFailure(b, mode) ==
  /\ modes' = modes \cup {mode}
  /\ books' = IF mode \in modes THEN b ELSE [b EXCEPT !.failures = @ + 1]

(* AnalysisState.record_failure *)
RecordFailure(b, mode) ==
  /\ modes' = modes \cup {mode}
  /\ books' = [b EXCEPT !.failures = @ + 1]

(* No usable hypothesis: the default one, and a planning failure. *)
RunPlan ==
  /\ PlanAnalysis
  /\ \/ RecordFailure(Metered(Billed(books, 1), 1), "planning_failure") /\ Len(hypotheses') = 1
     \/ books' = Metered(Billed(books, 1), 1) /\ UNCHANGED modes
  /\ UNCHANGED <<outcomes, needs, product, row>>

RunGenerate ==
  /\ GenerateSql
  /\ IF Len(queries') > Len(queries)
       THEN /\ books' = Traced(Metered(Billed(books, 1), 1), 1)
            /\ outcomes' = Append(outcomes, "open")
       ELSE UNCHANGED <<books, outcomes>>
  /\ UNCHANGED <<modes, needs, product, row>>

(* The query is invalid, raises, or returns rows or none. *)
RunExecute ==
  /\ ExecuteSql
  /\ IF queries' = queries
       THEN UNCHANGED <<books, outcomes, modes>>
       ELSE \E k \in DOMAIN queries, outcome \in Outcomes \ {"open"} :
              /\ queries'[k] # queries[k]
              /\ outcomes' = [outcomes EXCEPT ![k] = outcome]
              /\ CASE outcome = "invalid" -> RecordFailure(Traced(books, 1), "implementation_error")
                   [] outcome = "runtime" -> RecordFailure(Traced(books, 1), "runtime_error")
                   [] OTHER -> /\ books' = [Traced(books, 1) EXCEPT !.sql_queries = @ + 1]
                               /\ UNCHANGED modes
  /\ UNCHANGED <<needs, product, row>>

(* Whatever its verdict, the evaluation may name an additional query, which is
   stored as a sub-question if it is new; no query is written for it while a
   hypothesis is pending. *)
RunEvaluate ==
  /\ EvaluateHypothesis
  /\ IF hypotheses' = hypotheses
       THEN UNCHANGED <<books, needs>>
       ELSE /\ books' = Metered(Billed(books, 1), 1)
            /\ needs' \in {needs, needs + 1}
  /\ UNCHANGED <<outcomes, modes, product, row>>

RunResearch ==
  /\ PerformWebResearch
  /\ books' = Traced(books, searches' - searches)
  /\ UNCHANGED <<outcomes, modes, needs, product, row>>

(* Mutant: fuse_context returns its usage and forgets add_llm_usage. *)
MutRunFuse ==
  /\ FuseContext
  /\ books' = IF searches > 0 THEN Traced(Billed(books, 1), 1) ELSE books
  /\ UNCHANGED <<outcomes, modes, needs, product, row>>

RunFuse ==
  /\ FuseContext
  /\ books' = IF searches > 0 THEN Traced(Metered(Billed(books, 1), 1), 1) ELSE books
  /\ UNCHANGED <<outcomes, modes, needs, product, row>>

WithRows == {k \in DOMAIN outcomes : outcomes[k] = "rows"}

Chartable == WithRows # {}

Atleast(least, n) == IF n < least THEN least ELSE n

(* First the charts: none without rows; as the LLM selects them; or, when the
   prompt cannot be rendered, the fallback, whose run_until_complete raises
   inside of the running loop for every query. Then the findings, at least one. *)
RunFindings ==
  /\ GenerateFindings
  /\ \E charts, findings, recommendations \in 0..MaxItems :
       LET Drawn(n, how) == product' = [charts |-> n, drawn |-> how,
             findings |-> Atleast(1, findings), recommendations |-> recommendations]
           Found(b) == books' = Metered(Billed(b, 1), 1)
       IN \/ ~Chartable /\ Drawn(0, "none") /\ Found(books)
          \/ Chartable /\ Drawn(charts, "llm") /\ Found(Metered(Billed(books, 1), 1))
          \/ Chartable /\ "render" \in Faults /\ Drawn(0, "fallback") /\ Found(books)
  /\ UNCHANGED <<outcomes, modes, needs, row>>

Least(a, b) == IF a < b THEN a ELSE b

(* _evaluation_score in thousandths, of an analysis that is complete *)
Score == 300
  + Least(300, 100 * product.findings)
  + Least(200, 70 * product.recommendations)
  + (IF modes = {} THEN 200 ELSE 0)

(* persist_decision_log; a failed commit is rolled back and only logged. *)
WriteRow(r) == row' = r \/ ("db" \in Faults /\ row' = row)

RunLog ==
  /\ LogDecision
  /\ WriteRow([status |-> "succeeded", calls |-> books.usage, score |-> Score])
  /\ UNCHANGED <<books, outcomes, modes, needs, product>>

(* A failed run has no decision record: its row counts no tokens. *)
RunFails ==
  /\ NodeRaises
  /\ WriteRow([status |-> "failed", calls |-> 0, score |-> 0])
  /\ UNCHANGED <<books, outcomes, modes, needs, product>>

RunNext ==
  \/ (LoadContext \/ DecideNextStep) /\ UNCHANGED bookVars
  \/ RunPlan \/ RunGenerate \/ RunExecute \/ RunEvaluate
  \/ RunResearch \/ RunFuse \/ RunFindings \/ RunLog \/ RunFails

RunSpec == RunInit /\ [][RunNext]_runVars

(* As FairSpec of EdaLoop: the graph goes on after every node. *)
FairRunSpec == RunSpec /\ WF_runVars(RunNext)

-----------------------------------------------------------------------------
(* The calls of the LLM that the analysis has something to show for: its plan,
   each query written, each verdict, the fusion of web research, the choice of
   charts and the findings. *)
CallsShown ==
  (IF hypotheses = <<>> THEN 0 ELSE 1)
  + Len(queries)
  + Cardinality({i \in DOMAIN hypotheses : hypotheses[i] # "pending"})
  + (IF fused /\ searches > 0 THEN 1 ELSE 0)
  + (IF product.drawn = "llm" THEN 1 ELSE 0)
  + (IF product.findings > 0 THEN 1 ELSE 0)

(* Every call is paid for once in both accounts, whichever nodes made it, and
   nothing else is: seven call sites write each by hand, the benchmark prefers
   the metrics of the analysis, and the audit row the usage list of the graph. *)
CallsAddUp ==
  /\ books.usage = CallsShown
  /\ books.llm_calls = CallsShown
  /\ row.status = "succeeded" => row.calls = CallsShown

Count(S) == Cardinality({k \in DOMAIN outcomes : outcomes[k] \in S})

(* Every query that did not work is recorded as a failure of its mode, beside
   at most one failed plan; those that worked are counted as queries. *)
FailuresAddUp ==
  /\ books.failures = Count(Failed) + (IF "planning_failure" \in modes THEN 1 ELSE 0)
  /\ books.sql_queries = Count({"rows", "empty"})
  /\ "implementation_error" \in modes <=> Count({"invalid"}) > 0
  /\ "runtime_error" \in modes <=> Count({"runtime"}) > 0

=============================================================================
