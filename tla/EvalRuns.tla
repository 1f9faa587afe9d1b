------------------------------ MODULE EvalRuns ------------------------------
(***************************************************************************)
(* An evaluation run started over the API (POST /v1/eval/runs): its status *)
(* in Redis, the background task that runs every case of a monitor suite   *)
(* through the real graph, the scorers with the retries of the LLM client, *)
(* and the second pass that follows any exception of the first.            *)
(***************************************************************************)
EXTENDS MonitorRules

CONSTANTS
  Suite,        \* Seq of [event, scorer, expected]: the cases of the suite
  MaxRetries,   \* llm_max_retries of the settings
  Faults        \* what may go wrong, a subset of FaultKinds

FaultKinds == {"crash", "redis", "db", "context", "graph", "llm"}

EvalAssumption ==
  /\ Suite \in Seq([event : Events, scorer : {"exact_match", "llm_judge"},
                    expected : {"require_approval", "auto_act", "ignore"}])
  /\ MaxRetries \in Nat
  /\ Faults \subseteq FaultKinds

VARIABLES
  stored,     \* the status and report under eval:run:<id> in Redis
  pc,         \* the background task
  pass,       \* 1: with a database session, 2: without
  results,    \* results of the pass so far, one per case
  action,     \* the action the graph chose for the case being scored
  attempt,    \* failed attempts of the judge's call
  outcome,    \* the status the task is about to report
  rows,       \* [case -> Nat]: DecisionLog rows
  paused,     \* cases whose thread waits for a human on the app's checkpointer
  announced   \* status of the eval.run.finished event

vars == <<stored, pc, pass, results, action, attempt, outcome, rows, paused, announced>>

Cases == 1..Len(Suite)
Case == Suite[Len(results) + 1]
Actions == {"require_approval", "auto_act", "ignore", "unseen"}
Result == [pass : 1..2, passed : BOOLEAN, failed : BOOLEAN]

(* The state has the shape the code gives it; a call is tried MaxRetries + 1
   times at most. *)
TypeOK ==
  /\ stored \in [status : {"none", "running", "done", "failed"}, results : Seq(Result)]
  /\ pc \in {"idle", "case", "score", "store", "publish", "over", "dead"}
  /\ pass \in 1..2
  /\ results \in Seq(Result) /\ Len(results) <= Len(Suite)
  /\ action \in Actions \cup {"none"}
  /\ attempt \in 0..MaxRetries
  /\ outcome \in {"none", "done", "failed"}
  /\ rows \in [Cases -> Nat]
  /\ paused \subseteq Cases
  /\ announced \in {"none", "done", "failed"}

Status(s) == [status |-> s, results |-> <<>>]

Init ==
  /\ stored = Status("none") /\ pc = "idle" /\ pass = 1 /\ results = <<>>
  /\ action = "none" /\ attempt = 0 /\ outcome = "none"
  /\ rows = [c \in Cases |-> 0] /\ paused = {} /\ announced = "none"

-----------------------------------------------------------------------------
(* RedisClient.set_json: a failure is logged and the caller goes on. *)
SetJson(value) == stored' = value \/ ("redis" \in Faults /\ stored' = stored)

(* POST /v1/eval/runs *)
StartRun ==
  /\ pc = "idle"
  /\ SetJson(Status("running"))
  /\ pc' = "case"
  /\ UNCHANGED <<pass, results, action, attempt, outcome, rows, paused, announced>>

(* Mutant: the second pass has the session of the first. *)
MutLogged(p) == TRUE

(* Only the first pass hands a database session to the graph. *)
Logged(p) == p = 1

(* persist_decision_log of run_agent_graph; a failed commit is rolled back. *)
WriteRow(c) ==
  \/ rows' = IF Logged(pass) THEN [rows EXCEPT ![c] = @ + 1] ELSE rows
  \/ "db" \in Faults /\ rows' = rows

(* One case through the graph, on the checkpointer of the application. *)
RunCase ==
  LET c == Len(results) + 1 IN
  /\ pc = "case" /\ c \in Cases
  /\ \E answer \in Answers : action' = ActionFor(Case.event, answer)
  /\ paused' = IF action' = "require_approval" THEN paused \cup {c} ELSE paused
  /\ WriteRow(c)
  /\ pc' = "score"
  /\ UNCHANGED <<stored, pass, results, attempt, outcome, announced>>

AddResult(passed, failed) ==
  results' = Append(results, [pass |-> pass, passed |-> passed, failed |-> failed])

(* The graph raises: the case is failed, logged as such, and not scored. *)
FailCase ==
  LET c == Len(results) + 1 IN
  /\ "graph" \in Faults
  /\ pc = "case" /\ c \in Cases
  /\ WriteRow(c)
  /\ AddResult(FALSE, TRUE)
  /\ UNCHANGED <<stored, pc, pass, action, attempt, outcome, paused, announced>>

ScoreExact ==
  /\ pc = "score" /\ Case.scorer = "exact_match"
  /\ AddResult(action = Case.expected, FALSE)
  /\ pc' = "case" /\ action' = "none"
  /\ UNCHANGED <<stored, pass, attempt, outcome, rows, paused, announced>>

(* The judge's score is above the threshold of the suite or below it. *)
JudgeAnswers ==
  /\ pc = "score" /\ Case.scorer = "llm_judge"
  /\ \E passed \in BOOLEAN : AddResult(passed, FALSE)
  /\ pc' = "case" /\ action' = "none" /\ attempt' = 0
  /\ UNCHANGED <<stored, pass, outcome, rows, paused, announced>>

RetryLeft(n) == n < MaxRetries

(* LiteLLMClient.chat: a transport error or any status of 400 and above. *)
JudgeRetries ==
  /\ "llm" \in Faults
  /\ pc = "score" /\ Case.scorer = "llm_judge"
  /\ RetryLeft(attempt)
  /\ attempt' = attempt + 1
  /\ UNCHANGED <<stored, pc, pass, results, action, outcome, rows, paused, announced>>

(* Mutant: the second pass goes on with the results of the first. *)
MutPassRaises ==
  /\ attempt' = 0 /\ action' = "none"
  /\ IF pass = 1
       THEN pass' = 2 /\ pc' = "case" /\ UNCHANGED <<results, outcome>>
       ELSE pc' = "store" /\ outcome' = "failed" /\ UNCHANGED <<pass, results>>
  /\ UNCHANGED <<stored, rows, paused, announced>>

(* Mutant: every exception starts the suite again. *)
MutStartsAgain ==
  /\ attempt' = 0 /\ action' = "none"
  /\ pass' = 2 /\ results' = <<>> /\ pc' = "case"
  /\ UNCHANGED <<stored, outcome, rows, paused, announced>>

(* Whatever escapes run_suite_file: the first time everything is done again
   without a database, the second time the run has failed. *)
PassRaises ==
  /\ attempt' = 0 /\ action' = "none"
  /\ IF pass = 1
       THEN pass' = 2 /\ results' = <<>> /\ pc' = "case" /\ UNCHANGED outcome
       ELSE pc' = "store" /\ outcome' = "failed" /\ UNCHANGED <<pass, results>>
  /\ UNCHANGED <<stored, rows, paused, announced>>

(* The last attempt failed, or an answer was no JSON document at all. *)
JudgeRaises ==
  /\ "llm" \in Faults
  /\ pc = "score" /\ Case.scorer = "llm_judge"
  /\ PassRaises

(* load_context_for_mode is outside of the try block of run_agent_graph. *)
ContextRaises ==
  /\ "context" \in Faults
  /\ pc = "case" /\ Len(results) < Len(Suite)
  /\ PassRaises

FinishPass ==
  /\ pc = "case" /\ Len(results) = Len(Suite)
  /\ pc' = "store" /\ outcome' = "done"
  /\ UNCHANGED <<stored, pass, results, action, attempt, rows, paused, announced>>

(* A failed run is stored with its error and without results. *)
StoreReport ==
  /\ pc = "store"
  /\ SetJson([status |-> outcome, results |-> IF outcome = "done" THEN results ELSE <<>>])
  /\ pc' = "publish"
  /\ UNCHANGED <<pass, results, action, attempt, outcome, rows, paused, announced>>

Publish ==
  /\ pc = "publish"
  /\ announced' = outcome \/ ("redis" \in Faults /\ UNCHANGED announced)
  /\ pc' = "over"
  /\ UNCHANGED <<stored, pass, results, action, attempt, outcome, rows, paused>>

(* Redis drops a key a day after it was set. *)
Expire ==
  /\ stored.status # "none"
  /\ stored' = Status("none")
  /\ UNCHANGED <<pc, pass, results, action, attempt, outcome, rows, paused, announced>>

(* The process dies: background tasks are not resumed. *)
Crash ==
  /\ "crash" \in Faults
  /\ pc \notin {"idle", "over", "dead"}
  /\ pc' = "dead"
  /\ UNCHANGED <<stored, pass, results, action, attempt, outcome, rows, paused, announced>>

WorkerStep ==
  \/ RunCase \/ ScoreExact \/ JudgeAnswers \/ FinishPass \/ StoreReport \/ Publish

WorkerFault == FailCase \/ JudgeRetries \/ JudgeRaises \/ ContextRaises \/ Crash

Next == StartRun \/ WorkerStep \/ WorkerFault \/ Expire

Spec == Init /\ [][Next]_vars

(* The task is scheduled until the process dies. *)
FairSpec == Spec /\ WF_vars(WorkerStep)

-----------------------------------------------------------------------------
(* A report covers the suite: one result per case, all of the same pass, also
   when the first pass was broken off in the middle (_execute_suite). *)
ReportIsWhole ==
  stored.status = "done" =>
    /\ Len(stored.results) = Len(Suite)
    /\ \A i, j \in DOMAIN stored.results : stored.results[i].pass = stored.results[j].pass

(* Whatever the LLM answers, an event that breaches a rule gets the action of
   the rules: every exact_match case of the shipped suite passes unless its run
   failed. *)
RulesDecide ==
  \A i \in DOMAIN results :
    Suite[i].scorer = "exact_match" /\ ~results[i].failed => results[i].passed

(* The second pass repeats every run, and still no case has two rows in the
   audit log. *)
LoggedAtMostOnce == \A c \in Cases : rows[c] <= 1

UnderWay == pc \notin {"idle", "over", "dead"}

(* An accepted run comes to its end, unless the process dies: retries are
   limited, and an exception of the second pass is not answered by a third. *)
RunsEnd == UnderWay ~> ~UnderWay
=============================================================================
