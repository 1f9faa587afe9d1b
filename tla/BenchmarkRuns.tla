---------------------------- MODULE BenchmarkRuns ----------------------------
(***************************************************************************)
(* Benchmark runs started over the API (routes/benchmark.py): each run's   *)
(* record in Redis, the background task that runs the cases of the suite   *)
(* one after the other, and a comparison of two runs, which reads the two  *)
(* records one after the other while the tasks go on.                      *)
(***************************************************************************)
EXTENDS BenchmarkReport

CONSTANTS
  Runs,       \* the run ids handed out
  Cases,      \* number of cases in the suite
  LatencySet, \* latencies a case may take
  Recorded,   \* sets of failure modes an analysis may record
  Details,    \* what a scorer may say of a failed case, a subset of Hints
  Faults      \* what may go wrong: "crash", "redis", "context"

BenchmarkAssumption ==
  /\ Cases \in Nat \ {0}
  /\ LatencySet \subseteq Nat
  /\ Recorded \subseteq SUBSET FailureModes
  /\ Details \subseteq Hints
  /\ Faults \subseteq {"crash", "redis", "context"}

VARIABLES
  stored,   \* [Runs -> what benchmark:run:<id> holds]
  pc,       \* [Runs -> the background task]
  results,  \* [Runs -> Seq(CaseResult)]: results of the task so far
  compare   \* a POST /v1/benchmark/compare: where it is and what it has read

vars == <<stored, pc, results, compare>>

Status(s) == [status |-> s]
Missing == Status("none")
Done(r) == stored[r].status = "done"

(* The state has the shape the code gives it. *)
TypeOK ==
  /\ \A r \in Runs : stored[r].status \in {"none", "running", "done", "failed"}
  /\ pc \in [Runs -> {"idle", "case", "store", "raised", "over", "dead"}]
  /\ results \in [Runs -> Seq(CaseResult)]
  /\ \A r \in Runs : Len(results[r]) <= Cases
  /\ compare.pc \in {"idle", "half", "missing", "answered"}

Init ==
  /\ stored = [r \in Runs |-> Missing]
  /\ pc = [r \in Runs |-> "idle"]
  /\ results = [r \in Runs |-> <<>>]
  /\ compare = [pc |-> "idle"]

-----------------------------------------------------------------------------
Step(r, from, to) == pc[r] = from /\ pc' = [pc EXCEPT ![r] = to]

(* RedisClient.set_json: a failure is logged and the caller goes on. *)
SetJson(r, value) ==
  \/ stored' = [stored EXCEPT ![r] = value]
  \/ "redis" \in Faults /\ UNCHANGED stored

(* POST /v1/benchmark/runs *)
StartRun(r) ==
  /\ Step(r, "idle", "case")
  /\ SetJson(r, Status("running"))
  /\ UNCHANGED <<results, compare>>

AddResult(r, result) ==
  /\ Len(results[r]) < Cases
  /\ results' = [results EXCEPT ![r] = Append(@, result)]
  /\ UNCHANGED <<stored, compare>>

(* A case is run and scored. A scorer that raises gives the score zero and its
   exception as the detail. *)
ScoreCase(r) ==
  /\ Step(r, "case", "case")
  /\ \E passed \in BOOLEAN, latency \in LatencySet, recorded \in Recorded, hint \in Details :
       AddResult(r, Classified(passed, latency, recorded, hint))

(* The run of the case failed: it is not scored. *)
FailCase(r) ==
  /\ Step(r, "case", "case")
  /\ \E latency \in LatencySet : AddResult(r, Crashed(latency))

(* load_context_for_mode raises outside of run_agent_graph's try block: there is
   no result for the case, and no report for the suite. *)
SuiteRaises(r) ==
  /\ "context" \in Faults
  /\ Step(r, "case", "raised")
  /\ Len(results[r]) < Cases
  /\ results' = [results EXCEPT ![r] = <<>>]
  /\ UNCHANGED <<stored, compare>>

FinishSuite(r) ==
  /\ Step(r, "case", "store")
  /\ Len(results[r]) = Cases
  /\ UNCHANGED <<stored, results, compare>>

(* Mutant: a failure to publish the event raises. *)
MutStoreReport(r) ==
  /\ \/ Step(r, "store", "over")
     \/ "redis" \in Faults /\ Step(r, "store", "raised")
  /\ SetJson(r, Report(results[r]))
  /\ results' = [results EXCEPT ![r] = <<>>]
  /\ UNCHANGED compare

(* The report is stored; what RedisClient.publish raises it also catches, so
   the exception handler is not reached from here. *)
StoreReport(r) ==
  /\ Step(r, "store", "over")
  /\ SetJson(r, Report(results[r]))
  /\ results' = [results EXCEPT ![r] = <<>>]
  /\ UNCHANGED compare

StoreFailure(r) ==
  /\ Step(r, "raised", "over")
  /\ SetJson(r, Status("failed"))
  /\ UNCHANGED <<results, compare>>

(* Redis drops the key: a failure a day after it was stored, anything else a
   week after. *)
Expire(r) ==
  /\ stored[r].status # "none"
  /\ stored' = [stored EXCEPT ![r] = Missing]
  /\ UNCHANGED <<pc, results, compare>>

(* The process dies; background tasks are not resumed. *)
Crash(r) ==
  /\ "crash" \in Faults
  /\ pc[r] \notin {"idle", "over", "dead"}
  /\ pc' = [pc EXCEPT ![r] = "dead"]
  /\ results' = [results EXCEPT ![r] = <<>>]
  /\ UNCHANGED <<stored, compare>>

-----------------------------------------------------------------------------
(* Of a stored document, the comparison needs what there is of these keys. *)
Compared(document) ==
  [key \in DOMAIN document \cap {"status", "passed", "overall_pass_rate"} |-> document[key]]

(* RedisClient.get_json: what is stored, or nothing when Redis fails. *)
Readable(r) == {Compared(stored[r])} \cup (IF "redis" \in Faults THEN {Missing} ELSE {})

(* POST /v1/benchmark/compare: both records are read before either is looked
   at, and only their absence is an error. *)
ReadBaseline(r) ==
  /\ compare.pc = "idle"
  /\ \E b \in Readable(r) : compare' = [pc |-> "half", baseline |-> b]
  /\ UNCHANGED <<stored, pc, results>>

AnswerCompare(r) ==
  /\ compare.pc = "half"
  /\ \E c \in Readable(r) :
       IF Missing \in {compare.baseline, c} THEN compare' = [pc |-> "missing"]
       ELSE \E answer \in RegressionsDetected(compare.baseline, c) :
              compare' = [pc |-> "answered", baseline |-> compare.baseline, current |-> c,
                          regressions |-> answer]
  /\ UNCHANGED <<stored, pc, results>>

Task(r) ==
  \/ ScoreCase(r) \/ FailCase(r) \/ SuiteRaises(r) \/ FinishSuite(r)
  \/ StoreReport(r) \/ StoreFailure(r)

Next ==
  \E r \in Runs :
    \/ StartRun(r) \/ Task(r) \/ Expire(r) \/ Crash(r)
    \/ ReadBaseline(r) \/ AnswerCompare(r)

Spec == Init /\ [][Next]_vars

(* While there is a task that can go on, one does: the event loop need not be
   fair between them, as each is a finite number of steps. *)
FairSpec == Spec /\ WF_vars(\E r \in Runs : Task(r))

-----------------------------------------------------------------------------
Finished == {r \in Runs : Done(r)}

CountedUnder(report, i) == {mode \in FailureModes : Plain(mode) \in report.results[i].modes}

(* Of a finished run every case is in the report, and each that failed says why.
   It is counted under one mode if the runner found that mode, and under none if
   the analysis recorded its own, which are stored as "FailureMode.X" (_run_case
   and compute_aggregates); no rate counts a case that passed. *)
FailuresAreNamed ==
  \A r \in Finished :
    LET report == stored[r] IN
    /\ report.total = Cases
    /\ \A i \in 1..Cases :
         IF report.results[i].passed THEN CountedUnder(report, i) = {}
         ELSE \/ \E mode \in FailureModes :
                   report.results[i].modes = {Plain(mode)} /\ report.rates[mode] > 0
              \/ report.results[i].modes # {} /\ CountedUnder(report, i) = {}
    /\ \A mode \in FailureModes : report.rates[mode] > 0 =>
         \E i \in 1..Cases : mode \in CountedUnder(report, i)

(* A report that was stored is never taken back or changed: the task's handler
   for exceptions cannot overwrite it, although storing and publishing are
   inside its try block. *)
DoneIsNeverRevoked ==
  [][\A r \in Runs : Done(r) => stored'[r] \in {stored[r], Missing}]_vars

UnderWay == {r \in Runs : pc[r] \notin {"idle", "over", "dead"}}

(* Every accepted run comes to its end, whatever its cases raise, and hands its
   outcome to Redis, unless the process dies. *)
RunsEnd == UnderWay # {} ~> UnderWay = {}

(* Two dashboards written by the command line from finished suites (here the
   first suite in two versions, the second unchanged) are compared as they
   should be: a drop of more than five points is found, and none of less. *)
DashboardsShowRegressions ==
  \A b, c, other \in Finished :
    RightlyCompared(
      RegressionsDetected(Dashboard(stored[b], stored[other]), Dashboard(stored[c], stored[other])),
      stored[b].passed + stored[other].passed, stored[c].passed + stored[other].passed,
      2 * Cases)

(* A comparison of two finished runs over the API detects such a drop ("surface
   regressions"). *)
ApiShowsRegressions ==
  compare.pc = "answered" /\ compare.baseline.status = "done" /\ compare.current.status = "done" =>
    (Dropped(compare.baseline.passed, compare.current.passed, Cases) => compare.regressions)
=============================================================================
