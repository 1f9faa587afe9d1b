------------------------------ MODULE MCService ------------------------------
(***************************************************************************)
(* What the backend does around its agents, side by side: its start over a *)
(* failing database (Startup), the context its runs see while the context  *)
(* is deployed (ContextVersions), evaluation runs (EvalRuns), on the cases *)
(* of context/evaluations/monitor_suite.yaml, and benchmark runs           *)
(* (BenchmarkRuns). These share no variable, so that only one of them      *)
(* moves in a behaviour: interleaving them would add no behaviour to any.  *)
(***************************************************************************)
EXTENDS ContextVersions

CONSTANTS
  Retries, DemoRows, MaxFaults,
  MaxRetries, EvalFaults,
  BenchmarkRunIds, SuiteCases, LatencySet, Recorded, Details, BenchmarkFaults

VARIABLES
  part,                                                     \* what moves
  production, pc, attempt, db_ok, checkpointer, dbUp, migrated, snapshotRows,
  orders, metrics, seeded, faults,
  evalStored, evalPc, pass, evalResults, action, retry, outcome, rows, paused, announced,
  stored, taskPc, results, compare

Beyond(m) == [metric |-> m, beyond |-> TRUE, described |-> FALSE]

MonitorSuite == <<
  [event |-> Beyond("error_rate"), scorer |-> "exact_match", expected |-> "require_approval"],
  [event |-> Beyond("queue_depth"), scorer |-> "exact_match", expected |-> "auto_act"],
  [event |-> Beyond("disk_free_percent"), scorer |-> "exact_match", expected |-> "ignore"],
  [event |-> [metric |-> "none", beyond |-> FALSE, described |-> TRUE],
   scorer |-> "llm_judge", expected |-> "require_approval"]>>

Reports == INSTANCE BenchmarkReport
Start == INSTANCE Startup WITH snapshots <- snapshotRows
Eval == INSTANCE EvalRuns WITH
  Suite <- MonitorSuite, Faults <- EvalFaults, stored <- evalStored, pc <- evalPc,
  results <- evalResults, attempt <- retry
Bench == INSTANCE BenchmarkRuns WITH
  Runs <- BenchmarkRunIds, Cases <- SuiteCases, Faults <- BenchmarkFaults, pc <- taskPc

ASSUME PartAssumptions ==
  Start!StartupAssumption /\ Eval!EvalAssumption /\ Bench!BenchmarkAssumption

startVars == <<production, pc, attempt, db_ok, checkpointer, dbUp, migrated, snapshotRows,
               orders, metrics, seeded, faults>>
evalVars == <<evalStored, evalPc, pass, evalResults, action, retry, outcome, rows, paused,
              announced>>
benchVars == <<stored, taskPc, results, compare>>
serviceVars == <<part, vars, startVars, evalVars, benchVars>>

ServiceInit ==
  /\ part \in {"start", "context", "eval", "benchmark"}
  /\ Init /\ Start!Init /\ Eval!Init /\ Bench!Init
  /\ part # "start" => production /\ dbUp

Context(A) == part = "context" /\ A /\ UNCHANGED <<part, startVars, evalVars, benchVars>>
Starting(A) == part = "start" /\ A /\ UNCHANGED <<part, vars, evalVars, benchVars>>
Evaluating(A) == part = "eval" /\ A /\ UNCHANGED <<part, vars, startVars, benchVars>>
Benchmarking(A) == part = "benchmark" /\ A /\ UNCHANGED <<part, vars, startVars, evalVars>>

ServiceNext ==
  \/ Context(Next) \/ Starting(Start!Next)
  \/ Evaluating(Eval!Next) \/ Benchmarking(Bench!Next)

(* The fairness of each component, for the one that moves. *)
ServiceSpec ==
  /\ ServiceInit /\ [][ServiceNext]_serviceVars
  /\ WF_startVars(Starting(Start!Work))
  /\ WF_evalVars(Evaluating(Eval!WorkerStep))
  /\ WF_benchVars(Benchmarking(\E r \in BenchmarkRunIds : Bench!Task(r)))

-----------------------------------------------------------------------------
(* The properties of the components, where they are stated, of the composition. *)
ProductionIsWhole == Start!ProductionIsWhole
StartsEnd == Start!StartsEnd
LoggedAtMostOnce == Eval!LoggedAtMostOnce
FailuresAreNamed == Bench!FailuresAreNamed
DoneIsNeverRevoked == Bench!DoneIsNeverRevoked

(* The report of an evaluation is one whole pass over its suite, and where a rule
   was breached the rules have decided, whatever the LLM answered. *)
ReportIsRight == Eval!ReportIsWhole /\ Eval!RulesDecide

(* The rates are rounded before they are compared; up to 60 cases that turns no
   drop of more than five points, and none of less, into the other. *)
ThresholdHolds ==
  \A n \in 1..60 : \A baseline, current \in 0..n :
    Reports!RightlyCompared(
      Reports!RegressionsDetected([overall_pass_rate |-> Reports!Rate(baseline, n)],
                                  [overall_pass_rate |-> Reports!Rate(current, n)]),
      baseline, current, n)

(* Two dashboards of finished suites are compared as they should be. *)
DashboardsShowRegressions == ThresholdHolds /\ Bench!DashboardsShowRegressions

RunsUnderWay == Eval!UnderWay \/ Bench!UnderWay # {}

(* Every evaluation and every benchmark that was accepted comes to its end: each
   run id is handed out once, so that a moment without any must come. *)
RunsEnd == RunsUnderWay ~> ~RunsUnderWay
=============================================================================
