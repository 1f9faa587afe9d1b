--------------------------- MODULE BenchmarkReport ---------------------------
(***************************************************************************)
(* The reports of benchmark.py: how a case is classified, what a suite     *)
(* report and a dashboard aggregate, and how two of them are compared.     *)
(* Averages, tokens and costs are left out. Rates are in ten-thousandths,  *)
(* the four digits the code rounds them to.                                *)
(***************************************************************************)
EXTENDS Integers, Sequences, FiniteSets, TLC

FailureModes == {"planning_failure", "plan_error", "data_selection_error",
                 "implementation_error", "runtime_error", "semantic_misunderstanding"}

(* What the scorer's detail, or the flag sql_valid, says of a failed case. *)
Hints == {"none", "sql_invalid", "column", "concept", "timeout"}

(* A failure mode as the result holds it: the plain value, or str() of the
   member of FailureMode, which is "FailureMode.X" and equal to no value. *)
ModeText == [mode : FailureModes, dotted : BOOLEAN]

CaseResult == [passed : BOOLEAN, latency : Nat, modes : SUBSET ModeText]

Plain(mode) == [mode |-> mode, dotted |-> FALSE]
Str(mode) == [mode |-> mode, dotted |-> TRUE]

(* Mutant: a case without a telling detail is left unclassified. *)
MutInferred(hint) == IF hint = "none" THEN {} ELSE {Plain("implementation_error")}

Inferred(hint) ==
  {Plain(CASE hint = "column"  -> "data_selection_error"
           [] hint = "concept" -> "semantic_misunderstanding"
           [] hint = "timeout" -> "runtime_error"
           [] OTHER            -> "implementation_error")}

(* The result of a case the agent ran to its end, with the failure modes its
   analysis recorded. *)
Classified(passed, latency, recorded, hint) ==
  [passed |-> passed, latency |-> latency,
   modes |-> IF ~passed /\ recorded = {} THEN Inferred(hint)
                                         ELSE {Str(mode) : mode \in recorded}]

(* The result of a case whose run failed. *)
Crashed(latency) ==
  [passed |-> FALSE, latency |-> latency, modes |-> {Plain("runtime_error")}]

-----------------------------------------------------------------------------

(* Positions in the sorted latencies, counted from zero. *)
P50Index(n) == n \div 2
P95Index(n) == IF (95 * n) \div 100 < n - 1 THEN (95 * n) \div 100 ELSE n - 1

Latencies(results) ==
  SortSeq([i \in DOMAIN results |-> results[i].latency], LAMBDA a, b : a < b)

(* round(count / n, 4), half to even. The code rounds the binary quotient, which
   decides the ties of an n that is a multiple of 160; in all others this is it. *)
Rate(count, n) ==
  LET q == (10000 * count) \div n
      rest == (10000 * count) % n
  IN  IF 2 * rest < n \/ (2 * rest = n /\ q % 2 = 0) THEN q ELSE q + 1

Passed(results) == Cardinality({i \in DOMAIN results : results[i].passed})

(* How many cases carry the name of a mode. *)
Counted(results, mode) ==
  Cardinality({i \in DOMAIN results : Plain(mode) \in results[i].modes})

(* BenchmarkReport.compute_aggregates, over at least one case *)
Report(results) ==
  LET n == Len(results) sorted == Latencies(results) IN
  [status    |-> "done",
   results   |-> results,
   total     |-> n,
   passed    |-> Passed(results),
   pass_rate |-> Rate(Passed(results), n),
   p50       |-> sorted[P50Index(n) + 1],
   p95       |-> sorted[P95Index(n) + 1],
   rates     |-> [mode \in FailureModes |-> Rate(Counted(results, mode), n)]]

(* BenchmarkDashboard.compute over the reports of two suites: the same
   aggregates over all cases, the pass rate under a name of its own. *)
Dashboard(first, second) ==
  LET results == first.results \o second.results
      n == Len(results)
  IN
  [total_cases       |-> n,
   total_passed      |-> Passed(results),
   overall_pass_rate |-> Rate(Passed(results), n),
   p95               |-> Latencies(results)[P95Index(n) + 1],
   rates             |-> [mode \in FailureModes |-> Rate(Counted(results, mode), n)]]

(* The share of passed cases dropped by more than five points, or did not drop
   by as much, in twentieths of the cases. *)
Dropped(baseline, current, n) == 20 * current + n < 20 * baseline
Held(baseline, current, n) == 20 * baseline < 20 * current + n

(* dict.get *)
Get(dict, key, default) == IF key \in DOMAIN dict THEN dict[key] ELSE default

(* current < baseline - 0.05 in binary floating point: if the rates are exactly
   five points apart, the error of the subtraction decides (0.35 < 0.4 - 0.05 is
   true, 0.95 < 1.0 - 0.05 is not), and either outcome is allowed here. *)
LessByFivePoints(current, baseline) ==
  IF current = baseline - 500 THEN BOOLEAN ELSE {current < baseline - 500}

(* Mutant: the reports are swapped. *)
MutRegressionsDetected(baseline, current) ==
  LessByFivePoints(Get(baseline, "overall_pass_rate", 10000),
                   Get(current, "overall_pass_rate", 0))

(* What compare_reports may answer: is there a drop by more than five points? *)
RegressionsDetected(baseline, current) ==
  LessByFivePoints(Get(current, "overall_pass_rate", 10000),
                   Get(baseline, "overall_pass_rate", 0))

(* A comparison of shares of n cases is right: it answers what the share of passed
   cases did, if that was not a drop of exactly five points. *)
RightlyCompared(answers, baseline, current, n) ==
  /\ Dropped(baseline, current, n) => answers = {TRUE}
  /\ Held(baseline, current, n) => answers = {FALSE}
=============================================================================
