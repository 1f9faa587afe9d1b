---------------------------- MODULE ServiceProofs ----------------------------
(***************************************************************************)
(* Theorems about what surrounds the agents: starts (Startup), for any     *)
(* number of attempts, rows and faults; benchmark runs (BenchmarkRuns),    *)
(* for any runs and suites; and the composition MCService, whose parts     *)
(* keep what is proved of each, evaluations and deployments included.      *)
(***************************************************************************)
EXTENDS MCService, ContextVersionsProofs, SequenceTheorems, FunctionTheorems

-----------------------------------------------------------------------------
(* Startup: what a production start has behind it, by the step it is at. *)
PastMigrations ==
  {"checkpointer", "schema", "orders", "seeded_orders", "metrics", "snapshot", "serving"}

StartInv ==
  /\ pc = "migrations" => db_ok
  /\ production /\ pc \in PastMigrations => db_ok /\ migrated
  /\ production /\ pc \in PastMigrations \ {"checkpointer"} => checkpointer = "postgres"

LEMMA StartInitially == Start!Init => StartInv
BY DEF Start!Init, StartInv, PastMigrations

LEMMA StartStep ==
  ASSUME StartInv, [Start!Next]_Start!vars
  PROVE  StartInv'
<1> USE DEF StartInv, PastMigrations, Start!Goto, Start!Refuse
<1>1. CASE Start!DatabaseFails \/ Start!DatabaseReturns
  BY <1>1 DEF Start!DatabaseFails, Start!DatabaseReturns, Start!process, Start!postgres
<1>2. CASE Start!Start \/ Start!Crash \/ Start!Stop \/ Start!Shutdown
  BY <1>2 DEF Start!Start, Start!Crash, Start!Stop, Start!Shutdown, Start!process,
              Start!postgres
<1>3. CASE Start!Ping \/ Start!PingFails
  BY <1>3 DEF Start!Ping, Start!PingFails, Start!postgres
<1>4. CASE Start!Migrate \/ Start!FailMigration
  BY <1>4 DEF Start!Migrate, Start!FailMigration, Start!MigrationFails, Start!process,
              Start!postgres
<1>5. CASE Start!Checkpoint \/ Start!CheckpointFails
  BY <1>5 DEF Start!Checkpoint, Start!CheckpointFails, Start!Fallback, Start!postgres
<1>6. CASE \/ Start!CreateSchema \/ Start!InsertOrder \/ Start!CountMetrics
           \/ Start!InsertMetric \/ Start!SeedFails
  BY <1>6 DEF Start!CreateSchema, Start!InsertOrder, Start!CountMetrics, Start!InsertMetric,
              Start!SeedFails, Start!SeedFailed, Start!process, Start!postgres
<1>7. CASE Start!Snapshot \/ Start!NoSnapshot
  BY <1>7 DEF Start!Snapshot, Start!NoSnapshot, Start!Serve, Start!process, Start!postgres
<1>8. CASE UNCHANGED Start!vars
  BY <1>8 DEF Start!vars, Start!process, Start!postgres
<1> QED BY <1>1, <1>2, <1>3, <1>4, <1>5, <1>6, <1>7, <1>8 DEF Start!Next, Start!Work

-----------------------------------------------------------------------------
(* Rates, in ten-thousandths, lie between what their division allows. *)
Rounds(rate, count, n) ==
  /\ rate \in Nat
  /\ 2 * (n * rate) <= 20000 * count + n
  /\ 20000 * count <= 2 * (n * rate) + n

LEMMA RateBounds ==
  ASSUME NEW n \in Nat \ {0}, NEW count \in Nat
  PROVE  Rounds(Reports!Rate(count, n), count, n)
<1> DEFINE a == 10000 * count
           q == a \div n
           rest == a % n
<1>1. a \in Nat /\ n \in Nat /\ n > 0
  OBVIOUS
<1>2. /\ q \in Int /\ rest \in Int /\ 0 <= rest /\ rest < n
      /\ a = n * q + rest
  <2> HIDE DEF a
  <2> QED BY <1>1
<1>3. q >= 0
  <2>1. CASE q < 0
    <3>1. n * q <= -n
      <4> HIDE DEF a, q, rest
      <4> QED BY <1>1, <1>2, <2>1
    <3> HIDE DEF a, q, rest
    <3> QED BY <1>1, <1>2, <3>1
  <2> QED BY <1>2, <2>1
<1>4. n * (q + 1) = n * q + n /\ n * q \in Int
  <2> HIDE DEF q
  <2> QED BY <1>1, <1>2
<1>5. \/ 2 * rest <= n /\ Reports!Rate(count, n) = q
      \/ 2 * rest >= n /\ Reports!Rate(count, n) = q + 1
  <2>1. Reports!Rate(count, n)
          = IF 2 * rest < n \/ (2 * rest = n /\ q % 2 = 0) THEN q ELSE q + 1
    BY DEF Reports!Rate
  <2> HIDE DEF q, rest
  <2> QED BY <1>1, <1>2, <2>1
<1>6. 20000 * count = 2 * a
  OBVIOUS
<1>7. \A rate \in {q, q + 1} :
        rate \in Nat /\ 2 * (n * rate) <= 2 * a + n /\ 2 * a <= 2 * (n * rate) + n
          => Rounds(rate, count, n)
  <2> HIDE DEF a, q
  <2> QED BY <1>6 DEF Rounds
<1> HIDE DEF a, q, rest
<1>8. CASE 2 * rest <= n /\ Reports!Rate(count, n) = q
  BY <1>1, <1>2, <1>3, <1>4, <1>7, <1>8
<1>9. CASE 2 * rest >= n /\ Reports!Rate(count, n) = q + 1
  BY <1>1, <1>2, <1>3, <1>4, <1>7, <1>9
<1> QED BY <1>5, <1>8, <1>9

(* A drop of more than five points is one of the rates, and so is one of less: over
   fewer than 500 cases the rounding to four digits decides nothing. *)
LEMMA RoundingDecidesNothing ==
  ASSUME NEW n \in 1..499, NEW b \in Nat, NEW c \in Nat
  PROVE  /\ Reports!Dropped(b, c, n) => Reports!Rate(c, n) < Reports!Rate(b, n) - 500
         /\ Reports!Held(b, c, n) => Reports!Rate(c, n) > Reports!Rate(b, n) - 500
<1> DEFINE p == Reports!Rate(c, n)
           q == Reports!Rate(b, n)
<1>0. n \in Nat \ {0} /\ n <= 499
  OBVIOUS
<1>1. Rounds(p, c, n) /\ Rounds(q, b, n)
  BY <1>0, RateBounds
<1> SUFFICES /\ 20 * c + n < 20 * b => p < q - 500
             /\ 20 * b < 20 * c + n => p > q - 500
  BY DEF Reports!Dropped, Reports!Held
<1> HIDE DEF p, q
<1> USE DEF Rounds
<1>2. n * p \in Int /\ n * q \in Int /\ n * (q - 500) = n * q - 500 * n
  BY <1>1
<1>3. ASSUME 20 * b < 20 * c + n, p <= q - 500 PROVE FALSE
  <2>1. n * p <= n * (q - 500)
    BY <1>0, <1>1, <1>3
  <2>2. 20000 * c + 998 * n <= 20000 * b
    BY <1>0, <1>1, <1>2, <2>1
  <2>3. 20000 * b + 1000 <= 20000 * c + 1000 * n
    BY <1>0, <1>3
  <2> QED BY <1>0, <2>2, <2>3
<1>4. ASSUME 20 * c + n < 20 * b, p >= q - 500 PROVE FALSE
  <2>1. n * p >= n * (q - 500)
    BY <1>0, <1>1, <1>4
  <2>2. 20000 * b <= 20000 * c + 1002 * n
    BY <1>0, <1>1, <1>2, <2>1
  <2>3. 20000 * c + 1000 * n + 1000 <= 20000 * b
    BY <1>0, <1>4
  <2> QED BY <1>0, <2>2, <2>3
<1> QED BY <1>1, <1>3, <1>4

(* One case in 19999 is not rounded away, and none is not rounded up. *)
LEMMA RatedAboveZero ==
  ASSUME NEW n \in Nat \ {0}, n < 20000, NEW count \in Nat
  PROVE  Reports!Rate(count, n) > 0 <=> count > 0
<1> DEFINE q == Reports!Rate(count, n)
<1>1. Rounds(q, count, n)
  BY RateBounds
<1> HIDE DEF q
<1>2. q \in Nat
  BY <1>1 DEF Rounds
<1>3. ASSUME q = 0, count > 0 PROVE FALSE
  <2>1. n * q = 0 /\ count >= 1 /\ n < 20000
    BY <1>3
  <2> QED BY <1>1, <2>1 DEF Rounds
<1>4. ASSUME q > 0, count = 0 PROVE FALSE
  <2>1. n * q >= n
    BY <1>2, <1>4
  <2> QED BY <1>1, <1>4, <2>1 DEF Rounds
<1> QED BY <1>2, <1>3, <1>4 DEF q

(* What compare_reports may answer for two dashboards with the rates of n cases. *)
LEMMA ComparedRight ==
  ASSUME NEW n \in 1..499, NEW b \in Nat, NEW c \in Nat
  PROVE  Reports!RightlyCompared(
           Reports!LessByFivePoints(Reports!Rate(c, n), Reports!Rate(b, n)), b, c, n)
<1> DEFINE p == Reports!Rate(c, n)
           q == Reports!Rate(b, n)
<1>1. p \in Nat /\ q \in Nat
  <2>1. n \in Nat \ {0}
    OBVIOUS
  <2>2. Rounds(p, c, n) /\ Rounds(q, b, n)
    BY <2>1, RateBounds
  <2> HIDE DEF p, q
  <2> QED BY <2>2 DEF Rounds
<1>2. /\ Reports!Dropped(b, c, n) => p < q - 500
      /\ Reports!Held(b, c, n) => p > q - 500
  BY RoundingDecidesNothing
<1> HIDE DEF p, q
<1>3. /\ p < q - 500 => Reports!LessByFivePoints(p, q) = {TRUE}
      /\ p > q - 500 => Reports!LessByFivePoints(p, q) = {FALSE}
  <2>1. p # q - 500 => Reports!LessByFivePoints(p, q) = {p < q - 500}
    BY DEF Reports!LessByFivePoints
  <2>2. /\ p < q - 500 => p # q - 500 /\ (p < q - 500) = TRUE
        /\ p > q - 500 => p # q - 500 /\ (p < q - 500) = FALSE
    BY <1>1
  <2> DEFINE less == p < q - 500
  <2> HIDE DEF less
  <2>3. less = TRUE => {less} = {TRUE}
    OBVIOUS
  <2>4. less = FALSE => {less} = {FALSE}
    OBVIOUS
  <2> QED BY <2>1, <2>2, <2>3, <2>4 DEF less
<1> QED BY <1>2, <1>3 DEF Reports!RightlyCompared, p, q

LEMMA ThresholdAlwaysHolds == ThresholdHolds
<1> SUFFICES ASSUME NEW n \in 1..60, NEW baseline \in 0..n, NEW current \in 0..n
             PROVE  Reports!RightlyCompared(
                      Reports!RegressionsDetected(
                        [overall_pass_rate |-> Reports!Rate(baseline, n)],
                        [overall_pass_rate |-> Reports!Rate(current, n)]),
                      baseline, current, n)
  BY DEF ThresholdHolds
<1> DEFINE dict(k) == [overall_pass_rate |-> Reports!Rate(k, n)]
<1>1. \A k, d : Reports!Get(dict(k), "overall_pass_rate", d) = Reports!Rate(k, n)
  BY DEF Reports!Get
<1>2. Reports!RegressionsDetected(dict(baseline), dict(current))
        = Reports!LessByFivePoints(Reports!Rate(current, n), Reports!Rate(baseline, n))
  BY <1>1 DEF Reports!RegressionsDetected
<1>3. n \in 1..499 /\ baseline \in Nat /\ current \in Nat
  OBVIOUS
<1> QED BY <1>2, <1>3, ComparedRight

-----------------------------------------------------------------------------
(* Benchmark reports: what they say of the results they are made of. *)
LEMMA ReportFields ==
  ASSUME NEW res
  PROVE  LET report == Bench!Report(res) IN
         /\ report.status = "done" /\ report.results = res /\ report.total = Len(res)
         /\ report.passed = Bench!Passed(res)
         /\ report.rates = [mode \in Bench!FailureModes |->
                              Bench!Rate(Bench!Counted(res, mode), Len(res))]
BY DEF Bench!Report

LEMMA DashboardFields ==
  ASSUME NEW first, NEW second
  PROVE  LET dashboard == Bench!Dashboard(first, second)
             res == first.results \o second.results
         IN  /\ "overall_pass_rate" \in DOMAIN dashboard
             /\ dashboard.overall_pass_rate = Bench!Rate(Bench!Passed(res), Len(res))
BY DEF Bench!Dashboard

LEMMA SameCardinality == ASSUME NEW S PROVE Bench!Cardinality(S) = Cardinality(S)
BY DEF Bench!Cardinality, Cardinality

(* Counting the passed cases of two suites counts those of both. *)
LEMMA PassedOfBoth ==
  ASSUME NEW s \in Seq(Bench!CaseResult), NEW t \in Seq(Bench!CaseResult)
  PROVE  /\ Bench!Passed(s) \in Nat /\ Bench!Passed(t) \in Nat
         /\ Bench!Passed(s \o t) = Bench!Passed(s) + Bench!Passed(t)
         /\ Len(s \o t) = Len(s) + Len(t)
<1> DEFINE A == {i \in DOMAIN s : s[i].passed}
           B == {i \in DOMAIN t : t[i].passed}
           C == {i \in DOMAIN (s \o t) : (s \o t)[i].passed}
           m == Len(s)
           n == Len(t)
           Later == {m + i : i \in B}
<1>1. /\ m \in Nat /\ n \in Nat /\ DOMAIN s = 1..m /\ DOMAIN t = 1..n
      /\ s \o t \in Seq(Bench!CaseResult) /\ Len(s \o t) = m + n /\ DOMAIN (s \o t) = 1..(m + n)
  BY LenProperties, ConcatProperties
<1>2. \A i \in 1..(m + n) : (s \o t)[i] = IF i <= m THEN s[i] ELSE t[i - m]
  BY <1>1, ConcatProperties
<1>3. /\ IsFiniteSet(A) /\ Cardinality(A) \in Nat
      /\ IsFiniteSet(B) /\ Cardinality(B) \in Nat
  <2>1. A \in SUBSET (1..m) /\ B \in SUBSET (1..n)
    BY <1>1
  <2>2. IsFiniteSet(1..m) /\ IsFiniteSet(1..n)
    BY <1>1, FS_Interval
  <2> QED BY <2>1, <2>2, FS_Subset, FS_CardinalityType
<1>4. A \subseteq 1..m /\ B \subseteq 1..n
  BY <1>1
<1> HIDE DEF A, B
<1>5. IsFiniteSet(Later) /\ Cardinality(Later) = Cardinality(B)
  <2> DEFINE f == [i \in B |-> m + i]
  <2>1. f \in [B -> Later]
    OBVIOUS
  <2>2. \A i, j \in B : f[i] = f[j] => i = j
    BY <1>1, <1>4
  <2>3. \A x \in Later : \E i \in B : f[i] = x
    OBVIOUS
  <2>4. f \in Bijection(B, Later)
    BY <2>1, <2>2, <2>3, Fun_IsBij
  <2>5. ExistsBijection(B, Later)
    BY <2>4 DEF ExistsBijection
  <2> HIDE DEF f, Later
  <2> QED BY <2>5, <1>3, FS_Bijection
<1>6. A \cap Later = {}
  BY <1>1, <1>4
<1>7. C = A \cup Later
  <2>1. ASSUME NEW i \in 1..(m + n), i <= m
        PROVE  i \in C <=> i \in A \cup Later
    <3>1. i \in C <=> s[i].passed
      BY <1>1, <1>2, <2>1
    <3>2. i \notin Later
      BY <1>1, <1>4, <2>1
    <3> QED BY <1>1, <2>1, <3>1, <3>2 DEF A
  <2>2. ASSUME NEW i \in 1..(m + n), i > m
        PROVE  i \in C <=> i \in A \cup Later
    <3>1. i - m \in 1..n /\ i = m + (i - m)
      BY <1>1, <2>2
    <3>2. i \in C <=> t[i - m].passed
      BY <1>1, <1>2, <2>2
    <3>3. i \notin A
      BY <1>1, <1>4, <2>2
    <3>4. i \in Later <=> i - m \in B
      BY <1>1, <1>4, <3>1
    <3> QED BY <1>1, <3>1, <3>2, <3>3, <3>4 DEF B
  <2>3. C \subseteq 1..(m + n) /\ A \cup Later \subseteq 1..(m + n)
    BY <1>1, <1>4
  <2> HIDE DEF C, Later
  <2>4. \A i \in 1..(m + n) : i <= m \/ i > m
    BY <1>1
  <2> QED BY <2>1, <2>2, <2>3, <2>4
<1>8. Cardinality(C) = Cardinality(A) + Cardinality(B)
  <2> HIDE DEF C, Later
  <2>1. Cardinality(A \cap Later) = 0
    BY <1>6, FS_EmptySet
  <2>2. Cardinality(A \cup Later)
          = Cardinality(A) + Cardinality(Later) - Cardinality(A \cap Later)
    BY <1>3, <1>5, FS_Union
  <2> QED BY <1>3, <1>5, <1>7, <2>1, <2>2
<1>9. Bench!Passed(s) = Cardinality(A) /\ Bench!Passed(t) = Cardinality(B)
  BY SameCardinality DEF Bench!Passed, A, B
<1>10. Bench!Passed(s \o t) = Cardinality(C)
  BY SameCardinality DEF Bench!Passed
<1> HIDE DEF C
<1> QED BY <1>1, <1>3, <1>8, <1>9, <1>10

-----------------------------------------------------------------------------
(* Benchmark runs. A case that failed carries one plain failure mode or some that
   its analysis recorded, and one that passed no plain one. *)
NoPlain(result) == \A mode \in Bench!FailureModes : Bench!Plain(mode) \notin result.modes

Named(result) ==
  IF result.passed THEN NoPlain(result)
  ELSE \/ \E mode \in Bench!FailureModes : result.modes = {Bench!Plain(mode)}
       \/ result.modes # {} /\ NoPlain(result)

CasesOfSuite(res) ==
  /\ res \in Seq(Bench!CaseResult) /\ Len(res) <= SuiteCases
  /\ \A i \in 1..Len(res) : Named(res[i])

Whole(res) == CasesOfSuite(res) /\ Len(res) = SuiteCases

BenchInv ==
  /\ DOMAIN stored = BenchmarkRunIds /\ DOMAIN taskPc = BenchmarkRunIds
  /\ DOMAIN results = BenchmarkRunIds
  /\ \A r \in BenchmarkRunIds :
       /\ CasesOfSuite(results[r])
       /\ taskPc[r] = "store" => Whole(results[r])
       /\ Bench!Done(r) =>
            /\ taskPc[r] = "over"
            /\ \E res : Whole(res) /\ stored[r] = Bench!Report(res)

LEMMA NoCases ==
  ASSUME Bench!BenchmarkAssumption
  PROVE  CasesOfSuite(<<>>)
BY EmptySeq DEF CasesOfSuite, Bench!BenchmarkAssumption

LEMMA OneMoreCase ==
  ASSUME NEW res, CasesOfSuite(res), Len(res) < SuiteCases, Bench!BenchmarkAssumption,
         NEW result \in Bench!CaseResult, Named(result)
  PROVE  CasesOfSuite(Append(res, result))
<1> DEFINE longer == Append(res, result)
<1>1. /\ longer \in Seq(Bench!CaseResult) /\ Len(longer) = Len(res) + 1
      /\ \A i \in 1..Len(res) : longer[i] = res[i]
      /\ longer[Len(res) + 1] = result
  BY AppendProperties DEF CasesOfSuite
<1>2. Len(res) \in Nat /\ SuiteCases \in Nat
  BY LenProperties DEF CasesOfSuite, Bench!BenchmarkAssumption
<1> HIDE DEF longer
<1>3. \A i \in 1..Len(longer) : i \in 1..Len(res) \/ i = Len(res) + 1
  BY <1>1, <1>2
<1>4. \A i \in 1..Len(longer) : Named(longer[i])
  BY <1>1, <1>3 DEF CasesOfSuite
<1> QED BY <1>1, <1>2, <1>4 DEF CasesOfSuite, longer

(* Every result a case may have is one. *)
LEMMA ResultsOfCases ==
  ASSUME Bench!BenchmarkAssumption, NEW latency \in LatencySet
  PROVE  /\ Bench!Crashed(latency) \in Bench!CaseResult /\ Named(Bench!Crashed(latency))
         /\ \A passed \in BOOLEAN, recorded \in Recorded, hint \in Details :
              LET result == Bench!Classified(passed, latency, recorded, hint) IN
              result \in Bench!CaseResult /\ Named(result)
<1>1. latency \in Nat
  BY DEF Bench!BenchmarkAssumption
<1>2. Bench!Crashed(latency) \in Bench!CaseResult /\ Named(Bench!Crashed(latency))
  BY <1>1 DEF Bench!Crashed, Bench!CaseResult, Bench!ModeText, Bench!Plain, Bench!FailureModes,
              Named
<1>3. ASSUME NEW passed \in BOOLEAN, NEW recorded \in Recorded, NEW hint \in Details
      PROVE  LET result == Bench!Classified(passed, latency, recorded, hint) IN
             result \in Bench!CaseResult /\ Named(result)
  <2>1. PICK mode \in Bench!FailureModes : Bench!Inferred(hint) = {Bench!Plain(mode)}
    BY DEF Bench!Inferred, Bench!FailureModes
  <2>2. recorded \subseteq Bench!FailureModes
    BY DEF Bench!BenchmarkAssumption
  <2>3. \A m \in Bench!FailureModes :
          Bench!Plain(m) \in Bench!ModeText /\ Bench!Str(m) \in Bench!ModeText
    BY DEF Bench!Plain, Bench!Str, Bench!ModeText
  <2>4. CASE ~passed /\ recorded = {}
    <3>1. Bench!Classified(passed, latency, recorded, hint)
            = [passed |-> passed, latency |-> latency, modes |-> {Bench!Plain(mode)}]
      BY <2>1, <2>4 DEF Bench!Classified
    <3> QED BY <1>1, <2>3, <2>4, <3>1 DEF Bench!CaseResult, Named
  <2>5. CASE passed \/ recorded # {}
    <3> DEFINE modes == {Bench!Str(m) : m \in recorded}
    <3>1. Bench!Classified(passed, latency, recorded, hint)
            = [passed |-> passed, latency |-> latency, modes |-> modes]
      BY <2>5 DEF Bench!Classified
    <3>2. \A m, k : Bench!Plain(m) # Bench!Str(k)
      BY DEF Bench!Plain, Bench!Str
    <3>3. modes \subseteq Bench!ModeText /\ \A m : Bench!Plain(m) \notin modes
      BY <2>2, <2>3, <3>2
    <3>4. ~passed => modes # {}
      BY <2>5
    <3> HIDE DEF modes
    <3> QED BY <1>1, <3>1, <3>3, <3>4 DEF Bench!CaseResult, Named, NoPlain
  <2> QED BY <2>4, <2>5
<1> QED BY <1>2, <1>3

LEMMA BenchInitially == Bench!BenchmarkAssumption /\ Bench!Init => BenchInv
BY NoCases DEF Bench!Init, BenchInv, Bench!Done, Bench!Missing, Bench!Status

(* What is written to Redis: a status, a report or nothing. *)
LEMMA Written ==
  ASSUME BenchInv, NEW r \in BenchmarkRunIds, NEW value, Bench!SetJson(r, value)
  PROVE  /\ DOMAIN stored' = BenchmarkRunIds
         /\ stored'[r] \in {stored[r], value}
         /\ \A q \in BenchmarkRunIds \ {r} : stored'[q] = stored[q]
BY DEF Bench!SetJson, BenchInv

LEMMA Moved ==
  ASSUME BenchInv, NEW r \in BenchmarkRunIds, NEW from, NEW to, Bench!Step(r, from, to)
  PROVE  /\ DOMAIN taskPc' = BenchmarkRunIds
         /\ taskPc[r] = from /\ taskPc'[r] = to
         /\ \A q \in BenchmarkRunIds \ {r} : taskPc'[q] = taskPc[q]
BY DEF Bench!Step, BenchInv

(* A step of the task of one run, or of its record: the others are as they were. *)
LEMMA OneRunMoves ==
  ASSUME BenchInv, NEW r \in BenchmarkRunIds,
         DOMAIN stored' = BenchmarkRunIds, DOMAIN taskPc' = BenchmarkRunIds,
         DOMAIN results' = BenchmarkRunIds,
         \A q \in BenchmarkRunIds \ {r} :
           stored'[q] = stored[q] /\ taskPc'[q] = taskPc[q] /\ results'[q] = results[q],
         CasesOfSuite(results'[r]),
         taskPc'[r] = "store" => Whole(results'[r]),
         stored'[r].status = "done" =>
            taskPc'[r] = "over" /\ \E res : Whole(res) /\ stored'[r] = Bench!Report(res)
  PROVE  BenchInv'
<1>1. ASSUME NEW q \in BenchmarkRunIds
      PROVE  /\ CasesOfSuite(results'[q])
             /\ taskPc'[q] = "store" => Whole(results'[q])
             /\ stored'[q].status = "done" =>
                  taskPc'[q] = "over" /\ \E res : Whole(res) /\ stored'[q] = Bench!Report(res)
  BY <1>1 DEF BenchInv, Bench!Done
<1> QED BY <1>1 DEF BenchInv, Bench!Done

LEMMA BenchStep ==
  ASSUME Bench!BenchmarkAssumption, BenchInv, [Bench!Next]_Bench!vars
  PROVE  BenchInv' /\ \A r \in BenchmarkRunIds :
                        Bench!Done(r) => stored'[r] \in {stored[r], Bench!Missing}
<1> DEFINE Kept == \A r \in BenchmarkRunIds :
                     Bench!Done(r) => stored'[r] \in {stored[r], Bench!Missing}
<1>0. \A r \in BenchmarkRunIds : Bench!Done(r) => taskPc[r] = "over"
  BY DEF BenchInv
<1>1. CASE UNCHANGED Bench!vars
  BY <1>1 DEF Bench!vars, BenchInv, Bench!Done
<1>2. ASSUME NEW r \in BenchmarkRunIds, Bench!StartRun(r)
      PROVE  BenchInv' /\ Kept
  <2>1. Bench!Step(r, "idle", "case") /\ Bench!SetJson(r, Bench!Status("running"))
        /\ results' = results
    BY <1>2 DEF Bench!StartRun
  <2>2. stored'[r] \in {stored[r], Bench!Status("running")} /\ ~Bench!Done(r)
    BY <1>0, <2>1, Written, Moved
  <2>3. stored'[r].status # "done"
    BY <2>2 DEF Bench!Done, Bench!Status
  <2>4. CasesOfSuite(results'[r]) /\ DOMAIN results' = BenchmarkRunIds
    BY <2>1 DEF BenchInv
  <2>5. /\ DOMAIN stored' = BenchmarkRunIds
        /\ \A q \in BenchmarkRunIds \ {r} : stored'[q] = stored[q]
    BY <2>1, Written
  <2>6. /\ DOMAIN taskPc' = BenchmarkRunIds /\ taskPc'[r] = "case"
        /\ \A q \in BenchmarkRunIds \ {r} : taskPc'[q] = taskPc[q]
    BY <2>1, Moved
  <2>7. BenchInv'
    BY <2>1, <2>3, <2>4, <2>5, <2>6, OneRunMoves
  <2> QED BY <2>2, <2>5, <2>7
<1>3. ASSUME NEW r \in BenchmarkRunIds, Bench!ScoreCase(r) \/ Bench!FailCase(r)
      PROVE  BenchInv' /\ Kept
  <2>1. /\ Bench!Step(r, "case", "case")
        /\ \E latency \in LatencySet :
             \/ Bench!AddResult(r, Bench!Crashed(latency))
             \/ \E passed \in BOOLEAN, recorded \in Recorded, hint \in Details :
                  Bench!AddResult(r, Bench!Classified(passed, latency, recorded, hint))
    BY <1>3 DEF Bench!ScoreCase, Bench!FailCase
  <2>2. PICK result \in Bench!CaseResult : Named(result) /\ Bench!AddResult(r, result)
    BY <2>1, ResultsOfCases
  <2>3. /\ Len(results[r]) < SuiteCases /\ stored' = stored
        /\ results' = [results EXCEPT ![r] = Append(@, result)]
    BY <2>2 DEF Bench!AddResult
  <2>4. /\ DOMAIN results' = BenchmarkRunIds /\ results'[r] = Append(results[r], result)
        /\ \A q \in BenchmarkRunIds \ {r} : results'[q] = results[q]
    BY <2>3 DEF BenchInv
  <2>5. CasesOfSuite(results[r])
    BY DEF BenchInv
  <2>6. CasesOfSuite(results'[r])
    BY <2>2, <2>3, <2>4, <2>5, OneMoreCase
  <2>7. /\ DOMAIN taskPc' = BenchmarkRunIds /\ taskPc[r] = "case" /\ taskPc'[r] = "case"
        /\ \A q \in BenchmarkRunIds \ {r} : taskPc'[q] = taskPc[q]
    BY <2>1, Moved
  <2>8. ~Bench!Done(r) /\ DOMAIN stored = BenchmarkRunIds
    BY <1>0, <2>7 DEF BenchInv
  <2>9. BenchInv'
    BY <2>3, <2>4, <2>6, <2>7, <2>8, OneRunMoves DEF Bench!Done
  <2> QED BY <2>3, <2>9
<1>4. ASSUME NEW r \in BenchmarkRunIds,
             \/ Bench!SuiteRaises(r) \/ Bench!FinishSuite(r) \/ Bench!Crash(r)
      PROVE  BenchInv' /\ Kept
  <2>1. /\ stored' = stored /\ taskPc[r] # "over"
        /\ \/ results'[r] = <<>> /\ taskPc'[r] # "store"
           \/ results'[r] = results[r] /\ Len(results[r]) = SuiteCases
    <3>1. CASE Bench!SuiteRaises(r)
      BY <3>1 DEF Bench!SuiteRaises, Bench!Step, BenchInv
    <3>2. CASE Bench!FinishSuite(r)
      BY <3>2 DEF Bench!FinishSuite, Bench!Step, BenchInv
    <3>3. CASE Bench!Crash(r)
      BY <3>3 DEF Bench!Crash, BenchInv
    <3> QED BY <1>4, <3>1, <3>2, <3>3
  <2>2. /\ DOMAIN results' = BenchmarkRunIds /\ DOMAIN taskPc' = BenchmarkRunIds
        /\ \A q \in BenchmarkRunIds \ {r} :
             taskPc'[q] = taskPc[q] /\ results'[q] = results[q]
    BY <1>4 DEF Bench!SuiteRaises, Bench!FinishSuite, Bench!Crash, Bench!Step, BenchInv
  <2>3. CasesOfSuite(results'[r]) /\ (taskPc'[r] = "store" => Whole(results'[r]))
    BY <2>1, NoCases DEF BenchInv, Whole
  <2>4. ~Bench!Done(r) /\ DOMAIN stored = BenchmarkRunIds
    BY <1>0, <2>1 DEF BenchInv
  <2>5. BenchInv'
    BY <2>1, <2>2, <2>3, <2>4, OneRunMoves DEF Bench!Done
  <2> QED BY <2>1, <2>5
<1>5. ASSUME NEW r \in BenchmarkRunIds, Bench!StoreReport(r)
      PROVE  BenchInv' /\ Kept
  <2>1. /\ Bench!Step(r, "store", "over") /\ Bench!SetJson(r, Bench!Report(results[r]))
        /\ results' = [results EXCEPT ![r] = <<>>]
    BY <1>5 DEF Bench!StoreReport
  <2>2. /\ DOMAIN results' = BenchmarkRunIds /\ results'[r] = <<>>
        /\ \A q \in BenchmarkRunIds \ {r} : results'[q] = results[q]
    BY <2>1 DEF BenchInv
  <2>3. /\ DOMAIN taskPc' = BenchmarkRunIds /\ taskPc[r] = "store" /\ taskPc'[r] = "over"
        /\ \A q \in BenchmarkRunIds \ {r} : taskPc'[q] = taskPc[q]
    BY <2>1, Moved
  <2>4. ~Bench!Done(r) /\ Whole(results[r])
    BY <1>0, <2>3 DEF BenchInv
  <2>5. /\ DOMAIN stored' = BenchmarkRunIds
        /\ stored'[r] \in {stored[r], Bench!Report(results[r])}
        /\ \A q \in BenchmarkRunIds \ {r} : stored'[q] = stored[q]
    BY <2>1, Written
  <2>6. stored'[r].status = "done" => stored'[r] = Bench!Report(results[r])
    BY <2>4, <2>5 DEF Bench!Done
  <2>7. BenchInv'
    BY <2>2, <2>3, <2>4, <2>5, <2>6, NoCases, OneRunMoves
  <2> QED BY <2>4, <2>5, <2>7
<1>6. ASSUME NEW r \in BenchmarkRunIds, Bench!StoreFailure(r)
      PROVE  BenchInv' /\ Kept
  <2>1. /\ Bench!Step(r, "raised", "over") /\ Bench!SetJson(r, Bench!Status("failed"))
        /\ results' = results
    BY <1>6 DEF Bench!StoreFailure
  <2>2. stored'[r] \in {stored[r], Bench!Status("failed")} /\ ~Bench!Done(r)
    BY <1>0, <2>1, Written, Moved
  <2>3. stored'[r].status # "done"
    BY <2>2 DEF Bench!Done, Bench!Status
  <2>4. CasesOfSuite(results'[r]) /\ DOMAIN results' = BenchmarkRunIds
    BY <2>1 DEF BenchInv
  <2>5. /\ DOMAIN stored' = BenchmarkRunIds
        /\ \A q \in BenchmarkRunIds \ {r} : stored'[q] = stored[q]
    BY <2>1, Written
  <2>6. /\ DOMAIN taskPc' = BenchmarkRunIds /\ taskPc'[r] = "over"
        /\ \A q \in BenchmarkRunIds \ {r} : taskPc'[q] = taskPc[q]
    BY <2>1, Moved
  <2>7. BenchInv'
    BY <2>1, <2>3, <2>4, <2>5, <2>6, OneRunMoves
  <2> QED BY <2>2, <2>5, <2>7
<1>7. ASSUME NEW r \in BenchmarkRunIds, Bench!Expire(r)
      PROVE  BenchInv' /\ Kept
  <2>1. /\ stored' = [stored EXCEPT ![r] = Bench!Missing]
        /\ taskPc' = taskPc /\ results' = results
    BY <1>7 DEF Bench!Expire
  <2>2. /\ DOMAIN stored' = BenchmarkRunIds /\ stored'[r] = Bench!Missing
        /\ \A q \in BenchmarkRunIds \ {r} : stored'[q] = stored[q]
    BY <2>1 DEF BenchInv
  <2>3. stored'[r].status # "done"
    BY <2>2 DEF Bench!Missing, Bench!Status
  <2>4. /\ CasesOfSuite(results[r]) /\ (taskPc[r] = "store" => Whole(results[r]))
        /\ DOMAIN taskPc = BenchmarkRunIds /\ DOMAIN results = BenchmarkRunIds
    BY DEF BenchInv
  <2>5. BenchInv'
    BY <2>1, <2>2, <2>3, <2>4, OneRunMoves
  <2> QED BY <2>2, <2>5
<1>8. ASSUME NEW r \in BenchmarkRunIds, Bench!ReadBaseline(r) \/ Bench!AnswerCompare(r)
      PROVE  BenchInv' /\ Kept
  <2>1. UNCHANGED <<stored, taskPc, results>>
    BY <1>8 DEF Bench!ReadBaseline, Bench!AnswerCompare
  <2> QED BY <2>1 DEF BenchInv, Bench!Done
<1> QED
  BY <1>1, <1>2, <1>3, <1>4, <1>5, <1>6, <1>7, <1>8 DEF Bench!Next, Bench!Task

LEMMA BenchInvariant == Bench!BenchmarkAssumption /\ Bench!Spec => []BenchInv
<1> SUFFICES ASSUME Bench!BenchmarkAssumption PROVE Bench!Spec => []BenchInv
  OBVIOUS
<1> QED BY BenchInitially, BenchStep, PTL DEF Bench!Spec

(* A mode is counted if and only if one of the results carries it. *)
LEMMA CountedAboveZero ==
  ASSUME NEW res \in Seq(Bench!CaseResult), NEW mode
  PROVE  /\ Bench!Counted(res, mode) \in Nat
         /\ Bench!Counted(res, mode) > 0
              <=> \E i \in 1..Len(res) : Bench!Plain(mode) \in res[i].modes
<1> DEFINE S == {k \in DOMAIN res : Bench!Plain(mode) \in res[k].modes}
<1>1. Len(res) \in Nat /\ DOMAIN res = 1..Len(res)
  BY LenProperties
<1>2. IsFiniteSet(1..Len(res)) /\ S \in SUBSET (1..Len(res))
  BY <1>1, FS_Interval
<1>3. Bench!Counted(res, mode) = Cardinality(S)
  BY SameCardinality DEF Bench!Counted
<1>4. S # {} <=> \E i \in 1..Len(res) : Bench!Plain(mode) \in res[i].modes
  BY <1>1
<1> HIDE DEF S
<1>5. IsFiniteSet(S) /\ Cardinality(S) \in Nat
  BY <1>2, FS_Subset, FS_CardinalityType
<1>6. Cardinality(S) = 0 <=> S = {}
  BY <1>5, FS_EmptySet
<1> QED BY <1>3, <1>4, <1>5, <1>6

LEMMA SameRate == \A count, n : Bench!Rate(count, n) = Reports!Rate(count, n)
BY DEF Bench!Rate, Reports!Rate

LEMMA FinishedAreNamed ==
  ASSUME Bench!BenchmarkAssumption, SuiteCases < 20000, BenchInv
  PROVE  FailuresAreNamed
<1> SUFFICES
      ASSUME NEW r \in BenchmarkRunIds, Bench!Done(r)
      PROVE  /\ stored[r].total = SuiteCases
             /\ \A i \in 1..SuiteCases :
                  IF stored[r].results[i].passed THEN Bench!CountedUnder(stored[r], i) = {}
                  ELSE \/ \E mode \in Bench!FailureModes :
                            /\ stored[r].results[i].modes = {Bench!Plain(mode)}
                            /\ stored[r].rates[mode] > 0
                       \/ /\ stored[r].results[i].modes # {}
                          /\ Bench!CountedUnder(stored[r], i) = {}
             /\ \A mode \in Bench!FailureModes : stored[r].rates[mode] > 0 =>
                  \E i \in 1..SuiteCases : mode \in Bench!CountedUnder(stored[r], i)
  BY DEF FailuresAreNamed, Bench!FailuresAreNamed, Bench!Finished
<1>1. PICK res : Whole(res) /\ stored[r] = Bench!Report(res)
  BY DEF BenchInv
<1>2. /\ stored[r].results = res /\ stored[r].total = Len(res)
      /\ stored[r].rates = [mode \in Bench!FailureModes |->
                              Bench!Rate(Bench!Counted(res, mode), Len(res))]
  BY <1>1, ReportFields
<1>3. /\ res \in Seq(Bench!CaseResult) /\ Len(res) = SuiteCases
      /\ \A i \in 1..SuiteCases : Named(res[i])
  BY <1>1 DEF Whole, CasesOfSuite
<1>4. SuiteCases \in Nat \ {0}
  BY DEF Bench!BenchmarkAssumption
<1>5. ASSUME NEW mode \in Bench!FailureModes
      PROVE  stored[r].rates[mode] > 0
               <=> \E i \in 1..SuiteCases : Bench!Plain(mode) \in res[i].modes
  <2>1. stored[r].rates[mode] = Reports!Rate(Bench!Counted(res, mode), SuiteCases)
    BY <1>2, <1>3, SameRate
  <2>2. Bench!Counted(res, mode) \in Nat
    BY <1>3, CountedAboveZero
  <2>3. Reports!Rate(Bench!Counted(res, mode), SuiteCases) > 0
          <=> Bench!Counted(res, mode) > 0
    BY <1>4, <2>2, RatedAboveZero
  <2> QED BY <1>3, <2>1, <2>3, CountedAboveZero
<1>6. \A i : Bench!CountedUnder(stored[r], i)
               = {mode \in Bench!FailureModes : Bench!Plain(mode) \in res[i].modes}
  BY <1>2 DEF Bench!CountedUnder
<1>7. ASSUME NEW i \in 1..SuiteCases
      PROVE  IF res[i].passed THEN Bench!CountedUnder(stored[r], i) = {}
             ELSE \/ \E mode \in Bench!FailureModes :
                       res[i].modes = {Bench!Plain(mode)} /\ stored[r].rates[mode] > 0
                  \/ res[i].modes # {} /\ Bench!CountedUnder(stored[r], i) = {}
  <2>1. Named(res[i])
    BY <1>3
  <2>2. NoPlain(res[i]) => Bench!CountedUnder(stored[r], i) = {}
    BY <1>6 DEF NoPlain
  <2>3. \A mode \in Bench!FailureModes :
          res[i].modes = {Bench!Plain(mode)} => stored[r].rates[mode] > 0
    BY <1>5
  <2> QED BY <2>1, <2>2, <2>3 DEF Named
<1>8. \A mode \in Bench!FailureModes : stored[r].rates[mode] > 0 =>
        \E i \in 1..SuiteCases : mode \in Bench!CountedUnder(stored[r], i)
  BY <1>5, <1>6
<1> QED BY <1>2, <1>3, <1>7, <1>8

LEMMA DashboardsAreRight ==
  ASSUME Bench!BenchmarkAssumption, 2 * SuiteCases < 500, BenchInv
  PROVE  DashboardsShowRegressions
<1> SUFFICES ASSUME NEW b \in BenchmarkRunIds, NEW c \in BenchmarkRunIds,
                    NEW other \in BenchmarkRunIds,
                    Bench!Done(b), Bench!Done(c), Bench!Done(other)
             PROVE  Bench!RightlyCompared(
                      Bench!RegressionsDetected(Bench!Dashboard(stored[b], stored[other]),
                                                Bench!Dashboard(stored[c], stored[other])),
                      stored[b].passed + stored[other].passed,
                      stored[c].passed + stored[other].passed,
                      2 * SuiteCases)
  BY ThresholdAlwaysHolds
  DEF DashboardsShowRegressions, Bench!DashboardsShowRegressions, Bench!Finished
<1> DEFINE n == 2 * SuiteCases
           board(r) == Bench!Dashboard(stored[r], stored[other])
           both(r) == stored[r].passed + stored[other].passed
<1>1. SuiteCases \in Nat /\ n \in 1..499
  BY DEF Bench!BenchmarkAssumption
<1>2. ASSUME NEW r \in BenchmarkRunIds, Bench!Done(r)
      PROVE  /\ "overall_pass_rate" \in DOMAIN board(r)
             /\ board(r).overall_pass_rate = Reports!Rate(both(r), n)
             /\ both(r) \in Nat
  <2>1. PICK s : Whole(s) /\ stored[r] = Bench!Report(s)
    BY <1>2 DEF BenchInv
  <2>2. PICK t : Whole(t) /\ stored[other] = Bench!Report(t)
    BY DEF BenchInv
  <2>3. /\ s \in Seq(Bench!CaseResult) /\ t \in Seq(Bench!CaseResult)
        /\ Len(s) = SuiteCases /\ Len(t) = SuiteCases
    BY <2>1, <2>2 DEF Whole, CasesOfSuite
  <2>4. /\ stored[r].results = s /\ stored[r].passed = Bench!Passed(s)
        /\ stored[other].results = t /\ stored[other].passed = Bench!Passed(t)
    BY <2>1, <2>2, ReportFields
  <2>5. /\ Bench!Passed(s) \in Nat /\ Bench!Passed(t) \in Nat
        /\ Bench!Passed(s \o t) = Bench!Passed(s) + Bench!Passed(t)
        /\ Len(s \o t) = n
    BY <1>1, <2>3, PassedOfBoth
  <2>6. /\ "overall_pass_rate" \in DOMAIN board(r)
        /\ board(r).overall_pass_rate = Bench!Rate(Bench!Passed(s \o t), Len(s \o t))
    BY <2>4, DashboardFields
  <2> HIDE DEF n, board
  <2> QED BY <2>4, <2>5, <2>6, SameRate
<1>3. \A d : \A r \in {b, c} :
        Bench!Get(board(r), "overall_pass_rate", d) = Reports!Rate(both(r), n)
  <2> HIDE DEF n, board, both
  <2> QED BY <1>2 DEF Bench!Get
<1>4. Bench!RegressionsDetected(board(b), board(c))
        = Reports!LessByFivePoints(Reports!Rate(both(c), n), Reports!Rate(both(b), n))
  <2> HIDE DEF n, board, both
  <2> QED BY <1>3 DEF Bench!RegressionsDetected, Bench!LessByFivePoints,
                      Reports!LessByFivePoints
<1>5. Reports!RightlyCompared(Bench!RegressionsDetected(board(b), board(c)), both(b), both(c), n)
  <2> HIDE DEF n, board, both
  <2> QED BY <1>1, <1>2, <1>4, ComparedRight
<1>6. Bench!RightlyCompared(Bench!RegressionsDetected(board(b), board(c)), both(b), both(c), n)
  <2> HIDE DEF n, board, both
  <2> QED BY <1>5 DEF Reports!RightlyCompared, Bench!RightlyCompared, Reports!Dropped,
                      Bench!Dropped, Reports!Held, Bench!Held
<1> HIDE DEF board
<1> QED BY <1>6 DEF board

-----------------------------------------------------------------------------
(* The composition: a behaviour of the service is one of each of its parts. *)
LEMMA ServiceIsItsParts ==
  ServiceSpec =>
    /\ Start!Init /\ [][Start!Next]_Start!vars
    /\ Init /\ [][Next]_vars
    /\ Eval!Init /\ [][Eval!Next]_evalVars
    /\ Bench!Init /\ [][Bench!Next]_Bench!vars
<1>1. ServiceInit => Start!Init /\ Init /\ Eval!Init /\ Bench!Init
  BY DEF ServiceInit
<1>2. ASSUME [ServiceNext]_serviceVars
      PROVE  /\ [Start!Next]_Start!vars /\ [Next]_vars
             /\ [Eval!Next]_evalVars /\ [Bench!Next]_Bench!vars
  <2>1. CASE Context(Next)
    BY <2>1 DEF Context, startVars, benchVars, Start!vars, Start!process, Start!postgres,
                Start!duckdb, Bench!vars
  <2>2. CASE Starting(Start!Next)
    BY <2>2 DEF Starting, benchVars, Bench!vars
  <2>3. CASE Evaluating(Eval!Next)
    BY <2>3 DEF Evaluating, startVars, benchVars, Start!vars, Start!process, Start!postgres,
                Start!duckdb, Bench!vars
  <2>4. CASE Benchmarking(Bench!Next)
    BY <2>4 DEF Benchmarking, startVars, Start!vars, Start!process, Start!postgres,
                Start!duckdb
  <2>5. CASE UNCHANGED serviceVars
    BY <2>5 DEF serviceVars, startVars, benchVars, Start!vars, Start!process, Start!postgres,
                Start!duckdb, Bench!vars
  <2> QED BY <1>2, <2>1, <2>2, <2>3, <2>4, <2>5 DEF ServiceNext
<1> QED BY <1>1, <1>2, PTL DEF ServiceSpec

(* The theorems of EvalRunsProofs, of the evaluations of the service. *)
EvalP == INSTANCE EvalRunsProofs WITH
  Suite <- MonitorSuite, Faults <- EvalFaults, stored <- evalStored, pc <- evalPc,
  results <- evalResults, attempt <- retry

LEMMA EvaluationsAreEvalRuns == Eval!Init /\ [][Eval!Next]_evalVars => EvalP!Spec
<1>1. Eval!Init => EvalP!Init
  BY DEF Eval!Init, EvalP!Init, Eval!Status, EvalP!Status, Eval!Cases, EvalP!Cases
<1>2. Eval!Next => EvalP!Next
  BY Zenon
  DEF Eval!Next, EvalP!Next, Eval!StartRun, EvalP!StartRun, Eval!WorkerStep, EvalP!WorkerStep,
      Eval!WorkerFault, EvalP!WorkerFault, Eval!Expire, EvalP!Expire, Eval!RunCase,
      EvalP!RunCase, Eval!ScoreExact, EvalP!ScoreExact, Eval!JudgeAnswers,
      EvalP!JudgeAnswers, Eval!FinishPass, EvalP!FinishPass, Eval!StoreReport,
      EvalP!StoreReport, Eval!Publish, EvalP!Publish, Eval!FailCase, EvalP!FailCase,
      Eval!JudgeRetries, EvalP!JudgeRetries, Eval!JudgeRaises, EvalP!JudgeRaises,
      Eval!ContextRaises, EvalP!ContextRaises, Eval!Crash, EvalP!Crash, Eval!PassRaises,
      EvalP!PassRaises, Eval!RetryLeft, EvalP!RetryLeft, Eval!AddResult,
      EvalP!AddResult, Eval!WriteRow, EvalP!WriteRow, Eval!Logged, EvalP!Logged,
      Eval!SetJson, EvalP!SetJson, Eval!Status, EvalP!Status, Eval!Case, EvalP!Case,
      Eval!Cases, EvalP!Cases, Eval!Answers, EvalP!Answers, Eval!ActionFor,
      EvalP!ActionFor, Eval!DetectSignal, EvalP!DetectSignal, Eval!DecideAction,
      EvalP!DecideAction, Eval!ClassifySignal, EvalP!ClassifySignal, Eval!NoSignal,
      EvalP!NoSignal, Eval!Detection, EvalP!Detection, Eval!ActionMatrix,
      EvalP!ActionMatrix, Eval!DefaultAction, EvalP!DefaultAction, Eval!Kinds,
      EvalP!Kinds, Eval!Severities, EvalP!Severities, Eval!Min, EvalP!Min
<1>3. UNCHANGED evalVars => UNCHANGED EvalP!vars
  BY DEF evalVars, EvalP!vars
<1> QED BY <1>1, <1>2, <1>3, PTL DEF EvalP!Spec

(* The shipped suite of the monitor agent expects what the rules make of it. *)
LEMMA OnlyOneIsLeast == \A i \in Nat : EvalP!Min({i}) = i
BY DEF EvalP!Min

LEMMA SuiteExpectsTheRules == EvalP!ExpectsTheRules
<1> DEFINE breached(m) == {i \in DOMAIN EvalP!Detection :
                             EvalP!Detection[i].metric = m /\ Beyond(m).beyond}
<1>1. /\ breached("error_rate") = {1} /\ breached("queue_depth") = {4}
      /\ breached("disk_free_percent") = {5}
  BY DEF Beyond, EvalP!Detection
<1>2. /\ EvalP!DetectSignal(Beyond("error_rate"))
           = [kind |-> "error_burst", severity |-> "critical"]
      /\ EvalP!DetectSignal(Beyond("queue_depth"))
           = [kind |-> "backlog_growth", severity |-> "medium"]
      /\ EvalP!DetectSignal(Beyond("disk_free_percent"))
           = [kind |-> "capacity_exhaustion", severity |-> "low"]
  BY <1>1, OnlyOneIsLeast DEF EvalP!DetectSignal, EvalP!Detection, Beyond
<1>3. /\ EvalP!DecideAction([kind |-> "error_burst", severity |-> "critical"])
           = "require_approval"
      /\ EvalP!DecideAction([kind |-> "backlog_growth", severity |-> "medium"]) = "auto_act"
      /\ EvalP!DecideAction([kind |-> "capacity_exhaustion", severity |-> "low"]) = "ignore"
  <2> DEFINE Matches(c, entry) ==
               /\ entry.kinds # {} => c.kind \in entry.kinds
               /\ entry.severities # {} => c.severity \in entry.severities
               /\ entry.kinds # {} \/ entry.severities # {}
             matching(c) == {i \in DOMAIN EvalP!ActionMatrix : Matches(c, EvalP!ActionMatrix[i])}
             burst == [kind |-> "error_burst", severity |-> "critical"]
             backlog == [kind |-> "backlog_growth", severity |-> "medium"]
             capacity == [kind |-> "capacity_exhaustion", severity |-> "low"]
  <2>1. /\ DOMAIN EvalP!ActionMatrix = {1, 2, 3, 4, 5}
        /\ EvalP!ActionMatrix[1].action = "require_approval"
        /\ EvalP!ActionMatrix[4].action = "auto_act" /\ EvalP!ActionMatrix[5].action = "ignore"
    BY DEF EvalP!ActionMatrix
  <2>2. /\ Matches(burst, EvalP!ActionMatrix[1])
        /\ \A i \in {2, 3, 4, 5} : ~Matches(burst, EvalP!ActionMatrix[i])
    BY DEF EvalP!ActionMatrix
  <2>3. /\ Matches(backlog, EvalP!ActionMatrix[4])
        /\ \A i \in {1, 2, 3, 5} : ~Matches(backlog, EvalP!ActionMatrix[i])
    BY DEF EvalP!ActionMatrix
  <2>4. /\ Matches(capacity, EvalP!ActionMatrix[5])
        /\ \A i \in {1, 2, 3, 4} : ~Matches(capacity, EvalP!ActionMatrix[i])
    BY DEF EvalP!ActionMatrix
  <2>5. matching(burst) = {1} /\ matching(backlog) = {4} /\ matching(capacity) = {5}
    <3> HIDE DEF Matches, burst, backlog, capacity
    <3> QED BY <2>1, <2>2, <2>3, <2>4
  <2>6. \A c : EvalP!DecideAction(c) =
                 IF matching(c) = {} THEN EvalP!DefaultAction
                 ELSE EvalP!ActionMatrix[EvalP!Min(matching(c))].action
    BY DEF EvalP!DecideAction
  <2> HIDE DEF matching, burst, backlog, capacity
  <2>7. /\ EvalP!DecideAction(burst) = "require_approval"
        /\ EvalP!DecideAction(backlog) = "auto_act"
        /\ EvalP!DecideAction(capacity) = "ignore"
    BY <2>1, <2>5, <2>6, OnlyOneIsLeast
  <2> QED BY <2>7 DEF burst, backlog, capacity
<1>4. \A c \in EvalP!Cases : c = 1 \/ c = 2 \/ c = 3 \/ MonitorSuite[c].scorer = "llm_judge"
  BY DEF EvalP!Cases, MonitorSuite
<1>5. /\ MonitorSuite[1].event = Beyond("error_rate")
      /\ MonitorSuite[1].expected = "require_approval"
      /\ MonitorSuite[2].event = Beyond("queue_depth") /\ MonitorSuite[2].expected = "auto_act"
      /\ MonitorSuite[3].event = Beyond("disk_free_percent")
      /\ MonitorSuite[3].expected = "ignore"
  BY DEF MonitorSuite
<1> QED BY <1>2, <1>3, <1>4, <1>5 DEF EvalP!ExpectsTheRules

LEMMA EvalAssumed == EvalP!EvalAssumption
BY PartAssumptions
  DEF Eval!EvalAssumption, EvalP!EvalAssumption, Eval!Events, EvalP!Events, Eval!Metrics,
      EvalP!Metrics, Eval!Detection, EvalP!Detection, Eval!FaultKinds, EvalP!FaultKinds

(* main.py fails fast in production: what serves has found the database, applied
   the migrations and keeps its graphs in it, for any number of connection
   attempts, outages, crashes and restarts. *)
THEOREM ProductionStartsWhole == ServiceSpec => []ProductionIsWhole
<1>1. StartInv => ProductionIsWhole
  BY DEF StartInv, PastMigrations, ProductionIsWhole, Start!ProductionIsWhole
<1> QED BY <1>1, StartInitially, StartStep, ServiceIsItsParts, PTL

(* _execute_suite: the report that is stored has one
   result per case of the suite, all of one pass, and whatever the LLM answers its
   exact_match cases pass unless their run failed: the second pass repeats, and
   does not mix. *)
THEOREM EvaluationsReportRight == ServiceSpec => []ReportIsRight
<1>1. EvalP!Spec => []EvalP!ReportIsWhole
  BY EvalAssumed, EvalP!ReportsAreWhole
<1>2. EvalP!Spec => []EvalP!RulesDecide
  BY EvalAssumed, SuiteExpectsTheRules, EvalP!RulesAlwaysDecide
<1>3. EvalP!ReportIsWhole /\ EvalP!RulesDecide => ReportIsRight
  BY DEF ReportIsRight, EvalP!ReportIsWhole, EvalP!RulesDecide, Eval!ReportIsWhole,
         Eval!RulesDecide
<1> QED BY <1>1, <1>2, <1>3, ServiceIsItsParts, EvaluationsAreEvalRuns, PTL

(* A second pass over the suite, after any exception of the first, writes no row
   of the audit log twice, wherever the first was broken off. *)
THEOREM EvaluationsLogOnce == ServiceSpec => []LoggedAtMostOnce
<1>1. EvalP!Spec => []EvalP!LoggedAtMostOnce
  BY EvalAssumed, EvalP!CasesAreLoggedOnce
<1>2. EvalP!LoggedAtMostOnce => LoggedAtMostOnce
  BY DEF LoggedAtMostOnce, EvalP!LoggedAtMostOnce, Eval!LoggedAtMostOnce, EvalP!Cases,
         Eval!Cases
<1> QED BY <1>1, <1>2, ServiceIsItsParts, EvaluationsAreEvalRuns, PTL

(* Of a finished run every case is in the report, and each that failed says why:
   it is counted under the mode the runner found, with a rate that does not round
   to zero, or it carries the modes its analysis recorded and is counted under
   none, because str() of those is "FailureMode.X". No rate counts another case.
   For suites of fewer than 20000 cases, whatever the analyses record. *)
THEOREM FailedCasesAreNamed ==
  ASSUME SuiteCases < 20000
  PROVE  ServiceSpec => []FailuresAreNamed
<1>1. BenchInv => FailuresAreNamed
  BY PartAssumptions, FinishedAreNamed
<1> QED BY <1>1, PartAssumptions, ServiceIsItsParts, BenchInvariant, PTL DEF Bench!Spec

(* _execute_benchmark stores and publishes inside of its try block, and
   still no report, once stored, is taken back by the task's exception handler
   or replaced: it is there until Redis drops it. *)
THEOREM ReportsStay == ServiceSpec => DoneIsNeverRevoked
<1>1. BenchInv /\ [Bench!Next]_Bench!vars =>
        [\A r \in BenchmarkRunIds :
           Bench!Done(r) => stored'[r] \in {stored[r], Bench!Missing}]_Bench!vars
  BY PartAssumptions, BenchStep
<1>2. Bench!Spec => [][\A r \in BenchmarkRunIds :
                         Bench!Done(r) => stored'[r] \in {stored[r], Bench!Missing}]_Bench!vars
  BY <1>1, PartAssumptions, BenchInvariant, PTL DEF Bench!Spec
<1> QED BY <1>2, ServiceIsItsParts, PTL
        DEF Bench!Spec, DoneIsNeverRevoked, Bench!DoneIsNeverRevoked

(* compare_reports over two dashboards answers that there is a regression if the
   share of passed cases dropped by more than five points, and that there is none
   if it dropped by less or not at all, although both rates are rounded to four
   digits before they are compared in floating point: for fewer than 500 cases. At
   exactly five points it may answer either. *)
THEOREM DashboardsCompareRight ==
  ASSUME 2 * SuiteCases < 500
  PROVE  ServiceSpec => []DashboardsShowRegressions
<1>1. BenchInv => DashboardsShowRegressions
  BY PartAssumptions, DashboardsAreRight
<1> QED BY <1>1, PartAssumptions, ServiceIsItsParts, BenchInvariant, PTL DEF Bench!Spec

=============================================================================
