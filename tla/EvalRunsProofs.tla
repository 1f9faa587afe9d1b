---------------------------- MODULE EvalRunsProofs ----------------------------
(***************************************************************************)
(* Theorems about EvalRuns for every suite of the monitor agent, any       *)
(* number of retries and any faults: what a report says and what the audit *)
(* log holds when a pass is broken off and everything is done again.       *)
(***************************************************************************)
EXTENDS EvalRuns, SequenceTheorems, TLAPS

(* The pass under way has its own results only, and a report is made of a
   complete one. *)
PassInv ==
  /\ \A i \in DOMAIN results : results[i].pass = pass
  /\ pc = "score" => Len(results) < Len(Suite)
  /\ pc = "store" => /\ outcome \in {"done", "failed"}
                     /\ outcome = "done" => Len(results) = Len(Suite)
  /\ ReportIsWhole

(* Cases the first pass has not come to have no row; the second adds none. A
   process may die between the row of a case and its result. *)
RowsInv ==
  /\ LoggedAtMostOnce
  /\ pass = 1 => \A c \in Cases :
       c > Len(results) + (IF pc \in {"score", "dead"} THEN 1 ELSE 0) => rows[c] = 0

(* The exact_match cases of a suite breach a rule and expect what the rules make
   of it, as those of context/evaluations/monitor_suite.yaml do. *)
ExpectsTheRules ==
  \A c \in Cases : Suite[c].scorer = "exact_match" =>
    /\ DetectSignal(Suite[c].event).kind \notin {"none", "unclassified"}
    /\ Suite[c].expected = DecideAction(DetectSignal(Suite[c].event))

RulesInv ==
  /\ RulesDecide
  /\ pc = "score" /\ Case.scorer = "exact_match" => action = Case.expected

-----------------------------------------------------------------------------
(* The operators of MonitorRules: a rule that was breached decides alone. *)
LEMMA LeastOfFive ==
  ASSUME NEW S \in SUBSET 1..5, S # {}
  PROVE  Min(S) \in S
<1>1. \E x \in S : \A y \in S : x <= y
  <2>1. CASE 1 \in S
    BY <2>1
  <2>2. CASE 1 \notin S /\ 2 \in S
    BY <2>2
  <2>3. CASE 1 \notin S /\ 2 \notin S /\ 3 \in S
    BY <2>3
  <2>4. CASE 1 \notin S /\ 2 \notin S /\ 3 \notin S /\ 4 \in S
    BY <2>4
  <2>5. CASE 1 \notin S /\ 2 \notin S /\ 3 \notin S /\ 4 \notin S
    <3>1. \A y \in S : y \in 1..5 /\ y \notin {1, 2, 3, 4}
      BY <2>5
    <3>2. \A y \in S : y = 5
      BY <3>1
    <3>3. PICK x \in S : TRUE
      OBVIOUS
    <3> QED BY <3>2, <3>3
  <2> QED BY <2>1, <2>2, <2>3, <2>4, <2>5
<1> QED BY <1>1 DEF Min

LEMMA DecideActionType ==
  ASSUME NEW c
  PROVE  DecideAction(c) \in {"require_approval", "auto_act", "ignore"}
<1> DEFINE Matches(entry) ==
        /\ entry.kinds # {} => c.kind \in entry.kinds
        /\ entry.severities # {} => c.severity \in entry.severities
        /\ entry.kinds # {} \/ entry.severities # {}
      matching == {i \in DOMAIN ActionMatrix : Matches(ActionMatrix[i])}
<1>1. DOMAIN ActionMatrix = 1..5
  BY DEF ActionMatrix
<1>2. matching \in SUBSET 1..5
  BY <1>1
<1>3. \A i \in 1..5 : ActionMatrix[i].action \in {"require_approval", "auto_act", "ignore"}
  BY DEF ActionMatrix
<1>4. DecideAction(c) =
        IF matching = {} THEN DefaultAction ELSE ActionMatrix[Min(matching)].action
  BY DEF DecideAction
<1> HIDE DEF matching
<1>5. CASE matching = {}
  BY <1>4, <1>5 DEF DefaultAction
<1>6. CASE matching # {}
  <2>1. Min(matching) \in 1..5
    BY <1>2, <1>6, LeastOfFive
  <2> QED BY <1>3, <1>4, <1>6, <2>1
<1> QED BY <1>5, <1>6

LEMMA ActionForType ==
  ASSUME NEW e, NEW answer
  PROVE  ActionFor(e, answer) \in Actions
BY DecideActionType DEF ActionFor, Actions

LEMMA RuleDecidesAlone ==
  ASSUME NEW e, NEW answer, DetectSignal(e).kind \notin {"none", "unclassified"}
  PROVE  ActionFor(e, answer) = DecideAction(DetectSignal(e))
BY DEF ActionFor, ClassifySignal, NoSignal

-----------------------------------------------------------------------------
LEMMA SuiteFacts ==
  ASSUME EvalAssumption
  PROVE  /\ Len(Suite) \in Nat /\ Cases = 1..Len(Suite) /\ MaxRetries \in Nat
         /\ \A c \in Cases : Suite[c].scorer \in {"exact_match", "llm_judge"}
<1> DEFINE Test == [event : Events, scorer : {"exact_match", "llm_judge"},
                    expected : {"require_approval", "auto_act", "ignore"}]
<1>1. Suite \in Seq(Test) /\ MaxRetries \in Nat
  BY DEF EvalAssumption
<1>2. \A t \in Test : t.scorer \in {"exact_match", "llm_judge"}
  OBVIOUS
<1> HIDE DEF Test
<1> QED BY <1>1, <1>2, LenProperties, ElementOfSeq DEF Cases

(* Adding a result keeps the list a list of results, one longer. *)
LEMMA Added ==
  ASSUME NEW s \in Seq(Result), NEW r \in Result
  PROVE  /\ Append(s, r) \in Seq(Result) /\ Len(Append(s, r)) = Len(s) + 1
         /\ DOMAIN Append(s, r) = 1..(Len(s) + 1) /\ DOMAIN s = 1..Len(s)
         /\ Len(s) \in Nat
         /\ \A i \in 1..Len(s) : Append(s, r)[i] = s[i]
         /\ Append(s, r)[Len(s) + 1] = r
BY AppendProperties, LenProperties

LEMMA StatusType ==
  ASSUME NEW s \in {"none", "running", "done", "failed"}
  PROVE  /\ Status(s) \in [status : {"none", "running", "done", "failed"}, results : Seq(Result)]
         /\ Status(s).status = s
BY EmptySeq DEF Status

-----------------------------------------------------------------------------
EvalInv == TypeOK /\ PassInv /\ RowsInv

LEMMA EvalInit ==
  ASSUME EvalAssumption, Init
  PROVE  EvalInv
<1>1. results = <<>> /\ results \in Seq(Result) /\ Len(results) = 0 /\ DOMAIN results = {}
  BY EmptySeq DEF Init
<1>2. TypeOK
  BY <1>1, SuiteFacts, StatusType DEF Init, TypeOK
<1>3. PassInv
  BY <1>1, StatusType DEF Init, PassInv, ReportIsWhole
<1>4. RowsInv
  BY SuiteFacts DEF Init, RowsInv, LoggedAtMostOnce
<1> QED BY <1>2, <1>3, <1>4 DEF EvalInv

(* A case of the suite comes to its end: its result is the only thing added. *)
LEMMA ResultAdded ==
  ASSUME EvalAssumption, EvalInv, Len(results) < Len(Suite),
         NEW passed \in BOOLEAN, NEW failed \in BOOLEAN, AddResult(passed, failed),
         UNCHANGED <<stored, pass>>
  PROVE  /\ results' \in Seq(Result) /\ Len(results') <= Len(Suite)
         /\ Len(results') = Len(results) + 1
         /\ (\A i \in DOMAIN results : results[i].pass = pass)'
         /\ ReportIsWhole'
         /\ \A i \in DOMAIN results' :
              \/ i \in DOMAIN results /\ results'[i] = results[i]
              \/ i = Len(results) + 1 /\ results'[i].passed = passed /\ results'[i].failed = failed
<1> DEFINE r == [pass |-> pass, passed |-> passed, failed |-> failed]
<1>1. results \in Seq(Result) /\ r \in Result /\ pass' = pass /\ results' = Append(results, r)
  BY DEF EvalInv, TypeOK, AddResult, Result
<1>2. r.pass = pass /\ r.passed = passed /\ r.failed = failed
  OBVIOUS
<1> HIDE DEF r
<1>3. /\ results' \in Seq(Result) /\ Len(results') = Len(results) + 1
      /\ DOMAIN results' = 1..(Len(results) + 1) /\ DOMAIN results = 1..Len(results)
      /\ Len(results) \in Nat /\ results'[Len(results) + 1] = r
      /\ \A i \in 1..Len(results) : results'[i] = results[i]
  BY <1>1, Added
<1>4. \A i \in DOMAIN results' :
         \/ i \in DOMAIN results /\ results'[i] = results[i]
         \/ i = Len(results) + 1 /\ results'[i] = r
  BY <1>3
<1>5. ReportIsWhole'
  BY DEF EvalInv, PassInv, ReportIsWhole
<1> QED BY <1>1, <1>2, <1>3, <1>4, <1>5, SuiteFacts DEF EvalInv, PassInv

(* A row is written for the case whose turn it is, and by the first pass only. *)
LEMMA RowWritten ==
  ASSUME EvalAssumption, EvalInv, pc = "case", NEW c \in Cases, c = Len(results) + 1,
         WriteRow(c), pass' = pass, Len(results') \in Nat,
         Len(results') + (IF pc' \in {"score", "dead"} THEN 1 ELSE 0) = Len(results) + 1
  PROVE  RowsInv' /\ rows' \in [Cases -> Nat]
<1>1. rows \in [Cases -> Nat] /\ pass \in 1..2 /\ Cases \subseteq Nat /\ Len(results) \in Nat
  BY SuiteFacts, LenProperties DEF EvalInv, TypeOK
<1>2. pass = 1 => \A d \in Cases : d > Len(results) => rows[d] = 0
  BY DEF EvalInv, RowsInv
<1>3. \A d \in Cases : rows[d] <= 1
  BY DEF EvalInv, RowsInv, LoggedAtMostOnce
<1>4. CASE rows' = rows
  BY <1>1, <1>2, <1>3, <1>4 DEF RowsInv, LoggedAtMostOnce
<1>5. CASE pass = 1 /\ rows' = [rows EXCEPT ![c] = @ + 1]
  <2>1. rows[c] = 0
    BY <1>1, <1>2, <1>5
  <2>2. \A d \in Cases : rows'[d] = IF d = c THEN 1 ELSE rows[d]
    BY <1>1, <1>5, <2>1
  <2> QED BY <1>1, <1>2, <1>3, <1>5, <2>2 DEF RowsInv, LoggedAtMostOnce
<1> QED BY <1>4, <1>5 DEF WriteRow, Logged

(* Whatever raises: the second pass starts from nothing, a third there is not. *)
LEMMA PassStartsAgain ==
  ASSUME EvalAssumption, EvalInv, pc \in {"case", "score"}, PassRaises
  PROVE  EvalInv'
<1>1. <<>> \in Seq(Result) /\ Len(<<>>) = 0 /\ DOMAIN <<>> = {}
  BY EmptySeq
<1>2. TypeOK'
  <2>1. TypeOK /\ 0 \in 0..MaxRetries /\ 0 <= Len(Suite) /\ 2 \in 1..2
    BY SuiteFacts DEF EvalInv
  <2>2. CASE pass = 1
    BY <1>1, <2>1, <2>2 DEF TypeOK, PassRaises
  <2>3. CASE pass # 1
    BY <1>1, <2>1, <2>3 DEF TypeOK, PassRaises
  <2> QED BY <2>2, <2>3
<1>3. ReportIsWhole'
  BY DEF EvalInv, PassInv, ReportIsWhole, PassRaises
<1>4. PassInv'
  BY <1>1, <1>3 DEF EvalInv, PassInv, PassRaises
<1>5. pass' = 2 /\ rows' = rows
  BY DEF EvalInv, TypeOK, PassRaises
<1>6. RowsInv'
  BY <1>5 DEF EvalInv, RowsInv, LoggedAtMostOnce, Cases
<1> QED BY <1>2, <1>4, <1>6 DEF EvalInv

(* Steps that leave the results and the rows alone and write at most a status. *)
LEMMA Elsewhere ==
  ASSUME EvalAssumption, EvalInv, TypeOK',
         UNCHANGED <<pass, results, rows>>, pc' \notin {"score", "store"},
         pc = "score" => pass = 2 \/ pc' \in {"score", "dead"},
         pc = "dead" => pc' = "dead",
         ReportIsWhole'
  PROVE  EvalInv'
<1>1. PassInv'
  BY DEF EvalInv, PassInv
<1>2. Len(results) \in Nat /\ Cases \subseteq Nat
  BY SuiteFacts, LenProperties DEF EvalInv, TypeOK
<1>3. RowsInv'
  BY <1>2 DEF EvalInv, RowsInv, LoggedAtMostOnce, Cases
<1> QED BY <1>1, <1>3 DEF EvalInv

LEMMA EvalStep ==
  ASSUME EvalAssumption, EvalInv, [Next]_vars
  PROVE  EvalInv'
<1>0. /\ TypeOK /\ PassInv /\ RowsInv /\ ReportIsWhole
      /\ Len(Suite) \in Nat /\ Cases = 1..Len(Suite) /\ MaxRetries \in Nat
      /\ results \in Seq(Result) /\ Len(results) \in Nat
  BY SuiteFacts, LenProperties DEF EvalInv, PassInv, TypeOK
<1>1. CASE StartRun
  <2>1. TypeOK' /\ ReportIsWhole'
    BY <1>0, <1>1, StatusType DEF TypeOK, ReportIsWhole, StartRun, SetJson
  <2> QED BY <1>1, <2>1, Elsewhere DEF StartRun
<1>2. CASE RunCase
  <2> DEFINE c == Len(results) + 1
  <2>1. PICK answer \in Answers : action' = ActionFor(Case.event, answer)
    BY <1>2 DEF RunCase
  <2>2. action' \in Actions /\ paused' \subseteq Cases /\ c \in Cases
    BY <1>0, <1>2, <2>1, ActionForType DEF RunCase, TypeOK
  <2>3. RowsInv' /\ rows' \in [Cases -> Nat]
    BY <1>0, <1>2, <2>2, RowWritten DEF RunCase
  <2>4. TypeOK'
    BY <1>0, <1>2, <2>2, <2>3 DEF RunCase, TypeOK
  <2>5. PassInv'
    BY <1>0, <1>2, <2>2 DEF RunCase, PassInv, ReportIsWhole
  <2> QED BY <2>3, <2>4, <2>5 DEF EvalInv
<1>3. CASE FailCase
  <2>1. /\ results' \in Seq(Result) /\ Len(results') <= Len(Suite)
        /\ Len(results') = Len(results) + 1
        /\ (\A i \in DOMAIN results : results[i].pass = pass)' /\ ReportIsWhole'
    <3>1. Len(results) < Len(Suite)
      BY <1>0, <1>3 DEF FailCase
    <3>3. AddResult(FALSE, TRUE)
      BY <1>3 DEF FailCase
    <3>2. UNCHANGED <<stored, pass>>
      BY <1>3 DEF FailCase
    <3> QED BY <3>1, <3>2, <3>3, ResultAdded
  <2>2. RowsInv' /\ rows' \in [Cases -> Nat]
    BY <1>0, <1>3, <2>1, RowWritten DEF FailCase
  <2>3. TypeOK'
    BY <1>0, <1>3, <2>1, <2>2 DEF FailCase, TypeOK
  <2>4. PassInv'
    BY <1>0, <1>3, <2>1 DEF FailCase, PassInv
  <2> QED BY <2>2, <2>3, <2>4 DEF EvalInv
<1>4. CASE ScoreExact \/ JudgeAnswers
  <2>1. /\ results' \in Seq(Result) /\ Len(results') <= Len(Suite)
        /\ Len(results') = Len(results) + 1
        /\ (\A i \in DOMAIN results : results[i].pass = pass)' /\ ReportIsWhole'
    <3>1. Len(results) < Len(Suite)
      BY <1>0, <1>4 DEF ScoreExact, JudgeAnswers, PassInv
    <3>2. PICK passed \in BOOLEAN : AddResult(passed, FALSE)
      BY <1>4 DEF ScoreExact, JudgeAnswers
    <3>3. UNCHANGED <<stored, pass>>
      BY <1>4 DEF ScoreExact, JudgeAnswers
    <3> QED BY <3>1, <3>2, <3>3, ResultAdded
  <2>2. /\ pc = "score" /\ pc' = "case" /\ action' = "none" /\ attempt' \in 0..MaxRetries
        /\ UNCHANGED <<stored, pass, outcome, rows, paused, announced>>
    <3>1. CASE ScoreExact
      BY <1>0, <3>1 DEF ScoreExact, TypeOK
    <3>2. CASE JudgeAnswers
      BY <1>0, <3>2 DEF JudgeAnswers
    <3> QED BY <1>4, <3>1, <3>2
  <2>3. TypeOK'
    BY <1>0, <2>1, <2>2 DEF TypeOK
  <2>4. PassInv'
    BY <1>0, <2>1, <2>2 DEF PassInv
  <2>5. RowsInv'
    BY <1>0, <2>1, <2>2 DEF RowsInv, LoggedAtMostOnce
  <2> QED BY <2>3, <2>4, <2>5 DEF EvalInv
<1>5. CASE JudgeRetries
  <2>1. TypeOK'
    BY <1>0, <1>5 DEF JudgeRetries, RetryLeft, TypeOK
  <2>2. PassInv' /\ RowsInv'
    BY <1>0, <1>5 DEF JudgeRetries, PassInv, RowsInv, ReportIsWhole, LoggedAtMostOnce, Case
  <2> QED BY <2>1, <2>2 DEF EvalInv
<1>6. CASE JudgeRaises \/ ContextRaises
  BY <1>6, PassStartsAgain DEF JudgeRaises, ContextRaises
<1>7. CASE FinishPass
  <2>1. TypeOK' /\ PassInv' /\ RowsInv'
    BY <1>0, <1>7 DEF FinishPass, TypeOK, PassInv, RowsInv, ReportIsWhole, LoggedAtMostOnce
  <2> QED BY <2>1 DEF EvalInv
<1>8. CASE StoreReport
  <2> DEFINE report == [status |-> outcome, results |-> IF outcome = "done" THEN results ELSE <<>>]
  <2>1. outcome \in {"done", "failed"} /\ (outcome = "done" => Len(results) = Len(Suite))
    BY <1>0, <1>8 DEF StoreReport, PassInv
  <2>2. /\ report \in [status : {"none", "running", "done", "failed"}, results : Seq(Result)]
        /\ report.status = outcome
        /\ outcome = "done" => report.results = results
    BY <1>0, <2>1, EmptySeq
  <2>3. stored' = report \/ stored' = stored
    BY <1>8 DEF StoreReport, SetJson
  <2> HIDE DEF report
  <2>4. TypeOK'
    BY <1>0, <1>8, <2>2, <2>3 DEF StoreReport, TypeOK
  <2>5. \A i, j \in DOMAIN results : results[i].pass = results[j].pass
    BY <1>0 DEF PassInv
  <2>6. ReportIsWhole'
    BY <1>0, <2>1, <2>2, <2>3, <2>5 DEF ReportIsWhole
  <2> QED BY <1>8, <2>4, <2>6, Elsewhere DEF StoreReport
<1>9. CASE Publish
  <2>1. announced' \in {"none", "done", "failed"}
    BY <1>0, <1>9 DEF Publish, TypeOK
  <2>2. TypeOK' /\ ReportIsWhole'
    BY <1>0, <1>9, <2>1 DEF Publish, TypeOK, ReportIsWhole
  <2> QED BY <1>9, <2>2, Elsewhere DEF Publish
<1>10. CASE Expire
  <2>1. TypeOK' /\ ReportIsWhole'
    BY <1>0, <1>10, StatusType DEF Expire, TypeOK, ReportIsWhole
  <2>2. PassInv' /\ RowsInv'
    BY <1>0, <1>10, <2>1 DEF Expire, PassInv, RowsInv, LoggedAtMostOnce
  <2> QED BY <2>1, <2>2 DEF EvalInv
<1>11. CASE Crash
  <2>1. TypeOK' /\ ReportIsWhole'
    BY <1>0, <1>11 DEF Crash, TypeOK, ReportIsWhole
  <2> QED BY <1>11, <2>1, Elsewhere DEF Crash
<1>12. CASE UNCHANGED vars
  BY <1>0, <1>12 DEF EvalInv, TypeOK, PassInv, RowsInv, ReportIsWhole, LoggedAtMostOnce, vars
<1> QED BY <1>1, <1>2, <1>3, <1>4, <1>5, <1>6, <1>7, <1>8, <1>9, <1>10, <1>11, <1>12
        DEF Next, WorkerStep, WorkerFault

LEMMA EvalInvariant == ASSUME EvalAssumption PROVE Spec => []EvalInv
BY EvalInit, EvalStep, PTL DEF Spec

(* RulesInv: a case that waits to be scored has the action its rule gives it. *)
LEMMA RulesStep ==
  ASSUME EvalAssumption, ExpectsTheRules, EvalInv, RulesInv, [Next]_vars
  PROVE  RulesInv'
<1>0. /\ TypeOK /\ PassInv /\ RulesDecide /\ results \in Seq(Result)
      /\ Len(results) \in Nat /\ DOMAIN results = 1..Len(results)
      /\ Len(results) <= Len(Suite) /\ Cases = 1..Len(Suite) /\ Len(Suite) \in Nat
  BY SuiteFacts, LenProperties DEF EvalInv, TypeOK, RulesInv
<1>1. CASE RunCase
  <2>1. PICK answer \in Answers : action' = ActionFor(Case.event, answer)
    BY <1>1 DEF RunCase
  <2>2. Len(results) + 1 \in Cases
    BY <1>1 DEF RunCase
  <2>3. Case.scorer = "exact_match" => action' = Case.expected
    BY <2>1, <2>2, RuleDecidesAlone DEF Case, ExpectsTheRules
  <2> QED BY <1>0, <1>1, <2>3 DEF RunCase, RulesInv, RulesDecide, Case
<1>2. CASE FailCase \/ ScoreExact \/ JudgeAnswers
  <2>1. PICK passed \in BOOLEAN, failed \in BOOLEAN :
           /\ AddResult(passed, failed)
           /\ Case.scorer = "exact_match" => failed \/ passed
    <3>1. CASE FailCase
      BY <3>1 DEF FailCase
    <3>2. CASE ScoreExact
      <4>1. action = Case.expected
        BY <3>2 DEF ScoreExact, RulesInv
      <4> QED BY <3>2, <4>1 DEF ScoreExact
    <3>3. CASE JudgeAnswers
      <4>1. Case.scorer # "exact_match"
        BY <3>3 DEF JudgeAnswers
      <4> QED BY <3>3, <4>1 DEF JudgeAnswers
    <3> QED BY <1>2, <3>1, <3>2, <3>3
  <2>2. Len(results) < Len(Suite)
    <3>1. CASE FailCase
      BY <1>0, <3>1 DEF FailCase
    <3>2. CASE ScoreExact \/ JudgeAnswers
      BY <1>0, <3>2 DEF ScoreExact, JudgeAnswers, PassInv
    <3> QED BY <1>2, <3>1, <3>2
  <2>3. UNCHANGED <<stored, pass>> /\ pc' = "case"
    BY <1>2 DEF FailCase, ScoreExact, JudgeAnswers
  <2>4. \A i \in DOMAIN results' :
           \/ i \in DOMAIN results /\ results'[i] = results[i]
           \/ i = Len(results) + 1 /\ results'[i].passed = passed /\ results'[i].failed = failed
    BY <2>1, <2>2, <2>3, ResultAdded
  <2>5. RulesDecide'
    <3> SUFFICES ASSUME NEW i \in DOMAIN results', Suite[i].scorer = "exact_match",
                        ~results'[i].failed
                 PROVE  results'[i].passed
      BY DEF RulesDecide
    <3>1. CASE i \in DOMAIN results /\ results'[i] = results[i]
      BY <1>0, <3>1 DEF RulesDecide
    <3>2. CASE i = Len(results) + 1 /\ results'[i].passed = passed /\ results'[i].failed = failed
      BY <2>1, <3>2 DEF Case
    <3> QED BY <2>4, <3>1, <3>2
  <2> QED BY <2>3, <2>5 DEF RulesInv
<1>3. CASE JudgeRaises \/ ContextRaises
  <2>1. pc' # "score" /\ (results' = results \/ results' = <<>>)
    BY <1>3 DEF JudgeRaises, ContextRaises, PassRaises
  <2> QED BY <1>0, <2>1 DEF RulesInv, RulesDecide
<1>4. CASE StartRun \/ FinishPass \/ StoreReport \/ Publish \/ Crash
  BY <1>0, <1>4 DEF StartRun, FinishPass, StoreReport, Publish, Crash, RulesInv, RulesDecide
<1>5. CASE JudgeRetries \/ Expire \/ UNCHANGED vars
  BY <1>0, <1>5 DEF JudgeRetries, Expire, vars, RulesInv, RulesDecide, Case
<1> QED BY <1>1, <1>2, <1>3, <1>4, <1>5 DEF Next, WorkerStep, WorkerFault

-----------------------------------------------------------------------------
(* _execute_suite repeats the whole suite after any exception, and run_agent_graph
   logs every run it is given a session for. No case has two rows: the second
   pass has no session, whatever the first came to. *)
THEOREM CasesAreLoggedOnce == ASSUME EvalAssumption PROVE Spec => []LoggedAtMostOnce
<1>1. EvalInv => LoggedAtMostOnce
  BY DEF EvalInv, RowsInv
<1> QED BY <1>1, EvalInvariant, PTL

(* A stored report has one result per case, all of the same pass: what a broken
   first pass left behind is in no report. *)
THEOREM ReportsAreWhole == ASSUME EvalAssumption PROVE Spec => []ReportIsWhole
<1>1. EvalInv => ReportIsWhole
  BY DEF EvalInv, PassInv
<1> QED BY <1>1, EvalInvariant, PTL

(* Whatever the LLM answers, a case whose event breaches a rule passes if it
   expects what the matrix makes of that rule, and its run did not fail. *)
THEOREM RulesAlwaysDecide ==
  ASSUME EvalAssumption, ExpectsTheRules
  PROVE  Spec => []RulesDecide
<1>1. Init => RulesInv
  BY DEF Init, RulesInv, RulesDecide
<1>2. EvalInv /\ RulesInv /\ [Next]_vars => RulesInv'
  BY RulesStep
<1>3. RulesInv => RulesDecide
  BY DEF RulesInv
<1> QED BY <1>1, <1>2, <1>3, EvalInvariant, PTL DEF Spec

(* The state keeps its shape: the judge of a case is asked MaxRetries + 1 times at
   most, also in a second pass, and no pass has more results than cases. *)
THEOREM EvalTypeCorrect == ASSUME EvalAssumption PROVE Spec => []TypeOK
<1>1. EvalInv => TypeOK
  BY DEF EvalInv
<1> QED BY <1>1, EvalInvariant, PTL

=============================================================================
