----------------------------- MODULE EdaProofs --------------------------------
(***************************************************************************)
(* Theorems about the exploratory analysis, for every iteration budget,    *)
(* plan size and fault: first about its loop (EdaLoop), then about its     *)
(* books (EdaRun), which add their entries to the actions of the loop. The *)
(* loop's invariant holds there as well: it says that the query whose      *)
(* outcome is recorded is the one just written.                            *)
(***************************************************************************)
EXTENDS EdaRun, SequenceTheorems, FiniteSetTheorems, TLAPS

LoopNodes == {"generate_eda_sql", "execute_eda_sql", "evaluate_hypothesis",
              "decide_next_step"}

(* What the nodes rely on: nothing before the plan, budget left inside the
   loop, a hypothesis for each query, and only the query just written open. *)
LoopShape ==
  /\ pc \in {"load_context", "plan_analysis"} =>
       hypotheses = <<>> /\ queries = <<>> /\ iteration = 0
  /\ pc \in LoopNodes => iteration < MaxIterations
  /\ pc # "failed" => Len(hypotheses) >= Queried
  /\ pc = "generate_eda_sql" => Len(hypotheses) > iteration
  /\ pc # "failed" => \A k \in 1..Len(queries) :
       queries[k].executed <=> ~(pc = "execute_eda_sql" /\ k = Len(queries))

(* How many nodes have run, by the position in the graph. *)
StepsInv ==
  /\ pc = "load_context"        => steps = 0
  /\ pc = "plan_analysis"       => steps = 1
  /\ pc = "generate_eda_sql"    => steps = 4 * iteration + 2
  /\ pc = "execute_eda_sql"     => steps = 4 * iteration + 3
  /\ pc = "evaluate_hypothesis" => steps = 4 * iteration + 4
  /\ pc = "decide_next_step"    => steps = 4 * iteration + 5
  /\ pc = "perform_web_research" => iteration < MaxIterations /\ steps = 4 * iteration + 2
  /\ pc = "fuse_context"      => iteration < MaxIterations /\ steps = 4 * iteration + 3
  /\ pc = "generate_findings" => steps <= 4 * MaxIterations + 2
  /\ pc = "log_eda_decision"  => steps <= 4 * MaxIterations + 3
  /\ steps <= 4 * MaxIterations + 4

(* The loop is left for a reason, and no search is made before
   perform_web_research, which is only reached for a plan that
   asked for it, with every hypothesis judged and budget left. *)
WebInv ==
  /\ pc \in LoopNodes \cup {"load_context", "plan_analysis", "perform_web_research"} =>
       searches = 0
  /\ pc \in {"perform_web_research", "fuse_context", "generate_findings",
            "log_eda_decision", "done"} => ~SomePending \/ iteration = MaxIterations
  /\ pc = "perform_web_research" => needsWeb /\ ~SomePending /\ iteration < MaxIterations
  /\ WebResearchLast

Inv == /\ TypeOK /\ LoopShape /\ OneQueryPerHypothesis /\ EvidenceBeforeVerdict
       /\ StepsInv /\ WebInv

-----------------------------------------------------------------------------
(* Inside a run that has not failed, the first pending hypothesis is the one
   after those already judged. *)
LEMMA FirstPendingIsNext ==
  ASSUME Inv, pc # "failed", NEW i \in DOMAIN hypotheses
  PROVE  FirstPending(i) <=> i = Judged + 1
<1>1. Judged \in Nat /\ DOMAIN hypotheses = 1..Len(hypotheses) /\ Len(hypotheses) \in Nat
  BY DEF Inv, TypeOK, Judged
<1>2. \A j \in DOMAIN hypotheses : Pending(j) <=> j > Judged
  BY DEF Inv, OneQueryPerHypothesis, Pending
<1>3. i = Judged + 1 => FirstPending(i)
  BY <1>1, <1>2 DEF FirstPending
<1>4. FirstPending(i) => i = Judged + 1
  <2> SUFFICES ASSUME FirstPending(i), i # Judged + 1 PROVE FALSE
    OBVIOUS
  <2>1. i > Judged + 1
    BY <1>1, <1>2 DEF FirstPending
  <2>2. Judged + 1 \in DOMAIN hypotheses
    BY <1>1, <2>1
  <2>3. Pending(Judged + 1)
    BY <1>1, <1>2, <2>2
  <2> QED  BY <1>1, <2>1, <2>2, <2>3 DEF FirstPending
<1> QED
  BY <1>3, <1>4

LEMMA PlanKeepsInv == Inv /\ PlanAnalysis => Inv'
<1> SUFFICES ASSUME Inv, PlanAnalysis PROVE Inv'
  OBVIOUS
<1> USE EdaAssumption DEF Run
<1> PICK n \in 0..MaxPlanned :
      hypotheses' = [i \in 1..(IF n = 0 THEN 1 ELSE n) |-> "pending"]
  BY DEF PlanAnalysis
<1> DEFINE m == IF n = 0 THEN 1 ELSE n
<1>1. m \in Nat /\ m >= 1
  OBVIOUS
<1>2. /\ hypotheses' \in Seq(HypothesisStatus) /\ Len(hypotheses') = m
      /\ \A i \in DOMAIN hypotheses' : hypotheses'[i] = "pending" /\ i > 0
  BY <1>1, IsASeq DEF HypothesisStatus
<1>3. queries' = <<>> /\ iteration' = 0 /\ pc' = "generate_eda_sql" /\ steps' = 2
  BY DEF PlanAnalysis, Inv, LoopShape, StepsInv
<1>4. TypeOK'
  BY <1>2, <1>3 DEF PlanAnalysis, Inv, TypeOK, Nodes
<1>5. LoopShape'
  BY <1>1, <1>2, <1>3 DEF LoopShape, LoopNodes, Queried
<1>6. OneQueryPerHypothesis' /\ EvidenceBeforeVerdict'
  BY <1>2, <1>3 DEF OneQueryPerHypothesis, EvidenceBeforeVerdict, Queried, Judged
<1>7. StepsInv'
  BY <1>3 DEF StepsInv
<1>8. WebInv'
  BY <1>3 DEF PlanAnalysis, Inv, WebInv, LoopNodes, WebResearchLast
<1> QED  BY <1>4, <1>5, <1>6, <1>7, <1>8 DEF Inv

LEMMA GenerateKeepsInv == Inv /\ GenerateSql => Inv'
<1> SUFFICES ASSUME Inv, GenerateSql PROVE Inv'
  OBVIOUS
<1> USE EdaAssumption DEF Run
<1>0. /\ pc = "generate_eda_sql" /\ pc' = "execute_eda_sql" /\ steps' = steps + 1
      /\ UNCHANGED <<hypotheses, iteration, needsWeb, searches, fused, reason>>
      /\ iteration \in Nat /\ Len(hypotheses) \in Nat
      /\ hypotheses \in Seq(HypothesisStatus) /\ queries \in Seq(QueryRecord)
      /\ DOMAIN hypotheses = 1..Len(hypotheses)
  BY DEF GenerateSql, Inv, TypeOK
<1>1. Len(queries) = iteration /\ Judged = iteration /\ Len(hypotheses) > iteration
  BY <1>0 DEF Inv, OneQueryPerHypothesis, Queried, Judged, LoopShape
<1>2. iteration + 1 \in DOMAIN hypotheses /\ Pending(iteration + 1)
  BY <1>0, <1>1 DEF Inv, OneQueryPerHypothesis, Pending
<1>3. queries' = Append(queries, NewQuery(iteration + 1))
  BY <1>0, <1>1, <1>2, FirstPendingIsNext DEF GenerateSql, SomePending
<1>4. NewQuery(iteration + 1) \in QueryRecord
  BY <1>0 DEF NewQuery, QueryRecord
<1>5. /\ queries' \in Seq(QueryRecord) /\ Len(queries') = iteration + 1
      /\ \A k \in 1..iteration : queries'[k] = queries[k]
      /\ queries'[iteration + 1] = NewQuery(iteration + 1)
  BY <1>0, <1>1, <1>3, <1>4, AppendProperties
<1>6. TypeOK'
  BY <1>0, <1>5 DEF Inv, TypeOK, Nodes
<1>7. LoopShape'
  BY <1>0, <1>1, <1>5 DEF Inv, LoopShape, LoopNodes, Queried, NewQuery
<1>8. OneQueryPerHypothesis'
  BY <1>0, <1>1, <1>5 DEF Inv, OneQueryPerHypothesis, Queried, Judged, NewQuery
<1>9. EvidenceBeforeVerdict'
  BY <1>0, <1>1, <1>5 DEF Inv, EvidenceBeforeVerdict
<1>10. StepsInv'
  <2>1. iteration < MaxIterations /\ steps \in Nat /\ MaxIterations \in Nat
    BY <1>0 DEF Inv, TypeOK, LoopShape, LoopNodes
  <2> QED  BY <1>0, <2>1 DEF Inv, StepsInv
<1>11. WebInv'
  BY <1>0 DEF Inv, WebInv, LoopNodes, WebResearchLast
<1> QED  BY <1>6, <1>7, <1>8, <1>9, <1>10, <1>11 DEF Inv

LEMMA ExecuteKeepsInv == Inv /\ ExecuteSql => Inv'
<1> SUFFICES ASSUME Inv, ExecuteSql PROVE Inv'
  OBVIOUS
<1> USE EdaAssumption DEF Run
<1> DEFINE n == Len(queries)
<1>0. /\ pc = "execute_eda_sql" /\ pc' = "evaluate_hypothesis" /\ steps' = steps + 1
      /\ UNCHANGED <<hypotheses, iteration, needsWeb, searches, fused, reason>>
      /\ iteration \in Nat /\ n \in Nat /\ queries \in Seq(QueryRecord)
      /\ DOMAIN queries = 1..n
  BY DEF ExecuteSql, Inv, TypeOK
<1>1. n = iteration + 1
  BY <1>0 DEF Inv, OneQueryPerHypothesis, Queried
<1>2. {i \in DOMAIN queries : ~queries[i].executed} = {n}
  BY <1>0, <1>1 DEF Inv, LoopShape
<1>3. queries' = [i \in 1..n |->
        IF i = n THEN [queries[i] EXCEPT !.executed = TRUE] ELSE queries[i]]
  BY <1>0, <1>1, <1>2 DEF ExecuteSql
<1>4. ASSUME NEW i \in 1..n
      PROVE  /\ queries'[i] \in QueryRecord /\ queries'[i].executed
             /\ queries'[i].hyp = queries[i].hyp
  <2>1. queries[i] \in QueryRecord
    BY <1>0, ElementOfSeq
  <2>2. i # n => queries[i].executed
    BY <1>0 DEF Inv, LoopShape
  <2> QED  BY <1>3, <2>1, <2>2 DEF QueryRecord
<1>5. queries' \in Seq(QueryRecord) /\ Len(queries') = n /\ DOMAIN queries' = 1..n
  BY <1>0, <1>3, <1>4, IsASeq
<1>6. TypeOK'
  BY <1>0, <1>5 DEF Inv, TypeOK, Nodes
<1>7. LoopShape'
  BY <1>0, <1>4, <1>5 DEF Inv, LoopShape, LoopNodes, Queried
<1>8. OneQueryPerHypothesis'
  BY <1>0, <1>4, <1>5 DEF Inv, OneQueryPerHypothesis, Queried, Judged
<1>9. EvidenceBeforeVerdict'
  BY <1>0, <1>4, <1>5 DEF Inv, EvidenceBeforeVerdict
<1>10. StepsInv'
  <2>1. iteration < MaxIterations /\ steps \in Nat /\ MaxIterations \in Nat
    BY <1>0 DEF Inv, TypeOK, LoopShape, LoopNodes
  <2> QED  BY <1>0, <2>1 DEF Inv, StepsInv
<1>11. WebInv'
  BY <1>0 DEF Inv, WebInv, LoopNodes, WebResearchLast
<1> QED  BY <1>6, <1>7, <1>8, <1>9, <1>10, <1>11 DEF Inv

LEMMA EvaluateKeepsInv == Inv /\ EvaluateHypothesis => Inv'
<1> SUFFICES ASSUME Inv, EvaluateHypothesis PROVE Inv'
  OBVIOUS
<1> USE EdaAssumption DEF Run
<1> DEFINE n == iteration + 1
<1>0. /\ pc = "evaluate_hypothesis" /\ pc' = "decide_next_step" /\ steps' = steps + 1
      /\ UNCHANGED <<queries, iteration, needsWeb, searches, fused, reason>>
      /\ iteration \in Nat /\ Len(hypotheses) \in Nat
      /\ hypotheses \in Seq(HypothesisStatus) /\ queries \in Seq(QueryRecord)
      /\ DOMAIN hypotheses = 1..Len(hypotheses) /\ DOMAIN queries = 1..Len(queries)
  BY DEF EvaluateHypothesis, Inv, TypeOK
<1>1. Len(queries) = n /\ Judged = iteration /\ Len(hypotheses) >= n
  BY <1>0 DEF Inv, OneQueryPerHypothesis, Queried, Judged, LoopShape
<1>2. n \in DOMAIN hypotheses /\ FirstPending(n)
  BY <1>0, <1>1, FirstPendingIsNext
<1>3. n \in DOMAIN queries /\ queries[n].executed /\ queries[n].hyp = n
  BY <1>0, <1>1 DEF Inv, LoopShape, OneQueryPerHypothesis
<1>4. Related(queries[n], n)
  BY <1>3 DEF Related
<1> PICK v \in Verdicts, child \in BOOLEAN :
      hypotheses' = IF child THEN Append([hypotheses EXCEPT ![n] = v], "pending")
                             ELSE [hypotheses EXCEPT ![n] = v]
  <2>1. PICK i \in DOMAIN hypotheses, v \in Verdicts, child \in BOOLEAN :
          /\ FirstPending(i)
          /\ hypotheses' = IF child THEN Append([hypotheses EXCEPT ![i] = v], "pending")
                                    ELSE [hypotheses EXCEPT ![i] = v]
    BY <1>2, <1>3, <1>4 DEF EvaluateHypothesis
  <2>2. i = n
    BY <1>0, <1>1, <2>1, FirstPendingIsNext
  <2> QED  BY <2>1, <2>2
<1> DEFINE judged == [hypotheses EXCEPT ![n] = v]
<1>5. /\ judged \in Seq(HypothesisStatus) /\ Len(judged) = Len(hypotheses)
      /\ judged[n] = v /\ v # "pending"
      /\ \A i \in 1..Len(hypotheses) : i # n => judged[i] = hypotheses[i]
  BY <1>0, <1>2, ExceptSeq DEF Verdicts, HypothesisStatus
<1>6. /\ hypotheses' \in Seq(HypothesisStatus)
      /\ Len(hypotheses') \in {Len(hypotheses), Len(hypotheses) + 1}
      /\ \A i \in 1..Len(hypotheses) : hypotheses'[i] = judged[i]
      /\ Len(hypotheses') = Len(hypotheses) + 1 =>
           hypotheses'[Len(hypotheses) + 1] = "pending"
  <2> "pending" \in HypothesisStatus
    BY DEF HypothesisStatus
  <2> HIDE DEF judged
  <2>1. CASE child
    BY <1>0, <1>5, <2>1, AppendProperties DEF judged
  <2>2. CASE ~child
    <3>1. hypotheses' = judged
      BY <2>2 DEF judged
    <3>2. Len(hypotheses) \in Nat
      BY <1>0
    <3>3. Len(hypotheses') = Len(hypotheses)
      BY <1>5, <3>1
    <3>4. hypotheses' \in Seq(HypothesisStatus)
      BY <1>5, <3>1
    <3>5. \A i \in 1..Len(hypotheses) : hypotheses'[i] = judged[i]
      BY <3>1
    <3> QED  BY ONLY <3>2, <3>3, <3>4, <3>5
  <2> QED  BY <2>1, <2>2
<1> HIDE DEF judged
<1>7. DOMAIN hypotheses' = 1..Len(hypotheses')
  BY <1>6
<1>8. \A i \in DOMAIN hypotheses : hypotheses[i] = "pending" <=> i > iteration
  BY <1>0, <1>1 DEF Inv, OneQueryPerHypothesis
<1>9. \A i \in DOMAIN hypotheses' : hypotheses'[i] = "pending" <=> i > n
  <2> TAKE i \in DOMAIN hypotheses'
  <2>1. CASE i \in 1..Len(hypotheses) /\ i # n
    BY <1>0, <1>5, <1>6, <1>8, <2>1
  <2>2. CASE i = n
    BY <1>0, <1>2, <1>5, <1>6, <2>2
  <2>3. CASE i = Len(hypotheses) + 1
    BY <1>0, <1>1, <1>6, <1>7, <2>3
  <2> QED  BY <1>0, <1>6, <1>7, <2>1, <2>2, <2>3
<1>10. TypeOK'
  BY <1>0, <1>6 DEF Inv, TypeOK, Nodes
<1>11. LoopShape'
  BY <1>0, <1>1, <1>6 DEF Inv, LoopShape, LoopNodes, Queried
<1>12. OneQueryPerHypothesis'
  <2>1. Queried' = n /\ Judged' = n
    BY <1>0 DEF Queried, Judged
  <2>2. \A k \in DOMAIN queries : queries[k].hyp = k
    BY <1>0 DEF Inv, OneQueryPerHypothesis
  <2> QED  BY <1>0, <1>1, <1>9, <2>1, <2>2 DEF OneQueryPerHypothesis
<1>13. EvidenceBeforeVerdict'
  <2> SUFFICES ASSUME NEW i \in DOMAIN hypotheses', hypotheses'[i] # "pending"
               PROVE  \E k \in DOMAIN queries : queries[k].executed /\ queries[k].hyp = i
    BY <1>0 DEF EvidenceBeforeVerdict
  <2>1. i \in 1..n
    BY <1>0, <1>7, <1>9
  <2>2. i \in DOMAIN queries /\ queries[i].executed /\ queries[i].hyp = i
    BY <2>1, <1>0, <1>1 DEF Inv, LoopShape, OneQueryPerHypothesis
  <2> QED  BY <2>2
<1>14. StepsInv'
  <2>1. iteration < MaxIterations /\ steps \in Nat /\ MaxIterations \in Nat
    BY <1>0 DEF Inv, TypeOK, LoopShape, LoopNodes
  <2> QED  BY <1>0, <2>1 DEF Inv, StepsInv
<1>15. WebInv'
  BY <1>0 DEF Inv, WebInv, LoopNodes, WebResearchLast
<1> QED  BY <1>10, <1>11, <1>12, <1>13, <1>14, <1>15 DEF Inv

LEMMA DecideKeepsInv == Inv /\ DecideNextStep => Inv'
<1> SUFFICES ASSUME Inv, DecideNextStep PROVE Inv'
  OBVIOUS
<1> USE EdaAssumption DEF Run
<1> DEFINE n == iteration + 1
<1>0. /\ pc = "decide_next_step" /\ steps' = steps + 1 /\ iteration' = n
      /\ UNCHANGED <<hypotheses, queries, needsWeb, searches, fused>>
      /\ iteration \in Nat /\ iteration < MaxIterations
      /\ Len(hypotheses) \in Nat /\ DOMAIN hypotheses = 1..Len(hypotheses)
  BY DEF DecideNextStep, Inv, TypeOK, LoopShape, LoopNodes
<1>1. /\ pc' \in {"generate_eda_sql", "perform_web_research", "generate_findings"}
      /\ pc' = "generate_eda_sql" => SomePending /\ n < MaxIterations
      /\ pc' = "perform_web_research" => n < MaxIterations /\ needsWeb /\ ~SomePending
      /\ pc' = "generate_findings" => ~SomePending \/ n = MaxIterations
      /\ reason' \in {"none", "iterations", "evaluated"}
  BY <1>0 DEF DecideNextStep, OutOfBudget
<1>2. Queried' = n /\ Judged' = n /\ Queried = n /\ Judged = n
  BY <1>0, <1>1 DEF Queried, Judged
<1>3. SomePending => Len(hypotheses) > n
  BY <1>0, <1>2 DEF Inv, OneQueryPerHypothesis, SomePending, Pending
<1>4. TypeOK'
  BY <1>0, <1>1 DEF Inv, TypeOK, Nodes
<1>5. LoopShape'
  BY <1>0, <1>1, <1>2, <1>3 DEF Inv, LoopShape, LoopNodes
<1>6. OneQueryPerHypothesis'
  BY <1>0, <1>1, <1>2 DEF Inv, OneQueryPerHypothesis
<1>7. EvidenceBeforeVerdict'
  BY <1>0 DEF Inv, EvidenceBeforeVerdict
<1>8. StepsInv'
  BY <1>0, <1>1 DEF Inv, StepsInv, TypeOK
<1>9. WebInv'
  <2>1. searches = 0 /\ SomePending' = SomePending
    BY <1>0 DEF Inv, WebInv, LoopNodes, SomePending, Pending
  <2> QED  BY <1>0, <1>1, <2>1 DEF WebInv, LoopNodes, WebResearchLast
<1> QED  BY <1>4, <1>5, <1>6, <1>7, <1>8, <1>9 DEF Inv

(* The nodes outside the loop touch neither hypotheses nor queries. *)
LEMMA OtherNodesKeepInv ==
  Inv /\ (\/ LoadContext \/ PerformWebResearch \/ FuseContext \/ GenerateFindings
          \/ LogDecision \/ NodeRaises \/ UNCHANGED vars) => Inv'
<1> SUFFICES ASSUME Inv,
               \/ LoadContext \/ PerformWebResearch \/ FuseContext \/ GenerateFindings
               \/ LogDecision \/ NodeRaises \/ UNCHANGED vars
             PROVE  Inv'
  OBVIOUS
<1> USE EdaAssumption DEF Run
<1>1. UNCHANGED <<hypotheses, queries, iteration>>
  BY DEF LoadContext, PerformWebResearch, FuseContext, GenerateFindings, LogDecision,
         NodeRaises, vars
<1>2. /\ pc' \in LoopNodes => pc' = pc
      /\ pc' \in {"load_context", "plan_analysis"} => pc \in {"load_context", "plan_analysis"}
      /\ pc' # "failed" => pc # "failed"
      /\ pc' # "failed" /\ pc \in LoopNodes => pc' = pc
  BY DEF LoadContext, PerformWebResearch, FuseContext, GenerateFindings, LogDecision,
         NodeRaises, vars, LoopNodes
<1>3. TypeOK' /\ WebInv' /\ StepsInv'
  <2>0. SomePending' = SomePending
    BY <1>1 DEF SomePending, Pending
  <2>1. CASE LoadContext
    BY <2>0, <2>1 DEF Inv, TypeOK, WebInv, WebResearchLast, StepsInv, LoadContext, Nodes, LoopNodes
  <2>2. CASE PerformWebResearch
    <3>1. searches = 0 /\ needsWeb /\ ~SomePending /\ iteration < MaxIterations
      BY <2>2 DEF Inv, WebInv, PerformWebResearch
    <3>2. searches' \in 1..3
      BY <2>2, <3>1 DEF PerformWebResearch
    <3>3. TypeOK'
      BY <2>2, <3>2 DEF Inv, TypeOK, PerformWebResearch, Nodes
    <3>4. WebInv'
      BY <2>0, <2>2, <3>1 DEF Inv, WebInv, WebResearchLast, PerformWebResearch, LoopNodes
    <3>5. StepsInv'
      <4>1. iteration \in Nat /\ steps \in Nat /\ steps = 4 * iteration + 2
        BY <2>2 DEF Inv, TypeOK, StepsInv, PerformWebResearch
      <4> QED  BY <2>2, <3>1, <4>1 DEF StepsInv, PerformWebResearch
    <3> QED  BY <3>3, <3>4, <3>5
  <2>3. CASE FuseContext
    BY <2>0, <2>3 DEF Inv, TypeOK, WebInv, WebResearchLast, StepsInv, FuseContext, Nodes, LoopNodes
  <2>4. CASE GenerateFindings
    BY <2>0, <2>4
    DEF Inv, TypeOK, WebInv, WebResearchLast, StepsInv, GenerateFindings, Nodes, LoopNodes
  <2>5. CASE LogDecision
    BY <2>0, <2>5 DEF Inv, TypeOK, WebInv, WebResearchLast, StepsInv, LogDecision, Nodes, LoopNodes
  <2>6. CASE NodeRaises
    BY <2>0, <2>6 DEF Inv, TypeOK, WebInv, WebResearchLast, StepsInv, NodeRaises, LoopNodes
  <2>7. CASE UNCHANGED vars
    BY <2>0, <2>7 DEF Inv, TypeOK, WebInv, WebResearchLast, StepsInv, vars, LoopNodes
  <2> QED  BY <2>1, <2>2, <2>3, <2>4, <2>5, <2>6, <2>7
<1>4. pc' # "failed" => Queried' = Queried /\ Judged' = Judged
  BY <1>1, <1>2 DEF Queried, Judged, LoopNodes
<1>5. LoopShape'
  BY <1>1, <1>2, <1>4 DEF Inv, LoopShape, LoopNodes
<1>6. OneQueryPerHypothesis' /\ EvidenceBeforeVerdict'
  BY <1>1, <1>2, <1>4 DEF Inv, OneQueryPerHypothesis, EvidenceBeforeVerdict
<1> QED  BY <1>3, <1>5, <1>6 DEF Inv

LEMMA InvHolds == Spec => []Inv
<1>1. Init => Inv
  <2> SUFFICES ASSUME Init PROVE Inv
    OBVIOUS
  <2> USE EdaAssumption DEF Init
  <2>1. TypeOK
    <3>1. <<>> \in Seq(HypothesisStatus) /\ <<>> \in Seq(QueryRecord)
      BY EmptySeq
    <3>2. iteration \in 0..MaxIterations /\ searches \in 0..3 /\ steps \in Nat
      OBVIOUS
    <3>3. pc \in Nodes /\ reason \in {"none", "iterations", "evaluated"}
      BY DEF Nodes
    <3> QED  BY <3>1, <3>2, <3>3 DEF TypeOK
  <2>2. Len(hypotheses) = 0 /\ Len(queries) = 0 /\ Queried = 0 /\ Judged = 0
    BY DEF Queried, Judged
  <2>3. LoopShape /\ StepsInv
    BY <2>2 DEF LoopShape, LoopNodes, StepsInv
  <2>4. OneQueryPerHypothesis /\ EvidenceBeforeVerdict
    BY <2>2 DEF OneQueryPerHypothesis, EvidenceBeforeVerdict
  <2>5. WebInv
    BY DEF WebInv, WebResearchLast
  <2> QED  BY <2>1, <2>3, <2>4, <2>5 DEF Inv
<1>2. Inv /\ [Next]_vars => Inv'
  BY PlanKeepsInv, GenerateKeepsInv, ExecuteKeepsInv, EvaluateKeepsInv, DecideKeepsInv,
     OtherNodesKeepInv DEF Next
<1> QED
  BY <1>1, <1>2, PTL DEF Spec

(* The analysis keeps its shape, the iteration its budget and the research its
   three searches. *)
THEOREM LoopTypeCorrect == Spec => []TypeOK
<1>1. Inv => TypeOK
  BY DEF Inv
<1> QED
  BY <1>1, InvHolds, PTL

(* Whatever the budget and the plan, no verdict is reached without an executed
   query written for that very hypothesis. *)
THEOREM VerdictsHaveEvidence == Spec => []EvidenceBeforeVerdict
<1>1. Inv => EvidenceBeforeVerdict
  BY DEF Inv
<1> QED
  BY <1>1, InvHolds, PTL

(* Each iteration writes one query, for the next hypothesis in order, and
   settles it: the sub-question branch of generate_eda_sql is never taken. *)
THEOREM IterationsInOrder == Spec => []OneQueryPerHypothesis
<1>1. Inv => OneQueryPerHypothesis
  BY DEF Inv
<1> QED
  BY <1>1, InvHolds, PTL

(* A run that is done has no hypothesis left or no budget left. *)
THEOREM NothingLeftBehind == Spec => []FinishedOrOutOfBudget
<1>1. Inv => FinishedOrOutOfBudget
  BY DEF Inv, WebInv, FinishedOrOutOfBudget
<1> QED
  BY <1>1, InvHolds, PTL

(* Web research waits for the last verdict, happens once, and never happens in
   a run that has used up its budget. *)
THEOREM WebResearchIsLast == Spec => []WebResearchLast
<1>1. Inv => WebResearchLast
  BY DEF Inv, WebInv
<1> QED
  BY <1>1, InvHolds, PTL

(* A run takes at most four graph steps per iteration and four more. *)
THEOREM BoundedWork == Spec => []StepsBounded
<1>1. Inv => StepsBounded
  BY DEF Inv, StepsInv, StepsBounded
<1> QED
  BY <1>1, InvHolds, PTL

-----------------------------------------------------------------------------
(* The books: EdaRun. *)

(* Every query has an outcome, which is open only while execute_eda_sql is
   about to run and only for the last one; a plan starts from clean books. *)
OutcomesInv ==
  /\ outcomes \in Seq(Outcomes) /\ Len(outcomes) = Len(queries)
  /\ \A k \in 1..Len(outcomes) :
       outcomes[k] = "open" <=> pc = "execute_eda_sql" /\ k = Len(outcomes)
  /\ pc \in {"load_context", "plan_analysis"} => modes = {} /\ outcomes = <<>>

(* What comes last has not come yet: the fusion, the findings and the row. *)
ProductInv ==
  /\ pc \in LoopNodes \cup {"load_context", "plan_analysis", "perform_web_research",
                            "fuse_context"} => ~fused
  /\ pc \notin {"log_eda_decision", "done", "failed"} => product = NoProduct
  /\ pc \notin {"done", "failed"} => row = NoRow

BooksInv ==
  /\ books \in Books
  /\ OutcomesInv
  /\ FailuresAddUp

CallsInv == ProductInv /\ CallsAddUp

-----------------------------------------------------------------------------
LEMMA BookedStepIsAStep == RunNext => Next
  BY DEF RunNext, RunPlan, RunGenerate, RunExecute, RunEvaluate, RunResearch, RunFuse,
         RunFindings, RunLog, RunFails, Next

LEMMA LoopInvHolds == RunSpec => []Inv
<1>1. RunInit => Init
  BY DEF RunInit
<1>2. [RunNext]_runVars => [Next]_vars
  BY BookedStepIsAStep DEF runVars
<1>3. RunSpec => Spec
  BY <1>1, <1>2, PTL DEF RunSpec, Spec
<1> QED BY <1>3, InvHolds, PTL

JudgedOnes == {i \in DOMAIN hypotheses : hypotheses[i] # "pending"}

(* Inside a run the verdicts are as many as the iterations that reached one. *)
LEMMA VerdictsCounted ==
  Inv /\ pc # "failed" => /\ Judged \in Nat /\ Cardinality(JudgedOnes) = Judged
                          /\ IsFiniteSet(JudgedOnes)
<1> SUFFICES ASSUME Inv, pc # "failed"
             PROVE  /\ Judged \in Nat /\ Cardinality(JudgedOnes) = Judged
                    /\ IsFiniteSet(JudgedOnes)
  OBVIOUS
<1>1. /\ Judged \in Nat /\ Queried \in Nat /\ Judged <= Queried
      /\ DOMAIN hypotheses = 1..Len(hypotheses) /\ Len(hypotheses) \in Nat
  BY DEF Inv, TypeOK, Judged, Queried
<1>2. Judged <= Len(hypotheses)
  BY <1>1 DEF Inv, LoopShape
<1>3. JudgedOnes = 1..Judged
  BY <1>1, <1>2 DEF Inv, OneQueryPerHypothesis, JudgedOnes
<1>4. IsFiniteSet(1..Judged) /\ Cardinality(1..Judged) = Judged
  BY <1>1, FS_Interval
<1> QED BY <1>1, <1>3, <1>4

(* So a step that reaches a verdict adds one. *)
LEMMA OneVerdictMore ==
  ASSUME Inv, Inv', EvaluateHypothesis
  PROVE  /\ Cardinality(JudgedOnes)' = Cardinality(JudgedOnes) + 1
         /\ hypotheses' # hypotheses /\ hypotheses # <<>> /\ hypotheses' # <<>>
<1>1. (Inv /\ pc # "failed" => Cardinality(JudgedOnes) = Judged)'
  BY VerdictsCounted, PTL
<1>2. /\ pc = "evaluate_hypothesis" /\ pc' = "decide_next_step" /\ iteration' = iteration
      /\ iteration \in Nat
  BY DEF EvaluateHypothesis, Run, Inv, TypeOK
<1>3. Judged = iteration /\ Judged' = iteration + 1
  BY <1>2 DEF Judged
<1>4. Cardinality(JudgedOnes) = iteration /\ Cardinality(JudgedOnes)' = iteration + 1
  BY <1>1, <1>2, <1>3, VerdictsCounted
<1>5. hypotheses' = hypotheses => JudgedOnes' = JudgedOnes
  BY DEF JudgedOnes
<1>6. Len(hypotheses) >= iteration + 1
  BY <1>2 DEF Inv, LoopShape, Queried
<1>7. hypotheses # <<>>
  BY <1>2, <1>6
<1>8. Len(hypotheses') >= iteration + 1
  BY <1>2 DEF Inv, LoopShape, Queried
<1>9. hypotheses' # <<>>
  BY <1>2, <1>8
<1> QED BY <1>2, <1>4, <1>5, <1>7, <1>9

(* The entries of a node, one for each account, leave the other counters alone. *)
LEMMA Entries ==
  ASSUME NEW b \in Books
  PROVE  /\ \A n \in Nat :
              /\ Billed(b, n) \in Books /\ Billed(b, n).usage = b.usage + n
              /\ Billed(b, n).llm_calls = b.llm_calls /\ Billed(b, n).failures = b.failures
              /\ Billed(b, n).sql_queries = b.sql_queries
         /\ \A n \in Nat :
              /\ Metered(b, n) \in Books /\ Metered(b, n).usage = b.usage
              /\ Metered(b, n).llm_calls = b.llm_calls + n /\ Metered(b, n).failures = b.failures
              /\ Metered(b, n).sql_queries = b.sql_queries
         /\ \A n \in Nat :
              /\ Traced(b, n) \in Books /\ Traced(b, n).usage = b.usage
              /\ Traced(b, n).llm_calls = b.llm_calls /\ Traced(b, n).failures = b.failures
              /\ Traced(b, n).sql_queries = b.sql_queries
<1>1. /\ b.usage \in Nat /\ b.llm_calls \in Nat /\ b.tool_calls \in Nat
  BY DEF Books
<1>2. ASSUME NEW n \in Nat
      PROVE  b.usage + n \in Nat /\ b.llm_calls + n \in Nat /\ b.tool_calls + n \in Nat
  BY <1>1
<1>3. ASSUME NEW n \in Nat
      PROVE  /\ Billed(b, n) \in Books /\ Billed(b, n).usage = b.usage + n
             /\ Billed(b, n).llm_calls = b.llm_calls /\ Billed(b, n).failures = b.failures
             /\ Billed(b, n).sql_queries = b.sql_queries
  BY <1>2 DEF Books, Billed
<1>4. ASSUME NEW n \in Nat
      PROVE  /\ Metered(b, n) \in Books /\ Metered(b, n).usage = b.usage
             /\ Metered(b, n).llm_calls = b.llm_calls + n /\ Metered(b, n).failures = b.failures
             /\ Metered(b, n).sql_queries = b.sql_queries
  BY <1>2 DEF Books, Metered
<1>5. ASSUME NEW n \in Nat
      PROVE  /\ Traced(b, n) \in Books /\ Traced(b, n).usage = b.usage
             /\ Traced(b, n).llm_calls = b.llm_calls /\ Traced(b, n).failures = b.failures
             /\ Traced(b, n).sql_queries = b.sql_queries
  BY <1>2 DEF Books, Traced
<1> QED BY <1>3, <1>4, <1>5

(* One call, entered in both accounts. *)
LEMMA BothEntries ==
  ASSUME NEW b \in Books
  PROVE  /\ Metered(Billed(b, 1), 1) \in Books
         /\ Metered(Billed(b, 1), 1).usage = b.usage + 1
         /\ Metered(Billed(b, 1), 1).llm_calls = b.llm_calls + 1
         /\ Metered(Billed(b, 1), 1).failures = b.failures
         /\ Metered(Billed(b, 1), 1).sql_queries = b.sql_queries
<1> DEFINE billed == Billed(b, 1)
<1>1. /\ billed \in Books /\ billed.usage = b.usage + 1 /\ billed.llm_calls = b.llm_calls
      /\ billed.failures = b.failures /\ billed.sql_queries = b.sql_queries
  BY Entries
<1> HIDE DEF billed
<1>2. /\ Metered(billed, 1) \in Books /\ Metered(billed, 1).usage = billed.usage
      /\ Metered(billed, 1).llm_calls = billed.llm_calls + 1
      /\ Metered(billed, 1).failures = billed.failures
      /\ Metered(billed, 1).sql_queries = billed.sql_queries
  BY <1>1, Entries
<1> QED BY <1>1, <1>2 DEF billed

LEMMA FailureEntry ==
  ASSUME NEW b \in Books, NEW mode, RecordFailure(b, mode)
  PROVE  /\ books' \in Books /\ books'.failures = b.failures + 1
         /\ books'.usage = b.usage /\ books'.llm_calls = b.llm_calls
         /\ books'.sql_queries = b.sql_queries /\ modes' = modes \cup {mode}
  BY DEF Books, RecordFailure

(* Counting outcomes: an open one counts for nothing until it is settled. *)
LEMMA CountType ==
  ASSUME outcomes \in Seq(Outcomes), NEW S
  PROVE  IsFiniteSet({k \in DOMAIN outcomes : outcomes[k] \in S}) /\ Count(S) \in Nat
<1>1. DOMAIN outcomes = 1..Len(outcomes) /\ Len(outcomes) \in Nat
  OBVIOUS
<1>2. IsFiniteSet(DOMAIN outcomes)
  BY <1>1, FS_Interval
<1>3. {k \in DOMAIN outcomes : outcomes[k] \in S} \in SUBSET DOMAIN outcomes
  OBVIOUS
<1>4. IsFiniteSet({k \in DOMAIN outcomes : outcomes[k] \in S})
  BY <1>2, <1>3, FS_Subset
<1> QED BY <1>4, FS_CardinalityType DEF Count

LEMMA CountOpened ==
  ASSUME outcomes \in Seq(Outcomes), outcomes' = Append(outcomes, "open"),
         NEW S, "open" \notin S
  PROVE  Count(S)' = Count(S)
<1>1. /\ Len(outcomes) \in Nat /\ DOMAIN outcomes = 1..Len(outcomes)
      /\ DOMAIN outcomes' = 1..(Len(outcomes) + 1)
      /\ \A k \in 1..Len(outcomes) : outcomes'[k] = outcomes[k]
      /\ outcomes'[Len(outcomes) + 1] = "open"
  BY DEF Outcomes
<1>2. {k \in DOMAIN outcomes' : outcomes'[k] \in S} = {k \in DOMAIN outcomes : outcomes[k] \in S}
  BY <1>1
<1> QED BY <1>2 DEF Count

LEMMA CountSettled ==
  ASSUME outcomes \in Seq(Outcomes), NEW n \in DOMAIN outcomes, outcomes[n] = "open",
         NEW o, outcomes' = [outcomes EXCEPT ![n] = o],
         NEW S, "open" \notin S
  PROVE  Count(S)' = IF o \in S THEN Count(S) + 1 ELSE Count(S)
<1> DEFINE T == {k \in DOMAIN outcomes : outcomes[k] \in S}
<1>1. DOMAIN outcomes' = DOMAIN outcomes /\ outcomes'[n] = o
      /\ \A k \in DOMAIN outcomes : k # n => outcomes'[k] = outcomes[k]
  OBVIOUS
<1>2. {k \in DOMAIN outcomes' : outcomes'[k] \in S} = IF o \in S THEN T \cup {n} ELSE T
  BY <1>1
<1>3. IsFiniteSet(T) /\ n \notin T
  BY CountType
<1>4. Cardinality(T \cup {n}) = Cardinality(T) + 1
  BY <1>3, FS_AddElement
<1> QED BY <1>2, <1>4 DEF Count

(* No kind of failure is an open query. *)
LEMMA OpenIsNoOutcome ==
  /\ "open" \notin Failed /\ "open" \notin {"rows", "empty"}
  /\ "open" \notin {"invalid"} /\ "open" \notin {"runtime"}
  BY DEF Failed

-----------------------------------------------------------------------------
LEMMA RunPlanKeepsBooks == Inv /\ Inv' /\ BooksInv /\ RunPlan => BooksInv'
<1> SUFFICES ASSUME Inv, Inv', BooksInv, RunPlan PROVE BooksInv'
  OBVIOUS
<1>1. /\ pc = "plan_analysis" /\ pc' = "generate_eda_sql"
      /\ UNCHANGED <<queries, outcomes>>
  BY DEF RunPlan, PlanAnalysis, Run
<1>2. modes = {} /\ outcomes = <<>>
  BY <1>1 DEF BooksInv, OutcomesInv
<1>3. \A S : Count(S) = 0 /\ Count(S)' = 0
  BY <1>1, <1>2, FS_EmptySet DEF Count
<1>4. /\ Metered(Billed(books, 1), 1) \in Books
      /\ Metered(Billed(books, 1), 1).failures = 0
      /\ Metered(Billed(books, 1), 1).sql_queries = 0
  <2>1. books \in Books
    BY DEF BooksInv
  <2>2. books.failures = 0 /\ books.sql_queries = 0
    <3>1. Count(Failed) = 0 /\ Count({"rows", "empty"}) = 0 /\ "planning_failure" \notin modes
      BY <1>2, <1>3
    <3> QED BY <3>1 DEF BooksInv, FailuresAddUp
  <2> QED BY <2>1, <2>2, BothEntries
<1>5. OutcomesInv'
  BY <1>1, <1>2 DEF BooksInv, OutcomesInv
<1>6. CASE RecordFailure(Metered(Billed(books, 1), 1), "planning_failure")
  <2>1. /\ books' \in Books /\ books'.failures = 1 /\ books'.sql_queries = 0
        /\ modes' = {"planning_failure"}
    BY <1>2, <1>4, <1>6, FailureEntry
  <2> QED BY <1>3, <1>5, <2>1 DEF BooksInv, FailuresAddUp
<1>7. CASE books' = Metered(Billed(books, 1), 1) /\ UNCHANGED modes
  BY <1>2, <1>3, <1>4, <1>5, <1>7 DEF BooksInv, FailuresAddUp
<1> QED BY <1>6, <1>7 DEF RunPlan

LEMMA RunGenerateKeepsBooks == Inv /\ Inv' /\ BooksInv /\ RunGenerate => BooksInv'
<1> SUFFICES ASSUME Inv, Inv', BooksInv, RunGenerate PROVE BooksInv'
  OBVIOUS
<1>1. /\ pc = "generate_eda_sql" /\ pc' = "execute_eda_sql" /\ iteration' = iteration
      /\ UNCHANGED modes
  BY DEF RunGenerate, GenerateSql, Run
<1>2. /\ Len(queries) = iteration /\ Len(queries') = iteration + 1 /\ iteration \in Nat
  BY <1>1 DEF Inv, OneQueryPerHypothesis, Queried, TypeOK
<1>3. /\ books' = Traced(Metered(Billed(books, 1), 1), 1)
      /\ outcomes' = Append(outcomes, "open")
  BY <1>2 DEF RunGenerate
<1>4. /\ books \in Books /\ books' \in Books
      /\ books'.failures = books.failures /\ books'.sql_queries = books.sql_queries
  <2>1. books \in Books
    BY DEF BooksInv
  <2> DEFINE called == Metered(Billed(books, 1), 1)
  <2>2. /\ called \in Books
        /\ called.failures = books.failures /\ called.sql_queries = books.sql_queries
    BY <2>1, BothEntries
  <2>3. books' = Traced(called, 1)
    BY <1>3
  <2> HIDE DEF called
  <2> QED BY <2>1, <2>2, <2>3, Entries
<1>5. outcomes \in Seq(Outcomes)
  BY DEF BooksInv, OutcomesInv
<1>6. \A S : "open" \notin S => Count(S)' = Count(S)
  BY <1>3, <1>5, CountOpened
<1>7. FailuresAddUp'
  BY <1>1, <1>4, <1>6, OpenIsNoOutcome DEF BooksInv, FailuresAddUp
<1>8. OutcomesInv'
  <2>1. /\ outcomes' \in Seq(Outcomes) /\ Len(outcomes') = Len(outcomes) + 1
        /\ Len(outcomes) \in Nat
        /\ \A k \in 1..Len(outcomes) : outcomes'[k] = outcomes[k]
        /\ outcomes'[Len(outcomes) + 1] = "open"
    BY <1>3, <1>5 DEF Outcomes
  <2> QED BY <1>1, <1>2, <2>1 DEF BooksInv, OutcomesInv
<1> QED BY <1>4, <1>7, <1>8 DEF BooksInv

LEMMA RunExecuteKeepsBooks == Inv /\ Inv' /\ BooksInv /\ RunExecute => BooksInv'
<1> SUFFICES ASSUME Inv, Inv', BooksInv, RunExecute PROVE BooksInv'
  OBVIOUS
<1> DEFINE n == Len(queries)
<1>1. /\ pc = "execute_eda_sql" /\ pc' = "evaluate_hypothesis" /\ iteration' = iteration
      /\ queries' = [i \in DOMAIN queries |->
           IF i \in {j \in DOMAIN queries : ~queries[j].executed}
                /\ \A j \in {j \in DOMAIN queries : ~queries[j].executed} : j <= i
             THEN [queries[i] EXCEPT !.executed = TRUE] ELSE queries[i]]
  BY DEF RunExecute, ExecuteSql, Run
<1>2. /\ n = iteration + 1 /\ n \in 1..n /\ DOMAIN queries = 1..n
      /\ Len(queries') = n /\ iteration \in Nat
  BY <1>1 DEF Inv, OneQueryPerHypothesis, Queried, TypeOK
<1>3. \A k \in 1..n : queries[k].executed <=> k # n
  BY <1>1 DEF Inv, LoopShape
<1>4. queries'[n].executed
  BY <1>1, <1>2 DEF Inv, LoopShape
<1>5. queries' # queries
  BY <1>2, <1>3, <1>4
<1>6. \A k \in DOMAIN queries : queries'[k] # queries[k] => k = n
  BY <1>1, <1>2, <1>3
<1>7. PICK o \in Outcomes \ {"open"} :
        /\ outcomes' = [outcomes EXCEPT ![n] = o]
        /\ CASE o = "invalid" -> RecordFailure(Traced(books, 1), "implementation_error")
             [] o = "runtime" -> RecordFailure(Traced(books, 1), "runtime_error")
             [] OTHER -> /\ books' = [Traced(books, 1) EXCEPT !.sql_queries = @ + 1]
                         /\ UNCHANGED modes
  BY <1>5, <1>6 DEF RunExecute
<1>8. /\ outcomes \in Seq(Outcomes) /\ Len(outcomes) = n /\ n \in DOMAIN outcomes
      /\ outcomes[n] = "open" /\ o \in Outcomes
  BY <1>1, <1>2 DEF BooksInv, OutcomesInv
<1>9. OutcomesInv'
  <2>1. /\ outcomes' \in Seq(Outcomes) /\ Len(outcomes') = n /\ outcomes'[n] = o
        /\ \A k \in 1..n : k # n => outcomes'[k] = outcomes[k]
    BY <1>7, <1>8
  <2> QED BY <1>1, <1>2, <1>7, <1>8, <2>1 DEF BooksInv, OutcomesInv
<1>10. \A S : "open" \notin S =>
         Count(S) \in Nat /\ Count(S)' = IF o \in S THEN Count(S) + 1 ELSE Count(S)
  BY <1>7, <1>8, CountSettled, CountType
<1>11. /\ Count(Failed) \in Nat /\ Count({"rows", "empty"}) \in Nat
       /\ Count({"invalid"}) \in Nat /\ Count({"runtime"}) \in Nat
       /\ Count(Failed)' = IF o \in Failed THEN Count(Failed) + 1 ELSE Count(Failed)
       /\ Count({"rows", "empty"})' = IF o \in {"rows", "empty"} THEN Count({"rows", "empty"}) + 1
                                                                 ELSE Count({"rows", "empty"})
       /\ Count({"invalid"})' = IF o = "invalid" THEN Count({"invalid"}) + 1 ELSE Count({"invalid"})
       /\ Count({"runtime"})' = IF o = "runtime" THEN Count({"runtime"}) + 1 ELSE Count({"runtime"})
  BY <1>10, OpenIsNoOutcome
<1>12. /\ books \in Books /\ Traced(books, 1) \in Books
       /\ Traced(books, 1).failures = books.failures
       /\ Traced(books, 1).sql_queries = books.sql_queries
       /\ books.failures \in Nat /\ books.sql_queries \in Nat
  BY Entries DEF BooksInv, Books
<1>13. books' \in Books /\ FailuresAddUp'
  <2>1. CASE o = "invalid"
    <3>1. /\ books' \in Books /\ books'.failures = books.failures + 1
          /\ books'.sql_queries = books.sql_queries
          /\ modes' = modes \cup {"implementation_error"}
      BY <1>7, <1>12, <2>1, FailureEntry
    <3> QED BY <1>11, <1>12, <2>1, <3>1 DEF BooksInv, FailuresAddUp, Failed
  <2>2. CASE o = "runtime"
    <3>1. /\ books' \in Books /\ books'.failures = books.failures + 1
          /\ books'.sql_queries = books.sql_queries
          /\ modes' = modes \cup {"runtime_error"}
      BY <1>7, <1>12, <2>2, FailureEntry
    <3> QED BY <1>11, <1>12, <2>2, <3>1 DEF BooksInv, FailuresAddUp, Failed
  <2>3. CASE o \in {"rows", "empty"}
    <3>1. books' = [Traced(books, 1) EXCEPT !.sql_queries = @ + 1] /\ UNCHANGED modes
      BY <1>7, <2>3
    <3>2. /\ books' \in Books /\ books'.failures = books.failures
          /\ books'.sql_queries = books.sql_queries + 1
      BY <1>12, <3>1 DEF Books
    <3> QED BY <1>11, <2>3, <3>1, <3>2 DEF BooksInv, FailuresAddUp, Failed
  <2> QED BY <1>7, <2>1, <2>2, <2>3 DEF Outcomes
<1> QED BY <1>9, <1>13 DEF BooksInv

(* The other nodes record no outcome, though some of them call the LLM. *)
LEMMA OtherNodesKeepBooks ==
  Inv /\ Inv' /\ BooksInv /\ RunNext /\ ~RunPlan /\ ~RunGenerate /\ ~RunExecute => BooksInv'
<1> SUFFICES ASSUME Inv, BooksInv, RunNext, ~RunPlan, ~RunGenerate, ~RunExecute
             PROVE  BooksInv'
  OBVIOUS
<1>1. UNCHANGED <<queries, outcomes, modes>>
  BY DEF RunNext, RunEvaluate, RunResearch, RunFuse, RunFindings, RunLog, RunFails, LoadContext,
         DecideNextStep, EvaluateHypothesis, PerformWebResearch, FuseContext, GenerateFindings,
         LogDecision, NodeRaises, bookVars
<1>2. /\ pc # "execute_eda_sql" /\ pc' # "execute_eda_sql"
      /\ pc' \in {"load_context", "plan_analysis"} => pc \in {"load_context", "plan_analysis"}
  BY DEF RunNext, RunEvaluate, RunResearch, RunFuse, RunFindings, RunLog, RunFails, LoadContext,
         DecideNextStep, EvaluateHypothesis, PerformWebResearch, FuseContext, GenerateFindings,
         LogDecision, NodeRaises, MayRaise, Run
<1>3. OutcomesInv'
  BY <1>1, <1>2 DEF BooksInv, OutcomesInv
<1>4. /\ books' \in Books /\ books'.failures = books.failures
      /\ books'.sql_queries = books.sql_queries
  <2>0. books \in Books
    BY DEF BooksInv
  <2> DEFINE called == Metered(Billed(books, 1), 1)
  <2>1. /\ called \in Books
        /\ called.failures = books.failures /\ called.sql_queries = books.sql_queries
    BY <2>0, BothEntries
  <2>2. CASE RunResearch
    <3>1. searches' - searches \in Nat
      <4>1. searches \in Nat
        BY DEF Inv, TypeOK
      <4> QED BY <2>2, <4>1 DEF RunResearch, PerformWebResearch
    <3> QED BY <2>0, <2>2, <3>1, Entries DEF RunResearch
  <2>3. CASE RunFuse
    <3>1. books' = books \/ books' = Traced(called, 1)
      BY <2>3 DEF RunFuse
    <3> HIDE DEF called
    <3> QED BY <2>0, <2>1, <3>1, Entries
  <2>4. CASE RunFindings
    <3>1. books' = called \/ books' = Metered(Billed(called, 1), 1)
      BY <2>4 DEF RunFindings
    <3> HIDE DEF called
    <3> QED BY <2>1, <3>1, BothEntries
  <2>5. CASE RunEvaluate
    <3>1. books' = books \/ books' = called
      BY <2>5 DEF RunEvaluate
    <3> HIDE DEF called
    <3> QED BY <2>0, <2>1, <3>1
  <2>6. CASE RunLog \/ RunFails \/ ((LoadContext \/ DecideNextStep) /\ UNCHANGED bookVars)
    BY <2>0, <2>6 DEF RunLog, RunFails, bookVars
  <2> QED BY <2>2, <2>3, <2>4, <2>5, <2>6 DEF RunNext
<1>5. \A S : Count(S)' = Count(S)
  BY <1>1 DEF Count
<1> QED BY <1>1, <1>3, <1>4, <1>5 DEF BooksInv, FailuresAddUp

LEMMA BooksInvHolds == RunSpec => []BooksInv
<1>1. RunInit => BooksInv
  <2> SUFFICES ASSUME RunInit PROVE BooksInv
    OBVIOUS
  <2>1. outcomes = <<>> /\ queries = <<>> /\ modes = {} /\ pc = "load_context"
    BY DEF RunInit, Init
  <2>2. \A S : Count(S) = 0
    BY <2>1, FS_EmptySet DEF Count
  <2>3. books \in Books /\ books.failures = 0 /\ books.sql_queries = 0
    BY DEF RunInit, Books
  <2> QED BY <2>1, <2>2, <2>3 DEF BooksInv, OutcomesInv, FailuresAddUp
<1>2. Inv /\ Inv' /\ BooksInv /\ UNCHANGED runVars => BooksInv'
  BY DEF BooksInv, OutcomesInv, FailuresAddUp, Count, runVars, bookVars, vars
<1>3. Inv /\ Inv' /\ BooksInv /\ [RunNext]_runVars => BooksInv'
  BY <1>2, RunPlanKeepsBooks, RunGenerateKeepsBooks, RunExecuteKeepsBooks, OtherNodesKeepBooks
<1> QED BY <1>1, <1>3, LoopInvHolds, PTL DEF RunSpec

-----------------------------------------------------------------------------
(* What a node leaves alone counts as before. *)
LEMMA ShownUnchanged ==
  UNCHANGED <<hypotheses, fused, searches, product>> /\ Len(queries') = Len(queries)
    => CallsShown' = CallsShown
  BY DEF CallsShown

(* The calls shown, with the verdicts under their name. *)
LEMMA ShownIs ==
  CallsShown = (IF hypotheses = <<>> THEN 0 ELSE 1) + Len(queries) + Cardinality(JudgedOnes)
               + (IF fused /\ searches > 0 THEN 1 ELSE 0)
               + (IF product.drawn = "llm" THEN 1 ELSE 0)
               + (IF product.findings > 0 THEN 1 ELSE 0)
  BY DEF CallsShown, JudgedOnes

(* A node that makes one call, in both accounts, and shows it. *)
LEMMA OneCallShown ==
  ASSUME BooksInv, CallsInv, pc \notin {"done", "failed"}, row' = row,
         CallsShown' = CallsShown + 1,
         books'.usage = books.usage + 1, books'.llm_calls = books.llm_calls + 1
  PROVE  CallsAddUp'
<1>1. row'.status # "succeeded"
  BY DEF CallsInv, ProductInv, NoRow
<1> QED BY <1>1 DEF CallsInv, CallsAddUp

(* A node that makes none. *)
LEMMA NoCallShown ==
  ASSUME CallsInv, row' = row, CallsShown' = CallsShown,
         books'.usage = books.usage, books'.llm_calls = books.llm_calls
  PROVE  CallsAddUp'
  BY DEF CallsInv, CallsAddUp

LEMMA RunPlanIsPaid == Inv /\ Inv' /\ BooksInv /\ CallsInv /\ RunPlan => CallsInv'
<1> SUFFICES ASSUME Inv, Inv', BooksInv, CallsInv, RunPlan PROVE CallsInv'
  OBVIOUS
<1>1. /\ pc = "plan_analysis" /\ pc' = "generate_eda_sql"
      /\ UNCHANGED <<queries, searches, fused, product, row>>
  BY DEF RunPlan, PlanAnalysis, Run
<1>2. hypotheses = <<>> /\ Len(hypotheses') > 0
  <2>1. Len(hypotheses') > iteration' /\ iteration' \in Nat
    BY <1>1 DEF Inv, LoopShape, TypeOK
  <2> QED BY <1>1, <2>1 DEF Inv, LoopShape
<1>3. hypotheses' # <<>>
  BY <1>2
<1>4. JudgedOnes = {} /\ JudgedOnes' = {}
  <2>1. PICK n \in 0..MaxPlanned :
          hypotheses' = [i \in 1..(IF n = 0 THEN 1 ELSE n) |-> "pending"]
    BY DEF RunPlan, PlanAnalysis
  <2> QED BY <1>2, <2>1 DEF JudgedOnes
<1>5. CallsShown' = CallsShown + 1
  <2> DEFINE V == Cardinality({i \in DOMAIN hypotheses : hypotheses[i] # "pending"})
  <2>1. V = 0 /\ V' = 0
    <3>1. {i \in DOMAIN hypotheses : hypotheses[i] # "pending"} = {}
      BY <1>4 DEF JudgedOnes
    <3>2. {i \in DOMAIN hypotheses' : hypotheses'[i] # "pending"} = {}
      BY <1>4 DEF JudgedOnes
    <3> QED BY <3>1, <3>2, FS_EmptySet
  <2>0. Len(queries) \in Nat /\ Len(queries') = Len(queries)
    BY <1>1 DEF Inv, TypeOK
  <2>3. CallsShown = (IF hypotheses = <<>> THEN 0 ELSE 1) + Len(queries) + V
                     + (IF fused /\ searches > 0 THEN 1 ELSE 0)
                     + (IF product.drawn = "llm" THEN 1 ELSE 0)
                     + (IF product.findings > 0 THEN 1 ELSE 0)
    BY DEF CallsShown
  <2>4. CallsShown' = (IF hypotheses' = <<>> THEN 0 ELSE 1) + Len(queries) + V'
                     + (IF fused /\ searches > 0 THEN 1 ELSE 0)
                     + (IF product.drawn = "llm" THEN 1 ELSE 0)
                     + (IF product.findings > 0 THEN 1 ELSE 0)
    BY <1>1 DEF CallsShown
  <2> HIDE DEF V
  <2> DEFINE web == IF fused /\ searches > 0 THEN 1 ELSE 0
             drawn == IF product.drawn = "llm" THEN 1 ELSE 0
             found == IF product.findings > 0 THEN 1 ELSE 0
  <2>2. web \in Nat /\ drawn \in Nat /\ found \in Nat
    OBVIOUS
  <2>5. CallsShown = 0 + Len(queries) + 0 + web + drawn + found
    BY <1>2, <2>1, <2>3
  <2>6. CallsShown' = 1 + Len(queries) + 0 + web + drawn + found
    BY <1>3, <2>1, <2>4
  <2> HIDE DEF web, drawn, found
  <2> QED BY <2>0, <2>2, <2>5, <2>6
<1>6. books'.usage = books.usage + 1 /\ books'.llm_calls = books.llm_calls + 1
  <2> DEFINE called == Metered(Billed(books, 1), 1)
  <2>1. /\ called \in Books /\ called.usage = books.usage + 1
        /\ called.llm_calls = books.llm_calls + 1
    BY BothEntries DEF BooksInv
  <2>2. books' = called \/ RecordFailure(called, "planning_failure")
    BY DEF RunPlan
  <2> HIDE DEF called
  <2> QED BY <2>1, <2>2, FailureEntry
<1>7. CallsAddUp'
  BY <1>1, <1>5, <1>6, OneCallShown
<1> QED BY <1>1, <1>7 DEF CallsInv, ProductInv, LoopNodes

LEMMA RunGenerateIsPaid == Inv /\ Inv' /\ BooksInv /\ CallsInv /\ RunGenerate => CallsInv'
<1> SUFFICES ASSUME Inv, Inv', BooksInv, CallsInv, RunGenerate PROVE CallsInv'
  OBVIOUS
<1>1. /\ pc = "generate_eda_sql" /\ pc' = "execute_eda_sql" /\ iteration' = iteration
      /\ UNCHANGED <<hypotheses, searches, fused, product, row>>
  BY DEF RunGenerate, GenerateSql, Run
<1>2. Len(queries') = Len(queries) + 1 /\ Len(queries) \in Nat
  BY <1>1 DEF Inv, OneQueryPerHypothesis, Queried, TypeOK
<1>3. books' = Traced(Metered(Billed(books, 1), 1), 1)
  BY <1>2 DEF RunGenerate
<1>4. books'.usage = books.usage + 1 /\ books'.llm_calls = books.llm_calls + 1
  <2> DEFINE called == Metered(Billed(books, 1), 1)
  <2>1. /\ called \in Books /\ called.usage = books.usage + 1
        /\ called.llm_calls = books.llm_calls + 1
    BY BothEntries DEF BooksInv
  <2>2. books' = Traced(called, 1)
    BY <1>3
  <2> HIDE DEF called
  <2> QED BY <2>1, <2>2, Entries
<1>5. CallsShown' = CallsShown + 1
  <2> DEFINE Verdicts1 == Cardinality({i \in DOMAIN hypotheses : hypotheses[i] # "pending"})
  <2>1. Verdicts1 \in Nat
    BY <1>1, VerdictsCounted DEF JudgedOnes
  <2>2. Verdicts1' = Verdicts1
    BY <1>1
  <2> QED BY <1>1, <1>2, <2>1, <2>2 DEF CallsShown
<1>6. CallsAddUp'
  BY <1>1, <1>4, <1>5, OneCallShown
<1> QED BY <1>1, <1>6 DEF CallsInv, ProductInv, LoopNodes

LEMMA RunEvaluateIsPaid == Inv /\ Inv' /\ BooksInv /\ CallsInv /\ RunEvaluate => CallsInv'
<1> SUFFICES ASSUME Inv, Inv', BooksInv, CallsInv, RunEvaluate PROVE CallsInv'
  OBVIOUS
<1>1. /\ pc = "evaluate_hypothesis" /\ pc' = "decide_next_step" /\ EvaluateHypothesis
      /\ UNCHANGED <<queries, searches, fused, product, row>>
  BY DEF RunEvaluate, EvaluateHypothesis, Run
<1>2. /\ Cardinality(JudgedOnes)' = Cardinality(JudgedOnes) + 1
      /\ hypotheses' # hypotheses /\ hypotheses # <<>> /\ hypotheses' # <<>>
  BY <1>1, OneVerdictMore
<1>3. books'.usage = books.usage + 1 /\ books'.llm_calls = books.llm_calls + 1
  BY <1>2, BothEntries DEF BooksInv, RunEvaluate
<1>4. CallsShown' = CallsShown + 1
  <2>1. (CallsShown = (IF hypotheses = <<>> THEN 0 ELSE 1) + Len(queries)
            + Cardinality(JudgedOnes) + (IF fused /\ searches > 0 THEN 1 ELSE 0)
            + (IF product.drawn = "llm" THEN 1 ELSE 0)
            + (IF product.findings > 0 THEN 1 ELSE 0))'
    BY ShownIs, PTL
  <2>2. Cardinality(JudgedOnes) \in Nat /\ Len(queries) \in Nat
    BY <1>1, VerdictsCounted DEF Inv, TypeOK
  <2> QED BY <1>1, <1>2, <2>1, <2>2, ShownIs
<1>5. CallsAddUp'
  BY <1>1, <1>3, <1>4, OneCallShown
<1> QED BY <1>1, <1>5 DEF CallsInv, ProductInv, LoopNodes

(* Web research is traced and costs no call; its fusion costs one. *)
LEMMA WebIsPaid ==
  Inv /\ Inv' /\ BooksInv /\ CallsInv /\ (RunResearch \/ RunFuse) => CallsInv'
<1> SUFFICES ASSUME Inv, Inv', BooksInv, CallsInv, RunResearch \/ RunFuse PROVE CallsInv'
  OBVIOUS
<1>1. CASE RunResearch
  <2>1. /\ pc = "perform_web_research" /\ pc' = "fuse_context" /\ ~fused /\ ~fused'
        /\ UNCHANGED <<hypotheses, queries, fused, product, row>>
    BY <1>1 DEF RunResearch, PerformWebResearch, Run, CallsInv, ProductInv
  <2>2. CallsShown' = CallsShown
    BY <2>1 DEF CallsShown
  <2>3. searches' - searches \in Nat
    <3>1. searches \in Nat
      BY DEF Inv, TypeOK
    <3> QED BY <1>1, <3>1 DEF RunResearch, PerformWebResearch
  <2>4. books'.usage = books.usage /\ books'.llm_calls = books.llm_calls
    BY <1>1, <2>3, Entries DEF RunResearch, BooksInv
  <2> QED BY <2>1, <2>2, <2>4, NoCallShown DEF CallsInv, ProductInv
<1>2. CASE RunFuse
  <2>1. /\ pc = "fuse_context" /\ pc' = "generate_findings" /\ ~fused /\ fused'
        /\ UNCHANGED <<hypotheses, queries, searches, product, row>> /\ searches \in Nat
    BY <1>2 DEF RunFuse, FuseContext, Run, CallsInv, ProductInv, Inv, TypeOK
  <2>2. CASE searches > 0
    <3> DEFINE called == Metered(Billed(books, 1), 1)
    <3>1. /\ called \in Books /\ called.usage = books.usage + 1
          /\ called.llm_calls = books.llm_calls + 1
      BY BothEntries DEF BooksInv
    <3>2. books' = Traced(called, 1)
      BY <1>2, <2>2 DEF RunFuse
    <3> HIDE DEF called
    <3>3. books'.usage = books.usage + 1 /\ books'.llm_calls = books.llm_calls + 1
      BY <3>1, <3>2, Entries
    <3>4. CallsShown' = CallsShown + 1
      <4> DEFINE V == Cardinality({i \in DOMAIN hypotheses : hypotheses[i] # "pending"})
      <4>1. V \in Nat /\ Len(queries) \in Nat
        BY <2>1, VerdictsCounted DEF JudgedOnes, Inv, TypeOK
      <4>2. V' = V
        BY <2>1
      <4> QED BY <2>1, <2>2, <4>1, <4>2 DEF CallsShown
    <3> QED BY <2>1, <3>3, <3>4, OneCallShown DEF CallsInv, ProductInv, LoopNodes
  <2>3. CASE ~(searches > 0)
    <3>1. CallsShown' = CallsShown
      BY <2>1, <2>3 DEF CallsShown
    <3>2. books' = books
      BY <1>2, <2>3 DEF RunFuse
    <3> QED BY <2>1, <3>1, <3>2, NoCallShown DEF CallsInv, ProductInv, LoopNodes
  <2> QED BY <2>2, <2>3
<1> QED BY <1>1, <1>2

(* The findings cost a call, and the charts another where the LLM chose them. *)
LEMMA RunFindingsIsPaid == Inv /\ Inv' /\ BooksInv /\ CallsInv /\ RunFindings => CallsInv'
<1> SUFFICES ASSUME Inv, Inv', BooksInv, CallsInv, RunFindings PROVE CallsInv'
  OBVIOUS
<1>1. /\ pc = "generate_findings" /\ pc' = "log_eda_decision"
      /\ UNCHANGED <<hypotheses, queries, searches, fused, row>>
  BY DEF RunFindings, GenerateFindings, Run
<1>2. product = NoProduct /\ row = NoRow
  BY <1>1 DEF CallsInv, ProductInv
<1> DEFINE called == Metered(Billed(books, 1), 1)
           twice == Metered(Billed(called, 1), 1)
<1>3. /\ product'.findings > 0
      /\ \/ product'.drawn # "llm" /\ books' = called
         \/ product'.drawn = "llm" /\ books' = twice
  <2>1. PICK charts \in 0..MaxItems, findings \in 0..MaxItems, recommendations \in 0..MaxItems,
             n \in 0..MaxItems, how \in {"none", "llm", "fallback"} :
          /\ product' = [charts |-> n, drawn |-> how, findings |-> Atleast(1, findings),
                         recommendations |-> recommendations]
          /\ books' = IF how = "llm" THEN twice ELSE called
    BY EdaRunAssumption DEF RunFindings
  <2>2. Atleast(1, findings) > 0
    BY EdaRunAssumption DEF Atleast
  <2> QED BY <2>1, <2>2
<1>4. /\ called \in Books /\ called.usage = books.usage + 1
      /\ called.llm_calls = books.llm_calls + 1
  BY BothEntries DEF BooksInv
<1>5. twice.usage = called.usage + 1 /\ twice.llm_calls = called.llm_calls + 1
  <2> HIDE DEF called
  <2> QED BY <1>4, BothEntries
<1> HIDE DEF called, twice
<1> DEFINE k == IF product'.drawn = "llm" THEN 2 ELSE 1
<1>6. books'.usage = books.usage + k /\ books'.llm_calls = books.llm_calls + k
  BY <1>3, <1>4, <1>5 DEF BooksInv, Books
<1>7. CallsShown' = CallsShown + k
  <2> DEFINE V == Cardinality({i \in DOMAIN hypotheses : hypotheses[i] # "pending"})
  <2>1. V \in Nat /\ Len(queries) \in Nat
    BY <1>1, VerdictsCounted DEF JudgedOnes, Inv, TypeOK
  <2>2. V' = V
    BY <1>1
  <2>3. product.drawn # "llm" /\ ~(product.findings > 0)
    BY <1>2 DEF NoProduct
  <2> HIDE DEF V
  <2>4. /\ CallsShown = (IF hypotheses = <<>> THEN 0 ELSE 1) + Len(queries) + V
                        + (IF fused /\ searches > 0 THEN 1 ELSE 0)
        /\ CallsShown' = (IF hypotheses = <<>> THEN 0 ELSE 1) + Len(queries) + V
                        + (IF fused /\ searches > 0 THEN 1 ELSE 0) + k
    BY <1>1, <1>3, <2>1, <2>2, <2>3 DEF CallsShown, V
  <2> QED BY <2>4
<1>8. CallsAddUp'
  <2>1. row'.status # "succeeded"
    BY <1>1, <1>2 DEF NoRow
  <2> QED BY <1>6, <1>7, <2>1 DEF CallsInv, CallsAddUp
<1> QED BY <1>1, <1>2, <1>8 DEF CallsInv, ProductInv, LoopNodes

(* The other nodes make no call; the last one writes the row. *)
LEMMA OtherNodesArePaid ==
  Inv /\ Inv' /\ BooksInv /\ CallsInv
    /\ (\/ RunExecute \/ RunLog \/ RunFails
        \/ ((LoadContext \/ DecideNextStep) /\ UNCHANGED bookVars)
        \/ UNCHANGED runVars)
    => CallsInv'
<1> SUFFICES ASSUME Inv, Inv', BooksInv, CallsInv,
               \/ RunExecute \/ RunLog \/ RunFails
               \/ ((LoadContext \/ DecideNextStep) /\ UNCHANGED bookVars)
               \/ UNCHANGED runVars
             PROVE  CallsInv'
  OBVIOUS
<1>1. CASE RunExecute
  <2>1. /\ pc = "execute_eda_sql" /\ pc' = "evaluate_hypothesis" /\ iteration' = iteration
        /\ UNCHANGED <<hypotheses, searches, fused, product, row>>
    BY <1>1 DEF RunExecute, ExecuteSql, Run
  <2>2. Len(queries') = Len(queries)
    BY <2>1 DEF Inv, OneQueryPerHypothesis, Queried
  <2>3. books'.usage = books.usage /\ books'.llm_calls = books.llm_calls
    <3> DEFINE traced == Traced(books, 1)
    <3>1. /\ traced \in Books /\ traced.usage = books.usage
          /\ traced.llm_calls = books.llm_calls
      BY Entries DEF BooksInv
    <3>2. \/ books' = books \/ books' = [traced EXCEPT !.sql_queries = @ + 1]
          \/ RecordFailure(traced, "implementation_error")
          \/ RecordFailure(traced, "runtime_error")
      BY <1>1 DEF RunExecute, Outcomes
    <3> HIDE DEF traced
    <3> QED BY <3>1, <3>2, FailureEntry DEF Books
  <2>4. CallsShown' = CallsShown
    BY <2>1, <2>2, ShownUnchanged
  <2> QED BY <2>1, <2>3, <2>4, NoCallShown DEF CallsInv, ProductInv, LoopNodes
<1>2. CASE RunLog
  <2>1. /\ pc' = "done" /\ books' = books
        /\ UNCHANGED <<hypotheses, queries, searches, fused, product>>
        /\ pc \notin {"done", "failed"}
    BY <1>2 DEF RunLog, LogDecision, Run
  <2>2. row' = row \/ row'.calls = books.usage
    BY <1>2 DEF RunLog, WriteRow
  <2>3. CallsShown' = CallsShown
    BY <2>1, ShownUnchanged
  <2> QED BY <2>1, <2>2, <2>3 DEF CallsInv, CallsAddUp, ProductInv, LoopNodes
<1>3. CASE RunFails
  <2>1. /\ pc' = "failed" /\ books' = books
        /\ UNCHANGED <<hypotheses, queries, searches, fused, product>>
    BY <1>3 DEF RunFails, NodeRaises
  <2>2. row' = row \/ row'.status = "failed"
    BY <1>3 DEF RunFails, WriteRow
  <2>3. CallsShown' = CallsShown
    BY <2>1, ShownUnchanged
  <2> QED BY <2>1, <2>2, <2>3 DEF CallsInv, CallsAddUp, ProductInv, LoopNodes
<1>4. CASE (LoadContext \/ DecideNextStep) /\ UNCHANGED bookVars
  <2>1. UNCHANGED <<hypotheses, queries, searches, fused, books, product, row>>
    BY <1>4 DEF LoadContext, DecideNextStep, bookVars
  <2>2. /\ pc \in {"load_context", "decide_next_step"}
        /\ pc' \in {"plan_analysis", "generate_eda_sql", "perform_web_research",
                     "generate_findings"}
    BY <1>4 DEF LoadContext, DecideNextStep, Run
  <2>3. CallsShown' = CallsShown
    BY <2>1, ShownUnchanged
  <2> QED BY <2>1, <2>2, <2>3, NoCallShown DEF CallsInv, ProductInv, LoopNodes
<1>5. CASE UNCHANGED runVars
  <2>1. UNCHANGED <<pc, hypotheses, queries, searches, fused, books, product, row>>
    BY <1>5 DEF runVars, vars, bookVars
  <2>2. CallsShown' = CallsShown
    BY <2>1, ShownUnchanged
  <2> QED BY <2>1, <2>2, NoCallShown DEF CallsInv, ProductInv, LoopNodes
<1> QED BY <1>1, <1>2, <1>3, <1>4, <1>5

LEMMA CallsInvHolds == RunSpec => []CallsInv
<1>1. RunInit => CallsInv
  <2> SUFFICES ASSUME RunInit PROVE CallsInv
    OBVIOUS
  <2>1. /\ hypotheses = <<>> /\ queries = <<>> /\ ~fused /\ product = NoProduct
        /\ row = NoRow /\ books.usage = 0 /\ books.llm_calls = 0
    BY DEF RunInit, Init
  <2>2. Cardinality({i \in DOMAIN hypotheses : hypotheses[i] # "pending"}) = 0
    <3>1. {i \in DOMAIN hypotheses : hypotheses[i] # "pending"} = {}
      BY <2>1
    <3> QED BY <3>1, FS_EmptySet
  <2>3. CallsShown = 0
    BY <2>1, <2>2 DEF CallsShown, NoProduct
  <2> QED BY <2>1, <2>3 DEF CallsInv, CallsAddUp, ProductInv, NoRow
<1>2. Inv /\ Inv' /\ BooksInv /\ CallsInv /\ [RunNext]_runVars => CallsInv'
  BY RunPlanIsPaid, RunGenerateIsPaid, RunEvaluateIsPaid, WebIsPaid, RunFindingsIsPaid,
     OtherNodesArePaid DEF RunNext
<1> QED BY <1>1, <1>2, LoopInvHolds, BooksInvHolds, PTL DEF RunSpec

(* Whatever the plan, the verdicts and the faults: both accounts hold exactly
   the calls the analysis shows, and so does the row of a run that succeeded. *)
THEOREM CallsAlwaysAddUp == RunSpec => []CallsAddUp
<1>1. CallsInv => CallsAddUp
  BY DEF CallsInv
<1> QED BY <1>1, CallsInvHolds, PTL

(* Every query that failed is a failure of its mode, beside at most one failed
   plan, and the others are the queries counted. *)
THEOREM FailuresAlwaysAddUp == RunSpec => []FailuresAddUp
<1>1. BooksInv => FailuresAddUp
  BY DEF BooksInv
<1> QED BY <1>1, BooksInvHolds, PTL

=============================================================================
