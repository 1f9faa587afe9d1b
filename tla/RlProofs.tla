------------------------------ MODULE RlProofs --------------------------------
(***************************************************************************)
(* Theorems about training, for every list of episodes and every budget of *)
(* steps, iterations and episodes: first about the episodes (RlEpisode),   *)
(* then about the returns (RlReward), a layer whose actions are actions of *)
(* RlEpisode, so that its invariant holds there as well.                   *)
(***************************************************************************)
EXTENDS RlReward, SequenceTheorems, TLAPS

InEpisode == {"act", "sandbox", "iterate", "decide"}

(* The counters of the training loop: how far the round-robin pointer is ahead
   of the trajectories collected, and when a step is left. *)
CountersOK ==
  /\ pc = "reset" => episodeIdx = Len(trajectories)
  /\ pc \in InEpisode =>
       episodeIdx = Len(trajectories) + 1 /\ Len(trajectories) < NumEpisodes /\ episode > 0
  /\ pc = "act" => steps < StepBudget
  /\ pc \in {"sandbox", "iterate", "decide"} => steps > 0

(* While the analysis is open it has an iteration left, and a hypothesis to
   spend it on unless the episode has none at all. *)
OpenAnalysis ==
  /\ pc \in {"act", "sandbox", "iterate"} => ~analysis.complete
  /\ ~analysis.complete =>
       /\ analysis.iteration < MaxIterations
       /\ IF analysis.hyps = <<>> THEN analysis.iteration = 0
                                  ELSE analysis.iteration < Len(analysis.hyps)

(* VerdictsKeepPace without the set of judged hypotheses, and with the query
   the current step may still add. *)
PaceInv ==
  /\ \A i \in 1..Len(analysis.hyps) :
       analysis.hyps[i] = "judged" <=> i <= analysis.iteration
  /\ IF analysis.hyps = <<>> THEN analysis.iteration <= 1
                             ELSE analysis.iteration <= Len(analysis.hyps)
  /\ \A i \in 1..Len(analysis.hyps) : i <= analysis.iteration =>
       \E k \in 1..Len(analysis.queries) : analysis.queries[k] = i
  /\ analysis.iteration <= Len(analysis.queries)
  /\ Len(analysis.queries) <= steps
  /\ pc \in {"sandbox", "iterate"} => Len(analysis.queries) < steps

Inv == TypeOK /\ CountersOK /\ OpenAnalysis /\ OneWayToEnd /\ PaceInv

(* ------------------------------------------------------------------------ *)
(* The sandbox keeps its type, whatever the daemon answers. *)
LEMMA BoxTyped == Box!TypeOK /\ (Box!RunStep \/ Box!ProgramEnds) => Box!TypeOK'
<1> SUFFICES ASSUME Box!TypeOK, Box!RunStep \/ Box!ProgramEnds PROVE Box!TypeOK'
  OBVIOUS
<1> USE DEF Box!TypeOK, Box!Phases, Box!Verdicts
<1>1. CASE Box!Create
  BY <1>1 DEF Box!Create, Box!Fails
<1>2. CASE Box!Inject
  <2>1. orphans' \in Nat
    <3>1. orphans \in Nat /\ (orphans' = orphans \/ orphans' = orphans + 1)
      BY <1>2, Zenon DEF Box!Inject
    <3> QED BY ONLY <3>1
  <2>2. handle' \in BOOLEAN /\ timedOut' \in BOOLEAN
    <3>1. /\ handle \in BOOLEAN /\ timedOut \in BOOLEAN
          /\ handle' = TRUE \/ handle' = handle
          /\ timedOut' = timedOut
      BY <1>2, Zenon DEF Box!Inject
    <3> QED BY <3>1
  <2>3. phase' \in Box!Phases /\ verdict' \in Box!Verdicts
    BY <1>2 DEF Box!Inject, Box!Fails
  <2>4. container' \in {"none", "created", "running", "exited ok", "exited error"}
    BY <1>2 DEF Box!Inject
  <2> QED BY <2>1, <2>2, <2>3, <2>4
<1>3. CASE Box!Start
  BY <1>3 DEF Box!Start, Box!Fails
<1>4. CASE Box!Wait
  BY <1>4 DEF Box!Wait
<1>5. CASE Box!Kill
  BY <1>5 DEF Box!Kill
<1>6. CASE Box!Logs
  BY <1>6 DEF Box!Logs, Box!Fails
<1>7. CASE Box!Remove
  <2>1. orphans' \in Nat /\ phase' \in Box!Phases
    <3>1. orphans \in Nat /\ (orphans' = orphans \/ orphans' = orphans + 1)
      BY <1>7, Zenon DEF Box!Remove
    <3>2. orphans' \in Nat
      BY ONLY <3>1
    <3> QED BY <1>7, <3>2 DEF Box!Remove
  <2>2. handle' \in BOOLEAN /\ timedOut' \in BOOLEAN
    BY <1>7 DEF Box!Remove
  <2>3. verdict' \in Box!Verdicts
    BY <1>7 DEF Box!Remove
  <2>4. container' \in {"none", "created", "running", "exited ok", "exited error"}
    BY <1>7 DEF Box!Remove
  <2> QED BY <2>1, <2>2, <2>3, <2>4
<1>8. CASE Box!ProgramEnds
  BY <1>8 DEF Box!ProgramEnds
<1> QED BY <1>1, <1>2, <1>3, <1>4, <1>5, <1>6, <1>7, <1>8 DEF Box!RunStep

(* The first pending hypothesis of an open analysis is the one after those the
   iterations so far have judged; an analysis without hypotheses has none. *)
LEMMA FirstPendingIsNext ==
  ASSUME analysis \in Analysis, OpenAnalysis, PaceInv, ~analysis.complete
  PROVE  FirstPending(analysis) = IF analysis.hyps = <<>> THEN 0 ELSE analysis.iteration + 1
<1> DEFINE n == analysis.iteration
           P == Pending(analysis)
<1>0. /\ n \in Nat /\ analysis.hyps \in Seq({"pending", "judged"})
      /\ Len(analysis.hyps) \in Nat
  BY DEF Analysis
<1>1. CASE analysis.hyps = <<>>
  <2>1. P = {}
    BY <1>1 DEF Pending
  <2> QED BY <1>1, <2>1 DEF FirstPending
<1>2. CASE analysis.hyps # <<>>
  <2>1. n + 1 \in 1..Len(analysis.hyps)
    BY <1>0, <1>2 DEF OpenAnalysis
  <2>2. \A i \in 1..Len(analysis.hyps) : analysis.hyps[i] \in {"pending", "judged"}
    BY <1>0, ElementOfSeq
  <2>3. P = {i \in 1..Len(analysis.hyps) : i > n}
    BY <1>0, <2>2 DEF Pending, PaceInv
  <2>4. n + 1 \in P /\ \A j \in P : n + 1 <= j
    BY <1>0, <2>1, <2>3
  <2>5. \A i \in P : (\A j \in P : i <= j) => i = n + 1
    BY <1>0, <2>3, <2>4
  <2> HIDE DEF P
  <2>6. (CHOOSE i \in P : \A j \in P : i <= j) = n + 1
    BY <2>4, <2>5
  <2>7. P # {}
    BY <2>4
  <2> QED BY <1>2, <2>6, <2>7 DEF FirstPending, P
<1> QED BY <1>1, <1>2

(* Each kind of action preserves the whole invariant. *)
LEMMA ResetKeepsInv == Inv /\ Reset => Inv'
<1> SUFFICES ASSUME Inv, Reset PROVE Inv'
  OBVIOUS
<1>0. /\ pc = "reset" /\ pc' = "act" /\ Len(trajectories) < NumEpisodes
      /\ episodeIdx = Len(trajectories) /\ episodeIdx' = episodeIdx + 1
      /\ episode' = Drawn(episodeIdx) /\ steps' = 0
      /\ terminated' = FALSE /\ truncated' = FALSE /\ error' = FALSE
      /\ UNCHANGED <<trajectories, boxVars>>
  BY DEF Inv, CountersOK, Reset
<1>1. Len(trajectories) \in Nat /\ episodeIdx \in Nat
  BY DEF Inv, TypeOK
<1>2. episode' \in 1..Len(Episodes)
  <2>1. Len(Episodes) \in Nat \ {0}
    BY EpisodeAssumption
  <2>2. episodeIdx % Len(Episodes) \in 0..(Len(Episodes) - 1)
    BY <1>1, <2>1
  <2> QED BY <1>0, <2>1, <2>2 DEF Drawn
<1>3. /\ analysis' \in Analysis /\ ~analysis'.complete
      /\ analysis'.iteration = 0 /\ analysis'.queries = <<>>
      /\ analysis'.hyps \in {<<>>, <<"pending">>}
  <2>1. analysis' = InitialAnalysis(Episodes[episode'])
    BY DEF Reset
  <2>2. 0 \in 0..MaxIterations
    BY EpisodeAssumption
  <2>3. <<"pending">> \in Seq({"pending", "judged"}) /\ <<>> \in Seq({"pending", "judged"})
        /\ <<>> \in Seq(Nat)
    OBVIOUS
  <2> QED BY <2>1, <2>2, <2>3 DEF InitialAnalysis, Analysis
<1>4. TypeOK'
  <2>1. Box!TypeOK'
    BY <1>0 DEF Inv, TypeOK, Box!TypeOK, boxVars
  <2>2. steps' \in 0..StepBudget
    BY <1>0, EpisodeAssumption DEF StepBudget
  <2>3. episodeIdx' \in 0..NumEpisodes
    BY <1>0, <1>1, EpisodeAssumption
  <2>4. episode' \in 0..Len(Episodes)
    BY <1>2, EpisodeAssumption
  <2> QED BY <1>0, <1>3, <2>1, <2>2, <2>3, <2>4 DEF Inv, TypeOK
<1>5. CountersOK'
  BY <1>0, <1>1, <1>2, EpisodeAssumption DEF CountersOK, InEpisode, StepBudget
<1>6. OpenAnalysis' /\ OneWayToEnd'
  BY <1>0, <1>3, EpisodeAssumption DEF OpenAnalysis, OneWayToEnd
<1>7. PaceInv'
  BY <1>0, <1>3 DEF PaceInv
<1> QED BY <1>4, <1>5, <1>6, <1>7 DEF Inv

(* A comparison is TRUE or FALSE, which Zenon does not know of numbers. *)
LEMMA OutOfStepsIsBoolean == ASSUME NEW n \in Nat PROVE OutOfSteps(n) \in BOOLEAN
  BY EpisodeAssumption DEF OutOfSteps

(* What a step with the flags of an unfinished analysis leaves behind. *)
LEMMA UnfinishedStep ==
  ASSUME Inv, pc' = "decide", pc \in {"act", "iterate"},
         steps' \in 1..StepBudget, terminated' = FALSE,
         truncated' = OutOfSteps(steps'), analysis'.complete = analysis.complete
  PROVE  OneWayToEnd' /\ terminated' \in BOOLEAN /\ truncated' \in BOOLEAN
<1>1. ~analysis'.complete
  BY DEF Inv, OpenAnalysis
<1>2. truncated' \in BOOLEAN /\ terminated' \in BOOLEAN
  <2>1. steps' \in Nat
    OBVIOUS
  <2> QED BY <2>1, OutOfStepsIsBoolean, Zenon
<1>3. truncated' <=> steps' >= MaxSteps
  BY Zenon DEF OutOfSteps
<1> QED BY <1>1, <1>2, <1>3, Zenon DEF OneWayToEnd

(* The four kinds of action an agent may submit. *)
LEMMA ActKeepsInv ==
  Inv /\ (MalformedAction \/ DirectAction \/ UntypedAction \/ PythonAction) => Inv'
<1> SUFFICES ASSUME Inv, MalformedAction \/ DirectAction \/ UntypedAction \/ PythonAction
             PROVE  Inv'
  OBVIOUS
<1> USE DEF MalformedAction, DirectAction, UntypedAction, PythonAction
<1>1. /\ pc = "act" /\ pc' \in {"decide", "iterate", "aborted", "sandbox"}
      /\ steps' = steps + 1
      /\ UNCHANGED <<episodeIdx, episode, analysis, trajectories>>
  OBVIOUS
<1>2. steps \in Nat /\ steps' \in 1..StepBudget
  BY <1>1, EpisodeAssumption DEF Inv, TypeOK, CountersOK, StepBudget
<1>3. Box!TypeOK'
  <2>1. CASE PythonAction
    BY <2>1 DEF Inv, TypeOK, Box!TypeOK, Box!Run, Box!Phases, Box!Verdicts
  <2>2. CASE UNCHANGED boxVars
    BY <2>2 DEF Inv, TypeOK, Box!TypeOK, boxVars
  <2> QED BY <2>1, <2>2
<1>4. error' \in BOOLEAN /\ terminated' \in BOOLEAN /\ truncated' \in BOOLEAN
  <2>1. CASE MalformedAction
    <3>1. steps' \in Nat
      BY <1>2
    <3> QED BY <2>1, <3>1, OutOfStepsIsBoolean, Zenon DEF Inv, TypeOK
  <2>2. CASE DirectAction \/ UntypedAction \/ PythonAction
    BY <2>2, Zenon DEF Inv, TypeOK
  <2> QED BY <2>1, <2>2
<1>5. OneWayToEnd'
  <2>1. CASE MalformedAction
    BY <2>1, <1>1, <1>2, UnfinishedStep
  <2>2. CASE DirectAction \/ UntypedAction \/ PythonAction
    BY <2>2 DEF OneWayToEnd
  <2> QED BY <2>1, <2>2
<1> HIDE DEF MalformedAction, DirectAction, UntypedAction, PythonAction
<1>6. TypeOK'
  BY <1>1, <1>2, <1>3, <1>4 DEF Inv, TypeOK
<1>7. CountersOK' /\ OpenAnalysis'
  BY <1>1, <1>2 DEF Inv, CountersOK, InEpisode, OpenAnalysis
<1>8. PaceInv'
  <2>1. Len(analysis.queries) \in Nat
    BY DEF Inv, TypeOK, Analysis
  <2> QED BY <1>1, <1>2, <2>1 DEF Inv, PaceInv
<1> QED BY <1>5, <1>6, <1>7, <1>8 DEF Inv

(* The sandbox works, and returns a result or raises. *)
LEMMA SandboxKeepsInv == Inv /\ (SandboxStep \/ SandboxReturns) => Inv'
<1> SUFFICES ASSUME Inv, SandboxStep \/ SandboxReturns PROVE Inv'
  OBVIOUS
<1>1. /\ pc = "sandbox" /\ pc' \in {"sandbox", "iterate", "aborted"}
      /\ UNCHANGED <<episodeIdx, episode, steps, analysis, terminated, truncated,
                     trajectories>>
  BY DEF SandboxStep, SandboxReturns, envVars
<1>2. Box!TypeOK'
  <2>1. CASE SandboxStep
    BY <2>1, BoxTyped DEF Inv, TypeOK, SandboxStep
  <2>2. CASE SandboxReturns
    BY <2>2 DEF Inv, TypeOK, Box!TypeOK, boxVars, SandboxReturns
  <2> QED BY <2>1, <2>2
<1>3. error' \in BOOLEAN
  <2>1. CASE SandboxStep
    BY <2>1 DEF Inv, TypeOK, SandboxStep, envVars
  <2>2. CASE SandboxReturns
    BY <2>2, Zenon DEF SandboxReturns
  <2> QED BY <2>1, <2>2
<1>4. TypeOK'
  BY <1>1, <1>2, <1>3 DEF Inv, TypeOK
<1>5. CountersOK' /\ OpenAnalysis' /\ OneWayToEnd' /\ PaceInv'
  BY <1>1 DEF Inv, CountersOK, InEpisode, OpenAnalysis, OneWayToEnd, PaceInv
<1> QED BY <1>4, <1>5 DEF Inv

(* The steps of the loop that leave the analysis as it is. *)
LEMMA LoopKeepsInv ==
  Inv /\ (SkipIteration \/ NextStep \/ Finish \/ UNCHANGED vars) => Inv'
<1> SUFFICES ASSUME Inv, SkipIteration \/ NextStep \/ Finish \/ UNCHANGED vars PROVE Inv'
  OBVIOUS
<1>0. Box!TypeOK' /\ UNCHANGED <<episodeIdx, episode, steps, analysis>>
  BY DEF Inv, TypeOK, Box!TypeOK, SkipIteration, NextStep, Finish, vars, envVars, boxVars
<1>1. CASE SkipIteration
  <2>1. steps' \in 1..StepBudget /\ UNCHANGED <<steps, analysis>>
    BY <1>1 DEF Inv, TypeOK, CountersOK, SkipIteration
  <2>2. OneWayToEnd' /\ terminated' \in BOOLEAN /\ truncated' \in BOOLEAN
    BY <1>1, <2>1, UnfinishedStep DEF SkipIteration
  <2> QED BY <1>0, <1>1, <2>2
          DEF Inv, TypeOK, CountersOK, InEpisode, OpenAnalysis, PaceInv, SkipIteration
<1>2. CASE NextStep
  <2>1. CASE terminated \/ truncated
    <3>1. /\ pc = "decide" /\ pc' = "reset"
          /\ trajectories' = Append(trajectories, [episode |-> episode, steps |-> steps])
          /\ error' = FALSE /\ UNCHANGED <<terminated, truncated>>
      BY <1>2, <2>1 DEF NextStep
    <3>2. [episode |-> episode, steps |-> steps]
            \in [episode : 1..Len(Episodes), steps : 1..StepBudget]
      BY <3>1, EpisodeAssumption DEF Inv, TypeOK, CountersOK, InEpisode, StepBudget
    <3>3. TypeOK' /\ Len(trajectories') = Len(trajectories) + 1
      BY <1>0, <3>1, <3>2, AppendProperties DEF Inv, TypeOK
    <3> QED BY <1>0, <3>1, <3>3
            DEF Inv, CountersOK, InEpisode, OpenAnalysis, OneWayToEnd, PaceInv
  <2>2. CASE ~terminated /\ ~truncated
    <3>1. /\ pc = "decide" /\ pc' = "act" /\ error' = FALSE
          /\ UNCHANGED <<terminated, truncated, trajectories>>
      BY <1>2, <2>2 DEF NextStep
    <3>2. ~analysis.complete /\ ~(steps >= MaxSteps)
      BY <2>2, <3>1, Zenon DEF Inv, OneWayToEnd
    <3>3. steps < StepBudget
      BY <3>2, EpisodeAssumption DEF Inv, TypeOK, StepBudget
    <3> QED BY <1>0, <3>1, <3>2, <3>3
            DEF Inv, TypeOK, CountersOK, InEpisode, OpenAnalysis, OneWayToEnd, PaceInv
  <2> QED BY <2>1, <2>2
<1>3. CASE Finish \/ UNCHANGED vars
  BY <1>0, <1>3 DEF Inv, TypeOK, CountersOK, InEpisode, OpenAnalysis, OneWayToEnd, PaceInv,
                    Finish, vars, envVars
<1> QED BY <1>1, <1>2, <1>3

(* The query of the step is registered for the hypothesis the step will judge. *)
LEMMA RegisterFacts ==
  ASSUME Inv, ~analysis.complete
  PROVE  LET R == Register(analysis)
             f == IF analysis.hyps = <<>> THEN 0 ELSE analysis.iteration + 1
         IN  /\ R \in Analysis /\ FirstPending(R) = f
             /\ R.hyps = analysis.hyps /\ R.iteration = analysis.iteration
             /\ R.complete = analysis.complete /\ R.queries = Append(analysis.queries, f)
<1> DEFINE f == IF analysis.hyps = <<>> THEN 0 ELSE analysis.iteration + 1
           R == Register(analysis)
<1>1. analysis \in Analysis /\ f \in Nat
  BY DEF Inv, TypeOK, Analysis
<1>2. FirstPending(analysis) = f
  BY <1>1, FirstPendingIsNext DEF Inv
<1>3. Append(analysis.queries, f) \in Seq(Nat)
  BY <1>1 DEF Analysis
<1> HIDE DEF f
<1>4. R = [analysis EXCEPT !.queries = Append(@, f)]
  BY <1>2 DEF Register
<1>5. /\ R \in Analysis
      /\ R.hyps = analysis.hyps /\ R.iteration = analysis.iteration
      /\ R.complete = analysis.complete /\ R.queries = Append(analysis.queries, f)
  BY <1>1, <1>3, <1>4 DEF Analysis
<1> HIDE DEF R
<1>6. FirstPending(R) = FirstPending(analysis)
  BY <1>5 DEF FirstPending, Pending
<1> QED BY <1>2, <1>5, <1>6 DEF f, R

(* A query more, for the next hypothesis, and the queries before it untouched. *)
LEMMA AppendedQuery ==
  ASSUME NEW q \in Seq(Nat), NEW f \in Nat
  PROVE  /\ Len(Append(q, f)) = Len(q) + 1 /\ Len(q) \in Nat
         /\ \A k \in 1..Len(q) : Append(q, f)[k] = q[k]
         /\ Append(q, f)[Len(q) + 1] = f
  BY AppendProperties

(* The node that raises leaves the query, and nothing else. *)
LEMMA FailedIterationKeepsInv == Inv /\ IterationFails => Inv'
<1> SUFFICES ASSUME Inv, IterationFails PROVE Inv'
  OBVIOUS
<1>0. /\ pc = "iterate" /\ pc' = "decide" /\ ~analysis.complete
      /\ analysis' = Register(analysis) /\ error' = TRUE
      /\ UNCHANGED <<episodeIdx, episode, steps, trajectories, boxVars>>
  BY DEF Inv, OpenAnalysis, IterationFails
<1> DEFINE f == IF analysis.hyps = <<>> THEN 0 ELSE analysis.iteration + 1
<1>1. /\ analysis' \in Analysis
      /\ analysis'.hyps = analysis.hyps /\ analysis'.iteration = analysis.iteration
      /\ analysis'.complete = analysis.complete
      /\ analysis'.queries = Append(analysis.queries, f)
  BY <1>0, RegisterFacts
<1>2. /\ analysis.queries \in Seq(Nat) /\ f \in Nat /\ steps \in Nat
      /\ analysis.iteration \in Nat
  BY DEF Inv, TypeOK, Analysis
<1> HIDE DEF f
<1>3. OneWayToEnd' /\ terminated' \in BOOLEAN /\ truncated' \in BOOLEAN
  <2>1. steps' \in 1..StepBudget /\ UNCHANGED steps
    BY <1>0 DEF Inv, TypeOK, CountersOK
  <2> QED BY <1>0, <1>1, <2>1, UnfinishedStep DEF IterationFails
<1>4. TypeOK'
  BY <1>0, <1>1, <1>3 DEF Inv, TypeOK, Box!TypeOK, boxVars
<1>5. CountersOK' /\ OpenAnalysis'
  BY <1>0, <1>1 DEF Inv, CountersOK, InEpisode, OpenAnalysis
<1>6. PaceInv'
  <2>1. /\ Len(analysis'.queries) = Len(analysis.queries) + 1
        /\ Len(analysis.queries) \in Nat
        /\ \A k \in 1..Len(analysis.queries) : analysis'.queries[k] = analysis.queries[k]
    BY <1>1, <1>2, AppendedQuery
  <2> QED BY <1>0, <1>1, <1>2, <2>1 DEF Inv, PaceInv
<1> QED BY <1>3, <1>4, <1>5, <1>6 DEF Inv

(* What evaluate_hypothesis makes of the hypotheses: the next one is judged, and
   at most one pending hypothesis is added behind all others. *)
LEMMA EvaluationFacts ==
  ASSUME Inv, ~analysis.complete, NEW a \in Evaluations(Register(analysis))
  PROVE  LET n == analysis.iteration IN
         /\ a \in Analysis /\ a.iteration = n
         /\ a.queries = Register(analysis).queries
         /\ analysis.hyps = <<>> => a.hyps = <<>>
         /\ analysis.hyps # <<>> =>
              /\ n + 1 \in 1..Len(analysis.hyps)
              /\ Len(a.hyps) >= Len(analysis.hyps)
              /\ \A i \in 1..Len(a.hyps) : a.hyps[i] = "judged" <=> i <= n + 1
<1> DEFINE n == analysis.iteration
           H == analysis.hyps
           R == Register(analysis)
           judged == [H EXCEPT ![n + 1] = "judged"]
<1>1. /\ R \in Analysis /\ R.hyps = H /\ R.iteration = n
      /\ FirstPending(R) = IF H = <<>> THEN 0 ELSE n + 1
  BY RegisterFacts
<1>2. n \in Nat /\ H \in Seq({"pending", "judged"}) /\ Len(H) \in Nat
  BY DEF Inv, TypeOK, Analysis
<1> HIDE DEF R
<1>3. CASE H = <<>>
  <2>1. a = R
    BY <1>1, <1>3 DEF Evaluations, R
  <2> QED BY <1>1, <1>3, <2>1 DEF R
<1>4. CASE H # <<>>
  <2>1. n + 1 \in 1..Len(H) /\ FirstPending(R) = n + 1 /\ n + 1 # 0
    BY <1>1, <1>2, <1>4 DEF Inv, OpenAnalysis
  <2>2. /\ judged \in Seq({"pending", "judged"}) /\ Len(judged) = Len(H)
        /\ judged[n + 1] = "judged"
        /\ \A i \in 1..Len(H) : i # n + 1 => judged[i] = H[i]
    BY <1>2, <2>1
  <2>3. \A i \in 1..Len(H) : judged[i] = "judged" <=> i <= n + 1
    BY <1>2, <2>1, <2>2 DEF Inv, PaceInv
  <2>4. a \in {[R EXCEPT !.hyps[n + 1] = "judged"],
               [[R EXCEPT !.hyps[n + 1] = "judged"] EXCEPT !.hyps = Append(@, "pending")]}
    BY <2>1 DEF Evaluations, R
  <2> HIDE DEF judged
  <2>5. /\ a.iteration = n /\ a.queries = R.queries /\ a.complete = R.complete
        /\ a.hyps = judged \/ a.hyps = Append(judged, "pending")
        /\ a = [R EXCEPT !.hyps = a.hyps]
    BY <1>1, <2>4 DEF judged, Analysis
  <2>6. CASE a.hyps = judged
    <3>1. a \in Analysis
      BY <1>1, <2>2, <2>5, <2>6 DEF Analysis
    <3> QED BY <1>2, <1>4, <2>1, <2>2, <2>3, <2>5, <2>6, <3>1 DEF R
  <2>7. CASE a.hyps = Append(judged, "pending")
    <3>1. /\ a.hyps \in Seq({"pending", "judged"}) /\ Len(a.hyps) = Len(H) + 1
          /\ a.hyps[Len(H) + 1] = "pending"
          /\ \A i \in 1..Len(H) : a.hyps[i] = judged[i]
      BY <2>2, <2>7, AppendProperties
    <3>2. a \in Analysis
      BY <1>1, <2>5, <3>1 DEF Analysis
    <3>3. \A i \in 1..Len(a.hyps) : a.hyps[i] = "judged" <=> i <= n + 1
      <4> TAKE i \in 1..Len(a.hyps)
      <4>1. CASE i \in 1..Len(H)
        BY <2>3, <3>1, <4>1
      <4>2. CASE i = Len(H) + 1
        BY <1>2, <2>1, <3>1, <4>2
      <4> QED BY <1>2, <3>1, <4>1, <4>2
    <3> QED BY <1>2, <1>4, <2>1, <2>5, <3>1, <3>2, <3>3 DEF R
  <2> QED BY <2>5, <2>6, <2>7
<1> QED BY <1>3, <1>4

(* The iteration judges its hypothesis and counts itself. *)
LEMMA IterationKeepsInv == Inv /\ Iterate => Inv'
<1> SUFFICES ASSUME Inv, Iterate PROVE Inv'
  OBVIOUS
<1>0. /\ pc = "iterate" /\ pc' = "decide" /\ ~analysis.complete
      /\ terminated' = analysis'.complete
      /\ truncated' = (OutOfSteps(steps) /\ ~terminated')
      /\ UNCHANGED <<episodeIdx, episode, steps, error, trajectories, boxVars>>
  BY DEF Inv, OpenAnalysis, Iterate
<1> DEFINE n == analysis.iteration
           H == analysis.hyps
           f == IF H = <<>> THEN 0 ELSE n + 1
<1>1. PICK a \in Evaluations(Register(analysis)) : analysis' = DecideNextStep(a)
  BY DEF Iterate
<1>2. /\ n \in Nat /\ n < MaxIterations /\ steps \in Nat /\ MaxIterations \in Nat
      /\ H \in Seq({"pending", "judged"}) /\ Len(H) \in Nat /\ f \in Nat
      /\ analysis.queries \in Seq(Nat)
      /\ H = <<>> => n = 0
  BY <1>0, EpisodeAssumption DEF Inv, TypeOK, Analysis, OpenAnalysis
<1>3. /\ a \in Analysis /\ a.iteration = n
      /\ a.queries = Append(analysis.queries, f)
      /\ H = <<>> => a.hyps = <<>>
      /\ H # <<>> =>
           /\ n + 1 \in 1..Len(H)
           /\ Len(a.hyps) >= Len(H)
           /\ \A i \in 1..Len(a.hyps) : a.hyps[i] = "judged" <=> i <= n + 1
  BY <1>0, RegisterFacts, EvaluationFacts
<1>4. Len(a.hyps) \in Nat /\ a.hyps \in Seq({"pending", "judged"})
  BY <1>3 DEF Analysis
<1>5. /\ Len(a.queries) = Len(analysis.queries) + 1 /\ Len(analysis.queries) \in Nat
      /\ \A k \in 1..Len(analysis.queries) : a.queries[k] = analysis.queries[k]
      /\ a.queries[Len(analysis.queries) + 1] = f
  BY <1>2, <1>3, AppendedQuery
<1> HIDE DEF f
<1>6. /\ analysis' \in Analysis
      /\ analysis'.hyps = a.hyps /\ analysis'.queries = a.queries
      /\ analysis'.iteration = n + 1
      /\ analysis'.complete = (n + 1 >= MaxIterations \/ Pending(a) = {})
  <2>1. (n + 1 >= MaxIterations \/ Pending(a) = {}) \in BOOLEAN
    BY <1>2
  <2>2. n + 1 \in 0..MaxIterations
    BY <1>2
  <2> QED BY <1>1, <1>3, <2>1, <2>2 DEF DecideNextStep, Analysis
<1>7. terminated' \in BOOLEAN /\ truncated' \in BOOLEAN
  <2>1. OutOfSteps(steps) \in BOOLEAN
    BY <1>2, OutOfStepsIsBoolean
  <2>2. analysis'.complete \in BOOLEAN
    BY <1>6 DEF Analysis
  <2> QED BY <1>0, <2>1, <2>2, Zenon
<1>8. TypeOK'
  BY <1>0, <1>6, <1>7 DEF Inv, TypeOK, Box!TypeOK, boxVars
<1>9. CountersOK'
  BY <1>0 DEF Inv, CountersOK, InEpisode
<1>10. OneWayToEnd'
  <2>1. terminated' <=> analysis'.complete
    BY <1>0
  <2>2. truncated' <=> (~terminated' /\ steps' >= MaxSteps)
    BY <1>0, Zenon DEF OutOfSteps
  <2> QED BY <2>1, <2>2, Zenon DEF OneWayToEnd
<1>11. OpenAnalysis'
  <2>1. SUFFICES ASSUME ~analysis'.complete
                 PROVE  /\ n + 1 < MaxIterations
                        /\ a.hyps # <<>> /\ n + 1 < Len(a.hyps)
    BY <1>0, <1>6 DEF OpenAnalysis
  <2>2. n + 1 < MaxIterations /\ Pending(a) # {}
    <3>1. ~(n + 1 >= MaxIterations \/ Pending(a) = {})
      BY <1>6, <2>1, Zenon
    <3> QED BY <1>2, <3>1
  <2>3. PICK i \in 1..Len(a.hyps) : a.hyps[i] = "pending"
    BY <2>2 DEF Pending
  <2>4. a.hyps # <<>> /\ H # <<>>
    BY <1>3, <2>3
  <2>5. i > n + 1
    BY <1>2, <1>3, <2>3, <2>4
  <2> QED BY <1>2, <1>4, <2>2, <2>3, <2>4, <2>5
<1>12. PaceInv'
  <2>1. /\ n + 1 <= Len(a.queries) /\ Len(a.queries) <= steps
    BY <1>0, <1>2, <1>5 DEF Inv, PaceInv
  <2>2. CASE H = <<>>
    BY <1>0, <1>2, <1>3, <1>6, <2>1, <2>2 DEF PaceInv
  <2>3. CASE H # <<>>
    <3>1. ASSUME NEW i \in 1..Len(a.hyps), i <= n + 1
          PROVE  \E k \in 1..Len(a.queries) : a.queries[k] = i
      <4>1. CASE i = n + 1
        BY <1>5, <2>3, <4>1 DEF f
      <4>2. CASE i <= n
        <5>1. i \in 1..Len(H)
          BY <1>2, <1>3, <1>4, <2>3, <4>2
        <5>2. \E k \in 1..Len(analysis.queries) : analysis.queries[k] = i
          BY <4>2, <5>1 DEF Inv, PaceInv
        <5> QED BY <1>5, <5>2
      <4> QED BY <1>2, <1>4, <3>1, <4>1, <4>2
    <3>2. a.hyps # <<>> /\ n + 1 <= Len(a.hyps)
      BY <1>2, <1>3, <1>4, <2>3
    <3> QED BY <1>0, <1>3, <1>6, <2>1, <2>3, <3>1, <3>2 DEF PaceInv
  <2> QED BY <2>2, <2>3
<1> QED BY <1>8, <1>9, <1>10, <1>11, <1>12 DEF Inv

(* Inv is inductive. *)
LEMMA InvHolds == Spec => []Inv
<1>1. Init => Inv
  <2> SUFFICES ASSUME Init PROVE Inv
    OBVIOUS
  <2>1. /\ analysis \in Analysis /\ analysis.hyps = <<>> /\ analysis.queries = <<>>
        /\ analysis.iteration = 0
    <3>1. 0 \in 0..MaxIterations /\ <<>> \in Seq({"pending", "judged"}) /\ <<>> \in Seq(Nat)
      BY EpisodeAssumption
    <3> QED BY <3>1 DEF Init, InitialAnalysis, Analysis
  <2>2. TypeOK
    <3>1. /\ 0 \in 0..NumEpisodes /\ 0 \in 0..Len(Episodes) /\ 0 \in 0..StepBudget
      BY EpisodeAssumption DEF StepBudget
    <3>2. <<>> \in Seq([episode : 1..Len(Episodes), steps : 1..StepBudget])
      OBVIOUS
    <3>3. Box!TypeOK
      BY DEF Init, Box!Init, Box!TypeOK, Box!Phases, Box!Verdicts
    <3>4. error \in BOOLEAN /\ terminated \in BOOLEAN /\ truncated \in BOOLEAN
      BY DEF Init
    <3> QED BY <2>1, <3>1, <3>2, <3>3, <3>4 DEF Init, TypeOK
  <2>3. OneWayToEnd
    BY DEF Init, OneWayToEnd
  <2>4. CountersOK /\ steps = 0 /\ pc = "reset"
    BY DEF Init, CountersOK, InEpisode
  <2>5. OpenAnalysis /\ PaceInv
    BY <2>1, <2>4, EpisodeAssumption DEF OpenAnalysis, PaceInv
  <2> QED BY <2>2, <2>3, <2>4, <2>5 DEF Inv
<1>2. Inv /\ [Next]_vars => Inv'
  BY ResetKeepsInv, ActKeepsInv, SandboxKeepsInv, LoopKeepsInv, IterationKeepsInv,
     FailedIterationKeepsInv DEF Next
<1> QED BY <1>1, <1>2, PTL DEF Spec

(* The environment, the training loop and the sandbox keep their shapes; no
   counter passes its budget, whichever of the budgets is the larger one. *)
THEOREM EpisodeTypeCorrect == Spec => []TypeOK
<1>1. Inv => TypeOK
  BY DEF Inv
<1> QED BY <1>1, InvHolds, PTL

(* For every pair of budgets, an episode is terminated exactly if its analysis
   completed, and truncated exactly if it did not and its steps are spent. *)
THEOREM EpisodesEndOneWay == Spec => []OneWayToEnd
<1>1. Inv => OneWayToEnd
  BY DEF Inv
<1> QED BY <1>1, InvHolds, PTL

(* Iteration k judged hypothesis k on a query registered for it, whatever steps
   failed in between. *)
THEOREM VerdictsKeepPaceAlways == Spec => []VerdictsKeepPace
<1>1. Inv => VerdictsKeepPace
  <2> SUFFICES ASSUME Inv PROVE VerdictsKeepPace
    OBVIOUS
  <2> DEFINE judged == {i \in 1..Len(analysis.hyps) : analysis.hyps[i] = "judged"}
  <2>1. analysis.iteration \in Nat /\ Len(analysis.hyps) \in Nat
    BY DEF Inv, TypeOK, Analysis
  <2>2. judged = {i \in 1..Len(analysis.hyps) : i <= analysis.iteration}
    BY DEF Inv, PaceInv
  <2>3. analysis.hyps # <<>> => judged = 1..analysis.iteration
    BY <2>1, <2>2 DEF Inv, PaceInv
  <2>4. \A i \in judged : \E k \in 1..Len(analysis.queries) : analysis.queries[k] = i
    BY <2>2 DEF Inv, PaceInv
  <2> QED BY <2>3, <2>4 DEF Inv, PaceInv, VerdictsKeepPace
<1> QED BY <1>1, InvHolds, PTL

-----------------------------------------------------------------------------
(* The returns: RlReward. *)

(* The account of an episode after n steps. *)
Account(n) ==
  total = RewardMatch * hits + PenaltyExecError * (n - analysis.iteration + unscored)
            + PenaltyTimeStep * n

(* A step that is under way has been counted but not paid for. *)
PayInv ==
  /\ total \in Int /\ hits \in Nat /\ unscored \in Nat
  /\ BetweenSteps => Account(steps)
  /\ pc \in {"sandbox", "iterate"} => Account(steps - 1)
  /\ pc # "aborted" => hits + unscored <= analysis.iteration

-----------------------------------------------------------------------------
LEMMA PaidStepIsAStep == RewardNext => Next
  BY DEF RewardNext, PayReset, PayMalformed, PayDirect, PayPython, PaySandbox, PayFailure,
         PayIteration, PayNext, Next

LEMMA EpisodeInvHolds == RewardSpec => []Inv
<1>1. RewardInit => Init
  BY DEF RewardInit
<1>2. [RewardNext]_rewardVars => [Next]_vars
  BY PaidStepIsAStep DEF rewardVars
<1>3. RewardSpec => Spec
  BY <1>1, <1>2, PTL DEF RewardSpec, Spec
<1> QED BY <1>3, InvHolds, PTL

(* What the steps do to the counter of iterations. *)
LEMMA IterationCounts ==
  ASSUME Inv
  PROVE  /\ analysis.iteration \in Nat /\ steps \in Nat
         /\ Reset => analysis'.iteration = 0
         /\ IterationFails => analysis'.iteration = analysis.iteration
         /\ Iterate => analysis'.iteration = analysis.iteration + 1
<1>1. analysis.iteration \in Nat /\ steps \in Nat
  BY EpisodeAssumption DEF Inv, TypeOK, Analysis, StepBudget
<1>2. Reset => analysis'.iteration = 0
  BY DEF Reset, InitialAnalysis
<1>3. ASSUME pc = "iterate" PROVE ~analysis.complete
  BY <1>3 DEF Inv, OpenAnalysis
<1>4. IterationFails => analysis'.iteration = analysis.iteration
  BY <1>3, RegisterFacts DEF IterationFails
<1>5. ASSUME Iterate PROVE analysis'.iteration = analysis.iteration + 1
  <2>1. PICK a \in Evaluations(Register(analysis)) : analysis' = DecideNextStep(a)
    BY <1>5 DEF Iterate
  <2>2. a \in Analysis /\ a.iteration = analysis.iteration
    BY <1>3, <1>5, <2>1, EvaluationFacts DEF Iterate
  <2> QED BY <2>1, <2>2 DEF DecideNextStep, Analysis
<1> QED BY <1>1, <1>2, <1>4, <1>5

LEMMA PayInvStep == Inv /\ PayInv /\ [RewardNext]_rewardVars => PayInv'
<1> SUFFICES ASSUME Inv, PayInv, [RewardNext]_rewardVars PROVE PayInv'
  OBVIOUS
<1> USE DEF RewardMatch, PenaltyExecError, PenaltyTimeStep
<1>0. analysis.iteration \in Nat /\ steps \in Nat /\ total \in Int /\ hits \in Nat
      /\ unscored \in Nat
  BY IterationCounts DEF PayInv
<1>1. CASE PayReset
  <2>1. analysis'.iteration = 0 /\ steps' = 0 /\ pc' = "act" /\ total' = 0 /\ hits' = 0
        /\ unscored' = 0
    BY <1>1, IterationCounts DEF PayReset, FreshTrajectory, Reset
  <2> QED BY <2>1 DEF PayInv, BetweenSteps, Account
<1>2. CASE PayMalformed
  <2>1. /\ pc = "act" /\ pc' = "decide" /\ steps' = steps + 1 /\ analysis' = analysis
        /\ total' = total - 11 /\ hits' = hits /\ unscored' = unscored
    BY <1>0, <1>2 DEF PayMalformed, MalformedAction, Pays, ExecutionError
  <2> QED BY <1>0, <2>1 DEF PayInv, BetweenSteps, Account
<1>3. CASE PayDirect \/ PayPython
  <2>1. /\ pc = "act" /\ pc' \in {"iterate", "sandbox"} /\ steps' = steps + 1
        /\ UNCHANGED <<analysis, total, hits, unscored>>
    BY <1>3 DEF PayDirect, PayPython, DirectAction, PythonAction
  <2> QED BY <1>0, <2>1 DEF PayInv, BetweenSteps, Account
<1>4. CASE PaySandbox
  <2>1. /\ pc = "sandbox" /\ pc' \in {"iterate", "aborted"}
        /\ UNCHANGED <<steps, analysis, total, hits, unscored>>
    BY <1>4 DEF PaySandbox, SandboxReturns
  <2> QED BY <1>0, <2>1 DEF PayInv, BetweenSteps, Account
<1>5. CASE PayFailure
  <2>1. /\ pc = "iterate" /\ pc' = "decide" /\ steps' = steps
        /\ analysis'.iteration = analysis.iteration
        /\ total' = total - 11 /\ hits' = hits /\ unscored' = unscored
    <3>1. pc = "iterate" /\ pc' = "decide" /\ steps' = steps
      BY <1>5 DEF PayFailure, SkipIteration, IterationFails
    <3>2. analysis'.iteration = analysis.iteration
      <4>1. CASE SkipIteration
        BY <4>1 DEF SkipIteration
      <4> QED BY <1>5, <4>1, IterationCounts DEF PayFailure
    <3>3. total' = total - 11 /\ hits' = hits /\ unscored' = unscored
      BY <1>0, <1>5 DEF PayFailure, Pays, ExecutionError
    <3> QED BY <3>1, <3>2, <3>3
  <2> QED BY <1>0, <2>1 DEF PayInv, BetweenSteps, Account
<1>6. CASE PayIteration
  <2>2. /\ pc = "iterate" /\ pc' = "decide" /\ steps' = steps
        /\ analysis'.iteration = analysis.iteration + 1
    BY <1>6, IterationCounts DEF PayIteration, Iterate
  <2>3. \/ total' = total + 99 /\ hits' = hits + 1 /\ unscored' = unscored
        \/ total' = total - 1 /\ hits' = hits /\ unscored' = unscored
        \/ total' = total - 11 /\ hits' = hits /\ unscored' = unscored + 1
    <3>1. CASE \E match \in Verdicts(Scorers[episode]) :
                 Pays(Scored(match), match) /\ unscored' = unscored
      BY <1>0, <3>1 DEF Pays, Scored
    <3>2. CASE Pays(ExecutionError, FALSE) /\ unscored' = unscored + 1
      BY <1>0, <3>2 DEF Pays, ExecutionError
    <3> QED BY <1>6, <3>1, <3>2 DEF PayIteration
  <2>4. Account(steps - 1) /\ hits + unscored <= analysis.iteration
    BY <2>2 DEF PayInv
  <2>5. /\ total' \in Int /\ hits' \in Nat /\ unscored' \in Nat
        /\ hits' + unscored' <= analysis'.iteration
    BY <1>0, <2>2, <2>3, <2>4
  <2>6. Account(steps)'
    <3>1. total = 100 * hits - 10 * (steps - 1 - analysis.iteration + unscored) - (steps - 1)
      BY <1>0, <2>4 DEF Account
    <3>2. total' = 100 * hits' - 10 * (steps - (analysis.iteration + 1) + unscored') - steps
      <4>1. CASE total' = total + 99 /\ hits' = hits + 1 /\ unscored' = unscored
        BY <1>0, <3>1, <4>1
      <4>2. CASE total' = total - 1 /\ hits' = hits /\ unscored' = unscored
        BY <1>0, <3>1, <4>2
      <4>3. CASE total' = total - 11 /\ hits' = hits /\ unscored' = unscored + 1
        <5>1. steps - (analysis.iteration + 1) + unscored' = steps - analysis.iteration + unscored
          BY <1>0, <4>3
        <5>2. total = 100 * hits - 10 * (steps - analysis.iteration + unscored) + 11 - steps
          BY <1>0, <3>1
        <5> QED BY <1>0, <4>3, <5>1, <5>2
      <4> QED BY <2>3, <4>1, <4>2, <4>3
    <3> QED BY <1>0, <2>2, <2>5, <3>2 DEF Account
  <2> QED BY <2>2, <2>5, <2>6 DEF PayInv, BetweenSteps
<1>7. CASE PayNext
  <2>1. /\ pc = "decide" /\ pc' \in {"reset", "act"}
        /\ UNCHANGED <<steps, analysis, total, hits, unscored>>
    BY <1>7 DEF PayNext, NextStep
  <2> QED BY <1>0, <2>1 DEF PayInv, BetweenSteps, Account
<1>8. CASE (Finish \/ UntypedAction \/ SandboxStep) /\ UNCHANGED payVars
  <2>1. \/ pc' = "aborted"
        \/ pc = "reset" /\ pc' = "done" /\ UNCHANGED <<steps, analysis>>
        \/ pc' = pc /\ UNCHANGED <<steps, analysis>>
    BY <1>8 DEF Finish, UntypedAction, SandboxStep, envVars
  <2>2. UNCHANGED <<total, hits, unscored>>
    BY <1>8 DEF payVars
  <2> QED BY <1>0, <2>1, <2>2 DEF PayInv, BetweenSteps, Account
<1>9. CASE UNCHANGED rewardVars
  BY <1>9 DEF PayInv, BetweenSteps, Account, rewardVars, vars, envVars, payVars
<1> QED BY <1>1, <1>2, <1>3, <1>4, <1>5, <1>6, <1>7, <1>8, <1>9 DEF RewardNext

(* For every pair of budgets and every mix of scorers, what an episode returns
   tells how many of its steps matched, failed, could not be scored and were taken,
   and the steps that matched or could not be scored are steps that iterated. *)
THEOREM ReturnsTellTheEpisode == RewardSpec => []RewardsAddUp
<1>1. RewardInit => PayInv
  BY DEF RewardInit, Init, InitialAnalysis, PayInv, BetweenSteps, Account, RewardMatch,
         PenaltyExecError, PenaltyTimeStep
<1>2. PayInv => RewardsAddUp
  BY DEF PayInv, RewardsAddUp, BetweenSteps, Account
<1> QED BY <1>1, <1>2, PayInvStep, EpisodeInvHolds, PTL DEF RewardSpec

=============================================================================
