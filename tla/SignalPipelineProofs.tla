------------------------ MODULE SignalPipelineProofs ------------------------
(***************************************************************************)
(* Theorems about SignalPipeline for any number of signals and of          *)
(* concurrent callbacks, and both checkpointers: types and consent under   *)
(* any faults, and the audit row of every run when the database works.     *)
(***************************************************************************)
EXTENDS SignalPipeline, SequenceTheorems, FiniteSetTheorems, TLAPS

(* TypeOK is not inductive alone: a log takes the status its task computed. *)
Shape == TypeOK /\ LocalsOK

-----------------------------------------------------------------------------
(* Updating the slot of a DecisionLog row in place keeps a sequence of
   statuses a sequence of statuses. *)
LEMMA SlotUpdate ==
  ASSUME NEW l \in Seq(LogStatus), NEW i \in 1..Len(l), NEW v \in LogStatus
  PROVE  [l EXCEPT ![i] = v] \in Seq(LogStatus)
BY ExceptSeq

(* A task that serves a callback has the locals of a callback. *)
LEMMA CallTyped ==
  ASSUME TypeOK, NEW c \in Callers, call[c].pc # "idle"
  PROVE  /\ call[c] \in CallRec
         /\ call[c].signal \in Signals
BY DEF TypeOK, NoCall, CallRec

(* Every step of the task that runs a signal's graph keeps the shape. *)
LEMMA WorkerShape ==
  ASSUME Shape, NEW s \in Signals,
         Ingest(s) \/ Chat(s) \/ WorkerStep(s) \/ WorkerFault(s)
  PROVE  Shape'
<1> USE DEF Shape, TypeOK, LocalsOK, database, outside
<1>1. NoWorker \in WorkerRec /\ worker[s] \in WorkerRec
  BY DEF NoWorker, WorkerRec
<1>2. CASE Ingest(s)
  BY <1>1, <1>2 DEF Ingest, NoWorker, WorkerRec, RowStatus
<1>3. CASE Chat(s)
  BY <1>1, <1>3 DEF Chat, NoWorker, WorkerRec
<1>4. CASE ContextFails(s)
  BY <1>1, <1>4 DEF ContextFails, WorkerRec
<1>5. CASE RunGraph(s)
  <2> PICK a \in GraphAction :
        /\ thread' = [thread EXCEPT ![s] = ThreadAfter(a)]
        /\ worker' = [worker EXCEPT ![s] =
             [@ EXCEPT !.pc = "select", !.action = a,
                       !.status = IF a = "require_approval" THEN "pending_approval"
                                                            ELSE "succeeded"]]
    BY <1>5 DEF RunGraph
  <2>1. ThreadAfter(a) \in ThreadState
    BY DEF ThreadAfter, ThreadState
  <2>2. worker' \in [Signals -> WorkerRec]
    BY <1>1 DEF WorkerRec
  <2> QED  BY <2>1, <2>2, <1>1, <1>5 DEF RunGraph, WorkerRec
<1>6. CASE FailGraph(s)
  <2> PICK a \in GraphAction \cup {"none"} :
        /\ thread' = [thread EXCEPT ![s] = IF a = "none" THEN "none" ELSE ThreadAfter(a)]
        /\ worker' = [worker EXCEPT ![s] =
             [@ EXCEPT !.pc = "select", !.action = a, !.status = "failed"]]
    BY <1>6 DEF FailGraph
  <2>1. ThreadAfter(a) \in ThreadState /\ "none" \in ThreadState
    BY DEF ThreadAfter, ThreadState
  <2>2. worker' \in [Signals -> WorkerRec]
    BY <1>1 DEF WorkerRec
  <2> QED  BY <2>1, <2>2, <1>1, <1>6 DEF FailGraph, WorkerRec
<1>7. CASE SelectSnapshot(s)
  BY <1>1, <1>7 DEF SelectSnapshot, WorkerRec
<1>8. CASE CommitLog(s)
  <2>1. worker' \in [Signals -> WorkerRec]
    BY <1>1, <1>8 DEF CommitLog, WorkerRec
  <2>2. row' \in [Signals -> RowStatus]
    BY <1>8 DEF CommitLog, RowStatus, ChatProgress
  <2>3. worker[s].status \in LogStatus
    BY <1>1, <1>8 DEF CommitLog, WorkerRec, LogStatus
  <2>4. logs' \in [Signals -> Seq(LogStatus)]
    BY <2>3, <1>8, AppendProperties DEF CommitLog
  <2> QED  BY <2>1, <2>2, <2>4, <1>1, <1>8 DEF CommitLog, WorkerRec
<1>9. CASE RollBackLog(s)
  BY <1>1, <1>9 DEF RollBackLog, WorkerRec
<1>10. CASE AbortNotify(s)
  BY <1>1, <1>10 DEF AbortNotify, WorkerRec
<1>11. CASE LoseNotice(s)
  BY <1>1, <1>11 DEF LoseNotice, WorkerRec
<1>12. CASE Notify(s)
  <2>1. worker' \in [Signals -> WorkerRec]
    BY <1>1, <1>12 DEF Notify, WorkerRec
  <2>2. acted' \in [Signals -> Nat]
    BY <1>12 DEF Notify
  <2>3. asked' \subseteq Signals
    BY <1>12 DEF Notify
  <2> QED  BY <2>1, <2>2, <2>3, <1>1, <1>12 DEF Notify, WorkerRec
<1>13. CASE FinalCommit(s)
  <2>1. worker' \in [Signals -> WorkerRec]
    BY <1>1, <1>13 DEF FinalCommit, WorkerRec
  <2>2. StatusOf(worker[s].status, worker[s].action) \in RowStatus
    BY DEF StatusOf, RowStatus
  <2> QED  BY <2>1, <2>2, <1>1, <1>13 DEF FinalCommit, WorkerRec
<1>14. CASE FailFinalCommit(s)
  BY <1>1, <1>14 DEF FailFinalCommit, WorkerRec
<1> QED
  BY <1>2, <1>3, <1>4, <1>5, <1>6, <1>7, <1>8, <1>9, <1>10, <1>11, <1>12, <1>13, <1>14
  DEF WorkerStep, WorkerFault

(* So does every step of a callback already accepted. *)
LEMMA CallShape ==
  ASSUME Shape, NEW c \in Callers, CallStep(c) \/ CallFault(c)
  PROVE  Shape'
<1> USE DEF Shape, TypeOK, LocalsOK, database, outside
<1>1. call[c].pc # "idle"
  BY DEF CallStep, CallFault, LoadCheckpoint, FinishResume, FailResume, SelectLog,
         CommitResumeLog, RollBackResumeLog, CommitVerdict, FailVerdict, Dispatch,
         LoseAction
<1>2. call[c] \in CallRec /\ call[c].signal \in Signals
  BY <1>1, CallTyped
<1>3. Verdict(call[c].loaded, call[c].decision) \in {"none", "approved", "rejected"}
  BY DEF Verdict
<1>4. call[c].loaded = "paused" =>
        Verdict(call[c].loaded, call[c].decision) \in ThreadState
  BY DEF Verdict, ThreadState
<1>5. CASE LoadCheckpoint(c)
  BY <1>2, <1>5 DEF LoadCheckpoint, CallRec
<1>6. CASE FinishResume(c)
  <2> PICK st \in {"succeeded", "failed"} :
        call' = [call EXCEPT ![c] =
          [@ EXCEPT !.pc = "select",
                    !.result = Verdict(call[c].loaded, call[c].decision),
                    !.status = st]]
    BY <1>6 DEF FinishResume
  <2>1. call'[c] \in CallRec
    BY <1>2, <1>3 DEF CallRec
  <2>2. thread' \in [Signals -> ThreadState]
    BY <1>2, <1>4, <1>6 DEF FinishResume
  <2> QED  BY <1>2, <2>1, <2>2, <1>6 DEF FinishResume, CallRec
<1>7. CASE FailResume(c)
  <2>1. thread' \in [Signals -> ThreadState]
    BY <1>2, <1>4, <1>7 DEF FailResume
  <2>2. call'[c] \in CallRec
    BY <1>2, <1>7 DEF FailResume, CallRec
  <2> QED  BY <1>2, <2>1, <2>2, <1>7 DEF FailResume, CallRec
<1>8. CASE SelectLog(c)
  <2> PICK i \in {0} \cup Live(call[c].signal) :
        call' = [call EXCEPT ![c] = [@ EXCEPT !.pc = "log", !.seen = i]]
    BY <1>8 DEF SelectLog
  <2>1. i \in Nat
    BY <1>2 DEF Live
  <2>2. call'[c] \in CallRec
    BY <1>2, <2>1 DEF CallRec
  <2> QED  BY <1>2, <2>2, <1>8 DEF SelectLog, CallRec
<1>9. CASE CommitResumeLog(c)
  <2> DEFINE s == call[c].signal
  <2>1. call[c].status \in LogStatus
    BY <1>2, <1>9 DEF CommitResumeLog, CallRec, LogStatus
  <2>2. call[c].seen # 0 => call[c].seen \in 1..Len(logs[s])
    BY <1>9 DEF CommitResumeLog, Live
  <2>3. call[c].seen # 0 =>
          [logs[s] EXCEPT ![call[c].seen] = call[c].status] \in Seq(LogStatus)
    BY <1>2, <2>1, <2>2, SlotUpdate
  <2>4. Append(logs[s], call[c].status) \in Seq(LogStatus)
    BY <1>2, <2>1, AppendProperties
  <2>5. logs' \in [Signals -> Seq(LogStatus)]
    BY <1>2, <2>3, <2>4, <1>9 DEF CommitResumeLog
  <2>6. call'[c] \in CallRec
    BY <1>2, <1>9 DEF CommitResumeLog, Step, CallRec
  <2> QED  BY <1>2, <2>5, <2>6, <1>9 DEF CommitResumeLog, Step, CallRec
<1>10. CASE RollBackResumeLog(c)
  <2>1. call'[c] \in CallRec
    BY <1>2, <1>10 DEF RollBackResumeLog, CallRec
  <2> QED  BY <1>2, <2>1, <1>10 DEF RollBackResumeLog, CallRec
<1>11. CASE CommitVerdict(c)
  <2>1. Outcome(call[c].result) \in RowStatus
    BY DEF Outcome, RowStatus
  <2>2. call'[c] \in CallRec
    BY <1>2, <1>11 DEF CommitVerdict, Step, CallRec
  <2> QED  BY <1>2, <2>1, <2>2, <1>11 DEF CommitVerdict, Step, CallRec
<1>12. CASE FailVerdict(c)
  BY <1>12 DEF FailVerdict, NoCall
<1>13. CASE Dispatch(c)
  BY <1>2, <1>13 DEF Dispatch, NoCall
<1>14. CASE LoseAction(c)
  BY <1>14 DEF LoseAction, NoCall
<1> QED
  BY <1>5, <1>6, <1>7, <1>8, <1>9, <1>10, <1>11, <1>12, <1>13, <1>14
  DEF CallStep, CallFault

(* Shape is an invariant: each task computes its locals before the step that
   uses them. *)
LEMMA ShapeInvariant == Spec => []Shape
<1>1. Init => Shape
  BY SignalAssumption, EmptySeq
  DEF Init, Shape, TypeOK, LocalsOK, NoWorker, WorkerRec, NoCall, RowStatus, ThreadState
<1>2. Shape /\ [Next]_vars => Shape'
  <2> SUFFICES ASSUME Shape, [Next]_vars PROVE Shape'
    OBVIOUS
  <2>1. CASE \E s \in Signals :
               Ingest(s) \/ Chat(s) \/ WorkerStep(s) \/ WorkerFault(s)
    BY <2>1, WorkerShape
  <2>2. CASE \E c \in Callers : CallStep(c) \/ CallFault(c)
    BY <2>2, CallShape
  <2>3. CASE \E s \in Signals : TurnAway(s)
    BY <2>3 DEF TurnAway, Shape, TypeOK, LocalsOK, database
  <2>4. CASE \E s \in Signals : DeleteLog(s)
    <3> PICK s \in Signals : DeleteLog(s)
      BY <2>4
    <3> PICK i \in Live(s) : logs' = [logs EXCEPT ![s][i] = "deleted"]
      BY DEF DeleteLog
    <3>1. [logs[s] EXCEPT ![i] = "deleted"] \in Seq(LogStatus)
      BY SlotUpdate DEF Shape, TypeOK, Live, LogStatus
    <3> QED  BY <3>1 DEF DeleteLog, Shape, TypeOK, LocalsOK, outside
  <2>5. CASE \E s \in Signals, c \in Callers, d \in BOOLEAN : Accept(c, s, d)
    <3> PICK s \in Signals, c \in Callers, d \in BOOLEAN : Accept(c, s, d)
      BY <2>5
    <3>1. call'[c] \in CallRec /\ call'[c].pc = "load"
      BY DEF Accept, CallRec, ThreadState, Shape, TypeOK
    <3> QED  BY <3>1 DEF Accept, Shape, TypeOK, LocalsOK, database
  <2>6. CASE OtherRunCommits
    BY <2>6 DEF OtherRunCommits, Shape, TypeOK, LocalsOK, outside
  <2>7. CASE Crash
    <3> DEFINE After(s) ==
          IF worker[s].pc = "idle" THEN worker[s] ELSE [worker[s] EXCEPT !.pc = "done"]
    <3>0. ASSUME NEW s \in Signals PROVE After(s) \in WorkerRec
      <4>1. worker[s] \in WorkerRec
        BY DEF Shape, TypeOK
      <4>2. [worker[s] EXCEPT !.pc = "done"] \in WorkerRec
        BY <4>1 DEF WorkerRec
      <4> QED  BY <4>1, <4>2
    <3>1. worker' \in [Signals -> WorkerRec]
      BY <2>7, <3>0 DEF Crash
    <3>2. call' \in [Callers -> {NoCall} \cup CallRec]
      BY <2>7 DEF Crash
    <3>3. thread' \in [Signals -> ThreadState]
      BY <2>7 DEF Crash, Shape, TypeOK, ThreadState
    <3>4. LocalsOK'
      BY <2>7 DEF Crash, Shape, TypeOK, LocalsOK, WorkerRec, NoCall
    <3> QED  BY <3>1, <3>2, <3>3, <3>4, <2>7 DEF Crash, Shape, TypeOK, database, outside
  <2>8. CASE UNCHANGED vars
    BY <2>8 DEF vars, Shape, TypeOK, LocalsOK
  <2> QED
    BY <2>1, <2>2, <2>3, <2>4, <2>5, <2>6, <2>7, <2>8 DEF Next
<1> QED
  BY <1>1, <1>2, PTL DEF Spec

(* Types hold in every reachable state of every instance: rows, checkpoints,
   logs and the locals of every task. *)
THEOREM TypeCorrect == Spec => []TypeOK
<1>1. Shape => TypeOK
  BY DEF Shape
<1> QED
  BY <1>1, ShapeInvariant, PTL

-----------------------------------------------------------------------------
(* A permission once given stays: consent only grows, and the rules choose an
   action before the run has chosen any. *)
LEMMA PermissionStays ==
  ASSUME Shape, [Next]_vars, NEW s \in Signals, Permitted(s)
  PROVE  Permitted(s)'
<1> USE DEF Permitted
<1>1. ASSUME NEW t \in Signals,
             Ingest(t) \/ Chat(t) \/ WorkerStep(t) \/ WorkerFault(t)
      PROVE  Permitted(s)'
  <2>1. consent' = consent
    BY <1>1 DEF Ingest, Chat, WorkerStep, WorkerFault, ContextFails, RunGraph, FailGraph,
       SelectSnapshot, CommitLog, RollBackLog, AbortNotify, LoseNotice, Notify,
       FinalCommit, FailFinalCommit, outside
  <2>2. worker[t].pc \in {"idle", "run"} => worker[t].action = "none"
    BY DEF Shape, LocalsOK
  <2>3. worker[s].action = "auto_act" => worker'[s].action = "auto_act"
    <3>1. CASE s = t /\ worker[t].pc \in {"idle", "run"}
      BY <2>2, <3>1
    <3>2. CASE s = t /\ worker[t].pc \notin {"idle", "run"}
      <4>1. worker \in [Signals -> WorkerRec] /\ worker[s] \in WorkerRec
        BY DEF Shape, TypeOK
      <4>2. CASE SelectSnapshot(s)
        BY <4>1, <4>2 DEF SelectSnapshot, WorkerRec
      <4>3. CASE CommitLog(s)
        BY <4>1, <4>3 DEF CommitLog, WorkerRec
      <4>4. CASE RollBackLog(s)
        BY <4>1, <4>4 DEF RollBackLog, WorkerRec
      <4>5. CASE AbortNotify(s)
        BY <4>1, <4>5 DEF AbortNotify, WorkerRec
      <4>6. CASE Notify(s) \/ LoseNotice(s)
        BY <4>1, <4>6 DEF Notify, LoseNotice, WorkerRec
      <4>7. CASE FinalCommit(s) \/ FailFinalCommit(s)
        BY <4>1, <4>7 DEF FinalCommit, FailFinalCommit, WorkerRec
      <4> QED
        BY <1>1, <3>2, <4>2, <4>3, <4>4, <4>5, <4>6, <4>7
        DEF Ingest, Chat, WorkerStep, WorkerFault, ContextFails, RunGraph, FailGraph
    <3>3. CASE s # t
      BY <1>1, <3>3
      DEF Shape, TypeOK, Ingest, Chat, WorkerStep, WorkerFault, ContextFails, RunGraph,
          FailGraph, SelectSnapshot, CommitLog, RollBackLog, AbortNotify, LoseNotice,
          Notify, FinalCommit, FailFinalCommit
    <3> QED  BY <3>1, <3>2, <3>3
  <2> QED  BY <2>1, <2>3
<1>2. ASSUME NEW c \in Callers, CallStep(c) \/ CallFault(c)
      PROVE  Permitted(s)'
  BY <1>2 DEF CallStep, CallFault, LoadCheckpoint, FinishResume, FailResume, SelectLog,
     CommitResumeLog, RollBackResumeLog, CommitVerdict, FailVerdict, Dispatch, LoseAction,
     outside
<1>3. ASSUME NEW t \in Signals, TurnAway(t) \/ DeleteLog(t)
      PROVE  Permitted(s)'
  BY <1>3 DEF TurnAway, DeleteLog, outside
<1>4. ASSUME NEW t \in Signals, NEW c \in Callers, NEW d \in BOOLEAN, Accept(c, t, d)
      PROVE  Permitted(s)'
  BY <1>4 DEF Accept, Shape, TypeOK
<1>5. CASE OtherRunCommits
  BY <1>5 DEF OtherRunCommits, outside
<1>6. CASE Crash
  <2>1. worker'[s].action = worker[s].action
    BY <1>6 DEF Crash, Shape, TypeOK, WorkerRec
  <2> QED  BY <2>1, <1>6 DEF Crash, outside
<1>7. CASE UNCHANGED vars
  BY <1>7 DEF vars
<1> QED
  BY <1>1, <1>2, <1>3, <1>4, <1>5, <1>6, <1>7 DEF Next

(* The task that runs the graph approves by itself only what the rules let it. *)
LEMMA WorkerApproves ==
  ASSUME Shape, EveryApprovalIsPermitted, [Next]_vars, NEW s \in Signals,
         Ingest(s) \/ Chat(s) \/ WorkerStep(s) \/ WorkerFault(s)
  PROVE  EveryApprovalIsPermitted'
<1>1. \A t \in Signals : Permitted(t) => Permitted(t)'
  BY PermissionStays
<1>2. call' = call /\ consent' = consent
  BY DEF Ingest, Chat, WorkerStep, WorkerFault, ContextFails, RunGraph, FailGraph,
     SelectSnapshot, CommitLog, RollBackLog, AbortNotify, LoseNotice, Notify,
     FinalCommit, FailFinalCommit, outside
<1>3. \A t \in Signals : thread'[t] = "approved" => Permitted(t)'
  <2>1. CASE RunGraph(s)
    <3> PICK a \in GraphAction :
          /\ thread' = [thread EXCEPT ![s] = ThreadAfter(a)]
          /\ worker' = [worker EXCEPT ![s] =
               [@ EXCEPT !.pc = "select", !.action = a,
                         !.status = IF a = "require_approval" THEN "pending_approval"
                                                              ELSE "succeeded"]]
      BY <2>1 DEF RunGraph
    <3>1. ThreadAfter(a) = "approved" => a = "auto_act"
      BY DEF ThreadAfter
    <3>2. worker'[s].action = a
      BY DEF Shape, TypeOK, WorkerRec
    <3>3. thread'[s] = ThreadAfter(a)
      BY DEF Shape, TypeOK
    <3>4. thread'[s] = "approved" => Permitted(s)'
      BY <3>1, <3>2, <3>3 DEF Permitted
    <3> QED  BY <1>1, <3>4 DEF EveryApprovalIsPermitted, Shape, TypeOK
  <2>2. CASE FailGraph(s)
    <3> PICK a \in GraphAction \cup {"none"} :
          /\ thread' = [thread EXCEPT ![s] = IF a = "none" THEN "none" ELSE ThreadAfter(a)]
          /\ worker' = [worker EXCEPT ![s] =
               [@ EXCEPT !.pc = "select", !.action = a, !.status = "failed"]]
      BY <2>2 DEF FailGraph
    <3>1. ThreadAfter(a) = "approved" => a = "auto_act"
      BY DEF ThreadAfter
    <3>2. worker'[s].action = a
      BY DEF Shape, TypeOK, WorkerRec
    <3>3. thread'[s] = IF a = "none" THEN "none" ELSE ThreadAfter(a)
      BY DEF Shape, TypeOK
    <3>4. thread'[s] = "approved" => Permitted(s)'
      BY <3>1, <3>2, <3>3 DEF Permitted
    <3> QED  BY <1>1, <3>4 DEF EveryApprovalIsPermitted, Shape, TypeOK
  <2>3. CASE ~RunGraph(s) /\ ~FailGraph(s)
    <3>1. thread' = thread
      BY <2>3 DEF Ingest, Chat, WorkerStep, WorkerFault, ContextFails, SelectSnapshot,
         CommitLog, RollBackLog, AbortNotify, LoseNotice, Notify, FinalCommit,
         FailFinalCommit
    <3> QED  BY <1>1, <3>1 DEF EveryApprovalIsPermitted
  <2> QED  BY <2>1, <2>2, <2>3
<1>4. \A t \in Signals : acted'[t] > 0 => Permitted(t)'
  <2>1. CASE Notify(s)
    <3>1. \A t \in Signals : acted'[t] # acted[t] => t = s /\ worker[s].action = "auto_act"
      BY <2>1 DEF Notify, Shape, TypeOK
    <3> QED  BY <1>1, <3>1 DEF EveryApprovalIsPermitted, Permitted
  <2>2. CASE ~Notify(s)
    <3>1. acted' = acted
      BY <2>2 DEF Ingest, Chat, WorkerStep, WorkerFault, ContextFails, RunGraph, FailGraph,
         SelectSnapshot, CommitLog, RollBackLog, AbortNotify, LoseNotice, FinalCommit,
         FailFinalCommit, outside
    <3> QED  BY <1>1, <3>1 DEF EveryApprovalIsPermitted
  <2> QED  BY <2>1, <2>2
<1>5. \A c \in Callers :
        call'[c].pc # "idle" =>
          /\ call'[c].decision \in consent'[call'[c].signal]
          /\ call'[c].loaded = "approved" => Permitted(call[c].signal)'
          /\ call'[c].result = "approved" => Permitted(call[c].signal)'
  BY <1>1, <1>2, CallTyped DEF EveryApprovalIsPermitted, Shape
<1> QED
  BY <1>2, <1>3, <1>4, <1>5 DEF EveryApprovalIsPermitted

(* A callback approves only with the decision it was accepted with, or with one
   the checkpoint already holds. *)
LEMMA CallApproves ==
  ASSUME Shape, EveryApprovalIsPermitted, [Next]_vars, NEW c \in Callers,
         CallStep(c) \/ CallFault(c)
  PROVE  EveryApprovalIsPermitted'
<1> DEFINE s == call[c].signal
           v == Verdict(call[c].loaded, call[c].decision)
<1>1. \A t \in Signals : Permitted(t) => Permitted(t)'
  BY PermissionStays
<1>2. call[c].pc # "idle"
  BY DEF CallStep, CallFault, LoadCheckpoint, FinishResume, FailResume, SelectLog,
         CommitResumeLog, RollBackResumeLog, CommitVerdict, FailVerdict, Dispatch,
         LoseAction
<1>3. call[c] \in CallRec /\ s \in Signals
  BY <1>2, CallTyped DEF Shape
<1>4. consent' = consent
  BY DEF CallStep, CallFault, LoadCheckpoint, FinishResume, FailResume, SelectLog,
         CommitResumeLog, RollBackResumeLog, CommitVerdict, FailVerdict, Dispatch,
         LoseAction, outside
<1>5. v = "approved" => Permitted(s)
  BY <1>2, <1>3 DEF Verdict, EveryApprovalIsPermitted, Permitted, CallRec
<1>6. \A t \in Signals : thread'[t] = "approved" => Permitted(t)'
  <2>1. thread' = thread \/ thread' = [thread EXCEPT ![s] = v] \/ thread' = [thread EXCEPT ![s] = @]
    BY DEF CallStep, CallFault, LoadCheckpoint, FinishResume, FailResume, SelectLog,
           CommitResumeLog, RollBackResumeLog, CommitVerdict, FailVerdict, Dispatch,
           LoseAction
  <2> QED  BY <1>1, <1>3, <1>5, <2>1 DEF EveryApprovalIsPermitted, Shape, TypeOK
<1>7. \A t \in Signals : acted'[t] > 0 => Permitted(t)'
  <2>1. CASE Dispatch(c)
    <3>1. \A t \in Signals : acted'[t] # acted[t] => t = s /\ call[c].result = "approved"
      BY <2>1 DEF Dispatch, SendsAction, Approved, Shape, TypeOK
    <3> QED  BY <1>1, <1>2, <3>1 DEF EveryApprovalIsPermitted
  <2>2. CASE ~Dispatch(c)
    <3>1. acted' = acted
      BY <2>2 DEF CallStep, CallFault, LoadCheckpoint, FinishResume, FailResume, SelectLog,
         CommitResumeLog, RollBackResumeLog, CommitVerdict, FailVerdict, LoseAction, outside
    <3> QED  BY <1>1, <3>1 DEF EveryApprovalIsPermitted
  <2> QED  BY <2>1, <2>2
<1>8. ASSUME NEW b \in Callers, call'[b].pc # "idle"
      PROVE  /\ call'[b].decision \in consent'[call'[b].signal]
             /\ call'[b].loaded = "approved" => Permitted(call[b].signal)'
             /\ call'[b].result = "approved" => Permitted(call[b].signal)'
  <2>1. CASE b # c
    <3>1. call'[b] = call[b]
      BY <2>1 DEF CallStep, CallFault, LoadCheckpoint, FinishResume, FailResume, SelectLog,
         CommitResumeLog, RollBackResumeLog, CommitVerdict, FailVerdict, Dispatch,
         LoseAction, Step, Shape, TypeOK
    <3> PICK t \in Signals : t = call[b].signal
      BY <3>1, <1>8, CallTyped DEF Shape
    <3>2. /\ call[b].decision \in consent[t]
          /\ call[b].loaded = "approved" => Permitted(t)
          /\ call[b].result = "approved" => Permitted(t)
      BY <3>1, <1>8 DEF EveryApprovalIsPermitted
    <3>3. Permitted(call[b].signal)' <=> Permitted(t)'
      BY <3>1 DEF Permitted
    <3> QED  BY <3>1, <3>2, <3>3, <1>1, <1>4
  <2>2. CASE b = c
    <3> PICK t \in Signals : t = call[c].signal
      BY <1>3
    <3>1. /\ call'[c].signal = t
          /\ call'[c].decision = call[c].decision
          /\ call'[c].loaded \in {call[c].loaded, thread[t]}
          /\ call'[c].result \in {call[c].result, v}
      <4>1. call \in [Callers -> {NoCall} \cup CallRec]
        BY DEF Shape, TypeOK
      <4>2. CASE LoadCheckpoint(c)
        BY <4>1, <4>2, <1>3 DEF LoadCheckpoint, CallRec
      <4>3. CASE FinishResume(c)
        BY <4>1, <4>3, <1>3 DEF FinishResume, CallRec
      <4>4. CASE FailResume(c)
        BY <4>1, <4>4, <1>3 DEF FailResume, CallRec
      <4>5. CASE SelectLog(c)
        BY <4>1, <4>5, <1>3 DEF SelectLog, CallRec
      <4>6. CASE CommitResumeLog(c) \/ CommitVerdict(c)
        BY <4>1, <4>6, <1>3 DEF CommitResumeLog, CommitVerdict, Step, CallRec
      <4>7. CASE RollBackResumeLog(c)
        BY <4>1, <4>7, <1>3 DEF RollBackResumeLog, CallRec
      <4>8. CASE FailVerdict(c) \/ Dispatch(c) \/ LoseAction(c)
        BY <4>8, <1>8, <2>2, <4>1 DEF FailVerdict, Dispatch, LoseAction, NoCall
      <4> QED
        BY <4>2, <4>3, <4>4, <4>5, <4>6, <4>7, <4>8 DEF CallStep, CallFault
    <3>2. /\ call[c].decision \in consent[t]
          /\ call[c].loaded = "approved" => Permitted(t)
          /\ call[c].result = "approved" => Permitted(t)
          /\ thread[t] = "approved" => Permitted(t)
      BY <1>2 DEF EveryApprovalIsPermitted
    <3>3. Permitted(call[b].signal)' <=> Permitted(t)'
      BY <3>1, <2>2 DEF Permitted
    <3> QED  BY <3>1, <3>2, <3>3, <1>1, <1>4, <1>5, <2>2
  <2> QED  BY <2>1, <2>2
<1> QED
  BY <1>6, <1>7, <1>8 DEF EveryApprovalIsPermitted

(* Wherever an approval is held, somebody entitled to it gave it. *)
LEMMA ApprovalsArePermitted == Spec => []EveryApprovalIsPermitted
<1>1. Init => EveryApprovalIsPermitted
  BY DEF Init, EveryApprovalIsPermitted, NoCall
<1>2. Shape /\ EveryApprovalIsPermitted /\ [Next]_vars => EveryApprovalIsPermitted'
  <2> SUFFICES ASSUME Shape, EveryApprovalIsPermitted, [Next]_vars
               PROVE  EveryApprovalIsPermitted'
    OBVIOUS
  <2>0. \A t \in Signals : Permitted(t) => Permitted(t)'
    BY PermissionStays
  <2>1. CASE \E s \in Signals :
               Ingest(s) \/ Chat(s) \/ WorkerStep(s) \/ WorkerFault(s)
    BY <2>1, WorkerApproves
  <2>2. CASE \E c \in Callers : CallStep(c) \/ CallFault(c)
    BY <2>2, CallApproves
  <2>3. CASE \E s \in Signals : TurnAway(s) \/ DeleteLog(s)
    <3>1. UNCHANGED <<thread, acted, call, consent, worker>>
      BY <2>3 DEF TurnAway, DeleteLog, outside
    <3> QED  BY <3>1 DEF EveryApprovalIsPermitted, Permitted
  <2>4. CASE \E s \in Signals, c \in Callers, d \in BOOLEAN : Accept(c, s, d)
    <3> PICK s \in Signals, c \in Callers, d \in BOOLEAN : Accept(c, s, d)
      BY <2>4
    <3>1. UNCHANGED <<thread, acted, worker>>
      BY DEF Accept
    <3>2. \A t \in Signals : consent[t] \subseteq consent'[t]
      BY DEF Accept, Shape, TypeOK
    <3>3. ASSUME NEW b \in Callers, call'[b].pc # "idle"
          PROVE  /\ call'[b].decision \in consent'[call'[b].signal]
                 /\ call'[b].loaded = "approved" => Permitted(call[b].signal)'
                 /\ call'[b].result = "approved" => Permitted(call[b].signal)'
      <4>1. CASE b = c
        BY <4>1 DEF Accept, Shape, TypeOK
      <4>2. CASE b # c
        <5>1. call'[b] = call[b]
          BY <4>2 DEF Accept, Shape, TypeOK
        <5> PICK t \in Signals : t = call[b].signal
          BY <5>1, <3>3, CallTyped DEF Shape
        <5>2. Permitted(call[b].signal)' <=> Permitted(t)'
          BY <5>1 DEF Permitted
        <5> QED  BY <5>1, <5>2, <3>2, <3>3, <2>0 DEF EveryApprovalIsPermitted
      <4> QED  BY <4>1, <4>2
    <3> QED  BY <3>1, <3>3, <2>0 DEF EveryApprovalIsPermitted
  <2>5. CASE OtherRunCommits
    <3>1. UNCHANGED <<thread, acted, call, consent, worker>>
      BY <2>5 DEF OtherRunCommits, outside
    <3> QED  BY <3>1 DEF EveryApprovalIsPermitted, Permitted
  <2>6. CASE Crash
    <3>1. \A t \in Signals : thread'[t] = "approved" => thread[t] = "approved"
      BY <2>6 DEF Crash
    <3>2. acted' = acted /\ \A c \in Callers : call'[c].pc = "idle"
      BY <2>6 DEF Crash, NoCall, outside
    <3> QED  BY <3>1, <3>2, <2>0 DEF EveryApprovalIsPermitted
  <2>7. CASE UNCHANGED vars
    BY <2>7 DEF vars, EveryApprovalIsPermitted, Permitted
  <2> QED
    BY <2>1, <2>2, <2>3, <2>4, <2>5, <2>6, <2>7 DEF Next
<1> QED
  BY ShapeInvariant, <1>1, <1>2, PTL DEF Spec

(* No action is executed without the consent of the rules or of a human: every
   reachable state of every instance satisfies ActionNeedsConsent, with any
   number of overlapping callbacks, any faults, either checkpointer. *)
THEOREM ConsentSafety == Spec => []ActionNeedsConsent
<1>1. EveryApprovalIsPermitted => ActionNeedsConsent
  BY DEF EveryApprovalIsPermitted, ActionNeedsConsent
<1> QED
  BY <1>1, ApprovalsArePermitted, PTL

-----------------------------------------------------------------------------
(* Nothing fails but the graph and the webhooks, and the context commit of the
   runs is recorded already: see the run signal_audit for one that is not. *)
CalmAssumption == Faults \subseteq {"graph", "webhook"} /\ SnapshotKnown

Logged(s) == worker[s].pc \in {"notify", "final", "done"}

(* Until its run is logged a signal has no row in the audit log and cannot be
   answered; from then on it has one, which is the one a callback finds. *)
AuditInv ==
  /\ snapshot
  /\ \A s \in Signals :
       /\ worker[s].pc = "commit" => worker[s].saw
       /\ IF Logged(s) THEN Len(logs[s]) = 1 /\ logs[s][1] # "deleted"
                       ELSE logs[s] = <<>> /\ ~Resumable(s)
  /\ \A c \in Callers :
       /\ call[c].pc # "idle" => Logged(call[c].signal)
       /\ call[c].pc = "log" => call[c].seen = 1

(* The row of such a signal is the one DecisionLog row there is. *)
LEMMA OneIsLive ==
  ASSUME NEW s \in Signals, Len(logs[s]) = 1, logs[s][1] # "deleted"
  PROVE  Live(s) = {1}
BY DEF Live

(* The run of a signal writes its row once, and no callback precedes it. *)
LEMMA WorkerAudits ==
  ASSUME CalmAssumption, Shape, AuditInv, NEW s \in Signals,
         Ingest(s) \/ Chat(s) \/ WorkerStep(s) \/ WorkerFault(s)
  PROVE  AuditInv'
<1> USE DEF AuditInv, Logged, Resumable, database, outside
<1>1. /\ worker \in [Signals -> WorkerRec] /\ row \in [Signals -> RowStatus]
      /\ logs \in [Signals -> Seq(LogStatus)] /\ worker[s] \in WorkerRec
      /\ \A c \in Callers : call[c].pc # "idle" => call[c].signal \in Signals
  BY CallTyped DEF Shape, TypeOK
<1>2. CASE Ingest(s)
  BY <1>1, <1>2 DEF Ingest, NoWorker, WorkerRec
<1>3. CASE Chat(s)
  BY <1>1, <1>3 DEF Chat, NoWorker, WorkerRec
<1>4. CASE RunGraph(s)
  <2> PICK a \in GraphAction :
        worker' = [worker EXCEPT ![s] =
             [@ EXCEPT !.pc = "select", !.action = a,
                       !.status = IF a = "require_approval" THEN "pending_approval"
                                                            ELSE "succeeded"]]
    BY <1>4 DEF RunGraph
  <2> QED  BY <1>1, <1>4 DEF RunGraph, WorkerRec
<1>5. CASE FailGraph(s)
  <2> PICK a \in GraphAction \cup {"none"} :
        worker' = [worker EXCEPT ![s] =
             [@ EXCEPT !.pc = "select", !.action = a, !.status = "failed"]]
    BY <1>5 DEF FailGraph
  <2> QED  BY <1>1, <1>5 DEF FailGraph, WorkerRec
<1>6. CASE SelectSnapshot(s)
  BY <1>1, <1>6 DEF SelectSnapshot, WorkerRec
<1>7. CASE CommitLog(s)
  <2>1. worker[s].status # "deleted" /\ worker[s].status \in LogStatus
    BY <1>1, <1>7 DEF CommitLog, WorkerRec, LogStatus, Shape, LocalsOK
  <2>2. logs'[s] = Append(<<>>, worker[s].status)
    BY <1>1, <1>7 DEF CommitLog
  <2>3. Len(logs'[s]) = 1 /\ logs'[s][1] # "deleted"
    BY <2>1, <2>2
  <2>4. worker'[s].pc = "notify" /\ snapshot'
    BY <1>1, <1>7 DEF CommitLog, WorkerRec
  <2>5. \A t \in Signals \ {s} : worker'[t] = worker[t] /\ logs'[t] = logs[t] /\ row'[t] = row[t]
    BY <1>1, <1>7 DEF CommitLog
  <2>6. call' = call
    BY <1>7 DEF CommitLog
  <2>7. \A t \in Signals :
          /\ worker'[t].pc = "commit" => worker'[t].saw
          /\ IF Logged(t)' THEN Len(logs'[t]) = 1 /\ logs'[t][1] # "deleted"
                          ELSE logs'[t] = <<>> /\ ~Resumable(t)'
          /\ Logged(t) => Logged(t)'
    BY <2>3, <2>4, <2>5
  <2>8. \A c \in Callers : call'[c].pc # "idle" => Logged(call[c].signal)'
    BY <1>1, <2>6, <2>7
  <2> QED  BY <2>4, <2>6, <2>7, <2>8
<1>8. CASE RollBackLog(s)
  BY <1>8 DEF RollBackLog, SnapshotClash, CalmAssumption
<1>9. CASE AbortNotify(s) \/ LoseNotice(s) \/ Notify(s)
  <2>1. \E pc \in {"final", "done"} : worker' = [worker EXCEPT ![s].pc = pc]
    BY <1>9 DEF AbortNotify, LoseNotice, Notify
  <2>2. /\ worker[s].pc = "notify"
        /\ UNCHANGED <<row, logs, snapshot, call>>
    BY <1>9 DEF AbortNotify, LoseNotice, Notify
  <2> QED  BY <1>1, <2>1, <2>2 DEF WorkerRec
<1>10. CASE FinalCommit(s)
  BY <1>1, <1>10 DEF FinalCommit, WorkerRec
<1>11. CASE ContextFails(s) \/ FailFinalCommit(s)
  BY <1>11 DEF ContextFails, FailFinalCommit, CalmAssumption
<1> QED
  BY <1>2, <1>3, <1>4, <1>5, <1>6, <1>7, <1>8, <1>9, <1>10, <1>11 DEF WorkerStep, WorkerFault

(* A callback in flight touches the row in the audit log of its signal, and the
   locals of its own: it writes what its status is into the row it has found. *)
LEMMA CallAudits ==
  ASSUME Shape, AuditInv, NEW c \in Callers, CallStep(c) \/ CallFault(c)
  PROVE  AuditInv'
<1> DEFINE s == call[c].signal
<1>1. /\ call[c].pc # "idle" /\ call[c] \in CallRec /\ s \in Signals
      /\ row \in [Signals -> RowStatus] /\ logs \in [Signals -> Seq(LogStatus)]
      /\ call \in [Callers -> {NoCall} \cup CallRec]
  <2>1. call[c].pc # "idle"
    BY DEF CallStep, CallFault, LoadCheckpoint, FinishResume, FailResume, SelectLog,
           CommitResumeLog, RollBackResumeLog, CommitVerdict, FailVerdict, Dispatch, LoseAction
  <2> QED  BY <2>1, CallTyped DEF Shape, TypeOK
<1>2. /\ Logged(s) /\ Len(logs[s]) = 1 /\ logs[s][1] # "deleted"
      /\ call[c].pc = "log" => call[c].seen = 1
  BY <1>1 DEF AuditInv
<1>3. /\ worker' = worker /\ snapshot' = snapshot
      /\ \A t \in Signals \ {s} : row'[t] = row[t] /\ logs'[t] = logs[t]
      /\ \A b \in Callers \ {c} : call'[b] = call[b]
  BY <1>1
  DEF CallStep, CallFault, LoadCheckpoint, FinishResume, FailResume, SelectLog,
      CommitResumeLog, RollBackResumeLog, CommitVerdict, FailVerdict, Dispatch, LoseAction,
      Step, database, outside
<1>4. /\ Len(logs'[s]) = 1 /\ logs'[s][1] # "deleted"
  <2>1. CASE CommitResumeLog(c)
    <3>1. logs'[s] = [logs[s] EXCEPT ![1] = call[c].status]
      BY <1>1, <1>2, <2>1 DEF CommitResumeLog
    <3>2. call[c].status # "deleted"
      BY <1>1 DEF CallRec
    <3>3. logs[s] \in Seq(LogStatus)
      BY <1>1
    <3> QED  BY <1>2, <3>1, <3>2, <3>3
  <2>2. CASE ~CommitResumeLog(c)
    BY <1>2, <2>2
    DEF CallStep, CallFault, LoadCheckpoint, FinishResume, FailResume, SelectLog,
        RollBackResumeLog, CommitVerdict, FailVerdict, Dispatch, LoseAction, database
  <2> QED  BY <2>1, <2>2
<1>5. /\ call'[c].pc # "idle" => call'[c].signal = s
      /\ call'[c].pc = "log" => call'[c].seen = 1
  <2>1. CASE SelectLog(c)
    <3>1. Live(s) = {1}
      BY <1>1, <1>2, OneIsLive
    <3> PICK i \in {0, 1} :
          /\ 1 <= i
          /\ call' = [call EXCEPT ![c] = [@ EXCEPT !.pc = "log", !.seen = i]]
      BY <2>1, <3>1 DEF SelectLog
    <3>2. i = 1
      OBVIOUS
    <3> QED  BY <1>1, <3>2 DEF CallRec
  <2>2. CASE FinishResume(c)
    <3> PICK st \in {"succeeded", "failed"} :
          call' = [call EXCEPT ![c] =
            [@ EXCEPT !.pc = "select",
                      !.result = Verdict(call[c].loaded, call[c].decision),
                      !.status = st]]
      BY <2>2 DEF FinishResume
    <3>1. call'[c] = [call[c] EXCEPT !.pc = "select",
                        !.result = Verdict(call[c].loaded, call[c].decision), !.status = st]
      BY <1>1
    <3>2. call'[c].pc = "select" /\ call'[c].signal = call[c].signal
      BY <1>1, <3>1 DEF CallRec
    <3> QED  BY <3>2
  <2>3. CASE LoadCheckpoint(c)
    BY <1>1, <2>3 DEF LoadCheckpoint, CallRec
  <2>4. CASE FailResume(c)
    <3>1. call' = [call EXCEPT ![c] = [@ EXCEPT !.pc = "select", !.status = "failed"]]
      BY <2>4 DEF FailResume
    <3> QED  BY <1>1, <3>1 DEF CallRec
  <2>5. CASE RollBackResumeLog(c)
    <3>1. call' = [call EXCEPT ![c] = [@ EXCEPT !.pc = "decide", !.stale = TRUE]]
      BY <2>5 DEF RollBackResumeLog
    <3> QED  BY <1>1, <3>1 DEF CallRec
  <2>6. CASE CommitResumeLog(c) \/ CommitVerdict(c)
    BY <1>1, <2>6 DEF CommitResumeLog, CommitVerdict, Step, CallRec
  <2>7. CASE FailVerdict(c) \/ Dispatch(c) \/ LoseAction(c)
    BY <1>1, <2>7 DEF FailVerdict, Dispatch, LoseAction, NoCall
  <2> QED
    BY <2>1, <2>2, <2>3, <2>4, <2>5, <2>6, <2>7 DEF CallStep, CallFault
<1> HIDE DEF s
<1> QED
  BY <1>1, <1>2, <1>3, <1>4, <1>5, CallTyped DEF AuditInv, Logged, Resumable, Shape

(* AuditInv holds throughout. *)
LEMMA AuditInvariant == ASSUME CalmAssumption PROVE Spec => []AuditInv
<1>1. Init => AuditInv
  BY DEF Init, AuditInv, Logged, Resumable, NoWorker, NoCall, CalmAssumption
<1>2. Shape /\ AuditInv /\ [Next]_vars => AuditInv'
  <2> SUFFICES ASSUME Shape, AuditInv, [Next]_vars
               PROVE  AuditInv'
    OBVIOUS
  <2>1. CASE \E s \in Signals : Ingest(s) \/ Chat(s) \/ WorkerStep(s) \/ WorkerFault(s)
    BY <2>1, WorkerAudits
  <2>2. CASE \E c \in Callers : CallStep(c) \/ CallFault(c)
    BY <2>2, CallAudits
  <2>3. CASE \E s \in Signals, c \in Callers, d \in BOOLEAN : Accept(c, s, d)
    <3> PICK s \in Signals, c \in Callers, d \in BOOLEAN : Accept(c, s, d)
      BY <2>3
    <3>1. /\ call'[c].signal = s /\ call'[c].pc = "load"
          /\ \A b \in Callers \ {c} : call'[b] = call[b]
      BY DEF Accept, Shape, TypeOK
    <3> QED  BY <3>1 DEF Accept, AuditInv, Logged, Resumable, database, outside
  <2>4. CASE \/ \E s \in Signals : TurnAway(s)
             \/ OtherRunCommits \/ UNCHANGED vars
    BY <2>4 DEF TurnAway, OtherRunCommits, vars, AuditInv, Logged, Resumable, database, outside
  <2>5. CASE (\E s \in Signals : DeleteLog(s)) \/ Crash
    BY <2>5 DEF DeleteLog, Crash, CalmAssumption
  <2> QED
    BY <2>1, <2>2, <2>3, <2>4, <2>5 DEF Next
<1> QED
  BY ShapeInvariant, <1>1, <1>2, PTL DEF Spec

(* Every run leaves exactly one DecisionLog row and every resume updates it, for any
   number of signals and of callbacks that overlap, and however many graphs fail. *)
THEOREM EveryRunIsAudited == ASSUME CalmAssumption PROVE Spec => []AuditedOnce
<1>1. AuditInv => AuditedOnce
  <2> SUFFICES ASSUME AuditInv, NEW s \in Signals, Logged(s)
               PROVE  Cardinality(Live(s)) = 1
    BY DEF AuditedOnce, Logged
  <2>1. Live(s) = {1}
    BY OneIsLive DEF AuditInv
  <2> QED  BY <2>1, FS_Singleton
<1> QED  BY <1>1, AuditInvariant, PTL

=============================================================================
