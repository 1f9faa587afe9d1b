--------------------------- MODULE SignalGateProofs ---------------------------
(***************************************************************************)
(* Theorems about SignalPipeline with a durable checkpointer and, for each *)
(* signal, one approval callback at a time: the action is delivered at     *)
(* most once, the row and the checkpoint agree, and the pipeline           *)
(* implements ApprovalGate. Any number of signals, callbacks and faults.   *)
(***************************************************************************)
EXTENDS SignalPipelineProofs

(* What the theorems assume: the callbacks of one signal do not overlap. Without
   it they do not hold, as the run signal_race shows. *)
NoOverlap ==
  \A b, c \in Callers :
    call[b].pc # "idle" /\ call[c].pc # "idle" /\ call[b].signal = call[c].signal => b = c

InFlight(s) == worker[s].pc \in {"select", "commit", "notify", "final"}

(* The run of a signal, from what its task holds to what it has written. *)
RunInv(s) ==
  LET w == worker[s] IN
  /\ w.pc # "done" => row[s] \in {"none", "queued", "processing"}
  /\ w.pc \in {"idle", "run", "select", "commit"} => ~w.stale
  /\ w.pc \in {"idle", "run"} => thread[s] = "none"
  /\ w.pc \in {"idle", "run", "select", "commit", "notify"} => acted[s] = 0
  /\ InFlight(s) /\ w.status # "failed" =>
       /\ w.action \in GraphAction /\ thread[s] = ThreadAfter(w.action)
       /\ w.status = IF w.action = "require_approval" THEN "pending_approval" ELSE "succeeded"
  /\ w.pc \in {"notify", "final"} /\ ~w.stale => logs[s] # <<>>
  /\ w.pc = "final" => ~Unreadable(w)

(* What the row, the checkpoint and the deliveries of a signal say of each other. *)
RecordInv(s) ==
  /\ row[s] \in {"pending_approval", "dismissed"} =>
       acted[s] = 0 /\ thread[s] \in {"paused", "approved", "rejected"}
  /\ row[s] = "pending_approval" => logs[s] # <<>>
  /\ row[s] = "executed" => thread[s] = "approved"
  /\ acted[s] > 0 => acted[s] = 1 /\ thread[s] = "approved"

(* A callback in flight, between the status it has checked and its delivery. *)
CallInv(c) ==
  LET s == call[c].signal IN
  call[c].pc # "idle" =>
    /\ worker[s].pc = "done" /\ acted[s] = 0
    /\ row[s] = IF call[c].pc = "notify" THEN Outcome(call[c].result) ELSE "pending_approval"
    /\ call[c].pc \in {"load", "resume"} => call[c].result = "none"
    /\ call[c].pc = "resume" => call[c].loaded = thread[s]
    /\ call[c].result # "none" => call[c].result = thread[s]

GateInv ==
  /\ \A s \in Signals : RunInv(s) /\ RecordInv(s)
  /\ \A c \in Callers : CallInv(c)

-----------------------------------------------------------------------------
(* What is recorded of signal t is left alone by a step. *)
Same(t) ==
  /\ row'[t] = row[t] /\ thread'[t] = thread[t] /\ logs'[t] = logs[t]
  /\ worker'[t] = worker[t] /\ acted'[t] = acted[t]

LEMMA SameSignal ==
  ASSUME NEW t \in Signals, Same(t), RunInv(t), RecordInv(t)
  PROVE  RunInv(t)' /\ RecordInv(t)'
BY DEF Same, RunInv, RecordInv, InFlight, Unreadable

LEMMA SameCall ==
  ASSUME Shape, NEW c \in Callers, call'[c] = call[c], CallInv(c),
         call[c].pc # "idle" => Same(call[c].signal)
  PROVE  CallInv(c)'
<1>1. CASE call[c].pc = "idle"
  BY <1>1 DEF CallInv
<1>2. CASE call[c].pc # "idle"
  BY <1>2 DEF CallInv, Same, Outcome, Approved
<1> QED  BY <1>1, <1>2

(* A log that was written to is not empty. *)
LEMMA LogNotEmpty ==
  ASSUME NEW l \in Seq(LogStatus), NEW v \in LogStatus
  PROVE  Append(l, v) # <<>>
BY AppendProperties, Len(<<>>) = 0

(* The locals a task has while the graph of its signal runs. *)
LEMMA WorkerTyped ==
  ASSUME Shape, NEW s \in Signals
  PROVE  /\ worker[s] \in WorkerRec /\ acted[s] \in Nat /\ thread[s] \in ThreadState
         /\ row[s] \in RowStatus /\ logs[s] \in Seq(LogStatus)
BY DEF Shape, TypeOK

(* A step of the run of a signal keeps what is known of this signal. *)
LEMMA WorkerKeeps ==
  ASSUME Shape, NEW s \in Signals, RunInv(s), RecordInv(s),
         Ingest(s) \/ Chat(s) \/ WorkerStep(s) \/ WorkerFault(s)
  PROVE  RunInv(s)' /\ RecordInv(s)'
<1> USE DEF RunInv, RecordInv, InFlight, database, outside
<1>0. /\ worker[s] \in WorkerRec /\ acted[s] \in Nat /\ row[s] \in RowStatus
      /\ row \in [Signals -> RowStatus] /\ thread \in [Signals -> ThreadState]
      /\ logs \in [Signals -> Seq(LogStatus)] /\ worker \in [Signals -> WorkerRec]
      /\ acted \in [Signals -> Nat]
  BY DEF Shape, TypeOK
<1>1. CASE Ingest(s)
  BY <1>0, <1>1 DEF Ingest, NoWorker, WorkerRec
<1>2. CASE Chat(s)
  BY <1>0, <1>2 DEF Chat, NoWorker, WorkerRec
<1>3. CASE ContextFails(s)
  BY <1>0, <1>3 DEF ContextFails, WorkerRec
<1>4. CASE RunGraph(s)
  <2> PICK a \in GraphAction :
        /\ thread' = [thread EXCEPT ![s] = ThreadAfter(a)]
        /\ worker' = [worker EXCEPT ![s] =
             [@ EXCEPT !.pc = "select", !.action = a,
                       !.status = IF a = "require_approval" THEN "pending_approval"
                                                            ELSE "succeeded"]]
    BY <1>4 DEF RunGraph
  <2> QED  BY <1>0, <1>4 DEF RunGraph, WorkerRec, Unreadable
<1>5. CASE FailGraph(s)
  <2> PICK a \in GraphAction \cup {"none"} :
        /\ thread' = [thread EXCEPT ![s] = IF a = "none" THEN "none" ELSE ThreadAfter(a)]
        /\ worker' = [worker EXCEPT ![s] =
             [@ EXCEPT !.pc = "select", !.action = a, !.status = "failed"]]
    BY <1>5 DEF FailGraph
  <2> QED  BY <1>0, <1>5 DEF FailGraph, WorkerRec, Unreadable
<1>6. CASE SelectSnapshot(s)
  BY <1>0, <1>6 DEF SelectSnapshot, WorkerRec, Unreadable
<1>7. CASE CommitLog(s)
  <2>0. worker[s].status \in LogStatus
    BY <1>0, <1>7 DEF CommitLog, WorkerRec, LogStatus, Shape, LocalsOK
  <2>1. logs'[s] # <<>>
    BY <1>0, <1>7, <2>0, LogNotEmpty DEF CommitLog
  <2>2. /\ worker'[s] = [worker[s] EXCEPT !.pc = "notify"]
        /\ row'[s] \in {row[s], "processing"} /\ thread'[s] = thread[s] /\ acted'[s] = acted[s]
    BY <1>0, <1>7 DEF CommitLog, ChatProgress
  <2> QED  BY <1>0, <1>7, <2>1, <2>2 DEF CommitLog, WorkerRec
<1>8. CASE RollBackLog(s)
  BY <1>0, <1>8 DEF RollBackLog, WorkerRec, Unreadable
<1>9. CASE AbortNotify(s)
  BY <1>0, <1>9 DEF AbortNotify, WorkerRec
<1>10. CASE LoseNotice(s)
  BY <1>0, <1>10 DEF LoseNotice, WorkerRec, Unreadable
<1>11. CASE Notify(s)
  <2>1. /\ worker'[s] = [worker[s] EXCEPT !.pc = "final"]
        /\ acted'[s] = IF worker[s].status = "succeeded" /\ worker[s].action = "auto_act"
                         THEN 1 ELSE 0
        /\ row'[s] = row[s] /\ thread'[s] = thread[s] /\ logs'[s] = logs[s]
    BY <1>0, <1>11 DEF Notify
  <2> QED  BY <1>0, <1>11, <2>1 DEF Notify, WorkerRec, Unreadable, ThreadAfter
<1>12. CASE FinalCommit(s)
  <2>1. /\ worker'[s] = [worker[s] EXCEPT !.pc = "done"]
        /\ row'[s] = IF PublishesOutcome(worker[s])
                       THEN StatusOf(worker[s].status, worker[s].action) ELSE row[s]
        /\ acted'[s] = acted[s] /\ thread'[s] = thread[s] /\ logs'[s] = logs[s]
    BY <1>0, <1>12 DEF FinalCommit
  <2> QED
    BY <1>0, <1>12, <2>1
    DEF FinalCommit, WorkerRec, Unreadable, ThreadAfter, StatusOf, PublishesOutcome, GraphAction
<1>13. CASE FailFinalCommit(s)
  BY <1>0, <1>13 DEF FailFinalCommit, WorkerRec
<1> QED
  BY <1>1, <1>2, <1>3, <1>4, <1>5, <1>6, <1>7, <1>8, <1>9, <1>10, <1>11, <1>12, <1>13
  DEF WorkerStep, WorkerFault

(* No callback of a signal is in flight before its run is over, so the run of one
   signal changes nothing that a callback relies on. *)
LEMMA WorkerGate ==
  ASSUME Shape, GateInv, NEW s \in Signals,
         Ingest(s) \/ Chat(s) \/ WorkerStep(s) \/ WorkerFault(s)
  PROVE  GateInv'
<1>1. call' = call /\ worker[s].pc # "done"
  BY DEF Ingest, Chat, WorkerStep, WorkerFault, ContextFails, RunGraph, FailGraph,
         SelectSnapshot, CommitLog, RollBackLog, AbortNotify, LoseNotice, Notify,
         FinalCommit, FailFinalCommit
<1>2. ASSUME NEW t \in Signals, t # s
      PROVE  Same(t)
  BY <1>2
  DEF Same, Shape, TypeOK, Ingest, Chat, WorkerStep, WorkerFault, ContextFails, RunGraph,
      FailGraph, SelectSnapshot, CommitLog, RollBackLog, AbortNotify, LoseNotice, Notify,
      FinalCommit, FailFinalCommit, database, outside
<1>3. ASSUME NEW t \in Signals
      PROVE  RunInv(t)' /\ RecordInv(t)'
  BY <1>2, WorkerKeeps, SameSignal DEF GateInv
<1>4. ASSUME NEW c \in Callers
      PROVE  CallInv(c)'
  <2>1. call[c].pc # "idle" => call[c].signal \in Signals /\ call[c].signal # s
    BY <1>1, CallTyped DEF GateInv, CallInv, Shape
  <2> QED  BY <1>1, <1>2, <2>1, SameCall DEF GateInv
<1> QED  BY <1>3, <1>4 DEF GateInv

(* A callback in flight changes the checkpoint, the row and the deliveries of its
   signal only as its own locals say. *)
LEMMA CallKeeps ==
  ASSUME Shape, GateInv, NEW c \in Callers, CallStep(c) \/ CallFault(c),
         NEW s \in Signals, s = call[c].signal
  PROVE  RecordInv(s)' /\ CallInv(c)' /\ worker' = worker
<1> USE DEF RecordInv, CallInv, database, outside
<1>0. /\ call[c] \in CallRec /\ call[c].pc # "idle"
      /\ acted[s] \in Nat /\ row[s] \in RowStatus /\ thread[s] \in ThreadState
      /\ row \in [Signals -> RowStatus] /\ thread \in [Signals -> ThreadState]
      /\ logs \in [Signals -> Seq(LogStatus)]
      /\ acted \in [Signals -> Nat] /\ call \in [Callers -> {NoCall} \cup CallRec]
      /\ CallInv(c) /\ RecordInv(s)
  <2>1. call[c].pc # "idle"
    BY DEF CallStep, CallFault, LoadCheckpoint, FinishResume, FailResume, SelectLog,
           CommitResumeLog, RollBackResumeLog, CommitVerdict, FailVerdict, Dispatch,
           LoseAction
  <2> QED  BY <2>1, CallTyped DEF Shape, TypeOK, GateInv
<1>1. CASE LoadCheckpoint(c)
  BY <1>0, <1>1 DEF LoadCheckpoint, CallRec
<1>2. CASE FinishResume(c)
  <2> PICK st \in {"succeeded", "failed"} :
        call' = [call EXCEPT ![c] =
          [@ EXCEPT !.pc = "select",
                    !.result = Verdict(call[c].loaded, call[c].decision),
                    !.status = st]]
    BY <1>2 DEF FinishResume
  <2>1. call'[c] = [call[c] EXCEPT !.pc = "select",
                      !.result = Verdict(call[c].loaded, call[c].decision), !.status = st]
    BY <1>0
  <2>2. /\ thread'[s] = Verdict(thread[s], call[c].decision)
        /\ thread'[s] \in {"approved", "rejected"}
        /\ call[c].loaded = thread[s]
    BY <1>0, <1>2 DEF FinishResume, Verdict, CallRec
  <2> QED  BY <1>0, <1>2, <2>1, <2>2 DEF FinishResume, CallRec
<1>3. CASE FailResume(c)
  <2>1. call'[c] = [call[c] EXCEPT !.pc = "select", !.status = "failed"]
    BY <1>0, <1>3 DEF FailResume
  <2>2. /\ thread'[s] \in {"paused", "approved", "rejected"}
        /\ thread[s] = "approved" => thread'[s] = "approved"
    BY <1>0, <1>3 DEF FailResume, Verdict, CallRec
  <2> QED  BY <1>0, <1>3, <2>1, <2>2 DEF FailResume, CallRec
<1>4. CASE SelectLog(c)
  BY <1>0, <1>4 DEF SelectLog, CallRec
<1>5. CASE CommitResumeLog(c)
  <2>1. call'[c] = [call[c] EXCEPT !.pc = "decide"]
    BY <1>0, <1>5 DEF CommitResumeLog, Step
  <2>2. logs'[s] # <<>>
    <3>1. logs[s] # <<>> /\ logs[s] \in Seq(LogStatus)
      BY <1>0, <1>5 DEF CommitResumeLog
    <3>2. call[c].status \in LogStatus
      BY <1>0, <1>5 DEF CommitResumeLog, CallRec, LogStatus, Shape, LocalsOK
    <3>3. CASE call[c].seen = 0
      BY <1>0, <1>5, <3>1, <3>2, <3>3, LogNotEmpty DEF CommitResumeLog
    <3>4. CASE call[c].seen # 0
      <4>1. logs'[s] = [logs[s] EXCEPT ![call[c].seen] = call[c].status]
        BY <1>0, <1>5, <3>4 DEF CommitResumeLog
      <4> QED  BY <3>1, <4>1
    <3> QED  BY <3>3, <3>4
  <2> QED  BY <1>0, <1>5, <2>1, <2>2 DEF CommitResumeLog, CallRec
<1>6. CASE RollBackResumeLog(c)
  BY <1>0, <1>6 DEF RollBackResumeLog, CallRec
<1>7. CASE CommitVerdict(c)
  <2>1. /\ call'[c] = [call[c] EXCEPT !.pc = "notify"]
        /\ row'[s] = Outcome(call[c].result)
    BY <1>0, <1>7 DEF CommitVerdict, Step
  <2> QED
    BY <1>0, <1>7, <2>1 DEF CommitVerdict, CallRec, Outcome, Approved
<1>8. CASE Dispatch(c)
  <2>1. call'[c] = NoCall /\ acted'[s] = IF SendsAction(call[c]) THEN 1 ELSE 0
    BY <1>0, <1>8 DEF Dispatch
  <2> QED  BY <1>0, <1>8, <2>1 DEF Dispatch, NoCall, SendsAction, Outcome, Approved, CallRec
<1>9. CASE FailVerdict(c) \/ LoseAction(c)
  BY <1>0, <1>9 DEF FailVerdict, LoseAction, NoCall
<1> QED
  BY <1>1, <1>2, <1>3, <1>4, <1>5, <1>6, <1>7, <1>8, <1>9 DEF CallStep, CallFault

(* A step of one callback leaves the other signals alone, and no other callback
   of its own signal is in flight. *)
LEMMA CallGate ==
  ASSUME Shape, GateInv, NoOverlap, NEW c \in Callers, CallStep(c) \/ CallFault(c)
  PROVE  GateInv'
<1>0. call[c].pc # "idle"
  BY DEF CallStep, CallFault, LoadCheckpoint, FinishResume, FailResume, SelectLog,
         CommitResumeLog, RollBackResumeLog, CommitVerdict, FailVerdict, Dispatch, LoseAction
<1> PICK s \in Signals : s = call[c].signal
  BY <1>0, CallTyped DEF Shape
<1>1. call[c].pc # "idle" /\ s = call[c].signal
  BY <1>0
<1>2. RecordInv(s)' /\ CallInv(c)' /\ worker' = worker
  BY <1>1, CallKeeps
<1>3. ASSUME NEW t \in Signals, t # s
      PROVE  Same(t)
  BY <1>1, <1>2, <1>3
  DEF Same, Shape, TypeOK, CallStep, CallFault, LoadCheckpoint, FinishResume, FailResume,
      SelectLog, CommitResumeLog, RollBackResumeLog, CommitVerdict, FailVerdict, Dispatch,
      LoseAction, database, outside
<1>4. ASSUME NEW b \in Callers, b # c
      PROVE  call'[b] = call[b]
  BY <1>1, <1>4
  DEF Shape, TypeOK, CallStep, CallFault, LoadCheckpoint, FinishResume, FailResume,
      SelectLog, CommitResumeLog, RollBackResumeLog, CommitVerdict, FailVerdict, Dispatch,
      LoseAction, Step
<1>5. ASSUME NEW t \in Signals
      PROVE  RunInv(t)' /\ RecordInv(t)'
  <2>1. CASE t = s
    <3>1. worker'[s].pc = "done"
      BY <1>1, <1>2 DEF GateInv, CallInv
    <3> QED  BY <2>1, <3>1, <1>2 DEF RunInv, InFlight
  <2>2. CASE t # s
    BY <2>2, <1>3, SameSignal DEF GateInv
  <2> QED  BY <2>1, <2>2
<1>6. ASSUME NEW b \in Callers
      PROVE  CallInv(b)'
  <2>1. CASE b = c
    BY <2>1, <1>2
  <2>2. CASE b # c
    <3>1. call[b].pc # "idle" => call[b].signal \in Signals /\ call[b].signal # s
      BY <1>1, <2>2, CallTyped DEF NoOverlap, Shape
    <3> QED  BY <2>2, <3>1, <1>3, <1>4, SameCall DEF GateInv
  <2> QED  BY <2>1, <2>2
<1> QED  BY <1>5, <1>6 DEF GateInv

(* A callback is accepted only for a pending signal, whose run is over and whose
   action has not been delivered. *)
LEMMA AcceptGate ==
  ASSUME Shape, GateInv, NEW s \in Signals, NEW c \in Callers, NEW d \in BOOLEAN,
         Accept(c, s, d)
  PROVE  GateInv'
<1>1. \A t \in Signals : Same(t)
  BY DEF Accept, Same, database
<1>2. CallInv(c)'
  <2>1. call'[c] = [pc |-> "load", signal |-> s, decision |-> d, loaded |-> "none",
                    result |-> "none", status |-> "none", seen |-> 0, stale |-> FALSE]
    BY DEF Accept, Shape, TypeOK
  <2>2. row[s] = "pending_approval" /\ RunInv(s) /\ RecordInv(s)
    BY DEF Accept, Resumable, GateInv
  <2> QED  BY <1>1, <2>1, <2>2 DEF CallInv, RunInv, RecordInv, Same
<1>3. ASSUME NEW b \in Callers, b # c
      PROVE  CallInv(b)'
  <2>1. call'[b] = call[b]
    BY <1>3 DEF Accept, Shape, TypeOK
  <2> QED  BY <1>1, <2>1, CallTyped, SameCall DEF GateInv, Shape
<1> QED  BY <1>1, <1>2, <1>3, SameSignal DEF GateInv

(* A crash ends the runs and forgets the callbacks; with a durable checkpointer
   the checkpoints outlive it. *)
LEMMA CrashGate ==
  ASSUME Durable, Shape, GateInv, Crash
  PROVE  GateInv'
<1>1. ASSUME NEW t \in Signals
      PROVE  RunInv(t)' /\ RecordInv(t)'
  <2>1. /\ row' = row /\ thread' = thread /\ logs' = logs /\ acted' = acted
        /\ \/ worker'[t] = worker[t]
           \/ worker'[t] = [worker[t] EXCEPT !.pc = "done"]
    BY DEF Crash, database, outside
  <2>2. worker[t] \in WorkerRec
    BY DEF Shape, TypeOK
  <2>3. CASE worker'[t] = worker[t]
    BY <2>1, <2>3, SameSignal DEF Same, GateInv
  <2>4. CASE worker'[t] = [worker[t] EXCEPT !.pc = "done"]
    <3>1. worker'[t].pc = "done"
      BY <2>2, <2>4 DEF WorkerRec
    <3> QED  BY <2>1, <3>1 DEF GateInv, RunInv, RecordInv, InFlight
  <2> QED  BY <2>1, <2>3, <2>4
<1>2. \A c \in Callers : call'[c].pc = "idle"
  BY DEF Crash, NoCall
<1> QED  BY <1>1, <1>2 DEF GateInv, CallInv

LEMMA GateInvariant == ASSUME Durable PROVE Spec /\ []NoOverlap => []GateInv
<1>1. Init => GateInv
  BY DEF Init, GateInv, RunInv, RecordInv, CallInv, InFlight, NoWorker, NoCall
<1>2. Shape /\ GateInv /\ NoOverlap /\ [Next]_vars => GateInv'
  <2> SUFFICES ASSUME Shape, GateInv, NoOverlap, [Next]_vars
               PROVE  GateInv'
    OBVIOUS
  <2>1. CASE \E s \in Signals :
               Ingest(s) \/ Chat(s) \/ WorkerStep(s) \/ WorkerFault(s)
    BY <2>1, WorkerGate
  <2>2. CASE \E c \in Callers : CallStep(c) \/ CallFault(c)
    BY <2>2, CallGate
  <2>3. CASE \E s \in Signals, c \in Callers, d \in BOOLEAN : Accept(c, s, d)
    BY <2>3, AcceptGate
  <2>4. CASE \E s \in Signals : DeleteLog(s)
    <3> PICK s \in Signals : DeleteLog(s)
      BY <2>4
    <3>1. UNCHANGED <<row, thread, worker, call, acted>>
      BY DEF DeleteLog, outside
    <3>2. \A t \in Signals : logs[t] # <<>> => logs'[t] # <<>>
      BY DEF DeleteLog, Shape, TypeOK, Live
    <3> QED
      BY <3>1, <3>2
      DEF GateInv, RunInv, RecordInv, CallInv, InFlight, Unreadable, Outcome, Approved
  <2>5. CASE (\E s \in Signals : TurnAway(s)) \/ OtherRunCommits \/ UNCHANGED vars
    <3>1. UNCHANGED <<row, thread, logs, worker, call, acted>>
      BY <2>5 DEF TurnAway, OtherRunCommits, vars, database, outside
    <3> QED
      BY <3>1 DEF GateInv, RunInv, RecordInv, CallInv, InFlight, Unreadable, Outcome, Approved
  <2>6. CASE Crash
    BY <2>6, CrashGate
  <2> QED
    BY <2>1, <2>2, <2>3, <2>4, <2>5, <2>6 DEF Next
<1> QED
  BY ShapeInvariant, <1>1, <1>2, PTL DEF Spec

-----------------------------------------------------------------------------
(* Delivered at most once: with a durable checkpointer, and callbacks of one signal
   that do not overlap, no crash, rollback or repeated callback sends an action
   twice. *)
THEOREM ActsAtMostOnce ==
  ASSUME Durable
  PROVE  Spec /\ []NoOverlap => []ActionAtMostOnce
<1>1. Shape /\ GateInv => ActionAtMostOnce
  <2>1. ASSUME Shape, GateInv, NEW s \in Signals
        PROVE  acted[s] <= 1
    <3>1. acted[s] \in Nat
      BY <2>1, WorkerTyped
    <3>2. acted[s] > 0 => acted[s] = 1
      BY <2>1 DEF GateInv, RecordInv
    <3> QED  BY <3>1, <3>2
  <2> QED  BY <2>1 DEF ActionAtMostOnce
<1> QED  BY <1>1, GateInvariant, ShapeInvariant, PTL

(* A row says executed only of a graph that was resumed with an approval, and
   dismissed only of a signal for which nothing was delivered. *)
THEOREM RowMatchesGraph ==
  ASSUME Durable
  PROVE  Spec /\ []NoOverlap => [](ExecutedMatchesGraph /\ DismissedNeverActed)
<1>1. GateInv => ExecutedMatchesGraph /\ DismissedNeverActed
  BY DEF GateInv, RecordInv, ExecutedMatchesGraph, DismissedNeverActed
<1> QED  BY <1>1, GateInvariant, PTL

(* Who is asked can be answered: a pending row always has a checkpoint to resume and
   its decision log, through every failure and restart. *)
THEOREM AskedCanBeAnswered ==
  ASSUME Durable
  PROVE  Spec /\ []NoOverlap => []PendingIsBacked
<1>1. GateInv => PendingIsBacked
  BY DEF GateInv, RecordInv, PendingIsBacked, Resumable
<1> QED  BY <1>1, GateInvariant, PTL

(* With one callback at a time there is nothing left to assume: the action is
   delivered at most once and the row agrees with the graph. *)
THEOREM SerialApprovalIsSafe ==
  ASSUME Durable, \A b, c \in Callers : b = c
  PROVE  Spec => [](ActionAtMostOnce /\ ExecutedMatchesGraph)
<1>1. NoOverlap
  BY DEF NoOverlap
<1> QED  BY <1>1, ActsAtMostOnce, RowMatchesGraph, PTL

(* An outcome shown to a dashboard is final: of all the tasks that write the row,
   none is left that could write it once it says executed or dismissed. *)
THEOREM OutcomesAreFinal ==
  ASSUME Durable
  PROVE  Spec /\ []NoOverlap => OutcomeIsFinal
<1> DEFINE Final == \A s \in Signals : row[s] \in {"executed", "dismissed"} => row'[s] = row[s]
<1>1. Shape /\ GateInv /\ [Next]_vars => [Final]_vars
  <2> SUFFICES ASSUME Shape, GateInv, [Next]_vars,
                      NEW t \in Signals, row[t] \in {"executed", "dismissed"}
               PROVE  row'[t] = row[t]
    OBVIOUS
  <2>0. worker[t].pc = "done" /\ row \in [Signals -> RowStatus]
    BY DEF GateInv, RunInv, Shape, TypeOK, WorkerRec
  <2>1. CASE \E s \in Signals :
               Ingest(s) \/ Chat(s) \/ WorkerStep(s) \/ WorkerFault(s)
    BY <2>0, <2>1
    DEF Ingest, Chat, WorkerStep, WorkerFault, ContextFails, RunGraph, FailGraph,
        SelectSnapshot, CommitLog, RollBackLog, AbortNotify, LoseNotice, Notify,
        FinalCommit, FailFinalCommit, database
  <2>2. CASE \E c \in Callers : CallStep(c) \/ CallFault(c)
    <3> PICK c \in Callers : CallStep(c) \/ CallFault(c)
      BY <2>2
    <3>1. CASE CommitVerdict(c)
      <4>1. row[call[c].signal] = "pending_approval"
        BY <3>1 DEF CommitVerdict, GateInv, CallInv
      <4> QED  BY <3>1, <4>1, <2>0 DEF CommitVerdict
    <3>2. CASE ~CommitVerdict(c)
      BY <3>2
      DEF CallStep, CallFault, LoadCheckpoint, FinishResume, FailResume, SelectLog,
          CommitResumeLog, RollBackResumeLog, FailVerdict, Dispatch, LoseAction, database
    <3> QED  BY <3>1, <3>2
  <2>3. CASE \/ \E s \in Signals : TurnAway(s) \/ DeleteLog(s)
             \/ \E s \in Signals, c \in Callers, d \in BOOLEAN : Accept(c, s, d)
             \/ OtherRunCommits \/ Crash \/ UNCHANGED vars
    BY <2>3 DEF TurnAway, DeleteLog, Accept, OtherRunCommits, Crash, vars, database
  <2> QED  BY <2>1, <2>2, <2>3 DEF Next
<1> QED  BY <1>1, GateInvariant, ShapeInvariant, PTL DEF Spec, OutcomeIsFinal

-----------------------------------------------------------------------------
(* How a signal shows in the gate. *)
Verdicts(s) ==
  CASE thread[s] = "paused"   -> "waiting"
    [] thread[s] = "approved" -> "granted"
    [] thread[s] = "rejected" -> "refused"
    [] OTHER                  -> "open"

Published(s) == IF row[s] \in {"executed", "dismissed"} THEN row[s] ELSE "none"

(* A step that shows nothing of any signal is a stutter of the gate. *)
Hidden ==
  /\ \A s \in Signals : Verdicts(s)' = Verdicts(s) /\ Published(s)' = Published(s)
  /\ acted' = acted /\ consent' = consent

LEMMA HiddenStutters == ASSUME Hidden PROVE UNCHANGED Gate!vars
BY DEF Hidden, Verdicts, Published, Gate!vars

(* The steps of the gate, as they show in the state of the pipeline. *)
LEMMA VerdictShows ==
  ASSUME NEW s \in Signals, NEW d \in BOOLEAN,
         \A t \in Signals : t # s => Verdicts(t)' = Verdicts(t),
         UNCHANGED <<row, acted, consent>>,
         \/ Verdicts(s) = "open" /\ Verdicts(s)' \in {"waiting", "granted"}
         \/ /\ Verdicts(s) = "waiting" /\ d \in consent[s]
            /\ Verdicts(s)' = IF d THEN "granted" ELSE "refused"
  PROVE  Gate!Next
<1> DEFINE V == [t \in Signals |-> Verdicts(t)]
<1>1. V' = [V EXCEPT ![s] = Verdicts(s)'] /\ V[s] = Verdicts(s)
  OBVIOUS
<1>2. [t \in Signals |-> Published(t)]' = [t \in Signals |-> Published(t)]
  BY DEF Published
<1>3. CASE Verdicts(s) = "open"
  <2>1. Gate!Ask(s) \/ Gate!AutoGrant(s)
    BY <1>1, <1>2, <1>3 DEF Gate!Ask, Gate!AutoGrant, Verdicts, Published
  <2> QED  BY <2>1 DEF Gate!Next
<1>4. CASE Verdicts(s) # "open"
  <2>1. Gate!Settle(s, d)
    BY <1>1, <1>2, <1>4 DEF Gate!Settle, Verdicts, Published
  <2> QED  BY <2>1 DEF Gate!Next
<1> QED  BY <1>3, <1>4

LEMMA OutcomeShows ==
  ASSUME NEW s \in Signals, acted \in [Signals -> Nat],
         \A t \in Signals : t # s => row'[t] = row[t],
         UNCHANGED <<thread, acted, consent>>,
         Published(s) = "none",
         \/ row'[s] = "executed" /\ Verdicts(s) = "granted"
         \/ row'[s] = "dismissed" /\ Verdicts(s) # "open" /\ acted[s] = 0
  PROVE  Gate!Next
<1> DEFINE P == [t \in Signals |-> Published(t)]
<1>1. P' = [P EXCEPT ![s] = row'[s]] /\ P[s] = "none"
  BY DEF Published
<1>2. [t \in Signals |-> Verdicts(t)]' = [t \in Signals |-> Verdicts(t)]
  BY DEF Verdicts
<1>3. Gate!PublishExecuted(s) \/ Gate!PublishDismissed(s)
  BY <1>1, <1>2 DEF Gate!PublishExecuted, Gate!PublishDismissed, Verdicts, Published
<1> QED  BY <1>3 DEF Gate!Next

LEMMA ActionShows ==
  ASSUME NEW s \in Signals, acted' = [acted EXCEPT ![s] = 1],
         UNCHANGED <<thread, row, consent>>,
         Verdicts(s) = "granted", Published(s) # "dismissed", acted[s] = 0
  PROVE  Gate!Next
<1>1. UNCHANGED <<[t \in Signals |-> Verdicts(t)], [t \in Signals |-> Published(t)]>>
  BY DEF Verdicts, Published
<1>2. Gate!Act(s)
  BY <1>1 DEF Gate!Act, Verdicts, Published
<1> QED  BY <1>2 DEF Gate!Next

LEMMA AnswerShows ==
  ASSUME NEW s \in Signals, NEW d \in BOOLEAN,
         consent' = [consent EXCEPT ![s] = @ \cup {d}],
         UNCHANGED <<thread, row, acted>>, Verdicts(s) # "open"
  PROVE  Gate!Next
<1>1. UNCHANGED <<[t \in Signals |-> Verdicts(t)], [t \in Signals |-> Published(t)]>>
  BY DEF Verdicts, Published
<1>2. Gate!Answer(s, d)
  BY <1>1 DEF Gate!Answer, Verdicts, Published
<1> QED  BY <1>2 DEF Gate!Next

-----------------------------------------------------------------------------
(* The run of a signal shows its verdict when the graph stops, its outcome in the
   final commit and its delivery in the notification. *)
LEMMA WorkerShows ==
  ASSUME Shape, GateInv, NEW s \in Signals,
         Ingest(s) \/ Chat(s) \/ WorkerStep(s) \/ WorkerFault(s)
  PROVE  [Gate!Next]_Gate!vars
<1>0. /\ row \in [Signals -> RowStatus] /\ thread \in [Signals -> ThreadState]
      /\ acted \in [Signals -> Nat] /\ worker[s] \in WorkerRec
      /\ RunInv(s) /\ RecordInv(s)
  BY DEF Shape, TypeOK, GateInv
<1>1. CASE Ingest(s)
  <2>1. Hidden
    BY <1>0, <1>1 DEF Ingest, Hidden, Verdicts, Published, RunInv, outside
  <2> QED  BY <2>1, HiddenStutters
<1>2. CASE RunGraph(s) \/ FailGraph(s)
  <2> PICK a \in GraphAction \cup {"none"} :
        thread' = [thread EXCEPT ![s] = IF a = "none" THEN "none" ELSE ThreadAfter(a)]
    BY <1>2 DEF RunGraph, FailGraph, GraphAction
  <2>1. thread[s] = "none" /\ UNCHANGED <<row, acted, consent>>
    BY <1>0, <1>2 DEF RunGraph, FailGraph, RunInv, database, outside
  <2>2. \A t \in Signals : t # s => Verdicts(t)' = Verdicts(t)
    BY <1>0 DEF Verdicts
  <2>3. Verdicts(s) = "open" /\ Verdicts(s)' \in {"open", "waiting", "granted"}
    BY <1>0, <2>1 DEF Verdicts, ThreadAfter, GraphAction
  <2>4. CASE Verdicts(s)' = "open"
    <3>1. Hidden
      BY <2>1, <2>2, <2>3, <2>4 DEF Hidden, Published
    <3> QED  BY <3>1, HiddenStutters
  <2>5. CASE Verdicts(s)' # "open"
    BY <2>1, <2>2, <2>3, <2>5, VerdictShows
  <2> QED  BY <2>4, <2>5
<1>3. CASE CommitLog(s)
  <2>1. Hidden
    BY <1>0, <1>3 DEF CommitLog, ChatProgress, Hidden, Verdicts, Published, RunInv, outside
  <2> QED  BY <2>1, HiddenStutters
<1>4. CASE Notify(s)
  <2>1. acted[s] = 0 /\ Published(s) = "none" /\ UNCHANGED <<row, thread, consent>>
    BY <1>0, <1>4 DEF Notify, RunInv, Published, database
  <2>2. CASE worker[s].status = "succeeded" /\ worker[s].action = "auto_act"
    <3>1. acted' = [acted EXCEPT ![s] = 1]
      BY <1>4, <2>1, <2>2 DEF Notify
    <3>2. Verdicts(s) = "granted"
      BY <1>0, <1>4, <2>2 DEF Notify, RunInv, InFlight, ThreadAfter, Verdicts
    <3> QED  BY <2>1, <3>1, <3>2, ActionShows
  <2>3. CASE ~(worker[s].status = "succeeded" /\ worker[s].action = "auto_act")
    <3>1. Hidden
      BY <1>0, <1>4, <2>1, <2>3 DEF Notify, Hidden, Verdicts, Published
    <3> QED  BY <3>1, HiddenStutters
  <2> QED  BY <2>2, <2>3
<1>5. CASE FinalCommit(s)
  <2>1. /\ Published(s) = "none" /\ UNCHANGED <<thread, acted, consent>>
        /\ \A t \in Signals : t # s => row'[t] = row[t]
        /\ row'[s] = IF PublishesOutcome(worker[s])
                       THEN StatusOf(worker[s].status, worker[s].action) ELSE row[s]
    BY <1>0, <1>5 DEF FinalCommit, RunInv, Published, outside
  <2>2. CASE row'[s] = "executed"
    <3>1. Verdicts(s) = "granted"
      BY <1>0, <1>5, <2>1, <2>2
      DEF FinalCommit, RunInv, InFlight, StatusOf, ThreadAfter, GraphAction, Verdicts
    <3> QED  BY <1>0, <2>1, <2>2, <3>1, OutcomeShows
  <2>3. CASE row'[s] # "executed"
    <3>1. row'[s] # "dismissed"
      BY <1>0, <1>5, <2>1 DEF FinalCommit, RunInv, StatusOf
    <3>2. Hidden
      BY <2>1, <2>3, <3>1 DEF Hidden, Verdicts, Published
    <3> QED  BY <3>2, HiddenStutters
  <2> QED  BY <2>2, <2>3
<1>6. CASE \/ Chat(s) \/ ContextFails(s) \/ SelectSnapshot(s) \/ RollBackLog(s)
           \/ AbortNotify(s) \/ LoseNotice(s) \/ FailFinalCommit(s)
  <2>1. UNCHANGED <<row, thread, acted, consent>>
    BY <1>6 DEF Chat, ContextFails, SelectSnapshot, RollBackLog, AbortNotify, LoseNotice,
                FailFinalCommit, database, outside
  <2>2. Hidden
    BY <2>1 DEF Hidden, Verdicts, Published
  <2> QED  BY <2>2, HiddenStutters
<1> QED
  BY <1>1, <1>2, <1>3, <1>4, <1>5, <1>6 DEF WorkerStep, WorkerFault

(* A callback shows the human's decision when the graph has taken it, the outcome
   it writes, and its delivery. *)
LEMMA CallShows ==
  ASSUME Shape, EveryApprovalIsPermitted, GateInv,
         NEW c \in Callers, CallStep(c) \/ CallFault(c)
  PROVE  [Gate!Next]_Gate!vars
<1>1. call[c].pc # "idle"
  BY DEF CallStep, CallFault, LoadCheckpoint, FinishResume, FailResume, SelectLog,
         CommitResumeLog, RollBackResumeLog, CommitVerdict, FailVerdict, Dispatch, LoseAction
<1> PICK s \in Signals : s = call[c].signal
  BY <1>1, CallTyped DEF Shape
<1>0. /\ row \in [Signals -> RowStatus] /\ thread \in [Signals -> ThreadState]
      /\ acted \in [Signals -> Nat] /\ call[c] \in CallRec /\ call[c].signal = s
      /\ acted[s] = 0 /\ CallInv(c) /\ RecordInv(s)
      /\ call[c].decision \in consent[s]
  BY <1>1, CallTyped DEF Shape, TypeOK, GateInv, CallInv, EveryApprovalIsPermitted
<1>2. CASE FinishResume(c) \/ FailResume(c)
  <2>1. /\ UNCHANGED <<row, acted, consent>>
        /\ call[c].loaded = thread[s] /\ row[s] = "pending_approval"
        /\ \/ thread' = thread
           \/ /\ thread[s] = "paused"
              /\ thread' = [thread EXCEPT ![s] =
                              IF call[c].decision THEN "approved" ELSE "rejected"]
    BY <1>0, <1>1, <1>2 DEF FinishResume, FailResume, CallInv, Verdict, database, outside
  <2>2. CASE thread' = thread
    <3>1. Hidden
      BY <2>1, <2>2 DEF Hidden, Verdicts, Published
    <3> QED  BY <3>1, HiddenStutters
  <2>3. CASE thread' # thread
    <3>1. /\ \A t \in Signals : t # s => Verdicts(t)' = Verdicts(t)
          /\ Verdicts(s) = "waiting"
          /\ Verdicts(s)' = IF call[c].decision THEN "granted" ELSE "refused"
      BY <1>0, <2>1, <2>3 DEF Verdicts
    <3>2. call[c].decision \in BOOLEAN
      BY <1>0 DEF CallRec
    <3> QED  BY <1>0, <2>1, <3>1, <3>2, VerdictShows
  <2> QED  BY <2>2, <2>3
<1>3. CASE CommitVerdict(c)
  <2>1. /\ UNCHANGED <<thread, acted, consent>> /\ Published(s) = "none"
        /\ \A t \in Signals : t # s => row'[t] = row[t]
        /\ row'[s] = Outcome(call[c].result) /\ row[s] = "pending_approval"
    BY <1>0, <1>1, <1>3 DEF CommitVerdict, CallInv, Published, outside
  <2>2. \/ row'[s] = "executed" /\ Verdicts(s) = "granted"
        \/ row'[s] = "dismissed" /\ Verdicts(s) # "open" /\ acted[s] = 0
    BY <1>0, <1>1, <2>1 DEF CallInv, RecordInv, Outcome, Approved, Verdicts
  <2> QED  BY <1>0, <2>1, <2>2, OutcomeShows
<1>4. CASE Dispatch(c)
  <2>1. UNCHANGED <<row, thread, consent>>
    BY <1>4 DEF Dispatch, database
  <2>2. CASE SendsAction(call[c])
    <3>1. acted' = [acted EXCEPT ![s] = 1]
      <4>1. acted' = [acted EXCEPT ![s] = acted[s] + 1]
        BY <1>0, <1>4, <2>2 DEF Dispatch
      <4> QED  BY <1>0, <4>1
    <3>2. Verdicts(s) = "granted" /\ Published(s) # "dismissed"
      BY <1>0, <1>1, <1>4, <2>2
      DEF Dispatch, CallInv, SendsAction, Outcome, Approved, Verdicts, Published
    <3> QED  BY <1>0, <2>1, <3>1, <3>2, ActionShows
  <2>3. CASE ~SendsAction(call[c])
    <3>1. Hidden
      BY <1>0, <1>4, <2>1, <2>3 DEF Dispatch, Hidden, Verdicts, Published
    <3> QED  BY <3>1, HiddenStutters
  <2> QED  BY <2>2, <2>3
<1>5. CASE \/ LoadCheckpoint(c) \/ SelectLog(c) \/ CommitResumeLog(c)
           \/ RollBackResumeLog(c) \/ FailVerdict(c) \/ LoseAction(c)
  <2>1. UNCHANGED <<row, thread, acted, consent>>
    BY <1>5 DEF LoadCheckpoint, SelectLog, CommitResumeLog, RollBackResumeLog, FailVerdict,
                LoseAction, database, outside
  <2>2. Hidden
    BY <2>1 DEF Hidden, Verdicts, Published
  <2> QED  BY <2>2, HiddenStutters
<1> QED
  BY <1>2, <1>3, <1>4, <1>5 DEF CallStep, CallFault

(* The pipeline implements the gate: with a durable checkpointer, and callbacks of
   one signal that do not overlap, everything the sessions, rollbacks, webhooks and
   crashes of SignalPipeline show of a signal is a behaviour of ApprovalGate. *)
THEOREM PipelineImplementsGate ==
  ASSUME Durable
  PROVE  Spec /\ []NoOverlap => ImplementsGate
<1>1. Init => Gate!Init
  BY DEF Init, Gate!Init
<1>2. Shape /\ EveryApprovalIsPermitted /\ GateInv /\ [Next]_vars => [Gate!Next]_Gate!vars
  <2> SUFFICES ASSUME Shape, EveryApprovalIsPermitted, GateInv, [Next]_vars
               PROVE  [Gate!Next]_Gate!vars
    OBVIOUS
  <2>1. CASE \E s \in Signals :
               Ingest(s) \/ Chat(s) \/ WorkerStep(s) \/ WorkerFault(s)
    BY <2>1, WorkerShows
  <2>2. CASE \E c \in Callers : CallStep(c) \/ CallFault(c)
    BY <2>2, CallShows
  <2>3. CASE \E s \in Signals, c \in Callers, d \in BOOLEAN : Accept(c, s, d)
    <3> PICK s \in Signals, c \in Callers, d \in BOOLEAN : Accept(c, s, d)
      BY <2>3
    <3>1. /\ consent' = [consent EXCEPT ![s] = @ \cup {d}]
          /\ UNCHANGED <<thread, row, acted>>
      BY DEF Accept, database
    <3>2. Verdicts(s) # "open"
      BY DEF Accept, Resumable, GateInv, RecordInv, Verdicts
    <3> QED  BY <3>1, <3>2, AnswerShows
  <2>4. CASE \/ \E s \in Signals : TurnAway(s) \/ DeleteLog(s)
             \/ OtherRunCommits \/ Crash \/ UNCHANGED vars
    <3>1. UNCHANGED <<row, thread, acted, consent>>
      BY <2>4 DEF TurnAway, DeleteLog, OtherRunCommits, Crash, vars, database, outside
    <3>2. Hidden
      BY <3>1 DEF Hidden, Verdicts, Published
    <3> QED  BY <3>2, HiddenStutters
  <2> QED  BY <2>1, <2>2, <2>3, <2>4 DEF Next
<1> QED
  BY <1>1, <1>2, GateInvariant, ShapeInvariant, ApprovalsArePermitted, PTL
  DEF Spec, ImplementsGate, Gate!Spec

=============================================================================
