--------------------------- MODULE SignalPipeline ---------------------------
(***************************************************************************)
(* The life of a monitor signal: ingestion or chat request, the monitor    *)
(* graph and its checkpoint, the DecisionLog and ContextSnapshot rows, the *)
(* n8n webhooks and the human approval callback.                           *)
(*                                                                         *)
(* A handler is split where the code awaits with something other tasks can *)
(* read already changed: between two statements of the database, the       *)
(* checkpointer or the webhook. row, logs and snapshot are COMMITTED data, *)
(* thread is what the checkpointer holds; worker and call are the locals   *)
(* of running tasks, which a crash forgets.                                *)
(***************************************************************************)
EXTENDS Naturals, Sequences, FiniteSets

CONSTANTS
  Signals,        \* rows of the signals table
  Callers,        \* POST /approve requests that may be in flight at once
  Faults,         \* what may go wrong, a subset of FaultKinds
  Durable,        \* TRUE: Postgres checkpointer, FALSE: the MemorySaver fallback
  SnapshotKnown,  \* TRUE: the context commit was recorded by an earlier run
  MaxLogs         \* bound: no DecisionLog is deleted once a thread has had so many

FaultKinds == {"crash", "db", "graph", "context", "webhook", "delete"}

ASSUME SignalAssumption ==
  /\ Faults \subseteq FaultKinds
  /\ Durable \in BOOLEAN
  /\ SnapshotKnown \in BOOLEAN
  /\ MaxLogs \in Nat

VARIABLES
  row,         \* [Signals -> status]: the committed Signal.status
  thread,      \* [Signals -> state]: the LangGraph thread in the checkpointer
  logs,        \* [Signals -> Seq(status)]: DecisionLog rows, a deleted one leaves its slot
  snapshot,    \* is the ContextSnapshot row of the current commit there
  worker,      \* [Signals -> record]: the task that runs the monitor graph
  call,        \* [Callers -> record]: the approval callbacks being served
  asked,       \* signals whose approval.required webhook reached n8n
  acted,       \* [Signals -> Nat]: action.execute webhooks that reached n8n
  consent,     \* [Signals -> set of BOOLEAN]: human answers the API accepted
  turnedAway   \* signals with a callback refused while their graph was paused

vars == <<row, thread, logs, snapshot, worker, call, asked, acted, consent, turnedAway>>

database == <<row, logs, snapshot>>
outside  == <<asked, acted, consent, turnedAway>>

RowStatus == {"none", "queued", "processing", "pending_approval",
              "executed", "dismissed", "ignored", "failed"}
ThreadState == {"none", "paused", "approved", "rejected", "quiet"}
LogStatus == {"succeeded", "failed", "pending_approval", "deleted"}
GraphAction == {"require_approval", "auto_act", "ignore", "unseen"}

WorkerRec ==
  [pc     : {"idle", "run", "select", "commit", "notify", "final", "done"},
   path   : {"api", "chat"},
   action : GraphAction \cup {"none"},     \* "unseen": detect_signal found nothing
   status : {"none", "succeeded", "pending_approval", "failed"},
   saw    : BOOLEAN,                       \* the snapshot was there at the SELECT
   stale  : BOOLEAN]                       \* the session was rolled back

NoWorker == [pc |-> "idle", path |-> "api", action |-> "none", status |-> "none",
             saw |-> FALSE, stale |-> FALSE]

NoCall == [pc |-> "idle"]

CallRec ==
  [pc       : {"load", "resume", "select", "log", "decide", "notify"},
   signal   : Signals,
   decision : BOOLEAN,
   loaded   : ThreadState,                       \* the checkpoint it resumed from
   result   : {"none", "approved", "rejected"},  \* approval in the final state
   status   : {"none", "succeeded", "failed"},
   seen     : Nat,                               \* slot of the row it read, 0: none
   stale    : BOOLEAN]

(* One conjunct per variable: the state has the shape the tables and the
   running tasks have in the code. *)
TypeOK ==
  /\ row \in [Signals -> RowStatus]
  /\ thread \in [Signals -> ThreadState]
  /\ logs \in [Signals -> Seq(LogStatus)]
  /\ snapshot \in BOOLEAN
  /\ worker \in [Signals -> WorkerRec]
  /\ call \in [Callers -> {NoCall} \cup CallRec]
  /\ asked \subseteq Signals
  /\ acted \in [Signals -> Nat]
  /\ consent \in [Signals -> SUBSET BOOLEAN]
  /\ turnedAway \subseteq Signals

Init ==
  /\ row = [s \in Signals |-> "none"]
  /\ thread = [s \in Signals |-> "none"]
  /\ logs = [s \in Signals |-> <<>>]
  /\ snapshot = SnapshotKnown
  /\ worker = [s \in Signals |-> NoWorker]
  /\ call = [c \in Callers |-> NoCall]
  /\ asked = {}
  /\ acted = [s \in Signals |-> 0]
  /\ consent = [s \in Signals |-> {}]
  /\ turnedAway = {}

-----------------------------------------------------------------------------
(* Decisions the code takes from what it has read. *)

(* Mutant: an event no detection rule matched is not recognised as ignored. *)
MutStatusOfUnseen(status, action) ==
  CASE status = "pending_approval" -> "pending_approval"
    [] status = "failed"           -> "failed"
    [] action = "ignore"           -> "ignored"
    [] action = "unseen"           -> "processing"
    [] OTHER                       -> "executed"

(* _sync_signal: the Signal.status a finished run stands for. *)
StatusOf(status, action) ==
  CASE status = "pending_approval"      -> "pending_approval"
    [] status = "failed"                -> "failed"
    [] action \in {"ignore", "unseen"}  -> "ignored"
    [] OTHER                            -> "executed"

(* The checkpoint the monitor graph leaves behind for each chosen action. *)
ThreadAfter(action) ==
  CASE action = "require_approval" -> "paused"
    [] action = "auto_act"         -> "approved"
    [] OTHER                       -> "quiet"

(* Mutant: the status check is dropped, only an unknown signal is refused. *)
MutResumable(s) == row[s] # "none"

(* approve_signal answers 409 (or 404) to everything else. *)
Resumable(s) == row[s] = "pending_approval"

(* Mutant: a finished graph takes a new decision. *)
MutVerdictFresh(loaded, decision) ==
  IF loaded \in {"paused", "approved", "rejected"}
    THEN IF decision THEN "approved" ELSE "rejected"
    ELSE "none"

(* The approval a resumed graph ends with: a paused one takes the caller's
   decision, a finished one replays the decision it already holds. *)
Verdict(loaded, decision) ==
  CASE loaded = "paused" -> IF decision THEN "approved" ELSE "rejected"
    [] loaded \in {"approved", "rejected"} -> loaded
    [] OTHER -> "none"

(* approval.get("approved", False) *)
Approved(result) == result = "approved"

(* Mutants: no approval counts as one; the approval word is written instead of
   a status; a refusal leaves the row as it was. *)
MutOutcomeDefault(result) == IF result # "rejected" THEN "executed" ELSE "dismissed"
MutOutcomeWord(result) == IF result = "approved" THEN "approved" ELSE "dismissed"
MutOutcomeKeeps(result) == IF result = "approved" THEN "executed" ELSE "pending_approval"

(* The Signal.status an approval callback writes. *)
Outcome(result) == IF Approved(result) THEN "executed" ELSE "dismissed"

(* What a chat request has committed for its signal together with the log. *)
ChatProgress == "processing"

(* The commit that carries a new ContextSnapshot violates the UNIQUE
   commit_sha when another run inserted it since the SELECT. *)
SnapshotClash(w) == ~w.saw /\ snapshot

Live(s) == {i \in 1..Len(logs[s]) : logs[s][i] # "deleted"}

-----------------------------------------------------------------------------
(* The task that runs the monitor graph for a signal. *)

(* POST /v1/signals: the row is committed, the graph runs in the background. *)
Ingest(s) ==
  /\ worker[s].pc = "idle"
  /\ row' = [row EXCEPT ![s] = "queued"]
  /\ worker' = [worker EXCEPT ![s] = [NoWorker EXCEPT !.pc = "run", !.path = "api"]]
  /\ UNCHANGED <<thread, logs, snapshot, call, outside>>

(* POST /v1/chat/completions in monitor mode: the row is only flushed. *)
Chat(s) ==
  /\ worker[s].pc = "idle"
  /\ worker' = [worker EXCEPT ![s] = [NoWorker EXCEPT !.pc = "run", !.path = "chat"]]
  /\ UNCHANGED <<database, thread, call, outside>>

(* load_context_for_mode raises before the try block of run_agent_graph. *)
ContextFails(s) ==
  /\ "context" \in Faults
  /\ worker[s].pc = "run"
  /\ worker' = [worker EXCEPT ![s].pc = "done"]
  /\ UNCHANGED <<database, thread, call, outside>>

(* The graph ends, or stops at the interrupt of approve_or_auto_act. *)
RunGraph(s) ==
  /\ worker[s].pc = "run"
  /\ \E a \in GraphAction :
       /\ thread' = [thread EXCEPT ![s] = ThreadAfter(a)]
       /\ worker' = [worker EXCEPT ![s] =
            [@ EXCEPT !.pc = "select", !.action = a,
                      !.status = IF a = "require_approval" THEN "pending_approval"
                                                           ELSE "succeeded"]]
  /\ UNCHANGED <<database, call, outside>>

(* A node, the checkpointer or aget_state raises: the checkpoint may or may
   not have got as far as the decision. *)
FailGraph(s) ==
  /\ "graph" \in Faults
  /\ worker[s].pc = "run"
  /\ \E a \in GraphAction \cup {"none"} :
       /\ thread' = [thread EXCEPT ![s] = IF a = "none" THEN "none" ELSE ThreadAfter(a)]
       /\ worker' = [worker EXCEPT ![s] =
            [@ EXCEPT !.pc = "select", !.action = a, !.status = "failed"]]
  /\ UNCHANGED <<database, call, outside>>

(* ensure_context_snapshot: is this context commit recorded already? *)
SelectSnapshot(s) ==
  /\ worker[s].pc = "select"
  /\ worker' = [worker EXCEPT ![s] = [@ EXCEPT !.pc = "commit", !.saw = snapshot]]
  /\ UNCHANGED <<database, thread, call, outside>>

(* The commit of snapshot and log; a chat signal's INSERT goes with it. *)
CommitLog(s) ==
  /\ worker[s].pc = "commit"
  /\ ~SnapshotClash(worker[s])
  /\ logs' = [logs EXCEPT ![s] = Append(@, worker[s].status)]
  /\ snapshot' = TRUE
  /\ row' = [row EXCEPT ![s] = IF worker[s].path = "chat" THEN ChatProgress ELSE @]
  /\ worker' = [worker EXCEPT ![s].pc = "notify"]
  /\ UNCHANGED <<thread, call, outside>>

(* The same commit refused: everything in the session is rolled back, the
   error is logged, and the run goes on. *)
RollBackLog(s) ==
  /\ worker[s].pc = "commit"
  /\ SnapshotClash(worker[s]) \/ "db" \in Faults
  /\ worker' = [worker EXCEPT ![s] = [@ EXCEPT !.pc = "notify", !.stale = TRUE]]
  /\ UNCHANGED <<database, thread, call, outside>>

(* Mutant: a session that was rolled back goes on as if nothing had happened. *)
MutUnreadable(w) == FALSE

(* _sync_signal and the webhooks read the Signal after the commit. On the api
   path a rollback expired it and the read raises (MissingGreenlet), unless the
   action is "ignore", which reads nothing; a chat signal became transient and
   can still be read. *)
Unreadable(w) ==
  w.stale /\ w.path = "api" /\ ~(w.status = "succeeded" /\ w.action = "ignore")

AbortNotify(s) ==
  /\ worker[s].pc = "notify"
  /\ Unreadable(worker[s])
  /\ worker' = [worker EXCEPT ![s].pc = "done"]
  /\ UNCHANGED <<database, thread, call, outside>>

(* notify_n8n is best effort: a failed POST is logged and forgotten. *)
LoseNotice(s) ==
  /\ "webhook" \in Faults
  /\ worker[s].pc = "notify"
  /\ ~Unreadable(worker[s])
  /\ worker' = [worker EXCEPT ![s].pc = "final"]
  /\ UNCHANGED <<database, thread, call, outside>>

Notify(s) ==
  LET w == worker[s] IN
  /\ w.pc = "notify"
  /\ ~Unreadable(w)
  /\ asked' = IF w.status = "pending_approval" THEN asked \cup {s} ELSE asked
  /\ acted' = [acted EXCEPT ![s] =
       IF w.status = "succeeded" /\ w.action = "auto_act" THEN @ + 1 ELSE @]
  /\ worker' = [worker EXCEPT ![s].pc = "final"]
  /\ UNCHANGED <<database, thread, call, consent, turnedAway>>

(* The commit that publishes the outcome. A failed chat run raises 502 instead,
   and get_db rolls its session back; a chat signal lost in an earlier rollback
   has nothing left to write. *)
PublishesOutcome(w) == w.path = "chat" => ~w.stale /\ w.status # "failed"

FinalCommit(s) ==
  LET w == worker[s] IN
  /\ w.pc = "final"
  /\ row' = [row EXCEPT ![s] =
       IF PublishesOutcome(w) THEN StatusOf(w.status, w.action) ELSE @]
  /\ worker' = [worker EXCEPT ![s].pc = "done"]
  /\ UNCHANGED <<thread, logs, snapshot, call, outside>>

FailFinalCommit(s) ==
  /\ "db" \in Faults
  /\ worker[s].pc = "final"
  /\ worker' = [worker EXCEPT ![s].pc = "done"]
  /\ UNCHANGED <<database, thread, call, outside>>

-----------------------------------------------------------------------------
(* The approval callback, POST /v1/signals/{id}/approve. *)

Step(c, pc) == call' = [call EXCEPT ![c].pc = pc]

(* The status check passes on the committed row; nothing is locked. *)
Accept(c, s, d) ==
  /\ call[c].pc = "idle"
  /\ Resumable(s)
  /\ call' = [call EXCEPT ![c] =
       [pc |-> "load", signal |-> s, decision |-> d, loaded |-> "none",
        result |-> "none", status |-> "none", seen |-> 0, stale |-> FALSE]]
  /\ consent' = [consent EXCEPT ![s] = @ \cup {d}]
  /\ UNCHANGED <<database, thread, worker, asked, acted, turnedAway>>

(* n8n posts back what it was asked and is answered 404 or 409. *)
TurnAway(s) ==
  /\ s \in asked
  /\ ~Resumable(s)
  /\ turnedAway' = IF thread[s] = "paused" THEN turnedAway \cup {s} ELSE turnedAway
  /\ UNCHANGED <<database, thread, worker, call, asked, acted, consent>>

(* graph.ainvoke(Command(resume=...)) reads the checkpoint first ... *)
LoadCheckpoint(c) ==
  /\ call[c].pc = "load"
  /\ call' = [call EXCEPT ![c] =
       [@ EXCEPT !.pc = "resume", !.loaded = thread[call[c].signal]]]
  /\ UNCHANGED <<database, thread, worker, outside>>

(* ... and writes the verdict when the two nodes left have run. With no
   checkpoint at all there is nothing to resume and no approval comes out. *)
FinishResume(c) ==
  LET s == call[c].signal
      v == Verdict(call[c].loaded, call[c].decision)
  IN
  /\ call[c].pc = "resume"
  /\ \E st \in {"succeeded", "failed"} :
       /\ st = "failed" => call[c].loaded = "none"
       /\ call' = [call EXCEPT ![c] =
            [@ EXCEPT !.pc = "select", !.result = v, !.status = st]]
  /\ thread' = [thread EXCEPT ![s] = IF call[c].loaded = "paused" THEN v ELSE @]
  /\ UNCHANGED <<database, worker, outside>>

(* The resumed graph raises, before or after the verdict was checkpointed:
   values = {}, so no approval comes out either. *)
FailResume(c) ==
  LET s == call[c].signal
      v == Verdict(call[c].loaded, call[c].decision)
  IN
  /\ "graph" \in Faults
  /\ call[c].pc = "resume"
  /\ call' = [call EXCEPT ![c] = [@ EXCEPT !.pc = "select", !.status = "failed"]]
  /\ \E late \in BOOLEAN :
       thread' = [thread EXCEPT ![s] =
                    IF late /\ call[c].loaded = "paused" THEN v ELSE @]
  /\ UNCHANGED <<database, worker, outside>>

(* Mutant: the resume never looks for the row of the paused run. *)
MutSelectLog(c) ==
  /\ call[c].pc = "select"
  /\ call' = [call EXCEPT ![c] = [@ EXCEPT !.pc = "log", !.seen = 0]]
  /\ UNCHANGED <<database, thread, worker, outside>>

(* The latest DecisionLog of the thread, if one is left. *)
SelectLog(c) ==
  /\ call[c].pc = "select"
  /\ \E i \in {0} \cup Live(call[c].signal) :
       /\ \A j \in Live(call[c].signal) : j <= i
       /\ call' = [call EXCEPT ![c] = [@ EXCEPT !.pc = "log", !.seen = i]]
  /\ UNCHANGED <<database, thread, worker, outside>>

(* It is updated in place, or a new one is inserted when none was found. *)
CommitResumeLog(c) ==
  LET s == call[c].signal
      i == call[c].seen
  IN
  /\ call[c].pc = "log"
  /\ i = 0 \/ i \in Live(s)
  /\ logs' = [logs EXCEPT ![s] =
       IF i = 0 THEN Append(@, call[c].status)
                ELSE [@ EXCEPT ![i] = call[c].status]]
  /\ Step(c, "decide")
  /\ UNCHANGED <<row, snapshot, thread, worker, outside>>

(* The row read was deleted meanwhile (StaleDataError) or the commit failed:
   the session is rolled back and the callback goes on. *)
RollBackResumeLog(c) ==
  /\ call[c].pc = "log"
  /\ \/ call[c].seen # 0 /\ call[c].seen \notin Live(call[c].signal)
     \/ "db" \in Faults
  /\ call' = [call EXCEPT ![c] = [@ EXCEPT !.pc = "decide", !.stale = TRUE]]
  /\ UNCHANGED <<database, thread, worker, outside>>

(* The outcome is written whatever became of the resume. *)
CommitVerdict(c) ==
  /\ call[c].pc = "decide"
  /\ row' = [row EXCEPT ![call[c].signal] = Outcome(call[c].result)]
  /\ Step(c, "notify")
  /\ UNCHANGED <<thread, logs, snapshot, worker, outside>>

FailVerdict(c) ==
  /\ "db" \in Faults
  /\ call[c].pc = "decide"
  /\ call' = [call EXCEPT ![c] = NoCall]
  /\ UNCHANGED <<database, thread, worker, outside>>

(* Mutants: anything but a refusal is sent; the approval is looked up under the
   wrong key and nothing is sent. *)
MutSendsDefault(w) == w.result # "rejected" /\ ~w.stale
MutSendsNever(w) == FALSE

(* action.execute goes out after the commit. After a rollback the expired
   Signal cannot be read (MissingGreenlet) and nothing is sent; nor is it when
   the webhook fails. *)
SendsAction(w) == Approved(w.result) /\ ~w.stale

Dispatch(c) ==
  /\ call[c].pc = "notify"
  /\ acted' = [acted EXCEPT ![call[c].signal] =
       IF SendsAction(call[c]) THEN @ + 1 ELSE @]
  /\ call' = [call EXCEPT ![c] = NoCall]
  /\ UNCHANGED <<database, thread, worker, asked, consent, turnedAway>>

LoseAction(c) ==
  /\ "webhook" \in Faults
  /\ call[c].pc = "notify"
  /\ call' = [call EXCEPT ![c] = NoCall]
  /\ UNCHANGED <<database, thread, worker, outside>>

-----------------------------------------------------------------------------
(* The rest of the system. *)

(* A run of another mode, or the production startup, records the commit. *)
OtherRunCommits ==
  /\ ~snapshot
  /\ snapshot' = TRUE
  /\ UNCHANGED <<row, logs, thread, worker, call, outside>>

(* DELETE /v1/decisions/{id} *)
DeleteLog(s) ==
  /\ "delete" \in Faults
  /\ Len(logs[s]) < MaxLogs
  /\ \E i \in Live(s) : logs' = [logs EXCEPT ![s][i] = "deleted"]
  /\ UNCHANGED <<row, snapshot, thread, worker, call, outside>>

(* The process dies and is started again: tasks in flight are gone, and so is
   every checkpoint kept in memory. Nothing restarts a signal's run. *)
Crash ==
  /\ "crash" \in Faults
  /\ worker' = [s \in Signals |->
       IF worker[s].pc = "idle" THEN worker[s] ELSE [worker[s] EXCEPT !.pc = "done"]]
  /\ call' = [c \in Callers |-> NoCall]
  /\ thread' = IF Durable THEN thread ELSE [s \in Signals |-> "none"]
  /\ UNCHANGED <<database, outside>>

WorkerStep(s) ==
  \/ RunGraph(s) \/ SelectSnapshot(s) \/ CommitLog(s) \/ RollBackLog(s)
  \/ AbortNotify(s) \/ Notify(s) \/ FinalCommit(s)

CallStep(c) ==
  \/ LoadCheckpoint(c) \/ FinishResume(c) \/ SelectLog(c) \/ CommitResumeLog(c)
  \/ RollBackResumeLog(c) \/ CommitVerdict(c) \/ Dispatch(c)

WorkerFault(s) == ContextFails(s) \/ FailGraph(s) \/ LoseNotice(s) \/ FailFinalCommit(s)

CallFault(c) == FailResume(c) \/ FailVerdict(c) \/ LoseAction(c)

Next ==
  \/ \E s \in Signals :
       \/ Ingest(s) \/ Chat(s)
       \/ WorkerStep(s) \/ WorkerFault(s)
       \/ TurnAway(s) \/ DeleteLog(s)
       \/ \E c \in Callers, d \in BOOLEAN : Accept(c, s, d)
  \/ \E c \in Callers : CallStep(c) \/ CallFault(c)
  \/ OtherRunCommits
  \/ Crash

Spec == Init /\ [][Next]_vars

(* Every started task is scheduled again: the event loop is fair and each await
   in it ends or times out. Nobody has to ingest, to answer or to fail. *)
Fairness ==
  /\ \A s \in Signals : WF_vars(WorkerStep(s))
  /\ \A c \in Callers : WF_vars(CallStep(c))

FairSpec == Spec /\ Fairness

-----------------------------------------------------------------------------
(* Safety. *)

(* Why an action may be executed: the rules allow it or a human said yes. *)
Permitted(s) == worker[s].action = "auto_act" \/ TRUE \in consent[s]

(* No action.execute reaches n8n unless the action matrix said auto_act or the
   API accepted a human's yes for that very signal - whatever fails, crashes or
   is replayed in between (monitor_graph.approve_or_auto_act, approve_signal). *)
ActionNeedsConsent == \A s \in Signals : acted[s] > 0 => Permitted(s)

(* The locals of the running tasks: a graph that has not run has chosen nothing,
   and a run or a resume that reached its log write has a status to write. *)
LocalsOK ==
  /\ \A s \in Signals :
       /\ worker[s].pc \in {"idle", "run"} => worker[s].action = "none"
       /\ worker[s].pc \in {"select", "commit", "notify", "final"} =>
            worker[s].status # "none"
  /\ \A c \in Callers :
       call[c].pc \in {"select", "log", "decide", "notify"} => call[c].status # "none"

(* Wherever an approval is held - by a checkpoint, by the locals of a callback,
   by n8n - somebody entitled to it gave it. This is what makes
   ActionNeedsConsent inductive. *)
EveryApprovalIsPermitted ==
  /\ \A s \in Signals : thread[s] = "approved" => Permitted(s)
  /\ \A s \in Signals : acted[s] > 0 => Permitted(s)
  /\ \A c \in Callers :
       call[c].pc # "idle" =>
         /\ call[c].decision \in consent[call[c].signal]
         /\ call[c].loaded = "approved" => Permitted(call[c].signal)
         /\ call[c].result = "approved" => Permitted(call[c].signal)

ConsentInv == TypeOK /\ LocalsOK /\ EveryApprovalIsPermitted

(* action.execute is delivered at most once per signal: the worker and the
   callback never both send it, and no retried callback sends it again. *)
ActionAtMostOnce == \A s \in Signals : acted[s] <= 1

(* A signal whose action was delivered is never shown as dismissed. *)
DismissedNeverActed ==
  \A s \in Signals : row[s] = "dismissed" => acted[s] = 0

(* A signal is shown as executed only if the graph in the checkpointer holds
   the approval, however the three writes were separated by failures. *)
ExecutedMatchesGraph ==
  \A s \in Signals : row[s] = "executed" => thread[s] = "approved"

(* A human can only ever be asked about a signal whose run reached the audit
   log and whose graph can still be resumed: a rollback of the log write must
   not leave a pending row behind. *)
PendingIsBacked ==
  \A s \in Signals :
    Resumable(s) => thread[s] \in {"paused", "approved", "rejected"} /\ logs[s] # <<>>

(* "Every agent run writes exactly one DecisionLog row", and a resumed one
   updates that row instead of adding another. *)
AuditedOnce ==
  \A s \in Signals :
    worker[s].pc \in {"notify", "final", "done"} => Cardinality(Live(s)) = 1

(* n8n never has its callback refused while the graph is paused for it. *)
NoCallbackTurnedAway == turnedAway = {}

(* executed and dismissed are final: no later write of the worker or of a
   second callback changes them. *)
OutcomeIsFinal ==
  [][\A s \in Signals : row[s] \in {"executed", "dismissed"} => row'[s] = row[s]]_vars

-----------------------------------------------------------------------------
(* Liveness. *)

(* Every signal taken in comes to rest: at an outcome, or with a human. *)
EverySignalSettles ==
  \A s \in Signals :
    worker[s].pc = "run" ~>
      row[s] \in {"pending_approval", "executed", "dismissed", "ignored", "failed"}

(* Every approval the graph holds is carried out, even when several answers
   were accepted at once and overwrote each other. *)
ApprovalCarriedOut ==
  \A s \in Signals : thread[s] = "approved" ~> acted[s] > 0

(* Every accepted answer brings its signal to a final outcome. *)
EveryAnswerDecides ==
  \A s \in Signals :
    consent[s] # {} ~> [](row[s] \in {"executed", "dismissed"})

-----------------------------------------------------------------------------
(* Refinement of the approval gate. *)

Gate == INSTANCE ApprovalGate WITH
  verdict   <- [s \in Signals |->
                 CASE thread[s] = "paused"   -> "waiting"
                   [] thread[s] = "approved" -> "granted"
                   [] thread[s] = "rejected" -> "refused"
                   [] OTHER                  -> "open"],
  published <- [s \in Signals |->
                 IF row[s] \in {"executed", "dismissed"} THEN row[s] ELSE "none"]

(* With a durable checkpointer and one callback at a time, sessions, rollbacks,
   webhooks and crashes implement the gate. *)
ImplementsGate == Gate!Spec
=============================================================================
