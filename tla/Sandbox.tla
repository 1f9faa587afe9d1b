------------------------------ MODULE Sandbox ------------------------------
(***************************************************************************)
(* DockerSandbox.run: one disposable container per call. The Docker daemon *)
(* may refuse any request, the program in the container ends whenever it   *)
(* likes, also while run() has given up waiting for it.                    *)
(***************************************************************************)
EXTENDS Naturals

VARIABLES
  phase,      \* the next statement of run(), or "idle" between calls
  container,  \* the daemon's view of this call's container
  handle,     \* run()'s local variable `container` is bound
  timedOut,   \* the local variable timed_out
  verdict,    \* how the last call returned: "none" before it does
  orphans     \* containers of earlier calls that the daemon still holds

Phases == {"idle", "create", "inject", "start", "wait", "kill", "logs", "remove"}

(* "raised" is an exception that is not a DockerException (a dropped
   connection): it leaves run() through the finally block. *)
Verdicts == {"none", "success", "failure", "raised"}

TypeOK ==
  /\ phase \in Phases
  /\ container \in {"none", "created", "running", "exited ok", "exited error"}
  /\ handle \in BOOLEAN
  /\ timedOut \in BOOLEAN
  /\ verdict \in Verdicts
  /\ orphans \in Nat

Init ==
  /\ phase = "idle" /\ container = "none" /\ handle = FALSE
  /\ timedOut = FALSE /\ verdict = "none" /\ orphans = 0

Run ==
  /\ phase' = "create" /\ container' = "none" /\ handle' = FALSE
  /\ timedOut' = FALSE /\ verdict' = "none"
  /\ UNCHANGED orphans

(* What the except and finally clauses make of an error: DockerException is
   turned into a result, anything else propagates. *)
Fails(next) ==
  /\ verdict' \in {"failure", "raised"}
  /\ phase' = next

(* containers.create *)
Create ==
  /\ phase = "create"
  /\ \/ container' = "created" /\ phase' = "inject" /\ UNCHANGED verdict
     \/ Fails("idle") /\ UNCHANGED container
  /\ UNCHANGED <<handle, timedOut, orphans>>

(* put_archive, still inside _create_container: if it fails, the container
   exists but `container` is unbound, and the finally block skips it. *)
Inject ==
  /\ phase = "inject"
  /\ \/ handle' = TRUE /\ phase' = "start" /\ UNCHANGED <<container, verdict, orphans>>
     \/ /\ Fails("idle")
        /\ container' = "none" /\ orphans' = orphans + 1
        /\ UNCHANGED handle
  /\ UNCHANGED timedOut

(* A dropped connection does not tell whether the program was started. *)
Start ==
  /\ phase = "start"
  /\ \/ container' = "running" /\ phase' = "wait" /\ UNCHANGED verdict
     \/ Fails("remove") /\ container' \in {"created", "running"}
  /\ UNCHANGED <<handle, timedOut, orphans>>

(* The program ends by itself. *)
ProgramEnds ==
  /\ container = "running"
  /\ container' \in {"exited ok", "exited error"}
  /\ UNCHANGED <<phase, handle, timedOut, verdict, orphans>>

(* wait() returns the status, or times out or loses its connection, also in
   the moment the program ends. *)
Wait ==
  /\ phase = "wait"
  /\ \/ container # "running" /\ phase' = "logs" /\ UNCHANGED timedOut
     \/ timedOut' = TRUE /\ phase' = "kill"
  /\ UNCHANGED <<container, handle, verdict, orphans>>

(* An APIError means the program is already dead, and is passed over. *)
Kill ==
  /\ phase = "kill"
  /\ \/ /\ container' = IF container = "running" THEN "exited error" ELSE container
        /\ phase' = "logs" /\ UNCHANGED verdict
     \/ phase' = "logs" /\ UNCHANGED <<container, verdict>>
     \/ verdict' = "raised" /\ phase' = "remove" /\ UNCHANGED container
  /\ UNCHANGED <<handle, timedOut, orphans>>

(* The logs are read and the result is made: only an exit code of zero, in
   time, is a success. *)
Logs ==
  /\ phase = "logs"
  /\ \/ /\ verdict' = IF container = "exited ok" /\ ~timedOut THEN "success" ELSE "failure"
        /\ phase' = "remove"
     \/ Fails("remove")
  /\ UNCHANGED <<container, handle, timedOut, orphans>>

(* The finally block; a refused removal is logged and the result stands. *)
Remove ==
  /\ phase = "remove"
  /\ \/ orphans' = orphans /\ UNCHANGED verdict
     \/ orphans' = orphans + 1 /\ verdict' \in {verdict, "raised"}
  /\ container' = "none" /\ handle' = FALSE /\ phase' = "idle"
  /\ UNCHANGED timedOut

RunStep == Create \/ Inject \/ Start \/ Wait \/ Kill \/ Logs \/ Remove

-----------------------------------------------------------------------------
(* "The container is always removed in the finally block, even if the timeout
   fires or an unexpected exception propagates." *)
AlwaysRemoved == phase = "idle" => orphans = 0
=============================================================================
