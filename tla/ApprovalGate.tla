---------------------------- MODULE ApprovalGate ----------------------------
(***************************************************************************)
(* What the monitor agent promises about every signal, whatever sessions,  *)
(* checkpoints, webhooks and crashes lie underneath:                       *)
(*                                                                         *)
(*   - the graph's verdict on the action is taken once and never changes;  *)
(*   - it is "granted" only by the rules (auto_act) or by a human's yes;   *)
(*   - the action is dispatched only when granted, and at most once;       *)
(*   - the outcome published in the signal table is final, is "executed"   *)
(*     only for a granted action and is never "dismissed" for an action    *)
(*     that was, or ever will be, dispatched.                              *)
(*                                                                         *)
(* SignalPipeline, the detailed specification, is shown to implement it    *)
(* when the approval callbacks of one signal do not overlap.               *)
(***************************************************************************)
EXTENDS Naturals

CONSTANT Signals

VARIABLES
  verdict,    \* the decision held by the paused or finished graph
  published,  \* the outcome readable in the signal table
  acted,      \* deliveries of the action.execute webhook
  consent     \* the answers humans have given so far

vars == <<verdict, published, acted, consent>>

Init ==
  /\ verdict   = [s \in Signals |-> "open"]
  /\ published = [s \in Signals |-> "none"]
  /\ acted     = [s \in Signals |-> 0]
  /\ consent   = [s \in Signals |-> {}]

Ask(s) ==
  /\ verdict[s] = "open"
  /\ verdict' = [verdict EXCEPT ![s] = "waiting"]
  /\ UNCHANGED <<published, acted, consent>>

AutoGrant(s) ==
  /\ verdict[s] = "open"
  /\ verdict' = [verdict EXCEPT ![s] = "granted"]
  /\ UNCHANGED <<published, acted, consent>>

Answer(s, d) ==
  /\ verdict[s] # "open"
  /\ consent' = [consent EXCEPT ![s] = @ \cup {d}]
  /\ UNCHANGED <<verdict, published, acted>>

Settle(s, d) ==
  /\ verdict[s] = "waiting"
  /\ d \in consent[s]
  /\ verdict' = [verdict EXCEPT ![s] = IF d THEN "granted" ELSE "refused"]
  /\ UNCHANGED <<published, acted, consent>>

PublishExecuted(s) ==
  /\ published[s] = "none"
  /\ verdict[s] = "granted"
  /\ published' = [published EXCEPT ![s] = "executed"]
  /\ UNCHANGED <<verdict, acted, consent>>

PublishDismissed(s) ==
  /\ published[s] = "none"
  /\ verdict[s] # "open"
  /\ acted[s] = 0
  /\ published' = [published EXCEPT ![s] = "dismissed"]
  /\ UNCHANGED <<verdict, acted, consent>>

Act(s) ==
  /\ verdict[s] = "granted"
  /\ published[s] # "dismissed"
  /\ acted[s] = 0
  /\ acted' = [acted EXCEPT ![s] = 1]
  /\ UNCHANGED <<verdict, published, consent>>

Next ==
  \E s \in Signals :
    \/ Ask(s) \/ AutoGrant(s) \/ PublishExecuted(s) \/ PublishDismissed(s) \/ Act(s)
    \/ \E d \in BOOLEAN : Answer(s, d) \/ Settle(s, d)

Spec == Init /\ [][Next]_vars
=============================================================================
