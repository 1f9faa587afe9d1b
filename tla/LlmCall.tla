-------------------------------- MODULE LlmCall --------------------------------
(***************************************************************************)
(* What the agents count on when they call the LLM: a number of requests   *)
(* that is known before, one end, nothing sent or recorded after it, and   *)
(* usage recorded for an answer only.                                      *)
(***************************************************************************)
EXTENDS Integers

CONSTANT Limits    \* how many requests a call may be allowed

VARIABLES limit, sent, outcome, recorded

vars == <<limit, sent, outcome, recorded>>

Init == limit \in Limits /\ sent = 0 /\ outcome = "open" /\ recorded = 0

Send ==
  /\ outcome = "open" /\ sent < limit
  /\ sent' = sent + 1
  /\ UNCHANGED <<limit, outcome, recorded>>

Answer ==
  /\ outcome = "open" /\ sent > 0
  /\ outcome' = "answered" /\ recorded' = 1
  /\ UNCHANGED <<limit, sent>>

Fail ==
  /\ outcome = "open" /\ sent > 0
  /\ outcome' = "failed"
  /\ UNCHANGED <<limit, sent, recorded>>

Safe == Init /\ [][Send \/ Answer \/ Fail]_vars
Live == <>(outcome # "open")

Spec == Safe /\ Live
=============================================================================
