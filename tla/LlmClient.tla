------------------------------- MODULE LlmClient -------------------------------
(***************************************************************************)
(* LiteLLMClient.chat: attempts at a completion until one answers or the   *)
(* retries are spent (clients/litellm_client.py).                          *)
(***************************************************************************)
EXTENDS Integers, Sequences

CONSTANT MaxRetries   \* the values max_retries may have

LlmClientAssumption == MaxRetries \subseteq Nat

VARIABLES
  pc,          \* "post", "waiting", "backoff", or how chat() ended
  max_retries, \* of the client
  attempt,     \* the loop variable
  responses,   \* history: what came back for the attempts so far
  delay,       \* seconds slept before this attempt
  usage        \* completions recorded by record_llm_call

vars == <<pc, max_retries, attempt, responses, delay, usage>>

\* transport: a connection or read timeout, or the connection was lost
Responses == {"ok", "unreadable", "4xx", "5xx", "transport"}
Ended == {"answered", "LLMError", "raised"}

TypeOK ==
  /\ pc \in {"post", "waiting", "backoff"} \cup Ended
  /\ max_retries \in MaxRetries
  /\ attempt \in 0..max_retries
  /\ responses \in Seq(Responses)
  /\ Len(responses) = attempt + (IF pc \in {"post", "waiting"} THEN 0 ELSE 1)
  /\ delay \in 0..8
  /\ usage \in {0, 1}

Init ==
  /\ pc = "post" /\ max_retries \in MaxRetries
  /\ attempt = 0 /\ responses = <<>> /\ delay = 0 /\ usage = 0

-----------------------------------------------------------------------------
(* raise_for_status and the test before it make every status from 400 up an
   HTTPStatusError, and that is caught together with TransportError. *)
Caught == {"4xx", "5xx", "transport"}

(* Mutant: one retry more than allowed. *)
MutOneMore == attempt <= max_retries

RetriesLeft == attempt < max_retries

Post == pc = "post" /\ pc' = "waiting" /\ UNCHANGED <<max_retries, attempt, responses, delay, usage>>

Answered ==
  /\ pc = "waiting"
  /\ responses' = Append(responses, "ok")
  /\ usage' = 1 /\ pc' = "answered"
  /\ UNCHANGED <<max_retries, attempt, delay>>

(* _parse_response raises on a body that is no completion: that is not caught,
   not retried, and no LLMError. *)
Unreadable ==
  /\ pc = "waiting"
  /\ responses' = Append(responses, "unreadable")
  /\ pc' = "raised"
  /\ UNCHANGED <<max_retries, attempt, delay, usage>>

AttemptFails ==
  /\ pc = "waiting"
  /\ \E r \in Caught : responses' = Append(responses, r)
  /\ pc' = IF RetriesLeft THEN "backoff" ELSE "LLMError"
  /\ UNCHANGED <<max_retries, attempt, delay, usage>>

(* min(2 ** attempt, 8) *)
Backoff(n) == IF n > 3 THEN 8 ELSE 2^n

Sleep ==
  /\ pc = "backoff"
  /\ delay' = Backoff(attempt)
  /\ attempt' = attempt + 1
  /\ pc' = "post"
  /\ UNCHANGED <<max_retries, responses, usage>>

Next == Post \/ Answered \/ Unreadable \/ AttemptFails \/ Sleep

Spec == Init /\ [][Next]_vars

(* A sleep ends, and httpx gives up on a connection that is silent. *)
FairSpec == Spec /\ WF_vars(Next)

-----------------------------------------------------------------------------
Call == INSTANCE LlmCall WITH
  Limits <- {n + 1 : n \in MaxRetries},
  limit <- max_retries + 1,
  sent <- Len(responses) + (IF pc = "waiting" THEN 1 ELSE 0),
  outcome <- CASE pc = "answered" -> "answered"
               [] pc \in {"LLMError", "raised"} -> "failed"
               [] OTHER -> "open",
  recorded <- usage

(* The client keeps the promise of a call, its end included. *)
KeepsPromise == Call!Spec

=============================================================================
