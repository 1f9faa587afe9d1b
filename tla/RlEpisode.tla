----------------------------- MODULE RlEpisode -----------------------------
(***************************************************************************)
(* run_training_loop driving DataAnalystEnv: episodes drawn round-robin,   *)
(* steps whose action may be malformed, rejected, run as SQL or run in the *)
(* sandbox, and one iteration of the EDA nodes for each action that ran.   *)
(* Questions, rows and texts are abstracted away; a hypothesis is judged   *)
(* or pending, a query is the hypothesis it was written for (0: none).     *)
(***************************************************************************)
EXTENDS Integers, Sequences

CONSTANTS
  Episodes,        \* Seq(BOOLEAN): for each training episode, has it a hypothesis?
  NumEpisodes,     \* num_episodes of the training loop
  MaxSteps,        \* max_steps of the environment
  MaxIterations    \* _DEFAULT_MAX_STEPS, the max_iterations of the analysis

ASSUME EpisodeAssumption ==
  /\ Episodes \in Seq(BOOLEAN) /\ Len(Episodes) > 0
  /\ NumEpisodes \in Nat /\ MaxSteps \in Nat
  /\ MaxIterations \in Nat \ {0}

VARIABLES
  phase, container, handle, timedOut, verdict, orphans,   \* the sandbox
  pc,            \* "reset", "act", "sandbox", "iterate", "decide", "done", "aborted"
  episodeIdx,    \* the round-robin pointer
  episode,       \* _current_episode, as an index of Episodes
  steps,         \* _step_count
  analysis,      \* _analysis_state
  error,         \* exec_error of the current step
  terminated,    \* the flags of the last step
  truncated,
  trajectories   \* Seq of [episode, steps]: what the loop has collected

Box == INSTANCE Sandbox

envVars == <<pc, episodeIdx, episode, steps, analysis, error, terminated, truncated, trajectories>>
boxVars == <<phase, container, handle, timedOut, verdict, orphans>>
vars == <<envVars, boxVars>>

(* The number of steps an episode can take: even a budget of zero is only
   looked at after a step. *)
StepBudget == IF MaxSteps = 0 THEN 1 ELSE MaxSteps

Analysis ==
  [hyps : Seq({"pending", "judged"}), queries : Seq(Nat),
   iteration : 0..MaxIterations, complete : BOOLEAN]

(* The state has the shape the environment gives it. *)
TypeOK ==
  /\ Box!TypeOK
  /\ pc \in {"reset", "act", "sandbox", "iterate", "decide", "done", "aborted"}
  /\ episodeIdx \in 0..NumEpisodes
  /\ episode \in 0..Len(Episodes)
  /\ steps \in 0..StepBudget
  /\ analysis \in Analysis
  /\ error \in BOOLEAN /\ terminated \in BOOLEAN /\ truncated \in BOOLEAN
  /\ trajectories \in Seq([episode : 1..Len(Episodes), steps : 1..StepBudget])

InitialAnalysis(withHypothesis) ==
  [hyps |-> IF withHypothesis THEN <<"pending">> ELSE <<>>,
   queries |-> <<>>, iteration |-> 0, complete |-> FALSE]

Init ==
  /\ Box!Init
  /\ pc = "reset" /\ episodeIdx = 0 /\ episode = 0 /\ steps = 0
  /\ analysis = InitialAnalysis(FALSE)
  /\ error = FALSE /\ terminated = FALSE /\ truncated = FALSE
  /\ trajectories = <<>>

-----------------------------------------------------------------------------
Pending(a) == {i \in 1..Len(a.hyps) : a.hyps[i] = "pending"}

(* pending[0], or 0 *)
FirstPending(a) ==
  IF Pending(a) = {} THEN 0 ELSE CHOOSE i \in Pending(a) : \A j \in Pending(a) : i <= j

(* The executed action, registered as a query of the first pending hypothesis. *)
Register(a) == [a EXCEPT !.queries = Append(@, FirstPending(a))]

(* evaluate_hypothesis on the first pending hypothesis: judged, and perhaps
   refined into a new one; nothing when none is pending. *)
Evaluations(a) ==
  LET i == FirstPending(a) IN
  IF i = 0 THEN {a}
  ELSE LET judged == [a EXCEPT !.hyps[i] = "judged"] IN
       {judged, [judged EXCEPT !.hyps = Append(@, "pending")]}

(* decide_next_step; web research is never asked for here, so that it answers
   "finalize" exactly when it completes the analysis. *)
DecideNextStep(a) ==
  [a EXCEPT !.iteration = @ + 1,
            !.complete = a.iteration + 1 >= MaxIterations \/ Pending(a) = {}]

OutOfSteps(n) == n >= MaxSteps

(* The episode at the round-robin pointer. *)
Drawn(idx) == (idx % Len(Episodes)) + 1

-----------------------------------------------------------------------------
(* env.reset() at the top of the training loop, or its end. *)
Reset ==
  /\ pc = "reset" /\ Len(trajectories) < NumEpisodes
  /\ episode' = Drawn(episodeIdx)
  /\ episodeIdx' = episodeIdx + 1
  /\ steps' = 0
  /\ analysis' = InitialAnalysis(Episodes[episode'])
  /\ terminated' = FALSE /\ truncated' = FALSE /\ error' = FALSE
  /\ pc' = "act"
  /\ UNCHANGED <<trajectories, boxVars>>

Finish ==
  /\ pc = "reset" /\ Len(trajectories) = NumEpisodes
  /\ pc' = "done"
  /\ UNCHANGED <<episodeIdx, episode, steps, analysis, error, terminated, truncated,
                 trajectories, boxVars>>

(* Malformed JSON returns early: neither terminated nor iterated. *)
MalformedAction ==
  /\ pc = "act"
  /\ steps' = steps + 1
  /\ error' = TRUE /\ terminated' = FALSE
  /\ truncated' = OutOfSteps(steps')
  /\ pc' = "decide"
  /\ UNCHANGED <<episodeIdx, episode, analysis, trajectories, boxVars>>

(* SQL is validated and run; an unknown action type is an error as well. *)
DirectAction ==
  /\ pc = "act"
  /\ steps' = steps + 1
  /\ error' \in BOOLEAN
  /\ pc' = "iterate"
  /\ UNCHANGED <<episodeIdx, episode, analysis, terminated, truncated, trajectories,
                 boxVars>>

(* JSON whose content is not a string passes the parser, and validate_sql raises
   on it: outside of every try block, so that the training loop is aborted. *)
UntypedAction ==
  /\ pc = "act"
  /\ steps' = steps + 1
  /\ pc' = "aborted"
  /\ UNCHANGED <<episodeIdx, episode, analysis, error, terminated, truncated, trajectories,
                 boxVars>>

PythonAction ==
  /\ pc = "act"
  /\ steps' = steps + 1
  /\ pc' = "sandbox"
  /\ Box!Run
  /\ UNCHANGED <<episodeIdx, episode, analysis, error, terminated, truncated, trajectories>>

SandboxStep ==
  /\ pc = "sandbox"
  /\ Box!RunStep \/ Box!ProgramEnds
  /\ UNCHANGED envVars

(* Mutant: what is not a DockerException is swallowed, and its result waited for. *)
MutSandboxReturns ==
  /\ pc = "sandbox" /\ phase = "idle" /\ verdict # "none"
  /\ error' = (verdict # "success")
  /\ pc' = IF verdict = "raised" THEN "sandbox" ELSE "iterate"
  /\ UNCHANGED <<episodeIdx, episode, steps, analysis, terminated, truncated, trajectories,
                 boxVars>>

(* run() returns; what is not a DockerException aborts the training loop, whose
   trajectories are lost with it. *)
SandboxReturns ==
  /\ pc = "sandbox" /\ phase = "idle" /\ verdict # "none"
  /\ error' = (verdict # "success")
  /\ pc' = IF verdict = "raised" THEN "aborted" ELSE "iterate"
  /\ UNCHANGED <<episodeIdx, episode, steps, analysis, terminated, truncated, trajectories,
                 boxVars>>

SkipIteration ==
  /\ pc = "iterate" /\ error
  /\ terminated' = FALSE
  /\ truncated' = OutOfSteps(steps)
  /\ pc' = "decide"
  /\ UNCHANGED <<episodeIdx, episode, steps, analysis, error, trajectories, boxVars>>

(* Mutant: the last step is truncated even if it completes the analysis. *)
MutIterate ==
  /\ pc = "iterate" /\ ~error
  /\ \E a \in Evaluations(Register(analysis)) :
       /\ analysis' = DecideNextStep(a)
       /\ terminated' = analysis'.complete
  /\ truncated' = OutOfSteps(steps)
  /\ pc' = "decide"
  /\ UNCHANGED <<episodeIdx, episode, steps, error, trajectories, boxVars>>

(* One iteration over the action that ran. *)
Iterate ==
  /\ pc = "iterate" /\ ~error
  /\ \E a \in Evaluations(Register(analysis)) :
       /\ analysis' = DecideNextStep(a)
       /\ terminated' = analysis'.complete
  /\ truncated' = (OutOfSteps(steps) /\ ~terminated')
  /\ pc' = "decide"
  /\ UNCHANGED <<episodeIdx, episode, steps, error, trajectories, boxVars>>

(* Mutant: the iteration is counted although it judged nothing. *)
MutIterationFails ==
  /\ pc = "iterate" /\ ~error
  /\ Pending(analysis) # {}
  /\ analysis' = [Register(analysis) EXCEPT !.iteration = @ + 1]
  /\ error' = TRUE
  /\ terminated' = FALSE
  /\ truncated' = OutOfSteps(steps)
  /\ pc' = "decide"
  /\ UNCHANGED <<episodeIdx, episode, steps, trajectories, boxVars>>

(* A node raises (the LLM call of evaluate_hypothesis): an execution error, but
   the registered query stays, as evidence for a later iteration. *)
IterationFails ==
  /\ pc = "iterate" /\ ~error
  /\ Pending(analysis) # {}
  /\ analysis' = Register(analysis)
  /\ error' = TRUE
  /\ terminated' = FALSE
  /\ truncated' = OutOfSteps(steps)
  /\ pc' = "decide"
  /\ UNCHANGED <<episodeIdx, episode, steps, trajectories, boxVars>>

(* `while not (terminated or truncated)` of the training loop. *)
NextStep ==
  /\ pc = "decide"
  /\ IF terminated \/ truncated
     THEN /\ pc' = "reset"
          /\ trajectories' = Append(trajectories, [episode |-> episode, steps |-> steps])
     ELSE pc' = "act" /\ UNCHANGED trajectories
  /\ error' = FALSE
  /\ UNCHANGED <<episodeIdx, episode, steps, analysis, terminated, truncated, boxVars>>

Next ==
  \/ Reset \/ Finish
  \/ MalformedAction \/ DirectAction \/ UntypedAction \/ PythonAction
  \/ SandboxStep \/ SandboxReturns
  \/ SkipIteration \/ Iterate \/ IterationFails
  \/ NextStep

Spec == Init /\ [][Next]_vars

(* The loop is one thread that always continues: the LLM client and the wait
   for a container have timeouts. *)
FairSpec == Spec /\ WF_vars(Next)

-----------------------------------------------------------------------------
(* An episode ends in exactly one way: terminated if and only if the analysis
   completed, truncated if and only if it did not and the steps are spent. *)
OneWayToEnd ==
  pc = "decide" =>
    /\ terminated <=> analysis.complete
    /\ truncated <=> (~terminated /\ steps >= MaxSteps)

(* The verdicts keep pace with the iterations: iteration k judged hypothesis k
   on a query registered for it, and no other hypothesis is judged. Only an
   episode without hypotheses iterates without judging, and then once. A step
   adds at most one query, and an iteration needs one. *)
VerdictsKeepPace ==
  LET judged == {i \in 1..Len(analysis.hyps) : analysis.hyps[i] = "judged"} IN
  /\ analysis.hyps # <<>> => judged = 1..analysis.iteration
  /\ analysis.hyps = <<>> => analysis.iteration <= 1
  /\ \A i \in judged : \E k \in 1..Len(analysis.queries) : analysis.queries[k] = i
  /\ analysis.iteration <= Len(analysis.queries) /\ Len(analysis.queries) <= steps

(* The training loop ends: every question asked, or an exception of a step. *)
TrainingEnds == <>(pc \in {"done", "aborted"})

(* "The container is always removed in the finally block." *)
AlwaysRemoved == Box!AlwaysRemoved
=============================================================================
