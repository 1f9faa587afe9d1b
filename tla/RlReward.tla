------------------------------- MODULE RlReward -------------------------------
(***************************************************************************)
(* What the steps of RlEpisode pay (rl_env/rewards.py), in hundredths, and *)
(* what the training loop adds up for an episode. Every action is one of   *)
(* RlEpisode with the reward that env.step returns with it.                *)
(***************************************************************************)
EXTENDS RlEpisode

CONSTANT Scorers   \* for each training episode, how its answers are scored

(* "sql": exact_sql or execution_match; "field" and "no_field": exact_match
   with and without the field in the expected values; "judge": llm_judge. *)
ScorerKinds == {"sql", "field", "no_field", "judge"}

ASSUME ScorersAssumption ==
  Scorers \in Seq(ScorerKinds) /\ Len(Scorers) = Len(Episodes)

VARIABLES
  action,    \* action_type of the current step
  ran,       \* has the action of the current step been executed without error?
  reward,    \* the reward of the last step
  hits,      \* the steps of the episode that the scorer approved
  unscored,  \* the steps of the episode whose reward could not be computed
  total,     \* EpisodeTrajectory.total_reward
  returns    \* Seq of the totals of the finished episodes

payVars == <<action, ran, reward, hits, unscored, total, returns>>
rewardVars == <<vars, payVars>>

RewardMatch == 100
PenaltyExecError == -10
PenaltyTimeStep == -1

RewardInit ==
  /\ Init
  /\ action = "none" /\ ran = FALSE
  /\ reward = 0 /\ hits = 0 /\ unscored = 0 /\ total = 0 /\ returns = <<>>

-----------------------------------------------------------------------------
(* Mutant: the step is free when the action fails. *)
MutExecutionError == PenaltyExecError

(* StepReward.execution_error *)
ExecutionError == PenaltyExecError + PenaltyTimeStep

(* acompute: a score below one is no match, and an exception of the scorer is a
   score of zero. *)
Scored(match) == (IF match THEN RewardMatch ELSE 0) + PenaltyTimeStep

(* _run_scorer as env.step calls it. Without SQL there is nothing to compare;
   no output of the environment has the field that exact_match looks at, and a
   field that is not expected either is a match. *)
Verdicts(scorer) ==
  CASE scorer = "sql" -> IF action = "sql" THEN BOOLEAN ELSE {FALSE}
    [] scorer = "field" -> {FALSE}
    [] scorer = "no_field" -> {TRUE}
    [] scorer = "judge" -> BOOLEAN

(* env.step returns the reward and trajectory.append adds it. *)
Pays(r, hit) ==
  /\ reward' = r
  /\ total' = total + r
  /\ hits' = hits + (IF hit THEN 1 ELSE 0)
  /\ UNCHANGED <<action, returns>>

FreshTrajectory == total' = 0 /\ hits' = 0 /\ unscored' = 0

PayReset == Reset /\ FreshTrajectory /\ UNCHANGED <<action, ran, reward, returns>>

PayMalformed ==
  MalformedAction /\ Pays(ExecutionError, FALSE) /\ ran' = FALSE /\ UNCHANGED unscored

PayDirect ==
  /\ DirectAction
  /\ action' = "sql" /\ ran' = ~error'
  /\ UNCHANGED <<reward, hits, unscored, total, returns>>

PayPython ==
  /\ PythonAction
  /\ action' = "python" /\ ran' = FALSE
  /\ UNCHANGED <<reward, hits, unscored, total, returns>>

PaySandbox ==
  /\ SandboxReturns
  /\ ran' = ~error'
  /\ UNCHANGED <<action, reward, hits, unscored, total, returns>>

PayFailure ==
  /\ SkipIteration \/ IterationFails
  /\ Pays(ExecutionError, FALSE)
  /\ UNCHANGED <<ran, unscored>>

(* The iteration goes through. Whatever acompute raises outside of its scorer
   (it imports the backend's harness) makes the step pay as a failed one. *)
PayIteration ==
  /\ Iterate
  /\ \/ /\ \E match \in Verdicts(Scorers[episode]) : Pays(Scored(match), match)
        /\ UNCHANGED unscored
     \/ Pays(ExecutionError, FALSE) /\ unscored' = unscored + 1
  /\ UNCHANGED ran

(* The trajectory is kept when the episode is over. *)
PayNext ==
  /\ NextStep
  /\ returns' = IF pc' = "reset" THEN Append(returns, total) ELSE returns
  /\ UNCHANGED <<action, ran, reward, hits, unscored, total>>

RewardNext ==
  \/ PayReset \/ PayMalformed \/ PayDirect \/ PayPython \/ PaySandbox
  \/ PayFailure \/ PayIteration \/ PayNext
  \/ (Finish \/ UntypedAction \/ SandboxStep) /\ UNCHANGED payVars

RewardSpec == RewardInit /\ [][RewardNext]_rewardVars

(* As FairSpec of RlEpisode. *)
FairRewardSpec == RewardSpec /\ WF_rewardVars(RewardNext)

-----------------------------------------------------------------------------
BetweenSteps == pc \in {"reset", "act", "decide", "done"}

(* A return tells how the episode went: a step either iterates the analysis or
   costs the penalty, and both only if its reward could not be computed
   (env.step); a step that matched has iterated the analysis and has its reward. *)
RewardsAddUp ==
  BetweenSteps =>
    /\ total = RewardMatch * hits
               + PenaltyExecError * (steps - analysis.iteration + unscored)
               + PenaltyTimeStep * steps
    /\ hits + unscored <= analysis.iteration

=============================================================================
