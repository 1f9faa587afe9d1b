------------------------------ MODULE MCSignal ------------------------------
(***************************************************************************)
(* SignalPipeline on small instances. Callbacks are interchangeable, and   *)
(* so are signals; the runs that check liveness do not use the symmetry.   *)
(***************************************************************************)
EXTENDS SignalPipeline, TLC

Rules == INSTANCE MonitorRules

(* What RunGraph chooses among is what the rules of the monitor can yield. *)
ASSUME GraphChoices ==
  GraphAction = {Rules!ActionFor(event, answer) : event \in Rules!Events, answer \in Rules!Answers}

Symmetry == Permutations(Signals) \cup Permutations(Callers)
=============================================================================
