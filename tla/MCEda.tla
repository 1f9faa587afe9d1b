-------------------------------- MODULE MCEda --------------------------------
(***************************************************************************)
(* EdaRun, and with it EdaLoop, with small budgets: fewer hypotheses than  *)
(* iterations, as many, and more, so that each of the three ways out of    *)
(* the loop is taken.                                                      *)
(***************************************************************************)
EXTENDS EdaRun

=============================================================================
