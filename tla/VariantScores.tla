----------------------------- MODULE VariantScores -----------------------------
(***************************************************************************)
(* How the simulate agent turns the reactions of its personas into a       *)
(* ranking of the drafts (nodes/score_variants.py), with the weights of    *)
(* context/rules/simulate_rules.yaml in hundredths and scores, which the   *)
(* code rounds to four digits, in ten-thousandths.                         *)
(***************************************************************************)
EXTENDS Integers, FiniteSets, Sequences

Stances == {"support", "neutral", "oppose"}
Reaction == [stance : Stances, intensity : 1..5]

\* PersonaReaction's defaults, which a failing reaction is left with
NeutralReaction == [stance |-> "neutral", intensity |-> 3]

SupportWeight == 60
OppositionWeight == 25
EngagementWeight == 15

Clamp(low, high, n) == CASE n < low -> low [] n > high -> high [] OTHER -> n

(* The personas of `reactions`, a function from personas, of one stance *)
Of(stance, reactions) == {p \in DOMAIN reactions : reactions[p].stance = stance}

(* The sum of the intensities, counted in steps: an intensity of 3 has three. *)
Intensity(reactions) ==
  Cardinality({s \in (DOMAIN reactions) \X (1..5) : s[2] <= reactions[s[1]].intensity})

(* Mutant: opposition counts in favour. *)
MutOpposed(reactions) ==
  LET total == Cardinality(DOMAIN reactions)
      sum == SupportWeight * Cardinality(Of("support", reactions))
             + (EngagementWeight * Intensity(reactions)) \div 5
             + OppositionWeight * Cardinality(Of("oppose", reactions))
  IN IF total = 0 THEN 0 ELSE Clamp(0, 10000, (200 * sum + total) \div (2 * total))

(* score_variant: 0.6 of the support ratio, 0.15 of a fifth of the average
   intensity, less 0.25 of the opposition ratio, rounded *)
ScoreVariant(reactions) ==
  LET total == Cardinality(DOMAIN reactions)
      sum == SupportWeight * Cardinality(Of("support", reactions))
             + (EngagementWeight \div 5) * Intensity(reactions)
             - OppositionWeight * Cardinality(Of("oppose", reactions))
  IN IF total = 0 THEN 0 ELSE Clamp(0, 10000, (200 * sum + total) \div (2 * total))

(* The drafts that a stable sort, the highest score first, puts before d *)
Before(scores, d) ==
  {c \in DOMAIN scores : scores[c] > scores[d] \/ (scores[c] = scores[d] /\ c < d)}

(* scores.sort(reverse=True) *)
Ranking(scores) ==
  [place \in DOMAIN scores |->
    CHOOSE d \in DOMAIN scores : Cardinality(Before(scores, d)) = place - 1]
=============================================================================
