----------------------------- MODULE AgentsProofs -----------------------------
(***************************************************************************)
(* Theorems about the agents of MCAgents: a run of the research agent, for *)
(* any personas, budget, threshold, weights and evidence; of the simulate  *)
(* agent, for any drafts and personas; an analytics chat, for statements,  *)
(* results and answers of any length; and a call of the LLM client, for    *)
(* any limit on its retries.                                               *)
(***************************************************************************)
EXTENDS MCAgents, FiniteSetTheorems, SequenceTheorems, WellFoundedInduction, TLAPS

-----------------------------------------------------------------------------
(* The research agent. Consensus is never expanded into the arithmetic of the
   scores: only that every peer gave the minimum of evidence is used. *)

(* The generation counter and the history of evaluations move together. *)
CountsOK ==
  /\ pc \in {"parallel_peers", "evaluate_evidence", "synthesize", "log_decision",
             "done", "failed"}
  /\ generation \in Nat
  /\ consensus \in Seq(BOOLEAN)
  /\ Len(consensus) = generation - (IF pc = "evaluate_evidence" THEN 1 ELSE 0)
  /\ pc \in {"evaluate_evidence", "synthesize", "log_decision", "done"} => generation > 0

(* Only a failure is empty-handed by construction. *)
AnswersOK ==
  \A p \in Personas : answers[p].from = "failure" => answers[p].evidence = 0

(* All that the proofs use of a consensus. *)
EveryPeerHasEvidence == \A p \in Personas : answers[p].evidence >= MinEvidence

(* What the nodes after evaluate_evidence rely on, each about the evaluation
   just made. *)
EvaluatedOK ==
  /\ \A g \in 1..(Len(consensus) - 1) : ~consensus[g]
  /\ pc \in {"parallel_peers", "evaluate_evidence"} =>
       \A g \in 1..Len(consensus) : ~consensus[g]
  /\ pc = "synthesize" => (ready <=> consensus[Len(consensus)])
  /\ pc \in {"synthesize", "log_decision", "done"} /\ consensus[Len(consensus)] =>
       EveryPeerHasEvidence
  /\ pc \in {"log_decision", "done"} =>
       /\ synthesis = "final" /\ nextBrief = "none"
       /\ consensus[Len(consensus)] \/ generation >= MaxGenerations

Inv == CountsOK /\ AnswersOK /\ answers \in [Personas -> Contribution] /\ EvaluatedOK

(* Contributions keep their shape, and a failure its empty evidence. *)
LEMMA AnswersStay ==
  ASSUME Inv, [Next]_vars
  PROVE  answers' \in [Personas -> Contribution] /\ AnswersOK'
<1> USE ResearchAssumption DEF Inv, AnswersOK, Contribution
<1>0. NobodyYet \in [Personas -> Contribution]
      /\ \A p \in Personas : NobodyYet[p].from # "failure"
  BY DEF NobodyYet, Waiting
<1>1. ASSUME NEW p \in Personas, PeerAnswers(p)
      PROVE  answers' \in [Personas -> Contribution] /\ AnswersOK'
  BY <1>1 DEF PeerAnswers
<1>2. ASSUME NEW p \in Personas, PeerFails(p)
      PROVE  answers' \in [Personas -> Contribution] /\ AnswersOK'
  BY <1>2 DEF PeerFails, FailedPeer
<1>3. CASE Synthesize
  <2>1. answers' = answers \/ answers' = NobodyYet
    BY <1>3 DEF Synthesize
  <2> QED BY <2>1, <1>0
<1>4. CASE GatherPeers \/ EvaluateEvidence \/ LogDecision \/ NodeRaises \/ UNCHANGED vars
  BY <1>4 DEF GatherPeers, EvaluateEvidence, LogDecision, NodeRaises, vars
<1> QED BY <1>1, <1>2, <1>3, <1>4 DEF Next

(* While the peers work nothing else moves. *)
LEMMA PeersKeepInv ==
  ASSUME Inv, NEW p \in Personas, PeerAnswers(p) \/ PeerFails(p)
  PROVE  CountsOK' /\ EvaluatedOK'
<1>1. UNCHANGED <<pc, generation, brief, nextBrief, quality, ready, synthesis, consensus>>
      /\ pc = "parallel_peers"
  BY DEF PeerAnswers, PeerFails
<1> QED BY <1>1 DEF Inv, CountsOK, EvaluatedOK

(* The evaluation is appended, and read back as the last one. *)
LEMMA EvaluateKeepsInv ==
  ASSUME Inv, EvaluateEvidence
  PROVE  CountsOK' /\ EvaluatedOK'
<1> DEFINE c == Consensus(answers)
<1>0. c \in BOOLEAN
  BY DEF Consensus
<1>1. /\ pc = "evaluate_evidence" /\ pc' = "synthesize"
      /\ generation' = generation /\ answers' = answers
      /\ ready' = c /\ consensus' = Append(consensus, c)
  BY DEF EvaluateEvidence
<1>2. consensus \in Seq(BOOLEAN) /\ generation \in Nat /\ generation > 0
      /\ Len(consensus) = generation - 1
      /\ \A g \in 1..Len(consensus) : ~consensus[g]
  BY <1>1 DEF Inv, CountsOK, EvaluatedOK
<1> HIDE DEF c
<1>3. /\ consensus' \in Seq(BOOLEAN)
      /\ Len(consensus') = Len(consensus) + 1
      /\ \A g \in 1..Len(consensus) : consensus'[g] = consensus[g]
      /\ consensus'[Len(consensus')] = c
  BY <1>0, <1>1, <1>2
<1>4. CountsOK'
  BY <1>1, <1>2, <1>3 DEF CountsOK
<1>5. \A g \in 1..(Len(consensus') - 1) : ~consensus'[g]
  BY <1>2, <1>3
<1>6. c => EveryPeerHasEvidence'
  BY <1>1 DEF c, Consensus, EveryPeerHasEvidence
<1>7. EvaluatedOK'
  BY <1>1, <1>3, <1>5, <1>6 DEF EvaluatedOK
<1> QED BY <1>4, <1>7

(* The two budget tests agree: the run goes on only after an interim text, and
   only when the evaluation just made found no consensus. *)
LEMMA SynthesizeKeepsInv ==
  ASSUME Inv, Synthesize
  PROVE  CountsOK' /\ EvaluatedOK'
<1> DEFINE stop == ready \/ ForcedStop(generation)
<1>1. /\ pc = "synthesize" /\ generation' = generation /\ consensus' = consensus
      /\ pc' = NextNode(stop, generation)
      /\ synthesis' = IF stop THEN "final" ELSE "interim"
      /\ nextBrief' \in IF stop THEN {"none"} ELSE {"query", "refined"}
      /\ answers' = IF pc' = "parallel_peers" THEN NobodyYet ELSE answers
  BY DEF Synthesize
<1>2. generation \in Nat /\ generation > 0 /\ Len(consensus) = generation
      /\ consensus \in Seq(BOOLEAN)
      /\ (ready <=> consensus[Len(consensus)])
      /\ (consensus[Len(consensus)] => EveryPeerHasEvidence)
      /\ \A g \in 1..(Len(consensus) - 1) : ~consensus[g]
  BY <1>1 DEF Inv, CountsOK, EvaluatedOK
<1>3. MaxGenerations \in Nat
  BY ResearchAssumption
<1>4. CASE stop
  <2>1. pc' = "log_decision" /\ synthesis' = "final" /\ nextBrief' = "none"
        /\ answers' = answers
    BY <1>1, <1>4 DEF NextNode
  <2>2. consensus[Len(consensus)] \/ generation >= MaxGenerations
    BY <1>2, <1>4 DEF ForcedStop
  <2>3. EveryPeerHasEvidence => EveryPeerHasEvidence'
    BY <2>1 DEF EveryPeerHasEvidence
  <2> QED BY <1>1, <1>2, <2>1, <2>2, <2>3 DEF CountsOK, EvaluatedOK
<1>5. CASE ~stop
  <2>1. pc' = "parallel_peers" /\ ~consensus[Len(consensus)]
    BY <1>1, <1>2, <1>3, <1>5 DEF NextNode, ForcedStop
  <2>2. \A g \in 1..Len(consensus) : ~consensus[g]
    BY <1>2, <2>1
  <2> QED BY <1>1, <1>2, <2>1, <2>2 DEF CountsOK, EvaluatedOK
<1> QED BY <1>4, <1>5

(* The other steps move the run along without judging anything. *)
LEMMA OtherStepsKeepInv ==
  ASSUME Inv, GatherPeers \/ LogDecision \/ NodeRaises \/ UNCHANGED vars
  PROVE  CountsOK' /\ EvaluatedOK'
<1>0. answers' = answers
  BY DEF GatherPeers, LogDecision, NodeRaises, vars
<1>1. EveryPeerHasEvidence => EveryPeerHasEvidence'
  BY <1>0 DEF EveryPeerHasEvidence
<1>2. CASE GatherPeers
  BY <1>2, <1>1 DEF Inv, CountsOK, EvaluatedOK, GatherPeers
<1>3. CASE LogDecision
  BY <1>3, <1>1 DEF Inv, CountsOK, EvaluatedOK, LogDecision
<1>4. CASE NodeRaises
  BY <1>4, <1>1 DEF Inv, CountsOK, EvaluatedOK, NodeRaises
<1>5. CASE UNCHANGED vars
  BY <1>5, <1>1 DEF Inv, CountsOK, EvaluatedOK, vars
<1> QED BY <1>2, <1>3, <1>4, <1>5

(* Inv is inductive. *)
LEMMA InvHolds == Spec => []Inv
<1>1. Init => Inv
  BY ResearchAssumption
     DEF Init, Inv, CountsOK, AnswersOK, EvaluatedOK, NobodyYet, Waiting, Contribution
<1>2. Inv /\ [Next]_vars => Inv'
  <2> SUFFICES ASSUME Inv, [Next]_vars PROVE Inv'
    OBVIOUS
  <2>1. answers' \in [Personas -> Contribution] /\ AnswersOK'
    BY AnswersStay
  <2>2. CountsOK' /\ EvaluatedOK'
    BY PeersKeepInv, EvaluateKeepsInv, SynthesizeKeepsInv, OtherStepsKeepInv DEF Next
  <2> QED BY <2>1, <2>2 DEF Inv
<1> QED BY <1>1, <1>2, PTL DEF Spec

(* For every budget, zero included, the answer reported is a final one: the
   stop of synthesize and the stop of the router coincide. *)
THEOREM AnswersAreFinal == Spec => []FinalAnswerOnly
<1>1. Inv => FinalAnswerOnly
  BY DEF Inv, EvaluatedOK, FinalAnswerOnly
<1> QED BY <1>1, InvHolds, PTL

(* No generation is run after a consensus, and none is spared before the budget
   is spent. *)
THEOREM StopsInTime == Spec => []StopsAtConsensus
<1>1. Inv => StopsAtConsensus
  BY DEF Inv, EvaluatedOK, StopsAtConsensus
<1> QED BY <1>1, InvHolds, PTL

(* Whatever the weights and the threshold, a failed peer prevents consensus as
   soon as some evidence is asked of each. *)
THEOREM FailuresAreNoConsensus == Spec => []FailedPeerBlocksConsensus
<1>1. Inv => FailedPeerBlocksConsensus
  <2> SUFFICES ASSUME Inv, MinEvidence > 0,
                      pc \in {"synthesize", "log_decision", "done"},
                      NEW p \in Personas, answers[p].from = "failure",
                      consensus[Len(consensus)]
               PROVE  FALSE
    BY DEF FailedPeerBlocksConsensus
  <2>1. answers[p].evidence >= MinEvidence
    BY DEF Inv, EvaluatedOK, EveryPeerHasEvidence
  <2>2. answers[p].evidence = 0
    BY DEF Inv, AnswersOK
  <2> QED BY <2>1, <2>2, ResearchAssumption
<1> QED BY <1>1, InvHolds, PTL
-----------------------------------------------------------------------------
(* The simulate agent: its scores. *)
LEMMA SimCardinality == ASSUME NEW S PROVE Sim!Cardinality(S) = Cardinality(S)
BY DEF Sim!Cardinality, Cardinality

LEMMA Quotient ==
  ASSUME NEW a \in Int, NEW d \in Nat \ {0}
  PROVE  a \div d \in Int /\ d * (a \div d) <= a /\ a < d * (a \div d) + d
BY SMT

(* What the reactions to one draft come to: the summands of its score. *)
Voices(n, supporters, opponents, intensity) ==
  /\ n \in Nat /\ supporters \in 0..n /\ opponents \in 0..n
  /\ intensity \in n..(5 * n)

LEMMA ReactionsCounted ==
  ASSUME NEW P, IsFiniteSet(P), NEW r \in [P -> Sim!Reaction]
  PROVE  /\ Voices(Cardinality(P), Cardinality(Sim!Of("support", r)),
                   Cardinality(Sim!Of("oppose", r)), Sim!Intensity(r))
         /\ Cardinality(Sim!Of("support", r)) = Cardinality(P) =>
              Sim!Of("support", r) = P
<1> DEFINE n == Cardinality(P)
           Steps == {s \in P \X (1..5) : s[2] <= r[s[1]].intensity}
<1>1. n \in Nat
  BY FS_CardinalityType
<1>2. ASSUME NEW stance
      PROVE  /\ Sim!Of(stance, r) \subseteq P /\ Cardinality(Sim!Of(stance, r)) \in 0..n
             /\ Cardinality(Sim!Of(stance, r)) = n => Sim!Of(stance, r) = P
  <2>1. Sim!Of(stance, r) \in SUBSET P
    BY DEF Sim!Of
  <2> QED BY <1>1, <2>1, FS_Subset, FS_CardinalityType
<1>3. Sim!Intensity(r) = Cardinality(Steps)
  BY SimCardinality DEF Sim!Intensity
<1>4. IsFiniteSet(P \X (1..5)) /\ Cardinality(P \X (1..5)) = 5 * n
  <2>1. IsFiniteSet(1..5) /\ Cardinality(1..5) = 5
    <3>1. /\ IsFiniteSet(1..5)
          /\ Cardinality(1..5) = IF 1 > 5 THEN 0 ELSE 5 - 1 + 1
      BY FS_Interval, 1 \in Int, 5 \in Int
    <3> QED BY <3>1
  <2>2. IsFiniteSet(P \X (1..5)) /\ Cardinality(P \X (1..5)) = Cardinality(P) * Cardinality(1..5)
    BY <2>1, FS_Product
  <2> QED BY <1>1, <2>1, <2>2
<1>5. IsFiniteSet(P \X {1}) /\ Cardinality(P \X {1}) = n
  <2>1. IsFiniteSet({1}) /\ Cardinality({1}) = 1
    BY FS_Singleton
  <2>2. IsFiniteSet(P \X {1}) /\ Cardinality(P \X {1}) = Cardinality(P) * Cardinality({1})
    BY <2>1, FS_Product
  <2> QED BY <1>1, <2>1, <2>2
<1>6. P \X {1} \subseteq Steps /\ Steps \subseteq P \X (1..5)
  BY DEF Sim!Reaction
<1> HIDE DEF Steps
<1>7. IsFiniteSet(Steps) /\ Cardinality(Steps) <= 5 * n
  BY <1>4, <1>6, FS_Subset
<1>8. n <= Cardinality(Steps)
  BY <1>5, <1>6, <1>7, FS_Subset
<1>9. Cardinality(Steps) \in Nat
  BY <1>7, FS_CardinalityType
<1> QED BY <1>1, <1>2, <1>3, <1>7, <1>8, <1>9 DEF Voices

(* The score before it is cut to its scale. *)
Sum(supporters, opponents, intensity) == 60 * supporters + 3 * intensity - 25 * opponents
Raw(n, sum) == (200 * sum + n) \div (2 * n)

LEMMA ScoreIsRaw ==
  ASSUME NEW P, NEW r \in [P -> Sim!Reaction], NEW n, n = Cardinality(P), n # 0
  PROVE  Sim!ScoreVariant(r) = Sim!Clamp(0, 10000, Raw(n, Sum(Cardinality(Sim!Of("support", r)),
                                Cardinality(Sim!Of("oppose", r)), Sim!Intensity(r))))
<1>1. DOMAIN r = P /\ 15 \div 5 = 3
  OBVIOUS
<1> QED BY <1>1, SimCardinality
        DEF Sim!ScoreVariant, Raw, Sum, Sim!SupportWeight, Sim!EngagementWeight,
            Sim!OppositionWeight

LEMMA RawType ==
  ASSUME NEW n \in Nat \ {0}, NEW sum \in Int
  PROVE  /\ Raw(n, sum) \in Int
         /\ 2 * (n * Raw(n, sum)) <= 200 * sum + n
         /\ 200 * sum + n < 2 * (n * Raw(n, sum)) + 2 * n
<1>1. 200 * sum + n \in Int /\ 2 * n \in Nat \ {0}
  OBVIOUS
<1>2. /\ Raw(n, sum) \in Int
      /\ (2 * n) * Raw(n, sum) <= 200 * sum + n
      /\ 200 * sum + n < (2 * n) * Raw(n, sum) + 2 * n
  BY <1>1, Quotient DEF Raw
<1>3. (2 * n) * Raw(n, sum) = 2 * (n * Raw(n, sum))
  BY <1>2
<1> QED BY <1>2, <1>3

(* One supporter more, or one opponent less, shows in the four digits of the
   score, of up to 2500 personas. *)
LEMMA MoreIsMore ==
  ASSUME NEW n \in Nat \ {0}, n <= 2500, NEW sum \in Int, NEW more \in Int,
         more >= sum + 25, more <= 75 * n
  PROVE  Raw(n, sum) < Raw(n, more) /\ Raw(n, more) <= 10000
<1> DEFINE q == Raw(n, sum)
           p == Raw(n, more)
<1>0. \A k \in Int : /\ Raw(n, k) \in Int /\ 2 * (n * Raw(n, k)) <= 200 * k + n
                     /\ 200 * k + n < 2 * (n * Raw(n, k)) + 2 * n
  BY RawType
<1> HIDE DEF p, q
<1>1. /\ q \in Int /\ 2 * (n * q) <= 200 * sum + n /\ 200 * sum + n < 2 * (n * q) + 2 * n
      /\ p \in Int /\ 2 * (n * p) <= 200 * more + n /\ 200 * more + n < 2 * (n * p) + 2 * n
  BY <1>0 DEF p, q
<1>2. n * p \in Int /\ n * q \in Int
  BY <1>1
<1>3. CASE p <= q
  <2>1. n * p <= n * q
    BY <1>1, <1>3
  <2> QED BY <1>1, <1>2, <2>1
<1>4. CASE p >= 10001
  <2>1. n * p >= n * 10001
    BY <1>1, <1>4
  <2>2. n * 10001 = 10001 * n
    OBVIOUS
  <2> QED BY <1>1, <1>2, <2>1, <2>2
<1>5. q < p /\ p <= 10000
  BY <1>1, <1>3, <1>4
<1> QED BY <1>5 DEF p, q

(* Of up to four personas, all support is worth more than any feeling. *)
LEMMA UnanimityIsMore ==
  ASSUME NEW n \in 1..4, NEW s \in 0..n, NEW o \in 0..n, NEW i \in n..(5 * n),
         NEW t \in n..(5 * n), s # n
  PROVE  Raw(n, Sum(s, o, i)) <= 6000 /\ Raw(n, Sum(n, 0, t)) >= 6300
<1> DEFINE low == Sum(s, o, i)
           high == Sum(n, 0, t)
           q == Raw(n, low)
           p == Raw(n, high)
<1>0. n \in Nat \ {0}
  OBVIOUS
<1>1. low \in Int /\ high \in Int /\ low <= 75 * n - 60 /\ high >= 63 * n
  BY DEF Sum
<1> HIDE DEF low, high
<1>2. \A k \in Int : /\ Raw(n, k) \in Int /\ 2 * (n * Raw(n, k)) <= 200 * k + n
                     /\ 200 * k + n < 2 * (n * Raw(n, k)) + 2 * n
  BY <1>0, RawType
<1> HIDE DEF p, q
<1>3. /\ q \in Int /\ 2 * (n * q) <= 200 * low + n
      /\ p \in Int /\ 200 * high + n < 2 * (n * p) + 2 * n
  BY <1>1, <1>2 DEF p, q
<1>4. n = 1 \/ n = 2 \/ n = 3 \/ n = 4
  OBVIOUS
<1>5. q <= 6000 /\ p >= 6300
  BY <1>1, <1>3, <1>4
<1> QED BY <1>5 DEF p, q, low, high

(* Scores are on their scale, and a draft with more in its favour has a higher
   one, unless both are at the bottom. *)
LEMMA Clamped ==
  ASSUME NEW top \in Nat, NEW q \in Int
  PROVE  Sim!Clamp(0, top, q) \in 0..top
BY DEF Sim!Clamp

Scale == 10000

LEMMA ScoreType ==
  ASSUME NEW P, IsFiniteSet(P), NEW r \in [P -> Sim!Reaction]
  PROVE  Sim!ScoreVariant(r) \in 0..Scale
<1> DEFINE n == Cardinality(P)
           sum == Sum(Cardinality(Sim!Of("support", r)), Cardinality(Sim!Of("oppose", r)),
                      Sim!Intensity(r))
<1>0. Scale \in Nat
  BY DEF Scale
<1>1. CASE n = 0
  <2>1. Sim!ScoreVariant(r) = 0
    BY <1>1, SimCardinality DEF Sim!ScoreVariant
  <2> QED BY <1>0, <2>1
<1>2. CASE n # 0
  <2>1. n \in Nat \ {0} /\ sum \in Int
    BY <1>2, ReactionsCounted DEF Voices, Sum
  <2>2. Raw(n, sum) \in Int
    BY <2>1, RawType
  <2>3. Sim!ScoreVariant(r) = Sim!Clamp(0, Scale, Raw(n, sum))
    BY <1>2, ScoreIsRaw DEF Scale
  <2>4. \A q \in Int : Sim!Clamp(0, Scale, q) \in 0..Scale
    BY <1>0, Clamped
  <2> HIDE DEF n, sum
  <2> QED BY <2>2, <2>3, <2>4
<1> QED BY <1>1, <1>2

(* What BeatenNeverWins says of two drafts. *)
Beats(other, mine) ==
  LET Num(stance, r) == Sim!Cardinality(Sim!Of(stance, r)) IN
  /\ Sim!ScoreVariant(other) > 0
  /\ Sim!Intensity(other) >= Sim!Intensity(mine)
  /\ Num("support", other) >= Num("support", mine)
  /\ Num("oppose", other) <= Num("oppose", mine)
  /\ \/ Num("support", other) > Num("support", mine)
     \/ Num("oppose", other) < Num("oppose", mine)

LEMMA BeatenScoresLess ==
  ASSUME NEW P, IsFiniteSet(P), Cardinality(P) <= 2500,
         NEW mine \in [P -> Sim!Reaction], NEW other \in [P -> Sim!Reaction],
         Beats(other, mine)
  PROVE  Sim!ScoreVariant(mine) < Sim!ScoreVariant(other)
<1> DEFINE n == Cardinality(P)
           For(r) == Cardinality(Sim!Of("support", r))
           Against(r) == Cardinality(Sim!Of("oppose", r))
           sum(r) == Sum(For(r), Against(r), Sim!Intensity(r))
<1>1. /\ Sim!ScoreVariant(other) > 0 /\ Sim!Intensity(other) >= Sim!Intensity(mine)
      /\ For(other) >= For(mine) /\ Against(other) <= Against(mine)
      /\ For(other) > For(mine) \/ Against(other) < Against(mine)
  BY SimCardinality DEF Beats
<1>2. n # 0
  <2>1. CASE n = 0
    BY <1>1, <2>1, SimCardinality DEF Sim!ScoreVariant
  <2> QED BY <2>1
<1>3. /\ Voices(n, For(mine), Against(mine), Sim!Intensity(mine))
      /\ Voices(n, For(other), Against(other), Sim!Intensity(other))
  BY ReactionsCounted
<1>4. /\ Sim!ScoreVariant(mine) = Sim!Clamp(0, 10000, Raw(n, sum(mine)))
      /\ Sim!ScoreVariant(other) = Sim!Clamp(0, 10000, Raw(n, sum(other)))
  BY <1>2, ScoreIsRaw
<1>5. n \in Nat \ {0} /\ n <= 2500
  BY <1>2, <1>3 DEF Voices
<1> HIDE DEF n, For, Against
<1>6. /\ sum(mine) \in Int /\ sum(other) \in Int
      /\ sum(other) >= sum(mine) + 25 /\ sum(other) <= 75 * n
  BY <1>1, <1>3 DEF Voices, Sum
<1> HIDE DEF sum
<1>7. Raw(n, sum(mine)) < Raw(n, sum(other)) /\ Raw(n, sum(other)) <= 10000
  BY <1>5, <1>6, MoreIsMore
<1>8. Raw(n, sum(mine)) \in Int /\ Raw(n, sum(other)) \in Int
  <2>1. \A k \in Int : Raw(n, k) \in Int
    BY <1>5, RawType
  <2> QED BY <1>6, <2>1
<1> DEFINE a == Raw(n, sum(mine))
           b == Raw(n, sum(other))
<1>9. /\ a \in Int /\ b \in Int /\ a < b /\ b <= 10000
      /\ Sim!Clamp(0, 10000, b) > 0
  BY <1>1, <1>4, <1>7, <1>8
<1> HIDE DEF a, b
<1>10. Sim!Clamp(0, 10000, a) < Sim!Clamp(0, 10000, b)
  BY <1>9 DEF Sim!Clamp
<1> QED BY <1>4, <1>10 DEF a, b

LEMMA UnanimousScoresMore ==
  ASSUME NEW P, IsFiniteSet(P), Cardinality(P) \in 1..4,
         NEW mine \in [P -> Sim!Reaction], NEW other \in [P -> Sim!Reaction],
         Sim!Of("support", other) = P, Sim!Of("support", mine) # P
  PROVE  Sim!ScoreVariant(mine) < Sim!ScoreVariant(other)
<1> DEFINE n == Cardinality(P)
           For(r) == Cardinality(Sim!Of("support", r))
           Against(r) == Cardinality(Sim!Of("oppose", r))
           a == Raw(n, Sum(For(mine), Against(mine), Sim!Intensity(mine)))
           b == Raw(n, Sum(For(other), Against(other), Sim!Intensity(other)))
<1>1. /\ Voices(n, For(mine), Against(mine), Sim!Intensity(mine))
      /\ Voices(n, For(other), Against(other), Sim!Intensity(other))
      /\ For(mine) # n
  BY ReactionsCounted
<1>2. Sim!Of("oppose", other) = {}
  BY DEF Sim!Of
<1>3. For(other) = n /\ Against(other) = 0
  BY <1>2, FS_EmptySet
<1>4. n # 0
  OBVIOUS
<1>5. /\ Sim!ScoreVariant(mine) = Sim!Clamp(0, 10000, a)
      /\ Sim!ScoreVariant(other) = Sim!Clamp(0, 10000, b)
  BY <1>4, ScoreIsRaw
<1> HIDE DEF For, Against
<1>6. a <= 6000 /\ b >= 6300
  BY <1>1, <1>3, UnanimityIsMore DEF Voices
<1>7. a \in Int /\ b \in Int
  <2>1. /\ n \in Nat \ {0}
        /\ Sum(For(mine), Against(mine), Sim!Intensity(mine)) \in Int
        /\ Sum(For(other), Against(other), Sim!Intensity(other)) \in Int
    BY <1>1, <1>4 DEF Voices, Sum
  <2> QED BY <2>1, RawType
<1> HIDE DEF a, b
<1>8. Sim!Clamp(0, 10000, a) < Sim!Clamp(0, 10000, b)
  BY <1>6, <1>7 DEF Sim!Clamp
<1> QED BY <1>5, <1>8

LEMMA LeastOfNaturals ==
  ASSUME NEW S, S \subseteq Nat, S # {}
  PROVE  \E x \in S : \A y \in S : x <= y
<1>1. PICK x \in S : \A y \in S : ~ (<<y, x>> \in OpToRel(<, Nat))
  BY NatLessThanWellFounded, WFMin
<1>2. \A y \in S : ~ (y < x)
  BY <1>1 DEF OpToRel
<1> QED BY <1>2

(* The first place of a ranking is one that no other stands before. *)
LEMMA FirstIsHighest ==
  ASSUME NEW n \in Nat \ {0}, NEW m \in Nat, NEW scores \in [1..n -> 0..m]
  PROVE  /\ Sim!Ranking(scores)[1] \in 1..n
         /\ \A c \in 1..n : scores[c] <= scores[Sim!Ranking(scores)[1]]
<1>0. \A d \in 1..n : scores[d] \in Int /\ m - scores[d] \in Nat
  OBVIOUS
<1> DEFINE Gaps == {m - scores[d] : d \in 1..n}
<1>1. PICK least \in Gaps : \A gap \in Gaps : least <= gap
  <2>1. Gaps \subseteq Nat /\ m - scores[1] \in Gaps
    OBVIOUS
  <2> HIDE DEF Gaps
  <2> QED BY <2>1, LeastOfNaturals
<1> DEFINE Tops == {d \in 1..n : m - scores[d] = least}
<1>2. PICK top \in Tops : \A d \in Tops : top <= d
  <2>1. Tops \subseteq Nat
    OBVIOUS
  <2>2. Tops # {}
    <3>1. PICK d \in 1..n : m - scores[d] = least
      OBVIOUS
    <3> QED BY <3>1
  <2> HIDE DEF Tops
  <2> QED BY <2>1, <2>2, LeastOfNaturals
<1>3. \A d \in 1..n : m - scores[d] \in Gaps
  OBVIOUS
<1>4. Sim!Before(scores, top) = {}
  <2>1. ASSUME NEW c \in 1..n, scores[c] > scores[top] \/ (scores[c] = scores[top] /\ c < top)
        PROVE  FALSE
    <3>1. m - scores[top] = least /\ least <= m - scores[c] /\ top \in 1..n
      BY <1>1, <1>2, <1>3
    <3>2. scores[c] \in Int /\ scores[top] \in Int
      BY <1>0, <3>1
    <3>3. scores[c] = scores[top] /\ c < top
      BY <2>1, <3>1, <3>2
    <3>4. c \in Tops
      BY <3>1, <3>3
    <3> QED BY <1>2, <3>1, <3>3, <3>4
  <2> QED BY <2>1 DEF Sim!Before
<1> DEFINE first == Sim!Ranking(scores)[1]
<1>5. first \in 1..n /\ Sim!Cardinality(Sim!Before(scores, first)) = 0
  <2>1. Sim!Cardinality(Sim!Before(scores, top)) = 0 /\ top \in 1..n
    BY <1>2, <1>4, SimCardinality, FS_EmptySet
  <2>2. DOMAIN scores = 1..n /\ 1 \in 1..n
    OBVIOUS
  <2>3. first = CHOOSE d \in 1..n : Sim!Cardinality(Sim!Before(scores, d)) = 1 - 1
    BY <2>2 DEF Sim!Ranking
  <2> HIDE DEF first
  <2>4. \E d \in 1..n : Sim!Cardinality(Sim!Before(scores, d)) = 1 - 1
    BY <2>1
  <2> QED BY <2>3, <2>4
<1> HIDE DEF first
<1>6. Sim!Before(scores, first) = {}
  <2>1. Sim!Before(scores, first) \in SUBSET (1..n) /\ IsFiniteSet(1..n)
    BY FS_Interval DEF Sim!Before
  <2>2. IsFiniteSet(Sim!Before(scores, first))
    BY <2>1, FS_Subset
  <2> QED BY <1>5, <2>2, SimCardinality, FS_EmptySet
<1>7. \A c \in 1..n : ~ (scores[c] > scores[first])
  BY <1>6 DEF Sim!Before
<1>8. ASSUME NEW c \in 1..n
      PROVE  scores[c] <= scores[first]
  <2>1. scores[c] \in Int /\ scores[first] \in Int
    BY <1>0, <1>5
  <2> QED BY <1>7, <2>1
<1> QED BY <1>5, <1>8 DEF first

-----------------------------------------------------------------------------
(* A run of the simulate agent. *)
SimShape ==
  /\ simPc \in {"spawn", "draft", "react", "score", "pick", "log", "failing", "done", "failed"}
  /\ personas \subseteq SimPersonas
  /\ drafts \in Seq({"open", "answered", "failed"})
  /\ simPc # "spawn" => 1 \in DOMAIN drafts
  /\ DOMAIN reactions \in {{}, DOMAIN drafts}
  /\ \A d \in DOMAIN reactions : reactions[d] \in [personas -> Sim!Reaction \cup {Sim!Open}]
  /\ records \in Nat /\ usage \in Nat

AnsweredDrafts == {d \in DOMAIN drafts : drafts[d] = "answered"}
ClosedPairs == {q \in Sim!Pairs : ~Sim!IsOpen(q[1], q[2])}

(* A node's list counts the calls of the node that have been answered, and the
   run's what the nodes before it have counted; a reaction whose call failed is
   closed without being counted. *)
CallsInv ==
  /\ simPc = "spawn" => drafts = <<>> /\ DOMAIN reactions = {} /\ records = 0 /\ usage = 0
  /\ simPc = "draft" =>
       DOMAIN reactions = {} /\ usage = 0 /\ records = Cardinality(AnsweredDrafts)
  /\ simPc \in {"react", "score", "pick", "log", "done"} =>
       Sim!AllDrafted /\ DOMAIN reactions = DOMAIN drafts
  /\ simPc = "react" =>
       /\ usage = Cardinality(AnsweredDrafts) /\ records <= Cardinality(ClosedPairs)
       /\ "llm" \notin SimFaults => records = Cardinality(ClosedPairs)
  /\ simPc \in {"score", "pick", "log", "done"} =>
       /\ ClosedPairs = Sim!Pairs
       /\ usage >= Cardinality(AnsweredDrafts)
       /\ usage <= Cardinality(AnsweredDrafts) + Cardinality(Sim!Pairs)
       /\ "llm" \notin SimFaults =>
            usage = Cardinality(AnsweredDrafts) + Cardinality(Sim!Pairs)
  /\ simRow.status = "succeeded" => simPc = "done" /\ simRow.calls = usage

(* The ranking is one of the scores as they still are, and the winner its first. *)
WinnerInv ==
  /\ simPc \in {"pick", "log", "done"} => ranking = Sim!Ranking(Sim!Scores)
  /\ simPc \in {"log", "done"} => winner = (IF ranking = <<>> THEN 0 ELSE ranking[1])
  /\ simPc \notin {"log", "done"} => winner = 0

SimInv == SimShape /\ CallsInv /\ WinnerInv

LEMMA SimFinite == ASSUME NEW S PROVE Sim!IsFiniteSet(S) <=> IsFiniteSet(S)
BY DEF Sim!IsFiniteSet, IsFiniteSet

LEMMA SetsAreFinite ==
  ASSUME Sim!SimulateAssumption, SimShape
  PROVE  /\ IsFiniteSet(personas) /\ IsFiniteSet(DOMAIN drafts)
         /\ IsFiniteSet(Sim!Pairs) /\ IsFiniteSet(AnsweredDrafts) /\ IsFiniteSet(ClosedPairs)
         /\ Cardinality(AnsweredDrafts) \in Nat /\ Cardinality(ClosedPairs) \in Nat
         /\ Cardinality(ClosedPairs) <= Cardinality(Sim!Pairs)
         /\ Cardinality(Sim!Pairs) \in Nat
         /\ DOMAIN drafts = 1..Len(drafts) /\ Len(drafts) \in Nat
<1>1. IsFiniteSet(personas)
  BY SimFinite, FS_Subset DEF SimShape, Sim!SimulateAssumption
<1>2. DOMAIN drafts = 1..Len(drafts) /\ Len(drafts) \in Nat
  BY LenProperties DEF SimShape
<1>3. IsFiniteSet(DOMAIN drafts)
  BY <1>2, FS_Interval
<1>4. IsFiniteSet(DOMAIN reactions)
  BY <1>3, FS_EmptySet DEF SimShape
<1>5. IsFiniteSet(Sim!Pairs)
  BY <1>1, <1>4, FS_Product DEF Sim!Pairs
<1>6. AnsweredDrafts \in SUBSET DOMAIN drafts /\ ClosedPairs \in SUBSET Sim!Pairs
  BY DEF AnsweredDrafts, ClosedPairs
<1> QED BY <1>1, <1>2, <1>3, <1>5, <1>6, FS_Subset, FS_CardinalityType

LEMMA SimInitially == Sim!SimulateAssumption /\ Sim!Init => SimInv
<1> SUFFICES ASSUME Sim!Init PROVE SimInv
  OBVIOUS
<1>1. SimShape
  BY EmptySeq DEF Sim!Init, SimShape
<1>2. CallsInv
  BY EmptySeq DEF Sim!Init, CallsInv, Sim!NoRow
<1>3. WinnerInv
  BY DEF Sim!Init, WinnerInv
<1> QED BY <1>1, <1>2, <1>3 DEF SimInv

(* What a step of a call or of a node may not do to what another has counted. *)
LEMMA DraftAnswersKeeps ==
  ASSUME Sim!SimulateAssumption, SimInv, NEW d \in DOMAIN drafts,
         Sim!DraftAnswers(d) \/ Sim!DraftFails(d)
  PROVE  SimInv'
<1>1. /\ drafts[d] = "open" /\ UNCHANGED <<personas, reactions, usage, ranking, winner, simRow>>
      /\ \/ drafts' = [drafts EXCEPT ![d] = "answered"] /\ records' = records + 1 /\ simPc' = simPc
         \/ /\ drafts' = [drafts EXCEPT ![d] = "failed"] /\ records' = records
            /\ simPc' = IF simPc = "draft" THEN "failing" ELSE simPc
  BY DEF Sim!DraftAnswers, Sim!DraftFails
<1>2. simPc \in {"draft", "failing", "failed"}
  BY <1>1, EmptySeq DEF SimInv, SimShape, CallsInv, Sim!AllDrafted
<1>3. drafts' \in Seq({"open", "answered", "failed"}) /\ DOMAIN drafts' = DOMAIN drafts
  BY <1>1, ExceptSeq DEF SimInv, SimShape
<1>4. SimShape'
  BY <1>1, <1>2, <1>3 DEF SimInv, SimShape
<1>5. simPc' = "draft" => records' = Cardinality(AnsweredDrafts')
  <2> SUFFICES ASSUME simPc' = "draft" PROVE records' = Cardinality(AnsweredDrafts')
    OBVIOUS
  <2>1. drafts' = [drafts EXCEPT ![d] = "answered"] /\ records' = records + 1 /\ simPc = "draft"
    BY <1>1
  <2>2. AnsweredDrafts' = AnsweredDrafts \cup {d} /\ d \notin AnsweredDrafts
    BY <1>1, <2>1 DEF AnsweredDrafts, SimInv, SimShape
  <2>3. IsFiniteSet(AnsweredDrafts) /\ Cardinality(AnsweredDrafts) \in Nat
    BY SetsAreFinite DEF SimInv
  <2>4. Cardinality(AnsweredDrafts') = Cardinality(AnsweredDrafts) + 1
    BY <2>2, <2>3, FS_AddElement
  <2> QED BY <2>1, <2>4 DEF SimInv, CallsInv
<1>6. CallsInv'
  <2>1. simPc' \in {"draft", "failing", "failed"}
    BY <1>1, <1>2
  <2> QED BY <1>1, <1>2, <1>5, <2>1 DEF SimInv, CallsInv
<1>7. WinnerInv'
  BY <1>1, <1>2 DEF SimInv, WinnerInv
<1> QED BY <1>4, <1>6, <1>7 DEF SimInv

LEMMA OpenIsNoReaction == Sim!Open \notin Sim!Reaction /\ Sim!NeutralReaction \in Sim!Reaction
BY DEF Sim!Open, Sim!Reaction, Sim!Stances, Sim!NeutralReaction

LEMMA ReactionKeeps ==
  ASSUME Sim!SimulateAssumption, SimInv, NEW q \in Sim!Pairs,
         Sim!ReactionAnswers(q[1], q[2]) \/ Sim!ReactionFails(q[1], q[2])
  PROVE  SimInv'
<1> DEFINE d == q[1]
           p == q[2]
<1>1. d \in DOMAIN reactions /\ p \in personas /\ q = <<d, p>>
  BY DEF Sim!Pairs
<1>2. /\ Sim!IsOpen(d, p) /\ UNCHANGED <<simPc, personas, drafts, usage, ranking, winner, simRow>>
      /\ \/ records' = records + 1
         \/ records' = records /\ "llm" \in SimFaults
      /\ \E reaction \in Sim!Reaction : reactions' = [reactions EXCEPT ![d][p] = reaction]
  BY OpenIsNoReaction
  DEF Sim!ReactionAnswers, Sim!ReactionFails, Sim!React, Sim!Reaction, Sim!SimulateAssumption
<1>3. PICK reaction \in Sim!Reaction : reactions' = [reactions EXCEPT ![d][p] = reaction]
  BY <1>2
<1>4. \A c \in DOMAIN reactions :
        reactions[c] \in [personas -> Sim!Reaction \cup {Sim!Open}]
  BY DEF SimInv, SimShape
<1> HIDE DEF d, p
<1>5. /\ DOMAIN reactions' = DOMAIN reactions
      /\ \A c \in DOMAIN reactions : reactions'[c] \in [personas -> Sim!Reaction \cup {Sim!Open}]
      /\ \A c \in DOMAIN reactions, o \in personas :
           reactions'[c][o] = IF c = d /\ o = p THEN reaction ELSE reactions[c][o]
  BY <1>1, <1>3, <1>4
<1>6. SimShape'
  BY <1>2, <1>5 DEF SimInv, SimShape
<1>7. simPc \in {"react", "failing", "failed"}
  BY <1>1, <1>2 DEF SimInv, SimShape, CallsInv, ClosedPairs, d, p
<1>8. /\ ClosedPairs' = ClosedPairs \cup {q} /\ q \notin ClosedPairs
      /\ Sim!Pairs' = Sim!Pairs /\ AnsweredDrafts' = AnsweredDrafts
  <2>1. Sim!Pairs' = Sim!Pairs
    BY <1>2, <1>5 DEF Sim!Pairs
  <2>2. AnsweredDrafts' = AnsweredDrafts
    BY <1>2 DEF AnsweredDrafts
  <2>3. \A r \in Sim!Pairs : Sim!IsOpen(r[1], r[2])' <=> r # q /\ Sim!IsOpen(r[1], r[2])
    <3> SUFFICES ASSUME NEW r \in Sim!Pairs
                 PROVE  reactions'[r[1]][r[2]] = Sim!Open
                          <=> r # q /\ reactions[r[1]][r[2]] = Sim!Open
      BY DEF Sim!IsOpen
    <3>1. r[1] \in DOMAIN reactions /\ r[2] \in personas /\ r = <<r[1], r[2]>>
      BY DEF Sim!Pairs
    <3>2. CASE r[1] = d /\ r[2] = p
      BY <1>1, <1>5, <3>1, <3>2, OpenIsNoReaction
    <3>3. CASE ~(r[1] = d /\ r[2] = p)
      <4>1. r # q
        BY <3>3 DEF d, p
      <4> QED BY <1>5, <3>1, <3>3, <4>1
    <3> QED BY <3>2, <3>3
  <2>4. q \notin ClosedPairs
    BY <1>2 DEF ClosedPairs, d, p
  <2> QED BY <2>1, <2>2, <2>3, <2>4 DEF ClosedPairs
<1>9. Cardinality(ClosedPairs') = Cardinality(ClosedPairs) + 1 /\ Cardinality(ClosedPairs) \in Nat
  BY <1>8, SetsAreFinite, FS_AddElement DEF SimInv
<1>10. CallsInv'
  <2>1. Sim!AllDrafted' <=> Sim!AllDrafted
    BY <1>2 DEF Sim!AllDrafted
  <2> QED BY <1>2, <1>5, <1>7, <1>8, <1>9, <2>1 DEF SimInv, CallsInv, SimShape
<1>11. WinnerInv'
  BY <1>2, <1>7 DEF SimInv, WinnerInv
<1> QED BY <1>6, <1>10, <1>11 DEF SimInv

LEMMA SpawnKeeps ==
  ASSUME Sim!SimulateAssumption, SimInv, Sim!SpawnPersonas
  PROVE  SimInv'
<1>1. PICK chosen \in SUBSET SimPersonas, count \in VariantCounts :
        personas' = chosen /\ drafts' = [d \in 1..Sim!Max1(count) |-> "open"]
  BY DEF Sim!SpawnPersonas
<1>2. /\ simPc = "spawn" /\ simPc' = "draft"
      /\ UNCHANGED <<reactions, records, usage, ranking, winner, simRow>>
  BY DEF Sim!SpawnPersonas
<1>3. Sim!Max1(count) \in Nat /\ Sim!Max1(count) >= 1
  BY DEF Sim!Max1, Sim!SimulateAssumption
<1>4. drafts' \in Seq({"open", "answered", "failed"}) /\ 1 \in DOMAIN drafts'
  BY <1>1, <1>3
<1>5. AnsweredDrafts' = {} /\ Cardinality(AnsweredDrafts') = 0
  BY <1>1, FS_EmptySet DEF AnsweredDrafts
<1>6. DOMAIN reactions = {} /\ records = 0 /\ usage = 0
  BY <1>2 DEF SimInv, CallsInv
<1>7. SimShape'
  BY <1>1, <1>2, <1>4, <1>6 DEF SimInv, SimShape
<1>8. CallsInv'
  BY <1>2, <1>5, <1>6 DEF SimInv, CallsInv
<1>9. WinnerInv'
  BY <1>2 DEF SimInv, WinnerInv
<1> QED BY <1>7, <1>8, <1>9 DEF SimInv

LEMMA JoinDraftsKeeps ==
  ASSUME Sim!SimulateAssumption, SimInv, Sim!JoinDrafts
  PROVE  SimInv'
<1>1. /\ simPc = "draft" /\ simPc' = "react" /\ Sim!AllDrafted
      /\ usage' = usage + records /\ records' = 0
      /\ reactions' = [d \in DOMAIN drafts |-> [p \in personas |-> Sim!Open]]
      /\ UNCHANGED <<personas, drafts, ranking, winner, simRow>>
  BY DEF Sim!JoinDrafts, Sim!Spend
<1>2. SimShape'
  BY <1>1 DEF SimInv, SimShape
<1>3. ClosedPairs' = {}
  BY <1>1 DEF ClosedPairs, Sim!Pairs, Sim!IsOpen
<1>4. Cardinality(ClosedPairs') = 0
  BY <1>3, FS_EmptySet
<1>5. usage' = Cardinality(AnsweredDrafts') /\ AnsweredDrafts' = AnsweredDrafts
  BY <1>1, SetsAreFinite DEF SimInv, CallsInv, AnsweredDrafts
<1>6. Sim!AllDrafted'
  BY <1>1 DEF Sim!AllDrafted
<1>7. CallsInv'
  BY <1>1, <1>4, <1>5, <1>6 DEF SimInv, CallsInv
<1>8. WinnerInv'
  BY <1>1 DEF SimInv, WinnerInv
<1> QED BY <1>2, <1>7, <1>8 DEF SimInv

LEMMA JoinReactionsKeeps ==
  ASSUME Sim!SimulateAssumption, SimInv, Sim!JoinReactions
  PROVE  SimInv'
<1>1. /\ simPc = "react" /\ simPc' = "score"
      /\ usage' = usage + records /\ records' = 0
      /\ UNCHANGED <<personas, drafts, reactions, ranking, winner, simRow>>
  BY DEF Sim!JoinReactions, Sim!Spend
<1>2. ClosedPairs = Sim!Pairs
  BY DEF Sim!JoinReactions, ClosedPairs
<1>3. /\ ClosedPairs' = ClosedPairs /\ Sim!Pairs' = Sim!Pairs
      /\ AnsweredDrafts' = AnsweredDrafts /\ (Sim!AllDrafted' <=> Sim!AllDrafted)
  BY <1>1 DEF ClosedPairs, Sim!Pairs, Sim!IsOpen, AnsweredDrafts, Sim!AllDrafted
<1>4. Cardinality(AnsweredDrafts) \in Nat /\ Cardinality(Sim!Pairs) \in Nat
  BY SetsAreFinite DEF SimInv
<1>5. records \in Nat /\ usage \in Nat
  BY DEF SimInv, SimShape
<1>6. SimShape'
  BY <1>1 DEF SimInv, SimShape
<1>7. CallsInv'
  BY <1>1, <1>2, <1>3, <1>4, <1>5 DEF SimInv, CallsInv
<1>8. WinnerInv'
  BY <1>1 DEF SimInv, WinnerInv
<1> QED BY <1>6, <1>7, <1>8 DEF SimInv

LEMMA LaterNodesKeep ==
  ASSUME SimInv,
         \/ Sim!ScoreVariants \/ Sim!PickWinner \/ Sim!LogDecision \/ Sim!LogFailure
         \/ Sim!ReactionPromptRaises
  PROVE  SimInv'
<1>1. UNCHANGED <<personas, drafts, records, usage>>
  BY DEF Sim!ScoreVariants, Sim!PickWinner, Sim!LogDecision, Sim!LogFailure,
         Sim!ReactionPromptRaises
<1>2. AnsweredDrafts' = AnsweredDrafts /\ (Sim!AllDrafted' <=> Sim!AllDrafted)
  BY <1>1 DEF AnsweredDrafts, Sim!AllDrafted
<1>3. CASE Sim!ReactionPromptRaises
  <2>1. PICK p \in personas :
          reactions' = [d \in DOMAIN reactions |->
                          [reactions[d] EXCEPT ![p] = Sim!NeutralReaction]]
    BY <1>3 DEF Sim!ReactionPromptRaises
  <2>2. simPc = "react" /\ simPc' = "failing" /\ UNCHANGED <<ranking, winner, simRow>>
    BY <1>3 DEF Sim!ReactionPromptRaises
  <2>3. SimShape'
    BY <1>1, <2>1, <2>2, OpenIsNoReaction DEF SimInv, SimShape
  <2> QED BY <1>1, <2>2, <2>3 DEF SimInv, CallsInv, WinnerInv
<1>4. CASE ~Sim!ReactionPromptRaises
  <2>1. reactions' = reactions
    BY <1>4 DEF Sim!ScoreVariants, Sim!PickWinner, Sim!LogDecision, Sim!LogFailure
  <2>2. /\ ClosedPairs' = ClosedPairs /\ Sim!Pairs' = Sim!Pairs /\ Sim!Scores' = Sim!Scores
    BY <1>1, <2>1 DEF ClosedPairs, Sim!Pairs, Sim!IsOpen, Sim!Scores
  <2>3. CASE Sim!ScoreVariants
    BY <1>1, <1>2, <2>1, <2>2, <2>3 DEF Sim!ScoreVariants, SimInv, SimShape, CallsInv, WinnerInv
  <2>4. CASE Sim!PickWinner
    BY <1>1, <1>2, <2>1, <2>2, <2>4 DEF Sim!PickWinner, SimInv, SimShape, CallsInv, WinnerInv
  <2>5. CASE Sim!LogDecision
    BY <1>1, <1>2, <2>1, <2>2, <2>5
    DEF Sim!LogDecision, Sim!WriteRow, SimInv, SimShape, CallsInv, WinnerInv
  <2>6. CASE Sim!LogFailure
    BY <1>1, <1>2, <2>1, <2>2, <2>6
    DEF Sim!LogFailure, Sim!WriteRow, SimInv, SimShape, CallsInv, WinnerInv
  <2> QED BY <1>4, <2>3, <2>4, <2>5, <2>6
<1> QED BY <1>3, <1>4

LEMMA SimStepKeepsInv ==
  ASSUME Sim!SimulateAssumption, SimInv, [Sim!Next]_Sim!vars
  PROVE  SimInv'
<1>1. CASE Sim!Call
  BY <1>1, DraftAnswersKeeps, ReactionKeeps DEF Sim!Call
<1>2. CASE Sim!ReactionPromptRaises \/ Sim!Node
  BY <1>2, SpawnKeeps, JoinDraftsKeeps, JoinReactionsKeeps, LaterNodesKeep DEF Sim!Node
<1>3. CASE UNCHANGED Sim!vars
  BY <1>3 DEF Sim!vars, SimInv, SimShape, CallsInv, WinnerInv, AnsweredDrafts, ClosedPairs,
              Sim!Pairs, Sim!IsOpen, Sim!AllDrafted, Sim!Scores
<1> QED BY <1>1, <1>2, <1>3 DEF Sim!Next

LEMMA SimInvariant == Sim!SimulateAssumption /\ Sim!Spec => []SimInv
<1> SUFFICES ASSUME Sim!SimulateAssumption PROVE Sim!Spec => []SimInv
  OBVIOUS
<1> QED BY SimInitially, SimStepKeepsInv, PTL DEF Sim!Spec

LEMMA RowsCount ==
  ASSUME Sim!SimulateAssumption, SimInv
  PROVE  RowCountsCalls
<1> SUFFICES ASSUME simRow.status = "succeeded"
             PROVE  /\ \A q \in Sim!Pairs : ~Sim!IsOpen(q[1], q[2])
                    /\ Sim!Answered = Len(drafts)
                    /\ IF "llm" \in SimFaults
                         THEN simRow.calls \in
                                Sim!Answered..(Sim!Answered + Sim!Cardinality(Sim!Pairs))
                         ELSE simRow.calls = Sim!Answered + Sim!Cardinality(Sim!Pairs)
  BY DEF RowCountsCalls, Sim!RowCountsCalls
<1>1. simPc = "done" /\ simRow.calls = usage /\ Sim!AllDrafted /\ ClosedPairs = Sim!Pairs
  BY DEF SimInv, CallsInv
<1>2. Sim!Answered = Cardinality(AnsweredDrafts)
  BY SimCardinality DEF Sim!Answered, AnsweredDrafts
<1>3. AnsweredDrafts = 1..Len(drafts) /\ Len(drafts) \in Nat
  BY <1>1, SetsAreFinite DEF SimInv, AnsweredDrafts, Sim!AllDrafted
<1>4. Cardinality(AnsweredDrafts) = Len(drafts)
  <2>1. Cardinality(1..Len(drafts)) = IF 1 > Len(drafts) THEN 0 ELSE Len(drafts) - 1 + 1
    BY <1>3, FS_Interval
  <2> QED BY <1>3, <2>1
<1>5. \A q \in Sim!Pairs : ~Sim!IsOpen(q[1], q[2])
  BY <1>1 DEF ClosedPairs
<1>6. /\ Cardinality(AnsweredDrafts) \in Nat /\ Cardinality(Sim!Pairs) \in Nat /\ usage \in Nat
      /\ Sim!Cardinality(Sim!Pairs) = Cardinality(Sim!Pairs)
  BY SetsAreFinite, SimCardinality DEF SimInv, SimShape
<1> QED BY <1>1, <1>2, <1>4, <1>5, <1>6 DEF SimInv, CallsInv

(* The winner's score is the highest. *)
LEMMA WinnerIsHighest ==
  ASSUME Sim!SimulateAssumption, SimInv, winner # 0
  PROVE  /\ winner \in DOMAIN reactions
         /\ \A d \in DOMAIN reactions :
              /\ reactions[d] \in [personas -> Sim!Reaction]
              /\ Sim!ScoreVariant(reactions[d]) \in 0..Scale
              /\ Sim!ScoreVariant(reactions[d]) <= Sim!ScoreVariant(reactions[winner])
<1> DEFINE n == Len(drafts)
           scores == Sim!Scores
<1>1. /\ simPc \in {"log", "done"} /\ ranking = Sim!Ranking(Sim!Scores) /\ winner = ranking[1]
      /\ DOMAIN reactions = DOMAIN drafts /\ ClosedPairs = Sim!Pairs
  BY DEF SimInv, WinnerInv, CallsInv
<1>2. n \in Nat \ {0} /\ DOMAIN reactions = 1..n /\ IsFiniteSet(personas)
  BY <1>1, SetsAreFinite DEF SimInv, SimShape
<1>3. \A d \in 1..n : reactions[d] \in [personas -> Sim!Reaction]
  <2> SUFFICES ASSUME NEW d \in 1..n
               PROVE  reactions[d] \in [personas -> Sim!Reaction]
    OBVIOUS
  <2>1. reactions[d] \in [personas -> Sim!Reaction \cup {Sim!Open}]
    BY <1>1, <1>2 DEF SimInv, SimShape
  <2>2. ASSUME NEW p \in personas
        PROVE  reactions[d][p] \in Sim!Reaction
    <3>1. <<d, p>> \in Sim!Pairs
      BY <1>2 DEF Sim!Pairs
    <3>2. reactions[d][p] # Sim!Open
      BY <1>1, <3>1 DEF ClosedPairs, Sim!IsOpen
    <3> QED BY <2>1, <3>2
  <2> HIDE DEF n
  <2> QED BY <2>1, <2>2
<1>4. Scale \in Nat
  BY DEF Scale
<1>5. scores = [d \in 1..n |-> Sim!ScoreVariant(reactions[d])]
  BY <1>2 DEF Sim!Scores
<1>6. \A d \in 1..n : Sim!ScoreVariant(reactions[d]) \in 0..Scale
  BY <1>2, <1>3, ScoreType
<1>7. scores \in [1..n -> 0..Scale]
  BY <1>5, <1>6
<1> HIDE DEF n, scores
<1>8. winner \in 1..n /\ \A c \in 1..n : scores[c] <= scores[winner]
  BY <1>1, <1>2, <1>4, <1>7, FirstIsHighest DEF scores
<1> QED BY <1>2, <1>3, <1>5, <1>6, <1>8

LEMMA WinnersAreUnbeaten ==
  ASSUME Sim!SimulateAssumption, Cardinality(SimPersonas) <= 2500, SimInv
  PROVE  WinnerIsUnbeaten
<1>1. /\ IsFiniteSet(personas) /\ Cardinality(personas) \in Nat
      /\ Cardinality(personas) <= 2500
  <2>1. IsFiniteSet(SimPersonas) /\ personas \in SUBSET SimPersonas
    BY SimFinite DEF Sim!SimulateAssumption, SimInv, SimShape
  <2>2. /\ IsFiniteSet(personas) /\ Cardinality(personas) <= Cardinality(SimPersonas)
        /\ Cardinality(personas) \in Nat /\ Cardinality(SimPersonas) \in Nat
    BY <2>1, FS_Subset, FS_CardinalityType
  <2> QED BY <2>2
<1>2. \A k \in 0..Scale : k \in Int
  BY DEF Scale
<1>3. ASSUME winner # 0, NEW d \in DOMAIN reactions
      PROVE  /\ ~(Sim!ScoreVariant(reactions[winner]) < Sim!ScoreVariant(reactions[d]))
             /\ reactions[winner] \in [personas -> Sim!Reaction]
             /\ reactions[d] \in [personas -> Sim!Reaction]
  BY <1>2, <1>3, WinnerIsHighest
<1>4. Sim!BeatenNeverWins
  <2> SUFFICES ASSUME winner # 0, NEW d \in DOMAIN reactions
               PROVE  ~Beats(reactions[d], reactions[winner])
    BY DEF Sim!BeatenNeverWins, Beats
  <2> QED BY <1>1, <1>3, BeatenScoresLess
<1>5. Sim!UnanimityWins
  <2> SUFFICES ASSUME winner # 0, Sim!Cardinality(personas) \in 1..4,
                      NEW d \in DOMAIN reactions, Sim!Of("support", reactions[d]) = personas
               PROVE  Sim!Of("support", reactions[winner]) = personas
    BY DEF Sim!UnanimityWins
  <2> QED BY <1>1, <1>3, SimCardinality, UnanimousScoresMore
<1> QED BY <1>4, <1>5 DEF WinnerIsUnbeaten

-----------------------------------------------------------------------------
(* The analytics chat. What the guards make of one statement, of any length: *)
LEMMA PositionsOf ==
  ASSUME NEW s \in Seq(Chat!Tokens)
  PROVE  /\ Len(s) \in Nat /\ DOMAIN s = 1..Len(s)
         /\ Chat!CodeWords(s) = {i \in Chat!Words(s) : s[i] # "comment"}
         /\ Chat!Words(s) \subseteq DOMAIN s
  BY LenProperties DEF Chat!CodeWords, Chat!Words

(* ... validate_sql lets nothing pass that the client refuses, but for comments
   and the client's own keywords, ... *)
LEMMA ValidatedIsAccepted ==
  ASSUME NEW s \in Seq(Chat!Tokens), Chat!Validated(s),
         \A i \in DOMAIN s : s[i] \notin {"comment", "prepare"}
  PROVE  Chat!Accepted(s)
<1>1. Chat!CodeWords(s) = Chat!Words(s) /\ Chat!Words(s) \subseteq DOMAIN s
  BY PositionsOf
<1>2. Chat!Opens(s, Chat!Words(s), Chat!ClientStarters)
  BY <1>1 DEF Chat!Validated, Chat!Opens, Chat!ClientStarters
<1>3. \A i \in Chat!Words(s) : s[i] \notin {"drop", "prepare"}
  BY <1>1 DEF Chat!Validated, Chat!Forbidden
<1>4. \A i, j \in DOMAIN s : s[i] = ";" /\ i < j => s[j] = ";"
  <2>1. \A j \in DOMAIN s : ~ \A k \in j..Len(s) : s[k] = "comment"
    BY PositionsOf
  <2> QED BY <2>1 DEF Chat!Validated, Chat!Single
<1> QED BY <1>2, <1>3, <1>4 DEF Chat!Accepted

(* ... and the client accepts nothing that validate_sql refuses, but for its own
   starters and what it leaves to the engine. *)
LEMMA AcceptedIsValidated ==
  ASSUME NEW s \in Seq(Chat!Tokens), Chat!Accepted(s),
         ~Chat!Opens(s, Chat!Words(s), Chat!ClientStarters \ Chat!Starters),
         Chat!Count(s, "(") = Chat!Count(s, ")"), Len(s) <= MaxLength
  PROVE  Chat!Validated(s)
<1>1. PICK i \in Chat!Words(s) :
        s[i] \in Chat!ClientStarters /\ \A j \in Chat!Words(s) : i <= j
  BY DEF Chat!Accepted, Chat!Opens
<1>2. s[i] \in Chat!Starters
  BY <1>1 DEF Chat!Opens
<1>3. i \in Chat!CodeWords(s) /\ i \in DOMAIN s
  BY <1>1, <1>2, PositionsOf DEF Chat!Starters
<1>4. Chat!Opens(s, Chat!CodeWords(s), Chat!Starters)
  BY <1>1, <1>2, <1>3, PositionsOf DEF Chat!Opens
<1>5. s # <<>>
  BY <1>3, PositionsOf
<1>6. \A k \in Chat!CodeWords(s) : s[k] \notin Chat!Forbidden
  BY PositionsOf DEF Chat!Accepted, Chat!Forbidden
<1>7. Chat!Single(s)
  BY DEF Chat!Accepted, Chat!Single
<1> QED BY <1>4, <1>5, <1>6, <1>7 DEF Chat!Validated

(* What each step of a chat leaves for the next: a verdict about the statement
   the graph wrote, a row that tells the outcome, a result of what was run. *)
ChatType ==
  /\ sql \in Seq(Chat!Tokens) /\ sql_valid \in BOOLEAN
  /\ status \in {"succeeded", "failed"}
  /\ matching \in Nat /\ content \in Nat /\ sent \in Nat

VerdictInv ==
  /\ chatPc \in {"load_context", "generate_sql", "validate_sql"} => ~sql_valid
  /\ sql_valid => Chat!Validated(sql)
  /\ chatPc = "log_decision" => (sql_valid <=> Chat!Validated(sql))

RowInv ==
  /\ row # Chat!NoRow =>
       row = [status |-> status, sha |-> status = "succeeded", score |-> Chat!Score]
  /\ chatPc \in {"load_context", "generate_sql", "validate_sql", "log_decision", "persist"} =>
       row = Chat!NoRow
  /\ chatPc \in {"load_context", "generate_sql", "validate_sql", "log_decision"} =>
       status = "succeeded"

ResultInv ==
  /\ executed.kind = "rows" =>
       /\ status = "succeeded" /\ sql_valid /\ Chat!Accepted(sql)
       /\ executed.row_count = Chat!Fetched
  /\ chatPc \notin {"answer", "stream", "done"} => executed.kind = "none"

AnswerInv ==
  /\ sent <= content
  /\ response = 200 => told = Chat!Told /\ told.shown < content
  /\ chatPc \notin {"stream", "done"} => response = 0
  /\ chatPc = "done" /\ response = 200 => sent = content

ChatInv == ChatType /\ VerdictInv /\ RowInv /\ ResultInv /\ AnswerInv

LEMMA ChatInitially == Chat!Init => ChatInv
<1> SUFFICES ASSUME Chat!Init PROVE ChatInv
  OBVIOUS
<1>1. ChatType /\ AnswerInv
  <2>1. sql \in Seq(Chat!Tokens)
    BY EmptySeq DEF Chat!Init
  <2>2. 0 \in Nat /\ matching = 0 /\ content = 0 /\ sent = 0 /\ response = 0
        /\ chatPc = "load_context"
    BY DEF Chat!Init
  <2>3. ~sql_valid /\ sql_valid \in BOOLEAN /\ status = "succeeded"
    BY DEF Chat!Init
  <2>4. ChatType
    BY <2>1, <2>2, <2>3 DEF ChatType
  <2> QED BY <2>2, <2>4 DEF AnswerInv
<1>2. VerdictInv /\ RowInv
  BY DEF Chat!Init, VerdictInv, RowInv
<1>3. ResultInv
  BY DEF Chat!Init, ResultInv, Chat!NotExecuted
<1> QED BY <1>1, <1>2, <1>3 DEF ChatInv

LEMMA ChatStepKeepsInv ==
  ASSUME Chat!AnalyticsAssumption, ChatInv, [Chat!Next]_Chat!vars
  PROVE  ChatInv'
<1> USE DEF ChatInv, ChatType, VerdictInv, RowInv, ResultInv, AnswerInv, Chat!graphVars
<1> USE DEF Chat!Fetched, Chat!Told
<1>1. CASE Chat!LoadContext \/ Chat!LogDecision \/ Chat!GraphFails
  BY <1>1 DEF Chat!LoadContext, Chat!LogDecision, Chat!GraphFails, Chat!Score
<1>2. CASE Chat!GenerateSql
  <2>1. sql' \in Seq(Chat!Tokens)
    BY <1>2 DEF Chat!GenerateSql, Chat!Statements, Chat!SeqOf
  <2> QED BY <1>2, <2>1 DEF Chat!GenerateSql, Chat!AnalyticsAssumption, Chat!Score
<1>3. CASE Chat!ValidateSql
  BY <1>3 DEF Chat!ValidateSql, Chat!Score, Chat!Validated
<1>4. CASE Chat!Persist \/ Chat!PersistFails
  BY <1>4 DEF Chat!Persist, Chat!PersistFails, Chat!Score
<1>5. CASE Chat!BadGateway \/ Chat!Skip
  BY <1>5 DEF Chat!BadGateway, Chat!Skip, Chat!Score
<1>6. CASE Chat!Execute
  <2>1. Chat!Fetched' = Chat!Fetched
    BY <1>6 DEF Chat!Execute, Chat!Fetched
  <2>2. /\ executed'.kind = "rows" /\ executed'.row_count = Chat!Fetched
        /\ chatPc' = "answer" /\ status = "succeeded" /\ sql_valid /\ Chat!Accepted(sql)
        /\ UNCHANGED <<Chat!graphVars, row, matching, response, told, content, sent>>
        /\ chatPc = "execute"
    BY <1>6 DEF Chat!Execute, Chat!Runnable
  <2> QED BY <2>1, <2>2 DEF Chat!Score
<1>7. CASE Chat!ExecuteFails
  BY <1>7 DEF Chat!ExecuteFails, Chat!NotExecuted, Chat!Score, Chat!Fetched
<1>8. CASE Chat!Answer
  <2>1. PICK length \in (1 + Chat!Told.shown)..MaxContent :
          /\ content' = length
          /\ \/ chatPc' = "done" /\ sent' = length
             \/ chatPc' = "stream" /\ sent' = 0
    BY <1>8 DEF Chat!Answer
  <2>2. /\ chatPc = "answer" /\ response' = 200 /\ told' = Chat!Told
        /\ UNCHANGED <<Chat!graphVars, row, matching, executed>>
        /\ Chat!Told' = Chat!Told /\ Chat!Fetched' = Chat!Fetched /\ Chat!Score' = Chat!Score
    BY <1>8 DEF Chat!Answer, Chat!Told, Chat!Fetched, Chat!Score
  <2>3. Chat!Told.shown \in Nat
    <3>1. executed.kind = "rows" => executed.row_count \in Nat
      BY DEF Chat!Fetched, Chat!Least, Chat!AnalyticsAssumption
    <3> QED BY <3>1 DEF Chat!Told, Chat!NothingTold, Chat!Least, Chat!AnalyticsAssumption
  <2>4. content' \in Nat /\ sent' \in Nat /\ sent' <= content' /\ told'.shown < content'
    BY <2>1, <2>2, <2>3 DEF Chat!AnalyticsAssumption
  <2>5. chatPc' \in {"stream", "done"} /\ (chatPc' = "done" => sent' = content')
    BY <2>1
  <2> HIDE DEF Chat!Told
  <2> QED BY <2>2, <2>4, <2>5
<1>9. CASE Chat!Stream \/ Chat!FinishStream
  BY <1>9 DEF Chat!Stream, Chat!FinishStream, Chat!More, Chat!Least, Chat!Score,
              Chat!AnalyticsAssumption
<1>10. CASE UNCHANGED Chat!vars
  BY <1>10 DEF Chat!vars, Chat!Score
<1> QED BY <1>1, <1>2, <1>3, <1>4, <1>5, <1>6, <1>7, <1>8, <1>9, <1>10 DEF Chat!Next

-----------------------------------------------------------------------------
(* The LLM client. The attempts of a call number what has come back for them. *)
CallInv ==
  /\ max_retries \in Nat /\ max_retries \in MaxRetries
  /\ attempt \in 0..max_retries
  /\ responses \in Seq(Llm!Responses)
  /\ Len(responses) = attempt + (IF callPc \in {"post", "waiting"} THEN 0 ELSE 1)
  /\ callPc \in {"post", "waiting", "backoff"} \cup Llm!Ended
  /\ callPc = "backoff" => attempt < max_retries
  /\ callPc # "answered" => recorded = 0

LEMMA CallInitially == Llm!LlmClientAssumption /\ Llm!Init => CallInv
BY EmptySeq DEF Llm!LlmClientAssumption, Llm!Init, CallInv

LEMMA CallStepKeepsInv ==
  ASSUME CallInv, [Llm!Next]_Llm!vars
  PROVE  CallInv'
<1> USE DEF CallInv, Llm!Ended
<1>1. CASE Llm!Post
  BY <1>1 DEF Llm!Post
<1>2. CASE Llm!Answered \/ Llm!Unreadable
  BY <1>2 DEF Llm!Answered, Llm!Unreadable, Llm!Responses
<1>3. CASE Llm!AttemptFails
  BY <1>3 DEF Llm!AttemptFails, Llm!Caught, Llm!RetriesLeft, Llm!Responses
<1>4. CASE Llm!Sleep
  BY <1>4 DEF Llm!Sleep
<1>5. CASE UNCHANGED Llm!vars
  BY <1>5 DEF Llm!vars
<1> QED BY <1>1, <1>2, <1>3, <1>4, <1>5 DEF Llm!Next

(* Every step of the client is one of the promise, or none. *)
LEMMA CallStepIsAllowed ==
  ASSUME CallInv, [Llm!Next]_Llm!vars
  PROVE  [Llm!Call!Send \/ Llm!Call!Answer \/ Llm!Call!Fail]_(Llm!Call!vars)
<1> USE DEF CallInv, Llm!Ended
<1>1. CASE Llm!Post
  BY <1>1 DEF Llm!Post, Llm!Call!Send
<1>2. CASE Llm!Answered
  BY <1>2 DEF Llm!Answered, Llm!Call!Answer, Llm!Responses
<1>3. CASE Llm!Unreadable
  BY <1>3 DEF Llm!Unreadable, Llm!Call!Fail, Llm!Responses
<1>4. CASE Llm!AttemptFails
  BY <1>4 DEF Llm!AttemptFails, Llm!Caught, Llm!RetriesLeft, Llm!Responses, Llm!Call!Fail,
              Llm!Call!vars
<1>5. CASE Llm!Sleep
  BY <1>5 DEF Llm!Sleep, Llm!Call!vars
<1>6. CASE UNCHANGED Llm!vars
  BY <1>6 DEF Llm!vars, Llm!Call!vars
<1> QED BY <1>1, <1>2, <1>3, <1>4, <1>5, <1>6 DEF Llm!Next

LEMMA CallPromised ==
  ASSUME Llm!LlmClientAssumption
  PROVE  Llm!Init /\ [][Llm!Next]_Llm!vars => Llm!Call!Safe
<1>1. Llm!Init => CallInv /\ Llm!Call!Init
  BY CallInitially DEF Llm!Init, Llm!Call!Init
<1>2. CallInv /\ [Llm!Next]_Llm!vars =>
        CallInv' /\ [Llm!Call!Send \/ Llm!Call!Answer \/ Llm!Call!Fail]_(Llm!Call!vars)
  BY CallStepKeepsInv, CallStepIsAllowed
<1> QED BY <1>1, <1>2, PTL DEF Llm!Call!Safe

-----------------------------------------------------------------------------
(* The composition. A step of one agent leaves the others alone. *)
LEMMA AgentsAreTheirParts ==
  AgentsSpec =>
    /\ Init /\ [][Next]_vars
    /\ Sim!Init /\ [][Sim!Next]_Sim!vars
    /\ Chat!Init /\ [][Chat!Next]_Chat!vars
    /\ Llm!Init /\ [][Llm!Next]_Llm!vars
<1>1. AgentsInit => Init /\ Sim!Init /\ Chat!Init /\ Llm!Init
  BY DEF AgentsInit
<1>2. /\ UNCHANGED simVars => UNCHANGED Sim!vars
      /\ UNCHANGED chatVars => UNCHANGED Chat!vars
      /\ UNCHANGED callVars => UNCHANGED Llm!vars
  BY DEF simVars, chatVars, callVars, Sim!vars, Chat!vars, Chat!graphVars, Llm!vars
<1>3. ASSUME [AgentsNext]_agentVars
      PROVE  /\ [Next]_vars /\ [Sim!Next]_Sim!vars
             /\ [Chat!Next]_Chat!vars /\ [Llm!Next]_Llm!vars
  <2>1. CASE ResearchStep
    BY <1>2, <2>1 DEF ResearchStep
  <2>2. CASE SimulateNode \/ SimulateCall \/ SimulatePrompt
    <3>1. Sim!Next /\ UNCHANGED <<vars, chatVars, callVars>>
      BY <2>2 DEF SimulateNode, SimulateCall, SimulatePrompt, Sim!Next
    <3> QED BY <1>2, <3>1
  <2>3. CASE ChatStep
    BY <1>2, <2>3 DEF ChatStep
  <2>4. CASE CallStep
    BY <1>2, <2>4 DEF CallStep
  <2>5. CASE UNCHANGED agentVars
    BY <1>2, <2>5 DEF agentVars
  <2> QED BY <1>3, <2>1, <2>2, <2>3, <2>4, <2>5 DEF AgentsNext
<1> QED BY <1>1, <1>3, PTL DEF AgentsSpec

(* persist_decision_log: the row of a simulation that succeeded counts every
   call that was answered, drafts and reactions, parsed or not, and none of them
   was still open: for any number of drafts and personas. *)
THEOREM RowsCountCalls == AgentsSpec => []RowCountsCalls
<1>1. SimInv => RowCountsCalls
  BY ComponentAssumptions, RowsCount
<1> QED BY <1>1, ComponentAssumptions, AgentsAreTheirParts, SimInvariant, PTL DEF Sim!Spec

(* score_variants and pick_winner: no draft with more support or less opposition,
   and nothing less, loses to the winner, nor does one that every persona of up to
   four supports. One reaction shows in the four digits of a score as long as
   there are no more than 2500 personas. *)
THEOREM WinnersWin ==
  ASSUME Cardinality(SimPersonas) <= 2500
  PROVE  AgentsSpec => []WinnerIsUnbeaten
<1>1. SimInv => WinnerIsUnbeaten
  BY ComponentAssumptions, WinnersAreUnbeaten
<1> QED BY <1>1, ComponentAssumptions, AgentsAreTheirParts, SimInvariant, PTL DEF Sim!Spec

(* asyncio.gather leaves the siblings of a failed call running: the answers that
   come after a run has failed, or is done, change neither its outcome nor what
   it recorded. *)
THEOREM LateAnswersAreDropped == AgentsSpec => LateAnswersChangeNothing
<1> DEFINE Late ==
      /\ simPc \in {"failing", "failed", "done"} =>
           simPc' \in {simPc, "failed"} /\ UNCHANGED <<usage, ranking, winner>>
      /\ simRow' # simRow => simPc' = (IF simRow'.status = "succeeded" THEN "done" ELSE "failed")
<1>1. ASSUME [Sim!Next]_Sim!vars PROVE Late
  <2>1. CASE Sim!Call
    <3>1. ASSUME NEW d, Sim!DraftAnswers(d) \/ Sim!DraftFails(d) PROVE Late
      BY <3>1 DEF Sim!DraftAnswers, Sim!DraftFails
    <3>2. ASSUME NEW d, NEW p, Sim!ReactionAnswers(d, p) \/ Sim!ReactionFails(d, p) PROVE Late
      BY <3>2 DEF Sim!ReactionAnswers, Sim!ReactionFails
    <3> QED BY <2>1, <3>1, <3>2 DEF Sim!Call
  <2>2. CASE Sim!ReactionPromptRaises
    BY <2>2 DEF Sim!ReactionPromptRaises
  <2>3. CASE Sim!SpawnPersonas \/ Sim!JoinDrafts \/ Sim!JoinReactions \/ Sim!ScoreVariants
               \/ Sim!PickWinner
    BY <2>3 DEF Sim!SpawnPersonas, Sim!JoinDrafts, Sim!JoinReactions, Sim!ScoreVariants,
                Sim!PickWinner
  <2>4. CASE Sim!LogDecision
    BY <2>4 DEF Sim!LogDecision, Sim!WriteRow
  <2>5. CASE Sim!LogFailure
    BY <2>5 DEF Sim!LogFailure, Sim!WriteRow
  <2>6. CASE UNCHANGED Sim!vars
    BY <2>6 DEF Sim!vars
  <2> QED BY <1>1, <2>1, <2>2, <2>3, <2>4, <2>5, <2>6 DEF Sim!Next, Sim!Node
<1>2. [Sim!Next]_Sim!vars => [Late]_Sim!vars
  BY <1>1
<1> HIDE DEF Late
<1>3. [][Sim!Next]_Sim!vars => [][Late]_Sim!vars
  BY <1>2, PTL
<1> QED BY <1>3, AgentsAreTheirParts, PTL
        DEF Late, LateAnswersChangeNothing, Sim!LateAnswersChangeNothing

LEMMA ChatInvariant == AgentsSpec => []ChatInv
<1>1. ChatInv /\ [Chat!Next]_Chat!vars => ChatInv'
  BY ComponentAssumptions, ChatStepKeepsInv
<1> QED BY <1>1, ChatInitially, AgentsAreTheirParts, PTL

(* chat_completions: what reached DuckDB had passed both guards and its row says
   so; the number of rows in the answer is all there were or the client's limit,
   the table is short of it by what exceeds its own limit only, and a stream that
   has ended carried the whole answer, whatever the lengths and the limits. *)
THEOREM AnswersAreAccountedFor == AgentsSpec => []AnswerIsAccountedFor
<1>1. ChatInv => Chat!RunOnRecord
  BY DEF ChatInv, VerdictInv, RowInv, ResultInv, Chat!RunOnRecord, Chat!Score
<1>2. ChatInv => Chat!AnswerTellsTheRows
  <2> SUFFICES ASSUME ChatInv, chatPc = "done", response = 200
               PROVE  /\ sent = content /\ told.kind = executed.kind
                      /\ told.kind = "rows" =>
                           /\ told.said = matching \/ (told.said = MaxRows /\ MaxRows < matching)
                           /\ \/ told.shown = told.said
                              \/ told.shown = ShownRows /\ ShownRows < told.said
                           /\ told.shown < content
    BY DEF Chat!AnswerTellsTheRows
  <2>1. /\ sent = content /\ told = Chat!Told /\ told.shown < content /\ matching \in Nat
        /\ executed.kind = "rows" => executed.row_count = Chat!Fetched
    BY DEF ChatInv, ChatType, ResultInv, AnswerInv
  <2>2. told.kind = executed.kind
    BY <2>1 DEF Chat!Told, Chat!NothingTold
  <2>3. executed.kind = "rows" => /\ told.said = Chat!Fetched
                                  /\ told.shown = Chat!Least(Chat!Fetched, ShownRows)
    BY <2>1 DEF Chat!Told
  <2>4. /\ Chat!Fetched \in Nat
        /\ Chat!Fetched = matching \/ (Chat!Fetched = MaxRows /\ MaxRows < matching)
    BY <2>1, ComponentAssumptions DEF Chat!Fetched, Chat!Least, Chat!AnalyticsAssumption
  <2>5. ShownRows \in Nat
    BY ComponentAssumptions DEF Chat!AnalyticsAssumption
  <2> QED BY <2>1, <2>2, <2>3, <2>4, <2>5 DEF Chat!Least
<1> QED BY <1>1, <1>2, ChatInvariant, PTL DEF AnswerIsAccountedFor

(* validate_sql and assert_readonly_sql, which are written twice, judge a statement
   of any length alike: what only the first lets pass has a comment or a keyword of
   the client's own list, what only the second lets pass opens with a word of the
   client's own, or has unbalanced parentheses, or is too long. *)
THEOREM TheGuardsAgree == AgentsSpec => []GuardsAgree
<1>1. ChatInv => GuardsAgree
  <2> SUFFICES ASSUME ChatInv, chatPc = "log_decision"
               PROVE  /\ sql_valid /\ ~Chat!Accepted(sql) =>
                           {"comment", "prepare"} \cap Chat!ToSet(sql) # {}
                      /\ ~sql_valid /\ Chat!Accepted(sql) =>
                           \/ Chat!Opens(sql, Chat!Words(sql), Chat!ClientStarters \ Chat!Starters)
                           \/ Chat!Count(sql, "(") # Chat!Count(sql, ")")
                           \/ ~(Len(sql) <= MaxLength)
    <3>1. Len(sql) \in Nat /\ MaxLength \in Nat
      BY ComponentAssumptions, LenProperties
      DEF ChatInv, ChatType, Chat!AnalyticsAssumption, Chat!SqlAssumption
    <3>2. ~(Len(sql) <= MaxLength) => Len(sql) > MaxLength
      BY <3>1
    <3> QED BY <3>2 DEF GuardsAgree, Chat!GuardsAgree
  <2>1. sql \in Seq(Chat!Tokens) /\ (sql_valid <=> Chat!Validated(sql))
    BY DEF ChatInv, ChatType, VerdictInv
  <2>2. {"comment", "prepare"} \cap Chat!ToSet(sql) = {} =>
          \A i \in DOMAIN sql : sql[i] \notin {"comment", "prepare"}
    BY DEF Chat!ToSet
  <2> QED BY <2>1, <2>2, ValidatedIsAccepted, AcceptedIsValidated
<1> QED BY <1>1, ChatInvariant, PTL

(* LiteLLMClient.chat sends no more requests than max_retries allows, none of
   them after it has ended, and records usage for an answer only: the safety half
   of LlmCall, which the client implements. *)
THEOREM ClientKeepsItsPromise == AgentsSpec => Llm!Call!Safe
BY ComponentAssumptions, CallPromised, AgentsAreTheirParts, PTL

=============================================================================
