-------------------------------- MODULE Metrics --------------------------------
(***************************************************************************)
(* The retrieval metrics (server/metrics.py).  A ranking is a sequence of  *)
(* chunk ids, what is relevant a set of them.  Rationals are records       *)
(* [num, den], compared by cross-multiplication, and None stands for       *)
(* Python's None; the irrational gains of nDCG are the constant Gain, of   *)
(* which only its being positive and decreasing matters.                   *)
(***************************************************************************)
EXTENDS Naturals, Integers, SequencesExt

CONSTANT Gain            \* Gain[i] stands for 1 / log2(i + 1)

ASSUME GainAssumption ==
  Gain \in Seq(Nat \ {0}) /\ \A i, j \in DOMAIN Gain : i < j => Gain[i] > Gain[j]

None == [num |-> 0, den |-> 0]

Ratio(n, d) == [num |-> n, den |-> d]
Is(x, n) == x # None /\ x.num = n * x.den
Within01(x) == x # None => 0 <= x.num /\ x.num <= x.den

Top(ranked, k) == SubSeq(ranked, 1, IF k < Len(ranked) THEN k ELSE Len(ranked))
HitsIn(ranked, rel) == {i \in DOMAIN ranked : ranked[i] \in rel}

PrecisionAtK(ranked, rel, k) ==
  LET top == Top(ranked, k) IN
    IF top = <<>> THEN None ELSE Ratio(Cardinality(HitsIn(top, rel)), Len(top))

RecallAtK(ranked, rel, k) ==
  IF rel = {} THEN None
  ELSE Ratio(Cardinality(HitsIn(Top(ranked, k), rel)), Cardinality(rel))

Mrr(ranked, rel) ==
  IF HitsIn(ranked, rel) = {} THEN Ratio(0, 1) ELSE Ratio(1, Min(HitsIn(ranked, rel)))

(* A set of numbers in its order. *)
Ascending(S) ==
  [n \in 1..Cardinality(S) |-> CHOOSE x \in S : Cardinality({y \in S : y < x}) = n - 1]

GainOf(places) == MapThenSumSet(LAMBDA i : Gain[i], places)

(* Mutant: the ideal ranking is not cut off at k. *)
NdcgUncut(ranked, rel, k) ==
  IF rel = {} \/ k = 0 THEN None
  ELSE Ratio(GainOf(HitsIn(Top(ranked, k), rel)), GainOf(1..Cardinality(rel)))

Ndcg(ranked, rel, k) ==
  IF rel = {} \/ k = 0 THEN None
  ELSE Ratio(GainOf(HitsIn(Top(ranked, k), rel)), GainOf(1..Min({Cardinality(rel), k})))

(* The last place of an item, as the dict comprehension leaves it. *)
Place(ranked, c) == Max({i \in DOMAIN ranked : ranked[i] = c})

Common(before, after) ==
  LET places == {i \in DOMAIN before : before[i] \in ToSet(after)}
  IN [n \in 1..Cardinality(places) |-> before[Ascending(places)[n]]]

KendallTau(before, after) ==
  LET common     == Common(before, after)
      pos(i)     == Place(after, common[i])
      pairs      == {ij \in (DOMAIN common) \X (DOMAIN common) : ij[1] < ij[2]}
      concordant == Cardinality({ij \in pairs : pos(ij[1]) < pos(ij[2])})
      discordant == Cardinality({ij \in pairs : pos(ij[1]) > pos(ij[2])})
  IN IF concordant + discordant = 0 THEN None
     ELSE Ratio(concordant - discordant, concordant + discordant)

ChunkUtilization(retrieved, context) ==
  IF retrieved = <<>> THEN None
  ELSE Ratio(Cardinality(HitsIn(retrieved, ToSet(context))), Len(retrieved))

(* _mean *)
Plus(x, y) ==
  IF y = None THEN x ELSE Ratio(x.num * y.den + y.num * x.den, x.den * y.den)

Mean(values) ==
  LET there == Cardinality({i \in DOMAIN values : values[i] # None})
      sum   == FoldLeft(Plus, Ratio(0, 1), values)
  IN IF there = 0 THEN None ELSE Ratio(sum.num, sum.den * there)

(* evaluate_traces, over a sequence of [ranked, relevant] pairs *)
Measured(pair, k) ==
  [precision |-> PrecisionAtK(pair.ranked, pair.relevant, k),
   recall    |-> RecallAtK(pair.ranked, pair.relevant, k),
   mrr       |-> Mrr(pair.ranked, pair.relevant),
   ndcg      |-> Ndcg(pair.ranked, pair.relevant, k)]

Evaluated(pairs, k) == [i \in DOMAIN pairs |-> Measured(pairs[i], k)]

Aggregate(pairs, k) ==
  [metric \in {"precision", "recall", "mrr", "ndcg"} |->
     Mean([i \in DOMAIN pairs |-> Evaluated(pairs, k)[i][metric]])]

------------------------------------------------------------------------------
(* What the metrics say if no chunk is twice in a list.  The code counts a *)
(* chunk as often as it is listed, so that one that is retrieved twice can *)
(* make recall and nDCG greater than 1.                                    *)

(* Recall is 1 when all that is relevant is in the top k, the reciprocal   *)
(* rank is 0 when nothing is found, and nDCG is 1 when the top holds as    *)
(* much of what is relevant as it can with nothing before it               *)
(* (metrics.py:13-44).                                                     *)
RankingMeasured(pair, k) ==
  LET m   == Measured(pair, k)
      top == ToSet(Top(pair.ranked, k))
      rel == pair.relevant
  IN /\ \A metric \in DOMAIN m : Within01(m[metric])
     /\ Is(m.recall, 1) <=> rel # {} /\ rel \subseteq top
     /\ Is(m.mrr, 0) <=> ToSet(pair.ranked) \cap rel = {}
     /\ Is(m.ndcg, 1) <=>
          /\ rel # {} /\ k > 0
          /\ \/ ToSet(Top(pair.ranked, Cardinality(rel))) = rel
             \/ Len(pair.ranked) >= k /\ top \subseteq rel

(* Tau is 1 when what is common to two lists is in the same order in both, *)
(* -1 when the one reverses the other, and None when there is no order to  *)
(* compare (metrics.py:47-66).                                             *)
OrderMeasured(listed, reranked) ==
  LET before == Common(listed, reranked)
      after  == Common(reranked, before)
      tau    == KendallTau(listed, reranked)
  IN /\ tau = None <=> Len(before) < 2
     /\ Is(tau, 1) <=> before = after /\ Len(before) > 1
     /\ Is(tau, -1) <=> before = Reverse(after) /\ Len(before) > 1
==============================================================================
