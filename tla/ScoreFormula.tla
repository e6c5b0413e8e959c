------------------------------ MODULE ScoreFormula ------------------------------
(***************************************************************************)
(* The two integer formulas that turn a validator's judgement into the     *)
(* score selection consumes: services/score_formula.py and                 *)
(* services/diversity_formula.py, with the counts the latter reads from    *)
(* services/provider_families.py.  Python's // is TLA+'s \div (both round  *)
(* towards minus infinity).                                                *)
(***************************************************************************)
EXTENDS Integers, FiniteSets, Sequences

CONSTANT Unknown   \* None: an axis whose value could not be resolved
ASSUME UnknownAssumption == Unknown \notin Int

Points == 0..100

\* The sub-scores the parser accepts; the model's diversity is advisory and
\* replaced by the computed one.
Judgements ==
  [consensus : Points, reliability : Points, software : Points, identity : Points]

-----------------------------------------------------------------------------
(* Diversity.                                                              *)

AxisPoints == 50
AxisPenalty == 119
UnknownAxisPoints == 10

AxisNumerator(sharing, others) ==
  IF sharing = Unknown THEN UnknownAxisPoints * others
  ELSE LET left == AxisPoints * others - AxisPenalty * (sharing - 1)
       IN  IF left > 0 THEN left ELSE 0

AxisAlone(sharing) == IF sharing = Unknown THEN UnknownAxisPoints ELSE AxisPoints

\* Half up, in integers.
Diversity(country, provider, resolved) ==
  LET others == resolved - 1
      numerator == AxisNumerator(country, others) + AxisNumerator(provider, others)
  IN  IF others < 1 THEN AxisAlone(country) + AxisAlone(provider)
      ELSE (2 * numerator + others) \div (2 * others)

\* What normalize_provider_name leaves of a name, in words: asn.words are those
\* after " - ", without country, punctuation and trailing digits.
NoiseTokens == {"as", "asn", "inc", "llc", "ltd", "gmbh", "ag", "sa", "srl", "bv", "co",
                "corp", "corporation", "company", "holdings"}

ProviderName(asn) == SelectSeq(asn.words, LAMBDA word : word \notin NoiseTokens)

FamilyRules ==
  <<[family |-> <<"hetzner">>, needles |-> {"hetzner"}],
    [family |-> <<"vultr">>, needles |-> {"vultr", "constant"}],
    [family |-> <<"akamai">>, needles |-> {"akamai", "linode"}]>>

\* The first rule that applies, or the name itself; a name of which nothing is
\* left is a family of its own, and "unknown" is the code's word for no family.
Family(asn) ==
  IF asn = Unknown THEN Unknown
  ELSE LET name == ProviderName(asn)
           rules == SelectSeq(FamilyRules,
                              LAMBDA rule : \E i \in DOMAIN name : name[i] \in rule.needles)
       IN  CASE name = <<>> -> <<asn.raw>>
             [] name = <<"unknown">> -> Unknown
             [] rules # <<>> -> rules[1].family
             [] OTHER -> name

\* Where a snapshot's validators are: country and provider family, either
\* Unknown.
Located(snapshot) ==
  [v \in DOMAIN snapshot |->
     [country |-> snapshot[v].country, provider |-> Family(snapshot[v].asn)]]

Sharing(place, v, axis) ==
  IF place[v][axis] = Unknown THEN Unknown
  ELSE Cardinality({w \in DOMAIN place : place[w][axis] = place[v][axis]})

Resolved(place) == Cardinality({v \in DOMAIN place : place[v].provider # Unknown})

\* build_diversity_inputs, frozen with the round.
DiversityInputs(place) ==
  [resolved |-> Resolved(place),
   counts |-> [v \in DOMAIN place |->
                 [country |-> Sharing(place, v, "country"),
                  provider |-> Sharing(place, v, "provider")]]]

-----------------------------------------------------------------------------
(* The final score.                                                        *)

ConsensusGateMargin == 25

WeightedSum(judgement, diversity) ==
  (50 * judgement.consensus + 20 * judgement.reliability + 10 * judgement.software
     + 10 * diversity + 10 * judgement.identity) \div 100

\* Faulty: secondary virtues substitute for consensus.
FinalScoreUngated(judgement, diversity) == WeightedSum(judgement, diversity)

FinalScore(judgement, diversity) ==
  LET gate == judgement.consensus + ConsensusGateMargin
      sum == WeightedSum(judgement, diversity)
  IN  IF sum <= gate THEN sum ELSE gate

\* apply_formula(apply_diversity_formula(result, inputs)).
FinalScores(judgements, inputs) ==
  [v \in DOMAIN judgements |->
     FinalScore(judgements[v],
                Diversity(inputs.counts[v].country, inputs.counts[v].provider,
                          inputs.resolved))]
=============================================================================
