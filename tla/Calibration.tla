----------------------------- MODULE Calibration -----------------------------
(***************************************************************************)
(* Model Work's algorithms: the cold-start ramp, novelty, the per-stratum  *)
(* calibrator and its training data, the calibration error, and the        *)
(* routing outcome of a field.                                             *)
(*                                                                         *)
(* Probabilities are whole numbers of 1/Scale.  A stratum is a model value *)
(* (the five-part key of stratum.py); an embedding has one dimension; what *)
(* a fitted regression answers is any probability.                         *)
(***************************************************************************)
EXTENDS Integers, Sequences, FiniteSetsExt, SequencesExt

CONSTANTS
    Scale,  \* the units of probability 1
    None    \* a missing signal, or no cluster

ASSUME ScaleAssumption == Scale \in Nat \ {0}

Clamp(v) == IF v < 0 THEN 0 ELSE IF v > Scale THEN Scale ELSE v

-----------------------------------------------------------------------------
(* The cold-start ramp.                                                    *)

ValidTransitions ==
    [shadow     |-> {"shadow", "ramp"},
     ramp       |-> {"ramp", "steady", "regression"},
     steady     |-> {"steady", "regression"},
     regression |-> {"regression", "ramp"}]

AutoAcceptAllowed(state) == state \in {"ramp", "steady"}

NextState(current, exit, alert, recovery) ==
    CASE current = "shadow"     -> IF exit THEN "ramp" ELSE "shadow"
      [] current = "ramp"       -> IF alert THEN "regression" ELSE IF exit THEN "steady" ELSE "ramp"
      [] current = "steady"     -> IF alert THEN "regression" ELSE "steady"
      [] current = "regression" -> IF alert \/ ~recovery THEN "regression" ELSE "ramp"

\* validate_transition: an illegal target raises, and the state stays.
Validated(current, target) ==
    IF target \in ValidTransitions[current] THEN target ELSE current

\* A mutant: the ramp is left on its samples alone.
LeavesOnSamples(current, e, min) ==
    Validated(current, NextState(current,
        CASE current = "shadow" -> e.samples >= min.shadow
          [] current = "ramp"   -> e.samples >= min.ramp
          [] OTHER              -> FALSE,
        e.alert,
        e.recovered /\ e.samples >= min.recovery))

\* e is the evidence observed, e.verified that the calibration is verified
\* and the error target met; min is the samples each state asks for.
ColdStartTransition(current, e, min) ==
    Validated(current, NextState(current,
        CASE current = "shadow" -> e.samples >= min.shadow
          [] current = "ramp"   -> e.samples >= min.ramp /\ e.verified
          [] OTHER              -> FALSE,
        e.alert,
        e.recovered /\ e.samples >= min.recovery))

-----------------------------------------------------------------------------
(* Novelty, from the embedding and the stratum, never from a confidence.   *)

ClusterId(f) ==
    CASE f.writer # None -> <<"writer", f.writer>>
      [] f.writer = None /\ f.doc # None -> <<"doc", f.doc>>
      [] OTHER -> <<"stratum", f.stratum>>

Outside(f, score, reason) ==
    [score |-> score, outside |-> TRUE, reason |-> reason, cluster |-> ClusterId(f)]
InRegime(score) ==
    [score |-> score, outside |-> FALSE, reason |-> "in_regime", cluster |-> None]

Distance(u, v) == Clamp(IF u < v THEN v - u ELSE u - v)

\* A mutant: an unseen stratum is left to the pooled fallback.
UnseenInRegime(f, prototypes, threshold) ==
    IF f.embedding # None /\ f.stratum \in DOMAIN prototypes
          /\ Distance(f.embedding, prototypes[f.stratum]) > threshold
    THEN Outside(f, Scale, "embedding_distance_exceeded")
    ELSE InRegime(0)

\* prototypes is a function on the strata a detector knows.  Whether the
\* policy rejects unseen strata makes no difference: the last fallback
\* rejects them as well.  A detector without prototypes rejects nothing.
EvaluateNovelty(f, prototypes, threshold) ==
    LET known == f.stratum \in DOMAIN prototypes
        score == Distance(f.embedding, prototypes[f.stratum])
    IN CASE ~known /\ DOMAIN prototypes # {} -> Outside(f, Scale, "unseen_stratum")
         [] known /\ f.embedding # None ->
                IF score > threshold THEN Outside(f, score, "embedding_distance_exceeded")
                                     ELSE InRegime(score)
         [] OTHER -> InRegime(0)

-----------------------------------------------------------------------------
(* The features.                                                           *)

\* The validators that judged the field, each with its last verdict.
Judging(id, results) == {results[i].validator : i \in {j \in DOMAIN results : id \in results[j].fields}}
LastVerdict(id, results, v) ==
    results[Max({j \in DOMAIN results : id \in results[j].fields /\ results[j].validator = v})].verdict

\* The names and the values of a feature vector; categories is a sequence.
FeatureNames(categories, indicators) ==
    <<"token_confidence", "layout_certainty">>
      \o (IF indicators THEN <<"layout_is_missing">> ELSE <<>>)
      \o <<"normalization_confidence">>
      \o (IF indicators THEN <<"normalization_is_missing">> ELSE <<>>)
      \o <<"validator_pass_ratio", "validator_has_failure">>
      \o (IF indicators THEN <<"has_validators">> ELSE <<>>)
      \o <<"is_handwritten", "legibility_score">> \o categories

Flag(b) == IF b THEN Scale ELSE 0
Signal(s) == IF s = None THEN Scale \div 2 ELSE s
PassRatio(verdicts) ==
    IF verdicts = {} THEN Scale
    ELSE (Scale * Cardinality({v \in verdicts : v[2] = "pass"})) \div Cardinality(verdicts)

\* A mutant: the missingness flags are gathered behind the signals.
EncodeFlagsLast(f, categories, indicators) ==
    <<f.confidence, Signal(f.layout), Signal(f.norm)>>
      \o (IF indicators THEN <<Flag(f.layout = None), Flag(f.norm = None)>> ELSE <<>>)
      \o <<PassRatio(f.verdicts), Flag(\E v \in f.verdicts : v[2] = "fail")>>
      \o (IF indicators THEN <<Flag(f.verdicts # {})>> ELSE <<>>)
      \o <<Flag(f.handwritten), f.legibility>>
      \o [i \in DOMAIN categories |-> Flag(categories[i] \in f.categories)]

Encode(f, categories, indicators) ==
    <<f.confidence, Signal(f.layout)>>
      \o (IF indicators THEN <<Flag(f.layout = None)>> ELSE <<>>)
      \o <<Signal(f.norm)>>
      \o (IF indicators THEN <<Flag(f.norm = None)>> ELSE <<>>)
      \o <<PassRatio(f.verdicts), Flag(\E v \in f.verdicts : v[2] = "fail")>>
      \o (IF indicators THEN <<Flag(f.verdicts # {})>> ELSE <<>>)
      \o <<Flag(f.handwritten), f.legibility>>
      \o [i \in DOMAIN categories |-> Flag(categories[i] \in f.categories)]

-----------------------------------------------------------------------------
(* Training data and the calibration error.                                *)

PagesOf(labels) == {l.page : l \in Range(labels)}

\* The frozen regression suite: no label of one of its pages may be used.
Leaks(labels, suite) == PagesOf(labels) \cap suite # {}

\* A mutant: the labels are split, not the pages.
PartitionByLabel(labels, num, den, suite) ==
    LET n == Len(labels) - (Len(labels) * num) \div den
    IN [refused |-> FALSE,
        train |-> Restrict(labels, 1..n), eval |-> Restrict(labels, (n + 1)..Len(labels))]

\* The last pages in the order of their digests are held out: the fraction
\* num/den of them, at least one, none when there is only one.  Each side has
\* its labels at the places they had.
Partition(labels, num, den, suite) ==
    LET pages == PagesOf(labels)
        n == Cardinality(pages)
        held == IF n <= 1 THEN 0 ELSE Max({1, (n * num) \div den})
        eval == {p \in pages : Cardinality({q \in pages : q > p}) < held}
        On(side) == Restrict(labels, {i \in DOMAIN labels : labels[i].page \in side})
    IN IF Leaks(labels, suite) THEN [refused |-> TRUE, train |-> <<>>, eval |-> <<>>]
       ELSE [refused |-> FALSE, train |-> On(pages \ eval), eval |-> On(eval)]

\* A stratum is calibrated by its own model from min labels on.
CountOf(labels, stratum) == Cardinality({i \in DOMAIN labels : labels[i].stratum = stratum})
TrainPerStratum(labels, min) ==
    {stratum \in {labels[i].stratum : i \in DOMAIN labels} : CountOf(labels, stratum) >= min}
Regime(models, stratum) ==
    IF stratum \in models THEN "stratum_specific" ELSE "pooled_fallback"

\* The sum of a sequence of numbers.
Total(v) ==
    LET sum[n \in 0..Len(v)] == IF n = 0 THEN 0 ELSE sum[n - 1] + v[n] IN sum[Len(v)]

\* A mutant: a certain prediction falls behind the last bin.
BinBehindLast(p, bins) == (p * bins) \div Scale

\* What came true of the predictions of one bin, less what was promised.
Bin(p, bins) == Min({(p * bins) \div Scale, bins - 1})
BinGap(predictions, bins, b) ==
    Total([i \in DOMAIN predictions |->
             IF Bin(predictions[i].confidence, bins) = b
             THEN Flag(predictions[i].correct) - predictions[i].confidence ELSE 0])

\* Times the number of predictions: the sum of the differences over the bins.
Abs(v) == IF v < 0 THEN -v ELSE v
CalibrationError(predictions, bins) ==
    Total([k \in 1..bins |-> Abs(BinGap(predictions, bins, k - 1))])

-----------------------------------------------------------------------------
(* The routing outcome.                                                    *)

\* A mutant: the posture is asked before the validators.
OutcomeByPosture(confidence, target, state, conflict, outside, sample) ==
    CASE outside -> "outside_calibrated_regime"
      [] ~outside /\ confidence >= Scale - target /\ AutoAcceptAllowed(state) ->
            IF sample THEN "audit_sample" ELSE "auto_accept"
      [] OTHER -> IF conflict THEN "conflict" ELSE "review"

RoutingOutcome(confidence, target, state, conflict, outside, sample) ==
    CASE outside -> "outside_calibrated_regime"
      [] ~outside /\ conflict -> "conflict"
      [] ~outside /\ ~conflict ->
            IF confidence < Scale - target \/ ~AutoAcceptAllowed(state) THEN "review"
            ELSE IF sample THEN "audit_sample" ELSE "auto_accept"

Failed(id, results) == \E i \in DOMAIN results : id \in results[i].fields /\ results[i].verdict = "fail"

\* What the work envelope must have pinned; a detector asks for its own version.
Needed(detector) ==
    {"confidence_calibrator", "config"} \cup (IF detector = None THEN {} ELSE {"novelty_detector"})

\* A field with its validation results, judged by a novelty detector, if there
\* is one, and a calibrator that answers the given probability.  x.outside and
\* x.conflict are what the caller says of it.
Decide(x, answer, detector, target, state, sample) ==
    LET novelty == IF detector = None THEN InRegime(x.novelty_score)
                   ELSE EvaluateNovelty(x, detector.prototypes, detector.threshold)
    IN IF ~(Needed(detector) \subseteq x.pinned)
       THEN [outcome |-> "refused", novelty_score |-> None, cluster |-> None]
       ELSE [outcome |-> RoutingOutcome(Clamp(answer), target, state, x.conflict \/ Failed(x.id, x.results),
                                 x.outside \/ novelty.outside, sample),
             novelty_score |-> novelty.score,
             cluster |-> novelty.cluster]
=============================================================================
