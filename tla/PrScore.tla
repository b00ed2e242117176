------------------------------ MODULE PrScore ------------------------------
(***************************************************************************)
(* scripts/compare_eval.py and scripts/score_pr_delta.py as operators: two *)
(* artifacts of one benchmark run, made with the agent before and after a  *)
(* pull request, become a diff, and the diff a performance band.  Scores   *)
(* are in thousandths, the precision of an artifact and of _delta, so that *)
(* rounding only removes the noise of the subtraction.                     *)
(***************************************************************************)
EXTENDS Integers, FiniteSets, FiniteSetsExt

CONSTANTS
    None,         \* an absent key, Python's None
    Null,         \* reported, and no number: JSON null, text, a list, a truth value
    Corrupt,      \* reported, and no finite number: NaN, Infinity, a huge literal
    Limit,        \* largest difference that is still a finite number
    NoiseFloor    \* the option --noise-floor

ASSUME ScoreAssumption ==
    /\ None # Null /\ None # Corrupt /\ Null # Corrupt
    /\ {None, Null, Corrupt} \cap Int = {}
    /\ Limit \in Nat
    /\ NoiseFloor \in Nat

-----------------------------------------------------------------------------
(* Artifacts.  A slice is what one score is read from: a single-repository *)
(* result, a multi-repository result, a partition of a generalization      *)
(* report, or a row of per_repo.                                           *)

Axes == {"judge_mean", "objective_mean"}            \* PARETO_AXES
Unusable == {Null, Corrupt}
Values == Int \cup {None} \cup Unusable
Slices == [scored_repos : Values, tasks : Values, composite_mean : Values,
           judge_mean : Values, objective_mean : Values, foresight : Values]
AbsentSlice == [scored_repos |-> None, tasks |-> None, composite_mean |-> None,
                judge_mean |-> None, objective_mean |-> None, foresight |-> None]

\* slices: "whole" for a standard artifact, "tuned" and "held_out" for a
\* generalization report.  per_repo: repository -> its row.
IsGeneralization(artifact) == DOMAIN artifact.slices = {"tuned", "held_out"}
IsArtifact(artifact) ==
    /\ DOMAIN artifact.slices \in {{"whole"}, {"tuned", "held_out"}}
    /\ \A part \in DOMAIN artifact.slices : artifact.slices[part] \in Slices
SliceOf(artifact, part) ==
    IF part \in DOMAIN artifact.slices THEN artifact.slices[part] ELSE AbsentSlice

-----------------------------------------------------------------------------
(* compare_eval                                                            *)

\* _numeric
Numeric(value) == IF value \in Unusable THEN None ELSE value

\* A count of tasks that is there and not positive.
PerRepoUnavailable(slice) ==
    slice.tasks # None /\ (Numeric(slice.tasks) = None \/ slice.tasks <= 0)

\* The score is a placeholder: scored_repos decides when it is a number, be it
\* infinite, and tasks otherwise.
IsScoredUnavailable(slice) ==
    IF slice.scored_repos \in Int \cup {Corrupt} THEN slice.scored_repos = 0
    ELSE PerRepoUnavailable(slice)

EffectiveCompositeMean(slice) ==
    IF IsScoredUnavailable(slice) THEN None ELSE slice.composite_mean
EffectivePart(slice, axis) ==
    IF IsScoredUnavailable(slice) THEN None ELSE slice[axis]

\* Two finite numbers may differ by more than a float can hold.
DeltaOf(candidate, baseline) ==
    LET c == Numeric(candidate)
        b == Numeric(baseline)
    IN  IF c = None \/ b = None THEN None
        ELSE IF c - b \in -Limit .. Limit THEN c - b ELSE None

MetricTriplet(baseline, candidate) ==
    [baseline |-> Numeric(baseline), candidate |-> Numeric(candidate),
     delta |-> DeltaOf(candidate, baseline)]

CompositeTriplet(base, cand) ==
    MetricTriplet(EffectiveCompositeMean(base), EffectiveCompositeMean(cand))

\* The parts a diff is made of: the partitions when both artifacts are
\* generalization reports.
PartsOf(baseline, candidate) ==
    IF IsGeneralization(baseline) /\ IsGeneralization(candidate)
    THEN {"tuned", "held_out"} ELSE {"whole"}

PerRepoDeltas(baseline, candidate) ==
    [repo \in DOMAIN baseline.per_repo \cap DOMAIN candidate.per_repo |->
        CompositeTriplet(baseline.per_repo[repo], candidate.per_repo[repo])]

\* compare_eval_artifacts: a generalization diff has no rows.
DiffOf(baseline, candidate) ==
    LET parts == PartsOf(baseline, candidate)
    IN  [composite |-> [part \in parts |->
             CompositeTriplet(SliceOf(baseline, part), SliceOf(candidate, part))],
         axes |-> [part \in parts |-> [axis \in Axes |->
             MetricTriplet(EffectivePart(SliceOf(baseline, part), axis),
                           EffectivePart(SliceOf(candidate, part), axis))]],
         per_repo |-> IF parts = {"whole"} THEN PerRepoDeltas(baseline, candidate) ELSE <<>>]

-----------------------------------------------------------------------------
(* score_pr_delta                                                          *)

Present(deltas) == deltas \ {None}
Least(deltas) == IF Present(deltas) = {} THEN None ELSE Min(Present(deltas))

Regressed(delta) == delta # None /\ delta < -NoiseFloor

\* The worse partition's delta of each axis.
ParetoDeltas(diff) ==
    [axis \in Axes |-> Least({diff.axes[part][axis].delta : part \in DOMAIN diff.axes})]

\* Mutant: null counts as absent.
CorruptParetoAxesButNull(baseline, candidate) ==
    {axis \in Axes :
        \E artifact \in {baseline, candidate} :
        \E part \in PartsOf(baseline, candidate) :
            EffectivePart(SliceOf(artifact, part), axis) = Corrupt}

\* Axes that some artifact reports without a usable number.
CorruptParetoAxes(baseline, candidate) ==
    {axis \in Axes :
        \E artifact \in {baseline, candidate} :
        \E part \in PartsOf(baseline, candidate) :
            EffectivePart(SliceOf(artifact, part), axis) \in Unusable}

\* BAND_THRESHOLDS, and the order of combine_dual_target.
Threshold == [xs |-> 10, s |-> 20, m |-> 40, l |-> 80, xl |-> 150]
RankOf == [none |-> 0, xs |-> 1, s |-> 2, m |-> 3, l |-> 4, xl |-> 5]
Bands == DOMAIN RankOf \cup {"blocked"}

BandForDelta(delta) ==
    LET cleared == {band \in DOMAIN Threshold : delta >= Threshold[band]}
    IN  IF delta = None \/ delta <= NoiseFloor \/ cleared = {} THEN "none"
        ELSE CHOOSE band \in cleared : \A other \in cleared : RankOf[other] <= RankOf[band]

\* The foresight of the candidate, of its tuned partition if it has one.
ForesightOf(artifact) ==
    SliceOf(artifact, IF IsGeneralization(artifact) THEN "tuned" ELSE "whole").foresight

ScorePrDelta(baseline, candidate) ==
    LET diff == DiffOf(baseline, candidate)
        composite == [part \in DOMAIN diff.composite |-> diff.composite[part].delta]
        worse == ParetoDeltas(diff)
        corrupt == CorruptParetoAxes(baseline, candidate)
        \* Only a generalization report is blocked for its composite, too.
        regressed ==
            \/ \E axis \in Axes : Regressed(worse[axis])
            \/ "whole" \notin DOMAIN composite
               /\ \E part \in DOMAIN composite : Regressed(composite[part])
    IN  [band |-> IF regressed \/ corrupt # {} THEN "blocked"
                  ELSE BandForDelta(Least({composite[part] : part \in DOMAIN composite})),
         composite_deltas |-> composite,
         pareto_axes |-> worse,
         corrupt_axes |-> corrupt,
         foresight |-> ForesightOf(candidate),
         diff |-> diff]

\* combine_dual_target: blocked by either target, else the lower band.
CombinedBand(public, private) ==
    IF "blocked" \in {public.band, private.band} THEN "blocked"
    ELSE IF RankOf[public.band] <= RankOf[private.band] THEN public.band ELSE private.band

\* The pull request earns a perf:* label.
Labelled(band) == band \in DOMAIN Threshold

=============================================================================
