------------------------- MODULE LeaderboardProofs -------------------------
(***************************************************************************)
(* Proofs about PrScore and LeaderboardFeed for artifacts with any scores, *)
(* any noise floor and any feed: first what the operators of the score say *)
(* of the artifacts, then that a verdict and its entry say the same.       *)
(***************************************************************************)
EXTENDS LeaderboardFeed, TLAPS

Shapes == {{"whole"}, {"tuned", "held_out"}}
Deltas == Int \cup {None}

-----------------------------------------------------------------------------
(* Values and slices.                                                      *)

LEMMA NoNumbers ==
    /\ None \notin Unusable /\ Null # Corrupt
    /\ None \notin Int /\ Unusable \cap Int = {}
BY ScoreAssumption DEF Unusable

LEMMA SliceType ==
    ASSUME NEW artifact, IsArtifact(artifact), NEW part
    PROVE  SliceOf(artifact, part) \in Slices
<1>1. AbsentSlice \in Slices
  BY DEF AbsentSlice, Slices, Values
<1> QED
  BY <1>1 DEF SliceOf, IsArtifact

LEMMA SliceFields ==
    ASSUME NEW slice \in Slices
    PROVE  /\ slice.scored_repos \in Values /\ slice.tasks \in Values
           /\ slice.composite_mean \in Values
           /\ \A axis \in Axes : slice[axis] \in Values
BY DEF Slices, Axes

\* The masks of compare_eval leave exactly the slices that stand for measured tasks.
LEMMA MaskedIffUnmeasured ==
    ASSUME NEW slice \in Slices
    PROVE  IsScoredUnavailable(slice) <=> ~Measured(slice)
BY SliceFields, ScoreAssumption
   DEF IsScoredUnavailable, PerRepoUnavailable, Measured, Numeric, Values, Unusable

LEMMA EffectiveValue ==
    ASSUME NEW slice \in Slices
    PROVE  /\ EffectiveCompositeMean(slice) =
                  IF Measured(slice) THEN slice.composite_mean ELSE None
           /\ EffectiveCompositeMean(slice) \in Values
           /\ \A axis \in Axes :
                /\ EffectivePart(slice, axis) = IF Measured(slice) THEN slice[axis] ELSE None
                /\ EffectivePart(slice, axis) \in Values
BY MaskedIffUnmeasured, SliceFields DEF EffectiveCompositeMean, EffectivePart, Values

\* A delta is there exactly when both sides are numbers whose change is finite.
LEMMA DeltaIsChange ==
    ASSUME NEW c \in Values, NEW b \in Values
    PROVE  /\ DeltaOf(c, b) \in Deltas
           /\ DeltaOf(c, b) # None =>
                c \in Int /\ b \in Int /\ DeltaOf(c, b) = c - b /\ c - b \in -Limit .. Limit
           /\ c \in Int /\ b \in Int /\ c - b \in -Limit .. Limit => DeltaOf(c, b) = c - b
BY NoNumbers, ScoreAssumption DEF DeltaOf, Numeric, Values, Deltas

-----------------------------------------------------------------------------
(* The worse of one or two deltas.                                         *)

\* The minimum of a pair is one of the two, and not above the other.
LEMMA MinOfTwo ==
    ASSUME NEW x \in Int, NEW y \in Int
    PROVE  Min({x, y}) = IF x <= y THEN x ELSE y
<1> DEFINE S == {x, y}
           m == IF x <= y THEN x ELSE y
<1>1. m \in S /\ \A z \in S : m <= z
  OBVIOUS
<1>2. ASSUME NEW z \in S, \A u \in S : z <= u
      PROVE  z = m
  BY <1>1, <1>2
<1> QED
  BY <1>1, <1>2 DEF Min

LEMMA LeastOfTwo ==
    ASSUME NEW x \in Deltas, NEW y \in Deltas
    PROVE  Least({x, y}) = IF x = None THEN y ELSE IF y = None THEN x
                           ELSE IF x <= y THEN x ELSE y
<1>1. CASE x = None /\ y = None
  BY <1>1 DEF Least, Present
<1>2. CASE x = None /\ y # None
  <2>1. Present({x, y}) = {y, y} /\ y \in Int
    BY <1>2 DEF Present, Deltas
  <2> QED
    BY <1>2, <2>1, MinOfTwo DEF Least
<1>3. CASE x # None /\ y = None
  <2>1. Present({x, y}) = {x, x} /\ x \in Int
    BY <1>3 DEF Present, Deltas
  <2> QED
    BY <1>3, <2>1, MinOfTwo DEF Least
<1>4. CASE x # None /\ y # None
  <2>1. Present({x, y}) = {x, y} /\ x \in Int /\ y \in Int
    BY <1>4 DEF Present, Deltas
  <2> QED
    BY <1>4, <2>1, MinOfTwo DEF Least
<1> QED
  BY <1>1, <1>2, <1>3, <1>4

\* The least delta of the parts of a diff.
LEMMA LeastOfParts ==
    ASSUME NEW parts \in Shapes, NEW f \in [parts -> Deltas]
    PROVE  LET least == Least({f[part] : part \in parts})
           IN  /\ least \in Deltas
               /\ \A part \in parts :
                    f[part] # None => least # None /\ least <= f[part]
               /\ \E part \in parts : least = f[part]
<1>1. CASE parts = {"whole"}
  <2>1. {f[part] : part \in parts} = {f["whole"], f["whole"]} /\ f["whole"] \in Deltas
    BY <1>1
  <2>2. Least({f[part] : part \in parts}) = f["whole"]
    BY <2>1, LeastOfTwo
  <2> QED
    BY <1>1, <2>1, <2>2 DEF Deltas
<1>2. CASE parts = {"tuned", "held_out"}
  <2>1. /\ {f[part] : part \in parts} = {f["tuned"], f["held_out"]}
        /\ f["tuned"] \in Deltas /\ f["held_out"] \in Deltas
    BY <1>2
  <2> DEFINE x == f["tuned"]
             y == f["held_out"]
             least == Least({f[part] : part \in parts})
  <2>a. least = Least({x, y}) /\ x \in Deltas /\ y \in Deltas
    BY <2>1
  <2> HIDE DEF x, y, least
  <2>2. least = IF x = None THEN y ELSE IF y = None THEN x ELSE IF x <= y THEN x ELSE y
    BY <2>a, LeastOfTwo
  <2>3. /\ least \in Deltas
        /\ x # None => least # None /\ least <= x
        /\ y # None => least # None /\ least <= y
        /\ least = x \/ least = y
    BY <2>a, <2>2 DEF Deltas
  <2> QED
    BY <1>2, <2>3 DEF least, x, y
<1> QED
  BY <1>1, <1>2 DEF Shapes

-----------------------------------------------------------------------------
(* Bands.                                                                  *)

LEMMA Names ==
    /\ DOMAIN Threshold = {"xs", "s", "m", "l", "xl"}
    /\ DOMAIN RankOf = {"none", "xs", "s", "m", "l", "xl"}
    /\ "blocked" \notin DOMAIN RankOf
    /\ \A x, y \in DOMAIN RankOf : RankOf[x] = RankOf[y] => x = y
    /\ \A x \in DOMAIN RankOf : RankOf[x] \in Nat
    /\ \A x \in DOMAIN Threshold : Threshold[x] \in Nat /\ RankOf["none"] < RankOf[x]
    /\ \A x, y \in DOMAIN Threshold : RankOf[x] <= RankOf[y] => Threshold[x] <= Threshold[y]
BY DEF Threshold, RankOf

\* A label's threshold is cleared, and no delta clears a band without being ranked so.
LEMMA BandOf ==
    ASSUME NEW delta \in Deltas
    PROVE  /\ BandForDelta(delta) \in DOMAIN RankOf
           /\ BandForDelta(delta) # "none" =>
                 /\ delta \in Int /\ delta > NoiseFloor
                 /\ BandForDelta(delta) \in DOMAIN Threshold
                 /\ delta >= Threshold[BandForDelta(delta)]
           /\ delta \in Int /\ delta > NoiseFloor =>
                 \A label \in DOMAIN Threshold :
                    delta >= Threshold[label] => RankOf[label] <= RankOf[BandForDelta(delta)]
<1> DEFINE cleared == {label \in DOMAIN Threshold : delta >= Threshold[label]}
           highest == CHOOSE label \in cleared : \A other \in cleared : RankOf[other] <= RankOf[label]
<1>1. CASE delta = None \/ delta <= NoiseFloor \/ cleared = {}
  BY <1>1, Names, NoNumbers, ScoreAssumption DEF BandForDelta, Deltas
<1>2. CASE ~(delta = None \/ delta <= NoiseFloor \/ cleared = {})
  <2>1. delta \in Int /\ delta > NoiseFloor
    BY <1>2, ScoreAssumption DEF Deltas
  <2>2. \E label \in cleared : \A other \in cleared : RankOf[other] <= RankOf[label]
    <3>1. cleared \subseteq {"xs", "s", "m", "l", "xl"}
      BY Names
    <3> HIDE DEF cleared
    <3> QED
      BY <1>2, <3>1 DEF RankOf
  <2>3. highest \in cleared /\ \A other \in cleared : RankOf[other] <= RankOf[highest]
    <3> HIDE DEF cleared
    <3> QED
      BY <2>2
  <2>4. BandForDelta(delta) = highest
    BY <1>2 DEF BandForDelta
  <2> HIDE DEF highest
  <2>5. highest \in DOMAIN Threshold /\ delta >= Threshold[highest]
    BY <2>3
  <2>6. highest \in DOMAIN RankOf
    BY <2>5, Names
  <2>7. \A label \in DOMAIN Threshold : delta >= Threshold[label] => RankOf[label] <= RankOf[highest]
    BY <2>3
  <2> HIDE DEF cleared
  <2> QED
    BY <2>1, <2>4, <2>5, <2>6, <2>7
<1> QED
  BY <1>1, <1>2

\* A larger delta has no lower band.
LEMMA BandMonotone ==
    ASSUME NEW x \in Int, NEW y \in Int, x <= y
    PROVE  RankOf[BandForDelta(x)] <= RankOf[BandForDelta(y)]
<1>0. x \in Deltas /\ y \in Deltas
  BY DEF Deltas
<1>1. CASE BandForDelta(x) = "none"
  BY <1>0, <1>1, BandOf, Names DEF RankOf
<1>2. CASE BandForDelta(x) # "none"
  <2>1. /\ BandForDelta(x) \in DOMAIN Threshold /\ x > NoiseFloor
        /\ x >= Threshold[BandForDelta(x)] /\ Threshold[BandForDelta(x)] \in Nat
    BY <1>0, <1>2, BandOf, Names
  <2>2. y > NoiseFloor /\ y >= Threshold[BandForDelta(x)]
    BY <2>1, ScoreAssumption
  <2> QED
    BY <1>0, <2>1, <2>2, BandOf
<1> QED
  BY <1>1, <1>2

-----------------------------------------------------------------------------
(* The verdict on a pair of artifacts.                                     *)

LEMMA PartsShape ==
    ASSUME NEW b, NEW c
    PROVE  PartsOf(b, c) \in Shapes
BY DEF PartsOf, Shapes

\* Both sides of a part were measured in a field, and by how much it changed.
BothMeasured(b, c, part, field) ==
    /\ Measured(SliceOf(b, part)) /\ Measured(SliceOf(c, part))
    /\ SliceOf(b, part)[field] \in Int /\ SliceOf(c, part)[field] \in Int
ChangeOf(b, c, part, field) == SliceOf(c, part)[field] - SliceOf(b, part)[field]

CompositeDeltas(b, c) ==
    [part \in PartsOf(b, c) |-> CompositeTriplet(SliceOf(b, part), SliceOf(c, part)).delta]
AxisDeltas(b, c, axis) ==
    [part \in PartsOf(b, c) |->
        MetricTriplet(EffectivePart(SliceOf(b, part), axis),
                      EffectivePart(SliceOf(c, part), axis)).delta]
WorstDelta(b, c, axis) == Least({AxisDeltas(b, c, axis)[part] : part \in PartsOf(b, c)})
BandingDelta(b, c) == Least({CompositeDeltas(b, c)[part] : part \in PartsOf(b, c)})

\* delta is the change of a field where both sides were measured and it is finite.
IsDelta(delta, b, c, part, field) ==
    /\ delta \in Deltas
    /\ delta # None => BothMeasured(b, c, part, field) /\ delta = ChangeOf(b, c, part, field)
    /\ BothMeasured(b, c, part, field) /\ ChangeOf(b, c, part, field) \in -Limit .. Limit
           => delta = ChangeOf(b, c, part, field)

LEMMA CompositeIsChange ==
    ASSUME NEW b, NEW c, IsArtifact(b), IsArtifact(c), NEW part \in PartsOf(b, c)
    PROVE  IsDelta(CompositeDeltas(b, c)[part], b, c, part, "composite_mean")
<1> DEFINE sb == SliceOf(b, part)
           sc == SliceOf(c, part)
<1>1. sb \in Slices /\ sc \in Slices
  BY SliceType
<1>2. CompositeDeltas(b, c)[part]
          = DeltaOf(EffectiveCompositeMean(sc), EffectiveCompositeMean(sb))
  BY DEF CompositeDeltas, CompositeTriplet, MetricTriplet
<1> HIDE DEF sb, sc
<1>3. /\ EffectiveCompositeMean(sb) \in Values /\ EffectiveCompositeMean(sc) \in Values
      /\ EffectiveCompositeMean(sb) = IF Measured(sb) THEN sb["composite_mean"] ELSE None
      /\ EffectiveCompositeMean(sc) = IF Measured(sc) THEN sc["composite_mean"] ELSE None
  BY <1>1, EffectiveValue
<1> QED
  BY <1>2, <1>3, DeltaIsChange, NoNumbers DEF IsDelta, BothMeasured, ChangeOf, sb, sc

LEMMA AxisIsChange ==
    ASSUME NEW b, NEW c, IsArtifact(b), IsArtifact(c), NEW part \in PartsOf(b, c),
           NEW axis \in Axes
    PROVE  IsDelta(AxisDeltas(b, c, axis)[part], b, c, part, axis)
<1> DEFINE sb == SliceOf(b, part)
           sc == SliceOf(c, part)
<1>1. sb \in Slices /\ sc \in Slices
  BY SliceType
<1>2. AxisDeltas(b, c, axis)[part] = DeltaOf(EffectivePart(sc, axis), EffectivePart(sb, axis))
  BY DEF AxisDeltas, MetricTriplet
<1> HIDE DEF sb, sc
<1>3. /\ EffectivePart(sb, axis) \in Values /\ EffectivePart(sc, axis) \in Values
      /\ EffectivePart(sb, axis) = IF Measured(sb) THEN sb[axis] ELSE None
      /\ EffectivePart(sc, axis) = IF Measured(sc) THEN sc[axis] ELSE None
  BY <1>1, EffectiveValue
<1> QED
  BY <1>2, <1>3, DeltaIsChange, NoNumbers DEF IsDelta, BothMeasured, ChangeOf, sb, sc

\* What score_pr_delta reports, in these terms.
LEMMA Report ==
    ASSUME NEW b, NEW c
    PROVE  /\ ScorePrDelta(b, c).composite_deltas = CompositeDeltas(b, c)
           /\ ScorePrDelta(b, c).diff.composite
                  = [part \in PartsOf(b, c) |->
                        CompositeTriplet(SliceOf(b, part), SliceOf(c, part))]
           /\ ScorePrDelta(b, c).band # "blocked" =>
                 /\ ScorePrDelta(b, c).band = BandForDelta(BandingDelta(b, c))
                 /\ CorruptParetoAxes(b, c) = {}
                 /\ \A axis \in Axes : ~Regressed(WorstDelta(b, c, axis))
<1> DEFINE parts == PartsOf(b, c)
           diff == DiffOf(b, c)
           composite == [part \in DOMAIN diff.composite |-> diff.composite[part].delta]
           worse == ParetoDeltas(diff)
<1>1. /\ diff.composite = [part \in parts |-> CompositeTriplet(SliceOf(b, part), SliceOf(c, part))]
      /\ diff.axes = [part \in parts |-> [axis \in Axes |->
             MetricTriplet(EffectivePart(SliceOf(b, part), axis),
                           EffectivePart(SliceOf(c, part), axis))]]
  BY DEF DiffOf
<1> HIDE DEF diff, parts
<1>2. composite = CompositeDeltas(b, c) /\ DOMAIN composite = parts
  BY <1>1 DEF CompositeDeltas, parts
<1>3. Least({composite[part] : part \in DOMAIN composite}) = BandingDelta(b, c)
  BY <1>2 DEF BandingDelta, parts
<1>4. ASSUME NEW axis \in Axes
      PROVE  worse[axis] = WorstDelta(b, c, axis)
  <2>1. DOMAIN diff.axes = parts
    BY <1>1
  <2>2. \A part \in parts : diff.axes[part][axis].delta = AxisDeltas(b, c, axis)[part]
    BY <1>1 DEF AxisDeltas, parts
  <2>3. {diff.axes[part][axis].delta : part \in DOMAIN diff.axes}
            = {AxisDeltas(b, c, axis)[part] : part \in parts}
    BY <2>1, <2>2
  <2> QED
    BY <2>3 DEF ParetoDeltas, WorstDelta, parts
<1> HIDE DEF composite, worse
<1>5. /\ ScorePrDelta(b, c).composite_deltas = composite
      /\ ScorePrDelta(b, c).diff = diff
      /\ \/ ScorePrDelta(b, c).band = "blocked"
         \/ /\ ScorePrDelta(b, c).band
                   = BandForDelta(Least({composite[part] : part \in DOMAIN composite}))
            /\ CorruptParetoAxes(b, c) = {}
            /\ \A axis \in Axes : ~Regressed(worse[axis])
  BY DEF ScorePrDelta, composite, worse, diff
<1> QED
  BY <1>1, <1>2, <1>3, <1>4, <1>5 DEF parts

\* A band other than "none" and "blocked" is earned on the pair.
LEMMA BandIsEarned ==
    ASSUME NEW b, NEW c, IsArtifact(b), IsArtifact(c), NEW label \in DOMAIN Threshold,
           ScorePrDelta(b, c).band \in DOMAIN RankOf,
           RankOf[label] <= RankOf[ScorePrDelta(b, c).band]
    PROVE  /\ \A part \in PartsOf(b, c), axis \in Axes :
                /\ BothMeasured(b, c, part, axis) =>
                      \/ ChangeOf(b, c, part, axis) >= -NoiseFloor
                      \/ ChangeOf(b, c, part, axis) \notin -Limit .. Limit
                /\ \A artifact \in {b, c} :
                      Measured(SliceOf(artifact, part)) => SliceOf(artifact, part)[axis] \notin Unusable
           /\ \E part \in PartsOf(b, c) : BothMeasured(b, c, part, "composite_mean")
           /\ \A part \in PartsOf(b, c) :
                BothMeasured(b, c, part, "composite_mean") =>
                    \/ ChangeOf(b, c, part, "composite_mean") >= Threshold[label]
                    \/ ChangeOf(b, c, part, "composite_mean") \notin -Limit .. Limit
<1> DEFINE parts == PartsOf(b, c)
           delta == BandingDelta(b, c)
<1>s. parts \in Shapes
  BY PartsShape
<1>1. /\ ScorePrDelta(b, c).band = BandForDelta(delta)
      /\ CorruptParetoAxes(b, c) = {}
      /\ \A axis \in Axes : ~Regressed(WorstDelta(b, c, axis))
  <2>1. ScorePrDelta(b, c).band # "blocked"
    BY Names
  <2> QED
    BY Report, <2>1
<1>2. CompositeDeltas(b, c) \in [parts -> Deltas]
  BY CompositeIsChange DEF IsDelta, CompositeDeltas
<1>3. /\ delta \in Deltas
      /\ \A part \in parts : CompositeDeltas(b, c)[part] # None =>
                                 delta # None /\ delta <= CompositeDeltas(b, c)[part]
      /\ \E part \in parts : delta = CompositeDeltas(b, c)[part]
  BY <1>s, <1>2, LeastOfParts DEF BandingDelta
<1> HIDE DEF parts, delta
<1>4. BandForDelta(delta) # "none"
  BY <1>1, Names
<1>5. delta \in Int /\ delta >= Threshold[BandForDelta(delta)]
      /\ BandForDelta(delta) \in DOMAIN Threshold
  BY <1>3, <1>4, BandOf
<1>6. delta >= Threshold[label]
  BY <1>1, <1>5, Names
<1>7. \E part \in parts : BothMeasured(b, c, part, "composite_mean")
  BY <1>3, <1>5, CompositeIsChange, NoNumbers DEF IsDelta, parts
<1>8. ASSUME NEW part \in parts, BothMeasured(b, c, part, "composite_mean"),
             ChangeOf(b, c, part, "composite_mean") \in -Limit .. Limit
      PROVE  ChangeOf(b, c, part, "composite_mean") >= Threshold[label]
  <2>1. CompositeDeltas(b, c)[part] = ChangeOf(b, c, part, "composite_mean")
    BY <1>8, CompositeIsChange DEF IsDelta, parts
  <2>2. ChangeOf(b, c, part, "composite_mean") \in Int
    BY <1>8, ScoreAssumption
  <2>3. delta <= ChangeOf(b, c, part, "composite_mean")
    BY <1>3, <2>1, <2>2, NoNumbers
  <2> QED
    BY <1>5, <1>6, <2>2, <2>3, Names
<1>9. ASSUME NEW part \in parts, NEW axis \in Axes, BothMeasured(b, c, part, axis),
             ChangeOf(b, c, part, axis) \in -Limit .. Limit
      PROVE  ChangeOf(b, c, part, axis) >= -NoiseFloor
  <2> DEFINE worst == WorstDelta(b, c, axis)
  <2>1. AxisDeltas(b, c, axis) \in [parts -> Deltas]
    BY AxisIsChange DEF IsDelta, AxisDeltas, parts
  <2>2. AxisDeltas(b, c, axis)[part] = ChangeOf(b, c, part, axis)
    BY <1>9, AxisIsChange DEF IsDelta, parts
  <2>3. ChangeOf(b, c, part, axis) \in Int
    BY <1>9, ScoreAssumption
  <2>4. worst \in Deltas /\ worst # None /\ worst <= ChangeOf(b, c, part, axis)
    BY <1>s, <2>1, <2>2, <2>3, LeastOfParts, NoNumbers DEF WorstDelta, parts
  <2>5. ~Regressed(worst)
    BY <1>1
  <2> HIDE DEF worst
  <2> QED
    BY <2>3, <2>4, <2>5, ScoreAssumption DEF Regressed, Deltas
<1>10. ASSUME NEW part \in parts, NEW axis \in Axes, NEW artifact \in {b, c},
              Measured(SliceOf(artifact, part))
       PROVE  SliceOf(artifact, part)[axis] \notin Unusable
  <2>1. EffectivePart(SliceOf(artifact, part), axis) \notin Unusable
    BY <1>1 DEF CorruptParetoAxes, parts
  <2>2. SliceOf(artifact, part) \in Slices
    BY SliceType
  <2> QED
    BY <1>10, <2>1, <2>2, EffectiveValue
<1> QED
  BY <1>7, <1>8, <1>9, <1>10 DEF parts

-----------------------------------------------------------------------------
(* The publishing process.                                                 *)

Scored(t) ==
    /\ inputs[t].baseline # None /\ inputs[t].candidate # None
    /\ reports[t] = ScorePrDelta(inputs[t].baseline, inputs[t].candidate)

Verdict ==
    /\ \A t \in Targets : Scored(t)
    /\ band = CombinedBand(reports["public"], reports["private"])

Olders == Seq({"older"})

\* Reports are those of the inputs, the verdict that of the reports, and what is
\* published is the entry of the verdict, at the end of the feed.
PublishInv ==
    /\ \A t \in Targets : inputs[t] \in Cases[t]
    /\ DOMAIN reports = Targets
    /\ \A t \in Targets : reports[t] # None => Scored(t)
    /\ pc = "score" => band = None
    /\ band # None \/ pc \in {"read", "truncate", "dump", "done"} => Verdict
    /\ pc \in {"score", "read"} => feed \in OlderFeeds
    /\ pc \in {"truncate", "dump"} => existing \in Olders
    /\ pc = "done" => \E older \in Olders : feed = Newest(Append(older, Entry))

LEMMA InitPublish == Init => PublishInv
<1> SUFFICES ASSUME Init PROVE PublishInv
  OBVIOUS
<1>1. PICK public \in Cases["public"], private \in Cases["private"] :
         inputs = [public |-> public, private |-> private]
  BY DEF Init
<1>2. \A t \in Targets : inputs[t] \in Cases[t]
  BY <1>1 DEF Targets
<1>3. /\ reports = [t \in Targets |-> None] /\ band = None /\ feed \in OlderFeeds
      /\ pc = "score"
  BY DEF Init
<1> QED
  BY <1>2, <1>3 DEF PublishInv

\* append_entry reads a feed of older entries, or none.
LEMMA ReadOlder ==
    ASSUME feed \in OlderFeeds, feed # Torn
    PROVE  (IF feed = None THEN <<>> ELSE feed) \in Olders
<1>1. ASSUME NEW n \in Nat PROVE [i \in 1 .. n |-> "older"] \in Olders
  BY DEF Olders
<1>2. <<>> \in Olders
  BY DEF Olders
<1>3. \A n \in {0, MaxEntries} : n \in Nat
  BY FeedAssumption
<1>4. feed = None \/ feed \in {[i \in 1 .. n |-> "older"] : n \in {0, MaxEntries}}
  BY DEF OlderFeeds
<1> QED
  BY <1>1, <1>2, <1>3, <1>4

LEMMA NextPublish == PublishInv /\ [Next]_vars => PublishInv'
<1> SUFFICES ASSUME PublishInv, [Next]_vars PROVE PublishInv'
  OBVIOUS
<1>1. ASSUME NEW t \in Targets, Score(t) PROVE PublishInv'
  <2>1. reports' = [reports EXCEPT ![t] =
                       ScorePrDelta(inputs[t].baseline, inputs[t].candidate)]
        /\ inputs[t].baseline # None /\ inputs[t].candidate # None
        /\ UNCHANGED <<inputs, band, feed, existing, pc>> /\ pc = "score"
    BY <1>1 DEF Score
  <2>2. DOMAIN reports' = Targets
    BY <2>1 DEF PublishInv
  <2>3. \A u \in Targets : reports'[u] # None => Scored(u)'
    BY <2>1 DEF PublishInv, Scored
  <2> QED
    BY <2>1, <2>2, <2>3 DEF PublishInv
<1>2. ASSUME NEW t \in Targets, LoadFails(t) PROVE PublishInv'
  BY <1>2 DEF LoadFails, PublishInv, Scored, Verdict
<1>3. CASE CombineDualTarget
  <2>1. Verdict'
    BY <1>3 DEF CombineDualTarget, PublishInv, Verdict, Scored
  <2> QED
    BY <1>3, <2>1 DEF CombineDualTarget, PublishInv, Scored
<1>4. CASE ReadFeed
  <2>1. UNCHANGED <<inputs, reports, band, feed>> /\ pc = "read" /\ pc' \in {"failed", "truncate"}
    BY <1>4 DEF ReadFeed
  <2>2. pc' = "truncate" => existing' \in Olders
    BY <1>4, <2>1, ReadOlder DEF ReadFeed, PublishInv
  <2>3. Verdict'
    BY <2>1 DEF PublishInv, Verdict, Scored
  <2> QED
    BY <2>1, <2>2, <2>3 DEF PublishInv, Scored
<1>5. CASE TruncateFeed
  BY <1>5 DEF TruncateFeed, PublishInv, Scored, Verdict
<1>6. CASE DumpFeed
  <2>1. /\ UNCHANGED <<inputs, reports, band, existing>> /\ pc = "dump" /\ pc' = "done"
        /\ feed' = Newest(Append(existing, Entry))
    BY <1>6 DEF DumpFeed
  <2>2. Entry' = Entry
    BY <2>1 DEF Entry, SinceAnchor
  <2>3. existing \in Olders /\ Verdict
    BY <2>1 DEF PublishInv
  <2>4. Newest(Append(existing, Entry))' = Newest(Append(existing, Entry))
    BY <2>1, <2>2 DEF Newest
  <2>5. \E older \in Olders : feed' = Newest(Append(older, Entry'))
    BY <2>1, <2>2, <2>3
  <2>6. Verdict'
    BY <2>1, <2>3 DEF Verdict, Scored
  <2> QED
    BY <2>1, <2>5, <2>6 DEF PublishInv, Scored
<1>7. CASE Crash
  BY <1>7 DEF Crash, PublishInv, Scored, Verdict
<1>8. CASE UNCHANGED vars
  <2>1. Entry' = Entry
    BY <1>8 DEF vars, Entry, SinceAnchor
  <2> QED
    BY <1>8, <2>1 DEF vars, PublishInv, Scored, Verdict
<1> QED
  BY <1>1, <1>2, <1>3, <1>4, <1>5, <1>6, <1>7, <1>8 DEF Next

LEMMA Published == Spec => []PublishInv
BY InitPublish, NextPublish, PTL DEF Spec

\* A combined label is at most what either target earned.
LEMMA CombinedIsLower ==
    ASSUME NEW public, NEW private,
           public.band \in Bands, private.band \in Bands
    PROVE  LET combined == CombinedBand(public, private)
           IN  /\ combined \in Bands
               /\ combined # "blocked" =>
                    /\ public.band \in DOMAIN RankOf /\ private.band \in DOMAIN RankOf
                    /\ RankOf[combined] <= RankOf[public.band]
                    /\ RankOf[combined] <= RankOf[private.band]
                    /\ combined \in {public.band, private.band}
<1>1. CASE "blocked" \in {public.band, private.band}
  BY <1>1 DEF CombinedBand, Bands
<1>2. CASE "blocked" \notin {public.band, private.band}
  <2>1. public.band \in DOMAIN RankOf /\ private.band \in DOMAIN RankOf
    BY <1>2 DEF Bands
  <2>2. RankOf[public.band] \in Nat /\ RankOf[private.band] \in Nat
    BY <2>1, Names
  <2> QED
    BY <1>2, <2>1, <2>2 DEF CombinedBand, Bands
<1> QED
  BY <1>1, <1>2

LEMMA InputsAreArtifacts ==
    ASSUME PublishInv, NEW t \in Targets
    PROVE  \A artifact \in {inputs[t].baseline, inputs[t].candidate, inputs[t].anchor} :
               artifact = None \/ IsArtifact(artifact)
BY FeedAssumption DEF PublishInv

\* The band of a report, and the delta that it falls into.
LEMMA ReportBand ==
    ASSUME NEW b, NEW c, IsArtifact(b), IsArtifact(c)
    PROVE  /\ ScorePrDelta(b, c).band \in Bands
           /\ BandingDelta(b, c) \in Deltas
<1>1. PartsOf(b, c) \in Shapes
  BY PartsShape
<1>2. CompositeDeltas(b, c) \in [PartsOf(b, c) -> Deltas]
  BY CompositeIsChange DEF IsDelta, CompositeDeltas
<1>3. BandingDelta(b, c) \in Deltas
  BY <1>1, <1>2, LeastOfParts DEF BandingDelta
<1> QED
  BY <1>3, Report, BandOf DEF Bands

\* What an entry says of one target: the worse delta of the pair of artifacts.
LEMMA VerdictOfTarget ==
    ASSUME PublishInv, Verdict, NEW t \in Targets
    PROVE  /\ IsArtifact(inputs[t].baseline) /\ IsArtifact(inputs[t].candidate)
           /\ reports[t] = ScorePrDelta(inputs[t].baseline, inputs[t].candidate)
           /\ reports[t].band \in Bands
<1>1. /\ inputs[t].baseline # None /\ inputs[t].candidate # None
      /\ reports[t] = ScorePrDelta(inputs[t].baseline, inputs[t].candidate)
  BY DEF Verdict, Scored
<1>2. IsArtifact(inputs[t].baseline) /\ IsArtifact(inputs[t].candidate)
  BY <1>1, InputsAreArtifacts
<1> QED
  BY <1>1, <1>2, ReportBand

\* A label is earned on both targets (score_pr_delta's Pareto floor and
\* banding, combine_dual_target), whatever the artifacts hold.
THEOREM LabelsAreEarned == Spec => []LabelIsEarned
<1>1. ASSUME PublishInv PROVE LabelIsEarned
  <2> SUFFICES ASSUME band # None, Labelled(band), NEW t \in Targets
               PROVE  LET parts == PartsOf(inputs[t].baseline, inputs[t].candidate)
                      IN  /\ \A part \in parts, axis \in Axes :
                                /\ Comparable(t, part, axis) =>
                                      \/ Change(t, part, axis) >= -NoiseFloor
                                      \/ Change(t, part, axis) \notin -Limit .. Limit
                                /\ \A side \in {"baseline", "candidate"} :
                                      LET slice == SliceOf(inputs[t][side], part)
                                      IN  Measured(slice) => slice[axis] \notin Unusable
                          /\ \E part \in parts : Comparable(t, part, "composite_mean")
                          /\ \A part \in parts :
                                Comparable(t, part, "composite_mean") =>
                                    \/ Change(t, part, "composite_mean") >= Threshold[band]
                                    \/ Change(t, part, "composite_mean") \notin -Limit .. Limit
    BY DEF LabelIsEarned
  <2> DEFINE b == inputs[t].baseline
             c == inputs[t].candidate
  <2>1. Verdict
    BY <1>1 DEF PublishInv
  <2>2. IsArtifact(b) /\ IsArtifact(c) /\ reports[t].band = ScorePrDelta(b, c).band
    BY <1>1, <2>1, VerdictOfTarget
  <2>3. /\ reports["public"].band \in Bands /\ reports["private"].band \in Bands
        /\ band = CombinedBand(reports["public"], reports["private"])
    BY <1>1, <2>1, VerdictOfTarget DEF Verdict, Targets
  <2>4. band \in DOMAIN Threshold /\ band # "blocked"
    BY Names DEF Labelled
  <2>5. /\ reports["public"].band \in DOMAIN RankOf
        /\ reports["private"].band \in DOMAIN RankOf
        /\ RankOf[band] <= RankOf[reports["public"].band]
        /\ RankOf[band] <= RankOf[reports["private"].band]
    BY <2>3, <2>4, CombinedIsLower
  <2>6. ScorePrDelta(b, c).band \in DOMAIN RankOf
        /\ RankOf[band] <= RankOf[ScorePrDelta(b, c).band]
    BY <2>2, <2>5 DEF Targets
  <2> HIDE DEF b, c
  <2>7. /\ \A part \in PartsOf(b, c), axis \in Axes :
             /\ BothMeasured(b, c, part, axis) =>
                   \/ ChangeOf(b, c, part, axis) >= -NoiseFloor
                   \/ ChangeOf(b, c, part, axis) \notin -Limit .. Limit
             /\ \A artifact \in {b, c} :
                   Measured(SliceOf(artifact, part)) => SliceOf(artifact, part)[axis] \notin Unusable
        /\ \E part \in PartsOf(b, c) : BothMeasured(b, c, part, "composite_mean")
        /\ \A part \in PartsOf(b, c) :
             BothMeasured(b, c, part, "composite_mean") =>
                 \/ ChangeOf(b, c, part, "composite_mean") >= Threshold[band]
                 \/ ChangeOf(b, c, part, "composite_mean") \notin -Limit .. Limit
    BY <2>2, <2>4, <2>6, BandIsEarned
  <2>8. \A part, field : /\ Comparable(t, part, field) <=> BothMeasured(b, c, part, field)
                         /\ Change(t, part, field) = ChangeOf(b, c, part, field)
    BY DEF Comparable, BothMeasured, Change, ChangeOf, b, c
  <2>9. \A side \in {"baseline", "candidate"} : inputs[t][side] \in {b, c}
    BY DEF b, c
  <2> QED
    BY <2>7, <2>8, <2>9 DEF b, c
<1> QED
  BY <1>1, Published, PTL

-----------------------------------------------------------------------------
(* What is published of a verdict.                                         *)

\* However many older entries are dropped, the new one is the last.
LEMMA NewestKeepsLast ==
    ASSUME NEW older \in Olders, NEW entry
    PROVE  LET published == Newest(Append(older, entry))
           IN  published[Len(published)] = entry
<1> DEFINE all == Append(older, entry)
           S == {"older", entry}
<1>1. all \in Seq(S) /\ Len(all) \in Nat \ {0} /\ all[Len(all)] = entry
  <2>1. older \in Seq(S) /\ entry \in S
    BY DEF Olders
  <2> HIDE DEF S
  <2> QED
    BY <2>1
<1> HIDE DEF all, S
<1>2. CASE Len(all) > MaxEntries
  <2> DEFINE first == Len(all) - MaxEntries + 1
  <2>1. first \in 1 .. Len(all) /\ Len(all) - first + 1 = MaxEntries
    BY <1>1, <1>2, FeedAssumption
  <2>2. /\ Len(SubSeq(all, first, Len(all))) = MaxEntries
        /\ SubSeq(all, first, Len(all))[MaxEntries] = all[Len(all)]
    BY <1>1, <2>1, FeedAssumption
  <2>3. Newest(all) = SubSeq(all, first, Len(all))
    BY <1>2 DEF Newest
  <2> QED
    BY <1>1, <2>2, <2>3 DEF all
<1>3. CASE ~(Len(all) > MaxEntries)
  BY <1>1, <1>3 DEF Newest, all
<1> QED
  BY <1>2, <1>3

\* The published delta is the one the band was derived from, for both shapes.
LEMMA PublishedDelta ==
    ASSUME NEW b, NEW c, IsArtifact(b), IsArtifact(c)
    PROVE  CompositeDelta(ScorePrDelta(b, c)) = BandingDelta(b, c)
<1> DEFINE parts == PartsOf(b, c)
           deltas == CompositeDeltas(b, c)
<1>1. ScorePrDelta(b, c).composite_deltas = deltas
  BY Report
<1>2. deltas \in [parts -> Deltas]
  BY CompositeIsChange DEF IsDelta, CompositeDeltas
<1>3. parts \in Shapes
  BY PartsShape
<1>4. BandingDelta(b, c) = Least({deltas[part] : part \in parts})
  BY DEF BandingDelta
<1> HIDE DEF deltas, parts
<1>5. CASE parts = {"whole"}
  <2>1. deltas["whole"] \in Deltas /\ "whole" \in DOMAIN deltas
    BY <1>2, <1>5
  <2>2. {deltas[part] : part \in parts} = {deltas["whole"], deltas["whole"]}
    BY <1>5
  <2>3. Least({deltas[part] : part \in parts}) = deltas["whole"]
    BY <2>1, <2>2, LeastOfTwo
  <2>4. Rounded(deltas["whole"]) = deltas["whole"]
    BY <2>1, NoNumbers DEF Rounded, Deltas
  <2> QED
    BY <1>1, <1>4, <2>1, <2>3, <2>4 DEF CompositeDelta
<1>6. CASE parts # {"whole"}
  <2>1. DOMAIN deltas = parts /\ "whole" \notin parts
    BY <1>2, <1>3, <1>6 DEF Shapes
  <2> QED
    BY <1>1, <1>4, <2>1 DEF CompositeDelta
<1> QED
  BY <1>5, <1>6

\* The lower of two bands is the band of the lower delta.
LEMMA LowerBand ==
    ASSUME NEW x \in Deltas, NEW y \in Deltas, NEW combined,
           combined \in {BandForDelta(x), BandForDelta(y)},
           RankOf[combined] <= RankOf[BandForDelta(x)],
           RankOf[combined] <= RankOf[BandForDelta(y)]
    PROVE  combined = IF None \in {x, y} THEN "none" ELSE BandForDelta(Min({x, y}))
<1>1. /\ BandForDelta(x) \in DOMAIN RankOf /\ BandForDelta(y) \in DOMAIN RankOf
      /\ combined \in DOMAIN RankOf /\ RankOf[combined] \in Nat
      /\ RankOf[BandForDelta(x)] \in Nat /\ RankOf[BandForDelta(y)] \in Nat
  BY BandOf, Names
<1>2. CASE None \in {x, y}
  <2>1. BandForDelta(x) = "none" \/ BandForDelta(y) = "none"
    BY <1>2 DEF BandForDelta
  <2>2. RankOf[combined] = RankOf["none"]
    BY <1>1, <2>1 DEF RankOf
  <2> QED
    BY <1>1, <1>2, <2>2, Names
<1>3. CASE None \notin {x, y} /\ x <= y
  <2>1. x \in Int /\ y \in Int
    BY <1>3 DEF Deltas
  <2>2. Min({x, y}) = x /\ RankOf[BandForDelta(x)] <= RankOf[BandForDelta(y)]
    BY <1>3, <2>1, MinOfTwo, BandMonotone
  <2>3. RankOf[combined] = RankOf[BandForDelta(x)]
    BY <1>1, <2>2
  <2> QED
    BY <1>1, <1>3, <2>2, <2>3, Names
<1>4. CASE None \notin {x, y} /\ ~(x <= y)
  <2>1. x \in Int /\ y \in Int /\ y <= x
    BY <1>4 DEF Deltas
  <2>2. Min({x, y}) = y /\ RankOf[BandForDelta(y)] <= RankOf[BandForDelta(x)]
    BY <1>4, <2>1, MinOfTwo, BandMonotone
  <2>3. RankOf[combined] = RankOf[BandForDelta(y)]
    BY <1>1, <2>2
  <2> QED
    BY <1>1, <1>4, <2>2, <2>3, Names
<1> QED
  BY <1>2, <1>3, <1>4

\* A score since the anchor is that of a candidate that was measured.
LEMMA NoPlaceholderSinceAnchor ==
    ASSUME NEW anchor, NEW c, IsArtifact(c),
           AnchorScores(ScorePrDelta(anchor, c)).composite_score # None
    PROVE  Measured(SliceOf(c, "whole"))
<1> DEFINE composite == ScorePrDelta(anchor, c).diff.composite
           slice == SliceOf(c, "whole")
<1>1. composite = [part \in PartsOf(anchor, c) |->
                      CompositeTriplet(SliceOf(anchor, part), SliceOf(c, part))]
  BY Report
<1>2. "whole" \in DOMAIN composite /\ Rounded(composite["whole"].candidate) # None
  BY DEF AnchorScores
<1>3. composite["whole"].candidate = Numeric(EffectiveCompositeMean(slice))
  BY <1>1, <1>2 DEF CompositeTriplet, MetricTriplet
<1>4. EffectiveCompositeMean(slice) # None
  BY <1>2, <1>3 DEF Rounded, Numeric
<1>5. slice \in Slices
  BY SliceType
<1> HIDE DEF slice
<1>6. Measured(slice)
  BY <1>4, <1>5, EffectiveValue
<1> QED
  BY <1>6 DEF slice

\* A published entry tells one story (leaderboard_feed._composite_delta):
\* the smaller delta falls into the band, and no placeholder is shown as a
\* score since the anchor.
THEOREM FeedMatchesVerdict == Spec => []FeedTellsTheVerdict
<1>1. ASSUME PublishInv PROVE FeedTellsTheVerdict
  <2> SUFFICES ASSUME pc = "done" PROVE FeedTellsTheVerdict
    BY DEF FeedTellsTheVerdict
  <2> DEFINE x == Entry["public"].composite_delta
             y == Entry["private"].composite_delta
             b(t) == inputs[t].baseline
             c(t) == inputs[t].candidate
  <2>1. Verdict
    BY <1>1 DEF PublishInv
  <2>2. feed[Len(feed)] = Entry
    <3>1. PICK older \in Olders : feed = Newest(Append(older, Entry))
      BY <1>1 DEF PublishInv
    <3> QED
      BY <3>1, NewestKeepsLast
  <2>3. Entry.band = band /\ Entry.since_anchor = SinceAnchor
    BY DEF Entry
  <2>4. ASSUME NEW t \in Targets
        PROVE  /\ IsArtifact(c(t)) /\ reports[t].band \in Bands
               /\ Entry[t].composite_delta \in Deltas
               /\ reports[t].band # "blocked" =>
                      reports[t].band = BandForDelta(Entry[t].composite_delta)
    <3>1. /\ IsArtifact(b(t)) /\ IsArtifact(c(t)) /\ reports[t].band \in Bands
          /\ reports[t] = ScorePrDelta(b(t), c(t))
      BY <1>1, <2>1, VerdictOfTarget
    <3>2. Entry[t].composite_delta = CompositeDelta(reports[t])
      BY DEF Entry, Targets
    <3>3. Entry[t].composite_delta = BandingDelta(b(t), c(t))
      BY <3>1, <3>2, PublishedDelta
    <3>4. BandingDelta(b(t), c(t)) \in Deltas
      BY <3>1, ReportBand
    <3>5. reports[t].band # "blocked" => reports[t].band = BandForDelta(BandingDelta(b(t), c(t)))
      <4>1. ScorePrDelta(b(t), c(t)).band # "blocked" =>
                ScorePrDelta(b(t), c(t)).band = BandForDelta(BandingDelta(b(t), c(t)))
        BY Report
      <4> QED
        BY <3>1, <4>1
    <3> QED
      BY <3>1, <3>3, <3>4, <3>5
  <2>5. Entry.band = "blocked" \/
        Entry.band = IF None \in {x, y} THEN "none" ELSE BandForDelta(Min({x, y}))
    <3> SUFFICES ASSUME band # "blocked"
                 PROVE  band = IF None \in {x, y} THEN "none" ELSE BandForDelta(Min({x, y}))
      BY <2>3
    <3>1. band = CombinedBand(reports["public"], reports["private"])
      BY <2>1 DEF Verdict
    <3>2. reports["public"].band \in Bands /\ reports["private"].band \in Bands
      BY <2>4 DEF Targets
    <3>3. /\ reports["public"].band \in DOMAIN RankOf
          /\ reports["private"].band \in DOMAIN RankOf
          /\ RankOf[band] <= RankOf[reports["public"].band]
          /\ RankOf[band] <= RankOf[reports["private"].band]
          /\ band \in {reports["public"].band, reports["private"].band}
      BY <3>1, <3>2, CombinedIsLower
    <3>4. /\ x \in Deltas /\ reports["public"].band = BandForDelta(x)
          /\ y \in Deltas /\ reports["private"].band = BandForDelta(y)
      BY <2>4, <3>3, Names DEF Targets
    <3> HIDE DEF x, y
    <3> QED
      BY <3>3, <3>4, LowerBand
  <2>6. {Entry[t].composite_delta : t \in Targets} = {x, y}
    BY DEF Targets
  <2>7. ASSUME SinceAnchor # None, NEW t \in Targets,
               SinceAnchor[t].composite_score # None
        PROVE  Measured(SliceOf(c(t), "whole"))
    <3>1. SinceAnchor[t] = AnchorScores(ScorePrDelta(inputs[t].anchor, c(t)))
      BY <2>7 DEF SinceAnchor
    <3> QED
      BY <2>4, <2>7, <3>1, NoPlaceholderSinceAnchor
  <2> HIDE DEF x, y
  <2> QED
    BY <2>2, <2>3, <2>5, <2>6, <2>7 DEF FeedTellsTheVerdict
<1> QED
  BY <1>1, Published, PTL
=============================================================================
