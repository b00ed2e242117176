-------------------------- MODULE LeaderboardFeed --------------------------
(***************************************************************************)
(* scripts/leaderboard_feed.py behind scripts/score_pr_delta.py: one pull  *)
(* request is scored on the public and on the private repositories, in     *)
(* either order, the verdicts are combined, and the public part of the     *)
(* result is appended to the feed.  The process that calls the scripts may *)
(* stop anywhere, also between the truncation of the feed file and the end *)
(* of its dump.                                                            *)
(***************************************************************************)
EXTENDS PrScore, Sequences, SequencesExt

CONSTANTS
    Cases,       \* target -> pairs of artifacts, with the anchor's, it may be given
    Torn,        \* a feed file that is no JSON array
    MaxEntries   \* max_entries of append_entry

Targets == {"public", "private"}

ASSUME FeedAssumption ==
    /\ DOMAIN Cases = Targets
    /\ \A t \in Targets : \A case \in Cases[t] :
         \A artifact \in {case.baseline, case.candidate, case.anchor} :
             artifact = None \/ IsArtifact(artifact)
    /\ MaxEntries \in Nat \ {0}

VARIABLES
    inputs,    \* target -> [baseline, candidate, anchor]: artifacts, or None
    reports,   \* target -> the report of score_pr_delta, or None
    band,      \* the combined band, or None
    feed,      \* the file: None (missing), Torn, or the entries, oldest first
    existing,  \* what append_entry has read, or None
    pc         \* the step of the publishing process

vars == <<inputs, reports, band, feed, existing, pc>>

-----------------------------------------------------------------------------
(* What is published.                                                      *)

\* _round and _dict: what is no finite number is published as null.
Rounded(value) == IF value \in Unusable THEN None ELSE value

\* Mutant: only the key of a standard score is read.
StandardDelta(report) ==
    IF "whole" \in DOMAIN report.composite_deltas
    THEN Rounded(report.composite_deltas["whole"]) ELSE None

\* The delta the band was derived from, for both shapes.
CompositeDelta(report) ==
    IF "whole" \in DOMAIN report.composite_deltas
    THEN Rounded(report.composite_deltas["whole"])
    ELSE Least({report.composite_deltas[part] : part \in DOMAIN report.composite_deltas})

SafePerRepo(report) ==
    [repo \in DOMAIN report.diff.per_repo |-> Rounded(report.diff.per_repo[repo].delta)]

\* _foresight_of: validated anew, whatever the artifact says.
FeedForesight(report) == Rounded(report.foresight)

\* A score against the fixed anchor: three scalars of the top-level composite.
AnchorScores(report) ==
    IF "whole" \in DOMAIN report.diff.composite
    THEN LET composite == report.diff.composite["whole"]
         IN  [composite_delta |-> Rounded(composite.delta),
              composite_score |-> Rounded(composite.candidate),
              anchor_score |-> Rounded(composite.baseline)]
    ELSE [composite_delta |-> None, composite_score |-> None, anchor_score |-> None]

\* since_anchor is there when an anchor was given for both targets.
SinceAnchor ==
    IF \E t \in Targets : inputs[t].anchor = None THEN None
    ELSE [t \in Targets |-> AnchorScores(ScorePrDelta(inputs[t].anchor, inputs[t].candidate))]

\* to_leaderboard_entry: of the private target no row is published.
Entry ==
    [band |-> band,
     public |-> [composite_delta |-> CompositeDelta(reports["public"]),
                 per_repo |-> SafePerRepo(reports["public"]),
                 foresight |-> FeedForesight(reports["public"])],
     private |-> [composite_delta |-> CompositeDelta(reports["private"]),
                  foresight |-> FeedForesight(reports["private"])],
     since_anchor |-> SinceAnchor]

\* The newest max_entries of the list.
Newest(entries) ==
    IF Len(entries) > MaxEntries
    THEN SubSeq(entries, Len(entries) - MaxEntries + 1, Len(entries)) ELSE entries

-----------------------------------------------------------------------------

OlderFeeds == {None, Torn} \cup {[i \in 1 .. n |-> "older"] : n \in {0, MaxEntries}}

Init ==
    /\ \E public \in Cases["public"], private \in Cases["private"] :
          inputs = [public |-> public, private |-> private]
    /\ reports = [t \in Targets |-> None]
    /\ band = None
    /\ feed \in OlderFeeds
    /\ existing = None
    /\ pc = "score"

\* score_pr_delta run on one target.
Score(t) ==
    /\ pc = "score"
    /\ reports[t] = None
    /\ inputs[t].baseline # None
    /\ inputs[t].candidate # None
    /\ reports' = [reports EXCEPT ![t] = ScorePrDelta(inputs[t].baseline, inputs[t].candidate)]
    /\ UNCHANGED <<inputs, band, feed, existing, pc>>

\* An artifact that cannot be loaded ends the run with status 2.
LoadFails(t) ==
    /\ pc = "score"
    /\ None \in {inputs[t].baseline, inputs[t].candidate}
    /\ pc' = "failed"
    /\ UNCHANGED <<inputs, reports, band, feed, existing>>

CombineDualTarget ==
    /\ pc = "score"
    /\ \A t \in Targets : reports[t] # None
    /\ band' = CombinedBand(reports["public"], reports["private"])
    /\ pc' = "read"
    /\ UNCHANGED <<inputs, reports, feed, existing>>

\* append_entry: a missing file is an empty feed, a torn one is an error.
ReadFeed ==
    /\ pc = "read"
    /\ IF feed = Torn THEN pc' = "failed" /\ UNCHANGED existing
       ELSE pc' = "truncate" /\ existing' = IF feed = None THEN <<>> ELSE feed
    /\ UNCHANGED <<inputs, reports, band, feed>>

TruncateFeed ==
    /\ pc = "truncate"
    /\ feed' = Torn
    /\ pc' = "dump"
    /\ UNCHANGED <<inputs, reports, band, existing>>

DumpFeed ==
    /\ pc = "dump"
    /\ feed' = Newest(Append(existing, Entry))
    /\ pc' = "done"
    /\ UNCHANGED <<inputs, reports, band, existing>>

Crash ==
    /\ pc \notin {"failed", "done"}
    /\ pc' = "failed"
    /\ UNCHANGED <<inputs, reports, band, feed, existing>>

Next ==
    \/ \E t \in Targets : Score(t) \/ LoadFails(t)
    \/ CombineDualTarget \/ ReadFeed \/ TruncateFeed \/ DumpFeed \/ Crash

Spec == Init /\ [][Next]_vars

-----------------------------------------------------------------------------
(* Properties, over the artifacts as they were given.                      *)

\* A slice says that it stands for measured tasks: with a number of repositories, of
\* whatever size, that is not zero, and without one with no count of tasks or a positive.
Measured(slice) ==
    IF slice.scored_repos \in Int \cup {Corrupt} THEN slice.scored_repos # 0
    ELSE slice.tasks = None \/ (slice.tasks \in Int /\ slice.tasks > 0)

\* The two sides of a part that were both measured, and their change in a field.
Comparable(t, part, field) ==
    LET base == SliceOf(inputs[t].baseline, part)
        cand == SliceOf(inputs[t].candidate, part)
    IN  /\ Measured(base) /\ Measured(cand)
        /\ base[field] \in Int /\ cand[field] \in Int
Change(t, part, field) ==
    SliceOf(inputs[t].candidate, part)[field] - SliceOf(inputs[t].baseline, part)[field]

\* A label is earned on both targets: no partition measured a drop of the
\* judge's or the objective mean past the noise floor or reported one that is
\* null or no finite number, some partition was measured before and after, and every one
\* that was improved by at least the threshold of the band (score_pr_delta's
\* Pareto floor and banding, combine_dual_target).
LabelIsEarned ==
    band # None /\ Labelled(band) =>
        \A t \in Targets :
            LET parts == PartsOf(inputs[t].baseline, inputs[t].candidate)
            IN  /\ \A part \in parts, axis \in Axes :
                      /\ Comparable(t, part, axis) =>
                            \/ Change(t, part, axis) >= -NoiseFloor
                            \/ Change(t, part, axis) \notin -Limit .. Limit
                      /\ \A side \in {"baseline", "candidate"} :
                            LET slice == SliceOf(inputs[t][side], part)
                            IN  Measured(slice) => slice[axis] \notin Unusable
                /\ \E part \in parts : Comparable(t, part, "composite_mean")
                /\ \A part \in parts :
                      Comparable(t, part, "composite_mean") =>
                          \/ Change(t, part, "composite_mean") >= Threshold[band]
                          \/ Change(t, part, "composite_mean") \notin -Limit .. Limit

\* A published entry tells one story: the smaller of its two deltas falls
\* into its band unless it is blocked ("the published delta can never
\* contradict the published band", leaderboard_feed._composite_delta), and
\* no placeholder of an unmeasured run is shown as a score since the anchor.
FeedTellsTheVerdict ==
    pc = "done" =>
        LET entry == feed[Len(feed)]
            deltas == {entry[t].composite_delta : t \in Targets}
        IN  /\ entry.band = "blocked" \/
               entry.band = (IF None \in deltas THEN "none" ELSE BandForDelta(Min(deltas)))
            /\ entry.since_anchor # None =>
                  \A t \in Targets :
                      entry.since_anchor[t].composite_score # None =>
                          Measured(SliceOf(inputs[t].candidate, "whole"))

=============================================================================
