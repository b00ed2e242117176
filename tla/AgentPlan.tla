----------------------------- MODULE AgentPlan -----------------------------
(***************************************************************************)
(* agent/planner.py: what one item of a plan is turned into, and what the  *)
(* planner reads out of the frozen context.  A subject is what the regular *)
(* expressions tell apart in a commit subject or a title: its Conventional *)
(* Commit type ("none" without a prefix, "other" for an unknown one), and  *)
(* whether a version leads its body, release wording occurs in it, and a   *)
(* native revert starts it.  A text is its subject, the references to      *)
(* pull requests in it in order, the number that a review verb governs     *)
(* (NoNumber if none), its significant tokens, the titles of pull requests *)
(* that it quotes, and whether it has a review word.                       *)
(***************************************************************************)
EXTENDS AgentContext

CONSTANTS
    Words,            \* what types, kinds, titles and names are made of
    N,                \* the number of items that the plan may have
    SuppressDays, PressureDays, PressureCommits, JustCutLookback,
    AutomationMin,    \* _AUTOMATION_STREAM_MIN
    MinPhrase,        \* _MIN_SUBJECT_PHRASE
    MaxFiles,         \* _BACKFILL_MAX_FILES
    FileSize,         \* the length of one name that is attached
    PlanBudget,       \* _JUDGE_PLAN_COMPACT_BUDGET
    ReviewSize        \* the length of what reconcile_plan_with_queue writes

ASSUME PlanAssumption == N \in Nat /\ ReviewSize \in Nat /\ FileSize \in Nat

NoNumber == 0

Subjects == [type : Words, cut : BOOLEAN, word : BOOLEAN, revert : BOOLEAN]
Refs == [qualified : BOOLEAN, number : Nat]
Texts == [name : Words, subject : Subjects,
          refs : Seq(Refs), governed : Nat,
          tokens : SUBSET Words, quotes : SUBSET Words, review : BOOLEAN, length : Nat]
Items(kinds) ==
    [titled : BOOLEAN, kind : kinds, title : Texts, rationale : Texts,
     theme : SUBSET Words, files : {f \in SUBSET Words : IsFiniteSet(f)},
     restates : Nat, size : Nat]

PullRequests == [number : Nat, title : Texts, titled : BOOLEAN, labels : Words,
                 labelsAsOfT : BOOLEAN]
Releases == [tag : Seq(Nat), name : Seq(Nat), day : Int, forward : BOOLEAN]
\* plain: the name has no comma and no line break.
Entries == [name : Words, tokens : SUBSET Words, excluded : BOOLEAN, plain : BOOLEAN]
Contexts ==
    [object : {TRUE}, source : Words, frozenAt : Int,
     commits : Seq([subject : Subjects, day : Int, automation : BOOLEAN, forward : BOOLEAN]),
     prs : Seq(PullRequests), releases : Seq(Releases),
     issuesTruncated : BOOLEAN, releasesTruncated : BOOLEAN,
     memory : [mode : Words, boundary : BOOLEAN, items : Seq(Nat \cup {Unknown})],
     readme : Nat, size : Nat,
     layout : Seq(Entries)]

PlanKinds == {"feature", "bugfix", "refactor", "docs", "release", "dep", "triage",
              "build", "ci", "test", "perf", "style", "revert"}

\* _CC_TYPE_TO_PLAN_KIND
CcTypes == {"feat", "feature", "fix", "bugfix", "bug", "docs", "doc", "refactor", "release",
            "chore", "deps", "dep", "build", "ci", "test", "tests", "perf", "style", "revert"}

PlanKindOf ==
    [t \in CcTypes |->
        CASE t = "feat" -> "feature"
          [] t \in {"fix", "bug"} -> "bugfix"
          [] t = "doc" -> "docs"
          [] t \in {"chore", "deps"} -> "dep"
          [] t = "tests" -> "test"
          [] OTHER -> t]

ASSUME WordsAssumption == PlanKinds \cup {"", "none", "omitted", "queue"} \subseteq Words

ToolingTypes == {"chore", "build"}

\* _commit_plan_kind
CommitPlanKind(subject) ==
    IF subject.type \in ToolingTypes /\ subject.cut THEN "release"
    ELSE IF subject.type \in CcTypes THEN PlanKindOf[subject.type]
    ELSE "none"

IsReleaseCommit(commit) == CommitPlanKind(commit.subject) = "release"

\* _is_release_subject
IsReleaseSubject(subject) ==
    /\ ~subject.revert
    /\ subject.type # "revert"
    /\ IF subject.type \in CcTypes /\ PlanKindOf[subject.type] # "release"
       THEN subject.type \in ToolingTypes /\ subject.cut
       ELSE subject.word \/ subject.type = "release" \/ (subject.type = "none" /\ subject.cut)

-----------------------------------------------------------------------------
(* When the repository last cut a release.                                 *)

Known(days) == days \ {Unknown}
Latest(days) == IF days = {} THEN Unknown ELSE Max(days)

\* _freeze_dt
FreezeDay(ctx) ==
    LET dated == SelectSeq(ctx.commits, LAMBDA c : c.day # Unknown)
    IN  IF ctx.frozenAt # Unknown THEN ctx.frozenAt
        ELSE IF dated # <<>> THEN dated[1].day ELSE Unknown

\* _last_release_dt: it reads the releases of the file as they are.
LastReleaseDay(ctx) ==
    Latest(Known({ctx.releases[i].day : i \in DOMAIN ctx.releases}
                 \cup {c.day : c \in {d \in Range(ctx.commits) : IsReleaseCommit(d)}}))

\* _days_since_last_release: a release that is later than the freeze is no evidence.
DaysSinceLastRelease(ctx) ==
    LET days == FreezeDay(ctx) - LastReleaseDay(ctx)
    IN  IF FreezeDay(ctx) = Unknown \/ LastReleaseDay(ctx) = Unknown \/ days < 0
        THEN Unknown ELSE days

\* _commits_since_last_release
CommitsSinceLastRelease(ctx) ==
    LET cut == SelectInSeq(ctx.commits, IsReleaseCommit)
    IN  IF cut = 0 THEN Len(ctx.commits) ELSE cut - 1

\* _release_cadence_signal
ReleaseCadence(ctx) == \E c \in Range(ctx.commits) : IsReleaseCommit(c)

\* _release_just_cut_undated
JustCutUndated(ctx) ==
    \E i \in DOMAIN ctx.commits : i <= JustCutLookback /\ IsReleaseCommit(ctx.commits[i])

\* _release_timing_state; of what is no object nothing is known.
ReleaseTimingState(ctx) ==
    LET days == IF ctx.object THEN DaysSinceLastRelease(ctx) ELSE Unknown
    IN  IF ~ctx.object THEN "neutral"
        ELSE IF \/ days \in 0 .. SuppressDays
                \/ days = Unknown /\ JustCutUndated(ctx)
        THEN "suppress"
        ELSE IF \/ days >= PressureDays
                \/ CommitsSinceLastRelease(ctx) >= PressureCommits /\ ctx.commits # <<>>
        THEN "pressure" ELSE "neutral"

-----------------------------------------------------------------------------
(* The items of a plan.                                                    *)

\* _safe_prs: nothing of a partial backlog.
SafePrs(ctx) == IF ctx.issuesTruncated THEN <<>> ELSE ctx.prs

\* _pr_queue: no untitled entry.
Titled(prs) ==
    FoldLeft(LAMBDA queue, pr : IF pr.titled THEN Append(queue, pr) ELSE queue, <<>>, prs)
PrQueue(ctx) == Titled(SafePrs(ctx))

\* _normalize_plan_item, for an item that has a title; the others are dropped.
NormalizedKind(kind) ==
    IF kind \in PlanKinds THEN kind ELSE IF kind \in CcTypes THEN PlanKindOf[kind] ELSE "triage"

NormalizePlanItem(item) == [item EXCEPT !.kind = NormalizedKind(@)]

\* _is_planned_release: neither a review nor a revert of a release predicts one.
IsPlannedRelease(item) ==
    \/ item.kind = "release"
    \/ item.kind \notin {"triage", "revert"} /\ IsReleaseSubject(item.title.subject)

\* Mutant: only the kind counts.
SurvivesCalibrationByKind(item, ctx) ==
    \/ item.kind # "release"
    \/ ReleaseTimingState(ctx) = "pressure"
    \/ ReleaseTimingState(ctx) = "neutral" /\ ReleaseCadence(ctx)

\* _calibrate_release_prediction, of one item.
SurvivesCalibration(item, ctx) ==
    \/ ~IsPlannedRelease(item)
    \/ ReleaseTimingState(ctx) = "pressure"
    \/ ReleaseTimingState(ctx) = "neutral" /\ ReleaseCadence(ctx)

\* The length of the plan in the judge's form.
ItemSize(item) == item.size + FileSize * Cardinality(item.files)
PlanSize(items) == FoldLeft(LAMBDA total, item : total + ItemSize(item), 0, items)

\* _repo_layout: the entries whose names fit into one line of a prompt.
PlainEntries(ctx) == {k \in DOMAIN ctx.layout : ctx.layout[k].plain}

\* The first entries of the layout that share a token with the item's own text.
MatchingEntries(item, ctx) ==
    LET words   == item.title.tokens \cup item.theme \cup item.rationale.tokens
        matched == {k \in PlainEntries(ctx) : ctx.layout[k].tokens \cap words # {}}
    IN  {k \in matched : Cardinality({j \in matched : j <= k}) <= MaxFiles}

WithFiles(item, ctx) ==
    [item EXCEPT !.files = {ctx.layout[k].name : k \in MatchingEntries(item, ctx)}]

\* Mutant: every item has the budget for itself.
BackfilledAlone(item, done, rest, ctx) ==
    IF /\ item.files = {}
       /\ item.kind # "triage"
       /\ ItemSize(WithFiles(item, ctx)) <= PlanBudget
    THEN WithFiles(item, ctx) ELSE item

\* _backfill_files_from_layout, of one item between those done and the rest.
Backfilled(item, done, rest, ctx) ==
    IF /\ item.files = {}
       /\ item.kind # "triage"
       /\ PlanSize(done) + ItemSize(WithFiles(item, ctx)) + PlanSize(rest) <= PlanBudget
    THEN WithFiles(item, ctx) ELSE item

-----------------------------------------------------------------------------
(* Which pull request of the queue an item is about.                       *)

References(item) == item.title.refs \o item.rationale.refs

\* _pr_reference: the first qualified reference, else the first bare one.
PrReference(refs) ==
    LET qualified == {i \in DOMAIN refs : refs[i].qualified}
    IN  IF qualified # {} THEN refs[Min(qualified)] ELSE refs[1]

\* _review_governed_pr_number
Governed(item) ==
    IF item.title.governed # NoNumber THEN item.title.governed ELSE item.rationale.governed

\* _reads_as_pr_reference: a review verb governs the number, which is no ordinal.
ReadsAsPrReference(item) == Governed(item) # NoNumber

\* by_number: of two entries with a number the later one.
ByNumber(number, prs) ==
    LET found == {k \in DOMAIN prs : prs[k].number = number /\ number # NoNumber}
    IN  IF found = {} THEN 0 ELSE Max(found)

\* _title_contains_pr_subject
Quotes(item, pr) ==
    /\ pr.title.length >= MinPhrase
    /\ pr.title.name \in item.title.quotes \cup item.rationale.quotes

SharedTokens(item, pr) ==
    IF Cardinality(pr.title.tokens) < 2 THEN 0
    ELSE Cardinality((item.title.tokens \cup item.theme) \cap pr.title.tokens)

\* _pr_content_matches
ContentMatches(item, pr) == Quotes(item, pr) \/ SharedTokens(item, pr) >= 2

\* The first of the candidates that rank highest.
FirstBest(rank) ==
    IF DOMAIN rank = {} THEN 0
    ELSE Min({k \in DOMAIN rank : \A j \in DOMAIN rank : rank[j] <= rank[k]})

\* The phrase that is quoted, the longest of nested ones, else the best overlap.
MatchedByContent(item, prs) ==
    LET quoted == {k \in DOMAIN prs : Quotes(item, prs[k])}
        shared == {k \in DOMAIN prs : SharedTokens(item, prs[k]) >= 2}
    IN  IF quoted # {} THEN FirstBest([k \in quoted |-> prs[k].title.length])
        ELSE FirstBest([k \in shared |-> SharedTokens(item, prs[k])])

\* _matched_pr: the index of the pull request, 0 if there is none.
MatchedPr(item, prs) ==
    LET ref == PrReference(References(item))
        k   == ByNumber(IF ~ref.qualified /\ ReadsAsPrReference(item)
                        THEN Governed(item) ELSE ref.number, prs)
        trusted == \/ ref.qualified
                   \/ ReadsAsPrReference(item)
                   \/ k # 0 /\ ContentMatches(item, prs[k])
    IN  IF References(item) # <<>> /\ trusted THEN k ELSE MatchedByContent(item, prs)

\* _pr_dedup_key
PrDedupKey(pr) == IF pr.number # NoNumber THEN <<"number", pr.number>> ELSE <<"title", pr.title.name>>

\* _is_review_item
IsReviewItem(item) == item.kind = "triage" \/ item.title.review

PlainSubject == [type |-> "none", cut |-> FALSE, word |-> FALSE, revert |-> FALSE]
NoText == [name |-> "", subject |-> PlainSubject, refs |-> <<>>, governed |-> NoNumber,
           tokens |-> {}, quotes |-> {}, review |-> FALSE, length |-> 0]

PrRef(number) ==
    IF number = NoNumber THEN <<>> ELSE <<[qualified |-> TRUE, number |-> number]>>

\* What becomes of an item that restates an open pull request.
Restating(item, pr) ==
    [item EXCEPT !.kind = "triage", !.restates = pr.number,
                 !.rationale = [NoText EXCEPT !.refs = PrRef(pr.number)],
                 !.size = @ + ReviewSize]

\* "Review pull request #N: title", of the offline stub and of the reconciliation, with
\* the theme "PR queue".
ReviewItem(pr) ==
    [titled |-> TRUE, kind |-> "triage", files |-> {}, theme |-> {"queue"}, restates |-> NoNumber,
     rationale |-> NoText, size |-> ReviewSize,
     title |-> [pr.title EXCEPT
                   !.refs = PrRef(pr.number) \o @, !.quotes = @ \cup {pr.title.name},
                   !.governed = IF pr.number # NoNumber THEN pr.number ELSE @,
                   !.subject = [PlainSubject EXCEPT !.word = pr.title.subject.word],
                   !.review = TRUE]]

\* _offline_plan_stub
OfflinePlanStub(prs) ==
    LET items == [k \in DOMAIN prs |-> ReviewItem(prs[k])]
        idle  == [ReviewItem([number |-> NoNumber, title |-> NoText])
                    EXCEPT !.title = NoText, !.theme = {}]
    IN  IF items = <<>> THEN SubSeq(<<idle>>, 1, Lesser(1, N))
        ELSE SubSeq(items, 1, Lesser(Len(items), N))

-----------------------------------------------------------------------------
(* What the prompts ask for.                                               *)

\* _recent_kinds_note: the kinds that recur in recent history.
RecentKinds(ctx) == {CommitPlanKind(c.subject) : c \in Range(ctx.commits)} \ {"none"}

\* _release_cadence_note: a release is asked for when one is due, not where there were some.
AsksForRelease(ctx) == ReleaseTimingState(ctx) = "pressure"

\* _automation_surface_signal: a stream of subjects that only tools write.
AutomationSubjects(ctx) == SelectSeq(ctx.commits, LAMBDA c : c.automation)
AutomationSurface(ctx) == Len(AutomationSubjects(ctx)) >= AutomationMin

\* _repo_layout_note
ShowsLayout(ctx) == PlainEntries(ctx) # {}

\* _pr_queue_note
ShowsQueue(ctx) == PrQueue(ctx) # <<>>

\* A note of a prompt, with the kinds of items that it asks a plan to have.
Note(topic, kinds) == [topic |-> topic, kinds |-> kinds]

\* The notes of the prompt of plan_next_actions.  That of the recurring kinds names
\* releases wherever some recur, also just after one.
PlannerNotes(ctx) ==
    {note \in {Note("layout", {}), Note("kinds", RecentKinds(ctx)), Note("release", {"release"}),
               Note("config", {}), Note("queue", {"triage"})} :
        \/ note.topic = "layout" /\ ShowsLayout(ctx)
        \/ note.topic = "kinds" /\ RecentKinds(ctx) # {}
        \/ note.topic = "release" /\ AsksForRelease(ctx)
        \/ note.topic = "config" /\ AutomationSurface(ctx)
        \/ note.topic = "queue" /\ ShowsQueue(ctx)}
=============================================================================
