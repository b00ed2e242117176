----------------------------- MODULE AgentSolve -----------------------------
(***************************************************************************)
(* agent.py: one call of solve, from the checkout to the answer, with      *)
(* agent/llm.py, agent/philosophy.py and agent/decider.py, or one review   *)
(* of a pull request by the same agent (agent/review.py).  The model       *)
(* behind the endpoint is external: each call may fail (which ends the     *)
(* solve), come back malformed, or carry any of the given replies.  The    *)
(* loops over the items of the plan are taken one item a step.             *)
(*                                                                         *)
(* The value of a field that a reply fills in is known by its kind: null,  *)
(* blank, text, list, number or object.                                    *)
(***************************************************************************)
EXTENDS AgentPlan, AgentReview

CONSTANTS
    Checkouts,          \* the frozen checkouts that solve may be called on
    PhilosophyReplies, PlanReplies, LensReplies, DecisionReplies, ReviewReplies

\* What a checkout gives is a context, or the JSON of its file is no object.
NotAnObject == [object |-> FALSE, size |-> 0]

ASSUME CheckoutsAssumption ==
    \A c \in Checkouts : ~LoadFails(c) =>
        LET loaded == LoadContext(c)
        IN  loaded = NotAnObject \/ loaded \in Contexts

VARIABLES
    checkout, planning, offline,   \* the call: the checkout, a planning request, an LLM offline
    pc,
    ctx,                           \* the loaded context
    prompt,                        \* how much of the state and of the evidence the prompts show
    philosophy,
    notes,                         \* what the prompts asked for
    asked,                         \* the items of the model's plan
    todo, plan, seen,              \* the loops over them: left, done, pull requests addressed
    verdicts,                      \* of the lenses that have answered
    decision

vars == <<checkout, planning, offline, pc, ctx, prompt, philosophy, notes, asked, todo, plan,
          seen, verdicts, decision>>

call == <<checkout, planning, offline>>

-----------------------------------------------------------------------------
(* agent/llm.py.                                                           *)

Nothing == [shape |-> "nothing", size |-> 0]

\* _pick_best_json: objects before the rest, then the longest, then the last.
Rank(payload) == <<IF payload.shape = "object" THEN 1 ELSE 0, payload.size>>
AtMost(r, s) == r[1] < s[1] \/ (r[1] = s[1] /\ r[2] <= s[2])

PickBestJson(payloads) ==
    IF payloads = <<>> THEN Nothing
    ELSE payloads[Max({k \in DOMAIN payloads :
                         \A j \in DOMAIN payloads : AtMost(Rank(payloads[j]), Rank(payloads[k]))})]

\* extract_json: the fences that parse, the whole text, the spans that parse.
ExtractJson(reply) ==
    IF PickBestJson(reply.fences).shape \notin {"nothing", "null"} THEN PickBestJson(reply.fences)
    ELSE IF reply.whole.shape # "nothing" THEN reply.whole
    ELSE PickBestJson(reply.spans)

\* What cannot be parsed, and what is no chat completion, is the stub.
ChatJson(reply, stub) ==
    IF offline \/ reply.kind = "envelope" \/ ExtractJson(reply).shape = "nothing" THEN stub
    ELSE ExtractJson(reply)

-----------------------------------------------------------------------------
(* The values of a reply.                                                  *)

NormalizeText(value) == IF value = "null" THEN "default" ELSE "text"
NormalizeStringList(value) == IF value \in {"text", "list"} THEN "texts" ELSE "empty"

\* _normalize_philosophy; merge_bar and direction like summary, evidence like values.
OfflinePhilosophy == [summary |-> "default", values |-> "empty"]

NormalizePhilosophy(payload) ==
    IF payload.shape # "object" THEN OfflinePhilosophy
    ELSE [summary |-> NormalizeText(payload.summary),
          values |-> NormalizeStringList(payload.values)]

\* The unwrapping of plan_next_actions: an explicit list under "plan" stands, also an
\* empty one; "actions" only without it.
AskedItems(payload) ==
    CASE payload.shape = "list" -> payload.items
      [] payload.shape = "object" ->
            IF payload.plan = "list" THEN payload.items ELSE payload.actions
      [] OTHER -> <<>>

ASSUME PlanRepliesAssumption ==
    \A reply \in PlanReplies : AskedItems(ExtractJson(reply)) \in Seq(Items(Words))

\* _normalize_lens_verdict
LensVerdict(payload) ==
    IF payload.shape = "object" /\ payload.verdict \notin {"null", "blank"} THEN "text" ELSE "unclear"

ValidActions == {"merge", "request-changes", "reject", "triage", "assign-reviewer",
                 "release", "plan", "patch", "close", "label"}

ActionSynonyms ==
    [a \in {"approve", "lgtm", "request_changes", "assign_reviewer", "closed", "triaged", "labeled"} |->
        CASE a \in {"approve", "lgtm"} -> "merge"
          [] a = "request_changes" -> "request-changes"
          [] a = "assign_reviewer" -> "assign-reviewer"
          [] a = "closed" -> "close"
          [] a = "triaged" -> "triage"
          [] OTHER -> "label"]

NormalizeAction(action) ==
    IF action \in ValidActions THEN action
    ELSE IF action \in DOMAIN ActionSynonyms THEN ActionSynonyms[action] ELSE "plan"

Bumps == {"major", "minor", "patch"}

\* Mutant: a word that is no level is kept.
NormalizeVersionBumpKept(bump) == IF bump = "null" THEN "none" ELSE bump

NormalizeVersionBump(bump) == IF bump \in Bumps THEN bump ELSE "none"
\* _normalize_labels: as philosophy's lists, but a blank label is dropped.
NormalizeLabels(value) == NormalizeStringList(value)

NormalizeReviewer(value) == IF value \in {"text", "number"} THEN "text" ELSE "null"
NormalizePatch(value) == IF value = "text" THEN "text" ELSE "null"

-----------------------------------------------------------------------------
(* The version that comes next.                                            *)

NoVersion == <<>>

VersionLess(u, v) ==
    \E i \in 1 .. 3 : u[i] < v[i] /\ \A j \in 1 .. (i - 1) : u[j] = v[j]

Newest(versions) == CHOOSE v \in versions : \A u \in versions \ {v} : VersionLess(u, v)

\* _release_versions: the tag of a release, its name if the tag is no version.
ReleaseVersions(releases) ==
    {IF r.tag # NoVersion THEN r.tag ELSE r.name : r \in Range(releases)} \ {NoVersion}

StepClass(old, new) ==
    IF new[1] # old[1] THEN "major" ELSE IF new[2] # old[2] THEN "minor" ELSE "patch"

\* _base_from_releases, the version that bump_match is scored against.
BaseFromReleases(releases) ==
    LET versions == ReleaseVersions(releases)
    IN  IF versions = {} THEN NoVersion ELSE Newest(versions)

\* Mutant: of the releases in the file, also when they are a part of a longer list.
RecentBumpClassRaw(c) ==
    LET versions == IF c.object THEN ReleaseVersions(c.releases) ELSE {}
    IN  IF versions = {} THEN "none"
        ELSE IF Cardinality(versions) = 1 THEN "patch"
        ELSE StepClass(Newest(versions \ {Newest(versions)}), Newest(versions))

\* _recent_bump_class: how the two newest versions differ.
RecentBumpClass(c) ==
    LET versions == IF c.object THEN ReleaseVersions(ContextForAgent(c).releases) ELSE {}
    IN  IF versions = {} THEN "none"
        ELSE IF Cardinality(versions) = 1 THEN "patch"
        ELSE StepClass(Newest(versions \ {Newest(versions)}), Newest(versions))

\* The notes of the prompt of decide.
DeciderNotes(c) ==
    LET releases == IF c.object THEN ContextForAgent(c).releases ELSE <<>>
    IN  (IF BaseFromReleases(releases) # NoVersion THEN {Note("base", {})} ELSE {})
        \cup (IF /\ planning
                 /\ ReleaseTimingState(c) # "suppress"
                 /\ \/ ReleaseTimingState(c) = "pressure"
                    \/ c.object /\ ReleaseCadence(c)
                    \/ releases # <<>>
              THEN {Note("bump", {})} ELSE {})

OfflineDecision ==
    [shape |-> "object", size |-> 0, action |-> "plan", labels |-> "null", reviewer |-> "null",
     bump |-> "none", patch |-> "null", rationale |-> "text"]

\* The two last steps of decide: a hole is filled from the history of releases, and
\* just after a cut no bump is predicted.
BumpOf(out) ==
    LET bump == NormalizeVersionBump(out.bump)
    IN  IF ReleaseTimingState(ctx) = "suppress" THEN "none"
        ELSE IF bump = "none" /\ planning THEN RecentBumpClass(ctx) ELSE bump

\* A planning request cannot be rejected.
ActionOf(out) ==
    IF planning /\ NormalizeAction(out.action) = "reject" THEN "plan"
    ELSE NormalizeAction(out.action)

Decisions ==
    [action : ValidActions, bump : Bumps \cup {"none"}, labels : {"texts", "empty"},
     reviewer : {"text", "null"}, patch : {"text", "null"}]
NoDecision == [action |-> "none"]

-----------------------------------------------------------------------------
(* solve.                                                                  *)

Init ==
    /\ checkout \in Checkouts
    /\ planning \in BOOLEAN
    /\ offline \in BOOLEAN
    /\ pc = "load"
    /\ ctx = NotAnObject
    /\ prompt = [evidence |-> 0, state |-> 0]
    /\ philosophy = OfflinePhilosophy
    /\ notes = {}
    /\ asked = <<>> /\ todo = <<>> /\ plan = <<>> /\ seen = {}
    /\ verdicts = <<>>
    /\ decision = NoDecision

\* An exception leaves solve, and with it everything so far.
Raise ==
    /\ pc' = "failed"
    /\ UNCHANGED <<call, ctx, prompt, philosophy, notes, asked, todo, plan, seen, verdicts, decision>>

Load ==
    /\ pc = "load"
    /\ ~LoadFails(checkout)
    /\ ctx' = LoadContext(checkout)
    /\ prompt' = RenderPromptContext(ctx')
    /\ pc' = "philosophy"
    /\ UNCHANGED <<call, philosophy, notes, asked, todo, plan, seen, verdicts, decision>>

\* A repository without a commit, or whose git output or README is not legible.
LoadRaises == pc = "load" /\ LoadFails(checkout) /\ Raise

\* Without a context the model is not asked.
InferPhilosophy(reply) ==
    /\ pc = "philosophy"
    /\ philosophy' = IF ctx.object THEN NormalizePhilosophy(ChatJson(reply, Nothing))
                     ELSE OfflinePhilosophy
    /\ pc' = "plan"
    /\ UNCHANGED <<call, ctx, prompt, notes, asked, todo, plan, seen, verdicts, decision>>

PlanStub == [shape |-> "list", size |-> 0, items |-> OfflinePlanStub(PrQueue(ctx))]

\* The start of plan_next_actions, up to the list of the model's items.
AskPlan(reply) ==
    /\ pc = "plan"
    /\ ctx.object
    /\ notes' = PlannerNotes(ctx)
    /\ asked' = AskedItems(ChatJson(reply, PlanStub))
    /\ todo' = asked'
    /\ pc' = "filter"
    /\ UNCHANGED <<call, ctx, prompt, philosophy, plan, seen, verdicts, decision>>

PlanWithoutContext ==
    /\ pc = "plan"
    /\ ~ctx.object
    /\ plan' = OfflinePlanStub(<<>>)
    /\ pc' = "lens"
    /\ UNCHANGED <<call, ctx, prompt, philosophy, notes, asked, todo, seen, verdicts, decision>>

\* _normalize_plan and _calibrate_release_prediction, item by item.
FilterItem ==
    LET item == NormalizePlanItem(Head(todo))
    IN
    /\ pc = "filter"
    /\ todo # <<>>
    /\ plan' = IF item.titled /\ SurvivesCalibration(item, ctx) THEN Append(plan, item) ELSE plan
    /\ todo' = Tail(todo)
    /\ UNCHANGED <<call, pc, ctx, prompt, philosophy, notes, asked, seen, verdicts, decision>>

NextLoop(from, to) ==
    /\ pc = from
    /\ todo = <<>>
    /\ todo' = plan
    /\ plan' = <<>>
    /\ pc' = to
    /\ UNCHANGED <<call, ctx, prompt, philosophy, notes, asked, seen, verdicts, decision>>

BackfillItem ==
    /\ pc = "backfill"
    /\ todo # <<>>
    /\ plan' = Append(plan, Backfilled(Head(todo), plan, Tail(todo), ctx))
    /\ todo' = Tail(todo)
    /\ UNCHANGED <<call, pc, ctx, prompt, philosophy, notes, asked, seen, verdicts, decision>>

\* Mutant: the items about one pull request are all kept.
ReconcileItemUncollapsed ==
    LET item == Head(todo)
        prs  == PrQueue(ctx)
        k    == MatchedPr(item, prs)
    IN
    /\ pc = "reconcile"
    /\ todo # <<>>
    /\ plan' = Append(plan, IF k = 0 \/ IsReviewItem(item) THEN item ELSE Restating(item, prs[k]))
    /\ seen' = IF k = 0 THEN seen ELSE seen \cup {PrDedupKey(prs[k])}
    /\ todo' = Tail(todo)
    /\ UNCHANGED <<call, pc, ctx, prompt, philosophy, notes, asked, verdicts, decision>>

\* The loop of reconcile_plan_with_queue: of the items about one pull request the first
\* stays, as a review.
ReconcileItem ==
    LET item == Head(todo)
        prs  == PrQueue(ctx)
    IN
    /\ pc = "reconcile"
    /\ todo # <<>>
    /\ \E k \in 0 .. Len(prs) :
          /\ k = MatchedPr(item, prs)
          /\ \/ /\ k = 0
                /\ plan' = Append(plan, item)
                /\ UNCHANGED seen
             \/ /\ k # 0 /\ PrDedupKey(prs[k]) \in seen
                /\ UNCHANGED <<plan, seen>>
             \/ /\ k # 0 /\ PrDedupKey(prs[k]) \notin seen
                /\ plan' = Append(plan, IF IsReviewItem(item) THEN item
                                        ELSE Restating(item, prs[k]))
                /\ seen' = seen \cup {PrDedupKey(prs[k])}
    /\ todo' = Tail(todo)
    /\ UNCHANGED <<call, pc, ctx, prompt, philosophy, notes, asked, verdicts, decision>>

\* Mutant: an ignored queue is put at the end of the plan.
FinishPlanAppends ==
    LET prs    == PrQueue(ctx)
        review == IF seen = {} /\ prs # <<>> THEN <<ReviewItem(prs[1])>> ELSE <<>>
    IN
    /\ pc = "reconcile"
    /\ todo = <<>>
    /\ plan' = SubSeq(plan \o review, 1, Lesser(N, Len(plan \o review)))
    /\ seen' = {}
    /\ pc' = "lens"
    /\ UNCHANGED <<call, ctx, prompt, philosophy, notes, asked, todo, verdicts, decision>>

\* Its end: a queue that no item addresses comes first, and the plan is cut to n.
FinishPlan ==
    LET prs    == PrQueue(ctx)
        review == IF seen = {} /\ prs # <<>>
                  THEN <<[ReviewItem(prs[1]) EXCEPT !.restates = prs[1].number]>> ELSE <<>>
    IN
    /\ pc = "reconcile"
    /\ todo = <<>>
    /\ plan' = SubSeq(review \o plan, 1, Lesser(N, Len(review \o plan)))
    /\ seen' = {}
    /\ pc' = "lens"
    /\ UNCHANGED <<call, ctx, prompt, philosophy, notes, asked, todo, verdicts, decision>>

\* _run_lens: correctness, direction and risk in turn.
RunLens(reply) ==
    /\ pc = "lens"
    /\ Len(verdicts) < 3
    /\ verdicts' = Append(verdicts, LensVerdict(
                       ChatJson(reply, [shape |-> "object", size |-> 0, verdict |-> "text"])))
    /\ UNCHANGED <<call, pc, ctx, prompt, philosophy, notes, asked, todo, plan, seen, decision>>

Decide(reply) ==
    LET payload == ChatJson(reply, OfflineDecision)
        out == IF payload.shape = "object" THEN payload ELSE OfflineDecision
    IN
    /\ pc = "lens"
    /\ Len(verdicts) = 3
    /\ notes' = notes \cup DeciderNotes(ctx)
    /\ decision' = [action |-> ActionOf(out), bump |-> BumpOf(out),
                    labels |-> NormalizeLabels(out.labels),
                    reviewer |-> NormalizeReviewer(out.reviewer),
                    patch |-> NormalizePatch(out.patch)]
    /\ pc' = "done"
    /\ UNCHANGED <<call, ctx, prompt, philosophy, asked, todo, plan, seen, verdicts>>

\* scripts/review_pr.py: instead of solve, review one pull request.
Review(view, reply) ==
    LET stub == ReviewStub(FetchPr(view))
    IN
    /\ pc = "load"
    /\ ~FetchFails(view)
    /\ decision' = NormalizeReview(ChatJson(reply, stub), stub)
    /\ pc' = "reviewed"
    /\ UNCHANGED <<call, ctx, prompt, philosophy, notes, asked, todo, plan, seen, verdicts>>

ReviewRaises == pc = "load" /\ (~offline \/ \E view \in Views : FetchFails(view)) /\ Raise

\* A transport error of any of the calls leaves chat_json, and solve.
CallRaises ==
    /\ \/ pc \in {"philosophy", "plan"} /\ ctx.object
       \/ pc = "lens"
    /\ ~offline
    /\ Raise

Next ==
    \/ Load
    \/ LoadRaises
    \/ \E reply \in PhilosophyReplies : InferPhilosophy(reply)
    \/ \E reply \in PlanReplies : AskPlan(reply)
    \/ PlanWithoutContext
    \/ FilterItem
    \/ NextLoop("filter", "backfill")
    \/ BackfillItem
    \/ NextLoop("backfill", "reconcile")
    \/ ReconcileItem
    \/ FinishPlan
    \/ \E reply \in LensReplies : RunLens(reply)
    \/ \E reply \in DecisionReplies : Decide(reply)
    \/ CallRaises
    \/ \E view \in Views, reply \in ReviewReplies : Review(view, reply)
    \/ ReviewRaises

Spec == Init /\ [][Next]_vars

-----------------------------------------------------------------------------
(* Types.                                                                  *)

\* The loops keep the plan a list of items of the documented kinds, and the answer is
\* the documented one, whatever the model replies.
TypeOK ==
    /\ pc \in {"load", "philosophy", "plan", "filter", "backfill", "reconcile", "lens",
              "done", "failed", "reviewed"}
    /\ planning \in BOOLEAN /\ offline \in BOOLEAN
    /\ pc \notin {"load", "failed", "reviewed"} =>
          ctx = LoadContext(checkout) /\ ~LoadFails(checkout)
    /\ todo \in Seq(Items(IF pc \in {"backfill", "reconcile"} THEN PlanKinds ELSE Words))
    /\ plan \in Seq(Items(PlanKinds))
    /\ pc \in {"lens", "done"} => Len(plan) <= N
    /\ pc = "done" => decision \in Decisions
    /\ pc = "reviewed" => decision \in Reviews

-----------------------------------------------------------------------------
(* Safety.                                                                 *)

Timing == ReleaseTimingState(ctx)

\* The planner and the decider agree: just after a cut the answer forecasts no release,
\* neither by the kind or the title of an item, through whatever hands the plan went
\* after it was calibrated, nor by a version bump, and the notes on the cadence and on
\* the bump are silent.  The model may well have planned one: the note of the recurring
\* kinds still lists releases and asks for the kinds that it lists.
ForecastsAgree ==
    pc = "done" /\ Timing = "suppress" =>
        /\ \A i \in DOMAIN plan : ~IsPlannedRelease(plan[i])
        /\ decision.bump = "none"
        /\ \A note \in notes : note.topic \notin {"release", "bump"}

\* The bump of a plan for a repository with versions is not left open, and is not read
\* from a list of releases that is only a part: an LLM that is offline names none.
BumpFromWholeHistory ==
    pc = "done" =>
        /\ planning /\ Timing # "suppress" /\ ctx.object
              /\ ReleaseVersions(ContextForAgent(ctx).releases) # {} => decision.bump # "none"
        /\ offline /\ ctx.object /\ ctx.releasesTruncated => decision.bump = "none"

\* However long the repository state is, a prompt shows all the evidence that the limit
\* for evidence admits, and is never longer than a prompt may be.
PromptKeepsEvidence ==
    pc \notin {"load", "failed", "reviewed"} /\ ctx.object /\ ValidMemory(ctx.memory) =>
        /\ prompt.evidence =
              Lesser(MemoryLimit, MemorySize(MemoryViewForAgent(ctx.memory)))
        /\ prompt.state + HeaderSize + prompt.evidence <= PromptLimit

Queue == IF ctx.object THEN PrQueue(ctx) ELSE <<>>
Numbered == \A k \in DOMAIN Queue : Queue[k].number # NoNumber

\* The plan, read again as the planner reads a plan, is about no pull request twice.
OneItemPerPullRequest ==
    pc = "done" /\ Numbered =>
        \A i, j \in DOMAIN plan :
            i # j /\ MatchedPr(plan[i], Queue) # 0 =>
                MatchedPr(plan[i], Queue) # MatchedPr(plan[j], Queue)

\* open PRs are never silently ignored when reconciliation runs
\* (specs/007-agent-planner/plan.md).
QueueNeverIgnored ==
    pc = "done" /\ Numbered /\ Queue # <<>> =>
        \E i \in DOMAIN plan : MatchedPr(plan[i], Queue) # 0

\* A queue that the agent may use is in the plan of a model that keeps to n items; one
\* that is only a part of the backlog is neither in the prompts nor in the plan, which
\* then restates no more than the model itself said.
QueueAnswered ==
    /\ Len(asked) <= N => QueueNeverIgnored
    /\ pc = "done" /\ ctx.object =>
          /\ Queue = <<>> =>
                \A i \in DOMAIN plan : \E a \in Range(asked) : plan[i].restates = a.restates
          /\ Len(Titled(ContextForAgent(ctx).prs)) = Len(Queue)

\* While files are named, nothing makes a plan longer than the judge is shown.  The
\* reconciliation that follows does not count: it may write longer rationales.
BackfillWithinBudget ==
    pc = "backfill"
        /\ (\E i \in DOMAIN plan :
              plan[i] \notin {NormalizePlanItem(a) : a \in Range(asked)}) =>
        PlanSize(plan \o todo) <= PlanBudget
=============================================================================
