------------------------ MODULE PullRequestPolicies ------------------------
(***************************************************************************)
(* scripts/benchmark_pr_policy.py, pr_gaming_policy.py and                 *)
(* pr_reopen_policy.py on one pull request.  Each script is run by a       *)
(* workflow that answers GitHub events; runs of one workflow on the pull   *)
(* request form a concurrency group, with one run at a time and the newest *)
(* event waiting.  Runs of different groups, the author and the            *)
(* maintainers interleave between any two GitHub calls, and every call may *)
(* fail, which ends the script (PolicyError, exit status 2).               *)
(***************************************************************************)
EXTENDS Naturals

CONSTANTS
    CiRuns,     \* groups of the gaming policy that answer a completed CI run
    PageSize,   \* comments in the one page _sync_close_comment asks for
    NoEvent,    \* nothing waits in a group
    MaxMoves    \* bound on what people and CI do

\* The workflows with a group of their own for the pull request.
Policies == {"benchmark", "gaming", "reopen"}
Groups == Policies \cup CiRuns
People == {"contributor", "maintainer"}
\* Events, reduced to what the scripts read of them: the actor who caused
\* the event and whether the body it carries refers to the issue.
Events == [actor : People, refs : BOOLEAN]

ASSUME PolicyAssumption ==
    /\ Policies \cap CiRuns = {}
    /\ PageSize \in Nat \ {0}
    /\ NoEvent \notin Events
    /\ MaxMoves \in Nat

VARIABLES
    pr,         \* GitHub: the pull request
    approved,   \* GitHub: the issue is open and has the approval label
    comments,   \* GitHub: the comments of the pull request
    waiting,    \* group -> the newest event without a run, or NoEvent
    runs,       \* group -> the run in progress
    moves,      \* what people and CI did so far
    endorsed,   \* approved at some moment since the benchmark policy's last event
    unenforced, \* policies whose last run failed before its verdict took effect
    reopenedBy, \* who reopened the pull request last
    settled     \* a maintainer reopened it, compliant, with no run in sight

vars == <<pr, approved, comments, waiting, runs, moves, endorsed, unenforced,
          reopenedBy, settled>>

\* forged: some commit claims the author's account and belongs to another.
\* guarded: a path outside the agent submission surface is changed.
\* refs: the body refers to the issue.
PullRequests == [state : {"open", "closed"}, author : People,
                 forged : BOOLEAN, guarded : BOOLEAN, refs : BOOLEAN]

\* length: how much of the first page is used.  shown: the markers on it.
\* reopens: comments of the reopen policy, on whatever page.
Comments == [length : 0 .. PageSize, shown : SUBSET Policies, reopens : Nat]
NoComments == [length |-> 0, shown |-> {}, reopens |-> 0]

\* A comment of a policy, or of a person ("talk").
WithComment(marker) ==
    [length |-> IF comments.length < PageSize THEN comments.length + 1 ELSE PageSize,
     shown |-> IF comments.length < PageSize THEN comments.shown \cup ({marker} \cap Policies)
               ELSE comments.shown,
     reopens |-> IF marker = "reopen" THEN comments.reopens + 1 ELSE comments.reopens]

Steps == {"idle", "files", "issues", "associate", "pull", "commits", "state",
          "list", "post", "close"}
\* refs: the body of the event does; wasOpen: gaming's was_open.
Runs == [step : Steps, refs : BOOLEAN, wasOpen : BOOLEAN]
NoRun == [step |-> "idle", refs |-> FALSE, wasOpen |-> FALSE]

TypeOK ==
    /\ pr \in PullRequests
    /\ approved \in BOOLEAN
    /\ comments \in Comments
    /\ waiting \in [Groups -> Events \cup {NoEvent}]
    /\ runs \in [Groups -> Runs]
    /\ moves \in 0 .. MaxMoves
    /\ endorsed \in BOOLEAN
    /\ unenforced \subseteq Policies
    /\ reopenedBy \in People \cup {"nobody"}
    /\ settled \in BOOLEAN

-----------------------------------------------------------------------------
(* What the scripts decide.                                                *)

Open == pr.state = "open"
ByMaintainer == pr.author = "maintainer"
PolicyOf(g) == IF g \in CiRuns THEN "gaming" ELSE g

\* evaluate_policy of the three scripts, on what each one has read.
ProtectedChange == pr.guarded /\ ~ByMaintainer
IdentityMismatch == pr.forged /\ ~ByMaintainer
ReopenAllowed(event) == event.actor = "maintainer"

\* Mutant: the reopen comment is looked for on one page as well.
HasCommentedOnFirstPage(policy) == policy \in comments.shown

\* _sync_close_comment looks at one page, _ensure_comment at every page.
HasCommented(policy) ==
    IF policy = "reopen" THEN comments.reopens > 0 ELSE policy \in comments.shown

-----------------------------------------------------------------------------
(* The workflows: triggers, groups and cancellation.                       *)

\* on.pull_request_target.types of the three workflows.
Listeners(kind) ==
    CASE kind = "reopened" -> Policies
      [] kind = "ready_for_review" -> {"gaming"}
      [] kind \in {"opened", "edited", "synchronize"} -> {"benchmark", "gaming"}

\* Mutant: the reopen policy judges the author, not the actor.
EventForAuthor(g, actor, refs) ==
    [actor |-> IF g = "reopen" THEN pr.author ELSE "contributor",
     refs |-> g = "benchmark" /\ refs]

\* Only the reopen policy reads the actor, only the benchmark policy the body.
EventFor(g, actor, refs) ==
    [actor |-> IF g = "reopen" THEN actor ELSE "contributor",
     refs |-> g = "benchmark" /\ refs]

\* A group keeps its newest event; an older one that waits is dropped.
Notify(kind, actor, refs) ==
    /\ waiting' = [g \in Groups |-> IF g \in Listeners(kind)
                                    THEN EventFor(g, actor, refs)
                                    ELSE waiting[g]]
    /\ endorsed' = IF "benchmark" \in Listeners(kind) THEN approved ELSE endorsed

FirstStep(g) ==
    CASE g = "benchmark" -> "files"
      [] g = "gaming" -> "pull"
      [] g = "reopen" -> "state"
      [] g \in CiRuns -> "associate"

Idle(g) == runs[g].step = "idle"
Quiet == \A g \in Groups : Idle(g) /\ waiting[g] = NoEvent

github == <<pr, approved, comments>>
ghosts == <<endorsed, unenforced, reopenedBy, settled>>

GoTo(g, step) == runs' = [runs EXCEPT ![g].step = step]
End(g) == runs' = [runs EXCEPT ![g] = NoRun]

\* The group's next run starts; the reopen policy asks GitHub nothing when a
\* maintainer reopened.
Start(g) ==
    /\ Idle(g)
    /\ waiting[g] # NoEvent
    /\ waiting' = [waiting EXCEPT ![g] = NoEvent]
    /\ runs' = [runs EXCEPT ![g] =
          IF g = "reopen" /\ ReopenAllowed(waiting[g]) THEN NoRun
          ELSE [step |-> FirstStep(g), refs |-> waiting[g].refs, wasOpen |-> FALSE]]
    /\ unenforced' = unenforced \ {g}
    /\ UNCHANGED <<github, moves, endorsed, reopenedBy, settled>>

\* cancel-in-progress, which only the reopen workflow asks for: GitHub stops
\* the run some time after the newer event arrived.
Cancel ==
    /\ ~Idle("reopen")
    /\ waiting["reopen"] # NoEvent
    /\ End("reopen")
    /\ UNCHANGED <<github, waiting, moves, ghosts>>

\* A call fails, answers something malformed, or the job's five minutes are
\* over.  The reopen policy comments after it has closed.
Enforced(g) == g = "reopen" /\ runs[g].step \in {"list", "post"}
Fail(g) ==
    /\ ~Idle(g)
    /\ End(g)
    /\ unenforced' = IF Enforced(g) THEN unenforced ELSE unenforced \cup ({g} \cap Policies)
    /\ UNCHANGED <<github, waiting, moves, endorsed, reopenedBy, settled>>

-----------------------------------------------------------------------------
(* The steps of a run, each with one GitHub call.                          *)

Reading == UNCHANGED <<github, waiting, moves, ghosts>>

\* benchmark: _changed_files, now; author and body are those of the event.
ReadFiles(g) ==
    /\ runs[g].step = "files"
    /\ IF ~ProtectedChange THEN End(g)
       ELSE GoTo(g, IF runs[g].refs THEN "issues" ELSE "list")
    /\ Reading

\* benchmark: _issues, then the decision.
ReadIssues(g) ==
    /\ runs[g].step = "issues"
    /\ IF approved THEN End(g) ELSE GoTo(g, "list")
    /\ Reading

\* gaming after CI: the event lists the pull request, or (for a fork) it is
\* looked up among the open ones by its branch.
Associate(g) ==
    /\ runs[g].step = "associate"
    /\ \E listed \in BOOLEAN : IF listed \/ Open THEN GoTo(g, "pull") ELSE End(g)
    /\ Reading

\* gaming: _pull.
ReadPull(g) ==
    /\ runs[g].step = "pull"
    /\ runs' = [runs EXCEPT ![g].step = "commits", ![g].wasOpen = Open]
    /\ Reading

\* gaming: _paginate(commits), then the decision.
ReadCommits(g) ==
    /\ runs[g].step = "commits"
    /\ IF IdentityMismatch THEN GoTo(g, "list") ELSE End(g)
    /\ Reading

\* reopen: _pull_state.
ReadState(g) ==
    /\ runs[g].step = "state"
    /\ GoTo(g, IF Open THEN "close" ELSE "list")
    /\ Reading

\* benchmark closes whatever the state; gaming only what it saw open.
AfterComment(g) ==
    CASE PolicyOf(g) = "benchmark" -> GoTo(g, "close")
      [] PolicyOf(g) = "gaming" -> IF runs[g].wasOpen THEN GoTo(g, "close") ELSE End(g)
      [] PolicyOf(g) = "reopen" -> End(g)

\* Mutant: a pull request that has the comment is taken to be dealt with.
ListCommentsOnce(g) ==
    /\ runs[g].step = "list"
    /\ IF HasCommented(PolicyOf(g)) THEN End(g) ELSE GoTo(g, "post")
    /\ Reading

\* _sync_close_comment and _ensure_comment: look, then post unless the
\* comment is there (the close comments are then written anew, in place).
ListComments(g) ==
    /\ runs[g].step = "list"
    /\ IF HasCommented(PolicyOf(g)) THEN AfterComment(g) ELSE GoTo(g, "post")
    /\ Reading

PostComment(g) ==
    /\ runs[g].step = "post"
    /\ comments' = WithComment(PolicyOf(g))
    /\ AfterComment(g)
    /\ UNCHANGED <<pr, approved, waiting, moves, ghosts>>

\* PATCH state=closed, which raises no event: the token is a workflow's.
Close(g) ==
    /\ runs[g].step = "close"
    /\ pr' = [pr EXCEPT !.state = "closed"]
    /\ IF PolicyOf(g) = "reopen" THEN GoTo(g, "list") ELSE End(g)
    /\ UNCHANGED <<approved, comments, waiting, moves, ghosts>>

\* Mutant: the reopen policy comments first and closes afterwards.
StepCommentsFirst(g) ==
    \/ ReadFiles(g) \/ ReadIssues(g) \/ Associate(g) \/ ReadPull(g) \/ ReadCommits(g)
    \/ /\ g # "reopen"
       /\ ListComments(g) \/ PostComment(g) \/ Close(g)
    \/ /\ g = "reopen"
       /\ \/ runs[g].step = "state" /\ GoTo(g, "list") /\ Reading
          \/ /\ runs[g].step = "list"
             /\ GoTo(g, IF HasCommented(g) THEN "close" ELSE "post")
             /\ Reading
          \/ /\ runs[g].step = "post"
             /\ comments' = WithComment(g)
             /\ GoTo(g, "close")
             /\ UNCHANGED <<pr, approved, waiting, moves, ghosts>>
          \/ /\ runs[g].step = "close"
             /\ pr' = [pr EXCEPT !.state = "closed"]
             /\ End(g)
             /\ UNCHANGED <<approved, comments, waiting, moves, ghosts>>

Step(g) ==
    \/ ReadFiles(g) \/ ReadIssues(g) \/ Associate(g) \/ ReadPull(g) \/ ReadCommits(g)
    \/ ReadState(g) \/ ListComments(g) \/ PostComment(g) \/ Close(g)

-----------------------------------------------------------------------------
(* People and CI.                                                          *)

Move == moves < MaxMoves /\ moves' = moves + 1

\* The author pushes; GitHub sends synchronize only for an open pull request.
Push ==
    /\ Move
    /\ \E forged, guarded \in BOOLEAN :
          pr' = [pr EXCEPT !.forged = forged, !.guarded = guarded]
    /\ IF Open THEN Notify("synchronize", pr.author, pr.refs)
       ELSE UNCHANGED <<waiting, endorsed>>
    /\ settled' = FALSE
    /\ UNCHANGED <<approved, comments, runs, unenforced, reopenedBy>>

Edit ==
    /\ Move
    /\ \E refs \in BOOLEAN :
          /\ pr' = [pr EXCEPT !.refs = refs]
          /\ Notify("edited", pr.author, refs)
    /\ settled' = FALSE
    /\ UNCHANGED <<approved, comments, runs, unenforced, reopenedBy>>

MarkReady ==
    /\ Move
    /\ Notify("ready_for_review", pr.author, pr.refs)
    /\ UNCHANGED <<github, runs, unenforced, reopenedBy, settled>>

\* What the three policies ask of the pull request as it stands.
Complies ==
    \/ ByMaintainer
    \/ ~pr.forged /\ (pr.guarded => pr.refs /\ approved)

Reopen(who) ==
    /\ Move
    /\ ~Open
    /\ who \in {"maintainer", pr.author}
    /\ pr' = [pr EXCEPT !.state = "open"]
    /\ Notify("reopened", who, pr.refs)
    /\ reopenedBy' = who
    /\ settled' = (who = "maintainer" /\ Quiet /\ Complies)
    /\ UNCHANGED <<approved, comments, runs, unenforced>>

CloseByHand ==
    /\ Move
    /\ Open
    /\ pr' = [pr EXCEPT !.state = "closed"]
    /\ settled' = FALSE
    /\ UNCHANGED <<approved, comments, waiting, runs, endorsed, unenforced, reopenedBy>>

\* The maintainers label the issue, or take the label back or close it.
Label ==
    /\ Move
    /\ approved' = ~approved
    /\ endorsed' = (endorsed \/ approved')
    /\ settled' = (settled /\ approved')
    /\ UNCHANGED <<pr, comments, waiting, runs, unenforced, reopenedBy>>

Talk ==
    /\ Move
    /\ comments' = WithComment("talk")
    /\ UNCHANGED <<pr, approved, waiting, runs, endorsed, unenforced, reopenedBy, settled>>

CiCompletes(c) ==
    /\ Move
    /\ Idle(c)
    /\ waiting[c] = NoEvent
    /\ waiting' = [waiting EXCEPT ![c] = EventFor(c, pr.author, pr.refs)]
    /\ UNCHANGED <<github, runs, endorsed, unenforced, reopenedBy, settled>>

Others ==
    \/ Push \/ Edit \/ MarkReady \/ CloseByHand \/ Label \/ Talk
    \/ \E who \in People : Reopen(who)
    \/ \E c \in CiRuns : CiCompletes(c)

-----------------------------------------------------------------------------

\* A pull request has just been opened.
Init ==
    /\ pr \in {p \in PullRequests : p.state = "open"}
    /\ approved \in BOOLEAN
    /\ comments = NoComments
    /\ waiting = [g \in Groups |-> IF g \in Listeners("opened")
                                   THEN EventFor(g, pr.author, pr.refs)
                                   ELSE NoEvent]
    /\ runs = [g \in Groups |-> NoRun]
    /\ moves = 0
    /\ endorsed = approved
    /\ unenforced = {}
    /\ reopenedBy = "nobody"
    /\ settled = FALSE

Next ==
    \/ \E g \in Groups : Start(g) \/ Fail(g) \/ Step(g)
    \/ Cancel
    \/ Others

Spec == Init /\ [][Next]_vars

-----------------------------------------------------------------------------
(* Properties.                                                             *)

\* When every run is over, a contributor's pull request that is open has no
\* forged identity and changes guarded paths only under an approval given
\* since the last event, unless the policy in question failed: the body of
\* an older event, a state read too early or a dropped event never leaves a
\* violation standing (enforce of the benchmark and gaming policies).
QuietOpenComplies ==
    Open /\ Quiet /\ ~ByMaintainer =>
        /\ pr.forged => "gaming" \in unenforced
        /\ pr.guarded /\ ~(pr.refs /\ endorsed) => "benchmark" \in unenforced

\* When every run is over, a contributor's reopen does not stand unless the
\* reopen policy failed before it could close: "Re-close first so a comment
\* API failure cannot leave the PR open" (pr_reopen_policy.enforce).
ReopenNeedsMaintainer ==
    Open /\ Quiet /\ reopenedBy = "contributor" => "reopen" \in unenforced

\* A compliant pull request that a maintainer reopened while nothing ran
\* stays open until its author or a maintainer acts on it again: none of the
\* runs its own reopening starts closes it.
ReopenStands == settled => Open

\* However reopens, cancelled runs and failures interleave, the reopen policy
\* has posted its comment at most once ("Create the policy comment once").
OneReopenComment == comments.reopens <= 1

=============================================================================
