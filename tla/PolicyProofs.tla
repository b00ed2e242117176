---------------------------- MODULE PolicyProofs ----------------------------
(***************************************************************************)
(* The properties of PullRequestPolicies for every set of CI groups, page  *)
(* size and number of moves.  Each is a part of an inductive invariant     *)
(* that says which run, or which waiting event, still owes a verdict.      *)
(***************************************************************************)
EXTENDS PullRequestPolicies, TLAPS

Waits(g) == waiting[g] # NoEvent

\* A run is at a step of its own script.
StepsOf(g) ==
    CASE g = "benchmark" -> {"idle", "files", "issues", "list", "post", "close"}
      [] g = "gaming" -> {"idle", "pull", "commits", "list", "post", "close"}
      [] g = "reopen" -> {"idle", "state", "close", "list", "post"}
      [] g \in CiRuns -> {"idle", "associate", "pull", "commits", "list", "post", "close"}

StepsInv == \A g \in Groups : runs[g].step \in StepsOf(g)

\* The newest event of the benchmark policy carries the body as it is.
BodyInv ==
    /\ Waits("benchmark") => waiting["benchmark"].refs = pr.refs
    /\ ~Waits("benchmark") /\ ~Idle("benchmark") => runs["benchmark"].refs = pr.refs
    /\ runs["benchmark"].step = "issues" => runs["benchmark"].refs

EndorsedInv == approved => endorsed

CommentInv ==
    /\ comments.reopens <= 1
    /\ runs["reopen"].step = "post" => comments.reopens = 0

\* A forged pull request that is open is about to be looked at, or was seen
\* open by the run that will close it.
GamingInv ==
    Open /\ ~ByMaintainer /\ pr.forged =>
        \/ Waits("gaming")
        \/ runs["gaming"].step = "pull"
        \/ ~Idle("gaming") /\ runs["gaming"].wasOpen
        \/ "gaming" \in unenforced

BenchmarkInv ==
    Open /\ ~ByMaintainer /\ pr.guarded /\ ~(pr.refs /\ endorsed) =>
        Waits("benchmark") \/ ~Idle("benchmark") \/ "benchmark" \in unenforced

ReopenInv ==
    Open /\ reopenedBy = "contributor" =>
        \/ Waits("reopen") /\ waiting["reopen"].actor = "contributor"
        \/ ~Waits("reopen") /\ runs["reopen"].step \in {"state", "close"}
        \/ ~Waits("reopen") /\ "reopen" \in unenforced

\* After a maintainer's reopen of a compliant pull request no run is on its
\* way to a close.
SettledInv ==
    settled =>
        /\ Open
        /\ Complies
        /\ Waits("reopen") => waiting["reopen"].actor = "maintainer"
        /\ Idle("reopen")
        /\ runs["benchmark"].step \in {"idle", "files", "issues"}
        /\ ~Idle("benchmark") => runs["benchmark"].refs = pr.refs
        /\ runs["benchmark"].step = "issues" => pr.guarded /\ ~ByMaintainer
        /\ \A g \in Groups \ {"benchmark", "reopen"} :
              runs[g].step \in {"idle", "associate", "pull", "commits"}

IInv ==
    /\ TypeOK
    /\ StepsInv
    /\ BodyInv
    /\ EndorsedInv
    /\ CommentInv
    /\ GamingInv
    /\ BenchmarkInv
    /\ ReopenInv
    /\ SettledInv

-----------------------------------------------------------------------------
(* What the definitions give the prover.                                   *)

LEMMA GroupFacts ==
    /\ \A g \in Groups : g \in CiRuns <=> g \notin Policies
    /\ "benchmark" \in Groups \ CiRuns /\ "gaming" \in Groups \ CiRuns
    /\ "reopen" \in Groups \ CiRuns
    /\ \A g \in Groups :
          /\ PolicyOf(g) \in Policies
          /\ \A p \in {"benchmark", "reopen"} : PolicyOf(g) = p <=> g = p
BY PolicyAssumption DEF Groups, Policies, PolicyOf

LEMMA IdleRunIsARun == NoRun \in Runs /\ NoRun.step = "idle" /\ NoRun.refs = FALSE /\ NoRun.wasOpen = FALSE
BY DEF NoRun, Runs, Steps

LEMMA EventForIsEvent ==
    ASSUME NEW g \in Groups, NEW who \in People, NEW refs \in BOOLEAN
    PROVE  /\ EventFor(g, who, refs) \in Events
           /\ EventFor(g, who, refs) # NoEvent
           /\ g = "reopen" => EventFor(g, who, refs).actor = who
           /\ g = "benchmark" => EventFor(g, who, refs).refs = refs
<1>1. EventFor(g, who, refs) \in Events
  BY DEF EventFor, Events, People
<1> QED BY <1>1, PolicyAssumption DEF EventFor

LEMMA WithCommentIsComments ==
    ASSUME TypeOK, NEW marker
    PROVE  WithComment(marker) \in Comments
<1>1. comments.length \in 0 .. PageSize /\ comments.shown \in SUBSET Policies /\ comments.reopens \in Nat
  BY DEF TypeOK, Comments
<1>2. PageSize \in Nat
  BY PolicyAssumption
<1> QED BY <1>1, <1>2 DEF WithComment, Comments

LEMMA RunTypes ==
    ASSUME TypeOK, NEW g \in Groups
    PROVE  /\ End(g) => runs' \in [Groups -> Runs]
           /\ \A step \in Steps : GoTo(g, step) => runs' \in [Groups -> Runs]
           /\ ReadPull(g) => runs' \in [Groups -> Runs]
<1>1. runs \in [Groups -> Runs]
  BY DEF TypeOK
<1>2. End(g) => runs' \in [Groups -> Runs]
  BY <1>1, IdleRunIsARun DEF End
<1>3. \A step \in Steps : GoTo(g, step) => runs' \in [Groups -> Runs]
  BY <1>1 DEF GoTo, Runs
<1>4. ASSUME ReadPull(g) PROVE runs' \in [Groups -> Runs]
  <2> DEFINE open == Open
  <2>1. open \in BOOLEAN
    BY DEF Open
  <2>2. runs' = [runs EXCEPT ![g].step = "commits", ![g].wasOpen = open]
    BY <1>4 DEF ReadPull
  <2> HIDE DEF open
  <2> QED BY <1>1, <2>1, <2>2 DEF Runs, Steps
<1> QED BY <1>2, <1>3, <1>4

\* After the comment a run is over, or about to close.
LEMMA AfterTheComment ==
    ASSUME NEW g \in Groups, AfterComment(g)
    PROVE  \/ /\ runs' = [runs EXCEPT ![g] = NoRun]
              /\ g # "benchmark"
              /\ g = "reopen" \/ ~runs[g].wasOpen
           \/ /\ runs' = [runs EXCEPT ![g].step = "close"]
              /\ g # "reopen"
              /\ g = "benchmark" \/ runs[g].wasOpen
BY GroupFacts DEF AfterComment, End, GoTo, Policies

LEMMA InitialState == Init => IInv
<1> SUFFICES ASSUME Init PROVE IInv
  OBVIOUS
<1> USE GroupFacts, IdleRunIsARun, EventForIsEvent, WithCommentIsComments,
   AfterTheComment DEF Init
<1>1. TypeOK
  <2>1. pr \in PullRequests
    OBVIOUS
  <2>2. pr.author \in People /\ pr.refs \in BOOLEAN
    BY <2>1 DEF PullRequests
  <2>3. waiting \in [Groups -> Events \cup {NoEvent}]
    BY <2>2
  <2>4. runs \in [Groups -> Runs] /\ comments \in Comments /\ moves \in 0 .. MaxMoves
    BY PolicyAssumption DEF NoComments, Comments
  <2> QED BY <2>1, <2>3, <2>4 DEF TypeOK
<1>2. StepsInv
  BY DEF StepsInv, StepsOf, Listeners, Policies, PullRequests
<1>3. BodyInv
  BY DEF BodyInv, Waits, Idle, Listeners, Policies, PullRequests
<1>4. EndorsedInv
  BY DEF EndorsedInv, Listeners, Policies, PullRequests
<1>5. CommentInv
  BY DEF CommentInv, Listeners, Policies, PullRequests, NoComments
<1>6. GamingInv
  BY DEF GamingInv, Waits, Idle, Open, ByMaintainer, Listeners, Policies,
     PullRequests
<1>7. BenchmarkInv
  BY DEF BenchmarkInv, BodyInv, EndorsedInv, Waits, Idle, Open, ByMaintainer,
     Listeners, Policies, PullRequests
<1>8. ReopenInv
  BY DEF ReopenInv, Waits, Open, Listeners, Policies, PullRequests
<1>9. SettledInv
  BY DEF SettledInv, BodyInv, Waits, Idle, Open, Complies, ByMaintainer,
     Listeners, Policies, PullRequests
<1> QED BY <1>1, <1>2, <1>3, <1>4, <1>5, <1>6, <1>7, <1>8, <1>9 DEF IInv

LEMMA StartPreserves == ASSUME IInv, NEW g \in Groups, Start(g) PROVE IInv'
<1>1. TypeOK'
  <2>1. waiting' \in [Groups -> Events \cup {NoEvent}]
    BY DEF IInv, TypeOK, Start
  <2>2. runs' \in [Groups -> Runs]
    BY GroupFacts, IdleRunIsARun DEF IInv, TypeOK, Start, FirstStep, Policies,
       Groups, Runs, Steps, Events
  <2> QED BY <2>1, <2>2, GroupFacts DEF IInv, Start, github, ghosts, TypeOK
<1> USE GroupFacts, IdleRunIsARun DEF IInv, Start, FirstStep, ReopenAllowed,
   github, ghosts, TypeOK
<1>2. StepsInv'
  BY DEF StepsInv, StepsOf, PullRequests, Runs, Groups, Policies
<1>3. BodyInv'
  BY DEF BodyInv, Waits, Idle, PullRequests, Runs, Groups, Policies, StepsInv,
     StepsOf
<1>4. EndorsedInv'
  BY DEF EndorsedInv
<1>5. CommentInv'
  BY DEF CommentInv, Comments, StepsInv, StepsOf, Runs
<1>6. GamingInv'
  BY DEF GamingInv, Waits, Idle, Open, ByMaintainer, PullRequests, Runs, Groups,
     Policies, StepsInv, StepsOf
<1>7. BenchmarkInv'
  BY DEF BenchmarkInv, BodyInv, EndorsedInv, Waits, Idle, Open, ByMaintainer,
     PullRequests, Runs, Groups, Policies, StepsInv, StepsOf
<1>8. ReopenInv'
  BY DEF ReopenInv, Waits, Open, PullRequests, Runs, Groups, Policies, StepsInv,
     StepsOf
<1>9. SettledInv'
  BY DEF SettledInv, BodyInv, Waits, Idle, Open, Complies, ByMaintainer,
     PullRequests, Runs, Groups, Policies, StepsInv, StepsOf
<1> QED BY <1>1, <1>2, <1>3, <1>4, <1>5, <1>6, <1>7, <1>8, <1>9 DEF IInv

LEMMA CancelPreserves == ASSUME IInv, Cancel PROVE IInv'
<1>1. TypeOK'
  <2>1. runs' \in [Groups -> Runs]
    BY RunTypes, GroupFacts DEF IInv, Cancel, Steps
  <2> QED BY <2>1 DEF IInv, Cancel, github, ghosts, TypeOK
<1> USE GroupFacts, IdleRunIsARun DEF IInv, Cancel, End, github, ghosts, TypeOK
<1>2. StepsInv'
  BY DEF StepsInv, StepsOf, PullRequests, Runs, Groups, Policies
<1>3. BodyInv'
  BY DEF BodyInv, Waits, Idle, PullRequests, Runs, Groups, Policies, StepsInv,
     StepsOf
<1>4. EndorsedInv'
  BY DEF EndorsedInv
<1>5. CommentInv'
  BY DEF CommentInv, Comments, StepsInv, StepsOf, Runs
<1>6. GamingInv'
  BY DEF GamingInv, Waits, Idle, Open, ByMaintainer, PullRequests, Runs, Groups,
     Policies, StepsInv, StepsOf
<1>7. BenchmarkInv'
  BY DEF BenchmarkInv, BodyInv, EndorsedInv, Waits, Idle, Open, ByMaintainer,
     PullRequests, Runs, Groups, Policies, StepsInv, StepsOf
<1>8. ReopenInv'
  BY DEF ReopenInv, Waits, Open, PullRequests, Runs, Groups, Policies, StepsInv,
     StepsOf
<1>9. SettledInv'
  BY DEF SettledInv, BodyInv, Waits, Idle, Open, Complies, ByMaintainer,
     PullRequests, Runs, Groups, Policies, StepsInv, StepsOf
<1> QED BY <1>1, <1>2, <1>3, <1>4, <1>5, <1>6, <1>7, <1>8, <1>9 DEF IInv

LEMMA FailPreserves == ASSUME IInv, NEW g \in Groups, Fail(g) PROVE IInv'
<1>1. TypeOK'
  <2>1. runs' \in [Groups -> Runs]
    BY RunTypes, GroupFacts DEF IInv, Fail, Steps
  <2> QED BY <2>1, GroupFacts DEF IInv, Fail, Enforced, github, ghosts, TypeOK
<1> USE GroupFacts, IdleRunIsARun DEF IInv, Fail, End, Enforced, github, ghosts,
   TypeOK
<1>2. StepsInv'
  BY DEF StepsInv, StepsOf, PullRequests, Runs, Groups, Policies
<1>3. BodyInv'
  BY DEF BodyInv, Waits, Idle, PullRequests, Runs, Groups, Policies, StepsInv,
     StepsOf
<1>4. EndorsedInv'
  BY DEF EndorsedInv
<1>5. CommentInv'
  BY DEF CommentInv, Comments, StepsInv, StepsOf, Runs
<1>6. GamingInv'
  BY DEF GamingInv, Waits, Idle, Open, ByMaintainer, PullRequests, Runs, Groups,
     Policies, StepsInv, StepsOf
<1>7. BenchmarkInv'
  BY DEF BenchmarkInv, BodyInv, EndorsedInv, Waits, Idle, Open, ByMaintainer,
     PullRequests, Runs, Groups, Policies, StepsInv, StepsOf
<1>8. ReopenInv'
  BY DEF ReopenInv, Waits, Open, PullRequests, Runs, Groups, Policies, StepsInv,
     StepsOf
<1>9. SettledInv'
  BY DEF SettledInv, BodyInv, Waits, Idle, Open, Complies, ByMaintainer,
     PullRequests, Runs, Groups, Policies, StepsInv, StepsOf
<1> QED BY <1>1, <1>2, <1>3, <1>4, <1>5, <1>6, <1>7, <1>8, <1>9 DEF IInv

LEMMA ReadFilesPreserves == ASSUME IInv, NEW g \in Groups, ReadFiles(g) PROVE IInv'
<1>1. TypeOK'
  <2>1. runs' \in [Groups -> Runs]
    BY RunTypes, GroupFacts DEF IInv, ReadFiles, Steps
  <2> QED BY <2>1 DEF IInv, ReadFiles, Reading, github, ghosts, TypeOK
<1> USE GroupFacts, IdleRunIsARun DEF IInv, ReadFiles, Reading, End, GoTo,
   ProtectedChange, github, ghosts, TypeOK
<1>2. StepsInv'
  BY DEF StepsInv, StepsOf, PullRequests, Runs, Groups, Policies
<1>3. BodyInv'
  BY DEF BodyInv, Waits, Idle, PullRequests, Runs, Groups, Policies, StepsInv,
     StepsOf
<1>4. EndorsedInv'
  BY DEF EndorsedInv
<1>5. CommentInv'
  BY DEF CommentInv, Comments, StepsInv, StepsOf, Runs
<1>6. GamingInv'
  BY DEF GamingInv, Waits, Idle, Open, ByMaintainer, PullRequests, Runs, Groups,
     Policies, StepsInv, StepsOf
<1>7. BenchmarkInv'
  BY DEF BenchmarkInv, BodyInv, EndorsedInv, Waits, Idle, Open, ByMaintainer,
     PullRequests, Runs, Groups, Policies, StepsInv, StepsOf
<1>8. ReopenInv'
  BY DEF ReopenInv, Waits, Open, PullRequests, Runs, Groups, Policies, StepsInv,
     StepsOf
<1>9. SettledInv'
  BY DEF SettledInv, BodyInv, Waits, Idle, Open, Complies, ByMaintainer,
     PullRequests, Runs, Groups, Policies, StepsInv, StepsOf
<1> QED BY <1>1, <1>2, <1>3, <1>4, <1>5, <1>6, <1>7, <1>8, <1>9 DEF IInv

LEMMA ReadIssuesPreserves == ASSUME IInv, NEW g \in Groups, ReadIssues(g) PROVE IInv'
<1>1. TypeOK'
  <2>1. runs' \in [Groups -> Runs]
    BY RunTypes, GroupFacts DEF IInv, ReadIssues, Steps
  <2> QED BY <2>1 DEF IInv, ReadIssues, Reading, github, ghosts, TypeOK
<1> USE GroupFacts, IdleRunIsARun DEF IInv, ReadIssues, Reading, End, GoTo,
   github, ghosts, TypeOK
<1>2. StepsInv'
  BY DEF StepsInv, StepsOf, PullRequests, Runs, Groups, Policies
<1>3. BodyInv'
  BY DEF BodyInv, Waits, Idle, PullRequests, Runs, Groups, Policies, StepsInv,
     StepsOf
<1>4. EndorsedInv'
  BY DEF EndorsedInv
<1>5. CommentInv'
  BY DEF CommentInv, Comments, StepsInv, StepsOf, Runs
<1>6. GamingInv'
  BY DEF GamingInv, Waits, Idle, Open, ByMaintainer, PullRequests, Runs, Groups,
     Policies, StepsInv, StepsOf
<1>7. BenchmarkInv'
  BY DEF BenchmarkInv, BodyInv, EndorsedInv, Waits, Idle, Open, ByMaintainer,
     PullRequests, Runs, Groups, Policies, StepsInv, StepsOf
<1>8. ReopenInv'
  BY DEF ReopenInv, Waits, Open, PullRequests, Runs, Groups, Policies, StepsInv,
     StepsOf
<1>9. SettledInv'
  BY DEF SettledInv, BodyInv, Waits, Idle, Open, Complies, ByMaintainer,
     PullRequests, Runs, Groups, Policies, StepsInv, StepsOf
<1> QED BY <1>1, <1>2, <1>3, <1>4, <1>5, <1>6, <1>7, <1>8, <1>9 DEF IInv

LEMMA AssociatePreserves == ASSUME IInv, NEW g \in Groups, Associate(g) PROVE IInv'
<1>1. TypeOK'
  <2>1. runs' \in [Groups -> Runs]
    BY RunTypes, GroupFacts DEF IInv, Associate, Steps
  <2> QED BY <2>1 DEF IInv, Associate, Reading, github, ghosts, TypeOK
<1> USE GroupFacts, IdleRunIsARun DEF IInv, Associate, Reading, End, GoTo, github,
   ghosts, TypeOK
<1>2. StepsInv'
  BY DEF StepsInv, StepsOf, PullRequests, Runs, Groups, Policies
<1>3. BodyInv'
  BY DEF BodyInv, Waits, Idle, PullRequests, Runs, Groups, Policies, StepsInv,
     StepsOf
<1>4. EndorsedInv'
  BY DEF EndorsedInv
<1>5. CommentInv'
  BY DEF CommentInv, Comments, StepsInv, StepsOf, Runs
<1>6. GamingInv'
  BY DEF GamingInv, Waits, Idle, Open, ByMaintainer, PullRequests, Runs, Groups,
     Policies, StepsInv, StepsOf
<1>7. BenchmarkInv'
  BY DEF BenchmarkInv, BodyInv, EndorsedInv, Waits, Idle, Open, ByMaintainer,
     PullRequests, Runs, Groups, Policies, StepsInv, StepsOf
<1>8. ReopenInv'
  BY DEF ReopenInv, Waits, Open, PullRequests, Runs, Groups, Policies, StepsInv,
     StepsOf
<1>9. SettledInv'
  BY DEF SettledInv, BodyInv, Waits, Idle, Open, Complies, ByMaintainer,
     PullRequests, Runs, Groups, Policies, StepsInv, StepsOf
<1> QED BY <1>1, <1>2, <1>3, <1>4, <1>5, <1>6, <1>7, <1>8, <1>9 DEF IInv

LEMMA ReadPullPreserves == ASSUME IInv, NEW g \in Groups, ReadPull(g) PROVE IInv'
<1>1. TypeOK'
  <2>1. runs' \in [Groups -> Runs]
    BY RunTypes DEF IInv
  <2> QED BY <2>1 DEF IInv, ReadPull, Reading, github, ghosts, TypeOK
<1> USE GroupFacts, IdleRunIsARun DEF IInv, ReadPull, Reading, github, ghosts,
   TypeOK
<1>2. StepsInv'
  BY DEF StepsInv, StepsOf, PullRequests, Runs, Groups, Policies
<1>3. BodyInv'
  BY DEF BodyInv, Waits, Idle, PullRequests, Runs, Groups, Policies, StepsInv,
     StepsOf
<1>4. EndorsedInv'
  BY DEF EndorsedInv
<1>5. CommentInv'
  BY DEF CommentInv, Comments, StepsInv, StepsOf, Runs
<1>6. GamingInv'
  BY DEF GamingInv, Waits, Idle, Open, ByMaintainer, PullRequests, Runs, Groups,
     Policies, StepsInv, StepsOf
<1>7. BenchmarkInv'
  BY DEF BenchmarkInv, BodyInv, EndorsedInv, Waits, Idle, Open, ByMaintainer,
     PullRequests, Runs, Groups, Policies, StepsInv, StepsOf
<1>8. ReopenInv'
  BY DEF ReopenInv, Waits, Open, PullRequests, Runs, Groups, Policies, StepsInv,
     StepsOf
<1>9. SettledInv'
  BY DEF SettledInv, BodyInv, Waits, Idle, Open, Complies, ByMaintainer,
     PullRequests, Runs, Groups, Policies, StepsInv, StepsOf
<1> QED BY <1>1, <1>2, <1>3, <1>4, <1>5, <1>6, <1>7, <1>8, <1>9 DEF IInv

LEMMA ReadCommitsPreserves == ASSUME IInv, NEW g \in Groups, ReadCommits(g) PROVE IInv'
<1>1. TypeOK'
  <2>1. runs' \in [Groups -> Runs]
    BY RunTypes, GroupFacts DEF IInv, ReadCommits, Steps
  <2> QED BY <2>1 DEF IInv, ReadCommits, Reading, github, ghosts, TypeOK
<1> USE GroupFacts, IdleRunIsARun DEF IInv, ReadCommits, Reading, End, GoTo,
   IdentityMismatch, github, ghosts, TypeOK
<1>2. StepsInv'
  BY DEF StepsInv, StepsOf, PullRequests, Runs, Groups, Policies
<1>3. BodyInv'
  BY DEF BodyInv, Waits, Idle, PullRequests, Runs, Groups, Policies, StepsInv,
     StepsOf
<1>4. EndorsedInv'
  BY DEF EndorsedInv
<1>5. CommentInv'
  BY DEF CommentInv, Comments, StepsInv, StepsOf, Runs
<1>6. GamingInv'
  BY DEF GamingInv, Waits, Idle, Open, ByMaintainer, PullRequests, Runs, Groups,
     Policies, StepsInv, StepsOf
<1>7. BenchmarkInv'
  BY DEF BenchmarkInv, BodyInv, EndorsedInv, Waits, Idle, Open, ByMaintainer,
     PullRequests, Runs, Groups, Policies, StepsInv, StepsOf
<1>8. ReopenInv'
  BY DEF ReopenInv, Waits, Open, PullRequests, Runs, Groups, Policies, StepsInv,
     StepsOf
<1>9. SettledInv'
  BY DEF SettledInv, BodyInv, Waits, Idle, Open, Complies, ByMaintainer,
     PullRequests, Runs, Groups, Policies, StepsInv, StepsOf
<1> QED BY <1>1, <1>2, <1>3, <1>4, <1>5, <1>6, <1>7, <1>8, <1>9 DEF IInv

LEMMA ReadStatePreserves == ASSUME IInv, NEW g \in Groups, ReadState(g) PROVE IInv'
<1>1. TypeOK'
  <2>1. runs' \in [Groups -> Runs]
    BY RunTypes, GroupFacts DEF IInv, ReadState, Steps
  <2> QED BY <2>1 DEF IInv, ReadState, Reading, github, ghosts, TypeOK
<1> USE GroupFacts, IdleRunIsARun DEF IInv, ReadState, Reading, GoTo, github,
   ghosts, TypeOK
<1>2. StepsInv'
  BY DEF StepsInv, StepsOf, PullRequests, Runs, Groups, Policies
<1>3. BodyInv'
  BY DEF BodyInv, Waits, Idle, PullRequests, Runs, Groups, Policies, StepsInv,
     StepsOf
<1>4. EndorsedInv'
  BY DEF EndorsedInv
<1>5. CommentInv'
  BY DEF CommentInv, Comments, StepsInv, StepsOf, Runs
<1>6. GamingInv'
  BY DEF GamingInv, Waits, Idle, Open, ByMaintainer, PullRequests, Runs, Groups,
     Policies, StepsInv, StepsOf
<1>7. BenchmarkInv'
  BY DEF BenchmarkInv, BodyInv, EndorsedInv, Waits, Idle, Open, ByMaintainer,
     PullRequests, Runs, Groups, Policies, StepsInv, StepsOf
<1>8. ReopenInv'
  BY DEF ReopenInv, Waits, Open, PullRequests, Runs, Groups, Policies, StepsInv,
     StepsOf
<1>9. SettledInv'
  BY DEF SettledInv, BodyInv, Waits, Idle, Open, Complies, ByMaintainer,
     PullRequests, Runs, Groups, Policies, StepsInv, StepsOf
<1> QED BY <1>1, <1>2, <1>3, <1>4, <1>5, <1>6, <1>7, <1>8, <1>9 DEF IInv

LEMMA ListCommentsPreserves == ASSUME IInv, NEW g \in Groups, ListComments(g) PROVE IInv'
<1>1. TypeOK'
  <2>1. AfterComment(g) => runs' \in [Groups -> Runs]
    BY RunTypes, GroupFacts DEF IInv, AfterComment, Steps, Policies
  <2>2. runs' \in [Groups -> Runs]
    BY <2>1, RunTypes DEF IInv, ListComments, Steps
  <2> QED BY <2>2 DEF IInv, ListComments, Reading, github, ghosts, TypeOK
<1> USE GroupFacts, IdleRunIsARun, AfterTheComment DEF IInv, ListComments,
   Reading, HasCommented, GoTo, github, ghosts, TypeOK
<1>2. StepsInv'
  BY DEF StepsInv, StepsOf, PullRequests, Runs, Groups, Policies
<1>3. BodyInv'
  BY DEF BodyInv, Waits, Idle, PullRequests, Runs, Groups, Policies, StepsInv,
     StepsOf
<1>4. EndorsedInv'
  BY DEF EndorsedInv
<1>5. CommentInv'
  BY DEF CommentInv, Comments, StepsInv, StepsOf, Runs
<1>6. GamingInv'
  BY DEF GamingInv, Waits, Idle, Open, ByMaintainer, PullRequests, Runs, Groups,
     Policies, StepsInv, StepsOf
<1>7. BenchmarkInv'
  BY DEF BenchmarkInv, BodyInv, EndorsedInv, Waits, Idle, Open, ByMaintainer,
     PullRequests, Runs, Groups, Policies, StepsInv, StepsOf
<1>8. ReopenInv'
  BY DEF ReopenInv, Waits, Open, PullRequests, Runs, Groups, Policies, StepsInv,
     StepsOf
<1>9. SettledInv'
  BY DEF SettledInv, BodyInv, Waits, Idle, Open, Complies, ByMaintainer,
     PullRequests, Runs, Groups, Policies, StepsInv, StepsOf
<1> QED BY <1>1, <1>2, <1>3, <1>4, <1>5, <1>6, <1>7, <1>8, <1>9 DEF IInv

LEMMA PostCommentPreserves == ASSUME IInv, NEW g \in Groups, PostComment(g) PROVE IInv'
<1>1. TypeOK'
  <2>1. AfterComment(g) => runs' \in [Groups -> Runs]
    BY RunTypes, GroupFacts DEF IInv, AfterComment, Steps, Policies
  <2>2. runs' \in [Groups -> Runs]
    BY <2>1, RunTypes DEF IInv, PostComment, Steps
  <2>3. comments' \in Comments
    BY WithCommentIsComments DEF IInv, PostComment
  <2> QED BY <2>2, <2>3 DEF IInv, PostComment, github, ghosts, TypeOK
<1> USE GroupFacts, IdleRunIsARun, AfterTheComment DEF IInv, PostComment,
   WithComment, github, ghosts, TypeOK
<1>2. StepsInv'
  BY DEF StepsInv, StepsOf, PullRequests, Runs, Groups, Policies
<1>3. BodyInv'
  BY DEF BodyInv, Waits, Idle, PullRequests, Runs, Groups, Policies, StepsInv,
     StepsOf
<1>4. EndorsedInv'
  BY DEF EndorsedInv
<1>5. CommentInv'
  BY DEF CommentInv, Comments, StepsInv, StepsOf, Runs
<1>6. GamingInv'
  BY DEF GamingInv, Waits, Idle, Open, ByMaintainer, PullRequests, Runs, Groups,
     Policies, StepsInv, StepsOf
<1>7. BenchmarkInv'
  BY DEF BenchmarkInv, BodyInv, EndorsedInv, Waits, Idle, Open, ByMaintainer,
     PullRequests, Runs, Groups, Policies, StepsInv, StepsOf
<1>8. ReopenInv'
  BY DEF ReopenInv, Waits, Open, PullRequests, Runs, Groups, Policies, StepsInv,
     StepsOf
<1>9. SettledInv'
  BY DEF SettledInv, BodyInv, Waits, Idle, Open, Complies, ByMaintainer,
     PullRequests, Runs, Groups, Policies, StepsInv, StepsOf
<1> QED BY <1>1, <1>2, <1>3, <1>4, <1>5, <1>6, <1>7, <1>8, <1>9 DEF IInv

LEMMA ClosePreserves == ASSUME IInv, NEW g \in Groups, Close(g) PROVE IInv'
<1>1. TypeOK'
  <2>1. runs' \in [Groups -> Runs]
    BY RunTypes, GroupFacts DEF IInv, Close, Steps
  <2>2. pr' \in PullRequests
    BY DEF IInv, TypeOK, PullRequests, Close
  <2> QED BY <2>1, <2>2 DEF IInv, Close, github, ghosts, TypeOK
<1> USE GroupFacts, IdleRunIsARun DEF IInv, Close, GoTo, End, github, ghosts, TypeOK
<1>2. StepsInv'
  BY DEF StepsInv, StepsOf, PullRequests, Runs, Groups, Policies
<1>3. BodyInv'
  BY DEF BodyInv, Waits, Idle, PullRequests, Runs, Groups, Policies, StepsInv,
     StepsOf
<1>4. EndorsedInv'
  BY DEF EndorsedInv
<1>5. CommentInv'
  BY DEF CommentInv, Comments, StepsInv, StepsOf, Runs
<1>6. GamingInv'
  BY DEF GamingInv, Waits, Idle, Open, ByMaintainer, PullRequests, Runs, Groups,
     Policies, StepsInv, StepsOf
<1>7. BenchmarkInv'
  BY DEF BenchmarkInv, BodyInv, EndorsedInv, Waits, Idle, Open, ByMaintainer,
     PullRequests, Runs, Groups, Policies, StepsInv, StepsOf
<1>8. ReopenInv'
  BY DEF ReopenInv, Waits, Open, PullRequests, Runs, Groups, Policies, StepsInv,
     StepsOf
<1>9. SettledInv'
  BY DEF SettledInv, BodyInv, Waits, Idle, Open, Complies, ByMaintainer,
     PullRequests, Runs, Groups, Policies, StepsInv, StepsOf
<1> QED BY <1>1, <1>2, <1>3, <1>4, <1>5, <1>6, <1>7, <1>8, <1>9 DEF IInv

LEMMA PushPreserves == ASSUME IInv, Push PROVE IInv'
<1>1. TypeOK'
  <2>1. pr' \in PullRequests
    BY DEF IInv, TypeOK, PullRequests, Push
  <2>2. pr.author \in People /\ pr.refs \in BOOLEAN
    BY DEF IInv, TypeOK, PullRequests
  <2>3. waiting' \in [Groups -> Events \cup {NoEvent}] /\ endorsed' \in BOOLEAN
    BY <2>2, EventForIsEvent DEF IInv, TypeOK, Push, Notify
  <2>4. moves' \in 0 .. MaxMoves
    BY PolicyAssumption DEF IInv, TypeOK, Push, Move
  <2> QED BY <2>1, <2>3, <2>4 DEF IInv, Push, github, ghosts, TypeOK
<1> USE GroupFacts, EventForIsEvent DEF IInv, Push, Notify, Listeners, Move,
   github, ghosts, TypeOK
<1>2. StepsInv'
  BY DEF StepsInv, StepsOf, PullRequests, Runs, Groups, Policies
<1>3. BodyInv'
  BY DEF BodyInv, Waits, Idle, PullRequests, Runs, Groups, Policies, StepsInv,
     StepsOf
<1>4. EndorsedInv'
  BY DEF EndorsedInv
<1>5. CommentInv'
  BY DEF CommentInv, Comments, StepsInv, StepsOf, Runs
<1>6. GamingInv'
  BY DEF GamingInv, Waits, Idle, Open, ByMaintainer, PullRequests, Runs, Groups,
     Policies, StepsInv, StepsOf
<1>7. BenchmarkInv'
  BY DEF BenchmarkInv, BodyInv, EndorsedInv, Waits, Idle, Open, ByMaintainer,
     PullRequests, Runs, Groups, Policies, StepsInv, StepsOf
<1>8. ReopenInv'
  BY DEF ReopenInv, Waits, Open, PullRequests, Runs, Groups, Policies, StepsInv,
     StepsOf
<1>9. SettledInv'
  BY DEF SettledInv, BodyInv, Waits, Idle, Open, Complies, ByMaintainer,
     PullRequests, Runs, Groups, Policies, StepsInv, StepsOf
<1> QED BY <1>1, <1>2, <1>3, <1>4, <1>5, <1>6, <1>7, <1>8, <1>9 DEF IInv

LEMMA EditPreserves == ASSUME IInv, Edit PROVE IInv'
<1>1. TypeOK'
  <2>1. pr' \in PullRequests
    BY DEF IInv, TypeOK, PullRequests, Edit
  <2>2. pr.author \in People /\ pr.refs \in BOOLEAN
    BY DEF IInv, TypeOK, PullRequests
  <2>3. waiting' \in [Groups -> Events \cup {NoEvent}] /\ endorsed' \in BOOLEAN
    BY <2>2, EventForIsEvent DEF IInv, TypeOK, Edit, Notify
  <2>4. moves' \in 0 .. MaxMoves
    BY PolicyAssumption DEF IInv, TypeOK, Edit, Move
  <2> QED BY <2>1, <2>3, <2>4 DEF IInv, Edit, github, ghosts, TypeOK
<1> USE GroupFacts, EventForIsEvent DEF IInv, Edit, Notify, Listeners, Move,
   github, ghosts, TypeOK
<1>2. StepsInv'
  BY DEF StepsInv, StepsOf, PullRequests, Runs, Groups, Policies
<1>3. BodyInv'
  BY DEF BodyInv, Waits, Idle, PullRequests, Runs, Groups, Policies, StepsInv,
     StepsOf
<1>4. EndorsedInv'
  BY DEF EndorsedInv
<1>5. CommentInv'
  BY DEF CommentInv, Comments, StepsInv, StepsOf, Runs
<1>6. GamingInv'
  BY DEF GamingInv, Waits, Idle, Open, ByMaintainer, PullRequests, Runs, Groups,
     Policies, StepsInv, StepsOf
<1>7. BenchmarkInv'
  BY DEF BenchmarkInv, BodyInv, EndorsedInv, Waits, Idle, Open, ByMaintainer,
     PullRequests, Runs, Groups, Policies, StepsInv, StepsOf
<1>8. ReopenInv'
  BY DEF ReopenInv, Waits, Open, PullRequests, Runs, Groups, Policies, StepsInv,
     StepsOf
<1>9. SettledInv'
  BY DEF SettledInv, BodyInv, Waits, Idle, Open, Complies, ByMaintainer,
     PullRequests, Runs, Groups, Policies, StepsInv, StepsOf
<1> QED BY <1>1, <1>2, <1>3, <1>4, <1>5, <1>6, <1>7, <1>8, <1>9 DEF IInv

LEMMA MarkReadyPreserves == ASSUME IInv, MarkReady PROVE IInv'
<1>1. TypeOK'
  <2>1. pr.author \in People /\ pr.refs \in BOOLEAN
    BY DEF IInv, TypeOK, PullRequests
  <2>2. waiting' \in [Groups -> Events \cup {NoEvent}] /\ endorsed' \in BOOLEAN
    BY <2>1, EventForIsEvent DEF IInv, TypeOK, MarkReady, Notify
  <2>3. moves' \in 0 .. MaxMoves
    BY PolicyAssumption DEF IInv, TypeOK, MarkReady, Move
  <2> QED BY <2>2, <2>3 DEF IInv, MarkReady, github, ghosts, TypeOK
<1> USE GroupFacts, EventForIsEvent DEF IInv, MarkReady, Notify, Listeners, Move,
   github, ghosts, TypeOK
<1>2. StepsInv'
  BY DEF StepsInv, StepsOf, PullRequests, Runs, Groups, Policies
<1>3. BodyInv'
  BY DEF BodyInv, Waits, Idle, PullRequests, Runs, Groups, Policies, StepsInv,
     StepsOf
<1>4. EndorsedInv'
  BY DEF EndorsedInv
<1>5. CommentInv'
  BY DEF CommentInv, Comments, StepsInv, StepsOf, Runs
<1>6. GamingInv'
  BY DEF GamingInv, Waits, Idle, Open, ByMaintainer, PullRequests, Runs, Groups,
     Policies, StepsInv, StepsOf
<1>7. BenchmarkInv'
  BY DEF BenchmarkInv, BodyInv, EndorsedInv, Waits, Idle, Open, ByMaintainer,
     PullRequests, Runs, Groups, Policies, StepsInv, StepsOf
<1>8. ReopenInv'
  BY DEF ReopenInv, Waits, Open, PullRequests, Runs, Groups, Policies, StepsInv,
     StepsOf
<1>9. SettledInv'
  BY DEF SettledInv, BodyInv, Waits, Idle, Open, Complies, ByMaintainer,
     PullRequests, Runs, Groups, Policies, StepsInv, StepsOf
<1> QED BY <1>1, <1>2, <1>3, <1>4, <1>5, <1>6, <1>7, <1>8, <1>9 DEF IInv

LEMMA ReopenPreserves == ASSUME IInv, NEW who \in People, Reopen(who) PROVE IInv'
<1>1. TypeOK'
  <2>1. pr' \in PullRequests
    BY DEF IInv, TypeOK, PullRequests, Reopen
  <2>2. pr.author \in People /\ pr.refs \in BOOLEAN
    BY DEF IInv, TypeOK, PullRequests
  <2>3. waiting' \in [Groups -> Events \cup {NoEvent}] /\ endorsed' \in BOOLEAN
    BY <2>2, EventForIsEvent DEF IInv, TypeOK, Reopen, Notify
  <2>4. moves' \in 0 .. MaxMoves
    BY PolicyAssumption DEF IInv, TypeOK, Reopen, Move
  <2> QED BY <2>1, <2>3, <2>4 DEF IInv, Reopen, github, ghosts, TypeOK
<1> USE GroupFacts, EventForIsEvent DEF IInv, Reopen, Notify, Listeners, Move,
   Quiet, github, ghosts, TypeOK
<1>2. StepsInv'
  BY DEF StepsInv, StepsOf, PullRequests, Runs, Groups, Policies
<1>3. BodyInv'
  BY DEF BodyInv, Waits, Idle, PullRequests, Runs, Groups, Policies, StepsInv,
     StepsOf
<1>4. EndorsedInv'
  BY DEF EndorsedInv
<1>5. CommentInv'
  BY DEF CommentInv, Comments, StepsInv, StepsOf, Runs
<1>6. GamingInv'
  BY DEF GamingInv, Waits, Idle, Open, ByMaintainer, PullRequests, Runs, Groups,
     Policies, StepsInv, StepsOf
<1>7. BenchmarkInv'
  BY DEF BenchmarkInv, BodyInv, EndorsedInv, Waits, Idle, Open, ByMaintainer,
     PullRequests, Runs, Groups, Policies, StepsInv, StepsOf
<1>8. ReopenInv'
  BY DEF ReopenInv, Waits, Open, PullRequests, Runs, Groups, Policies, StepsInv,
     StepsOf
<1>9. SettledInv'
  BY DEF SettledInv, BodyInv, Waits, Idle, Open, Complies, ByMaintainer,
     PullRequests, Runs, Groups, Policies, StepsInv, StepsOf
<1> QED BY <1>1, <1>2, <1>3, <1>4, <1>5, <1>6, <1>7, <1>8, <1>9 DEF IInv

LEMMA CloseByHandPreserves == ASSUME IInv, CloseByHand PROVE IInv'
<1>1. TypeOK'
  <2>1. pr' \in PullRequests
    BY DEF IInv, TypeOK, PullRequests, CloseByHand
  <2>2. moves' \in 0 .. MaxMoves
    BY PolicyAssumption DEF IInv, TypeOK, CloseByHand, Move
  <2> QED BY <2>1, <2>2 DEF IInv, CloseByHand, github, ghosts, TypeOK
<1> USE DEF IInv, CloseByHand, Move, github, ghosts, TypeOK
<1>2. StepsInv'
  BY DEF StepsInv, StepsOf, PullRequests, Runs, Groups, Policies
<1>3. BodyInv'
  BY DEF BodyInv, Waits, Idle, PullRequests, Runs, Groups, Policies, StepsInv,
     StepsOf
<1>4. EndorsedInv'
  BY DEF EndorsedInv
<1>5. CommentInv'
  BY DEF CommentInv, Comments, StepsInv, StepsOf, Runs
<1>6. GamingInv'
  BY DEF GamingInv, Waits, Idle, Open, ByMaintainer, PullRequests, Runs, Groups,
     Policies, StepsInv, StepsOf
<1>7. BenchmarkInv'
  BY DEF BenchmarkInv, BodyInv, EndorsedInv, Waits, Idle, Open, ByMaintainer,
     PullRequests, Runs, Groups, Policies, StepsInv, StepsOf
<1>8. ReopenInv'
  BY DEF ReopenInv, Waits, Open, PullRequests, Runs, Groups, Policies, StepsInv,
     StepsOf
<1>9. SettledInv'
  BY DEF SettledInv, BodyInv, Waits, Idle, Open, Complies, ByMaintainer,
     PullRequests, Runs, Groups, Policies, StepsInv, StepsOf
<1> QED BY <1>1, <1>2, <1>3, <1>4, <1>5, <1>6, <1>7, <1>8, <1>9 DEF IInv

LEMMA LabelPreserves == ASSUME IInv, Label PROVE IInv'
<1>1. TypeOK'
  <2>1. moves' \in 0 .. MaxMoves
    BY PolicyAssumption DEF IInv, TypeOK, Label, Move
  <2> QED BY <2>1 DEF IInv, Label, github, ghosts, TypeOK
<1> USE DEF IInv, Label, Move, github, ghosts, TypeOK
<1>2. StepsInv'
  BY DEF StepsInv, StepsOf, PullRequests, Runs, Groups, Policies
<1>3. BodyInv'
  BY DEF BodyInv, Waits, Idle, PullRequests, Runs, Groups, Policies, StepsInv,
     StepsOf
<1>4. EndorsedInv'
  BY DEF EndorsedInv
<1>5. CommentInv'
  BY DEF CommentInv, Comments, StepsInv, StepsOf, Runs
<1>6. GamingInv'
  BY DEF GamingInv, Waits, Idle, Open, ByMaintainer, PullRequests, Runs, Groups,
     Policies, StepsInv, StepsOf
<1>7. BenchmarkInv'
  BY DEF BenchmarkInv, BodyInv, EndorsedInv, Waits, Idle, Open, ByMaintainer,
     PullRequests, Runs, Groups, Policies, StepsInv, StepsOf
<1>8. ReopenInv'
  BY DEF ReopenInv, Waits, Open, PullRequests, Runs, Groups, Policies, StepsInv,
     StepsOf
<1>9. SettledInv'
  BY DEF SettledInv, BodyInv, Waits, Idle, Open, Complies, ByMaintainer,
     PullRequests, Runs, Groups, Policies, StepsInv, StepsOf
<1> QED BY <1>1, <1>2, <1>3, <1>4, <1>5, <1>6, <1>7, <1>8, <1>9 DEF IInv

LEMMA TalkPreserves == ASSUME IInv, Talk PROVE IInv'
<1>1. TypeOK'
  <2>1. moves' \in 0 .. MaxMoves
    BY PolicyAssumption DEF IInv, TypeOK, Talk, Move
  <2>2. comments' \in Comments
    BY WithCommentIsComments DEF IInv, Talk
  <2> QED BY <2>1, <2>2 DEF IInv, Talk, github, ghosts, TypeOK
<1> USE DEF IInv, Talk, Move, WithComment, github, ghosts, TypeOK
<1>2. StepsInv'
  BY DEF StepsInv, StepsOf, PullRequests, Runs, Groups, Policies
<1>3. BodyInv'
  BY DEF BodyInv, Waits, Idle, PullRequests, Runs, Groups, Policies, StepsInv,
     StepsOf
<1>4. EndorsedInv'
  BY DEF EndorsedInv
<1>5. CommentInv'
  BY DEF CommentInv, Comments, StepsInv, StepsOf, Runs
<1>6. GamingInv'
  BY DEF GamingInv, Waits, Idle, Open, ByMaintainer, PullRequests, Runs, Groups,
     Policies, StepsInv, StepsOf
<1>7. BenchmarkInv'
  BY DEF BenchmarkInv, BodyInv, EndorsedInv, Waits, Idle, Open, ByMaintainer,
     PullRequests, Runs, Groups, Policies, StepsInv, StepsOf
<1>8. ReopenInv'
  BY DEF ReopenInv, Waits, Open, PullRequests, Runs, Groups, Policies, StepsInv,
     StepsOf
<1>9. SettledInv'
  BY DEF SettledInv, BodyInv, Waits, Idle, Open, Complies, ByMaintainer,
     PullRequests, Runs, Groups, Policies, StepsInv, StepsOf
<1> QED BY <1>1, <1>2, <1>3, <1>4, <1>5, <1>6, <1>7, <1>8, <1>9 DEF IInv

LEMMA CiCompletesPreserves == ASSUME IInv, NEW c \in CiRuns, CiCompletes(c) PROVE IInv'
<1>1. TypeOK'
  <2>1. pr.author \in People /\ pr.refs \in BOOLEAN
    BY DEF IInv, TypeOK, PullRequests
  <2>2. waiting' \in [Groups -> Events \cup {NoEvent}]
    BY <2>1, EventForIsEvent DEF IInv, TypeOK, CiCompletes, Groups
  <2>3. moves' \in 0 .. MaxMoves
    BY PolicyAssumption DEF IInv, TypeOK, CiCompletes, Move
  <2> QED BY <2>2, <2>3 DEF IInv, CiCompletes, github, ghosts, TypeOK
<1> USE GroupFacts, EventForIsEvent DEF IInv, CiCompletes, Move, Idle, github,
   ghosts, TypeOK
<1>2. StepsInv'
  BY DEF StepsInv, StepsOf, PullRequests, Runs, Groups, Policies
<1>3. BodyInv'
  BY DEF BodyInv, Waits, Idle, PullRequests, Runs, Groups, Policies, StepsInv,
     StepsOf
<1>4. EndorsedInv'
  BY DEF EndorsedInv
<1>5. CommentInv'
  BY DEF CommentInv, Comments, StepsInv, StepsOf, Runs
<1>6. GamingInv'
  BY DEF GamingInv, Waits, Idle, Open, ByMaintainer, PullRequests, Runs, Groups,
     Policies, StepsInv, StepsOf
<1>7. BenchmarkInv'
  BY DEF BenchmarkInv, BodyInv, EndorsedInv, Waits, Idle, Open, ByMaintainer,
     PullRequests, Runs, Groups, Policies, StepsInv, StepsOf
<1>8. ReopenInv'
  BY DEF ReopenInv, Waits, Open, PullRequests, Runs, Groups, Policies, StepsInv,
     StepsOf
<1>9. SettledInv'
  BY DEF SettledInv, BodyInv, Waits, Idle, Open, Complies, ByMaintainer,
     PullRequests, Runs, Groups, Policies, StepsInv, StepsOf
<1> QED BY <1>1, <1>2, <1>3, <1>4, <1>5, <1>6, <1>7, <1>8, <1>9 DEF IInv

-----------------------------------------------------------------------------
(* The theorems.                                                           *)

LEMMA StutterPreserves == ASSUME IInv, UNCHANGED vars PROVE IInv'
<1> USE DEF vars, IInv
<1>1. TypeOK' /\ EndorsedInv' /\ CommentInv'
  BY DEF TypeOK, EndorsedInv, CommentInv
<1>2. StepsInv' /\ BodyInv'
  BY DEF StepsInv, BodyInv, Waits, Idle
<1>3. GamingInv' /\ BenchmarkInv' /\ ReopenInv'
  BY DEF GamingInv, BenchmarkInv, ReopenInv, Waits, Idle, Open, ByMaintainer
<1>4. SettledInv'
  BY DEF SettledInv, Waits, Idle, Open, Complies, ByMaintainer
<1> QED BY <1>1, <1>2, <1>3, <1>4

\* The inductive invariant: whoever still owes a verdict is at work or waits.
THEOREM Invariant == Spec => []IInv
<1>1. ASSUME IInv, [Next]_vars PROVE IInv'
  <2>1. CASE UNCHANGED vars
    BY <1>1, <2>1, StutterPreserves
  <2>2. CASE Cancel
    BY <1>1, <2>2, CancelPreserves
  <2>3. CASE Others
    BY <1>1, <2>3, PushPreserves, EditPreserves, MarkReadyPreserves,
       CloseByHandPreserves,
       LabelPreserves, TalkPreserves, ReopenPreserves, CiCompletesPreserves DEF Others
  <2>4. ASSUME NEW g \in Groups, Start(g) \/ Fail(g) \/ Step(g) PROVE IInv'
    BY <1>1, <2>4, StartPreserves, FailPreserves, ReadFilesPreserves,
       ReadIssuesPreserves,
       AssociatePreserves, ReadPullPreserves, ReadCommitsPreserves, ReadStatePreserves,
       ListCommentsPreserves, PostCommentPreserves, ClosePreserves DEF Step
  <2> QED BY <1>1, <2>1, <2>2, <2>3, <2>4 DEF Next
<1> QED BY InitialState, <1>1, PTL DEF Spec

\* Whatever the schedule of runs and people, the variables keep their types.
THEOREM TypeCorrectness == Spec => []TypeOK
<1>1. IInv => TypeOK
  BY DEF IInv
<1> QED BY Invariant, <1>1, PTL

\* No order of pushes, edits, reopens, CI runs and policy runs leaves an open
\* violation behind once everything is quiet, failures of a policy aside.
THEOREM QuietPullRequestComplies == Spec => []QuietOpenComplies
<1>1. IInv => QuietOpenComplies
  BY GroupFacts DEF IInv, GamingInv, BenchmarkInv, QuietOpenComplies, Quiet,
     Waits, Idle
<1> QED BY Invariant, <1>1, PTL

\* A contributor's reopen never outlasts a run of the reopen policy that got
\* as far as its close.
THEOREM ContributorReopenFails == Spec => []ReopenNeedsMaintainer
<1>1. IInv => ReopenNeedsMaintainer
  BY GroupFacts DEF IInv, ReopenInv, ReopenNeedsMaintainer, Quiet, Waits, Idle
<1> QED BY Invariant, <1>1, PTL

\* The runs that a maintainer's reopen of a compliant, quiet pull request
\* starts all leave it open.
THEOREM MaintainerReopenStands == Spec => []ReopenStands
<1>1. IInv => ReopenStands
  BY DEF IInv, SettledInv, ReopenStands
<1> QED BY Invariant, <1>1, PTL

\* The reopen policy never repeats its comment, however long the thread.
THEOREM CommentOnce == Spec => []OneReopenComment
<1>1. IInv => OneReopenComment
  BY DEF IInv, CommentInv, OneReopenComment
<1> QED BY Invariant, <1>1, PTL

=============================================================================
