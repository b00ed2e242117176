------------------------ MODULE RuntimeServiceProofs ------------------------
(***************************************************************************)
(* The inductive invariant of RuntimeService, for any number of processes, *)
(* pull requests, heads, leases and attempts.  First the types, statement  *)
(* by statement; then, conjunct by conjunct, what the other processes and  *)
(* the environment may do to the row that a process works on.              *)
(***************************************************************************)
EXTENDS RuntimeService, TLAPS

USE StateAssumption, ServiceAssumption, NoWorkAssumption
    DEF StateAssumption, ServiceAssumption, NoWorkAssumption

-----------------------------------------------------------------------------
(* What each statement does to the type of the tables.                     *)

LEMMA Zero == 0 \in 0 .. Lease /\ 0 \in 0 .. OldAge /\ OldAge \in Nat
  BY DEF OldAge

LEMMA OlderType ==
  ASSUME NEW limit \in Nat, NEW a \in 0 .. limit
  PROVE  Older(a, limit) \in 0 .. limit
  BY DEF Older

\* The constants of the model are members of the sets their names suggest.
LEMMA CodesAndStatuses ==
    /\ Status = {"absent", "queued", "running", "succeeded", "deferred", "failed"}
    /\ PolicyCodes \subseteq Code /\ FailureCodes \subseteq Code
    /\ NoCode \in Code /\ Recovered \in Code
  BY DEF Status, Code

LEMMA RowUpdate ==
  ASSUME NEW r \in Row, NEW s \in Status, NEW c \in Code, NEW a \in 0 .. OldAge, NEW n \in Nat
  PROVE  /\ [r EXCEPT !.status = s, !.code = c, !.age = a] \in Row
         /\ [r EXCEPT !.status = s, !.attempts = n, !.age = a] \in Row
         /\ [r EXCEPT !.age = a] \in Row
  BY Zenon DEF Row

LEMMA InsertAtType ==
  ASSUME NEW S, NEW s \in Seq(S), NEW i \in 1 .. Len(s) + 1, NEW e \in S
  PROVE  InsertAt(s, i, e) \in Seq(S)
<1>1. SubSeq(s, 1, i - 1) \in Seq(S) /\ SubSeq(s, i, Len(s)) \in Seq(S) /\ <<e>> \in Seq(S)
  OBVIOUS
<1>2. \A a, b, c \in Seq(S) : a \o b \o c \in Seq(S)
  OBVIOUS
<1> QED
  BY <1>1, <1>2 DEF InsertAt

LEMMA EnqueueType ==
  ASSUME NEW d \in Delivery, StateTypeOK, Enqueue(d)
  PROVE  StateTypeOK'
<1>1. Fresh \in Row
  BY Zero, CodesAndStatuses DEF StateTypeOK, Row, Fresh
<1>2. ASSUME NEW n \in Overtaken
      PROVE  InsertAt(order, Len(order) + 1 - n, d) \in Seq(Delivery)
  <2>1. order \in Seq(Delivery) /\ Len(order) \in Nat
    BY DEF StateTypeOK
  <2>2. n \in {0, 1} /\ (n = 1 => Len(order) >= 1)
    BY <2>1 DEF Overtaken
  <2> QED
    BY <2>1, <2>2, InsertAtType
<1> QED
  BY <1>1, <1>2 DEF StateTypeOK, Enqueue, Ordered

LEMMA ClaimNextType ==
  ASSUME NEW d \in Delivery, NEW waited \in 0 .. LockWait, StateTypeOK, ClaimNext(d, waited)
  PROVE  StateTypeOK'
<1>1. jobs[d] \in Row /\ jobs[d].attempts + 1 \in Nat
  BY DEF StateTypeOK, Row
<1>2. waited \in 0 .. OldAge
  BY DEF OldAge
<1>3. [jobs[d] EXCEPT !.status = "running", !.attempts = jobs[d].attempts + 1, !.age = waited] \in Row
  BY <1>1, <1>2, Zero, CodesAndStatuses, RowUpdate
<1> QED
  BY <1>3 DEF StateTypeOK, ClaimNext

LEMMA TransitionType ==
  ASSUME NEW d \in Delivery, NEW s \in Status, NEW c \in Code, StateTypeOK, Transition(d, s, c)
  PROVE  StateTypeOK'
<1>1. [jobs[d] EXCEPT !.status = s, !.code = c, !.age = 0] \in Row
  BY Zero, RowUpdate DEF StateTypeOK
<1> QED
  BY <1>1 DEF StateTypeOK, Transition

LEMMA RequeueDeferredType ==
  ASSUME StateTypeOK, RequeueDeferred
  PROVE  StateTypeOK'
<1>1. \A d \in Delivery : [jobs[d] EXCEPT !.status = "queued", !.code = NoCode, !.age = 0] \in Row
  BY Zero, CodesAndStatuses, RowUpdate DEF StateTypeOK
<1> QED
  BY <1>1 DEF StateTypeOK, RequeueDeferred

LEMMA RecoverType ==
  ASSUME NEW waited \in 0 .. LockWait, StateTypeOK, RecoverExpiredClaims(waited)
  PROVE  StateTypeOK'
<1>1. \A d \in Delivery : [jobs[d] EXCEPT !.status = "queued", !.code = Recovered, !.age = 0] \in Row
  BY Zero, CodesAndStatuses, RowUpdate DEF StateTypeOK
<1> QED
  BY <1>1 DEF StateTypeOK, RecoverExpiredClaims

LEMMA AgeJobsType ==
  ASSUME StateTypeOK, AgeJobs
  PROVE  StateTypeOK'
<1>1. ASSUME NEW d \in Delivery
      PROVE  [jobs[d] EXCEPT !.age = Older(jobs[d].age, OldAge)] \in Row
  <2>1. jobs[d] \in Row /\ jobs[d].age \in 0 .. OldAge
    BY DEF StateTypeOK, Row
  <2> QED
    BY <2>1, Zero, OlderType, RowUpdate, CodesAndStatuses
<1> QED
  BY <1>1 DEF StateTypeOK, AgeJobs

LEMMA WriteType ==
  ASSUME NEW d \in Delivery, NEW l \in Heads, NEW f \in Heads,
         StateTypeOK, WritePrivateResult(d, l, f)
  PROVE  StateTypeOK'
  BY DEF StateTypeOK, WritePrivateResult, File

-----------------------------------------------------------------------------
(* Type correctness.                                                       *)

LEMMA InitType == Init => TypeOK
<1> SUFFICES ASSUME Init PROVE TypeOK
  OBVIOUS
<1>1. Absent \in Row
  BY Zero, CodesAndStatuses DEF Row, Absent
<1>2. StateTypeOK
  <2>1. <<>> \in Seq(Delivery)
    OBVIOUS
  <2> QED
    BY <1>1, <2>1 DEF Init, StateInit, StateTypeOK
<1>3. 0 \in Heads /\ 0 \in 0 .. MaxJobs /\ 0 \in 0 .. MaxCrashes
  BY DEF Heads
<1> QED
  BY <1>2, <1>3 DEF Init, TypeOK, Steps, Modes

\* The locals of a process stay well formed, field by field.
LEMMA WorkUpdate ==
  ASSUME NEW r \in Work
  PROVE  /\ \A a \in 0 .. Lease : [r EXCEPT !.age = a] \in Work
         /\ \A h \in Heads : [r EXCEPT !.label = h] \in Work /\ [r EXCEPT !.diff = h] \in Work
         /\ \A c \in FailureCodes : [r EXCEPT !.code = c] \in Work
         /\ [r EXCEPT !.written = TRUE] \in Work
  BY Zenon DEF Work

LEMMA ClaimedType ==
  ASSUME NEW d \in Delivery, StateTypeOK
  PROVE  Claimed(d) \in Work
<1>1. jobs[d].attempts + 1 \in Nat
  BY DEF StateTypeOK, Row
<1> QED
  BY <1>1, Zero DEF Claimed, Work

LEMMA HeadType ==
  ASSUME NEW r \in Work, TypeOK
  PROVE  r.job \in Delivery /\ r.job.pr \in PRs /\ head[r.job.pr] \in Heads
  BY DEF TypeOK, Work, Delivery

LEMMA StepType ==
  ASSUME TypeOK, BusyIffWorking, NEW w \in Workers, Step(w),
         pc[w] \in Busy => WorkConsistent(w)
  PROVE  TypeOK'
<1> USE DEF TypeOK, Steps, GoTo
<1>w. pc[w] \in Busy => work[w] \in Work
  BY DEF BusyIffWorking
<1>0. 0 \in 0 .. MaxJobs /\ MaxJobs \in 0 .. MaxJobs
  OBVIOUS
<1>1. CASE Recover(w)
  BY <1>1, RecoverType DEF Recover
<1>2. CASE Requeue(w)
  BY <1>2, RequeueDeferredType DEF Requeue
<1>3. CASE Beat(w)
  BY <1>3, <1>0 DEF Beat, Heartbeat, StateTypeOK
<1>4. ASSUME NEW ps \in SUBSET Enabled, Poll(w, ps)
      PROVE  TypeOK'
  <2>1. \A p \in ps : PollDelivery(p) \in Delivery
    BY DEF PollDelivery, Delivery
  <2> QED
    BY <1>4, <2>1 DEF Poll, stateVars, StateTypeOK
<1>5. CASE EndPoll(w) \/ (\E ps \in SUBSET Enabled : PollFails(w, ps))
  BY <1>5 DEF EndPoll, PollFails, stateVars, StateTypeOK
<1>6. ASSUME NEW d \in Delivery, EnqueuePolled(w, d)
      PROVE  TypeOK'
  BY <1>6, EnqueueType DEF EnqueuePolled
<1>7. ASSUME NEW d \in Delivery, Claim(w, d)
      PROVE  TypeOK'
  <2>1. left[w] - 1 \in 0 .. MaxJobs
    BY <1>7 DEF Claim
  <2>2. StateTypeOK'
    BY <1>7, ClaimNextType DEF Claim
  <2> QED
    BY <1>7, <2>1, <2>2, ClaimedType DEF Claim
<1>8. CASE EndCycle(w)
  BY <1>8, <1>0 DEF EndCycle, stateVars, StateTypeOK
<1>9. ASSUME NEW s \in {"succeeded", "deferred", "failed"}, NEW c \in Code,
             pc[w] \in Busy, Transition(work[w].job, s, c), Done(w), UNCHANGED <<head, crashes, overruns>>
      PROVE  TypeOK'
  <2>1. StateTypeOK'
    BY <1>9, <1>w, HeadType, TransitionType, CodesAndStatuses
  <2> QED
    BY <1>9, <2>1 DEF Done
<1>10. ASSUME Die(w), UNCHANGED <<stateVars, head, crashes, overruns>>
       PROVE  TypeOK'
  BY <1>10, <1>0 DEF Die, stateVars, StateTypeOK
<1>11. ASSUME pc[w] \in Busy, NEW c \in FailureCodes, Handle(w, c),
              UNCHANGED <<stateVars, head, crashes, overruns>>
       PROVE  TypeOK'
  <2>1. [work[w] EXCEPT !.code = c] \in Work
    BY <1>11, <1>w, WorkUpdate
  <2> QED
    BY <1>11, <2>1 DEF Handle, stateVars, StateTypeOK
<1>12. CASE DeferClaim(w)
  <2>1. DeferralCode(w) \in Code
    BY CodesAndStatuses DEF DeferralCode, PolicyCodes
  <2> QED
    BY <1>9, <1>10, <1>12, <2>1 DEF DeferClaim, Defer, Busy
<1>13. CASE FetchHead(w)
  <2>1. head[work[w].job.pr] \in Heads /\ work[w] \in Work
    BY <1>13, <1>w, HeadType DEF FetchHead, Busy
  <2>2. [work[w] EXCEPT !.label = head[work[w].job.pr]] \in Work
    BY <2>1, WorkUpdate
  <2> QED
    BY <1>13, <2>2 DEF FetchHead, stateVars, StateTypeOK
<1>14. CASE FetchDiff(w)
  <2>1. head[work[w].job.pr] \in Heads /\ work[w] \in Work
    BY <1>14, <1>w, HeadType DEF FetchDiff, Busy
  <2>2. [work[w] EXCEPT !.diff = head[work[w].job.pr]] \in Work
    BY <2>1, WorkUpdate
  <2> QED
    BY <1>14, <2>2 DEF FetchDiff, stateVars, StateTypeOK
<1>15. CASE FetchFails(w)
  BY <1>15, <1>11 DEF FetchFails, Busy, FailureCodes
<1>16. CASE Review(w)
  BY <1>16 DEF Review, stateVars, StateTypeOK
<1>17. CASE ReviewFails(w)
  BY <1>17, <1>11 DEF ReviewFails, Busy, FailureCodes
<1>18. CASE WriteResult(w)
  <2>1. work[w] \in Work /\ work[w].label \in Heads /\ work[w].diff \in Heads
    BY <1>18, <1>w DEF WriteResult, Busy, WorkConsistent
  <2>2. StateTypeOK'
    BY <1>18, <2>1, HeadType, WriteType DEF WriteResult
  <2>3. [work[w] EXCEPT !.written = TRUE] \in Work
    BY <2>1, WorkUpdate
  <2> QED
    BY <1>18, <2>2, <2>3 DEF WriteResult
<1>19. CASE CompleteClaim(w)
  BY <1>9, <1>11, <1>19, CodesAndStatuses DEF CompleteClaim, Complete, Busy, FailureCodes
<1>20. CASE FailClaim(w)
  <2>1. work[w].code \in Code
    BY <1>20, CodesAndStatuses DEF FailClaim, Busy, WorkConsistent
  <2> QED
    BY <1>9, <1>10, <1>20, <2>1 DEF FailClaim, Fail, Busy
<1> QED
  BY <1>1, <1>2, <1>3, <1>4, <1>5, <1>6, <1>7, <1>8, <1>12, <1>13, <1>14, <1>15, <1>16, <1>17,
     <1>18, <1>19, <1>20 DEF Step

LEMMA NextType ==
  ASSUME TypeOK, BusyIffWorking, [Next]_vars,
         \A w \in Workers : pc[w] \in Busy => WorkConsistent(w)
  PROVE  TypeOK'
<1>0. 0 \in 0 .. MaxJobs
  OBVIOUS
<1>1. CASE UNCHANGED vars
  BY <1>1 DEF vars, TypeOK, StateTypeOK
<1>2. ASSUME NEW p \in PRs, Push(p)
      PROVE  TypeOK'
  BY <1>2 DEF Push, TypeOK, StateTypeOK, stateVars, localVars, Heads
<1>3. ASSUME NEW d \in Delivery, NEW signed \in BOOLEAN, ReceiveWebhook(d, signed)
      PROVE  TypeOK'
  BY <1>3, EnqueueType DEF ReceiveWebhook, TypeOK, localVars
<1>4. ASSUME NEW w \in Workers, NEW m \in Modes, Start(w, m)
      PROVE  TypeOK'
  BY <1>4 DEF Start, TypeOK, StateTypeOK, stateVars, GoTo, Steps
<1>5. ASSUME NEW w \in Workers, Crash(w)
      PROVE  TypeOK'
  BY <1>0, <1>5 DEF Crash, Die, TypeOK, StateTypeOK, stateVars, GoTo, Steps
<1>6. ASSUME NEW w \in Workers, Step(w)
      PROVE  TypeOK'
  BY <1>6, StepType
<1>7. CASE Tick
  <2>1. \A w \in Workers : work[w] # NoWork =>
            [work[w] EXCEPT !.age = Older(work[w].age, Lease)] \in Work
    <3>1. \A w \in Workers : work[w] # NoWork => work[w] \in Work /\ work[w].age \in 0 .. Lease
      BY DEF TypeOK, Work
    <3> QED
      BY <3>1, OlderType, WorkUpdate
  <2> QED
    BY <1>7, <2>1, AgeJobsType DEF Tick, TypeOK
<1> QED
  BY <1>1, <1>2, <1>3, <1>4, <1>5, <1>6, <1>7 DEF Next

-----------------------------------------------------------------------------
(* What every statement preserves of the rows.                             *)

\* No row disappears or loses an attempt, and a settled row is frozen.
JobsMonotone ==
    \A d \in Delivery :
        /\ jobs[d].status # "absent" => jobs'[d].status # "absent"
        /\ jobs[d].status # "absent" => jobs[d].attempts <= jobs'[d].attempts
        /\ Settled(d) => jobs'[d] = jobs[d]

\* Nothing is inserted or finished: rows at most move between queue and claim.
JobsQuiet ==
    \A d \in Delivery :
        /\ jobs[d].status = "absent" <=> jobs'[d].status = "absent"
        /\ jobs'[d].status \in {jobs[d].status, "queued", "running"}
        /\ jobs'[d].status = "deferred" => jobs'[d].code = jobs[d].code

LEMMA UnchangedJobs == ASSUME StateTypeOK, UNCHANGED jobs PROVE JobsMonotone /\ JobsQuiet
  BY DEF JobsMonotone, JobsQuiet, StateTypeOK, Row

LEMMA EnqueueMonotone ==
  ASSUME NEW d \in Delivery, StateTypeOK, Enqueue(d)
  PROVE  JobsMonotone
  BY DEF JobsMonotone, StateTypeOK, Row, Enqueue, Fresh, Settled

LEMMA ClaimNextMonotone ==
  ASSUME NEW d \in Delivery, NEW waited \in 0 .. LockWait, StateTypeOK, ClaimNext(d, waited)
  PROVE  JobsMonotone /\ JobsQuiet /\ jobs'[d].attempts = jobs[d].attempts + 1
  BY DEF JobsMonotone, JobsQuiet, StateTypeOK, Row, ClaimNext, Oldest, Queued, Settled

LEMMA TransitionMonotone ==
  ASSUME NEW d \in Delivery, NEW s \in {"succeeded", "deferred", "failed"}, NEW c \in Code,
         StateTypeOK, Transition(d, s, c)
  PROVE  /\ JobsMonotone
         /\ jobs[d].status = "running"
         /\ jobs'[d].status = s /\ jobs'[d].code = c
         /\ \A e \in Delivery : e # d => jobs'[e] = jobs[e]
<1>1. jobs[d].status = "running"
  BY DEF Transition, CanTransition, Running
<1>2. jobs' = [jobs EXCEPT ![d] = [jobs[d] EXCEPT !.status = s, !.code = c, !.age = 0]]
  BY DEF Transition
<1>3. jobs'[d] = [jobs[d] EXCEPT !.status = s, !.code = c, !.age = 0]
  BY <1>2 DEF StateTypeOK
<1>4. \A e \in Delivery : e # d => jobs'[e] = jobs[e]
  BY <1>2 DEF StateTypeOK
<1>5. jobs'[d].status = s /\ jobs'[d].code = c /\ jobs'[d].attempts = jobs[d].attempts
  BY <1>3 DEF StateTypeOK, Row
<1>6. JobsMonotone
  BY <1>1, <1>4, <1>5 DEF JobsMonotone, StateTypeOK, Row, Settled
<1> QED
  BY <1>1, <1>4, <1>5, <1>6

LEMMA RequeueMonotone ==
  ASSUME StateTypeOK, RequeueDeferred
  PROVE  JobsMonotone /\ JobsQuiet
<1> SUFFICES ASSUME NEW d \in Delivery
             PROVE  /\ jobs'[d].attempts = jobs[d].attempts
                    /\ \/ jobs'[d] = jobs[d]
                       \/ (jobs[d].status = "deferred" /\ jobs'[d].status = "queued")
  BY DEF JobsMonotone, JobsQuiet, StateTypeOK, Row, Settled
<1>1. CASE Requeueable(d)
  <2>1. jobs'[d] = [jobs[d] EXCEPT !.status = "queued", !.code = NoCode, !.age = 0]
    BY <1>1 DEF RequeueDeferred
  <2> QED
    BY <1>1, <2>1 DEF Requeueable, StateTypeOK, Row
<1>2. CASE ~Requeueable(d)
  BY <1>2 DEF RequeueDeferred
<1> QED
  BY <1>1, <1>2

LEMMA RecoverMonotone ==
  ASSUME NEW waited \in 0 .. LockWait, StateTypeOK, RecoverExpiredClaims(waited)
  PROVE  JobsMonotone /\ JobsQuiet
<1> SUFFICES ASSUME NEW d \in Delivery
             PROVE  /\ jobs'[d].attempts = jobs[d].attempts
                    /\ \/ jobs'[d] = jobs[d]
                       \/ (jobs[d].status = "running" /\ jobs'[d].status = "queued")
  BY DEF JobsMonotone, JobsQuiet, StateTypeOK, Row, Settled
<1>1. CASE Expired(d, waited)
  <2>1. jobs'[d] = [jobs[d] EXCEPT !.status = "queued", !.code = Recovered, !.age = 0]
    BY <1>1 DEF RecoverExpiredClaims
  <2> QED
    BY <1>1, <2>1 DEF Expired, Running, StateTypeOK, Row
<1>2. CASE ~Expired(d, waited)
  BY <1>2 DEF RecoverExpiredClaims
<1> QED
  BY <1>1, <1>2

LEMMA AgeJobsMonotone ==
  ASSUME StateTypeOK, AgeJobs
  PROVE  JobsMonotone /\ JobsQuiet
<1> SUFFICES ASSUME NEW d \in Delivery
             PROVE  /\ jobs'[d].attempts = jobs[d].attempts
                    /\ jobs'[d].status = jobs[d].status
                    /\ jobs'[d].code = jobs[d].code
                    /\ jobs[d].status # "running" => jobs'[d] = jobs[d]
  BY DEF JobsMonotone, JobsQuiet, StateTypeOK, Row, Settled
<1>1. CASE Running(d)
  <2>1. jobs'[d] = [jobs[d] EXCEPT !.age = Older(jobs[d].age, OldAge)]
    BY <1>1 DEF AgeJobs
  <2> QED
    BY <1>1, <2>1 DEF Running, StateTypeOK, Row
<1>2. CASE ~Running(d)
  BY <1>2 DEF AgeJobs, Running
<1> QED
  BY <1>1, <1>2

-----------------------------------------------------------------------------
(* The inductive invariant, in the parts that a step can disturb.          *)

RowsOK ==
    /\ FiledAreJobs
    /\ SucceededHasResult
    /\ ResultCoversDelivery
    /\ LabelNotAheadOfDiff
    /\ JobsAreGenuine
    /\ DeferredIsRequeueable

\* Rows, files and heads only grow.
Grows ==
    /\ JobsMonotone
    /\ \A d \in Delivery : files[d] # NoFile => files'[d] # NoFile
    /\ \A p \in PRs : head[p] <= head'[p]

LEMMA UnchangedGrows == ASSUME TypeOK, UNCHANGED <<jobs, files, head>> PROVE Grows /\ JobsQuiet
  BY UnchangedJobs DEF Grows, TypeOK, Heads

LEMMA JobsGrow == ASSUME TypeOK, JobsMonotone, UNCHANGED <<files, head>> PROVE Grows
  BY DEF Grows, TypeOK, Heads

\* A step that inserts and finishes nothing keeps the rows consistent.
LEMMA QuietRows ==
  ASSUME TypeOK, RowsOK, JobsQuiet, UNCHANGED files, Grows, head' \in [PRs -> Heads]
  PROVE  RowsOK'
<1> USE DEF JobsQuiet, Grows, JobsMonotone, TypeOK, StateTypeOK, Row, Delivery, Heads
<1>1. FiledAreJobs' /\ SucceededHasResult' /\ ResultCoversDelivery' /\ LabelNotAheadOfDiff'
  BY DEF RowsOK, FiledAreJobs, SucceededHasResult, ResultCoversDelivery, LabelNotAheadOfDiff
<1>2. JobsAreGenuine'
  <2> SUFFICES ASSUME NEW d \in Delivery, jobs'[d].status # "absent"
               PROVE  d.pr \in Enabled /\ d.head <= head'[d.pr]
    BY DEF JobsAreGenuine
  <2>1. jobs[d].status # "absent"
    OBVIOUS
  <2>2. d.pr \in Enabled /\ d.head <= head[d.pr]
    BY <2>1 DEF RowsOK, JobsAreGenuine
  <2>3. d.pr \in PRs /\ d.head \in Nat /\ head[d.pr] \in Nat /\ head'[d.pr] \in Nat
    OBVIOUS
  <2> QED
    BY <2>2, <2>3
<1>3. DeferredIsRequeueable'
  BY DEF RowsOK, DeferredIsRequeueable, Requeueable
<1> QED
  BY <1>1, <1>2, <1>3 DEF RowsOK

LEMMA EnqueueRows ==
  ASSUME NEW d \in Delivery, d.pr \in Enabled, d.head <= head[d.pr],
         TypeOK, RowsOK, Enqueue(d), UNCHANGED head
  PROVE  RowsOK' /\ Grows
<1>1. Grows
  BY EnqueueMonotone DEF Grows, TypeOK, Enqueue, Heads
<1>2. \A e \in Delivery : jobs'[e] = jobs[e] \/ (e = d /\ jobs'[e].status = "queued")
  BY DEF Enqueue, Fresh, TypeOK, StateTypeOK
<1>3. JobsAreGenuine'
  BY <1>2 DEF RowsOK, JobsAreGenuine
<1>4. DeferredIsRequeueable' /\ SucceededHasResult'
  BY <1>2 DEF RowsOK, DeferredIsRequeueable, Requeueable, SucceededHasResult, Enqueue
<1>5. FiledAreJobs' /\ ResultCoversDelivery' /\ LabelNotAheadOfDiff'
  BY <1>2 DEF RowsOK, FiledAreJobs, ResultCoversDelivery, LabelNotAheadOfDiff, Enqueue
<1> QED
  BY <1>1, <1>3, <1>4, <1>5 DEF RowsOK

LEMMA TransitionRows ==
  ASSUME NEW d \in Delivery, NEW s \in {"succeeded", "deferred", "failed"}, NEW c \in Code,
         s = "succeeded" => files[d] # NoFile,
         s = "deferred" => c \in PolicyCodes,
         TypeOK, RowsOK, Transition(d, s, c), UNCHANGED head
  PROVE  RowsOK' /\ Grows
<1>1. /\ JobsMonotone
      /\ jobs[d].status = "running"
      /\ jobs'[d].status = s /\ jobs'[d].code = c
      /\ \A e \in Delivery : e # d => jobs'[e] = jobs[e]
  BY TransitionMonotone DEF TypeOK
<1>2. files' = files
  BY DEF Transition
<1>3. Grows
  BY <1>1, <1>2 DEF Grows, TypeOK, Heads
<1>4. JobsAreGenuine'
  BY <1>1 DEF RowsOK, JobsAreGenuine
<1>5. DeferredIsRequeueable' /\ SucceededHasResult'
  BY <1>1, <1>2 DEF RowsOK, DeferredIsRequeueable, Requeueable, SucceededHasResult
<1>6. FiledAreJobs' /\ ResultCoversDelivery' /\ LabelNotAheadOfDiff'
  BY <1>1, <1>2 DEF RowsOK, FiledAreJobs, ResultCoversDelivery, LabelNotAheadOfDiff
<1> QED
  BY <1>3, <1>4, <1>5, <1>6 DEF RowsOK

LEMMA WriteRows ==
  ASSUME NEW d \in Delivery, NEW l \in Heads, NEW f \in Heads,
         jobs[d].status # "absent", d.head <= l, l <= f,
         TypeOK, RowsOK, WritePrivateResult(d, l, f), UNCHANGED head
  PROVE  RowsOK' /\ Grows /\ files'[d] # NoFile
<1>1. files'[d] = [label |-> l, diff |-> f] /\ \A e \in Delivery : e # d => files'[e] = files[e]
  BY DEF WritePrivateResult, TypeOK, StateTypeOK
<1>2. files'[d] # NoFile
  BY <1>1 DEF NoFile, NoHead, Heads
<1>3. jobs' = jobs
  BY DEF WritePrivateResult
<1>4. Grows
  BY <1>1, <1>2, <1>3, UnchangedJobs DEF Grows, TypeOK, Heads
<1>5. RowsOK'
  BY <1>1, <1>2, <1>3 DEF RowsOK, FiledAreJobs, SucceededHasResult, ResultCoversDelivery,
     LabelNotAheadOfDiff, JobsAreGenuine, DeferredIsRequeueable, Requeueable
<1> QED
  BY <1>2, <1>4, <1>5

\* The locals of a process that does not move stay consistent.
LEMMA KeptWork ==
  ASSUME TypeOK, Grows, NEW w \in Workers, pc[w] \in Busy, work[w] \in Work, WorkConsistent(w),
         pc'[w] = pc[w], work'[w].job = work[w].job, work'[w].attempt = work[w].attempt,
         work'[w].label = work[w].label, work'[w].diff = work[w].diff, work'[w].code = work[w].code,
         head' \in [PRs -> Heads], StateTypeOK'
  PROVE  WorkConsistent(w)'
<1> DEFINE d == work[w].job
<1>1. d \in Delivery /\ d.pr \in PRs /\ d.head \in Heads /\ work[w].attempt \in Nat
  BY DEF Work, Delivery
<1>2. /\ jobs[d].attempts \in Nat /\ jobs'[d].attempts \in Nat
      /\ jobs'[d].status # "absent" /\ jobs[d].attempts <= jobs'[d].attempts
  BY <1>1 DEF WorkConsistent, Grows, JobsMonotone, StateTypeOK, TypeOK, Row
<1>3. head[d.pr] \in Heads /\ head'[d.pr] \in Heads /\ head[d.pr] <= head'[d.pr]
  BY <1>1 DEF Grows, TypeOK
<1>4. files[d] # NoFile => files'[d] # NoFile
  BY <1>1 DEF Grows
<1>5. work[w].label \in Heads /\ work[w].label <= head[d.pr] => work[w].label <= head'[d.pr]
  BY <1>3 DEF Heads
<1> QED
  BY <1>1, <1>2, <1>4, <1>5 DEF WorkConsistent

\* The claim that w holds after a step is the one it held, or a new one with a
\* larger attempt than anybody has seen of the job.
ClaimKept(w) ==
    work'[w] # NoWork =>
        \/ /\ work[w] # NoWork
           /\ work'[w].job = work[w].job
           /\ work'[w].attempt = work[w].attempt
        \/ \A v \in Workers : work[v] # NoWork /\ work[v].job = work'[w].job =>
                                  work[v].attempt # work'[w].attempt

\* What remains to be shown of a step in which at most w moves.
LEMMA OneMoves ==
  ASSUME IInv, TypeOK', RowsOK', Grows, NEW w \in Workers,
         \A v \in Workers : v # w => pc'[v] = pc[v] /\ work'[v] = work[v] /\ listed'[v] = listed[v],
         pc'[w] \in Busy <=> work'[w] # NoWork,
         pc'[w] \in Busy => WorkConsistent(w)',
         \A d \in listed'[w] : d.pr \in Enabled /\ d.head <= head'[d.pr],
         ClaimKept(w)
  PROVE  IInv'
<1>1. BusyIffWorking'
  BY DEF IInv, BusyIffWorking
<1>2. \A v \in Workers : pc'[v] \in Busy => WorkConsistent(v)'
  <2> SUFFICES ASSUME NEW v \in Workers, v # w, pc'[v] \in Busy
               PROVE  WorkConsistent(v)'
    OBVIOUS
  <2>1. work[v] \in Work
    BY DEF IInv, BusyIffWorking, TypeOK
  <2> QED
    BY <2>1, KeptWork DEF IInv, TypeOK
<1>3. ListedAreGenuine'
  <2> SUFFICES ASSUME NEW v \in Workers, v # w, NEW d \in listed'[v]
               PROVE  d.pr \in Enabled /\ d.head <= head'[d.pr]
    BY DEF ListedAreGenuine
  <2>1. d \in listed[v] /\ d \in Delivery /\ d.pr \in PRs /\ d.head \in Heads
    BY DEF IInv, TypeOK, Delivery
  <2> QED
    BY <2>1 DEF IInv, ListedAreGenuine, Grows, TypeOK, Heads
<1>4. AttemptIdentifiesClaim'
  <2>1. ASSUME NEW v \in Workers, v # w, work[v] # NoWork, work'[w] # NoWork,
               work[v].job = work'[w].job, work[v].attempt = work'[w].attempt,
               work[v].job \in Delivery
        PROVE  FALSE
    BY <2>1 DEF ClaimKept, IInv, AttemptIdentifiesClaim, Holds
  <2>2. SUFFICES ASSUME NEW u \in Workers, NEW v \in Workers, NEW d \in Delivery, u # v,
                        Holds(u, d)', Holds(v, d)', work'[u].attempt = work'[v].attempt
                 PROVE  FALSE
    BY DEF AttemptIdentifiesClaim
  <2>3. CASE u # w /\ v # w
    BY <2>2, <2>3 DEF IInv, AttemptIdentifiesClaim, Holds
  <2>4. CASE u = w
    BY <2>1, <2>2, <2>4 DEF Holds
  <2>5. CASE v = w
    BY <2>1, <2>2, <2>5 DEF Holds
  <2> QED
    BY <2>3, <2>4, <2>5
<1> QED
  BY <1>1, <1>2, <1>3, <1>4 DEF IInv, RowsOK

\* One run of the loop of process w, action by action.
LEMMA StepPreserves ==
  ASSUME IInv, NEW w \in Workers, Step(w)
  PROVE  IInv' /\ Grows
<1>t. TypeOK /\ StateTypeOK /\ RowsOK /\ BusyIffWorking /\ TypeOK'
  BY StepType DEF IInv, TypeOK, RowsOK
<1>w. pc[w] \in Busy =>
        /\ work[w] \in Work /\ work[w] # NoWork /\ WorkConsistent(w)
        /\ work[w].job \in Delivery /\ work[w].job.pr \in PRs /\ head[work[w].job.pr] \in Heads
  BY <1>t, HeadType DEF IInv, BusyIffWorking, TypeOK
<1>l. \A d \in listed[w] : d.pr \in Enabled /\ d.head <= head[d.pr]
  BY DEF IInv, ListedAreGenuine
<1>b. pc[w] \notin Busy => work[w] = NoWork
  BY <1>t DEF BusyIffWorking
<1>m. pc \in [Workers -> Steps] /\ work \in [Workers -> Work \cup {NoWork}]
      /\ listed \in [Workers -> SUBSET Delivery] /\ head \in [PRs -> Heads]
  BY <1>t DEF TypeOK
\* Steps outside process_one that insert and finish nothing.
<1>1. ASSUME pc[w] \notin Busy, pc'[w] \notin Busy, work' = work, Grows, RowsOK',
             pc' = [pc EXCEPT ![w] = pc'[w]],
             \A v \in Workers : v # w => listed'[v] = listed[v],
             \A d \in listed'[w] : d.pr \in Enabled /\ d.head <= head'[d.pr]
      PROVE  IInv' /\ Grows
  BY <1>1, <1>t, <1>b, <1>m, OneMoves DEF ClaimKept
<1>2. CASE Recover(w)
  <2>1. Grows /\ RowsOK'
    BY <1>2, <1>t, <1>m, RecoverMonotone, JobsGrow, QuietRows DEF Recover, RecoverExpiredClaims
  <2> QED
    BY <1>1, <1>2, <1>l, <1>m, <2>1 DEF Recover, GoTo, Busy
<1>3. CASE Requeue(w)
  <2>1. Grows /\ RowsOK'
    BY <1>3, <1>t, <1>m, RequeueMonotone, JobsGrow, QuietRows DEF Requeue, RequeueDeferred
  <2> QED
    BY <1>1, <1>3, <1>l, <1>m, <2>1 DEF Requeue, GoTo, Busy
<1>4. CASE Beat(w)
  <2>1. Grows /\ RowsOK'
    BY <1>4, <1>t, <1>m, UnchangedGrows, QuietRows DEF Beat, Heartbeat
  <2> QED
    BY <1>1, <1>4, <1>l, <1>m, <2>1 DEF Beat, GoTo, Busy
<1>5. ASSUME NEW ps \in SUBSET Enabled, Poll(w, ps)
      PROVE  IInv' /\ Grows
  <2>1. Grows /\ RowsOK'
    BY <1>5, <1>t, <1>m, UnchangedGrows, QuietRows DEF Poll, stateVars
  <2>2. \A d \in listed'[w] : d.pr \in Enabled /\ d.head <= head'[d.pr]
    BY <1>5, <1>m DEF Poll, PollDelivery, Heads
  <2> QED
    BY <1>1, <1>5, <1>m, <2>1, <2>2 DEF Poll, GoTo, Busy
<1>6. CASE EndPoll(w) \/ (\E ps \in SUBSET Enabled : PollFails(w, ps))
  <2>1. Grows /\ RowsOK'
    BY <1>6, <1>t, <1>m, UnchangedGrows, QuietRows DEF EndPoll, PollFails, stateVars
  <2> QED
    BY <1>1, <1>6, <1>l, <1>m, <2>1 DEF EndPoll, PollFails, GoTo, Busy
<1>7. ASSUME NEW d \in Delivery, EnqueuePolled(w, d)
      PROVE  IInv' /\ Grows
  <2>1. Grows /\ RowsOK'
    BY <1>7, <1>t, <1>l, EnqueueRows DEF EnqueuePolled
  <2> QED
    BY <1>1, <1>7, <1>l, <1>m, <2>1 DEF EnqueuePolled, GoTo, Busy
<1>8. CASE EndCycle(w)
  <2>1. Grows /\ RowsOK'
    BY <1>8, <1>t, <1>m, UnchangedGrows, QuietRows DEF EndCycle, stateVars
  <2> QED
    BY <1>1, <1>8, <1>l, <1>m, <2>1 DEF EndCycle, GoTo, Busy
<1>9. ASSUME NEW d \in Delivery, Claim(w, d)
      PROVE  IInv' /\ Grows
  <2>1. JobsMonotone /\ JobsQuiet /\ jobs'[d].attempts = jobs[d].attempts + 1
    BY <1>9, <1>t, ClaimNextMonotone DEF Claim
  <2>2. Grows /\ RowsOK'
    BY <1>9, <1>t, <1>m, <2>1, JobsGrow, QuietRows DEF Claim, ClaimNext
  <2>3. work'[w] = Claimed(d) /\ work'[w] # NoWork /\ pc'[w] \in {"fetch", "defer"}
    BY <1>9, <1>t, <1>m, ClaimedType DEF Claim, GoTo
  <2>4. jobs[d].status # "absent" /\ jobs'[d].status # "absent"
    BY <1>9, <2>1 DEF Claim, ClaimNext, Oldest, Queued, JobsMonotone
  <2>5. WorkConsistent(w)'
    BY <2>1, <2>3, <2>4, <1>t DEF WorkConsistent, Claimed, TypeOK, StateTypeOK, Row
  <2>6. ClaimKept(w)
    <3> SUFFICES ASSUME NEW v \in Workers, work[v] # NoWork, work[v].job = d
                 PROVE  work[v].attempt # jobs[d].attempts + 1
      BY <2>3 DEF ClaimKept, Claimed
    <3>1. pc[v] \in Busy /\ work[v] \in Work
      BY <1>t, <1>m DEF BusyIffWorking
    <3>2. work[v].attempt <= jobs[d].attempts
      BY <3>1 DEF IInv, WorkConsistent
    <3> QED
      BY <3>1, <3>2, <1>t DEF Work, StateTypeOK, Row
  <2> QED
    BY <1>9, <1>t, <1>l, <1>m, <2>2, <2>3, <2>5, <2>6, OneMoves DEF Claim, GoTo, Busy
\* The ways a step of process_one ends or goes on.
<1>10. ASSUME NEW s \in {"succeeded", "deferred", "failed"}, NEW c \in Code, pc[w] \in Busy,
              s = "succeeded" => files[work[w].job] # NoFile,
              s = "deferred" => c \in PolicyCodes,
              Transition(work[w].job, s, c), Done(w), UNCHANGED head
       PROVE  IInv' /\ Grows
  <2>1. Grows /\ RowsOK'
    BY <1>10, <1>t, <1>w, TransitionRows
  <2>2. work'[w] = NoWork /\ pc'[w] = "claim"
    BY <1>10, <1>m DEF Done, GoTo
  <2> QED
    BY <1>10, <1>t, <1>l, <1>m, <2>1, <2>2, OneMoves DEF Done, GoTo, Busy, ClaimKept
<1>11. ASSUME Die(w), UNCHANGED <<stateVars, head>>
       PROVE  IInv' /\ Grows
  <2>1. Grows /\ RowsOK'
    BY <1>11, <1>t, <1>m, UnchangedGrows, QuietRows DEF stateVars
  <2>2. work'[w] = NoWork /\ pc'[w] = "down" /\ listed'[w] = {}
    BY <1>11, <1>m DEF Die, GoTo
  <2> QED
    BY <1>11, <1>t, <1>m, <2>1, <2>2, OneMoves DEF Die, GoTo, Busy, ClaimKept
<1>12. ASSUME pc[w] \in Busy, pc'[w] \in Busy, pc' = [pc EXCEPT ![w] = pc'[w]],
              \A v \in Workers : v # w => work'[v] = work[v], listed' = listed,
              work'[w] \in Work, work'[w].job = work[w].job, work'[w].attempt = work[w].attempt,
              WorkConsistent(w)', Grows, RowsOK', UNCHANGED head
       PROVE  IInv' /\ Grows
  <2>1. work'[w] # NoWork
    BY <1>12
  <2> QED
    BY <1>12, <1>t, <1>l, <1>m, <1>w, <2>1, OneMoves DEF ClaimKept
<1>13. ASSUME NEW c \in FailureCodes, pc[w] \in Busy, Handle(w, c), UNCHANGED <<stateVars, head>>
       PROVE  IInv' /\ Grows
  <2>1. Grows /\ RowsOK'
    BY <1>13, <1>t, <1>m, UnchangedGrows, QuietRows DEF stateVars
  <2>2. work'[w] = [work[w] EXCEPT !.code = c] /\ pc'[w] = "fail"
    BY <1>13, <1>m DEF Handle, GoTo
  <2>3. work'[w].job = work[w].job /\ work'[w].attempt = work[w].attempt /\ work'[w].code = c
    BY <1>13, <1>w, <2>2 DEF Work
  <2>5. work'[w] \in Work
    BY <1>13, <1>w, <2>2, WorkUpdate
  <2>4. WorkConsistent(w)'
    BY <1>13, <1>w, <2>2, <2>3 DEF WorkConsistent, stateVars
  <2> QED
    BY <1>12, <1>13, <1>m, <2>1, <2>2, <2>3, <2>4, <2>5 DEF Handle, GoTo, Busy
<1>14. CASE DeferClaim(w)
  <2>1. DeferralCode(w) \in Code /\ DeferralCode(w) \in PolicyCodes
    BY CodesAndStatuses DEF DeferralCode, PolicyCodes
  <2> QED
    BY <1>10, <1>11, <1>14, <2>1 DEF DeferClaim, Defer, Busy
<1>15. CASE FetchHead(w)
  <2>1. Grows /\ RowsOK'
    BY <1>15, <1>t, <1>m, UnchangedGrows, QuietRows DEF FetchHead, stateVars
  <2>2. pc[w] \in Busy /\ pc'[w] = "diff"
        /\ work'[w] = [work[w] EXCEPT !.label = head[work[w].job.pr]]
    BY <1>15, <1>m DEF FetchHead, GoTo, Busy
  <2>3. work'[w].job = work[w].job /\ work'[w].attempt = work[w].attempt
        /\ work'[w].label = head[work[w].job.pr]
    BY <1>w, <2>2 DEF Work
  <2>4. work[w].job.head <= head[work[w].job.pr]
    BY <1>w, <1>t, <2>2 DEF WorkConsistent, RowsOK, JobsAreGenuine
  <2>5. WorkConsistent(w)'
    BY <1>15, <1>w, <2>2, <2>3, <2>4 DEF WorkConsistent, FetchHead, stateVars, Heads
  <2>6. work'[w] \in Work
    <3>1. \A h \in Heads : [work[w] EXCEPT !.label = h] \in Work
      BY <1>w, <2>2, WorkUpdate
    <3>2. head[work[w].job.pr] \in Heads
      BY <1>w, <2>2
    <3> QED
      BY <2>2, <3>1, <3>2
  <2> QED
    BY <1>12, <1>15, <1>m, <2>1, <2>2, <2>3, <2>5, <2>6 DEF FetchHead, GoTo, Busy
<1>16. CASE FetchDiff(w)
  <2>1. Grows /\ RowsOK'
    BY <1>16, <1>t, <1>m, UnchangedGrows, QuietRows DEF FetchDiff, stateVars
  <2>2. pc[w] \in Busy /\ pc'[w] = "review"
        /\ work'[w] = [work[w] EXCEPT !.diff = head[work[w].job.pr]]
    BY <1>16, <1>m DEF FetchDiff, GoTo, Busy
  <2>3. work'[w].job = work[w].job /\ work'[w].attempt = work[w].attempt
        /\ work'[w].label = work[w].label /\ work'[w].diff = head[work[w].job.pr]
    BY <1>w, <2>2 DEF Work
  <2>4. WorkConsistent(w)'
    BY <1>16, <1>w, <2>2, <2>3 DEF WorkConsistent, FetchDiff, stateVars, Heads
  <2>5. work'[w] \in Work
    <3>1. \A h \in Heads : [work[w] EXCEPT !.diff = h] \in Work
      BY <1>w, <2>2, WorkUpdate
    <3>2. head[work[w].job.pr] \in Heads
      BY <1>w, <2>2
    <3> QED
      BY <2>2, <3>1, <3>2
  <2> QED
    BY <1>12, <1>16, <1>m, <2>1, <2>2, <2>3, <2>4, <2>5 DEF FetchDiff, GoTo, Busy
<1>17. CASE FetchFails(w)
  BY <1>13, <1>17 DEF FetchFails, Busy, FailureCodes
<1>18. CASE Review(w)
  <2>1. Grows /\ RowsOK'
    BY <1>18, <1>t, <1>m, UnchangedGrows, QuietRows DEF Review, stateVars
  <2>2. pc[w] \in Busy /\ pc'[w] = "write"
    BY <1>18, <1>m DEF Review, GoTo, Busy
  <2>3. WorkConsistent(w)'
    BY <1>18, <1>w, <2>2 DEF WorkConsistent, Review, stateVars
  <2> QED
    BY <1>12, <1>18, <1>m, <1>w, <2>1, <2>2, <2>3 DEF Review, GoTo, Busy
<1>19. CASE ReviewFails(w)
  BY <1>13, <1>19 DEF ReviewFails, Busy, FailureCodes
<1>20. CASE WriteResult(w)
  <2>1. pc[w] \in Busy /\ pc'[w] = "complete" /\ work'[w] = [work[w] EXCEPT !.written = TRUE]
    BY <1>20, <1>m DEF WriteResult, GoTo, Busy
  <2>2. Grows /\ RowsOK' /\ files'[work[w].job] # NoFile
    BY <1>20, <1>t, <1>w, <2>1, WriteRows DEF WriteResult, WorkConsistent
  <2>3. work'[w].job = work[w].job /\ work'[w].attempt = work[w].attempt
        /\ work'[w].label = work[w].label /\ work'[w].diff = work[w].diff
    BY <1>w, <2>1 DEF Work
  <2>4. WorkConsistent(w)'
    BY <1>20, <1>w, <2>1, <2>2, <2>3 DEF WorkConsistent, WriteResult, WritePrivateResult
  <2>5. work'[w] \in Work
    BY <1>w, <2>1, <2>2, WorkUpdate
  <2> QED
    BY <1>12, <1>20, <1>m, <2>1, <2>2, <2>3, <2>4, <2>5 DEF WriteResult, GoTo, Busy
<1>21. CASE CompleteClaim(w)
  <2>1. pc[w] \in Busy /\ files[work[w].job] # NoFile
    BY <1>21, <1>w DEF CompleteClaim, Busy, WorkConsistent
  <2> QED
    BY <1>10, <1>13, <1>21, <2>1, CodesAndStatuses DEF CompleteClaim, Complete, FailureCodes
<1>22. CASE FailClaim(w)
  <2>1. pc[w] \in Busy /\ work[w].code \in Code
    BY <1>22, <1>w, CodesAndStatuses DEF FailClaim, Busy, WorkConsistent
  <2> QED
    BY <1>10, <1>11, <1>22, <2>1 DEF FailClaim, Fail
<1> QED
  BY <1>2, <1>3, <1>4, <1>5, <1>6, <1>7, <1>8, <1>9, <1>14, <1>15, <1>16, <1>17, <1>18, <1>19,
     <1>20, <1>21, <1>22 DEF Step

LEMMA NextPreserves ==
  ASSUME IInv, [Next]_vars
  PROVE  IInv' /\ Grows
<1>t. TypeOK /\ StateTypeOK /\ RowsOK /\ BusyIffWorking /\ TypeOK'
  BY NextType DEF IInv, TypeOK, RowsOK
<1>m. pc \in [Workers -> Steps] /\ work \in [Workers -> Work \cup {NoWork}]
      /\ listed \in [Workers -> SUBSET Delivery] /\ head \in [PRs -> Heads]
      /\ head' \in [PRs -> Heads]
  BY <1>t DEF TypeOK
\* Steps in which no process moves: what each is doing stays consistent.
<1>1. ASSUME pc' = pc, listed' = listed, Grows, RowsOK',
             \A w \in Workers : work[w] = NoWork => work'[w] = NoWork,
             \A w \in Workers : work[w] # NoWork =>
                 /\ work'[w] # NoWork
                 /\ work'[w].job = work[w].job /\ work'[w].attempt = work[w].attempt
                 /\ work'[w].label = work[w].label /\ work'[w].diff = work[w].diff
                 /\ work'[w].code = work[w].code
      PROVE  IInv' /\ Grows
  <2>1. BusyIffWorking'
    BY <1>1, <1>t DEF BusyIffWorking
  <2>2. \A w \in Workers : pc'[w] \in Busy => WorkConsistent(w)'
    <3> SUFFICES ASSUME NEW w \in Workers, pc'[w] \in Busy
                 PROVE  WorkConsistent(w)'
      OBVIOUS
    <3>1. pc[w] \in Busy /\ work[w] # NoWork /\ work[w] \in Work /\ WorkConsistent(w)
      BY <1>1, <1>m, <1>t DEF IInv, BusyIffWorking
    <3> QED
      BY <1>1, <1>t, <1>m, <3>1, KeptWork DEF TypeOK
  <2>3. ListedAreGenuine'
    <3> SUFFICES ASSUME NEW w \in Workers, NEW d \in listed[w]
                 PROVE  d.pr \in Enabled /\ d.head <= head'[d.pr]
      BY <1>1 DEF ListedAreGenuine
    <3>1. d \in Delivery /\ d.pr \in PRs /\ d.head \in Heads
      BY <1>m DEF Delivery
    <3>2. d.pr \in Enabled /\ d.head <= head[d.pr] /\ head[d.pr] <= head'[d.pr]
      BY <1>1, <3>1 DEF IInv, ListedAreGenuine, Grows
    <3> QED
      BY <1>m, <3>1, <3>2 DEF Heads
  <2>4. AttemptIdentifiesClaim'
    BY <1>1 DEF IInv, AttemptIdentifiesClaim, Holds
  <2> QED
    BY <1>1, <1>t, <2>1, <2>2, <2>3, <2>4 DEF IInv, RowsOK
<1>2. CASE UNCHANGED vars
  <2>1. Grows /\ RowsOK'
    BY <1>2, <1>t, <1>m, UnchangedGrows, QuietRows DEF vars
  <2> QED
    BY <1>1, <1>2, <2>1 DEF vars
<1>3. ASSUME NEW p \in PRs, Push(p)
      PROVE  IInv' /\ Grows
  <2>1. \A q \in PRs : head[q] <= head'[q]
    BY <1>3, <1>m DEF Push, Heads
  <2>2. Grows /\ RowsOK'
    BY <1>3, <1>t, <1>m, <2>1, UnchangedJobs, QuietRows DEF Push, Grows, stateVars
  <2> QED
    BY <1>1, <1>3, <2>2 DEF Push, localVars
<1>4. ASSUME NEW d \in Delivery, NEW signed \in BOOLEAN, ReceiveWebhook(d, signed)
      PROVE  IInv' /\ Grows
  <2>1. Grows /\ RowsOK'
    BY <1>4, <1>t, EnqueueRows DEF ReceiveWebhook, Accepts
  <2> QED
    BY <1>1, <1>4, <2>1 DEF ReceiveWebhook, localVars
<1>5. ASSUME NEW w \in Workers, NEW m \in Modes, Start(w, m)
      PROVE  IInv' /\ Grows
  <2>1. Grows /\ RowsOK'
    BY <1>5, <1>t, <1>m, UnchangedGrows, QuietRows DEF Start, stateVars
  <2>2. pc'[w] = "recover" /\ pc[w] = "down" /\ work'[w] = NoWork
    BY <1>5, <1>t, <1>m DEF Start, GoTo, BusyIffWorking, Busy
  <2>3. \A d \in listed[w] : d.pr \in Enabled /\ d.head <= head[d.pr]
    BY DEF IInv, ListedAreGenuine
  <2> QED
    BY <1>5, <1>t, <1>m, <2>1, <2>2, <2>3, OneMoves DEF Start, GoTo, Busy, ClaimKept
<1>6. ASSUME NEW w \in Workers, Crash(w)
      PROVE  IInv' /\ Grows
  <2>1. Grows /\ RowsOK'
    BY <1>6, <1>t, <1>m, UnchangedGrows, QuietRows DEF Crash, stateVars
  <2>2. pc'[w] = "down" /\ work'[w] = NoWork /\ listed'[w] = {}
    BY <1>6, <1>m DEF Crash, Die, GoTo
  <2> QED
    BY <1>6, <1>t, <1>m, <2>1, <2>2, OneMoves DEF Crash, Die, GoTo, Busy, ClaimKept
<1>7. ASSUME NEW w \in Workers, Step(w)
      PROVE  IInv' /\ Grows
  BY <1>7, StepPreserves
<1>8. CASE Tick
  <2>1. Grows /\ RowsOK'
    BY <1>8, <1>t, <1>m, AgeJobsMonotone, JobsGrow, QuietRows DEF Tick, AgeJobs
  <2>2. ASSUME NEW w \in Workers, work[w] # NoWork
        PROVE  /\ work'[w] # NoWork
               /\ work'[w].job = work[w].job /\ work'[w].attempt = work[w].attempt
               /\ work'[w].label = work[w].label /\ work'[w].diff = work[w].diff
               /\ work'[w].code = work[w].code
    <3>1. work[w] \in Work /\ work[w].age \in 0 .. Lease
      BY <1>m, <2>2 DEF Work
    <3>2. work'[w] = [work[w] EXCEPT !.age = Older(work[w].age, Lease)]
      BY <1>8, <2>2 DEF Tick
    <3>3. work'[w] \in Work
      <4>1. Older(work[w].age, Lease) \in 0 .. Lease
        BY <3>1, OlderType
      <4> QED
        BY <3>1, <3>2, <4>1, WorkUpdate
    <3> QED
      BY <3>1, <3>2, <3>3 DEF Work
  <2> QED
    BY <1>1, <1>8, <2>1, <2>2 DEF Tick
<1> QED
  BY <1>2, <1>3, <1>4, <1>5, <1>6, <1>7, <1>8 DEF Next

LEMMA InitInv == Init => IInv
<1> SUFFICES ASSUME Init PROVE IInv
  OBVIOUS
<1>1. \A d \in Delivery : jobs[d].status = "absent" /\ files[d] = NoFile
  BY DEF Init, StateInit, Absent
<1>2. \A w \in Workers : pc[w] = "down" /\ work[w] = NoWork /\ listed[w] = {}
  BY DEF Init
<1> QED
  BY <1>1, <1>2, InitType DEF IInv, BusyIffWorking, Busy, ListedAreGenuine, FiledAreJobs,
     SucceededHasResult, ResultCoversDelivery, LabelNotAheadOfDiff, JobsAreGenuine,
     DeferredIsRequeueable, AttemptIdentifiesClaim, Holds

-----------------------------------------------------------------------------
(* The theorems.                                                           *)

\* The inductive invariant, for any processes, configurations, pull requests and
\* bounds: it is what the claims, reads and writes of run_once preserve together.
THEOREM Invariant == Spec => []IInv
<1>1. IInv /\ [Next]_vars => IInv'
  BY NextPreserves
<1> QED
  BY <1>1, InitInv, PTL DEF Spec

\* The variables have their types throughout.
THEOREM TypeCorrectness == Spec => []TypeOK
<1>1. IInv => TypeOK
  BY DEF IInv
<1> QED
  BY <1>1, Invariant, PTL

\* A succeeded job has its private result on disk, whatever crashed on the way
\* and whichever process finished the claim.
THEOREM SuccessIsBacked == Spec => []SucceededHasResult
<1>1. IInv => SucceededHasResult
  BY DEF IInv
<1> QED
  BY <1>1, Invariant, PTL

\* A filed review is of the delivered head or a later one.
THEOREM ReviewsAreOfDeliveredHeads == Spec => []ResultCoversDelivery
<1>1. IInv => ResultCoversDelivery
  BY DEF IInv
<1> QED
  BY <1>1, Invariant, PTL

\* The head that a review is filed under is not ahead of the diff that was reviewed.
THEOREM LabelsNeverRunAhead == Spec => []LabelNotAheadOfDiff
<1>1. IInv => LabelNotAheadOfDiff
  BY DEF IInv
<1> QED
  BY <1>1, Invariant, PTL

\* claim_next never gives one attempt of a job to two processes.
THEOREM ClaimsAreDistinct == Spec => []AttemptIdentifiesClaim
<1>1. IInv => AttemptIdentifiesClaim
  BY DEF IInv
<1> QED
  BY <1>1, Invariant, PTL

\* A deferred job is always one that requeue_deferred will find.
THEOREM DeferredJobsReturn == Spec => []DeferredIsRequeueable
<1>1. IInv => DeferredIsRequeueable
  BY DEF IInv
<1> QED
  BY <1>1, Invariant, PTL

\* A settled row is never touched again: not by a process that lost its claim,
\* a recovery, a redelivery or a restart.
THEOREM SettledRowsAreFrozen == Spec => SettledForever
<1>1. IInv /\ [Next]_vars => [\A d \in Delivery : Settled(d) => jobs'[d] = jobs[d]]_vars
  <2> SUFFICES ASSUME IInv, [Next]_vars
               PROVE  \A d \in Delivery : Settled(d) => jobs'[d] = jobs[d]
    OBVIOUS
  <2> QED
    BY NextPreserves DEF Grows, JobsMonotone
<1> QED
  BY <1>1, Invariant, PTL DEF Spec, SettledForever

-----------------------------------------------------------------------------
(* One process per database, the deployment of docker-compose.yml: a claim *)
(* is never lost, so neither is a result.  The argument is that the only   *)
(* process that could recover its claim is the one that is inside          *)
(* process_one.                                                            *)


\* The rows that are running stay as they are.
RunningKept ==
    \A d \in Delivery : Running(d) =>
        jobs'[d].status = "running" /\ jobs'[d].attempts = jobs[d].attempts

LEMMA EnqueueKeepsRunning ==
  ASSUME NEW d \in Delivery, StateTypeOK, Enqueue(d)
  PROVE  RunningKept
  BY DEF RunningKept, Running, Enqueue, StateTypeOK

LEMMA RequeueKeepsRunning ==
  ASSUME StateTypeOK, RequeueDeferred
  PROVE  RunningKept
  BY DEF RunningKept, Running, RequeueDeferred, Requeueable, StateTypeOK

LEMMA AgeKeepsRunning ==
  ASSUME StateTypeOK, AgeJobs
  PROVE  RunningKept
<1> SUFFICES ASSUME NEW d \in Delivery, Running(d)
             PROVE  jobs'[d].status = "running" /\ jobs'[d].attempts = jobs[d].attempts
  BY DEF RunningKept
<1>1. jobs'[d] = [jobs[d] EXCEPT !.age = Older(jobs[d].age, OldAge)]
  BY DEF AgeJobs
<1> QED
  BY <1>1 DEF StateTypeOK, Row, Running

\* What a step of the only process, or of its environment, does to its claim.
LEMMA ClaimStaysCurrent ==
  ASSUME \A v, w \in Workers : v = w, IInv, ClaimIsCurrent, [Next]_vars
  PROVE  ClaimIsCurrent'
<1>t. TypeOK /\ StateTypeOK /\ work \in [Workers -> Work \cup {NoWork}]
      /\ pc \in [Workers -> Steps]
  BY DEF IInv, TypeOK
\* It loses the claim, or keeps it while running rows are kept.
<1>1. ASSUME \A w \in Workers : work'[w] = NoWork
      PROVE  ClaimIsCurrent'
  BY <1>1 DEF ClaimIsCurrent, Holds
<1>2. ASSUME RunningKept,
             \A w \in Workers : work'[w] # NoWork =>
                 /\ work[w] # NoWork
                 /\ work'[w].job = work[w].job /\ work'[w].attempt = work[w].attempt
      PROVE  ClaimIsCurrent'
  BY <1>2 DEF ClaimIsCurrent, Holds, Running, RunningKept
<1>3. ASSUME UNCHANGED jobs
      PROVE  RunningKept
  BY <1>3 DEF RunningKept, Running
<1>4. ASSUME UNCHANGED <<jobs, work>>
      PROVE  ClaimIsCurrent'
  BY <1>2, <1>3, <1>4
<1>5. ASSUME NEW w \in Workers, Step(w)
      PROVE  ClaimIsCurrent'
  <2>o. \A v \in Workers : v = w
    OBVIOUS
  <2>i. pc[w] \notin Busy => work = [v \in Workers |-> NoWork]
    BY <1>t, <2>o DEF IInv, BusyIffWorking
  <2>b. pc[w] \in Busy => work[w] \in Work /\ work[w].job \in Delivery
    BY <1>t, HeadType DEF IInv, BusyIffWorking
  <2>1. CASE Recover(w)
    BY <1>1, <2>1, <2>i DEF Recover, Busy
  <2>2. CASE Requeue(w)
    BY <1>2, <1>t, <2>2, RequeueKeepsRunning DEF Requeue
  <2>3. CASE \/ Beat(w) \/ (\E ps \in SUBSET Enabled : Poll(w, ps) \/ PollFails(w, ps))
           \/ EndPoll(w) \/ EndCycle(w) \/ Review(w)
    BY <1>4, <2>3 DEF Beat, Heartbeat, Poll, PollFails, EndPoll, EndCycle, Review, stateVars
  <2>4. ASSUME NEW d \in Delivery, EnqueuePolled(w, d)
        PROVE  ClaimIsCurrent'
    BY <1>2, <1>t, <2>4, EnqueueKeepsRunning DEF EnqueuePolled
  <2>5. ASSUME NEW d \in Delivery, Claim(w, d)
        PROVE  ClaimIsCurrent'
    <3>1. work'[w] = Claimed(d)
      BY <1>t, <2>5 DEF Claim
    <3>0. PICK waited \in 0 .. LockWait : ClaimNext(d, waited)
      BY <2>5 DEF Claim
    <3>2. jobs'[d] = [jobs[d] EXCEPT !.status = "running",
                                     !.attempts = jobs[d].attempts + 1, !.age = waited]
      BY <1>t, <3>0 DEF ClaimNext, StateTypeOK
    <3>3. jobs'[d].status = "running" /\ jobs'[d].attempts = jobs[d].attempts + 1
      BY <1>t, <3>2 DEF StateTypeOK, Row
    <3> QED
      BY <2>o, <3>1, <3>3 DEF ClaimIsCurrent, Holds, Claimed, Running
  <2>6. ASSUME Done(w) \/ Die(w)
        PROVE  ClaimIsCurrent'
    BY <1>1, <1>t, <2>o, <2>6 DEF Done, Die
  \* The process reads, writes or remembers: its claim and the rows are as before.
  <2>7. ASSUME UNCHANGED jobs, work'[w].job = work[w].job, work'[w].attempt = work[w].attempt,
               pc[w] \in Busy
        PROVE  ClaimIsCurrent'
    <3>1. work[w] # NoWork
      BY <2>7 DEF IInv, BusyIffWorking
    <3> QED
      BY <1>2, <1>3, <2>o, <2>7, <3>1
  <2>8. CASE FetchHead(w)
    <3>1. work'[w] = [work[w] EXCEPT !.label = head[work[w].job.pr]] /\ pc[w] \in Busy
      BY <1>t, <2>8 DEF FetchHead, Busy
    <3>2. work'[w].job = work[w].job /\ work'[w].attempt = work[w].attempt
      BY <2>b, <3>1 DEF Work
    <3> QED
      BY <2>7, <2>8, <3>1, <3>2 DEF FetchHead, stateVars
  <2>9. CASE FetchDiff(w)
    <3>1. work'[w] = [work[w] EXCEPT !.diff = head[work[w].job.pr]] /\ pc[w] \in Busy
      BY <1>t, <2>9 DEF FetchDiff, Busy
    <3>2. work'[w].job = work[w].job /\ work'[w].attempt = work[w].attempt
      BY <2>b, <3>1 DEF Work
    <3> QED
      BY <2>7, <2>9, <3>1, <3>2 DEF FetchDiff, stateVars
  <2>10. CASE WriteResult(w)
    <3>1. work'[w] = [work[w] EXCEPT !.written = TRUE] /\ pc[w] \in Busy
      BY <1>t, <2>10 DEF WriteResult, Busy
    <3>2. work'[w].job = work[w].job /\ work'[w].attempt = work[w].attempt
      BY <2>b, <3>1 DEF Work
    <3> QED
      BY <2>7, <2>10, <3>1, <3>2 DEF WriteResult, WritePrivateResult
  <2>11. ASSUME NEW c \in FailureCodes, Handle(w, c), UNCHANGED stateVars, pc[w] \in Busy
         PROVE  ClaimIsCurrent'
    <3>1. work'[w] = [work[w] EXCEPT !.code = c]
      BY <1>t, <2>11 DEF Handle
    <3>2. work'[w].job = work[w].job /\ work'[w].attempt = work[w].attempt
      BY <2>11, <2>b, <3>1 DEF Work
    <3> QED
      BY <2>7, <2>11, <3>2 DEF stateVars
  <2>12. CASE FetchFails(w) \/ ReviewFails(w)
    BY <2>11, <2>12 DEF FetchFails, ReviewFails, Busy, FailureCodes
  <2>13. CASE DeferClaim(w) \/ FailClaim(w)
    BY <2>6, <2>13 DEF DeferClaim, FailClaim
  <2>14. CASE CompleteClaim(w)
    BY <2>6, <2>11, <2>14 DEF CompleteClaim, Busy, FailureCodes
  <2> QED
    BY <1>5, <2>1, <2>2, <2>3, <2>4, <2>5, <2>8, <2>9, <2>10, <2>12, <2>13, <2>14 DEF Step
<1>6. ASSUME UNCHANGED vars \/ (\E p \in PRs : Push(p))
             \/ (\E w \in Workers, m \in Modes : Start(w, m))
      PROVE  ClaimIsCurrent'
  BY <1>4, <1>6 DEF vars, Push, Start, stateVars, localVars
<1>7. ASSUME NEW d \in Delivery, NEW signed \in BOOLEAN, ReceiveWebhook(d, signed)
      PROVE  ClaimIsCurrent'
  BY <1>2, <1>7, <1>t, EnqueueKeepsRunning DEF ReceiveWebhook, localVars
<1>8. ASSUME NEW w \in Workers, Crash(w)
      PROVE  ClaimIsCurrent'
  BY <1>1, <1>8, <1>t DEF Crash, Die
<1>9. CASE Tick
  <2>1. ASSUME NEW w \in Workers, work'[w] # NoWork
        PROVE  /\ work[w] # NoWork
               /\ work'[w].job = work[w].job /\ work'[w].attempt = work[w].attempt
    <3>0. work[w] # NoWork
      BY <1>9, <2>1 DEF Tick
    <3>1. work[w] \in Work /\ work[w].age \in 0 .. Lease
      BY <1>t, <3>0 DEF Work
    <3>2. work'[w] = [work[w] EXCEPT !.age = Older(work[w].age, Lease)]
      BY <1>9, <3>0 DEF Tick
    <3>4. work'[w].job = work[w].job /\ work'[w].attempt = work[w].attempt
      BY <3>1, <3>2 DEF Work
    <3> QED
      BY <3>0, <3>4
  <2> QED
    BY <1>2, <1>9, <1>t, <2>1, AgeKeepsRunning DEF Tick
<1> QED
  BY <1>5, <1>6, <1>7, <1>8, <1>9 DEF Next

\* With one process, what it works on is always its own running claim: however
\* slow the review, whatever is redelivered, and across crashes and restarts.
THEOREM OneProcessKeepsItsClaim ==
  ASSUME \A v, w \in Workers : v = w
  PROVE  Spec => []ClaimIsCurrent
<1>1. Init => ClaimIsCurrent
  BY DEF Init, ClaimIsCurrent, Holds
<1>2. IInv /\ ClaimIsCurrent /\ [Next]_vars => ClaimIsCurrent'
  BY ClaimStaysCurrent
<1> QED
  BY <1>1, <1>2, Invariant, PTL DEF Spec

\* Only write_private_result touches the results directory.
LEMMA OnlyWriteResultWrites ==
  ASSUME [Next]_vars, \A w \in Workers : ~WriteResult(w)
  PROVE  UNCHANGED files
<1>1. ASSUME NEW w \in Workers, Step(w)
      PROVE  UNCHANGED files
  BY <1>1 DEF Step, Recover, RecoverExpiredClaims, Requeue, RequeueDeferred, Beat, Heartbeat,
     Poll, PollFails, EndPoll, EnqueuePolled, Enqueue, Claim, ClaimNext, EndCycle,
     DeferClaim, Defer, FetchHead, FetchDiff, FetchFails, Review, ReviewFails,
     CompleteClaim, Complete, FailClaim, Fail, Transition, stateVars
<1>2. CASE UNCHANGED vars \/ (\E p \in PRs : Push(p)) \/ Tick
           \/ (\E w \in Workers, m \in Modes : Start(w, m)) \/ (\E w \in Workers : Crash(w))
           \/ (\E d \in Delivery, signed \in BOOLEAN : ReceiveWebhook(d, signed))
  BY <1>2 DEF vars, Push, Tick, AgeJobs, Start, Crash, ReceiveWebhook, Enqueue, stateVars
<1> QED
  BY <1>1, <1>2 DEF Next

\* With one process, the review filed for a succeeded job is never replaced.
THEOREM OneProcessKeepsResults ==
  ASSUME \A v, w \in Workers : v = w
  PROVE  Spec => SettledResultKept
<1>1. IInv /\ ClaimIsCurrent /\ [Next]_vars =>
          [\A d \in Delivery : jobs[d].status = "succeeded" => files'[d] = files[d]]_vars
  <2> SUFFICES ASSUME IInv, ClaimIsCurrent, [Next]_vars, NEW d \in Delivery,
                      jobs[d].status = "succeeded"
               PROVE  files'[d] = files[d]
    OBVIOUS
  <2>1. ASSUME NEW w \in Workers, WriteResult(w)
        PROVE  files'[d] = files[d]
    <3>1. work[w] # NoWork /\ work[w] \in Work
      BY <2>1 DEF WriteResult, IInv, BusyIffWorking, Busy, TypeOK
    <3>2. Running(work[w].job)
      BY <3>1 DEF ClaimIsCurrent, Holds, Work
    <3> QED
      BY <2>1, <3>2 DEF WriteResult, WritePrivateResult, Running, IInv, TypeOK, StateTypeOK
  <2> QED
    BY <2>1, OnlyWriteResultWrites
<1> QED
  BY <1>1, Invariant, OneProcessKeepsItsClaim, PTL DEF Spec, SettledResultKept


-----------------------------------------------------------------------------
(* Any number of processes that are all live, or none of them: a claim is  *)
(* taken over only after its lease.  A database that live and other        *)
(* processes share does not keep that: a process whose lease has run out   *)
(* defers the claim that another one holds by now, and a live process      *)
(* requeues it at once.                                                    *)

AllLive == \A w \in Workers : ModesOf[w] \subseteq {"live"}
NoneLive == \A w \in Workers : "live" \notin ModesOf[w]

\* Only live processes requeue, and only the others defer.
ModesFollowed ==
    \A w \in Workers :
        /\ pc[w] # "down" => mode[w] \in ModesOf[w]
        /\ pc[w] = "requeue" => mode[w] = "live"
        /\ pc[w] = "defer" => mode[w] # "live"

NoneDeferred == \A d \in Delivery : jobs[d].status # "deferred"

\* A claim that is no longer the row's, or whose row is queued, has run out; that of a
\* running row is as old as the row says, but for the wait before it.
ClaimTimed(w) ==
    LET d == work[w].job IN
    /\ work[w].attempt < jobs[d].attempts => work[w].age >= Lease - LockWait
    /\ Queued(d) => work[w].age >= Lease - LockWait
    /\ Running(d) /\ work[w].attempt = jobs[d].attempts =>
           jobs[d].age <= work[w].age + LockWait

\* NoClaimWithinLease, made inductive.
TimedInv ==
    /\ ModesFollowed
    /\ AllLive => NoneDeferred
    /\ \A w \in Workers : work[w] # NoWork => ClaimTimed(w)

\* What may become of a row, when nothing is requeued and no time passes.
RowMoves(d) ==
    \/ jobs'[d] = jobs[d]
    \/ jobs[d].status = "absent" /\ jobs'[d].status = "queued"
    \/ /\ Queued(d) /\ jobs'[d].status = "running"
       /\ jobs'[d].attempts = jobs[d].attempts + 1
    \/ /\ Running(d) /\ jobs'[d].attempts = jobs[d].attempts
       /\ \/ jobs'[d].status \in {"succeeded", "failed"}
          \/ jobs'[d].status = "deferred" /\ \E w \in Workers : pc[w] = "defer"
          \/ jobs[d].age >= Lease /\ jobs'[d].status = "queued"

LEMMA EnqueueMoves ==
  ASSUME NEW e \in Delivery, StateTypeOK, Enqueue(e)
  PROVE  \A d \in Delivery : RowMoves(d)
  BY DEF RowMoves, Enqueue, StateTypeOK, Fresh

LEMMA ClaimMoves ==
  ASSUME NEW e \in Delivery, NEW waited \in 0 .. LockWait, StateTypeOK, ClaimNext(e, waited)
  PROVE  /\ \A d \in Delivery : RowMoves(d)
         /\ jobs'[e].status = "running"
         /\ jobs'[e].attempts = jobs[e].attempts + 1
         /\ jobs'[e].age = waited
<1>1. jobs'[e] = [jobs[e] EXCEPT !.status = "running", !.attempts = jobs[e].attempts + 1,
                                 !.age = waited]
  BY DEF ClaimNext, StateTypeOK
<1>2. /\ jobs'[e].status = "running" /\ jobs'[e].age = waited
      /\ jobs'[e].attempts = jobs[e].attempts + 1
  BY <1>1 DEF StateTypeOK, Row
<1>3. \A d \in Delivery : d # e => jobs'[d] = jobs[d]
  BY DEF ClaimNext, StateTypeOK
<1> QED
  BY <1>2, <1>3 DEF ClaimNext, Oldest, RowMoves

LEMMA TransitionMoves ==
  ASSUME NEW e \in Delivery, NEW s \in {"succeeded", "deferred", "failed"}, NEW c \in Code,
         StateTypeOK, Transition(e, s, c), s = "deferred" => \E w \in Workers : pc[w] = "defer"
  PROVE  \A d \in Delivery : RowMoves(d)
<1>1. jobs'[e] = [jobs[e] EXCEPT !.status = s, !.code = c, !.age = 0]
  BY DEF Transition, StateTypeOK
<1>2. jobs'[e].status = s /\ jobs'[e].attempts = jobs[e].attempts
  BY <1>1 DEF StateTypeOK, Row
<1>3. \A d \in Delivery : d # e => jobs'[d] = jobs[d]
  BY DEF Transition, StateTypeOK
<1> QED
  BY <1>2, <1>3 DEF Transition, CanTransition, RowMoves

LEMMA RecoverMoves ==
  ASSUME NEW waited \in 0 .. LockWait, StateTypeOK, RecoverExpiredClaims(waited)
  PROVE  \A d \in Delivery : RowMoves(d)
<1> SUFFICES ASSUME NEW d \in Delivery, Expired(d, waited)
             PROVE  RowMoves(d)
  BY DEF RecoverExpiredClaims, RowMoves
<1>1. jobs'[d] = [jobs[d] EXCEPT !.status = "queued", !.code = Recovered, !.age = 0]
  BY DEF RecoverExpiredClaims
<1>2. jobs'[d].status = "queued" /\ jobs'[d].attempts = jobs[d].attempts
  BY <1>1 DEF StateTypeOK, Row
<1>3. jobs[d].age >= Lease
  BY DEF Expired, StateTypeOK, Row
<1> QED
  BY <1>2, <1>3 DEF Expired, RowMoves

\* A live process finds nothing to requeue, and there is no other that would look.
LEMMA NothingRequeued ==
  ASSUME AllLive \/ NoneLive, TypeOK, TimedInv, NEW w \in Workers, Requeue(w)
  PROVE  \A d \in Delivery : jobs'[d] = jobs[d]
<1>1. mode[w] = "live" /\ "live" \in ModesOf[w]
  BY DEF Requeue, TimedInv, ModesFollowed
<1>2. NoneDeferred
  BY <1>1 DEF NoneLive, TimedInv
<1> QED
  BY <1>2 DEF Requeue, RequeueDeferred, Requeueable, NoneDeferred

LEMMA StepMovesRows ==
  ASSUME AllLive \/ NoneLive, IInv, TimedInv, NEW w \in Workers, Step(w)
  PROVE  \A d \in Delivery : RowMoves(d)
<1>t. TypeOK /\ StateTypeOK
  BY DEF IInv, TypeOK
<1>w. pc[w] \in Busy => work[w] \in Work /\ work[w].job \in Delivery /\ WorkConsistent(w)
  BY <1>t, HeadType DEF IInv, BusyIffWorking, TypeOK
<1>1. CASE UNCHANGED jobs
  BY <1>1 DEF RowMoves
<1>2. CASE Recover(w)
  BY <1>2, <1>t, RecoverMoves DEF Recover
<1>3. CASE Requeue(w)
  BY <1>3, <1>t, NothingRequeued DEF RowMoves
<1>4. ASSUME NEW e \in Delivery, EnqueuePolled(w, e)
      PROVE  \A d \in Delivery : RowMoves(d)
  BY <1>4, <1>t, EnqueueMoves DEF EnqueuePolled
<1>5. ASSUME NEW e \in Delivery, Claim(w, e)
      PROVE  \A d \in Delivery : RowMoves(d)
  BY <1>5, <1>t, ClaimMoves DEF Claim
<1>6. CASE DeferClaim(w)
  <2>1. DeferralCode(w) \in Code
    BY CodesAndStatuses DEF DeferralCode, PolicyCodes
  <2> QED
    BY <1>1, <1>6, <1>t, <1>w, <2>1, TransitionMoves DEF DeferClaim, Defer, Busy, stateVars
<1>7. CASE CompleteClaim(w)
  BY <1>1, <1>7, <1>t, <1>w, TransitionMoves, CodesAndStatuses
  DEF CompleteClaim, Complete, Busy, stateVars
<1>8. CASE FailClaim(w)
  <2>1. work[w].code \in Code
    BY <1>8, <1>w, CodesAndStatuses DEF FailClaim, Busy, WorkConsistent
  <2> QED
    BY <1>1, <1>8, <1>t, <1>w, <2>1, TransitionMoves DEF FailClaim, Fail, Busy, stateVars
<1>9. CASE \/ Beat(w) \/ (\E ps \in SUBSET Enabled : Poll(w, ps) \/ PollFails(w, ps))
           \/ EndPoll(w) \/ EndCycle(w) \/ FetchHead(w) \/ FetchDiff(w) \/ FetchFails(w)
           \/ Review(w) \/ ReviewFails(w) \/ WriteResult(w)
  BY <1>1, <1>9 DEF Beat, Heartbeat, Poll, PollFails, EndPoll, EndCycle, FetchHead, FetchDiff,
     FetchFails, Review, ReviewFails, WriteResult, WritePrivateResult, stateVars
<1> QED
  BY <1>2, <1>3, <1>4, <1>5, <1>6, <1>7, <1>8, <1>9 DEF Step

\* A process that keeps its claim while rows move keeps it timed.
LEMMA KeptTiming ==
  ASSUME IInv, TypeOK', NEW v \in Workers, work[v] # NoWork, ClaimTimed(v),
         work'[v].job = work[v].job, work'[v].attempt = work[v].attempt,
         work'[v].age = work[v].age, \A d \in Delivery : RowMoves(d)
  PROVE  ClaimTimed(v)'
<1> DEFINE d == work[v].job
<1>1. /\ d \in Delivery /\ work[v].attempt \in Nat
      /\ jobs[d].status # "absent" /\ work[v].attempt <= jobs[d].attempts
  BY DEF IInv, BusyIffWorking, WorkConsistent, TypeOK, Work
<1>2. jobs[d].attempts \in Nat /\ jobs'[d].attempts \in Nat
  BY <1>1 DEF IInv, TypeOK, StateTypeOK, Row
<1>3. RowMoves(d)
  BY <1>1
<1>4. work[v].age \in Nat /\ jobs[d].age \in Nat /\ Lease \in Nat /\ LockWait \in Nat
  BY <1>1 DEF IInv, TypeOK, Work, StateTypeOK, Row
<1>5. CASE jobs'[d] = jobs[d]
  BY <1>5 DEF ClaimTimed, Running, Queued
<1>6. CASE Queued(d)
  BY <1>1, <1>2, <1>3, <1>4, <1>6 DEF ClaimTimed, RowMoves, Running, Queued
<1>7. CASE Running(d) /\ jobs'[d] # jobs[d]
  <2>1. jobs'[d].attempts = jobs[d].attempts /\ jobs'[d].status # "running"
    BY <1>3, <1>7 DEF RowMoves, Running, Queued
  <2>2. jobs'[d].status = "queued" => jobs[d].age >= Lease
    BY <1>3, <1>7 DEF RowMoves, Running, Queued
  <2>3. work[v].attempt = jobs[d].attempts => jobs[d].age <= work[v].age + LockWait
    BY <1>7 DEF ClaimTimed
  <2>4. work[v].attempt < jobs[d].attempts => work[v].age >= Lease - LockWait
    BY DEF ClaimTimed
  <2> QED
    BY <1>1, <1>2, <1>4, <2>1, <2>2, <2>3, <2>4 DEF ClaimTimed, Running, Queued
<1> QED
  BY <1>1, <1>3, <1>5, <1>6, <1>7 DEF RowMoves

\* What process w itself has of its claim after its step.
LEMMA OwnClaim ==
  ASSUME IInv, NEW w \in Workers, Step(w), work'[w] # NoWork
  PROVE  \/ \E d \in Delivery : Claim(w, d)
         \/ /\ work[w] # NoWork
            /\ work'[w].job = work[w].job
            /\ work'[w].attempt = work[w].attempt
            /\ work'[w].age = work[w].age
<1>t. work \in [Workers -> Work \cup {NoWork}]
  BY DEF IInv, TypeOK
<1>w. pc[w] \in Busy => work[w] # NoWork /\ work[w] \in Work
  BY <1>t DEF IInv, BusyIffWorking
<1>1. CASE work'[w] = work[w]
  BY <1>1
<1>2. CASE \E d \in Delivery : Claim(w, d)
  BY <1>2
<1>3. ASSUME NEW h, pc[w] \in Busy,
             \/ work'[w] = [work[w] EXCEPT !.label = h] \/ work'[w] = [work[w] EXCEPT !.diff = h]
             \/ work'[w] = [work[w] EXCEPT !.code = h] \/ work'[w] = [work[w] EXCEPT !.written = h]
      PROVE  /\ work[w] # NoWork
             /\ work'[w].job = work[w].job
             /\ work'[w].attempt = work[w].attempt
             /\ work'[w].age = work[w].age
  BY <1>3, <1>w DEF Work
<1>4. CASE FetchHead(w) \/ FetchDiff(w) \/ WriteResult(w)
  <2> DEFINE h == head[work[w].job.pr]
  <2>1. \/ work'[w] = [work[w] EXCEPT !.label = h] \/ work'[w] = [work[w] EXCEPT !.diff = h]
        \/ work'[w] = [work[w] EXCEPT !.written = TRUE]
    BY <1>4, <1>t DEF FetchHead, FetchDiff, WriteResult
  <2>2. pc[w] \in Busy
    BY <1>4 DEF FetchHead, FetchDiff, WriteResult, Busy
  <2> HIDE DEF h
  <2> QED
    BY <1>3, <2>1, <2>2
<1>5. ASSUME NEW c, Handle(w, c), pc[w] \in Busy
      PROVE  /\ work[w] # NoWork
             /\ work'[w].job = work[w].job
             /\ work'[w].attempt = work[w].attempt
             /\ work'[w].age = work[w].age
  <2>1. work'[w] = [work[w] EXCEPT !.code = c]
    BY <1>5, <1>t DEF Handle
  <2> QED
    BY <1>3, <1>5, <2>1
<1>6. CASE FetchFails(w) \/ ReviewFails(w)
  BY <1>5, <1>6 DEF FetchFails, ReviewFails, Busy
<1>7. ~Done(w) /\ ~Die(w)
  BY <1>t DEF Done, Die
<1>8. CASE CompleteClaim(w)
  BY <1>5, <1>7, <1>8 DEF CompleteClaim, Busy
<1>9. CASE DeferClaim(w) \/ FailClaim(w)
  BY <1>7, <1>9 DEF DeferClaim, FailClaim
<1>10. CASE \/ Recover(w) \/ Requeue(w) \/ Beat(w)
            \/ (\E ps \in SUBSET Enabled : Poll(w, ps) \/ PollFails(w, ps))
            \/ (\E d \in Delivery : EnqueuePolled(w, d))
            \/ EndPoll(w) \/ EndCycle(w) \/ Review(w)
  BY <1>1, <1>10 DEF Recover, Requeue, Beat, Poll, PollFails, EnqueuePolled, EndPoll, EndCycle,
     Review
<1> QED
  BY <1>2, <1>4, <1>6, <1>8, <1>9, <1>10 DEF Step

\* The processes follow their modes.
LEMMA ModesStay ==
  ASSUME TypeOK, ModesFollowed, [Next]_vars
  PROVE  ModesFollowed'
<1> USE DEF TypeOK, ModesFollowed
<1>1. ASSUME NEW w \in Workers, Step(w)
      PROVE  ModesFollowed'
  <2>1. mode' = mode /\ pc[w] # "down" /\ (\A v \in Workers : v # w => pc'[v] = pc[v])
    BY <1>1 DEF Step, Recover, Requeue, Beat, Poll, PollFails, EnqueuePolled, EndPoll, Claim,
       EndCycle, DeferClaim, FetchHead, FetchDiff, FetchFails, Review, ReviewFails, WriteResult,
       CompleteClaim, FailClaim, Done, Die, Handle, GoTo
  <2>2. /\ pc'[w] = "requeue" => mode[w] = "live"
        /\ pc'[w] = "defer" => mode[w] # "live"
    BY <1>1 DEF Step, Recover, Requeue, Beat, Poll, PollFails, EnqueuePolled, EndPoll, Claim,
       EndCycle, DeferClaim, FetchHead, FetchDiff, FetchFails, Review, ReviewFails, WriteResult,
       CompleteClaim, FailClaim, Done, Die, Handle, GoTo
  <2> QED
    BY <2>1, <2>2
<1>2. ASSUME NEW w \in Workers, NEW m \in Modes, Start(w, m)
      PROVE  ModesFollowed'
  BY <1>2 DEF Start, GoTo
<1>3. ASSUME NEW w \in Workers, Crash(w)
      PROVE  ModesFollowed'
  BY <1>3 DEF Crash, Die, GoTo
<1>4. CASE UNCHANGED <<pc, mode>>
  BY <1>4
<1> QED
  BY <1>1, <1>2, <1>3, <1>4 DEF Next, Push, ReceiveWebhook, Tick, vars, localVars

\* Where all processes are live nothing is ever deferred.
LEMMA NoneDeferredStays ==
  ASSUME AllLive, TimedInv, \A d \in Delivery : RowMoves(d)
  PROVE  NoneDeferred'
<1>1. \A w \in Workers : pc[w] # "defer"
  BY DEF AllLive, TimedInv, ModesFollowed
<1> QED
  BY <1>1 DEF TimedInv, NoneDeferred, RowMoves

\* Rows and claims age together.
LEMMA TickTimed ==
  ASSUME IInv, TimedInv, Tick, NEW w \in Workers, work'[w] # NoWork
  PROVE  ClaimTimed(w)'
<1> DEFINE d == work[w].job
<1>1. work[w] # NoWork /\ work[w] \in Work /\ d \in Delivery /\ jobs[d] \in Row
  BY DEF Tick, IInv, TypeOK, Work, StateTypeOK
<1>2. work'[w] = [work[w] EXCEPT !.age = Older(work[w].age, Lease)]
  BY <1>1 DEF Tick
<1>3. /\ work'[w].job = d /\ work'[w].attempt = work[w].attempt
      /\ work'[w].age = Older(work[w].age, Lease)
  BY <1>1, <1>2 DEF Work
<1>4. /\ jobs'[d].status = jobs[d].status /\ jobs'[d].attempts = jobs[d].attempts
      /\ Running(d) => jobs'[d].age = Older(jobs[d].age, OldAge)
  BY <1>1 DEF Tick, AgeJobs, Row
<1>5. /\ Older(jobs[d].age, OldAge) <= Older(work[w].age, Lease) + LockWait
         \/ ~(jobs[d].age <= work[w].age + LockWait)
      /\ work[w].age >= Lease - LockWait => Older(work[w].age, Lease) >= Lease - LockWait
  BY <1>1 DEF Older, OldAge, Work, Row
<1> QED
  BY <1>1, <1>3, <1>4, <1>5 DEF TimedInv, ClaimTimed, Running, Queued

LEMMA StepTimed ==
  ASSUME AllLive \/ NoneLive, IInv, TimedInv, TypeOK', NEW w \in Workers, Step(w)
  PROVE  TimedInv'
<1>1. \A d \in Delivery : RowMoves(d)
  BY StepMovesRows
<1>2. ASSUME NEW v \in Workers, v # w, work'[v] # NoWork
      PROVE  ClaimTimed(v)'
  <2>1. work'[v] = work[v]
    BY <1>2 DEF Step, Recover, Requeue, Beat, Poll, PollFails, EnqueuePolled, EndPoll, Claim,
       EndCycle, DeferClaim, FetchHead, FetchDiff, FetchFails, Review, ReviewFails, WriteResult,
       CompleteClaim, FailClaim, Done, Die, Handle, IInv, TypeOK
  <2> QED
    BY <1>1, <1>2, <2>1, KeptTiming DEF TimedInv
<1>3. ASSUME work'[w] # NoWork
      PROVE  ClaimTimed(w)'
  <2>1. CASE \E d \in Delivery : Claim(w, d)
    <3>1. PICK d \in Delivery : Claim(w, d)
      BY <2>1
    <3>2. work'[w] = Claimed(d)
      BY <3>1 DEF Claim, IInv, TypeOK
    <3>3. /\ jobs'[d].status = "running" /\ jobs'[d].age \in 0 .. LockWait
          /\ jobs'[d].attempts = jobs[d].attempts + 1 /\ jobs[d].attempts \in Nat
      BY <3>1, ClaimMoves DEF Claim, IInv, TypeOK, StateTypeOK, Row
    <3> QED
      BY <3>2, <3>3 DEF ClaimTimed, Claimed, Running, Queued
  <2> QED
    BY <1>1, <1>3, <2>1, OwnClaim, KeptTiming DEF TimedInv
<1>4. ModesFollowed'
  BY ModesStay DEF IInv, TimedInv, Next
<1>5. AllLive => NoneDeferred'
  BY <1>1, NoneDeferredStays
<1> QED
  BY <1>2, <1>3, <1>4, <1>5 DEF TimedInv, AllLive

LEMMA NextTimed ==
  ASSUME AllLive \/ NoneLive, IInv, TimedInv, [Next]_vars, TypeOK'
  PROVE  TimedInv'
<1>1. ModesFollowed'
  BY ModesStay DEF IInv, TimedInv
<1>2. ASSUME \A d \in Delivery : RowMoves(d),
             \A v \in Workers : work'[v] = work[v] \/ work'[v] = NoWork
      PROVE  TimedInv'
  <2>1. AllLive => NoneDeferred'
    BY <1>2, NoneDeferredStays
  <2>2. ASSUME NEW v \in Workers, work'[v] # NoWork
        PROVE  ClaimTimed(v)'
    BY <1>2, <2>2, KeptTiming DEF TimedInv
  <2> QED
    BY <1>1, <2>1, <2>2 DEF TimedInv, AllLive
<1>3. ASSUME NEW d \in Delivery, NEW signed \in BOOLEAN, ReceiveWebhook(d, signed)
      PROVE  TimedInv'
  BY <1>2, <1>3, EnqueueMoves DEF ReceiveWebhook, localVars, IInv, TypeOK
<1>4. CASE \/ UNCHANGED vars \/ (\E p \in PRs : Push(p)) \/ (\E w \in Workers : Crash(w))
           \/ (\E w \in Workers, m \in Modes : Start(w, m))
  <2>1. UNCHANGED jobs
    BY <1>4 DEF vars, Push, Crash, Start, stateVars
  <2>2. \A v \in Workers : work'[v] = work[v] \/ work'[v] = NoWork
    BY <1>4 DEF vars, Push, Crash, Die, Start, localVars, IInv, TypeOK
  <2> QED
    BY <1>2, <2>1, <2>2 DEF RowMoves
<1>5. ASSUME NEW w \in Workers, Step(w)
      PROVE  TimedInv'
  BY <1>5, StepTimed
<1>6. CASE Tick
  <2>1. \A w \in Workers : work'[w] # NoWork => ClaimTimed(w)'
    BY <1>6, TickTimed
  <2>2. \A d \in Delivery : jobs'[d].status = jobs[d].status
    BY <1>6 DEF Tick, AgeJobs, IInv, TypeOK, StateTypeOK, Row
  <2> QED
    BY <1>1, <2>1, <2>2 DEF TimedInv, AllLive, NoneDeferred
<1> QED
  BY <1>3, <1>4, <1>5, <1>6 DEF Next

\* Where all processes are live, or none is, a job is claimed again under a process that
\* still works on it only when that process's own lease has run out.
THEOREM ClaimsWaitForTheLease ==
  ASSUME AllLive \/ NoneLive
  PROVE  Spec => []NoClaimWithinLease
<1>1. Init => TimedInv
  BY DEF Init, StateInit, Absent, TimedInv, ModesFollowed, NoneDeferred
<1>2. IInv /\ IInv' /\ TimedInv /\ [Next]_vars => TimedInv'
  BY NextTimed DEF IInv
<1>3. IInv /\ TimedInv => NoClaimWithinLease
  <2> SUFFICES ASSUME IInv, TimedInv, NEW v \in Workers, NEW w \in Workers, NEW d \in Delivery,
                      Holds(v, d), Holds(w, d), work[v].attempt < work[w].attempt
               PROVE  work[v].age >= Lease - LockWait
    BY DEF NoClaimWithinLease
  <2>1. /\ work[v].attempt \in Nat /\ work[w].attempt \in Nat /\ jobs[d].attempts \in Nat
        /\ work[w].attempt <= jobs[d].attempts
    BY DEF Holds, IInv, TypeOK, Work, StateTypeOK, Row, BusyIffWorking, WorkConsistent
  <2> QED
    BY <2>1 DEF TimedInv, ClaimTimed, Holds
<1> QED
  BY <1>1, <1>2, <1>3, Invariant, PTL DEF Spec

-----------------------------------------------------------------------------
(* Any number of processes, in any modes, until a lease runs out under one *)
(* of them: everybody works on its own running claim, which is not yet of  *)
(* an age that a recovery takes.                                           *)

CurrentInv ==
    overruns = 0 =>
        \A w \in Workers : work[w] # NoWork =>
            LET d == work[w].job IN
            /\ Running(d) /\ jobs[d].attempts = work[w].attempt
            /\ jobs[d].age < Lease

\* A claim within its lease is finished by its holder or left alone.
LEMMA StepKeepsRunning ==
  ASSUME IInv, NEW w \in Workers, Step(w), NEW d \in Delivery, Running(d), jobs[d].age < Lease
  PROVE  jobs'[d] = jobs[d] \/ (Holds(w, d) /\ work'[w] = NoWork)
<1>t. TypeOK /\ StateTypeOK
  BY DEF IInv, TypeOK
<1>w. pc[w] \in Busy => work[w] # NoWork /\ work[w] \in Work /\ work[w].job \in Delivery
  BY <1>t, HeadType DEF IInv, BusyIffWorking, TypeOK
<1>1. CASE UNCHANGED jobs
  BY <1>1
<1>2. CASE Recover(w)
  <2>1. PICK waited \in 0 .. LockWait : RecoverExpiredClaims(waited)
    BY <1>2 DEF Recover
  <2>2. ~Expired(d, waited)
    BY <1>t DEF Expired, StateTypeOK, Row
  <2> QED
    BY <2>1, <2>2 DEF RecoverExpiredClaims
<1>3. CASE Requeue(w)
  BY <1>3 DEF Requeue, RequeueDeferred, Requeueable, Running
<1>4. ASSUME NEW e \in Delivery, EnqueuePolled(w, e)
      PROVE  jobs'[d] = jobs[d]
  BY <1>4, <1>t DEF EnqueuePolled, Enqueue, Running, StateTypeOK
<1>5. ASSUME NEW e \in Delivery, Claim(w, e)
      PROVE  jobs'[d] = jobs[d]
  BY <1>5, <1>t DEF Claim, ClaimNext, Oldest, Queued, Running, StateTypeOK
<1>6. ASSUME NEW s, NEW c, pc[w] \in Busy, Transition(work[w].job, s, c), Done(w)
      PROVE  jobs'[d] = jobs[d] \/ (Holds(w, d) /\ work'[w] = NoWork)
  BY <1>6, <1>t, <1>w DEF Transition, Done, Holds, TypeOK, StateTypeOK
<1>7. CASE DeferClaim(w) \/ CompleteClaim(w) \/ FailClaim(w)
  BY <1>1, <1>6, <1>7 DEF DeferClaim, Defer, CompleteClaim, Complete, FailClaim, Fail, Busy,
     stateVars
<1>8. CASE \/ Beat(w) \/ (\E ps \in SUBSET Enabled : Poll(w, ps) \/ PollFails(w, ps))
           \/ EndPoll(w) \/ EndCycle(w) \/ FetchHead(w) \/ FetchDiff(w) \/ FetchFails(w)
           \/ Review(w) \/ ReviewFails(w) \/ WriteResult(w)
  BY <1>1, <1>8 DEF Beat, Heartbeat, Poll, PollFails, EndPoll, EndCycle, FetchHead, FetchDiff,
     FetchFails, Review, ReviewFails, WriteResult, WritePrivateResult, stateVars
<1> QED
  BY <1>2, <1>3, <1>4, <1>5, <1>7, <1>8 DEF Step

LEMMA StepCurrent ==
  ASSUME LockWait < Lease, IInv, TypeOK', CurrentInv, NEW w \in Workers, Step(w)
  PROVE  CurrentInv'
<1>o. overruns' = overruns
  BY DEF Step, Recover, Requeue, Beat, Poll, PollFails, EnqueuePolled, EndPoll, Claim,
     EndCycle, DeferClaim, FetchHead, FetchDiff, FetchFails, Review, ReviewFails, WriteResult,
     CompleteClaim, FailClaim
<1> SUFFICES ASSUME overruns = 0, NEW v \in Workers, work'[v] # NoWork
             PROVE  /\ jobs'[work'[v].job].status = "running"
                    /\ jobs'[work'[v].job].attempts = work'[v].attempt
                    /\ jobs'[work'[v].job].age < Lease
  BY <1>o DEF CurrentInv, Running
<1>1. CASE \E e \in Delivery : Claim(w, e) /\ v = w
  <2>1. PICK e \in Delivery : Claim(w, e) /\ v = w
    BY <1>1
  <2>2. PICK waited \in 0 .. LockWait : ClaimNext(e, waited)
    BY <2>1 DEF Claim
  <2>3. jobs'[e].status = "running" /\ jobs'[e].attempts = jobs[e].attempts + 1
        /\ jobs'[e].age = waited
    BY <2>2, ClaimMoves DEF IInv, TypeOK
  <2>4. work'[v] = Claimed(e)
    BY <2>1 DEF Claim, IInv, TypeOK
  <2> QED
    BY <2>3, <2>4 DEF Claimed, Running
<1>2. CASE ~(\E e \in Delivery : Claim(w, e)) \/ v # w
  <2>1. /\ work[v] # NoWork /\ work'[v].job = work[v].job
        /\ work'[v].attempt = work[v].attempt
    <3>1. CASE v = w
      BY <1>2, <3>1, OwnClaim
    <3>2. CASE v # w
      BY <3>2 DEF Step, Recover, Requeue, Beat, Poll, PollFails, EnqueuePolled, EndPoll, Claim,
         EndCycle, DeferClaim, FetchHead, FetchDiff, FetchFails, Review, ReviewFails, WriteResult,
         CompleteClaim, FailClaim, Done, Die, Handle, IInv, TypeOK
    <3> QED
      BY <3>1, <3>2
  <2> DEFINE d == work[v].job
  <2>2. d \in Delivery /\ Running(d) /\ jobs[d].attempts = work[v].attempt /\ jobs[d].age < Lease
    BY <2>1 DEF CurrentInv, IInv, TypeOK, Work
  <2>3. ~(Holds(w, d) /\ work'[w] = NoWork)
    <3> SUFFICES ASSUME Holds(w, d), work'[w] = NoWork
                 PROVE  FALSE
      OBVIOUS
    <3>1. jobs[d].attempts = work[w].attempt
      BY DEF CurrentInv, Holds
    <3>2. Holds(v, d)
      BY <2>1 DEF Holds
    <3> QED
      BY <2>2, <3>1, <3>2 DEF IInv, AttemptIdentifiesClaim
  <2>4. jobs'[d] = jobs[d]
    BY <2>2, <2>3, StepKeepsRunning
  <2> QED
    BY <2>1, <2>2, <2>4 DEF Running
<1> QED
  BY <1>1, <1>2

LEMMA NextCurrent ==
  ASSUME LockWait < Lease, IInv, TypeOK', CurrentInv, [Next]_vars
  PROVE  CurrentInv'
<1>t. TypeOK /\ StateTypeOK
  BY DEF IInv, TypeOK
<1>1. ASSUME UNCHANGED overruns,
             \A v \in Workers : work'[v] = work[v] \/ work'[v] = NoWork,
             \A d \in Delivery : Running(d) => jobs'[d] = jobs[d]
      PROVE  CurrentInv'
  <2> SUFFICES ASSUME overruns = 0, NEW v \in Workers, work'[v] # NoWork
               PROVE  /\ jobs'[work'[v].job].status = "running"
                      /\ jobs'[work'[v].job].attempts = work'[v].attempt
                      /\ jobs'[work'[v].job].age < Lease
    BY <1>1 DEF CurrentInv, Running
  <2>1. work'[v] = work[v] /\ work[v] \in Work /\ work[v].job \in Delivery
    BY <1>1, <1>t DEF TypeOK, Work
  <2> QED
    BY <1>1, <2>1 DEF CurrentInv, Running
<1>2. ASSUME NEW d \in Delivery, NEW signed \in BOOLEAN, ReceiveWebhook(d, signed)
      PROVE  CurrentInv'
  <2>1. \A e \in Delivery : Running(e) => jobs'[e] = jobs[e]
    BY <1>2, <1>t DEF ReceiveWebhook, Enqueue, Running, StateTypeOK
  <2> QED
    BY <1>1, <1>2, <2>1 DEF ReceiveWebhook, localVars
<1>3. CASE \/ UNCHANGED vars \/ (\E p \in PRs : Push(p)) \/ (\E w \in Workers : Crash(w))
           \/ (\E w \in Workers, m \in Modes : Start(w, m))
  <2>1. UNCHANGED <<jobs, overruns>>
    BY <1>3 DEF vars, Push, Crash, Start, stateVars
  <2>2. \A v \in Workers : work'[v] = work[v] \/ work'[v] = NoWork
    BY <1>3, <1>t DEF vars, Push, Crash, Die, Start, localVars, TypeOK
  <2> QED
    BY <1>1, <2>1, <2>2
<1>4. ASSUME NEW w \in Workers, Step(w)
      PROVE  CurrentInv'
  BY <1>4, StepCurrent
<1>5. CASE Tick
  <2> SUFFICES ASSUME overruns' = 0, NEW v \in Workers, work'[v] # NoWork
               PROVE  /\ jobs'[work'[v].job].status = "running"
                      /\ jobs'[work'[v].job].attempts = work'[v].attempt
                      /\ jobs'[work'[v].job].age < Lease
    BY DEF CurrentInv, Running
  <2> DEFINE d == work[v].job
  <2>1. overruns = 0 /\ Overrunning = {}
    BY <1>5, <1>t DEF Tick, TypeOK
  <2>2. work[v] # NoWork /\ work[v] \in Work /\ d \in Delivery /\ jobs[d] \in Row
    BY <1>5, <1>t DEF Tick, TypeOK, Work, StateTypeOK
  <2>3. work'[v] = [work[v] EXCEPT !.age = Older(work[v].age, Lease)]
    BY <1>5, <2>2 DEF Tick
  <2>4. work'[v].job = d /\ work'[v].attempt = work[v].attempt
    BY <2>2, <2>3 DEF Work
  <2>5. Running(d) /\ jobs[d].attempts = work[v].attempt /\ jobs[d].age < Lease
    BY <2>1, <2>2 DEF CurrentInv
  <2>6. jobs[d].age # Lease - 1
    BY <2>1, <2>2, <2>5 DEF Overrunning, Holds
  <2>7. jobs'[d] = [jobs[d] EXCEPT !.age = Older(jobs[d].age, OldAge)]
    BY <1>5, <2>2, <2>5 DEF Tick, AgeJobs
  <2>8. /\ jobs'[d].status = "running" /\ jobs'[d].attempts = jobs[d].attempts
        /\ jobs'[d].age = Older(jobs[d].age, OldAge)
    BY <2>2, <2>5, <2>7 DEF Row, Running
  <2>9. Older(jobs[d].age, OldAge) < Lease
    BY <2>2, <2>5, <2>6 DEF Older, Row
  <2> QED
    BY <2>4, <2>5, <2>8, <2>9
<1> QED
  BY <1>2, <1>3, <1>4, <1>5 DEF Next

\* For any number of processes in any modes, where a lease is longer than a wait for the
\* lock: until a lease runs out under a live process, each works on its own running
\* claim, whatever crashes, is deferred, requeued, recovered and claimed again.
THEOREM CurrentUntilOverrun ==
  ASSUME LockWait < Lease
  PROVE  Spec => []CurrentUnlessOverrun
<1>1. Init => CurrentInv
  BY DEF Init, CurrentInv
<1>2. IInv /\ IInv' /\ CurrentInv /\ [Next]_vars => CurrentInv'
  BY NextCurrent DEF IInv
<1>3. IInv /\ CurrentInv => CurrentUnlessOverrun
  BY DEF CurrentInv, CurrentUnlessOverrun, ClaimIsCurrent, Holds
<1> QED
  BY <1>1, <1>2, <1>3, Invariant, PTL DEF Spec

-----------------------------------------------------------------------------
(* RuntimeService implements ReviewLedger: every step of the processes is  *)
(* a step of the ledger or changes nothing the ledger sees.  The proof     *)
(* first reduces a step of the processes to the one statement it makes on  *)
(* the tables, then maps the statement.                                    *)

\* The four kinds of statement, as far as the ledger can tell them apart.
Stirs == JobsQuiet /\ JobsMonotone /\ UNCHANGED files
Inserts == \E d \in Delivery : Enqueue(d)
Finishes ==
    \E d \in Delivery, s \in {"succeeded", "deferred", "failed"}, c \in Code :
        Transition(d, s, c) /\ (s = "succeeded" => files[d] # NoFile)
Files ==
    \E d \in Delivery, l \in Heads, f \in Heads :
        jobs[d].status # "absent" /\ WritePrivateResult(d, l, f)

TableStep == Stirs \/ Inserts \/ Finishes \/ Files

LEMMA UnchangedStirs == ASSUME TypeOK, UNCHANGED <<jobs, files>> PROVE Stirs
  BY UnchangedJobs DEF Stirs, TypeOK

LEMMA StepIsTableStep ==
  ASSUME IInv, NEW w \in Workers, Step(w)
  PROVE  TableStep
<1>t. TypeOK /\ StateTypeOK
  BY DEF IInv, TypeOK
<1>w. pc[w] \in Busy =>
        work[w] \in Work /\ work[w].job \in Delivery /\ WorkConsistent(w)
  BY <1>t, HeadType DEF IInv, BusyIffWorking, TypeOK
<1>1. CASE Recover(w)
  BY <1>1, <1>t, RecoverMonotone DEF Recover, RecoverExpiredClaims, TableStep, Stirs
<1>2. CASE Requeue(w)
  BY <1>2, <1>t, RequeueMonotone DEF Requeue, RequeueDeferred, TableStep, Stirs
<1>3. CASE \/ Beat(w) \/ (\E ps \in SUBSET Enabled : Poll(w, ps) \/ PollFails(w, ps))
           \/ EndPoll(w) \/ EndCycle(w) \/ FetchHead(w)
           \/ FetchDiff(w) \/ FetchFails(w) \/ Review(w) \/ ReviewFails(w)
  BY <1>3, <1>t, UnchangedStirs DEF Beat, Heartbeat, Poll, PollFails, EndPoll, EndCycle,
     FetchHead, FetchDiff, FetchFails, Review, ReviewFails, stateVars, TableStep
<1>4. ASSUME NEW d \in Delivery, EnqueuePolled(w, d)
      PROVE  TableStep
  BY <1>4 DEF EnqueuePolled, TableStep, Inserts
<1>5. ASSUME NEW d \in Delivery, Claim(w, d)
      PROVE  TableStep
  BY <1>5, <1>t, ClaimNextMonotone DEF Claim, ClaimNext, TableStep, Stirs
<1>6. CASE DeferClaim(w)
  <2>1. DeferralCode(w) \in Code
    BY CodesAndStatuses DEF DeferralCode, PolicyCodes
  <2> QED
    BY <1>6, <1>t, <1>w, <2>1, UnchangedStirs
    DEF DeferClaim, Defer, Busy, stateVars, TableStep, Finishes
<1>7. CASE WriteResult(w)
  BY <1>7, <1>w DEF WriteResult, WorkConsistent, Busy, TableStep, Files
<1>8. CASE CompleteClaim(w)
  BY <1>8, <1>t, <1>w, CodesAndStatuses, UnchangedStirs
  DEF CompleteClaim, Complete, WorkConsistent, Busy, stateVars, TableStep, Finishes
<1>9. CASE FailClaim(w)
  <2>1. work[w].code \in Code
    BY <1>9, <1>w, CodesAndStatuses DEF FailClaim, WorkConsistent, Busy
  <2> QED
    BY <1>9, <1>t, <1>w, <2>1, UnchangedStirs
    DEF FailClaim, Fail, Busy, stateVars, TableStep, Finishes
<1> QED
  BY <1>1, <1>2, <1>3, <1>4, <1>5, <1>6, <1>7, <1>8, <1>9 DEF Step

LEMMA NextIsTableStep ==
  ASSUME IInv, [Next]_vars
  PROVE  TableStep
<1>t. TypeOK /\ StateTypeOK
  BY DEF IInv, TypeOK
<1>1. ASSUME UNCHANGED vars \/ (\E p \in PRs : Push(p))
             \/ (\E w \in Workers, m \in Modes : Start(w, m)) \/ (\E w \in Workers : Crash(w))
      PROVE  TableStep
  BY <1>1, <1>t, UnchangedStirs DEF vars, Push, Start, Crash, stateVars, TableStep
<1>2. ASSUME NEW d \in Delivery, NEW signed \in BOOLEAN, ReceiveWebhook(d, signed)
      PROVE  TableStep
  BY <1>2 DEF ReceiveWebhook, TableStep, Inserts
<1>3. ASSUME NEW w \in Workers, Step(w)
      PROVE  TableStep
  BY <1>3, StepIsTableStep
<1>4. CASE Tick
  BY <1>4, <1>t, AgeJobsMonotone DEF Tick, AgeJobs, TableStep, Stirs
<1> QED
  BY <1>1, <1>2, <1>3, <1>4 DEF Next

-----------------------------------------------------------------------------
LEMMA OutcomeAt ==
  \A d \in Delivery :
      LedgerOutcome[d] = IF Settled(d) THEN jobs[d].status
                         ELSE IF jobs[d].status = "absent" THEN "absent" ELSE "open"
  BY DEF LedgerOutcome

LEMMA TableStepIsLedgerStep ==
  ASSUME TypeOK, TypeOK', TableStep
  PROVE  [Ledger!Next]_<<LedgerOutcome, LedgerFiled>>
<1>t. StateTypeOK /\ StateTypeOK'
  BY DEF TypeOK
<1>1. CASE Stirs
  <2>1. \A d \in Delivery : Settled(d) <=> Settled(d)'
    BY <1>1 DEF Stirs, JobsQuiet, JobsMonotone, Settled
  <2>2. \A d \in Delivery : Settled(d) => jobs'[d] = jobs[d]
    BY <1>1 DEF Stirs, JobsMonotone
  <2>3. LedgerOutcome' = LedgerOutcome
    BY <1>1, <2>1, <2>2 DEF LedgerOutcome, Stirs, JobsQuiet
  <2> QED
    BY <1>1, <2>3 DEF Stirs, LedgerFiled
<1>2. CASE Inserts
  <2>1. PICK d \in Delivery : Enqueue(d)
    BY <1>2 DEF Inserts
  <2>2. CASE jobs[d].status = "absent"
    <3>1. LedgerOutcome' = [LedgerOutcome EXCEPT ![d] = "open"]
      <4>1. jobs'[d].status = "queued" /\ \A e \in Delivery : e # d => jobs'[e] = jobs[e]
        BY <1>t, <2>1, <2>2 DEF Enqueue, Fresh, StateTypeOK
      <4> QED
        BY <4>1 DEF LedgerOutcome, Settled
    <3>2. LedgerOutcome[d] = "absent"
      BY <2>2 DEF LedgerOutcome, Settled
    <3> QED
      BY <2>1, <3>1, <3>2 DEF Ledger!Next, Ledger!Accept, LedgerFiled, Enqueue
  <2>3. CASE jobs[d].status # "absent"
    BY <2>1, <2>3 DEF Enqueue, LedgerOutcome, LedgerFiled, Settled
  <2> QED
    BY <2>2, <2>3
<1>3. CASE Finishes
  <2>1. PICK d \in Delivery, s \in {"succeeded", "deferred", "failed"}, c \in Code :
             Transition(d, s, c) /\ (s = "succeeded" => files[d] # NoFile)
    BY <1>3 DEF Finishes
  <2>2. /\ jobs[d].status = "running" /\ jobs'[d].status = s
        /\ \A e \in Delivery : e # d => jobs'[e] = jobs[e]
    BY <1>t, <2>1, TransitionMonotone
  <2>3. LedgerFiled' = LedgerFiled
    BY <2>1 DEF Transition, LedgerFiled
  <2>4. LedgerOutcome[d] = "open"
    BY <2>2 DEF LedgerOutcome, Settled
  <2>5. CASE s = "deferred"
    <3>1. LedgerOutcome' = LedgerOutcome
      BY <2>2, <2>5 DEF LedgerOutcome, Settled
    <3> QED
      BY <2>3, <3>1
  <2>6. CASE s # "deferred"
    <3>1. LedgerOutcome' = [LedgerOutcome EXCEPT ![d] = s]
      BY <2>2, <2>6 DEF LedgerOutcome, Settled
    <3>2. s = "succeeded" => d \in LedgerFiled
      BY <2>1 DEF LedgerFiled
    <3> QED
      BY <2>3, <2>4, <2>6, <3>1, <3>2 DEF Ledger!Next, Ledger!Settle
  <2> QED
    BY <2>5, <2>6
<1>4. CASE Files
  <2>1. PICK d \in Delivery, l \in Heads, f \in Heads :
             jobs[d].status # "absent" /\ WritePrivateResult(d, l, f)
    BY <1>4 DEF Files
  <2>2. files'[d] # NoFile /\ \A e \in Delivery : e # d => files'[e] = files[e]
    BY <1>t, <2>1 DEF WritePrivateResult, StateTypeOK, NoFile, NoHead, Heads
  <2>3. LedgerFiled' = LedgerFiled \cup {d}
    BY <2>2 DEF LedgerFiled
  <2>4. LedgerOutcome' = LedgerOutcome /\ LedgerOutcome[d] # "absent"
    BY <2>1 DEF LedgerOutcome, WritePrivateResult, Settled
  <2> QED
    BY <2>3, <2>4 DEF Ledger!Next, Ledger!File
<1> QED
  BY <1>1, <1>2, <1>3, <1>4 DEF TableStep

\* The queue, shared by any number of processes that crash, restart and lose
\* their leases, accepts a delivery once and settles it once, as succeeded only
\* with a review filed: it implements the ledger.
THEOREM QueueImplementsLedger == Spec => ImplementsLedger
<1>1. Init => Ledger!Init
  BY DEF Init, StateInit, Absent, Ledger!Init, LedgerOutcome, LedgerFiled, Settled
<1>2. IInv /\ IInv' /\ [Next]_vars => [Ledger!Next]_<<LedgerOutcome, LedgerFiled>>
  BY NextIsTableStep, TableStepIsLedgerStep DEF IInv
<1> QED
  BY <1>1, <1>2, Invariant, PTL DEF Spec, ImplementsLedger, Ledger!Spec

=============================================================================
