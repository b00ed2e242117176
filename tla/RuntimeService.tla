--------------------------- MODULE RuntimeService ---------------------------
(***************************************************************************)
(* vanguarstew_runtime/service.py: processes that share one RuntimeState.  *)
(* Each runs run_once in a loop (serve), or once under a supervisor        *)
(* (run-once): recover, requeue, heartbeat, poll, then claim and review up *)
(* to MaxJobs jobs.  One action is one step of that loop between two       *)
(* places where another process, the HTTP thread or GitHub can intervene.  *)
(* A process may die anywhere (Crash), and dies by itself when a           *)
(* transition raises outside the handlers of _review.                      *)
(***************************************************************************)
EXTENDS RuntimeState

CONSTANTS
    Workers,      \* runtime processes on the same database
    ModesOf,      \* worker -> the configurations it may be started with
    Enabled,      \* pull requests of the locally allow-listed repositories
    Webhooks,     \* whether a webhook_secret is configured
    NoWork,       \* the locals of a process between two jobs
    MaxJobs,      \* max_jobs_per_cycle
    MaxAttempts,  \* bound on the attempts of a job
    MaxCrashes,   \* bound on the crashes of a behaviour
    MaxOverruns   \* bound on the leases that run out under a live process

\* dry: VANGUARSTEW_DRY_RUN.  noinfer: live, but can_run_inference is false.
Modes == {"dry", "noinfer", "live"}

ASSUME ServiceAssumption ==
    /\ ModesOf \in [Workers -> SUBSET Modes]
    /\ Enabled \subseteq PRs
    /\ Webhooks \in BOOLEAN
    /\ MaxJobs \in Nat \ {0}
    /\ MaxAttempts \in Nat
    /\ MaxCrashes \in Nat
    /\ MaxOverruns \in Nat

VARIABLES
    head,         \* GitHub: pull request -> its current head
    pc,           \* worker -> the step it is about to take
    mode,         \* worker -> the configuration of its process
    targets,      \* worker -> pull requests that its poll has not asked for yet
    listed,       \* worker -> deliveries of its poll that are not queued yet
    left,         \* worker -> jobs it may still claim in this cycle
    work,         \* worker -> the locals of process_one and _review
    crashes,
    overruns

localVars == <<pc, mode, targets, listed, left, work>>
vars == <<jobs, order, files, heartbeat, head, pc, mode, targets, listed, left,
          work, crashes, overruns>>

Steps == {"down", "recover", "requeue", "beat", "poll", "enqueue", "claim",
          "defer", "fetch", "diff", "review", "write", "complete", "fail"}

\* attempt is ReviewJob.attempts; age is the time since this worker got its claim,
\* which is later than the claimed_at it wrote by its wait for the lock;
\* label is head_sha of the metadata, diff the head whose diff was read;
\* written says that result_path is bound.
Work == [job : Delivery, attempt : Nat, age : 0 .. Lease,
         label : Heads \cup {NoHead}, diff : Heads \cup {NoHead},
         code : FailureCodes \cup {NoCode}, written : BOOLEAN]

ASSUME NoWorkAssumption == NoWork \notin Work

TypeOK ==
    /\ StateTypeOK
    /\ head \in [PRs -> Heads]
    /\ pc \in [Workers -> Steps]
    /\ mode \in [Workers -> Modes]
    /\ targets \in [Workers -> SUBSET PRs]
    /\ listed \in [Workers -> SUBSET Delivery]
    /\ left \in [Workers -> 0 .. MaxJobs]
    /\ work \in [Workers -> Work \cup {NoWork}]
    /\ crashes \in 0 .. MaxCrashes
    /\ overruns \in Nat

Init ==
    /\ StateInit
    /\ head = [p \in PRs |-> 0]
    /\ pc = [w \in Workers |-> "down"]
    /\ mode = [w \in Workers |-> "dry"]
    /\ targets = [w \in Workers |-> {}]
    /\ listed = [w \in Workers |-> {}]
    /\ left = [w \in Workers |-> 0]
    /\ work = [w \in Workers |-> NoWork]
    /\ crashes = 0
    /\ overruns = 0

Up(w) == pc[w] # "down"
Holds(w, d) == work[w] # NoWork /\ work[w].job = d
GoTo(w, step) == pc' = [pc EXCEPT ![w] = step]

-----------------------------------------------------------------------------
(* GitHub and the operator.                                                *)

Push(p) ==
    /\ head[p] < MaxHead
    /\ head' = [head EXCEPT ![p] = @ + 1]
    /\ UNCHANGED <<stateVars, localVars, crashes, overruns>>

\* Mutant: any repository the secret signs for.
AcceptsAnyRepository(d, signed) == Webhooks /\ signed

\* The guards of receive_webhook up to the enqueue: a secret, a signature that matches
\* and an allow-listed repository.  A delivery that they reject, or that is not of a
\* pull_request event, of another action or malformed, changes nothing.
Accepts(d, signed) == Webhooks /\ signed /\ d.pr \in Enabled

\* GitHub signs only what happened, but may deliver it late or again.
ReceiveWebhook(d, signed) ==
    /\ \E w \in Workers : Up(w)
    /\ d.via = "webhook"
    /\ signed => d.head <= head[d.pr]
    /\ Accepts(d, signed)
    /\ Enqueue(d)
    /\ UNCHANGED <<head, localVars, crashes, overruns>>

\* Mutant: a fresh process empties the results directory.
StartClearsResults(w, m) ==
    /\ pc[w] = "down"
    /\ m \in ModesOf[w]
    /\ GoTo(w, "recover")
    /\ mode' = [mode EXCEPT ![w] = m]
    /\ files' = [d \in Delivery |-> NoFile]
    /\ UNCHANGED <<jobs, order, heartbeat, head, targets, listed, left, work, crashes, overruns>>

Start(w, m) ==
    /\ pc[w] = "down"
    /\ m \in ModesOf[w]
    /\ GoTo(w, "recover")
    /\ mode' = [mode EXCEPT ![w] = m]
    /\ UNCHANGED <<stateVars, head, targets, listed, left, work, crashes, overruns>>

\* The process is gone with everything it kept in memory.
Die(w) ==
    /\ GoTo(w, "down")
    /\ targets' = [targets EXCEPT ![w] = {}]
    /\ listed' = [listed EXCEPT ![w] = {}]
    /\ left' = [left EXCEPT ![w] = 0]
    /\ work' = [work EXCEPT ![w] = NoWork]
    /\ UNCHANGED mode

\* A crash, a stop, the end of a run-once, or an exception that no handler names.
Crash(w) ==
    /\ Up(w)
    /\ crashes < MaxCrashes
    /\ crashes' = crashes + 1
    /\ Die(w)
    /\ UNCHANGED <<stateVars, head, overruns>>

\* Live processes whose claim becomes recoverable with this tick.
Overrunning ==
    {w \in Workers : \E d \in Delivery :
        /\ Holds(w, d) /\ Running(d)
        /\ jobs[d].attempts = work[w].attempt /\ jobs[d].age = Lease - 1}

Tick ==
    /\ Overrunning # {} => overruns < MaxOverruns
    /\ overruns' = IF Overrunning # {} THEN overruns + 1 ELSE overruns
    /\ AgeJobs
    /\ work' = [w \in Workers |->
                  IF work[w] = NoWork THEN NoWork ELSE [work[w] EXCEPT !.age = Older(work[w].age, Lease)]]
    /\ UNCHANGED <<head, pc, mode, targets, listed, left, crashes>>

-----------------------------------------------------------------------------
(* run_once.                                                               *)

\* Mutant: run_once forgets to recover.
RecoverNothing(w) ==
    /\ pc[w] = "recover"
    /\ GoTo(w, IF mode[w] = "live" THEN "requeue" ELSE "beat")
    /\ UNCHANGED <<stateVars, head, mode, targets, listed, left, work, crashes, overruns>>

Recover(w) ==
    /\ pc[w] = "recover"
    /\ \E waited \in 0 .. LockWait : RecoverExpiredClaims(waited)
    /\ GoTo(w, IF mode[w] = "live" THEN "requeue" ELSE "beat")
    /\ UNCHANGED <<head, mode, targets, listed, left, work, crashes, overruns>>

Requeue(w) ==
    /\ pc[w] = "requeue"
    /\ RequeueDeferred
    /\ GoTo(w, "beat")
    /\ UNCHANGED <<head, mode, targets, listed, left, work, crashes, overruns>>

Beat(w) ==
    /\ pc[w] = "beat"
    /\ Heartbeat
    /\ GoTo(w, "poll")
    /\ targets' = [targets EXCEPT ![w] = IF mode[w] = "dry" THEN {} ELSE Enabled]
    /\ left' = [left EXCEPT ![w] = MaxJobs]
    /\ UNCHANGED <<head, mode, listed, work, crashes, overruns>>

\* The delivery id of a polled head.
PollDelivery(p) == [via |-> "poll", pr |-> p, head |-> head[p]]

\* list_open_pull_requests answered for one repository: ps are its pull requests.
Poll(w, ps) ==
    /\ pc[w] = "poll"
    /\ ps # {} /\ ps \subseteq targets[w]
    /\ listed' = [listed EXCEPT ![w] = {PollDelivery(p) : p \in ps}]
    /\ targets' = [targets EXCEPT ![w] = @ \ ps]
    /\ GoTo(w, "enqueue")
    /\ UNCHANGED <<stateVars, head, mode, left, work, crashes, overruns>>

\* It raised GitHubError: the repository is skipped until the next cycle.
PollFails(w, ps) ==
    /\ pc[w] = "poll"
    /\ ps # {} /\ ps \subseteq targets[w]
    /\ targets' = [targets EXCEPT ![w] = @ \ ps]
    /\ UNCHANGED <<stateVars, head, pc, mode, listed, left, work, crashes, overruns>>

EnqueuePolled(w, d) ==
    /\ pc[w] = "enqueue"
    /\ d \in listed[w]
    /\ Enqueue(d)
    /\ listed' = [listed EXCEPT ![w] = @ \ {d}]
    /\ GoTo(w, IF listed[w] = {d} THEN "poll" ELSE "enqueue")
    /\ UNCHANGED <<head, mode, targets, left, work, crashes, overruns>>

\* Every repository has been asked, or dry_run asks none.
EndPoll(w) ==
    /\ pc[w] = "poll"
    /\ targets[w] = {}
    /\ GoTo(w, "claim")
    /\ UNCHANGED <<stateVars, head, mode, targets, listed, left, work, crashes, overruns>>

-----------------------------------------------------------------------------
(* process_one and _review.                                                *)

Claimed(d) ==
    [job |-> d, attempt |-> jobs[d].attempts + 1, age |-> 0, label |-> NoHead,
     diff |-> NoHead, code |-> NoCode, written |-> FALSE]

Claim(w, d) ==
    /\ pc[w] = "claim"
    /\ left[w] > 0
    /\ jobs[d].attempts < MaxAttempts
    /\ \E waited \in 0 .. LockWait : ClaimNext(d, waited)
    /\ work' = [work EXCEPT ![w] = Claimed(d)]
    /\ left' = [left EXCEPT ![w] = @ - 1]
    /\ GoTo(w, IF mode[w] = "live" THEN "fetch" ELSE "defer")
    /\ UNCHANGED <<head, mode, targets, listed, crashes, overruns>>

\* The queue is empty, or the cycle has used its jobs: wait and run_once again.
EndCycle(w) ==
    /\ pc[w] = "claim"
    /\ left[w] = 0 \/ \A d \in Delivery : ~Queued(d)
    /\ GoTo(w, "recover")
    /\ left' = [left EXCEPT ![w] = 0]
    /\ UNCHANGED <<stateVars, head, mode, targets, listed, work, crashes, overruns>>

\* process_one returns and run_once goes on to the next job.
Done(w) ==
    /\ GoTo(w, "claim")
    /\ work' = [work EXCEPT ![w] = NoWork]
    /\ UNCHANGED <<mode, targets, listed, left>>

\* Mutant: a code that requeue_deferred does not know.
DeferralCodeRenamed(w) == IF mode[w] = "dry" THEN "dry-run" ELSE "inference-disabled"

DeferralCode(w) ==
    IF mode[w] = "dry" THEN "dry-run" ELSE "inference-not-explicitly-enabled"

\* process_one defers outside any handler: "job is not running" ends the process.
DeferClaim(w) ==
    /\ pc[w] = "defer"
    /\ \/ Defer(work[w].job, DeferralCode(w)) /\ Done(w)
       \/ ~CanTransition(work[w].job) /\ Die(w) /\ UNCHANGED stateVars
    /\ UNCHANGED <<head, crashes, overruns>>

\* Mutant: the metadata may come from a cache.
FetchHeadCached(w) ==
    /\ pc[w] = "fetch"
    /\ work' = [work EXCEPT ![w].label = 0]
    /\ GoTo(w, "diff")
    /\ UNCHANGED <<stateVars, head, mode, targets, listed, left, crashes, overruns>>

\* The pull request's metadata, with the head that the result will be filed under.
FetchHead(w) ==
    /\ pc[w] = "fetch"
    /\ work' = [work EXCEPT ![w].label = head[work[w].job.pr]]
    /\ GoTo(w, "diff")
    /\ UNCHANGED <<stateVars, head, mode, targets, listed, left, crashes, overruns>>

\* Mutant: the diff is what was read first, the metadata last.
FetchDiffFirst(w) ==
    /\ pc[w] = "diff"
    /\ work' = [work EXCEPT ![w].diff = work[w].label, ![w].label = head[work[w].job.pr]]
    /\ GoTo(w, "review")
    /\ UNCHANGED <<stateVars, head, mode, targets, listed, left, crashes, overruns>>

\* The files and the diff, in later requests.
FetchDiff(w) ==
    /\ pc[w] = "diff"
    /\ work' = [work EXCEPT ![w].diff = head[work[w].job.pr]]
    /\ GoTo(w, "review")
    /\ UNCHANGED <<stateVars, head, mode, targets, listed, left, crashes, overruns>>

Review(w) ==
    /\ pc[w] = "review"
    /\ GoTo(w, "write")
    /\ UNCHANGED <<stateVars, head, mode, targets, listed, left, work, crashes, overruns>>

WriteResult(w) ==
    /\ pc[w] = "write"
    /\ WritePrivateResult(work[w].job, work[w].label, work[w].diff)
    /\ work' = [work EXCEPT ![w].written = TRUE]
    /\ GoTo(w, "complete")
    /\ UNCHANGED <<head, mode, targets, listed, left, crashes, overruns>>

\* The exception handlers of _review: remember the code and go on to fail.
Handle(w, code) ==
    /\ work' = [work EXCEPT ![w].code = code]
    /\ GoTo(w, "fail")
    /\ UNCHANGED <<mode, targets, listed, left>>

FetchFails(w) ==
    /\ pc[w] \in {"fetch", "diff"}
    /\ Handle(w, "github-read-failed")
    /\ UNCHANGED <<stateVars, head, crashes, overruns>>

ReviewFails(w) ==
    /\ pc[w] \in {"review", "write"}
    /\ Handle(w, "private-review-failed")
    /\ UNCHANGED <<stateVars, head, crashes, overruns>>

\* complete raises ValueError for a row that is not running, and the handler of
\* the same try takes it for a failed review.
CompleteClaim(w) ==
    /\ pc[w] = "complete"
    /\ \/ Complete(work[w].job) /\ Done(w)
       \/ ~CanTransition(work[w].job) /\ Handle(w, "private-review-failed") /\ UNCHANGED stateVars
    /\ UNCHANGED <<head, crashes, overruns>>

\* fail raises inside the handler: nothing catches it and the process ends.
FailClaim(w) ==
    /\ pc[w] = "fail"
    /\ \/ Fail(work[w].job, work[w].code) /\ Done(w)
       \/ ~CanTransition(work[w].job) /\ Die(w) /\ UNCHANGED stateVars
    /\ UNCHANGED <<head, crashes, overruns>>

-----------------------------------------------------------------------------
Step(w) ==
    \/ Recover(w) \/ Requeue(w) \/ Beat(w)
    \/ (\E ps \in SUBSET Enabled : Poll(w, ps) \/ PollFails(w, ps))
    \/ (\E d \in Delivery : EnqueuePolled(w, d)) \/ EndPoll(w)
    \/ (\E d \in Delivery : Claim(w, d)) \/ EndCycle(w) \/ DeferClaim(w)
    \/ FetchHead(w) \/ FetchDiff(w) \/ FetchFails(w)
    \/ Review(w) \/ ReviewFails(w) \/ WriteResult(w)
    \/ CompleteClaim(w) \/ FailClaim(w)

Next ==
    \/ \E p \in PRs : Push(p)
    \/ \E d \in Delivery, signed \in BOOLEAN : ReceiveWebhook(d, signed)
    \/ \E w \in Workers, m \in Modes : Start(w, m)
    \/ \E w \in Workers : Crash(w) \/ Step(w)
    \/ Tick

Spec == Init /\ [][Next]_vars

\* Every call of the loop returns (GitHub and inference requests time out), the
\* supervisor restarts the process, time passes, and GitHub is not down for ever.
Fairness ==
    /\ WF_vars(Tick)
    /\ \A w \in Workers : /\ WF_vars(Step(w))
                          /\ WF_vars(\E m \in Modes : Start(w, m))
                          /\ \A p \in Enabled :
                                 SF_vars(\E ps \in SUBSET Enabled : p \in ps /\ Poll(w, ps))

FairSpec == Spec /\ Fairness

-----------------------------------------------------------------------------
(* Safety.                                                                 *)

Settled(d) == jobs[d].status \in {"succeeded", "failed"}

\* A job is marked succeeded only when its private result is on disk: no crash
\* between write_private_result and complete, and no process that finishes the
\* claim of another, leaves a success without a review.
SucceededHasResult ==
    \A d \in Delivery : jobs[d].status = "succeeded" => files[d] # NoFile

\* The review kept for a delivery is of its head or a later one, although the
\* head moves between the delivery, the claim and the reads, and although a
\* process that lost its claim may still overwrite the file.
ResultCoversDelivery ==
    \A d \in Delivery : files[d] # NoFile => files[d].label >= d.head

\* reviewed_head_sha never names a head newer than the diff that was reviewed:
\* fetch_pull_request reads the metadata first and the diff last.
LabelNotAheadOfDiff ==
    \A d \in Delivery : files[d] # NoFile => files[d].label <= files[d].diff

\* Every job is for a head that an allow-listed pull request really had.
JobsAreGenuine ==
    \A d \in Delivery : jobs[d].status # "absent" => d.pr \in Enabled /\ d.head <= head[d.pr]

\* A deferred row always carries a code that requeue_deferred looks for, so no
\* signed delivery is parked where enabling inference will not find it.
DeferredIsRequeueable ==
    \A d \in Delivery : jobs[d].status = "deferred" => Requeueable(d)

\* The attempt number of a claim belongs to one process: claim_next never hands
\* the same claim to two of them, whatever was recovered or requeued between.
AttemptIdentifiesClaim ==
    \A v, w \in Workers : \A d \in Delivery :
        Holds(v, d) /\ Holds(w, d) /\ work[v].attempt = work[w].attempt => v = w

\* A job is claimed again under a process that still works on it only when that
\* process has had it for its lease, less what it waited for the lock after it read
\* the time that became claimed_at.
NoClaimWithinLease ==
    \A v, w \in Workers : \A d \in Delivery :
        Holds(v, d) /\ Holds(w, d) /\ work[v].attempt < work[w].attempt
            => work[v].age >= Lease - LockWait

\* What a process works on is its own running claim.  It holds for one process
\* per database, whatever crashes and however slow a review is: no lease can be
\* recovered while the only process that recovers is busy.
ClaimIsCurrent ==
    \A w \in Workers : \A d \in Delivery :
        Holds(w, d) => Running(d) /\ jobs[d].attempts = work[w].attempt

\* Until a lease runs out under a live process, the same holds for any number of
\* processes, whatever crashes: no process reviews, files or settles a job that is not
\* its own claim any more.
CurrentUnlessOverrun == overruns = 0 => ClaimIsCurrent

\* succeeded and failed are final for the row: a late completion, a recovery or a
\* redelivery of the same webhook or head never reopens or rewrites it.
SettledForever ==
    [][\A d \in Delivery : Settled(d) => jobs'[d] = jobs[d]]_vars

\* With one process per database the review filed for a succeeded job is never
\* replaced.  (With two, a process that lost its claim can replace it.)
SettledResultKept ==
    [][\A d \in Delivery : jobs[d].status = "succeeded" => files'[d] = files[d]]_vars

-----------------------------------------------------------------------------
(* The inductive invariant behind the safety properties.                   *)

Busy == {"defer", "fetch", "diff", "review", "write", "complete", "fail"}

\* A process has the locals of process_one exactly while it is inside it.
BusyIffWorking == \A w \in Workers : pc[w] \in Busy <=> work[w] # NoWork

\* What a process has claimed, read and written so far.
WorkConsistent(w) ==
    LET d == work[w].job IN
    /\ jobs[d].status # "absent"
    /\ work[w].attempt <= jobs[d].attempts
    /\ pc[w] \in {"diff", "review", "write", "complete"} =>
           work[w].label \in Heads /\ d.head <= work[w].label /\ work[w].label <= head[d.pr]
    /\ pc[w] \in {"review", "write", "complete"} =>
           work[w].diff \in Heads /\ work[w].label <= work[w].diff
    /\ pc[w] = "complete" => files[d] # NoFile
    /\ pc[w] = "fail" => work[w].code \in FailureCodes

\* A poll lists heads that the pull requests had when it was answered.
ListedAreGenuine ==
    \A w \in Workers : \A d \in listed[w] : d.pr \in Enabled /\ d.head <= head[d.pr]

FiledAreJobs == \A d \in Delivery : files[d] # NoFile => jobs[d].status # "absent"

\* Everything above that every configuration keeps, and what makes it inductive:
\* the locals of each process agree with the row, the file and the pull request.
IInv ==
    /\ TypeOK
    /\ BusyIffWorking
    /\ \A w \in Workers : pc[w] \in Busy => WorkConsistent(w)
    /\ ListedAreGenuine
    /\ FiledAreJobs
    /\ SucceededHasResult
    /\ ResultCoversDelivery
    /\ LabelNotAheadOfDiff
    /\ JobsAreGenuine
    /\ DeferredIsRequeueable
    /\ AttemptIdentifiesClaim

-----------------------------------------------------------------------------
(* Liveness, once the operator has the processes live for good.            *)

LiveForGood == <>[](\A w \in Workers : mode[w] = "live")

\* "A dry-run installation must not silently discard a signed webhook or poll
\* result" (requeue_deferred): every job, deferred, crashed or waiting, is
\* reviewed or failed in the end.
JobsSettle ==
    LiveForGood => \A d \in Delivery : jobs[d].status # "absent" ~> Settled(d)

\* Polling makes up for webhooks that never come: the head of an allow-listed
\* pull request is queued, or has already moved on.
PolledHeadsQueued ==
    LiveForGood =>
        \A d \in Delivery :
            d.via = "poll" /\ d.pr \in Enabled /\ head[d.pr] = d.head
                ~> jobs[d].status # "absent" \/ head[d.pr] # d.head

-----------------------------------------------------------------------------
(* What the comments of the code say and two processes do not keep.        *)

\* The handler that fails a job as private-review-failed "covers transport/model
\* failures and malformed provider output": not a review that was written.
FailsOnlyFailedReviews ==
    [][\A w \in Workers : \A d \in Delivery :
          pc[w] = "fail" /\ Holds(w, d) /\ work[w].written /\ pc'[w] # "fail"
              => ~(Running(d) /\ jobs'[d].status = "failed")]_vars

-----------------------------------------------------------------------------
\* What the queue promises to those who deliver to it: ReviewLedger.
LedgerOutcome ==
    [d \in Delivery |->
        IF Settled(d) THEN jobs[d].status
        ELSE IF jobs[d].status = "absent" THEN "absent" ELSE "open"]
LedgerFiled == {d \in Delivery : files[d] # NoFile}

Ledger == INSTANCE ReviewLedger WITH outcome <- LedgerOutcome, filed <- LedgerFiled

\* The queue, shared by any number of processes, implements the ledger.
ImplementsLedger == Ledger!Spec
=============================================================================
