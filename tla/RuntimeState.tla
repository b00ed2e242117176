---------------------------- MODULE RuntimeState ----------------------------
(***************************************************************************)
(* The durable queue of vanguarstew_runtime/state.py: the SQLite table of  *)
(* review jobs, the heartbeat row and the directory of private results.    *)
(* Every operator below is one SQL statement, one explicit transaction or  *)
(* one os.replace, which is the atomicity the code has; the processes that *)
(* call them are in RuntimeService.                                        *)
(*                                                                         *)
(* A job is named by its delivery id, which the table keeps UNIQUE.        *)
(*                                                                         *)
(* Every operation reads the clock before it waits for the database, up to *)
(* the busy timeout: what it writes or compares is as old as that wait.    *)
(* So created_at may be out of the order of the ids, the row's claimed_at  *)
(* (modelled by its age, the ticks since then) may start before the claim, *)
(* and the cutoff of a recovery may be behind.  Ages are saturated where   *)
(* no cutoff distinguishes them.  result_path is left out: complete sets   *)
(* it, defer and fail null it, so it is set exactly on succeeded rows.     *)
(***************************************************************************)
EXTENDS Integers, Sequences, SequencesExt

CONSTANTS
    PRs,          \* pull requests that GitHub may mention
    MaxHead,      \* bound: how often the head of a pull request moves
    Lease,        \* ticks after which a running claim may be recovered
    LockWait      \* bound: ticks that a statement waits for the database

ASSUME StateAssumption ==
    /\ MaxHead \in Nat
    /\ Lease \in Nat \ {0}
    /\ LockWait \in Nat

VARIABLES
    jobs,         \* delivery -> row of the jobs table
    order,        \* the deliveries that have a row, by created_at and id
    files,        \* delivery -> private-review-results/review-<id>.json
    heartbeat     \* whether runtime_meta holds a heartbeat

stateVars == <<jobs, order, files, heartbeat>>

Heads == 0 .. MaxHead
NoHead == -1

\* webhook:<sha256 of the body>, or poll:<repository>:<number>:<head>.  A body
\* names one event of one pull request, so a redelivery has the same body.
Delivery == [via : {"webhook", "poll"}, pr : PRs, head : Heads]

PolicyCodes == {"dry-run", "inference-not-explicitly-enabled"}
FailureCodes == {"github-read-failed", "private-review-failed"}
NoCode == "none"
Recovered == "claim-lease-expired"

Status == {"absent", "queued", "running", "succeeded", "deferred", "failed"}

Code == PolicyCodes \cup FailureCodes \cup {NoCode, Recovered}

\* The age at which every recovery finds a claim.
OldAge == Lease + LockWait

Row == [status : Status, attempts : Nat, age : 0 .. OldAge, code : Code]

Absent == [status |-> "absent", attempts |-> 0, age |-> 0, code |-> NoCode]

\* The row that an INSERT makes.
Fresh == [status |-> "queued", attempts |-> 0, age |-> 0, code |-> NoCode]

NoFile == [label |-> NoHead, diff |-> NoHead]
File == [label : Heads, diff : Heads]

StateTypeOK ==
    /\ jobs \in [Delivery -> Row]
    /\ order \in Seq(Delivery)
    /\ files \in [Delivery -> File \cup {NoFile}]
    /\ heartbeat \in BOOLEAN

StateInit ==
    /\ jobs = [d \in Delivery |-> Absent]
    /\ order = <<>>
    /\ files = [d \in Delivery |-> NoFile]
    /\ heartbeat = FALSE

Running(d) == jobs[d].status = "running"
Queued(d) == jobs[d].status = "queued"

\* Rows that were inserted while an INSERT waited with its created_at already read
\* (bound: one).
Overtaken == IF LockWait > 0 /\ order # <<>> THEN 0 .. 1 ELSE {0}

\* A new row comes after all the others but those.
Ordered(d) == \E n \in Overtaken : order' = InsertAt(order, Len(order) + 1 - n, d)

\* Mutant: INSERT OR REPLACE.
EnqueueReplaces(d) ==
    /\ jobs' = [jobs EXCEPT ![d] = Fresh]
    /\ IF jobs[d].status = "absent" THEN Ordered(d) ELSE UNCHANGED order
    /\ UNCHANGED <<files, heartbeat>>

\* Mutant: one job for a pull request, whatever was delivered of it.
EnqueueOncePerPullRequest(d) ==
    /\ IF \A e \in Delivery : e.pr = d.pr => jobs[e].status = "absent"
       THEN jobs' = [jobs EXCEPT ![d] = Fresh] /\ Ordered(d)
       ELSE UNCHANGED <<jobs, order>>
    /\ UNCHANGED <<files, heartbeat>>

\* INSERT ... ON CONFLICT(delivery_id) DO NOTHING
Enqueue(d) ==
    /\ IF jobs[d].status = "absent"
       THEN jobs' = [jobs EXCEPT ![d] = Fresh] /\ Ordered(d)
       ELSE UNCHANGED <<jobs, order>>
    /\ UNCHANGED <<files, heartbeat>>

\* ORDER BY created_at, id LIMIT 1
Oldest(d) ==
    \E i \in DOMAIN order : order[i] = d /\ Queued(d) /\ \A j \in 1 .. i - 1 : ~Queued(order[j])

\* Mutant: attempts is not counted.
ClaimNextUncounted(d, waited) ==
    /\ Oldest(d)
    /\ jobs' = [jobs EXCEPT ![d] = [@ EXCEPT !.status = "running", !.age = waited]]
    /\ UNCHANGED <<order, files, heartbeat>>

\* BEGIN IMMEDIATE waited so long for the lock, and then the UPDATE of claim_next
\* wrote the time read before it; the code of an earlier recovery stays on the row.
ClaimNext(d, waited) ==
    /\ Oldest(d)
    /\ jobs' = [jobs EXCEPT ![d] =
                  [@ EXCEPT !.status = "running", !.attempts = jobs[d].attempts + 1,
                            !.age = waited]]
    /\ UNCHANGED <<order, files, heartbeat>>

\* Mutant: WHERE id=? alone.
CanTransitionAny(d) == jobs[d].status # "absent"

\* The WHERE clause of _transition: any caller may finish a running row.
CanTransition(d) == Running(d)

Transition(d, status, code) ==
    /\ CanTransition(d)
    /\ jobs' = [jobs EXCEPT ![d] = [@ EXCEPT !.status = status, !.code = code, !.age = 0]]
    /\ UNCHANGED <<order, files, heartbeat>>

Complete(d) == Transition(d, "succeeded", NoCode)
Defer(d, code) == Transition(d, "deferred", code)
Fail(d, code) == Transition(d, "failed", code)

\* Mutant: one of the two codes is forgotten.
RequeueableNoInference(d) ==
    jobs[d].status = "deferred" /\ jobs[d].code = "inference-not-explicitly-enabled"

\* WHERE status='deferred' AND failure_code IN (...)
Requeueable(d) == jobs[d].status = "deferred" /\ jobs[d].code \in PolicyCodes

RequeueDeferred ==
    /\ jobs' = [d \in Delivery |->
                  IF Requeueable(d)
                  THEN [jobs[d] EXCEPT !.status = "queued", !.code = NoCode, !.age = 0]
                  ELSE jobs[d]]
    /\ UNCHANGED <<order, files, heartbeat>>

\* Mutant: the cutoff is one tick early.
ExpiredEarly(d, waited) == Running(d) /\ jobs[d].age >= Lease - 1 + waited

\* WHERE status='running' AND claimed_at <= cutoff, which was computed a wait ago.
Expired(d, waited) == Running(d) /\ jobs[d].age >= Lease + waited

RecoverExpiredClaims(waited) ==
    /\ jobs' = [d \in Delivery |->
                  IF Expired(d, waited)
                  THEN [jobs[d] EXCEPT !.status = "queued", !.code = Recovered, !.age = 0]
                  ELSE jobs[d]]
    /\ UNCHANGED <<order, files, heartbeat>>

\* Mutant: the temporary file is never moved into place.
WriteTemporaryOnly(d, label, diff) == UNCHANGED stateVars

\* Write a temporary file, fsync, os.replace: one file per job id, whoever writes.
WritePrivateResult(d, label, diff) ==
    /\ files' = [files EXCEPT ![d] = [label |-> label, diff |-> diff]]
    /\ UNCHANGED <<jobs, order, heartbeat>>

Heartbeat ==
    /\ heartbeat' = TRUE
    /\ UNCHANGED <<jobs, order, files>>

\* One tick of the clock, for what tells no ages apart from the limit on.
Older(age, limit) == IF age < limit THEN age + 1 ELSE age

AgeJobs ==
    /\ jobs' = [d \in Delivery |->
                  IF Running(d) THEN [jobs[d] EXCEPT !.age = Older(jobs[d].age, OldAge)] ELSE jobs[d]]
    /\ UNCHANGED <<order, files, heartbeat>>
=============================================================================
