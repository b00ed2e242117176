--------------------------- MODULE FactoryWorkers ---------------------------
(***************************************************************************)
(* Dispatchers and workers that share one FactoryScheduler file: a worker  *)
(* claims a task for its role and hands it to one of the adapters of       *)
(* openvang/isolated.py and openvang/subnet.py, or reports on it directly. *)
(* One action is one step between two places where another process, or     *)
(* time, can intervene.  The executor and the subnet source are external:  *)
(* they answer with an output or fail.                                     *)
(***************************************************************************)
EXTENDS FactoryScheduler

CONSTANTS
    Workers,
    RoleOf,       \* worker -> the role that it declares
    NoWork,       \* a worker without a task
    MaxCrashes,   \* bound on the workers that die with a task
    MaxOverruns   \* bound on the leases that run out under a live worker

ASSUME WorkersAssumption ==
    /\ IsFiniteSet(Workers)
    /\ RoleOf \in [Workers -> Roles]
    /\ MaxCrashes \in Nat
    /\ MaxOverruns \in Nat

VARIABLES
    pc,           \* worker -> the step it is about to take
    work,         \* worker -> its FactoryTask
    receipts,     \* receipts that the adapters have returned
    crashes,
    overruns

workVars == <<pc, work, receipts, crashes, overruns>>
vars == <<tasks, nextTask, pc, work, receipts, crashes, overruns>>

Steps == {"idle", "claim", "held", "bind", "execute", "complete", "receipt", "fail"}

\* attempt is FactoryTask.attempts; lease is what is left of this worker's claim.
Work == [input : Inputs, attempt : Nat, lease : 0 .. MaxLease,
         output : Outputs \cup {NoOutput}]

ASSUME NoWorkAssumption == NoWork \notin Work

TypeOK ==
    /\ TasksTypeOK
    /\ pc \in [Workers -> Steps]
    /\ work \in [Workers -> Work \cup {NoWork}]
    /\ receipts \in SUBSET [input : Inputs, output : Outputs]
    /\ crashes \in 0 .. MaxCrashes
    /\ overruns \in Nat

Init ==
    /\ TasksInit
    /\ pc = [w \in Workers |-> "idle"]
    /\ work = [w \in Workers |-> NoWork]
    /\ receipts = {}
    /\ crashes = 0
    /\ overruns = 0

Holds(w, i) == work[w] # NoWork /\ work[w].input = i

\* The worker has a task that it has not settled.
Busy(w) == pc[w] \in {"held", "bind", "execute", "complete", "fail"}

Goto(w, step) == pc' = [pc EXCEPT ![w] = step]

\* The worker returns from the call, with or without an exception.
LetGo(w) ==
    /\ Goto(w, "idle")
    /\ work' = [work EXCEPT ![w] = NoWork]
    /\ UNCHANGED <<crashes, overruns>>

-----------------------------------------------------------------------------
(* Dispatch and claims.                                                    *)

Dispatch ==
    /\ \E i \in Inputs, req \in Requests : Enqueue(i, req)
    /\ UNCHANGED workVars

\* claim_next is two transactions: the recovery and the claim.
Recover(w) ==
    /\ pc[w] = "idle"
    /\ RecoverExpiredLeases
    /\ Goto(w, "claim")
    /\ UNCHANGED <<work, receipts, crashes, overruns>>

Claim(w) ==
    /\ pc[w] = "claim"
    /\ \E i \in Inputs, lease \in 0 .. MaxLease :
         /\ overruns + (IF lease = 0 THEN 1 ELSE 0) <= MaxOverruns
         /\ ClaimNext(i, RoleOf[w], lease)
         /\ overruns' = overruns + (IF lease = 0 THEN 1 ELSE 0)
         /\ work' = [work EXCEPT ![w] =
                        [input |-> i, attempt |-> tasks[i].attempts + 1,
                         lease |-> lease, output |-> NoOutput]]
    /\ Goto(w, "held")
    /\ UNCHANGED <<receipts, crashes>>

FindNothing(w) ==
    /\ pc[w] = "claim"
    /\ ~ \E i \in Inputs : Oldest(i, RoleOf[w])
    /\ Goto(w, "idle")
    /\ UNCHANGED <<tasks, nextTask, work, receipts, crashes, overruns>>

-----------------------------------------------------------------------------
(* The adapters.                                                           *)

Adapters == {"isolated", "subnet"}

\* _ISOLATED_ROLES and _READ_ONLY_ROLES
AdapterRoles(a) ==
    IF a = "isolated" THEN {"miner-qa", "builder", "qa", "security-qa"}
    ELSE {"validator", "miner-qa", "product"}

AdapterAction(a) == IF a = "isolated" THEN "run-isolated" ELSE "read-subnet-state"

\* _validate_binding, but for the commitments of the plan and the approval.
Binds(a, req) ==
    /\ req.role \in AdapterRoles(a)
    /\ req.action = AdapterAction(a)
    /\ req.scope = "role-private"
    /\ req.artifact = "private-operation"

\* The start of execute: require_running, a transaction of its own.
Authorize(w) ==
    /\ pc[w] = "held"
    /\ IsRunning(work[w].input, RoleOf[w], work[w].attempt)
    /\ Goto(w, "bind")
    /\ UNCHANGED <<tasks, nextTask, work, receipts, crashes, overruns>>

\* _validate_binding on the row as it was read, where matches says that the plan (and
\* its approval) are those of the input commitment; the lease is not looked at again.
Bind(w, a, matches) ==
    /\ pc[w] = "bind"
    /\ Goto(w, IF Binds(a, tasks[work[w].input].req) /\ matches THEN "execute" ELSE "fail")
    /\ UNCHANGED <<tasks, nextTask, work, receipts, crashes, overruns>>

Refuse(w) ==
    /\ pc[w] = "held"
    /\ ~IsRunning(work[w].input, RoleOf[w], work[w].attempt)
    /\ LetGo(w)
    /\ UNCHANGED <<tasks, nextTask, receipts>>

Execute(w) ==
    /\ pc[w] = "execute"
    /\ \E out \in Outputs : work' = [work EXCEPT ![w].output = out]
    /\ Goto(w, "complete")
    /\ UNCHANGED <<tasks, nextTask, receipts, crashes, overruns>>

ExecuteFails(w) ==
    /\ pc[w] = "execute"
    /\ Goto(w, "fail")
    /\ UNCHANGED <<tasks, nextTask, work, receipts, crashes, overruns>>

\* Mutant: the SchedulerError of complete is swallowed like that of _fail.
CompleteSwallowed(w) ==
    LET i == work[w].input IN
    /\ pc[w] = "complete"
    /\ \/ Transition(i, RoleOf[w], "succeeded", work[w].output)
       \/ ~CanTransition(i, RoleOf[w]) /\ UNCHANGED <<tasks, nextTask>>
    /\ Goto(w, "receipt")
    /\ UNCHANGED <<work, receipts, crashes, overruns>>

\* A SchedulerError of complete becomes the adapter's own error: no receipt.
Complete(w) ==
    LET i == work[w].input IN
    /\ pc[w] = "complete"
    /\ \/ /\ Transition(i, RoleOf[w], "succeeded", work[w].output)
          /\ Goto(w, "receipt")
          /\ UNCHANGED <<work, crashes, overruns>>
       \/ /\ ~CanTransition(i, RoleOf[w])
          /\ LetGo(w)
          /\ UNCHANGED <<tasks, nextTask>>
    /\ UNCHANGED receipts

ReturnReceipt(w) ==
    /\ pc[w] = "receipt"
    /\ receipts' = receipts \cup {[input |-> work[w].input, output |-> work[w].output]}
    /\ LetGo(w)
    /\ UNCHANGED <<tasks, nextTask>>

\* _fail: the SchedulerError of a lost claim is swallowed.
Fail(w) ==
    LET i == work[w].input IN
    /\ pc[w] = "fail"
    /\ \/ Transition(i, RoleOf[w], "failed", NoOutput)
       \/ ~CanTransition(i, RoleOf[w]) /\ UNCHANGED <<tasks, nextTask>>
    /\ LetGo(w)
    /\ UNCHANGED receipts

\* Work that has no adapter: the caller settles the task by itself.
Report(w) ==
    LET i == work[w].input IN
    /\ pc[w] = "held"
    /\ \/ \E out \in Outputs : Transition(i, RoleOf[w], "succeeded", out)
       \/ \E status \in {"deferred", "failed"} : Transition(i, RoleOf[w], status, NoOutput)
       \/ ~CanTransition(i, RoleOf[w]) /\ UNCHANGED <<tasks, nextTask>>
    /\ LetGo(w)
    /\ UNCHANGED receipts

-----------------------------------------------------------------------------
(* Death and time.                                                         *)

Crash(w) ==
    /\ work[w] # NoWork
    /\ crashes < MaxCrashes
    /\ crashes' = crashes + 1
    /\ Goto(w, "idle")
    /\ work' = [work EXCEPT ![w] = NoWork]
    /\ UNCHANGED <<tasks, nextTask, receipts, overruns>>

\* Live workers that are not done and whose lease is about to run out.
Overrunning == {w \in Workers : Busy(w) /\ work[w].lease = 1}

Shorter(lease) == IF lease > 0 THEN lease - 1 ELSE 0

Tick ==
    /\ \E i \in Inputs : tasks[i].status = "running" /\ tasks[i].lease > 0
    /\ overruns + Cardinality(Overrunning) <= MaxOverruns
    /\ overruns' = overruns + Cardinality(Overrunning)
    /\ LeasesRunDown
    /\ work' = [w \in Workers |->
                   IF work[w] = NoWork THEN NoWork
                   ELSE [work[w] EXCEPT !.lease = Shorter(work[w].lease)]]
    /\ UNCHANGED <<pc, receipts, crashes>>

Try(w) ==
    \/ Authorize(w) \/ Refuse(w) \/ Report(w)
    \/ \E a \in Adapters, matches \in BOOLEAN : Bind(w, a, matches)

Step(w) ==
    \/ Recover(w) \/ Claim(w) \/ FindNothing(w) \/ Try(w)
    \/ Execute(w) \/ ExecuteFails(w) \/ Complete(w) \/ ReturnReceipt(w) \/ Fail(w)

Next ==
    \/ Dispatch
    \/ \E w \in Workers : Step(w) \/ Crash(w)
    \/ Tick

Spec == Init /\ [][Next]_vars

\* Executors and sources have time-outs, workers are kept polling by whoever runs
\* them, and time passes.
FairSpec == Spec /\ WF_vars(Tick) /\ \A w \in Workers : WF_vars(Step(w))

-----------------------------------------------------------------------------
(* Safety.                                                                 *)

\* max_active_budget bounds the units of all open tasks, whatever was recovered,
\* claimed again or settled between two requests.
BudgetRespected ==
    SumFunction([i \in Inputs |-> IF Absent(i) \/ Settled(i) THEN 0 ELSE tasks[i].req.units])
        <= MaxActiveBudget

\* A receipt is only ever given for the output that is on record: a worker that
\* lost its claim returns no receipt for work that another one reported.
ReceiptsMatch ==
    \A r \in receipts :
        tasks[r.input].status = "succeeded" /\ tasks[r.input].output = r.output

\* "WHILE a private runtime lease is active THEN the scheduler SHALL not duplicate
\* it": two workers have the same task only when the lease of the first is over.
NoDuplicateWithinLease ==
    \A v, w \in Workers : \A i \in Inputs :
        Busy(v) /\ Busy(w) /\ v # w /\ Holds(v, i) /\ Holds(w, i)
            => work[v].attempt # work[w].attempt
               /\ (work[v].attempt < work[w].attempt => work[v].lease = 0)

\* A settled task is final: a late worker, a recovery or a repeated request never
\* reopens it or replaces its output.
SettledForever ==
    [][\A i \in Inputs : Settled(i) => tasks'[i] = tasks[i]]_vars

\* As long as every lease has covered the work done under it, as the adapters ask of
\* those who claim, a worker's task is its own until it reports: nobody else can settle
\* or recover it, whatever crashes.  (After an overrun a worker can settle the claim of
\* the next one.)
ClaimIsOwn ==
    overruns = 0 =>
        \A w \in Workers : Busy(w) =>
            LET i == work[w].input IN
            tasks[i].status = "running" /\ tasks[i].attempts = work[w].attempt

-----------------------------------------------------------------------------
(* The inductive invariant behind the safety properties.                   *)

\* A worker has a task exactly while it is between claim and return.
HasWorkIffBusy == \A w \in Workers : work[w] # NoWork <=> Busy(w) \/ pc[w] = "receipt"

\* What a worker knows of its claim, against the row: a claim that is no longer that
\* of the row has run out, and one that is has the row's lease.
WorkConsistent(w) ==
    LET i == work[w].input IN
    /\ ~Absent(i)
    /\ work[w].attempt <= tasks[i].attempts
    /\ work[w].attempt < tasks[i].attempts => work[w].lease = 0
    /\ tasks[i].status = "queued" => work[w].lease = 0
    /\ tasks[i].status = "running" /\ work[w].attempt = tasks[i].attempts
           => work[w].lease = tasks[i].lease
    /\ pc[w] \in {"complete", "receipt"} => work[w].output \in Outputs
    /\ pc[w] = "receipt" =>
           tasks[i].status = "succeeded" /\ tasks[i].output = work[w].output

ClaimsDistinct ==
    \A v, w \in Workers : \A i \in Inputs :
        Holds(v, i) /\ Holds(w, i) /\ work[v].attempt = work[w].attempt => v = w

\* Everything that the safety properties need, whatever the numbers of workers,
\* tasks, crashes and overruns.
IInv ==
    /\ TypeOK
    /\ HasWorkIffBusy
    /\ \A w \in Workers : work[w] # NoWork => WorkConsistent(w)
    /\ ClaimsDistinct
    /\ ReceiptsMatch

-----------------------------------------------------------------------------
(* Liveness, for tasks of a role that some worker declares.                *)

\* Every admitted task is settled, though workers crash, lose their leases or find
\* their task taken.
TasksSettle ==
    \A i \in Inputs :
        Active(i) /\ (\E w \in Workers : RoleOf[w] = tasks[i].req.role) ~> Settled(i)

-----------------------------------------------------------------------------
\* What the factory promises to dispatchers and owners: TaskBoard.
BoardOutcome ==
    [i \in Inputs |-> IF Active(i) THEN "open" ELSE tasks[i].status]
BoardCost == [i \in Inputs |-> IF Absent(i) THEN 0 ELSE tasks[i].req.units]
BoardOutput == [i \in Inputs |-> tasks[i].output]

Board == INSTANCE TaskBoard WITH
    outcome <- BoardOutcome, cost <- BoardCost, output <- BoardOutput,
    Sizes <- {req.units : req \in Requests}

\* The scheduler and its workers, any number of them, implement the board.
ImplementsBoard == Board!Spec
=============================================================================
