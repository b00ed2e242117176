-------------------------- MODULE FactoryScheduler --------------------------
(***************************************************************************)
(* openvang/scheduler.py: the table factory_tasks, one operator for each   *)
(* SQL statement or BEGIN IMMEDIATE transaction.  A row is named by its    *)
(* input commitment, which is UNIQUE; place is its place in the order by   *)
(* created_at and id.  lease is the time that is left until lease_until, 0 *)
(* once it has passed (or is NULL).                                        *)
(***************************************************************************)
EXTENDS FactoryPolicy, Integers, FiniteSets, Functions

CONSTANTS
    Inputs,           \* input commitments
    Outputs,          \* output commitments
    NoOutput,         \* output_commitment is NULL
    Requests,         \* the tasks that dispatchers may ask for
    NoRequest,        \* the request of an input with no row
    MaxActiveBudget,  \* max_active_budget
    MaxLease          \* the longest lease, in ticks

Request == [role : Roles, action : Actions, scope : Scopes, artifact : Artifacts,
            units : Nat]

ASSUME SchedulerAssumption ==
    /\ IsFiniteSet(Inputs)
    /\ Requests \subseteq Request
    /\ NoRequest \notin Request
    /\ NoOutput \notin Outputs
    /\ MaxActiveBudget \in Nat \ {0}
    /\ MaxLease \in Nat \ {0}

VARIABLES
    tasks,    \* input commitment -> its row
    nextTask  \* one more than there are rows

ActiveStatuses == {"queued", "running"}
TerminalStatuses == {"succeeded", "deferred", "failed"}

Row == [status : {"absent"} \cup ActiveStatuses \cup TerminalStatuses,
        place : Int, req : Requests \cup {NoRequest}, attempts : Nat,
        lease : 0 .. MaxLease, output : Outputs \cup {NoOutput}]

NoRow == [status |-> "absent", place |-> 0, req |-> NoRequest, attempts |-> 0,
          lease |-> 0, output |-> NoOutput]

TasksTypeOK ==
    /\ tasks \in [Inputs -> Row]
    /\ nextTask \in Nat

TasksInit ==
    /\ tasks = [i \in Inputs |-> NoRow]
    /\ nextTask = 1

Absent(i) == tasks[i].status = "absent"
Active(i) == tasks[i].status \in ActiveStatuses
Settled(i) == tasks[i].status \in TerminalStatuses

\* Mutant: claimed tasks no longer count.
ActiveBudgetQueued ==
    SumFunction([i \in Inputs |-> IF tasks[i].status = "queued" THEN tasks[i].req.units ELSE 0])

\* active_budget(), inside the transaction of enqueue.
ActiveBudget == SumFunction([i \in Inputs |-> IF Active(i) THEN tasks[i].req.units ELSE 0])

\* Mutant: INSERT OR REPLACE of what is not active.
EnqueueReplaces(i, req) ==
    /\ Permitted(req)
    /\ ~Active(i)
    /\ ActiveBudget + req.units <= MaxActiveBudget
    /\ \E place \in {nextTask, 2 - nextTask} :
         tasks' = [tasks EXCEPT ![i] =
                      [NoRow EXCEPT !.status = "queued", !.place = place, !.req = req]]
    /\ nextTask' = nextTask + 1

\* A refused or repeated request changes nothing.  created_at is read before the
\* transaction waits for its lock, so a new row may go before those that are there.
Enqueue(i, req) ==
    /\ Permitted(req)
    /\ Absent(i)
    /\ ActiveBudget + req.units <= MaxActiveBudget
    /\ \E place \in {nextTask, 2 - nextTask} :
         tasks' = [tasks EXCEPT ![i] =
                      [NoRow EXCEPT !.status = "queued", !.place = place, !.req = req]]
    /\ nextTask' = nextTask + 1

\* Mutant: a lease is over one tick too early.
ExpiredEarly(i) == tasks[i].status = "running" /\ tasks[i].lease <= 1

Expired(i) == tasks[i].status = "running" /\ tasks[i].lease = 0

\* Mutant: leases are never recovered.
RecoverNothing == UNCHANGED <<tasks, nextTask>>

RecoverExpiredLeases ==
    /\ tasks' = [i \in Inputs |->
                    IF Expired(i) THEN [tasks[i] EXCEPT !.status = "queued"] ELSE tasks[i]]
    /\ UNCHANGED nextTask

\* Mutant: running tasks are candidates too.
OldestActive(i, role) ==
    LET Waiting == {j \in Inputs : Active(j) /\ tasks[j].req.role = role}
    IN  i \in Waiting /\ \A j \in Waiting : tasks[i].place <= tasks[j].place

\* ORDER BY created_at, id LIMIT 1
Oldest(i, role) ==
    LET Waiting == {j \in Inputs : tasks[j].status = "queued" /\ tasks[j].req.role = role}
    IN  i \in Waiting /\ \A j \in Waiting : tasks[i].place <= tasks[j].place

\* Mutant: attempts is not incremented in the table.
ClaimNextUncounted(i, role, lease) ==
    /\ Oldest(i, role)
    /\ tasks' = [tasks EXCEPT ![i].status = "running", ![i].lease = lease]
    /\ UNCHANGED nextTask

\* lease_until is computed before the transaction waits for its lock, in whole
\* seconds, so a short lease may be over when the row is written.
ClaimNext(i, role, lease) ==
    /\ Oldest(i, role)
    /\ tasks' = [tasks EXCEPT ![i] =
                    [@ EXCEPT !.status = "running", !.attempts = tasks[i].attempts + 1,
                               !.lease = lease]]
    /\ UNCHANGED nextTask

\* require_running: the row is running under a live lease for this role, and it is
\* still the claim that the caller holds.
IsRunning(i, role, attempt) ==
    /\ tasks[i].status = "running"
    /\ tasks[i].req.role = role
    /\ tasks[i].lease > 0
    /\ tasks[i].attempts = attempt

\* Mutant: no condition on the status.
CanTransitionAny(i, role) == ~Absent(i) /\ tasks[i].req.role = role

\* The WHERE of _transition: any claim of the row will do.
CanTransition(i, role) == tasks[i].status = "running" /\ tasks[i].req.role = role

Transition(i, role, status, output) ==
    /\ CanTransition(i, role)
    /\ tasks' = [tasks EXCEPT ![i] =
                    [@ EXCEPT !.status = status, !.lease = 0, !.output = output]]
    /\ UNCHANGED nextTask

LeasesRunDown ==
    /\ tasks' = [i \in Inputs |->
                    IF tasks[i].status = "running" /\ tasks[i].lease > 0
                    THEN [tasks[i] EXCEPT !.lease = tasks[i].lease - 1] ELSE tasks[i]]
    /\ UNCHANGED nextTask
=============================================================================
