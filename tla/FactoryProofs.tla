--------------------------- MODULE FactoryProofs ---------------------------
(***************************************************************************)
(* Proofs about FactoryWorkers for any sets of workers, tasks and outputs, *)
(* any requests, budget and leases, any crashes and overruns.  First what  *)
(* each statement of the scheduler does to the rows, then that what the    *)
(* workers know about their claims survives it, then the invariant.        *)
(***************************************************************************)
EXTENDS FactoryWorkers, FiniteSetTheorems, TLAPS

-----------------------------------------------------------------------------
(* What the statements of the scheduler do to the rows.                    *)

\* enqueue fills the row of an absent input.
LEMMA EnqueueRows ==
    ASSUME TasksTypeOK, NEW i \in Inputs, NEW req \in Requests, Enqueue(i, req)
    PROVE  /\ TasksTypeOK'
           /\ Absent(i)
           /\ tasks'[i].status = "queued"
           /\ tasks'[i].req = req
           /\ tasks'[i].output = NoOutput
           /\ \A j \in Inputs : j # i => tasks'[j] = tasks[j]
<1> USE SchedulerAssumption
<1>2. PICK place \in {nextTask, 2 - nextTask} :
         tasks' = [tasks EXCEPT ![i] =
                      [NoRow EXCEPT !.status = "queued", !.place = place, !.req = req]]
  BY DEF Enqueue
<1>3. Absent(i) /\ nextTask' = nextTask + 1 /\ place \in Int
  BY <1>2 DEF Enqueue, TasksTypeOK
<1> DEFINE new == [NoRow EXCEPT !.status = "queued", !.place = place, !.req = req]
<1>0. NoRow \in Row /\ NoRow.output = NoOutput
  BY DEF NoRow, Row
<1>1. /\ new \in Row
      /\ new.status = "queued" /\ new.req = req /\ new.output = NoOutput
  BY <1>0, <1>3 DEF Row, TasksTypeOK, ActiveStatuses, TerminalStatuses
<1>4. tasks' = [tasks EXCEPT ![i] = new]
  BY <1>2
<1> HIDE DEF new
<1> QED
  BY <1>1, <1>3, <1>4 DEF TasksTypeOK

\* recover_expired_leases moves expired claims back to the queue.
LEMMA RecoverRows ==
    ASSUME TasksTypeOK, RecoverExpiredLeases
    PROVE  /\ TasksTypeOK'
           /\ \A j \in Inputs :
                /\ ~Expired(j) => tasks'[j] = tasks[j]
                /\ Expired(j) => /\ tasks'[j].status = "queued"
                                 /\ tasks'[j].place = tasks[j].place
                                 /\ tasks'[j].req = tasks[j].req
                                 /\ tasks'[j].attempts = tasks[j].attempts
                                 /\ tasks'[j].lease = tasks[j].lease
                                 /\ tasks'[j].output = tasks[j].output
BY SchedulerAssumption
   DEF RecoverExpiredLeases, TasksTypeOK, Row, Expired, ActiveStatuses, TerminalStatuses

\* claim_next starts a new attempt of a queued row.
LEMMA ClaimRows ==
    ASSUME TasksTypeOK, NEW i \in Inputs, NEW role, NEW lease \in 0 .. MaxLease,
           ClaimNext(i, role, lease)
    PROVE  /\ TasksTypeOK'
           /\ tasks[i].status = "queued"
           /\ tasks[i].req.role = role
           /\ tasks'[i].status = "running"
           /\ tasks'[i].req = tasks[i].req
           /\ tasks'[i].attempts = tasks[i].attempts + 1
           /\ tasks'[i].lease = lease
           /\ tasks'[i].output = tasks[i].output
           /\ \A j \in Inputs : j # i => tasks'[j] = tasks[j]
<1>1. tasks[i] \in Row /\ tasks[i].attempts \in Nat
  BY DEF TasksTypeOK, Row
<1>2. tasks' = [tasks EXCEPT ![i] =
                   [tasks[i] EXCEPT !.status = "running", !.attempts = tasks[i].attempts + 1,
                                    !.lease = lease]]
  BY DEF ClaimNext
<1>3. tasks'[i] = [tasks[i] EXCEPT !.status = "running", !.attempts = tasks[i].attempts + 1,
                                   !.lease = lease]
  BY <1>2 DEF TasksTypeOK
<1>4. /\ tasks'[i].status = "running"
      /\ tasks'[i].attempts = tasks[i].attempts + 1
      /\ tasks'[i].lease = lease
      /\ tasks'[i].req = tasks[i].req
      /\ tasks'[i].output = tasks[i].output
  BY <1>1, <1>3 DEF Row
<1>r. tasks'[i] \in Row
  <2>1. tasks[i].attempts + 1 \in Nat /\ "running" \in ActiveStatuses
    BY <1>1 DEF ActiveStatuses
  <2> QED
    BY <1>1, <1>3, <2>1 DEF Row
<1>5. \A j \in Inputs : j # i => tasks'[j] = tasks[j]
  BY <1>2 DEF TasksTypeOK
<1>6. TasksTypeOK'
  BY <1>2, <1>r, <1>5 DEF TasksTypeOK, ClaimNext
<1>7. tasks[i].status = "queued" /\ tasks[i].req.role = role
  BY DEF ClaimNext, Oldest
<1> QED
  BY <1>4, <1>5, <1>6, <1>7

\* complete, defer and fail settle a running row.
LEMMA TransitionRows ==
    ASSUME TasksTypeOK, NEW i \in Inputs, NEW role, NEW status \in TerminalStatuses,
           NEW output \in Outputs \cup {NoOutput}, Transition(i, role, status, output)
    PROVE  /\ TasksTypeOK'
           /\ tasks[i].status = "running"
           /\ tasks'[i].status = status
           /\ tasks'[i].req = tasks[i].req
           /\ tasks'[i].attempts = tasks[i].attempts
           /\ tasks'[i].output = output
           /\ \A j \in Inputs : j # i => tasks'[j] = tasks[j]
<1>1. tasks[i] \in Row /\ 0 \in 0 .. MaxLease
  BY SchedulerAssumption DEF TasksTypeOK
<1>2. tasks' = [tasks EXCEPT ![i] =
                   [tasks[i] EXCEPT !.status = status, !.lease = 0, !.output = output]]
  BY DEF Transition
<1>3. tasks'[i] = [tasks[i] EXCEPT !.status = status, !.lease = 0, !.output = output]
  BY <1>2 DEF TasksTypeOK
<1>4. /\ tasks'[i].status = status
      /\ tasks'[i].output = output
      /\ tasks'[i].req = tasks[i].req
      /\ tasks'[i].attempts = tasks[i].attempts
      /\ tasks'[i] \in Row
  BY <1>1, <1>3 DEF Row
<1>5. \A j \in Inputs : j # i => tasks'[j] = tasks[j]
  BY <1>2 DEF TasksTypeOK
<1>6. TasksTypeOK'
  BY <1>2, <1>4, <1>5 DEF TasksTypeOK, Transition
<1>7. tasks[i].status = "running"
  BY DEF Transition, CanTransition
<1> QED
  BY <1>4, <1>5, <1>6, <1>7

\* Time changes leases only.
LEMMA TickRows ==
    ASSUME TasksTypeOK, LeasesRunDown
    PROVE  /\ TasksTypeOK'
           /\ \A j \in Inputs :
                /\ tasks[j].status = "running" => tasks'[j].lease = Shorter(tasks[j].lease)
                /\ tasks[j].status # "running" => tasks'[j] = tasks[j]
                /\ tasks'[j].status = tasks[j].status
                /\ tasks'[j].req = tasks[j].req
                /\ tasks'[j].attempts = tasks[j].attempts
                /\ tasks'[j].output = tasks[j].output
BY SchedulerAssumption
   DEF LeasesRunDown, Shorter, TasksTypeOK, Row, ActiveStatuses, TerminalStatuses

-----------------------------------------------------------------------------
(* The invariant.                                                          *)

\* The part of the invariant that is about worker w.
WorkerInv(w) ==
    /\ work[w] # NoWork <=> Busy(w) \/ pc[w] = "receipt"
    /\ work[w] # NoWork => WorkConsistent(w)

\* The parts about the workers make up the whole.
LEMMA WorkerParts ==
    IInv <=> TypeOK /\ (\A w \in Workers : WorkerInv(w)) /\ ClaimsDistinct /\ ReceiptsMatch
BY DEF IInv, HasWorkIffBusy, WorkerInv

\* A row that has moved the way the scheduler moves rows: its attempts grow only when
\* it leaves the queue, its lease stays while it runs, a settled row stays.
Moved(i) ==
    \/ Absent(i)
    \/ tasks'[i] = tasks[i]
    \/ /\ Expired(i)
       /\ tasks'[i].status = "queued"
       /\ tasks'[i].attempts = tasks[i].attempts
       /\ tasks'[i].lease = tasks[i].lease
    \/ /\ tasks[i].status = "queued"
       /\ tasks'[i].status = "running"
       /\ tasks'[i].attempts = tasks[i].attempts + 1
    \/ /\ tasks[i].status = "running"
       /\ tasks'[i].status \in TerminalStatuses
       /\ tasks'[i].attempts = tasks[i].attempts

\* A worker that does not move keeps its part of the invariant.
LEMMA KeptWork ==
    ASSUME TypeOK, TypeOK', NEW w \in Workers, WorkerInv(w),
           pc'[w] = pc[w], work'[w] = work[w],
           \A i \in Inputs : Moved(i)
    PROVE  WorkerInv(w)'
<1>1. (work[w] # NoWork <=> Busy(w) \/ pc[w] = "receipt")'
  BY DEF WorkerInv, Busy
<1>2. ASSUME work[w] # NoWork PROVE WorkConsistent(w)'
  <2> DEFINE i == work[w].input
  <2>1. /\ i \in Inputs
        /\ work[w].attempt \in Nat
        /\ tasks[i].attempts \in Nat
        /\ tasks[i].status \in {"absent"} \cup ActiveStatuses \cup TerminalStatuses
        /\ WorkConsistent(w)
        /\ Moved(i)
    BY <1>2 DEF TypeOK, TasksTypeOK, Row, Work, WorkerInv
  <2> QED
    BY <2>1 DEF Moved, WorkConsistent, Absent, Expired, ActiveStatuses, TerminalStatuses
<1> QED
  BY <1>1, <1>2 DEF WorkerInv

\* Settled rows do not move.
LEMMA SettledStays ==
    ASSUME NEW i \in Inputs, Moved(i), Settled(i)
    PROVE  tasks'[i] = tasks[i]
BY DEF Moved, Settled, Absent, Expired, TerminalStatuses

\* Receipts that were right stay right.
LEMMA ReceiptsKept ==
    ASSUME TypeOK, ReceiptsMatch, \A i \in Inputs : Moved(i)
    PROVE  \A r \in receipts :
               tasks'[r.input].status = "succeeded" /\ tasks'[r.input].output = r.output
<1>1. \A r \in receipts : r.input \in Inputs
  BY DEF TypeOK
<1>2. \A r \in receipts : Settled(r.input)
  BY DEF ReceiptsMatch, Settled, TerminalStatuses
<1> QED
  BY <1>1, <1>2, SettledStays DEF ReceiptsMatch

\* A step in which only worker w moves, the rows move as the scheduler moves them, no
\* claim is made and no receipt is returned.
LEMMA OneMoves ==
    ASSUME IInv, TypeOK', NEW w \in Workers,
           \A i \in Inputs : Moved(i),
           \A v \in Workers : v # w => pc'[v] = pc[v] /\ work'[v] = work[v],
           \/ work'[w] = NoWork
           \/ /\ work[w] # NoWork
              /\ work'[w].input = work[w].input
              /\ work'[w].attempt = work[w].attempt,
           WorkerInv(w)',
           receipts' = receipts
    PROVE  IInv'
<1>1. \A v \in Workers : WorkerInv(v)'
  <2>1. SUFFICES ASSUME NEW v \in Workers, v # w PROVE WorkerInv(v)'
    OBVIOUS
  <2> QED
    BY <2>1, KeptWork, WorkerParts
<1>2. ClaimsDistinct'
  <2>1. ClaimsDistinct
    BY WorkerParts
  <2>2. ASSUME NEW u \in Workers, NEW v \in Workers, NEW i \in Inputs,
               Holds(u, i)', Holds(v, i)', work'[u].attempt = work'[v].attempt
        PROVE  u = v
    <3>1. Holds(u, i) /\ Holds(v, i) /\ work[u].attempt = work[v].attempt
      BY <2>2 DEF Holds
    <3> QED
      BY <3>1, <2>1 DEF ClaimsDistinct
  <2> QED
    BY <2>2 DEF ClaimsDistinct
<1>3. ReceiptsMatch'
  BY ReceiptsKept, WorkerParts DEF ReceiptsMatch
<1> QED
  BY <1>1, <1>2, <1>3 DEF IInv, HasWorkIffBusy, WorkerInv

\* Same rows, so nothing has moved.
LEMMA StillRows ==
    ASSUME UNCHANGED <<tasks, nextTask>>
    PROVE  \A i \in Inputs : Moved(i)
BY DEF Moved

\* A transition of w's task moves that row only.
LEMMA TransitionMoves ==
    ASSUME TasksTypeOK, NEW i \in Inputs, NEW role, NEW status \in TerminalStatuses,
           NEW output \in Outputs \cup {NoOutput}, Transition(i, role, status, output)
    PROVE  \A j \in Inputs : Moved(j)
BY TransitionRows DEF Moved

\* A worker that lets go of its task keeps no locals to be wrong about.
LEMMA LetGoInv ==
    ASSUME TypeOK, NEW w \in Workers, LetGo(w)
    PROVE  /\ WorkerInv(w)'
           /\ work'[w] = NoWork
           /\ pc' \in [Workers -> Steps]
           /\ work' \in [Workers -> Work \cup {NoWork}]
           /\ \A v \in Workers : v # w => pc'[v] = pc[v] /\ work'[v] = work[v]
BY DEF LetGo, Goto, TypeOK, WorkerInv, Busy, Steps

-----------------------------------------------------------------------------
(* One lemma for each action.                                              *)

LEMMA InitInv == Init => IInv
<1> SUFFICES ASSUME Init PROVE IInv
  OBVIOUS
<1> USE SchedulerAssumption, WorkersAssumption
<1>1. NoRow \in Row
  BY DEF NoRow, Row
<1>2. TypeOK
  BY <1>1 DEF Init, TasksInit, TypeOK, TasksTypeOK, Steps
<1> QED
  BY <1>2 DEF Init, IInv, HasWorkIffBusy, Busy, ClaimsDistinct, Holds, ReceiptsMatch

LEMMA DispatchInv ==
    ASSUME IInv, Dispatch
    PROVE  IInv' /\ \A j \in Inputs : Moved(j)
<1>1. PICK i \in Inputs, req \in Requests : Enqueue(i, req)
  BY DEF Dispatch
<1>2. TypeOK'
  BY <1>1, EnqueueRows DEF Dispatch, workVars, IInv, TypeOK
<1>3. \A j \in Inputs : Moved(j)
  BY <1>1, EnqueueRows DEF IInv, TypeOK, Moved
<1>4. \A w \in Workers : WorkerInv(w)'
  BY <1>2, <1>3, KeptWork, WorkerParts DEF Dispatch, workVars, IInv
<1>5. ClaimsDistinct'
  BY DEF Dispatch, workVars, IInv, ClaimsDistinct, Holds
<1>6. ReceiptsMatch'
  BY <1>3, ReceiptsKept DEF Dispatch, workVars, IInv, ReceiptsMatch
<1> QED
  BY <1>2, <1>3, <1>4, <1>5, <1>6 DEF IInv, HasWorkIffBusy, WorkerInv

LEMMA RecoverInv ==
    ASSUME IInv, NEW w \in Workers, Recover(w)
    PROVE  IInv' /\ \A j \in Inputs : Moved(j)
<1>1. TypeOK'
  BY RecoverRows DEF Recover, Goto, IInv, TypeOK, Steps
<1>2. \A j \in Inputs : Moved(j)
  BY RecoverRows DEF Recover, IInv, TypeOK, Moved
<1>3. WorkerInv(w)'
  BY WorkerParts DEF Recover, Goto, IInv, TypeOK, WorkerInv, Busy
<1> QED
  BY <1>1, <1>2, <1>3, OneMoves, WorkerParts DEF Recover, Goto, IInv, TypeOK, WorkerInv, Busy

LEMMA FindNothingInv ==
    ASSUME IInv, NEW w \in Workers, FindNothing(w)
    PROVE  IInv' /\ \A j \in Inputs : Moved(j)
<1>1. TypeOK'
  BY DEF FindNothing, Goto, IInv, TypeOK, TasksTypeOK, Steps
<1>2. \A j \in Inputs : Moved(j)
  BY StillRows DEF FindNothing
<1>3. work[w] = NoWork /\ WorkerInv(w)'
  BY WorkerParts DEF FindNothing, Goto, IInv, TypeOK, WorkerInv, Busy
<1> QED
  BY <1>1, <1>2, <1>3, OneMoves DEF FindNothing, Goto, IInv, TypeOK

LEMMA AuthorizeInv ==
    ASSUME IInv, NEW w \in Workers, Authorize(w)
    PROVE  IInv' /\ \A j \in Inputs : Moved(j)
<1>1. TypeOK'
  BY DEF Authorize, Goto, IInv, TypeOK, TasksTypeOK, Steps
<1>2. \A j \in Inputs : Moved(j)
  BY StillRows DEF Authorize
<1>3. work[w] # NoWork /\ work'[w] = work[w] /\ pc'[w] \in {"bind"}
  BY WorkerParts DEF Authorize, Goto, IInv, TypeOK, WorkerInv, Busy
<1>4. WorkerInv(w)'
  BY <1>3, WorkerParts DEF Authorize, WorkerInv, Busy, WorkConsistent, Absent
<1> QED
  BY <1>1, <1>2, <1>3, <1>4, OneMoves DEF Authorize, Goto, IInv, TypeOK

LEMMA BindInv ==
    ASSUME IInv, NEW w \in Workers, NEW a \in Adapters, NEW matches \in BOOLEAN,
           Bind(w, a, matches)
    PROVE  IInv' /\ \A j \in Inputs : Moved(j)
<1>1. TypeOK'
  BY DEF Bind, Goto, IInv, TypeOK, TasksTypeOK, Steps
<1>2. \A j \in Inputs : Moved(j)
  BY StillRows DEF Bind
<1>3. work[w] # NoWork /\ work'[w] = work[w] /\ pc'[w] \in {"execute", "fail"}
  BY WorkerParts DEF Bind, Goto, IInv, TypeOK, WorkerInv, Busy
<1>4. WorkerInv(w)'
  BY <1>3, WorkerParts DEF Bind, WorkerInv, Busy, WorkConsistent, Absent
<1> QED
  BY <1>1, <1>2, <1>3, <1>4, OneMoves DEF Bind, Goto, IInv, TypeOK

LEMMA RefuseInv ==
    ASSUME IInv, NEW w \in Workers, Refuse(w)
    PROVE  IInv' /\ \A j \in Inputs : Moved(j)
<1>1. TypeOK'
  BY LetGoInv DEF Refuse, LetGo, IInv, TypeOK, TasksTypeOK
<1>2. \A j \in Inputs : Moved(j)
  BY StillRows DEF Refuse
<1> QED
  BY <1>1, <1>2, OneMoves, LetGoInv DEF Refuse, IInv

LEMMA ExecuteInv ==
    ASSUME IInv, NEW w \in Workers, Execute(w)
    PROVE  IInv' /\ \A j \in Inputs : Moved(j)
<1>1. PICK out \in Outputs : work' = [work EXCEPT ![w].output = out]
  BY DEF Execute
<1>2. work[w] \in Work /\ work[w] # NoWork
  BY WorkerParts DEF Execute, IInv, TypeOK, WorkerInv, Busy
<1>3. /\ work'[w] = [work[w] EXCEPT !.output = out]
      /\ \A v \in Workers : v # w => work'[v] = work[v]
      /\ work' \in [Workers -> Work \cup {NoWork}]
      /\ work'[w] \in Work
  BY <1>1, <1>2 DEF IInv, TypeOK, Work
<1>4. /\ work'[w].input = work[w].input
      /\ work'[w].attempt = work[w].attempt
      /\ work'[w].lease = work[w].lease
      /\ work'[w].output = out
      /\ work'[w] # NoWork
  BY <1>2, <1>3, NoWorkAssumption DEF Work
<1>5. TypeOK'
  BY <1>3 DEF Execute, Goto, IInv, TypeOK, TasksTypeOK, Steps
<1>6. \A j \in Inputs : Moved(j)
  BY StillRows DEF Execute
<1>7. pc'[w] = "complete" /\ \A v \in Workers : v # w => pc'[v] = pc[v]
  BY DEF Execute, Goto, IInv, TypeOK
<1>8. WorkerInv(w)'
  BY <1>2, <1>4, <1>7, WorkerParts DEF Execute, WorkerInv, Busy, WorkConsistent, Absent
<1> QED
  BY <1>2, <1>3, <1>4, <1>5, <1>6, <1>7, <1>8, OneMoves DEF Execute

LEMMA ExecuteFailsInv ==
    ASSUME IInv, NEW w \in Workers, ExecuteFails(w)
    PROVE  IInv' /\ \A j \in Inputs : Moved(j)
<1>1. TypeOK'
  BY DEF ExecuteFails, Goto, IInv, TypeOK, TasksTypeOK, Steps
<1>2. \A j \in Inputs : Moved(j)
  BY StillRows DEF ExecuteFails
<1>3. work[w] # NoWork /\ work'[w] = work[w] /\ pc'[w] = "fail"
  BY WorkerParts DEF ExecuteFails, Goto, IInv, TypeOK, WorkerInv, Busy
<1>4. WorkerInv(w)'
  BY <1>3, WorkerParts DEF ExecuteFails, WorkerInv, Busy, WorkConsistent, Absent
<1> QED
  BY <1>1, <1>2, <1>3, <1>4, OneMoves DEF ExecuteFails, Goto, IInv, TypeOK

\* A worker at work on a task has an input, and a verified output at the end of it.
LEMMA AtWork ==
    ASSUME IInv, NEW w \in Workers, Busy(w) \/ pc[w] = "receipt"
    PROVE  /\ work[w] # NoWork
           /\ work[w] \in Work
           /\ work[w].input \in Inputs
           /\ WorkConsistent(w)
           /\ pc[w] \in {"complete", "receipt"} => work[w].output \in Outputs
<1>1. work[w] # NoWork /\ WorkConsistent(w)
  BY WorkerParts DEF WorkerInv
<1> QED
  BY <1>1 DEF IInv, TypeOK, Work, WorkConsistent

\* A transition of w's task after which w lets go, or a refused one.
LEMMA SettleInv ==
    ASSUME IInv, NEW w \in Workers, NEW i \in Inputs, NEW role,
           NEW status \in TerminalStatuses, NEW output \in Outputs \cup {NoOutput},
           Transition(i, role, status, output), LetGo(w), UNCHANGED receipts
    PROVE  IInv' /\ \A j \in Inputs : Moved(j)
<1>1. TypeOK'
  BY TransitionRows, LetGoInv DEF LetGo, IInv, TypeOK
<1>2. \A j \in Inputs : Moved(j)
  BY TransitionMoves DEF IInv, TypeOK
<1> QED
  BY <1>1, <1>2, OneMoves, LetGoInv DEF IInv

LEMMA RefusedInv ==
    ASSUME IInv, NEW w \in Workers, UNCHANGED <<tasks, nextTask>>, LetGo(w),
           UNCHANGED receipts
    PROVE  IInv' /\ \A j \in Inputs : Moved(j)
<1>1. TypeOK'
  BY LetGoInv DEF LetGo, IInv, TypeOK, TasksTypeOK
<1> QED
  BY <1>1, StillRows, OneMoves, LetGoInv DEF IInv

LEMMA FailInv ==
    ASSUME IInv, NEW w \in Workers, Fail(w)
    PROVE  IInv' /\ \A j \in Inputs : Moved(j)
<1>1. work[w].input \in Inputs
  BY AtWork DEF Fail, Busy
<1>2. CASE Transition(work[w].input, RoleOf[w], "failed", NoOutput)
  BY <1>1, <1>2, SettleInv DEF Fail, TerminalStatuses
<1>3. CASE UNCHANGED <<tasks, nextTask>>
  BY <1>3, RefusedInv DEF Fail
<1> QED
  BY <1>2, <1>3 DEF Fail

LEMMA ReportInv ==
    ASSUME IInv, NEW w \in Workers, Report(w)
    PROVE  IInv' /\ \A j \in Inputs : Moved(j)
<1>1. work[w].input \in Inputs
  BY AtWork DEF Report, Busy
<1>2. ASSUME NEW out \in Outputs, Transition(work[w].input, RoleOf[w], "succeeded", out)
      PROVE  IInv' /\ \A j \in Inputs : Moved(j)
  BY <1>1, <1>2, SettleInv DEF Report, TerminalStatuses
<1>3. ASSUME NEW status \in {"deferred", "failed"},
             Transition(work[w].input, RoleOf[w], status, NoOutput)
      PROVE  IInv' /\ \A j \in Inputs : Moved(j)
  <2>1. status \in TerminalStatuses
    BY DEF TerminalStatuses
  <2> QED
    BY <1>1, <1>3, <2>1, SettleInv DEF Report
<1>4. CASE UNCHANGED <<tasks, nextTask>>
  BY <1>4, RefusedInv DEF Report
<1> QED
  BY <1>2, <1>3, <1>4 DEF Report

\* The worker whose complete is recorded goes on to return a receipt for it.
LEMMA CompleteInv ==
    ASSUME IInv, NEW w \in Workers, Complete(w)
    PROVE  IInv' /\ \A j \in Inputs : Moved(j)
<1> DEFINE i == work[w].input
           out == work[w].output
<1>1. /\ work[w] # NoWork /\ i \in Inputs /\ out \in Outputs
      /\ WorkConsistent(w) /\ work[w].attempt \in Nat
  BY AtWork DEF Complete, Busy, Work
<1>2. CASE ~CanTransition(i, RoleOf[w])
  BY <1>2, RefusedInv DEF Complete, Transition
<1>3. CASE CanTransition(i, RoleOf[w])
  <2>1. /\ Transition(i, RoleOf[w], "succeeded", out)
        /\ Goto(w, "receipt")
        /\ UNCHANGED <<work, crashes, overruns, receipts>>
    BY <1>3 DEF Complete
  <2>2. TerminalStatuses # {} /\ "succeeded" \in TerminalStatuses
    BY DEF TerminalStatuses
  <2>3. /\ TasksTypeOK'
        /\ tasks[i].status = "running"
        /\ tasks'[i].status = "succeeded"
        /\ tasks'[i].output = out
        /\ tasks'[i].attempts = tasks[i].attempts
        /\ \A j \in Inputs : Moved(j)
    BY <1>1, <2>1, <2>2, TransitionRows, TransitionMoves DEF IInv, TypeOK
  <2>4. pc'[w] = "receipt" /\ \A v \in Workers : v # w => pc'[v] = pc[v]
    BY <2>1 DEF Goto, IInv, TypeOK
  <2>5. TypeOK'
    BY <2>1, <2>3 DEF Goto, IInv, TypeOK, Steps
  <2>6. WorkerInv(w)'
    BY <1>1, <2>1, <2>3, <2>4 DEF WorkerInv, WorkConsistent, Absent, Busy, Complete
  <2> QED
    BY <1>1, <2>1, <2>3, <2>4, <2>5, <2>6, OneMoves
<1> QED
  BY <1>2, <1>3

LEMMA ReturnReceiptInv ==
    ASSUME IInv, NEW w \in Workers, ReturnReceipt(w)
    PROVE  IInv' /\ \A j \in Inputs : Moved(j)
<1> DEFINE r == [input |-> work[w].input, output |-> work[w].output]
<1>1. /\ work[w].input \in Inputs /\ work[w].output \in Outputs
      /\ tasks[work[w].input].status = "succeeded"
      /\ tasks[work[w].input].output = work[w].output
  BY AtWork DEF ReturnReceipt, WorkConsistent
<1>2. receipts' = receipts \cup {r} /\ UNCHANGED <<tasks, nextTask>>
  BY DEF ReturnReceipt
<1>3. TypeOK'
  <2>1. receipts' \in SUBSET [input : Inputs, output : Outputs]
    BY <1>1, <1>2 DEF IInv, TypeOK
  <2> QED
    BY <1>2, <2>1, LetGoInv DEF ReturnReceipt, LetGo, IInv, TypeOK, TasksTypeOK
<1>4. \A j \in Inputs : Moved(j)
  BY <1>2, StillRows
<1>5. \A v \in Workers : WorkerInv(v)'
  BY <1>3, <1>4, KeptWork, LetGoInv, WorkerParts DEF ReturnReceipt, IInv
<1>6. ClaimsDistinct'
  BY LetGoInv DEF ReturnReceipt, IInv, ClaimsDistinct, Holds
<1>7. ReceiptsMatch'
  BY <1>1, <1>2 DEF IInv, ReceiptsMatch
<1> QED
  BY <1>3, <1>4, <1>5, <1>6, <1>7 DEF IInv, HasWorkIffBusy, WorkerInv

LEMMA CrashInv ==
    ASSUME IInv, NEW w \in Workers, Crash(w)
    PROVE  IInv' /\ \A j \in Inputs : Moved(j)
<1>1. /\ work'[w] = NoWork /\ pc'[w] = "idle"
      /\ \A v \in Workers : v # w => pc'[v] = pc[v] /\ work'[v] = work[v]
  BY DEF Crash, Goto, IInv, TypeOK
<1>2. TypeOK'
  <2>1. crashes' \in 0 .. MaxCrashes
    BY WorkersAssumption DEF Crash, IInv, TypeOK
  <2> QED
    BY <2>1 DEF Crash, Goto, IInv, TypeOK, TasksTypeOK, Steps
<1>3. \A j \in Inputs : Moved(j)
  BY StillRows DEF Crash
<1>4. WorkerInv(w)'
  BY <1>1 DEF WorkerInv, Busy
<1> QED
  BY <1>1, <1>2, <1>3, <1>4, OneMoves DEF Crash

\* The new claim's attempt is higher than that of any claim that is still held.
LEMMA ClaimInv ==
    ASSUME IInv, NEW w \in Workers, Claim(w)
    PROVE  IInv' /\ \A j \in Inputs : Moved(j)
<1>1. PICK i \in Inputs, lease \in 0 .. MaxLease :
        /\ ClaimNext(i, RoleOf[w], lease)
        /\ overruns' = overruns + (IF lease = 0 THEN 1 ELSE 0)
        /\ work' = [work EXCEPT ![w] =
                       [input |-> i, attempt |-> tasks[i].attempts + 1,
                        lease |-> lease, output |-> NoOutput]]
  BY DEF Claim
<1> DEFINE claimed == [input |-> i, attempt |-> tasks[i].attempts + 1,
                       lease |-> lease, output |-> NoOutput]
<1>2. /\ TasksTypeOK'
      /\ tasks[i].status = "queued"
      /\ tasks'[i].status = "running"
      /\ tasks'[i].attempts = tasks[i].attempts + 1
      /\ tasks'[i].lease = lease
      /\ \A j \in Inputs : j # i => tasks'[j] = tasks[j]
  BY <1>1, ClaimRows DEF IInv, TypeOK
<1>3. tasks[i].attempts \in Nat
  BY DEF IInv, TypeOK, TasksTypeOK, Row
<1>4. /\ claimed \in Work
      /\ claimed # NoWork
      /\ claimed.input = i
      /\ claimed.attempt = tasks[i].attempts + 1
      /\ claimed.lease = lease
  BY <1>3, NoWorkAssumption DEF Work
<1>5. work' = [work EXCEPT ![w] = claimed]
  BY <1>1
<1> HIDE DEF claimed
<1>6. /\ work'[w] = claimed
      /\ \A v \in Workers : v # w => work'[v] = work[v]
      /\ work' \in [Workers -> Work \cup {NoWork}]
  BY <1>4, <1>5 DEF IInv, TypeOK
<1>7. pc'[w] = "held" /\ \A v \in Workers : v # w => pc'[v] = pc[v]
  BY DEF Claim, Goto, IInv, TypeOK
<1>8. TypeOK'
  <2>1. overruns' \in Nat
    BY <1>1 DEF IInv, TypeOK
  <2> QED
    BY <1>2, <1>6, <2>1 DEF Claim, Goto, IInv, TypeOK, Steps
<1>9. \A j \in Inputs : Moved(j)
  BY <1>2 DEF Moved
<1>10. \A v \in Workers : WorkerInv(v)'
  <2>1. WorkerInv(w)'
    BY <1>2, <1>3, <1>4, <1>6, <1>7 DEF WorkerInv, WorkConsistent, Busy, Absent
  <2>2. ASSUME NEW v \in Workers, v # w PROVE WorkerInv(v)'
    BY <1>6, <1>7, <1>8, <1>9, <2>2, KeptWork, WorkerParts
  <2> QED
    BY <2>1, <2>2
<1>11. ClaimsDistinct'
  <2>1. ASSUME NEW v \in Workers, v # w, Holds(v, i)
        PROVE  work[v].attempt # claimed.attempt
    <3>1. WorkConsistent(v) /\ work[v].attempt \in Nat /\ work[v].input = i
      BY <2>1, WorkerParts DEF WorkerInv, Holds, IInv, TypeOK, Work
    <3> QED
      BY <1>3, <1>4, <3>1 DEF WorkConsistent
  <2>2. ASSUME NEW u \in Workers, NEW v \in Workers, NEW j \in Inputs,
               Holds(u, j)', Holds(v, j)', work'[u].attempt = work'[v].attempt, u # v
        PROVE  FALSE
    <3>1. CASE u # w /\ v # w
      BY <1>6, <2>2, <3>1 DEF IInv, ClaimsDistinct, Holds
    <3>2. CASE u = w
      BY <1>4, <1>6, <2>1, <2>2, <3>2 DEF Holds
    <3>3. CASE v = w
      BY <1>4, <1>6, <2>1, <2>2, <3>3 DEF Holds
    <3> QED
      BY <3>1, <3>2, <3>3
  <2> QED
    BY <2>2 DEF ClaimsDistinct
<1>12. ReceiptsMatch'
  BY <1>9, ReceiptsKept DEF Claim, IInv, ReceiptsMatch
<1> QED
  BY <1>8, <1>9, <1>10, <1>11, <1>12 DEF IInv, HasWorkIffBusy, WorkerInv

\* Time wears down the lease of a row and of its claim alike.
LEMMA TickInv ==
    ASSUME IInv, Tick
    PROVE  IInv' /\ \A j \in Inputs : Settled(j) => tasks'[j] = tasks[j]
<1>1. /\ TasksTypeOK'
      /\ \A j \in Inputs :
           /\ tasks[j].status = "running" => tasks'[j].lease = Shorter(tasks[j].lease)
           /\ tasks[j].status # "running" => tasks'[j] = tasks[j]
           /\ tasks'[j].status = tasks[j].status
           /\ tasks'[j].attempts = tasks[j].attempts
           /\ tasks'[j].output = tasks[j].output
  BY TickRows DEF Tick, IInv, TypeOK
<1>2. ASSUME NEW w \in Workers
      PROVE  /\ work'[w] \in Work \cup {NoWork}
             /\ work'[w] = NoWork <=> work[w] = NoWork
             /\ work[w] # NoWork =>
                  /\ work'[w].input = work[w].input
                  /\ work'[w].attempt = work[w].attempt
                  /\ work'[w].output = work[w].output
                  /\ work'[w].lease = Shorter(work[w].lease)
  <2>1. CASE work[w] = NoWork
    BY <2>1 DEF Tick
  <2>2. CASE work[w] # NoWork
    <3>1. work[w] \in Work /\ Shorter(work[w].lease) \in 0 .. MaxLease
      BY <2>2, SchedulerAssumption DEF IInv, TypeOK, Work, Shorter
    <3>2. work'[w] = [work[w] EXCEPT !.lease = Shorter(work[w].lease)]
      BY <2>2 DEF Tick
    <3> QED
      BY <2>2, <3>1, <3>2, NoWorkAssumption DEF Work
  <2> QED
    BY <2>1, <2>2
<1>3. TypeOK'
  <2>1. Cardinality(Overrunning) \in Nat
    BY WorkersAssumption, FS_Subset, FS_CardinalityType DEF Overrunning
  <2>2. overruns' \in Nat
    BY <2>1 DEF Tick, IInv, TypeOK
  <2> QED
    BY <1>1, <1>2, <2>2 DEF Tick, IInv, TypeOK
<1>4. ASSUME NEW w \in Workers, work[w] # NoWork PROVE WorkConsistent(w)'
  <2> DEFINE i == work[w].input
  <2>1. /\ WorkConsistent(w)
        /\ i \in Inputs /\ work[w].lease \in Nat /\ tasks[i].lease \in Nat
        /\ work[w].attempt \in Nat /\ tasks[i].attempts \in Nat
    BY <1>4, WorkerParts, SchedulerAssumption
       DEF WorkerInv, IInv, TypeOK, TasksTypeOK, Work, Row
  <2>2. /\ work'[w].input = i
        /\ work'[w].attempt = work[w].attempt
        /\ work'[w].output = work[w].output
        /\ work'[w].lease = Shorter(work[w].lease)
        /\ pc'[w] = pc[w]
    BY <1>2, <1>4 DEF Tick
  <2>3. /\ tasks[i].status = "running" => tasks'[i].lease = Shorter(tasks[i].lease)
        /\ tasks'[i].status = tasks[i].status
        /\ tasks'[i].attempts = tasks[i].attempts
        /\ tasks'[i].output = tasks[i].output
    BY <1>1, <2>1
  <2>4. work[w].lease = 0 => Shorter(work[w].lease) = 0
    BY DEF Shorter
  <2> QED
    BY <2>1, <2>2, <2>3, <2>4 DEF WorkConsistent, Absent
<1>5. HasWorkIffBusy'
  BY <1>2 DEF Tick, IInv, HasWorkIffBusy, Busy
<1>6. ClaimsDistinct'
  BY <1>2 DEF IInv, ClaimsDistinct, Holds
<1>7. ReceiptsMatch'
  BY <1>1 DEF Tick, IInv, TypeOK, ReceiptsMatch
<1> QED
  BY <1>1, <1>3, <1>4, <1>5, <1>6, <1>7, <1>2 DEF IInv, Settled, TerminalStatuses

-----------------------------------------------------------------------------
(* The theorems.                                                           *)

\* What every step keeps: the invariant, and settled rows.
LEMMA NextInv ==
    ASSUME IInv, Next
    PROVE  IInv' /\ \A i \in Inputs : Settled(i) => tasks'[i] = tasks[i]
<1>1. CASE Dispatch
  BY <1>1, DispatchInv, SettledStays
<1>2. CASE Tick
  BY <1>2, TickInv
<1>3. ASSUME NEW w \in Workers, Step(w) \/ Crash(w)
      PROVE  IInv' /\ \A i \in Inputs : Moved(i)
  <2>1. CASE Recover(w)
    BY <2>1, RecoverInv
  <2>2. CASE Claim(w)
    BY <2>2, ClaimInv
  <2>3. CASE FindNothing(w)
    BY <2>3, FindNothingInv
  <2>4. CASE Refuse(w)
    BY <2>4, RefuseInv
  <2>5. CASE Report(w)
    BY <2>5, ReportInv
  <2>6. ASSUME NEW a \in Adapters, NEW matches \in BOOLEAN, Bind(w, a, matches)
        PROVE  IInv' /\ \A i \in Inputs : Moved(i)
    BY <2>6, BindInv
  <2>7. CASE Execute(w)
    BY <2>7, ExecuteInv
  <2>8. CASE ExecuteFails(w)
    BY <2>8, ExecuteFailsInv
  <2>9. CASE Complete(w)
    BY <2>9, CompleteInv
  <2>10. CASE ReturnReceipt(w)
    BY <2>10, ReturnReceiptInv
  <2>11. CASE Fail(w)
    BY <2>11, FailInv
  <2>12. CASE Crash(w)
    BY <2>12, CrashInv
  <2>13. CASE Authorize(w)
    BY <2>13, AuthorizeInv
  <2> QED
    BY <1>3, <2>1, <2>2, <2>3, <2>4, <2>5, <2>6, <2>7, <2>8, <2>9, <2>10, <2>11, <2>12, <2>13
       DEF Step, Try
<1> QED
  BY <1>1, <1>2, <1>3, SettledStays DEF Next

LEMMA StutterInv ==
    ASSUME IInv, UNCHANGED vars
    PROVE  IInv'
BY DEF vars, IInv, TypeOK, TasksTypeOK, HasWorkIffBusy, Busy, WorkConsistent, Absent,
       ClaimsDistinct, Holds, ReceiptsMatch

\* The inductive invariant: rows, claims and receipts agree in every reachable state.
THEOREM Invariant == Spec => []IInv
<1>1. IInv /\ [Next]_vars => IInv'
  BY NextInv, StutterInv
<1> QED
  BY <1>1, InitInv, PTL DEF Spec

\* The variables keep their types.
THEOREM TypeCorrectness == Spec => []TypeOK
<1>1. IInv => TypeOK
  BY DEF IInv
<1> QED
  BY <1>1, Invariant, PTL

\* An adapter returns a receipt only for the output that the scheduler has on record.
THEOREM ReceiptsAreOnRecord == Spec => []ReceiptsMatch
<1>1. IInv => ReceiptsMatch
  BY DEF IInv
<1> QED
  BY <1>1, Invariant, PTL

\* While a lease is active its task is not claimed again: two workers on the same task
\* have different claims, and that of the earlier has run out.
THEOREM LeasesExclude == Spec => []NoDuplicateWithinLease
<1>1. ASSUME IInv PROVE NoDuplicateWithinLease
  <2>1. SUFFICES ASSUME NEW v \in Workers, NEW w \in Workers, NEW i \in Inputs,
                        Holds(v, i), Holds(w, i), v # w
                 PROVE  /\ work[v].attempt # work[w].attempt
                        /\ work[v].attempt < work[w].attempt => work[v].lease = 0
    BY DEF NoDuplicateWithinLease
  <2>2. /\ WorkConsistent(v) /\ WorkConsistent(w)
        /\ work[v].attempt \in Nat /\ work[w].attempt \in Nat
        /\ tasks[i].attempts \in Nat
        /\ work[v].input = i /\ work[w].input = i
    BY <1>1, <2>1 DEF IInv, Holds, TypeOK, TasksTypeOK, Work, Row
  <2> QED
    BY <1>1, <2>1, <2>2 DEF IInv, ClaimsDistinct, WorkConsistent
<1> QED
  BY <1>1, Invariant, PTL

\* A settled task is never reopened or rewritten by any step of anybody.
THEOREM SettledTasksAreFrozen == Spec => SettledForever
<1>1. IInv /\ [Next]_vars => [\A i \in Inputs : Settled(i) => tasks'[i] = tasks[i]]_vars
  BY NextInv
<1> QED
  BY <1>1, Invariant, PTL DEF Spec, SettledForever

-----------------------------------------------------------------------------
(* What holds as long as every lease covers the work done under it         *)
(* (overruns = 0), whatever crashes: a worker's task stays its own.        *)

\* A worker that has not settled its task holds the running claim of the row, with
\* some of the lease left.
Owns(w) ==
    Busy(w) =>
        /\ tasks[work[w].input].status = "running"
        /\ tasks[work[w].input].attempts = work[w].attempt
        /\ work[w].lease > 0

\* ClaimIsOwn, made inductive: no lease has run out, and none is over.
OwnInv == overruns = 0 /\ \A w \in Workers : Owns(w)

-----------------------------------------------------------------------------

\* What w owns is not touched by a step that leaves w and its row alone.
LEMMA KeptOwn ==
    ASSUME NEW w \in Workers, Owns(w), pc'[w] = pc[w], work'[w] = work[w],
           Busy(w) => tasks'[work[w].input] = tasks[work[w].input]
    PROVE  Owns(w)'
BY DEF Owns, Busy

\* Two workers at work own two different tasks.
LEMMA OwnersApart ==
    ASSUME IInv, OwnInv, NEW v \in Workers, NEW w \in Workers, v # w, Busy(v), Busy(w)
    PROVE  work[v].input # work[w].input
<1>1. work[v] # NoWork /\ work[w] # NoWork /\ work[v].input \in Inputs
  BY AtWork
<1> QED
  BY <1>1 DEF IInv, ClaimsDistinct, Holds, OwnInv, Owns

LEMMA DispatchOwn ==
    ASSUME IInv, OwnInv, Dispatch
    PROVE  OwnInv'
<1>1. PICK i \in Inputs, req \in Requests : Enqueue(i, req)
  BY DEF Dispatch
<1>2. Absent(i) /\ \A j \in Inputs : j # i => tasks'[j] = tasks[j]
  BY <1>1, EnqueueRows DEF IInv, TypeOK
<1>3. ASSUME NEW w \in Workers PROVE Owns(w)'
  <2>1. Busy(w) => work[w].input \in Inputs /\ work[w].input # i
    BY <1>2, AtWork DEF OwnInv, Owns, Absent
  <2> QED
    BY <1>2, <2>1, KeptOwn DEF Dispatch, workVars, OwnInv
<1> QED
  BY <1>3 DEF Dispatch, workVars, OwnInv

\* Only expired claims are recovered, and those are of workers that are dead.
LEMMA RecoverOwn ==
    ASSUME IInv, OwnInv, NEW w \in Workers, Recover(w)
    PROVE  OwnInv'
<1>1. ASSUME NEW v \in Workers PROVE Owns(v)'
  <2>1. CASE v = w
    BY <2>1 DEF Recover, Goto, IInv, TypeOK, Owns, Busy
  <2>2. CASE v # w
    <3>1. pc'[v] = pc[v] /\ work'[v] = work[v]
      BY <2>2 DEF Recover, Goto, IInv, TypeOK
    <3>2. ASSUME Busy(v) PROVE tasks'[work[v].input] = tasks[work[v].input]
      <4>1. work[v].input \in Inputs /\ WorkConsistent(v)
        BY <3>2, AtWork
      <4>2. ~Expired(work[v].input)
        BY <3>2, <4>1 DEF Expired, WorkConsistent, OwnInv, Owns
      <4> QED
        BY <4>1, <4>2, RecoverRows DEF Recover, IInv, TypeOK
    <3> QED
      BY <3>1, <3>2, KeptOwn DEF OwnInv
  <2> QED
    BY <2>1, <2>2
<1> QED
  BY <1>1 DEF Recover, OwnInv

LEMMA ClaimOwn ==
    ASSUME IInv, OwnInv, overruns' = 0, NEW w \in Workers, Claim(w)
    PROVE  OwnInv'
<1>1. PICK i \in Inputs, lease \in 0 .. MaxLease :
        /\ overruns + (IF lease = 0 THEN 1 ELSE 0) <= MaxOverruns
        /\ ClaimNext(i, RoleOf[w], lease)
        /\ overruns' = overruns + (IF lease = 0 THEN 1 ELSE 0)
        /\ work' = [work EXCEPT ![w] =
                       [input |-> i, attempt |-> tasks[i].attempts + 1,
                        lease |-> lease, output |-> NoOutput]]
  BY DEF Claim
<1>2. lease > 0 /\ overruns' = 0
  BY <1>1, SchedulerAssumption DEF OwnInv
<1>3. /\ tasks[i].status = "queued"
      /\ tasks'[i].status = "running"
      /\ tasks'[i].attempts = tasks[i].attempts + 1
      /\ \A j \in Inputs : j # i => tasks'[j] = tasks[j]
  BY <1>1, ClaimRows DEF IInv, TypeOK
<1>4. ASSUME NEW v \in Workers PROVE Owns(v)'
  <2>1. CASE v = w
    <3>1. work'[w] = [input |-> i, attempt |-> tasks[i].attempts + 1,
                      lease |-> lease, output |-> NoOutput]
      BY <1>1 DEF IInv, TypeOK
    <3> QED
      BY <1>2, <1>3, <2>1, <3>1 DEF Owns
  <2>2. CASE v # w
    <3>1. pc'[v] = pc[v] /\ work'[v] = work[v]
      BY <1>1, <2>2 DEF Claim, Goto, IInv, TypeOK
    <3>2. Busy(v) => work[v].input \in Inputs /\ work[v].input # i
      BY <1>3, AtWork DEF OwnInv, Owns
    <3> QED
      BY <1>3, <3>1, <3>2, KeptOwn DEF OwnInv
  <2> QED
    BY <2>1, <2>2
<1> QED
  BY <1>2, <1>4 DEF OwnInv

\* A worker moves on with its own task, or lets go of it; rows stay as they are.
LEMMA LocalOwn ==
    ASSUME IInv, OwnInv, NEW w \in Workers, UNCHANGED <<tasks, overruns>>,
           \A v \in Workers : v # w => pc'[v] = pc[v] /\ work'[v] = work[v],
           \/ pc'[w] \in {"idle", "receipt"}
           \/ /\ Busy(w)
              /\ work'[w].input = work[w].input
              /\ work'[w].attempt = work[w].attempt
              /\ work'[w].lease = work[w].lease
    PROVE  OwnInv'
<1>1. ASSUME NEW v \in Workers PROVE Owns(v)'
  <2>1. CASE v = w
    BY <2>1 DEF OwnInv, Owns, Busy
  <2>2. CASE v # w
    BY <2>2, KeptOwn DEF OwnInv
  <2> QED
    BY <2>1, <2>2
<1> QED
  BY <1>1 DEF OwnInv

\* A worker settles the task that it owns, which is nobody else's.
LEMMA TransitionOwn ==
    ASSUME IInv, OwnInv, NEW w \in Workers, Busy(w), NEW status \in TerminalStatuses,
           NEW output \in Outputs \cup {NoOutput},
           Transition(work[w].input, RoleOf[w], status, output), UNCHANGED overruns,
           \A v \in Workers : v # w => pc'[v] = pc[v] /\ work'[v] = work[v],
           pc'[w] \in {"idle", "receipt"}
    PROVE  OwnInv'
<1>1. work[w].input \in Inputs
  BY AtWork
<1>2. \A j \in Inputs : j # work[w].input => tasks'[j] = tasks[j]
  BY <1>1, TransitionRows DEF IInv, TypeOK
<1>3. ASSUME NEW v \in Workers PROVE Owns(v)'
  <2>1. CASE v = w
    BY <2>1 DEF Owns, Busy
  <2>2. CASE v # w
    <3>1. Busy(v) => work[v].input \in Inputs /\ work[v].input # work[w].input
      BY <2>2, AtWork, OwnersApart
    <3> QED
      BY <1>2, <2>2, <3>1, KeptOwn DEF OwnInv
  <2> QED
    BY <2>1, <2>2
<1> QED
  BY <1>3 DEF OwnInv

\* Time passes only while no lease is about to run out under a live worker.
LEMMA TickOwn ==
    ASSUME IInv, OwnInv, overruns' = 0, Tick
    PROVE  OwnInv'
<1>1. IsFiniteSet(Overrunning)
  BY WorkersAssumption, FS_Subset DEF Overrunning
<1>2. Cardinality(Overrunning) = 0 /\ overruns' = 0
  BY <1>1, FS_CardinalityType DEF Tick, OwnInv
<1>3. Overrunning = {}
  BY <1>1, <1>2, FS_EmptySet
<1>4. ASSUME NEW w \in Workers, Busy(w) PROVE Owns(w)'
  <2>1. /\ work[w] # NoWork /\ work[w] \in Work /\ work[w].input \in Inputs
        /\ work[w].lease \in Nat /\ work[w].lease > 0 /\ work[w].lease # 1
    BY <1>3, <1>4, AtWork, SchedulerAssumption DEF Overrunning, Work, OwnInv, Owns
  <2>2. /\ work'[w].input = work[w].input
        /\ work'[w].attempt = work[w].attempt
        /\ work'[w].lease = work[w].lease - 1
    BY <2>1 DEF Tick, Shorter, Work
  <2>3. /\ tasks'[work[w].input].status = tasks[work[w].input].status
        /\ tasks'[work[w].input].attempts = tasks[work[w].input].attempts
    BY <2>1, TickRows DEF Tick, IInv, TypeOK
  <2> QED
    BY <1>4, <2>1, <2>2, <2>3 DEF OwnInv, Owns
<1> QED
  BY <1>2, <1>4 DEF OwnInv, Owns, Busy, Tick

\* A worker is dead or has returned: it owns nothing.
LEMMA CrashOwn ==
    ASSUME IInv, OwnInv, NEW w \in Workers, Crash(w)
    PROVE  OwnInv'
BY LocalOwn DEF Crash, Goto, IInv, TypeOK

\* Whatever one worker does between its claim and its return.
LEMMA TryOwn ==
    ASSUME IInv, OwnInv, NEW w \in Workers, Try(w)
    PROVE  OwnInv'
<1>1. CASE Refuse(w)
  BY <1>1, LocalOwn DEF Refuse, LetGo, Goto, IInv, TypeOK
<1>2. CASE Report(w)
  <2>1. /\ Busy(w) /\ UNCHANGED overruns
        /\ \A v \in Workers : v # w => pc'[v] = pc[v] /\ work'[v] = work[v]
        /\ pc'[w] = "idle"
    BY <1>2 DEF Report, LetGo, Goto, IInv, TypeOK, Busy
  <2>2. CASE \E out \in Outputs :
               Transition(work[w].input, RoleOf[w], "succeeded", out)
    <3>1. PICK out \in Outputs : Transition(work[w].input, RoleOf[w], "succeeded", out)
      BY <2>2
    <3> QED
      BY <2>1, <3>1, TransitionOwn DEF TerminalStatuses
  <2>3. CASE \E status \in {"deferred", "failed"} :
               Transition(work[w].input, RoleOf[w], status, NoOutput)
    <3>1. PICK status \in {"deferred", "failed"} :
             Transition(work[w].input, RoleOf[w], status, NoOutput)
      BY <2>3
    <3> QED
      BY <2>1, <3>1, TransitionOwn DEF TerminalStatuses
  <2>4. CASE UNCHANGED <<tasks, nextTask>>
    BY <2>1, <2>4, LocalOwn
  <2> QED
    BY <1>2, <2>2, <2>3, <2>4 DEF Report
<1>3. CASE Authorize(w)
  BY <1>3, LocalOwn DEF Authorize, Goto, Busy, IInv, TypeOK
<1>4. ASSUME NEW a \in Adapters, NEW matches \in BOOLEAN, Bind(w, a, matches)
      PROVE  OwnInv'
  BY <1>4, LocalOwn DEF Bind, Goto, Busy, IInv, TypeOK
<1> QED
  BY <1>1, <1>2, <1>3, <1>4 DEF Try

LEMMA ExecuteOwn ==
    ASSUME IInv, OwnInv, NEW w \in Workers, Execute(w) \/ ExecuteFails(w)
    PROVE  OwnInv'
<1>1. CASE Execute(w)
  <2>1. PICK out \in Outputs : work' = [work EXCEPT ![w].output = out]
    BY <1>1 DEF Execute
  <2>2. work[w] \in Work
    BY <1>1, AtWork DEF Execute, Busy
  <2>3. /\ work'[w].input = work[w].input
        /\ work'[w].attempt = work[w].attempt
        /\ work'[w].lease = work[w].lease
        /\ \A v \in Workers : v # w => work'[v] = work[v]
    BY <2>1, <2>2 DEF IInv, TypeOK, Work
  <2> QED
    BY <1>1, <2>3, LocalOwn DEF Execute, Goto, Busy, IInv, TypeOK
<1>2. CASE ExecuteFails(w)
  BY <1>2, LocalOwn DEF ExecuteFails, Goto, Busy, IInv, TypeOK
<1> QED
  BY <1>1, <1>2

LEMMA SettleOwn ==
    ASSUME IInv, OwnInv, NEW w \in Workers, Complete(w) \/ ReturnReceipt(w) \/ Fail(w)
    PROVE  OwnInv'
<1>1. CASE Complete(w)
  <2>1. /\ Busy(w) /\ UNCHANGED overruns /\ pc'[w] \in {"idle", "receipt"}
        /\ \A v \in Workers : v # w => pc'[v] = pc[v] /\ work'[v] = work[v]
    BY <1>1 DEF Complete, LetGo, Goto, IInv, TypeOK, Busy
  <2>2. CASE Transition(work[w].input, RoleOf[w], "succeeded", work[w].output)
    <3>1. work[w].output \in Outputs \cup {NoOutput}
      BY <2>1, AtWork DEF Work
    <3> QED
      BY <2>1, <2>2, <3>1, TransitionOwn DEF TerminalStatuses
  <2>3. CASE UNCHANGED <<tasks, nextTask>>
    BY <2>1, <2>3, LocalOwn
  <2> QED
    BY <1>1, <2>2, <2>3 DEF Complete
<1>2. CASE ReturnReceipt(w)
  BY <1>2, LocalOwn DEF ReturnReceipt, LetGo, Goto, IInv, TypeOK
<1>3. CASE Fail(w)
  <2>1. /\ Busy(w) /\ UNCHANGED overruns /\ pc'[w] = "idle"
        /\ \A v \in Workers : v # w => pc'[v] = pc[v] /\ work'[v] = work[v]
    BY <1>3 DEF Fail, LetGo, Goto, IInv, TypeOK, Busy
  <2>2. CASE Transition(work[w].input, RoleOf[w], "failed", NoOutput)
    BY <2>1, <2>2, TransitionOwn DEF TerminalStatuses
  <2>3. CASE UNCHANGED <<tasks, nextTask>>
    BY <2>1, <2>3, LocalOwn
  <2> QED
    BY <1>3, <2>2, <2>3 DEF Fail
<1> QED
  BY <1>1, <1>2, <1>3

LEMMA NextOwn ==
    ASSUME IInv, OwnInv, overruns' = 0, [Next]_vars
    PROVE  OwnInv'
<1>1. CASE UNCHANGED vars
  BY <1>1 DEF vars, OwnInv, Owns, Busy
<1>2. CASE Dispatch
  BY <1>2, DispatchOwn
<1>3. CASE Tick
  BY <1>3, TickOwn
<1>4. ASSUME NEW w \in Workers, Step(w) \/ Crash(w) PROVE OwnInv'
  <2>1. CASE FindNothing(w)
    BY <2>1, LocalOwn DEF FindNothing, Goto, IInv, TypeOK
  <2> QED
    BY <1>4, <2>1, RecoverOwn, ClaimOwn, TryOwn, ExecuteOwn, SettleOwn, CrashOwn DEF Step
<1> QED
  BY <1>1, <1>2, <1>3, <1>4 DEF Next

\* An overrun is never forgotten.
LEMMA OverrunsStay ==
    ASSUME IInv, [Next]_vars, overruns' = 0
    PROVE  overruns = 0
<1>1. overruns \in Nat
  BY DEF IInv, TypeOK
<1>2. CASE UNCHANGED overruns
  BY <1>2
<1>3. CASE Tick
  <2>1. IsFiniteSet(Overrunning)
    BY WorkersAssumption, FS_Subset DEF Overrunning
  <2> QED
    BY <1>1, <1>3, <2>1, FS_CardinalityType DEF Tick
<1>4. ASSUME NEW w \in Workers, Claim(w) PROVE overruns = 0
  BY <1>1, <1>4 DEF Claim
<1>5. ASSUME NEW w \in Workers, Step(w), ~Claim(w) PROVE UNCHANGED overruns
  BY <1>5 DEF Step, Recover, FindNothing, Try, Refuse, Report, Authorize, Bind, Execute,
              ExecuteFails, Complete, ReturnReceipt, Fail, LetGo
<1> QED
  BY <1>2, <1>3, <1>4, <1>5 DEF Next, vars, Dispatch, workVars, Crash

\* As long as every lease has covered its work, nobody but its worker settles or
\* recovers a task that is being worked on, whatever crashes.
THEOREM TasksStayOwned == Spec => []ClaimIsOwn
<1> DEFINE TimelyInv == overruns = 0 => OwnInv
<1>1. Init => TimelyInv
  BY DEF Init, OwnInv, Owns, Busy
<1>2. IInv /\ TimelyInv /\ [Next]_vars => TimelyInv'
  <2> SUFFICES ASSUME IInv, TimelyInv, [Next]_vars, overruns' = 0 PROVE OwnInv'
    OBVIOUS
  <2>1. overruns = 0
    BY OverrunsStay
  <2> QED
    BY <2>1, NextOwn
<1>3. TimelyInv => ClaimIsOwn
  BY DEF OwnInv, Owns, ClaimIsOwn
<1> QED
  BY <1>1, <1>2, <1>3, Invariant, PTL DEF Spec
=============================================================================
