------------------------- MODULE FactoryBoardProofs -------------------------
(***************************************************************************)
(* Proofs that the budget bounds the open tasks, and that the scheduler    *)
(* and its workers implement TaskBoard.                                    *)
(***************************************************************************)
EXTENDS FactoryProofs, Sums

-----------------------------------------------------------------------------
(* The budget.                                                             *)

\* BudgetRespected, made inductive: what is open is what was asked for.
BudgetInv ==
    /\ \A i \in Inputs : Active(i) => tasks[i].req \in Requests
    /\ ActiveBudget <= MaxActiveBudget

\* What an input adds to the budget, and all of them.
Units == [i \in Inputs |-> IF Active(i) THEN tasks[i].req.units ELSE 0]

LEMMA UnitsType ==
    ASSUME BudgetInv
    PROVE  Units \in [Inputs -> Nat] /\ Units \in [Inputs -> Int]
           /\ ActiveBudget = SumFunction(Units)
BY SchedulerAssumption DEF BudgetInv, Units, Request, ActiveBudget

\* A step that opens no task leaves no more units open than there were.
LEMMA BudgetShrinks ==
    ASSUME BudgetInv,
           \A j \in Inputs : tasks'[j].req = tasks[j].req /\ (Active(j)' => Active(j))
    PROVE  BudgetInv'
<1>1. \A i \in Inputs : Active(i)' => tasks'[i].req \in Requests
  BY DEF BudgetInv
<1>2. /\ Units \in [Inputs -> Nat] /\ Units \in [Inputs -> Int]
      /\ ActiveBudget = SumFunction(Units)
  BY UnitsType
<1>3. /\ Units' \in [Inputs -> Nat] /\ Units' \in [Inputs -> Int]
      /\ ActiveBudget' = SumFunction(Units')
  BY <1>1, SchedulerAssumption DEF Units, Request, ActiveBudget
<1>4. \A j \in Inputs : Units'[j] <= Units[j]
  BY <1>2, <1>3 DEF Units
<1>5. SumFunction(Units') <= SumFunction(Units)
  BY <1>2, <1>3, <1>4, SumMonotone, SchedulerAssumption
<1>6. SumFunction(Units') \in Nat /\ SumFunction(Units) \in Nat
  BY <1>2, <1>3, SumIsNatural, SchedulerAssumption
<1> QED
  BY <1>1, <1>2, <1>3, <1>5, <1>6, SchedulerAssumption DEF BudgetInv

\* enqueue adds its units, for which there is room.
LEMMA DispatchBudget ==
    ASSUME IInv, BudgetInv, Dispatch
    PROVE  BudgetInv'
<1>1. PICK i \in Inputs, req \in Requests : Enqueue(i, req)
  BY DEF Dispatch
<1>2. /\ Absent(i)
      /\ tasks'[i].status = "queued" /\ tasks'[i].req = req
      /\ \A j \in Inputs : j # i => tasks'[j] = tasks[j]
  BY <1>1, EnqueueRows DEF IInv, TypeOK
<1>3. \A j \in Inputs : Active(j)' => tasks'[j].req \in Requests
  BY <1>2 DEF BudgetInv, Active
<1>4. /\ Units \in [Inputs -> Nat] /\ Units \in [Inputs -> Int]
      /\ ActiveBudget = SumFunction(Units)
  BY UnitsType
<1>5. /\ Units' \in [Inputs -> Nat] /\ Units' \in [Inputs -> Int]
      /\ ActiveBudget' = SumFunction(Units')
  BY <1>3, SchedulerAssumption DEF Units, Request, ActiveBudget
<1>6. Units[i] = 0 /\ Units'[i] = req.units /\ \A j \in Inputs : j # i => Units'[j] = Units[j]
  BY <1>2 DEF Units, Active, Absent, ActiveStatuses
<1>7. SumFunction(Units') = SumFunction(Units) - Units[i] + Units'[i]
  BY <1>4, <1>5, <1>6, SumOfChange, SchedulerAssumption
<1>8. ActiveBudget + req.units <= MaxActiveBudget /\ req.units \in Nat
  BY <1>1, SchedulerAssumption DEF Enqueue, Request
<1>9. SumFunction(Units) \in Nat
  BY <1>4, SumIsNatural, SchedulerAssumption
<1> QED
  BY <1>3, <1>4, <1>5, <1>6, <1>7, <1>8, <1>9 DEF BudgetInv

\* A settled task leaves the budget.
LEMMA TransitionBudget ==
    ASSUME TasksTypeOK, BudgetInv, NEW i \in Inputs, NEW role,
           NEW status \in TerminalStatuses, NEW output \in Outputs \cup {NoOutput},
           Transition(i, role, status, output)
    PROVE  BudgetInv'
<1>1. /\ tasks[i].status = "running"
      /\ tasks'[i].req = tasks[i].req
      /\ \A j \in Inputs : j # i => tasks'[j] = tasks[j]
  BY TransitionRows
<1>2. \A j \in Inputs : tasks'[j].req = tasks[j].req /\ (Active(j)' => Active(j))
  BY <1>1 DEF Active, ActiveStatuses
<1> QED
  BY <1>2, BudgetShrinks

LEMMA StepBudget ==
    ASSUME IInv, BudgetInv, NEW w \in Workers, Step(w)
    PROVE  BudgetInv'
<1>t. TasksTypeOK
  BY DEF IInv, TypeOK
<1>1. CASE Recover(w)
  <2>1. \A j \in Inputs : tasks'[j].req = tasks[j].req /\ (Active(j)' => Active(j))
    BY <1>1, <1>t, RecoverRows DEF Recover, Expired, Active, ActiveStatuses
  <2> QED
    BY <2>1, BudgetShrinks
<1>2. CASE Claim(w)
  <2>1. PICK i \in Inputs, lease \in 0 .. MaxLease : ClaimNext(i, RoleOf[w], lease)
    BY <1>2 DEF Claim
  <2>2. \A j \in Inputs : tasks'[j].req = tasks[j].req /\ (Active(j)' => Active(j))
    BY <1>t, <2>1, ClaimRows DEF Active, ActiveStatuses
  <2> QED
    BY <2>2, BudgetShrinks
<1>3. CASE UNCHANGED tasks
  BY <1>3, BudgetShrinks DEF Active
<1>4. CASE Complete(w)
  <2>1. work[w].input \in Inputs /\ work[w].output \in Outputs
    BY <1>4, AtWork DEF Complete, Busy
  <2>2. "succeeded" \in TerminalStatuses
    BY DEF TerminalStatuses
  <2> QED
    BY <1>t, <1>3, <1>4, <2>1, <2>2, TransitionBudget DEF Complete
<1>5. CASE Fail(w)
  <2>1. work[w].input \in Inputs /\ "failed" \in TerminalStatuses
    BY <1>5, AtWork DEF Fail, Busy, TerminalStatuses
  <2> QED
    BY <1>t, <1>3, <1>5, <2>1, TransitionBudget DEF Fail
<1>6. CASE Report(w)
  <2>1. work[w].input \in Inputs /\ {"succeeded", "deferred", "failed"} \subseteq TerminalStatuses
    BY <1>6, AtWork DEF Report, Busy, TerminalStatuses
  <2> QED
    BY <1>t, <1>3, <1>6, <2>1, TransitionBudget DEF Report
<1>7. CASE FindNothing(w) \/ Refuse(w) \/ Execute(w) \/ ExecuteFails(w) \/ ReturnReceipt(w)
          \/ Authorize(w) \/ \E a \in Adapters, matches \in BOOLEAN : Bind(w, a, matches)
  BY <1>3, <1>7 DEF FindNothing, Refuse, Execute, ExecuteFails, ReturnReceipt, Authorize, Bind
<1> QED
  BY <1>1, <1>2, <1>4, <1>5, <1>6, <1>7 DEF Step, Try

LEMMA InitBudget == Init => BudgetInv
<1> SUFFICES ASSUME Init PROVE BudgetInv
  OBVIOUS
<1>1. \A i \in Inputs : ~Active(i)
  BY DEF Init, TasksInit, NoRow, Active, ActiveStatuses
<1> DEFINE none == [i \in Inputs |-> 0]
<1>2. Units = none /\ ActiveBudget = SumFunction(Units)
  BY <1>1 DEF Units, ActiveBudget
<1>3. SumFunction(none) = 0
  BY SumOfZeros, SchedulerAssumption
<1> QED
  BY <1>1, <1>2, <1>3, SchedulerAssumption DEF BudgetInv

\* Whatever is requested, recovered, claimed again and settled in whatever order, the
\* units of the open tasks never exceed max_active_budget.
THEOREM BudgetBounds == Spec => []BudgetRespected
<1>1. IInv /\ BudgetInv /\ [Next]_vars => BudgetInv'
  <2> SUFFICES ASSUME IInv, BudgetInv, [Next]_vars PROVE BudgetInv'
    OBVIOUS
  <2>1. CASE Dispatch
    BY <2>1, DispatchBudget
  <2>2. CASE Tick
    <3>1. \A j \in Inputs : tasks'[j].req = tasks[j].req /\ (Active(j)' => Active(j))
      BY <2>2, TickRows DEF Tick, IInv, TypeOK, Active
    <3> QED
      BY <3>1, BudgetShrinks
  <2>3. ASSUME NEW w \in Workers, Step(w) PROVE BudgetInv'
    BY <2>3, StepBudget
  <2>4. CASE UNCHANGED vars \/ \E w \in Workers : Crash(w)
    BY <2>4, BudgetShrinks DEF vars, Crash, Active
  <2> QED
    BY <2>1, <2>2, <2>3, <2>4 DEF Next
<1>2. IInv /\ BudgetInv => BudgetRespected
  <2> SUFFICES ASSUME IInv, BudgetInv PROVE BudgetRespected
    OBVIOUS
  <2>1. \A i \in Inputs : Active(i) <=> ~(Absent(i) \/ Settled(i))
    BY DEF IInv, TypeOK, TasksTypeOK, Row, Active, Absent, Settled, ActiveStatuses,
           TerminalStatuses
  <2>2. [i \in Inputs |-> IF Absent(i) \/ Settled(i) THEN 0 ELSE tasks[i].req.units]
            = [i \in Inputs |-> IF Active(i) THEN tasks[i].req.units ELSE 0]
    BY <2>1
  <2> QED
    BY <2>2 DEF BudgetRespected, BudgetInv, ActiveBudget
<1> QED
  BY <1>1, <1>2, InitBudget, Invariant, PTL DEF Spec

\* The sum that TaskBoard takes is the one that the scheduler takes.
LEMMA SameSum ==
    ASSUME NEW f
    PROVE  Board!SumFunction(f) = SumFunction(f)
BY DEF SumFunction, SumFunctionOnSet, FoldFunctionOnSet, MapThenFoldSet,
       Board!SumFunction, Board!SumFunctionOnSet, Board!FoldFunctionOnSet,
       Board!MapThenFoldSet

\* Both specifications add up the same units.
LEMMA SameBudget ==
    ASSUME TasksTypeOK
    PROVE  Board!Spent = ActiveBudget
<1>1. ASSUME NEW i \in Inputs
      PROVE  (IF BoardOutcome[i] = "open" THEN BoardCost[i] ELSE 0)
                 = (IF Active(i) THEN tasks[i].req.units ELSE 0)
  BY DEF TasksTypeOK, Row, BoardOutcome, BoardCost, Active, Absent, ActiveStatuses,
         TerminalStatuses
<1>2. [i \in Inputs |-> IF BoardOutcome[i] = "open" THEN BoardCost[i] ELSE 0]
          = [i \in Inputs |-> IF Active(i) THEN tasks[i].req.units ELSE 0]
  BY <1>1
<1> QED
  BY <1>2, SameSum DEF Board!Spent, ActiveBudget

-----------------------------------------------------------------------------
(* Steps that the board does not see, and steps that it does.              *)

\* The board sees of a row whether it is open, how it ended, its cost and its output.
LEMMA BoardUnmoved ==
    ASSUME TasksTypeOK, TasksTypeOK', UNCHANGED receipts,
           \A j \in Inputs :
               /\ tasks'[j].status = tasks[j].status \/ (Active(j) /\ Active(j)')
               /\ tasks'[j].req = tasks[j].req
               /\ tasks'[j].output = tasks[j].output
    PROVE  UNCHANGED Board!boardVars
<1>1. BoardOutcome' = BoardOutcome
  <2>1. ASSUME NEW j \in Inputs
        PROVE  (IF Active(j)' THEN "open" ELSE tasks'[j].status)
                   = (IF Active(j) THEN "open" ELSE tasks[j].status)
    BY DEF Active
  <2> QED
    BY <2>1 DEF BoardOutcome
<1>2. BoardCost' = BoardCost
  <2>1. ASSUME NEW j \in Inputs
        PROVE  (IF Absent(j)' THEN 0 ELSE tasks'[j].req.units)
                   = (IF Absent(j) THEN 0 ELSE tasks[j].req.units)
    BY DEF Active, Absent, ActiveStatuses
  <2> QED
    BY <2>1 DEF BoardCost
<1>3. BoardOutput' = BoardOutput
  BY DEF BoardOutput
<1> QED
  BY <1>1, <1>2, <1>3 DEF Board!boardVars

\* A transition settles the task on the board.
LEMMA TransitionOnBoard ==
    ASSUME TasksTypeOK, NEW i \in Inputs, NEW role, NEW status \in TerminalStatuses,
           NEW output \in Outputs \cup {NoOutput}, Transition(i, role, status, output)
    PROVE  /\ BoardOutcome[i] = "open"
           /\ BoardOutcome' = [BoardOutcome EXCEPT ![i] = status]
           /\ BoardOutput' = [BoardOutput EXCEPT ![i] = output]
           /\ BoardCost' = BoardCost
<1>1. /\ TasksTypeOK'
      /\ tasks[i].status = "running"
      /\ tasks'[i].status = status
      /\ tasks'[i].req = tasks[i].req
      /\ tasks'[i].output = output
      /\ \A j \in Inputs : j # i => tasks'[j] = tasks[j]
  BY TransitionRows
<1>2. Active(i) /\ ~Active(i)' /\ ~Absent(i) /\ ~Absent(i)'
  BY <1>1 DEF Active, Absent, ActiveStatuses, TerminalStatuses
<1>3. BoardOutcome' = [BoardOutcome EXCEPT ![i] = status]
  BY <1>1, <1>2 DEF BoardOutcome, Active
<1>4. BoardOutput' = [BoardOutput EXCEPT ![i] = output]
  BY <1>1 DEF BoardOutput
<1>5. BoardCost' = BoardCost
  BY <1>1, <1>2 DEF BoardCost, Absent
<1> QED
  BY <1>2, <1>3, <1>4, <1>5 DEF BoardOutcome

LEMMA SucceedOnBoard ==
    ASSUME TasksTypeOK, NEW i \in Inputs, NEW role, NEW out \in Outputs,
           Transition(i, role, "succeeded", out), UNCHANGED receipts
    PROVE  Board!Next
<1>1. Board!Succeed(i, out)
  BY TransitionOnBoard DEF Board!Succeed, TerminalStatuses
<1> QED
  BY <1>1 DEF Board!Next

LEMMA GiveUpOnBoard ==
    ASSUME TasksTypeOK, NEW i \in Inputs, NEW role, NEW status \in {"deferred", "failed"},
           Transition(i, role, status, NoOutput), UNCHANGED receipts
    PROVE  Board!Next
<1>1. status \in TerminalStatuses
  BY DEF TerminalStatuses
<1>2. Board!GiveUp(i, status)
  BY <1>1, TransitionOnBoard DEF Board!GiveUp
<1> QED
  BY <1>2 DEF Board!Next

LEMMA DispatchOnBoard ==
    ASSUME IInv, Dispatch
    PROVE  Board!Next
<1>1. PICK i \in Inputs, req \in Requests : Enqueue(i, req)
  BY DEF Dispatch
<1>2. TasksTypeOK /\ UNCHANGED receipts
  BY DEF Dispatch, workVars, IInv, TypeOK
<1>3. /\ Absent(i)
      /\ tasks'[i].status = "queued" /\ tasks'[i].req = req /\ tasks'[i].output = NoOutput
      /\ \A j \in Inputs : j # i => tasks'[j] = tasks[j]
  BY <1>1, <1>2, EnqueueRows
<1>4. Board!Admit(i, req.units)
  <2>1. BoardOutcome[i] = "absent"
    BY <1>3 DEF BoardOutcome, Absent, Active, ActiveStatuses
  <2>2. BoardOutcome' = [BoardOutcome EXCEPT ![i] = "open"]
    BY <1>3 DEF BoardOutcome, Absent, Active, ActiveStatuses
  <2>3. BoardCost' = [BoardCost EXCEPT ![i] = req.units]
    BY <1>3 DEF BoardCost, Absent
  <2>4. BoardOutput' = [BoardOutput EXCEPT ![i] = NoOutput]
    BY <1>3 DEF BoardOutput
  <2>5. Board!Spent + req.units <= MaxActiveBudget
    BY <1>1, <1>2, SameBudget DEF Enqueue
  <2> QED
    BY <1>2, <2>1, <2>2, <2>3, <2>4, <2>5 DEF Board!Admit
<1> QED
  BY <1>4 DEF Board!Next

\* Recoveries and claims, seen from the board, are not there.
LEMMA ClaimsOffBoard ==
    ASSUME IInv, NEW w \in Workers, Recover(w) \/ Claim(w) \/ FindNothing(w)
    PROVE  UNCHANGED Board!boardVars
<1>1. TasksTypeOK
  BY DEF IInv, TypeOK
<1>2. CASE Recover(w)
  BY <1>1, <1>2, RecoverRows, BoardUnmoved DEF Recover, Expired, Active, ActiveStatuses
<1>3. CASE Claim(w)
  <2>1. PICK i \in Inputs, lease \in 0 .. MaxLease : ClaimNext(i, RoleOf[w], lease)
    BY <1>3 DEF Claim
  <2> QED
    BY <1>1, <1>3, <2>1, ClaimRows, BoardUnmoved DEF Claim, Active, ActiveStatuses
<1>4. CASE FindNothing(w)
  BY <1>1, <1>4, BoardUnmoved DEF FindNothing, TasksTypeOK
<1> QED
  BY <1>2, <1>3, <1>4

LEMMA TickOffBoard ==
    ASSUME IInv, Tick
    PROVE  UNCHANGED Board!boardVars
BY TickRows, BoardUnmoved DEF Tick, IInv, TypeOK

\* Steps that change no row and return no receipt.
LEMMA LocalOffBoard ==
    ASSUME UNCHANGED <<tasks, nextTask, receipts>>
    PROVE  UNCHANGED Board!boardVars
BY DEF Board!boardVars, BoardOutcome, BoardCost, BoardOutput, Active, Absent

LEMMA ReceiptOnBoard ==
    ASSUME IInv, NEW w \in Workers, ReturnReceipt(w)
    PROVE  Board!Next
<1> DEFINE i == work[w].input
<1>1. /\ i \in Inputs
      /\ tasks[i].status = "succeeded" /\ tasks[i].output = work[w].output
  BY AtWork DEF ReturnReceipt, WorkConsistent
<1>2. /\ BoardOutcome' = BoardOutcome /\ BoardCost' = BoardCost /\ BoardOutput' = BoardOutput
      /\ receipts' = receipts \cup {[input |-> i, output |-> work[w].output]}
  BY DEF ReturnReceipt, BoardOutcome, BoardCost, BoardOutput, Active, Absent
<1>3. BoardOutcome[i] = "succeeded" /\ BoardOutput[i] = work[w].output
  BY <1>1 DEF BoardOutcome, BoardOutput, Active, ActiveStatuses
<1>4. Board!Acknowledge(i)
  BY <1>2, <1>3 DEF Board!Acknowledge
<1> QED
  BY <1>1, <1>4 DEF Board!Next

-----------------------------------------------------------------------------
(* The refinement.                                                         *)

LEMMA InitOnBoard == Init => Board!Init
BY DEF Init, TasksInit, NoRow, Board!Init, BoardOutcome, BoardCost, BoardOutput, Active,
       Absent, ActiveStatuses

LEMMA StepOnBoard ==
    ASSUME IInv, NEW w \in Workers, Step(w)
    PROVE  [Board!Next]_(Board!boardVars)
<1>1. CASE Recover(w) \/ Claim(w) \/ FindNothing(w)
  BY <1>1, ClaimsOffBoard
<1>2. CASE Refuse(w) \/ Execute(w) \/ ExecuteFails(w)
          \/ Authorize(w) \/ \E a \in Adapters, matches \in BOOLEAN : Bind(w, a, matches)
  BY <1>2, LocalOffBoard DEF Refuse, Execute, ExecuteFails, Authorize, Bind
<1>3. CASE ReturnReceipt(w)
  BY <1>3, ReceiptOnBoard
<1>4. TasksTypeOK
  BY DEF IInv, TypeOK
<1>5. CASE Complete(w)
  <2>1. work[w].input \in Inputs /\ work[w].output \in Outputs
    BY <1>5, AtWork DEF Complete, Busy
  <2> QED
    BY <1>4, <1>5, <2>1, SucceedOnBoard, LocalOffBoard DEF Complete
<1>6. CASE Fail(w)
  <2>1. work[w].input \in Inputs
    BY <1>6, AtWork DEF Fail, Busy
  <2> QED
    BY <1>4, <1>6, <2>1, GiveUpOnBoard, LocalOffBoard DEF Fail
<1>7. CASE Report(w)
  <2>1. work[w].input \in Inputs /\ UNCHANGED receipts
    BY <1>7, AtWork DEF Report, Busy
  <2>2. CASE \E out \in Outputs : Transition(work[w].input, RoleOf[w], "succeeded", out)
    BY <1>4, <2>1, <2>2, SucceedOnBoard
  <2>3. CASE \E status \in {"deferred", "failed"} :
                Transition(work[w].input, RoleOf[w], status, NoOutput)
    BY <1>4, <2>1, <2>3, GiveUpOnBoard
  <2>4. CASE UNCHANGED <<tasks, nextTask>>
    BY <2>1, <2>4, LocalOffBoard
  <2> QED
    BY <1>7, <2>2, <2>3, <2>4 DEF Report
<1> QED
  BY <1>1, <1>2, <1>3, <1>5, <1>6, <1>7 DEF Step, Try

\* The scheduler with any number of workers, crashes and overruns implements the board.
THEOREM FactoryImplementsBoard == Spec => ImplementsBoard
<1>1. ASSUME IInv, [Next]_vars PROVE [Board!Next]_(Board!boardVars)
  <2>1. CASE Dispatch
    BY <1>1, <2>1, DispatchOnBoard
  <2>2. CASE Tick
    BY <1>1, <2>2, TickOffBoard
  <2>3. ASSUME NEW w \in Workers, Step(w) PROVE [Board!Next]_(Board!boardVars)
    BY <1>1, <2>3, StepOnBoard
  <2>4. ASSUME NEW w \in Workers, Crash(w) PROVE [Board!Next]_(Board!boardVars)
    BY <2>4, LocalOffBoard DEF Crash
  <2>5. CASE UNCHANGED vars
    BY <2>5, LocalOffBoard DEF vars
  <2> QED
    BY <1>1, <2>1, <2>2, <2>3, <2>4, <2>5 DEF Next
<1> QED
  BY <1>1, InitOnBoard, Invariant, PTL DEF Spec, ImplementsBoard, Board!Spec
=============================================================================
