----------------------------- MODULE TaskBoard -----------------------------
(***************************************************************************)
(* What the factory promises for a task, with no roles, workers, claims or *)
(* leases: it is admitted once, within the budget shared by all tasks that *)
(* are open, it is settled once, and a receipt is given only with the      *)
(* success that it is for, for the output that is on record.               *)
(***************************************************************************)
EXTENDS Naturals, Functions

CONSTANTS
    Inputs, Outputs, NoOutput, MaxActiveBudget,
    Sizes         \* the units that a task may cost

VARIABLES
    outcome,      \* input -> how far its task is
    cost,         \* input -> the budget units of its task
    output,       \* input -> the recorded output
    receipts      \* receipts given out

boardVars == <<outcome, cost, output, receipts>>

Spent == SumFunction([i \in Inputs |-> IF outcome[i] = "open" THEN cost[i] ELSE 0])

Init ==
    /\ outcome = [i \in Inputs |-> "absent"]
    /\ cost = [i \in Inputs |-> 0]
    /\ output = [i \in Inputs |-> NoOutput]
    /\ receipts = {}

Admit(i, units) ==
    /\ outcome[i] = "absent"
    /\ Spent + units <= MaxActiveBudget
    /\ outcome' = [outcome EXCEPT ![i] = "open"]
    /\ cost' = [cost EXCEPT ![i] = units]
    /\ output' = [output EXCEPT ![i] = NoOutput]
    /\ UNCHANGED receipts

Succeed(i, out) ==
    /\ outcome[i] = "open"
    /\ outcome' = [outcome EXCEPT ![i] = "succeeded"]
    /\ output' = [output EXCEPT ![i] = out]
    /\ UNCHANGED <<cost, receipts>>

Acknowledge(i) ==
    /\ outcome[i] = "succeeded"
    /\ receipts' = receipts \cup {[input |-> i, output |-> output[i]]}
    /\ UNCHANGED <<outcome, cost, output>>

GiveUp(i, o) ==
    /\ outcome[i] = "open"
    /\ outcome' = [outcome EXCEPT ![i] = o]
    /\ output' = [output EXCEPT ![i] = NoOutput]
    /\ UNCHANGED <<cost, receipts>>

Next ==
    \E i \in Inputs :
        \/ \E units \in Sizes : Admit(i, units)
        \/ \E out \in Outputs : Succeed(i, out)
        \/ Acknowledge(i)
        \/ \E o \in {"deferred", "failed"} : GiveUp(i, o)

Spec == Init /\ [][Next]_boardVars
=============================================================================
