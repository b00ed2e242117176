---------------------------- MODULE ReviewLedger ----------------------------
(***************************************************************************)
(* What the review queue promises for a delivery, with no processes,       *)
(* claims, leases or retries: a delivery is accepted once, a review may be *)
(* filed for an accepted delivery, the delivery is settled once, and it is *)
(* settled as succeeded only when a review has been filed.                 *)
(***************************************************************************)
CONSTANT Delivery

VARIABLES
    outcome,      \* delivery -> how far it is
    filed         \* deliveries with a review on disk

Outcome == {"absent", "open", "succeeded", "failed"}

Init ==
    /\ outcome = [d \in Delivery |-> "absent"]
    /\ filed = {}

Accept(d) ==
    /\ outcome[d] = "absent"
    /\ outcome' = [outcome EXCEPT ![d] = "open"]
    /\ UNCHANGED filed

File(d) ==
    /\ outcome[d] # "absent"
    /\ filed' = filed \cup {d}
    /\ UNCHANGED outcome

Settle(d, o) ==
    /\ outcome[d] = "open"
    /\ o = "succeeded" => d \in filed
    /\ outcome' = [outcome EXCEPT ![d] = o]
    /\ UNCHANGED filed

Next == \E d \in Delivery :
    Accept(d) \/ File(d) \/ \E o \in {"succeeded", "failed"} : Settle(d, o)

Spec == Init /\ [][Next]_<<outcome, filed>>
=============================================================================
