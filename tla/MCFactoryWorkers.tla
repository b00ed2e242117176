-------------------------- MODULE MCFactoryWorkers --------------------------
(***************************************************************************)
(* Instances of FactoryWorkers for TLC.                                    *)
(***************************************************************************)
EXTENDS FactoryWorkers, TLC

AllQA == [w \in Workers |-> "qa"]

Task(role, action, units) ==
    [role |-> role, action |-> action, scope |-> "role-private",
     artifact |-> "private-operation", units |-> units]

\* Two sizes of a task that an adapter can run, and one that no role may have.
FewRequests ==
    {Task("qa", "run-isolated", 1), Task("qa", "run-isolated", 2),
     Task("qa", "publication", 1)}

SmallRequests == {Task("qa", "run-isolated", 1), Task("qa", "validate", 2)}

WorkerSymmetry == Permutations(Workers) \cup Permutations(Inputs)
=============================================================================
