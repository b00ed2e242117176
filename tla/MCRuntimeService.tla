-------------------------- MODULE MCRuntimeService --------------------------
(***************************************************************************)
(* Instances of RuntimeService for TLC.                                    *)
(***************************************************************************)
EXTENDS RuntimeService, TLC

AnyMode == [w \in Workers |-> Modes]
DryOrLive == [w \in Workers |-> {"dry", "live"}]
OnlyLive == [w \in Workers |-> {"live"}]

WorkerSymmetry == Permutations(Workers)
=============================================================================
