----------------------- MODULE MCPullRequestPolicies -----------------------
(* Instances of PullRequestPolicies for TLC.                               *)
EXTENDS PullRequestPolicies

CONSTANT ci1

OneCi == {ci1}

=============================================================================
