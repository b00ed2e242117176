--------------------------- MODULE FactoryPolicy ---------------------------
(***************************************************************************)
(* openvang/factory.py: the fixed contracts of the factory's roles, as the *)
(* scheduler and the adapters consult them.  The transfer of memory from   *)
(* role to role plays no part in scheduling and is left out.               *)
(***************************************************************************)

EXTENDS Naturals

Roles == {"validator", "maintainer", "miner-qa", "builder", "product", "qa",
          "scheduler", "security-qa"}

AutomaticActions ==
    {"read-subnet-state", "read-repository", "plan", "run-isolated", "validate",
     "score", "verify-receipt", "write-private-memory", "read-role-memory",
     "dispatch", "propose-owner-action"}

OwnerActions ==
    {"github-write", "onchain-transaction", "wallet-access", "emission-change",
     "governance-vote", "publication"}

Actions == AutomaticActions \cup OwnerActions

Scopes == {"role-private", "shared-commitment", "publishable-commitment"}

Artifacts == {"private-review", "private-operation", "shared-commitment",
              "public-commitment", "public-status"}

\* What default_contracts gives to some roles only.
SpecialActions ==
    [r \in Roles |->
        CASE r = "validator" -> {"read-subnet-state", "validate", "score", "verify-receipt"}
          [] r = "maintainer" -> {"read-repository", "plan", "validate"}
          [] r = "miner-qa" -> {"read-subnet-state", "run-isolated", "validate"}
          [] r = "product" -> {"read-subnet-state", "read-repository", "plan"}
          [] r = "scheduler" -> {"dispatch"}
          [] OTHER -> {"read-repository", "run-isolated", "validate"}]

ActionsOf(r) ==
    SpecialActions[r] \cup {"write-private-memory", "read-role-memory"}
        \cup (IF r = "scheduler" THEN {} ELSE {"propose-owner-action"})

Allows(r, action) == action \in ActionsOf(r)

WritableMemory(r) ==
    IF r = "validator" THEN Scopes ELSE {"role-private", "shared-commitment"}

\* Every role reads what it writes.
ReadableMemory(r) == WritableMemory(r)

\* RoleContract.__post_init__: what every contract has to keep to.
ValidContract(r) ==
    /\ ActionsOf(r) \subseteq AutomaticActions
    /\ WritableMemory(r) # {}
    /\ WritableMemory(r) \subseteq ReadableMemory(r)
    /\ ReadableMemory(r) \subseteq Scopes
    /\ "publishable-commitment" \in WritableMemory(r) => r = "validator"

\* FactoryPolicy.__init__: no policy comes to be with a contract that is not valid.
ASSUME ContractsAssumption == \A r \in Roles : ValidContract(r)

\* The class of an artifact has to agree with the scope that it is written to,
\* and nothing may be scheduled that publishes a status.
OutputAllowed(r, scope, artifact) ==
    /\ scope \in WritableMemory(r)
    /\ \/ artifact = "private-review" /\ r = "maintainer" /\ scope = "role-private"
       \/ artifact = "private-operation" /\ scope = "role-private"
       \/ artifact = "shared-commitment" /\ scope = "shared-commitment"
       \/ artifact = "public-commitment" /\ r = "validator" /\ scope = "publishable-commitment"

\* What enqueue refuses whatever is in the table.
Permitted(req) ==
    /\ Allows("scheduler", "dispatch")
    /\ req.units > 0
    /\ Allows(req.role, req.action)
    /\ req.action # "propose-owner-action"
    /\ OutputAllowed(req.role, req.scope, req.artifact)
=============================================================================
