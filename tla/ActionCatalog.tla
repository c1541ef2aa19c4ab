--------------------------- MODULE ActionCatalog ---------------------------
(***************************************************************************)
(* The closed catalog of response actions                                  *)
(* (application/action_catalog.py).  Of a definition the policy engine and *)
(* the approval service use the target types, the need for approval and    *)
(* the parameters model; the texts shown to a reviewer are left out.       *)
(***************************************************************************)
EXTENDS Integers

EntityType == {"USER", "DEVICE", "IP_ADDRESS"}

\* The names of a recommendation's parameters.  "other" stands for any name no
\* model declares, and for a declared name whose value fails strict validation.
ParameterName == {"message_id", "privilege_id", "other"}

\* Every parameters model forbids extra names and has no optional one, so it is
\* the set of names that a recommendation has to give.
ActionDefinition ==
    [target_types : SUBSET EntityType, approval_required : BOOLEAN,
     parameters : SUBSET ParameterName]

\* What ActionCatalog's constructor accepts: HIGH_IMPACT is the only risk, and an
\* action of that risk must require approval.
IsCatalog(entries) ==
    \A name \in DOMAIN entries :
        /\ entries[name] \in ActionDefinition
        /\ entries[name].target_types # {}
        /\ entries[name].approval_required

HighImpact(target_type, parameters) ==
    [target_types |-> {target_type}, approval_required |-> TRUE,
     parameters |-> parameters]

InitialCatalog ==
    [disable_account  |-> HighImpact("USER", {}),
     revoke_sessions  |-> HighImpact("USER", {}),
     reset_password   |-> HighImpact("USER", {}),
     isolate_device   |-> HighImpact("DEVICE", {}),
     delete_email     |-> HighImpact("USER", {"message_id"}),
     remove_privilege |-> HighImpact("USER", {"privilege_id"})]
=============================================================================
