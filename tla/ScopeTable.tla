----------------------------- MODULE ScopeTable -----------------------------
(***************************************************************************)
(* What a call requires of a delegated key (chain/scopes_table.rs): the    *)
(* client's mirror of the runtime's table, consulted before submitting.    *)
(*                                                                         *)
(* An argument is a scale Value reduced to what the table reads of it: its *)
(* kind, the name of an enum variant and the fields of a named composite.  *)
(* A requirement is {} when no set of scopes admits the call, else the     *)
(* singleton of the set required (Option<ScopeSet>).                       *)
(***************************************************************************)
EXTENDS Scopes

Value(kind, name, fields) == [kind |-> kind, name |-> name, fields |-> fields]
plain(kind)       == Value(kind, "", <<>>)
variant(name)     == Value("variant", name, <<>>)
composite(fields) == Value("named", "", fields)

\* A call as submitted: its names and its positional arguments.
Call(pallet, call, args) == [pallet |-> pallet, call |-> call, args |-> args]

-----------------------------------------------------------------------------
\* The pallets a scoped key can reach at all.
SCOPED_PALLETS == {"Jobs", "Collaborations", "Secrets", "Volumes", "Datasets",
                   "OverlayNetworks", "Resources", "Organizations", "Budgets",
                   "Communities"}

\* The calls of those pallets that no key may ever make, copied from matter-node.
NEVER_ADMITTED ==
  [Jobs |-> {"update_deployment_status", "set_deployment_network", "report_tls_status"},
   Resources |-> {"report_consumption", "request_consumption_report",
     "report_capacity", "update_sku", "remove_sku", "set_provider_min_stake"},
   Collaborations |-> {"set_compute_node_image", "set_compute_node_sku_id"},
   Datasets |-> {"force_delist_dataset", "force_restore_dataset", "force_delete_dataset"},
   Organizations |-> {"create_org", "delete_org"},
   Budgets |-> {"fund_org_treasury", "withdraw_org_treasury",
     "authorize_project_deployer", "revoke_project_deployer", "claim_sponsorship",
     "transfer_sponsorship", "authorize_project_secrets_agent",
     "revoke_project_secrets_agent", "authorize_org_resource_operator",
     "revoke_org_resource_operator", "bond_org_stake", "unbond_org_stake",
     "withdraw_org_stake", "approve_sponsor", "authorize_agent_key",
     "revoke_agent_key", "fund_non_revolving_treasury",
     "withdraw_non_revolving_treasury"},
   Communities |-> {"force_delist_community", "force_restore_community",
                    "force_delete_community"},
   Secrets |-> {}, Volumes |-> {}, OverlayNetworks |-> {}]

-----------------------------------------------------------------------------
write(scope)       == single(scope, "w")
DEPLOY_WITH_SECRET == write("deployments") \cup single("secrets", "r")

\* Definitely None; an absent or unreadable argument is not.
is_none(args, i) == i \in DOMAIN args /\ args[i] = variant("None")

\* Mutant: only the environment's reference is looked at.
request_references_secret_EnvOnly(args) ==
  \/ args = <<>>
  \/ args[1].kind # "named"
  \/ "secret_ref" \notin DOMAIN args[1].fields
  \/ args[1].fields["secret_ref"] # variant("None")

\* A request references a secret unless both fields are there and None.
request_references_secret(args) ==
  \/ args = <<>>
  \/ args[1].kind # "named"
  \/ \E field \in {"secret_ref", "tls_secret_ref"} :
       field \notin DOMAIN args[1].fields \/ args[1].fields[field] # variant("None")

\* The pallets admitted wholesale, and those whose calls are listed one by one.
wholesale == [Collaborations |-> "collaborations", Secrets |-> "secrets",
              Volumes |-> "volumes", OverlayNetworks |-> "networking",
              Datasets |-> "datasets", Communities |-> "communities"]

excluded == [Collaborations |-> {"set_compute_node_image", "set_compute_node_sku_id"},
             Datasets |-> {"force_delist_dataset", "force_restore_dataset",
                           "force_delete_dataset"},
             Communities |-> {"force_delist_community", "force_restore_community",
                              "force_delete_community"},
             Secrets |-> {}, Volumes |-> {}, OverlayNetworks |-> {}]

listed ==
  [Jobs |-> [deployments |-> {"cancel_deployment", "set_deployment_env",
       "set_deployment_image", "set_deployment_launch", "set_deployment_policy_root",
       "set_deployment_volumes", "set_deployment_restart_policy"},
     networking |-> {"register_wg_peer", "remove_wg_peer"}],
   Resources |-> [resources |-> {"register_resource", "register_private_resource",
     "register_org_resource", "reactivate_resource", "suspend_resource",
     "set_resource_privacy", "add_to_whitelist", "remove_from_whitelist",
     "update_resource_name", "remove_resource"}],
   Organizations |-> [organization |-> {"add_member", "set_member_role",
     "remove_member", "create_project", "assign_to_project",
     "unassign_from_project", "delete_project", "add_project_deployment_peer"}],
   Budgets |-> [billing |-> {"allot", "defund_project", "set_plan_allotment",
     "add_purchased_allotment", "set_purchased_allotment", "set_member_billing",
     "clear_member_billing", "set_member_gas_limit", "set_project_spend_cap"}]]

required_scopes(c) ==
  IF c.pallet = "Jobs" /\ c.call = "request_deployment"
    THEN {IF request_references_secret(c.args) THEN DEPLOY_WITH_SECRET
                                               ELSE write("deployments")}
  ELSE IF c.pallet = "Jobs" /\ c.call = "set_deployment_secret_ref"
    THEN {IF is_none(c.args, 2) THEN write("deployments") ELSE DEPLOY_WITH_SECRET}
  ELSE IF c.pallet \in DOMAIN listed
    THEN {write(s) : s \in {s \in DOMAIN listed[c.pallet] :
                               c.call \in listed[c.pallet][s]}}
  ELSE IF c.pallet \in DOMAIN wholesale /\ c.call \notin excluded[c.pallet]
    THEN {write(wholesale[c.pallet])}
  ELSE {}
=============================================================================
