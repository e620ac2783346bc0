------------------------------- MODULE Facade -------------------------------
(***************************************************************************)
(* The typed facades of MatterClient (chain/facade.rs) and the builders of *)
(* call arguments (calls.rs): which calls each group can submit, with the  *)
(* arguments in the order the runtime decodes them.  The scope table reads *)
(* some arguments by position, so a facade that swaps two of them makes    *)
(* the table judge another call than the runtime executes.                 *)
(***************************************************************************)
EXTENDS ScopeTable

bytes   == plain("bytes")
integer  == plain("u128")
boolean == plain("bool")
opaque  == plain("value")             \* a Value of the caller, passed through

envelope_value == composite([binding_id |-> bytes, capsule |-> bytes,
                             proof |-> bytes, ct |-> bytes])
GrantTarget    == {"User", "Deployment"}
grant_target_value(target) == variant(target)

Option == {"None", "Some"}
option(o) == variant(o)               \* option_u128 and option_value alike

\* The requests an application can pass: both references readable, one left
\* out, or a composite without names.
REQUESTS ==
  {composite([secret_ref |-> option(a), tls_secret_ref |-> option(b)]) :
     a \in Option, b \in Option}
  \cup {composite([secret_ref |-> option(a)]) : a \in Option}
  \cup {plain("unnamed")}

-----------------------------------------------------------------------------
\* StoreSecret::to_values: store_secret(payload, epoch, label, aad).
StoreSecret  == <<envelope_value, integer, bytes, bytes>>
RotateSecret == <<integer, envelope_value, integer, bytes>>

Secrets ==
  {Call("Secrets", "store_secret", StoreSecret),
   Call("Secrets", "rotate_secret", RotateSecret),
   Call("Secrets", "delete_secret", <<integer>>)}
  \cup {Call("Secrets", c, <<integer, grant_target_value(t)>>) :
          c \in {"grant_access", "revoke_access"}, t \in GrantTarget}

request(r)             == Call("Jobs", "request_deployment", <<r>>)
set_secret_ref(secret) == Call("Jobs", "set_deployment_secret_ref", <<integer, option(secret)>>)

Deployments ==
  {request(r) : r \in REQUESTS}
  \cup {set_secret_ref(o) : o \in Option}
  \cup {Call("Jobs", "set_deployment_env", <<integer, option(o)>>) : o \in Option}
  \cup {Call("Jobs", "cancel_deployment", <<integer>>),
        Call("Jobs", "register_wg_peer", <<integer, bytes, bytes>>)}

Resources ==
  {Call("Resources", "register_resource", <<bytes, opaque, bytes>>),
   Call("Resources", "update_sku", <<integer, opaque>>),
   Call("Resources", "report_capacity", <<opaque>>),
   Call("Resources", "set_resource_privacy", <<bytes, boolean>>),
   Call("Resources", "add_to_whitelist", <<bytes, bytes>>),
   Call("Resources", "remove_from_whitelist", <<bytes, bytes>>)}

Staking ==
  {Call("Staking", "bond", <<integer, opaque>>),
   Call("Staking", "bond_extra", <<integer>>),
   Call("Staking", "unbond", <<integer>>),
   Call("Staking", "withdraw_unbonded", <<integer>>),
   Call("Staking", "nominate", <<plain("unnamed")>>),
   Call("Staking", "chill", <<>>),
   Call("NominationPools", "join", <<integer, integer>>),
   Call("NominationPools", "claim_payout", <<>>)}

Orgs ==
  {Call("Organizations", "create_org", <<>>),
   Call("Organizations", "add_member", <<bytes, bytes, opaque>>),
   Call("Organizations", "remove_member", <<bytes, bytes>>),
   Call("Budgets", "allot", <<bytes, bytes, integer>>),
   Call("Budgets", "authorize_project_secrets_agent", <<bytes, bytes, bytes>>),
   Call("Budgets", "revoke_project_secrets_agent", <<bytes, bytes, bytes>>)}

\* Keys: authorize puts the bare bits of the scopes on the wire.
authorize == Call("Budgets", "authorize_agent_key", <<bytes, integer>>)
revoke    == Call("Budgets", "revoke_agent_key", <<bytes>>)
Keys      == {authorize, revoke}

FACADE == UNION {Secrets, Deployments, Resources, Staking, Orgs, Keys}

\* tx takes any names: the listed calls of every pallet, without arguments.
RAW == {Call(pc[1], pc[2], <<>>) : pc \in
          (UNION {{p} \X NEVER_ADMITTED[p] : p \in SCOPED_PALLETS})
          \cup {<<"Balances", "transfer_all">>, <<"Sudo", "sudo">>, <<"Proxy", "proxy">>,
                <<"Utility", "batch_all">>, <<"Volumes", "create_volume">>,
                <<"OverlayNetworks", "create_network">>,
                <<"Collaborations", "expire_attestation">>,
                <<"Datasets", "register_dataset">>,
                <<"Communities", "create_community">>}
          \cup (UNION {{p} \X (UNION {listed[p][s] : s \in DOMAIN listed[p]}) :
                         p \in DOMAIN listed})
          \cup ({"Jobs"} \X {"request_deployment", "set_deployment_secret_ref"})}
=============================================================================
