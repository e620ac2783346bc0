--------------------------- MODULE SessionProofs ---------------------------
(***************************************************************************)
(* How a client comes to be connected, what its local scope check is worth,*)
(* and what it makes of texts: for any environment, any key texts, any     *)
(* grants, and every call of module Facade.  Scope texts and key texts are *)
(* followed entry by entry and segment by segment (module Recursion).      *)
(***************************************************************************)
EXTENDS RecoverProofs, Recursion

-----------------------------------------------------------------------------
(***************************************************************************)
(* Connecting.                                                             *)
(***************************************************************************)
\* What a mode is; and until the resolve, and in a failed client, it is Direct.
Acting ==
  /\ mode = Direct \/ mode.kind = "Delegated"
  /\ stage # "ready" => mode = Direct

\* What connecting a client has settled: its mode, the network guards, the key.
Settled == Acting /\ NoUnconfirmedMainnet /\ SignsAsConfigured

\* What a step of the session can do to a client.
LEMMA StepsOfAClient ==
  ASSUME [Next]_vars
  PROVE  \/ ConnectNext
         \/ Leave
         \/ /\ stage' = "left" /\ UNCHANGED <<env, config, signer, served, minted, mode, error>>
            /\ stage = "start"
         \/ UNCHANGED conn
<1>1. ASSUME Convert
      PROVE  /\ stage' = "left" /\ UNCHANGED <<env, config, signer, served, minted, mode, error>>
             /\ stage = "start"
  BY <1>1 DEF Convert, ParsesKey, ParsesScopes, ParsesAmount, FormatsAmount, TakesOneToken,
              Converts
<1>2. ASSUME NEW c, Tx(c)  PROVE Leave
  BY <1>2 DEF Tx
<1>3. ASSUME NEW tag, StartsRecover(tag)  PROVE Leave
  BY <1>3 DEF StartsRecover
<1>4. ASSUME RecoverReadOnly  PROVE Leave
  BY <1>4 DEF RecoverReadOnly
<1>5. ASSUME UNCHANGED vars  PROVE UNCHANGED conn
  BY <1>5 DEF vars
<1>6. QED
  BY <1>1, <1>2, <1>3, <1>4, <1>5, Zenon DEF Next

\* An environment without keys makes a client that only reads.
LEMMA NothingToTrim == trim(<<>>) = <<>>
  BY DEF trim

LEMMA SettledInit == Init => Settled
  BY DEF Init, ConnectInit, Settled, Acting, NoUnconfirmedMainnet, SignsAsConfigured

\* Every step of connecting, and every way to leave, keeps what is settled.
LEMMA SettledNext == Settled /\ [Next]_vars => Settled'
<1> SUFFICES ASSUME Settled, [Next]_vars  PROVE Settled'
  OBVIOUS
<1> USE DEF Fail
<1>1. CASE FromEnv
  <2>1. Acting' /\ NoUnconfirmedMainnet'
    BY <1>1 DEF FromEnv, Settled, Acting, NoUnconfirmedMainnet
  <2>2. SignsAsConfigured'
    <3> DEFINE first == IF trim(env.api_key) # <<>> THEN env.api_key ELSE env.seed
    <3>1. SUFFICES ASSUME stage' = "dial"
                   PROVE  IF trim(first) = <<>> THEN signer' = NoAccount
                          ELSE parse(first).ok /\ signer' = parse(first).account
      <4>1. env' = env  BY <1>1 DEF FromEnv
      <4>2. QED  BY <3>1, <4>1 DEF SignsAsConfigured
    <3>2. env_api_key.ok /\ signer' = env_api_key.account
      BY <1>1, <3>1 DEF FromEnv
    <3>3. trim(first) = <<>> => env_api_key = Account(NoAccount)
      BY DEF env_api_key
    <3>4. trim(first) # <<>> => env_api_key = parse(first)
      BY DEF env_api_key
    <3>5. Account(NoAccount).account = NoAccount  BY DEF Account
    <3>6. QED  BY <3>2, <3>3, <3>4, <3>5
  <2>3. QED  BY <2>1, <2>2 DEF Settled
<1>2. ASSUME NEW network \in Network, NEW url \in BOOLEAN, NEW confirm \in BOOLEAN,
             NEW account \in {NoAccount, Hsm}, ConnectWith(network, url, confirm, account)
      PROVE  Settled'
  <2>1. Acting' /\ NoUnconfirmedMainnet'
    BY <1>2 DEF ConnectWith, Settled, Acting, NoUnconfirmedMainnet
  <2>2. env'.api_key = <<>> /\ env'.seed = <<>>
    BY <1>2 DEF ConnectWith, env_left, NoEnv
  <2>3. signer' \in {NoAccount, Hsm}  BY <1>2 DEF ConnectWith
  <2>4. SignsAsConfigured'  BY <2>2, <2>3, NothingToTrim DEF SignsAsConfigured
  <2>5. QED  BY <2>1, <2>4 DEF Settled
<1>3. CASE Dial
  BY <1>3 DEF Dial, Settled, Acting, NoUnconfirmedMainnet, SignsAsConfigured
<1>4. CASE ReadProperties
  BY <1>4 DEF ReadProperties, Settled, Acting, NoUnconfirmedMainnet, SignsAsConfigured
<1>5. CASE EnforceNetworkGuards
  <2>1. stage = "guards" /\ stage' \in {"resolve", "failed"} /\ mode = Direct
    BY <1>5 DEF EnforceNetworkGuards, Settled, Acting
  <2>2. UNCHANGED <<env, config, signer, served, minted, mode>>
    BY <1>5 DEF EnforceNetworkGuards
  <2>3. ASSUME stage' = "resolve", served = "mainnet"
        PROVE  /\ config.network # "Testnet"
               /\ signer # NoAccount => config.confirm_mainnet \/ env.confirm = "yes"
    <3>1. is_mainnet(Properties[served])  BY <2>3 DEF is_mainnet, Properties
    <3>2. QED  BY <1>5, <2>3, <3>1 DEF EnforceNetworkGuards, confirmed
  <2>4. NoUnconfirmedMainnet'  BY <2>1, <2>2, <2>3 DEF NoUnconfirmedMainnet
  <2>5. Acting' /\ SignsAsConfigured'
    BY <2>1, <2>2 DEF Settled, Acting, SignsAsConfigured
  <2>6. QED  BY <2>4, <2>5 DEF Settled
<1>6. CASE Resolve
  <2>1. stage = "resolve" /\ stage' \in {"ready", "failed"}
        /\ UNCHANGED <<env, config, signer, served>>
    BY <1>6, Zenon DEF Resolve, Connected
  <2>2. mode' = mode \/ mode' = Direct \/ mode'.kind = "Delegated"
    <3>1. \A grants, override : decide(grants, override) = Direct
                                \/ decide(grants, override).kind = "Delegated"
      BY DEF decide, Delegated
    <3>2. QED  BY <1>6, <3>1, Zenon DEF Resolve, Connected
  <2>3. stage' = "failed" => mode' = mode
    BY <1>6 DEF Resolve, Connected
  <2>4. Acting'  BY <2>1, <2>2, <2>3 DEF Settled, Acting
  <2>5. NoUnconfirmedMainnet'  BY <2>1 DEF Settled, NoUnconfirmedMainnet
  <2>6. SignsAsConfigured'  BY <2>1 DEF SignsAsConfigured
  <2>7. QED  BY <2>4, <2>5, <2>6 DEF Settled
<1>7. CASE Leave
  BY <1>7 DEF Leave, Settled, Acting, NoUnconfirmedMainnet, SignsAsConfigured
<1>8. CASE /\ stage' = "left" /\ UNCHANGED <<env, config, signer, served, minted, mode, error>>
           /\ stage = "start"
  BY <1>8 DEF Settled, Acting, NoUnconfirmedMainnet, SignsAsConfigured
<1>9. CASE UNCHANGED conn
  BY <1>9 DEF conn, Settled, Acting, NoUnconfirmedMainnet, SignsAsConfigured
<1>10. QED
  BY <1>1, <1>2, <1>3, <1>4, <1>5, <1>6, <1>7, <1>8, <1>9, StepsOfAClient DEF ConnectNext

\* A client that can sign on mainnet was confirmed, and a testnet configuration
\* never reaches mainnet, whatever the endpoint turns out to serve.
THEOREM MainnetIsConfirmed == Spec => []NoUnconfirmedMainnet
<1>1. Settled => NoUnconfirmedMainnet  BY DEF Settled
<1>2. QED  BY <1>1, SettledInit, SettledNext, PTL DEF Spec

\* MatterClient::from_env signs with the first key set, whatever parse makes of
\* it, and never falls back past a malformed one.
THEOREM SignsWithTheFirstKey == Spec => []SignsAsConfigured
<1>1. Settled => SignsAsConfigured  BY DEF Settled
<1>2. QED  BY <1>1, SettledInit, SettledNext, PTL DEF Spec

-----------------------------------------------------------------------------
(***************************************************************************)
(* The scope table.                                                        *)
(***************************************************************************)
\* What the table reads of a call's arguments, where it reads any.
Readable(c) ==
  /\ c.call = "request_deployment" =>
       c.args = <<>> \/ \E r \in REQUESTS : c.args = <<r>>
  /\ c.call = "set_deployment_secret_ref" =>
       c.args = <<>> \/ \E o \in Option : c.args = <<integer, option(o)>>

\* The calls of the four pallets whose calls are listed one by one: each is
\* listed, or never admitted, or one of the two that may name a secret.
Known(c) ==
  /\ c.pallet \in DOMAIN listed =>
       \/ c.call \in NEVER_ADMITTED[c.pallet]
       \/ \E s \in DOMAIN listed[c.pallet] : c.call \in listed[c.pallet][s]
       \/ c.pallet = "Jobs" /\ c.call \in {"request_deployment", "set_deployment_secret_ref"}
  /\ c.pallet = "Jobs" => Readable(c)

LEMMA FacadesAreKnown ==
  ASSUME NEW c \in FACADE
  PROVE  Known(c)
<1> USE DEF Known, Call, listed, NEVER_ADMITTED
<1>1. CASE c \in Secrets      BY <1>1 DEF Secrets
<1>2. CASE c \in Deployments
  <2>1. c.pallet = "Jobs"  BY <1>2 DEF Deployments, request, set_secret_ref
  <2>2. Readable(c)  BY <1>2 DEF Deployments, request, set_secret_ref, Readable
  <2>3. c.call \in {"request_deployment", "set_deployment_secret_ref", "set_deployment_env",
                    "cancel_deployment", "register_wg_peer"}
    BY <1>2 DEF Deployments, request, set_secret_ref
  <2>4. QED  BY <2>1, <2>2, <2>3
<1>3. CASE c \in Resources    BY <1>3 DEF Resources
<1>4. CASE c \in Staking      BY <1>4 DEF Staking
<1>5. CASE c \in Orgs         BY <1>5 DEF Orgs
<1>6. CASE c \in Keys         BY <1>6 DEF Keys, authorize, revoke
<1>7. QED  BY <1>1, <1>2, <1>3, <1>4, <1>5, <1>6 DEF FACADE

LEMMA RawCallsAreKnown ==
  ASSUME NEW c \in RAW
  PROVE  Known(c)
<1> DEFINE never == UNION {{p} \X NEVER_ADMITTED[p] : p \in SCOPED_PALLETS}
           rows  == UNION {{p} \X (UNION {listed[p][s] : s \in DOMAIN listed[p]}) :
                             p \in DOMAIN listed}
           some  == {"Jobs"} \X {"request_deployment", "set_deployment_secret_ref"}
           other == {<<"Balances", "transfer_all">>, <<"Sudo", "sudo">>, <<"Proxy", "proxy">>,
                     <<"Utility", "batch_all">>, <<"Volumes", "create_volume">>,
                     <<"OverlayNetworks", "create_network">>,
                     <<"Collaborations", "expire_attestation">>,
                     <<"Datasets", "register_dataset">>,
                     <<"Communities", "create_community">>}
<1>1. PICK pc \in never \cup other \cup rows \cup some : c = Call(pc[1], pc[2], <<>>)
  BY DEF RAW
<1>2. c.pallet = pc[1] /\ c.call = pc[2] /\ Readable(c)
  BY <1>1 DEF Call, Readable
<1>3. CASE pc \in never
  <2>1. pc[2] \in NEVER_ADMITTED[pc[1]]  BY <1>3
  <2>2. QED  BY <1>2, <2>1 DEF Known
<1>4. CASE pc \in other  BY <1>2, <1>4 DEF Known, listed
<1>5. CASE pc \in rows
  <2>1. \E s \in DOMAIN listed[pc[1]] : pc[2] \in listed[pc[1]][s]  BY <1>5
  <2>2. QED  BY <1>2, <2>1 DEF Known
<1>6. CASE pc \in some  BY <1>2, <1>6 DEF Known
<1>7. QED  BY <1>1, <1>3, <1>4, <1>5, <1>6

\* How many references a request carries that the table can read.
LEMMA Fields ==
  ASSUME NEW a, NEW b
  PROVE  /\ Cardinality(DOMAIN [secret_ref |-> a, tls_secret_ref |-> b]) = 2
         /\ Cardinality(DOMAIN [secret_ref |-> a]) = 1
         /\ Cardinality(DOMAIN <<>>) = 0
<1>1. DOMAIN [secret_ref |-> a, tls_secret_ref |-> b] = {"secret_ref"} \cup {"tls_secret_ref"}
  OBVIOUS
<1>2. IsFiniteSet({"secret_ref"}) /\ Cardinality({"secret_ref"}) = 1  BY FS_Singleton
<1>3. Cardinality({"secret_ref"} \cup {"tls_secret_ref"}) = 1 + 1
  BY <1>2, FS_AddElement
<1>4. DOMAIN [secret_ref |-> a] = {"secret_ref"}  OBVIOUS
<1>5. DOMAIN <<>> = {}  OBVIOUS
<1>6. QED  BY <1>1, <1>2, <1>3, <1>4, <1>5, FS_EmptySet

\* The table is the runtime's: it has a requirement for exactly the calls the
\* runtime could admit, and that is the least that covers what the runtime may
\* require.
Mirrors(c) ==
  /\ required_scopes(c) = {} <=> ~Admissible(c)
  /\ \A r \in required_scopes(c) :
       /\ \A secret \in SeesSecret(c) : RuntimeRequires(c, secret) \subseteq r
       /\ \E secret \in SeesSecret(c) : RuntimeRequires(c, secret) = r

LEMMA RequestMirrors ==
  ASSUME NEW c, c.pallet = "Jobs", c.call = "request_deployment", Readable(c)
  PROVE  Mirrors(c)
<1> DEFINE base == write("deployments")
<1>1. /\ \A secret : RuntimeRequires(c, secret) =
             base \cup (IF secret THEN single("secrets", "r") ELSE {})
      /\ Admissible(c)
  BY DEF RuntimeRequires, Group, Admissible, SCOPED_PALLETS, NEVER_ADMITTED, EMPTY
<1>2. required_scopes(c) = {IF request_references_secret(c.args) THEN DEPLOY_WITH_SECRET
                                                                 ELSE base}
  BY DEF required_scopes
<1> HIDE DEF base
<1>3. DEPLOY_WITH_SECRET = base \cup single("secrets", "r")
  BY DEF DEPLOY_WITH_SECRET, base
<1>4. ASSUME SeesSecret(c) = BOOLEAN, request_references_secret(c.args)
      PROVE  Mirrors(c)
  BY <1>1, <1>2, <1>3, <1>4 DEF Mirrors
<1>5. CASE c.args = <<>>
  <2>1. SeesSecret(c) = BOOLEAN  BY <1>5 DEF SeesSecret
  <2>2. request_references_secret(c.args)  BY <1>5 DEF request_references_secret
  <2>3. QED  BY <1>4, <2>1, <2>2
<1>6. ASSUME NEW r, c.args = <<r>>
      PROVE  c.args # <<>> /\ c.args[1] = r
  BY <1>6
<1>7. ASSUME NEW a \in Option, NEW b \in Option,
             c.args = <<composite([secret_ref |-> option(a), tls_secret_ref |-> option(b)])>>
      PROVE  Mirrors(c)
  <2> DEFINE fields == [secret_ref |-> option(a), tls_secret_ref |-> option(b)]
             named  == a = "Some" \/ b = "Some"
  <2>1. c.args # <<>> /\ c.args[1].fields = fields /\ c.args[1].kind = "named"
    <3> DEFINE r == composite(fields)
    <3>1. r.fields = fields /\ r.kind = "named"  BY DEF composite, Value
    <3>2. c.args = <<r>>  BY <1>7
    <3> HIDE DEF r
    <3>3. QED  BY <1>6, <3>1, <3>2
  <2>2. \A f \in DOMAIN fields : f \in {"secret_ref", "tls_secret_ref"}  OBVIOUS
  <2>3. SeesSecret(c) = {\E f \in DOMAIN fields : fields[f] = option("Some")}
    BY <2>1, Fields DEF SeesSecret
  <2>4. \A o \in Option : (option(o) = option("Some") <=> o = "Some")
                          /\ (option(o) # variant("None") <=> o = "Some")
    BY DEF Option, option, variant, Value
  <2>5. (\E f \in DOMAIN fields : fields[f] = option("Some")) <=> named
    BY <2>4
  <2>6. request_references_secret(c.args) <=> named
    BY <2>1, <2>4 DEF request_references_secret
  <2> HIDE DEF fields, named
  <2>7. CASE named
    BY <1>1, <1>2, <1>3, <2>3, <2>5, <2>6, <2>7 DEF Mirrors
  <2>8. CASE ~named
    BY <1>1, <1>2, <1>3, <2>3, <2>5, <2>6, <2>8 DEF Mirrors
  <2>9. QED  BY <2>7, <2>8
<1>8. ASSUME NEW a \in Option, c.args = <<composite([secret_ref |-> option(a)])>>
      PROVE  Mirrors(c)
  <2> DEFINE fields == [secret_ref |-> option(a)]
  <2>1. c.args # <<>> /\ c.args[1].fields = fields
    <3> DEFINE r == composite(fields)
    <3>1. r.fields = fields  BY DEF composite, Value
    <3>2. c.args = <<r>>  BY <1>8
    <3> HIDE DEF r
    <3>3. QED  BY <1>6, <3>1, <3>2
  <2>2. SeesSecret(c) = BOOLEAN  BY <2>1, Fields DEF SeesSecret
  <2>3. request_references_secret(c.args)  BY <2>1 DEF request_references_secret
  <2>4. QED  BY <1>4, <2>2, <2>3
<1>9. ASSUME c.args = <<plain("unnamed")>>
      PROVE  Mirrors(c)
  <2>1. c.args # <<>> /\ c.args[1].fields = <<>> /\ c.args[1].kind # "named"
    <3> DEFINE r == plain("unnamed")
    <3>1. r.fields = <<>> /\ r.kind # "named"  BY DEF plain, Value
    <3>2. c.args = <<r>>  BY <1>9
    <3> HIDE DEF r
    <3>3. QED  BY <1>6, <3>1, <3>2
  <2>2. SeesSecret(c) = BOOLEAN  BY <2>1, Fields DEF SeesSecret
  <2>3. request_references_secret(c.args)  BY <2>1 DEF request_references_secret
  <2>4. QED  BY <1>4, <2>2, <2>3
<1>10. CASE c.args # <<>>
  <2>1. PICK r \in REQUESTS : c.args = <<r>>  BY <1>10 DEF Readable
  <2>2. \/ \E a, b \in Option :
             r = composite([secret_ref |-> option(a), tls_secret_ref |-> option(b)])
        \/ \E a \in Option : r = composite([secret_ref |-> option(a)])
        \/ r = plain("unnamed")
    BY DEF REQUESTS
  <2>3. QED  BY <1>7, <1>8, <1>9, <2>1, <2>2, Zenon
<1>11. QED  BY <1>5, <1>10

LEMMA SecretRefMirrors ==
  ASSUME NEW c, c.pallet = "Jobs", c.call = "set_deployment_secret_ref", Readable(c)
  PROVE  Mirrors(c)
<1> DEFINE base == write("deployments")
<1>1. /\ \A secret : RuntimeRequires(c, secret) =
             base \cup (IF secret THEN single("secrets", "r") ELSE {})
      /\ Admissible(c)
  BY DEF RuntimeRequires, Group, Admissible, SCOPED_PALLETS, NEVER_ADMITTED, EMPTY
<1>2. required_scopes(c) = {IF is_none(c.args, 2) THEN base ELSE DEPLOY_WITH_SECRET}
  BY DEF required_scopes
<1> HIDE DEF base
<1>3. DEPLOY_WITH_SECRET = base \cup single("secrets", "r")
  BY DEF DEPLOY_WITH_SECRET, base
<1>4. CASE c.args = <<>>
  <2>1. SeesSecret(c) = BOOLEAN /\ ~is_none(c.args, 2)  BY <1>4 DEF SeesSecret, is_none
  <2>2. QED  BY <1>1, <1>2, <1>3, <2>1 DEF Mirrors
<1>5. ASSUME NEW o \in Option, c.args = <<integer, option(o)>>
      PROVE  Mirrors(c)
  <2>1. Len(c.args) = 2 /\ c.args[2] = option(o) /\ 2 \in DOMAIN c.args  BY <1>5
  <2>2. (option(o) = option("Some") <=> o = "Some") /\ (option(o) = variant("None") <=> o # "Some")
    BY DEF Option, option, variant, Value
  <2>3. SeesSecret(c) = {o = "Some"} /\ (is_none(c.args, 2) <=> o # "Some")
    BY <2>1, <2>2 DEF SeesSecret, is_none
  <2>4. CASE o = "Some"  BY <1>1, <1>2, <1>3, <2>3, <2>4 DEF Mirrors
  <2>5. CASE o # "Some"  BY <1>1, <1>2, <1>3, <2>3, <2>5 DEF Mirrors
  <2>6. QED  BY <2>4, <2>5
<1>6. QED  BY <1>4, <1>5 DEF Readable

\* Every other call: its group's write half, or nothing.
LEMMA OthersMirror ==
  ASSUME NEW c, Known(c),
         ~(/\ c.pallet = "Jobs"
           /\ c.call \in {"request_deployment", "set_deployment_secret_ref"})
  PROVE  Mirrors(c)
<1>1. SeesSecret(c) = {FALSE}  BY DEF SeesSecret
<1>2. RuntimeRequires(c, FALSE) = write(Group(c))  BY DEF RuntimeRequires, EMPTY
<1>3. SUFFICES /\ required_scopes(c) = {} <=> ~Admissible(c)
               /\ required_scopes(c) # {} => required_scopes(c) = {write(Group(c))}
  <2> DEFINE least == write(Group(c))
  <2>1. SUFFICES ASSUME required_scopes(c) # {} => required_scopes(c) = {least}
                 PROVE  \A r \in required_scopes(c) :
                          /\ \A secret \in SeesSecret(c) : RuntimeRequires(c, secret) \subseteq r
                          /\ \E secret \in SeesSecret(c) : RuntimeRequires(c, secret) = r
    BY Zenon DEF Mirrors
  <2> HIDE DEF least
  <2>2. \A r \in required_scopes(c) : r = least  BY <2>1
  <2>3. \A secret \in SeesSecret(c) : RuntimeRequires(c, secret) = least
    BY <1>1, <1>2 DEF least
  <2>4. FALSE \in SeesSecret(c)  BY <1>1
  <2>5. QED  BY <2>2, <2>3, <2>4
<1>4. CASE c.pallet \in DOMAIN listed
  <2> DEFINE rows == {s \in DOMAIN listed[c.pallet] : c.call \in listed[c.pallet][s]}
  <2>1. required_scopes(c) = {write(s) : s \in rows}
    BY <1>4 DEF required_scopes
  <2>2. c.pallet \in {"Jobs", "Resources", "Organizations", "Budgets"}
    BY <1>4 DEF listed
  <2>3. \A s \in rows : s = Group(c)
    BY <2>2 DEF listed, Group
  <2>4. rows # {} <=> Admissible(c)
    <3>1. CASE c.pallet = "Jobs"
      BY <3>1 DEF Known, listed, Admissible, SCOPED_PALLETS, NEVER_ADMITTED
    <3>2. CASE c.pallet = "Resources"
      BY <3>2 DEF Known, listed, Admissible, SCOPED_PALLETS, NEVER_ADMITTED
    <3>3. CASE c.pallet = "Organizations"
      BY <3>3 DEF Known, listed, Admissible, SCOPED_PALLETS, NEVER_ADMITTED
    <3>4. CASE c.pallet = "Budgets"
      BY <3>4 DEF Known, listed, Admissible, SCOPED_PALLETS, NEVER_ADMITTED
    <3>5. QED  BY <2>2, <3>1, <3>2, <3>3, <3>4
  <2> HIDE DEF rows
  <2>5. QED  BY <2>1, <2>3, <2>4
<1>5. CASE c.pallet \in DOMAIN wholesale
  <2>1. c.pallet \in {"Collaborations", "Secrets", "Volumes", "OverlayNetworks", "Datasets",
                      "Communities"} /\ c.pallet \notin DOMAIN listed
    BY <1>5 DEF wholesale, listed
  <2>2. required_scopes(c) = IF c.call \in excluded[c.pallet] THEN {}
                             ELSE {write(wholesale[c.pallet])}
    BY <1>5, <2>1 DEF required_scopes
  <2>3. wholesale[c.pallet] = Group(c)  BY <2>1 DEF wholesale, Group
  <2>4. Admissible(c) <=> c.call \notin excluded[c.pallet]
    BY <2>1 DEF Admissible, SCOPED_PALLETS, NEVER_ADMITTED, excluded
  <2>5. QED  BY <2>2, <2>3, <2>4
<1>6. CASE c.pallet \notin DOMAIN listed /\ c.pallet \notin DOMAIN wholesale
  <2>1. required_scopes(c) = {}  BY <1>6 DEF required_scopes, listed
  <2>2. c.pallet \notin SCOPED_PALLETS  BY <1>6 DEF SCOPED_PALLETS, listed, wholesale
  <2>3. QED  BY <2>1, <2>2 DEF Admissible
<1>7. QED  BY <1>4, <1>5, <1>6

\* scopes_table.rs stands in for the runtime's table: for every call of the
\* facades and every raw call of Facade, whatever its arguments, it requires
\* scopes where the runtime could admit the call, and no more or fewer than the
\* runtime may require of it.
THEOREM TableMirrorsTheRuntime == \A c \in FACADE \cup RAW : Mirrors(c)
<1> SUFFICES ASSUME NEW c \in FACADE \cup RAW  PROVE Mirrors(c)
  OBVIOUS
<1>1. Known(c)  BY FacadesAreKnown, RawCallsAreKnown
<1>2. c.pallet = "Jobs" => Readable(c)  BY <1>1 DEF Known
<1>3. QED  BY <1>1, <1>2, RequestMirrors, SecretRefMirrors, OthersMirror

-----------------------------------------------------------------------------
\* A call built is what the check of its mode made of it.
LEMMA CheckStep ==
  ASSUME Acting, NEW c \in FACADE \cup RAW, Tx(c)
  PROVE  LocalCheckAgrees'
<1> DEFINE m == mode
           result == IF signer = NoAccount THEN "ReadOnly" ELSE build_payload(m, c)
           required == required_scopes(c)
<1>1. /\ out'.call = c /\ out'.mode = m /\ out'.result = result
  BY DEF Tx
<1>2. Mirrors(c)  BY TableMirrorsTheRuntime
<1>3. m = Direct \/ m.kind = "Delegated"  BY DEF Acting
<1>4. Direct.kind = "Direct" /\ "Direct" # "Delegated"  BY DEF Direct
<1>5. result = "sent" => m = Direct
  BY <1>3, <1>4 DEF build_payload
<1>6. result = "NeverAdmitted" => ~Admissible(c)
  BY <1>2 DEF build_payload, Mirrors, Admissible, SCOPED_PALLETS
<1>7. result = "NotPermitted" => Admissible(c) /\ \E r \in required : ~(r \subseteq m.scopes)
  BY <1>2 DEF build_payload, Mirrors, is_superset
<1>8. result = "proxied" =>
        m.kind = "Delegated" /\ Admissible(c) /\ required # {} /\ \A r \in required : r \subseteq m.scopes
  BY <1>2, <1>3, <1>4 DEF build_payload, Mirrors, is_superset
<1> HIDE DEF m, result
<1> DEFINE covered(secret) == RuntimeRequires(c, secret) \subseteq m.scopes
<1>9. result = "proxied" => \A secret \in SeesSecret(c) : covered(secret)
  BY <1>2, <1>8 DEF Mirrors
<1>10. result = "NotPermitted" => \E secret \in SeesSecret(c) : ~covered(secret)
  <2>1. SUFFICES ASSUME NEW r \in required, ~(r \subseteq m.scopes)
                 PROVE  \E secret \in SeesSecret(c) : ~covered(secret)
    BY <1>7
  <2>2. PICK secret \in SeesSecret(c) : RuntimeRequires(c, secret) = r
    BY <1>2 DEF Mirrors
  <2>3. QED  BY <2>1, <2>2
<1>11. QED
  BY <1>1, <1>5, <1>6, <1>7, <1>8, <1>9, <1>10 DEF LocalCheckAgrees

Checked == Settled /\ LocalCheckAgrees

LEMMA CheckedNext == Checked /\ [Next]_vars => Checked'
<1> SUFFICES ASSUME Checked, [Next]_vars  PROVE Checked'
  OBVIOUS
<1>1. Settled'  BY SettledNext DEF Checked
<1>2. ASSUME NEW c \in FACADE \cup RAW, Tx(c)  PROVE LocalCheckAgrees'
  BY <1>2, CheckStep DEF Checked, Settled
<1>3. ASSUME out'.op # "tx"  PROVE LocalCheckAgrees'
  BY <1>3 DEF LocalCheckAgrees
<1>4. ASSUME UNCHANGED out  PROVE LocalCheckAgrees'
  BY <1>4 DEF Checked, LocalCheckAgrees
<1>5. ASSUME Convert  PROVE out'.op # "tx"
  BY <1>5 DEF Convert, ParsesKey, ParsesScopes, ParsesAmount, FormatsAmount, TakesOneToken,
              Converts
<1>6. ASSUME NEW tag \in Tag, StartsRecover(tag)  PROVE out'.op # "tx"
  BY <1>6 DEF StartsRecover
<1>7. ASSUME RecoverReadOnly  PROVE out'.op # "tx"
  BY <1>7 DEF RecoverReadOnly
<1>8. ASSUME UNCHANGED vars  PROVE UNCHANGED out
  BY <1>8 DEF vars
<1>9. LocalCheckAgrees'
  BY <1>2, <1>3, <1>4, <1>5, <1>6, <1>7, <1>8, Zenon DEF Next
<1>10. QED  BY <1>1, <1>9 DEF Checked

\* The client's local check stands in for the runtime's: what it sends through
\* the proxy the runtime admits, and it refuses only what the runtime might,
\* for every call of Facade, every grant and every environment.
THEOREM LocalCheckIsTheRuntimes == Spec => []LocalCheckAgrees
<1>1. Init => Checked
  BY SettledInit DEF Checked, Init, NoOut, LocalCheckAgrees
<1>2. Checked => LocalCheckAgrees  BY DEF Checked
<1>3. QED  BY <1>1, <1>2, CheckedNext, PTL DEF Spec

-----------------------------------------------------------------------------
(***************************************************************************)
(* Scope texts.                                                            *)
(***************************************************************************)
\* Every scope and access has a bit of its own, among those the runtime defines.
LEMMA BitsAreDistinct ==
  /\ \A s \in Scope, a \in Access : bit(s, a) \in ALL
  /\ \A s, t \in Scope, a, b \in Access : bit(s, a) = bit(t, b) => s = t /\ a = b
<1> DEFINE place(s) == CHOOSE i \in DOMAIN NAMES : NAMES[i] = s
<1>1. DOMAIN NAMES = 1..10 /\ COUNT = 10  BY DEF NAMES, COUNT
<1>2. \A s \in Scope : place(s) \in 1..10 /\ NAMES[place(s)] = s
  BY <1>1 DEF Scope
<1>3. \A s \in Scope, a \in Access :
        bit(s, a) = (place(s) - 1) * 2 + (IF a = "w" THEN 1 ELSE 0)
  BY DEF bit
<1> HIDE DEF place
<1>4. ALL = 0..19  BY <1>1 DEF ALL
<1>5. \A s \in Scope, a \in Access : bit(s, a) \in ALL
  BY <1>2, <1>3, <1>4
<1>6. ASSUME NEW s \in Scope, NEW t \in Scope, NEW a \in Access, NEW b \in Access,
             bit(s, a) = bit(t, b)
      PROVE  s = t /\ a = b
  <2>1. place(s) = place(t) /\ (a = "w" <=> b = "w")  BY <1>2, <1>3, <1>6
  <2>2. s = t  BY <1>2, <2>1
  <2>3. QED  BY <2>1, <2>2 DEF Access
<1>7. QED  BY <1>5, <1>6

\* ScopeSet::from_str: a text that parses, however long, grants the accesses it
\* names and no other, and no bit the runtime does not define.
THEOREM ScopeTextsMeanWhatTheySay ==
  ASSUME NEW text, from_text(text).ok
  PROVE  /\ is_valid(from_text(text).set)
         /\ \A s \in Scope, a \in Access :
              contains(from_text(text).set, s, a) <=>
                \E i \in DOMAIN text : text[i].name = s /\ a \in ToSet(text[i].letters)
<1> DEFINE set == UNION {{bit(text[i].name, text[i].letters[j]) : j \in DOMAIN text[i].letters} :
                           i \in DOMAIN text}
<1>1. from_text(text).set = set /\ \A i \in DOMAIN text : entry_error(text[i]) = "none"
  BY DEF from_text
<1>2. ASSUME NEW i \in DOMAIN text
      PROVE  /\ text[i].name \in Scope
             /\ \A j \in DOMAIN text[i].letters : text[i].letters[j] \in Access
  <2>1. text[i].name \in Scope /\ text[i].letters \in {<<"r">>, <<"w">>, <<"r", "w">>, <<"w", "r">>}
    BY <1>1 DEF entry_error
  <2>2. QED  BY <2>1 DEF Access
<1>3. is_valid(set)  BY <1>2, BitsAreDistinct DEF is_valid
<1>4. ASSUME NEW s \in Scope, NEW a \in Access
      PROVE  bit(s, a) \in set <=>
               \E i \in DOMAIN text : text[i].name = s /\ a \in ToSet(text[i].letters)
  <2>1. bit(s, a) \in set <=>
          \E i \in DOMAIN text : \E j \in DOMAIN text[i].letters :
            bit(s, a) = bit(text[i].name, text[i].letters[j])
    OBVIOUS
  <2>2. \A i \in DOMAIN text : \A j \in DOMAIN text[i].letters :
          bit(s, a) = bit(text[i].name, text[i].letters[j]) <=>
            text[i].name = s /\ text[i].letters[j] = a
    BY <1>2, BitsAreDistinct
  <2>3. \A i \in DOMAIN text : a \in ToSet(text[i].letters) <=>
          \E j \in DOMAIN text[i].letters : text[i].letters[j] = a
    BY DEF ToSet
  <2>4. QED  BY <2>1, <2>2, <2>3, Zenon
<1>5. QED  BY <1>1, <1>3, <1>4 DEF contains
-----------------------------------------------------------------------------
(***************************************************************************)
(* Types.                                                                  *)
(***************************************************************************)
ClientTyped ==
  /\ stage \in Stage /\ served \in DOMAIN Properties
  /\ env \in Env \cup {NoEnv}
  /\ config \in [network : Network, rpc_url : BOOLEAN, confirm_mainnet : BOOLEAN]
  /\ mode.kind = "Direct" => mode = Direct
  /\ mode.kind = "Delegated" => mode.principal = "member" /\ is_valid(mode.scopes)

CallTyped ==
  /\ step \in {"idle", "payload", "epoch", "aad", "dkg", "threshold", "committee",
               "registry", "commitments", "head", "decrypt", "done"}
  /\ changes \in 0..MaxChanges /\ Len(blocks) <= MaxPending + 2

\* What is left of an environment is one a client may start in.
LEMMA EnvLeft ==
  ASSUME env \in Env \cup {NoEnv}
  PROVE  env_left \in Env /\ NoEnv \in Env /\ NoConfig.network \in Network
<1>1. NoEnv \in Env  BY ConnectAssumption DEF NoEnv, Env
<1>2. env \in Env  BY <1>1
<1>3. env.confirm \in {"unset", "yes", "other"} /\ env.principal \in {"unset", "member", "bad"}
  BY <1>2 DEF Env
<1>4. env_left \in Env  BY <1>1, <1>3 DEF env_left, Env
<1>5. QED  BY <1>1, <1>4 DEF NoConfig, Config, Network

\* The scopes survive the wire.
LEMMA WireKeepsTheSet ==
  ASSUME NEW set, is_valid(set)
  PROVE  from_bits(bits(set)) = set
<1>1. ALL \subseteq 0..(Width - 1)  BY DEF ALL, Width, COUNT, NAMES
<1>2. set \subseteq 0..(Width - 1)  BY <1>1 DEF is_valid
<1> DEFINE word == bits(set)
<1>3. \A i \in 0..(Width - 1) : word[i] = 1 <=> i \in set  BY DEF bits
<1> HIDE DEF word
<1>4. from_bits(word) = set  BY <1>2, <1>3 DEF from_bits
<1>5. QED  BY <1>4 DEF word

\* What a client is resolved to: itself, or the member with the scopes of an
\* override or of a grant.
LEMMA Decided ==
  /\ decide({}, "member") = Direct \/ decide({}, "member") = Delegated("member", ALL)
  /\ decide({}, Nobody) = Direct
  /\ \A text : from_text(text).ok =>
       decide({agent_key(text)}, Nobody) = Delegated("member", from_text(text).set)
<1>1. decide({}, "member") = Direct \/ decide({}, "member") = Delegated("member", ALL)
  BY DEF decide
<1>2. decide({}, Nobody) = Direct  BY DEF decide
<1>3. ASSUME NEW text, from_text(text).ok
      PROVE  decide({agent_key(text)}, Nobody) = Delegated("member", from_text(text).set)
  <2> DEFINE set == from_text(text).set
             key == agent_key(text)
  <2>1. is_valid(set)  BY <1>3, ScopeTextsMeanWhatTheySay
  <2>2. key.principal = "member" /\ key.scopes = set
    BY <2>1, WireKeepsTheSet DEF agent_key
  <2> HIDE DEF key, set
  <2>3. (CHOOSE g \in {key} : TRUE) = key  OBVIOUS
  <2>4. decide({key}, Nobody) = Delegated(key.principal, key.scopes)  BY <2>3 DEF decide
  <2>5. QED  BY <2>2, <2>4 DEF key, set
<1>4. QED  BY <1>1, <1>2, <1>3
\* Every step of connecting, and every way to leave, keeps a client typed.
LEMMA ClientStaysTyped ==
  ASSUME ClientTyped, [Next]_vars
  PROVE  ClientTyped'
<1> USE DEF Fail
<1>1. stage \in Stage /\ env \in Env \cup {NoEnv} /\ env_left \in Env /\ NoEnv \in Env
  BY EnvLeft DEF ClientTyped
<1>2. Direct.kind = "Direct" /\ \A p, s : Delegated(p, s).kind = "Delegated"
  BY DEF Direct, Delegated
<1>3. CASE FromEnv
  <2>1. CASE UNCHANGED <<config>>
    BY <1>3, <2>1 DEF FromEnv, ClientTyped, Stage
  <2>2. CASE config' = Config(IF env.network = "mainnet" THEN "Mainnet" ELSE "Testnet",
                              env.url, FALSE)
    <3>1. env.url \in BOOLEAN  BY <1>1 DEF Env
    <3>2. config' \in [network : Network, rpc_url : BOOLEAN, confirm_mainnet : BOOLEAN]
      BY <2>2, <3>1 DEF Config, Network
    <3>3. QED  BY <1>3, <3>2 DEF FromEnv, ClientTyped, Stage
  <2>3. QED  BY <1>3, <2>1, <2>2 DEF FromEnv
<1>4. ASSUME NEW network \in Network, NEW url \in BOOLEAN, NEW confirm \in BOOLEAN,
             NEW account \in {NoAccount, Hsm}, ConnectWith(network, url, confirm, account)
      PROVE  ClientTyped'
  BY <1>1, <1>4 DEF ConnectWith, Config, ClientTyped, Stage
<1>5. CASE Dial
  BY <1>1, <1>5 DEF Dial, ClientTyped, Stage, Chain, Properties
<1>6. CASE ReadProperties
  BY <1>6 DEF ReadProperties, ClientTyped, Stage
<1>7. CASE EnforceNetworkGuards
  BY <1>7 DEF EnforceNetworkGuards, ClientTyped, Stage
<1>8. CASE Resolve
  <2>1. stage' \in Stage /\ UNCHANGED <<env, config, served>>
    BY <1>8, Zenon DEF Resolve, Connected, Stage
  <2>2. \/ mode' \in {mode, Direct, Delegated("member", ALL)}
        \/ \E text : from_text(text).ok /\ mode' = Delegated("member", from_text(text).set)
    BY <1>8, Decided, Zenon DEF Resolve, Connected
  <2>3. ASSUME NEW s, is_valid(s), mode' = Delegated("member", s)
        PROVE  mode'.kind = "Delegated" /\ mode'.principal = "member" /\ is_valid(mode'.scopes)
    BY <2>3 DEF Delegated
  <2>4. \A text : from_text(text).ok => is_valid(from_text(text).set)
    BY ScopeTextsMeanWhatTheySay
  <2>5. is_valid(ALL)  BY DEF is_valid
  <2>6. /\ mode'.kind = "Direct" => mode' = Direct
        /\ mode'.kind = "Delegated" => mode'.principal = "member" /\ is_valid(mode'.scopes)
    BY <1>2, <2>2, <2>3, <2>4, <2>5 DEF ClientTyped
  <2>7. QED  BY <2>1, <2>6 DEF ClientTyped
<1>9. CASE Leave
  <2>1. mode' = Direct /\ stage' = "left" /\ env' = NoEnv /\ served' = "unknown" /\ config' = NoConfig
    BY <1>9 DEF Leave
  <2>2. config' \in [network : Network, rpc_url : BOOLEAN, confirm_mainnet : BOOLEAN]
    BY <2>1 DEF NoConfig, Config, Network
  <2>3. "left" \in Stage /\ "unknown" \in DOMAIN Properties  BY DEF Stage, Properties
  <2>4. QED  BY <1>2, <2>1, <2>2, <2>3 DEF ClientTyped
<1>10. CASE /\ stage' = "left" /\ UNCHANGED <<env, config, signer, served, minted, mode, error>>
            /\ stage = "start"
  BY <1>10 DEF ClientTyped, Stage
<1>11. CASE UNCHANGED conn
  BY <1>11 DEF conn, ClientTyped
<1>12. QED
  BY <1>3, <1>4, <1>5, <1>6, <1>7, <1>8, <1>9, <1>10, <1>11, StepsOfAClient DEF ConnectNext

\* A recover, and the chain beside it, keep theirs.
LEMMA CallStaysTyped ==
  ASSUME Inv, CallTyped, [Next]_vars
  PROVE  CallTyped'
<1>1. ChainTyped /\ blocks \in Seq(Block) /\ MaxChanges \in Nat /\ MaxPending \in Nat
  BY RecoverAssumption DEF Inv, ChainTyped
<1>2. Len(blocks) \in Nat  BY <1>1
<1>3. CASE RecoverNext
  <2>1. UNCHANGED <<blocks, changes>>  BY <1>3, ReadsLeaveTheChain
  <2>2. step' \in {"epoch", "aad", "dkg", "threshold", "committee", "registry", "commitments",
                   "head", "decrypt", "done"}
    BY <1>3 DEF RecoverNext, RecoverStep, ReadPayload, ReadEpoch, ReadAad, ReadDkgOutput,
                ReadThreshold, ReadCommittee, ReadRegistry, ReadCommitment, Assemble, ReadHead,
                Decrypt, RpcFails, Then, End
  <2>3. QED  BY <2>1, <2>2 DEF CallTyped
<1>4. CASE ChainNext
  <2>1. Changing /\ step' = step
    BY <1>4 DEF ChainNext, ReSeal, DeleteSecret, CommitteeMoves, Announce, NewBlock, Finalize,
                Retract, Changing
  <2>2. changes' \in 0..MaxChanges  BY <1>1, <2>1 DEF Changing, CallTyped
  <2>3. \/ \E state : NewBlock(state)
        \/ Finalize
        \/ Retract
    BY <1>4, Zenon DEF ChainNext, ReSeal, DeleteSecret, CommitteeMoves, Announce
  <2>4. ASSUME NEW state, NewBlock(state)  PROVE Len(blocks') <= MaxPending + 2
    <3>1. Len(blocks') = Len(blocks) + 1 /\ Len(blocks) <= MaxPending
      <4>1. blocks' = Append(blocks, state) /\ Len(blocks) \in 1..MaxPending
        BY <2>4 DEF NewBlock
      <4>2. Len(Append(blocks, state)) = Len(blocks) + 1
        <5>1. blocks \in Seq(Block \cup {state})  BY <1>1
        <5>2. QED  BY <5>1
      <4>3. QED  BY <1>1, <1>2, <4>1, <4>2
    <3>2. QED  BY <1>1, <1>2, <3>1
  <2>5. CASE Finalize
    <3>1. Len(blocks') = Len(blocks) - 1  BY <1>1, <1>2, <2>5 DEF Finalize
    <3>2. QED  BY <1>1, <1>2, <2>1, <2>2, <3>1 DEF CallTyped
  <2>6. CASE Retract
    <3>1. PICK k \in 1..(Len(blocks) - 1) : blocks' = SubSeq(blocks, 1, k)  BY <2>6 DEF Retract
    <3>2. Len(blocks') = k  BY <1>1, <1>2, <3>1
    <3>3. QED  BY <1>1, <1>2, <2>1, <2>2, <3>2 DEF CallTyped
  <2>7. QED  BY <2>1, <2>2, <2>3, <2>4, <2>5, <2>6 DEF CallTyped
<1>5. CASE \E tag \in Tag : StartRecover(tag)
  <2>1. blocks' \in Chains /\ step' = "payload" /\ changes' = changes
    BY <1>5 DEF StartRecover
  <2>2. Len(blocks') <= 2 /\ Len(blocks') \in Nat
    BY <2>1, ChainsFound
  <2>3. QED  BY <1>1, <2>1, <2>2 DEF CallTyped
<1>6. CASE UNCHANGED <<blocks, changes, step, rec, outcome, quiet>>
  BY <1>6 DEF CallTyped
<1>7. QED  BY <1>3, <1>4, <1>5, <1>6, StepsOfASession

\* Session's variables keep their types, for any environment, committees and
\* chain: a connected client acts as itself or for the member, with no scope bit
\* the runtime does not define, whatever the grant on the wire held.
THEOREM SessionTyped == Spec => []TypeOK
<1> DEFINE Types == Inv /\ ClientTyped /\ CallTyped
<1>1. Init => Types
  <2> SUFFICES ASSUME Init  PROVE ClientTyped /\ CallTyped
    BY InvInit
  <2>1. Direct.kind = "Direct" /\ NoConfig \in [network : Network, rpc_url : BOOLEAN, confirm_mainnet : BOOLEAN]
    BY DEF Direct, NoConfig, Config, Network
  <2>2. ClientTyped
    BY <2>1 DEF Init, ConnectInit, ClientTyped, Stage, Properties
  <2>3. CallTyped  BY RecoverAssumption DEF Init, RecoverInit, CallTyped
  <2>4. QED  BY <2>2, <2>3
<1>2. Types /\ [Next]_vars => Types'
  BY InvNext, ClientStaysTyped, CallStaysTyped
<1>3. Types => TypeOK
  BY DEF Inv, ReadsTyped, Reads, ClientTyped, CallTyped, TypeOK
<1>4. QED  BY <1>1, <1>2, <1>3, PTL DEF Spec
-----------------------------------------------------------------------------
(***************************************************************************)
(* The text of a scope set, and back.                                      *)
(***************************************************************************)
\* Every bit the runtime defines is that of a scope and an access.
LEMMA BitsAreAll ==
  \A b \in ALL : \E s \in Scope, a \in Access : b = bit(s, a)
<1>1. DOMAIN NAMES = 1..10 /\ COUNT = 10  BY DEF NAMES, COUNT
<1>2. \A i, j \in 1..10 : NAMES[i] = NAMES[j] => i = j  BY DEF NAMES
<1>3. ASSUME NEW b \in ALL
      PROVE  \E s \in Scope, a \in Access : b = bit(s, a)
  <2> DEFINE i == b \div 2 + 1
             a == IF b % 2 = 1 THEN "w" ELSE "r"
             place == CHOOSE j \in DOMAIN NAMES : NAMES[j] = NAMES[i]
  <2>1. b \in 0..19 /\ i \in 1..10 /\ b = (i - 1) * 2 + (IF a = "w" THEN 1 ELSE 0)
    BY <1>1, <1>3 DEF ALL
  <2>2. a \in Access  BY DEF Access
  <2> HIDE DEF i, a
  <2>3. NAMES[i] \in Scope  BY <1>1, <2>1 DEF Scope
  <2>4. place = i  BY <1>1, <1>2, <2>1
  <2>5. bit(NAMES[i], a) = (place - 1) * 2 + (IF a = "w" THEN 1 ELSE 0)  BY DEF bit
  <2>6. QED  BY <2>1, <2>2, <2>3, <2>4, <2>5
<1>4. QED  BY <1>3

\* The entry of a scope, and what is shown of it.
EntryOf(set, s) == Entry(s, TRUE, letters(set, s))
Shown(set, s)   == IF letters(set, s) = <<>> THEN <<>> ELSE <<EntryOf(set, s)>>

\* The texts of the first n scopes.
Line(set, f, n) == IF n = 0 THEN <<>> ELSE f[n - 1] \o Shown(set, NAMES[n])
Showing(set, f) == f = [n \in 0..COUNT |-> Line(set, f, n)]
shown(set)      == CHOOSE f : Showing(set, f)

LEMMA LinesShown ==
  ASSUME NEW set, NEW f
  PROVE  Showing(set, f) <=>
           /\ f = [n \in 0..COUNT |-> f[n]]
           /\ f[0] = <<>> /\ \A n \in 1..COUNT : f[n] = f[n - 1] \o Shown(set, NAMES[n])
<1>1. COUNT \in Nat  BY DEF COUNT, NAMES
<1>2. Line(set, f, 0) = <<>>  BY DEF Line
<1>3. \A n \in 1..COUNT : Line(set, f, n) = f[n - 1] \o Shown(set, NAMES[n])
  <2>1. \A n \in 1..COUNT : n # 0  BY <1>1
  <2>2. QED  BY <2>1, Zenon DEF Line
<1>4. Showing(set, f) <=> f = [n \in 0..COUNT |-> f[n]] /\ \A n \in 0..COUNT : f[n] = Line(set, f, n)
  BY DEF Showing
<1>5. 0 \in 0..COUNT /\ 1..COUNT \subseteq 0..COUNT /\ \A n \in 0..COUNT : n = 0 \/ n \in 1..COUNT
  BY <1>1
<1>6. QED  BY <1>2, <1>3, <1>4, <1>5, Zenon

LEMMA ShownExists ==
  ASSUME NEW set
  PROVE  Showing(set, shown(set)) /\ to_text(set) = shown(set)[COUNT]
<1> DEFINE E == {EntryOf(set, NAMES[n]) : n \in 1..COUNT}
           T == Seq(E)
           next(t, n) == t \o Shown(set, NAMES[n])
           body == [n \in 1..COUNT |-> [t \in T |-> next(t, n)]]
<1>1. COUNT \in Nat  BY DEF COUNT, NAMES
<1>2. \A n \in 1..COUNT : EntryOf(set, NAMES[n]) \in E  OBVIOUS
<1> HIDE DEF E
<1>3. ASSUME NEW n \in 1..COUNT, NEW t \in T  PROVE next(t, n) \in T
  <2>1. CASE letters(set, NAMES[n]) = <<>>  BY <2>1 DEF Shown
  <2>2. CASE letters(set, NAMES[n]) # <<>>
    <3>1. Shown(set, NAMES[n]) = <<EntryOf(set, NAMES[n])>>  BY <2>2 DEF Shown
    <3>2. QED  BY <1>2, <3>1
  <2>3. QED  BY <2>1, <2>2
<1>4. <<>> \in T  OBVIOUS
<1> HIDE DEF T, next
<1>5. body \in [1..COUNT -> [T -> T]]  BY <1>3
<1>6. PICK f \in [0..COUNT -> T] : Rounds(COUNT, <<>>, body, f)
  <2> HIDE DEF body
  <2>1. QED  BY <1>1, <1>4, <1>5, LoopExists
<1>7. \A n \in 1..COUNT : f[n] = next(f[n - 1], n)
  <2> TAKE n \in 1..COUNT
  <2>1. f[n - 1] \in T  BY <1>1
  <2>2. body[n][f[n - 1]] = next(f[n - 1], n)  BY <2>1
  <2> HIDE DEF body
  <2>3. QED  BY <1>6, <2>2 DEF Rounds
<1>8. f = [n \in 0..COUNT |-> f[n]] /\ f[0] = <<>>  BY <1>6 DEF Rounds
<1>9. Showing(set, f)  BY <1>7, <1>8, LinesShown DEF next
<1>10. Showing(set, shown(set))  BY <1>9 DEF shown
<1>11. to_text(set) = shown(set)[COUNT]  BY DEF to_text, shown, Showing, Line, Shown, EntryOf
<1>12. QED  BY <1>10, <1>11

\* What is shown of the first n scopes: each of them that is granted anything,
\* once or more, with all it is granted.
Shows(set, text, n) ==
  /\ text \in Seq({EntryOf(set, NAMES[k]) : k \in 1..n})
  /\ \A i \in DOMAIN text : text[i].letters # <<>>
  /\ \A k \in 1..n : letters(set, NAMES[k]) # <<>> =>
       \E i \in DOMAIN text : text[i] = EntryOf(set, NAMES[k])

LEMMA TextShows ==
  ASSUME NEW set
  PROVE  Shows(set, to_text(set), COUNT)
<1> DEFINE f == shown(set)
           E(n) == {EntryOf(set, NAMES[k]) : k \in 1..n}
           S == {n \in 0..COUNT : Shows(set, f[n], n)}
<1>1. COUNT \in Nat  BY DEF COUNT, NAMES
<1>2. f[0] = <<>> /\ \A n \in 1..COUNT : f[n] = f[n - 1] \o Shown(set, NAMES[n])
  BY ShownExists, LinesShown
<1> HIDE DEF f
<1>3. 0 \in S
  <2>1. \A X : <<>> \in Seq(X)  OBVIOUS
  <2>2. DOMAIN <<>> = {} /\ 1..0 = {}  OBVIOUS
  <2>3. Shows(set, <<>>, 0)  BY <2>1, <2>2 DEF Shows
  <2>4. QED  BY <1>1, <1>2, <2>3
<1>4. ASSUME NEW n \in 0..(COUNT - 1), n \in S  PROVE n + 1 \in S
  <2> DEFINE s == NAMES[n + 1]
             e == EntryOf(set, s)
  <2>1. n + 1 \in 1..COUNT /\ (n + 1) - 1 = n /\ n \in Nat  BY <1>1
  <2>2. f[n + 1] = f[n] \o Shown(set, s) /\ Shows(set, f[n], n)  BY <1>2, <1>4, <2>1
  <2>3. E(n) \subseteq E(n + 1) /\ e \in E(n + 1)  BY <2>1
  <2>4. f[n] \in Seq(E(n + 1))  BY <2>2, <2>3 DEF Shows
  <2>5. CASE letters(set, s) = <<>>
    <3>1. f[n + 1] = f[n]  BY <2>2, <2>4, <2>5 DEF Shown
    <3>2. \A k \in 1..(n + 1) : k \in 1..n \/ NAMES[k] = s  BY <2>1
    <3>3. Shows(set, f[n + 1], n + 1)  BY <2>2, <2>4, <2>5, <3>1, <3>2 DEF Shows
    <3>4. QED  BY <2>1, <3>3
  <2>6. CASE letters(set, s) # <<>>
    <3> DEFINE old == f[n]
               new == f[n + 1]
    <3>1. new = old \o <<e>>  BY <2>2, <2>6 DEF Shown
    <3>2. e.letters = letters(set, s)  BY DEF EntryOf, Entry
    <3>3. old \in Seq(E(n + 1)) /\ e \in E(n + 1) /\ \A i \in DOMAIN old : old[i].letters # <<>>
      BY <2>2, <2>3, <2>4 DEF Shows
    <3>4. ASSUME NEW k \in 1..n, letters(set, NAMES[k]) # <<>>
          PROVE  \E i \in DOMAIN old : old[i] = EntryOf(set, NAMES[k])
      BY <2>2, <3>4 DEF Shows
    <3> HIDE DEF e, E, old, new
    <3>5. /\ new \in Seq(E(n + 1))
          /\ DOMAIN old \subseteq DOMAIN new
          /\ \A i \in DOMAIN old : new[i] = old[i]
          /\ \A i \in DOMAIN new : i \in DOMAIN old \/ new[i] = e
          /\ \E i \in DOMAIN new : new[i] = e
      <4>1. DOMAIN new = 1..(Len(old) + 1) /\ new[Len(old) + 1] = e /\ Len(old) \in Nat
            /\ DOMAIN old = 1..Len(old) /\ \A i \in DOMAIN old : new[i] = old[i]
        BY <3>1, <3>3
      <4>2. new \in Seq(E(n + 1))  BY <3>1, <3>3
      <4>3. QED  BY <4>1, <4>2
    <3>6. \A i \in DOMAIN new : new[i].letters # <<>>
      BY <2>6, <3>2, <3>3, <3>5
    <3>7. ASSUME NEW k \in 1..(n + 1), letters(set, NAMES[k]) # <<>>
          PROVE  \E i \in DOMAIN new : new[i] = EntryOf(set, NAMES[k])
      <4>1. CASE k \in 1..n
        <5>1. PICK i \in DOMAIN old : old[i] = EntryOf(set, NAMES[k])  BY <3>4, <3>7, <4>1
        <5>2. QED  BY <3>5, <5>1
      <4>2. CASE k = n + 1  BY <3>5, <4>2 DEF e
      <4>3. QED  BY <2>1, <4>1, <4>2
    <3>8. Shows(set, new, n + 1)  BY <3>5, <3>6, <3>7 DEF Shows, E
    <3>9. QED  BY <2>1, <3>8 DEF new
  <2>7. QED  BY <2>5, <2>6
<1> HIDE DEF S
<1>5. \A n \in 0..(COUNT - 1) : n \in S => n + 1 \in S  BY <1>4
<1>6. 0..COUNT \subseteq S  BY <1>1, <1>3, <1>5, UpTo
<1>7. Shows(set, f[COUNT], COUNT)  BY <1>1, <1>6 DEF S
<1>8. QED  BY <1>7, ShownExists DEF f

\* ScopeSet's Display and FromStr: the text of a valid set parses, and to that set.
THEOREM ShownScopesParseBack ==
  ASSUME NEW set, is_valid(set)
  PROVE  from_text(to_text(set)) = [ok |-> TRUE, error |-> "none", set |-> set]
<1> DEFINE text == to_text(set)
           parsed == UNION {{bit(text[i].name, text[i].letters[j]) : j \in DOMAIN text[i].letters} :
                              i \in DOMAIN text}
<1>1. Shows(set, text, COUNT) /\ DOMAIN NAMES = 1..COUNT
  BY TextShows DEF COUNT, NAMES
<1> HIDE DEF text
<1>2. ASSUME NEW i \in DOMAIN text
      PROVE  \E s \in Scope : /\ text[i] = EntryOf(set, s) /\ letters(set, s) # <<>>
  <2>1. text[i] \in {EntryOf(set, NAMES[k]) : k \in 1..COUNT} /\ text[i].letters # <<>>
    BY <1>1 DEF Shows
  <2>2. PICK k \in 1..COUNT : text[i] = EntryOf(set, NAMES[k])  BY <2>1
  <2>3. text[i].letters = letters(set, NAMES[k])  BY <2>2 DEF EntryOf, Entry
  <2>4. NAMES[k] \in Scope  BY <1>1 DEF Scope
  <2>5. QED  BY <2>1, <2>2, <2>3, <2>4
<1>3. ASSUME NEW s \in Scope
      PROVE  /\ letters(set, s) \in {<<>>, <<"r">>, <<"w">>, <<"r", "w">>}
             /\ \A a \in Access : bit(s, a) \in set <=>
                  \E j \in DOMAIN letters(set, s) : letters(set, s)[j] = a
             /\ \A j \in DOMAIN letters(set, s) : letters(set, s)[j] \in Access
  <2> DEFINE r == contains(set, s, "r")
             w == contains(set, s, "w")
             shows == letters(set, s)
  <2>1. (bit(s, "r") \in set <=> r) /\ (bit(s, "w") \in set <=> w)  BY DEF contains
  <2>2. /\ r /\ w   => shows = <<"r">> \o <<"w">>
        /\ r /\ ~w  => shows = <<"r">> \o <<>>
        /\ ~r /\ w  => shows = <<>> \o <<"w">>
        /\ ~r /\ ~w => shows = <<>> \o <<>>
    BY Zenon DEF letters
  <2> HIDE DEF r, w, shows
  <2>3. /\ r /\ w   => shows = <<"r", "w">>
        /\ r /\ ~w  => shows = <<"r">>
        /\ ~r /\ w  => shows = <<"w">>
        /\ ~r /\ ~w => shows = <<>>
    BY <2>2
  <2>4. /\ shows \in {<<>>, <<"r">>, <<"w">>, <<"r", "w">>}
        /\ r <=> \E j \in DOMAIN shows : shows[j] = "r"
        /\ w <=> \E j \in DOMAIN shows : shows[j] = "w"
        /\ \A j \in DOMAIN shows : shows[j] \in Access
    BY <2>3 DEF Access
  <2>5. QED  BY <2>1, <2>4 DEF Access, shows
<1>4. ASSUME NEW s \in Scope
      PROVE  EntryOf(set, s).name = s /\ EntryOf(set, s).letters = letters(set, s)
  BY DEF EntryOf, Entry
<1>5. ASSUME NEW i \in DOMAIN text  PROVE entry_error(text[i]) = "none"
  <2>1. PICK s \in Scope : text[i] = EntryOf(set, s) /\ letters(set, s) # <<>>  BY <1>2
  <2>2. text[i].colon  BY <2>1 DEF EntryOf, Entry
  <2>3. text[i].letters \in {<<"r">>, <<"w">>, <<"r", "w">>, <<"w", "r">>}  BY <1>3, <1>4, <2>1
  <2>4. QED  BY <1>4, <2>1, <2>2, <2>3, Zenon DEF entry_error
<1>6. from_text(text) = [ok |-> TRUE, error |-> "none", set |-> parsed]
  <2>1. {i \in DOMAIN text : entry_error(text[i]) # "none"} = {}  BY <1>5
  <2>2. QED  BY <2>1, Zenon DEF from_text
<1>7. \A b : b \in parsed <=> \E i \in DOMAIN text : \E j \in DOMAIN text[i].letters :
                                b = bit(text[i].name, text[i].letters[j])
  OBVIOUS
<1> HIDE DEF parsed
<1>8. parsed \subseteq set
  <2>1. SUFFICES ASSUME NEW i \in DOMAIN text, NEW j \in DOMAIN text[i].letters
                 PROVE  bit(text[i].name, text[i].letters[j]) \in set
    BY <1>7
  <2>2. PICK s \in Scope : text[i] = EntryOf(set, s)  BY <1>2
  <2>3. text[i].name = s /\ text[i].letters = letters(set, s)  BY <1>4, <2>2
  <2>4. QED  BY <1>3, <2>1, <2>3
<1>9. set \subseteq parsed
  <2>1. SUFFICES ASSUME NEW b \in set  PROVE b \in parsed
    OBVIOUS
  <2>2. PICK s \in Scope, a \in Access : b = bit(s, a)  BY BitsAreAll DEF is_valid
  <2>3. PICK j \in DOMAIN letters(set, s) : letters(set, s)[j] = a  BY <1>3, <2>2
  <2>4. letters(set, s) # <<>>  BY <2>3
  <2>5. PICK k \in 1..COUNT : s = NAMES[k]  BY <1>1 DEF Scope
  <2>6. PICK i \in DOMAIN text : text[i] = EntryOf(set, s)
    BY <1>1, <2>4, <2>5 DEF Shows
  <2>7. QED  BY <1>4, <1>7, <2>2, <2>3, <2>6
<1>10. parsed = set  BY <1>8, <1>9
<1>11. QED  BY <1>6, <1>10 DEF text

\* What holds of the scopes of a resolved client.
Granted == stage = "ready" /\ minted.granted =>
             \A s \in Scope, a \in Access : contains(mode.scopes, s, a) <=>
               \E i \in DOMAIN minted.text :
                 minted.text[i].name = s /\ a \in ToSet(minted.text[i].letters)

LEMMA GrantedNext == Granted /\ [Next]_vars => Granted'
<1> SUFFICES ASSUME Granted, [Next]_vars  PROVE Granted'
  OBVIOUS
<1> USE DEF Fail
<1>1. CASE Resolve
  <2>1. SUFFICES ASSUME stage' = "ready", minted'.granted
                 PROVE  \E text : /\ from_text(text).ok /\ minted'.text = text
                                  /\ mode'.scopes = from_text(text).set
    BY <2>1, ScopeTextsMeanWhatTheySay DEF Granted
  <2>2. ~NotMinted.granted  BY DEF NotMinted
  <2>3. PICK text : /\ from_text(text).ok
                    /\ Connected(decide({agent_key(text)}, Nobody), [granted |-> TRUE, text |-> text])
    BY <1>1, <2>1, <2>2, Zenon DEF Resolve, Connected
  <2>4. minted'.text = text /\ mode' = Delegated("member", from_text(text).set)
    BY <2>3, Decided DEF Connected
  <2>5. mode'.scopes = from_text(text).set  BY <2>4 DEF Delegated
  <2>6. QED  BY <2>3, <2>4, <2>5
<1>2. ASSUME NEW network \in Network, NEW url \in BOOLEAN, NEW confirm \in BOOLEAN,
             NEW account \in {NoAccount, Hsm}, ConnectWith(network, url, confirm, account)
      PROVE  stage' # "ready"
  BY <1>2 DEF ConnectWith
<1>3. FromEnv \/ Dial \/ ReadProperties \/ EnforceNetworkGuards => stage' # "ready"
  BY DEF FromEnv, Dial, ReadProperties, EnforceNetworkGuards
<1>4. CASE stage' # "ready"  BY <1>4 DEF Granted
<1>5. CASE UNCHANGED conn  BY <1>5 DEF conn, Granted
<1>6. Leave => stage' # "ready"  BY DEF Leave
<1>7. QED
  BY <1>1, <1>2, <1>3, <1>4, <1>5, <1>6, StepsOfAClient DEF ConnectNext

\* What is made of a scope text.
TextKept ==
  out.op = "scopes" => out.result = from_text(out.text)

LEMMA TextKeptNext == TextKept /\ [Next]_vars => TextKept'
<1> SUFFICES ASSUME TextKept, [Next]_vars  PROVE TextKept'
  OBVIOUS
<1>1. ASSUME NEW text \in ScopeTexts, ParsesScopes(text)  PROVE TextKept'
  BY <1>1 DEF ParsesScopes, Converts, TextKept
<1>2. ASSUME Convert, \A text \in ScopeTexts : ~ParsesScopes(text)  PROVE out'.op # "scopes"
  BY <1>2 DEF Convert, ParsesKey, ParsesAmount, FormatsAmount, TakesOneToken, Converts
<1>3. ASSUME NEW c, Tx(c)  PROVE out'.op # "scopes"
  BY <1>3 DEF Tx
<1>4. ASSUME NEW tag, StartsRecover(tag)  PROVE out'.op # "scopes"
  BY <1>4 DEF StartsRecover
<1>5. ASSUME RecoverReadOnly  PROVE out'.op # "scopes"
  BY <1>5 DEF RecoverReadOnly
<1>6. CASE out'.op # "scopes"  BY <1>6 DEF TextKept
<1>7. CASE UNCHANGED out  BY <1>7 DEF TextKept
<1>8. ASSUME UNCHANGED vars  PROVE UNCHANGED out  BY <1>8 DEF vars
<1>9. QED  BY <1>1, <1>2, <1>3, <1>4, <1>5, <1>6, <1>7, <1>8, Zenon DEF Next

\* A text parses to its set, with no error.
LEMMA ParsedScopes ==
  ASSUME NEW text, from_text(text).ok
  PROVE  from_text(text) = [ok |-> TRUE, error |-> "none", set |-> from_text(text).set]
<1> DEFINE set == UNION {{bit(text[i].name, text[i].letters[j]) : j \in DOMAIN text[i].letters} :
                           i \in DOMAIN text}
           bad == {i \in DOMAIN text : entry_error(text[i]) # "none"}
<1>1. bad = {}
  <2>1. bad # {} => ~from_text(text).ok  BY DEF from_text
  <2>2. QED  BY <2>1
<1>2. from_text(text) = [ok |-> TRUE, error |-> "none", set |-> set]
  BY <1>1, Zenon DEF from_text
<1> HIDE DEF set
<1>3. QED  BY <1>2

\* Keys::authorize to mode::resolve: the scopes a delegated client checks its
\* calls against are those of the text the member minted the key with, for any
\* text; and a text that parses shows, and parses again, as the same set.
THEOREM GrantsSurviveTheWire == Spec => []GrantSurvivesTheWire
<1> DEFINE Kept == Granted /\ TextKept
<1>1. Init => Kept
  BY DEF Init, ConnectInit, NoOut, Granted, TextKept
<1>2. Kept /\ [Next]_vars => Kept'  BY GrantedNext, TextKeptNext
<1>3. Kept => GrantSurvivesTheWire
  <2>1. SUFFICES ASSUME Kept  PROVE GrantSurvivesTheWire
    OBVIOUS
  <2>2. ASSUME out.op = "scopes", out.result.ok
        PROVE  /\ is_valid(out.result.set)
               /\ \A s \in Scope, a \in Access : contains(out.result.set, s, a) <=>
                    \E i \in DOMAIN out.text :
                      out.text[i].name = s /\ a \in ToSet(out.text[i].letters)
               /\ from_text(to_text(out.result.set)) = out.result
    <3>1. out.result = from_text(out.text) /\ from_text(out.text).ok  BY <2>1, <2>2 DEF TextKept
    <3>2. out.result = [ok |-> TRUE, error |-> "none", set |-> out.result.set]
      BY <3>1, ParsedScopes
    <3>3. is_valid(out.result.set) /\ \A s \in Scope, a \in Access : contains(out.result.set, s, a) <=>
            \E i \in DOMAIN out.text : out.text[i].name = s /\ a \in ToSet(out.text[i].letters)
      BY <3>1, ScopeTextsMeanWhatTheySay
    <3>4. from_text(to_text(out.result.set)) = out.result
      BY <3>2, <3>3, ShownScopesParseBack
    <3>5. QED  BY <3>3, <3>4
  <2>3. QED  BY <2>1, <2>2, Zenon DEF GrantSurvivesTheWire, Granted
<1>4. QED  BY <1>1, <1>2, <1>3, PTL DEF Spec
-----------------------------------------------------------------------------
(***************************************************************************)
(* Key texts: positions and parts of a text.                               *)
(***************************************************************************)
KeyTextSet == Seq(Symbol)

LEMMA PartOfText ==
  ASSUME NEW s \in KeyTextSet, NEW m \in 1..(Len(s) + 1), NEW n \in (m - 1)..Len(s)
  PROVE  /\ SubSeq(s, m, n) \in KeyTextSet
         /\ Len(SubSeq(s, m, n)) = n - m + 1
         /\ DOMAIN SubSeq(s, m, n) = 1..(n - m + 1)
         /\ \A i \in 1..(n - m + 1) : SubSeq(s, m, n)[i] = s[m + i - 1]
  BY DEF KeyTextSet

LEMMA SameText ==
  ASSUME NEW s \in KeyTextSet, NEW t \in KeyTextSet, Len(s) = Len(t),
         \A i \in 1..Len(s) : s[i] = t[i]
  PROVE  s = t
  BY DEF KeyTextSet

LEMMA JoinedTexts ==
  ASSUME NEW s \in KeyTextSet, NEW t \in KeyTextSet
  PROVE  /\ s \o t \in KeyTextSet /\ Len(s \o t) = Len(s) + Len(t)
         /\ \A i \in 1..Len(s) : (s \o t)[i] = s[i]
         /\ \A i \in 1..Len(t) : (s \o t)[Len(s) + i] = t[i]
  BY DEF KeyTextSet

LEMMA TextLength ==
  ASSUME NEW s \in KeyTextSet
  PROVE  Len(s) \in Nat /\ DOMAIN s = 1..Len(s) /\ \A i \in 1..Len(s) : s[i] \in Symbol
  BY DEF KeyTextSet

\* find: the first of the positions, or one past the end.
LEMMA Found ==
  ASSUME NEW s \in KeyTextSet, NEW S \in SUBSET (1..Len(s))
  PROVE  /\ find(s, S) \in 1..(Len(s) + 1)
         /\ find(s, S) \in S \/ (find(s, S) = Len(s) + 1 /\ S = {})
         /\ \A i \in S : find(s, S) <= i
<1>1. Len(s) \in Nat  BY TextLength
<1>2. CASE S = {}  BY <1>1, <1>2 DEF find
<1>3. CASE S # {}
  <2>1. S \in SUBSET Nat  BY <1>1
  <2>2. Min(S) \in S /\ \A i \in S : Min(S) <= i  BY <1>3, <2>1, MinIsMember DEF Min
  <2>3. find(s, S) = Min(S)  BY <1>3 DEF find
  <2>4. find(s, S) \in S /\ \A i \in S : find(s, S) <= i  BY <2>2, <2>3
  <2>5. find(s, S) \in 1..(Len(s) + 1)
    <3> DEFINE first == find(s, S)
    <3>1. first \in 1..Len(s)  BY <2>4
    <3> HIDE DEF first
    <3>2. first \in 1..(Len(s) + 1)  BY <1>1, <3>1
    <3>3. QED  BY <3>2 DEF first
  <2>6. QED  BY <2>4, <2>5
<1>4. QED  BY <1>2, <1>3

-----------------------------------------------------------------------------
(***************************************************************************)
(* Key texts: the path.                                                    *)
(***************************************************************************)
\* What a path is, cut off before the first separator and after the phrase.
Path(p) ==
  /\ p \in KeyTextSet
  /\ p = <<>> \/ p[1] = "/"
  /\ \A i \in 1..(Len(p) - 2) : ~(p[i] = "/" /\ p[i + 1] = "/" /\ p[i + 2] = "/")

\* A segment starts with one or two slashes, and ends before the next one.
LEMMA Segments ==
  ASSUME NEW p, Path(p), NEW i \in segments(p)
  PROVE  /\ i \in 1..Len(p) /\ p[i] = "/" /\ (i # 1 => p[i - 1] # "/")
         /\ token_end(p, i) \in i..Len(p)
         /\ token_end(p, i) = Len(p) \/ token_end(p, i) + 1 \in segments(p)
         /\ \A j \in segments(p) : j > i => token_end(p, i) < j
         /\ token(p, i) \in KeyTextSet
         /\ Len(token(p, i)) = token_end(p, i) - i
         /\ \A k \in 1..(token_end(p, i) - i) : token(p, i)[k] = p[i + k]
<1> DEFINE n == Len(p)
           later == {j \in segments(p) : j > i}
           e == token_end(p, i)
<1>1. p \in KeyTextSet /\ n \in Nat /\ DOMAIN p = 1..n  BY TextLength DEF Path
<1>2. i \in 1..n /\ p[i] = "/" /\ (i # 1 => p[i - 1] # "/")
  BY <1>1 DEF segments
<1>3. later \in SUBSET (1..n) /\ \A j \in later : j > i  BY <1>1 DEF segments
<1> HIDE DEF later
<1>4. /\ find(p, later) \in 1..(n + 1)
      /\ find(p, later) \in later \/ find(p, later) = n + 1
      /\ \A j \in later : find(p, later) <= j
  BY <1>1, <1>3, Found
<1>5. e = find(p, later) - 1  BY DEF token_end, later
<1>6. e \in i..n /\ (e = n \/ e + 1 \in later) /\ \A j \in later : e < j
  <2> DEFINE x == find(p, later)
  <2>1. x \in 1..(n + 1) /\ (x \in later \/ x = n + 1) /\ (\A j \in later : x <= j) /\ e = x - 1
    BY <1>4, <1>5
  <2> HIDE DEF x, e, n
  <2>2. x > i  BY <1>1, <1>2, <1>3, <2>1
  <2>3. e \in i..n  BY <1>1, <1>2, <2>1, <2>2
  <2>4. e = n \/ e + 1 \in later  BY <1>1, <2>1
  <2>5. ASSUME NEW j \in later  PROVE e < j
    <3>1. j \in 1..n  BY <1>3
    <3>2. QED  BY <1>1, <2>1, <3>1
  <2>6. QED  BY <2>3, <2>4, <2>5
<1> HIDE DEF e
<1>7. /\ token(p, i) \in KeyTextSet /\ Len(token(p, i)) = e - i
      /\ \A k \in 1..(e - i) : token(p, i)[k] = p[i + k]
  <2>1. i + 1 \in 1..(n + 1) /\ e \in ((i + 1) - 1)..n /\ e - (i + 1) + 1 = e - i
    <3>1. n \in Nat /\ i \in 1..n /\ e \in i..n  BY <1>1, <1>2, <1>6
    <3> HIDE DEF n
    <3>2. QED  BY <3>1
  <2>2. /\ SubSeq(p, i + 1, e) \in KeyTextSet /\ Len(SubSeq(p, i + 1, e)) = e - (i + 1) + 1
        /\ \A k \in 1..(e - (i + 1) + 1) : SubSeq(p, i + 1, e)[k] = p[(i + 1) + k - 1]
    BY <1>1, <2>1, PartOfText
  <2>3. \A k \in 1..(e - i) : (i + 1) + k - 1 = i + k  BY <1>2
  <2>4. token(p, i) = SubSeq(p, i + 1, e)  BY DEF token, e
  <2>5. QED  BY <2>1, <2>2, <2>3, <2>4
<1>8. QED  BY <1>2, <1>6, <1>7 DEF e, later

\* Between two segments, a slash is the second of the first one's.
LEMMA Between ==
  ASSUME NEW p, Path(p), NEW i \in segments(p), NEW j \in (i + 1)..token_end(p, i), p[j] = "/"
  PROVE  j = i + 1
<1>1. p \in KeyTextSet /\ Len(p) \in Nat /\ DOMAIN p = 1..Len(p)  BY TextLength DEF Path
<1>2. i \in 1..Len(p) /\ p[i] = "/" /\ token_end(p, i) \in i..Len(p)
      /\ \A l \in segments(p) : l > i => token_end(p, i) < l
  BY Segments
<1>3. ASSUME NEW l \in (i + 1)..token_end(p, i), p[l] = "/"  PROVE p[l - 1] = "/"
  <2>1. l \in 1..Len(p) /\ l # 1 /\ l > i /\ ~(token_end(p, i) < l)  BY <1>2
  <2>2. l \notin segments(p)  BY <1>2, <2>1
  <2>3. QED  BY <1>1, <1>3, <2>1, <2>2 DEF segments
<1>4. SUFFICES ASSUME j # i + 1  PROVE FALSE
  OBVIOUS
<1>5. p[j - 1] = "/"  BY <1>3
<1>6. j - 1 \in (i + 1)..token_end(p, i)  BY <1>2, <1>4
<1>7. p[(j - 1) - 1] = "/"  BY <1>3, <1>5, <1>6
<1>8. j - 2 \in 1..(Len(p) - 2) /\ (j - 1) - 1 = j - 2 /\ (j - 2) + 1 = j - 1 /\ (j - 2) + 2 = j
  BY <1>1, <1>2, <1>4
<1>9. QED  BY <1>5, <1>7, <1>8 DEF Path

\* No segment is empty exactly when the path does not end in a slash.
LEMMA PathIsGood ==
  ASSUME NEW p, Path(p)
  PROVE  parse_junctions(p).ok <=> p = <<>> \/ p[Len(p)] # "/"
<1> DEFINE n == Len(p)
           empty(t) == \A j \in DOMAIN t : t[j] = "/"
<1>1. p \in KeyTextSet /\ n \in Nat /\ DOMAIN p = 1..n  BY TextLength DEF Path
<1>2. parse_junctions(p).ok <=> \A i \in segments(p) : ~empty(token(p, i))
  BY DEF parse_junctions
<1>3. ASSUME NEW i \in segments(p)
      PROVE  empty(token(p, i)) <=> \A l \in (i + 1)..token_end(p, i) : p[l] = "/"
  <2> DEFINE e == token_end(p, i)
             t == token(p, i)
  <2>1. i \in 1..n /\ e \in i..n /\ t \in KeyTextSet /\ Len(t) = e - i
        /\ \A k \in 1..(e - i) : t[k] = p[i + k]
    BY Segments
  <2>2. DOMAIN t = 1..(e - i)  BY <2>1, TextLength
  <2> HIDE DEF e, t
  <2>3. ASSUME NEW l \in (i + 1)..e  PROVE l - i \in 1..(e - i) /\ i + (l - i) = l
    BY <1>1, <2>1
  <2>4. ASSUME NEW k \in 1..(e - i)  PROVE i + k \in (i + 1)..e
    BY <1>1, <2>1
  <2>5. QED  BY <2>1, <2>2, <2>3, <2>4 DEF e, t
<1>4. ASSUME p # <<>>, p[n] = "/"
      PROVE  \E i \in segments(p) : \A l \in (i + 1)..token_end(p, i) : p[l] = "/"
  <2>1. n # 0  BY <1>4, <1>1 DEF KeyTextSet
  <2>2. CASE n \in segments(p)
    <3>1. token_end(p, n) \in n..n  BY <2>2, Segments
    <3>2. QED  BY <1>1, <2>2, <3>1
  <2>3. CASE n \notin segments(p)
    <3>1. n # 1 /\ p[n - 1] = "/" /\ n - 1 \in 1..n /\ n \in 1..n
      BY <1>1, <1>4, <2>1, <2>3 DEF segments
    <3>2. n - 1 \in segments(p)
      <4>1. SUFFICES ASSUME n - 1 # 1, p[(n - 1) - 1] = "/"  PROVE FALSE
        BY <1>1, <3>1 DEF segments
      <4>2. n - 2 \in 1..(n - 2) /\ (n - 1) - 1 = n - 2 /\ (n - 2) + 1 = n - 1 /\ (n - 2) + 2 = n
        BY <1>1, <2>1, <3>1, <4>1
      <4>3. QED  BY <1>4, <3>1, <4>1, <4>2 DEF Path
    <3>3. token_end(p, n - 1) \in (n - 1)..n  BY <3>2, Segments
    <3> DEFINE e == token_end(p, n - 1)
    <3>4. n \in Nat /\ e \in (n - 1)..n  BY <1>1, <3>3
    <3>5. \A l \in ((n - 1) + 1)..e : l = n
      <4> HIDE DEF n, e
      <4>1. QED  BY <3>4
    <3>6. QED  BY <1>4, <3>2, <3>5
  <2>4. QED  BY <2>2, <2>3
<1>5. ASSUME p # <<>>, p[n] # "/", NEW i \in segments(p)
      PROVE  \E l \in (i + 1)..token_end(p, i) : p[l] # "/"
  <2> DEFINE e == token_end(p, i)
  <2>1. /\ i \in 1..n /\ p[i] = "/" /\ e \in i..n
        /\ e = n \/ e + 1 \in segments(p)
    BY Segments
  <2> HIDE DEF e
  <2>2. n \in Nat /\ i \in 1..n /\ e \in i..n  BY <1>1, <2>1
  <2>3. CASE e = n
    <3>1. i # n  BY <1>5, <2>1
    <3>2. n \in (i + 1)..e
      <4> HIDE DEF n
      <4>1. QED  BY <2>2, <2>3, <3>1
    <3>3. QED  BY <1>5, <3>2 DEF e
  <2>4. CASE e + 1 \in segments(p)
    <3>1. e + 1 # 1 /\ (e + 1) - 1 = e
      <4> HIDE DEF n
      <4>1. QED  BY <2>2
    <3>2. p[e] # "/"  BY <2>4, <3>1, Segments
    <3>3. e # i  BY <2>1, <3>2
    <3>4. e \in (i + 1)..e
      <4> HIDE DEF n
      <4>1. QED  BY <2>2, <3>3
    <3>5. QED  BY <3>2, <3>4 DEF e
  <2>5. QED  BY <2>1, <2>3, <2>4
<1> HIDE DEF empty
<1>6. p = <<>> => segments(p) = {}
  <2>1. DOMAIN <<>> = {}  OBVIOUS
  <2>2. QED  BY <2>1 DEF segments
<1>7. QED  BY <1>2, <1>3, <1>4, <1>5, <1>6

\* Every token of a good path names something, and has at most its first slash.
LEMMA TokensAreGood ==
  ASSUME NEW p, Path(p), parse_junctions(p).ok, NEW i \in segments(p)
  PROVE  token(p, i) \notin {<<>>, <<"/">>} /\ "/" \notin ToSet(Tail(token(p, i)))
<1> DEFINE t == token(p, i)
           e == token_end(p, i)
<1>1. \E j \in DOMAIN t : t[j] # "/"  BY DEF parse_junctions
<1>2. i \in Nat /\ e \in Nat /\ t \in KeyTextSet /\ Len(t) = e - i
      /\ \A k \in 1..(e - i) : t[k] = p[i + k]
  <2>1. p \in KeyTextSet /\ Len(p) \in Nat  BY TextLength DEF Path
  <2>2. i \in 1..Len(p) /\ e \in i..Len(p)  BY Segments
  <2>3. QED  BY <2>1, <2>2, Segments
<1>3. \A j \in (i + 1)..e : p[j] = "/" => j = i + 1  BY Between
<1> HIDE DEF t, e
<1>4. t # <<>> /\ t # <<"/">>
  <2>1. DOMAIN <<>> = {} /\ DOMAIN <<"/">> = {1} /\ <<"/">>[1] = "/"  OBVIOUS
  <2>2. QED  BY <1>1, <2>1
<1>5. \A k \in 2..(e - i) : t[k] # "/"
  <2> TAKE k \in 2..(e - i)
  <2>1. k \in 1..(e - i) /\ i + k \in (i + 1)..e /\ i + k # i + 1  BY <1>2
  <2>2. QED  BY <1>2, <1>3, <2>1
<1>6. Len(Tail(t)) = (e - i) - 1 /\ DOMAIN Tail(t) = 1..((e - i) - 1)
      /\ \A k \in 1..((e - i) - 1) : Tail(t)[k] = t[k + 1]
  BY <1>2, <1>4 DEF KeyTextSet
<1>7. \A k \in DOMAIN Tail(t) : Tail(t)[k] # "/"
  <2> TAKE k \in DOMAIN Tail(t)
  <2>1. k \in 1..((e - i) - 1) /\ k + 1 \in 2..(e - i)  BY <1>2, <1>6
  <2>2. QED  BY <1>5, <1>6, <2>1
<1>8. "/" \notin ToSet(Tail(t))  BY <1>7 DEF ToSet
<1>9. QED  BY <1>4, <1>8 DEF t

-----------------------------------------------------------------------------
(***************************************************************************)
(* Key texts: the path, put together again.                                *)
(***************************************************************************)
Cat(q, f, i) == IF i = 1 THEN q[i] ELSE f[i - 1] \o q[i]
Flat(q, f)   == f = [i \in 1..Len(q) |-> Cat(q, f, i)]
flat(q)      == CHOOSE f : Flat(q, f)

\* FlattenSeq is what any function that joins one sequence after another ends with.
LEMMA Flattened ==
  ASSUME NEW q, Len(q) \in Nat \ {0}, NEW f, DOMAIN f = 1..Len(q),
         f = [i \in 1..Len(q) |-> f[i]],
         f[1] = q[1], \A i \in 2..Len(q) : f[i] = f[i - 1] \o q[i]
  PROVE  FlattenSeq(q) = f[Len(q)]
<1> DEFINE n == Len(q)
           g == flat(q)
           S == {i \in 0..(n - 1) : g[i + 1] = f[i + 1]}
<1>1. Cat(q, f, 1) = q[1] /\ \A i \in 2..n : Cat(q, f, i) = f[i - 1] \o q[i]
  <2>1. \A i \in 2..n : i # 1  OBVIOUS
  <2>2. QED  BY <2>1, Zenon DEF Cat
<1>2. \A i \in 1..n : f[i] = Cat(q, f, i)
  <2>1. \A i \in 1..n : i = 1 \/ i \in 2..n  OBVIOUS
  <2>2. QED  BY <1>1, <2>1
<1>3. Flat(q, f)  BY <1>2, Zenon DEF Flat
<1>4. Flat(q, g)  BY <1>3 DEF flat
<1>5. \A i \in 1..n : g[i] = Cat(q, g, i)  BY <1>4 DEF Flat
<1>6. Cat(q, g, 1) = q[1] /\ \A i \in 2..n : Cat(q, g, i) = g[i - 1] \o q[i]
  <2>1. \A i \in 2..n : i # 1  OBVIOUS
  <2>2. QED  BY <2>1, Zenon DEF Cat
<1>7. FlattenSeq(q) = g[n]
  BY Zenon DEF FlattenSeq, flat, Flat, Cat
<1> HIDE DEF g
<1>8. 0 \in S  BY <1>5, <1>6
<1>9. ASSUME NEW i \in 0..((n - 1) - 1), i \in S  PROVE i + 1 \in S
  <2>1. i + 2 \in 2..n /\ i + 2 \in 1..n /\ (i + 2) - 1 = i + 1 /\ (i + 1) + 1 = i + 2  OBVIOUS
  <2>2. g[i + 1] = f[i + 1]  BY <1>9
  <2>3. g[i + 2] = g[i + 1] \o q[i + 2]  BY <1>5, <1>6, <2>1
  <2>4. f[i + 2] = f[i + 1] \o q[i + 2]  BY <2>1
  <2>5. g[i + 2] = f[i + 2]  BY <2>2, <2>3, <2>4
  <2>6. QED  BY <2>1, <2>5
<1> HIDE DEF S
<1>10. 0..(n - 1) \subseteq S
  <2>1. n - 1 \in Nat  OBVIOUS
  <2>2. \A i \in 0..((n - 1) - 1) : i \in S => i + 1 \in S  BY <1>9
  <2> HIDE DEF n
  <2>3. QED  BY <1>8, <2>1, <2>2, UpTo
<1>11. g[n] = f[n]
  <2>1. n - 1 \in 0..(n - 1) /\ (n - 1) + 1 = n  OBVIOUS
  <2>2. QED  BY <1>10, <2>1 DEF S
<1>12. QED  BY <1>7, <1>11

\* The segments in order: each ends just before the next starts.
InOrder(p, m, order) ==
  /\ m \in Nat /\ order \in [1..m -> segments(p)]
  /\ m = 0 => p = <<>>
  /\ m # 0 => order[1] = 1 /\ token_end(p, order[m]) = Len(p)
  /\ \A k \in 2..m : token_end(p, order[k - 1]) + 1 = order[k]

LEMMA SegmentsInOrder ==
  ASSUME NEW p, Path(p)
  PROVE  InOrder(p, Cardinality(segments(p)), in_order(segments(p)))
<1> DEFINE S == segments(p)
           m == Cardinality(S)
           order == in_order(S)
<1>1. p \in KeyTextSet /\ Len(p) \in Nat /\ DOMAIN p = 1..Len(p) /\ S \in SUBSET (1..Len(p))
  BY TextLength DEF Path, segments
<1>2. S \in SUBSET Nat /\ IsFiniteSet(S) /\ m \in Nat
  <2>1. IsFiniteSet(1..Len(p)) /\ 1..Len(p) \subseteq Nat  BY <1>1, FS_Interval
  <2> HIDE DEF S
  <2>2. IsFiniteSet(S)  BY <1>1, <2>1, FS_Subset
  <2>3. QED  BY <1>1, <2>1, <2>2, FS_CardinalityType
<1>3. order \in [1..m -> S] /\ \A i, j \in DOMAIN order : i < j => order[i] < order[j]
  BY <1>2, Ascending DEF in_order
<1> HIDE DEF S, order, m
<1>4. \A k \in 1..m : order[k] \in S /\ order[k] \in Nat /\ order[k] \in 1..Len(p)
  BY <1>1, <1>2, <1>3
<1>5. order \in Injection(1..m, S)
  <2>1. \A i, j \in 1..m : order[i] = order[j] => i = j
    <3>1. SUFFICES ASSUME NEW i \in 1..m, NEW j \in 1..m, order[i] = order[j], i # j
                   PROVE  FALSE
      OBVIOUS
    <3>2. i < j \/ j < i  BY <1>2, <3>1
    <3>3. order[i] \in Nat  BY <1>4
    <3>4. ~(order[i] < order[i])  BY <3>3
    <3>5. QED  BY <1>3, <3>1, <3>2, <3>4
  <2>2. QED  BY <1>3, <2>1 DEF Injection, IsInjective
<1>6. \A x \in S : \E k \in 1..m : order[k] = x
  <2>1. IsFiniteSet(1..m) /\ Cardinality(1..m) = m  BY <1>2, FS_Interval
  <2>2. order \in Surjection(1..m, S)  BY <1>2, <1>5, <2>1, FS_Injection DEF m
  <2>3. QED  BY <2>2 DEF Surjection
<1>7. m = 0 => p = <<>>
  <2>1. SUFFICES ASSUME p # <<>>  PROVE m # 0
    OBVIOUS
  <2>2. 1 \in S  BY <1>1, <2>1 DEF Path, S, segments, KeyTextSet
  <2>3. QED  BY <1>2, <1>6, <2>2
<1>8. ASSUME m # 0  PROVE order[1] = 1
  <2>1. 1 \in 1..m /\ p # <<>>
    <3>1. 1 \in 1..m  BY <1>2, <1>8
    <3>2. order[1] \in 1..Len(p)  BY <1>4, <3>1
    <3>3. Len(p) # 0  BY <1>1, <3>2
    <3>4. QED  BY <3>1, <3>3
  <2>2. 1 \in S  BY <1>1, <2>1 DEF Path, S, segments, KeyTextSet
  <2>3. PICK k \in 1..m : order[k] = 1  BY <1>6, <2>2
  <2>4. k = 1 \/ order[1] < order[k]  BY <1>2, <1>3, <2>1, <2>3
  <2>5. order[1] \in 1..Len(p)  BY <1>1, <1>3, <2>1
  <2>6. QED  BY <1>1, <2>3, <2>4, <2>5
<1>9. \A x \in S : /\ x \in 1..Len(p) /\ token_end(p, x) \in x..Len(p)
                   /\ token_end(p, x) = Len(p) \/ token_end(p, x) + 1 \in S
                   /\ \A y \in S : y > x => token_end(p, x) < y
  BY Segments DEF S
<1>10. ASSUME m # 0  PROVE token_end(p, order[m]) = Len(p)
  <2> DEFINE x == order[m]
             e == token_end(p, x)
  <2>1. m \in 1..m /\ x \in S /\ x \in Nat
    <3>1. m \in 1..m  BY <1>2, <1>10
    <3>2. QED  BY <1>4, <3>1
  <2>2. SUFFICES ASSUME e + 1 \in S  PROVE FALSE
    BY <1>9, <2>1
  <2>3. PICK k \in 1..m : order[k] = e + 1  BY <1>6, <2>2
  <2>4. k = m \/ order[k] < x  BY <1>2, <1>3, <2>3
  <2>5. e \in x..Len(p)  BY <1>9, <2>1
  <2> HIDE DEF x, e
  <2>6. e + 1 > x  BY <1>1, <2>1, <2>5
  <2>7. e + 1 = x \/ e + 1 < x  BY <2>3, <2>4 DEF x
  <2>8. QED  BY <1>1, <2>1, <2>5, <2>6, <2>7
<1>11. ASSUME NEW k \in 2..m  PROVE token_end(p, order[k - 1]) + 1 = order[k]
  <2> DEFINE x == order[k - 1]
             y == order[k]
             e == token_end(p, x)
  <2>1. k \in 1..m /\ k - 1 \in 1..m /\ k - 1 < k  BY <1>2
  <2>2. x \in S /\ y \in S /\ x < y /\ x \in Nat /\ y \in Nat /\ y \in 1..Len(p)
    BY <1>3, <1>4, <2>1
  <2>3. e \in x..Len(p) /\ e < y /\ (e = Len(p) \/ e + 1 \in S)  BY <1>1, <1>9, <2>2
  <2>4. e \in Nat
    <3>1. x \in Nat /\ e \in x..Len(p)  BY <2>2, <2>3
    <3> HIDE DEF x, y, e
    <3>2. QED  BY <1>1, <3>1
  <2>5. e + 1 \in S  BY <1>1, <2>2, <2>3
  <2>6. PICK l \in 1..m : order[l] = e + 1  BY <1>6, <2>5
  <2>7. \A i, j \in 1..m : i < j => order[i] < order[j]  BY <1>3
  <2>8. l > k - 1
    <3>1. SUFFICES ASSUME l <= k - 1  PROVE FALSE
      BY <1>2, <2>1
    <3>2. l = k - 1 \/ l < k - 1  BY <1>2, <2>1, <3>1
    <3>3. e + 1 = x \/ e + 1 < x  BY <2>1, <2>6, <2>7, <3>2
    <3> HIDE DEF x, e
    <3>4. QED  BY <2>2, <2>3, <2>4, <3>3
  <2>9. l = k \/ k < l  BY <1>2, <2>1, <2>8
  <2>10. y = e + 1 \/ y < e + 1  BY <2>1, <2>6, <2>7, <2>9
  <2> HIDE DEF x, y, e
  <2>11. e + 1 = y  BY <2>2, <2>3, <2>4, <2>10
  <2>12. QED  BY <2>11 DEF x, y, e
<1>12. QED  BY <1>2, <1>3, <1>7, <1>8, <1>10, <1>11 DEF S, m, order, InOrder

\* The part of a text after its first a symbols, up to the b-th.
LEMMA PartAfter ==
  ASSUME NEW s \in KeyTextSet, NEW a \in 0..Len(s), NEW b \in a..Len(s)
  PROVE  /\ SubSeq(s, a + 1, b) \in KeyTextSet
         /\ Len(SubSeq(s, a + 1, b)) = b - a
         /\ \A i \in 1..(b - a) : SubSeq(s, a + 1, b)[i] = s[a + i]
  BY DEF KeyTextSet

LEMMA FirstPart ==
  ASSUME NEW s \in KeyTextSet, NEW b \in 0..Len(s)
  PROVE  /\ SubSeq(s, 1, b) \in KeyTextSet
         /\ Len(SubSeq(s, 1, b)) = b
         /\ \A i \in 1..b : SubSeq(s, 1, b)[i] = s[i]
  BY DEF KeyTextSet

LEMMA AdjacentParts ==
  ASSUME NEW s \in KeyTextSet, NEW a \in 0..Len(s), NEW b \in a..Len(s)
  PROVE  SubSeq(s, 1, a) \o SubSeq(s, a + 1, b) = SubSeq(s, 1, b)
<1> DEFINE x == SubSeq(s, 1, a)
           y == SubSeq(s, a + 1, b)
           z == SubSeq(s, 1, b)
<1>1. Len(s) \in Nat /\ a \in Nat /\ b \in Nat /\ a <= b /\ b \in 0..Len(s)  BY TextLength
<1>2. x \in KeyTextSet /\ Len(x) = a /\ \A i \in 1..a : x[i] = s[i]  BY FirstPart
<1>3. y \in KeyTextSet /\ Len(y) = b - a /\ \A i \in 1..(b - a) : y[i] = s[a + i]
  BY PartAfter
<1>4. z \in KeyTextSet /\ Len(z) = b /\ \A i \in 1..b : z[i] = s[i]  BY <1>1, FirstPart
<1> HIDE DEF x, y, z
<1>5. /\ x \o y \in KeyTextSet /\ Len(x \o y) = Len(x) + Len(y)
      /\ \A i \in 1..Len(x) : (x \o y)[i] = x[i]
      /\ \A i \in 1..Len(y) : (x \o y)[Len(x) + i] = y[i]
  BY <1>2, <1>3, JoinedTexts
<1>6. ASSUME NEW i \in 1..b  PROVE (x \o y)[i] = z[i]
  <2>1. CASE i \in 1..a  BY <1>2, <1>4, <1>5, <2>1
  <2>2. CASE i \notin 1..a
    <3>1. i - a \in 1..(b - a) /\ a + (i - a) = i  BY <1>1, <2>2
    <3>2. (x \o y)[a + (i - a)] = y[i - a]  BY <1>2, <1>3, <1>5, <3>1
    <3>3. QED  BY <1>3, <1>4, <3>1, <3>2
  <2>3. QED  BY <2>1, <2>2
<1>7. Len(x \o y) = b
  <2>1. Len(x \o y) = a + (b - a)  BY <1>2, <1>3, <1>5
  <2>2. QED  BY <1>1, <2>1
<1>8. x \o y = z  BY <1>4, <1>5, <1>6, <1>7, SameText
<1>9. QED  BY <1>8 DEF x, y, z

LEMMA WholeText == ASSUME NEW s \in KeyTextSet  PROVE SubSeq(s, 1, Len(s)) = s
  BY DEF KeyTextSet

\* The slashes and tokens of a path are the path.
LEMMA PathSpelled ==
  ASSUME NEW p, Path(p), NEW js, js = parse_junctions(p).junctions
  PROVE  FlattenSeq([k \in DOMAIN js |-> <<"/">> \o js[k]]) = p
<1> DEFINE m == Cardinality(segments(p))
           order == in_order(segments(p))
           q == [k \in DOMAIN js |-> <<"/">> \o js[k]]
           end(k) == token_end(p, order[k])
           f == [k \in 1..m |-> SubSeq(p, 1, end(k))]
<1>1. InOrder(p, m, order)  BY SegmentsInOrder
<1>2. js = [k \in 1..m |-> token(p, order[k])]
  BY <1>1 DEF parse_junctions, InOrder
<1> HIDE DEF m, order
<1>3. p \in KeyTextSet /\ Len(p) \in Nat  BY TextLength DEF Path
<1>4. ASSUME NEW k \in 1..m
      PROVE  /\ order[k] \in 1..Len(p) /\ end(k) \in order[k]..Len(p)
             /\ q[k] = SubSeq(p, order[k], end(k))
  <2> DEFINE i == order[k]
             e == end(k)
             t == token(p, i)
             piece == SubSeq(p, i, e)
  <2>1. i \in segments(p)  BY <1>1 DEF InOrder
  <2>2. i \in 1..Len(p) /\ p[i] = "/" /\ e \in i..Len(p)
        /\ t \in KeyTextSet /\ Len(t) = e - i /\ \A l \in 1..(e - i) : t[l] = p[i + l]
    BY <2>1, Segments
  <2>3. q[k] = <<"/">> \o t  BY <1>2
  <2>4. <<"/">> \in KeyTextSet /\ Len(<<"/">>) = 1 /\ <<"/">>[1] = "/"
    BY DEF KeyTextSet, Symbol
  <2> HIDE DEF q
  <2>5. /\ q[k] \in KeyTextSet /\ Len(q[k]) = 1 + (e - i) /\ q[k][1] = "/"
        /\ \A l \in 1..(e - i) : q[k][1 + l] = t[l]
    <3> HIDE DEF i, e, t
    <3> DEFINE o == <<"/">>
    <3>1. o \in KeyTextSet /\ Len(o) = 1 /\ o[1] = "/" /\ 1 \in 1..1  BY <2>4
    <3> HIDE DEF o
    <3>2. /\ o \o t \in KeyTextSet /\ Len(o \o t) = Len(o) + Len(t)
          /\ \A l \in 1..Len(o) : (o \o t)[l] = o[l]
          /\ \A l \in 1..Len(t) : (o \o t)[Len(o) + l] = t[l]
      BY <2>2, <3>1, JoinedTexts
    <3>3. q[k] = o \o t  BY <2>3 DEF o
    <3>4. Len(t) = e - i  BY <2>2
    <3>5. QED  BY <3>1, <3>2, <3>3, <3>4
  <2>6. i \in Nat /\ e \in Nat /\ i <= e
    <3> HIDE DEF i, e
    <3>1. QED  BY <1>3, <2>2
  <2>7. /\ piece \in KeyTextSet /\ Len(piece) = e - i + 1
        /\ \A l \in 1..(e - i + 1) : piece[l] = p[i + l - 1]
    <3>1. i \in 1..(Len(p) + 1) /\ e \in (i - 1)..Len(p)
      <4> HIDE DEF i, e
      <4>1. QED  BY <1>3, <2>2
    <3>2. QED  BY <1>3, <3>1, PartOfText
  <2> HIDE DEF i, e, t, piece
  <2>8. ASSUME NEW l \in 1..(e - i + 1)  PROVE q[k][l] = piece[l]
    <3>1. CASE l = 1
      <4>1. piece[1] = p[i]  BY <2>6, <2>7, <3>1
      <4>2. QED  BY <2>2, <2>5, <3>1, <4>1
    <3>2. CASE l # 1
      <4>1. l - 1 \in 1..(e - i) /\ 1 + (l - 1) = l /\ i + l - 1 = i + (l - 1)  BY <2>6, <3>2
      <4>2. QED  BY <2>2, <2>5, <2>7, <4>1
    <3>3. QED  BY <3>1, <3>2
  <2>9. 1 + (e - i) = e - i + 1  BY <2>6
  <2>10. q[k] = piece  BY <2>5, <2>7, <2>8, <2>9, SameText
  <2>11. QED  BY <2>2, <2>10 DEF i, e, piece
<1>5. DOMAIN q = 1..m  BY <1>2
<1>6. CASE m = 0
  <2>1. p = <<>>  BY <1>1, <1>6 DEF InOrder
  <2>2. q = <<>>  BY <1>5, <1>6
  <2>3. FlattenSeq(<<>>) = <<>>  BY DEF FlattenSeq
  <2>4. QED  BY <2>1, <2>2, <2>3
<1>7. CASE m # 0
  <2>1. m \in Nat \ {0} /\ order[1] = 1 /\ end(m) = Len(p)
        /\ \A k \in 2..m : end(k - 1) + 1 = order[k]
    BY <1>1, <1>7 DEF InOrder
  <2>2. Len(q) = m
    <3>1. q = [k \in 1..m |-> q[k]]  BY <1>5
    <3> HIDE DEF q
    <3>2. QED  BY <2>1, <3>1
  <2> HIDE DEF q, end
  <2>3. \A k \in 1..m : f[k] = SubSeq(p, 1, end(k))  OBVIOUS
  <2>4. f[1] = q[1]
    <3>1. 1 \in 1..m  BY <2>1
    <3>2. f[1] = SubSeq(p, 1, end(1))  BY <2>3, <3>1
    <3>3. q[1] = SubSeq(p, order[1], end(1))  BY <1>4, <3>1
    <3> HIDE DEF f
    <3>4. QED  BY <2>1, <3>2, <3>3
  <2>5. ASSUME NEW k \in 2..m  PROVE f[k] = f[k - 1] \o q[k]
    <3>1. k \in 1..m /\ k - 1 \in 1..m  BY <2>1
    <3> DEFINE a == end(k - 1)
               b == end(k)
    <3>2. order[k] = a + 1 /\ q[k] = SubSeq(p, order[k], b) /\ b \in order[k]..Len(p)
          /\ order[k - 1] \in 1..Len(p) /\ a \in order[k - 1]..Len(p)
      BY <1>4, <2>1, <3>1
    <3> HIDE DEF a, b
    <3>3. a \in 0..Len(p) /\ b \in a..Len(p)
      <4> DEFINE before == order[k - 1]
      <4>1. before \in 1..Len(p) /\ a \in before..Len(p) /\ b \in (a + 1)..Len(p)  BY <3>2
      <4> HIDE DEF before
      <4>2. QED  BY <1>3, <4>1
    <3>4. SubSeq(p, 1, a) \o SubSeq(p, a + 1, b) = SubSeq(p, 1, b)
      BY <1>3, <3>3, AdjacentParts
    <3>5. QED  BY <2>3, <3>1, <3>2, <3>4 DEF a, b
  <2>6. f = [k \in 1..Len(q) |-> f[k]] /\ DOMAIN f = 1..Len(q)  BY <2>2
  <2> HIDE DEF f
  <2>7. FlattenSeq(q) = f[m]  BY <2>1, <2>2, <2>4, <2>5, <2>6, Flattened
  <2>8. f[m] = p
    <3>1. m \in 1..m  BY <2>1
    <3>2. f[m] = SubSeq(p, 1, end(m))  BY <2>3, <3>1
    <3>3. end(m) = Len(p)  BY <2>1
    <3>4. QED  BY <1>3, <3>2, <3>3, WholeText
  <2>9. QED  BY <2>7, <2>8 DEF q
<1>8. QED  BY <1>6, <1>7
-----------------------------------------------------------------------------
(***************************************************************************)
(* Key texts: the parts of a body.                                         *)
(***************************************************************************)
\* The greatest of some positions is one of them.
LEMMA MaxIsMember ==
  ASSUME NEW n \in Nat, NEW S \in SUBSET (1..n), S # {}
  PROVE  Max(S) \in S
<1> DEFINE T == {n - x : x \in S}
<1>1. T \in SUBSET Nat /\ T # {}
  <2>1. \A x \in S : n - x \in Nat  OBVIOUS
  <2>2. PICK x \in S : TRUE  OBVIOUS
  <2>3. n - x \in T  OBVIOUS
  <2>4. T \subseteq Nat  BY <2>1
  <2>5. QED  BY <2>3, <2>4
<1> HIDE DEF T
<1>2. Min(T) \in T  BY <1>1, MinIsMember
<1>3. \A y \in T : Min(T) <= y
  <2>1. PICK x \in T : \A y \in T : ~(<<y, x>> \in OpToRel(<, Nat))
    BY <1>1, NatLessThanWellFounded, WFMin
  <2>2. \A y \in T : y < x => <<y, x>> \in OpToRel(<, Nat)  BY <1>1 DEF OpToRel
  <2>3. \A y \in T : ~(y < x)  BY <2>1, <2>2, Zenon
  <2>4. \A y \in T : x <= y  BY <1>1, <2>3
  <2>5. QED  BY <2>4 DEF Min
<1>4. PICK m \in S : Min(T) = n - m  BY <1>2 DEF T
<1>5. \A x \in S : m >= x
  <2> TAKE x \in S
  <2>1. n - m <= n - x  BY <1>3, <1>4 DEF T
  <2>2. m \in 1..n /\ x \in 1..n  OBVIOUS
  <2>3. QED  BY <2>1, <2>2
<1>6. QED  BY <1>5 DEF Max

\* Trimming leaves nothing of spaces and newlines only.
LEMMA Trimmed ==
  ASSUME NEW s \in KeyTextSet
  PROVE  /\ trim(s) \in KeyTextSet
         /\ trim(s) = <<>> => \A i \in 1..Len(s) : s[i] \in {" ", "\n"}
<1> DEFINE solid == {i \in DOMAIN s : s[i] \notin {" ", "\n"}}
           a == Min(solid)
           b == Max(solid)
<1>1. Len(s) \in Nat /\ DOMAIN s = 1..Len(s)  BY TextLength
<1>2. solid \subseteq 1..Len(s) /\ solid \subseteq Nat
  <2>1. solid \subseteq DOMAIN s  BY Zenon
  <2> HIDE DEF solid
  <2>2. solid \subseteq 1..Len(s)  BY <1>1, <2>1
  <2>3. QED  BY <1>1, <2>2
<1>3. CASE solid = {}
  <2>1. trim(s) = <<>>  BY <1>3, Zenon DEF trim
  <2>2. <<>> \in KeyTextSet  BY DEF KeyTextSet
  <2>3. QED  BY <1>1, <1>3, <2>1, <2>2
<1>4. CASE solid # {}
  <2>1. trim(s) = SubSeq(s, a, b)  BY <1>4, Zenon DEF trim
  <2>2. a \in solid /\ b \in solid /\ a <= b
    <3>1. a \in solid /\ b \in solid  BY <1>1, <1>2, <1>4, MinIsMember, MaxIsMember
    <3>2. \A i \in solid : find(s, solid) <= i  BY <1>2, Found
    <3>3. find(s, solid) = a  BY <1>4 DEF find
    <3>4. QED  BY <3>1, <3>2, <3>3
  <2>3. a \in 1..Len(s) /\ b \in 1..Len(s)  BY <1>2, <2>2
  <2> HIDE DEF a, b, solid
  <2>4. a \in 1..(Len(s) + 1) /\ b \in (a - 1)..Len(s) /\ b - a + 1 # 0  BY <1>1, <2>2, <2>3
  <2>5. trim(s) \in KeyTextSet /\ Len(trim(s)) = b - a + 1  BY <2>1, <2>4, PartOfText
  <2>6. trim(s) # <<>>  BY <2>4, <2>5
  <2>7. QED  BY <2>5, <2>6
<1>5. QED  BY <1>3, <1>4

\* A refused scheme leaves no body.
LEMMA BodyOfKey ==
  ASSUME NEW s \in KeyTextSet
  PROVE  /\ split_scheme(s).body \in KeyTextSet
         /\ split_scheme(s).error # "none" \/ s = <<>> => split_scheme(s).body = <<>>
<1> DEFINE colons == {i \in DOMAIN s : s[i] = ":"}
           colon == find(s, colons)
           scheme == upto(s, colon - 1)
<1>1. Len(s) \in Nat /\ DOMAIN s = 1..Len(s)  BY TextLength
<1>2. colons \in SUBSET (1..Len(s))  BY <1>1
<1>3. colon \in 1..(Len(s) + 1)  BY <1>2, Found
<1>4. <<>> \in KeyTextSet /\ Len(<<>>) = 0  BY DEF KeyTextSet
<1> HIDE DEF colons, colon, scheme
<1>5. CASE colon > Len(s) \/ ~is_scheme_token(scheme)
  <2>1. split_scheme(s) = [error |-> "none", body |-> s]
    BY <1>5 DEF split_scheme, colons, colon, scheme
  <2>2. QED  BY <2>1
<1>6. CASE ~(colon > Len(s)) /\ is_scheme_token(scheme)
  <2>1. colon \in 1..Len(s) /\ s # <<>>  BY <1>1, <1>3, <1>4, <1>6
  <2>2. CASE scheme = <<"s">>
    <3>1. split_scheme(s) = [error |-> "none", body |-> from(s, colon + 1)]
      BY <1>6, <2>2 DEF split_scheme, colons, colon, scheme
    <3>2. colon \in 0..Len(s) /\ Len(s) \in colon..Len(s)  BY <1>1, <2>1
    <3>3. from(s, colon + 1) \in KeyTextSet  BY <3>2, PartAfter DEF from
    <3>4. QED  BY <2>1, <3>1, <3>3
  <2>3. CASE scheme # <<"s">>
    <3>1. split_scheme(s).body = <<>>
      BY <1>6, <2>3 DEF split_scheme, colons, colon, scheme
    <3>2. QED  BY <1>4, <3>1
  <2>4. QED  BY <2>2, <2>3
<1>7. QED  BY <1>5, <1>6

\* The password's separator, and where it first stands; the first slash before it.
Sep(s, i) == s[i] = "/" /\ s[i + 1] = "/" /\ s[i + 2] = "/"
cut(s)    == find(s, {i \in 1..(Len(s) - 2) : SubSeq(s, i, i + 2) = PASSWORD_SEPARATOR})
slash(s)  == find(upto(s, cut(s) - 1), {i \in DOMAIN upto(s, cut(s) - 1) :
                                          upto(s, cut(s) - 1)[i] = "/"})

LEMMA SeparatorAt ==
  ASSUME NEW s \in KeyTextSet, NEW i \in 1..(Len(s) - 2)
  PROVE  SubSeq(s, i, i + 2) = PASSWORD_SEPARATOR <=> Sep(s, i)
<1> DEFINE t == SubSeq(s, i, i + 2)
           u == PASSWORD_SEPARATOR
<1>1. Len(s) \in Nat  BY TextLength
<1>2. t \in KeyTextSet /\ Len(t) = 3 /\ t[1] = s[i] /\ t[2] = s[i + 1] /\ t[3] = s[i + 2]
  BY <1>1 DEF KeyTextSet
<1>3. u \in KeyTextSet /\ Len(u) = 3 /\ u[1] = "/" /\ u[2] = "/" /\ u[3] = "/"
  <2>1. "/" \in Symbol  BY DEF Symbol
  <2>2. QED  BY <2>1 DEF PASSWORD_SEPARATOR, KeyTextSet
<1> HIDE DEF t, u
<1>4. ASSUME Sep(s, i)  PROVE t = u
  <2>1. \A k \in 1..Len(t) : t[k] = u[k]
    <3> TAKE k \in 1..Len(t)
    <3>1. k = 1 \/ k = 2 \/ k = 3  BY <1>2
    <3>2. QED  BY <1>2, <1>3, <1>4, <3>1 DEF Sep
  <2>2. QED  BY <1>2, <1>3, <2>1, SameText
<1>5. ASSUME t = u  PROVE Sep(s, i)  BY <1>2, <1>3, <1>5 DEF Sep
<1>6. QED  BY <1>4, <1>5 DEF t, u

LEMMA Cuts ==
  ASSUME NEW s \in KeyTextSet
  PROVE  /\ cut(s) \in 1..(Len(s) + 1)
         /\ cut(s) = Len(s) + 1 \/ (cut(s) \in 1..(Len(s) - 2) /\ Sep(s, cut(s)))
         /\ \A i \in 1..(Len(s) - 2) : Sep(s, i) => cut(s) <= i
<1> DEFINE seps == {i \in 1..(Len(s) - 2) : SubSeq(s, i, i + 2) = PASSWORD_SEPARATOR}
<1>1. Len(s) \in Nat  BY TextLength
<1>2. \A i \in 1..(Len(s) - 2) : i \in seps <=> Sep(s, i)  BY SeparatorAt
<1>3. seps \subseteq 1..(Len(s) - 2)  BY Zenon
<1>4. cut(s) = find(s, seps)  BY Zenon DEF cut
<1> HIDE DEF seps
<1>5. seps \in SUBSET (1..Len(s))  BY <1>1, <1>3
<1>6. /\ find(s, seps) \in 1..(Len(s) + 1)
      /\ find(s, seps) \in seps \/ (find(s, seps) = Len(s) + 1 /\ seps = {})
      /\ \A i \in seps : find(s, seps) <= i
  BY <1>5, Found
<1>7. QED  BY <1>2, <1>3, <1>4, <1>6

LEMMA Slashes ==
  ASSUME NEW s \in KeyTextSet
  PROVE  /\ slash(s) \in 1..cut(s)
         /\ slash(s) # cut(s) => s[slash(s)] = "/"
         /\ \A i \in 1..(slash(s) - 1) : s[i] # "/"
<1> DEFINE a == cut(s)
           head == upto(s, a - 1)
           S == {i \in DOMAIN head : head[i] = "/"}
           h == find(head, S)
<1>1. Len(s) \in Nat /\ a \in 1..(Len(s) + 1)  BY TextLength, Cuts
<1> HIDE DEF a
<1>2. a - 1 \in 0..Len(s)  BY <1>1
<1>3. head \in KeyTextSet /\ Len(head) = a - 1 /\ \A i \in 1..(a - 1) : head[i] = s[i]
  BY <1>2, FirstPart DEF upto
<1>4. DOMAIN head = 1..(a - 1)  BY <1>3, TextLength
<1>5. slash(s) = h  BY Zenon DEF slash, a
<1> HIDE DEF head
<1>6. S \in SUBSET (1..Len(head))
  <2>1. S \subseteq DOMAIN head  BY Zenon
  <2>2. QED  BY <1>3, <1>4, <2>1
<1>7. \A i \in 1..(a - 1) : i \in S <=> s[i] = "/"  BY <1>3, <1>4
<1> HIDE DEF S
<1>8. /\ h \in 1..(Len(head) + 1) /\ (h \in S \/ (h = Len(head) + 1 /\ S = {}))
      /\ \A i \in S : h <= i
  BY <1>3, <1>6, Found
<1> HIDE DEF h
<1>9. Len(head) + 1 = a  BY <1>1, <1>3
<1>10. h \in 1..a /\ (h # a => s[h] = "/")
  <2>1. h # a => h \in 1..(a - 1)  BY <1>1, <1>8, <1>9
  <2>2. QED  BY <1>7, <1>8, <1>9, <2>1
<1>11. \A i \in 1..(h - 1) : s[i] # "/"
  <2> TAKE i \in 1..(h - 1)
  <2>1. i \in 1..(a - 1) /\ ~(h <= i)  BY <1>1, <1>10
  <2>2. QED  BY <1>7, <1>8, <2>1
<1>12. QED  BY <1>5, <1>10, <1>11 DEF a

\* The phrase and the path of a body, and the indices that lead to them.
PhraseOf(s) == SubSeq(s, 1, slash(s) - 1)
PathOf(s)   == SubSeq(s, slash(s), cut(s) - 1)

LEMMA PartsOfABody ==
  ASSUME NEW s \in KeyTextSet
  PROVE  /\ PhraseOf(s) \in KeyTextSet /\ Len(PhraseOf(s)) = slash(s) - 1
         /\ \A i \in 1..(slash(s) - 1) : PhraseOf(s)[i] = s[i]
         /\ PathOf(s) \in KeyTextSet /\ Len(PathOf(s)) = cut(s) - slash(s)
         /\ \A i \in 1..(cut(s) - slash(s)) : PathOf(s)[i] = s[(slash(s) - 1) + i]
         /\ Path(PathOf(s))
<1> DEFINE a == cut(s)
           h == slash(s)
           p == PathOf(s)
<1>1. Len(s) \in Nat /\ a \in 1..(Len(s) + 1) /\ h \in 1..a  BY TextLength, Cuts, Slashes
<1> HIDE DEF a, h
<1>2. /\ h - 1 \in 0..Len(s) /\ a - 1 \in (h - 1)..Len(s) /\ (h - 1) + 1 = h
      /\ (a - 1) - (h - 1) = a - h
  BY <1>1
<1>3. SubSeq(s, 1, h - 1) \in KeyTextSet /\ Len(SubSeq(s, 1, h - 1)) = h - 1
      /\ \A i \in 1..(h - 1) : SubSeq(s, 1, h - 1)[i] = s[i]
  BY <1>2, FirstPart
<1>4. SubSeq(s, (h - 1) + 1, a - 1) \in KeyTextSet
      /\ Len(SubSeq(s, (h - 1) + 1, a - 1)) = (a - 1) - (h - 1)
      /\ \A i \in 1..((a - 1) - (h - 1)) : SubSeq(s, (h - 1) + 1, a - 1)[i] = s[(h - 1) + i]
  BY <1>2, PartAfter
<1>5. p = SubSeq(s, h, a - 1)  BY DEF PathOf, a, h
<1>6. p \in KeyTextSet /\ Len(p) = a - h /\ \A i \in 1..(a - h) : p[i] = s[(h - 1) + i]
  BY <1>2, <1>4, <1>5
<1> HIDE DEF p
<1>7. p = <<>> \/ p[1] = "/"
  <2>1. CASE h = a  BY <1>1, <1>6, <2>1 DEF KeyTextSet
  <2>2. CASE h # a
    <3>1. 1 \in 1..(a - h) /\ (h - 1) + 1 = h  BY <1>1, <2>2
    <3>2. s[h] = "/"  BY <2>2, Slashes DEF a, h
    <3>3. QED  BY <1>6, <3>1, <3>2
  <2>3. QED  BY <2>1, <2>2
<1>8. ASSUME NEW i \in 1..(Len(p) - 2), p[i] = "/" /\ p[i + 1] = "/" /\ p[i + 2] = "/"
      PROVE  FALSE
  <2> DEFINE j == (h - 1) + i
  <2>1. /\ i \in 1..(a - h) /\ i + 1 \in 1..(a - h) /\ i + 2 \in 1..(a - h)
        /\ (h - 1) + (i + 1) = j + 1 /\ (h - 1) + (i + 2) = j + 2
        /\ j \in 1..(Len(s) - 2) /\ ~(a <= j)
    <3>1. i \in 1..((a - h) - 2)  BY <1>6
    <3>2. QED  BY <1>1, <3>1
  <2> HIDE DEF j
  <2>2. s[j] = "/" /\ s[j + 1] = "/" /\ s[j + 2] = "/"
    <3>1. p[i] = s[(h - 1) + i] /\ p[i + 1] = s[(h - 1) + (i + 1)] /\ p[i + 2] = s[(h - 1) + (i + 2)]
      BY <1>6, <2>1
    <3>2. QED  BY <1>8, <2>1, <3>1 DEF j
  <2>3. QED  BY <2>1, <2>2, Cuts DEF Sep, a
<1>9. Path(p)  BY <1>6, <1>7, <1>8 DEF Path
<1>10. QED  BY <1>3, <1>6, <1>9 DEF p, a, h, PhraseOf

\* What split makes of a body.
LEMMA SplitBody ==
  ASSUME NEW s \in KeyTextSet
  PROVE  split(s) = [ok        |-> /\ is_valid_phrase(PhraseOf(s))
                                   /\ parse_junctions(PathOf(s)).ok,
                     phrase    |-> PhraseOf(s),
                     junctions |-> parse_junctions(PathOf(s)).junctions,
                     password  |-> IF cut(s) > Len(s) THEN NoPassword
                                   ELSE from(s, cut(s) + 3)]
<1> DEFINE a == cut(s)
           h == slash(s)
           head == upto(s, a - 1)
<1>1. Len(s) \in Nat /\ a \in 1..(Len(s) + 1) /\ h \in 1..a  BY TextLength, Cuts, Slashes
<1>2. split(s) = [ok        |-> /\ is_valid_phrase(upto(head, h - 1))
                                /\ parse_junctions(from(head, h)).ok,
                  phrase    |-> upto(head, h - 1),
                  junctions |-> parse_junctions(from(head, h)).junctions,
                  password  |-> IF a > Len(s) THEN NoPassword ELSE from(s, a + 3)]
  BY Zenon DEF split, cut, slash
<1>3. PhraseOf(s) \in KeyTextSet /\ Len(PhraseOf(s)) = h - 1
      /\ (\A i \in 1..(h - 1) : PhraseOf(s)[i] = s[i])
      /\ PathOf(s) \in KeyTextSet /\ Len(PathOf(s)) = a - h
      /\ \A i \in 1..(a - h) : PathOf(s)[i] = s[(h - 1) + i]
  BY PartsOfABody
<1> HIDE DEF a, h
<1>4. a - 1 \in 0..Len(s) /\ h - 1 \in 0..(a - 1) /\ a - 1 \in (h - 1)..(a - 1)
      /\ (h - 1) + 1 = h /\ (a - 1) - (h - 1) = a - h
  BY <1>1
<1>5. head \in KeyTextSet /\ Len(head) = a - 1 /\ \A i \in 1..(a - 1) : head[i] = s[i]
  BY <1>4, FirstPart DEF upto
<1> HIDE DEF head
<1>6. upto(head, h - 1) = PhraseOf(s)
  <2> DEFINE t == SubSeq(head, 1, h - 1)
  <2>1. t \in KeyTextSet /\ Len(t) = h - 1 /\ \A i \in 1..(h - 1) : t[i] = head[i]
    BY <1>4, <1>5, FirstPart
  <2>2. upto(head, h - 1) = t  BY DEF upto
  <2> HIDE DEF t
  <2>3. \A i \in 1..(h - 1) : t[i] = s[i]
    <3> TAKE i \in 1..(h - 1)
    <3>1. i \in 1..(a - 1)  BY <1>1
    <3>2. QED  BY <1>5, <2>1, <3>1
  <2>4. QED  BY <1>3, <2>1, <2>2, <2>3, SameText
<1>7. from(head, h) = PathOf(s)
  <2> DEFINE t == SubSeq(head, (h - 1) + 1, a - 1)
  <2>1. t \in KeyTextSet /\ Len(t) = (a - 1) - (h - 1)
        /\ \A i \in 1..((a - 1) - (h - 1)) : t[i] = head[(h - 1) + i]
    BY <1>4, <1>5, PartAfter
  <2>2. from(head, h) = t  BY <1>4, <1>5 DEF from
  <2> HIDE DEF t
  <2>3. \A i \in 1..(a - h) : t[i] = s[(h - 1) + i]
    <3> TAKE i \in 1..(a - h)
    <3>1. (h - 1) + i \in 1..(a - 1)  BY <1>1
    <3>2. QED  BY <1>4, <1>5, <2>1, <3>1
  <2>4. Len(t) = a - h  BY <1>4, <2>1
  <2>5. QED  BY <1>3, <2>1, <2>2, <2>3, <2>4, SameText
<1>8. QED  BY <1>2, <1>6, <1>7, Zenon DEF a

\* The password with its separator is what follows the path.
LEMMA PasswordSpelled ==
  ASSUME NEW s \in KeyTextSet, cut(s) # Len(s) + 1
  PROVE  PASSWORD_SEPARATOR \o from(s, cut(s) + 3) = SubSeq(s, (cut(s) - 1) + 1, Len(s))
<1> DEFINE a == cut(s)
           n == Len(s)
           x == PASSWORD_SEPARATOR
           y == from(s, a + 3)
           z == SubSeq(s, (a - 1) + 1, n)
<1>1. n \in Nat /\ a \in 1..(n - 2) /\ Sep(s, a)  BY TextLength, Cuts
<1> HIDE DEF a
<1>2. SubSeq(s, a, a + 2) = x  BY <1>1, SeparatorAt
<1>3. (a - 1) \in 0..n /\ a + 2 \in (a - 1)..n /\ n \in (a + 2)..n /\ a + 2 \in 0..n
      /\ n \in (a - 1)..n /\ (a - 1) + 1 = a /\ (a + 2) + 1 = a + 3
      /\ (a + 2) - (a - 1) = 3 /\ n - (a - 1) = 3 + (n - (a + 2))
  BY <1>1
<1>4. x \in KeyTextSet /\ Len(x) = 3 /\ \A i \in 1..3 : x[i] = s[(a - 1) + i]
  <2>1. SubSeq(s, (a - 1) + 1, a + 2) = x  BY <1>2, <1>3
  <2>2. x \in KeyTextSet /\ Len(x) = (a + 2) - (a - 1)
        /\ \A i \in 1..((a + 2) - (a - 1)) : x[i] = s[(a - 1) + i]
    <3> HIDE DEF x
    <3>1. QED  BY <1>3, <2>1, PartAfter
  <2>3. QED  BY <1>3, <2>2
<1>5. y \in KeyTextSet /\ Len(y) = n - (a + 2) /\ \A i \in 1..(n - (a + 2)) : y[i] = s[(a + 2) + i]
  <2>1. y = SubSeq(s, (a + 2) + 1, n)  BY <1>3 DEF from
  <2> HIDE DEF y
  <2>2. QED  BY <1>3, <2>1, PartAfter
<1>6. z \in KeyTextSet /\ Len(z) = n - (a - 1) /\ \A i \in 1..(n - (a - 1)) : z[i] = s[(a - 1) + i]
  BY <1>3, PartAfter
<1> HIDE DEF x, y, z, n
<1>7. /\ x \o y \in KeyTextSet /\ Len(x \o y) = Len(x) + Len(y)
      /\ \A i \in 1..Len(x) : (x \o y)[i] = x[i]
      /\ \A i \in 1..Len(y) : (x \o y)[Len(x) + i] = y[i]
  BY <1>4, <1>5, JoinedTexts
<1>8. Len(x \o y) = Len(z)  BY <1>3, <1>4, <1>5, <1>6, <1>7
<1>9. ASSUME NEW i \in 1..(n - (a - 1))  PROVE (x \o y)[i] = s[(a - 1) + i]
  <2>1. CASE i \in 1..3  BY <1>4, <1>7, <2>1
  <2>2. CASE i \notin 1..3
    <3>1. i - 3 \in 1..(n - (a + 2)) /\ 3 + (i - 3) = i /\ (a + 2) + (i - 3) = (a - 1) + i
      BY <1>1, <2>2
    <3>2. (x \o y)[3 + (i - 3)] = y[i - 3]  BY <1>4, <1>5, <1>7, <3>1
    <3>3. y[i - 3] = s[(a + 2) + (i - 3)]  BY <1>5, <3>1
    <3>4. QED  BY <3>1, <3>2, <3>3
  <2>3. QED  BY <2>1, <2>2
<1>10. x \o y = z
  <2> DEFINE w == x \o y
             b == n - (a - 1)
  <2>1. w \in KeyTextSet /\ z \in KeyTextSet /\ Len(w) = b /\ Len(z) = b
        /\ (\A i \in 1..b : w[i] = s[(a - 1) + i]) /\ \A i \in 1..b : z[i] = s[(a - 1) + i]
    BY <1>6, <1>7, <1>8, <1>9
  <2> HIDE DEF w, b
  <2>2. w = z  BY <2>1, SameText
  <2>3. QED  BY <2>2 DEF w
<1>11. QED  BY <1>10 DEF x, y, z, a, n

\* A body is its parts, in their order.
LEMMA BodySpelled ==
  ASSUME NEW s \in KeyTextSet
  PROVE  Spelled(split(s)) = s
<1> DEFINE a == cut(s)
           h == slash(s)
           n == Len(s)
           password == IF a > n THEN NoPassword ELSE from(s, a + 3)
           tail == IF password = NoPassword THEN <<>> ELSE PASSWORD_SEPARATOR \o password
           js == parse_junctions(PathOf(s)).junctions
<1>1. n \in Nat /\ a \in 1..(n + 1) /\ h \in 1..a  BY TextLength, Cuts, Slashes
<1>2. FlattenSeq([k \in DOMAIN js |-> <<"/">> \o js[k]]) = PathOf(s)
  BY PartsOfABody, PathSpelled
<1>3. Spelled(split(s)) =
        PhraseOf(s) \o FlattenSeq([k \in DOMAIN js |-> <<"/">> \o js[k]]) \o tail
  <2> DEFINE uri == split(s)
  <2>1. uri.phrase = PhraseOf(s) /\ uri.junctions = js /\ uri.password = password
    BY SplitBody
  <2> HIDE DEF uri, js, password
  <2>2. QED  BY <2>1, Zenon DEF Spelled, uri
<1>4. tail = SubSeq(s, (a - 1) + 1, n)
  <2>1. CASE a = n + 1
    <3>1. a > n  BY <1>1, <2>1
    <3>2. tail = <<>>  BY <3>1
    <3>3. SubSeq(s, (a - 1) + 1, n) = <<>>
      <4>1. a - 1 \in 0..n /\ n \in (a - 1)..n /\ n - (a - 1) = 0  BY <1>1, <2>1
      <4> HIDE DEF a, n
      <4> DEFINE t == SubSeq(s, (a - 1) + 1, n)
      <4>2. t \in KeyTextSet /\ Len(t) = 0  BY <4>1, PartAfter DEF n
      <4> HIDE DEF t
      <4>3. t = <<>>  BY <4>2 DEF KeyTextSet
      <4>4. QED  BY <4>3 DEF t
    <3>4. QED  BY <3>2, <3>3
  <2>2. CASE a # n + 1
    <3>1. ~(a > n)  BY <1>1, <2>2
    <3>2. password = from(s, a + 3)  BY <3>1
    <3>3. password # NoPassword
      <4>1. a \in 1..(n - 2)  BY <2>2, Cuts
      <4>2. a + 2 \in 0..n /\ n \in (a + 2)..n /\ (a + 2) + 1 = a + 3  BY <1>1, <4>1
      <4>3. from(s, a + 3) = SubSeq(s, (a + 2) + 1, n)  BY <4>2 DEF from
      <4> HIDE DEF a, n, password
      <4>4. password \in KeyTextSet  BY <3>2, <4>2, <4>3, PartAfter DEF n
      <4>5. NoPassword \notin KeyTextSet
        <5>1. "none" \notin Symbol  BY DEF Symbol
        <5>2. NoPassword[1] = "none" /\ Len(NoPassword) = 1  BY DEF NoPassword
        <5>3. NoPassword \in KeyTextSet => NoPassword[1] \in Symbol  BY <5>2, TextLength
        <5>4. QED  BY <5>1, <5>2, <5>3
      <4>6. QED  BY <4>4, <4>5
    <3>4. tail = PASSWORD_SEPARATOR \o from(s, a + 3)  BY <3>2, <3>3, Zenon
    <3>5. QED  BY <2>2, <3>4, PasswordSpelled
  <2>3. QED  BY <2>1, <2>2
<1> HIDE DEF tail, js
<1>5. PhraseOf(s) = SubSeq(s, 1, h - 1) /\ PathOf(s) = SubSeq(s, (h - 1) + 1, a - 1)
  <2>1. (h - 1) + 1 = h  BY <1>1
  <2>2. QED  BY <2>1 DEF PhraseOf, PathOf
<1>6. h - 1 \in 0..n /\ a - 1 \in (h - 1)..n /\ a - 1 \in 0..n /\ n \in (a - 1)..n  BY <1>1
<1> HIDE DEF a, h
<1>7. PhraseOf(s) \o PathOf(s) = SubSeq(s, 1, a - 1)  BY <1>5, <1>6, AdjacentParts
<1>8. SubSeq(s, 1, a - 1) \o tail = SubSeq(s, 1, n)  BY <1>4, <1>6, AdjacentParts
<1>9. QED  BY <1>2, <1>3, <1>7, <1>8, WholeText

\* What the grammar asks of a text cut after its first n and its first k symbols.
Accepted(s, n, k) ==
  /\ n <= k /\ is_valid_phrase(SubSeq(s, 1, n))
  /\ \/ SubSeq(s, n + 1, k) = <<>>
     \/ /\ SubSeq(s, n + 1, k)[1] = "/"
        /\ SubSeq(s, n + 1, k)[Len(SubSeq(s, n + 1, k))] # "/"
  /\ \A i \in 1..(Len(SubSeq(s, n + 1, k)) - 2) :
       SubSeq(SubSeq(s, n + 1, k), i, i + 2) # PASSWORD_SEPARATOR
  /\ from(s, k + 1) = <<>> \/ IsPrefix(PASSWORD_SEPARATOR, from(s, k + 1))
  /\ \A i \in DOMAIN from(s, k + 1) : from(s, k + 1)[i] # "\n"

LEMMA Upstreams ==
  ASSUME NEW s
  PROVE  Upstream(s) <=> \E n \in 0..Len(s), k \in 0..Len(s) : Accepted(s, n, k)
  BY Zenon DEF Upstream, Accepted, upto

\* A tail is empty, or starts with the separator.
LEMMA Tails ==
  ASSUME NEW s \in KeyTextSet, NEW k \in 0..Len(s)
  PROVE  from(s, k + 1) = <<>> \/ IsPrefix(PASSWORD_SEPARATOR, from(s, k + 1))
           <=> k = Len(s) \/ (k + 1 \in 1..(Len(s) - 2) /\ Sep(s, k + 1))
<1> DEFINE n == Len(s)
           t == from(s, k + 1)
           sep == PASSWORD_SEPARATOR
           first == SubSeq(t, 1, 3)
<1>1. n \in Nat /\ k \in 0..n /\ n \in k..n  BY TextLength
<1>2. t \in KeyTextSet /\ Len(t) = n - k /\ \A i \in 1..(n - k) : t[i] = s[k + i]
  BY <1>1, PartAfter DEF from
<1>3. sep \in KeyTextSet /\ Len(sep) = 3 /\ SubSeq(sep, 1, 3) = sep
  <2>1. "/" \in Symbol  BY DEF Symbol
  <2>2. sep \in KeyTextSet /\ Len(sep) = 3  BY <2>1 DEF PASSWORD_SEPARATOR, KeyTextSet
  <2> HIDE DEF sep
  <2>3. SubSeq(sep, 1, Len(sep)) = sep  BY <2>2, WholeText
  <2>4. QED  BY <2>2, <2>3
<1> HIDE DEF t, sep
<1>4. IsPrefix(sep, t) <=> 3 <= n - k /\ first = sep
  BY <1>2, <1>3, Zenon DEF IsPrefix
<1>5. t = <<>> <=> k = n
  <2>1. t = <<>> <=> Len(t) = 0  BY <1>2 DEF KeyTextSet
  <2> HIDE DEF n
  <2>2. n - k = 0 <=> k = n  BY <1>1
  <2>3. QED  BY <1>2, <2>1, <2>2
<1>6. 3 <= n - k <=> k + 1 \in 1..(n - 2)
  <2> HIDE DEF n
  <2>1. QED  BY <1>1
<1>7. ASSUME 3 <= n - k  PROVE first = sep <=> Sep(s, k + 1)
  <2>1. 1 \in 1..(Len(t) - 2)
    <3> HIDE DEF n
    <3>1. QED  BY <1>1, <1>2, <1>7
  <2>2. first = sep <=> Sep(t, 1)
    <3>1. SubSeq(t, 1, 1 + 2) = PASSWORD_SEPARATOR <=> Sep(t, 1)  BY <1>2, <2>1, SeparatorAt
    <3>2. QED  BY <3>1 DEF sep
  <2>3. t[1] = s[k + 1] /\ t[1 + 1] = s[(k + 1) + 1] /\ t[1 + 2] = s[(k + 1) + 2]
    <3>1. 1 \in 1..(n - k) /\ 1 + 1 \in 1..(n - k) /\ 1 + 2 \in 1..(n - k)
          /\ k + (1 + 1) = (k + 1) + 1 /\ k + (1 + 2) = (k + 1) + 2
      <4> HIDE DEF n
      <4>1. QED  BY <1>1, <1>7
    <3>2. t[1 + 1] = s[k + (1 + 1)] /\ t[1 + 2] = s[k + (1 + 2)] /\ t[1] = s[k + 1]
      BY <1>2, <3>1
    <3>3. QED  BY <3>1, <3>2
  <2>4. QED  BY <2>2, <2>3 DEF Sep
<1>8. QED  BY <1>4, <1>5, <1>6, <1>7 DEF t, sep

\* Where no newline stands, split accepts what the grammar accepts.
LEMMA SplitIsAccepted ==
  ASSUME NEW s \in KeyTextSet, "\n" \notin ToSet(s), split(s).ok
  PROVE  Upstream(s)
<1> DEFINE n == slash(s) - 1
           k == cut(s) - 1
           p == SubSeq(s, n + 1, k)
           t == from(s, k + 1)
<1>1. Len(s) \in Nat /\ n \in 0..Len(s) /\ k \in n..Len(s) /\ k \in 0..Len(s) /\ n <= k
      /\ n + 1 = slash(s) /\ k + 1 = cut(s)
  <2>1. Len(s) \in Nat /\ cut(s) \in 1..(Len(s) + 1) /\ slash(s) \in 1..cut(s)
    BY TextLength, Cuts, Slashes
  <2>2. QED  BY <2>1
<1>2. p = PathOf(s)  BY <1>1 DEF PathOf
<1>3. SubSeq(s, 1, n) = PhraseOf(s)  BY DEF PhraseOf
<1>4. is_valid_phrase(PhraseOf(s)) /\ parse_junctions(PathOf(s)).ok  BY SplitBody
<1>5. p \in KeyTextSet /\ Path(p)  BY <1>2, PartsOfABody
<1>6. p = <<>> \/ (p[1] = "/" /\ p[Len(p)] # "/")
  BY <1>2, <1>4, <1>5, PathIsGood DEF Path
<1> HIDE DEF p
<1>7. \A i \in 1..(Len(p) - 2) : SubSeq(p, i, i + 2) # PASSWORD_SEPARATOR
  BY <1>5, SeparatorAt DEF Path, Sep
<1>8. t = <<>> \/ IsPrefix(PASSWORD_SEPARATOR, t)
  <2>1. k = Len(s) \/ (k + 1 \in 1..(Len(s) - 2) /\ Sep(s, k + 1))
    <3>1. cut(s) = Len(s) + 1 \/ (cut(s) \in 1..(Len(s) - 2) /\ Sep(s, cut(s)))  BY Cuts
    <3>2. QED  BY <1>1, <3>1
  <2>2. QED  BY <1>1, <2>1, Tails
<1>9. \A i \in DOMAIN t : t[i] # "\n"
  <2>1. t \in KeyTextSet /\ Len(t) = Len(s) - k /\ \A i \in 1..(Len(s) - k) : t[i] = s[k + i]
    <3>1. Len(s) \in k..Len(s)  BY <1>1
    <3>2. QED  BY <1>1, <3>1, PartAfter DEF from
  <2> HIDE DEF t, k
  <2>2. ASSUME NEW i \in DOMAIN t  PROVE t[i] # "\n"
    <3>1. i \in 1..(Len(s) - k)  BY <2>1, TextLength
    <3>2. k + i \in 1..Len(s)  BY <1>1, <3>1
    <3>3. s[k + i] \in ToSet(s)  BY <3>2, TextLength DEF ToSet
    <3>4. QED  BY <2>1, <3>1, <3>3
  <2>3. QED  BY <2>2
<1> HIDE DEF t
<1>10. Accepted(s, n, k)
  BY <1>1, <1>3, <1>4, <1>6, <1>7, <1>8, <1>9 DEF Accepted, p, t
<1> HIDE DEF n, k
<1>11. QED  BY <1>1, <1>10, Upstreams

\* The grammar's cuts are the first separator and the first slash: what it
\* accepts, split accepts.
LEMMA AcceptedIsSplit ==
  ASSUME NEW s \in KeyTextSet, Upstream(s)
  PROVE  split(s).ok
<1> DEFINE a == cut(s)
           h == slash(s)
           N == Len(s)
<1>1. PICK n \in 0..N, k \in 0..N : Accepted(s, n, k)  BY Upstreams
<1> DEFINE ph == SubSeq(s, 1, n)
           p  == SubSeq(s, n + 1, k)
<1>2. N \in Nat /\ n <= k /\ n \in 0..N /\ k \in n..N /\ k \in 0..N
  <2>1. n <= k  BY <1>1, Zenon DEF Accepted
  <2>2. N \in Nat  BY TextLength
  <2> HIDE DEF N
  <2>3. QED  BY <1>1, <2>1, <2>2
<1>3. ph \in KeyTextSet /\ Len(ph) = n /\ \A i \in 1..n : ph[i] = s[i]
  BY <1>2, FirstPart
<1>4. p \in KeyTextSet /\ Len(p) = k - n /\ \A i \in 1..(k - n) : p[i] = s[n + i]
  BY <1>2, PartAfter
<1>5. /\ is_valid_phrase(ph) /\ (p = <<>> \/ (p[1] = "/" /\ p[Len(p)] # "/"))
      /\ \A i \in 1..(Len(p) - 2) : SubSeq(p, i, i + 2) # PASSWORD_SEPARATOR
  BY <1>1, Zenon DEF Accepted
<1>6. k = N \/ (k + 1 \in 1..(N - 2) /\ Sep(s, k + 1))
  <2>1. from(s, k + 1) = <<>> \/ IsPrefix(PASSWORD_SEPARATOR, from(s, k + 1))
    BY <1>1, Zenon DEF Accepted
  <2>2. QED  BY <1>2, <2>1, Tails
<1> HIDE DEF ph, p
<1>7. /\ a \in 1..(N + 1) /\ (a = N + 1 \/ (a \in 1..(N - 2) /\ Sep(s, a)))
      /\ \A i \in 1..(N - 2) : Sep(s, i) => a <= i
  BY Cuts
<1>8. /\ h \in 1..a /\ (h # a => s[h] = "/") /\ \A i \in 1..(h - 1) : s[i] # "/"
  BY Slashes
<1> HIDE DEF a, h, N
<1>9. \A i \in 1..n : s[i] # "/"
  <2> TAKE i \in 1..n
  <2>1. i \in DOMAIN ph /\ ph[i] = s[i]  BY <1>3, TextLength
  <2>2. ph[i] # "/"  BY <1>5, <2>1 DEF is_valid_phrase
  <2>3. QED  BY <2>1, <2>2
<1>10. a = k + 1
  <2>1. a <= k + 1  BY <1>2, <1>6, <1>7
  <2>2. ASSUME a <= k  PROVE FALSE
    <3>1. a \in 1..(N - 2) /\ s[a] = "/" /\ s[a + 1] = "/" /\ s[a + 2] = "/"
      <4>1. a # N + 1  BY <1>2, <2>2
      <4>2. QED  BY <1>7, <4>1 DEF Sep
    <3>2. a - n \in 1..(k - n) /\ n + (a - n) = a  BY <1>2, <1>9, <2>2, <3>1
    <3>3. p # <<>> /\ p[Len(p)] = s[k]
      <4>1. Len(p) # 0  BY <1>2, <1>4, <3>2
      <4>2. p # <<>>  BY <4>1
      <4>3. k - n \in 1..(k - n) /\ n + (k - n) = k  BY <1>2, <3>2
      <4>4. QED  BY <1>4, <4>2, <4>3
    <3>4. s[k] # "/"  BY <1>5, <3>3
    <3>5. a # k /\ a + 1 # k  BY <3>1, <3>4
    <3>6. /\ a - n \in 1..((k - n) - 2) /\ (a - n) + 1 \in 1..(k - n) /\ (a - n) + 2 \in 1..(k - n)
          /\ n + ((a - n) + 1) = a + 1 /\ n + ((a - n) + 2) = a + 2
      BY <1>2, <1>7, <2>2, <3>2, <3>5
    <3>7. Sep(p, a - n)
      <4>1. /\ p[a - n] = s[n + (a - n)] /\ p[(a - n) + 1] = s[n + ((a - n) + 1)]
            /\ p[(a - n) + 2] = s[n + ((a - n) + 2)]
        BY <1>4, <3>2, <3>6
      <4>2. QED  BY <3>1, <3>2, <3>6, <4>1 DEF Sep
    <3>8. a - n \in 1..(Len(p) - 2)  BY <1>4, <3>6
    <3>9. QED  BY <1>4, <1>5, <3>7, <3>8, SeparatorAt
  <2>3. QED  BY <1>2, <1>7, <2>1, <2>2
<1>11. h = n + 1
  <2>1. h > n
    <3>1. SUFFICES ASSUME h <= n  PROVE FALSE
      BY <1>2, <1>7, <1>8
    <3>2. h \in 1..n /\ h # a  BY <1>2, <1>7, <1>8, <1>10, <3>1
    <3>3. QED  BY <1>8, <1>9, <3>2
  <2>2. CASE p = <<>>
    <3>1. k - n = 0
      <4>1. Len(p) = 0  BY <2>2
      <4>2. QED  BY <1>4, <4>1
    <3>2. QED  BY <1>2, <1>7, <1>8, <1>10, <2>1, <3>1
  <2>3. CASE p # <<>>
    <3>1. Len(p) # 0  BY <1>4, <2>3 DEF KeyTextSet
    <3>2. 1 \in 1..(k - n)  BY <1>2, <1>4, <3>1
    <3>3. s[n + 1] = "/"  BY <1>4, <1>5, <2>3, <3>2
    <3>4. n + 1 \notin 1..(h - 1)  BY <1>8, <3>3
    <3>5. QED  BY <1>2, <1>7, <1>8, <2>1, <3>4
  <2>4. QED  BY <2>2, <2>3
<1>12. PhraseOf(s) = ph /\ PathOf(s) = p
  <2>1. h - 1 = n /\ a - 1 = k  BY <1>2, <1>10, <1>11
  <2>2. QED  BY <1>11, <2>1 DEF PhraseOf, PathOf, ph, p, a, h
<1>13. Path(p)  BY <1>12, PartsOfABody
<1>14. parse_junctions(p).ok  BY <1>5, <1>13, PathIsGood
<1>15. QED  BY <1>5, <1>12, <1>14, SplitBody

-----------------------------------------------------------------------------
(***************************************************************************)
(* Key texts: what a parse shows.                                          *)
(***************************************************************************)
\* ApiKey::parse: a body is accepted exactly when the upstream grammar accepts
\* it, newlines aside; it is its phrase, junctions and password, put together
\* again; and every junction is named and has one slash too many at most.
THEOREM KeyTextsAreUpstreams ==
  ASSUME NEW s \in Seq(Symbol)
  PROVE  /\ "\n" \notin ToSet(s) => (split(s).ok <=> Upstream(s))
         /\ Spelled(split(s)) = s
         /\ split(s).ok =>
              \A k \in DOMAIN split(s).junctions :
                /\ split(s).junctions[k] \notin {<<>>, <<"/">>}
                /\ "/" \notin ToSet(Tail(split(s).junctions[k]))
<1>1. s \in KeyTextSet  BY DEF KeyTextSet
<1>2. ASSUME split(s).ok, NEW k \in DOMAIN split(s).junctions
      PROVE  /\ split(s).junctions[k] \notin {<<>>, <<"/">>}
             /\ "/" \notin ToSet(Tail(split(s).junctions[k]))
  <2> DEFINE p == PathOf(s)
             order == in_order(segments(p))
  <2>1. Path(p)  BY <1>1, PartsOfABody
  <2>2. parse_junctions(p).ok /\ split(s).junctions = parse_junctions(p).junctions
    BY <1>1, <1>2, SplitBody
  <2> HIDE DEF p
  <2>3. parse_junctions(p).junctions = [l \in DOMAIN order |-> token(p, order[l])]
    BY DEF parse_junctions
  <2>4. order \in [1..Cardinality(segments(p)) -> segments(p)]
    BY <2>1, SegmentsInOrder DEF InOrder
  <2> HIDE DEF order
  <2>5. k \in DOMAIN order /\ split(s).junctions[k] = token(p, order[k])  BY <1>2, <2>2, <2>3
  <2>6. order[k] \in segments(p)  BY <2>4, <2>5
  <2>7. QED  BY <2>1, <2>2, <2>5, <2>6, TokensAreGood
<1>3. QED  BY <1>1, <1>2, SplitIsAccepted, AcceptedIsSplit, BodySpelled

\* What parse makes of a key: its body's parts; and a body with a seed or a
\* mnemonic for a phrase is accepted.
LEMMA ParsedKey ==
  ASSUME NEW text \in KeyTextSet,
         NEW body, body = split_scheme(trim(text)).body,
         NEW uri, uri = split(body),
         NEW result, result = parse(text)
  PROVE  /\ body \in KeyTextSet
         /\ result.ok => /\ uri.ok /\ result.account.junctions = uri.junctions
                         /\ result.account.password \in {uri.password, NoPassword}
         /\ uri.ok /\ (is_mnemonic(uri.phrase) \/ uri.phrase = <<"0">>) => result.ok
<1> DEFINE input == trim(text)
           scheme == split_scheme(input)
           seedy == uri.phrase = <<"0">>
           named == is_mnemonic(uri.phrase)
<1>1. /\ body \in KeyTextSet
      /\ scheme.error # "none" \/ input = <<>> => body = <<>>
  BY Trimmed, BodyOfKey
<1>2. \A e : ~KeyError(e).ok  BY DEF KeyError
<1>3. \A account : Account(account).ok /\ Account(account).account = account  BY DEF Account
<1>4. parse_sr25519(body) =
        IF ~uri.ok \/ uri.phrase = <<>> THEN KeyError("Malformed")
        ELSE IF seedy THEN Account(seed_account(uri))
        ELSE IF named THEN Account(mnemonic_account(uri))
        ELSE KeyError("Malformed")
  BY Zenon DEF parse_sr25519
<1>5. result = IF input = <<>> THEN KeyError("Empty")
               ELSE IF scheme.error # "none" THEN KeyError(scheme.error)
               ELSE IF trim(body) = <<>> THEN KeyError("Empty")
               ELSE parse_sr25519(body)
  BY Zenon DEF parse
<1>6. /\ seed_account(uri).junctions = uri.junctions /\ seed_account(uri).password = NoPassword
      /\ mnemonic_account(uri).junctions = uri.junctions
      /\ mnemonic_account(uri).password = uri.password
  BY DEF seed_account, mnemonic_account, Derived
<1>7. ASSUME named \/ seedy
      PROVE  uri.phrase # <<>> /\ trim(body) # <<>> /\ body # <<>>
  <2> DEFINE ph == uri.phrase
  <2>1. ph = PhraseOf(body)  BY <1>1, SplitBody
  <2> HIDE DEF ph
  <2>2. PICK i \in DOMAIN ph : ph[i] \in {"m", "0"}
    <3>1. CASE named  BY <3>1 DEF is_mnemonic, ph
    <3>2. CASE seedy
      <4>1. 1 \in DOMAIN <<"0">> /\ <<"0">>[1] = "0"  OBVIOUS
      <4>2. QED  BY <3>2, <4>1 DEF ph
    <3>3. QED  BY <1>7, <3>1, <3>2
  <2>3. ph \in KeyTextSet /\ Len(ph) = slash(body) - 1
        /\ \A j \in 1..(slash(body) - 1) : ph[j] = body[j]
    BY <1>1, <2>1, PartsOfABody
  <2>4. i \in 1..(slash(body) - 1)  BY <2>2, <2>3, TextLength
  <2>5. i \in 1..Len(body) /\ body[i] \in {"m", "0"}
    <3>1. Len(body) \in Nat /\ cut(body) \in 1..(Len(body) + 1) /\ slash(body) \in 1..cut(body)
      BY <1>1, TextLength, Cuts, Slashes
    <3>2. QED  BY <2>2, <2>3, <2>4, <3>1
  <2>6. body[i] \notin {" ", "\n"}  BY <2>5
  <2>7. trim(body) # <<>>  BY <1>1, <2>5, <2>6, Trimmed
  <2>8. ph # <<>> /\ body # <<>>
    <3>1. DOMAIN <<>> = {} /\ Len(<<>>) = 0 /\ 1..0 = {}  OBVIOUS
    <3>2. QED  BY <2>2, <2>5, <3>1
  <2>9. QED  BY <2>7, <2>8 DEF ph
<1> HIDE DEF seedy, named, input, scheme
<1>8. result.ok => /\ uri.ok
                   /\ result = Account(seed_account(uri)) \/ result = Account(mnemonic_account(uri))
  BY <1>2, <1>4, <1>5, Zenon
<1>9. result.ok => /\ uri.ok /\ result.account.junctions = uri.junctions
                   /\ result.account.password \in {uri.password, NoPassword}
  BY <1>3, <1>6, <1>8
<1>10. ASSUME uri.ok, named \/ seedy  PROVE result.ok
  <2>1. result = parse_sr25519(body)  BY <1>1, <1>5, <1>7, <1>10, Zenon
  <2>2. result = Account(seed_account(uri)) \/ result = Account(mnemonic_account(uri))
    BY <1>4, <1>7, <1>10, <2>1, Zenon
  <2>3. QED  BY <1>3, <2>2, Zenon
<1>11. QED  BY <1>1, <1>9, <1>10 DEF seedy, named

\* A parse shows its text, one of those to parse, and what parse makes of it.
KeyKept ==
  out.op = "key" => out.text \in KeyTexts /\ out.result = parse(out.text)

LEMMA KeyKeptNext == KeyKept /\ [Next]_vars => KeyKept'
<1> SUFFICES ASSUME KeyKept, [Next]_vars  PROVE KeyKept'
  OBVIOUS
<1>1. ASSUME NEW text \in KeyTexts, ParsesKey(text)  PROVE KeyKept'
  BY <1>1 DEF ParsesKey, Converts, KeyKept
<1>2. ASSUME Convert, \A text \in KeyTexts : ~ParsesKey(text)  PROVE out'.op # "key"
  BY <1>2 DEF Convert, ParsesScopes, ParsesAmount, FormatsAmount, TakesOneToken, Converts
<1>3. ASSUME NEW c, Tx(c)  PROVE out'.op # "key"
  BY <1>3 DEF Tx
<1>4. ASSUME NEW tag, StartsRecover(tag)  PROVE out'.op # "key"
  BY <1>4 DEF StartsRecover
<1>5. ASSUME RecoverReadOnly  PROVE out'.op # "key"
  BY <1>5 DEF RecoverReadOnly
<1>6. CASE out'.op # "key"  BY <1>6 DEF KeyKept
<1>7. CASE UNCHANGED out  BY <1>7 DEF KeyKept
<1>8. ASSUME UNCHANGED vars  PROVE UNCHANGED out  BY <1>8 DEF vars
<1>9. QED  BY <1>1, <1>2, <1>3, <1>4, <1>5, <1>6, <1>7, <1>8, Zenon DEF Next

\* ApiKey::parse against the grammar of sp_core: after the scheme it accepts what
\* the grammar accepts and derives from the same parts, for any text; a password
\* with a newline in it, and a missing phrase, are what it may refuse or accept
\* on its own.
THEOREM ParsedKeysAreUpstreams == Spec => []KeyTextIsUpstreams
<1>1. Init => KeyKept
  BY DEF Init, ConnectInit, NoOut, KeyKept
<1>2. KeyKept /\ [Next]_vars => KeyKept'  BY KeyKeptNext
<1>3. KeyKept => KeyTextIsUpstreams
  <2> DEFINE body == split_scheme(trim(out.text)).body
             uri  == split(body)
  <2>1. SUFFICES ASSUME KeyKept, out.op = "key"
                 PROVE  /\ "\n" \notin ToSet(body) => (uri.ok <=> Upstream(body))
                        /\ uri.ok => Spelled(uri) = body
                        /\ out.result.ok =>
                             /\ out.result.account.junctions = uri.junctions
                             /\ out.result.account.password \in {uri.password, NoPassword}
                             /\ \A k \in DOMAIN uri.junctions :
                                  /\ uri.junctions[k] \notin {<<>>, <<"/">>}
                                  /\ "/" \notin ToSet(Tail(uri.junctions[k]))
                        /\ uri.ok /\ (is_mnemonic(uri.phrase) \/ uri.phrase = <<"0">>) =>
                             out.result.ok
    BY Zenon DEF KeyTextIsUpstreams
  <2>2. out.text \in KeyTextSet /\ out.result = parse(out.text)
    BY <2>1, SessionAssumption DEF KeyKept, KeyTextSet
  <2>3. /\ body \in Seq(Symbol)
        /\ out.result.ok => /\ uri.ok /\ out.result.account.junctions = uri.junctions
                            /\ out.result.account.password \in {uri.password, NoPassword}
        /\ uri.ok /\ (is_mnemonic(uri.phrase) \/ uri.phrase = <<"0">>) => out.result.ok
    BY <2>2, ParsedKey DEF KeyTextSet
  <2>4. /\ "\n" \notin ToSet(body) => (uri.ok <=> Upstream(body))
        /\ Spelled(uri) = body
        /\ uri.ok => \A k \in DOMAIN uri.junctions :
                       /\ uri.junctions[k] \notin {<<>>, <<"/">>}
                       /\ "/" \notin ToSet(Tail(uri.junctions[k]))
    BY <2>3, KeyTextsAreUpstreams
  <2> HIDE DEF body, uri
  <2>5. QED  BY <2>3, <2>4
<1>4. QED  BY <1>1, <1>2, <1>3, PTL DEF Spec
=============================================================================
