------------------------------ MODULE Connect ------------------------------
(***************************************************************************)
(* Connecting a MatterClient (chain/mod.rs, chain/mode.rs): from the       *)
(* environment or from a configuration, through the network guards, to the *)
(* mode its signer acts in.  External: the chain an endpoint serves, and   *)
(* the grant a member minted for the key out of a scope text.              *)
(***************************************************************************)
EXTENDS KeyText, Facade

CONSTANTS
  ApiKeys,     \* the texts MATTER_API_KEY may hold; blank or unset is <<>> or blank
  Seeds,       \* the texts MATTER_SIGNER_SEED may hold
  GrantTexts,  \* the scope texts a member may mint the key with
  Nobody       \* no principal

\* Either variable may be unset.
ASSUME ConnectAssumption == <<>> \in ApiKeys /\ <<>> \in Seeds

VARIABLES
  stage,    \* "start", "dial", "properties", "guards", "resolve", "ready", "failed" or "left"
  env,      \* the environment variables
  config,   \* MatterConfig
  signer,   \* the account the client signs with
  served,   \* the chain behind the endpoint
  minted,   \* the scope text the key was granted with, if it was
  mode,     \* the client's Mode
  error     \* why connecting failed

conn == <<stage, env, config, signer, served, minted, mode, error>>

Network == {"Testnet", "Mainnet", "Custom"}
Chain   == {"testnet", "mainnet", "fork"}

\* What an endpoint reports of its chain.  A mainnet node declares MTR.
Properties ==
  [testnet |-> [genesis |-> "testnet", token_symbol |-> "MTR-Test"],
   mainnet |-> [genesis |-> "mainnet", token_symbol |-> "MTR"],
   fork    |-> [genesis |-> "fork",    token_symbol |-> "DEV"],
   unknown |-> [genesis |-> "fork",    token_symbol |-> ""]]

Env == [network : {"unset", "testnet", "mainnet", "other"}, url : BOOLEAN,
        api_key : ApiKeys, seed : Seeds, confirm : {"unset", "yes", "other"},
        principal : {"unset", "member", "bad"}]

Hsm       == Derived("hsm", NoPassword, <<>>)
NotMinted == [granted |-> FALSE, text |-> <<>>]
Config(network, url, confirm) ==
  [network |-> network, rpc_url |-> url, confirm_mainnet |-> confirm]
NoConfig  == Config("Testnet", FALSE, FALSE)
NoEnv     == [network |-> "unset", url |-> FALSE, api_key |-> <<>>, seed |-> <<>>,
              confirm |-> "unset", principal |-> "unset"]

Direct                       == [kind |-> "Direct", principal |-> Nobody, scopes |-> EMPTY]
Delegated(principal, scopes) == [kind |-> "Delegated", principal |-> principal, scopes |-> scopes]

ConnectInit ==
  /\ stage = "start" /\ env \in Env /\ config = NoConfig /\ signer = NoAccount
  /\ served = "unknown" /\ minted = NotMinted /\ mode = Direct /\ error = "none"

Fail(kind) ==
  /\ stage' = "failed" /\ error' = kind
  /\ UNCHANGED <<env, config, signer, served, minted, mode>>

-----------------------------------------------------------------------------
\* Mutant: a malformed variable is passed over.
env_api_key_SkipsMalformed ==
  IF parse(env.api_key).ok THEN parse(env.api_key)
  ELSE IF parse(env.seed).ok THEN parse(env.seed)
  ELSE Account(NoAccount)

\* The first variable that is not blank; a malformed one is an error.
env_api_key ==
  LET blank(text) == trim(text) = <<>>
  IN  IF ~blank(env.api_key) THEN parse(env.api_key)
      ELSE IF ~blank(env.seed) THEN parse(env.seed)
      ELSE Account(NoAccount)

\* MatterClient::from_env.
FromEnv ==
  /\ stage = "start"
  /\ \/ env.network = "other" /\ Fail("Config")
     \/ env.network # "other" /\ ~env_api_key.ok /\ Fail(env_api_key.error)
     \/ /\ env.network # "other" /\ env_api_key.ok
        /\ config' = Config(IF env.network = "mainnet" THEN "Mainnet" ELSE "Testnet",
                            env.url, FALSE)
        /\ signer' = env_api_key.account
        /\ stage' = "dial"
        /\ UNCHANGED <<env, served, minted, mode, error>>

\* What is read of the environment once the client is configured.
env_left == [NoEnv EXCEPT !.confirm = env.confirm, !.principal = env.principal]

\* connect, connect_with_api_key, connect_with_signer.
ConnectWith(network, url, confirm, account) ==
  /\ stage = "start"
  /\ config' = Config(network, url, confirm)
  /\ signer' = account
  /\ stage' = "dial" /\ env' = env_left
  /\ UNCHANGED <<served, minted, mode, error>>

\* build: resolve_url, then the endpoint, which may serve any chain.
resolve_url == config.rpc_url \/ config.network # "Custom"

Dial ==
  /\ stage = "dial"
  /\ \/ ~resolve_url /\ Fail("Config")
     \/ resolve_url /\ Fail("Chain")
     \/ /\ resolve_url
        /\ served' \in Chain
        /\ stage' = "properties" /\ env' = env_left
        /\ UNCHANGED <<config, signer, minted, mode, error>>

\* Chain identity and units, once.
ReadProperties ==
  /\ stage = "properties"
  /\ \/ Fail("Chain")
     \/ stage' = "guards" /\ UNCHANGED <<env, config, signer, served, minted, mode, error>>

-----------------------------------------------------------------------------
\* The testnet genesis is pinned; else the token symbol tells.
is_mainnet(properties) ==
  properties.genesis # "testnet" /\ properties.token_symbol = "MTR"

\* Mutant: any value of the variable confirms.
confirmed_AnyValue == config.confirm_mainnet \/ env.confirm # "unset"

confirmed == config.confirm_mainnet \/ env.confirm = "yes"

\* Judged by what the endpoint serves, before any further round trip.
EnforceNetworkGuards ==
  /\ stage = "guards"
  /\ LET mainnet == is_mainnet(Properties[served])
         wrong   == config.network = "Testnet" /\ mainnet
         unsafe  == mainnet /\ signer # NoAccount /\ ~confirmed
     IN  \/ wrong /\ Fail("WrongNetwork")
         \/ ~wrong /\ unsafe /\ Fail("MainnetNotConfirmed")
         \/ /\ ~wrong /\ ~unsafe
            /\ stage' = "resolve"
            /\ UNCHANGED <<env, config, signer, served, minted, mode, error>>

-----------------------------------------------------------------------------
\* Mutant: the override holds every bit, defined or not.
decide_EveryBit(grants, override) ==
  IF override # Nobody THEN Delegated(override, 0 .. Width - 1)
  ELSE IF grants = {} THEN Direct
  ELSE LET grant == CHOOSE g \in grants : TRUE
       IN  Delegated(grant.principal, grant.scopes)

\* An override wins; no grant means Direct.
decide(grants, override) ==
  IF override # Nobody THEN Delegated(override, ALL)
  ELSE IF grants = {} THEN Direct
  ELSE LET grant == CHOOSE g \in grants : TRUE
       IN  Delegated(grant.principal, grant.scopes)

\* keys().authorize: the member's client puts the scopes it parsed on the wire,
\* and agent_key answers them to the key's client.
agent_key(text) == [principal |-> "member", scopes |-> from_bits(bits(from_text(text).set))]

Connected(m, mint) ==
  /\ stage' = "ready" /\ mode' = m /\ minted' = mint
  /\ UNCHANGED <<env, config, signer, served, error>>

\* mode::resolve, with a signer only.  Without a grant the lookup answers None,
\* as it does on a runtime that has no agent keys.
Resolve ==
  /\ stage = "resolve"
  /\ IF signer = NoAccount THEN Connected(Direct, NotMinted)
     ELSE IF env.principal = "bad" THEN Fail("Config")
     ELSE IF env.principal = "member" THEN Connected(decide({}, "member"), NotMinted)
     ELSE \/ Fail("Chain")
          \/ Connected(decide({}, Nobody), NotMinted)
          \/ \E text \in GrantTexts :
               /\ from_text(text).ok
               /\ Connected(decide({agent_key(text)}, Nobody),
                            [granted |-> TRUE, text |-> text])

ConnectNext ==
  \/ FromEnv
  \/ \E network \in Network, url \in BOOLEAN, confirm \in BOOLEAN,
        account \in {NoAccount, Hsm} : ConnectWith(network, url, confirm, account)
  \/ Dial
  \/ ReadProperties
  \/ EnforceNetworkGuards
  \/ Resolve
=============================================================================
