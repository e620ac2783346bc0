------------------------------ MODULE Session ------------------------------
(***************************************************************************)
(* A MatterClient from its configuration to one operation: it connects     *)
(* (module Connect), then submits a call of a facade (Facade, ScopeTable), *)
(* recovers a secret (Recover), or converts an amount (Amounts).  The pure *)
(* conversions need no connection and are taken from the start.            *)
(***************************************************************************)
EXTENDS Connect, Recover, Amounts

CONSTANTS
  KeyTexts,    \* the key texts to parse
  ScopeTexts,  \* the scope texts to parse
  AmountTexts, \* the amounts to parse
  Deposits,    \* the existential deposits a chain may have
  Declared     \* the decimals a chain spec may declare

ASSUME SessionAssumption ==
  /\ KeyTexts \subseteq Seq(Symbol)
  /\ AmountTexts \subseteq AmountText /\ Declared \subseteq Nat \cup {Undeclared}

VARIABLE out   \* the operation and its result

vars == <<conn, chain, recover, out>>

NoOut == [op |-> "none"]

Init == ConnectInit /\ RecoverInit /\ out = NoOut

\* One operation of a client is followed: what it was connected with no longer
\* matters, but for what the operation keeps of it in out.
Leave ==
  /\ stage' = "left" /\ env' = NoEnv /\ config' = NoConfig /\ signer' = NoAccount
  /\ served' = "unknown" /\ minted' = NotMinted /\ mode' = Direct
  /\ UNCHANGED error

-----------------------------------------------------------------------------
\* tx up to the payload: build_payload checks the call against the cached mode.
build_payload(m, c) ==
  LET required == required_scopes(c)
  IN  IF m.kind = "Direct" THEN "sent"
      ELSE IF c.pallet \in {"Proxy", "Utility", "EthSigning"} THEN "NeverAdmitted"
      ELSE IF required = {} THEN "NeverAdmitted"
      ELSE IF ~\A r \in required : is_superset(m.scopes, r) THEN "NotPermitted"
      ELSE "proxied"

Tx(c) ==
  /\ stage = "ready"
  /\ out' = [op |-> "tx", call |-> c, mode |-> mode,
             overridden |-> env.principal = "member",
             result |-> IF signer = NoAccount THEN "ReadOnly" ELSE build_payload(mode, c)]
  /\ Leave
  /\ UNCHANGED <<chain, recover>>

\* Secrets::recover: require_signer, then the reads.
StartsRecover(tag) ==
  /\ stage = "ready" /\ signer # NoAccount
  /\ StartRecover(tag)
  /\ out' = [op |-> "recover"]
  /\ Leave

RecoverReadOnly ==
  /\ stage = "ready" /\ signer = NoAccount
  /\ out' = [op |-> "recover", result |-> "ReadOnly"]
  /\ Leave
  /\ UNCHANGED <<chain, recover>>

-----------------------------------------------------------------------------
\* The pure conversions.
Converts(result) ==
  /\ out' = result
  /\ stage' = "left"
  /\ UNCHANGED <<env, config, signer, served, minted, mode, error, chain, recover>>

ParsesKey(text) ==
  Converts([op |-> "key", text |-> text, result |-> parse(text)])

ParsesScopes(text) ==
  Converts([op |-> "scopes", text |-> text, result |-> from_text(text)])

ParsesAmount(text, decimals) ==
  Converts([op |-> "amount", text |-> text, decimals |-> decimals,
            result |-> parse_amount(text, decimals)])

FormatsAmount(plancks, decimals) ==
  Converts([op |-> "format", plancks |-> plancks, decimals |-> decimals,
            result |-> format_amount(plancks, decimals)])

TakesOneToken(ed, declared) ==
  \E one \in one_token(decimals_effective(ed, declared)) :
    Converts([op |-> "one", decimals |-> decimals_effective(ed, declared), result |-> one])

-----------------------------------------------------------------------------
Decimals == {decimals_effective(ed, d) : ed \in Deposits, d \in Declared}

Convert ==
  /\ stage = "start" /\ env = NoEnv
  /\ \/ \E text \in KeyTexts : ParsesKey(text)
     \/ \E text \in ScopeTexts : ParsesScopes(text)
     \/ \E text \in AmountTexts, d \in Decimals : ParsesAmount(text, d)
     \/ \E n \in 0..U128Max, d \in Decimals : FormatsAmount(n, d)
     \/ \E ed \in Deposits, d \in Declared : TakesOneToken(ed, d)

Next ==
  \/ ConnectNext /\ UNCHANGED <<chain, recover, out>>
  \/ \E c \in FACADE \cup RAW : Tx(c)
  \/ \E tag \in Tag : StartsRecover(tag)
  \/ RecoverReadOnly
  \/ RecoverNext /\ UNCHANGED <<conn, out>>
  \/ ChainNext /\ UNCHANGED <<conn, out>>
  \/ Convert

Spec == Init /\ [][Next]_vars

\* Every request of the client is answered, or fails, and it takes its own steps;
\* nothing obliges an application to connect or use a client, or the chain to move.
FairSpec ==
  /\ Spec
  /\ WF_vars((Dial \/ ReadProperties \/ EnforceNetworkGuards \/ Resolve)
               /\ UNCHANGED <<chain, recover, out>>)
  /\ WF_vars(RecoverStep /\ UNCHANGED <<conn, out>>)

-----------------------------------------------------------------------------
(***************************************************************************)
(* Properties.                                                             *)
(***************************************************************************)
Stage == {"start", "dial", "properties", "guards", "resolve", "ready", "failed", "left"}

\* Every variable keeps its type; a connected client acts as itself or for the
\* member, with scopes the runtime defines.
TypeOK ==
  /\ stage \in Stage /\ served \in DOMAIN Properties
  /\ env \in Env \cup {NoEnv}
  /\ config \in [network : Network, rpc_url : BOOLEAN, confirm_mainnet : BOOLEAN]
  /\ mode.kind = "Direct" => mode = Direct
  /\ mode.kind = "Delegated" => mode.principal = "member" /\ is_valid(mode.scopes)
  /\ step \in {"idle", "payload", "epoch", "aad", "dkg", "threshold", "committee",
               "registry", "commitments", "head", "decrypt", "done"}
  /\ changes \in 0..MaxChanges /\ Len(blocks) <= MaxPending + 2
  /\ rec.committee \cup rec.unread \cup rec.commitments \subseteq Member

\* A client that can sign comes into being on mainnet only with a confirmation,
\* whatever network was configured and whatever the URL turned out to serve;
\* a testnet configuration never reaches mainnet, and the chain is not asked
\* about the key before that is settled.
NoUnconfirmedMainnet ==
  (stage \in {"resolve", "ready"} \/ (stage = "failed" /\ mode # Direct))
     /\ served = "mainnet" =>
    /\ config.network # "Testnet"
    /\ signer # NoAccount => config.confirm_mainnet \/ env.confirm = "yes"

\* A client from the environment signs with the first variable that holds a key:
\* a malformed MATTER_API_KEY is reported, never skipped in favour of the seed,
\* and a client that never got a key is read-only.
SignsAsConfigured ==
  LET first == IF trim(env.api_key) # <<>> THEN env.api_key ELSE env.seed
  IN  stage = "dial" /\ signer # Hsm =>
        IF trim(first) = <<>> THEN signer = NoAccount
        ELSE parse(first).ok /\ signer = parse(first).account

\* Parsing a key text accepts what the upstream grammar accepts, after the scheme
\* and but for the missing phrase, and derives from the same parts: put together
\* again they spell the text.  A password with a newline in it, which only the
\* upstream grammar refuses, is left out.
KeyTextIsUpstreams ==
  out.op = "key" =>
    LET body == split_scheme(trim(out.text)).body
        uri  == split(body)
    IN  /\ "\n" \notin ToSet(body) => (uri.ok <=> Upstream(body))
        /\ uri.ok => Spelled(uri) = body
        /\ out.result.ok =>
             /\ out.result.account.junctions = uri.junctions
             /\ out.result.account.password \in {uri.password, NoPassword}
             /\ \A k \in DOMAIN uri.junctions :
                  /\ uri.junctions[k] \notin {<<>>, <<"/">>}
                  /\ "/" \notin ToSet(Tail(uri.junctions[k]))
        /\ uri.ok /\ (is_mnemonic(uri.phrase) \/ uri.phrase = <<"0">>) => out.result.ok

\* The scopes a delegated client checks against are those of the text the member
\* minted the key with, through parsing, the bits on the wire and back; a text
\* that parses is unchanged in meaning when it is shown and parsed again.
GrantSurvivesTheWire ==
  LET named(text, s, a) ==
        \E i \in DOMAIN text : text[i].name = s /\ a \in ToSet(text[i].letters)
      meant(text, set) ==
        \A s \in Scope, a \in Access : contains(set, s, a) <=> named(text, s, a)
  IN  /\ stage = "ready" /\ minted.granted => meant(minted.text, mode.scopes)
      /\ out.op = "scopes" /\ out.result.ok =>
           /\ meant(out.text, out.result.set) /\ is_valid(out.result.set)
           /\ from_text(to_text(out.result.set)) = out.result

-----------------------------------------------------------------------------
\* What the runtime requires: nothing admits a call of another pallet or on the
\* never list; any other call takes the write half of its group, and a
\* deployment that names a secret also the read half of secrets.
Group(c) ==
  IF c.pallet = "Jobs"
    THEN IF c.call \in {"register_wg_peer", "remove_wg_peer"} THEN "networking"
                                                             ELSE "deployments"
  ELSE [Collaborations |-> "collaborations", Secrets |-> "secrets",
        Volumes |-> "volumes", Datasets |-> "datasets",
        OverlayNetworks |-> "networking", Resources |-> "resources",
        Organizations |-> "organization", Budgets |-> "billing",
        Communities |-> "communities"][c.pallet]

RuntimeRequires(c, secret) ==
  write(Group(c)) \cup (IF secret THEN single("secrets", "r") ELSE EMPTY)

Admissible(c) == c.pallet \in SCOPED_PALLETS /\ c.call \notin NEVER_ADMITTED[c.pallet]

\* Whether the runtime sees a secret in the call: known where both references are
\* there to be read, else either.
SeesSecret(c) ==
  IF c.pallet # "Jobs" THEN {FALSE}
  ELSE IF c.call = "set_deployment_secret_ref"
    THEN IF Len(c.args) = 2 THEN {c.args[2] = option("Some")} ELSE BOOLEAN
  ELSE IF c.call = "request_deployment"
    THEN IF c.args # <<>> /\ Cardinality(DOMAIN c.args[1].fields) = 2
           THEN {\E f \in DOMAIN c.args[1].fields : c.args[1].fields[f] = option("Some")}
           ELSE BOOLEAN
  ELSE {FALSE}

\* The local check stands in for the runtime's: a call goes out inside the proxy
\* only if the runtime would admit it under the scopes held, whatever it makes
\* of arguments the client cannot read, and a call is refused only if the
\* runtime might refuse it too.  MATTER_PRINCIPAL switches only the scopes off.
LocalCheckAgrees ==
  out.op = "tx" =>
    LET covered(secret) == RuntimeRequires(out.call, secret) \subseteq out.mode.scopes
        sees == SeesSecret(out.call)
    IN  /\ out.result = "proxied" =>
             /\ out.mode.kind = "Delegated" /\ Admissible(out.call)
             /\ out.overridden \/ \A secret \in sees : covered(secret)
        /\ out.result = "NeverAdmitted" => ~Admissible(out.call)
        /\ out.result = "NotPermitted" =>
             Admissible(out.call) /\ \E secret \in sees : ~covered(secret)
        /\ out.result = "sent" => out.mode = Direct

-----------------------------------------------------------------------------
\* An amount that parses is exactly the one written, and every well-formed
\* amount in range parses, zero included.  A formatted amount is exactly the
\* plancks whatever the decimals, and parses back to them up to MAX_DECIMALS;
\* a chain with more decimals shows amounts that parse_amount refuses, though
\* amount.rs:77 says they parse.  One token is the amount "1" up to MAX_DECIMALS;
\* beyond, where it may panic or wrap, nothing is said of it.
AmountsAreExact ==
  LET exact(t, d, v) ==
        v * pow10(Len(t.fraction)) = number(t.whole \o t.fraction) * pow10(d)
      one(d) == parse_amount(Text("", <<1>>, FALSE, <<>>, FALSE), d)
  IN  /\ out.op = "amount" =>
           LET t == out.text
               fits == number(t.whole \o t.fraction) * pow10(out.decimals)
                         <= U128Max * pow10(Len(t.fraction))
           IN  /\ out.result.ok => well_formed(t) /\ out.result.value <= U128Max
                                     /\ exact(t, out.decimals, out.result.value)
               /\ ~out.result.ok =>
                    \/ ~well_formed(t) \/ ~fits
                    \/ out.decimals > MAX_DECIMALS \/ Len(t.fraction) > out.decimals
      /\ out.op = "format" =>
           /\ well_formed(out.result) /\ exact(out.result, out.decimals, out.plancks)
           /\ parse_amount(out.result, out.decimals) =
                IF out.decimals <= MAX_DECIMALS THEN Ok(out.plancks) ELSE bad_amount
      /\ out.op = "one" /\ out.decimals <= MAX_DECIMALS =>
           one(out.decimals).ok /\ out.result = one(out.decimals)

-----------------------------------------------------------------------------
\* A client that starts to connect connects or says why not, and a recover, read
\* after read, ends.
SessionEnds ==
  /\ (stage = "dial") ~> (stage \in {"ready", "failed", "left"})
  /\ (step = "payload") ~> (step = "done")
=============================================================================
