---------------------------- MODULE DelegatedTx ----------------------------
(***************************************************************************)
(* `MatterClient::tx` of a key that may act for a member                   *)
(* (crates/matter-sdk/src/chain/mod.rs, mode.rs).  Several calls share one *)
(* client and its cached Mode: each checks the call against the cached     *)
(* scopes, wraps it in proxy.proxy, submits, waits for finality and, when  *)
(* it is refused, re-reads the grant from the chain to say why and updates *)
(* the cache.  No lock is held while the chain is asked.                   *)
(*                                                                         *)
(* A call is identified with the scopes it requires; a call no scoped key  *)
(* may make is Never.  The chain is external: the member re-scopes,        *)
(* revokes and grants again, funds come and go.                            *)
(***************************************************************************)
EXTENDS Integers, FiniteSets

CONSTANTS
  Tx,         \* the concurrent calls of one client
  Scope,      \* the scopes a key can hold
  Need,       \* the scope sets the calls require
  Principal,  \* the member the key acts for
  Stranger,   \* another member
  Nobody,     \* the chain knows no member for the key
  MaxMoves    \* bound: how often the grant and the funds change

ASSUME DelegatedTxAssumption ==
  /\ Need \subseteq SUBSET Scope
  /\ Principal # Stranger /\ Nobody \notin {Principal, Stranger} \cup Scope
  /\ MaxMoves \in Nat

Scopes == SUBSET Scope
Never == {Nobody}   \* needs what is no scope
Member == {Principal, Stranger}

VARIABLES
  mode,        \* the client's cached Mode
  pc,          \* where each call is
  required,    \* what the call requires
  built,       \* the mode the payload was built under
  previous,    \* the mode refresh_delegation compares against
  fresh,       \* what the chain answered to the refresh
  reason,      \* why the refresh runs: "pool" or "outer"
  result,      \* how the call ended
  held,        \* the scopes a NotPermitted error names
  pointer,     \* chain: the member BudgetsApi_agent_key names for the key
  granted,     \* chain: the scopes of the grant
  proxied,     \* chain: does the key's proxy on Principal stand?
  sponsored,   \* chain: can somebody pay the fee?
  moves,       \* chain: changes so far
  inPool,      \* chain: submitted calls not yet in a block
  stale,       \* chain: calls whose nonce was used since they read it
  executed,    \* chain: what a finalized call did
  everGranted, \* history: every scope set Principal granted
  everGone     \* history: has the key's pointer ever left Principal?

calls   == <<pc, required, built, previous, fresh, reason, result, held>>
grant   == <<pointer, granted, proxied, sponsored, moves, everGranted, everGone>>
ledger  == <<inPool, stale, executed>>
vars    == <<mode, calls, grant, ledger>>

Direct == [kind |-> "Direct", principal |-> Nobody, scopes |-> {}]
Delegated(p, s) == [kind |-> "Delegated", principal |-> p, scopes |-> s]
Mode == {Direct} \cup {Delegated(p, s) : p \in Member, s \in Scopes}

NoGrant == [principal |-> Nobody, scopes |-> {}]
Grant == {NoGrant} \cup [principal : Member, scopes : Scopes]

Result == {"none", "Ok", "NeverAdmitted", "NotPermitted", "Signer", "Chain",
           "KeyRevoked", "Unsponsored", "Dispatch", "FinalityTimeout"}
Execution == {"none", "ok", "inner", "notProxy", "outer"}

TypeOK ==
  /\ mode \in Mode
  /\ pc \in [Tx -> {"idle", "built", "ready", "watch", "lookup", "compare", "done"}]
  /\ required \in [Tx -> Need \cup {Never}]
  /\ built \in [Tx -> Mode]
  /\ previous \in [Tx -> Mode]
  /\ fresh \in [Tx -> Grant]
  /\ reason \in [Tx -> {"pool", "outer"}]
  /\ result \in [Tx -> Result]
  /\ held \in [Tx -> Scopes]
  /\ pointer \in Member \cup {Nobody}
  /\ granted \in Scopes
  /\ proxied \in BOOLEAN
  /\ sponsored \in BOOLEAN
  /\ moves \in 0..MaxMoves
  /\ inPool \subseteq Tx
  /\ stale \subseteq Tx
  /\ executed \in [Tx -> Execution]
  /\ everGranted \subseteq Scopes
  /\ everGone \in BOOLEAN

-----------------------------------------------------------------------------
(***************************************************************************)
(* The chain (external).                                                   *)
(***************************************************************************)
Lookup == IF pointer = Nobody THEN NoGrant
          ELSE [principal |-> pointer, scopes |-> granted]

Moves ==
  /\ moves < MaxMoves
  /\ moves' = moves + 1
  /\ UNCHANGED <<mode, calls, ledger>>

Rescope(s) ==
  /\ pointer = Principal
  /\ s # granted
  /\ granted' = s
  /\ everGranted' = everGranted \cup {s}
  /\ Moves
  /\ UNCHANGED <<pointer, proxied, sponsored, everGone>>

Revoke ==
  /\ pointer = Principal
  /\ pointer' = Nobody
  /\ proxied' = FALSE
  /\ everGone' = TRUE
  /\ Moves
  /\ UNCHANGED <<granted, sponsored, everGranted>>

\* Principal grants the key again, or another member takes it over.
Authorize(m, s) ==
  /\ pointer = Nobody
  /\ pointer' = m
  /\ granted' = s
  /\ proxied' = (m = Principal)
  /\ everGranted' = IF m = Principal THEN everGranted \cup {s} ELSE everGranted
  /\ everGone' = (everGone \/ m # Principal)
  /\ Moves
  /\ UNCHANGED sponsored

Fund ==
  /\ sponsored' = ~sponsored
  /\ Moves
  /\ UNCHANGED <<pointer, granted, proxied, everGranted, everGone>>

ChainMoves ==
  \/ \E s \in Scopes : Rescope(s)
  \/ Revoke
  \/ \E m \in Member, s \in Scopes : Authorize(m, s)
  \/ Fund

Wrapped(t) == built[t].kind = "Delegated"

\* The key's proxy on Principal stands and its scopes cover the call.
Covered(t) == proxied /\ required[t] \subseteq granted

\* The pool admits a call whose fee is covered: a wrapped call's only while the
\* proxy stands and its scopes cover the call.  All else is error code 1010.
Admitted(t) ==
  /\ t \notin stale
  /\ sponsored
  /\ Wrapped(t) => Covered(t)

\* A call of the same nonce is waiting already: error code 1014.
NonceTaken(t) == inPool # {}

\* A block takes the call: it uses the nonce the prepared calls have read.
Include(t) ==
  /\ t \in inPool
  /\ inPool' = inPool \ {t}
  /\ stale' = stale \cup {u \in Tx : pc[u] = "ready"}
  /\ \E e \in IF ~Wrapped(t) THEN {"ok", "outer"}
              ELSE IF ~proxied THEN {"notProxy"}
              ELSE IF ~(required[t] \subseteq granted) THEN {"inner"}
              ELSE {"ok", "inner", "outer"} :
       executed' = [executed EXCEPT ![t] = e]
  /\ UNCHANGED <<mode, calls, grant>>

-----------------------------------------------------------------------------
(***************************************************************************)
(* The client.                                                             *)
(***************************************************************************)
decide(lookup) ==
  IF lookup = NoGrant THEN Direct ELSE Delegated(lookup.principal, lookup.scopes)

Init ==
  /\ pointer \in {Principal, Nobody}
  /\ proxied = (pointer = Principal)
  /\ granted \in Scopes
  /\ everGranted = IF pointer = Principal THEN {granted} ELSE {}
  /\ everGone = FALSE
  /\ sponsored \in BOOLEAN
  /\ moves = 0
  /\ mode = decide(Lookup)
  /\ pc = [t \in Tx |-> "idle"]
  /\ required \in [Tx -> Need \cup {Never}]
  /\ built = [t \in Tx |-> mode]
  /\ previous = [t \in Tx |-> mode]
  /\ fresh = [t \in Tx |-> NoGrant]
  /\ reason = [t \in Tx |-> "pool"]
  /\ result = [t \in Tx |-> "none"]
  /\ held = [t \in Tx |-> {}]
  /\ inPool = {}
  /\ stale = {}
  /\ executed = [t \in Tx |-> "none"]

Ends(t, r) ==
  /\ pc' = [pc EXCEPT ![t] = "done"]
  /\ result' = [result EXCEPT ![t] = r]

GoesTo(t, place) == pc' = [pc EXCEPT ![t] = place]

BuildPayload(t) ==
  /\ pc[t] = "idle"
  /\ built' = [built EXCEPT ![t] = mode]
  /\ \/ /\ mode.kind = "Direct"
        /\ GoesTo(t, "built")
        /\ UNCHANGED <<result, held>>
     \/ /\ mode.kind = "Delegated" /\ required[t] = Never
        /\ Ends(t, "NeverAdmitted")
        /\ UNCHANGED held
     \/ /\ mode.kind = "Delegated" /\ required[t] # Never
        /\ ~(required[t] \subseteq mode.scopes)
        /\ Ends(t, "NotPermitted")
        /\ held' = [held EXCEPT ![t] = mode.scopes]
     \/ /\ mode.kind = "Delegated" /\ required[t] # Never
        /\ required[t] \subseteq mode.scopes
        /\ GoesTo(t, "built")
        /\ UNCHANGED <<result, held>>
  /\ UNCHANGED <<mode, required, previous, fresh, reason, grant, ledger>>

\* create_partial reads the nonce from the chain; the signer may refuse.
Prepare(t) ==
  /\ pc[t] = "built"
  /\ \/ /\ GoesTo(t, "ready")
        /\ UNCHANGED result
     \/ \E r \in {"Chain", "Signer"} : Ends(t, r)
  /\ stale' = stale \ {t}
  /\ UNCHANGED <<mode, required, built, previous, fresh, reason, held, grant,
                 inPool, executed>>

\* submission_error and outer_dispatch_error re-read the mode, then the grant.
StartRefresh(t, why) ==
  /\ GoesTo(t, "lookup")
  /\ previous' = [previous EXCEPT ![t] = mode]
  /\ reason' = [reason EXCEPT ![t] = why]
  /\ UNCHANGED result

SubmitAccepted(t) ==
  /\ pc[t] = "ready"
  /\ Admitted(t) /\ ~NonceTaken(t)
  /\ inPool' = inPool \cup {t}
  /\ GoesTo(t, "watch")
  /\ UNCHANGED <<mode, required, built, previous, fresh, reason, result, held,
                 grant, stale, executed>>

\* Mutant: every failure of the submission counts as the pool's refusal.
is_pool_rejection_Any(code) == TRUE

is_pool_rejection(code) == code = "1010"

SubmitRefused(t) ==
  /\ pc[t] = "ready"
  /\ \E code \in (IF ~Admitted(t) THEN {"1010"} ELSE {})
                   \cup (IF NonceTaken(t) THEN {"1014"} ELSE {}) :
       \/ /\ mode.kind = "Delegated" /\ is_pool_rejection(code)
          /\ StartRefresh(t, "pool")
       \/ /\ mode.kind = "Direct" \/ ~is_pool_rejection(code)
          /\ Ends(t, "Chain")
          /\ UNCHANGED <<previous, reason>>
  /\ UNCHANGED <<mode, required, built, fresh, held, grant, ledger>>

\* The connection or the timer gives out while the submission is on its way:
\* the pool may or may not have taken the call.
SubmitLost(t) ==
  /\ pc[t] = "ready"
  /\ \/ inPool' = inPool
     \/ Admitted(t) /\ ~NonceTaken(t) /\ inPool' = inPool \cup {t}
  /\ \/ /\ mode.kind = "Delegated" /\ is_pool_rejection("transport")
        /\ StartRefresh(t, "pool")
     \/ /\ mode.kind = "Direct" \/ ~is_pool_rejection("transport")
        /\ Ends(t, "Chain")
        /\ UNCHANGED <<previous, reason>>
     \/ /\ Ends(t, "FinalityTimeout")
        /\ UNCHANGED <<previous, reason>>
  /\ UNCHANGED <<mode, required, built, fresh, held, grant, stale, executed>>

\* Mutant: no timer around the wait.
TimesOut_Never(t) == FALSE

\* finality_timeout covers the submission, its classification and the wait.
TimesOut(t) ==
  /\ \/ pc[t] = "watch"
     \/ pc[t] \in {"lookup", "compare"} /\ reason[t] = "pool"
  /\ Ends(t, "FinalityTimeout")
  /\ UNCHANGED <<mode, required, built, previous, fresh, reason, held, grant, ledger>>

\* Mutant: ProxyExecuted is not read.
inner_dispatch_error_Ignored(t) == FALSE

inner_dispatch_error(t) == executed[t] = "inner"

Finalized(t) ==
  /\ pc[t] = "watch"
  /\ executed[t] # "none"
  /\ \/ /\ executed[t] = "notProxy"
        /\ StartRefresh(t, "outer")
     \/ /\ executed[t] = "outer"
        /\ Ends(t, "Chain")
        /\ UNCHANGED <<previous, reason>>
     \/ /\ executed[t] \in {"ok", "inner"}
        /\ Ends(t, IF mode.kind = "Delegated" /\ inner_dispatch_error(t)
                     THEN "Dispatch" ELSE "Ok")
        /\ UNCHANGED <<previous, reason>>
  /\ UNCHANGED <<mode, required, built, fresh, held, grant, ledger>>

\* The subscription or the fetch of the block's events fails.
WatchFails(t) ==
  /\ pc[t] = "watch"
  /\ Ends(t, "Chain")
  /\ UNCHANGED <<mode, required, built, previous, fresh, reason, held, grant, ledger>>

LookupAnswers(t) ==
  /\ pc[t] = "lookup"
  /\ fresh' = [fresh EXCEPT ![t] = Lookup]
  /\ GoesTo(t, "compare")
  /\ UNCHANGED <<mode, required, built, previous, reason, result, held, grant, ledger>>

LookupFails(t) ==
  /\ pc[t] = "lookup"
  /\ Ends(t, "Chain")
  /\ UNCHANGED <<mode, required, built, previous, fresh, reason, held, grant, ledger>>

\* Mutant: the refreshed grant's member is not compared.
after_refresh_AnyMember(prev, new) ==
  IF prev.kind = "Direct" THEN "Unchanged"
  ELSE IF new = NoGrant THEN "Gone"
  ELSE IF new.scopes = prev.scopes THEN "Unchanged"
  ELSE "Rescoped"

\* Mutant: any change of the grant counts as a revocation.
after_refresh_Strict(prev, new) ==
  IF prev.kind = "Direct" THEN "Unchanged"
  ELSE IF new = NoGrant \/ new.principal # prev.principal \/ new.scopes # prev.scopes
  THEN "Gone" ELSE "Unchanged"

after_refresh(prev, new) ==
  IF prev.kind = "Direct" THEN "Unchanged"
  ELSE IF new = NoGrant \/ new.principal # prev.principal THEN "Gone"
  ELSE IF new.scopes = prev.scopes THEN "Unchanged"
  ELSE "Rescoped"

\* Mutant: the call is not checked again against the fresh scopes.
submission_error_NoRecheck(t, refresh) ==
  IF refresh = "Gone" THEN "KeyRevoked" ELSE "Unsponsored"

\* Mutant: any re-scoping is reported as the call's missing scope.
submission_error_Rescoped(t, refresh) ==
  IF refresh = "Gone" THEN "KeyRevoked"
  ELSE IF refresh = "Rescoped" THEN "NotPermitted"
  ELSE "Unsponsored"

\* What a refused submission is reported as.
submission_error(t, refresh) ==
  IF refresh = "Gone" THEN "KeyRevoked"
  ELSE IF refresh = "Rescoped" /\ ~(required[t] \subseteq fresh[t].scopes)
  THEN "NotPermitted"
  ELSE "Unsponsored"

outer_dispatch_error(refresh) == IF refresh = "Gone" THEN "KeyRevoked" ELSE "Chain"

\* Mutant: the cache takes the chain's answer as it is.
Compare_TakesAnswer(t) ==
  /\ pc[t] = "compare"
  /\ mode.kind = "Delegated"
  /\ mode' = Delegated(fresh[t].principal, fresh[t].scopes)
  /\ Ends(t, "Unsponsored")
  /\ UNCHANGED <<required, built, previous, fresh, reason, held, grant, ledger>>

\* Mutant: a revoked key falls back to Direct.
Compare_FallsBack(t) ==
  /\ pc[t] = "compare"
  /\ after_refresh(previous[t], fresh[t]) = "Gone"
  /\ mode' = Direct
  /\ Ends(t, "KeyRevoked")
  /\ UNCHANGED <<required, built, previous, fresh, reason, held, grant, ledger>>

Compare(t) ==
  /\ pc[t] = "compare"
  /\ LET refresh == after_refresh(previous[t], fresh[t])
         verdict == IF reason[t] = "pool" THEN submission_error(t, refresh)
                    ELSE outer_dispatch_error(refresh)
     IN /\ mode' = IF refresh = "Rescoped"
                   THEN Delegated(previous[t].principal, fresh[t].scopes)
                   ELSE mode
        /\ Ends(t, verdict)
        /\ held' = [held EXCEPT ![t] = IF verdict = "NotPermitted"
                                       THEN fresh[t].scopes ELSE @]
  /\ UNCHANGED <<required, built, previous, fresh, reason, grant, ledger>>

\* The application makes a call it was refused again.
Retry(t) ==
  /\ result[t] = "NotPermitted"
  /\ GoesTo(t, "idle")
  /\ result' = [result EXCEPT ![t] = "none"]
  /\ UNCHANGED <<mode, required, built, previous, fresh, reason, held, grant, ledger>>

\* What the client does next in call t, however the chain answers.
Step(t) ==
  \/ BuildPayload(t) \/ Prepare(t)
  \/ SubmitAccepted(t) \/ SubmitRefused(t) \/ SubmitLost(t)
  \/ Finalized(t) \/ WatchFails(t) \/ TimesOut(t)
  \/ LookupAnswers(t) \/ LookupFails(t) \/ Compare(t)

Next ==
  \/ \E t \in Tx : Step(t) \/ Retry(t) \/ Include(t)
  \/ ChainMoves

Spec == Init /\ [][Next]_vars

\* Local steps are taken, requests are answered or fail, the finality timer
\* fires, the application retries.  The chain need not include anything.
Fairness ==
  \A t \in Tx :
    /\ WF_vars(BuildPayload(t) \/ Prepare(t) \/ Compare(t))
    /\ WF_vars(SubmitAccepted(t) \/ SubmitRefused(t) \/ SubmitLost(t))
    /\ WF_vars(LookupAnswers(t) \/ LookupFails(t))
    /\ WF_vars(TimesOut(t))
    /\ WF_vars(Retry(t))

FairSpec == Spec /\ Fairness

-----------------------------------------------------------------------------
(***************************************************************************)
(* Properties.                                                             *)
(***************************************************************************)

\* A key that was delegated at connect stays delegated and acts for the same
\* member, whatever refusals and refreshes follow: "Gone must not fall back to
\* Mode::Direct" (mode.rs, after_refresh).
ModeNeverFalls ==
  [][mode'.kind = mode.kind /\ mode'.principal = mode.principal]_vars

\* The scopes the client checks calls against were at some time granted to the
\* key by the member it acts for, never those another member gave it: concurrent
\* refreshes may leave an old grant in the cache but not a foreign one.
CachedScopesWereGranted ==
  mode.kind = "Delegated" => mode.principal = Principal /\ mode.scopes \in everGranted

\* A call reported as refused did not and will not take effect: it is neither
\* waiting in the pool nor applied, so making it again is safe.
RefusalHasNoEffect ==
  \A t \in Tx :
    result[t] \in {"NeverAdmitted", "NotPermitted", "KeyRevoked", "Unsponsored",
                   "Dispatch", "Signer"}
      => t \notin inPool /\ executed[t] # "ok"

\* KeyRevoked is permanent news ("mint a new key"), so it is never said of a key
\* whose grant stood all along, whatever the pool answered.
KeyRevokedIsTrue == \A t \in Tx : result[t] = "KeyRevoked" => everGone

\* A NotPermitted error names scopes the key did hold at some time, and those
\* lack something the call requires.
NotPermittedNamesMissing ==
  \A t \in Tx : result[t] = "NotPermitted" =>
    held[t] \in everGranted /\ ~(required[t] \subseteq held[t])

\* Unsponsored ("the call is in scope, but nobody can pay") is not said of a call
\* the chain has just called out of scope, provided no other call refreshed the
\* cache after this one was checked against it.
UnsponsoredInScope ==
  \A t \in Tx : result[t] = "Unsponsored" /\ previous[t] = built[t]
                  => required[t] \subseteq fresh[t].scopes

\* What became of call t on chain, and what the application was told of it.
Fate(t) ==
  IF executed[t] = "none" THEN IF t \in inPool THEN "pending" ELSE "unsent"
  ELSE IF executed[t] = "ok" THEN "ok" ELSE "failed"

Told(t) ==
  IF result[t] \in {"none", "Ok"} THEN result[t]
  ELSE IF result[t] = "Dispatch" THEN "Failed"
  ELSE IF result[t] \in {"Chain", "FinalityTimeout"} THEN "Unknown" ELSE "Refused"

Promise(t) == INSTANCE SubmittedCall WITH fate <- Fate(t), answer <- Told(t)

\* tx implements SubmittedCall for each of its concurrent calls: a receipt is for
\* a call that is final and whose wrapped call succeeded, though proxy.proxy
\* succeeds when the wrapped call fails; a refusal is final; and a call is made
\* again only when it was never sent.
CallsKeepTheirPromise ==
  /\ \A t \in Tx : Promise(t)!Init
  /\ [][\A t \in Tx : [Promise(t)!Next]_(Promise(t)!vars)]_vars

\* Every call ends: the finality timer covers what no answer ends.
CallEnds == \A t \in Tx : pc[t] # "idle" ~> pc[t] = "done"

\* docs/errors.md:27: Unsponsored means "the call is in scope, but nobody can pay
\* the fee".
UnsponsoredMeansInScope ==
  \A t \in Tx : result[t] = "Unsponsored" => required[t] \subseteq fresh[t].scopes
=============================================================================
