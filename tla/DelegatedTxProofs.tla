-------------------------- MODULE DelegatedTxProofs --------------------------
(***************************************************************************)
(* Theorems about concurrent calls of one client, for any number of calls, *)
(* any scopes and any number of changes of the grant.                      *)
(*                                                                         *)
(* Delegation relates what the client holds (the cached mode, and the      *)
(* modes and grants its calls in flight have read) to what the chain       *)
(* granted.  Effects relates where a call is to what it did on chain.      *)
(***************************************************************************)
EXTENDS DelegatedTx, TLAPS

\* A call's modes are of the client's kind, and no refresh runs without a grant.
OneKind ==
  \A t \in Tx :
    /\ built[t].kind = mode.kind /\ previous[t].kind = mode.kind
    /\ pc[t] \in {"lookup", "compare"} => mode.kind = "Delegated"

\* The client acts for no other member, and has only scopes Principal granted.
ActsForPrincipal ==
  mode.kind = "Delegated" =>
    /\ mode.principal = Principal /\ mode.scopes \in everGranted
    /\ \A t \in Tx : built[t].principal = Principal /\ previous[t].principal = Principal

\* What the chain says of the key, now and when it last answered a refresh.
GrantOnRecord ==
  /\ pointer = Principal => granted \in everGranted
  /\ mode.kind = "Delegated" /\ pointer # Principal => everGone
  /\ \A t \in Tx : pc[t] = "compare" =>
       /\ fresh[t].principal = Principal => fresh[t].scopes \in everGranted
       /\ fresh[t].principal # Principal => everGone

\* A wrapped call under way passed the check against the mode it was built for.
CheckedWhenBuilt ==
  \A t \in Tx :
    pc[t] \in {"built", "ready", "watch", "lookup", "compare"} /\ Wrapped(t)
      => required[t] \subseteq built[t].scopes

Delegation ==
  /\ TypeOK
  /\ OneKind
  /\ ActsForPrincipal
  /\ GrantOnRecord
  /\ CheckedWhenBuilt

\* A call not yet submitted, refused by the pool, or given up before it was
\* submitted.
Untouched(t) ==
  \/ pc[t] \in {"idle", "built", "ready"}
  \/ pc[t] \in {"lookup", "compare"} /\ reason[t] = "pool"
  \/ pc[t] = "done" /\ result[t] \in {"NeverAdmitted", "NotPermitted", "Signer",
                                      "Unsponsored"}

EffectsOf(t) ==
  /\ Untouched(t) => t \notin inPool /\ executed[t] = "none"
  /\ executed[t] # "none" => t \notin inPool
  /\ pc[t] \in {"lookup", "compare"} /\ reason[t] = "outer" => executed[t] = "notProxy"
  /\ executed[t] \in {"inner", "notProxy"} => Wrapped(t)
  /\ result[t] = "Ok" => executed[t] = "ok"
  /\ result[t] = "Dispatch" => executed[t] = "inner"
  /\ result[t] = "KeyRevoked" => t \notin inPool /\ executed[t] \in {"none", "notProxy"}
  /\ result[t] # "none" <=> pc[t] = "done"

Effects == \A t \in Tx : EffectsOf(t)

-----------------------------------------------------------------------------
\* The cached Mode, the calls and the grant keep their types whatever the chain
\* answers, and however many calls refresh the cache at once.
THEOREM TypeCorrect == Spec => []TypeOK
<1>1. Init => TypeOK
  <2> SUFFICES ASSUME Init PROVE TypeOK
    OBVIOUS
  <2>1. Lookup \in Grant
    BY DEF Init, Lookup, Grant, NoGrant, Member, Scopes
  <2>2. mode \in Mode
    BY <2>1 DEF Init, decide, Mode, Grant, NoGrant, Direct, Delegated
  <2>3. everGranted \subseteq Scopes
    BY DEF Init
  <2>4. NoGrant \in Grant /\ "none" \in Result /\ "none" \in Execution /\ {} \in Scopes
    BY DEF Grant, Result, Execution, Scopes
  <2>5. pointer \in Member \cup {Nobody} /\ proxied \in BOOLEAN /\ moves \in 0..MaxMoves
    BY DelegatedTxAssumption DEF Init, Member
  <2> QED
    BY <2>2, <2>3, <2>4, <2>5 DEF Init, TypeOK
<1>2. TypeOK /\ [Next]_vars => TypeOK'
  <2> SUFFICES ASSUME TypeOK, [Next]_vars PROVE TypeOK'
    OBVIOUS
  <2> USE DelegatedTxAssumption DEF TypeOK
  <2>1. CASE ChainMoves
    <3>1. moves' \in 0..MaxMoves /\ UNCHANGED <<mode, calls, ledger>>
      BY <2>1 DEF ChainMoves, Moves, Rescope, Revoke, Authorize, Fund
    <3>2. CASE \E s \in Scopes : Rescope(s)
      BY <3>1, <3>2 DEF Rescope, calls, ledger
    <3>3. CASE Revoke
      BY <3>1, <3>3 DEF Revoke, calls, ledger
    <3>4. ASSUME NEW m \in Member, NEW s \in Scopes, Authorize(m, s) PROVE TypeOK'
      <4>1. (m = Principal) \in BOOLEAN /\ (everGone \/ m # Principal) \in BOOLEAN
        OBVIOUS
      <4> QED
        BY <3>1, <3>4, <4>1 DEF Authorize, calls, ledger
    <3>5. CASE Fund
      BY <3>1, <3>5 DEF Fund, calls, ledger
    <3> QED
      BY <2>1, <3>2, <3>3, <3>4, <3>5 DEF ChainMoves
  <2>2. ASSUME NEW t \in Tx, Step(t) PROVE TypeOK'
    <3>1. CASE BuildPayload(t)
      BY <3>1 DEF BuildPayload, GoesTo, Ends, Result, Mode, Direct, Delegated, Scopes, grant, ledger
    <3>2. CASE Prepare(t)
      BY <3>2 DEF Prepare, GoesTo, Ends, Result, grant
    <3>3. CASE SubmitAccepted(t)
      BY <3>3 DEF SubmitAccepted, GoesTo, grant
    <3>4. CASE SubmitRefused(t)
      BY <3>4 DEF SubmitRefused, StartRefresh, GoesTo, Ends, Result, grant, ledger
    <3>5. CASE SubmitLost(t)
      BY <3>5 DEF SubmitLost, StartRefresh, GoesTo, Ends, Result, grant
    <3>6. CASE Finalized(t)
      BY <3>6 DEF Finalized, StartRefresh, GoesTo, Ends, Result, grant, ledger
    <3>7. CASE WatchFails(t) \/ TimesOut(t) \/ LookupFails(t)
      BY <3>7 DEF WatchFails, TimesOut, LookupFails, Ends, Result, grant, ledger
    <3>8. CASE LookupAnswers(t)
      BY <3>8 DEF LookupAnswers, GoesTo, Lookup, Grant, NoGrant, Member, Scopes, grant, ledger
    <3>9. CASE Compare(t)
      <4>1. fresh[t].scopes \in Scopes
        BY DEF Grant, NoGrant, Scopes
      <4>2. mode' \in Mode
        BY <3>9, <4>1 DEF Compare, after_refresh, Mode, Direct, Delegated
      <4>3. result' \in [Tx -> Result] /\ pc' \in [Tx -> {"idle", "built", "ready",
                                    "watch", "lookup", "compare", "done"}]
        BY <3>9 DEF Compare, Ends, submission_error, outer_dispatch_error, Result
      <4>4. held' \in [Tx -> Scopes]
        BY <3>9, <4>1 DEF Compare
      <4> QED
        BY <3>9, <4>2, <4>3, <4>4 DEF Compare, grant, ledger
    <3> QED
      BY <2>2, <3>1, <3>2, <3>3, <3>4, <3>5, <3>6, <3>7, <3>8, <3>9 DEF Step
  <2>3. ASSUME NEW t \in Tx, Retry(t) PROVE TypeOK'
    BY <2>3 DEF Retry, GoesTo, Result, grant, ledger
  <2>4. ASSUME NEW t \in Tx, Include(t) PROVE TypeOK'
    BY <2>4 DEF Include, Execution, calls, grant
  <2>5. CASE UNCHANGED vars
    BY <2>5 DEF vars, calls, grant, ledger
  <2> QED
    BY <2>1, <2>2, <2>3, <2>4, <2>5 DEF Next
<1> QED
  BY <1>1, <1>2, PTL DEF Spec

-----------------------------------------------------------------------------
(***************************************************************************)
(* What a step can do to the client's view, by who takes it.               *)
(***************************************************************************)

\* The chain's moves leave the client alone and record what they grant.
LEMMA ChainKeepsDelegation ==
  ASSUME Delegation, ChainMoves, TypeOK' PROVE Delegation'
<1> USE DelegatedTxAssumption DEF Delegation
<1>1. UNCHANGED <<mode, calls, ledger>>
  BY DEF ChainMoves, Moves, Rescope, Revoke, Authorize, Fund
<1>2. everGranted \subseteq everGranted' /\ (everGone => everGone')
  <2>1. everGranted \subseteq everGranted'
    BY SMT DEF ChainMoves, Rescope, Revoke, Authorize, Fund
  <2>2. everGone => everGone'
    BY Zenon DEF ChainMoves, Rescope, Revoke, Authorize, Fund
  <2> QED
    BY <2>1, <2>2
<1>3. OneKind' /\ CheckedWhenBuilt'
  BY <1>1 DEF OneKind, CheckedWhenBuilt, Wrapped, calls
<1>4. ActsForPrincipal'
  BY <1>1, <1>2 DEF ActsForPrincipal, calls
<1>5. /\ pointer' = Principal => granted' \in everGranted'
      /\ mode'.kind = "Delegated" /\ pointer' # Principal => everGone'
  BY <1>1 DEF ChainMoves, Rescope, Revoke, Authorize, Fund, GrantOnRecord
<1>6. GrantOnRecord'
  BY <1>1, <1>2, <1>5 DEF GrantOnRecord, calls
<1> QED
  BY <1>3, <1>4, <1>6

\* A step that builds no payload, asks nothing new of the chain and writes no
\* mode keeps what the client holds.
LEMMA OthersKeepDelegation ==
  ASSUME Delegation, TypeOK', NEW t \in Tx,
         UNCHANGED <<mode, required, built, previous, fresh, grant>>,
         \A u \in Tx : u # t => pc'[u] = pc[u],
         \/ pc'[t] \in {"idle", "done"}
         \/ pc'[t] \in {"ready", "watch"} /\ pc[t] \in {"built", "ready"}
  PROVE  Delegation'
<1> USE DEF Delegation
<1>1. OneKind'
  BY DEF OneKind
<1>2. ActsForPrincipal'
  BY DEF ActsForPrincipal, grant
<1>3. GrantOnRecord'
  BY DEF GrantOnRecord, grant
<1>4. CheckedWhenBuilt'
  BY DEF CheckedWhenBuilt, Wrapped
<1> QED
  BY <1>1, <1>2, <1>3, <1>4

\* A refresh starts only for a client that has a grant and takes its mode.
LEMMA RefreshKeepsDelegation ==
  ASSUME Delegation, TypeOK', NEW t \in Tx, NEW why, StartRefresh(t, why),
         UNCHANGED <<mode, required, built, fresh, grant>>,
         mode.kind = "Delegated", pc[t] \in {"ready", "watch"}
  PROVE  Delegation'
<1> USE DEF Delegation
<1>1. /\ pc' = [pc EXCEPT ![t] = "lookup"]
      /\ previous' = [previous EXCEPT ![t] = mode]
  BY DEF StartRefresh, GoesTo
<1>2. OneKind'
  BY <1>1 DEF OneKind, TypeOK
<1>3. ActsForPrincipal'
  BY <1>1 DEF ActsForPrincipal, grant, TypeOK
<1>4. GrantOnRecord'
  BY <1>1 DEF GrantOnRecord, grant, TypeOK
<1>5. CheckedWhenBuilt'
  BY <1>1 DEF CheckedWhenBuilt, Wrapped, TypeOK
<1> QED
  BY <1>2, <1>3, <1>4, <1>5

\* The call is built for the mode it is checked against.
LEMMA BuildKeepsDelegation ==
  ASSUME Delegation, TypeOK', NEW t \in Tx, BuildPayload(t) PROVE Delegation'
<1> USE DEF Delegation
<1>1. /\ built' = [built EXCEPT ![t] = mode]
      /\ UNCHANGED <<mode, required, previous, fresh, grant>>
      /\ \/ pc' = [pc EXCEPT ![t] = "done"]
         \/ /\ pc' = [pc EXCEPT ![t] = "built"]
            /\ mode.kind = "Delegated" => required[t] \subseteq mode.scopes
  BY DEF BuildPayload, GoesTo, Ends, grant
<1>2. OneKind'
  BY <1>1 DEF OneKind, TypeOK
<1>3. ActsForPrincipal'
  BY <1>1 DEF ActsForPrincipal, grant, TypeOK
<1>4. GrantOnRecord'
  BY <1>1 DEF GrantOnRecord, grant, TypeOK
<1>5. CheckedWhenBuilt'
  BY <1>1 DEF CheckedWhenBuilt, Wrapped, TypeOK
<1> QED
  BY <1>2, <1>3, <1>4, <1>5

\* The answer is the grant of that moment.
LEMMA AnswerKeepsDelegation ==
  ASSUME Delegation, TypeOK', NEW t \in Tx, LookupAnswers(t) PROVE Delegation'
<1> USE DEF Delegation
<1>1. /\ fresh' = [fresh EXCEPT ![t] = Lookup]
      /\ pc' = [pc EXCEPT ![t] = "compare"]
      /\ UNCHANGED <<mode, required, built, previous, grant>>
      /\ pc[t] = "lookup"
  BY DEF LookupAnswers, GoesTo
<1>2. /\ Lookup.principal = Principal => Lookup.scopes \in everGranted
      /\ Lookup.principal # Principal => everGone
  BY <1>1, DelegatedTxAssumption DEF Lookup, NoGrant, GrantOnRecord, OneKind
<1>3. OneKind'
  BY <1>1 DEF OneKind, TypeOK
<1>4. ActsForPrincipal'
  BY <1>1 DEF ActsForPrincipal, grant
<1>5. GrantOnRecord'
  BY <1>1, <1>2 DEF GrantOnRecord, grant, TypeOK
<1>6. CheckedWhenBuilt'
  BY <1>1 DEF CheckedWhenBuilt, Wrapped, TypeOK
<1> QED
  BY <1>3, <1>4, <1>5, <1>6

\* What after_refresh says of a client's previous mode and the chain's answer.
LEMMA RefreshVerdict ==
  ASSUME Delegation, NEW t \in Tx, pc[t] = "compare"
  PROVE  LET refresh == after_refresh(previous[t], fresh[t]) IN
         /\ refresh \in {"Gone", "Unchanged", "Rescoped"}
         /\ refresh = "Gone" => everGone
         /\ refresh # "Gone" => fresh[t].principal = Principal
                              /\ fresh[t].scopes \in everGranted
         /\ refresh = "Unchanged" => fresh[t].scopes = previous[t].scopes
<1>1. previous[t].kind = "Delegated" /\ previous[t].principal = Principal
  BY DEF Delegation, OneKind, ActsForPrincipal
<1>2. /\ fresh[t].principal = Principal => fresh[t].scopes \in everGranted
      /\ fresh[t].principal # Principal => everGone
  BY DEF Delegation, GrantOnRecord
<1>3. NoGrant.principal # Principal
  BY DelegatedTxAssumption DEF NoGrant
<1> QED
  BY <1>1, <1>2, <1>3 DEF after_refresh

\* The cache takes scopes only when the answer still names the same member.
LEMMA CompareKeepsDelegation ==
  ASSUME Delegation, TypeOK', NEW t \in Tx, Compare(t)
  PROVE  Delegation' /\ mode'.kind = mode.kind /\ mode'.principal = mode.principal
<1> USE DEF Delegation
<1>1. pc[t] = "compare" /\ pc' = [pc EXCEPT ![t] = "done"]
      /\ UNCHANGED <<required, built, previous, fresh, grant>>
  BY DEF Compare, Ends
<1>2. mode.kind = "Delegated" /\ previous[t].principal = Principal
      /\ mode.principal = Principal /\ mode.scopes \in everGranted
  BY <1>1 DEF OneKind, ActsForPrincipal
<1>3. \/ mode' = mode
      \/ mode' = Delegated(Principal, fresh[t].scopes) /\ fresh[t].scopes \in everGranted
  BY <1>1, <1>2, RefreshVerdict DEF Compare
<1>4. mode'.kind = "Delegated" /\ mode'.principal = Principal /\ mode'.scopes \in everGranted
  BY <1>2, <1>3 DEF Delegated
<1>5. OneKind'
  BY <1>1, <1>2, <1>4 DEF OneKind, TypeOK
<1>6. ActsForPrincipal'
  BY <1>1, <1>2, <1>4 DEF ActsForPrincipal, grant
<1>7. GrantOnRecord'
  BY <1>1, <1>2, <1>4 DEF GrantOnRecord, grant, TypeOK
<1>8. CheckedWhenBuilt'
  BY <1>1 DEF CheckedWhenBuilt, Wrapped, TypeOK
<1> QED
  BY <1>2, <1>4, <1>5, <1>6, <1>7, <1>8

\* One step of the client keeps Delegation and the member it acts for.  A call
\* is told it lacks a proxy only if it was wrapped, hence by a client with a grant.
LEMMA StepKeepsDelegation ==
  ASSUME Delegation, Effects, TypeOK', NEW t \in Tx, Step(t)
  PROVE  Delegation' /\ mode'.kind = mode.kind /\ mode'.principal = mode.principal
<1>1. CASE BuildPayload(t)
  BY <1>1, BuildKeepsDelegation DEF BuildPayload
<1>2. CASE Prepare(t)
  <2>1. /\ pc' = [pc EXCEPT ![t] = "ready"] \/ pc' = [pc EXCEPT ![t] = "done"]
        /\ pc[t] = "built" /\ UNCHANGED <<mode, required, built, previous, fresh, grant>>
    BY <1>2 DEF Prepare, GoesTo, Ends
  <2> QED
    BY <2>1, OthersKeepDelegation DEF Delegation, TypeOK
<1>3. CASE SubmitAccepted(t)
  <2>1. /\ pc' = [pc EXCEPT ![t] = "watch"]
        /\ pc[t] = "ready" /\ UNCHANGED <<mode, required, built, previous, fresh, grant>>
    BY <1>3 DEF SubmitAccepted, GoesTo
  <2> QED
    BY <2>1, OthersKeepDelegation DEF Delegation, TypeOK
<1>4. ASSUME \/ SubmitRefused(t) \/ SubmitLost(t) \/ Finalized(t) \/ WatchFails(t)
             \/ TimesOut(t) \/ LookupFails(t)
      PROVE  Delegation' /\ mode' = mode
  <2>1. UNCHANGED <<mode, required, built, fresh, grant>>
    BY <1>4 DEF SubmitRefused, SubmitLost, Finalized, WatchFails, TimesOut, LookupFails
  <2>2. \/ pc' = [pc EXCEPT ![t] = "done"] /\ UNCHANGED previous
        \/ /\ StartRefresh(t, "pool") \/ StartRefresh(t, "outer")
           /\ mode.kind = "Delegated" \/ executed[t] = "notProxy"
           /\ pc[t] \in {"ready", "watch"}
    BY <1>4 DEF SubmitRefused, SubmitLost, Finalized, WatchFails, TimesOut,
       LookupFails, Ends
  <2>3. executed[t] = "notProxy" => mode.kind = "Delegated"
    BY DEF Delegation, Effects, EffectsOf, OneKind, Wrapped
  <2>4. CASE pc' = [pc EXCEPT ![t] = "done"] /\ UNCHANGED previous
    <3>1. UNCHANGED <<mode, required, built, previous, fresh, grant>>
      BY <2>1, <2>4
    <3>2. pc'[t] = "done" /\ \A u \in Tx : u # t => pc'[u] = pc[u]
      BY <2>4 DEF Delegation, TypeOK
    <3>3. Delegation'
      BY <3>1, <3>2, OthersKeepDelegation
    <3> QED
      BY <3>1, <3>3
  <2>5. CASE ~(pc' = [pc EXCEPT ![t] = "done"] /\ UNCHANGED previous)
    <3>1. mode.kind = "Delegated" /\ pc[t] \in {"ready", "watch"}
      BY <2>2, <2>3, <2>5
    <3>2. StartRefresh(t, "pool") \/ StartRefresh(t, "outer")
      BY <2>2, <2>5
    <3> QED
      BY <2>1, <3>1, <3>2, RefreshKeepsDelegation
  <2> QED
    BY <2>1, <2>2, <2>4, <2>5
<1>5. CASE LookupAnswers(t)
  BY <1>5, AnswerKeepsDelegation DEF LookupAnswers
<1>6. CASE Compare(t)
  BY <1>6, CompareKeepsDelegation
<1> QED
  BY <1>1, <1>2, <1>3, <1>4, <1>5, <1>6 DEF Step

-----------------------------------------------------------------------------
(***************************************************************************)
(* What a step can do to a call's record.                                  *)
(***************************************************************************)

\* Of a step of call t only t's own record and membership of the pool differ.
LEMMA OnlyOwnEffects ==
  ASSUME Effects, NEW t \in Tx, EffectsOf(t)',
         \A u \in Tx \ {t} :
           /\ pc'[u] = pc[u] /\ reason'[u] = reason[u] /\ result'[u] = result[u]
           /\ built'[u] = built[u] /\ executed'[u] = executed[u]
           /\ u \in inPool' <=> u \in inPool
  PROVE  Effects'
<1> SUFFICES ASSUME NEW u \in Tx, u # t PROVE EffectsOf(u)'
  BY DEF Effects
<1>1. EffectsOf(u)
  BY DEF Effects
<1> QED
  BY <1>1 DEF EffectsOf, Untouched, Wrapped

\* One step of the client keeps every call's record true.
LEMMA StepKeepsEffects ==
  ASSUME Delegation, Effects, TypeOK', NEW t \in Tx, Step(t)
  PROVE  Effects'
<1> USE DEF EffectsOf, Untouched, Wrapped
<1>1. TypeOK /\ OneKind /\ EffectsOf(t)
  BY DEF Delegation, Effects
<1>2. \A u \in Tx \ {t} :
        /\ pc'[u] = pc[u] /\ reason'[u] = reason[u] /\ result'[u] = result[u]
        /\ built'[u] = built[u] /\ executed'[u] = executed[u]
        /\ u \in inPool' <=> u \in inPool
  <2> USE <1>1 DEF TypeOK, GoesTo, Ends, StartRefresh, ledger
  <2>1. CASE BuildPayload(t) \/ Prepare(t)
    BY <2>1 DEF BuildPayload, Prepare
  <2>2. CASE SubmitAccepted(t) \/ SubmitRefused(t) \/ SubmitLost(t)
    BY <2>2 DEF SubmitAccepted, SubmitRefused, SubmitLost
  <2>3. CASE Finalized(t) \/ WatchFails(t) \/ TimesOut(t)
    BY <2>3 DEF Finalized, WatchFails, TimesOut
  <2>4. CASE LookupAnswers(t) \/ LookupFails(t) \/ Compare(t)
    BY <2>4 DEF LookupAnswers, LookupFails, Compare
  <2> QED
    BY <2>1, <2>2, <2>3, <2>4 DEF Step
<1>3. EffectsOf(t)'
  <2> USE <1>1 DEF TypeOK, GoesTo, Ends, StartRefresh, ledger
  <2>1. CASE BuildPayload(t)
    BY <2>1 DEF BuildPayload
  <2>2. CASE Prepare(t)
    BY <2>2 DEF Prepare
  <2>3. CASE SubmitAccepted(t)
    BY <2>3 DEF SubmitAccepted
  <2>4. CASE SubmitRefused(t)
    BY <2>4 DEF SubmitRefused
  <2>5. CASE SubmitLost(t)
    BY <2>5 DEF SubmitLost, is_pool_rejection
  <2>6. CASE Finalized(t)
    BY <2>6 DEF Finalized, inner_dispatch_error, OneKind
  <2>7. CASE WatchFails(t) \/ TimesOut(t) \/ LookupFails(t)
    BY <2>7 DEF WatchFails, TimesOut, LookupFails
  <2>8. CASE LookupAnswers(t)
    BY <2>8 DEF LookupAnswers
  <2>9. CASE Compare(t)
    BY <2>9 DEF Compare, submission_error, outer_dispatch_error
  <2> QED
    BY <2>1, <2>2, <2>3, <2>4, <2>5, <2>6, <2>7, <2>8, <2>9 DEF Step
<1> QED
  BY <1>2, <1>3, OnlyOwnEffects

\* A block takes only a call that was submitted and did nothing yet.
LEMMA IncludeKeepsEffects ==
  ASSUME Delegation, Effects, NEW t \in Tx, Include(t)
  PROVE  Effects'
<1>1. TypeOK /\ EffectsOf(t)
  BY DEF Delegation, Effects
<1>2. /\ t \in inPool /\ inPool' = inPool \ {t}
      /\ UNCHANGED calls
      /\ \E e \in Execution \ {"none"} :
           /\ executed' = [executed EXCEPT ![t] = e]
           /\ e \in {"inner", "notProxy"} => Wrapped(t)
  BY DEF Include, Execution
<1>3. EffectsOf(t)'
  BY <1>1, <1>2 DEF EffectsOf, Untouched, Wrapped, TypeOK, calls
<1> QED
  BY <1>1, <1>2, <1>3, OnlyOwnEffects DEF calls, TypeOK

\* Retrying keeps what the client holds and finds the call untouched.
LEMMA RetryKeepsAll ==
  ASSUME Delegation, Effects, TypeOK', NEW t \in Tx, Retry(t)
  PROVE  Delegation' /\ Effects'
<1>1. TypeOK /\ EffectsOf(t)
  BY DEF Delegation, Effects
<1>2. /\ pc' = [pc EXCEPT ![t] = "idle"]
      /\ result' = [result EXCEPT ![t] = "none"]
      /\ result[t] = "NotPermitted"
      /\ UNCHANGED <<mode, required, built, previous, fresh, reason, held, grant, ledger>>
  BY DEF Retry, GoesTo
<1>3. Delegation'
  BY <1>1, <1>2, OthersKeepDelegation DEF TypeOK
<1>4. EffectsOf(t)'
  BY <1>1, <1>2 DEF EffectsOf, Untouched, Wrapped, TypeOK, ledger
<1>5. Effects'
  BY <1>1, <1>2, <1>4, OnlyOwnEffects DEF TypeOK, ledger
<1> QED
  BY <1>3, <1>5

\* Any step keeps both invariants and the member the client acts for.
LEMMA NextKeepsAll ==
  ASSUME Delegation, Effects, TypeOK', [Next]_vars
  PROVE  /\ Delegation' /\ Effects'
         /\ mode'.kind = mode.kind /\ mode'.principal = mode.principal
<1>1. CASE ChainMoves
  <2>1. UNCHANGED <<mode, calls, ledger>>
    BY <1>1 DEF ChainMoves, Moves, Rescope, Revoke, Authorize, Fund
  <2>2. Effects'
    BY <2>1 DEF Effects, EffectsOf, Untouched, Wrapped, calls, ledger
  <2> QED
    BY <1>1, <2>1, <2>2, ChainKeepsDelegation
<1>2. ASSUME NEW t \in Tx, Step(t) \/ Retry(t) \/ Include(t)
      PROVE  /\ Delegation' /\ Effects'
             /\ mode'.kind = mode.kind /\ mode'.principal = mode.principal
  <2>1. CASE Step(t)
    BY <2>1, StepKeepsDelegation, StepKeepsEffects
  <2>2. CASE Retry(t)
    BY <2>2, RetryKeepsAll DEF Retry
  <2>3. CASE Include(t)
    <3>1. UNCHANGED <<mode, calls, grant>>
      BY <2>3 DEF Include
    <3>2. Delegation'
      BY <3>1 DEF Delegation, OneKind, ActsForPrincipal, GrantOnRecord,
         CheckedWhenBuilt, Wrapped, calls, grant
    <3> QED
      BY <2>3, <3>1, <3>2, IncludeKeepsEffects
  <2> QED
    BY <1>2, <2>1, <2>2, <2>3
<1>3. CASE UNCHANGED vars
  <2>1. UNCHANGED <<mode, calls, grant, ledger>>
    BY <1>3 DEF vars
  <2> QED
    BY <2>1 DEF Delegation, OneKind, ActsForPrincipal, GrantOnRecord, CheckedWhenBuilt,
       Effects, EffectsOf, Untouched, Wrapped, calls, grant, ledger
<1> QED
  BY <1>1, <1>2, <1>3 DEF Next

\* At connect nothing has been asked yet.
LEMMA InitAll == Init /\ TypeOK => Delegation /\ Effects
<1> SUFFICES ASSUME Init, TypeOK PROVE Delegation /\ Effects
  OBVIOUS
<1>1. mode.kind = "Delegated" => /\ pointer = Principal /\ mode.principal = Principal
                                 /\ mode.scopes = granted
  BY DelegatedTxAssumption DEF Init, decide, Lookup, NoGrant, Direct, Delegated
<1>2. OneKind /\ ActsForPrincipal /\ GrantOnRecord /\ CheckedWhenBuilt
  BY <1>1 DEF Init, OneKind, ActsForPrincipal, GrantOnRecord, CheckedWhenBuilt
<1>3. Effects
  BY DEF Init, Effects, EffectsOf, Untouched
<1> QED
  BY <1>2, <1>3 DEF Delegation

LEMMA DelegationInvariant == Spec => [](Delegation /\ Effects)
<1> DEFINE Inv == Delegation /\ Effects
<1>1. Init /\ TypeOK => Inv
  BY InitAll
<1>2. Inv /\ TypeOK' /\ [Next]_vars => Inv'
  BY NextKeepsAll
<1> QED
  BY <1>1, <1>2, TypeCorrect, PTL DEF Spec

\* A delegated client never becomes direct and never acts for another member,
\* whatever refusals and refreshes follow (mode.rs, after_refresh).
THEOREM ModeKeepsItsMember == Spec => ModeNeverFalls
<1>1. Delegation /\ Effects /\ TypeOK' /\ [Next]_vars
        => [mode'.kind = mode.kind /\ mode'.principal = mode.principal]_vars
  BY NextKeepsAll
<1> QED
  BY <1>1, DelegationInvariant, TypeCorrect, PTL DEF Spec, ModeNeverFalls

\* However many refreshes overlap, the cache holds scopes Principal granted.
THEOREM CacheIsOnRecord == Spec => []CachedScopesWereGranted
<1>1. Delegation => CachedScopesWereGranted
  BY DEF Delegation, ActsForPrincipal, CachedScopesWereGranted
<1> QED
  BY <1>1, DelegationInvariant, PTL

\* What returns Ok was applied, the wrapped call included.
OkMeansApplied == \A t \in Tx : result[t] = "Ok" => executed[t] = "ok"

\* A receipt is for a call whose wrapped call succeeded in a final block, though
\* proxy.proxy succeeds when the wrapped call fails.
THEOREM ReceiptsAreApplied == Spec => []OkMeansApplied
<1>1. Effects => OkMeansApplied
  BY DEF Effects, EffectsOf, OkMeansApplied
<1> QED
  BY <1>1, DelegationInvariant, PTL

\* A refused call is neither pending nor applied.
THEOREM RefusalsAreSafe == Spec => []RefusalHasNoEffect
<1>1. Effects => RefusalHasNoEffect
  BY DEF Effects, EffectsOf, Untouched, RefusalHasNoEffect
<1> QED
  BY <1>1, DelegationInvariant, PTL

-----------------------------------------------------------------------------
(***************************************************************************)
(* What the errors say is true.                                            *)
(***************************************************************************)
VerdictOf(t) ==
  /\ result[t] = "KeyRevoked" => everGone
  /\ result[t] = "NotPermitted" => held[t] \in everGranted /\ ~(required[t] \subseteq held[t])
  /\ result[t] = "Unsponsored" /\ previous[t] = built[t] => required[t] \subseteq fresh[t].scopes

Verdicts == \A t \in Tx : VerdictOf(t)

\* What is on record stays on record.
LEMMA HistoryGrows ==
  ASSUME [Next]_vars PROVE everGranted \subseteq everGranted' /\ (everGone => everGone')
<1>1. CASE ChainMoves
  <2>1. everGranted \subseteq everGranted'
    BY <1>1, SMT DEF ChainMoves, Moves, Rescope, Revoke, Authorize, Fund
  <2>2. everGone => everGone'
    BY <1>1, Zenon DEF ChainMoves, Moves, Rescope, Revoke, Authorize, Fund
  <2> QED
    BY <2>1, <2>2
<1>2. ASSUME NEW t \in Tx, Step(t) \/ Retry(t) \/ Include(t) PROVE UNCHANGED grant
  BY <1>2 DEF Step, Retry, Include, BuildPayload, Prepare, SubmitAccepted, SubmitRefused,
     SubmitLost, Finalized, WatchFails, TimesOut, LookupAnswers, LookupFails, Compare
<1>3. CASE UNCHANGED grant
  BY <1>3 DEF grant
<1> QED
  BY <1>1, <1>2, <1>3 DEF Next, vars

\* The local check and the refresh are where an error is chosen.
LEMMA VerdictStep ==
  ASSUME Delegation, Effects, NEW t \in Tx, Step(t)
  PROVE  VerdictOf(t)'
<1>1. TypeOK /\ (result[t] # "none" <=> pc[t] = "done")
  BY DEF Delegation, Effects, EffectsOf
<1>2. CASE BuildPayload(t)
  <2>1. mode.kind = "Delegated" => mode.scopes \in everGranted
    BY DEF Delegation, ActsForPrincipal
  <2>2. \/ result'[t] \in {"none", "NeverAdmitted"}
        \/ /\ result'[t] = "NotPermitted" /\ held'[t] = mode.scopes
           /\ mode.kind = "Delegated" /\ ~(required[t] \subseteq mode.scopes)
    BY <1>1, <1>2 DEF BuildPayload, GoesTo, Ends, TypeOK
  <2>3. UNCHANGED <<required, everGranted>>
    BY <1>2 DEF BuildPayload, grant
  <2> QED
    BY <2>1, <2>2, <2>3 DEF VerdictOf
<1>3. CASE Compare(t)
  <2> DEFINE refresh == after_refresh(previous[t], fresh[t])
  <2>1. pc[t] = "compare" /\ UNCHANGED <<required, built, previous, fresh, grant>>
    BY <1>3 DEF Compare
  <2>2. CASE reason[t] = "pool"
    <3>1. /\ result'[t] = submission_error(t, refresh)
          /\ result'[t] = "NotPermitted" => held'[t] = fresh[t].scopes
      BY <1>1, <1>3, <2>2 DEF Compare, Ends, TypeOK
    <3>2. /\ result'[t] = "KeyRevoked" => refresh = "Gone"
          /\ result'[t] = "NotPermitted" => refresh # "Gone" /\ ~(required[t] \subseteq fresh[t].scopes)
          /\ result'[t] = "Unsponsored" => refresh # "Gone"
               /\ (refresh = "Rescoped" => required[t] \subseteq fresh[t].scopes)
      BY <3>1 DEF submission_error
    <3>3. required[t] \subseteq built[t].scopes
      BY <2>1 DEF Delegation, OneKind, CheckedWhenBuilt, Wrapped
    <3> HIDE DEF refresh
    <3>4. /\ refresh \in {"Gone", "Unchanged", "Rescoped"}
          /\ refresh = "Gone" => everGone
          /\ refresh # "Gone" => fresh[t].scopes \in everGranted
          /\ refresh = "Unchanged" => fresh[t].scopes = previous[t].scopes
      BY <2>1, RefreshVerdict DEF refresh
    <3> QED
      BY <2>1, <3>1, <3>2, <3>3, <3>4 DEF VerdictOf, grant
  <2>3. CASE reason[t] = "outer"
    <3>1. result'[t] = outer_dispatch_error(refresh)
      BY <1>1, <1>3, <2>3 DEF Compare, Ends, TypeOK
    <3> HIDE DEF refresh
    <3>2. refresh = "Gone" => everGone
      BY <2>1, RefreshVerdict DEF refresh
    <3> QED
      BY <2>1, <3>1, <3>2 DEF VerdictOf, outer_dispatch_error, grant
  <2> QED
    BY <1>1, <2>2, <2>3 DEF TypeOK
<1>4. ASSUME ~BuildPayload(t), ~Compare(t)
      PROVE  result'[t] \notin {"KeyRevoked", "NotPermitted", "Unsponsored"}
  <2> USE <1>1 DEF TypeOK, GoesTo, Ends, StartRefresh
  <2>1. CASE Prepare(t) \/ SubmitAccepted(t) \/ SubmitRefused(t) \/ SubmitLost(t)
    BY <2>1 DEF Prepare, SubmitAccepted, SubmitRefused, SubmitLost
  <2>2. CASE Finalized(t) \/ WatchFails(t) \/ TimesOut(t) \/ LookupAnswers(t) \/ LookupFails(t)
    BY <2>2 DEF Finalized, WatchFails, TimesOut, LookupAnswers, LookupFails
  <2> QED
    BY <1>4, <2>1, <2>2 DEF Step
<1> QED
  BY <1>2, <1>3, <1>4 DEF VerdictOf

\* An error, once given, stays true: the record of the grant only grows.
LEMMA VerdictStays ==
  ASSUME TypeOK, TypeOK', [Next]_vars, NEW t \in Tx, VerdictOf(t),
         UNCHANGED <<result[t], held[t], required[t], previous[t], built[t], fresh[t]>>
  PROVE  VerdictOf(t)'
<1>1. everGranted \subseteq everGranted' /\ (everGone => everGone')
  BY HistoryGrows
<1> QED
  BY <1>1 DEF VerdictOf

\* A step of a call leaves the records of the others alone.
LEMMA OthersRecords ==
  ASSUME TypeOK, NEW t \in Tx, Step(t) \/ Retry(t), NEW u \in Tx, u # t
  PROVE  UNCHANGED <<result[u], held[u], required[u], previous[u], built[u], fresh[u]>>
<1> USE DEF TypeOK, GoesTo, Ends, StartRefresh
<1>1. CASE BuildPayload(t) \/ Prepare(t) \/ SubmitAccepted(t)
  BY <1>1 DEF BuildPayload, Prepare, SubmitAccepted
<1>2. CASE SubmitRefused(t) \/ SubmitLost(t) \/ Finalized(t)
  BY <1>2 DEF SubmitRefused, SubmitLost, Finalized
<1>3. CASE WatchFails(t) \/ TimesOut(t) \/ LookupAnswers(t) \/ LookupFails(t) \/ Retry(t)
  BY <1>3 DEF WatchFails, TimesOut, LookupAnswers, LookupFails, Retry
<1>4. CASE Compare(t)
  BY <1>4 DEF Compare
<1> QED
  BY <1>1, <1>2, <1>3, <1>4 DEF Step

LEMMA VerdictsInvariant == Spec => []Verdicts
<1>1. Init => Verdicts
  BY DEF Init, Verdicts, VerdictOf
<1>2. Delegation /\ Effects /\ Verdicts /\ TypeOK' /\ [Next]_vars => Verdicts'
  <2> SUFFICES ASSUME Delegation, Effects, Verdicts, TypeOK', [Next]_vars, NEW u \in Tx
               PROVE  VerdictOf(u)'
    BY DEF Verdicts
  <2>1. TypeOK /\ VerdictOf(u)
    BY DEF Delegation, Verdicts
  <2>2. CASE UNCHANGED calls
    BY <2>1, <2>2, VerdictStays DEF calls
  <2>3. ASSUME NEW t \in Tx, Step(t) \/ Retry(t) PROVE VerdictOf(u)'
    <3>1. CASE u # t
      BY <2>1, <2>3, <3>1, OthersRecords, VerdictStays
    <3>2. CASE u = t /\ Step(t)
      BY <3>2, VerdictStep
    <3>3. CASE u = t /\ Retry(t)
      BY <2>1, <3>3 DEF Retry, VerdictOf, TypeOK
    <3> QED
      BY <2>3, <3>1, <3>2, <3>3
  <2>4. ChainMoves \/ UNCHANGED vars \/ (\E t \in Tx : Include(t)) => UNCHANGED calls
    BY DEF ChainMoves, Moves, Rescope, Revoke, Authorize, Fund, Include, vars
  <2> QED
    BY <2>2, <2>3, <2>4 DEF Next
<1> QED
  BY <1>1, <1>2, DelegationInvariant, TypeCorrect, PTL DEF Spec

\* KeyRevoked is never said of a key whose grant stood all along.
THEOREM RevocationIsTrue == Spec => []KeyRevokedIsTrue
<1>1. Verdicts => KeyRevokedIsTrue
  BY DEF Verdicts, VerdictOf, KeyRevokedIsTrue
<1> QED
  BY <1>1, VerdictsInvariant, PTL

\* NotPermitted names scopes the key did hold, and they lack one the call needs.
THEOREM MissingScopeIsTrue == Spec => []NotPermittedNamesMissing
<1>1. Verdicts => NotPermittedNamesMissing
  BY DEF Verdicts, VerdictOf, NotPermittedNamesMissing
<1> QED
  BY <1>1, VerdictsInvariant, PTL

\* Without a refresh by another call since it was checked, a call reported as
\* Unsponsored is in scope.
THEOREM UnsponsoredIsTrue == Spec => []UnsponsoredInScope
<1>1. Verdicts => UnsponsoredInScope
  BY DEF Verdicts, VerdictOf, UnsponsoredInScope
<1> QED
  BY <1>1, VerdictsInvariant, PTL
-----------------------------------------------------------------------------
(***************************************************************************)
(* The refinement of SubmittedCall.                                        *)
(***************************************************************************)
\* What call t was before a step, and what the step may make of it.
LEMMA OwnStepKeepsPromise ==
  ASSUME Delegation, Effects, TypeOK', NEW t \in Tx, Step(t)
  PROVE  [Promise(t)!Next]_(Promise(t)!vars)
<1> USE DEF EffectsOf, Untouched, Fate, Told, Promise!vars, Promise!Next
<1>1. TypeOK /\ OneKind /\ EffectsOf(t)
  BY DEF Delegation, Effects
<1> USE <1>1 DEF TypeOK, GoesTo, Ends, StartRefresh, ledger
<1>2. CASE BuildPayload(t)
  BY <1>2 DEF BuildPayload, Promise!Refuse
<1>3. CASE Prepare(t)
  BY <1>3 DEF Prepare, Promise!Refuse, Promise!GiveUp
<1>4. CASE SubmitAccepted(t)
  BY <1>4 DEF SubmitAccepted, Promise!Send
<1>5. CASE SubmitRefused(t)
  BY <1>5 DEF SubmitRefused, Promise!GiveUp
<1>6. CASE SubmitLost(t)
  BY <1>6 DEF SubmitLost, is_pool_rejection, Promise!GiveUp
<1>7. CASE Finalized(t)
  BY <1>7 DEF Finalized, inner_dispatch_error, OneKind, Wrapped, Execution, Promise!GiveUp,
     Promise!Confirm, Promise!Fail
<1>8. CASE WatchFails(t) \/ TimesOut(t) \/ LookupFails(t)
  BY <1>8 DEF WatchFails, TimesOut, LookupFails, Promise!GiveUp
<1>9. CASE LookupAnswers(t)
  BY <1>9 DEF LookupAnswers
<1>10. CASE Compare(t)
  BY <1>10 DEF Compare, submission_error, outer_dispatch_error, Promise!GiveUp, Promise!Refuse
<1> QED
  BY <1>2, <1>3, <1>4, <1>5, <1>6, <1>7, <1>8, <1>9, <1>10 DEF Step

\* A step that leaves a call's record alone leaves its promise alone.
LEMMA OthersKeepPromise ==
  ASSUME NEW t \in Tx, result'[t] = result[t], executed'[t] = executed[t],
         t \in inPool' <=> t \in inPool
  PROVE  UNCHANGED Promise(t)!vars
BY DEF Fate, Told, Promise!vars

\* Of a step of call t the records of the others stay.
LEMMA StepLeavesOthers ==
  ASSUME TypeOK, NEW t \in Tx, Step(t) \/ Retry(t) \/ Include(t), NEW u \in Tx, u # t
  PROVE  /\ result'[u] = result[u] /\ executed'[u] = executed[u]
         /\ u \in inPool' <=> u \in inPool
<1> USE DEF TypeOK, GoesTo, Ends, StartRefresh, ledger, calls
<1>1. CASE BuildPayload(t) \/ Prepare(t)
  BY <1>1 DEF BuildPayload, Prepare
<1>2. CASE SubmitAccepted(t) \/ SubmitRefused(t) \/ SubmitLost(t)
  BY <1>2 DEF SubmitAccepted, SubmitRefused, SubmitLost
<1>3. CASE Finalized(t) \/ WatchFails(t) \/ TimesOut(t)
  BY <1>3 DEF Finalized, WatchFails, TimesOut
<1>4. CASE LookupAnswers(t) \/ LookupFails(t) \/ Compare(t)
  BY <1>4 DEF LookupAnswers, LookupFails, Compare
<1>5. CASE Retry(t) \/ Include(t)
  BY <1>5 DEF Retry, Include
<1> QED
  BY <1>1, <1>2, <1>3, <1>4, <1>5 DEF Step

\* A block settles a call that is pending; a call is retried that was never sent.
LEMMA BlockKeepsPromise ==
  ASSUME Delegation, Effects, NEW t \in Tx, Include(t) \/ Retry(t)
  PROVE  [Promise(t)!Next]_(Promise(t)!vars)
<1> USE DEF EffectsOf, Untouched, Fate, Told, Promise!vars, Promise!Next
<1>1. TypeOK /\ EffectsOf(t)
  BY DEF Delegation, Effects
<1>2. CASE Include(t)
  <2>1. /\ t \in inPool /\ inPool' = inPool \ {t} /\ UNCHANGED result
        /\ \E e \in {"ok", "inner", "notProxy", "outer"} : executed' = [executed EXCEPT ![t] = e]
    BY <1>2 DEF Include, calls
  <2> QED
    BY <1>1, <2>1 DEF TypeOK, Promise!Settle, Promise!Final
<1>3. CASE Retry(t)
  BY <1>1, <1>3 DEF Retry, TypeOK, GoesTo, ledger, Promise!Retry
<1> QED
  BY <1>2, <1>3

LEMMA NextKeepsPromise ==
  ASSUME Delegation, Effects, TypeOK', [Next]_vars, NEW u \in Tx
  PROVE  [Promise(u)!Next]_(Promise(u)!vars)
<1>1. CASE ChainMoves \/ UNCHANGED vars
  <2>1. UNCHANGED <<result, executed, inPool>>
    BY <1>1 DEF ChainMoves, Moves, Rescope, Revoke, Authorize, Fund, vars, calls, ledger
  <2> QED
    BY <2>1, OthersKeepPromise
<1>2. ASSUME NEW t \in Tx, Step(t) \/ Retry(t) \/ Include(t)
      PROVE  [Promise(u)!Next]_(Promise(u)!vars)
  <2>1. CASE u # t
    BY <1>2, <2>1, StepLeavesOthers, OthersKeepPromise DEF Delegation
  <2>2. CASE u = t
    BY <1>2, <2>2, OwnStepKeepsPromise, BlockKeepsPromise
  <2> QED
    BY <2>1, <2>2
<1> QED
  BY <1>1, <1>2 DEF Next

\* Each of the concurrent calls is a SubmittedCall: its answer is true of the
\* chain when it is given and stays true, and the call that is made again after
\* a refusal was never sent.
THEOREM CallsRefineSubmission == Spec => CallsKeepTheirPromise
<1>1. Init => \A t \in Tx : Promise(t)!Init
  BY DEF Init, Fate, Told, Promise!Init
<1>2. Delegation /\ Effects /\ TypeOK' /\ [Next]_vars
        => [\A t \in Tx : [Promise(t)!Next]_(Promise(t)!vars)]_vars
  BY NextKeepsPromise
<1> QED
  BY <1>1, <1>2, DelegationInvariant, TypeCorrect, PTL DEF Spec, CallsKeepTheirPromise
=============================================================================
