-------------------------- MODULE CBoundaryProofs --------------------------
(***************************************************************************)
(* The invariants of CBoundary for any number of goroutines, any key texts *)
(* and arguments, and any number of calls.  What makes them inductive is   *)
(* who may hold the handle: nobody before the key exists, one goroutine    *)
(* while it constructs the key, and a key that is gone while its handle is *)
(* still set has an actor between msdk_apikey_free and handle = nil.       *)
(***************************************************************************)
EXTENDS CBoundary, TLAPS

Entry == {"none", "encrypt", "open_secret", "verify_plaintext_proof",
          "signing_payload", "lagrange_for", "apikey_parse", "apikey_account_id",
          "apikey_scheme", "apikey_sign", "close"}
Query == [open : Open, env : Sealed]
ActorState ==
  [pc : {"idle", "checked", "C", "returned", "closing", "freed"}, entry : Entry,
   args : Seal \cup Query \cup KeyText \cup {<<>>}, ptr : {"null", "handle"},
   todo : SUBSET (1..4), result : Result, late : BOOLEAN]

\* The domain and the arguments TypeOK leaves open.
Typed ==
  /\ st \in [Actor -> ActorState]
  /\ \A a \in Actor :
       /\ st[a].entry = "encrypt" => st[a].args \in Seal
       /\ st[a].entry = "open_secret" => st[a].args \in Query

\* What each step says of the actor at it.
Steps ==
  /\ st[Collector].pc \in {"idle", "closing", "freed"}
  /\ st[Collector].entry = "none"
  /\ \A a \in Actor :
       /\ st[a].pc = "idle" => st[a].entry = "none"
       /\ st[a].pc = "checked" => st[a].entry = "apikey_sign"
       /\ st[a].entry = "apikey_parse" => st[a].ptr = "null"

Closers == {a \in Actor : st[a].pc \in {"closing", "freed"}}

\* Before the key has its handle nobody else can be at it.
NobodyBeforeHandle ==
  handle = "none" =>
    /\ ~reachable /\ ~finalizer /\ Closers = {} /\ key # "freed"
    /\ \A a \in Actor : st[a].pc # "checked"

\* One goroutine constructs the key, and until it is done it alone has it.
OneConstructor ==
  /\ \A a, b \in Actor : Constructs(a) /\ Constructs(b) => a = b
  /\ \A a \in Actor : Constructs(a) =>
       IF st[a].entry = "apikey_parse"
         THEN /\ handle = "none" /\ st[a].pc \in {"C", "returned"}
              /\ st[a].pc = "returned" /\ st[a].result = "ok" => key = "live"
         ELSE /\ handle # "none"
              /\ st[a].pc \in {"C", "returned"} =>
                   key = "live" /\ ~reachable /\ Closers = {}

\* A freed key whose handle is still set: its Close has not forgotten it yet.  A
\* call that holds a freed key was overlapped.
FreedIsNoticed ==
  /\ key = "freed" /\ handle = "set" => \E a \in Actor : st[a].pc = "freed"
  /\ \A a \in Actor : st[a].pc = "C" /\ st[a].ptr = "handle" /\ key # "live" => overlapped

\* Once a Close returned the handle is gone, so no Sign begun since passed its check.
ClosedIsClosed ==
  /\ closed => handle = "nil"
  /\ \A a \in Actor : st[a].entry = "apikey_sign" => ~st[a].late

\* What the core seals is within what the core opens.
Openable(env) == \/ env = NoSeal
               \/ /\ env.binding_id # "oversized" /\ env.capsule = "good"
                  /\ env.ct \notin {"oversized", "empty"}

SealsOpen ==
  /\ \A g \in Goroutine : Openable(sealed[g])
  /\ \A a \in Actor : st[a].entry = "open_secret" => Openable(st[a].args.env)

-----------------------------------------------------------------------------
(***************************************************************************)
(* The steps.                                                              *)
(***************************************************************************)
\* A call enters C with the arguments of its entry point.
Enters(g, entry, args) ==
  /\ CallsC(g, entry, args)
  /\ \/ entry = "encrypt" /\ args \in Seal
     \/ entry = "open_secret" /\ args \in [open : Opens, env : {sealed[g]}]
     \/ entry = "verify_plaintext_proof" /\ args \in Seal
     \/ entry \in {"signing_payload", "lagrange_for"} /\ args = <<>>
     \/ /\ entry = "apikey_parse" /\ args \in KeyText
        /\ handle = "none" /\ \A a \in Actor : ~Constructs(a)

Refuses(g) == /\ Starts(g) /\ Set(g, Idle("ErrInvalidArg"))
              /\ UNCHANGED <<shared, heap, sealed, history>>

\* Next, with the calls that only enter C brought together.
LEMMA NextSteps ==
  ASSUME Next
  PROVE  \/ \E g \in Goroutine :
              \/ Refuses(g) \/ \E entry \in Entry : \E args : Enters(g, entry, args)
              \/ Sign(g) \/ SignEnters(g) \/ Close(g)
         \/ \E a \in Actor : Returns(a) \/ goBytesAndFree(a) \/ Finishes(a)
                             \/ FreesKey(a) \/ ForgetsHandle(a)
         \/ Drop
         \/ FinalizerRuns
<1> USE BoundaryAssumption
<1>1. ASSUME NEW g \in Goroutine, NEW a \in Seals, Encrypt(g, a)
      PROVE  Refuses(g) \/ \E entry \in Entry : \E args : Enters(g, entry, args)
  <2>1. CASE CallsC(g, "encrypt", a)
    <3>1. Enters(g, "encrypt", a)  BY <2>1 DEF Enters
    <3>2. QED  BY <3>1 DEF Entry
  <2>2. CASE Refuses(g)  BY <2>2
  <2>3. QED  BY <1>1, <2>1, <2>2 DEF Encrypt, Refuses
<1>2. ASSUME NEW g \in Goroutine, NEW a \in Seals, VerifyPlaintextProof(g, a)
      PROVE  \E entry \in Entry : \E args : Enters(g, entry, args)
  <2>1. Enters(g, "verify_plaintext_proof", a)
    BY <1>2 DEF Enters, VerifyPlaintextProof
  <2>2. QED  BY <2>1 DEF Entry
<1>3. ASSUME NEW g \in Goroutine, NEW o \in Opens, OpenSecret(g, o)
      PROVE  \E entry \in Entry : \E args : Enters(g, entry, args)
  <2>1. [open |-> o, env |-> sealed[g]] \in [open : Opens, env : {sealed[g]}]
    OBVIOUS
  <2>2. Enters(g, "open_secret", [open |-> o, env |-> sealed[g]])
    BY <1>3, <2>1, Zenon DEF Enters, OpenSecret
  <2>3. QED  BY <2>2 DEF Entry
<1>4. ASSUME NEW g \in Goroutine, SigningPayload(g) \/ LagrangeFor(g)
      PROVE  \E entry \in Entry : \E args : Enters(g, entry, args)
  <2>1. Enters(g, "signing_payload", <<>>) \/ Enters(g, "lagrange_for", <<>>)
    BY <1>4 DEF Enters, SigningPayload, LagrangeFor
  <2>2. QED  BY <2>1 DEF Entry
<1>5. ASSUME NEW g \in Goroutine, NEW text \in Keys, NewApiKey(g, text)
      PROVE  \E entry \in Entry : \E args : Enters(g, entry, args)
  <2>1. Enters(g, "apikey_parse", text)  BY <1>5 DEF Enters, NewApiKey
  <2>2. QED  BY <2>1 DEF Entry
<1>6. QED  BY <1>1, <1>2, <1>3, <1>4, <1>5 DEF Next

\* What the entry points answer is a code, and every code is an error of Go's; Go
\* collects what Rust has written before it answered.
LEMMA Answers ==
  ASSUME NEW s, NEW rc \in guard(body(s))
  PROVE  /\ rc \in Code /\ errFromStatus[rc] \in Result
         /\ errFromStatus[rc] = "ok" <=> rc = "MSDK_OK"
         /\ written(s.entry, rc) \in SUBSET (1..4)
         /\ collected(s.entry, errFromStatus[rc]) = written(s.entry, rc)
<1>1. rc \in Code  BY DEF guard, body, Code
<1>2. DOMAIN errFromStatus = Code  BY DEF errFromStatus, Code
<1>3. errFromStatus[rc] \in Result  BY <1>1, <1>2 DEF Result
<1>4. errFromStatus[rc] = "ok" <=> rc = "MSDK_OK"  BY <1>1 DEF errFromStatus, Code
<1>5. written(s.entry, rc) \in SUBSET (1..4)  BY DEF written, outs
<1>6. collected(s.entry, errFromStatus[rc]) = written(s.entry, rc)
  <2>1. CASE rc # "MSDK_OK"
    BY <1>4, <2>1 DEF collected, written
  <2>2. CASE rc = "MSDK_OK"
    <3>1. s.entry \in {"encrypt", "open_secret", "verify_plaintext_proof", "signing_payload",
                       "lagrange_for", "apikey_parse", "apikey_account_id",
                       "apikey_scheme", "apikey_sign"}
      BY <2>2 DEF guard, body
    <3>2. QED  BY <1>4, <2>2, <3>1 DEF collected, written, outs
  <2>3. QED  BY <2>1, <2>2
<1>7. QED  BY <1>1, <1>3, <1>4, <1>5, <1>6

\* What an actor is set to is typed.
LEMMA Records ==
  ASSUME TypeOK
  PROVE  /\ \A r \in Result : Idle(r) \in ActorState
         /\ \A pc \in {"C", "checked", "closing"}, entry \in Entry,
               args \in Seal \cup Query \cup KeyText \cup {<<>>} :
              At(pc, entry, args) \in ActorState
         /\ \A s \in ActorState, l \in BOOLEAN : [s EXCEPT !.late = l] \in ActorState
<1>1. closed \in BOOLEAN  BY Zenon DEF TypeOK
<1>2. "none" \in Result  BY DEF Result
<1>3. ASSUME NEW r \in Result  PROVE Idle(r) \in ActorState
  BY <1>3 DEF Idle, ActorState, Entry
<1>4. ASSUME NEW pc \in {"C", "checked", "closing"}, NEW entry \in Entry,
             NEW args \in Seal \cup Query \cup KeyText \cup {<<>>}
      PROVE  At(pc, entry, args) \in ActorState
  BY <1>1, <1>2 DEF At, ActorState
<1>5. ASSUME NEW s \in ActorState, NEW l \in BOOLEAN
      PROVE  [s EXCEPT !.late = l] \in ActorState
  BY DEF ActorState
<1>6. QED  BY <1>3, <1>4, <1>5

LEMMA Results == {"none", "closed", "ok", "ErrInvalidArg"} \subseteq Result
<1>1. errFromStatus["MSDK_OK"] = "ok" /\ errFromStatus["MSDK_ERR_INVALID_ARG"] = "ErrInvalidArg"
  BY DEF errFromStatus
<1>2. {"MSDK_OK", "MSDK_ERR_INVALID_ARG"} \subseteq DOMAIN errFromStatus
  BY DEF errFromStatus
<1>3. QED  BY <1>1, <1>2 DEF Result

\* One actor moves, to a state that is typed, or none does.
LEMMA TypedStep ==
  ASSUME TypeOK, Typed, Steps, [Next]_vars
  PROVE  Typed'
<1> USE BoundaryAssumption DEF Set
<1>1. /\ st \in [Actor -> ActorState]
      /\ Goroutine \subseteq Actor /\ Collector \in Actor
  BY DEF Typed, Actor
<1> DEFINE Fit(s) == /\ s \in ActorState
                     /\ s.entry = "encrypt" => s.args \in Seal
                     /\ s.entry = "open_secret" => s.args \in Query
<1>2. \A a \in Actor : Fit(st[a])  BY DEF Typed
<1>3. ASSUME NEW a \in Actor, NEW s, Fit(s), st' = [st EXCEPT ![a] = s]
      PROVE  Typed'
  BY <1>1, <1>2, <1>3 DEF Typed
<1>4. \A r \in Result : Fit(Idle(r)) /\ Fit([Idle(r) EXCEPT !.pc = "closing"])
  BY Records DEF Idle, ActorState
<1> HIDE DEF Fit
<1>5. ASSUME NEW g \in Goroutine, Refuses(g)  PROVE Typed'
  BY <1>1, <1>3, <1>4, <1>5, Results DEF Refuses
<1>6. ASSUME NEW g \in Goroutine, NEW entry \in Entry, NEW args, Enters(g, entry, args)
      PROVE  Typed'
  <2>1. sealed[g] \in Sealed  BY DEF TypeOK
  <2>2. [open : Opens, env : {sealed[g]}] \subseteq Query
    BY <2>1 DEF Query
  <2>3. args \in Seal \cup Query \cup KeyText \cup {<<>>}
    BY <1>6, <2>2 DEF Enters
  <2>4. At("C", entry, args) \in ActorState  BY <2>3, Records
  <2>5. /\ entry = "encrypt" => args \in Seal
        /\ entry = "open_secret" => args \in Query
    BY <1>6, <2>2 DEF Enters
  <2>6. Fit(At("C", entry, args))  BY <2>4, <2>5 DEF Fit, At
  <2>7. QED  BY <1>1, <1>3, <1>6, <2>6 DEF Enters, CallsC
<1>7. ASSUME NEW g \in Goroutine, Sign(g) \/ Close(g)  PROVE Typed'
  <2>1. Fit(At("checked", "apikey_sign", <<>>)) /\ Fit(At("closing", "close", <<>>))
    BY Records DEF Fit, At, Entry
  <2>2. \/ st' = [st EXCEPT ![g] = Idle("closed")]
        \/ st' = [st EXCEPT ![g] = Idle("ok")]
        \/ st' = [st EXCEPT ![g] = At("checked", "apikey_sign", <<>>)]
        \/ st' = [st EXCEPT ![g] = At("closing", "close", <<>>)]
    BY <1>7 DEF Sign, Close
  <2>3. QED  BY <1>1, <1>3, <1>4, <2>1, <2>2, Results
<1>8. ASSUME NEW g \in Goroutine, SignEnters(g)  PROVE Typed'
  <2> DEFINE s == [st[g] EXCEPT !.pc = "C", !.ptr = IF handle = "set" THEN "handle" ELSE "null"]
  <2>1. Fit(s)  BY <1>1, <1>2 DEF Fit, ActorState
  <2>2. st' = [st EXCEPT ![g] = s]  BY <1>8 DEF SignEnters
  <2>3. QED  BY <1>1, <1>3, <2>1, <2>2
<1>9. ASSUME NEW a \in Actor, Returns(a)  PROVE Typed'
  <2>1. PICK rc \in guard(body(st[a])) :
          st' = [st EXCEPT ![a] = [st[a] EXCEPT !.pc = "returned",
                   !.result = errFromStatus[rc],
                     !.todo = collected(st[a].entry, errFromStatus[rc])]]
    BY <1>9 DEF Returns
  <2>2. /\ errFromStatus[rc] \in Result
        /\ collected(st[a].entry, errFromStatus[rc]) \in SUBSET (1..4)
    BY Answers
  <2>3. Fit([st[a] EXCEPT !.pc = "returned", !.result = errFromStatus[rc],
                          !.todo = collected(st[a].entry, errFromStatus[rc])])
    BY <1>2, <2>2 DEF Fit, ActorState
  <2>4. QED  BY <1>3, <2>1, <2>3
<1>10. ASSUME NEW a \in Actor, goBytesAndFree(a)  PROVE Typed'
  <2>1. PICK i : st' = [st EXCEPT ![a] = [st[a] EXCEPT !.todo = @ \ {i}]]
    BY <1>10 DEF goBytesAndFree
  <2>2. Fit([st[a] EXCEPT !.todo = @ \ {i}])  BY <1>2 DEF Fit, ActorState
  <2>3. QED  BY <1>3, <2>1, <2>2
<1>11. ASSUME NEW a \in Actor, Finishes(a)  PROVE Typed'
  <2>1. \/ \E entry \in {"apikey_account_id", "apikey_scheme"} : Goes(a, entry)
        \/ st' = [st EXCEPT ![a] = [st[a] EXCEPT !.pc = "closing"]]
        \/ st' = [st EXCEPT ![a] = [Idle(st[a].result) EXCEPT !.late = st[a].late]]
    BY <1>11 DEF Finishes
  <2>2. ASSUME NEW entry \in {"apikey_account_id", "apikey_scheme"}
        PROVE  Fit([At("C", entry, <<>>) EXCEPT !.ptr = "handle"])
    <3>1. At("C", entry, <<>>) \in ActorState  BY Records DEF Entry
    <3>2. QED  BY <3>1 DEF At, Fit, ActorState
  <2>3. Fit([st[a] EXCEPT !.pc = "closing"])  BY <1>2 DEF Fit, ActorState
  <2>4. st[a].result \in Result /\ st[a].late \in BOOLEAN
    BY <1>1 DEF ActorState
  <2>5. Fit([Idle(st[a].result) EXCEPT !.late = st[a].late])
    <3>1. Idle(st[a].result) \in ActorState  BY <2>4, Records
    <3>2. QED  BY <2>4, <3>1, Records DEF Idle, Fit
  <2>6. QED  BY <1>3, <2>1, <2>2, <2>3, <2>5 DEF Goes
<1>12. ASSUME NEW a \in Actor, FreesKey(a) \/ ForgetsHandle(a)  PROVE Typed'
  <2>1. \/ st' = [st EXCEPT ![a] = [st[a] EXCEPT !.pc = "freed"]]
        \/ st' = [st EXCEPT ![a] = Idle(st[a].result)]
    BY <1>12 DEF FreesKey, ForgetsHandle
  <2>2. Fit([st[a] EXCEPT !.pc = "freed"])  BY <1>2 DEF Fit, ActorState
  <2>3. st[a].result \in Result  BY <1>1 DEF ActorState
  <2>4. QED  BY <1>3, <1>4, <2>1, <2>2, <2>3
<1>13. CASE FinalizerRuns
  BY <1>1, <1>3, <1>4, <1>13, Results DEF FinalizerRuns
<1>14. CASE UNCHANGED st  BY <1>14 DEF Typed
<1>15. Drop \/ UNCHANGED vars => UNCHANGED st  BY DEF Drop, vars
<1>16. QED
  BY <1>5, <1>6, <1>7, <1>8, <1>9, <1>10, <1>11, <1>12, <1>13, <1>14, <1>15, NextSteps

-----------------------------------------------------------------------------
(***************************************************************************)
(* Who may hold the handle.                                                *)
(***************************************************************************)
LEMMA StepsStep ==
  ASSUME Typed, Steps, [Next]_vars
  PROVE  Steps'
<1> USE BoundaryAssumption DEF Set
<1>1. /\ st \in [Actor -> ActorState]
      /\ Goroutine \subseteq Actor /\ Collector \in Actor
      /\ \A g \in Goroutine : g # Collector
  BY DEF Typed, Actor
<1> DEFINE Fit(s) == /\ s.pc = "idle" => s.entry = "none"
                     /\ s.pc = "checked" => s.entry = "apikey_sign"
                     /\ s.entry = "apikey_parse" => s.ptr = "null"
           Backstop(s) == s.pc \in {"idle", "closing", "freed"} /\ s.entry = "none"
<1>2. \A a \in Actor : Fit(st[a])  BY DEF Steps
<1>3. ASSUME NEW a \in Actor, NEW s, Fit(s), st' = [st EXCEPT ![a] = s],
             a # Collector \/ Backstop(s)
      PROVE  Steps'
  BY <1>1, <1>2, <1>3 DEF Steps
<1>4. \A r : Fit(Idle(r)) /\ Backstop(Idle(r)) /\ Fit([Idle(r) EXCEPT !.pc = "closing"])
             /\ Backstop([Idle(r) EXCEPT !.pc = "closing"])
  BY DEF Idle
<1> HIDE DEF Fit, Backstop
<1>5. ASSUME NEW g \in Goroutine, Refuses(g)  PROVE Steps'
  BY <1>1, <1>3, <1>4, <1>5 DEF Refuses
<1>6. ASSUME NEW g \in Goroutine, NEW entry \in Entry, NEW args, Enters(g, entry, args)
      PROVE  Steps'
  <2>1. Fit(At("C", entry, args))  BY DEF Fit, At
  <2>2. QED  BY <1>1, <1>3, <1>6, <2>1 DEF Enters, CallsC
<1>7. ASSUME NEW g \in Goroutine, Sign(g) \/ Close(g)  PROVE Steps'
  <2>1. Fit(At("checked", "apikey_sign", <<>>)) /\ Fit(At("closing", "close", <<>>))
    BY DEF Fit, At
  <2>2. \/ st' = [st EXCEPT ![g] = Idle("closed")]
        \/ st' = [st EXCEPT ![g] = Idle("ok")]
        \/ st' = [st EXCEPT ![g] = At("checked", "apikey_sign", <<>>)]
        \/ st' = [st EXCEPT ![g] = At("closing", "close", <<>>)]
    BY <1>7 DEF Sign, Close
  <2>3. QED  BY <1>1, <1>3, <1>4, <2>1, <2>2
<1>8. ASSUME NEW g \in Goroutine, SignEnters(g)  PROVE Steps'
  <2> DEFINE s == [st[g] EXCEPT !.pc = "C", !.ptr = IF handle = "set" THEN "handle" ELSE "null"]
  <2>1. Fit(s)  BY <1>1, <1>8 DEF Fit, ActorState, SignEnters, Steps
  <2>2. st' = [st EXCEPT ![g] = s]  BY <1>8 DEF SignEnters
  <2>3. QED  BY <1>1, <1>3, <2>1, <2>2
<1>9. ASSUME NEW a \in Actor, Returns(a)  PROVE Steps'
  <2>1. PICK rc \in guard(body(st[a])) :
          st' = [st EXCEPT ![a] = [st[a] EXCEPT !.pc = "returned",
                   !.result = errFromStatus[rc],
                     !.todo = collected(st[a].entry, errFromStatus[rc])]]
    BY <1>9 DEF Returns
  <2>2. Fit([st[a] EXCEPT !.pc = "returned", !.result = errFromStatus[rc],
                          !.todo = collected(st[a].entry, errFromStatus[rc])])
    BY <1>1, <1>2 DEF Fit, ActorState
  <2>3. a # Collector  BY <1>9 DEF Returns, Steps
  <2>4. QED  BY <1>3, <2>1, <2>2, <2>3
<1>10. ASSUME NEW a \in Actor, goBytesAndFree(a)  PROVE Steps'
  <2>1. PICK i : st' = [st EXCEPT ![a] = [st[a] EXCEPT !.todo = @ \ {i}]]
    BY <1>10 DEF goBytesAndFree
  <2>2. Fit([st[a] EXCEPT !.todo = @ \ {i}])  BY <1>1, <1>2 DEF Fit, ActorState
  <2>3. a # Collector  BY <1>10 DEF goBytesAndFree, Steps
  <2>4. QED  BY <1>3, <2>1, <2>2, <2>3
<1>11. ASSUME NEW a \in Actor, Finishes(a)  PROVE Steps'
  <2>1. \/ \E entry \in {"apikey_account_id", "apikey_scheme"} : Goes(a, entry)
        \/ /\ st[a].entry \in {"apikey_account_id", "apikey_scheme"}
           /\ st' = [st EXCEPT ![a] = [st[a] EXCEPT !.pc = "closing"]]
        \/ st' = [st EXCEPT ![a] = [Idle(st[a].result) EXCEPT !.late = st[a].late]]
    BY <1>11 DEF Finishes
  <2>2. ASSUME NEW entry \in {"apikey_account_id", "apikey_scheme"}
        PROVE  Fit([At("C", entry, <<>>) EXCEPT !.ptr = "handle"])
    BY DEF At, Fit
  <2>3. st[a].entry \in {"apikey_account_id", "apikey_scheme"} =>
          Fit([st[a] EXCEPT !.pc = "closing"])
    BY <1>1 DEF Fit, ActorState
  <2>4. Fit([Idle(st[a].result) EXCEPT !.late = st[a].late])
    BY DEF Idle, Fit
  <2>5. a # Collector  BY <1>11 DEF Finishes, Steps
  <2>6. QED  BY <1>3, <2>1, <2>2, <2>3, <2>4, <2>5 DEF Goes
<1>12. ASSUME NEW a \in Actor, FreesKey(a) \/ ForgetsHandle(a)  PROVE Steps'
  <2>1. \/ st' = [st EXCEPT ![a] = [st[a] EXCEPT !.pc = "freed"]]
        \/ st' = [st EXCEPT ![a] = Idle(st[a].result)]
    BY <1>12 DEF FreesKey, ForgetsHandle
  <2>2. /\ Fit([st[a] EXCEPT !.pc = "freed"])
        /\ a = Collector => Backstop([st[a] EXCEPT !.pc = "freed"])
    BY <1>1, <1>2 DEF Fit, ActorState, Backstop, Steps
  <2>3. QED  BY <1>3, <1>4, <2>1, <2>2
<1>13. CASE FinalizerRuns
  BY <1>1, <1>3, <1>4, <1>13 DEF FinalizerRuns
<1>14. CASE UNCHANGED st  BY <1>14 DEF Steps
<1>15. Drop \/ UNCHANGED vars => UNCHANGED st  BY DEF Drop, vars
<1>16. QED
  BY <1>5, <1>6, <1>7, <1>8, <1>9, <1>10, <1>11, <1>12, <1>13, <1>14, <1>15, NextSteps

Owners == NobodyBeforeHandle /\ OneConstructor

\* The steps at the handle, one action at a time; the other steps leave the four
\* variables of the key alone and make nobody an owner.
LEMMA OwnersStep ==
  ASSUME Typed, Steps, Owners, [Next]_vars
  PROVE  Owners'
<1> USE BoundaryAssumption DEF Set, shared
<1>1. /\ st \in [Actor -> ActorState]
      /\ Goroutine \subseteq Actor /\ Collector \in Actor
  BY DEF Typed, Actor
<1> DEFINE Con(s) == /\ s.pc # "idle"
                     /\ s.entry \in {"apikey_parse", "apikey_account_id", "apikey_scheme"}
           Closes(s) == s.pc \in {"closing", "freed"}
           Ahead(s) == Closes(s) \/ s.pc = "checked"
           Moves(a, s) == st' = [st EXCEPT ![a] = s]
           Holds(s) == s.pc \in {"C", "returned"} /\ s.entry # "apikey_parse"
\* The owners, read off one actor at a time.
<1>2. /\ handle = "none" => /\ ~reachable /\ ~finalizer /\ key # "freed"
                            /\ \A a \in Actor : ~Ahead(st[a])
      /\ \A a, b \in Actor : Con(st[a]) /\ Con(st[b]) => a = b
      /\ \A a \in Actor : Con(st[a]) /\ st[a].entry = "apikey_parse" =>
           /\ handle = "none" /\ st[a].pc \in {"C", "returned"}
           /\ st[a].pc = "returned" /\ st[a].result = "ok" => key = "live"
      /\ \A a \in Actor : Con(st[a]) /\ st[a].entry # "apikey_parse" => handle # "none"
      /\ \A a \in Actor : Con(st[a]) /\ Holds(st[a]) =>
           key = "live" /\ ~reachable /\ \A b \in Actor : ~Closes(st[b])
  BY DEF Owners, NobodyBeforeHandle, OneConstructor, Closers, Constructs
<1>3. ASSUME
        handle' = "none" => /\ ~reachable' /\ ~finalizer' /\ key' # "freed"
                            /\ \A a \in Actor : ~Ahead(st'[a]),
        \A a, b \in Actor : Con(st'[a]) /\ Con(st'[b]) => a = b,
        \A a \in Actor : Con(st'[a]) /\ st'[a].entry = "apikey_parse" =>
           /\ handle' = "none" /\ st'[a].pc \in {"C", "returned"}
           /\ st'[a].pc = "returned" /\ st'[a].result = "ok" => key' = "live",
        \A a \in Actor : Con(st'[a]) /\ st'[a].entry # "apikey_parse" => handle' # "none",
        \A a \in Actor : Con(st'[a]) /\ Holds(st'[a]) =>
           key' = "live" /\ ~reachable' /\ \A b \in Actor : ~Closes(st'[b])
      PROVE  Owners'
  BY <1>3 DEF Owners, NobodyBeforeHandle, OneConstructor, Closers, Constructs
\* Nothing of the key changes, and the actor that moves is no owner after it.
<1>4. ASSUME NEW a \in Actor, NEW s, Moves(a, s), UNCHANGED shared, ~Con(s),
             Closes(s) => handle # "none" /\ \A b \in Actor : ~(Con(st[b]) /\ Holds(st[b])),
             s.pc = "checked" => handle # "none"
      PROVE  Owners'
  <2>1. /\ \A b \in Actor : b # a => st'[b] = st[b]
        /\ st'[a] = s
    BY <1>1, <1>4
  <2> HIDE DEF Con, Moves, Holds
  <2>2. QED  BY <1>2, <1>3, <1>4, <2>1
\* A step within a call.
<1>5. ASSUME NEW a \in Actor, NEW s, Moves(a, s), UNCHANGED shared,
             s.entry = st[a].entry, s.pc = st[a].pc, s.result = st[a].result
      PROVE  Owners'
  <2>1. /\ \A b \in Actor : b # a => st'[b] = st[b]
        /\ st'[a] = s
    BY <1>1, <1>5
  <2>2. \A b \in Actor : /\ st'[b].entry = st[b].entry /\ st'[b].pc = st[b].pc
                         /\ st'[b].result = st[b].result
    BY <1>5, <2>1
  <2>3. QED  BY <1>2, <1>3, <1>5, <2>2
<1>6. ASSUME NEW g \in Goroutine, Refuses(g)  PROVE Owners'
  BY <1>1, <1>4, <1>6 DEF Refuses, Idle
<1>7. ASSUME NEW g \in Goroutine, NEW entry \in Entry, NEW args, Enters(g, entry, args)
      PROVE  Owners'
  <2>1. /\ Moves(g, At("C", entry, args)) /\ UNCHANGED shared
        /\ entry \in {"encrypt", "open_secret", "verify_plaintext_proof",
                      "signing_payload", "lagrange_for", "apikey_parse"}
        /\ entry = "apikey_parse" => handle = "none" /\ \A a \in Actor : ~Con(st[a])
    BY <1>7 DEF Enters, CallsC, Constructs
  <2>2. CASE entry # "apikey_parse"
    BY <1>1, <1>4, <2>1, <2>2 DEF At
  <2>3. CASE entry = "apikey_parse"
    <3>1. /\ \A b \in Actor : b # g => st'[b] = st[b]
          /\ st'[g].pc = "C" /\ st'[g].entry = "apikey_parse"
      BY <1>1, <2>1, <2>3 DEF At
    <3>2. QED  BY <1>1, <1>2, <1>3, <2>1, <2>3, <3>1
  <2>4. QED  BY <2>2, <2>3
<1>8. ASSUME NEW g \in Goroutine, Sign(g) \/ Close(g)  PROVE Owners'
  <2>1. reachable /\ handle # "none"  BY <1>2, <1>8 DEF Sign, Close
  <2>2. PICK s : Moves(g, s) /\ s \in {Idle("closed"), Idle("ok"),
                   At("checked", "apikey_sign", <<>>), At("closing", "close", <<>>)}
    BY <1>8 DEF Sign, Close
  <2>3. UNCHANGED shared  BY <1>8 DEF Sign, Close
  <2>4. ~Con(s)  BY <2>2 DEF Idle, At
  <2>5. \A b \in Actor : ~(Con(st[b]) /\ Holds(st[b]))  BY <1>2, <2>1
  <2>6. QED  BY <1>1, <1>4, <2>1, <2>2, <2>3, <2>4, <2>5
<1>9. ASSUME NEW g \in Goroutine, SignEnters(g)  PROVE Owners'
  <2> DEFINE s == [st[g] EXCEPT !.pc = "C", !.ptr = IF handle = "set" THEN "handle" ELSE "null"]
  <2>1. Moves(g, s) /\ UNCHANGED shared  BY <1>9 DEF SignEnters
  <2>2. s.pc = "C" /\ s.entry = "apikey_sign"
    BY <1>1, <1>9 DEF ActorState, SignEnters, Steps
  <2> HIDE DEF s
  <2>3. QED  BY <1>1, <1>4, <2>1, <2>2
<1>10. ASSUME NEW a \in Actor, Returns(a)  PROVE Owners'
  <2>1. PICK rc \in guard(body(st[a])) :
          /\ st' = [st EXCEPT ![a] = [st[a] EXCEPT !.pc = "returned",
                     !.result = errFromStatus[rc],
                     !.todo = collected(st[a].entry, errFromStatus[rc])]]
          /\ key' = IF st[a].entry = "apikey_parse" /\ rc = "MSDK_OK"
                      THEN "live" ELSE key
    BY <1>10 DEF Returns
  <2>2. /\ \A b \in Actor : b # a => st'[b] = st[b]
        /\ st'[a].pc = "returned" /\ st'[a].entry = st[a].entry
        /\ st'[a].result = errFromStatus[rc]
    BY <1>1, <2>1 DEF ActorState
  <2>3. st[a].pc = "C" /\ UNCHANGED <<handle, reachable, finalizer>>
    BY <1>10 DEF Returns
  <2>4. errFromStatus[rc] = "ok" <=> rc = "MSDK_OK"  BY Answers
  <2>5. QED  BY <1>2, <1>3, <2>1, <2>2, <2>3, <2>4
<1>11. ASSUME NEW a \in Actor, goBytesAndFree(a)  PROVE Owners'
  <2>1. PICK i : st' = [st EXCEPT ![a] = [st[a] EXCEPT !.todo = @ \ {i}]]
    BY <1>11 DEF goBytesAndFree
  <2>2. UNCHANGED shared  BY <1>11 DEF goBytesAndFree
  <2>3. QED  BY <1>1, <1>5, <2>1, <2>2 DEF ActorState
<1>12. ASSUME NEW a \in Actor, Finishes(a)  PROVE Owners'
  <2>1. /\ st[a].pc = "returned" /\ key' = key
        /\ handle' = IF parsed(st[a]) THEN "set" ELSE handle
        /\ finalizer' = (finalizer \/ parsed(st[a]))
        /\ reachable' = (reachable \/ (st[a].entry = "apikey_scheme"
              /\ ~(st[a].entry \in {"apikey_account_id", "apikey_scheme"} /\ st[a].result # "ok")))
    BY <1>12 DEF Finishes
  <2>2. CASE parsed(st[a]) /\ Goes(a, "apikey_account_id")
    <3>1. /\ \A b \in Actor : b # a => st'[b] = st[b]
          /\ st'[a].pc = "C" /\ st'[a].entry = "apikey_account_id"
      BY <1>1, <2>2 DEF Goes, At
    <3>2. Con(st[a]) /\ st[a].entry = "apikey_parse" /\ st[a].result = "ok"
      BY <2>1, <2>2 DEF parsed
    <3>3. QED  BY <1>2, <1>3, <2>1, <2>2, <3>1, <3>2
  <2>3. CASE /\ st[a].entry = "apikey_account_id" /\ Goes(a, "apikey_scheme")
             /\ st[a].result = "ok"
    <3>1. /\ \A b \in Actor : b # a => st'[b] = st[b]
          /\ st'[a].pc = "C" /\ st'[a].entry = "apikey_scheme"
      BY <1>1, <2>3 DEF Goes, At
    <3>2. ~parsed(st[a]) /\ Con(st[a]) /\ Holds(st[a])
      BY <2>1, <2>3 DEF parsed
    <3>3. QED  BY <1>2, <1>3, <2>1, <2>3, <3>1, <3>2
  <2>4. CASE /\ st[a].entry \in {"apikey_account_id", "apikey_scheme"} /\ st[a].result # "ok"
             /\ st' = [st EXCEPT ![a] = [st[a] EXCEPT !.pc = "closing"]]
    <3>1. /\ \A b \in Actor : b # a => st'[b] = st[b]
          /\ st'[a].pc = "closing" /\ st'[a].entry = st[a].entry
      BY <1>1, <2>4 DEF ActorState
    <3>2. ~parsed(st[a]) /\ Con(st[a]) /\ Holds(st[a])
      BY <2>1, <2>4 DEF parsed
    <3>3. QED  BY <1>2, <1>3, <2>1, <2>4, <3>1, <3>2
  <2>5. CASE /\ ~parsed(st[a])
             /\ st' = [st EXCEPT ![a] = [Idle(st[a].result) EXCEPT !.late = st[a].late]]
    <3>1. /\ \A b \in Actor : b # a => st'[b] = st[b]
          /\ st'[a].pc = "idle"
      BY <1>1, <2>5 DEF Idle
    <3>2. st[a].entry = "apikey_scheme" => Con(st[a]) /\ Holds(st[a])
      BY <2>1
    <3>3. UNCHANGED <<key, handle>> /\ (finalizer' => finalizer)  BY <2>1, <2>5
    <3>4. ~Con(st'[a]) /\ ~Closes(st'[a]) /\ ~Ahead(st'[a])  BY <3>1
    <3>5. CASE st[a].entry # "apikey_scheme"
      <4>1. reachable' => reachable  BY <2>1, <3>5
      <4> HIDE DEF Con, Closes, Ahead, Holds
      <4>2. QED  BY <1>2, <1>3, <3>1, <3>3, <3>4, <4>1
    <3>6. CASE st[a].entry = "apikey_scheme"
      <4>1. \A b \in Actor : ~Con(st'[b])  BY <1>2, <3>1, <3>2, <3>4, <3>6
      <4> HIDE DEF Con, Closes, Ahead, Holds
      <4>2. QED  BY <1>2, <1>3, <2>1, <3>1, <3>2, <3>3, <3>4, <3>6, <4>1
    <3>7. QED  BY <3>5, <3>6
  <2>6. QED  BY <1>12, <2>2, <2>3, <2>4, <2>5 DEF Finishes
<1>13. ASSUME NEW a \in Actor, FreesKey(a) \/ ForgetsHandle(a)  PROVE Owners'
  <2>1. /\ Closes(st[a]) /\ UNCHANGED reachable
        /\ handle' = handle \/ handle' = "nil"
        /\ \/ st' = [st EXCEPT ![a] = [st[a] EXCEPT !.pc = "freed"]]
           \/ st' = [st EXCEPT ![a] = Idle(st[a].result)]
    BY <1>13 DEF FreesKey, ForgetsHandle
  <2>2. /\ \A b \in Actor : b # a => st'[b] = st[b]
        /\ \/ st'[a].pc = "freed" /\ st'[a].entry = st[a].entry
           \/ st'[a].pc = "idle"
    BY <1>1, <2>1 DEF ActorState, Idle
  <2>3. QED  BY <1>2, <1>3, <2>1, <2>2
<1>14. CASE FinalizerRuns
  <2>1. /\ Moves(Collector, [Idle("none") EXCEPT !.pc = "closing"])
        /\ finalizer /\ UNCHANGED <<handle, key, reachable>>
        /\ \A a \in Actor : ~Con(st[a])
    BY <1>14 DEF FinalizerRuns, Refers, Constructs
  <2>2. /\ \A b \in Actor : b # Collector => st'[b] = st[b]
        /\ st'[Collector].pc = "closing" /\ st'[Collector].entry = "none"
    BY <1>1, <2>1 DEF Idle
  <2>3. QED  BY <1>2, <1>3, <2>1, <2>2
<1>15. CASE Drop
  <2>1. reachable' = FALSE /\ UNCHANGED <<handle, key, finalizer, st>>  BY <1>15 DEF Drop
  <2>2. QED  BY <1>2, <1>3, <2>1
<1>16. CASE UNCHANGED vars
  <2>1. UNCHANGED <<handle, key, reachable, finalizer, st>>  BY <1>16 DEF vars
  <2>2. QED  BY <1>2, <1>3, <2>1
<1>17. QED
  BY <1>6, <1>7, <1>8, <1>9, <1>10, <1>11, <1>12, <1>13, <1>14, <1>15, <1>16, NextSteps

-----------------------------------------------------------------------------
(***************************************************************************)
(* The variables outside the actors.                                       *)
(***************************************************************************)
LEMMA SharedStep ==
  ASSUME TypeOK, Typed, Steps, Owners, [Next]_vars
  PROVE  /\ handle' \in {"none", "set", "nil"}
         /\ handle' # "none" => key' # "none"
         /\ key' \in {"none", "live", "freed"}
<1> USE BoundaryAssumption DEF shared
<1>1. /\ handle \in {"none", "set", "nil"} /\ (handle # "none" => key # "none")
      /\ key \in {"none", "live", "freed"}
  BY DEF TypeOK
<1>2. CASE UNCHANGED <<handle, key>>  BY <1>1, <1>2
<1>3. ASSUME NEW a \in Actor, Returns(a)
      PROVE  handle' = handle /\ key' \in {"live", key}
  BY <1>3 DEF Returns
<1>4. ASSUME NEW a \in Actor, FreesKey(a)
      PROVE  handle' = handle /\ (key' = key \/ key' = "freed")
  BY <1>4 DEF FreesKey
<1>5. ASSUME NEW a \in Actor, ForgetsHandle(a)
      PROVE  handle' = "nil" /\ key' = key /\ handle # "none"
  BY <1>5 DEF ForgetsHandle, Owners, NobodyBeforeHandle, Closers
<1>6. ASSUME NEW a \in Actor, Finishes(a)
      PROVE  key' = key /\ (handle' = handle \/ (handle' = "set" /\ key # "none"))
  <2>1. key' = key /\ handle' = IF parsed(st[a]) THEN "set" ELSE handle
    BY <1>6 DEF Finishes
  <2>2. st[a].pc = "returned"  BY <1>6 DEF Finishes
  <2>3. parsed(st[a]) => key = "live"
    BY <2>2 DEF parsed, Owners, OneConstructor, Constructs
  <2>4. QED  BY <2>1, <2>3
<1>7. (\E g \in Goroutine :
         \/ Refuses(g) \/ \E entry \in Entry : \E args : Enters(g, entry, args)
         \/ Sign(g) \/ SignEnters(g) \/ Close(g))
      \/ (\E a \in Actor : goBytesAndFree(a)) \/ Drop \/ FinalizerRuns \/ UNCHANGED vars
        => UNCHANGED <<handle, key>>
  BY DEF Refuses, Enters, CallsC, Sign, SignEnters, Close, goBytesAndFree, Drop,
         FinalizerRuns, vars
<1>8. QED  BY <1>1, <1>2, <1>3, <1>4, <1>5, <1>6, <1>7, NextSteps

LEMMA FlagsStep ==
  ASSUME TypeOK, [Next]_vars
  PROVE  {reachable', finalizer', closed', closes', overlapped'} \subseteq BOOLEAN
<1> USE BoundaryAssumption DEF shared, history
<1>1. /\ reachable \in BOOLEAN /\ finalizer \in BOOLEAN /\ closed \in BOOLEAN
      /\ closes \in BOOLEAN /\ overlapped \in BOOLEAN
  BY Zenon DEF TypeOK
<1>2. ASSUME NEW g \in Goroutine,
             \/ Refuses(g) \/ \E entry \in Entry : \E args : Enters(g, entry, args)
             \/ Sign(g) \/ SignEnters(g) \/ Close(g)
      PROVE  /\ reachable' \in BOOLEAN /\ finalizer' \in BOOLEAN /\ closed' \in BOOLEAN
             /\ closes' \in BOOLEAN /\ overlapped' \in BOOLEAN
  BY <1>1, <1>2 DEF Refuses, Enters, CallsC, Sign, SignEnters, Close
<1>3. ASSUME NEW a \in Actor,
             Returns(a) \/ goBytesAndFree(a) \/ Finishes(a) \/ FreesKey(a) \/ ForgetsHandle(a)
      PROVE  /\ reachable' \in BOOLEAN /\ finalizer' \in BOOLEAN /\ closed' \in BOOLEAN
             /\ closes' \in BOOLEAN /\ overlapped' \in BOOLEAN
  BY <1>1, <1>3 DEF Returns, goBytesAndFree, Finishes, FreesKey, ForgetsHandle
<1>4. ASSUME Drop \/ FinalizerRuns \/ UNCHANGED vars
      PROVE  /\ reachable' \in BOOLEAN /\ finalizer' \in BOOLEAN /\ closed' \in BOOLEAN
             /\ closes' \in BOOLEAN /\ overlapped' \in BOOLEAN
  BY <1>1, <1>4 DEF Drop, FinalizerRuns, vars
<1>5. QED  BY <1>2, <1>3, <1>4, NextSteps

LEMMA CountersStep ==
  ASSUME TypeOK, Typed, [Next]_vars
  PROVE  /\ calls' \in 0..MaxCalls /\ faults' \subseteq {"use", "free"}
         /\ sealed' \in [Goroutine -> Sealed]
<1> USE BoundaryAssumption DEF shared, history
<1>1. /\ calls \in 0..MaxCalls /\ faults \subseteq {"use", "free"}
      /\ sealed \in [Goroutine -> Sealed]
  BY DEF TypeOK
<1>2. CASE UNCHANGED <<calls, faults, sealed>>  BY <1>1, <1>2
<1>3. ASSUME NEW g \in Goroutine, Starts(g), UNCHANGED <<faults, sealed>>
      PROVE  calls' \in 0..MaxCalls /\ faults' = faults /\ sealed' = sealed
  BY <1>1, <1>3 DEF Starts
<1>4. ASSUME NEW g \in Goroutine,
             \/ Refuses(g) \/ \E entry \in Entry : \E args : Enters(g, entry, args)
             \/ Sign(g) \/ Close(g)
      PROVE  Starts(g) /\ UNCHANGED <<faults, sealed>>
  BY <1>4 DEF Refuses, Enters, CallsC, Sign, Close
<1>5. ASSUME NEW a \in Actor, Returns(a)
      PROVE  /\ calls' = calls /\ faults' \subseteq {"use", "free"}
             /\ sealed' \in [Goroutine -> Sealed]
  <2>1. calls' = calls /\ faults' \subseteq faults \cup {"use"}
    BY <1>5 DEF Returns
  <2>2. \/ sealed' = sealed
        \/ st[a].entry = "encrypt" /\ sealed' = [sealed EXCEPT ![a] = envelope(st[a].args)]
    BY <1>5 DEF Returns
  <2>3. st[a].args \in Seal => envelope(st[a].args) \in Sealed
    BY DEF envelope, Sealed, Seal, binding_or_random, Blob
  <2>4. sealed' \in [Goroutine -> Sealed]
    BY <1>1, <2>2, <2>3 DEF Typed
  <2>5. QED  BY <1>1, <2>1, <2>4
<1>6. ASSUME NEW a \in Actor, FreesKey(a)
      PROVE  UNCHANGED <<calls, sealed>> /\ faults' \subseteq faults \cup {"free"}
  BY <1>6 DEF FreesKey
<1>7. (\E g \in Goroutine : SignEnters(g))
      \/ (\E a \in Actor : goBytesAndFree(a) \/ Finishes(a) \/ ForgetsHandle(a))
      \/ Drop \/ FinalizerRuns \/ UNCHANGED vars
        => UNCHANGED <<calls, faults, sealed>>
  BY DEF SignEnters, goBytesAndFree, Finishes, ForgetsHandle, Drop, FinalizerRuns, vars
<1>8. QED
  BY <1>1, <1>2, <1>3, <1>4, <1>5, <1>6, <1>7, NextSteps

-----------------------------------------------------------------------------
(***************************************************************************)
(* A fault was preceded by an overlap.                                     *)
(***************************************************************************)
Noticed == FreedIsNoticed /\ (faults # {} => overlapped)

LEMMA NoticedStep ==
  ASSUME TypeOK, Typed, Steps, Owners, Noticed, [Next]_vars
  PROVE  Noticed'
<1> USE BoundaryAssumption DEF Set, shared, history
<1>1. /\ st \in [Actor -> ActorState]
      /\ Goroutine \subseteq Actor /\ Collector \in Actor
  BY DEF Typed, Actor
<1> DEFINE Has(s) == s.pc = "C" /\ s.ptr = "handle"
           Moves(a, s) == st' = [st EXCEPT ![a] = s]
<1>2. /\ key = "freed" /\ handle = "set" => \E a \in Actor : st[a].pc = "freed"
      /\ \A a \in Actor : Has(st[a]) /\ key # "live" => overlapped
      /\ faults # {} => overlapped
  BY DEF Noticed, FreedIsNoticed
<1>3. ASSUME key' = "freed" /\ handle' = "set" => \E a \in Actor : st'[a].pc = "freed",
             \A a \in Actor : Has(st'[a]) /\ key' # "live" => overlapped',
             faults' # {} => overlapped'
      PROVE  Noticed'
  BY <1>3 DEF Noticed, FreedIsNoticed
\* An actor that had not freed the key moves, and holds the handle only if the key
\* is live or the overlap is noted.
<1>4. ASSUME NEW a \in Actor, NEW s, Moves(a, s), UNCHANGED key,
             handle' = "set" /\ key = "freed" => handle = "set",
             overlapped => overlapped', faults' # {} => overlapped',
             st[a].pc # "freed", Has(s) => key = "live" \/ overlapped'
      PROVE  Noticed'
  <2>1. /\ \A b \in Actor : b # a => st'[b] = st[b]
        /\ st'[a] = s
    BY <1>1, <1>4
  <2>2. QED  BY <1>2, <1>3, <1>4, <2>1
<1>5. ASSUME NEW g \in Goroutine,
             \/ Refuses(g) \/ \E entry \in Entry : \E args : Enters(g, entry, args)
             \/ Sign(g) \/ Close(g)
      PROVE  Noticed'
  <2>1. PICK s : /\ Moves(g, s) /\ ~Has(s) /\ st[g].pc = "idle"
                 /\ UNCHANGED <<handle, key, overlapped, faults>>
    <3>1. \A r : ~Has(Idle(r))  BY DEF Idle
    <3>2. \A pc, entry, args : ~Has(At(pc, entry, args))  BY DEF At
    <3> HIDE DEF Has
    <3>3. QED  BY <1>5, <3>1, <3>2 DEF Refuses, Enters, CallsC, Sign, Close, Starts
  <2>2. QED  BY <1>1, <1>2, <1>4, <2>1
<1>6. ASSUME NEW g \in Goroutine, SignEnters(g)  PROVE Noticed'
  <2> DEFINE s == [st[g] EXCEPT !.pc = "C", !.ptr = IF handle = "set" THEN "handle" ELSE "null"]
  <2>1. /\ Moves(g, s) /\ st[g].pc = "checked" /\ UNCHANGED <<handle, key, faults>>
        /\ overlapped' = (overlapped \/ \E a \in Actor : st[a].pc \in {"closing", "freed"})
    BY <1>6 DEF SignEnters
  <2>2. Has(s) => handle = "set"  BY <1>1 DEF ActorState
  <2>3. handle = "set" => key \in {"live", "freed"}  BY DEF TypeOK
  <2> HIDE DEF s, Has
  <2>4. QED  BY <1>1, <1>2, <1>4, <2>1, <2>2, <2>3
<1>7. ASSUME NEW a \in Actor, Returns(a)  PROVE Noticed'
  <2>1. PICK rc \in guard(body(st[a])) :
          /\ st' = [st EXCEPT ![a] = [st[a] EXCEPT !.pc = "returned",
                     !.result = errFromStatus[rc],
                     !.todo = collected(st[a].entry, errFromStatus[rc])]]
          /\ key' = IF st[a].entry = "apikey_parse" /\ rc = "MSDK_OK"
                      THEN "live" ELSE key
    BY <1>7 DEF Returns
  <2>2. /\ \A b \in Actor : b # a => st'[b] = st[b]
        /\ st'[a].pc = "returned"
    BY <1>1, <2>1 DEF ActorState
  <2>3. /\ st[a].pc = "C" /\ UNCHANGED <<handle, overlapped>>
        /\ faults' = IF st[a].ptr = "handle" /\ key # "live" THEN faults \cup {"use"} ELSE faults
    BY <1>7 DEF Returns
  <2>4. QED  BY <1>2, <1>3, <2>1, <2>2, <2>3
<1>8. ASSUME NEW a \in Actor, goBytesAndFree(a)  PROVE Noticed'
  <2>1. PICK i : st' = [st EXCEPT ![a] = [st[a] EXCEPT !.todo = @ \ {i}]]
    BY <1>8 DEF goBytesAndFree
  <2>2. /\ st[a].pc = "returned" /\ UNCHANGED <<handle, key, overlapped, faults>>
    BY <1>8 DEF goBytesAndFree
  <2>3. QED  BY <1>1, <1>2, <1>4, <2>1, <2>2 DEF ActorState
<1>9. ASSUME NEW a \in Actor, Finishes(a)  PROVE Noticed'
  <2>1. /\ st[a].pc = "returned" /\ UNCHANGED <<key, overlapped, faults>>
        /\ handle' = IF parsed(st[a]) THEN "set" ELSE handle
    BY <1>9 DEF Finishes
  <2>2. parsed(st[a]) => key = "live"
    BY <2>1 DEF parsed, Owners, OneConstructor, Constructs
  <2>3. st[a].entry = "apikey_account_id" => key = "live"
    BY <2>1 DEF Owners, OneConstructor, Constructs
  <2>4. \/ key = "live" /\ \E s : Moves(a, s)
        \/ st' = [st EXCEPT ![a] = [st[a] EXCEPT !.pc = "closing"]]
        \/ st' = [st EXCEPT ![a] = [Idle(st[a].result) EXCEPT !.late = st[a].late]]
    BY <1>9, <2>2, <2>3 DEF Finishes, Goes
  <2>5. \E s : Moves(a, s) /\ (Has(s) => key = "live")
    BY <1>1, <2>4 DEF ActorState, Idle
  <2>6. QED  BY <1>2, <1>4, <2>1, <2>2, <2>5
<1>10. ASSUME NEW a \in Actor, FreesKey(a)  PROVE Noticed'
  <2>1. /\ st' = [st EXCEPT ![a] = [st[a] EXCEPT !.pc = "freed"]]
        /\ st[a].pc = "closing" /\ handle' = handle
        /\ key' = IF handle = "set" THEN "freed" ELSE key
        /\ faults' = IF handle = "set" /\ key # "live" THEN faults \cup {"free"} ELSE faults
        /\ overlapped' = (overlapped \/ \E b \in Actor \ {a} :
                             Has(st[b]) \/ st[b].pc \in {"closing", "freed"})
    BY <1>10 DEF FreesKey
  <2>2. /\ \A b \in Actor : b # a => st'[b] = st[b]
        /\ st'[a].pc = "freed"
    BY <1>1, <2>1 DEF ActorState
  <2>3. handle = "set" => key \in {"live", "freed"}  BY DEF TypeOK
  <2> HIDE DEF Has
  <2>4. faults' # {} => overlapped'  BY <1>2, <2>1, <2>3
  <2>5. \A b \in Actor : ~Has(st'[a])  BY <2>2 DEF Has
  <2>6. \A b \in Actor : Has(st'[b]) /\ key' # "live" => overlapped'
    BY <1>2, <2>1, <2>2, <2>5
  <2>7. QED  BY <1>3, <2>2, <2>4, <2>6
<1>11. ASSUME NEW a \in Actor, ForgetsHandle(a)  PROVE Noticed'
  <2>1. /\ Moves(a, Idle(st[a].result)) /\ handle' = "nil"
        /\ UNCHANGED <<key, overlapped, faults>>
    BY <1>11 DEF ForgetsHandle
  <2>2. /\ \A b \in Actor : b # a => st'[b] = st[b]
        /\ ~Has(st'[a])
    BY <1>1, <2>1 DEF Idle
  <2>3. QED  BY <1>2, <1>3, <2>1, <2>2
<1>12. CASE FinalizerRuns
  <2>1. /\ Moves(Collector, [Idle("none") EXCEPT !.pc = "closing"])
        /\ UNCHANGED <<handle, key, overlapped, faults>>
        /\ st[Collector].pc # "freed"
    BY <1>1, <1>12 DEF FinalizerRuns, Refers
  <2>2. ~Has([Idle("none") EXCEPT !.pc = "closing"])  BY DEF Idle
  <2>3. QED  BY <1>1, <1>2, <1>4, <2>1, <2>2
<1>13. CASE Drop \/ UNCHANGED vars
  <2>1. UNCHANGED <<handle, key, st, overlapped, faults>>  BY <1>13 DEF Drop, vars
  <2>2. QED  BY <1>2, <1>3, <2>1
<1>14. QED
  BY <1>5, <1>6, <1>7, <1>8, <1>9, <1>10, <1>11, <1>12, <1>13, NextSteps

-----------------------------------------------------------------------------
(***************************************************************************)
(* After a Close.                                                          *)
(***************************************************************************)
LEMMA ClosedStep ==
  ASSUME TypeOK, Typed, Steps, Owners, ClosedIsClosed, [Next]_vars
  PROVE  ClosedIsClosed'
<1> USE BoundaryAssumption DEF Set, shared, history
<1>1. /\ st \in [Actor -> ActorState]
      /\ Goroutine \subseteq Actor /\ Collector \in Actor
  BY DEF Typed, Actor
<1> DEFINE Early(s) == s.entry = "apikey_sign" => ~s.late
           Moves(a, s) == st' = [st EXCEPT ![a] = s]
<1>2. (closed => handle = "nil") /\ \A a \in Actor : Early(st[a])
  BY DEF ClosedIsClosed
<1>3. ASSUME NEW a \in Actor, NEW s, Moves(a, s), Early(s), closed' => handle' = "nil"
      PROVE  ClosedIsClosed'
  <2>1. /\ \A b \in Actor : b # a => st'[b] = st[b]
        /\ st'[a] = s
    BY <1>1, <1>3
  <2>2. QED  BY <1>2, <1>3, <2>1 DEF ClosedIsClosed
<1>5. \A r : Early(Idle(r)) /\ Early([Idle(r) EXCEPT !.pc = "closing"])
  BY DEF Idle
<1>6. \A pc, entry, args :
         (entry = "apikey_sign" => ~closed) =>
            Early(At(pc, entry, args)) /\ Early([At(pc, entry, args) EXCEPT !.ptr = "handle"])
  BY DEF At
<1>7. ASSUME NEW g \in Goroutine, Refuses(g)  PROVE ClosedIsClosed'
  <2>1. Moves(g, Idle("ErrInvalidArg")) /\ UNCHANGED <<handle, closed>>
    BY <1>7 DEF Refuses
  <2> HIDE DEF Early
  <2>2. QED  BY <1>1, <1>2, <1>3, <1>5, <2>1
<1>8. ASSUME NEW g \in Goroutine, NEW entry \in Entry, NEW args, Enters(g, entry, args)
      PROVE  ClosedIsClosed'
  <2>1. Moves(g, At("C", entry, args)) /\ UNCHANGED <<handle, closed>>
        /\ entry # "apikey_sign"
    BY <1>8 DEF Enters, CallsC
  <2> HIDE DEF Early
  <2>2. QED  BY <1>1, <1>2, <1>3, <1>6, <2>1
<1>9. ASSUME NEW g \in Goroutine, Sign(g)  PROVE ClosedIsClosed'
  <2>1. /\ UNCHANGED <<handle, closed>>
        /\ \/ handle = "nil" /\ Moves(g, Idle("closed"))
           \/ handle # "nil" /\ Moves(g, At("checked", "apikey_sign", <<>>))
    BY <1>9 DEF Sign
  <2> HIDE DEF Early, Moves
  <2>2. CASE handle = "nil" /\ Moves(g, Idle("closed"))
    BY <1>1, <1>2, <1>3, <1>5, <2>1, <2>2
  <2>3. CASE handle # "nil" /\ Moves(g, At("checked", "apikey_sign", <<>>))
    <3>1. Early(At("checked", "apikey_sign", <<>>))  BY <1>2, <1>6, <2>3
    <3>2. QED  BY <1>1, <1>2, <1>3, <2>1, <2>3, <3>1
  <2>4. QED  BY <2>1, <2>2, <2>3
<1>10. ASSUME NEW g \in Goroutine, Close(g)  PROVE ClosedIsClosed'
  <2>1. /\ handle' = handle
        /\ \/ handle = "nil" /\ Moves(g, Idle("ok")) /\ closed' = TRUE
           \/ handle # "nil" /\ Moves(g, At("closing", "close", <<>>)) /\ closed' = closed
    BY <1>10 DEF Close
  <2> HIDE DEF Early, Moves
  <2>2. CASE handle = "nil" /\ Moves(g, Idle("ok"))
    BY <1>1, <1>2, <1>3, <1>5, <2>1, <2>2
  <2>3. CASE handle # "nil" /\ Moves(g, At("closing", "close", <<>>)) /\ closed' = closed
    <3>1. Early(At("closing", "close", <<>>))  BY <1>2, <1>6, <2>3
    <3>2. QED  BY <1>1, <1>2, <1>3, <2>1, <2>3, <3>1
  <2>4. QED  BY <2>1, <2>2, <2>3
<1>11. ASSUME NEW g \in Goroutine, SignEnters(g)  PROVE ClosedIsClosed'
  <2> DEFINE s == [st[g] EXCEPT !.pc = "C", !.ptr = IF handle = "set" THEN "handle" ELSE "null"]
  <2>1. Moves(g, s) /\ UNCHANGED <<handle, closed>>  BY <1>11 DEF SignEnters
  <2>2. Early(s)  BY <1>1, <1>2 DEF ActorState
  <2> HIDE DEF Early, s
  <2>3. QED  BY <1>1, <1>2, <1>3, <2>1, <2>2
<1>12. ASSUME NEW a \in Actor, Returns(a)  PROVE ClosedIsClosed'
  <2>1. PICK rc : st' = [st EXCEPT ![a] = [st[a] EXCEPT !.pc = "returned",
                     !.result = errFromStatus[rc],
                     !.todo = collected(st[a].entry, errFromStatus[rc])]]
    BY <1>12 DEF Returns
  <2>2. Early([st[a] EXCEPT !.pc = "returned", !.result = errFromStatus[rc],
                            !.todo = collected(st[a].entry, errFromStatus[rc])])
    BY <1>1, <1>2 DEF ActorState
  <2>3. UNCHANGED <<handle, closed>>  BY <1>12 DEF Returns
  <2> HIDE DEF Early
  <2>4. QED  BY <1>2, <1>3, <2>1, <2>2, <2>3
<1>13. ASSUME NEW a \in Actor, goBytesAndFree(a)  PROVE ClosedIsClosed'
  <2>1. PICK i : st' = [st EXCEPT ![a] = [st[a] EXCEPT !.todo = @ \ {i}]]
    BY <1>13 DEF goBytesAndFree
  <2>2. Early([st[a] EXCEPT !.todo = @ \ {i}])  BY <1>1, <1>2 DEF ActorState
  <2>3. UNCHANGED <<handle, closed>>  BY <1>13 DEF goBytesAndFree
  <2> HIDE DEF Early
  <2>4. QED  BY <1>2, <1>3, <2>1, <2>2, <2>3
<1>14. ASSUME NEW a \in Actor, Finishes(a)  PROVE ClosedIsClosed'
  <2>1. /\ st[a].pc = "returned" /\ closed' = closed
        /\ handle' = IF parsed(st[a]) THEN "set" ELSE handle
    BY <1>14 DEF Finishes
  <2>2. parsed(st[a]) => handle = "none"
    BY <2>1 DEF parsed, Owners, OneConstructor, Constructs
  <2>3. \/ Moves(a, [At("C", "apikey_account_id", <<>>) EXCEPT !.ptr = "handle"])
        \/ Moves(a, [At("C", "apikey_scheme", <<>>) EXCEPT !.ptr = "handle"])
        \/ Moves(a, [st[a] EXCEPT !.pc = "closing"])
        \/ Moves(a, [Idle(st[a].result) EXCEPT !.late = st[a].late])
    BY <1>14 DEF Finishes, Goes
  <2>4. /\ Early([st[a] EXCEPT !.pc = "closing"])
        /\ Early([Idle(st[a].result) EXCEPT !.late = st[a].late])
    BY <1>1, <1>2 DEF ActorState, Idle
  <2> HIDE DEF Early
  <2>5. QED  BY <1>2, <1>3, <1>6, <2>1, <2>2, <2>3, <2>4
<1>15. ASSUME NEW a \in Actor, FreesKey(a)  PROVE ClosedIsClosed'
  <2>1. Moves(a, [st[a] EXCEPT !.pc = "freed"]) /\ UNCHANGED <<handle, closed>>
    BY <1>15 DEF FreesKey
  <2>2. Early([st[a] EXCEPT !.pc = "freed"])  BY <1>1, <1>2 DEF ActorState
  <2> HIDE DEF Early
  <2>3. QED  BY <1>2, <1>3, <2>1, <2>2
<1>16. ASSUME NEW a \in Actor, ForgetsHandle(a)  PROVE ClosedIsClosed'
  <2>1. Moves(a, Idle(st[a].result)) /\ handle' = "nil"
    BY <1>16 DEF ForgetsHandle
  <2> HIDE DEF Early
  <2>2. QED  BY <1>3, <1>5, <2>1
<1>17. CASE FinalizerRuns
  <2>1. Moves(Collector, [Idle("none") EXCEPT !.pc = "closing"]) /\ UNCHANGED <<handle, closed>>
    BY <1>17 DEF FinalizerRuns
  <2> HIDE DEF Early
  <2>2. QED  BY <1>1, <1>2, <1>3, <1>5, <2>1
<1>18. CASE Drop \/ UNCHANGED vars
  <2>1. UNCHANGED <<handle, closed, st>>  BY <1>18 DEF Drop, vars
  <2>2. QED  BY <2>1 DEF ClosedIsClosed
<1>19. QED
  BY <1>7, <1>8, <1>9, <1>10, <1>11, <1>12, <1>13, <1>14, <1>15, <1>16, <1>17, <1>18,
     NextSteps

-----------------------------------------------------------------------------
(***************************************************************************)
(* Buffers.                                                                *)
(***************************************************************************)
\* Only a call that returned has something to collect.
Buffers ==
  /\ BuffersAreReleasedOnce
  /\ \A a \in Actor : st[a].todo # {} => st[a].pc = "returned"

LEMMA BuffersStep ==
  ASSUME Typed, Steps, Buffers, [Next]_vars
  PROVE  Buffers'
<1> USE BoundaryAssumption DEF Set, shared, history
<1>1. /\ st \in [Actor -> ActorState]
      /\ Goroutine \subseteq Actor /\ Collector \in Actor
  BY DEF Typed, Actor
<1> DEFINE Moves(a, s) == st' = [st EXCEPT ![a] = s]
<1>2. /\ heap = {b \in Actor \X (1..4) : b[2] \in st[b[1]].todo}
      /\ \A a \in Actor : st[a].todo # {} => st[a].pc = "returned"
  BY DEF Buffers, BuffersAreReleasedOnce
\* An actor with nothing to free moves on with nothing to free.
<1>3. ASSUME NEW a \in Actor, NEW s, Moves(a, s), s.todo = {}, st[a].todo = {}, heap' = heap
      PROVE  Buffers'
  <2>1. /\ \A b \in Actor : b # a => st'[b] = st[b]
        /\ st'[a].todo = {}
    BY <1>1, <1>3
  <2>2. \A b \in Actor : st'[b].todo = st[b].todo  BY <1>3, <2>1
  <2>3. heap' = {b \in Actor \X (1..4) : b[2] \in st'[b[1]].todo}
    BY <1>2, <1>3, <2>2
  <2>4. QED  BY <1>2, <2>1, <2>3 DEF Buffers, BuffersAreReleasedOnce
<1>4. \A r : Idle(r).todo = {}  BY DEF Idle
<1>5. \A pc, entry, args : At(pc, entry, args).todo = {}  BY DEF At
<1>6. ASSUME NEW g \in Goroutine,
             \/ Refuses(g) \/ \E entry \in Entry : \E args : Enters(g, entry, args)
             \/ Sign(g) \/ Close(g)
      PROVE  Buffers'
  <2>1. st[g].todo = {} /\ heap' = heap
    BY <1>1, <1>2, <1>6 DEF Refuses, Enters, CallsC, Sign, Close, Starts
  <2>2. \E s : Moves(g, s) /\ s.todo = {}
    <3>1. \/ Moves(g, Idle("ErrInvalidArg")) \/ Moves(g, Idle("closed")) \/ Moves(g, Idle("ok"))
          \/ \E pc, entry, args : Moves(g, At(pc, entry, args))
      BY <1>6 DEF Refuses, Enters, CallsC, Sign, Close
    <3> HIDE DEF Moves
    <3>2. QED  BY <1>4, <1>5, <3>1
  <2>3. QED  BY <1>1, <1>3, <2>1, <2>2
<1>7. ASSUME NEW g \in Goroutine, SignEnters(g)  PROVE Buffers'
  <2> DEFINE s == [st[g] EXCEPT !.pc = "C", !.ptr = IF handle = "set" THEN "handle" ELSE "null"]
  <2>1. Moves(g, s) /\ st[g].pc = "checked" /\ heap' = heap  BY <1>7 DEF SignEnters
  <2>2. st[g].todo = {}  BY <1>1, <1>2, <2>1
  <2>3. s.todo = {}  BY <1>1, <2>2 DEF ActorState
  <2>4. QED  BY <1>1, <1>3, <2>1, <2>2, <2>3
<1>8. ASSUME NEW a \in Actor, Returns(a)  PROVE Buffers'
  <2>1. PICK rc \in guard(body(st[a])) :
          /\ st' = [st EXCEPT ![a] = [st[a] EXCEPT !.pc = "returned",
                     !.result = errFromStatus[rc],
                     !.todo = collected(st[a].entry, errFromStatus[rc])]]
          /\ heap' = heap \cup ({a} \X written(st[a].entry, rc))
    BY <1>8 DEF Returns
  <2>2. /\ \A b \in Actor : b # a => st'[b] = st[b]
        /\ st'[a].pc = "returned"
        /\ st'[a].todo = collected(st[a].entry, errFromStatus[rc])
    BY <1>1, <2>1 DEF ActorState
  <2>3. /\ written(st[a].entry, rc) \subseteq 1..4
        /\ st'[a].todo = written(st[a].entry, rc)
    BY <2>2, Answers
  <2>4. st[a].todo = {}  BY <1>2, <1>8 DEF Returns
  <2>5. heap' = {b \in Actor \X (1..4) : b[2] \in st'[b[1]].todo}
    <3>1. ASSUME NEW b \in Actor, NEW i \in 1..4
          PROVE  <<b, i>> \in heap' <=> i \in st'[b].todo
      BY <1>2, <2>1, <2>2, <2>3, <2>4
    <3>2. heap' \subseteq Actor \X (1..4)  BY <1>2, <2>1, <2>3
    <3>3. ASSUME NEW b \in Actor \X (1..4)
          PROVE  b \in heap' <=> b[2] \in st'[b[1]].todo
      <4>1. b[1] \in Actor /\ b[2] \in 1..4 /\ b = <<b[1], b[2]>>
        OBVIOUS
      <4>2. <<b[1], b[2]>> \in heap' <=> b[2] \in st'[b[1]].todo
        BY <3>1, <4>1, Zenon
      <4>3. QED  BY <4>1, <4>2, Zenon
    <3>4. QED  BY <3>2, <3>3
  <2>6. QED  BY <1>2, <2>2, <2>3, <2>5 DEF Buffers, BuffersAreReleasedOnce
<1>9. ASSUME NEW a \in Actor, goBytesAndFree(a)  PROVE Buffers'
  <2>1. PICK i : /\ st' = [st EXCEPT ![a] = [st[a] EXCEPT !.todo = @ \ {i}]]
                 /\ heap' = heap \ {<<a, i>>}
    BY <1>9 DEF goBytesAndFree, msdk_free
  <2>2. /\ \A b \in Actor : b # a => st'[b] = st[b]
        /\ st'[a].pc = st[a].pc /\ st'[a].todo = st[a].todo \ {i}
    BY <1>1, <2>1 DEF ActorState
  <2>3. heap' = {b \in Actor \X (1..4) : b[2] \in st'[b[1]].todo}
    <3>1. ASSUME NEW b \in Actor, NEW j \in 1..4
          PROVE  <<b, j>> \in heap' <=> j \in st'[b].todo
      BY <1>2, <2>1, <2>2
    <3>2. heap' \subseteq Actor \X (1..4)  BY <1>2, <2>1
    <3>3. ASSUME NEW b \in Actor \X (1..4)
          PROVE  b \in heap' <=> b[2] \in st'[b[1]].todo
      <4>1. b[1] \in Actor /\ b[2] \in 1..4 /\ b = <<b[1], b[2]>>
        OBVIOUS
      <4>2. <<b[1], b[2]>> \in heap' <=> b[2] \in st'[b[1]].todo
        BY <3>1, <4>1, Zenon
      <4>3. QED  BY <4>1, <4>2, Zenon
    <3>4. QED  BY <3>2, <3>3
  <2>4. QED  BY <1>2, <2>2, <2>3 DEF Buffers, BuffersAreReleasedOnce
<1>10. ASSUME NEW a \in Actor, Finishes(a)  PROVE Buffers'
  <2>1. st[a].todo = {} /\ heap' = heap  BY <1>10 DEF Finishes
  <2>2. \/ Moves(a, [At("C", "apikey_account_id", <<>>) EXCEPT !.ptr = "handle"])
        \/ Moves(a, [At("C", "apikey_scheme", <<>>) EXCEPT !.ptr = "handle"])
        \/ Moves(a, [st[a] EXCEPT !.pc = "closing"])
        \/ Moves(a, [Idle(st[a].result) EXCEPT !.late = st[a].late])
    BY <1>10 DEF Finishes, Goes
  <2>3. \E s : Moves(a, s) /\ s.todo = {}
    <3>1. [st[a] EXCEPT !.pc = "closing"].todo = {}  BY <1>1, <2>1 DEF ActorState
    <3>2. [Idle(st[a].result) EXCEPT !.late = st[a].late].todo = {}  BY DEF Idle
    <3>3. \A entry : [At("C", entry, <<>>) EXCEPT !.ptr = "handle"].todo = {}  BY DEF At
    <3> HIDE DEF Moves
    <3>4. QED  BY <2>2, <3>1, <3>2, <3>3
  <2>4. QED  BY <1>3, <2>1, <2>3
<1>11. ASSUME NEW a \in Actor, FreesKey(a) \/ ForgetsHandle(a)
       PROVE  Buffers'
  <2>1. /\ st[a].pc \in {"closing", "freed"} /\ heap' = heap
        /\ Moves(a, [st[a] EXCEPT !.pc = "freed"]) \/ Moves(a, Idle(st[a].result))
    BY <1>11 DEF FreesKey, ForgetsHandle
  <2>2. st[a].todo = {}  BY <1>2, <2>1
  <2>3. [st[a] EXCEPT !.pc = "freed"].todo = {}  BY <1>1, <2>2 DEF ActorState
  <2> HIDE DEF Moves
  <2>4. QED  BY <1>3, <1>4, <2>1, <2>2, <2>3
<1>12. CASE FinalizerRuns
  <2>1. Moves(Collector, [Idle("none") EXCEPT !.pc = "closing"]) /\ heap' = heap
    BY <1>12 DEF FinalizerRuns
  <2>2. st[Collector].todo = {}  BY <1>1, <1>2 DEF Steps
  <2>3. [Idle("none") EXCEPT !.pc = "closing"].todo = {}  BY DEF Idle
  <2>4. QED  BY <1>1, <1>3, <2>1, <2>2, <2>3
<1>13. CASE Drop \/ UNCHANGED vars
  <2>1. UNCHANGED <<st, heap>>  BY <1>13 DEF Drop, vars
  <2>2. QED  BY <2>1 DEF Buffers, BuffersAreReleasedOnce
<1>14. QED
  BY <1>6, <1>7, <1>8, <1>9, <1>10, <1>11, <1>12, <1>13, NextSteps

-----------------------------------------------------------------------------
(***************************************************************************)
(* A key is wiped by its Close, or somebody is left to free it.            *)
(***************************************************************************)
\* Where the handle is gone, or about to go, the key is.
Released ==
  /\ handle = "nil" => key = "freed"
  /\ \A a \in Actor : st[a].pc = "freed" => key = "freed"
  /\ key = "live" => \/ finalizer \/ st[Collector].pc = "closing"
                     \/ \E g \in Goroutine : st[g].pc = "returned" /\ parsed(st[g])

LEMMA ReleasedStep ==
  ASSUME TypeOK, Typed, Steps, Owners, Released, [Next]_vars
  PROVE  Released'
<1> USE BoundaryAssumption DEF Set, shared, history
<1>1. /\ st \in [Actor -> ActorState]
      /\ Goroutine \subseteq Actor /\ Collector \in Actor
      /\ \A a \in Actor : a \in Goroutine \/ a = Collector
      /\ \A g \in Goroutine : g # Collector
  BY DEF Typed, Actor
<1> DEFINE Moves(a, s) == st' = [st EXCEPT ![a] = s]
           Parsed(s) == s.pc = "returned" /\ parsed(s)
<1>2. /\ handle = "nil" => key = "freed"
      /\ \A a \in Actor : st[a].pc = "freed" => key = "freed"
      /\ key = "live" => \/ finalizer \/ st[Collector].pc = "closing"
                         \/ \E g \in Goroutine : Parsed(st[g])
  BY DEF Released
<1>3. ASSUME handle' = "nil" => key' = "freed",
             \A a \in Actor : st'[a].pc = "freed" => key' = "freed",
             key' = "live" => \/ finalizer' \/ st'[Collector].pc = "closing"
                              \/ \E g \in Goroutine : Parsed(st'[g])
      PROVE  Released'
  BY <1>3 DEF Released
\* A goroutine that has parsed nothing yet moves, and frees nothing.
<1>4. ASSUME NEW g \in Goroutine, NEW s, Moves(g, s), UNCHANGED <<key, handle, finalizer>>,
             ~Parsed(st[g]) \/ Parsed(s), s.pc # "freed"
      PROVE  Released'
  <2>1. /\ \A b \in Actor : b # g => st'[b] = st[b]
        /\ st'[g] = s
    BY <1>1, <1>4
  <2> HIDE DEF Parsed, Moves
  <2>2. QED  BY <1>1, <1>2, <1>3, <1>4, <2>1
<1>5. ASSUME NEW g \in Goroutine,
             \/ Refuses(g) \/ \E entry \in Entry : \E args : Enters(g, entry, args)
             \/ Sign(g) \/ Close(g)
      PROVE  Released'
  <2>1. st[g].pc = "idle" /\ UNCHANGED <<key, handle, finalizer>>
    BY <1>5 DEF Refuses, Enters, CallsC, Sign, Close, Starts
  <2>2. \/ Moves(g, Idle("ErrInvalidArg")) \/ Moves(g, Idle("closed")) \/ Moves(g, Idle("ok"))
        \/ \E pc \in {"C", "checked", "closing"} : \E entry, args : Moves(g, At(pc, entry, args))
    BY <1>5 DEF Refuses, Enters, CallsC, Sign, Close
  <2>3. /\ \A r : Idle(r).pc # "freed"
        /\ \A pc \in {"C", "checked", "closing"} : \A entry, args : At(pc, entry, args).pc # "freed"
    BY DEF Idle, At
  <2>4. PICK s : Moves(g, s) /\ s.pc # "freed"
    <3> HIDE DEF Moves
    <3>1. QED  BY <2>2, <2>3
  <2>5. QED  BY <1>4, <2>1, <2>4
<1>6. ASSUME NEW g \in Goroutine, SignEnters(g)  PROVE Released'
  <2> DEFINE s == [st[g] EXCEPT !.pc = "C", !.ptr = IF handle = "set" THEN "handle" ELSE "null"]
  <2>1. Moves(g, s) /\ st[g].pc = "checked" /\ UNCHANGED <<key, handle, finalizer>>
    BY <1>6 DEF SignEnters
  <2>2. s.pc = "C"  BY <1>1 DEF ActorState
  <2> HIDE DEF s
  <2>3. QED  BY <1>4, <2>1, <2>2
<1>7. ASSUME NEW a \in Actor, Returns(a)  PROVE Released'
  <2>1. PICK rc \in guard(body(st[a])) :
          /\ st' = [st EXCEPT ![a] = [st[a] EXCEPT !.pc = "returned",
                     !.result = errFromStatus[rc],
                     !.todo = collected(st[a].entry, errFromStatus[rc])]]
          /\ key' = IF st[a].entry = "apikey_parse" /\ rc = "MSDK_OK"
                      THEN "live" ELSE key
    BY <1>7 DEF Returns
  <2>2. /\ st[a].pc = "C" /\ UNCHANGED <<handle, finalizer>>
        /\ a \in Goroutine
    BY <1>1, <1>7 DEF Returns, Steps
  <2> DEFINE s == [st[a] EXCEPT !.pc = "returned", !.result = errFromStatus[rc],
                     !.todo = collected(st[a].entry, errFromStatus[rc])]
  <2>3. Moves(a, s) /\ s.pc = "returned" /\ s.entry = st[a].entry
        /\ s.result = errFromStatus[rc]
    BY <1>1, <2>1 DEF ActorState
  <2> HIDE DEF s
  <2>4. CASE ~(st[a].entry = "apikey_parse" /\ rc = "MSDK_OK")
    BY <1>4, <2>1, <2>2, <2>3, <2>4
  <2>5. CASE st[a].entry = "apikey_parse" /\ rc = "MSDK_OK"
    <3>1. /\ \A b \in Actor : b # a => st'[b] = st[b]
          /\ st'[a] = s
      BY <1>1, <2>3
    <3>2. errFromStatus[rc] = "ok"  BY <2>5, Answers
    <3>3. Parsed(st'[a])  BY <2>3, <2>5, <3>1, <3>2 DEF parsed
    <3>4. handle = "none" /\ \A b \in Actor : st[b].pc # "freed"
      BY <2>2, <2>5 DEF Owners, OneConstructor, Constructs, NobodyBeforeHandle, Closers
    <3>5. \A b \in Actor : st'[b].pc # "freed"  BY <2>3, <3>1, <3>4
    <3> HIDE DEF Parsed
    <3>6. QED  BY <1>3, <2>2, <3>3, <3>4, <3>5
  <2>6. QED  BY <2>4, <2>5
<1>8. ASSUME NEW a \in Actor, goBytesAndFree(a)  PROVE Released'
  <2>1. PICK i : st' = [st EXCEPT ![a] = [st[a] EXCEPT !.todo = @ \ {i}]]
    BY <1>8 DEF goBytesAndFree
  <2>2. /\ st[a].pc = "returned" /\ UNCHANGED <<key, handle, finalizer>>
        /\ a \in Goroutine
    BY <1>1, <1>8 DEF goBytesAndFree, Steps
  <2> DEFINE s == [st[a] EXCEPT !.todo = @ \ {i}]
  <2>3. Moves(a, s) /\ s.pc = st[a].pc /\ s.entry = st[a].entry /\ s.result = st[a].result
    BY <1>1, <2>1 DEF ActorState
  <2> HIDE DEF s
  <2>4. QED  BY <1>4, <2>2, <2>3 DEF parsed
<1>9. ASSUME NEW a \in Actor, Finishes(a)  PROVE Released'
  <2>1. /\ st[a].pc = "returned" /\ key' = key /\ a \in Goroutine
        /\ handle' = IF parsed(st[a]) THEN "set" ELSE handle
        /\ finalizer' = (finalizer \/ parsed(st[a]))
    BY <1>1, <1>9 DEF Finishes, Steps
  <2>2. \/ Moves(a, [At("C", "apikey_account_id", <<>>) EXCEPT !.ptr = "handle"])
        \/ Moves(a, [At("C", "apikey_scheme", <<>>) EXCEPT !.ptr = "handle"])
        \/ Moves(a, [st[a] EXCEPT !.pc = "closing"])
        \/ Moves(a, [Idle(st[a].result) EXCEPT !.late = st[a].late])
    BY <1>9 DEF Finishes, Goes
  <2>3. PICK s : Moves(a, s) /\ s.pc # "freed"
    <3>1. [st[a] EXCEPT !.pc = "closing"].pc # "freed"  BY <1>1 DEF ActorState
    <3>2. [Idle(st[a].result) EXCEPT !.late = st[a].late].pc # "freed"  BY DEF Idle
    <3>3. \A entry : [At("C", entry, <<>>) EXCEPT !.ptr = "handle"].pc # "freed"  BY DEF At
    <3> HIDE DEF Moves
    <3>4. QED  BY <2>2, <3>1, <3>2, <3>3
  <2>4. CASE ~parsed(st[a])
    <3>1. UNCHANGED <<key, handle>> /\ (finalizer' <=> finalizer)  BY <2>1, <2>4
    <3>2. /\ \A b \in Actor : b # a => st'[b] = st[b]
          /\ st'[a] = s
      BY <1>1, <2>3
    <3>3. \A b \in Actor : st'[b].pc = "freed" => key' = "freed"  BY <1>2, <2>3, <3>1, <3>2
    <3>4. ~Parsed(st[a])  BY <2>4
    <3> HIDE DEF Parsed, Moves
    <3>5. QED  BY <1>1, <1>2, <1>3, <2>1, <3>1, <3>2, <3>3, <3>4
  <2>5. CASE parsed(st[a])
    <3>1. /\ \A b \in Actor : b # a => st'[b] = st[b]
          /\ st'[a] = s
      BY <1>1, <2>3
    <3>2. \A b \in Actor : st'[b].pc = "freed" => key' = "freed"  BY <1>2, <2>1, <2>3, <3>1
    <3> HIDE DEF Parsed, Moves
    <3>3. QED  BY <1>3, <2>1, <2>5, <3>2
  <2>6. QED  BY <2>4, <2>5
<1>10. ASSUME NEW a \in Actor, FreesKey(a)  PROVE Released'
  <2>1. /\ st[a].pc = "closing" /\ handle' = handle
        /\ key' = IF handle = "set" THEN "freed" ELSE key
    BY <1>10 DEF FreesKey
  <2>2. handle \in {"set", "nil"}
    BY <2>1 DEF TypeOK, Owners, NobodyBeforeHandle, Closers
  <2>3. key' = "freed"  BY <1>2, <2>1, <2>2
  <2>4. QED  BY <1>3, <2>3
<1>11. ASSUME NEW a \in Actor, ForgetsHandle(a)  PROVE Released'
  <2>1. key' = "freed"  BY <1>2, <1>11 DEF ForgetsHandle
  <2>2. QED  BY <1>3, <2>1
<1>12. CASE FinalizerRuns
  <2>1. /\ Moves(Collector, [Idle("none") EXCEPT !.pc = "closing"])
        /\ UNCHANGED <<handle, key>>
    BY <1>12 DEF FinalizerRuns
  <2>2. /\ \A b \in Actor : b # Collector => st'[b] = st[b]
        /\ st'[Collector].pc = "closing"
    BY <1>1, <2>1 DEF Idle
  <2>3. QED  BY <1>2, <1>3, <2>1, <2>2
<1>13. CASE Drop \/ UNCHANGED vars
  <2>1. UNCHANGED <<handle, key, finalizer, st>>  BY <1>13 DEF Drop, vars
  <2>2. QED  BY <1>2, <1>3, <2>1
<1>14. QED
  BY <1>5, <1>6, <1>7, <1>8, <1>9, <1>10, <1>11, <1>12, <1>13, NextSteps

-----------------------------------------------------------------------------
(***************************************************************************)
(* What is sealed opens.                                                   *)
(***************************************************************************)
\* The first failure of six checks is "ok" only if all of them are.
LEMMA FirstOfSix ==
  ASSUME NEW c1, NEW c2, NEW c3, NEW c4, NEW c5, NEW c6,
         First(<<c1, c2, c3, c4, c5, c6>>) = "ok"
  PROVE  c1 = "ok" /\ c2 = "ok" /\ c3 = "ok" /\ c4 = "ok" /\ c5 = "ok" /\ c6 = "ok"
<1> DEFINE checks == <<c1, c2, c3, c4, c5, c6>>
           bad == {i \in DOMAIN checks : checks[i] # "ok"}
           first(i) == i \in bad /\ \A j \in bad : i <= j
<1>1. DOMAIN checks = {1, 2, 3, 4, 5, 6}  OBVIOUS
<1>2. /\ checks[1] = c1 /\ checks[2] = c2 /\ checks[3] = c3
      /\ checks[4] = c4 /\ checks[5] = c5 /\ checks[6] = c6
  OBVIOUS
<1> HIDE DEF checks
<1>3. bad \subseteq {1, 2, 3, 4, 5, 6}  BY <1>1
<1>4. First(checks) = IF bad = {} THEN "ok"
                      ELSE checks[CHOOSE i \in bad : \A j \in bad : i <= j]
  BY DEF First
<1>5. bad # {} => \E i \in bad : \A j \in bad : i <= j
  <2> HIDE DEF bad
  <2>1. CASE 1 \in bad  BY <1>3, <2>1
  <2>2. CASE 1 \notin bad /\ 2 \in bad  BY <1>3, <2>2
  <2>3. CASE 1 \notin bad /\ 2 \notin bad /\ 3 \in bad  BY <1>3, <2>3
  <2>4. CASE bad \cap {1, 2, 3} = {} /\ 4 \in bad  BY <1>3, <2>4
  <2>5. CASE bad \cap {1, 2, 3, 4} = {} /\ 5 \in bad  BY <1>3, <2>5
  <2>6. CASE bad \cap {1, 2, 3, 4, 5} = {}
    <3>1. \A j \in bad : j = 6  BY <1>3, <2>6
    <3>2. QED  BY <3>1
  <2>7. QED  BY <1>3, <2>1, <2>2, <2>3, <2>4, <2>5, <2>6
<1>6. bad # {} => First(checks) # "ok"
  <2>1. SUFFICES ASSUME bad # {} PROVE checks[CHOOSE i \in bad : \A j \in bad : i <= j] # "ok"
    BY <1>4
  <2>2. (CHOOSE i \in bad : \A j \in bad : i <= j) \in bad
    <3> HIDE DEF bad
    <3>1. QED  BY <1>5, <2>1
  <2>3. QED  BY <2>2
<1>7. bad = {}  BY <1>6 DEF checks
<1>8. QED  BY <1>1, <1>2, <1>7

\* What encrypt accepts fits the bounds of what is opened.
LEMMA SealedIsOpenable ==
  ASSUME NEW a \in Seal, "MSDK_OK" \in msdk_encrypt(a)
  PROVE  Openable(envelope(a))
<1>1. encrypt(a) = "ok"  BY DEF msdk_encrypt, status
<1>2. /\ (IF a.plaintext = "empty" THEN "Empty" ELSE "ok") = "ok"
      /\ bound(binding_or_random(a.binding_id)) = "ok"
      /\ bound(a.capsule) = "ok" /\ bound(a.plaintext) = "ok"
  BY <1>1, FirstOfSix DEF encrypt
<1>3. /\ a.plaintext # "empty" /\ a.plaintext # "oversized" /\ a.capsule = "good"
      /\ binding_or_random(a.binding_id) # "oversized"
  BY <1>2 DEF bound, Seal
<1>4. QED  BY <1>3 DEF Openable, envelope

LEMMA SealsStep ==
  ASSUME TypeOK, Typed, Steps, SealsOpen, [Next]_vars
  PROVE  SealsOpen'
<1> USE BoundaryAssumption DEF Set, shared, history
<1>1. /\ st \in [Actor -> ActorState]
      /\ Goroutine \subseteq Actor /\ Collector \in Actor
      /\ sealed \in [Goroutine -> Sealed]
  BY DEF Typed, Actor, TypeOK
<1> DEFINE Fit(s) == s.entry = "open_secret" => Openable(s.args.env)
           Moves(a, s) == st' = [st EXCEPT ![a] = s]
<1>2. (\A g \in Goroutine : Openable(sealed[g])) /\ (\A a \in Actor : Fit(st[a]))
  BY DEF SealsOpen
<1>3. ASSUME NEW a \in Actor, NEW s, Moves(a, s), Fit(s),
             \A g \in Goroutine : Openable(sealed'[g])
      PROVE  SealsOpen'
  <2>1. /\ \A b \in Actor : b # a => st'[b] = st[b]
        /\ st'[a] = s
    BY <1>1, <1>3
  <2> HIDE DEF Fit, Moves
  <2>2. \A b \in Actor : Fit(st'[b])  BY <1>2, <1>3, <2>1
  <2>3. QED  BY <1>3, <2>2 DEF SealsOpen, Fit
\* A move to another entry point, or within the same one.
<1>4. ASSUME NEW a \in Actor, NEW s, Moves(a, s), sealed' = sealed,
             s.entry # "open_secret"
      PROVE  SealsOpen'
  BY <1>2, <1>3, <1>4
<1>5. ASSUME NEW a \in Actor, NEW s, Moves(a, s), sealed' = sealed,
             s.entry = st[a].entry, s.args = st[a].args
      PROVE  SealsOpen'
  BY <1>2, <1>3, <1>5
<1>6. /\ \A r : Idle(r).entry # "open_secret"
      /\ \A r : [Idle(r) EXCEPT !.pc = "closing"].entry # "open_secret"
      /\ \A r, l : [Idle(r) EXCEPT !.late = l].entry # "open_secret"
      /\ \A pc, entry, args : At(pc, entry, args).entry = entry
      /\ \A pc, entry, args : At(pc, entry, args).args = args
      /\ \A pc, entry, args : [At(pc, entry, args) EXCEPT !.ptr = "handle"].entry = entry
  BY DEF Idle, At
<1>7. ASSUME NEW g \in Goroutine, Refuses(g) \/ Sign(g) \/ Close(g)  PROVE SealsOpen'
  <2>1. sealed' = sealed  BY <1>7 DEF Refuses, Sign, Close
  <2>2. \/ Moves(g, Idle("ErrInvalidArg")) \/ Moves(g, Idle("closed")) \/ Moves(g, Idle("ok"))
        \/ Moves(g, At("checked", "apikey_sign", <<>>)) \/ Moves(g, At("closing", "close", <<>>))
    BY <1>7 DEF Refuses, Sign, Close
  <2>3. \E s : Moves(g, s) /\ s.entry # "open_secret"
    <3> HIDE DEF Moves
    <3>1. QED  BY <1>6, <2>2
  <2>4. QED  BY <1>1, <1>4, <2>1, <2>3
<1>8. ASSUME NEW g \in Goroutine, NEW entry \in Entry, NEW args, Enters(g, entry, args)
      PROVE  SealsOpen'
  <2>1. Moves(g, At("C", entry, args)) /\ sealed' = sealed
    BY <1>8 DEF Enters, CallsC
  <2>2. entry = "open_secret" => args.env = sealed[g]
    BY <1>8 DEF Enters
  <2>3. Fit(At("C", entry, args))
    <3>1. At("C", entry, args).entry = entry /\ At("C", entry, args).args = args
      BY <1>6
    <3>2. QED  BY <1>2, <2>2, <3>1
  <2> HIDE DEF Fit, Moves
  <2>4. QED  BY <1>1, <1>2, <1>3, <2>1, <2>3
<1>9. ASSUME NEW g \in Goroutine, SignEnters(g)  PROVE SealsOpen'
  <2> DEFINE s == [st[g] EXCEPT !.pc = "C", !.ptr = IF handle = "set" THEN "handle" ELSE "null"]
  <2>1. Moves(g, s) /\ sealed' = sealed  BY <1>9 DEF SignEnters
  <2>2. s.entry = st[g].entry /\ s.args = st[g].args  BY <1>1 DEF ActorState
  <2>3. QED  BY <1>1, <1>5, <2>1, <2>2
<1>10. ASSUME NEW a \in Actor, Returns(a)  PROVE SealsOpen'
  <2>1. PICK rc \in guard(body(st[a])) :
          /\ st' = [st EXCEPT ![a] = [st[a] EXCEPT !.pc = "returned",
                     !.result = errFromStatus[rc],
                     !.todo = collected(st[a].entry, errFromStatus[rc])]]
          /\ sealed' = IF st[a].entry = "encrypt" /\ rc = "MSDK_OK"
                         THEN [sealed EXCEPT ![a] = envelope(st[a].args)] ELSE sealed
    BY <1>10 DEF Returns
  <2> DEFINE s == [st[a] EXCEPT !.pc = "returned",
                     !.result = errFromStatus[rc],
                     !.todo = collected(st[a].entry, errFromStatus[rc])]
  <2>2. s.entry = st[a].entry /\ s.args = st[a].args  BY <1>1 DEF ActorState
  <2>3. Moves(a, s) /\ Fit(s)  BY <1>2, <2>1, <2>2
  <2>4. CASE st[a].entry = "encrypt" /\ rc = "MSDK_OK"
    <3>1. st[a].args \in Seal  BY <2>4 DEF Typed
    <3>2. "MSDK_OK" \in msdk_encrypt(st[a].args)
      BY <2>4 DEF guard, body
    <3>3. Openable(envelope(st[a].args))  BY <3>1, <3>2, SealedIsOpenable
    <3>4. sealed' = [sealed EXCEPT ![a] = envelope(st[a].args)]  BY <2>1, <2>4
    <3>5. \A g \in Goroutine : sealed'[g] = IF g = a THEN envelope(st[a].args) ELSE sealed[g]
      BY <1>1, <3>4
    <3>6. \A g \in Goroutine : Openable(sealed'[g])  BY <1>2, <3>3, <3>5
    <3> HIDE DEF Fit, Moves, s
    <3>7. QED  BY <1>3, <2>3, <3>6
  <2>5. CASE ~(st[a].entry = "encrypt" /\ rc = "MSDK_OK")
    <3>1. sealed' = sealed  BY <2>1, <2>5
    <3> HIDE DEF Fit, Moves, s
    <3>2. QED  BY <1>2, <1>3, <2>3, <3>1
  <2>6. QED  BY <2>4, <2>5
<1>11. ASSUME NEW a \in Actor, goBytesAndFree(a)  PROVE SealsOpen'
  <2>1. PICK i : st' = [st EXCEPT ![a] = [st[a] EXCEPT !.todo = @ \ {i}]]
    BY <1>11 DEF goBytesAndFree
  <2>2. sealed' = sealed  BY <1>11 DEF goBytesAndFree
  <2>3. QED  BY <1>1, <1>5, <2>1, <2>2 DEF ActorState
<1>12. ASSUME NEW a \in Actor, Finishes(a)  PROVE SealsOpen'
  <2>1. sealed' = sealed  BY <1>12 DEF Finishes
  <2>2. \/ Moves(a, [At("C", "apikey_account_id", <<>>) EXCEPT !.ptr = "handle"])
        \/ Moves(a, [At("C", "apikey_scheme", <<>>) EXCEPT !.ptr = "handle"])
        \/ Moves(a, [st[a] EXCEPT !.pc = "closing"])
        \/ Moves(a, [Idle(st[a].result) EXCEPT !.late = st[a].late])
    BY <1>12 DEF Finishes, Goes
  <2> DEFINE s == [st[a] EXCEPT !.pc = "closing"]
  <2>3. s.entry = st[a].entry /\ s.args = st[a].args  BY <1>1 DEF ActorState
  <2> HIDE DEF Moves
  <2>4. CASE Moves(a, s)
    <3> HIDE DEF s
    <3>1. QED  BY <1>5, <2>1, <2>3, <2>4
  <2>5. CASE Moves(a, [At("C", "apikey_account_id", <<>>) EXCEPT !.ptr = "handle"])
    <3>1. [At("C", "apikey_account_id", <<>>) EXCEPT !.ptr = "handle"].entry # "open_secret"
      BY DEF At
    <3>2. QED  BY <1>4, <2>1, <2>5, <3>1
  <2>6. CASE Moves(a, [At("C", "apikey_scheme", <<>>) EXCEPT !.ptr = "handle"])
    <3>1. [At("C", "apikey_scheme", <<>>) EXCEPT !.ptr = "handle"].entry # "open_secret"
      BY DEF At
    <3>2. QED  BY <1>4, <2>1, <2>6, <3>1
  <2>7. CASE Moves(a, [Idle(st[a].result) EXCEPT !.late = st[a].late])
    <3>1. [Idle(st[a].result) EXCEPT !.late = st[a].late].entry # "open_secret"
      BY DEF Idle
    <3>2. QED  BY <1>4, <2>1, <2>7, <3>1
  <2>8. QED  BY <2>2, <2>4, <2>5, <2>6, <2>7
<1>13. ASSUME NEW a \in Actor, FreesKey(a)  PROVE SealsOpen'
  <2>1. Moves(a, [st[a] EXCEPT !.pc = "freed"]) /\ sealed' = sealed
    BY <1>13 DEF FreesKey
  <2> DEFINE s == [st[a] EXCEPT !.pc = "freed"]
  <2>2. s.entry = st[a].entry /\ s.args = st[a].args  BY <1>1 DEF ActorState
  <2> HIDE DEF Moves, s
  <2>3. QED  BY <1>5, <2>1, <2>2 DEF s
<1>14. ASSUME NEW a \in Actor, ForgetsHandle(a)  PROVE SealsOpen'
  <2>1. Moves(a, Idle(st[a].result)) /\ sealed' = sealed  BY <1>14 DEF ForgetsHandle
  <2> HIDE DEF Moves
  <2>2. QED  BY <1>4, <1>6, <2>1
<1>15. CASE FinalizerRuns
  <2>1. Moves(Collector, [Idle("none") EXCEPT !.pc = "closing"]) /\ sealed' = sealed
    BY <1>15 DEF FinalizerRuns
  <2> HIDE DEF Moves
  <2>2. QED  BY <1>1, <1>4, <1>6, <2>1
<1>16. CASE Drop \/ UNCHANGED vars
  <2>1. UNCHANGED <<sealed, st>>  BY <1>16 DEF Drop, vars
  <2>2. QED  BY <2>1 DEF SealsOpen
<1>17. QED
  BY <1>7, <1>8, <1>9, <1>10, <1>11, <1>12, <1>13, <1>14, <1>15, <1>16, NextSteps

\* All nine checks of open_secret pass on an envelope that fits.
LEMMA OpensWhatFits ==
  ASSUME NEW o, NEW env, Openable(env), env # NoSeal, o.honest, o.bound,
         subset_points(o.points) = "ok", de(o.partial) = "ok", de(o.shared_a) = "ok"
  PROVE  open_secret(o, env) = "ok"
<1>1. /\ bound(env.binding_id) = "ok" /\ bound(env.ct) = "ok" /\ de(env.capsule) = "ok"
      /\ (IF env.ct = "empty" THEN "InvalidLength" ELSE "ok") = "ok"
  BY DEF Openable, bound, de
<1>2. /\ (IF o.honest THEN "ok" ELSE "Aggregate") = "ok"
      /\ (IF o.bound THEN "ok" ELSE "Aead") = "ok"
  OBVIOUS
<1>3. open_secret(o, env) = First(<<"ok", "ok", "ok", "ok", "ok", "ok", "ok", "ok", "ok">>)
  BY <1>1, <1>2, Zenon DEF open_secret
<1>4. First(<<"ok", "ok", "ok", "ok", "ok", "ok", "ok", "ok", "ok">>) = "ok"
  BY DEF First
<1>5. QED  BY <1>3, <1>4

-----------------------------------------------------------------------------
(***************************************************************************)
(* The invariant and its theorems.                                         *)
(***************************************************************************)
Inv == /\ TypeOK /\ Typed /\ Steps /\ Owners /\ Noticed /\ ClosedIsClosed
       /\ Buffers /\ Released /\ SealsOpen

LEMMA Initially == Init => Inv
<1> SUFFICES ASSUME Init PROVE Inv
  OBVIOUS
<1> USE BoundaryAssumption
<1>1. /\ handle = "none" /\ key = "none" /\ reachable = FALSE /\ finalizer = FALSE
      /\ st = [a \in Actor |-> Idle("none")]
      /\ heap = {} /\ sealed = [g \in Goroutine |-> NoSeal] /\ calls = 0
      /\ closed = FALSE /\ closes = FALSE /\ overlapped = FALSE /\ faults = {}
  BY DEF Init
<1>2. \A a \in Actor : st[a] = Idle("none")  BY <1>1
<1>3. "none" \in Result  BY Results
<1>4. Idle("none") \in ActorState  BY <1>3 DEF Idle, ActorState, Entry
<1>5. NoSeal \in Sealed  BY DEF NoSeal, Sealed, Blob
<1>6. /\ Idle("none").pc = "idle" /\ Idle("none").entry = "none"
      /\ Idle("none").todo = {} /\ Idle("none").ptr = "null"
      /\ Idle("none").result = "none" /\ Idle("none").late = FALSE
  BY DEF Idle
<1>7. Typed  BY <1>1, <1>2, <1>4, <1>6 DEF Typed
<1>8. Collector \in Actor  BY DEF Actor
<1>9. Steps  BY <1>2, <1>6, <1>8 DEF Steps
<1>10. Owners
  BY <1>1, <1>2, <1>6 DEF Owners, NobodyBeforeHandle, OneConstructor, Closers, Constructs
<1>11. Noticed  BY <1>1, <1>2, <1>6 DEF Noticed, FreedIsNoticed
<1>12. ClosedIsClosed  BY <1>1, <1>2, <1>6 DEF ClosedIsClosed
<1>13. Buffers  BY <1>1, <1>2, <1>6 DEF Buffers, BuffersAreReleasedOnce
<1>14. Released  BY <1>1, <1>2, <1>6 DEF Released
<1>15. SealsOpen
  BY <1>1, <1>2, <1>6 DEF SealsOpen, Openable
<1>16. TypeOK
  <2>1. {reachable, finalizer, closed, closes, overlapped} \subseteq BOOLEAN
    BY <1>1
  <2>2. \A a \in Actor :
          /\ st[a].pc \in {"idle", "checked", "C", "returned", "closing", "freed"}
          /\ st[a].ptr \in {"null", "handle"} /\ st[a].todo \subseteq 1..4
          /\ st[a].result \in Result /\ st[a].late \in BOOLEAN
    BY <1>2, <1>3, <1>6
  <2>3. sealed \in [Goroutine -> Sealed]  BY <1>1, <1>5
  <2>4. calls \in 0..MaxCalls /\ heap \subseteq Actor \X (1..4) /\ faults \subseteq {"use", "free"}
    BY <1>1
  <2>5. QED  BY <1>1, <2>1, <2>2, <2>3, <2>4, Zenon DEF TypeOK
<1>17. QED
  BY <1>7, <1>9, <1>10, <1>11, <1>12, <1>13, <1>14, <1>15, <1>16 DEF Inv

LEMMA TypeStep ==
  ASSUME Inv, [Next]_vars
  PROVE  TypeOK'
<1>1. TypeOK /\ Typed /\ Steps /\ Owners /\ Buffers
  BY DEF Inv
<1>2. Typed'  BY <1>1, TypedStep
<1>3. \A a \in Actor :
        /\ st'[a].pc \in {"idle", "checked", "C", "returned", "closing", "freed"}
        /\ st'[a].ptr \in {"null", "handle"} /\ st'[a].todo \subseteq 1..4
        /\ st'[a].result \in Result /\ st'[a].late \in BOOLEAN
  BY <1>2 DEF Typed, ActorState
<1>4. heap' \subseteq Actor \X (1..4)
  <2>1. Buffers'  BY <1>1, BuffersStep
  <2>2. QED  BY <2>1 DEF Buffers, BuffersAreReleasedOnce
<1>5. /\ handle' \in {"none", "set", "nil"}
      /\ handle' # "none" => key' # "none"
      /\ key' \in {"none", "live", "freed"}
  BY <1>1, SharedStep
<1>6. {reachable', finalizer', closed', closes', overlapped'} \subseteq BOOLEAN
  BY <1>1, FlagsStep
<1>7. /\ calls' \in 0..MaxCalls /\ faults' \subseteq {"use", "free"}
      /\ sealed' \in [Goroutine -> Sealed]
  BY <1>1, CountersStep
<1>8. QED  BY <1>3, <1>4, <1>5, <1>6, <1>7, Zenon DEF TypeOK

LEMMA Invariance == Spec => []Inv
<1>1. ASSUME Inv, [Next]_vars  PROVE Inv'
  <2>1. TypeOK'  BY <1>1, TypeStep
  <2>2. Typed' /\ Steps' /\ Owners'
    BY <1>1, TypedStep, StepsStep, OwnersStep DEF Inv
  <2>3. Noticed' /\ ClosedIsClosed' /\ Buffers' /\ Released' /\ SealsOpen'
    BY <1>1, NoticedStep, ClosedStep, BuffersStep, ReleasedStep, SealsStep DEF Inv
  <2>4. QED  BY <2>1, <2>2, <2>3 DEF Inv
<1>2. QED  BY <1>1, Initially, PTL DEF Spec

\* A handle in Go is one the core made, each actor is at a step of a call with
\* arguments of that call, and every failure is one of the errors of mattersdk.go.
THEOREM TypeCorrect == Spec => []TypeOK
<1>1. Inv => TypeOK  BY DEF Inv
<1>2. QED  BY <1>1, Invariance, PTL

\* What Rust writes before it answers is what Go collects after it has looked at the
\* answer, for every entry point, code and panic and any number of goroutines: no
\* early return leaves a buffer behind, and none is freed that is not there.
THEOREM BuffersReleased == Spec => []BuffersAreReleasedOnce
<1>1. Inv => BuffersAreReleasedOnce  BY DEF Inv, Buffers
<1>2. QED  BY <1>1, Invariance, PTL

\* Once a Close has returned the key is wiped, whichever Close or finalizer freed it,
\* and a key that lives has its constructor or its finalizer left to free it: no
\* order of Close, drop and failed construction leaves a key in memory for good.
THEOREM KeyReleased == Spec => []KeyIsReleased
<1>1. Inv => KeyIsReleased  BY DEF Inv, Released, ClosedIsClosed, KeyIsReleased
<1>2. QED  BY <1>1, Invariance, PTL

\* A key is used or freed after its msdk_apikey_free only if a Close or the finalizer
\* overlapped another call at the handle, and no Sign begun after a Close reaches it.
THEOREM KeyOutlives == Spec => []KeyOutlivesItsCalls
<1>1. Inv => KeyOutlivesItsCalls
  <2>1. Inv => (faults # {} => overlapped)  BY DEF Inv, Noticed
  <2>2. Inv => \A g \in Goroutine : st[g].late => st[g].entry # "apikey_sign"
    BY DEF Inv, ClosedIsClosed, Actor
  <2>3. QED  BY <2>1, <2>2 DEF KeyOutlivesItsCalls
<1>2. QED  BY <1>1, Invariance, PTL

\* Whatever encrypt accepts, open_secret opens with a quorum of honest partials and
\* the binding it was sealed with.
THEOREM SealedOpens == Spec => []WhatSealsOpens
<1>1. ASSUME Inv, NEW g \in Goroutine,
             st[g].pc = "C", st[g].entry = "open_secret", st[g].args.env # NoSeal,
             st[g].args.open.honest, st[g].args.open.bound,
             subset_points(st[g].args.open.points) = "ok",
             de(st[g].args.open.partial) = "ok", de(st[g].args.open.shared_a) = "ok"
      PROVE  body(st[g]) = {"MSDK_OK"}
  <2>1. Openable(st[g].args.env)  BY <1>1 DEF Inv, SealsOpen, Actor
  <2>2. open_secret(st[g].args.open, st[g].args.env) = "ok"
    BY <1>1, <2>1, OpensWhatFits
  <2>3. msdk_open_secret(st[g].args) = {"MSDK_OK"}
    BY <2>2 DEF msdk_open_secret, status
  <2>4. QED  BY <1>1, <2>3 DEF body, Code
<1>2. Inv => WhatSealsOpens  BY <1>1 DEF WhatSealsOpens
<1>3. QED  BY <1>2, Invariance, PTL
=============================================================================
