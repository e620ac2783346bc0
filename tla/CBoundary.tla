----------------------------- MODULE CBoundary -----------------------------
(***************************************************************************)
(* The C ABI (crates/matter-sdk-ffi) under the Go package: which buffers   *)
(* an entry point leaves to its caller, what each error of the core is     *)
(* reported as, and the life of an API-key handle that several goroutines  *)
(* and Go's garbage collector share.  External: the committee's partials,  *)
(* the garbage collector, and the panics guard turns into a code.          *)
(***************************************************************************)
EXTENDS Integers, Sequences, FiniteSets

CONSTANTS
  Goroutine,   \* the goroutines that use one key
  Collector,   \* the goroutine finalizers run on
  Keys,        \* the key texts to parse
  Seals,       \* the arguments Encrypt may be called with
  Opens,       \* what an OpenSecret may pair with an envelope
  MaxCalls     \* bound: calls of all goroutines

Actor == Goroutine \cup {Collector}

\* A byte field: the canonical encoding, one with bytes after it, one padded past
\* its bound, one that does not decode, or none.
Blob   == {"good", "trailing", "oversized", "garbage", "empty"}
\* What Encrypt is given, and the capsule and proof that the seal (external) makes
\* of it or that VerifyPlaintextProof is given.
Seal   == [joint_pk : Blob, plaintext : Blob, binding_id : Blob,
           capsule : {"good", "oversized"}, proof : {"good", "oversized"}]
Open   == [points : Seq(Nat), partial : Blob, shared_a : Blob,
           honest : BOOLEAN, bound : BOOLEAN]
Sealed == [binding_id : Blob, capsule : Blob, proof : Blob, ct : Blob]
KeyText == {"good", "malformed", "not_utf8", "empty"}

ASSUME BoundaryAssumption ==
  /\ Collector \notin Goroutine /\ MaxCalls \in Nat
  /\ Keys \subseteq KeyText /\ Seals \subseteq Seal /\ Opens \subseteq Open

VARIABLES
  handle,     \* the key's handle field in Go: "none" before the key, "set" or "nil"
  key,        \* the key in Rust: "none", "live" or "freed"
  reachable,  \* the application still refers to the key
  finalizer,  \* the key has its finalizer
  st,         \* what each actor is doing
  heap,       \* the buffers Rust has handed out and not freed: <<actor, position>>
  sealed,     \* the last envelope each goroutine sealed, if any
  calls,      \* calls made so far
  closed,     \* history: a Close of the application has returned
  closes,     \* history: the application has called Close
  overlapped, \* history: the key was freed during a call that had its handle
  faults      \* history: uses of a handle after its key was freed

vars == <<handle, key, reachable, finalizer, st, heap, sealed, calls,
          closed, closes, overlapped, faults>>

shared  == <<handle, key, reachable, finalizer>>
history == <<closed, closes, overlapped, faults>>

NoSeal == [binding_id |-> "empty", capsule |-> "empty", proof |-> "empty", ct |-> "empty"]
\* An actor: its step, its entry point with the arguments, the handle passed, the
\* buffers still to collect, its result, and whether it began after a Close.
At(pc, entry, args) ==
  [pc |-> pc, entry |-> entry, args |-> args, ptr |-> "null", todo |-> {},
   result |-> "none", late |-> closed]
Idle(result) ==
  [pc |-> "idle", entry |-> "none", args |-> <<>>, ptr |-> "null", todo |-> {},
   result |-> result, late |-> FALSE]

Init ==
  /\ handle = "none" /\ key = "none" /\ reachable = FALSE /\ finalizer = FALSE
  /\ st = [a \in Actor |-> Idle("none")]
  /\ heap = {} /\ sealed = [g \in Goroutine |-> NoSeal] /\ calls = 0
  /\ closed = FALSE /\ closes = FALSE /\ overlapped = FALSE /\ faults = {}

-----------------------------------------------------------------------------
(***************************************************************************)
(* The core (matter-sdk-core).                                             *)
(***************************************************************************)
\* The first failure of checks made in turn, "ok" if there is none.
First(checks) ==
  LET bad == {i \in DOMAIN checks : checks[i] # "ok"}
  IN  IF bad = {} THEN "ok" ELSE checks[CHOOSE i \in bad : \A j \in bad : i <= j]

bound(blob) == IF blob = "oversized" THEN "TooLarge" ELSE "ok"

\* Decoding what is opened: within the bound, one encoding, no trailing bytes.
de(blob) == IF blob = "oversized" THEN "TooLarge"
            ELSE IF blob = "good" THEN "ok" ELSE "Decode"

\* encrypt decodes the public key with bincode's own laxer rules.
deserialize(blob) ==
  IF blob \in {"good", "trailing", "oversized"} THEN "ok" ELSE "Decode"

\* A nil binding id is replaced by a random one.
binding_or_random(blob) == IF blob = "empty" THEN "good" ELSE blob

\* Mutant: the fields are not held to their bounds on chain.
encrypt_Unbounded(a) ==
  First(<<IF a.plaintext = "empty" THEN "Empty" ELSE "ok", deserialize(a.joint_pk)>>)

encrypt(a) ==
  First(<<IF a.plaintext = "empty" THEN "Empty" ELSE "ok",
          deserialize(a.joint_pk),
          bound(binding_or_random(a.binding_id)),
          bound(a.capsule), bound(a.proof),
          bound(a.plaintext)>>)            \* the ciphertext's bound

envelope(a) == [binding_id |-> binding_or_random(a.binding_id),
                capsule |-> a.capsule, proof |-> a.proof, ct |-> a.plaintext]

\* Non-empty, non-zero, distinct.
subset_points(points) ==
  IF points # <<>> /\ 0 \notin {points[i] : i \in DOMAIN points}
       /\ Cardinality({points[i] : i \in DOMAIN points}) = Len(points)
    THEN "ok" ELSE "InvalidSubset"

open_secret(o, env) ==
  First(<<subset_points(o.points),
          bound(env.binding_id), bound(env.ct),
          de(o.shared_a), de(env.capsule),
          IF env.ct = "empty" THEN "InvalidLength" ELSE "ok",
          de(o.partial),
          IF o.honest THEN "ok" ELSE "Aggregate",
          IF o.bound THEN "ok" ELSE "Aead">>)

verify_plaintext_proof(a) ==
  First(<<bound(a.binding_id), de(a.joint_pk), de(a.capsule), de(a.proof)>>)

-----------------------------------------------------------------------------
(***************************************************************************)
(* The entry points, each with the status codes it may return.             *)
(***************************************************************************)
Code == {"MSDK_OK", "MSDK_ERR_INVALID_ARG", "MSDK_ERR_CRYPTO", "MSDK_ERR_INTERNAL",
         "MSDK_ERR_KEY"}

\* The code of a core result; some errors are the argument's fault.
status(result, invalid) ==
  IF result = "ok" THEN "MSDK_OK"
  ELSE IF result \in invalid THEN "MSDK_ERR_INVALID_ARG" ELSE "MSDK_ERR_CRYPTO"

msdk_encrypt(a) == {status(encrypt(a), {"Empty", "Decode"})}
msdk_open_secret(a) == {status(open_secret(a.open, a.env), {"InvalidSubset"})}
msdk_verify_plaintext_proof(a) == {status(verify_plaintext_proof(a), {})}
msdk_signing_payload == {"MSDK_OK"}
msdk_lagrange_for    == {"MSDK_OK", "MSDK_ERR_CRYPTO"}

\* A null pointer is an invalid argument, and Go's empty text is one.
msdk_apikey_parse(text) ==
  {IF text \in {"empty", "not_utf8"} THEN "MSDK_ERR_INVALID_ARG"
   ELSE IF text = "good" THEN "MSDK_OK" ELSE "MSDK_ERR_KEY"}

msdk_apikey_account_id(ptr) == {IF ptr = "null" THEN "MSDK_ERR_INVALID_ARG" ELSE "MSDK_OK"}
msdk_apikey_scheme(ptr)     == {IF ptr = "null" THEN "MSDK_ERR_INVALID_ARG" ELSE "MSDK_OK"}
msdk_apikey_sign(ptr) ==
  IF ptr = "null" THEN {"MSDK_ERR_INVALID_ARG"} ELSE {"MSDK_OK", "MSDK_ERR_KEY"}

body(s) ==
  {rc \in Code :
     \/ s.entry = "encrypt" /\ rc \in msdk_encrypt(s.args)
     \/ s.entry = "open_secret" /\ rc \in msdk_open_secret(s.args)
     \/ s.entry = "verify_plaintext_proof" /\ rc \in msdk_verify_plaintext_proof(s.args)
     \/ s.entry = "signing_payload" /\ rc \in msdk_signing_payload
     \/ s.entry = "lagrange_for" /\ rc \in msdk_lagrange_for
     \/ s.entry = "apikey_parse" /\ rc \in msdk_apikey_parse(s.args)
     \/ s.entry = "apikey_account_id" /\ rc \in msdk_apikey_account_id(s.ptr)
     \/ s.entry = "apikey_scheme" /\ rc \in msdk_apikey_scheme(s.ptr)
     \/ s.entry = "apikey_sign" /\ rc \in msdk_apikey_sign(s.ptr)}

\* A panic of the body becomes a code.
guard(codes) == codes \cup {"MSDK_ERR_INTERNAL"}

\* The buffers an entry point writes when it succeeds.
outs(entry) == IF entry = "encrypt" THEN 1..4
               ELSE IF entry \in {"apikey_parse", "verify_plaintext_proof"} THEN {}
               ELSE {1}

\* Mutant: the out parameter is written before the outcome is known.
written_Always(entry, rc) == outs(entry)

\* The out parameter is cleared first and written on success only: a panic comes
\* before it, for what follows are debug_asserts on the lengths of fixed arrays.
written(entry, rc) == IF rc = "MSDK_OK" THEN outs(entry) ELSE {}

\* Wiped, then freed.
msdk_free(buffer) == heap \ {buffer}

errFromStatus ==
  [MSDK_OK |-> "ok", MSDK_ERR_INVALID_ARG |-> "ErrInvalidArg",
   MSDK_ERR_KEY |-> "ErrBadAPIKey", MSDK_ERR_INTERNAL |-> "ErrInternal",
   MSDK_ERR_CRYPTO |-> "ErrCrypto"]

\* The fields a wrapper copies and frees: it returns early with an error, whatever
\* the out parameter holds.
collected(entry, result) ==
  IF result # "ok" THEN {}
  ELSE CASE entry = "encrypt" -> 1..4    \* binding_id, capsule, proof, ct
         [] entry \in {"open_secret", "signing_payload", "lagrange_for",
                       "apikey_account_id", "apikey_scheme", "apikey_sign"} -> {1}
         [] OTHER -> {}

-----------------------------------------------------------------------------
(***************************************************************************)
(* Go: one actor's steps around a call.                                    *)
(***************************************************************************)
Set(a, record) == st' = [st EXCEPT ![a] = record]

Starts(g) == st[g].pc = "idle" /\ calls < MaxCalls /\ calls' = calls + 1

CallsC(g, entry, args) ==
  /\ Starts(g)
  /\ Set(g, At("C", entry, args))
  /\ UNCHANGED <<shared, heap, sealed, history>>

\* Encrypt refuses an empty key or payload itself.
Encrypt(g, a) ==
  LET refused == a.joint_pk = "empty" \/ a.plaintext = "empty"
  IN  \/ ~refused /\ CallsC(g, "encrypt", a)
      \/ /\ refused /\ Starts(g) /\ Set(g, Idle("ErrInvalidArg"))
         /\ UNCHANGED <<shared, heap, sealed, history>>

OpenSecret(g, o) ==
  CallsC(g, "open_secret", [open |-> o, env |-> sealed[g]])

VerifyPlaintextProof(g, a) == CallsC(g, "verify_plaintext_proof", a)
SigningPayload(g)          == CallsC(g, "signing_payload", <<>>)
LagrangeFor(g)             == CallsC(g, "lagrange_for", <<>>)

\* NewApiKey: parse, then with the handle its account id and its scheme.
Constructs(a) == /\ st[a].pc # "idle"
                 /\ st[a].entry \in {"apikey_parse", "apikey_account_id", "apikey_scheme"}

NewApiKey(g, text) ==
  /\ handle = "none" /\ \A a \in Actor : ~Constructs(a)
  /\ CallsC(g, "apikey_parse", text)

\* Sign reads the handle twice: for nil, and to pass it.
Sign(g) ==
  /\ reachable /\ Starts(g)
  /\ Set(g, IF handle = "nil" THEN Idle("closed") ELSE At("checked", "apikey_sign", <<>>))
  /\ UNCHANGED <<shared, heap, sealed, history>>

SignEnters(g) ==
  /\ st[g].pc = "checked"
  /\ Set(g, [st[g] EXCEPT !.pc = "C", !.ptr = IF handle = "set" THEN "handle" ELSE "null"])
  /\ overlapped' = (overlapped \/ \E a \in Actor : st[a].pc \in {"closing", "freed"})
  /\ UNCHANGED <<shared, heap, sealed, calls, closed, closes, faults>>

-----------------------------------------------------------------------------
\* The body of the entry point runs to its end, or panics; Rust leaves what it
\* has written, and Go looks at the code to decide what there is to collect.
Returns(a) ==
  LET s == st[a]
  IN  /\ s.pc = "C"
      /\ \E rc \in guard(body(s)) :
           /\ Set(a, [s EXCEPT !.pc = "returned", !.result = errFromStatus[rc],
                               !.todo = collected(s.entry, errFromStatus[rc])])
           /\ heap' = heap \cup ({a} \X written(s.entry, rc))
           /\ sealed' = IF s.entry = "encrypt" /\ rc = "MSDK_OK"
                          THEN [sealed EXCEPT ![a] = envelope(s.args)] ELSE sealed
           /\ key' = IF s.entry = "apikey_parse" /\ rc = "MSDK_OK"
                       THEN "live" ELSE key
      /\ faults' = IF s.ptr = "handle" /\ key # "live" THEN faults \cup {"use"} ELSE faults
      /\ UNCHANGED <<handle, reachable, finalizer, calls, closed, closes, overlapped>>

\* The buffers of the result are copied and freed one after the other.
goBytesAndFree(a) ==
  /\ st[a].pc = "returned" /\ st[a].todo # {}
  /\ LET i == CHOOSE i \in st[a].todo : \A j \in st[a].todo : i <= j
     IN  /\ heap' = msdk_free(<<a, i>>)
         /\ Set(a, [st[a] EXCEPT !.todo = @ \ {i}])
  /\ UNCHANGED <<shared, sealed, calls, history>>

\* With the handle the constructor goes on; its errors close the key.
Goes(a, entry) == Set(a, [At("C", entry, <<>>) EXCEPT !.ptr = "handle"])

\* Mutant: the status of the parse is not looked at.
parsed_Unchecked(s) == s.entry = "apikey_parse"

parsed(s) == s.entry = "apikey_parse" /\ s.result = "ok"

Finishes(a) ==
  LET s == st[a]
      fails  == s.entry \in {"apikey_account_id", "apikey_scheme"} /\ s.result # "ok"
  IN  /\ s.pc = "returned" /\ s.todo = {}
      /\ \/ parsed(s) /\ Goes(a, "apikey_account_id")
         \/ s.entry = "apikey_account_id" /\ ~fails /\ Goes(a, "apikey_scheme")
         \/ fails /\ Set(a, [s EXCEPT !.pc = "closing"])
         \/ /\ ~parsed(s) /\ ~fails /\ s.entry # "apikey_account_id"
            /\ Set(a, [Idle(s.result) EXCEPT !.late = s.late])
      /\ handle' = IF parsed(s) THEN "set" ELSE handle
      /\ finalizer' = (finalizer \/ parsed(s))
      /\ reachable' = (reachable \/ (s.entry = "apikey_scheme" /\ ~fails))
      /\ UNCHANGED <<key, heap, sealed, calls, history>>

-----------------------------------------------------------------------------
(***************************************************************************)
(* Close, by the application or as the finalizer.                          *)
(***************************************************************************)
\* Mutant: the handle is set to nil before it is passed to msdk_apikey_free.
Close_ForgetsFirst(g) ==
  /\ reachable /\ Starts(g) /\ closes' = TRUE /\ handle' = "nil"
  /\ \/ handle = "nil" /\ Set(g, Idle("ok")) /\ closed' = TRUE
     \/ handle # "nil" /\ Set(g, At("closing", "close", <<>>)) /\ closed' = closed
  /\ UNCHANGED <<key, reachable, finalizer, heap, sealed, overlapped, faults>>

Close(g) ==
  /\ reachable /\ Starts(g) /\ closes' = TRUE
  /\ \/ handle = "nil" /\ Set(g, Idle("ok")) /\ closed' = TRUE
     \/ handle # "nil" /\ Set(g, At("closing", "close", <<>>)) /\ closed' = closed
  /\ UNCHANGED <<shared, heap, sealed, overlapped, faults>>

\* msdk_apikey_free of the handle read a second time; null is a no-op.
FreesKey(a) ==
  LET shares(b) == \/ st[b].pc = "C" /\ st[b].ptr = "handle"
                   \/ st[b].pc \in {"closing", "freed"}
  IN  /\ st[a].pc = "closing"
      /\ Set(a, [st[a] EXCEPT !.pc = "freed"])
      /\ key' = IF handle = "set" THEN "freed" ELSE key
      /\ faults' = IF handle = "set" /\ key # "live" THEN faults \cup {"free"} ELSE faults
      /\ overlapped' = (overlapped \/ \E b \in Actor \ {a} : shares(b))
      /\ UNCHANGED <<handle, reachable, finalizer, heap, sealed, calls, closed, closes>>

\* Mutant: Close leaves the handle in place.
ForgetsHandle_Keeps(a) ==
  /\ st[a].pc = "freed"
  /\ finalizer' = FALSE
  /\ Set(a, Idle(st[a].result))
  /\ closed' = (closed \/ st[a].entry = "close")
  /\ UNCHANGED <<handle, key, reachable, heap, sealed, calls, closes, overlapped, faults>>

ForgetsHandle(a) ==
  /\ st[a].pc = "freed"
  /\ handle' = "nil" /\ finalizer' = FALSE
  /\ Set(a, Idle(st[a].result))
  /\ closed' = (closed \/ st[a].entry = "close")
  /\ UNCHANGED <<key, reachable, heap, sealed, calls, closes, overlapped, faults>>

\* The application has no further use for the key.
Drop == /\ reachable /\ reachable' = FALSE
        /\ UNCHANGED <<handle, key, finalizer, st, heap, sealed, calls, history>>

\* The collector (external) finds no reference left.  A Sign in C holds none: it
\* passed the handle on and does not use the key again.
Refers(a) == Constructs(a) \/ st[a].pc \in {"checked", "closing", "freed"}

FinalizerRuns ==
  /\ finalizer /\ ~reachable /\ \A a \in Actor : ~Refers(a)
  /\ finalizer' = FALSE
  /\ Set(Collector, [Idle("none") EXCEPT !.pc = "closing"])
  /\ UNCHANGED <<handle, key, reachable, heap, sealed, calls, history>>

-----------------------------------------------------------------------------
Next ==
  \/ \E g \in Goroutine :
       \/ \E a \in Seals : Encrypt(g, a) \/ VerifyPlaintextProof(g, a)
       \/ \E o \in Opens : OpenSecret(g, o)
       \/ SigningPayload(g) \/ LagrangeFor(g)
       \/ \E text \in Keys : NewApiKey(g, text)
       \/ Sign(g) \/ SignEnters(g) \/ Close(g)
  \/ \E a \in Actor : Returns(a) \/ goBytesAndFree(a) \/ Finishes(a)
                      \/ FreesKey(a) \/ ForgetsHandle(a)
  \/ Drop
  \/ FinalizerRuns

Spec == Init /\ [][Next]_vars

-----------------------------------------------------------------------------
(***************************************************************************)
(* Properties.                                                             *)
(***************************************************************************)
Result == {errFromStatus[c] : c \in DOMAIN errFromStatus} \cup {"none", "closed"}

\* Every variable keeps its type, a Go handle is one the core made, and what a
\* call leaves is an error Go knows.
TypeOK ==
  /\ handle \in {"none", "set", "nil"} /\ (handle # "none" => key # "none")
  /\ key \in {"none", "live", "freed"}
  /\ {reachable, finalizer, closed, closes, overlapped} \subseteq BOOLEAN
  /\ \A a \in Actor :
       /\ st[a].pc \in {"idle", "checked", "C", "returned", "closing", "freed"}
       /\ st[a].ptr \in {"null", "handle"} /\ st[a].todo \subseteq 1..4
       /\ st[a].result \in Result /\ st[a].late \in BOOLEAN
  /\ heap \subseteq Actor \X (1..4)
  /\ sealed \in [Goroutine -> Sealed]
  /\ calls \in 0..MaxCalls /\ faults \subseteq {"use", "free"}

\* What Rust has handed out and what Go has yet to free are the same buffers,
\* though each side decides by itself, Rust by what it writes before a code and Go
\* by where it returns early: none is left behind, with or without an error, and
\* none is freed that is not there.
BuffersAreReleasedOnce == heap = {b \in Actor \X (1..4) : b[2] \in st[b[1]].todo}

\* Close "releases the Rust-side key": once one has returned, the key is wiped,
\* whichever Close or finalizer freed it; and while the key lives somebody is left
\* to free it: the constructor that has just parsed it, its finalizer, or the
\* finalizer's own run.
KeyIsReleased ==
  /\ closed => key = "freed"
  /\ key = "live" => \/ finalizer \/ st[Collector].pc = "closing"
                     \/ \E g \in Goroutine : st[g].pc = "returned" /\ parsed(st[g])

\* The key is used or freed after it was freed only when a Close or the finalizer
\* overlapped another use of the handle, and a Sign that begins after a Close
\* returned never reaches the key.
KeyOutlivesItsCalls ==
  /\ faults # {} => overlapped
  /\ \A g \in Goroutine : st[g].late => st[g].entry # "apikey_sign" \/ st[g].ptr = "null"

\* What Encrypt sealed, whatever it was given, OpenSecret opens with a quorum of
\* honest partials and the seal's own binding: only a panic is in between.
WhatSealsOpens ==
  \A g \in Goroutine :
    LET s == st[g]
    IN  s.pc = "C" /\ s.entry = "open_secret" /\ s.args.env # NoSeal
          /\ s.args.open.honest /\ s.args.open.bound
          /\ subset_points(s.args.open.points) = "ok"
          /\ de(s.args.open.partial) = "ok" /\ de(s.args.open.shared_a) = "ok" =>
        body(s) = {"MSDK_OK"}

\* apikey.go: "The finalizer is only a backstop", so an application that never
\* calls Close never uses a freed key.
SafeWithoutClose == ~closes => faults = {}
=============================================================================
