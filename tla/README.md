# Verification of the OpenMatter SDK

MatterSDK is a client library in four languages (Rust, TypeScript, Python, Go)
for the OpenMatter chain and its key-generation committee. This directory holds
TLA+ models of its stateful core, TLC runs that check them, and TLAPS proofs
about them. Paths below are relative to the repository; `committee.rs`, `mod.rs`
and so on are files of `crates/matter-sdk/src/` unless a language is named.

## Inventory

| Component | State | Operations | Where it is hard | What makes it correct |
|---|---|---|---|---|
| Threshold decrypt, `committee.rs` | per call: available nodes, chosen quorum, partials, faults, votes on epochs | probe, choose quorum, ask one node, drop and re-form, open | nodes fail or lie one by one while the committee rotates | ends; uses only partials of one quorum; a rotation it reports is real; names who failed; does not give up while a quorum is left |
| Delegated calls, `chain/mod.rs`, `chain/mode.rs` | per client: cached `Mode` (principal, scopes) behind a lock; per call: payload, nonce, watch | connect, build payload, submit, watch, classify refusal, refresh | calls overlap; the lock is not held across the chain's answer; the member re-scopes, revokes, re-grants; nonces collide; timer | cache never names another member; a refusal has no effect; a receipt means applied; each error is true |
| Finality watching, all bindings | per call: subscription or last polled height | submit, watch or poll, find, read outcome | forks, several blocks final at once, failing reads, timer | outcome is the finalized one; nothing final is overlooked |
| Secret recovery, `chain/recover.rs`, `chain/facade.rs` | none; some eight reads in sequence | read secret, check AAD, assemble committee, decrypt | the reads are not pinned to one block: re-sealing, rotation, registry changes and forks between them | every refusal names its true cause; the nodes contacted are the sealing committee's |
| Connection, `chain/mod.rs`, `chain/mode.rs` | the client being built: config, signer, chain identity, mode | from_env, constructors, dial, read properties, guards, resolve | the URL may serve another network; variables may be malformed; order of the checks | no unconfirmed mainnet signer; the key used is the one configured |
| Scope sets and table, facades, `scopes.rs`, `scopes_table.rs`, `facade.rs`, `calls.rs` | none (pure) | parse, show, bits, required scopes, build calls | the table reads untyped arguments by name and position | the local check agrees with the runtime's; a grant means what its text says |
| API keys and SURI, `apikey.rs`, `suri.rs` | none (pure) | parse | slashes with three meanings; schemes; passwords | same account as the upstream grammar, or an error |
| Amounts, `amount.rs` | none (pure) | parse, format, one token | width, zero, excess precision | lossless |
| C ABI and Go key handle, `matter-sdk-ffi`, Go `apikey.go`, `mattersdk.go` | heap handle, out-buffers | parse, sign, seal, open, free, finalizer | `Close` or the finalizer during a call in C; errors after the out parameter | no use after free; what Rust hands out Go frees; a closed key is wiped |
| Core cryptography wrappers, `matter-sdk-core` | none | seal, verify, open | checks of two operations that must fit each other | what is sealed opens |
| Ports of all this in Go, Python, TypeScript | as Rust | as Rust | they differ in tie-breaking, probing and refresh | they agree with Rust where the documents say so |
| Committee transport, request signing | none / sockets | GET, POST, frame | I/O, external library | modelled as outcomes only |

Components interact as follows. `recover` reads the chain and calls `decrypt`,
which calls a `Signer` and a `Transport` per node and ends in `open_secret` of
`matter-sdk-core`. Façades and call builders end in `tx`, which consults the
cached mode and the scope table, wraps the call in `proxy.proxy`, submits it and watches for
finality; a refusal triggers a refresh of the mode, shared by all calls of the
client. Go, Python and TypeScript implement networking and delegation anew and
call the Rust core, through the C ABI, PyO3 or wasm, for cryptography and keys.

`PROJECT.json` lists every component, the hazards with the line where each
bites, the correspondence of each definition with the source, and the findings.

## Modules

### ThresholdRecovery, Decrypt, DecryptProofs

`Decrypt` is one call of `decrypt` (`committee.rs:89-255`) against a committee.

| Module | Code |
|---|---|
| `available`, `chosen`, `partials`, `faults`, `rotated_votes` | the locals of those names (`active` before the loop is `available` too) |
| `Probe`, `EndProbing` | the health loop and the check of `active.len()` |
| `ChooseQuorum`, `SignerRefuses`, `Ask` | `choose_quorum`, `signer.authorize`, the body of `for node in &chosen` |
| `NodeFails`, `NodeServesOtherEpoch`, `NodeAnswers` | the three ways an answer is taken |
| `OpenSecret`, `OutOfNodes` | the end of the loop body and what follows the loop |
| `CommitteeRotates`, `NodeCatchesUp`, `Answers` | external: the committee |

A node is its DKG index. Nodes in `Faulty` misbehave as `Misbehaviour` allows:
refuse, claim another epoch, send unreadable hex, forge a partial. Honest nodes
serve an epoch that may lag behind the committee's, so an epoch reported as
rotated may be an older one. A partial carries the quorum whose Lagrange
coefficient it was asked for and whether its proof will verify; `OpenResults`
says what `open_secret` makes of a set of them. Randomness in `choose_quorum` is
any subset.

`ThresholdRecovery` is what the call promises: nodes are given up one at a time,
the secret is recovered only while a quorum is left, the committee is called
unavailable only when none is, and the call ends once. `Decrypt` implements it
with `live <- available \cup unprobed`.

### SubmittedCall

What submitting a call promises, in every binding: the application gets one
answer; `Ok` only when the call is final and took effect, `Failed` only when it
is final and did not, `Refused` when it was not sent or has failed for good; a
timeout or an error leaves its fate open; and only a refused call that was never
sent is made again. `DelegatedTx` implements it for each of its calls
(`Promise(t)`), `FinalityWatch` for its one (`Promise`), with `fate` read off the
pool and the executed effect, `answer` off the result. The failure TypeScript
reports of a block that is not final counts as an error there, for that is all it
is worth (run `finality_ts`).

### DelegatedTx, DelegatedTxProofs

Several `tx` calls (`mod.rs:444-514`) of one client share `mode`. `pc[t]` says
which await a call stands at: `idle`, `built` (payload checked against the
cached scopes), `ready` (nonce read, signed), `watch`, `lookup` (refresh asked),
`compare` (answer in, cache not yet written), `done`. `previous[t]` and
`fresh[t]` are the two locals of `refresh_delegation` (`mod.rs:610-628`), which
makes the lost update of overlapping refreshes possible in the model as in the
code. `submission_error` and `outer_dispatch_error` choose the error. A call is
identified with the scopes it requires. The member's moves (`Rescope`, `Revoke`,
`Authorize`, `Fund`), the pool's rules and block execution are external.
`everGranted` and `everGone` are history variables for the properties.

### FinalityWatch, FinalityWatchProofs

One extrinsic, watched by one of the four bindings: Rust's subscription, the
`send` callback of TypeScript, Python's scan of each finalized block and Go's
poll of the finalized head. The chain includes the call in a fork, retracts it,
and finalizes up to `MaxLeap` blocks at once. `Expire` is the binding's timer.
`SubscriptionEnds` is what the callback of TypeScript cannot tell from a call still
on its way: the subscription is lost, or ends in a status that
`polkadot.ts:176` passes over (dropped, usurped, finality timeout); `listening` is
false from then on and only the timer ends the call. Rust learns of such an end
(`SubscriptionFails`).
Event decoding is abstracted to the outcome it yields: `ok`, `outer` (the
extrinsic failed), `inner` (a wrapped call failed inside a successful
`proxy.proxy`). Go has no kind of its own for an outer failure; the model's
`Failed` stands for its chain error that says the extrinsic was refused.

### Session and what it composes, RecoverProofs, SessionProofs, AmountProofs, Recursion

`Session` is a `MatterClient` from its configuration to one operation. It
EXTENDS the modules below and joins them: the account of a key text becomes the
signer, the bits of a granted scope text become the scopes of the mode, the
arguments a facade builds are what the scope table reads, and a recover needs the
signer that connected. `MCSession` gives the values.

| Module | Code |
|---|---|
| `Connect` | `from_env`, the constructors, `build`, `read_properties`, `enforce_network_guards` (`mod.rs`), `resolve`, `decide`, `lookup` (`mode.rs`). `stage` is the await `build` stands at. Any endpoint may serve any chain |
| `Scopes` | `scopes.rs`. A set is the set of its one bits, on the wire a word of 32; a text a sequence of entries |
| `ScopeTable` | `scopes_table.rs`. `NEVER_ADMITTED` and the listed calls as written there |
| `Facade` | `facade.rs`, `calls.rs`. The calls with the kinds of their arguments in order; `RAW` adds the calls only `tx` reaches |
| `Recover` | `read_secret`, `check_aad`, `committee_info`, `assemble_nodes`; one action per request, each read of `best`, the best block at that moment. `Answers` is what the nodes, which look at a finalized block, make of the request |
| `KeyText` | `ApiKey::parse`, `suri::split`. A symbol stands for a class of characters, or for a whole mnemonic or mini-secret |
| `Amounts` | `amount.rs`, and the decimals of a chain. Any width, with the largest power of ten within it (`AmountAssumption`): scaled down for TLC, not in the proofs |

The chain of `Recover` is a finalized block and the pending ones on the best
fork; a change appends a block, `Finalize` and `Retract` move or cut the list.
`quiet` is a history variable: nothing changed or failed during the call.
`Recursion` holds what the proofs about loops rest on and models no code.

Three properties compare the code with a reference written independently of it:
`Upstream` is the regular expression of `sp_core` as a set of texts,
`RuntimeRequires` the runtime's rule (write access of the call's group; a
deployment that names a secret also reads secrets), and `AmountsAreExact` says
with cross-multiplication what an exact amount is. `Atomic` is the specification
of a recover as one read of one block, which the code must meet whenever nothing
changes under it.

### CBoundary, CBoundaryProofs

The entry points of the C ABI (`msdk_*`, each the set of codes it may return,
with `guard` adding the code of a panic) and the Go functions around them.
`st[a].pc` says where a goroutine stands: `checked` (Sign has seen a handle),
`C`, `returned` (buffers still to copy and free), `closing`, `freed`. `handle` is
the Go field, `key` the Rust allocation, `heap` the buffers handed out. `heap`
grows by what the entry point wrote (`written`), while what a goroutine collects
is decided on the Go side, by its early return and the fields its wrapper frees
(`collected`): `BuffersAreReleasedOnce` compares the two. No panic falls between
the write and the answer: what follows a write are `debug_assert`s that compare the
length of a 32-byte and a 64-byte array with these numbers (`ffi/src/apikey.rs:103`,
`:160`). `KeyIsReleased` is about the secret itself: once a `Close` has returned the
key is wiped, and a living key always has somebody left to free it. What the
lattice seal makes of its inputs is external, so a capsule or proof may be within
its bound or beyond it. The
finalizer runs on an actor of its own once `Refers` holds of nobody: a Go
variable that is not used again does not keep its object alive. Arguments are
abstracted to how their bytes decode. `sealed` keeps the last envelope of each
goroutine, so that what `encrypt` produced is what `open_secret` gets. The
application is taken to create one key and never to use its variable after it
dropped it.

## Runs

| Run | What it asks | Result |
|---|---|---|
| `decrypt` | Five nodes, threshold three, three of them misbehaving in every way: bookkeeping, partials, blame, termination, refinement | passes |
| `decrypt_recovers` | Two faulty nodes that refuse or claim another epoch: what a vote proves, when the call may give up, recovery | passes |
| `decrypt_one_node_denies` | Can one node end the decrypt? | violated: unreadable hex or a forged partial aborts the call |
| `decrypt_lone_vote` | Does a reported rotation have threshold votes? | violated: once nodes run out, one vote suffices |
| `delegated_tx` | Two concurrent calls, any two changes of grant or funds: the cache, each error, the refinement of `SubmittedCall` | passes |
| `delegated_unsponsored` | Is a call reported Unsponsored in scope? | violated when another call refreshed the cache first |
| `finality_watch` | All four bindings under forks and leaps of finality, and a subscription that ends in silence: skipped blocks, what is reported, the refinement of `SubmittedCall` | passes |
| `finality_go` | Is a FinalityTimeout said only of a call that did not finalize? | violated in Go: blocks that are never the polled head are not searched |
| `finality_ts` | Does a failure reported by TypeScript stay one? | violated: a dispatch error in an unfinalized block rejects the call |
| `session` | Connecting, guards, mode, scope check of every facade call and many raw ones, recover under a moving chain, key, scope and amount texts | passes |
| `c_boundary` | Two goroutines, one key, every entry point, good and broken arguments, Close, finalizer, panics: buffers, the key's release and use, seal and open | passes |
| `key_finalizer` | Is an application that never calls Close safe? | violated: the finalizer frees the key under its last Sign |

The violated runs each state a sentence of the repository's documents; the
findings quote it next to the code.

Bounds, and why they suffice:

- Nodes and threshold. Three faulty of five with threshold three is the smallest
  committee in which probing can succeed, the loop can run out of nodes, and
  threshold liars can vote together; with two faulty, honest nodes alone are a
  quorum. Both sides of each comparison with the threshold occur, and every
  outcome of the call is reached.
- `MaxEpoch = 3` around `ReqEpoch = 2` gives an older and a newer epoch, so two
  divergent epochs can compete for votes.
- Two calls are enough for every overlap of two refreshes; the proofs cover any
  number. `MaxMoves = 2` allows a revocation and a new grant, a re-scoping and
  its reversal, and a change of funds between. Two scopes distinguish narrowing
  from replacing; `Need = {{r}}`, plus a call no key may make.
- `MaxHeight = 4`, `MaxLeap = 2`: the call may land in the head, behind it, or
  in none, before and after the first poll.
- `session`. Key texts up to four symbols, and after a mnemonic five more: enough
  for two junctions and a password, every placement of up to five slashes, and
  a scheme. Scope texts of up to two entries over defined and undefined names and
  all shapes of letters. Amounts with up to three digits on each side around a
  maximum of 299, which holds two decimals, and chains of up to three and of 258 and
  259 (truncated to 2 and 3), so overflow, excess precision, all-zero texts, and
  more decimals than the type holds occur. Every environment of `Env`. A recover sees two epochs
  whose committees differ in size and threshold, up to two changes and up to two
  blocks not final; three registries, one with an endpoint that does not parse
  and one without two members. Two changes are what it takes to change a secret
  and its committee, or to make a change and retract it, between two reads.
- `c_boundary`. Four calls: a key made, used, closed and used again by two
  goroutines. Arguments with at most one defect each. Goroutines are
  interchangeable, hence the symmetry; no liveness is checked there.

`CHECK_DEADLOCK FALSE` everywhere: a finished call stops, and the external
parties have no duty to move.

Fairness. `Decrypt`: the client's own steps (`WF(Decrypting)`), justified by the
30 s request and 10 s connect timeouts of `ReqwestTransport`
(`transport.rs:62-69`); the committee need not move. `DelegatedTx`: local steps,
an answer or failure to every request, the finality timer, and the application's
retry; nothing obliges the chain to include a call. `FinalityWatch`: the
client's steps only, neither chain nor timer; the subscription of TypeScript
delivers a final status only while it is `listening`. `LandedIsReported` has two
halves. Without the timer, a final call is reported in Rust and Python, and in
TypeScript unless its subscription ended first (Go, whose run is separate, is left
out); once the timer has expired, every binding ends the call. `Session`: the client's steps while it connects and each request of
a recover, since every RPC is answered or fails; nothing obliges an application
to connect or the chain to move.

## Proofs

Every theorem holds for all values of the constants under the modules' named
assumptions: `DecryptAssumption` (finite set of positive node indices, faulty
nodes among them, epochs positive), `DelegatedTxAssumption` (needs are scope
sets; principal, stranger and nobody differ), `FinalityWatchAssumption` (a chain
that may have at least one block), `BoundaryAssumption` (arguments in the shape
of the entry points), `RecoverAssumption` (finite set of positive member indices,
a threshold for each epoch that its committee can meet), `ConnectAssumption` (a
variable may hold the empty text), `AmountAssumption` (`MAX_DECIMALS` is the
largest power of ten within `U128Max`, as 38 is for 128 bits) and
`SessionAssumption` (the texts a session is given are sequences of symbols and of
digits, as `KeyText` and `Amounts` read them, and declared decimals are numbers or
missing). The bounds `MaxHeight`,
`MaxLeap`, `MaxCalls`, `MaxChanges`, `MaxPending` may be any numbers there, and the
lengths of key, scope and amount texts, which the runs bound, are not bounded.

| Module | Theorems about |
|---|---|
| `DecryptProofs` | every safety property of `Decrypt`, and the safety half of the refinement |
| `DelegatedTxProofs` | every safety property of `DelegatedTx`, and that each call refines `SubmittedCall` |
| `FinalityWatchProofs` | every safety property of `FinalityWatch`, and that it refines `SubmittedCall` |
| `CBoundaryProofs` | every safety property of `CBoundary` |
| `RecoverProofs` | the two invariants of `Recover`, in the behaviours of `Session` |
| `SessionProofs` | types of `Session`, connecting, the local scope check, grants on the wire, scope texts, key texts |
| `AmountProofs` | parsing and formatting amounts |
| `Recursion` | lemmas: induction over an interval, existence of the values of a loop |

`DecryptProofs`. `TypeOK` is inductive by itself. The other properties are not:
that a vote is counted once needs to know that the node voting is still
available, hence not on record. `Bookkeeping` adds that the quorum is a
threshold-subset of the available nodes, that dropped nodes stay dropped, that
votes stay below the threshold while the call runs, and that each tally is the
number of nodes on record for it. `Witness` adds what the record says of the
committee: it leads its nodes, and honest nodes are blamed only for an epoch they
served. `VotedRotationIsReal` then follows by counting: threshold distinct voters
with fewer than threshold faulty ones include an honest one, and what it served
the committee had reached. `NamesEveryDroppedNode` joins `Bookkeeping`, since a
node leaves `available` in the step that records it; with both,
`GivesUpOnlyWithoutQuorum` holds because every honest node that is not on record
is still available, so too few available nodes are too few honest ones.
`CryptoErrorBlamesFaulty` needs only the types: an honest partial fails only when
made in another epoch, and that epoch comes with the answer and drops the node.
`DecryptRefinesRecovery` maps every step to a step of
`ThresholdRecovery` or a stutter; a quorum is left whenever the call recovers
because the partials' nodes are `chosen \subseteq available`, of threshold size.

`DelegatedTxProofs`. Two invariants are proved together, because each needs the
other. `Delegation` says that all modes in flight are of one kind, that they and
the cache name the principal and scopes on record, that the chain's answer a
refresh holds is on record too, and that a wrapped call passed the check of the
mode it was built for. `Effects` says, for each place a call can be at and each
way it can have ended, whether it is in the pool and what it did. An inner or
not-a-proxy failure shows the call was wrapped, so the client has a grant to
refresh; conversely, only a client with a grant classifies refusals. From them
follow `ModeNeverFalls`, `CachedScopesWereGranted`, `ReceiptsAreApplied` and
`RefusalHasNoEffect`. They also give the refinement: a call's place says what its
fate can be, so every action is one step of `SubmittedCall` or a stutter for the
call it is about, and a stutter for every other. A third invariant, `Verdicts`, adds that the three errors
which explain a refusal were true when given; they stay so because the record of
grants only grows.

`FinalityWatchProofs`. The properties become inductive with `CallLandsOnce` (a
call that landed has left the pool and has its effect, for good),
`NothingIsSkipped` (the height Python scans next is not past the call's block, and
no client knows a finalized block the chain has not) and `AnswersOnce`. That the
scan misses nothing rests on the height noted before the call was submitted, when
it was nowhere yet. For `WatchRefinesSubmission`, forks are stutters of
`SubmittedCall`: a call included or dropped is pending either way, and only
`Finalize` settles it.

`CBoundaryProofs`. What `Close`, the finalizer and the calls do to one handle is
inductive only together: nobody is at the key before it has its handle
(`NobodyBeforeHandle`), one goroutine constructs it (`OneConstructor`), a freed key
whose handle is still set has an actor between `msdk_apikey_free` and
`handle = nil`, and a call that holds a freed key was overlapped
(`FreedIsNoticed`), and a `Sign` begun after `Close` returned finds the handle nil
(`ClosedIsClosed`). `BuffersReleased` rests on `Answers`: for each entry point and
code, what Rust wrote is what Go collects. `Released` says that a handle which is
nil, or whose `Close` is past the free, belongs to a wiped key, from which
`KeyReleased` follows. `SealsOpen` says that each sealed envelope, and each one on its
way into `open_secret`, is within the bounds `open_secret` checks.

`RecoverProofs`. `Torn` follows what each read leaves in `rec` whatever the blocks
were: committee and threshold are of the epoch read, and the nodes are the
reachable members of that committee, which `Ascending` shows can be listed in
order. A threshold of 0, read at a block that had not seated the epoch, stays
possible; then no secret is recovered. `Undisturbed` says how `rec` agrees with
the best block, read by read, while nothing has changed, so that the reads add up
to one. Both need that a stored secret's epoch is one the chain has seated
(`Stored`), also in blocks that are retracted later.

`SessionProofs`. `Settled` joins the two invariants of connecting with what a mode
is before the client is ready. The local check needs a lemma on the table itself,
`TableMirrorsTheRuntime`: for every call of `Facade`, whatever arguments it can be
read to have, `required_scopes` is nothing exactly where the runtime admits
nothing, else the least set that covers what the runtime may require.
That its bits come back from the wire as they left makes `GrantsSurviveTheWire`:
a delegated mode holds the set of a text that parsed, `ScopeTextsMeanWhatTheySay`
says which accesses that is and that all of its bits are defined, and
`ShownScopesParseBack` that showing a valid set and parsing it again changes
nothing. `TypeOK` of `Session` needs the same of a delegated mode.

Loops over data (the entries of a scope text, the digits of an amount, the
segments of a path) are recursive functions local to a definition. Their proofs
take two lemmas of `Recursion`, which follow from the well-founded order of the
naturals: a loop whose body keeps a set has values (`LoopExists`), so the CHOOSE
that a recursive function stands for is one; and a set that holds 0 and with each
number below `n` the next holds all of `0..n` (`UpTo`). The set is the positions
at which the invariant of the loop holds.

`ParsedKeysAreUpstreams` compares two readings of a key text: the code cuts at the
first `///` and then at the first slash, the grammar of `sp_core` admits any cuts
that fit. The proof shows that where the grammar fits at all, its cuts are the
code's, because a phrase has no slash and a path no `///`; that the segments the
code scans, listed in order, cover the path from slash to slash; and that
flattening them gives the path again, which is what `Spelled` asks. Texts are of
any length. A newline in the password is left out, as in the property: there the
two differ (see below).

`AmountProofs`. Digits are read from the left, so appending zeros multiplies by a
power of ten, stripping leading zeros changes nothing, and the digits `padded`
makes read as the number they were made of. `ParsedAmountsAreExact` and
`FormattedAmountsParseBack` are about the two functions alone, `AmountsExact` about
what a session converts: a text that parses is the plancks written, a formatted
amount is exactly the plancks for any decimals and parses back to them up to
`MAX_DECIMALS`; beyond, `parse_amount` refuses it. `one_token` is the amount "1" up
to there; beyond it may panic or wrap, and nothing is claimed of it.

Before it was proved, each strengthening was checked by TLC as an invariant of the
run of its module. Every safety property the passing runs check is proved. Only
model-checked are the liveness properties `Terminates`, `Recovers`, `CallEnds`,
`LandedIsReported` and `SessionEnds`, and the liveness half of
`ImplementsRecovery`: fairness and ENABLED are beyond the prover. The violated
properties are refuted by TLC's counterexamples.

## Not modelled

Lattice cryptography, the AEAD, sr25519 and BIP39, subxt, polkadot.js,
substrate-interface and GSRPC are external: what they can answer is modelled,
how is not. SCALE encoding, JSON, hex and logging are left out except where a
failure to decode changes control (unreadable hex in `Decrypt`, broken bytes in
`CBoundary`). `DelegatedTx` connects without `MATTER_PRINCIPAL`; `Connect` has it.
`Recover` ends in the answers of the nodes; the loop that collects them is
`Decrypt`, and the two are not composed into one state space. A C caller that
breaks the contract of the ABI (dangling pointers, wrong lengths) is out of
scope: Go, the caller modelled, passes neither.

The ports in Go, Python and TypeScript are modelled where they differ in kind
(finality, key handle); elsewhere they repeat the Rust logic and the repository
pins them to it with shared test vectors. The wasm and PyO3 bindings convert
arguments. Examples and scripts are not part of the SDK.

Where the code was seen to differ from a text without a run of its own: a
password with a newline in it is accepted although `suri.rs:39` says exactly what
the upstream grammar rejects is rejected; Go's `NewApiKey("")` returns
`ErrInvalidArg`, not `ErrBadAPIKey` whose comment (`mattersdk.go:32`) names the
empty key; a call refused by the local scope check never re-reads the grant, so
the remedy `docs/keys-and-scopes.md:175` gives, having the member widen the key,
takes a new connection; `amount.rs:77` says a formatted amount parses back "for
every `v`", which fails where a chain has more than 38 decimals, since
`parse_amount` refuses those (`amount.rs:24`) and `format_amount` does not
(`AmountsAreExact` and `FormattedAmountsParseBack` state both halves); with a lagging finalized block a re-sealed secret can
end in an AEAD failure, which `docs/errors.md` calls terminal.

## Plan

Done, in order of importance: `Decrypt` with `ThresholdRecovery`, `DelegatedTx` and
`FinalityWatch` with `SubmittedCall`, `Session` with `Connect`, `Scopes`,
`ScopeTable`, `Facade`, `Recover`, `KeyText` and `Amounts`, `CBoundary`; theorems for
every safety property, and for the refinement of both abstract specifications.

What could follow: the ports of the decrypt loop and of the mode cache in Go,
Python and TypeScript as modules that refine the same two abstract specifications,
and one composition of `Recover` with `Decrypt`, in which the nodes `Recover`
assembles are the ones `Decrypt` asks.
