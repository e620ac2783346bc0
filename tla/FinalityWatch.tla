---------------------------- MODULE FinalityWatch ----------------------------
(***************************************************************************)
(* How a binding learns what became of an extrinsic it submitted.  All of  *)
(* them promise an answer for the finalized block, each finds it its way:  *)
(*   "rust"   follows the subscription to the finalized status             *)
(*            (crates/matter-sdk/src/chain/mod.rs, tx);                    *)
(*   "ts"     takes the first callback that carries an outcome             *)
(*            (packages/typescript/src/polkadot.ts, submit; client.ts, tx);*)
(*   "python" scans every newly finalized block                            *)
(*            (bindings/python/python/matter_sdk/chain.py, submit);        *)
(*   "go"     looks into the finalized head each time it polls             *)
(*            (packages/go/mattersdk/chain.go, SubmitAndWatch).            *)
(* The chain is external: it includes the call in a block that a fork may  *)
(* retract, and finalizes one or several blocks at a time.                 *)
(***************************************************************************)
EXTENDS Integers

CONSTANTS
  Binding,    \* the bindings under consideration
  MaxHeight,  \* bound: blocks the chain finalizes
  MaxLeap     \* bound: blocks finalized at once

ASSUME FinalityWatchAssumption ==
  /\ Binding \subseteq {"rust", "ts", "python", "go"}
  /\ MaxHeight \in Nat \ {0} /\ MaxLeap \in Nat

VARIABLES
  binding,      \* which binding makes the call
  pc,           \* where it is
  expired,      \* has the finality timeout passed?
  listening,    \* will the node still report on the call?
  head,         \* the finalized height it read last, 0 for none
  next_number,  \* "python": the next height to scan
  result,       \* how the call ended
  pooled,       \* chain: the pool has the call and no final block does
  included,     \* chain: what the call did in the current best fork
  finalized,    \* chain: the finalized height
  landed,       \* chain: the finalized height that holds the call, 0 for none
  effect        \* chain: what it did there

client == <<pc, head, next_number, result>>
chain  == <<pooled, included, finalized, landed, effect>>
vars   == <<binding, expired, listening, client, chain>>

Height == 1..MaxHeight
\* A wrapped call may fail inside a proxy.proxy that succeeds ("inner").
Effect == {"none", "ok", "outer", "inner"}

TypeOK ==
  /\ binding \in Binding
  /\ pc \in {"start", "submit", "watch", "find", "outcome", "done"}
  /\ expired \in BOOLEAN
  /\ listening \in BOOLEAN
  /\ head \in Height \cup {0}
  /\ next_number \in 0..MaxHeight + 1
  /\ result \in {"none", "Ok", "Failed", "Dispatch", "Chain", "FinalityTimeout"}
  /\ pooled \in BOOLEAN
  /\ included \in Effect
  /\ finalized \in Height \cup {0}
  /\ landed \in 0..finalized
  /\ effect \in Effect

-----------------------------------------------------------------------------
(***************************************************************************)
(* The chain (external).                                                   *)
(***************************************************************************)
Include ==
  /\ pooled /\ included = "none"
  /\ included' \in Effect \ {"none"}
  /\ UNCHANGED <<binding, expired, listening, client, pooled, finalized, landed, effect>>

Retract ==
  /\ included # "none"
  /\ included' = "none"
  /\ UNCHANGED <<binding, expired, listening, client, pooled, finalized, landed, effect>>

\* The best fork becomes final up to some block; the call's may be among them.
Finalize ==
  \E k \in 1..MaxLeap :
    /\ finalized + k <= MaxHeight
    /\ finalized' = finalized + k
    /\ \/ UNCHANGED <<pooled, included, landed, effect>>
       \/ /\ included # "none"
          /\ landed' \in finalized + 1 .. finalized + k
          /\ effect' = included
          /\ pooled' = FALSE
          /\ included' = "none"
    /\ UNCHANGED <<binding, expired, listening, client>>

Chain == Include \/ Retract \/ Finalize

\* The finality timeout passes.  "ts" starts its timer before it builds the
\* call, "rust" before it submits it, the others once the node has taken it.
Expire ==
  /\ pc # "done" /\ ~expired
  /\ pc = "start" => binding = "ts"
  /\ pc = "submit" => binding \in {"rust", "ts"}
  /\ expired' = TRUE
  /\ UNCHANGED <<binding, listening, client, chain>>

\* "ts" hears no more of a call the node gave up watching (dropped, usurped,
\* finalityTimeout) or of a connection it lost: the callback passes over every
\* status but the finalized one, and no further one comes.
SubscriptionEnds ==
  /\ binding = "ts" /\ pc = "watch" /\ listening
  /\ listening' = FALSE
  /\ UNCHANGED <<binding, expired, client, chain>>

-----------------------------------------------------------------------------
(***************************************************************************)
(* The client.                                                             *)
(***************************************************************************)
Init ==
  /\ binding \in Binding
  /\ pc = "start"
  /\ expired = FALSE
  /\ listening = TRUE
  /\ head = 0
  /\ next_number = 0
  /\ result = "none"
  /\ pooled = FALSE
  /\ included = "none"
  /\ finalized \in 0..1
  /\ landed = 0
  /\ effect = "none"

Returns(r) ==
  /\ pc' = "done"
  /\ result' = r

GoesTo(place) ==
  /\ pc' = place
  /\ UNCHANGED result

Outcome == [ok |-> "Ok", outer |-> "Failed", inner |-> "Dispatch"]

\* The call is assembled; only "python" notes the finalized height beforehand.
Prepare ==
  /\ pc = "start"
  /\ next_number' = IF binding = "python" THEN finalized + 1 ELSE next_number
  /\ GoesTo("submit")
  /\ UNCHANGED <<binding, expired, listening, head, chain>>

\* The node takes the call, or refuses it, or its answer is lost.
Submit ==
  /\ pc = "submit"
  /\ \/ /\ pooled' = TRUE
        /\ GoesTo("watch")
     \/ /\ pooled' \in BOOLEAN
        /\ Returns("Chain")
  /\ UNCHANGED <<binding, expired, listening, head, next_number, included, finalized,
                 landed, effect>>

Answers(r) ==
  /\ Returns(r)
  /\ UNCHANGED <<binding, expired, listening, head, next_number, chain>>

\* Mutant: the subscription is left at the first block, final or not.
wait_for_finalized_InBlock ==
  /\ binding = "rust" /\ pc = "watch"
  /\ included # "none"
  /\ Answers(Outcome[included])

wait_for_finalized ==
  /\ binding = "rust" /\ pc = "watch"
  /\ landed # 0
  /\ Answers(Outcome[effect])

\* A dispatch error counts in whatever block it is seen, success in a final one.
send_callback ==
  /\ binding = "ts" /\ pc = "watch" /\ listening
  /\ \/ included = "outer" /\ Answers("Failed")
     \/ landed # 0 /\ Answers(Outcome[effect])

\* tokio::time::timeout and Promise.race end the wait, but a request that is
\* under way, or in "ts" still to be made, may reach the node.
TimesOut ==
  /\ binding \in {"rust", "ts"} /\ pc \in {"start", "submit", "watch"}
  /\ expired
  /\ IF pc = "watch" THEN UNCHANGED pooled ELSE pooled' \in BOOLEAN
  /\ Returns("FinalityTimeout")
  /\ UNCHANGED <<binding, expired, listening, head, next_number, included, finalized,
                 landed, effect>>

\* The subscription breaks or ends in another status; "rust" makes it an error.
SubscriptionFails ==
  /\ binding = "rust" /\ pc = "watch"
  /\ Answers("Chain")

\* Mutant: the scan jumps to the head, as if every block were polled.
await_finalized_HeadOnly ==
  /\ binding = "python" /\ pc = "watch"
  /\ head' = finalized
  /\ next_number' = IF finalized >= next_number THEN finalized ELSE next_number
  /\ GoesTo("find")
  /\ UNCHANGED <<binding, expired, listening, chain>>

await_finalized ==
  /\ binding = "python" /\ pc = "watch"
  /\ \/ /\ head' = finalized
        /\ GoesTo("find")
     \/ /\ Returns("Chain")
        /\ UNCHANGED head
  /\ UNCHANGED <<binding, expired, listening, next_number, chain>>

\* Mutant: the newest finalized block is left for the next round.
scan_OffByOne ==
  /\ binding = "python" /\ pc = "find"
  /\ \/ /\ next_number < head /\ next_number = landed
        /\ GoesTo("outcome")
        /\ UNCHANGED next_number
     \/ /\ next_number < head /\ next_number # landed
        /\ next_number' = next_number + 1
        /\ UNCHANGED <<pc, result>>
     \/ /\ next_number >= head
        /\ IF expired THEN Returns("FinalityTimeout") ELSE GoesTo("watch")
        /\ UNCHANGED next_number
  /\ UNCHANGED <<binding, expired, listening, head, chain>>

\* Mutant: the scan runs on past the finalized head.
scan_PastHead ==
  /\ binding = "python" /\ pc = "find"
  /\ IF next_number = landed
       THEN GoesTo("outcome") /\ UNCHANGED next_number
       ELSE next_number' = next_number + 1 /\ UNCHANGED <<pc, result>>
  /\ UNCHANGED <<binding, expired, listening, head, chain>>

scan ==
  /\ binding = "python" /\ pc = "find"
  /\ \/ /\ next_number <= head
        /\ \/ /\ next_number = landed
              /\ GoesTo("outcome")
              /\ UNCHANGED next_number
           \/ /\ next_number # landed
              /\ next_number' = next_number + 1
              /\ UNCHANGED <<pc, result>>
           \/ /\ Returns("Chain")
              /\ UNCHANGED next_number
     \/ /\ next_number > head
        /\ IF expired THEN Returns("FinalityTimeout") ELSE GoesTo("watch")
        /\ UNCHANGED next_number
  /\ UNCHANGED <<binding, expired, listening, head, chain>>

\* The loop of SubmitAndWatch: sleep, then read the finalized head; when that
\* fails it goes round again.
SubmitAndWatch ==
  /\ binding = "go" /\ pc = "watch"
  /\ \/ /\ expired
        /\ Returns("FinalityTimeout")
        /\ UNCHANGED head
     \/ /\ ~expired
        /\ head' = finalized
        /\ GoesTo("find")
  /\ UNCHANGED <<binding, expired, listening, next_number, chain>>

\* Only that block is searched.  A block that cannot be read is forgotten: the
\* next round reads the head of its own time.
findExtrinsic ==
  /\ binding = "go" /\ pc = "find"
  /\ \/ /\ GoesTo(IF landed = head /\ head # 0 THEN "outcome" ELSE "watch")
        /\ UNCHANGED head
     \/ /\ GoesTo("watch")
        /\ head' = 0
  /\ UNCHANGED <<binding, expired, listening, next_number, chain>>

\* Reading the block's events and telling what the extrinsic did.
outcomeAt ==
  /\ pc = "outcome"
  /\ \/ Answers(Outcome[effect])
     \/ Answers("Chain")

Client ==
  \/ Prepare \/ Submit
  \/ wait_for_finalized \/ send_callback \/ TimesOut \/ SubscriptionFails
  \/ await_finalized \/ scan
  \/ SubmitAndWatch \/ findExtrinsic \/ outcomeAt

Next == Client \/ Chain \/ Expire \/ SubscriptionEnds

Spec == Init /\ [][Next]_vars

\* The client keeps stepping.  Neither the chain nor the timer has to move.
FairSpec == Spec /\ WF_vars(Client)

-----------------------------------------------------------------------------
(***************************************************************************)
(* Properties.                                                             *)
(***************************************************************************)

\* What became of the call on chain, and what the caller was told: the early
\* failure of "ts" is worth no more than an error.
Fate ==
  IF landed = 0 THEN IF pooled THEN "pending" ELSE "unsent"
  ELSE IF effect = "ok" THEN "ok" ELSE "failed"

Told ==
  IF result \in {"none", "Ok"} THEN result
  ELSE IF result = "Dispatch" \/ (result = "Failed" /\ binding # "ts") THEN "Failed"
  ELSE "Unknown"

Promise == INSTANCE SubmittedCall WITH fate <- Fate, answer <- Told

\* Every binding implements SubmittedCall: a receipt is for a call that is final
\* and whose wrapped call succeeded, whatever forks came and went while it
\* watched, and what was answered stays true.
KeepsItsPromise == Promise!Spec

\* When python gives up, no finalized block up to the head it read last holds
\* the call: the height noted before submitting leaves no block out.
TimeoutSawEveryBlock ==
  result = "FinalityTimeout" /\ binding = "python" => landed = 0 \/ landed > head

\* A final call is reported, even if the timer never fires and no further block
\* is finalized, as long as the node still reports on it: the scan and the
\* subscriptions do not miss it.  And once the timer has passed every call ends,
\* also one whose subscription is gone.
LandedIsReported ==
  /\ landed # 0 /\ binding # "go" ~> pc = "done" \/ ~listening
  /\ expired ~> pc = "done"

\* docs/errors.md:23: FinalityTimeout means "the extrinsic did not finalize in
\* time"; it is not said of a call that was final when the watcher last looked.
TimeoutMeansNotFinal ==
  result = "FinalityTimeout" => landed = 0 \/ landed > head

\* packages/typescript/src/polkadot.ts:167: "Resolve on finalization, not
\* inclusion": a call reported as failed does not take effect.
FailedMeansNoEffect == result = "Failed" => effect # "ok"
=============================================================================
