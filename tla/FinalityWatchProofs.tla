------------------------- MODULE FinalityWatchProofs -------------------------
(***************************************************************************)
(* Theorems about the four ways to wait for finality, for every number of  *)
(* blocks and however many become final at once.                           *)
(*                                                                         *)
(* The chain half of the invariant says that a call lands at most once and *)
(* what it did is settled then; the client half says what each place in    *)
(* the code already knows of the chain, in particular that the height      *)
(* python scans next is never past the block that holds the call.          *)
(***************************************************************************)
EXTENDS FinalityWatch, TLAPS

\* A call that the node was never given is nowhere; one that is included is in
\* the pool; one that landed is in neither, and it did something.
CallLandsOnce ==
  /\ pc \in {"start", "submit"} => ~pooled /\ landed = 0
  /\ included # "none" => pooled
  /\ landed # 0 => ~pooled
  /\ landed = 0 <=> effect = "none"

\* The finalized head read last is one; only "python" has noted a height, and no
\* block before it holds the call.
NothingIsSkipped ==
  /\ head <= finalized
  /\ next_number <= finalized + 1
  /\ binding = "python" /\ pc \in {"watch", "find"} => landed = 0 \/ landed >= next_number
  /\ binding = "python" /\ pc # "start" => next_number # 0

\* A call looks for its outcome once it is final, and has a result when done.
AnswersOnce ==
  /\ pc = "outcome" => landed # 0
  /\ result # "none" <=> pc = "done"

\* A receipt is given for a call that is final and whose wrapped call succeeded.
ReceiptIsFinal == result = "Ok" => landed # 0 /\ effect = "ok"

\* A failure that rust, python or go reports is the one of the final block.
FailureIsFinal ==
  result \in {"Failed", "Dispatch"} /\ binding # "ts"
    => landed # 0 /\ effect = (IF result = "Failed" THEN "outer" ELSE "inner")

Inv ==
  /\ TypeOK
  /\ CallLandsOnce
  /\ NothingIsSkipped
  /\ AnswersOnce
  /\ ReceiptIsFinal
  /\ FailureIsFinal
  /\ TimeoutSawEveryBlock

-----------------------------------------------------------------------------
\* What a final call is answered with says what it did.
LEMMA OutcomeOfEffect ==
  ASSUME effect \in Effect \ {"none"}
  PROVE  /\ Outcome[effect] \in {"Ok", "Failed", "Dispatch"}
         /\ Outcome[effect] = "Ok" => effect = "ok"
         /\ Outcome[effect] = "Failed" => effect = "outer"
         /\ Outcome[effect] = "Dispatch" => effect = "inner"
BY DEF Outcome, Effect

\* The chain moves under a call: blocks become final, perhaps the call's.
LEMMA ChainStep ==
  ASSUME Inv, Chain
  PROVE  Inv'
<1> USE FinalityWatchAssumption DEF Inv, TypeOK, Height, client
<1>1. UNCHANGED <<binding, expired, listening, pc, head, next_number, result>>
  BY DEF Chain, Include, Retract, Finalize
<1>2. CASE Include \/ Retract
  BY <1>1, <1>2
     DEF Include, Retract, CallLandsOnce, NothingIsSkipped, AnswersOnce, ReceiptIsFinal,
         FailureIsFinal, TimeoutSawEveryBlock
<1>3. CASE Finalize
  <2>1. PICK k \in 1..MaxLeap :
          /\ finalized + k <= MaxHeight
          /\ finalized' = finalized + k
          /\ \/ UNCHANGED <<pooled, included, landed, effect>>
             \/ /\ included # "none"
                /\ landed' \in finalized + 1 .. finalized + k
                /\ effect' = included
                /\ pooled' = FALSE
                /\ included' = "none"
    BY <1>3 DEF Finalize
  <2>2. k \in Nat /\ k >= 1 /\ finalized \in Nat /\ finalized' \in Nat /\ head \in Nat
        /\ next_number \in Nat /\ landed \in Nat
    BY <2>1
  <2>3. CASE UNCHANGED <<pooled, included, landed, effect>>
    BY <1>1, <2>1, <2>2, <2>3
       DEF CallLandsOnce, NothingIsSkipped, AnswersOnce, ReceiptIsFinal, FailureIsFinal,
           TimeoutSawEveryBlock
  \* The call lands above everything that was final, so above what was read.
  <2>4. CASE /\ included # "none"
             /\ landed' \in finalized + 1 .. finalized + k
             /\ effect' = included
             /\ pooled' = FALSE
             /\ included' = "none"
    <3>1. landed = 0 /\ effect = "none" /\ pc \notin {"start", "submit", "outcome"}
      BY <2>4 DEF CallLandsOnce, AnswersOnce
    <3>2. landed' # 0 /\ landed' > finalized /\ landed' \in 0..finalized'
      BY <2>1, <2>2, <2>4
    <3>3. ReceiptIsFinal' /\ FailureIsFinal'
      BY <1>1, <3>1 DEF ReceiptIsFinal, FailureIsFinal
    <3>4. TimeoutSawEveryBlock' /\ NothingIsSkipped'
      BY <1>1, <2>1, <2>2, <3>1, <3>2 DEF TimeoutSawEveryBlock, NothingIsSkipped
    <3>5. CallLandsOnce' /\ AnswersOnce'
      BY <1>1, <2>4, <3>1, <3>2 DEF CallLandsOnce, AnswersOnce
    <3>6. effect' \in Effect /\ included' \in Effect /\ pooled' \in BOOLEAN
      BY <2>4 DEF Effect
    <3>7. finalized' \in Height \cup {0}
      BY <2>1, <2>2
    <3>8. TypeOK'
      BY <1>1, <3>2, <3>6, <3>7
    <3> QED
      BY <3>3, <3>4, <3>5, <3>8
  <2> QED
    BY <2>1, <2>3, <2>4
<1> QED
  BY <1>2, <1>3 DEF Chain

\* An answer leaves the chain as it is.
LEMMA AnswerStep ==
  ASSUME Inv, NEW r \in {"Ok", "Failed", "Dispatch", "Chain"}, Answers(r),
         pc \notin {"start", "done"},
         r = "Ok" => landed # 0 /\ effect = "ok",
         r \in {"Failed", "Dispatch"} /\ binding # "ts"
           => landed # 0 /\ effect = (IF r = "Failed" THEN "outer" ELSE "inner")
  PROVE  Inv'
<1>1. /\ pc' = "done" /\ result' = r
      /\ UNCHANGED <<binding, expired, listening, head, next_number, pooled, included, finalized,
                     landed, effect>>
  BY DEF Answers, Returns, chain
<1>2. TypeOK'
  BY <1>1 DEF Inv, TypeOK, Height
<1>3. CallLandsOnce' /\ NothingIsSkipped' /\ AnswersOnce'
  BY <1>1 DEF Inv, TypeOK, CallLandsOnce, NothingIsSkipped, AnswersOnce
<1>4. ReceiptIsFinal' /\ FailureIsFinal' /\ TimeoutSawEveryBlock'
  BY <1>1 DEF ReceiptIsFinal, FailureIsFinal, TimeoutSawEveryBlock
<1> QED
  BY <1>2, <1>3, <1>4 DEF Inv

\* Each step of a binding keeps what its code relies on.
LEMMA ClientStep ==
  ASSUME Inv, Client
  PROVE  Inv'
<1> USE FinalityWatchAssumption DEF Inv, TypeOK, Height
<1> USE DEF CallLandsOnce, NothingIsSkipped, AnswersOnce, ReceiptIsFinal, FailureIsFinal,
            TimeoutSawEveryBlock
<1>1. CASE Prepare
  BY <1>1 DEF Prepare, GoesTo, chain
<1>2. CASE Submit
  BY <1>2 DEF Submit, GoesTo, Returns
<1>3. CASE wait_for_finalized
  BY <1>3, OutcomeOfEffect, AnswerStep DEF wait_for_finalized
<1>4. CASE send_callback
  BY <1>4, OutcomeOfEffect, AnswerStep DEF send_callback
<1>5. CASE TimesOut
  BY <1>5 DEF TimesOut, Returns
<1>6. CASE SubscriptionFails
  BY <1>6, AnswerStep DEF SubscriptionFails
<1>7. CASE await_finalized
  BY <1>7 DEF await_finalized, GoesTo, Returns, chain
<1>8. CASE scan
  <2>1. /\ binding = "python" /\ pc = "find" /\ next_number # 0
        /\ landed = 0 \/ landed >= next_number
        /\ UNCHANGED <<binding, expired, listening, head, pooled, included, finalized, landed, effect>>
        /\ next_number \in Nat /\ head \in Nat /\ landed \in Nat /\ finalized \in Nat
    BY <1>8 DEF scan, chain
  <2>2. CASE next_number <= head /\ next_number = landed /\ GoesTo("outcome")
             /\ UNCHANGED next_number
    <3>1. landed # 0
      BY <2>1, <2>2
    <3> QED
      BY <2>1, <2>2, <3>1 DEF GoesTo
  <2>3. CASE next_number <= head /\ next_number # landed /\ next_number' = next_number + 1
             /\ UNCHANGED <<pc, result>>
    BY <2>1, <2>3
  <2>4. CASE Returns("Chain") /\ UNCHANGED next_number
    BY <2>1, <2>4 DEF Returns
  <2>5. CASE next_number > head /\ Returns("FinalityTimeout") /\ UNCHANGED next_number
    BY <2>1, <2>5 DEF Returns
  <2>6. CASE GoesTo("watch") /\ UNCHANGED next_number
    BY <2>1, <2>6 DEF GoesTo
  <2> QED
    BY <1>8, <2>2, <2>3, <2>4, <2>5, <2>6 DEF scan
<1>9. CASE SubmitAndWatch
  BY <1>9 DEF SubmitAndWatch, GoesTo, Returns, chain
<1>10. CASE findExtrinsic
  BY <1>10 DEF findExtrinsic, GoesTo, chain
<1>11. CASE outcomeAt
  BY <1>11, OutcomeOfEffect, AnswerStep DEF outcomeAt
<1> QED
  BY <1>1, <1>2, <1>3, <1>4, <1>5, <1>6, <1>7, <1>8, <1>9, <1>10, <1>11 DEF Client

-----------------------------------------------------------------------------
LEMMA Invariance == Spec => []Inv
<1>1. Init => Inv
  <2> SUFFICES ASSUME Init
               PROVE  Inv
    OBVIOUS
  <2>1. TypeOK
    <3>1. finalized \in Height \cup {0}
      BY FinalityWatchAssumption DEF Init, Height
    <3>2. head = 0 /\ next_number \in 0..MaxHeight + 1 /\ landed \in 0..finalized
      BY FinalityWatchAssumption DEF Init
    <3>3. included \in Effect /\ effect \in Effect
      BY DEF Init, Effect
    <3> QED
      BY <3>1, <3>2, <3>3 DEF Init, TypeOK
  <2>2. CallLandsOnce /\ NothingIsSkipped /\ AnswersOnce
    BY DEF Init, CallLandsOnce, NothingIsSkipped, AnswersOnce
  <2>3. ReceiptIsFinal /\ FailureIsFinal /\ TimeoutSawEveryBlock
    BY DEF Init, ReceiptIsFinal, FailureIsFinal, TimeoutSawEveryBlock
  <2> QED
    BY <2>1, <2>2, <2>3 DEF Inv
<1>2. Inv /\ [Next]_vars => Inv'
  <2> SUFFICES ASSUME Inv, [Next]_vars
               PROVE  Inv'
    OBVIOUS
  <2>1. CASE Expire \/ SubscriptionEnds \/ UNCHANGED vars
    <3>1. /\ expired' \in BOOLEAN /\ listening' \in BOOLEAN
          /\ UNCHANGED <<binding, pc, head, next_number, result, pooled, included, finalized,
                         landed, effect>>
      BY <2>1 DEF Expire, SubscriptionEnds, vars, client, chain, Inv, TypeOK
    <3>2. TypeOK'
      BY <3>1 DEF Inv, TypeOK, Height
    <3>3. CallLandsOnce' /\ NothingIsSkipped' /\ AnswersOnce'
      BY <3>1 DEF Inv, CallLandsOnce, NothingIsSkipped, AnswersOnce
    <3>4. ReceiptIsFinal' /\ FailureIsFinal' /\ TimeoutSawEveryBlock'
      BY <3>1 DEF Inv, ReceiptIsFinal, FailureIsFinal, TimeoutSawEveryBlock
    <3> QED
      BY <3>2, <3>3, <3>4 DEF Inv
  <2> QED
    BY <2>1, ChainStep, ClientStep DEF Next
<1> QED
  BY <1>1, <1>2, PTL DEF Spec

\* Every variable keeps its type, whichever binding waits and however the chain
\* includes, retracts and finalizes.
THEOREM TypeCorrect == Spec => []TypeOK
BY Invariance, PTL DEF Inv

\* No fork makes any of the four bindings hand out a receipt for a call that is
\* not final or whose wrapped call failed.
THEOREM ReceiptsAreFinal == Spec => []ReceiptIsFinal
BY Invariance, PTL DEF Inv

\* When python's scan gives up, every finalized block up to the head it read was
\* looked into, from the height noted before the call was submitted.
THEOREM ScanSkipsNoBlock == Spec => []TimeoutSawEveryBlock
BY Invariance, PTL DEF Inv

-----------------------------------------------------------------------------
(***************************************************************************)
(* The refinement of SubmittedCall.                                        *)
(***************************************************************************)
\* An answer is one the promise allows, when it is true of the chain.
LEMMA AnswerKeepsPromise ==
  ASSUME Inv, NEW r \in {"Ok", "Failed", "Dispatch", "Chain"}, Answers(r),
         pc \notin {"start", "done"},
         r = "Ok" => landed # 0 /\ effect = "ok",
         r = "Dispatch" => landed # 0 /\ effect = "inner",
         r = "Failed" /\ binding # "ts" => landed # 0 /\ effect = "outer"
  PROVE  Promise!Next
<1>1. /\ result = "none" /\ result' = r
      /\ UNCHANGED <<binding, pooled, landed, effect>>
  BY DEF Inv, TypeOK, AnswersOnce, Answers, Returns, chain
<1>2. UNCHANGED Fate  BY <1>1 DEF Fate
<1>3. Told = "none"  BY <1>1 DEF Told
<1>4. CASE r = "Ok"
  BY <1>1, <1>2, <1>3, <1>4 DEF Fate, Told, Promise!Next, Promise!Confirm
<1>5. CASE r = "Dispatch" \/ (r = "Failed" /\ binding # "ts")
  BY <1>1, <1>2, <1>3, <1>5 DEF Fate, Told, Promise!Next, Promise!Fail
<1>6. CASE r = "Chain" \/ (r = "Failed" /\ binding = "ts")
  BY <1>1, <1>2, <1>3, <1>6 DEF Told, Promise!Next, Promise!GiveUp
<1> QED
  BY <1>4, <1>5, <1>6

\* A step that is neither an answer nor the submission leaves the promise alone.
LEMMA OtherStepsStutter ==
  ASSUME UNCHANGED <<binding, result, pooled, landed, effect>>
  PROVE  UNCHANGED Promise!vars
BY DEF Fate, Told, Promise!vars

LEMMA ClientKeepsPromise ==
  ASSUME Inv, Client
  PROVE  [Promise!Next]_(Promise!vars)
<1> USE FinalityWatchAssumption DEF Inv, TypeOK, CallLandsOnce, AnswersOnce
<1>1. CASE Prepare
  BY <1>1, OtherStepsStutter DEF Prepare, GoesTo, chain
<1>2. CASE Submit
  <2>1. Fate = "unsent" /\ Told = "none" /\ landed' = 0
    BY <1>2 DEF Submit, Fate, Told
  <2>2. CASE pooled' = TRUE /\ GoesTo("watch")
    <3>1. Fate' = "pending" /\ Told' = Told
      BY <1>2, <2>1, <2>2 DEF Submit, GoesTo, Fate, Told
    <3> QED
      BY <2>1, <3>1 DEF Promise!Next, Promise!Send
  <2>3. CASE pooled' \in BOOLEAN /\ Returns("Chain")
    <3>1. Fate' \in {"unsent", "pending"} /\ Told' = "Unknown"
      BY <1>2, <2>1, <2>3 DEF Submit, Returns, Fate, Told
    <3> QED
      BY <2>1, <3>1 DEF Promise!Next, Promise!GiveUp
  <2> QED
    BY <1>2, <2>2, <2>3 DEF Submit
<1>3. CASE wait_for_finalized
  BY <1>3, OutcomeOfEffect, AnswerKeepsPromise DEF wait_for_finalized
<1>4. CASE send_callback
  BY <1>4, OutcomeOfEffect, AnswerKeepsPromise DEF send_callback
<1>5. CASE TimesOut
  <2>1. Told = "none" /\ Told' = "Unknown"
    BY <1>5 DEF TimesOut, Returns, Told
  <2>2. CASE pc # "watch"
    <3>1. Fate = "unsent" /\ Fate' \in {"unsent", "pending"}
      BY <1>5, <2>2 DEF TimesOut, Fate
    <3> QED
      BY <2>1, <3>1 DEF Promise!Next, Promise!GiveUp
  <2>3. CASE pc = "watch"
    <3>1. Fate' = Fate
      BY <1>5, <2>3 DEF TimesOut, Fate
    <3> QED
      BY <2>1, <3>1 DEF Promise!Next, Promise!GiveUp
  <2> QED
    BY <2>2, <2>3
<1>6. CASE SubscriptionFails
  BY <1>6, AnswerKeepsPromise DEF SubscriptionFails
<1>7. ASSUME pc \in {"watch", "find"}, UNCHANGED chain, UNCHANGED binding,
             UNCHANGED result \/ Returns("Chain") \/ Returns("FinalityTimeout")
      PROVE  [Promise!Next]_(Promise!vars)
  <2>1. CASE UNCHANGED result
    BY <1>7, <2>1, OtherStepsStutter DEF chain
  <2>2. CASE Returns("Chain") \/ Returns("FinalityTimeout")
    <3>1. Told = "none" /\ Told' = "Unknown" /\ Fate' = Fate
      BY <1>7, <2>2 DEF Returns, Told, Fate, chain
    <3> QED
      BY <3>1 DEF Promise!Next, Promise!GiveUp
  <2> QED
    BY <1>7, <2>1, <2>2
<1>8. CASE await_finalized \/ scan
  BY <1>7, <1>8 DEF await_finalized, scan, GoesTo
<1>9. CASE SubmitAndWatch \/ findExtrinsic
  BY <1>7, <1>9 DEF SubmitAndWatch, findExtrinsic, GoesTo
<1>10. CASE outcomeAt
  BY <1>10, OutcomeOfEffect, AnswerKeepsPromise DEF outcomeAt
<1> QED
  BY <1>1, <1>2, <1>3, <1>4, <1>5, <1>6, <1>8, <1>9, <1>10 DEF Client

\* The chain settles a call once; what forks do before that is not seen.
LEMMA ChainKeepsPromise ==
  ASSUME Inv, Chain
  PROVE  [Promise!Next]_(Promise!vars)
<1> USE DEF Inv, TypeOK, CallLandsOnce
<1>1. UNCHANGED <<binding, result>>
  BY DEF Chain, Include, Retract, Finalize, client
<1>2. CASE UNCHANGED <<pooled, landed, effect>>
  BY <1>1, <1>2, OtherStepsStutter
<1>3. CASE /\ included # "none"
           /\ landed' \in Height
           /\ effect' = included
  <2>1. Told' = Told  BY <1>1 DEF Told
  <2>2. Fate = "pending"  BY <1>3 DEF Fate
  <2>3. landed' # 0  BY <1>3, FinalityWatchAssumption DEF Height
  <2>4. Fate' \in {"ok", "failed"}  BY <2>3 DEF Fate
  <2> QED
    BY <2>1, <2>2, <2>4 DEF Promise!Next, Promise!Settle, Promise!Final
<1>4. CASE Finalize
  <2>1. PICK k \in 1..MaxLeap :
          /\ finalized + k <= MaxHeight
          /\ \/ UNCHANGED <<pooled, included, landed, effect>>
             \/ /\ included # "none"
                /\ landed' \in finalized + 1 .. finalized + k
                /\ effect' = included
    BY <1>4 DEF Finalize
  <2>2. finalized + 1 .. finalized + k \subseteq Height
    BY <2>1, FinalityWatchAssumption DEF Height
  <2> QED
    BY <1>2, <1>3, <2>1, <2>2
<1> QED
  BY <1>2, <1>4 DEF Chain, Include, Retract

\* Whichever binding waits, the call is a SubmittedCall: it is answered once, and
\* the answer is true of the final chain from then on.
THEOREM WatchRefinesSubmission == Spec => KeepsItsPromise
<1>1. Init => Promise!Init
  BY DEF Init, Fate, Told, Promise!Init
<1>2. Inv /\ [Next]_vars => [Promise!Next]_(Promise!vars)
  <2>1. CASE Expire \/ SubscriptionEnds \/ UNCHANGED vars
    BY <2>1, OtherStepsStutter DEF Expire, SubscriptionEnds, vars, client, chain
  <2> QED
    BY <2>1, ClientKeepsPromise, ChainKeepsPromise DEF Next
<1> QED
  BY <1>1, <1>2, Invariance, PTL DEF Spec, KeepsItsPromise, Promise!Spec
=============================================================================
