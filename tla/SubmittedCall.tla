---------------------------- MODULE SubmittedCall ----------------------------
(***************************************************************************)
(* What submitting a call promises the application, in every binding: one  *)
(* answer, true when it is given and whatever the chain does afterwards.   *)
(* A call that is reported as applied is and stays applied, one reported   *)
(* as failed or refused never takes effect, and only a call that was       *)
(* refused before it was sent may be made again.  An error or a timeout    *)
(* leaves the fate of the call open: it may still be on its way.           *)
(***************************************************************************)
VARIABLES fate,    \* what becomes of the call on chain
          answer   \* what the application was told

vars == <<fate, answer>>

Final == {"ok", "failed"}

Init ==
  /\ fate = "unsent"
  /\ answer = "none"

\* The node has the call; forks may include and drop it before it is final.
Send ==
  /\ fate = "unsent" /\ answer = "none"
  /\ fate' = "pending"
  /\ UNCHANGED answer

Settle ==
  /\ fate = "pending"
  /\ fate' \in Final
  /\ UNCHANGED answer

Confirm ==
  /\ fate = "ok" /\ answer = "none"
  /\ answer' = "Ok"
  /\ UNCHANGED fate

Fail ==
  /\ fate = "failed" /\ answer = "none"
  /\ answer' = "Failed"
  /\ UNCHANGED fate

\* Told before anything was sent, or once the call has failed for good.
Refuse ==
  /\ fate \in {"unsent", "failed"} /\ answer = "none"
  /\ answer' = "Refused"
  /\ UNCHANGED fate

\* A request that is under way may still reach the node.
GiveUp ==
  /\ answer = "none"
  /\ answer' = "Unknown"
  /\ UNCHANGED fate \/ (fate = "unsent" /\ fate' = "pending")

Retry ==
  /\ fate = "unsent" /\ answer = "Refused"
  /\ answer' = "none"
  /\ UNCHANGED fate

Next == Send \/ Settle \/ Confirm \/ Fail \/ Refuse \/ GiveUp \/ Retry

Spec == Init /\ [][Next]_vars
=============================================================================
