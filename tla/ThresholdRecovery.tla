-------------------------- MODULE ThresholdRecovery --------------------------
(***************************************************************************)
(* What a threshold decryption promises its caller, whatever quorum it     *)
(* tries: it gives up on nodes one at a time, recovers the secret only     *)
(* while a quorum of them is left, calls the committee unavailable only    *)
(* when none is, and ends exactly once.                                    *)
(***************************************************************************)
CONSTANTS Node,     \* the candidate nodes
          Quorum    \* the sets of nodes that can recover the secret

VARIABLES live,     \* the nodes not given up on
          result    \* how the recovery ended

vars == <<live, result>>

HasQuorum == \E Q \in Quorum : Q \subseteq live

Init ==
  /\ live = Node
  /\ result = "pending"

GiveUpOn(n) ==
  /\ result = "pending"
  /\ live' = live \ {n}
  /\ UNCHANGED result

Recover ==
  /\ result = "pending"
  /\ HasQuorum
  /\ result' = "Recovered"
  /\ UNCHANGED live

FindUnavailable ==
  /\ result = "pending"
  /\ ~HasQuorum
  /\ result' = "QuorumUnavailable"
  /\ UNCHANGED live

\* The committee moved on, or the cryptography refused what was collected.
Refuse ==
  /\ result = "pending"
  /\ result' \in {"EpochRotated", "Aborted"}
  /\ UNCHANGED live

Next ==
  \/ \E n \in live : GiveUpOn(n)
  \/ Recover
  \/ FindUnavailable
  \/ Refuse

SafeSpec == Init /\ [][Next]_vars

Spec == SafeSpec /\ WF_vars(Next)
=============================================================================
