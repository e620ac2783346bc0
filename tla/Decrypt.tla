------------------------------ MODULE Decrypt ------------------------------
(***************************************************************************)
(* One call of `decrypt` (crates/matter-sdk/src/committee.rs): the client  *)
(* probes the committee, forms a random quorum of Threshold nodes, asks    *)
(* each for its partial decryption in dkg_index order, drops a node that   *)
(* fails and starts a new quorum, and opens the secret once a whole quorum *)
(* has answered.  The committee it talks to is external: honest nodes      *)
(* answer for the epoch they serve and move to the committee's newer epoch *)
(* each in its own time, faulty nodes answer anything Misbehaviour allows. *)
(***************************************************************************)
EXTENDS Integers, FiniteSets

CONSTANTS
  Node,          \* the candidate nodes of the request, named by dkg_index
  Faulty,        \* the nodes that may misbehave
  Misbehaviour,  \* the ways they may: a subset of MisbehaviourKind
  Threshold,     \* the committee threshold t of the request's epoch
  ReqEpoch,      \* the epoch the committee state was supplied for
  MaxEpoch,      \* bound: the committee never rotates beyond this epoch
  SealMayDiffer, \* may the request's aad, id or epoch differ from the seal's?
  SignerMayFail  \* may the signer refuse to authorize a request?

MisbehaviourKind == {"refuse", "diverge", "unreadable", "forge"}

ASSUME DecryptAssumption ==
  /\ Node \subseteq Nat \ {0} /\ IsFiniteSet(Node)
  /\ Faulty \subseteq Node
  /\ Misbehaviour \subseteq MisbehaviourKind
  /\ Threshold \in Nat
  /\ ReqEpoch \in Nat \ {0} /\ MaxEpoch \in Nat /\ ReqEpoch <= MaxEpoch
  /\ SealMayDiffer \in BOOLEAN /\ SignerMayFail \in BOOLEAN

VARIABLES
  pc,              \* where the call is: "probe", "form", "collect" or "done"
  unprobed,        \* nodes whose health has not been asked yet
  available,       \* nodes still believed usable
  chosen,          \* the quorum of this round
  partials,        \* the partials collected in this round
  faults,          \* one NodeFault per node found unusable
  rotated_votes,   \* how many nodes served each divergent epoch
  outcome,         \* how the call ended, "pending" until then
  served,          \* the epoch EpochRotated names, 0 otherwise
  committeeEpoch,  \* the committee's epoch on chain
  serving          \* the epoch each honest node currently serves

client    == <<pc, unprobed, available, chosen, partials, faults,
               rotated_votes, outcome, served>>
committee == <<committeeEpoch, serving>>
vars      == <<client, committee>>

Honest == Node \ Faulty
Epoch  == 1..MaxEpoch
Stage  == {"ProtocolVersion", "Inactive", "Health", "PartialDecrypt",
           "EpochMismatch"}
Fault  == [node : Node, stage : Stage, served : Epoch \cup {0}]

\* A partial is scaled by the Lagrange coefficient of the subset it was asked for.
Partial == [point : Node, subset : SUBSET Node,
            body : {"good", "bad"}]

Abort == {"Signer", "Hex", "InvalidSubset", "Aggregate", "Aead"}
Outcome == {"pending", "Recovered", "QuorumUnavailable", "EpochRotated"}
             \cup Abort

TypeOK ==
  /\ pc \in {"probe", "form", "collect", "done"}
  /\ unprobed \subseteq Node
  /\ available \subseteq Node
  /\ chosen \subseteq Node
  /\ partials \subseteq Partial
  /\ faults \subseteq Fault
  /\ rotated_votes \in [Epoch -> Nat]
  /\ outcome \in Outcome
  /\ served \in Epoch \cup {0}
  /\ committeeEpoch \in Epoch
  /\ serving \in [Honest -> Epoch]

-----------------------------------------------------------------------------
(***************************************************************************)
(* The committee (external): what a node answers.                          *)
(***************************************************************************)
Refusal == [kind |-> "err", epoch |-> 0, body |-> "bad"]
Answer(e, b) == [kind |-> "ok", epoch |-> e, body |-> b]

Misbehaves(kind) == kind \in Misbehaviour

\* The answers node n may give to a /partial-decrypt request now.
Answers(n) ==
  IF n \in Honest
  THEN {Answer(serving[n], IF serving[n] = ReqEpoch THEN "good" ELSE "bad")}
  ELSE {Answer(ReqEpoch, "good"), Answer(0, "good")}
         \cup (IF Misbehaves("refuse") THEN {Refusal} ELSE {})
         \cup (IF Misbehaves("diverge")
                 THEN {Answer(e, "bad") : e \in Epoch} \ {Answer(ReqEpoch, "bad")}
                 ELSE {})
         \cup (IF Misbehaves("unreadable")
                 THEN {Answer(ReqEpoch, "malformed")} ELSE {})
         \cup (IF Misbehaves("forge") THEN {Answer(ReqEpoch, "bad")} ELSE {})

\* The verdicts a /health probe of node n may lead to; "active" keeps the node.
Verdicts(n) ==
  {"active"} \cup
    (IF n \in Faulty /\ Misbehaves("refuse")
       THEN {"ProtocolVersion", "Inactive", "Health"} ELSE {})

CommitteeRotates ==
  /\ committeeEpoch < MaxEpoch
  /\ committeeEpoch' = committeeEpoch + 1
  /\ UNCHANGED <<client, serving>>

NodeCatchesUp(n) ==
  /\ serving[n] < committeeEpoch
  /\ serving' = [serving EXCEPT ![n] = committeeEpoch]
  /\ UNCHANGED <<client, committeeEpoch>>

-----------------------------------------------------------------------------
(***************************************************************************)
(* The client.                                                             *)
(***************************************************************************)
Init ==
  /\ pc = "probe"
  /\ unprobed = Node
  /\ available = {}
  /\ chosen = {}
  /\ partials = {}
  /\ faults = {}
  /\ rotated_votes = [e \in Epoch |-> 0]
  /\ outcome = "pending"
  /\ served = 0
  /\ committeeEpoch \in ReqEpoch..MaxEpoch
  /\ serving \in [Honest -> 1..committeeEpoch]

Fails(n, stage, epoch) ==
  faults' = faults \cup {[node |-> n, stage |-> stage, served |-> epoch]}

Return(result, epoch) ==
  /\ pc' = "done"
  /\ outcome' = result
  /\ served' = epoch

\* Nodes are probed and asked in index order.
First(S) == {n \in S : \A m \in S : n <= m}

Probe(n) ==
  /\ pc = "probe"
  /\ n \in First(unprobed)
  /\ unprobed' = unprobed \ {n}
  /\ \E verdict \in Verdicts(n) :
       \/ /\ verdict = "active"
          /\ available' = available \cup {n}
          /\ UNCHANGED faults
       \/ /\ verdict # "active"
          /\ Fails(n, verdict, 0)
          /\ UNCHANGED available
  /\ UNCHANGED <<pc, chosen, partials, rotated_votes, outcome, served, committee>>

\* Mutant: a quorum of exactly Threshold healthy nodes is refused.
EndProbing_OffByOne ==
  /\ pc = "probe"
  /\ unprobed = {}
  /\ \/ /\ Cardinality(available) <= Threshold
        /\ Return("QuorumUnavailable", 0)
     \/ /\ Cardinality(available) > Threshold
        /\ pc' = "form"
        /\ UNCHANGED <<outcome, served>>
  /\ UNCHANGED <<unprobed, available, chosen, partials, faults, rotated_votes,
                 committee>>

EndProbing ==
  /\ pc = "probe"
  /\ unprobed = {}
  /\ \/ /\ Cardinality(available) < Threshold
        /\ Return("QuorumUnavailable", 0)
     \/ /\ Cardinality(available) >= Threshold
        /\ pc' = "form"
        /\ UNCHANGED <<outcome, served>>
  /\ UNCHANGED <<unprobed, available, chosen, partials, faults, rotated_votes,
                 committee>>

\* Mutant: the partials of the previous round are kept.
ChooseQuorum_KeepsPartials(Q) ==
  /\ pc = "form"
  /\ Cardinality(Q) = Threshold
  /\ chosen' = Q
  /\ pc' = "collect"
  /\ UNCHANGED <<unprobed, available, partials, faults, rotated_votes, outcome,
                 served, committee>>

ChooseQuorum(Q) ==
  /\ pc = "form"
  /\ Cardinality(Q) = Threshold
  /\ chosen' = Q
  /\ partials' = {}        \* a fresh Vec for every round
  /\ pc' = "collect"
  /\ UNCHANGED <<unprobed, available, faults, rotated_votes, outcome, served,
                 committee>>

Unanswered == {n \in chosen : \A p \in partials : p.point # n}

SignerRefuses ==
  /\ SignerMayFail
  /\ pc = "collect"
  /\ Unanswered # {}
  /\ Return("Signer", 0)
  /\ UNCHANGED <<unprobed, available, chosen, partials, faults, rotated_votes,
                 committee>>

\* Mutant: the failing node stays in the running.
DropAndReform_KeepsNode(n) ==
  /\ pc' = "form"
  /\ UNCHANGED <<available, chosen, partials>>

\* Mutant: one failing node costs its whole quorum.
DropAndReform_DropsQuorum(n) ==
  /\ available' = available \ chosen
  /\ pc' = "form"
  /\ UNCHANGED <<chosen, partials>>

\* A failing node leaves `available`; what the round collected is not read again.
DropAndReform(n) ==
  /\ available' = available \ {n}
  /\ pc' = "form"
  /\ UNCHANGED <<chosen, partials>>

\* Mutant: a failed request leaves no NodeFault.
NodeFails_Silently(n, a) ==
  /\ a.kind = "err"
  /\ DropAndReform(n)
  /\ UNCHANGED <<faults, rotated_votes, outcome, served>>

NodeFails(n, a) ==
  /\ a.kind = "err"
  /\ Fails(n, "PartialDecrypt", 0)
  /\ DropAndReform(n)
  /\ UNCHANGED <<rotated_votes, outcome, served>>

\* Mutant: the served epoch is never compared.
Divergent_Never(a) == FALSE

\* Mutant: any epoch a node reports counts as divergent.
Divergent_Always(a) == a.kind = "ok" /\ a.epoch # 0

Divergent(a) == a.kind = "ok" /\ a.epoch # 0 /\ a.epoch # ReqEpoch

NodeServesOtherEpoch(n, a) ==
  /\ Divergent(a)
  /\ rotated_votes' = [rotated_votes EXCEPT ![a.epoch] = @ + 1]
  /\ \/ /\ rotated_votes'[a.epoch] >= Threshold
        /\ Return("EpochRotated", a.epoch)
        /\ UNCHANGED <<available, chosen, partials, faults>>
     \/ /\ rotated_votes'[a.epoch] < Threshold
        /\ Fails(n, "EpochMismatch", a.epoch)
        /\ DropAndReform(n)
        /\ UNCHANGED <<outcome, served>>

\* Mutant: a partial is kept without decoding it.
NodeAnswers_Undecoded(n, a) ==
  /\ a.kind = "ok"
  /\ ~Divergent(a)
  /\ partials' = partials \cup {[point |-> n, subset |-> chosen, body |-> a.body]}
  /\ UNCHANGED <<pc, outcome, served, available, chosen, faults, rotated_votes>>

NodeAnswers(n, a) ==
  /\ a.kind = "ok"
  /\ ~Divergent(a)
  /\ \/ /\ a.body = "malformed"
        /\ Return("Hex", 0)
        /\ UNCHANGED partials
     \/ /\ a.body # "malformed"
        /\ partials' = partials \cup
             {[point |-> n, subset |-> chosen, body |-> a.body]}
        /\ UNCHANGED <<pc, outcome, served>>
  /\ UNCHANGED <<available, chosen, faults, rotated_votes>>

Ask(n) ==
  /\ pc = "collect"
  /\ n \in First(Unanswered)
  /\ \E a \in Answers(n) :
       \/ NodeFails(n, a)
       \/ NodeServesOtherEpoch(n, a)
       \/ NodeAnswers(n, a)
  /\ UNCHANGED <<unprobed, committee>>

\* Interpolation succeeds only over one subset, with every proof valid.
OpenResults ==
  IF partials = {} THEN {"InvalidSubset"}
  ELSE IF \E p \in partials :
            p.body = "bad" \/ p.subset # {q.point : q \in partials}
  THEN {"Aggregate"}
  ELSE {"Recovered"} \cup (IF SealMayDiffer THEN {"Aead"} ELSE {})

OpenSecret ==
  /\ pc = "collect"
  /\ Unanswered = {}
  /\ \E result \in OpenResults : Return(result, 0)
  /\ UNCHANGED <<unprobed, available, chosen, partials, faults, rotated_votes,
                 committee>>

\* `max_by_key` over a BTreeMap returns the last of the most-voted epochs.
MostVoted ==
  {e \in Epoch :
     /\ rotated_votes[e] > 0
     /\ \A d \in Epoch : \/ rotated_votes[d] < rotated_votes[e]
                         \/ rotated_votes[d] = rotated_votes[e] /\ d <= e}

OutOfNodes ==
  /\ pc = "form"
  /\ Cardinality(available) < Threshold
  /\ \/ \E e \in MostVoted : Return("EpochRotated", e)
     \/ /\ \A e \in Epoch : rotated_votes[e] = 0
        /\ Return("QuorumUnavailable", 0)
  /\ UNCHANGED <<unprobed, available, chosen, partials, faults, rotated_votes,
                 committee>>

Decrypting ==
  \/ \E n \in Node : Probe(n) \/ Ask(n)
  \/ EndProbing
  \/ \E Q \in SUBSET available : ChooseQuorum(Q)
  \/ SignerRefuses
  \/ OpenSecret
  \/ OutOfNodes

Next ==
  \/ Decrypting
  \/ CommitteeRotates
  \/ \E n \in Honest : NodeCatchesUp(n)

Spec == Init /\ [][Next]_vars

\* Every request ends in an answer or the transport's timeout (30 s), so the
\* client keeps stepping; nothing obliges the committee to move.
FairSpec == Spec /\ WF_vars(Decrypting)

-----------------------------------------------------------------------------
(***************************************************************************)
(* Safety.                                                                 *)
(***************************************************************************)
Blamed    == {f.node : f \in faults}
Voters(e) == {n \in Node :
                [node |-> n, stage |-> "EpochMismatch", served |-> e] \in faults}

\* A node that failed is never asked again in this call, so it cannot fault,
\* or vote, twice (`available.retain`).
DroppedStaysDropped ==
  /\ Blamed \cap (available \cup unprobed) = {}
  /\ \A f, g \in faults : f.node = g.node => f = g

\* The tally that decides a rotation counts distinct nodes, each on record as an
\* EpochMismatch fault; only the vote that ends the call leaves no fault.
VotesAreDistinctNodes ==
  \A e \in Epoch :
    rotated_votes[e] = Cardinality(Voters(e))
                         + (IF outcome = "EpochRotated" /\ served = e
                               /\ rotated_votes[e] >= Threshold
                            THEN 1 ELSE 0)

\* Fewer liars than the threshold cannot invent a rotation: an epoch that
\* Threshold nodes voted for is one the committee has reached.
VotedRotationIsReal ==
  /\ outcome = "EpochRotated"
  /\ rotated_votes[served] >= Threshold
  /\ Cardinality(Faulty) < Threshold
  => served <= committeeEpoch

\* QuorumUnavailable names every node the call gave up on: whenever it may be
\* returned, each node that is neither available nor still to be probed has left
\* its NodeFault.
NamesEveryDroppedNode == Blamed = Node \ (available \cup unprobed)

\* Partials are scaled for one subset: the ones collected in a round were all
\* asked for the quorum of that round, never left over from an earlier one.
PartialsMatchQuorum ==
  pc = "collect" => \A p \in partials : p.point \in chosen /\ p.subset = chosen

\* The call gives up for lack of nodes only when fewer than Threshold honest
\* nodes are left that it has not itself seen serving another epoch.
GivesUpOnlyWithoutQuorum ==
  /\ outcome \in {"QuorumUnavailable", "EpochRotated"}
  /\ \A e \in Epoch : rotated_votes[e] < Threshold
  => Cardinality(Honest \ Blamed) < Threshold

\* An honest node is only ever blamed for an epoch it did serve.
HonestBlamedForEpochOnly ==
  \A f \in faults : f.node \in Honest =>
    /\ f.stage = "EpochMismatch"
    /\ f.served # ReqEpoch
    /\ f.served <= serving[f.node]

\* A collected partial that would fail the aggregation is a faulty node's work:
\* honest nodes that rotate during the call are caught by the served epoch before
\* their partials, good for another epoch only, can surface as a crypto error.
CryptoErrorBlamesFaulty ==
  \A p \in partials : p.body = "bad" => p.point \in Faulty

(***************************************************************************)
(* What the documents say and the code does not do.                        *)
(***************************************************************************)
\* SECURITY.md: "No single node can deny or monopolise a decryption."  With one
\* faulty node and a quorum of honest ones serving the request's epoch, the call
\* does not end in an error.
NoSingleNodeDenies ==
  /\ Cardinality(Faulty) <= 1
  /\ Cardinality({n \in Honest : serving[n] = ReqEpoch}) >= Threshold
  => outcome \in {"pending", "Recovered"}

\* docs/secrets.md: "A single node serving a different epoch is just a fault."
RotationNeedsThreshold ==
  outcome = "EpochRotated" => rotated_votes[served] >= Threshold

(***************************************************************************)
(* Liveness.                                                               *)
(***************************************************************************)
\* Each fault shrinks `available`, so the loop ends.
Terminates == <>(pc = "done")

\* Threshold honest nodes that keep serving the request's epoch recover the
\* secret, whichever of the fewer than Threshold faulty nodes refuse to answer
\* or claim another epoch, and whenever they do.
Recovers ==
  [](\A n \in Honest : serving[n] = ReqEpoch) => <>(outcome = "Recovered")

(***************************************************************************)
(* Refinement: nodes not yet probed still count as live.                   *)
(***************************************************************************)
Quorum == {Q \in SUBSET Node : Cardinality(Q) = Threshold}

Abstract == INSTANCE ThresholdRecovery WITH
  live   <- available \cup unprobed,
  result <- IF outcome \in Abort THEN "Aborted" ELSE outcome

\* decrypt implements threshold recovery: it loses nodes one at a time and
\* recovers only while a quorum is left.
ImplementsRecovery == Abstract!Spec
=============================================================================
