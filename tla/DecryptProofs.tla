---------------------------- MODULE DecryptProofs ----------------------------
(***************************************************************************)
(* Theorems about decrypt, for every committee, threshold, set of faulty   *)
(* nodes and kind of misbehaviour.                                         *)
(*                                                                         *)
(* Bookkeeping is the strengthening all of them rest on: how the client's  *)
(* variables relate while the call runs.  Witness ties the client's record *)
(* to what the committee did.                                              *)
(***************************************************************************)
EXTENDS Decrypt, FiniteSetTheorems, TLAPS

\* The quorum of a round is a Threshold-subset of the nodes still available.
QuorumIsAvailable ==
  /\ pc = "probe" \/ unprobed = {}
  /\ available \cap unprobed = {}
  /\ pc = "collect" =>
       /\ chosen \subseteq available
       /\ Cardinality(chosen) = Threshold
  /\ outcome = "pending" <=> pc # "done"

\* No epoch has been voted for by Threshold nodes while the call runs.
VotesBelowThreshold ==
  outcome = "pending" =>
    \A e \in Epoch : rotated_votes[e] = 0 \/ rotated_votes[e] < Threshold

\* The committee is never behind its nodes.
CommitteeLeads == \A n \in Honest : serving[n] <= committeeEpoch

Bookkeeping ==
  /\ TypeOK
  /\ QuorumIsAvailable
  /\ DroppedStaysDropped
  /\ VotesBelowThreshold
  /\ VotesAreDistinctNodes

Witness ==
  /\ CommitteeLeads
  /\ HonestBlamedForEpochOnly
  /\ VotedRotationIsReal

-----------------------------------------------------------------------------
\* Every variable keeps its type, whatever the committee answers.
THEOREM TypeCorrect == Spec => []TypeOK
<1>1. Init => TypeOK
  BY DecryptAssumption DEF Init, TypeOK, Epoch, Outcome, Abort
<1>2. TypeOK /\ [Next]_vars => TypeOK'
  <2> SUFFICES ASSUME TypeOK, [Next]_vars
               PROVE  TypeOK'
    OBVIOUS
  <2> USE DEF TypeOK
  <2>1. ASSUME NEW n \in Node, Probe(n)
        PROVE  TypeOK'
    BY <2>1 DEF Probe, Verdicts, Fails, Fault, Stage, committee
  <2>2. CASE EndProbing
    BY <2>2 DEF EndProbing, Return, Outcome, committee
  <2>3. ASSUME NEW Q \in SUBSET available, ChooseQuorum(Q)
        PROVE  TypeOK'
    BY <2>3 DEF ChooseQuorum, committee
  <2>4. CASE SignerRefuses
    BY <2>4 DEF SignerRefuses, Return, Outcome, Abort, committee
  <2>5. ASSUME NEW n \in Node, Ask(n)
        PROVE  TypeOK'
    <3>1. PICK a \in Answers(n) :
            NodeFails(n, a) \/ NodeServesOtherEpoch(n, a) \/ NodeAnswers(n, a)
      BY <2>5 DEF Ask
    <3>2. /\ a.kind \in {"ok", "err"}
          /\ a.epoch \in Epoch \cup {0}
          /\ a.body \in {"good", "bad", "malformed"}
      <4>1. ReqEpoch \in Epoch
        BY DecryptAssumption DEF Epoch
      <4>2. n \in Honest => serving[n] \in Epoch
        OBVIOUS
      <4> QED
        BY <4>1, <4>2 DEF Answers, Answer, Refusal
    <3>3. UNCHANGED <<unprobed, committeeEpoch, serving>>
      BY <2>5 DEF Ask, committee
    <3>4. CASE NodeFails(n, a)
      BY <3>3, <3>4 DEF NodeFails, DropAndReform, Fails, Fault, Stage
    <3>5. CASE NodeServesOtherEpoch(n, a)
      BY <3>2, <3>3, <3>5
         DEF NodeServesOtherEpoch, Divergent, DropAndReform, Fails, Fault, Stage,
             Return, Outcome
    <3>6. CASE NodeAnswers(n, a)
      BY <3>2, <3>3, <3>6 DEF NodeAnswers, Partial, Return, Outcome, Abort
    <3> QED
      BY <3>1, <3>4, <3>5, <3>6
  <2>6. CASE OpenSecret
    BY <2>6 DEF OpenSecret, OpenResults, Return, Outcome, Abort, committee
  <2>7. CASE OutOfNodes
    BY <2>7 DEF OutOfNodes, MostVoted, Return, Outcome, committee
  <2>8. CASE CommitteeRotates
    BY <2>8, DecryptAssumption DEF CommitteeRotates, Epoch, client
  <2>9. ASSUME NEW n \in Honest, NodeCatchesUp(n)
        PROVE  TypeOK'
    BY <2>9 DEF NodeCatchesUp, client
  <2>10. CASE UNCHANGED vars
    BY <2>10 DEF vars, client, committee
  <2> QED
    BY <2>1, <2>2, <2>3, <2>4, <2>5, <2>6, <2>7, <2>8, <2>9, <2>10
       DEF Next, Decrypting
<1> QED
  BY <1>1, <1>2, PTL DEF Spec

-----------------------------------------------------------------------------
LEMMA NodesFinite == \A S \in SUBSET Node : IsFiniteSet(S) /\ Cardinality(S) \in Nat
BY DecryptAssumption, FS_Subset, FS_CardinalityType

\* Recording that n served e adds n, and nobody else, to the voters of e.
LEMMA NewVoter ==
  ASSUME NEW n \in Node, NEW e \in Epoch, NEW f \in Epoch,
         faults' = faults \cup
           {[node |-> n, stage |-> "EpochMismatch", served |-> e]}
  PROVE  Voters(f)' = IF f = e THEN Voters(f) \cup {n} ELSE Voters(f)
BY DEF Voters

\* A node that served a divergent epoch is on record.
LEMMA VotersAreBlamed == \A e \in Epoch : Voters(e) \subseteq Blamed
<1> SUFFICES ASSUME NEW e \in Epoch, NEW n \in Voters(e)
             PROVE  n \in Blamed
  OBVIOUS
<1>1. [node |-> n, stage |-> "EpochMismatch", served |-> e] \in faults
  BY DEF Voters
<1> QED
  BY <1>1 DEF Blamed

\* What an answer the client takes for a divergent epoch looks like.
LEMMA DivergentEpoch ==
  ASSUME TypeOK, NEW n \in Node, NEW a \in Answers(n), Divergent(a)
  PROVE  /\ a.epoch \in Epoch \ {ReqEpoch}
         /\ n \in Honest => a.epoch = serving[n]
BY DecryptAssumption DEF TypeOK, Answers, Answer, Refusal, Divergent, Epoch, Honest

\* The quorum and the nodes still in the running keep their relation.
LEMMA QuorumStep ==
  TypeOK /\ QuorumIsAvailable /\ [Next]_vars => QuorumIsAvailable'
<1> SUFFICES ASSUME TypeOK, QuorumIsAvailable, [Next]_vars
             PROVE  QuorumIsAvailable'
  OBVIOUS
<1> USE DEF QuorumIsAvailable, TypeOK
<1>1. ASSUME NEW n \in Node, Probe(n)
      PROVE  QuorumIsAvailable'
  BY <1>1 DEF Probe, Fails, First
<1>2. CASE EndProbing
  BY <1>2 DEF EndProbing, Return
<1>3. ASSUME NEW Q \in SUBSET available, ChooseQuorum(Q)
      PROVE  QuorumIsAvailable'
  BY <1>3 DEF ChooseQuorum
<1>4. CASE SignerRefuses
  BY <1>4 DEF SignerRefuses, Return, Abort
<1>5. ASSUME NEW n \in Node, Ask(n)
      PROVE  QuorumIsAvailable'
  BY <1>5 DEF Ask, NodeFails, NodeServesOtherEpoch, NodeAnswers, DropAndReform,
              Return
<1>6. CASE OpenSecret
  BY <1>6 DEF OpenSecret, OpenResults, Return
<1>7. CASE OutOfNodes
  BY <1>7 DEF OutOfNodes, Return
<1>8. CASE CommitteeRotates
  BY <1>8 DEF CommitteeRotates, client
<1>9. ASSUME NEW n \in Honest, NodeCatchesUp(n)
      PROVE  QuorumIsAvailable'
  BY <1>9 DEF NodeCatchesUp, client
<1>10. CASE UNCHANGED vars
  BY <1>10 DEF vars, client
<1> QED
  BY <1>1, <1>2, <1>3, <1>4, <1>5, <1>6, <1>7, <1>8, <1>9, <1>10
     DEF Next, Decrypting

\* A node leaves the running exactly when its fault is recorded.
LEMMA DroppedStep ==
  TypeOK /\ QuorumIsAvailable /\ DroppedStaysDropped /\ [Next]_vars
    => DroppedStaysDropped'
<1> SUFFICES ASSUME TypeOK, QuorumIsAvailable, DroppedStaysDropped, [Next]_vars
             PROVE  DroppedStaysDropped'
  OBVIOUS
<1>1. ASSUME UNCHANGED faults, (available \cup unprobed)' \subseteq available \cup unprobed
      PROVE  DroppedStaysDropped'
  BY <1>1 DEF DroppedStaysDropped, Blamed
<1>2. ASSUME NEW n \in available \cup unprobed, NEW stage, NEW e, Fails(n, stage, e),
             (available \cup unprobed)' \subseteq (available \cup unprobed) \ {n}
      PROVE  DroppedStaysDropped'
  <2> DEFINE r == [node |-> n, stage |-> stage, served |-> e]
  <2>0. faults' = faults \cup {r} /\ r.node = n
    BY <1>2 DEF Fails
  <2>1. Blamed' = Blamed \cup {n}
    <3> HIDE DEF r
    <3> QED
      BY <2>0 DEF Blamed
  <2>2. n \notin Blamed
    BY DEF DroppedStaysDropped
  <2>3. \A f \in faults : f.node # n
    BY <2>2 DEF Blamed
  <2>4. \A f, g \in faults' : f.node = g.node => f = g
    <3> HIDE DEF r
    <3> QED
      BY <2>0, <2>3 DEF DroppedStaysDropped
  <2> QED
    BY <1>2, <2>1, <2>2, <2>4 DEF DroppedStaysDropped
<1>3. ASSUME NEW n \in Node, Probe(n)
      PROVE  DroppedStaysDropped'
  BY <1>1, <1>2, <1>3 DEF Probe, First, QuorumIsAvailable
<1>4. ASSUME NEW n \in Node, Ask(n)
      PROVE  DroppedStaysDropped'
  <2>1. n \in available /\ n \notin unprobed
    BY <1>4 DEF Ask, First, Unanswered, QuorumIsAvailable
  <2>2. PICK a \in Answers(n) :
          NodeFails(n, a) \/ NodeServesOtherEpoch(n, a) \/ NodeAnswers(n, a)
    BY <1>4 DEF Ask
  <2>3. UNCHANGED unprobed
    BY <1>4 DEF Ask
  <2> QED
    BY <1>1, <1>2, <2>1, <2>2, <2>3
       DEF NodeFails, NodeServesOtherEpoch, NodeAnswers, DropAndReform
<1>5. CASE EndProbing \/ SignerRefuses \/ OpenSecret \/ OutOfNodes \/ CommitteeRotates
  BY <1>1, <1>5
     DEF EndProbing, SignerRefuses, OpenSecret, OutOfNodes, CommitteeRotates, client
<1>6. ASSUME NEW Q \in SUBSET available, ChooseQuorum(Q)
      PROVE  DroppedStaysDropped'
  BY <1>1, <1>6 DEF ChooseQuorum
<1>7. ASSUME NEW n \in Honest, NodeCatchesUp(n)
      PROVE  DroppedStaysDropped'
  BY <1>1, <1>7 DEF NodeCatchesUp, client
<1>8. CASE UNCHANGED vars
  BY <1>1, <1>8 DEF vars, client
<1> QED
  BY <1>3, <1>4, <1>5, <1>6, <1>7, <1>8 DEF Next, Decrypting

\* The tally of divergent epochs stays the number of distinct nodes on record.
LEMMA VotesStep ==
  Bookkeeping /\ [Next]_vars => VotesBelowThreshold' /\ VotesAreDistinctNodes'
<1> SUFFICES ASSUME Bookkeeping, [Next]_vars
             PROVE  VotesBelowThreshold' /\ VotesAreDistinctNodes'
  OBVIOUS
<1> USE DecryptAssumption
<1>1. \A e \in Epoch : rotated_votes[e] \in Nat /\ IsFiniteSet(Voters(e))
                         /\ Cardinality(Voters(e)) \in Nat
  BY NodesFinite DEF Bookkeeping, TypeOK, Voters
\* Steps that neither vote nor end the call with a rotation.
<1>2. ASSUME UNCHANGED rotated_votes, outcome' # "EpochRotated" \/ UNCHANGED <<outcome, served>>,
             \A e \in Epoch : Voters(e)' = Voters(e),
             outcome' = "pending" => outcome = "pending",
             outcome = "EpochRotated" => UNCHANGED <<outcome, served>>
      PROVE  VotesBelowThreshold' /\ VotesAreDistinctNodes'
  BY <1>1, <1>2 DEF Bookkeeping, VotesBelowThreshold, VotesAreDistinctNodes
<1>3. ASSUME NEW n \in Node, NEW stage \in Stage \ {"EpochMismatch"}, NEW e \in Epoch \cup {0},
             Fails(n, stage, e)
      PROVE  \A d \in Epoch : Voters(d)' = Voters(d)
  BY <1>3 DEF Fails, Voters
<1>4. ASSUME UNCHANGED faults
      PROVE  \A d \in Epoch : Voters(d)' = Voters(d)
  BY <1>4 DEF Voters
<1>5. ASSUME NEW n \in Node, Probe(n)
      PROVE  VotesBelowThreshold' /\ VotesAreDistinctNodes'
  <2>1. \A d \in Epoch : Voters(d)' = Voters(d)
    BY <1>3, <1>4, <1>5 DEF Probe, Verdicts, Stage
  <2> QED
    BY <1>2, <1>5, <2>1 DEF Probe
<1>6. ASSUME NEW n \in Node, Ask(n)
      PROVE  VotesBelowThreshold' /\ VotesAreDistinctNodes'
  <2>0. outcome = "pending" /\ n \in available
    BY <1>6 DEF Ask, First, Unanswered, Bookkeeping, QuorumIsAvailable, TypeOK
  <2>1. PICK a \in Answers(n) :
          NodeFails(n, a) \/ NodeServesOtherEpoch(n, a) \/ NodeAnswers(n, a)
    BY <1>6 DEF Ask
  <2>2. CASE NodeFails(n, a)
    <3>1. \A d \in Epoch : Voters(d)' = Voters(d)
      BY <1>3, <2>2 DEF NodeFails, Stage
    <3> QED
      BY <1>2, <2>0, <2>2, <3>1 DEF NodeFails
  <2>3. CASE NodeAnswers(n, a)
    <3>1. \A d \in Epoch : Voters(d)' = Voters(d)
      BY <1>4, <2>3 DEF NodeAnswers
    <3> QED
      BY <1>2, <2>0, <2>3, <3>1 DEF NodeAnswers, Return
  <2>4. CASE NodeServesOtherEpoch(n, a)
    <3> DEFINE e == a.epoch
    <3>1. e \in Epoch
      BY <2>4, DivergentEpoch DEF NodeServesOtherEpoch, Bookkeeping
    <3>2. /\ rotated_votes'[e] = rotated_votes[e] + 1
          /\ \A d \in Epoch \ {e} : rotated_votes'[d] = rotated_votes[d]
      BY <2>4, <3>1 DEF NodeServesOtherEpoch, Bookkeeping, TypeOK
    <3>3. \A d \in Epoch : rotated_votes[d] = Cardinality(Voters(d))
      BY <1>1, <2>0 DEF Bookkeeping, VotesAreDistinctNodes
    <3>4. CASE rotated_votes'[e] >= Threshold /\ Return("EpochRotated", e) /\ UNCHANGED faults
      BY <1>1, <1>4, <3>1, <3>2, <3>3, <3>4
         DEF Return, VotesBelowThreshold, VotesAreDistinctNodes
    <3>5. CASE /\ rotated_votes'[e] < Threshold
               /\ Fails(n, "EpochMismatch", e)
               /\ UNCHANGED <<outcome, served>>
      <4>1. \A d \in Epoch : Voters(d)' = IF d = e THEN Voters(d) \cup {n} ELSE Voters(d)
        BY <3>1, <3>5, NewVoter DEF Fails
      <4>2. n \notin Voters(e)
        BY <2>0, <3>1, VotersAreBlamed DEF Bookkeeping, DroppedStaysDropped
      <4>3. Cardinality(Voters(e) \cup {n}) = Cardinality(Voters(e)) + 1
        BY <1>1, <3>1, <4>2, FS_AddElement
      <4>4. VotesAreDistinctNodes'
        <5>1. outcome' # "EpochRotated"
          BY <2>0, <3>5
        <5>2. ASSUME NEW d \in Epoch
              PROVE  rotated_votes'[d] = Cardinality(Voters(d)')
          <6>1. CASE d = e
            BY <3>1, <3>2, <3>3, <4>1, <4>3, <6>1
          <6>2. CASE d # e
            BY <3>2, <3>3, <4>1, <6>2
          <6> QED
            BY <6>1, <6>2
        <5>3. ASSUME NEW d \in Epoch
              PROVE  rotated_votes'[d] \in Nat
          BY <1>1, <3>1, <3>2
        <5> QED
          BY <5>1, <5>2, <5>3 DEF VotesAreDistinctNodes
      <4>5. VotesBelowThreshold'
        BY <2>0, <3>1, <3>2, <3>5 DEF Bookkeeping, VotesBelowThreshold
      <4> QED
        BY <4>4, <4>5
    <3> QED
      BY <2>4, <3>4, <3>5 DEF NodeServesOtherEpoch
  <2> QED
    BY <2>1, <2>2, <2>3, <2>4
<1>7. CASE OutOfNodes
  <2>1. \A d \in Epoch : Voters(d)' = Voters(d)
    BY <1>4, <1>7 DEF OutOfNodes
  <2>2. outcome = "pending"
    BY <1>7 DEF OutOfNodes, Bookkeeping, QuorumIsAvailable
  <2>3. Threshold > 0
    BY <1>7, NodesFinite DEF OutOfNodes, Bookkeeping, TypeOK
  <2>4. \A e \in Epoch : rotated_votes[e] < Threshold
    BY <2>2, <2>3 DEF Bookkeeping, VotesBelowThreshold
  <2> QED
    BY <1>1, <1>7, <2>1, <2>2, <2>4
       DEF OutOfNodes, Return, Bookkeeping, VotesBelowThreshold, VotesAreDistinctNodes
<1>8. CASE EndProbing \/ SignerRefuses \/ OpenSecret
  <2>1. \A d \in Epoch : Voters(d)' = Voters(d)
    BY <1>4, <1>8 DEF EndProbing, SignerRefuses, OpenSecret
  <2>2. outcome = "pending"
    BY <1>8 DEF EndProbing, SignerRefuses, OpenSecret, Bookkeeping, QuorumIsAvailable
  <2> QED
    BY <1>2, <1>8, <2>1, <2>2
       DEF EndProbing, SignerRefuses, OpenSecret, OpenResults, Return
<1>9. ASSUME NEW Q \in SUBSET available, ChooseQuorum(Q)
      PROVE  VotesBelowThreshold' /\ VotesAreDistinctNodes'
  BY <1>2, <1>4, <1>9 DEF ChooseQuorum
<1>10. CASE CommitteeRotates \/ UNCHANGED vars \/ \E n \in Honest : NodeCatchesUp(n)
  BY <1>2, <1>4, <1>10 DEF CommitteeRotates, NodeCatchesUp, vars, client
<1> QED
  BY <1>5, <1>6, <1>7, <1>8, <1>9, <1>10 DEF Next, Decrypting

LEMMA BookkeepingInvariant == Spec => []Bookkeeping
<1>1. TypeOK /\ Init => Bookkeeping
  <2> SUFFICES ASSUME TypeOK, Init
               PROVE  Bookkeeping
    OBVIOUS
  <2>1. QuorumIsAvailable /\ DroppedStaysDropped /\ VotesBelowThreshold
    BY DEF Init, QuorumIsAvailable, DroppedStaysDropped, Blamed, VotesBelowThreshold
  <2>2. \A e \in Epoch : Voters(e) = {}
    BY DEF Init, Voters
  <2>3. VotesAreDistinctNodes
    BY <2>2, FS_EmptySet DEF Init, VotesAreDistinctNodes
  <2> QED
    BY <2>1, <2>3 DEF Bookkeeping
<1>2. Bookkeeping /\ TypeOK' /\ [Next]_vars => Bookkeeping'
  BY QuorumStep, DroppedStep, VotesStep DEF Bookkeeping
<1> QED
  BY <1>1, <1>2, TypeCorrect, PTL DEF Spec

\* A node that fails is out of the call for good: it cannot fault or vote twice.
THEOREM DroppedNodesStayDropped == Spec => []DroppedStaysDropped
BY BookkeepingInvariant, PTL DEF Bookkeeping

\* The rotation tally counts distinct nodes.
THEOREM VotesCountDistinctNodes == Spec => []VotesAreDistinctNodes
BY BookkeepingInvariant, PTL DEF Bookkeeping

-----------------------------------------------------------------------------
\* Honest nodes only move forward, and never past the committee.
LEMMA ServingStep ==
  ASSUME TypeOK, CommitteeLeads, [Next]_vars
  PROVE  /\ CommitteeLeads'
         /\ committeeEpoch <= committeeEpoch'
         /\ \A n \in Honest : serving'[n] \in Nat /\ serving[n] <= serving'[n]
<1> USE DEF TypeOK, CommitteeLeads, Epoch
<1>1. CASE Decrypting
  <2>1. UNCHANGED committee
    BY <1>1 DEF Decrypting, Probe, Ask, EndProbing, ChooseQuorum, SignerRefuses,
                OpenSecret, OutOfNodes, committee
  <2> QED
    BY <2>1 DEF committee
<1>2. CASE CommitteeRotates
  BY <1>2 DEF CommitteeRotates
<1>3. ASSUME NEW n \in Honest, NodeCatchesUp(n)
      PROVE  /\ CommitteeLeads'
             /\ committeeEpoch <= committeeEpoch'
             /\ \A m \in Honest : serving'[m] \in Nat /\ serving[m] <= serving'[m]
  BY <1>3 DEF NodeCatchesUp
<1>4. CASE UNCHANGED vars
  BY <1>4 DEF vars, committee
<1> QED
  BY <1>1, <1>2, <1>3, <1>4 DEF Next

\* Faults the client records against honest nodes are true.
LEMMA BlameStep ==
  ASSUME TypeOK, CommitteeLeads, HonestBlamedForEpochOnly, [Next]_vars
  PROVE  HonestBlamedForEpochOnly'
<1> DEFINE Just(f) == f.node \in Honest =>
             /\ f.stage = "EpochMismatch"
             /\ f.served # ReqEpoch
             /\ f.served <= serving'[f.node]
<1> SUFFICES \A f \in faults' : Just(f)
  BY DEF HonestBlamedForEpochOnly
<1>1. ASSUME NEW f \in faults
      PROVE  Just(f)
  <2> SUFFICES ASSUME f.node \in Honest
               PROVE  Just(f)
    OBVIOUS
  <2>1. f.stage = "EpochMismatch" /\ f.served # ReqEpoch /\ f.served <= serving[f.node]
    BY DEF HonestBlamedForEpochOnly
  <2>2. f.served \in Nat
    BY DEF TypeOK, Fault, Epoch
  <2>3. serving[f.node] \in Nat
    BY DEF TypeOK, Epoch
  <2> QED
    BY <2>1, <2>2, <2>3, ServingStep
<1>2. ASSUME NEW n \in Node, Probe(n)
      PROVE  \A f \in faults' : Just(f)
  BY <1>1, <1>2 DEF Probe, Verdicts, Fails, Honest
<1>3. ASSUME NEW n \in Node, Ask(n)
      PROVE  \A f \in faults' : Just(f)
  <2>1. PICK a \in Answers(n) :
          NodeFails(n, a) \/ NodeServesOtherEpoch(n, a) \/ NodeAnswers(n, a)
    BY <1>3 DEF Ask
  <2>2. UNCHANGED serving
    BY <1>3 DEF Ask, committee
  <2>3. CASE NodeFails(n, a)
    <3>1. n \notin Honest
      BY <2>3 DEF NodeFails, Answers, Answer
    <3> QED
      BY <1>1, <2>3, <3>1 DEF NodeFails, Fails
  <2>4. CASE NodeServesOtherEpoch(n, a)
    <3>1. /\ a.epoch \in Epoch \ {ReqEpoch}
          /\ n \in Honest => a.epoch = serving[n]
      BY <2>4, DivergentEpoch DEF NodeServesOtherEpoch
    <3> QED
      BY <1>1, <2>2, <2>4, <3>1 DEF NodeServesOtherEpoch, Fails, TypeOK, Epoch
  <2>5. CASE NodeAnswers(n, a)
    BY <1>1, <2>5 DEF NodeAnswers
  <2> QED
    BY <2>1, <2>3, <2>4, <2>5
<1>4. CASE UNCHANGED faults
  BY <1>1, <1>4
<1> QED
  BY <1>2, <1>3, <1>4
     DEF Next, Decrypting, EndProbing, ChooseQuorum, SignerRefuses, OpenSecret,
         OutOfNodes, CommitteeRotates, NodeCatchesUp, vars, client

\* The vote that ends a call is witnessed: with fewer liars than voters, one of
\* the voters is honest, and the committee had reached the epoch it served.
LEMMA LastVoteIsReal ==
  ASSUME Bookkeeping, CommitteeLeads, HonestBlamedForEpochOnly,
         outcome = "pending", NEW n \in available, NEW a \in Answers(n), Divergent(a),
         rotated_votes[a.epoch] + 1 >= Threshold, Cardinality(Faulty) < Threshold
  PROVE  a.epoch <= committeeEpoch
<1> DEFINE e == a.epoch
<1>1. n \in Node
  BY DEF Bookkeeping, TypeOK
<1>2. e \in Epoch /\ (n \in Honest => e = serving[n])
  BY <1>1, DivergentEpoch DEF Bookkeeping
<1>3. CASE n \in Honest
  BY <1>2, <1>3 DEF CommitteeLeads
<1>4. CASE n \in Faulty /\ \E m \in Voters(e) : m \in Honest
  <2>1. PICK m \in Honest : [node |-> m, stage |-> "EpochMismatch", served |-> e] \in faults
    BY <1>4 DEF Voters
  <2>2. e <= serving[m]
    BY <2>1 DEF HonestBlamedForEpochOnly
  <2> QED
    BY <1>2, <2>2 DEF CommitteeLeads, Bookkeeping, TypeOK, Epoch
<1>5. CASE n \in Faulty /\ Voters(e) \subseteq Faulty
  <2>1. n \notin Voters(e)
    BY <1>2, VotersAreBlamed DEF Bookkeeping, DroppedStaysDropped
  <2>2. IsFiniteSet(Voters(e)) /\ Cardinality(Voters(e)) \in Nat
        /\ IsFiniteSet(Faulty) /\ Cardinality(Faulty) \in Nat
    BY NodesFinite, DecryptAssumption DEF Voters
  <2>3. Cardinality(Voters(e) \cup {n}) = Cardinality(Voters(e)) + 1
    BY <2>1, <2>2, FS_AddElement
  <2>4. Cardinality(Voters(e) \cup {n}) <= Cardinality(Faulty)
    BY <1>5, <2>2, FS_Subset
  <2>5. Cardinality(Voters(e)) = rotated_votes[e]
    <3>1. outcome # "EpochRotated"
      OBVIOUS
    <3>2. rotated_votes[e] \in Nat
      BY <1>2 DEF Bookkeeping, TypeOK
    <3> QED
      BY <1>2, <2>2, <3>1, <3>2 DEF Bookkeeping, VotesAreDistinctNodes
  <2> QED
    BY <2>2, <2>3, <2>4, <2>5, DecryptAssumption
<1> QED
  BY <1>1, <1>3, <1>4, <1>5 DEF Honest, Voters

LEMMA RotationStep ==
  ASSUME Bookkeeping, Witness, [Next]_vars
  PROVE  VotedRotationIsReal'
<1> USE DEF Bookkeeping, Witness
<1>1. CASE outcome # "pending"
  <2>1. UNCHANGED <<outcome, served, rotated_votes>>
    BY <1>1 DEF Next, Decrypting, Probe, EndProbing, ChooseQuorum, SignerRefuses, Ask,
                OpenSecret, OutOfNodes, CommitteeRotates, NodeCatchesUp, vars, client,
                QuorumIsAvailable
  <2>2. served \in Nat /\ committeeEpoch \in Nat /\ committeeEpoch' \in Nat
        /\ committeeEpoch <= committeeEpoch'
    <3>1. committeeEpoch' = committeeEpoch \/ committeeEpoch' = committeeEpoch + 1
      BY DEF Next, Decrypting, Probe, EndProbing, ChooseQuorum, SignerRefuses, Ask,
             OpenSecret, OutOfNodes, CommitteeRotates, NodeCatchesUp, vars, committee
    <3> QED
      BY <3>1 DEF TypeOK, Epoch
  <2> QED
    BY <2>1, <2>2 DEF VotedRotationIsReal
<1>2. CASE outcome = "pending" /\ outcome' # "EpochRotated"
  BY <1>2 DEF VotedRotationIsReal
<1>3. CASE outcome = "pending" /\ outcome' = "EpochRotated"
  <2>1. OutOfNodes \/ \E n \in Node : Ask(n)
    BY <1>3 DEF Next, Decrypting, Probe, EndProbing, ChooseQuorum, SignerRefuses,
                OpenSecret, OpenResults, Return, CommitteeRotates, NodeCatchesUp,
                vars, client
  <2>2. CASE OutOfNodes
    <3>1. Threshold > 0
      BY <2>2, NodesFinite, DecryptAssumption DEF OutOfNodes, TypeOK
    <3>2. served' \in Epoch /\ UNCHANGED rotated_votes
      BY <1>3, <2>2 DEF OutOfNodes, Return, MostVoted
    <3>3. rotated_votes'[served'] < Threshold
      BY <1>3, <3>1, <3>2 DEF VotesBelowThreshold
    <3> QED
      BY <3>2, <3>3, DecryptAssumption DEF VotedRotationIsReal, TypeOK
  <2>3. CASE \E n \in Node : Ask(n)
    <3>1. PICK n \in Node : Ask(n)
      BY <2>3
    <3>2. PICK a \in Answers(n) : NodeServesOtherEpoch(n, a)
      BY <1>3, <3>1 DEF Ask, NodeFails, NodeAnswers, Return
    <3>3. n \in available
      BY <3>1 DEF Ask, First, Unanswered, QuorumIsAvailable
    <3>4. a.epoch \in Epoch /\ Divergent(a)
      BY <3>2, DivergentEpoch DEF NodeServesOtherEpoch
    <3>5. /\ served' = a.epoch
          /\ rotated_votes'[a.epoch] >= Threshold
          /\ rotated_votes'[a.epoch] = rotated_votes[a.epoch] + 1
      BY <1>3, <3>2, <3>4 DEF NodeServesOtherEpoch, Return, TypeOK
    <3>6. UNCHANGED committeeEpoch
      BY <3>1 DEF Ask, committee
    <3> QED
      BY <1>3, <3>3, <3>4, <3>5, <3>6, LastVoteIsReal DEF VotedRotationIsReal
  <2> QED
    BY <2>1, <2>2, <2>3
<1> QED
  BY <1>1, <1>2, <1>3

LEMMA WitnessInvariant == Spec => []Witness
<1>1. Init => Witness
  <2> SUFFICES ASSUME Init
               PROVE  Witness
    OBVIOUS
  <2> QED
    BY DecryptAssumption
       DEF Init, Witness, CommitteeLeads, HonestBlamedForEpochOnly, VotedRotationIsReal
<1>2. Bookkeeping /\ Witness /\ [Next]_vars => Witness'
  BY ServingStep, BlameStep, RotationStep DEF Bookkeeping, Witness
<1> QED
  BY <1>1, <1>2, BookkeepingInvariant, PTL DEF Spec

\* Fewer liars than the threshold cannot make the client believe in a rotation.
THEOREM LiarsCannotForgeRotation == Spec => []VotedRotationIsReal
BY WitnessInvariant, PTL DEF Witness

\* The faults that reach the caller never accuse an honest node falsely.
THEOREM HonestNodesNotSlandered == Spec => []HonestBlamedForEpochOnly
BY WitnessInvariant, PTL DEF Witness

-----------------------------------------------------------------------------
\* The partials of a round belong to the quorum of that round.
THEOREM PartialsAreForTheirQuorum == Spec => []PartialsMatchQuorum
<1>1. Init => PartialsMatchQuorum
  BY DEF Init, PartialsMatchQuorum
<1>2. TypeOK /\ PartialsMatchQuorum /\ [Next]_vars => PartialsMatchQuorum'
  <2> SUFFICES ASSUME TypeOK, PartialsMatchQuorum, [Next]_vars
               PROVE  PartialsMatchQuorum'
    OBVIOUS
  <2> USE DEF PartialsMatchQuorum
  <2>1. ASSUME NEW n \in Node, Ask(n)
        PROVE  PartialsMatchQuorum'
    BY <2>1 DEF Ask, NodeFails, NodeServesOtherEpoch, NodeAnswers, DropAndReform,
                Return, First, Unanswered
  <2>2. ASSUME NEW Q \in SUBSET available, ChooseQuorum(Q)
        PROVE  PartialsMatchQuorum'
    BY <2>2 DEF ChooseQuorum
  <2>3. CASE EndProbing \/ SignerRefuses \/ OpenSecret \/ OutOfNodes
    BY <2>3 DEF EndProbing, SignerRefuses, OpenSecret, OutOfNodes, Return
  <2>4. CASE UNCHANGED <<pc, chosen, partials>>
    BY <2>4
  <2> QED
    BY <2>1, <2>2, <2>3, <2>4
       DEF Next, Decrypting, Probe, CommitteeRotates, NodeCatchesUp, vars, client
<1> QED
  BY <1>1, <1>2, TypeCorrect, PTL DEF Spec

-----------------------------------------------------------------------------
\* Recording a fault of n blames n, and nobody else, whatever the stage.
LEMMA NewFault ==
  ASSUME NEW n, NEW stage, NEW e, Fails(n, stage, e)
  PROVE  Blamed' = Blamed \cup {n}
<1> DEFINE r == [node |-> n, stage |-> stage, served |-> e]
<1>1. faults' = faults \cup {r} /\ r.node = n
  BY DEF Fails
<1> HIDE DEF r
<1> QED
  BY <1>1 DEF Blamed

\* A node is blamed in the step in which it leaves the running, and only then.
LEMMA NamedStep ==
  ASSUME TypeOK, QuorumIsAvailable, NamesEveryDroppedNode, [Next]_vars
  PROVE  NamesEveryDroppedNode'
<1> USE DEF TypeOK, NamesEveryDroppedNode
<1>1. ASSUME Blamed' = Blamed, (available \cup unprobed)' = available \cup unprobed
      PROVE  NamesEveryDroppedNode'
  BY <1>1
<1>2. ASSUME NEW n \in Node, Blamed' = Blamed \cup {n},
             (available \cup unprobed)' = (available \cup unprobed) \ {n}
      PROVE  NamesEveryDroppedNode'
  BY <1>2
<1>3. faults' = faults => Blamed' = Blamed
  BY DEF Blamed
<1>4. ASSUME NEW n \in Node, Probe(n)
      PROVE  NamesEveryDroppedNode'
  <2>1. n \in unprobed /\ n \notin available /\ unprobed' = unprobed \ {n}
    BY <1>4 DEF Probe, First, QuorumIsAvailable
  <2>2. CASE available' = available \cup {n} /\ UNCHANGED faults
    BY <1>1, <1>3, <2>1, <2>2
  <2>3. ASSUME NEW verdict, Fails(n, verdict, 0), UNCHANGED available
        PROVE  NamesEveryDroppedNode'
    BY <1>2, <2>1, <2>3, NewFault
  <2> QED
    BY <1>4, <2>2, <2>3 DEF Probe
<1>5. ASSUME NEW n \in Node, Ask(n)
      PROVE  NamesEveryDroppedNode'
  <2>1. n \in available /\ n \notin unprobed /\ UNCHANGED unprobed
    BY <1>5 DEF Ask, First, Unanswered, QuorumIsAvailable
  <2>2. ASSUME NEW stage, NEW e, Fails(n, stage, e), available' = available \ {n}
        PROVE  NamesEveryDroppedNode'
    BY <1>2, <2>1, <2>2, NewFault
  <2>3. CASE UNCHANGED <<available, faults>>
    BY <1>1, <1>3, <2>1, <2>3
  <2> QED
    BY <1>5, <2>2, <2>3
       DEF Ask, NodeFails, NodeServesOtherEpoch, NodeAnswers, DropAndReform
<1>6. CASE UNCHANGED <<available, unprobed, faults>>
  BY <1>1, <1>3, <1>6
<1> QED
  BY <1>4, <1>5, <1>6
     DEF Next, Decrypting, EndProbing, ChooseQuorum, SignerRefuses, OpenSecret,
         OutOfNodes, CommitteeRotates, NodeCatchesUp, vars, client

LEMMA NamedInvariant == Spec => [](Bookkeeping /\ NamesEveryDroppedNode)
<1>1. Init => NamesEveryDroppedNode
  BY DEF Init, NamesEveryDroppedNode, Blamed
<1>2. Bookkeeping /\ NamesEveryDroppedNode /\ [Next]_vars => NamesEveryDroppedNode'
  BY NamedStep DEF Bookkeeping
<1> QED
  BY <1>1, <1>2, BookkeepingInvariant, PTL DEF Spec

\* The faults of a call name every node it did without, and no other.
THEOREM FaultsNameEveryDroppedNode == Spec => []NamesEveryDroppedNode
BY NamedInvariant, PTL

\* Whoever is neither blamed nor waiting to be probed is available, so the nodes
\* left over are too few once the available ones are.
LEMMA HonestLeftOver ==
  ASSUME Bookkeeping, NamesEveryDroppedNode, unprobed = {},
         Cardinality(available) < Threshold
  PROVE  Cardinality(Honest \ Blamed) < Threshold
<1>1. Honest \ Blamed \subseteq available
  BY DEF NamesEveryDroppedNode, Honest, Bookkeeping, TypeOK
<1>2. IsFiniteSet(available) /\ Cardinality(available) \in Nat
  BY NodesFinite DEF Bookkeeping, TypeOK
<1>3. Cardinality(Honest \ Blamed) <= Cardinality(available)
  BY <1>1, <1>2, FS_Subset
<1>4. Cardinality(Honest \ Blamed) \in Nat
  BY <1>1, <1>2, FS_Subset, FS_CardinalityType
<1> QED
  BY <1>2, <1>3, <1>4, DecryptAssumption

LEMMA GivesUpStep ==
  ASSUME Bookkeeping, NamesEveryDroppedNode, GivesUpOnlyWithoutQuorum, [Next]_vars
  PROVE  GivesUpOnlyWithoutQuorum'
<1> USE DEF GivesUpOnlyWithoutQuorum
<1>1. CASE outcome # "pending"
  <2>1. UNCHANGED <<outcome, rotated_votes, faults>>
    BY <1>1 DEF Next, Decrypting, Probe, EndProbing, ChooseQuorum, SignerRefuses, Ask,
                OpenSecret, OutOfNodes, CommitteeRotates, NodeCatchesUp, vars, client,
                Bookkeeping, QuorumIsAvailable
  <2> QED
    BY <2>1 DEF Blamed
<1>2. CASE outcome = "pending" /\ EndProbing
  <2>1. outcome' \in {"QuorumUnavailable", "pending"} /\ UNCHANGED <<faults, rotated_votes>>
    BY <1>2 DEF EndProbing, Return
  <2>2. outcome' = "QuorumUnavailable" => Cardinality(Honest \ Blamed) < Threshold
    BY <1>2, HonestLeftOver DEF EndProbing, Return
  <2> QED
    BY <2>1, <2>2 DEF Blamed
<1>3. CASE outcome = "pending" /\ OutOfNodes
  <2>1. UNCHANGED faults
    BY <1>3 DEF OutOfNodes
  <2>2. unprobed = {} /\ Cardinality(available) < Threshold
    BY <1>3 DEF OutOfNodes, Bookkeeping, QuorumIsAvailable
  <2>3. Cardinality(Honest \ Blamed) < Threshold
    BY <2>2, HonestLeftOver
  <2> QED
    BY <2>1, <2>3 DEF Blamed
\* The vote that ends a call is the Threshold-th one.
<1>4. ASSUME outcome = "pending", NEW n \in Node, Ask(n)
      PROVE  GivesUpOnlyWithoutQuorum'
  <2>1. PICK a \in Answers(n) :
          NodeFails(n, a) \/ NodeServesOtherEpoch(n, a) \/ NodeAnswers(n, a)
    BY <1>4 DEF Ask
  <2>2. CASE NodeServesOtherEpoch(n, a)
    <3>1. a.epoch \in Epoch
      BY <2>2, DivergentEpoch DEF NodeServesOtherEpoch, Bookkeeping
    <3>2. rotated_votes'[a.epoch] \in Nat
      BY <2>2, <3>1 DEF NodeServesOtherEpoch, Bookkeeping, TypeOK
    <3>3. outcome' \in {"QuorumUnavailable", "EpochRotated"} => rotated_votes'[a.epoch] >= Threshold
      BY <1>4, <2>2 DEF NodeServesOtherEpoch, Return
    <3> QED
      BY <3>1, <3>2, <3>3, DecryptAssumption
  <2>3. CASE NodeFails(n, a) \/ NodeAnswers(n, a)
    BY <1>4, <2>3 DEF NodeFails, NodeAnswers, Return
  <2> QED
    BY <2>1, <2>2, <2>3
<1>5. CASE outcome' \notin {"QuorumUnavailable", "EpochRotated"}
  BY <1>5
<1> QED
  BY <1>1, <1>2, <1>3, <1>4, <1>5
     DEF Next, Decrypting, Probe, ChooseQuorum, SignerRefuses, OpenSecret, OpenResults,
         Return, CommitteeRotates, NodeCatchesUp, vars, client

\* The call never gives up while a quorum of honest nodes is left that it has not
\* itself seen serving another epoch.
THEOREM GivesUpForGoodReason == Spec => []GivesUpOnlyWithoutQuorum
<1>1. Init => GivesUpOnlyWithoutQuorum
  BY DEF Init, GivesUpOnlyWithoutQuorum
<1>2. Bookkeeping /\ NamesEveryDroppedNode /\ GivesUpOnlyWithoutQuorum /\ [Next]_vars
        => GivesUpOnlyWithoutQuorum'
  BY GivesUpStep
<1> QED
  BY <1>1, <1>2, NamedInvariant, PTL DEF Spec

-----------------------------------------------------------------------------
\* A bad partial of an honest node comes with its epoch, and is never kept.
THEOREM CryptoErrorsBlameFaulty == Spec => []CryptoErrorBlamesFaulty
<1>1. Init => CryptoErrorBlamesFaulty
  BY DEF Init, CryptoErrorBlamesFaulty
<1>2. TypeOK /\ CryptoErrorBlamesFaulty /\ [Next]_vars => CryptoErrorBlamesFaulty'
  <2> SUFFICES ASSUME TypeOK, CryptoErrorBlamesFaulty, [Next]_vars
               PROVE  CryptoErrorBlamesFaulty'
    OBVIOUS
  <2> USE DEF CryptoErrorBlamesFaulty
  <2>1. ASSUME NEW n \in Node, Ask(n)
        PROVE  CryptoErrorBlamesFaulty'
    <3>1. PICK a \in Answers(n) :
            NodeFails(n, a) \/ NodeServesOtherEpoch(n, a) \/ NodeAnswers(n, a)
      BY <2>1 DEF Ask
    <3>2. CASE NodeAnswers(n, a)
      <4>1. a.body = "bad" => n \in Faulty
        <5>1. SUFFICES ASSUME n \in Honest
                       PROVE  a.body # "bad"
          BY DEF Honest
        <5>2. a = Answer(serving[n], IF serving[n] = ReqEpoch THEN "good" ELSE "bad")
              /\ serving[n] \in Epoch
          BY <5>1 DEF Answers, TypeOK
        <5>3. a.kind = "ok" /\ a.epoch = serving[n] /\ a.epoch # 0
          BY <5>2 DEF Answer, Epoch
        <5>4. a.epoch = ReqEpoch
          BY <3>2, <5>3 DEF NodeAnswers, Divergent
        <5> QED
          BY <5>2, <5>3, <5>4 DEF Answer
      <4> QED
        BY <3>2, <4>1 DEF NodeAnswers
    <3>3. CASE NodeFails(n, a) \/ NodeServesOtherEpoch(n, a)
      BY <3>3 DEF NodeFails, NodeServesOtherEpoch, DropAndReform
    <3> QED
      BY <3>1, <3>2, <3>3
  <2>2. ASSUME NEW Q \in SUBSET available, ChooseQuorum(Q)
        PROVE  CryptoErrorBlamesFaulty'
    BY <2>2 DEF ChooseQuorum
  <2>3. CASE UNCHANGED partials
    BY <2>3
  <2> QED
    BY <2>1, <2>2, <2>3
       DEF Next, Decrypting, Probe, EndProbing, SignerRefuses, OpenSecret, OutOfNodes,
           CommitteeRotates, NodeCatchesUp, vars, client
<1> QED
  BY <1>1, <1>2, TypeCorrect, PTL DEF Spec

-----------------------------------------------------------------------------
\* A quorum is left while the call collects, and none once it is short of nodes.
LEMMA QuorumLeft ==
  ASSUME Bookkeeping
  PROVE  /\ pc # "probe" => available \cup unprobed = available
         /\ pc = "collect" => \E Q \in Quorum : Q \subseteq available
         /\ Cardinality(available) < Threshold => ~\E Q \in Quorum : Q \subseteq available
<1> USE DEF Bookkeeping, TypeOK, QuorumIsAvailable, Quorum
<1>1. ASSUME Cardinality(available) < Threshold, NEW Q \in Quorum, Q \subseteq available
      PROVE  FALSE
  <2>1. IsFiniteSet(available) /\ Cardinality(available) \in Nat
    BY NodesFinite
  <2>2. Cardinality(Q) <= Cardinality(available) /\ Cardinality(Q) = Threshold
    BY <1>1, <2>1, FS_Subset
  <2> QED
    BY <1>1, <2>1, <2>2, DecryptAssumption
<1> QED
  BY <1>1

\* A step of the call is a step of the abstract recovery, or invisible to it.
LEMMA StepRefines ==
  ASSUME Bookkeeping, [Next]_vars
  PROVE  [Abstract!Next]_(Abstract!vars)
<1> USE DEF Abstract!Next, Abstract!vars, Abstract!GiveUpOn, Abstract!Recover,
            Abstract!FindUnavailable, Abstract!Refuse, Abstract!HasQuorum, Abort
<1>1. CASE UNCHANGED <<available, unprobed, outcome>>
  BY <1>1
<1>2. ASSUME NEW n \in available \cup unprobed, outcome = "pending", UNCHANGED outcome,
             (available \cup unprobed)' = (available \cup unprobed) \ {n}
      PROVE  Abstract!Next
  BY <1>2
<1>3. ASSUME NEW n \in Node, Probe(n)
      PROVE  [Abstract!Next]_(Abstract!vars)
  <2>1. n \in unprobed /\ n \notin available /\ outcome = "pending" /\ UNCHANGED outcome
    BY <1>3 DEF Probe, First, Bookkeeping, QuorumIsAvailable
  <2>2. CASE available' = available \cup {n} /\ unprobed' = unprobed \ {n}
    <3>1. (available \cup unprobed)' = available \cup unprobed
      BY <2>1, <2>2
    <3> QED
      BY <2>1, <3>1
  <2>3. CASE available' = available /\ unprobed' = unprobed \ {n}
    BY <1>2, <2>1, <2>3
  <2> QED
    BY <1>3, <2>2, <2>3 DEF Probe
<1>4. ASSUME NEW n \in Node, Ask(n)
      PROVE  [Abstract!Next]_(Abstract!vars)
  <2>1. n \in available /\ n \notin unprobed /\ outcome = "pending" /\ UNCHANGED unprobed
    BY <1>4 DEF Ask, First, Unanswered, Bookkeeping, QuorumIsAvailable
  <2>2. CASE available' = available \ {n} /\ UNCHANGED outcome
    BY <1>2, <2>1, <2>2
  <2>3. CASE UNCHANGED available /\ outcome' \in {"EpochRotated", "Hex", outcome}
    BY <2>1, <2>3
  <2> QED
    BY <1>4, <2>2, <2>3
       DEF Ask, NodeFails, NodeServesOtherEpoch, NodeAnswers, DropAndReform, Return
<1>5. CASE EndProbing
  <2>1. outcome = "pending" /\ available \cup unprobed = available
    BY <1>5 DEF EndProbing, Bookkeeping, QuorumIsAvailable
  <2> QED
    BY <1>5, <2>1, QuorumLeft DEF EndProbing, Return
<1>6. CASE OutOfNodes
  <2>1. outcome = "pending" /\ available \cup unprobed = available
    BY <1>6 DEF OutOfNodes, Bookkeeping, QuorumIsAvailable
  <2> QED
    BY <1>6, <2>1, QuorumLeft DEF OutOfNodes, Return
<1>7. CASE OpenSecret
  <2>1. outcome = "pending" /\ available \cup unprobed = available
    BY <1>7 DEF OpenSecret, Bookkeeping, QuorumIsAvailable
  <2>2. outcome' \in {"InvalidSubset", "Aggregate", "Recovered", "Aead"}
    BY <1>7 DEF OpenSecret, OpenResults, Return
  <2> QED
    BY <1>7, <2>1, <2>2, QuorumLeft DEF OpenSecret
<1>8. CASE SignerRefuses
  BY <1>8 DEF SignerRefuses, Return, Bookkeeping, QuorumIsAvailable
<1> QED
  BY <1>1, <1>3, <1>4, <1>5, <1>6, <1>7, <1>8
     DEF Next, Decrypting, ChooseQuorum, CommitteeRotates, NodeCatchesUp, vars, client

\* decrypt is a threshold recovery: every call gives up on nodes one at a time,
\* recovers only while a quorum is left and ends once.
THEOREM DecryptRefinesRecovery == Spec => Abstract!SafeSpec
<1>1. Init => Abstract!Init
  BY DEF Init, Abstract!Init, Abort
<1>2. Bookkeeping /\ [Next]_vars => [Abstract!Next]_(Abstract!vars)
  BY StepRefines
<1> QED
  BY <1>1, <1>2, BookkeepingInvariant, PTL DEF Spec, Abstract!SafeSpec
=============================================================================
