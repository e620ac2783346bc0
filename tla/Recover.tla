------------------------------ MODULE Recover ------------------------------
(***************************************************************************)
(* Secrets::recover (chain/recover.rs, chain/facade.rs, signer.rs): the    *)
(* chain reads that precede a threshold decrypt, one RPC after another,    *)
(* each at whatever block is best when it is answered.  Module Decrypt     *)
(* models the quorum loop that follows; here it is what the nodes make of  *)
(* the request.  External: the chain, which grows, forks and finalizes     *)
(* between any two reads, and the nodes, which judge by a finalized block. *)
(***************************************************************************)
EXTENDS Integers, Sequences, FiniteSets, SequencesExt

CONSTANTS
  Member,      \* the nodes, named by their DKG index
  Committee,   \* the members seated at each epoch
  Quorum,      \* the threshold of each epoch
  Tag,         \* the AAD registry
  Unrecorded,  \* the empty AAD of an older secret
  InitialRegistries, \* the registries a recover may start with
  MaxChanges,  \* bound: blocks and forks during a recover
  MaxPending   \* bound: blocks not final yet

ASSUME RecoverAssumption ==
  /\ Member \subseteq Nat \ {0} /\ IsFiniteSet(Member)
  /\ Committee \in Seq(SUBSET Member) /\ Quorum \in Seq(Nat \ {0})
  /\ Len(Committee) = Len(Quorum)
  /\ \A e \in DOMAIN Quorum : Quorum[e] <= Cardinality(Committee[e])
  /\ Unrecorded \notin Tag
  /\ InitialRegistries \subseteq [Member -> {"absent", "junk", "http"}]
  /\ MaxChanges \in Nat /\ MaxPending \in Nat

Epoch    == DOMAIN Committee
Endpoint == {"absent", "junk", "http"}

VARIABLES
  blocks,   \* chain: the state after the last finalized block and each pending one
  changes,  \* chain: blocks and forks so far
  step,     \* the read that is next, "idle" before and "done" after the call
  rec,      \* what was read so far
  outcome,  \* how the call ended
  quiet     \* history: has nothing changed or failed since the call began?

chain   == <<blocks, changes>>
recover == <<step, rec, outcome, quiet>>

\* A stored secret: its payload (a version of its own), the epoch and tag it was
\* sealed under, and the tag the chain recorded.
Sealed(version, epoch, tag, recorded) ==
  [version |-> version, epoch |-> epoch, tag |-> tag, recorded |-> recorded]
NoSecret == Sealed(0, 0, Unrecorded, Unrecorded)

best      == Last(blocks)
finalized == Head(blocks)

NoRead == [payload |-> 0, epoch |-> 0, requested |-> Unrecorded, threshold |-> 0,
           committee |-> {}, registry |-> [m \in Member |-> "absent"],
           unread |-> {}, commitments |-> {}, nodes |-> <<>>, anchor |-> NoSecret]

-----------------------------------------------------------------------------
(***************************************************************************)
(* The chain (external).                                                   *)
(***************************************************************************)
Changing == /\ step \notin {"idle", "done"} /\ changes < MaxChanges
            /\ changes' = changes + 1 /\ quiet' = FALSE
            /\ UNCHANGED <<step, rec, outcome>>

NewBlock(state) == /\ Len(blocks) \in 1..MaxPending
                   /\ state # best
                   /\ blocks' = Append(blocks, state)
                   /\ Changing

\* rotate_secret re-seals under the current epoch; delete_secret; the committee
\* refreshes; a node leaves the registry, or announces an endpoint.
ReSeal(tag) ==
  /\ blocks # <<>> /\ best.secret # NoSecret
  /\ NewBlock([best EXCEPT !.secret = Sealed(changes + 3, best.epoch, tag, tag)])
DeleteSecret == blocks # <<>> /\ NewBlock([best EXCEPT !.secret = NoSecret])
CommitteeMoves == /\ blocks # <<>> /\ best.epoch + 1 \in Epoch
                  /\ NewBlock([best EXCEPT !.epoch = @ + 1])
Announce(m, endpoint) ==
  blocks # <<>> /\ NewBlock([best EXCEPT !.registry[m] = endpoint])

Finalize == Len(blocks) > 1 /\ blocks' = Tail(blocks) /\ Changing
Retract  == /\ Len(blocks) > 1
            /\ \E k \in 1..(Len(blocks) - 1) : blocks' = SubSeq(blocks, 1, k)
            /\ Changing

ChainNext ==
  \/ \E tag \in Tag : ReSeal(tag)
  \/ DeleteSecret
  \/ CommitteeMoves
  \/ \E m \in Member, e \in Endpoint : Announce(m, e)
  \/ Finalize
  \/ Retract

-----------------------------------------------------------------------------
(***************************************************************************)
(* The reads of the client.  Any of them may fail.                         *)
(***************************************************************************)
End(kind) == /\ step' = "done" /\ outcome' = kind
             /\ UNCHANGED <<rec, quiet, chain>>

Then(next, fields) == /\ step' = next /\ rec' = fields
                      /\ UNCHANGED <<outcome, quiet, chain>>

RpcFails == /\ step \notin {"idle", "decrypt", "done"}
            /\ step' = "done" /\ outcome' = "Chain" /\ quiet' = FALSE
            /\ UNCHANGED <<rec, chain>>

\* read_secret: payload, epoch, AAD.
ReadPayload ==
  /\ step = "payload"
  /\ \/ /\ best.secret # NoSecret
        /\ Then("epoch", [rec EXCEPT !.payload = best.secret.version])
     \/ best.secret = NoSecret /\ End("NoSecret")

ReadEpoch ==
  /\ step = "epoch"
  /\ \/ /\ best.secret # NoSecret
        /\ Then("aad", [rec EXCEPT !.epoch = best.secret.epoch])
     \/ best.secret = NoSecret /\ End("NoSecret")

\* Mutant: the recorded tag is not compared.
check_aad_Lax(recorded, requested) == TRUE

\* check_aad: an empty recorded tag passes, and so does no record.
check_aad(recorded, requested) == recorded \in {Unrecorded, requested}

ReadAad ==
  /\ step = "aad"
  /\ \/ check_aad(best.secret.recorded, rec.requested) /\ Then("dkg", rec)
     \/ ~check_aad(best.secret.recorded, rec.requested) /\ End("AadMismatch")

\* committee_info: the DKG output, threshold, members and commitments of the
\* secret's epoch, where the block read has seated that epoch.
Seated == rec.epoch <= best.epoch

ReadDkgOutput ==
  /\ step = "dkg"
  /\ \/ Seated /\ Then("threshold", rec)
     \/ ~Seated /\ End("NoCommittee")

ReadThreshold ==
  /\ step = "threshold"
  /\ Then("committee", [rec EXCEPT !.threshold = IF Seated THEN Quorum[rec.epoch] ELSE 0])

\* Mutant: the members of the current epoch instead of the secret's.
ReadCommittee_Current ==
  /\ step = "committee"
  /\ Then("registry", [rec EXCEPT !.committee = Committee[best.epoch]])

ReadCommittee ==
  /\ step = "committee"
  /\ \/ Seated /\ Then("registry", [rec EXCEPT !.committee = Committee[rec.epoch]])
     \/ ~Seated /\ End("NoCommittee")

ReadRegistry ==
  /\ step = "registry"
  /\ Then("commitments", [rec EXCEPT !.registry = best.registry, !.unread = rec.committee])

\* Mutant: the member read is not crossed off.
ReadCommitment_Again ==
  /\ step = "commitments" /\ rec.unread # {}
  /\ Then("commitments", [rec EXCEPT !.commitments = @ \cup {Min(rec.unread)}])

\* One read per member.
ReadCommitment ==
  /\ step = "commitments" /\ rec.unread # {}
  /\ LET m == Min(rec.unread)
     IN  Then("commitments",
              [rec EXCEPT !.unread = @ \ {m},
                          !.commitments = IF Seated THEN @ \cup {m} ELSE @])

-----------------------------------------------------------------------------
\* The committee's members with an absolute http(s) endpoint, by DKG index.
parse_endpoint(raw) == raw = "http"
reachable           == {m \in rec.committee : parse_endpoint(rec.registry[m])}
assemble_nodes      ==
  CHOOSE nodes \in [1..Cardinality(reachable) -> reachable] :
    \A i, j \in DOMAIN nodes : i < j => nodes[i] < nodes[j]

\* A reachable member without its commitment is an error, as are too few nodes.
Assemble ==
  /\ step = "commitments" /\ rec.unread = {}
  /\ \/ ~(reachable \subseteq rec.commitments) /\ End("NoCommitment")
     \/ /\ reachable \subseteq rec.commitments
        /\ Len(assemble_nodes) < rec.threshold
        /\ End("Unreachable")
     \/ /\ reachable \subseteq rec.commitments
        /\ Len(assemble_nodes) >= rec.threshold
        /\ Then("head", [rec EXCEPT !.nodes = assemble_nodes])

\* The freshness anchor is the finalized head.
ReadHead == /\ step = "head"
            /\ Then("decrypt", [rec EXCEPT !.anchor = finalized.secret])

-----------------------------------------------------------------------------
\* What the nodes asked, which read the secret at a finalized block (external),
\* make of the request; too few of them may answer in any case.  A partial is
\* for the payload on chain and is verified against the payload read.
Answers(secret) ==
  {"QuorumUnavailable"} \cup
  (IF rec.threshold = 0 THEN {"InvalidSubset"}
   ELSE IF secret = NoSecret THEN {}
   ELSE IF secret.epoch # rec.epoch THEN {"EpochRotated"}
   ELSE IF secret.version # rec.payload THEN {"Core"}
   ELSE IF secret.tag # rec.requested THEN {"Aead"}
   ELSE {"Recovered"})

Decrypt ==
  /\ step = "decrypt"
  /\ \E kind \in Answers(rec.anchor) \cup Answers(finalized.secret) : End(kind)

\* The call goes on with every answer.
RecoverStep ==
  \/ ReadPayload \/ ReadEpoch \/ ReadAad
  \/ ReadDkgOutput \/ ReadThreshold \/ ReadCommittee \/ ReadRegistry \/ ReadCommitment
  \/ Assemble
  \/ ReadHead
  \/ Decrypt

RecoverNext == RecoverStep \/ RpcFails

-----------------------------------------------------------------------------
\* The chain a recover finds: a secret sealed under any epoch so far; the block
\* that moves the committee and re-seals it may still be pending.
Chains ==
  LET State(secret, epoch, registry) ==
        [secret |-> secret, epoch |-> epoch, registry |-> registry]
      secrets(e) == {NoSecret} \cup
        {Sealed(1, s, t, r) : s \in 1..e, t \in Tag, r \in Tag \cup {Unrecorded}}
      possible(secret) == secret.recorded \in {Unrecorded, secret.tag}
      reseal(b) == <<b, State(Sealed(2, b.epoch + 1, b.secret.tag, b.secret.tag),
                              b.epoch + 1, b.registry)>>
      finals == UNION {{State(s, e, r) : s \in {s \in secrets(e) : possible(s)},
                                         r \in InitialRegistries} : e \in Epoch}
  IN  {<<b>> : b \in finals}
      \cup {reseal(b) : b \in {b \in finals : b.secret # NoSecret /\ b.epoch + 1 \in Epoch}}

\* Secrets::recover, once the client is known to have a signer.
StartRecover(tag) ==
  /\ step = "idle"
  /\ blocks' \in Chains
  /\ step' = "payload" /\ rec' = [NoRead EXCEPT !.requested = tag]
  /\ UNCHANGED <<outcome, quiet, changes>>

\* Nothing of the chain matters before a recover reads it.
RecoverInit ==
  /\ blocks = <<>> /\ changes = 0
  /\ step = "idle" /\ rec = NoRead /\ outcome = "none" /\ quiet = TRUE

-----------------------------------------------------------------------------
(***************************************************************************)
(* Properties.                                                             *)
(***************************************************************************)
\* What a recover of this state, read at once, ends with.
Atomic(state, requested) ==
  LET secret == state.secret
      usable == {m \in Committee[secret.epoch] : state.registry[m] = "http"}
  IN  IF secret = NoSecret THEN {"NoSecret"}
      ELSE IF secret.recorded \notin {Unrecorded, requested} THEN {"AadMismatch"}
      ELSE IF Cardinality(usable) < Quorum[secret.epoch] THEN {"Unreachable"}
      ELSE {"QuorumUnavailable", IF secret.tag = requested THEN "Recovered" ELSE "Aead"}

\* When nothing is pending, changes or fails during the call, its reads together
\* are one read of the state: every refusal names the true cause, a wrong tag is
\* refused before any node is contacted wherever the chain recorded one, and
\* the secret opens when its own tag is asked for and a quorum is reachable.
QuietRecoverIsAtomic ==
  step = "done" /\ quiet /\ Len(blocks) = 1 => outcome \in Atomic(best, rec.requested)

\* However torn the reads are, the nodes contacted are distinct members of the
\* committee of the epoch asked for, in the order of their DKG index, each with
\* an absolute endpoint and with its share commitment read, and no fewer than
\* that epoch's threshold wherever the call recovers the secret.
ContactsTheSealingCommittee ==
  step \in {"head", "decrypt"} \/ outcome = "Recovered" =>
    /\ \A i \in DOMAIN rec.nodes :
         /\ rec.nodes[i] \in Committee[rec.epoch] \cap rec.commitments
         /\ rec.registry[rec.nodes[i]] = "http"
         /\ \A j \in 1..(i - 1) : rec.nodes[j] < rec.nodes[i]
    /\ rec.threshold \in {0, Quorum[rec.epoch]} /\ Len(rec.nodes) >= rec.threshold
    /\ outcome = "Recovered" => rec.threshold = Quorum[rec.epoch]
=============================================================================
