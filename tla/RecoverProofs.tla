--------------------------- MODULE RecoverProofs ---------------------------
(***************************************************************************)
(* The two invariants of a recover, for any committees, registries, tags   *)
(* and any number of blocks and forks between its reads.  One follows what *)
(* each read leaves in rec however torn the reads are; the other follows   *)
(* how rec agrees with the best block while nothing has changed.           *)
(***************************************************************************)
EXTENDS Session, TLAPS, FiniteSetTheorems, WellFoundedInduction

Tags    == Tag \cup {Unrecorded}
StoredSecret == [version : Nat, epoch : Nat, tag : Tags, recorded : Tags]
Block   == [secret : StoredSecret, epoch : Epoch, registry : [Member -> Endpoint]]
Reads   == [payload : Nat, epoch : Nat, requested : Tags, threshold : Nat,
            committee : SUBSET Member, registry : [Member -> Endpoint],
            unread : SUBSET Member, commitments : SUBSET Member,
            nodes : Seq(Nat), anchor : StoredSecret]

\* A stored secret was sealed under an epoch the chain had seated.
Stored(b) == b.secret # NoSecret => b.secret.epoch \in 1..b.epoch

\* The blocks, and what is read of them.
ChainTyped ==
  /\ blocks \in Seq(Block) /\ changes \in Nat
  /\ \A i \in DOMAIN blocks : Stored(blocks[i])
  /\ step # "idle" => blocks # <<>>

ReadsTyped ==
  /\ rec \in Reads
  /\ step \notin {"idle", "payload", "epoch", "done"} => rec.epoch \in Epoch
  /\ step # "done" => outcome = "none"

\* What rec holds after each read, whatever the blocks were.
Torn ==
  /\ step \in {"registry", "commitments", "head", "decrypt"} \/ outcome = "Recovered" =>
       rec.committee = Committee[rec.epoch]
  /\ step \in {"committee", "registry", "commitments", "head", "decrypt"}
        \/ outcome = "Recovered" =>
       rec.threshold \in {0, Quorum[rec.epoch]}
  /\ step \in {"head", "decrypt"} \/ outcome = "Recovered" =>
       /\ reachable \subseteq rec.commitments
       /\ rec.nodes = assemble_nodes /\ Len(rec.nodes) >= rec.threshold
  /\ outcome = "Recovered" => rec.threshold # 0

\* While nothing changes, rec is what the best block says.
Undisturbed ==
  quiet /\ step \notin {"idle", "payload", "done"} =>
    /\ best.secret # NoSecret /\ rec.payload = best.secret.version
    /\ step # "epoch" => rec.epoch = best.secret.epoch
    /\ step \notin {"epoch", "aad"} => check_aad(best.secret.recorded, rec.requested)
    /\ step \in {"committee", "registry", "commitments", "head", "decrypt"} =>
         rec.threshold = Quorum[rec.epoch]
    /\ step \in {"registry", "commitments", "head", "decrypt"} =>
         rec.committee = Committee[rec.epoch]
    /\ step \in {"commitments", "head", "decrypt"} => rec.registry = best.registry
    /\ step = "commitments" => rec.committee \subseteq rec.commitments \cup rec.unread
    /\ step \in {"head", "decrypt"} => Cardinality(reachable) >= rec.threshold
    /\ step = "decrypt" => rec.anchor = finalized.secret

-----------------------------------------------------------------------------
(***************************************************************************)
(* Sets of DKG indices.                                                    *)
(***************************************************************************)
\* Min is a member of any set of numbers that is not empty.
LEMMA MinIsMember ==
  ASSUME NEW S \in SUBSET Nat, S # {}
  PROVE  Min(S) \in S
<1>1. PICK x \in S : \A y \in S : ~(<<y, x>> \in OpToRel(<, Nat))
  BY NatLessThanWellFounded, WFMin
<1>2. \A y \in S : y < x => <<y, x>> \in OpToRel(<, Nat)
  BY DEF OpToRel
<1>3. \A y \in S : ~(y < x)  BY <1>1, <1>2, Zenon
<1>4. \A y \in S : x <= y  BY <1>3
<1>5. QED  BY <1>4 DEF Min

\* The members up to one of them: how many there are is its place in the order.
upto_(S, m) == {x \in S : x <= m}

\* A finite set of numbers can be listed in ascending order, each once.
LEMMA Ascending ==
  ASSUME NEW S \in SUBSET Nat, IsFiniteSet(S)
  PROVE  \E nodes \in [1..Cardinality(S) -> S] :
           \A i, j \in DOMAIN nodes : i < j => nodes[i] < nodes[j]
<1> DEFINE n == Cardinality(S)
           place(m) == Cardinality(upto_(S, m))
           places == [m \in S |-> place(m)]
<1>1. n \in Nat  BY FS_CardinalityType
<1>2. \A m \in S : upto_(S, m) \in SUBSET S /\ m \in upto_(S, m)  BY DEF upto_
<1>3. ASSUME NEW m \in S  PROVE IsFiniteSet(upto_(S, m)) /\ place(m) \in 1..n
  <2>1. IsFiniteSet(upto_(S, m)) /\ place(m) <= n  BY <1>2, FS_Subset
  <2>2. place(m) \in Nat /\ place(m) # 0
    BY <1>2, <2>1, FS_CardinalityType, FS_EmptySet
  <2>3. QED  BY <1>1, <2>1, <2>2
<1>4. ASSUME NEW k \in S, NEW m \in S, k < m  PROVE place(k) < place(m)
  <2>1. \A x \in S : x <= k => x <= m  BY <1>4
  <2>2. upto_(S, k) \in SUBSET upto_(S, m)  BY <2>1 DEF upto_
  <2>3. upto_(S, k) # upto_(S, m)  BY <1>4 DEF upto_
  <2>4. place(k) <= place(m) /\ place(k) # place(m)
    BY <1>3, <2>2, <2>3, FS_Subset
  <2>5. QED  BY <1>3, <2>4
<1> HIDE DEF n, place
<1>5. places \in Injection(S, 1..n)
  <2>1. places \in [S -> 1..n]  BY <1>3
  <2>2. \A k, m \in S : place(k) = place(m) => k = m
    <3>1. SUFFICES ASSUME NEW k \in S, NEW m \in S, place(k) = place(m), k # m
                   PROVE  FALSE
      OBVIOUS
    <3>2. k < m \/ m < k  BY <3>1
    <3>3. QED  BY <1>3, <1>4, <3>1, <3>2
  <2>3. QED  BY <2>1, <2>2 DEF Injection, IsInjective
<1>6. places \in Surjection(S, 1..n)
  <2>1. IsFiniteSet(1..n) /\ Cardinality(1..n) = n  BY <1>1, FS_Interval
  <2>2. QED  BY <1>5, <2>1, FS_Injection DEF n
<1>7. \A i \in 1..n : \E m \in S : place(m) = i
  BY <1>6 DEF Surjection
<1> DEFINE nodes == [i \in 1..n |-> CHOOSE m \in S : place(m) = i]
<1>8. \A i \in 1..n : nodes[i] \in S /\ place(nodes[i]) = i
  BY <1>7
<1>9. nodes \in [1..n -> S]  BY <1>8
<1>10. ASSUME NEW i \in 1..n, NEW j \in 1..n, i < j
       PROVE  nodes[i] < nodes[j]
  <2> HIDE DEF nodes
  <2>1. /\ nodes[i] \in S /\ place(nodes[i]) = i
        /\ nodes[j] \in S /\ place(nodes[j]) = j
    BY <1>8
  <2>2. nodes[i] # nodes[j] /\ ~(j < i)  BY <1>1, <1>10, <2>1
  <2>3. ~(nodes[j] < nodes[i])  BY <1>4, <2>1, <2>2
  <2>4. nodes[i] \in Nat /\ nodes[j] \in Nat  BY <2>1
  <2>5. QED  BY <2>2, <2>3, <2>4
<1>11. \A i, j \in DOMAIN nodes : i < j => nodes[i] < nodes[j]
  BY <1>9, <1>10
<1>12. QED  BY <1>9, <1>11 DEF n

\* The nodes contacted: the reachable members, ascending, each once.
LEMMA NodesAscend ==
  ASSUME rec.committee \in SUBSET Member
  PROVE  /\ IsFiniteSet(reachable) /\ reachable \in SUBSET Nat
         /\ assemble_nodes \in [1..Cardinality(reachable) -> reachable]
         /\ \A i, j \in 1..Cardinality(reachable) :
               i < j => assemble_nodes[i] < assemble_nodes[j]
         /\ assemble_nodes \in Seq(Nat) /\ Len(assemble_nodes) = Cardinality(reachable)
<1>1. reachable \in SUBSET Member  BY DEF reachable
<1>2. IsFiniteSet(reachable) /\ reachable \in SUBSET Nat
  BY <1>1, FS_Subset, RecoverAssumption
<1>3. Cardinality(reachable) \in Nat  BY <1>2, FS_CardinalityType
<1>4. \E nodes \in [1..Cardinality(reachable) -> reachable] :
         \A i, j \in DOMAIN nodes : i < j => nodes[i] < nodes[j]
  BY <1>2, Ascending
<1>5. /\ assemble_nodes \in [1..Cardinality(reachable) -> reachable]
      /\ \A i, j \in DOMAIN assemble_nodes : i < j => assemble_nodes[i] < assemble_nodes[j]
  BY <1>4 DEF assemble_nodes
<1>6. assemble_nodes \in Seq(Nat) /\ Len(assemble_nodes) = Cardinality(reachable)
  <2> DEFINE n == Cardinality(reachable)
  <2>1. assemble_nodes \in [1..n -> Nat]  BY <1>2, <1>5
  <2> HIDE DEF n
  <2>2. assemble_nodes \in Seq(Nat) /\ Len(assemble_nodes) = n  BY <1>3, <2>1 DEF n
  <2>3. QED  BY <2>2 DEF n
<1>7. QED  BY <1>2, <1>5, <1>6

-----------------------------------------------------------------------------
(***************************************************************************)
(* The chain.                                                              *)
(***************************************************************************)
\* What an epoch is, and what it has.
LEMMA Epochs ==
  /\ Epoch \in SUBSET (Nat \ {0})
  /\ \A e \in Epoch : /\ Committee[e] \in SUBSET Member /\ Quorum[e] \in Nat \ {0}
                      /\ 1..e \subseteq Epoch
  BY RecoverAssumption DEF Epoch

\* The best and the finalized state, of a chain that has a block.
LEMMA Ends ==
  ASSUME ChainTyped, blocks # <<>>
  PROVE  /\ best \in Block /\ Stored(best)
         /\ finalized \in Block /\ Stored(finalized)
         /\ Len(blocks) = 1 => best = finalized
<1>1. Len(blocks) \in Nat \ {0} /\ DOMAIN blocks = 1..Len(blocks)
  BY DEF ChainTyped
<1>2. best = blocks[Len(blocks)] /\ finalized = blocks[1]
  BY DEF best, finalized, Last
<1>3. 1 \in DOMAIN blocks /\ Len(blocks) \in DOMAIN blocks  BY <1>1
<1>4. QED  BY <1>1, <1>2, <1>3 DEF ChainTyped

\* A new block keeps the blocks' type.
LEMMA Appending ==
  ASSUME ChainTyped, NEW state \in Block, Stored(state), NewBlock(state)
  PROVE  blocks' \in Seq(Block) /\ blocks' # <<>> /\ \A i \in DOMAIN blocks' : Stored(blocks'[i])
<1>1. blocks' = Append(blocks, state)  BY DEF NewBlock
<1>2. \A i \in DOMAIN blocks' : (i \in DOMAIN blocks /\ blocks'[i] = blocks[i]) \/ blocks'[i] = state
  BY <1>1 DEF ChainTyped
<1>3. QED  BY <1>1, <1>2 DEF ChainTyped

\* What the chain does between two reads: its blocks stay typed, and only the
\* history of the call notices.
LEMMA ChainMoves ==
  ASSUME ChainTyped, ChainNext
  PROVE  /\ blocks' \in Seq(Block) /\ changes' \in Nat /\ blocks' # <<>>
         /\ \A i \in DOMAIN blocks' : Stored(blocks'[i])
         /\ UNCHANGED <<step, rec, outcome>> /\ quiet' = FALSE /\ step # "done"
<1> DEFINE Good == /\ blocks' \in Seq(Block) /\ blocks' # <<>>
                   /\ \A i \in DOMAIN blocks' : Stored(blocks'[i])
<1>1. Changing
  BY DEF ChainNext, ReSeal, DeleteSecret, CommitteeMoves, Announce, NewBlock, Finalize, Retract
<1>2. ASSUME NEW tag \in Tag, ReSeal(tag)  PROVE Good
  <2> DEFINE sealed == Sealed(changes + 3, best.epoch, tag, tag)
             state  == [best EXCEPT !.secret = sealed]
  <2>1. best \in Block /\ NewBlock(state)  BY <1>2, Ends DEF ReSeal
  <2>2. sealed \in StoredSecret /\ sealed.epoch = best.epoch /\ best.epoch \in Nat \ {0}
    BY <2>1, Epochs DEF ChainTyped, Sealed, StoredSecret, Tags, Block
  <2> HIDE DEF sealed
  <2>3. state \in Block /\ state.secret = sealed /\ state.epoch = best.epoch
    BY <2>1, <2>2 DEF Block
  <2> HIDE DEF state
  <2>4. Stored(state)  BY <2>2, <2>3 DEF Stored
  <2>5. QED  BY <2>1, <2>3, <2>4, Appending
<1>3. ASSUME DeleteSecret  PROVE Good
  <2> DEFINE state == [best EXCEPT !.secret = NoSecret]
  <2>1. best \in Block /\ NewBlock(state)  BY <1>3, Ends DEF DeleteSecret
  <2>2. NoSecret \in StoredSecret  BY DEF NoSecret, Sealed, StoredSecret, Tags
  <2>3. state \in Block /\ state.secret = NoSecret  BY <2>1, <2>2 DEF Block
  <2> HIDE DEF state
  <2>4. QED  BY <2>1, <2>3, Appending DEF Stored
<1>4. ASSUME CommitteeMoves  PROVE Good
  <2> DEFINE state == [best EXCEPT !.epoch = @ + 1]
  <2>1. best \in Block /\ Stored(best) /\ best.epoch + 1 \in Epoch /\ NewBlock(state)
    BY <1>4, Ends DEF CommitteeMoves
  <2>2. state \in Block /\ state.secret = best.secret /\ state.epoch = best.epoch + 1
    BY <2>1 DEF Block
  <2>3. best.epoch \in Nat  BY <2>1, Epochs DEF Block
  <2> HIDE DEF state
  <2>4. Stored(state)  BY <2>1, <2>2, <2>3 DEF Stored
  <2>5. QED  BY <2>1, <2>2, <2>4, Appending
<1>5. ASSUME NEW m \in Member, NEW e \in Endpoint, Announce(m, e)  PROVE Good
  <2> DEFINE state == [best EXCEPT !.registry[m] = e]
  <2>1. best \in Block /\ Stored(best) /\ NewBlock(state)  BY <1>5, Ends DEF Announce
  <2>2. state \in Block /\ state.secret = best.secret /\ state.epoch = best.epoch
    BY <2>1 DEF Block
  <2> HIDE DEF state
  <2>3. QED  BY <2>1, <2>2, Appending DEF Stored
<1>6. ASSUME Finalize  PROVE Good
  <2>1. blocks \in Seq(Block) /\ Len(blocks) > 1 /\ blocks' = Tail(blocks)
    BY <1>6 DEF Finalize, ChainTyped
  <2>2. /\ blocks' \in Seq(Block) /\ Len(blocks') = Len(blocks) - 1
        /\ \A i \in DOMAIN blocks' : i + 1 \in DOMAIN blocks /\ blocks'[i] = blocks[i + 1]
    BY <2>1
  <2>3. QED  BY <2>1, <2>2 DEF ChainTyped
<1>7. ASSUME Retract  PROVE Good
  <2>1. PICK k \in 1..(Len(blocks) - 1) : blocks' = SubSeq(blocks, 1, k)
    BY <1>7 DEF Retract
  <2>2. QED  BY <2>1 DEF ChainTyped
<1>8. Good  BY <1>2, <1>3, <1>4, <1>5, <1>6, <1>7 DEF ChainNext
<1>9. QED  BY <1>1, <1>8 DEF Changing, ChainTyped

\* A chain that a recover finds.
LEMMA ChainsFound ==
  ASSUME NEW found \in Chains
  PROVE  /\ found \in Seq(Block) /\ found # <<>> /\ Len(found) <= 2
         /\ \A i \in DOMAIN found : Stored(found[i])
<1> DEFINE State(secret, epoch, registry) ==
             [secret |-> secret, epoch |-> epoch, registry |-> registry]
           secrets(e) == {NoSecret} \cup
             {Sealed(1, s, t, r) : s \in 1..e, t \in Tag, r \in Tag \cup {Unrecorded}}
           possible(secret) == secret.recorded \in {Unrecorded, secret.tag}
           reseal(b) == <<b, State(Sealed(2, b.epoch + 1, b.secret.tag, b.secret.tag),
                                   b.epoch + 1, b.registry)>>
           finals == UNION {{State(s, e, r) : s \in {s \in secrets(e) : possible(s)},
                                              r \in InitialRegistries} : e \in Epoch}
<1>1. \/ \E b \in finals : found = <<b>>
      \/ \E b \in finals : b.epoch + 1 \in Epoch /\ found = reseal(b)
  BY DEF Chains
<1>2. ASSUME NEW b \in finals  PROVE b \in Block /\ Stored(b)
  <2>1. PICK e \in Epoch :
          b \in {State(s, e, r) : s \in {s \in secrets(e) : possible(s)}, r \in InitialRegistries}
    BY <1>2
  <2>2. PICK s \in secrets(e), r \in InitialRegistries : b = State(s, e, r)
    BY <2>1
  <2>3. s \in StoredSecret /\ (s # NoSecret => s.epoch \in 1..e)
    BY <2>2, Epochs DEF StoredSecret, NoSecret, Sealed, Tags
  <2>4. r \in [Member -> Endpoint]  BY RecoverAssumption DEF Endpoint
  <2>5. QED  BY <2>2, <2>3, <2>4 DEF Block, Stored
<1> HIDE DEF finals, secrets, possible
<1>3. ASSUME NEW b \in finals, b.epoch + 1 \in Epoch
      PROVE  /\ reseal(b)[2] \in Block /\ Stored(reseal(b)[2])
  <2>1. b \in Block /\ b.epoch \in Nat  BY <1>2, Epochs DEF Block
  <2>2. Sealed(2, b.epoch + 1, b.secret.tag, b.secret.tag) \in StoredSecret
    BY <2>1 DEF Block, StoredSecret, Sealed
  <2>3. QED  BY <1>3, <2>1, <2>2 DEF Block, Stored, Sealed
<1>4. CASE \E b \in finals : found = <<b>>  BY <1>2, <1>4
<1>5. CASE \E b \in finals : b.epoch + 1 \in Epoch /\ found = reseal(b)
  BY <1>2, <1>3, <1>5
<1>6. QED  BY <1>1, <1>4, <1>5

-----------------------------------------------------------------------------
(***************************************************************************)
(* The reads.                                                              *)
(***************************************************************************)
\* What a step of the session can do to the chain and to a recover.
LEMMA StepsOfASession ==
  ASSUME [Next]_vars
  PROVE  \/ RecoverNext
         \/ ChainNext
         \/ \E tag \in Tag : StartRecover(tag)
         \/ UNCHANGED <<blocks, changes, step, rec, outcome, quiet>>
<1>1. ASSUME Convert  PROVE UNCHANGED <<chain, recover>>
  BY <1>1 DEF Convert, ParsesKey, ParsesScopes, ParsesAmount, FormatsAmount, TakesOneToken, Converts
<1>2. ASSUME NEW c, Tx(c)  PROVE UNCHANGED <<chain, recover>>
  BY <1>2 DEF Tx
<1>3. ASSUME UNCHANGED <<chain, recover>>
      PROVE  UNCHANGED <<blocks, changes, step, rec, outcome, quiet>>
  BY <1>3 DEF chain, recover
<1>4. ASSUME UNCHANGED vars  PROVE UNCHANGED <<chain, recover>>
  BY <1>4 DEF vars
<1>5. QED
  BY <1>1, <1>2, <1>3, <1>4, Zenon DEF Next, StartsRecover, RecoverReadOnly

\* The reads do not change the chain.
LEMMA ReadsLeaveTheChain ==
  ASSUME RecoverNext
  PROVE  UNCHANGED <<blocks, changes>>
  BY DEF RecoverNext, RecoverStep, ReadPayload, ReadEpoch, ReadAad, ReadDkgOutput, ReadThreshold,
         ReadCommittee, ReadRegistry, ReadCommitment, Assemble, ReadHead, Decrypt, RpcFails,
         End, Then, chain

\* A chain keeps its type whatever happens.
LEMMA ChainStaysTyped ==
  ASSUME ChainTyped, [Next]_vars
  PROVE  ChainTyped'
<1>1. CASE RecoverNext
  <2>1. step # "idle"
    BY <1>1 DEF RecoverNext, RecoverStep, ReadPayload, ReadEpoch, ReadAad, ReadDkgOutput,
                ReadThreshold, ReadCommittee, ReadRegistry, ReadCommitment, Assemble, ReadHead,
                Decrypt, RpcFails
  <2>2. QED  BY <1>1, <2>1, ReadsLeaveTheChain DEF ChainTyped, Stored
<1>2. CASE ChainNext  BY <1>2, ChainMoves DEF ChainTyped, Stored
<1>3. CASE \E tag \in Tag : StartRecover(tag)
  BY <1>3, ChainsFound DEF StartRecover, ChainTyped, Stored
<1>4. CASE UNCHANGED <<blocks, changes, step, rec, outcome, quiet>>
  BY <1>4 DEF ChainTyped, Stored
<1>5. QED  BY <1>1, <1>2, <1>3, <1>4, StepsOfASession

\* What a read may be given: a new value of the field it reads.
LEMMA ReadsStayTyped ==
  ASSUME ChainTyped, ReadsTyped, RecoverNext
  PROVE  ReadsTyped'
<1> DEFINE typed == rec' \in Reads
           seated == step' \notin {"idle", "payload", "epoch", "done"} => rec'.epoch \in Epoch
           open == step' # "done" => outcome' = "none"
<1> USE DEF Then, End
<1>1. rec \in Reads /\ (step # "idle" => best \in Block /\ Stored(best) /\ finalized \in Block)
  BY Ends DEF ReadsTyped, ChainTyped
<1>2. open
  BY DEF ReadsTyped, RecoverNext, RecoverStep, ReadPayload, ReadEpoch, ReadAad, ReadDkgOutput,
         ReadThreshold, ReadCommittee, ReadRegistry, ReadCommitment, Assemble, ReadHead, Decrypt,
         RpcFails
<1>3. CASE ReadPayload
  BY <1>1, <1>3, <1>2 DEF ReadPayload, Reads, Block, StoredSecret, ReadsTyped
<1>4. CASE ReadEpoch
  <2>1. best \in Block /\ Stored(best)  BY <1>1, <1>4 DEF ReadEpoch
  <2>2. best.secret # NoSecret => best.secret.epoch \in Epoch
    BY <2>1, Epochs DEF Stored, Block
  <2>3. typed  BY <1>1, <1>4, <2>1 DEF ReadEpoch, Reads, Block, StoredSecret
  <2>4. seated  BY <1>1, <1>4, <2>2 DEF ReadEpoch, Reads
  <2>5. QED  BY <1>2, <2>3, <2>4 DEF ReadsTyped
<1>5. CASE ReadAad        BY <1>1, <1>2, <1>5 DEF ReadAad, ReadsTyped
<1>6. CASE ReadDkgOutput  BY <1>1, <1>2, <1>6 DEF ReadDkgOutput, ReadsTyped
<1>7. CASE ReadThreshold
  <2>1. rec.epoch \in Epoch /\ Quorum[rec.epoch] \in Nat
    BY <1>7, Epochs DEF ReadThreshold, ReadsTyped
  <2>2. QED  BY <1>1, <1>2, <1>7, <2>1 DEF ReadThreshold, Reads, ReadsTyped
<1>8. CASE ReadCommittee
  <2>1. rec.epoch \in Epoch /\ Committee[rec.epoch] \in SUBSET Member
    BY <1>8, Epochs DEF ReadCommittee, ReadsTyped
  <2>2. QED  BY <1>1, <1>2, <1>8, <2>1 DEF ReadCommittee, Reads, ReadsTyped
<1>9. CASE ReadRegistry
  <2>1. rec.epoch \in Epoch /\ best \in Block  BY <1>1, <1>9 DEF ReadRegistry, ReadsTyped
  <2>2. QED  BY <1>1, <1>2, <1>9, <2>1 DEF ReadRegistry, Reads, Block, ReadsTyped
<1>10. CASE ReadCommitment
  <2>1. rec.epoch \in Epoch  BY <1>10 DEF ReadCommitment, ReadsTyped
  <2>2. rec.unread \in SUBSET Nat /\ rec.unread # {} /\ rec.unread \in SUBSET Member
    BY <1>1, <1>10, RecoverAssumption DEF ReadCommitment, Reads
  <2>3. Min(rec.unread) \in Member  BY <2>2, MinIsMember
  <2> HIDE DEF Then
  <2>4. PICK unread \in SUBSET Member, commitments \in SUBSET Member :
          Then("commitments", [rec EXCEPT !.unread = unread, !.commitments = commitments])
    <3> DEFINE m == Min(rec.unread)
    <3>1. rec.unread \ {m} \in SUBSET Member  BY <2>2
    <3>2. (IF Seated THEN rec.commitments \cup {m} ELSE rec.commitments) \in SUBSET Member
      BY <1>1, <2>3 DEF Reads
    <3>3. Then("commitments",
               [rec EXCEPT !.unread = rec.unread \ {m},
                           !.commitments = IF Seated THEN rec.commitments \cup {m}
                                                     ELSE rec.commitments])
      BY <1>10 DEF ReadCommitment
    <3>4. QED  BY <3>1, <3>2, <3>3
  <2>5. QED  BY <1>1, <1>2, <2>1, <2>4 DEF Reads, ReadsTyped, Then
<1>11. CASE Assemble
  <2>1. rec.epoch \in Epoch  BY <1>11 DEF Assemble, ReadsTyped
  <2>2. assemble_nodes \in Seq(Nat)  BY <1>1, NodesAscend DEF Reads
  <2>3. QED  BY <1>1, <1>2, <1>11, <2>1, <2>2 DEF Assemble, Reads, ReadsTyped
<1>12. CASE ReadHead
  <2>1. rec.epoch \in Epoch /\ finalized \in Block  BY <1>1, <1>12 DEF ReadHead, ReadsTyped
  <2>2. QED  BY <1>1, <1>2, <1>12, <2>1 DEF ReadHead, Reads, Block, ReadsTyped
<1>13. CASE Decrypt   BY <1>1, <1>2, <1>13 DEF Decrypt, ReadsTyped
<1>14. CASE RpcFails  BY <1>1, <1>2, <1>14 DEF RpcFails, ReadsTyped
<1>15. QED
  BY <1>3, <1>4, <1>5, <1>6, <1>7, <1>8, <1>9, <1>10, <1>11, <1>12, <1>13, <1>14
     DEF RecoverNext, RecoverStep

\* Which nodes are contacted is a matter of the committee and the registry read.
LEMMA SameNodes ==
  ASSUME rec'.committee = rec.committee, rec'.registry = rec.registry
  PROVE  reachable' = reachable /\ assemble_nodes' = assemble_nodes
<1>1. reachable' = reachable  BY DEF reachable, parse_endpoint
<1>2. QED  BY <1>1 DEF assemble_nodes

\* However torn the reads are, the committee, the threshold and the nodes are
\* those of the epoch asked for.
LEMMA TornStep ==
  ASSUME ChainTyped, ReadsTyped, Torn, RecoverNext
  PROVE  Torn'
<1> USE DEF Then, End
<1> DEFINE nothing_recovered == outcome' # "Recovered"
<1>1. rec \in Reads  BY DEF ReadsTyped
<1>2. step # "done" => outcome = "none"  BY DEF ReadsTyped
<1>3. CASE ReadPayload    BY <1>2, <1>3 DEF ReadPayload, Torn
<1>4. CASE ReadEpoch      BY <1>2, <1>4 DEF ReadEpoch, Torn
<1>5. CASE ReadAad        BY <1>2, <1>5 DEF ReadAad, Torn
<1>6. CASE ReadDkgOutput  BY <1>2, <1>6 DEF ReadDkgOutput, Torn
<1>7. CASE ReadThreshold
  <2>1. rec'.threshold \in {0, Quorum[rec'.epoch]} /\ step' = "committee" /\ outcome' = "none"
    BY <1>1, <1>2, <1>7 DEF ReadThreshold, Reads
  <2>2. QED  BY <2>1 DEF Torn
<1>8. CASE ReadCommittee
  <2>1. CASE Seated
    <3>1. /\ rec'.committee = Committee[rec'.epoch] /\ rec'.threshold = rec.threshold
          /\ rec'.epoch = rec.epoch /\ step' = "registry" /\ outcome' = "none"
      BY <1>1, <1>2, <1>8, <2>1 DEF ReadCommittee, Reads
    <3>2. step = "committee"  BY <1>8 DEF ReadCommittee
    <3>3. QED  BY <3>1, <3>2 DEF Torn
  <2>2. CASE ~Seated  BY <1>2, <1>8, <2>2 DEF ReadCommittee, Torn
  <2>3. QED  BY <2>1, <2>2
<1>9. CASE ReadRegistry
  <2>1. /\ rec'.committee = rec.committee /\ rec'.threshold = rec.threshold
        /\ rec'.epoch = rec.epoch /\ step' = "commitments" /\ outcome' = "none"
    BY <1>1, <1>2, <1>9 DEF ReadRegistry, Reads
  <2>2. step = "registry"  BY <1>9 DEF ReadRegistry
  <2>3. QED  BY <2>1, <2>2 DEF Torn
<1>10. CASE ReadCommitment
  <2>1. /\ rec'.committee = rec.committee /\ rec'.threshold = rec.threshold
        /\ rec'.epoch = rec.epoch /\ step' = "commitments" /\ outcome' = "none"
    BY <1>1, <1>2, <1>10 DEF ReadCommitment, Reads
  <2>2. step = "commitments"  BY <1>10 DEF ReadCommitment
  <2>3. QED  BY <2>1, <2>2 DEF Torn
<1>11. CASE Assemble
  <2>1. step = "commitments"  BY <1>11 DEF Assemble
  <2>2. CASE step' = "done"  BY <1>2, <1>11, <2>1, <2>2 DEF Assemble, Torn
  <2>3. CASE step' = "head"
    <3>1. /\ rec'.committee = rec.committee /\ rec'.threshold = rec.threshold
          /\ rec'.epoch = rec.epoch /\ rec'.registry = rec.registry
          /\ rec'.commitments = rec.commitments
          /\ rec'.nodes = assemble_nodes /\ outcome' = "none"
          /\ reachable \subseteq rec.commitments /\ Len(assemble_nodes) >= rec.threshold
      BY <1>1, <1>2, <1>11, <2>3 DEF Assemble, Reads
    <3>2. reachable' = reachable /\ assemble_nodes' = assemble_nodes  BY <3>1, SameNodes
    <3>3. QED  BY <2>1, <2>3, <3>1, <3>2 DEF Torn
  <2>4. QED  BY <1>11, <2>2, <2>3 DEF Assemble
<1>12. CASE ReadHead
  <2>1. /\ rec'.committee = rec.committee /\ rec'.threshold = rec.threshold
        /\ rec'.epoch = rec.epoch /\ rec'.registry = rec.registry
        /\ rec'.commitments = rec.commitments /\ rec'.nodes = rec.nodes
        /\ step' = "decrypt" /\ outcome' = "none"
    BY <1>1, <1>2, <1>12 DEF ReadHead, Reads
  <2>2. reachable' = reachable /\ assemble_nodes' = assemble_nodes  BY <2>1, SameNodes
  <2>3. step = "head"  BY <1>12 DEF ReadHead
  <2>4. QED  BY <2>1, <2>2, <2>3 DEF Torn
<1>13. CASE Decrypt
  <2>1. step = "decrypt" /\ step' = "done" /\ rec' = rec  BY <1>13 DEF Decrypt
  <2>2. outcome' = "Recovered" => rec.threshold # 0  BY <1>13 DEF Decrypt, Answers
  <2>3. reachable' = reachable /\ assemble_nodes' = assemble_nodes  BY <2>1, SameNodes
  <2>4. QED  BY <2>1, <2>2, <2>3 DEF Torn
<1>14. CASE RpcFails  BY <1>2, <1>14 DEF RpcFails, Torn
<1>15. QED
  BY <1>3, <1>4, <1>5, <1>6, <1>7, <1>8, <1>9, <1>10, <1>11, <1>12, <1>13, <1>14
     DEF RecoverNext, RecoverStep

\* A read of a chain at rest adds what the best block says.
LEMMA UndisturbedStep ==
  ASSUME ChainTyped, ReadsTyped, Undisturbed, RecoverNext
  PROVE  Undisturbed'
<1> USE DEF Then, End
<1>1. rec \in Reads  BY DEF ReadsTyped
<1>2. blocks' = blocks /\ best' = best /\ finalized' = finalized
  BY ReadsLeaveTheChain DEF best, finalized
<1>3. CASE ~quiet' \/ step' = "done"  BY <1>3 DEF Undisturbed
<1> DEFINE Rest == quiet' /\ step' # "done"
<1>4. ASSUME Rest, RecoverStep  PROVE quiet
  BY <1>4 DEF RecoverStep, ReadPayload, ReadEpoch, ReadAad, ReadDkgOutput, ReadThreshold,
              ReadCommittee, ReadRegistry, ReadCommitment, Assemble, ReadHead, Decrypt
<1>5. ASSUME Rest, ReadPayload  PROVE Undisturbed'
  <2>1. best.secret # NoSecret /\ rec'.payload = best.secret.version /\ step' = "epoch"
    BY <1>1, <1>5 DEF ReadPayload, Reads
  <2>2. QED  BY <1>2, <2>1 DEF Undisturbed
<1>6. ASSUME Rest, ReadEpoch  PROVE Undisturbed'
  <2>1. /\ best.secret # NoSecret /\ rec'.payload = rec.payload
        /\ rec'.epoch = best.secret.epoch /\ step = "epoch" /\ step' = "aad"
    BY <1>1, <1>6 DEF ReadEpoch, Reads
  <2>2. quiet  BY <1>4, <1>6 DEF RecoverStep
  <2>3. QED  BY <1>2, <2>1, <2>2 DEF Undisturbed
<1>7. ASSUME Rest, ReadAad  PROVE Undisturbed'
  <2>1. rec' = rec /\ check_aad(best.secret.recorded, rec.requested) /\ step = "aad" /\ step' = "dkg"
    BY <1>7 DEF ReadAad
  <2>2. quiet  BY <1>4, <1>7 DEF RecoverStep
  <2>3. QED  BY <1>2, <2>1, <2>2 DEF Undisturbed
<1>8. ASSUME Rest, ReadDkgOutput  PROVE Undisturbed'
  <2>1. rec' = rec /\ step = "dkg" /\ step' = "threshold"  BY <1>8 DEF ReadDkgOutput
  <2>2. quiet  BY <1>4, <1>8 DEF RecoverStep
  <2>3. QED  BY <1>2, <2>1, <2>2 DEF Undisturbed
<1>9. ASSUME Rest, ReadThreshold  PROVE Undisturbed'
  <2>1. step = "threshold" /\ step' = "committee" /\ quiet
    BY <1>4, <1>9 DEF ReadThreshold, RecoverStep
  <2>2. best \in Block /\ Stored(best) /\ best.secret # NoSecret /\ rec.epoch = best.secret.epoch
    BY <2>1, Ends DEF ChainTyped, Undisturbed
  <2>3. Seated  BY <2>2, Epochs DEF Seated, Stored, Block
  <2>4. /\ rec'.threshold = Quorum[rec.epoch] /\ rec'.epoch = rec.epoch
        /\ rec'.payload = rec.payload /\ rec'.requested = rec.requested
    BY <1>1, <1>9, <2>3 DEF ReadThreshold, Reads
  <2>5. QED  BY <1>2, <2>1, <2>4 DEF Undisturbed
<1>10. ASSUME Rest, ReadCommittee  PROVE Undisturbed'
  <2>1. step = "committee" /\ step' = "registry" /\ quiet
    BY <1>4, <1>10 DEF ReadCommittee, RecoverStep
  <2>2. /\ rec'.committee = Committee[rec.epoch] /\ rec'.epoch = rec.epoch
        /\ rec'.threshold = rec.threshold
        /\ rec'.payload = rec.payload /\ rec'.requested = rec.requested
    BY <1>1, <1>10 DEF ReadCommittee, Reads
  <2>3. QED  BY <1>2, <2>1, <2>2 DEF Undisturbed
<1>11. ASSUME Rest, ReadRegistry  PROVE Undisturbed'
  <2>1. step = "registry" /\ step' = "commitments" /\ quiet
    BY <1>4, <1>11 DEF ReadRegistry, RecoverStep
  <2>2. /\ rec'.registry = best.registry /\ rec'.unread = rec.committee
        /\ rec'.committee = rec.committee /\ rec'.epoch = rec.epoch
        /\ rec'.threshold = rec.threshold
        /\ rec'.payload = rec.payload /\ rec'.requested = rec.requested
    BY <1>1, <1>11 DEF ReadRegistry, Reads
  <2>3. QED  BY <1>2, <2>1, <2>2 DEF Undisturbed
<1>12. ASSUME Rest, ReadCommitment  PROVE Undisturbed'
  <2>1. step = "commitments" /\ step' = "commitments" /\ quiet
    BY <1>4, <1>12 DEF ReadCommitment, RecoverStep
  <2>2. best \in Block /\ Stored(best) /\ best.secret # NoSecret /\ rec.epoch = best.secret.epoch
    BY <2>1, Ends DEF ChainTyped, Undisturbed
  <2>3. Seated  BY <2>2, Epochs DEF Seated, Stored, Block
  <2>4. /\ rec'.unread = rec.unread \ {Min(rec.unread)}
        /\ rec'.commitments = rec.commitments \cup {Min(rec.unread)}
        /\ rec'.committee = rec.committee /\ rec'.epoch = rec.epoch
        /\ rec'.registry = rec.registry /\ rec'.threshold = rec.threshold
        /\ rec'.payload = rec.payload /\ rec'.requested = rec.requested
    BY <1>1, <1>12, <2>3 DEF ReadCommitment, Reads
  <2>5. rec'.committee \subseteq rec'.commitments \cup rec'.unread
    BY <2>1, <2>4 DEF Undisturbed
  <2>6. QED  BY <1>2, <2>1, <2>4, <2>5 DEF Undisturbed
<1>13. ASSUME Rest, Assemble  PROVE Undisturbed'
  <2>1. step = "commitments" /\ step' = "head" /\ quiet
    BY <1>4, <1>13 DEF Assemble, RecoverStep
  <2>2. /\ rec'.committee = rec.committee /\ rec'.epoch = rec.epoch
        /\ rec'.registry = rec.registry /\ rec'.threshold = rec.threshold
        /\ rec'.payload = rec.payload /\ rec'.requested = rec.requested
        /\ Len(assemble_nodes) >= rec.threshold
    BY <1>1, <1>13 DEF Assemble, Reads
  <2>3. Cardinality(reachable) >= rec.threshold  BY <1>1, <2>2, NodesAscend DEF Reads
  <2>4. reachable' = reachable  BY <2>2, SameNodes
  <2>5. QED  BY <1>2, <2>1, <2>2, <2>3, <2>4 DEF Undisturbed
<1>14. ASSUME Rest, ReadHead  PROVE Undisturbed'
  <2>1. step = "head" /\ step' = "decrypt" /\ quiet
    BY <1>4, <1>14 DEF ReadHead, RecoverStep
  <2>2. /\ rec'.committee = rec.committee /\ rec'.epoch = rec.epoch
        /\ rec'.registry = rec.registry /\ rec'.threshold = rec.threshold
        /\ rec'.payload = rec.payload /\ rec'.requested = rec.requested
        /\ rec'.anchor = finalized.secret
    BY <1>1, <1>14 DEF ReadHead, Reads
  <2>3. reachable' = reachable  BY <2>2, SameNodes
  <2>4. QED  BY <1>2, <2>1, <2>2, <2>3 DEF Undisturbed
<1>15. CASE Decrypt \/ RpcFails
  <2>1. step' = "done"  BY <1>15 DEF Decrypt, RpcFails
  <2>2. QED  BY <1>3, <2>1
<1>16. QED
  BY <1>3, <1>5, <1>6, <1>7, <1>8, <1>9, <1>10, <1>11, <1>12, <1>13, <1>14, <1>15
     DEF RecoverNext, RecoverStep

\* The call that ends, ends as a read of the state at once would.
LEMMA AtomicStep ==
  ASSUME ChainTyped, ReadsTyped, Undisturbed, RecoverNext
  PROVE  QuietRecoverIsAtomic'
<1>1. SUFFICES ASSUME step' = "done", quiet', Len(blocks') = 1
               PROVE  outcome' \in Atomic(best', rec'.requested)
  BY DEF QuietRecoverIsAtomic
<1>2. blocks' = blocks /\ best' = best  BY ReadsLeaveTheChain DEF best
<1>3. step # "idle" /\ step # "done" /\ quiet
  BY <1>1 DEF RecoverNext, RecoverStep, ReadPayload, ReadEpoch, ReadAad, ReadDkgOutput,
              ReadThreshold, ReadCommittee, ReadRegistry, ReadCommitment, Assemble, ReadHead,
              Decrypt, RpcFails, End, Then
<1>4. best \in Block /\ Stored(best) /\ best = finalized /\ rec \in Reads
  BY <1>1, <1>2, <1>3, Ends DEF ChainTyped, ReadsTyped
<1> DEFINE secret == best.secret
           usable == {m \in Committee[secret.epoch] : best.registry[m] = "http"}
<1>5. Seated \/ step \in {"payload", "epoch", "aad"}
  <2>1. SUFFICES ASSUME step \notin {"payload", "epoch", "aad"}  PROVE Seated
    OBVIOUS
  <2>2. best.secret # NoSecret /\ rec.epoch = best.secret.epoch
    BY <1>3, <2>1 DEF Undisturbed
  <2>3. QED  BY <1>4, <2>2, Epochs DEF Seated, Stored, Block
<1>6. step \in {"commitments", "decrypt"} =>
        /\ secret # NoSecret /\ check_aad(secret.recorded, rec.requested)
        /\ reachable = usable /\ rec.threshold = Quorum[secret.epoch]
  BY <1>3 DEF Undisturbed, reachable, parse_endpoint
<1>7. CASE ReadPayload
  <2>1. best.secret = NoSecret /\ outcome' = "NoSecret"
    BY <1>1, <1>7 DEF ReadPayload, End, Then
  <2>2. QED  BY <1>2, <2>1 DEF Atomic
<1>8. CASE ReadEpoch
  <2>1. best.secret = NoSecret /\ outcome' = "NoSecret"
    BY <1>1, <1>8 DEF ReadEpoch, End, Then
  <2>2. QED  BY <1>2, <2>1 DEF Atomic
<1>9. CASE ReadAad
  <2>1. ~check_aad(best.secret.recorded, rec.requested) /\ outcome' = "AadMismatch" /\ rec' = rec
    BY <1>1, <1>9 DEF ReadAad, End, Then
  <2>2. best.secret # NoSecret  BY <1>3, <1>9 DEF ReadAad, Undisturbed
  <2>3. QED  BY <1>2, <2>1, <2>2 DEF Atomic, check_aad
<1>10. CASE ReadDkgOutput \/ ReadThreshold \/ ReadCommittee \/ ReadRegistry \/ ReadCommitment
         \/ ReadHead
  BY <1>1, <1>5, <1>10 DEF ReadDkgOutput, ReadThreshold, ReadCommittee, ReadRegistry,
                           ReadCommitment, ReadHead, End, Then
<1>11. CASE Assemble
  <2>1. step = "commitments" /\ rec.unread = {}  BY <1>11 DEF Assemble
  <2>2. reachable \subseteq rec.commitments
    BY <1>3, <2>1 DEF Undisturbed, reachable
  <2>3. Len(assemble_nodes) < rec.threshold /\ outcome' = "Unreachable" /\ rec' = rec
    BY <1>1, <1>11, <2>2 DEF Assemble, End, Then
  <2>4. Cardinality(usable) < Quorum[secret.epoch]
    BY <1>4, <1>6, <2>1, <2>3, NodesAscend DEF Reads
  <2>5. QED  BY <1>2, <1>6, <2>1, <2>3, <2>4 DEF Atomic, check_aad
<1>12. CASE Decrypt
  <2>1. step = "decrypt" /\ rec' = rec  BY <1>12 DEF Decrypt, End
  <2>2. outcome' \in Answers(secret)
    BY <1>3, <1>4, <1>12, <2>1 DEF Decrypt, End, Undisturbed
  <2>3. /\ secret # NoSecret /\ rec.epoch = secret.epoch /\ rec.payload = secret.version
        /\ Cardinality(reachable) >= rec.threshold
    BY <1>3, <2>1 DEF Undisturbed
  <2>4. Quorum[secret.epoch] \in Nat \ {0}
    <3>1. rec.epoch \in Epoch  BY <2>1 DEF ReadsTyped
    <3>2. QED  BY <2>3, <3>1, Epochs
  <2>5. outcome' \in {"QuorumUnavailable", IF secret.tag = rec.requested THEN "Recovered"
                                                                        ELSE "Aead"}
    BY <1>6, <2>1, <2>2, <2>3, <2>4 DEF Answers
  <2>6. ~(Cardinality(usable) < Quorum[secret.epoch])
    <3>1. Cardinality(usable) \in Nat
      <4>1. IsFiniteSet(reachable)  BY <1>4, NodesAscend DEF Reads
      <4>2. QED  BY <1>6, <2>1, <4>1, FS_CardinalityType
    <3>2. QED  BY <1>6, <2>1, <2>3, <2>4, <3>1
  <2>7. QED  BY <1>2, <1>6, <2>1, <2>5, <2>6 DEF Atomic, check_aad
<1>13. CASE RpcFails  BY <1>1, <1>13 DEF RpcFails
<1>14. QED
  BY <1>7, <1>8, <1>9, <1>10, <1>11, <1>12, <1>13 DEF RecoverNext, RecoverStep

-----------------------------------------------------------------------------
(***************************************************************************)
(* The invariant.                                                          *)
(***************************************************************************)
Inv == ChainTyped /\ ReadsTyped /\ Torn /\ Undisturbed /\ QuietRecoverIsAtomic

\* Nothing was read before a recover.
LEMMA InvInit == Init => Inv
<1> SUFFICES ASSUME Init  PROVE Inv
  OBVIOUS
<1>1. blocks = <<>> /\ changes = 0 /\ step = "idle" /\ rec = NoRead /\ outcome = "none"
  BY DEF Init, RecoverInit
<1>2. NoSecret \in StoredSecret  BY DEF NoSecret, Sealed, StoredSecret, Tags
<1>3. rec \in Reads
  BY <1>1, <1>2, FS_EmptySet DEF NoRead, Reads, Tags, Endpoint
<1>4. QED
  BY <1>1, <1>3 DEF Inv, ChainTyped, ReadsTyped, Torn, Undisturbed, QuietRecoverIsAtomic

\* Every step of a session keeps it.
LEMMA InvNext == Inv /\ [Next]_vars => Inv'
<1> SUFFICES ASSUME Inv, [Next]_vars  PROVE Inv'
  OBVIOUS
<1>1. ChainTyped'  BY ChainStaysTyped DEF Inv
<1>2. CASE RecoverNext
  BY <1>1, <1>2, ReadsStayTyped, TornStep, UndisturbedStep, AtomicStep DEF Inv
<1>3. CASE ChainNext
  <2>1. UNCHANGED <<step, rec, outcome>> /\ quiet' = FALSE
    BY <1>3, ChainMoves DEF Inv
  <2>2. ReadsTyped'  BY <2>1 DEF Inv, ReadsTyped
  <2>3. reachable' = reachable /\ assemble_nodes' = assemble_nodes  BY <2>1, SameNodes
  <2>4. Torn'  BY <2>1, <2>3 DEF Inv, Torn
  <2>5. Undisturbed' /\ QuietRecoverIsAtomic'  BY <2>1 DEF Undisturbed, QuietRecoverIsAtomic
  <2>6. QED  BY <1>1, <2>2, <2>4, <2>5 DEF Inv
<1>4. CASE \E tag \in Tag : StartRecover(tag)
  <2>1. PICK tag \in Tag : StartRecover(tag)  BY <1>4
  <2>2. step = "idle" /\ step' = "payload" /\ UNCHANGED outcome  BY <2>1 DEF StartRecover
  <2>3. rec' \in Reads
    <3>1. NoSecret \in StoredSecret  BY DEF NoSecret, Sealed, StoredSecret, Tags
    <3>2. NoRead \in Reads  BY <3>1 DEF NoRead, Reads, Tags, Endpoint
    <3>3. QED  BY <2>1, <3>2 DEF StartRecover, Reads, Tags
  <2>4. outcome' = "none"  BY <2>2 DEF Inv, ReadsTyped
  <2>5. QED
    BY <1>1, <2>2, <2>3, <2>4 DEF Inv, ReadsTyped, Torn, Undisturbed, QuietRecoverIsAtomic
<1>5. CASE UNCHANGED <<blocks, changes, step, rec, outcome, quiet>>
  <2>1. reachable' = reachable /\ assemble_nodes' = assemble_nodes  BY <1>5, SameNodes
  <2>2. best' = best /\ finalized' = finalized  BY <1>5 DEF best, finalized
  <2>3. ReadsTyped'  BY <1>5 DEF Inv, ReadsTyped
  <2>4. Torn'  BY <1>5, <2>1 DEF Inv, Torn
  <2>5. Undisturbed'  BY <1>5, <2>1, <2>2 DEF Inv, Undisturbed
  <2>6. QuietRecoverIsAtomic'  BY <1>5, <2>2 DEF Inv, QuietRecoverIsAtomic
  <2>7. QED  BY <1>1, <2>3, <2>4, <2>5, <2>6 DEF Inv
<1>6. QED  BY <1>2, <1>3, <1>4, <1>5, StepsOfASession

LEMMA Invariance == Spec => []Inv
  BY InvInit, InvNext, PTL DEF Spec

\* Secrets::recover, its reads one RPC after another while blocks are made,
\* retracted and finalized: the nodes contacted are members of the committee
\* that sealed the secret read, listed once each by DKG index, reachable, with
\* their commitments read, and never fewer than the threshold read.
THEOREM NodesOfTheSealingCommittee == Spec => []ContactsTheSealingCommittee
<1>1. Inv => ContactsTheSealingCommittee
  <2>1. SUFFICES ASSUME Inv, step \in {"head", "decrypt"} \/ outcome = "Recovered"
                 PROVE  ContactsTheSealingCommittee
    BY DEF ContactsTheSealingCommittee
  <2>2. /\ rec.committee = Committee[rec.epoch] /\ rec.threshold \in {0, Quorum[rec.epoch]}
        /\ reachable \subseteq rec.commitments
        /\ rec.nodes = assemble_nodes /\ Len(rec.nodes) >= rec.threshold
        /\ (outcome = "Recovered" => rec.threshold # 0)
    BY <2>1 DEF Inv, Torn
  <2>3. rec.committee \in SUBSET Member  BY <2>1 DEF Inv, ReadsTyped, Reads
  <2> DEFINE n == Cardinality(reachable)
  <2>4. /\ n \in Nat /\ rec.nodes \in [1..n -> reachable]
        /\ \A i, j \in 1..n : i < j => rec.nodes[i] < rec.nodes[j]
    BY <2>2, <2>3, NodesAscend, FS_CardinalityType
  <2> HIDE DEF n
  <2>5. ASSUME NEW i \in DOMAIN rec.nodes
        PROVE  /\ rec.nodes[i] \in Committee[rec.epoch] \cap rec.commitments
               /\ rec.registry[rec.nodes[i]] = "http"
               /\ \A j \in 1..(i - 1) : rec.nodes[j] < rec.nodes[i]
    <3>1. i \in 1..n /\ rec.nodes[i] \in reachable  BY <2>4
    <3>2. \A j \in 1..(i - 1) : j \in 1..n /\ j < i  BY <2>4, <3>1
    <3>3. QED  BY <2>2, <2>4, <3>1, <3>2 DEF reachable, parse_endpoint
  <2>6. QED  BY <2>2, <2>5 DEF ContactsTheSealingCommittee
<1>2. QED  BY <1>1, Invariance, PTL

\* A recover during which the chain stands still and no request fails ends as
\* if it had read the state in one piece, although it reads it piece by piece.
THEOREM QuietRecoversAreAtomic == Spec => []QuietRecoverIsAtomic
<1>1. Inv => QuietRecoverIsAtomic  BY DEF Inv
<1>2. QED  BY <1>1, Invariance, PTL
=============================================================================
