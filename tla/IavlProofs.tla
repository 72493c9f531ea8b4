----------------------------- MODULE IavlProofs -----------------------------
(***************************************************************************)
(* Chained ICS23 proofs of a contract's store: how the fixture generator   *)
(* (tools/cometbls-fixtures) builds an IAVL tree over a set of entries and *)
(* proofs of them, and how the CometBLS client verifies such proofs        *)
(* (lightclient/cometbls, on top of the ICS23 library).                    *)
(*                                                                         *)
(* SHA-256 is a free constructor, protobuf messages are records, and the   *)
(* length prefixes that keep the parts of a preimage apart are implied by  *)
(* its being a sequence.  Keys are naturals in the order of their bytes;   *)
(* every part of a preimage is a record, so that parts can be compared.    *)
(***************************************************************************)
EXTENDS Integers, Sequences, SequencesExt

Num(n) == [num |-> n]

\* No proof, no fixture.
NoProof == [kind |-> "none"]

Sha(preimage) == [sha |-> preimage]

-----------------------------------------------------------------------------
(* The generator.                                                          *)

\* The key of a contract's entry: 0x03, the contract's address, 0x00 and the
\* key, so keys of one contract compare as what follows the prefix.
wasmContractStoreKey(key) == [contract |-> key]

storeKey == [store |-> "wasm"]

iavlInnerPrefix(height, size) == <<Num(height), Num(size), Num(1)>>

iavlLeafPrefix == iavlInnerPrefix(0, 1)

tmLeafPrefix == <<Num(0)>>

applyLeaf(prefix, key, value) == Sha(prefix \o <<key, Sha(<<value>>)>>)

applyInner(prefix, left, right) == Sha(prefix \o <<left, right>>)

encodeExistenceProof(key, value, leaf, innerOps) ==
    [kind |-> "exist", key |-> key, value |-> value, leaf |-> leaf,
     path |-> innerOps]

encodeInnerOp(prefix, suffix) == [prefix |-> prefix, suffix |-> suffix]

encodeNonExistenceProof(key, left, right) ==
    [kind |-> "nonexist", key |-> key, left |-> left, right |-> right]

\* The operation that leads a leaf of one child to the hash of the two.
WithOp(leaves, op) ==
    [i \in DOMAIN leaves |-> [leaves[i] EXCEPT !.proof = Append(@, op)]]

combineIavlNodes(left, right) ==
    LET height == 1 + (IF left.height > right.height THEN left.height
                       ELSE right.height)
        size == left.size + right.size
        prefix == iavlInnerPrefix(height, size)
        leftOp == encodeInnerOp(prefix, <<right.hash>>)
        rightOp == encodeInnerOp(Append(prefix, left.hash), <<>>)
    IN [hash |-> applyInner(prefix, left.hash, right.hash),
        height |-> height,
        size |-> size,
        leaves |-> WithOp(left.leaves, leftOp) \o WithOp(right.leaves, rightOp)]

\* One round of pairing neighbours; an odd node out waits for the next round.
Paired(nodes) ==
    [i \in 1..((Len(nodes) + 1) \div 2) |->
        IF 2 * i - 1 = Len(nodes) THEN nodes[2 * i - 1]
        ELSE combineIavlNodes(nodes[2 * i - 1], nodes[2 * i])]

buildIavlRoot(leaves) ==
    LET round[n \in Nat] ==
          IF n = 0
          THEN [i \in DOMAIN leaves |->
                  [hash |-> leaves[i].hash, height |-> 0, size |-> 1,
                   leaves |-> <<leaves[i]>>]]
          ELSE Paired(round[n - 1])
    IN round[Len(leaves)][1]

encodeIavlExistenceProof(leaf) ==
    encodeExistenceProof(wasmContractStoreKey(leaf.input.key), leaf.input.value,
                         iavlLeafPrefix, leaf.proof)

\* Mutant: the right neighbour is the last leaf instead of the next one.
LooseNeighbors(leaves, key) ==
    LET proofs(ls) == [i \in DOMAIN ls |-> encodeIavlExistenceProof(ls[i])]
        below == proofs(SelectSeq(leaves, LAMBDA l : l.input.key < key))
        above == proofs(SelectSeq(leaves, LAMBDA l : l.input.key > key))
    IN [left |-> IF below = <<>> THEN NoProof ELSE Last(below),
        right |-> IF above = <<>> THEN NoProof ELSE Last(above)]

\* The last leaf below the key and the first one above it.  The generator
\* panics for a key that is a leaf's.
nonMembershipNeighbors(leaves, key) ==
    LET proofs(ls) == [i \in DOMAIN ls |-> encodeIavlExistenceProof(ls[i])]
        below == proofs(SelectSeq(leaves, LAMBDA l : l.input.key < key))
        above == proofs(SelectSeq(leaves, LAMBDA l : l.input.key > key))
    IN [left |-> IF below = <<>> THEN NoProof ELSE Last(below),
        right |-> IF above = <<>> THEN NoProof ELSE Head(above)]

\* An entry of a fixture set; nonMembershipKey 0 is none.
Entry(key, value) == [key |-> key, value |-> value, nonMembershipKey |-> 0]

SortedLeaves(inputs) ==
    SortSeq([i \in DOMAIN inputs |->
               [input |-> inputs[i], inputIdx |-> i, proof |-> <<>>,
                hash |-> applyLeaf(iavlLeafPrefix,
                                   wasmContractStoreKey(inputs[i].key),
                                   inputs[i].value)]],
            LAMBDA a, b : a.input.key < b.input.key)

\* The fixtures of a set of entries, in the order of the entries: the roots,
\* the membership proof of the entry, and the non-membership proof asked for.
makeFixtureSet(inputs) ==
    LET root == buildIavlRoot(SortedLeaves(inputs))
        appRoot == applyLeaf(tmLeafPrefix, storeKey, root.hash)
        tmExist == encodeExistenceProof(storeKey, root.hash, tmLeafPrefix, <<>>)
        absent(key) ==
            LET near == nonMembershipNeighbors(root.leaves, key)
            IN <<encodeNonExistenceProof(Num(key), near.left, near.right), tmExist>>
        fixture(leaf) ==
            [input |-> leaf.input,
             subroot |-> root.hash,
             appRoot |-> appRoot,
             proofBz |-> <<encodeIavlExistenceProof(leaf), tmExist>>,
             nonMembershipProof |->
                 IF leaf.input.nonMembershipKey = 0 THEN <<>>
                 ELSE absent(leaf.input.nonMembershipKey)]
    IN [i \in DOMAIN inputs |->
          fixture(CHOOSE leaf \in ToSet(root.leaves) : leaf.inputIdx = i)]

\* The generator gives up when a key that is to be absent is an entry.
Generates(inputs) ==
    \A i, j \in DOMAIN inputs : inputs[i].nonMembershipKey # inputs[j].key

-----------------------------------------------------------------------------
(* The generator's entries.  The keys are numbered in the order of their   *)
(* bytes; connection, channel and packet keys are commitment paths.        *)

ConnectionTry == 1
MissingCallPacket == 2
AckPath == 3
PanicBatchPacket == 4
MixedBatchPacket == 5
ChannelState == 6
ConnectionState == 7
PacketKey == 8
PacketKeyMissing == 9
NeighborAnchor == 10
ChannelTry == 11
PacketCommitment == 12
CallPacket == 13

\* A committed value: of a connection or channel end, of a sent packet (the
\* magic), of an acknowledgement, or the test's own.
Committed(what) == [committed |-> what]

baseFixtures == <<
    [Entry(PacketKey, Committed("packet")) EXCEPT !.nonMembershipKey = PacketKeyMissing],
    Entry(ConnectionState, Committed("connection")),
    Entry(ChannelState, Committed("channel"))>>

z35Fixtures == <<
    Entry(ConnectionTry, Committed("connection try")),
    Entry(ChannelTry, Committed("channel try")),
    Entry(PacketCommitment, Committed("magic")),
    Entry(AckPath, Committed("ack")),
    Entry(CallPacket, Committed("magic")),
    Entry(MissingCallPacket, Committed("magic")),
    Entry(MixedBatchPacket, Committed("magic")),
    Entry(PanicBatchPacket, Committed("magic"))>>

\* The receipt that is absent here is the acknowledgement of z35Fixtures: the
\* two share a path.
z37Fixtures == <<
    Entry(ConnectionTry, Committed("connection try")),
    Entry(ChannelTry, Committed("channel try")),
    [Entry(NeighborAnchor, Committed("anchor")) EXCEPT !.nonMembershipKey = AckPath]>>

z42WrongVersionFixtures == <<
    Entry(ConnectionTry, Committed("connection try")),
    Entry(ChannelTry, Committed("channel try of another version"))>>

z42StaleFixtures == <<
    Entry(ConnectionTry, Committed("connection try")),
    Entry(ChannelTry, Committed("stale channel try"))>>

-----------------------------------------------------------------------------
(* The ICS23 library (external).                                           *)

\* The root an existence proof leads to.
Calculate(exist) ==
    FoldLeft(LAMBDA hash, op : Sha(op.prefix \o <<hash>> \o op.suffix),
             applyLeaf(exist.leaf, exist.key, exist.value), exist.path)

\* Leaves and inner nodes are told apart by the first byte of their prefix.
CheckAgainstSpec(exist) ==
    /\ exist.leaf # <<>> /\ Head(exist.leaf) = Num(0)
    /\ \A i \in DOMAIN exist.path : Head(exist.path[i].prefix) # Num(0)

VerifyExistence(exist, root, key, value) ==
    /\ exist.kind = "exist"
    /\ CheckAgainstSpec(exist)
    /\ exist.key = key /\ exist.value = value
    /\ Calculate(exist) = root

IsLeftChild(op) == op.suffix # <<>>

IsLeftMost(path) == \A i \in DOMAIN path : IsLeftChild(path[i])

IsRightMost(path) == \A i \in DOMAIN path : ~IsLeftChild(path[i])

\* Up from the leaves, the paths run along the inner edges of two subtrees
\* that are the children of one node, and are the same from there on.
IsLeftNeighbor(left, right) ==
    \E l \in DOMAIN left, r \in DOMAIN right :
        /\ SubSeq(left, l + 1, Len(left)) = SubSeq(right, r + 1, Len(right))
        /\ IsLeftChild(left[l]) /\ ~IsLeftChild(right[r])
        /\ IsRightMost(SubSeq(left, 1, l - 1))
        /\ IsLeftMost(SubSeq(right, 1, r - 1))

VerifyNonExistence(nonexist, root, key) ==
    LET left == nonexist.left
        right == nonexist.right
    IN /\ left # NoProof =>
             /\ VerifyExistence(left, root, left.key, left.value)
             /\ left.key.contract < key.contract
       /\ right # NoProof =>
             /\ VerifyExistence(right, root, right.key, right.value)
             /\ key.contract < right.key.contract
       /\ \/ left = NoProof /\ right # NoProof /\ IsLeftMost(right.path)
          \/ left # NoProof /\ right = NoProof /\ IsRightMost(left.path)
          \/ /\ left # NoProof /\ right # NoProof
             /\ IsLeftNeighbor(left.path, right.path)

-----------------------------------------------------------------------------
(* The client's side.                                                      *)

\* verifyChainedMembershipProof from the second proof on: the store's root is
\* committed in the application's root.
ChainsToRoot(root, proofs, subroot) ==
    VerifyExistence(proofs[2], root, storeKey, subroot)

\* VerifyMembership below the checks of the height.
VerifyMembershipProof(root, key, proofs, value) ==
    /\ Len(proofs) = 2
    /\ proofs[1].kind = "exist"
    /\ VerifyExistence(proofs[1], Calculate(proofs[1]),
                       wasmContractStoreKey(key), value)
    /\ ChainsToRoot(root, proofs, Calculate(proofs[1]))

\* VerifyNonMembership below the checks of the height: the root is the one
\* its neighbours lead to.
VerifyNonMembershipProof(root, key, proofs) ==
    /\ Len(proofs) = 2
    /\ proofs[1].kind = "nonexist"
    /\ proofs[1].left # NoProof \/ proofs[1].right # NoProof
    /\ LET subroot == Calculate(IF proofs[1].left # NoProof THEN proofs[1].left
                                ELSE proofs[1].right)
       IN /\ VerifyNonExistence(proofs[1], subroot, wasmContractStoreKey(key))
          /\ ChainsToRoot(root, proofs, subroot)

=============================================================================
