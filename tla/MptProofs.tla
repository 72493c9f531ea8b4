----------------------------- MODULE MptProofs ------------------------------
(***************************************************************************)
(* Ethereum storage proofs: the Merkle-Patricia trie verifier              *)
(* (p/onbloc/verifier/evm/mpt and storage) and the two generators of its   *)
(* fixtures (tools/gen-ethereum-storage-proof-fixture and                  *)
(* tools/gen-ethereum-embedded-node-proof-fixture).                        *)
(*                                                                         *)
(* Keccak of a node is a free constructor.  A node is referenced by its    *)
(* hash when its encoding is at least as long as a hash, and embedded in   *)
(* its parent otherwise; lengths are counted as RLP does.  Width is 16 and *)
(* InlineLimit 32 in the code; smaller ones give the same shapes from      *)
(* shorter keys.                                                           *)
(***************************************************************************)
EXTENDS Integers, Sequences, FiniteSets, SequencesExt

CONSTANTS
    Width,         \* children of a branch
    InlineLimit,   \* length of a hash
    Keccak         \* Keccak[slot]: the bytes of the path of a storage slot

Nibbles == 0..(Width - 1)

\* The terminator of a path that ends in a value.
Term == Width

ASSUME TrieAssumption ==
    /\ Width \in Nat /\ Width >= 4
    /\ InlineLimit \in Nat \ {0}
    /\ \A slot \in DOMAIN Keccak : Keccak[slot] \in Seq(0..(Width * Width - 1))

-----------------------------------------------------------------------------
(* Paths.                                                                  *)

keybytesToHex(str) ==
    Append([i \in 1..(2 * Len(str)) |->
              IF i % 2 = 1 THEN str[(i + 1) \div 2] \div Width
              ELSE str[i \div 2] % Width],
           Term)

hasTerm(s) == s # <<>> /\ Last(s) = Term

compactToHex(compact) ==
    LET base == keybytesToHex(compact)
        flagged == IF base[1] < 2 THEN Front(base) ELSE base
    IN IF compact = <<>> THEN <<>>
       ELSE SubSeq(flagged, 3 - (base[1] % 2), Len(flagged))

\* What go-ethereum encodes: the flag, a padding nibble if the length is
\* even, the nibbles.
hexToCompact(hex) ==
    LET nibbles == IF hasTerm(hex) THEN Front(hex) ELSE hex
        flag == (IF hasTerm(hex) THEN 2 ELSE 0) + (Len(nibbles) % 2)
        all == (IF flag % 2 = 1 THEN <<flag>> ELSE <<flag, 0>>) \o nibbles
    IN [i \in 1..(Len(all) \div 2) |-> all[2 * i - 1] * Width + all[2 * i]]

-----------------------------------------------------------------------------
(* The trie of a store, as go-ethereum builds it (external): a function    *)
(* from the byte strings that are keys to words.                           *)

Empty == [rlp |-> "empty"]

Data(word) == [rlp |-> "data", word |-> word]

Hash(encoded) == [rlp |-> "hash", of |-> encoded]

\* Length of a string of n bytes, and of a word without its leading zeros.
StringLen(n) == IF n <= 1 THEN 1 ELSE n + 1

WordLen(word) ==
    CHOOSE n \in 0..32 : /\ word < (Width * Width) ^ n
                         /\ n = 0 \/ word >= (Width * Width) ^ (n - 1)

\* A node in its parent.
Ref(node) ==
    IF node.len < InlineLimit THEN node
    ELSE [enc |-> Hash(node.enc), len |-> InlineLimit + 1]

Short(key, child) ==
    LET kbuf == hexToCompact(key)
    IN [enc |-> [rlp |-> "short", kbuf |-> kbuf, val |-> child.enc],
        len |-> 1 + StringLen(Len(kbuf)) + child.len]

\* The node under which the keys that start with p are, for every p.
Trie(store) ==
    LET hex == {Front(keybytesToHex(k)) : k \in DOMAIN store}
        value(h) == store[CHOOSE k \in DOMAIN store : Front(keybytesToHex(k)) = h]
        under(p) == {h \in hex : IsPrefix(p, h)}
        rest(h, p) == SubSeq(h, Len(p) + 1, Len(h))
        leaf(h, p) ==
            Short(Append(rest(h, p), Term),
                  [enc |-> Data(value(h)),
                   len |-> StringLen(StringLen(WordLen(value(h))))])
        branch(children) ==
            [enc |-> [rlp |-> "full",
                      items |-> [n \in 0..Width |->
                                   IF n = Width THEN Empty ELSE children[n].enc]],
             len |-> 2 + FoldFunction(LAMBDA a, b : a + b, 0,
                                      [n \in Nibbles |-> children[n].len])]
        node[p \in Seq(Nibbles)] ==
            LET below == under(p)
                common == LongestCommonPrefix(below)
            IN IF Cardinality(below) = 1
               THEN leaf(CHOOSE h \in below : TRUE, p)
               ELSE IF common # p
               THEN Short(rest(common, p), Ref(node[common]))
               ELSE branch([n \in Nibbles |->
                              IF under(Append(p, n)) = {}
                              THEN [enc |-> Empty, len |-> 1]
                              ELSE Ref(node[Append(p, n)])])
    IN node

\* EmptyRoot is the hash of an empty string.
EmptyRoot == Hash(Empty)

Root(store) ==
    IF store = <<>> \/ DOMAIN store = {} THEN EmptyRoot
    ELSE Hash(Trie(store)[<<>>].enc)

-----------------------------------------------------------------------------
(* The verifier.                                                           *)

\* decodeNode of an encoded node; a child stays encoded until it is visited.
decodeNode(encoded) ==
    IF encoded.rlp = "short"
    THEN [node |-> "short", key |-> compactToHex(encoded.kbuf), val |-> encoded.val]
    ELSE [node |-> "full", children |-> encoded.items]

\* The kind of a child: a list is an embedded node, other items are a hash,
\* a value or nothing (decodeRef and the value cases of its callers).
IsEmbedded(item) == item.rlp \in {"short", "full"}

\* One turn of the loop in get.
Descend(at) ==
    IF ~IsEmbedded(at.item) THEN at
    ELSE LET n == decodeNode(at.item) IN
         IF n.node = "full"
         THEN [item |-> n.children[Head(at.key)], key |-> Tail(at.key)]
         ELSE IF Len(at.key) < Len(n.key) \/ ~IsPrefix(n.key, at.key)
         THEN [item |-> Empty, key |-> <<>>]
         ELSE [item |-> n.val, key |-> SubSeq(at.key, Len(n.key) + 1, Len(at.key))]

\* The first hash, value or gap on the way of key below the node; every turn
\* but the last consumes a nibble.
get(encoded, key) ==
    LET turn[i \in Nat] == IF i = 0 THEN [item |-> encoded, key |-> key]
                           ELSE Descend(turn[i - 1])
    IN turn[Len(key) + 1]

\* The hashes verifyProof asks for, from the root on: hop i is where it is
\* after i of them, stuck when one of them is not among the proof's nodes.
Hops(root, key, nodes) ==
    LET hop[i \in Nat] ==
          IF i = 0 THEN [item |-> root, key |-> keybytesToHex(key)]
          ELSE LET at == hop[i - 1] IN
               IF at.item.rlp # "hash" \/ at.item.of \notin nodes THEN at
               ELSE get(at.item.of, at.key)
    IN hop

\* Where the walk ends: a value, nothing, or a hash that is missing.
verifyProof(root, key, nodes) ==
    Hops(root, key, nodes)[2 * Len(key) + 1].item

\* Mutant: a missing node is taken for a gap.
VerifyAbsenceLoosely(root, key, nodes) ==
    \/ root = EmptyRoot
    \/ verifyProof(root, key, nodes).rlp \in {"empty", "hash"}

Verify(root, key, word, nodes) ==
    /\ root # EmptyRoot
    /\ verifyProof(root, key, nodes) = Data(word)

VerifyAbsence(root, key, nodes) ==
    \/ root = EmptyRoot
    \/ verifyProof(root, key, nodes) = Empty

\* storage.VerifyProof and storage.VerifyAbsence: the path of a slot is its
\* hash.  The leaf holds the word without its leading zeros, so equal leaves
\* hold equal words.
VerifyStorageProof(root, proof) == Verify(root, Keccak[proof.key], proof.value, proof.nodes)

VerifyStorageAbsence(root, proof) == VerifyAbsence(root, Keccak[proof.key], proof.nodes)

-----------------------------------------------------------------------------
(* The generators.                                                         *)

\* trie.Prove (external): the nodes with a hash on the way of the key.
Prove(store, key) ==
    LET paths == UNION {{SubSeq(h, 1, n) : n \in 0..Len(h)} :
                           h \in {Front(keybytesToHex(k)) : k \in DOMAIN store}}
        all == {Trie(store)[p].enc : p \in paths}
        hop == Hops(Root(store), key, all)
    IN {hop[i].item.of : i \in {j \in 0..(2 * Len(key)) : hop[j].item.rlp = "hash"}}

\* The hashes among the items of a node, in their order.
HashedItems(encoded) ==
    LET items == IF encoded.rlp = "short" THEN <<encoded.val>>
                 ELSE [i \in 1..Width |-> encoded.items[i - 1]]
    IN SelectSeq(items, LAMBDA item : item.rlp = "hash")

\* The children that may come next; the generator panics if there are two.
nextHashedChild(encoded, nodes, seen) ==
    SelectSeq(HashedItems(encoded),
              LAMBDA item : item.of \in nodes /\ item.of \notin seen)

\* The nodes of a proof from the root down.  No result if the way forks or
\* if some node is not on it.
orderProof(root, nodes) ==
    LET step[i \in Nat] ==
          IF i = 0 THEN [ordered |-> <<>>, next |-> <<root>>]
          ELSE LET s == step[i - 1] IN
               IF Len(s.next) # 1 \/ Head(s.next).of \notin nodes THEN s
               ELSE LET n == Head(s.next).of
                        ordered == Append(s.ordered, n)
                    IN [ordered |-> ordered,
                        next |-> nextHashedChild(n, nodes, ToSet(ordered))]
        end == step[Cardinality(nodes) + 1]
    IN IF Len(end.next) > 1 \/ Len(end.ordered) # Cardinality(nodes)
       THEN <<>> ELSE end.ordered

\* Slots: a number, and the slot of a commitment, which is the entry of its
\* path in the mapping at slot 0.
wordFromUint64(v) == [slot |-> "number", of |-> v]

ibcCommitmentKey(path) == [slot |-> "mapping", of |-> path]

\* A contract's storage: the words of some slots, by the paths of the slots.
Storage(words) ==
    [path \in {Keccak[slot] : slot \in DOMAIN words} |->
        words[CHOOSE slot \in DOMAIN words : Keccak[slot] = path]]

\* What the first generator stores and proves: three slots, one of which is
\* proved, and a slot that is absent.  The second word stands for one that is
\* beyond TLC's integers.
storageSlots ==
    [slot \in {wordFromUint64(1), wordFromUint64(2), wordFromUint64(3)} |->
        CASE slot.of = 1 -> 4660 [] slot.of = 2 -> 246267631 [] slot.of = 3 -> 128]

\* The value of a fixture of a key that is absent; no stored word is zero.
Absent == 0

storageFixtures ==
    LET root == Root(Storage(storageSlots))
        proof(slot) == Prove(Storage(storageSlots), Keccak[slot])
        fixture(slot, word) ==
            [root |-> root, key |-> slot, value |-> word, nodes |-> proof(slot),
             ordered |-> orderProof(root, proof(slot))]
    IN {fixture(wordFromUint64(2), storageSlots[wordFromUint64(2)]),
        fixture(wordFromUint64(4), Absent)}

\* What the second generator proves: of three keys that differ in the first
\* nibble of their last byte, so that all but the root is embedded, one and a
\* missing one.
embeddedFixtures ==
    LET prefix == <<Width + 1>>
        key(n) == Append(prefix, n * Width)
        store == [k \in {key(0), key(1), key(2)} |-> 1 + (Last(k) \div Width)]
        fixture(k, word) ==
            [root |-> Root(store), key |-> k, value |-> word, nodes |-> Prove(store, k)]
    IN {fixture(key(0), 1), fixture(key(3), Absent)}

=============================================================================
