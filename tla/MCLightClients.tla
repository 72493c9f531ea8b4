--------------------------- MODULE MCLightClients ---------------------------
EXTENDS LightClients, TLC

\* Paths of slots, of two bytes of four bits each.  The slots of commitments
\* 1 and 2 lie below one byte, so that their leaves share a branch, and the
\* rest of the paths of 3 and 1 is the same.
Paths ==
    [slot \in {wordFromUint64(n) : n \in 1..4} \cup {ibcCommitmentKey(p) : p \in 1..4} |->
        IF slot.slot = "number" THEN <<2 + slot.of, 9>>
        ELSE CASE slot.of = 1 -> <<1, 5>> [] slot.of = 2 -> <<1, 6>>
               [] slot.of = 3 -> <<10, 5>> [] slot.of = 4 -> <<1, 9>>]

Short1 == 1
Long == 20000000

\* L2: the generator's slots; two commitments more; and, beside the chain, a
\* state at the height of the second with other commitments.
Commits(words) ==
    [slot \in DOMAIN storageSlots \cup {ibcCommitmentKey(p) : p \in DOMAIN words} |->
        IF slot.slot = "number" THEN storageSlots[slot] ELSE words[slot.of]]

MCL2Blocks ==
    "E1" :> [height |-> 1, words |-> storageSlots]
    @@ "E2" :> [height |-> 2, words |-> Commits(1 :> Long @@ 2 :> Short1)]
    @@ "X2" :> [height |-> 2, words |-> Commits(1 :> Short1 @@ 3 :> Long)]

Consensus(height, name) == Entry(ConsensusStatePath(height), Committed(name))

Block(height, time, by, next, signers, entries) ==
    [height |-> height, time |-> time, validatorsHash |-> by,
     nextValidatorsHash |-> next, signers |-> signers, entries |-> entries]

\* L1: the validators change after block 2 and overlap.  Beside the chain, the
\* first validators sign blocks 3 and 4 again: one that commits other L2
\* states, and one of the same store that claims the time of block 3.
MCBlocks ==
    "B1" :> Block(1, 1, "v1", "v1", {"v1"}, baseFixtures)
    @@ "B2" :> Block(2, 2, "v1", "v2", {"v1"}, z35Fixtures)
    @@ "B3" :> Block(3, 3, "v2", "v2", {"v1", "v2"},
                     z37Fixtures \o <<Consensus(1, "E1")>>)
    @@ "B4" :> Block(4, 4, "v2", "v2", {"v1", "v2"},
                     z42StaleFixtures \o <<Consensus(2, "E2"), Consensus(1, "E1")>>)
    @@ "F3" :> Block(3, 3, "v1", "v1", {"v1"},
                     z42WrongVersionFixtures \o <<Consensus(2, "X2")>>)
    @@ "F4" :> Block(4, 3, "v2", "v2", {"v1"},
                     z42StaleFixtures \o <<Consensus(2, "E2"), Consensus(1, "E1")>>)

OneEach == [type \in ClientTypes |-> 1]

FirstOnly == <<1, 0>>

MCReal == {"B1", "B2", "B3", "B4", "E1", "E2"}

=============================================================================
