---------------------------- MODULE LightClients ----------------------------
(***************************************************************************)
(* The light clients the core keeps: their registration, creation, update, *)
(* forced update and freezing (core/v1/client.gno), the CometBLS client    *)
(* (lightclient/cometbls) that follows a chain by its signed headers, and  *)
(* the state lens client (lightclient/state_lens/ics23_mpt) that follows a *)
(* second chain by what the first one commits of it.                       *)
(*                                                                         *)
(* A signed header of the first chain (L1) and a consensus state of the    *)
(* second (L2) are named; Blocks and L2Blocks say what they contain.  Some *)
(* of them are not the chains' own: blocks that a set of validators signed *)
(* beside the chain.  A client's consensus state is the name of the block  *)
(* it was taken from, which stands for its time, root and next validators. *)
(***************************************************************************)
EXTENDS IavlProofs, MptProofs, Tables

CONSTANTS
    Blocks,         \* L1 headers: height, time, validatorsHash,
                    \* nextValidatorsHash, signers, entries
    L2Blocks,       \* L2 consensus states: height, words
    Real,           \* the names of the blocks of the two chains
    TrustingPeriod,
    MaxClockDrift,
    MaxTime,        \* bound on the host's time
    MaxClients,     \* bound on the clients of each type
    MaxForces       \* bound on the forced updates of each client id

ClientTypes == {"cometbls", "state-lens/ics23/mpt"}
Lens == "state-lens/ics23/mpt"

\* As ClientState.Validate requires of the client states that are submitted.
ASSUME ClientsAssumption ==
    /\ TrustingPeriod \in Nat \ {0} /\ MaxClockDrift \in Nat \ {0}
    /\ MaxTime \in Nat
    /\ MaxClients \in [ClientTypes -> Nat]
    /\ \A i \in DOMAIN MaxForces : MaxForces[i] \in Nat
    /\ \A b \in DOMAIN Blocks :
          /\ Blocks[b].height \in Nat \ {0} /\ Blocks[b].time \in Nat
          /\ Generates(Blocks[b].entries)
    /\ \A b \in DOMAIN L2Blocks : L2Blocks[b].height \in Nat \ {0}
    /\ Real \subseteq DOMAIN Blocks \cup DOMAIN L2Blocks

VARIABLES
    now,        \* the host's block time
    registry,   \* the client types that have an implementation
    clients,    \* the light client objects, by client id
    stored,     \* what the core stores and commits of each: state, cons
    past        \* history, by client id: the trusted height of every update
                \* (from), forced updates (forces), an accepted fork (forked)

vars == <<now, registry, clients, stored, past>>

-----------------------------------------------------------------------------
(* What the blocks commit, and proofs of it.                               *)

\* The path of a consensus state of the second chain, after all keys of the
\* fixtures.
ConsensusStatePath(height) == CallPacket + height

Fixtures == [b \in DOMAIN Blocks |-> makeFixtureSet(Blocks[b].entries)]

AppHash == [b \in DOMAIN Blocks |-> Fixtures[b][1].appRoot]

\* The proof of a key in a block; the empty sequence if it has none.
ProofOf(b, key) ==
    LET found == SelectSeq(Fixtures[b], LAMBDA f : f.input.key = key)
    IN IF found = <<>> THEN <<>> ELSE Head(found).proofBz

StorageRoot == [e \in DOMAIN L2Blocks |-> Root(Storage(L2Blocks[e].words))]

-----------------------------------------------------------------------------
(* The CometBLS client.                                                    *)

ClientState(c) == [latest |-> c.latest, frozen |-> c.frozen, l1 |-> c.l1]

\* A client made from the client and consensus state that are submitted.
NewLightClient(type, name, height, l1) ==
    [type |-> type, l1 |-> l1, latest |-> height, frozen |-> FALSE,
     cons |-> Single(height, name)]

hasConsensusState(c, height) == height \in DOMAIN c.cons

isClientExpiredAt(timestamp) == timestamp + TrustingPeriod < now

\* The proof a header carries: of the signatures of the validators with the
\* hash (external).
VerifyZKP(hash, block) == hash \in block.signers

\* The chain: one block at each height, each later than the ones before it, by
\* the validators that the block before it announces.
ASSUME ChainAssumption ==
    \A a, b \in Real \cap DOMAIN Blocks :
        /\ Blocks[a].height = Blocks[b].height => a = b
        /\ Blocks[a].height < Blocks[b].height =>
              /\ Blocks[a].time < Blocks[b].time
              /\ Blocks[b].height = Blocks[a].height + 1 =>
                    Blocks[b].validatorsHash = Blocks[a].nextValidatorsHash

\* header: the name of a block and the height it is verified from.
verifyHeader(c, header) ==
    LET block == Blocks[header.block]
        trusted == Blocks[c.cons[header.trusted]]
    IN /\ block.height > header.trusted
       /\ block.time > trusted.time
       /\ ~isClientExpiredAt(trusted.time)
       /\ block.time < now + MaxClockDrift
       /\ block.height = header.trusted + 1 =>
             block.validatorsHash = trusted.nextValidatorsHash
       /\ VerifyZKP(trusted.nextValidatorsHash, block)

\* A header of a known height is not looked at any further.
CometblsVerifyHeader(c, header) ==
    /\ hasConsensusState(c, header.trusted)
    /\ \/ hasConsensusState(c, Blocks[header.block].height)
       \/ verifyHeader(c, header)

updateState(c, height, name) ==
    [c EXCEPT !.cons = Put(@, height, name),
              !.latest = IF height > @ THEN height ELSE @]

CometblsUpdate(c, header) ==
    LET height == Blocks[header.block].height
    IN IF hasConsensusState(c, height) THEN c
       ELSE updateState(c, height, header.block)

\* The same header is carried by one signed block only, so names tell
\* signed headers apart.
signedHeadersEqual(a, b) == a.block = b.block

\* Mutant: only headers of one height can conflict, and only by their roots.
SameHeightPair(a, b) ==
    /\ Blocks[a.block].height = Blocks[b.block].height
    /\ AppHash[a.block] # AppHash[b.block]

isMisbehaviourPair(a, b) ==
    IF Blocks[a.block].height = Blocks[b.block].height
    THEN ~signedHeadersEqual(a, b)
    ELSE Blocks[a.block].time <= Blocks[b.block].time

verifyMisbehaviourHeader(c, header) ==
    /\ hasConsensusState(c, header.trusted)
    /\ verifyHeader(c, header)

verifyMisbehaviour(c, a, b) ==
    /\ Blocks[a.block].height >= Blocks[b.block].height
    /\ verifyMisbehaviourHeader(c, a)
    /\ verifyMisbehaviourHeader(c, b)
    /\ isMisbehaviourPair(a, b)

\* The heights at which the client verifies proofs.
prepareProof(c, height) == height <= c.latest /\ hasConsensusState(c, height)

CometblsStatus(c) ==
    IF c.frozen THEN "Frozen"
    ELSE IF ~hasConsensusState(c, c.latest) THEN "Expired"
    ELSE IF isClientExpiredAt(Blocks[c.cons[c.latest]].time) THEN "Expired"
    ELSE "Active"

-----------------------------------------------------------------------------
(* The state lens client.                                                  *)

\* Does block b accept, as a membership proof of the L2 consensus state e, the
\* one made from the store of block from?
ConsensusProven ==
    [b \in DOMAIN Blocks, from \in DOMAIN Blocks, e \in DOMAIN L2Blocks |->
        VerifyMembershipProof(AppHash[b], ConsensusStatePath(L2Blocks[e].height),
                              ProofOf(from, ConsensusStatePath(L2Blocks[e].height)),
                              Committed(e))]

\* Mutant: the proof is checked against the root it was made for.
LensVerifyHeaderAnyRoot(c, header) ==
    /\ c.l1 \in DOMAIN clients
    /\ prepareProof(clients[c.l1], header.l1Height)
    /\ ConsensusProven[header.proof, header.proof, header.block]

\* header: the name of an L2 consensus state, the L1 height at which it is
\* proved, and the block from whose store the proof was made.  The status of
\* the L1 client has been checked as that of the lens.
LensVerifyHeader(c, header) ==
    /\ c.l1 \in DOMAIN clients
    /\ prepareProof(clients[c.l1], header.l1Height)
    /\ ConsensusProven[clients[c.l1].cons[header.l1Height], header.proof, header.block]

LensUpdate(c, header) == updateState(c, L2Blocks[header.block].height, header.block)

VerifyCommitmentKey(path, slot) == slot = ibcCommitmentKey(path)

\* At a height that prepareProof admits, with the consensus state there; proof:
\* a slot, its word and the nodes of a storage proof.
LensVerifyMembership(e, path, proof, value) ==
    /\ VerifyCommitmentKey(path, proof.key)
    /\ proof.value = value
    /\ VerifyStorageProof(StorageRoot[e], proof)

LensVerifyNonMembership(e, path, proof) ==
    /\ VerifyCommitmentKey(path, proof.key)
    /\ VerifyStorageAbsence(StorageRoot[e], proof)

-----------------------------------------------------------------------------
(* The core.                                                               *)

\* Mutant: a lens has a status of its own.
StatusOfItsOwn(i) ==
    IF clients[i].type = Lens THEN "Active" ELSE CometblsStatus(clients[i])

Status(i) ==
    IF clients[i].type # Lens THEN CometblsStatus(clients[i])
    ELSE IF clients[i].l1 \in DOMAIN clients THEN CometblsStatus(clients[clients[i].l1])
    ELSE "Frozen"

getActiveClient(i) == i \in DOMAIN clients /\ Status(i) = "Active"

Height(type, name) ==
    IF type = Lens THEN L2Blocks[name].height ELSE Blocks[name].height

\* What the core has stored of a client after it has been made from the
\* submitted states.
initClient(before, c) ==
    [state |-> ClientState(c), cons |-> Put(before, c.latest, c.cons[c.latest])]

RegisterClient(type) ==
    /\ type \notin registry
    /\ registry' = registry \cup {type}
    /\ UNCHANGED <<now, clients, stored, past>>

\* A client is created from a block of its chain.  The L1 client of a lens is
\* a CometBLS client, which may be created later.
CreateClient(type, name, l1) ==
    LET c == NewLightClient(type, name, Height(type, name), l1)
    IN /\ Cardinality({i \in DOMAIN clients : clients[i].type = type}) < MaxClients[type]
       /\ type \in registry
       /\ clients' = Append(clients, c)
       /\ stored' = Append(stored, initClient(<<>>, c))
       /\ past' = Append(past, [from |-> Single(c.latest, 0), forces |-> 0, forked |-> FALSE])
       /\ UNCHANGED <<now, registry>>

UpdateClient(i, header) ==
    LET c == clients[i]
        next == IF c.type = Lens THEN LensUpdate(c, header) ELSE CometblsUpdate(c, header)
        height == Height(c.type, header.block)
    IN /\ getActiveClient(i)
       /\ IF c.type = Lens THEN LensVerifyHeader(c, header)
          ELSE CometblsVerifyHeader(c, header)
       /\ clients' = [clients EXCEPT ![i] = next]
       /\ stored' = [stored EXCEPT
             ![i].state = IF next.latest > c.latest THEN ClientState(next) ELSE @,
             ![i].cons = Put(@, height, next.cons[height])]
       /\ past' = [past EXCEPT
             ![i].from = IF next = c \/ c.type = Lens THEN @
                         ELSE Put(@, height, header.trusted),
             ![i].forked = @ \/ (c.type # Lens /\ next.cons[height] \notin Real)]
       /\ UNCHANGED <<now, registry>>

\* Mutant: the stored state is left as it was.
ForceUpdateClientUnstored(i, name) ==
    LET c == NewLightClient(clients[i].type, name, Height(clients[i].type, name),
                            clients[i].l1)
    IN /\ clients' = [clients EXCEPT ![i] = c]
       /\ past' = [past EXCEPT ![i].from = Single(c.latest, 0), ![i].forces = @ + 1]
       /\ past[i].forces < MaxForces[i]
       /\ UNCHANGED <<now, registry, stored>>

\* Replaces the client by one made from a block of its chain, whatever its
\* status; what the core has stored of other heights stays.
ForceUpdateClient(i, name) ==
    LET c == NewLightClient(clients[i].type, name, Height(clients[i].type, name),
                            clients[i].l1)
    IN /\ clients' = [clients EXCEPT ![i] = c]
       /\ stored' = [stored EXCEPT ![i] = initClient(@.cons, c)]
       /\ past' = [past EXCEPT ![i].from = Single(c.latest, 0), ![i].forces = @ + 1]
       /\ past[i].forces < MaxForces[i]
       /\ UNCHANGED <<now, registry>>

\* A lens has no misbehaviour.
Misbehaviour(i, a, b) ==
    /\ getActiveClient(i)
    /\ clients[i].type # Lens
    /\ verifyMisbehaviour(clients[i], a, b)
    /\ clients' = [clients EXCEPT ![i].frozen = TRUE]
    /\ stored' = [stored EXCEPT ![i].state = ClientState(clients'[i])]
    /\ UNCHANGED <<now, registry, past>>

Tick ==
    /\ now < MaxTime
    /\ now' = now + 1
    /\ UNCHANGED <<registry, clients, stored, past>>

-----------------------------------------------------------------------------

Heights == {Blocks[b].height : b \in DOMAIN Blocks}

CometblsHeaders ==
    [block : DOMAIN Blocks, trusted : Heights]

LensHeaders ==
    [block : DOMAIN L2Blocks, l1Height : Heights, proof : DOMAIN Blocks]

\* A message of the other type does not decode.
Headers(type) == IF type = Lens THEN LensHeaders ELSE CometblsHeaders

\* Headers the client would accept, so that TLC need not try all pairs.
Evidence(c) ==
    {header \in CometblsHeaders : c.type # Lens /\ verifyMisbehaviourHeader(c, header)}

Names(type) == Real \cap (IF type = Lens THEN DOMAIN L2Blocks ELSE DOMAIN Blocks)

\* The ids a new client may name as its L1 client.
L1Ids(type) ==
    IF type # Lens THEN {0}
    ELSE {i \in DOMAIN MaxForces : /\ i # Len(clients) + 1
                                   /\ i \in DOMAIN clients => clients[i].type # Lens}

\* Is the next id the L1 client of a lens?
Awaited == \E i \in DOMAIN clients : clients[i].l1 = Len(clients) + 1

Init ==
    /\ now = 1
    /\ registry = {}
    /\ clients = <<>>
    /\ stored = <<>>
    /\ past = <<>>

Next ==
    \/ Tick
    \/ \E type \in ClientTypes : RegisterClient(type)
    \/ \E type \in ClientTypes : \E name \in Names(type), l1 \in L1Ids(type) :
          (Awaited => type # Lens) /\ CreateClient(type, name, l1)
    \/ \E i \in DOMAIN clients :
          \/ \E header \in Headers(clients[i].type) : UpdateClient(i, header)
          \/ \E name \in Names(clients[i].type) : ForceUpdateClient(i, name)
          \/ \E a, b \in Evidence(clients[i]) : Misbehaviour(i, a, b)

Spec == Init /\ [][Next]_vars

-----------------------------------------------------------------------------
(* Properties.                                                             *)

\* The CometBLS client a client depends on.
Followed(i) == IF clients[i].type = Lens THEN clients[i].l1 ELSE i

\* What the core stores and commits of a client for queries and for its
\* counterparties is the client's own state, at every height the client has;
\* other heights are left only by a client that was replaced.
\* (client.gno: initClient, UpdateClient, ForceUpdateClient, Misbehaviour)
StoredFollows ==
    \A i \in DOMAIN clients :
        /\ stored[i].state = ClientState(clients[i])
        /\ \A h \in DOMAIN clients[i].cons :
              h \in DOMAIN stored[i].cons /\ stored[i].cons[h] = clients[i].cons[h]
        /\ past[i].forces = 0 => DOMAIN stored[i].cons = DOMAIN clients[i].cons

Entries(b) == ToSet(Blocks[b].entries)

\* Proofs one could offer: the existence proof of any entry of any block, or
\* any two of one block's as neighbours, with the proof of any block's store
\* in its application.
Leaves(b) == {f.proofBz[1] : f \in ToSet(Fixtures[b])}

Tails == UNION {{f.proofBz[2] : f \in ToSet(Fixtures[b])} : b \in DOMAIN Blocks}

Neighbours(b) ==
    {encodeNonExistenceProof(Num(0), left, right) :
        left \in Leaves(b) \cup {NoProof}, right \in Leaves(b) \cup {NoProof}}

Values == UNION {{f.value : f \in Entries(b)} : b \in DOMAIN Blocks}

\* All that can be proved against the root of block b is true of the L1 block
\* at its height.
TrueOfL1 ==
    [b \in DOMAIN Blocks |->
        LET block == CHOOSE r \in Real \cap DOMAIN Blocks :
                        Blocks[r].height = Blocks[b].height
        IN \A from \in DOMAIN Blocks, tail \in Tails :
              /\ \A leaf \in Leaves(from), value \in Values :
                    VerifyMembershipProof(AppHash[b], leaf.key.contract, <<leaf, tail>>, value)
                    => \E f \in Entries(block) :
                          f.key = leaf.key.contract /\ f.value = value
              /\ \A near \in Neighbours(from), key \in {f.key : f \in Entries(block)} :
                    ~VerifyNonMembershipProof(AppHash[b], key, <<near, tail>>)]

\* The same of L2: proofs of every slot, with the nodes of one or two proofs of
\* any state, or of a proof that lacks one.
CommitmentPaths == {slot.of : slot \in {s \in DOMAIN Keccak : s.slot = "mapping"}}

NodeSets ==
    LET proofs == UNION {{Prove(Storage(L2Blocks[e].words), Keccak[s]) :
                             s \in DOMAIN Keccak} : e \in DOMAIN L2Blocks}
    IN {p \cup q : p \in proofs, q \in proofs}
         \cup UNION {{p \ {n} : n \in p} : p \in proofs}

Words == UNION {{L2Blocks[e].words[s] : s \in DOMAIN L2Blocks[e].words} :
                   e \in DOMAIN L2Blocks}

TrueOfL2 ==
    [e \in DOMAIN L2Blocks |->
        LET state == CHOOSE r \in Real \cap DOMAIN L2Blocks :
                        L2Blocks[r].height = L2Blocks[e].height
            words == L2Blocks[state].words
        IN \A path \in CommitmentPaths, slot \in DOMAIN Keccak, nodes \in NodeSets :
              /\ \A word \in Words :
                    LensVerifyMembership(e, path,
                        [key |-> slot, value |-> word, nodes |-> nodes], word)
                    => /\ ibcCommitmentKey(path) \in DOMAIN words
                       /\ words[ibcCommitmentKey(path)] = word
              /\ LensVerifyNonMembership(e, path, [key |-> slot, nodes |-> nodes])
                    => ibcCommitmentKey(path) \notin DOMAIN words]

\* Whatever a client accepts is true of the chain it follows, at the height it
\* is accepted for: no proof made from other blocks, from parts of two proofs
\* or from neighbours that are not adjacent is accepted.  This holds of a
\* client that accepted no header beside the chain, and of a lens over one.
\* (cometbls: VerifyMembership, VerifyNonMembership, verifyHeader;
\*  ics23_mpt: VerifyHeader, VerifyMembership, VerifyNonMembership; mpt)
ProofsSound ==
    \A i \in DOMAIN clients :
        LET c == clients[i]
        IN (Followed(i) \in DOMAIN clients => ~past[Followed(i)].forked) =>
           \A h \in DOMAIN c.cons :
              /\ Height(c.type, c.cons[h]) = h
              /\ prepareProof(c, h) =>
                    IF c.type = Lens THEN TrueOfL2[c.cons[h]] ELSE TrueOfL1[c.cons[h]]

\* What ProofsSound asks of the proofs themselves.  Against the roots of the
\* blocks of the two chains only what is so can be proved, with the leaves,
\* neighbours and nodes of any blocks; and the first chain proves only states
\* of the second, with the store of whatever block the proof was made from.
\* (cometbls: VerifyMembershipProof, VerifyNonMembershipProof; mpt: Verify,
\*  VerifyAbsence)
TriesSound ==
    /\ \A b \in Real \cap DOMAIN Blocks : TrueOfL1[b]
    /\ \A e \in Real \cap DOMAIN L2Blocks : TrueOfL2[e]
    /\ \A b \in Real \cap DOMAIN Blocks, from \in DOMAIN Blocks, e \in DOMAIN L2Blocks :
          ConsensusProven[b, from, e] => e \in Real

\* The proofs the generators make of a block are accepted against its root.
OwnFixturesVerify ==
    [b \in DOMAIN Blocks |->
        \A f \in ToSet(Fixtures[b]) :
            /\ VerifyMembershipProof(AppHash[b], f.input.key, f.proofBz, f.input.value)
            /\ f.input.nonMembershipKey # 0 =>
                  VerifyNonMembershipProof(AppHash[b], f.input.nonMembershipKey,
                                           f.nonMembershipProof)]

OwnStorageVerifies ==
    [e \in DOMAIN L2Blocks |->
        \A path \in CommitmentPaths :
            LET words == L2Blocks[e].words
                slot == ibcCommitmentKey(path)
                nodes == Prove(Storage(words), Keccak[slot])
            IN /\ orderProof(StorageRoot[e], nodes) # <<>>
               /\ IF slot \in DOMAIN words
                  THEN LensVerifyMembership(e, path,
                          [key |-> slot, value |-> words[slot], nodes |-> nodes],
                          words[slot])
                  ELSE LensVerifyNonMembership(e, path, [key |-> slot, nodes |-> nodes])]

GeneratorsVerify ==
    /\ \A f \in storageFixtures :
          /\ f.ordered # <<>>
          /\ IF f.value = Absent THEN VerifyStorageAbsence(f.root, f)
             ELSE VerifyStorageProof(f.root, f)
    /\ \A f \in embeddedFixtures :
          /\ Cardinality(f.nodes) = 1
          /\ IF f.value = Absent THEN VerifyAbsence(f.root, f.key, f.nodes)
             ELSE Verify(f.root, f.key, f.value, f.nodes)

\* The proofs the generators make of a block are accepted by the client that
\* has the block: of every entry, of the key that is to be absent, of every
\* slot and every free slot; and their nodes can be put in order.
\* (tools/cometbls-fixtures, tools/gen-ethereum-*-proof-fixture)
FixturesAccepted ==
    /\ \A i \in DOMAIN clients :
          LET c == clients[i] IN
          \A h \in DOMAIN c.cons :
              /\ prepareProof(c, h)
              /\ IF c.type = Lens THEN OwnStorageVerifies[c.cons[h]]
                 ELSE OwnFixturesVerify[c.cons[h]]
    /\ GeneratorsVerify

\* A client that accepted a header beside the chain can still be frozen: as
\* long as the state it was verified from has not expired, the header and any
\* block of the chain that conflicts with it, and that the validators of that
\* state signed too, are misbehaviour.  Blocks conflict at one height, or when
\* their times are not in the order of their heights.
\* (verifyMisbehaviour, isMisbehaviourPair, VerifyHeader)
ForksReportable ==
    \A i \in DOMAIN clients :
        LET c == clients[i] IN
        (c.type # Lens /\ Status(i) = "Active") =>
        \A h \in {g \in DOMAIN c.cons : c.cons[g] \notin Real} :
            LET fork == c.cons[h]
                from == past[i].from[h]
            IN (c.cons[from] \in Real /\ ~isClientExpiredAt(Blocks[c.cons[from]].time)) =>
               \A b \in Names("cometbls") :
                   (/\ Blocks[b].time <= now
                    /\ VerifyZKP(Blocks[c.cons[from]].nextValidatorsHash, Blocks[b])
                    /\ \/ Blocks[b].height = h
                       \/ Blocks[b].height < h /\ Blocks[b].time >= Blocks[fork].time
                       \/ Blocks[b].height > h /\ Blocks[b].time <= Blocks[fork].time)
                   => \E x, y \in {[block |-> name, trusted |-> from] :
                                      name \in {fork, b}} :
                         verifyMisbehaviour(c, x, y)

\* A client that is frozen or has expired, a lens over such a client and a lens
\* whose L1 client does not exist change only by being replaced themselves.
\* (getActiveClient, Status)
InactiveHolds ==
    [][\A i \in DOMAIN clients :
          (/\ Followed(i) \in DOMAIN clients =>
                 CometblsStatus(clients[Followed(i)]) # "Active"
           /\ clients'[i] # clients[i])
          => past'[i].forces > past[i].forces]_vars

=============================================================================
