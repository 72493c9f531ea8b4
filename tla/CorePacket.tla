----------------------------- MODULE CorePacket -----------------------------
(***************************************************************************)
(* The packet lifecycle of the Union IBC core (core/v1/packet.gno) on two  *)
(* chains that hold a light client of each other.                          *)
(*                                                                         *)
(* A transaction of a Gno realm runs to completion or reverts as a whole,  *)
(* so every entry point of the core is one action; a call that panics      *)
(* changes nothing and is no action.  The connection is open on both       *)
(* chains and the channels are paired: CoreHandshake models how they get   *)
(* there.  Relayers, market makers and applications are the environment:   *)
(* they submit any message, in any order, any number of times.             *)
(***************************************************************************)
EXTENDS Integers, Sequences, FiniteSets, UnionTypes

CONSTANTS
    A, B,              \* the two chains
    ChannelIds,        \* channel ids in use on both chains
    Counterparty,      \* Counterparty[c][i]: the other end of channel i of c
    Data,              \* packet payloads
    Timeouts,          \* timeout timestamps a sender may ask for
    Acks,              \* non-empty acknowledgements an application may give
    Batches,           \* bound: the sequences of packets ever put in a message
    MaxTime,           \* bound: block time
    RecordedPaths,     \* bound: paths whose proofs are put on record
    May,               \* bound: May[op], the chains where op is ever called,
                       \* and May.send[c], the sends on c
    TrustingPeriod,    \* of the light clients
    MaxClockDrift      \* of the light clients

Chains == {A, B}

Other(c) == IF c = A THEN B ELSE A

ASSUME ChainsAssumption == A # B

ASSUME PairingAssumption ==
    /\ Counterparty \in [Chains -> [ChannelIds -> ChannelIds]]
    /\ \A c \in Chains : \A i \in ChannelIds :
          Counterparty[Other(c)][Counterparty[c][i]] = i

ASSUME NumbersAssumption ==
    /\ Timeouts \subseteq Nat
    /\ MaxTime \in Nat \ {0}
    /\ TrustingPeriod \in Nat
    /\ MaxClockDrift \in Nat

VARIABLES
    now,          \* time of the block a chain is executing
    commitments,  \* Store.commitments: path -> value, in memory
    params,       \* chain params: the provable mirror of commitments
    headers,      \* the headers of a chain, by height
    client,       \* a chain's light client of the other chain
    channel,      \* state of each channel end
    proofs,       \* membership and non-membership proofs put on record
    \* History, per chain and packet: what the applications did or were told.
    sent,         \* times the application sent the packet
    recv,         \* OnRecvPacket calls
    intent,       \* OnIntentRecvPacket calls
    acked,        \* acknowledgements given to OnAcknowledgementPacket
    timedOut      \* OnTimeoutPacket calls

history == <<sent, recv, intent, acked, timedOut>>

vars == <<now, commitments, params, headers, client, channel, proofs, history>>

-----------------------------------------------------------------------------

Packet == [source : ChannelIds, destination : ChannelIds, data : Data,
           timeout : Timeouts]

ASSUME BatchesAssumption ==
    /\ Batches \subseteq Seq(Packet) \ {<<>>}
    /\ \A p \in Packet : <<p>> \in Batches

Paths == {BatchPacketsPath(CommitPackets(b)) : b \in Batches}
            \cup {BatchReceiptsPath(CommitPackets(b)) : b \in Batches}

ASSUME RecordedAssumption == RecordedPaths \subseteq Paths

AckBatches == UNION {[1..Len(b) -> Acks] : b \in Batches}

Values == {Absent, Magic, MagicAck} \cup {CommitAcks(acks) : acks \in AckBatches}

ChannelStates == {"Open", "Closed"}

\* A header carries the block's time and the root of the state the previous
\* block left: what the mirror and the channels held when it was proposed.
Header == [time : Nat, params : [Paths -> Values],
           channel : [ChannelIds -> ChannelStates]]

\* The light client object: heights with a consensus state, and whether
\* misbehaviour froze it.
Client == [heights : SUBSET Nat, frozen : BOOLEAN]

Proof == [height : Nat, path : Paths, value : Values]

TypeOK ==
    /\ now \in [Chains -> Nat]
    /\ commitments \in [Chains -> [Paths -> Values]]
    /\ params \in [Chains -> [Paths -> Values]]
    /\ headers \in [Chains -> Seq(Header)]
    /\ client \in [Chains -> Client]
    /\ channel \in [Chains -> [ChannelIds -> ChannelStates]]
    /\ proofs \in [Chains -> SUBSET Proof]
    /\ sent \in [Chains -> [Packet -> Nat]]
    /\ recv \in [Chains -> [Packet -> Nat]]
    /\ intent \in [Chains -> [Packet -> Nat]]
    /\ acked \in [Chains -> [Packet -> Seq(Acks)]]
    /\ timedOut \in [Chains -> [Packet -> Nat]]

Init ==
    LET empty == [path \in Paths |-> Absent]
        open == [i \in ChannelIds |-> "Open"]
        never == [c \in Chains |-> [p \in Packet |-> 0]]
    IN /\ now = [c \in Chains |-> 1]
       /\ commitments = [c \in Chains |-> empty]
       /\ params = [c \in Chains |-> empty]
       /\ headers = [c \in Chains |->
                       <<[time |-> 1, params |-> empty, channel |-> open]>>]
       /\ client = [c \in Chains |-> [heights |-> {1}, frozen |-> FALSE]]
       /\ channel = [c \in Chains |-> open]
       /\ proofs = [c \in Chains |-> {}]
       /\ sent = never /\ recv = never /\ intent = never /\ timedOut = never
       /\ acked = [c \in Chains |-> [p \in Packet |-> <<>>]]

-----------------------------------------------------------------------------
(* The store.                                                              *)

Overlay(f, writes) ==
    [x \in DOMAIN f |-> IF x \in DOMAIN writes THEN writes[x] ELSE f[x]]

\* setCommitment, for every path in the domain of writes.
SetCommitments(c, writes) ==
    /\ commitments' = [commitments EXCEPT ![c] = Overlay(@, writes)]
    /\ params' = [params EXCEPT ![c] = Overlay(@, writes)]

SetCommitment(c, path, value) == SetCommitments(c, [x \in {path} |-> value])

\* Mutant: the retired commitment is deleted.
SetPacketsDeleted(c, packets) ==
    /\ commitments' = [commitments EXCEPT ![c] =
          Overlay(@, [x \in {PacketCommitmentPath(p) : p \in packets} |-> Absent])]
    /\ UNCHANGED params

\* Mutant: the acknowledged flip is mirrored too.
SetPacketsAcknowledgedMirrored(c, packets) ==
    SetCommitments(c, [x \in {PacketCommitmentPath(p) : p \in packets} |-> MagicAck])

\* setCommitmentMem: the mirror keeps recording that the packets were sent.
SetPacketsAcknowledged(c, packets) ==
    /\ commitments' = [commitments EXCEPT ![c] =
          Overlay(@, [x \in {PacketCommitmentPath(p) : p \in packets}
                        |-> MagicAck])]
    /\ UNCHANGED params

\* History: one more callback for each of packets.
Counted(count, packets) ==
    [p \in DOMAIN count |-> IF p \in packets THEN count[p] + 1 ELSE count[p]]

\* History: the first n packets of a batch are given their acknowledgement.
Answered(answers, batch, acks, n) ==
    [p \in DOMAIN answers |->
        IF \E k \in 1..n : batch[k] = p
        THEN Append(answers[p], acks[CHOOSE k \in 1..n : batch[k] = p])
        ELSE answers[p]]

-----------------------------------------------------------------------------
(* The light client of the other chain, as the core uses it.               *)

LatestHeight(c) ==
    CHOOSE h \in client[c].heights : \A g \in client[c].heights : g <= h

Status(c) ==
    IF client[c].frozen THEN "Frozen"
    ELSE IF \/ client[c].heights = {}
            \/ now[c] > headers[Other(c)][LatestHeight(c)].time + TrustingPeriod
         THEN "Expired"
         ELSE "Active"

\* The state of the other chain that a proof at height h is checked against.
Root(c, h) == headers[Other(c)][h]

\* Mutant: the proof is not checked.
VerifyNothing(c, h, path, value) ==
    /\ Status(c) = "Active"
    /\ h \in client[c].heights

VerifyMembership(c, h, path, value) ==
    /\ Status(c) = "Active"
    /\ h \in client[c].heights
    /\ Root(c, h).params[path] = value

VerifyNonMembership(c, h, path) ==
    /\ Status(c) = "Active"
    /\ h \in client[c].heights
    /\ Root(c, h).params[path] = Absent

\* VerifyHeader of a genuine header, which the relayer signs off with any
\* trusted height: one with a consensus state is taken as it is, another one
\* needs an earlier consensus state that did not expire.
VerifyHeader(c, h) ==
    \/ h \in client[c].heights
    \/ /\ \E g \in client[c].heights :
             /\ g < h
             /\ now[c] <= Root(c, g).time + TrustingPeriod
       /\ Root(c, h).time < now[c] + MaxClockDrift

UpdateClient(c, h) ==
    /\ Status(c) = "Active"
    /\ VerifyHeader(c, h)
    /\ client' = [client EXCEPT ![c].heights = @ \cup {h}]
    /\ UNCHANGED <<now, commitments, params, headers, channel, proofs, history>>

Misbehaviour(c) ==
    /\ Status(c) = "Active"
    /\ client' = [client EXCEPT ![c].frozen = TRUE]
    /\ UNCHANGED <<now, commitments, params, headers, channel, proofs, history>>

\* The administrator replaces the light client object by one that starts at
\* a genuine header of the other chain.
ForceUpdateClient(c, h) ==
    /\ client' = [client EXCEPT ![c] = [heights |-> {h}, frozen |-> FALSE]]
    /\ UNCHANGED <<now, commitments, params, headers, channel, proofs, history>>

\* A chain starts the block of time t; its header commits to what the
\* previous blocks wrote.
NewBlock(c, t) ==
    /\ t > now[c]
    /\ now' = [now EXCEPT ![c] = t]
    /\ headers' = [headers EXCEPT ![c] =
          Append(@, [time |-> t, params |-> params[c], channel |-> channel[c]])]
    /\ UNCHANGED <<commitments, params, client, channel, proofs, history>>

-----------------------------------------------------------------------------
(* Sending.                                                                *)

SendPacket(c, i, data, timeout) ==
    LET packet == [source |-> i, destination |-> Counterparty[c][i],
                   data |-> data, timeout |-> timeout]
    IN /\ timeout # 0
       /\ channel[c][i] = "Open"
       /\ commitments[c][PacketCommitmentPath(packet)] = Absent
       /\ SetCommitment(c, PacketCommitmentPath(packet), Magic)
       /\ sent' = [sent EXCEPT ![c] = Counted(@, {packet})]
       /\ UNCHANGED <<now, headers, client, channel, proofs, recv, intent, acked,
                      timedOut>>

BatchSend(c, batch) ==
    /\ Len(batch) >= 2
    /\ \A k \in DOMAIN batch :
          /\ batch[k].source = batch[1].source
          /\ commitments[c][PacketCommitmentPath(batch[k])] = Magic
    /\ SetCommitment(c, BatchPacketsPath(CommitPackets(batch)), Magic)
    /\ UNCHANGED <<now, headers, client, channel, proofs, history>>

-----------------------------------------------------------------------------
(* Receiving.  n is the number of relayer (or market maker) messages: the  *)
(* packets after the n-th are not dispatched.                              *)

\* Mutant: the timeout itself is still in time.
InTimeInclusive(c, packet) == now[c] <= packet.timeout

InTime(c, packet) == now[c] < packet.timeout

\* acceptRecvPacket does not panic for any dispatched packet.
Acceptable(c, batch, n) ==
    \A k \in 1..n :
        /\ batch[k].destination = batch[1].destination
        /\ channel[c][batch[k].destination] = "Open"
        /\ InTime(c, batch[k])

\* Mutant: a packet with a receipt is dispatched again.
FreshAll(c, batch, n) == {batch[k] : k \in 1..n}

\* The dispatched packets that acceptRecvPacket does not skip.
Fresh(c, batch, n) ==
    {p \in {batch[k] : k \in 1..n} :
        commitments[c][PacketAcknowledgementPath(p)] = Absent}

\* What the application answers: an acknowledgement now, or Async for later.
Async == <<>>

RecvResults == {Async} \cup {<<a>> : a \in Acks}

\* Mutant: a deferred answer is committed as an empty list of answers.
ReceiptValueEmpty(result) == CommitAcks(result)

\* SetPacketReceipt, then commitSyncAck.
ReceiptValue(result) == IF result = Async THEN Magic ELSE CommitAcks(result)

Receive(c, fresh, results) ==
    SetCommitments(c,
        [x \in {PacketAcknowledgementPath(p) : p \in fresh} |->
            ReceiptValue(results[CHOOSE p \in fresh :
                                    x = PacketAcknowledgementPath(p)])])

PacketRecv(c, h, batch, n) ==
    LET fresh == Fresh(c, batch, n)
    IN /\ VerifyMembership(c, h, BatchPacketsPath(CommitPackets(batch)), Magic)
       /\ Acceptable(c, batch, n)
       /\ \E results \in [fresh -> RecvResults] : Receive(c, fresh, results)
       /\ recv' = [recv EXCEPT ![c] = Counted(@, fresh)]
       /\ UNCHANGED <<now, headers, client, channel, proofs, sent, intent, acked,
                      timedOut>>

\* No proof: the market maker answers for the packet itself.
IntentPacketRecv(c, batch, n) ==
    LET fresh == Fresh(c, batch, n)
    IN /\ Acceptable(c, batch, n)
       /\ \E results \in [fresh -> RecvResults] : Receive(c, fresh, results)
       /\ intent' = [intent EXCEPT ![c] = Counted(@, fresh)]
       /\ UNCHANGED <<now, headers, client, channel, proofs, sent, recv, acked,
                      timedOut>>

\* Mutant: a written acknowledgement may be written over.
AckWritable(c, packet) ==
    commitments[c][PacketAcknowledgementPath(packet)] # Absent

\* Received, and the acknowledgement is still due.
AckDue(c, packet) == commitments[c][PacketAcknowledgementPath(packet)] = Magic

WriteAcknowledgement(c, packet, ack) ==
    /\ AckDue(c, packet)
    /\ SetCommitment(c, PacketAcknowledgementPath(packet), CommitAcks(<<ack>>))
    /\ UNCHANGED <<now, headers, client, channel, proofs, history>>

\* Mutant: some acknowledgement was written, maybe another one.
AckWritten(c, packet, ack) ==
    commitments[c][PacketAcknowledgementPath(packet)] \notin {Absent, Magic}

AckCommitted(c, packet, ack) ==
    commitments[c][PacketAcknowledgementPath(packet)] = CommitAcks(<<ack>>)

BatchAcks(c, batch, acks) ==
    /\ Len(batch) >= 2
    /\ Len(acks) = Len(batch)
    /\ \A k \in DOMAIN batch :
          /\ batch[k].destination = batch[1].destination
          /\ AckCommitted(c, batch[k], acks[k])
    /\ SetCommitment(c, BatchReceiptsPath(CommitPackets(batch)), CommitAcks(acks))
    /\ UNCHANGED <<now, headers, client, channel, proofs, history>>

-----------------------------------------------------------------------------
(* Settling at the source.                                                 *)

\* Mutant: settling wants an open channel, for acknowledgements too.
UnsettledAndOpen(c, packet) ==
    /\ commitments[c][PacketCommitmentPath(packet)] = Magic
    /\ channel[c][packet.source] = "Open"

\* markPacketAcknowledged does not panic: sent and not settled yet.
Unsettled(c, packet) == commitments[c][PacketCommitmentPath(packet)] = Magic

\* The loop stops at the shorter of the two arrays; a packet that appears
\* twice is settled by its first appearance and its second one panics.
PacketAcknowledgement(c, h, batch, acks) ==
    LET n == IF Len(acks) < Len(batch) THEN Len(acks) ELSE Len(batch)
        packets == {batch[k] : k \in 1..n}
    IN /\ VerifyMembership(c, h, BatchReceiptsPath(CommitPackets(batch)),
                           CommitAcks(acks))
       /\ \A k \in 1..n :
             /\ batch[k].source = batch[1].source
             /\ Unsettled(c, batch[k])
             /\ \A m \in 1..(k - 1) : batch[m] # batch[k]
       /\ SetPacketsAcknowledged(c, packets)
       /\ acked' = [acked EXCEPT ![c] = Answered(@, batch, acks, n)]
       /\ UNCHANGED <<now, headers, client, channel, proofs, sent, recv, intent,
                      timedOut>>

PacketTimeout(c, h, packet) ==
    /\ channel[c][packet.source] = "Open"
    /\ VerifyNonMembership(c, h, PacketAcknowledgementPath(packet))
    /\ Root(c, h).time # 0
    /\ Unsettled(c, packet)
    /\ packet.timeout # 0
    /\ packet.timeout <= Root(c, h).time
    /\ SetPacketsAcknowledged(c, {packet})
    /\ timedOut' = [timedOut EXCEPT ![c] = Counted(@, {packet})]
    /\ UNCHANGED <<now, headers, client, channel, proofs, sent, recv, intent,
                   acked>>

-----------------------------------------------------------------------------
(* Proofs on record, and closing a channel.                                *)

CommitMembershipProof(c, h, path, value) ==
    /\ value # Absent
    /\ VerifyMembership(c, h, path, value)
    /\ proofs' = [proofs EXCEPT ![c] =
          @ \cup {[height |-> h, path |-> path, value |-> value]}]
    /\ UNCHANGED <<now, commitments, params, headers, client, channel, history>>

CommitNonMembershipProof(c, h, path) ==
    /\ VerifyNonMembership(c, h, path)
    /\ proofs' = [proofs EXCEPT ![c] =
          @ \cup {[height |-> h, path |-> path, value |-> Absent]}]
    /\ UNCHANGED <<now, commitments, params, headers, client, channel, history>>

ChannelCloseInit(c, i) ==
    /\ channel[c][i] = "Open"
    /\ channel' = [channel EXCEPT ![c][i] = "Closed"]
    /\ UNCHANGED <<now, commitments, params, headers, client, proofs, history>>

ChannelCloseConfirm(c, h, i) ==
    /\ channel[c][i] = "Open"
    /\ Status(c) = "Active"
    /\ h \in client[c].heights
    /\ Root(c, h).channel[Counterparty[c][i]] = "Closed"
    /\ channel' = [channel EXCEPT ![c][i] = "Closed"]
    /\ UNCHANGED <<now, commitments, params, headers, client, proofs, history>>

-----------------------------------------------------------------------------

Heights(c) == 1..Len(headers[c])

\* The environment of chain c: its consensus, the relayers, the market
\* makers, the applications and the administrator.
ChainNext(c) ==
    \/ \E t \in 1..MaxTime : NewBlock(c, t)
    \/ \E h \in Heights(Other(c)) : UpdateClient(c, h)
    \/ c \in May.freeze /\ Misbehaviour(c)
    \/ c \in May.force /\ \E h \in Heights(Other(c)) : ForceUpdateClient(c, h)
    \/ \E i \in ChannelIds, d \in Data, t \in Timeouts :
          <<i, d, t>> \in May.send[c] /\ SendPacket(c, i, d, t)
    \/ \E b \in Batches : BatchSend(c, b)
    \/ \E h \in client[c].heights, b \in Batches :
          \E n \in 1..Len(b) : PacketRecv(c, h, b, n)
    \/ c \in May.intent /\ \E b \in Batches : \E n \in 1..Len(b) :
                              IntentPacketRecv(c, b, n)
    \/ \E p \in Packet, a \in Acks : WriteAcknowledgement(c, p, a)
    \/ \E b \in Batches, acks \in AckBatches : BatchAcks(c, b, acks)
    \/ \E h \in client[c].heights, b \in Batches, acks \in AckBatches :
          PacketAcknowledgement(c, h, b, acks)
    \/ \E h \in client[c].heights, p \in Packet : PacketTimeout(c, h, p)
    \/ \E h \in client[c].heights, x \in RecordedPaths, v \in Values :
          CommitMembershipProof(c, h, x, v)
    \/ \E h \in client[c].heights, x \in RecordedPaths :
          CommitNonMembershipProof(c, h, x)
    \/ c \in May.close /\ \E i \in ChannelIds : ChannelCloseInit(c, i)
    \/ \E h \in client[c].heights, i \in ChannelIds : ChannelCloseConfirm(c, h, i)

Next == \E c \in Chains : ChainNext(c)

Spec == Init /\ [][Next]_vars

-----------------------------------------------------------------------------
(* Safety.                                                                 *)

Receipt(c, p) == params[c][PacketAcknowledgementPath(p)]

Settled(c, p) == timedOut[c][p] > 0 \/ acked[c][p] # <<>>

\* A packet is sent at most once, even after it was settled, and settled at
\* most once: acks and timeouts share markPacketAcknowledged, and the
\* retired commitment stays in memory so SendPacket refuses it for good.
SettledOnce ==
    \A c \in Chains, p \in Packet :
        /\ sent[c][p] <= 1
        /\ timedOut[c][p] + Len(acked[c][p]) <= sent[c][p]

\* The application sees a packet once, whether it comes with a proof, from a
\* market maker, alone, in a batch or several times in one batch
\* (acceptRecvPacket), and it sees it only if the core recorded a receipt.
ReceivedOnce ==
    \A c \in Chains, p \in Packet :
        /\ recv[c][p] + intent[c][p] <= 1
        /\ (recv[c][p] + intent[c][p] = 1) <=> (Receipt(c, p) # Absent)

\* A packet whose timeout refunded the sender was not received and never
\* will be: the boundary between PacketTimeout (timeout <= proof time) and
\* acceptRecvPacket (now >= timeout panics) leaves no packet on both sides.
TimeoutExcludesReceipt ==
    \A c \in Chains, p \in Packet :
        timedOut[c][p] > 0 =>
            /\ Receipt(Other(c), p) = Absent
            /\ now[Other(c)] >= p.timeout

\* The acknowledgement a sender is given is the one the receiver committed,
\* through deferred writes (WriteAcknowledgement) and batches (BatchAcks).
AckIsReceivers ==
    \A c \in Chains, p \in Packet :
        \A k \in DOMAIN acked[c][p] :
            Receipt(Other(c), p) = CommitAcks(<<acked[c][p][k]>>)

\* A packet that came with a proof was sent by the other chain's application,
\* on the channel paired with the one it is received on.
RecvWasSent ==
    \A c \in Chains, p \in Packet :
        recv[c][p] > 0 =>
            /\ sent[Other(c)][p] = 1
            /\ Counterparty[c][p.destination] = p.source

\* The provable mirror and the memory differ only where a sent packet is
\* settled: memory says so and the mirror still proves that it was sent.
MirrorAgrees ==
    \A c \in Chains :
        /\ \A p \in Packet :
              commitments[c][PacketCommitmentPath(p)] = MagicAck <=> Settled(c, p)
        /\ \A x \in Paths :
              params[c][x] = IF commitments[c][x] = MagicAck THEN Magic
                             ELSE commitments[c][x]

\* What a batch commitment claims holds of each of its packets: it was sent
\* (BatchSend), or its own receipt carries the same acknowledgement
\* (BatchAcks).
BatchFaithful ==
    \A c \in Chains, b \in Batches :
        /\ params[c][BatchPacketsPath(CommitPackets(b))] = Magic =>
              \A k \in DOMAIN b : sent[c][b[k]] = 1
        /\ LET value == params[c][BatchReceiptsPath(CommitPackets(b))] IN
           value.kind = "ACKS" =>
              \A k \in DOMAIN b : Receipt(c, b[k]) = CommitAcks(<<value.acks[k]>>)

\* A proof put on record stays true of the other chain whatever became of
\* the client since (frozen, replaced): what was committed is still
\* committed, and a receipt that was absent when the packet had timed out is
\* absent for good.
RecordedProofsStayTrue ==
    \A c \in Chains : \A r \in proofs[c] :
        LET current == params[Other(c)][r.path] IN
        /\ r.value.kind = "ACKS" => current = r.value
        /\ r.value = Magic => current.kind \in {"MAGIC", "ACKS"}
        /\ r.value = Absent =>
              \A p \in Packet :
                  (/\ r.path = PacketAcknowledgementPath(p)
                   /\ headers[Other(c)][r.height].time >= p.timeout)
                  => current = Absent

\* What a counterparty can prove is written once: a value never disappears
\* and never changes, except a receipt that gets its acknowledgement.
ProvableOnce ==
    [][\A c \in Chains, x \in Paths :
          params[c][x] # Absent =>
              \/ params'[c][x] = params[c][x]
              \/ /\ params[c][x] = Magic
                 /\ params'[c][x].kind = "ACKS"
                 /\ \E p \in Packet : x = PacketAcknowledgementPath(p)]_params

-----------------------------------------------------------------------------
(* Why a timeout and a receipt exclude each other.                         *)

\* Headers are from the past of their chain, and there is always one.
HeadersPast ==
    \A c \in Chains :
        /\ headers[c] # <<>>
        /\ \A h \in Heights(c) : headers[c][h].time <= now[c]

\* A light client only has consensus states of headers the other chain made.
ClientsKnow == \A c \in Chains : client[c].heights \subseteq Heights(Other(c))

\* Receipts are the same in memory and in the mirror.
ReceiptsMirrored ==
    \A c \in Chains, p \in Packet :
        commitments[c][PacketAcknowledgementPath(p)] = Receipt(c, p)

\* A header that misses a receipt the chain now has is older than the
\* packet's timeout.
ReceiptsInTime ==
    \A c \in Chains, p \in Packet : \A h \in Heights(c) :
        /\ Receipt(c, p) # Absent
        /\ headers[c][h].params[PacketAcknowledgementPath(p)] = Absent
        => headers[c][h].time < p.timeout

TimeoutInv ==
    /\ TypeOK
    /\ HeadersPast
    /\ ClientsKnow
    /\ ReceiptsMirrored
    /\ ReceiptsInTime
    /\ TimeoutExcludesReceipt

-----------------------------------------------------------------------------
(* What the core promises its applications, packet by packet.              *)

Outcome(c, p) ==
    IF timedOut[c][p] > 0 THEN "timedOut"
    ELSE IF acked[c][p] # <<>> THEN "acked"
    ELSE IF sent[c][p] > 0 THEN "sent" ELSE "unsent"

\* The state of the packet the sender c sees, on the chain that receives it.
Answer(c, p) ==
    CASE Receipt(Other(c), p) = Absent -> [got |-> FALSE, acks |-> <<>>]
      [] OTHER -> [got |-> TRUE, acks |-> Receipt(Other(c), p).acks]

Promise == INSTANCE PacketDelivery
    WITH Senders <- Chains, Packets <- Packet, Answers <- Acks,
         outcome <- [c \in Chains |-> [p \in Packet |-> Outcome(c, p)]],
         receipt <- [c \in Chains |-> [p \in Packet |-> Answer(c, p)]],
         told <- acked

\* The two cores and their clients implement packet delivery.
DeliversPackets == Promise!Spec

-----------------------------------------------------------------------------
(* Liveness.                                                               *)

\* Both chains keep producing blocks; a relayer keeps the clients up to date
\* and relays what can be relayed; an application that deferred an
\* acknowledgement writes it.  Nobody is obliged to send, to fill an intent,
\* to close a channel or to use a batch.
Fairness ==
    \A c \in Chains :
        /\ WF_vars(\E t \in 1..MaxTime : NewBlock(c, t))
        /\ \A h \in 1..MaxTime :
              WF_vars(h \in Heights(Other(c)) /\ UpdateClient(c, h))
        /\ \A p \in Packet :
              /\ WF_vars(\E h \in client[c].heights : PacketRecv(c, h, <<p>>, 1))
              /\ WF_vars(\E a \in Acks : WriteAcknowledgement(c, p, a))
              /\ WF_vars(\E h \in client[c].heights, a \in Acks :
                            PacketAcknowledgement(c, h, <<p>>, <<a>>))
              /\ WF_vars(\E h \in client[c].heights : PacketTimeout(c, h, p))

FairSpec == Spec /\ Fairness

\* The model's clock ran out before a block could commit to the deferred
\* acknowledgement: an artefact of MaxTime.
OutOfBlocks(c, p) ==
    /\ now[c] = MaxTime
    /\ headers[c][Len(headers[c])].params[PacketAcknowledgementPath(p)].kind # "ACKS"
    /\ Receipt(c, p) # Absent

\* Every sent packet is settled, by an acknowledgement or by a timeout,
\* unless its channel was closed at the source before the other chain
\* received it: PacketTimeout wants an open channel.
Settles ==
    \A c \in Chains, p \in Packet :
        sent[c][p] > 0 ~>
            \/ Settled(c, p)
            \/ channel[c][p.source] = "Closed" /\ Receipt(Other(c), p) = Absent
            \/ OutOfBlocks(Other(c), p)

=============================================================================
