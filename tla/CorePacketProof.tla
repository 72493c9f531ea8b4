--------------------------- MODULE CorePacketProof ---------------------------
(***************************************************************************)
(* Proofs about CorePacket, for any number of channels, packets, batches   *)
(* and blocks.                                                             *)
(***************************************************************************)
EXTENDS CorePacket, SequenceTheorems, TLAPS

\* Commitment paths of the two kinds never collide, and the path of a
\* packet's receipt identifies the packet (types/path.gno).
LEMMA PathsDistinct ==
    /\ \A x, y : BatchPacketsPath(x) # BatchReceiptsPath(y)
    /\ \A p, q : PacketAcknowledgementPath(p) = PacketAcknowledgementPath(q)
                    => p = q
    /\ \A p, q : PacketCommitmentPath(p) = PacketCommitmentPath(q) => p = q
    /\ \A p, q : PacketCommitmentPath(p) # PacketAcknowledgementPath(q)
BY DEF BatchPacketsPath, BatchReceiptsPath, PacketAcknowledgementPath,
       PacketCommitmentPath, CommitPacket, CommitPackets

\* The sentinels and the acknowledgement commitments are different values
\* (types/path.gno).
LEMMA ValuesDistinct ==
    /\ Absent # Magic
    /\ Absent # MagicAck
    /\ Magic # MagicAck
    /\ \A acks : CommitAcks(acks) # Absent /\ CommitAcks(acks) # Magic
                  /\ CommitAcks(acks) # MagicAck
BY DEF Absent, Magic, MagicAck, CommitAcks

\* The store has a path for every batch a message may carry, and for every
\* packet alone.
LEMMA PathsOfBatches ==
    /\ \A b \in Batches : /\ BatchPacketsPath(CommitPackets(b)) \in Paths
                          /\ BatchReceiptsPath(CommitPackets(b)) \in Paths
    /\ \A p \in Packet : /\ PacketCommitmentPath(p) \in Paths
                         /\ PacketAcknowledgementPath(p) \in Paths
<1>1. \A b \in Batches : /\ BatchPacketsPath(CommitPackets(b)) \in Paths
                         /\ BatchReceiptsPath(CommitPackets(b)) \in Paths
  BY DEF Paths
<1>2. ASSUME NEW p \in Packet
      PROVE  /\ PacketCommitmentPath(p) \in Paths
             /\ PacketAcknowledgementPath(p) \in Paths
  BY <1>1, BatchesAssumption DEF PacketCommitmentPath,
     PacketAcknowledgementPath, CommitPacket
<1> QED BY <1>1, <1>2

\* The members of a batch are packets.
LEMMA BatchMembers ==
    ASSUME NEW b \in Batches
    PROVE  /\ Len(b) \in Nat
           /\ Len(b) >= 1
           /\ DOMAIN b = 1..Len(b)
           /\ \A k \in 1..Len(b) : b[k] \in Packet
BY BatchesAssumption

\* The values the handlers store are values of the store.
LEMMA ValuesOfHandlers ==
    /\ Absent \in Values
    /\ Magic \in Values
    /\ MagicAck \in Values
    /\ \A acks \in AckBatches : CommitAcks(acks) \in Values
    /\ \A p \in Packet, a \in Acks : CommitAcks(<<a>>) \in Values
<1>1. ASSUME NEW p \in Packet, NEW a \in Acks
      PROVE  <<a>> \in AckBatches
  <2>1. <<p>> \in Batches
    BY BatchesAssumption
  <2>2. Len(<<p>>) = 1
    OBVIOUS
  <2>3. <<a>> \in [1..1 -> Acks]
    OBVIOUS
  <2> QED BY <2>1, <2>2, <2>3 DEF AckBatches
<1> QED BY <1>1 DEF Values

\* Writing values of the right type keeps the type of a map.
LEMMA OverlayType ==
    ASSUME NEW S, NEW T, NEW f \in [S -> T], NEW w,
           \A x \in DOMAIN w : w[x] \in T
    PROVE  Overlay(f, w) \in [S -> T]
BY DEF Overlay

-----------------------------------------------------------------------------
(* Type correctness, action by action.                                     *)

\* setCommitment keeps the types of the memory and of the mirror.
LEMMA SetCommitmentsType ==
    ASSUME TypeOK, NEW c \in Chains, NEW w,
           \A x \in DOMAIN w : w[x] \in Values,
           SetCommitments(c, w)
    PROVE  /\ commitments' \in [Chains -> [Paths -> Values]]
           /\ params' \in [Chains -> [Paths -> Values]]
<1>1. /\ Overlay(commitments[c], w) \in [Paths -> Values]
      /\ Overlay(params[c], w) \in [Paths -> Values]
  BY OverlayType DEF TypeOK
<1> QED BY <1>1 DEF SetCommitments, TypeOK

\* The value a receipt gets from the application's answer.
LEMMA ReceiveType ==
    ASSUME TypeOK, NEW c \in Chains, NEW fresh \in SUBSET Packet,
           NEW results \in [fresh -> RecvResults], Receive(c, fresh, results)
    PROVE  /\ commitments' \in [Chains -> [Paths -> Values]]
           /\ params' \in [Chains -> [Paths -> Values]]
<1> DEFINE w == [x \in {PacketAcknowledgementPath(p) : p \in fresh} |->
                   ReceiptValue(results[CHOOSE p \in fresh :
                                    x = PacketAcknowledgementPath(p)])]
<1>1. ASSUME NEW x \in DOMAIN w PROVE w[x] \in Values
  <2>1. PICK p \in fresh : /\ p = CHOOSE q \in fresh : x = PacketAcknowledgementPath(q)
                           /\ w[x] = ReceiptValue(results[p])
    OBVIOUS
  <2>2. results[p] = Async \/ \E a \in Acks : results[p] = <<a>>
    BY <2>1 DEF RecvResults
  <2> QED BY <2>1, <2>2, ValuesOfHandlers DEF ReceiptValue
<1>2. SetCommitments(c, w)
  BY DEF Receive
<1> HIDE DEF w
<1> QED BY <1>1, <1>2, SetCommitmentsType

\* The packets a receive dispatches are packets.
LEMMA FreshType ==
    ASSUME NEW c \in Chains, NEW b \in Batches, NEW n \in 1..Len(b)
    PROVE  Fresh(c, b, n) \in SUBSET Packet
BY BatchMembers DEF Fresh

\* Retiring packets keeps the type of the memory.
LEMMA AcknowledgedType ==
    ASSUME TypeOK, NEW c \in Chains, NEW ps, SetPacketsAcknowledged(c, ps)
    PROVE  /\ commitments' \in [Chains -> [Paths -> Values]]
           /\ params' = params
<1> DEFINE w == [x \in {PacketCommitmentPath(p) : p \in ps} |-> MagicAck]
<1>1. Overlay(commitments[c], w) \in [Paths -> Values]
  BY OverlayType, ValuesOfHandlers DEF TypeOK
<1> QED BY <1>1 DEF SetPacketsAcknowledged, TypeOK

\* Counting callbacks keeps the type of the history.
LEMMA CountedType ==
    ASSUME NEW f \in [Packet -> Nat], NEW ps
    PROVE  Counted(f, ps) \in [Packet -> Nat]
BY DEF Counted

\* A batch of acknowledgements is a sequence of acknowledgements.
LEMMA AckBatchMembers ==
    ASSUME NEW acks \in AckBatches
    PROVE  /\ Len(acks) \in Nat
           /\ Len(acks) >= 1
           /\ DOMAIN acks = 1..Len(acks)
           /\ \A k \in 1..Len(acks) : acks[k] \in Acks
<1>1. PICK b \in Batches : acks \in [1..Len(b) -> Acks]
  BY DEF AckBatches
<1>2. Len(b) \in Nat /\ Len(b) >= 1
  BY BatchMembers
<1>3. acks \in UNION {[1..n -> Acks] : n \in Nat}
  BY <1>1, <1>2
<1>4. acks \in Seq(Acks)
  BY <1>3, SeqDef
<1>5. Len(acks) \in Nat /\ DOMAIN acks = 1..Len(acks) /\ acks \in [1..Len(acks) -> Acks]
  BY <1>4, LenProperties
<1>6. DOMAIN acks = 1..Len(b)
  BY <1>1
<1>7. 1 \in 1..Len(acks)
  BY <1>2, <1>5, <1>6
<1> QED BY <1>5, <1>7

\* So does recording acknowledgements.
LEMMA AnsweredType ==
    ASSUME NEW f \in [Packet -> Seq(Acks)], NEW b, NEW acks, NEW n \in Nat,
           \A k \in 1..n : acks[k] \in Acks
    PROVE  Answered(f, b, acks, n) \in [Packet -> Seq(Acks)]
<1>1. ASSUME NEW p \in Packet, \E k \in 1..n : b[k] = p
      PROVE  Append(f[p], acks[CHOOSE k \in 1..n : b[k] = p]) \in Seq(Acks)
  <2>1. PICK m \in 1..n : m = CHOOSE k \in 1..n : b[k] = p
    BY <1>1
  <2>2. acks[m] \in Acks /\ f[p] \in Seq(Acks)
    OBVIOUS
  <2>3. Append(f[p], acks[m]) \in Seq(Acks)
    BY <2>2, AppendProperties
  <2> QED BY <2>1, <2>3
<1> QED BY <1>1 DEF Answered

\* The initial state is well typed.
LEMMA TypeInit == Init => TypeOK
<1> SUFFICES ASSUME Init PROVE TypeOK
  OBVIOUS
<1> DEFINE empty == [path \in Paths |-> Absent]
           open == [i \in ChannelIds |-> "Open"]
<1>1. empty \in [Paths -> Values] /\ open \in [ChannelIds -> ChannelStates]
  BY ValuesOfHandlers DEF ChannelStates
<1>2. [time |-> 1, params |-> empty, channel |-> open] \in Header
  BY <1>1 DEF Header
<1>3. <<[time |-> 1, params |-> empty, channel |-> open]>> \in Seq(Header)
  BY <1>2
<1> QED BY <1>1, <1>3 DEF Init, TypeOK, Client

\* Every step keeps the types.
LEMMA TypeStep == TypeOK /\ [Next]_vars => TypeOK'
<1> SUFFICES ASSUME TypeOK, [Next]_vars PROVE TypeOK'
  OBVIOUS
<1>1. CASE UNCHANGED vars
  BY <1>1 DEF vars, history, TypeOK
<1>2. ASSUME NEW c \in Chains, ChainNext(c) PROVE TypeOK'
  <2>1. ASSUME NEW t \in 1..MaxTime, NewBlock(c, t) PROVE TypeOK'
    <3>1. [time |-> t, params |-> params[c], channel |-> channel[c]] \in Header
      BY NumbersAssumption DEF Header, TypeOK
    <3> QED BY <2>1, <3>1, NumbersAssumption DEF NewBlock, history, TypeOK
  <2>2. ASSUME NEW h \in Heights(Other(c)), UpdateClient(c, h) PROVE TypeOK'
    <3>1. h \in Nat
      BY DEF Heights
    <3> QED BY <2>2, <3>1 DEF UpdateClient, history, TypeOK, Client
  <2>3. CASE Misbehaviour(c)
    BY <2>3 DEF Misbehaviour, history, TypeOK, Client
  <2>4. ASSUME NEW h \in Heights(Other(c)), ForceUpdateClient(c, h) PROVE TypeOK'
    <3>1. h \in Nat
      BY DEF Heights
    <3> QED BY <2>4, <3>1 DEF ForceUpdateClient, history, TypeOK, Client
  <2>5. ASSUME NEW i \in ChannelIds, NEW d \in Data, NEW t \in Timeouts,
               SendPacket(c, i, d, t)
        PROVE  TypeOK'
    <3> DEFINE p == [source |-> i, destination |-> Counterparty[c][i],
                     data |-> d, timeout |-> t]
    <3>1. p \in Packet
      BY PairingAssumption DEF Packet
    <3>2. SetCommitment(c, PacketCommitmentPath(p), Magic)
      BY <2>5 DEF SendPacket
    <3>3. /\ commitments' \in [Chains -> [Paths -> Values]]
          /\ params' \in [Chains -> [Paths -> Values]]
      BY <3>2, SetCommitmentsType, ValuesOfHandlers DEF SetCommitment
    <3>4. sent' \in [Chains -> [Packet -> Nat]]
      BY <2>5, CountedType DEF SendPacket, TypeOK
    <3> QED BY <2>5, <3>3, <3>4 DEF SendPacket, TypeOK
  <2>6. ASSUME NEW b \in Batches, BatchSend(c, b) PROVE TypeOK'
    <3>1. /\ commitments' \in [Chains -> [Paths -> Values]]
          /\ params' \in [Chains -> [Paths -> Values]]
      BY <2>6, SetCommitmentsType, ValuesOfHandlers DEF SetCommitment, BatchSend
    <3> QED BY <2>6, <3>1 DEF BatchSend, history, TypeOK
  <2>7. ASSUME NEW h \in client[c].heights, NEW b \in Batches, NEW n \in 1..Len(b),
               PacketRecv(c, h, b, n)
        PROVE  TypeOK'
    <3> DEFINE fresh == Fresh(c, b, n)
    <3>1. PICK results \in [fresh -> RecvResults] : Receive(c, fresh, results)
      BY <2>7 DEF PacketRecv
    <3>2. /\ commitments' \in [Chains -> [Paths -> Values]]
          /\ params' \in [Chains -> [Paths -> Values]]
      BY <3>1, FreshType, ReceiveType
    <3>3. recv' \in [Chains -> [Packet -> Nat]]
      BY <2>7, CountedType DEF PacketRecv, TypeOK
    <3> QED BY <2>7, <3>2, <3>3 DEF PacketRecv, TypeOK
  <2>8. ASSUME NEW b \in Batches, NEW n \in 1..Len(b), IntentPacketRecv(c, b, n)
        PROVE  TypeOK'
    <3> DEFINE fresh == Fresh(c, b, n)
    <3>1. PICK results \in [fresh -> RecvResults] : Receive(c, fresh, results)
      BY <2>8 DEF IntentPacketRecv
    <3>2. /\ commitments' \in [Chains -> [Paths -> Values]]
          /\ params' \in [Chains -> [Paths -> Values]]
      BY <3>1, FreshType, ReceiveType
    <3>3. intent' \in [Chains -> [Packet -> Nat]]
      BY <2>8, CountedType DEF IntentPacketRecv, TypeOK
    <3> QED BY <2>8, <3>2, <3>3 DEF IntentPacketRecv, TypeOK
  <2>9. ASSUME NEW p \in Packet, NEW a \in Acks, WriteAcknowledgement(c, p, a)
        PROVE  TypeOK'
    <3>1. /\ commitments' \in [Chains -> [Paths -> Values]]
          /\ params' \in [Chains -> [Paths -> Values]]
      BY <2>9, SetCommitmentsType, ValuesOfHandlers
         DEF SetCommitment, WriteAcknowledgement
    <3> QED BY <2>9, <3>1 DEF WriteAcknowledgement, history, TypeOK
  <2>10. ASSUME NEW b \in Batches, NEW acks \in AckBatches, BatchAcks(c, b, acks)
         PROVE  TypeOK'
    <3>1. /\ commitments' \in [Chains -> [Paths -> Values]]
          /\ params' \in [Chains -> [Paths -> Values]]
      BY <2>10, SetCommitmentsType, ValuesOfHandlers DEF SetCommitment, BatchAcks
    <3> QED BY <2>10, <3>1 DEF BatchAcks, history, TypeOK
  <2>11. ASSUME NEW h \in client[c].heights, NEW b \in Batches,
                NEW acks \in AckBatches, PacketAcknowledgement(c, h, b, acks)
         PROVE  TypeOK'
    <3> DEFINE n == IF Len(acks) < Len(b) THEN Len(acks) ELSE Len(b)
               packets == {b[k] : k \in 1..n}
    <3>1. SetPacketsAcknowledged(c, packets)
      BY <2>11 DEF PacketAcknowledgement
    <3>2. commitments' \in [Chains -> [Paths -> Values]] /\ params' = params
      BY <3>1, AcknowledgedType
    <3>3. n \in Nat /\ \A k \in 1..n : acks[k] \in Acks
      <4>1. Len(b) \in Nat /\ Len(acks) \in Nat
        BY AckBatchMembers, BatchMembers
      <4>2. \A k \in 1..Len(acks) : acks[k] \in Acks
        BY AckBatchMembers
      <4> QED BY <4>1, <4>2
    <3>4. acked' = [acked EXCEPT ![c] = Answered(acked[c], b, acks, n)]
      BY <2>11 DEF PacketAcknowledgement
    <3>7. acked' \in [Chains -> [Packet -> Seq(Acks)]]
      <4> HIDE DEF n
      <4> QED BY <3>3, <3>4, AnsweredType DEF TypeOK
    <3> QED BY <2>11, <3>2, <3>7 DEF PacketAcknowledgement, TypeOK
  <2>12. ASSUME NEW h \in client[c].heights, NEW p \in Packet,
                PacketTimeout(c, h, p)
         PROVE  TypeOK'
    <3>1. commitments' \in [Chains -> [Paths -> Values]] /\ params' = params
      BY <2>12, AcknowledgedType DEF PacketTimeout
    <3>2. timedOut' \in [Chains -> [Packet -> Nat]]
      BY <2>12, CountedType DEF PacketTimeout, TypeOK
    <3> QED BY <2>12, <3>1, <3>2 DEF PacketTimeout, TypeOK
  <2>13. ASSUME NEW h \in client[c].heights, NEW x \in RecordedPaths,
                NEW v \in Values, CommitMembershipProof(c, h, x, v)
         PROVE  TypeOK'
    <3>1. [height |-> h, path |-> x, value |-> v] \in Proof
      BY RecordedAssumption DEF Proof, TypeOK, Client
    <3> QED BY <2>13, <3>1 DEF CommitMembershipProof, history, TypeOK
  <2>14. ASSUME NEW h \in client[c].heights, NEW x \in RecordedPaths,
                CommitNonMembershipProof(c, h, x)
         PROVE  TypeOK'
    <3>1. [height |-> h, path |-> x, value |-> Absent] \in Proof
      BY RecordedAssumption, ValuesOfHandlers DEF Proof, TypeOK, Client
    <3> QED BY <2>14, <3>1 DEF CommitNonMembershipProof, history, TypeOK
  <2>15. ASSUME NEW i \in ChannelIds, ChannelCloseInit(c, i) PROVE TypeOK'
    BY <2>15 DEF ChannelCloseInit, history, TypeOK, ChannelStates
  <2>16. ASSUME NEW h \in client[c].heights, NEW i \in ChannelIds,
                ChannelCloseConfirm(c, h, i)
         PROVE  TypeOK'
    BY <2>16 DEF ChannelCloseConfirm, history, TypeOK, ChannelStates
  <2> QED BY <1>2, <2>1, <2>2, <2>3, <2>4, <2>5, <2>6, <2>7, <2>8, <2>9, <2>10,
             <2>11, <2>12, <2>13, <2>14, <2>15, <2>16 DEF ChainNext
<1> QED BY <1>1, <1>2 DEF Next

\* Type correctness of the core's packet state.
THEOREM TypeCorrect == Spec => []TypeOK
BY TypeInit, TypeStep, PTL DEF Spec

-----------------------------------------------------------------------------
(* What the store operations write.                                        *)

\* The other chain is a chain, and not this one.
LEMMA OtherChain ==
    ASSUME NEW c \in Chains
    PROVE  Other(c) \in Chains /\ Other(c) # c /\ Other(Other(c)) = c
BY ChainsAssumption DEF Chains, Other

\* setCommitment writes one path of one chain, in memory and in the mirror.
LEMMA SetCommitmentEffect ==
    ASSUME TypeOK, NEW c \in Chains, NEW x, NEW v, SetCommitment(c, x, v)
    PROVE  \A e \in Chains, y \in Paths :
              /\ commitments'[e][y] =
                    IF e = c /\ y = x THEN v ELSE commitments[e][y]
              /\ params'[e][y] = IF e = c /\ y = x THEN v ELSE params[e][y]
BY DEF SetCommitment, SetCommitments, Overlay, TypeOK

\* A receive writes the receipts of the fresh packets and nothing else.
LEMMA ReceiveEffect ==
    ASSUME TypeOK, NEW c \in Chains, NEW fresh \in SUBSET Packet,
           NEW results \in [fresh -> RecvResults], Receive(c, fresh, results)
    PROVE  /\ \A p \in fresh :
                 /\ Receipt(c, p)' = ReceiptValue(results[p])
                 /\ commitments'[c][PacketAcknowledgementPath(p)] = Receipt(c, p)'
           /\ \A e \in Chains, y \in Paths :
                 (e # c \/ \A p \in fresh : y # PacketAcknowledgementPath(p)) =>
                    /\ commitments'[e][y] = commitments[e][y]
                    /\ params'[e][y] = params[e][y]
<1> DEFINE w == [x \in {PacketAcknowledgementPath(p) : p \in fresh} |->
                   ReceiptValue(results[CHOOSE p \in fresh :
                                    x = PacketAcknowledgementPath(p)])]
<1>1. SetCommitments(c, w)
  BY DEF Receive
<1>2. DOMAIN w = {PacketAcknowledgementPath(p) : p \in fresh}
  OBVIOUS
<1>3. ASSUME NEW p \in fresh
      PROVE  w[PacketAcknowledgementPath(p)] = ReceiptValue(results[p])
  <2>1. p = CHOOSE q \in fresh :
                PacketAcknowledgementPath(p) = PacketAcknowledgementPath(q)
    BY PathsDistinct
  <2> QED BY <2>1
<1> HIDE DEF w
<1>4. \A e \in Chains, y \in Paths :
         /\ commitments'[e][y] =
               IF e = c /\ y \in DOMAIN w THEN w[y] ELSE commitments[e][y]
         /\ params'[e][y] = IF e = c /\ y \in DOMAIN w THEN w[y] ELSE params[e][y]
  BY <1>1 DEF SetCommitments, Overlay, TypeOK
<1> QED BY <1>2, <1>3, <1>4, PathsOfBatches DEF Receipt

\* Retiring packets touches only their commitments, and only in memory.
LEMMA AcknowledgedEffect ==
    ASSUME TypeOK, NEW c \in Chains, NEW ps \in SUBSET Packet,
           SetPacketsAcknowledged(c, ps)
    PROVE  /\ params' = params
           /\ \A p \in ps : commitments'[c][PacketCommitmentPath(p)] = MagicAck
           /\ \A e \in Chains, y \in Paths :
                 (e # c \/ \A p \in ps : y # PacketCommitmentPath(p)) =>
                    commitments'[e][y] = commitments[e][y]
BY PathsOfBatches DEF SetPacketsAcknowledged, Overlay, TypeOK

\* An application's answer always leaves a receipt.
LEMMA ReceiptValuePresent == \A r : ReceiptValue(r) # Absent
BY ValuesDistinct DEF ReceiptValue

-----------------------------------------------------------------------------
(* A timeout and a receipt exclude each other.                             *)

\* No receipt appears, disappears or parts from its mirror in this step.
ReceiptsKept ==
    \A e \in Chains, p \in Packet :
        /\ (Receipt(e, p) = Absent) <=> (Receipt(e, p)' = Absent)
        /\ commitments'[e][PacketAcknowledgementPath(p)] = Receipt(e, p)'

\* The invariant survives every step that makes no block, no receipt and no
\* timeout.
LEMMA QuietStep ==
    ASSUME TimeoutInv, TypeOK', ReceiptsKept, UNCHANGED <<now, headers, timedOut>>,
           ClientsKnow'
    PROVE  TimeoutInv'
<1>1. HeadersPast'
  BY DEF TimeoutInv, HeadersPast, Heights
<1>2. ReceiptsMirrored'
  BY DEF ReceiptsKept, ReceiptsMirrored, Receipt
<1>3. ReceiptsInTime'
  BY DEF TimeoutInv, ReceiptsInTime, ReceiptsKept, Heights, Receipt
<1>4. TimeoutExcludesReceipt'
  BY OtherChain DEF TimeoutInv, TimeoutExcludesReceipt, ReceiptsKept, Receipt
<1> QED BY <1>1, <1>2, <1>3, <1>4 DEF TimeoutInv

\* Writing a path that is no packet's receipt keeps all receipts.
LEMMA OtherPathKeepsReceipts ==
    ASSUME TypeOK, ReceiptsMirrored, NEW c \in Chains, NEW x, NEW v,
           SetCommitment(c, x, v),
           \A p \in Packet : x # PacketAcknowledgementPath(p)
    PROVE  ReceiptsKept
BY SetCommitmentEffect, PathsOfBatches DEF ReceiptsKept, ReceiptsMirrored, Receipt

\* A batch of two or more packets is not filed under a packet's receipt.
LEMMA BatchPathIsNoReceipt ==
    ASSUME NEW b \in Batches, Len(b) >= 2, NEW p \in Packet
    PROVE  BatchReceiptsPath(CommitPackets(b)) # PacketAcknowledgementPath(p)
<1>1. Len(<<p>>) = 1
  OBVIOUS
<1>2. b # <<p>>
  BY <1>1, BatchMembers
<1> QED BY <1>2 DEF BatchReceiptsPath, PacketAcknowledgementPath, CommitPacket,
                    CommitPackets

\* A header's time is a number.
LEMMA HeaderTime ==
    ASSUME TypeOK, NEW c \in Chains, NEW h \in Heights(c)
    PROVE  headers[c][h] \in Header /\ headers[c][h].time \in Nat
<1>1. headers[c] \in Seq(Header)
  BY DEF TypeOK
<1>2. headers[c][h] \in Header
  BY <1>1 DEF Heights
<1> QED BY <1>2 DEF Header

\* The receipts of a receive are in time: acceptRecvPacket compares the
\* timeout with the block time, and no header is from the future.
LEMMA ReceiveStep ==
    ASSUME TimeoutInv, TypeOK', NEW c \in Chains, NEW b \in Batches,
           NEW n \in 1..Len(b), Acceptable(c, b, n),
           NEW results \in [Fresh(c, b, n) -> RecvResults],
           Receive(c, Fresh(c, b, n), results),
           UNCHANGED <<now, headers, client, timedOut>>
    PROVE  TimeoutInv'
<1> DEFINE fresh == Fresh(c, b, n)
<1>1. fresh \in SUBSET Packet
  BY FreshType
<1>2. \A p \in fresh : now[c] < p.timeout
  BY DEF Acceptable, Fresh, InTime
<1>3. /\ \A p \in fresh : /\ Receipt(c, p)' # Absent
                          /\ commitments'[c][PacketAcknowledgementPath(p)]
                                = Receipt(c, p)'
      /\ \A e \in Chains, p \in Packet : (e # c \/ p \notin fresh) =>
            /\ Receipt(e, p)' = Receipt(e, p)
            /\ commitments'[e][PacketAcknowledgementPath(p)]
                  = commitments[e][PacketAcknowledgementPath(p)]
  <2>1. TypeOK
    BY DEF TimeoutInv
  <2>2. \A p \in fresh :
           /\ Receipt(c, p)' = ReceiptValue(results[p])
           /\ commitments'[c][PacketAcknowledgementPath(p)] = Receipt(c, p)'
    BY <1>1, <2>1, ReceiveEffect
  <2>3. \A e \in Chains, y \in Paths :
           (e # c \/ \A p \in fresh : y # PacketAcknowledgementPath(p)) =>
              /\ commitments'[e][y] = commitments[e][y]
              /\ params'[e][y] = params[e][y]
    BY <1>1, <2>1, ReceiveEffect
  <2> HIDE DEF fresh
  <2>4. ASSUME NEW e \in Chains, NEW p \in Packet, e # c \/ p \notin fresh
        PROVE  /\ Receipt(e, p)' = Receipt(e, p)
               /\ commitments'[e][PacketAcknowledgementPath(p)]
                     = commitments[e][PacketAcknowledgementPath(p)]
    BY <2>3, <2>4, PathsOfBatches, PathsDistinct DEF Receipt
  <2> QED BY <2>2, <2>4, ReceiptValuePresent
<1> HIDE DEF fresh
<1>4. HeadersPast' /\ ClientsKnow'
  BY DEF TimeoutInv, HeadersPast, ClientsKnow, Heights
<1>5. ReceiptsMirrored'
  BY <1>3 DEF TimeoutInv, ReceiptsMirrored, Receipt
<1>6. ReceiptsInTime'
  <2> SUFFICES ASSUME NEW e \in Chains, NEW p \in Packet, NEW h \in Heights(e),
                      Receipt(e, p)' # Absent,
                      headers[e][h].params[PacketAcknowledgementPath(p)] = Absent
               PROVE  headers[e][h].time < p.timeout
    BY DEF ReceiptsInTime, Heights, Receipt
  <2>1. CASE e = c /\ p \in fresh
    <3>1. headers[c][h].time <= now[c] /\ now[c] < p.timeout
      BY <2>1, <1>2 DEF TimeoutInv, HeadersPast
    <3>2. headers[c][h].time \in Nat /\ now[c] \in Nat /\ p.timeout \in Nat
      BY <2>1, NumbersAssumption, HeaderTime DEF TimeoutInv, TypeOK, Packet
    <3> QED BY <2>1, <3>1, <3>2
  <2>2. CASE e # c \/ p \notin fresh
    BY <2>2, <1>3 DEF TimeoutInv, ReceiptsInTime
  <2> QED BY <2>1, <2>2
<1>7. TimeoutExcludesReceipt'
  <2> SUFFICES ASSUME NEW e \in Chains, NEW p \in Packet, timedOut[e][p] > 0
               PROVE  Receipt(Other(e), p)' = Absent /\ now[Other(e)] >= p.timeout
    BY DEF TimeoutExcludesReceipt, Receipt
  <2>1. Receipt(Other(e), p) = Absent /\ now[Other(e)] >= p.timeout
    BY DEF TimeoutInv, TimeoutExcludesReceipt
  <2>2. ~(Other(e) = c /\ p \in fresh)
    <3>1. now[Other(e)] \in Nat /\ p.timeout \in Nat
      BY OtherChain, NumbersAssumption DEF TimeoutInv, TypeOK, Packet
    <3> QED BY <3>1, <2>1, <1>2
  <2> QED BY <2>1, <2>2, <1>3, OtherChain
<1> QED BY <1>4, <1>5, <1>6, <1>7 DEF TimeoutInv

\* A new block is later than the headers before it and commits to every
\* receipt there is.
LEMMA NewBlockStep ==
    ASSUME TimeoutInv, TypeOK', NEW c \in Chains, NEW t \in 1..MaxTime,
           NewBlock(c, t)
    PROVE  TimeoutInv'
<1> DEFINE header == [time |-> t, params |-> params[c], channel |-> channel[c]]
<1>1. /\ headers'[c] = Append(headers[c], header)
      /\ \A e \in Chains : e # c => headers'[e] = headers[e]
      /\ now'[c] = t /\ t > now[c]
      /\ \A e \in Chains : e # c => now'[e] = now[e]
      /\ UNCHANGED <<commitments, params, client, timedOut>>
  BY DEF NewBlock, TimeoutInv, TypeOK, history
<1>2. header \in Header /\ headers[c] \in Seq(Header) /\ t \in Nat
  <2>1. params[c] \in [Paths -> Values] /\ t \in Nat
        /\ channel[c] \in [ChannelIds -> ChannelStates]
    BY NumbersAssumption DEF TimeoutInv, TypeOK
  <2>2. header \in Header
    BY <2>1 DEF Header
  <2> QED BY <2>1, <2>2 DEF TimeoutInv, TypeOK
<1>3. \A e \in Chains : now[e] \in Nat /\ now'[e] \in Nat /\ now[e] <= now'[e]
  <2>1. \A e \in Chains : now[e] \in Nat /\ now'[e] \in Nat
    BY DEF TimeoutInv, TypeOK
  <2> QED BY <1>1, <1>2, <2>1
<1> HIDE DEF header
<1>4. /\ Len(headers'[c]) = Len(headers[c]) + 1
      /\ Len(headers[c]) \in Nat
      /\ \A h \in 1..Len(headers[c]) : headers'[c][h] = headers[c][h]
      /\ headers'[c][Len(headers[c]) + 1] = header
  BY <1>1, <1>2, AppendProperties, LenProperties
<1>5. ASSUME NEW e \in Chains, NEW h \in Heights(e)'
      PROVE  \/ h \in Heights(e) /\ headers'[e][h] = headers[e][h]
             \/ e = c /\ headers'[e][h] = header
  <2>1. CASE e # c
    BY <2>1, <1>1 DEF Heights
  <2>2. CASE e = c
    <3>1. h \in 1..(Len(headers[c]) + 1)
      BY <2>2, <1>4 DEF Heights
    <3>2. h \in 1..Len(headers[c]) \/ h = Len(headers[c]) + 1
      BY <3>1, <1>4
    <3> QED BY <2>2, <3>2, <1>4 DEF Heights
  <2> QED BY <2>1, <2>2
<1>6. \A e \in Chains : Heights(e) \subseteq Heights(e)'
  BY <1>1, <1>4 DEF Heights
<1>7. HeadersPast'
  <2>1. ASSUME NEW e \in Chains PROVE headers'[e] # <<>>
    <3>1. CASE e = c
      BY <3>1, <1>1, <1>2, AppendProperties
    <3>2. CASE e # c
      BY <3>2, <1>1 DEF TimeoutInv, HeadersPast
    <3> QED BY <3>1, <3>2
  <2>2. ASSUME NEW e \in Chains, NEW h \in Heights(e)'
        PROVE  headers'[e][h].time <= now'[e]
    <3>1. CASE h \in Heights(e) /\ headers'[e][h] = headers[e][h]
      <4>1. headers[e][h].time <= now[e] /\ headers[e][h].time \in Nat
        BY <3>1, HeaderTime DEF TimeoutInv, HeadersPast
      <4> QED BY <4>1, <3>1, <1>3
    <3>2. CASE e = c /\ headers'[e][h] = header
      BY <3>2, <1>1, <1>2 DEF header
    <3> QED BY <3>1, <3>2, <1>5
  <2> QED BY <2>1, <2>2 DEF HeadersPast
<1>8. ClientsKnow'
  BY <1>1, <1>6, OtherChain DEF TimeoutInv, ClientsKnow
<1>9. ReceiptsMirrored'
  BY <1>1 DEF TimeoutInv, ReceiptsMirrored, Receipt
<1>10. ReceiptsInTime'
  <2> SUFFICES ASSUME NEW e \in Chains, NEW p \in Packet, NEW h \in Heights(e)',
                      Receipt(e, p) # Absent,
                      headers'[e][h].params[PacketAcknowledgementPath(p)] = Absent
               PROVE  headers'[e][h].time < p.timeout
    BY <1>1 DEF ReceiptsInTime, Receipt
  <2>1. CASE h \in Heights(e) /\ headers'[e][h] = headers[e][h]
    BY <2>1 DEF TimeoutInv, ReceiptsInTime
  <2>2. CASE e = c /\ headers'[e][h] = header
    BY <2>2 DEF header, Receipt
  <2> QED BY <2>1, <2>2, <1>5
<1>11. TimeoutExcludesReceipt'
  <2> SUFFICES ASSUME NEW e \in Chains, NEW p \in Packet, timedOut[e][p] > 0
               PROVE  Receipt(Other(e), p) = Absent /\ now'[Other(e)] >= p.timeout
    BY <1>1 DEF TimeoutExcludesReceipt, Receipt
  <2>1. Receipt(Other(e), p) = Absent /\ now[Other(e)] >= p.timeout
    BY DEF TimeoutInv, TimeoutExcludesReceipt
  <2>2. p.timeout \in Nat
    BY NumbersAssumption DEF Packet
  <2> QED BY <2>1, <2>2, <1>3, OtherChain
<1> QED BY <1>7, <1>8, <1>9, <1>10, <1>11 DEF TimeoutInv

\* A proven timeout: the header that misses the receipt is at or after the
\* timeout, so there is no receipt now and the clock is past the timeout.
LEMMA TimeoutStep ==
    ASSUME TimeoutInv, TypeOK', NEW c \in Chains, NEW h \in client[c].heights,
           NEW p \in Packet, PacketTimeout(c, h, p)
    PROVE  TimeoutInv'
<1>1. TypeOK
  BY DEF TimeoutInv
<1>2. /\ params' = params
      /\ \A e \in Chains, q \in Packet :
            commitments'[e][PacketAcknowledgementPath(q)]
               = commitments[e][PacketAcknowledgementPath(q)]
  BY <1>1, AcknowledgedEffect, PathsDistinct, PathsOfBatches DEF PacketTimeout
<1>3. UNCHANGED <<now, headers, client>>
  BY DEF PacketTimeout
<1>4. HeadersPast' /\ ClientsKnow'
  BY <1>3 DEF TimeoutInv, HeadersPast, ClientsKnow, Heights
<1>5. ReceiptsMirrored' /\ ReceiptsInTime'
  BY <1>2, <1>3 DEF TimeoutInv, ReceiptsMirrored, ReceiptsInTime, Receipt, Heights
<1>6. Receipt(Other(c), p) = Absent /\ now[Other(c)] >= p.timeout
  <2>1. /\ h \in Heights(Other(c))
        /\ headers[Other(c)][h].params[PacketAcknowledgementPath(p)] = Absent
        /\ p.timeout <= headers[Other(c)][h].time
    BY DEF TimeoutInv, ClientsKnow, PacketTimeout, VerifyNonMembership, Root
  <2>2. /\ headers[Other(c)][h].time \in Nat
        /\ headers[Other(c)][h].time <= now[Other(c)]
        /\ p.timeout \in Nat /\ now[Other(c)] \in Nat
    BY <1>1, <2>1, HeaderTime, OtherChain, NumbersAssumption
       DEF TimeoutInv, HeadersPast, Packet, TypeOK
  <2>3. ~(headers[Other(c)][h].time < p.timeout)
    BY <2>1, <2>2
  <2>4. Receipt(Other(c), p) = Absent
    BY <2>1, <2>3, OtherChain DEF TimeoutInv, ReceiptsInTime
  <2> QED BY <2>1, <2>2, <2>4
<1>7. \A e \in Chains, q \in Packet :
         timedOut'[e][q] > 0 => timedOut[e][q] > 0 \/ (e = c /\ q = p)
  BY <1>1 DEF PacketTimeout, Counted, TypeOK
<1>8. TimeoutExcludesReceipt'
  <2> SUFFICES ASSUME NEW e \in Chains, NEW q \in Packet, timedOut'[e][q] > 0
               PROVE  Receipt(Other(e), q) = Absent /\ now[Other(e)] >= q.timeout
    BY <1>2, <1>3 DEF TimeoutExcludesReceipt, Receipt
  <2>1. CASE timedOut[e][q] > 0
    BY <2>1 DEF TimeoutInv, TimeoutExcludesReceipt
  <2>2. CASE e = c /\ q = p
    BY <2>2, <1>6
  <2> QED BY <2>1, <2>2, <1>7
<1> QED BY <1>4, <1>5, <1>8 DEF TimeoutInv

\* Initially there is one header, no receipt and no timeout.
LEMMA TimeoutInvInit == Init => TimeoutInv
<1> SUFFICES ASSUME Init PROVE TimeoutInv
  OBVIOUS
<1>1. TypeOK
  BY TypeInit
<1>2. HeadersPast /\ ClientsKnow
  BY OtherChain DEF Init, HeadersPast, ClientsKnow, Heights
<1>3. \A c \in Chains, p \in Packet :
         /\ commitments[c][PacketAcknowledgementPath(p)] = Absent
         /\ Receipt(c, p) = Absent
         /\ timedOut[c][p] = 0
  BY PathsOfBatches DEF Init, Receipt
<1> QED BY <1>1, <1>2, <1>3
        DEF TimeoutInv, ReceiptsMirrored, ReceiptsInTime, TimeoutExcludesReceipt

\* Every step preserves the invariant.
LEMMA TimeoutInvStep == TimeoutInv /\ [Next]_vars => TimeoutInv'
<1> SUFFICES ASSUME TimeoutInv, [Next]_vars PROVE TimeoutInv'
  OBVIOUS
<1>1. TypeOK /\ TypeOK' /\ ReceiptsMirrored /\ ClientsKnow
  BY TypeStep DEF TimeoutInv
<1>2. ASSUME UNCHANGED <<commitments, params>> PROVE ReceiptsKept
  BY <1>1, <1>2 DEF ReceiptsKept, ReceiptsMirrored, Receipt
<1>3. ASSUME UNCHANGED <<client, headers>> PROVE ClientsKnow'
  BY <1>1, <1>3 DEF ClientsKnow, Heights
<1>4. CASE UNCHANGED vars
  BY <1>1, <1>2, <1>3, <1>4, QuietStep DEF vars, history
<1>5. ASSUME NEW c \in Chains, ChainNext(c) PROVE TimeoutInv'
  <2>1. ASSUME NEW t \in 1..MaxTime, NewBlock(c, t) PROVE TimeoutInv'
    BY <2>1, <1>1, NewBlockStep
  <2>2. ASSUME NEW h \in Heights(Other(c)), UpdateClient(c, h) PROVE TimeoutInv'
    <3>1. ClientsKnow'
      BY <2>2, <1>1 DEF UpdateClient, ClientsKnow, Heights, TypeOK, Client
    <3> QED BY <2>2, <3>1, <1>1, <1>2, QuietStep DEF UpdateClient, history
  <2>3. CASE Misbehaviour(c)
    <3>1. ClientsKnow'
      BY <2>3, <1>1 DEF Misbehaviour, ClientsKnow, Heights, TypeOK, Client
    <3> QED BY <2>3, <3>1, <1>1, <1>2, QuietStep DEF Misbehaviour, history
  <2>4. ASSUME NEW h \in Heights(Other(c)), ForceUpdateClient(c, h)
        PROVE  TimeoutInv'
    <3>1. ClientsKnow'
      BY <2>4, <1>1 DEF ForceUpdateClient, ClientsKnow, Heights, TypeOK, Client
    <3> QED BY <2>4, <3>1, <1>1, <1>2, QuietStep DEF ForceUpdateClient, history
  <2>5. ASSUME NEW i \in ChannelIds, NEW d \in Data, NEW t \in Timeouts,
               SendPacket(c, i, d, t)
        PROVE  TimeoutInv'
    <3>1. ReceiptsKept
      BY <2>5, <1>1, PathsDistinct, OtherPathKeepsReceipts DEF SendPacket
    <3> QED BY <2>5, <3>1, <1>1, <1>3, QuietStep DEF SendPacket
  <2>6. ASSUME NEW b \in Batches, BatchSend(c, b) PROVE TimeoutInv'
    <3>1. ReceiptsKept
      BY <2>6, <1>1, PathsDistinct, OtherPathKeepsReceipts
         DEF BatchSend, PacketAcknowledgementPath
    <3> QED BY <2>6, <3>1, <1>1, <1>3, QuietStep DEF BatchSend, history
  <2>7. ASSUME NEW h \in client[c].heights, NEW b \in Batches, NEW n \in 1..Len(b),
               PacketRecv(c, h, b, n)
        PROVE  TimeoutInv'
    BY <2>7, <1>1, ReceiveStep DEF PacketRecv
  <2>8. ASSUME NEW b \in Batches, NEW n \in 1..Len(b), IntentPacketRecv(c, b, n)
        PROVE  TimeoutInv'
    BY <2>8, <1>1, ReceiveStep DEF IntentPacketRecv
  <2>9. ASSUME NEW p \in Packet, NEW a \in Acks, WriteAcknowledgement(c, p, a)
        PROVE  TimeoutInv'
    <3>1. ReceiptsKept
      <4>1. SetCommitment(c, PacketAcknowledgementPath(p), CommitAcks(<<a>>))
        BY <2>9 DEF WriteAcknowledgement
      <4>2. Receipt(c, p) # Absent
        BY <2>9, <1>1, ValuesDistinct DEF WriteAcknowledgement, AckDue, ReceiptsMirrored
      <4> QED BY <4>1, <4>2, <1>1, SetCommitmentEffect, PathsOfBatches,
                 PathsDistinct, ValuesDistinct
              DEF ReceiptsKept, ReceiptsMirrored, Receipt
    <3> QED BY <2>9, <3>1, <1>1, <1>3, QuietStep DEF WriteAcknowledgement, history
  <2>10. ASSUME NEW b \in Batches, NEW acks \in AckBatches, BatchAcks(c, b, acks)
         PROVE  TimeoutInv'
    <3>1. ReceiptsKept
      BY <2>10, <1>1, BatchPathIsNoReceipt, OtherPathKeepsReceipts DEF BatchAcks
    <3> QED BY <2>10, <3>1, <1>1, <1>3, QuietStep DEF BatchAcks, history
  <2>11. ASSUME NEW h \in client[c].heights, NEW b \in Batches,
                NEW acks \in AckBatches, PacketAcknowledgement(c, h, b, acks)
         PROVE  TimeoutInv'
    <3> DEFINE n == IF Len(acks) < Len(b) THEN Len(acks) ELSE Len(b)
               packets == {b[k] : k \in 1..n}
    <3>1. n \in Nat /\ n <= Len(b) /\ Len(b) \in Nat
      BY AckBatchMembers, BatchMembers
    <3>2. packets \in SUBSET Packet
      <4> HIDE DEF n
      <4> QED BY <3>1, BatchMembers
    <3>3. SetPacketsAcknowledged(c, packets)
      BY <2>11 DEF PacketAcknowledgement
    <3> HIDE DEF packets, n
    <3>4. ReceiptsKept
      BY <3>2, <3>3, <1>1, AcknowledgedEffect, PathsDistinct, PathsOfBatches
         DEF ReceiptsKept, ReceiptsMirrored, Receipt
    <3> QED BY <2>11, <3>4, <1>1, <1>3, QuietStep DEF PacketAcknowledgement
  <2>12. ASSUME NEW h \in client[c].heights, NEW p \in Packet,
                PacketTimeout(c, h, p)
         PROVE  TimeoutInv'
    BY <2>12, <1>1, TimeoutStep
  <2>13. ASSUME NEW h \in client[c].heights, NEW x \in RecordedPaths,
                NEW v \in Values, CommitMembershipProof(c, h, x, v)
         PROVE  TimeoutInv'
    BY <2>13, <1>1, <1>2, <1>3, QuietStep DEF CommitMembershipProof, history
  <2>14. ASSUME NEW h \in client[c].heights, NEW x \in RecordedPaths,
                CommitNonMembershipProof(c, h, x)
         PROVE  TimeoutInv'
    BY <2>14, <1>1, <1>2, <1>3, QuietStep DEF CommitNonMembershipProof, history
  <2>15. ASSUME NEW i \in ChannelIds, ChannelCloseInit(c, i) PROVE TimeoutInv'
    BY <2>15, <1>1, <1>2, <1>3, QuietStep DEF ChannelCloseInit, history
  <2>16. ASSUME NEW h \in client[c].heights, NEW i \in ChannelIds,
                ChannelCloseConfirm(c, h, i)
         PROVE  TimeoutInv'
    BY <2>16, <1>1, <1>2, <1>3, QuietStep DEF ChannelCloseConfirm, history
  <2> QED BY <1>5, <2>1, <2>2, <2>3, <2>4, <2>5, <2>6, <2>7, <2>8, <2>9, <2>10,
             <2>11, <2>12, <2>13, <2>14, <2>15, <2>16 DEF ChainNext
<1> QED BY <1>4, <1>5 DEF Next

\* Headers are of the past and clients know no others, receipts are mirrored,
\* and a header without a receipt that now exists is older than the packet's
\* timeout: the inductive invariant of TimeoutSafe.
THEOREM TimeoutInvariant == Spec => []TimeoutInv
BY TimeoutInvInit, TimeoutInvStep, PTL DEF Spec

\* A packet refunded by a timeout is never received, and a received packet
\* is never refunded by a timeout, for any packets, batches and blocks.
THEOREM TimeoutSafe == Spec => []TimeoutExcludesReceipt
<1>1. TimeoutInv => TimeoutExcludesReceipt
  BY DEF TimeoutInv
<1> QED BY <1>1, TimeoutInvariant, PTL

=============================================================================
