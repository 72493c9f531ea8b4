-------------------------- MODULE CoreDeliveryProof --------------------------
(***************************************************************************)
(* Packet delivery, proved for any number of channels, packets, batches    *)
(* and blocks: what the two cores store, prove to each other and tell      *)
(* their applications fits together, so that they implement                *)
(* PacketDelivery.                                                         *)
(***************************************************************************)
EXTENDS CorePacketProof

\* The paths under which receipts are stored.
IsReceiptPath(x) == \E p \in Packet : x = PacketAcknowledgementPath(p)

\* What a provable value may become: nothing else once it is there, except
\* that a receipt gets its acknowledgement.
Grown(old, new, x) ==
    old # Absent =>
        \/ new = old
        \/ old = Magic /\ new.kind = "ACKS" /\ IsReceiptPath(x)

ParamsGrow ==
    \A c \in Chains, x \in Paths : Grown(params[c][x], params'[c][x], x)

\* The commitment of a packet in memory tells how far its sender got with it.
SenderInv ==
    \A c \in Chains, p \in Packet :
        LET value == commitments[c][PacketCommitmentPath(p)] IN
        /\ value \in {Absent, Magic, MagicAck}
        /\ sent[c][p] = IF value = Absent THEN 0 ELSE 1
        /\ timedOut[c][p] + Len(acked[c][p]) = IF value = MagicAck THEN 1 ELSE 0
        /\ sent[c][p] = 1 => p.destination = Counterparty[c][p.source]

\* The receipt of a packet tells whether its receiver saw it.
ReceiverInv ==
    \A c \in Chains, p \in Packet :
        /\ Receipt(c, p) \in {Absent, Magic} \cup {CommitAcks(<<a>>) : a \in Acks}
        /\ recv[c][p] + intent[c][p] = IF Receipt(c, p) = Absent THEN 0 ELSE 1

Mirrored ==
    \A c \in Chains, x \in Paths :
        params[c][x] = IF commitments[c][x] = MagicAck THEN Magic
                       ELSE commitments[c][x]

\* The commitment to two or more packets, and the one to their answers.
Claims(c, b, acks) ==
    /\ Len(acks) = Len(b)
    /\ \A k \in 1..Len(b) : Receipt(c, b[k]) = CommitAcks(<<acks[k]>>)

BatchInv ==
    \A c \in Chains, b \in Batches :
        Len(b) >= 2 =>
            /\ \/ params[c][BatchPacketsPath(CommitPackets(b))] = Absent
               \/ /\ params[c][BatchPacketsPath(CommitPackets(b))] = Magic
                  /\ \A k \in 1..Len(b) : sent[c][b[k]] = 1
            /\ \/ params[c][BatchReceiptsPath(CommitPackets(b))] = Absent
               \/ \E acks \in AckBatches :
                     /\ params[c][BatchReceiptsPath(CommitPackets(b))]
                           = CommitAcks(acks)
                     /\ Claims(c, b, acks)

StoreInv == SenderInv /\ ReceiverInv /\ Mirrored /\ BatchInv

\* What a header proves still holds of its chain.
HeadersHold ==
    \A c \in Chains : \A h \in Heights(c) : \A x \in Paths :
        Grown(headers[c][h].params[x], params[c][x], x)

\* Proofs on record were read off a header.
ProofsFromHeaders ==
    \A c \in Chains : \A r \in proofs[c] :
        /\ r.height \in Heights(Other(c))
        /\ headers[Other(c)][r.height].params[r.path] = r.value

DeliveryInv ==
    /\ TimeoutInv
    /\ StoreInv
    /\ HeadersHold
    /\ ProofsFromHeaders
    /\ AckIsReceivers
    /\ RecvWasSent

-----------------------------------------------------------------------------
(* Paths and values.                                                       *)

\* Commitments to acknowledgements tell sequences of them apart and are of a
\* kind of their own.
LEMMA AckValues ==
    /\ Absent.kind = "ABSENT" /\ Magic.kind = "MAGIC" /\ MagicAck.kind = "MAGIC_ACK"
    /\ \A s : CommitAcks(s).kind = "ACKS" /\ CommitAcks(s).acks = s
    /\ \A s, t : CommitAcks(s) = CommitAcks(t) => s = t
    /\ \A a, b : CommitAcks(<<a>>) = CommitAcks(<<b>>) => a = b
<1>1. \A s : CommitAcks(s).kind = "ACKS" /\ CommitAcks(s).acks = s
  BY DEF CommitAcks
<1>2. \A s, t : CommitAcks(s) = CommitAcks(t) => s = t
  BY <1>1
<1>3. \A a, b : CommitAcks(<<a>>) = CommitAcks(<<b>>) => a = b
  <2> TAKE a, b
  <2> HAVE CommitAcks(<<a>>) = CommitAcks(<<b>>)
  <2>1. <<a>> = <<b>>
    BY <1>2
  <2> QED BY <2>1
<1> QED BY <1>1, <1>2, <1>3 DEF Absent, Magic, MagicAck

\* Batches have paths of their own.
LEMMA BatchPaths ==
    /\ \A b, d : BatchPacketsPath(CommitPackets(b)) = BatchPacketsPath(CommitPackets(d))
                    => b = d
    /\ \A b, d : BatchReceiptsPath(CommitPackets(b)) = BatchReceiptsPath(CommitPackets(d))
                    => b = d
BY DEF BatchPacketsPath, BatchReceiptsPath, CommitPackets

\* A batch of two or more is not filed as one packet.
LEMMA BatchIsNoPacket ==
    ASSUME NEW b \in Batches, Len(b) >= 2
    PROVE  \A p \in Packet :
              /\ BatchPacketsPath(CommitPackets(b)) # PacketCommitmentPath(p)
              /\ BatchReceiptsPath(CommitPackets(b)) # PacketAcknowledgementPath(p)
              /\ BatchPacketsPath(CommitPackets(b)) # PacketAcknowledgementPath(p)
              /\ BatchReceiptsPath(CommitPackets(b)) # PacketCommitmentPath(p)
<1> SUFFICES ASSUME NEW p \in Packet
             PROVE  b # <<p>>
  BY BatchPaths, PathsDistinct DEF PacketCommitmentPath, PacketAcknowledgementPath, CommitPacket
<1>1. Len(<<p>>) = 1
  OBVIOUS
<1> QED BY <1>1, BatchMembers

\* A batch of one is that packet.
LEMMA BatchOfOne ==
    ASSUME NEW b \in Batches, ~(Len(b) >= 2)
    PROVE  /\ Len(b) = 1
           /\ b[1] \in Packet
           /\ BatchPacketsPath(CommitPackets(b)) = PacketCommitmentPath(b[1])
           /\ BatchReceiptsPath(CommitPackets(b)) = PacketAcknowledgementPath(b[1])
<1>1. Len(b) = 1 /\ b[1] \in Packet
  <2>1. Len(b) \in Nat /\ Len(b) >= 1 /\ \A k \in 1..Len(b) : b[k] \in Packet
    BY BatchMembers
  <2>2. Len(b) = 1
    BY <2>1
  <2> QED BY <2>1, <2>2
<1>2. b \in Seq(Packet)
  BY BatchesAssumption
<1>3. b = <<b[1]>>
  <2>1. <<b[1]>> \in Seq(Packet) /\ Len(<<b[1]>>) = 1 /\ <<b[1]>>[1] = b[1]
    BY <1>1
  <2> QED BY <1>1, <1>2, <2>1, SeqEqual
<1> QED BY <1>1, <1>3 DEF PacketCommitmentPath, PacketAcknowledgementPath, CommitPacket

\* What a batch commitment means, for one packet and for more.
LEMMA BatchValues ==
    ASSUME StoreInv, TypeOK, NEW c \in Chains, NEW b \in Batches
    PROVE  /\ params[c][BatchPacketsPath(CommitPackets(b))] \in {Absent, Magic}
           /\ params[c][BatchPacketsPath(CommitPackets(b))] = Magic =>
                 \A k \in 1..Len(b) : sent[c][b[k]] = 1
           /\ \A acks : params[c][BatchReceiptsPath(CommitPackets(b))]
                           = CommitAcks(acks) => Claims(c, b, acks)
<1>1. CASE Len(b) >= 2
  BY <1>1, AckValues, ValuesDistinct DEF StoreInv, BatchInv
<1>2. CASE ~(Len(b) >= 2)
  <2>1. /\ Len(b) = 1 /\ b[1] \in Packet
        /\ BatchPacketsPath(CommitPackets(b)) = PacketCommitmentPath(b[1])
        /\ BatchReceiptsPath(CommitPackets(b)) = PacketAcknowledgementPath(b[1])
    BY <1>2, BatchOfOne
  <2>2. /\ params[c][PacketCommitmentPath(b[1])] \in {Absent, Magic}
        /\ params[c][PacketCommitmentPath(b[1])] = Magic => sent[c][b[1]] = 1
    BY <2>1, PathsOfBatches, ValuesDistinct DEF StoreInv, SenderInv, Mirrored
  <2>3. ASSUME NEW acks, Receipt(c, b[1]) = CommitAcks(acks)
        PROVE  Claims(c, b, acks)
    <3>1. PICK a \in Acks : Receipt(c, b[1]) = CommitAcks(<<a>>)
      BY <2>1, <2>3, ValuesDistinct DEF StoreInv, ReceiverInv
    <3>2. acks = <<a>>
      BY <2>3, <3>1, AckValues
    <3>3. Len(acks) = 1 /\ acks[1] = a
      BY <3>2
    <3> QED BY <2>1, <3>1, <3>3 DEF Claims
  <2> QED BY <2>1, <2>2, <2>3 DEF Receipt
<1> QED BY <1>1, <1>2

\* Values only grow from one header to the next.
LEMMA GrownTransitive ==
    ASSUME NEW u, NEW v, NEW w, NEW x, Grown(u, v, x), Grown(v, w, x)
    PROVE  Grown(u, w, x)
BY AckValues DEF Grown

-----------------------------------------------------------------------------
(* Steps that leave a part of the store alone.                             *)

\* The sender's side is untouched when no packet commitment changes.
LEMMA SenderKept ==
    ASSUME SenderInv, UNCHANGED <<sent, acked, timedOut>>,
           \A c \in Chains, p \in Packet :
              commitments'[c][PacketCommitmentPath(p)]
                 = commitments[c][PacketCommitmentPath(p)]
    PROVE  SenderInv'
BY DEF SenderInv

\* The receiver's side is untouched when no receipt changes.
LEMMA ReceiverKept ==
    ASSUME ReceiverInv, UNCHANGED <<recv, intent>>,
           \A c \in Chains, p \in Packet : Receipt(c, p)' = Receipt(c, p)
    PROVE  ReceiverInv'
BY DEF ReceiverInv

\* Batches keep their meaning when sent packets stay sent and answers stay.
LEMMA BatchKept ==
    ASSUME BatchInv,
           \A c \in Chains, b \in Batches : Len(b) >= 2 =>
              /\ params'[c][BatchPacketsPath(CommitPackets(b))]
                    = params[c][BatchPacketsPath(CommitPackets(b))]
              /\ params'[c][BatchReceiptsPath(CommitPackets(b))]
                    = params[c][BatchReceiptsPath(CommitPackets(b))],
           \A c \in Chains, p \in Packet : sent[c][p] = 1 => sent'[c][p] = 1,
           \A c \in Chains, p \in Packet : \A a :
              Receipt(c, p) = CommitAcks(<<a>>) => Receipt(c, p)' = CommitAcks(<<a>>)
    PROVE  BatchInv'
<1> SUFFICES ASSUME NEW c \in Chains, NEW b \in Batches, Len(b) >= 2
             PROVE  /\ \/ params'[c][BatchPacketsPath(CommitPackets(b))] = Absent
                       \/ /\ params'[c][BatchPacketsPath(CommitPackets(b))] = Magic
                          /\ \A k \in 1..Len(b) : sent'[c][b[k]] = 1
                    /\ \/ params'[c][BatchReceiptsPath(CommitPackets(b))] = Absent
                       \/ \E acks \in AckBatches :
                             /\ params'[c][BatchReceiptsPath(CommitPackets(b))]
                                   = CommitAcks(acks)
                             /\ Claims(c, b, acks)'
  BY DEF BatchInv
<1>1. \A k \in 1..Len(b) : b[k] \in Packet
  BY BatchMembers
<1>2. \A acks : Claims(c, b, acks) => Claims(c, b, acks)'
  BY <1>1 DEF Claims
<1> QED BY <1>1, <1>2 DEF BatchInv

-----------------------------------------------------------------------------
(* Each write of the store keeps StoreInv and only lets the mirror grow.   *)

\* SendPacket: the path was free in memory, so it was free in the mirror.
LEMMA SendStore ==
    ASSUME StoreInv, TypeOK, NEW c \in Chains, NEW i \in ChannelIds,
           NEW d \in Data, NEW t \in Timeouts, SendPacket(c, i, d, t)
    PROVE  StoreInv' /\ ParamsGrow
<1> DEFINE p == [source |-> i, destination |-> Counterparty[c][i],
                 data |-> d, timeout |-> t]
<1>1. p \in Packet /\ p.destination = Counterparty[c][p.source]
  BY PairingAssumption DEF Packet
<1>2. /\ commitments[c][PacketCommitmentPath(p)] = Absent
      /\ SetCommitment(c, PacketCommitmentPath(p), Magic)
      /\ sent' = [sent EXCEPT ![c] = Counted(sent[c], {p})]
      /\ UNCHANGED <<recv, intent, acked, timedOut>>
  BY DEF SendPacket
<1> HIDE DEF p
<1>3. \A e \in Chains, y \in Paths :
         /\ commitments'[e][y] =
               IF e = c /\ y = PacketCommitmentPath(p) THEN Magic
               ELSE commitments[e][y]
         /\ params'[e][y] = IF e = c /\ y = PacketCommitmentPath(p) THEN Magic
                            ELSE params[e][y]
  BY <1>2, SetCommitmentEffect
<1>4. \A e \in Chains, q \in Packet :
         sent'[e][q] = IF e = c /\ q = p THEN sent[e][q] + 1 ELSE sent[e][q]
  BY <1>1, <1>2 DEF Counted, TypeOK
<1>5. params[c][PacketCommitmentPath(p)] = Absent
  BY <1>1, <1>2, PathsOfBatches, ValuesDistinct DEF StoreInv, Mirrored
<1>6. sent[c][p] = 0 /\ timedOut[c][p] + Len(acked[c][p]) = 0
  BY <1>1, <1>2, ValuesDistinct DEF StoreInv, SenderInv
<1>7. SenderInv'
  <2> SUFFICES ASSUME NEW e \in Chains, NEW q \in Packet
               PROVE  LET value == commitments'[e][PacketCommitmentPath(q)] IN
                      /\ value \in {Absent, Magic, MagicAck}
                      /\ sent'[e][q] = IF value = Absent THEN 0 ELSE 1
                      /\ timedOut[e][q] + Len(acked[e][q])
                            = IF value = MagicAck THEN 1 ELSE 0
                      /\ sent'[e][q] = 1 => q.destination = Counterparty[e][q.source]
    BY <1>2 DEF SenderInv
  <2>1. CASE e = c /\ q = p
    BY <2>1, <1>1, <1>3, <1>4, <1>6, PathsOfBatches, ValuesDistinct
  <2>2. CASE ~(e = c /\ q = p)
    BY <2>2, <1>3, <1>4, PathsOfBatches, PathsDistinct DEF StoreInv, SenderInv
  <2> QED BY <2>1, <2>2
<1>8. \A e \in Chains, q \in Packet : Receipt(e, q)' = Receipt(e, q)
  BY <1>3, PathsOfBatches, PathsDistinct DEF Receipt
<1>9. ReceiverInv'
  BY <1>2, <1>8, ReceiverKept DEF StoreInv
<1>10. Mirrored'
  BY <1>3, ValuesDistinct DEF StoreInv, Mirrored
<1>11. BatchInv'
  <2>1. \A e \in Chains, b \in Batches : Len(b) >= 2 =>
           /\ params'[e][BatchPacketsPath(CommitPackets(b))]
                 = params[e][BatchPacketsPath(CommitPackets(b))]
           /\ params'[e][BatchReceiptsPath(CommitPackets(b))]
                 = params[e][BatchReceiptsPath(CommitPackets(b))]
    BY <1>1, <1>3, PathsOfBatches, BatchIsNoPacket
  <2>2. \A e \in Chains, q \in Packet : sent[e][q] = 1 => sent'[e][q] = 1
    BY <1>4, <1>6
  <2> QED BY <2>1, <2>2, <1>8, BatchKept DEF StoreInv
<1>12. ParamsGrow
  BY <1>3, <1>5 DEF ParamsGrow, Grown
<1> QED BY <1>7, <1>9, <1>10, <1>11, <1>12 DEF StoreInv

\* BatchSend: every packet of the batch is sent, so the claim is true.
LEMMA BatchSendStore ==
    ASSUME StoreInv, TypeOK, NEW c \in Chains, NEW b \in Batches, BatchSend(c, b)
    PROVE  StoreInv' /\ ParamsGrow
<1> DEFINE x == BatchPacketsPath(CommitPackets(b))
<1>1. /\ Len(b) >= 2
      /\ \A k \in DOMAIN b : commitments[c][PacketCommitmentPath(b[k])] = Magic
      /\ SetCommitment(c, x, Magic)
      /\ UNCHANGED <<sent, recv, intent, acked, timedOut>>
  BY DEF BatchSend, history
<1>2. \A p \in Packet : x # PacketCommitmentPath(p) /\ x # PacketAcknowledgementPath(p)
  BY <1>1, BatchIsNoPacket
<1>3. \A d \in Batches : /\ x # BatchReceiptsPath(CommitPackets(d))
                         /\ x = BatchPacketsPath(CommitPackets(d)) => b = d
  BY PathsDistinct, BatchPaths
<1>4. params[c][x] \in {Absent, Magic}
  BY <1>1, BatchValues
<1> HIDE DEF x
<1>5. \A e \in Chains, y \in Paths :
         /\ commitments'[e][y] = IF e = c /\ y = x THEN Magic ELSE commitments[e][y]
         /\ params'[e][y] = IF e = c /\ y = x THEN Magic ELSE params[e][y]
  BY <1>1, SetCommitmentEffect
<1>6. \A k \in 1..Len(b) : sent[c][b[k]] = 1
  BY <1>1, BatchMembers, ValuesDistinct DEF StoreInv, SenderInv
<1>7. SenderInv'
  BY <1>1, <1>2, <1>5, PathsOfBatches, SenderKept DEF StoreInv
<1>8. \A e \in Chains, q \in Packet : Receipt(e, q)' = Receipt(e, q)
  BY <1>2, <1>5, PathsOfBatches DEF Receipt
<1>9. ReceiverInv'
  BY <1>1, <1>8, ReceiverKept DEF StoreInv
<1>10. Mirrored'
  BY <1>5, ValuesDistinct DEF StoreInv, Mirrored
<1>11. BatchInv'
  <2> SUFFICES ASSUME NEW e \in Chains, NEW d \in Batches, Len(d) >= 2
               PROVE  /\ \/ params'[e][BatchPacketsPath(CommitPackets(d))] = Absent
                         \/ /\ params'[e][BatchPacketsPath(CommitPackets(d))] = Magic
                            /\ \A k \in 1..Len(d) : sent[e][d[k]] = 1
                      /\ \/ params'[e][BatchReceiptsPath(CommitPackets(d))] = Absent
                         \/ \E acks \in AckBatches :
                               /\ params'[e][BatchReceiptsPath(CommitPackets(d))]
                                     = CommitAcks(acks)
                               /\ Claims(e, d, acks)'
    BY <1>1 DEF BatchInv
  <2>1. \A acks : Claims(e, d, acks)' <=> Claims(e, d, acks)
    BY <1>8, BatchMembers DEF Claims
  <2>2. params'[e][BatchReceiptsPath(CommitPackets(d))]
           = params[e][BatchReceiptsPath(CommitPackets(d))]
    BY <1>3, <1>5, PathsOfBatches
  <2>3. CASE e = c /\ d = b
    BY <2>1, <2>2, <2>3, <1>5, <1>6, PathsOfBatches DEF StoreInv, BatchInv, x
  <2>4. CASE ~(e = c /\ d = b)
    BY <2>1, <2>2, <2>4, <1>3, <1>5, PathsOfBatches DEF StoreInv, BatchInv
  <2> QED BY <2>3, <2>4
<1>12. ParamsGrow
  BY <1>4, <1>5 DEF ParamsGrow, Grown
<1> QED BY <1>7, <1>9, <1>10, <1>11, <1>12 DEF StoreInv

\* acceptRecvPacket: a receipt appears only where there was none.
LEMMA ReceiveStore ==
    ASSUME StoreInv, TypeOK, NEW c \in Chains, NEW b \in Batches, NEW n \in 1..Len(b),
           NEW results \in [Fresh(c, b, n) -> RecvResults],
           Receive(c, Fresh(c, b, n), results),
           UNCHANGED <<sent, acked, timedOut>>,
           \/ /\ recv' = [recv EXCEPT ![c] = Counted(recv[c], Fresh(c, b, n))]
              /\ intent' = intent
           \/ /\ intent' = [intent EXCEPT ![c] = Counted(intent[c], Fresh(c, b, n))]
              /\ recv' = recv
    PROVE  StoreInv' /\ ParamsGrow
<1> DEFINE fresh == Fresh(c, b, n)
<1>1. fresh \in SUBSET Packet
  BY FreshType
<1>2. \A p \in fresh : commitments[c][PacketAcknowledgementPath(p)] = Absent
  BY DEF Fresh
<1>3. \A p \in fresh : Receipt(c, p) = Absent
  BY <1>1, <1>2, PathsOfBatches, ValuesDistinct DEF StoreInv, Mirrored, Receipt
<1>4. /\ \A p \in fresh :
            /\ Receipt(c, p)' = ReceiptValue(results[p])
            /\ commitments'[c][PacketAcknowledgementPath(p)] = Receipt(c, p)'
      /\ \A e \in Chains, y \in Paths :
            (e # c \/ \A p \in fresh : y # PacketAcknowledgementPath(p)) =>
               /\ commitments'[e][y] = commitments[e][y]
               /\ params'[e][y] = params[e][y]
  BY <1>1, ReceiveEffect
<1>5. \A e \in Chains, q \in Packet :
         recv'[e][q] + intent'[e][q] = IF e = c /\ q \in fresh
                                       THEN recv[e][q] + intent[e][q] + 1
                                       ELSE recv[e][q] + intent[e][q]
  <2>1. \A e \in Chains, q \in Packet : recv[e][q] \in Nat /\ intent[e][q] \in Nat
    BY DEF TypeOK
  <2>2. CASE /\ recv' = [recv EXCEPT ![c] = Counted(recv[c], fresh)]
             /\ intent' = intent
    <3>1. \A e \in Chains, q \in Packet :
             recv'[e][q] = IF e = c /\ q \in fresh THEN recv[e][q] + 1 ELSE recv[e][q]
      BY <2>2 DEF Counted, TypeOK
    <3> QED BY <2>1, <2>2, <3>1
  <2>3. CASE /\ intent' = [intent EXCEPT ![c] = Counted(intent[c], fresh)]
             /\ recv' = recv
    <3>1. \A e \in Chains, q \in Packet :
             intent'[e][q] = IF e = c /\ q \in fresh THEN intent[e][q] + 1
                             ELSE intent[e][q]
      BY <2>3 DEF Counted, TypeOK
    <3> QED BY <2>1, <2>3, <3>1
  <2> QED BY <2>2, <2>3
<1>6. \A p \in fresh : ReceiptValue(results[p])
                          \in {Magic} \cup {CommitAcks(<<a>>) : a \in Acks}
  BY DEF RecvResults, ReceiptValue
<1> HIDE DEF fresh
<1>7. SenderInv'
  BY <1>1, <1>4, PathsOfBatches, PathsDistinct, SenderKept DEF StoreInv
<1>8. \A e \in Chains, q \in Packet : e # c \/ q \notin fresh =>
         Receipt(e, q)' = Receipt(e, q)
  BY <1>1, <1>4, PathsOfBatches, PathsDistinct DEF Receipt
<1>9. ReceiverInv'
  <2> SUFFICES ASSUME NEW e \in Chains, NEW q \in Packet
               PROVE  /\ Receipt(e, q)' \in {Absent, Magic}
                                            \cup {CommitAcks(<<a>>) : a \in Acks}
                      /\ recv'[e][q] + intent'[e][q]
                            = IF Receipt(e, q)' = Absent THEN 0 ELSE 1
    BY DEF ReceiverInv
  <2>1. CASE e = c /\ q \in fresh
    <3>1. Receipt(e, q) = Absent /\ recv[e][q] + intent[e][q] = 0
      BY <2>1, <1>3 DEF StoreInv, ReceiverInv
    <3>2. Receipt(e, q)' # Absent
      BY <2>1, <1>4, ReceiptValuePresent
    <3> QED BY <2>1, <3>1, <3>2, <1>4, <1>5, <1>6
  <2>2. CASE ~(e = c /\ q \in fresh)
    BY <2>2, <1>5, <1>8 DEF StoreInv, ReceiverInv
  <2> QED BY <2>1, <2>2
<1>10. Mirrored'
  <2> SUFFICES ASSUME NEW e \in Chains, NEW y \in Paths
               PROVE  params'[e][y] = IF commitments'[e][y] = MagicAck THEN Magic
                                      ELSE commitments'[e][y]
    BY DEF Mirrored
  <2>1. CASE e # c \/ \A p \in fresh : y # PacketAcknowledgementPath(p)
    BY <2>1, <1>4 DEF StoreInv, Mirrored
  <2>2. ASSUME NEW p \in fresh, e = c, y = PacketAcknowledgementPath(p)
        PROVE  params'[e][y] = IF commitments'[e][y] = MagicAck THEN Magic
                               ELSE commitments'[e][y]
    <3>1. ReceiptValue(results[p]) # MagicAck
      BY <1>6, ValuesDistinct
    <3>2. /\ params'[c][PacketAcknowledgementPath(p)] = ReceiptValue(results[p])
          /\ commitments'[c][PacketAcknowledgementPath(p)] = ReceiptValue(results[p])
      BY <1>4 DEF Receipt
    <3> QED BY <2>2, <3>1, <3>2
  <2> QED BY <2>1, <2>2
<1>11. BatchInv'
  <2>1. \A e \in Chains, d \in Batches : Len(d) >= 2 =>
           /\ params'[e][BatchPacketsPath(CommitPackets(d))]
                 = params[e][BatchPacketsPath(CommitPackets(d))]
           /\ params'[e][BatchReceiptsPath(CommitPackets(d))]
                 = params[e][BatchReceiptsPath(CommitPackets(d))]
    BY <1>1, <1>4, PathsOfBatches, BatchIsNoPacket
  <2>2. \A e \in Chains, q \in Packet : \A a :
           Receipt(e, q) = CommitAcks(<<a>>) => Receipt(e, q)' = CommitAcks(<<a>>)
    BY <1>3, <1>8, ValuesDistinct
  <2> QED BY <2>1, <2>2, BatchKept DEF StoreInv
<1>12. ParamsGrow
  <2> SUFFICES ASSUME NEW e \in Chains, NEW y \in Paths
               PROVE  Grown(params[e][y], params'[e][y], y)
    BY DEF ParamsGrow
  <2>1. CASE e # c \/ \A p \in fresh : y # PacketAcknowledgementPath(p)
    BY <2>1, <1>4 DEF Grown
  <2>2. ASSUME NEW p \in fresh, e = c, y = PacketAcknowledgementPath(p)
        PROVE  params[e][y] = Absent
    BY <2>2, <1>3 DEF Receipt
  <2> QED BY <2>1, <2>2 DEF Grown
<1> QED BY <1>7, <1>9, <1>10, <1>11, <1>12 DEF StoreInv


\* WriteAcknowledgement: a deferred answer is filled in.
LEMMA WriteAckStore ==
    ASSUME StoreInv, TypeOK, NEW c \in Chains, NEW p \in Packet, NEW a \in Acks,
           WriteAcknowledgement(c, p, a)
    PROVE  StoreInv' /\ ParamsGrow
<1> DEFINE x == PacketAcknowledgementPath(p)
           v == CommitAcks(<<a>>)
<1>1. /\ commitments[c][x] = Magic
      /\ SetCommitment(c, x, v)
      /\ UNCHANGED <<sent, recv, intent, acked, timedOut>>
  BY DEF WriteAcknowledgement, AckDue, history
<1>2. x \in Paths /\ params[c][x] = Magic
  BY <1>1, PathsOfBatches, ValuesDistinct DEF StoreInv, Mirrored
<1>3. \A e \in Chains, y \in Paths :
         /\ commitments'[e][y] = IF e = c /\ y = x THEN v ELSE commitments[e][y]
         /\ params'[e][y] = IF e = c /\ y = x THEN v ELSE params[e][y]
  BY <1>1, SetCommitmentEffect
<1>4. v # Absent /\ v # MagicAck /\ v.kind = "ACKS" /\ Magic # Absent
  BY ValuesDistinct, AckValues
<1>5. \A q \in Packet : PacketAcknowledgementPath(q) = x => q = p
  BY PathsDistinct
<1>6. /\ \A q \in Packet : x # PacketCommitmentPath(q)
      /\ \A b \in Batches : Len(b) >= 2 =>
            x # BatchPacketsPath(CommitPackets(b)) /\ x # BatchReceiptsPath(CommitPackets(b))
  BY PathsDistinct, BatchIsNoPacket
<1>7. \A e \in Chains, q \in Packet :
         Receipt(e, q)' = IF e = c /\ q = p THEN v ELSE Receipt(e, q)
  BY <1>3, <1>5, PathsOfBatches DEF Receipt
<1>8. Receipt(c, p) = Magic
  BY <1>2 DEF Receipt
<1> HIDE DEF x
<1>9. SenderInv'
  BY <1>1, <1>3, <1>6, PathsOfBatches, SenderKept DEF StoreInv
<1>10. ReceiverInv'
  BY <1>1, <1>4, <1>7, <1>8 DEF StoreInv, ReceiverInv
<1>11. Mirrored'
  BY <1>3, <1>4 DEF StoreInv, Mirrored
<1>12. BatchInv'
  <2>1. \A e \in Chains, b \in Batches : Len(b) >= 2 =>
           /\ params'[e][BatchPacketsPath(CommitPackets(b))]
                 = params[e][BatchPacketsPath(CommitPackets(b))]
           /\ params'[e][BatchReceiptsPath(CommitPackets(b))]
                 = params[e][BatchReceiptsPath(CommitPackets(b))]
    BY <1>3, <1>6, PathsOfBatches
  <2>2. \A e \in Chains, q \in Packet : \A s :
           Receipt(e, q) = CommitAcks(<<s>>) => Receipt(e, q)' = CommitAcks(<<s>>)
    BY <1>7, <1>8, ValuesDistinct
  <2> QED BY <2>1, <2>2, <1>1, BatchKept DEF StoreInv
<1>13. ParamsGrow
  BY <1>2, <1>3, <1>4 DEF ParamsGrow, Grown, IsReceiptPath, x
<1> QED BY <1>9, <1>10, <1>11, <1>12, <1>13 DEF StoreInv

\* BatchAcks: the answers are those of the receipts, so a second call with
\* the same packets commits to the same answers.
LEMMA BatchAcksStore ==
    ASSUME StoreInv, TypeOK, NEW c \in Chains, NEW b \in Batches,
           NEW acks \in AckBatches, BatchAcks(c, b, acks)
    PROVE  StoreInv' /\ ParamsGrow
<1> DEFINE x == BatchReceiptsPath(CommitPackets(b))
           v == CommitAcks(acks)
<1>1. /\ Len(b) >= 2 /\ Len(acks) = Len(b)
      /\ \A k \in DOMAIN b :
            commitments[c][PacketAcknowledgementPath(b[k])] = CommitAcks(<<acks[k]>>)
      /\ SetCommitment(c, x, v)
      /\ UNCHANGED <<sent, recv, intent, acked, timedOut>>
  BY DEF BatchAcks, AckCommitted, history
<1>2. \A p \in Packet : x # PacketCommitmentPath(p) /\ x # PacketAcknowledgementPath(p)
  BY <1>1, BatchIsNoPacket
<1>3. \A d \in Batches : /\ x # BatchPacketsPath(CommitPackets(d))
                         /\ x = BatchReceiptsPath(CommitPackets(d)) => b = d
  BY PathsDistinct, BatchPaths
<1>4. Claims(c, b, acks)
  <2>1. ASSUME NEW k \in 1..Len(b)
        PROVE  Receipt(c, b[k]) = CommitAcks(<<acks[k]>>)
    <3>1. b[k] \in Packet /\ k \in DOMAIN b
      BY BatchMembers
    <3>2. commitments[c][PacketAcknowledgementPath(b[k])] = CommitAcks(<<acks[k]>>)
      BY <1>1, <3>1
    <3> QED BY <3>1, <3>2, PathsOfBatches, ValuesDistinct DEF StoreInv, Mirrored, Receipt
  <2> QED BY <1>1, <2>1 DEF Claims
<1>5. params[c][x] \in {Absent, v}
  <2>1. ASSUME NEW old \in AckBatches, params[c][x] = CommitAcks(old), Claims(c, b, old)
        PROVE  old = acks
    <3>1. Len(old) = Len(b) /\ Len(acks) = Len(b)
      BY <2>1, <1>4 DEF Claims
    <3>3. ASSUME NEW k \in 1..Len(b) PROVE old[k] = acks[k]
      <4>1. CommitAcks(<<old[k]>>) = CommitAcks(<<acks[k]>>)
        BY <2>1, <1>4 DEF Claims
      <4> QED BY <4>1, AckValues
    <3>2. old \in Seq(Acks) /\ acks \in Seq(Acks)
      <4>1. ASSUME NEW s \in AckBatches PROVE s \in Seq(Acks)
        <5>1. PICK d \in Batches : s \in [1..Len(d) -> Acks]
          BY DEF AckBatches
        <5>2. Len(d) \in Nat
          BY BatchMembers
        <5>3. s \in UNION {[1..m -> Acks] : m \in Nat}
          BY <5>1, <5>2
        <5> QED BY <5>3, SeqDef
      <4> QED BY <4>1
    <3> QED BY <3>1, <3>2, <3>3, SeqEqual
  <2> QED BY <1>1, <2>1 DEF StoreInv, BatchInv
<1> HIDE DEF x
<1>6. \A e \in Chains, y \in Paths :
         /\ commitments'[e][y] = IF e = c /\ y = x THEN v ELSE commitments[e][y]
         /\ params'[e][y] = IF e = c /\ y = x THEN v ELSE params[e][y]
  BY <1>1, SetCommitmentEffect
<1>7. SenderInv'
  BY <1>1, <1>2, <1>6, PathsOfBatches, SenderKept DEF StoreInv
<1>8. \A e \in Chains, q \in Packet : Receipt(e, q)' = Receipt(e, q)
  BY <1>2, <1>6, PathsOfBatches DEF Receipt
<1>9. ReceiverInv'
  BY <1>1, <1>8, ReceiverKept DEF StoreInv
<1>10. Mirrored'
  BY <1>6, ValuesDistinct DEF StoreInv, Mirrored
<1>11. BatchInv'
  <2> SUFFICES ASSUME NEW e \in Chains, NEW d \in Batches, Len(d) >= 2
               PROVE  /\ \/ params'[e][BatchPacketsPath(CommitPackets(d))] = Absent
                         \/ /\ params'[e][BatchPacketsPath(CommitPackets(d))] = Magic
                            /\ \A k \in 1..Len(d) : sent[e][d[k]] = 1
                      /\ \/ params'[e][BatchReceiptsPath(CommitPackets(d))] = Absent
                         \/ \E s \in AckBatches :
                               /\ params'[e][BatchReceiptsPath(CommitPackets(d))]
                                     = CommitAcks(s)
                               /\ Claims(e, d, s)'
    BY <1>1 DEF BatchInv
  <2>1. \A s : Claims(e, d, s)' <=> Claims(e, d, s)
    BY <1>8, BatchMembers DEF Claims
  <2>2. params'[e][BatchPacketsPath(CommitPackets(d))]
           = params[e][BatchPacketsPath(CommitPackets(d))]
    BY <1>3, <1>6, PathsOfBatches
  <2>3. CASE e = c /\ d = b
    <3>1. params'[e][BatchReceiptsPath(CommitPackets(d))] = CommitAcks(acks)
      BY <2>3, <1>6, PathsOfBatches DEF x
    <3>2. Claims(e, d, acks)'
      BY <2>1, <2>3, <1>4
    <3> QED BY <2>2, <3>1, <3>2 DEF StoreInv, BatchInv
  <2>4. CASE ~(e = c /\ d = b)
    BY <2>1, <2>2, <2>4, <1>3, <1>6, PathsOfBatches DEF StoreInv, BatchInv
  <2> QED BY <2>3, <2>4
<1>12. ParamsGrow
  BY <1>5, <1>6 DEF ParamsGrow, Grown
<1> QED BY <1>7, <1>9, <1>10, <1>11, <1>12 DEF StoreInv

\* markPacketAcknowledged: settling changes the memory only, and each packet
\* that is settled was sent and not settled before.
LEMMA SettleStore ==
    ASSUME StoreInv, TypeOK, NEW c \in Chains, NEW ps \in SUBSET Packet,
           SetPacketsAcknowledged(c, ps),
           \A p \in ps : Unsettled(c, p),
           UNCHANGED <<sent, recv, intent>>,
           \A e \in Chains, p \in Packet :
              timedOut'[e][p] + Len(acked'[e][p]) =
                 IF e = c /\ p \in ps THEN timedOut[e][p] + Len(acked[e][p]) + 1
                 ELSE timedOut[e][p] + Len(acked[e][p])
    PROVE  StoreInv' /\ ParamsGrow
<1>1. /\ params' = params
      /\ \A p \in ps : commitments'[c][PacketCommitmentPath(p)] = MagicAck
      /\ \A e \in Chains, y \in Paths :
            (e # c \/ \A p \in ps : y # PacketCommitmentPath(p)) =>
               commitments'[e][y] = commitments[e][y]
  BY AcknowledgedEffect
<1>2. SenderInv'
  <2> SUFFICES ASSUME NEW e \in Chains, NEW q \in Packet
               PROVE  LET value == commitments'[e][PacketCommitmentPath(q)] IN
                      /\ value \in {Absent, Magic, MagicAck}
                      /\ sent[e][q] = IF value = Absent THEN 0 ELSE 1
                      /\ timedOut'[e][q] + Len(acked'[e][q])
                            = IF value = MagicAck THEN 1 ELSE 0
                      /\ sent[e][q] = 1 => q.destination = Counterparty[e][q.source]
    BY DEF SenderInv
  <2>1. CASE e = c /\ q \in ps
    BY <2>1, <1>1, ValuesDistinct DEF StoreInv, SenderInv, Unsettled
  <2>2. CASE ~(e = c /\ q \in ps)
    <3>1. commitments'[e][PacketCommitmentPath(q)] = commitments[e][PacketCommitmentPath(q)]
      BY <2>2, <1>1, PathsOfBatches, PathsDistinct
    <3> QED BY <2>2, <3>1 DEF StoreInv, SenderInv
  <2> QED BY <2>1, <2>2
<1>3. \A e \in Chains, q \in Packet : Receipt(e, q)' = Receipt(e, q)
  BY <1>1 DEF Receipt
<1>4. ReceiverInv'
  BY <1>3, ReceiverKept DEF StoreInv
<1>5. Mirrored'
  <2> SUFFICES ASSUME NEW e \in Chains, NEW y \in Paths
               PROVE  params[e][y] = IF commitments'[e][y] = MagicAck THEN Magic
                                     ELSE commitments'[e][y]
    BY <1>1 DEF Mirrored
  <2>1. CASE e # c \/ \A p \in ps : y # PacketCommitmentPath(p)
    BY <2>1, <1>1 DEF StoreInv, Mirrored
  <2>2. ASSUME NEW p \in ps, e = c, y = PacketCommitmentPath(p)
        PROVE  params[e][y] = Magic /\ commitments'[e][y] = MagicAck
    BY <2>2, <1>1, ValuesDistinct DEF StoreInv, Mirrored, Unsettled
  <2> QED BY <2>1, <2>2
<1>6. BatchInv'
  BY <1>1, <1>3, BatchKept DEF StoreInv
<1>7. ParamsGrow
  BY <1>1 DEF ParamsGrow, Grown
<1> QED BY <1>2, <1>4, <1>5, <1>6, <1>7 DEF StoreInv

\* PacketTimeout settles one packet.
LEMMA TimeoutStore ==
    ASSUME StoreInv, TypeOK, NEW c \in Chains, NEW h, NEW p \in Packet,
           PacketTimeout(c, h, p)
    PROVE  StoreInv' /\ ParamsGrow
<1>1. \A e \in Chains, q \in Packet :
         timedOut'[e][q] = IF e = c /\ q \in {p} THEN timedOut[e][q] + 1
                           ELSE timedOut[e][q]
  BY DEF PacketTimeout, Counted, TypeOK
<1>2. \A e \in Chains, q \in Packet : timedOut[e][q] \in Nat /\ Len(acked[e][q]) \in Nat
  BY LenProperties DEF TypeOK
<1>3. /\ SetPacketsAcknowledged(c, {p}) /\ Unsettled(c, p)
      /\ UNCHANGED <<sent, recv, intent, acked>>
  BY DEF PacketTimeout
<1>4. \A e \in Chains, q \in Packet :
         timedOut'[e][q] + Len(acked'[e][q]) =
            IF e = c /\ q \in {p} THEN timedOut[e][q] + Len(acked[e][q]) + 1
            ELSE timedOut[e][q] + Len(acked[e][q])
  <2> TAKE e \in Chains, q \in Packet
  <2>1. Len(acked'[e][q]) = Len(acked[e][q])
    BY <1>3
  <2> QED BY <2>1, <1>1, <1>2
<1> QED BY <1>3, <1>4, SettleStore


\* No packet appears twice among the first n.
Distinct(b, n) == \A k \in 1..n : \A m \in 1..(k - 1) : b[m] # b[k]

\* Each of the first n packets gets the answer at its own place.
LEMMA AnsweredEffect ==
    ASSUME NEW f \in [Packet -> Seq(Acks)], NEW b, NEW acks, NEW n \in Nat,
           Distinct(b, n)
    PROVE  /\ \A p \in Packet : (\A k \in 1..n : b[k] # p) =>
                 Answered(f, b, acks, n)[p] = f[p]
           /\ \A k \in 1..n : b[k] \in Packet =>
                 Answered(f, b, acks, n)[b[k]] = Append(f[b[k]], acks[k])
<1>1. ASSUME NEW k \in 1..n, b[k] \in Packet
      PROVE  Answered(f, b, acks, n)[b[k]] = Append(f[b[k]], acks[k])
  <2>1. k = CHOOSE m \in 1..n : b[m] = b[k]
    <3>1. ASSUME NEW m \in 1..n, b[m] = b[k] PROVE m = k
      <4>1. ~(m < k) /\ ~(k < m)
        BY <3>1 DEF Distinct
      <4> QED BY <4>1
    <3> QED BY <3>1
  <2> QED BY <1>1, <2>1 DEF Answered
<1> QED BY <1>1 DEF Answered

\* A proof that passes VerifyMembership is still true of the other chain.
LEMMA VerifiedHolds ==
    ASSUME DeliveryInv, NEW c \in Chains, NEW h, NEW x \in Paths, NEW v,
           VerifyMembership(c, h, x, v)
    PROVE  Grown(v, params[Other(c)][x], x)
<1>1. h \in Heights(Other(c)) /\ headers[Other(c)][h].params[x] = v
  BY DEF VerifyMembership, Root, DeliveryInv, TimeoutInv, ClientsKnow
<1> QED BY <1>1, OtherChain DEF DeliveryInv, HeadersHold

\* PacketAcknowledgement tells the sender of each packet, for the first time,
\* the one answer its receipt carries.
LEMMA AckEffect ==
    ASSUME DeliveryInv, NEW c \in Chains, NEW h \in client[c].heights,
           NEW b \in Batches, NEW acks \in AckBatches,
           PacketAcknowledgement(c, h, b, acks)
    PROVE  \E ps \in SUBSET Packet :
              /\ SetPacketsAcknowledged(c, ps)
              /\ \A p \in ps :
                    /\ Unsettled(c, p)
                    /\ acked[c][p] = <<>>
                    /\ Receipt(Other(c), p) = CommitAcks(acked'[c][p])
                    /\ \E a \in Acks : acked'[c][p] = <<a>>
              /\ \A e \in Chains, p \in Packet :
                    e # c \/ p \notin ps => acked'[e][p] = acked[e][p]
<1> DEFINE n == IF Len(acks) < Len(b) THEN Len(acks) ELSE Len(b)
           ps == {b[k] : k \in 1..n}
<1>0. TypeOK /\ StoreInv
  BY DEF DeliveryInv, TimeoutInv
<1>1. /\ VerifyMembership(c, h, BatchReceiptsPath(CommitPackets(b)), CommitAcks(acks))
      /\ \A k \in 1..n : Unsettled(c, b[k]) /\ \A m \in 1..(k - 1) : b[m] # b[k]
      /\ SetPacketsAcknowledged(c, ps)
      /\ acked' = [acked EXCEPT ![c] = Answered(acked[c], b, acks, n)]
  BY DEF PacketAcknowledgement
<1>2. params[Other(c)][BatchReceiptsPath(CommitPackets(b))] = CommitAcks(acks)
  BY <1>1, VerifiedHolds, PathsOfBatches, ValuesDistinct DEF Grown
<1>3. Claims(Other(c), b, acks)
  BY <1>0, <1>2, BatchValues, OtherChain
<1>4. n = Len(b) /\ n \in Nat /\ \A k \in 1..n : b[k] \in Packet
  BY <1>3, BatchMembers DEF Claims
<1>5. ps \in SUBSET Packet
  BY <1>4
<1>6. \A k \in 1..n : acks[k] \in Acks
  BY <1>3, <1>4, AckBatchMembers DEF Claims
<1> HIDE DEF n
<1>7. /\ acked'[c] = Answered(acked[c], b, acks, n)
      /\ \A e \in Chains : e # c => acked'[e] = acked[e]
      /\ acked[c] \in [Packet -> Seq(Acks)]
  BY <1>0, <1>1 DEF TypeOK
<1>8. /\ \A p \in Packet : (\A k \in 1..n : b[k] # p) => acked'[c][p] = acked[c][p]
      /\ \A k \in 1..n : acked'[c][b[k]] = Append(acked[c][b[k]], acks[k])
  <2> DEFINE f == acked[c]
  <2>1. f \in [Packet -> Seq(Acks)] /\ acked'[c] = Answered(f, b, acks, n)
    BY <1>7
  <2>2. Distinct(b, n)
    BY <1>1 DEF Distinct
  <2> HIDE DEF f
  <2>3. /\ \A p \in Packet : (\A k \in 1..n : b[k] # p) =>
              Answered(f, b, acks, n)[p] = f[p]
        /\ \A k \in 1..n : b[k] \in Packet =>
              Answered(f, b, acks, n)[b[k]] = Append(f[b[k]], acks[k])
    <3>1. n \in Nat /\ f \in [Packet -> Seq(Acks)]
      BY <1>4, <2>1
    <3>2. \A p \in Packet : (\A k \in 1..n : b[k] # p) =>
              Answered(f, b, acks, n)[p] = f[p]
      BY <3>1, <2>2, AnsweredEffect
    <3>3. ASSUME NEW k \in 1..n, b[k] \in Packet
          PROVE  Answered(f, b, acks, n)[b[k]] = Append(f[b[k]], acks[k])
      BY <3>1, <3>3, <2>2, AnsweredEffect
    <3> QED BY <3>2, <3>3
  <2> QED BY <1>4, <2>1, <2>3 DEF f
<1>9. ASSUME NEW k \in 1..n
      PROVE  /\ acked[c][b[k]] = <<>>
             /\ acked'[c][b[k]] = <<acks[k]>>
             /\ Receipt(Other(c), b[k]) = CommitAcks(<<acks[k]>>)
  <2>1. timedOut[c][b[k]] + Len(acked[c][b[k]]) = 0
    BY <1>0, <1>1, <1>4, ValuesDistinct DEF StoreInv, SenderInv, Unsettled
  <2>2. timedOut[c][b[k]] \in Nat /\ acked[c][b[k]] \in Seq(Acks)
    BY <1>0, <1>4 DEF TypeOK
  <2>3. Len(acked[c][b[k]]) \in Nat
    BY <2>2, LenProperties
  <2>4. acked[c][b[k]] = <<>>
    BY <2>1, <2>2, <2>3, EmptySeq
  <2>5. acked'[c][b[k]] = <<acks[k]>>
    BY <2>4, <1>8
  <2> QED BY <2>4, <2>5, <1>3, <1>4 DEF Claims
<1>10. ASSUME NEW p \in ps
       PROVE  /\ Unsettled(c, p)
              /\ acked[c][p] = <<>>
              /\ Receipt(Other(c), p) = CommitAcks(acked'[c][p])
              /\ \E a \in Acks : acked'[c][p] = <<a>>
  <2>1. PICK k \in 1..n : p = b[k]
    OBVIOUS
  <2> QED BY <2>1, <1>1, <1>6, <1>9
<1>11. ASSUME NEW e \in Chains, NEW p \in Packet, e # c \/ p \notin ps
       PROVE  acked'[e][p] = acked[e][p]
  BY <1>7, <1>8, <1>11
<1> HIDE DEF ps
<1> WITNESS ps \in SUBSET Packet
<1> QED BY <1>1, <1>10, <1>11

\* PacketAcknowledgement settles the packets it answers.
LEMMA AckStore ==
    ASSUME DeliveryInv, NEW c \in Chains, NEW h \in client[c].heights,
           NEW b \in Batches, NEW acks \in AckBatches,
           PacketAcknowledgement(c, h, b, acks)
    PROVE  StoreInv' /\ ParamsGrow
<1>1. PICK ps \in SUBSET Packet :
         /\ SetPacketsAcknowledged(c, ps)
         /\ \A p \in ps : /\ Unsettled(c, p)
                          /\ acked[c][p] = <<>>
                          /\ \E a \in Acks : acked'[c][p] = <<a>>
         /\ \A e \in Chains, p \in Packet :
               e # c \/ p \notin ps => acked'[e][p] = acked[e][p]
  BY AckEffect
<1>2. TypeOK /\ StoreInv /\ UNCHANGED <<sent, recv, intent, timedOut>>
  BY DEF DeliveryInv, TimeoutInv, PacketAcknowledgement
<1>3. ASSUME NEW e \in Chains, NEW p \in Packet
      PROVE  timedOut'[e][p] + Len(acked'[e][p]) =
                IF e = c /\ p \in ps THEN timedOut[e][p] + Len(acked[e][p]) + 1
                ELSE timedOut[e][p] + Len(acked[e][p])
  <2>1. timedOut'[e][p] = timedOut[e][p] /\ timedOut[e][p] \in Nat
    BY <1>2 DEF TypeOK
  <2>2. CASE e = c /\ p \in ps
    <3>1. PICK a \in Acks : acked'[e][p] = <<a>>
      BY <2>2, <1>1
    <3>2. Len(acked'[e][p]) = 1
      BY <3>1
    <3>3. Len(acked[e][p]) = 0
      BY <2>2, <1>1
    <3> QED BY <2>1, <2>2, <3>2, <3>3
  <2>3. CASE ~(e = c /\ p \in ps)
    BY <2>1, <2>3, <1>1
  <2> QED BY <2>2, <2>3
<1> QED BY <1>1, <1>2, <1>3, SettleStore

-----------------------------------------------------------------------------
(* Every step.                                                             *)

\* Which handlers touch what is not in the store.
LEMMA Frame ==
    ASSUME NEW c \in Chains, ChainNext(c)
    PROVE  /\ \/ UNCHANGED headers
              \/ \E t \in 1..MaxTime : NewBlock(c, t)
           /\ \/ UNCHANGED proofs
              \/ \E h \in client[c].heights, x \in RecordedPaths, v \in Values :
                    CommitMembershipProof(c, h, x, v)
              \/ \E h \in client[c].heights, x \in RecordedPaths :
                    CommitNonMembershipProof(c, h, x)
           /\ \/ UNCHANGED recv
              \/ \E h \in client[c].heights, b \in Batches : \E n \in 1..Len(b) :
                    PacketRecv(c, h, b, n)
           /\ \/ UNCHANGED acked
              \/ \E h \in client[c].heights, b \in Batches, acks \in AckBatches :
                    PacketAcknowledgement(c, h, b, acks)
<1> USE DEF history
<1>1. \/ UNCHANGED headers
      \/ \E t \in 1..MaxTime : NewBlock(c, t)
  BY DEF ChainNext, UpdateClient, Misbehaviour, ForceUpdateClient, SendPacket,
         BatchSend, PacketRecv, IntentPacketRecv, WriteAcknowledgement, BatchAcks,
         PacketAcknowledgement, PacketTimeout, CommitMembershipProof,
         CommitNonMembershipProof, ChannelCloseInit, ChannelCloseConfirm
<1>2. \/ UNCHANGED proofs
      \/ \E h \in client[c].heights, x \in RecordedPaths, v \in Values :
            CommitMembershipProof(c, h, x, v)
      \/ \E h \in client[c].heights, x \in RecordedPaths :
            CommitNonMembershipProof(c, h, x)
  BY DEF ChainNext, NewBlock, UpdateClient, Misbehaviour, ForceUpdateClient,
         SendPacket, BatchSend, PacketRecv, IntentPacketRecv, WriteAcknowledgement,
         BatchAcks, PacketAcknowledgement, PacketTimeout, ChannelCloseInit,
         ChannelCloseConfirm
<1>3. \/ UNCHANGED recv
      \/ \E h \in client[c].heights, b \in Batches : \E n \in 1..Len(b) :
            PacketRecv(c, h, b, n)
  BY DEF ChainNext, NewBlock, UpdateClient, Misbehaviour, ForceUpdateClient,
         SendPacket, BatchSend, IntentPacketRecv, WriteAcknowledgement,
         BatchAcks, PacketAcknowledgement, PacketTimeout, CommitMembershipProof,
         CommitNonMembershipProof, ChannelCloseInit, ChannelCloseConfirm
<1>4. \/ UNCHANGED acked
      \/ \E h \in client[c].heights, b \in Batches, acks \in AckBatches :
            PacketAcknowledgement(c, h, b, acks)
  BY DEF ChainNext, NewBlock, UpdateClient, Misbehaviour, ForceUpdateClient,
         SendPacket, BatchSend, PacketRecv, IntentPacketRecv, WriteAcknowledgement,
         BatchAcks, PacketTimeout, CommitMembershipProof,
         CommitNonMembershipProof, ChannelCloseInit, ChannelCloseConfirm
<1> QED BY <1>1, <1>2, <1>3, <1>4

\* The store keeps its invariant and the mirror only grows.
LEMMA StoreStep ==
    ASSUME DeliveryInv, [Next]_vars
    PROVE  StoreInv' /\ ParamsGrow
<1>1. TypeOK /\ StoreInv
  BY DEF DeliveryInv, TimeoutInv
<1>2. ASSUME UNCHANGED <<commitments, params, sent, recv, intent, acked, timedOut>>
      PROVE  StoreInv' /\ ParamsGrow
  BY <1>1, <1>2 DEF StoreInv, SenderInv, ReceiverInv, Mirrored, BatchInv, Claims,
                    Receipt, ParamsGrow, Grown
<1>3. CASE UNCHANGED vars
  BY <1>2, <1>3 DEF vars, history
<1>4. ASSUME NEW c \in Chains, ChainNext(c) PROVE StoreInv' /\ ParamsGrow
  <2>1. ASSUME NEW t \in 1..MaxTime, NewBlock(c, t) PROVE StoreInv' /\ ParamsGrow
    BY <2>1, <1>2 DEF NewBlock, history
  <2>2. ASSUME NEW h \in Heights(Other(c)), UpdateClient(c, h) \/ ForceUpdateClient(c, h)
        PROVE  StoreInv' /\ ParamsGrow
    BY <2>2, <1>2 DEF UpdateClient, ForceUpdateClient, history
  <2>3. CASE Misbehaviour(c)
    BY <2>3, <1>2 DEF Misbehaviour, history
  <2>4. ASSUME NEW i \in ChannelIds, NEW d \in Data, NEW t \in Timeouts,
               SendPacket(c, i, d, t)
        PROVE  StoreInv' /\ ParamsGrow
    BY <2>4, <1>1, SendStore
  <2>5. ASSUME NEW b \in Batches, BatchSend(c, b) PROVE StoreInv' /\ ParamsGrow
    BY <2>5, <1>1, BatchSendStore
  <2>6. ASSUME NEW h \in client[c].heights, NEW b \in Batches, NEW n \in 1..Len(b),
               PacketRecv(c, h, b, n)
        PROVE  StoreInv' /\ ParamsGrow
    BY <2>6, <1>1, ReceiveStore DEF PacketRecv
  <2>7. ASSUME NEW b \in Batches, NEW n \in 1..Len(b), IntentPacketRecv(c, b, n)
        PROVE  StoreInv' /\ ParamsGrow
    BY <2>7, <1>1, ReceiveStore DEF IntentPacketRecv
  <2>8. ASSUME NEW p \in Packet, NEW a \in Acks, WriteAcknowledgement(c, p, a)
        PROVE  StoreInv' /\ ParamsGrow
    BY <2>8, <1>1, WriteAckStore
  <2>9. ASSUME NEW b \in Batches, NEW acks \in AckBatches, BatchAcks(c, b, acks)
        PROVE  StoreInv' /\ ParamsGrow
    BY <2>9, <1>1, BatchAcksStore
  <2>10. ASSUME NEW h \in client[c].heights, NEW b \in Batches,
                NEW acks \in AckBatches, PacketAcknowledgement(c, h, b, acks)
         PROVE  StoreInv' /\ ParamsGrow
    BY <2>10, AckStore
  <2>11. ASSUME NEW h \in client[c].heights, NEW p \in Packet, PacketTimeout(c, h, p)
         PROVE  StoreInv' /\ ParamsGrow
    BY <2>11, <1>1, TimeoutStore
  <2>12. ASSUME NEW h \in client[c].heights, NEW x \in RecordedPaths, NEW v \in Values,
                CommitMembershipProof(c, h, x, v) \/ CommitNonMembershipProof(c, h, x)
         PROVE  StoreInv' /\ ParamsGrow
    BY <2>12, <1>2 DEF CommitMembershipProof, CommitNonMembershipProof, history
  <2>13. ASSUME NEW h \in client[c].heights, NEW i \in ChannelIds,
                ChannelCloseConfirm(c, h, i)
         PROVE  StoreInv' /\ ParamsGrow
    BY <2>13, <1>2 DEF ChannelCloseConfirm, history
  <2>14. ASSUME NEW i \in ChannelIds, ChannelCloseInit(c, i)
         PROVE  StoreInv' /\ ParamsGrow
    BY <2>14, <1>2 DEF ChannelCloseInit, history
  <2> QED BY <1>4, <2>1, <2>2, <2>3, <2>4, <2>5, <2>6, <2>7, <2>8, <2>9, <2>10,
             <2>11, <2>12, <2>13, <2>14, ValuesOfHandlers DEF ChainNext
<1> QED BY <1>3, <1>4 DEF Next


\* Headers are only appended, and a new one shows the state of its chain.
LEMMA HeadersExtend ==
    ASSUME TypeOK, [Next]_vars
    PROVE  /\ \A e \in Chains : \A h \in Heights(e) :
                 h \in Heights(e)' /\ headers'[e][h] = headers[e][h]
           /\ \A e \in Chains : \A h \in Heights(e)' :
                 \/ h \in Heights(e) /\ headers'[e][h] = headers[e][h]
                 \/ headers'[e][h].params = params'[e]
<1>1. CASE UNCHANGED headers
  BY <1>1 DEF Heights
<1>2. ASSUME NEW c \in Chains, NEW t \in 1..MaxTime, NewBlock(c, t)
      PROVE  /\ \A e \in Chains : \A h \in Heights(e) :
                   h \in Heights(e)' /\ headers'[e][h] = headers[e][h]
             /\ \A e \in Chains : \A h \in Heights(e)' :
                   \/ h \in Heights(e) /\ headers'[e][h] = headers[e][h]
                   \/ headers'[e][h].params = params'[e]
  <2> DEFINE header == [time |-> t, params |-> params[c], channel |-> channel[c]]
  <2>1. /\ headers'[c] = Append(headers[c], header)
        /\ \A e \in Chains : e # c => headers'[e] = headers[e]
        /\ params' = params
    BY <1>2 DEF NewBlock, TypeOK
  <2>2. header \in Header /\ headers[c] \in Seq(Header)
    <3>1. params[c] \in [Paths -> Values] /\ t \in Nat
          /\ channel[c] \in [ChannelIds -> ChannelStates]
      BY NumbersAssumption DEF TypeOK
    <3>2. header \in Header
      BY <3>1 DEF Header
    <3> QED BY <3>2 DEF TypeOK
  <2>3. header.params = params[c]
    OBVIOUS
  <2> HIDE DEF header
  <2>4. /\ Len(headers'[c]) = Len(headers[c]) + 1
        /\ Len(headers[c]) \in Nat
        /\ \A h \in 1..Len(headers[c]) : headers'[c][h] = headers[c][h]
        /\ headers'[c][Len(headers[c]) + 1] = header
    BY <2>1, <2>2, AppendProperties, LenProperties
  <2>5. ASSUME NEW e \in Chains, NEW h \in Heights(e)
        PROVE  h \in Heights(e)' /\ headers'[e][h] = headers[e][h]
    BY <2>1, <2>4 DEF Heights
  <2>6. ASSUME NEW e \in Chains, NEW h \in Heights(e)'
        PROVE  \/ h \in Heights(e) /\ headers'[e][h] = headers[e][h]
               \/ headers'[e][h].params = params'[e]
    <3>1. CASE e # c
      BY <3>1, <2>1 DEF Heights
    <3>2. CASE e = c
      <4>1. h \in 1..(Len(headers[c]) + 1)
        BY <3>2, <2>4 DEF Heights
      <4>2. h \in 1..Len(headers[c]) \/ h = Len(headers[c]) + 1
        BY <4>1, <2>4
      <4> QED BY <3>2, <4>2, <2>1, <2>3, <2>4 DEF Heights
    <3> QED BY <3>1, <3>2
  <2> QED BY <2>5, <2>6
<1>3. ASSUME NEW c \in Chains, ChainNext(c)
      PROVE  UNCHANGED headers \/ \E t \in 1..MaxTime : NewBlock(c, t)
  BY <1>3, Frame
<1> QED BY <1>1, <1>2, <1>3 DEF Next, vars

\* What headers prove keeps holding.
LEMMA HeadersHoldStep ==
    ASSUME DeliveryInv, [Next]_vars
    PROVE  HeadersHold'
<1> SUFFICES ASSUME NEW c \in Chains, NEW h \in Heights(c)', NEW x \in Paths
             PROVE  Grown(headers'[c][h].params[x], params'[c][x], x)
  BY DEF HeadersHold
<1>1. CASE h \in Heights(c) /\ headers'[c][h] = headers[c][h]
  <2>1. Grown(headers[c][h].params[x], params[c][x], x)
    BY <1>1 DEF DeliveryInv, HeadersHold
  <2>2. Grown(params[c][x], params'[c][x], x)
    BY StoreStep DEF ParamsGrow
  <2> QED BY <1>1, <2>1, <2>2, GrownTransitive
<1>2. CASE headers'[c][h].params = params'[c]
  BY <1>2 DEF Grown
<1> QED BY <1>1, <1>2, HeadersExtend DEF DeliveryInv, TimeoutInv

\* Proofs on record keep their header.
LEMMA ProofsStep ==
    ASSUME DeliveryInv, [Next]_vars
    PROVE  ProofsFromHeaders'
<1>1. ASSUME NEW e \in Chains, NEW r \in proofs'[e], r \notin proofs[e]
      PROVE  /\ r.height \in Heights(Other(e))
             /\ headers[Other(e)][r.height].params[r.path] = r.value
  <2>1. ASSUME NEW c \in Chains, NEW h \in client[c].heights, NEW x \in RecordedPaths,
               NEW v, CommitMembershipProof(c, h, x, v)
        PROVE  /\ r.height \in Heights(Other(e))
               /\ headers[Other(e)][r.height].params[r.path] = r.value
    <3>1. e = c /\ r = [height |-> h, path |-> x, value |-> v]
      BY <1>1, <2>1 DEF CommitMembershipProof, DeliveryInv, TimeoutInv, TypeOK
    <3> QED BY <2>1, <3>1 DEF CommitMembershipProof, VerifyMembership, Root,
                              DeliveryInv, TimeoutInv, ClientsKnow
  <2>2. ASSUME NEW c \in Chains, NEW h \in client[c].heights, NEW x \in RecordedPaths,
               CommitNonMembershipProof(c, h, x)
        PROVE  /\ r.height \in Heights(Other(e))
               /\ headers[Other(e)][r.height].params[r.path] = r.value
    <3>1. e = c /\ r = [height |-> h, path |-> x, value |-> Absent]
      BY <1>1, <2>2 DEF CommitNonMembershipProof, DeliveryInv, TimeoutInv, TypeOK
    <3> QED BY <2>2, <3>1 DEF CommitNonMembershipProof, VerifyNonMembership, Root,
                              DeliveryInv, TimeoutInv, ClientsKnow
  <2>3. proofs' # proofs
    BY <1>1
  <2>4. PICK c \in Chains : ChainNext(c)
    BY <2>3 DEF Next, vars
  <2> QED BY <2>1, <2>2, <2>3, <2>4, Frame
<1> SUFFICES ASSUME NEW e \in Chains, NEW r \in proofs'[e]
             PROVE  /\ r.height \in Heights(Other(e))'
                    /\ headers'[Other(e)][r.height].params[r.path] = r.value
  BY DEF ProofsFromHeaders
<1>2. /\ r.height \in Heights(Other(e))
      /\ headers[Other(e)][r.height].params[r.path] = r.value
  BY <1>1 DEF DeliveryInv, ProofsFromHeaders
<1> QED BY <1>2, HeadersExtend, OtherChain DEF DeliveryInv, TimeoutInv

\* Senders were told what the receipts say, and still say.
LEMMA AcksStep ==
    ASSUME DeliveryInv, [Next]_vars
    PROVE  AckIsReceivers'
<1>1. ASSUME NEW c \in Chains, NEW p \in Packet, NEW a, Receipt(c, p) = CommitAcks(a)
      PROVE  Receipt(c, p)' = CommitAcks(a)
  <2>1. Grown(Receipt(c, p), Receipt(c, p)', PacketAcknowledgementPath(p))
    BY StoreStep, PathsOfBatches DEF ParamsGrow, Receipt
  <2> QED BY <1>1, <2>1, ValuesDistinct DEF Grown
<1>2. ASSUME NEW e \in Chains, NEW p \in Packet, acked'[e][p] # acked[e][p]
      PROVE  /\ Receipt(Other(e), p) = CommitAcks(acked'[e][p])
             /\ \E a \in Acks : acked'[e][p] = <<a>>
  <2>1. PICK c \in Chains : ChainNext(c)
    BY <1>2 DEF Next, vars, history
  <2>2. PICK h \in client[c].heights, b \in Batches, acks \in AckBatches :
           PacketAcknowledgement(c, h, b, acks)
    BY <1>2, <2>1, Frame
  <2>3. PICK ps \in SUBSET Packet :
           /\ SetPacketsAcknowledged(c, ps)
           /\ \A q \in ps : /\ Unsettled(c, q)
                            /\ acked[c][q] = <<>>
                            /\ Receipt(Other(c), q) = CommitAcks(acked'[c][q])
                            /\ \E a \in Acks : acked'[c][q] = <<a>>
           /\ \A d \in Chains, q \in Packet :
                 d # c \/ q \notin ps => acked'[d][q] = acked[d][q]
    BY <2>2, AckEffect
  <2> QED BY <1>2, <2>3
<1>3. ASSUME NEW e \in Chains, NEW p \in Packet, NEW k \in DOMAIN acked'[e][p]
      PROVE  Receipt(Other(e), p) = CommitAcks(<<acked'[e][p][k]>>)
  <2>1. CASE acked'[e][p] = acked[e][p]
    BY <2>1 DEF DeliveryInv, AckIsReceivers
  <2>2. CASE acked'[e][p] # acked[e][p]
    <3>1. PICK a \in Acks : acked'[e][p] = <<a>>
      BY <2>2, <1>2
    <3>2. k = 1 /\ acked'[e][p][k] = a
      BY <3>1
    <3> QED BY <2>2, <3>1, <3>2, <1>2
  <2> QED BY <2>1, <2>2
<1>4. ASSUME NEW e \in Chains, NEW p \in Packet, NEW k \in DOMAIN acked'[e][p]
      PROVE  params'[Other(e)][PacketAcknowledgementPath(p)]
                = CommitAcks(<<acked'[e][p][k]>>)
  BY <1>1, <1>3, OtherChain DEF Receipt
<1> QED BY <1>4 DEF AckIsReceivers, Receipt

\* A sent packet stays sent.
LEMMA SentStays ==
    ASSUME DeliveryInv, [Next]_vars, NEW c \in Chains, NEW p \in Packet, sent[c][p] = 1
    PROVE  sent'[c][p] = 1
<1> DEFINE x == PacketCommitmentPath(p)
<1>1. x \in Paths /\ ~IsReceiptPath(x)
  BY PathsOfBatches, PathsDistinct DEF IsReceiptPath
<1>2. params[c][x] = Magic
  <2>1. commitments[c][x] \in {Magic, MagicAck}
    BY DEF DeliveryInv, StoreInv, SenderInv
  <2> QED BY <1>1, <2>1 DEF DeliveryInv, StoreInv, Mirrored
<1>3. Grown(params[c][x], params'[c][x], x)
  BY <1>1, StoreStep DEF ParamsGrow
<1>4. params'[c][x] = Magic
  BY <1>1, <1>2, <1>3, ValuesDistinct DEF Grown
<1>5. commitments'[c][x] # Absent
  <2>1. StoreInv'
    BY StoreStep
  <2> QED BY <1>1, <1>4, <2>1, ValuesDistinct DEF StoreInv, Mirrored
<1>6. SenderInv'
  BY StoreStep DEF StoreInv
<1> QED BY <1>5, <1>6 DEF SenderInv

\* A packet that PacketRecv dispatches was sent on the paired channel.
LEMMA RecvStep ==
    ASSUME DeliveryInv, [Next]_vars
    PROVE  RecvWasSent'
<1>1. TypeOK /\ StoreInv
  BY DEF DeliveryInv, TimeoutInv
<1>2. ASSUME NEW e \in Chains, NEW p \in Packet, recv'[e][p] # recv[e][p]
      PROVE  sent[Other(e)][p] = 1
  <2>1. PICK c \in Chains : ChainNext(c)
    BY <1>2 DEF Next, vars, history
  <2>0. PICK h \in client[c].heights, b \in Batches :
           \E n \in 1..Len(b) : PacketRecv(c, h, b, n)
    BY <1>2, <2>1, Frame
  <2>2. PICK n \in 1..Len(b) : PacketRecv(c, h, b, n)
    BY <2>0
  <2>3. e = c /\ p \in Fresh(c, b, n)
    BY <1>1, <1>2, <2>2 DEF PacketRecv, Counted, TypeOK
  <2>4. PICK k \in 1..n : p = b[k]
    BY <2>3 DEF Fresh
  <2>5. k \in 1..Len(b)
    BY BatchMembers
  <2>6. VerifyMembership(c, h, BatchPacketsPath(CommitPackets(b)), Magic)
    BY <2>2 DEF PacketRecv
  <2>7. Grown(Magic, params[Other(c)][BatchPacketsPath(CommitPackets(b))],
              BatchPacketsPath(CommitPackets(b)))
    BY <2>6, VerifiedHolds, PathsOfBatches
  <2>8. ~IsReceiptPath(BatchPacketsPath(CommitPackets(b)))
    BY PathsDistinct DEF IsReceiptPath, PacketAcknowledgementPath
  <2>9. params[Other(c)][BatchPacketsPath(CommitPackets(b))] = Magic
    BY <2>7, <2>8, ValuesDistinct DEF Grown
  <2> QED BY <2>3, <2>4, <2>5, <2>9, <1>1, BatchValues, OtherChain
<1>3. ASSUME NEW e \in Chains, NEW p \in Packet, recv'[e][p] > 0
      PROVE  sent[Other(e)][p] = 1
  BY <1>2, <1>3 DEF DeliveryInv, RecvWasSent
<1>4. ASSUME NEW e \in Chains, NEW p \in Packet, sent[Other(e)][p] = 1
      PROVE  Counterparty[e][p.destination] = p.source
  <2>1. p.destination = Counterparty[Other(e)][p.source] /\ p.source \in ChannelIds
    BY <1>1, <1>4, OtherChain DEF StoreInv, SenderInv, Packet
  <2>2. Counterparty[Other(Other(e))][Counterparty[Other(e)][p.source]] = p.source
    BY <2>1, OtherChain, PairingAssumption
  <2> QED BY <2>1, <2>2, OtherChain
<1>5. ASSUME NEW e \in Chains, NEW p \in Packet, recv'[e][p] > 0
      PROVE  sent'[Other(e)][p] = 1 /\ Counterparty[e][p.destination] = p.source
  BY <1>3, <1>4, <1>5, SentStays, OtherChain
<1> QED BY <1>5 DEF RecvWasSent

\* Initially the stores are empty.
LEMMA DeliveryInit == Init => DeliveryInv
<1> SUFFICES ASSUME Init PROVE DeliveryInv
  OBVIOUS
<1>1. TimeoutInv
  BY TimeoutInvInit
<1>2. \A c \in Chains, x \in Paths :
         commitments[c][x] = Absent /\ params[c][x] = Absent
  BY DEF Init
<1>3. \A c \in Chains, p \in Packet :
         /\ sent[c][p] = 0 /\ recv[c][p] = 0 /\ intent[c][p] = 0
         /\ timedOut[c][p] = 0 /\ acked[c][p] = <<>>
  BY DEF Init
<1>4. SenderInv
  <2>1. Len(<<>>) = 0
    OBVIOUS
  <2> QED BY <2>1, <1>2, <1>3, PathsOfBatches, ValuesDistinct DEF SenderInv
<1>5. ReceiverInv
  BY <1>2, <1>3, PathsOfBatches DEF ReceiverInv, Receipt
<1>6. Mirrored
  BY <1>2, ValuesDistinct DEF Mirrored
<1>7. BatchInv
  BY <1>2, PathsOfBatches DEF BatchInv
<1>8. HeadersHold
  <2>1. ASSUME NEW c \in Chains, NEW h \in Heights(c), NEW x \in Paths
        PROVE  headers[c][h].params[x] = Absent
    BY DEF Init, Heights
  <2> QED BY <2>1 DEF HeadersHold, Grown
<1>9. ProofsFromHeaders /\ RecvWasSent
  BY <1>3 DEF Init, ProofsFromHeaders, RecvWasSent
<1>10. AckIsReceivers
  BY <1>3 DEF AckIsReceivers
<1> QED BY <1>1, <1>4, <1>5, <1>6, <1>7, <1>8, <1>9, <1>10 DEF DeliveryInv, StoreInv

\* The invariant is inductive.
LEMMA DeliveryStep == DeliveryInv /\ [Next]_vars => DeliveryInv'
<1> SUFFICES ASSUME DeliveryInv, [Next]_vars PROVE DeliveryInv'
  OBVIOUS
<1>1. TimeoutInv'
  BY TimeoutInvStep DEF DeliveryInv
<1> QED BY <1>1, StoreStep, HeadersHoldStep, ProofsStep, AcksStep, RecvStep
        DEF DeliveryInv

\* It holds in every reachable state.
LEMMA DeliveryAlways == Spec => []DeliveryInv
BY DeliveryInit, DeliveryStep, PTL DEF Spec

-----------------------------------------------------------------------------
(* What follows for the applications and for those who rely on proofs.     *)

\* A packet is sent at most once and settled at most once, by an
\* acknowledgement or by a timeout, for good: SendPacket and
\* markPacketAcknowledged read the commitment that is kept in memory.
THEOREM SettlesOnce == Spec => []SettledOnce
<1>1. DeliveryInv => SettledOnce
  BY ValuesDistinct DEF DeliveryInv, StoreInv, SenderInv, SettledOnce
<1> QED BY <1>1, DeliveryAlways, PTL

\* A packet is given to the receiving application exactly once if there is
\* a receipt and never otherwise, in any mix of PacketRecv, IntentPacketRecv,
\* batches and repetitions.
THEOREM ReceivesOnce == Spec => []ReceivedOnce
<1>1. DeliveryInv => ReceivedOnce
  BY DEF DeliveryInv, StoreInv, ReceiverInv, ReceivedOnce
<1> QED BY <1>1, DeliveryAlways, PTL

\* What PacketAcknowledgement tells a sender is what the receiver committed.
THEOREM AnswersAreReceivers == Spec => []AckIsReceivers
<1>1. DeliveryInv => AckIsReceivers
  BY DEF DeliveryInv
<1> QED BY <1>1, DeliveryAlways, PTL

\* A packet received with a proof was sent, by the other end of the channel.
THEOREM ReceivedWasSent == Spec => []RecvWasSent
<1>1. DeliveryInv => RecvWasSent
  BY DEF DeliveryInv
<1> QED BY <1>1, DeliveryAlways, PTL


\* The memory and the provable mirror differ exactly in the packets that are
\* settled (setCommitmentMem).
THEOREM MirrorAlwaysAgrees == Spec => []MirrorAgrees
<1>1. ASSUME DeliveryInv PROVE MirrorAgrees
  <2>1. ASSUME NEW c \in Chains, NEW p \in Packet
        PROVE  commitments[c][PacketCommitmentPath(p)] = MagicAck <=> Settled(c, p)
    <3>1. timedOut[c][p] \in Nat /\ acked[c][p] \in Seq(Acks)
      BY <1>1 DEF DeliveryInv, TimeoutInv, TypeOK
    <3>2. /\ Len(acked[c][p]) \in Nat
          /\ Len(acked[c][p]) = 0 <=> acked[c][p] = <<>>
      BY <3>1, EmptySeq, LenProperties
    <3>3. timedOut[c][p] + Len(acked[c][p]) =
             IF commitments[c][PacketCommitmentPath(p)] = MagicAck THEN 1 ELSE 0
      BY <1>1 DEF DeliveryInv, StoreInv, SenderInv
    <3>4. Settled(c, p) <=> timedOut[c][p] > 0 \/ Len(acked[c][p]) > 0
      BY <3>1, <3>2 DEF Settled
    <3> QED BY <3>1, <3>2, <3>3, <3>4
  <2> QED BY <1>1, <2>1 DEF MirrorAgrees, DeliveryInv, StoreInv, Mirrored
<1> QED BY <1>1, DeliveryAlways, PTL

\* A commitment to a batch claims of each packet what is true of it.
THEOREM BatchesFaithful == Spec => []BatchFaithful
<1>1. ASSUME DeliveryInv PROVE BatchFaithful
  <2> SUFFICES ASSUME NEW c \in Chains, NEW b \in Batches
               PROVE  /\ params[c][BatchPacketsPath(CommitPackets(b))] = Magic =>
                            \A k \in DOMAIN b : sent[c][b[k]] = 1
                      /\ LET value == params[c][BatchReceiptsPath(CommitPackets(b))] IN
                         value.kind = "ACKS" =>
                            \A k \in DOMAIN b :
                               Receipt(c, b[k]) = CommitAcks(<<value.acks[k]>>)
    BY DEF BatchFaithful
  <2> DEFINE value == params[c][BatchReceiptsPath(CommitPackets(b))]
  <2>1. TypeOK /\ StoreInv /\ DOMAIN b = 1..Len(b)
    BY <1>1, BatchMembers DEF DeliveryInv, TimeoutInv
  <2>2. value \in Values
    BY <2>1, PathsOfBatches DEF TypeOK
  <2>3. ASSUME value.kind = "ACKS"
        PROVE  \A k \in 1..Len(b) : Receipt(c, b[k]) = CommitAcks(<<value.acks[k]>>)
    <3>1. PICK acks \in AckBatches : value = CommitAcks(acks)
      BY <2>2, <2>3, AckValues DEF Values
    <3>2. Claims(c, b, acks) /\ value.acks = acks
      BY <2>1, <3>1, BatchValues, AckValues
    <3> QED BY <3>2 DEF Claims
  <2>4. params[c][BatchPacketsPath(CommitPackets(b))] = Magic =>
           \A k \in 1..Len(b) : sent[c][b[k]] = 1
    BY <2>1, BatchValues
  <2> QED BY <2>1, <2>3, <2>4
<1> QED BY <1>1, DeliveryAlways, PTL

\* A proof on record stays true of the other chain, whatever becomes of the
\* client it was checked with.
THEOREM ProofsStayTrue == Spec => []RecordedProofsStayTrue
<1>1. ASSUME DeliveryInv PROVE RecordedProofsStayTrue
  <2> SUFFICES ASSUME NEW c \in Chains, NEW r \in proofs[c]
               PROVE  LET current == params[Other(c)][r.path] IN
                      /\ r.value.kind = "ACKS" => current = r.value
                      /\ r.value = Magic => current.kind \in {"MAGIC", "ACKS"}
                      /\ r.value = Absent =>
                            \A p \in Packet :
                               (/\ r.path = PacketAcknowledgementPath(p)
                                /\ headers[Other(c)][r.height].time >= p.timeout)
                               => current = Absent
    BY DEF RecordedProofsStayTrue
  <2> DEFINE current == params[Other(c)][r.path]
  <2>1. r \in Proof /\ TypeOK
    BY <1>1 DEF DeliveryInv, TimeoutInv, TypeOK
  <2>2. r.path \in Paths
    BY <2>1 DEF Proof
  <2>3. /\ r.height \in Heights(Other(c))
        /\ headers[Other(c)][r.height].params[r.path] = r.value
    BY <1>1 DEF DeliveryInv, ProofsFromHeaders
  <2>4. Grown(r.value, current, r.path)
    BY <1>1, <2>2, <2>3, OtherChain DEF DeliveryInv, HeadersHold
  <2>5. r.value.kind = "ACKS" => current = r.value
    BY <2>4, AckValues DEF Grown
  <2>6. r.value = Magic => current.kind \in {"MAGIC", "ACKS"}
    BY <2>4, AckValues DEF Grown
  <2>7. ASSUME r.value = Absent, NEW p \in Packet,
               r.path = PacketAcknowledgementPath(p),
               headers[Other(c)][r.height].time >= p.timeout
        PROVE  current = Absent
    <3>1. headers[Other(c)][r.height].time \in Nat /\ p.timeout \in Nat
      BY <2>1, <2>3, HeaderTime, OtherChain, NumbersAssumption DEF Packet
    <3>2. ~(headers[Other(c)][r.height].time < p.timeout)
      BY <2>7, <3>1
    <3> QED BY <1>1, <2>3, <2>7, <3>2, OtherChain
            DEF DeliveryInv, TimeoutInv, ReceiptsInTime, Receipt
  <2> QED BY <2>5, <2>6, <2>7
<1> QED BY <1>1, DeliveryAlways, PTL

\* What the other chain can prove is written once: a value never disappears
\* and never changes, except a receipt that gets its acknowledgement.
THEOREM MirrorWritesOnce == Spec => ProvableOnce
<1> DEFINE once == \A c \in Chains, x \in Paths :
                      params[c][x] # Absent =>
                          \/ params'[c][x] = params[c][x]
                          \/ /\ params[c][x] = Magic
                             /\ params'[c][x].kind = "ACKS"
                             /\ \E p \in Packet : x = PacketAcknowledgementPath(p)
<1>1. DeliveryInv /\ [Next]_vars => [once]_params
  BY StoreStep DEF ParamsGrow, Grown, IsReceiptPath
<1> HIDE DEF once
<1>2. Spec => [][once]_params
  BY <1>1, DeliveryAlways, PTL DEF Spec
<1> QED BY <1>2 DEF ProvableOnce, once

-----------------------------------------------------------------------------
(* The two cores implement packet delivery: each step is one of            *)
(* PacketDelivery's, or changes nothing an application can see.            *)

\* Nothing the applications see changes.
LEMMA Unseen ==
    ASSUME \A e \in Chains, q \in Packet : /\ Outcome(e, q)' = Outcome(e, q)
                                           /\ Receipt(e, q)' = Receipt(e, q),
           acked' = acked
    PROVE  UNCHANGED Promise!dvars
<1>1. \A e \in Chains, q \in Packet : Answer(e, q)' = Answer(e, q)
  BY OtherChain DEF Answer
<1> QED BY <1>1 DEF Promise!dvars

\* The promise holds of the initial state.
LEMMA PromiseInit == Init => Promise!Init
<1> SUFFICES ASSUME Init PROVE Promise!Init
  OBVIOUS
<1>1. \A c \in Chains, p \in Packet :
         /\ Outcome(c, p) = "unsent"
         /\ Receipt(c, p) = Absent
  BY PathsOfBatches DEF Init, Outcome, Receipt
<1>2. \A c \in Chains, p \in Packet : Answer(c, p) = Promise!Unreceived
  BY <1>1, OtherChain DEF Answer, Promise!Unreceived
<1>3. acked = [c \in Chains |-> [p \in Packet |-> <<>>]]
  BY DEF Init
<1> QED BY <1>1, <1>2, <1>3 DEF Promise!Init

\* What the sender's commitment and the receiver's receipt say, as the
\* applications see it.
LEMMA Seen ==
    ASSUME DeliveryInv, NEW c \in Chains, NEW p \in Packet
    PROVE  /\ commitments[c][PacketCommitmentPath(p)] = Absent =>
                 /\ Outcome(c, p) = "unsent"
                 /\ sent[c][p] = 0 /\ timedOut[c][p] = 0 /\ acked[c][p] = <<>>
           /\ Unsettled(c, p) =>
                 /\ Outcome(c, p) = "sent"
                 /\ sent[c][p] = 1 /\ timedOut[c][p] = 0 /\ acked[c][p] = <<>>
<1>1. /\ sent[c][p] \in Nat /\ timedOut[c][p] \in Nat
      /\ acked[c][p] \in Seq(Acks)
      /\ Len(acked[c][p]) \in Nat
      /\ Len(acked[c][p]) = 0 => acked[c][p] = <<>>
  <2>1. /\ sent[c][p] \in Nat /\ timedOut[c][p] \in Nat
        /\ acked[c][p] \in Seq(Acks)
    BY DEF DeliveryInv, TimeoutInv, TypeOK
  <2> QED BY <2>1
<1>2. LET value == commitments[c][PacketCommitmentPath(p)] IN
      /\ sent[c][p] = IF value = Absent THEN 0 ELSE 1
      /\ timedOut[c][p] + Len(acked[c][p]) = IF value = MagicAck THEN 1 ELSE 0
  BY DEF DeliveryInv, StoreInv, SenderInv
<1>3. ASSUME commitments[c][PacketCommitmentPath(p)] # MagicAck
      PROVE  timedOut[c][p] = 0 /\ acked[c][p] = <<>>
  BY <1>1, <1>2, <1>3
<1> QED BY <1>2, <1>3, ValuesDistinct DEF Outcome, Unsettled

\* A receipt as the promise sees it.
View(value) ==
    IF value = Absent THEN [got |-> FALSE, acks |-> <<>>]
    ELSE [got |-> TRUE, acks |-> value.acks]

\* The promise sees whether there is a receipt, and its acknowledgement.
LEMMA Views ==
    /\ View(Absent) = Promise!Unreceived
    /\ View(Magic) = [got |-> TRUE, acks |-> <<>>]
    /\ \A s : View(CommitAcks(s)) = [got |-> TRUE, acks |-> s]
    /\ \A r : View(ReceiptValue(r)) = [got |-> TRUE, acks |-> r]
<1>1. Magic.acks = <<>>
  BY DEF Magic
<1> QED BY <1>1, ValuesDistinct, AckValues DEF View, Promise!Unreceived, ReceiptValue, Async

LEMMA AnswerIsView ==
    ASSUME NEW c \in Chains, NEW p \in Packet
    PROVE  /\ Answer(c, p) = View(Receipt(Other(c), p))
           /\ Answer(c, p)' = View(Receipt(Other(c), p)')
BY DEF Answer, View

\* SendPacket is the abstract Send.
LEMMA SendPromised ==
    ASSUME DeliveryInv, NEW c \in Chains, NEW i \in ChannelIds,
           NEW d \in Data, NEW t \in Timeouts, SendPacket(c, i, d, t)
    PROVE  Promise!Next
<1> DEFINE p == [source |-> i, destination |-> Counterparty[c][i],
                 data |-> d, timeout |-> t]
<1>1. p \in Packet
  BY PairingAssumption DEF Packet
<1>2. /\ commitments[c][PacketCommitmentPath(p)] = Absent
      /\ SetCommitment(c, PacketCommitmentPath(p), Magic)
      /\ sent' = [sent EXCEPT ![c] = Counted(sent[c], {p})]
      /\ UNCHANGED <<acked, timedOut>>
  BY DEF SendPacket
<1> HIDE DEF p
<1>3. TypeOK
  BY DEF DeliveryInv, TimeoutInv
<1>4. /\ Outcome(c, p) = "unsent"
      /\ sent[c][p] = 0 /\ timedOut[c][p] = 0 /\ acked[c][p] = <<>>
  BY <1>1, <1>2, Seen
<1>5. \A e \in Chains, q \in Packet :
         sent'[e][q] = IF e = c /\ q = p THEN sent[e][q] + 1 ELSE sent[e][q]
  BY <1>1, <1>2, <1>3 DEF Counted, TypeOK
<1>6. \A e \in Chains, q \in Packet :
         Outcome(e, q)' = IF e = c /\ q = p THEN "sent" ELSE Outcome(e, q)
  <2> SUFFICES ASSUME NEW e \in Chains, NEW q \in Packet
               PROVE  Outcome(e, q)' = IF e = c /\ q = p THEN "sent" ELSE Outcome(e, q)
    OBVIOUS
  <2>1. CASE e = c /\ q = p
    <3>1. sent'[c][p] = 1
      BY <2>1, <1>4, <1>5
    <3> QED BY <2>1, <3>1, <1>2, <1>4 DEF Outcome
  <2>2. CASE ~(e = c /\ q = p)
    <3>1. sent'[e][q] = sent[e][q]
      BY <2>2, <1>5
    <3> QED BY <2>2, <3>1, <1>2 DEF Outcome
  <2> QED BY <2>1, <2>2
<1>7. \A e \in Chains, q \in Packet : Receipt(e, q)' = Receipt(e, q)
  BY <1>2, <1>3, SetCommitmentEffect, PathsOfBatches, PathsDistinct DEF Receipt
<1>8. \A e \in Chains, q \in Packet : Answer(e, q)' = Answer(e, q)
  BY <1>7, OtherChain DEF Answer
<1>9. Promise!Send(c, p)
  BY <1>1, <1>2, <1>4, <1>6, <1>8 DEF Promise!Send
<1> QED BY <1>1, <1>9 DEF Promise!Next

\* PacketTimeout is the abstract Timeout: the receipt the proof missed is
\* still missing.
LEMMA TimeoutPromised ==
    ASSUME DeliveryInv, DeliveryInv', NEW c \in Chains, NEW h \in client[c].heights,
           NEW p \in Packet, PacketTimeout(c, h, p)
    PROVE  Promise!Next
<1>1. /\ Unsettled(c, p)
      /\ SetPacketsAcknowledged(c, {p})
      /\ timedOut' = [timedOut EXCEPT ![c] = Counted(timedOut[c], {p})]
      /\ UNCHANGED <<sent, acked>>
  BY DEF PacketTimeout
<1>2. TypeOK
  BY DEF DeliveryInv, TimeoutInv
<1>3. /\ Outcome(c, p) = "sent"
      /\ timedOut[c][p] = 0
  BY <1>1, Seen
<1>4. \A e \in Chains, q \in Packet :
         timedOut'[e][q] = IF e = c /\ q = p THEN timedOut[e][q] + 1 ELSE timedOut[e][q]
  BY <1>1, <1>2 DEF Counted, TypeOK
<1>5. \A e \in Chains, q \in Packet :
         Outcome(e, q)' = IF e = c /\ q = p THEN "timedOut" ELSE Outcome(e, q)
  <2> SUFFICES ASSUME NEW e \in Chains, NEW q \in Packet
               PROVE  Outcome(e, q)' = IF e = c /\ q = p THEN "timedOut" ELSE Outcome(e, q)
    OBVIOUS
  <2>1. CASE e = c /\ q = p
    <3>1. timedOut'[c][p] = 1
      BY <2>1, <1>3, <1>4
    <3> QED BY <2>1, <3>1, <1>1, <1>3 DEF Outcome
  <2>2. CASE ~(e = c /\ q = p)
    <3>1. timedOut'[e][q] = timedOut[e][q]
      BY <2>2, <1>4
    <3> QED BY <2>2, <3>1, <1>1 DEF Outcome
  <2> QED BY <2>1, <2>2
<1>6. \A e \in Chains, q \in Packet : Receipt(e, q)' = Receipt(e, q)
  BY <1>1, <1>2, AcknowledgedType DEF Receipt
<1>7. \A e \in Chains, q \in Packet : Answer(e, q)' = Answer(e, q)
  BY <1>6, OtherChain DEF Answer
<1>8. Receipt(Other(c), p) = Absent
  <2>1. timedOut'[c][p] > 0
    BY <1>3, <1>4
  <2>2. Receipt(Other(c), p)' = Absent
    BY <2>1 DEF DeliveryInv, TimeoutInv, TimeoutExcludesReceipt
  <2> QED BY <2>2, <1>6, OtherChain
<1>9. Promise!Timeout(c, p)
  BY <1>1, <1>3, <1>5, <1>7, <1>8, AnswerIsView, Views DEF Promise!Timeout
<1> QED BY <1>9 DEF Promise!Next

\* PacketRecv and IntentPacketRecv are the abstract Receive of the other
\* chain's packets: a packet in time has not been refunded.
LEMMA ReceivePromised ==
    ASSUME DeliveryInv, NEW c \in Chains, NEW b \in Batches, NEW n \in 1..Len(b),
           Acceptable(c, b, n),
           NEW results \in [Fresh(c, b, n) -> RecvResults],
           Receive(c, Fresh(c, b, n), results),
           UNCHANGED <<sent, acked, timedOut>>
    PROVE  Promise!Next
<1> DEFINE fresh == Fresh(c, b, n)
           s == Other(c)
<1>1. /\ fresh \in SUBSET Packet
      /\ results \in [fresh -> RecvResults]
      /\ Receive(c, fresh, results)
  BY FreshType
<1>2. \A p \in fresh : /\ commitments[c][PacketAcknowledgementPath(p)] = Absent
                       /\ now[c] < p.timeout
  BY DEF Fresh, Acceptable, InTime
<1> HIDE DEF fresh
<1>3. s \in Chains /\ Other(s) = c
  BY OtherChain
<1> HIDE DEF s
<1>4. TypeOK /\ ReceiptsMirrored /\ TimeoutExcludesReceipt
  BY DEF DeliveryInv, TimeoutInv
<1>5. ASSUME NEW p \in fresh
      PROVE  /\ Receipt(c, p) = Absent
             /\ Outcome(s, p) # "timedOut"
             /\ Receipt(c, p)' = ReceiptValue(results[p])
  <2>1. p \in Packet
    BY <1>1
  <2>2. Receipt(c, p) = Absent
    BY <1>2, <1>4, <2>1 DEF ReceiptsMirrored
  <2>3. ~(timedOut[s][p] > 0)
    <3>1. now[c] \in Nat /\ p.timeout \in Nat
      BY <1>4, <2>1, NumbersAssumption DEF TypeOK, Packet
    <3>2. timedOut[s][p] > 0 => now[c] >= p.timeout
      BY <1>3, <1>4, <2>1 DEF TimeoutExcludesReceipt
    <3> QED BY <1>2, <3>1, <3>2
  <2>4. Outcome(s, p) # "timedOut"
    BY <2>3 DEF Outcome
  <2> QED BY <1>1, <1>4, <2>2, <2>4, ReceiveEffect
<1>6. \A e \in Chains, p \in Packet :
         e # c \/ p \notin fresh => Receipt(e, p)' = Receipt(e, p)
  <2> SUFFICES ASSUME NEW e \in Chains, NEW p \in Packet, e # c \/ p \notin fresh
               PROVE  Receipt(e, p)' = Receipt(e, p)
    OBVIOUS
  <2>1. e # c \/ \A q \in fresh : PacketAcknowledgementPath(p) # PacketAcknowledgementPath(q)
    BY PathsDistinct
  <2>2. PacketAcknowledgementPath(p) \in Paths
    BY PathsOfBatches
  <2>3. \A d \in Chains, y \in Paths :
           (d # c \/ \A q \in fresh : y # PacketAcknowledgementPath(q)) =>
              /\ commitments'[d][y] = commitments[d][y]
              /\ params'[d][y] = params[d][y]
    BY <1>1, <1>4, ReceiveEffect
  <2> QED BY <2>1, <2>2, <2>3 DEF Receipt
<1>7. \A e \in Chains, p \in Packet : Outcome(e, p)' = Outcome(e, p)
  BY DEF Outcome
<1>8. ASSUME NEW p \in fresh
      PROVE  /\ Answer(s, p) = Promise!Unreceived
             /\ Answer(s, p)' = [got |-> TRUE, acks |-> results[p]]
  BY <1>1, <1>3, <1>5, <1>8, AnswerIsView, Views
<1>9. \A e \in Chains, p \in Packet :
         e # s \/ p \notin fresh => Answer(e, p)' = Answer(e, p)
  BY <1>3, <1>6, AnswerIsView, OtherChain
<1>10. Promise!Receive(s, fresh, results)
  <2>1. \A p \in fresh : Answer(s, p) = Promise!Unreceived /\ Outcome(s, p) # "timedOut"
    BY <1>5, <1>8
  <2> QED BY <1>1, <1>3, <1>7, <1>8, <1>9, <2>1 DEF Promise!Receive
<1>11. results \in [fresh -> {<<>>} \cup {<<a>> : a \in Acks}]
  BY <1>1 DEF RecvResults, Async
<1> QED BY <1>1, <1>3, <1>10, <1>11 DEF Promise!Next

\* The answer of a record is filled in.
LEMMA AnswerFilled ==
    ASSUME NEW r, NEW new, r = [got |-> TRUE, acks |-> <<>>]
    PROVE  [r EXCEPT !.acks = new] = [got |-> TRUE, acks |-> new]
<1>1. ASSUME NEW g, NEW old
      PROVE  [[got |-> g, acks |-> old] EXCEPT !.acks = new] = [got |-> g, acks |-> new]
  <2>1. \A x \in [got : {g}, acks : {old}] :
           [x EXCEPT !.acks = new] = [got |-> g, acks |-> new]
    OBVIOUS
  <2>2. [got |-> g, acks |-> old] \in [got : {g}, acks : {old}]
    OBVIOUS
  <2> QED BY <2>1, <2>2, Zenon
<1>2. [[got |-> TRUE, acks |-> <<>>] EXCEPT !.acks = new] = [got |-> TRUE, acks |-> new]
  BY <1>1, Zenon
<1> QED BY <1>2, Zenon

\* The same in a table of answers.
LEMMA TableFilled ==
    ASSUME NEW S, NEW T, NEW U, NEW V, NEW f \in [S -> [T -> U]],
           NEW g \in [S -> [T -> V]], NEW s \in S, NEW p \in T, NEW new,
           g[s][p] = [f[s][p] EXCEPT !.acks = new],
           \A e \in S, q \in T : e # s \/ q # p => g[e][q] = f[e][q]
    PROVE  g = [f EXCEPT ![s][p].acks = new]
<1>1. g[s] = [f[s] EXCEPT ![p] = [f[s][p] EXCEPT !.acks = new]]
  OBVIOUS
<1>2. \A e \in S : e # s => g[e] = f[e]
  OBVIOUS
<1> QED BY <1>1, <1>2

\* WriteAcknowledgement is the abstract Reply.
LEMMA ReplyPromised ==
    ASSUME DeliveryInv, NEW c \in Chains, NEW p \in Packet, NEW a \in Acks,
           WriteAcknowledgement(c, p, a)
    PROVE  Promise!Next
<1>1. PICK s \in Chains : s = Other(c) /\ Other(s) = c
  BY OtherChain
<1>2. TypeOK /\ ReceiptsMirrored
  BY DEF DeliveryInv, TimeoutInv
<1>3. Receipt(c, p) = Magic
  BY <1>2 DEF WriteAcknowledgement, AckDue, ReceiptsMirrored
<1>4. \A e \in Chains, q \in Packet :
         Receipt(e, q)' = IF e = c /\ q = p THEN CommitAcks(<<a>>) ELSE Receipt(e, q)
  BY <1>2, SetCommitmentEffect, PathsOfBatches, PathsDistinct
     DEF WriteAcknowledgement, Receipt
<1>5. acked' = acked /\ \A e \in Chains, q \in Packet : Outcome(e, q)' = Outcome(e, q)
  BY DEF WriteAcknowledgement, Outcome, history
<1>6. /\ Answer(s, p) = [got |-> TRUE, acks |-> <<>>]
      /\ Answer(s, p)' = [got |-> TRUE, acks |-> <<a>>]
  BY <1>1, <1>3, <1>4, AnswerIsView, Views
<1>7. \A e \in Chains, q \in Packet : e # s \/ q # p => Answer(e, q)' = Answer(e, q)
  BY <1>1, <1>4, AnswerIsView, OtherChain
<1>8. Promise!Reply(s, p, a)
  <2> DEFINE f == [e \in Chains |-> [q \in Packet |-> Answer(e, q)]]
             g == [e \in Chains |-> [q \in Packet |-> Answer(e, q)']]
             U == {Answer(e, q) : e \in Chains, q \in Packet}
             V == {Answer(e, q)' : e \in Chains, q \in Packet}
  <2>1. f \in [Chains -> [Packet -> U]] /\ g \in [Chains -> [Packet -> V]]
    OBVIOUS
  <2>2. /\ f[s][p] = [got |-> TRUE, acks |-> <<>>]
        /\ g[s][p] = [got |-> TRUE, acks |-> <<a>>]
    BY <1>6
  <2>3. \A e \in Chains, q \in Packet : e # s \/ q # p => g[e][q] = f[e][q]
    BY <1>7
  <2>4. f' = g
    OBVIOUS
  <2> HIDE DEF f, g, U, V
  <2>5. g[s][p] = [f[s][p] EXCEPT !.acks = <<a>>]
    BY <2>2, AnswerFilled, Zenon
  <2>6. g = [f EXCEPT ![s][p].acks = <<a>>]
    BY <2>1, <2>3, <2>5, TableFilled
  <2>7. /\ f[s][p] = [got |-> TRUE, acks |-> <<>>]
        /\ f' = [f EXCEPT ![s][p].acks = <<a>>]
        /\ UNCHANGED [e \in Chains |-> [q \in Packet |-> Outcome(e, q)]]
        /\ UNCHANGED acked
    BY <1>5, <2>2, <2>4, <2>6
  <2> QED BY <2>7 DEF Promise!Reply, f
<1> QED BY <1>1, <1>8 DEF Promise!Next

\* PacketAcknowledgement is the abstract Acknowledge.
LEMMA AcknowledgePromised ==
    ASSUME DeliveryInv, DeliveryInv', NEW c \in Chains, NEW h \in client[c].heights,
           NEW b \in Batches, NEW acks \in AckBatches,
           PacketAcknowledgement(c, h, b, acks)
    PROVE  Promise!Next
<1>1. PICK ps \in SUBSET Packet :
         /\ SetPacketsAcknowledged(c, ps)
         /\ \A p \in ps :
               /\ Unsettled(c, p)
               /\ acked[c][p] = <<>>
               /\ Receipt(Other(c), p) = CommitAcks(acked'[c][p])
               /\ \E a \in Acks : acked'[c][p] = <<a>>
         /\ \A e \in Chains, p \in Packet :
               e # c \/ p \notin ps => acked'[e][p] = acked[e][p]
  BY AckEffect
<1>2. TypeOK
  BY DEF DeliveryInv, TimeoutInv
<1>3. UNCHANGED <<sent, timedOut>>
  BY DEF PacketAcknowledgement
<1>4. ASSUME NEW p \in ps
      PROVE  /\ Outcome(c, p) = "sent"
             /\ Outcome(c, p)' = "acked"
             /\ Answer(c, p).acks = acked'[c][p]
             /\ Answer(c, p).acks # <<>>
  <2>1. p \in Packet /\ Unsettled(c, p)
    BY <1>1
  <2>2. Outcome(c, p) = "sent" /\ timedOut[c][p] = 0
    BY <2>1, Seen
  <2>3. acked'[c][p] # <<>>
    BY <1>1
  <2>4. Answer(c, p).acks = acked'[c][p]
    BY <1>1, <2>1, AnswerIsView, Views
  <2> QED BY <1>3, <2>2, <2>3, <2>4 DEF Outcome
<1>5. \A e \in Chains, p \in Packet :
         e # c \/ p \notin ps => Outcome(e, p)' = Outcome(e, p)
  BY <1>1, <1>3 DEF Outcome
<1>6. \A e \in Chains, q \in Packet : Answer(e, q)' = Answer(e, q)
  BY <1>1, <1>2, AcknowledgedType, AnswerIsView DEF Receipt
<1>7. acked' = [acked EXCEPT ![c] =
          [p \in Packet |-> IF p \in ps THEN Answer(c, p).acks ELSE acked[c][p]]]
  <2>1. acked \in [Chains -> [Packet -> Seq(Acks)]] /\ acked' \in [Chains -> [Packet -> Seq(Acks)]]
    BY DEF DeliveryInv, TimeoutInv, TypeOK
  <2>2. acked'[c] =
           [p \in Packet |-> IF p \in ps THEN Answer(c, p).acks ELSE acked[c][p]]
    BY <1>1, <1>4, <2>1
  <2>3. \A e \in Chains : e # c => acked'[e] = acked[e]
    BY <1>1, <2>1
  <2> QED BY <2>1, <2>2, <2>3
<1>8. Promise!Acknowledge(c, ps)
  <2>1. \A p \in ps : Outcome(c, p) = "sent" /\ Answer(c, p).acks # <<>>
    BY <1>4
  <2>2. \A p \in ps : Outcome(c, p)' = "acked"
    BY <1>4
  <2> QED BY <1>5, <1>6, <1>7, <2>1, <2>2 DEF Promise!Acknowledge
<1> QED BY <1>8 DEF Promise!Next

\* Every other step is one no application sees.
LEMMA UnseenSteps ==
    ASSUME DeliveryInv, NEW c \in Chains,
           \/ \E t \in 1..MaxTime : NewBlock(c, t)
           \/ \E h \in Heights(Other(c)) : UpdateClient(c, h) \/ ForceUpdateClient(c, h)
           \/ Misbehaviour(c)
           \/ \E b \in Batches : BatchSend(c, b)
           \/ \E b \in Batches, acks \in AckBatches : BatchAcks(c, b, acks)
           \/ \E h, x, v : CommitMembershipProof(c, h, x, v)
           \/ \E h, x : CommitNonMembershipProof(c, h, x)
           \/ \E i \in ChannelIds :
                 ChannelCloseInit(c, i) \/ \E h : ChannelCloseConfirm(c, h, i)
    PROVE  UNCHANGED Promise!dvars
<1>1. UNCHANGED <<sent, acked, timedOut>>
  BY DEF NewBlock, UpdateClient, ForceUpdateClient, Misbehaviour, BatchSend, BatchAcks,
         CommitMembershipProof, CommitNonMembershipProof, ChannelCloseInit,
         ChannelCloseConfirm, history
<1>2. \A e \in Chains, q \in Packet : Outcome(e, q)' = Outcome(e, q)
  BY <1>1 DEF Outcome
<1>3. TypeOK
  BY DEF DeliveryInv, TimeoutInv
<1>4. \A e \in Chains, q \in Packet : Receipt(e, q)' = Receipt(e, q)
  <2>1. CASE UNCHANGED params
    BY <2>1 DEF Receipt
  <2>2. ASSUME NEW b \in Batches, BatchSend(c, b)
        PROVE  \A e \in Chains, q \in Packet : Receipt(e, q)' = Receipt(e, q)
    BY <2>2, <1>3, BatchIsNoPacket, SetCommitmentEffect, PathsOfBatches
       DEF BatchSend, Receipt
  <2>3. ASSUME NEW b \in Batches, NEW acks \in AckBatches, BatchAcks(c, b, acks)
        PROVE  \A e \in Chains, q \in Packet : Receipt(e, q)' = Receipt(e, q)
    BY <2>3, <1>3, BatchIsNoPacket, SetCommitmentEffect, PathsOfBatches
       DEF BatchAcks, Receipt
  <2> QED BY <2>1, <2>2, <2>3
       DEF NewBlock, UpdateClient, ForceUpdateClient, Misbehaviour,
           CommitMembershipProof, CommitNonMembershipProof, ChannelCloseInit,
           ChannelCloseConfirm
<1> QED BY <1>1, <1>2, <1>4, Unseen

\* Every step of the two chains is one of the promise, or is not seen.
LEMMA PromiseStep ==
    ASSUME DeliveryInv, DeliveryInv', [Next]_vars
    PROVE  [Promise!Next]_(Promise!dvars)
<1>1. CASE UNCHANGED vars
  BY <1>1, Unseen DEF vars, history, Outcome, Receipt
<1>2. CASE Next
  <2>1. PICK c \in Chains : ChainNext(c)
    BY <1>2 DEF Next
  <2>2. ASSUME NEW i \in ChannelIds, NEW d \in Data, NEW t \in Timeouts,
               SendPacket(c, i, d, t)
        PROVE  Promise!Next
    BY <2>2, SendPromised
  <2>3. ASSUME NEW h, NEW b \in Batches, NEW n \in 1..Len(b), PacketRecv(c, h, b, n)
        PROVE  Promise!Next
    <3>1. PICK results \in [Fresh(c, b, n) -> RecvResults] :
             Receive(c, Fresh(c, b, n), results)
      BY <2>3 DEF PacketRecv
    <3>2. Acceptable(c, b, n) /\ UNCHANGED <<sent, acked, timedOut>>
      BY <2>3 DEF PacketRecv
    <3> QED BY <3>1, <3>2, ReceivePromised
  <2>4. ASSUME NEW b \in Batches, NEW n \in 1..Len(b), IntentPacketRecv(c, b, n)
        PROVE  Promise!Next
    <3>1. PICK results \in [Fresh(c, b, n) -> RecvResults] :
             Receive(c, Fresh(c, b, n), results)
      BY <2>4 DEF IntentPacketRecv
    <3>2. Acceptable(c, b, n) /\ UNCHANGED <<sent, acked, timedOut>>
      BY <2>4 DEF IntentPacketRecv
    <3> QED BY <3>1, <3>2, ReceivePromised
  <2>5. ASSUME NEW p \in Packet, NEW a \in Acks, WriteAcknowledgement(c, p, a)
        PROVE  Promise!Next
    BY <2>5, ReplyPromised
  <2>6. ASSUME NEW h \in client[c].heights, NEW b \in Batches, NEW acks \in AckBatches,
               PacketAcknowledgement(c, h, b, acks)
        PROVE  Promise!Next
    BY <2>6, AcknowledgePromised
  <2>7. ASSUME NEW h \in client[c].heights, NEW p \in Packet, PacketTimeout(c, h, p)
        PROVE  Promise!Next
    BY <2>7, TimeoutPromised
  <2> QED BY <2>1, <2>2, <2>3, <2>4, <2>5, <2>6, <2>7, UnseenSteps DEF ChainNext
<1> QED BY <1>1, <1>2

\* The two cores implement packet delivery: an application sees a packet
\* received at most once, answered at most once, and settled once, by the
\* answer that was given or by a timeout that excludes it.
THEOREM PacketsDelivered == Spec => DeliversPackets
<1>1. DeliveryInv /\ DeliveryInv' /\ [Next]_vars => [Promise!Next]_(Promise!dvars)
  BY PromiseStep
<1> QED BY <1>1, PromiseInit, DeliveryAlways, PTL DEF Spec, DeliversPackets, Promise!Spec

=============================================================================
