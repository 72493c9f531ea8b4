----------------------------- MODULE UnionTypes -----------------------------
(***************************************************************************)
(* The values the Union core stores and proves: commitment paths, the     *)
(* sentinel values kept under them, and the commitments to packets and to  *)
(* acknowledgements (p/onbloc/ibc/union/types).                            *)
(*                                                                         *)
(* Keccak of an ABI encoding is modelled as a free constructor: two        *)
(* commitments are equal exactly when what they commit to is equal, and a  *)
(* path of one kind is never a path of another kind.                       *)
(***************************************************************************)

\* COMMITMENT_MAGIC: the value of a sent packet, of a batch of sent packets
\* and of a receipt whose acknowledgement is not written yet.
Magic == [kind |-> "MAGIC", acks |-> <<>>]

\* COMMITMENT_MAGIC_ACK: a sent packet that was acknowledged or timed out.
MagicAck == [kind |-> "MAGIC_ACK", acks |-> <<>>]

\* No value under the path.
Absent == [kind |-> "ABSENT", acks |-> <<>>]

\* Commitment to a sequence of acknowledgements (mergeAck included: the
\* first byte is that of the magic, the rest still tells sequences apart).
CommitAcks(acks) == [kind |-> "ACKS", acks |-> acks]

\* Commitment to a sequence of packets, and to one packet.
CommitPackets(packets) == [batch |-> packets]

CommitPacket(packet) == CommitPackets(<<packet>>)

BatchPacketsPath(batchHash) == [kind |-> "PACKETS", hash |-> batchHash]

BatchReceiptsPath(batchHash) == [kind |-> "PACKET_ACKS", hash |-> batchHash]

PacketCommitmentPath(packet) == BatchPacketsPath(CommitPacket(packet))

PacketAcknowledgementPath(packet) == BatchReceiptsPath(CommitPacket(packet))

=============================================================================
