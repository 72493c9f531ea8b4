----------------------------- MODULE ZkgmForward ----------------------------
(***************************************************************************)
(* Forwarding in the zkgm application (forward.gno), with the calls and    *)
(* batches that are forwarded (call.gno, batch.gno) and the entry points   *)
(* of the application (impl.gno), on chains that all run it.  A chain that *)
(* receives a forward sends a child packet on and answers the parent when  *)
(* the child is answered or has timed out.                                 *)
(*                                                                         *)
(* The core is what PacketDelivery promises, without its clients, proofs   *)
(* and times: a packet is received at most once, a packet that is not      *)
(* received may time out, and then is never received.  A handler that      *)
(* panics reverts its transaction and is no step.                          *)
(***************************************************************************)
EXTENDS ChannelPath, FiniteSets, Tables

CONSTANTS
    Chains,
    Channels,       \* Channels[c][n]: chain and id at the other end, open, ours
    Receivers,      \* Receivers[c]: the contracts registered on c
    Senders,        \* chains whose users send packets
    Instructions,   \* what they send
    Timeouts,       \* timeout timestamps of their packets
    MaxSent         \* bound on their packets

ASSUME ForwardAssumption ==
    /\ \A c \in Chains : \A n \in DOMAIN Channels[c] :
          LET ch == Channels[c][n]
          IN n \in 1..(SlotBase - 1) /\ ch.chain \in Chains /\ ch.id \in DOMAIN Channels[ch.chain]
    /\ Senders \subseteq Chains
    /\ MaxSent \in Nat

VARIABLES
    net,        \* by packet, what became of it for its sender (outcome), and
                \* whether it was received (got) and answered (ack)
    inflight,   \* inflight[c]: the parent of a child that c has sent on
    lineage,    \* history: the parent of every child
    ends,       \* history: the last packet the forwards of a packet led to
    ran         \* history: the answers of the contracts, by packet

vars == <<net, inflight, lineage, ends, ran>>

-----------------------------------------------------------------------------
(* Packets and acknowledgements.                                           *)

DeriveSenderSalt(sender, salt) == [sender |-> sender, salt |-> salt, hashed |-> 0]

\* Hashed and marked; a hash of another kind is marked with no probability.
DeriveForwardSalt(salt) == [salt EXCEPT !.hashed = @ + 1]

IsForwardedPacket(salt) == salt.hashed > 0

Destination(p) == Channels[p.chain][p.channel]

Ack(tag, kind, acks) == [tag |-> tag, kind |-> kind, acks |-> acks]

universalErrorAck == Ack(0, "none", <<>>)

callSuccessAck == Ack(1, "none", <<>>)

callErrAck == Ack(0, "error", <<>>)

-----------------------------------------------------------------------------
(* Instructions.                                                           *)

isAllowedBatchInstruction(op) == op \in {"call", "token order"}

isAllowedForwardInstruction(op) == op \in {"call", "token order", "batch"}

verifyForward(forward) ==
    /\ isAllowedForwardInstruction(forward.instruction.op)
    /\ forward.timeout # 0

\* What contracts may answer to a call: those of the batch in order.  A
\* contract that is not registered answers an error; one that panics reverts
\* the transaction.  An intent is for contracts that succeed.
executeCall(c, call, intent) ==
    IF call.receiver \notin Receivers[c] THEN {callErrAck}
    ELSE IF intent THEN {callSuccessAck} ELSE {callSuccessAck, callErrAck}

\* An instruction that a batch may not hold reverts the transaction too.
executeBatch(c, calls, intent) ==
    {Ack(1, "batch", acks) :
        acks \in {f \in [DOMAIN calls -> {callSuccessAck, callErrAck}] :
                     \A i \in DOMAIN calls :
                         /\ isAllowedBatchInstruction(calls[i].op)
                         /\ f[i] \in executeCall(c, calls[i], intent)}}

\* Answers to an instruction that is not forwarded.
Answers(c, instruction, intent) ==
    IF instruction.op = "call" THEN executeCall(c, instruction, intent)
    ELSE executeBatch(c, instruction.calls, intent)

\* The child of p that c = Destination(p).chain builds, or none.
NoPacket == [chain |-> "none"]

buildForwardChild(p) ==
    LET forward == p.instruction
        c == Destination(p).chain
        prev == DequeueChannelFromPath(forward.path)
        next == DequeueChannelFromPath(prev.path)
        path == UpdateChannelPath(UpdateChannelPath(p.path, prev.channel), next.channel)
    IN IF \/ forward.timeout = 0
          \/ prev.channel = 0
          \/ next.channel = 0
          \/ Destination(p).id # prev.channel
          \/ UpdateChannelPath(p.path, prev.channel) = NoPath
          \/ path = NoPath
          \/ next.channel \notin DOMAIN Channels[c]
       THEN NoPacket
       ELSE [chain |-> c, channel |-> next.channel, timeout |-> forward.timeout,
             salt |-> DeriveForwardSalt(p.salt), path |-> path,
             instruction |-> IF next.path = 0 THEN forward.instruction
                             ELSE [forward EXCEPT !.path = next.path]]

GetPacketCommitmentExists(p) == p \in DOMAIN net /\ net[p].outcome # "unsent"

\* The child's data is no longer than the parent's, so its size is admissible.
verifyForwardChannel(child) ==
    /\ child # NoPacket
    /\ Channels[child.chain][child.channel].ours
    /\ Channels[child.chain][child.channel].open
    /\ ~GetPacketCommitmentExists(child)

-----------------------------------------------------------------------------
(* The core (external).                                                    *)

Unsent == [outcome |-> "unsent", got |-> FALSE, ack |-> <<>>]

Known(n, p) == IF p \in DOMAIN n THEN n[p] ELSE Unsent

\* n after a packet was sent, received, answered.
SendPacket(n, p) == Put(n, p, [Known(n, p) EXCEPT !.outcome = "sent"])

RecordReceipt(n, p, acks) ==
    Put(n, p, [Known(n, p) EXCEPT !.got = TRUE, !.ack = acks])

WriteAcknowledgement(n, p, ack) == [n EXCEPT ![p].ack = <<ack>>]

\* Whether the core lets p be answered now.
Pending(p) == p \in DOMAIN net /\ net[p].got /\ net[p].ack = <<>>

-----------------------------------------------------------------------------
(* Entry points.                                                           *)

\* The packet at the end of the forwards of p.
End(p) == IF p \in DOMAIN ends THEN ends[p] ELSE p

\* The child of p is sent on: all that led to p leads to the child.
Descend(p, child) ==
    /\ lineage' = Put(lineage, child, p)
    /\ ends' = [q \in DOMAIN ends \cup {p} |-> IF End(q) = p THEN child ELSE ends[q]]

Send(c, n, timeout, instruction) ==
    LET p == [chain |-> c, channel |-> n, timeout |-> timeout, path |-> 0,
              salt |-> DeriveSenderSalt(c, "salt"), instruction |-> instruction]
    IN /\ Cardinality({q \in DOMAIN net : ~IsForwardedPacket(q.salt)}) < MaxSent
       /\ Channels[c][n].open /\ Channels[c][n].ours
       /\ instruction.op = "forward" => verifyForward(instruction)
       /\ ~GetPacketCommitmentExists(p)
       /\ net' = SendPacket(net, p)
       /\ UNCHANGED <<inflight, lineage, ends, ran>>

\* Mutant: the parent is answered at once.
ExecuteForwardAtOnce(p) ==
    LET child == buildForwardChild(p)
        c == Destination(p).chain
    IN IF isAllowedForwardInstruction(p.instruction.instruction.op)
             /\ verifyForwardChannel(child)
       THEN /\ net' = SendPacket(RecordReceipt(net, p, <<callSuccessAck>>), child)
            /\ inflight' = inflight
            /\ Descend(p, child)
       ELSE /\ net' = RecordReceipt(net, p, <<universalErrorAck>>)
            /\ UNCHANGED <<inflight, lineage, ends>>

\* The receipt of p is recorded; the child is sent and remembered, or p is
\* answered with an error.
executeForward(p) ==
    LET child == buildForwardChild(p)
        c == Destination(p).chain
    IN IF isAllowedForwardInstruction(p.instruction.instruction.op)
             /\ verifyForwardChannel(child)
       THEN /\ net' = SendPacket(RecordReceipt(net, p, <<>>), child)
            /\ inflight' = [inflight EXCEPT ![c] = Put(@, child, p)]
            /\ Descend(p, child)
       ELSE /\ net' = RecordReceipt(net, p, <<universalErrorAck>>)
            /\ UNCHANGED <<inflight, lineage, ends>>

OnRecvPacket(p) ==
    /\ net[p].outcome = "sent" /\ ~net[p].got
    /\ IF p.instruction.op = "forward"
       THEN executeForward(p) /\ UNCHANGED ran
       ELSE \E ack \in Answers(Destination(p).chain, p.instruction, FALSE) :
               /\ net' = RecordReceipt(net, p, <<ack>>)
               /\ ran' = Put(ran, p, ack)
               /\ UNCHANGED <<inflight, lineage, ends>>

\* A market maker acts on a packet, which may not have been sent yet.  It
\* cannot forward.
OnIntentRecvPacket(p) ==
    /\ ~Known(net, p).got /\ Known(net, p).outcome # "timedOut"
    /\ p.instruction.op # "forward"
    /\ \E ack \in Answers(Destination(p).chain, p.instruction, TRUE) :
          /\ net' = RecordReceipt(net, p, <<ack>>)
          /\ ran' = Put(ran, p, ack)
    /\ UNCHANGED <<inflight, lineage, ends>>

\* Is p a child whose parent waits for it?
IsForwardChild(p) == IsForwardedPacket(p.salt) /\ p \in DOMAIN inflight[p.chain]

\* Mutant: the child stays in the table.
HandleForwardChildKept(p, n, ack) ==
    /\ Pending(inflight[p.chain][p])
    /\ net' = WriteAcknowledgement(n, inflight[p.chain][p], ack)
    /\ inflight' = inflight

\* p is settled in n: it leaves the table and its parent is answered, which
\* the core refuses if the parent has been answered.
handleForwardChild(p, n, ack) ==
    /\ Pending(inflight[p.chain][p])
    /\ net' = WriteAcknowledgement(n, inflight[p.chain][p], ack)
    /\ inflight' = [inflight EXCEPT ![p.chain] =
          [q \in DOMAIN @ \ {p} |-> @[q]]]

\* Of calls and batches of calls, nothing else is to be done.
OnAcknowledgementPacket(p) ==
    LET acked == [net EXCEPT ![p].outcome = "acked"]
    IN /\ net[p].outcome = "sent" /\ net[p].ack # <<>>
       /\ IF IsForwardChild(p) THEN handleForwardChild(p, acked, net[p].ack[1])
          ELSE net' = acked /\ UNCHANGED inflight
       /\ UNCHANGED <<lineage, ends, ran>>

\* Mutant: a timeout does not settle the parent.
OnTimeoutPacketAlone(p) ==
    /\ net[p].outcome = "sent" /\ ~net[p].got
    /\ net' = [net EXCEPT ![p].outcome = "timedOut"]
    /\ UNCHANGED <<inflight, lineage, ends, ran>>

OnTimeoutPacket(p) ==
    LET timedOut == [net EXCEPT ![p].outcome = "timedOut"]
    IN /\ net[p].outcome = "sent" /\ ~net[p].got
       /\ IF IsForwardChild(p) THEN handleForwardChild(p, timedOut, universalErrorAck)
          ELSE net' = timedOut /\ UNCHANGED inflight
       /\ UNCHANGED <<lineage, ends, ran>>

-----------------------------------------------------------------------------

\* Packets a market maker may see coming: sent ones, and the children of those.
Expected ==
    DOMAIN net \cup ({buildForwardChild(p) : p \in {q \in DOMAIN net : q.instruction.op = "forward"}}
                        \ {NoPacket})

Init ==
    /\ net = <<>>
    /\ inflight = [c \in Chains |-> <<>>]
    /\ lineage = <<>>
    /\ ends = <<>>
    /\ ran = <<>>

Next ==
    \/ \E c \in Senders : \E n \in DOMAIN Channels[c], timeout \in Timeouts,
            instruction \in Instructions : Send(c, n, timeout, instruction)
    \/ \E p \in DOMAIN net :
          OnRecvPacket(p) \/ OnAcknowledgementPacket(p) \/ OnTimeoutPacket(p)
    \/ \E p \in Expected : OnIntentRecvPacket(p)

\* Acknowledgements are relayed, and a packet that is not received is timed
\* out.  Nothing obliges a relayer to have a packet received.
FairSpec ==
    /\ Init /\ [][Next]_vars
    /\ WF_vars(\E p \in DOMAIN net : OnAcknowledgementPacket(p) \/ OnTimeoutPacket(p))

-----------------------------------------------------------------------------
(* Properties.                                                             *)

ChildrenOf(p) == {c \in DOMAIN lineage : lineage[c] = p}

\* A child is in the table of the chain that sent it exactly as long as it is
\* not settled; then its parent is received and not answered.  A received
\* packet without an answer has exactly one such child.  So an answer is never
\* refused by the core, and never missing.
\* (forward.gno: executeForward, handleForwardChild; impl.gno)
ParentsWait ==
    /\ \A c \in Chains :
          /\ DOMAIN inflight[c] = {q \in DOMAIN lineage : q.chain = c /\ net[q].outcome = "sent"}
          /\ \A q \in DOMAIN inflight[c] : Pending(inflight[c][q]) /\ inflight[c][q] = lineage[q]
    /\ \A p \in DOMAIN net :
          Pending(p) => Cardinality({q \in ChildrenOf(p) : net[q].outcome = "sent"}) = 1

\* What the sender of a packet is told in the end is what happened where the
\* last forward led: the answer of the contracts if they ran, and an error or
\* a timeout only if they did not run for this packet.
\* (handleForwardChild, OnAcknowledgementPacket, OnTimeoutPacket)
ToldTruly ==
    \A p \in DOMAIN net :
        IF End(p) \in DOMAIN ran
        THEN /\ net[p].outcome # "timedOut"
             /\ net[p].outcome = "acked" => net[p].ack = <<ran[End(p)]>>
        ELSE net[p].outcome = "acked" => net[p].ack = <<universalErrorAck>>

\* The channels p went through: where each ancestor arrived, and where its
\* child left.
Route(p) ==
    LET up[n \in 0..MaxHops] ==
          IF n = 0 THEN p
          ELSE IF up[n - 1] \in DOMAIN lineage THEN lineage[up[n - 1]]
          ELSE up[n - 1]
        depth == Cardinality({up[n] : n \in 0..MaxHops}) - 1
    IN [i \in 1..(2 * depth) |->
          IF i % 2 = 1 THEN Destination(up[depth - (i \div 2)]).id
          ELSE up[depth - (i \div 2)].channel]

Digits(hops) ==
    LET sum[i \in 0..Len(hops)] ==
          IF i = 0 THEN 0 ELSE sum[i - 1] + hops[i] * Power[i - 1]
    IN sum[Len(hops)]

\* The path of a packet is the way it came, and backwards it is the way back.
\* (path.gno; forward.gno: buildForwardChild)
PathIsRoute ==
    \A p \in {q \in DOMAIN net : net[q].outcome # "unsent"} :
        /\ p.path = Digits(Route(p))
        /\ ReverseChannelPath(p.path) =
              Digits([i \in DOMAIN Route(p) |-> Route(p)[Len(Route(p)) + 1 - i]])

\* Every packet is settled in the end, those that are forwarded too.
AllSettle == <>[](\A p \in DOMAIN net : net[p].outcome # "sent")

=============================================================================
