--------------------------- MODULE PacketDelivery ---------------------------
(***************************************************************************)
(* What the IBC core promises an application about its packets: a packet   *)
(* is received at most once, answered at most once, and its sender is told *)
(* either that answer or that the packet timed out, once; a packet that    *)
(* timed out is never received.  There are no clients, proofs, blocks or   *)
(* batches here; CorePacket implements this specification.                 *)
(***************************************************************************)
EXTENDS Sequences

CONSTANTS Senders, Packets, Answers

VARIABLES
    outcome,    \* outcome[c][p]: what became of p for its sender on c
    receipt,    \* receipt[c][p]: what the other side of c did with p
    told        \* told[c][p]: the answers the sender was given

dvars == <<outcome, receipt, told>>

Unreceived == [got |-> FALSE, acks |-> <<>>]

Init ==
    /\ outcome = [c \in Senders |-> [p \in Packets |-> "unsent"]]
    /\ receipt = [c \in Senders |-> [p \in Packets |-> Unreceived]]
    /\ told = [c \in Senders |-> [p \in Packets |-> <<>>]]

Send(c, p) ==
    /\ outcome[c][p] = "unsent"
    /\ outcome' = [outcome EXCEPT ![c][p] = "sent"]
    /\ UNCHANGED <<receipt, told>>

\* Some packets reach the other side, p with its answer answers[p] or, if that
\* is empty, none yet.  A market maker may act before the packet is sent.
Receive(c, ps, answers) ==
    /\ \A p \in ps : receipt[c][p] = Unreceived /\ outcome[c][p] # "timedOut"
    /\ receipt' = [receipt EXCEPT ![c] =
          [p \in Packets |-> IF p \in ps THEN [got |-> TRUE, acks |-> answers[p]]
                             ELSE @[p]]]
    /\ UNCHANGED <<outcome, told>>

Reply(c, p, a) ==
    /\ receipt[c][p] = [got |-> TRUE, acks |-> <<>>]
    /\ receipt' = [receipt EXCEPT ![c][p].acks = <<a>>]
    /\ UNCHANGED <<outcome, told>>

\* Senders are told the answers that were given.
Acknowledge(c, ps) ==
    /\ \A p \in ps : outcome[c][p] = "sent" /\ receipt[c][p].acks # <<>>
    /\ outcome' = [outcome EXCEPT ![c] =
          [p \in Packets |-> IF p \in ps THEN "acked" ELSE @[p]]]
    /\ told' = [told EXCEPT ![c] =
          [p \in Packets |-> IF p \in ps THEN receipt[c][p].acks ELSE @[p]]]
    /\ UNCHANGED receipt

Timeout(c, p) ==
    /\ outcome[c][p] = "sent"
    /\ receipt[c][p] = Unreceived
    /\ outcome' = [outcome EXCEPT ![c][p] = "timedOut"]
    /\ UNCHANGED <<receipt, told>>

Next ==
    \E c \in Senders :
        \/ \E p \in Packets : Send(c, p) \/ Timeout(c, p)
        \/ \E p \in Packets, a \in Answers : Reply(c, p, a)
        \/ \E ps \in SUBSET Packets :
              \/ Acknowledge(c, ps)
              \/ \E answers \in [ps -> {<<>>} \cup {<<a>> : a \in Answers}] :
                    Receive(c, ps, answers)

Spec == Init /\ [][Next]_dvars

=============================================================================
