---------------------------- MODULE MCCorePacket ----------------------------
(* Instances of CorePacket for TLC. *)
EXTENDS CorePacket

CONSTANTS d, ok, fail

\* Channel i of one chain is paired with channel i of the other.
Straight == [c \in {A, B} |-> [i \in ChannelIds |-> i]]

\* The ids of the two ends of a channel differ: 1 with 2.
Crossed == [c \in {A, B} |-> [i \in ChannelIds |-> 3 - i]]

\* Packets travel alone.
Singles == {<<p>> : p \in Packet}

\* The packets that leave by channel 1.
Route == {p \in Packet : p.source = 1 /\ p.destination = Counterparty[A][1]}

\* Also, of those, the one that times out first twice, or with another.
Pairs ==
    Singles \cup {b \in Route \X Route : \A p \in Route : b[1].timeout <= p.timeout}

ReceiptPaths == {PacketAcknowledgementPath(p) : p \in Packet}

Sends == ChannelIds \X Data \X Timeouts

Nobody == [send |-> [c \in {A, B} |-> {}], intent |-> {}, freeze |-> {},
           force |-> {}, close |-> {}]

\* A sends, market makers fill on B.
OneWay == [Nobody EXCEPT !.send[A] = Sends, !.intent = {B}]

\* Both chains send by channel 1: B sends an equal of one of A's packets.
BothWays ==
    LET byOne == {s \in Sends : s[1] = 1}
    IN [Nobody EXCEPT !.send[A] = byOne,
                      !.send[B] = {s \in byOne : \A r \in byOne : r[3] <= s[3]}]

\* A sends; B closes the channel.
Closing == [Nobody EXCEPT !.send[A] = Sends, !.close = {B}]

\* A sends; B may close the channel; A's client of B may freeze and be replaced.
Troubled == [Nobody EXCEPT !.send[A] = Sends, !.freeze = {A}, !.force = {A},
                           !.close = {B}]

=============================================================================
