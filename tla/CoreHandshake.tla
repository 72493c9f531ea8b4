---------------------------- MODULE CoreHandshake ----------------------------
(***************************************************************************)
(* The connection and channel handshakes of the Union core                 *)
(* (core/v1/connection.gno, core/v1/channel.gno) on two chains.            *)
(*                                                                         *)
(* Relayers submit any message at any time; a message that panics changes  *)
(* nothing and is no step.  An application may refuse a step of a channel  *)
(* by panicking in its callback, so every channel action may also not      *)
(* happen.  A relayer can bring a client to any height before it submits a *)
(* proof: what a chain can prove is what any of its blocks ever held.      *)
(***************************************************************************)
EXTENDS Integers, Sequences

CONSTANTS
    A, B,             \* the two chains
    Clients,          \* Clients[c]: ids of the clients c has of the other chain
    ClientIds,        \* client ids a message may name
    Ports, Apps,      \* Apps[c]: the ports where an application is registered
    Versions,
    Forcers,          \* the chains whose administrator uses the Force variants
    MaxConnections,   \* bound: connections per chain
    MaxChannels       \* bound: MaxChannels[c], the channels of c

Chains == {A, B}

Other(c) == IF c = A THEN B ELSE A

ASSUME ChainsAssumption == A # B

ASSUME BoundsAssumption ==
    MaxConnections \in Nat /\ MaxChannels \in [Chains -> Nat]

ASSUME NamesAssumption ==
    /\ \A c \in Chains : Clients[c] \subseteq ClientIds
    /\ \A c \in Chains : Apps[c] \subseteq Ports

VARIABLES
    connections,           \* Store.connections, by id
    channels,              \* Store.channels, by id: the channel and its owner
    provableConnections,   \* <<id, connection>> some block of a chain held
    provableChannels       \* <<id, channel>> some block of a chain held

vars == <<connections, channels, provableConnections, provableChannels>>

-----------------------------------------------------------------------------

Connection == [state : {"Init", "TryOpen", "Open"}, client : ClientIds,
               cpClient : ClientIds, cp : Nat]

Channel == [state : {"Init", "TryOpen", "Open", "Closed"}, connection : Nat,
            cp : Nat, cpPort : Ports, version : Versions]

ChannelEntry == [channel : Channel, port : Ports]

TypeOK ==
    /\ connections \in [Chains -> Seq(Connection)]
    /\ channels \in [Chains -> Seq(ChannelEntry)]
    /\ provableConnections \in [Chains -> SUBSET (Nat \X Connection)]
    /\ provableChannels \in [Chains -> SUBSET (Nat \X Channel)]

Init ==
    /\ connections = [c \in Chains |-> <<>>]
    /\ channels = [c \in Chains |-> <<>>]
    /\ provableConnections = [c \in Chains |-> {}]
    /\ provableChannels = [c \in Chains |-> {}]

NewConnection(state, client, cpClient, cp) ==
    [state |-> state, client |-> client, cpClient |-> cpClient, cp |-> cp]

\* Mutant: two arguments swapped.
NewChannelSwapped(state, connection, cp, cpPort, version) ==
    [state |-> state, connection |-> connection, cp |-> cp, cpPort |-> version,
     version |-> cpPort]

NewChannel(state, connection, cp, cpPort, version) ==
    [state |-> state, connection |-> connection, cp |-> cp, cpPort |-> cpPort,
     version |-> version]

\* The same end in another state.
Moved(channel, state) ==
    NewChannel(state, channel.connection, channel.cp, channel.cpPort,
               channel.version)

\* A block commits to what the store mirrored into the chain params.
NewBlock(c) ==
    /\ provableConnections' = [provableConnections EXCEPT ![c] =
          @ \cup {<<i, connections[c][i]>> : i \in DOMAIN connections[c]}]
    /\ provableChannels' = [provableChannels EXCEPT ![c] =
          @ \cup {<<i, channels[c][i].channel>> : i \in DOMAIN channels[c]}]
    /\ UNCHANGED <<connections, channels>>

\* Mutant: the client needs to exist, but its proof is not looked at.
ProvesNothing(c, client, facts, id, value) == client \in Clients[c]

\* verifyMembership of the value under the path of id.
Proves(c, client, facts, id, value) ==
    /\ client \in Clients[c]
    /\ <<id, value>> \in facts[Other(c)]

-----------------------------------------------------------------------------
(* Connections.  verify is FALSE in the Force variants.                    *)

AddConnection(c, connection) ==
    /\ connections' = [connections EXCEPT ![c] = Append(@, connection)]
    /\ UNCHANGED <<channels, provableConnections, provableChannels>>

SaveConnection(c, id, connection) ==
    /\ connections' = [connections EXCEPT ![c][id] = connection]
    /\ UNCHANGED <<channels, provableConnections, provableChannels>>

ConnectionOpenInit(c, client, cpClient) ==
    AddConnection(c, NewConnection("Init", client, cpClient, 0))

ConnectionOpenTry(c, client, cpClient, cp, verify) ==
    /\ verify => Proves(c, client, provableConnections, cp,
                        NewConnection("Init", cpClient, client, 0))
    /\ AddConnection(c, NewConnection("TryOpen", client, cpClient, cp))

\* Mutant: the counterparty may be trying some other connection of this chain.
ConnectionOpenAckAny(c, id, cp, verify) ==
    LET connection == connections[c][id] IN
    /\ connection.state = "Init"
    /\ verify => \E any \in 1..MaxConnections :
                    Proves(c, connection.client, provableConnections, cp,
                           NewConnection("TryOpen", connection.cpClient,
                                         connection.client, any))
    /\ SaveConnection(c, id, NewConnection("Open", connection.client,
                                           connection.cpClient, cp))

ConnectionOpenAck(c, id, cp, verify) ==
    LET connection == connections[c][id] IN
    /\ connection.state = "Init"
    /\ verify => Proves(c, connection.client, provableConnections, cp,
                        NewConnection("TryOpen", connection.cpClient,
                                      connection.client, id))
    /\ SaveConnection(c, id, NewConnection("Open", connection.client,
                                           connection.cpClient, cp))

ConnectionOpenConfirm(c, id, verify) ==
    LET connection == connections[c][id] IN
    /\ connection.state = "TryOpen"
    /\ verify => Proves(c, connection.client, provableConnections, connection.cp,
                        NewConnection("Open", connection.cpClient,
                                      connection.client, id))
    /\ SaveConnection(c, id, NewConnection("Open", connection.client,
                                           connection.cpClient, connection.cp))

\* ensureConnectionState does not panic.
ConnectionOpen(c, id) ==
    /\ id \in DOMAIN connections[c]
    /\ connections[c][id].state = "Open"

-----------------------------------------------------------------------------
(* Channels.                                                               *)

CreateChannel(c, channel, port) ==
    /\ port \in Apps[c]
    /\ channels' = [channels EXCEPT ![c] =
          Append(@, [channel |-> channel, port |-> port])]
    /\ UNCHANGED <<connections, provableConnections, provableChannels>>

SaveChannel(c, id, channel) ==
    /\ channels[c][id].port \in Apps[c]
    /\ channels' = [channels EXCEPT ![c][id] =
          [channel |-> channel, port |-> channels[c][id].port]]
    /\ UNCHANGED <<connections, provableConnections, provableChannels>>

\* The counterparty's end of a channel of c that uses connection id: a proof
\* that it is channel.
ProvesChannel(c, id, cp, state, cpCp, port, version) ==
    LET connection == connections[c][id] IN
    Proves(c, connection.client, provableChannels, cp,
           NewChannel(state, connection.cp, cpCp, port, version))

ChannelOpenInit(c, port, cpPort, connection, version) ==
    /\ ConnectionOpen(c, connection)
    /\ CreateChannel(c, NewChannel("Init", connection, 0, cpPort, version), port)

\* Nothing but the state, the connection and a non-zero counterparty id of
\* the channel in the message is checked: its version and counterparty port
\* are the relayer's.
ChannelOpenTry(c, port, channel, cpVersion, verify) ==
    /\ channel.state = "TryOpen"
    /\ channel.cp # 0
    /\ ConnectionOpen(c, channel.connection)
    /\ verify => ProvesChannel(c, channel.connection, channel.cp, "Init", 0, port,
                               cpVersion)
    /\ CreateChannel(c, channel, port)

\* Mutant: the channel keeps the version it proposed.
ChannelOpenAckOwnVersion(c, id, cp, cpVersion, verify) ==
    LET channel == channels[c][id].channel IN
    /\ channel.state = "Init"
    /\ ConnectionOpen(c, channel.connection)
    /\ verify => ProvesChannel(c, channel.connection, cp, "TryOpen", id,
                               channels[c][id].port, cpVersion)
    /\ SaveChannel(c, id, NewChannel("Open", channel.connection, cp,
                                     channel.cpPort, channel.version))

ChannelOpenAck(c, id, cp, cpVersion, verify) ==
    LET channel == channels[c][id].channel IN
    /\ channel.state = "Init"
    /\ ConnectionOpen(c, channel.connection)
    /\ verify => ProvesChannel(c, channel.connection, cp, "TryOpen", id,
                               channels[c][id].port, cpVersion)
    /\ SaveChannel(c, id, NewChannel("Open", channel.connection, cp,
                                     channel.cpPort, cpVersion))

\* Mutant: any channel that is not open yet is confirmed.
ChannelOpenConfirmInit(c, id, verify) ==
    LET channel == channels[c][id].channel IN
    /\ channel.state # "Open"
    /\ ConnectionOpen(c, channel.connection)
    /\ verify => ProvesChannel(c, channel.connection, channel.cp, "Open", id,
                               channels[c][id].port, channel.version)
    /\ SaveChannel(c, id, Moved(channel, "Open"))

\* Mutant: the other end is expected not to name this one yet.
ChannelOpenConfirmUnnamed(c, id, verify) ==
    LET channel == channels[c][id].channel IN
    /\ channel.state = "TryOpen"
    /\ ConnectionOpen(c, channel.connection)
    /\ verify => ProvesChannel(c, channel.connection, channel.cp, "Open", 0,
                               channels[c][id].port, channel.version)
    /\ SaveChannel(c, id, Moved(channel, "Open"))

ChannelOpenConfirm(c, id, verify) ==
    LET channel == channels[c][id].channel IN
    /\ channel.state = "TryOpen"
    /\ channel.cp # 0
    /\ ConnectionOpen(c, channel.connection)
    /\ verify => ProvesChannel(c, channel.connection, channel.cp, "Open", id,
                               channels[c][id].port, channel.version)
    /\ SaveChannel(c, id, Moved(channel, "Open"))

ChannelCloseInit(c, id) ==
    LET channel == channels[c][id].channel IN
    /\ channel.state = "Open"
    /\ channel.cp # 0
    /\ ConnectionOpen(c, channel.connection)
    /\ SaveChannel(c, id, Moved(channel, "Closed"))

\* Mutant: the proof is about the end the counterparty opened first.
ChannelCloseConfirmFirst(c, id) ==
    LET channel == channels[c][id].channel IN
    /\ channel.state = "Open"
    /\ ConnectionOpen(c, channel.connection)
    /\ ProvesChannel(c, channel.connection, 1, "Closed", id,
                     channels[c][id].port, channel.version)
    /\ SaveChannel(c, id, Moved(channel, "Closed"))

ChannelCloseConfirm(c, id) ==
    LET channel == channels[c][id].channel IN
    /\ channel.state = "Open"
    /\ channel.cp # 0
    /\ ConnectionOpen(c, channel.connection)
    /\ ProvesChannel(c, channel.connection, channel.cp, "Closed", id,
                     channels[c][id].port, channel.version)
    /\ SaveChannel(c, id, Moved(channel, "Closed"))

-----------------------------------------------------------------------------

ConnectionNext(c, verify) ==
    \/ /\ Len(connections[c]) < MaxConnections
       /\ \E client, cpClient \in ClientIds, cp \in 0..MaxConnections :
             ConnectionOpenTry(c, client, cpClient, cp, verify)
    \/ \E id \in DOMAIN connections[c], cp \in 0..MaxConnections :
          ConnectionOpenAck(c, id, cp, verify)
    \/ \E id \in DOMAIN connections[c] : ConnectionOpenConfirm(c, id, verify)

ChannelNext(c, verify) ==
    \/ /\ Len(channels[c]) < MaxChannels[c]
       /\ \E port, cpPort \in Ports, version, cpVersion \in Versions,
             connection \in DOMAIN connections[c], cp \in 0..MaxChannels[Other(c)] :
             ChannelOpenTry(c, port,
                            NewChannel("TryOpen", connection, cp, cpPort, version),
                            cpVersion, verify)
    \/ \E id \in DOMAIN channels[c], cp \in 0..MaxChannels[Other(c)], version \in Versions :
          ChannelOpenAck(c, id, cp, version, verify)
    \/ \E id \in DOMAIN channels[c] : ChannelOpenConfirm(c, id, verify)

ChainNext(c) ==
    \/ NewBlock(c)
    \/ /\ Len(connections[c]) < MaxConnections
       /\ \E client, cpClient \in ClientIds : ConnectionOpenInit(c, client, cpClient)
    \/ /\ Len(channels[c]) < MaxChannels[c]
       /\ \E port, cpPort \in Ports, connection \in DOMAIN connections[c],
             version \in Versions :
             ChannelOpenInit(c, port, cpPort, connection, version)
    \/ \E verify \in BOOLEAN :
          /\ verify \/ c \in Forcers
          /\ ConnectionNext(c, verify) \/ ChannelNext(c, verify)
    \/ \E id \in DOMAIN channels[c] :
          ChannelCloseInit(c, id) \/ ChannelCloseConfirm(c, id)

Next == \E c \in Chains : ChainNext(c)

Spec == Init /\ [][Next]_vars

-----------------------------------------------------------------------------
(* Safety.                                                                 *)

\* The end that connection end i of c names is open or about to be, has the
\* same two clients and names i back.
ConnectionPair(c, i, end) ==
    LET others == connections[Other(c)] IN
    /\ end.cp \in DOMAIN others
    /\ others[end.cp].state \in {"TryOpen", "Open"}
    /\ others[end.cp].client = end.cpClient
    /\ others[end.cp].cpClient = end.client
    /\ others[end.cp].cp = i

\* An open connection end is paired: a second TryOpen for the same Init, or
\* a proof from an old block, never pairs an end twice (connectionOpenAck,
\* connectionOpenConfirm).
ConnectionsPaired ==
    Forcers = {} =>
    \A c \in Chains : \A i \in DOMAIN connections[c] :
        connections[c][i].state = "Open" => ConnectionPair(c, i, connections[c][i])

\* The end that channel end i of c names is past Init, names i back, runs
\* over the paired connection with the same version, and each of the two
\* names the port that owns the other.
ChannelPair(c, i, end, port) ==
    LET others == channels[Other(c)] IN
    /\ end.cp \in DOMAIN others
    /\ others[end.cp].channel.state # "Init"
    /\ others[end.cp].channel.cp = i
    /\ others[end.cp].channel.version = end.version
    /\ others[end.cp].channel.cpPort = port
    /\ others[end.cp].channel.connection = connections[c][end.connection].cp
    /\ end.cpPort = others[end.cp].port

\* An open or closed channel end is paired, although channelOpenTry takes
\* the version and the counterparty port from the relayer and any number of
\* ends may answer one Init.
ChannelsPaired ==
    Forcers = {} =>
    \A c \in Chains : \A i \in DOMAIN channels[c] :
        channels[c][i].channel.state \in {"Open", "Closed"} =>
            ChannelPair(c, i, channels[c][i].channel, channels[c][i].port)

\* An end only moves forward, and from the moment it is open its connection,
\* counterparty, version and ports are fixed, whatever an administrator
\* forces.
EndsProgress ==
    [][\A c \in Chains :
        /\ \A i \in DOMAIN connections[c] :
              LET old == connections[c][i]
                  new == connections'[c][i]
              IN /\ old.state # "Init" => new.state # "Init" /\ new.cp = old.cp
                 /\ old.state = "Open" => new = old
        /\ \A i \in DOMAIN channels[c] :
              LET old == channels[c][i].channel
                  new == channels'[c][i].channel
              IN /\ channels'[c][i].port = channels[c][i].port
                 /\ old.state # "Init" => new \in {old, Moved(old, "Open"),
                                                   Moved(old, "Closed")}
                 /\ old.state = "Closed" => new = old]_vars

-----------------------------------------------------------------------------
(* Why open ends are paired: a proof may be of an old block, but what it    *)
(* showed of an end binds what the end can be now.                         *)

ConnectionLater(old, new) ==
    /\ new.client = old.client /\ new.cpClient = old.cpClient
    /\ old.state = "TryOpen" => new.state \in {"TryOpen", "Open"}
    /\ old.state = "Open" => new.state = "Open"
    /\ old.state # "Init" => new.cp = old.cp

ChannelLater(old, new) ==
    /\ new.connection = old.connection /\ new.cpPort = old.cpPort
    /\ old.state # "Init" => /\ new.state # "Init"
                            /\ new.cp = old.cp /\ new.version = old.version
    /\ old.state \in {"Open", "Closed"} => new.state \in {"Open", "Closed"}

\* What a block held of a connection is the past of what it is.
ConnectionFactsPast ==
    \A c \in Chains : \A f \in provableConnections[c] :
        f[1] \in DOMAIN connections[c] /\ ConnectionLater(f[2], connections[c][f[1]])

ChannelFactsPast ==
    \A c \in Chains : \A f \in provableChannels[c] :
        f[1] \in DOMAIN channels[c] /\ ChannelLater(f[2], channels[c][f[1]].channel)

\* Channels only exist on open connections.
ChannelsConnected ==
    \A c \in Chains : \A i \in DOMAIN channels[c] :
        ConnectionOpen(c, channels[c][i].channel.connection)

\* A tried end answers an end that asked for its port over its connection.
Answers(c, end, port) ==
    LET others == channels[Other(c)] IN
    /\ end.cp \in DOMAIN others
    /\ others[end.cp].channel.cpPort = port
    /\ others[end.cp].channel.connection = connections[c][end.connection].cp

TriesAnswer ==
    Forcers = {} =>
    \A c \in Chains : \A i \in DOMAIN channels[c] :
        channels[c][i].channel.state = "TryOpen" =>
            Answers(c, channels[c][i].channel, channels[c][i].port)

HandshakeInv ==
    /\ TypeOK
    /\ ConnectionFactsPast /\ ChannelFactsPast
    /\ ConnectionsPaired
    /\ ChannelsConnected /\ TriesAnswer /\ ChannelsPaired

-----------------------------------------------------------------------------
(* Liveness.                                                               *)

\* Blocks are produced, and a relayer confirms what it can prove.
Fairness ==
    \A c \in Chains :
        /\ WF_vars(NewBlock(c))
        /\ \A id \in 1..MaxConnections :
              WF_vars(id \in DOMAIN connections[c] /\ ConnectionOpenConfirm(c, id, TRUE))
        /\ \A id \in 1..MaxChannels[c] :
              /\ WF_vars(id \in DOMAIN channels[c] /\ ChannelOpenConfirm(c, id, TRUE))
              /\ WF_vars(id \in DOMAIN channels[c] /\ ChannelCloseConfirm(c, id))

FairSpec == Spec /\ Fairness

ChannelState(c, i) ==
    IF i \in DOMAIN channels[c] THEN channels[c][i].channel.state ELSE "Unknown"

\* Ends i of c and n of the other chain are the two ends of a channel: n names
\* i, and what i records is what n expects of it.  An end that an administrator
\* forced open may name an end that knows nothing of it.
Joined(c, i, n) ==
    /\ i \in DOMAIN channels[c] /\ n \in DOMAIN channels[Other(c)]
    /\ LET end == channels[Other(c)][n] IN
          /\ end.channel.cp = i
          /\ ChannelPair(Other(c), n, end.channel, end.port)

\* An end that the other chain acknowledged opens, unless the other chain
\* closes its end first: an Open and a Closed in one block leave no proof of
\* the Open one, and the end stays in TryOpen.
AcknowledgedOpens ==
    \A c \in Chains : \A i \in 1..MaxChannels[c], n \in 1..MaxChannels[Other(c)] :
        ChannelState(c, i) = "Open" /\ Joined(c, i, n) ~>
            \/ ChannelState(Other(c), n) \in {"Open", "Closed"}
            \/ ChannelState(c, i) = "Closed"

\* Closing one end of an open channel closes the other one.
ClosePropagates ==
    \A c \in Chains : \A i \in 1..MaxChannels[c], n \in 1..MaxChannels[Other(c)] :
        ChannelState(c, i) = "Closed" /\ Joined(c, i, n)
            /\ ChannelState(Other(c), n) = "Open" ~>
        ChannelState(Other(c), n) = "Closed"


=============================================================================
