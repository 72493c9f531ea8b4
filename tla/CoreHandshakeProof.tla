------------------------- MODULE CoreHandshakeProof -------------------------
(***************************************************************************)
(* Proofs about CoreHandshake, for any number of connections, channels,    *)
(* ports, versions and blocks.                                             *)
(***************************************************************************)
EXTENDS CoreHandshake, SequenceTheorems, TLAPS

\* The other chain is a chain, and not this one.
LEMMA OtherChain ==
    ASSUME NEW c \in Chains
    PROVE  Other(c) \in Chains /\ Other(c) # c /\ Other(Other(c)) = c
BY ChainsAssumption DEF Chains, Other

\* Appending keeps the entries there are and adds one.
LEMMA AppendEffect ==
    ASSUME NEW S, NEW s \in Seq(S), NEW e \in S
    PROVE  /\ Append(s, e) \in Seq(S)
           /\ DOMAIN s \subseteq DOMAIN Append(s, e)
           /\ \A i \in DOMAIN s : Append(s, e)[i] = s[i]
           /\ \A i \in DOMAIN Append(s, e) : i \in DOMAIN s \/ Append(s, e)[i] = e
<1>1. /\ Append(s, e) \in Seq(S)
      /\ Len(Append(s, e)) = Len(s) + 1
      /\ \A i \in 1..Len(s) : Append(s, e)[i] = s[i]
      /\ Append(s, e)[Len(s) + 1] = e
  BY AppendProperties
<1>2. /\ Len(s) \in Nat /\ DOMAIN s = 1..Len(s)
      /\ DOMAIN Append(s, e) = 1..(Len(s) + 1)
  BY <1>1, LenProperties
<1> QED BY <1>1, <1>2

\* Overwriting an entry keeps the others.
LEMMA ExceptEffect ==
    ASSUME NEW S, NEW s \in Seq(S), NEW i \in DOMAIN s, NEW e \in S
    PROVE  /\ [s EXCEPT ![i] = e] \in Seq(S)
           /\ DOMAIN [s EXCEPT ![i] = e] = DOMAIN s
           /\ [s EXCEPT ![i] = e][i] = e
           /\ \A j \in DOMAIN s : j # i => [s EXCEPT ![i] = e][j] = s[j]
BY ExceptSeq, LenProperties

\* Entries are of their type.
LEMMA Entries ==
    ASSUME TypeOK, NEW c \in Chains
    PROVE  /\ \A i \in DOMAIN connections[c] : i \in Nat /\ connections[c][i] \in Connection
           /\ \A i \in DOMAIN channels[c] :
                 /\ i \in Nat
                 /\ channels[c][i] \in ChannelEntry
                 /\ channels[c][i].channel \in Channel
                 /\ channels[c][i].port \in Ports
<1>1. connections[c] \in Seq(Connection) /\ channels[c] \in Seq(ChannelEntry)
  BY DEF TypeOK
<1>2. \A i \in DOMAIN connections[c] : i \in Nat /\ connections[c][i] \in Connection
  BY <1>1, LenProperties
<1>3. \A i \in DOMAIN channels[c] : i \in Nat /\ channels[c][i] \in ChannelEntry
  BY <1>1, LenProperties
<1> QED BY <1>2, <1>3 DEF ChannelEntry

\* A new connection end is a connection.
LEMMA NewConnectionType ==
    ASSUME NEW s \in {"Init", "TryOpen", "Open"}, NEW x \in ClientIds,
           NEW y \in ClientIds, NEW n \in Nat
    PROVE  /\ NewConnection(s, x, y, n) \in Connection
           /\ NewConnection(s, x, y, n).state = s
           /\ NewConnection(s, x, y, n).client = x
           /\ NewConnection(s, x, y, n).cpClient = y
           /\ NewConnection(s, x, y, n).cp = n
BY DEF NewConnection, Connection

\* A new channel end is a channel.
LEMMA NewChannelType ==
    ASSUME NEW s \in {"Init", "TryOpen", "Open", "Closed"}, NEW k \in Nat,
           NEW n \in Nat, NEW p \in Ports, NEW v \in Versions
    PROVE  /\ NewChannel(s, k, n, p, v) \in Channel
           /\ NewChannel(s, k, n, p, v).state = s
           /\ NewChannel(s, k, n, p, v).connection = k
           /\ NewChannel(s, k, n, p, v).cp = n
           /\ NewChannel(s, k, n, p, v).cpPort = p
           /\ NewChannel(s, k, n, p, v).version = v
BY DEF NewChannel, Channel

-----------------------------------------------------------------------------
(* What a write to the store must satisfy to keep the invariant.            *)

\* A block adds the present to what can be proved.
LEMMA NewBlockStep ==
    ASSUME HandshakeInv, NEW c \in Chains, NewBlock(c)
    PROVE  HandshakeInv'
<1>1. TypeOK
  BY DEF HandshakeInv
<1>2. UNCHANGED <<connections, channels>>
  BY DEF NewBlock
<1>3. \A e \in Chains : \A f \in provableConnections'[e] :
         \/ f \in provableConnections[e]
         \/ \E i \in DOMAIN connections[e] : f = <<i, connections[e][i]>>
  BY <1>1 DEF NewBlock, TypeOK
<1>4. \A e \in Chains : \A f \in provableChannels'[e] :
         \/ f \in provableChannels[e]
         \/ \E i \in DOMAIN channels[e] : f = <<i, channels[e][i].channel>>
  BY <1>1 DEF NewBlock, TypeOK
<1>5. TypeOK'
  <2>1. {<<i, connections[c][i]>> : i \in DOMAIN connections[c]}
            \subseteq Nat \X Connection
    BY <1>1, Entries
  <2>2. {<<i, channels[c][i].channel>> : i \in DOMAIN channels[c]}
            \subseteq Nat \X Channel
    BY <1>1, Entries
  <2>3. provableConnections' \in [Chains -> SUBSET (Nat \X Connection)]
    BY <1>1, <2>1 DEF NewBlock, TypeOK
  <2>4. provableChannels' \in [Chains -> SUBSET (Nat \X Channel)]
    BY <1>1, <2>2 DEF NewBlock, TypeOK
  <2> QED BY <1>1, <1>2, <2>3, <2>4 DEF TypeOK
<1>6. ConnectionFactsPast'
  <2> SUFFICES ASSUME NEW e \in Chains, NEW f \in provableConnections'[e]
               PROVE  /\ f[1] \in DOMAIN connections[e]
                      /\ ConnectionLater(f[2], connections[e][f[1]])
    BY <1>2 DEF ConnectionFactsPast
  <2>1. CASE f \in provableConnections[e]
    BY <2>1 DEF HandshakeInv, ConnectionFactsPast
  <2>2. ASSUME NEW i \in DOMAIN connections[e], f = <<i, connections[e][i]>>
        PROVE  /\ f[1] \in DOMAIN connections[e]
               /\ ConnectionLater(f[2], connections[e][f[1]])
    <3>1. f[1] = i /\ f[2] = connections[e][i]
      BY <2>2
    <3> QED BY <3>1 DEF ConnectionLater
  <2> QED BY <2>1, <2>2, <1>3
<1>7. ChannelFactsPast'
  <2> SUFFICES ASSUME NEW e \in Chains, NEW f \in provableChannels'[e]
               PROVE  /\ f[1] \in DOMAIN channels[e]
                      /\ ChannelLater(f[2], channels[e][f[1]].channel)
    BY <1>2 DEF ChannelFactsPast
  <2>1. CASE f \in provableChannels[e]
    BY <2>1 DEF HandshakeInv, ChannelFactsPast
  <2>2. ASSUME NEW i \in DOMAIN channels[e], f = <<i, channels[e][i].channel>>
        PROVE  /\ f[1] \in DOMAIN channels[e]
               /\ ChannelLater(f[2], channels[e][f[1]].channel)
    <3>1. f[1] = i /\ f[2] = channels[e][i].channel
      BY <2>2
    <3> QED BY <3>1 DEF ChannelLater
  <2> QED BY <2>1, <2>2, <1>4
<1>8. ConnectionsPaired' /\ ChannelsConnected'
  BY <1>2 DEF HandshakeInv, ConnectionsPaired, ConnectionPair, ChannelsConnected,
     ConnectionOpen
<1>9. TriesAnswer'
  BY <1>2 DEF HandshakeInv, TriesAnswer, Answers
<1>10. ChannelsPaired'
  <2> SUFFICES ASSUME Forcers = {}, NEW e \in Chains, NEW i \in DOMAIN channels[e],
                      channels[e][i].channel.state \in {"Open", "Closed"}
               PROVE  ChannelPair(e, i, channels[e][i].channel, channels[e][i].port)'
    BY <1>2 DEF ChannelsPaired
  <2>1. ChannelPair(e, i, channels[e][i].channel, channels[e][i].port)
    BY DEF HandshakeInv, ChannelsPaired
  <2> QED BY <2>1, <1>2 DEF ChannelPair
<1> QED BY <1>5, <1>6, <1>7, <1>8, <1>9, <1>10 DEF HandshakeInv

\* Connections may be added that are not open, and opened if they are paired.
\* What the channels rely on is that open connections do not change.
LEMMA ConnectionStep ==
    ASSUME HandshakeInv, TypeOK',
           UNCHANGED <<channels, provableConnections, provableChannels>>,
           \A e \in Chains : \A i \in DOMAIN connections[e] :
              /\ i \in DOMAIN connections'[e]
              /\ ConnectionLater(connections[e][i], connections'[e][i])
              /\ connections[e][i].state = "Open" =>
                    connections'[e][i] = connections[e][i],
           Forcers = {} =>
              \A e \in Chains : \A i \in DOMAIN connections'[e] :
                 \/ i \in DOMAIN connections[e] /\ connections'[e][i] = connections[e][i]
                 \/ connections'[e][i].state # "Open"
                 \/ ConnectionPair(e, i, connections'[e][i])
    PROVE  HandshakeInv'
<1>1. ConnectionFactsPast'
  <2> SUFFICES ASSUME NEW e \in Chains, NEW f \in provableConnections[e]
               PROVE  /\ f[1] \in DOMAIN connections'[e]
                      /\ ConnectionLater(f[2], connections'[e][f[1]])
    BY DEF ConnectionFactsPast
  <2>1. /\ f[1] \in DOMAIN connections[e]
        /\ ConnectionLater(f[2], connections[e][f[1]])
    BY DEF HandshakeInv, ConnectionFactsPast
  <2>2. /\ f[1] \in DOMAIN connections'[e]
        /\ ConnectionLater(connections[e][f[1]], connections'[e][f[1]])
    BY <2>1
  <2>3. f[2].state \in {"Init", "TryOpen", "Open"}
    BY DEF HandshakeInv, TypeOK, Connection
  <2> QED BY <2>1, <2>2, <2>3 DEF ConnectionLater
<1>2. ChannelFactsPast'
  BY DEF HandshakeInv, ChannelFactsPast
<1>3. ConnectionsPaired'
  <2> SUFFICES ASSUME Forcers = {}, NEW e \in Chains, NEW i \in DOMAIN connections'[e],
                      connections'[e][i].state = "Open"
               PROVE  ConnectionPair(e, i, connections[e][i])'
    BY DEF ConnectionsPaired
  <2>1. ConnectionPair(e, i, connections'[e][i])
    BY DEF HandshakeInv, ConnectionsPaired
  <2>2. Other(e) \in Chains
    BY OtherChain
  <2>3. LET n == connections'[e][i].cp IN
           /\ n \in DOMAIN connections'[Other(e)]
           /\ ConnectionLater(connections[Other(e)][n], connections'[Other(e)][n])
    BY <2>1, <2>2 DEF ConnectionPair
  <2> QED BY <2>1, <2>3 DEF ConnectionPair, ConnectionLater
<1>4. \A e \in Chains : \A i \in DOMAIN channels[e] :
         LET k == channels[e][i].channel.connection IN
         /\ ConnectionOpen(e, k)
         /\ ConnectionOpen(e, k)'
         /\ connections'[e][k] = connections[e][k]
  BY DEF HandshakeInv, ChannelsConnected, ConnectionOpen
<1>5. ChannelsConnected'
  BY <1>4 DEF ChannelsConnected
<1>6. TriesAnswer'
  BY <1>4 DEF HandshakeInv, TriesAnswer, Answers
<1>7. ChannelsPaired'
  <2> SUFFICES ASSUME Forcers = {}, NEW e \in Chains, NEW i \in DOMAIN channels[e],
                      channels[e][i].channel.state \in {"Open", "Closed"}
               PROVE  ChannelPair(e, i, channels[e][i].channel, channels[e][i].port)'
    BY DEF ChannelsPaired
  <2>1. ChannelPair(e, i, channels[e][i].channel, channels[e][i].port)
    BY DEF HandshakeInv, ChannelsPaired
  <2> QED BY <2>1, <1>4 DEF ChannelPair
<1> QED BY <1>1, <1>2, <1>3, <1>5, <1>6, <1>7 DEF HandshakeInv

\* Channels may be added that answer an end, and opened or closed if they are
\* paired.
LEMMA ChannelStep ==
    ASSUME HandshakeInv, TypeOK',
           UNCHANGED <<connections, provableConnections, provableChannels>>,
           \A e \in Chains : \A i \in DOMAIN channels[e] :
              /\ i \in DOMAIN channels'[e]
              /\ channels'[e][i].port = channels[e][i].port
              /\ ChannelLater(channels[e][i].channel, channels'[e][i].channel),
           \A e \in Chains : \A i \in DOMAIN channels'[e] :
              \/ i \in DOMAIN channels[e] /\ channels'[e][i] = channels[e][i]
              \/ /\ ConnectionOpen(e, channels'[e][i].channel.connection)
                 /\ Forcers = {} =>
                      /\ channels'[e][i].channel.state = "TryOpen" =>
                            Answers(e, channels'[e][i].channel, channels'[e][i].port)
                      /\ channels'[e][i].channel.state \in {"Open", "Closed"} =>
                            ChannelPair(e, i, channels'[e][i].channel,
                                        channels'[e][i].port)
    PROVE  HandshakeInv'
<1>1. ChannelFactsPast'
  <2> SUFFICES ASSUME NEW e \in Chains, NEW f \in provableChannels[e]
               PROVE  /\ f[1] \in DOMAIN channels'[e]
                      /\ ChannelLater(f[2], channels'[e][f[1]].channel)
    BY DEF ChannelFactsPast
  <2>1. /\ f[1] \in DOMAIN channels[e]
        /\ ChannelLater(f[2], channels[e][f[1]].channel)
    BY DEF HandshakeInv, ChannelFactsPast
  <2>2. /\ f[1] \in DOMAIN channels'[e]
        /\ ChannelLater(channels[e][f[1]].channel, channels'[e][f[1]].channel)
    BY <2>1
  <2> QED BY <2>1, <2>2 DEF ChannelLater
<1>2. ConnectionFactsPast' /\ ConnectionsPaired'
  BY DEF HandshakeInv, ConnectionFactsPast, ConnectionsPaired, ConnectionPair
<1>3. ChannelsConnected'
  BY DEF HandshakeInv, ChannelsConnected, ConnectionOpen
<1>4. TriesAnswer'
  <2> SUFFICES ASSUME Forcers = {}, NEW e \in Chains, NEW i \in DOMAIN channels'[e],
                      channels'[e][i].channel.state = "TryOpen"
               PROVE  Answers(e, channels[e][i].channel, channels[e][i].port)'
    BY DEF TriesAnswer
  <2>1. Answers(e, channels'[e][i].channel, channels'[e][i].port)
    BY DEF HandshakeInv, TriesAnswer
  <2>2. Other(e) \in Chains
    BY OtherChain
  <2>3. LET n == channels'[e][i].channel.cp IN
           /\ n \in DOMAIN channels'[Other(e)]
           /\ ChannelLater(channels[Other(e)][n].channel, channels'[Other(e)][n].channel)
    BY <2>1, <2>2 DEF Answers
  <2> QED BY <2>1, <2>3 DEF Answers, ChannelLater
<1>5. ChannelsPaired'
  <2> SUFFICES ASSUME Forcers = {}, NEW e \in Chains, NEW i \in DOMAIN channels'[e],
                      channels'[e][i].channel.state \in {"Open", "Closed"}
               PROVE  ChannelPair(e, i, channels[e][i].channel, channels[e][i].port)'
    BY DEF ChannelsPaired
  <2>1. ChannelPair(e, i, channels'[e][i].channel, channels'[e][i].port)
    BY DEF HandshakeInv, ChannelsPaired
  <2>2. Other(e) \in Chains
    BY OtherChain
  <2>3. LET n == channels'[e][i].channel.cp IN
           /\ n \in DOMAIN channels'[Other(e)]
           /\ channels'[Other(e)][n].port = channels[Other(e)][n].port
           /\ ChannelLater(channels[Other(e)][n].channel, channels'[Other(e)][n].channel)
    BY <2>1, <2>2 DEF ChannelPair
  <2> QED BY <2>1, <2>3 DEF ChannelPair, ChannelLater
<1> QED BY <1>1, <1>2, <1>3, <1>4, <1>5 DEF HandshakeInv

-----------------------------------------------------------------------------
(* The store's write operations.                                           *)

\* A connection that is not open may be added.
LEMMA AddConnectionStep ==
    ASSUME HandshakeInv, NEW c \in Chains, NEW k \in Connection,
           k.state # "Open", AddConnection(c, k)
    PROVE  HandshakeInv'
<1>1. connections[c] \in Seq(Connection) /\ TypeOK
  BY DEF HandshakeInv, TypeOK
<1>2. /\ connections'[c] = Append(connections[c], k)
      /\ \A e \in Chains : e # c => connections'[e] = connections[e]
      /\ UNCHANGED <<channels, provableConnections, provableChannels>>
  BY <1>1 DEF AddConnection, TypeOK
<1>3. /\ connections'[c] \in Seq(Connection)
      /\ DOMAIN connections[c] \subseteq DOMAIN connections'[c]
      /\ \A i \in DOMAIN connections[c] : connections'[c][i] = connections[c][i]
      /\ \A i \in DOMAIN connections'[c] :
            i \in DOMAIN connections[c] \/ connections'[c][i] = k
  BY <1>1, <1>2, AppendEffect
<1>4. TypeOK'
  <2>1. connections' \in [Chains -> Seq(Connection)]
    BY <1>1, <1>2, <1>3 DEF AddConnection, TypeOK
  <2> QED BY <1>1, <1>2, <2>1 DEF TypeOK
<1>5. \A e \in Chains : \A i \in DOMAIN connections[e] :
         /\ i \in DOMAIN connections'[e]
         /\ connections'[e][i] = connections[e][i]
  BY <1>2, <1>3
<1>6. \A e \in Chains : \A i \in DOMAIN connections[e] :
         ConnectionLater(connections[e][i], connections'[e][i])
  <2> SUFFICES ASSUME NEW e \in Chains, NEW i \in DOMAIN connections[e]
               PROVE  ConnectionLater(connections[e][i], connections[e][i])
    BY <1>5
  <2> QED BY DEF ConnectionLater
<1>7. \A e \in Chains : \A i \in DOMAIN connections'[e] :
         \/ i \in DOMAIN connections[e] /\ connections'[e][i] = connections[e][i]
         \/ connections'[e][i].state # "Open"
  BY <1>2, <1>3
<1> QED BY <1>2, <1>4, <1>5, <1>6, <1>7, ConnectionStep

\* A connection may be opened when the end it will name is paired with it.
LEMMA SaveConnectionStep ==
    ASSUME HandshakeInv, NEW c \in Chains, NEW id \in DOMAIN connections[c],
           NEW k \in Connection, SaveConnection(c, id, k),
           connections[c][id].state # "Open",
           ConnectionLater(connections[c][id], k),
           Forcers = {} => ConnectionPair(c, id, k)
    PROVE  HandshakeInv'
<1>1. connections[c] \in Seq(Connection) /\ TypeOK
  BY DEF HandshakeInv, TypeOK
<1>2. /\ connections'[c] = [connections[c] EXCEPT ![id] = k]
      /\ \A e \in Chains : e # c => connections'[e] = connections[e]
      /\ UNCHANGED <<channels, provableConnections, provableChannels>>
  BY <1>1 DEF SaveConnection, TypeOK
<1>3. /\ connections'[c] \in Seq(Connection)
      /\ DOMAIN connections'[c] = DOMAIN connections[c]
      /\ connections'[c][id] = k
      /\ \A i \in DOMAIN connections[c] :
            i # id => connections'[c][i] = connections[c][i]
  BY <1>1, <1>2, ExceptEffect
<1>4. TypeOK'
  <2>1. connections' \in [Chains -> Seq(Connection)]
    BY <1>1, <1>2, <1>3 DEF SaveConnection, TypeOK
  <2> QED BY <1>1, <1>2, <2>1 DEF TypeOK
<1>5. \A e \in Chains : \A i \in DOMAIN connections'[e] :
         /\ i \in DOMAIN connections[e]
         /\ \/ connections'[e][i] = connections[e][i]
            \/ e = c /\ i = id /\ connections'[e][i] = k
  BY <1>2, <1>3
<1>6. \A e \in Chains : DOMAIN connections'[e] = DOMAIN connections[e]
  BY <1>2, <1>3
<1>7. \A e \in Chains : \A i \in DOMAIN connections[e] :
         /\ i \in DOMAIN connections'[e]
         /\ ConnectionLater(connections[e][i], connections'[e][i])
         /\ connections[e][i].state = "Open" =>
               connections'[e][i] = connections[e][i]
  <2> SUFFICES ASSUME NEW e \in Chains, NEW i \in DOMAIN connections[e]
               PROVE  /\ ConnectionLater(connections[e][i], connections'[e][i])
                      /\ connections[e][i].state = "Open" =>
                            connections'[e][i] = connections[e][i]
    BY <1>6
  <2>1. CASE connections'[e][i] = connections[e][i]
    BY <2>1 DEF ConnectionLater
  <2>2. CASE e = c /\ i = id /\ connections'[e][i] = k
    BY <2>2
  <2> QED BY <2>1, <2>2, <1>5, <1>6
<1>8. Forcers = {} =>
         \A e \in Chains : \A i \in DOMAIN connections'[e] :
            \/ i \in DOMAIN connections[e] /\ connections'[e][i] = connections[e][i]
            \/ ConnectionPair(e, i, connections'[e][i])
  BY <1>5
<1> QED BY <1>2, <1>4, <1>7, <1>8, ConnectionStep

\* A channel may be added on an open connection, if it answers an end when it
\* is a tried one.
LEMMA CreateChannelStep ==
    ASSUME HandshakeInv, NEW c \in Chains, NEW k \in Channel, NEW port \in Ports,
           CreateChannel(c, k, port), k.state \in {"Init", "TryOpen"},
           ConnectionOpen(c, k.connection),
           Forcers = {} => (k.state = "TryOpen" => Answers(c, k, port))
    PROVE  HandshakeInv'
<1> DEFINE entry == [channel |-> k, port |-> port]
<1>1. channels[c] \in Seq(ChannelEntry) /\ TypeOK /\ entry \in ChannelEntry
      /\ entry.channel = k /\ entry.port = port
  BY DEF HandshakeInv, TypeOK, ChannelEntry
<1>2. /\ channels'[c] = Append(channels[c], entry)
      /\ \A e \in Chains : e # c => channels'[e] = channels[e]
      /\ UNCHANGED <<connections, provableConnections, provableChannels>>
  BY <1>1 DEF CreateChannel, TypeOK
<1> HIDE DEF entry
<1>3. /\ channels'[c] \in Seq(ChannelEntry)
      /\ DOMAIN channels[c] \subseteq DOMAIN channels'[c]
      /\ \A i \in DOMAIN channels[c] : channels'[c][i] = channels[c][i]
      /\ \A i \in DOMAIN channels'[c] :
            i \in DOMAIN channels[c] \/ channels'[c][i] = entry
  BY <1>1, <1>2, AppendEffect
<1>4. TypeOK'
  <2>1. channels' \in [Chains -> Seq(ChannelEntry)]
    BY <1>1, <1>2, <1>3 DEF CreateChannel, TypeOK
  <2> QED BY <1>1, <1>2, <2>1 DEF TypeOK
<1>5. \A e \in Chains : \A i \in DOMAIN channels[e] :
         /\ i \in DOMAIN channels'[e]
         /\ channels'[e][i] = channels[e][i]
  BY <1>2, <1>3
<1>6. \A e \in Chains : \A i \in DOMAIN channels[e] :
         ChannelLater(channels[e][i].channel, channels'[e][i].channel)
  <2> SUFFICES ASSUME NEW e \in Chains, NEW i \in DOMAIN channels[e]
               PROVE  ChannelLater(channels[e][i].channel, channels[e][i].channel)
    BY <1>5
  <2> QED BY DEF ChannelLater
<1>7. \A e \in Chains : \A i \in DOMAIN channels'[e] :
         \/ i \in DOMAIN channels[e] /\ channels'[e][i] = channels[e][i]
         \/ e = c /\ channels'[e][i].channel = k /\ channels'[e][i].port = port
  BY <1>1, <1>2, <1>3
<1> QED BY <1>2, <1>4, <1>5, <1>6, <1>7, ChannelStep

\* A channel may move on when the end it will name is paired with it.
LEMMA SaveChannelStep ==
    ASSUME HandshakeInv, NEW c \in Chains, NEW id \in DOMAIN channels[c],
           NEW k \in Channel, SaveChannel(c, id, k),
           k.state \in {"Open", "Closed"},
           ChannelLater(channels[c][id].channel, k),
           Forcers = {} => ChannelPair(c, id, k, channels[c][id].port)
    PROVE  HandshakeInv'
<1> DEFINE port == channels[c][id].port
           entry == [channel |-> k, port |-> port]
<1>1. channels[c] \in Seq(ChannelEntry) /\ TypeOK
  BY DEF HandshakeInv, TypeOK
<1>2. port \in Ports
  BY <1>1, Entries
<1>3. entry \in ChannelEntry /\ entry.channel = k /\ entry.port = port
  BY <1>2 DEF ChannelEntry
<1>4. /\ channels'[c] = [channels[c] EXCEPT ![id] = entry]
      /\ \A e \in Chains : e # c => channels'[e] = channels[e]
      /\ UNCHANGED <<connections, provableConnections, provableChannels>>
  BY <1>1 DEF SaveChannel, TypeOK
<1> HIDE DEF entry, port
<1>5. /\ channels'[c] \in Seq(ChannelEntry)
      /\ DOMAIN channels'[c] = DOMAIN channels[c]
      /\ channels'[c][id] = entry
      /\ \A i \in DOMAIN channels[c] : i # id => channels'[c][i] = channels[c][i]
  BY <1>1, <1>3, <1>4, ExceptEffect
<1>6. TypeOK'
  <2>1. channels' \in [Chains -> Seq(ChannelEntry)]
    BY <1>1, <1>4, <1>5 DEF SaveChannel, TypeOK
  <2> QED BY <1>1, <1>4, <2>1 DEF TypeOK
<1>7. \A e \in Chains : DOMAIN channels'[e] = DOMAIN channels[e]
  BY <1>4, <1>5
<1>8. \A e \in Chains : \A i \in DOMAIN channels[e] :
         \/ channels'[e][i] = channels[e][i]
         \/ e = c /\ i = id /\ channels'[e][i].channel = k
              /\ channels'[e][i].port = channels[e][i].port
  BY <1>3, <1>4, <1>5 DEF port
<1>9. \A e \in Chains : \A i \in DOMAIN channels[e] :
         /\ channels'[e][i].port = channels[e][i].port
         /\ ChannelLater(channels[e][i].channel, channels'[e][i].channel)
  <2> SUFFICES ASSUME NEW e \in Chains, NEW i \in DOMAIN channels[e]
               PROVE  /\ channels'[e][i].port = channels[e][i].port
                      /\ ChannelLater(channels[e][i].channel, channels'[e][i].channel)
    OBVIOUS
  <2>1. CASE channels'[e][i] = channels[e][i]
    BY <2>1 DEF ChannelLater
  <2>2. CASE e = c /\ i = id /\ channels'[e][i].channel = k
              /\ channels'[e][i].port = channels[e][i].port
    BY <2>2
  <2> QED BY <2>1, <2>2, <1>8
<1>10. ConnectionOpen(c, k.connection)
  BY DEF HandshakeInv, ChannelsConnected, ChannelLater
<1>11. \A e \in Chains : \A i \in DOMAIN channels'[e] :
          \/ i \in DOMAIN channels[e] /\ channels'[e][i] = channels[e][i]
          \/ /\ ConnectionOpen(e, channels'[e][i].channel.connection)
             /\ channels'[e][i].channel.state # "TryOpen"
             /\ Forcers = {} =>
                   ChannelPair(e, i, channels'[e][i].channel, channels'[e][i].port)
  BY <1>7, <1>8, <1>10
<1> QED BY <1>4, <1>6, <1>7, <1>9, <1>11, ChannelStep

-----------------------------------------------------------------------------
(* The handlers.                                                           *)

\* What a proof says of the other chain's connections now.
LEMMA ProofOfConnection ==
    ASSUME HandshakeInv, NEW c \in Chains, NEW client, NEW id, NEW value,
           Proves(c, client, provableConnections, id, value)
    PROVE  /\ id \in DOMAIN connections[Other(c)]
           /\ ConnectionLater(value, connections[Other(c)][id])
           /\ connections[Other(c)][id] \in Connection
<1>1. Other(c) \in Chains /\ <<id, value>> \in provableConnections[Other(c)]
  BY OtherChain DEF Proves
<1>2. /\ <<id, value>>[1] \in DOMAIN connections[Other(c)]
      /\ ConnectionLater(<<id, value>>[2], connections[Other(c)][<<id, value>>[1]])
  BY <1>1 DEF HandshakeInv, ConnectionFactsPast
<1> QED BY <1>1, <1>2, Entries DEF HandshakeInv

\* What a proof says of the other chain's channels now.
LEMMA ProofOfChannel ==
    ASSUME HandshakeInv, NEW c \in Chains, NEW client, NEW id, NEW value,
           Proves(c, client, provableChannels, id, value)
    PROVE  /\ id \in DOMAIN channels[Other(c)]
           /\ ChannelLater(value, channels[Other(c)][id].channel)
           /\ channels[Other(c)][id].channel \in Channel
<1>1. Other(c) \in Chains /\ <<id, value>> \in provableChannels[Other(c)]
  BY OtherChain DEF Proves
<1>2. /\ <<id, value>>[1] \in DOMAIN channels[Other(c)]
      /\ ChannelLater(<<id, value>>[2], channels[Other(c)][<<id, value>>[1]].channel)
  BY <1>1 DEF HandshakeInv, ChannelFactsPast
<1> QED BY <1>1, <1>2, Entries DEF HandshakeInv

\* connectionOpenAck names an end that is trying this one.
LEMMA ConnectionOpenAckStep ==
    ASSUME HandshakeInv, NEW c \in Chains, NEW id \in DOMAIN connections[c],
           NEW cp \in Nat, NEW verify \in BOOLEAN, verify \/ c \in Forcers,
           ConnectionOpenAck(c, id, cp, verify)
    PROVE  HandshakeInv'
<1> DEFINE old == connections[c][id]
           new == NewConnection("Open", old.client, old.cpClient, cp)
           fact == NewConnection("TryOpen", old.cpClient, old.client, id)
<1>1. old \in Connection /\ id \in Nat /\ old.state = "Init" /\ SaveConnection(c, id, new)
  BY Entries DEF HandshakeInv, ConnectionOpenAck
<1>2. old.client \in ClientIds /\ old.cpClient \in ClientIds
  BY <1>1 DEF Connection
<1>3. /\ new \in Connection /\ new.state = "Open" /\ new.cp = cp
      /\ new.client = old.client /\ new.cpClient = old.cpClient
  BY <1>2, NewConnectionType
<1>4. /\ fact.state = "TryOpen" /\ fact.cp = id
      /\ fact.client = old.cpClient /\ fact.cpClient = old.client
  BY <1>1, <1>2, NewConnectionType
<1>5. Forcers = {} => Proves(c, old.client, provableConnections, cp, fact)
  BY DEF ConnectionOpenAck
<1> HIDE DEF new, fact
<1>6. ConnectionLater(old, new)
  BY <1>1, <1>3 DEF ConnectionLater
<1>7. ASSUME Forcers = {} PROVE ConnectionPair(c, id, new)
  <2>1. /\ cp \in DOMAIN connections[Other(c)]
        /\ ConnectionLater(fact, connections[Other(c)][cp])
    BY <1>5, <1>7, ProofOfConnection
  <2> QED BY <2>1, <1>3, <1>4 DEF ConnectionPair, ConnectionLater
<1> QED BY <1>1, <1>3, <1>6, <1>7, SaveConnectionStep

\* connectionOpenConfirm: the end it names was opened with it.
LEMMA ConnectionOpenConfirmStep ==
    ASSUME HandshakeInv, NEW c \in Chains, NEW id \in DOMAIN connections[c],
           NEW verify \in BOOLEAN, verify \/ c \in Forcers,
           ConnectionOpenConfirm(c, id, verify)
    PROVE  HandshakeInv'
<1> DEFINE old == connections[c][id]
           new == NewConnection("Open", old.client, old.cpClient, old.cp)
           fact == NewConnection("Open", old.cpClient, old.client, id)
<1>1. old \in Connection /\ id \in Nat /\ old.state = "TryOpen" /\ SaveConnection(c, id, new)
  BY Entries DEF HandshakeInv, ConnectionOpenConfirm
<1>2. old.client \in ClientIds /\ old.cpClient \in ClientIds /\ old.cp \in Nat
  BY <1>1 DEF Connection
<1>3. /\ new \in Connection /\ new.state = "Open" /\ new.cp = old.cp
      /\ new.client = old.client /\ new.cpClient = old.cpClient
  BY <1>2, NewConnectionType
<1>4. /\ fact.state = "Open" /\ fact.cp = id
      /\ fact.client = old.cpClient /\ fact.cpClient = old.client
  BY <1>1, <1>2, NewConnectionType
<1>5. Forcers = {} => Proves(c, old.client, provableConnections, old.cp, fact)
  BY DEF ConnectionOpenConfirm
<1> HIDE DEF new, fact
<1>6. ConnectionLater(old, new)
  BY <1>1, <1>3 DEF ConnectionLater
<1>7. ASSUME Forcers = {} PROVE ConnectionPair(c, id, new)
  <2>1. /\ old.cp \in DOMAIN connections[Other(c)]
        /\ ConnectionLater(fact, connections[Other(c)][old.cp])
    BY <1>5, <1>7, ProofOfConnection
  <2> QED BY <2>1, <1>3, <1>4 DEF ConnectionPair, ConnectionLater
<1> QED BY <1>1, <1>3, <1>6, <1>7, SaveConnectionStep

\* channelOpenTry answers an end that asked for its port.
LEMMA ChannelOpenTryStep ==
    ASSUME HandshakeInv, NEW c \in Chains, NEW port \in Ports, NEW k \in Channel,
           NEW cpVersion \in Versions, NEW verify \in BOOLEAN, verify \/ c \in Forcers,
           ChannelOpenTry(c, port, k, cpVersion, verify)
    PROVE  HandshakeInv'
<1> DEFINE cpc == connections[c][k.connection].cp
           fact == NewChannel("Init", cpc, 0, port, cpVersion)
<1>1. /\ ConnectionOpen(c, k.connection) /\ k.state = "TryOpen"
      /\ CreateChannel(c, k, port)
  BY DEF ChannelOpenTry
<1>2. cpc \in Nat
  <2>1. connections[c][k.connection] \in Connection
    BY <1>1, Entries DEF HandshakeInv, ConnectionOpen
  <2> QED BY <2>1 DEF Connection
<1>3. fact.connection = cpc /\ fact.cpPort = port
  BY <1>2, NewChannelType
<1>4. Forcers = {} => Proves(c, connections[c][k.connection].client,
                             provableChannels, k.cp, fact)
  BY DEF ChannelOpenTry, ProvesChannel
<1> HIDE DEF fact
<1>5. ASSUME Forcers = {} PROVE Answers(c, k, port)
  <2>1. /\ k.cp \in DOMAIN channels[Other(c)]
        /\ ChannelLater(fact, channels[Other(c)][k.cp].channel)
    BY <1>4, <1>5, ProofOfChannel
  <2> QED BY <2>1, <1>3 DEF Answers, ChannelLater
<1> QED BY <1>1, <1>5, CreateChannelStep

\* channelOpenAck names an end that answers this one: no open end can name an
\* end that is in Init, so the other one is still a tried one.
LEMMA ChannelOpenAckStep ==
    ASSUME HandshakeInv, NEW c \in Chains, NEW id \in DOMAIN channels[c],
           NEW cp \in Nat, NEW cpVersion \in Versions, NEW verify \in BOOLEAN,
           verify \/ c \in Forcers, ChannelOpenAck(c, id, cp, cpVersion, verify)
    PROVE  HandshakeInv'
<1> DEFINE old == channels[c][id].channel
           port == channels[c][id].port
           new == NewChannel("Open", old.connection, cp, old.cpPort, cpVersion)
           cpc == connections[c][old.connection].cp
           fact == NewChannel("TryOpen", cpc, id, port, cpVersion)
<1>1. /\ old \in Channel /\ id \in Nat /\ port \in Ports /\ old.state = "Init"
      /\ SaveChannel(c, id, new) /\ ConnectionOpen(c, old.connection)
  BY Entries DEF HandshakeInv, ChannelOpenAck
<1>2. old.connection \in Nat /\ old.cpPort \in Ports
  BY <1>1 DEF Channel
<1>3. /\ new \in Channel /\ new.state = "Open" /\ new.cp = cp
      /\ new.connection = old.connection /\ new.cpPort = old.cpPort
      /\ new.version = cpVersion
  BY <1>2, NewChannelType
<1>4. /\ fact.state = "TryOpen" /\ fact.connection = cpc /\ fact.cp = id
      /\ fact.cpPort = port /\ fact.version = cpVersion
  BY DEF NewChannel
<1>5. Forcers = {} => Proves(c, connections[c][old.connection].client,
                             provableChannels, cp, fact)
  BY DEF ChannelOpenAck, ProvesChannel
<1> HIDE DEF new, fact
<1>6. ChannelLater(old, new)
  BY <1>1, <1>3 DEF ChannelLater
<1>7. ASSUME Forcers = {} PROVE ChannelPair(c, id, new, port)
  <2> DEFINE other == channels[Other(c)][cp].channel
  <2>1. /\ cp \in DOMAIN channels[Other(c)]
        /\ ChannelLater(fact, other)
        /\ other \in Channel
    BY <1>5, <1>7, ProofOfChannel
  <2>2. /\ other.state # "Init" /\ other.cp = id /\ other.version = cpVersion
        /\ other.connection = cpc /\ other.cpPort = port
    BY <2>1, <1>4 DEF ChannelLater
  <2>3. other.state = "TryOpen"
    <3>1. other.state \in {"TryOpen", "Open", "Closed"}
      BY <2>1, <2>2 DEF Channel
    <3>2. ASSUME other.state \in {"Open", "Closed"} PROVE FALSE
      <4>1. ChannelPair(Other(c), cp, other, channels[Other(c)][cp].port)
        BY <1>7, <2>1, <3>2, OtherChain DEF HandshakeInv, ChannelsPaired
      <4>2. channels[c][id].channel.state # "Init"
        BY <4>1, <2>2, OtherChain DEF ChannelPair
      <4> QED BY <4>2, <1>1
    <3> QED BY <3>1, <3>2
  <2>4. Answers(Other(c), other, channels[Other(c)][cp].port)
    BY <1>7, <2>1, <2>3, OtherChain DEF HandshakeInv, TriesAnswer
  <2>5. old.cpPort = channels[Other(c)][cp].port
    BY <2>2, <2>4, OtherChain DEF Answers
  <2> QED BY <2>1, <2>2, <2>5, <1>3 DEF ChannelPair
<1> QED BY <1>1, <1>3, <1>6, <1>7, SaveChannelStep

\* channelOpenConfirm: the end it names was opened with it.
LEMMA ChannelOpenConfirmStep ==
    ASSUME HandshakeInv, NEW c \in Chains, NEW id \in DOMAIN channels[c],
           NEW verify \in BOOLEAN, verify \/ c \in Forcers,
           ChannelOpenConfirm(c, id, verify)
    PROVE  HandshakeInv'
<1> DEFINE old == channels[c][id].channel
           port == channels[c][id].port
           new == Moved(old, "Open")
           cpc == connections[c][old.connection].cp
           fact == NewChannel("Open", cpc, id, port, old.version)
<1>1. /\ old \in Channel /\ id \in Nat /\ port \in Ports /\ old.state = "TryOpen"
      /\ SaveChannel(c, id, new) /\ ConnectionOpen(c, old.connection)
  BY Entries DEF HandshakeInv, ChannelOpenConfirm
<1>2. /\ old.connection \in Nat /\ old.cpPort \in Ports /\ old.cp \in Nat
      /\ old.version \in Versions
  BY <1>1 DEF Channel
<1>3. /\ new \in Channel /\ new.state = "Open" /\ new.cp = old.cp
      /\ new.connection = old.connection /\ new.cpPort = old.cpPort
      /\ new.version = old.version
  BY <1>2, NewChannelType DEF Moved
<1>4. /\ fact.state = "Open" /\ fact.connection = cpc /\ fact.cp = id
      /\ fact.cpPort = port /\ fact.version = old.version
  BY DEF NewChannel
<1>5. Forcers = {} => Proves(c, connections[c][old.connection].client,
                             provableChannels, old.cp, fact)
  BY DEF ChannelOpenConfirm, ProvesChannel
<1> HIDE DEF new, fact
<1>6. ChannelLater(old, new)
  BY <1>1, <1>3 DEF ChannelLater
<1>7. ASSUME Forcers = {} PROVE ChannelPair(c, id, new, port)
  <2> DEFINE other == channels[Other(c)][old.cp].channel
  <2>1. /\ old.cp \in DOMAIN channels[Other(c)]
        /\ ChannelLater(fact, other)
    BY <1>5, <1>7, ProofOfChannel
  <2>2. /\ other.state \in {"Open", "Closed"} /\ other.cp = id
        /\ other.version = old.version /\ other.connection = cpc
        /\ other.cpPort = port
    BY <2>1, <1>4 DEF ChannelLater
  <2>3. ChannelPair(Other(c), old.cp, other, channels[Other(c)][old.cp].port)
    BY <1>7, <2>1, <2>2, OtherChain DEF HandshakeInv, ChannelsPaired
  <2>4. old.cpPort = channels[Other(c)][old.cp].port
    BY <2>2, <2>3, OtherChain DEF ChannelPair
  <2> QED BY <2>1, <2>2, <2>4, <1>3 DEF ChannelPair
<1> QED BY <1>1, <1>3, <1>6, <1>7, SaveChannelStep

\* Closing keeps what an end says of its pair.
LEMMA ChannelCloseStep ==
    ASSUME HandshakeInv, NEW c \in Chains, NEW id \in DOMAIN channels[c],
           channels[c][id].channel.state = "Open",
           SaveChannel(c, id, Moved(channels[c][id].channel, "Closed"))
    PROVE  HandshakeInv'
<1> DEFINE old == channels[c][id].channel
           new == Moved(old, "Closed")
<1>1. old \in Channel
  BY Entries DEF HandshakeInv
<1>2. /\ old.connection \in Nat /\ old.cpPort \in Ports /\ old.cp \in Nat
      /\ old.version \in Versions
  BY <1>1 DEF Channel
<1>3. /\ new \in Channel /\ new.state = "Closed" /\ new.cp = old.cp
      /\ new.connection = old.connection /\ new.cpPort = old.cpPort
      /\ new.version = old.version
  BY <1>2, NewChannelType DEF Moved
<1> HIDE DEF new
<1>4. ChannelLater(old, new)
  BY <1>3 DEF ChannelLater
<1>5. Forcers = {} => ChannelPair(c, id, new, channels[c][id].port)
  <2>1. Forcers = {} => ChannelPair(c, id, old, channels[c][id].port)
    BY DEF HandshakeInv, ChannelsPaired
  <2> QED BY <2>1, <1>3 DEF ChannelPair
<1> QED BY <1>3, <1>4, <1>5, SaveChannelStep DEF new

-----------------------------------------------------------------------------

\* Initially there is nothing.
LEMMA HandshakeInit == Init => HandshakeInv
<1> SUFFICES ASSUME Init PROVE HandshakeInv
  OBVIOUS
<1>1. TypeOK
  BY DEF Init, TypeOK
<1>2. /\ \A c \in Chains : DOMAIN connections[c] = {} /\ DOMAIN channels[c] = {}
      /\ \A c \in Chains : provableConnections[c] = {} /\ provableChannels[c] = {}
  BY DEF Init
<1> QED BY <1>1, <1>2 DEF HandshakeInv, ConnectionFactsPast, ChannelFactsPast,
           ConnectionsPaired, ChannelsConnected, TriesAnswer, ChannelsPaired

\* Every step preserves the invariant.
LEMMA HandshakeStep == HandshakeInv /\ [Next]_vars => HandshakeInv'
<1> SUFFICES ASSUME HandshakeInv, [Next]_vars PROVE HandshakeInv'
  OBVIOUS
<1>1. CASE UNCHANGED vars
  <2>1. UNCHANGED <<connections, channels, provableConnections, provableChannels>>
    BY <1>1 DEF vars
  <2>2. TypeOK'
    BY <2>1 DEF HandshakeInv, TypeOK
  <2>3. \A e \in Chains : \A i \in DOMAIN connections[e] :
           ConnectionLater(connections[e][i], connections[e][i])
    BY DEF ConnectionLater
  <2> QED BY <2>1, <2>2, <2>3, ConnectionStep
<1>2. ASSUME NEW c \in Chains, ChainNext(c) PROVE HandshakeInv'
  <2>1. CASE NewBlock(c)
    BY <2>1, NewBlockStep
  <2>2. ASSUME NEW client \in ClientIds, NEW cpClient \in ClientIds,
               ConnectionOpenInit(c, client, cpClient)
        PROVE  HandshakeInv'
    BY <2>2, NewConnectionType, AddConnectionStep DEF ConnectionOpenInit
  <2>3. ASSUME NEW port \in Ports, NEW cpPort \in Ports,
               NEW k \in DOMAIN connections[c], NEW version \in Versions,
               ChannelOpenInit(c, port, cpPort, k, version)
        PROVE  HandshakeInv'
    <3> DEFINE new == NewChannel("Init", k, 0, cpPort, version)
    <3>1. k \in Nat
      BY Entries DEF HandshakeInv
    <3>2. new \in Channel /\ new.state = "Init" /\ new.connection = k
      BY <3>1, NewChannelType
    <3>3. CreateChannel(c, new, port) /\ ConnectionOpen(c, k)
      BY <2>3 DEF ChannelOpenInit
    <3> HIDE DEF new
    <3> QED BY <3>2, <3>3, CreateChannelStep
  <2>4. ASSUME NEW verify \in BOOLEAN, verify \/ c \in Forcers,
               ConnectionNext(c, verify)
        PROVE  HandshakeInv'
    <3>1. ASSUME NEW client \in ClientIds, NEW cpClient \in ClientIds,
                 NEW cp \in 0..MaxConnections,
                 ConnectionOpenTry(c, client, cpClient, cp, verify)
          PROVE  HandshakeInv'
      <4>1. cp \in Nat
        BY BoundsAssumption
      <4> QED BY <3>1, <4>1, NewConnectionType, AddConnectionStep
              DEF ConnectionOpenTry
    <3>2. ASSUME NEW id \in DOMAIN connections[c], NEW cp \in 0..MaxConnections,
                 ConnectionOpenAck(c, id, cp, verify)
          PROVE  HandshakeInv'
      <4>1. cp \in Nat
        BY BoundsAssumption
      <4> QED BY <2>4, <3>2, <4>1, ConnectionOpenAckStep
    <3>3. ASSUME NEW id \in DOMAIN connections[c], ConnectionOpenConfirm(c, id, verify)
          PROVE  HandshakeInv'
      BY <2>4, <3>3, ConnectionOpenConfirmStep
    <3> QED BY <2>4, <3>1, <3>2, <3>3 DEF ConnectionNext
  <2>5. ASSUME NEW verify \in BOOLEAN, verify \/ c \in Forcers,
               ChannelNext(c, verify)
        PROVE  HandshakeInv'
    <3>1. ASSUME NEW port \in Ports, NEW cpPort \in Ports, NEW version \in Versions,
                 NEW cpVersion \in Versions, NEW k \in DOMAIN connections[c],
                 NEW cp \in 0..MaxChannels[Other(c)],
                 ChannelOpenTry(c, port, NewChannel("TryOpen", k, cp, cpPort, version),
                                cpVersion, verify)
          PROVE  HandshakeInv'
      <4>1. cp \in Nat /\ k \in Nat
        BY BoundsAssumption, Entries DEF HandshakeInv
      <4>2. NewChannel("TryOpen", k, cp, cpPort, version) \in Channel
        BY <4>1, NewChannelType
      <4> QED BY <2>5, <3>1, <4>2, ChannelOpenTryStep
    <3>2. ASSUME NEW id \in DOMAIN channels[c], NEW cp \in 0..MaxChannels[Other(c)],
                 NEW version \in Versions, ChannelOpenAck(c, id, cp, version, verify)
          PROVE  HandshakeInv'
      <4>1. cp \in Nat
        BY BoundsAssumption
      <4> QED BY <2>5, <3>2, <4>1, ChannelOpenAckStep
    <3>3. ASSUME NEW id \in DOMAIN channels[c], ChannelOpenConfirm(c, id, verify)
          PROVE  HandshakeInv'
      BY <2>5, <3>3, ChannelOpenConfirmStep
    <3> QED BY <2>5, <3>1, <3>2, <3>3 DEF ChannelNext
  <2>6. ASSUME NEW id \in DOMAIN channels[c],
               ChannelCloseInit(c, id) \/ ChannelCloseConfirm(c, id)
        PROVE  HandshakeInv'
    BY <2>6, ChannelCloseStep DEF ChannelCloseInit, ChannelCloseConfirm
  <2> QED BY <1>2, <2>1, <2>2, <2>3, <2>4, <2>5, <2>6 DEF ChainNext
<1> QED BY <1>1, <1>2 DEF Next

\* What any block ever proved of an end binds what the end is now, channels
\* live on open connections, and tried and open ends are answered: the
\* inductive invariant of the two theorems below.
THEOREM HandshakeInvariant == Spec => []HandshakeInv
BY HandshakeInit, HandshakeStep, PTL DEF Spec

\* Every end and every proved fact is well formed.
THEOREM TypeCorrect == Spec => []TypeOK
<1>1. HandshakeInv => TypeOK
  BY DEF HandshakeInv
<1> QED BY <1>1, HandshakeInvariant, PTL

\* Open connection ends are paired on any number of connections, whatever the
\* relayers submit, as long as no administrator forces a step.
THEOREM ConnectionPairing == Spec => []ConnectionsPaired
<1>1. HandshakeInv => ConnectionsPaired
  BY DEF HandshakeInv
<1> QED BY <1>1, HandshakeInvariant, PTL

\* So are channel ends: CorePacket's PairingAssumption, for channels that
\* carry packets.
THEOREM ChannelPairing == Spec => []ChannelsPaired
<1>1. HandshakeInv => ChannelsPaired
  BY DEF HandshakeInv
<1> QED BY <1>1, HandshakeInvariant, PTL

-----------------------------------------------------------------------------
(* Ends only move forward, whatever an administrator forces.               *)

ConnectionsProgress ==
    \A c \in Chains : \A i \in DOMAIN connections[c] :
        LET old == connections[c][i]
            new == connections'[c][i]
        IN /\ old.state # "Init" => new.state # "Init" /\ new.cp = old.cp
           /\ old.state = "Open" => new = old

ChannelsProgress ==
    \A c \in Chains : \A i \in DOMAIN channels[c] :
        LET old == channels[c][i].channel
            new == channels'[c][i].channel
        IN /\ channels'[c][i].port = channels[c][i].port
           /\ old.state # "Init" => new \in {old, Moved(old, "Open"),
                                             Moved(old, "Closed")}
           /\ old.state = "Closed" => new = old

\* A new connection changes no end.
LEMMA AddConnectionProgress ==
    ASSUME TypeOK, NEW c \in Chains, NEW k \in Connection, AddConnection(c, k)
    PROVE  ConnectionsProgress /\ ChannelsProgress
<1>1. connections[c] \in Seq(Connection) /\ channels' = channels
  BY DEF TypeOK, AddConnection
<1>2. \A e \in Chains : \A i \in DOMAIN connections[e] :
         connections'[e][i] = connections[e][i]
  BY <1>1, AppendEffect DEF AddConnection, TypeOK
<1> QED BY <1>1, <1>2 DEF ConnectionsProgress, ChannelsProgress

\* Acknowledging and confirming open an end that was not open.
LEMMA SaveConnectionProgress ==
    ASSUME TypeOK, NEW c \in Chains, NEW id \in DOMAIN connections[c],
           NEW k \in Connection, SaveConnection(c, id, k), k.state = "Open",
           \/ connections[c][id].state = "Init"
           \/ connections[c][id].state = "TryOpen" /\ k.cp = connections[c][id].cp
    PROVE  ConnectionsProgress /\ ChannelsProgress
<1>1. connections[c] \in Seq(Connection) /\ channels' = channels
  BY DEF TypeOK, SaveConnection
<1>2. \A e \in Chains : \A i \in DOMAIN connections[e] :
         connections'[e][i] = IF e = c /\ i = id THEN k ELSE connections[e][i]
  BY <1>1, ExceptEffect DEF SaveConnection, TypeOK
<1> QED BY <1>1, <1>2 DEF ConnectionsProgress, ChannelsProgress

\* A new channel changes no end.
LEMMA CreateChannelProgress ==
    ASSUME TypeOK, NEW c \in Chains, NEW k \in Channel, NEW port \in Ports,
           CreateChannel(c, k, port)
    PROVE  ConnectionsProgress /\ ChannelsProgress
<1>1. /\ channels[c] \in Seq(ChannelEntry)
      /\ connections' = connections
      /\ [channel |-> k, port |-> port] \in ChannelEntry
  BY DEF TypeOK, CreateChannel, ChannelEntry
<1>2. \A e \in Chains : \A i \in DOMAIN channels[e] : channels'[e][i] = channels[e][i]
  BY <1>1, AppendEffect DEF CreateChannel, TypeOK
<1> QED BY <1>1, <1>2 DEF ConnectionsProgress, ChannelsProgress

\* A channel end is saved from Init, or moved on from TryOpen or Open.
LEMMA SaveChannelProgress ==
    ASSUME TypeOK, NEW c \in Chains, NEW id \in DOMAIN channels[c],
           NEW k \in Channel, SaveChannel(c, id, k),
           \/ channels[c][id].channel.state = "Init"
           \/ /\ channels[c][id].channel.state # "Closed"
              /\ \/ k = Moved(channels[c][id].channel, "Open")
                 \/ k = Moved(channels[c][id].channel, "Closed")
    PROVE  ConnectionsProgress /\ ChannelsProgress
<1> DEFINE entry == [channel |-> k, port |-> channels[c][id].port]
<1>1. /\ channels[c] \in Seq(ChannelEntry)
      /\ connections' = connections
      /\ channels' = [channels EXCEPT ![c][id] = entry]
      /\ entry \in ChannelEntry /\ entry.channel = k
      /\ entry.port = channels[c][id].port
  BY Entries DEF TypeOK, SaveChannel, ChannelEntry
<1> HIDE DEF entry
<1>2. \A e \in Chains : \A i \in DOMAIN channels[e] :
         channels'[e][i] = IF e = c /\ i = id THEN entry ELSE channels[e][i]
  BY <1>1, ExceptEffect DEF TypeOK
<1> QED BY <1>1, <1>2 DEF ConnectionsProgress, ChannelsProgress

\* Every step lets ends progress.
LEMMA ProgressStep ==
    ASSUME HandshakeInv, [Next]_vars
    PROVE  ConnectionsProgress /\ ChannelsProgress
<1>1. TypeOK
  BY DEF HandshakeInv
<1>2. CASE UNCHANGED <<connections, channels>>
  BY <1>2 DEF ConnectionsProgress, ChannelsProgress
<1>3. ASSUME NEW c \in Chains, ChainNext(c)
      PROVE  ConnectionsProgress /\ ChannelsProgress
  <2>1. CASE NewBlock(c)
    BY <1>2, <2>1 DEF NewBlock
  <2>2. ASSUME NEW client \in ClientIds, NEW cpClient \in ClientIds,
               ConnectionOpenInit(c, client, cpClient)
        PROVE  ConnectionsProgress /\ ChannelsProgress
    BY <1>1, <2>2, NewConnectionType, AddConnectionProgress DEF ConnectionOpenInit
  <2>3. ASSUME NEW port \in Ports, NEW cpPort \in Ports,
               NEW k \in DOMAIN connections[c], NEW version \in Versions,
               ChannelOpenInit(c, port, cpPort, k, version)
        PROVE  ConnectionsProgress /\ ChannelsProgress
    <3>1. NewChannel("Init", k, 0, cpPort, version) \in Channel
      BY <1>1, Entries, NewChannelType
    <3> QED BY <1>1, <2>3, <3>1, CreateChannelProgress DEF ChannelOpenInit
  <2>4. ASSUME NEW verify \in BOOLEAN, ConnectionNext(c, verify)
        PROVE  ConnectionsProgress /\ ChannelsProgress
    <3>1. ASSUME NEW client \in ClientIds, NEW cpClient \in ClientIds,
                 NEW cp \in 0..MaxConnections,
                 ConnectionOpenTry(c, client, cpClient, cp, verify)
          PROVE  ConnectionsProgress /\ ChannelsProgress
      <4>1. NewConnection("TryOpen", client, cpClient, cp) \in Connection
        BY BoundsAssumption, NewConnectionType
      <4> QED BY <1>1, <3>1, <4>1, AddConnectionProgress DEF ConnectionOpenTry
    <3>2. ASSUME NEW id \in DOMAIN connections[c], NEW cp \in 0..MaxConnections,
                 ConnectionOpenAck(c, id, cp, verify)
          PROVE  ConnectionsProgress /\ ChannelsProgress
      <4> DEFINE old == connections[c][id]
                 new == NewConnection("Open", old.client, old.cpClient, cp)
      <4>1. old \in Connection
        BY <1>1, Entries
      <4>2. old.client \in ClientIds /\ old.cpClient \in ClientIds /\ cp \in Nat
        BY <4>1, BoundsAssumption DEF Connection
      <4>3. new \in Connection /\ new.state = "Open"
        BY <4>2, NewConnectionType
      <4>4. old.state = "Init" /\ SaveConnection(c, id, new)
        BY <3>2 DEF ConnectionOpenAck
      <4> HIDE DEF new
      <4> QED BY <1>1, <4>3, <4>4, SaveConnectionProgress
    <3>3. ASSUME NEW id \in DOMAIN connections[c], ConnectionOpenConfirm(c, id, verify)
          PROVE  ConnectionsProgress /\ ChannelsProgress
      <4> DEFINE old == connections[c][id]
                 new == NewConnection("Open", old.client, old.cpClient, old.cp)
      <4>1. old \in Connection
        BY <1>1, Entries
      <4>2. old.client \in ClientIds /\ old.cpClient \in ClientIds /\ old.cp \in Nat
        BY <4>1 DEF Connection
      <4>3. new \in Connection /\ new.state = "Open" /\ new.cp = old.cp
        BY <4>2, NewConnectionType
      <4>4. old.state = "TryOpen" /\ SaveConnection(c, id, new)
        BY <3>3 DEF ConnectionOpenConfirm
      <4> HIDE DEF new
      <4> QED BY <1>1, <4>3, <4>4, SaveConnectionProgress
    <3> QED BY <2>4, <3>1, <3>2, <3>3 DEF ConnectionNext
  <2>5. ASSUME NEW id \in DOMAIN channels[c]
        PROVE  /\ \A s \in {"Init", "TryOpen", "Open", "Closed"} :
                     Moved(channels[c][id].channel, s) \in Channel
               /\ \A cp \in Nat, v \in Versions :
                     NewChannel("Open", channels[c][id].channel.connection, cp,
                                channels[c][id].channel.cpPort, v) \in Channel
    BY <1>1, Entries DEF Moved, NewChannel, Channel
  <2>6. ASSUME NEW verify \in BOOLEAN, ChannelNext(c, verify)
        PROVE  ConnectionsProgress /\ ChannelsProgress
    <3>1. ASSUME NEW port \in Ports, NEW cpPort \in Ports, NEW version \in Versions,
                 NEW cpVersion \in Versions, NEW k \in DOMAIN connections[c],
                 NEW cp \in 0..MaxChannels[Other(c)],
                 ChannelOpenTry(c, port, NewChannel("TryOpen", k, cp, cpPort, version),
                                cpVersion, verify)
          PROVE  ConnectionsProgress /\ ChannelsProgress
      <4>1. cp \in Nat /\ k \in Nat
        BY <1>1, BoundsAssumption, Entries
      <4>2. NewChannel("TryOpen", k, cp, cpPort, version) \in Channel
        BY <4>1, NewChannelType
      <4> QED BY <1>1, <3>1, <4>2, CreateChannelProgress DEF ChannelOpenTry
    <3>2. ASSUME NEW id \in DOMAIN channels[c], NEW cp \in 0..MaxChannels[Other(c)],
                 NEW version \in Versions, ChannelOpenAck(c, id, cp, version, verify)
          PROVE  ConnectionsProgress /\ ChannelsProgress
      <4>1. cp \in Nat
        BY BoundsAssumption
      <4> QED BY <1>1, <2>5, <3>2, <4>1, SaveChannelProgress DEF ChannelOpenAck
    <3>3. ASSUME NEW id \in DOMAIN channels[c], ChannelOpenConfirm(c, id, verify)
          PROVE  ConnectionsProgress /\ ChannelsProgress
      BY <1>1, <2>5, <3>3, SaveChannelProgress DEF ChannelOpenConfirm
    <3> QED BY <2>6, <3>1, <3>2, <3>3 DEF ChannelNext
  <2>7. ASSUME NEW id \in DOMAIN channels[c],
               ChannelCloseInit(c, id) \/ ChannelCloseConfirm(c, id)
        PROVE  ConnectionsProgress /\ ChannelsProgress
    BY <1>1, <2>5, <2>7, SaveChannelProgress DEF ChannelCloseInit, ChannelCloseConfirm
  <2> QED BY <1>3, <2>1, <2>2, <2>3, <2>4, <2>6, <2>7 DEF ChainNext
<1> QED BY <1>2, <1>3 DEF Next, vars

\* An end never goes back, and an open one keeps its connection, counterparty,
\* version and ports, on any number of ends and whatever is forced.
THEOREM EndsOnlyProgress == Spec => EndsProgress
<1> DEFINE progress ==
      \A c \in Chains :
        /\ \A i \in DOMAIN connections[c] :
              LET old == connections[c][i]
                  new == connections'[c][i]
              IN /\ old.state # "Init" => new.state # "Init" /\ new.cp = old.cp
                 /\ old.state = "Open" => new = old
        /\ \A i \in DOMAIN channels[c] :
              LET old == channels[c][i].channel
                  new == channels'[c][i].channel
              IN /\ channels'[c][i].port = channels[c][i].port
                 /\ old.state # "Init" => new \in {old, Moved(old, "Open"),
                                                   Moved(old, "Closed")}
                 /\ old.state = "Closed" => new = old
<1>1. HandshakeInv /\ [Next]_vars => [progress]_vars
  BY ProgressStep DEF ConnectionsProgress, ChannelsProgress
<1> QED BY <1>1, HandshakeInvariant, PTL DEF Spec, EndsProgress, progress

=============================================================================
