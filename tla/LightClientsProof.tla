-------------------------- MODULE LightClientsProof --------------------------
(***************************************************************************)
(* The light clients, proved for any blocks of the two chains and beside   *)
(* them, any number of clients and any bounds.                             *)
(***************************************************************************)
EXTENDS LightClients, SequenceTheorems, TLAPS

\* What is kept by height.
ByHeight(V) == UNION {[S -> V] : S \in SUBSET Nat}

BlockNames == DOMAIN Blocks \cup DOMAIN L2Blocks

L1Names == {0} \cup DOMAIN MaxForces

LightClient == [type : ClientTypes, l1 : L1Names, latest : Nat, frozen : BOOLEAN,
                cons : ByHeight(BlockNames)]

Stored == [state : [latest : Nat, frozen : BOOLEAN, l1 : L1Names],
           cons : ByHeight(BlockNames)]

Past == [from : ByHeight(Nat), forces : Nat, forked : BOOLEAN]

Shape ==
    /\ now \in Nat
    /\ clients \in Seq(LightClient)
    /\ stored \in Seq(Stored)
    /\ past \in Seq(Past)
    /\ Len(stored) = Len(clients)
    /\ Len(past) = Len(clients)

-----------------------------------------------------------------------------
(* Tables and sequences.                                                   *)

\* Tables of one entry, and with one more.
LEMMA SingleType ==
    ASSUME NEW V, NEW k \in Nat, NEW v \in V
    PROVE  Single(k, v) \in ByHeight(V)
<1>1. Single(k, v) \in [{k} -> V]
  BY DEF Single
<1> QED BY <1>1 DEF ByHeight

LEMMA PutType ==
    ASSUME NEW V, NEW f \in ByHeight(V), NEW k \in Nat, NEW v \in V
    PROVE  Put(f, k, v) \in ByHeight(V)
<1>1. PICK S \in SUBSET Nat : f \in [S -> V]
  BY DEF ByHeight
<1>2. Put(f, k, v) \in [S \cup {k} -> V] /\ S \cup {k} \in SUBSET Nat
  BY <1>1 DEF Put
<1> QED BY <1>2 DEF ByHeight

\* Entries of a table.
LEMMA TableEntry ==
    ASSUME NEW V, NEW f \in ByHeight(V), NEW k \in DOMAIN f
    PROVE  k \in Nat /\ f[k] \in V
BY DEF ByHeight

\* The empty table.
LEMMA TableEmpty ==
    ASSUME NEW V
    PROVE  <<>> \in ByHeight(V)
<1>1. <<>> \in [{} -> V]
  OBVIOUS
<1> QED BY <1>1 DEF ByHeight

\* The heights of blocks.
LEMMA HeightType ==
    ASSUME NEW type \in ClientTypes, NEW name \in Names(type)
    PROVE  /\ Height(type, name) \in Nat
           /\ name \in BlockNames
           /\ name \in Real
BY ClientsAssumption DEF Height, Names, ClientTypes, BlockNames

\* Members of the three sequences.
LEMMA Members ==
    ASSUME Shape
    PROVE  /\ DOMAIN clients = 1..Len(clients) /\ Len(clients) \in Nat
           /\ DOMAIN stored = DOMAIN clients /\ DOMAIN past = DOMAIN clients
           /\ \A i \in DOMAIN clients : /\ clients[i] \in LightClient
                                        /\ stored[i] \in Stored
                                        /\ past[i] \in Past
BY DEF Shape

\* One entry of a sequence is replaced.
LEMMA ReplaceEffect ==
    ASSUME NEW S, NEW s \in Seq(S), NEW i \in DOMAIN s, NEW e \in S
    PROVE  /\ [s EXCEPT ![i] = e] \in Seq(S)
           /\ Len([s EXCEPT ![i] = e]) = Len(s)
           /\ [s EXCEPT ![i] = e][i] = e
           /\ \A j \in DOMAIN s : j # i => [s EXCEPT ![i] = e][j] = s[j]
BY ExceptSeq, LenProperties

\* One is added.
LEMMA AddEffect ==
    ASSUME NEW S, NEW s \in Seq(S), NEW e \in S
    PROVE  /\ Append(s, e) \in Seq(S)
           /\ Len(Append(s, e)) = Len(s) + 1
           /\ Append(s, e)[Len(s) + 1] = e
           /\ \A j \in DOMAIN s : Append(s, e)[j] = s[j]
BY AppendProperties, LenProperties

-----------------------------------------------------------------------------
(* What each action does to the client it is about.                        *)

\* Clients other than i, and what is kept of them, stay.
OthersKept(i) ==
    /\ DOMAIN clients' = DOMAIN clients
    /\ \A j \in DOMAIN clients :
          j # i => /\ clients'[j] = clients[j]
                   /\ stored'[j] = stored[j]
                   /\ past'[j] = past[j]

\* The fields of a client's state.
LEMMA StateType ==
    ASSUME NEW c \in LightClient
    PROVE  /\ ClientState(c) \in [latest : Nat, frozen : BOOLEAN, l1 : L1Names]
           /\ c.type \in ClientTypes /\ c.l1 \in L1Names /\ c.latest \in Nat
           /\ c.frozen \in BOOLEAN /\ c.cons \in ByHeight(BlockNames)
BY DEF ClientState, LightClient

\* Records that are clients, and what is stored of them.
LEMMA Records ==
    ASSUME NEW type \in ClientTypes, NEW l1 \in L1Names, NEW h \in Nat,
           NEW k \in ByHeight(BlockNames)
    PROVE  /\ [type |-> type, l1 |-> l1, latest |-> h, frozen |-> FALSE, cons |-> k]
                 \in LightClient
           /\ \A c \in LightClient : [c EXCEPT !.cons = k, !.latest = h] \in LightClient
           /\ \A x \in [latest : Nat, frozen : BOOLEAN, l1 : L1Names] :
                 [state |-> x, cons |-> k] \in Stored
BY DEF LightClient, Stored

\* A client made from submitted states.
LEMMA NewClient ==
    ASSUME NEW type \in ClientTypes, NEW name \in Names(type), NEW l1 \in L1Names,
           NEW c, c = NewLightClient(type, name, Height(type, name), l1)
    PROVE  /\ c \in LightClient
           /\ c.type = type /\ c.l1 = l1 /\ c.latest = Height(type, name)
           /\ c.cons = Single(c.latest, name)
           /\ DOMAIN c.cons = {c.latest} /\ c.cons[c.latest] = name
<1>1. Height(type, name) \in Nat /\ name \in BlockNames
  BY HeightType
<1>2. /\ c.type = type /\ c.l1 = l1 /\ c.latest = Height(type, name)
      /\ c.cons = Single(c.latest, name)
  BY DEF NewLightClient
<1>3. /\ c.cons \in ByHeight(BlockNames)
      /\ DOMAIN c.cons = {c.latest} /\ c.cons[c.latest] = name
  <2> DEFINE h == Height(type, name)
  <2>1. /\ Single(h, name) \in ByHeight(BlockNames)
        /\ DOMAIN Single(h, name) = {h} /\ Single(h, name)[h] = name
    BY <1>1, SingleType DEF Single
  <2> QED BY <1>2, <2>1
<1>4. c \in LightClient
  <2>1. Single(Height(type, name), name) \in ByHeight(BlockNames)
    BY <1>1, SingleType
  <2> QED BY <1>1, <2>1, Records DEF NewLightClient
<1> QED BY <1>2, <1>3, <1>4

\* What initClient stores.
LEMMA InitStored ==
    ASSUME NEW c \in LightClient, c.latest \in DOMAIN c.cons,
           NEW before \in ByHeight(BlockNames), NEW s, s = initClient(before, c)
    PROVE  /\ s \in Stored
           /\ s.state = ClientState(c)
           /\ DOMAIN s.cons = DOMAIN before \cup {c.latest}
           /\ s.cons[c.latest] = c.cons[c.latest]
<1>1. c.latest \in Nat /\ c.cons[c.latest] \in BlockNames
  BY TableEntry, StateType
<1>2. s.state = ClientState(c) /\ s.cons = Put(before, c.latest, c.cons[c.latest])
  BY DEF initClient
<1>3. /\ s.cons \in ByHeight(BlockNames)
      /\ DOMAIN s.cons = DOMAIN before \cup {c.latest}
      /\ s.cons[c.latest] = c.cons[c.latest]
  <2> DEFINE h == c.latest
             v == c.cons[c.latest]
  <2>1. h \in Nat /\ v \in BlockNames
    BY <1>1
  <2> HIDE DEF h, v
  <2>2. Put(before, h, v) \in ByHeight(BlockNames)
    BY <2>1, PutType
  <2>3. /\ DOMAIN Put(before, h, v) = DOMAIN before \cup {h}
        /\ Put(before, h, v)[h] = v
    BY DEF Put
  <2> QED BY <1>2, <2>2, <2>3 DEF h, v
<1>4. s \in Stored
  <2>1. Put(before, c.latest, c.cons[c.latest]) \in ByHeight(BlockNames)
    BY <1>1, PutType
  <2> QED BY <2>1, StateType, Records DEF initClient
<1> QED BY <1>2, <1>3, <1>4

\* updateState adds a consensus state and never lowers the latest height.
LEMMA UpdatedState ==
    ASSUME NEW c \in LightClient, NEW h \in Nat, NEW name \in BlockNames,
           NEW n, n = updateState(c, h, name)
    PROVE  /\ n \in LightClient
           /\ n.type = c.type /\ n.l1 = c.l1 /\ n.frozen = c.frozen
           /\ n.latest = IF h > c.latest THEN h ELSE c.latest
           /\ n.cons = Put(c.cons, h, name)
           /\ DOMAIN n.cons = DOMAIN c.cons \cup {h}
           /\ n.cons[h] = name
           /\ \A g \in DOMAIN c.cons : g # h => n.cons[g] = c.cons[g]
<1>1. /\ n.type = c.type /\ n.l1 = c.l1 /\ n.frozen = c.frozen
      /\ n.latest = IF h > c.latest THEN h ELSE c.latest
      /\ n.cons = Put(c.cons, h, name)
  BY DEF updateState, LightClient
<1>2. /\ n.cons \in ByHeight(BlockNames)
      /\ DOMAIN n.cons = DOMAIN c.cons \cup {h}
      /\ n.cons[h] = name
      /\ \A g \in DOMAIN c.cons : g # h => n.cons[g] = c.cons[g]
  <2> DEFINE f == c.cons
  <2>1. f \in ByHeight(BlockNames)
    BY StateType
  <2> HIDE DEF f
  <2>2. Put(f, h, name) \in ByHeight(BlockNames)
    BY <2>1, PutType
  <2>3. /\ DOMAIN Put(f, h, name) = DOMAIN f \cup {h}
        /\ Put(f, h, name)[h] = name
        /\ \A g \in DOMAIN f : g # h => Put(f, h, name)[g] = f[g]
    BY DEF Put
  <2> QED BY <1>1, <2>2, <2>3 DEF f
<1>3. n.latest \in Nat
  BY <1>1, StateType
<1>4. n \in LightClient
  <2> DEFINE h2 == n.latest
             f2 == n.cons
  <2>1. n = [c EXCEPT !.cons = f2, !.latest = h2]
    BY <1>1 DEF updateState, LightClient
  <2>2. h2 \in Nat /\ f2 \in ByHeight(BlockNames)
    BY <1>2, <1>3
  <2>3. c.type \in ClientTypes /\ c.l1 \in L1Names
    BY StateType
  <2> HIDE DEF h2, f2
  <2>4. [c EXCEPT !.cons = f2, !.latest = h2] \in LightClient
    BY <2>2, <2>3, Records
  <2> QED BY <2>1, <2>4
<1> QED BY <1>1, <1>2, <1>4

\* UpdateClient: the new client, and what is stored and remembered of it.
LEMMA UpdateEffect ==
    ASSUME Shape, NEW i \in DOMAIN clients, NEW header \in Headers(clients[i].type),
           UpdateClient(i, header)
    PROVE  LET c == clients[i]
               n == clients'[i]
               height == Height(c.type, header.block)
           IN /\ Shape'
              /\ OthersKept(i)
              /\ height \in Nat /\ header.block \in BlockNames
              /\ n.cons[height] \in BlockNames
              /\ n = IF c.type # Lens /\ height \in DOMAIN c.cons THEN c
                     ELSE updateState(c, height, header.block)
              /\ stored'[i].state = IF n.latest > c.latest THEN ClientState(n)
                                    ELSE stored[i].state
              /\ stored'[i].cons = Put(stored[i].cons, height, n.cons[height])
              /\ past'[i].from = IF n = c \/ c.type = Lens THEN past[i].from
                                 ELSE Put(past[i].from, height, header.trusted)
              /\ past'[i].forces = past[i].forces
              /\ past'[i].forked = (past[i].forked \/
                                    (c.type # Lens /\ n.cons[height] \notin Real))
<1> DEFINE c == clients[i]
           height == Height(c.type, header.block)
           n == IF c.type = Lens THEN LensUpdate(c, header) ELSE CometblsUpdate(c, header)
           st == IF n.latest > c.latest THEN ClientState(n) ELSE stored[i].state
           co == Put(stored[i].cons, height, n.cons[height])
           fr == IF n = c \/ c.type = Lens THEN past[i].from
                 ELSE Put(past[i].from, height, header.trusted)
           fo == past[i].forked \/ (c.type # Lens /\ n.cons[height] \notin Real)
<1>1. c \in LightClient /\ stored[i] \in Stored /\ past[i] \in Past
  BY Members
<1>2. /\ clients' = [clients EXCEPT ![i] = n]
      /\ stored' = [stored EXCEPT ![i].state = st, ![i].cons = co]
      /\ past' = [past EXCEPT ![i].from = fr, ![i].forked = fo]
      /\ now' = now
  BY DEF UpdateClient
<1>3. height \in Nat /\ header.block \in BlockNames
  <2>1. CASE c.type = Lens
    BY <2>1, ClientsAssumption DEF Height, Headers, LensHeaders, BlockNames
  <2>2. CASE c.type # Lens
    BY <2>2, ClientsAssumption DEF Height, Headers, CometblsHeaders, BlockNames
  <2> QED BY <2>1, <2>2
<1>4. n = IF c.type # Lens /\ height \in DOMAIN c.cons THEN c
          ELSE updateState(c, height, header.block)
  BY DEF LensUpdate, CometblsUpdate, Height, hasConsensusState
<1>5. n \in LightClient /\ height \in DOMAIN n.cons
  <2>1. CASE c.type # Lens /\ height \in DOMAIN c.cons
    BY <2>1, <1>1, <1>4
  <2>2. CASE ~(c.type # Lens /\ height \in DOMAIN c.cons)
    <3>1. n = updateState(c, height, header.block)
      BY <2>2, <1>4
    <3> HIDE DEF n, c, height
    <3> QED BY <3>1, <1>1, <1>3, UpdatedState
  <2> QED BY <2>1, <2>2
<1>6. n.cons[height] \in BlockNames
  BY <1>5, TableEntry, StateType
<1>7. st \in [latest : Nat, frozen : BOOLEAN, l1 : L1Names]
  BY <1>1, <1>5, StateType DEF Stored
<1>8. co \in ByHeight(BlockNames)
  <2>1. stored[i].cons \in ByHeight(BlockNames)
    BY <1>1 DEF Stored
  <2> QED BY <1>3, <1>6, <2>1, PutType
<1>9. fr \in ByHeight(Nat)
  <2>1. past[i].from \in ByHeight(Nat)
    BY <1>1 DEF Past
  <2>2. ASSUME c.type # Lens
        PROVE  Put(past[i].from, height, header.trusted) \in ByHeight(Nat)
    <3>1. header.trusted \in Nat
      BY <2>2, ClientsAssumption DEF Headers, CometblsHeaders, Heights
    <3> QED BY <1>3, <2>1, <3>1, PutType
  <2> QED BY <2>1, <2>2
<1>10. fo \in BOOLEAN
  BY <1>1 DEF Past
<1> HIDE DEF c, height, n, st, co, fr, fo
<1>11. /\ clients' \in Seq(LightClient) /\ Len(clients') = Len(clients)
       /\ clients'[i] = n
       /\ \A j \in DOMAIN clients : j # i => clients'[j] = clients[j]
  BY <1>2, <1>5, ReplaceEffect DEF Shape
<1>12. /\ stored' \in Seq(Stored) /\ Len(stored') = Len(stored)
       /\ stored'[i].state = st /\ stored'[i].cons = co
       /\ \A j \in DOMAIN stored : j # i => stored'[j] = stored[j]
  <2> DEFINE e == [stored[i] EXCEPT !.state = st, !.cons = co]
  <2>1. e \in Stored /\ e.state = st /\ e.cons = co
    BY <1>1, <1>7, <1>8 DEF Stored
  <2>2. stored' = [stored EXCEPT ![i] = e]
    BY <1>2, Members DEF Shape
  <2> HIDE DEF e
  <2>3. stored \in Seq(Stored) /\ i \in DOMAIN stored
    BY Members DEF Shape
  <2> QED BY <2>1, <2>2, <2>3, ReplaceEffect
<1>13. /\ past' \in Seq(Past) /\ Len(past') = Len(past)
       /\ past'[i].from = fr /\ past'[i].forces = past[i].forces
       /\ past'[i].forked = fo
       /\ \A j \in DOMAIN past : j # i => past'[j] = past[j]
  <2> DEFINE e == [past[i] EXCEPT !.from = fr, !.forked = fo]
  <2>1. e \in Past /\ e.from = fr /\ e.forked = fo /\ e.forces = past[i].forces
    BY <1>1, <1>9, <1>10 DEF Past
  <2>2. past' = [past EXCEPT ![i] = e]
    BY <1>2, Members DEF Shape
  <2> HIDE DEF e
  <2>3. past \in Seq(Past) /\ i \in DOMAIN past
    BY Members DEF Shape
  <2> QED BY <2>1, <2>2, <2>3, ReplaceEffect
<1>14. Shape'
  BY <1>2, <1>11, <1>12, <1>13 DEF Shape
<1>15. OthersKept(i)
  <2>1. DOMAIN clients' = DOMAIN clients
    BY <1>11 DEF Shape
  <2> QED BY <2>1, <1>11, <1>12, <1>13, Members DEF OthersKept
<1> QED BY <1>3, <1>4, <1>6, <1>11, <1>12, <1>13, <1>14, <1>15 DEF c, height, st, co, fr, fo

\* ForceUpdateClient: the client is a new one.
LEMMA ForceEffect ==
    ASSUME Shape, NEW i \in DOMAIN clients, NEW name \in Names(clients[i].type),
           ForceUpdateClient(i, name)
    PROVE  /\ Shape'
           /\ OthersKept(i)
           /\ clients'[i] = NewLightClient(clients[i].type, name,
                                           Height(clients[i].type, name), clients[i].l1)
           /\ stored'[i] = initClient(stored[i].cons, clients'[i])
           /\ past'[i].forces = past[i].forces + 1
           /\ past'[i].forked = past[i].forked
<1> DEFINE c == NewLightClient(clients[i].type, name, Height(clients[i].type, name),
                               clients[i].l1)
           s == initClient(stored[i].cons, c)
           f == past[i].forces + 1
           from == Single(c.latest, 0)
           e == [past[i] EXCEPT !.from = from, !.forces = f]
<1>1. /\ clients[i] \in LightClient /\ stored[i] \in Stored /\ past[i] \in Past
      /\ i \in DOMAIN stored /\ i \in DOMAIN past
  BY Members
<1>2. /\ clients' = [clients EXCEPT ![i] = c]
      /\ stored' = [stored EXCEPT ![i] = s]
      /\ past' = [past EXCEPT ![i].from = Single(c.latest, 0), ![i].forces = @ + 1]
      /\ now' = now
  BY DEF ForceUpdateClient
<1>3. c \in LightClient /\ c.latest \in DOMAIN c.cons
  <2>1. clients[i].type \in ClientTypes /\ clients[i].l1 \in L1Names
    BY <1>1, StateType
  <2> QED BY <2>1, NewClient
<1>4. s \in Stored
  <2>1. stored[i].cons \in ByHeight(BlockNames)
    BY <1>1 DEF Stored
  <2> HIDE DEF c
  <2> QED BY <1>3, <2>1, InitStored
<1>5. /\ e \in Past /\ e.forces = past[i].forces + 1 /\ e.forked = past[i].forked
      /\ past' = [past EXCEPT ![i] = e]
  <2>1. Single(c.latest, 0) \in ByHeight(Nat)
    BY <1>3, StateType, SingleType
  <2> HIDE DEF c
  <2>2. f \in Nat
    BY <1>1 DEF Past
  <2>3. past' = [past EXCEPT ![i] = e]
    BY <1>1, <1>2 DEF Past
  <2> HIDE DEF f, from
  <2>4. e \in Past /\ e.forces = f /\ e.forked = past[i].forked
    BY <1>1, <2>1, <2>2 DEF Past, from
  <2> QED BY <2>3, <2>4 DEF f
<1> HIDE DEF c, s, e
<1>6. /\ clients' \in Seq(LightClient) /\ Len(clients') = Len(clients)
      /\ clients'[i] = c
      /\ \A j \in DOMAIN clients : j # i => clients'[j] = clients[j]
  BY <1>2, <1>3, ReplaceEffect DEF Shape
<1>7. /\ stored' \in Seq(Stored) /\ Len(stored') = Len(stored)
      /\ stored'[i] = s
      /\ \A j \in DOMAIN stored : j # i => stored'[j] = stored[j]
  BY <1>1, <1>2, <1>4, ReplaceEffect DEF Shape
<1>8. /\ past' \in Seq(Past) /\ Len(past') = Len(past)
      /\ past'[i] = e
      /\ \A j \in DOMAIN past : j # i => past'[j] = past[j]
  BY <1>1, <1>5, ReplaceEffect DEF Shape
<1>9. Shape'
  BY <1>2, <1>6, <1>7, <1>8 DEF Shape
<1>10. OthersKept(i)
  <2>1. DOMAIN clients' = DOMAIN clients
    BY <1>6 DEF Shape
  <2> QED BY <2>1, <1>6, <1>7, <1>8, Members DEF OthersKept
<1> QED BY <1>5, <1>6, <1>7, <1>8, <1>9, <1>10 DEF c, s

\* Misbehaviour: the client is frozen.
LEMMA FreezeEffect ==
    ASSUME Shape, NEW i \in DOMAIN clients, NEW a, NEW b, Misbehaviour(i, a, b)
    PROVE  LET c == clients[i]
               n == clients'[i]
           IN /\ Shape'
              /\ OthersKept(i)
              /\ n.type = c.type /\ n.l1 = c.l1 /\ n.latest = c.latest
              /\ n.cons = c.cons
              /\ stored'[i].state = ClientState(n) /\ stored'[i].cons = stored[i].cons
              /\ past'[i] = past[i]
<1> DEFINE c == [clients[i] EXCEPT !.frozen = TRUE]
           s == [stored[i] EXCEPT !.state = ClientState(c)]
<1>1. /\ clients[i] \in LightClient /\ stored[i] \in Stored
      /\ i \in DOMAIN stored
  BY Members
<1>2. /\ clients' = [clients EXCEPT ![i] = c]
      /\ stored' = [stored EXCEPT ![i].state = ClientState(clients'[i])]
      /\ past' = past /\ now' = now
  BY DEF Misbehaviour
<1>3. /\ c \in LightClient /\ c.type = clients[i].type /\ c.l1 = clients[i].l1
      /\ c.latest = clients[i].latest /\ c.cons = clients[i].cons
  BY <1>1 DEF LightClient
<1> HIDE DEF c
<1>4. /\ clients' \in Seq(LightClient) /\ Len(clients') = Len(clients)
      /\ clients'[i] = c
      /\ \A j \in DOMAIN clients : j # i => clients'[j] = clients[j]
  BY <1>2, <1>3, ReplaceEffect DEF Shape
<1>5. s \in Stored /\ s.state = ClientState(c) /\ s.cons = stored[i].cons
  BY <1>1, <1>3, StateType DEF Stored
<1>6. stored' = [stored EXCEPT ![i] = s]
  BY <1>2, <1>4
<1> HIDE DEF s
<1>7. /\ stored' \in Seq(Stored) /\ Len(stored') = Len(stored)
      /\ stored'[i] = s
      /\ \A j \in DOMAIN stored : j # i => stored'[j] = stored[j]
  BY <1>1, <1>5, <1>6, ReplaceEffect DEF Shape
<1>8. Shape'
  BY <1>2, <1>4, <1>7 DEF Shape
<1>9. OthersKept(i)
  <2>1. DOMAIN clients' = DOMAIN clients
    BY <1>4 DEF Shape
  <2> QED BY <2>1, <1>2, <1>4, <1>7, Members DEF OthersKept
<1> QED BY <1>2, <1>3, <1>4, <1>5, <1>7, <1>8, <1>9

\* CreateClient: one more client.
LEMMA CreateEffect ==
    ASSUME Shape, NEW type \in ClientTypes, NEW name \in Names(type),
           NEW l1 \in L1Ids(type), CreateClient(type, name, l1)
    PROVE  LET i == Len(clients) + 1
           IN /\ Shape'
              /\ DOMAIN clients' = DOMAIN clients \cup {i}
              /\ \A j \in DOMAIN clients : /\ j # i
                                           /\ clients'[j] = clients[j]
                                           /\ stored'[j] = stored[j]
                                           /\ past'[j] = past[j]
              /\ l1 \in L1Names
              /\ clients'[i] = NewLightClient(type, name, Height(type, name), l1)
              /\ stored'[i] = initClient(<<>>, clients'[i])
              /\ past'[i].forces = 0
              /\ ~past'[i].forked
<1> DEFINE i == Len(clients) + 1
           c == NewLightClient(type, name, Height(type, name), l1)
           s == initClient(<<>>, c)
           e == [from |-> Single(c.latest, 0), forces |-> 0, forked |-> FALSE]
<1>1. /\ clients' = Append(clients, c)
      /\ stored' = Append(stored, s)
      /\ past' = Append(past, e)
      /\ now' = now
  BY DEF CreateClient
<1>2. l1 \in L1Names
  BY DEF L1Ids, L1Names
<1>3. c \in LightClient /\ c.latest \in DOMAIN c.cons
  BY <1>2, NewClient
<1>4. s \in Stored
  <2>1. <<>> \in ByHeight(BlockNames)
    BY TableEmpty
  <2> HIDE DEF c
  <2> QED BY <1>3, <2>1, InitStored
<1>5. e \in Past /\ e.forces = 0 /\ ~e.forked
  <2>1. Single(c.latest, 0) \in ByHeight(Nat)
    BY <1>3, StateType, SingleType
  <2> HIDE DEF c
  <2> QED BY <2>1 DEF Past
<1> HIDE DEF c, s, e
<1>6. /\ clients' \in Seq(LightClient) /\ Len(clients') = Len(clients) + 1
      /\ clients'[Len(clients) + 1] = c
      /\ \A j \in DOMAIN clients : clients'[j] = clients[j]
  BY <1>1, <1>3, AddEffect DEF Shape
<1>7. /\ stored' \in Seq(Stored) /\ Len(stored') = Len(stored) + 1
      /\ stored'[Len(stored) + 1] = s
      /\ \A j \in DOMAIN stored : stored'[j] = stored[j]
  BY <1>1, <1>4, AddEffect DEF Shape
<1>8. /\ past' \in Seq(Past) /\ Len(past') = Len(past) + 1
      /\ past'[Len(past) + 1] = e
      /\ \A j \in DOMAIN past : past'[j] = past[j]
  BY <1>1, <1>5, AddEffect DEF Shape
<1>9. Shape'
  BY <1>1, <1>6, <1>7, <1>8 DEF Shape
<1>10. DOMAIN clients' = DOMAIN clients \cup {i} /\ \A j \in DOMAIN clients : j # i
  <2>1. DOMAIN clients = 1..Len(clients) /\ Len(clients) \in Nat
    BY Members
  <2>2. DOMAIN clients' = 1..(Len(clients) + 1)
    BY <1>6
  <2> QED BY <2>1, <2>2
<1>11. Len(stored) = Len(clients) /\ Len(past) = Len(clients)
  BY DEF Shape
<1> QED BY <1>2, <1>5, <1>6, <1>7, <1>8, <1>9, <1>10, <1>11, Members DEF c, s

-----------------------------------------------------------------------------
(* What the core stores follows the clients.                               *)

\* StoredFollows, of one client.
Follows(c, s, p) ==
    /\ s.state = ClientState(c)
    /\ \A h \in DOMAIN c.cons : h \in DOMAIN s.cons /\ s.cons[h] = c.cons[h]
    /\ p.forces = 0 => DOMAIN s.cons = DOMAIN c.cons

\* An update stores what it adds; the stored state is replaced exactly when it
\* changes.
LEMMA UpdateFollows ==
    ASSUME Shape, NEW i \in DOMAIN clients, NEW header \in Headers(clients[i].type),
           UpdateClient(i, header), Follows(clients[i], stored[i], past[i])
    PROVE  Follows(clients'[i], stored'[i], past'[i])
<1> DEFINE c == clients[i]
           n == clients'[i]
           s == stored[i]
           t == stored'[i]
           h == Height(c.type, header.block)
<1>1. /\ h \in Nat /\ header.block \in BlockNames
      /\ n = IF c.type # Lens /\ h \in DOMAIN c.cons THEN c
             ELSE updateState(c, h, header.block)
      /\ t.state = IF n.latest > c.latest THEN ClientState(n) ELSE s.state
      /\ t.cons = Put(s.cons, h, n.cons[h])
      /\ past'[i].forces = past[i].forces
  BY UpdateEffect
<1>2. c \in LightClient
  BY Members
<1>3. Follows(c, s, past[i])
  OBVIOUS
<1> HIDE DEF c, n, s, t, h
<1>4. /\ DOMAIN t.cons = DOMAIN s.cons \cup {h}
      /\ t.cons[h] = n.cons[h]
      /\ \A g \in DOMAIN s.cons : g # h => t.cons[g] = s.cons[g]
  BY <1>1 DEF Put
<1>5. CASE c.type # Lens /\ h \in DOMAIN c.cons
  <2>1. n = c /\ t.state = s.state
    BY <1>1, <1>2, <1>5, StateType
  <2> QED BY <1>1, <1>3, <1>4, <1>5, <2>1 DEF Follows, n, t
<1>6. CASE ~(c.type # Lens /\ h \in DOMAIN c.cons)
  <2>1. n = updateState(c, h, header.block)
    BY <1>1, <1>6
  <2>2. /\ n.l1 = c.l1 /\ n.frozen = c.frozen
        /\ n.latest = IF h > c.latest THEN h ELSE c.latest
        /\ n.cons = Put(c.cons, h, header.block)
        /\ DOMAIN n.cons = DOMAIN c.cons \cup {h}
        /\ \A g \in DOMAIN c.cons : g # h => n.cons[g] = c.cons[g]
    <3>1. /\ n.l1 = c.l1 /\ n.frozen = c.frozen
          /\ n.latest = IF h > c.latest THEN h ELSE c.latest
          /\ n.cons = Put(c.cons, h, header.block)
      BY <2>1, <1>1, <1>2 DEF updateState, LightClient
    <3> QED BY <3>1 DEF Put
  <2>3. t.state = ClientState(n)
    <3>1. CASE n.latest > c.latest
      BY <1>1, <3>1
    <3>2. CASE ~(n.latest > c.latest)
      <4>1. n.latest = c.latest
        BY <1>1, <1>2, <2>2, <3>2, StateType
      <4> QED BY <1>1, <1>3, <2>2, <3>2, <4>1 DEF Follows, ClientState
    <3> QED BY <3>1, <3>2
  <2>4. \A g \in DOMAIN n.cons : g \in DOMAIN t.cons /\ t.cons[g] = n.cons[g]
    BY <1>3, <1>4, <2>2 DEF Follows
  <2>5. past'[i].forces = 0 => DOMAIN t.cons = DOMAIN n.cons
    BY <1>1, <1>3, <1>4, <2>2 DEF Follows
  <2> QED BY <2>3, <2>4, <2>5 DEF Follows, n, t
<1> QED BY <1>5, <1>6

\* So does a client that is made or replaced.
LEMMA NewFollows ==
    ASSUME NEW type \in ClientTypes, NEW name \in Names(type), NEW l1 \in L1Names,
           NEW before \in ByHeight(BlockNames), NEW c, NEW s, NEW p,
           c = NewLightClient(type, name, Height(type, name), l1),
           s = initClient(before, c),
           before = <<>> \/ p.forces # 0
    PROVE  Follows(c, s, p)
<1>1. /\ c \in LightClient /\ DOMAIN c.cons = {c.latest}
  BY NewClient
<1>2. /\ s.state = ClientState(c)
      /\ DOMAIN s.cons = DOMAIN before \cup {c.latest}
      /\ s.cons[c.latest] = c.cons[c.latest]
  BY <1>1, InitStored
<1>3. before = <<>> => DOMAIN before = {}
  OBVIOUS
<1> QED BY <1>1, <1>2, <1>3 DEF Follows

\* One step keeps the shape of the state and what is stored.
LEMMA FollowsStep ==
    ASSUME Shape, StoredFollows, [Next]_vars
    PROVE  Shape' /\ StoredFollows'
<1>1. \A i \in DOMAIN clients : Follows(clients[i], stored[i], past[i])
  BY DEF StoredFollows, Follows
<1> SUFFICES Shape' /\ \A i \in DOMAIN clients' : Follows(clients'[i], stored'[i], past'[i])
  BY DEF StoredFollows, Follows
<1>2. CASE UNCHANGED <<clients, stored, past>> /\ now' \in Nat
  BY <1>1, <1>2 DEF Shape
<1>3. CASE UNCHANGED vars
  BY <1>2, <1>3 DEF vars, Shape
<1>4. CASE Tick
  BY <1>2, <1>4 DEF Tick, Shape
<1>5. ASSUME NEW type \in ClientTypes, RegisterClient(type)
      PROVE  Shape' /\ \A i \in DOMAIN clients' : Follows(clients'[i], stored'[i], past'[i])
  BY <1>2, <1>5 DEF RegisterClient, Shape
<1>6. ASSUME NEW type \in ClientTypes, NEW name \in Names(type), NEW l1 \in L1Ids(type),
             CreateClient(type, name, l1)
      PROVE  Shape' /\ \A i \in DOMAIN clients' : Follows(clients'[i], stored'[i], past'[i])
  <2> DEFINE k == Len(clients) + 1
  <2>1. /\ Shape'
        /\ DOMAIN clients' = DOMAIN clients \cup {k}
        /\ \A j \in DOMAIN clients : /\ j # k
                                     /\ clients'[j] = clients[j]
                                     /\ stored'[j] = stored[j]
                                     /\ past'[j] = past[j]
        /\ l1 \in L1Names
        /\ clients'[k] = NewLightClient(type, name, Height(type, name), l1)
        /\ stored'[k] = initClient(<<>>, clients'[k])
    BY <1>6, CreateEffect
  <2> HIDE DEF k
  <2>2. <<>> \in ByHeight(BlockNames)
    BY TableEmpty
  <2>3. Follows(clients'[k], stored'[k], past'[k])
    BY <2>1, <2>2, NewFollows
  <2> QED BY <1>1, <2>1, <2>3
<1>7. ASSUME NEW i \in DOMAIN clients, NEW header \in Headers(clients[i].type),
             UpdateClient(i, header)
      PROVE  Shape' /\ \A j \in DOMAIN clients' : Follows(clients'[j], stored'[j], past'[j])
  <2>1. Shape' /\ OthersKept(i)
    BY <1>7, UpdateEffect
  <2>2. Follows(clients'[i], stored'[i], past'[i])
    BY <1>1, <1>7, UpdateFollows
  <2> QED BY <1>1, <2>1, <2>2 DEF OthersKept
<1>8. ASSUME NEW i \in DOMAIN clients, NEW name \in Names(clients[i].type),
             ForceUpdateClient(i, name)
      PROVE  Shape' /\ \A j \in DOMAIN clients' : Follows(clients'[j], stored'[j], past'[j])
  <2>1. /\ Shape' /\ OthersKept(i)
        /\ clients'[i] = NewLightClient(clients[i].type, name,
                                        Height(clients[i].type, name), clients[i].l1)
        /\ stored'[i] = initClient(stored[i].cons, clients'[i])
        /\ past'[i].forces = past[i].forces + 1
    BY <1>8, ForceEffect
  <2>2. /\ clients[i].type \in ClientTypes /\ clients[i].l1 \in L1Names
        /\ stored[i].cons \in ByHeight(BlockNames)
        /\ past[i].forces \in Nat
    BY Members, StateType DEF Stored, Past
  <2>3. past'[i].forces # 0
    BY <2>1, <2>2
  <2>4. Follows(clients'[i], stored'[i], past'[i])
    BY <2>1, <2>2, <2>3, NewFollows
  <2> QED BY <1>1, <2>1, <2>4 DEF OthersKept
<1>9. ASSUME NEW i \in DOMAIN clients, NEW a, NEW b, Misbehaviour(i, a, b)
      PROVE  Shape' /\ \A j \in DOMAIN clients' : Follows(clients'[j], stored'[j], past'[j])
  <2>1. /\ Shape' /\ OthersKept(i)
        /\ clients'[i].cons = clients[i].cons
        /\ stored'[i].state = ClientState(clients'[i])
        /\ stored'[i].cons = stored[i].cons
        /\ past'[i] = past[i]
    BY <1>9, FreezeEffect
  <2>2. Follows(clients'[i], stored'[i], past'[i])
    BY <1>1, <2>1 DEF Follows
  <2> QED BY <1>1, <2>1, <2>2 DEF OthersKept
<1> QED BY <1>3, <1>4, <1>5, <1>6, <1>7, <1>8, <1>9 DEF Next

LEMMA FollowsInit == Init => Shape /\ StoredFollows
BY DEF Init, Shape, StoredFollows

\* What the core stores and commits of every client is what the client itself
\* holds, through any updates, replacements and misbehaviour.
THEOREM StoredAlwaysFollows == Spec => []StoredFollows
<1>1. Shape /\ StoredFollows /\ [Next]_vars => (Shape /\ StoredFollows)'
  BY FollowsStep
<1> QED BY <1>1, FollowsInit, PTL DEF Spec

-----------------------------------------------------------------------------
(* Clients that are not active change only by being replaced.              *)

\* An active client follows one whose status is active.
LEMMA ActiveFollowed ==
    ASSUME NEW i \in DOMAIN clients, getActiveClient(i)
    PROVE  /\ Followed(i) \in DOMAIN clients
           /\ CometblsStatus(clients[Followed(i)]) = "Active"
BY DEF getActiveClient, Status, Followed

LEMMA InactiveStep ==
    ASSUME Shape, Next, NEW i \in DOMAIN clients,
           Followed(i) \in DOMAIN clients =>
                 CometblsStatus(clients[Followed(i)]) # "Active",
           clients'[i] # clients[i]
    PROVE  past'[i].forces > past[i].forces
<1>1. ~getActiveClient(i)
  BY ActiveFollowed
<1>2. CASE Tick
  BY <1>2 DEF Tick
<1>3. ASSUME NEW type \in ClientTypes, RegisterClient(type)
      PROVE  FALSE
  BY <1>3 DEF RegisterClient
<1>4. ASSUME NEW type \in ClientTypes, NEW name \in Names(type), NEW l1 \in L1Ids(type),
             CreateClient(type, name, l1)
      PROVE  FALSE
  BY <1>4, CreateEffect
<1>5. ASSUME NEW j \in DOMAIN clients, NEW header \in Headers(clients[j].type),
             UpdateClient(j, header)
      PROVE  FALSE
  <2>1. OthersKept(j)
    BY <1>5, UpdateEffect
  <2>2. getActiveClient(j)
    BY <1>5 DEF UpdateClient
  <2> QED BY <1>1, <2>1, <2>2 DEF OthersKept
<1>6. ASSUME NEW j \in DOMAIN clients, NEW name \in Names(clients[j].type),
             ForceUpdateClient(j, name)
      PROVE  past'[i].forces > past[i].forces
  <2>1. OthersKept(j) /\ past'[j].forces = past[j].forces + 1
    BY <1>6, ForceEffect
  <2>2. i = j
    BY <2>1 DEF OthersKept
  <2>3. past[i].forces \in Nat
    BY Members DEF Past
  <2> QED BY <2>1, <2>2, <2>3
<1>7. ASSUME NEW j \in DOMAIN clients, NEW a, NEW b, Misbehaviour(j, a, b)
      PROVE  FALSE
  <2>1. OthersKept(j)
    BY <1>7, FreezeEffect
  <2>2. getActiveClient(j)
    BY <1>7 DEF Misbehaviour
  <2> QED BY <1>1, <2>1, <2>2 DEF OthersKept
<1> QED BY <1>2, <1>3, <1>4, <1>5, <1>6, <1>7 DEF Next

\* A client that is frozen or expired, or whose L1 client is, changes only when
\* an administrator replaces it: every other entry point asks for its status
\* first, the status of the client it follows.
THEOREM InactiveAlwaysHolds == Spec => InactiveHolds
<1>1. Shape /\ StoredFollows /\ [Next]_vars => (Shape /\ StoredFollows)'
  BY FollowsStep
<1>2. Shape /\ [Next]_vars =>
      [\A i \in DOMAIN clients :
          (/\ Followed(i) \in DOMAIN clients =>
                 CometblsStatus(clients[Followed(i)]) # "Active"
           /\ clients'[i] # clients[i])
          => past'[i].forces > past[i].forces]_vars
  BY InactiveStep
<1> QED BY <1>1, <1>2, FollowsInit, PTL DEF Spec, InactiveHolds

-----------------------------------------------------------------------------
(* A header beside the chain can be reported.                              *)

\* What verifyHeader found when the consensus state of height h was verified
\* from the one of height f, as far as it still holds at a later time.
VerifiedFrom(c, h, f, time) ==
    LET block == Blocks[c.cons[h]]
        trusted == Blocks[c.cons[f]]
    IN /\ f \in DOMAIN c.cons
       /\ block.height > f
       /\ block.time > trusted.time
       /\ block.time < time + MaxClockDrift
       /\ block.height = f + 1 => block.validatorsHash = trusted.nextValidatorsHash
       /\ VerifyZKP(trusted.nextValidatorsHash, block)

\* The consensus state at height h of a CometBLS client is of a block of that
\* height: one of the chain, or one verified from another state it still has.
Grounded(c, p, h, time) ==
    /\ c.cons[h] \in DOMAIN Blocks
    /\ Blocks[c.cons[h]].height = h
    /\ c.cons[h] \in Real \/ (h \in DOMAIN p.from /\ VerifiedFrom(c, h, p.from[h], time))

AllGrounded ==
    \A i \in DOMAIN clients :
        clients[i].type # Lens =>
        \A h \in DOMAIN clients[i].cons : Grounded(clients[i], past[i], h, now)

\* Time only makes the drift larger.
LEMMA GroundedLater ==
    ASSUME NEW c, NEW p, NEW h, NEW s \in Nat, NEW t \in Nat, s <= t, Grounded(c, p, h, s)
    PROVE  Grounded(c, p, h, t)
<1>1. Blocks[c.cons[h]].time \in Nat /\ MaxClockDrift \in Nat
  BY ClientsAssumption DEF Grounded
<1>2. Blocks[c.cons[h]].time < s + MaxClockDrift => Blocks[c.cons[h]].time < t + MaxClockDrift
  BY <1>1
<1> QED BY <1>2 DEF Grounded, VerifiedFrom

\* A client that is made is of a block of the chain.
LEMMA NewGrounded ==
    ASSUME NEW type \in ClientTypes, NEW name \in Names(type), NEW l1 \in L1Names,
           NEW c, NEW p, NEW h, NEW time,
           c = NewLightClient(type, name, Height(type, name), l1),
           c.type # Lens, h \in DOMAIN c.cons
    PROVE  Grounded(c, p, h, time)
<1>1. c.type = type /\ h = c.latest /\ c.latest = Height(type, name) /\ c.cons[h] = name
  BY NewClient
<1>2. name \in Real /\ name \in DOMAIN Blocks /\ h = Blocks[name].height
  BY <1>1 DEF Names, Height
<1> QED BY <1>1, <1>2 DEF Grounded

\* An update adds a state that it verified, and replaces none.
LEMMA UpdateGrounded ==
    ASSUME Shape, NEW i \in DOMAIN clients, NEW header \in Headers(clients[i].type),
           UpdateClient(i, header), clients'[i].type # Lens,
           \A h \in DOMAIN clients[i].cons : Grounded(clients[i], past[i], h, now),
           NEW g \in DOMAIN clients'[i].cons
    PROVE  Grounded(clients'[i], past'[i], g, now)
<1> DEFINE c == clients[i]
           n == clients'[i]
           p == past[i]
           q == past'[i]
           h == Height(c.type, header.block)
<1>1. /\ h \in Nat /\ header.block \in BlockNames
      /\ n = IF c.type # Lens /\ h \in DOMAIN c.cons THEN c
             ELSE updateState(c, h, header.block)
      /\ q.from = IF n = c \/ c.type = Lens THEN p.from ELSE Put(p.from, h, header.trusted)
  BY UpdateEffect
<1>2. c \in LightClient
  BY Members
<1>3. \A k \in DOMAIN c.cons : Grounded(c, p, k, now)
  OBVIOUS
<1>4. c.type # Lens => CometblsVerifyHeader(c, header)
  BY DEF UpdateClient
<1>5. c.type # Lens => header \in CometblsHeaders
  BY DEF Headers
<1>6. n.type # Lens /\ g \in DOMAIN n.cons
  OBVIOUS
<1>7. c.type # Lens => h = Blocks[header.block].height
  BY DEF Height
<1> HIDE DEF c, n, p, q, h
<1>8. CASE c.type # Lens /\ h \in DOMAIN c.cons
  BY <1>1, <1>3, <1>6, <1>8 DEF Grounded, n, q
<1>9. CASE ~(c.type # Lens /\ h \in DOMAIN c.cons)
  <2>1. n = updateState(c, h, header.block)
    BY <1>1, <1>9
  <2>2. n.type = c.type /\ n.cons = Put(c.cons, h, header.block)
    BY <2>1, <1>2 DEF updateState, LightClient
  <2>3. c.type # Lens /\ h \notin DOMAIN c.cons
    BY <1>6, <1>9, <2>2
  <2>4. /\ DOMAIN n.cons = DOMAIN c.cons \cup {h}
        /\ n.cons[h] = header.block
        /\ \A k \in DOMAIN c.cons : n.cons[k] = c.cons[k]
    BY <2>2, <2>3 DEF Put
  <2>5. q.from = Put(p.from, h, header.trusted)
    BY <1>1, <2>3, <2>4
  <2>6. /\ DOMAIN q.from = DOMAIN p.from \cup {h}
        /\ q.from[h] = header.trusted
        /\ \A k \in DOMAIN p.from : k # h => q.from[k] = p.from[k]
    BY <2>5 DEF Put
  <2>7. CASE g = h
    <3>1. header.trusted \in DOMAIN c.cons /\ verifyHeader(c, header)
      BY <1>4, <1>7, <2>3 DEF CometblsVerifyHeader, hasConsensusState
    <3>2. n.cons[header.trusted] = c.cons[header.trusted]
      BY <2>4, <3>1
    <3>3. VerifiedFrom(n, h, header.trusted, now)
      BY <2>4, <3>1, <3>2 DEF verifyHeader, VerifiedFrom
    <3>4. header.block \in DOMAIN Blocks
      BY <1>5, <2>3 DEF CometblsHeaders
    <3> QED BY <1>7, <2>3, <2>4, <2>6, <2>7, <3>3, <3>4 DEF Grounded, n, q
  <2>8. CASE g # h
    <3>1. g \in DOMAIN c.cons /\ n.cons[g] = c.cons[g] /\ Grounded(c, p, g, now)
      BY <1>3, <1>6, <2>4, <2>8
    <3>2. CASE c.cons[g] \in Real
      BY <3>1, <3>2 DEF Grounded, n
    <3>3. CASE g \in DOMAIN p.from /\ VerifiedFrom(c, g, p.from[g], now)
      <4>1. g \in DOMAIN q.from /\ q.from[g] = p.from[g]
        BY <2>6, <2>8, <3>3
      <4>2. /\ p.from[g] \in DOMAIN n.cons
            /\ n.cons[p.from[g]] = c.cons[p.from[g]]
        BY <2>4, <3>3 DEF VerifiedFrom
      <4>3. VerifiedFrom(n, g, q.from[g], now)
        BY <3>1, <3>3, <4>1, <4>2 DEF VerifiedFrom
      <4> QED BY <3>1, <4>1, <4>3 DEF Grounded, n, q
    <3> QED BY <3>1, <3>2, <3>3 DEF Grounded
  <2> QED BY <2>7, <2>8
<1> QED BY <1>8, <1>9

LEMMA GroundedStep ==
    ASSUME Shape, AllGrounded, [Next]_vars
    PROVE  AllGrounded'
<1> SUFFICES ASSUME NEW i \in DOMAIN clients', clients'[i].type # Lens,
                    NEW h \in DOMAIN clients'[i].cons
             PROVE  Grounded(clients'[i], past'[i], h, now')
  BY DEF AllGrounded
<1>1. ASSUME i \in DOMAIN clients, clients[i].type # Lens
      PROVE  \A g \in DOMAIN clients[i].cons : Grounded(clients[i], past[i], g, now)
  BY <1>1 DEF AllGrounded
<1>2. CASE UNCHANGED <<clients, past, now>>
  BY <1>1, <1>2
<1>3. CASE UNCHANGED vars
  BY <1>2, <1>3 DEF vars
<1>4. CASE Tick
  <2>1. clients' = clients /\ past' = past /\ now \in Nat /\ now' \in Nat /\ now <= now'
    BY <1>4 DEF Tick, Shape
  <2>2. Grounded(clients[i], past[i], h, now)
    BY <1>1, <2>1
  <2> QED BY <2>1, <2>2, GroundedLater
<1>5. ASSUME NEW type \in ClientTypes, RegisterClient(type)
      PROVE  Grounded(clients'[i], past'[i], h, now')
  BY <1>2, <1>5 DEF RegisterClient
<1>6. ASSUME NEW type \in ClientTypes, NEW name \in Names(type), NEW l1 \in L1Ids(type),
             CreateClient(type, name, l1)
      PROVE  Grounded(clients'[i], past'[i], h, now')
  <2> DEFINE k == Len(clients) + 1
  <2>1. /\ DOMAIN clients' = DOMAIN clients \cup {k}
        /\ \A j \in DOMAIN clients : /\ clients'[j] = clients[j]
                                     /\ past'[j] = past[j]
        /\ l1 \in L1Names
        /\ clients'[k] = NewLightClient(type, name, Height(type, name), l1)
    BY <1>6, CreateEffect
  <2>2. now' = now
    BY <1>6 DEF CreateClient
  <2> HIDE DEF k
  <2>3. CASE i = k
    BY <2>1, <2>3, NewGrounded
  <2> QED BY <1>1, <2>1, <2>2, <2>3
<1>7. ASSUME NEW j \in DOMAIN clients, NEW header \in Headers(clients[j].type),
             UpdateClient(j, header)
      PROVE  Grounded(clients'[i], past'[i], h, now')
  <2>1. OthersKept(j) /\ now' = now
    BY <1>7, UpdateEffect DEF UpdateClient
  <2>2. CASE i = j
    <3>1. clients[i].type # Lens
      <4>1. clients'[i].type = clients[i].type
        <5>1. PICK n : /\ clients'[i] = n
                       /\ n = clients[i] \/ n = updateState(clients[i],
                             Height(clients[i].type, header.block), header.block)
          BY <1>7, <2>2, UpdateEffect
        <5>2. clients[i] \in LightClient
          BY <2>2, Members
        <5> QED BY <5>1, <5>2 DEF updateState, LightClient
      <4> QED BY <4>1
    <3> QED BY <1>1, <1>7, <2>1, <2>2, <3>1, UpdateGrounded
  <2> QED BY <1>1, <2>1, <2>2 DEF OthersKept
<1>8. ASSUME NEW j \in DOMAIN clients, NEW name \in Names(clients[j].type),
             ForceUpdateClient(j, name)
      PROVE  Grounded(clients'[i], past'[i], h, now')
  <2>1. /\ OthersKept(j)
        /\ clients'[j] = NewLightClient(clients[j].type, name,
                                        Height(clients[j].type, name), clients[j].l1)
    BY <1>8, ForceEffect
  <2>2. now' = now
    BY <1>8 DEF ForceUpdateClient
  <2>3. clients[j].type \in ClientTypes /\ clients[j].l1 \in L1Names
    BY Members, StateType
  <2>4. CASE i = j
    BY <2>1, <2>3, <2>4, NewGrounded
  <2> QED BY <1>1, <2>1, <2>2, <2>4 DEF OthersKept
<1>9. ASSUME NEW j \in DOMAIN clients, NEW a, NEW b, Misbehaviour(j, a, b)
      PROVE  Grounded(clients'[i], past'[i], h, now')
  <2>1. /\ OthersKept(j)
        /\ clients'[j].type = clients[j].type /\ clients'[j].cons = clients[j].cons
        /\ past'[j] = past[j]
    BY <1>9, FreezeEffect
  <2>2. now' = now
    BY <1>9 DEF Misbehaviour
  <2>3. CASE i = j
    <3>1. Grounded(clients[i], past[i], h, now)
      BY <1>1, <2>1, <2>3
    <3> QED BY <2>1, <2>2, <2>3, <3>1 DEF Grounded, VerifiedFrom
  <2> QED BY <1>1, <2>1, <2>2, <2>3 DEF OthersKept
<1> QED BY <1>3, <1>4, <1>5, <1>6, <1>7, <1>8, <1>9 DEF Next

\* A header beside the chain and a block of the chain that conflicts with it
\* are both verified from the state the first was verified from.
LEMMA ForkReported ==
    ASSUME NEW c, NEW p, NEW h \in DOMAIN c.cons,
           \A g \in DOMAIN c.cons : Grounded(c, p, g, now),
           c.cons[h] \notin Real, c.cons[p.from[h]] \in Real,
           ~isClientExpiredAt(Blocks[c.cons[p.from[h]]].time),
           now \in Nat, NEW b \in Names("cometbls"),
           Blocks[b].time <= now,
           VerifyZKP(Blocks[c.cons[p.from[h]]].nextValidatorsHash, Blocks[b]),
           \/ Blocks[b].height = h
           \/ Blocks[b].height < h /\ Blocks[b].time >= Blocks[c.cons[h]].time
           \/ Blocks[b].height > h /\ Blocks[b].time <= Blocks[c.cons[h]].time
    PROVE  \E x, y \in {[block |-> name, trusted |-> p.from[h]] : name \in {c.cons[h], b}} :
              verifyMisbehaviour(c, x, y)
<1> DEFINE fork == c.cons[h]
           from == p.from[h]
           root == c.cons[from]
           x == [block |-> fork, trusted |-> from]
           y == [block |-> b, trusted |-> from]
<1>1. /\ fork \in DOMAIN Blocks /\ Blocks[fork].height = h
      /\ VerifiedFrom(c, h, from, now)
  BY DEF Grounded
<1>2. from \in DOMAIN c.cons
  BY <1>1 DEF VerifiedFrom
<1>3. root \in DOMAIN Blocks /\ Blocks[root].height = from /\ root \in Real
  BY <1>2 DEF Grounded
<1>4. b \in DOMAIN Blocks /\ b \in Real /\ b # fork
  BY DEF Names, Lens
<1>5. /\ h \in Nat /\ from \in Nat /\ Blocks[b].height \in Nat
      /\ Blocks[b].time \in Nat /\ Blocks[fork].time \in Nat /\ Blocks[root].time \in Nat
      /\ MaxClockDrift \in Nat \ {0}
  BY <1>1, <1>3, <1>4, ClientsAssumption
<1>6. h > from /\ Blocks[fork].time > Blocks[root].time
  BY <1>1 DEF VerifiedFrom
<1>7. from < Blocks[b].height
  <2>1. Blocks[b].height < from => Blocks[b].time < Blocks[root].time
    BY <1>3, <1>4, ChainAssumption
  <2>2. Blocks[b].height = from => b = root
    BY <1>3, <1>4, ChainAssumption
  <2> QED BY <1>5, <1>6, <2>1, <2>2
<1>8. /\ Blocks[root].time < Blocks[b].time
      /\ Blocks[b].height = from + 1 =>
            Blocks[b].validatorsHash = Blocks[root].nextValidatorsHash
  BY <1>3, <1>4, <1>7, ChainAssumption
<1>9. verifyMisbehaviourHeader(c, x)
  BY <1>1, <1>2 DEF verifyMisbehaviourHeader, verifyHeader, VerifiedFrom, hasConsensusState
<1>10. verifyMisbehaviourHeader(c, y)
  <2>1. Blocks[b].time < now + MaxClockDrift
    BY <1>5
  <2> QED BY <1>2, <1>5, <1>7, <1>8, <2>1
          DEF verifyMisbehaviourHeader, verifyHeader, hasConsensusState
<1>11. verifyMisbehaviour(c, x, y) \/ verifyMisbehaviour(c, y, x)
  BY <1>1, <1>4, <1>5, <1>9, <1>10
     DEF verifyMisbehaviour, isMisbehaviourPair, signedHeadersEqual
<1> QED BY <1>11

\* A client that accepted a header beside the chain can be frozen while the
\* state that the header was verified from has not expired, whatever else it
\* accepted since.
THEOREM ForksStayReportable == Spec => []ForksReportable
<1>1. Init => Shape /\ StoredFollows /\ AllGrounded
  BY FollowsInit DEF Init, AllGrounded
<1>2. Shape /\ StoredFollows /\ AllGrounded /\ [Next]_vars
      => (Shape /\ StoredFollows /\ AllGrounded)'
  BY FollowsStep, GroundedStep
<1>3. Shape /\ AllGrounded => ForksReportable
  <2> SUFFICES ASSUME Shape, AllGrounded PROVE ForksReportable
    OBVIOUS
  <2>1. now \in Nat
    BY DEF Shape
  <2>2. \A i \in DOMAIN clients : clients[i].type # Lens =>
           \A h \in DOMAIN clients[i].cons : Grounded(clients[i], past[i], h, now)
    BY DEF AllGrounded
  <2> SUFFICES ASSUME NEW i \in DOMAIN clients, clients[i].type # Lens,
                      NEW h \in DOMAIN clients[i].cons, clients[i].cons[h] \notin Real,
                      clients[i].cons[past[i].from[h]] \in Real,
                      ~isClientExpiredAt(Blocks[clients[i].cons[past[i].from[h]]].time),
                      NEW b \in Names("cometbls"), Blocks[b].time <= now,
                      VerifyZKP(Blocks[clients[i].cons[past[i].from[h]]].nextValidatorsHash,
                                Blocks[b]),
                      \/ Blocks[b].height = h
                      \/ /\ Blocks[b].height < h
                         /\ Blocks[b].time >= Blocks[clients[i].cons[h]].time
                      \/ /\ Blocks[b].height > h
                         /\ Blocks[b].time <= Blocks[clients[i].cons[h]].time
               PROVE  \E x, y \in {[block |-> name, trusted |-> past[i].from[h]] :
                                      name \in {clients[i].cons[h], b}} :
                         verifyMisbehaviour(clients[i], x, y)
    BY DEF ForksReportable
  <2>3. PICK c, p : c = clients[i] /\ p = past[i]
    OBVIOUS
  <2>4. \A g \in DOMAIN c.cons : Grounded(c, p, g, now)
    BY <2>2, <2>3
  <2>5. \E x, y \in {[block |-> name, trusted |-> p.from[h]] : name \in {c.cons[h], b}} :
           verifyMisbehaviour(c, x, y)
    <3>1. h \in DOMAIN c.cons
      BY <2>3
    <3>2. /\ c.cons[h] \notin Real /\ c.cons[p.from[h]] \in Real
          /\ ~isClientExpiredAt(Blocks[c.cons[p.from[h]]].time)
          /\ VerifyZKP(Blocks[c.cons[p.from[h]]].nextValidatorsHash, Blocks[b])
      BY <2>3
    <3>3. \/ Blocks[b].height = h
          \/ Blocks[b].height < h /\ Blocks[b].time >= Blocks[c.cons[h]].time
          \/ Blocks[b].height > h /\ Blocks[b].time <= Blocks[c.cons[h]].time
      BY <2>3
    <3> QED BY <2>1, <2>4, <3>1, <3>2, <3>3, ForkReported, ZenonT(60)
  <2> QED BY <2>3, <2>5
<1> QED BY <1>1, <1>2, <1>3, PTL DEF Spec

-----------------------------------------------------------------------------
(* What clients accept is true.                                            *)

\* The client that i follows has accepted no header beside the chain.
Faithful(i) == Followed(i) \in DOMAIN clients => ~past[Followed(i)].forked

\* Each consensus state is of its height; a client that follows the chain has
\* only blocks of its chain; the L1 client of a lens is not a lens.
Genuine ==
    \A i \in DOMAIN clients :
        /\ \A h \in DOMAIN clients[i].cons :
              /\ Height(clients[i].type, clients[i].cons[h]) = h
              /\ Faithful(i) => clients[i].cons[h] \in Names(clients[i].type)
        /\ (clients[i].type = Lens /\ clients[i].l1 \in DOMAIN clients) =>
              clients[clients[i].l1].type # Lens

\* A step that leaves a client as it was, and does not undo a fork, keeps it
\* genuine.
LEMMA KeptGenuine ==
    ASSUME Genuine, NEW i \in DOMAIN clients, i \in DOMAIN clients',
           clients'[i].type = clients[i].type, clients'[i].l1 = clients[i].l1,
           clients'[i].cons = clients[i].cons,
           Followed(i) \in DOMAIN clients =>
               /\ Followed(i) \in DOMAIN clients'
               /\ past[Followed(i)].forked => past'[Followed(i)].forked,
           NEW h \in DOMAIN clients'[i].cons
    PROVE  /\ Height(clients'[i].type, clients'[i].cons[h]) = h
           /\ Faithful(i)' => clients'[i].cons[h] \in Names(clients'[i].type)
<1>1. Followed(i)' = Followed(i)
  BY DEF Followed
<1>2. Faithful(i)' => Faithful(i)
  BY <1>1 DEF Faithful
<1>3. /\ Height(clients[i].type, clients[i].cons[h]) = h
      /\ Faithful(i) => clients[i].cons[h] \in Names(clients[i].type)
  BY DEF Genuine
<1> QED BY <1>2, <1>3

\* The consensus states of a new client are of its chain.
LEMMA NewGenuine ==
    ASSUME NEW type \in ClientTypes, NEW name \in Names(type), NEW l1 \in L1Names,
           NEW c, c = NewLightClient(type, name, Height(type, name), l1),
           NEW h \in DOMAIN c.cons
    PROVE  Height(c.type, c.cons[h]) = h /\ c.cons[h] \in Names(c.type)
<1>1. /\ c.type = type /\ c.latest = Height(type, name)
      /\ DOMAIN c.cons = {c.latest} /\ c.cons[c.latest] = name
  BY NewClient
<1> QED BY <1>1

\* A state that a lens accepts through a faithful L1 client is one of L2.
LEMMA LensGenuine ==
    ASSUME TriesSound, Genuine, NEW i \in DOMAIN clients, clients[i].type = Lens,
           NEW header \in LensHeaders, LensVerifyHeader(clients[i], header), Faithful(i)
    PROVE  header.block \in Names(Lens)
<1> DEFINE j == clients[i].l1
           b == clients[j].cons[header.l1Height]
<1>1. /\ j \in DOMAIN clients /\ header.l1Height \in DOMAIN clients[j].cons
      /\ ConsensusProven[b, header.proof, header.block]
  BY DEF LensVerifyHeader, prepareProof, hasConsensusState
<1>2. clients[j].type # Lens
  BY <1>1 DEF Genuine
<1>3. Faithful(j)
  BY <1>1, <1>2 DEF Faithful, Followed
<1>4. b \in Names(clients[j].type)
  BY <1>1, <1>3 DEF Genuine
<1>5. b \in Real \cap DOMAIN Blocks
  BY <1>2, <1>4 DEF Names
<1>6. header.proof \in DOMAIN Blocks /\ header.block \in DOMAIN L2Blocks
  BY DEF LensHeaders
<1> HIDE DEF b
<1>7. header.block \in Real
  BY <1>1, <1>5, <1>6 DEF TriesSound
<1> QED BY <1>6, <1>7 DEF Names

\* The client that an update is of.
LEMMA UpdateGenuine ==
    ASSUME TriesSound, Shape, Genuine, NEW i \in DOMAIN clients,
           NEW header \in Headers(clients[i].type), UpdateClient(i, header),
           NEW g \in DOMAIN clients'[i].cons
    PROVE  /\ clients'[i].type = clients[i].type /\ clients'[i].l1 = clients[i].l1
           /\ Height(clients'[i].type, clients'[i].cons[g]) = g
           /\ Faithful(i)' => clients'[i].cons[g] \in Names(clients'[i].type)
<1> DEFINE c == clients[i]
           n == clients'[i]
           h == Height(c.type, header.block)
<1>1. /\ h \in Nat /\ header.block \in BlockNames
      /\ n = c \/ n = updateState(c, h, header.block)
      /\ past'[i].forked = (past[i].forked \/ (c.type # Lens /\ n.cons[h] \notin Real))
      /\ OthersKept(i)
  BY UpdateEffect
<1>2. c \in LightClient
  BY Members
<1>3. n.type = c.type /\ n.l1 = c.l1
  BY <1>1, <1>2 DEF updateState, LightClient
<1>4. Followed(i)' = Followed(i) /\ DOMAIN clients' = DOMAIN clients
  BY <1>1, <1>3 DEF Followed, OthersKept
<1>5. ASSUME Followed(i) \in DOMAIN clients, past[Followed(i)].forked
      PROVE  past'[Followed(i)].forked
  BY <1>1, <1>5 DEF OthersKept
<1>6. CASE n = c
  <2>1. n.cons = c.cons
    BY <1>6
  <2> QED BY <1>3, <1>4, <1>5, <2>1, KeptGenuine
<1>7. CASE n = updateState(c, h, header.block)
  <2>1. n.cons = Put(c.cons, h, header.block)
    BY <1>2, <1>7 DEF updateState, LightClient
  <2>2. /\ DOMAIN n.cons = DOMAIN c.cons \cup {h}
        /\ n.cons[h] = header.block
        /\ \A k \in DOMAIN c.cons : k # h => n.cons[k] = c.cons[k]
    <3> HIDE DEF c, n, h
    <3> QED BY <2>1 DEF Put
  <2>3. Faithful(i)' => Faithful(i)
    BY <1>4, <1>5 DEF Faithful
  <2>4. CASE g # h
    <3>1. g \in DOMAIN c.cons /\ n.cons[g] = c.cons[g]
      BY <2>2, <2>4
    <3>2. Height(c.type, c.cons[g]) = g /\ (Faithful(i) => c.cons[g] \in Names(c.type))
      BY <3>1 DEF Genuine
    <3> QED BY <1>3, <2>3, <3>1, <3>2
  <2>5. CASE g = h
    <3>1. Height(n.type, n.cons[g]) = g
      BY <1>3, <2>2, <2>5
    <3>2. ASSUME Faithful(i)', c.type = Lens
          PROVE  n.cons[g] \in Names(n.type)
      <4>1. header \in LensHeaders /\ LensVerifyHeader(c, header)
        BY <3>2 DEF Headers, UpdateClient
      <4>2. header.block \in Names(Lens)
        BY <2>3, <3>2, <4>1, LensGenuine
      <4> QED BY <1>3, <2>2, <2>5, <3>2, <4>2
    <3>3. ASSUME Faithful(i)', c.type # Lens
          PROVE  n.cons[g] \in Names(n.type)
      <4>1. Followed(i) = i
        BY <3>3 DEF Followed
      <4>2. ~past'[i].forked
        BY <1>4, <3>3, <4>1 DEF Faithful
      <4>3. n.cons[h] \in Real
        BY <1>1, <3>3, <4>2
      <4>4. header.block \in DOMAIN Blocks
        BY <3>3 DEF Headers, CometblsHeaders
      <4> QED BY <1>3, <2>2, <2>5, <3>3, <4>3, <4>4 DEF Names
    <3> QED BY <1>3, <3>1, <3>2, <3>3
  <2> QED BY <2>4, <2>5
<1> QED BY <1>1, <1>6, <1>7

\* The types and the L1 clients of existing clients never change.
LEMMA KindsKept ==
    ASSUME Genuine, DOMAIN clients' = DOMAIN clients,
           \A j \in DOMAIN clients : /\ clients'[j].type = clients[j].type
                                     /\ clients'[j].l1 = clients[j].l1,
           \A i \in DOMAIN clients' : \A h \in DOMAIN clients'[i].cons :
              /\ Height(clients'[i].type, clients'[i].cons[h]) = h
              /\ Faithful(i)' => clients'[i].cons[h] \in Names(clients'[i].type)
    PROVE  Genuine'
<1>1. ASSUME NEW i \in DOMAIN clients', clients'[i].type = Lens,
             clients'[i].l1 \in DOMAIN clients'
      PROVE  clients'[clients'[i].l1].type # Lens
  BY <1>1 DEF Genuine
<1> QED BY <1>1 DEF Genuine

\* A step that changes one client and undoes no fork.
LEMMA OneGenuine ==
    ASSUME Shape, Genuine, NEW i \in DOMAIN clients, OthersKept(i),
           clients'[i].type = clients[i].type, clients'[i].l1 = clients[i].l1,
           past[i].forked => past'[i].forked,
           \A h \in DOMAIN clients'[i].cons :
              /\ Height(clients'[i].type, clients'[i].cons[h]) = h
              /\ Faithful(i)' => clients'[i].cons[h] \in Names(clients'[i].type)
    PROVE  Genuine'
<1>1. /\ DOMAIN clients' = DOMAIN clients
      /\ \A j \in DOMAIN clients : /\ clients'[j].type = clients[j].type
                                   /\ clients'[j].l1 = clients[j].l1
  BY DEF OthersKept
<1>2. ASSUME NEW j \in DOMAIN clients', NEW h \in DOMAIN clients'[j].cons
      PROVE  /\ Height(clients'[j].type, clients'[j].cons[h]) = h
             /\ Faithful(j)' => clients'[j].cons[h] \in Names(clients'[j].type)
  <2>1. CASE j = i
    BY <1>2, <2>1
  <2>2. CASE j # i
    <3>1. j \in DOMAIN clients /\ clients'[j] = clients[j]
      BY <1>1, <1>2, <2>2 DEF OthersKept
    <3>2. Followed(j) \in DOMAIN clients =>
             (past[Followed(j)].forked => past'[Followed(j)].forked)
      BY DEF OthersKept
    <3> QED BY <1>1, <1>2, <3>1, <3>2, KeptGenuine
  <2> QED BY <2>1, <2>2
<1> QED BY <1>1, <1>2, KindsKept

LEMMA GenuineStep ==
    ASSUME TriesSound, Shape, Genuine, [Next]_vars
    PROVE  Genuine'
<1>1. CASE UNCHANGED <<clients, past>>
  BY <1>1 DEF Genuine, Faithful, Followed
<1>2. CASE UNCHANGED vars
  BY <1>1, <1>2 DEF vars
<1>3. CASE Tick
  BY <1>1, <1>3 DEF Tick
<1>4. ASSUME NEW type \in ClientTypes, RegisterClient(type)
      PROVE  Genuine'
  BY <1>1, <1>4 DEF RegisterClient
<1>5. ASSUME NEW type \in ClientTypes, NEW name \in Names(type), NEW l1 \in L1Ids(type),
             Awaited => type # Lens, CreateClient(type, name, l1)
      PROVE  Genuine'
  <2> DEFINE k == Len(clients) + 1
  <2>1. /\ DOMAIN clients' = DOMAIN clients \cup {k}
        /\ \A j \in DOMAIN clients : /\ j # k
                                     /\ clients'[j] = clients[j]
                                     /\ past'[j] = past[j]
        /\ l1 \in L1Names
        /\ clients'[k] = NewLightClient(type, name, Height(type, name), l1)
    BY <1>5, CreateEffect
  <2>2. clients'[k].type = type /\ clients'[k].l1 = l1
    <3> HIDE DEF k
    <3> QED BY <2>1, NewClient
  <2>3. ASSUME NEW j \in DOMAIN clients', NEW h \in DOMAIN clients'[j].cons
        PROVE  /\ Height(clients'[j].type, clients'[j].cons[h]) = h
               /\ Faithful(j)' => clients'[j].cons[h] \in Names(clients'[j].type)
    <3>1. CASE j = k
      BY <2>1, <2>3, <3>1, NewGenuine
    <3>2. CASE j # k
      <4>1. j \in DOMAIN clients /\ clients'[j] = clients[j]
        BY <2>1, <2>3, <3>2
      <4>2. Followed(j) \in DOMAIN clients =>
               /\ Followed(j) \in DOMAIN clients'
               /\ past[Followed(j)].forked => past'[Followed(j)].forked
        BY <2>1
      <4> QED BY <2>3, <4>1, <4>2, KeptGenuine
    <3> QED BY <3>1, <3>2
  <2>4. ASSUME NEW j \in DOMAIN clients', clients'[j].type = Lens,
               clients'[j].l1 \in DOMAIN clients'
        PROVE  clients'[clients'[j].l1].type # Lens
    <3>1. CASE j = k
      <4>1. l1 \in DOMAIN clients /\ clients[l1].type # Lens
        <5>1. l1 # k /\ (l1 \in DOMAIN clients => clients[l1].type # Lens)
          BY <2>2, <2>4, <3>1 DEF L1Ids
        <5> QED BY <2>1, <2>2, <2>4, <3>1, <5>1
      <4> QED BY <2>1, <2>2, <3>1, <4>1
    <3>2. CASE j # k /\ clients'[j].l1 # k
      BY <2>1, <2>4, <3>2 DEF Genuine
    <3>3. CASE j # k /\ clients'[j].l1 = k
      <4>1. Awaited
        BY <2>1, <3>3 DEF Awaited
      <4> QED BY <1>5, <2>2, <3>3, <4>1
    <3> QED BY <3>1, <3>2, <3>3
  <2> QED BY <2>3, <2>4 DEF Genuine
<1>6. ASSUME NEW i \in DOMAIN clients, NEW header \in Headers(clients[i].type),
             UpdateClient(i, header)
      PROVE  Genuine'
  <2>1. /\ OthersKept(i)
        /\ past[i].forked => past'[i].forked
    BY <1>6, UpdateEffect
  <2>2. \A h \in DOMAIN clients'[i].cons :
           /\ clients'[i].type = clients[i].type /\ clients'[i].l1 = clients[i].l1
           /\ Height(clients'[i].type, clients'[i].cons[h]) = h
           /\ Faithful(i)' => clients'[i].cons[h] \in Names(clients'[i].type)
    BY <1>6, UpdateGenuine
  <2>3. clients'[i].type = clients[i].type /\ clients'[i].l1 = clients[i].l1
    <3>1. PICK n : /\ clients'[i] = n
                   /\ n = clients[i] \/ n = updateState(clients[i],
                         Height(clients[i].type, header.block), header.block)
      BY <1>6, UpdateEffect
    <3>2. clients[i] \in LightClient
      BY Members
    <3> QED BY <3>1, <3>2 DEF updateState, LightClient
  <2> QED BY <2>1, <2>2, <2>3, OneGenuine
<1>7. ASSUME NEW i \in DOMAIN clients, NEW name \in Names(clients[i].type),
             ForceUpdateClient(i, name)
      PROVE  Genuine'
  <2>1. /\ OthersKept(i)
        /\ clients'[i] = NewLightClient(clients[i].type, name,
                                        Height(clients[i].type, name), clients[i].l1)
        /\ past'[i].forked = past[i].forked
    BY <1>7, ForceEffect
  <2>2. clients[i].type \in ClientTypes /\ clients[i].l1 \in L1Names
    BY Members, StateType
  <2>3. clients'[i].type = clients[i].type /\ clients'[i].l1 = clients[i].l1
    BY <2>1, <2>2, NewClient
  <2>4. \A h \in DOMAIN clients'[i].cons :
           /\ Height(clients'[i].type, clients'[i].cons[h]) = h
           /\ clients'[i].cons[h] \in Names(clients'[i].type)
    BY <2>1, <2>2, NewGenuine
  <2> QED BY <2>1, <2>3, <2>4, OneGenuine
<1>8. ASSUME NEW i \in DOMAIN clients, NEW a, NEW b, Misbehaviour(i, a, b)
      PROVE  Genuine'
  <2>1. /\ OthersKept(i)
        /\ clients'[i].type = clients[i].type /\ clients'[i].l1 = clients[i].l1
        /\ clients'[i].cons = clients[i].cons
        /\ past'[i] = past[i]
    BY <1>8, FreezeEffect
  <2>2. /\ i \in DOMAIN clients'
        /\ Followed(i) \in DOMAIN clients =>
              /\ Followed(i) \in DOMAIN clients'
              /\ past[Followed(i)].forked => past'[Followed(i)].forked
    BY <2>1 DEF OthersKept
  <2>3. \A h \in DOMAIN clients'[i].cons :
           /\ Height(clients'[i].type, clients'[i].cons[h]) = h
           /\ Faithful(i)' => clients'[i].cons[h] \in Names(clients'[i].type)
    BY <2>1, <2>2, KeptGenuine
  <2> QED BY <2>1, <2>3, OneGenuine
<1> QED BY <1>2, <1>3, <1>4, <1>5, <1>6, <1>7, <1>8 DEF Next

\* Where the proofs of the two chains' own blocks prove only what is so, all a
\* client accepts is so at the height it is accepted for, as long as the client
\* or its L1 client accepted no header beside the chain: updates, a late L1
\* client, replacements and freezing bring in no other state.
THEOREM ProofsAlwaysSound ==
    ASSUME TriesSound
    PROVE  Spec => []ProofsSound
<1>1. Init => Shape /\ StoredFollows /\ Genuine
  BY FollowsInit DEF Init, Genuine
<1>2. Shape /\ StoredFollows /\ Genuine /\ [Next]_vars
      => (Shape /\ StoredFollows /\ Genuine)'
  BY FollowsStep, GenuineStep
<1>3. Shape /\ Genuine => ProofsSound
  <2> SUFFICES ASSUME Shape, Genuine PROVE ProofsSound
    OBVIOUS
  <2> SUFFICES ASSUME NEW i \in DOMAIN clients,
                      Followed(i) \in DOMAIN clients => ~past[Followed(i)].forked,
                      NEW h \in DOMAIN clients[i].cons
               PROVE  /\ Height(clients[i].type, clients[i].cons[h]) = h
                      /\ clients[i].type = Lens => TrueOfL2[clients[i].cons[h]]
                      /\ clients[i].type # Lens => TrueOfL1[clients[i].cons[h]]
    BY DEF ProofsSound
  <2>1. Faithful(i)
    BY DEF Faithful
  <2>2. /\ Height(clients[i].type, clients[i].cons[h]) = h
        /\ clients[i].cons[h] \in Names(clients[i].type)
    BY <2>1 DEF Genuine
  <2> QED BY <2>2 DEF Names, TriesSound
<1> QED BY <1>1, <1>2, <1>3, PTL DEF Spec

==============================================================================
