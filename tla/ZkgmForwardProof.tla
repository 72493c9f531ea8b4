--------------------------- MODULE ZkgmForwardProof ---------------------------
(***************************************************************************)
(* Forwarding, proved for any chains, channels, contracts and instructions *)
(* and any number of packets.                                              *)
(***************************************************************************)
EXTENDS ZkgmForward, SumTheorems

Salts == [sender : Senders, salt : {"salt"}, hashed : Nat]

IsPacket(p) ==
    p.chain \in Chains /\ p.channel \in DOMAIN Channels[p.chain] /\ p.salt \in Salts

IsEntry(e) ==
    /\ e = [outcome |-> e.outcome, got |-> e.got, ack |-> e.ack]
    /\ e.outcome \in {"unsent", "sent", "acked", "timedOut"}
    /\ e.got \in BOOLEAN

\* What the core promises of one packet.
Possible(e) ==
    /\ e.outcome = "acked" => e.ack # <<>>
    /\ e.outcome = "timedOut" => ~e.got
    /\ ~e.got => e.ack = <<>>

Packets ==
    \A p \in DOMAIN net : IsPacket(p) /\ IsEntry(net[p]) /\ Possible(net[p])

\* A child and its parent: the parent was received, and it is answered exactly
\* when the child is settled.  It has no other child.
Families ==
    \A q \in DOMAIN lineage :
        /\ q \in DOMAIN net /\ net[q].outcome # "unsent"
        /\ lineage[q] \in DOMAIN net
        /\ net[lineage[q]].outcome # "unsent" /\ net[lineage[q]].got
        /\ q.salt.hashed = lineage[q].salt.hashed + 1
        /\ net[lineage[q]].ack = <<>> <=> net[q].outcome = "sent"
        /\ \A r \in DOMAIN lineage : lineage[r] = lineage[q] => r = q

\* Only parents are without an answer.
ParentsOnly ==
    \A p \in DOMAIN net :
        net[p].got /\ net[p].ack = <<>> => \E q \in DOMAIN lineage : lineage[q] = p

\* The tables.
Waiting ==
    /\ inflight = [c \in Chains |-> inflight[c]]
    /\ \A c \in Chains :
          /\ DOMAIN inflight[c] = {q \in DOMAIN lineage : q.chain = c /\ net[q].outcome = "sent"}
          /\ \A q \in DOMAIN inflight[c] : inflight[c][q] = lineage[q]

WaitInv == Packets /\ Families /\ ParentsOnly /\ Waiting

-----------------------------------------------------------------------------
(* What the core's operations do.                                          *)

\* A record with one field replaced.
LEMMA Fields ==
    \A o, g, a, x :
        LET e == [outcome |-> o, got |-> g, ack |-> a]
        IN /\ [e EXCEPT !.outcome = x] = [outcome |-> x, got |-> g, ack |-> a]
           /\ [e EXCEPT !.ack = x] = [outcome |-> o, got |-> g, ack |-> x]
           /\ \A y : [e EXCEPT !.got = y, !.ack = x] = [outcome |-> o, got |-> y, ack |-> x]
<1> TAKE o, g, a, x
<1> DEFINE e == [outcome |-> o, got |-> g, ack |-> a]
<1>1. [e EXCEPT !.outcome = x] = [outcome |-> x, got |-> g, ack |-> a]
  OBVIOUS
<1>2. [e EXCEPT !.ack = x] = [outcome |-> o, got |-> g, ack |-> x]
  OBVIOUS
<1>3. \A y : [e EXCEPT !.got = y, !.ack = x] = [outcome |-> o, got |-> y, ack |-> x]
  <2> TAKE y
  <2> DEFINE f == [e EXCEPT !.got = y, !.ack = x]
  <2>1. f \in [outcome : {o}, got : {g, y}, ack : {a, x}]
    OBVIOUS
  <2>2. f.outcome = o /\ f.got = y /\ f.ack = x
    OBVIOUS
  <2> HIDE DEF f
  <2>3. f = [outcome |-> o, got |-> y, ack |-> x]
    BY <2>1, <2>2
  <2> QED BY <2>3 DEF f
<1> QED BY <1>1, <1>2, <1>3

LEMMA OutcomeField ==
    ASSUME NEW e, IsEntry(e), NEW o \in {"unsent", "sent", "acked", "timedOut"},
           NEW f, f = [e EXCEPT !.outcome = o]
    PROVE  IsEntry(f) /\ f.outcome = o /\ f.got = e.got /\ f.ack = e.ack
<1>1. f = [outcome |-> o, got |-> e.got, ack |-> e.ack]
  BY Fields DEF IsEntry
<1> QED BY <1>1 DEF IsEntry

\* A packet that is not known is unsent.
LEMMA KnownEntry ==
    ASSUME NEW n, NEW p, p \in DOMAIN n => IsEntry(n[p])
    PROVE  /\ IsEntry(Known(n, p))
           /\ p \in DOMAIN n => Known(n, p) = n[p]
           /\ p \notin DOMAIN n => Known(n, p) = Unsent
BY DEF Known, Unsent, IsEntry

\* m is n but for packet p.
Only(n, m, p) ==
    /\ DOMAIN m = DOMAIN n \cup {p}
    /\ \A x \in DOMAIN n : x # p => m[x] = n[x]

LEMMA SendEffect ==
    ASSUME NEW n, NEW p, p \in DOMAIN n => IsEntry(n[p]), NEW m, m = SendPacket(n, p)
    PROVE  /\ Only(n, m, p)
           /\ IsEntry(m[p]) /\ m[p].outcome = "sent"
           /\ m[p].got = Known(n, p).got /\ m[p].ack = Known(n, p).ack
<1>1. PICK f : f = [Known(n, p) EXCEPT !.outcome = "sent"]
  OBVIOUS
<1>2. /\ IsEntry(f) /\ f.outcome = "sent"
      /\ f.got = Known(n, p).got /\ f.ack = Known(n, p).ack
  BY <1>1, KnownEntry, OutcomeField
<1>3. m = Put(n, p, f)
  BY <1>1 DEF SendPacket
<1>4. m[p] = f /\ Only(n, m, p)
  BY <1>3 DEF Put, Only
<1> QED BY <1>2, <1>4

LEMMA ReceiptEffect ==
    ASSUME NEW n, NEW p, p \in DOMAIN n => IsEntry(n[p]), NEW acks,
           NEW m, m = RecordReceipt(n, p, acks)
    PROVE  /\ Only(n, m, p)
           /\ IsEntry(m[p]) /\ m[p].got /\ m[p].ack = acks
           /\ m[p].outcome = Known(n, p).outcome
<1>1. PICK f : f = [Known(n, p) EXCEPT !.got = TRUE, !.ack = acks]
  OBVIOUS
<1>2. IsEntry(f) /\ f.got /\ f.ack = acks /\ f.outcome = Known(n, p).outcome
  <2>1. PICK k : k = Known(n, p)
    OBVIOUS
  <2>2. IsEntry(k)
    BY <2>1, KnownEntry
  <2>3. PICK g \in BOOLEAN : g = TRUE
    OBVIOUS
  <2>4. f = [k EXCEPT !.got = g, !.ack = acks]
    BY <1>1, <2>1, <2>3, Zenon
  <2>5. IsEntry(f) /\ f.outcome = k.outcome /\ f.got = g /\ f.ack = acks
    <3>1. k = [outcome |-> k.outcome, got |-> k.got, ack |-> k.ack]
      BY <2>2 DEF IsEntry
    <3>2. PICK o, h, a : o = k.outcome /\ h = k.got /\ a = k.ack
      OBVIOUS
    <3>3. k = [outcome |-> o, got |-> h, ack |-> a]
      BY <3>1, <3>2
    <3>4. f = [outcome |-> o, got |-> g, ack |-> acks]
      BY <2>4, <3>3, Fields
    <3> QED BY <2>2, <3>2, <3>4 DEF IsEntry
  <2> QED BY <2>1, <2>3, <2>5
<1>3. m = Put(n, p, f)
  BY <1>1 DEF RecordReceipt
<1>4. m[p] = f /\ Only(n, m, p)
  BY <1>3 DEF Put, Only
<1> QED BY <1>2, <1>4

-----------------------------------------------------------------------------
(* Parents wait for their children.                                        *)

\* A packet that was not received has no child.
LEMMA NoChildYet ==
    ASSUME Families, NEW p, p \in DOMAIN net => ~net[p].got
    PROVE  \A q \in DOMAIN lineage : lineage[q] # p
BY DEF Families

\* One packet is sent, received with an answer, or settled, and no child is.
OneStep(p) ==
    LET k == Known(net, p)
        e == net'[p]
    IN /\ UNCHANGED <<inflight, lineage, ends>>
       /\ Only(net, net', p) /\ IsPacket(p) /\ IsEntry(e) /\ Possible(e)
       /\ k.outcome # "unsent" => e.outcome # "unsent"
       /\ k.got => e.got /\ e.ack = k.ack
       /\ p \in DOMAIN lineage => e.outcome = k.outcome
       /\ e.got /\ e.ack = <<>> => k.got /\ k.ack = <<>>

LEMMA OneWaits ==
    ASSUME WaitInv, NEW p, OneStep(p)
    PROVE  WaitInv'
<1> DEFINE k == Known(net, p)
           e == net'[p]
<1>0. /\ UNCHANGED <<inflight, lineage>>
      /\ Only(net, net', p) /\ IsPacket(p) /\ IsEntry(e) /\ Possible(e)
      /\ k.outcome # "unsent" => e.outcome # "unsent"
      /\ k.got => e.got /\ e.ack = k.ack
      /\ p \in DOMAIN lineage => e.outcome = k.outcome
      /\ e.got /\ e.ack = <<>> => k.got /\ k.ack = <<>>
  BY DEF OneStep
<1> USE <1>0
<1> USE DEF WaitInv
<1>1. /\ DOMAIN net' = DOMAIN net \cup {p}
      /\ \A x \in DOMAIN net : x # p => net'[x] = net[x]
      /\ lineage' = lineage /\ inflight' = inflight
  BY DEF Only
<1>2. p \in DOMAIN net => k = net[p]
  BY DEF Known
<1>3. p \notin DOMAIN net => ~k.got /\ k.outcome = "unsent"
  BY DEF Known, Unsent
<1>4. Packets'
  BY <1>1 DEF Packets
<1>5. Families'
  <2> SUFFICES ASSUME NEW q \in DOMAIN lineage
               PROVE  /\ q \in DOMAIN net' /\ net'[q].outcome # "unsent"
                      /\ lineage[q] \in DOMAIN net'
                      /\ net'[lineage[q]].outcome # "unsent" /\ net'[lineage[q]].got
                      /\ net'[lineage[q]].ack = <<>> <=> net'[q].outcome = "sent"
    BY <1>1 DEF Families
  <2>1. /\ q \in DOMAIN net /\ net[q].outcome # "unsent"
        /\ lineage[q] \in DOMAIN net
        /\ net[lineage[q]].outcome # "unsent" /\ net[lineage[q]].got
        /\ net[lineage[q]].ack = <<>> <=> net[q].outcome = "sent"
    BY DEF Families
  <2>2. net'[q].outcome = net[q].outcome
    BY <1>1, <1>2, <2>1
  <2>3. /\ net'[lineage[q]].outcome # "unsent" /\ net'[lineage[q]].got
        /\ net'[lineage[q]].ack = net[lineage[q]].ack
    <3>1. CASE lineage[q] = p
      BY <1>2, <2>1, <3>1
    <3>2. CASE lineage[q] # p
      BY <1>1, <2>1, <3>2
    <3> QED BY <3>1, <3>2
  <2> QED BY <1>1, <2>1, <2>2, <2>3
<1>6. ParentsOnly'
  <2> SUFFICES ASSUME NEW x \in DOMAIN net', net'[x].got, net'[x].ack = <<>>
               PROVE  \E q \in DOMAIN lineage : lineage[q] = x
    BY <1>1 DEF ParentsOnly
  <2>1. x \in DOMAIN net /\ net[x].got /\ net[x].ack = <<>>
    <3>1. CASE x = p
      BY <1>2, <1>3, <3>1
    <3>2. CASE x # p
      BY <1>1, <3>2
    <3> QED BY <3>1, <3>2
  <2> QED BY <2>1 DEF ParentsOnly
<1>7. Waiting'
  <2>1. \A q \in DOMAIN lineage : net'[q].outcome = net[q].outcome
    BY <1>1, <1>2 DEF Families
  <2> QED BY <1>1, <2>1 DEF Waiting
<1> QED BY <1>4, <1>5, <1>6, <1>7

\* A parent is received and its child sent.
ForwardStep(p, q) ==
    /\ p \in DOMAIN net /\ net[p].outcome = "sent" /\ ~net[p].got
    /\ Known(net, q).outcome = "unsent" /\ IsPacket(q)
    /\ q = buildForwardChild(p) /\ q # NoPacket
    /\ q.salt.hashed = p.salt.hashed + 1
    /\ DOMAIN net' = DOMAIN net \cup {q}
    /\ \A x \in DOMAIN net : x # p /\ x # q => net'[x] = net[x]
    /\ IsEntry(net'[p]) /\ net'[p].outcome = "sent" /\ net'[p].got /\ net'[p].ack = <<>>
    /\ IsEntry(net'[q]) /\ net'[q].outcome = "sent"
    /\ net'[q].got = Known(net, q).got /\ net'[q].ack = Known(net, q).ack
    /\ Descend(p, q)
    /\ inflight' = [inflight EXCEPT ![q.chain] = Put(@, q, p)]
    /\ UNCHANGED ran

LEMMA ForwardWaits ==
    ASSUME WaitInv, NEW p, NEW q, ForwardStep(p, q)
    PROVE  WaitInv'
<1> USE DEF WaitInv, ForwardStep
<1>1. p.salt.hashed \in Nat
  BY DEF Packets, IsPacket, Salts
<1>2. p # q
  BY <1>1
<1>3. /\ DOMAIN net' = DOMAIN net \cup {q}
      /\ \A x \in DOMAIN net : x # p /\ x # q => net'[x] = net[x]
      /\ net'[p].outcome = "sent" /\ net'[p].got /\ net'[p].ack = <<>>
      /\ IsEntry(net'[p])
  OBVIOUS
<1>4. net'[q].got = Known(net, q).got /\ net'[q].ack = Known(net, q).ack
  OBVIOUS
<1>5. q \notin DOMAIN lineage
  BY DEF Families, Known
<1>6. \A r \in DOMAIN lineage : lineage[r] # p /\ lineage[r] # q
  BY DEF Families, Known
<1>7. /\ DOMAIN lineage' = DOMAIN lineage \cup {q} /\ lineage'[q] = p
      /\ \A r \in DOMAIN lineage : lineage'[r] = lineage[r]
  BY <1>5 DEF Put, Descend
<1>8. Packets'
  <2>1. Possible(net'[q])
    BY <1>3, <1>4 DEF Packets, Possible, Known, Unsent
  <2>2. Possible(net'[p])
    BY <1>3 DEF Possible
  <2> QED BY <1>3, <2>1, <2>2 DEF Packets
<1>9. Families'
  <2> SUFFICES ASSUME NEW r \in DOMAIN lineage'
               PROVE  /\ r \in DOMAIN net' /\ net'[r].outcome # "unsent"
                      /\ lineage'[r] \in DOMAIN net'
                      /\ net'[lineage'[r]].outcome # "unsent" /\ net'[lineage'[r]].got
                      /\ r.salt.hashed = lineage'[r].salt.hashed + 1
                      /\ net'[lineage'[r]].ack = <<>> <=> net'[r].outcome = "sent"
                      /\ \A s \in DOMAIN lineage' : lineage'[s] = lineage'[r] => s = r
    BY DEF Families
  <2>1. CASE r = q
    BY <1>3, <1>6, <1>7, <2>1
  <2>2. CASE r # q
    <3>1. r \in DOMAIN lineage /\ lineage'[r] = lineage[r] /\ lineage[r] # p /\ lineage[r] # q
      BY <1>6, <1>7, <2>2
    <3>2. net'[lineage[r]] = net[lineage[r]] /\ lineage[r] \in DOMAIN net
      BY <1>3, <3>1 DEF Families
    <3>3. r \in DOMAIN net /\ net'[r].outcome = net[r].outcome
      BY <1>3, <2>2, <3>1 DEF Families
    <3> QED BY <1>3, <1>6, <1>7, <3>1, <3>2, <3>3 DEF Families
  <2> QED BY <2>1, <2>2
<1>10. ParentsOnly'
  <2> SUFFICES ASSUME NEW x \in DOMAIN net', net'[x].got, net'[x].ack = <<>>
               PROVE  \E r \in DOMAIN lineage' : lineage'[r] = x
    BY DEF ParentsOnly
  <2>1. CASE x = p
    BY <1>7, <2>1
  <2>2. CASE x # p
    <3>1. x \in DOMAIN net /\ net[x].got /\ net[x].ack = <<>>
      <4>1. CASE x = q
        <5>1. Known(net, q).got /\ Known(net, q).ack = <<>>
          BY <1>4, <4>1
        <5>2. q \in DOMAIN net
          BY <5>1 DEF Known, Unsent
        <5> QED BY <4>1, <5>1, <5>2 DEF Known
      <4>2. CASE x # q
        BY <1>3, <2>2, <4>2
      <4> QED BY <4>1, <4>2
    <3> QED BY <1>7, <3>1 DEF ParentsOnly
  <2> QED BY <2>1, <2>2
<1>11. Waiting'
  <2>1. q.chain \in Chains
    BY DEF IsPacket
  <2>2. /\ inflight' = [c \in Chains |-> inflight'[c]]
        /\ \A c \in Chains : c # q.chain => inflight'[c] = inflight[c]
        /\ inflight'[q.chain] = Put(inflight[q.chain], q, p)
    BY <2>1 DEF Waiting
  <2>3. \A r \in DOMAIN lineage : net'[r].outcome = net[r].outcome
    BY <1>3, <1>5 DEF Families
  <2>4. ASSUME NEW c \in Chains
        PROVE  /\ DOMAIN inflight'[c] = {r \in DOMAIN lineage' : r.chain = c
                                                        /\ net'[r].outcome = "sent"}
               /\ \A r \in DOMAIN inflight'[c] : inflight'[c][r] = lineage'[r]
    <3>1. /\ DOMAIN inflight[c] = {r \in DOMAIN lineage : r.chain = c
                                                       /\ net[r].outcome = "sent"}
          /\ \A r \in DOMAIN inflight[c] : inflight[c][r] = lineage[r]
      BY DEF Waiting
    <3>2. CASE c # q.chain
      BY <1>7, <2>2, <2>3, <3>1, <3>2
    <3>3. CASE c = q.chain
      <4>1. /\ DOMAIN inflight'[c] = DOMAIN inflight[c] \cup {q}
            /\ \A r \in DOMAIN inflight'[c] :
                  inflight'[c][r] = IF r = q THEN p ELSE inflight[c][r]
        BY <2>2, <3>3 DEF Put
      <4> QED BY <1>5, <1>7, <2>3, <3>1, <3>3, <4>1
    <3> QED BY <3>2, <3>3
  <2> QED BY <2>2, <2>4 DEF Waiting
<1> QED BY <1>8, <1>9, <1>10, <1>11

\* A child is settled and its parent answered.
AnswerStep(q, p, ack) ==
    /\ q \in DOMAIN lineage /\ p = lineage[q] /\ net[q].outcome = "sent"
    /\ DOMAIN net' = DOMAIN net
    /\ \A x \in DOMAIN net : x # p /\ x # q => net'[x] = net[x]
    /\ IsEntry(net'[q]) /\ Possible(net'[q]) /\ net'[q].outcome \in {"acked", "timedOut"}
    /\ net'[q].got = net[q].got /\ net'[q].ack = net[q].ack
    /\ IsEntry(net'[p]) /\ net'[p].ack = <<ack>>
    /\ net'[p].got = net[p].got /\ net'[p].outcome = net[p].outcome
    /\ net'[q].outcome = "acked" => ack = net[q].ack[1]
    /\ net'[q].outcome = "timedOut" => ~net[q].got /\ ack = universalErrorAck
    /\ inflight' = [inflight EXCEPT ![q.chain] = [r \in DOMAIN @ \ {q} |-> @[r]]]
    /\ UNCHANGED <<lineage, ends, ran>>

LEMMA AnswerWaits ==
    ASSUME WaitInv, NEW q, NEW p, NEW ack, AnswerStep(q, p, ack)
    PROVE  WaitInv'
<1> USE DEF WaitInv, AnswerStep
<1>1. /\ q \in DOMAIN net /\ p \in DOMAIN net /\ p # q
      /\ net[p].outcome # "unsent" /\ net[p].got
      /\ \A r \in DOMAIN lineage : lineage[r] = p => r = q
  BY DEF Families, Packets, IsPacket, Salts
<1>2. /\ DOMAIN net' = DOMAIN net
      /\ \A x \in DOMAIN net : x # p /\ x # q => net'[x] = net[x]
  OBVIOUS
<1>3. /\ net'[p].got = net[p].got /\ net'[p].outcome = net[p].outcome
      /\ net'[p].ack # <<>>
  OBVIOUS
<1>4. Packets'
  <2>1. Possible(net'[p])
    BY <1>1, <1>3 DEF Packets, Possible
  <2> QED BY <1>1, <1>2, <2>1 DEF Packets
<1>5. Families'
  <2> SUFFICES ASSUME NEW r \in DOMAIN lineage
               PROVE  /\ r \in DOMAIN net' /\ net'[r].outcome # "unsent"
                      /\ lineage[r] \in DOMAIN net'
                      /\ net'[lineage[r]].outcome # "unsent" /\ net'[lineage[r]].got
                      /\ net'[lineage[r]].ack = <<>> <=> net'[r].outcome = "sent"
    BY DEF Families
  <2>1. /\ r \in DOMAIN net /\ net[r].outcome # "unsent"
        /\ lineage[r] \in DOMAIN net
        /\ net[lineage[r]].outcome # "unsent" /\ net[lineage[r]].got
        /\ net[lineage[r]].ack = <<>> <=> net[r].outcome = "sent"
    BY DEF Families
  <2>2. CASE r = q
    BY <1>1, <1>2, <1>3, <2>2
  <2>3. CASE r # q
    <3>1. lineage[r] # p
      BY <1>1, <2>3
    <3>2. net'[r].outcome = net[r].outcome
      BY <1>2, <1>3, <2>1, <2>3
    <3>3. /\ net'[lineage[r]].outcome # "unsent" /\ net'[lineage[r]].got
          /\ net'[lineage[r]].ack = net[lineage[r]].ack
      <4>1. CASE lineage[r] = q
        BY <1>2, <2>1, <4>1
      <4>2. CASE lineage[r] # q
        BY <1>2, <2>1, <3>1, <4>2
      <4> QED BY <4>1, <4>2
    <3> QED BY <1>2, <2>1, <3>2, <3>3
  <2> QED BY <2>2, <2>3
<1>6. ParentsOnly'
  <2> SUFFICES ASSUME NEW x \in DOMAIN net', net'[x].got, net'[x].ack = <<>>
               PROVE  \E r \in DOMAIN lineage : lineage[r] = x
    BY DEF ParentsOnly
  <2>1. x \in DOMAIN net /\ net[x].got /\ net[x].ack = <<>>
    BY <1>2, <1>3
  <2> QED BY <2>1 DEF ParentsOnly
<1>7. Waiting'
  <2>1. q.chain \in Chains
    BY <1>1 DEF Packets, IsPacket
  <2>2. /\ inflight' = [c \in Chains |-> inflight'[c]]
        /\ \A c \in Chains : c # q.chain => inflight'[c] = inflight[c]
        /\ inflight'[q.chain] = [r \in DOMAIN inflight[q.chain] \ {q} |-> inflight[q.chain][r]]
    BY <2>1 DEF Waiting
  <2>3. /\ \A r \in DOMAIN lineage : r # q => net'[r].outcome = net[r].outcome
        /\ net'[q].outcome # "sent"
    BY <1>2, <1>3 DEF Families
  <2>4. ASSUME NEW c \in Chains
        PROVE  /\ DOMAIN inflight'[c] = {r \in DOMAIN lineage : r.chain = c
                                                       /\ net'[r].outcome = "sent"}
               /\ \A r \in DOMAIN inflight'[c] : inflight'[c][r] = lineage[r]
    <3>1. /\ DOMAIN inflight[c] = {r \in DOMAIN lineage : r.chain = c
                                                       /\ net[r].outcome = "sent"}
          /\ \A r \in DOMAIN inflight[c] : inflight[c][r] = lineage[r]
      BY DEF Waiting
    <3>2. CASE c # q.chain
      BY <2>2, <2>3, <3>1, <3>2
    <3>3. CASE c = q.chain
      <4>1. /\ DOMAIN inflight'[c] = DOMAIN inflight[c] \ {q}
            /\ \A r \in DOMAIN inflight'[c] : inflight'[c][r] = inflight[c][r]
        BY <2>2, <3>3
      <4> QED BY <2>3, <3>1, <3>3, <4>1
    <3> QED BY <3>2, <3>3
  <2>5. inflight' = [c \in Chains |-> inflight'[c]] /\ lineage' = lineage
    BY <2>2
  <2> QED BY <2>4, <2>5 DEF Waiting
<1> QED BY <1>4, <1>5, <1>6, <1>7

-----------------------------------------------------------------------------
(* The entry points, as such steps.                                        *)

\* Nothing is answered, or one packet is: by contracts, or with an error.  What
\* is sent comes from a user.
Kept(p) ==
    /\ UNCHANGED ran
    /\ Known(net, p).outcome = "unsent" => p.salt.hashed = 0 /\ p.path = 0
    /\ net'[p].got = Known(net, p).got /\ net'[p].ack = Known(net, p).ack
    /\ Known(net, p).outcome = "timedOut" => net'[p].outcome = "timedOut"

Replied(p) ==
    /\ ~Known(net, p).got /\ Known(net, p).outcome # "timedOut"
    /\ net'[p].got /\ net'[p].outcome = Known(net, p).outcome
    /\ \E a : /\ net'[p].ack = <<a>>
              /\ ran' = Put(ran, p, a) \/ (a = universalErrorAck /\ UNCHANGED ran)

\* The child that is built is a packet of the chain that received the parent.
LEMMA ChildIsPacket ==
    ASSUME NEW p, IsPacket(p), NEW q, q = buildForwardChild(p), q # NoPacket
    PROVE  /\ IsPacket(q)
           /\ q.chain = Destination(p).chain
           /\ q.salt.hashed = p.salt.hashed + 1
<1>1. /\ q.chain = Destination(p).chain
      /\ q.channel \in DOMAIN Channels[Destination(p).chain]
      /\ q.salt = DeriveForwardSalt(p.salt)
  BY DEF buildForwardChild
<1>2. Destination(p).chain \in Chains
  BY ForwardAssumption DEF Destination, IsPacket
<1>3. p.salt.hashed + 1 \in Nat
  BY DEF IsPacket, Salts
<1>4. q.salt \in Salts /\ q.salt.hashed = p.salt.hashed + 1
  <2> DEFINE h == p.salt.hashed + 1
  <2>1. q.salt = [p.salt EXCEPT !.hashed = h]
    BY <1>1 DEF DeriveForwardSalt, IsPacket, Salts
  <2> HIDE DEF h
  <2>2. q.salt \in Salts /\ q.salt.hashed = h
    BY <1>3, <2>1 DEF IsPacket, Salts, h
  <2> QED BY <2>2 DEF h
<1> QED BY <1>1, <1>2, <1>4 DEF IsPacket

\* The known entries.
LEMMA KnownPossible ==
    ASSUME Packets, NEW p
    PROVE  /\ IsEntry(Known(net, p)) /\ Possible(Known(net, p))
           /\ p \in DOMAIN net => IsEntry(net[p])
BY DEF Packets, Known, Unsent, IsEntry, Possible

LEMMA SendStep ==
    ASSUME WaitInv, NEW c \in Senders, NEW n \in DOMAIN Channels[c],
           NEW timeout, NEW instruction, Send(c, n, timeout, instruction)
    PROVE  \E p : OneStep(p) /\ Kept(p)
<1> DEFINE p == [chain |-> c, channel |-> n, timeout |-> timeout, path |-> 0,
                 salt |-> DeriveSenderSalt(c, "salt"), instruction |-> instruction]
           k == Known(net, p)
<1>1. /\ ~GetPacketCommitmentExists(p) /\ net' = SendPacket(net, p)
      /\ UNCHANGED <<inflight, lineage, ends, ran>>
  BY DEF Send
<1>2. IsPacket(p)
  <2>1. DeriveSenderSalt(c, "salt") \in Salts
    BY DEF DeriveSenderSalt, Salts
  <2> QED BY <2>1, ForwardAssumption DEF IsPacket
<1>2a. p.salt.hashed = 0 /\ p.path = 0
  BY DEF DeriveSenderSalt
<1> HIDE DEF p
<1>3. k.outcome = "unsent" /\ Possible(k)
  BY <1>1, KnownPossible DEF WaitInv, GetPacketCommitmentExists, Known, Unsent
<1>4. /\ Only(net, net', p) /\ IsEntry(net'[p]) /\ net'[p].outcome = "sent"
      /\ net'[p].got = k.got /\ net'[p].ack = k.ack
  BY <1>1, KnownPossible, SendEffect DEF WaitInv
<1>5. p \notin DOMAIN lineage
  BY <1>3 DEF WaitInv, Families, Known
<1>6. Possible(net'[p])
  BY <1>3, <1>4 DEF Possible
<1>7. OneStep(p)
  BY <1>1, <1>2, <1>3, <1>4, <1>5, <1>6 DEF OneStep
<1>8. Kept(p)
  BY <1>1, <1>2a, <1>3, <1>4 DEF Kept
<1> QED BY <1>7, <1>8

\* A packet is received and answered.
LEMMA ReplyStep ==
    ASSUME WaitInv, NEW p, IsPacket(p), NEW a,
           ~Known(net, p).got, Known(net, p).outcome # "timedOut",
           net' = RecordReceipt(net, p, <<a>>),
           ran' = Put(ran, p, a) \/ (a = universalErrorAck /\ UNCHANGED ran),
           UNCHANGED <<inflight, lineage, ends>>
    PROVE  OneStep(p) /\ Replied(p)
<1> DEFINE k == Known(net, p)
<1>1. /\ Only(net, net', p) /\ IsEntry(net'[p]) /\ net'[p].got /\ net'[p].ack = <<a>>
      /\ net'[p].outcome = k.outcome
  BY KnownPossible, ReceiptEffect DEF WaitInv
<1>2. Possible(k)
  BY KnownPossible DEF WaitInv
<1>3. Possible(net'[p])
  BY <1>1, <1>2 DEF Possible
<1>4. OneStep(p)
  BY <1>1, <1>3 DEF OneStep
<1> QED BY <1>1, <1>4 DEF Replied

\* OnRecvPacket: a packet is answered, or sent on.
LEMMA ReceiveStep ==
    ASSUME WaitInv, NEW p \in DOMAIN net, OnRecvPacket(p)
    PROVE  (OneStep(p) /\ Replied(p)) \/ \E q : ForwardStep(p, q)
<1>1. /\ net[p].outcome = "sent" /\ ~net[p].got /\ Known(net, p) = net[p]
      /\ IsPacket(p) /\ IsEntry(net[p])
  BY DEF OnRecvPacket, Known, WaitInv, Packets
<1>2. CASE p.instruction.op # "forward"
  <2>1. PICK a : /\ net' = RecordReceipt(net, p, <<a>>)
                 /\ ran' = Put(ran, p, a)
                 /\ UNCHANGED <<inflight, lineage, ends>>
    BY <1>2 DEF OnRecvPacket
  <2> QED BY <1>1, <2>1, ReplyStep
<1>3. CASE p.instruction.op = "forward"
  <2> DEFINE q == buildForwardChild(p)
  <2>1. executeForward(p) /\ UNCHANGED ran
    BY <1>3 DEF OnRecvPacket
  <2>2. CASE ~(isAllowedForwardInstruction(p.instruction.instruction.op)
                  /\ verifyForwardChannel(q))
    <3>1. /\ net' = RecordReceipt(net, p, <<universalErrorAck>>)
          /\ UNCHANGED <<inflight, lineage, ends>>
      BY <2>1, <2>2 DEF executeForward
    <3> QED BY <1>1, <2>1, <3>1, ReplyStep
  <2>3. CASE isAllowedForwardInstruction(p.instruction.instruction.op)
                /\ verifyForwardChannel(q)
    <3>1. /\ net' = SendPacket(RecordReceipt(net, p, <<>>), q)
          /\ inflight' = [inflight EXCEPT ![Destination(p).chain] = Put(@, q, p)]
          /\ Descend(p, q)
      BY <2>1, <2>3 DEF executeForward
    <3>2. /\ q = buildForwardChild(p) /\ q # NoPacket /\ ~GetPacketCommitmentExists(q)
      BY <2>3 DEF verifyForwardChannel
    <3>3. /\ IsPacket(q) /\ q.chain = Destination(p).chain
          /\ q.salt.hashed = p.salt.hashed + 1
      BY <1>1, <3>2, ChildIsPacket
    <3> HIDE DEF q
    <3>4. PICK m : m = RecordReceipt(net, p, <<>>)
      OBVIOUS
    <3>5. /\ Only(net, m, p) /\ IsEntry(m[p]) /\ m[p].got /\ m[p].ack = <<>>
          /\ m[p].outcome = "sent"
      BY <1>1, <3>4, ReceiptEffect
    <3>6. p # q
      <4>1. p.salt.hashed \in Nat
        BY <1>1 DEF IsPacket, Salts
      <4> QED BY <3>3, <4>1
    <3>7. q \in DOMAIN m => IsEntry(m[q])
      BY <3>5, <3>6 DEF Only, WaitInv, Packets
    <3>8. /\ Only(m, net', q) /\ IsEntry(net'[q]) /\ net'[q].outcome = "sent"
          /\ net'[q].got = Known(m, q).got /\ net'[q].ack = Known(m, q).ack
      BY <3>1, <3>4, <3>7, SendEffect
    <3>9. Known(m, q) = Known(net, q)
      BY <3>5, <3>6 DEF Only, Known
    <3>10. Known(net, q).outcome = "unsent"
      BY <3>2 DEF GetPacketCommitmentExists, Known, Unsent
    <3>11. /\ DOMAIN net' = DOMAIN net \cup {q}
           /\ \A x \in DOMAIN net : x # p /\ x # q => net'[x] = net[x]
           /\ net'[p] = m[p]
      BY <3>5, <3>6, <3>8 DEF Only
    <3>12. ForwardStep(p, q)
      BY <1>1, <2>1, <3>1, <3>2, <3>3, <3>5, <3>8, <3>9, <3>10, <3>11 DEF ForwardStep
    <3> QED BY <3>12
  <2> QED BY <2>2, <2>3
<1> QED BY <1>2, <1>3

\* OnIntentRecvPacket: a packet is answered, sent or not.
LEMMA IntentStep ==
    ASSUME WaitInv, NEW p \in Expected, OnIntentRecvPacket(p)
    PROVE  OneStep(p) /\ Replied(p)
<1>1. IsPacket(p)
  <2>1. CASE p \in DOMAIN net
    BY <2>1 DEF WaitInv, Packets
  <2>2. CASE p \notin DOMAIN net
    <3>1. PICK x \in DOMAIN net : p = buildForwardChild(x) /\ p # NoPacket
      BY <2>2 DEF Expected
    <3> QED BY <3>1, ChildIsPacket DEF WaitInv, Packets
  <2> QED BY <2>1, <2>2
<1>2. PICK a : /\ net' = RecordReceipt(net, p, <<a>>)
               /\ ran' = Put(ran, p, a)
               /\ UNCHANGED <<inflight, lineage, ends>>
  BY DEF OnIntentRecvPacket
<1>3. ~Known(net, p).got /\ Known(net, p).outcome # "timedOut"
  BY DEF OnIntentRecvPacket
<1> QED BY <1>1, <1>2, <1>3, ReplyStep

\* A child that is not settled is found in the table.
LEMMA ChildFound ==
    ASSUME WaitInv, NEW p \in DOMAIN net, net[p].outcome = "sent"
    PROVE  /\ IsForwardChild(p) <=> p \in DOMAIN lineage
           /\ p \in DOMAIN lineage => inflight[p.chain][p] = lineage[p]
<1>1. p.chain \in Chains
  BY DEF WaitInv, Packets, IsPacket
<1>2. /\ p \in DOMAIN inflight[p.chain] <=> p \in DOMAIN lineage
      /\ p \in DOMAIN lineage => inflight[p.chain][p] = lineage[p]
  BY <1>1 DEF WaitInv, Waiting
<1>3. ASSUME p \in DOMAIN lineage PROVE p.salt.hashed > 0
  <2>1. lineage[p].salt.hashed \in Nat /\ p.salt.hashed = lineage[p].salt.hashed + 1
    BY <1>3 DEF WaitInv, Families, Packets, IsPacket, Salts
  <2> QED BY <2>1
<1> QED BY <1>2, <1>3 DEF IsForwardChild, IsForwardedPacket

\* A packet is settled: by itself, or with its parent.
LEMMA SettleStep ==
    ASSUME WaitInv, NEW p \in DOMAIN net, net[p].outcome = "sent",
           NEW o \in {"acked", "timedOut"}, NEW ack, NEW n,
           n = [net EXCEPT ![p].outcome = o],
           o = "acked" => net[p].ack # <<>> /\ ack = net[p].ack[1],
           o = "timedOut" => ~net[p].got /\ ack = universalErrorAck,
           IF IsForwardChild(p) THEN handleForwardChild(p, n, ack)
           ELSE net' = n /\ UNCHANGED inflight,
           UNCHANGED <<lineage, ends, ran>>
    PROVE  (OneStep(p) /\ Kept(p)) \/ AnswerStep(p, lineage[p], ack)
<1>1. /\ IsPacket(p) /\ IsEntry(net[p]) /\ Possible(net[p]) /\ Known(net, p) = net[p]
  BY DEF WaitInv, Packets, Known
<1>2. /\ Only(net, n, p) /\ DOMAIN n = DOMAIN net
      /\ IsEntry(n[p]) /\ n[p].outcome = o
      /\ n[p].got = net[p].got /\ n[p].ack = net[p].ack
  <2>1. PICK f : f = [net[p] EXCEPT !.outcome = o]
    OBVIOUS
  <2>2. IsEntry(f) /\ f.outcome = o /\ f.got = net[p].got /\ f.ack = net[p].ack
    BY <1>1, <2>1, OutcomeField
  <2>3. n = [net EXCEPT ![p] = f]
    BY <2>1
  <2>4. n[p] = f /\ Only(net, n, p) /\ DOMAIN n = DOMAIN net
    BY <2>3 DEF Only
  <2> QED BY <2>2, <2>4
<1>3. Possible(n[p])
  BY <1>1, <1>2 DEF Possible
<1>4. CASE p \notin DOMAIN lineage
  <2>1. net' = n /\ UNCHANGED inflight
    BY <1>4, ChildFound
  <2>2. OneStep(p)
    BY <1>1, <1>2, <1>3, <1>4, <2>1 DEF OneStep
  <2>3. Kept(p)
    BY <1>1, <1>2, <2>1 DEF Kept
  <2> QED BY <2>2, <2>3
<1>5. CASE p \in DOMAIN lineage
  <2> DEFINE x == lineage[p]
  <2>1. handleForwardChild(p, n, ack) /\ inflight[p.chain][p] = x
    BY <1>5, ChildFound
  <2>2. /\ net' = WriteAcknowledgement(n, x, ack)
        /\ inflight' = [inflight EXCEPT ![p.chain] = [q \in DOMAIN @ \ {p} |-> @[q]]]
    BY <2>1 DEF handleForwardChild
  <2>3. x \in DOMAIN net /\ x # p /\ IsEntry(net[x])
    BY <1>5 DEF WaitInv, Families, Packets, IsPacket, Salts
  <2>4. n[x] = net[x]
    BY <1>2, <2>3 DEF Only
  <2> HIDE DEF x
  <2>5. /\ Only(n, net', x) /\ DOMAIN net' = DOMAIN n
        /\ IsEntry(net'[x]) /\ net'[x].ack = <<ack>>
        /\ net'[x].got = n[x].got /\ net'[x].outcome = n[x].outcome
    <3>1. PICK f : f = [n[x] EXCEPT !.ack = <<ack>>]
      OBVIOUS
    <3>2. IsEntry(f) /\ f.ack = <<ack>> /\ f.got = n[x].got /\ f.outcome = n[x].outcome
      <4>1. PICK e, a : e = n[x] /\ a = <<ack>>
        OBVIOUS
      <4>2. IsEntry(e) /\ f = [e EXCEPT !.ack = a]
        BY <2>3, <2>4, <3>1, <4>1
      <4>3. f = [outcome |-> e.outcome, got |-> e.got, ack |-> a]
        BY <4>2, Fields DEF IsEntry
      <4> QED BY <4>1, <4>2, <4>3 DEF IsEntry
    <3>3. net' = [n EXCEPT ![x] = f]
      BY <2>2, <3>1 DEF WriteAcknowledgement
    <3>4. net'[x] = f /\ Only(n, net', x) /\ DOMAIN net' = DOMAIN n
      BY <1>2, <2>3, <3>3 DEF Only
    <3> QED BY <3>2, <3>4
  <2>6. /\ net'[p] = n[p]
        /\ \A y \in DOMAIN net : y # x /\ y # p => net'[y] = net[y]
    BY <1>2, <2>3, <2>5 DEF Only
  <2>7. AnswerStep(p, x, ack)
    BY <1>2, <1>3, <1>5, <2>2, <2>4, <2>5, <2>6 DEF AnswerStep, x
  <2> QED BY <2>7 DEF x
<1> QED BY <1>4, <1>5

\* Every step is one of these.
LEMMA Steps ==
    ASSUME WaitInv, Next
    PROVE  \/ \E p : OneStep(p) /\ (Kept(p) \/ Replied(p))
           \/ \E p, q : ForwardStep(p, q)
           \/ \E q, p, ack : AnswerStep(q, p, ack)
<1>1. ASSUME NEW c \in Senders, NEW n \in DOMAIN Channels[c], NEW timeout \in Timeouts,
             NEW instruction \in Instructions, Send(c, n, timeout, instruction)
      PROVE  \E p : OneStep(p) /\ (Kept(p) \/ Replied(p))
  BY <1>1, SendStep
<1>2. ASSUME NEW p \in DOMAIN net, OnRecvPacket(p)
      PROVE  (OneStep(p) /\ Replied(p)) \/ \E q : ForwardStep(p, q)
  BY <1>2, ReceiveStep
<1>3. ASSUME NEW p \in DOMAIN net, OnAcknowledgementPacket(p)
      PROVE  (OneStep(p) /\ Kept(p)) \/ \E q, x, ack : AnswerStep(q, x, ack)
  <2>1. PICK n, ack : n = [net EXCEPT ![p].outcome = "acked"] /\ ack = net[p].ack[1]
    OBVIOUS
  <2>2. /\ net[p].outcome = "sent" /\ net[p].ack # <<>>
        /\ IF IsForwardChild(p) THEN handleForwardChild(p, n, ack)
           ELSE net' = n /\ UNCHANGED inflight
        /\ UNCHANGED <<lineage, ends, ran>>
    BY <1>3, <2>1 DEF OnAcknowledgementPacket
  <2> QED BY <2>1, <2>2, SettleStep
<1>4. ASSUME NEW p \in DOMAIN net, OnTimeoutPacket(p)
      PROVE  (OneStep(p) /\ Kept(p)) \/ \E q, x, ack : AnswerStep(q, x, ack)
  <2>1. PICK n, ack : n = [net EXCEPT ![p].outcome = "timedOut"] /\ ack = universalErrorAck
    OBVIOUS
  <2>2. /\ net[p].outcome = "sent" /\ ~net[p].got
        /\ IF IsForwardChild(p) THEN handleForwardChild(p, n, ack)
           ELSE net' = n /\ UNCHANGED inflight
        /\ UNCHANGED <<lineage, ends, ran>>
    BY <1>4, <2>1 DEF OnTimeoutPacket
  <2> QED BY <2>1, <2>2, SettleStep
<1>5. ASSUME NEW p \in Expected, OnIntentRecvPacket(p)
      PROVE  OneStep(p) /\ Replied(p)
  BY <1>5, IntentStep
<1> QED BY <1>1, <1>2, <1>3, <1>4, <1>5 DEF Next

LEMMA WaitStep ==
    ASSUME WaitInv, [Next]_vars
    PROVE  WaitInv'
<1>1. CASE Next
  BY <1>1, Steps, OneWaits, ForwardWaits, AnswerWaits
<1>2. CASE UNCHANGED vars
  BY <1>2 DEF vars, WaitInv, Packets, Families, ParentsOnly, Waiting
<1> QED BY <1>1, <1>2

LEMMA WaitInit == Init => WaitInv
BY DEF Init, WaitInv, Packets, Families, ParentsOnly, Waiting

\* A child is kept until it is settled, and until then its parent has no answer:
\* every received packet gets its answer exactly once.
THEOREM ParentsAlwaysWait == FairSpec => []ParentsWait
<1>1. WaitInv => ParentsWait
  <2> SUFFICES ASSUME WaitInv PROVE ParentsWait
    OBVIOUS
  <2>1. ASSUME NEW c \in Chains, NEW q \in DOMAIN inflight[c]
        PROVE  Pending(inflight[c][q]) /\ inflight[c][q] = lineage[q]
    BY <2>1 DEF WaitInv, Waiting, Families, Pending
  <2>2. ASSUME NEW p \in DOMAIN net, Pending(p)
        PROVE  Cardinality({q \in ChildrenOf(p) : net[q].outcome = "sent"}) = 1
    <3>1. PICK q \in DOMAIN lineage : lineage[q] = p
      BY <2>2 DEF WaitInv, ParentsOnly, Pending
    <3>2. {r \in ChildrenOf(p) : net[r].outcome = "sent"} = {q}
      BY <2>2, <3>1 DEF WaitInv, Families, ChildrenOf, Pending
    <3> QED BY <3>2, FS_Singleton
  <2> QED BY <2>1, <2>2 DEF ParentsWait, WaitInv, Waiting
<1>2. WaitInv /\ [Next]_vars => WaitInv'
  BY WaitStep
<1> QED BY <1>1, <1>2, WaitInit, PTL DEF FairSpec

-----------------------------------------------------------------------------
(* Senders are told the truth.                                             *)

\* The packets that led on are the parents; a child leads where its parent
\* does; nothing led on from there.
EndsInv ==
    /\ DOMAIN ends = {lineage[q] : q \in DOMAIN lineage}
    /\ \A q \in DOMAIN lineage : End(q) = End(lineage[q])
    /\ \A p \in DOMAIN ends : ends[p] \in DOMAIN net /\ ends[p] \notin DOMAIN ends

\* Contracts ran for packets that were answered with what they answered.
RanInv ==
    \A p \in DOMAIN ran :
        /\ p \in DOMAIN net /\ net[p].got /\ net[p].ack = <<ran[p]>>
        /\ p \notin DOMAIN ends

\* No contract runs for this packet any more, and it is not sent on.
Final(p) == p \in DOMAIN net /\ (net[p].got \/ net[p].outcome = "timedOut")

Result(p) == IF End(p) \in DOMAIN ran THEN <<ran[End(p)]>> ELSE <<universalErrorAck>>

\* An answer is the result where the forwards led, once that is final.
ToldInv ==
    \A p \in DOMAIN net :
        net[p].ack # <<>> => Final(End(p)) /\ net[p].ack = Result(p)

TruthInv == EndsInv /\ RanInv /\ ToldInv

\* One packet changes, and no answer.
LEMMA KeptTruth ==
    ASSUME WaitInv, TruthInv, NEW p, OneStep(p), Kept(p)
    PROVE  TruthInv'
<1>1. /\ UNCHANGED <<lineage, ends, ran>>
      /\ DOMAIN net' = DOMAIN net \cup {p}
      /\ \A x \in DOMAIN net : x # p => net'[x] = net[x]
  BY DEF OneStep, Only, Kept
<1>2. \A x \in DOMAIN net : /\ net'[x].got = net[x].got /\ net'[x].ack = net[x].ack
                            /\ net[x].outcome = "timedOut" => net'[x].outcome = "timedOut"
  BY <1>1 DEF Kept, Known
<1>3. p \notin DOMAIN net => net'[p].ack = <<>>
  BY DEF Kept, Known, Unsent
<1>4. \A x : End(x)' = End(x) /\ Result(x)' = Result(x)
  BY <1>1 DEF End, Result
<1>5. EndsInv'
  BY <1>1, <1>4 DEF TruthInv, EndsInv
<1>6. RanInv'
  BY <1>1, <1>2 DEF TruthInv, RanInv
<1>7. \A x : Final(x) => Final(x)'
  BY <1>1, <1>2 DEF Final
<1>8. ToldInv'
  <2> SUFFICES ASSUME NEW x \in DOMAIN net', net'[x].ack # <<>>
               PROVE  Final(End(x))' /\ net'[x].ack = Result(x)'
    BY DEF ToldInv
  <2>1. x \in DOMAIN net /\ net'[x].ack = net[x].ack
    BY <1>1, <1>2, <1>3
  <2>2. Final(End(x)) /\ net[x].ack = Result(x)
    BY <2>1 DEF TruthInv, ToldInv
  <2>3. Final(End(x))'
    BY <1>4, <1>7, <2>2
  <2> QED BY <1>4, <2>1, <2>2, <2>3
<1> QED BY <1>5, <1>6, <1>8 DEF TruthInv

\* A packet that is not final leads nowhere yet, and none that leads to it has
\* an answer.
LEMMA OpenEnd ==
    ASSUME WaitInv, TruthInv, NEW p, ~Known(net, p).got, Known(net, p).outcome # "timedOut"
    PROVE  /\ p \notin DOMAIN ends /\ End(p) = p /\ p \notin DOMAIN ran
           /\ \A x \in DOMAIN net : net[x].ack # <<>> => End(x) # p
<1>1. ~Final(p)
  BY DEF Final, Known
<1>2. p \notin DOMAIN ends
  BY <1>1 DEF TruthInv, EndsInv, WaitInv, Families, Final
<1>3. p \notin DOMAIN ran
  BY <1>1 DEF TruthInv, RanInv, Final
<1>4. \A x \in DOMAIN net : net[x].ack # <<>> => End(x) # p
  BY <1>1 DEF TruthInv, ToldInv
<1> QED BY <1>2, <1>3, <1>4 DEF End

\* One packet is answered where it arrived.
LEMMA RepliedTruth ==
    ASSUME WaitInv, TruthInv, NEW p, OneStep(p), Replied(p)
    PROVE  TruthInv'
<1>1. /\ UNCHANGED <<lineage, ends>>
      /\ DOMAIN net' = DOMAIN net \cup {p}
      /\ \A x \in DOMAIN net : x # p => net'[x] = net[x]
      /\ net'[p].got
  BY DEF OneStep, Only, Replied
<1>2. PICK a : /\ net'[p].ack = <<a>>
               /\ ran' = Put(ran, p, a) \/ (a = universalErrorAck /\ UNCHANGED ran)
  BY DEF Replied
<1>3. /\ p \notin DOMAIN ends /\ End(p) = p /\ p \notin DOMAIN ran
      /\ \A x \in DOMAIN net : net[x].ack # <<>> => End(x) # p
  BY OpenEnd DEF Replied
<1>4. \A x : End(x)' = End(x)
  BY <1>1 DEF End
<1>5. /\ DOMAIN ran' = DOMAIN ran \cup {p} \/ DOMAIN ran' = DOMAIN ran
      /\ \A x \in DOMAIN ran : ran'[x] = ran[x]
      /\ p \in DOMAIN ran' => ran'[p] = a
      /\ p \notin DOMAIN ran' => a = universalErrorAck
  BY <1>2, <1>3 DEF Put
<1>6. EndsInv'
  BY <1>1, <1>4 DEF TruthInv, EndsInv
<1>7. RanInv'
  <2> SUFFICES ASSUME NEW x \in DOMAIN ran'
               PROVE  /\ x \in DOMAIN net' /\ net'[x].got /\ net'[x].ack = <<ran'[x]>>
                      /\ x \notin DOMAIN ends'
    BY DEF RanInv
  <2>1. CASE x = p
    BY <1>1, <1>2, <1>3, <1>5, <2>1
  <2>2. CASE x # p
    <3>1. x \in DOMAIN ran
      BY <1>5, <2>2
    <3> QED BY <1>1, <1>5, <2>2, <3>1 DEF TruthInv, RanInv
  <2> QED BY <2>1, <2>2
<1>8. ToldInv'
  <2> SUFFICES ASSUME NEW x \in DOMAIN net', net'[x].ack # <<>>
               PROVE  Final(End(x))' /\ net'[x].ack = Result(x)'
    BY DEF ToldInv
  <2>1. CASE x = p
    <3>1. Final(p)'
      BY <1>1 DEF Final
    <3>2. Result(p)' = <<a>>
      BY <1>3, <1>4, <1>5 DEF Result
    <3>3. End(x)' = p
      BY <1>3, <1>4, <2>1
    <3> QED BY <1>2, <2>1, <3>1, <3>2, <3>3 DEF Final
  <2>2. CASE x # p
    <3>1. x \in DOMAIN net /\ net'[x] = net[x]
      BY <1>1, <2>2
    <3>2. Final(End(x)) /\ net[x].ack = Result(x) /\ End(x) # p
      BY <1>3, <3>1 DEF TruthInv, ToldInv
    <3>3. End(x)' = End(x)
      BY <1>4
    <3>4. Final(End(x))'
      BY <1>1, <3>2, <3>3 DEF Final
    <3>5. Result(x)' = Result(x)
      BY <1>5, <3>2, <3>3 DEF Result
    <3> QED BY <3>1, <3>2, <3>4, <3>5
  <2> QED BY <2>1, <2>2
<1> QED BY <1>6, <1>7, <1>8 DEF TruthInv

\* All that led to the parent leads to the child.
LEMMA ForwardTruth ==
    ASSUME WaitInv, TruthInv, NEW p, NEW q, ForwardStep(p, q)
    PROVE  TruthInv'
<1>1. /\ p \in DOMAIN net /\ net[p].outcome = "sent" /\ ~net[p].got
      /\ DOMAIN net' = DOMAIN net \cup {q}
      /\ \A x \in DOMAIN net : x # p /\ x # q => net'[x] = net[x]
      /\ net'[p].got /\ net'[p].ack = <<>>
      /\ net'[q].got = Known(net, q).got /\ net'[q].ack = Known(net, q).ack
      /\ Known(net, q).outcome = "unsent"
      /\ q.salt.hashed = p.salt.hashed + 1
      /\ UNCHANGED ran
  BY DEF ForwardStep
<1>2. p # q
  BY <1>1 DEF WaitInv, Packets, IsPacket, Salts
<1>3. /\ p \notin DOMAIN ends /\ End(p) = p /\ p \notin DOMAIN ran
      /\ \A x \in DOMAIN net : net[x].ack # <<>> => End(x) # p
  BY <1>1, OpenEnd DEF Known
<1>4. q \notin DOMAIN lineage /\ q \notin DOMAIN ends /\ End(q) = q
  <2>1. q \in DOMAIN net => net[q].outcome = "unsent"
    BY <1>1 DEF Known
  <2>2. q \notin DOMAIN lineage /\ q \notin DOMAIN ends
    BY <2>1 DEF WaitInv, Families, TruthInv, EndsInv
  <2> QED BY <2>2 DEF End
<1>5. /\ DOMAIN lineage' = DOMAIN lineage \cup {q} /\ lineage'[q] = p
      /\ \A r \in DOMAIN lineage : lineage'[r] = lineage[r]
  BY <1>4 DEF ForwardStep, Descend, Put
<1>6. /\ DOMAIN ends' = DOMAIN ends \cup {p}
      /\ \A x \in DOMAIN ends' : ends'[x] = IF End(x) = p THEN q ELSE ends[x]
  BY DEF ForwardStep, Descend
<1>7. \A x : End(x)' = IF End(x) = p THEN q ELSE End(x)
  <2> TAKE x
  <2>1. CASE x \in DOMAIN ends
    BY <1>6, <2>1 DEF End
  <2>2. CASE x = p
    BY <1>3, <1>6, <2>2 DEF End
  <2>3. CASE x \notin DOMAIN ends /\ x # p
    BY <1>6, <2>3 DEF End
  <2> QED BY <2>1, <2>2, <2>3
<1>8. EndsInv'
  <2>1. DOMAIN ends' = {lineage'[r] : r \in DOMAIN lineage'}
    BY <1>5, <1>6 DEF TruthInv, EndsInv
  <2>2. ASSUME NEW r \in DOMAIN lineage'
        PROVE  End(r)' = End(lineage[r])'
    <3>1. CASE r = q
      <4>1. End(r)' = q /\ End(p)' = q
        BY <1>2, <1>3, <1>4, <1>7, <3>1
      <4>2. lineage'[r] = p
        BY <1>5, <3>1
      <4>3. (End(p))' = IF p \in DOMAIN ends' THEN ends'[p] ELSE p
        BY DEF End
      <4> QED BY <4>1, <4>2, <4>3 DEF End
    <3>2. CASE r # q
      <4>1. r \in DOMAIN lineage /\ lineage'[r] = lineage[r] /\ End(r) = End(lineage[r])
        BY <1>5, <3>2 DEF TruthInv, EndsInv
      <4>2. PICK y : y = lineage[r]
        OBVIOUS
      <4>3. End(r)' = End(y)'
        BY <1>7, <4>1, <4>2
      <4> QED BY <4>1, <4>2, <4>3 DEF End
    <3> QED BY <3>1, <3>2
  <2>3. ASSUME NEW x \in DOMAIN ends'
        PROVE  ends'[x] \in DOMAIN net' /\ ends'[x] \notin DOMAIN ends'
    <3>1. CASE End(x) = p
      BY <1>1, <1>2, <1>4, <1>6, <3>1
    <3>2. CASE End(x) # p
      <4>1. x \in DOMAIN ends /\ ends'[x] = ends[x] /\ ends[x] # p
        BY <1>3, <1>6, <3>2 DEF End
      <4> QED BY <1>1, <1>6, <4>1 DEF TruthInv, EndsInv
    <3> QED BY <3>1, <3>2
  <2> QED BY <2>1, <2>2, <2>3 DEF EndsInv
<1>9. RanInv'
  <2> SUFFICES ASSUME NEW x \in DOMAIN ran
               PROVE  /\ x \in DOMAIN net' /\ net'[x].got /\ net'[x].ack = <<ran[x]>>
                      /\ x \notin DOMAIN ends'
    BY <1>1 DEF RanInv
  <2>1. /\ x \in DOMAIN net /\ net[x].got /\ net[x].ack = <<ran[x]>>
        /\ x \notin DOMAIN ends /\ x # p
    BY <1>3 DEF TruthInv, RanInv
  <2>2. net'[x].got /\ net'[x].ack = net[x].ack
    BY <1>1, <2>1 DEF Known
  <2> QED BY <1>1, <1>6, <2>1, <2>2
<1>10. ToldInv'
  <2> SUFFICES ASSUME NEW x \in DOMAIN net', net'[x].ack # <<>>
               PROVE  Final(End(x))' /\ net'[x].ack = Result(x)'
    BY DEF ToldInv
  <2>1. x \in DOMAIN net /\ net'[x].ack = net[x].ack
    BY <1>1 DEF Known, Unsent
  <2>2. Final(End(x)) /\ net[x].ack = Result(x) /\ End(x) # p
    BY <1>3, <2>1 DEF TruthInv, ToldInv
  <2>3. End(x)' = End(x)
    BY <1>7, <2>2
  <2>4. Final(End(x))'
    <3>1. PICK e : e = End(x)
      OBVIOUS
    <3>2. e \in DOMAIN net /\ (net[e].got \/ net[e].outcome = "timedOut") /\ e # p
      BY <2>2, <3>1 DEF Final
    <3>3. net'[e].got \/ net'[e].outcome = "timedOut"
      BY <1>1, <3>2 DEF Known
    <3> QED BY <1>1, <2>3, <3>1, <3>2, <3>3 DEF Final
  <2>5. Result(x)' = Result(x)
    BY <1>1, <2>3 DEF Result
  <2> QED BY <2>1, <2>2, <2>4, <2>5
<1> QED BY <1>8, <1>9, <1>10 DEF TruthInv

\* The parent is told what the child was told.
LEMMA AnswerTruth ==
    ASSUME WaitInv, TruthInv, NEW q, NEW p, NEW ack, AnswerStep(q, p, ack)
    PROVE  TruthInv'
<1>1. /\ q \in DOMAIN lineage /\ p = lineage[q]
      /\ net[q].outcome = "sent"
      /\ DOMAIN net' = DOMAIN net
      /\ \A x \in DOMAIN net : x # p /\ x # q => net'[x] = net[x]
      /\ net'[q].outcome \in {"acked", "timedOut"}
      /\ net'[q].got = net[q].got /\ net'[q].ack = net[q].ack
      /\ net'[p].ack = <<ack>>
      /\ net'[p].got = net[p].got /\ net'[p].outcome = net[p].outcome
      /\ net'[q].outcome = "acked" => ack = net[q].ack[1]
      /\ net'[q].outcome = "timedOut" => ~net[q].got /\ ack = universalErrorAck
      /\ UNCHANGED <<lineage, ends, ran>>
      /\ Possible(net'[q])
  BY DEF AnswerStep
<1>2. /\ q \in DOMAIN net /\ p \in DOMAIN net /\ p # q
      /\ net[p].ack = <<>>
  BY <1>1 DEF WaitInv, Families, Packets, IsPacket, Salts
<1>3. \A x : End(x)' = End(x) /\ Result(x)' = Result(x)
  BY <1>1 DEF End, Result
<1>4. \A x : Final(x) => Final(x)'
  <2> SUFFICES ASSUME NEW x, Final(x) PROVE Final(x)'
    OBVIOUS
  <2>1. CASE x = q
    BY <1>1, <1>2, <2>1 DEF Final
  <2>2. CASE x # q
    BY <1>1, <1>2, <2>2 DEF Final
  <2> QED BY <2>1, <2>2
<1>5. EndsInv'
  BY <1>1, <1>3 DEF TruthInv, EndsInv
<1>6. RanInv'
  <2>1. p \in DOMAIN ends
    BY <1>1 DEF TruthInv, EndsInv
  <2> QED BY <1>1, <2>1 DEF TruthInv, RanInv
<1>7. End(p) = End(q)
  BY <1>1 DEF TruthInv, EndsInv
<1>8. Final(End(p))' /\ <<ack>> = Result(p)'
  <2>1. CASE net'[q].outcome = "acked"
    <3>1. net[q].ack # <<>>
      BY <1>1, <2>1 DEF Possible
    <3>2. Final(End(q)) /\ net[q].ack = Result(q)
      BY <1>2, <3>1 DEF TruthInv, ToldInv
    <3>3. <<ack>> = net[q].ack
      BY <1>1, <2>1, <3>2 DEF Result
    <3>4. Result(p) = Result(q)
      BY <1>7 DEF Result
    <3>5. Final(End(p))'
      BY <1>3, <1>4, <1>7, <3>2
    <3> QED BY <1>3, <3>2, <3>3, <3>4, <3>5
  <2>2. CASE net'[q].outcome = "timedOut"
    <3>1. End(q) = q /\ q \notin DOMAIN ran
      BY <1>1, <1>2, <2>2, OpenEnd DEF Known
    <3>2. Final(q)'
      BY <1>1, <1>2, <2>2 DEF Final
    <3>3. Final(End(p))'
      BY <1>3, <1>7, <3>1, <3>2
    <3>4. Result(p) = <<universalErrorAck>>
      BY <1>7, <3>1 DEF Result
    <3> QED BY <1>1, <1>3, <2>2, <3>3, <3>4
  <2> QED BY <1>1, <2>1, <2>2
<1>9. ToldInv'
  <2> SUFFICES ASSUME NEW x \in DOMAIN net', net'[x].ack # <<>>
               PROVE  Final(End(x))' /\ net'[x].ack = Result(x)'
    BY DEF ToldInv
  <2>1. CASE x = p
    BY <1>1, <1>8, <2>1
  <2>2. CASE x # p
    <3>1. x \in DOMAIN net /\ net'[x].ack = net[x].ack
      BY <1>1, <2>2
    <3>2. Final(End(x)) /\ net[x].ack = Result(x)
      BY <3>1 DEF TruthInv, ToldInv
    <3>3. Final(End(x))'
      BY <1>3, <1>4, <3>2
    <3> QED BY <1>3, <3>1, <3>2, <3>3
  <2> QED BY <2>1, <2>2
<1> QED BY <1>5, <1>6, <1>9 DEF TruthInv

LEMMA TruthStep ==
    ASSUME WaitInv, TruthInv, [Next]_vars
    PROVE  TruthInv'
<1>1. CASE Next
  BY <1>1, Steps, KeptTruth, RepliedTruth, ForwardTruth, AnswerTruth
<1>2. CASE UNCHANGED vars
  <2>1. \A x : End(x)' = End(x) /\ Result(x)' = Result(x) /\ Final(x)' = Final(x)
    BY <1>2 DEF vars, End, Result, Final
  <2>2. EndsInv'
    BY <1>2, <2>1 DEF vars, TruthInv, EndsInv
  <2>3. RanInv'
    BY <1>2 DEF vars, TruthInv, RanInv
  <2>4. ToldInv'
    <3> SUFFICES ASSUME NEW x \in DOMAIN net', net'[x].ack # <<>>
                 PROVE  Final(End(x))' /\ net'[x].ack = Result(x)'
      BY DEF ToldInv
    <3>1. Final(End(x)) /\ net[x].ack = Result(x) /\ net' = net
      BY <1>2 DEF vars, TruthInv, ToldInv
    <3>2. Final(End(x))'
      BY <1>2, <2>1, <3>1 DEF Final, vars
    <3> QED BY <2>1, <3>1, <3>2
  <2> QED BY <2>2, <2>3, <2>4 DEF TruthInv
<1> QED BY <1>1, <1>2

LEMMA TruthInit == Init => TruthInv
BY DEF Init, TruthInv, EndsInv, RanInv, ToldInv

\* Over any number of hops, whoever sent a packet is told what happened where
\* its forwards led: the answer of the contracts if they ran, and an error or a
\* timeout only if they did not and never will.
THEOREM AlwaysToldTruly == FairSpec => []ToldTruly
<1>1. WaitInv /\ TruthInv => ToldTruly
  <2> SUFFICES ASSUME WaitInv, TruthInv, NEW p \in DOMAIN net
               PROVE  IF End(p) \in DOMAIN ran
                      THEN /\ net[p].outcome # "timedOut"
                           /\ net[p].outcome = "acked" => net[p].ack = <<ran[End(p)]>>
                      ELSE net[p].outcome = "acked" => net[p].ack = <<universalErrorAck>>
    BY DEF ToldTruly
  <2>1. net[p].outcome = "acked" => net[p].ack = Result(p)
    BY DEF WaitInv, Packets, Possible, TruthInv, ToldInv
  <2>2. ASSUME net[p].outcome = "timedOut" PROVE End(p) \notin DOMAIN ran
    <3>1. ~net[p].got
      BY <2>2 DEF WaitInv, Packets, Possible
    <3>2. p \notin DOMAIN ends
      BY <3>1 DEF WaitInv, Families, TruthInv, EndsInv
    <3> QED BY <3>1, <3>2 DEF End, TruthInv, RanInv
  <2> QED BY <2>1, <2>2 DEF Result
<1>2. WaitInv /\ TruthInv /\ [Next]_vars => (WaitInv /\ TruthInv)'
  BY WaitStep, TruthStep
<1> QED BY <1>1, <1>2, WaitInit, TruthInit, PTL DEF FairSpec

-----------------------------------------------------------------------------
(* Paths as numbers.                                                       *)

LEMMA PowerFacts ==
    /\ Power[0] = 1
    /\ \A n \in Nat : Power[n] \in Nat \ {0} /\ Power[n + 1] = Power[n] * SlotBase
<1>1. \E f : f = [n \in Nat |-> IF n = 0 THEN 1 ELSE f[n - 1] * SlotBase]
  BY PowersExist
<1>2. Power = [n \in Nat |-> IF n = 0 THEN 1 ELSE Power[n - 1] * SlotBase]
  BY <1>1, Zenon DEF Power
<1>3. SlotBase \in Nat \ {0}
  BY PathAssumption
<1> QED BY <1>2, <1>3, PowersPositive

LEMMA Division ==
    ASSUME NEW q \in Nat, NEW m \in Nat \ {0}, NEW r \in 0..(m - 1), NEW x, x = r + q * m
    PROVE  x \div m = q /\ x % m = r
OBVIOUS

LEMMA Distributive ==
    ASSUME NEW x \in Int, NEW y \in Int, NEW z \in Int
    PROVE  (x + y) * z = x * z + y * z /\ (x * y) * z = x * (y * z) /\ x * y = y * x /\ x * y \in Int
OBVIOUS

LEMMA Monotone ==
    ASSUME NEW x \in Int, NEW y \in Int, NEW z \in Nat, x <= y
    PROVE  x * z <= y * z
OBVIOUS

LEMMA PowersGrow ==
    ASSUME NEW m \in Nat, NEW n \in Nat
    PROVE  \E k \in Nat \ {0} : Power[m + n] = k * Power[m]
<1> DEFINE T == {i \in Nat : \E k \in Nat \ {0} : Power[m + i] = k * Power[m]}
<1>1. 0 \in T
  <2>1. Power[m + 0] = 1 * Power[m]
    BY PowerFacts
  <2> QED BY <2>1
<1>2. ASSUME NEW i \in Nat, i \in T
      PROVE  i + 1 \in T
  <2>1. PICK k \in Nat \ {0} : Power[m + i] = k * Power[m]
    BY <1>2
  <2>2. Power[m + (i + 1)] = Power[m + i] * SlotBase /\ Power[m] \in Nat
    <3>1. m + i \in Nat /\ m + (i + 1) = (m + i) + 1
      OBVIOUS
    <3> QED BY <3>1, PowerFacts
  <2>3. Power[m + (i + 1)] = (k * SlotBase) * Power[m]
    BY <2>1, <2>2, PathAssumption, Distributive
  <2>4. k * SlotBase \in Nat \ {0}
    BY PathAssumption
  <2> QED BY <2>3, <2>4
<1> HIDE DEF T
<1>3. Nat \subseteq T
  BY <1>1, <1>2, NatSetInduction
<1> QED BY <1>3 DEF T

\* The digits from 1 to k, none of them 0, and the number that the first i of
\* them stand for.
Hops(k) == [1..k -> 1..(SlotBase - 1)]

Sums(h, k, f) == f = [i \in 0..k |-> IF i = 0 THEN 0 ELSE f[i - 1] + h[i] * Power[i - 1]]

LEMMA SumsExist ==
    ASSUME NEW h
    PROVE  \A k \in Nat : \E f : Sums(h, k, f)
<1> DEFINE T == {k \in Nat : \E f : Sums(h, k, f)}
<1>1. 0 \in T
  <2>1. Sums(h, 0, [i \in 0..0 |-> 0])
    BY DEF Sums
  <2> QED BY <2>1
<1>2. ASSUME NEW k \in Nat, k \in T
      PROVE  k + 1 \in T
  <2>1. PICK f : Sums(h, k, f)
    BY <1>2
  <2> DEFINE g == [i \in 0..(k + 1) |-> IF i = 0 THEN 0 ELSE f[i - 1] + h[i] * Power[i - 1]]
  <2>2. \A i \in 0..k : g[i] = f[i] /\ i \in 0..(k + 1)
    BY <2>1 DEF Sums
  <2>3. \A i \in 0..(k + 1) : i # 0 => i - 1 \in 0..k
    OBVIOUS
  <2>4. Sums(h, k + 1, g)
    BY <2>2, <2>3 DEF Sums
  <2> QED BY <2>4
<1> HIDE DEF T
<1>3. Nat \subseteq T
  BY <1>1, <1>2, NatSetInduction
<1> QED BY <1>3 DEF T

LEMMA SumSteps ==
    ASSUME NEW k \in Nat, NEW h, NEW f, Sums(h, k, f)
    PROVE  f[0] = 0 /\ \A i \in 1..k : f[i] = f[i - 1] + h[i] * Power[i - 1]
<1>1. 0 \in 0..k /\ \A i \in 1..k : i \in 0..k /\ i # 0
  OBVIOUS
<1> QED BY <1>1 DEF Sums

\* Two sums of the same digits are the same.
LEMMA SumsAgree ==
    ASSUME NEW k \in Nat, NEW j \in 0..k, NEW h, NEW l, \A i \in 1..j : h[i] = l[i],
           NEW f, Sums(h, k, f), NEW g, Sums(l, j, g)
    PROVE  f[j] = g[j]
<1> DEFINE T == {i \in 0..j : f[i] = g[i]}
<1>1. 0 \in T
  BY SumSteps
<1>2. ASSUME NEW i \in 1..j, i - 1 \in T
      PROVE  i \in T
  <2>1. i \in 1..k /\ i \in 0..j /\ j \in Nat
    OBVIOUS
  <2>2. f[i] = f[i - 1] + h[i] * Power[i - 1] /\ g[i] = g[i - 1] + l[i] * Power[i - 1]
    BY <2>1, SumSteps
  <2> QED BY <1>2, <2>1, <2>2
<1>3. j \in Nat
  OBVIOUS
<1> HIDE DEF T
<1>4. j \in T
  BY <1>1, <1>2, <1>3, UptoInduction
<1> QED BY <1>4 DEF T

LEMMA DigitsAreSums ==
    ASSUME NEW k \in Nat, NEW h \in [1..k -> Int], NEW f, Sums(h, k, f)
    PROVE  Digits(h) = f[k]
<1> DEFINE g == CHOOSE s : Sums(h, k, s)
<1>1. Sums(h, k, g)
  BY SumsExist
<1>2. Len(h) = k
  OBVIOUS
<1>3. Digits(h) = g[k]
  BY <1>2, Zenon DEF Digits, Sums
<1> HIDE DEF g
<1>4. f[k] = g[k]
  BY <1>1, SumsAgree
<1> QED BY <1>3, <1>4

\* The number of the first i digits has i slots.
LEMMA SumBounds ==
    ASSUME NEW k \in Nat, NEW h \in Hops(k), NEW f, Sums(h, k, f)
    PROVE  /\ \A i \in 0..k : f[i] \in Nat /\ f[i] < Power[i]
           /\ \A i \in 1..k : f[i] >= Power[i - 1]
<1>1. \A i \in 1..k : /\ f[i] = f[i - 1] + h[i] * Power[i - 1] /\ h[i] \in 1..(SlotBase - 1)
                      /\ i - 1 \in Nat /\ Power[i - 1] \in Nat \ {0}
                      /\ Power[i] = Power[i - 1] * SlotBase
  <2> TAKE i \in 1..k
  <2>1. i - 1 \in Nat /\ (i - 1) + 1 = i
    OBVIOUS
  <2>2. h[i] \in 1..(SlotBase - 1)
    BY DEF Hops
  <2> QED BY <2>1, <2>2, SumSteps, PowerFacts
<1> DEFINE T == {i \in 0..k : f[i] \in Nat /\ f[i] < Power[i]}
<1>2. 0 \in T
  BY SumSteps, PowerFacts
<1>3. ASSUME NEW i \in 1..k, i - 1 \in T
      PROVE  i \in T
  <2> DEFINE P == Power[i - 1]
             d == h[i]
             x == f[i - 1]
  <2>1. /\ f[i] = x + d * P /\ d \in 1..(SlotBase - 1) /\ P \in Nat \ {0}
        /\ Power[i] = P * SlotBase /\ x \in Nat /\ x < P
    BY <1>1, <1>3
  <2>2. i \in 0..k /\ SlotBase \in Nat
    BY PathAssumption
  <2> HIDE DEF P, d, x
  <2>3. d * P \in Nat /\ d * P <= (SlotBase - 1) * P
    BY <2>1, <2>2, Monotone
  <2>4. SlotBase * P = (SlotBase - 1) * P + 1 * P /\ P * SlotBase = SlotBase * P
    BY <2>1, <2>2, Distributive
  <2> QED BY <2>1, <2>2, <2>3, <2>4
<1>4. \A i \in 0..k : i \in T
  <2> TAKE i \in 0..k
  <2>1. i \in Nat /\ \A n \in 1..i : n \in 1..k
    OBVIOUS
  <2> HIDE DEF T
  <2> QED BY <1>2, <1>3, <2>1, UptoInduction
<1>5. ASSUME NEW i \in 1..k
      PROVE  f[i] >= Power[i - 1]
  <2>1. i - 1 \in 0..k
    OBVIOUS
  <2>2. f[i - 1] \in Nat
    BY <1>4, <2>1
  <2>3. h[i] * Power[i - 1] >= 1 * Power[i - 1]
    <3>1. h[i] \in Int /\ 1 \in Int /\ 1 <= h[i] /\ Power[i - 1] \in Nat
      BY <1>1, PathAssumption
    <3>2. 1 * Power[i - 1] <= h[i] * Power[i - 1]
      BY <3>1, Monotone, Zenon
    <3> QED BY <3>1, <3>2
  <2>4. h[i] * Power[i - 1] \in Int
    BY <1>1
  <2> QED BY <1>1, <2>2, <2>3, <2>4
<1> QED BY <1>4, <1>5

LEMMA PowersRise ==
    ASSUME NEW m \in Nat, NEW n \in Nat, m <= n
    PROVE  Power[m] <= Power[n]
<1>1. n - m \in Nat /\ m + (n - m) = n
  OBVIOUS
<1>2. PICK k \in Nat \ {0} : Power[n] = k * Power[m]
  BY <1>1, PowersGrow
<1>3. 1 * Power[m] <= k * Power[m] /\ Power[m] \in Nat
  BY PowerFacts, Monotone
<1> QED BY <1>2, <1>3

LEMMA HopCountIs ==
    ASSUME NEW k \in 0..MaxHops, NEW x \in Nat, x < Power[k], k = 0 \/ x >= Power[k - 1]
    PROVE  HopCount(x) = k
<1>1. MaxHops \in Nat
  BY PathAssumption
<1>2. ASSUME NEW n \in 0..MaxHops, x < Power[n], n = 0 \/ x >= Power[n - 1]
      PROVE  n = k
  <2>1. Power[n] \in Nat /\ Power[k] \in Nat
    BY <1>1, PowerFacts
  <2>2. CASE n < k
    <3>1. k - 1 \in Nat /\ n <= k - 1
      BY <1>1, <2>2
    <3>2. Power[n] <= Power[k - 1] /\ Power[k - 1] \in Nat
      BY <1>1, <3>1, PowersRise, PowerFacts
    <3> QED BY <1>2, <2>1, <2>2, <3>2
  <2>3. CASE k < n
    <3>1. n - 1 \in Nat /\ k <= n - 1
      BY <1>1, <2>3
    <3>2. Power[k] <= Power[n - 1] /\ Power[n - 1] \in Nat
      BY <1>1, <3>1, PowersRise, PowerFacts
    <3> QED BY <1>2, <2>1, <2>3, <3>2
  <2> QED BY <1>1, <2>2, <2>3
<1> DEFINE Is(n) == x < Power[n] /\ (n = 0 \/ x >= Power[n - 1])
<1>3. Is(k) /\ \A n \in 0..MaxHops : Is(n) => n = k
  BY <1>2
<1>4. HopCount(x) = CHOOSE n \in 0..MaxHops : Is(n)
  BY DEF HopCount
<1> HIDE DEF Is
<1> QED BY <1>3, <1>4

\* A path is as long as its digits are, and grows by one.
LEMMA PathGrows ==
    ASSUME NEW k \in 0..MaxHops, NEW h \in Hops(k), NEW f, Sums(h, k, f), NEW j \in 0..k, NEW c
    PROVE  /\ HopCount(f[j]) = j /\ (f[j] = 0 <=> j = 0)
           /\ UpdateChannelPath(f[j], c) = IF j = 0 THEN c
                                           ELSE IF j = MaxHops THEN NoPath
                                           ELSE f[j] + c * Power[j]
<1>1. /\ k \in Nat /\ j \in Nat /\ j \in 0..MaxHops /\ MaxHops \in Nat
      /\ (j # 0 => j \in 1..k /\ j - 1 \in Nat)
  BY PathAssumption
<1>2. f[j] \in Nat /\ f[j] < Power[j] /\ (j = 0 \/ f[j] >= Power[j - 1])
  BY <1>1, SumBounds
<1>3. HopCount(f[j]) = j
  BY <1>1, <1>2, HopCountIs
<1>4. f[j] = 0 <=> j = 0
  <2>1. j = 0 => f[j] = 0
    BY <1>1, SumSteps
  <2>2. j # 0 => Power[j - 1] \in Nat \ {0}
    BY <1>1, PowerFacts
  <2> QED BY <1>2, <2>1, <2>2
<1> QED BY <1>1, <1>3, <1>4 DEF UpdateChannelPath, MakePathFromChannel

\* Popping takes off the last digit.
LEMMA PathShrinks ==
    ASSUME NEW k \in 1..MaxHops, NEW j \in 1..k, NEW h \in Hops(k), NEW f, Sums(h, k, f)
    PROVE  PopChannelFromPath(f[j]) = [path |-> f[j - 1], channel |-> h[j]]
<1>1. k \in Nat /\ j \in 0..MaxHops /\ j - 1 \in 0..k /\ j - 1 \in Nat /\ j \in 0..k /\ j # 0
  BY PathAssumption
<1>2. f[j] \in Nat /\ f[j] < Power[j] /\ f[j] >= Power[j - 1] /\ Power[j - 1] \in Nat \ {0}
  BY <1>1, SumBounds, PowerFacts
<1>3. HopCount(f[j]) = j
  BY <1>1, <1>2, HopCountIs
<1>4. f[j] = f[j - 1] + h[j] * Power[j - 1] /\ h[j] \in 1..(SlotBase - 1)
  BY <1>1, SumSteps DEF Hops
<1>5. f[j - 1] \in 0..(Power[j - 1] - 1) /\ h[j] \in Nat
  BY <1>1, <1>2, <1>4, SumBounds, PathAssumption
<1>6. f[j] \div Power[j - 1] = h[j] /\ f[j] % Power[j - 1] = f[j - 1]
  <2> DEFINE x == f[j]
             m == Power[j - 1]
             q == h[j]
             r == f[j - 1]
  <2>1. q \in Nat /\ m \in Nat \ {0} /\ r \in 0..(m - 1) /\ x = r + q * m
    BY <1>2, <1>4, <1>5
  <2> HIDE DEF x, m, q, r
  <2>2. x \div m = q /\ x % m = r
    BY <2>1, Division
  <2> QED BY <2>2 DEF x, m, q, r
<1>7. h[j] % SlotBase = h[j]
  BY <1>4, PathAssumption
<1>8. f[j] # 0
  BY <1>2
<1> QED BY <1>3, <1>6, <1>7, <1>8 DEF PopChannelFromPath, GetChannelFromPath

\* The slot i of a path holds its digit i + 1.
LEMMA SlotsHold ==
    ASSUME NEW k \in Nat, NEW h \in Hops(k), NEW f, Sums(h, k, f), NEW i \in 0..(k - 1)
    PROVE  GetChannelFromPath(f[k], i) = h[i + 1]
<1> DEFINE P == Power[i]
           B == SlotBase
           T == {j \in Nat : i + 1 + j <= k => \E m \in Nat : f[i + 1 + j] = f[i + 1] + m * (P * B)}
<1>1. i \in Nat /\ P \in Nat \ {0} /\ B \in Nat \ {0} /\ Power[i + 1] = P * B /\ P * B \in Nat
  BY PathAssumption, PowerFacts
<1>2. 0 \in T
  <2>1. i + 1 \in 0..k /\ i + 1 + 0 = i + 1
    OBVIOUS
  <2>2. f[i + 1] = f[i + 1] + 0 * (P * B)
    BY <1>1, <2>1, SumBounds
  <2> QED BY <2>1, <2>2
<1>3. ASSUME NEW j \in Nat, j \in T
      PROVE  j + 1 \in T
  <2> SUFFICES ASSUME i + 1 + (j + 1) <= k
               PROVE  \E m \in Nat : f[i + 1 + (j + 1)] = f[i + 1] + m * (P * B)
    OBVIOUS
  <2>1. i + 1 + j <= k /\ i + 1 + j \in Nat /\ i + 1 \in 0..k
        /\ i + 1 + (j + 1) \in 1..k /\ i + 1 + (j + 1) - 1 = i + 1 + j
    BY <1>1
  <2>2. PICK m \in Nat : f[i + 1 + j] = f[i + 1] + m * (P * B)
    BY <1>3, <2>1
  <2> DEFINE d == h[i + 1 + (j + 1)]
  <2>3. f[i + 1 + (j + 1)] = f[i + 1 + j] + d * Power[i + 1 + j] /\ d \in 1..(B - 1)
    <3>1. f[i + 1 + (j + 1)] = f[i + 1 + (j + 1) - 1] + d * Power[i + 1 + (j + 1) - 1]
      BY <2>1, SumSteps
    <3>2. d \in 1..(SlotBase - 1)
      BY <2>1 DEF Hops
    <3> QED BY <2>1, <3>1, <3>2
  <2>4. PICK n \in Nat : Power[i + 1 + j] = n * (P * B)
    <3>1. i + 1 \in Nat
      BY <1>1
    <3>2. \E n \in Nat \ {0} : Power[i + 1 + j] = n * Power[i + 1]
      BY <3>1, PowersGrow
    <3> QED BY <1>1, <3>2, Zenon
  <2> HIDE DEF P, B, d
  <2>5. d * Power[i + 1 + j] = (d * n) * (P * B) /\ d * n \in Nat
    BY <1>1, <2>3, <2>4, Distributive
  <2>6. (m + d * n) * (P * B) = m * (P * B) + (d * n) * (P * B) /\ m + d * n \in Nat
    BY <1>1, <2>5, Distributive
  <2>7. f[i + 1] \in Nat /\ m * (P * B) \in Nat /\ (d * n) * (P * B) \in Nat
    BY <1>1, <2>1, <2>5, SumBounds
  <2>8. f[i + 1 + (j + 1)] = f[i + 1] + (m + d * n) * (P * B)
    BY <2>2, <2>3, <2>5, <2>6, <2>7
  <2> QED BY <2>6, <2>8
<1> HIDE DEF T
<1>4. Nat \subseteq T
  BY <1>2, <1>3, NatSetInduction
<1>5. PICK m \in Nat : f[k] = f[i + 1] + m * (P * B)
  <2>1. k - i - 1 \in Nat /\ i + 1 + (k - i - 1) = k
    BY <1>1
  <2> QED BY <1>4, <2>1 DEF T
<1> DEFINE d == h[i + 1]
<1>6. f[i + 1] = f[i] + d * P /\ d \in 1..(B - 1) /\ f[i] \in 0..(P - 1)
  <2>1. i + 1 \in 1..k /\ i \in 0..k /\ (i + 1) - 1 = i
    OBVIOUS
  <2>2. f[i + 1] = f[(i + 1) - 1] + d * Power[(i + 1) - 1]
    BY <2>1, SumSteps
  <2>3. d \in 1..(SlotBase - 1)
    BY <2>1 DEF Hops
  <2>4. f[i] \in 0..(Power[i] - 1)
    BY <1>1, <2>1, SumBounds
  <2> QED BY <2>1, <2>2, <2>3, <2>4
<1> HIDE DEF P, B, d
<1>7. f[k] = f[i] + (d + m * B) * P /\ d + m * B \in Nat
  <2>1. m * (P * B) = (m * B) * P /\ m * B \in Nat
    <3>1. P * B = B * P
      BY <1>1, Distributive
    <3> QED BY <1>1, <3>1, Distributive
  <2>2. (d + m * B) * P = d * P + (m * B) * P /\ d * P \in Int /\ (m * B) * P \in Int
    BY <1>1, <1>6, <2>1, Distributive
  <2> QED BY <1>1, <1>5, <1>6, <2>1, <2>2
<1>8. f[k] \div P = d + m * B
  <2> DEFINE x == f[k]
             q == d + m * B
             r == f[i]
  <2>1. q \in Nat /\ P \in Nat \ {0} /\ r \in 0..(P - 1) /\ x = r + q * P
    BY <1>1, <1>6, <1>7
  <2> HIDE DEF x, q, r
  <2>2. x \div P = q
    BY <2>1, Division
  <2> QED BY <2>2 DEF x, q
<1>9. (d + m * B) % B = d
  <2>1. d \in 0..(B - 1)
    BY <1>1, <1>6
  <2> DEFINE x == d + m * B
  <2>2. x = d + m * B /\ B \in Nat \ {0}
    BY <1>1
  <2> HIDE DEF x
  <2>3. x % B = d
    BY <2>1, <2>2, Division
  <2> QED BY <2>3 DEF x
<1> QED BY <1>8, <1>9 DEF GetChannelFromPath, P, B, d

\* The states of the loop of ReverseChannelPath.
Reversals(path, s) ==
    s = [n \in 0..MaxHops |->
           IF n = 0 THEN [rest |-> path, reversed |-> 0]
           ELSE LET popped == PopChannelFromPath(s[n - 1].rest)
                IN [rest |-> popped.path,
                    reversed |-> IF popped.channel = 0 THEN s[n - 1].reversed
                                 ELSE UpdateChannelPath(s[n - 1].reversed, popped.channel)]]

\* Backwards, a path has the same digits in the opposite order.
LEMMA PathReverses ==
    ASSUME NEW k \in 0..MaxHops, NEW h \in Hops(k), NEW f, Sums(h, k, f)
    PROVE  ReverseChannelPath(f[k]) = Digits([i \in 1..k |-> h[k + 1 - i]])
<1> DEFINE l == [i \in 1..k |-> h[k + 1 - i]]
<1>1. k \in Nat /\ MaxHops \in Nat /\ k <= MaxHops
  BY PathAssumption
<1>2. l \in Hops(k)
  <2>1. \A i \in 1..k : k + 1 - i \in 1..k
    BY <1>1
  <2> QED BY <2>1 DEF Hops
<1>3. PICK g : Sums(l, k, g)
  BY <1>1, SumsExist
<1> DEFINE At(n) == [rest |-> IF n <= k THEN f[k - n] ELSE 0,
                     reversed |-> IF n <= k THEN g[n] ELSE g[k]]
           s == [n \in 0..MaxHops |-> At(n)]
<1>4. f[0] = 0 /\ g[0] = 0
  BY <1>1, <1>3, SumSteps
<1>5. ASSUME NEW n \in 1..MaxHops
      PROVE  LET popped == PopChannelFromPath(At(n - 1).rest)
             IN At(n) = [rest |-> popped.path,
                         reversed |-> IF popped.channel = 0 THEN At(n - 1).reversed
                                      ELSE UpdateChannelPath(At(n - 1).reversed, popped.channel)]
  <2> DEFINE popped == PopChannelFromPath(At(n - 1).rest)
  <2>1. CASE n <= k
    <3>1. n - 1 <= k /\ n - 1 \in 0..k /\ k - (n - 1) \in 1..k /\ k - (n - 1) - 1 = k - n
          /\ n \in 1..k /\ k \in 1..MaxHops /\ k + 1 - n = k - (n - 1)
      BY <1>1, <2>1
    <3>2. popped = [path |-> f[k - n], channel |-> h[k + 1 - n]]
      BY <3>1, PathShrinks
    <3>3. h[k + 1 - n] \in 1..(SlotBase - 1) /\ l[n] = h[k + 1 - n]
      BY <3>1 DEF Hops
    <3>4. g[n] = g[n - 1] + l[n] * Power[n - 1]
      BY <1>1, <1>3, <3>1, SumSteps
    <3>5. UpdateChannelPath(g[n - 1], l[n]) = g[n]
      <4> DEFINE j == n - 1
      <4>1. j \in 0..k /\ j # MaxHops /\ (j = 0 <=> n = 1)
        BY <1>1, <3>1
      <4>2. UpdateChannelPath(g[j], l[n]) = IF j = 0 THEN l[n]
                                            ELSE IF j = MaxHops THEN NoPath
                                            ELSE g[j] + l[n] * Power[j]
        <5> HIDE DEF j, l
        <5> QED BY <1>2, <1>3, <4>1, PathGrows
      <4>3. ASSUME j = 0
            PROVE  g[n] = l[n]
        <5>1. g[n] = g[j] + l[n] * Power[j]
          BY <3>4
        <5> HIDE DEF j, l
        <5>2. l[n] \in Int
          BY <3>3, PathAssumption
        <5>3. g[j] = 0 /\ Power[j] = 1
          BY <1>4, <4>3, PowerFacts, Zenon
        <5> QED BY <5>1, <5>2, <5>3
      <4>4. g[n] = g[j] + l[n] * Power[j]
        BY <3>4
      <4> HIDE DEF l
      <4> QED BY <4>1, <4>2, <4>3, <4>4
    <3>6. At(n) = [rest |-> f[k - n], reversed |-> g[n]] /\ At(n - 1).reversed = g[n - 1]
      BY <2>1, <3>1
    <3>7. popped.path = f[k - n] /\ popped.channel = l[n] /\ l[n] # 0
      BY <3>2, <3>3, PathAssumption
    <3> HIDE DEF popped, At, l
    <3> QED BY <3>5, <3>6, <3>7 DEF popped
  <2>2. CASE n > k
    <3>1. At(n) = [rest |-> 0, reversed |-> g[k]]
      BY <1>1, <2>2
    <3>2. At(n - 1) = [rest |-> 0, reversed |-> g[k]]
      <4>1. CASE n - 1 = k
        BY <1>1, <1>4, <4>1
      <4>2. CASE n - 1 # k
        BY <1>1, <2>2, <4>2
      <4> QED BY <4>1, <4>2
    <3> HIDE DEF At
    <3>3. popped = [path |-> 0, channel |-> 0]
      BY <3>2 DEF PopChannelFromPath
    <3> QED BY <3>1, <3>2, <3>3
  <2> QED BY <1>1, <2>1, <2>2
<1>6. At(0) = [rest |-> f[k], reversed |-> 0]
  BY <1>1, <1>4
<1>7. At(MaxHops).reversed = g[k]
  BY <1>1
<1>8. Reversals(f[k], s)
  <2> HIDE DEF At
  <2>1. \A n \in 0..MaxHops : n # 0 => n \in 1..MaxHops /\ n - 1 \in 0..MaxHops
    BY <1>1
  <2>2. \A n \in 0..MaxHops : s[n] = At(n)
    OBVIOUS
  <2> QED BY <1>5, <1>6, <2>1, <2>2 DEF Reversals
<1>9. s[MaxHops].reversed = g[k]
  BY <1>1, <1>7
<1> HIDE DEF s, At
<1>10. ASSUME NEW t, Reversals(f[k], t)
       PROVE  t = s
  <2> DEFINE T == {n \in Nat : n <= MaxHops => t[n] = s[n]}
  <2>1. 0 \in T
    BY <1>1, <1>8, <1>10 DEF Reversals
  <2>2. ASSUME NEW n \in Nat, n \in T
        PROVE  n + 1 \in T
    <3> SUFFICES ASSUME n + 1 <= MaxHops PROVE t[n + 1] = s[n + 1]
      OBVIOUS
    <3>1. n + 1 \in 0..MaxHops /\ n + 1 # 0 /\ (n + 1) - 1 = n /\ n <= MaxHops
      BY <1>1
    <3>2. t[n] = s[n]
      BY <2>2, <3>1
    <3> QED BY <1>8, <1>10, <3>1, <3>2 DEF Reversals
  <2> HIDE DEF T
  <2>3. Nat \subseteq T
    BY <2>1, <2>2, NatSetInduction
  <2>4. \A n \in 0..MaxHops : t[n] = s[n]
    BY <1>1, <2>3 DEF T
  <2>5. t = [n \in 0..MaxHops |-> t[n]] /\ s = [n \in 0..MaxHops |-> s[n]]
    BY <1>8, <1>10 DEF Reversals
  <2> QED BY <2>4, <2>5
<1>11. IsCanonicalPath(f[k])
  <2>1. HopCount(f[k]) = k
    BY <1>1, PathGrows
  <2>2. ASSUME NEW i \in 0..(k - 1)
        PROVE  GetChannelFromPath(f[k], i) # 0
    <3>1. i + 1 \in 1..k
      BY <1>1
    <3>2. h[i + 1] # 0
      BY <3>1, PathAssumption DEF Hops
    <3> QED BY <1>1, <3>2, SlotsHold
  <2> QED BY <2>1, <2>2 DEF IsCanonicalPath
<1>12. ReverseChannelPath(f[k]) = (CHOOSE t : Reversals(f[k], t))[MaxHops].reversed
  BY <1>11, Zenon DEF ReverseChannelPath, Reversals
<1>13. (CHOOSE t : Reversals(f[k], t)) = s
  BY <1>8, <1>10, Zenon
<1>14. Digits(l) = g[k]
  <2>1. l \in [1..k -> Int]
    BY <1>2, PathAssumption DEF Hops
  <2> HIDE DEF l
  <2> QED BY <1>1, <1>3, <2>1, DigitsAreSums
<1> QED BY <1>9, <1>12, <1>13, <1>14

-----------------------------------------------------------------------------
(* A path is the way a packet came.                                        *)

\* A channel more.
LEMMA PathExtends ==
    ASSUME NEW k \in 0..MaxHops, NEW h \in Hops(k), NEW c \in 1..(SlotBase - 1),
           NEW x, x = UpdateChannelPath(Digits(h), c), x # NoPath
    PROVE  /\ k + 1 \in 0..MaxHops
           /\ \A l \in Hops(k + 1) :
                 (\A i \in 1..k : l[i] = h[i]) /\ l[k + 1] = c => x = Digits(l)
<1>1. k \in Nat /\ k + 1 \in Nat /\ k \in 0..k /\ MaxHops \in Nat \ {0} /\ c \in Int
  BY PathAssumption
<1>2. PICK f : Sums(h, k, f)
  BY <1>1, SumsExist
<1>3. Digits(h) = f[k]
  <2>1. h \in [1..k -> Int]
    BY PathAssumption DEF Hops
  <2> QED BY <1>1, <1>2, <2>1, DigitsAreSums
<1>4. x = IF k = 0 THEN c ELSE IF k = MaxHops THEN NoPath ELSE f[k] + c * Power[k]
  BY <1>1, <1>2, <1>3, PathGrows
<1>5. k # MaxHops
  BY <1>1, <1>4
<1>6. x = f[k] + c * Power[k]
  <2>1. k = 0 => f[k] = 0 /\ Power[k] = 1
    BY <1>1, <1>2, SumSteps, PowerFacts
  <2>2. k = 0 => c = f[k] + c * Power[k]
    BY <1>1, <2>1
  <2> QED BY <1>4, <1>5, <2>2
<1>7. ASSUME NEW l \in Hops(k + 1), \A i \in 1..k : l[i] = h[i], l[k + 1] = c
      PROVE  x = Digits(l)
  <2>1. PICK g : Sums(l, k + 1, g)
    BY <1>1, SumsExist
  <2>2. k \in 0..(k + 1) /\ k + 1 \in 1..(k + 1) /\ (k + 1) - 1 = k
    BY <1>1
  <2>3. g[k] = f[k]
    BY <1>1, <1>2, <1>7, <2>1, <2>2, SumsAgree
  <2>4. g[k + 1] = g[(k + 1) - 1] + l[k + 1] * Power[(k + 1) - 1]
    BY <1>1, <2>1, <2>2, SumSteps
  <2>5. g[k + 1] = f[k] + c * Power[k]
    BY <1>7, <2>2, <2>3, <2>4
  <2>6. l \in [1..(k + 1) -> Int]
    BY PathAssumption DEF Hops
  <2>7. Digits(l) = g[k + 1]
    BY <1>1, <2>1, <2>6, DigitsAreSums
  <2> QED BY <1>6, <2>5, <2>7
<1>8. k + 1 \in 0..MaxHops
  BY <1>1, <1>5
<1> QED BY <1>7, <1>8

\* The channel a packet leaves by, and the one it arrives by.
LEMMA ChannelDigits ==
    ASSUME NEW p, IsPacket(p)
    PROVE  p.channel \in 1..(SlotBase - 1) /\ Destination(p).id \in 1..(SlotBase - 1)
<1>1. p.chain \in Chains /\ p.channel \in DOMAIN Channels[p.chain]
  BY DEF IsPacket
<1>2. /\ p.channel \in 1..(SlotBase - 1) /\ Destination(p).chain \in Chains
      /\ Destination(p).id \in DOMAIN Channels[Destination(p).chain]
  BY <1>1, ForwardAssumption DEF Destination
<1> QED BY <1>2, ForwardAssumption

\* A child's path is its parent's, with the channel the parent arrived by and
\* the one the child leaves by.
LEMMA ChildPath ==
    ASSUME NEW p, IsPacket(p), NEW q, q = buildForwardChild(p), q # NoPacket,
           NEW k \in 0..MaxHops, NEW h \in Hops(k), p.path = Digits(h)
    PROVE  /\ k + 2 \in 0..MaxHops
           /\ \A l \in Hops(k + 2) :
                 (\A i \in 1..k : l[i] = h[i])
                 /\ l[k + 1] = Destination(p).id /\ l[k + 2] = q.channel
                 => q.path = Digits(l)
<1> DEFINE c == Destination(p).id
           d == q.channel
           x == UpdateChannelPath(p.path, c)
<1>1. x # NoPath /\ q.path = UpdateChannelPath(x, d) /\ q.path # NoPath
  BY DEF buildForwardChild, DequeueChannelFromPath
<1>2. c \in 1..(SlotBase - 1) /\ d \in 1..(SlotBase - 1)
  BY ChannelDigits, ChildIsPacket
<1> HIDE DEF c, d
<1>3. /\ k + 1 \in 0..MaxHops
      /\ \A l \in Hops(k + 1) :
            (\A i \in 1..k : l[i] = h[i]) /\ l[k + 1] = c => x = Digits(l)
  BY <1>1, <1>2, PathExtends
<1> DEFINE m == [i \in 1..(k + 1) |-> IF i <= k THEN h[i] ELSE c]
<1>4. k \in Nat /\ k + 1 \in Nat /\ k + 1 + 1 = k + 2
  BY PathAssumption
<1>5. m \in Hops(k + 1) /\ (\A i \in 1..k : m[i] = h[i]) /\ m[k + 1] = c
  <2>1. \A i \in 1..(k + 1) : i <= k => i \in 1..k
    BY <1>4
  <2>2. k + 1 \in 1..(k + 1) /\ ~(k + 1 <= k) /\ \A i \in 1..k : i \in 1..(k + 1) /\ i <= k
    BY <1>4
  <2>3. \A i \in 1..(k + 1) : m[i] \in 1..(SlotBase - 1)
    BY <1>2, <2>1 DEF Hops
  <2> QED BY <2>2, <2>3 DEF Hops
<1> HIDE DEF m, x
<1>6. x = Digits(m)
  BY <1>3, <1>5
<1>7. /\ k + 1 + 1 \in 0..MaxHops
      /\ \A l \in Hops(k + 1 + 1) :
            (\A i \in 1..(k + 1) : l[i] = m[i]) /\ l[k + 1 + 1] = d => q.path = Digits(l)
  BY <1>1, <1>2, <1>3, <1>5, <1>6, PathExtends
<1>8. ASSUME NEW l \in Hops(k + 2), \A i \in 1..k : l[i] = h[i], l[k + 1] = c, l[k + 2] = d
      PROVE  q.path = Digits(l)
  <2>1. \A i \in 1..(k + 1) : l[i] = m[i]
    <3> TAKE i \in 1..(k + 1)
    <3>1. i \in 1..k \/ i = k + 1
      BY <1>4
    <3> QED BY <1>5, <1>8, <3>1
  <2> QED BY <1>4, <1>7, <1>8, <2>1
<1> QED BY <1>4, <1>7, <1>8 DEF c, d

\* The ancestors of a packet, itself the first.
Ancestors(p, u) ==
    LET d == p.salt.hashed
    IN /\ u[0] = p
       /\ \A n \in 0..d :
             /\ u[n] \in DOMAIN net /\ net[u[n]].outcome # "unsent"
             /\ u[n].salt.hashed = d - n
       /\ \A n \in 0..(d - 1) : u[n] \in DOMAIN lineage /\ lineage[u[n]] = u[n + 1]

\* The channels on the way from the oldest ancestor.
Way(u, d) ==
    [i \in 1..(2 * d) |-> IF i % 2 = 1 THEN Destination(u[d - (i \div 2)]).id
                          ELSE u[d - (i \div 2)].channel]

OnRoute(p) ==
    /\ 2 * p.salt.hashed <= MaxHops
    /\ \E u : Ancestors(p, u) /\ p.path = Digits(Way(u, p.salt.hashed))

PathInv == \A p \in DOMAIN net : net[p].outcome # "unsent" => OnRoute(p)

LEMMA Halves ==
    ASSUME NEW d \in Nat, NEW i \in 1..(2 * d)
    PROVE  /\ d - (i \div 2) \in 0..d /\ (i % 2 = 1 => d - (i \div 2) \in 1..d)
           /\ (i % 2 # 1 => d - (i \div 2) \in 0..(d - 1))
OBVIOUS

LEMMA WayIsHops ==
    ASSUME NEW d \in Nat, NEW u, \A n \in 0..d : IsPacket(u[n])
    PROVE  Way(u, d) \in Hops(2 * d)
<1>1. \A n \in 0..d : u[n].channel \in 1..(SlotBase - 1) /\ Destination(u[n]).id \in 1..(SlotBase - 1)
  BY ChannelDigits
<1>2. \A i \in 1..(2 * d) : d - (i \div 2) \in 0..d
  BY Halves
<1> QED BY <1>1, <1>2 DEF Way, Hops

\* Packets stay sent, and children remain children.
Grows ==
    /\ \A x \in DOMAIN net : net[x].outcome # "unsent"
                             => x \in DOMAIN net' /\ net'[x].outcome # "unsent"
    /\ \A x \in DOMAIN lineage : x \in DOMAIN lineage' /\ lineage'[x] = lineage[x]

LEMMA OneGrows ==
    ASSUME WaitInv, NEW p, OneStep(p)
    PROVE  Grows
<1>1. p \in DOMAIN net => Known(net, p) = net[p]
  BY DEF Known
<1> QED BY <1>1 DEF OneStep, Only, Grows

LEMMA ForwardGrows ==
    ASSUME WaitInv, NEW p, NEW q, ForwardStep(p, q)
    PROVE  Grows /\ q \in DOMAIN lineage' /\ lineage'[q] = p
<1>1. q \in DOMAIN net => net[q].outcome = "unsent"
  BY DEF ForwardStep, Known
<1>2. q \notin DOMAIN lineage
  BY <1>1 DEF WaitInv, Families
<1>3. lineage' = Put(lineage, q, p)
  BY DEF ForwardStep, Descend
<1>4. /\ q \in DOMAIN lineage' /\ lineage'[q] = p
      /\ \A x \in DOMAIN lineage : x \in DOMAIN lineage' /\ lineage'[x] = lineage[x]
  BY <1>2, <1>3 DEF Put
<1>5. \A x \in DOMAIN net : net[x].outcome # "unsent"
                            => x \in DOMAIN net' /\ net'[x].outcome # "unsent"
  BY <1>1 DEF ForwardStep
<1> QED BY <1>4, <1>5 DEF Grows

LEMMA AnswerGrows ==
    ASSUME WaitInv, NEW q, NEW p, NEW ack, AnswerStep(q, p, ack)
    PROVE  Grows
<1>1. p \in DOMAIN net /\ net[p].outcome # "unsent"
  BY DEF AnswerStep, WaitInv, Families
<1> QED BY <1>1 DEF AnswerStep, Grows

\* What was on its way stays there.
LEMMA RouteKept ==
    ASSUME Grows, NEW p, OnRoute(p)
    PROVE  OnRoute(p)'
<1>1. PICK u : Ancestors(p, u) /\ p.path = Digits(Way(u, p.salt.hashed))
  BY DEF OnRoute
<1>2. Ancestors(p, u)'
  BY <1>1 DEF Ancestors, Grows
<1> QED BY <1>1, <1>2 DEF OnRoute

\* What a user sends has come no way.
LEMMA NoWay ==
    ASSUME NEW u
    PROVE  Digits(Way(u, 0)) = 0
<1>1. Way(u, 0) \in [1..0 -> Int]
  BY DEF Way
<1>2. PICK f : Sums(Way(u, 0), 0, f)
  BY SumsExist
<1>3. f[0] = 0
  BY <1>2, SumSteps
<1> QED BY <1>1, <1>2, <1>3, DigitsAreSums

\* A child has come the way of its parent and one hop more.
LEMMA ChildOnRoute ==
    ASSUME WaitInv, NEW p, NEW q, ForwardStep(p, q), OnRoute(p)
    PROVE  OnRoute(q)'
<1>1. PICK d : d = p.salt.hashed
  OBVIOUS
<1>2. /\ p \in DOMAIN net /\ net[p].outcome = "sent" /\ IsPacket(p) /\ IsPacket(q)
      /\ q = buildForwardChild(p) /\ q # NoPacket /\ q.salt.hashed = d + 1
      /\ q \in DOMAIN net' /\ net'[q].outcome = "sent"
  BY <1>1 DEF ForwardStep, WaitInv, Packets
<1>3. PICK u : Ancestors(p, u) /\ p.path = Digits(Way(u, d))
  BY <1>1 DEF OnRoute
<1>4. d \in Nat /\ Way(u, d) \in Hops(2 * d) /\ 2 * d <= MaxHops
  <2>1. d \in Nat /\ 2 * d <= MaxHops
    BY <1>1, <1>2 DEF OnRoute, IsPacket, Salts
  <2>2. \A n \in 0..d : IsPacket(u[n])
    BY <1>1, <1>3 DEF Ancestors, WaitInv, Packets
  <2> QED BY <2>1, <2>2, WayIsHops
<1>5. 2 * d \in 0..MaxHops /\ MaxHops \in Nat
  BY <1>4, PathAssumption
<1>6. /\ 2 * d + 2 \in 0..MaxHops
      /\ \A l \in Hops(2 * d + 2) :
            (\A i \in 1..(2 * d) : l[i] = Way(u, d)[i])
            /\ l[2 * d + 1] = Destination(p).id /\ l[2 * d + 2] = q.channel
            => q.path = Digits(l)
  BY <1>2, <1>3, <1>4, <1>5, ChildPath
<1>7. PICK v : v = [n \in 0..(d + 1) |-> IF n = 0 THEN q ELSE u[n - 1]]
  OBVIOUS
<1>8. u[0] = p /\ v[0] = q /\ \A n \in 0..d : v[n + 1] = u[n]
  <2>1. 0 \in 0..(d + 1) /\ \A n \in 0..d : n + 1 \in 0..(d + 1) /\ n + 1 # 0 /\ (n + 1) - 1 = n
    BY <1>4
  <2> QED BY <1>3, <1>7, <2>1 DEF Ancestors
<1>9. Ancestors(q, v)'
  <2>1. Ancestors(p, u)'
    BY <1>3, ForwardGrows DEF Ancestors, Grows
  <2>2. ASSUME NEW n \in 0..(d + 1)
        PROVE  v[n] \in DOMAIN net' /\ net'[v[n]].outcome # "unsent" /\ v[n].salt.hashed = d + 1 - n
    <3>1. CASE n = 0
      BY <1>2, <1>4, <1>8, <3>1
    <3>2. CASE n # 0
      <4>1. n - 1 \in 0..d /\ (n - 1) + 1 = n /\ d - (n - 1) = d + 1 - n
        BY <1>4, <3>2
      <4>2. v[n] = u[n - 1]
        BY <1>8, <4>1
      <4>3. /\ u[n - 1] \in DOMAIN net' /\ net'[u[n - 1]].outcome # "unsent"
            /\ u[n - 1].salt.hashed = d - (n - 1)
        BY <1>1, <2>1, <4>1 DEF Ancestors
      <4> QED BY <4>1, <4>2, <4>3
    <3> QED BY <3>1, <3>2
  <2>3. ASSUME NEW n \in 0..(d + 1 - 1)
        PROVE  v[n] \in DOMAIN lineage' /\ lineage'[v[n]] = v[n + 1]
    <3>1. n \in 0..d
      BY <1>4
    <3>2. CASE n = 0
      BY <1>8, <3>1, <3>2, ForwardGrows
    <3>3. CASE n # 0
      <4>1. n - 1 \in 0..(d - 1) /\ n - 1 \in 0..d /\ (n - 1) + 1 = n
        BY <1>4, <3>1, <3>3
      <4>2. v[n] = u[n - 1] /\ v[n + 1] = u[n]
        BY <1>8, <3>1, <4>1
      <4>3. u[n - 1] \in DOMAIN lineage' /\ lineage'[u[n - 1]] = u[(n - 1) + 1]
        BY <1>1, <2>1, <4>1 DEF Ancestors
      <4> QED BY <4>1, <4>2, <4>3
    <3> QED BY <3>2, <3>3
  <2>4. /\ \A n \in 0..q.salt.hashed :
              /\ v[n] \in DOMAIN net' /\ net'[v[n]].outcome # "unsent"
              /\ v[n].salt.hashed = q.salt.hashed - n
        /\ \A n \in 0..(q.salt.hashed - 1) : v[n] \in DOMAIN lineage' /\ lineage'[v[n]] = v[n + 1]
    <3> DEFINE e == q.salt.hashed
    <3>1. e = d + 1
      BY <1>2
    <3>2. \A n \in 0..e : n \in 0..(d + 1) /\ e - n = d + 1 - n
      BY <1>4, <3>1
    <3>3. \A n \in 0..(e - 1) : n \in 0..(d + 1 - 1)
      BY <1>4, <3>1
    <3> HIDE DEF e
    <3>4. \A n \in 0..e : /\ v[n] \in DOMAIN net' /\ net'[v[n]].outcome # "unsent"
                          /\ v[n].salt.hashed = e - n
      BY <2>2, <3>2
    <3>5. \A n \in 0..(e - 1) : v[n] \in DOMAIN lineage' /\ lineage'[v[n]] = v[n + 1]
      BY <2>3, <3>3
    <3> QED BY <3>4, <3>5 DEF e
  <2> QED BY <1>8, <2>4 DEF Ancestors
<1>10. \A i \in 1..(2 * d) : Way(v, d + 1)[i] = Way(u, d)[i]
  <2> TAKE i \in 1..(2 * d)
  <2>1. i \in 1..(2 * (d + 1)) /\ d - (i \div 2) \in 0..d /\ (d + 1) - (i \div 2) = (d - (i \div 2)) + 1
    BY <1>4, Halves
  <2>2. v[(d + 1) - (i \div 2)] = u[d - (i \div 2)]
    BY <1>8, <2>1
  <2> QED BY <2>1, <2>2 DEF Way
<1>11. Way(v, d + 1)[2 * d + 1] = Destination(p).id
  <2>1. /\ 2 * d + 1 \in 1..(2 * (d + 1)) /\ (2 * d + 1) % 2 = 1 /\ (2 * d + 1) \div 2 = d
        /\ (d + 1) - d = 0 + 1 /\ 0 \in 0..d
    BY <1>4
  <2>2. v[(d + 1) - ((2 * d + 1) \div 2)] = p
    BY <1>8, <2>1
  <2> QED BY <2>1, <2>2 DEF Way
<1>12. Way(v, d + 1)[2 * d + 2] = q.channel
  <2>1. /\ 2 * d + 2 \in 1..(2 * (d + 1)) /\ (2 * d + 2) % 2 # 1 /\ (2 * d + 2) \div 2 = d + 1
        /\ (d + 1) - (d + 1) = 0
    BY <1>4
  <2>2. v[(d + 1) - ((2 * d + 2) \div 2)] = q
    BY <1>8, <2>1
  <2> QED BY <2>1, <2>2 DEF Way
<1>13. Way(v, d + 1) \in Hops(2 * d + 2) /\ 2 * (d + 1) = 2 * d + 2
  <2>1. WaitInv'
    BY ForwardWaits
  <2>2. \A n \in 0..(d + 1) : IsPacket(v[n])
    BY <1>2, <1>9, <2>1 DEF WaitInv, Packets, Ancestors
  <2>3. d + 1 \in Nat
    BY <1>4
  <2>4. 2 * (d + 1) = 2 * d + 2
    BY <1>4
  <2> QED BY <2>2, <2>3, <2>4, WayIsHops
<1>14. q.path = Digits(Way(v, d + 1))
  BY <1>6, <1>10, <1>11, <1>12, <1>13
<1>15. 2 * (d + 1) <= MaxHops
  BY <1>5, <1>6, <1>13
<1> QED BY <1>2, <1>9, <1>14, <1>15 DEF OnRoute

LEMMA PathStep ==
    ASSUME WaitInv, PathInv, [Next]_vars
    PROVE  PathInv'
<1>1. ASSUME Grows, NEW x \in DOMAIN net, net[x].outcome # "unsent"
      PROVE  OnRoute(x)'
  BY <1>1, RouteKept DEF PathInv
<1>2. ASSUME NEW p, OneStep(p), Kept(p) \/ Replied(p)
      PROVE  PathInv'
  <2> SUFFICES ASSUME NEW x \in DOMAIN net', net'[x].outcome # "unsent"
               PROVE  OnRoute(x)'
    BY DEF PathInv
  <2>1. Grows
    BY <1>2, OneGrows
  <2>2. x \in DOMAIN net /\ x # p => net[x].outcome # "unsent"
    BY <1>2 DEF OneStep, Only
  <2>3. CASE x \in DOMAIN net /\ net[x].outcome # "unsent"
    BY <1>1, <2>1, <2>3
  <2>4. CASE ~(x \in DOMAIN net /\ net[x].outcome # "unsent")
    <3>1. x = p /\ Known(net, p).outcome = "unsent"
      BY <1>2, <2>2, <2>4 DEF OneStep, Only, Known, Unsent
    <3>2. Kept(p)
      BY <1>2, <3>1 DEF Replied
    <3>3. p.salt.hashed = 0 /\ p.path = 0
      BY <3>1, <3>2 DEF Kept
    <3>4. PICK u : u = [n \in 0..0 |-> p]
      OBVIOUS
    <3>5. Ancestors(p, u)'
      BY <3>1, <3>3, <3>4 DEF Ancestors
    <3>6. p.path = Digits(Way(u, p.salt.hashed)) /\ 2 * p.salt.hashed <= MaxHops
      BY <3>3, NoWay, PathAssumption
    <3> QED BY <3>1, <3>5, <3>6 DEF OnRoute
  <2> QED BY <2>3, <2>4
<1>3. ASSUME NEW p, NEW q, ForwardStep(p, q)
      PROVE  PathInv'
  <2> SUFFICES ASSUME NEW x \in DOMAIN net', net'[x].outcome # "unsent"
               PROVE  OnRoute(x)'
    BY DEF PathInv
  <2>1. Grows
    BY <1>3, ForwardGrows
  <2>2. CASE x = q
    <3>1. OnRoute(p)
      BY <1>3 DEF ForwardStep, PathInv
    <3> QED BY <1>3, <2>2, <3>1, ChildOnRoute
  <2>3. CASE x # q
    <3>1. x \in DOMAIN net /\ net[x].outcome # "unsent"
      BY <1>3, <2>3 DEF ForwardStep
    <3> QED BY <1>1, <2>1, <3>1
  <2> QED BY <2>2, <2>3
<1>4. ASSUME NEW q, NEW p, NEW ack, AnswerStep(q, p, ack)
      PROVE  PathInv'
  <2> SUFFICES ASSUME NEW x \in DOMAIN net', net'[x].outcome # "unsent"
               PROVE  OnRoute(x)'
    BY DEF PathInv
  <2>1. Grows
    BY <1>4, AnswerGrows
  <2>2. x \in DOMAIN net /\ net[x].outcome # "unsent"
    BY <1>4 DEF AnswerStep
  <2> QED BY <1>1, <2>1, <2>2
<1>5. CASE Next
  BY <1>2, <1>3, <1>4, <1>5, Steps
<1>6. CASE UNCHANGED vars
  <2> SUFFICES ASSUME NEW x \in DOMAIN net', net'[x].outcome # "unsent"
               PROVE  OnRoute(x)'
    BY DEF PathInv
  <2>1. Grows /\ x \in DOMAIN net /\ net[x].outcome # "unsent"
    BY <1>6 DEF vars, Grows
  <2> QED BY <1>1, <2>1
<1> QED BY <1>5, <1>6

LEMMA PathInit == Init => PathInv
BY DEF Init, PathInv

-----------------------------------------------------------------------------
(* The route that is told from the lineage is the way.                     *)

\* The ancestors as Route climbs to them.
Climb(p, w) ==
    w = [n \in 0..MaxHops |->
           IF n = 0 THEN p
           ELSE IF w[n - 1] \in DOMAIN lineage THEN lineage[w[n - 1]]
           ELSE w[n - 1]]

LEMMA ClimbsAgree ==
    ASSUME NEW p, NEW s, Climb(p, s), NEW t, Climb(p, t)
    PROVE  s = t
<1>1. MaxHops \in Nat
  BY PathAssumption
<1> DEFINE T == {n \in Nat : n <= MaxHops => t[n] = s[n]}
<1>2. 0 \in T
  BY <1>1 DEF Climb
<1>3. ASSUME NEW n \in Nat, n \in T
      PROVE  n + 1 \in T
  <2> SUFFICES ASSUME n + 1 <= MaxHops PROVE t[n + 1] = s[n + 1]
    OBVIOUS
  <2>1. n + 1 \in 0..MaxHops /\ n + 1 # 0 /\ (n + 1) - 1 = n /\ n <= MaxHops
    BY <1>1
  <2>2. t[n] = s[n]
    BY <1>3, <2>1
  <2> QED BY <2>1, <2>2 DEF Climb
<1> HIDE DEF T
<1>4. Nat \subseteq T
  BY <1>2, <1>3, NatSetInduction
<1>5. \A n \in 0..MaxHops : t[n] = s[n]
  BY <1>1, <1>4 DEF T
<1>6. t = [n \in 0..MaxHops |-> t[n]] /\ s = [n \in 0..MaxHops |-> s[n]]
  BY DEF Climb
<1> QED BY <1>5, <1>6

LEMMA RouteIsWay ==
    ASSUME WaitInv, NEW p, NEW u, Ancestors(p, u),
           NEW d \in Nat, d = p.salt.hashed, 2 * d <= MaxHops
    PROVE  Route(p) = Way(u, d)
<1>1. MaxHops \in Nat /\ d <= MaxHops
  BY PathAssumption
<1>2. /\ u[0] = p
      /\ \A n \in 0..d : u[n] \in DOMAIN net /\ u[n].salt.hashed = d - n
      /\ \A n \in 0..(d - 1) : u[n] \in DOMAIN lineage /\ lineage[u[n]] = u[n + 1]
  BY DEF Ancestors
<1>3. u[d] \notin DOMAIN lineage
  <2> SUFFICES ASSUME u[d] \in DOMAIN lineage PROVE FALSE
    OBVIOUS
  <2>1. lineage[u[d]] \in DOMAIN net /\ u[d].salt.hashed = lineage[u[d]].salt.hashed + 1
    BY DEF WaitInv, Families
  <2>2. lineage[u[d]].salt.hashed \in Nat
    BY <2>1 DEF WaitInv, Packets, IsPacket, Salts
  <2>3. u[d].salt.hashed = d - d
    BY <1>2
  <2> QED BY <2>1, <2>2, <2>3
<1> DEFINE w == [n \in 0..MaxHops |-> IF n <= d THEN u[n] ELSE u[d]]
<1>4. Climb(p, w)
  <2>1. ASSUME NEW n \in 0..MaxHops
        PROVE  w[n] = IF n = 0 THEN p
                      ELSE IF w[n - 1] \in DOMAIN lineage THEN lineage[w[n - 1]]
                      ELSE w[n - 1]
    <3>1. CASE n = 0
      BY <1>1, <1>2, <3>1
    <3>2. CASE n # 0 /\ n <= d
      <4>1. n - 1 \in 0..(d - 1) /\ n - 1 \in 0..MaxHops /\ n - 1 <= d /\ (n - 1) + 1 = n
        BY <1>1, <3>2
      <4>2. w[n] = u[n] /\ w[n - 1] = u[n - 1]
        BY <3>2, <4>1
      <4>3. u[n - 1] \in DOMAIN lineage /\ lineage[u[n - 1]] = u[n]
        BY <1>2, <4>1
      <4> HIDE DEF w
      <4> QED BY <3>2, <4>2, <4>3
    <3>3. CASE ~(n <= d)
      <4>1. n # 0 /\ n - 1 \in 0..MaxHops /\ (n - 1 = d \/ ~(n - 1 <= d))
        BY <1>1, <3>3
      <4>2. w[n] = u[d] /\ w[n - 1] = u[d]
        BY <3>3, <4>1
      <4> HIDE DEF w
      <4> QED BY <1>3, <4>1, <4>2
    <3> QED BY <3>1, <3>2, <3>3
  <2>2. w = [n \in 0..MaxHops |-> w[n]]
    OBVIOUS
  <2> HIDE DEF w
  <2> QED BY <2>1, <2>2 DEF Climb
<1>5. Cardinality({w[n] : n \in 0..MaxHops}) = d + 1
  <2> DEFINE S == {w[n] : n \in 0..MaxHops}
             f == [n \in 0..d |-> u[n]]
  <2>1. \A n \in 0..d : w[n] = u[n] /\ n \in 0..MaxHops
    BY <1>1
  <2>2. \A n \in 0..MaxHops : \E m \in 0..d : w[n] = u[m]
    <3> TAKE n \in 0..MaxHops
    <3>1. CASE n <= d
      <4>1. n \in 0..d
        BY <1>1, <3>1
      <4> QED BY <2>1, <4>1
    <3>2. CASE ~(n <= d)
      <4>1. d \in 0..d /\ w[n] = u[d]
        BY <3>2
      <4> QED BY <4>1
    <3> QED BY <3>1, <3>2
  <2> HIDE DEF w
  <2>3. \A m, n \in 0..d : u[m] = u[n] => m = n
    <3> SUFFICES ASSUME NEW m \in 0..d, NEW n \in 0..d, u[m] = u[n] PROVE m = n
      OBVIOUS
    <3>1. d - m = d - n
      BY <1>2
    <3> QED BY <3>1
  <2>4. f \in Bijection(0..d, S)
    <3>1. f \in [0..d -> S]
      BY <2>1
    <3>2. \A x \in S : \E m \in 0..d : f[m] = x
      BY <2>2
    <3>3. \A m, n \in 0..d : f[m] = f[n] => m = n
      BY <2>3
    <3> HIDE DEF f, S
    <3> QED BY <3>1, <3>2, <3>3 DEF Bijection, Injection, Surjection, IsInjective
  <2>5. IsFiniteSet(0..d) /\ Cardinality(0..d) = d + 1
    <3>1. 0 \in Int /\ d \in Int /\ ~(0 > d) /\ d - 0 + 1 = d + 1
      OBVIOUS
    <3> QED BY <3>1, FS_Interval
  <2> HIDE DEF f, S
  <2>6. Cardinality(S) = Cardinality(0..d)
    BY <2>4, <2>5, FS_Bijection DEF ExistsBijection
  <2> QED BY <2>5, <2>6 DEF S
<1>6. (CHOOSE s : Climb(p, s)) = w
  <2> HIDE DEF w
  <2> QED BY <1>4, ClimbsAgree
<1> DEFINE t == CHOOSE s : Climb(p, s)
           depth == Cardinality({t[n] : n \in 0..MaxHops}) - 1
<1>7. Route(p) = [i \in 1..(2 * depth) |-> IF i % 2 = 1 THEN Destination(t[depth - (i \div 2)]).id
                                           ELSE t[depth - (i \div 2)].channel]
  BY Zenon DEF Route, Climb
<1>8. \A n \in 0..d : w[n] = u[n]
  BY <1>1
<1> HIDE DEF w
<1>9. Route(p) = [i \in 1..(2 * d) |-> IF i % 2 = 1 THEN Destination(w[d - (i \div 2)]).id
                                       ELSE w[d - (i \div 2)].channel]
  <2>1. t = w
    BY <1>6
  <2> HIDE DEF t
  <2>2. depth = d
    BY <1>5, <2>1
  <2> HIDE DEF depth
  <2> QED BY <1>7, <2>1, <2>2, Zenon
<1>10. \A i \in 1..(2 * d) : w[d - (i \div 2)] = u[d - (i \div 2)]
  BY <1>8, Halves
<1> QED BY <1>9, <1>10 DEF Way

\* Whatever the channels and the number of slots, the path a sent packet carries
\* is the channels it came through, in order, and reversed it is the way back.
\* (path.gno: UpdateChannelPath, ReverseChannelPath; forward.gno: buildForwardChild)
THEOREM PathsAlwaysRoutes == FairSpec => []PathIsRoute
<1>1. WaitInv /\ PathInv => PathIsRoute
  <2> SUFFICES ASSUME WaitInv, PathInv, NEW p \in DOMAIN net, net[p].outcome # "unsent"
               PROVE  /\ p.path = Digits(Route(p))
                      /\ ReverseChannelPath(p.path) =
                            Digits([i \in DOMAIN Route(p) |-> Route(p)[Len(Route(p)) + 1 - i]])
    BY DEF PathIsRoute
  <2>1. PICK d : d = p.salt.hashed
    OBVIOUS
  <2>2. OnRoute(p) /\ d \in Nat
    BY <2>1 DEF PathInv, WaitInv, Packets, IsPacket, Salts
  <2>3. PICK u : Ancestors(p, u) /\ p.path = Digits(Way(u, d))
    BY <2>1, <2>2 DEF OnRoute
  <2>4. 2 * d <= MaxHops /\ 2 * d \in 0..MaxHops
    BY <2>1, <2>2, PathAssumption DEF OnRoute
  <2>5. Route(p) = Way(u, d)
    BY <2>1, <2>2, <2>3, <2>4, RouteIsWay
  <2>6. PICK h : h = Way(u, d)
    OBVIOUS
  <2>7. h \in Hops(2 * d)
    <3>1. \A n \in 0..d : IsPacket(u[n])
      BY <2>1, <2>3 DEF Ancestors, WaitInv, Packets
    <3> QED BY <2>2, <2>6, <3>1, WayIsHops
  <2>8. PICK k : k = 2 * d
    OBVIOUS
  <2>9. k \in Nat /\ k \in 0..MaxHops /\ h \in Hops(k)
    BY <2>2, <2>4, <2>7, <2>8
  <2>10. PICK f : Sums(h, k, f)
    BY <2>9, SumsExist
  <2>11. h \in [1..k -> Int] /\ DOMAIN h = 1..k /\ Len(h) = k
    <3>1. h \in [1..k -> Int]
      BY <2>9, PathAssumption DEF Hops
    <3> QED BY <2>9, <3>1
  <2>12. Digits(h) = f[k]
    BY <2>9, <2>10, <2>11, DigitsAreSums
  <2>13. ReverseChannelPath(f[k]) = Digits([i \in 1..k |-> h[k + 1 - i]])
    BY <2>9, <2>10, PathReverses
  <2>14. p.path = Digits(h) /\ Route(p) = h
    BY <2>3, <2>5, <2>6
  <2>15. ReverseChannelPath(p.path) = Digits([i \in DOMAIN h |-> h[Len(h) + 1 - i]])
    <3>1. [i \in DOMAIN h |-> h[Len(h) + 1 - i]] = [i \in 1..k |-> h[k + 1 - i]]
      BY <2>11, Zenon
    <3> QED BY <2>12, <2>13, <2>14, <3>1, Zenon
  <2> QED BY <2>14, <2>15, Zenon
<1>2. WaitInv /\ PathInv /\ [Next]_vars => (WaitInv /\ PathInv)'
  BY WaitStep, PathStep
<1> QED BY <1>1, <1>2, WaitInit, PathInit, PTL DEF FairSpec

===============================================================================
