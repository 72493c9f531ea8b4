----------------------------- MODULE ZkgmTokens -----------------------------
(***************************************************************************)
(* Token orders between two chains that both run ucs03_zkgm: users send    *)
(* packets of one order or of a batch of orders, relayers deliver them,    *)
(* market makers fill them, and answers or timeouts settle them.  The      *)
(* packets move as PacketDelivery promises, which CorePacket implements.   *)
(***************************************************************************)
EXTENDS ZkgmTokenOrder

CONSTANTS
    Packets,        \* the packets users may send
    Relayers,       \* who relays and fills
    RelayerMsgs,    \* the messages they attach: none, or an address
    Endowment,      \* Endowment[d][h]: the local tokens held at the start
    Gifts           \* who may hand whom a voucher unit: pairs of accounts

VARIABLES outcome, receipt, told, ledger

tvars == <<outcome, receipt, told, ledger>>

Chains == {"A", "B"}

OrderAcks ==
    {Refused, Protocol} \cup
    {FilledBy(m) : m \in Relayers \cup {Head(msg) : msg \in RelayerMsgs \ {<<>>}}}

\* An answer: one acknowledgement per order of the packet.
PacketAnswers == UNION {[1..Len(p.orders) -> OrderAcks] : p \in Packets}

Delivery == INSTANCE PacketDelivery WITH Senders <- Chains, Answers <- PacketAnswers

\* Orders name tokens of their two ends, and move something.
ASSUME PacketsAssumption ==
  /\ IsFiniteSet(Packets)
  /\ \A p \in Packets :
        /\ Len(p.orders) \in Nat /\ DOMAIN p.orders = 1..Len(p.orders)
        /\ p.source \in Chains /\ p.caller \in Accounts \ {Proxy}
        /\ p.batch \/ Len(p.orders) = 1
        /\ \A i \in DOMAIN p.orders :
              LET o == p.orders[i]
              IN  /\ {o.base, o.quote} \subseteq Denoms
                  /\ Home(o.base) = p.source /\ Home(o.quote) # p.source
                  /\ o.baseAmount \in Nat \ {0} /\ o.quoteAmount \in Nat
                  /\ o.metadata.decimals \in Nat

\* The application itself neither relays nor gives.  At the start there are
\* only local tokens, as many as a ledger can count.
ASSUME ActorsAssumption ==
    /\ Relayers \subseteq Accounts \ {Proxy}
    /\ \A gift \in Gifts : gift[1] \in Accounts \ {Proxy}
    /\ \A d \in DOMAIN Endowment :
          /\ d \in Denoms /\ ~IsIBCTokenDenom(d)
          /\ Endowment[d] \in [Accounts -> Nat] /\ SumFunction(Endowment[d]) <= MaxInt64

Init ==
    /\ Delivery!Init
    /\ ledger = [balance |-> [d \in Denoms |-> [h \in Accounts |->
                                 IF d \in DOMAIN Endowment THEN Endowment[d][h] ELSE 0]],
                 escrow |-> [k \in Denoms \X Denoms |-> 0],
                 locked |-> [d \in Denoms |-> 0],
                 vouchers |-> {}, deployed |-> {}]

(***************************************************************************)
(* A callback handles a packet's orders in their sequence; the first that  *)
(* fails ends it.  In a batch an order that errors on receipt is fatal.    *)
(***************************************************************************)
HandleOrder(L, p, i, call) ==
    CASE call.on = "send" -> VerifyTokenOrder(L, p.orders[i], p.caller)
      [] call.on = "receive" ->
            LET r == ExecuteTokenOrder(L, p.orders[i], call.relayer, call.relayerMsg,
                                       i \in call.limited, call.intent)
            IN  IF p.batch /\ r.status = "error" THEN Fatal(L) ELSE r
      [] call.on = "acknowledge" -> AcknowledgeTokenOrder(L, p.orders[i], call.answer[i])
      [] call.on = "timeout" -> Refund(L, p.orders[i])

\* What order i of p makes of the result r of the orders before it.
Then(p, call, r, i) ==
    IF r.status # "done" THEN r
    ELSE LET next == HandleOrder(r.state, p, i, call)
         IN  [status |-> next.status, state |-> next.state, ack |-> Append(r.ack, next.ack)]

HandlePacket(L, p, call) ==
    LET after[i \in 0..Len(p.orders)] ==
          IF i = 0 THEN Done(L, <<>>) ELSE Then(p, call, after[i - 1], i)
    IN  after[Len(p.orders)]

VerifyPacket(L, p) == HandlePacket(L, p, [on |-> "send"])

ExecutePacket(L, p, relayer, relayerMsg, limited, intent) ==
    HandlePacket(L, p, [on |-> "receive", relayer |-> relayer, relayerMsg |-> relayerMsg,
                        limited |-> limited, intent |-> intent])

AcknowledgePacket(L, p, answer) == HandlePacket(L, p, [on |-> "acknowledge", answer |-> answer])

TimeoutPacket(L, p) == HandlePacket(L, p, [on |-> "timeout"])

(***************************************************************************)
(* The entry points.  A panic reverts the transaction: no step.            *)
(***************************************************************************)
Send(p) ==
    LET r == VerifyPacket(ledger, p)
    IN  /\ Delivery!Send(p.source, p)
        /\ r.status = "done"
        /\ ledger' = r.state

\* OnRecvPacket and OnIntentRecvPacket.  A received packet was sent; an intent
\* needs no proof of that.  An error becomes a failure acknowledgement, and
\* what the failed order wrote stays.
Receive(p, relayer, relayerMsg, limited, intent) ==
    LET r == ExecutePacket(ledger, p, relayer, relayerMsg, limited, intent)
    IN  /\ intent \/ outcome[p.source][p] # "unsent"
        /\ r.status # "fatal"
        /\ Delivery!Receive(p.source, {p}, [x \in {p} |-> <<r.ack>>])
        /\ ledger' = r.state

OnAcknowledgementPacket(p) ==
    LET acks == receipt[p.source][p].acks
        r == AcknowledgePacket(ledger, p, acks[1])
    IN  /\ Delivery!Acknowledge(p.source, {p})
        /\ r.status = "done"
        /\ ledger' = r.state

OnTimeoutPacket(p) ==
    LET r == TimeoutPacket(ledger, p)
    IN  /\ Delivery!Timeout(p.source, p)
        /\ r.status = "done"
        /\ ledger' = r.state

VoucherTransfer(d, from, to, n) ==
    /\ CanTransfer(ledger, d, from, to, n)
    /\ ledger' = Transfer(ledger, d, from, to, n)
    /\ UNCHANGED <<outcome, receipt, told>>

Next ==
    \/ \E p \in Packets :
        \/ Send(p)
        \/ OnAcknowledgementPacket(p)
        \/ OnTimeoutPacket(p)
        \/ \E relayer \in Relayers, relayerMsg \in RelayerMsgs,
              limited \in SUBSET DOMAIN p.orders, intent \in BOOLEAN :
              Receive(p, relayer, relayerMsg, limited, intent)
    \/ \E d \in ledger.vouchers, gift \in Gifts : VoucherTransfer(d, gift[1], gift[2], 1)

Spec == Init /\ [][Next]_tvars

(***************************************************************************)
(* Properties.                                                             *)
(***************************************************************************)
TypeOK ==
    /\ \A p \in Packets :
          /\ outcome[p.source][p] \in {"unsent", "sent", "acked", "timedOut"}
          /\ receipt[p.source][p].acks \in {<<>>} \cup {<<a>> : a \in PacketAnswers}
    /\ ledger.balance \in [Denoms -> [Accounts -> 0..MaxInt64]]
    /\ ledger.escrow \in [Denoms \X Denoms -> 0..MaxInt64]
    /\ ledger.locked \in [Denoms -> Nat]
    /\ ledger.deployed \subseteq Denoms /\ ledger.vouchers \subseteq Denoms

\* The proxy always holds what it owes: its balance of a token covers the
\* channel balances of that token and what burn settlements locked
\* (AddLockedTokenAmount's invariant, with room for what others send to it).
Custody ==
    \A d \in Denoms :
        ledger.balance[d][Proxy] >=
            ledger.locked[d] + SumFunction([q \in Denoms |-> ledger.escrow[<<d, q>>]])

\* The acknowledgement of order i of p that its sender was told, or is to be.
Ack(p, i) == receipt[p.source][p].acks[1][i]

Filled(p, i, how) ==
    receipt[p.source][p].acks # <<>> /\ Ack(p, i).fill = how

(***************************************************************************)
(* The orders of the packets, as pairs of a packet and a place in it.      *)
(***************************************************************************)
Slots == {s \in Packets \X UNION {DOMAIN p.orders : p \in Packets} : s[2] \in DOMAIN s[1].orders}

OrderAt(s) == s[1].orders[s[2]]

\* The channel balance an order moves: of a token against its wrapped form.
KeyOf(s) ==
    LET o == OrderAt(s)
    IN  IF o.kind = "UNESCROW" THEN <<o.quote, o.base>> ELSE <<o.base, o.quote>>

Total(S) == SumFunction([s \in S |-> OrderAt(s).baseAmount])

\* The orders on the way: sent, and neither did the protocol fill them nor did
\* an answer or a timeout come back.
OnTheWay ==
    {s \in Slots : outcome[s[1].source][s[1]] = "sent" /\ ~Filled(s[1], s[2], "protocol")}

\* The orders whose escrow a settlement burned.
BurnSettled ==
    {s \in Slots : /\ outcome[s[1].source][s[1]] = "acked"
                   /\ OrderAt(s).kind # "UNESCROW"
                   /\ Filled(s[1], s[2], "maker") /\ Ack(s[1], s[2]).maker = BurnAddress}

\* What stands behind the channel balance of b against q, in the precision of
\* the packets, when the orders in way are on the way and those in burned were
\* settled by burning.
Backing(L, way, burned, b, q) ==
    Total({s \in way : KeyOf(s) = <<b, q>>}) +
    (IF IsIBCTokenDenom(q) /\ Front(q) = b
     THEN Supply(L, q) * ScaleOf(L, q) + Total({s \in burned : OrderAt(s).base = q})
     ELSE 0)

\* Every unit is somewhere: the channel balance of b against q is exactly what
\* the wrapped tokens q of b stand for, plus what is on the way between the
\* two chains, plus the wrapped tokens that were burned for good.  No order,
\* fill, refund or timeout creates or loses value across the channel.
Backed ==
    \A b, q \in Denoms :
        ledger.escrow[<<b, q>>] * ScaleOf(ledger, b) =
            Backing(ledger, OnTheWay, BurnSettled, b, q)

\* No settlement burns: base tokens are never locked in the proxy (the
\* application's README: the burn-address branch is not implemented).
BurnUnimplemented == \A d \in Denoms : ledger.locked[d] = 0

\* A wrapped token somebody holds has its origin recorded, so that an
\* UNESCROW order can take it home: no receipt mints an orphan
\* (executeTokenOrderV2's refusal of ESCROW into a token never initialized).
Redeemable ==
    \A d \in Denoms :
        IsIBCTokenDenom(d) /\ Supply(ledger, d) > 0 => d \in ledger.deployed

\* An order can be paid back when those it may be paid to are accounts other
\* than the proxy.
Payable(p) ==
    \A i \in DOMAIN p.orders :
        /\ p.orders[i].sender \in Accounts \ {Proxy}
        /\ Filled(p, i, "maker") => Ack(p, i).maker \in Accounts \ {Proxy}

\* A packet on the way can always be settled: whatever happened to the ledgers
\* since it was sent, the acknowledgement callback accepts its answer, and the
\* timeout callback a packet that was not received.  An error there would
\* panic on every relay and leave the funds in the proxy.
Settleable ==
    \A p \in Packets :
        outcome[p.source][p] = "sent" /\ Payable(p) =>
            IF receipt[p.source][p].acks = <<>>
            THEN TimeoutPacket(ledger, p).status = "done"
            ELSE AcknowledgePacket(ledger, p, receipt[p.source][p].acks[1]).status = "done"

=============================================================================
