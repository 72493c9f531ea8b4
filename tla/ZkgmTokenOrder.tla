--------------------------- MODULE ZkgmTokenOrder ---------------------------
(***************************************************************************)
(* What the ucs03_zkgm application does with a token order, as functions   *)
(* of the token state: verify on send, execute on receive, acknowledge and *)
(* refund (apps/ucs03_zkgm/v1: token_order, voucher, channel_balance,      *)
(* batch, dispatch).  The state is a record L                              *)
(*   balance[d][h]   units of denomination d that h holds                  *)
(*   escrow[<<b, q>>] the channel balance of base b against quote q        *)
(*   locked[d]       base escrow a burn settlement left in the proxy       *)
(*   vouchers        the wrapped tokens that exist                         *)
(*   deployed        those with foreign token, origin and image recorded   *)
(* of both ends of one channel: the chain a denomination lives on follows  *)
(* from the denomination.  Orders travel with an empty path.               *)
(***************************************************************************)
EXTENDS Integers, Sequences, SequencesExt, FiniteSetsExt

CONSTANTS
    Denoms,         \* the denominations orders speak of
    Accounts,       \* the addresses that are valid
    Proxy,          \* the account of the application on either chain
    BurnAddress,    \* BURN_ADDRESS
    GRC20Decimals,  \* the local tokens that are GRC20s, with their decimals
    MaxInt64,       \* the largest ledger amount
    MaxDecimals     \* grc20.MaxDecimals

ASSUME TokenAssumption ==
    /\ {Proxy, BurnAddress} \subseteq Accounts /\ Proxy # BurnAddress
    /\ MaxInt64 \in Nat \ {0} /\ MaxDecimals \in Nat

CanonicalDecimals == 6

\* Token metadata; its hash, the image, is the metadata itself.  A garbled
\* one does not decode; none at all is the zero image.
NoMetadata == [form |-> "none", symbol |-> "", decimals |-> 0]

(***************************************************************************)
(* Denominations.  A local token is <<name>>.  The denomination predicted  *)
(* for the other side's token d is a hash of d and the image: d with the   *)
(* image appended, or with the zero image (PredictWrappedToken, V1).       *)
(***************************************************************************)
PredictWrappedToken(base, image) == Append(base, image)

IsIBCTokenDenom(d) == Len(d) > 1

\* Denominations are sequences of a name and images; those a GRC20 realm
\* stands behind are local.
ASSUME DenomsAssumption ==
    /\ IsFiniteSet(Denoms) /\ IsFiniteSet(Accounts)
    /\ \A d \in Denoms :
          /\ Len(d) \in Nat \ {0} /\ d = [i \in 1..Len(d) |-> d[i]]
          /\ IsIBCTokenDenom(d) => Last(d).decimals \in Nat
    /\ \A d \in DOMAIN GRC20Decimals : ~IsIBCTokenDenom(d)

ImageOf(L, d) == IF d \in L.deployed THEN Last(d) ELSE NoMetadata

\* The chain d lives on: local tokens live on A, their wrapped forms on B.
Home(d) == IF Len(d) % 2 = 1 THEN "A" ELSE "B"

\* sanitizeVoucherSymbol: no usable symbol falls back to the denomination.
SymbolOf(d) == IF Last(d).symbol = "" THEN d ELSE <<Last(d).symbol>>

(***************************************************************************)
(* Amounts.  Orders carry origin precision; a ledger holds at most six     *)
(* decimals, so an amount must be a whole number of ledger units.          *)
(***************************************************************************)
Pow10[exp \in Nat] == IF exp = 0 THEN 1 ELSE Pow10[exp - 1] * 10

ScaleForDecimals(decimals) ==
    IF decimals > CanonicalDecimals THEN Pow10[decimals - CanonicalDecimals] ELSE 1

ScaleOf(L, d) == IF d \in L.vouchers THEN ScaleForDecimals(Last(d).decimals) ELSE 1

ScaleDownOk(amount, scale) == amount % scale = 0 /\ amount \div scale <= MaxInt64

ScaleDown(amount, scale) == amount \div scale

LedgerAmountOk(L, d, amount) == ScaleDownOk(amount, ScaleOf(L, d))

LedgerAmountOf(L, d, amount) == ScaleDown(amount, ScaleOf(L, d))

(***************************************************************************)
(* The ledgers, and the channel balance.                                   *)
(***************************************************************************)
Supply(L, d) == SumFunction(L.balance[d])

CanMint(L, d, to, n) == to \in Accounts /\ Supply(L, d) + n <= MaxInt64

Mint(L, d, to, n) == [L EXCEPT !.balance[d][to] = @ + n]

\* Mutant: the balance is not checked.
CanBurnAnything(L, d, from, n) == TRUE

CanBurn(L, d, from, n) == L.balance[d][from] >= n

Burn(L, d, from, n) == [L EXCEPT !.balance[d][from] = @ - n]

\* A GRC20 ledger refuses a transfer to oneself; the banker does not.
CanTransfer(L, d, from, to, n) ==
    /\ to \in Accounts
    /\ L.balance[d][from] >= n
    /\ from = to => ~IsIBCTokenDenom(d) /\ d \notin DOMAIN GRC20Decimals

Transfer(L, d, from, to, n) == Mint(Burn(L, d, from, n), d, to, n)

IncreaseChannelBalance(L, base, quote, n) ==
    [L EXCEPT !.escrow[<<base, quote>>] = @ + n]

\* Mutant: the last unit cannot leave.
CanDecreaseStrictly(L, base, quote, n) == L.escrow[<<base, quote>>] > n

CanDecreaseChannelBalance(L, base, quote, n) == L.escrow[<<base, quote>>] >= n

DecreaseChannelBalance(L, base, quote, n) ==
    [L EXCEPT !.escrow[<<base, quote>>] = @ - n]

(***************************************************************************)
(* What an operation comes to: it succeeds with an acknowledgement, or it  *)
(* returns an error and keeps what it wrote so far, or it is fatal and     *)
(* takes the whole transaction with it.                                    *)
(***************************************************************************)
Refused == [fill |-> "none", maker |-> Proxy]
Protocol == [fill |-> "protocol", maker |-> Proxy]
FilledBy(maker) == [fill |-> "maker", maker |-> maker]

Done(L, ack) == [status |-> "done", state |-> L, ack |-> ack]
Error(L) == [status |-> "error", state |-> L, ack |-> Refused]
Fatal(L) == [status |-> "fatal", state |-> L, ack |-> Refused]

(***************************************************************************)
(* Sending.                                                                *)
(***************************************************************************)
OriginDecimals(L, d) ==
    IF d \in DOMAIN GRC20Decimals THEN GRC20Decimals[d] ELSE Last(d).decimals

VerifyMetadataDecimals(L, o) ==
    o.base \in DOMAIN GRC20Decimals \cup L.vouchers =>
        /\ o.metadata.form = "ok"
        /\ o.metadata.decimals = OriginDecimals(L, o.base)

\* Mutant: the channel balance is kept in the precision of the packet.
EscrowOrderUnscaled(L, o, caller) ==
    LET n == LedgerAmountOf(L, o.base, o.baseAmount)
        held == IncreaseChannelBalance(L, o.base, o.quote, o.baseAmount)
    IN  IF LedgerAmountOk(L, o.base, o.baseAmount) /\ CanTransfer(L, o.base, caller, Proxy, n)
        THEN Done(Transfer(held, o.base, caller, Proxy, n), Protocol)
        ELSE Error(L)

\* The escrow of an INITIALIZE or ESCROW order: what the caller pays in is
\* held by the proxy and recorded in the units of the token's own ledger.
EscrowOrder(L, o, caller) ==
    LET n == LedgerAmountOf(L, o.base, o.baseAmount)
        held == IncreaseChannelBalance(L, o.base, o.quote, n)
    IN  IF /\ o.kind = "INITIALIZE" => VerifyMetadataDecimals(L, o)
           /\ LedgerAmountOk(L, o.base, o.baseAmount)
           /\ IsIBCTokenDenom(o.base) => o.base \in L.vouchers
           /\ CanTransfer(L, o.base, caller, Proxy, n)
        THEN Done(Transfer(held, o.base, caller, Proxy, n), Protocol)
        ELSE Error(L)

\* A wrapped token goes home: it is burned here.
BurnOrder(L, o, caller) ==
    LET n == LedgerAmountOf(L, o.base, o.baseAmount)
    IN  IF /\ o.base \in L.deployed
           /\ o.base \in {PredictWrappedToken(o.quote, NoMetadata),
                          PredictWrappedToken(o.quote, ImageOf(L, o.base))}
           /\ o.base \in L.vouchers
           /\ LedgerAmountOk(L, o.base, o.baseAmount)
           /\ CanBurn(L, o.base, caller, n)
        THEN Done(Burn(L, o.base, caller, n), Protocol)
        ELSE Error(L)

VerifyTokenOrder(L, o, caller) ==
    CASE o.kind \in {"INITIALIZE", "ESCROW"} -> EscrowOrder(L, o, caller)
      [] o.kind = "UNESCROW" -> BurnOrder(L, o, caller)
      [] OTHER -> Error(L)

(***************************************************************************)
(* Receiving.                                                              *)
(***************************************************************************)
CanCreateVoucher(L, d) ==
    d \in L.vouchers \/ \A v \in L.vouchers : Home(v) = Home(d) => SymbolOf(v) # SymbolOf(d)

GetOrCreateVoucher(L, d) == [L EXCEPT !.vouchers = @ \cup {d}]

\* Mint n units of d unless n is zero.
CanMintVoucher(L, d, to, n) == n # 0 => CanCreateVoucher(L, d) /\ CanMint(L, d, to, n)

MintVoucher(L, d, to, n) == IF n = 0 THEN L ELSE Mint(GetOrCreateVoucher(L, d), d, to, n)

Deploy(L, d) == [L EXCEPT !.deployed = @ \cup {d}]

ProtocolFillMint(L, o, relayer) ==
    LET deploying == o.kind = "INITIALIZE"
        scale == IF deploying THEN ScaleForDecimals(o.metadata.decimals)
                 ELSE ScaleOf(L, o.quote)
        fee == o.baseAmount - o.quoteAmount
        quoteUnits == ScaleDown(o.quoteAmount, scale)
        feeUnits == ScaleDown(fee, scale)
        paid == MintVoucher(L, o.quote, o.receiver, quoteUnits)
        filled == MintVoucher(paid, o.quote, relayer, feeUnits)
    IN  IF deploying /\ o.metadata.decimals > MaxDecimals THEN Done(L, Refused)
        ELSE IF ~ScaleDownOk(o.quoteAmount, scale) \/ ~ScaleDownOk(fee, scale) THEN Error(L)
        ELSE IF quoteUnits # 0 /\ ~CanCreateVoucher(L, o.quote) THEN Error(L)
        ELSE IF ~CanMintVoucher(L, o.quote, o.receiver, quoteUnits)
             THEN Error(GetOrCreateVoucher(L, o.quote))
        ELSE IF ~CanMintVoucher(paid, o.quote, relayer, feeUnits) THEN Fatal(L)
        ELSE Done(IF deploying THEN Deploy(filled, o.quote) ELSE filled, Protocol)

ProtocolFillUnescrow(L, o, relayer) ==
    LET fee == o.baseAmount - o.quoteAmount
        units(amount) == LedgerAmountOf(L, o.quote, amount)
        freed == DecreaseChannelBalance(L, o.quote, o.base, units(o.baseAmount))
        Releasable(S, to, n) == n # 0 => CanTransfer(S, o.quote, Proxy, to, n)
        Release(S, to, n) == IF n = 0 THEN S ELSE Transfer(S, o.quote, Proxy, to, n)
        paid == Release(freed, o.receiver, units(o.quoteAmount))
    IN  IF \/ \E a \in {o.quoteAmount, fee, o.baseAmount} : ~LedgerAmountOk(L, o.quote, a)
           \/ ~CanDecreaseChannelBalance(L, o.quote, o.base, units(o.baseAmount))
        THEN Error(L)
        ELSE IF \/ ~Releasable(freed, o.receiver, units(o.quoteAmount))
                \/ ~Releasable(paid, relayer, units(fee))
        THEN Fatal(L)
        ELSE Done(Release(paid, relayer, units(fee)), Protocol)

\* A market maker pays the quote from its own vouchers.  When it cannot, the
\* only-maker acknowledgement makes the callback panic.  The relayer's message
\* names who is paid back on the other side; when empty it is the relayer.
MarketMakerFill(L, o, relayer, relayerMsg) ==
    LET n == LedgerAmountOf(L, o.quote, o.quoteAmount)
    IN  IF o.quote \notin L.vouchers THEN Fatal(L)
        ELSE IF ~LedgerAmountOk(L, o.quote, o.quoteAmount) THEN Error(L)
        ELSE IF ~CanTransfer(L, o.quote, relayer, o.receiver, n) THEN Fatal(L)
        ELSE Done(Transfer(L, o.quote, relayer, o.receiver, n),
                  FilledBy(IF relayerMsg = <<>> THEN relayer ELSE Head(relayerMsg)))

\* The wrapped denomination an order is filled in by the protocol.
WrappedFor(L, o) ==
    PredictWrappedToken(o.base,
        IF o.kind = "INITIALIZE" THEN o.metadata ELSE ImageOf(L, o.quote))

\* Mutant: any predicted denomination may be minted.
UninitializedAllowed(L, o) == FALSE

\* An ESCROW order into a wrapped token that no INITIALIZE order created.
Uninitialized(L, o) ==
    /\ o.kind = "ESCROW"
    /\ o.quote = WrappedFor(L, o)
    /\ o.quote \notin L.vouchers

\* How an order is executed.  limited: the quote's bucket refuses the amount.
ExecuteTokenOrder(L, o, relayer, relayerMsg, limited, intent) ==
    LET covers == o.baseAmount >= o.quoteAmount
        wrapping == o.kind \in {"INITIALIZE", "ESCROW"} /\ o.quote = WrappedFor(L, o)
    IN  IF intent \/ o.kind = "SOLVE" THEN MarketMakerFill(L, o, relayer, relayerMsg)
        ELSE IF o.kind = "UNESCROW" /\ covers
             THEN IF limited THEN Done(L, Refused) ELSE ProtocolFillUnescrow(L, o, relayer)
        ELSE IF Uninitialized(L, o) THEN Done(L, Refused)
        ELSE IF o.kind = "INITIALIZE" /\ o.metadata.form = "garbled" THEN Error(L)
        ELSE IF o.kind = "INITIALIZE" /\ (o.metadata.form = "none" \/ ~wrapping)
             THEN Done(L, Refused)
        ELSE IF wrapping /\ covers
             THEN IF limited THEN Done(L, Refused) ELSE ProtocolFillMint(L, o, relayer)
        ELSE MarketMakerFill(L, o, relayer, relayerMsg)

(***************************************************************************)
(* The answer comes back, or the packet timed out.                         *)
(***************************************************************************)
\* Mutant: the release is not taken off the channel balance.
SettleWithoutDecrease(L, o, recipient) ==
    LET n == LedgerAmountOf(L, o.base, o.baseAmount)
    IN  IF CanTransfer(L, o.base, Proxy, recipient, n)
        THEN Done(Transfer(L, o.base, Proxy, recipient, n), Protocol)
        ELSE Error(L)

\* Mutant: the channel balance is looked up under the receiver's key.
SettleSwappedKey(L, o, recipient) ==
    LET n == LedgerAmountOf(L, o.base, o.baseAmount)
        freed == DecreaseChannelBalance(L, o.quote, o.base, n)
    IN  IF /\ CanDecreaseChannelBalance(L, o.quote, o.base, n)
           /\ CanTransfer(L, o.base, Proxy, recipient, n)
        THEN Done(Transfer(freed, o.base, Proxy, recipient, n), Protocol)
        ELSE Error(L)

SettleEscrowed(L, o, recipient) ==
    LET n == LedgerAmountOf(L, o.base, o.baseAmount)
        freed == DecreaseChannelBalance(L, o.base, o.quote, n)
    IN  IF /\ LedgerAmountOk(L, o.base, o.baseAmount)
           /\ CanDecreaseChannelBalance(L, o.base, o.quote, n)
           /\ CanTransfer(L, o.base, Proxy, recipient, n)
        THEN Done(Transfer(freed, o.base, Proxy, recipient, n), Protocol)
        ELSE Error(L)

\* A voucher is burned; a native coin or a GRC20 stays locked in the proxy.
BurnEscrowed(L, o) ==
    LET n == LedgerAmountOf(L, o.base, o.baseAmount)
        freed == DecreaseChannelBalance(L, o.base, o.quote, n)
    IN  IF /\ LedgerAmountOk(L, o.base, o.baseAmount)
           /\ CanDecreaseChannelBalance(L, o.base, o.quote, n)
           /\ IsIBCTokenDenom(o.base) => CanBurn(L, o.base, Proxy, n)
        THEN Done(IF IsIBCTokenDenom(o.base) THEN Burn(freed, o.base, Proxy, n)
                  ELSE [freed EXCEPT !.locked[o.base] = @ + o.baseAmount], Protocol)
        ELSE Error(L)

RefundIBCVoucher(L, o, recipient) ==
    LET n == LedgerAmountOf(L, o.base, o.baseAmount)
    IN  IF /\ CanCreateVoucher(L, o.base)
           /\ LedgerAmountOk(L, o.base, o.baseAmount)
           /\ CanMint(L, o.base, recipient, n)
        THEN Done(Mint(GetOrCreateVoucher(L, o.base), o.base, recipient, n), Protocol)
        ELSE Error(L)

Refund(L, o) ==
    CASE o.kind = "UNESCROW" -> RefundIBCVoucher(L, o, o.sender)
      [] o.kind \in {"INITIALIZE", "ESCROW"} -> SettleEscrowed(L, o, o.sender)
      [] OTHER -> Error(L)

\* Mutant: an order the protocol filled is refunded as well.
AcknowledgeRefunding(L, o, ack) ==
    IF ack.fill # "maker" THEN Refund(L, o)
    ELSE IF o.kind = "UNESCROW" THEN RefundIBCVoucher(L, o, ack.maker)
    ELSE SettleEscrowed(L, o, ack.maker)

\* A maker filled the order and is paid what was escrowed or burned for it.
PayMaker(L, o, maker) ==
    CASE o.kind = "UNESCROW" -> RefundIBCVoucher(L, o, maker)
      [] o.kind \in {"INITIALIZE", "ESCROW"} ->
            IF maker = BurnAddress THEN BurnEscrowed(L, o) ELSE SettleEscrowed(L, o, maker)
      [] OTHER -> Error(L)

\* Mutant: the burn address is paid like any other maker.
AcknowledgePayingBurn(L, o, ack) ==
    CASE ack.fill = "none" -> Refund(L, o)
      [] ack.fill = "protocol" -> Done(L, Protocol)
      [] ack.fill = "maker" -> IF o.kind = "UNESCROW" THEN RefundIBCVoucher(L, o, ack.maker)
                               ELSE SettleEscrowed(L, o, ack.maker)

AcknowledgeTokenOrder(L, o, ack) ==
    CASE ack.fill = "none" -> Refund(L, o)
      [] ack.fill = "protocol" -> Done(L, Protocol)
      [] ack.fill = "maker" -> PayMaker(L, o, ack.maker)

=============================================================================
