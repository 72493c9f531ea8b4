---------------------------- MODULE MCZkgmTokens ----------------------------
(***************************************************************************)
(* Instances of ZkgmTokens: a native coin of chain A, the wrapped tokens   *)
(* it may have on B, and the packets that wrap, unwrap and trade them.     *)
(***************************************************************************)
EXTENDS ZkgmTokens, TLC

Metadata(symbol, decimals) == [form |-> "ok", symbol |-> symbol, decimals |-> decimals]
Garbled == [form |-> "garbled", symbol |-> "", decimals |-> 0]

\* Seven decimals: ten units of the coin are one unit of its wrapped form.
Coin == <<"ugnot">>
Wrapped == PredictWrappedToken(Coin, Metadata("GNOT", 7))
Clash == PredictWrappedToken(Coin, Metadata("GNOT", 6))
Orphan == PredictWrappedToken(Coin, NoMetadata)
Rewrapped == PredictWrappedToken(Wrapped, Metadata("WGNOT", 7))

Order(kind, base, baseAmount, quote, quoteAmount, sender, receiver) ==
    [kind |-> kind, base |-> base, baseAmount |-> baseAmount, quote |-> quote,
     quoteAmount |-> quoteAmount, sender |-> sender, receiver |-> receiver,
     metadata |-> IF kind = "INITIALIZE" THEN Last(quote) ELSE NoMetadata]

Single(source, o) == [source |-> source, caller |-> o.sender, batch |-> FALSE, orders |-> <<o>>]
Batch(source, os) == [source |-> source, caller |-> os[1].sender, batch |-> TRUE, orders |-> os]

MCAccounts == {"proxy", "burn", "alice", "bob", "mia"}
FillDenoms == {Coin, Wrapped, Clash, Orphan}
MakerDenoms == {Coin, Wrapped, Rewrapped}
MCEndowment == (Coin :> [h \in MCAccounts |-> IF h = "alice" THEN 80 ELSE 0])
BobToProxy == {<<"bob", "proxy">>}
BobToMia == {<<"bob", "mia">>}
NoMsg == {<<>>}
MakerMsgs == {<<>>, <<"burn">>, <<"nobody">>}
NoGRC20 == <<>>

\* Wrapping and unwrapping, with orders the receiver must refuse: a token that
\* was never initialized, a symbol already taken, dust, nobody to pay.
FillPackets ==
    {Single("A", Order("INITIALIZE", Coin, 30, Wrapped, 20, "alice", "bob")),
     Single("A", Order("INITIALIZE", Coin, 10, Wrapped, 10, "alice", "nobody")),
     Single("A", Order("INITIALIZE", Coin, 10, Clash, 10, "alice", "bob")),
     Single("A", Order("ESCROW", Coin, 10, Orphan, 10, "alice", "bob")),
     Single("A", Order("ESCROW", Coin, 15, Wrapped, 10, "alice", "bob")),
     Single("B", Order("UNESCROW", Wrapped, 20, Coin, 10, "bob", "alice"))}

\* Orders a maker fills, alone and in a batch, and wrapped tokens wrapped again.
MakerPackets ==
    {Single("A", Order("INITIALIZE", Coin, 70, Wrapped, 60, "alice", "bob")),
     Single("A", Order("ESCROW", Coin, 10, Wrapped, 20, "alice", "bob")),
     Batch("B", <<Order("INITIALIZE", Wrapped, 30, Rewrapped, 10, "bob", "alice"),
                  Order("UNESCROW", Wrapped, 10, Coin, 10, "bob", "alice")>>),
     Batch("B", <<Order("UNESCROW", Wrapped, 10, Coin, 10, "bob", "alice"),
                  Order("ESCROW", Wrapped, 10, Rewrapped, 20, "bob", "alice")>>),
     Single("A", Order("UNESCROW", Rewrapped, 10, Wrapped, 20, "alice", "bob"))}

=============================================================================
