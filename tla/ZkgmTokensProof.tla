-------------------------- MODULE ZkgmTokensProof --------------------------
(***************************************************************************)
(* Token orders, proved for any tokens, accounts, packets, makers and      *)
(* relayers.  What one operation does to the amounts comes first (Minted,  *)
(* Burned, Moved, Increased, Decreased), then what an order does to what   *)
(* backs the channel balances when it is sent, executed or settled, then   *)
(* the same along the orders of a packet, and at last the invariant IInv   *)
(* with one step per callback.                                             *)
(***************************************************************************)
EXTENDS ZkgmTokens, SumTheorems

\* Division without remainder.
LEMMA DivExact ==
    ASSUME NEW a \in Nat, NEW s \in Nat \ {0}, a % s = 0
    PROVE  a \div s \in Nat /\ a = (a \div s) * s
OBVIOUS

LEMMA Cancel ==
    ASSUME NEW x \in Int, NEW y \in Int, NEW s \in Nat \ {0}, x * s <= y * s
    PROVE  x <= y
OBVIOUS

LEMMA Distributes ==
    ASSUME NEW x \in Int, NEW y \in Int, NEW s \in Int
    PROVE  (x + y) * s = x * s + y * s /\ (x - y) * s = x * s - y * s
OBVIOUS

LEMMA Negative ==
    ASSUME NEW x \in Int, NEW s \in Int
    PROVE  (-x) * s = -(x * s) /\ 0 * s = 0
OBVIOUS

\* Pow10 is what its recursion says, and positive.
LEMMA Pow10Positive ==
    \A n \in Nat : Pow10[n] \in Nat \ {0}
<1>1. \E f : f = [n \in Nat |-> IF n = 0 THEN 1 ELSE f[n - 1] * 10]
    BY PowersExist
<1>2. Pow10 = [n \in Nat |-> IF n = 0 THEN 1 ELSE Pow10[n - 1] * 10]
    BY <1>1, Zenon DEF Pow10
<1> QED BY <1>2, PowersPositive

(***************************************************************************)
(* Denominations and scales.                                               *)
(***************************************************************************)
LEMMA WrappedDenom ==
    ASSUME NEW d \in Denoms, NEW image
    PROVE  LET w == PredictWrappedToken(d, image)
           IN  IsIBCTokenDenom(w) /\ Front(w) = d /\ Last(w) = image
<1> DEFINE V == {d[i] : i \in 1..Len(d)} \cup {image}
           w == Append(d, image)
<1>1. Len(d) \in Nat \ {0} /\ d = [i \in 1..Len(d) |-> d[i]]
    BY DenomsAssumption
<1>2. d \in Seq(V)
    <2>1. [i \in 1..Len(d) |-> d[i]] \in [1..Len(d) -> V]
        OBVIOUS
    <2>2. d \in [1..Len(d) -> V]
        BY <1>1, <2>1
    <2> HIDE DEF V
    <2> QED BY <1>1, <2>2
<1>3. image \in V
    OBVIOUS
<1> HIDE DEF V
<1>4. w \in Seq(V) /\ Len(w) = Len(d) + 1 /\ w[Len(d) + 1] = image
      /\ \A i \in 1..Len(d) : w[i] = d[i]
    BY <1>2, <1>3
<1>5. SubSeq(w, 1, Len(w) - 1) = d
    BY <1>1, <1>2, <1>4
<1> QED BY <1>1, <1>4, <1>5 DEF PredictWrappedToken, IsIBCTokenDenom, Front, Last

LEMMA ScaleForDecimalsPositive ==
    ASSUME NEW n \in Nat
    PROVE  ScaleForDecimals(n) \in Nat \ {0}
<1>1. CASE n > CanonicalDecimals
    <2>1. n - CanonicalDecimals \in Nat
        BY <1>1 DEF CanonicalDecimals
    <2> QED BY <1>1, <2>1, Pow10Positive DEF ScaleForDecimals
<1>2. CASE ~(n > CanonicalDecimals)
    BY <1>2 DEF ScaleForDecimals
<1> QED BY <1>1, <1>2

(***************************************************************************)
(* The token state and what holds of it between two orders.                *)
(***************************************************************************)
Ledgers ==
    [balance : [Denoms -> [Accounts -> Nat]], escrow : [Denoms \X Denoms -> Nat],
     locked : [Denoms -> Nat], vouchers : SUBSET Denoms, deployed : SUBSET Denoms]

Escrowed(L, d) == SumFunction([q \in Denoms |-> L.escrow[<<d, q>>]])

\* A voucher is a wrapped token with an image.  If it wraps a wrapped token,
\* that one is a voucher too, of the same precision.
Genuine(L, v) ==
    /\ IsIBCTokenDenom(v) /\ Last(v).form # "none"
    /\ IsIBCTokenDenom(Front(v)) =>
          Front(v) \in L.vouchers /\ Last(Front(v)).decimals = Last(v).decimals

SupplyBounded(L) == \A d \in Denoms : Supply(L, d) <= MaxInt64

Held(L) == \A d \in Denoms : L.balance[d][Proxy] >= L.locked[d] + Escrowed(L, d)

Recorded(L) ==
    /\ L.deployed \subseteq L.vouchers
    /\ \A v \in L.vouchers : Genuine(L, v)
    /\ \A d \in Denoms : IsIBCTokenDenom(d) /\ Supply(L, d) > 0 => d \in L.deployed

Sound(L) == L \in Ledgers /\ SupplyBounded(L) /\ Held(L) /\ Recorded(L)

\* Vouchers and their origins are never forgotten.
Grows(L, M) == L.vouchers \subseteq M.vouchers /\ L.deployed \subseteq M.deployed

LEMMA Sums ==
    ASSUME NEW L \in Ledgers, NEW d \in Denoms
    PROVE  /\ Supply(L, d) \in Nat /\ \A h \in Accounts : L.balance[d][h] <= Supply(L, d)
           /\ Escrowed(L, d) \in Nat /\ \A q \in Denoms : L.escrow[<<d, q>>] <= Escrowed(L, d)
<1> DEFINE e == [q \in Denoms |-> L.escrow[<<d, q>>]]
<1>1. L.balance[d] \in [Accounts -> Nat] /\ e \in [Denoms -> Nat]
    BY DEF Ledgers
<1>2. IsFiniteSet(Accounts) /\ IsFiniteSet(Denoms)
    BY DenomsAssumption
<1>3. Supply(L, d) \in Nat /\ \A h \in Accounts : L.balance[d][h] <= Supply(L, d)
    BY <1>1, <1>2, SumOfNats DEF Supply
<1>4. SumFunction(e) \in Nat /\ \A q \in Denoms : e[q] <= SumFunction(e)
    <2> HIDE DEF e
    <2> QED BY <1>1, <1>2, SumOfNats
<1> QED BY <1>3, <1>4 DEF Escrowed

LEMMA ProxyTyped ==
    ASSUME NEW L \in Ledgers, NEW d \in Denoms
    PROVE  L.balance[d][Proxy] \in Nat /\ L.locked[d] \in Nat /\ Escrowed(L, d) \in Nat
<1>1. Proxy \in Accounts
    BY TokenAssumption
<1>2. Escrowed(L, d) \in Nat
    BY Sums
<1> QED BY <1>1, <1>2 DEF Ledgers

LEMMA ScalePositive ==
    ASSUME NEW L \in Ledgers, Recorded(L), NEW d \in Denoms
    PROVE  ScaleOf(L, d) \in Nat \ {0}
<1>1. CASE d \in L.vouchers
    <2>1. Last(d).decimals \in Nat
        BY <1>1, DenomsAssumption DEF Recorded, Genuine
    <2> QED BY <1>1, <2>1, ScaleForDecimalsPositive DEF ScaleOf
<1>2. CASE d \notin L.vouchers
    BY <1>2 DEF ScaleOf
<1> QED BY <1>1, <1>2

(***************************************************************************)
(* What the ledger operations do.                                          *)
(***************************************************************************)
LEMMA BalanceUpdate ==
    ASSUME NEW L \in Ledgers, NEW M \in Ledgers, NEW d \in Denoms, NEW h \in Accounts,
           \A e \in Denoms, g \in Accounts :
              e # d \/ g # h => M.balance[e][g] = L.balance[e][g]
    PROVE  /\ Supply(M, d) = Supply(L, d) - L.balance[d][h] + M.balance[d][h]
           /\ \A e \in Denoms : e # d => Supply(M, e) = Supply(L, e)
<1>1. \A e \in Denoms : L.balance[e] \in [Accounts -> Nat] /\ M.balance[e] \in [Accounts -> Nat]
    BY DEF Ledgers
<1>2. ASSUME NEW e \in Denoms, e # d
      PROVE  Supply(M, e) = Supply(L, e)
    <2>1. \A g \in Accounts : M.balance[e][g] = L.balance[e][g]
        BY <1>2
    <2>2. M.balance[e] = L.balance[e]
        BY <1>1, <2>1
    <2> QED BY <2>2 DEF Supply
<1>3. Supply(M, d) = Supply(L, d) - L.balance[d][h] + M.balance[d][h]
    <2> DEFINE f == L.balance[d]
               g == M.balance[d]
    <2>1. f \in [Accounts -> Nat] /\ g \in [Accounts -> Nat]
        BY <1>1
    <2>2. \A x \in Accounts \ {h} : g[x] = f[x]
        OBVIOUS
    <2>3. SumFunction(g) = SumFunction(f) - f[h] + g[h]
        <3> HIDE DEF f, g
        <3>1. f \in [Accounts -> Int] /\ g \in [Accounts -> Int]
            BY <2>1
        <3>2. IsFiniteSet(Accounts)
            BY DenomsAssumption
        <3> QED BY <2>2, <3>1, <3>2, SumUpdate
    <2> QED BY <2>3 DEF Supply
<1> QED BY <1>2, <1>3

\* Only balances differ.
OnlyBalances(L, M) ==
    /\ M.escrow = L.escrow /\ M.locked = L.locked
    /\ M.vouchers = L.vouchers /\ M.deployed = L.deployed

Minted(L, M, d, h, n) ==
    /\ M \in Ledgers /\ OnlyBalances(L, M)
    /\ M.balance[d][h] = L.balance[d][h] + n
    /\ \A e \in Denoms, g \in Accounts :
          e # d \/ g # h => M.balance[e][g] = L.balance[e][g]
    /\ Supply(M, d) = Supply(L, d) + n
    /\ \A e \in Denoms : e # d => Supply(M, e) = Supply(L, e)

LEMMA MintAdds ==
    ASSUME NEW L \in Ledgers, NEW d \in Denoms, NEW h \in Accounts, NEW n \in Nat
    PROVE  Minted(L, Mint(L, d, h, n), d, h, n)
<1> DEFINE M == Mint(L, d, h, n)
<1>1. L.balance \in [Denoms -> [Accounts -> Nat]] /\ L.balance[d][h] + n \in Nat
    BY DEF Ledgers
<1>2. /\ M \in Ledgers /\ OnlyBalances(L, M)
      /\ M.balance = [L.balance EXCEPT ![d][h] = @ + n]
    BY <1>1 DEF Ledgers, Mint, OnlyBalances
<1> HIDE DEF M
<1>3. /\ M.balance[d][h] = L.balance[d][h] + n
      /\ \A e \in Denoms, g \in Accounts :
            e # d \/ g # h => M.balance[e][g] = L.balance[e][g]
    BY <1>1, <1>2
<1>4. /\ Supply(M, d) = Supply(L, d) - L.balance[d][h] + M.balance[d][h]
      /\ \A e \in Denoms : e # d => Supply(M, e) = Supply(L, e)
    <2>1. M \in Ledgers
        BY <1>2
    <2>2. \A e \in Denoms, g \in Accounts :
              e # d \/ g # h => M.balance[e][g] = L.balance[e][g]
        BY <1>3
    <2> QED BY <2>1, <2>2, BalanceUpdate
<1>5. Supply(M, d) = Supply(L, d) + n
    <2>1. Supply(L, d) \in Nat /\ L.balance[d][h] \in Nat
        BY <1>1, Sums
    <2> QED BY <1>3, <1>4, <2>1
<1> QED BY <1>2, <1>3, <1>4, <1>5 DEF M, Minted

Burned(L, M, d, h, n) ==
    /\ M \in Ledgers /\ OnlyBalances(L, M)
    /\ M.balance[d][h] = L.balance[d][h] - n
    /\ \A e \in Denoms, g \in Accounts :
          e # d \/ g # h => M.balance[e][g] = L.balance[e][g]
    /\ Supply(M, d) = Supply(L, d) - n
    /\ \A e \in Denoms : e # d => Supply(M, e) = Supply(L, e)

LEMMA BurnTakes ==
    ASSUME NEW L \in Ledgers, NEW d \in Denoms, NEW h \in Accounts, NEW n \in Nat,
           L.balance[d][h] >= n
    PROVE  Burned(L, Burn(L, d, h, n), d, h, n)
<1> DEFINE M == Burn(L, d, h, n)
<1>1. L.balance \in [Denoms -> [Accounts -> Nat]] /\ L.balance[d][h] - n \in Nat
    BY DEF Ledgers
<1>2. /\ M \in Ledgers /\ OnlyBalances(L, M)
      /\ M.balance = [L.balance EXCEPT ![d][h] = @ - n]
    BY <1>1 DEF Ledgers, Burn, OnlyBalances
<1> HIDE DEF M
<1>3. /\ M.balance[d][h] = L.balance[d][h] - n
      /\ \A e \in Denoms, g \in Accounts :
            e # d \/ g # h => M.balance[e][g] = L.balance[e][g]
    BY <1>1, <1>2
<1>4. /\ Supply(M, d) = Supply(L, d) - L.balance[d][h] + M.balance[d][h]
      /\ \A e \in Denoms : e # d => Supply(M, e) = Supply(L, e)
    <2>1. M \in Ledgers
        BY <1>2
    <2>2. \A e \in Denoms, g \in Accounts :
              e # d \/ g # h => M.balance[e][g] = L.balance[e][g]
        BY <1>3
    <2> QED BY <2>1, <2>2, BalanceUpdate
<1>5. Supply(M, d) = Supply(L, d) - n
    <2>1. Supply(L, d) \in Nat /\ L.balance[d][h] \in Nat
        BY <1>1, Sums
    <2> QED BY <1>3, <1>4, <2>1
<1> QED BY <1>2, <1>3, <1>4, <1>5 DEF M, Burned

LEMMA SameEscrow ==
    ASSUME NEW L, NEW M, M.escrow = L.escrow
    PROVE  \A e \in Denoms : Escrowed(M, e) = Escrowed(L, e)
BY DEF Escrowed

LEMMA EscrowUpdate ==
    ASSUME NEW L \in Ledgers, NEW M \in Ledgers, NEW b \in Denoms, NEW q \in Denoms,
           \A c, r \in Denoms : c # b \/ r # q => M.escrow[<<c, r>>] = L.escrow[<<c, r>>]
    PROVE  /\ Escrowed(M, b) = Escrowed(L, b) - L.escrow[<<b, q>>] + M.escrow[<<b, q>>]
           /\ \A e \in Denoms : e # b => Escrowed(M, e) = Escrowed(L, e)
<1>1. ASSUME NEW e \in Denoms, e # b
      PROVE  Escrowed(M, e) = Escrowed(L, e)
    <2>1. \A x \in Denoms : M.escrow[<<e, x>>] = L.escrow[<<e, x>>]
        BY <1>1
    <2>2. [x \in Denoms |-> M.escrow[<<e, x>>]] = [x \in Denoms |-> L.escrow[<<e, x>>]]
        BY <2>1
    <2> QED BY <2>2 DEF Escrowed
<1>2. Escrowed(M, b) = Escrowed(L, b) - L.escrow[<<b, q>>] + M.escrow[<<b, q>>]
    <2> DEFINE f == [x \in Denoms |-> L.escrow[<<b, x>>]]
               g == [x \in Denoms |-> M.escrow[<<b, x>>]]
    <2>1. \A x \in Denoms : L.escrow[<<b, x>>] \in Nat /\ M.escrow[<<b, x>>] \in Nat
        BY DEF Ledgers
    <2>2. f \in [Denoms -> Int] /\ g \in [Denoms -> Int]
        BY <2>1
    <2>3. /\ g[q] = M.escrow[<<b, q>>] /\ f[q] = L.escrow[<<b, q>>]
          /\ \A x \in Denoms \ {q} : g[x] = f[x]
        OBVIOUS
    <2>4. SumFunction(g) = SumFunction(f) - f[q] + g[q]
        <3> HIDE DEF f, g
        <3>1. IsFiniteSet(Denoms)
            BY DenomsAssumption
        <3> QED BY <2>2, <2>3, <3>1, SumUpdate
    <2> QED BY <2>3, <2>4 DEF Escrowed
<1> QED BY <1>1, <1>2

\* Only the channel balances differ.
OnlyEscrow(L, M) ==
    /\ M.balance = L.balance /\ M.locked = L.locked
    /\ M.vouchers = L.vouchers /\ M.deployed = L.deployed

Increased(L, M, b, q, n) ==
    /\ M \in Ledgers /\ OnlyEscrow(L, M)
    /\ M.escrow[<<b, q>>] = L.escrow[<<b, q>>] + n
    /\ \A c, r \in Denoms : c # b \/ r # q => M.escrow[<<c, r>>] = L.escrow[<<c, r>>]
    /\ Escrowed(M, b) = Escrowed(L, b) + n
    /\ \A e \in Denoms : e # b => Escrowed(M, e) = Escrowed(L, e)

LEMMA IncreaseAdds ==
    ASSUME NEW L \in Ledgers, NEW b \in Denoms, NEW q \in Denoms, NEW n \in Nat
    PROVE  Increased(L, IncreaseChannelBalance(L, b, q, n), b, q, n)
<1> DEFINE M == IncreaseChannelBalance(L, b, q, n)
<1>1. L.escrow \in [Denoms \X Denoms -> Nat] /\ L.escrow[<<b, q>>] + n \in Nat
    BY DEF Ledgers
<1>2. /\ M \in Ledgers /\ OnlyEscrow(L, M)
      /\ M.escrow = [L.escrow EXCEPT ![<<b, q>>] = @ + n]
    BY <1>1 DEF Ledgers, IncreaseChannelBalance, OnlyEscrow
<1> HIDE DEF M
<1>3. /\ M.escrow[<<b, q>>] = L.escrow[<<b, q>>] + n
      /\ \A c, r \in Denoms : c # b \/ r # q => M.escrow[<<c, r>>] = L.escrow[<<c, r>>]
    BY <1>1, <1>2
<1>4. /\ Escrowed(M, b) = Escrowed(L, b) - L.escrow[<<b, q>>] + M.escrow[<<b, q>>]
      /\ \A e \in Denoms : e # b => Escrowed(M, e) = Escrowed(L, e)
    <2>1. M \in Ledgers
        BY <1>2
    <2>2. \A c, r \in Denoms : c # b \/ r # q => M.escrow[<<c, r>>] = L.escrow[<<c, r>>]
        BY <1>3
    <2> QED BY <2>1, <2>2, EscrowUpdate
<1>5. Escrowed(M, b) = Escrowed(L, b) + n
    <2>1. Escrowed(L, b) \in Nat /\ L.escrow[<<b, q>>] \in Nat
        BY <1>1, Sums
    <2> QED BY <1>3, <1>4, <2>1
<1> QED BY <1>2, <1>3, <1>4, <1>5 DEF M, Increased

Decreased(L, M, b, q, n) ==
    /\ M \in Ledgers /\ OnlyEscrow(L, M)
    /\ M.escrow[<<b, q>>] = L.escrow[<<b, q>>] - n
    /\ \A c, r \in Denoms : c # b \/ r # q => M.escrow[<<c, r>>] = L.escrow[<<c, r>>]
    /\ Escrowed(M, b) = Escrowed(L, b) - n
    /\ \A e \in Denoms : e # b => Escrowed(M, e) = Escrowed(L, e)

LEMMA DecreaseTakes ==
    ASSUME NEW L \in Ledgers, NEW b \in Denoms, NEW q \in Denoms, NEW n \in Nat,
           L.escrow[<<b, q>>] >= n
    PROVE  Decreased(L, DecreaseChannelBalance(L, b, q, n), b, q, n)
<1> DEFINE M == DecreaseChannelBalance(L, b, q, n)
<1>1. L.escrow \in [Denoms \X Denoms -> Nat] /\ L.escrow[<<b, q>>] - n \in Nat
    BY DEF Ledgers
<1>2. /\ M \in Ledgers /\ OnlyEscrow(L, M)
      /\ M.escrow = [L.escrow EXCEPT ![<<b, q>>] = @ - n]
    BY <1>1 DEF Ledgers, DecreaseChannelBalance, OnlyEscrow
<1> HIDE DEF M
<1>3. /\ M.escrow[<<b, q>>] = L.escrow[<<b, q>>] - n
      /\ \A c, r \in Denoms : c # b \/ r # q => M.escrow[<<c, r>>] = L.escrow[<<c, r>>]
    BY <1>1, <1>2
<1>4. /\ Escrowed(M, b) = Escrowed(L, b) - L.escrow[<<b, q>>] + M.escrow[<<b, q>>]
      /\ \A e \in Denoms : e # b => Escrowed(M, e) = Escrowed(L, e)
    <2>1. M \in Ledgers
        BY <1>2
    <2>2. \A c, r \in Denoms : c # b \/ r # q => M.escrow[<<c, r>>] = L.escrow[<<c, r>>]
        BY <1>3
    <2> QED BY <2>1, <2>2, EscrowUpdate
<1>5. Escrowed(M, b) = Escrowed(L, b) - n
    <2>1. Escrowed(L, b) \in Nat /\ L.escrow[<<b, q>>] \in Nat
        BY <1>1, Sums
    <2> QED BY <1>3, <1>4, <2>1
<1> QED BY <1>2, <1>3, <1>4, <1>5 DEF M, Decreased

Moved(L, M, d, from, to, n) ==
    /\ M \in Ledgers /\ OnlyBalances(L, M)
    /\ \A e \in Denoms : Supply(M, e) = Supply(L, e)
    /\ \A e \in Denoms \ {d} : M.balance[e][Proxy] = L.balance[e][Proxy]
    /\ from = Proxy => M.balance[d][Proxy] >= L.balance[d][Proxy] - n
    /\ from # Proxy => M.balance[d][Proxy] >= L.balance[d][Proxy]
    /\ from # Proxy /\ to = Proxy => M.balance[d][Proxy] = L.balance[d][Proxy] + n

LEMMA TransferMoves ==
    ASSUME NEW L \in Ledgers, NEW d \in Denoms, NEW from \in Accounts, NEW to, NEW n \in Nat,
           CanTransfer(L, d, from, to, n)
    PROVE  Moved(L, Transfer(L, d, from, to, n), d, from, to, n)
<1> DEFINE B == Burn(L, d, from, n)
           M == Mint(B, d, to, n)
<1>1. to \in Accounts /\ L.balance[d][from] >= n /\ Proxy \in Accounts
    BY TokenAssumption DEF CanTransfer
<1>2. /\ B \in Ledgers /\ OnlyBalances(L, B)
      /\ B.balance[d][from] = L.balance[d][from] - n
      /\ \A e \in Denoms, g \in Accounts :
            e # d \/ g # from => B.balance[e][g] = L.balance[e][g]
      /\ Supply(B, d) = Supply(L, d) - n
      /\ \A e \in Denoms : e # d => Supply(B, e) = Supply(L, e)
    <2>1. Burned(L, B, d, from, n)
        BY <1>1, BurnTakes
    <2> HIDE DEF B
    <2> QED BY <2>1 DEF Burned
<1> HIDE DEF B
<1>3. /\ M \in Ledgers /\ OnlyBalances(B, M)
      /\ M.balance[d][to] = B.balance[d][to] + n
      /\ \A e \in Denoms, g \in Accounts :
            e # d \/ g # to => M.balance[e][g] = B.balance[e][g]
      /\ Supply(M, d) = Supply(B, d) + n
      /\ \A e \in Denoms : e # d => Supply(M, e) = Supply(B, e)
    <2>1. B \in Ledgers
        BY <1>2
    <2>2. Minted(B, M, d, to, n)
        BY <1>1, <2>1, MintAdds
    <2> HIDE DEF M
    <2> QED BY <2>2 DEF Minted
<1> HIDE DEF M
<1>4. \A e \in Denoms, h \in Accounts : L.balance[e][h] \in Nat /\ B.balance[e][h] \in Nat
    BY <1>2 DEF Ledgers
<1>5. \A e \in Denoms : Supply(M, e) = Supply(L, e)
    <2>1. Supply(L, d) \in Nat
        BY Sums
    <2> QED BY <1>2, <1>3, <2>1
<1>6. \A e \in Denoms \ {d} : M.balance[e][Proxy] = L.balance[e][Proxy]
    BY <1>1, <1>2, <1>3
<1>7. /\ from = Proxy => M.balance[d][Proxy] >= L.balance[d][Proxy] - n
      /\ from # Proxy => M.balance[d][Proxy] >= L.balance[d][Proxy]
      /\ from # Proxy /\ to = Proxy => M.balance[d][Proxy] = L.balance[d][Proxy] + n
    BY <1>1, <1>2, <1>3, <1>4
<1>8. M = Transfer(L, d, from, to, n)
    BY DEF Transfer, M, B
<1>9. OnlyBalances(L, M)
    BY <1>2, <1>3 DEF OnlyBalances
<1> QED BY <1>3, <1>5, <1>6, <1>7, <1>8, <1>9 DEF Moved

(***************************************************************************)
(* Orders and what they amount to.                                         *)
(***************************************************************************)
LEMMA SlotFacts ==
    ASSUME NEW s \in Slots
    PROVE  /\ s[1] \in Packets /\ s[2] \in 1..Len(s[1].orders) /\ s = <<s[1], s[2]>>
           /\ OrderAt(s).base \in Denoms /\ OrderAt(s).quote \in Denoms
           /\ OrderAt(s).baseAmount \in Nat \ {0} /\ OrderAt(s).quoteAmount \in Nat
           /\ OrderAt(s).metadata.decimals \in Nat
           /\ KeyOf(s) \in Denoms \X Denoms
<1>1. s[1] \in Packets /\ s[2] \in DOMAIN s[1].orders /\ s = <<s[1], s[2]>>
    BY DEF Slots
<1>2. /\ DOMAIN s[1].orders = 1..Len(s[1].orders)
      /\ OrderAt(s).base \in Denoms /\ OrderAt(s).quote \in Denoms
      /\ OrderAt(s).baseAmount \in Nat \ {0} /\ OrderAt(s).quoteAmount \in Nat
      /\ OrderAt(s).metadata.decimals \in Nat
    BY <1>1, PacketsAssumption DEF OrderAt
<1> QED BY <1>1, <1>2 DEF KeyOf

LEMMA SlotsOfPacket ==
    ASSUME NEW p \in Packets, NEW i \in 1..Len(p.orders)
    PROVE  <<p, i>> \in Slots
<1>1. DOMAIN p.orders = 1..Len(p.orders)
    BY PacketsAssumption
<1> QED BY <1>1 DEF Slots

LEMMA SlotsFinite ==
    IsFiniteSet(Slots)
<1> DEFINE D == {DOMAIN p.orders : p \in Packets}
<1>1. IsFiniteSet(Packets)
    BY PacketsAssumption
<1>2. IsFiniteSet(D)
    <2> DEFINE f == [p \in Packets |-> DOMAIN p.orders]
    <2>1. f \in Surjection(Packets, D)
        BY DEF Surjection
    <2> HIDE DEF f, D
    <2> QED BY <1>1, <2>1, FS_Surjection
<1>3. \A x \in D : IsFiniteSet(x)
    <2> SUFFICES ASSUME NEW p \in Packets
                 PROVE  IsFiniteSet(DOMAIN p.orders)
        OBVIOUS
    <2>1. Len(p.orders) \in Nat /\ DOMAIN p.orders = 1..Len(p.orders)
        BY PacketsAssumption
    <2>2. 1 \in Int /\ Len(p.orders) \in Int
        BY <2>1
    <2>3. IsFiniteSet(1..Len(p.orders))
        BY <2>2, FS_Interval, Zenon
    <2> QED BY <2>1, <2>3, Zenon
<1> HIDE DEF D
<1>4. IsFiniteSet(UNION D)
    BY <1>2, <1>3, FS_UNION
<1>5. IsFiniteSet(Packets \X UNION D)
    BY <1>1, <1>4, FS_Product
<1>6. Slots \subseteq Packets \X UNION D
    BY DEF Slots, D
<1> QED BY <1>5, <1>6, FS_Subset

LEMMA TotalFacts ==
    ASSUME NEW X \in SUBSET Slots
    PROVE  /\ Total(X) \in Nat
           /\ \A s \in X : OrderAt(s).baseAmount <= Total(X)
           /\ \A s \in Slots \ X : Total(X \cup {s}) = Total(X) + OrderAt(s).baseAmount
           /\ \A s \in X : Total(X \ {s}) = Total(X) - OrderAt(s).baseAmount
<1> DEFINE A(Y) == [s \in Y |-> OrderAt(s).baseAmount]
<1>1. \A Y \in SUBSET Slots : IsFiniteSet(Y) /\ A(Y) \in [Y -> Nat] /\ A(Y) \in [Y -> Int]
    BY SlotsFinite, FS_Subset, SlotFacts
<1>2. \A Y \in SUBSET Slots :
          SumFunction(A(Y)) \in Nat /\ \A s \in Y : A(Y)[s] <= SumFunction(A(Y))
    <2> HIDE DEF A
    <2> QED BY <1>1, SumOfNats
<1>3. ASSUME NEW Y \in SUBSET Slots, NEW s \in Slots \ Y
      PROVE  SumFunction(A(Y \cup {s})) = SumFunction(A(Y)) + OrderAt(s).baseAmount
    <2>1. Y \cup {s} \in SUBSET Slots /\ s \notin Y
        OBVIOUS
    <2>2. A(Y \cup {s})[s] = OrderAt(s).baseAmount /\ \A y \in Y : A(Y \cup {s})[y] = A(Y)[y]
        OBVIOUS
    <2>3. SumFunction(A(Y \cup {s})) = SumFunction(A(Y)) + A(Y \cup {s})[s]
        <3> DEFINE U == Y \cup {s}
                   f == A(Y)
                   g == A(U)
        <3>1. IsFiniteSet(Y) /\ f \in [Y -> Int] /\ g \in [U -> Int]
            BY <1>1, <2>1
        <3>2. U = Y \cup {s} /\ \A y \in Y : g[y] = f[y]
            BY <2>2
        <3> HIDE DEF U, f, g
        <3>3. SumFunction(g) = SumFunction(f) + g[s]
            BY <2>1, <3>1, <3>2, SumAdd
        <3> QED BY <3>3 DEF U, f, g
    <2> QED BY <2>2, <2>3
<1>4. ASSUME NEW s \in X
      PROVE  Total(X \ {s}) = Total(X) - OrderAt(s).baseAmount
    <2>1. X \ {s} \in SUBSET Slots /\ s \in Slots \ (X \ {s}) /\ (X \ {s}) \cup {s} = X
        OBVIOUS
    <2>2. SumFunction(A((X \ {s}) \cup {s})) = SumFunction(A(X \ {s})) + OrderAt(s).baseAmount
        BY <1>3, <2>1
    <2>3. SumFunction(A(X)) = SumFunction(A(X \ {s})) + OrderAt(s).baseAmount
        BY <2>1, <2>2
    <2>4. SumFunction(A(X \ {s})) \in Nat /\ OrderAt(s).baseAmount \in Nat
        BY <1>2, <2>1, SlotFacts
    <2> QED BY <2>3, <2>4 DEF Total
<1> QED BY <1>2, <1>3, <1>4 DEF Total

\* What is on the way between b and q, and what was burned of q.
Way(X, b, q) == Total({s \in X : KeyOf(s) = <<b, q>>})
Gone(Y, q) == Total({s \in Y : OrderAt(s).base = q})

\* What one order is of that.
WayPart(s, b, q) == IF KeyOf(s) = <<b, q>> THEN OrderAt(s).baseAmount ELSE 0
GonePart(s, q) == IF OrderAt(s).base = q THEN OrderAt(s).baseAmount ELSE 0

LEMMA WayFacts ==
    ASSUME NEW X \in SUBSET Slots, NEW s \in Slots, NEW b \in Denoms, NEW q \in Denoms
    PROVE  /\ Way(X, b, q) \in Nat /\ WayPart(s, b, q) \in Nat
           /\ s \notin X => Way(X \cup {s}, b, q) = Way(X, b, q) + WayPart(s, b, q)
           /\ s \in X => /\ Way(X \ {s}, b, q) = Way(X, b, q) - WayPart(s, b, q)
                         /\ WayPart(s, b, q) <= Way(X, b, q)
<1> DEFINE In(Z) == {t \in Z : KeyOf(t) = <<b, q>>}
<1>1. In(X) \in SUBSET Slots /\ OrderAt(s).baseAmount \in Nat
    BY SlotFacts
<1>2. CASE KeyOf(s) = <<b, q>>
    <2>1. In(X \cup {s}) = In(X) \cup {s} /\ In(X \ {s}) = In(X) \ {s}
          /\ (s \in X <=> s \in In(X))
        BY <1>2
    <2>2. /\ Way(X, b, q) = Total(In(X)) /\ Way(X \cup {s}, b, q) = Total(In(X) \cup {s})
          /\ Way(X \ {s}, b, q) = Total(In(X) \ {s})
        BY <2>1 DEF Way
    <2> HIDE DEF In
    <2>3. /\ Total(In(X)) \in Nat
          /\ s \in In(X) => /\ OrderAt(s).baseAmount <= Total(In(X))
                            /\ Total(In(X) \ {s}) = Total(In(X)) - OrderAt(s).baseAmount
          /\ s \notin In(X) => Total(In(X) \cup {s}) = Total(In(X)) + OrderAt(s).baseAmount
        BY <1>1, TotalFacts
    <2>4. WayPart(s, b, q) = OrderAt(s).baseAmount
        BY <1>2 DEF WayPart
    <2> QED BY <1>1, <2>1, <2>2, <2>3, <2>4
<1>3. CASE KeyOf(s) # <<b, q>>
    <2>1. In(X \cup {s}) = In(X) /\ In(X \ {s}) = In(X)
        BY <1>3
    <2>2. /\ Way(X, b, q) = Total(In(X)) /\ Way(X \cup {s}, b, q) = Total(In(X))
          /\ Way(X \ {s}, b, q) = Total(In(X))
        BY <2>1 DEF Way
    <2> HIDE DEF In
    <2>3. Total(In(X)) \in Nat /\ WayPart(s, b, q) = 0
        BY <1>1, <1>3, TotalFacts DEF WayPart
    <2> QED BY <2>2, <2>3
<1> QED BY <1>2, <1>3

LEMMA GoneFacts ==
    ASSUME NEW Y \in SUBSET Slots, NEW s \in Slots, NEW q \in Denoms
    PROVE  /\ Gone(Y, q) \in Nat /\ GonePart(s, q) \in Nat
           /\ s \notin Y => Gone(Y \cup {s}, q) = Gone(Y, q) + GonePart(s, q)
<1> DEFINE In(Z) == {t \in Z : OrderAt(t).base = q}
<1>1. In(Y) \in SUBSET Slots /\ OrderAt(s).baseAmount \in Nat
    BY SlotFacts
<1>2. CASE OrderAt(s).base = q
    <2>1. In(Y \cup {s}) = In(Y) \cup {s} /\ (s \in Y <=> s \in In(Y))
        BY <1>2
    <2>2. Gone(Y, q) = Total(In(Y)) /\ Gone(Y \cup {s}, q) = Total(In(Y) \cup {s})
        BY <2>1 DEF Gone
    <2> HIDE DEF In
    <2>3. /\ Total(In(Y)) \in Nat /\ GonePart(s, q) = OrderAt(s).baseAmount
          /\ s \notin In(Y) => Total(In(Y) \cup {s}) = Total(In(Y)) + OrderAt(s).baseAmount
        BY <1>1, <1>2, TotalFacts DEF GonePart
    <2> QED BY <1>1, <2>1, <2>2, <2>3
<1>3. CASE OrderAt(s).base # q
    <2>1. In(Y \cup {s}) = In(Y)
        BY <1>3
    <2>2. Gone(Y, q) = Total(In(Y)) /\ Gone(Y \cup {s}, q) = Total(In(Y))
        BY <2>1 DEF Gone
    <2> HIDE DEF In
    <2>3. Total(In(Y)) \in Nat /\ GonePart(s, q) = 0
        BY <1>1, <1>3, TotalFacts DEF GonePart
    <2> QED BY <2>2, <2>3
<1> QED BY <1>2, <1>3

(***************************************************************************)
(* Backing.  Everything is counted in the precision of the packets.        *)
(***************************************************************************)
EscrowValue(L, b, q) == L.escrow[<<b, q>>] * ScaleOf(L, b)
WrappedValue(L, q) == Supply(L, q) * ScaleOf(L, q)

BackedBy(L, X, Y) ==
    \A b, q \in Denoms :
        EscrowValue(L, b, q) =
            Way(X, b, q) +
            (IF IsIBCTokenDenom(q) /\ Front(q) = b THEN WrappedValue(L, q) + Gone(Y, q) ELSE 0)

LEMMA ValuesAreNat ==
    ASSUME NEW L \in Ledgers, Recorded(L)
    PROVE  \A b, q \in Denoms : EscrowValue(L, b, q) \in Nat /\ WrappedValue(L, q) \in Nat
<1> SUFFICES ASSUME NEW b \in Denoms, NEW q \in Denoms
             PROVE  EscrowValue(L, b, q) \in Nat /\ WrappedValue(L, q) \in Nat
    OBVIOUS
<1>1. ScaleOf(L, b) \in Nat /\ ScaleOf(L, q) \in Nat
    BY ScalePositive
<1>2. L.escrow[<<b, q>>] \in Nat
    BY DEF Ledgers
<1>3. Supply(L, q) \in Nat
    BY Sums
<1> QED BY <1>1, <1>2, <1>3 DEF EscrowValue, WrappedValue

\* From L to M the channel balance of b against q changes by the value x, the
\* wrapped token w by the value y, and nothing else in value.
Shift(L, M, b, q, x, w, y) ==
    /\ \A c, r \in Denoms :
          EscrowValue(M, c, r) = EscrowValue(L, c, r) + (IF c = b /\ r = q THEN x ELSE 0)
    /\ \A r \in Denoms :
          IsIBCTokenDenom(r) =>
              WrappedValue(M, r) = WrappedValue(L, r) + (IF r = w THEN y ELSE 0)

\* What entering, leaving and burning orders does to the backing.
LEMMA BackedShift ==
    ASSUME NEW L \in Ledgers, Recorded(L), NEW M, NEW X \in SUBSET Slots, NEW Y \in SUBSET Slots,
           BackedBy(L, X, Y), NEW s \in Slots, NEW b \in Denoms, NEW q \in Denoms,
           KeyOf(s) = <<b, q>>, NEW a, a = OrderAt(s).baseAmount, NEW w \in Denoms
    PROVE  /\ Shift(L, M, b, q, 0, w, 0) => BackedBy(M, X, Y)
           /\ Shift(L, M, b, q, a, w, 0) /\ s \notin X => BackedBy(M, X \cup {s}, Y)
           /\ Shift(L, M, b, q, -a, w, 0) /\ s \in X => BackedBy(M, X \ {s}, Y)
           /\ IsIBCTokenDenom(q) /\ Front(q) = b =>
                 /\ Shift(L, M, b, q, 0, q, -a) /\ s \notin X => BackedBy(M, X \cup {s}, Y)
                 /\ Shift(L, M, b, q, 0, q, a) /\ s \in X => BackedBy(M, X \ {s}, Y)
           /\ /\ Shift(L, M, b, q, -a, b, IF IsIBCTokenDenom(b) THEN -a ELSE 0)
              /\ s \in X /\ s \notin Y /\ OrderAt(s).base = b
              => BackedBy(M, X \ {s}, Y \cup {s})
<1>1. a \in Nat
    BY SlotFacts
<1>2. \A c, r \in Denoms :
          /\ EscrowValue(L, c, r) \in Nat /\ WrappedValue(L, r) \in Nat
          /\ Way(X, c, r) \in Nat /\ Gone(Y, r) \in Nat
    BY ValuesAreNat, WayFacts, GoneFacts
<1>3. \A c, r \in Denoms :
          KeyOf(s) = <<c, r>> <=> c = b /\ r = q
    OBVIOUS
<1>4. \A c, r \in Denoms :
          /\ WayPart(s, c, r) = IF c = b /\ r = q THEN a ELSE 0
          /\ s \notin X => Way(X \cup {s}, c, r) = Way(X, c, r) + WayPart(s, c, r)
          /\ s \in X => Way(X \ {s}, c, r) = Way(X, c, r) - WayPart(s, c, r)
    <2>1. \A c, r \in Denoms : WayPart(s, c, r) = IF c = b /\ r = q THEN a ELSE 0
        BY <1>3 DEF WayPart
    <2> QED BY <2>1, WayFacts, ZenonT(60)
<1>5. \A r \in Denoms : /\ GonePart(s, r) = IF OrderAt(s).base = r THEN a ELSE 0
                        /\ s \notin Y => Gone(Y \cup {s}, r) = Gone(Y, r) + GonePart(s, r)
    BY GoneFacts DEF GonePart
<1>6. Shift(L, M, b, q, 0, w, 0) => BackedBy(M, X, Y)
    BY <1>2 DEF Shift, BackedBy
<1>7. ASSUME Shift(L, M, b, q, a, w, 0), s \notin X
     PROVE  BackedBy(M, X \cup {s}, Y)
    <2> SUFFICES ASSUME NEW c \in Denoms, NEW r \in Denoms
                 PROVE  EscrowValue(M, c, r) = Way(X \cup {s}, c, r) +
                           (IF IsIBCTokenDenom(r) /\ Front(r) = c
                            THEN WrappedValue(M, r) + Gone(Y, r) ELSE 0)
        BY DEF BackedBy
    <2>1. EscrowValue(L, c, r) = Way(X, c, r) +
             (IF IsIBCTokenDenom(r) /\ Front(r) = c THEN WrappedValue(L, r) + Gone(Y, r) ELSE 0)
        BY DEF BackedBy
    <2>2. EscrowValue(M, c, r) = EscrowValue(L, c, r) + (IF c = b /\ r = q THEN a ELSE 0)
        BY <1>7 DEF Shift
    <2>3. IsIBCTokenDenom(r) =>
              WrappedValue(M, r) = WrappedValue(L, r) + (IF r = w THEN 0 ELSE 0)
        BY <1>7 DEF Shift
    <2>4. /\ WayPart(s, c, r) = IF c = b /\ r = q THEN a ELSE 0
          /\ Way(X \cup {s}, c, r) = Way(X, c, r) + WayPart(s, c, r)
        BY <1>4, <1>7
    <2>5. /\ EscrowValue(L, c, r) \in Nat /\ WrappedValue(L, r) \in Nat
          /\ Way(X, c, r) \in Nat /\ Gone(Y, r) \in Nat
        BY <1>2
    <2> QED BY <1>1, <2>1, <2>2, <2>3, <2>4, <2>5
<1>8. ASSUME Shift(L, M, b, q, -a, w, 0), s \in X
     PROVE  BackedBy(M, X \ {s}, Y)
    <2> SUFFICES ASSUME NEW c \in Denoms, NEW r \in Denoms
                 PROVE  EscrowValue(M, c, r) = Way(X \ {s}, c, r) +
                           (IF IsIBCTokenDenom(r) /\ Front(r) = c
                            THEN WrappedValue(M, r) + Gone(Y, r) ELSE 0)
        BY DEF BackedBy
    <2>1. EscrowValue(L, c, r) = Way(X, c, r) +
             (IF IsIBCTokenDenom(r) /\ Front(r) = c THEN WrappedValue(L, r) + Gone(Y, r) ELSE 0)
        BY DEF BackedBy
    <2>2. EscrowValue(M, c, r) = EscrowValue(L, c, r) + (IF c = b /\ r = q THEN -a ELSE 0)
        BY <1>8 DEF Shift
    <2>3. IsIBCTokenDenom(r) =>
              WrappedValue(M, r) = WrappedValue(L, r) + (IF r = w THEN 0 ELSE 0)
        BY <1>8 DEF Shift
    <2>4. /\ WayPart(s, c, r) = IF c = b /\ r = q THEN a ELSE 0
          /\ Way(X \ {s}, c, r) = Way(X, c, r) - WayPart(s, c, r)
        BY <1>4, <1>8
    <2>5. /\ EscrowValue(L, c, r) \in Nat /\ WrappedValue(L, r) \in Nat
          /\ Way(X, c, r) \in Nat /\ Gone(Y, r) \in Nat
        BY <1>2
    <2> QED BY <1>1, <2>1, <2>2, <2>3, <2>4, <2>5
<1>9. ASSUME IsIBCTokenDenom(q), Front(q) = b, Shift(L, M, b, q, 0, q, -a), s \notin X
     PROVE  BackedBy(M, X \cup {s}, Y)
    <2> SUFFICES ASSUME NEW c \in Denoms, NEW r \in Denoms
                 PROVE  EscrowValue(M, c, r) = Way(X \cup {s}, c, r) +
                           (IF IsIBCTokenDenom(r) /\ Front(r) = c
                            THEN WrappedValue(M, r) + Gone(Y, r) ELSE 0)
        BY DEF BackedBy
    <2>1. EscrowValue(L, c, r) = Way(X, c, r) +
             (IF IsIBCTokenDenom(r) /\ Front(r) = c THEN WrappedValue(L, r) + Gone(Y, r) ELSE 0)
        BY DEF BackedBy
    <2>2. EscrowValue(M, c, r) = EscrowValue(L, c, r) + (IF c = b /\ r = q THEN 0 ELSE 0)
        BY <1>9 DEF Shift
    <2>3. IsIBCTokenDenom(r) =>
              WrappedValue(M, r) = WrappedValue(L, r) + (IF r = q THEN -a ELSE 0)
        BY <1>9 DEF Shift
    <2>4. /\ WayPart(s, c, r) = IF c = b /\ r = q THEN a ELSE 0
          /\ Way(X \cup {s}, c, r) = Way(X, c, r) + WayPart(s, c, r)
        BY <1>4, <1>9
    <2>5. /\ EscrowValue(L, c, r) \in Nat /\ WrappedValue(L, r) \in Nat
          /\ Way(X, c, r) \in Nat /\ Gone(Y, r) \in Nat
        BY <1>2
    <2> QED BY <1>1, <1>9, <2>1, <2>2, <2>3, <2>4, <2>5
<1>10. ASSUME IsIBCTokenDenom(q), Front(q) = b, Shift(L, M, b, q, 0, q, a), s \in X
      PROVE  BackedBy(M, X \ {s}, Y)
    <2> SUFFICES ASSUME NEW c \in Denoms, NEW r \in Denoms
                 PROVE  EscrowValue(M, c, r) = Way(X \ {s}, c, r) +
                           (IF IsIBCTokenDenom(r) /\ Front(r) = c
                            THEN WrappedValue(M, r) + Gone(Y, r) ELSE 0)
        BY DEF BackedBy
    <2>1. EscrowValue(L, c, r) = Way(X, c, r) +
             (IF IsIBCTokenDenom(r) /\ Front(r) = c THEN WrappedValue(L, r) + Gone(Y, r) ELSE 0)
        BY DEF BackedBy
    <2>2. EscrowValue(M, c, r) = EscrowValue(L, c, r) + (IF c = b /\ r = q THEN 0 ELSE 0)
        BY <1>10 DEF Shift
    <2>3. IsIBCTokenDenom(r) =>
              WrappedValue(M, r) = WrappedValue(L, r) + (IF r = q THEN a ELSE 0)
        BY <1>10 DEF Shift
    <2>4. /\ WayPart(s, c, r) = IF c = b /\ r = q THEN a ELSE 0
          /\ Way(X \ {s}, c, r) = Way(X, c, r) - WayPart(s, c, r)
        BY <1>4, <1>10
    <2>5. /\ EscrowValue(L, c, r) \in Nat /\ WrappedValue(L, r) \in Nat
          /\ Way(X, c, r) \in Nat /\ Gone(Y, r) \in Nat
        BY <1>2
    <2> QED BY <1>1, <1>10, <2>1, <2>2, <2>3, <2>4, <2>5
<1>11. ASSUME Shift(L, M, b, q, -a, b, IF IsIBCTokenDenom(b) THEN -a ELSE 0),
              s \in X, s \notin Y, OrderAt(s).base = b
      PROVE  BackedBy(M, X \ {s}, Y \cup {s})
    <2> SUFFICES ASSUME NEW c \in Denoms, NEW r \in Denoms
                 PROVE  EscrowValue(M, c, r) = Way(X \ {s}, c, r) +
                           (IF IsIBCTokenDenom(r) /\ Front(r) = c
                            THEN WrappedValue(M, r) + Gone(Y \cup {s}, r) ELSE 0)
        BY DEF BackedBy
    <2>1. EscrowValue(L, c, r) = Way(X, c, r) +
             (IF IsIBCTokenDenom(r) /\ Front(r) = c THEN WrappedValue(L, r) + Gone(Y, r) ELSE 0)
        BY DEF BackedBy
    <2>2. EscrowValue(M, c, r) = EscrowValue(L, c, r) + (IF c = b /\ r = q THEN -a ELSE 0)
        BY <1>11 DEF Shift
    <2>3. IsIBCTokenDenom(r) =>
              WrappedValue(M, r) = WrappedValue(L, r) + (IF r = b THEN (IF IsIBCTokenDenom(b) THEN -a ELSE 0) ELSE 0)
        BY <1>11 DEF Shift
    <2>4. /\ WayPart(s, c, r) = IF c = b /\ r = q THEN a ELSE 0
          /\ Way(X \ {s}, c, r) = Way(X, c, r) - WayPart(s, c, r)
        BY <1>4, <1>11
    <2>5. /\ EscrowValue(L, c, r) \in Nat /\ WrappedValue(L, r) \in Nat
          /\ Way(X, c, r) \in Nat /\ Gone(Y, r) \in Nat
        BY <1>2
    <2>6. /\ GonePart(s, r) = IF r = b THEN a ELSE 0
          /\ Gone(Y \cup {s}, r) = Gone(Y, r) + GonePart(s, r)
        BY <1>5, <1>11
    <2> QED BY <1>1, <2>1, <2>2, <2>3, <2>4, <2>5, <2>6
<1> QED BY <1>6, <1>7, <1>8, <1>9, <1>10, <1>11

\* An amount that a ledger accepts is a whole number of its units.
LEMMA Units ==
    ASSUME NEW L \in Ledgers, Recorded(L), NEW d \in Denoms, NEW a \in Nat,
           LedgerAmountOk(L, d, a)
    PROVE  /\ LedgerAmountOf(L, d, a) \in Nat
           /\ LedgerAmountOf(L, d, a) <= MaxInt64
           /\ a = LedgerAmountOf(L, d, a) * ScaleOf(L, d)
<1>1. ScaleOf(L, d) \in Nat \ {0}
    BY ScalePositive
<1>2. a % ScaleOf(L, d) = 0 /\ a \div ScaleOf(L, d) <= MaxInt64
    BY DEF LedgerAmountOk, ScaleDownOk
<1> QED BY <1>1, <1>2, DivExact DEF LedgerAmountOf, ScaleDown

\* Scales only change for tokens that become vouchers.
LEMMA ScaleKept ==
    ASSUME NEW L, NEW M, NEW d, d \in L.vouchers <=> d \in M.vouchers
    PROVE  ScaleOf(M, d) = ScaleOf(L, d)
BY DEF ScaleOf

\* A wrapped token that is no voucher is nowhere.
LEMMA NoVoucherNoValue ==
    ASSUME NEW L, Sound(L), NEW d \in Denoms, IsIBCTokenDenom(d), d \notin L.vouchers
    PROVE  Supply(L, d) = 0 /\ L.balance[d][Proxy] = 0 /\ Escrowed(L, d) = 0
           /\ \A q \in Denoms : L.escrow[<<d, q>>] = 0
<1>1. L \in Ledgers /\ Proxy \in Accounts
    BY TokenAssumption DEF Sound
<1>2. /\ Supply(L, d) \in Nat /\ \A h \in Accounts : L.balance[d][h] <= Supply(L, d)
      /\ Escrowed(L, d) \in Nat /\ \A q \in Denoms : L.escrow[<<d, q>>] <= Escrowed(L, d)
    BY <1>1, Sums
<1>3. Supply(L, d) = 0
    BY <1>2 DEF Sound, Recorded
<1>4. L.balance[d][Proxy] >= L.locked[d] + Escrowed(L, d)
    BY DEF Sound, Held
<1>5. L.balance[d][Proxy] \in Nat /\ L.locked[d] \in Nat
      /\ \A q \in Denoms : L.escrow[<<d, q>>] \in Nat
    BY <1>1 DEF Ledgers
<1> QED BY <1>1, <1>2, <1>3, <1>4, <1>5

\* The value that a change of one channel balance by m units and of one
\* supply by n units moves.  Only w may become a voucher by it.
LEMMA ShiftOf ==
    ASSUME NEW L, Sound(L), NEW M, Sound(M), NEW b \in Denoms, NEW q \in Denoms, NEW w \in Denoms,
           NEW m \in Int, NEW n \in Int,
           L.vouchers \subseteq M.vouchers, M.vouchers \subseteq L.vouchers \cup {w},
           m = 0 \/ b \in L.vouchers \/ b \notin M.vouchers,
           M.escrow[<<b, q>>] = L.escrow[<<b, q>>] + m,
           \A c, r \in Denoms : c # b \/ r # q => M.escrow[<<c, r>>] = L.escrow[<<c, r>>],
           Supply(M, w) = Supply(L, w) + n,
           \A e \in Denoms : e # w => Supply(M, e) = Supply(L, e)
    PROVE  Shift(L, M, b, q, m * ScaleOf(M, b), w, n * ScaleOf(M, w))
<1>1. L \in Ledgers /\ M \in Ledgers /\ Recorded(L) /\ Recorded(M)
    BY DEF Sound
<1>2. \A d \in Denoms : ScaleOf(L, d) \in Nat /\ ScaleOf(M, d) \in Nat
    BY <1>1, ScalePositive
<1>3. \A c, r \in Denoms : L.escrow[<<c, r>>] \in Nat /\ M.escrow[<<c, r>>] \in Nat
    BY <1>1 DEF Ledgers
<1>4. \A d \in Denoms : Supply(L, d) \in Nat /\ Supply(M, d) \in Nat
    BY <1>1, Sums
<1>5. \A d \in Denoms : d # w \/ d \in L.vouchers => ScaleOf(M, d) = ScaleOf(L, d)
    BY ScaleKept
<1>6. w \notin L.vouchers /\ w \in M.vouchers =>
          Supply(L, w) = 0 /\ \A r \in Denoms : L.escrow[<<w, r>>] = 0
    <2>1. w \in M.vouchers => IsIBCTokenDenom(w)
        BY <1>1 DEF Recorded, Genuine
    <2> QED BY <2>1, NoVoucherNoValue
<1>7. w \notin M.vouchers => ScaleOf(M, w) = ScaleOf(L, w)
    BY ScaleKept
<1>8. ASSUME NEW c \in Denoms, NEW r \in Denoms
      PROVE  EscrowValue(M, c, r) =
                EscrowValue(L, c, r) + (IF c = b /\ r = q THEN m * ScaleOf(M, b) ELSE 0)
    <2>1. L.escrow[<<c, r>>] * ScaleOf(M, c) = L.escrow[<<c, r>>] * ScaleOf(L, c)
        <3>1. ScaleOf(M, c) = ScaleOf(L, c) \/ L.escrow[<<c, r>>] = 0
            BY <1>5, <1>6, <1>7
        <3> QED BY <1>2, <3>1
    <2>2. CASE c = b /\ r = q
        <3>1. (L.escrow[<<b, q>>] + m) * ScaleOf(M, b) =
                  L.escrow[<<b, q>>] * ScaleOf(M, b) + m * ScaleOf(M, b)
            BY <1>2, <1>3, Distributes
        <3> QED BY <2>1, <2>2, <3>1 DEF EscrowValue
    <2>3. CASE ~(c = b /\ r = q)
        <3>1. L.escrow[<<c, r>>] * ScaleOf(L, c) \in Int
            BY <1>2, <1>3
        <3> QED BY <2>1, <2>3, <3>1 DEF EscrowValue
    <2> QED BY <2>2, <2>3
<1>9. ASSUME NEW r \in Denoms
      PROVE  WrappedValue(M, r) = WrappedValue(L, r) + (IF r = w THEN n * ScaleOf(M, w) ELSE 0)
    <2>1. Supply(L, r) * ScaleOf(M, r) = Supply(L, r) * ScaleOf(L, r)
        <3>1. ScaleOf(M, r) = ScaleOf(L, r) \/ Supply(L, r) = 0
            BY <1>5, <1>6, <1>7
        <3> QED BY <1>2, <3>1
    <2>2. CASE r = w
        <3>1. (Supply(L, w) + n) * ScaleOf(M, w) = Supply(L, w) * ScaleOf(M, w) + n * ScaleOf(M, w)
            BY <1>2, <1>4, Distributes
        <3> QED BY <2>1, <2>2, <3>1 DEF WrappedValue
    <2>3. CASE r # w
        <3>1. Supply(L, r) * ScaleOf(L, r) \in Int
            BY <1>2, <1>4
        <3> QED BY <2>1, <2>3, <3>1 DEF WrappedValue
    <2> QED BY <2>2, <2>3
<1> QED BY <1>8, <1>9 DEF Shift

\* No supply grows and the vouchers are the same: only custody may suffer.
LEMMA SoundKept ==
    ASSUME NEW L, Sound(L), NEW M \in Ledgers, Held(M),
           M.vouchers = L.vouchers, M.deployed = L.deployed,
           \A d \in Denoms : Supply(M, d) <= Supply(L, d)
    PROVE  Sound(M) /\ Grows(L, M)
<1>1. L \in Ledgers
    BY DEF Sound
<1>2. \A d \in Denoms : Supply(L, d) \in Nat /\ Supply(M, d) \in Nat
    BY <1>1, Sums
<1>3. SupplyBounded(M)
    BY <1>2, TokenAssumption DEF Sound, SupplyBounded
<1>4. Recorded(M)
    BY <1>2 DEF Sound, Recorded, Genuine
<1> QED BY <1>3, <1>4 DEF Sound, Grows

\* What an order that was sent has left behind for its settlement.
Owed(L, o) ==
    /\ LedgerAmountOk(L, o.base, o.baseAmount)
    /\ \/ /\ o.kind \in {"INITIALIZE", "ESCROW"}
          /\ IsIBCTokenDenom(o.base) => o.base \in L.vouchers
          /\ o.kind = "INITIALIZE" /\ IsIBCTokenDenom(o.base) =>
                o.metadata.decimals = Last(o.base).decimals
       \/ o.kind = "UNESCROW" /\ o.base \in L.deployed /\ o.quote = Front(o.base)

LEMMA OwedKept ==
    ASSUME NEW L, Sound(L), NEW M, Sound(M), Grows(L, M), NEW o, Owed(L, o)
    PROVE  Owed(M, o)
<1>1. L.deployed \subseteq L.vouchers /\ \A v \in M.vouchers : IsIBCTokenDenom(v)
    BY DEF Sound, Recorded, Genuine
<1>2. L.vouchers \subseteq M.vouchers /\ L.deployed \subseteq M.deployed
    BY DEF Grows
<1>3. o.base \in L.vouchers <=> o.base \in M.vouchers
    BY <1>1, <1>2 DEF Owed
<1>4. ScaleOf(M, o.base) = ScaleOf(L, o.base)
    BY <1>3, ScaleKept
<1> QED BY <1>2, <1>4 DEF Owed, LedgerAmountOk

(***************************************************************************)
(* Sending.                                                                *)
(***************************************************************************)
LEMMA EscrowOrderSound ==
    ASSUME NEW L, Sound(L), NEW X \in SUBSET Slots, NEW Y \in SUBSET Slots, BackedBy(L, X, Y),
           NEW s \in Slots, s \notin X, NEW o, o = OrderAt(s), o.kind \in {"INITIALIZE", "ESCROW"},
           NEW caller \in Accounts \ {Proxy}, EscrowOrder(L, o, caller).status = "done"
    PROVE  LET M == EscrowOrder(L, o, caller).state
           IN  Sound(M) /\ Grows(L, M) /\ BackedBy(M, X \cup {s}, Y) /\ Owed(M, o)
<1> DEFINE n == LedgerAmountOf(L, o.base, o.baseAmount)
           H == IncreaseChannelBalance(L, o.base, o.quote, n)
           M == Transfer(H, o.base, caller, Proxy, n)
<1>1. /\ o.kind = "INITIALIZE" => VerifyMetadataDecimals(L, o)
      /\ LedgerAmountOk(L, o.base, o.baseAmount)
      /\ IsIBCTokenDenom(o.base) => o.base \in L.vouchers
      /\ CanTransfer(L, o.base, caller, Proxy, n)
      /\ EscrowOrder(L, o, caller).state = M
    BY DEF EscrowOrder, Error, Done
<1>2. /\ o.base \in Denoms /\ o.quote \in Denoms /\ o.baseAmount \in Nat
      /\ KeyOf(s) = <<o.base, o.quote>>
    BY SlotFacts DEF KeyOf
<1>3. L \in Ledgers /\ Recorded(L) /\ Held(L)
    BY DEF Sound
<1>4. n \in Nat /\ o.baseAmount = n * ScaleOf(L, o.base)
    BY <1>1, <1>2, <1>3, Units
<1> HIDE DEF n
<1>5. Increased(L, H, o.base, o.quote, n)
    BY <1>2, <1>3, <1>4, IncreaseAdds
<1> HIDE DEF H
<1>6. H.balance = L.balance /\ H.locked = L.locked
      /\ H.vouchers = L.vouchers /\ H.deployed = L.deployed
    BY <1>5 DEF Increased, OnlyEscrow
<1>7. CanTransfer(H, o.base, caller, Proxy, n)
    BY <1>1, <1>6 DEF CanTransfer
<1>8. Moved(H, M, o.base, caller, Proxy, n) /\ M \in Ledgers
    <2>1. H \in Ledgers /\ caller \in Accounts
        BY <1>5 DEF Increased
    <2>2. Moved(H, M, o.base, caller, Proxy, n)
        BY <1>2, <1>4, <1>7, <2>1, TransferMoves
    <2> QED BY <2>2 DEF Moved
<1> HIDE DEF M
<1>9. M.escrow = H.escrow /\ M.locked = H.locked
      /\ M.vouchers = H.vouchers /\ M.deployed = H.deployed
    BY <1>8 DEF Moved, OnlyBalances
<1>10. \A e \in Denoms : Supply(M, e) = Supply(L, e)
    BY <1>6, <1>8 DEF Moved, Supply
<1>11. Held(M)
    <2> SUFFICES ASSUME NEW d \in Denoms
                 PROVE  M.balance[d][Proxy] >= M.locked[d] + Escrowed(M, d)
        BY DEF Held
    <2>1. L.balance[d][Proxy] >= L.locked[d] + Escrowed(L, d)
        BY <1>3 DEF Held
    <2>2. Escrowed(M, d) = Escrowed(H, d)
        BY <1>9, SameEscrow
    <2>3. L.balance[d][Proxy] \in Nat /\ L.locked[d] \in Nat /\ Escrowed(L, d) \in Nat
        BY <1>3, ProxyTyped
    <2>4. CASE d = o.base
        <3>1. Escrowed(H, d) = Escrowed(L, d) + n /\ M.balance[d][Proxy] = L.balance[d][Proxy] + n
            BY <1>5, <1>6, <1>8, <2>4 DEF Increased, Moved
        <3> QED BY <1>4, <1>6, <1>9, <2>1, <2>2, <2>3, <3>1
    <2>5. CASE d # o.base
        <3>1. Escrowed(H, d) = Escrowed(L, d) /\ M.balance[d][Proxy] = L.balance[d][Proxy]
            BY <1>5, <1>6, <1>8, <2>5 DEF Increased, Moved
        <3> QED BY <1>6, <1>9, <2>1, <2>2, <2>3, <3>1
    <2> QED BY <2>4, <2>5
<1>12. Sound(M) /\ Grows(L, M)
    <2>1. \A d \in Denoms : Supply(L, d) \in Nat
        BY <1>3, Sums
    <2>2. M.vouchers = L.vouchers /\ M.deployed = L.deployed
        BY <1>6, <1>9
    <2> QED BY <1>8, <1>10, <1>11, <2>1, <2>2, SoundKept
<1>13. ScaleOf(M, o.base) = ScaleOf(L, o.base)
    BY <1>6, <1>9, ScaleKept
<1>14. Shift(L, M, o.base, o.quote, o.baseAmount, o.base, 0)
    <2>1. L.vouchers \subseteq M.vouchers /\ M.vouchers \subseteq L.vouchers
        BY <1>6, <1>9
    <2>2. /\ M.escrow[<<o.base, o.quote>>] = L.escrow[<<o.base, o.quote>>] + n
          /\ \A c, r \in Denoms :
                c # o.base \/ r # o.quote => M.escrow[<<c, r>>] = L.escrow[<<c, r>>]
        BY <1>5, <1>9 DEF Increased
    <2>3. Supply(M, o.base) = Supply(L, o.base) + 0 /\ n \in Int
        BY <1>2, <1>3, <1>4, <1>10, Sums
    <2>4. Shift(L, M, o.base, o.quote, n * ScaleOf(M, o.base), o.base, 0 * ScaleOf(M, o.base))
        BY <1>2, <1>10, <1>12, <2>1, <2>2, <2>3, ShiftOf
    <2>5. 0 * ScaleOf(M, o.base) = 0
        BY <1>2, <1>12, ScalePositive DEF Sound
    <2> QED BY <1>4, <1>13, <2>4, <2>5
<1>15. BackedBy(M, X \cup {s}, Y)
    BY <1>2, <1>3, <1>14, BackedShift
<1>16. Owed(M, o)
    <2>1. o.kind = "INITIALIZE" /\ IsIBCTokenDenom(o.base) =>
              o.metadata.decimals = Last(o.base).decimals
        BY <1>1, DenomsAssumption DEF VerifyMetadataDecimals, OriginDecimals
    <2> QED BY <1>1, <1>6, <1>9, <1>13, <2>1 DEF Owed, LedgerAmountOk
<1>17. EscrowOrder(L, o, caller).state = M
    BY <1>1 DEF M, H, n
<1> QED BY <1>12, <1>15, <1>16, <1>17

LEMMA BurnOrderSound ==
    ASSUME NEW L, Sound(L), NEW X \in SUBSET Slots, NEW Y \in SUBSET Slots, BackedBy(L, X, Y),
           NEW s \in Slots, s \notin X, NEW o, o = OrderAt(s), o.kind = "UNESCROW",
           NEW caller \in Accounts \ {Proxy}, BurnOrder(L, o, caller).status = "done"
    PROVE  LET M == BurnOrder(L, o, caller).state
           IN  Sound(M) /\ Grows(L, M) /\ BackedBy(M, X \cup {s}, Y) /\ Owed(M, o)
<1> DEFINE n == LedgerAmountOf(L, o.base, o.baseAmount)
           M == Burn(L, o.base, caller, n)
<1>1. /\ o.base \in L.deployed
      /\ o.base \in {PredictWrappedToken(o.quote, NoMetadata),
                     PredictWrappedToken(o.quote, ImageOf(L, o.base))}
      /\ LedgerAmountOk(L, o.base, o.baseAmount)
      /\ L.balance[o.base][caller] >= n
      /\ BurnOrder(L, o, caller).state = M
    BY DEF BurnOrder, Error, Done, CanBurn
<1>2. /\ o.base \in Denoms /\ o.quote \in Denoms /\ o.baseAmount \in Nat
      /\ KeyOf(s) = <<o.quote, o.base>>
    BY SlotFacts DEF KeyOf
<1>3. L \in Ledgers /\ Recorded(L) /\ Held(L)
    BY DEF Sound
<1>4. n \in Nat /\ o.baseAmount = n * ScaleOf(L, o.base)
    BY <1>1, <1>2, <1>3, Units
<1>5. IsIBCTokenDenom(o.base) /\ Front(o.base) = o.quote
    BY <1>1, <1>2, WrappedDenom
<1> HIDE DEF n
<1>6. Burned(L, M, o.base, caller, n)
    BY <1>1, <1>2, <1>3, <1>4, BurnTakes
<1> HIDE DEF M
<1>7. M \in Ledgers /\ M.escrow = L.escrow /\ M.locked = L.locked
      /\ M.vouchers = L.vouchers /\ M.deployed = L.deployed
    BY <1>6 DEF Burned, OnlyBalances
<1>8. Supply(M, o.base) = Supply(L, o.base) - n
      /\ \A e \in Denoms : e # o.base => Supply(M, e) = Supply(L, e)
    BY <1>6 DEF Burned
<1>9. Held(M)
    <2> SUFFICES ASSUME NEW d \in Denoms
                 PROVE  M.balance[d][Proxy] >= M.locked[d] + Escrowed(M, d)
        BY DEF Held
    <2>1. L.balance[d][Proxy] >= L.locked[d] + Escrowed(L, d)
        BY <1>3 DEF Held
    <2>2. Escrowed(M, d) = Escrowed(L, d)
        BY <1>7, SameEscrow
    <2>3. M.balance[d][Proxy] = L.balance[d][Proxy]
        BY <1>6, TokenAssumption DEF Burned
    <2> QED BY <1>7, <2>1, <2>2, <2>3
<1>10. Sound(M) /\ Grows(L, M)
    <2>1. \A d \in Denoms : Supply(L, d) \in Nat
        BY <1>3, Sums
    <2>2. \A d \in Denoms : Supply(M, d) <= Supply(L, d)
        BY <1>4, <1>8, <2>1
    <2> QED BY <1>7, <1>9, <2>2, SoundKept
<1>11. ScaleOf(M, o.base) = ScaleOf(L, o.base) /\ ScaleOf(M, o.base) \in Nat
       /\ ScaleOf(M, o.quote) \in Nat
    BY <1>2, <1>7, <1>10, ScaleKept, ScalePositive DEF Sound
<1>12. Shift(L, M, o.quote, o.base, 0, o.base, -o.baseAmount)
    <2>1. L.vouchers \subseteq M.vouchers /\ M.vouchers \subseteq L.vouchers \cup {o.base}
        BY <1>7
    <2>2. /\ M.escrow[<<o.quote, o.base>>] = L.escrow[<<o.quote, o.base>>] + 0
          /\ \A c, r \in Denoms :
                c # o.quote \/ r # o.base => M.escrow[<<c, r>>] = L.escrow[<<c, r>>]
        BY <1>2, <1>3, <1>7 DEF Ledgers
    <2>3. Supply(M, o.base) = Supply(L, o.base) + (-n) /\ -n \in Int
        BY <1>2, <1>3, <1>4, <1>8, Sums
    <2>4. Shift(L, M, o.quote, o.base, 0 * ScaleOf(M, o.quote), o.base, (-n) * ScaleOf(M, o.base))
        BY <1>2, <1>8, <1>10, <2>1, <2>2, <2>3, ShiftOf
    <2>5. 0 * ScaleOf(M, o.quote) = 0 /\ (-n) * ScaleOf(M, o.base) = -o.baseAmount
        BY <1>4, <1>11, Negative
    <2> QED BY <2>4, <2>5
<1>13. BackedBy(M, X \cup {s}, Y)
    BY <1>2, <1>3, <1>5, <1>12, BackedShift
<1>14. Owed(M, o)
    BY <1>1, <1>5, <1>7, <1>11 DEF Owed, LedgerAmountOk
<1>15. BurnOrder(L, o, caller).state = M
    BY <1>1 DEF M, n
<1> QED BY <1>10, <1>13, <1>14, <1>15

LEMMA VerifyOrderSound ==
    ASSUME NEW L, Sound(L), NEW X \in SUBSET Slots, NEW Y \in SUBSET Slots, BackedBy(L, X, Y),
           NEW s \in Slots, s \notin X, NEW caller \in Accounts \ {Proxy},
           VerifyTokenOrder(L, OrderAt(s), caller).status = "done"
    PROVE  LET M == VerifyTokenOrder(L, OrderAt(s), caller).state
           IN  Sound(M) /\ Grows(L, M) /\ BackedBy(M, X \cup {s}, Y) /\ Owed(M, OrderAt(s))
<1> DEFINE o == OrderAt(s)
           r == VerifyTokenOrder(L, o, caller)
<1>1. CASE o.kind \in {"INITIALIZE", "ESCROW"}
    <2>1. r = EscrowOrder(L, o, caller)
        BY <1>1 DEF VerifyTokenOrder
    <2> QED BY <1>1, <2>1, EscrowOrderSound
<1>2. CASE o.kind = "UNESCROW"
    <2>1. r = BurnOrder(L, o, caller)
        BY <1>2 DEF VerifyTokenOrder
    <2> QED BY <1>2, <2>1, BurnOrderSound
<1>3. CASE o.kind \notin {"INITIALIZE", "ESCROW", "UNESCROW"}
    <2>1. r = Error(L)
        BY <1>3 DEF VerifyTokenOrder
    <2> QED BY <2>1 DEF Error
<1> QED BY <1>1, <1>2, <1>3

(***************************************************************************)
(* Receiving.                                                              *)
(***************************************************************************)
\* Tokens handed on by anyone but the proxy.
LEMMA TransferSound ==
    ASSUME NEW L, Sound(L), NEW X, NEW Y, BackedBy(L, X, Y),
           NEW d \in Denoms, NEW from \in Accounts \ {Proxy}, NEW to, NEW n \in Nat,
           CanTransfer(L, d, from, to, n)
    PROVE  LET M == Transfer(L, d, from, to, n)
           IN  Sound(M) /\ Grows(L, M) /\ BackedBy(M, X, Y)
<1> DEFINE M == Transfer(L, d, from, to, n)
<1>1. L \in Ledgers /\ Held(L)
    BY DEF Sound
<1>2. Moved(L, M, d, from, to, n)
    BY <1>1, TransferMoves
<1> HIDE DEF M
<1>3. M \in Ledgers /\ M.escrow = L.escrow /\ M.locked = L.locked
      /\ M.vouchers = L.vouchers /\ M.deployed = L.deployed
    BY <1>2 DEF Moved, OnlyBalances
<1>4. \A e \in Denoms : Supply(M, e) = Supply(L, e)
    BY <1>2 DEF Moved
<1>5. Held(M)
    <2> SUFFICES ASSUME NEW e \in Denoms
                 PROVE  M.balance[e][Proxy] >= M.locked[e] + Escrowed(M, e)
        BY DEF Held
    <2>1. L.balance[e][Proxy] >= L.locked[e] + Escrowed(L, e)
        BY <1>1 DEF Held
    <2>2. Escrowed(M, e) = Escrowed(L, e)
        BY <1>3, SameEscrow
    <2>3. M.balance[e][Proxy] >= L.balance[e][Proxy]
        <3>1. L.balance[e][Proxy] \in Nat
            BY <1>1, ProxyTyped
        <3> QED BY <1>2, <3>1 DEF Moved
    <2>4. /\ L.balance[e][Proxy] \in Nat /\ M.balance[e][Proxy] \in Nat
          /\ L.locked[e] \in Nat /\ Escrowed(L, e) \in Nat
        BY <1>1, <1>3, ProxyTyped
    <2> QED BY <1>3, <2>1, <2>2, <2>3, <2>4
<1>6. Sound(M) /\ Grows(L, M)
    <2>1. \A e \in Denoms : Supply(L, e) \in Nat
        BY <1>1, Sums
    <2> QED BY <1>3, <1>4, <1>5, <2>1, SoundKept
<1>7. BackedBy(M, X, Y)
    <2>1. \A e \in Denoms : ScaleOf(M, e) = ScaleOf(L, e)
        BY <1>3, ScaleKept
    <2> QED BY <1>3, <1>4, <2>1 DEF BackedBy, EscrowValue, WrappedValue
<1> QED BY <1>6, <1>7 DEF M

\* A token becomes a voucher.
LEMMA CreateSound ==
    ASSUME NEW L, Sound(L), NEW X, NEW Y, BackedBy(L, X, Y), NEW d \in Denoms, Genuine(L, d)
    PROVE  LET M == GetOrCreateVoucher(L, d)
           IN  Sound(M) /\ Grows(L, M) /\ BackedBy(M, X, Y)
<1> DEFINE M == GetOrCreateVoucher(L, d)
<1>1. L \in Ledgers /\ Held(L) /\ Recorded(L) /\ SupplyBounded(L)
    BY DEF Sound
<1>2. M \in Ledgers /\ M.balance = L.balance /\ M.escrow = L.escrow /\ M.locked = L.locked
      /\ M.vouchers = L.vouchers \cup {d} /\ M.deployed = L.deployed
    BY <1>1 DEF Ledgers, GetOrCreateVoucher
<1> HIDE DEF M
<1>3. \A e \in Denoms : Supply(M, e) = Supply(L, e) /\ Escrowed(M, e) = Escrowed(L, e)
    BY <1>2 DEF Supply, Escrowed
<1>4. Recorded(M)
    BY <1>1, <1>2, <1>3 DEF Recorded, Genuine
<1>5. Sound(M) /\ Grows(L, M)
    BY <1>1, <1>2, <1>3, <1>4 DEF Sound, SupplyBounded, Held, Grows
<1>6. \A e \in Denoms : ScaleOf(M, e) = ScaleOf(L, e) \/
          (Supply(L, e) = 0 /\ \A q \in Denoms : L.escrow[<<e, q>>] = 0)
    <2>1. \A e \in Denoms : e # d \/ d \in L.vouchers => ScaleOf(M, e) = ScaleOf(L, e)
        BY <1>2, ScaleKept
    <2>2. d \notin L.vouchers => Supply(L, d) = 0 /\ \A q \in Denoms : L.escrow[<<d, q>>] = 0
        BY NoVoucherNoValue DEF Genuine
    <2> QED BY <2>1, <2>2
<1>7. \A e \in Denoms : ScaleOf(M, e) \in Nat /\ ScaleOf(L, e) \in Nat
    BY <1>1, <1>2, <1>4, ScalePositive
<1>8. \A b, q \in Denoms :
          EscrowValue(M, b, q) = EscrowValue(L, b, q) /\ WrappedValue(M, q) = WrappedValue(L, q)
    <2> SUFFICES ASSUME NEW b \in Denoms, NEW q \in Denoms
                 PROVE  /\ EscrowValue(M, b, q) = EscrowValue(L, b, q)
                        /\ WrappedValue(M, q) = WrappedValue(L, q)
        OBVIOUS
    <2>1. M.escrow[<<b, q>>] = L.escrow[<<b, q>>] /\ Supply(M, q) = Supply(L, q)
        BY <1>2, <1>3
    <2>2. L.escrow[<<b, q>>] * ScaleOf(M, b) = L.escrow[<<b, q>>] * ScaleOf(L, b)
        <3>1. CASE ScaleOf(M, b) = ScaleOf(L, b)
            BY <3>1
        <3>2. CASE L.escrow[<<b, q>>] = 0
            <4>1. 0 * ScaleOf(M, b) = 0 * ScaleOf(L, b)
                BY <1>7
            <4> QED BY <3>2, <4>1
        <3> QED BY <1>6, <3>1, <3>2
    <2>3. Supply(L, q) * ScaleOf(M, q) = Supply(L, q) * ScaleOf(L, q)
        <3>1. CASE ScaleOf(M, q) = ScaleOf(L, q)
            BY <3>1
        <3>2. CASE Supply(L, q) = 0
            <4>1. 0 * ScaleOf(M, q) = 0 * ScaleOf(L, q)
                BY <1>7
            <4> QED BY <3>2, <4>1
        <3> QED BY <1>6, <3>1, <3>2
    <2> QED BY <2>1, <2>2, <2>3 DEF EscrowValue, WrappedValue
<1>9. BackedBy(M, X, Y)
    BY <1>8 DEF BackedBy
<1> QED BY <1>5, <1>9 DEF M

VoucherMinted(L, M, d, n) ==
    /\ M \in Ledgers
    /\ M.escrow = L.escrow /\ M.locked = L.locked /\ M.deployed = L.deployed
    /\ M.vouchers = IF n = 0 THEN L.vouchers ELSE L.vouchers \cup {d}
    /\ Supply(M, d) = Supply(L, d) + n
    /\ n # 0 => Supply(M, d) <= MaxInt64
    /\ \A e \in Denoms : e # d => Supply(M, e) = Supply(L, e)
    /\ \A e \in Denoms : M.balance[e][Proxy] >= L.balance[e][Proxy]

LEMMA MintVoucherAdds ==
    ASSUME NEW L \in Ledgers, NEW d \in Denoms, NEW to, NEW n \in Nat, CanMintVoucher(L, d, to, n)
    PROVE  VoucherMinted(L, MintVoucher(L, d, to, n), d, n)
<1>1. \A e \in Denoms : L.balance[e][Proxy] \in Nat /\ Supply(L, e) \in Nat
    BY ProxyTyped, Sums
<1>2. CASE n = 0
    <2>1. MintVoucher(L, d, to, n) = L
        BY <1>2 DEF MintVoucher
    <2> QED BY <1>1, <1>2, <2>1 DEF VoucherMinted
<1>3. CASE n # 0
    <2> DEFINE G == GetOrCreateVoucher(L, d)
               M == Mint(G, d, to, n)
    <2>1. MintVoucher(L, d, to, n) = M
        BY <1>3 DEF MintVoucher
    <2>2. G \in Ledgers /\ G.balance = L.balance /\ G.escrow = L.escrow /\ G.locked = L.locked
          /\ G.vouchers = L.vouchers \cup {d} /\ G.deployed = L.deployed
        BY DEF Ledgers, GetOrCreateVoucher
    <2>3. to \in Accounts /\ Supply(L, d) + n <= MaxInt64
        BY <1>3 DEF CanMintVoucher, CanMint
    <2> HIDE DEF G
    <2>4. Minted(G, M, d, to, n)
        BY <2>2, <2>3, MintAdds
    <2> HIDE DEF M
    <2>5. \A e \in Denoms : Supply(G, e) = Supply(L, e)
        BY <2>2 DEF Supply
    <2>6. /\ Supply(M, d) = Supply(L, d) + n
          /\ \A e \in Denoms : e # d => Supply(M, e) = Supply(L, e)
        BY <2>4, <2>5 DEF Minted
    <2>7. M \in Ledgers /\ M.escrow = L.escrow /\ M.locked = L.locked
          /\ M.deployed = L.deployed /\ M.vouchers = L.vouchers \cup {d}
        BY <2>2, <2>4 DEF Minted, OnlyBalances
    <2>8. \A e \in Denoms : M.balance[e][Proxy] >= L.balance[e][Proxy]
        BY <1>1, <2>2, <2>4, TokenAssumption DEF Minted
    <2> QED BY <1>3, <2>1, <2>3, <2>6, <2>7, <2>8 DEF VoucherMinted
<1> QED BY <1>2, <1>3

\* What executing an order comes to: the order is no longer on the way when
\* the protocol filled it, and else nothing changes in value.
Executed(L, r, s, X, Y) ==
    r.status # "fatal" =>
        /\ r.status \in {"done", "error"} /\ r.ack \in OrderAcks
        /\ r.status = "error" => r.ack = Refused
        /\ Sound(r.state) /\ Grows(L, r.state)
        /\ BackedBy(r.state, IF r.ack.fill = "protocol" THEN X \ {s} ELSE X, Y)

LEMMA NothingExecuted ==
    ASSUME NEW L, Sound(L), NEW X, NEW Y, BackedBy(L, X, Y), NEW s
    PROVE  /\ Executed(L, Done(L, Refused), s, X, Y) /\ Executed(L, Error(L), s, X, Y)
           /\ Executed(L, Fatal(L), s, X, Y)
BY DEF Executed, Done, Error, Fatal, Refused, OrderAcks, Grows

LEMMA MakerFillSound ==
    ASSUME NEW L, Sound(L), NEW X, NEW Y, BackedBy(L, X, Y), NEW s \in Slots,
           NEW relayer \in Relayers, NEW relayerMsg \in RelayerMsgs
    PROVE  LET r == MarketMakerFill(L, OrderAt(s), relayer, relayerMsg)
           IN  Executed(L, r, s, X, Y) /\ r.ack.fill # "protocol"
<1> DEFINE o == OrderAt(s)
           n == LedgerAmountOf(L, o.quote, o.quoteAmount)
           r == MarketMakerFill(L, o, relayer, relayerMsg)
           maker == IF relayerMsg = <<>> THEN relayer ELSE Head(relayerMsg)
           M == Transfer(L, o.quote, relayer, o.receiver, n)
<1>1. \/ r \in {Fatal(L), Error(L)}
      \/ /\ LedgerAmountOk(L, o.quote, o.quoteAmount)
         /\ CanTransfer(L, o.quote, relayer, o.receiver, n)
         /\ r = Done(M, FilledBy(maker))
    BY Zenon DEF MarketMakerFill
<1>2. CASE r \in {Fatal(L), Error(L)}
    <2>1. Executed(L, r, s, X, Y)
        BY <1>2, NothingExecuted
    <2>2. r.ack = Refused
        BY <1>2 DEF Fatal, Error
    <2> HIDE DEF r
    <2>3. r.ack.fill # "protocol"
        BY <2>2 DEF Refused
    <2> QED BY <2>1, <2>3 DEF r
<1>3. CASE /\ LedgerAmountOk(L, o.quote, o.quoteAmount)
           /\ CanTransfer(L, o.quote, relayer, o.receiver, n)
           /\ r = Done(M, FilledBy(maker))
    <2>1. o.quote \in Denoms /\ o.quoteAmount \in Nat /\ relayer \in Accounts \ {Proxy}
        BY SlotFacts, ActorsAssumption
    <2>2. L \in Ledgers /\ Recorded(L)
        BY DEF Sound
    <2>3. n \in Nat
        BY <1>3, <2>1, <2>2, Units
    <2> HIDE DEF n
    <2>4. Sound(M) /\ Grows(L, M) /\ BackedBy(M, X, Y)
        BY <1>3, <2>1, <2>3, TransferSound
    <2>5. FilledBy(maker) \in OrderAcks /\ FilledBy(maker).fill = "maker"
        BY DEF OrderAcks, FilledBy
    <2> HIDE DEF M, maker
    <2>6. r.status = "done" /\ r.state = M /\ r.ack = FilledBy(maker)
        BY <1>3 DEF Done
    <2> HIDE DEF r
    <2>7. Executed(L, r, s, X, Y) /\ r.ack.fill # "protocol"
        BY <2>4, <2>5, <2>6 DEF Executed
    <2> QED BY <2>7 DEF r
<1> QED BY <1>1, <1>2, <1>3

\* A wrapped token is minted for what was escrowed on the other side.
LEMMA FillMintSound ==
    ASSUME NEW L, Sound(L), NEW X \in SUBSET Slots, NEW Y \in SUBSET Slots, BackedBy(L, X, Y),
           NEW s \in X, NEW o, o = OrderAt(s), Owed(L, o), NEW relayer,
           o.kind \in {"INITIALIZE", "ESCROW"}, o.quote = WrappedFor(L, o),
           o.kind = "ESCROW" => o.quote \in L.vouchers,
           o.kind = "INITIALIZE" => o.metadata.form # "none",
           o.baseAmount >= o.quoteAmount
    PROVE  Executed(L, ProtocolFillMint(L, o, relayer), s, X, Y)
<1> DEFINE w == o.quote
           b == o.base
           deploying == o.kind = "INITIALIZE"
           scale == IF deploying THEN ScaleForDecimals(o.metadata.decimals) ELSE ScaleOf(L, w)
           fee == o.baseAmount - o.quoteAmount
           u == ScaleDown(o.quoteAmount, scale)
           v == ScaleDown(fee, scale)
           P == MintVoucher(L, w, o.receiver, u)
           F == MintVoucher(P, w, relayer, v)
           M == IF deploying THEN Deploy(F, w) ELSE F
           r == ProtocolFillMint(L, o, relayer)
<1>1. /\ s \in Slots /\ b \in Denoms /\ w \in Denoms
      /\ o.baseAmount \in Nat \ {0} /\ o.quoteAmount \in Nat /\ fee \in Nat
      /\ o.metadata.decimals \in Nat /\ KeyOf(s) = <<b, w>>
    <2>1. s \in Slots
        OBVIOUS
    <2>2. /\ b \in Denoms /\ w \in Denoms
          /\ o.baseAmount \in Nat \ {0} /\ o.quoteAmount \in Nat
          /\ o.metadata.decimals \in Nat
        BY <2>1, SlotFacts
    <2>3. KeyOf(s) = <<b, w>>
        BY DEF KeyOf
    <2> QED BY <2>1, <2>2, <2>3
<1>2. L \in Ledgers /\ Recorded(L) /\ Held(L) /\ SupplyBounded(L)
    BY DEF Sound
<1>3. /\ IsIBCTokenDenom(w) /\ Front(w) = b
      /\ deploying => Last(w) = o.metadata
      /\ ~deploying => Last(w) = ImageOf(L, w)
    BY <1>1, WrappedDenom DEF WrappedFor
<1>4. Genuine(L, w)
    <2>1. CASE w \in L.vouchers
        BY <1>2, <2>1 DEF Recorded
    <2>2. CASE w \notin L.vouchers
        BY <1>3, <2>2 DEF Owed, Genuine
    <2> QED BY <2>1, <2>2
<1>5. ~deploying => w \in L.deployed /\ w \in L.vouchers
    <2> SUFFICES ASSUME ~deploying PROVE w \in L.deployed /\ w \in L.vouchers
        OBVIOUS
    <2>1. w \in L.vouchers /\ Last(w) = ImageOf(L, w) /\ Last(w).form # "none"
        BY <1>3, <1>4 DEF Genuine
    <2>2. NoMetadata.form = "none"
        BY DEF NoMetadata
    <2> QED BY <2>1, <2>2 DEF ImageOf
<1>6. scale = ScaleForDecimals(Last(w).decimals) /\ scale \in Nat \ {0}
    <2>1. scale = ScaleForDecimals(Last(w).decimals)
        BY <1>3, <1>5 DEF ScaleOf
    <2>2. Last(w).decimals \in Nat
        BY <1>1, <1>3, DenomsAssumption
    <2> QED BY <2>1, <2>2, ScaleForDecimalsPositive
<1> HIDE DEF scale
<1>7. \/ r \in {Done(L, Refused), Error(L), Fatal(L), Error(GetOrCreateVoucher(L, w))}
      \/ /\ o.quoteAmount % scale = 0 /\ fee % scale = 0
         /\ CanMintVoucher(L, w, o.receiver, u) /\ CanMintVoucher(P, w, relayer, v)
         /\ r = Done(M, Protocol)
    BY Zenon DEF ProtocolFillMint, ScaleDownOk, scale
<1>8. CASE r \in {Done(L, Refused), Error(L), Fatal(L)}
    BY <1>8, NothingExecuted
<1>9. CASE r = Error(GetOrCreateVoucher(L, w))
    <2> DEFINE G == GetOrCreateVoucher(L, w)
    <2>1. Sound(G) /\ Grows(L, G) /\ BackedBy(G, X, Y)
        BY <1>1, <1>4, CreateSound
    <2> HIDE DEF G
    <2>2. r.status = "error" /\ r.state = G /\ r.ack = Refused
        BY <1>9 DEF G, Error
    <2> HIDE DEF r
    <2>3. Refused \in OrderAcks /\ Refused.fill # "protocol"
        BY DEF OrderAcks, Refused
    <2>4. Executed(L, r, s, X, Y)
        BY <2>1, <2>2, <2>3 DEF Executed
    <2> QED BY <2>4 DEF r
<1>10. CASE /\ o.quoteAmount % scale = 0 /\ fee % scale = 0
            /\ CanMintVoucher(L, w, o.receiver, u) /\ CanMintVoucher(P, w, relayer, v)
            /\ r = Done(M, Protocol)
    <2>1. u \in Nat /\ v \in Nat /\ o.quoteAmount = u * scale /\ fee = v * scale
        BY <1>1, <1>6, <1>10, DivExact DEF ScaleDown
    <2> HIDE DEF u, v
    <2>2. o.baseAmount = (u + v) * scale /\ u + v # 0 /\ u + v \in Nat
        <3>1. (u + v) * scale = u * scale + v * scale
            BY <1>6, <2>1, Distributes
        <3>2. o.baseAmount = (u + v) * scale
            BY <1>1, <2>1, <3>1
        <3>3. 0 * scale = 0
            BY <1>6
        <3> QED BY <1>1, <2>1, <3>2, <3>3
    <2>3. VoucherMinted(L, P, w, u)
        BY <1>1, <1>2, <1>10, <2>1, MintVoucherAdds
    <2> HIDE DEF P
    <2>4. P \in Ledgers
        BY <2>3 DEF VoucherMinted
    <2>5. VoucherMinted(P, F, w, v)
        BY <1>1, <1>10, <2>1, <2>4, MintVoucherAdds
    <2> HIDE DEF F
    <2>6. /\ F \in Ledgers /\ F.escrow = L.escrow /\ F.locked = L.locked
          /\ F.deployed = L.deployed /\ F.vouchers = L.vouchers \cup {w}
        BY <2>1, <2>2, <2>3, <2>5 DEF VoucherMinted
    <2>7. \A e \in Denoms : Supply(L, e) \in Nat /\ Supply(P, e) \in Nat
        BY <1>2, <2>4, Sums
    <2>8. /\ Supply(F, w) = Supply(L, w) + (u + v) /\ Supply(F, w) <= MaxInt64
          /\ \A e \in Denoms : e # w => Supply(F, e) = Supply(L, e)
        <3>1. Supply(P, w) = Supply(L, w) + u /\ Supply(F, w) = Supply(P, w) + v
            BY <2>3, <2>5 DEF VoucherMinted
        <3>2. (u # 0 => Supply(P, w) <= MaxInt64) /\ (v # 0 => Supply(F, w) <= MaxInt64)
            BY <2>3, <2>5 DEF VoucherMinted
        <3>3. \A e \in Denoms : e # w => Supply(F, e) = Supply(L, e)
            BY <2>3, <2>5 DEF VoucherMinted
        <3> QED BY <1>1, <2>1, <2>2, <2>7, <3>1, <3>2, <3>3
    <2>9. \A e \in Denoms : F.balance[e][Proxy] >= L.balance[e][Proxy]
        <3>1. \A e \in Denoms : /\ L.balance[e][Proxy] \in Nat /\ P.balance[e][Proxy] \in Nat
                                /\ F.balance[e][Proxy] \in Nat
            BY <1>2, <2>4, <2>6, ProxyTyped
        <3>2. \A e \in Denoms : /\ P.balance[e][Proxy] >= L.balance[e][Proxy]
                                /\ F.balance[e][Proxy] >= P.balance[e][Proxy]
            BY <2>3, <2>5 DEF VoucherMinted
        <3> QED BY <3>1, <3>2
    <2>10. /\ M \in Ledgers /\ M.escrow = L.escrow /\ M.locked = L.locked /\ M.balance = F.balance
           /\ M.deployed = L.deployed \cup {w} /\ M.vouchers = L.vouchers \cup {w}
        BY <1>1, <1>5, <2>6 DEF Deploy, Ledgers
    <2> HIDE DEF M
    <2>11. /\ Supply(M, w) = Supply(L, w) + (u + v) /\ Supply(M, w) <= MaxInt64
           /\ \A e \in Denoms : e # w => Supply(M, e) = Supply(L, e)
           /\ \A e \in Denoms : M.balance[e][Proxy] >= L.balance[e][Proxy]
        BY <2>8, <2>9, <2>10 DEF Supply
    <2>12. Held(M)
        <3> SUFFICES ASSUME NEW e \in Denoms
                     PROVE  M.balance[e][Proxy] >= M.locked[e] + Escrowed(M, e)
            BY DEF Held
        <3>1. L.balance[e][Proxy] >= L.locked[e] + Escrowed(L, e)
            BY <1>2 DEF Held
        <3>2. Escrowed(M, e) = Escrowed(L, e)
            BY <2>10, SameEscrow
        <3>3. /\ L.balance[e][Proxy] \in Nat /\ M.balance[e][Proxy] \in Nat
              /\ L.locked[e] \in Nat /\ Escrowed(L, e) \in Nat
            BY <1>2, <2>10, ProxyTyped
        <3>4. M.balance[e][Proxy] >= L.balance[e][Proxy] /\ M.locked[e] = L.locked[e]
            BY <2>10, <2>11
        <3> QED BY <3>1, <3>2, <3>3, <3>4
    <2>13. Recorded(M) /\ SupplyBounded(M)
        <3>1. M.deployed \subseteq M.vouchers
            BY <1>2, <2>10 DEF Recorded
        <3>2. \A x \in M.vouchers : Genuine(L, x)
            BY <1>2, <1>4, <2>10 DEF Recorded
        <3>3. \A x \in M.vouchers : Genuine(M, x)
            BY <2>10, <3>2 DEF Genuine
        <3>4. \A d \in Denoms : IsIBCTokenDenom(d) /\ Supply(M, d) > 0 => d \in M.deployed
            BY <1>2, <2>10, <2>11 DEF Recorded
        <3>5. SupplyBounded(M)
            BY <1>2, <2>11 DEF SupplyBounded
        <3> QED BY <3>1, <3>3, <3>4, <3>5 DEF Recorded
    <2>14. Sound(M) /\ Grows(L, M)
        BY <2>10, <2>12, <2>13 DEF Sound, Grows
    <2>15. ScaleOf(M, w) = scale /\ ScaleOf(M, b) \in Nat
        BY <1>1, <1>6, <2>10, <2>13, ScalePositive DEF ScaleOf
    <2>16. Shift(L, M, b, w, 0, w, o.baseAmount)
        <3>1. L.vouchers \subseteq M.vouchers /\ M.vouchers \subseteq L.vouchers \cup {w}
            BY <2>10
        <3>2. /\ M.escrow[<<b, w>>] = L.escrow[<<b, w>>] + 0
              /\ \A c, q \in Denoms : c # b \/ q # w => M.escrow[<<c, q>>] = L.escrow[<<c, q>>]
            BY <1>1, <1>2, <2>10 DEF Ledgers
        <3>3. u + v \in Int /\ 0 \in Int
            BY <2>2
        <3>4. Shift(L, M, b, w, 0 * ScaleOf(M, b), w, (u + v) * ScaleOf(M, w))
            BY <1>1, <2>11, <2>14, <3>1, <3>2, <3>3, ShiftOf
        <3>5. 0 * ScaleOf(M, b) = 0
            BY <2>15
        <3> QED BY <2>2, <2>15, <3>4, <3>5
    <2>17. BackedBy(M, X \ {s}, Y)
        BY <1>1, <1>2, <1>3, <2>16, BackedShift
    <2>18. r.status = "done" /\ r.state = M /\ r.ack = Protocol
        BY <1>10 DEF Done, M, F, P, u, v
    <2> HIDE DEF r
    <2>19. Protocol \in OrderAcks /\ Protocol.fill = "protocol"
        BY DEF OrderAcks, Protocol
    <2>20. Executed(L, r, s, X, Y)
        BY <2>14, <2>17, <2>18, <2>19 DEF Executed
    <2> QED BY <2>20 DEF r
<1> QED BY <1>7, <1>8, <1>9, <1>10

\* The proxy hands out n units, or nothing.
LEMMA ReleaseMoves ==
    ASSUME NEW L \in Ledgers, NEW d \in Denoms, NEW to, NEW n \in Nat,
           n # 0 => CanTransfer(L, d, Proxy, to, n)
    PROVE  Moved(L, IF n = 0 THEN L ELSE Transfer(L, d, Proxy, to, n), d, Proxy, to, n)
<1>1. CASE n = 0
    <2>1. \A e \in Denoms : L.balance[e][Proxy] \in Nat
        BY ProxyTyped
    <2> QED BY <1>1, <2>1 DEF Moved, OnlyBalances
<1>2. CASE n # 0
    <2>1. Proxy \in Accounts
        BY TokenAssumption
    <2> QED BY <1>2, <2>1, TransferMoves
<1> QED BY <1>1, <1>2

\* What was escrowed is paid out for the wrapped token burned on the other side.
LEMMA FillUnescrowSound ==
    ASSUME NEW L, Sound(L), NEW X \in SUBSET Slots, NEW Y \in SUBSET Slots, BackedBy(L, X, Y),
           NEW s \in X, NEW o, o = OrderAt(s), o.kind = "UNESCROW", NEW relayer,
           o.baseAmount >= o.quoteAmount
    PROVE  Executed(L, ProtocolFillUnescrow(L, o, relayer), s, X, Y)
<1> DEFINE d == o.quote
           fee == o.baseAmount - o.quoteAmount
           units(amount) == LedgerAmountOf(L, d, amount)
           n == units(o.baseAmount)
           u == units(o.quoteAmount)
           v == units(fee)
           H == DecreaseChannelBalance(L, d, o.base, n)
           P == IF u = 0 THEN H ELSE Transfer(H, d, Proxy, o.receiver, u)
           M == IF v = 0 THEN P ELSE Transfer(P, d, Proxy, relayer, v)
           r == ProtocolFillUnescrow(L, o, relayer)
<1>1. /\ s \in Slots /\ o.base \in Denoms /\ d \in Denoms
      /\ o.baseAmount \in Nat \ {0} /\ o.quoteAmount \in Nat /\ fee \in Nat
      /\ KeyOf(s) = <<d, o.base>>
    <2>1. s \in Slots
        OBVIOUS
    <2>2. /\ o.base \in Denoms /\ d \in Denoms
          /\ o.baseAmount \in Nat \ {0} /\ o.quoteAmount \in Nat
        BY <2>1, SlotFacts
    <2>3. KeyOf(s) = <<d, o.base>>
        BY DEF KeyOf
    <2> QED BY <2>1, <2>2, <2>3
<1>2. L \in Ledgers /\ Recorded(L) /\ Held(L)
    BY DEF Sound
<1>3. \/ r \in {Error(L), Fatal(L)}
      \/ /\ \A a \in {o.quoteAmount, fee, o.baseAmount} : LedgerAmountOk(L, d, a)
         /\ L.escrow[<<d, o.base>>] >= n
         /\ u # 0 => CanTransfer(H, d, Proxy, o.receiver, u)
         /\ v # 0 => CanTransfer(P, d, Proxy, relayer, v)
         /\ r = Done(M, Protocol)
    BY Zenon DEF ProtocolFillUnescrow, CanDecreaseChannelBalance
<1>4. CASE r \in {Error(L), Fatal(L)}
    BY <1>4, NothingExecuted
<1>5. CASE /\ \A a \in {o.quoteAmount, fee, o.baseAmount} : LedgerAmountOk(L, d, a)
           /\ L.escrow[<<d, o.base>>] >= n
           /\ u # 0 => CanTransfer(H, d, Proxy, o.receiver, u)
           /\ v # 0 => CanTransfer(P, d, Proxy, relayer, v)
           /\ r = Done(M, Protocol)
    <2>1. /\ n \in Nat /\ o.baseAmount = n * ScaleOf(L, d)
          /\ u \in Nat /\ o.quoteAmount = u * ScaleOf(L, d)
          /\ v \in Nat /\ fee = v * ScaleOf(L, d)
        <3>1. LedgerAmountOk(L, d, o.baseAmount) /\ LedgerAmountOk(L, d, o.quoteAmount)
              /\ LedgerAmountOk(L, d, fee)
            BY <1>5
        <3> QED BY <1>1, <1>2, <3>1, Units
    <2> HIDE DEF n, u, v, units
    <2>2. n = u + v
        <3>1. ScaleOf(L, d) \in Nat \ {0}
            BY <1>1, <1>2, ScalePositive
        <3>2. (u + v) * ScaleOf(L, d) = u * ScaleOf(L, d) + v * ScaleOf(L, d)
            BY <2>1, <3>1, Distributes
        <3>3. n * ScaleOf(L, d) = (u + v) * ScaleOf(L, d)
            BY <1>1, <2>1, <3>2
        <3>4. n * ScaleOf(L, d) \in Nat /\ n \in Int /\ u + v \in Int
            BY <1>1, <2>1
        <3>5. n * ScaleOf(L, d) <= (u + v) * ScaleOf(L, d)
              /\ (u + v) * ScaleOf(L, d) <= n * ScaleOf(L, d)
            BY <3>3, <3>4
        <3>6. n <= u + v
            BY <3>1, <3>4, <3>5, Cancel
        <3>7. u + v <= n
            BY <3>1, <3>4, <3>5, Cancel
        <3> QED BY <3>4, <3>6, <3>7
    <2>3. Decreased(L, H, d, o.base, n)
        BY <1>1, <1>2, <1>5, <2>1, DecreaseTakes
    <2> HIDE DEF H
    <2>4. /\ H \in Ledgers /\ H.balance = L.balance /\ H.locked = L.locked
          /\ H.vouchers = L.vouchers /\ H.deployed = L.deployed
        BY <2>3 DEF Decreased, OnlyEscrow
    <2>5. Moved(H, P, d, Proxy, o.receiver, u)
        BY <1>1, <1>5, <2>1, <2>4, ReleaseMoves
    <2> HIDE DEF P
    <2>6. P \in Ledgers /\ P.escrow = H.escrow /\ P.locked = H.locked
          /\ P.vouchers = H.vouchers /\ P.deployed = H.deployed
        BY <2>5 DEF Moved, OnlyBalances
    <2>7. Moved(P, M, d, Proxy, relayer, v)
        BY <1>1, <1>5, <2>1, <2>6, ReleaseMoves
    <2> HIDE DEF M
    <2>8. M \in Ledgers /\ M.escrow = H.escrow /\ M.locked = L.locked
          /\ M.vouchers = L.vouchers /\ M.deployed = L.deployed
        BY <2>4, <2>6, <2>7 DEF Moved, OnlyBalances
    <2>9. \A e \in Denoms : Supply(M, e) = Supply(L, e)
        <3>1. \A e \in Denoms : Supply(H, e) = Supply(L, e)
            BY <2>4 DEF Supply
        <3> QED BY <2>5, <2>7, <3>1 DEF Moved
    <2>10. Held(M)
        <3> SUFFICES ASSUME NEW e \in Denoms
                     PROVE  M.balance[e][Proxy] >= M.locked[e] + Escrowed(M, e)
            BY DEF Held
        <3>1. L.balance[e][Proxy] >= L.locked[e] + Escrowed(L, e)
            BY <1>2 DEF Held
        <3>2. Escrowed(M, e) = Escrowed(H, e) /\ M.locked[e] = L.locked[e]
            BY <2>8, SameEscrow
        <3>3. /\ L.balance[e][Proxy] \in Nat /\ L.locked[e] \in Nat /\ Escrowed(L, e) \in Nat
              /\ P.balance[e][Proxy] \in Nat /\ M.balance[e][Proxy] \in Nat
            BY <1>2, <2>6, <2>8, ProxyTyped
        <3>4. CASE e = d
            <4>1. Escrowed(H, e) = Escrowed(L, e) - n
                BY <2>3, <3>4 DEF Decreased
            <4>2. P.balance[e][Proxy] >= L.balance[e][Proxy] - u
                BY <2>4, <2>5, <3>4 DEF Moved
            <4>3. M.balance[e][Proxy] >= P.balance[e][Proxy] - v
                BY <2>7, <3>4 DEF Moved
            <4> QED BY <2>1, <2>2, <3>1, <3>2, <3>3, <4>1, <4>2, <4>3
        <3>5. CASE e # d
            <4>1. Escrowed(H, e) = Escrowed(L, e)
                BY <2>3, <3>5 DEF Decreased
            <4>2. M.balance[e][Proxy] = L.balance[e][Proxy]
                BY <2>4, <2>5, <2>7, <3>5 DEF Moved
            <4> QED BY <3>1, <3>2, <4>1, <4>2
        <3> QED BY <3>4, <3>5
    <2>11. Sound(M) /\ Grows(L, M)
        <3>1. \A e \in Denoms : Supply(L, e) \in Nat
            BY <1>2, Sums
        <3> QED BY <2>8, <2>9, <2>10, <3>1, SoundKept
    <2>12. ScaleOf(M, d) = ScaleOf(L, d) /\ ScaleOf(M, d) \in Nat
        BY <1>1, <2>8, <2>11, ScaleKept, ScalePositive DEF Sound
    <2>13. Shift(L, M, d, o.base, -o.baseAmount, d, 0)
        <3>1. L.vouchers \subseteq M.vouchers /\ M.vouchers \subseteq L.vouchers
              /\ (d \in L.vouchers \/ d \notin M.vouchers)
            BY <2>8
        <3>2. /\ M.escrow[<<d, o.base>>] = L.escrow[<<d, o.base>>] + (-n)
              /\ \A c, q \in Denoms : c # d \/ q # o.base => M.escrow[<<c, q>>] = L.escrow[<<c, q>>]
            <4>1. L.escrow[<<d, o.base>>] \in Nat
                BY <1>1, <1>2 DEF Ledgers
            <4> QED BY <2>1, <2>3, <2>8, <4>1 DEF Decreased
        <3>3. Supply(M, d) = Supply(L, d) + 0 /\ -n \in Int
            BY <1>1, <1>2, <2>1, <2>9, Sums
        <3>4. Shift(L, M, d, o.base, (-n) * ScaleOf(M, d), d, 0 * ScaleOf(M, d))
            BY <1>1, <2>9, <2>11, <3>1, <3>2, <3>3, ShiftOf
        <3>5. 0 * ScaleOf(M, d) = 0 /\ (-n) * ScaleOf(M, d) = -o.baseAmount
            BY <2>1, <2>12, Negative
        <3> QED BY <3>4, <3>5
    <2>14. BackedBy(M, X \ {s}, Y)
        BY <1>1, <1>2, <2>13, BackedShift
    <2>15. r.status = "done" /\ r.state = M /\ r.ack = Protocol
        BY <1>5 DEF Done, M, P, H, n, u, v, units
    <2> HIDE DEF r
    <2>16. Protocol \in OrderAcks /\ Protocol.fill = "protocol"
        BY DEF OrderAcks, Protocol
    <2>17. Executed(L, r, s, X, Y)
        BY <2>11, <2>14, <2>15, <2>16 DEF Executed
    <2> QED BY <2>17 DEF r
<1> QED BY <1>3, <1>4, <1>5

\* Executing an order that is on the way, or an intent.
LEMMA ExecuteOrderSound ==
    ASSUME NEW L, Sound(L), NEW X \in SUBSET Slots, NEW Y \in SUBSET Slots, BackedBy(L, X, Y),
           NEW s \in Slots, NEW relayer \in Relayers, NEW relayerMsg \in RelayerMsgs,
           NEW limited \in BOOLEAN, NEW intent \in BOOLEAN,
           ~intent => s \in X /\ Owed(L, OrderAt(s))
    PROVE  LET r == ExecuteTokenOrder(L, OrderAt(s), relayer, relayerMsg, limited, intent)
           IN  Executed(L, r, s, X, Y) /\ (intent => r.ack.fill # "protocol")
<1> DEFINE o == OrderAt(s)
           r == ExecuteTokenOrder(L, o, relayer, relayerMsg, limited, intent)
           F == MarketMakerFill(L, o, relayer, relayerMsg)
<1>1. Executed(L, F, s, X, Y) /\ F.ack.fill # "protocol"
    BY MakerFillSound
<1>2. CASE intent
    <2>1. r = F
        BY <1>2 DEF ExecuteTokenOrder
    <2> QED BY <1>1, <2>1
<1>3. CASE ~intent
    <2>1. \/ r \in {F, Done(L, Refused), Error(L)}
          \/ /\ o.kind = "UNESCROW" /\ o.baseAmount >= o.quoteAmount
             /\ r = ProtocolFillUnescrow(L, o, relayer)
          \/ /\ o.kind \in {"INITIALIZE", "ESCROW"} /\ o.quote = WrappedFor(L, o)
             /\ o.kind = "ESCROW" => o.quote \in L.vouchers
             /\ o.kind = "INITIALIZE" => o.metadata.form # "none"
             /\ o.baseAmount >= o.quoteAmount
             /\ r = ProtocolFillMint(L, o, relayer)
        BY <1>3, Zenon DEF ExecuteTokenOrder, Uninitialized
    <2>2. CASE r \in {F, Done(L, Refused), Error(L)}
        BY <1>1, <1>3, <2>2, NothingExecuted
    <2>3. CASE /\ o.kind = "UNESCROW" /\ o.baseAmount >= o.quoteAmount
               /\ r = ProtocolFillUnescrow(L, o, relayer)
        BY <1>3, <2>3, FillUnescrowSound
    <2>4. CASE /\ o.kind \in {"INITIALIZE", "ESCROW"} /\ o.quote = WrappedFor(L, o)
               /\ o.kind = "ESCROW" => o.quote \in L.vouchers
               /\ o.kind = "INITIALIZE" => o.metadata.form # "none"
               /\ o.baseAmount >= o.quoteAmount
               /\ r = ProtocolFillMint(L, o, relayer)
        BY <1>3, <2>4, FillMintSound
    <2> QED BY <2>1, <2>2, <2>3, <2>4
<1> QED BY <1>2, <1>3

(***************************************************************************)
(* Settling.                                                               *)
(***************************************************************************)
\* A callback of the sender that is done leaves X on the way and Y burned.
Settled(L, r, X, Y) ==
    r.status = "done" => Sound(r.state) /\ Grows(L, r.state) /\ BackedBy(r.state, X, Y)

\* What was escrowed for an order on the way is still there.
LEMMA EscrowCovers ==
    ASSUME NEW L, Sound(L), NEW X \in SUBSET Slots, NEW Y \in SUBSET Slots, BackedBy(L, X, Y),
           NEW s \in X, NEW o, o = OrderAt(s), o.kind \in {"INITIALIZE", "ESCROW"}, Owed(L, o),
           NEW n, n = LedgerAmountOf(L, o.base, o.baseAmount)
    PROVE  /\ o.base \in Denoms /\ o.quote \in Denoms /\ KeyOf(s) = <<o.base, o.quote>>
           /\ n \in Nat /\ o.baseAmount = n * ScaleOf(L, o.base)
           /\ L.escrow[<<o.base, o.quote>>] >= n /\ L.balance[o.base][Proxy] >= n
<1> DEFINE b == o.base
           q == o.quote
           a == o.baseAmount
           k == ScaleOf(L, b)
           e == L.escrow[<<b, q>>]
<1>1. s \in Slots /\ b \in Denoms /\ q \in Denoms /\ a \in Nat /\ KeyOf(s) = <<b, q>>
    <2>1. s \in Slots
        OBVIOUS
    <2> QED BY <2>1, SlotFacts DEF KeyOf
<1>2. L \in Ledgers /\ Recorded(L) /\ Held(L)
    BY DEF Sound
<1>3. k \in Nat \ {0} /\ e \in Nat
    BY <1>1, <1>2, ScalePositive DEF Ledgers
<1>4. n \in Nat /\ a = n * k
    BY <1>1, <1>2, Units DEF Owed
<1>5. Way(X, b, q) \in Nat /\ a <= Way(X, b, q)
    <2>1. WayPart(s, b, q) = a
        BY <1>1 DEF WayPart
    <2>2. Way(X, b, q) \in Nat /\ WayPart(s, b, q) <= Way(X, b, q)
        BY <1>1, WayFacts
    <2> QED BY <2>1, <2>2
<1>6. a <= e * k
    <2>1. WrappedValue(L, q) \in Nat /\ Gone(Y, q) \in Nat
        BY <1>1, <1>2, ValuesAreNat, GoneFacts
    <2>2. e * k = Way(X, b, q) +
              (IF IsIBCTokenDenom(q) /\ Front(q) = b THEN WrappedValue(L, q) + Gone(Y, q) ELSE 0)
        BY <1>1 DEF BackedBy, EscrowValue
    <2> HIDE DEF e, k, a
    <2> QED BY <1>1, <1>5, <2>1, <2>2
<1>7. n <= e
    BY <1>3, <1>4, <1>6, Cancel
<1>8. L.balance[b][Proxy] >= e
    <2>1. L.balance[b][Proxy] >= L.locked[b] + Escrowed(L, b)
        BY <1>1, <1>2 DEF Held
    <2>2. e <= Escrowed(L, b)
        BY <1>1, <1>2, Sums
    <2>3. L.balance[b][Proxy] \in Nat /\ L.locked[b] \in Nat /\ Escrowed(L, b) \in Nat
        BY <1>1, <1>2, ProxyTyped
    <2> QED BY <1>3, <2>1, <2>2, <2>3
<1>9. L.balance[b][Proxy] \in Nat
    BY <1>1, <1>2, ProxyTyped
<1>10. e >= n /\ L.balance[b][Proxy] >= n
    BY <1>3, <1>4, <1>7, <1>8, <1>9
<1> QED BY <1>1, <1>4, <1>10

LEMMA SettleEscrowedSound ==
    ASSUME NEW L, Sound(L), NEW X \in SUBSET Slots, NEW Y \in SUBSET Slots, BackedBy(L, X, Y),
           NEW s \in X, NEW o, o = OrderAt(s), o.kind \in {"INITIALIZE", "ESCROW"}, Owed(L, o),
           NEW recipient
    PROVE  /\ Settled(L, SettleEscrowed(L, o, recipient), X \ {s}, Y)
           /\ recipient \in Accounts \ {Proxy} =>
                 SettleEscrowed(L, o, recipient).status = "done"
<1> DEFINE n == LedgerAmountOf(L, o.base, o.baseAmount)
           H == DecreaseChannelBalance(L, o.base, o.quote, n)
           M == Transfer(H, o.base, Proxy, recipient, n)
           r == SettleEscrowed(L, o, recipient)
<1>1. /\ o.base \in Denoms /\ o.quote \in Denoms /\ KeyOf(s) = <<o.base, o.quote>>
      /\ n \in Nat /\ o.baseAmount = n * ScaleOf(L, o.base)
      /\ L.escrow[<<o.base, o.quote>>] >= n /\ L.balance[o.base][Proxy] >= n
    BY EscrowCovers
<1>2. recipient \in Accounts \ {Proxy} => r.status = "done"
    BY <1>1 DEF SettleEscrowed, Owed, CanDecreaseChannelBalance, CanTransfer, Done
<1>3. Settled(L, r, X \ {s}, Y)
    <2> SUFFICES ASSUME r.status = "done"
                 PROVE  Sound(r.state) /\ Grows(L, r.state) /\ BackedBy(r.state, X \ {s}, Y)
        BY DEF Settled
    <2>1. CanTransfer(L, o.base, Proxy, recipient, n) /\ r.state = M
        BY DEF SettleEscrowed, Done, Error
    <2>2. L \in Ledgers /\ Recorded(L) /\ Held(L)
        BY DEF Sound
    <2> HIDE DEF n
    <2>3. Decreased(L, H, o.base, o.quote, n)
        BY <1>1, <2>2, DecreaseTakes
    <2> HIDE DEF H
    <2>4. /\ H \in Ledgers /\ H.balance = L.balance /\ H.locked = L.locked
          /\ H.vouchers = L.vouchers /\ H.deployed = L.deployed
        BY <2>3 DEF Decreased, OnlyEscrow
    <2>5. CanTransfer(H, o.base, Proxy, recipient, n) /\ Proxy \in Accounts
        BY <2>1, <2>4, TokenAssumption DEF CanTransfer
    <2>6. Moved(H, M, o.base, Proxy, recipient, n)
        BY <1>1, <2>4, <2>5, TransferMoves
    <2> HIDE DEF M
    <2>7. M \in Ledgers /\ M.escrow = H.escrow /\ M.locked = L.locked
          /\ M.vouchers = L.vouchers /\ M.deployed = L.deployed
        BY <2>4, <2>6 DEF Moved, OnlyBalances
    <2>8. \A e \in Denoms : Supply(M, e) = Supply(L, e)
        <3>1. \A e \in Denoms : Supply(H, e) = Supply(L, e)
            BY <2>4 DEF Supply
        <3> QED BY <2>6, <3>1 DEF Moved
    <2>9. Held(M)
        <3> SUFFICES ASSUME NEW e \in Denoms
                     PROVE  M.balance[e][Proxy] >= M.locked[e] + Escrowed(M, e)
            BY DEF Held
        <3>1. L.balance[e][Proxy] >= L.locked[e] + Escrowed(L, e)
            BY <2>2 DEF Held
        <3>2. Escrowed(M, e) = Escrowed(H, e) /\ M.locked[e] = L.locked[e]
            BY <2>7, SameEscrow
        <3>3. /\ L.balance[e][Proxy] \in Nat /\ L.locked[e] \in Nat /\ Escrowed(L, e) \in Nat
              /\ M.balance[e][Proxy] \in Nat
            BY <2>2, <2>7, ProxyTyped
        <3>4. CASE e = o.base
            <4>1. Escrowed(H, e) = Escrowed(L, e) - n
                BY <2>3, <3>4 DEF Decreased
            <4>2. M.balance[e][Proxy] >= L.balance[e][Proxy] - n
                BY <2>4, <2>6, <3>4 DEF Moved
            <4> QED BY <1>1, <3>1, <3>2, <3>3, <4>1, <4>2
        <3>5. CASE e # o.base
            <4>1. Escrowed(H, e) = Escrowed(L, e) /\ M.balance[e][Proxy] = L.balance[e][Proxy]
                BY <2>3, <2>4, <2>6, <3>5 DEF Decreased, Moved
            <4> QED BY <3>1, <3>2, <4>1
        <3> QED BY <3>4, <3>5
    <2>10. Sound(M) /\ Grows(L, M)
        <3>1. \A e \in Denoms : Supply(L, e) \in Nat
            BY <2>2, Sums
        <3> QED BY <2>7, <2>8, <2>9, <3>1, SoundKept
    <2>11. ScaleOf(M, o.base) = ScaleOf(L, o.base) /\ ScaleOf(M, o.base) \in Nat
        BY <1>1, <2>7, <2>10, ScaleKept, ScalePositive DEF Sound
    <2>12. Shift(L, M, o.base, o.quote, -o.baseAmount, o.base, 0)
        <3>1. L.vouchers \subseteq M.vouchers /\ M.vouchers \subseteq L.vouchers
              /\ (o.base \in L.vouchers \/ o.base \notin M.vouchers)
            BY <2>7
        <3>2. /\ M.escrow[<<o.base, o.quote>>] = L.escrow[<<o.base, o.quote>>] + (-n)
              /\ \A c, q \in Denoms :
                    c # o.base \/ q # o.quote => M.escrow[<<c, q>>] = L.escrow[<<c, q>>]
            <4>1. L.escrow[<<o.base, o.quote>>] \in Nat
                BY <1>1, <2>2 DEF Ledgers
            <4> QED BY <1>1, <2>3, <2>7, <4>1 DEF Decreased
        <3>3. Supply(M, o.base) = Supply(L, o.base) + 0 /\ -n \in Int
            BY <1>1, <2>2, <2>8, Sums
        <3>4. Shift(L, M, o.base, o.quote, (-n) * ScaleOf(M, o.base), o.base, 0 * ScaleOf(M, o.base))
            BY <1>1, <2>8, <2>10, <3>1, <3>2, <3>3, ShiftOf
        <3>5. 0 * ScaleOf(M, o.base) = 0 /\ (-n) * ScaleOf(M, o.base) = -o.baseAmount
            BY <1>1, <2>11, Negative
        <3> QED BY <3>4, <3>5
    <2>13. BackedBy(M, X \ {s}, Y)
        BY <1>1, <2>2, <2>12, BackedShift
    <2>14. r.state = M
        BY <2>1 DEF M, H, n
    <2> QED BY <2>10, <2>13, <2>14
<1> QED BY <1>2, <1>3

LEMMA BurnEscrowedSound ==
    ASSUME NEW L, Sound(L), NEW X \in SUBSET Slots, NEW Y \in SUBSET Slots, BackedBy(L, X, Y),
           NEW s \in X, s \notin Y,
           NEW o, o = OrderAt(s), o.kind \in {"INITIALIZE", "ESCROW"}, Owed(L, o)
    PROVE  /\ Settled(L, BurnEscrowed(L, o), X \ {s}, Y \cup {s})
           /\ BurnEscrowed(L, o).status = "done"
<1> DEFINE n == LedgerAmountOf(L, o.base, o.baseAmount)
           H == DecreaseChannelBalance(L, o.base, o.quote, n)
           wrapped == IsIBCTokenDenom(o.base)
           M == IF wrapped THEN Burn(H, o.base, Proxy, n)
                ELSE [H EXCEPT !.locked[o.base] = @ + o.baseAmount]
           r == BurnEscrowed(L, o)
<1>1. /\ o.base \in Denoms /\ o.quote \in Denoms /\ KeyOf(s) = <<o.base, o.quote>>
      /\ n \in Nat /\ o.baseAmount = n * ScaleOf(L, o.base)
      /\ L.escrow[<<o.base, o.quote>>] >= n /\ L.balance[o.base][Proxy] >= n
    BY EscrowCovers
<1>2. r.status = "done" /\ r.state = M
    BY <1>1 DEF BurnEscrowed, Owed, CanDecreaseChannelBalance, CanBurn, Done
<1>3. L \in Ledgers /\ Recorded(L) /\ Held(L)
    BY DEF Sound
<1> HIDE DEF n
<1>4. Decreased(L, H, o.base, o.quote, n)
    BY <1>1, <1>3, DecreaseTakes
<1> HIDE DEF H
<1>5. /\ H \in Ledgers /\ H.balance = L.balance /\ H.locked = L.locked
      /\ H.vouchers = L.vouchers /\ H.deployed = L.deployed
    BY <1>4 DEF Decreased, OnlyEscrow
<1>6. \A e \in Denoms : /\ L.balance[e][Proxy] \in Nat /\ L.locked[e] \in Nat
                        /\ Escrowed(L, e) \in Nat /\ Supply(L, e) \in Nat
    BY <1>3, ProxyTyped, Sums
<1>7. \A e \in Denoms : Supply(H, e) = Supply(L, e)
    BY <1>5 DEF Supply
<1>8. /\ M \in Ledgers /\ M.escrow = H.escrow
      /\ M.vouchers = L.vouchers /\ M.deployed = L.deployed
      /\ Supply(M, o.base) = Supply(L, o.base) + (IF wrapped THEN -n ELSE 0)
      /\ \A e \in Denoms : e # o.base =>
            /\ Supply(M, e) = Supply(L, e)
            /\ M.balance[e][Proxy] = L.balance[e][Proxy] /\ M.locked[e] = L.locked[e]
      /\ M.balance[o.base][Proxy] - M.locked[o.base] =
            L.balance[o.base][Proxy] - L.locked[o.base] - n
      /\ M.balance[o.base][Proxy] \in Nat /\ M.locked[o.base] \in Nat
    <2>1. CASE wrapped
        <3>1. Proxy \in Accounts /\ H.balance[o.base][Proxy] >= n
            BY <1>1, <1>5, TokenAssumption
        <3>2. Burned(H, M, o.base, Proxy, n)
            BY <1>1, <1>5, <2>1, <3>1, BurnTakes
        <3> HIDE DEF M
        <3>3. M \in Ledgers /\ M.escrow = H.escrow /\ M.locked = L.locked
              /\ M.vouchers = L.vouchers /\ M.deployed = L.deployed
            BY <1>5, <3>2 DEF Burned, OnlyBalances
        <3>4. Supply(M, o.base) = Supply(L, o.base) + (-n)
            <4>1. Supply(M, o.base) = Supply(L, o.base) - n
                BY <1>1, <1>7, <3>2 DEF Burned
            <4> QED BY <1>1, <1>6, <4>1
        <3>5. \A e \in Denoms : e # o.base =>
                  Supply(M, e) = Supply(L, e) /\ M.balance[e][Proxy] = L.balance[e][Proxy]
            BY <1>5, <1>7, <3>1, <3>2 DEF Burned
        <3>6. M.balance[o.base][Proxy] = L.balance[o.base][Proxy] - n
            BY <1>5, <3>2 DEF Burned
        <3>7. M.balance[o.base][Proxy] \in Nat /\ M.locked[o.base] \in Nat
            BY <1>1, <3>3, ProxyTyped
        <3> QED BY <1>1, <1>6, <2>1, <3>3, <3>4, <3>5, <3>6, <3>7
    <2>2. CASE ~wrapped
        <3>1. ScaleOf(L, o.base) = 1
            BY <1>3, <2>2 DEF ScaleOf, Recorded, Genuine
        <3>2. o.baseAmount = n
            BY <1>1, <3>1
        <3>3. M = [H EXCEPT !.locked[o.base] = @ + n]
            BY <2>2, <3>2
        <3> HIDE DEF M
        <3>4. /\ M \in Ledgers /\ M.escrow = H.escrow /\ M.balance = H.balance
              /\ M.vouchers = L.vouchers /\ M.deployed = L.deployed
              /\ M.locked[o.base] = L.locked[o.base] + n
              /\ \A e \in Denoms : e # o.base => M.locked[e] = L.locked[e]
            <4>1. H.locked \in [Denoms -> Nat]
                BY <1>5 DEF Ledgers
            <4>2. M = [H EXCEPT !.locked = [H.locked EXCEPT ![o.base] = @ + n]]
                BY <3>3
            <4>3. [H.locked EXCEPT ![o.base] = @ + n] \in [Denoms -> Nat]
                BY <1>1, <4>1
            <4>4. /\ M \in Ledgers /\ M.escrow = H.escrow /\ M.balance = H.balance
                  /\ M.vouchers = H.vouchers /\ M.deployed = H.deployed
                  /\ M.locked = [H.locked EXCEPT ![o.base] = @ + n]
                BY <1>5, <4>2, <4>3 DEF Ledgers
            <4> QED BY <1>1, <1>5, <4>1, <4>4
        <3>5. \A e \in Denoms : Supply(M, e) = Supply(L, e)
            BY <1>7, <3>4 DEF Supply
        <3> QED BY <1>1, <1>5, <1>6, <2>2, <3>4, <3>5
    <2> QED BY <2>1, <2>2
<1> HIDE DEF M
<1>9. Held(M)
    <2> SUFFICES ASSUME NEW e \in Denoms
                 PROVE  M.balance[e][Proxy] >= M.locked[e] + Escrowed(M, e)
        BY DEF Held
    <2>1. L.balance[e][Proxy] >= L.locked[e] + Escrowed(L, e)
        BY <1>3 DEF Held
    <2>2. Escrowed(M, e) = Escrowed(H, e)
        BY <1>8, SameEscrow
    <2>3. CASE e = o.base
        <3>1. Escrowed(H, e) = Escrowed(L, e) - n
            BY <1>4, <2>3 DEF Decreased
        <3> QED BY <1>1, <1>6, <1>8, <2>1, <2>2, <2>3, <3>1
    <2>4. CASE e # o.base
        <3>1. Escrowed(H, e) = Escrowed(L, e)
            BY <1>4, <2>4 DEF Decreased
        <3> QED BY <1>8, <2>1, <2>2, <2>4, <3>1
    <2> QED BY <2>3, <2>4
<1>10. Sound(M) /\ Grows(L, M)
    <2>1. \A e \in Denoms : Supply(M, e) <= Supply(L, e)
        BY <1>1, <1>6, <1>8
    <2> QED BY <1>8, <1>9, <2>1, SoundKept
<1>11. ScaleOf(M, o.base) = ScaleOf(L, o.base) /\ ScaleOf(M, o.base) \in Nat
    BY <1>1, <1>8, <1>10, ScaleKept, ScalePositive DEF Sound
<1>12. Shift(L, M, o.base, o.quote, -o.baseAmount, o.base, IF wrapped THEN -o.baseAmount ELSE 0)
    <2> DEFINE y == IF wrapped THEN -n ELSE 0
    <2>1. L.vouchers \subseteq M.vouchers /\ M.vouchers \subseteq L.vouchers
          /\ (o.base \in L.vouchers \/ o.base \notin M.vouchers)
        BY <1>8
    <2>2. /\ M.escrow[<<o.base, o.quote>>] = L.escrow[<<o.base, o.quote>>] + (-n)
          /\ \A c, q \in Denoms :
                c # o.base \/ q # o.quote => M.escrow[<<c, q>>] = L.escrow[<<c, q>>]
        <3>1. L.escrow[<<o.base, o.quote>>] \in Nat
            BY <1>1, <1>3 DEF Ledgers
        <3> QED BY <1>1, <1>4, <1>8, <3>1 DEF Decreased
    <2>3. Supply(M, o.base) = Supply(L, o.base) + y /\ -n \in Int /\ y \in Int
        BY <1>1, <1>8
    <2>4. \A e \in Denoms : e # o.base => Supply(M, e) = Supply(L, e)
        BY <1>8
    <2>5. 0 * ScaleOf(M, o.base) = 0 /\ (-n) * ScaleOf(M, o.base) = -o.baseAmount
        BY <1>1, <1>11, Negative
    <2>6. y * ScaleOf(M, o.base) = IF wrapped THEN -o.baseAmount ELSE 0
        BY <2>5
    <2> HIDE DEF y
    <2>7. Shift(L, M, o.base, o.quote, (-n) * ScaleOf(M, o.base), o.base, y * ScaleOf(M, o.base))
        BY <1>1, <1>10, <2>1, <2>2, <2>3, <2>4, ShiftOf
    <2> QED BY <2>5, <2>6, <2>7
<1>13. BackedBy(M, X \ {s}, Y \cup {s})
    BY <1>1, <1>3, <1>12, BackedShift
<1>14. r.status = "done" /\ r.state = M
    BY <1>2 DEF M, H, n
<1> QED BY <1>10, <1>13, <1>14 DEF Settled

\* A wrapped token is never of a coarser ledger than the token it wraps.
LEMMA ScalesUp ==
    ASSUME NEW L \in Ledgers, Recorded(L), NEW w \in L.vouchers, NEW d \in Denoms, d = Front(w)
    PROVE  ScaleOf(L, d) = ScaleOf(L, w) \/ ScaleOf(L, d) = 1
<1>1. Genuine(L, w)
    BY DEF Recorded
<1>2. CASE IsIBCTokenDenom(d)
    BY <1>1, <1>2 DEF Genuine, ScaleOf
<1>3. CASE ~IsIBCTokenDenom(d)
    <2>1. d \notin L.vouchers
        BY <1>3 DEF Recorded, Genuine
    <2> QED BY <2>1 DEF ScaleOf
<1> QED BY <1>2, <1>3

LEMMA Dominates ==
    ASSUME NEW x \in Nat, NEW s \in Nat \ {0}
    PROVE  x <= x * s
OBVIOUS

\* What was burned for an order on the way can be minted again.
LEMMA MintFits ==
    ASSUME NEW L, Sound(L), NEW X \in SUBSET Slots, NEW Y \in SUBSET Slots, BackedBy(L, X, Y),
           NEW s \in X, NEW o, o = OrderAt(s), o.kind = "UNESCROW", Owed(L, o),
           NEW n, n = LedgerAmountOf(L, o.base, o.baseAmount)
    PROVE  /\ o.base \in Denoms /\ o.quote \in Denoms /\ KeyOf(s) = <<o.quote, o.base>>
           /\ o.base \in L.vouchers /\ o.base \in L.deployed
           /\ IsIBCTokenDenom(o.base) /\ Front(o.base) = o.quote
           /\ n \in Nat /\ o.baseAmount = n * ScaleOf(L, o.base)
           /\ Supply(L, o.base) + n <= MaxInt64
<1> DEFINE w == o.base
           d == o.quote
           a == o.baseAmount
           k == ScaleOf(L, w)
           j == ScaleOf(L, d)
           e == L.escrow[<<d, w>>]
           S == Supply(L, w)
<1>1. s \in Slots /\ w \in Denoms /\ d \in Denoms /\ a \in Nat /\ KeyOf(s) = <<d, w>>
    <2>1. s \in Slots
        OBVIOUS
    <2> QED BY <2>1, SlotFacts DEF KeyOf
<1>2. L \in Ledgers /\ Recorded(L) /\ Held(L) /\ SupplyBounded(L)
    BY DEF Sound
<1>3. w \in L.deployed /\ d = Front(w) /\ LedgerAmountOk(L, w, a)
    BY DEF Owed
<1>4. w \in L.vouchers /\ IsIBCTokenDenom(w)
    BY <1>2, <1>3 DEF Recorded, Genuine
<1>5. k \in Nat \ {0} /\ j \in Nat \ {0} /\ e \in Nat /\ S \in Nat
    BY <1>1, <1>2, ScalePositive, Sums DEF Ledgers
<1>6. n \in Nat /\ a = n * k
    BY <1>1, <1>2, <1>3, Units
<1>7. Way(X, d, w) \in Nat /\ a <= Way(X, d, w)
    <2>1. WayPart(s, d, w) = a
        BY <1>1 DEF WayPart
    <2>2. Way(X, d, w) \in Nat /\ WayPart(s, d, w) <= Way(X, d, w)
        BY <1>1, WayFacts
    <2> QED BY <2>1, <2>2
<1>8. e * j = Way(X, d, w) + (S * k + Gone(Y, w)) /\ Gone(Y, w) \in Nat
    <2>1. Gone(Y, w) \in Nat
        BY <1>1, GoneFacts
    <2> QED BY <1>1, <1>3, <1>4, <2>1 DEF BackedBy, EscrowValue, WrappedValue
<1>9. e * j <= e * k
    <2>1. CASE j = k
        BY <1>5, <2>1
    <2>2. CASE j = 1
        BY <1>5, <2>2, Dominates
    <2> QED BY <1>1, <1>2, <1>3, <1>4, <2>1, <2>2, ScalesUp
<1>10. e <= MaxInt64
    <2>1. L.balance[d][Proxy] >= L.locked[d] + Escrowed(L, d)
        BY <1>1, <1>2 DEF Held
    <2>2. e <= Escrowed(L, d)
        BY <1>1, <1>2, Sums
    <2>3. Proxy \in Accounts /\ MaxInt64 \in Nat
        BY TokenAssumption
    <2>4. L.balance[d][Proxy] <= Supply(L, d) /\ Supply(L, d) \in Nat
        BY <1>1, <1>2, <2>3, Sums
    <2>5. Supply(L, d) <= MaxInt64
        BY <1>1, <1>2 DEF SupplyBounded
    <2>6. L.balance[d][Proxy] \in Nat /\ L.locked[d] \in Nat /\ Escrowed(L, d) \in Nat
        BY <1>1, <1>2, ProxyTyped
    <2> HIDE DEF e
    <2> QED BY <1>5, <2>1, <2>2, <2>3, <2>4, <2>5, <2>6
<1> HIDE DEF e, j, k, S, a
<1>11. S + n <= MaxInt64
    <2>1. (S + n) * k = S * k + n * k
        BY <1>5, <1>6, Distributes
    <2>2. S * k \in Nat /\ n * k \in Nat /\ e * j \in Nat /\ e * k \in Nat
        BY <1>5, <1>6
    <2>3. (S + n) * k <= e * k
        BY <1>6, <1>7, <1>8, <1>9, <2>1, <2>2
    <2>4. S + n <= e
        BY <1>5, <1>6, <2>3, Cancel
    <2>5. MaxInt64 \in Nat
        BY TokenAssumption
    <2> QED BY <1>5, <1>6, <1>10, <2>4, <2>5
<1> QED BY <1>1, <1>3, <1>4, <1>6, <1>11 DEF S, k, a

LEMMA RefundVoucherSound ==
    ASSUME NEW L, Sound(L), NEW X \in SUBSET Slots, NEW Y \in SUBSET Slots, BackedBy(L, X, Y),
           NEW s \in X, NEW o, o = OrderAt(s), o.kind = "UNESCROW", Owed(L, o),
           NEW recipient
    PROVE  /\ Settled(L, RefundIBCVoucher(L, o, recipient), X \ {s}, Y)
           /\ recipient \in Accounts => RefundIBCVoucher(L, o, recipient).status = "done"
<1> DEFINE w == o.base
           n == LedgerAmountOf(L, w, o.baseAmount)
           G == GetOrCreateVoucher(L, w)
           M == Mint(G, w, recipient, n)
           r == RefundIBCVoucher(L, o, recipient)
<1>1. /\ w \in Denoms /\ o.quote \in Denoms /\ KeyOf(s) = <<o.quote, w>>
      /\ w \in L.vouchers /\ w \in L.deployed
      /\ IsIBCTokenDenom(w) /\ Front(w) = o.quote
      /\ n \in Nat /\ o.baseAmount = n * ScaleOf(L, w)
      /\ Supply(L, w) + n <= MaxInt64
    BY MintFits
<1>2. recipient \in Accounts => r.status = "done"
    BY <1>1 DEF RefundIBCVoucher, CanCreateVoucher, CanMint, Owed, Done
<1>3. Settled(L, r, X \ {s}, Y)
    <2> SUFFICES ASSUME r.status = "done"
                 PROVE  Sound(r.state) /\ Grows(L, r.state) /\ BackedBy(r.state, X \ {s}, Y)
        BY DEF Settled
    <2>1. recipient \in Accounts /\ r.state = M
        BY DEF RefundIBCVoucher, CanMint, Done, Error
    <2>2. L \in Ledgers /\ Recorded(L) /\ Held(L) /\ SupplyBounded(L)
        BY DEF Sound
    <2>3. G \in Ledgers /\ G.balance = L.balance /\ G.escrow = L.escrow /\ G.locked = L.locked
          /\ G.vouchers = L.vouchers /\ G.deployed = L.deployed
        BY <1>1, <2>2 DEF Ledgers, GetOrCreateVoucher
    <2> HIDE DEF n, G
    <2>4. Minted(G, M, w, recipient, n)
        BY <1>1, <2>1, <2>3, MintAdds
    <2> HIDE DEF M
    <2>5. M \in Ledgers /\ M.escrow = L.escrow /\ M.locked = L.locked
          /\ M.vouchers = L.vouchers /\ M.deployed = L.deployed
        BY <2>3, <2>4 DEF Minted, OnlyBalances
    <2>6. \A e \in Denoms : Supply(G, e) = Supply(L, e)
        BY <2>3 DEF Supply
    <2>7. /\ Supply(M, w) = Supply(L, w) + n
          /\ \A e \in Denoms : e # w => Supply(M, e) = Supply(L, e)
        BY <1>1, <2>4, <2>6 DEF Minted
    <2>8. \A e \in Denoms : L.balance[e][Proxy] \in Nat /\ M.balance[e][Proxy] \in Nat
        BY <2>2, <2>5, ProxyTyped
    <2>9. \A e \in Denoms : M.balance[e][Proxy] >= L.balance[e][Proxy]
        <3>1. Proxy \in Accounts
            BY TokenAssumption
        <3> QED BY <1>1, <2>3, <2>4, <2>8, <3>1 DEF Minted
    <2>10. Held(M)
        <3> SUFFICES ASSUME NEW e \in Denoms
                     PROVE  M.balance[e][Proxy] >= M.locked[e] + Escrowed(M, e)
            BY DEF Held
        <3>1. L.balance[e][Proxy] >= L.locked[e] + Escrowed(L, e)
            BY <2>2 DEF Held
        <3>2. Escrowed(M, e) = Escrowed(L, e) /\ M.locked[e] = L.locked[e]
            BY <2>5, SameEscrow
        <3>3. L.locked[e] \in Nat /\ Escrowed(L, e) \in Nat
            BY <2>2, ProxyTyped
        <3> QED BY <2>8, <2>9, <3>1, <3>2, <3>3
    <2>11. Recorded(M) /\ SupplyBounded(M)
        <3>1. \A v \in M.vouchers : Genuine(M, v)
            BY <2>2, <2>5 DEF Recorded, Genuine
        <3>2. \A e \in Denoms : IsIBCTokenDenom(e) /\ Supply(M, e) > 0 => e \in M.deployed
            BY <1>1, <2>2, <2>5, <2>7 DEF Recorded
        <3>3. M.deployed \subseteq M.vouchers
            BY <2>2, <2>5 DEF Recorded
        <3>4. SupplyBounded(M)
            BY <1>1, <2>2, <2>7 DEF SupplyBounded
        <3> QED BY <3>1, <3>2, <3>3, <3>4 DEF Recorded
    <2>12. Sound(M) /\ Grows(L, M)
        BY <2>5, <2>10, <2>11 DEF Sound, Grows
    <2>13. ScaleOf(M, w) = ScaleOf(L, w) /\ ScaleOf(M, o.quote) \in Nat
        BY <1>1, <2>5, <2>11, ScaleKept, ScalePositive
    <2>14. Shift(L, M, o.quote, w, 0, w, o.baseAmount)
        <3>1. L.vouchers \subseteq M.vouchers /\ M.vouchers \subseteq L.vouchers \cup {w}
            BY <2>5
        <3>2. /\ M.escrow[<<o.quote, w>>] = L.escrow[<<o.quote, w>>] + 0
              /\ \A c, q \in Denoms : c # o.quote \/ q # w => M.escrow[<<c, q>>] = L.escrow[<<c, q>>]
            BY <1>1, <2>2, <2>5 DEF Ledgers
        <3>3. n \in Int
            BY <1>1
        <3>4. Shift(L, M, o.quote, w, 0 * ScaleOf(M, o.quote), w, n * ScaleOf(M, w))
            BY <1>1, <2>7, <2>12, <3>1, <3>2, <3>3, ShiftOf
        <3>5. 0 * ScaleOf(M, o.quote) = 0
            BY <2>13
        <3> QED BY <1>1, <2>13, <3>4, <3>5
    <2>15. BackedBy(M, X \ {s}, Y)
        BY <1>1, <2>2, <2>14, BackedShift
    <2>16. r.state = M
        BY <2>1 DEF M, G, n
    <2> QED BY <2>12, <2>15, <2>16
<1> QED BY <1>2, <1>3

\* The settlements that burn, and the orders burned when s is settled.
Burns(s, ack) == OrderAt(s).kind # "UNESCROW" /\ ack.fill = "maker" /\ ack.maker = BurnAddress

AfterBurn(Y, s, ack) == IF Burns(s, ack) THEN Y \cup {s} ELSE Y

LEMMA AcksAre ==
    ASSUME NEW ack \in OrderAcks
    PROVE  ack.fill \in {"none", "protocol", "maker"}
BY DEF OrderAcks, Refused, Protocol, FilledBy

\* An order is settled by the answer ack, and can be when those to pay are known.
Acknowledged(L, s, ack, X, Y) ==
    LET r == AcknowledgeTokenOrder(L, OrderAt(s), ack)
    IN  /\ Settled(L, r, X \ {s}, AfterBurn(Y, s, ack))
        /\ /\ OrderAt(s).sender \in Accounts \ {Proxy}
           /\ ack.fill = "maker" => ack.maker \in Accounts \ {Proxy}
           => r.status = "done"

LEMMA AcknowledgeOrderSound ==
    ASSUME NEW L, Sound(L), NEW X \in SUBSET Slots, NEW Y \in SUBSET Slots, BackedBy(L, X, Y),
           NEW s \in Slots, s \notin Y, Owed(L, OrderAt(s)), NEW ack \in OrderAcks,
           s \in X <=> ack.fill # "protocol"
    PROVE  Acknowledged(L, s, ack, X, Y)
<1> USE DEF Acknowledged
<1> DEFINE o == OrderAt(s)
           r == AcknowledgeTokenOrder(L, o, ack)
<1>1. ack.fill \in {"none", "protocol", "maker"}
    BY AcksAre
<1>2. o.kind \in {"INITIALIZE", "ESCROW", "UNESCROW"}
    BY DEF Owed
<1>3. CASE ack.fill = "protocol"
    <2>1. r = Done(L, Protocol) /\ X \ {s} = X /\ AfterBurn(Y, s, ack) = Y
        BY <1>3 DEF AcknowledgeTokenOrder, AfterBurn, Burns
    <2>2. r.status = "done" /\ r.state = L
        BY <2>1 DEF Done
    <2> QED BY <2>1, <2>2 DEF Settled, Grows
<1>4. CASE ack.fill = "none"
    <2>1. r = Refund(L, o) /\ AfterBurn(Y, s, ack) = Y /\ s \in X
        BY <1>4 DEF AcknowledgeTokenOrder, AfterBurn, Burns
    <2>2. CASE o.kind = "UNESCROW"
        <3>1. r = RefundIBCVoucher(L, o, o.sender)
            BY <2>1, <2>2 DEF Refund
        <3>2. Settled(L, r, X \ {s}, Y) /\ (o.sender \in Accounts => r.status = "done")
            BY <2>1, <2>2, <3>1, RefundVoucherSound
        <3> QED BY <2>1, <3>2
    <2>3. CASE o.kind \in {"INITIALIZE", "ESCROW"}
        <3>1. r = SettleEscrowed(L, o, o.sender)
            BY <2>1, <2>3 DEF Refund
        <3>2. /\ Settled(L, SettleEscrowed(L, o, o.sender), X \ {s}, Y)
              /\ o.sender \in Accounts \ {Proxy} =>
                    SettleEscrowed(L, o, o.sender).status = "done"
            BY <2>1, <2>3, SettleEscrowedSound
        <3> QED BY <2>1, <3>1, <3>2
    <2> QED BY <1>2, <2>2, <2>3
<1>5. CASE ack.fill = "maker"
    <2>1. r = PayMaker(L, o, ack.maker) /\ s \in X
        BY <1>5 DEF AcknowledgeTokenOrder
    <2>2. CASE o.kind = "UNESCROW"
        <3>1. r = RefundIBCVoucher(L, o, ack.maker) /\ AfterBurn(Y, s, ack) = Y
            BY <2>1, <2>2 DEF PayMaker, AfterBurn, Burns
        <3>2. Settled(L, r, X \ {s}, Y) /\ (ack.maker \in Accounts => r.status = "done")
            BY <2>1, <2>2, <3>1, RefundVoucherSound
        <3> QED BY <1>5, <3>1, <3>2
    <2>3. CASE o.kind \in {"INITIALIZE", "ESCROW"} /\ ack.maker = BurnAddress
        <3>1. r = BurnEscrowed(L, o) /\ AfterBurn(Y, s, ack) = Y \cup {s}
            BY <1>5, <2>1, <2>3 DEF PayMaker, AfterBurn, Burns
        <3>2. Settled(L, r, X \ {s}, Y \cup {s}) /\ r.status = "done"
            BY <2>1, <2>3, <3>1, BurnEscrowedSound
        <3> QED BY <3>1, <3>2
    <2>4. CASE o.kind \in {"INITIALIZE", "ESCROW"} /\ ack.maker # BurnAddress
        <3>1. r = SettleEscrowed(L, o, ack.maker) /\ AfterBurn(Y, s, ack) = Y
            BY <2>1, <2>4 DEF PayMaker, AfterBurn, Burns
        <3>2. Settled(L, r, X \ {s}, Y) /\ (ack.maker \in Accounts \ {Proxy} => r.status = "done")
            BY <2>1, <2>4, <3>1, SettleEscrowedSound
        <3> QED BY <1>5, <3>1, <3>2
    <2> QED BY <1>2, <2>2, <2>3, <2>4
<1> QED BY <1>1, <1>3, <1>4, <1>5

(***************************************************************************)
(* A callback on a whole packet: what f says of each order, in sequence.   *)
(***************************************************************************)
StepsTo(L, p, call, n, f) ==
    f = [i \in 0..n |-> IF i = 0 THEN Done(L, <<>>) ELSE Then(p, call, f[i - 1], i)]

LEMMA StepsExist ==
    ASSUME NEW L, NEW p, NEW call
    PROVE  \A n \in Nat : \E f : StepsTo(L, p, call, n, f)
<1> DEFINE T == {n \in Nat : \E f : StepsTo(L, p, call, n, f)}
<1>1. 0 \in T
    <2>1. StepsTo(L, p, call, 0, [i \in 0..0 |-> Done(L, <<>>)])
        BY DEF StepsTo
    <2> QED BY <2>1
<1>2. ASSUME NEW n \in Nat, n \in T
      PROVE  n + 1 \in T
    <2>1. PICK f : StepsTo(L, p, call, n, f)
        BY <1>2
    <2> DEFINE g == [i \in 0..(n + 1) |->
                        IF i = 0 THEN Done(L, <<>>) ELSE Then(p, call, f[i - 1], i)]
    <2>2. \A i \in 0..n : g[i] = f[i] /\ i \in 0..(n + 1)
        BY <2>1 DEF StepsTo
    <2>3. \A i \in 0..(n + 1) : i # 0 => i - 1 \in 0..n
        OBVIOUS
    <2>4. StepsTo(L, p, call, n + 1, g)
        BY <2>2, <2>3 DEF StepsTo
    <2> QED BY <2>4
<1> HIDE DEF T
<1>3. Nat \subseteq T
    BY <1>1, <1>2, NatSetInduction
<1> QED BY <1>3 DEF T

Handles(f, L, p, call) ==
    /\ f[0] = Done(L, <<>>)
    /\ \A i \in 1..Len(p.orders) : f[i] = Then(p, call, f[i - 1], i)
    /\ HandlePacket(L, p, call) = f[Len(p.orders)]

LEMMA HandledInSteps ==
    ASSUME NEW L, NEW p \in Packets, NEW call
    PROVE  \E f : Handles(f, L, p, call)
<1> DEFINE N == Len(p.orders)
           f == CHOOSE g : StepsTo(L, p, call, N, g)
<1>1. N \in Nat
    BY PacketsAssumption
<1>2. StepsTo(L, p, call, N, f)
    BY <1>1, StepsExist
<1>3. HandlePacket(L, p, call) = f[N]
    BY Zenon DEF HandlePacket, StepsTo
<1> HIDE DEF f
<1>4. f[0] = Done(L, <<>>) /\ \A i \in 1..N : f[i] = Then(p, call, f[i - 1], i)
    BY <1>1, <1>2 DEF StepsTo
<1> QED BY <1>3, <1>4 DEF Handles

\* The orders of p at the places in J.
Part(p, J) == {<<p, j>> : j \in J}

LEMMA Parts ==
    ASSUME NEW p, NEW J, NEW n
    PROVE  <<p, n>> \in Part(p, J) <=> n \in J
BY DEF Part

LEMMA PartWith ==
    ASSUME NEW p, NEW J, NEW n, NEW K, K = J \cup {n}
    PROVE  Part(p, K) = Part(p, J) \cup {<<p, n>>}
BY DEF Part

LEMMA NoPart ==
    ASSUME NEW p
    PROVE  Part(p, 1..0) = {}
<1>1. 1..0 = {}
    OBVIOUS
<1> QED BY <1>1 DEF Part

LEMMA PartsAreSlots ==
    ASSUME NEW p \in Packets, NEW J \in SUBSET (1..Len(p.orders))
    PROVE  Part(p, J) \subseteq Slots
BY SlotsOfPacket DEF Part

LEMMA Upto ==
    ASSUME NEW n \in Nat \ {0}
    PROVE  1..n = (1..(n - 1)) \cup {n} /\ n \notin 1..(n - 1) /\ n - 1 \in Nat
OBVIOUS

\* What order n makes of the result before it.
LEMMA ThenIs ==
    ASSUME NEW p, NEW call, NEW r, NEW n
    PROVE  LET t == Then(p, call, r, n)
               next == HandleOrder(r.state, p, n, call)
           IN  /\ r.status # "done" => t = r
               /\ r.status = "done" => /\ t.status = next.status /\ t.state = next.state
                                       /\ t.ack = Append(r.ack, next.ack)
BY DEF Then

LEMMA SendPacketSound ==
    ASSUME NEW L, Sound(L), NEW X \in SUBSET Slots, NEW Y \in SUBSET Slots, BackedBy(L, X, Y),
           NEW p \in Packets, \A i \in 1..Len(p.orders) : <<p, i>> \notin X,
           VerifyPacket(L, p).status = "done"
    PROVE  LET M == VerifyPacket(L, p).state
           IN  /\ Sound(M) /\ Grows(L, M) /\ BackedBy(M, X \cup Part(p, 1..Len(p.orders)), Y)
               /\ \A i \in 1..Len(p.orders) : Owed(M, p.orders[i])
<1> DEFINE N == Len(p.orders)
           call == [on |-> "send"]
<1>1. PICK f : Handles(f, L, p, call)
    BY HandledInSteps
<1>2. N \in Nat /\ p.caller \in Accounts \ {Proxy}
    BY PacketsAssumption
<1> DEFINE Good(n) ==
              f[n].status = "done" =>
                  /\ Sound(f[n].state) /\ Grows(L, f[n].state)
                  /\ BackedBy(f[n].state, X \cup Part(p, 1..n), Y)
                  /\ \A i \in 1..n : Owed(f[n].state, p.orders[i])
           T == {n \in 0..N : Good(n)}
<1>3. 0 \in T
    <2>1. f[0].status = "done" /\ f[0].state = L
        BY <1>1 DEF Handles, Done
    <2>2. 1..0 = {} /\ X \cup Part(p, 1..0) = X
        BY NoPart
    <2>3. Good(0)
        BY <2>1, <2>2 DEF Grows
    <2> QED BY <1>2, <2>3
<1>4. ASSUME NEW n \in 1..N, n - 1 \in T
      PROVE  n \in T
    <2> DEFINE S == f[n - 1].state
               W == X \cup Part(p, 1..(n - 1))
               s == <<p, n>>
               next == VerifyTokenOrder(S, p.orders[n], p.caller)
    <2>1. n \in Nat \ {0} /\ n \in 0..N
        BY <1>2
    <2>2. Good(n - 1)
        BY <1>4
    <2> SUFFICES ASSUME f[n].status = "done"
                 PROVE  /\ Sound(f[n].state) /\ Grows(L, f[n].state)
                        /\ BackedBy(f[n].state, X \cup Part(p, 1..n), Y)
                        /\ \A i \in 1..n : Owed(f[n].state, p.orders[i])
        BY <2>1
    <2>3. f[n] = Then(p, call, f[n - 1], n)
        BY <1>1 DEF Handles
    <2>4. f[n - 1].status = "done"
        BY <2>3, ThenIs
    <2>5. HandleOrder(S, p, n, call) = next
        BY DEF HandleOrder
    <2>6. f[n].status = next.status /\ f[n].state = next.state
        BY <2>3, <2>4, <2>5, ThenIs
    <2>7. Sound(S) /\ Grows(L, S) /\ BackedBy(S, W, Y) /\ \A i \in 1..(n - 1) : Owed(S, p.orders[i])
        BY <2>2, <2>4
    <2>8. s \in Slots /\ OrderAt(s) = p.orders[n]
        BY SlotsOfPacket DEF OrderAt
    <2>9. W \in SUBSET Slots /\ s \notin W
        <3>1. 1..(n - 1) \in SUBSET (1..N) /\ n \notin 1..(n - 1)
            BY <1>2, <2>1
        <3>2. Part(p, 1..(n - 1)) \subseteq Slots
            BY <3>1, PartsAreSlots
        <3> QED BY <3>1, <3>2, Parts
    <2>10. X \cup Part(p, 1..n) = W \cup {s}
        <3>1. 1..n = (1..(n - 1)) \cup {n}
            BY <2>1, Upto
        <3>2. Part(p, 1..n) = Part(p, 1..(n - 1)) \cup {s}
            BY <3>1, PartWith, ZenonT(60)
        <3> QED BY <3>2
    <2> DEFINE M == next.state
    <2> HIDE DEF S, W, s
    <2>11. Sound(M) /\ Grows(S, M) /\ BackedBy(M, W \cup {s}, Y) /\ Owed(M, p.orders[n])
        BY <1>2, <2>6, <2>7, <2>8, <2>9, VerifyOrderSound
    <2> HIDE DEF M, next
    <2>12. \A i \in 1..(n - 1) : Owed(M, p.orders[i])
        BY <2>7, <2>11, OwedKept
    <2>13. \A i \in 1..n : Owed(M, p.orders[i])
        BY <2>1, <2>11, <2>12, Upto
    <2>14. Grows(L, M)
        BY <2>7, <2>11 DEF Grows
    <2>15. f[n].state = M
        BY <2>6 DEF M
    <2> QED BY <2>10, <2>11, <2>13, <2>14, <2>15
<1> HIDE DEF T
<1>5. N \in T
    BY <1>2, <1>3, <1>4, UptoInduction
<1>6. VerifyPacket(L, p) = f[N]
    BY <1>1 DEF Handles, VerifyPacket
<1> QED BY <1>5, <1>6 DEF T

\* The first n orders that an answer says the protocol filled.
ByProtocol(a, n) == {j \in 1..n : a[j].fill = "protocol"}

LEMMA AppendAck ==
    ASSUME NEW n \in Nat \ {0}, NEW a \in Seq(OrderAcks), Len(a) = n - 1, NEW x \in OrderAcks
    PROVE  LET b == Append(a, x)
           IN  /\ b \in Seq(OrderAcks) /\ Len(b) = n
               /\ ByProtocol(b, n) =
                     ByProtocol(a, n - 1) \cup (IF x.fill = "protocol" THEN {n} ELSE {})
<1> DEFINE b == Append(a, x)
<1>1. b \in Seq(OrderAcks) /\ Len(b) = n /\ b[n] = x /\ \A j \in 1..(n - 1) : b[j] = a[j]
    OBVIOUS
<1>2. 1..n = (1..(n - 1)) \cup {n}
    BY Upto
<1> HIDE DEF b
<1>3. ByProtocol(b, n) = ByProtocol(a, n - 1) \cup (IF x.fill = "protocol" THEN {n} ELSE {})
    BY <1>1, <1>2 DEF ByProtocol
<1> QED BY <1>1, <1>3 DEF b

\* What the first n orders of p come to on receipt.
Received(L, r, p, n, X, Y, intent) ==
    r.status # "fatal" =>
        /\ r.status \in {"done", "error"} /\ (r.status = "error" => n = Len(p.orders))
        /\ r.ack \in Seq(OrderAcks) /\ Len(r.ack) = n
        /\ Sound(r.state) /\ Grows(L, r.state)
        /\ BackedBy(r.state, X \ Part(p, ByProtocol(r.ack, n)), Y)
        /\ intent => ByProtocol(r.ack, n) = {}

LEMMA ReceivePacketSound ==
    ASSUME NEW L, Sound(L), NEW X \in SUBSET Slots, NEW Y \in SUBSET Slots, BackedBy(L, X, Y),
           NEW p \in Packets, NEW relayer \in Relayers, NEW relayerMsg \in RelayerMsgs,
           NEW limited, NEW intent \in BOOLEAN,
           ~intent => \A i \in 1..Len(p.orders) : <<p, i>> \in X /\ Owed(L, p.orders[i])
    PROVE  Received(L, ExecutePacket(L, p, relayer, relayerMsg, limited, intent),
                    p, Len(p.orders), X, Y, intent)
<1> DEFINE N == Len(p.orders)
           call == [on |-> "receive", relayer |-> relayer, relayerMsg |-> relayerMsg,
                    limited |-> limited, intent |-> intent]
<1>1. PICK f : Handles(f, L, p, call)
    BY HandledInSteps
<1>2. N \in Nat /\ (p.batch \/ N = 1)
    BY PacketsAssumption
<1> DEFINE T == {n \in 0..N : Received(L, f[n], p, n, X, Y, intent)}
<1>3. 0 \in T
    <2>1. f[0].status = "done" /\ f[0].state = L /\ f[0].ack = <<>>
        BY <1>1 DEF Handles, Done
    <2>2. ByProtocol(<<>>, 0) = {} /\ <<>> \in Seq(OrderAcks) /\ Len(<<>>) = 0
        BY DEF ByProtocol
    <2>3. X \ Part(p, {}) = X
        BY DEF Part
    <2>4. Received(L, f[0], p, 0, X, Y, intent)
        BY <2>1, <2>2, <2>3 DEF Received, Grows
    <2> QED BY <1>2, <2>4
<1>4. ASSUME NEW n \in 1..N, n - 1 \in T
      PROVE  n \in T
    <2> DEFINE r == f[n - 1]
               S == r.state
               W == X \ Part(p, ByProtocol(r.ack, n - 1))
               s == <<p, n>>
               o == p.orders[n]
               next == ExecuteTokenOrder(S, o, relayer, relayerMsg, n \in limited, intent)
    <2>1. n \in Nat \ {0} /\ n \in 0..N
        BY <1>2
    <2>2. Received(L, r, p, n - 1, X, Y, intent)
        BY <1>4
    <2>3. f[n] = Then(p, call, r, n)
        BY <1>1 DEF Handles
    <2> SUFFICES ASSUME f[n].status # "fatal"
                 PROVE  Received(L, f[n], p, n, X, Y, intent)
        BY <2>1 DEF Received
    <2>4. r.status = "done"
        <3>1. r.status # "done" => f[n] = r
            BY <2>3, ThenIs
        <3>2. n - 1 # N
            BY <1>2, <2>1
        <3> QED BY <2>2, <3>1, <3>2 DEF Received
    <2>5. HandleOrder(S, p, n, call) = IF p.batch /\ next.status = "error" THEN Fatal(S) ELSE next
        BY DEF HandleOrder
    <2>6. /\ f[n].status = HandleOrder(S, p, n, call).status
          /\ f[n].state = HandleOrder(S, p, n, call).state
          /\ f[n].ack = Append(r.ack, HandleOrder(S, p, n, call).ack)
        BY <2>3, <2>4, ThenIs
    <2>7. /\ HandleOrder(S, p, n, call) = next
          /\ next.status = "error" => ~p.batch
        <3>1. Fatal(S).status = "fatal"
            BY DEF Fatal
        <3> QED BY <2>5, <2>6, <3>1
    <2>8. /\ r.ack \in Seq(OrderAcks) /\ Len(r.ack) = n - 1
          /\ Sound(S) /\ Grows(L, S) /\ BackedBy(S, W, Y)
          /\ intent => ByProtocol(r.ack, n - 1) = {}
        BY <2>2, <2>4 DEF Received
    <2>9. s \in Slots /\ OrderAt(s) = o /\ W \in SUBSET Slots
        BY SlotsOfPacket DEF OrderAt
    <2>10. ~intent => s \in W /\ Owed(S, o)
        <3>1. n \notin ByProtocol(r.ack, n - 1)
            BY <2>1, Upto DEF ByProtocol
        <3>2. s \notin Part(p, ByProtocol(r.ack, n - 1))
            BY <3>1, Parts
        <3> QED BY <2>8, <3>2, OwedKept
    <2> HIDE DEF W, s, S, r, o, call
    <2>11. Executed(S, next, s, W, Y) /\ (intent => next.ack.fill # "protocol")
        <3>1. (n \in limited) \in BOOLEAN
            OBVIOUS
        <3> QED BY <2>8, <2>9, <2>10, <3>1, ExecuteOrderSound, ZenonT(60)
    <2> HIDE DEF next
    <2>12. f[n].status = next.status /\ f[n].state = next.state /\ f[n].ack = Append(r.ack, next.ack)
        BY <2>6, <2>7
    <2>13. /\ next.status \in {"done", "error"} /\ next.ack \in OrderAcks
           /\ Sound(next.state) /\ Grows(S, next.state)
           /\ BackedBy(next.state, IF next.ack.fill = "protocol" THEN W \ {s} ELSE W, Y)
        BY <2>11, <2>12 DEF Executed
    <2> DEFINE a == f[n].ack
               K == ByProtocol(r.ack, n - 1)
    <2>14. /\ a \in Seq(OrderAcks) /\ Len(a) = n
           /\ ByProtocol(a, n) = K \cup (IF next.ack.fill = "protocol" THEN {n} ELSE {})
        BY <2>1, <2>8, <2>12, <2>13, AppendAck
    <2>15. X \ Part(p, ByProtocol(a, n)) = IF next.ack.fill = "protocol" THEN W \ {s} ELSE W
        <3> HIDE DEF a, K
        <3>1. CASE next.ack.fill = "protocol"
            <4>1. Part(p, ByProtocol(a, n)) = Part(p, K) \cup {s}
                <5>1. ByProtocol(a, n) = K \cup {n}
                    BY <2>14, <3>1
                <5> QED BY <5>1, PartWith, ZenonT(60) DEF s
            <4>2. W = X \ Part(p, K)
                BY DEF W, K
            <4> QED BY <3>1, <4>1, <4>2
        <3>2. CASE next.ack.fill # "protocol"
            <4>1. ByProtocol(a, n) = K
                BY <2>14, <3>2
            <4>2. W = X \ Part(p, K)
                BY DEF W, K
            <4> QED BY <3>2, <4>1, <4>2
        <3> QED BY <3>1, <3>2
    <2>16. intent => ByProtocol(a, n) = {}
        BY <2>8, <2>11, <2>14
    <2>17. Grows(L, next.state)
        BY <2>8, <2>13 DEF Grows
    <2>18. next.status = "error" => n = N
        <3>1. next.status = "error" => N = 1
            BY <1>2, <2>7, Zenon
        <3>2. N = 1 => n = N
            OBVIOUS
        <3> QED BY <3>1, <3>2
    <2>19. BackedBy(next.state, X \ Part(p, ByProtocol(a, n)), Y)
        BY <2>13, <2>15
    <2> HIDE DEF K
    <2> QED BY <2>12, <2>13, <2>14, <2>16, <2>17, <2>18, <2>19 DEF Received
<1> HIDE DEF T
<1>5. N \in T
    BY <1>2, <1>3, <1>4, UptoInduction
<1>6. ExecutePacket(L, p, relayer, relayerMsg, limited, intent) = f[N]
    BY <1>1 DEF Handles, ExecutePacket
<1> QED BY <1>5, <1>6 DEF T

\* The first n orders whose settlement burns.
Burnt(p, a, n) == {j \in 1..n : Burns(<<p, j>>, a[j])}

CanBePaid(p, a) ==
    \A i \in 1..Len(p.orders) :
        /\ p.orders[i].sender \in Accounts \ {Proxy}
        /\ a[i].fill = "maker" => a[i].maker \in Accounts \ {Proxy}

\* The callback call settles each order of p as if a were its answer.
SettlesAs(call, p, a) ==
    \A S : \A i \in 1..Len(p.orders) :
        HandleOrder(S, p, i, call) = AcknowledgeTokenOrder(S, p.orders[i], a[i])

\* No order of p was settled yet; the answer a tells what is on the way.
Unsettled(L, p, a, X, Y) ==
    \A i \in 1..Len(p.orders) :
        /\ <<p, i>> \in X <=> a[i].fill # "protocol"
        /\ <<p, i>> \notin Y /\ Owed(L, p.orders[i])

\* Acknowledging a packet that was sent, or timing it out.
LEMMA SettlePacketSound ==
    ASSUME NEW L, Sound(L), NEW X \in SUBSET Slots, NEW Y \in SUBSET Slots, BackedBy(L, X, Y),
           NEW p \in Packets, NEW a \in [1..Len(p.orders) -> OrderAcks], NEW call,
           SettlesAs(call, p, a), Unsettled(L, p, a, X, Y)
    PROVE  LET r == HandlePacket(L, p, call)
               N == Len(p.orders)
           IN  /\ Settled(L, r, X \ Part(p, 1..N), Y \cup Part(p, Burnt(p, a, N)))
               /\ CanBePaid(p, a) => r.status = "done"
<1> DEFINE N == Len(p.orders)
           Left(n) == X \ Part(p, 1..n)
           Lost(n) == Y \cup Part(p, Burnt(p, a, n))
<1>1. PICK f : Handles(f, L, p, call)
    BY HandledInSteps
<1>2. N \in Nat
    BY PacketsAssumption
<1> DEFINE Good(n) == /\ Settled(L, f[n], Left(n), Lost(n))
                      /\ CanBePaid(p, a) => f[n].status = "done"
           T == {n \in 0..N : Good(n)}
<1>3. 0 \in T
    <2>1. f[0].status = "done" /\ f[0].state = L
        BY <1>1 DEF Handles, Done
    <2>2. Left(0) = X /\ Lost(0) = Y
        <3>1. Burnt(p, a, 0) = 1..0
            BY DEF Burnt
        <3> QED BY <3>1, NoPart
    <2> HIDE DEF Left, Lost
    <2>3. Good(0)
        BY <2>1, <2>2 DEF Settled, Grows
    <2> QED BY <1>2, <2>3
<1>4. ASSUME NEW n \in 1..N, n - 1 \in T
      PROVE  n \in T
    <2> DEFINE r == f[n - 1]
               S == r.state
               W == Left(n - 1)
               Z == Lost(n - 1)
               s == <<p, n>>
               o == p.orders[n]
               next == AcknowledgeTokenOrder(S, o, a[n])
    <2>1. n \in Nat \ {0} /\ n \in 0..N
        BY <1>2
    <2>2. Settled(L, r, W, Z) /\ (CanBePaid(p, a) => r.status = "done")
        BY <1>4
    <2>3. f[n] = Then(p, call, r, n)
        BY <1>1 DEF Handles
    <2>4. r.status # "done" => Good(n)
        <3>1. r.status # "done" => f[n] = r
            BY <2>3, ThenIs
        <3> QED BY <2>2, <3>1 DEF Settled
    <2> SUFFICES ASSUME r.status = "done" PROVE Good(n)
        BY <2>1, <2>4
    <2>5. f[n].status = next.status /\ f[n].state = next.state
        <3>1. HandleOrder(S, p, n, call) = next
            BY DEF SettlesAs
        <3> QED BY <2>3, <3>1, ThenIs
    <2>6. Sound(S) /\ Grows(L, S) /\ BackedBy(S, W, Z)
        BY <2>2 DEF Settled
    <2>7. s \in Slots /\ OrderAt(s) = o
        BY SlotsOfPacket DEF OrderAt
    <2>8. 1..n = (1..(n - 1)) \cup {n} /\ n \notin 1..(n - 1) /\ 1..(n - 1) \subseteq 1..N
        BY <1>2, <2>1, Upto
    <2>9. Burnt(p, a, n) = Burnt(p, a, n - 1) \cup (IF Burns(s, a[n]) THEN {n} ELSE {})
          /\ n \notin Burnt(p, a, n - 1) /\ Burnt(p, a, n - 1) \subseteq 1..N
        BY <2>8 DEF Burnt
    <2>10. W \in SUBSET Slots /\ (s \in W <=> a[n].fill # "protocol") /\ Left(n) = W \ {s}
        <3>1. s \notin Part(p, 1..(n - 1))
            BY <2>8, Parts
        <3>2. Part(p, 1..n) = Part(p, 1..(n - 1)) \cup {s}
            BY <2>8, PartWith, ZenonT(60)
        <3>3. s \in X <=> a[n].fill # "protocol"
            BY DEF Unsettled
        <3> QED BY <3>1, <3>2, <3>3
    <2>11. Z \in SUBSET Slots /\ s \notin Z /\ Lost(n) = AfterBurn(Z, s, a[n])
        <3> s \notin Y
            BY DEF Unsettled
        <3>1. s \notin Part(p, Burnt(p, a, n - 1))
            BY <2>9, Parts
        <3>2. Part(p, Burnt(p, a, n - 1)) \subseteq Slots
            BY <2>9, PartsAreSlots
        <3>3. CASE Burns(s, a[n])
            <4>1. Burnt(p, a, n) = Burnt(p, a, n - 1) \cup {n}
                BY <2>9, <3>3
            <4>2. Part(p, Burnt(p, a, n)) = Part(p, Burnt(p, a, n - 1)) \cup {s}
                BY <4>1, PartWith, ZenonT(60)
            <4> QED BY <3>1, <3>2, <3>3, <4>2 DEF AfterBurn
        <3>4. CASE ~Burns(s, a[n])
            <4>1. Burnt(p, a, n) = Burnt(p, a, n - 1)
                BY <2>9, <3>4
            <4> QED BY <3>1, <3>2, <3>4, <4>1 DEF AfterBurn
        <3> QED BY <3>3, <3>4
    <2>12. Owed(S, o) /\ a[n] \in OrderAcks
        <3>1. Owed(L, o)
            BY DEF Unsettled
        <3> QED BY <2>6, <3>1, OwedKept
    <2> HIDE DEF W, Z, s, S, Left, Lost, r
    <2>13. /\ Settled(S, next, W \ {s}, AfterBurn(Z, s, a[n]))
           /\ /\ o.sender \in Accounts \ {Proxy}
              /\ a[n].fill = "maker" => a[n].maker \in Accounts \ {Proxy}
              => next.status = "done"
        <3> DEFINE ack == a[n]
        <3>1. ack \in OrderAcks /\ (s \in W <=> ack.fill # "protocol") /\ Owed(S, OrderAt(s))
            BY <2>7, <2>10, <2>12
        <3> HIDE DEF ack
        <3>2. Acknowledged(S, s, ack, W, Z)
            BY <2>6, <2>7, <2>10, <2>11, <3>1, AcknowledgeOrderSound
        <3> QED BY <2>7, <3>2 DEF ack, Acknowledged
    <2> HIDE DEF next
    <2>14. Settled(L, f[n], Left(n), Lost(n))
        BY <2>5, <2>6, <2>10, <2>11, <2>13 DEF Settled, Grows
    <2>15. CanBePaid(p, a) => f[n].status = "done"
        BY <2>5, <2>13 DEF CanBePaid
    <2> QED BY <2>14, <2>15
<1>5. N \in T
    <2> HIDE DEF T
    <2> QED BY <1>2, <1>3, <1>4, UptoInduction
<1>6. HandlePacket(L, p, call) = f[N]
    BY <1>1 DEF Handles
<1> QED BY <1>5, <1>6

(***************************************************************************)
(* The invariant.                                                          *)
(***************************************************************************)
AcksOf(p) == receipt[p.source][p].acks

Fate(p) == outcome[p.source][p]

DeliveryTypes ==
    /\ outcome \in [Chains -> [Packets -> {"unsent", "sent", "acked", "timedOut"}]]
    /\ receipt \in [Chains -> [Packets ->
          [got : BOOLEAN, acks : {<<>>} \cup {<<a>> : a \in PacketAnswers}]]]

\* A packet's answer answers each of its orders.  It was received before it was
\* acknowledged, and by makers only if before it was sent.
Answered(p) ==
    /\ AcksOf(p) # <<>> => AcksOf(p)[1] \in [1..Len(p.orders) -> OrderAcks]
    /\ Fate(p) = "acked" => AcksOf(p) # <<>>
    /\ Fate(p) = "unsent" /\ AcksOf(p) # <<>> => ByProtocol(AcksOf(p)[1], Len(p.orders)) = {}

OwedOf(L, p) == \A i \in 1..Len(p.orders) : Owed(L, p.orders[i])

IInv ==
    /\ DeliveryTypes /\ \A p \in Packets : Answered(p)
    /\ Sound(ledger)
    /\ BackedBy(ledger, OnTheWay, BurnSettled)
    /\ \A p \in Packets : Fate(p) # "unsent" => OwedOf(ledger, p)

LEMMA SlotSets ==
    OnTheWay \in SUBSET Slots /\ BurnSettled \in SUBSET Slots
BY DEF OnTheWay, BurnSettled

\* What a packet's own slots are in.
LEMMA SlotsOf ==
    ASSUME NEW p \in Packets, NEW i \in 1..Len(p.orders)
    PROVE  /\ <<p, i>> \in OnTheWay <=>
                 Fate(p) = "sent" /\ ~(AcksOf(p) # <<>> /\ AcksOf(p)[1][i].fill = "protocol")
           /\ <<p, i>> \in BurnSettled <=>
                 Fate(p) = "acked" /\ AcksOf(p) # <<>> /\ Burns(<<p, i>>, AcksOf(p)[1][i])
<1>1. <<p, i>> \in Slots /\ <<p, i>>[1] = p /\ <<p, i>>[2] = i
    BY SlotsOfPacket
<1> QED BY <1>1, Zenon DEF OnTheWay, BurnSettled, Filled, Ack, Burns, Fate, AcksOf

LEMMA PacketSource ==
    ASSUME NEW p \in Packets
    PROVE  p.source \in Chains /\ Len(p.orders) \in Nat
BY PacketsAssumption

\* A step that concerns one packet.
Concerns(p) ==
    \A q \in Packets \ {p} :
        outcome'[q.source][q] = outcome[q.source][q]
        /\ receipt'[q.source][q].acks = receipt[q.source][q].acks

LEMMA SlotsOfNext ==
    ASSUME NEW p \in Packets, NEW i \in 1..Len(p.orders)
    PROVE  /\ <<p, i>> \in OnTheWay' <=>
                 /\ outcome'[p.source][p] = "sent"
                 /\ ~(/\ receipt'[p.source][p].acks # <<>>
                      /\ receipt'[p.source][p].acks[1][i].fill = "protocol")
           /\ <<p, i>> \in BurnSettled' <=>
                 /\ outcome'[p.source][p] = "acked" /\ receipt'[p.source][p].acks # <<>>
                 /\ Burns(<<p, i>>, receipt'[p.source][p].acks[1][i])
<1>1. <<p, i>> \in Slots /\ <<p, i>>[1] = p /\ <<p, i>>[2] = i
    BY SlotsOfPacket
<1> QED BY <1>1, Zenon DEF OnTheWay, BurnSettled, Filled, Ack, Burns

LEMMA SlotSetsNext ==
    OnTheWay' \in SUBSET Slots /\ BurnSettled' \in SUBSET Slots
BY DEF OnTheWay, BurnSettled

LEMMA OtherSlots ==
    ASSUME NEW p \in Packets, Concerns(p)
    PROVE  \A s \in Slots : s[1] # p => /\ s \in OnTheWay' <=> s \in OnTheWay
                                        /\ s \in BurnSettled' <=> s \in BurnSettled
<1> SUFFICES ASSUME NEW s \in Slots, s[1] # p
             PROVE  /\ s \in OnTheWay' <=> s \in OnTheWay
                    /\ s \in BurnSettled' <=> s \in BurnSettled
    OBVIOUS
<1> DEFINE q == s[1]
           i == s[2]
<1>1. q \in Packets /\ i \in 1..Len(q.orders) /\ s = <<q, i>>
    BY SlotFacts
<1>2. /\ outcome'[q.source][q] = outcome[q.source][q]
      /\ receipt'[q.source][q].acks = receipt[q.source][q].acks
    BY <1>1 DEF Concerns
<1> HIDE DEF q, i
<1>3. /\ <<q, i>> \in OnTheWay' <=> <<q, i>> \in OnTheWay
      /\ <<q, i>> \in BurnSettled' <=> <<q, i>> \in BurnSettled
    <2>1. /\ <<q, i>> \in OnTheWay <=>
                 Fate(q) = "sent" /\ ~(AcksOf(q) # <<>> /\ AcksOf(q)[1][i].fill = "protocol")
          /\ <<q, i>> \in BurnSettled <=>
                 Fate(q) = "acked" /\ AcksOf(q) # <<>> /\ Burns(<<q, i>>, AcksOf(q)[1][i])
        BY <1>1, SlotsOf
    <2>2. /\ <<q, i>> \in OnTheWay' <=>
                 /\ outcome'[q.source][q] = "sent"
                 /\ ~(/\ receipt'[q.source][q].acks # <<>>
                      /\ receipt'[q.source][q].acks[1][i].fill = "protocol")
          /\ <<q, i>> \in BurnSettled' <=>
                 /\ outcome'[q.source][q] = "acked" /\ receipt'[q.source][q].acks # <<>>
                 /\ Burns(<<q, i>>, receipt'[q.source][q].acks[1][i])
        BY <1>1, SlotsOfNext
    <2> QED BY <1>2, <2>1, <2>2 DEF Fate, AcksOf
<1> QED BY <1>1, <1>3

LEMMA SlotCases ==
    ASSUME NEW A \in SUBSET Slots, NEW B \in SUBSET Slots, NEW p,
           \A s \in Slots : s[1] # p => (s \in A <=> s \in B),
           \A i \in 1..Len(p.orders) : <<p, i>> \in A <=> <<p, i>> \in B
    PROVE  A = B
<1> SUFFICES ASSUME NEW s \in Slots PROVE s \in A <=> s \in B
    OBVIOUS
<1>1. s[2] \in 1..Len(s[1].orders) /\ s = <<s[1], s[2]>>
    BY SlotFacts
<1> QED BY <1>1

\* Other packets are not among the orders of p.
LEMMA PartsOfOthers ==
    ASSUME NEW p, NEW J, NEW s \in Part(p, J)
    PROVE  s[1] = p
BY DEF Part

\* What a step on p leaves as it was for the packets it does not concern.
LEMMA OthersKept ==
    ASSUME IInv, NEW p \in Packets, Concerns(p), NEW M, Sound(M), Grows(ledger, M),
           NEW q \in Packets \ {p}
    PROVE  Answered(q)' /\ (outcome'[q.source][q] # "unsent" => OwedOf(M, q))
<1>1. /\ outcome'[q.source][q] = outcome[q.source][q]
      /\ receipt'[q.source][q].acks = receipt[q.source][q].acks
    BY DEF Concerns
<1>2. Answered(q) /\ (Fate(q) # "unsent" => OwedOf(ledger, q)) /\ Sound(ledger)
    BY DEF IInv
<1>3. Answered(q)'
    BY <1>1, <1>2 DEF Answered, Fate, AcksOf
<1>4. ASSUME outcome'[q.source][q] # "unsent"
      PROVE  OwedOf(M, q)
    <2>1. OwedOf(ledger, q)
        BY <1>1, <1>2, <1>4 DEF Fate
    <2> QED BY <1>2, <2>1, OwedKept DEF OwedOf
<1> QED BY <1>3, <1>4

LEMMA StepKept ==
    ASSUME IInv, NEW p \in Packets, Concerns(p), DeliveryTypes', Answered(p)',
           Sound(ledger'), Grows(ledger, ledger'), BackedBy(ledger', OnTheWay', BurnSettled'),
           outcome'[p.source][p] # "unsent" => OwedOf(ledger', p)
    PROVE  IInv'
<1>1. \A q \in Packets : Answered(q)' /\ (outcome'[q.source][q] # "unsent" => OwedOf(ledger', q))
    BY OthersKept
<1> QED BY <1>1 DEF IInv, Fate

LEMMA SendKept ==
    ASSUME IInv, NEW p \in Packets, Send(p)
    PROVE  IInv'
<1> DEFINE N == Len(p.orders)
           c == p.source
<1>1. /\ outcome[c][p] = "unsent" /\ outcome' = [outcome EXCEPT ![c][p] = "sent"]
      /\ receipt' = receipt
      /\ VerifyPacket(ledger, p).status = "done" /\ ledger' = VerifyPacket(ledger, p).state
    BY DEF Send, Delivery!Send
<1>2. c \in Chains /\ N \in Nat
    BY PacketSource
<1>3. DeliveryTypes /\ Answered(p) /\ Sound(ledger) /\ BackedBy(ledger, OnTheWay, BurnSettled)
    BY DEF IInv
<1>4. DeliveryTypes' /\ outcome'[c][p] = "sent" /\ Concerns(p)
    <2>1. outcome \in [Chains -> [Packets -> {"unsent", "sent", "acked", "timedOut"}]]
        BY <1>3 DEF DeliveryTypes
    <2>2. outcome' \in [Chains -> [Packets -> {"unsent", "sent", "acked", "timedOut"}]]
        BY <1>1, <1>2, <2>1
    <2>3. outcome'[c][p] = "sent"
        BY <1>1, <1>2, <2>1
    <2>4. \A q \in Packets \ {p} : q.source \in Chains
        BY PacketSource
    <2>5. \A q \in Packets \ {p} : outcome'[q.source][q] = outcome[q.source][q]
        BY <1>1, <1>2, <2>1, <2>4
    <2> QED BY <1>1, <1>3, <2>2, <2>3, <2>5 DEF DeliveryTypes, Concerns
<1>5. \A i \in 1..N : <<p, i>> \notin OnTheWay
    BY <1>1, SlotsOf DEF Fate
<1>6. /\ Sound(ledger') /\ Grows(ledger, ledger') /\ OwedOf(ledger', p)
      /\ BackedBy(ledger', OnTheWay \cup Part(p, 1..N), BurnSettled)
    BY <1>1, <1>3, <1>5, SlotSets, SendPacketSound DEF OwedOf
<1>7. OnTheWay' = OnTheWay \cup Part(p, 1..N)
    <2> DEFINE A == OnTheWay'
               B == OnTheWay \cup Part(p, 1..N)
    <2>1. A \in SUBSET Slots /\ B \in SUBSET Slots
        BY SlotSets, SlotSetsNext, PartsAreSlots
    <2>2. \A s \in Slots : s[1] # p => (s \in A <=> s \in B)
        BY <1>4, OtherSlots, PartsOfOthers
    <2>3. ASSUME NEW i \in 1..N
          PROVE  <<p, i>> \in A <=> <<p, i>> \in B
        <3>1. <<p, i>> \in B
            BY Parts
        <3>2. ~(AcksOf(p) # <<>> /\ AcksOf(p)[1][i].fill = "protocol")
            BY <1>1, <1>3 DEF Answered, Fate, ByProtocol
        <3>3. <<p, i>> \in A
            BY <1>1, <1>4, <3>2, SlotsOfNext DEF AcksOf
        <3> QED BY <3>1, <3>3
    <2> HIDE DEF A, B
    <2>4. A = B
        BY <2>1, <2>2, <2>3, SlotCases
    <2> QED BY <2>4 DEF A, B
<1>8. BurnSettled' = BurnSettled
    <2>1. \A s \in Slots : s[1] # p => (s \in BurnSettled' <=> s \in BurnSettled)
        BY <1>4, OtherSlots
    <2>2. \A i \in 1..N : <<p, i>> \notin BurnSettled /\ <<p, i>> \notin BurnSettled'
        BY <1>1, <1>4, SlotsOf, SlotsOfNext DEF Fate
    <2> QED BY <2>1, <2>2, SlotSets, SlotSetsNext, SlotCases
<1>9. Answered(p)'
    <2>1. AcksOf(p) # <<>> => AcksOf(p)[1] \in [1..Len(p.orders) -> OrderAcks]
        BY <1>3 DEF Answered
    <2> QED BY <1>1, <1>4, <2>1 DEF Answered, Fate, AcksOf
<1>10. BackedBy(ledger', OnTheWay', BurnSettled')
    BY <1>6, <1>7, <1>8
<1> QED BY <1>4, <1>6, <1>9, <1>10, StepKept

LEMMA ReceiveKept ==
    ASSUME IInv, NEW p \in Packets, NEW relayer \in Relayers, NEW relayerMsg \in RelayerMsgs,
           NEW limited, NEW intent \in BOOLEAN, Receive(p, relayer, relayerMsg, limited, intent)
    PROVE  IInv'
<1> DEFINE N == Len(p.orders)
           c == p.source
           r == ExecutePacket(ledger, p, relayer, relayerMsg, limited, intent)
           a == r.ack
<1>1. /\ intent \/ outcome[c][p] # "unsent"
      /\ r.status # "fatal" /\ ledger' = r.state
      /\ receipt[c][p] = Delivery!Unreceived /\ outcome[c][p] # "timedOut" /\ outcome' = outcome
      /\ receipt' = [receipt EXCEPT ![c] =
            [x \in Packets |-> IF x = p THEN [got |-> TRUE, acks |-> <<a>>] ELSE receipt[c][x]]]
    <2>1. /\ intent \/ outcome[c][p] # "unsent"
          /\ r.status # "fatal" /\ ledger' = r.state
          /\ Delivery!Receive(c, {p}, [x \in {p} |-> <<a>>])
        BY DEF Receive
    <2> HIDE DEF a
    <2>2. /\ receipt[c][p] = Delivery!Unreceived /\ outcome[c][p] # "timedOut" /\ outcome' = outcome
          /\ receipt' = [receipt EXCEPT ![c] =
                [x \in Packets |-> IF x = p THEN [got |-> TRUE, acks |-> <<a>>] ELSE receipt[c][x]]]
        BY <2>1 DEF Delivery!Receive
    <2> QED BY <2>1, <2>2
<1>2. c \in Chains /\ N \in Nat
    BY PacketSource
<1>3. /\ DeliveryTypes /\ Answered(p) /\ Sound(ledger) /\ BackedBy(ledger, OnTheWay, BurnSettled)
      /\ Fate(p) # "unsent" => OwedOf(ledger, p)
    BY DEF IInv
<1>4. AcksOf(p) = <<>>
    BY <1>1 DEF AcksOf, Delivery!Unreceived
<1>5. Fate(p) \in {"unsent", "sent"}
    <2>1. outcome \in [Chains -> [Packets -> {"unsent", "sent", "acked", "timedOut"}]]
        BY <1>3 DEF DeliveryTypes
    <2>2. Fate(p) \in {"unsent", "sent", "acked", "timedOut"}
        BY <1>2, <2>1 DEF Fate
    <2> QED BY <1>1, <1>3, <1>4, <2>2 DEF Answered, Fate
<1>6. \A i \in 1..N : Fate(p) = "sent" => <<p, i>> \in OnTheWay
    BY <1>4, SlotsOf
<1>7. ~intent => \A i \in 1..N : <<p, i>> \in OnTheWay /\ Owed(ledger, p.orders[i])
    BY <1>1, <1>3, <1>5, <1>6 DEF OwedOf, Fate
<1>8. Received(ledger, r, p, N, OnTheWay, BurnSettled, intent)
    BY <1>3, <1>7, SlotSets, ReceivePacketSound
<1> HIDE DEF r
<1>9. /\ a \in Seq(OrderAcks) /\ Len(a) = N /\ Sound(ledger') /\ Grows(ledger, ledger')
      /\ BackedBy(ledger', OnTheWay \ Part(p, ByProtocol(a, N)), BurnSettled)
      /\ intent => ByProtocol(a, N) = {}
    BY <1>1, <1>8 DEF Received
<1> HIDE DEF a
<1>10. a \in [1..N -> OrderAcks] /\ a \in PacketAnswers
    BY <1>2, <1>9 DEF PacketAnswers
<1>11. /\ DeliveryTypes' /\ Concerns(p) /\ outcome'[c][p] = outcome[c][p]
       /\ receipt'[c][p].acks = <<a>>
    <2> DEFINE R == [got : BOOLEAN, acks : {<<>>} \cup {<<b>> : b \in PacketAnswers}]
    <2>1. receipt \in [Chains -> [Packets -> R]]
        BY <1>3 DEF DeliveryTypes
    <2>2. [got |-> TRUE, acks |-> <<a>>] \in R
        BY <1>10
    <2> HIDE DEF R
    <2>3. receipt' \in [Chains -> [Packets -> R]]
        BY <1>1, <1>2, <2>1, <2>2
    <2>4. receipt'[c][p] = [got |-> TRUE, acks |-> <<a>>]
        BY <1>1, <1>2, <2>1
    <2>5. \A q \in Packets \ {p} : q.source \in Chains
        BY PacketSource
    <2>6. \A q \in Packets \ {p} : receipt'[q.source][q] = receipt[q.source][q]
        BY <1>1, <1>2, <2>1, <2>5
    <2>7. DeliveryTypes'
        BY <1>1, <1>3, <2>3 DEF DeliveryTypes, R
    <2> QED BY <1>1, <2>4, <2>6, <2>7 DEF Concerns
<1>12. OnTheWay' = OnTheWay \ Part(p, ByProtocol(a, N))
    <2> DEFINE A == OnTheWay'
               B == OnTheWay \ Part(p, ByProtocol(a, N))
    <2>1. A \in SUBSET Slots /\ B \in SUBSET Slots
        BY SlotSets, SlotSetsNext
    <2>2. \A s \in Slots : s[1] # p => (s \in A <=> s \in B)
        BY <1>11, OtherSlots, PartsOfOthers
    <2>3. ASSUME NEW i \in 1..N
          PROVE  <<p, i>> \in A <=> <<p, i>> \in B
        <3>1. <<p, i>> \in Part(p, ByProtocol(a, N)) <=> a[i].fill = "protocol"
            BY Parts DEF ByProtocol
        <3>2. <<p, i>> \in OnTheWay <=> Fate(p) = "sent"
            BY <1>4, SlotsOf
        <3>3. <<a>> # <<>> /\ <<a>>[1] = a
            OBVIOUS
        <3>4. <<p, i>> \in A <=> outcome'[c][p] = "sent" /\ ~(a[i].fill = "protocol")
            BY <1>11, <3>3, SlotsOfNext
        <3> QED BY <1>11, <3>1, <3>2, <3>4 DEF Fate
    <2> HIDE DEF A, B
    <2>4. A = B
        BY <2>1, <2>2, <2>3, SlotCases
    <2> QED BY <2>4 DEF A, B
<1>13. BurnSettled' = BurnSettled
    <2>1. \A s \in Slots : s[1] # p => (s \in BurnSettled' <=> s \in BurnSettled)
        BY <1>11, OtherSlots
    <2>2. \A i \in 1..N : <<p, i>> \notin BurnSettled /\ <<p, i>> \notin BurnSettled'
        BY <1>5, <1>11, SlotsOf, SlotsOfNext DEF Fate
    <2> QED BY <2>1, <2>2, SlotSets, SlotSetsNext, SlotCases
<1>14. Answered(p)'
    <2>1. <<a>> # <<>> /\ <<a>>[1] = a
        OBVIOUS
    <2>2. outcome'[c][p] = "unsent" => ByProtocol(a, N) = {}
        BY <1>1, <1>9
    <2> QED BY <1>10, <1>11, <2>1, <2>2 DEF Answered, Fate, AcksOf
<1>15. BackedBy(ledger', OnTheWay', BurnSettled')
    BY <1>9, <1>12, <1>13
<1>16. outcome'[c][p] # "unsent" => OwedOf(ledger', p)
    BY <1>3, <1>9, <1>11, OwedKept DEF OwedOf, Fate
<1> QED BY <1>9, <1>11, <1>14, <1>15, <1>16, StepKept

\* The answer a packet is settled by: the one that came back, or a refusal of
\* every order when the packet timed out.
Verdict(p) ==
    IF AcksOf(p) = <<>> THEN [i \in 1..Len(p.orders) |-> Refused] ELSE AcksOf(p)[1]

\* The callback that settles it.
Settlement(p) ==
    IF AcksOf(p) = <<>> THEN [on |-> "timeout"]
    ELSE [on |-> "acknowledge", answer |-> AcksOf(p)[1]]

LEMMA VerdictFacts ==
    ASSUME IInv, NEW p \in Packets, Fate(p) = "sent"
    PROVE  /\ Verdict(p) \in [1..Len(p.orders) -> OrderAcks]
           /\ SettlesAs(Settlement(p), p, Verdict(p))
           /\ Unsettled(ledger, p, Verdict(p), OnTheWay, BurnSettled)
<1> DEFINE N == Len(p.orders)
           a == Verdict(p)
<1>1. Answered(p) /\ OwedOf(ledger, p)
    BY DEF IInv
<1>2. Refused \in OrderAcks /\ Refused.fill = "none"
    BY DEF OrderAcks, Refused
<1>3. a \in [1..N -> OrderAcks]
    BY <1>1, <1>2 DEF Verdict, Answered
<1>4. SettlesAs(Settlement(p), p, a)
    <2> SUFFICES ASSUME NEW S, NEW i \in 1..N
                 PROVE  HandleOrder(S, p, i, Settlement(p)) =
                            AcknowledgeTokenOrder(S, p.orders[i], a[i])
        BY DEF SettlesAs
    <2>1. CASE AcksOf(p) = <<>>
        <3>1. Settlement(p) = [on |-> "timeout"] /\ a[i] = Refused
            BY <2>1 DEF Settlement, Verdict
        <3>2. HandleOrder(S, p, i, [on |-> "timeout"]) = Refund(S, p.orders[i])
            BY DEF HandleOrder
        <3>3. AcknowledgeTokenOrder(S, p.orders[i], Refused) = Refund(S, p.orders[i])
            BY <1>2 DEF AcknowledgeTokenOrder
        <3> QED BY <3>1, <3>2, <3>3
    <2>2. CASE AcksOf(p) # <<>>
        <3> DEFINE call == [on |-> "acknowledge", answer |-> AcksOf(p)[1]]
        <3>1. Settlement(p) = call /\ a[i] = AcksOf(p)[1][i]
            BY <2>2 DEF Settlement, Verdict
        <3>2. HandleOrder(S, p, i, call) = AcknowledgeTokenOrder(S, p.orders[i], AcksOf(p)[1][i])
            BY DEF HandleOrder
        <3> QED BY <3>1, <3>2
    <2> QED BY <2>1, <2>2
<1>5. Unsettled(ledger, p, a, OnTheWay, BurnSettled)
    <2> SUFFICES ASSUME NEW i \in 1..N
                 PROVE  /\ <<p, i>> \in OnTheWay <=> a[i].fill # "protocol"
                        /\ <<p, i>> \notin BurnSettled /\ Owed(ledger, p.orders[i])
        BY DEF Unsettled
    <2>1. <<p, i>> \notin BurnSettled
        BY SlotsOf
    <2>2. <<p, i>> \in OnTheWay <=> ~(AcksOf(p) # <<>> /\ AcksOf(p)[1][i].fill = "protocol")
        BY SlotsOf
    <2>3. <<p, i>> \in OnTheWay <=> a[i].fill # "protocol"
        BY <1>2, <2>2 DEF Verdict
    <2> QED BY <1>1, <2>1, <2>3 DEF OwedOf
<1> QED BY <1>3, <1>4, <1>5

\* The answer that came back, or the timeout, settles the packet.
LEMMA SettleKept ==
    ASSUME IInv, NEW p \in Packets, Fate(p) = "sent",
           HandlePacket(ledger, p, Settlement(p)).status = "done",
           ledger' = HandlePacket(ledger, p, Settlement(p)).state,
           receipt' = receipt, DeliveryTypes', Concerns(p),
           outcome'[p.source][p] = IF AcksOf(p) = <<>> THEN "timedOut" ELSE "acked"
    PROVE  IInv'
<1> DEFINE N == Len(p.orders)
           a == Verdict(p)
           r == HandlePacket(ledger, p, Settlement(p))
<1>1. N \in Nat /\ Answered(p) /\ Sound(ledger) /\ BackedBy(ledger, OnTheWay, BurnSettled)
      /\ OwedOf(ledger, p)
    BY PacketSource DEF IInv
<1>2. /\ a \in [1..N -> OrderAcks] /\ SettlesAs(Settlement(p), p, a)
      /\ Unsettled(ledger, p, a, OnTheWay, BurnSettled)
    BY VerdictFacts
<1> HIDE DEF a
<1>3. Settled(ledger, r, OnTheWay \ Part(p, 1..N), BurnSettled \cup Part(p, Burnt(p, a, N)))
    BY <1>1, <1>2, SlotSets, SettlePacketSound
<1>4. /\ Sound(ledger') /\ Grows(ledger, ledger')
      /\ BackedBy(ledger', OnTheWay \ Part(p, 1..N), BurnSettled \cup Part(p, Burnt(p, a, N)))
    BY <1>3 DEF Settled
<1>5. OnTheWay' = OnTheWay \ Part(p, 1..N)
    <2> DEFINE A == OnTheWay'
               B == OnTheWay \ Part(p, 1..N)
    <2>1. A \in SUBSET Slots /\ B \in SUBSET Slots
        BY SlotSets, SlotSetsNext
    <2>2. \A s \in Slots : s[1] # p => (s \in A <=> s \in B)
        BY OtherSlots, PartsOfOthers
    <2>3. \A i \in 1..N : <<p, i>> \notin A /\ <<p, i>> \notin B
        BY SlotsOfNext, Parts
    <2> HIDE DEF A, B
    <2>4. A = B
        BY <2>1, <2>2, <2>3, SlotCases
    <2> QED BY <2>4 DEF A, B
<1>6. BurnSettled' = BurnSettled \cup Part(p, Burnt(p, a, N))
    <2> DEFINE A == BurnSettled'
               B == BurnSettled \cup Part(p, Burnt(p, a, N))
    <2>1. A \in SUBSET Slots /\ B \in SUBSET Slots
        <3>1. Burnt(p, a, N) \in SUBSET (1..N)
            BY DEF Burnt
        <3> QED BY <3>1, SlotSets, SlotSetsNext, PartsAreSlots
    <2>2. \A s \in Slots : s[1] # p => (s \in A <=> s \in B)
        BY OtherSlots, PartsOfOthers
    <2>3. ASSUME NEW i \in 1..N
          PROVE  <<p, i>> \in A <=> <<p, i>> \in B
        <3>1. <<p, i>> \in B <=> Burns(<<p, i>>, a[i])
            <4>1. <<p, i>> \notin BurnSettled
                BY SlotsOf
            <4>2. <<p, i>> \in Part(p, Burnt(p, a, N)) <=> i \in Burnt(p, a, N)
                BY Parts
            <4> QED BY <4>1, <4>2 DEF Burnt
        <3>2. <<p, i>> \in A <=> AcksOf(p) # <<>> /\ Burns(<<p, i>>, AcksOf(p)[1][i])
            BY SlotsOfNext DEF AcksOf
        <3>3. CASE AcksOf(p) = <<>>
            <4>1. a[i].fill = "none"
                BY <3>3 DEF a, Verdict, Refused
            <4> QED BY <3>1, <3>2, <3>3, <4>1 DEF Burns
        <3>4. CASE AcksOf(p) # <<>>
            BY <3>1, <3>2, <3>4 DEF a, Verdict
        <3> QED BY <3>3, <3>4
    <2> HIDE DEF A, B
    <2>4. A = B
        BY <2>1, <2>2, <2>3, SlotCases
    <2> QED BY <2>4 DEF A, B
<1>7. BackedBy(ledger', OnTheWay', BurnSettled')
    BY <1>4, <1>5, <1>6
<1>8. Answered(p)'
    <2>1. AcksOf(p) # <<>> => AcksOf(p)[1] \in [1..Len(p.orders) -> OrderAcks]
        BY <1>1 DEF Answered
    <2> QED BY <2>1 DEF Answered, Fate, AcksOf
<1>9. OwedOf(ledger', p)
    BY <1>1, <1>4, OwedKept DEF OwedOf
<1> QED BY <1>4, <1>7, <1>8, <1>9, StepKept

LEMMA AcknowledgementKept ==
    ASSUME IInv, NEW p \in Packets, OnAcknowledgementPacket(p)
    PROVE  IInv'
<1> DEFINE c == p.source
<1>1. /\ outcome[c][p] = "sent" /\ AcksOf(p) # <<>> /\ receipt' = receipt
      /\ outcome' = [outcome EXCEPT ![c] =
            [x \in Packets |-> IF x = p THEN "acked" ELSE outcome[c][x]]]
      /\ AcknowledgePacket(ledger, p, AcksOf(p)[1]).status = "done"
      /\ ledger' = AcknowledgePacket(ledger, p, AcksOf(p)[1]).state
    <2>1. /\ Delivery!Acknowledge(c, {p})
          /\ AcknowledgePacket(ledger, p, AcksOf(p)[1]).status = "done"
          /\ ledger' = AcknowledgePacket(ledger, p, AcksOf(p)[1]).state
        BY DEF OnAcknowledgementPacket, AcksOf
    <2>2. /\ outcome[c][p] = "sent" /\ AcksOf(p) # <<>> /\ receipt' = receipt
          /\ outcome' = [outcome EXCEPT ![c] =
                [x \in Packets |-> IF x = p THEN "acked" ELSE outcome[c][x]]]
        BY <2>1 DEF Delivery!Acknowledge, AcksOf
    <2> QED BY <2>1, <2>2
<1>2. c \in Chains /\ \A q \in Packets : q.source \in Chains
    BY PacketSource
<1>3. outcome \in [Chains -> [Packets -> {"unsent", "sent", "acked", "timedOut"}]]
    BY DEF IInv, DeliveryTypes
<1>4. outcome' \in [Chains -> [Packets -> {"unsent", "sent", "acked", "timedOut"}]]
    BY <1>1, <1>2, <1>3
<1>5. outcome'[c][p] = "acked"
    BY <1>1, <1>2, <1>3
<1>6. \A q \in Packets \ {p} : outcome'[q.source][q] = outcome[q.source][q]
    BY <1>1, <1>2, <1>3
<1>7. DeliveryTypes' /\ Concerns(p)
    BY <1>1, <1>4, <1>6 DEF IInv, DeliveryTypes, Concerns
<1>8. HandlePacket(ledger, p, Settlement(p)) = AcknowledgePacket(ledger, p, AcksOf(p)[1])
    BY <1>1 DEF Settlement, AcknowledgePacket
<1> QED BY <1>1, <1>5, <1>7, <1>8, SettleKept DEF Fate

LEMMA TimeoutKept ==
    ASSUME IInv, NEW p \in Packets, OnTimeoutPacket(p)
    PROVE  IInv'
<1> DEFINE c == p.source
<1>1. /\ outcome[c][p] = "sent" /\ AcksOf(p) = <<>> /\ receipt' = receipt
      /\ outcome' = [outcome EXCEPT ![c][p] = "timedOut"]
      /\ TimeoutPacket(ledger, p).status = "done"
      /\ ledger' = TimeoutPacket(ledger, p).state
    BY DEF OnTimeoutPacket, Delivery!Timeout, Delivery!Unreceived, AcksOf
<1>2. c \in Chains /\ \A q \in Packets : q.source \in Chains
    BY PacketSource
<1>3. outcome \in [Chains -> [Packets -> {"unsent", "sent", "acked", "timedOut"}]]
    BY DEF IInv, DeliveryTypes
<1>4. outcome' \in [Chains -> [Packets -> {"unsent", "sent", "acked", "timedOut"}]]
    BY <1>1, <1>2, <1>3
<1>5. outcome'[c][p] = "timedOut"
    BY <1>1, <1>2, <1>3
<1>6. \A q \in Packets \ {p} : outcome'[q.source][q] = outcome[q.source][q]
    BY <1>1, <1>2, <1>3
<1>7. DeliveryTypes' /\ Concerns(p)
    BY <1>1, <1>4, <1>6 DEF IInv, DeliveryTypes, Concerns
<1>8. HandlePacket(ledger, p, Settlement(p)) = TimeoutPacket(ledger, p)
    BY <1>1 DEF Settlement, TimeoutPacket
<1> QED BY <1>1, <1>5, <1>7, <1>8, SettleKept DEF Fate

\* Nothing but the ledgers changes.
LEMMA TransferKept ==
    ASSUME IInv, NEW d \in ledger.vouchers, NEW gift \in Gifts,
           VoucherTransfer(d, gift[1], gift[2], 1)
    PROVE  IInv'
<1>1. /\ CanTransfer(ledger, d, gift[1], gift[2], 1)
      /\ ledger' = Transfer(ledger, d, gift[1], gift[2], 1)
      /\ outcome' = outcome /\ receipt' = receipt
    BY DEF VoucherTransfer
<1>2. Sound(ledger) /\ BackedBy(ledger, OnTheWay, BurnSettled)
    BY DEF IInv
<1>3. d \in Denoms /\ gift[1] \in Accounts \ {Proxy} /\ 1 \in Nat
    BY <1>2, ActorsAssumption DEF Sound, Ledgers
<1>4. Sound(ledger') /\ Grows(ledger, ledger') /\ BackedBy(ledger', OnTheWay, BurnSettled)
    BY <1>1, <1>2, <1>3, TransferSound
<1>5. OnTheWay' = OnTheWay /\ BurnSettled' = BurnSettled
    BY <1>1 DEF OnTheWay, BurnSettled, Filled, Ack
<1>6. DeliveryTypes' /\ \A p \in Packets : Answered(p)'
    BY <1>1 DEF IInv, DeliveryTypes, Answered, Fate, AcksOf
<1>7. \A p \in Packets : Fate(p)' # "unsent" => OwedOf(ledger', p)
    BY <1>1, <1>2, <1>4, OwedKept DEF IInv, OwedOf, Fate
<1>8. BackedBy(ledger', OnTheWay', BurnSettled')
    BY <1>4, <1>5
<1> QED BY <1>4, <1>6, <1>7, <1>8 DEF IInv

LEMMA SumOfZeros ==
    ASSUME NEW S, IsFiniteSet(S), NEW f, f = [x \in S |-> 0]
    PROVE  SumFunction(f) = 0
<1>1. \A x \in S : f[x] \in Int /\ f[x] = 0
    OBVIOUS
<1> DEFINE T == {n \in Nat : \A t \in SUBSET S : Cardinality(t) = n => SumFunctionOnSet(f, t) = 0}
<1>2. 0 \in T
    BY SubsetCardinality, SumStep, FS_EmptySet
<1>3. ASSUME NEW n \in Nat, n \in T
      PROVE  n + 1 \in T
    <2>1. n + 1 \in Nat
        OBVIOUS
    <2> SUFFICES ASSUME NEW t \in SUBSET S, Cardinality(t) = n + 1
                 PROVE  SumFunctionOnSet(f, t) = 0
        BY <2>1, Zenon
    <2>2. IsFiniteSet(t) /\ t # {}
        BY SubsetCardinality
    <2>3. PICK x \in t : TRUE
        BY <2>2
    <2>4. Cardinality(t \ {x}) = n /\ t \ {x} \in SUBSET S
        BY SubsetCardinality
    <2>5. SumFunctionOnSet(f, t \ {x}) = 0
        BY <1>3, <2>4
    <2>6. SumFunctionOnSet(f, t) = f[x] + SumFunctionOnSet(f, t \ {x})
        BY <1>1, <2>2, SumTakeOut
    <2> QED BY <1>1, <2>5, <2>6
<1> HIDE DEF T
<1>4. Nat \subseteq T
    BY <1>2, <1>3, NatSetInduction
<1>5. SumFunctionOnSet(f, S) = 0
    <2>1. Cardinality(S) \in Nat
        BY FS_CardinalityType
    <2> QED BY <1>4, <2>1 DEF T
<1>6. DOMAIN f = S
    OBVIOUS
<1> QED BY <1>5, <1>6 DEF SumFunction

LEMMA InitKept ==
    ASSUME Init
    PROVE  IInv
<1> DEFINE L == ledger
<1>1. /\ outcome = [c \in Chains |-> [p \in Packets |-> "unsent"]]
      /\ receipt = [c \in Chains |-> [p \in Packets |-> [got |-> FALSE, acks |-> <<>>]]]
    BY DEF Init, Delivery!Init, Delivery!Unreceived
<1>2. L = [balance |-> [d \in Denoms |-> [h \in Accounts |->
                           IF d \in DOMAIN Endowment THEN Endowment[d][h] ELSE 0]],
           escrow |-> [k \in Denoms \X Denoms |-> 0],
           locked |-> [d \in Denoms |-> 0],
           vouchers |-> {}, deployed |-> {}]
    BY DEF Init
<1>3. \A p \in Packets : Fate(p) = "unsent" /\ AcksOf(p) = <<>>
    BY <1>1, PacketSource DEF Fate, AcksOf
<1>4. DeliveryTypes /\ \A p \in Packets : Answered(p)
    BY <1>1, <1>3 DEF DeliveryTypes, Answered
<1>5. IsFiniteSet(Denoms) /\ IsFiniteSet(Accounts) /\ Proxy \in Accounts /\ MaxInt64 \in Nat
    BY DenomsAssumption, TokenAssumption
<1>6. \A d \in DOMAIN Endowment :
          /\ d \in Denoms /\ ~IsIBCTokenDenom(d)
          /\ Endowment[d] \in [Accounts -> Nat] /\ SumFunction(Endowment[d]) <= MaxInt64
    BY ActorsAssumption
<1>7. /\ L.vouchers = {} /\ L.deployed = {} /\ \A d \in Denoms : L.locked[d] = 0
      /\ \A b, q \in Denoms : L.escrow[<<b, q>>] = 0
      /\ L.escrow \in [Denoms \X Denoms -> Nat] /\ L.locked \in [Denoms -> Nat]
    BY <1>2
<1>8. \A d \in Denoms :
          L.balance[d] = IF d \in DOMAIN Endowment THEN Endowment[d] ELSE [h \in Accounts |-> 0]
    <2> SUFFICES ASSUME NEW d \in Denoms
                 PROVE  L.balance[d] =
                            IF d \in DOMAIN Endowment THEN Endowment[d] ELSE [h \in Accounts |-> 0]
        OBVIOUS
    <2>1. L.balance[d] = [h \in Accounts |-> IF d \in DOMAIN Endowment THEN Endowment[d][h] ELSE 0]
        BY <1>2
    <2>2. CASE d \in DOMAIN Endowment
        <3>1. Endowment[d] = [h \in Accounts |-> Endowment[d][h]]
            BY <1>6, <2>2
        <3> QED BY <2>1, <2>2, <3>1
    <2>3. CASE d \notin DOMAIN Endowment
        BY <2>1, <2>3
    <2> QED BY <2>2, <2>3
<1>9. L \in Ledgers
    <2>1. \A d \in Denoms : L.balance[d] \in [Accounts -> Nat]
        BY <1>6, <1>8
    <2>2. L.balance \in [Denoms -> [Accounts -> Nat]]
        BY <1>2, <2>1
    <2> DEFINE B == [d \in Denoms |-> [h \in Accounts |->
                        IF d \in DOMAIN Endowment THEN Endowment[d][h] ELSE 0]]
    <2>3. L = [balance |-> B, escrow |-> [k \in Denoms \X Denoms |-> 0],
               locked |-> [d \in Denoms |-> 0], vouchers |-> {}, deployed |-> {}]
        BY <1>2
    <2>4. B \in [Denoms -> [Accounts -> Nat]]
        BY <2>2, <2>3
    <2> HIDE DEF B, L
    <2> QED BY <2>3, <2>4 DEF Ledgers
<1>10. \A d \in Denoms : /\ Supply(L, d) <= MaxInt64 /\ Escrowed(L, d) = 0
                         /\ IsIBCTokenDenom(d) => Supply(L, d) = 0
    <2> SUFFICES ASSUME NEW d \in Denoms
                 PROVE  /\ Supply(L, d) <= MaxInt64 /\ Escrowed(L, d) = 0
                        /\ IsIBCTokenDenom(d) => Supply(L, d) = 0
        OBVIOUS
    <2>1. [q \in Denoms |-> L.escrow[<<d, q>>]] = [q \in Denoms |-> 0]
        BY <1>7
    <2>2. Escrowed(L, d) = 0
        BY <1>5, <2>1, SumOfZeros DEF Escrowed
    <2>3. CASE d \in DOMAIN Endowment
        BY <1>6, <1>8, <2>2, <2>3 DEF Supply
    <2>4. CASE d \notin DOMAIN Endowment
        <3>1. L.balance[d] = [h \in Accounts |-> 0]
            BY <1>8, <2>4
        <3>2. Supply(L, d) = 0
            BY <1>5, <3>1, SumOfZeros DEF Supply
        <3> QED BY <1>5, <2>2, <3>2
    <2> QED BY <2>3, <2>4
<1> HIDE DEF L
<1>11. Sound(L)
    <2>1. Held(L)
        <3>1. \A d \in Denoms : L.balance[d][Proxy] \in Nat
            BY <1>9, ProxyTyped
        <3> QED BY <1>7, <1>10, <3>1 DEF Held
    <2>2. Recorded(L)
        BY <1>7, <1>10 DEF Recorded
    <2>3. SupplyBounded(L)
        BY <1>10 DEF SupplyBounded
    <2> QED BY <1>9, <2>1, <2>2, <2>3 DEF Sound
<1>12. OnTheWay = {} /\ BurnSettled = {}
    <2>1. \A s \in Slots : Fate(s[1]) = "unsent"
        BY <1>3, SlotFacts
    <2> QED BY <2>1 DEF OnTheWay, BurnSettled, Fate
<1>13. BackedBy(L, {}, {})
    <2> SUFFICES ASSUME NEW b \in Denoms, NEW q \in Denoms
                 PROVE  EscrowValue(L, b, q) = Way({}, b, q) +
                            (IF IsIBCTokenDenom(q) /\ Front(q) = b
                             THEN WrappedValue(L, q) + Gone({}, q) ELSE 0)
        BY DEF BackedBy
    <2>1. Total({}) = 0
        <3>1. IsFiniteSet({}) /\ [s \in {} |-> OrderAt(s).baseAmount] = [s \in {} |-> 0]
            BY FS_EmptySet
        <3> QED BY <3>1, SumOfZeros DEF Total
    <2>2. Way({}, b, q) = 0 /\ Gone({}, q) = 0
        <3>1. {s \in {} : KeyOf(s) = <<b, q>>} = {} /\ {s \in {} : OrderAt(s).base = q} = {}
            OBVIOUS
        <3> QED BY <2>1, <3>1 DEF Way, Gone
    <2>3. ScaleOf(L, b) = 1 /\ ScaleOf(L, q) = 1
        BY <1>7 DEF ScaleOf
    <2>4. EscrowValue(L, b, q) = 0
        BY <1>7, <2>3 DEF EscrowValue
    <2>5. IsIBCTokenDenom(q) => WrappedValue(L, q) = 0
        BY <1>10, <2>3 DEF WrappedValue
    <2> QED BY <2>2, <2>4, <2>5
<1> QED BY <1>3, <1>4, <1>11, <1>12, <1>13 DEF IInv, L

LEMMA NextKept ==
    ASSUME IInv, [Next]_tvars
    PROVE  IInv'
<1>1. ASSUME NEW p \in Packets, Send(p) PROVE IInv'
    BY <1>1, SendKept
<1>2. ASSUME NEW p \in Packets, OnAcknowledgementPacket(p) PROVE IInv'
    BY <1>2, AcknowledgementKept
<1>3. ASSUME NEW p \in Packets, OnTimeoutPacket(p) PROVE IInv'
    BY <1>3, TimeoutKept
<1>4. ASSUME NEW p \in Packets, NEW relayer \in Relayers, NEW relayerMsg \in RelayerMsgs,
             NEW limited \in SUBSET DOMAIN p.orders, NEW intent \in BOOLEAN,
             Receive(p, relayer, relayerMsg, limited, intent)
      PROVE  IInv'
    BY <1>4, ReceiveKept
<1>5. ASSUME NEW d \in ledger.vouchers, NEW gift \in Gifts,
             VoucherTransfer(d, gift[1], gift[2], 1)
      PROVE  IInv'
    BY <1>5, TransferKept
<1>6. CASE UNCHANGED tvars
    BY <1>6 DEF tvars, IInv, DeliveryTypes, Answered, Fate, AcksOf, OnTheWay, BurnSettled,
                Filled, Ack
<1> QED BY <1>1, <1>2, <1>3, <1>4, <1>5, <1>6, Zenon DEF Next

\* The inductive invariant of the token orders.
LEMMA Invariant ==
    Spec => []IInv
<1>1. Init => IInv
    BY InitKept
<1>2. IInv /\ [Next]_tvars => IInv'
    BY NextKept
<1> QED BY <1>1, <1>2, PTL DEF Spec

(***************************************************************************)
(* What the invariant says.                                                *)
(***************************************************************************)
\* Every packet has a known fate and at most one answer with an
\* acknowledgement per order, and no ledger, channel balance or locked amount
\* leaves its range: no mint, burn, escrow or release in token_order.gno
\* overflows an int64 or takes more than there is.
THEOREM TypesCorrect ==
    Spec => []TypeOK
<1>1. IInv => TypeOK
    <2> SUFFICES ASSUME IInv PROVE TypeOK
        OBVIOUS
    <2> DEFINE L == ledger
               R == [got : BOOLEAN, acks : {<<>>} \cup {<<a>> : a \in PacketAnswers}]
    <2>1. /\ outcome \in [Chains -> [Packets -> {"unsent", "sent", "acked", "timedOut"}]]
          /\ receipt \in [Chains -> [Packets -> R]]
        BY DEF IInv, DeliveryTypes
    <2>2. \A p \in Packets :
              /\ outcome[p.source][p] \in {"unsent", "sent", "acked", "timedOut"}
              /\ receipt[p.source][p] \in R
        BY <2>1, PacketSource
    <2>3. \A p \in Packets : receipt[p.source][p].acks \in {<<>>} \cup {<<a>> : a \in PacketAnswers}
        BY <2>2
    <2>4. L \in Ledgers /\ SupplyBounded(L) /\ Held(L)
        BY DEF IInv, Sound
    <2>5. MaxInt64 \in Nat /\ Proxy \in Accounts
        BY TokenAssumption
    <2>6. /\ L.balance \in [Denoms -> [Accounts -> Nat]] /\ L.escrow \in [Denoms \X Denoms -> Nat]
          /\ L.locked \in [Denoms -> Nat] /\ L.deployed \subseteq Denoms /\ L.vouchers \subseteq Denoms
        BY <2>4 DEF Ledgers
    <2> HIDE DEF L, R
    <2>7. \A d \in Denoms, h \in Accounts : L.balance[d][h] \in 0..MaxInt64
        <3> SUFFICES ASSUME NEW d \in Denoms, NEW h \in Accounts
                     PROVE  L.balance[d][h] \in 0..MaxInt64
            OBVIOUS
        <3>1. Supply(L, d) \in Nat /\ L.balance[d][h] <= Supply(L, d) /\ Supply(L, d) <= MaxInt64
            BY <2>4, Sums DEF SupplyBounded
        <3>2. L.balance[d][h] \in Nat
            BY <2>6
        <3> QED BY <2>5, <3>1, <3>2
    <2>8. \A d, q \in Denoms : L.escrow[<<d, q>>] \in 0..MaxInt64
        <3> SUFFICES ASSUME NEW d \in Denoms, NEW q \in Denoms
                     PROVE  L.escrow[<<d, q>>] \in 0..MaxInt64
            OBVIOUS
        <3>1. L.balance[d][Proxy] \in 0..MaxInt64
            BY <2>5, <2>7
        <3>2. L.escrow[<<d, q>>] <= Escrowed(L, d) /\ L.escrow[<<d, q>>] \in Nat
            BY <2>4, <2>6, Sums
        <3>3. L.balance[d][Proxy] >= L.locked[d] + Escrowed(L, d)
            BY <2>4 DEF Held
        <3>4. L.locked[d] \in Nat /\ Escrowed(L, d) \in Nat
            BY <2>4, ProxyTyped
        <3> QED BY <2>5, <3>1, <3>2, <3>3, <3>4
    <2>9. L.balance \in [Denoms -> [Accounts -> 0..MaxInt64]]
        <3>1. \A d \in Denoms : L.balance[d] \in [Accounts -> 0..MaxInt64]
            BY <2>6, <2>7
        <3> QED BY <2>6, <3>1
    <2>10. L.escrow \in [Denoms \X Denoms -> 0..MaxInt64]
        BY <2>6, <2>8
    <2> QED BY <2>2, <2>3, <2>6, <2>9, <2>10 DEF TypeOK, L
<1> QED BY <1>1, Invariant, PTL

\* The proxy always holds at least what the channel balances of a token and the
\* burn settlements that locked it add up to, whatever tokens, packets, makers
\* and relayers there are: IncreaseChannelBalance and DecreaseChannelBalance
\* move in step with the escrow and the releases of token_order.gno.
THEOREM CustodyKept ==
    Spec => []Custody
<1>1. IInv => Custody
    BY DEF IInv, Sound, Held, Escrowed, Custody
<1> QED BY <1>1, Invariant, PTL

\* Every channel balance is backed to the unit by the wrapped tokens that exist,
\* the orders on the way and those burned for good: no fill, refund, maker
\* payment or timeout of token_order.gno creates or loses value across the
\* channel, at whatever scale the two ledgers count.
THEOREM BackingKept ==
    Spec => []Backed
<1>1. IInv => Backed
    BY DEF IInv, BackedBy, Backed, Backing, EscrowValue, WrappedValue, Way, Gone
<1> QED BY <1>1, Invariant, PTL

\* Every wrapped token that somebody holds has its origin recorded: the refusal
\* of executeTokenOrderV2 to fill an ESCROW order into a token that was never
\* initialized keeps every voucher redeemable.
THEOREM RedeemableKept ==
    Spec => []Redeemable
<1>1. IInv => Redeemable
    BY DEF IInv, Sound, Recorded, Redeemable
<1> QED BY <1>1, Invariant, PTL

\* A packet on the way can always be settled: neither refundV2 nor
\* acknowledgeTokenOrderV2 can find the channel balance, the proxy's balance,
\* the voucher's room below int64 or its symbol wanting, whatever was sent,
\* filled and settled in between.
THEOREM SettlementPossible ==
    Spec => []Settleable
<1>1. IInv => Settleable
    <2> SUFFICES ASSUME IInv, NEW p \in Packets, outcome[p.source][p] = "sent", Payable(p)
                 PROVE  IF receipt[p.source][p].acks = <<>>
                        THEN TimeoutPacket(ledger, p).status = "done"
                        ELSE AcknowledgePacket(ledger, p, receipt[p.source][p].acks[1]).status
                                = "done"
        BY DEF Settleable
    <2> DEFINE a == Verdict(p)
               call == Settlement(p)
    <2>1. Fate(p) = "sent" /\ Sound(ledger) /\ BackedBy(ledger, OnTheWay, BurnSettled)
        BY DEF Fate, IInv
    <2>2. /\ a \in [1..Len(p.orders) -> OrderAcks] /\ SettlesAs(call, p, a)
          /\ Unsettled(ledger, p, a, OnTheWay, BurnSettled)
        BY <2>1, VerdictFacts
    <2>3. CanBePaid(p, a)
        <3> SUFFICES ASSUME NEW i \in 1..Len(p.orders)
                     PROVE  /\ p.orders[i].sender \in Accounts \ {Proxy}
                            /\ a[i].fill = "maker" => a[i].maker \in Accounts \ {Proxy}
            BY DEF CanBePaid
        <3>1. i \in DOMAIN p.orders
            BY PacketsAssumption
        <3>2. /\ p.orders[i].sender \in Accounts \ {Proxy}
              /\ Filled(p, i, "maker") => Ack(p, i).maker \in Accounts \ {Proxy}
            BY <3>1 DEF Payable
        <3>3. CASE AcksOf(p) = <<>>
            <4>1. a[i].fill = "none"
                BY <3>3 DEF Verdict, Refused
            <4> QED BY <3>2, <4>1
        <3>4. CASE AcksOf(p) # <<>>
            BY <3>2, <3>4 DEF Verdict, Filled, Ack, AcksOf
        <3> QED BY <3>3, <3>4
    <2> HIDE DEF a, call
    <2>4. HandlePacket(ledger, p, call).status = "done"
        BY <2>1, <2>2, <2>3, SlotSets, SettlePacketSound
    <2> QED BY <2>4 DEF call, Settlement, AcksOf, TimeoutPacket, AcknowledgePacket
<1> QED BY <1>1, Invariant, PTL

(***************************************************************************)
(* Packets move as the core promises.                                      *)
(***************************************************************************)
LEMMA ReceiveDelivers ==
    ASSUME IInv, NEW p \in Packets, NEW relayer \in Relayers, NEW relayerMsg \in RelayerMsgs,
           NEW limited, NEW intent \in BOOLEAN, Receive(p, relayer, relayerMsg, limited, intent)
    PROVE  Delivery!Next
<1> DEFINE c == p.source
           a == ExecutePacket(ledger, p, relayer, relayerMsg, limited, intent).ack
           answers == [x \in {p} |-> <<a>>]
<1>1. Delivery!Receive(c, {p}, answers)
    BY DEF Receive
<1>2. c \in Chains
    BY PacketSource
<1> HIDE DEF a
<1>3. receipt' = [receipt EXCEPT ![c] =
          [x \in Packets |-> IF x = p THEN [got |-> TRUE, acks |-> <<a>>] ELSE receipt[c][x]]]
    BY <1>1 DEF Delivery!Receive
<1>4. receipt'[c][p].acks = <<a>>
    <2>1. receipt \in [Chains ->
              [Packets -> [got : BOOLEAN, acks : {<<>>} \cup {<<b>> : b \in PacketAnswers}]]]
        BY DEF IInv, DeliveryTypes
    <2> QED BY <1>2, <1>3, <2>1
<1>5. <<a>> \in {<<>>} \cup {<<b>> : b \in PacketAnswers}
    <2>1. DeliveryTypes'
        BY ReceiveKept DEF IInv
    <2>2. receipt' \in [Chains ->
              [Packets -> [got : BOOLEAN, acks : {<<>>} \cup {<<b>> : b \in PacketAnswers}]]]
        BY <2>1 DEF DeliveryTypes
    <2>3. receipt'[c][p] \in [got : BOOLEAN, acks : {<<>>} \cup {<<b>> : b \in PacketAnswers}]
        BY <1>2, <2>2
    <2> QED BY <1>4, <2>3
<1>6. answers \in [{p} -> {<<>>} \cup {<<b>> : b \in PacketAnswers}] /\ {p} \in SUBSET Packets
    BY <1>5
<1> HIDE DEF answers
<1> QED BY <1>1, <1>2, <1>6, Zenon DEF Delivery!Next

LEMMA StepsDeliver ==
    ASSUME IInv, [Next]_tvars
    PROVE  [Delivery!Next]_(Delivery!dvars)
<1>1. \A p \in Packets : p.source \in Chains /\ {p} \in SUBSET Packets
    BY PacketSource
<1>2. ASSUME NEW p \in Packets, Send(p) PROVE Delivery!Next
    <2>1. Delivery!Send(p.source, p)
        BY <1>2 DEF Send
    <2> QED BY <1>1, <2>1, Zenon DEF Delivery!Next
<1>3. ASSUME NEW p \in Packets, OnAcknowledgementPacket(p) PROVE Delivery!Next
    <2>1. Delivery!Acknowledge(p.source, {p})
        BY <1>3 DEF OnAcknowledgementPacket
    <2> QED BY <1>1, <2>1, Zenon DEF Delivery!Next
<1>4. ASSUME NEW p \in Packets, OnTimeoutPacket(p) PROVE Delivery!Next
    <2>1. Delivery!Timeout(p.source, p)
        BY <1>4 DEF OnTimeoutPacket
    <2> QED BY <1>1, <2>1, Zenon DEF Delivery!Next
<1>5. ASSUME NEW p \in Packets, NEW relayer \in Relayers, NEW relayerMsg \in RelayerMsgs,
             NEW limited \in SUBSET DOMAIN p.orders, NEW intent \in BOOLEAN,
             Receive(p, relayer, relayerMsg, limited, intent)
      PROVE  Delivery!Next
    BY <1>5, ReceiveDelivers
<1>6. ASSUME NEW d \in ledger.vouchers, NEW gift \in Gifts,
             VoucherTransfer(d, gift[1], gift[2], 1)
      PROVE  UNCHANGED Delivery!dvars
    BY <1>6 DEF VoucherTransfer, Delivery!dvars
<1>7. CASE UNCHANGED tvars
    BY <1>7 DEF tvars, Delivery!dvars
<1> QED BY <1>2, <1>3, <1>4, <1>5, <1>6, <1>7, Zenon DEF Next

\* The application sees its packets only as PacketDelivery says, the promise
\* that CorePacket is shown to keep: every callback of this module happens at a
\* step of the core, with one answer for every packet received, and the
\* transfers of vouchers between accounts are none of the core's business.
THEOREM TokensDelivered ==
    Spec => Delivery!Spec
<1>1. Init => Delivery!Init
    BY DEF Init
<1>2. IInv /\ [Next]_tvars => [Delivery!Next]_(Delivery!dvars)
    BY StepsDeliver
<1> QED BY <1>1, <1>2, Invariant, PTL DEF Spec, Delivery!Spec

=============================================================================
