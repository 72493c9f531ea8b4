----------------------------- MODULE TokenBucket -----------------------------
(***************************************************************************)
(* The rate-limit bucket of a denomination (p/.../zkgm/tokenbucket).       *)
(* Amounts are unsigned words of a fixed width: MaxUint is the largest.    *)
(* A bucket that does not exist is NoBucket.                               *)
(***************************************************************************)
EXTENDS Integers

CONSTANT MaxUint

ASSUME MaxUintAssumption == MaxUint \in Nat

Word == 0 .. MaxUint

Bucket == [Capacity : Word, Available : Word, RefillRate : Word, LastRefill : Nat]

NoBucket == [Capacity |-> 0, Available |-> 0, RefillRate |-> 0, LastRefill |-> 0]

saturated(z) == IF z > MaxUint THEN MaxUint ELSE z

saturatingAdd(x, y) == saturated(x + y)

saturatingMul(x, y) == saturated(x * y)

least(x, y) == IF x <= y THEN x ELSE y

New(capacity, refillRate, t) ==
    [Capacity |-> capacity, Available |-> capacity,
     RefillRate |-> refillRate, LastRefill |-> t]

\* Mutant: a full bucket does not move its clock.
RefillFullUnstamped(tb, t) ==
    IF t <= tb.LastRefill \/ tb.Available >= tb.Capacity THEN tb
    ELSE [tb EXCEPT
             !.Available = least(tb.Capacity, saturatingAdd(tb.Available,
                               saturatingMul(tb.RefillRate, t - tb.LastRefill))),
             !.LastRefill = t]

\* A full bucket, or one above a capacity that was lowered, only moves its clock.
Refill(tb, t) ==
    IF t <= tb.LastRefill THEN tb
    ELSE IF tb.Available >= tb.Capacity THEN [tb EXCEPT !.LastRefill = t]
    ELSE [tb EXCEPT
             !.Available = least(tb.Capacity, saturatingAdd(tb.Available,
                               saturatingMul(tb.RefillRate, t - tb.LastRefill))),
             !.LastRefill = t]

\* A charge of nothing does not even refill; a refused one refills.
RateLimit(tb, amount, t) ==
    LET refilled == Refill(tb, t)
        enough == amount <= refilled.Available
    IN  IF amount = 0 THEN [tb |-> tb, ok |-> TRUE]
        ELSE [tb |-> IF enough
                     THEN [refilled EXCEPT !.Available = @ - amount] ELSE refilled,
              ok |-> enough]

\* The new rate also applies to the seconds not refilled yet; an amount above the
\* new capacity stays available.
Update(tb, capacity, refillRate, reset) ==
    [tb EXCEPT !.Capacity = capacity, !.RefillRate = refillRate,
               !.Available = IF tb.LastRefill = 0 \/ reset THEN capacity ELSE @]
=============================================================================
