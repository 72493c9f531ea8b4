--------------------------- MODULE Administration ---------------------------
(***************************************************************************)
(* The administrators at work on a running system: the access manager, the *)
(* gates it keeps for the core and for the zkgm proxy (AssertCanCall), and *)
(* what they set there: the pause, the rate-limit switch and the bucket of *)
(* one denomination, which received token orders draw on.                  *)
(* The implementations of both proxies are installed.                      *)
(***************************************************************************)
EXTENDS AccessManager, TokenBucket

CONSTANTS
    Zkgm,                    \* the package path of the zkgm proxy
    PacketRecv, SetBucket, SetDisabled, Pause,   \* the selectors asked for
    Capacities, Rates,       \* what a bucket is configured with
    Amounts,                 \* the quote amounts of received orders
    MaxCalls                 \* bound: administrative calls explored

ASSUME AdministrationAssumption ==
    /\ Zkgm \in Targets
    /\ PacketRecv \in Selectors[Core]
    /\ {SetBucket, SetDisabled, Pause} \subseteq Selectors[Zkgm]
    /\ Capacities \subseteq Word /\ Rates \subseteq Word /\ Amounts \subseteq Word
    /\ MaxCalls \in Nat

VARIABLES
    paused,
    rateLimitDisabled,
    tokenBucket,     \* the bucket of the denomination
    \* What an auditor of the rate limit writes down.
    spentSince,      \* per second: the amounts charged since it began
    peak,            \* the largest capacity and rate configured so far
    calls            \* administrative calls so far

appVars == <<paused, rateLimitDisabled, tokenBucket, spentSince, peak>>
vars == <<accessVars, appVars, calls>>

Times == StartTime .. MaxTime

Init ==
    /\ AccessInit
    /\ paused = FALSE
    /\ rateLimitDisabled = TRUE
    /\ tokenBucket = NoBucket
    /\ spentSince = [s \in Times |-> 0]
    /\ peak = [capacity |-> 0, rate |-> 0]
    /\ calls = 0

SetBucketConfig(caller, capacity, refillRate) ==
    /\ CanCall(caller, Zkgm, SetBucket)
    /\ capacity # 0 /\ refillRate # 0
    /\ tokenBucket' = IF tokenBucket = NoBucket THEN New(capacity, refillRate, now)
                      ELSE Update(tokenBucket, capacity, refillRate, FALSE)
    /\ peak' = [capacity |-> IF capacity > peak.capacity THEN capacity ELSE peak.capacity,
                rate |-> IF refillRate > peak.rate THEN refillRate ELSE peak.rate]
    /\ UNCHANGED <<accessVars, paused, rateLimitDisabled, spentSince>>

SetRateLimitDisabled(caller, disabled) ==
    /\ CanCall(caller, Zkgm, SetDisabled)
    /\ rateLimitDisabled' = disabled
    /\ UNCHANGED <<accessVars, paused, tokenBucket, spentSince, peak>>

Pausable(caller, p) ==
    /\ CanCall(caller, Zkgm, Pause)
    /\ paused' = p
    /\ UNCHANGED <<accessVars, rateLimitDisabled, tokenBucket, spentSince, peak>>

\* A relayer delivers an order that the protocol fills: rateLimit, with a bucket
\* and the switch on.  Otherwise nothing is charged, or the order is refused.
ReceiveOrder(caller, amount) ==
    /\ CanCall(caller, Core, PacketRecv)
    /\ ~ paused
    /\ ~ rateLimitDisabled /\ tokenBucket # NoBucket
    /\ LET r == RateLimit(tokenBucket, amount, now)
       IN  /\ tokenBucket' = r.tb
           /\ spentSince' = [s \in Times |->
                                IF r.ok /\ s <= now THEN spentSince[s] + amount
                                ELSE spentSince[s]]
    /\ UNCHANGED <<accessVars, paused, rateLimitDisabled, peak>>

Administer(caller) ==
    /\ calls < MaxCalls
    /\ calls' = calls + 1
    /\ \/ AccessCall(caller) /\ UNCHANGED appVars
       \/ \E capacity \in Capacities, refillRate \in Rates :
              SetBucketConfig(caller, capacity, refillRate)
       \/ \E disabled \in BOOLEAN : SetRateLimitDisabled(caller, disabled)
       \/ \E p \in BOOLEAN : Pausable(caller, p)

Next ==
    \/ Tick /\ UNCHANGED <<appVars, calls>>
    \/ \E caller \in Accounts :
           \/ Administer(caller)
           \/ \E amount \in Amounts : ReceiveOrder(caller, amount) /\ UNCHANGED calls

Spec == Init /\ [][Next]_vars

-----------------------------------------------------------------------------
(* Properties *)

\* In every window of time, whatever it begins with and however the bucket was
\* reconfigured, the switch toggled and charges refused inside it: what was
\* charged, and what could be charged at once now, is at most the largest capacity
\* plus the largest rate for every second of the window (RateLimit, Refill, Update).
WindowBound ==
    \A s \in StartTime .. now :
        spentSince[s] + Refill(tokenBucket, now).Available
            <= peak.capacity + peak.rate * (now - s)
=============================================================================
