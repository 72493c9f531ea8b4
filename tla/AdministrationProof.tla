------------------------- MODULE AdministrationProof -------------------------
(***************************************************************************)
(* Proofs about Administration, for any accounts, roles, targets, delays,  *)
(* setback, capacities, rates, amounts, word width and number of calls.    *)
(***************************************************************************)
EXTENDS Administration, TLAPS

-----------------------------------------------------------------------------
(* The access manager *)

\* A change of a delay gives a delay.
LEMMA DelayType ==
    ASSUME NEW d \in Delay, NEW t \in Nat, NEW n \in Nat, NEW m \in Nat
    PROVE  Get(d, t) \in Nat /\ WithUpdate(d, t, n, m) \in Delay
<1>1. Get(d, t) \in Nat
  BY DEF Get, Delay
<1>2. d.valueBefore \in Nat /\ d.valueAfter \in Nat /\ d.effectDate \in Nat
  BY DEF Delay
<1> QED BY <1>1, <1>2 DEF WithUpdate, Delay

\* The state the realm is deployed with is of its type.
LEMMA AccessTypeInit == AccessInit => AccessTypeOK
<1> SUFFICES ASSUME AccessInit PROVE AccessTypeOK
  OBVIOUS
<1>1. now \in Nat /\ now >= StartTime /\ NewAccessWithDelay(StartTime, 0) \in Nat
  BY AccessAssumption DEF AccessInit, NewAccessWithDelay
<1>2. members \in [Roles -> [Accounts -> Nat \cup {NotMember}]]
  BY <1>1 DEF AccessInit
<1>3. roleAdmin \in [Roles -> Roles] /\ closed \subseteq Targets
  BY AccessAssumption DEF AccessInit
<1>4. grantDelay \in [Roles -> Delay]
  BY DEF AccessInit, NewDelay, Delay
<1>5. /\ DOMAIN functionRole = Targets
      /\ \A target \in Targets : functionRole[target] \in [Selectors[target] -> Roles]
  BY AccessAssumption DEF AccessInit
<1> QED BY <1>1, <1>2, <1>3, <1>4, <1>5 DEF AccessTypeOK

\* Removing a membership keeps the types.
LEMMA RemoveType ==
    ASSUME AccessTypeOK, NEW role \in Roles, NEW account \in Accounts,
           Remove(role, account)
    PROVE  AccessTypeOK'
BY DEF AccessTypeOK, Remove, NotMember

\* Every call keeps the types.
LEMMA AccessTypeCall ==
    ASSUME AccessTypeOK, NEW caller \in Accounts, AccessCall(caller)
    PROVE  AccessTypeOK'
<1>1. ASSUME NEW role \in Roles, NEW account \in Accounts,
             GrantRole(caller, role, account)
      PROVE  AccessTypeOK'
  <2>1. now \in Nat /\ Get(grantDelay[role], now) \in Nat
    BY DelayType DEF AccessTypeOK, Get, Delay
  <2>2. NewAccessWithDelay(now, Get(grantDelay[role], now)) \in Nat
    BY <2>1 DEF NewAccessWithDelay
  <2>3. members' \in [Roles -> [Accounts -> Nat \cup {NotMember}]]
    BY <1>1, <2>2 DEF GrantRole, AccessTypeOK
  <2> QED BY <1>1, <2>3 DEF GrantRole, AccessTypeOK
<1>2. ASSUME NEW role \in Roles, NEW account \in Accounts,
             RevokeRole(caller, role, account)
      PROVE  AccessTypeOK'
  BY <1>2, RemoveType DEF RevokeRole
<1>3. ASSUME NEW role \in Roles, NEW account \in Accounts,
             RenounceRole(caller, role, account)
      PROVE  AccessTypeOK'
  BY <1>3, RemoveType DEF RenounceRole
<1>4. ASSUME NEW role \in Roles, NEW admin \in Roles,
             SetRoleAdmin(caller, role, admin)
      PROVE  AccessTypeOK'
  BY <1>4 DEF SetRoleAdmin, AccessTypeOK
<1>5. ASSUME NEW role \in Roles, NEW newDelay \in Delays,
             SetGrantDelay(caller, role, newDelay)
      PROVE  AccessTypeOK'
  <2>1. WithUpdate(grantDelay[role], now, newDelay, MinSetback) \in Delay
    BY DelayType, AccessAssumption DEF AccessTypeOK
  <2> QED BY <1>5, <2>1 DEF SetGrantDelay, AccessTypeOK
<1>6. ASSUME NEW target \in Targets, NEW role \in Roles,
             NEW selectors \in SUBSET Selectors[target],
             SetFunctionRoles(caller, target, selectors, role)
      PROVE  AccessTypeOK'
  BY <1>6 DEF SetFunctionRoles, AccessTypeOK
<1>7. ASSUME NEW target \in Targets, NEW isClosed \in BOOLEAN,
             SetTargetClosed(caller, target, isClosed)
      PROVE  AccessTypeOK'
  BY <1>7 DEF SetTargetClosed, AccessTypeOK
<1> QED BY <1>1, <1>2, <1>3, <1>4, <1>5, <1>6, <1>7 DEF AccessCall

\* Every step is a call to the access realm, a second passing, or leaves its
\* state alone.
LEMMA AccessSteps ==
    ASSUME [Next]_vars
    PROVE  \/ \E caller \in Accounts : AccessCall(caller)
           \/ Tick
           \/ UNCHANGED accessVars
BY DEF Next, vars, Administer, SetBucketConfig, SetRateLimitDisabled, Pausable,
       ReceiveOrder

\* Every step keeps the types of the access manager.
LEMMA AccessTypeStep == AccessTypeOK /\ [Next]_vars => AccessTypeOK'
<1> SUFFICES ASSUME AccessTypeOK, [Next]_vars PROVE AccessTypeOK'
  OBVIOUS
<1>1. CASE Tick
  BY <1>1, AccessAssumption DEF Tick, AccessTypeOK
<1>2. CASE UNCHANGED accessVars
  BY <1>2 DEF accessVars, AccessTypeOK
<1> QED BY <1>1, <1>2, AccessSteps, AccessTypeCall

\* An active membership stays active until it is removed.
LEMMA AdminAfterRemove ==
    ASSUME AccessTypeOK, AdminStays, NEW role \in Roles, NEW account \in Accounts,
           Remove(role, account)
    PROVE  AdminStays'
<1>1. PICK a \in Accounts : isActiveAt(members[AdminRole][a], now)
  BY AccessAssumption DEF AdminStays, HasRole
<1>2. AdminRole \in Roles
  BY AccessAssumption
<1>3. ASSUME NEW b \in Accounts, isActiveAt(members[AdminRole][b], now),
             role # AdminRole \/ b # account
      PROVE  AdminStays'
  <2>1. members'[AdminRole][b] = members[AdminRole][b] /\ now' = now
    BY <1>2, <1>3 DEF Remove, AccessTypeOK
  <2> QED BY <1>3, <2>1 DEF AdminStays, HasRole, isActiveAt
<1>4. CASE role = AdminRole /\ a = account
  <2>1. PICK b \in Accounts \ {account} : isActiveAt(members[AdminRole][b], now)
    BY <1>1, <1>4 DEF Remove, isLastAdmin
  <2> QED BY <1>3, <2>1
<1> QED BY <1>1, <1>3, <1>4

\* Every step leaves an active administrator.
LEMMA AdminStep == AccessTypeOK /\ AdminStays /\ [Next]_vars => AdminStays'
<1> SUFFICES ASSUME AccessTypeOK, AdminStays, [Next]_vars PROVE AdminStays'
  OBVIOUS
<1>1. PICK a \in Accounts : isActiveAt(members[AdminRole][a], now)
  BY AccessAssumption DEF AdminStays, HasRole
<1>2. AdminRole \in Roles /\ members[AdminRole][a] \in Nat \cup {NotMember}
  BY AccessAssumption DEF AccessTypeOK
<1>3. CASE Tick
  BY <1>1, <1>2, <1>3 DEF Tick, AdminStays, HasRole, isActiveAt, AccessTypeOK, NotMember
<1>4. CASE UNCHANGED accessVars
  BY <1>1, <1>4 DEF accessVars, AdminStays, HasRole, isActiveAt
<1>5. ASSUME NEW caller \in Accounts, AccessCall(caller)
      PROVE  AdminStays'
  <2>1. ASSUME NEW role \in Roles, NEW account \in Accounts,
               GrantRole(caller, role, account)
        PROVE  AdminStays'
    <3>1. members[AdminRole][a] # NotMember
      BY <1>1 DEF isActiveAt, NotMember
    <3>2. members'[AdminRole][a] = members[AdminRole][a] /\ now' = now
      BY <1>2, <2>1, <3>1 DEF GrantRole, AccessTypeOK
    <3> QED BY <1>1, <3>2 DEF AdminStays, HasRole, isActiveAt
  <2>2. ASSUME NEW role \in Roles, NEW account \in Accounts,
               RevokeRole(caller, role, account) \/ RenounceRole(caller, role, account)
        PROVE  AdminStays'
    BY <2>2, AdminAfterRemove DEF RevokeRole, RenounceRole
  <2>3. CASE UNCHANGED <<now, members>>
    BY <1>1, <2>3 DEF AdminStays, HasRole, isActiveAt
  <2>4. \/ \E role \in Roles, account \in Accounts :
               \/ GrantRole(caller, role, account)
               \/ RevokeRole(caller, role, account)
               \/ RenounceRole(caller, role, account)
        \/ UNCHANGED <<now, members>>
    BY <1>5 DEF AccessCall, SetRoleAdmin, SetGrantDelay, SetFunctionRoles, SetTargetClosed
  <2> QED BY <2>1, <2>2, <2>3, <2>4
<1> QED BY <1>3, <1>4, <1>5, AccessSteps

\* The realm is deployed with an active administrator.
LEMMA AdminInit == AccessInit => AdminStays
BY AccessAssumption DEF AccessInit, AdminStays, HasRole, isActiveAt, NewAccessWithDelay

\* There is an active administrator in every state, whatever is granted with
\* whatever delay, revoked and renounced.
THEOREM AdminAlways == Spec => []AdminStays
<1>1. Init => AccessTypeOK /\ AdminStays
  BY AccessTypeInit, AdminInit DEF Init
<1>2. AccessTypeOK /\ AdminStays /\ [Next]_vars => (AccessTypeOK /\ AdminStays)'
  BY AccessTypeStep, AdminStep
<1> QED BY <1>1, <1>2, PTL DEF Spec

\* A role whose delay and clock stand still has the same Earliest.
LEMMA EarliestSame ==
    ASSUME NEW role \in Roles, AccessTypeOK,
           now' = now, grantDelay'[role] = grantDelay[role]
    PROVE  Earliest(role)' = Earliest(role) /\ Earliest(role) \in Nat
<1>1. grantDelay[role] \in Delay /\ now \in Nat
  BY DEF AccessTypeOK
<1> QED BY <1>1 DEF Earliest, Delay

\* Changing a delay does not bring Earliest forward: a change that cuts the delay
\* waits at least for what it cuts.
LEMMA EarliestUpdate ==
    ASSUME AccessTypeOK, NEW role \in Roles, NEW newDelay \in Delays,
           now' = now,
           grantDelay'[role] = WithUpdate(grantDelay[role], now, newDelay, MinSetback)
    PROVE  Earliest(role)' >= Earliest(role)
<1> DEFINE d == grantDelay[role]
           value == Get(d, now)
           e == grantDelay'[role]
<1>1. /\ d.effectDate \in Nat /\ d.valueBefore \in Nat /\ d.valueAfter \in Nat
      /\ now \in Nat /\ newDelay \in Nat /\ MinSetback \in Nat
  BY AccessAssumption DEF AccessTypeOK, Delay
<1>2. value \in Nat /\ Earliest(role) \in Nat /\ Earliest(role) <= now + value
  BY <1>1 DEF Get, Earliest
<1>3. /\ e.valueBefore = value /\ e.valueAfter = newDelay
      /\ e.effectDate \in Nat
      /\ e.effectDate + newDelay >= now + value
      /\ e.effectDate >= now
  <2> HIDE DEF value
  <2>1. CASE value - newDelay > MinSetback
    BY <1>1, <1>2, <2>1 DEF WithUpdate, value
  <2>2. CASE ~ (value - newDelay > MinSetback)
    BY <1>1, <1>2, <2>2 DEF WithUpdate, value
  <2> QED BY <2>1, <2>2
<1>4. Earliest(role)' =
        IF e.effectDate > now
        THEN (IF now + e.valueBefore < e.effectDate + e.valueAfter
              THEN now + e.valueBefore ELSE e.effectDate + e.valueAfter)
        ELSE now + e.valueAfter
  BY DEF Earliest
<1> HIDE DEF e, value
<1> QED BY <1>1, <1>2, <1>3, <1>4

\* Time alone does not bring Earliest forward.
LEMMA EarliestTick ==
    ASSUME AccessTypeOK, NEW role \in Roles, Tick
    PROVE  Earliest(role)' >= Earliest(role)
<1>1. grantDelay[role] \in Delay /\ now \in Nat /\ now' = now + 1
      /\ grantDelay' = grantDelay
  BY DEF Tick, AccessTypeOK
<1> QED BY <1>1 DEF Earliest, Delay

\* What DelaysHold says of a step, for one role.
RoleHolds(role) ==
    /\ Earliest(role)' >= Earliest(role)
    /\ \A account \in Accounts :
           \/ members'[role][account] = members[role][account]
           \/ members'[role][account] = NotMember
           \/ members[role][account] = NotMember
              /\ members'[role][account] >= Earliest(role)

\* No step brings an entry into a role forward.
LEMMA DelaysStep ==
    ASSUME AccessTypeOK, [Next]_vars, NEW role \in Roles
    PROVE  RoleHolds(role)
<1> DEFINE Same == members'[role] = members[role]
<1>0. ASSUME now' = now, grantDelay'[role] = grantDelay[role], Same
      PROVE  RoleHolds(role)
  BY <1>0, EarliestSame DEF RoleHolds
<1>1. CASE Tick
  BY <1>1, EarliestTick DEF RoleHolds, Tick
<1>2. CASE UNCHANGED accessVars
  BY <1>0, <1>2 DEF accessVars
<1>3. ASSUME NEW caller \in Accounts, AccessCall(caller)
      PROVE  RoleHolds(role)
  <2>1. ASSUME NEW r \in Roles, NEW account \in Accounts,
               GrantRole(caller, r, account)
        PROVE  RoleHolds(role)
    <3>1. now' = now /\ grantDelay' = grantDelay
      BY <2>1 DEF GrantRole
    <3>2. CASE members[r][account] # NotMember \/ r # role
      <4>1. Same
        BY <2>1, <3>2 DEF GrantRole, AccessTypeOK
      <4> QED BY <1>0, <3>1, <4>1
    <3>3. CASE members[r][account] = NotMember /\ r = role
      <4>1. grantDelay[role] \in Delay /\ now \in Nat \ {0}
        BY AccessAssumption DEF AccessTypeOK
      <4>2. /\ members'[role][account] = now + Get(grantDelay[role], now)
            /\ \A a \in Accounts \ {account} : members'[role][a] = members[role][a]
        BY <2>1, <3>3, <4>1 DEF GrantRole, AccessTypeOK, NewAccessWithDelay
      <4>3. members'[role][account] >= Earliest(role)
        BY <4>1, <4>2 DEF Get, Earliest, Delay
      <4>4. Earliest(role)' >= Earliest(role)
        BY <3>1, EarliestSame
      <4> QED BY <3>3, <4>2, <4>3, <4>4 DEF RoleHolds
    <3> QED BY <3>2, <3>3
  <2>2. ASSUME NEW r \in Roles, NEW account \in Accounts,
               RevokeRole(caller, r, account) \/ RenounceRole(caller, r, account)
        PROVE  RoleHolds(role)
    <3>1. PICK a \in Accounts : Remove(r, a)
      BY <2>2 DEF RevokeRole, RenounceRole
    <3>2. Earliest(role)' >= Earliest(role)
      BY <3>1, EarliestSame DEF Remove
    <3>3. \A b \in Accounts : \/ members'[role][b] = members[role][b]
                              \/ members'[role][b] = NotMember
      BY <3>1 DEF Remove, AccessTypeOK
    <3> QED BY <3>2, <3>3 DEF RoleHolds
  <2>3. ASSUME NEW r \in Roles, NEW newDelay \in Delays,
               SetGrantDelay(caller, r, newDelay)
        PROVE  RoleHolds(role)
    <3>1. now' = now /\ members' = members
      BY <2>3 DEF SetGrantDelay
    <3>2. CASE r = role
      <4>1. grantDelay'[role] = WithUpdate(grantDelay[role], now, newDelay, MinSetback)
        BY <2>3, <3>2 DEF SetGrantDelay, AccessTypeOK
      <4> QED BY <3>1, <4>1, EarliestUpdate DEF RoleHolds
    <3>3. CASE r # role
      BY <1>0, <2>3, <3>1, <3>3 DEF SetGrantDelay, AccessTypeOK
    <3> QED BY <3>2, <3>3
  <2>4. CASE UNCHANGED <<now, members, grantDelay>>
    BY <1>0, <2>4
  <2>5. \/ \E r \in Roles, account \in Accounts :
               \/ GrantRole(caller, r, account)
               \/ RevokeRole(caller, r, account)
               \/ RenounceRole(caller, r, account)
        \/ \E r \in Roles, newDelay \in Delays : SetGrantDelay(caller, r, newDelay)
        \/ UNCHANGED <<now, members, grantDelay>>
    BY <1>3 DEF AccessCall, SetRoleAdmin, SetFunctionRoles, SetTargetClosed
  <2> QED BY <2>1, <2>2, <2>3, <2>4, <2>5
<1> QED BY <1>1, <1>2, <1>3, AccessSteps

\* Nobody enters a role sooner than its delay announced, for any sequence of
\* changes of the delay.
THEOREM DelaysAlwaysHold == Spec => DelaysHold
<1>1. Init => AccessTypeOK
  BY AccessTypeInit DEF Init
<1>2. AccessTypeOK /\ [Next]_vars =>
        [\A role \in Roles :
          /\ Earliest(role)' >= Earliest(role)
          /\ \A account \in Accounts :
                 \/ members'[role][account] = members[role][account]
                 \/ members'[role][account] = NotMember
                 \/ members[role][account] = NotMember
                    /\ members'[role][account] >= Earliest(role)]_accessVars
  BY DelaysStep DEF RoleHolds
<1> QED BY <1>1, <1>2, AccessTypeStep, PTL DEF Spec, DelaysHold

-----------------------------------------------------------------------------
(* The rate limit *)

\* The part of the state the rate limit is about is of its type.
RateTypeOK ==
    /\ now \in Nat /\ now \in Times
    /\ tokenBucket \in Bucket
    /\ spentSince \in [Times -> Nat]
    /\ peak \in [capacity : Nat, rate : Nat]

\* The accounts of every window that had begun when the bucket was last refilled
\* balance at that second, and nothing was charged since.
Balanced ==
    /\ tokenBucket.LastRefill <= now
    /\ tokenBucket.Available <= peak.capacity
    /\ tokenBucket.Capacity <= peak.capacity
    /\ tokenBucket.RefillRate <= peak.rate
    /\ tokenBucket = NoBucket \/ tokenBucket.LastRefill > 0
    /\ \A s \in Times :
           IF s <= tokenBucket.LastRefill
           THEN spentSince[s] + tokenBucket.Available
                    <= peak.capacity + peak.rate * (tokenBucket.LastRefill - s)
           ELSE spentSince[s] = 0

RateInv == RateTypeOK /\ Balanced

\* Products of naturals are naturals, and grow with either factor.
LEMMA Products ==
    /\ \A a, b \in Nat : a * b \in Nat
    /\ \A a, b, x \in Nat : a <= b => a * x <= b * x
    /\ \A a, x, y \in Nat : a * x + a * y = a * (x + y)
<1>1. \A a, b \in Nat : a * b \in Nat
  OBVIOUS
<1>2. \A a, b, x \in Nat : a <= b => a * x <= b * x
  OBVIOUS
<1>3. \A a, x, y \in Nat : a * x + a * y = a * (x + y)
  OBVIOUS
<1> QED BY <1>1, <1>2, <1>3

\* A refill moves the clock, keeps within the capacity and adds at most the rate
\* for every second since the last one.
LEMMA RefillEffect ==
    ASSUME NEW tb \in Bucket, NEW t \in Nat, t >= tb.LastRefill
    PROVE  /\ Refill(tb, t) \in Bucket
           /\ Refill(tb, t).LastRefill = t
           /\ Refill(tb, t).Capacity = tb.Capacity
           /\ Refill(tb, t).RefillRate = tb.RefillRate
           /\ Refill(tb, t).Available <= tb.Available + tb.RefillRate * (t - tb.LastRefill)
           /\ \/ Refill(tb, t).Available = tb.Available
              \/ Refill(tb, t).Available <= tb.Capacity
<1> DEFINE r == Refill(tb, t)
           gain == tb.RefillRate * (t - tb.LastRefill)
<1>1. /\ tb.Capacity \in Word /\ tb.Available \in Word /\ tb.RefillRate \in Word
      /\ tb.LastRefill \in Nat /\ tb.Available \in Nat /\ tb.RefillRate \in Nat
      /\ MaxUint \in Nat /\ t - tb.LastRefill \in Nat
  BY MaxUintAssumption DEF Bucket, Word
<1>2. gain \in Nat
  BY <1>1, Products
<1>3. CASE t <= tb.LastRefill
  <2>1. r = tb /\ t = tb.LastRefill
    BY <1>1, <1>3 DEF Refill
  <2> QED BY <1>1, <1>2, <2>1
<1>4. CASE ~ (t <= tb.LastRefill) /\ tb.Available >= tb.Capacity
  <2>1. r = [tb EXCEPT !.LastRefill = t]
    BY <1>4 DEF Refill
  <2>2. /\ r \in Bucket /\ r.LastRefill = t /\ r.Capacity = tb.Capacity
        /\ r.RefillRate = tb.RefillRate /\ r.Available = tb.Available
    BY <2>1 DEF Bucket
  <2> QED BY <1>1, <1>2, <2>2
<1>5. CASE ~ (t <= tb.LastRefill) /\ ~ (tb.Available >= tb.Capacity)
  <2> DEFINE avail == least(tb.Capacity, saturatingAdd(tb.Available,
                          saturatingMul(tb.RefillRate, t - tb.LastRefill)))
  <2>1. saturatingMul(tb.RefillRate, t - tb.LastRefill) = saturated(gain)
    BY DEF saturatingMul
  <2>2. saturated(gain) \in Nat /\ saturated(gain) <= gain
    BY <1>1, <1>2 DEF saturated
  <2> HIDE DEF gain
  <2>3. /\ avail \in Word /\ avail <= tb.Capacity
        /\ avail <= tb.Available + gain
    BY <1>1, <1>2, <2>1, <2>2 DEF least, saturatingAdd, saturated, Word
  <2>4. r = [tb EXCEPT !.Available = avail, !.LastRefill = t]
    BY <1>5 DEF Refill
  <2> HIDE DEF avail, r
  <2>5. /\ r \in Bucket /\ r.LastRefill = t /\ r.Capacity = tb.Capacity
        /\ r.RefillRate = tb.RefillRate /\ r.Available = avail
    BY <2>3, <2>4 DEF Bucket
  <2> QED BY <2>3, <2>5 DEF r, gain
<1> QED BY <1>3, <1>4, <1>5

\* The bucket as refilled now balances at this second.
LEMMA RefillBalanced ==
    ASSUME RateInv
    PROVE  LET r == Refill(tokenBucket, now)
           IN  /\ r \in Bucket /\ r.LastRefill = now
               /\ r.Capacity = tokenBucket.Capacity
               /\ r.RefillRate = tokenBucket.RefillRate
               /\ r.Available \in Nat /\ r.Available <= peak.capacity
               /\ \A s \in Times : s <= now =>
                      spentSince[s] + r.Available
                          <= peak.capacity + peak.rate * (now - s)
<1> DEFINE r == Refill(tokenBucket, now)
           last == tokenBucket.LastRefill
<1>1. /\ tokenBucket \in Bucket /\ now \in Nat /\ last \in Nat /\ last <= now
      /\ tokenBucket.Available \in Nat /\ tokenBucket.RefillRate \in Nat
      /\ tokenBucket.Capacity \in Nat
      /\ peak.capacity \in Nat /\ peak.rate \in Nat
  BY MaxUintAssumption DEF RateInv, RateTypeOK, Balanced, Bucket, Word
<1>2. /\ r \in Bucket /\ r.LastRefill = now
      /\ r.Capacity = tokenBucket.Capacity /\ r.RefillRate = tokenBucket.RefillRate
      /\ r.Available <= tokenBucket.Available + tokenBucket.RefillRate * (now - last)
      /\ r.Available = tokenBucket.Available \/ r.Available <= tokenBucket.Capacity
  BY <1>1, RefillEffect
<1>3. r.Available \in Nat /\ r.Available <= peak.capacity
  BY <1>1, <1>2, MaxUintAssumption DEF RateInv, Balanced, Bucket, Word
<1>4. ASSUME NEW s \in Times, s <= now
      PROVE  spentSince[s] + r.Available <= peak.capacity + peak.rate * (now - s)
  <2>1. s \in Nat /\ spentSince[s] \in Nat /\ now - s \in Nat
    BY <1>1, <1>4, AccessAssumption DEF RateInv, RateTypeOK, Times
  <2>2. peak.rate * (now - s) \in Nat
    BY <1>1, <2>1, Products
  <2>3. CASE s > last
    <3>1. spentSince[s] = 0
      BY <1>1, <2>1, <2>3 DEF RateInv, Balanced
    <3> QED BY <1>1, <1>3, <2>2, <3>1
  <2>4. CASE s <= last
    <3>1. spentSince[s] + tokenBucket.Available
              <= peak.capacity + peak.rate * (last - s)
      BY <2>4 DEF RateInv, Balanced
    <3>2. /\ last - s \in Nat /\ now - last \in Nat
          /\ (last - s) + (now - last) = now - s
      BY <1>1, <2>1, <2>4
    <3>3. /\ tokenBucket.RefillRate * (now - last) \in Nat
          /\ peak.rate * (now - last) \in Nat /\ peak.rate * (last - s) \in Nat
      BY <1>1, <3>2, Products
    <3>4. tokenBucket.RefillRate * (now - last) <= peak.rate * (now - last)
      BY <1>1, <3>2, Products DEF RateInv, Balanced
    <3>5. peak.rate * (last - s) + peak.rate * (now - last) = peak.rate * (now - s)
      BY <1>1, <3>2, Products
    <3> QED BY <1>1, <1>2, <1>3, <2>1, <2>2, <3>1, <3>3, <3>4, <3>5
  <2> QED BY <1>1, <2>1, <2>3, <2>4
<1> QED BY <1>2, <1>3, <1>4

\* The balance is what the window property needs.
LEMMA RateImplies == RateInv => WindowBound
<1> SUFFICES ASSUME RateInv, NEW s \in StartTime .. now
             PROVE  spentSince[s] + Refill(tokenBucket, now).Available
                        <= peak.capacity + peak.rate * (now - s)
  BY DEF WindowBound
<1>1. s \in Times /\ s <= now
  BY AccessAssumption DEF RateInv, RateTypeOK, Times
<1> QED BY <1>1, RefillBalanced

\* No bucket, no charges.
LEMMA RateInit == Init => RateInv
<1> SUFFICES ASSUME Init PROVE RateInv
  OBVIOUS
<1>1. NoBucket \in Bucket
  BY MaxUintAssumption DEF NoBucket, Bucket, Word
<1>2. /\ now \in Nat /\ now \in Times /\ now > 0
      /\ peak.capacity = 0 /\ peak.rate = 0
      /\ spentSince \in [Times -> Nat] /\ peak \in [capacity : Nat, rate : Nat]
      /\ \A s \in Times : s \in Nat /\ s > 0 /\ spentSince[s] = 0
  BY AccessAssumption DEF Init, AccessInit, Times
<1>3. /\ tokenBucket = NoBucket /\ tokenBucket.LastRefill = 0
      /\ tokenBucket.Available = 0 /\ tokenBucket.Capacity = 0
      /\ tokenBucket.RefillRate = 0
  BY DEF Init, NoBucket
<1>4. \A s \in Times : ~ (s <= tokenBucket.LastRefill)
  BY <1>2, <1>3
<1> QED BY <1>1, <1>2, <1>3, <1>4 DEF RateInv, RateTypeOK, Balanced

\* Configuring the bucket keeps the balance: the peaks grow with what is
\* configured, and what is available stays.
LEMMA RateConfig ==
    ASSUME RateInv, NEW caller, NEW capacity \in Capacities, NEW refillRate \in Rates,
           SetBucketConfig(caller, capacity, refillRate)
    PROVE  RateInv'
<1> DEFINE tb == tokenBucket
<1>1. /\ tb \in Bucket /\ now \in Nat /\ now \in Times /\ now > 0
      /\ tb.LastRefill \in Nat
      /\ tb.Available \in Nat /\ tb.RefillRate \in Nat /\ tb.Capacity \in Nat
      /\ peak.capacity \in Nat /\ peak.rate \in Nat
      /\ capacity \in Word /\ refillRate \in Word
      /\ capacity \in Nat /\ refillRate \in Nat
  BY MaxUintAssumption, AccessAssumption, AdministrationAssumption
     DEF RateInv, RateTypeOK, Bucket, Word, Times
<1>2. /\ peak' \in [capacity : Nat, rate : Nat]
      /\ peak'.capacity >= peak.capacity /\ peak'.capacity >= capacity
      /\ peak'.rate >= peak.rate /\ peak'.rate >= refillRate
      /\ peak'.capacity \in Nat /\ peak'.rate \in Nat
  BY <1>1 DEF SetBucketConfig
<1>3. now' = now /\ spentSince' = spentSince /\ spentSince \in [Times -> Nat]
  BY DEF SetBucketConfig, accessVars, RateInv, RateTypeOK
<1>4. CASE tokenBucket = NoBucket
  <2>1. tokenBucket' = New(capacity, refillRate, now)
    BY <1>4 DEF SetBucketConfig
  <2>2. /\ tokenBucket' \in Bucket /\ tokenBucket'.LastRefill = now
        /\ tokenBucket'.Available = capacity /\ tokenBucket'.Capacity = capacity
        /\ tokenBucket'.RefillRate = refillRate
    BY <1>1, <2>1 DEF New, Bucket
  <2>3. ASSUME NEW s \in Times
        PROVE  s \in Nat /\ spentSince[s] = 0
    BY <1>4, AccessAssumption DEF RateInv, Balanced, NoBucket, Times
  <2>4. ASSUME NEW s \in Times, s <= now
        PROVE  spentSince[s] + capacity <= peak'.capacity + peak'.rate * (now - s)
    <3>1. now - s \in Nat /\ peak'.rate * (now - s) \in Nat
      BY <1>1, <1>2, <2>3, <2>4, Products
    <3> QED BY <1>1, <1>2, <2>3, <3>1
  <2>5. RateTypeOK'
    BY <1>1, <1>2, <1>3, <2>2 DEF RateTypeOK, Times
  <2>6. ASSUME NEW s \in Times
        PROVE  IF s <= tokenBucket'.LastRefill
               THEN spentSince'[s] + tokenBucket'.Available
                   <= peak'.capacity + peak'.rate * (tokenBucket'.LastRefill - s)
               ELSE spentSince'[s] = 0
    BY <1>3, <2>2, <2>3, <2>4
  <2>7. /\ tokenBucket'.LastRefill <= now' /\ tokenBucket'.LastRefill > 0
        /\ tokenBucket'.Available <= peak'.capacity
        /\ tokenBucket'.Capacity <= peak'.capacity
        /\ tokenBucket'.RefillRate <= peak'.rate
    BY <1>1, <1>2, <1>3, <2>2
  <2> QED BY <2>5, <2>6, <2>7 DEF RateInv, Balanced, Times
<1>5. CASE tokenBucket # NoBucket
  <2>1. tb.LastRefill > 0
    BY <1>5 DEF RateInv, Balanced
  <2>2. /\ tokenBucket' = Update(tb, capacity, refillRate, FALSE)
        /\ tb.LastRefill # 0
    BY <1>1, <1>5, <2>1 DEF SetBucketConfig
  <2>3. /\ tokenBucket' \in Bucket /\ tokenBucket'.LastRefill = tb.LastRefill
        /\ tokenBucket'.Available = tb.Available /\ tokenBucket'.Capacity = capacity
        /\ tokenBucket'.RefillRate = refillRate
    BY <1>1, <2>2 DEF Bucket, Update
  <2>4. ASSUME NEW s \in Times, s <= tb.LastRefill
        PROVE  spentSince[s] + tb.Available
                   <= peak'.capacity + peak'.rate * (tb.LastRefill - s)
    <3>1. s \in Nat /\ spentSince[s] \in Nat /\ tb.LastRefill - s \in Nat
      BY <1>1, <1>3, <2>4, AccessAssumption DEF Times
    <3>2. /\ peak.rate * (tb.LastRefill - s) \in Nat
          /\ peak'.rate * (tb.LastRefill - s) \in Nat
          /\ peak.rate * (tb.LastRefill - s) <= peak'.rate * (tb.LastRefill - s)
      BY <1>1, <1>2, <3>1, Products
    <3>3. spentSince[s] + tb.Available
              <= peak.capacity + peak.rate * (tb.LastRefill - s)
      BY <2>4 DEF RateInv, Balanced
    <3> QED BY <1>1, <1>2, <3>1, <3>2, <3>3
  <2>5. \A s \in Times : ~ (s <= tb.LastRefill) => spentSince[s] = 0
    BY DEF RateInv, Balanced
  <2>6. tb.LastRefill <= now /\ tb.Available <= peak'.capacity
    BY <1>1, <1>2 DEF RateInv, Balanced
  <2> QED BY <1>1, <1>2, <1>3, <2>1, <2>3, <2>4, <2>5, <2>6
          DEF RateInv, RateTypeOK, Balanced
<1> QED BY <1>4, <1>5

\* A charge moves an amount from the bucket to every window that has begun.
LEMMA RateCharge ==
    ASSUME RateInv, NEW caller, NEW amount \in Amounts, ReceiveOrder(caller, amount)
    PROVE  RateInv'
<1> DEFINE r == Refill(tokenBucket, now)
<1>1. /\ now \in Nat /\ now \in Times /\ now > 0 /\ amount \in Nat
      /\ peak.capacity \in Nat /\ peak.rate \in Nat
      /\ peak \in [capacity : Nat, rate : Nat]
      /\ spentSince \in [Times -> Nat]
      /\ \A s \in Times : s \in Nat
      /\ now' = now /\ peak' = peak
  BY AccessAssumption, AdministrationAssumption
     DEF RateInv, RateTypeOK, Word, Times, ReceiveOrder, accessVars
<1>2. /\ r \in Bucket /\ r.LastRefill = now
      /\ r.Capacity = tokenBucket.Capacity /\ r.RefillRate = tokenBucket.RefillRate
      /\ r.Available \in Nat /\ r.Available <= peak.capacity
      /\ \A s \in Times : s <= now =>
             spentSince[s] + r.Available <= peak.capacity + peak.rate * (now - s)
  BY RefillBalanced
<1>3. /\ r.Capacity <= peak.capacity /\ r.RefillRate <= peak.rate
      /\ tokenBucket.LastRefill \in Nat /\ tokenBucket.LastRefill <= now
      /\ \A s \in Times : ~ (s <= now) => spentSince[s] = 0
  BY <1>1, <1>2 DEF RateInv, RateTypeOK, Balanced, Bucket
<1> HIDE DEF r
<1>4. CASE amount = 0
  <2>1. tokenBucket' = tokenBucket
    BY <1>4 DEF ReceiveOrder, RateLimit
  <2>2. \A s \in Times : spentSince'[s] = spentSince[s]
    BY <1>1, <1>4 DEF ReceiveOrder
  <2>3. spentSince' = spentSince
    BY <1>1, <2>2 DEF ReceiveOrder
  <2> QED BY <1>1, <2>1, <2>3 DEF RateInv, RateTypeOK, Balanced
<1>5. CASE amount # 0 /\ amount <= r.Available
  <2>1. /\ tokenBucket' = [r EXCEPT !.Available = r.Available - amount]
        /\ spentSince' = [s \in Times |-> IF s <= now THEN spentSince[s] + amount
                                          ELSE spentSince[s]]
    BY <1>5 DEF ReceiveOrder, RateLimit, r
  <2>2. r.Available - amount \in Word
    BY <1>1, <1>2, <1>5, MaxUintAssumption DEF Bucket, Word
  <2>3. /\ tokenBucket' \in Bucket /\ tokenBucket'.LastRefill = now
        /\ tokenBucket'.Available = r.Available - amount
        /\ tokenBucket'.Capacity = r.Capacity
        /\ tokenBucket'.RefillRate = r.RefillRate
    BY <1>2, <2>1, <2>2 DEF Bucket
  <2>4. ASSUME NEW s \in Times, s <= now
        PROVE  spentSince'[s] + (r.Available - amount)
                   <= peak.capacity + peak.rate * (now - s)
    <3>1. spentSince'[s] = spentSince[s] + amount /\ spentSince[s] \in Nat
      BY <1>1, <2>1, <2>4
    <3>2. spentSince[s] + r.Available <= peak.capacity + peak.rate * (now - s)
      BY <1>2, <2>4
    <3>3. spentSince'[s] + (r.Available - amount) = spentSince[s] + r.Available
      BY <1>1, <1>2, <3>1
    <3> QED BY <3>2, <3>3
  <2>5. \A s \in Times : ~ (s <= now) => spentSince'[s] = 0
    BY <1>3, <2>1
  <2>6. spentSince' \in [Times -> Nat]
    BY <1>1, <2>1
  <2>7. r.Available - amount <= peak.capacity
    BY <1>1, <1>2
  <2> QED BY <1>1, <1>3, <2>3, <2>4, <2>5, <2>6, <2>7 DEF RateInv, RateTypeOK, Balanced
<1>6. CASE amount # 0 /\ ~ (amount <= r.Available)
  <2>1. /\ tokenBucket' = r
        /\ spentSince' = [s \in Times |-> spentSince[s]]
    BY <1>6 DEF ReceiveOrder, RateLimit, r
  <2>2. spentSince' = spentSince
    BY <1>1, <2>1
  <2> QED BY <1>1, <1>2, <1>3, <2>1, <2>2 DEF RateInv, RateTypeOK, Balanced
<1> QED BY <1>4, <1>5, <1>6

\* Every step keeps the balance.
LEMMA RateStep == RateInv /\ [Next]_vars => RateInv'
<1> SUFFICES ASSUME RateInv, [Next]_vars PROVE RateInv'
  OBVIOUS
<1>1. CASE UNCHANGED <<now, tokenBucket, spentSince, peak>>
  BY <1>1 DEF RateInv, RateTypeOK, Balanced
<1>2. CASE Tick /\ UNCHANGED appVars
  <2>1. /\ now \in Nat /\ now' = now + 1 /\ now' \in Times /\ now' \in Nat
        /\ UNCHANGED <<tokenBucket, spentSince, peak>>
    BY <1>2, AccessAssumption DEF Tick, appVars, RateInv, RateTypeOK, Times
  <2>2. tokenBucket.LastRefill \in Nat
    BY DEF RateInv, RateTypeOK, Bucket
  <2> QED BY <2>1, <2>2 DEF RateInv, RateTypeOK, Balanced
<1>3. \/ UNCHANGED <<now, tokenBucket, spentSince, peak>>
      \/ Tick /\ UNCHANGED appVars
      \/ \E caller \in Accounts, capacity \in Capacities, refillRate \in Rates :
             SetBucketConfig(caller, capacity, refillRate)
      \/ \E caller \in Accounts, amount \in Amounts : ReceiveOrder(caller, amount)
  BY DEF Next, vars, Administer, AccessCall, GrantRole, RevokeRole, RenounceRole, Remove,
         SetRoleAdmin, SetGrantDelay, SetFunctionRoles, SetTargetClosed,
         SetRateLimitDisabled, Pausable, accessVars, appVars
<1> QED BY <1>1, <1>2, <1>3, RateConfig, RateCharge

\* In every window of time the charges are within the largest capacity plus the
\* largest rate for each of its seconds, for any configuration and any charges.
THEOREM WindowAlwaysBounded == Spec => []WindowBound
BY RateInit, RateStep, RateImplies, PTL DEF Spec
=============================================================================
