---------------------------- MODULE AccessManager ----------------------------
(***************************************************************************)
(* The access manager (p/onbloc/access/manager) inside the realm that owns *)
(* its one state (r/onbloc/ibc/union/access): roles with members, an       *)
(* administering role and a grant delay that changes only after a setback; *)
(* targets whose functions each want a role and which may be closed.       *)
(*                                                                         *)
(* A role or a target the maps do not hold reads as the configuration that *)
(* ensureRole or ensureTarget would create, so every role and every target *)
(* has an entry here.  A call that panics changes nothing: it is no step.  *)
(* Labels and events are left out.                                         *)
(***************************************************************************)
EXTENDS Integers

CONSTANTS
    Accounts,        \* the addresses that call
    InitialAdmin,    \* DefaultAdminAddress
    Roles,           \* the role ids in use
    AdminRole, PublicRole, RelayerRole,
    Targets,         \* the package paths of the realms that ask
    Core,            \* CoreRealmPath
    Selectors,       \* per target: the functions it asks about
    RelayerSelectors,
    Delays,          \* the delays SetGrantDelay is called with
    MinSetback,      \* seconds before any change of a delay takes effect
    StartTime,       \* the time of the block that deploys the realm
    MaxTime          \* bound: the last second explored

ASSUME AccessAssumption ==
    /\ InitialAdmin \in Accounts
    /\ {AdminRole, PublicRole, RelayerRole} \subseteq Roles
    /\ AdminRole # PublicRole /\ RelayerRole \notin {AdminRole, PublicRole}
    /\ Core \in Targets /\ RelayerSelectors \subseteq Selectors[Core]
    /\ Delays \subseteq Nat /\ MinSetback \in Nat
    /\ StartTime \in Nat \ {0} /\ MaxTime \in Nat /\ StartTime <= MaxTime

VARIABLES
    now,             \* block time, in seconds
    members,         \* per role and account: when the membership starts
    roleAdmin,       \* per role: the role that grants and revokes it
    grantDelay,      \* per role: its Delay
    functionRole,    \* per target and selector: the role it wants
    closed           \* the targets that reject every call

accessVars == <<now, members, roleAdmin, grantDelay, functionRole, closed>>

NotMember == -1

-----------------------------------------------------------------------------
(* Delay, delay.gno *)

Delay == [effectDate : Nat, valueBefore : Nat, valueAfter : Nat]

NewDelay(delay) == [effectDate |-> 0, valueBefore |-> 0, valueAfter |-> delay]

\* The value active at a time.
Get(d, timestamp) ==
    IF d.effectDate > timestamp THEN d.valueBefore ELSE d.valueAfter

\* Mutant: the setback does not grow with the cut.
WithUpdateMinSetback(d, timestamp, newDelay, minSetback) ==
    [effectDate |-> timestamp + minSetback,
     valueBefore |-> Get(d, timestamp), valueAfter |-> newDelay]

\* A change waits for the setback: MinSetback, or what the delay loses by it.
WithUpdate(d, timestamp, newDelay, minSetback) ==
    LET value == Get(d, timestamp)
        lost == value - newDelay
        setback == IF lost > minSetback THEN lost ELSE minSetback
    IN  [effectDate |-> timestamp + setback,
         valueBefore |-> value, valueAfter |-> newDelay]

-----------------------------------------------------------------------------
(* Memberships and what they allow, access.gno, state_role.gno, state.gno *)

NewAccessWithDelay(since, delay) == IF since = 0 THEN 0 ELSE since + delay

isActiveAt(since, t) == since > 0 /\ since <= t

HasRole(role, account) ==
    role = PublicRole \/ isActiveAt(members[role][account], now)

CanAdminRole(role, caller) == HasRole(roleAdmin[role], caller)

CanManageTarget(caller) == HasRole(AdminRole, caller)

CanCall(caller, target, selector) ==
    /\ target \notin closed
    /\ HasRole(functionRole[target][selector], caller)

\* Mutant: a membership that has not started counts as an administrator.
isLastMember(account) ==
    /\ isActiveAt(members[AdminRole][account], now)
    /\ \A member \in Accounts \ {account} : members[AdminRole][member] = NotMember

\* The only active administrator; a membership that starts later does not count.
isLastAdmin(account) ==
    /\ isActiveAt(members[AdminRole][account], now)
    /\ \A member \in Accounts \ {account} :
           ~ isActiveAt(members[AdminRole][member], now)

-----------------------------------------------------------------------------
(* The calls *)

\* init, resetAccess, setupRoles
AccessInit ==
    /\ now = StartTime
    /\ members = [role \in Roles |-> [account \in Accounts |->
                     IF role = AdminRole /\ account = InitialAdmin
                     THEN NewAccessWithDelay(StartTime, 0) ELSE NotMember]]
    /\ roleAdmin = [role \in Roles |-> AdminRole]
    /\ grantDelay = [role \in Roles |-> NewDelay(0)]
    /\ functionRole = [target \in Targets |-> [selector \in Selectors[target] |->
                          IF target = Core /\ selector \in RelayerSelectors
                          THEN RelayerRole ELSE AdminRole]]
    /\ closed = {}

\* Granting to a member, even one whose membership has not started, changes nothing.
GrantRole(caller, role, account) ==
    /\ CanAdminRole(role, caller)
    /\ role # PublicRole
    /\ members' = IF members[role][account] # NotMember THEN members
                  ELSE [members EXCEPT ![role][account] =
                           NewAccessWithDelay(now, Get(grantDelay[role], now))]
    /\ UNCHANGED <<now, roleAdmin, grantDelay, functionRole, closed>>

\* State.RevokeRole
Remove(role, account) ==
    /\ role # PublicRole
    /\ ~ (role = AdminRole /\ isLastAdmin(account))
    /\ members' = [members EXCEPT ![role][account] = NotMember]
    /\ UNCHANGED <<now, roleAdmin, grantDelay, functionRole, closed>>

RevokeRole(caller, role, account) ==
    CanAdminRole(role, caller) /\ Remove(role, account)

RenounceRole(caller, role, callerConfirmation) ==
    caller = callerConfirmation /\ Remove(role, caller)

SetRoleAdmin(caller, role, admin) ==
    /\ CanManageTarget(caller)
    /\ role \notin {AdminRole, PublicRole}
    /\ roleAdmin' = [roleAdmin EXCEPT ![role] = admin]
    /\ UNCHANGED <<now, members, grantDelay, functionRole, closed>>

SetGrantDelay(caller, role, newDelay) ==
    /\ CanManageTarget(caller)
    /\ role # PublicRole
    /\ grantDelay' = [grantDelay EXCEPT ![role] =
                         WithUpdate(@, now, newDelay, MinSetback)]
    /\ UNCHANGED <<now, members, roleAdmin, functionRole, closed>>

\* SetFunctionRole is the call for one selector.
SetFunctionRoles(caller, target, selectors, role) ==
    /\ CanManageTarget(caller)
    /\ functionRole' = [functionRole EXCEPT ![target] =
           [selector \in Selectors[target] |->
               IF selector \in selectors THEN role ELSE @[selector]]]
    /\ UNCHANGED <<now, members, roleAdmin, grantDelay, closed>>

SetTargetClosed(caller, target, isClosed) ==
    /\ CanManageTarget(caller)
    /\ closed' = IF isClosed THEN closed \cup {target} ELSE closed \ {target}
    /\ UNCHANGED <<now, members, roleAdmin, grantDelay, functionRole>>

\* A block of a later second.
Tick ==
    /\ now < MaxTime
    /\ now' = now + 1
    /\ UNCHANGED <<members, roleAdmin, grantDelay, functionRole, closed>>

AccessCall(caller) ==
    \/ \E role \in Roles, account \in Accounts :
           \/ GrantRole(caller, role, account)
           \/ RevokeRole(caller, role, account)
           \/ RenounceRole(caller, role, account)
    \/ \E role \in Roles, admin \in Roles : SetRoleAdmin(caller, role, admin)
    \/ \E role \in Roles, newDelay \in Delays : SetGrantDelay(caller, role, newDelay)
    \/ \E target \in Targets, role \in Roles :
           \E selectors \in SUBSET Selectors[target] :
               SetFunctionRoles(caller, target, selectors, role)
    \/ \E target \in Targets, isClosed \in BOOLEAN :
           SetTargetClosed(caller, target, isClosed)

-----------------------------------------------------------------------------
(* Properties *)

AccessTypeOK ==
    /\ now \in Nat /\ now >= StartTime
    /\ members \in [Roles -> [Accounts -> Nat \cup {NotMember}]]
    /\ roleAdmin \in [Roles -> Roles]
    /\ grantDelay \in [Roles -> Delay]
    /\ DOMAIN functionRole = Targets
    /\ \A target \in Targets : functionRole[target] \in [Selectors[target] -> Roles]
    /\ closed \subseteq Targets

\* There is an account whose administrator membership has started, after any
\* sequence of delayed grants, revocations and renouncements: the check in
\* RevokeRole (isLastAdmin) looks at one moment, and nothing else may undo it.
AdminStays == \E account \in Accounts : HasRole(AdminRole, account)

\* The first second at which somebody who is no member of a role now could be
\* an active one, if the delay of the role is left alone.
Earliest(role) ==
    LET d == grantDelay[role]
        early == now + d.valueBefore
        late == d.effectDate + d.valueAfter
    IN  IF d.effectDate > now THEN (IF early < late THEN early ELSE late)
        ELSE now + d.valueAfter

\* Nobody enters a role sooner than its delay announced: no call, change of the
\* delay inside an earlier change's setback included, brings forward the second
\* at which a newcomer can be active, and a membership that is granted starts no
\* sooner (WithUpdate, setGrantDelay, grant).
DelaysHold ==
    [][\A role \in Roles :
          /\ Earliest(role)' >= Earliest(role)
          /\ \A account \in Accounts :
                 \/ members'[role][account] = members[role][account]
                 \/ members'[role][account] = NotMember
                 \/ members[role][account] = NotMember
                    /\ members'[role][account] >= Earliest(role)]_accessVars
=============================================================================
