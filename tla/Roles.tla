------------------------------- MODULE Roles -------------------------------
(***************************************************************************)
(* Accounts, roles and invitations (roles.service.ts, roles.repository.ts). *)
(* Every change of access runs under withAccessLock: a queue inside each    *)
(* instance, then a PostgreSQL advisory lock on a connection reserved from  *)
(* the very pool that the change's own statements use.  The first           *)
(* administrator is created outside that lock.                             *)
(*                                                                         *)
(* Permissions on agents are those on one agent.  Whether the name of a     *)
(* user or of a role is taken is left open: a creation may be refused.      *)
(***************************************************************************)
EXTENDS Integers, FiniteSets, Sequences

CONSTANTS
    Users, Roles, Invitations,
    Requests,    \* concurrent requests
    Instances,   \* API processes
    GlobalSets,  \* sets of global permissions a request may ask for
    AgentSets,   \* sets of permissions on the agent a request may ask for
    DefaultRole, \* the role that is never deleted
    Founder, Manager, \* the users of a deployment that is already staffed
    PoolSize,    \* database connections of an instance
    MaxRequests, \* bound on requests
    MaxFaults,   \* bound on failing statements
    MaxCrashes,  \* bound on process deaths
    None

GlobalPermissions == {"users:read", "users:manage", "roles:manage"}
AgentPermissions  == {"agents:read", "agents:manage"}
Grantable         == GlobalPermissions \cup AgentPermissions

ASSUME RolesAssumption ==
    /\ GlobalSets \subseteq SUBSET GlobalPermissions
    /\ AgentSets \subseteq SUBSET AgentPermissions
    /\ DefaultRole \in Roles
    /\ Founder \in Users /\ Manager \in Users /\ Founder # Manager
    /\ PoolSize \in Nat \ {0, 1}
    /\ MaxRequests \in Nat /\ MaxFaults \in Nat /\ MaxCrashes \in Nat
    /\ None \notin Users \cup Roles \cup Invitations \cup Requests

VARIABLES
    account,    \* the state of each user's row
    admins,     \* users with the admin grant
    resetting,  \* users who must change their password first
    roleRow,    \* the state of each role's row
    grants,     \* the permissions stored for each role
    member,     \* the roles of each user
    invitation, \* each invitation's row
    request,    \* what each request asks and the step it has reached
    queue,      \* accessChanges: the changes each instance has lined up
    lock,       \* the request that holds the advisory lock
    complete,   \* history: accounts whose creation was seen through
    left        \* what remains of the bounds

vars == <<account, admins, resetting, roleRow, grants, member, invitation,
          request, queue, lock, complete, left>>

Ops   == {"createRole", "updateRole", "setAccess", "deleteRole", "assign",
          "reset", "remove", "leave", "invite", "redeem", "bootstrap"}
Steps == {"queued", "locking", "check", "write", "claim", "validate", "create",
          "attach", "drop", "unclaim", "unlock", "look", "found", "grant", "undo"}
RowStates  == {"unused", "there", "deleted"}
Invitation == [status : {"unused", "open", "claimed", "gone"}, by : Users \cup {None},
               roles : SUBSET Roles, uses : Nat]
Request == [op : Ops, by : Users \cup {None},
            on : Users \cup Roles \cup Invitations \cup {None},
            give : (SUBSET Roles) \cup (SUBSET Grantable),
            new : Users \cup {None}, at : Instances, step : Steps]

ASSUME NoneAssumption == None \notin Request

TypeOK ==
    /\ account \in [Users -> RowStates] /\ roleRow \in [Roles -> RowStates]
    /\ admins \subseteq Users /\ resetting \subseteq Users /\ complete \subseteq Users
    /\ grants \in [Roles -> SUBSET Grantable]
    /\ member \in [Users -> SUBSET Roles]
    /\ invitation \in [Invitations -> Invitation]
    /\ request \in [Requests -> Request \cup {None}]
    /\ queue \in [Instances -> Seq(Requests)]
    /\ lock \in Requests \cup {None}
    /\ left \in [requests : 0..MaxRequests, faults : 0..MaxFaults, crashes : 0..MaxCrashes]

NoInvitation == [status |-> "unused", by |-> None, roles |-> {}, uses |-> 0]

\* A deployment is set up from nothing, or found with an administrator and a
\* manager who holds the default role.
Init ==
    /\ \E staff \in {{}, {Founder, Manager}} :
        /\ account = [u \in Users |-> IF u \in staff THEN "there" ELSE "unused"]
        /\ admins = staff \cap {Founder}
        /\ member = [u \in Users |-> IF u \in staff \cap {Manager} THEN {DefaultRole} ELSE {}]
        /\ complete = staff
    /\ roleRow = [r \in Roles |-> IF r = DefaultRole THEN "there" ELSE "unused"]
    /\ grants = [r \in Roles |->
                    IF r = DefaultRole THEN {"users:manage", "roles:manage"} ELSE {}]
    /\ resetting = {}
    /\ invitation = [v \in Invitations |-> NoInvitation]
    /\ request = [q \in Requests |-> None]
    /\ queue = [i \in Instances |-> <<>>]
    /\ lock = None
    /\ left = [requests |-> MaxRequests, faults |-> MaxFaults, crashes |-> MaxCrashes]

-----------------------------------------------------------------------------
(* What a user may do.                                                     *)

ImpliedBy(p) ==
    CASE p \in {"users:manage", "roles:manage"} -> {"users:read"}
      [] p = "agents:manage" -> {"agents:read"}
      [] OTHER -> {}

Expand(S) == S \cup UNION {ImpliedBy(p) : p \in S}

Effective(u) ==
    IF u \in admins THEN Grantable \cup {"admin"}
                    ELSE Expand(UNION {grants[r] : r \in member[u]})

PermissionsOf(R) == UNION {grants[r] : r \in R}
Existing(R)      == \A r \in R : roleRow[r] = "there"
Difference(S, T) == (S \ T) \cup (T \ S)

\* The permission managementPermissions asks for.
Manages(op) ==
    IF op \in {"reset", "remove", "invite", "redeem"} THEN "users:manage" ELSE "roles:manage"

\* The permissions a request touches: requireHeld and requireScopedAuthority
\* demand that its operator holds them.
Targeted(q) == LET r == request[q] IN
    CASE r.op = "createRole" -> r.give
      [] r.op = "updateRole" -> r.give \cup (grants[r.on] \cap GlobalPermissions)
      [] r.op = "setAccess"  ->
            {"agents:read"} \cup
            Difference(Expand(r.give), Expand(grants[r.on] \cap AgentPermissions))
      [] r.op = "deleteRole" -> grants[r.on]
      [] r.op = "assign"     -> PermissionsOf(Difference(r.give, member[r.on]))
      [] r.op \in {"reset", "remove"} -> Effective(r.on)
      [] r.op = "invite"     -> PermissionsOf(r.give) \cup
                                (IF r.give = {} THEN {} ELSE {"roles:manage"})
      [] r.op = "redeem"     -> PermissionsOf(invitation[r.on].roles) \cup
                                (IF invitation[r.on].roles = {} THEN {} ELSE {"roles:manage"})
      [] OTHER -> {}

\* What the request names must exist.
Found(q) == LET r == request[q] IN
    /\ r.op \in {"updateRole", "setAccess", "deleteRole"} => roleRow[r.on] = "there"
    /\ r.op \in {"assign", "reset", "remove"} => account[r.on] = "there"
    /\ r.op \in {"assign", "invite"} => Existing(r.give)

\* Whose authority a request exercises: its operator's, or the inviter's.
Operator(q) == IF request[q].op = "redeem" THEN invitation[request[q].on].by ELSE request[q].by

Authorized(q) == LET r == request[q] u == Operator(q) IN
    IF r.op = "leave"
    THEN r.by \notin admins
    ELSE /\ u \in Users
         /\ Manages(r.op) \in Effective(u)
         /\ u \notin resetting
         /\ Found(q)
         /\ Targeted(q) \subseteq Effective(u)
         /\ r.op = "deleteRole" => r.on # DefaultRole

-----------------------------------------------------------------------------
(* Requests, the queue of an instance, and the lock.                       *)

Live        == {q \in Requests : request[q] # None}
At(i)       == {q \in Live : request[q].at = i}
Locked(q)   == request[q].op # "bootstrap"
Reserved(i) == {q \in At(i) : Locked(q) /\ request[q].step # "queued"}

\* A statement, or a reservation, needs a connection that nobody reserved.
Connected(i) == Cardinality(Reserved(i)) < PoolSize

Goto(q, s) == request' = [request EXCEPT ![q].step = s]
Is(q, s)   == q \in Live /\ request[q].step = s

\* What may be asked: the routes admit signed-in users and refuse that they
\* reset or remove themselves.  Nobody signs in to an account whose creation is
\* still under way, and nobody invites beyond the bound on Invitations.
Asks(r) ==
    /\ r.op \in {"redeem", "bootstrap"} <=> r.by = None
    /\ r.by # None => account[r.by] = "there" /\ \A q \in Live : request[q].new # r.by
    /\ CASE r.op = "createRole" -> r.on = None /\ r.give \in GlobalSets
         [] r.op = "updateRole" -> r.on \in Roles /\ r.give \in GlobalSets
         [] r.op = "setAccess"  -> r.on \in Roles /\ r.give \in AgentSets
         [] r.op = "deleteRole" -> r.on \in Roles /\ r.give = {}
         [] r.op = "assign"     -> r.on \in Users /\ r.give \in SUBSET Roles
         [] r.op \in {"reset", "remove"} -> r.on \in Users \ {r.by} /\ r.give = {}
         [] r.op = "invite"     -> r.on = None /\ r.give \in SUBSET Roles
         [] r.op = "redeem"     -> r.on \in Invitations /\ r.give = {}
         [] OTHER               -> r.on = None /\ r.give = {}
    /\ r.op = "invite" => Cardinality({v \in Invitations : invitation[v].status = "unused"})
                           > Cardinality({q \in Live : request[q].op = "invite"})
    /\ r.on \in Roles => roleRow[r.on] # "unused"
    /\ r.on \in Users => account[r.on] # "unused"
    /\ r.on \in Invitations => invitation[r.on].status # "unused"
    /\ \A s \in r.give \cap Roles : roleRow[s] # "unused"

Gives == (SUBSET Roles) \cup GlobalSets \cup AgentSets

Arrive(q) ==
    /\ request[q] = None
    /\ left.requests > 0
    /\ left' = [left EXCEPT !.requests = @ - 1]
    /\ \E op \in Ops, by \in Users \cup {None}, i \in Instances, give \in Gives,
          on \in Users \cup Roles \cup Invitations \cup {None} :
        LET r == [op |-> op, by |-> by, on |-> on, give |-> give, new |-> None, at |-> i,
                  step |-> IF op = "bootstrap" THEN "look" ELSE "queued"] IN
        /\ Asks(r)
        /\ request' = [request EXCEPT ![q] = r]
        /\ queue' = IF op = "bootstrap" THEN queue
                    ELSE [queue EXCEPT ![i] = Append(@, q)]
    /\ UNCHANGED <<account, admins, resetting, roleRow, grants, member, invitation,
                   lock, complete>>

\* A change starts once the one queued before it has settled, whatever its
\* outcome.
MyTurn_Any(q) == TRUE
MyTurn(q)     == Head(queue[request[q].at]) = q

Reserve(q) ==
    /\ Is(q, "queued")
    /\ MyTurn(q)
    /\ Connected(request[q].at)
    /\ Goto(q, "locking")
    /\ UNCHANGED <<account, admins, resetting, roleRow, grants, member, invitation,
                   queue, lock, complete, left>>

Available_Always == TRUE
Available        == lock = None

Lock(q) ==
    /\ Is(q, "locking")
    /\ Available
    /\ lock' = q
    /\ Goto(q, IF request[q].op = "redeem" THEN "claim" ELSE "check")
    /\ UNCHANGED <<account, admins, resetting, roleRow, grants, member, invitation,
                   queue, complete, left>>

\* Both finally blocks: the lock is given back and the connection released.
Unlock(q) ==
    /\ Is(q, "unlock")
    /\ lock' = IF lock = q THEN None ELSE lock
    /\ request' = [request EXCEPT ![q] = None]
    /\ queue' = [queue EXCEPT ![request[q].at] = Tail(@)]
    /\ UNCHANGED <<account, admins, resetting, roleRow, grants, member, invitation,
                   complete, left>>

-----------------------------------------------------------------------------
(* The statements of a change.                                             *)

Rows    == <<account, admins, resetting, roleRow, grants, member, invitation, complete>>
Waiting == <<queue, lock, left>>

\* A deleted user takes along the grant, the roles and the invitations sent.
DeleteUser(u) ==
    /\ account' = [account EXCEPT ![u] = "deleted"]
    /\ admins' = admins \ {u}
    /\ resetting' = resetting \ {u}
    /\ complete' = complete \ {u}
    /\ member' = [member EXCEPT ![u] = {}]
    /\ invitation' = [v \in Invitations |->
            IF invitation[v].by = u /\ invitation[v].status # "unused"
            THEN [invitation[v] EXCEPT !.status = "gone", !.roles = {}] ELSE invitation[v]]
    /\ UNCHANGED <<roleRow, grants>>

DeleteRole(r) ==
    /\ roleRow' = [roleRow EXCEPT ![r] = "deleted"]
    /\ grants' = [grants EXCEPT ![r] = {}]
    /\ member' = [u \in Users |-> member[u] \ {r}]
    /\ invitation' = [v \in Invitations |-> [invitation[v] EXCEPT !.roles = @ \ {r}]]
    /\ UNCHANGED <<account, admins, resetting, complete>>

Grant(r, S) == grants' = [grants EXCEPT ![r] = S]

CreateRole(S) == \E r \in Roles :
    /\ roleRow[r] = "unused"
    /\ roleRow' = [roleRow EXCEPT ![r] = "there"]
    /\ Grant(r, S)
    /\ UNCHANGED <<account, admins, resetting, member, invitation, complete>>

UpdateRole(r, S) ==
    /\ Grant(r, (grants[r] \cap AgentPermissions) \cup S)
    /\ UNCHANGED <<account, admins, resetting, roleRow, member, invitation, complete>>

SetRoleAgentAccess(r, S) ==
    /\ Grant(r, (grants[r] \cap GlobalPermissions) \cup S)
    /\ UNCHANGED <<account, admins, resetting, roleRow, member, invitation, complete>>

AssignRoles(u, R) ==
    /\ member' = [member EXCEPT ![u] = R]
    /\ UNCHANGED <<account, admins, resetting, roleRow, grants, invitation, complete>>

ResetPassword(u) ==
    /\ resetting' = resetting \cup {u}
    /\ UNCHANGED <<account, admins, roleRow, grants, member, invitation, complete>>

CreateInvitation(u, R) == \E v \in Invitations :
    /\ invitation[v].status = "unused"
    /\ invitation' = [invitation EXCEPT ![v] =
            [status |-> "open", by |-> u, roles |-> R, uses |-> 0]]
    /\ UNCHANGED <<account, admins, resetting, roleRow, grants, member, complete>>

Check(q) ==
    /\ Is(q, "check")
    /\ Connected(request[q].at)
    /\ Goto(q, IF Authorized(q) THEN "write" ELSE "unlock")
    /\ UNCHANGED <<Rows, Waiting>>

\* The founder an undone setup removes may be a user this request is about.
StillThere(q) == request[q].op \in {"assign", "reset", "remove"} => account[request[q].on] = "there"

Write(q) == LET r == request[q] IN
    /\ Is(q, "write")
    /\ Connected(r.at)
    /\ StillThere(q)
    /\ CASE r.op = "createRole" -> CreateRole(r.give)
         [] r.op = "updateRole" -> UpdateRole(r.on, r.give)
         [] r.op = "setAccess"  -> SetRoleAgentAccess(r.on, r.give)
         [] r.op = "deleteRole" -> DeleteRole(r.on)
         [] r.op = "assign"     -> AssignRoles(r.on, r.give)
         [] r.op = "reset"      -> ResetPassword(r.on)
         [] r.op = "remove"     -> DeleteUser(r.on)
         [] r.op = "leave"      -> DeleteUser(r.by)
         [] r.op = "invite"     -> CreateInvitation(r.by, r.give)
    /\ Goto(q, "unlock")
    /\ UNCHANGED Waiting

\* The name is taken, or the user is gone.
Refused(q) ==
    /\ Is(q, "write")
    /\ request[q].op \in {"createRole", "updateRole"} \/ ~StillThere(q)
    /\ Connected(request[q].at)
    /\ Goto(q, "unlock")
    /\ UNCHANGED <<Rows, Waiting>>

-----------------------------------------------------------------------------
(* Redeeming an invitation, each step under the lock.                      *)

SetStatus(v, s) == invitation' = [invitation EXCEPT ![v].status = s]

Claimable(v) == invitation[v].status = "open"

ClaimInvitation(q) == LET v == request[q].on IN
    /\ Is(q, "claim")
    /\ Connected(request[q].at)
    /\ \/ /\ Claimable(v)
          /\ SetStatus(v, "claimed")
          /\ Goto(q, "validate")
       \/ /\ ~Claimable(v)
          /\ Goto(q, "unlock")
          /\ UNCHANGED invitation
    /\ UNCHANGED <<account, admins, resetting, roleRow, grants, member, complete, Waiting>>

ValidateInvitation(q) ==
    /\ Is(q, "validate")
    /\ Connected(request[q].at)
    /\ Goto(q, IF Authorized(q) THEN "create" ELSE "unclaim")
    /\ UNCHANGED <<Rows, Waiting>>

\* createUser: the row is there, or its name was taken.
CreateUser(q, next, taken) ==
    /\ Connected(request[q].at)
    /\ \/ \E u \in Users :
            /\ account[u] = "unused"
            /\ account' = [account EXCEPT ![u] = "there"]
            /\ request' = [request EXCEPT ![q] = [@ EXCEPT !.step = next, !.new = u]]
       \/ taken /\ UNCHANGED account
    /\ UNCHANGED <<admins, resetting, roleRow, grants, member, invitation, complete>>

CreateMember_Burns(q) ==
    /\ Is(q, "create")
    /\ CreateUser(q, "attach", Goto(q, "unlock"))
    /\ UNCHANGED Waiting

CreateMember(q) ==
    /\ Is(q, "create")
    /\ CreateUser(q, "attach", Goto(q, "unclaim"))
    /\ UNCHANGED Waiting

AssignInvitationRoles(q) == LET v == request[q].on  u == request[q].new IN
    /\ Is(q, "attach")
    /\ Connected(request[q].at)
    /\ member' = [member EXCEPT ![u] = invitation[v].roles]
    /\ complete' = complete \cup {u}
    /\ invitation' = [invitation EXCEPT ![v].uses = @ + 1]
    /\ Goto(q, "unlock")
    /\ UNCHANGED <<account, admins, resetting, roleRow, grants, Waiting>>

DropMember(q) ==
    /\ Is(q, "drop")
    /\ Connected(request[q].at)
    /\ DeleteUser(request[q].new)
    /\ Goto(q, "unclaim")
    /\ UNCHANGED Waiting

UnclaimInvitation(q) == LET v == request[q].on IN
    /\ Is(q, "unclaim")
    /\ Connected(request[q].at)
    /\ IF invitation[v].status = "claimed" THEN SetStatus(v, "open") ELSE UNCHANGED invitation
    /\ Goto(q, "unlock")
    /\ UNCHANGED <<account, admins, resetting, roleRow, grants, member, complete, Waiting>>

Expire(v) ==
    /\ invitation[v].status = "open"
    /\ SetStatus(v, "gone")
    /\ UNCHANGED <<account, admins, resetting, roleRow, grants, member, complete,
                   request, Waiting>>

-----------------------------------------------------------------------------
(* The first administrator, without the lock.                              *)

End(q) == request' = [request EXCEPT ![q] = None]

BootstrapAdmin(q) ==
    /\ Is(q, "look")
    /\ Connected(request[q].at)
    /\ IF admins = {} THEN Goto(q, "found") ELSE End(q)
    /\ UNCHANGED <<Rows, Waiting>>

CreateFounder(q) ==
    /\ Is(q, "found")
    /\ CreateUser(q, "grant", End(q))
    /\ UNCHANGED Waiting

\* permission_grant_admin_unique_idx; the user the grant refers to must exist.
Grantee_NoIndex(u) == account[u] = "there"
Grantee(u)         == admins = {} /\ account[u] = "there"

InsertPermissionGrant(q) == LET u == request[q].new IN
    /\ Is(q, "grant")
    /\ Connected(request[q].at)
    /\ \/ /\ Grantee(u)
          /\ admins' = admins \cup {u}
          /\ complete' = complete \cup {u}
          /\ End(q)
       \/ /\ ~Grantee(u)
          /\ Goto(q, "undo")
          /\ UNCHANGED <<admins, complete>>
    /\ UNCHANGED <<account, resetting, roleRow, grants, member, invitation, Waiting>>

UndoFounder(q) ==
    /\ Is(q, "undo")
    /\ Connected(request[q].at)
    /\ DeleteUser(request[q].new)
    /\ End(q)
    /\ UNCHANGED Waiting

\* The user chooses a new password (completeForcedPasswordChange).
ChangePassword(u) ==
    /\ u \in resetting
    /\ resetting' = resetting \ {u}
    /\ UNCHANGED <<account, admins, roleRow, grants, member, invitation, complete,
                   request, Waiting>>

-----------------------------------------------------------------------------
(* Statements that fail, and processes that die.                           *)

\* Where an error thrown at a step leads: the catch blocks around it.
Catch(s) ==
    CASE s \in {"check", "write", "claim", "unclaim"} -> "unlock"
      [] s \in {"validate", "create", "drop"} -> "unclaim"
      [] s = "attach" -> "drop"
      [] s = "grant"  -> "undo"
      [] OTHER -> "none"

Fail(q) ==
    /\ q \in Live /\ request[q].step \notin {"queued", "locking", "unlock"}
    /\ left.faults > 0
    /\ left' = [left EXCEPT !.faults = @ - 1]
    /\ IF Catch(request[q].step) = "none" THEN End(q) ELSE Goto(q, Catch(request[q].step))
    /\ UNCHANGED <<Rows, queue, lock>>

\* The server ends the session of the connection that held the lock.
Crash(i) ==
    /\ At(i) # {}
    /\ left.crashes > 0
    /\ left' = [left EXCEPT !.crashes = @ - 1]
    /\ request' = [q \in Requests |-> IF q \in At(i) THEN None ELSE request[q]]
    /\ queue' = [queue EXCEPT ![i] = <<>>]
    /\ lock' = IF lock \in At(i) THEN None ELSE lock
    /\ UNCHANGED Rows

-----------------------------------------------------------------------------

Redeem(q) == \/ ClaimInvitation(q) \/ ValidateInvitation(q) \/ CreateMember(q)
             \/ AssignInvitationRoles(q) \/ DropMember(q) \/ UnclaimInvitation(q)
Setup(q)  == BootstrapAdmin(q) \/ CreateFounder(q) \/ InsertPermissionGrant(q) \/ UndoFounder(q)
Step(q)   == \/ Reserve(q) \/ Lock(q) \/ Check(q) \/ Write(q) \/ Refused(q) \/ Unlock(q)
             \/ Redeem(q) \/ Setup(q)

Next ==
    \/ \E q \in Requests : Arrive(q) \/ Step(q) \/ Fail(q)
    \/ \E v \in Invitations : Expire(v)
    \/ \E u \in Users : ChangePassword(u)
    \/ \E i \in Instances : Crash(i)

Spec == Init /\ [][Next]_vars

-----------------------------------------------------------------------------
(* Properties.                                                             *)

Writing(q) == Is(q, "write") \/ Is(q, "attach")
Moved(q)   == request'[q] # request[q]

\* Nobody changes access beyond their own: whatever a request adds to or takes
\* from any user's permissions, the operator behind it holds at that very
\* moment, with no password change pending.  Only deleting one's own account
\* and the first administrator need nobody's authority.
NobodyExceedsOwnAccess == [][\A q \in Requests :
    Writing(q) /\ Moved(q) /\ request[q].op # "leave" =>
        \A u \in Users : Effective(u)' # Effective(u) =>
            /\ Difference(Effective(u)', Effective(u)) \subseteq Effective(Operator(q))
            /\ Operator(q) \notin resetting]_vars

\* Once there is an administrator, that account stays the only one.
SoleAdmin == [][admins # {} => admins' = admins]_vars

\* Unless a statement failed or a process died, what was given up leaves
\* nothing behind and an invitation admits one member: an account that is not
\* finished, or an invitation that is claimed for nobody, belongs to a request
\* still at work on it.
NothingLeftBehind ==
    left.faults = MaxFaults /\ left.crashes = MaxCrashes =>
        /\ \A u \in Users : account[u] = "there" /\ u \notin complete =>
                \E q \in Live : request[q].new = u
        /\ \A v \in Invitations : invitation[v].status = "claimed" /\ invitation[v].uses # 1 =>
                \E q \in Live : request[q].on = v

\* Waiting never turns into a standstill: as long as a request is unanswered,
\* one of them can go on.  In particular, those waiting for the lock never hold
\* the connections its holder needs.  No request repeats a step, so each ends.
SomeoneGoesOn == Live # {} => \E q \in Live : ENABLED Step(q)
=============================================================================
