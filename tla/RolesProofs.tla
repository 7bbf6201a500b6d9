----------------------------- MODULE RolesProofs -----------------------------
(***************************************************************************)
(* What the access lock promises, for every value of the constants: nobody  *)
(* changes access beyond their own, the first administrator stays the only  *)
(* one, what is given up leaves nothing behind, and somebody can go on.    *)
(*                                                                         *)
(* What a request checked is still so when it writes: the lock keeps every  *)
(* other change away, except the creation of the first administrator.  That *)
(* one grants access only where there is no administrator, and then nobody  *)
(* holds a role, so no check has passed; and it removes only an account of  *)
(* its own making, which is nobody's operator and has sent no invitation.   *)
(***************************************************************************)
EXTENDS Roles, FiniteSetTheorems, TLAPS

USE RolesAssumption, NoneAssumption

-----------------------------------------------------------------------------
(* What a request asks, and the steps its operation goes through.          *)
Asked(r) ==
    /\ IF r.op \in {"redeem", "bootstrap"} THEN r.by = None ELSE r.by \in Users
    /\ r.op = "createRole" => r.give \subseteq GlobalPermissions
    /\ r.op = "updateRole" => r.on \in Roles /\ r.give \subseteq GlobalPermissions
    /\ r.op = "setAccess"  => r.on \in Roles /\ r.give \subseteq AgentPermissions
    /\ r.op = "deleteRole" => r.on \in Roles
    /\ r.op = "assign"     => r.on \in Users /\ r.give \subseteq Roles
    /\ r.op \in {"reset", "remove"} => r.on \in Users /\ r.on # r.by
    /\ r.op = "invite"     => r.give \subseteq Roles
    /\ r.op = "redeem"     => r.on \in Invitations

SetupSteps  == {"look", "found", "grant", "undo"}
RedeemSteps == {"claim", "validate", "create", "attach", "drop", "unclaim"}
NewSteps    == {"attach", "drop", "grant", "undo"}

Staged(r) ==
    /\ r.op = "bootstrap" <=> r.step \in SetupSteps
    /\ r.step \in RedeemSteps => r.op = "redeem"
    /\ r.step \in {"check", "write"} => r.op # "redeem"
    /\ r.step \in NewSteps => r.new \in Users

RequestSound == \A q \in Live : Asked(request[q]) /\ Staged(request[q])

\* The request whose turn it is in an instance heads the instance's queue.
InLine(q) ==
    /\ \E k \in DOMAIN queue[request[q].at] : queue[request[q].at][k] = q
    /\ request[q].step # "queued" => queue[request[q].at][1] = q
QueueSound == \A q \in Live : Locked(q) => InLine(q)

\* Only the holder of the lock is past it.
Acting(q) == q \in Live /\ Locked(q) /\ request[q].step \notin {"queued", "locking"}
LockSound ==
    /\ lock # None => Acting(lock)
    /\ \A q \in Requests : Acting(q) => lock = q

\* There is one administrator, and roles are held only where there is one.
AccessSound ==
    /\ \A u, w \in admins : u = w
    /\ admins = {} => \A u \in Users : member[u] = {}
    /\ \A u \in Users : account[u] = "unused" => u \notin admins /\ member[u] = {}
    /\ \A r \in Roles : roleRow[r] = "unused" =>
        /\ \A u \in Users : r \notin member[u]
        /\ \A v \in Invitations : r \notin invitation[v].roles

\* An account still being created belongs to one request, is nobody's operator
\* and has sent no invitation.  What a request names is or was there.
Known(u)  == u \in Users /\ account[u] # "unused" /\ \A p \in Live : request[p].new # u
NewSound ==
    /\ \A q \in Live :
        /\ request[q].new \in Users =>
            /\ account[request[q].new] # "unused"
            /\ request[q].new \notin admins
            /\ \A p \in Live : request[p].new = request[q].new => p = q
        /\ request[q].by \in Users => Known(request[q].by)
        /\ request[q].op = "redeem" => invitation[request[q].on].status # "unused"
        /\ \A r \in Roles : r \in request[q].give => roleRow[r] # "unused"
    /\ \A v \in Invitations : invitation[v].status # "unused" => Known(invitation[v].by)

\* What the check established still holds when the statement runs.
OfUser(q) == request[q].op \in {"assign", "reset", "remove"}
Checked(q) ==
    /\ Operator(q) \in Users \ resetting
    /\ Manages(request[q].op) \in Effective(Operator(q))
    /\ OfUser(q) => account[request[q].on] # "unused"
    /\ StillThere(q) => Targeted(q) \subseteq Effective(Operator(q))
Cleared == {"write", "create", "attach"}
CheckSound == \A q \in Live :
    /\ request[q].step \in Cleared =>
        IF request[q].op = "leave" THEN request[q].by \notin admins ELSE Checked(q)
    /\ request[q].step = "attach" => member[request[q].new] = {}

\* An invitation is used up once, by the request that claimed it.
UseSound ==
    /\ \A v \in Invitations : invitation[v].status \in {"unused", "open"} => invitation[v].uses = 0
    /\ \A q \in Live : request[q].step \in RedeemSteps \ {"claim"} =>
        /\ invitation[request[q].on].uses = 0
        /\ invitation[request[q].on].status \in {"claimed", "gone"}

\* NothingLeftBehind, with the step its requests are at.
Undisturbed == left.faults = MaxFaults /\ left.crashes = MaxCrashes
HalfMade(q) == q \in Live /\ request[q].step \in NewSteps
Claiming(q) == q \in Live /\ request[q].step \in RedeemSteps \ {"claim"}
LeftSound == Undisturbed =>
    /\ \A u \in Users : account[u] = "there" /\ u \notin complete =>
            \E q \in Requests : HalfMade(q) /\ request[q].new = u
    /\ \A v \in Invitations : invitation[v].status = "claimed" /\ invitation[v].uses # 1 =>
            \E q \in Requests : Claiming(q) /\ request[q].on = v

-----------------------------------------------------------------------------
(* How the step of a request moves it.                                     *)

Others(q)  == \A p \in Requests \ {q} : request'[p] = request[p]
Advances(q, s, u) ==
    /\ q \in Live /\ q \in Live'
    /\ request[q] \in Request /\ request'[q] \in Request
    /\ request'[q].op = request[q].op /\ request'[q].by = request[q].by
    /\ request'[q].on = request[q].on /\ request'[q].give = request[q].give
    /\ request'[q].at = request[q].at
    /\ request'[q].step = s /\ request'[q].new = u
    /\ Others(q)
Leaves(q) == q \in Live /\ request'[q] = None /\ Others(q)

\* A live request is a request.
LEMMA LiveRequest ==
    ASSUME TypeOK, NEW q \in Live
    PROVE  q \in Requests /\ request[q] \in Request
BY DEF TypeOK, Live

\* A step of a request leaves all but its step as it was.
LEMMA GotoAdvances ==
    ASSUME TypeOK, NEW q \in Live, NEW s \in Steps, Goto(q, s)
    PROVE  Advances(q, s, request[q].new) /\ request' \in [Requests -> Request \cup {None}]
<1>1. q \in Requests /\ request[q] \in Request
  BY LiveRequest
<1>2. request'[q] = [request[q] EXCEPT !.step = s] /\ Others(q)
  BY <1>1 DEF TypeOK, Goto, Others
<1>3. request'[q] \in Request
  BY <1>1, <1>2 DEF Request
<1>4. request' \in [Requests -> Request \cup {None}]
  BY <1>1, <1>3 DEF TypeOK, Goto
<1>5. q \in Live'
  BY <1>1, <1>3 DEF Live
<1>6. QED
  BY <1>1, <1>2, <1>3, <1>4, <1>5 DEF Advances, Request

\* A request that has created its user is a request.
LEMMA NewTyped ==
    ASSUME NEW r \in Request, NEW u \in Users
    PROVE  [r EXCEPT !.new = u] \in Request
BY DEF Request

\* So does the step that creates its user.
LEMMA CreateAdvances ==
    ASSUME TypeOK, NEW q \in Live, NEW s \in Steps, NEW u \in Users,
           request' = [request EXCEPT ![q] = [@ EXCEPT !.step = s, !.new = u]]
    PROVE  Advances(q, s, u) /\ request' \in [Requests -> Request \cup {None}]
<1>1. q \in Requests /\ request[q] \in Request
  BY LiveRequest
<1>2. request'[q] = [request[q] EXCEPT !.step = s, !.new = u] /\ Others(q)
  BY <1>1 DEF TypeOK, Others
<1>3. request'[q] \in Request
  <2>1. [request[q] EXCEPT !.step = s] \in Request
    BY <1>1 DEF Request
  <2>2. request'[q] = [[request[q] EXCEPT !.step = s] EXCEPT !.new = u]
    BY <1>2
  <2>3. QED
    BY <2>1, <2>2, NewTyped
<1>4. request' \in [Requests -> Request \cup {None}]
  BY <1>1, <1>3 DEF TypeOK
<1>5. q \in Live'
  BY <1>1, <1>3 DEF Live
<1>6. QED
  BY <1>1, <1>2, <1>3, <1>4, <1>5 DEF Advances, Request

\* And a request that is answered is gone.
LEMMA EndLeaves ==
    ASSUME TypeOK, NEW q \in Live, End(q)
    PROVE  Leaves(q) /\ request' \in [Requests -> Request \cup {None}]
BY LiveRequest DEF TypeOK, End, Leaves, Others

-----------------------------------------------------------------------------
(* The steps a request takes once it has been let in.                      *)

RequestTyped == request' \in [Requests -> Request \cup {None}]
Waits == {"queued", "locking"}
Inner(q) == Check(q) \/ Write(q) \/ Refused(q) \/ Redeem(q) \/ Setup(q) \/ Fail(q)
\* A setup that has ended, or a request at a later step of its operation.
Moves(q) ==
    /\ RequestTyped
    /\ \/ Leaves(q) /\ request[q].op = "bootstrap"
       \/ \E s \in Steps \ Waits, u \in Users \cup {None} :
            Advances(q, s, u) /\ Staged(request'[q])
InnerMove(q) ==
    /\ q \in Live /\ request[q].step \notin Waits \cup {"unlock"}
    /\ UNCHANGED <<queue, lock>>
    /\ Moves(q)

\* A request that only goes to a step of its operation.
LEMMA GotoMoves ==
    ASSUME TypeOK, NEW q \in Live, NEW s \in Steps \ Waits, Goto(q, s),
           request[q].op = "bootstrap" <=> s \in SetupSteps,
           s \in RedeemSteps => request[q].op = "redeem",
           s \in {"check", "write"} => request[q].op # "redeem",
           s \in NewSteps => request[q].new \in Users
    PROVE  Moves(q)
<1>1. Advances(q, s, request[q].new) /\ RequestTyped
  BY GotoAdvances DEF RequestTyped
<1>2. Staged(request'[q])
  BY <1>1 DEF Staged, Advances
<1>3. request[q].new \in Users \cup {None}
  BY LiveRequest DEF Request
<1>4. QED
  BY <1>1, <1>2, <1>3 DEF Moves

\* The check of a change, its statement, and the error that ends it.
LEMMA ChangeMoves ==
    ASSUME TypeOK, RequestSound, NEW q \in Requests, Check(q) \/ Write(q) \/ Refused(q)
    PROVE  InnerMove(q)
<1>1. q \in Live /\ request[q].step \in {"check", "write"} /\ UNCHANGED <<queue, lock>>
  BY DEF Check, Write, Refused, Is, Waiting
<1>2. PICK s \in {"write", "unlock"} : Goto(q, s)
  BY DEF Check, Write, Refused
<1>3. request[q].op \notin {"bootstrap", "redeem"}
  BY <1>1 DEF RequestSound, Staged, SetupSteps
<1>4. Moves(q)
  BY <1>1, <1>2, <1>3, GotoMoves DEF Steps, Waits, SetupSteps, RedeemSteps, NewSteps
<1>5. QED
  BY <1>1, <1>4 DEF InnerMove, Waits

\* Redeeming an invitation.
LEMMA RedeemMoves ==
    ASSUME TypeOK, RequestSound, NEW q \in Requests, Redeem(q)
    PROVE  InnerMove(q)
<1>1. q \in Live /\ request[q].step \in RedeemSteps /\ UNCHANGED <<queue, lock>>
  BY DEF Redeem, ClaimInvitation, ValidateInvitation, CreateMember, AssignInvitationRoles,
     DropMember, UnclaimInvitation, Is, Waiting, RedeemSteps
<1>2. request[q].op = "redeem"
  BY <1>1 DEF RequestSound, Staged
<1>3. CASE \E s \in {"unlock", "validate", "create", "unclaim"} : Goto(q, s)
  BY <1>1, <1>2, <1>3, GotoMoves
     DEF InnerMove, Steps, Waits, SetupSteps, RedeemSteps, NewSteps
<1>4. CASE \E u \in Users :
            request' = [request EXCEPT ![q] = [@ EXCEPT !.step = "attach", !.new = u]]
  <2>1. PICK u \in Users :
            request' = [request EXCEPT ![q] = [@ EXCEPT !.step = "attach", !.new = u]]
    BY <1>4
  <2>2. Advances(q, "attach", u) /\ RequestTyped
    BY <1>1, <2>1, CreateAdvances DEF Steps, RequestTyped
  <2>3. Staged(request'[q])
    BY <1>2, <2>2 DEF Advances, Staged, SetupSteps, RedeemSteps
  <2>4. QED
    BY <1>1, <2>2, <2>3 DEF InnerMove, Moves, Steps, Waits, RedeemSteps
<1>5. QED
  BY <1>3, <1>4 DEF Redeem, ClaimInvitation, ValidateInvitation, CreateMember, CreateUser,
     AssignInvitationRoles, DropMember, UnclaimInvitation

\* Setting up the first administrator.
LEMMA SetupMoves ==
    ASSUME TypeOK, RequestSound, NEW q \in Requests, Setup(q)
    PROVE  InnerMove(q)
<1>1. q \in Live /\ request[q].step \in SetupSteps /\ UNCHANGED <<queue, lock>>
  BY DEF Setup, BootstrapAdmin, CreateFounder, InsertPermissionGrant, UndoFounder, Is,
     Waiting, SetupSteps
<1>2. request[q].op = "bootstrap"
  BY <1>1 DEF RequestSound, Staged
<1>3. CASE End(q)
  BY <1>1, <1>2, <1>3, EndLeaves DEF InnerMove, Moves, RequestTyped, Waits, SetupSteps
<1>4. CASE BootstrapAdmin(q) /\ Goto(q, "found")
  BY <1>1, <1>2, <1>4, GotoMoves
     DEF InnerMove, Steps, Waits, SetupSteps, RedeemSteps, NewSteps
<1>5. CASE InsertPermissionGrant(q) /\ Goto(q, "undo")
  <2>1. request[q].new \in Users
    BY <1>1, <1>5 DEF RequestSound, Staged, InsertPermissionGrant, Is, NewSteps
  <2>2. QED
    BY <1>1, <1>2, <1>5, <2>1, GotoMoves
       DEF InnerMove, Steps, Waits, SetupSteps, RedeemSteps, NewSteps
<1>6. CASE \E u \in Users :
            request' = [request EXCEPT ![q] = [@ EXCEPT !.step = "grant", !.new = u]]
  <2>1. PICK u \in Users :
            request' = [request EXCEPT ![q] = [@ EXCEPT !.step = "grant", !.new = u]]
    BY <1>6
  <2>2. Advances(q, "grant", u) /\ RequestTyped
    BY <1>1, <2>1, CreateAdvances DEF Steps, RequestTyped
  <2>3. Staged(request'[q])
    BY <1>2, <2>2 DEF Advances, Staged, SetupSteps, RedeemSteps
  <2>4. QED
    BY <1>1, <2>2, <2>3 DEF InnerMove, Moves, Steps, Waits, SetupSteps
<1>7. QED
  BY <1>3, <1>4, <1>5, <1>6
     DEF Setup, BootstrapAdmin, CreateFounder, CreateUser, InsertPermissionGrant, UndoFounder

\* An error leads to the catch block around the step, or ends a setup.
LEMMA FailMoves ==
    ASSUME TypeOK, RequestSound, NEW q \in Requests, Fail(q)
    PROVE  InnerMove(q)
<1> DEFINE r == request[q]
<1>1. q \in Live /\ r.step \notin Waits \cup {"unlock"} /\ UNCHANGED <<queue, lock>>
  BY DEF Fail, Waits
<1>2. r \in Request /\ Staged(r)
  BY <1>1, LiveRequest DEF RequestSound
<1>3. CASE r.step \in {"look", "found", "undo"}
  <2>1. End(q) /\ r.op = "bootstrap"
    BY <1>2, <1>3 DEF Fail, Catch, Staged, SetupSteps
  <2>2. QED
    BY <1>1, <2>1, EndLeaves DEF InnerMove, Moves, RequestTyped
<1>4. CASE r.step = "grant"
  <2>1. Goto(q, "undo") /\ r.op = "bootstrap" /\ r.new \in Users
    BY <1>2, <1>4 DEF Fail, Catch, Staged, SetupSteps, NewSteps
  <2>2. QED
    BY <1>1, <2>1, GotoMoves DEF InnerMove, Steps, Waits, SetupSteps, RedeemSteps, NewSteps
<1>5. CASE r.step \in {"check", "write", "claim", "unclaim", "validate", "create", "drop",
                       "attach"}
  <2>1. r.op # "bootstrap" /\ (r.step \in RedeemSteps => r.op = "redeem")
    BY <1>2, <1>5 DEF Staged, SetupSteps
  <2>2. CASE r.step \in {"check", "write", "claim", "unclaim"}
    <3>1. Goto(q, "unlock")
      BY <2>2 DEF Fail, Catch
    <3>2. QED
      BY <1>1, <2>1, <3>1, GotoMoves DEF InnerMove, Steps, Waits, SetupSteps, RedeemSteps, NewSteps
  <2>3. CASE r.step \in {"validate", "create", "drop"}
    <3>1. Goto(q, "unclaim") /\ r.op = "redeem"
      BY <2>1, <2>3 DEF Fail, Catch, RedeemSteps
    <3>2. QED
      BY <1>1, <3>1, GotoMoves DEF InnerMove, Steps, Waits, SetupSteps, RedeemSteps, NewSteps
  <2>4. CASE r.step = "attach"
    <3>1. Goto(q, "drop") /\ r.op = "redeem" /\ r.new \in Users
      BY <1>2, <2>1, <2>4 DEF Fail, Catch, RedeemSteps, Staged, NewSteps
    <3>2. QED
      BY <1>1, <3>1, GotoMoves DEF InnerMove, Steps, Waits, SetupSteps, RedeemSteps, NewSteps
  <2>5. QED
    BY <1>5, <2>2, <2>3, <2>4
<1>6. QED
  BY <1>1, <1>2, <1>3, <1>4, <1>5 DEF Request, Steps, Waits

\* Each step a request takes once it has been let in is such a move.
LEMMA InnerMoves ==
    ASSUME TypeOK, RequestSound, NEW q \in Requests, Inner(q)
    PROVE  InnerMove(q)
BY ChangeMoves, RedeemMoves, SetupMoves, FailMoves DEF Inner

-----------------------------------------------------------------------------
(* Requests, queues and the lock.                                          *)

\* A request that has just arrived.
Arrived(q, r) ==
    /\ q \in Requests \ Live /\ request' = [request EXCEPT ![q] = r]
    /\ r \in Request /\ request'[q] = r /\ Others(q) /\ RequestTyped
    /\ Asks(r) /\ Asked(r) /\ Staged(r) /\ r.new = None
    /\ IF r.op = "bootstrap" THEN queue' = queue /\ r.step = "look"
       ELSE queue' = [queue EXCEPT ![r.at] = Append(@, q)] /\ r.step = "queued"

\* An arriving request asks what the routes admit.
LEMMA ArriveAdds ==
    ASSUME TypeOK, NEW q \in Requests, Arrive(q)
    PROVE  \E r \in Request : Arrived(q, r)
<1>1. PICK op \in Ops, by \in Users \cup {None}, i \in Instances, give \in Gives,
          on \in Users \cup Roles \cup Invitations \cup {None} :
        LET r == [op |-> op, by |-> by, on |-> on, give |-> give, new |-> None, at |-> i,
                  step |-> IF op = "bootstrap" THEN "look" ELSE "queued"] IN
        /\ Asks(r)
        /\ request' = [request EXCEPT ![q] = r]
        /\ queue' = IF op = "bootstrap" THEN queue
                    ELSE [queue EXCEPT ![i] = Append(@, q)]
  BY DEF Arrive
<1> DEFINE r == [op |-> op, by |-> by, on |-> on, give |-> give, new |-> None, at |-> i,
                 step |-> IF op = "bootstrap" THEN "look" ELSE "queued"]
<1>2. /\ r.op = op /\ r.by = by /\ r.on = on /\ r.give = give /\ r.new = None /\ r.at = i
      /\ r.step = IF op = "bootstrap" THEN "look" ELSE "queued"
  OBVIOUS
<1>3. r \in Request
  <2>1. give \in (SUBSET Roles) \cup (SUBSET Grantable)
    BY DEF Gives, Grantable
  <2>2. r.step \in Steps
    BY DEF Steps
  <2>3. QED
    BY <2>1, <2>2 DEF Request
<1>4. Asks(r) /\ request' = [request EXCEPT ![q] = r]
  BY <1>1
<1>5. op \in {"redeem", "bootstrap"} <=> by = None
  BY <1>2, <1>4 DEF Asks
<1>6. Staged(r)
  BY <1>2 DEF Staged, SetupSteps, RedeemSteps, NewSteps
<1> HIDE DEF r
<1>7. Asked(r)
  <2>1. IF r.op \in {"redeem", "bootstrap"} THEN r.by = None ELSE r.by \in Users
    BY <1>2, <1>5
  <2>2. r.op = "createRole" => r.give \subseteq GlobalPermissions
    BY <1>4 DEF Asks
  <2>3. r.op = "updateRole" => r.on \in Roles /\ r.give \subseteq GlobalPermissions
    BY <1>4 DEF Asks
  <2>4. r.op = "setAccess" => r.on \in Roles /\ r.give \subseteq AgentPermissions
    BY <1>4 DEF Asks
  <2>5. r.op = "deleteRole" => r.on \in Roles
    BY <1>4 DEF Asks
  <2>6. r.op = "assign" => r.on \in Users /\ r.give \subseteq Roles
    BY <1>4 DEF Asks
  <2>7. r.op \in {"reset", "remove"} => r.on \in Users /\ r.on # r.by
    BY <1>4 DEF Asks
  <2>8. r.op = "invite" => r.give \subseteq Roles
    BY <1>4 DEF Asks
  <2>9. r.op = "redeem" => r.on \in Invitations
    BY <1>4 DEF Asks
  <2>10. QED
    BY <2>1, <2>2, <2>3, <2>4, <2>5, <2>6, <2>7, <2>8, <2>9 DEF Asked
<1>8. request'[q] = r /\ Others(q) /\ RequestTyped
  BY <1>3, <1>4 DEF TypeOK, Others, RequestTyped
<1>9. q \in Requests \ Live
  BY DEF Arrive, Live
<1>10. QED
  BY <1>1, <1>2, <1>3, <1>4, <1>6, <1>7, <1>8, <1>9 DEF Arrived

\* What a request asks never changes, and its steps are those of its operation.
LEMMA RequestSoundStep ==
    ASSUME TypeOK, RequestSound, [Next]_vars
    PROVE  RequestTyped /\ RequestSound'
<1>1. ASSUME NEW q \in Live, NEW s \in Steps, NEW u \in Users \cup {None},
             Advances(q, s, u), Staged(request'[q])
      PROVE  RequestSound'
  <2> SUFFICES ASSUME NEW p \in Live' PROVE Asked(request'[p]) /\ Staged(request'[p])
    BY DEF RequestSound
  <2>1. CASE p = q
    BY <1>1, <2>1 DEF Advances, RequestSound, Asked
  <2>2. CASE p # q
    BY <1>1, <2>2 DEF Advances, Others, Live, RequestSound
  <2>3. QED
    BY <2>1, <2>2
<1>2. ASSUME NEW q \in Live, Leaves(q) PROVE RequestSound'
  BY <1>2 DEF Leaves, Others, RequestSound, Live
<1>3. ASSUME NEW q \in Requests, Arrive(q) PROVE RequestTyped /\ RequestSound'
  <2>1. PICK r \in Request : Arrived(q, r)
    BY <1>3, ArriveAdds
  <2>2. QED
    BY <2>1 DEF Arrived, Others, RequestSound, Live
<1>4. ASSUME NEW q \in Requests, Reserve(q) PROVE RequestTyped /\ RequestSound'
  <2>1. q \in Live /\ Advances(q, "locking", request[q].new) /\ RequestTyped
    BY <1>4, GotoAdvances DEF Reserve, Is, Steps, RequestTyped
  <2>2. Staged(request'[q])
    BY <1>4, <2>1 DEF Advances, Staged, Reserve, Is, RequestSound, SetupSteps, RedeemSteps,
       NewSteps
  <2>3. QED
    BY <1>1, <2>1, <2>2, LiveRequest DEF Request, Steps
<1>5. ASSUME NEW q \in Requests, Lock(q) PROVE RequestTyped /\ RequestSound'
  <2> DEFINE s == IF request[q].op = "redeem" THEN "claim" ELSE "check"
  <2>1. q \in Live /\ s \in Steps /\ Goto(q, s)
    BY <1>5 DEF Lock, Is, Steps
  <2>2. Advances(q, s, request[q].new) /\ RequestTyped
    BY <2>1, GotoAdvances DEF RequestTyped
  <2>3. request[q].op # "bootstrap"
    BY <1>5 DEF Lock, Is, RequestSound, Staged, SetupSteps
  <2>4. Staged(request'[q])
    BY <2>2, <2>3 DEF Advances, Staged, SetupSteps, RedeemSteps, NewSteps
  <2>5. QED
    BY <1>1, <2>1, <2>2, <2>4, LiveRequest DEF Request
<1>6. ASSUME NEW q \in Requests, Unlock(q) PROVE RequestTyped /\ RequestSound'
  BY <1>2, <1>6, EndLeaves DEF Unlock, Is, End, RequestTyped
<1>7. ASSUME NEW q \in Requests, Inner(q) PROVE RequestTyped /\ RequestSound'
  BY <1>1, <1>2, <1>7, InnerMoves DEF InnerMove, Moves
<1>8. ASSUME NEW i \in Instances, Crash(i) PROVE RequestTyped /\ RequestSound'
  BY <1>8 DEF Crash, RequestTyped, RequestSound, Live, TypeOK
<1>9. CASE UNCHANGED request
  BY <1>9 DEF TypeOK, RequestTyped, RequestSound, Live
<1>10. QED
  BY <1>3, <1>4, <1>5, <1>6, <1>7, <1>8, <1>9
     DEF Next, Step, Inner, Expire, ChangePassword, vars

\* One request at a time is past the lock, and no other takes its place before
\* it has given the lock back or died.
LEMMA LockSoundStep ==
    ASSUME TypeOK, RequestSound, LockSound, [Next]_vars
    PROVE  lock' \in Requests \cup {None} /\ LockSound'
<1>1. ASSUME NEW q \in Requests, Arrive(q)
      PROVE  lock' \in Requests \cup {None} /\ LockSound'
  <2>1. PICK r \in Request : Arrived(q, r)
    BY <1>1, ArriveAdds
  <2>2. lock' = lock
    BY <1>1 DEF Arrive
  <2>3. ~Acting(q)'
    BY <2>1 DEF Arrived, Acting, Locked
  <2>4. \A p \in Requests \ {q} : Acting(p)' <=> Acting(p)
    BY <2>1 DEF Arrived, Others, Acting, Locked, Live
  <2>5. ~Acting(q)
    BY <2>1 DEF Arrived, Acting
  <2>6. QED
    BY <2>2, <2>3, <2>4, <2>5 DEF LockSound, TypeOK
<1>2. ASSUME NEW q \in Requests, Reserve(q)
      PROVE  lock' \in Requests \cup {None} /\ LockSound'
  <2>1. Advances(q, "locking", request[q].new) /\ request[q].step = "queued"
    BY <1>2, GotoAdvances DEF Reserve, Is, Steps
  <2>2. lock' = lock
    BY <1>2 DEF Reserve
  <2>3. ~Acting(q)' /\ ~Acting(q)
    BY <2>1 DEF Advances, Acting
  <2>4. \A p \in Requests \ {q} : Acting(p)' <=> Acting(p)
    BY <2>1 DEF Advances, Others, Acting, Locked, Live
  <2>5. QED
    BY <2>2, <2>3, <2>4 DEF LockSound, TypeOK
<1>3. ASSUME NEW q \in Requests, Lock(q)
      PROVE  lock' \in Requests \cup {None} /\ LockSound'
  <2> DEFINE s == IF request[q].op = "redeem" THEN "claim" ELSE "check"
  <2>1. q \in Live /\ s \in Steps /\ Goto(q, s) /\ lock = None /\ lock' = q
    BY <1>3 DEF Lock, Is, Steps, Available
  <2>2. Advances(q, s, request[q].new)
    BY <2>1, GotoAdvances
  <2>3. request[q].op # "bootstrap"
    BY <1>3 DEF Lock, Is, RequestSound, Staged, SetupSteps
  <2>4. Acting(q)'
    BY <2>2, <2>3 DEF Advances, Acting, Locked
  <2>5. \A p \in Requests \ {q} : Acting(p)' <=> Acting(p)
    BY <2>2 DEF Advances, Others, Acting, Locked, Live
  <2>6. \A p \in Requests : ~Acting(p)
    BY <2>1 DEF LockSound
  <2>7. QED
    BY <2>1, <2>4, <2>5, <2>6 DEF LockSound
<1>4. ASSUME NEW q \in Requests, Unlock(q)
      PROVE  lock' \in Requests \cup {None} /\ LockSound'
  <2>1. Leaves(q) /\ Is(q, "unlock")
    BY <1>4, EndLeaves DEF Unlock, Is, End
  <2>2. Acting(q)
    BY <2>1 DEF Is, RequestSound, Staged, SetupSteps, Acting, Locked
  <2>3. lock = q /\ lock' = None
    BY <1>4, <2>2 DEF LockSound, Unlock
  <2>4. \A p \in Requests : ~Acting(p)'
    BY <2>1, <2>3 DEF Leaves, Others, LockSound, Acting, Locked, Live
  <2>5. QED
    BY <2>3, <2>4 DEF LockSound
<1>5. ASSUME NEW q \in Requests, Inner(q)
      PROVE  lock' \in Requests \cup {None} /\ LockSound'
  <2>1. InnerMove(q)
    BY <1>5, InnerMoves
  <2>2. lock' = lock
    BY <2>1 DEF InnerMove
  <2>3. \A p \in Requests \ {q} : Acting(p)' <=> Acting(p)
    BY <2>1 DEF InnerMove, Moves, Leaves, Advances, Others, Acting, Locked, Live
  <2>4. Acting(q)' <=> Acting(q)
    BY <2>1 DEF InnerMove, Moves, Leaves, Advances, Acting, Locked, Live, Waits
  <2>5. QED
    BY <2>2, <2>3, <2>4 DEF LockSound, TypeOK
<1>6. ASSUME NEW i \in Instances, Crash(i)
      PROVE  lock' \in Requests \cup {None} /\ LockSound'
  <2>1. /\ request' = [q \in Requests |-> IF q \in At(i) THEN None ELSE request[q]]
        /\ lock' = IF lock \in At(i) THEN None ELSE lock
    BY <1>6 DEF Crash
  <2>2. \A p \in Requests : Acting(p)' <=> Acting(p) /\ p \notin At(i)
    BY <2>1 DEF Acting, Locked, Live, At
  <2>3. None \notin At(i)
    BY DEF At, Live
  <2>4. QED
    BY <2>1, <2>2, <2>3 DEF LockSound, TypeOK
<1>7. CASE UNCHANGED <<request, lock>>
  BY <1>7 DEF TypeOK, LockSound, Acting, Live, Locked
<1>8. QED
  BY <1>1, <1>2, <1>3, <1>4, <1>5, <1>6, <1>7
     DEF Next, Step, Inner, Expire, ChangePassword, Waiting, vars

\* Without its head, a queue holds the others one place earlier.
LEMMA TailShifts ==
  ASSUME NEW S, NEW s \in Seq(S), s # <<>>, NEW k \in DOMAIN s, k # 1
  PROVE  k - 1 \in DOMAIN Tail(s) /\ Tail(s)[k - 1] = s[k]
  OBVIOUS

\* A request keeps its place in a queue that stays as it is.
LEMMA InLineKept ==
    ASSUME NEW p \in Requests, InLine(p), request'[p].at = request[p].at,
           queue'[request[p].at] = queue[request[p].at],
           request'[p].step # "queued" =>
                request[p].step # "queued" \/ queue[request[p].at][1] = p
    PROVE  InLine(p)'
BY DEF InLine

\* A queued change keeps its place, and the one let in stays at the head.
LEMMA QueueSoundStep ==
    ASSUME TypeOK, RequestSound, QueueSound, [Next]_vars
    PROVE  queue' \in [Instances -> Seq(Requests)] /\ QueueSound'
<1>1. ASSUME NEW q \in Requests, Arrive(q)
      PROVE  queue' \in [Instances -> Seq(Requests)] /\ QueueSound'
  <2>1. PICK r \in Request : Arrived(q, r)
    BY <1>1, ArriveAdds
  <2>2. CASE r.op = "bootstrap"
    <3>1. queue' = queue
      BY <2>1, <2>2 DEF Arrived
    <3>2. ASSUME NEW p \in Live', Locked(p)' PROVE InLine(p)'
      <4>1. p \in Live /\ Locked(p) /\ request'[p] = request[p]
        BY <2>1, <2>2, <3>2 DEF Arrived, Others, Live, Locked
      <4>2. QED
        BY <3>1, <4>1, InLineKept DEF QueueSound, Live
    <3>3. QED
      BY <3>1, <3>2 DEF QueueSound, TypeOK
  <2>3. CASE r.op # "bootstrap"
    <3>1. r.at \in Instances /\ r.step = "queued"
      BY <2>1, <2>3 DEF Arrived, Request
    <3>2. queue' = [queue EXCEPT ![r.at] = Append(@, q)]
      BY <2>1, <2>3 DEF Arrived
    <3>3. queue[r.at] \in Seq(Requests)
      BY <3>1 DEF TypeOK
    <3>4. queue' \in [Instances -> Seq(Requests)]
      BY <3>1, <3>2, <3>3 DEF TypeOK
    <3>5. /\ DOMAIN queue'[r.at] = 1..(Len(queue[r.at]) + 1)
          /\ queue'[r.at][Len(queue[r.at]) + 1] = q
          /\ \A k \in DOMAIN queue[r.at] :
                k \in DOMAIN queue'[r.at] /\ queue'[r.at][k] = queue[r.at][k]
      BY <3>1, <3>2, <3>3 DEF TypeOK
    <3>6. ASSUME NEW p \in Live', Locked(p)'
          PROVE  InLine(p)'
      <4>1. CASE p = q
        <5>1. request'[p] = r /\ Len(queue[r.at]) + 1 \in DOMAIN queue'[r.at]
          BY <2>1, <3>3, <3>5, <4>1 DEF Arrived
        <5>2. QED
          BY <3>1, <3>5, <4>1, <5>1 DEF InLine
      <4>2. CASE p # q
        <5>1. p \in Live /\ Locked(p) /\ request'[p] = request[p]
          BY <2>1, <3>6, <4>2 DEF Arrived, Others, Live, Locked
        <5> DEFINE i == request[p].at
        <5>2. i \in Instances
          BY <5>1, LiveRequest DEF Request
        <5>3. PICK k \in DOMAIN queue[i] : queue[i][k] = p
          BY <5>1 DEF QueueSound, InLine
        <5>4. request[p].step # "queued" => queue[i][1] = p
          BY <5>1 DEF QueueSound, InLine
        <5>5. CASE i = r.at
          <6>1. 1 \in DOMAIN queue[i]
            BY <5>3, <5>5, <3>3
          <6>2. QED
            BY <3>5, <5>1, <5>3, <5>4, <5>5, <6>1 DEF InLine
        <5>6. CASE i # r.at
          <6>1. queue'[i] = queue[i]
            BY <3>2, <5>2, <5>6 DEF TypeOK
          <6>2. QED
            BY <5>1, <6>1, InLineKept DEF QueueSound, Live
        <5>7. QED
          BY <5>5, <5>6
      <4>3. QED
        BY <4>1, <4>2
    <3>7. QED
      BY <3>4, <3>6 DEF QueueSound
  <2>4. QED
    BY <2>2, <2>3
<1>2. ASSUME NEW q \in Requests, Reserve(q)
      PROVE  queue' \in [Instances -> Seq(Requests)] /\ QueueSound'
  <2>1. Advances(q, "locking", request[q].new)
    BY <1>2, GotoAdvances DEF Reserve, Is, Steps
  <2>2. queue' = queue /\ q \in Live /\ Head(queue[request[q].at]) = q
    BY <1>2 DEF Reserve, Is, MyTurn
  <2>3. request[q].op # "bootstrap"
    BY <1>2 DEF Reserve, Is, RequestSound, Staged, SetupSteps
  <2>4. PICK k \in DOMAIN queue[request[q].at] : queue[request[q].at][k] = q
    BY <2>2, <2>3 DEF QueueSound, Locked, InLine
  <2>5. queue[request[q].at] \in Seq(Requests)
    BY <2>2, LiveRequest DEF Request, TypeOK
  <2>6. queue[request[q].at][1] = q
    BY <2>2, <2>4, <2>5
  <2>7. ASSUME NEW p \in Live', Locked(p)' PROVE InLine(p)'
    <3>1. p \in Live /\ Locked(p) /\ request'[p].at = request[p].at
      BY <2>1, <2>7 DEF Advances, Others, Live, Locked
    <3>2. p # q => request'[p] = request[p]
      BY <2>1, <3>1 DEF Advances, Others, Live
    <3>3. QED
      BY <2>2, <2>6, <3>1, <3>2, InLineKept DEF QueueSound, Live
  <2>8. QED
    BY <2>2, <2>7 DEF QueueSound, TypeOK
<1>3. ASSUME NEW q \in Requests, Lock(q)
      PROVE  queue' \in [Instances -> Seq(Requests)] /\ QueueSound'
  <2> DEFINE s == IF request[q].op = "redeem" THEN "claim" ELSE "check"
  <2>1. q \in Live /\ s \in Steps /\ Goto(q, s) /\ queue' = queue
    BY <1>3 DEF Lock, Is, Steps
  <2>2. Advances(q, s, request[q].new) /\ request[q].step = "locking"
    BY <1>3, <2>1, GotoAdvances DEF Lock, Is
  <2>3. ASSUME NEW p \in Live', Locked(p)' PROVE InLine(p)'
    <3>1. p \in Live /\ Locked(p) /\ request'[p].at = request[p].at
      BY <2>2, <2>3 DEF Advances, Others, Live, Locked
    <3>2. p # q => request'[p] = request[p]
      BY <2>2, <3>1 DEF Advances, Others, Live
    <3>3. QED
      BY <2>1, <2>2, <3>1, <3>2, InLineKept DEF QueueSound, Live
  <2>4. QED
    BY <2>1, <2>3 DEF QueueSound, TypeOK
<1>4. ASSUME NEW q \in Requests, Unlock(q)
      PROVE  queue' \in [Instances -> Seq(Requests)] /\ QueueSound'
  <2> DEFINE i == request[q].at
  <2>1. Leaves(q) /\ Is(q, "unlock") /\ queue' = [queue EXCEPT ![i] = Tail(@)]
    BY <1>4, EndLeaves DEF Unlock, Is, End
  <2>2. q \in Live /\ Locked(q) /\ i \in Instances
    BY <2>1, LiveRequest DEF Is, RequestSound, Staged, SetupSteps, Locked, Request
  <2>3. queue[i] \in Seq(Requests) /\ queue[i] # <<>> /\ queue[i][1] = q
    BY <2>1, <2>2 DEF TypeOK, QueueSound, InLine, Is
  <2>4. /\ queue' \in [Instances -> Seq(Requests)] /\ queue'[i] = Tail(queue[i])
        /\ \A j \in Instances \ {i} : queue'[j] = queue[j]
    BY <2>1, <2>2, <2>3 DEF TypeOK
  <2>5. ASSUME NEW p \in Live', Locked(p)'
        PROVE  InLine(p)'
    <3>1. p \in Live /\ p # q /\ Locked(p) /\ request'[p] = request[p]
      BY <2>1, <2>5 DEF Leaves, Others, Live, Locked
    <3>2. request[p].at \in Instances
      BY <3>1, LiveRequest DEF Request
    <3>3. PICK k \in DOMAIN queue[request[p].at] : queue[request[p].at][k] = p
      BY <3>1 DEF QueueSound, InLine
    <3>4. CASE request[p].at = i
      <4>1. k # 1 /\ request[p].step = "queued"
        BY <2>3, <3>1, <3>3, <3>4 DEF QueueSound, InLine
      <4>2. k - 1 \in DOMAIN Tail(queue[i]) /\ Tail(queue[i])[k - 1] = p
        BY <2>3, <3>3, <3>4, <4>1, TailShifts
      <4>3. QED
        BY <2>4, <3>1, <3>4, <4>1, <4>2 DEF InLine
    <3>5. CASE request[p].at # i
      <4>1. queue'[request[p].at] = queue[request[p].at]
        BY <2>4, <3>2, <3>5
      <4>2. QED
        BY <3>1, <4>1, InLineKept DEF QueueSound, Live
    <3>6. QED
      BY <3>4, <3>5
  <2>6. QED
    BY <2>4, <2>5 DEF QueueSound
<1>5. ASSUME NEW q \in Requests, Inner(q)
      PROVE  queue' \in [Instances -> Seq(Requests)] /\ QueueSound'
  <2>1. InnerMove(q)
    BY <1>5, InnerMoves
  <2>2. queue' = queue /\ request[q].step # "queued"
    BY <2>1 DEF InnerMove, Waits
  <2>3. ASSUME NEW p \in Live'
        PROVE  /\ p \in Live /\ request'[p].at = request[p].at
               /\ Locked(p)' <=> Locked(p)
               /\ request'[p].step # "queued" => request[p].step # "queued"
    <3>1. CASE p = q
      BY <2>1, <2>2, <3>1, <2>3
         DEF InnerMove, Moves, Leaves, Advances, Locked, Live
    <3>2. CASE p # q
      BY <2>1, <3>2, <2>3 DEF InnerMove, Moves, Leaves, Advances, Others, Locked, Live
    <3>3. QED
      BY <3>1, <3>2
  <2>4. ASSUME NEW p \in Live', Locked(p)' PROVE InLine(p)'
    BY <2>2, <2>3, <2>4, InLineKept DEF QueueSound, Live
  <2>5. QED
    BY <2>2, <2>4 DEF QueueSound, TypeOK
<1>6. ASSUME NEW i \in Instances, Crash(i)
      PROVE  queue' \in [Instances -> Seq(Requests)] /\ QueueSound'
  <2>1. /\ request' = [q \in Requests |-> IF q \in At(i) THEN None ELSE request[q]]
        /\ queue' = [queue EXCEPT ![i] = <<>>]
    BY <1>6 DEF Crash
  <2>2. queue' \in [Instances -> Seq(Requests)]
    BY <2>1 DEF TypeOK
  <2>3. ASSUME NEW p \in Live'
        PROVE  /\ p \in Live /\ request'[p] = request[p]
               /\ Locked(p)' <=> Locked(p)
               /\ queue'[request'[p].at] = queue[request[p].at]
    <3>1. p \in Live /\ p \notin At(i) /\ request'[p] = request[p]
      BY <2>1, <2>3 DEF Live, At
    <3>2. request[p].at # i /\ request[p].at \in Instances
      BY <3>1, LiveRequest DEF At, Request
    <3>3. QED
      BY <2>1, <3>1, <3>2 DEF TypeOK, Locked
  <2>4. ASSUME NEW p \in Live', Locked(p)' PROVE InLine(p)'
    BY <2>3, <2>4, InLineKept DEF QueueSound, Live
  <2>5. QED
    BY <2>2, <2>4 DEF QueueSound
<1>7. CASE UNCHANGED <<request, queue>>
  BY <1>7 DEF TypeOK, QueueSound, InLine, Live, Locked
<1>8. QED
  BY <1>1, <1>2, <1>3, <1>4, <1>5, <1>6, <1>7
     DEF Next, Step, Inner, Expire, ChangePassword, Waiting, vars

-----------------------------------------------------------------------------
(* Types of the rows.                                                      *)

RowsTyped ==
    /\ account \in [Users -> RowStates] /\ roleRow \in [Roles -> RowStates]
    /\ admins \subseteq Users /\ resetting \subseteq Users /\ complete \subseteq Users
    /\ grants \in [Roles -> SUBSET Grantable]
    /\ member \in [Users -> SUBSET Roles]
    /\ invitation \in [Invitations -> Invitation]
LeftTyped ==
    left \in [requests : 0..MaxRequests, faults : 0..MaxFaults, crashes : 0..MaxCrashes]

\* A fault, a crash or an arrival uses up some of its bound.
LEMMA LeftTypedStep ==
    ASSUME TypeOK, [Next]_vars
    PROVE  LeftTyped'
<1>1. LeftTyped
  BY DEF TypeOK, LeftTyped
<1>2. ASSUME NEW q \in Requests, Arrive(q) PROVE LeftTyped'
  BY <1>1, <1>2 DEF Arrive, LeftTyped
<1>3. ASSUME NEW q \in Requests, Fail(q) PROVE LeftTyped'
  BY <1>1, <1>3 DEF Fail, LeftTyped
<1>4. ASSUME NEW i \in Instances, Crash(i) PROVE LeftTyped'
  BY <1>1, <1>4 DEF Crash, LeftTyped
<1>5. ASSUME NEW q \in Requests, Step(q) PROVE left' = left
  BY <1>5 DEF Step, Reserve, Lock, Check, Write, Refused, Unlock, Redeem, ClaimInvitation,
     ValidateInvitation, CreateMember, AssignInvitationRoles, DropMember, UnclaimInvitation,
     Setup, BootstrapAdmin, CreateFounder, InsertPermissionGrant, UndoFounder, Waiting
<1>6. QED
  BY <1>1, <1>2, <1>3, <1>4, <1>5
     DEF Next, Expire, ChangePassword, Waiting, vars, LeftTyped

\* An invitation whose status changes is an invitation.
LEMMA StatusTyped ==
    ASSUME NEW i \in Invitation, NEW s \in {"unused", "open", "claimed", "gone"}
    PROVE  [i EXCEPT !.status = s] \in Invitation
BY DEF Invitation

\* Removing a user, whatever refers to it.
LEMMA DeleteUserTyped ==
    ASSUME RowsTyped, NEW u \in Users, DeleteUser(u)
    PROVE  RowsTyped'
<1>1. ASSUME NEW i \in Invitation
      PROVE  [i EXCEPT !.status = "gone", !.roles = {}] \in Invitation
  <2>1. [i EXCEPT !.status = "gone"] \in Invitation
    BY <1>1 DEF Invitation
  <2>2. ASSUME NEW j \in Invitation PROVE [j EXCEPT !.roles = {}] \in Invitation
    BY <2>2 DEF Invitation
  <2>3. QED
    BY <2>1, <2>2
<1>2. invitation' \in [Invitations -> Invitation]
  BY <1>1 DEF DeleteUser, RowsTyped
<1>3. member' \in [Users -> SUBSET Roles]
  BY DEF DeleteUser, RowsTyped
<1>4. QED
  BY <1>2, <1>3 DEF DeleteUser, RowsTyped, RowStates

\* Removing a role, whoever holds it.
LEMMA DeleteRoleTyped ==
    ASSUME RowsTyped, NEW r \in Roles, DeleteRole(r)
    PROVE  RowsTyped'
<1>1. ASSUME NEW i \in Invitation PROVE [i EXCEPT !.roles = @ \ {r}] \in Invitation
  BY <1>1 DEF Invitation
<1>2. invitation' \in [Invitations -> Invitation]
  BY <1>1 DEF DeleteRole, RowsTyped
<1>3. member' \in [Users -> SUBSET Roles] /\ grants' \in [Roles -> SUBSET Grantable]
  BY DEF DeleteRole, RowsTyped
<1>4. QED
  BY <1>2, <1>3 DEF DeleteRole, RowsTyped, RowStates

\* The statement of a change.
LEMMA WriteTyped ==
    ASSUME TypeOK, RequestSound, NEW q \in Requests, Write(q)
    PROVE  RowsTyped'
<1> DEFINE r == request[q]
<1>1. q \in Live /\ r \in Request /\ Asked(r) /\ Staged(r) /\ r.step = "write"
  BY LiveRequest DEF Write, Is, RequestSound
<1>2. RowsTyped
  BY DEF TypeOK, RowsTyped
<1>3. r.op \notin {"redeem", "bootstrap"} /\ r.by \in Users
  BY <1>1 DEF Staged, Asked, SetupSteps
<1> HIDE DEF r
<1>4. CASE CreateRole(r.give) /\ r.give \subseteq GlobalPermissions
  BY <1>2, <1>4 DEF CreateRole, Grant, RowsTyped, RowStates, Grantable
<1>5. CASE UpdateRole(r.on, r.give) /\ r.on \in Roles /\ r.give \subseteq GlobalPermissions
  BY <1>2, <1>5 DEF UpdateRole, Grant, RowsTyped, Grantable
<1>6. CASE SetRoleAgentAccess(r.on, r.give) /\ r.on \in Roles
             /\ r.give \subseteq AgentPermissions
  BY <1>2, <1>6 DEF SetRoleAgentAccess, Grant, RowsTyped, Grantable
<1>7. CASE DeleteRole(r.on) /\ r.on \in Roles
  BY <1>2, <1>7, DeleteRoleTyped
<1>8. CASE AssignRoles(r.on, r.give) /\ r.on \in Users /\ r.give \subseteq Roles
  BY <1>2, <1>8 DEF AssignRoles, RowsTyped
<1>9. CASE ResetPassword(r.on) /\ r.on \in Users
  BY <1>2, <1>9 DEF ResetPassword, RowsTyped
<1>10. CASE \E u \in Users : DeleteUser(u)
  BY <1>2, <1>10, DeleteUserTyped
<1>11. CASE CreateInvitation(r.by, r.give) /\ r.give \subseteq Roles
  <2>1. [status |-> "open", by |-> r.by, roles |-> r.give, uses |-> 0] \in Invitation
    BY <1>3, <1>11 DEF Invitation
  <2>2. QED
    BY <1>2, <1>11, <2>1 DEF CreateInvitation, RowsTyped
<1>12. QED
  <2>1. r.op \in Ops \ {"redeem", "bootstrap"}
    BY <1>1, <1>3 DEF Request
  <2>2. /\ r.op = "createRole" => CreateRole(r.give)
        /\ r.op = "updateRole" => UpdateRole(r.on, r.give)
        /\ r.op = "setAccess"  => SetRoleAgentAccess(r.on, r.give)
        /\ r.op = "deleteRole" => DeleteRole(r.on)
        /\ r.op = "assign"     => AssignRoles(r.on, r.give)
        /\ r.op = "reset"      => ResetPassword(r.on)
        /\ r.op = "remove"     => DeleteUser(r.on)
        /\ r.op = "leave"      => DeleteUser(r.by)
        /\ r.op = "invite"     => CreateInvitation(r.by, r.give)
    BY DEF Write, r
  <2>3. QED
    BY <1>1, <1>3, <1>4, <1>5, <1>6, <1>7, <1>8, <1>9, <1>10, <1>11, <2>1, <2>2 DEF Ops, Asked

\* Redeeming.
LEMMA RedeemTyped ==
    ASSUME TypeOK, RequestSound, NEW q \in Requests, Redeem(q)
    PROVE  RowsTyped'
<1> DEFINE v == request[q].on  u == request[q].new
<1>1. RowsTyped
  BY DEF TypeOK, RowsTyped
<1>2. q \in Live /\ v \in Invitations
  <2>1. q \in Live /\ request[q].step \in RedeemSteps
    BY DEF Redeem, ClaimInvitation, ValidateInvitation, CreateMember, AssignInvitationRoles,
       DropMember, UnclaimInvitation, Is, RedeemSteps
  <2>2. QED
    BY <2>1 DEF RequestSound, Asked, Staged
<1>3. ASSUME NEW s \in {"claimed", "open"}, SetStatus(v, s)
      PROVE  invitation' \in [Invitations -> Invitation]
  BY <1>1, <1>2, <1>3, StatusTyped DEF SetStatus, RowsTyped
<1>4. CASE ClaimInvitation(q)
  BY <1>1, <1>3, <1>4 DEF ClaimInvitation, RowsTyped
<1>5. CASE ValidateInvitation(q)
  BY <1>1, <1>5 DEF ValidateInvitation, Rows, RowsTyped
<1>6. CASE CreateMember(q)
  BY <1>1, <1>6 DEF CreateMember, CreateUser, RowsTyped, RowStates
<1>7. CASE AssignInvitationRoles(q)
  <2>1. u \in Users
    BY <1>2, <1>7 DEF AssignInvitationRoles, Is, RequestSound, Staged, NewSteps
  <2>2. [invitation[v] EXCEPT !.uses = @ + 1] \in Invitation /\ invitation[v].roles \subseteq Roles
    BY <1>1, <1>2 DEF RowsTyped, Invitation
  <2>3. QED
    BY <1>1, <1>2, <1>7, <2>1, <2>2 DEF AssignInvitationRoles, RowsTyped
<1>8. CASE DropMember(q)
  <2>1. u \in Users /\ DeleteUser(u)
    BY <1>2, <1>8 DEF DropMember, Is, RequestSound, Staged, NewSteps
  <2>2. QED
    BY <1>1, <2>1, DeleteUserTyped
<1>9. CASE UnclaimInvitation(q)
  BY <1>1, <1>3, <1>9 DEF UnclaimInvitation, RowsTyped
<1>10. QED
  BY <1>4, <1>5, <1>6, <1>7, <1>8, <1>9 DEF Redeem

\* Setting up the first administrator.
LEMMA SetupTyped ==
    ASSUME TypeOK, RequestSound, NEW q \in Requests, Setup(q)
    PROVE  RowsTyped'
<1> DEFINE u == request[q].new
<1>1. RowsTyped
  BY DEF TypeOK, RowsTyped
<1>2. CASE BootstrapAdmin(q)
  BY <1>1, <1>2 DEF BootstrapAdmin, Rows, RowsTyped
<1>3. CASE CreateFounder(q)
  BY <1>1, <1>3 DEF CreateFounder, CreateUser, RowsTyped, RowStates
<1>4. CASE InsertPermissionGrant(q)
  <2>1. u \in Users
    BY <1>4 DEF InsertPermissionGrant, Is, RequestSound, Staged, NewSteps
  <2>2. QED
    BY <1>1, <1>4, <2>1 DEF InsertPermissionGrant, RowsTyped
<1>5. CASE UndoFounder(q)
  <2>1. u \in Users /\ DeleteUser(u)
    BY <1>5 DEF UndoFounder, Is, RequestSound, Staged, NewSteps
  <2>2. QED
    BY <1>1, <2>1, DeleteUserTyped
<1>6. QED
  BY <1>2, <1>3, <1>4, <1>5 DEF Setup

\* Every step keeps the rows of their type.
LEMMA RowsTypedStep ==
    ASSUME TypeOK, RequestSound, [Next]_vars
    PROVE  RowsTyped'
<1>1. RowsTyped
  BY DEF TypeOK, RowsTyped
<1>2. CASE UNCHANGED Rows
  BY <1>1, <1>2 DEF Rows, RowsTyped
<1>3. ASSUME NEW q \in Requests, Arrive(q) \/ Fail(q) PROVE UNCHANGED Rows
  BY <1>3 DEF Arrive, Fail, Rows
<1>4. ASSUME NEW q \in Requests, Reserve(q) \/ Lock(q) \/ Unlock(q) \/ Check(q) \/ Refused(q)
      PROVE UNCHANGED Rows
  BY <1>4 DEF Reserve, Lock, Unlock, Check, Refused, Rows
<1>5. ASSUME NEW v \in Invitations, Expire(v) PROVE RowsTyped'
  BY <1>1, <1>5, StatusTyped DEF Expire, SetStatus, RowsTyped
<1>6. ASSUME NEW u \in Users, ChangePassword(u) PROVE RowsTyped'
  BY <1>1, <1>6 DEF ChangePassword, RowsTyped
<1>7. ASSUME NEW i \in Instances, Crash(i) PROVE UNCHANGED Rows
  BY <1>7 DEF Crash
<1>8. CASE UNCHANGED vars
  BY <1>2, <1>8 DEF vars, Rows
<1>9. QED
  BY <1>2, <1>3, <1>4, <1>5, <1>6, <1>7, <1>8, WriteTyped, RedeemTyped, SetupTyped
     DEF Next, Step

\* Types, requests, queues and the lock.
LockInv == TypeOK /\ RequestSound /\ QueueSound /\ LockSound

\* At the start nobody waits and nobody holds the lock.
LEMMA LockInvInit == Init => LockInv
<1> SUFFICES ASSUME Init PROVE LockInv
  OBVIOUS
<1>1. Live = {} /\ lock = None
  BY DEF Init, Live
<1>2. RequestSound /\ QueueSound /\ LockSound
  BY <1>1 DEF RequestSound, QueueSound, LockSound, Acting
<1>3. RowsTyped
  <2>1. NoInvitation \in Invitation
    BY DEF NoInvitation, Invitation
  <2>2. {"users:manage", "roles:manage"} \subseteq Grantable
    BY DEF Grantable, GlobalPermissions
  <2>3. grants \in [Roles -> SUBSET Grantable]
    BY <2>2 DEF Init
  <2>4. PICK staff \in {{}, {Founder, Manager}} :
        /\ account = [u \in Users |-> IF u \in staff THEN "there" ELSE "unused"]
        /\ admins = staff \cap {Founder}
        /\ member = [u \in Users |-> IF u \in staff \cap {Manager} THEN {DefaultRole} ELSE {}]
        /\ complete = staff
    BY DEF Init
  <2>5. account \in [Users -> RowStates] /\ admins \subseteq Users /\ complete \subseteq Users
        /\ member \in [Users -> SUBSET Roles]
    BY <2>4 DEF RowStates
  <2>6. roleRow \in [Roles -> RowStates]
    BY DEF Init, RowStates
  <2>7. QED
    BY <2>1, <2>3, <2>5, <2>6 DEF Init, RowsTyped
<1>4. TypeOK
  BY <1>1, <1>3 DEF Init, TypeOK, RowsTyped
<1>5. QED
  BY <1>2, <1>4 DEF LockInv

\* Every step keeps the requests, the queues and the lock sound.
LEMMA LockInvStep == LockInv /\ [Next]_vars => LockInv'
<1> SUFFICES ASSUME LockInv, [Next]_vars PROVE LockInv'
  OBVIOUS
<1>1. TypeOK'
  BY RequestSoundStep, LockSoundStep, QueueSoundStep, RowsTypedStep, LeftTypedStep
     DEF LockInv, TypeOK, RequestTyped, RowsTyped, LeftTyped
<1>2. QED
  BY <1>1, RequestSoundStep, LockSoundStep, QueueSoundStep DEF LockInv

\* Every variable keeps its type.
THEOREM RolesTypeCorrect == Spec => []TypeOK
<1>1. LockInv => TypeOK
  BY DEF LockInv
<1>2. QED
  BY <1>1, LockInvInit, LockInvStep, PTL DEF Spec

-----------------------------------------------------------------------------
(* Permissions.                                                            *)

\* What a permission implies implies nothing further.
LEMMA Implied ==
    ASSUME NEW p, NEW x \in ImpliedBy(p)
    PROVE  x \in Grantable /\ ImpliedBy(x) = {}
BY DEF ImpliedBy, Grantable, GlobalPermissions, AgentPermissions

\* What is granted is among what is implied.
LEMMA InExpand ==
    ASSUME NEW S, NEW x
    PROVE  x \in Expand(S) <=> x \in S \/ \E p \in S : x \in ImpliedBy(p)
BY DEF Expand

\* Whoever holds some permissions holds those they imply.
LEMMA EffectiveClosed ==
    ASSUME NEW u, NEW S, S \subseteq Effective(u)
    PROVE  Expand(S) \subseteq Effective(u)
<1> SUFFICES ASSUME NEW x \in Expand(S) PROVE x \in Effective(u)
  OBVIOUS
<1>1. CASE x \in S
  BY <1>1
<1>2. CASE \E p \in S : x \in ImpliedBy(p)
  <2>1. PICK p \in S : x \in ImpliedBy(p)
    BY <1>2
  <2>2. CASE u \in admins
    BY <2>1, <2>2, Implied DEF Effective
  <2>3. CASE u \notin admins
    <3> DEFINE T == UNION {grants[r] : r \in member[u]}
    <3>1. p \in Expand(T) /\ Effective(u) = Expand(T)
      BY <2>1, <2>3 DEF Effective
    <3> HIDE DEF T
    <3>2. p \in T \/ \E o \in T : p \in ImpliedBy(o)
      BY <3>1, InExpand
    <3>3. p \in T
      BY <2>1, <3>2, Implied
    <3>4. QED
      BY <2>1, <3>1, <3>3, InExpand
  <2>4. QED
    BY <2>2, <2>3
<1>3. QED
  BY <1>1, <1>2, InExpand

\* Only what differs, and what it implies, makes a difference.
LEMMA ExpandDifference ==
    ASSUME NEW S, NEW T
    PROVE  Difference(Expand(S), Expand(T)) \subseteq Expand(Difference(S, T))
<1> SUFFICES ASSUME NEW x \in Difference(Expand(S), Expand(T))
             PROVE  x \in Expand(Difference(S, T))
  OBVIOUS
<1>1. CASE x \in Expand(S) /\ x \notin Expand(T)
  <2>1. x \notin T /\ \A p \in T : x \notin ImpliedBy(p)
    BY <1>1, InExpand
  <2>2. x \in S \/ \E p \in S : x \in ImpliedBy(p)
    BY <1>1, InExpand
  <2>3. x \in Difference(S, T) \/ \E p \in Difference(S, T) : x \in ImpliedBy(p)
    BY <2>1, <2>2 DEF Difference
  <2>4. QED
    BY <2>3, InExpand
<1>2. CASE x \in Expand(T) /\ x \notin Expand(S)
  <2>1. x \notin S /\ \A p \in S : x \notin ImpliedBy(p)
    BY <1>2, InExpand
  <2>2. x \in T \/ \E p \in T : x \in ImpliedBy(p)
    BY <1>2, InExpand
  <2>3. x \in Difference(S, T) \/ \E p \in Difference(S, T) : x \in ImpliedBy(p)
    BY <2>1, <2>2 DEF Difference
  <2>4. QED
    BY <2>3, InExpand
<1>3. QED
  BY <1>1, <1>2 DEF Difference

\* Only the administrator is effectively one.
LEMMA AdminEffective ==
    ASSUME TypeOK, NEW u \in Users, "admin" \in Effective(u)
    PROVE  u \in admins
<1> SUFFICES ASSUME u \notin admins PROVE FALSE
  OBVIOUS
<1> DEFINE T == UNION {grants[r] : r \in member[u]}
<1>1. "admin" \in Expand(T) /\ T \subseteq Grantable
  BY DEF Effective, TypeOK
<1> HIDE DEF T
<1>2. "admin" \in Grantable
  BY <1>1, InExpand, Implied
<1>3. QED
  BY <1>2 DEF Grantable, GlobalPermissions, AgentPermissions

\* Nobody holds anything where there is no administrator.
LEMMA NobodyHolds ==
    ASSUME AccessSound, NEW u \in Users, NEW p \in Effective(u)
    PROVE  admins # {}
<1> SUFFICES ASSUME admins = {} PROVE FALSE
  OBVIOUS
<1>1. UNION {grants[r] : r \in member[u]} = {}
  BY DEF AccessSound
<1>2. p \in Expand({})
  BY <1>1 DEF Effective
<1>3. QED
  BY <1>2, InExpand

\* So a request that passed its check has an administrator around.
LEMMA CheckedHasAdmin ==
    ASSUME AccessSound, NEW q, Checked(q)
    PROVE  admins # {}
BY NobodyHolds DEF Checked

\* Nobody but the administrator passes the check of a change to the administrator.
LEMMA AdminUntouched ==
    ASSUME TypeOK, RequestSound, AccessSound, NEW q \in Live, Checked(q), StillThere(q),
           request[q].op \in {"reset", "remove"}
    PROVE  request[q].on \in Users \ admins
<1>1. /\ request[q].on \in Users /\ request[q].by \in Users /\ request[q].on # request[q].by
      /\ Operator(q) = request[q].by
  BY DEF RequestSound, Asked, Operator
<1>2. Effective(request[q].on) \subseteq Effective(request[q].by)
  BY <1>1 DEF Checked, Targeted
<1>3. SUFFICES ASSUME request[q].on \in admins PROVE FALSE
  BY <1>1
<1>4. "admin" \in Effective(request[q].by)
  BY <1>2, <1>3 DEF Effective
<1>5. QED
  BY <1>1, <1>3, <1>4, AdminEffective DEF AccessSound

-----------------------------------------------------------------------------
(* What others do while a request is at work.                              *)

SameAsk(p) ==
    /\ p \in Live /\ request'[p].op = request[p].op /\ request'[p].by = request[p].by
    /\ request'[p].on = request[p].on /\ request'[p].give = request[p].give
\* No request asks anything else than before, and at most one moves.
Serves(q) == \A p \in Live' : SameAsk(p) /\ (p # q => request'[p] = request[p])

\* Rows that are there stay, or are deleted.
RowsGoOn ==
    /\ \A u \in Users : account[u] # "unused" => account'[u] # "unused"
    /\ \A r \in Roles : roleRow[r] # "unused" => roleRow'[r] # "unused"
    /\ \A v \in Invitations : invitation[v].status # "unused" =>
            invitation'[v].status # "unused" /\ invitation'[v].by = invitation[v].by

\* A request that moves is still asking what it asked.
LEMMA MovesServes == ASSUME NEW q, Moves(q) PROVE Serves(q)
BY DEF Moves, Serves, SameAsk, Leaves, Advances, Others, Live

\* Accounts still being created, while no other account is.
LEMMA NewKept ==
    ASSUME RequestSound, NewSound, NEW q, Serves(q), RowsGoOn,
           \A u \in admins' : u \in admins \/ \A p \in Live' : request'[p].new # u,
           \A v \in Invitations : invitation'[v].status # "unused" =>
                invitation[v].status # "unused" \/ Known(invitation'[v].by),
           q \in Live' => request'[q].new = request[q].new
    PROVE  NewSound'
<1>1. \A p \in Live' : SameAsk(p) /\ request'[p].new = request[p].new
  BY DEF Serves
<1>2. \A u : Known(u) => Known(u)'
  BY <1>1 DEF Known, RowsGoOn, SameAsk
<1>3. ASSUME NEW p \in Live', request'[p].new \in Users
      PROVE  /\ account'[request'[p].new] # "unused"
             /\ request'[p].new \notin admins'
             /\ \A o \in Live' : request'[o].new = request'[p].new => o = p
  BY <1>1, <1>3 DEF NewSound, SameAsk, RowsGoOn
<1>4. ASSUME NEW p \in Live'
      PROVE  /\ request'[p].by \in Users => Known(request[p].by)'
             /\ \A r \in Roles : r \in request'[p].give => roleRow'[r] # "unused"
  BY <1>1, <1>2 DEF NewSound, SameAsk, RowsGoOn
<1>5. ASSUME NEW p \in Live', request'[p].op = "redeem"
      PROVE  invitation'[request'[p].on].status # "unused"
  BY <1>1, <1>5 DEF RequestSound, Asked, NewSound, SameAsk, RowsGoOn
<1>6. ASSUME NEW v \in Invitations, invitation'[v].status # "unused"
      PROVE  Known(invitation[v].by)'
  BY <1>2, <1>6 DEF NewSound, RowsGoOn
<1>7. QED
  BY <1>3, <1>4, <1>5, <1>6 DEF NewSound

\* The one that is created now.
LEMMA NewCreated ==
    ASSUME NewSound, AccessSound, NEW q \in Live', NEW u \in Users, Serves(q),
           account[u] = "unused", account' = [account EXCEPT ![u] = "there"],
           account \in [Users -> RowStates],
           request'[q].new = u, UNCHANGED <<admins, roleRow, invitation>>
    PROVE  NewSound'
<1>1. \A p \in Live' : SameAsk(p) /\ (p # q => request'[p].new = request[p].new)
  BY DEF Serves
<1>2. \A w \in Users : account[w] # "unused" => account'[w] = account[w] /\ w # u
  OBVIOUS
<1>3. \A w : Known(w) => Known(w)'
  BY <1>1, <1>2 DEF Known, SameAsk
<1>4. ASSUME NEW p \in Live', request'[p].new \in Users
      PROVE  /\ account'[request'[p].new] # "unused"
             /\ request'[p].new \notin admins'
             /\ \A o \in Live' : request'[o].new = request'[p].new => o = p
  <2>1. \A o \in Live' : o # q => request'[o].new # u
    BY <1>1 DEF NewSound, SameAsk
  <2>2. u \notin admins /\ account'[u] = "there"
    BY DEF AccessSound
  <2>3. QED
    BY <1>1, <1>2, <1>4, <2>1, <2>2 DEF NewSound, SameAsk
<1>5. ASSUME NEW p \in Live'
      PROVE  /\ request'[p].by \in Users => Known(request[p].by)'
             /\ request'[p].op = "redeem" => invitation'[request'[p].on].status # "unused"
             /\ \A r \in Roles : r \in request'[p].give => roleRow'[r] # "unused"
  BY <1>1, <1>3 DEF NewSound, SameAsk
<1>6. ASSUME NEW v \in Invitations, invitation'[v].status # "unused"
      PROVE  Known(invitation[v].by)'
  BY <1>3, <1>6 DEF NewSound
<1>7. QED
  BY <1>4, <1>5, <1>6 DEF NewSound

\* What matters to a check that was passed: everything but the users still being
\* created.
Frame ==
    /\ UNCHANGED <<grants, admins>> /\ resetting' \subseteq resetting
    /\ \A u \in Users :
        /\ account[u] # "unused" => account'[u] # "unused" /\
                (account'[u] = "there" => account[u] = "there")
        /\ \/ member'[u] = member[u]
           \/ member'[u] = {} /\ account'[u] = "deleted" /\ ~Known(u)
    /\ \A v \in Invitations : invitation[v].status # "unused" =>
        invitation'[v].by = invitation[v].by /\ invitation'[v].roles = invitation[v].roles

\* A check holds as long as the rows it read do.
LEMMA CheckKept ==
    ASSUME TypeOK, RequestSound, NewSound, Frame, NEW p \in Live', SameAsk(p), Checked(p)
    PROVE  Checked(p)'
<1> DEFINE r == request[p]
<1>1. p \in Live /\ Asked(r) /\ r \in Request /\ request'[p].op = r.op
      /\ request'[p].by = r.by /\ request'[p].on = r.on /\ request'[p].give = r.give
  BY LiveRequest DEF SameAsk, RequestSound
<1>2. r.op = "redeem" => /\ r.on \in Invitations /\ invitation[r.on].status # "unused"
                         /\ invitation'[r.on].by = invitation[r.on].by
                         /\ invitation'[r.on].roles = invitation[r.on].roles
  BY <1>1 DEF Asked, NewSound, Frame
<1>3. Operator(p)' = Operator(p)
  BY <1>1, <1>2 DEF Operator
<1>4. Known(Operator(p))
  BY <1>1, <1>2 DEF Operator, NewSound, Checked
<1> DEFINE o == Operator(p)
<1>5. o \in Users /\ member'[o] = member[o]
  BY <1>4 DEF Known, Frame
<1>6. Effective(o)' = Effective(o)
  BY <1>3, <1>5 DEF Effective, Frame
<1>7. Effective(Operator(p))' = Effective(o)
  BY <1>3, <1>6
<1>8. o \notin resetting' /\ Manages(r.op) \in Effective(o)
  BY DEF Checked, Frame
<1>9. OfUser(p)' <=> OfUser(p)
  BY <1>1 DEF OfUser
<1>10. OfUser(p) => /\ r.on \in Users /\ account[r.on] # "unused" /\ account'[r.on] # "unused"
                    /\ account'[r.on] = "there" => account[r.on] = "there"
  BY <1>1 DEF OfUser, Asked, Checked, Frame
<1>11. ASSUME StillThere(p)' PROVE Targeted(p)' \subseteq Effective(o)
  <2>1. StillThere(p)
    BY <1>1, <1>10, <1>11 DEF StillThere, OfUser
  <2>2. Targeted(p) \subseteq Effective(o)
    BY <2>1 DEF Checked
  <2>3. OfUser(p) => member'[r.on] = member[r.on]
    BY <1>1, <1>10, <1>11 DEF StillThere, OfUser, Frame
  <2>4. r.op \in {"reset", "remove"} => Effective(r.on)' = Effective(r.on)
    <3> SUFFICES ASSUME r.op \in {"reset", "remove"} PROVE Effective(r.on)' = Effective(r.on)
      OBVIOUS
    <3>1. member'[request'[p].on] = member[request[p].on] /\ request'[p].on = request[p].on
      BY <1>1, <2>3 DEF OfUser
    <3>2. grants' = grants /\ admins' = admins
      BY DEF Frame
    <3>3. QED
      BY <3>1, <3>2 DEF Effective
  <2>5. r.op \in {"createRole", "updateRole", "setAccess", "deleteRole"} =>
            Targeted(p)' = Targeted(p)
    BY <1>1 DEF Targeted, Frame
  <2>6. r.op = "assign" => Targeted(p)' = Targeted(p)
    BY <1>1, <2>3 DEF Targeted, OfUser, PermissionsOf, Frame
  <2>7. r.op \in {"reset", "remove"} => Targeted(p)' = Targeted(p)
    BY <1>1, <2>4 DEF Targeted
  <2>8. r.op \in {"invite", "redeem"} => Targeted(p)' = Targeted(p)
    BY <1>1, <1>2 DEF Targeted, PermissionsOf, Frame
  <2>9. r.op \in {"leave", "bootstrap"} => Targeted(p)' = Targeted(p)
    BY <1>1 DEF Targeted
  <2>10. QED
    BY <1>1, <2>2, <2>5, <2>6, <2>7, <2>8, <2>9 DEF Request, Ops
<1> HIDE DEF o
<1>12. QED
  BY <1>1, <1>3, <1>5, <1>7, <1>8, <1>9, <1>10, <1>11 DEF Checked, o

\* Who holds what, who is being created, and what is cleared for writing.
HeldInv == AccessSound /\ NewSound /\ CheckSound

\* So do the checks of all, while those rows and the requests stay.
LEMMA CheckSoundKept ==
    ASSUME TypeOK, RequestSound, NewSound, CheckSound, Frame,
           \A p \in Live' : SameAsk(p) /\
                (request'[p].step \in Cleared => request'[p] = request[p])
    PROVE  CheckSound'
<1> SUFFICES ASSUME NEW p \in Live', request'[p].step \in Cleared
             PROVE  /\ IF request[p].op = "leave" THEN request[p].by \notin admins'
                       ELSE Checked(p)'
                    /\ request'[p].step = "attach" => member'[request'[p].new] = {}
  <2>1. "attach" \in Cleared /\ \A p \in Live' : request'[p].op = request[p].op
            /\ request'[p].by = request[p].by
    BY DEF Cleared, SameAsk
  <2>2. QED
    BY <2>1 DEF CheckSound
<1>1. p \in Live /\ request'[p] = request[p] /\ SameAsk(p)
  BY DEF SameAsk
<1>2. IF request[p].op = "leave" THEN request[p].by \notin admins ELSE Checked(p)
  BY <1>1 DEF CheckSound
<1>3. request[p].step = "attach" => member[request[p].new] = {} /\ request[p].new \in Users
  BY <1>1 DEF CheckSound, RequestSound, Staged, NewSteps
<1>4. request[p].step = "attach" => member'[request[p].new] = {}
  BY <1>3 DEF Frame
<1>5. QED
  BY <1>1, <1>2, <1>4, CheckKept DEF Frame

\* A step that leaves rows and checks alone.
LEMMA HeldKept ==
    ASSUME TypeOK, RequestSound, HeldInv, NEW q, Serves(q), Frame, RowsGoOn, AccessSound',
           \A v \in Invitations : invitation[v].status = "unused" =>
                invitation'[v].status = "unused",
           q \in Live' => /\ request'[q].new = request[q].new
                          /\ request'[q].step \in Cleared => request'[q] = request[q]
    PROVE  HeldInv'
<1>1. NewSound'
  BY NewKept DEF HeldInv, Frame
<1>2. CheckSound'
  BY CheckSoundKept DEF HeldInv, Serves
<1>3. QED
  BY <1>1, <1>2 DEF HeldInv

\* A step that changes no row, and leaves nobody newly cleared.
LEMMA HeldQuiet ==
    ASSUME TypeOK, RequestSound, HeldInv, NEW q, Serves(q), UNCHANGED Rows,
           q \in Live' => /\ request'[q].new = request[q].new
                          /\ request'[q].step \in Cleared => request'[q] = request[q]
    PROVE  HeldInv'
<1>1. /\ account' = account /\ admins' = admins /\ resetting' = resetting
      /\ roleRow' = roleRow /\ grants' = grants /\ member' = member
      /\ invitation' = invitation
  BY DEF Rows
<1>2. Frame /\ RowsGoOn
  BY <1>1 DEF Frame, RowsGoOn
<1>3. AccessSound'
  BY <1>1 DEF HeldInv, AccessSound
<1>4. QED
  BY <1>1, <1>2, <1>3, HeldKept

\* The statement of the only request that is past its check.
LEMMA OthersWait ==
    ASSUME TypeOK, RequestSound, LockSound, NEW q, Acting(q), Serves(q),
           q \in Live' => request'[q].step \notin Cleared
    PROVE  CheckSound'
<1> SUFFICES ASSUME NEW p \in Live', request'[p].step \in Cleared PROVE FALSE
  BY DEF CheckSound, Cleared
<1>1. p # q /\ p \in Live /\ request[p].step \in Cleared
  BY DEF Serves, SameAsk
<1>2. Acting(p)
  BY <1>1 DEF RequestSound, Staged, SetupSteps, Cleared, Acting, Locked
<1>3. q \in Requests /\ p \in Requests
  BY <1>1 DEF Acting, Live
<1>4. QED
  BY <1>1, <1>2, <1>3 DEF LockSound

\* Removing an account that is not the administrator's.
LEMMA DeleteUserAccess ==
    ASSUME RowsTyped, AccessSound, NEW u \in Users, u \notin admins, DeleteUser(u)
    PROVE  AccessSound' /\ RowsGoOn /\ UNCHANGED <<admins, grants>>
<1>1. /\ account' = [account EXCEPT ![u] = "deleted"] /\ admins' = admins
      /\ member' = [member EXCEPT ![u] = {}] /\ roleRow' = roleRow /\ grants' = grants
  BY DEF DeleteUser
<1>2. \A v \in Invitations :
        /\ invitation'[v].by = invitation[v].by
        /\ invitation'[v].roles \subseteq invitation[v].roles
        /\ invitation[v].status # "unused" <=> invitation'[v].status # "unused"
        /\ invitation[v].by # u => invitation'[v] = invitation[v]
  <2> SUFFICES ASSUME NEW v \in Invitations
               PROVE  /\ invitation'[v].by = invitation[v].by
                      /\ invitation'[v].roles \subseteq invitation[v].roles
                      /\ invitation[v].status # "unused" <=> invitation'[v].status # "unused"
                      /\ invitation[v].by # u => invitation'[v] = invitation[v]
    OBVIOUS
  <2>1. invitation'[v] =
            IF invitation[v].by = u /\ invitation[v].status # "unused"
            THEN [invitation[v] EXCEPT !.status = "gone", !.roles = {}] ELSE invitation[v]
    BY DEF DeleteUser
  <2>2. invitation[v] \in Invitation
    BY DEF RowsTyped
  <2>3. LET j == [invitation[v] EXCEPT !.status = "gone", !.roles = {}] IN
        j.by = invitation[v].by /\ j.roles = {} /\ j.status = "gone"
    BY <2>2 DEF Invitation
  <2>4. QED
    BY <2>1, <2>3
<1>3. AccessSound'
  <2>1. \A w \in Users : member'[w] \subseteq member[w]
    BY <1>1 DEF RowsTyped
  <2>2. \A w \in Users : account'[w] = "unused" => account[w] = "unused"
    BY <1>1 DEF RowsTyped
  <2>3. QED
    BY <1>1, <1>2, <2>1, <2>2 DEF AccessSound
<1>4. RowsGoOn
  BY <1>1, <1>2 DEF RowsGoOn, RowsTyped
<1>5. QED
  BY <1>1, <1>3, <1>4

\* In particular one that is still being created.
LEMMA DeleteNewFrame ==
    ASSUME RowsTyped, NewSound, NEW u \in Users, u \notin admins, ~Known(u), DeleteUser(u)
    PROVE  Frame /\ \A v \in Invitations : invitation[v].status = "unused" =>
                        invitation'[v].status = "unused"
<1>1. /\ account' = [account EXCEPT ![u] = "deleted"] /\ admins' = admins
      /\ member' = [member EXCEPT ![u] = {}] /\ grants' = grants
      /\ resetting' \subseteq resetting
  BY DEF DeleteUser
<1>2. \A v \in Invitations : invitation'[v] = invitation[v]
  BY DEF DeleteUser, NewSound
<1>3. QED
  BY <1>1, <1>2 DEF Frame, RowsTyped

\* An invitation whose status changes is still sent by the same user.
LEMMA StatusHeld ==
    ASSUME TypeOK, RequestSound, HeldInv, NEW q, Serves(q),
           NEW v \in Invitations, NEW s \in {"open", "claimed", "gone"},
           SetStatus(v, s), invitation[v].status # "unused",
           UNCHANGED <<account, admins, resetting, roleRow, grants, member>>,
           q \in Live' => /\ request'[q].new = request[q].new
                          /\ request'[q].step \in Cleared => request'[q] = request[q]
    PROVE  HeldInv'
<1>1. \A w \in Invitations :
        /\ invitation'[w].by = invitation[w].by /\ invitation'[w].roles = invitation[w].roles
        /\ invitation'[w].status = "unused" <=> invitation[w].status = "unused"
  <2>1. invitation[v] \in Invitation
    BY DEF TypeOK
  <2>2. /\ invitation'[v] = [invitation[v] EXCEPT !.status = s]
        /\ \A w \in Invitations \ {v} : invitation'[w] = invitation[w]
    BY DEF SetStatus, TypeOK
  <2>3. QED
    BY <2>1, <2>2 DEF Invitation
<1>2. Frame /\ RowsGoOn
  BY <1>1 DEF Frame, RowsGoOn
<1>3. AccessSound'
  BY <1>1 DEF HeldInv, AccessSound
<1>4. QED
  BY <1>1, <1>2, <1>3, HeldKept

-----------------------------------------------------------------------------
(* The steps, one by one.                                                  *)

\* A request at a later step is still asking what it asked.
LEMMA AdvancesServes ==
    ASSUME NEW q, NEW s, NEW u, Advances(q, s, u)
    PROVE  Serves(q) /\ q \in Live /\ q \in Live' /\ request'[q].new = u
           /\ request'[q].step = s
BY DEF Serves, SameAsk, Advances, Others, Live

\* A request that arrives is nobody's account and has passed no check.
LEMMA HeldArrive ==
    ASSUME TypeOK, RequestSound, HeldInv, NEW q \in Requests, Arrive(q)
    PROVE  HeldInv'
<1>1. PICK r \in Request : Arrived(q, r)
  BY ArriveAdds
<1>2. UNCHANGED Rows
  BY DEF Arrive, Rows
<1>3. /\ account' = account /\ admins' = admins /\ resetting' = resetting
      /\ roleRow' = roleRow /\ grants' = grants /\ member' = member
      /\ invitation' = invitation
  BY <1>2 DEF Rows
<1>4. \A p \in Live' : p # q => p \in Live /\ request'[p] = request[p]
  BY <1>1 DEF Arrived, Others, Live
<1>5. q \notin Live /\ request'[q] = r /\ r.new = None /\ r.step \in {"look", "queued"}
      /\ Asks(r)
  BY <1>1 DEF Arrived
<1>6. AccessSound'
  BY <1>3 DEF HeldInv, AccessSound
<1>7. ASSUME NEW u PROVE Known(u) => Known(u)'
  BY <1>3, <1>4, <1>5 DEF Known
<1>8. NewSound'
  <2>1. ASSUME NEW p \in Live', request'[p].new \in Users
        PROVE  /\ account'[request'[p].new] # "unused"
               /\ request'[p].new \notin admins'
               /\ \A o \in Live' : request'[o].new = request'[p].new => o = p
    BY <1>3, <1>4, <1>5, <2>1 DEF HeldInv, NewSound
  <2>2. ASSUME NEW p \in Live'
        PROVE  /\ request'[p].by \in Users => Known(request[p].by)'
               /\ request'[p].op = "redeem" => invitation'[request'[p].on].status # "unused"
               /\ \A s \in Roles : s \in request'[p].give => roleRow'[s] # "unused"
    <3>1. CASE p # q
      BY <1>3, <1>4, <1>7, <3>1 DEF HeldInv, NewSound
    <3>2. CASE p = q
      <4>1. r.by \in Users => Known(r.by)
        BY <1>5 DEF Asks, Known
      <4>2. r.op = "redeem" => r.on \in Invitations
        BY <1>1 DEF Arrived, Asked
      <4>3. r.op = "redeem" => invitation[r.on].status # "unused"
        BY <1>5, <4>2 DEF Asks
      <4>4. \A s \in Roles : s \in r.give => roleRow[s] # "unused"
        BY <1>5 DEF Asks
      <4>5. r.by \in Users => Known(request[q].by)'
        BY <1>5, <1>7, <4>1
      <4>6. QED
        BY <1>3, <1>5, <3>2, <4>3, <4>4, <4>5
    <3>3. QED
      BY <3>1, <3>2
  <2>3. ASSUME NEW v \in Invitations, invitation'[v].status # "unused"
        PROVE  Known(invitation[v].by)'
    BY <1>3, <1>7, <2>3 DEF HeldInv, NewSound
  <2>4. QED
    BY <2>1, <2>2, <2>3 DEF NewSound
<1>9. CheckSound'
  <2> SUFFICES ASSUME NEW p \in Live', request'[p].step \in Cleared
               PROVE  /\ IF request[p].op = "leave" THEN request[p].by \notin admins
                         ELSE Checked(p)'
                      /\ request'[p].step = "attach" => member'[request'[p].new] = {}
                      /\ request'[p] = request[p]
    BY <1>3 DEF CheckSound, Cleared
  <2>1. p \in Live /\ request'[p] = request[p] /\ SameAsk(p)
    BY <1>4, <1>5 DEF Cleared, SameAsk
  <2>2. Frame
    BY <1>3 DEF Frame
  <2>3. IF request[p].op = "leave" THEN request[p].by \notin admins ELSE Checked(p)'
    BY <2>1, <2>2, CheckKept DEF HeldInv, CheckSound
  <2>4. request'[p].step = "attach" => member'[request'[p].new] = {}
    BY <1>3, <2>1 DEF HeldInv, CheckSound
  <2>5. QED
    BY <2>1, <2>3, <2>4
<1>10. QED
  BY <1>6, <1>8, <1>9 DEF HeldInv

\* A check that passes clears the request.
LEMMA HeldCheck ==
    ASSUME TypeOK, RequestSound, HeldInv, NEW q \in Requests, Check(q) \/ ValidateInvitation(q)
    PROVE  HeldInv'
<1> DEFINE r == request[q]
<1>1. q \in Live /\ r.step \in {"check", "validate"} /\ UNCHANGED Rows
  BY DEF Check, ValidateInvitation, Is
<1>2. PICK s \in {"write", "unlock", "create", "unclaim"} :
        Goto(q, s) /\ (s \in {"write", "create"} => Authorized(q))
  BY DEF Check, ValidateInvitation
<1>3. Advances(q, s, r.new)
  BY <1>1, <1>2, GotoAdvances DEF Steps
<1>4. Serves(q) /\ q \in Live' /\ request'[q].new = r.new /\ request'[q].step = s
  BY <1>3, AdvancesServes
<1>5. CASE s \in {"unlock", "unclaim"}
  BY <1>1, <1>4, <1>5, HeldQuiet DEF Cleared
<1>6. CASE s \in {"write", "create"}
  <2>1. /\ account' = account /\ admins' = admins /\ resetting' = resetting
        /\ roleRow' = roleRow /\ grants' = grants /\ member' = member
        /\ invitation' = invitation
    BY <1>1 DEF Rows
  <2>2. Frame /\ RowsGoOn
    BY <2>1 DEF Frame, RowsGoOn
  <2>3. AccessSound'
    BY <2>1 DEF HeldInv, AccessSound
  <2>4. NewSound'
    BY <1>4, <2>1, <2>2, NewKept DEF HeldInv
  <2>5. IF r.op = "leave" THEN r.by \notin admins ELSE Checked(q)
    BY <1>2, <1>6 DEF Authorized, Checked, Found, OfUser
  <2>6. SameAsk(q)
    BY <1>4 DEF Serves
  <2>7. IF request'[q].op = "leave" THEN request'[q].by \notin admins' ELSE Checked(q)'
    BY <1>4, <2>1, <2>2, <2>5, <2>6, CheckKept DEF HeldInv, SameAsk
  <2>8. \A p \in Live' \ {q} : p \in Live /\ request'[p] = request[p] /\ SameAsk(p)
    BY <1>4 DEF Serves, SameAsk
  <2>9. ASSUME NEW p \in Live' \ {q}
        PROVE /\ request'[p].step \in Cleared =>
                    IF request'[p].op = "leave" THEN request'[p].by \notin admins'
                    ELSE Checked(p)'
              /\ request'[p].step = "attach" => member'[request'[p].new] = {}
    BY <2>1, <2>2, <2>8, CheckKept DEF HeldInv, CheckSound
  <2>10. CheckSound'
    BY <1>4, <1>6, <2>7, <2>9 DEF CheckSound
  <2>11. QED
    BY <2>3, <2>4, <2>10 DEF HeldInv
<1>7. QED
  BY <1>5, <1>6

\* The steps that leave every row as it is.
LEMMA HeldIdle ==
    ASSUME TypeOK, RequestSound, HeldInv, NEW q \in Requests,
           Reserve(q) \/ Lock(q) \/ Unlock(q) \/ Refused(q) \/ BootstrapAdmin(q) \/ Fail(q)
    PROVE  HeldInv'
<1>1. q \in Live /\ UNCHANGED Rows
  BY DEF Reserve, Lock, Unlock, Refused, BootstrapAdmin, Fail, Is, Rows
<1>2. ASSUME NEW s \in Steps \ Cleared, Goto(q, s) PROVE HeldInv'
  <2>1. Serves(q) /\ request'[q].new = request[q].new /\ request'[q].step \notin Cleared
    BY <1>1, <1>2, GotoAdvances, AdvancesServes
  <2>2. QED
    BY <1>1, <2>1, HeldQuiet
<1>3. CASE End(q)
  <2>1. Leaves(q)
    BY <1>1, <1>3, EndLeaves
  <2>2. Serves(q) /\ q \notin Live'
    BY <2>1 DEF Leaves, Others, Serves, SameAsk, Live
  <2>3. QED
    BY <1>1, <2>2, HeldQuiet
<1>4. CASE Reserve(q) \/ Lock(q) \/ Refused(q) \/ (BootstrapAdmin(q) /\ ~End(q))
  BY <1>2, <1>4 DEF Reserve, Lock, Refused, BootstrapAdmin, Steps, Cleared
<1>5. CASE Unlock(q)
  BY <1>3, <1>5 DEF Unlock, End
<1>6. CASE Fail(q) /\ ~End(q)
  <2>1. Goto(q, Catch(request[q].step)) /\ Catch(request[q].step) # "none"
    BY <1>6 DEF Fail
  <2>2. Catch(request[q].step) \in Steps \ Cleared
    BY <2>1 DEF Catch, Steps, Cleared
  <2>3. QED
    BY <1>2, <2>1, <2>2
<1>7. QED
  BY <1>3, <1>4, <1>5, <1>6

\* A change that was cleared: whoever holds access can give or take it only where
\* there is an administrator, and the administrator is not removed.
LEMMA WriteAccess ==
    ASSUME TypeOK, RequestSound, HeldInv, NEW q \in Requests, Write(q)
    PROVE  AccessSound' /\ RowsGoOn /\ UNCHANGED admins
           /\ \A v \in Invitations : invitation'[v].status # "unused" =>
                invitation[v].status # "unused" \/ Known(invitation'[v].by)
<1> DEFINE r == request[q]
           Sent == \A v \in Invitations : invitation'[v].status # "unused" =>
                        invitation[v].status # "unused" \/ Known(invitation'[v].by)
           Goal == AccessSound' /\ RowsGoOn /\ UNCHANGED admins /\ Sent
<1> SUFFICES Goal
  OBVIOUS
<1>1. /\ q \in Live /\ r \in Request /\ Asked(r) /\ Staged(r) /\ r.step = "write"
      /\ StillThere(q)
  BY LiveRequest DEF Write, Is, RequestSound
<1>2. r.op \in Ops \ {"redeem", "bootstrap"} /\ r.by \in Users
  BY <1>1 DEF Staged, Asked, SetupSteps, Request
<1>3. AccessSound /\ RowsTyped /\ NewSound
  BY DEF HeldInv, TypeOK, RowsTyped
<1>4. IF r.op = "leave" THEN r.by \notin admins ELSE Checked(q)
  BY <1>1 DEF HeldInv, CheckSound, Cleared
<1>5. \A x \in Roles : x \in r.give => roleRow[x] # "unused"
  BY <1>1, <1>3 DEF NewSound
<1>6. Known(r.by)
  BY <1>1, <1>2, <1>3 DEF NewSound
<1> HIDE DEF r
<1>7. ASSUME r.give \subseteq GlobalPermissions, CreateRole(r.give) PROVE Goal
  BY <1>3, <1>7 DEF CreateRole, AccessSound, RowsGoOn, RowsTyped
<1>8. ASSUME UpdateRole(r.on, r.give) \/ SetRoleAgentAccess(r.on, r.give) PROVE Goal
  BY <1>3, <1>8 DEF UpdateRole, SetRoleAgentAccess, AccessSound, RowsGoOn
<1>9. ASSUME r.on \in Roles, DeleteRole(r.on) PROVE Goal
  <2>1. /\ roleRow' = [roleRow EXCEPT ![r.on] = "deleted"] /\ account' = account
        /\ admins' = admins /\ \A u \in Users : member'[u] = member[u] \ {r.on}
    BY <1>9 DEF DeleteRole
  <2>2. \A v \in Invitations :
            /\ invitation'[v].status = invitation[v].status
            /\ invitation'[v].by = invitation[v].by
            /\ invitation'[v].roles = invitation[v].roles \ {r.on}
    BY <1>3, <1>9 DEF DeleteRole, RowsTyped, Invitation
  <2>3. AccessSound'
    BY <1>3, <2>1, <2>2 DEF AccessSound, RowsTyped
  <2>4. QED
    BY <1>3, <2>1, <2>2, <2>3 DEF RowsGoOn, RowsTyped
<1>10. ASSUME r.on \in Users, account[r.on] = "there", admins # {}, r.give \subseteq Roles,
              AssignRoles(r.on, r.give)
       PROVE  Goal
  BY <1>3, <1>5, <1>10 DEF AssignRoles, AccessSound, RowsGoOn, RowsTyped
<1>11. ASSUME ResetPassword(r.on) PROVE Goal
  BY <1>3, <1>11 DEF ResetPassword, AccessSound, RowsGoOn
<1>12. ASSUME NEW u \in Users, u \notin admins, DeleteUser(u) PROVE Goal
  <2>1. AccessSound' /\ RowsGoOn /\ UNCHANGED admins
    BY <1>3, <1>12, DeleteUserAccess
  <2>2. \A v \in Invitations : invitation[v].status = "unused" => invitation'[v] = invitation[v]
    BY <1>12 DEF DeleteUser
  <2>3. Sent
    BY <2>2
  <2>4. QED
    BY <2>1, <2>3
<1>13. ASSUME r.give \subseteq Roles, CreateInvitation(r.by, r.give) PROVE Goal
  <2>1. PICK v \in Invitations : /\ invitation[v].status = "unused"
            /\ invitation' = [invitation EXCEPT ![v] =
                    [status |-> "open", by |-> r.by, roles |-> r.give, uses |-> 0]]
    BY <1>13 DEF CreateInvitation
  <2>2. /\ invitation'[v].by = r.by /\ invitation'[v].roles = r.give
        /\ invitation'[v].status = "open"
        /\ \A w \in Invitations \ {v} : invitation'[w] = invitation[w]
    BY <1>3, <2>1 DEF RowsTyped
  <2>3. UNCHANGED <<account, admins, roleRow, member>>
    BY <1>13 DEF CreateInvitation
  <2>4. AccessSound'
    BY <1>3, <1>5, <2>2, <2>3 DEF AccessSound
  <2>5. RowsGoOn /\ Sent
    BY <1>6, <2>1, <2>2, <2>3 DEF RowsGoOn
  <2>6. QED
    BY <2>3, <2>4, <2>5
<1> HIDE DEF Goal
<1>14. CASE r.op = "createRole"
  BY <1>1, <1>7, <1>14 DEF Write, Asked, r
<1>15. CASE r.op \in {"updateRole", "setAccess"}
  BY <1>8, <1>15 DEF Write, r
<1>16. CASE r.op = "deleteRole"
  BY <1>1, <1>9, <1>16 DEF Write, Asked, r
<1>17. CASE r.op = "assign"
  <2>1. admins # {}
    BY <1>3, <1>4, <1>17, CheckedHasAdmin
  <2>2. account[r.on] = "there"
    BY <1>1, <1>17 DEF StillThere, r
  <2>3. QED
    BY <1>1, <1>10, <1>17, <2>1, <2>2 DEF Write, Asked, r
<1>18. CASE r.op = "reset"
  BY <1>11, <1>18 DEF Write, r
<1>19. CASE r.op = "remove"
  <2>1. r.on \in Users \ admins
    BY <1>1, <1>3, <1>4, <1>19, AdminUntouched DEF r
  <2>2. QED
    BY <1>12, <1>19, <2>1 DEF Write, r
<1>20. CASE r.op = "leave"
  BY <1>2, <1>4, <1>12, <1>20 DEF Write, r
<1>21. CASE r.op = "invite"
  BY <1>1, <1>13, <1>21 DEF Write, Asked, r
<1>22. QED
  BY <1>2, <1>14, <1>15, <1>16, <1>17, <1>18, <1>19, <1>20, <1>21 DEF Ops

\* The statement of a change.
LEMMA HeldWrite ==
    ASSUME TypeOK, RequestSound, LockSound, HeldInv, NEW q \in Requests, Write(q)
    PROVE  HeldInv'
<1>1. q \in Live /\ request[q].step = "write" /\ Goto(q, "unlock")
  BY DEF Write, Is
<1>2. /\ Serves(q) /\ q \in Live' /\ request'[q].new = request[q].new
      /\ request'[q].step = "unlock"
  BY <1>1, GotoAdvances, AdvancesServes DEF Steps
<1>3. Acting(q)
  BY <1>1 DEF RequestSound, Staged, SetupSteps, Acting, Locked
<1>4. CheckSound'
  BY <1>2, <1>3, OthersWait DEF Cleared
<1>5. NewSound'
  BY <1>2, WriteAccess, NewKept DEF HeldInv
<1>6. QED
  BY <1>4, <1>5, WriteAccess DEF HeldInv

\* Claiming and giving back an invitation.
LEMMA HeldStatus ==
    ASSUME TypeOK, RequestSound, HeldInv, NEW q \in Requests,
           ClaimInvitation(q) \/ UnclaimInvitation(q)
    PROVE  HeldInv'
<1> DEFINE v == request[q].on
<1>1. q \in Live /\ request[q].step \in {"claim", "unclaim"}
      /\ UNCHANGED <<account, admins, resetting, roleRow, grants, member, complete>>
  BY DEF ClaimInvitation, UnclaimInvitation, Is
<1>2. request[q].op = "redeem" /\ v \in Invitations
  BY <1>1 DEF RequestSound, Staged, Asked, RedeemSteps
<1>3. PICK s \in {"validate", "unlock"} : Goto(q, s)
  BY DEF ClaimInvitation, UnclaimInvitation
<1>4. Serves(q) /\ request'[q].new = request[q].new /\ request'[q].step \notin Cleared
  BY <1>1, <1>3, GotoAdvances, AdvancesServes DEF Steps, Cleared
<1>5. CASE UNCHANGED invitation
  BY <1>1, <1>4, <1>5, HeldQuiet DEF Rows
<1>6. CASE \E x \in {"open", "claimed", "gone"} : SetStatus(v, x)
  <2>1. invitation[v].status # "unused"
    BY <1>1, <1>2 DEF HeldInv, NewSound
  <2>2. QED
    BY <1>1, <1>2, <1>4, <1>6, <2>1, StatusHeld
<1>7. QED
  BY <1>5, <1>6 DEF ClaimInvitation, UnclaimInvitation

\* The account of a new member, or of the first administrator.
LEMMA HeldCreate ==
    ASSUME TypeOK, RequestSound, HeldInv, NEW q \in Requests, CreateMember(q) \/ CreateFounder(q)
    PROVE  HeldInv'
<1>1. /\ q \in Live
      /\ UNCHANGED <<admins, resetting, roleRow, grants, member, invitation, complete>>
      /\ request[q].step = (IF CreateMember(q) THEN "create" ELSE "found")
  BY DEF CreateMember, CreateFounder, CreateUser, Is
<1>2. CASE UNCHANGED account /\ (End(q) \/ Goto(q, "unclaim"))
  <2>1. UNCHANGED Rows
    BY <1>1, <1>2 DEF Rows
  <2>2. Serves(q) /\ (q \in Live' => request'[q].new = request[q].new
                                    /\ request'[q].step \notin Cleared)
    <3>1. CASE End(q)
      BY <1>1, <3>1, EndLeaves DEF Leaves, Others, Serves, SameAsk, Live
    <3>2. CASE Goto(q, "unclaim")
      BY <1>1, <3>2, GotoAdvances, AdvancesServes DEF Steps, Cleared
    <3>3. QED
      BY <1>2, <3>1, <3>2
  <2>3. QED
    BY <2>1, <2>2, HeldQuiet
<1>3. ASSUME NEW u \in Users, NEW s \in {"attach", "grant"},
             account[u] = "unused", account' = [account EXCEPT ![u] = "there"],
             request' = [request EXCEPT ![q] = [@ EXCEPT !.step = s, !.new = u]],
             s = "attach" => request[q].step = "create"
      PROVE  HeldInv'
  <2>1. Advances(q, s, u)
    <3>1. s \in Steps /\ q \in Live
      BY <1>1 DEF Steps
    <3>2. request' = [request EXCEPT ![q] = [@ EXCEPT !.step = s, !.new = u]]
      BY <1>3
    <3> HIDE <1>3
    <3>3. QED
      BY <3>1, <3>2, CreateAdvances
  <2>2. Serves(q) /\ q \in Live' /\ request'[q].new = u /\ request'[q].step = s
    BY <2>1, AdvancesServes
  <2>3. account \in [Users -> RowStates]
    BY DEF TypeOK
  <2>4. NewSound'
    BY <1>1, <1>3, <2>2, <2>3, NewCreated DEF HeldInv
  <2>5. AccessSound'
    BY <1>1, <1>3, <2>3 DEF HeldInv, AccessSound
  <2>6. Frame
    BY <1>1, <1>3, <2>3 DEF Frame
  <2>7. \A p \in Live' \ {q} : p \in Live /\ request'[p] = request[p] /\ SameAsk(p)
    BY <2>2 DEF Serves, SameAsk
  <2>8. ASSUME NEW p \in Live' \ {q}
        PROVE /\ request'[p].step \in Cleared =>
                    IF request'[p].op = "leave" THEN request'[p].by \notin admins'
                    ELSE Checked(p)'
              /\ request'[p].step = "attach" => member'[request'[p].new] = {}
    BY <1>1, <2>6, <2>7, CheckKept DEF HeldInv, CheckSound
  <2>9. s = "attach" => Checked(q)' /\ member'[u] = {} /\ request'[q].op # "leave"
    <3> SUFFICES ASSUME s = "attach"
                 PROVE  Checked(q)' /\ member'[u] = {} /\ request'[q].op # "leave"
      OBVIOUS
    <3>1. request[q].op = "redeem"
      BY <1>1, <1>3 DEF RequestSound, Staged, RedeemSteps
    <3>2. Checked(q)
      BY <1>1, <1>3, <3>1 DEF HeldInv, CheckSound, Cleared
    <3>3. SameAsk(q)
      BY <2>2 DEF Serves
    <3>4. Checked(q)'
      BY <2>2, <2>6, <3>2, <3>3, CheckKept DEF HeldInv
    <3>5. member'[u] = {}
      BY <1>1, <1>3 DEF HeldInv, AccessSound
    <3>6. QED
      BY <3>1, <3>3, <3>4, <3>5 DEF SameAsk
  <2>10. CheckSound'
    BY <1>3, <2>2, <2>8, <2>9 DEF CheckSound, Cleared
  <2>11. QED
    BY <2>4, <2>5, <2>10 DEF HeldInv
<1>4. CASE CreateMember(q)
  BY <1>1, <1>2, <1>3, <1>4 DEF CreateMember, CreateUser
<1>5. CASE CreateFounder(q)
  BY <1>1, <1>2, <1>3, <1>5 DEF CreateFounder, CreateUser
<1>6. QED
  BY <1>4, <1>5

\* A request that has created an account keeps it from everybody else.
LEMMA NewUnknown ==
    ASSUME RequestSound, NewSound, NEW q \in Live, request[q].step \in NewSteps
    PROVE  /\ request[q].new \in Users \ admins /\ ~Known(request[q].new)
           /\ account[request[q].new] # "unused"
BY DEF RequestSound, Staged, NewSound, Known

\* A new member gets the roles of the invitation that was checked.
LEMMA HeldAttach ==
    ASSUME TypeOK, RequestSound, LockSound, HeldInv, NEW q \in Requests, AssignInvitationRoles(q)
    PROVE  HeldInv'
<1> DEFINE v == request[q].on  u == request[q].new
<1>1. /\ q \in Live /\ request[q].step = "attach" /\ Goto(q, "unlock")
      /\ member' = [member EXCEPT ![u] = invitation[v].roles]
      /\ invitation' = [invitation EXCEPT ![v].uses = @ + 1]
      /\ UNCHANGED <<account, admins, resetting, roleRow, grants>>
  BY DEF AssignInvitationRoles, Is
<1>2. /\ Serves(q) /\ q \in Live' /\ request'[q].new = u /\ request'[q].step = "unlock"
  BY <1>1, GotoAdvances, AdvancesServes DEF Steps
<1>3. request[q].op = "redeem" /\ v \in Invitations
  BY <1>1 DEF RequestSound, Staged, Asked, RedeemSteps
<1>4. u \in Users \ admins /\ account[u] # "unused"
  BY <1>1, NewUnknown DEF HeldInv, NewSteps
<1>5. admins # {}
  BY <1>1, <1>3, CheckedHasAdmin DEF HeldInv, CheckSound, Cleared
<1>6. \A w \in Invitations :
        /\ invitation'[w].by = invitation[w].by /\ invitation'[w].roles = invitation[w].roles
        /\ invitation'[w].status = invitation[w].status
  <2>1. invitation[v] \in Invitation
    BY <1>3 DEF TypeOK
  <2>2. /\ invitation'[v] = [invitation[v] EXCEPT !.uses = @ + 1]
        /\ \A w \in Invitations \ {v} : invitation'[w] = invitation[w]
    BY <1>1, <1>3 DEF TypeOK
  <2>3. QED
    BY <2>1, <2>2 DEF Invitation
<1>7. \A w \in Users : member'[w] = IF w = u THEN invitation[v].roles ELSE member[w]
  BY <1>1 DEF TypeOK
<1>8. AccessSound'
  BY <1>1, <1>3, <1>4, <1>5, <1>6, <1>7 DEF HeldInv, AccessSound
<1>9. RowsGoOn
  BY <1>1, <1>6 DEF RowsGoOn
<1>10. NewSound'
  BY <1>1, <1>2, <1>6, <1>9, NewKept DEF HeldInv
<1>11. Acting(q)
  BY <1>1, <1>3 DEF Acting, Locked
<1>12. CheckSound'
  BY <1>2, <1>11, OthersWait DEF Cleared
<1>13. QED
  BY <1>8, <1>10, <1>12 DEF HeldInv

\* What was created for nothing is removed.
LEMMA HeldUndo ==
    ASSUME TypeOK, RequestSound, HeldInv, NEW q \in Requests, DropMember(q) \/ UndoFounder(q)
    PROVE  HeldInv'
<1> DEFINE u == request[q].new
<1>1. /\ q \in Live /\ request[q].step \in NewSteps /\ DeleteUser(u)
      /\ Goto(q, "unclaim") \/ End(q)
  BY DEF DropMember, UndoFounder, Is, NewSteps
<1>2. u \in Users \ admins /\ ~Known(u) /\ RowsTyped
  BY <1>1, NewUnknown DEF HeldInv, TypeOK, RowsTyped
<1>3. AccessSound' /\ RowsGoOn
  BY <1>1, <1>2, DeleteUserAccess DEF HeldInv
<1>4. Frame /\ \A v \in Invitations : invitation[v].status = "unused" =>
                        invitation'[v].status = "unused"
  BY <1>1, <1>2, DeleteNewFrame DEF HeldInv
<1>5. Serves(q) /\ (q \in Live' => request'[q].new = request[q].new
                                  /\ request'[q].step \notin Cleared)
  <2>1. CASE End(q)
    BY <1>1, <2>1, EndLeaves DEF Leaves, Others, Serves, SameAsk, Live
  <2>2. CASE Goto(q, "unclaim")
    BY <1>1, <2>2, GotoAdvances, AdvancesServes DEF Steps, Cleared
  <2>3. QED
    BY <1>1, <2>1, <2>2
<1>6. QED
  BY <1>3, <1>4, <1>5, HeldKept

\* The first administrator: nobody has passed a check before there is one.
LEMMA HeldGrant ==
    ASSUME TypeOK, RequestSound, HeldInv, NEW q \in Requests, InsertPermissionGrant(q)
    PROVE  HeldInv'
<1> DEFINE u == request[q].new
<1>1. /\ q \in Live /\ request[q].step = "grant"
      /\ UNCHANGED <<account, resetting, roleRow, grants, member, invitation>>
  BY DEF InsertPermissionGrant, Is
<1>2. CASE Goto(q, "undo") /\ UNCHANGED <<admins, complete>>
  <2>1. UNCHANGED Rows
    BY <1>1, <1>2 DEF Rows
  <2>2. Serves(q) /\ request'[q].new = request[q].new /\ request'[q].step \notin Cleared
    BY <1>1, <1>2, GotoAdvances, AdvancesServes DEF Steps, Cleared
  <2>3. QED
    BY <2>1, <2>2, HeldQuiet
<1>3. CASE Grantee(u) /\ admins' = admins \cup {u} /\ End(q)
  <2>1. Serves(q) /\ q \notin Live'
    BY <1>1, <1>3, EndLeaves DEF Leaves, Others, Serves, SameAsk, Live
  <2>2. admins = {} /\ account[u] = "there" /\ admins' = {u} /\ u \in Users
    BY <1>1, <1>3, NewUnknown DEF Grantee, HeldInv, NewSteps
  <2>3. AccessSound'
    BY <1>1, <2>2 DEF HeldInv, AccessSound
  <2>4. \A p \in Live' : p \in Live /\ request'[p] = request[p] /\ request[p].new # u
    BY <1>1, <2>1, <2>2 DEF Serves, SameAsk, HeldInv, NewSound
  <2>5. RowsGoOn
    BY <1>1 DEF RowsGoOn
  <2>6. NewSound'
    BY <1>1, <2>1, <2>2, <2>4, <2>5, NewKept DEF HeldInv
  <2>7. ASSUME NEW p \in Live', request'[p].step \in Cleared
        PROVE  request'[p].op = "leave" /\ request'[p].by \notin admins'
               /\ request'[p].step # "attach"
    <3>1. p \in Live /\ request'[p] = request[p]
      BY <2>4
    <3>2. ~Checked(p)
      BY <2>2, CheckedHasAdmin DEF HeldInv
    <3>3. request[p].op = "leave"
      BY <2>7, <3>1, <3>2 DEF HeldInv, CheckSound
    <3>4. request[p].by \in Users /\ request[p].step # "attach"
      BY <3>1, <3>3 DEF RequestSound, Asked, Staged, RedeemSteps
    <3>5. request[p].by # u
      BY <1>1, <3>1, <3>4 DEF HeldInv, NewSound, Known
    <3>6. QED
      BY <2>2, <3>1, <3>3, <3>4, <3>5
  <2>8. CheckSound'
    BY <2>7 DEF CheckSound, Cleared
  <2>9. QED
    BY <2>3, <2>6, <2>8 DEF HeldInv
<1>4. QED
  BY <1>2, <1>3 DEF InsertPermissionGrant

\* Time, users who choose a password, and processes that die.
LEMMA HeldOutside ==
    ASSUME TypeOK, RequestSound, HeldInv,
           \/ \E v \in Invitations : Expire(v)
           \/ \E u \in Users : ChangePassword(u)
           \/ \E i \in Instances : Crash(i)
           \/ UNCHANGED vars
    PROVE  HeldInv'
<1>1. \A p \in Live' : p \in Live /\ request'[p] = request[p]
  BY DEF Expire, ChangePassword, Crash, vars, Live
<1>2. Serves(None) /\ None \notin Live'
  BY <1>1 DEF Serves, SameAsk, Live
<1>3. ASSUME NEW v \in Invitations, Expire(v) PROVE HeldInv'
  <2>1. SetStatus(v, "gone") /\ invitation[v].status # "unused"
        /\ UNCHANGED <<account, admins, resetting, roleRow, grants, member>>
    BY <1>3 DEF Expire
  <2>2. QED
    BY <1>2, <2>1, StatusHeld
<1>4. ASSUME NEW u \in Users, ChangePassword(u) PROVE HeldInv'
  <2>1. resetting' \subseteq resetting
        /\ UNCHANGED <<account, admins, roleRow, grants, member, invitation>>
    BY <1>4 DEF ChangePassword
  <2>2. Frame /\ RowsGoOn
    BY <2>1 DEF Frame, RowsGoOn
  <2>3. AccessSound'
    BY <2>1 DEF HeldInv, AccessSound
  <2>4. QED
    BY <1>2, <2>1, <2>2, <2>3, HeldKept
<1>5. CASE (\E i \in Instances : Crash(i)) \/ UNCHANGED vars
  <2>1. UNCHANGED Rows
    BY <1>5 DEF Crash, vars, Rows
  <2>2. QED
    BY <1>2, <2>1, HeldQuiet
<1>6. QED
  BY <1>3, <1>4, <1>5

\* A deployment is set up with one administrator and nothing under way.
LEMMA HeldInit == Init => HeldInv
<1> SUFFICES ASSUME Init PROVE HeldInv
  OBVIOUS
<1>1. Live = {}
  BY DEF Init, Live
<1>2. \A v \in Invitations : invitation[v].status = "unused" /\ invitation[v].roles = {}
  BY DEF Init, NoInvitation
<1>3. PICK staff \in {{}, {Founder, Manager}} :
        /\ account = [u \in Users |-> IF u \in staff THEN "there" ELSE "unused"]
        /\ admins = staff \cap {Founder}
        /\ member = [u \in Users |-> IF u \in staff \cap {Manager} THEN {DefaultRole} ELSE {}]
  BY DEF Init
<1>4. roleRow[DefaultRole] = "there"
  BY DEF Init
<1>5. AccessSound
  BY <1>2, <1>3, <1>4 DEF AccessSound
<1>6. NewSound /\ CheckSound
  BY <1>1, <1>2 DEF NewSound, CheckSound
<1>7. QED
  BY <1>5, <1>6 DEF HeldInv

\* Every step keeps what the checks established.
LEMMA HeldStep == LockInv /\ HeldInv /\ [Next]_vars => HeldInv'
<1> SUFFICES ASSUME LockInv, HeldInv, [Next]_vars PROVE HeldInv'
  OBVIOUS
<1>1. TypeOK /\ RequestSound /\ LockSound
  BY DEF LockInv
<1>2. ASSUME NEW q \in Requests, Step(q) PROVE HeldInv'
  <2>1. CASE Redeem(q)
    BY <1>1, <2>1, HeldStatus, HeldCheck, HeldCreate, HeldAttach, HeldUndo DEF Redeem
  <2>2. CASE Setup(q)
    BY <1>1, <2>2, HeldIdle, HeldCreate, HeldGrant, HeldUndo DEF Setup
  <2>3. QED
    BY <1>1, <1>2, <2>1, <2>2, HeldIdle, HeldCheck, HeldWrite DEF Step
<1>3. QED
  BY <1>1, <1>2, HeldArrive, HeldIdle, HeldOutside DEF Next

-----------------------------------------------------------------------------
(* The administrator, and what a change gives and takes.                   *)

\* No step moves the grant from one account to another.
LEMMA AdminsKept ==
    ASSUME LockInv, HeldInv, [Next]_vars, admins # {}
    PROVE  admins' = admins
<1>1. TypeOK /\ RequestSound /\ RowsTyped
  BY DEF LockInv, TypeOK, RowsTyped
<1>2. ASSUME NEW q \in Requests, Write(q) PROVE admins' = admins
  BY <1>1, <1>2, WriteAccess
<1>3. ASSUME NEW q \in Requests, DropMember(q) \/ UndoFounder(q) PROVE admins' = admins
  <2>1. q \in Live /\ request[q].step \in NewSteps /\ DeleteUser(request[q].new)
    BY <1>3 DEF DropMember, UndoFounder, Is, NewSteps
  <2>2. request[q].new \in Users \ admins
    BY <1>1, <2>1, NewUnknown DEF HeldInv
  <2>3. QED
    BY <2>1, <2>2 DEF DeleteUser
<1>4. ASSUME NEW q \in Requests, InsertPermissionGrant(q) PROVE admins' = admins
  BY <1>4 DEF InsertPermissionGrant, Grantee
<1>5. ASSUME NEW q \in Requests,
             \/ Arrive(q) \/ Fail(q) \/ Reserve(q) \/ Lock(q) \/ Check(q) \/ Refused(q)
             \/ Unlock(q) \/ ValidateInvitation(q) \/ BootstrapAdmin(q)
      PROVE  admins' = admins
  BY <1>5 DEF Arrive, Fail, Reserve, Lock, Check, Refused, Unlock, ValidateInvitation,
     BootstrapAdmin, Rows
<1>6. ASSUME NEW q \in Requests,
             \/ ClaimInvitation(q) \/ CreateMember(q) \/ AssignInvitationRoles(q)
             \/ UnclaimInvitation(q) \/ CreateFounder(q)
      PROVE  admins' = admins
  BY <1>6 DEF ClaimInvitation, CreateMember, CreateUser, AssignInvitationRoles,
     UnclaimInvitation, CreateFounder
<1>7. QED
  BY <1>2, <1>3, <1>4, <1>5, <1>6
     DEF Next, Step, Redeem, Setup, Expire, ChangePassword, Crash, Rows, vars

\* Permissions as the roles of a user grant them.
OfRoles(u) == UNION {grants[r] : r \in member[u]}

\* What changes for a user is what its roles grant more or less, and what that
\* implies.
LEMMA WithinEffective ==
    ASSUME NEW o, NEW S, S \subseteq Effective(o), NEW u, admins' = admins,
           Difference(OfRoles(u)', OfRoles(u)) \subseteq S
    PROVE  Difference(Effective(u)', Effective(u)) \subseteq Effective(o)
<1>1. CASE u \in admins
  BY <1>1 DEF Effective, Difference
<1>2. CASE u \notin admins
  <2>1. Effective(u) = Expand(OfRoles(u)) /\ Effective(u)' = Expand(OfRoles(u)')
    BY <1>2 DEF Effective, OfRoles, Expand
  <2>2. Difference(Effective(u)', Effective(u)) \subseteq
            Expand(Difference(OfRoles(u)', OfRoles(u)))
    BY <2>1, ExpandDifference
  <2>3. Difference(OfRoles(u)', OfRoles(u)) \subseteq Effective(o)
    OBVIOUS
  <2>4. Expand(Difference(OfRoles(u)', OfRoles(u))) \subseteq Effective(o)
    BY <2>3, EffectiveClosed
  <2>5. QED
    BY <2>2, <2>4
<1>3. QED
  BY <1>1, <1>2

\* Whoever passed the check of a change holds all it gives and takes.
LEMMA WriteWithin ==
    ASSUME TypeOK, RequestSound, HeldInv, NEW q \in Requests, Write(q),
           request[q].op # "leave", NEW u \in Users, Effective(u)' # Effective(u)
    PROVE  /\ Difference(Effective(u)', Effective(u)) \subseteq Effective(Operator(q))
           /\ Operator(q) \notin resetting
<1> DEFINE r == request[q]  o == Operator(q)
<1>1. /\ q \in Live /\ r \in Request /\ Asked(r) /\ Staged(r) /\ r.step = "write"
      /\ StillThere(q)
  BY LiveRequest DEF Write, Is, RequestSound
<1>2. r.op \in Ops \ {"redeem", "bootstrap", "leave"} /\ r.by \in Users
  BY <1>1 DEF Staged, Asked, SetupSteps, Request
<1>3. Checked(q)
  BY <1>1 DEF HeldInv, CheckSound, Cleared
<1>4. Targeted(q) \subseteq Effective(o) /\ o \notin resetting
  BY <1>1, <1>3 DEF Checked
<1>5. admins' = admins
  BY WriteAccess
<1>6. SUFFICES Difference(Effective(u)', Effective(u)) \subseteq Effective(o)
  BY <1>4
<1>7. ASSUME Difference(OfRoles(u)', OfRoles(u)) \subseteq Targeted(q)
      PROVE  Difference(Effective(u)', Effective(u)) \subseteq Effective(o)
  BY <1>4, <1>5, <1>7, WithinEffective
<1>8. grants \in [Roles -> SUBSET Grantable] /\ member \in [Users -> SUBSET Roles]
  BY DEF TypeOK
<1>9. CASE r.op = "createRole"
  <2>1. PICK x \in Roles : roleRow[x] = "unused" /\ Grant(x, r.give) /\ UNCHANGED member
    BY <1>9 DEF Write, CreateRole
  <2>2. x \notin member[u]
    BY <2>1 DEF HeldInv, AccessSound
  <2>3. \A y \in member[u] : grants'[y] = grants[y]
    BY <1>8, <2>1, <2>2 DEF Grant
  <2>4. OfRoles(u)' = OfRoles(u)
    BY <2>1, <2>3 DEF OfRoles
  <2>5. QED
    BY <1>7, <2>4 DEF Difference
<1>10. CASE r.op = "updateRole"
  <2>1. /\ grants' = [grants EXCEPT ![r.on] = (grants[r.on] \cap AgentPermissions) \cup r.give]
        /\ member' = member
    BY <1>10 DEF Write, UpdateRole, Grant
  <2>2. r.on \in Roles /\ Targeted(q) = r.give \cup (grants[r.on] \cap GlobalPermissions)
    BY <1>1, <1>10 DEF Asked, Targeted
  <2>3. \A y \in Roles : Difference(grants'[y], grants[y]) \subseteq Targeted(q)
    BY <1>8, <2>1, <2>2 DEF Difference, Grantable
  <2>4. Difference(OfRoles(u)', OfRoles(u)) \subseteq Targeted(q)
    BY <1>8, <2>1, <2>3 DEF OfRoles, Difference
  <2>5. QED
    BY <1>7, <2>4
<1>11. CASE r.op = "setAccess"
  <2> DEFINE old == grants[r.on] \cap AgentPermissions
  <2>1. /\ grants' = [grants EXCEPT ![r.on] = (grants[r.on] \cap GlobalPermissions) \cup r.give]
        /\ member' = member
    BY <1>11 DEF Write, SetRoleAgentAccess, Grant
  <2>2. /\ r.on \in Roles /\ r.give \subseteq AgentPermissions
        /\ Targeted(q) = {"agents:read"} \cup Difference(Expand(r.give), Expand(old))
    BY <1>1, <1>11 DEF Asked, Targeted
  <2>3. ASSUME NEW p, NEW x, p \in AgentPermissions, x \in ImpliedBy(p) PROVE x = "agents:read"
    BY <2>3 DEF AgentPermissions, ImpliedBy
  <2>4. Difference(r.give, old) \subseteq Targeted(q)
    <3> HIDE DEF old
    <3>1. old \subseteq AgentPermissions
      BY DEF old
    <3>2. SUFFICES ASSUME NEW x \in Difference(r.give, old), x # "agents:read"
                   PROVE  x \in Difference(Expand(r.give), Expand(old))
      BY <2>2
    <3>3. \A p \in r.give \cup old : x \notin ImpliedBy(p)
      BY <2>2, <2>3, <3>1, <3>2
    <3>4. /\ x \in Expand(r.give) <=> x \in r.give
          /\ x \in Expand(old) <=> x \in old
      BY <3>3, InExpand
    <3>5. QED
      BY <3>2, <3>4 DEF Difference
  <2>5. \A y \in Roles : Difference(grants'[y], grants[y]) \subseteq Difference(r.give, old)
    BY <1>8, <2>1, <2>2 DEF Difference, Grantable
  <2>6. Difference(OfRoles(u)', OfRoles(u)) \subseteq Difference(r.give, old)
    <3> HIDE DEF old
    <3>1. QED
      BY <1>8, <2>1, <2>5 DEF OfRoles, Difference
  <2>7. QED
    BY <1>7, <2>4, <2>6
<1>12. CASE r.op = "deleteRole"
  <2>1. DeleteRole(r.on) /\ r.on \in Roles /\ Targeted(q) = grants[r.on]
    BY <1>1, <1>12 DEF Write, Asked, Targeted
  <2>2. \A y \in Roles : y # r.on => grants'[y] = grants[y]
    BY <1>8, <2>1 DEF DeleteRole
  <2>3. member'[u] = member[u] \ {r.on}
    BY <2>1 DEF DeleteRole
  <2>4. Difference(OfRoles(u)', OfRoles(u)) \subseteq grants[r.on]
    BY <1>8, <2>2, <2>3 DEF OfRoles, Difference
  <2>5. QED
    BY <1>7, <2>1, <2>4
<1>13. CASE r.op = "assign"
  <2>1. /\ member' = [member EXCEPT ![r.on] = r.give] /\ grants' = grants /\ r.on \in Users
        /\ Targeted(q) = PermissionsOf(Difference(r.give, member[r.on]))
    BY <1>1, <1>13 DEF Write, AssignRoles, Asked, Targeted
  <2>2. CASE u # r.on
    BY <1>7, <1>8, <2>1, <2>2 DEF OfRoles, Difference
  <2>3. CASE u = r.on
    <3>1. member'[u] = r.give
      BY <1>8, <2>1, <2>3
    <3>2. Difference(OfRoles(u)', OfRoles(u)) \subseteq
                PermissionsOf(Difference(r.give, member[u]))
      BY <2>1, <3>1 DEF OfRoles, PermissionsOf, Difference
    <3>3. QED
      BY <1>7, <2>1, <2>3, <3>2
  <2>4. QED
    BY <2>2, <2>3
<1>14. CASE r.op \in {"reset", "invite"}
  <2>1. UNCHANGED <<admins, grants, member>>
    BY <1>14 DEF Write, ResetPassword, CreateInvitation
  <2>2. QED
    BY <2>1 DEF Effective
<1>15. CASE r.op = "remove"
  <2>1. DeleteUser(r.on) /\ r.on \in Users \ admins /\ Targeted(q) = Effective(r.on)
    BY <1>1, <1>3, <1>15, AdminUntouched DEF Write, HeldInv, Targeted
  <2>2. member' = [member EXCEPT ![r.on] = {}] /\ grants' = grants
    BY <2>1 DEF DeleteUser
  <2>3. CASE u # r.on
    BY <1>7, <1>8, <2>2, <2>3 DEF OfRoles, Difference
  <2>4. CASE u = r.on
    <3>1. OfRoles(u)' = {} /\ OfRoles(u) \subseteq Expand(OfRoles(u))
      BY <1>8, <2>2, <2>4, InExpand DEF OfRoles
    <3>2. Expand(OfRoles(u)) = Effective(u)
      BY <2>1, <2>4 DEF Effective, OfRoles
    <3>3. QED
      BY <1>7, <2>1, <2>4, <3>1, <3>2 DEF Difference
  <2>5. QED
    BY <2>3, <2>4
<1>16. QED
  BY <1>2, <1>9, <1>10, <1>11, <1>12, <1>13, <1>14, <1>15 DEF Ops

\* The roles a new member receives are within what the inviter holds.
LEMMA AttachWithin ==
    ASSUME TypeOK, RequestSound, HeldInv, NEW q \in Requests, AssignInvitationRoles(q),
           NEW u \in Users, Effective(u)' # Effective(u)
    PROVE  /\ Difference(Effective(u)', Effective(u)) \subseteq Effective(Operator(q))
           /\ Operator(q) \notin resetting
<1> DEFINE r == request[q]  v == request[q].on  o == Operator(q)
<1>1. /\ q \in Live /\ r.step = "attach" /\ UNCHANGED <<admins, grants>>
      /\ member' = [member EXCEPT ![r.new] = invitation[v].roles]
  BY DEF AssignInvitationRoles, Is
<1>2. r.op = "redeem" /\ v \in Invitations /\ r.new \in Users
  BY <1>1 DEF RequestSound, Staged, Asked, RedeemSteps, NewSteps
<1>3. Checked(q) /\ member[r.new] = {}
  BY <1>1, <1>2 DEF HeldInv, CheckSound, Cleared
<1>4. StillThere(q)
  BY <1>2 DEF StillThere
<1>5. PermissionsOf(invitation[v].roles) \subseteq Effective(o) /\ o \notin resetting
  BY <1>2, <1>3, <1>4 DEF Checked, Targeted
<1>6. \A w \in Users : member'[w] = IF w = r.new THEN invitation[v].roles ELSE member[w]
  BY <1>1 DEF TypeOK
<1>7. Difference(OfRoles(u)', OfRoles(u)) \subseteq PermissionsOf(invitation[v].roles)
  BY <1>1, <1>3, <1>6 DEF OfRoles, PermissionsOf, Difference
<1>8. admins' = admins
  BY <1>1
<1> DEFINE S == PermissionsOf(invitation[v].roles)
<1>9. S \subseteq Effective(o) /\ Difference(OfRoles(u)', OfRoles(u)) \subseteq S
  BY <1>5, <1>7
<1> HIDE DEF S, o
<1>10. Difference(Effective(u)', Effective(u)) \subseteq Effective(o)
  BY <1>8, <1>9, WithinEffective
<1>11. QED
  BY <1>5, <1>10 DEF o

\* A request that is writing moves by its own statement, or changes nothing.
LEMMA WritingMoves ==
    ASSUME TypeOK, RequestSound, [Next]_vars, NEW q \in Requests, Writing(q), Moved(q)
    PROVE  Write(q) \/ AssignInvitationRoles(q) \/ UNCHANGED Rows
<1>1. q \in Live /\ request[q].step \in {"write", "attach"}
  BY DEF Writing, Is
<1>2. ASSUME NEW p \in Requests, Arrive(p) PROVE UNCHANGED Rows
  BY <1>2 DEF Arrive, Rows
<1>3. ASSUME NEW p \in Requests, Fail(p) PROVE UNCHANGED Rows
  BY <1>3 DEF Fail
<1>4. ASSUME NEW p \in Requests, Step(p)
      PROVE  Write(q) \/ AssignInvitationRoles(q) \/ UNCHANGED Rows
  <2>1. CASE Reserve(p) \/ Lock(p) \/ Unlock(p)
    BY <2>1 DEF Reserve, Lock, Unlock, Rows
  <2>2. CASE Inner(p)
    <3>1. p = q
      BY <2>2, InnerMoves, MovesServes DEF Moved, InnerMove, Moves, Leaves, Advances, Others
    <3>2. QED
      BY <1>1, <2>2, <3>1
         DEF Inner, Check, Refused, Fail, Redeem, ClaimInvitation, ValidateInvitation,
             CreateMember, DropMember, UnclaimInvitation, Setup, BootstrapAdmin, CreateFounder,
             InsertPermissionGrant, UndoFounder, Is
  <2>3. QED
    BY <1>4, <2>1, <2>2 DEF Step, Inner
<1>5. CASE \E i \in Instances : Crash(i)
  BY <1>5 DEF Crash
<1>6. CASE UNCHANGED request
  BY <1>6 DEF Moved
<1>7. QED
  BY <1>2, <1>3, <1>4, <1>5, <1>6 DEF Next, Expire, ChangePassword, vars

\* All of it holds at every moment.
LEMMA AccessInvariant == Spec => [](LockInv /\ HeldInv)
BY LockInvInit, LockInvStep, HeldInit, HeldStep, PTL DEF Spec

\* Once there is an administrator, that account stays the only one, whatever is
\* asked, fails or dies.
THEOREM AdministratorIsFinal == Spec => SoleAdmin
<1>1. LockInv /\ HeldInv /\ [Next]_vars => [admins # {} => admins' = admins]_vars
  BY AdminsKept
<1>2. QED
  BY <1>1, AccessInvariant, PTL DEF Spec, SoleAdmin

\* Whatever a request gives to or takes from anybody, its operator holds at that
\* moment, with no password change pending.
THEOREM AccessIsBounded == Spec => NobodyExceedsOwnAccess
<1>1. LockInv /\ HeldInv /\ [Next]_vars =>
        [\A q \in Requests :
            Writing(q) /\ Moved(q) /\ request[q].op # "leave" =>
                \A u \in Users : Effective(u)' # Effective(u) =>
                    /\ Difference(Effective(u)', Effective(u)) \subseteq Effective(Operator(q))
                    /\ Operator(q) \notin resetting]_vars
  <2> SUFFICES ASSUME LockInv, HeldInv, [Next]_vars, NEW q \in Requests, Writing(q), Moved(q),
                      request[q].op # "leave", NEW u \in Users, Effective(u)' # Effective(u)
               PROVE  /\ Difference(Effective(u)', Effective(u)) \subseteq
                                Effective(Operator(q))
                      /\ Operator(q) \notin resetting
    OBVIOUS
  <2>1. TypeOK /\ RequestSound
    BY DEF LockInv
  <2>2. ~UNCHANGED Rows
    <3> SUFFICES ASSUME UNCHANGED Rows PROVE FALSE
      OBVIOUS
    <3>1. admins' = admins /\ grants' = grants /\ member' = member
      BY DEF Rows
    <3>2. QED
      BY <3>1 DEF Effective
  <2>3. Write(q) \/ AssignInvitationRoles(q)
    BY <2>1, <2>2, WritingMoves
  <2>4. QED
    BY <2>1, <2>3, WriteWithin, AttachWithin
<1>2. QED
  BY <1>1, AccessInvariant, PTL DEF Spec, NobodyExceedsOwnAccess

-----------------------------------------------------------------------------
(* What is given up leaves nothing behind.                                 *)

ClaimSteps == RedeemSteps \ {"claim"}
\* Invitations are used up by those who claimed them, and otherwise only end.
InvitationsGoOn == \A v \in Invitations :
    \/ /\ invitation'[v].uses = invitation[v].uses
       /\ invitation'[v].status = invitation[v].status \/ invitation'[v].status = "gone"
    \/ /\ invitation[v].status = "unused" /\ invitation'[v].status = "open"
       /\ invitation'[v].uses = 0

\* An invitation keeps its uses as long as nobody newly claims it.
LEMMA UseKept ==
    ASSUME RequestSound, UseSound, InvitationsGoOn,
           \A p \in Live' : request'[p].step \in ClaimSteps =>
                p \in Live /\ request[p].step \in ClaimSteps /\ request'[p].on = request[p].on
    PROVE  UseSound'
<1>1. ASSUME NEW v \in Invitations, invitation'[v].status \in {"unused", "open"}
      PROVE  invitation'[v].uses = 0
  BY <1>1 DEF UseSound, InvitationsGoOn
<1>2. ASSUME NEW p \in Live', request'[p].step \in ClaimSteps
      PROVE  /\ invitation'[request'[p].on].uses = 0
             /\ invitation'[request'[p].on].status \in {"claimed", "gone"}
  <2>1. p \in Live /\ request[p].step \in ClaimSteps /\ request'[p].on = request[p].on
    BY <1>2
  <2>2. request[p].on \in Invitations
    BY <2>1 DEF RequestSound, Asked, Staged, ClaimSteps
  <2>3. /\ invitation[request[p].on].uses = 0
        /\ invitation[request[p].on].status \in {"claimed", "gone"}
    BY <2>1 DEF UseSound, ClaimSteps
  <2>4. QED
    BY <2>1, <2>2, <2>3 DEF InvitationsGoOn
<1>3. QED
  BY <1>1, <1>2 DEF UseSound, ClaimSteps

Unfinished(u) == account[u] = "there" /\ u \notin complete
Unused(v)     == invitation[v].status = "claimed" /\ invitation[v].uses # 1
Made(u)       == \E q \in Requests : HalfMade(q) /\ request[q].new = u
ClaimedFor(v) == \E q \in Requests : Claiming(q) /\ request[q].on = v

\* Whoever is at work on an account or an invitation stays at work on it, until it
\* is seen through or removed.
LEMMA LeftKept ==
    ASSUME LeftSound, Undisturbed' => Undisturbed,
           \A u \in Users : Unfinished(u)' => Unfinished(u) \/ Made(u)',
           \A v \in Invitations : Unused(v)' => Unused(v) \/ ClaimedFor(v)',
           \A u \in Users : Unfinished(u)' /\ Made(u) => Made(u)',
           \A v \in Invitations : Unused(v)' /\ ClaimedFor(v) => ClaimedFor(v)'
    PROVE  LeftSound'
<1> SUFFICES ASSUME Undisturbed'
             PROVE  /\ \A u \in Users : Unfinished(u)' => Made(u)'
                    /\ \A v \in Invitations : Unused(v)' => ClaimedFor(v)'
  BY DEF LeftSound, Unfinished, Made, Unused, ClaimedFor
<1>1. /\ \A u \in Users : Unfinished(u) => Made(u)
      /\ \A v \in Invitations : Unused(v) => ClaimedFor(v)
  BY DEF LeftSound, Unfinished, Made, Unused, ClaimedFor
<1>2. QED
  BY <1>1

\* A step of a request that has nothing half made.
LEMMA TidyKept ==
    ASSUME RequestSound, UseSound, LeftSound, InvitationsGoOn, Undisturbed' => Undisturbed,
           \A u \in Users : Unfinished(u)' => Unfinished(u),
           NEW q, Others(q), q \in Live => request[q].step \notin NewSteps \cup ClaimSteps,
           q \in Live' => request'[q].step \notin NewSteps \cup ClaimSteps
    PROVE  UseSound' /\ LeftSound'
<1>1. \A p \in Live' : p # q => p \in Live /\ request'[p] = request[p]
  BY DEF Others, Live
<1>2. \A p \in Live : p # q => p \in Live' /\ request'[p] = request[p]
  BY DEF Others, Live
<1>3. UseSound'
  BY <1>1, UseKept
<1>4. \A p \in Requests : HalfMade(p) => HalfMade(p)' /\ request'[p].new = request[p].new
  BY <1>2 DEF HalfMade
<1>5. \A p \in Requests : Claiming(p) => Claiming(p)' /\ request'[p].on = request[p].on
  BY <1>2 DEF Claiming, ClaimSteps
<1>6. \A u \in Users : Made(u) => Made(u)'
  BY <1>4 DEF Made
<1>7. \A v \in Invitations : ClaimedFor(v) => ClaimedFor(v)'
  BY <1>5 DEF ClaimedFor
<1>8. \A v \in Invitations : Unused(v)' => Unused(v)
  BY DEF InvitationsGoOn, Unused
<1>9. QED
  BY <1>3, <1>6, <1>7, <1>8, LeftKept

\* Removing an account, whoever made it.
LEMMA DeleteUserTidy ==
    ASSUME RowsTyped, NEW u \in Users, DeleteUser(u)
    PROVE  /\ InvitationsGoOn /\ ~Unfinished(u)'
           /\ \A w \in Users : Unfinished(w)' => Unfinished(w)
<1>1. account' = [account EXCEPT ![u] = "deleted"] /\ complete' = complete \ {u}
  BY DEF DeleteUser
<1>2. account'[u] = "deleted" /\ \A w \in Users : w # u => account'[w] = account[w]
  BY <1>1 DEF RowsTyped
<1>3. ASSUME NEW v \in Invitations
      PROVE  /\ invitation'[v].uses = invitation[v].uses
             /\ invitation'[v].status = invitation[v].status \/ invitation'[v].status = "gone"
  <2>1. invitation'[v] =
            IF invitation[v].by = u /\ invitation[v].status # "unused"
            THEN [invitation[v] EXCEPT !.status = "gone", !.roles = {}] ELSE invitation[v]
    BY <1>3 DEF DeleteUser
  <2>2. invitation[v] \in Invitation
    BY <1>3 DEF RowsTyped
  <2>3. LET j == [invitation[v] EXCEPT !.status = "gone", !.roles = {}] IN
        j.uses = invitation[v].uses /\ j.status = "gone"
    BY <2>2 DEF Invitation
  <2>4. QED
    BY <2>1, <2>3
<1>4. QED
  BY <1>1, <1>2, <1>3 DEF InvitationsGoOn, Unfinished

\* The statement of a change.
LEMMA TidyWrite ==
    ASSUME TypeOK, RequestSound, UseSound, LeftSound, NEW q \in Requests, Write(q)
    PROVE  UseSound' /\ LeftSound'
<1> DEFINE r == request[q]
<1>1. q \in Live /\ r.step = "write" /\ Goto(q, "unlock") /\ left' = left
  BY DEF Write, Is, Waiting
<1>2. Others(q) /\ request'[q].step = "unlock"
  BY <1>1, GotoAdvances DEF Advances, Steps
<1>3. r \in Request /\ Asked(r) /\ Staged(r) /\ RowsTyped
  BY <1>1, LiveRequest DEF RequestSound, TypeOK, RowsTyped
<1>4. r.op \in Ops \ {"redeem", "bootstrap"} /\ r.by \in Users
  BY <1>1, <1>3 DEF Staged, Asked, SetupSteps, Request
<1> DEFINE Goal == InvitationsGoOn /\ \A w \in Users : Unfinished(w)' => Unfinished(w)
<1>5. SUFFICES Goal
  BY <1>1, <1>2, TidyKept DEF Undisturbed, NewSteps, ClaimSteps, RedeemSteps
<1>6. ASSUME UNCHANGED <<account, complete, invitation>> PROVE Goal
  BY <1>6 DEF InvitationsGoOn, Unfinished
<1>7. ASSUME NEW u \in Users, DeleteUser(u) PROVE Goal
  BY <1>3, <1>7, DeleteUserTidy
<1>8. CASE r.op \in {"createRole", "updateRole", "setAccess", "assign", "reset"}
  BY <1>6, <1>8 DEF Write, CreateRole, UpdateRole, SetRoleAgentAccess, AssignRoles, ResetPassword
<1>9. CASE r.op = "deleteRole"
  <2>1. UNCHANGED <<account, complete>>
        /\ invitation' = [v \in Invitations |-> [invitation[v] EXCEPT !.roles = @ \ {r.on}]]
    BY <1>9 DEF Write, DeleteRole
  <2>2. \A v \in Invitations : invitation'[v].uses = invitation[v].uses
                             /\ invitation'[v].status = invitation[v].status
    BY <1>3, <2>1 DEF RowsTyped, Invitation
  <2>3. QED
    BY <2>1, <2>2 DEF InvitationsGoOn, Unfinished
<1>10. CASE r.op \in {"remove", "leave"}
  <2>1. PICK u \in Users : DeleteUser(u)
    BY <1>3, <1>4, <1>10 DEF Write, Asked
  <2>2. QED
    BY <1>7, <2>1
<1>11. CASE r.op = "invite"
  <2>1. PICK v \in Invitations : /\ invitation[v].status = "unused"
            /\ invitation' = [invitation EXCEPT ![v] =
                    [status |-> "open", by |-> r.by, roles |-> r.give, uses |-> 0]]
    BY <1>11 DEF Write, CreateInvitation
  <2>2. UNCHANGED <<account, complete>>
    BY <1>11 DEF Write, CreateInvitation
  <2>3. /\ invitation'[v].status = "open" /\ invitation'[v].uses = 0
        /\ \A w \in Invitations \ {v} : invitation'[w] = invitation[w]
    BY <1>3, <2>1 DEF RowsTyped
  <2>4. QED
    BY <2>1, <2>2, <2>3 DEF InvitationsGoOn, Unfinished
<1>12. QED
  BY <1>4, <1>8, <1>9, <1>10, <1>11 DEF Ops

\* The steps that leave accounts and invitations alone.
LEMMA TidyIdle ==
    ASSUME TypeOK, RequestSound, UseSound, LeftSound, NEW q \in Requests,
           \/ Arrive(q) \/ Reserve(q) \/ Lock(q) \/ Unlock(q) \/ Check(q) \/ Refused(q)
           \/ BootstrapAdmin(q)
    PROVE  UseSound' /\ LeftSound'
<1>1. UNCHANGED Rows /\ (Undisturbed' => Undisturbed)
  BY DEF Arrive, Reserve, Lock, Unlock, Check, Refused, BootstrapAdmin, Rows, Waiting,
     Undisturbed, TypeOK
<1>2. InvitationsGoOn /\ \A w \in Users : Unfinished(w)' => Unfinished(w)
  BY <1>1 DEF Rows, InvitationsGoOn, Unfinished
<1>3. /\ Others(q) /\ (q \in Live => request[q].step \notin NewSteps \cup ClaimSteps)
      /\ q \in Live' => request'[q].step \notin NewSteps \cup ClaimSteps
  <2>1. CASE Arrive(q)
    <3>1. PICK r \in Request : Arrived(q, r)
      BY <2>1, ArriveAdds
    <3>2. QED
      BY <3>1 DEF Arrived, NewSteps, ClaimSteps, RedeemSteps
  <2>2. CASE q \in Live /\ request[q].step \notin NewSteps \cup ClaimSteps /\ End(q)
    BY <2>2, EndLeaves DEF Leaves, Live
  <2>3. CASE q \in Live /\ request[q].step \notin NewSteps \cup ClaimSteps
             /\ \E s \in Steps \ (NewSteps \cup ClaimSteps) : Goto(q, s)
    BY <2>3, GotoAdvances DEF Advances
  <2>4. QED
    BY <2>1, <2>2, <2>3
       DEF Reserve, Lock, Unlock, Check, Refused, BootstrapAdmin, Is, End, Steps, NewSteps,
           ClaimSteps, RedeemSteps
<1>4. QED
  BY <1>1, <1>2, <1>3, TidyKept

\* What happens outside requests.
LEMMA TidyOutside ==
    ASSUME TypeOK, RequestSound, UseSound, LeftSound,
           \/ \E v \in Invitations : Expire(v)
           \/ \E u \in Users : ChangePassword(u)
           \/ UNCHANGED vars
    PROVE  UseSound' /\ LeftSound'
<1>1. UNCHANGED <<account, complete, request, left>>
  BY DEF Expire, ChangePassword, vars, Waiting
<1>2. InvitationsGoOn
  <2>1. ASSUME NEW v \in Invitations, Expire(v) PROVE InvitationsGoOn
    <3>1. invitation[v] \in Invitation
      BY DEF TypeOK
    <3>2. /\ invitation'[v] = [invitation[v] EXCEPT !.status = "gone"]
          /\ \A w \in Invitations \ {v} : invitation'[w] = invitation[w]
      BY <2>1 DEF Expire, SetStatus, TypeOK
    <3>3. QED
      BY <3>1, <3>2 DEF InvitationsGoOn, Invitation
  <2>2. CASE UNCHANGED invitation
    BY <2>2 DEF InvitationsGoOn
  <2>3. QED
    BY <2>1, <2>2 DEF ChangePassword, vars
<1>3. \A w \in Users : Unfinished(w)' => Unfinished(w)
  BY <1>1 DEF Unfinished
<1>4. Others(None) /\ None \notin Live /\ None \notin Live'
  BY <1>1 DEF Others, Live
<1>5. QED
  BY <1>1, <1>2, <1>3, <1>4, TidyKept DEF Undisturbed

\* After a fault or a crash, nothing is promised of what is left.
LEMMA TidyFault ==
    ASSUME TypeOK, RequestSound, UseSound,
           (\E q \in Requests : Fail(q)) \/ (\E i \in Instances : Crash(i))
    PROVE  UseSound' /\ LeftSound'
<1>1. UNCHANGED Rows
  BY DEF Fail, Crash
<1>2. InvitationsGoOn
  BY <1>1 DEF Rows, InvitationsGoOn
<1>3. ~Undisturbed'
  BY DEF Fail, Crash, Undisturbed, TypeOK
<1>4. \A p \in Live' : request'[p].step \in ClaimSteps =>
            p \in Live /\ request[p].step \in ClaimSteps /\ request'[p].on = request[p].on
  <2>1. ASSUME NEW q \in Requests, Fail(q), NEW p \in Live', request'[p].step \in ClaimSteps
        PROVE  p \in Live /\ request[p].step \in ClaimSteps /\ request'[p].on = request[p].on
    <3>1. InnerMove(q)
      BY <2>1, FailMoves
    <3>2. Serves(q) /\ q \in Live
      BY <3>1, MovesServes DEF InnerMove
    <3>3. CASE p # q
      BY <2>1, <3>2, <3>3 DEF Serves, SameAsk
    <3>4. CASE p = q
      <4>1. Goto(q, Catch(request[q].step)) /\ Catch(request[q].step) # "none"
        BY <2>1, <3>2, <3>4, EndLeaves DEF Fail, Leaves, Live
      <4>2. Catch(request[q].step) \in Steps
        BY <4>1 DEF Catch, Steps
      <4>3. request'[q].step = Catch(request[q].step) /\ request'[q].on = request[q].on
        BY <3>2, <4>1, <4>2, GotoAdvances DEF Advances
      <4>4. request[q].step \in ClaimSteps
        BY <2>1, <3>4, <4>3 DEF Catch, ClaimSteps, RedeemSteps
      <4>5. QED
        BY <3>2, <3>4, <4>3, <4>4
    <3>5. QED
      BY <3>3, <3>4
  <2>2. ASSUME NEW i \in Instances, Crash(i), NEW p \in Live'
        PROVE  p \in Live /\ request'[p] = request[p]
    BY <2>2 DEF Crash, Live
  <2>3. QED
    BY <2>1, <2>2
<1>5. QED
  BY <1>2, <1>3, <1>4, UseKept DEF LeftSound

\* Everybody else stays at work on the same.
LEMMA OthersGoOn ==
    ASSUME NEW q, Others(q), NEW p \in Requests \ {q}
    PROVE  /\ request'[p] = request[p] /\ (p \in Live' <=> p \in Live)
           /\ HalfMade(p)' <=> HalfMade(p)
           /\ Claiming(p)' <=> Claiming(p)
BY DEF Others, HalfMade, Claiming, Live

\* Claiming an invitation.
LEMMA TidyClaim ==
    ASSUME TypeOK, RequestSound, UseSound, LeftSound, NEW q \in Requests, ClaimInvitation(q)
    PROVE  UseSound' /\ LeftSound'
<1> DEFINE v == request[q].on
<1>1. /\ q \in Live /\ request[q].step = "claim" /\ UNCHANGED <<account, complete, left>>
  BY DEF ClaimInvitation, Is, Waiting
<1>2. v \in Invitations
  BY <1>1 DEF RequestSound, Asked, Staged, RedeemSteps
<1>3. \A u \in Users : Unfinished(u)' => Unfinished(u)
  BY <1>1 DEF Unfinished
<1>4. CASE Goto(q, "unlock") /\ UNCHANGED invitation
  <2>1. Others(q) /\ request'[q].step = "unlock"
    BY <1>1, <1>4, GotoAdvances DEF Advances, Steps
  <2>2. InvitationsGoOn
    BY <1>4 DEF InvitationsGoOn
  <2>3. QED
    BY <1>1, <1>3, <2>1, <2>2, TidyKept DEF Undisturbed, NewSteps, ClaimSteps, RedeemSteps
<1>5. CASE Claimable(v) /\ SetStatus(v, "claimed") /\ Goto(q, "validate")
  <2>1. /\ Others(q) /\ q \in Live' /\ request'[q].step = "validate" /\ request'[q].on = v
    BY <1>1, <1>5, GotoAdvances DEF Advances, Steps
  <2>2. /\ invitation'[v] = [invitation[v] EXCEPT !.status = "claimed"]
        /\ \A w \in Invitations \ {v} : invitation'[w] = invitation[w]
    BY <1>2, <1>5 DEF SetStatus, TypeOK
  <2>3. /\ invitation[v].status = "open" /\ invitation[v].uses = 0
        /\ invitation'[v].status = "claimed" /\ invitation'[v].uses = 0
    BY <1>2, <1>5, <2>2 DEF Claimable, UseSound, TypeOK, Invitation
  <2>4. UseSound'
    <3>1. ASSUME NEW w \in Invitations, invitation'[w].status \in {"unused", "open"}
          PROVE  invitation'[w].uses = 0
      BY <2>2, <2>3, <3>1 DEF UseSound
    <3>2. ASSUME NEW p \in Live', request'[p].step \in ClaimSteps
          PROVE  /\ invitation'[request'[p].on].uses = 0
                 /\ invitation'[request'[p].on].status \in {"claimed", "gone"}
      <4>1. CASE p = q
        BY <2>1, <2>3, <4>1
      <4>2. CASE p # q
        <5>1. p \in Live /\ request'[p] = request[p] /\ p \in Requests
          BY <2>1, <4>2, OthersGoOn DEF Live
        <5>2. /\ invitation[request[p].on].uses = 0
              /\ invitation[request[p].on].status \in {"claimed", "gone"}
          BY <3>2, <5>1 DEF UseSound, ClaimSteps
        <5>3. request[p].on \in Invitations
          BY <3>2, <5>1 DEF RequestSound, Asked, Staged, ClaimSteps
        <5>4. QED
          BY <2>2, <2>3, <5>1, <5>2, <5>3
      <4>3. QED
        BY <4>1, <4>2
    <3>3. QED
      BY <3>1, <3>2 DEF UseSound, ClaimSteps
  <2>5. Claiming(q)' /\ ~Claiming(q) /\ ~HalfMade(q)
    BY <1>1, <2>1 DEF Claiming, HalfMade, RedeemSteps, NewSteps
  <2>6. \A u \in Users : Made(u) => Made(u)'
    BY <2>1, <2>5, OthersGoOn DEF Made
  <2>7. \A w \in Invitations : ClaimedFor(w) => ClaimedFor(w)'
    BY <2>1, <2>5, OthersGoOn DEF ClaimedFor
  <2>8. \A w \in Invitations : Unused(w)' => Unused(w) \/ ClaimedFor(w)'
    BY <2>1, <2>2, <2>5 DEF Unused, ClaimedFor
  <2>9. QED
    BY <1>1, <1>3, <2>4, <2>6, <2>7, <2>8, LeftKept DEF Undisturbed
<1>6. QED
  BY <1>4, <1>5 DEF ClaimInvitation

\* A request that holds on to the account it is making and to the invitation it
\* claimed.
LEMMA TidyGoesOn ==
    ASSUME TypeOK, RequestSound, UseSound, LeftSound, NEW q \in Live, InvitationsGoOn,
           UNCHANGED left, Others(q),
           Claiming(q) => Claiming(q)' /\ request'[q].on = request[q].on,
           Claiming(q)' => Claiming(q) /\ request'[q].on = request[q].on,
           \A u \in Users : Unfinished(u)' => Unfinished(u) \/ Made(u)',
           \A u \in Users : HalfMade(q) /\ request[q].new = u /\ Unfinished(u)' =>
                HalfMade(q)' /\ request'[q].new = u
    PROVE  UseSound' /\ LeftSound'
<1>1. ASSUME NEW p \in Live', request'[p].step \in ClaimSteps
      PROVE  p \in Live /\ request[p].step \in ClaimSteps /\ request'[p].on = request[p].on
  <2>1. CASE p = q
    BY <1>1, <2>1 DEF Claiming, ClaimSteps
  <2>2. CASE p # q
    BY <1>1, <2>2 DEF Others, Live
  <2>3. QED
    BY <2>1, <2>2
<1>2. UseSound'
  BY <1>1, UseKept
<1>3. ASSUME NEW v \in Invitations, ClaimedFor(v) PROVE ClaimedFor(v)'
  <2>1. PICK p \in Requests : Claiming(p) /\ request[p].on = v
    BY <1>3 DEF ClaimedFor
  <2>2. Claiming(p)' /\ request'[p].on = v
    BY <2>1, OthersGoOn
  <2>3. QED
    BY <2>2 DEF ClaimedFor
<1>4. ASSUME NEW u \in Users, Unfinished(u)', Made(u) PROVE Made(u)'
  <2>1. PICK p \in Requests : HalfMade(p) /\ request[p].new = u
    BY <1>4 DEF Made
  <2>2. CASE p # q
    <3>1. p \in Requests /\ HalfMade(p)' /\ request'[p].new = u
      BY <2>1, <2>2, OthersGoOn
    <3>2. QED
      BY <3>1 DEF Made
  <2>3. CASE p = q
    <3>1. q \in Requests /\ HalfMade(q)' /\ request'[q].new = u
      BY <1>4, <2>1, <2>3
    <3>2. QED
      BY <3>1 DEF Made
  <2>4. QED
    BY <2>2, <2>3
<1>5. \A v \in Invitations : Unused(v)' => Unused(v)
  BY DEF InvitationsGoOn, Unused
<1>6. QED
  BY <1>2, <1>3, <1>4, <1>5, LeftKept DEF Undisturbed

\* Checking the invitation it claimed.
LEMMA TidyValidate ==
    ASSUME TypeOK, RequestSound, UseSound, LeftSound, NEW q \in Requests, ValidateInvitation(q)
    PROVE  UseSound' /\ LeftSound'
<1>1. q \in Live /\ request[q].step = "validate" /\ UNCHANGED <<account, complete, invitation, left>>
  BY DEF ValidateInvitation, Is, Rows, Waiting
<1>2. PICK s \in {"create", "unclaim"} : Goto(q, s)
  BY DEF ValidateInvitation
<1>3. /\ Others(q) /\ q \in Live' /\ request'[q].step \in {"create", "unclaim"}
      /\ request'[q].on = request[q].on
  BY <1>1, <1>2, GotoAdvances DEF Advances, Steps
<1>4. Claiming(q) /\ Claiming(q)' /\ ~HalfMade(q)
  BY <1>1, <1>3 DEF Claiming, HalfMade, RedeemSteps, NewSteps
<1>5. InvitationsGoOn /\ \A u \in Users : Unfinished(u)' => Unfinished(u)
  BY <1>1 DEF InvitationsGoOn, Unfinished
<1>6. QED
  BY <1>1, <1>3, <1>4, <1>5, TidyGoesOn

\* Creating the account of a new member.
LEMMA TidyCreate ==
    ASSUME TypeOK, RequestSound, UseSound, LeftSound, NEW q \in Requests, CreateMember(q)
    PROVE  UseSound' /\ LeftSound'
<1>1. q \in Live /\ request[q].step = "create" /\ UNCHANGED <<complete, invitation, left>>
  BY DEF CreateMember, CreateUser, Is, Waiting
<1>2. InvitationsGoOn /\ Claiming(q) /\ ~HalfMade(q)
  BY <1>1 DEF InvitationsGoOn, Claiming, HalfMade, RedeemSteps, NewSteps
<1>3. CASE Goto(q, "unclaim") /\ UNCHANGED account
  <2>1. /\ Others(q) /\ q \in Live' /\ request'[q].step = "unclaim"
        /\ request'[q].on = request[q].on
    BY <1>1, <1>3, GotoAdvances DEF Advances, Steps
  <2>2. Claiming(q)'
    BY <2>1 DEF Claiming, RedeemSteps
  <2>3. \A u \in Users : Unfinished(u)' => Unfinished(u)
    BY <1>1, <1>3 DEF Unfinished
  <2>4. QED
    BY <1>1, <1>2, <2>1, <2>2, <2>3, TidyGoesOn
<1>4. ASSUME NEW u \in Users, account' = [account EXCEPT ![u] = "there"],
             request' = [request EXCEPT ![q] = [@ EXCEPT !.step = "attach", !.new = u]]
      PROVE  UseSound' /\ LeftSound'
  <2>1. /\ Others(q) /\ q \in Live' /\ request'[q].step = "attach" /\ request'[q].new = u
        /\ request'[q].on = request[q].on
    BY <1>1, <1>4, CreateAdvances DEF Advances, Steps
  <2>2. Claiming(q)' /\ Made(u)'
    BY <2>1 DEF Claiming, Made, HalfMade, RedeemSteps, NewSteps
  <2>3. \A w \in Users \ {u} : Unfinished(w)' => Unfinished(w)
    BY <1>1, <1>4 DEF Unfinished, TypeOK
  <2>4. \A w \in Users : Unfinished(w)' => Unfinished(w) \/ Made(w)'
    BY <2>2, <2>3
  <2>5. QED
    BY <1>1, <1>2, <2>1, <2>2, <2>4, TidyGoesOn
<1>5. QED
  BY <1>3, <1>4 DEF CreateMember, CreateUser

\* Removing the account that could not be seen through.
LEMMA TidyDrop ==
    ASSUME TypeOK, RequestSound, UseSound, LeftSound, NEW q \in Requests, DropMember(q)
    PROVE  UseSound' /\ LeftSound'
<1>1. /\ q \in Live /\ request[q].step = "drop" /\ Goto(q, "unclaim") /\ left' = left
      /\ DeleteUser(request[q].new)
  BY DEF DropMember, Is, Waiting
<1>2. PICK u \in Users : u = request[q].new
  BY <1>1 DEF RequestSound, Staged, NewSteps
<1>3. /\ InvitationsGoOn /\ ~Unfinished(u)'
      /\ \A w \in Users : Unfinished(w)' => Unfinished(w)
  BY <1>1, <1>2, DeleteUserTidy DEF TypeOK, RowsTyped
<1>4. /\ Others(q) /\ q \in Live' /\ request'[q].step = "unclaim"
      /\ request'[q].on = request[q].on
  BY <1>1, GotoAdvances DEF Advances, Steps
<1>5. Claiming(q) /\ Claiming(q)'
  BY <1>1, <1>4 DEF Claiming, RedeemSteps
<1>6. QED
  BY <1>1, <1>2, <1>3, <1>4, <1>5, TidyGoesOn

\* A request that is done with the invitation it claimed: nobody else had claimed
\* it, or any other.
LEMMA TidySettled ==
    ASSUME TypeOK, RequestSound, LockSound, UseSound, LeftSound, NEW q \in Live,
           Claiming(q), UNCHANGED left, Others(q), q \in Live', request'[q].step = "unlock",
           NEW v \in Invitations, v = request[q].on, ~Unused(v)',
           invitation'[v].status \in {"unused", "open"} => invitation'[v].uses = 0,
           \A w \in Invitations \ {v} : invitation'[w] = invitation[w],
           \A u \in Users : Unfinished(u)' => Unfinished(u),
           \A u \in Users : HalfMade(q) /\ request[q].new = u => ~Unfinished(u)'
    PROVE  UseSound' /\ LeftSound'
<1>1. q \in Requests /\ request[q].step \in ClaimSteps
  BY DEF Live, Claiming, ClaimSteps
<1>2. ASSUME NEW p \in Live, request[p].step \in ClaimSteps PROVE p = q
  BY <1>1, <1>2 DEF LockSound, Acting, Locked, RequestSound, Staged, ClaimSteps, RedeemSteps,
     SetupSteps, Live
<1>3. \A p \in Live' : request'[p].step \notin ClaimSteps
  BY <1>2, OthersGoOn DEF Live, ClaimSteps, RedeemSteps
<1>4. \A w \in Invitations : invitation'[w].status \in {"unused", "open"} => invitation'[w].uses = 0
  BY DEF UseSound
<1>5. UseSound'
  BY <1>3, <1>4 DEF UseSound, ClaimSteps
<1>6. ASSUME NEW u \in Users, Unfinished(u)', Made(u) PROVE Made(u)'
  <2>1. PICK p \in Requests : HalfMade(p) /\ request[p].new = u
    BY <1>6 DEF Made
  <2>2. p # q
    BY <1>6, <2>1
  <2>3. HalfMade(p)' /\ request'[p].new = u
    BY <2>1, <2>2, OthersGoOn
  <2>4. QED
    BY <2>3 DEF Made
<1>7. \A w \in Invitations : Unused(w)' => Unused(w) /\ w # v
  BY DEF Unused
<1>8. ASSUME NEW w \in Invitations, Unused(w)', ClaimedFor(w) PROVE ClaimedFor(w)'
  <2>1. PICK p \in Requests : Claiming(p) /\ request[p].on = w
    BY <1>8 DEF ClaimedFor
  <2>2. p = q
    BY <1>2, <2>1 DEF Claiming, ClaimSteps
  <2>3. QED
    BY <1>7, <1>8, <2>1, <2>2
<1>9. QED
  BY <1>5, <1>6, <1>7, <1>8, LeftKept DEF Undisturbed

\* The member is in, and the invitation is used.
LEMMA TidyAttach ==
    ASSUME TypeOK, RequestSound, LockSound, UseSound, LeftSound, NEW q \in Requests,
           AssignInvitationRoles(q)
    PROVE  UseSound' /\ LeftSound'
<1>1. /\ q \in Live /\ request[q].step = "attach" /\ Goto(q, "unlock")
      /\ UNCHANGED <<account, left>> /\ complete' = complete \cup {request[q].new}
      /\ invitation' = [invitation EXCEPT ![request[q].on].uses = @ + 1]
  BY DEF AssignInvitationRoles, Is, Waiting
<1>2. Claiming(q) /\ request[q].on \in Invitations
  BY <1>1 DEF Claiming, RequestSound, Asked, Staged, RedeemSteps
<1> PICK v \in Invitations : v = request[q].on
  BY <1>2
<1>3. invitation[v].uses = 0 /\ invitation[v].status \in {"claimed", "gone"}
  BY <1>2 DEF Claiming, UseSound
<1>4. /\ \A w \in Invitations \ {v} : invitation'[w] = invitation[w]
      /\ invitation'[v] = [invitation[v] EXCEPT !.uses = @ + 1]
  BY <1>1, <1>2 DEF TypeOK
<1>5. invitation'[v].uses = 1 /\ invitation'[v].status \in {"claimed", "gone"}
  BY <1>2, <1>3, <1>4 DEF TypeOK, Invitation
<1>6. ~Unused(v)' /\ invitation'[v].status \notin {"unused", "open"}
  BY <1>5 DEF Unused
<1>7. Others(q) /\ q \in Live' /\ request'[q].step = "unlock"
  BY <1>1, GotoAdvances DEF Advances, Steps
<1>8. /\ \A u \in Users : Unfinished(u)' => Unfinished(u)
      /\ \A u \in Users : request[q].new = u => ~Unfinished(u)'
  BY <1>1 DEF Unfinished
<1>9. QED
  BY <1>1, <1>2, <1>4, <1>6, <1>7, <1>8, TidySettled

\* The invitation is open again.
LEMMA TidyUnclaim ==
    ASSUME TypeOK, RequestSound, LockSound, UseSound, LeftSound, NEW q \in Requests,
           UnclaimInvitation(q)
    PROVE  UseSound' /\ LeftSound'
<1>1. /\ q \in Live /\ request[q].step = "unclaim" /\ Goto(q, "unlock")
      /\ UNCHANGED <<account, complete, left>>
      /\ IF invitation[request[q].on].status = "claimed"
         THEN SetStatus(request[q].on, "open") ELSE UNCHANGED invitation
  BY DEF UnclaimInvitation, Is, Waiting
<1>2. Claiming(q) /\ ~HalfMade(q) /\ request[q].on \in Invitations
  BY <1>1 DEF Claiming, HalfMade, NewSteps, RequestSound, Asked, Staged, RedeemSteps
<1> PICK v \in Invitations : v = request[q].on
  BY <1>2
<1>3. invitation[v].uses = 0 /\ invitation[v].status \in {"claimed", "gone"}
  BY <1>2 DEF Claiming, UseSound
<1>4. /\ \A w \in Invitations \ {v} : invitation'[w] = invitation[w]
      /\ invitation'[v] = IF invitation[v].status = "claimed"
                          THEN [invitation[v] EXCEPT !.status = "open"] ELSE invitation[v]
  BY <1>1, <1>2 DEF SetStatus, TypeOK
<1>5. invitation'[v].uses = 0 /\ invitation'[v].status \in {"open", "gone"}
  BY <1>2, <1>3, <1>4 DEF TypeOK, Invitation
<1>6. ~Unused(v)'
  BY <1>5 DEF Unused
<1>7. Others(q) /\ q \in Live' /\ request'[q].step = "unlock"
  BY <1>1, GotoAdvances DEF Advances, Steps
<1>8. \A u \in Users : Unfinished(u)' => Unfinished(u)
  BY <1>1 DEF Unfinished
<1>9. QED
  BY <1>1, <1>2, <1>4, <1>5, <1>6, <1>7, <1>8, TidySettled

\* Creating the account of the first administrator.
LEMMA TidyFound ==
    ASSUME TypeOK, RequestSound, UseSound, LeftSound, NEW q \in Requests, CreateFounder(q)
    PROVE  UseSound' /\ LeftSound'
<1>1. q \in Live /\ request[q].step = "found" /\ UNCHANGED <<complete, invitation, left>>
  BY DEF CreateFounder, CreateUser, Is, Waiting
<1>2. InvitationsGoOn /\ ~Claiming(q) /\ ~HalfMade(q)
  BY <1>1 DEF InvitationsGoOn, Claiming, HalfMade, RedeemSteps, NewSteps
<1>3. CASE End(q) /\ UNCHANGED account
  <2>1. Others(q) /\ q \notin Live'
    BY <1>1, <1>3, EndLeaves DEF Leaves, Live
  <2>2. ~Claiming(q)'
    BY <2>1 DEF Claiming
  <2>3. \A u \in Users : Unfinished(u)' => Unfinished(u)
    BY <1>1, <1>3 DEF Unfinished
  <2>4. QED
    BY <1>1, <1>2, <2>1, <2>2, <2>3, TidyGoesOn
<1>4. ASSUME NEW u \in Users, account' = [account EXCEPT ![u] = "there"],
             request' = [request EXCEPT ![q] = [@ EXCEPT !.step = "grant", !.new = u]]
      PROVE  UseSound' /\ LeftSound'
  <2>1. Others(q) /\ q \in Live' /\ request'[q].step = "grant" /\ request'[q].new = u
    BY <1>1, <1>4, CreateAdvances DEF Advances, Steps
  <2>2. ~Claiming(q)' /\ Made(u)'
    BY <2>1 DEF Claiming, Made, HalfMade, RedeemSteps, NewSteps
  <2>3. \A w \in Users \ {u} : Unfinished(w)' => Unfinished(w)
    BY <1>1, <1>4 DEF Unfinished, TypeOK
  <2>4. \A w \in Users : Unfinished(w)' => Unfinished(w) \/ Made(w)'
    BY <2>2, <2>3
  <2>5. QED
    BY <1>1, <1>2, <2>1, <2>2, <2>4, TidyGoesOn
<1>5. QED
  BY <1>3, <1>4 DEF CreateFounder, CreateUser

\* The first administrator's grant: the account is seen through, or is still to be
\* removed.
LEMMA TidyGrant ==
    ASSUME TypeOK, RequestSound, UseSound, LeftSound, NEW q \in Requests,
           InsertPermissionGrant(q)
    PROVE  UseSound' /\ LeftSound'
<1>1. q \in Live /\ request[q].step = "grant" /\ UNCHANGED <<account, invitation, left>>
  BY DEF InsertPermissionGrant, Is, Waiting
<1>2. InvitationsGoOn /\ ~Claiming(q)
  BY <1>1 DEF InvitationsGoOn, Claiming, RedeemSteps
<1>3. CASE End(q) /\ complete' = complete \cup {request[q].new}
  <2>1. Others(q) /\ q \notin Live'
    BY <1>1, <1>3, EndLeaves DEF Leaves, Live
  <2>2. ~Claiming(q)'
    BY <2>1 DEF Claiming
  <2>3. /\ \A u \in Users : Unfinished(u)' => Unfinished(u)
        /\ \A u \in Users : request[q].new = u => ~Unfinished(u)'
    BY <1>1, <1>3 DEF Unfinished
  <2>4. QED
    BY <1>1, <1>2, <2>1, <2>2, <2>3, TidyGoesOn
<1>4. CASE Goto(q, "undo") /\ UNCHANGED complete
  <2>1. /\ Others(q) /\ q \in Live' /\ request'[q].step = "undo"
        /\ request'[q].new = request[q].new
    BY <1>1, <1>4, GotoAdvances DEF Advances, Steps
  <2>2. ~Claiming(q)' /\ HalfMade(q)'
    BY <2>1 DEF Claiming, HalfMade, RedeemSteps, NewSteps
  <2>3. \A u \in Users : Unfinished(u)' => Unfinished(u)
    BY <1>1, <1>4 DEF Unfinished
  <2>4. QED
    BY <1>1, <1>2, <2>1, <2>2, <2>3, TidyGoesOn
<1>5. QED
  BY <1>3, <1>4 DEF InsertPermissionGrant

\* Removing the account of a setup that came too late.
LEMMA TidyUndo ==
    ASSUME TypeOK, RequestSound, UseSound, LeftSound, NEW q \in Requests, UndoFounder(q)
    PROVE  UseSound' /\ LeftSound'
<1>1. /\ q \in Live /\ request[q].step = "undo" /\ End(q) /\ left' = left
      /\ DeleteUser(request[q].new)
  BY DEF UndoFounder, Is, Waiting
<1>2. PICK u \in Users : u = request[q].new
  BY <1>1 DEF RequestSound, Staged, NewSteps
<1>3. /\ InvitationsGoOn /\ ~Unfinished(u)'
      /\ \A w \in Users : Unfinished(w)' => Unfinished(w)
  BY <1>1, <1>2, DeleteUserTidy DEF TypeOK, RowsTyped
<1>4. Others(q) /\ q \notin Live'
  BY <1>1, EndLeaves DEF Leaves, Live
<1>5. ~Claiming(q) /\ ~Claiming(q)'
  BY <1>1, <1>4 DEF Claiming, RedeemSteps
<1>6. QED
  BY <1>1, <1>2, <1>3, <1>4, <1>5, TidyGoesOn

\* The deployment starts with finished accounts only, and no invitation.
LEMMA TidyInit == Init => UseSound /\ LeftSound
<1> SUFFICES ASSUME Init PROVE UseSound /\ LeftSound
  OBVIOUS
<1>1. Live = {}
  BY DEF Init, Live
<1>2. \A v \in Invitations : invitation[v].status = "unused" /\ invitation[v].uses = 0
  BY DEF Init, NoInvitation
<1>3. UseSound
  BY <1>1, <1>2 DEF UseSound
<1>4. \A u \in Users : account[u] = "there" => u \in complete
  BY DEF Init
<1>5. QED
  BY <1>2, <1>3, <1>4 DEF LeftSound

\* Every step keeps accounts and invitations in somebody's hands.
LEMMA TidyStep ==
    ASSUME LockInv, UseSound, LeftSound, [Next]_vars
    PROVE  UseSound' /\ LeftSound'
<1>1. TypeOK /\ RequestSound /\ LockSound
  BY DEF LockInv
<1>2. ASSUME NEW q \in Requests, Arrive(q) \/ Fail(q) PROVE UseSound' /\ LeftSound'
  BY <1>1, <1>2, TidyIdle, TidyFault
<1>3. ASSUME NEW q \in Requests, Redeem(q) PROVE UseSound' /\ LeftSound'
  BY <1>1, <1>3, TidyClaim, TidyValidate, TidyCreate, TidyAttach, TidyDrop, TidyUnclaim
     DEF Redeem
<1>4. ASSUME NEW q \in Requests, Setup(q) PROVE UseSound' /\ LeftSound'
  BY <1>1, <1>4, TidyIdle, TidyFound, TidyGrant, TidyUndo DEF Setup
<1>5. ASSUME NEW q \in Requests, Step(q) PROVE UseSound' /\ LeftSound'
  BY <1>1, <1>3, <1>4, <1>5, TidyIdle, TidyWrite DEF Step
<1>6. CASE \/ \E v \in Invitations : Expire(v)
           \/ \E u \in Users : ChangePassword(u)
           \/ UNCHANGED vars
  BY <1>1, <1>6, TidyOutside
<1>7. CASE \E i \in Instances : Crash(i)
  BY <1>1, <1>7, TidyFault
<1>8. QED
  BY <1>2, <1>5, <1>6, <1>7 DEF Next

\* Where no statement failed and no process died, an account that is not finished,
\* or an invitation claimed for nobody, belongs to a request still at work on it.
THEOREM NothingIsLeftBehind == Spec => []NothingLeftBehind
<1>1. Init => LockInv /\ UseSound /\ LeftSound
  BY LockInvInit, TidyInit
<1>2. LockInv /\ UseSound /\ LeftSound /\ [Next]_vars => (LockInv /\ UseSound /\ LeftSound)'
  BY LockInvStep, TidyStep
<1>3. LeftSound => NothingLeftBehind
  BY DEF LeftSound, NothingLeftBehind, Undisturbed, HalfMade, Claiming
<1>4. QED
  BY <1>1, <1>2, <1>3, PTL DEF Spec
-----------------------------------------------------------------------------
(* Nobody waits for ever.  A queue holds live requests of its own instance, *)
(* each once, so its head is there to go on; and as only the head has       *)
(* reserved a connection, the pool always has another one for statements.   *)

Line(i) ==
    /\ \A k \in DOMAIN queue[i] :
        LET q == queue[i][k] IN q \in Live /\ request[q].at = i /\ Locked(q)
    /\ \A k, l \in DOMAIN queue[i] : queue[i][k] = queue[i][l] => k = l
LineSound == \A i \in Instances : Line(i)

\* What a request waits for before its next step: its turn, the lock, a connection.
Unblocked(q) ==
    /\ request[q].step = "queued" => MyTurn(q)
    /\ request[q].step = "locking" => Available
    /\ request[q].step \notin {"locking", "unlock"} => Connected(request[q].at)
NoStandstill == Live # {} => \E q \in Live : Unblocked(q)

\* A queue that stays as it is stays sound as long as its requests live on.
LEMMA LineKept ==
    ASSUME NEW i \in Instances, Line(i), queue'[i] = queue[i],
           \A p \in Live : request[p].at = i /\ Locked(p) =>
                p \in Live' /\ request'[p].at = i /\ Locked(p)'
    PROVE  Line(i)'
BY DEF Line

\* Every step keeps the queues sound.
LEMMA LineSoundStep ==
    ASSUME LockInv, LineSound, [Next]_vars
    PROVE  LineSound'
<1> USE DEF LockInv
<1>1. ASSUME NEW q \in Requests, Arrive(q) PROVE LineSound'
  <2>1. PICK r \in Request : Arrived(q, r)
    BY <1>1, ArriveAdds
  <2>2. \A p \in Live : p # q /\ p \in Live' /\ request'[p] = request[p] /\ (Locked(p)' <=> Locked(p))
    BY <2>1 DEF Arrived, Others, Live, Locked
  <2>3. ASSUME NEW i \in Instances PROVE Line(i)'
    <3>1. Line(i) /\ queue[i] \in Seq(Requests)
      BY DEF LineSound, TypeOK
    <3>2. CASE queue'[i] = queue[i]
      BY <2>2, <3>1, <3>2, LineKept
    <3>3. CASE queue'[i] # queue[i]
      <4>1. r.op # "bootstrap" /\ r.at = i /\ queue' = [queue EXCEPT ![i] = Append(@, q)]
        BY <2>1, <3>3 DEF Arrived, TypeOK
      <4>2. PICK s \in Seq(Requests) : s = queue[i]
        BY <3>1
      <4>3. PICK t : t = queue'[i] /\ t = Append(s, q)
        BY <4>1, <4>2 DEF TypeOK
      <4>4. q \in Live' /\ request'[q].at = i /\ Locked(q)'
        BY <2>1, <4>1, LiveRequest DEF Arrived, Live, Locked
      <4>5. /\ \A k \in DOMAIN s : s[k] \in Live /\ request[s[k]].at = i /\ Locked(s[k])
            /\ \A k, l \in DOMAIN s : s[k] = s[l] => k = l
        BY <3>1, <4>2 DEF Line
      <4>6. \A k \in DOMAIN t : \/ k \in DOMAIN s /\ t[k] = s[k]
                                \/ k = Len(s) + 1 /\ t[k] = q
        BY <4>2, <4>3
      <4>7. \A k \in DOMAIN t :
                t[k] \in Live' /\ request'[t[k]].at = i /\ Locked(t[k])'
        BY <2>2, <4>4, <4>5, <4>6
      <4>8. \A k, l \in DOMAIN t : t[k] = t[l] => k = l
        BY <2>2, <4>5, <4>6
      <4>9. QED
        BY <4>3, <4>7, <4>8 DEF Line
    <3>4. QED
      BY <3>2, <3>3
  <2>4. QED
    BY <2>3 DEF LineSound
<1>2. ASSUME NEW q \in Requests, Reserve(q) \/ Lock(q) PROVE LineSound'
  <2> DEFINE s == IF request[q].op = "redeem" THEN "claim" ELSE "check"
  <2>1. q \in Live /\ queue' = queue /\ (Goto(q, "locking") \/ Goto(q, s))
    BY <1>2 DEF Reserve, Lock, Is
  <2>2. "locking" \in Steps /\ s \in Steps
    BY DEF Steps
  <2>3. PICK t \in Steps : Advances(q, t, request[q].new)
    BY <2>1, <2>2, GotoAdvances
  <2>4. \A p \in Live : /\ p \in Live' /\ request'[p].at = request[p].at
                        /\ Locked(p)' <=> Locked(p)
    BY <2>3 DEF Advances, Others, Live, Locked
  <2>5. QED
    BY <2>1, <2>4, LineKept DEF LineSound
<1>3. ASSUME NEW q \in Requests, Unlock(q) PROVE LineSound'
  <2> DEFINE j == request[q].at
  <2>1. Leaves(q) /\ Is(q, "unlock") /\ queue' = [queue EXCEPT ![j] = Tail(@)]
    BY <1>3, EndLeaves DEF Unlock, Is, End
  <2>2. q \in Live /\ Locked(q) /\ j \in Instances
    BY <2>1, LiveRequest DEF Is, RequestSound, Staged, SetupSteps, Locked, Request
  <2>3. queue[j] \in Seq(Requests) /\ queue[j] # <<>> /\ queue[j][1] = q
    BY <2>1, <2>2 DEF TypeOK, QueueSound, InLine, Is
  <2>4. \A p \in Live \ {q} : /\ p \in Live' /\ request'[p] = request[p]
                              /\ Locked(p)' <=> Locked(p)
    BY <2>1 DEF Leaves, Others, Live, Locked
  <2>5. ASSUME NEW i \in Instances PROVE Line(i)'
    <3>1. Line(i)
      BY DEF LineSound
    <3>2. CASE i # j
      <4>1. queue'[i] = queue[i]
        BY <2>1, <3>2 DEF TypeOK
      <4>2. \A p \in Live : request[p].at = i => p # q
        BY <3>2
      <4>3. QED
        BY <2>4, <3>1, <4>1, <4>2, LineKept
    <3>3. CASE i = j
      <4>1. PICK s \in Seq(Requests) : s = queue[i] /\ s # <<>> /\ s[1] = q
        BY <2>3, <3>3
      <4>2. PICK t : t = queue'[i] /\ t = Tail(s)
        BY <2>1, <2>2, <3>3, <4>1 DEF TypeOK
      <4>3. /\ \A k \in DOMAIN s : s[k] \in Live /\ request[s[k]].at = i /\ Locked(s[k])
            /\ \A k, l \in DOMAIN s : s[k] = s[l] => k = l
        BY <3>1, <4>1 DEF Line
      <4>4. \A k \in DOMAIN t : k \in Nat /\ k + 1 \in DOMAIN s /\ k + 1 # 1 /\ t[k] = s[k + 1]
        BY <4>1, <4>2
      <4>5. \A k \in DOMAIN t : t[k] # q
        BY <4>1, <4>3, <4>4
      <4>6. \A k \in DOMAIN t : t[k] \in Live' /\ request'[t[k]].at = i /\ Locked(t[k])'
        BY <2>4, <4>3, <4>4, <4>5
      <4>7. \A k, l \in DOMAIN t : t[k] = t[l] => k = l
        <5> SUFFICES ASSUME NEW k \in DOMAIN t, NEW l \in DOMAIN t, t[k] = t[l] PROVE k = l
          OBVIOUS
        <5>1. k + 1 = l + 1
          BY <4>3, <4>4
        <5>2. QED
          BY <4>4, <5>1
      <4>8. QED
        BY <4>2, <4>6, <4>7 DEF Line
    <3>4. QED
      BY <3>2, <3>3
  <2>6. QED
    BY <2>5 DEF LineSound
<1>4. ASSUME NEW q \in Requests, Inner(q) PROVE LineSound'
  <2>1. InnerMove(q)
    BY <1>4, InnerMoves
  <2>2. queue' = queue
    BY <2>1 DEF InnerMove
  <2>3. ASSUME NEW p \in Live, Locked(p)
        PROVE  p \in Live' /\ request'[p].at = request[p].at /\ Locked(p)'
    BY <2>1, <2>3 DEF InnerMove, Moves, Leaves, Advances, Others, Locked, Live
  <2>4. QED
    BY <2>2, <2>3, LineKept DEF LineSound
<1>5. ASSUME NEW j \in Instances, Crash(j) PROVE LineSound'
  <2>1. /\ request' = [q \in Requests |-> IF q \in At(j) THEN None ELSE request[q]]
        /\ queue' = [queue EXCEPT ![j] = <<>>]
    BY <1>5 DEF Crash
  <2>2. \A p \in Live : request[p].at # j =>
            p \in Live' /\ request'[p] = request[p] /\ (Locked(p)' <=> Locked(p))
    BY <2>1 DEF Live, At, Locked
  <2>3. ASSUME NEW i \in Instances PROVE Line(i)'
    <3>1. CASE i = j
      <4>1. queue'[i] = <<>>
        BY <2>1, <3>1 DEF TypeOK
      <4>2. QED
        BY <4>1 DEF Line
    <3>2. CASE i # j
      <4>1. queue'[i] = queue[i]
        BY <2>1, <3>2 DEF TypeOK
      <4>2. QED
        BY <2>2, <3>2, <4>1, LineKept DEF LineSound
    <3>3. QED
      BY <3>1, <3>2
  <2>4. QED
    BY <2>3 DEF LineSound
<1>6. CASE UNCHANGED <<request, queue>>
  BY <1>6, LineKept DEF LineSound, Live, Locked
<1>7. QED
  BY <1>1, <1>2, <1>3, <1>4, <1>5, <1>6
     DEF Next, Step, Inner, Expire, ChangePassword, Waiting, vars

\* However many changes queue up in an instance, one connection of its pool is taken.
LEMMA PoolSuffices ==
    ASSUME LockInv, NEW i \in Instances
    PROVE  Connected(i)
<1>1. ASSUME NEW q \in Reserved(i) PROVE q = queue[i][1]
  BY DEF Reserved, At, LockInv, QueueSound, InLine
<1>2. Reserved(i) = {} \/ Reserved(i) = {queue[i][1]}
  BY <1>1
<1>3. Cardinality(Reserved(i)) \in {0, 1}
  BY <1>2, FS_EmptySet, FS_Singleton
<1>4. QED
  BY <1>3 DEF Connected

\* As long as a request is unanswered, some request waits neither for its turn nor for
\* the lock nor for a connection, through any failures and crashes: the holder of the lock
\* if there is one, else a request that asks for it, the head of a queue, or a setup.
THEOREM SomeoneWaitsForNobody == Spec => []NoStandstill
<1>1. Init => LockInv /\ LineSound
  <2> SUFFICES ASSUME Init PROVE LineSound
    BY LockInvInit
  <2>1. QED
    BY DEF Init, LineSound, Line
<1>2. LockInv /\ LineSound /\ [Next]_vars => (LockInv /\ LineSound)'
  BY LockInvStep, LineSoundStep
<1>3. LockInv /\ LineSound => NoStandstill
  <2> SUFFICES ASSUME LockInv, LineSound, NEW q \in Live PROVE \E p \in Live : Unblocked(p)
    BY DEF NoStandstill
  <2>1. \A p \in Live : Connected(request[p].at) /\ request[p].at \in Instances
    BY LiveRequest, PoolSuffices DEF LockInv, Request
  <2>2. CASE lock # None
    <3>1. Acting(lock)
      BY <2>2 DEF LockInv, LockSound
    <3>2. QED
      BY <2>1, <3>1 DEF Acting, Unblocked
  <2>3. CASE lock = None /\ request[q].step # "queued"
    BY <2>1, <2>3 DEF Unblocked, Available
  <2>4. CASE lock = None /\ request[q].step = "queued"
    <3> DEFINE i == request[q].at  h == queue[i][1]
    <3>1. Locked(q) /\ i \in Instances
      BY <2>1, <2>4 DEF LockInv, RequestSound, Staged, SetupSteps, Locked
    <3>2. queue[i] \in Seq(Requests) /\ 1 \in DOMAIN queue[i]
      <4>1. queue[i] \in Seq(Requests)
        BY <3>1 DEF LockInv, TypeOK
      <4>2. PICK k \in DOMAIN queue[i] : queue[i][k] = q
        BY <3>1 DEF LockInv, QueueSound, InLine
      <4>3. QED
        BY <4>1, <4>2
    <3>3. h \in Live /\ request[h].at = i
      BY <3>1, <3>2 DEF LineSound, Line
    <3>4. MyTurn(h)
      BY <3>2, <3>3 DEF MyTurn
    <3>5. QED
      BY <2>1, <2>4, <3>3, <3>4 DEF Unblocked, Available
  <2>5. QED
    BY <2>2, <2>3, <2>4
<1>4. QED
  BY <1>1, <1>2, <1>3, PTL DEF Spec
=============================================================================
