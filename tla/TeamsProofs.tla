---------------------------- MODULE TeamsProofs ----------------------------
(***************************************************************************)
(* Theorems about Teams, for any users, custom roles and invitations, and  *)
(* any number of overlapping requests.                                     *)
(***************************************************************************)
EXTENDS Teams, FiniteSetTheorems, TLAPS

(* The inductive invariant, in named parts. *)

Held       == Roles \cup {None}
Membership == [id : Nat, role : Held]
Invitation == [status : {"unused"}]
              \cup [status : {"pending", "accepted", "revoked"}, for : Users, role : Roles]

ChangeReq == [step : {"count", "write"}, on : Users, to : Held,
              found : Membership, owners : SUBSET Users]
InviteReq == [step : {"invite"}, on : Users, to : Roles]
AcceptReq == [step : {"accept"}, on : Users, to : Roles,
              invitation : Invites, found : {"pending"}]
CommitReq == [step : {"invalidate"}, on : Users]
Request   == {Idle} \cup ChangeReq \cup InviteReq \cup AcceptReq \cup CommitReq

\* A request holds what its step needs.
Typed ==
  /\ TypeOK
  /\ invite \in [Invites -> Invitation]
  /\ req \in [Requests -> Request]

\* While the team exists, no invitation that someone is accepting goes away.
AcceptsKnown ==
  exists => \A q \in Requests :
    req[q].step = "accept" => invite[req[q].invitation].status # "unused"

\* A request that takes an owner away has counted others besides.
OthersCounted ==
  \A q \in Requests :
    req[q].step = "write" /\ TakesOwnerAway(q) =>
      \A u \in Users : req[q].owners \notin {{}, {u}}

Inv ==
  /\ Typed
  /\ AcceptsKnown
  /\ OthersCounted
  /\ OwnerRemains
  /\ AcceptedIffUsed
  /\ ContextFresh

(* What the invariant says of a request, by its step. *)
LEMMA ByStep ==
  ASSUME Typed, NEW q \in Requests
  PROVE  /\ req[q] \in Request
         /\ req[q].step \in {"count", "write"} => req[q] \in ChangeReq
         /\ req[q].step = "invite" => req[q] \in InviteReq
         /\ req[q].step = "accept" => req[q] \in AcceptReq
         /\ req[q].step = "invalidate" => req[q] \in CommitReq
<1>1. req[q] \in Request
  BY DEF Typed
<1> QED
  BY <1>1, SMTT(60) DEF Request, Idle, ChangeReq, InviteReq, AcceptReq, CommitReq

(* A request that is not invalidating comes to an end, or one that is over *)
(* begins: the others are as they were. *)
LEMMA ReqTyped ==
  ASSUME Typed, NEW q \in Requests, NEW r \in Request,
         req' = [req EXCEPT ![q] = r]
  PROVE  /\ req' \in [Requests -> Request]
         /\ req'[q] = r
         /\ \A p \in Requests : p # q => req'[p] = req[p]
BY DEF Typed

(* A step is known for each kind of request. *)
LEMMA StepKnown ==
  ASSUME NEW r \in Request
  PROVE  r.step \in {"idle", "count", "write", "invite", "accept", "invalidate"}
BY SMTT(60) DEF Request, Idle, ChangeReq, InviteReq, AcceptReq, CommitReq

(* What Load adds to the fills. *)
LEMMA LoadTyped ==
  ASSUME Typed, NEW u \in Users, NEW seen, Load(u, seen)
  PROVE  fills' \subseteq Users \X Held
<1>1. fills \subseteq Users \X Held /\ Role(u) \in Held
  BY DEF Typed, TypeOK, Held, Role
<1> QED BY <1>1 DEF Load

LEMMA Initially == Init => Inv
<1> SUFFICES ASSUME Init PROVE Inv
  OBVIOUS
<1>1. PICK founder \in Users, others \in [Users -> System \cup {None}] :
        member = [u \in Users |->
                    [id |-> 1, role |-> IF u = founder THEN "OWNER" ELSE others[u]]]
  BY DEF Init
<1>2. PICK out \in SUBSET Invites, w \in Users, r \in Grants :
        invite = [i \in Invites |-> IF i \in out THEN Open(w, r) ELSE Unused]
  <2>1. \E out \in SUBSET Invites, u \in Users, r \in Grants :
          /\ Cardinality(out) <= 1
          /\ out # {} => Role(u) = None
          /\ invite = [i \in Invites |-> IF i \in out THEN Open(u, r) ELSE Unused]
    BY Zenon DEF Init
  <2> QED BY <2>1, Zenon
<1>3. member \in [Users -> Membership]
  BY <1>1 DEF Membership, Held, Roles, System
<1>4. invite \in [Invites -> Invitation]
  <2>1. Unused \in Invitation /\ Open(w, r) \in Invitation
    BY TeamsAssumption DEF Unused, Open, Invitation
  <2> QED BY <1>2, <2>1
<1>5. \A i \in Invites : invite[i].status \in {"unused", "pending"}
  BY <1>2 DEF Open, Unused
<1>6. Typed
  <2>1. \A q \in Requests : req[q] = Idle /\ req[q].step = "idle"
    BY DEF Init, Idle
  <2>2. req \in [Requests -> Request]
    BY DEF Init, Request
  <2>3. /\ exists = TRUE /\ roles = Custom /\ cache = [u \in Users |-> Miss] /\ fills = {}
        /\ uses = [i \in Invites |-> 0] /\ late = {} /\ raced = FALSE
        /\ asked = 0 /\ faults = 0
    BY DEF Init
  <2>4. /\ member \in [Users -> [id : Nat, role : Roles \cup {None}]]
        /\ \A i \in Invites : invite[i] \in Invitation
    BY <1>3, <1>4 DEF Membership, Held
  <2>5. /\ cache \in [Users -> Roles \cup {None, Miss}] /\ uses \in [Invites -> Nat]
        /\ asked \in 0 .. MaxRequests /\ faults \in 0 .. MaxFaults
    BY <2>3, TeamsAssumption
  <2>6. TypeOK
    BY <2>1, <2>3, <2>4, <2>5 DEF TypeOK, Invitation
  <2> QED
    BY <1>4, <2>2, <2>6 DEF Typed
<1>7. AcceptsKnown /\ OthersCounted
  BY DEF Init, Idle, AcceptsKnown, OthersCounted
<1>8. OwnerRemains
  BY <1>1 DEF OwnerRemains, Owners, Role
<1>9. AcceptedIffUsed
  BY <1>5 DEF Init, AcceptedIffUsed
<1>10. ContextFresh
  BY DEF Init, ContextFresh
<1> QED BY <1>6, <1>7, <1>8, <1>9, <1>10 DEF Inv

(* The disjuncts of Next, by what becomes of the request they are about. *)
LEMMA TypedStep == Inv /\ [Next]_vars => Typed'
<1> SUFFICES ASSUME Inv, [Next]_vars PROVE Typed'
  OBVIOUS
<1>0. /\ Typed
      /\ exists \in BOOLEAN /\ member \in [Users -> Membership] /\ roles \subseteq Custom
      /\ invite \in [Invites -> Invitation] /\ cache \in [Users -> Held \cup {Miss}]
      /\ fills \subseteq Users \X Held /\ req \in [Requests -> Request]
      /\ uses \in [Invites -> Nat] /\ late \subseteq Users /\ raced \in BOOLEAN
      /\ asked \in 0 .. MaxRequests /\ faults \in 0 .. MaxFaults
  BY DEF Inv, Typed, TypeOK, Membership, Held
<1>1. ASSUME
        /\ exists' \in BOOLEAN /\ member' \in [Users -> Membership] /\ roles' \subseteq Custom
        /\ invite' \in [Invites -> Invitation] /\ cache' \in [Users -> Held \cup {Miss}]
        /\ fills' \subseteq Users \X Held /\ req' \in [Requests -> Request]
        /\ uses' \in [Invites -> Nat] /\ late' \subseteq Users /\ raced' \in BOOLEAN
        /\ asked' \in 0 .. MaxRequests /\ faults' \in 0 .. MaxFaults
      PROVE Typed'
  <2>1. \A q \in Requests : req'[q].step \in
                        {"idle", "count", "write", "invite", "accept", "invalidate"}
    BY <1>1, StepKnown
  <2>2. /\ \A i \in Invites : invite'[i] \in Invitation
        /\ cache' \in [Users -> Roles \cup {None, Miss}]
    BY <1>1 DEF Held
  <2> QED BY <1>1, <2>1, <2>2 DEF Typed, TypeOK, Membership, Held, Invitation
<1>f. ASSUME Fault PROVE faults' \in 0 .. MaxFaults
  BY <1>0, <1>f, TeamsAssumption DEF Fault
<1>a. ASSUME asked < MaxRequests, asked' = asked + 1 PROVE asked' \in 0 .. MaxRequests
  BY <1>0, <1>a, TeamsAssumption
<1>b. ASSUME NEW q \in Requests, NEW r \in Request, Begin(q, r)
      PROVE  req' \in [Requests -> Request] /\ asked' \in 0 .. MaxRequests
  BY <1>0, <1>a, <1>b DEF Begin
<1>e. ASSUME NEW q \in Requests, End(q) PROVE req' \in [Requests -> Request]
  BY <1>0, <1>e DEF End, Request
<1>c. ASSUME NEW q \in Requests, req[q].on \in Users, Commit(q)
      PROVE  req' \in [Requests -> Request]
  <2>1. [step |-> "invalidate", on |-> req[q].on] \in Request
    BY <1>c DEF Request, CommitReq
  <2> QED BY <1>0, <1>c, <2>1 DEF Commit
<1>3. ASSUME NEW u \in Users, Visit(u) PROVE Typed'
  BY <1>0, <1>1, <1>3, LoadTyped DEF Visit, dbVars, bounds
<1>4. ASSUME NEW u \in Users, DeleteTeam(u) PROVE Typed'
  <2>1. member' \in [Users -> Membership]
    BY <1>0, <1>4 DEF DeleteTeam, Membership, Held
  <2>2. invite' \in [Invites -> Invitation]
    BY <1>4 DEF DeleteTeam, Unused, Invitation
  <2> QED BY <1>0, <1>1, <1>a, <1>4, <2>1, <2>2, LoadTyped DEF DeleteTeam
<1>5. ASSUME NEW u \in Users, Expire(u) PROVE Typed'
  BY <1>0, <1>1, <1>5 DEF Expire, dbVars, bounds
<1>6. ASSUME NEW u \in Users, NEW r \in Custom, DeleteRole(u, r) PROVE Typed'
  BY <1>0, <1>1, <1>a, <1>6, LoadTyped DEF DeleteRole
<1>7. ASSUME NEW u \in Users, NEW i \in Invites, Revoke(u, i) PROVE Typed'
  <2>1. invite' \in [Invites -> Invitation]
    BY <1>0, <1>7 DEF Revoke, Invitation
  <2> QED BY <1>0, <1>1, <1>a, <1>7, <2>1, LoadTyped DEF Revoke
<1>8. ASSUME NEW q \in Requests, NEW u \in Users, NEW on \in Users,
             NEW to \in Grants \cup {None}, Change(q, u, on, to)
      PROVE  Typed'
  <2> DEFINE r == [step |-> "count", on |-> on, to |-> to, found |-> member[on],
                   owners |-> {}]
  <2>1. r \in ChangeReq
    BY <1>0, TeamsAssumption DEF ChangeReq, Held
  <2>2. r \in Request
    BY <2>1 DEF Request
  <2>3. Begin(q, r) /\ UNCHANGED <<dbVars, cache, late, uses, raced, faults>>
        /\ \E actor \in Roles : Load(u, actor)
    BY <1>8 DEF Change
  <2> HIDE DEF r
  <2> QED BY <1>0, <1>1, <1>b, <2>2, <2>3, LoadTyped DEF dbVars
<1>9. ASSUME NEW q \in Requests, NEW u \in Users, NEW on \in Users,
             NEW to \in Grants, Invite(q, u, on, to)
      PROVE  Typed'
  <2> DEFINE r == [step |-> "invite", on |-> on, to |-> to]
  <2>1. r \in InviteReq
    BY TeamsAssumption DEF InviteReq
  <2>2. r \in Request
    BY <2>1 DEF Request
  <2>3. Begin(q, r) /\ UNCHANGED <<dbVars, cache, late, uses, raced, faults>>
        /\ \E actor \in Roles : Load(u, actor)
    BY <1>9 DEF Invite
  <2> HIDE DEF r
  <2> QED BY <1>0, <1>1, <1>b, <2>2, <2>3, LoadTyped DEF dbVars
<1>10. ASSUME NEW q \in Requests, NEW i \in Invites, Accept(q, i) PROVE Typed'
  <2> DEFINE r == [step |-> "accept", on |-> invite[i].for, to |-> invite[i].role,
                   invitation |-> i, found |-> invite[i].status]
  <2>1. invite[i].status = "pending" /\ invite[i].for \in Users /\ invite[i].role \in Roles
    BY <1>0, <1>10 DEF Accept, Invitation
  <2>2. r \in AcceptReq
    BY <2>1 DEF AcceptReq
  <2>3. r \in Request
    BY <2>2 DEF Request
  <2>4. Begin(q, r) /\ UNCHANGED <<dbVars, cacheVars, uses, raced, faults>>
    BY <1>10 DEF Accept
  <2> HIDE DEF r
  <2> QED BY <1>0, <1>1, <1>b, <2>3, <2>4 DEF dbVars, cacheVars
<1>11. ASSUME NEW q \in Requests, CountOwners(q) PROVE Typed'
  <2>1. req[q] \in ChangeReq
    BY <1>0, <1>11, ByStep DEF CountOwners
  <2>2. CASE End(q)
    BY <1>0, <1>1, <1>e, <1>11, <2>2 DEF CountOwners, dbVars, cacheVars, bounds
  <2>3. CASE Counted(q)
    <3>1. [req[q] EXCEPT !.step = "write",
                         !.owners = IF TakesOwnerAway(q) THEN Owners ELSE {}] \in ChangeReq
      BY <2>1 DEF ChangeReq, Owners
    <3>2. req' \in [Requests -> Request]
      BY <1>0, <2>3, <3>1, SMTT(30) DEF Counted, Request
    <3> QED BY <1>0, <1>1, <1>11, <3>2 DEF CountOwners, dbVars, cacheVars, bounds
  <2> QED BY <1>11, <2>2, <2>3 DEF CountOwners
<1>12. ASSUME NEW q \in Requests, Write(q) PROVE Typed'
  <2>1. req[q].on \in Users /\ req[q].to \in Held
    BY <1>0, <1>12, ByStep DEF Write, ChangeReq
  <2>2. member' \in [Users -> Membership]
    BY <1>0, <1>12, <2>1 DEF Write, Membership
  <2>3. raced' \in BOOLEAN
    BY <1>0, <1>12 DEF Write, Outdated, TakesOwnerAway
  <2> QED BY <1>0, <1>1, <1>c, <1>12, <2>1, <2>2, <2>3 DEF Write, cacheVars, bounds
<1>13. ASSUME NEW q \in Requests, WriteFails(q) PROVE Typed'
  BY <1>0, <1>1, <1>e, <1>f, <1>13 DEF WriteFails, dbVars, cacheVars
<1>14. ASSUME NEW q \in Requests, Invalidate(q) PROVE Typed'
  BY <1>0, <1>1, <1>e, <1>14 DEF Invalidate, dbVars, bounds
<1>15. ASSUME NEW q \in Requests, InvalidateFails(q) PROVE Typed'
  <2>1. req[q].on \in Users
    BY <1>0, <1>15, ByStep DEF InvalidateFails, CommitReq
  <2> QED BY <1>0, <1>1, <1>e, <1>f, <1>15, <2>1 DEF InvalidateFails, dbVars
<1>16. ASSUME NEW q \in Requests, InviteWrite(q) PROVE Typed'
  <2>1. req[q].on \in Users /\ req[q].to \in Roles
    BY <1>0, <1>16, ByStep DEF InviteWrite, InviteReq
  <2>2. Open(req[q].on, req[q].to) \in Invitation
    BY <2>1 DEF Open, Invitation
  <2>3. \A j \in Pending(req[q].on) \cap Invites :
          [invite[j] EXCEPT !.status = "revoked"] \in Invitation
    BY <1>0 DEF Pending, Invitation
  <2>4. invite' \in [Invites -> Invitation]
    BY <1>0, <1>16, <2>2, <2>3 DEF InviteWrite
  <2> QED BY <1>0, <1>1, <1>e, <1>16, <2>4 DEF InviteWrite, cacheVars, bounds
<1>17. ASSUME NEW q \in Requests, AcceptWrite(q) PROVE Typed'
  <2>1. /\ req[q].on \in Users /\ req[q].to \in Roles /\ req[q].invitation \in Invites
        /\ exists => invite[req[q].invitation].status # "unused"
    BY <1>0, <1>17, ByStep DEF AcceptWrite, AcceptReq, Inv, AcceptsKnown
  <2> DEFINE i == req[q].invitation
             u == req[q].on
  <2>2. CASE Commit(q) /\ exists
             /\ member' = [member EXCEPT ![u] = [id |-> @.id + 1, role |-> req[q].to]]
             /\ invite' = [invite EXCEPT ![i].status = "accepted"]
             /\ uses' = [uses EXCEPT ![i] = @ + 1]
             /\ raced' = (raced \/ invite[i].status # req[q].found)
    <3>1. member' \in [Users -> Membership]
      BY <1>0, <2>1, <2>2 DEF Membership, Held
    <3>2. invite' \in [Invites -> Invitation]
      BY <1>0, <2>1, <2>2 DEF Invitation
    <3> QED BY <1>0, <1>1, <1>c, <1>17, <2>1, <2>2, <3>1, <3>2
            DEF AcceptWrite, cacheVars, bounds
  <2>3. CASE End(q) /\ UNCHANGED <<member, invite, uses, raced>>
    BY <1>0, <1>1, <1>e, <1>17, <2>3 DEF AcceptWrite, cacheVars, bounds
  <2> QED BY <1>17, <2>2, <2>3 DEF AcceptWrite
<1>18. ASSUME NEW f \in fills, Fill(f[1], f[2]) PROVE Typed'
  <2>1. f[1] \in Users /\ f[2] \in Held
    BY <1>0
  <2> QED BY <1>0, <1>1, <1>18, <2>1 DEF Fill, dbVars, bounds
<1>19. CASE UNCHANGED vars
  BY <1>0, <1>1, <1>19 DEF vars, dbVars, cacheVars, bounds
<1> QED
  BY <1>3, <1>4, <1>5, <1>6, <1>7, <1>8, <1>9, <1>10, <1>11, <1>12, <1>13, <1>14,
     <1>15, <1>16, <1>17, <1>18, <1>19 DEF Next, Progress

-----------------------------------------------------------------------------
(* The memberships, and what has been done on older facts, change in three *)
(* actions only.  What the others do is small enough to be said at once.   *)

\* An invitation is sent, revoked, or left alone.
StatusMoves ==
  \A i \in Invites :
    \/ invite'[i].status = invite[i].status
    \/ invite[i].status = "pending" /\ invite'[i].status = "revoked"
    \/ invite[i].status = "unused" /\ uses[i] = 0 /\ invite'[i].status = "pending"

\* A request that gets anywhere has read what it needs for it.
RequestMoves ==
  \A p \in Requests :
    \/ req'[p] = req[p]
    \/ req'[p].step \in {"idle", "count", "invite"}
    \/ req'[p].step = "accept" /\ invite'[req'[p].invitation].status = "pending"
    \/ /\ req'[p].step = "write"
       /\ TakesOwnerAway(p)' => req'[p].owners = Owners /\ ~(Cardinality(Owners) <= 1)

\* A cached value is right, excused, or what it was, with all that excused it.
CacheMoves ==
  \A u \in Users :
    \/ cache'[u] \in {Miss, Role(u)}
    \/ u \in late'
    \/ /\ cache'[u] = cache[u]
       /\ u \in late => u \in late'
       /\ \A p \in Requests :
            req[p].step = "invalidate" /\ req[p].on = u => req'[p] = req[p]

Elsewhere ==
  /\ UNCHANGED <<exists, member, uses, raced>>
  /\ StatusMoves
  /\ RequestMoves
  /\ CacheMoves

LEMMA ElsewhereStep ==
  ASSUME Inv, [Next]_vars,
         ~\E u \in Users : DeleteTeam(u),
         ~\E q \in Requests : Write(q) \/ AcceptWrite(q)
  PROVE  Elsewhere
<1>0. /\ Typed /\ req \in [Requests -> Request] /\ invite \in [Invites -> Invitation]
      /\ cache \in [Users -> Held \cup {Miss}] /\ fills \subseteq Users \X Held
  BY DEF Inv, Typed, TypeOK, Held
<1>b. ASSUME NEW q \in Requests, NEW r \in Request, Begin(q, r)
      PROVE  /\ req'[q] = r /\ req[q].step = "idle"
             /\ \A p \in Requests : p # q => req'[p] = req[p]
  BY <1>0, <1>b DEF Begin, Idle
<1>e. ASSUME NEW q \in Requests, End(q)
      PROVE  /\ req'[q].step = "idle"
             /\ \A p \in Requests : p # q => req'[p] = req[p]
  BY <1>0, <1>e DEF End, Idle
<1>1. ASSUME NEW u \in Users, Visit(u) PROVE Elsewhere
  BY <1>1 DEF Visit, dbVars, bounds, Elsewhere, StatusMoves, RequestMoves, CacheMoves
<1>2. ASSUME NEW u \in Users, Expire(u) PROVE Elsewhere
  BY <1>0, <1>2 DEF Expire, dbVars, bounds, Elsewhere, StatusMoves, RequestMoves, CacheMoves
<1>3. ASSUME NEW u \in Users, NEW r \in Custom, DeleteRole(u, r) PROVE Elsewhere
  BY <1>3 DEF DeleteRole, Elsewhere, StatusMoves, RequestMoves, CacheMoves
<1>4. ASSUME NEW u \in Users, NEW i \in Invites, Revoke(u, i) PROVE Elsewhere
  <2>1. StatusMoves
    BY <1>0, <1>4 DEF Revoke, StatusMoves, Invitation
  <2> QED BY <1>4, <2>1 DEF Revoke, Elsewhere, RequestMoves, CacheMoves
<1>5. ASSUME NEW q \in Requests, NEW u \in Users, NEW on \in Users,
             NEW to \in Grants \cup {None}, Change(q, u, on, to)
      PROVE  Elsewhere
  <2> DEFINE r == [step |-> "count", on |-> on, to |-> to, found |-> member[on],
                   owners |-> {}]
  <2>1. Begin(q, r) /\ UNCHANGED <<dbVars, cache, late, uses, raced, faults>>
    BY <1>5 DEF Change
  <2>2. req'[q] = r /\ req[q].step = "idle" /\ \A p \in Requests : p # q => req'[p] = req[p]
    BY <1>0, <2>1 DEF Begin, Idle
  <2> QED
    BY <2>1, <2>2 DEF dbVars, Elsewhere, StatusMoves, RequestMoves, CacheMoves
<1>6. ASSUME NEW q \in Requests, NEW u \in Users, NEW on \in Users,
             NEW to \in Grants, Invite(q, u, on, to)
      PROVE  Elsewhere
  <2> DEFINE r == [step |-> "invite", on |-> on, to |-> to]
  <2>1. Begin(q, r) /\ UNCHANGED <<dbVars, cache, late, uses, raced, faults>>
    BY <1>6 DEF Invite
  <2>2. req'[q] = r /\ req[q].step = "idle" /\ \A p \in Requests : p # q => req'[p] = req[p]
    BY <1>0, <2>1 DEF Begin, Idle
  <2> QED
    BY <2>1, <2>2 DEF dbVars, Elsewhere, StatusMoves, RequestMoves, CacheMoves
<1>7. ASSUME NEW q \in Requests, NEW i \in Invites, Accept(q, i) PROVE Elsewhere
  <2> DEFINE r == [step |-> "accept", on |-> invite[i].for, to |-> invite[i].role,
                   invitation |-> i, found |-> invite[i].status]
  <2>1. /\ Begin(q, r) /\ UNCHANGED <<dbVars, cacheVars, uses, raced, faults>>
        /\ invite[i].status = "pending"
    BY <1>7 DEF Accept
  <2>2. req'[q] = r /\ req[q].step = "idle" /\ \A p \in Requests : p # q => req'[p] = req[p]
    BY <1>0, <2>1 DEF Begin, Idle
  <2> QED
    BY <2>1, <2>2 DEF dbVars, cacheVars, Elsewhere, StatusMoves, RequestMoves, CacheMoves
<1>8. ASSUME NEW q \in Requests, CountOwners(q) PROVE Elsewhere
  <2>1. req[q] \in ChangeReq /\ req[q].step = "count"
    BY <1>0, <1>8, ByStep DEF CountOwners
  <2>2. UNCHANGED <<dbVars, cacheVars, uses, raced, bounds>>
    BY <1>8 DEF CountOwners
  <2>3. CASE End(q)
    BY <1>e, <2>1, <2>2, <2>3
    DEF dbVars, cacheVars, Elsewhere, StatusMoves, RequestMoves, CacheMoves
  <2>4. CASE ~End(q)
    <3>1. Counted(q) /\ ~(TakesOwnerAway(q) /\ Cardinality(Owners) <= 1)
      BY <1>8, <2>4 DEF CountOwners
    <3>2. /\ req'[q] = [req[q] EXCEPT !.step = "write",
                                      !.owners = IF TakesOwnerAway(q) THEN Owners ELSE {}]
          /\ \A p \in Requests : p # q => req'[p] = req[p]
      BY <1>0, <3>1 DEF Counted
    <3>3. /\ req'[q].step = "write" /\ req'[q].found = req[q].found /\ req'[q].to = req[q].to
          /\ req'[q].owners = IF TakesOwnerAway(q) THEN Owners ELSE {}
      BY <2>1, <3>2 DEF ChangeReq
    <3>4. TakesOwnerAway(q)' <=> TakesOwnerAway(q)
      BY <3>3 DEF TakesOwnerAway
    <3>5. RequestMoves
      BY <3>1, <3>2, <3>3, <3>4 DEF RequestMoves
    <3> QED
      BY <2>1, <2>2, <3>2, <3>5 DEF dbVars, cacheVars, Elsewhere, StatusMoves, CacheMoves
  <2> QED BY <2>3, <2>4
<1>9. ASSUME NEW q \in Requests, WriteFails(q) PROVE Elsewhere
  BY <1>e, <1>9
  DEF WriteFails, dbVars, cacheVars, Elsewhere, StatusMoves, RequestMoves, CacheMoves
<1>10. ASSUME NEW q \in Requests, Invalidate(q) PROVE Elsewhere
  <2>1. req[q].on \in Users
    BY <1>0, <1>10, ByStep DEF Invalidate, CommitReq
  <2>2. CacheMoves
    BY <1>0, <1>e, <1>10, <2>1 DEF Invalidate, CacheMoves
  <2> QED
    BY <1>e, <1>10, <2>2 DEF Invalidate, dbVars, Elsewhere, StatusMoves, RequestMoves
<1>11. ASSUME NEW q \in Requests, InvalidateFails(q) PROVE Elsewhere
  BY <1>e, <1>11
  DEF InvalidateFails, dbVars, Elsewhere, StatusMoves, RequestMoves, CacheMoves
<1>12. ASSUME NEW q \in Requests, InviteWrite(q) PROVE Elsewhere
  <2>1. StatusMoves
    BY <1>0, <1>12 DEF InviteWrite, StatusMoves, Pending, Open, Invitation
  <2> QED
    BY <1>e, <1>12, <2>1 DEF InviteWrite, cacheVars, Elsewhere, RequestMoves, CacheMoves
<1>13. ASSUME NEW f \in fills, Fill(f[1], f[2]) PROVE Elsewhere
  <2>1. CacheMoves
    BY <1>0, <1>13 DEF Fill, CacheMoves
  <2> QED BY <1>13, <2>1 DEF Fill, dbVars, Elsewhere, StatusMoves, RequestMoves
<1>14. CASE UNCHANGED vars
  BY <1>14 DEF vars, dbVars, cacheVars, Elsewhere, StatusMoves, RequestMoves, CacheMoves
<1> QED
  BY <1>1, <1>2, <1>3, <1>4, <1>5, <1>6, <1>7, <1>8, <1>9, <1>10, <1>11, <1>12, <1>13,
     <1>14 DEF Next, Progress
-----------------------------------------------------------------------------
(* The steps that do change the memberships.                               *)

LEMMA DeleteTeamEffect ==
  ASSUME Inv, NEW u \in Users, DeleteTeam(u)
  PROVE  /\ exists' = FALSE /\ late' = Users /\ UNCHANGED <<req, raced>>
BY DEF DeleteTeam

LEMMA WriteEffect ==
  ASSUME Inv, NEW q \in Requests, Write(q)
  PROVE  /\ UNCHANGED <<exists, invite, cache, late, uses>>
         /\ req[q] \in ChangeReq /\ req[q].step = "write"
         /\ req'[q].step = "invalidate" /\ req'[q].on = req[q].on
         /\ \A p \in Requests : p # q => req'[p] = req[p]
         /\ \A u \in Users : u # req[q].on => member'[u] = member[u]
         /\ \/ member' = member
            \/ member'[req[q].on].role = req[q].to
         /\ ~raced' => ~raced /\ ~Outdated(q)
<1>1. req[q] \in ChangeReq /\ req[q].step = "write"
  BY ByStep DEF Inv, Write
<1>2. req \in [Requests -> Request] /\ member \in [Users -> Membership]
  BY DEF Inv, Typed, TypeOK, Membership, Held
<1>3. /\ req'[q].step = "invalidate" /\ req'[q].on = req[q].on
      /\ \A p \in Requests : p # q => req'[p] = req[p]
  BY <1>2 DEF Write, Commit
<1>4. /\ \A u \in Users : u # req[q].on => member'[u] = member[u]
      /\ \/ member' = member
         \/ member'[req[q].on].role = req[q].to
  BY <1>1, <1>2 DEF Write, ChangeReq, Membership
<1> QED BY <1>1, <1>3, <1>4 DEF Write, cacheVars

LEMMA AcceptEffect ==
  ASSUME Inv, NEW q \in Requests, AcceptWrite(q)
  PROVE  /\ UNCHANGED <<exists, cache, late>>
         /\ req[q] \in AcceptReq
         /\ \A p \in Requests : p # q => req'[p] = req[p]
         /\ \/ UNCHANGED <<member, invite, uses, raced>> /\ req'[q].step = "idle"
            \/ /\ Role(req[q].on) = None
               /\ req'[q].step = "invalidate" /\ req'[q].on = req[q].on
               /\ \A u \in Users : u # req[q].on => member'[u] = member[u]
               /\ invite'[req[q].invitation].status = "accepted"
               /\ uses'[req[q].invitation] = uses[req[q].invitation] + 1
               /\ \A i \in Invites : i # req[q].invitation =>
                    invite'[i] = invite[i] /\ uses'[i] = uses[i]
               /\ ~raced' => ~raced /\ invite[req[q].invitation].status = "pending"
<1>1. req[q] \in AcceptReq
  BY ByStep DEF Inv, AcceptWrite
<1>2. /\ req \in [Requests -> Request] /\ member \in [Users -> Membership]
      /\ invite \in [Invites -> Invitation] /\ uses \in [Invites -> Nat]
  BY DEF Inv, Typed, TypeOK, Membership, Held
<1>3. UNCHANGED <<exists, cache, late>>
  BY DEF AcceptWrite, cacheVars
<1>4. CASE End(q) /\ UNCHANGED <<member, invite, uses, raced>>
  BY <1>1, <1>2, <1>3, <1>4 DEF End, Idle
<1>5. CASE ~(End(q) /\ UNCHANGED <<member, invite, uses, raced>>)
  <2> DEFINE i == req[q].invitation
             u == req[q].on
  <2>1. /\ Role(u) = None
        /\ member' = [member EXCEPT ![u] = [id |-> @.id + 1, role |-> req[q].to]]
        /\ invite' = [invite EXCEPT ![i].status = "accepted"]
        /\ uses' = [uses EXCEPT ![i] = @ + 1]
        /\ raced' = (raced \/ invite[i].status # req[q].found)
        /\ Commit(q)
    BY <1>5 DEF AcceptWrite
  <2>2. u \in Users /\ i \in Invites /\ req[q].found = "pending"
    BY <1>1 DEF AcceptReq
  <2>3. /\ req'[q].step = "invalidate" /\ req'[q].on = u
        /\ \A p \in Requests : p # q => req'[p] = req[p]
    BY <1>2, <2>1 DEF Commit
  <2>4. /\ invite'[i].status = "accepted"
        /\ \A j \in Invites : j # i => invite'[j] = invite[j]
    BY <1>2, <2>1, <2>2 DEF Invitation
  <2>5. /\ \A v \in Users : v # u => member'[v] = member[v]
        /\ uses'[i] = uses[i] + 1
        /\ \A j \in Invites : j # i => uses'[j] = uses[j]
    BY <1>2, <2>1, <2>2
  <2> QED BY <1>1, <1>3, <2>1, <2>2, <2>3, <2>4, <2>5
<1> QED BY <1>4, <1>5

-----------------------------------------------------------------------------
(* Each part of the invariant, over one step.                              *)

LEMMA AcceptsKnownStep == Inv /\ [Next]_vars => AcceptsKnown'
<1> SUFFICES ASSUME Inv, [Next]_vars PROVE AcceptsKnown'
  OBVIOUS
<1>0. /\ AcceptsKnown /\ req \in [Requests -> Request]
      /\ \A q \in Requests : req[q].step = "accept" => req[q].invitation \in Invites
  BY ByStep DEF Inv, Typed, AcceptReq
<1>1. ASSUME NEW u \in Users, DeleteTeam(u) PROVE AcceptsKnown'
  BY <1>1 DEF DeleteTeam, AcceptsKnown
<1>2. ASSUME NEW q \in Requests, Write(q) PROVE AcceptsKnown'
  BY <1>0, <1>2, WriteEffect DEF AcceptsKnown
<1>3. ASSUME NEW q \in Requests, AcceptWrite(q) PROVE AcceptsKnown'
  <2>1. /\ exists' = exists /\ req'[q].step # "accept"
        /\ \A p \in Requests : p # q => req'[p] = req[p]
        /\ \A i \in Invites :
             invite'[i].status = "accepted" \/ invite'[i].status = invite[i].status
    BY <1>3, AcceptEffect DEF AcceptReq
  <2> QED BY <1>0, <2>1 DEF AcceptsKnown
<1>4. CASE Elsewhere
  BY <1>0, <1>4 DEF Elsewhere, StatusMoves, RequestMoves, AcceptsKnown
<1> QED BY <1>1, <1>2, <1>3, <1>4, ElsewhereStep

LEMMA OthersCountedStep == Inv /\ [Next]_vars => OthersCounted'
<1> SUFFICES ASSUME Inv, [Next]_vars, NEW q \in Requests,
                    req'[q].step = "write", TakesOwnerAway(q)', NEW u \in Users
             PROVE  req'[q].owners \notin {{}, {u}}
  BY DEF OthersCounted
<1>1. CASE req'[q] = req[q]
  BY <1>1 DEF Inv, OthersCounted, TakesOwnerAway
<1>2. CASE req'[q] # req[q]
  <2>1. ~\E v \in Users : DeleteTeam(v)
    BY <1>2 DEF DeleteTeam
  <2>2. ~\E p \in Requests : Write(p) \/ AcceptWrite(p)
    BY <1>2, WriteEffect, AcceptEffect
  <2>3. req'[q].owners = Owners /\ ~(Cardinality(Owners) <= 1)
    BY <1>2, <2>1, <2>2, ElsewhereStep DEF Elsewhere, RequestMoves
  <2>4. Cardinality({}) = 0 /\ Cardinality({u}) = 1
    BY FS_EmptySet, FS_Singleton
  <2> QED BY <2>3, <2>4
<1> QED BY <1>1, <1>2

LEMMA OwnerStep == Inv /\ [Next]_vars => OwnerRemains'
<1> SUFFICES ASSUME Inv, [Next]_vars, exists', ~raced', Namesakes = {}
             PROVE  Owners' # {}
  BY DEF OwnerRemains
<1>1. ~\E u \in Users : DeleteTeam(u)
  BY DEF DeleteTeam
<1>2. ASSUME exists, ~raced PROVE \E u \in Users : Role(u) = "OWNER"
  BY <1>2 DEF Inv, OwnerRemains, Owners
<1>3. ASSUME NEW q \in Requests, Write(q) PROVE Owners' # {}
  <2> DEFINE on == req[q].on
  <2>1. /\ on \in Users /\ exists /\ ~raced
        /\ member[on] = req[q].found
        /\ TakesOwnerAway(q) => req[q].owners = Owners
        /\ \A u \in Users : u # on => member'[u] = member[u]
        /\ member' = member \/ member'[on].role = req[q].to
    BY <1>3, WriteEffect DEF ChangeReq, Outdated
  <2>2. PICK u \in Users : Role(u) = "OWNER"
    BY <1>2, <2>1
  <2>3. CASE TakesOwnerAway(q)
    <3>1. Owners \notin {{}, {on}}
      BY <1>3, <2>1, <2>3, WriteEffect DEF Inv, OthersCounted
    <3>2. PICK v \in Users : v # on /\ Role(v) = "OWNER"
      BY <2>1, <3>1 DEF Owners
    <3> QED BY <2>1, <3>2 DEF Owners, Role
  <2>4. CASE ~TakesOwnerAway(q)
    <3>1. u = on => req[q].to = "OWNER"
      BY <2>1, <2>2, <2>4 DEF TakesOwnerAway, Role
    <3> QED BY <2>1, <2>2, <3>1 DEF Owners, Role
  <2> QED BY <2>3, <2>4
<1>4. ASSUME NEW q \in Requests, AcceptWrite(q) PROVE Owners' # {}
  <2>1. exists /\ ~raced
    BY <1>4, AcceptEffect
  <2>2. PICK u \in Users : Role(u) = "OWNER"
    BY <1>2, <2>1
  <2>3. member'[u] = member[u]
    BY <1>4, <2>2, AcceptEffect DEF Role, None
  <2> QED BY <2>2, <2>3 DEF Owners, Role
<1>5. CASE Elsewhere
  BY <1>2, <1>5 DEF Elsewhere, Owners, Role
<1> QED BY <1>1, <1>3, <1>4, <1>5, ElsewhereStep

LEMMA AcceptedStep == Inv /\ [Next]_vars => AcceptedIffUsed'
<1> SUFFICES ASSUME Inv, [Next]_vars, exists', NEW i \in Invites
             PROVE  /\ invite'[i].status = "accepted" <=> uses'[i] > 0
                    /\ ~raced' => uses'[i] <= 1
  BY DEF AcceptedIffUsed
<1>0. /\ uses[i] \in Nat
      /\ exists => /\ invite[i].status = "accepted" <=> uses[i] > 0
                   /\ ~raced => uses[i] <= 1
  BY DEF Inv, Typed, TypeOK, AcceptedIffUsed
<1>1. ~\E u \in Users : DeleteTeam(u)
  BY DEF DeleteTeam
<1>2. CASE \E q \in Requests : Write(q)
  BY <1>0, <1>2, WriteEffect
<1>3. CASE \E q \in Requests : AcceptWrite(q)
  <2>1. PICK q \in Requests : AcceptWrite(q)
    BY <1>3
  <2>2. CASE i = req[q].invitation /\ ~UNCHANGED <<member, invite, uses, raced>>
    <3>1. invite'[i].status = "accepted" /\ uses'[i] = uses[i] + 1
      BY <2>1, <2>2, AcceptEffect
    <3>2. ~raced' => ~raced /\ exists /\ invite[i].status = "pending"
      BY <2>1, <2>2, AcceptEffect
    <3> QED BY <1>0, <3>1, <3>2
  <2>3. CASE UNCHANGED <<member, invite, uses, raced>>
    BY <1>0, <2>1, <2>3, AcceptEffect
  <2>4. CASE i # req[q].invitation /\ ~UNCHANGED <<member, invite, uses, raced>>
    <3>1. exists /\ invite'[i] = invite[i] /\ uses'[i] = uses[i] /\ (~raced' => ~raced)
      BY <2>1, <2>4, AcceptEffect
    <3> QED BY <1>0, <3>1
  <2> QED BY <2>2, <2>3, <2>4
<1>4. CASE Elsewhere
  BY <1>0, <1>4 DEF Elsewhere, StatusMoves
<1> QED BY <1>1, <1>2, <1>3, <1>4, ElsewhereStep

LEMMA ContextStep == Inv /\ [Next]_vars => ContextFresh'
<1> SUFFICES ASSUME Inv, [Next]_vars, NEW u \in Users
             PROVE  \/ cache'[u] \in {Miss, Role(u)'}
                    \/ u \in late'
                    \/ \E q \in Requests : req'[q].step = "invalidate" /\ req'[q].on = u
  BY DEF ContextFresh
<1>0. \/ cache[u] \in {Miss, Role(u)}
      \/ u \in late
      \/ \E q \in Requests : req[q].step = "invalidate" /\ req[q].on = u
  BY DEF Inv, ContextFresh
<1>1. CASE \E v \in Users : DeleteTeam(v)
  BY <1>1, DeleteTeamEffect
<1>2. CASE \E q \in Requests : Write(q)
  BY <1>0, <1>2, WriteEffect DEF Role
<1>3. CASE \E q \in Requests : AcceptWrite(q)
  <2>1. PICK q \in Requests : AcceptWrite(q)
    BY <1>3
  <2>2. req[q].step = "accept"
    BY <2>1 DEF AcceptWrite
  <2> QED BY <1>0, <2>1, <2>2, AcceptEffect DEF Role
<1>4. CASE Elsewhere
  BY <1>0, <1>4 DEF Elsewhere, CacheMoves, Role
<1> QED BY <1>1, <1>2, <1>3, <1>4, ElsewhereStep

-----------------------------------------------------------------------------
(* The theorems.                                                           *)

LEMMA Invariant == Spec => []Inv
<1>1. Inv /\ [Next]_vars => Inv'
  BY TypedStep, AcceptsKnownStep, OthersCountedStep, OwnerStep, AcceptedStep, ContextStep
  DEF Inv
<1> QED BY Initially, <1>1, PTL DEF Spec

\* Every variable has its shape, whatever the requests, faults and fills.
THEOREM TypeCorrect == Spec => []TypeOK
<1>1. Inv => TypeOK
  BY DEF Inv, Typed
<1> QED BY <1>1, Invariant, PTL

\* A team keeps an owner as long as no request wrote on facts that had changed
\* since it read them: the count of owners is enough for requests that overlap
\* and do not disturb each other.
THEOREM OwnersRemain == Spec => []OwnerRemains
<1>1. Inv => OwnerRemains
  BY DEF Inv
<1> QED BY <1>1, Invariant, PTL

\* An invitation says that it was accepted exactly when it created a membership.
THEOREM AcceptedMeansUsed == Spec => []AcceptedIffUsed
<1>1. Inv => AcceptedIffUsed
  BY DEF Inv
<1> QED BY <1>1, Invariant, PTL

\* A change shows in the cached context once its request is over.
THEOREM ContextsAreFresh == Spec => []ContextFresh
<1>1. Inv => ContextFresh
  BY DEF Inv
<1> QED BY <1>1, Invariant, PTL
=============================================================================
