-------------------------------- MODULE Teams --------------------------------
(***************************************************************************)
(* One team: who belongs to it with which role, its custom roles and its   *)
(* invitations, and the cache of what a request may do in it.              *)
(*                                                                         *)
(* A request looks its actor up (loadTeamContext: in Redis, else in        *)
(* Postgres, and fills the cache without waiting for it), reads what it    *)
(* decides on, and writes in a transaction of its own; only then it drops  *)
(* the cached context of the member it changed.  Requests of any users     *)
(* interleave at each of these points.  A lookup that misses the cache and *)
(* the query that follows it take one step.                                *)
(*                                                                         *)
(* Abstracted: a role stands for its permissions; an invitation's email is *)
(* the user it belongs to, its token the invitation itself; its expiry     *)
(* only keeps an accept from beginning; its mail.                          *)
(***************************************************************************)
EXTENDS Naturals, FiniteSets

CONSTANTS
  Users,
  Custom,       \* ids of custom roles
  Namesakes,    \* those of them whose name is OWNER
  Invites,      \* ids of invitations
  Requests,     \* requests that may be in progress at once
  Grants,       \* bound: the roles that requests give
  MaxFills,     \* bound: values on their way to the cache at once
  MaxRequests,  \* bound: how many requests change something
  MaxFaults     \* bound: how many crashes and errors happen

System == {"OWNER", "ADMIN", "MEMBER"}
Roles  == System \cup Custom
None   == "none"  \* no membership; cached as such too
Miss   == "miss"  \* nothing is cached

ASSUME TeamsAssumption ==
  /\ Namesakes \subseteq Custom
  /\ Custom \cap (System \cup {None, Miss}) = {}
  /\ Grants \subseteq Roles
  /\ MaxFills \in Nat /\ MaxRequests \in Nat /\ MaxFaults \in Nat

VARIABLES
  exists,   \* the team's row is there
  member,   \* per user: the id of the membership row, and its role
  roles,    \* the custom roles of the team
  invite,   \* per invitation: status, the invited user, role
  cache,    \* per user: the cached role, None or Miss
  fills,    \* values on their way into the cache, each with its user
  req,      \* per request: what it does and how far it is
  uses,     \* history: memberships each invitation has created
  late,     \* history: users whose cached context is out of date, explained
  raced,    \* history: a request wrote what it had decided on older facts
  asked, faults  \* how many requests and faults there have been

dbVars    == <<exists, member, roles, invite>>
cacheVars == <<cache, fills, late>>
bounds    == <<asked, faults>>
vars == <<dbVars, cacheVars, req, uses, raced, bounds>>

Idle   == [step |-> "idle"]
Unused == [status |-> "unused"]
Open(u, r) == [status |-> "pending", for |-> u, role |-> r]

Role(u)  == member[u].role
Owners   == {u \in Users : Role(u) = "OWNER"}
Pending(u) == {i \in Invites : invite[i].status = "pending" /\ invite[i].for = u}

\* A team some time after its creation: its founder, other users with or
\* without a role, and perhaps an invitation that is out.
Init ==
  /\ exists = TRUE
  /\ \E founder \in Users, others \in [Users -> System \cup {None}] :
       member = [u \in Users |->
                   [id |-> 1, role |-> IF u = founder THEN "OWNER" ELSE others[u]]]
  /\ roles = Custom
  /\ \E out \in SUBSET Invites, u \in Users, r \in Grants :
       /\ Cardinality(out) <= 1
       /\ out # {} => Role(u) = None
       /\ invite = [i \in Invites |-> IF i \in out THEN Open(u, r) ELSE Unused]
  /\ cache = [u \in Users |-> Miss]
  /\ fills = {}
  /\ req = [q \in Requests |-> Idle]
  /\ uses = [i \in Invites |-> 0]
  /\ late = {}
  /\ raced = FALSE
  /\ asked = 0 /\ faults = 0

-----------------------------------------------------------------------------
(* What the actions are built from.                                        *)

Fault == faults < MaxFaults /\ faults' = faults + 1

\* getCachedTeamContext, or findMembership and the fill.  A fill may fail, as
\* it does here for one too many; an error of Redis is a miss.
Load(u, seen) ==
  \/ cache[u] # Miss /\ seen = cache[u] /\ UNCHANGED fills
  \/ /\ cache[u] = Miss
     /\ seen = Role(u)
     /\ fills' = IF Cardinality(fills) < MaxFills THEN fills \cup {<<u, seen>>} ELSE fills

\* requirePermission of members:invite, members:update or members:remove; a
\* custom role may have been given them.
Manages(r) == r \in {"OWNER", "ADMIN"} \cup Custom

Rank(r) == CASE r = "OWNER" -> 3 [] r = "ADMIN" -> 2 [] OTHER -> 1

\* canManageMembership
CanManage(actor, target) ==
  \/ Rank(actor) = 3
  \/ Rank(actor) = 2 /\ Rank(target) < 2

\* The request is taken as far as its first step after the checks.
Begin(q, record) ==
  /\ req[q] = Idle
  /\ asked < MaxRequests
  /\ asked' = asked + 1
  /\ req' = [req EXCEPT ![q] = record]

Commit(q) == req' = [req EXCEPT ![q] = [step |-> "invalidate", on |-> @.on]]
End(q) == req' = [req EXCEPT ![q] = Idle]

\* isDemotionFromOwner: the new role is not named OWNER
TakesOwnerAway(q) ==
  req[q].found.role = "OWNER" /\ req[q].to \notin {"OWNER"} \cup Namesakes

\* What the request has decided on is not so any more: its target, or, when it
\* takes an owner away, the owners it has counted.
Outdated(q) ==
  \/ member[req[q].on] # req[q].found
  \/ TakesOwnerAway(q) /\ req[q].owners # Owners

-----------------------------------------------------------------------------
(* Requests that only look the team up.                                    *)

Visit(u) ==
  /\ \E seen \in Roles \cup {None} : Load(u, seen)
  /\ UNCHANGED <<dbVars, cache, late, req, uses, raced, bounds>>

-----------------------------------------------------------------------------
(* updateMemberRoleService, removeMemberService.                           *)

\* Up to findMembership, canManageMembership and findRoleById; "to" is the new
\* role, or None to remove the member.
Change(q, u, on, to) ==
  \E actor \in Roles :
    /\ Load(u, actor)
    /\ Manages(actor)
    /\ Role(on) # None
    /\ CanManage(actor, Role(on))
    /\ to \in System \cup roles \cup {None}
    /\ Begin(q, [step |-> "count", on |-> on, to |-> to, found |-> member[on],
                 owners |-> {}])
    /\ UNCHANGED <<dbVars, cache, late, uses, raced, faults>>

Counted(q) ==
  req' = [req EXCEPT ![q].step = "write",
                     ![q].owners = IF TakesOwnerAway(q) THEN Owners ELSE {}]

\* Mutant: off by one.
CountOwnersLoosely(q) ==
  /\ req[q].step = "count"
  /\ IF TakesOwnerAway(q) /\ Cardinality(Owners) < 1 THEN End(q) ELSE Counted(q)
  /\ UNCHANGED <<dbVars, cacheVars, uses, raced, bounds>>

\* countOwners, when an owner is to go: the last one stays.
CountOwners(q) ==
  /\ req[q].step = "count"
  /\ IF TakesOwnerAway(q) /\ Cardinality(Owners) <= 1 THEN End(q) ELSE Counted(q)
  /\ UNCHANGED <<dbVars, cacheVars, uses, raced, bounds>>

\* Mutant: the cached context is left to its TTL.
WriteKeepsCache(q) ==
  /\ req[q].step = "write"
  /\ LET on == req[q].on
     IN  /\ req[q].to \in System \cup roles \cup {None}
         /\ member' = IF Role(on) # None /\ member[on].id = req[q].found.id
                        THEN [member EXCEPT ![on].role = req[q].to] ELSE member
  /\ raced' = (raced \/ Outdated(q))
  /\ End(q)
  /\ UNCHANGED <<exists, roles, invite, cacheVars, uses, bounds>>

\* updateMembershipRole, deleteMembership: by the row's id, whatever became
\* of the row.
Write(q) ==
  /\ req[q].step = "write"
  /\ LET on == req[q].on
     IN  /\ req[q].to \in System \cup roles \cup {None}
         /\ member' = IF Role(on) # None /\ member[on].id = req[q].found.id
                        THEN [member EXCEPT ![on].role = req[q].to] ELSE member
  /\ raced' = (raced \/ Outdated(q))
  /\ Commit(q)
  /\ UNCHANGED <<exists, roles, invite, cacheVars, uses, bounds>>

\* The statement fails and is rolled back; it always does when its role has
\* been deleted.
WriteFails(q) ==
  /\ req[q].step \in {"write", "accept"}
  /\ IF req[q].to \in System \cup roles \cup {None} THEN Fault ELSE UNCHANGED faults
  /\ End(q)
  /\ UNCHANGED <<dbVars, cacheVars, uses, raced, asked>>

\* invalidateTeamContextCache, after the commit
Invalidate(q) ==
  /\ req[q].step = "invalidate"
  /\ cache' = [cache EXCEPT ![req[q].on] = Miss]
  /\ late' = late \ {req[q].on}
  /\ End(q)
  /\ UNCHANGED <<dbVars, fills, uses, raced, bounds>>

\* Redis does not answer, or the process dies after its commit.
InvalidateFails(q) ==
  /\ req[q].step = "invalidate"
  /\ Fault
  /\ late' = late \cup {req[q].on}
  /\ End(q)
  /\ UNCHANGED <<dbVars, cache, fills, uses, raced, asked>>

-----------------------------------------------------------------------------
(* deleteTeamService, deleteCustomRoleService.                             *)

\* The cascade takes memberships, roles and invitations along, and no cached
\* context.
DeleteTeam(u) ==
  /\ asked < MaxRequests /\ asked' = asked + 1
  /\ Load(u, "OWNER")
  /\ exists' = FALSE
  /\ member' = [v \in Users |-> [member[v] EXCEPT !.role = None]]
  /\ roles' = {}
  /\ invite' = [i \in Invites |-> Unused]
  /\ late' = Users
  /\ UNCHANGED <<cache, req, uses, raced, faults>>

InUse(r) ==
  \/ \E u \in Users : Role(u) = r
  \/ \E i \in Invites : invite[i].status # "unused" /\ invite[i].role = r

\* The foreign keys of memberships and invitations refuse a role in use.
DeleteRole(u, r) ==
  /\ asked < MaxRequests /\ asked' = asked + 1
  /\ \E actor \in Roles : Load(u, actor) /\ Manages(actor)
  /\ r \in roles
  /\ ~InUse(r)
  /\ roles' = roles \ {r}
  /\ UNCHANGED <<exists, member, invite, cache, late, req, uses, raced, faults>>

-----------------------------------------------------------------------------
(* Invitations.                                                            *)

\* createInvitationService, up to its transaction.
Invite(q, u, whom, r) ==
  \E actor \in Roles :
    /\ Load(u, actor)
    /\ Manages(actor)
    /\ exists
    /\ r \in System \cup roles
    /\ Role(whom) = None
    /\ Begin(q, [step |-> "invite", on |-> whom, to |-> r])
    /\ UNCHANGED <<dbVars, cache, late, uses, raced, faults>>

\* revokePendingInvitationForEmail and createInvitation, or an error: a
\* foreign key's, or the unique index's when another one came in between.
InviteWrite(q) ==
  /\ req[q].step = "invite"
  /\ End(q)
  /\ \/ \E i \in Invites :
          /\ exists /\ req[q].to \in System \cup roles
          /\ invite[i].status = "unused" /\ uses[i] = 0
          /\ invite' = [j \in Invites |->
                          IF j = i THEN Open(req[q].on, req[q].to)
                          ELSE IF j \in Pending(req[q].on)
                            THEN [invite[j] EXCEPT !.status = "revoked"]
                          ELSE invite[j]]
     \/ UNCHANGED invite
  /\ UNCHANGED <<exists, member, roles, cacheVars, uses, raced, bounds>>

\* Mutant: revokes whatever the status is.
RevokeAny(u, i) ==
  /\ asked < MaxRequests /\ asked' = asked + 1
  /\ \E actor \in Roles : Load(u, actor) /\ Manages(actor)
  /\ invite[i].status # "unused"
  /\ invite' = [invite EXCEPT ![i].status = "revoked"]
  /\ UNCHANGED <<exists, member, roles, cache, late, req, uses, raced, faults>>

\* revokeInvitationService
Revoke(u, i) ==
  /\ asked < MaxRequests /\ asked' = asked + 1
  /\ \E actor \in Roles : Load(u, actor) /\ Manages(actor)
  /\ invite[i].status = "pending"
  /\ invite' = [invite EXCEPT ![i].status = "revoked"]
  /\ UNCHANGED <<exists, member, roles, cache, late, req, uses, raced, faults>>

\* Mutant: the invitation's id is taken for its role's.
AcceptSwapsIds(q, i) ==
  /\ invite[i].status = "pending"
  /\ Role(invite[i].for) = None
  /\ Begin(q, [step |-> "accept", on |-> invite[i].for, to |-> i,
               invitation |-> i, found |-> invite[i].status])
  /\ UNCHANGED <<dbVars, cacheVars, uses, raced, faults>>

\* acceptInvitationService up to its transaction: findInvitationByToken, the
\* email, and no membership yet.
Accept(q, i) ==
  /\ invite[i].status = "pending"
  /\ Role(invite[i].for) = None
  /\ Begin(q, [step |-> "accept", on |-> invite[i].for, to |-> invite[i].role,
               invitation |-> i, found |-> invite[i].status])
  /\ UNCHANGED <<dbVars, cacheVars, uses, raced, faults>>

\* createMembership and markInvitationAccepted, whatever the invitation's
\* status is by now; UNIQUE (team_id, user_id) refuses a second membership.
AcceptWrite(q) ==
  /\ req[q].step = "accept"
  /\ LET i == req[q].invitation
         u == req[q].on
     IN  \/ /\ exists /\ Role(u) = None
            /\ member' = [member EXCEPT ![u] = [id |-> @.id + 1, role |-> req[q].to]]
            /\ invite' = [invite EXCEPT ![i].status = "accepted"]
            /\ uses' = [uses EXCEPT ![i] = @ + 1]
            /\ raced' = (raced \/ invite[i].status # req[q].found)
            /\ Commit(q)
         \/ /\ ~exists \/ Role(u) # None
            /\ End(q)
            /\ UNCHANGED <<member, invite, uses, raced>>
  /\ UNCHANGED <<exists, roles, cacheVars, bounds>>

-----------------------------------------------------------------------------
(* The cache.                                                              *)

\* setCachedTeamContext; it may also fail, and the value is gone.
Fill(u, v) ==
  /\ fills' = fills \ {<<u, v>>}
  /\ \/ /\ cache' = [cache EXCEPT ![u] = v]
        /\ late' = IF v = Role(u) THEN late \ {u} ELSE late \cup {u}
     \/ UNCHANGED <<cache, late>>
  /\ UNCHANGED <<dbVars, req, uses, raced, bounds>>

\* CACHE_TTL_SECONDS have passed.
Expire(u) ==
  /\ cache[u] # Miss
  /\ cache' = [cache EXCEPT ![u] = Miss]
  /\ late' = late \ {u}
  /\ UNCHANGED <<dbVars, fills, req, uses, raced, bounds>>

-----------------------------------------------------------------------------
Progress(q) ==
  CountOwners(q) \/ Write(q) \/ InviteWrite(q) \/ AcceptWrite(q) \/ Invalidate(q)

Next ==
  \/ \E u \in Users :
       \/ Visit(u) \/ DeleteTeam(u) \/ Expire(u)
       \/ \E r \in Custom : DeleteRole(u, r)
       \/ \E i \in Invites : Revoke(u, i)
  \/ \E q \in Requests :
       \/ \E u, on \in Users :
            \/ \E to \in Grants \cup {None} : Change(q, u, on, to)
            \/ \E r \in Grants : Invite(q, u, on, r)
       \/ \E i \in Invites : Accept(q, i)
       \/ Progress(q) \/ WriteFails(q) \/ InvalidateFails(q)
  \/ \E f \in fills : Fill(f[1], f[2])

Spec == Init /\ [][Next]_vars

-----------------------------------------------------------------------------
(* Properties.                                                             *)

\* The shape of the state.
TypeOK ==
  /\ exists \in BOOLEAN
  /\ member \in [Users -> [id : Nat, role : Roles \cup {None}]]
  /\ roles \subseteq Custom
  /\ \A i \in Invites :
       invite[i] \in [status : {"unused"}]
         \cup [status : {"pending", "accepted", "revoked"}, for : Users, role : Roles]
  /\ cache \in [Users -> Roles \cup {None, Miss}]
  /\ fills \subseteq Users \X (Roles \cup {None})
  /\ \A q \in Requests :
       req[q].step \in {"idle", "count", "write", "invite", "accept", "invalidate"}
  /\ uses \in [Invites -> Nat]
  /\ late \subseteq Users
  /\ raced \in BOOLEAN
  /\ asked \in 0 .. MaxRequests /\ faults \in 0 .. MaxFaults

\* "at least one OWNER must remain on the team at all times": so it is as long
\* as no request wrote on what had changed since it read it, and no custom
\* role is named OWNER; overlapping requests do no harm by themselves.
OwnerRemains ==
  exists /\ ~raced => Owners # {} \/ Namesakes # {}

\* "Idempotent against double-accept": however accepting, revoking, replacing
\* and re-inviting overlap, an invitation says "accepted" exactly when it has
\* created a membership; and it creates one only, unless two accepts of it
\* overlap and the member is removed in between.
AcceptedIffUsed ==
  exists => \A i \in Invites :
    /\ invite[i].status = "accepted" <=> uses[i] > 0
    /\ ~raced => uses[i] <= 1

\* A role change, a removal and a joining take "effect on this member's very
\* next request": once the request that made it is over, the cached context is
\* right, but for a fill that read before the change and arrives after it, a
\* failed invalidation, and a deleted team.
ContextFresh ==
  \A u \in Users :
    \/ cache[u] \in {Miss, Role(u)}
    \/ u \in late
    \/ \E q \in Requests : req[q].step = "invalidate" /\ req[q].on = u

=============================================================================
