-------------------------------- MODULE Orgs --------------------------------
(***************************************************************************)
(* Accounts, organizations, memberships and invite links: auth_service.go  *)
(* and org_service.go over their repositories.  Each SQL statement is a    *)
(* step of the request that runs it; nothing here is in a transaction, so  *)
(* requests interleave between statements and may end after any of them.   *)
(***************************************************************************)
EXTENDS Integers, FiniteSets

CONSTANTS Users, OrgIds, Tokens,
          Handlers,    \* requests in progress at once
          Assignable,  \* validAssignableRoles
          NoUser, NoOrg, NoToken, NoInvite

ASSUME OrgsConstants ==
    /\ NoUser \notin Users /\ NoOrg \notin OrgIds /\ NoToken \notin Tokens
    /\ "admin" \in Assignable /\ "owner" \notin Assignable /\ "none" \notin Assignable
    /\ NoInvite \notin [org: OrgIds, role: Assignable, open: BOOLEAN]

VARIABLES users,   \* accounts; an account has one email
          owner,   \* organizations.owner_id
          role,    \* organization_members.role; "none" for no row
          active,  \* members with status 'active'; the others are 'invited'
          invite,  \* invite_tokens; open until used or expired
          job,     \* per handler: its next statement, and what it has read
          joined,  \* history: who joined by a link
          leaky,   \* history: links found open while another registration was using
                   \* them, or left unmarked by one that had joined
          raced    \* history: users who asked for an organization while another
                   \* request was making them a member of one

vars == <<users, owner, role, active, invite, job, joined, leaky, raced>>
members == <<owner, role, active>>
history == <<joined, leaky, raced>>

Roles == Assignable \cup {"owner", "none"}
Managers == {"owner", "admin"}  \* memberManageRoles

Steps == {"token", "join", "mark", "org", "owner", "invite", "send",
          "caller", "setrole", "remove", "remover", "delete", "target"}
Requests == [at: Steps, caller: Users, user: Users, org: OrgIds \cup {NoOrg},
             role: Roles, token: Tokens \cup {NoToken}]
Idle == [at |-> "idle"]

Named == {"join", "owner", "invite", "send", "caller", "target", "setrole",
          "remove", "remover", "delete"}
Granting == {"join", "invite", "send", "caller", "target", "setrole"}
Formed(j) ==  \* the fields its next statement uses
    /\ j.at \in Named => j.org \in OrgIds
    /\ j.at \in Granting => j.role \in Assignable
    /\ j.at \in {"token", "join", "mark"} => j.token \in Tokens

HistoryOK == /\ joined \in [Tokens -> SUBSET Users]
             /\ leaky \subseteq Tokens /\ raced \subseteq Users

TypeOK ==
    /\ users \subseteq Users
    /\ owner \in [OrgIds -> Users \cup {NoUser}]
    /\ role \in [OrgIds -> [Users -> Roles]]
    /\ active \in [OrgIds -> SUBSET Users]
    /\ invite \in [Tokens -> [org: OrgIds, role: Assignable, open: BOOLEAN] \cup {NoInvite}]
    /\ HistoryOK
    /\ job \in [Handlers -> Requests \cup {Idle}]
    /\ \A h \in Handlers : Formed(job[h])

Init ==
    /\ users = {}
    /\ owner = [o \in OrgIds |-> NoUser]
    /\ role = [o \in OrgIds |-> [u \in Users |-> "none"]]
    /\ active = [o \in OrgIds |-> {}]
    /\ invite = [k \in Tokens |-> NoInvite]
    /\ joined = [k \in Tokens |-> {}] /\ leaky = {} /\ raced = {}
    /\ job = [h \in Handlers |-> Idle]

-----------------------------------------------------------------------------
(* A request arrives, goes on to its next statement, or is answered. *)
Start(h, at, c, u, o, r, k) ==
    /\ job[h] = Idle
    /\ job' = [job EXCEPT ![h] = [at |-> at, caller |-> c, user |-> u, org |-> o,
                                  role |-> r, token |-> k]]
Continue(h, at) == job' = [job EXCEPT ![h].at = at]
Answer(h) == job' = [job EXCEPT ![h] = Idle]
ContinueIf(h, ok, at) == IF ok THEN Continue(h, at) ELSE Answer(h)

(* GetMemberRole: the owner is known by owner_id, whatever the member row says. *)
RoleIn(o, u) == IF owner[o] = u THEN "owner" ELSE role[o][u]

(* GetUserPrimaryOrgID: any active membership. *)
PrimaryOrgs(u) == {o \in OrgIds : u \in active[o]}

(* InsertOrgMember: a second row of a user in an organization is a conflict. *)
InsertRow(o, u, r, isActive) ==
    /\ IF role[o][u] = "none"
       THEN /\ role' = [role EXCEPT ![o][u] = r]
            /\ active' = IF isActive THEN [active EXCEPT ![o] = @ \cup {u}] ELSE active
       ELSE UNCHANGED <<role, active>>
    /\ UNCHANGED owner

-----------------------------------------------------------------------------
(* Register: the account first... *)
Register(h, u, k) ==
    /\ u \notin users
    /\ users' = users \cup {u}
    /\ IF k = NoToken THEN UNCHANGED job ELSE Start(h, "token", u, u, NoOrg, "none", k)
    /\ UNCHANGED <<members, invite, history>>

(* A registration that has found its link open and has not marked it. *)
Using(h, k) == job[h].at \in {"join", "mark"} /\ job[h].token = k

(* ...GetValidInviteToken... *)
CheckToken(h) ==
    /\ job[h].at = "token"
    /\ LET k == job[h].token
           i == invite[k]
       IN  IF i # NoInvite /\ i.open
           THEN /\ job' = [job EXCEPT ![h].at = "join", ![h].org = i.org, ![h].role = i.role]
                /\ leaky' = IF \E g \in Handlers : Using(g, k) THEN leaky \cup {k} ELSE leaky
           ELSE Answer(h) /\ UNCHANGED leaky
    /\ UNCHANGED <<users, members, invite, joined, raced>>

(* ...InsertOrgMember, as an active member... *)
Join(h) ==
    /\ job[h].at = "join"
    /\ LET j == job[h] IN
       /\ InsertRow(j.org, j.user, j.role, TRUE)
       /\ IF role[j.org][j.user] = "none"
          THEN joined' = [joined EXCEPT ![j.token] = @ \cup {j.user}] /\ Continue(h, "mark")
          ELSE UNCHANGED joined /\ Answer(h)
    /\ UNCHANGED <<users, invite, leaky, raced>>

(* ...and MarkInviteUsed, whose failure nobody is told.  The session key that the
   request ends with is Session's. *)
MarkUsed(h) ==
    /\ job[h].at = "mark"
    /\ \/ invite' = [invite EXCEPT ![job[h].token].open = FALSE] /\ UNCHANGED leaky
       \/ leaky' = leaky \cup {job[h].token} /\ UNCHANGED invite
    /\ Answer(h)
    /\ UNCHANGED <<users, members, joined, raced>>

-----------------------------------------------------------------------------
(* CreateOrg, once the caller may: while another request makes the caller a member,
   what was found of the caller's organizations will not hold. *)
Joining == {"token", "join", "org", "owner"}
BeginOrg(h, u) ==
    /\ Start(h, "org", u, u, NoOrg, "none", NoToken)
    /\ raced' = IF \E g \in Handlers : job[g].at \in Joining /\ job[g].user = u
                THEN raced \cup {u} ELSE raced
    /\ UNCHANGED <<users, members, invite, joined, leaky>>

(* Mutant: without the check that the caller has no organization yet. *)
CreateOrgMutant(h, u) == u \in users /\ BeginOrg(h, u)

(* GetUserPrimaryOrgID, the organization, the owner's row. *)
CreateOrg(h, u) == u \in users /\ PrimaryOrgs(u) = {} /\ BeginOrg(h, u)

InsertOrganization(h, o) ==
    /\ job[h].at = "org"
    /\ owner[o] = NoUser
    /\ owner' = [owner EXCEPT ![o] = job[h].user]
    /\ job' = [job EXCEPT ![h].at = "owner", ![h].org = o]
    /\ UNCHANGED <<users, role, active, invite, history>>

InsertOwner(h) ==
    /\ job[h].at = "owner"
    /\ InsertRow(job[h].org, job[h].user, "owner", TRUE)
    /\ Answer(h)
    /\ UNCHANGED <<users, invite, history>>

(* The ids a manager can name: an id is random, and is told by the answer to
   CreateOrg, sent once the owner's row is stored, and by GetMyOrgs, which joins
   the rows of the caller. *)
Known(c) == {o \in OrgIds : role[o][c] # "none"}

InviteMember(h, c, u, r) ==
    /\ c \in users
    /\ \E o \in Known(c) :
          /\ RoleIn(o, c) \in Managers
          /\ Start(h, "invite", c, u, o, r, NoToken)
    /\ UNCHANGED <<users, members, invite, history>>

(* The account looked up by its email, then its row, not active. *)
InsertInvited(h) ==
    /\ job[h].at = "invite"
    /\ LET j == job[h] IN
       IF j.user \in users
       THEN InsertRow(j.org, j.user, j.role, FALSE)
       ELSE UNCHANGED members
    /\ Answer(h)
    /\ UNCHANGED <<users, invite, history>>

(* SendInvite: a link to the caller's organization. *)
SendInvite(h, c, r) ==
    /\ c \in users
    /\ \E o \in PrimaryOrgs(c) :
          /\ RoleIn(o, c) \in Managers
          /\ Start(h, "send", c, c, o, r, NoToken)
    /\ UNCHANGED <<users, members, invite, history>>

InsertInviteToken(h, k) ==
    /\ job[h].at = "send"
    /\ invite[k] = NoInvite
    /\ invite' = [invite EXCEPT ![k] = [org |-> job[h].org, role |-> job[h].role,
                                        open |-> TRUE]]
    /\ Answer(h)
    /\ UNCHANGED <<users, members, history>>

Expire(k) ==
    /\ invite[k] # NoInvite /\ invite[k].open
    /\ invite' = [invite EXCEPT ![k].open = FALSE]
    /\ UNCHANGED <<users, members, job, history>>

-----------------------------------------------------------------------------
(* UpdateMemberRole and RemoveMember act in the organization OrgContext finds. *)
UpdateMemberRole(h, c, u, r) ==
    /\ \E o \in PrimaryOrgs(c) : Start(h, "caller", c, u, o, r, NoToken)
    /\ UNCHANGED <<users, members, invite, history>>

(* Mutant: an admin may grant admin. *)
CheckCallerMutant(h) ==
    /\ job[h].at = "caller"
    /\ ContinueIf(h, RoleIn(job[h].org, job[h].caller) \in Managers, "target")
    /\ UNCHANGED <<users, members, invite, history>>

(* The caller's role; an admin cannot grant admin. *)
CheckCaller(h) ==
    /\ job[h].at = "caller"
    /\ LET r == RoleIn(job[h].org, job[h].caller) IN
       ContinueIf(h, r \in Managers /\ ~(r = "admin" /\ job[h].role = "admin"), "target")
    /\ UNCHANGED <<users, members, invite, history>>

(* The target's role: the owner's cannot be changed. *)
CheckTarget(h) ==
    /\ job[h].at = "target"
    /\ ContinueIf(h, RoleIn(job[h].org, job[h].user) \notin {"owner", "none"}, "setrole")
    /\ UNCHANGED <<users, members, invite, history>>

UpdateOrgMemberRole(h) ==
    /\ job[h].at = "setrole"
    /\ LET j == job[h] IN
       role' = IF role[j.org][j.user] = "none" THEN role
               ELSE [role EXCEPT ![j.org][j.user] = j.role]
    /\ Answer(h)
    /\ UNCHANGED <<users, owner, active, invite, history>>

RemoveMember(h, c, u) ==
    /\ \E o \in PrimaryOrgs(c) : Start(h, "remove", c, u, o, "none", NoToken)
    /\ UNCHANGED <<users, members, invite, history>>

(* Mutant: members may leave, the owner too. *)
CheckRemovedMutant(h) ==
    /\ job[h].at = "remove"
    /\ ContinueIf(h, RoleIn(job[h].org, job[h].user) # "none",
                  IF job[h].user = job[h].caller THEN "delete" ELSE "remover")
    /\ UNCHANGED <<users, members, invite, history>>

(* The owner cannot be removed; whoever leaves needs no role. *)
CheckRemoved(h) ==
    /\ job[h].at = "remove"
    /\ ContinueIf(h, RoleIn(job[h].org, job[h].user) \notin {"owner", "none"},
                  IF job[h].user = job[h].caller THEN "delete" ELSE "remover")
    /\ UNCHANGED <<users, members, invite, history>>

CheckRemover(h) ==
    /\ job[h].at = "remover"
    /\ ContinueIf(h, RoleIn(job[h].org, job[h].caller) \in Managers, "delete")
    /\ UNCHANGED <<users, members, invite, history>>

DeleteOrgMember(h) ==
    /\ job[h].at = "delete"
    /\ role' = [role EXCEPT ![job[h].org][job[h].user] = "none"]
    /\ active' = [active EXCEPT ![job[h].org] = @ \ {job[h].user}]
    /\ Answer(h)
    /\ UNCHANGED <<users, owner, invite, history>>

(* A statement fails or the client goes away. *)
Fail(h) ==
    /\ job[h] # Idle
    /\ Answer(h)
    /\ leaky' = IF job[h].at = "mark" THEN leaky \cup {job[h].token} ELSE leaky
    /\ UNCHANGED <<users, members, invite, joined, raced>>

(* The requests in progress end with the process. *)
Restart ==
    /\ job' = [h \in Handlers |-> Idle]
    /\ leaky' = leaky \cup {k \in Tokens : \E h \in Handlers :
                                job[h].at = "mark" /\ job[h].token = k}
    /\ UNCHANGED <<users, members, invite, joined, raced>>

Statement(h) ==
    \/ CheckToken(h) \/ Join(h) \/ MarkUsed(h)
    \/ \E o \in OrgIds : InsertOrganization(h, o)
    \/ InsertOwner(h) \/ InsertInvited(h)
    \/ \E k \in Tokens : InsertInviteToken(h, k)
    \/ CheckCaller(h) \/ CheckTarget(h) \/ UpdateOrgMemberRole(h)
    \/ CheckRemoved(h) \/ CheckRemover(h) \/ DeleteOrgMember(h)
    \/ Fail(h)

Arrival(h, c) ==
    \/ \E k \in Tokens \cup {NoToken} : Register(h, c, k)
    \/ CreateOrg(h, c)
    \/ \E r \in Assignable : SendInvite(h, c, r)
    \/ \E u \in Users : \/ RemoveMember(h, c, u)
                        \/ \E r \in Assignable :
                              UpdateMemberRole(h, c, u, r) \/ InviteMember(h, c, u, r)

Next ==
    \/ \E h \in Handlers : Statement(h) \/ \E c \in Users : Arrival(h, c)
    \/ \E k \in Tokens : Expire(k)
    \/ Restart

Spec == Init /\ [][Next]_vars

-----------------------------------------------------------------------------
(* org_service.go:183, 221: neither the owner's role nor the owner's place can be
   changed.  Who has members has its owner among them, active, and nobody else
   as owner. *)
Seated(o) == owner[o] \in Users /\ role[o][owner[o]] = "owner" /\ owner[o] \in active[o]
OwnerSeated ==
    \A o \in OrgIds, u \in Users : /\ role[o][u] # "none" => Seated(o)
                                   /\ role[o][u] = "owner" => owner[o] = u

(* What makes it inductive: what a request has checked of the owner stays true,
   and an organization gets its owner's row before any other. *)
JobOK(j) ==
    /\ j.at \in Joining => j.user = j.caller
    /\ j.at \in Named \ {"owner"} => Seated(j.org)
    /\ j.at \in {"setrole", "remover", "delete"} => j.user # owner[j.org]
    /\ j.at \in {"target", "setrole"} /\ j.role = "admin" => j.caller = owner[j.org]
    /\ j.at = "owner" => owner[j.org] = j.user /\ \A u \in Users : role[j.org][u] = "none"
OrgsInv ==
    /\ OwnerSeated
    /\ \A h \in Handlers : /\ JobOK(job[h])
                           /\ job[h].at \in Joining \cup {"mark"} => job[h].user \in users
                           /\ job[h].at \in {"join", "mark"} => invite[job[h].token] # NoInvite
    /\ \A g, h \in Handlers : g # h /\ job[g].at = "owner" /\ job[h].at = "owner"
                               => job[g].org # job[h].org
    /\ \A k \in Tokens : invite[k] # NoInvite => Seated(invite[k].org)
    /\ \A o \in OrgIds : \A u \in active[o] : role[o][u] # "none" /\ u \in users

(* org_service.go:249: "Returns errs.Conflict if the caller already belongs to an
   org."  So a user is active in one organization at most, whatever fails, expires
   or is removed and whoever else's requests overlap.  Excused are users who asked
   for an organization while another request was making them a member (raced): the
   check of :255 and the row of :283 are four statements apart. *)
OneActiveOrg ==
    \A u \in Users \ raced, o, p \in OrgIds : u \in active[o] /\ u \in active[p] => o = p

(* What makes it inductive: whoever is about to become active is not, anywhere, and
   by one request only. *)
OneOrgInv ==
    /\ OneActiveOrg
    /\ \A h \in Handlers : job[h].at \in Joining /\ job[h].user \notin raced =>
          /\ PrimaryOrgs(job[h].user) = {}
          /\ \A g \in Handlers \ {h} : job[g].at \in Joining => job[g].user # job[h].user

(* org_service.go:184: "An admin cannot promote another member to admin (only
   owner can)", also when roles change between the checks and the update. *)
PromotedByOwner ==
    [][\A o \in OrgIds, u \in Users :
          role[o][u] \notin {"none", "admin"} /\ role'[o][u] = "admin" =>
              \E h \in Handlers : /\ job[h].at = "setrole" /\ job'[h] = Idle
                                  /\ job[h].user = u /\ job[h].caller = owner[o]]_vars

(* API_DOCS.md:310: a "one-time invite-link token".  One person joins by a link,
   though it is checked, used and marked by three statements, and may expire and
   registrations fail between them.  Excused are links found open by a registration
   while another was using them, and links whose mark failed or was never reached
   (leaky; auth_service.go:68, :85). *)
JoinsOnce == \A k \in Tokens \ leaky : Cardinality(joined[k]) <= 1

=============================================================================
