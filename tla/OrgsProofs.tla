----------------------------- MODULE OrgsProofs -----------------------------
(***************************************************************************)
(* Proofs about Orgs: type correctness, that an organization's owner keeps *)
(* the first place whatever requests overlap, that only owners promote,    *)
(* that a link admits one person and that a user has one organization, but *)
(* for the overlaps and failures the histories record.                     *)
(***************************************************************************)
EXTENDS Orgs, FiniteSetTheorems, TLAPS

-----------------------------------------------------------------------------
(* How a step changes the request of its handler. *)

(* The request of h becomes j, and is well formed. *)
Becomes(h, j) == /\ j \in Requests \cup {Idle} /\ Formed(j)
                 /\ job' = [job EXCEPT ![h] = j]

(* An answered request is none. *)
LEMMA Answers ==
    ASSUME NEW h \in Handlers, Answer(h)
    PROVE  Becomes(h, Idle)
BY DEF Answer, Becomes, Formed, Idle, Named, Granting

(* A request that starts with what its first statement needs. *)
LEMMA Starts ==
    ASSUME NEW h \in Handlers, NEW at \in Steps, NEW c \in Users, NEW u \in Users,
           NEW o \in OrgIds \cup {NoOrg}, NEW r \in Roles, NEW k \in Tokens \cup {NoToken},
           Start(h, at, c, u, o, r, k),
           at \in Named => o \in OrgIds, at \in Granting => r \in Assignable,
           at \in {"token", "join", "mark"} => k \in Tokens
    PROVE  Becomes(h, [at |-> at, caller |-> c, user |-> u, org |-> o, role |-> r, token |-> k])
BY DEF Start, Requests, Becomes, Formed

(* A handler with a statement to run has a well-formed request. *)
LEMMA HasRequest ==
    ASSUME TypeOK, NEW h \in Handlers, job[h].at \in Steps
    PROVE  job[h] \in Requests /\ Formed(job[h])
BY DEF TypeOK, Steps, Idle

(* A request that goes on keeps all but its next statement. *)
LEMMA Continues ==
    ASSUME TypeOK, NEW h \in Handlers, job[h] \in Requests, NEW at \in Steps, Continue(h, at),
           at \in Named => job[h].at \in Named,
           at \in Granting => job[h].at \in Granting,
           at \in {"token", "join", "mark"} => job[h].at \in {"token", "join", "mark"}
    PROVE  Becomes(h, [job[h] EXCEPT !.at = at])
BY DEF Continue, Requests, TypeOK, Becomes, Formed

-----------------------------------------------------------------------------
(* The inductive invariant *)

(* What is recorded of the past is about users and links. *)
LEMMA HistoryStep ==
    ASSUME TypeOK, [Next]_vars
    PROVE  HistoryOK'
<1>a. HistoryOK
  BY DEF TypeOK
<1>1. CASE UNCHANGED history
  BY <1>a, <1>1 DEF history, HistoryOK
<1>2. ASSUME NEW h \in Handlers, Join(h)
      PROVE  HistoryOK'
  <2>1. job[h] \in Requests
    BY <1>2, HasRequest DEF Join, Steps
  <2>2. job[h].user \in Users
    BY <2>1 DEF Requests
  <2> QED
    BY <1>a, <1>2, <2>2 DEF Join, HistoryOK
<1>3. ASSUME NEW h \in Handlers, CheckToken(h) \/ MarkUsed(h) \/ Fail(h)
      PROVE  HistoryOK'
  <2>1. job[h].at \in {"token", "mark"} => job[h].token \in Tokens
    <3>1. job[h].at \in {"token", "mark"} => job[h].at \in Steps
      BY DEF Steps
    <3> QED
      BY <3>1, HasRequest DEF Formed
  <2> QED
    BY <1>a, <1>3, <2>1 DEF CheckToken, MarkUsed, Fail, HistoryOK
<1>4. ASSUME NEW h \in Handlers, NEW u \in Users, CreateOrg(h, u)
      PROVE  HistoryOK'
  BY <1>a, <1>4 DEF CreateOrg, BeginOrg, HistoryOK
<1>5. CASE Restart
  BY <1>a, <1>5 DEF Restart, HistoryOK
<1>6. ASSUME NEW h \in Handlers, Statement(h)
      PROVE  HistoryOK'
  BY <1>1, <1>2, <1>3, <1>6
     DEF Statement, InsertOrganization, InsertOwner, InsertInvited, InsertInviteToken,
         CheckCaller, CheckTarget, UpdateOrgMemberRole, CheckRemoved, CheckRemover,
         DeleteOrgMember
<1>7. ASSUME NEW h \in Handlers, NEW c \in Users, Arrival(h, c)
      PROVE  HistoryOK'
  BY <1>1, <1>4, <1>7
     DEF Arrival, Register, SendInvite, RemoveMember, UpdateMemberRole, InviteMember
<1> QED
  BY <1>1, <1>5, <1>6, <1>7 DEF Next, Expire, vars, history

(* What a request has checked stays true while organizations keep their owners. *)
LEMMA JobStaysOK ==
    ASSUME NEW j \in Requests \cup {Idle}, Formed(j), JobOK(j),
           \A o \in OrgIds : Seated(o) => Seated(o)' /\ owner'[o] = owner[o],
           j.at = "owner" => /\ owner'[j.org] = owner[j.org]
                             /\ \A u \in Users : role'[j.org][u] = "none"
    PROVE  JobOK(j)'
BY DEF JobOK, Formed, Named

(* Whose organization it is, is seated there. *)
LEMMA PrimarySeated ==
    ASSUME OrgsInv, NEW c \in Users, NEW o \in PrimaryOrgs(c)
    PROVE  o \in OrgIds /\ Seated(o) /\ c \in users
<1>1. o \in OrgIds /\ c \in active[o]
  BY DEF PrimaryOrgs
<1>2. role[o][c] # "none" /\ c \in users
  BY <1>1 DEF OrgsInv
<1> QED
  BY <1>1, <1>2 DEF OrgsInv, OwnerSeated

(* A step that leaves the members alone, and gives its handler a request that is
   in order, preserves the invariant. *)
LEMMA MembersAlone ==
    ASSUME TypeOK, OrgsInv, NEW h \in Handlers, NEW j, Becomes(h, j), JobOK(j),
           j.at = "owner" => \A g \in Handlers \ {h} : job[g].at = "owner" => job[g].org # j.org,
           j.at \in Joining \cup {"mark"} => j.user \in users',
           j.at \in {"join", "mark"} => invite[j.token] # NoInvite,
           users \subseteq users', users' \subseteq Users,
           UNCHANGED members,
           \/ UNCHANGED invite
           \/ \E k \in Tokens : \E i \in [org: OrgIds, role: Assignable, open: BOOLEAN] :
                 invite' = [invite EXCEPT ![k] = i] /\ Seated(i.org),
           HistoryOK'
    PROVE  TypeOK' /\ OrgsInv'
<1>1. /\ job' \in [Handlers -> Requests \cup {Idle}]
      /\ \A g \in Handlers : Formed(job'[g]) /\ (g # h => job'[g] = job[g])
      /\ job'[h] = j
  BY DEF Becomes, TypeOK
<1>2. /\ invite' \in [Tokens -> [org: OrgIds, role: Assignable, open: BOOLEAN] \cup {NoInvite}]
      /\ \A k \in Tokens : /\ invite'[k] # NoInvite => Seated(invite'[k].org)
                           /\ invite[k] # NoInvite => invite'[k] # NoInvite
  <2>1. CASE UNCHANGED invite
    BY <2>1 DEF TypeOK, OrgsInv
  <2>2. ASSUME NEW k \in Tokens, NEW i \in [org: OrgIds, role: Assignable, open: BOOLEAN],
               invite' = [invite EXCEPT ![k] = i], Seated(i.org)
        PROVE  /\ invite' \in [Tokens -> [org: OrgIds, role: Assignable, open: BOOLEAN]
                                          \cup {NoInvite}]
               /\ \A l \in Tokens : /\ invite'[l] # NoInvite => Seated(invite'[l].org)
                                    /\ invite[l] # NoInvite => invite'[l] # NoInvite
    <3>1. i # NoInvite
      BY OrgsConstants
    <3>2. invite' \in [Tokens -> [org: OrgIds, role: Assignable, open: BOOLEAN] \cup {NoInvite}]
          /\ invite'[k] = i /\ \A l \in Tokens \ {k} : invite'[l] = invite[l]
      BY <2>2 DEF TypeOK
    <3> QED
      BY <2>2, <3>1, <3>2 DEF OrgsInv
  <2> QED
    BY <2>1, <2>2
<1>3. TypeOK'
  BY <1>1, <1>2 DEF TypeOK, members, Formed
<1>4. \A o : Seated(o)' = Seated(o)
  BY DEF Seated, members
<1>5. OwnerSeated'
  BY <1>4 DEF OwnerSeated, OrgsInv, members
<1>6. \A g \in Handlers : JobOK(job'[g])
  BY <1>1 DEF OrgsInv
<1>7. \A g \in Handlers : JobOK(job[g])'
  BY <1>6, <1>4 DEF JobOK, members
<1>8. \A g \in Handlers :
         job'[g].at \in Joining \cup {"mark"} => job'[g].user \in users'
  BY <1>1 DEF OrgsInv
<1>9. \A g \in Handlers : job'[g].at \in {"join", "mark"} => invite'[job'[g].token] # NoInvite
  <2>1. \A g \in Handlers : job'[g].at \in {"join", "mark"} =>
           job'[g].token \in Tokens /\ invite[job'[g].token] # NoInvite
    BY <1>1 DEF OrgsInv, Formed
  <2> QED
    BY <1>2, <2>1
<1> QED
  BY <1>1, <1>2, <1>3, <1>4, <1>5, <1>7, <1>8, <1>9 DEF OrgsInv, members

(* The requests that arrive. *)
LEMMA ArrivalStep ==
    ASSUME TypeOK, OrgsInv, NEW h \in Handlers, NEW c \in Users, Arrival(h, c), HistoryOK'
    PROVE  TypeOK' /\ OrgsInv'
<1> DEFINE J(at, u, o, r, k) ==
        [at |-> at, caller |-> c, user |-> u, org |-> o, role |-> r, token |-> k]
<1>a. /\ users \subseteq Users
      /\ Assignable \subseteq Roles /\ "none" \in Roles
  BY DEF TypeOK, Roles
<1>b. \A o \in PrimaryOrgs(c) : o \in OrgIds /\ Seated(o) /\ c \in users
  BY PrimarySeated
<1>1. ASSUME NEW k \in Tokens \cup {NoToken}, Register(h, c, k)
      PROVE  TypeOK' /\ OrgsInv'
  <2>1. users' = users \cup {c} /\ UNCHANGED <<members, invite>>
    BY <1>1 DEF Register
  <2>2. users \subseteq users' /\ users' \subseteq Users /\ c \in users'
    BY <1>a, <2>1
  <2>3. CASE k = NoToken
    <3>1. Becomes(h, job[h]) /\ JobOK(job[h])
      BY <1>1, <2>3 DEF Register, Becomes, TypeOK, OrgsInv
    <3>2. /\ job[h].at = "owner" =>
                \A g \in Handlers \ {h} : job[g].at = "owner" => job[g].org # job[h].org
          /\ job[h].at \in Joining \cup {"mark"} => job[h].user \in users'
          /\ job[h].at \in {"join", "mark"} => invite[job[h].token] # NoInvite
      BY <2>2 DEF OrgsInv
    <3> QED
      BY <2>1, <2>2, <3>1, <3>2, MembersAlone
  <2>4. CASE k # NoToken
    <3>1. k \in Tokens /\ Start(h, "token", c, c, NoOrg, "none", k)
      BY <1>1, <2>4 DEF Register
    <3>2. "token" \in Steps /\ "token" \notin Named /\ "token" \notin Granting
      BY DEF Steps, Named, Granting
    <3>3. Becomes(h, J("token", c, NoOrg, "none", k))
      BY <1>a, <3>1, <3>2, Starts
    <3>4. JobOK(J("token", c, NoOrg, "none", k))
      BY DEF JobOK, Named
    <3> QED
      BY <2>1, <2>2, <3>3, <3>4, MembersAlone
  <2> QED
    BY <2>3, <2>4
<1>2. ASSUME NEW at \in Steps, NEW u \in Users, NEW o \in OrgIds \cup {NoOrg}, NEW r \in Roles,
             Start(h, at, c, u, o, r, NoToken), c \in users,
             at \in Named => o \in OrgIds /\ Seated(o), at \in Granting => r \in Assignable,
             at \in {"org", "invite", "send", "caller", "remove"},
             at = "org" => u = c,
             UNCHANGED <<users, members, invite>>
      PROVE  TypeOK' /\ OrgsInv'
  <2>1. Becomes(h, J(at, u, o, r, NoToken))
    BY <1>2, Starts
  <2>2. JobOK(J(at, u, o, r, NoToken))
    BY <1>2 DEF JobOK, Joining, Named
  <2>3. at \in Joining \cup {"mark"} => u \in users
    BY <1>2 DEF Joining
  <2> QED
    BY <1>a, <1>2, <2>1, <2>2, <2>3, MembersAlone
<1>3. ASSUME CreateOrg(h, c)
      PROVE  TypeOK' /\ OrgsInv'
  BY <1>a, <1>2, <1>3 DEF CreateOrg, BeginOrg, Named, Granting, Steps
<1>4. ASSUME NEW r \in Assignable, SendInvite(h, c, r)
      PROVE  TypeOK' /\ OrgsInv'
  <2>1. PICK o \in PrimaryOrgs(c) : Start(h, "send", c, c, o, r, NoToken)
    BY <1>4 DEF SendInvite
  <2>2. c \in users /\ UNCHANGED <<users, members, invite>>
    BY <1>4 DEF SendInvite
  <2> QED
    BY <1>a, <1>b, <1>2, <2>1, <2>2 DEF Steps
<1>5. ASSUME NEW u \in Users, NEW r \in Assignable, InviteMember(h, c, u, r)
      PROVE  TypeOK' /\ OrgsInv'
  <2>1. PICK o \in Known(c) : Start(h, "invite", c, u, o, r, NoToken)
    BY <1>5 DEF InviteMember
  <2>2. o \in OrgIds /\ Seated(o)
    BY <2>1 DEF Known, OrgsInv, OwnerSeated
  <2>3. c \in users /\ UNCHANGED <<users, members, invite>>
    BY <1>5 DEF InviteMember
  <2> QED
    BY <1>a, <1>2, <2>1, <2>2, <2>3 DEF Steps
<1>6. ASSUME NEW u \in Users, NEW r \in Assignable, UpdateMemberRole(h, c, u, r)
      PROVE  TypeOK' /\ OrgsInv'
  <2>1. PICK o \in PrimaryOrgs(c) : Start(h, "caller", c, u, o, r, NoToken)
    BY <1>6 DEF UpdateMemberRole
  <2>2. UNCHANGED <<users, members, invite>> /\ c \in users
    BY <1>6, <2>1 DEF UpdateMemberRole, PrimaryOrgs, OrgsInv
  <2> QED
    BY <1>a, <1>b, <1>2, <2>1, <2>2 DEF Steps
<1>7. ASSUME NEW u \in Users, RemoveMember(h, c, u)
      PROVE  TypeOK' /\ OrgsInv'
  <2>1. PICK o \in PrimaryOrgs(c) : Start(h, "remove", c, u, o, "none", NoToken)
    BY <1>7 DEF RemoveMember
  <2>2. UNCHANGED <<users, members, invite>> /\ c \in users
    BY <1>7, <2>1 DEF RemoveMember, PrimaryOrgs, OrgsInv
  <2> QED
    BY <1>a, <1>b, <1>2, <2>1, <2>2 DEF Steps, Granting
<1> QED
  BY <1>1, <1>3, <1>4, <1>5, <1>6, <1>7 DEF Arrival

(* The statements that only read, or write what is not a member row. *)
LEMMA ReadingStep ==
    ASSUME TypeOK, OrgsInv, NEW h \in Handlers,
           \/ CheckToken(h) \/ MarkUsed(h)
           \/ \E k \in Tokens : InsertInviteToken(h, k)
           \/ CheckCaller(h) \/ CheckTarget(h) \/ CheckRemoved(h) \/ CheckRemover(h)
           \/ Fail(h), HistoryOK'
    PROVE  TypeOK' /\ OrgsInv'
<1>a. users \subseteq Users /\ JobOK(job[h]) /\ JobOK(Idle)
  BY DEF TypeOK, OrgsInv, JobOK, Idle, Joining, Named
<1>b. Idle.at \notin Joining \cup {"join", "mark", "owner"}
  BY DEF Idle, Joining
<1>1. ASSUME Answer(h), UNCHANGED <<users, members>>,
             \/ UNCHANGED invite
             \/ \E k \in Tokens : \E i \in [org: OrgIds, role: Assignable, open: BOOLEAN] :
                   invite' = [invite EXCEPT ![k] = i] /\ Seated(i.org)
      PROVE  TypeOK' /\ OrgsInv'
  <2>1. Becomes(h, Idle)
    BY <1>1, Answers
  <2> HIDE DEF Idle
  <2> QED
    BY <1>a, <1>b, <1>1, <2>1, MembersAlone
<1>2. ASSUME NEW at \in Steps, Continue(h, at), job[h] \in Requests,
             at \in Named => job[h].at \in Named,
             at \in Granting => job[h].at \in Granting,
             at \in {"token", "join", "mark"} => job[h].at \in {"token", "join", "mark"},
             at \notin Joining \cup {"mark"}, JobOK([job[h] EXCEPT !.at = at]),
             UNCHANGED <<users, members>>,
             \/ UNCHANGED invite
             \/ \E k \in Tokens : \E i \in [org: OrgIds, role: Assignable, open: BOOLEAN] :
                   invite' = [invite EXCEPT ![k] = i] /\ Seated(i.org)
      PROVE  TypeOK' /\ OrgsInv'
  <2>1. Becomes(h, [job[h] EXCEPT !.at = at])
    BY <1>2, Continues
  <2>2. [job[h] EXCEPT !.at = at].at \notin Joining \cup {"join", "mark", "owner"}
    BY <1>2 DEF Requests, Joining
  <2> QED
    BY <1>a, <1>2, <2>1, <2>2, MembersAlone
<1>3. CASE CheckToken(h)
  <2>1. job[h] \in Requests /\ job[h].at = "token" /\ job[h].token \in Tokens
    BY <1>3, HasRequest DEF CheckToken, Steps, Formed
  <2> DEFINE i == invite[job[h].token]
             j == [job[h] EXCEPT !.at = "join", !.org = i.org, !.role = i.role]
  <2>2. ASSUME i # NoInvite, job' = [job EXCEPT ![h] = j],
               UNCHANGED <<users, members, invite>>
        PROVE  TypeOK' /\ OrgsInv'
    <3>1. /\ i \in [org: OrgIds, role: Assignable, open: BOOLEAN] /\ Seated(i.org)
          /\ job[h].user = job[h].caller /\ job[h].user \in users
          /\ invite[job[h].token] # NoInvite
      BY <2>1, <2>2 DEF TypeOK, OrgsInv, JobOK, Joining
    <3>2. j \in Requests /\ j.at = "join" /\ j.org = i.org /\ j.role = i.role
          /\ j.token = job[h].token /\ j.user = job[h].user /\ j.caller = job[h].caller
      BY <2>1, <3>1 DEF Requests, Steps, Roles
    <3> HIDE DEF i, j
    <3>3. Formed(j) /\ JobOK(j)
      BY <2>1, <3>1, <3>2 DEF Formed, JobOK
    <3>4. Becomes(h, j)
      BY <2>2, <3>2, <3>3 DEF Becomes
    <3> QED
      BY <1>a, <2>2, <3>1, <3>2, <3>3, <3>4, MembersAlone
  <2>3. \/ job' = [job EXCEPT ![h].at = "join", ![h].org = i.org, ![h].role = i.role] /\ i # NoInvite
        \/ Answer(h)
    BY <1>3 DEF CheckToken
  <2>4. job' = [job EXCEPT ![h].at = "join", ![h].org = i.org, ![h].role = i.role]
           => job' = [job EXCEPT ![h] = j]
    BY DEF TypeOK
  <2>5. UNCHANGED <<users, members, invite>>
    BY <1>3 DEF CheckToken
  <2> QED
    BY <1>a, <1>1, <2>2, <2>3, <2>4, <2>5
<1>4. CASE MarkUsed(h)
  <2>1. /\ job[h] \in Requests /\ job[h].at = "mark" /\ job[h].token \in Tokens
        /\ invite[job[h].token] # NoInvite /\ job[h].user \in users
    BY <1>4, HasRequest DEF MarkUsed, Steps, Formed, OrgsInv
  <2> DEFINE k == job[h].token
             i == [invite[k] EXCEPT !.open = FALSE]
  <2>2. /\ i \in [org: OrgIds, role: Assignable, open: BOOLEAN] /\ Seated(i.org)
        /\ [invite EXCEPT ![k].open = FALSE] = [invite EXCEPT ![k] = i]
    BY <2>1 DEF TypeOK, OrgsInv
  <2>4. Answer(h) /\ UNCHANGED <<users, members>>
    BY <1>4 DEF MarkUsed
  <2>5. invite' = [invite EXCEPT ![k].open = FALSE] \/ UNCHANGED invite
    BY <1>4 DEF MarkUsed
  <2> HIDE DEF i
  <2>6. \/ UNCHANGED invite
        \/ \E l \in Tokens : \E m \in [org: OrgIds, role: Assignable, open: BOOLEAN] :
              invite' = [invite EXCEPT ![l] = m] /\ Seated(m.org)
    BY <2>1, <2>2, <2>5
  <2> QED
    BY <1>1, <2>4, <2>6
<1>6. ASSUME NEW k \in Tokens, InsertInviteToken(h, k)
      PROVE  TypeOK' /\ OrgsInv'
  <2> DEFINE i == [org |-> job[h].org, role |-> job[h].role, open |-> TRUE]
  <2>1. /\ job[h] \in Requests /\ job[h].at = "send"
        /\ job[h].org \in OrgIds /\ job[h].role \in Assignable
    BY <1>6, HasRequest DEF InsertInviteToken, Steps, Formed, Named, Granting
  <2>2. Seated(job[h].org)
    BY <1>a, <2>1 DEF JobOK, Named
  <2>3. i \in [org: OrgIds, role: Assignable, open: BOOLEAN] /\ Seated(i.org)
    BY <2>1, <2>2
  <2>4. Answer(h) /\ UNCHANGED <<users, members>> /\ invite' = [invite EXCEPT ![k] = i]
    BY <1>6 DEF InsertInviteToken
  <2> HIDE DEF i
  <2> QED
    BY <1>a, <1>1, <2>3, <2>4
<1>7. ASSUME NEW ok \in BOOLEAN, NEW at \in {"target", "setrole", "remover", "delete"},
             ContinueIf(h, ok, at), UNCHANGED <<users, members, invite>>,
             job[h].at \in {"caller", "target", "remove", "remover"},
             at \in {"target", "setrole"} => job[h].at \in {"caller", "target"},
             at \in {"setrole", "remover", "delete"} =>
                (ok => job[h].user # owner[job[h].org]),
             at \in {"target", "setrole"} /\ job[h].role = "admin" =>
                (ok => job[h].caller = owner[job[h].org])
      PROVE  TypeOK' /\ OrgsInv'
  <2>1. CASE ~ok
    BY <1>a, <1>1, <1>7, <2>1 DEF ContinueIf
  <2>2. CASE ok
    <3>1. job[h] \in Requests /\ Seated(job[h].org)
      BY <1>a, <1>7, HasRequest DEF Steps, JobOK, Named
    <3>2. JobOK([job[h] EXCEPT !.at = at])
      BY <1>7, <2>2, <3>1 DEF JobOK, Requests, Joining, Named
    <3>3. Continue(h, at)
      BY <1>7, <2>2 DEF ContinueIf
    <3>4. /\ at \in Steps /\ at \in Named /\ job[h].at \in Named
          /\ at \in Granting => job[h].at \in Granting
          /\ at \notin {"token", "join", "mark"} /\ at \notin Joining \cup {"mark"}
      BY <1>7 DEF Steps, Named, Granting, Joining
    <3> QED
      BY <1>a, <1>2, <1>7, <3>1, <3>2, <3>3, <3>4
  <2> QED
    BY <2>1, <2>2
<1>8. CASE CheckCaller(h)
  <2>1. job[h] \in Requests /\ Formed(job[h]) /\ job[h].at = "caller" /\ Seated(job[h].org)
    BY <1>a, <1>8, HasRequest DEF CheckCaller, Steps, JobOK, Named
  <2> DEFINE r == RoleIn(job[h].org, job[h].caller)
             ok == r \in Managers /\ ~(r = "admin" /\ job[h].role = "admin")
  <2>2. ok /\ job[h].role = "admin" => job[h].caller = owner[job[h].org]
    BY <2>1 DEF RoleIn, Managers, OrgsInv, OwnerSeated, Requests, Formed, Named
  <2>3. ContinueIf(h, ok, "target") /\ UNCHANGED <<users, members, invite>>
    BY <1>8 DEF CheckCaller
  <2>4. ok \in BOOLEAN
    OBVIOUS
  <2> HIDE DEF ok
  <2> QED
    BY <1>7, <2>1, <2>2, <2>3, <2>4
<1>9. CASE CheckTarget(h)
  <2> DEFINE ok == RoleIn(job[h].org, job[h].user) \notin {"owner", "none"}
  <2>1. /\ job[h].at = "target"
        /\ ContinueIf(h, ok, "setrole") /\ UNCHANGED <<users, members, invite>>
    BY <1>9 DEF CheckTarget
  <2>2. ok => job[h].user # owner[job[h].org]
    BY DEF RoleIn
  <2>3. job[h].role = "admin" => job[h].caller = owner[job[h].org]
    BY <1>a, <2>1 DEF JobOK
  <2> HIDE DEF ok
  <2>4. ok \in BOOLEAN
    BY DEF ok
  <2> QED
    BY <1>7, <2>1, <2>2, <2>3, <2>4
<1>10. CASE CheckRemoved(h)
  <2> DEFINE ok == RoleIn(job[h].org, job[h].user) \notin {"owner", "none"}
             at == IF job[h].user = job[h].caller THEN "delete" ELSE "remover"
  <2>1. /\ job[h].at = "remove"
        /\ ContinueIf(h, ok, at) /\ UNCHANGED <<users, members, invite>>
    BY <1>10 DEF CheckRemoved
  <2>2. ok => job[h].user # owner[job[h].org]
    BY DEF RoleIn
  <2>3. at \in {"remover", "delete"} /\ ok \in BOOLEAN
    OBVIOUS
  <2> HIDE DEF ok, at
  <2> QED
    BY <1>7, <2>1, <2>2, <2>3
<1>11. CASE CheckRemover(h)
  <2> DEFINE ok == RoleIn(job[h].org, job[h].caller) \in Managers
  <2>1. /\ job[h].at = "remover"
        /\ ContinueIf(h, ok, "delete") /\ UNCHANGED <<users, members, invite>>
    BY <1>11 DEF CheckRemover
  <2>2. job[h].user # owner[job[h].org]
    BY <1>a, <2>1 DEF JobOK
  <2>3. ok \in BOOLEAN
    OBVIOUS
  <2> HIDE DEF ok
  <2> QED
    BY <1>7, <2>1, <2>2, <2>3
<1>12. CASE Fail(h)
  BY <1>a, <1>1, <1>12 DEF Fail
<1> QED
  BY <1>3, <1>4, <1>6, <1>8, <1>9, <1>10, <1>11, <1>12

-----------------------------------------------------------------------------
(* The statements that change the members. *)

(* What a request that has written a member row goes on to. *)
Wrote(h, j) == /\ Becomes(h, j) /\ j.at \notin Named \ {"mark"} /\ j.at \notin Joining
               /\ j.at = "mark" => invite[j.token] # NoInvite /\ j.user \in users

(* A row that is not the owner's, in an organization where the owner is seated. *)
LEMMA RowStep ==
    ASSUME TypeOK, OrgsInv, NEW h \in Handlers, NEW j, Wrote(h, j),
           NEW o \in OrgIds, Seated(o), NEW u \in Users, u # owner[o],
           NEW r \in Assignable \cup {"none"}, NEW a \in SUBSET users,
           active[o] \ {u} \subseteq a, a \subseteq active[o] \cup {u}, u \in a => r # "none",
           role' = [role EXCEPT ![o][u] = r], active' = [active EXCEPT ![o] = a],
           HistoryOK',
           UNCHANGED <<users, owner, invite>>
    PROVE  TypeOK' /\ OrgsInv'
<1>1. /\ job' \in [Handlers -> Requests \cup {Idle}]
      /\ \A g \in Handlers : Formed(job'[g]) /\ (g # h => job'[g] = job[g])
      /\ job'[h] = j
  BY DEF Wrote, Becomes, TypeOK
<1>2. /\ role' \in [OrgIds -> [Users -> Roles]] /\ active' \in [OrgIds -> SUBSET Users]
      /\ \A p \in OrgIds, v \in Users : p # o \/ v # u => role'[p][v] = role[p][v]
      /\ role'[o][u] = r
  BY DEF TypeOK, Roles
<1>3. TypeOK'
  BY <1>1, <1>2 DEF TypeOK, Formed
<1>4. \A p \in OrgIds : Seated(p) => Seated(p)' /\ owner'[p] = owner[p]
  BY <1>2 DEF Seated, TypeOK
<1>5. OwnerSeated'
  <2>1. r # "owner"
    BY OrgsConstants
  <2> QED
    BY <1>2, <1>4, <2>1 DEF OwnerSeated, OrgsInv
<1>6. ASSUME NEW g \in Handlers \ {h}, NEW q, q = job[g]
      PROVE  JobOK(q)'
  <2>1. q \in Requests \cup {Idle} /\ Formed(q) /\ JobOK(q)
    BY <1>6 DEF TypeOK, OrgsInv
  <2>2. ASSUME q.at = "owner"
        PROVE  owner'[q.org] = owner[q.org] /\ \A v \in Users : role'[q.org][v] = "none"
    <3>1. q.org # o /\ q.org \in OrgIds
      BY <2>1, <2>2 DEF JobOK, Seated, Formed, Named
    <3> QED
      BY <1>2, <2>1, <2>2, <3>1 DEF JobOK
  <2> QED
    BY <1>4, <2>1, <2>2, JobStaysOK
<1>7. JobOK(j)'
  BY DEF Wrote, JobOK, Named, Joining
<1>8. (\A g \in Handlers : JobOK(job[g]))'
  BY <1>1, <1>6, <1>7 DEF JobOK
<1>9. \A g \in Handlers :
         /\ job'[g].at \in Joining \cup {"mark"} => job'[g].user \in users'
         /\ job'[g].at \in {"join", "mark"} => invite'[job'[g].token] # NoInvite
  BY <1>1 DEF OrgsInv, Wrote, Joining
<1>10. (\A k \in Tokens : invite[k] # NoInvite => Seated(invite[k].org))'
  BY <1>4 DEF OrgsInv, TypeOK
<1>11. \A p \in OrgIds : \A v \in active'[p] : role'[p][v] # "none" /\ v \in users'
  BY <1>2 DEF OrgsInv, TypeOK
<1>12. \A f, g \in Handlers : f # g /\ job'[f].at = "owner" /\ job'[g].at = "owner"
                                => job'[f].org # job'[g].org
  BY <1>1 DEF OrgsInv, Wrote, Joining
<1> QED
  BY <1>3, <1>5, <1>8, <1>9, <1>10, <1>11, <1>12 DEF OrgsInv

(* A request that ends with its write. *)
LEMMA Finishes ==
    ASSUME NEW h \in Handlers, Answer(h)
    PROVE  Wrote(h, Idle)
BY Answers DEF Wrote, Idle, Named, Joining

(* A request that ends without a write. *)
LEMMA Nothing ==
    ASSUME TypeOK, OrgsInv, NEW h \in Handlers, job[h] # Idle, Answer(h),
           UNCHANGED <<users, members, invite>>, HistoryOK'
    PROVE  TypeOK' /\ OrgsInv'
<1>1. JobOK(Idle) /\ Idle.at \notin Joining \cup {"join", "mark", "owner"}
  BY DEF JobOK, Idle, Joining, Named
<1>2. Becomes(h, Idle)
  BY Answers
<1>3. users \subseteq users' /\ users' \subseteq Users
  BY DEF TypeOK
<1> HIDE DEF Idle
<1> QED
  BY <1>1, <1>2, <1>3, MembersAlone

(* Joining by a link, being invited, a new role, leaving or being removed. *)
LEMMA WritingStep ==
    ASSUME TypeOK, OrgsInv, NEW h \in Handlers,
           Join(h) \/ InsertInvited(h) \/ UpdateOrgMemberRole(h) \/ DeleteOrgMember(h),
           HistoryOK'
    PROVE  TypeOK' /\ OrgsInv'
<1> DEFINE o == job[h].org
           u == job[h].user
<1>a. /\ job[h].at \in Steps /\ job[h] # Idle
      /\ job[h] \in Requests /\ Formed(job[h]) /\ JobOK(job[h])
      /\ o \in OrgIds /\ u \in Users /\ Seated(o)
  <2>1. job[h].at \in {"join", "invite", "setrole", "delete"}
    BY DEF Join, InsertInvited, UpdateOrgMemberRole, DeleteOrgMember
  <2>2. job[h].at \in Steps /\ job[h].at \in Named \ {"owner"}
    BY <2>1 DEF Steps, Named
  <2>3. job[h] # Idle /\ job[h] \in Requests /\ Formed(job[h]) /\ JobOK(job[h])
    BY <2>2, HasRequest DEF Idle, Steps, OrgsInv
  <2> QED
    BY <2>2, <2>3 DEF JobOK, Requests, Formed
<1>b. /\ role[o][u] = "none" => u # owner[o]
      /\ active[o] \subseteq users
      /\ role[o][u] = "none" => u \notin active[o]
      /\ active = [active EXCEPT ![o] = active[o]]
  BY <1>a DEF Seated, OrgsInv, TypeOK
<1>1. CASE Join(h)
  <2>1. /\ job[h].at = "join" /\ UNCHANGED <<users, invite, owner>>
        /\ job[h].role \in Assignable /\ job[h].token \in Tokens
        /\ u \in users /\ invite[job[h].token] # NoInvite
    BY <1>1, <1>a DEF Join, InsertRow, Formed, Granting, OrgsInv, Joining
  <2>2. CASE role[o][u] # "none"
    BY <1>a, <1>1, <2>1, <2>2, Nothing DEF Join, InsertRow, members
  <2>3. CASE role[o][u] = "none"
    <3>1. /\ role' = [role EXCEPT ![o][u] = job[h].role]
          /\ active' = [active EXCEPT ![o] = active[o] \cup {u}]
          /\ Continue(h, "mark")
      BY <1>1, <2>3 DEF Join, InsertRow
    <3>3. Becomes(h, [job[h] EXCEPT !.at = "mark"])
      BY <1>a, <2>1, <3>1, Continues DEF Steps, Named, Granting
    <3>4. Wrote(h, [job[h] EXCEPT !.at = "mark"])
      BY <1>a, <2>1, <3>3 DEF Wrote, Requests, Named, Joining
    <3> DEFINE a == active[o] \cup {u}
    <3>5. /\ a \in SUBSET users /\ active[o] \ {u} \subseteq a /\ a \subseteq active[o] \cup {u}
          /\ active' = [active EXCEPT ![o] = a] /\ job[h].role # "none" /\ u # owner[o]
      BY <1>b, <2>1, <2>3, <3>1, OrgsConstants
    <3>6. job[h].role \in Assignable \cup {"none"} /\ role' = [role EXCEPT ![o][u] = job[h].role]
      BY <2>1, <3>1
    <3> HIDE DEF o, u, a
    <3> QED
      BY <1>a, <2>1, <3>4, <3>5, <3>6, RowStep
  <2> QED
    BY <2>2, <2>3
<1>2. CASE InsertInvited(h)
  <2>1. /\ job[h].at = "invite" /\ UNCHANGED <<users, owner, invite>> /\ Answer(h)
        /\ job[h].role \in Assignable
    BY <1>2, <1>a DEF InsertInvited, InsertRow, Formed, Granting, members
  <2>2. CASE role[o][u] # "none" \/ u \notin users
    BY <1>a, <1>2, <2>1, <2>2, Nothing DEF InsertInvited, InsertRow, members
  <2>3. CASE role[o][u] = "none" /\ u \in users
    <3>1. /\ role' = [role EXCEPT ![o][u] = job[h].role]
          /\ active' = [active EXCEPT ![o] = active[o]]
      BY <1>b, <1>2, <2>3 DEF InsertInvited, InsertRow
    <3> HIDE DEF o, u
    <3> QED
      BY <1>a, <1>b, <2>1, <2>3, <3>1, Finishes, RowStep
  <2> QED
    BY <2>2, <2>3
<1>3. CASE UpdateOrgMemberRole(h)
  <2>1. /\ job[h].at = "setrole" /\ Answer(h)
        /\ UNCHANGED <<users, owner, active, invite>>
        /\ job[h].role \in Assignable /\ u # owner[o]
    BY <1>3, <1>a DEF UpdateOrgMemberRole, Formed, Granting, JobOK
  <2>2. CASE role[o][u] = "none"
    BY <1>a, <1>3, <2>1, <2>2, Nothing DEF UpdateOrgMemberRole, members
  <2>3. CASE role[o][u] # "none"
    <3>1. /\ role' = [role EXCEPT ![o][u] = job[h].role]
          /\ active' = [active EXCEPT ![o] = active[o]]
      BY <1>b, <1>3, <2>1, <2>3 DEF UpdateOrgMemberRole
    <3>2. job[h].role # "none"
      BY <2>1, OrgsConstants
    <3> HIDE DEF o, u
    <3> QED
      BY <1>a, <1>b, <2>1, <3>1, <3>2, Finishes, RowStep
  <2> QED
    BY <2>2, <2>3
<1>4. CASE DeleteOrgMember(h)
  <2>1. /\ UNCHANGED <<users, owner, invite>> /\ Answer(h)
        /\ u # owner[o]
        /\ role' = [role EXCEPT ![o][u] = "none"]
        /\ active' = [active EXCEPT ![o] = active[o] \ {u}]
    BY <1>4, <1>a DEF DeleteOrgMember, JobOK
  <2> DEFINE a == active[o] \ {u}
  <2>2. /\ a \in SUBSET users /\ active[o] \ {u} \subseteq a /\ a \subseteq active[o] \cup {u}
        /\ u \notin a /\ active' = [active EXCEPT ![o] = a]
    BY <1>b, <2>1
  <2>3. Wrote(h, Idle)
    BY <2>1, Finishes
  <2> HIDE DEF o, u, a
  <2> QED
    BY <1>a, <2>1, <2>2, <2>3, RowStep
<1> QED
  BY <1>1, <1>2, <1>3, <1>4

(* An organization and its first row. *)
LEMMA FoundingStep ==
    ASSUME TypeOK, OrgsInv, NEW h \in Handlers,
           InsertOwner(h) \/ \E o \in OrgIds : InsertOrganization(h, o), HistoryOK'
    PROVE  TypeOK' /\ OrgsInv'
<1>1. ASSUME NEW o \in OrgIds, InsertOrganization(h, o)
      PROVE  TypeOK' /\ OrgsInv'
  <2>u. PICK u : u = job[h].user
    OBVIOUS
  <2>j. PICK j : j = [job[h] EXCEPT !.at = "owner", !.org = o]
    OBVIOUS
  <2>1. /\ job[h] \in Requests /\ job[h].at = "org" /\ u \in Users /\ u \in users
        /\ u = job[h].caller
    BY <1>1, <2>u, HasRequest DEF InsertOrganization, Steps, Requests, OrgsInv, Joining, JobOK
  <2>2. /\ owner[o] = NoUser /\ owner' = [owner EXCEPT ![o] = u] /\ job' = [job EXCEPT ![h] = j]
        /\ UNCHANGED <<users, role, active, invite>>
    BY <1>1, <2>u, <2>j DEF InsertOrganization, TypeOK
  <2>3. /\ ~Seated(o) /\ \A v \in Users : role[o][v] = "none"
    BY <2>2, OrgsConstants DEF Seated, OrgsInv, OwnerSeated
  <2>4. /\ j \in Requests /\ j.at = "owner" /\ j.org = o /\ j.user = u /\ j.caller = u
    BY <2>1, <2>u, <2>j DEF Requests, Steps
  <2>5. Formed(j)
    BY <2>4 DEF Formed, Granting
  <2>6. /\ owner' \in [OrgIds -> Users \cup {NoUser}] /\ owner'[o] = u
        /\ \A p \in OrgIds \ {o} : owner'[p] = owner[p]
    BY <2>1, <2>2 DEF TypeOK
  <2>7. /\ job' \in [Handlers -> Requests \cup {Idle}]
        /\ \A g \in Handlers : Formed(job'[g]) /\ (g # h => job'[g] = job[g])
        /\ job'[h] = j
    BY <2>2, <2>4, <2>5 DEF TypeOK
  <2>8. TypeOK'
    BY <2>2, <2>6, <2>7 DEF TypeOK, Formed
  <2>9. \A p \in OrgIds : Seated(p) => Seated(p)' /\ owner'[p] = owner[p]
    BY <2>2, <2>3, <2>6 DEF Seated
  <2>10. OwnerSeated'
    BY <2>2, <2>3, <2>6, <2>9 DEF OrgsInv, OwnerSeated
  <2>11. ASSUME NEW g \in Handlers \ {h}, NEW q, q = job[g]
         PROVE  JobOK(q)' /\ (q.at = "owner" => q.org # o)
    <3>1. q \in Requests \cup {Idle} /\ Formed(q) /\ JobOK(q)
      BY <2>11 DEF TypeOK, OrgsInv
    <3>2. q.at = "owner" => q.org # o /\ q.org \in OrgIds /\ q \in Requests
      BY <2>2, <3>1, OrgsConstants DEF JobOK, Formed, Named, Idle, Requests
    <3>3. q.at = "owner" => /\ owner'[q.org] = owner[q.org]
                            /\ \A v \in Users : role'[q.org][v] = "none"
      BY <2>2, <2>6, <3>1, <3>2 DEF JobOK
    <3> QED
      BY <2>9, <3>1, <3>2, <3>3, JobStaysOK
  <2>12. JobOK(j)'
    BY <2>2, <2>3, <2>4, <2>6 DEF JobOK, Named
  <2>13. (\A g \in Handlers : JobOK(job[g]))'
    BY <2>7, <2>11, <2>12 DEF JobOK
  <2>14. \A g \in Handlers :
            /\ job'[g].at \in Joining \cup {"mark"} => job'[g].user \in users'
            /\ job'[g].at \in {"join", "mark"} => invite'[job'[g].token] # NoInvite
    BY <2>1, <2>2, <2>4, <2>7 DEF OrgsInv
  <2>15. \A f, g \in Handlers : f # g /\ job'[f].at = "owner" /\ job'[g].at = "owner"
                                  => job'[f].org # job'[g].org
    BY <2>4, <2>7, <2>11 DEF OrgsInv
  <2>16. (\A k \in Tokens : invite[k] # NoInvite => Seated(invite[k].org))
         => (\A k \in Tokens : invite[k] # NoInvite => Seated(invite[k].org))'
    BY <2>2, <2>9 DEF TypeOK
  <2> QED
    BY <2>2, <2>8, <2>10, <2>13, <2>14, <2>15, <2>16 DEF OrgsInv
<1>2. CASE InsertOwner(h)
  <2>o. PICK o : o = job[h].org
    OBVIOUS
  <2>u. PICK u : u = job[h].user
    OBVIOUS
  <2>1. /\ job[h] \in Requests /\ job[h].at = "owner" /\ o \in OrgIds /\ u \in Users
        /\ u \in users /\ owner[o] = u /\ \A v \in Users : role[o][v] = "none"
    BY <1>2, <2>o, <2>u, HasRequest
       DEF InsertOwner, Steps, Named, Formed, Requests, OrgsInv, Joining, JobOK
  <2>2. /\ role' = [role EXCEPT ![o][u] = "owner"] /\ active' = [active EXCEPT ![o] = @ \cup {u}]
        /\ Answer(h) /\ UNCHANGED <<users, owner, invite>>
    BY <1>2, <2>o, <2>u, <2>1 DEF InsertOwner, InsertRow
  <2>3. \A g \in Handlers \ {h} : job[g].at = "owner" => job[g].org # o
    BY <2>o, <2>1 DEF OrgsInv
  <2>4. /\ job' \in [Handlers -> Requests \cup {Idle}]
        /\ \A g \in Handlers : Formed(job'[g]) /\ (g # h => job'[g] = job[g])
        /\ job'[h] = Idle
    BY <2>2, Answers DEF Becomes, TypeOK
  <2>5. /\ role' \in [OrgIds -> [Users -> Roles]] /\ active' \in [OrgIds -> SUBSET Users]
        /\ \A p \in OrgIds, v \in Users : p # o \/ v # u => role'[p][v] = role[p][v]
        /\ role'[o][u] = "owner" /\ u \in active'[o] /\ active'[o] = active[o] \cup {u}
        /\ \A p \in OrgIds \ {o} : active'[p] = active[p]
    BY <2>1, <2>2 DEF TypeOK, Roles
  <2>6. TypeOK'
    BY <2>2, <2>4, <2>5 DEF TypeOK, Formed
  <2>7. \A p \in OrgIds : Seated(p) => Seated(p)' /\ owner'[p] = owner[p]
    BY <2>1, <2>2, <2>5 DEF Seated
  <2>8. Seated(o)'
    BY <2>1, <2>2, <2>5 DEF Seated
  <2>9. OwnerSeated'
    BY <2>1, <2>2, <2>5, <2>7, <2>8 DEF OrgsInv, OwnerSeated
  <2>10. ASSUME NEW g \in Handlers \ {h}, NEW q, q = job[g]
         PROVE  JobOK(q)'
    <3>1. q \in Requests \cup {Idle} /\ Formed(q) /\ JobOK(q)
      BY <2>10 DEF TypeOK, OrgsInv
    <3>2. q.at = "owner" => q.org # o /\ q.org \in OrgIds
      BY <2>3, <2>10, <3>1 DEF Formed, Named
    <3>3. q.at = "owner" => /\ owner'[q.org] = owner[q.org]
                            /\ \A v \in Users : role'[q.org][v] = "none"
      BY <2>2, <2>5, <3>1, <3>2 DEF JobOK
    <3> QED
      BY <2>7, <3>1, <3>3, JobStaysOK
  <2>11. Idle.at \notin Named \cup Joining \cup {"join", "mark", "owner", "target"}
    BY DEF Idle, Named, Joining
  <2>12. JobOK(Idle)'
    BY <2>11 DEF JobOK, Idle, Named
  <2>13. (\A g \in Handlers : JobOK(job[g]))'
    BY <2>4, <2>10, <2>12 DEF JobOK
  <2>14. \A g \in Handlers :
            /\ job'[g].at \in Joining \cup {"mark"} => job'[g].user \in users'
            /\ job'[g].at \in {"join", "mark"} => invite'[job'[g].token] # NoInvite
    BY <2>2, <2>4, <2>11 DEF OrgsInv
  <2>15. \A f, g \in Handlers : f # g /\ job'[f].at = "owner" /\ job'[g].at = "owner"
                                  => job'[f].org # job'[g].org
    BY <2>4, <2>11 DEF OrgsInv
  <2>16. (\A k \in Tokens : invite[k] # NoInvite => Seated(invite[k].org))'
    BY <2>2, <2>7 DEF TypeOK, OrgsInv
  <2>17. \A p \in OrgIds : \A v \in active'[p] : role'[p][v] # "none" /\ v \in users'
    BY <2>1, <2>2, <2>5 DEF OrgsInv, TypeOK
  <2> QED
    BY <2>6, <2>9, <2>13, <2>14, <2>15, <2>16, <2>17 DEF OrgsInv
<1> QED
  BY <1>1, <1>2

(* The steps of no request: links that expire, a restart. *)
LEMMA QuietStep ==
    ASSUME TypeOK, OrgsInv, UNCHANGED <<users, members>>, HistoryOK',
           job' \in {job, [h \in Handlers |-> Idle]},
           \/ UNCHANGED invite
           \/ \E k \in Tokens : Expire(k)
    PROVE  TypeOK' /\ OrgsInv'
<1>1. /\ job' \in [Handlers -> Requests \cup {Idle}]
      /\ \A g \in Handlers : Formed(job'[g]) /\ job'[g] \in {job[g], Idle}
  BY DEF TypeOK, Formed, Idle, Named, Granting
<1>2. /\ invite' \in [Tokens -> [org: OrgIds, role: Assignable, open: BOOLEAN] \cup {NoInvite}]
      /\ \A k \in Tokens : /\ invite'[k] # NoInvite => Seated(invite'[k].org)
                           /\ invite[k] # NoInvite => invite'[k] # NoInvite
  <2>1. CASE UNCHANGED invite
    BY <2>1 DEF TypeOK, OrgsInv
  <2>2. ASSUME NEW k \in Tokens, Expire(k)
        PROVE  /\ invite' \in [Tokens -> [org: OrgIds, role: Assignable, open: BOOLEAN]
                                          \cup {NoInvite}]
               /\ \A l \in Tokens : /\ invite'[l] # NoInvite => Seated(invite'[l].org)
                                    /\ invite[l] # NoInvite => invite'[l] # NoInvite
    <3>1. /\ invite[k] \in [org: OrgIds, role: Assignable, open: BOOLEAN]
          /\ invite' = [invite EXCEPT ![k] = [invite[k] EXCEPT !.open = FALSE]]
      BY <2>2 DEF Expire, TypeOK
    <3>2. /\ invite'[k] \in [org: OrgIds, role: Assignable, open: BOOLEAN]
          /\ invite'[k].org = invite[k].org
          /\ \A l \in Tokens \ {k} : invite'[l] = invite[l]
          /\ invite' \in [Tokens -> [org: OrgIds, role: Assignable, open: BOOLEAN] \cup {NoInvite}]
      BY <3>1 DEF TypeOK
    <3>3. invite'[k] # NoInvite /\ invite[k] # NoInvite
      BY <3>1, <3>2, OrgsConstants
    <3> QED
      BY <3>2, <3>3 DEF OrgsInv
  <2> QED
    BY <2>1, <2>2
<1>3. TypeOK'
  BY <1>1, <1>2 DEF TypeOK, members, Formed
<1>4. \A o : Seated(o)' = Seated(o)
  BY DEF Seated, members
<1>5. OwnerSeated'
  BY <1>4 DEF OwnerSeated, OrgsInv, members
<1>6. \A g \in Handlers : JobOK(job'[g])
  BY <1>1 DEF OrgsInv, JobOK, Idle, Joining, Named
<1>7. (\A g \in Handlers : JobOK(job[g]))'
  BY <1>6, <1>4 DEF JobOK, members
<1>8. Idle.at \notin Joining \cup {"join", "mark", "owner"}
  BY DEF Idle, Joining
<1>9. \A g \in Handlers :
         /\ job'[g].at \in Joining \cup {"mark"} => job'[g].user \in users'
         /\ job'[g].at \in {"join", "mark"} => invite'[job'[g].token] # NoInvite
  <2>1. \A g \in Handlers : job'[g].at \in {"join", "mark"} =>
           job'[g].token \in Tokens /\ invite[job'[g].token] # NoInvite
    BY <1>1, <1>8 DEF OrgsInv, Formed
  <2> QED
    BY <1>1, <1>2, <1>8, <2>1 DEF OrgsInv
<1>10. \A f, g \in Handlers : f # g /\ job'[f].at = "owner" /\ job'[g].at = "owner"
                                => job'[f].org # job'[g].org
  BY <1>1, <1>8 DEF OrgsInv
<1>11. (\A k \in Tokens : invite[k] # NoInvite => Seated(invite[k].org))'
  BY <1>2, <1>4
<1> QED
  BY <1>3, <1>5, <1>7, <1>9, <1>10, <1>11 DEF OrgsInv, members

LEMMA InitOK == Init => TypeOK /\ OrgsInv
<1> SUFFICES ASSUME Init PROVE TypeOK /\ OrgsInv
  OBVIOUS
<1>1. TypeOK
  BY DEF Init, TypeOK, HistoryOK, Formed, Idle, Roles, Named, Granting
<1>2. \A h \in Handlers : JobOK(job[h])
  BY DEF Init, JobOK, Idle, Named, Joining
<1>3. \A h \in Handlers : job[h].at \notin Joining \cup {"mark", "join", "owner"}
  BY DEF Init, Idle, Joining
<1>4. OwnerSeated
  BY DEF Init, OwnerSeated
<1> QED
  BY <1>2, <1>3, <1>4, <1>1 DEF OrgsInv, Init

LEMMA StepOK ==
    ASSUME TypeOK, OrgsInv, [Next]_vars
    PROVE  TypeOK' /\ OrgsInv'
<1>a. HistoryOK'
  BY HistoryStep
<1>1. ASSUME NEW h \in Handlers, Statement(h)
      PROVE  TypeOK' /\ OrgsInv'
  <2>1. CASE \/ CheckToken(h) \/ MarkUsed(h)
             \/ \E k \in Tokens : InsertInviteToken(h, k)
             \/ CheckCaller(h) \/ CheckTarget(h) \/ CheckRemoved(h) \/ CheckRemover(h)
             \/ Fail(h)
    BY <1>a, <2>1, ReadingStep
  <2>2. CASE Join(h) \/ InsertInvited(h) \/ UpdateOrgMemberRole(h) \/ DeleteOrgMember(h)
    BY <1>a, <2>2, WritingStep
  <2>3. CASE InsertOwner(h) \/ \E o \in OrgIds : InsertOrganization(h, o)
    BY <1>a, <2>3, FoundingStep
  <2> QED
    BY <1>1, <2>1, <2>2, <2>3 DEF Statement
<1>2. ASSUME NEW h \in Handlers, NEW c \in Users, Arrival(h, c)
      PROVE  TypeOK' /\ OrgsInv'
  BY <1>a, <1>2, ArrivalStep
<1>4. CASE \E k \in Tokens : Expire(k)
  BY <1>a, <1>4, QuietStep DEF Expire
<1>5. CASE Restart
  BY <1>a, <1>5, QuietStep DEF Restart
<1>6. CASE UNCHANGED vars
  BY <1>a, <1>6, QuietStep DEF vars, members
<1> QED
  BY <1>1, <1>2, <1>4, <1>5, <1>6 DEF Next

-----------------------------------------------------------------------------
(* The variables keep their types, and what has been checked of an organization
   stays true until the request that checked it has written. *)
THEOREM OrgsInductive == Spec => [](TypeOK /\ OrgsInv)
<1>1. Init => TypeOK /\ OrgsInv
  BY InitOK
<1>2. TypeOK /\ OrgsInv /\ [Next]_vars => TypeOK' /\ OrgsInv'
  BY StepOK
<1> QED
  BY <1>1, <1>2, PTL DEF Spec

(* Whoever has members has its owner among them, active, and no second owner:
   no interleaving of requests removes or demotes an owner. *)
THEOREM OwnerAlwaysSeated == Spec => []OwnerSeated
<1>1. OrgsInv => OwnerSeated
  BY DEF OrgsInv
<1> QED
  BY <1>1, OrgsInductive, PTL

(* org_service.go:184: whoever is raised to admin is raised by the owner, also
   when roles change between the checks and the update. *)
THEOREM PromotionsByOwner == Spec => PromotedByOwner
<1>1. ASSUME TypeOK, OrgsInv, Next, NEW o \in OrgIds, NEW u \in Users,
             role[o][u] \notin {"none", "admin"}, role'[o][u] = "admin"
      PROVE  \E h \in Handlers : /\ job[h].at = "setrole" /\ job'[h] = Idle
                                 /\ job[h].user = u /\ job[h].caller = owner[o]
  <2>1. role' # role
    BY <1>1
  <2>2. PICK h \in Handlers : Join(h) \/ InsertOwner(h) \/ InsertInvited(h)
                              \/ UpdateOrgMemberRole(h) \/ DeleteOrgMember(h)
    <3>1. \/ \E h \in Handlers : Statement(h) \/ \E c \in Users : Arrival(h, c)
          \/ \E k \in Tokens : Expire(k)
          \/ Restart
      BY <1>1 DEF Next
    <3>2. ASSUME NEW h \in Handlers, NEW c \in Users PROVE ~Arrival(h, c)
      BY <2>1 DEF Arrival, Register, CreateOrg, BeginOrg, SendInvite, RemoveMember,
                  UpdateMemberRole, InviteMember, members
    <3>3. ~(\E k \in Tokens : Expire(k)) /\ ~Restart
      BY <2>1 DEF Expire, Restart, members
    <3>4. PICK h \in Handlers : Statement(h)
      BY <3>1, <3>2, <3>3
    <3>5. /\ ~CheckToken(h) /\ ~MarkUsed(h)
          /\ ~(\E p \in OrgIds : InsertOrganization(h, p))
          /\ ~(\E k \in Tokens : InsertInviteToken(h, k))
      BY <2>1 DEF CheckToken, MarkUsed, InsertOrganization, InsertInviteToken, members
    <3>6. ~CheckCaller(h) /\ ~CheckTarget(h) /\ ~CheckRemoved(h) /\ ~CheckRemover(h) /\ ~Fail(h)
      BY <2>1 DEF CheckCaller, CheckTarget, CheckRemoved, CheckRemover, Fail, members
    <3> QED
      BY <3>4, <3>5, <3>6 DEF Statement
  <2>3. ASSUME NEW p, NEW v, NEW r, NEW a, InsertRow(p, v, r, a)
        PROVE  FALSE
    <3>1. role[p][v] = "none" /\ role' = [role EXCEPT ![p][v] = r]
      BY <2>1, <2>3 DEF InsertRow
    <3> QED
      BY <1>1, <3>1 DEF TypeOK
  <2>4. ~Join(h) /\ ~InsertOwner(h) /\ ~InsertInvited(h)
    BY <2>1, <2>3 DEF Join, InsertOwner, InsertInvited, members
  <2>5. ~DeleteOrgMember(h)
    BY <1>1 DEF DeleteOrgMember, TypeOK
  <2>6. CASE UpdateOrgMemberRole(h)
    <3>1. /\ job[h].at = "setrole" /\ Answer(h)
          /\ role' = [role EXCEPT ![job[h].org][job[h].user] = job[h].role]
      BY <2>1, <2>6 DEF UpdateOrgMemberRole
    <3>2. job[h].org = o /\ job[h].user = u /\ job[h].role = "admin"
      BY <1>1, <3>1 DEF TypeOK
    <3>3. job[h].caller = owner[o]
      BY <1>1, <3>1, <3>2 DEF OrgsInv, JobOK
    <3>4. job'[h] = Idle
      BY <1>1, <3>1 DEF Answer, TypeOK
    <3> QED
      BY <3>1, <3>2, <3>3, <3>4
  <2> QED
    BY <2>2, <2>4, <2>5, <2>6
<1>2. TypeOK /\ OrgsInv /\ [Next]_vars =>
        [\A o \in OrgIds, u \in Users :
            role[o][u] \notin {"none", "admin"} /\ role'[o][u] = "admin" =>
                \E h \in Handlers : /\ job[h].at = "setrole" /\ job'[h] = Idle
                                    /\ job[h].user = u /\ job[h].caller = owner[o]]_vars
  BY <1>1
<1> QED
  BY <1>2, OrgsInductive, PTL DEF Spec, PromotedByOwner

-----------------------------------------------------------------------------
(* Users who do not ask for an organization while another is joined *)

(* The request of h becomes j, and nobody but the user of a request about to
   make a member becomes active, in one organization. *)
LEMMA OneOrgKept ==
    ASSUME TypeOK, OrgsInv, OneOrgInv, NEW h \in Handlers, NEW j, job' = [job EXCEPT ![h] = j],
           raced \subseteq raced', NEW w,
           \A o \in OrgIds, u \in Users : u \in active'[o] /\ u \notin active[o] =>
               job[h].at \in Joining /\ u = job[h].user /\ o = w /\ j.at \notin Joining,
           j.at \in Joining /\ j.user \notin raced' =>
               /\ j.user \in Users /\ \A o \in OrgIds : j.user \notin active[o]
               /\ \A g \in Handlers \ {h} : job[g].at \in Joining => job[g].user # j.user
    PROVE  OneOrgInv'
<1>1. \A g \in Handlers : job'[g] = IF g = h THEN j ELSE job[g]
  BY DEF TypeOK
<1>2. OneActiveOrg'
  <2> SUFFICES ASSUME NEW u \in Users, u \notin raced', NEW o \in OrgIds, NEW p \in OrgIds,
                      u \in active'[o], u \in active'[p]
               PROVE  o = p
    BY DEF OneActiveOrg
  <2>1. job[h].at \in Joining /\ u = job[h].user => \A q \in OrgIds : u \notin active[q]
    BY DEF OneOrgInv, PrimaryOrgs
  <2>2. u \in active[o] /\ u \in active[p] => o = p
    BY DEF OneOrgInv, OneActiveOrg
  <2> QED
    BY <2>1, <2>2
<1>3. ASSUME NEW g \in Handlers, job'[g].at \in Joining, job'[g].user \notin raced'
      PROVE  /\ \A o \in OrgIds : job'[g].user \notin active'[o]
             /\ \A f \in Handlers \ {g} : job'[f].at \in Joining => job'[f].user # job'[g].user
  <2>1. CASE g = h
    BY <1>1, <1>3, <2>1
  <2>2. CASE g # h
    <3>1. /\ job'[g] = job[g] /\ job[g].at \in Joining /\ job[g].user \notin raced
          /\ \A o \in OrgIds : job[g].user \notin active[o]
          /\ \A f \in Handlers \ {g} : job[f].at \in Joining => job[f].user # job[g].user
      BY <1>1, <1>3, <2>2 DEF OneOrgInv, PrimaryOrgs
    <3>2. job[g].user \in Users
      <4>1. job[g].user \in users
        BY <3>1 DEF OrgsInv
      <4> QED
        BY <4>1 DEF TypeOK
    <3>3. \A o \in OrgIds : job[g].user \notin active'[o]
      BY <2>2, <3>1, <3>2
    <3>4. j.at \in Joining => j.user # job[g].user
      BY <1>3, <2>2, <3>1
    <3> QED
      BY <1>1, <3>1, <3>3, <3>4
  <2> QED
    BY <2>1, <2>2
<1> QED
  BY <1>2, <1>3 DEF OneOrgInv, PrimaryOrgs

(* Nobody becomes active, and requests go on or end. *)
LEMMA OneOrgContinues ==
    ASSUME TypeOK, OrgsInv, OneOrgInv, NEW h \in Handlers,
           NEW j, job' = [job EXCEPT ![h] = j], UNCHANGED raced,
           j.at \in Joining => job[h].at \in Joining /\ j.user = job[h].user,
           \A o \in OrgIds : active'[o] \subseteq active[o]
    PROVE  OneOrgInv'
<1>1. j.at \in Joining /\ j.user \notin raced' =>
         /\ j.user \in Users /\ \A o \in OrgIds : j.user \notin active[o]
         /\ \A g \in Handlers \ {h} : job[g].at \in Joining => job[g].user # j.user
  BY DEF OneOrgInv, PrimaryOrgs, OrgsInv, TypeOK
<1>2. \A o \in OrgIds, u \in Users : ~(u \in active'[o] /\ u \notin active[o])
  OBVIOUS
<1> QED
  BY <1>1, <1>2, OneOrgKept

(* A request that arrives. *)
LEMMA OneOrgArrives ==
    ASSUME TypeOK, OrgsInv, OneOrgInv, NEW h \in Handlers, NEW c \in Users,
           NEW at, NEW u, NEW o, NEW r, NEW k, Start(h, at, c, u, o, r, k),
           at \in Joining => u = c /\ PrimaryOrgs(c) = {},
           at \in Joining /\ c \notin raced' =>
               \A g \in Handlers : job[g].at \in Joining => job[g].user # c,
           UNCHANGED active, raced \subseteq raced'
    PROVE  OneOrgInv'
<1> DEFINE j == [at |-> at, caller |-> c, user |-> u, org |-> o, role |-> r, token |-> k]
<1>1. j.at \in Joining /\ j.user \notin raced' =>
         /\ j.user \in Users /\ \A p \in OrgIds : j.user \notin active[p]
         /\ \A g \in Handlers \ {h} : job[g].at \in Joining => job[g].user # j.user
  BY DEF PrimaryOrgs
<1>2. job' = [job EXCEPT ![h] = j]
  BY DEF Start
<1>3. \A p \in OrgIds, v \in Users : ~(v \in active'[p] /\ v \notin active[p])
  OBVIOUS
<1> HIDE DEF j
<1> QED
  BY <1>1, <1>2, <1>3, OneOrgKept

LEMMA OneOrgStep ==
    ASSUME TypeOK, OrgsInv, OneOrgInv, [Next]_vars
    PROVE  OneOrgInv'
<1>1. ASSUME NEW h \in Handlers, Statement(h)
      PROVE  OneOrgInv'
  <2>1. UNCHANGED raced
    BY <1>1
       DEF Statement, CheckToken, Join, MarkUsed, InsertOrganization, InsertOwner,
           InsertInvited, InsertInviteToken, CheckCaller, CheckTarget, UpdateOrgMemberRole,
           CheckRemoved, CheckRemover, DeleteOrgMember, Fail, history
  <2>2. ASSUME Answer(h), \A o \in OrgIds : active'[o] \subseteq active[o]
        PROVE  OneOrgInv'
    <3>1. Idle.at \notin Joining
      BY DEF Idle, Joining
    <3> QED
      BY <2>1, <2>2, <3>1, OneOrgContinues DEF Answer
  <2>3. ASSUME NEW at, at \notin Joining, Continue(h, at), job[h] \in Requests, UNCHANGED active
        PROVE  OneOrgInv'
    <3>1. /\ job' = [job EXCEPT ![h] = [job[h] EXCEPT !.at = at]]
          /\ [job[h] EXCEPT !.at = at].at = at
          /\ [job[h] EXCEPT !.at = at].caller = job[h].caller
      BY <2>3 DEF Continue, TypeOK, Requests
    <3> QED
      BY <2>1, <2>3, <3>1, OneOrgContinues
  <2>5. CASE CheckToken(h)
    <3>r. job[h] \in Requests
      BY <2>5, HasRequest DEF CheckToken, Steps
    <3> DEFINE j == [job[h] EXCEPT !.at = "join", !.org = invite[job[h].token].org,
                                   !.role = invite[job[h].token].role]
    <3>1. j.user = job[h].user
      BY <3>r DEF Requests
    <3>2. Answer(h) \/ job' = [job EXCEPT ![h] = j]
      BY <2>5 DEF CheckToken, TypeOK
    <3>3. job[h].at \in Joining /\ UNCHANGED active
      BY <2>5 DEF CheckToken, Joining, members
    <3> HIDE DEF j
    <3> QED
      BY <2>1, <2>2, <3>1, <3>2, <3>3, OneOrgContinues
  <2>6. CASE Join(h) \/ InsertOwner(h)
    <3>r. job[h] \in Requests
      BY <2>6, HasRequest DEF Join, InsertOwner, Steps
    <3>1. PICK w : w = job[h].org
      OBVIOUS
    <3>2. PICK j \in {Idle, [job[h] EXCEPT !.at = "mark"]} : job' = [job EXCEPT ![h] = j]
      BY <2>6, <3>r DEF Join, InsertOwner, Continue, Answer, TypeOK, Requests
    <3>3. j.at \notin Joining /\ job[h].at \in Joining
      <4>1. job[h].at \in Joining
        BY <2>6 DEF Join, InsertOwner, Joining
      <4>2. [job[h] EXCEPT !.at = "mark"].at = "mark"
        BY <3>r DEF Requests
      <4>3. Idle.at = "idle"
        BY DEF Idle
      <4>4. j.at \in {"idle", "mark"}
        BY <3>2, <4>2, <4>3
      <4> QED
        BY <4>1, <4>4 DEF Joining
    <3>4. \A o \in OrgIds, u \in Users :
             u \in active'[o] /\ u \notin active[o] => u = job[h].user /\ o = w
      BY <2>6, <3>1 DEF Join, InsertOwner, InsertRow, TypeOK
    <3> QED
      BY <2>1, <3>2, <3>3, <3>4, OneOrgKept
  <2>7. CASE MarkUsed(h)
    BY <2>2, <2>7 DEF MarkUsed, members
  <2>8. ASSUME NEW o \in OrgIds, InsertOrganization(h, o)
        PROVE  OneOrgInv'
    <3>r. job[h] \in Requests
      BY <2>8, HasRequest DEF InsertOrganization, Steps
    <3> DEFINE j == [job[h] EXCEPT !.at = "owner", !.org = o]
    <3>1. /\ j.user = job[h].user /\ job[h].at \in Joining
          /\ job' = [job EXCEPT ![h] = j] /\ UNCHANGED active
      BY <2>8, <3>r DEF InsertOrganization, Requests, Joining, TypeOK
    <3> HIDE DEF j
    <3> QED
      BY <2>1, <3>1, OneOrgContinues
  <2>9. CASE InsertInvited(h)
    BY <2>2, <2>9 DEF InsertInvited, InsertRow, members
  <2>10. CASE UpdateOrgMemberRole(h) \/ Fail(h)
              \/ \E k \in Tokens : InsertInviteToken(h, k)
    BY <2>2, <2>10 DEF UpdateOrgMemberRole, Fail, InsertInviteToken, members
  <2>11. CASE DeleteOrgMember(h)
    BY <2>2, <2>11 DEF DeleteOrgMember, TypeOK
  <2>12. ASSUME NEW ok, NEW at \in {"target", "setrole", "remover", "delete"},
                ContinueIf(h, ok, at), job[h].at \in Steps, UNCHANGED active
         PROVE  OneOrgInv'
    BY <2>2, <2>3, <2>12, HasRequest DEF ContinueIf, Joining
  <2>13. CASE CheckCaller(h)
    <3>1. PICK ok : ContinueIf(h, ok, "target")
      BY <2>13 DEF CheckCaller
    <3> QED
      BY <2>12, <2>13, <3>1 DEF CheckCaller, members, Steps
  <2>14. CASE CheckTarget(h)
    <3>1. PICK ok : ContinueIf(h, ok, "setrole")
      BY <2>14 DEF CheckTarget
    <3> QED
      BY <2>12, <2>14, <3>1 DEF CheckTarget, members, Steps
  <2>15. CASE CheckRemoved(h)
    <3>1. PICK ok : ContinueIf(h, ok, "delete") \/ ContinueIf(h, ok, "remover")
      BY <2>15 DEF CheckRemoved
    <3> QED
      BY <2>12, <2>15, <3>1 DEF CheckRemoved, members, Steps
  <2>16. CASE CheckRemover(h)
    <3>1. PICK ok : ContinueIf(h, ok, "delete")
      BY <2>16 DEF CheckRemover
    <3> QED
      BY <2>12, <2>16, <3>1 DEF CheckRemover, members, Steps
  <2> QED
    BY <1>1, <2>5, <2>6, <2>7, <2>8, <2>9, <2>10, <2>11, <2>13, <2>14, <2>15, <2>16
       DEF Statement
<1>2. ASSUME NEW h \in Handlers, NEW c \in Users, Arrival(h, c)
      PROVE  OneOrgInv'
  <2>1. ASSUME NEW k, Register(h, c, k)
        PROVE  OneOrgInv'
    <3>1. c \notin users /\ UNCHANGED active /\ UNCHANGED raced
      BY <2>1 DEF Register, members, history
    <3>2. PrimaryOrgs(c) = {} /\ \A g \in Handlers : job[g].at \in Joining => job[g].user # c
      BY <3>1 DEF PrimaryOrgs, OrgsInv
    <3>3. CASE k = NoToken
      <4>1. UNCHANGED <<active, raced, job>>
        BY <2>1, <3>1, <3>3 DEF Register
      <4> QED
        BY <4>1 DEF OneOrgInv, OneActiveOrg, PrimaryOrgs
    <3>4. CASE k # NoToken
      <4>1. Start(h, "token", c, c, NoOrg, "none", k)
        BY <2>1, <3>4 DEF Register
      <4> QED
        BY <3>1, <3>2, <4>1, OneOrgArrives
    <3> QED
      BY <3>3, <3>4
  <2>2. CASE CreateOrg(h, c)
    <3>1. /\ Start(h, "org", c, c, NoOrg, "none", NoToken) /\ PrimaryOrgs(c) = {}
          /\ UNCHANGED active /\ raced \subseteq raced'
          /\ c \notin raced' => \A g \in Handlers : job[g].at \in Joining => job[g].user # c
      BY <2>2 DEF CreateOrg, BeginOrg, members
    <3> QED
      BY <3>1, OneOrgArrives
  <2>3. ASSUME NEW at, at \notin Joining, NEW u, NEW o, NEW r, NEW k,
               Start(h, at, c, u, o, r, k), UNCHANGED <<active, raced>>
        PROVE  OneOrgInv'
    BY <2>3, OneOrgArrives
  <2>4. ASSUME NEW r, SendInvite(h, c, r)
        PROVE  OneOrgInv'
    BY <2>3, <2>4 DEF SendInvite, members, history, Joining
  <2>5. ASSUME NEW u, RemoveMember(h, c, u)
        PROVE  OneOrgInv'
    BY <2>3, <2>5 DEF RemoveMember, members, history, Joining
  <2>6. ASSUME NEW u, NEW r, UpdateMemberRole(h, c, u, r) \/ InviteMember(h, c, u, r)
        PROVE  OneOrgInv'
    BY <2>3, <2>6 DEF UpdateMemberRole, InviteMember, members, history, Joining
  <2> QED
    BY <1>2, <2>1, <2>2, <2>4, <2>5, <2>6 DEF Arrival
<1>3. ASSUME UNCHANGED <<active, raced>>, job' \in {job, [h \in Handlers |-> Idle]}
      PROVE  OneOrgInv'
  <2>1. \A h \in Handlers : job'[h] \in {job[h], Idle}
    BY <1>3
  <2>2. Idle.at \notin Joining
    BY DEF Idle, Joining
  <2> QED
    BY <1>3, <2>1, <2>2 DEF OneOrgInv, OneActiveOrg, PrimaryOrgs
<1>5. CASE \E k \in Tokens : Expire(k)
  BY <1>3, <1>5 DEF Expire, members, history
<1>6. CASE Restart
  BY <1>3, <1>6 DEF Restart, members
<1>7. CASE UNCHANGED vars
  BY <1>3, <1>7 DEF vars
<1> QED
  BY <1>1, <1>2, <1>5, <1>6, <1>7 DEF Next

(* What has been found of a user's organizations stays true until the row is
   inserted, unless the user asked for an organization meanwhile. *)
LEMMA OneOrgInductive == Spec => []OneOrgInv
<1>1. Init => OneOrgInv
  BY DEF Init, OneOrgInv, OneActiveOrg, Idle, Joining
<1>2. TypeOK /\ OrgsInv /\ OneOrgInv /\ [Next]_vars => OneOrgInv'
  BY OneOrgStep
<1> QED
  BY <1>1, <1>2, OrgsInductive, PTL DEF Spec

(* Users are active in one organization at most, whatever overlaps, but for those
   who asked for one while another request was making them a member. *)
THEOREM OneOrgPerUser == Spec => []OneActiveOrg
<1>1. OneOrgInv => OneActiveOrg
  BY DEF OneOrgInv
<1> QED
  BY <1>1, OneOrgInductive, PTL

-----------------------------------------------------------------------------
(* Links that admit once *)

(* Of two registrations that have found the same link open, one has ended; a link
   somebody has joined by is closed, or about to be. *)
Spent(k) == invite[k] # NoInvite /\ ~invite[k].open
Marking(h, k) == job[h].at = "mark" /\ job[h].token = k
Once(k) == \E u \in Users : joined[k] = {u}
LinkOK(k) ==
    /\ joined[k] = {} \/ (Once(k) /\ (Spent(k) \/ \E h \in Handlers : Marking(h, k)))
    /\ \A g, h \in Handlers : Using(g, k) /\ Using(h, k) => g = h
    /\ \A h \in Handlers : Using(h, k) /\ job[h].at = "join" => joined[k] = {}
LinkInv == \A k \in Tokens \ leaky : LinkOK(k)

(* Nobody joins, links close or are new, and no request uses a link that did not. *)
LEMMA LinkStable ==
    ASSUME TypeOK, LinkInv, joined' = joined, leaky \subseteq leaky',
           \A k \in Tokens : Spent(k) => Spent(k)',
           \A h \in Handlers : job'[h].at \in {"join", "mark"} => job'[h] = job[h],
           \A h \in Handlers, k \in Tokens :
               Marking(h, k) => job'[h] = job[h] \/ k \in leaky' \/ Spent(k)'
    PROVE  LinkInv'
<1> SUFFICES ASSUME NEW k \in Tokens, k \notin leaky'
             PROVE  LinkOK(k)'
  BY DEF LinkInv
<1>1. LinkOK(k)
  BY DEF LinkInv
<1>2. \A h \in Handlers : Using(h, k)' => Using(h, k) /\ job'[h] = job[h]
  BY DEF Using
<1>3. Once(k) => Once(k)'
  BY DEF Once
<1>4. ASSUME NEW h \in Handlers, Marking(h, k)
      PROVE  Spent(k)' \/ Marking(h, k)'
  <2>1. job'[h] = job[h] \/ Spent(k)'
    BY <1>4
  <2> QED
    BY <1>4, <2>1 DEF Marking
<1>5. joined'[k] = {} \/ (Once(k)' /\ (Spent(k)' \/ \E h \in Handlers : Marking(h, k)'))
  BY <1>1, <1>3, <1>4 DEF LinkOK
<1>6. \A h \in Handlers : Using(h, k)' /\ job'[h].at = "join" => joined'[k] = {}
  BY <1>1, <1>2 DEF LinkOK
<1> QED
  BY <1>1, <1>2, <1>5, <1>6 DEF LinkOK

(* The request of h does not go on to use a link; when it was to mark one, the link
   is closed or known to leak. *)
LEMMA LinkLeft ==
    ASSUME TypeOK, LinkInv, joined' = joined, leaky \subseteq leaky',
           \A k \in Tokens : Spent(k) => Spent(k)',
           NEW h \in Handlers, NEW j, job' = [job EXCEPT ![h] = j],
           j.at \notin {"join", "mark"},
           NEW t, job[h].at = "mark" => job[h].token = t /\ (t \in leaky' \/ Spent(t)')
    PROVE  LinkInv'
<1>1. \A g \in Handlers : job'[g] = IF g = h THEN j ELSE job[g]
  BY DEF TypeOK
<1>2. \A g \in Handlers : job'[g].at \in {"join", "mark"} => job'[g] = job[g]
  BY <1>1
<1>3. ASSUME NEW g \in Handlers, NEW k \in Tokens, Marking(g, k)
      PROVE  job'[g] = job[g] \/ k \in leaky' \/ Spent(k)'
  <2>1. CASE g = h
    <3>1. job[h].at = "mark" /\ job[h].token = k
      BY <1>3, <2>1 DEF Marking
    <3>2. t = k /\ (t \in leaky' \/ Spent(t)')
      BY <3>1
    <3> QED
      BY <3>2
  <2>2. CASE g # h
    BY <1>1, <2>2
  <2> QED
    BY <2>1, <2>2
<1> QED
  BY <1>2, <1>3, LinkStable

(* A link that is closed stays one. *)
LEMMA LinkCloses ==
    ASSUME TypeOK, NEW k \in Tokens, invite[k] # NoInvite,
           invite' = [invite EXCEPT ![k].open = FALSE]
    PROVE  Spent(k)' /\ \A q \in Tokens : Spent(q) => Spent(q)'
<1>1. invite[k] \in [org: OrgIds, role: Assignable, open: BOOLEAN]
  BY DEF TypeOK
<1>2. /\ [invite[k] EXCEPT !.open = FALSE] \in [org: OrgIds, role: Assignable, open: BOOLEAN]
      /\ [invite[k] EXCEPT !.open = FALSE].open = FALSE
  BY <1>1
<1>3. invite'[k] = [invite[k] EXCEPT !.open = FALSE]
      /\ \A q \in Tokens \ {k} : invite'[q] = invite[q]
  BY DEF TypeOK
<1> QED
  BY <1>2, <1>3, OrgsConstants DEF Spent

(* A registration finds its link open, or ends. *)
LEMMA LinkChecked ==
    ASSUME TypeOK, LinkInv, NEW h \in Handlers, CheckToken(h)
    PROVE  LinkInv'
<1>1. PICK k : k = job[h].token
  OBVIOUS
<1>2. /\ job[h] \in Requests /\ job[h].at = "token" /\ k \in Tokens
      /\ UNCHANGED <<joined, invite>>
  BY <1>1, HasRequest DEF CheckToken, Steps, Formed
<1>3. leaky \subseteq leaky'
  BY DEF CheckToken
<1>4. \A q \in Tokens : Spent(q) => Spent(q)'
  BY <1>2 DEF Spent
<1>5. CASE Answer(h)
  <2>1. job' = [job EXCEPT ![h] = Idle] /\ Idle.at \notin {"join", "mark"}
    BY <1>5 DEF Answer, Idle
  <2> QED
    BY <1>2, <1>3, <1>4, <2>1, LinkLeft
<1>6. CASE ~Answer(h)
  <2>1. PICK j : j = [job[h] EXCEPT !.at = "join", !.org = invite[k].org, !.role = invite[k].role]
    OBVIOUS
  <2>2. /\ invite[k] # NoInvite /\ invite[k].open /\ job' = [job EXCEPT ![h] = j]
        /\ leaky' = IF \E g \in Handlers : Using(g, k) THEN leaky \cup {k} ELSE leaky
    BY <1>1, <1>6, <2>1 DEF CheckToken, TypeOK
  <2>3. j.at = "join" /\ j.token = k
    BY <1>1, <1>2, <2>1 DEF Requests
  <2>4. \A g \in Handlers : job'[g] = IF g = h THEN j ELSE job[g]
    BY <2>2 DEF TypeOK
  <2> SUFFICES ASSUME NEW q \in Tokens, q \notin leaky'
               PROVE  LinkOK(q)'
    BY DEF LinkInv
  <2>5. LinkOK(q)
    BY <1>3 DEF LinkInv
  <2>6. \A g \in Handlers \ {h} : Using(g, q)' = Using(g, q) /\ Marking(g, q)' = Marking(g, q)
    BY <2>4 DEF Using, Marking
  <2>7. ~Marking(h, q) /\ ~Using(h, q)
    BY <1>2 DEF Marking, Using
  <2>8. Once(q)' = Once(q) /\ Spent(q)' = Spent(q) /\ joined'[q] = joined[q]
    BY <1>2 DEF Once, Spent
  <2>9. CASE q # k
    <3>1. ~Using(h, q)'
      BY <2>3, <2>4, <2>9 DEF Using
    <3>2. \A g \in Handlers : Using(g, q)' => g # h /\ Using(g, q) /\ job'[g] = job[g]
      BY <2>4, <2>6, <3>1
    <3>3. (\E g \in Handlers : Marking(g, q)) => \E g \in Handlers : Marking(g, q)'
      BY <2>6, <2>7
    <3> QED
      BY <2>5, <2>8, <3>2, <3>3 DEF LinkOK
  <2>10. CASE q = k
    <3>1. \A g \in Handlers : ~Using(g, q)
      BY <2>2, <2>10
    <3>2. \A g \in Handlers : ~Marking(g, q)
      BY <3>1 DEF Using, Marking
    <3>3. joined[q] = {}
      BY <2>2, <2>5, <2>10, <3>2 DEF LinkOK, Spent
    <3>4. \A g \in Handlers : Using(g, q)' => g = h
      BY <2>6, <3>1
    <3> QED
      BY <2>8, <3>3, <3>4 DEF LinkOK
  <2> QED
    BY <2>9, <2>10
<1> QED
  BY <1>5, <1>6

(* A registration joins, or ends. *)
LEMMA LinkJoined ==
    ASSUME TypeOK, LinkInv, NEW h \in Handlers, Join(h)
    PROVE  LinkInv'
<1>1. PICK k, u : k = job[h].token /\ u = job[h].user
  OBVIOUS
<1>2. /\ job[h] \in Requests /\ job[h].at = "join" /\ k \in Tokens /\ u \in Users
      /\ UNCHANGED <<invite, leaky>>
  BY <1>1, HasRequest DEF Join, Steps, Formed, Requests
<1>3. \A q \in Tokens : Spent(q)' = Spent(q)
  BY <1>2 DEF Spent
<1>4. CASE joined' = joined /\ Answer(h)
  <2>1. job' = [job EXCEPT ![h] = Idle] /\ Idle.at \notin {"join", "mark"}
    BY <1>4 DEF Answer, Idle
  <2> QED
    BY <1>2, <1>3, <1>4, <2>1, LinkLeft
<1>5. CASE joined' = [joined EXCEPT ![k] = @ \cup {u}] /\ Continue(h, "mark")
  <2>1. PICK j : j = [job[h] EXCEPT !.at = "mark"]
    OBVIOUS
  <2>2. j.at = "mark" /\ j.token = k
    BY <1>1, <1>2, <2>1 DEF Requests
  <2>3. \A g \in Handlers : job'[g] = IF g = h THEN j ELSE job[g]
    BY <1>5, <2>1 DEF Continue, TypeOK
  <2> SUFFICES ASSUME NEW q \in Tokens, q \notin leaky'
               PROVE  LinkOK(q)'
    BY DEF LinkInv
  <2>4. LinkOK(q)
    BY <1>2 DEF LinkInv
  <2>5. \A g \in Handlers \ {h} : Using(g, q)' = Using(g, q) /\ Marking(g, q)' = Marking(g, q)
    BY <2>3 DEF Using, Marking
  <2>6. joined'[q] = IF q = k THEN joined[q] \cup {u} ELSE joined[q]
    BY <1>5 DEF TypeOK, HistoryOK
  <2>7. CASE q # k
    <3>1. ~Using(h, q)' /\ ~Marking(h, q) /\ joined'[q] = joined[q]
      BY <1>1, <1>2, <2>2, <2>3, <2>6, <2>7 DEF Using, Marking
    <3>2. \A g \in Handlers : Using(g, q)' => g # h /\ Using(g, q) /\ job'[g] = job[g]
      BY <2>3, <2>5, <3>1
    <3>3. (\E g \in Handlers : Marking(g, q)) => \E g \in Handlers : Marking(g, q)'
      BY <2>5, <3>1
    <3>4. Once(q)' = Once(q)
      BY <3>1 DEF Once
    <3> QED
      BY <1>3, <2>4, <3>1, <3>2, <3>3, <3>4 DEF LinkOK
  <2>8. CASE q = k
    <3>1. Using(h, q) /\ Marking(h, q)'
      BY <1>1, <1>2, <2>2, <2>3, <2>8 DEF Using, Marking
    <3>2. joined[q] = {}
      BY <1>2, <2>4, <3>1 DEF LinkOK
    <3>3. joined'[q] = {u}
      BY <2>6, <2>8, <3>2
    <3>4. Once(q)'
      BY <1>2, <3>3 DEF Once
    <3>5. \A g \in Handlers : Using(g, q)' => g = h
      BY <2>4, <2>5, <3>1 DEF LinkOK
    <3>6. job'[h].at # "join"
      BY <2>2, <2>3
    <3> QED
      BY <3>1, <3>4, <3>5, <3>6 DEF LinkOK
  <2> QED
    BY <2>7, <2>8
<1> QED
  BY <1>1, <1>4, <1>5 DEF Join

(* The link is marked, or known to leak. *)
LEMMA LinkMarked ==
    ASSUME TypeOK, OrgsInv, LinkInv, NEW h \in Handlers, MarkUsed(h)
    PROVE  LinkInv'
<1>1. PICK k : k = job[h].token
  OBVIOUS
<1>2. /\ job[h].at = "mark" /\ k \in Tokens /\ invite[k] # NoInvite /\ joined' = joined
      /\ job' = [job EXCEPT ![h] = Idle] /\ Idle.at \notin {"join", "mark"}
  BY <1>1, HasRequest DEF MarkUsed, Steps, Formed, OrgsInv, Answer, Idle
<1>3. CASE invite' = [invite EXCEPT ![k].open = FALSE] /\ UNCHANGED leaky
  <2>1. Spent(k)' /\ \A q \in Tokens : Spent(q) => Spent(q)'
    BY <1>2, <1>3, LinkCloses
  <2> QED
    BY <1>1, <1>2, <1>3, <2>1, LinkLeft
<1>4. CASE leaky' = leaky \cup {k} /\ UNCHANGED invite
  <2>1. \A q \in Tokens : Spent(q) => Spent(q)'
    BY <1>4 DEF Spent
  <2> QED
    BY <1>1, <1>2, <1>4, <2>1, LinkLeft
<1> QED
  BY <1>1, <1>3, <1>4 DEF MarkUsed

LEMMA LinkStep ==
    ASSUME TypeOK, OrgsInv, LinkInv, [Next]_vars
    PROVE  LinkInv'
<1>1. ASSUME NEW h \in Handlers, NEW j, job' = [job EXCEPT ![h] = j],
             j.at \notin {"join", "mark"}, job[h].at # "mark", joined' = joined, leaky' = leaky,
             \A k \in Tokens : Spent(k) => Spent(k)'
      PROVE  LinkInv'
  BY <1>1, LinkLeft
<1>2. ASSUME UNCHANGED invite
      PROVE  \A k \in Tokens : Spent(k) => Spent(k)'
  BY <1>2 DEF Spent
<1>3. ASSUME NEW h \in Handlers, Answer(h), job[h].at # "mark", UNCHANGED <<history, invite>>
      PROVE  LinkInv'
  <2>1. job' = [job EXCEPT ![h] = Idle] /\ Idle.at \notin {"join", "mark"}
    BY <1>3 DEF Answer, Idle
  <2> QED
    BY <1>1, <1>2, <1>3, <2>1 DEF history
<1>4. ASSUME NEW h \in Handlers, NEW ok, NEW at \in {"target", "setrole", "delete", "remover"},
             job[h].at \in Steps \ {"mark"}, ContinueIf(h, ok, at), UNCHANGED <<history, invite>>
      PROVE  LinkInv'
  <2>1. CASE Answer(h)
    BY <1>3, <1>4, <2>1
  <2>2. CASE Continue(h, at)
    <3>1. job' = [job EXCEPT ![h] = [job[h] EXCEPT !.at = at]]
      BY <2>2 DEF Continue, TypeOK
    <3>2. job[h] \in Requests
      BY <1>4, HasRequest
    <3>3. [job[h] EXCEPT !.at = at].at \notin {"join", "mark"}
      BY <1>4, <3>2 DEF Requests
    <3> QED
      BY <1>1, <1>2, <1>4, <3>1, <3>3 DEF history
  <2> QED
    BY <1>4, <2>1, <2>2 DEF ContinueIf
<1>5. ASSUME NEW h \in Handlers, Statement(h)
      PROVE  LinkInv'
  <2>1. CASE CheckToken(h)
    BY <2>1, LinkChecked
  <2>2. CASE Join(h)
    BY <2>2, LinkJoined
  <2>3. CASE MarkUsed(h)
    BY <2>3, LinkMarked
  <2>4. CASE InsertOwner(h) \/ InsertInvited(h) \/ UpdateOrgMemberRole(h) \/ DeleteOrgMember(h)
    BY <1>3, <2>4 DEF InsertOwner, InsertInvited, UpdateOrgMemberRole, DeleteOrgMember
  <2>5. ASSUME NEW o \in OrgIds, InsertOrganization(h, o) PROVE LinkInv'
    <3>1. job[h] \in Requests
      BY <2>5, HasRequest DEF InsertOrganization, Steps
    <3>2. [job[h] EXCEPT !.at = "owner", !.org = o].at = "owner"
      BY <3>1 DEF Requests
    <3>3. job' = [job EXCEPT ![h] = [job[h] EXCEPT !.at = "owner", !.org = o]]
      BY <2>5 DEF InsertOrganization, TypeOK
    <3>4. job[h].at # "mark" /\ UNCHANGED <<history, invite>>
      BY <2>5 DEF InsertOrganization
    <3> QED
      BY <1>1, <1>2, <3>2, <3>3, <3>4 DEF history
  <2>6. ASSUME NEW k \in Tokens, InsertInviteToken(h, k) PROVE LinkInv'
    <3>1. /\ job' = [job EXCEPT ![h] = Idle] /\ Idle.at \notin {"join", "mark"}
          /\ job[h].at # "mark" /\ invite[k] = NoInvite /\ UNCHANGED history
      BY <2>6 DEF InsertInviteToken, Answer, Idle
    <3>2. \A q \in Tokens : q # k => invite'[q] = invite[q]
      BY <2>6 DEF InsertInviteToken, TypeOK
    <3>3. \A q \in Tokens : Spent(q) => Spent(q)'
      BY <3>1, <3>2 DEF Spent
    <3> QED
      BY <1>1, <3>1, <3>3 DEF history
  <2>7. CASE CheckCaller(h)
    <3>1. job[h].at \in Steps \ {"mark"} /\ UNCHANGED <<history, invite>>
      BY <2>7 DEF CheckCaller, Steps
    <3>2. PICK ok : ContinueIf(h, ok, "target")
      BY <2>7 DEF CheckCaller
    <3> QED
      BY <1>4, <3>1, <3>2
  <2>8. CASE CheckTarget(h)
    <3>1. job[h].at \in Steps \ {"mark"} /\ UNCHANGED <<history, invite>>
      BY <2>8 DEF CheckTarget, Steps
    <3>2. PICK ok : ContinueIf(h, ok, "setrole")
      BY <2>8 DEF CheckTarget
    <3> QED
      BY <1>4, <3>1, <3>2
  <2>9. CASE CheckRemoved(h)
    <3>1. job[h].at \in Steps \ {"mark"} /\ UNCHANGED <<history, invite>>
      BY <2>9 DEF CheckRemoved, Steps
    <3>2. PICK ok : ContinueIf(h, ok, "delete") \/ ContinueIf(h, ok, "remover")
      BY <2>9 DEF CheckRemoved
    <3> QED
      BY <1>4, <3>1, <3>2
  <2>10. CASE CheckRemover(h)
    <3>1. job[h].at \in Steps \ {"mark"} /\ UNCHANGED <<history, invite>>
      BY <2>10 DEF CheckRemover, Steps
    <3>2. PICK ok : ContinueIf(h, ok, "delete")
      BY <2>10 DEF CheckRemover
    <3> QED
      BY <1>4, <3>1, <3>2
  <2>11. CASE Fail(h)
    <3>1. /\ job' = [job EXCEPT ![h] = Idle] /\ Idle.at \notin {"join", "mark"}
          /\ joined' = joined /\ UNCHANGED invite /\ leaky \subseteq leaky'
          /\ job[h].at = "mark" => job[h].token \in leaky'
      BY <2>11 DEF Fail, Answer, Idle
    <3> QED
      BY <1>2, <3>1, LinkLeft
  <2> QED
    BY <1>5, <2>1, <2>2, <2>3, <2>4, <2>5, <2>6, <2>7, <2>8, <2>9, <2>10, <2>11 DEF Statement
<1>6. ASSUME UNCHANGED <<joined, leaky, job>>, \A k \in Tokens : Spent(k) => Spent(k)'
      PROVE  LinkInv'
  BY <1>6, LinkStable
<1>7. ASSUME NEW h \in Handlers, NEW c \in Users, Arrival(h, c) PROVE LinkInv'
  <2>1. joined' = joined /\ leaky' = leaky /\ invite' = invite
    BY <1>7 DEF Arrival, Register, CreateOrg, BeginOrg, SendInvite, RemoveMember,
                UpdateMemberRole, InviteMember, history
  <2>2. CASE job' = job
    BY <1>2, <1>6, <2>1, <2>2
  <2>3. CASE job' # job
    <3>1. PICK at, u, o, r, k : /\ at \in {"token", "org", "send", "remove", "caller", "invite"}
                                /\ Start(h, at, c, u, o, r, k)
      BY <1>7, <2>3 DEF Arrival, Register, CreateOrg, BeginOrg, SendInvite, RemoveMember,
                        UpdateMemberRole, InviteMember
    <3>2. PICK j : /\ j = [at |-> at, caller |-> c, user |-> u, org |-> o, role |-> r, token |-> k]
                   /\ job' = [job EXCEPT ![h] = j]
      BY <3>1 DEF Start
    <3>3. j.at \notin {"join", "mark"} /\ job[h].at # "mark"
      BY <3>1, <3>2 DEF Start, Idle
    <3> QED
      BY <1>1, <1>2, <2>1, <3>2, <3>3
  <2> QED
    BY <2>2, <2>3
<1>8. ASSUME NEW k \in Tokens, Expire(k) PROVE LinkInv'
  <2>1. UNCHANGED <<joined, leaky, job>>
    BY <1>8 DEF Expire, history
  <2>2. \A q \in Tokens : Spent(q) => Spent(q)'
    BY <1>8, LinkCloses DEF Expire
  <2> QED
    BY <1>6, <2>1, <2>2
<1>9. CASE Restart
  <2>1. Idle.at \notin {"join", "mark"}
    BY DEF Idle
  <2>2. /\ joined' = joined /\ UNCHANGED invite /\ leaky \subseteq leaky'
        /\ \A h \in Handlers : job'[h] = Idle
        /\ \A h \in Handlers, k \in Tokens : Marking(h, k) => k \in leaky'
    BY <1>9 DEF Restart, Marking
  <2>3. \A h \in Handlers : job'[h].at \in {"join", "mark"} => job'[h] = job[h]
    BY <2>1, <2>2
  <2> QED
    BY <1>2, <2>2, <2>3, LinkStable
<1>10. CASE UNCHANGED vars
  BY <1>2, <1>6, <1>10 DEF vars
<1> QED
  BY <1>5, <1>7, <1>8, <1>9, <1>10 DEF Next

(* API_DOCS.md:310: a "one-time invite-link token".  One person joins by a link,
   whatever expires, fails or overlaps elsewhere, unless a registration found it
   open while another was using it or one that had joined did not mark it. *)
THEOREM LinksAdmitOnce == Spec => []JoinsOnce
<1>1. Init => LinkInv
  BY DEF Init, LinkInv, LinkOK, Using, Idle
<1>2. TypeOK /\ OrgsInv /\ LinkInv /\ [Next]_vars => LinkInv'
  BY LinkStep
<1>3. LinkInv => JoinsOnce
  <2>1. ASSUME LinkInv, NEW k \in Tokens \ leaky PROVE Cardinality(joined[k]) <= 1
    <3>1. CASE joined[k] = {}
      BY <3>1, FS_EmptySet
    <3>2. CASE joined[k] # {}
      <4>1. PICK u \in Users : joined[k] = {u}
        BY <2>1, <3>2 DEF LinkInv, LinkOK, Once
      <4>2. Cardinality({u}) = 1
        BY FS_Singleton
      <4> QED
        BY <4>1, <4>2
    <3> QED
      BY <3>1, <3>2
  <2> QED
    BY <2>1 DEF JoinsOnce
<1> QED
  BY <1>1, <1>2, <1>3, OrgsInductive, PTL DEF Spec

=============================================================================
