---------------------------- MODULE AccountProofs ----------------------------
(***************************************************************************)
(* Theorems about the accounts, for every set of users, roles, links,      *)
(* sessions and requests.  The invariant AccountInv says of each request   *)
(* what its reads established and nobody else takes back; Rely is what a   *)
(* step of one request may do to what the others know.                     *)
(***************************************************************************)
EXTENDS Accounts, FiniteSetTheorems, TLAPS

\* The statements after the link was used up.
AfterUse == {"invited", "createUser", "grant", "accept", "session"}

HasSubject(q) ==
  /\ ~At(q, "idle") => req[q].of \in User
  /\ req[q].pc \in {"assign", "delete"} => req[q].role \in Role
  /\ At(q, "countRoles") => req[q].role \in Role \/ req[q].status = "active"
  /\ At(q, "countAdmins")
     => req[q].role \in Role \/ req[q].status = "deactivated"
  /\ At(q, "revokeAll") => req[q].status = "deactivated"
  /\ req[q].pc \in {"update", "decide"} => req[q].status # "none"
  /\ At(q, "countRoles") => req[q].status # "deactivated"
  /\ At(q, "delete") => req[q].status = "none"

\* Who has used a link up holds it alone, and no session has it.
HoldsLink(q) ==
  /\ req[q].pc \in {"consume", "count"} \cup AfterUse =>
       req[q].link \in Link /\ link[req[q].link].status # "none"
  /\ req[q].pc \in AfterUse =>
       /\ link[req[q].link].status = "used"
       /\ \A s \in Session : session[s].link # req[q].link

HoldsInvitation(q) ==
  /\ req[q].pc \in {"createUser", "grant", "accept"} =>
       /\ req[q].invitation \in Invitation
       /\ invitation[req[q].invitation].email = req[q].of
       /\ ~invitation[req[q].invitation].status = "none"
  /\ At(q, "createUser") =>
       /\ req[q].todo = invitation[req[q].invitation].roles
       /\ invitation[req[q].invitation].status = "revoked" => req[q].overtaken
  /\ req[q].pc \in {"grant", "accept"} =>
       /\ creator[req[q].of] = req[q].invitation
       /\ \A r \in invitation[req[q].invitation].roles :
            \/ r \in user[req[q].of].roles \cup removed[req[q].of]
            \/ At(q, "grant") /\ r \in req[q].todo

\* What an administrator's request has seen still holds unless it is stale.
AnotherSuperAdmin(u) == \E v \in SuperAdmins : v # u
HasSeen(q) == ~req[q].stale =>
  /\ req[q].pc \in {"revokeAll", "update"} /\ req[q].status = "deactivated"
     => ~IsSuperAdmin(req[q].of) \/ AnotherSuperAdmin(req[q].of)
  /\ /\ req[q].pc \in {"countRoles", "delete"} /\ req[q].status = "none"
     /\ req[q].role = "super_admin"
     => AnotherSuperAdmin(req[q].of)
  /\ At(q, "delete") => \E r \in user[req[q].of].roles : r # req[q].role
  /\ At(q, "update") /\ req[q].status = "active"
     => Active(req[q].of) \/ user[req[q].of].roles # {}
  /\ At(q, "decide")
     => /\ user[req[q].of].status = "pending_approval"
        /\ req[q].status = "active" => user[req[q].of].roles # {}

RequestOK(q) ==
  HasSubject(q) /\ HoldsLink(q) /\ HoldsInvitation(q) /\ HasSeen(q)

LinksApart ==
  \A p, q \in Request :
    p # q /\ req[p].pc \in AfterUse /\ req[q].pc \in AfterUse
    => req[p].link # req[q].link

SessionsOK ==
  \A s \in Session : session[s] # NoSession =>
    /\ session[s].link \in Link
    /\ link[session[s].link].status = "used"
    /\ \A t \in Session \ {s} : session[t].link # session[s].link

CreatorOK ==
  \A u \in User : creator[u] # None =>
    /\ Exists(u)
    /\ invitation[creator[u]].email = u
    /\ ~invitation[creator[u]].status = "none"

Addressed ==
  /\ \A l \in Link : link[l].status # "none" => link[l].email \in User
  /\ \A i \in Invitation :
       invitation[i].status # "none" => invitation[i].email \in User

StoreOK ==
  LinksApart /\ SessionsOK /\ CreatorOK /\ Addressed /\ AcceptanceIsWhole

AccountInv ==
  AccountTypeOK /\ StoreOK /\ \A q \in Request : RequestOK(q)

SameRequest(p) ==
  /\ req'[p].pc = req[p].pc /\ req'[p].of = req[p].of
  /\ req'[p].link = req[p].link /\ req'[p].invitation = req[p].invitation
  /\ req'[p].todo = req[p].todo /\ req'[p].role = req[p].role
  /\ req'[p].status = req[p].status
  /\ req[p].stale => req'[p].stale
  /\ req[p].overtaken => req'[p].overtaken

\* What a step of the requests in S leaves to the other requests.
Rely(S) ==
  /\ \A p \in Request \ S :
       /\ SameRequest(p)
       /\ user' = user \/ req[p].pc \notin AdminPC \/ req'[p].stale
       /\ \A i \in Invitation :
            /\ invitation'[i].status = "revoked"
            /\ invitation[i].status # "revoked"
            => (req[p].invitation = i => req'[p].overtaken)
  /\ \A l \in Link :
       /\ link[l].status # "none" => link'[l].status # "none"
       /\ link[l].status = "used" => link'[l].status = "used"
  /\ \A s \in Session :
       \/ session'[s].link = session[s].link
       \/ \E q \in S : At(q, "session") /\ session'[s].link = req[q].link
  /\ \A i \in Invitation : invitation[i].status # "none" =>
       /\ invitation'[i].status # "none"
       /\ invitation'[i].email = invitation[i].email
       /\ invitation'[i].roles = invitation[i].roles
  /\ \A u \in User :
       /\ Exists(u) => Exists(u)'
       /\ creator[u] # None => creator'[u] = creator[u]
       /\ Exists(u) => user[u].roles \subseteq user'[u].roles \cup removed'[u]
       /\ removed[u] \subseteq removed'[u]

USE AccountAssumption

\* A step that keeps to Rely takes nothing from the other requests.
LEMMA OtherRequests ==
  ASSUME AccountInv, AccountTypeOK', NEW S \in SUBSET Request, Rely(S),
         NEW p \in Request \ S
  PROVE  RequestOK(p)'
<1>0. /\ RequestOK(p) /\ req[p] \in RequestState /\ req'[p] \in RequestState
      /\ SameRequest(p)
  BY DEF AccountInv, AccountTypeOK, Rely
<1>1. HasSubject(p)'
  BY <1>0 DEF RequestOK, HasSubject, SameRequest, At
<1>2. HoldsLink(p)'
  <2>1. ASSUME req'[p].pc \in AfterUse, NEW s \in Session
        PROVE  session'[s].link # req'[p].link
    <3>1. CASE session'[s].link = session[s].link
      BY <1>0, <2>1, <3>1 DEF RequestOK, HoldsLink, SameRequest
    <3>2. CASE \E q \in S : At(q, "session") /\ session'[s].link = req[q].link
      BY <1>0, <2>1, <3>2
         DEF AccountInv, StoreOK, LinksApart, SameRequest, AfterUse, At
    <3> QED BY <3>1, <3>2 DEF Rely
  <2>2. ASSUME req'[p].pc \in {"consume", "count"} \cup AfterUse
        PROVE  req'[p].link \in Link /\ link'[req'[p].link].status # "none"
    <3>1. /\ req'[p].link = req[p].link /\ req[p].link \in Link
          /\ link[req[p].link].status # "none"
      BY <1>0, <2>2 DEF RequestOK, HoldsLink, SameRequest
    <3> QED BY <3>1 DEF Rely
  <2>3. ASSUME req'[p].pc \in AfterUse
        PROVE  link'[req'[p].link].status = "used"
    <3>1. /\ req'[p].link = req[p].link /\ req[p].link \in Link
          /\ link[req[p].link].status = "used"
      BY <1>0, <2>3 DEF RequestOK, HoldsLink, SameRequest
    <3> QED BY <3>1 DEF Rely
  <2> QED BY <2>1, <2>2, <2>3 DEF HoldsLink
<1>3. HoldsInvitation(p)'
  <2> DEFINE i == req[p].invitation
             u == req[p].of
  <2>1. CASE req[p].pc \in {"createUser", "grant", "accept"}
    <3>1. /\ i \in Invitation /\ u \in User
          /\ invitation[i].email = u /\ invitation[i].status # "none"
      BY <1>0, <2>1 DEF RequestOK, HoldsInvitation, HasSubject, At
    <3>2. /\ invitation'[i].email = u /\ invitation'[i].status # "none"
          /\ invitation'[i].roles = invitation[i].roles
      BY <3>1 DEF Rely
    <3>3. CASE At(p, "createUser")
      <4>1. invitation'[i].status = "revoked" => req'[p].overtaken
        BY <1>0, <3>1, <3>3
           DEF Rely, RequestOK, HoldsInvitation, SameRequest
      <4> QED BY <1>0, <3>1, <3>2, <3>3, <4>1
                 DEF RequestOK, HoldsInvitation, SameRequest, At
    <3>4. CASE ~At(p, "createUser")
      <4>1. /\ creator[u] = i /\ creator[u] # None
            /\ \A r \in invitation[i].roles :
                 \/ r \in user[u].roles \cup removed[u]
                 \/ At(p, "grant") /\ r \in req[p].todo
        BY <1>0, <2>1, <3>1, <3>4 DEF RequestOK, HoldsInvitation, At
      <4>2. creator'[u] = i
        BY <3>1, <4>1 DEF Rely
      <4>3. user[u].roles \cup removed[u] \subseteq user'[u].roles \cup removed'[u]
        BY <3>1, <4>1 DEF Rely, AccountInv, StoreOK, CreatorOK
      <4> QED BY <1>0, <3>1, <3>2, <3>4, <4>1, <4>2, <4>3
                 DEF HoldsInvitation, SameRequest, At
    <3> QED BY <3>3, <3>4
  <2>2. CASE req[p].pc \notin {"createUser", "grant", "accept"}
    BY <1>0, <2>2 DEF HoldsInvitation, SameRequest, At
  <2> QED BY <2>1, <2>2
<1>4. HasSeen(p)'
  <2>1. CASE req'[p].stale
    BY <2>1 DEF HasSeen
  <2>2. CASE ~req'[p].stale /\ req[p].pc \notin AdminPC
    BY <1>0, <2>2 DEF HasSeen, SameRequest, AdminPC, At
  <2>3. CASE ~req'[p].stale /\ user' = user
    BY <1>0, <2>3 DEF RequestOK, HasSeen, SameRequest, AnotherSuperAdmin,
                      SuperAdmins, IsSuperAdmin, Active, At
  <2> QED BY <2>1, <2>2, <2>3 DEF Rely
<1> QED BY <1>1, <1>2, <1>3, <1>4 DEF RequestOK

LEMMA OneRequest ==
  ASSUME AccountInv, AccountTypeOK', NEW q \in Request, Rely({q}),
         RequestOK(q)', StoreOK'
  PROVE  AccountInv'
BY OtherRequests DEF AccountInv

\* The request in slot q moves on and the tables stay as they are.
RunsAcceptance(r) == r.pc \in {"grant", "accept"}
LEMMA RequestMoves ==
  ASSUME AccountInv, NEW q \in Request, NEW r \in RequestState,
         req' = [req EXCEPT ![q] = r],
         UNCHANGED <<user, signVars, creator, removed>>,
         cut' \in SUBSET Invitation, cut \subseteq cut',
         r.pc \in AfterUse => req[q].pc \in AfterUse /\ r.link = req[q].link,
         RunsAcceptance(req[q]) =>
           \/ RunsAcceptance(r) /\ r.invitation = req[q].invitation
           \/ req[q].invitation \in cut',
         RequestOK(q)'
  PROVE  AccountInv'
<1>1. AccountTypeOK' /\ req'[q] = r /\ \A p \in Request \ {q} : req'[p] = req[p]
  BY DEF AccountInv, AccountTypeOK, signVars
<1>2. Rely({q})
  BY <1>1 DEF Rely, SameRequest, signVars, Exists
<1>3. LinksApart'
  BY <1>1 DEF AccountInv, StoreOK, LinksApart
<1>4. SessionsOK' /\ CreatorOK' /\ Addressed'
  BY DEF AccountInv, StoreOK, SessionsOK, CreatorOK, Addressed, signVars, Exists
<1>5. AcceptanceIsWhole'
  <2>1. ASSUME NEW u \in User, creator[u] # None, creator[u] \notin cut',
               ~ (\E p \in Request : /\ req'[p].invitation = creator[u]
                                     /\ req'[p].pc \in {"grant", "accept"})
        PROVE  ~ (\E p \in Request : /\ req[p].invitation = creator[u]
                                     /\ req[p].pc \in {"grant", "accept"})
    BY <1>1, <2>1 DEF RunsAcceptance
  <2> QED BY <2>1 DEF AccountInv, StoreOK, AcceptanceIsWhole, signVars, Pending
<1> QED BY <1>1, <1>2, <1>3, <1>4, <1>5, OneRequest DEF StoreOK

LEMMA IdleIsOK ==
  Idle \in RequestState /\ \A q \in Request : req'[q] = Idle => RequestOK(q)'
BY DEF Idle, RequestState, OrNone, RequestOK, HasSubject, HoldsLink, AfterUse,
       HoldsInvitation, HasSeen, At

\* A request that arrives knows what it was given.
LEMMA Beginnings ==
  ASSUME AccountInv, NEW q \in Request, Arrival(q)
  PROVE  AccountInv'
<1> USE DEF AccountInv, AccountTypeOK, OrNone
<1>0. Idle \in RequestState
  BY IdleIsOK
<1>1. ASSUME NEW r \in RequestState, Begin(q, r), RequestOK(q)',
             r.pc \notin AfterUse
      PROVE  AccountInv'
  BY <1>1, RequestMoves DEF Begin, history, RunsAcceptance, At
<1>2. ASSUME NEW r \in RequestState, Begin(q, r), r.of \in User,
             \/ r.pc \in {"createLink", "checkInvited", "void", "findRole"}
             \/ r.pc = "countAdmins" /\ r.status = "deactivated"
      PROVE  AccountInv'
  <2>1. req'[q] = r
    BY <1>2 DEF Begin
  <2>2. RequestOK(q)'
    BY <1>2, <2>1 DEF RequestOK, HasSubject, HoldsLink, AfterUse,
                      HoldsInvitation, HasSeen, At
  <2> QED BY <1>1, <1>2, <2>2 DEF AfterUse
<1>3. ASSUME NEW e \in User, RequestLink(q, e)
      PROVE  AccountInv'
  <2> DEFINE r == [Idle EXCEPT !.pc = "createLink", !.of = e,
                               !.known = Exists(e)]
  <2>1. r \in RequestState /\ r.of \in User /\ r.pc = "createLink"
    BY <1>0 DEF Idle, RequestState, SignInPC, Exists
  <2> QED BY <1>2, <1>3, <2>1 DEF RequestLink
<1>4. ASSUME NEW l \in Link, NEW pc \in {"consume", "count"},
             link[l].status = "live", BeginVerify(q, l, pc)
      PROVE  AccountInv'
  <2> DEFINE r == [Idle EXCEPT !.pc = pc, !.of = link[l].email, !.link = l,
                               !.known = link[l].known]
  <2>1. r \in RequestState
    BY <1>0 DEF Idle, RequestState, SignInPC, LinkState
  <2>2. Begin(q, r) /\ req'[q] = r
    BY <1>4 DEF BeginVerify, Begin
  <2>3. link'[l] = link[l] /\ link'[l].email \in User
    BY <1>4, <2>2 DEF Begin, signVars, StoreOK, Addressed
  <2>4. RequestOK(q)'
    BY <1>4, <2>2, <2>3 DEF RequestOK, HasSubject, HoldsLink, AfterUse,
                            HoldsInvitation, HasSeen, At
  <2>5. r.pc \notin AfterUse
    BY DEF AfterUse, Idle
  <2> QED BY <1>1, <2>1, <2>2, <2>4, <2>5
<1>5. ASSUME NEW l \in Link, OpenLink(q, l)
      PROVE  AccountInv'
  BY <1>4, <1>5 DEF OpenLink
<1>6. ASSUME NEW e \in User, NEW l \in Link, NEW right \in BOOLEAN,
             EnterCode(q, e, l, right)
      PROVE  AccountInv'
  BY <1>4, <1>6 DEF EnterCode, Newest
<1>7. ASSUME NEW a \in User, NEW e \in User, NEW roles \in SUBSET Role,
             Invite(q, a, e, roles)
      PROVE  AccountInv'
  <2> DEFINE r == [Idle EXCEPT !.pc = "checkInvited", !.of = e, !.todo = roles]
  <2>1. r \in RequestState /\ r.of \in User /\ r.pc = "checkInvited"
    BY <1>0 DEF Idle, RequestState, SignInPC
  <2> QED BY <1>2, <1>7, <2>1 DEF Invite
<1>8. ASSUME NEW a \in User, NEW i \in Invitation, Resend(q, a, i)
      PROVE  AccountInv'
  <2> DEFINE r == [Idle EXCEPT !.pc = "void", !.of = invitation[i].email]
  <2>1. invitation[i].email \in User
    BY <1>8 DEF Resend, Pending, StoreOK, Addressed
  <2>2. r \in RequestState /\ r.of \in User /\ r.pc = "void"
    BY <1>0, <2>1 DEF Idle, RequestState, SignInPC
  <2> QED BY <1>2, <1>8, <2>2 DEF Resend
<1>9. ASSUME NEW a \in User, NEW u \in User, Deactivate(q, a, u)
      PROVE  AccountInv'
  <2> DEFINE pc == IF IsSuperAdmin(u) THEN "countAdmins" ELSE "revokeAll"
             r == [Idle EXCEPT !.of = u, !.status = "deactivated", !.pc = pc]
  <2>1. /\ r \in RequestState /\ r.of = u /\ r.pc = pc
        /\ r.status = "deactivated"
    BY <1>0 DEF Idle, RequestState, AdminPC
  <2>2. CASE IsSuperAdmin(u)
    BY <1>2, <1>9, <2>1, <2>2 DEF Deactivate
  <2>3. CASE ~IsSuperAdmin(u)
    <3>1. Begin(q, r) /\ req'[q] = r /\ user' = user
      BY <1>9, <2>1 DEF Deactivate, Begin
    <3>2. RequestOK(q)'
      BY <2>1, <2>3, <3>1 DEF RequestOK, HasSubject, HoldsLink, AfterUse,
                          HoldsInvitation, HasSeen, At, IsSuperAdmin
    <3>3. r.pc \notin AfterUse
      BY <2>1, <2>3 DEF AfterUse
    <3> QED BY <1>1, <2>1, <3>1, <3>2, <3>3
  <2> QED BY <2>2, <2>3
<1>10. ASSUME NEW a \in User, NEW u \in User, Activate(q, a, u)
       PROVE  AccountInv'
  <2> DEFINE pc == IF Active(u) THEN "update" ELSE "countRoles"
             r == [Idle EXCEPT !.of = u, !.status = "active", !.pc = pc]
  <2>1. /\ r \in RequestState /\ r.of = u /\ r.pc = pc /\ r.status = "active"
    BY <1>0 DEF Idle, RequestState, AdminPC
  <2>2. Begin(q, r) /\ req'[q] = r /\ user' = user
    BY <1>10, <2>1 DEF Activate, Begin
  <2>3. RequestOK(q)'
    BY <2>1, <2>2 DEF RequestOK, HasSubject, HoldsLink, AfterUse,
                      HoldsInvitation, HasSeen, At, Active
  <2>4. r.pc \notin AfterUse
    BY <2>1 DEF AfterUse
  <2> QED BY <1>1, <2>1, <2>2, <2>3, <2>4
<1>11. ASSUME NEW a \in User, NEW u \in User, Approve(q, a, u) \/ Reject(q, a, u)
       PROVE  AccountInv'
  <2>1. PICK st \in {"active", "deactivated"} :
          /\ Begin(q, [Idle EXCEPT !.pc = "decide", !.of = u, !.status = st])
          /\ user[u].status = "pending_approval"
          /\ st = "active" => user[u].roles # {}
    BY <1>11 DEF Approve, Reject
  <2> DEFINE r == [Idle EXCEPT !.pc = "decide", !.of = u, !.status = st]
  <2>2. /\ r \in RequestState /\ r.of = u /\ r.pc = "decide" /\ r.status = st
    BY <1>0 DEF Idle, RequestState, AdminPC
  <2>3. Begin(q, r) /\ req'[q] = r /\ user' = user
    BY <2>1, <2>2 DEF Begin
  <2>4. RequestOK(q)'
    BY <2>1, <2>2, <2>3 DEF RequestOK, HasSubject, HoldsLink, AfterUse,
                            HoldsInvitation, HasSeen, At
  <2>5. r.pc \notin AfterUse
    BY <2>2 DEF AfterUse
  <2> QED BY <1>1, <2>2, <2>3, <2>4, <2>5
<1>12. ASSUME NEW a \in User, NEW u \in User, NEW roles \in SUBSET Role,
              AssignRoles(q, a, u, roles)
       PROVE  AccountInv'
  <2> DEFINE r == [Idle EXCEPT !.pc = "findRole", !.of = u, !.todo = roles]
  <2>1. r \in RequestState /\ r.of \in User /\ r.pc = "findRole"
    BY <1>0 DEF Idle, RequestState, AdminPC
  <2> QED BY <1>2, <1>12, <2>1 DEF AssignRoles
<1>13. ASSUME NEW a \in User, NEW u \in User, NEW role \in Role,
              RemoveRole(q, a, u, role)
       PROVE  AccountInv'
  <2> DEFINE pc == IF role = "super_admin" THEN "countAdmins" ELSE "countRoles"
             r == [Idle EXCEPT !.of = u, !.role = role, !.pc = pc]
  <2>1. /\ r \in RequestState /\ r.of = u /\ r.pc = pc /\ r.role = role
        /\ r.status = "none"
    BY <1>0 DEF Idle, RequestState, AdminPC
  <2>2. Begin(q, r) /\ req'[q] = r
    BY <1>13, <2>1 DEF RemoveRole, Begin
  <2>3. RequestOK(q)'
    BY <2>1, <2>2 DEF RequestOK, HasSubject, HoldsLink, AfterUse,
                      HoldsInvitation, HasSeen, At
  <2>4. r.pc \notin AfterUse
    BY <2>1 DEF AfterUse
  <2> QED BY <1>1, <2>1, <2>2, <2>3, <2>4
<1>14. Managed \subseteq User /\ Visitor \subseteq User
  OBVIOUS
<1>15. ASSUME NEW e \in User,
              \/ \E l \in Link, right \in BOOLEAN : EnterCode(q, e, l, right)
              \/ \E a \in User, roles \in SUBSET Role : Invite(q, a, e, roles)
       PROVE  AccountInv'
  BY <1>6, <1>7, <1>15
<1>16. ASSUME NEW a \in User, NEW u \in Managed,
              \/ Deactivate(q, a, u) \/ Activate(q, a, u)
              \/ Approve(q, a, u) \/ Reject(q, a, u)
              \/ \E roles \in SUBSET Role : AssignRoles(q, a, u, roles)
              \/ \E r \in Role : RemoveRole(q, a, u, r)
       PROVE  AccountInv'
  BY <1>9, <1>10, <1>11, <1>12, <1>13, <1>14, <1>16
<1> HIDE DEF AccountInv, AccountTypeOK
<1> QED BY <1>3, <1>5, <1>8, <1>14, <1>15, <1>16 DEF Arrival

LEMMA Ends ==
  ASSUME AccountInv, NEW q \in Request, End(q),
         UNCHANGED <<user, signVars, creator, removed>>,
         cut' \in SUBSET Invitation, cut \subseteq cut',
         RunsAcceptance(req[q]) => req[q].invitation \in cut'
  PROVE  AccountInv'
<1>1. /\ req' = [req EXCEPT ![q] = Idle] /\ req'[q] = Idle
      /\ Idle \in RequestState /\ RequestOK(q)'
  BY IdleIsOK DEF End, AccountInv, AccountTypeOK
<1>2. Idle.pc \notin AfterUse
  BY DEF Idle, AfterUse
<1> QED BY <1>1, <1>2, RequestMoves

LEMMA MoreThanOne ==
  ASSUME NEW S, ~(Cardinality(S) <= 1), NEW x
  PROVE  \E y \in S : y # x
<1>1. IsFiniteSet({x}) /\ Cardinality({x}) = 1
  BY FS_Singleton
<1>2. SUFFICES ASSUME S \subseteq {x} PROVE FALSE
  OBVIOUS
<1>3. Cardinality(S) <= 1
  BY <1>1, <1>2, FS_Subset
<1> QED BY <1>3

\* Statements that read and decide.
LEMMA Decisions ==
  ASSUME AccountInv, NEW q \in Request,
         \/ FindInvitation(q) \/ CheckInvited(q) \/ CountAdmins(q)
         \/ CountRoles(q) \/ FindRole(q) \/ Fail(q)
  PROVE  AccountInv'
<1> USE DEF AccountInv, AccountTypeOK
<1>0. RequestOK(q) /\ req[q] \in RequestState
  OBVIOUS
<1>1. ASSUME End(q), UNCHANGED <<user, signVars, history>>,
             ~RunsAcceptance(req[q])
      PROVE  AccountInv'
  BY <1>1, Ends DEF history
<1>2. ASSUME NEW r \in RequestState, req' = [req EXCEPT ![q] = r],
             UNCHANGED <<user, signVars, history>>, RequestOK(q)',
             ~RunsAcceptance(req[q]), r.pc \notin AfterUse
      PROVE  AccountInv'
  BY <1>2, RequestMoves DEF history
<1>3. CASE FindInvitation(q)
  <2>1. CASE End(q)
    BY <1>1, <1>3, <2>1 DEF FindInvitation, RunsAcceptance, At
  <2>2. ASSUME NEW i \in PendingFor(req[q].of),
               req' = [req EXCEPT ![q].pc = "createUser", ![q].invitation = i,
                                  ![q].todo = invitation[i].roles]
        PROVE  AccountInv'
    <3> DEFINE r == [req[q] EXCEPT !.pc = "createUser", !.invitation = i,
                                   !.todo = invitation[i].roles]
    <3>1. /\ i \in Invitation /\ invitation[i].status = "pending"
          /\ invitation[i].email = req[q].of
      BY DEF PendingFor, Pending
    <3>2. r \in RequestState /\ req' = [req EXCEPT ![q] = r] /\ req'[q] = r
      BY <1>0, <2>2, <3>1 DEF RequestState, SignInPC, InvitationState, OrNone
    <3>3. UNCHANGED <<user, signVars, history>> /\ At(q, "invited")
      BY <1>3 DEF FindInvitation
    <3>4. RequestOK(q)'
      BY <1>0, <3>1, <3>2, <3>3
         DEF RequestOK, HasSubject, HoldsLink, AfterUse, HoldsInvitation,
             HasSeen, At, signVars
    <3>5. r.pc \in AfterUse => req[q].pc \in AfterUse /\ r.link = req[q].link
      BY <1>0, <3>3 DEF AfterUse, At, RequestState
    <3> QED BY <3>2, <3>3, <3>4, <3>5, RequestMoves
               DEF RunsAcceptance, At, history
  <2> QED BY <1>3, <2>1, <2>2 DEF FindInvitation
<1>4. CASE CheckInvited(q)
  <2>1. CASE End(q)
    BY <1>1, <1>4, <2>1 DEF CheckInvited, RunsAcceptance, At
  <2>2. CASE Go(q, "invite")
    <3> DEFINE r == [req[q] EXCEPT !.pc = "invite"]
    <3>1. r \in RequestState /\ req' = [req EXCEPT ![q] = r] /\ req'[q] = r
      BY <1>0, <2>2 DEF Go, RequestState, SignInPC
    <3>2. At(q, "checkInvited") /\ UNCHANGED <<user, signVars, history>>
      BY <1>4 DEF CheckInvited
    <3>3. RequestOK(q)' /\ r.pc \notin AfterUse
      BY <1>0, <3>1, <3>2 DEF RequestOK, HasSubject, HoldsLink, AfterUse,
                              HoldsInvitation, HasSeen, At
    <3> QED BY <1>2, <3>1, <3>2, <3>3 DEF RunsAcceptance, At
  <2> QED BY <1>4, <2>1, <2>2 DEF CheckInvited
<1>5. CASE CountAdmins(q)
  <2>1. At(q, "countAdmins") /\ UNCHANGED <<user, signVars, history>>
    BY <1>5 DEF CountAdmins
  <2>2. CASE Cardinality(SuperAdmins) <= 1
    BY <1>1, <1>5, <2>2 DEF CountAdmins, RunsAcceptance, At
  <2>3. CASE ~(Cardinality(SuperAdmins) <= 1)
    <3> DEFINE pc == IF req[q].status = "deactivated" THEN "revokeAll"
                                                       ELSE "countRoles"
               r == [req[q] EXCEPT !.pc = pc]
    <3>1. r \in RequestState /\ req' = [req EXCEPT ![q] = r] /\ req'[q] = r
      BY <1>0, <1>5, <2>3 DEF CountAdmins, Go, RequestState, AdminPC
    <3>2. AnotherSuperAdmin(req[q].of)
      BY <2>3, MoreThanOne DEF AnotherSuperAdmin
    <3>3. AnotherSuperAdmin(req[q].of)'
      BY <1>0, <2>1, <3>1, <3>2
         DEF AnotherSuperAdmin, SuperAdmins, Active, IsSuperAdmin, RequestState
    <3>4. RequestOK(q)' /\ r.pc \notin AfterUse
      BY <1>0, <2>1, <3>1, <3>3
         DEF RequestOK, HasSubject, HoldsLink, AfterUse, HoldsInvitation,
             HasSeen, At, RequestState
    <3> QED BY <1>2, <2>1, <3>1, <3>4 DEF RunsAcceptance, At
  <2> QED BY <2>2, <2>3
<1>6. CASE CountRoles(q)
  <2>1. At(q, "countRoles") /\ UNCHANGED <<user, signVars, history>>
    BY <1>6 DEF CountRoles
  <2>2. CASE End(q)
    BY <1>1, <2>1, <2>2 DEF RunsAcceptance, At
  <2>3. CASE /\ req[q].status = "active" /\ user[req[q].of].roles # {}
             /\ Go(q, "update")
    <3> DEFINE r == [req[q] EXCEPT !.pc = "update"]
    <3>1. r \in RequestState /\ req' = [req EXCEPT ![q] = r] /\ req'[q] = r
      BY <1>0, <2>3 DEF Go, RequestState, AdminPC
    <3>2. RequestOK(q)' /\ r.pc \notin AfterUse
      BY <1>0, <2>1, <2>3, <3>1
         DEF RequestOK, HasSubject, HoldsLink, AfterUse, HoldsInvitation,
             HasSeen, At, RequestState, Active
    <3> QED BY <1>2, <2>1, <3>1, <3>2 DEF RunsAcceptance, At
  <2>4. CASE /\ req[q].status # "active" /\ Go(q, "delete")
             /\ ~(Cardinality(user[req[q].of].roles) <= 1)
    <3> DEFINE r == [req[q] EXCEPT !.pc = "delete"]
    <3>1. r \in RequestState /\ req' = [req EXCEPT ![q] = r] /\ req'[q] = r
      BY <1>0, <2>4 DEF Go, RequestState, AdminPC
    <3>2. \E x \in user[req[q].of].roles : x # req[q].role
      BY <2>4, MoreThanOne
    <3>3. AnotherSuperAdmin(req[q].of) => AnotherSuperAdmin(req[q].of)'
      BY <1>0, <2>1, <3>1
         DEF AnotherSuperAdmin, SuperAdmins, Active, IsSuperAdmin, RequestState
    <3>4. /\ req[q].of \in User /\ req[q].role \in Role
          /\ req[q].status = "none"
      BY <1>0, <1>6, <2>1, <2>4 DEF RequestOK, HasSubject, At, RequestState
    <3>5. /\ r.pc = "delete" /\ r.of = req[q].of /\ r.role = req[q].role
          /\ r.status = "none" /\ r.stale = req[q].stale
      BY <1>0, <3>4 DEF RequestState
    <3>6. HasSubject(q)' /\ HoldsLink(q)' /\ HoldsInvitation(q)'
      BY <3>1, <3>4, <3>5 DEF HasSubject, HoldsLink, AfterUse, HoldsInvitation,
                              At
    <3>7. HasSeen(q)'
      BY <1>0, <2>1, <3>1, <3>2, <3>3, <3>4, <3>5
         DEF RequestOK, HasSeen, At
    <3>8. r.pc \notin AfterUse
      BY <3>5 DEF AfterUse
    <3> QED BY <1>2, <2>1, <3>1, <3>6, <3>7, <3>8
               DEF RunsAcceptance, At, RequestOK
  <2> QED BY <1>6, <2>2, <2>3, <2>4 DEF CountRoles
<1>7. CASE FindRole(q)
  <2>1. At(q, "findRole") /\ UNCHANGED <<user, signVars, history>>
    BY <1>7 DEF FindRole
  <2>2. CASE End(q)
    BY <1>1, <2>1, <2>2 DEF RunsAcceptance, At
  <2>3. ASSUME NEW r \in req[q].todo, NEW pc \in {"findRole", "assign"},
               NEW role \in OrNone(Role), pc = "assign" => role = r,
               req' = [req EXCEPT ![q] = [req[q] EXCEPT
                         !.pc = pc, !.role = role, !.todo = req[q].todo \ {r}]]
        PROVE  AccountInv'
    <3> DEFINE s == [req[q] EXCEPT !.pc = pc, !.role = role,
                                   !.todo = req[q].todo \ {r}]
    <3>1. s \in RequestState /\ req' = [req EXCEPT ![q] = s] /\ req'[q] = s
      BY <1>0, <2>3 DEF RequestState, AdminPC
    <3>2. r \in Role /\ s.pc = pc /\ s.of = req[q].of /\ s.role = role
      BY <1>0 DEF RequestState
    <3>3. RequestOK(q)' /\ s.pc \notin AfterUse
      BY <1>0, <2>1, <2>3, <3>1, <3>2
         DEF RequestOK, HasSubject, HoldsLink, AfterUse, HoldsInvitation,
             HasSeen, At
    <3> QED BY <1>2, <2>1, <3>1, <3>3 DEF RunsAcceptance, At
  <2>4. ASSUME NEW r \in req[q].todo,
               req' = [req EXCEPT ![q].todo = req[q].todo \ {r}]
        PROVE  AccountInv'
    <3>1. req' = [req EXCEPT ![q] = [req[q] EXCEPT
                    !.pc = "findRole", !.role = req[q].role,
                    !.todo = req[q].todo \ {r}]]
      BY <1>0, <2>1, <2>4 DEF At, RequestState
    <3>2. req[q].role \in OrNone(Role)
      BY <1>0 DEF RequestState
    <3> QED BY <2>3, <3>1, <3>2
  <2>5. ASSUME NEW r \in req[q].todo,
               req' = [req EXCEPT ![q].pc = "assign", ![q].role = r,
                                  ![q].todo = req[q].todo \ {r}]
        PROVE  AccountInv'
    <3>1. req' = [req EXCEPT ![q] = [req[q] EXCEPT
                    !.pc = "assign", !.role = r, !.todo = req[q].todo \ {r}]]
      BY <2>5
    <3>2. r \in OrNone(Role)
      BY <1>0 DEF RequestState, OrNone
    <3> QED BY <2>3, <3>1, <3>2
  <2> QED BY <1>7, <2>2, <2>4, <2>5 DEF FindRole
<1>8. CASE Fail(q)
  BY <1>8, Ends DEF Fail, RunsAcceptance, HoldsInvitation, RequestOK
<1> QED BY <1>3, <1>4, <1>5, <1>6, <1>7, <1>8

LEMMA NoRequest ==
  ASSUME AccountInv, AccountTypeOK', Rely({}), StoreOK'
  PROVE  AccountInv'
BY OtherRequests DEF AccountInv

\* Only the table of links changes, and the request in slot q moves on.
LEMMA LinksChange ==
  ASSUME AccountInv, NEW q \in Request, NEW r \in RequestState,
         req' = [req EXCEPT ![q] = r], link' \in [Link -> LinkState],
         UNCHANGED <<user, invitation, session, history>>,
         \A l \in Link :
           /\ link[l].status # "none" => link'[l].status # "none"
           /\ link[l].status = "used" => link'[l].status = "used"
           /\ link'[l].status # "none" => link'[l].email \in User,
         r.pc \in AfterUse => /\ r.link \in Link
                             /\ link[r.link].status # "used",
         ~RunsAcceptance(req[q]), RequestOK(q)'
  PROVE  AccountInv'
<1>1. /\ AccountTypeOK' /\ req'[q] = r
      /\ \A p \in Request \ {q} : req'[p] = req[p]
  BY DEF AccountInv, AccountTypeOK, history
<1>2. Rely({q})
  BY <1>1 DEF Rely, SameRequest, history, Exists
<1>3. \A p \in Request : RequestOK(p)
  BY DEF AccountInv
<1>4. LinksApart'
  BY <1>1, <1>3 DEF AccountInv, StoreOK, LinksApart, RequestOK, HoldsLink
<1>5. SessionsOK'
  BY DEF AccountInv, StoreOK, SessionsOK
<1>6. CreatorOK' /\ Addressed'
  BY DEF AccountInv, StoreOK, CreatorOK, Addressed, history, Exists
<1>7. AcceptanceIsWhole'
  BY <1>1 DEF AccountInv, StoreOK, AcceptanceIsWhole, RunsAcceptance, history,
              Pending
<1> QED BY <1>1, <1>2, <1>4, <1>5, <1>6, <1>7, OneRequest DEF StoreOK

\* A link in use has not signed anybody in.
LEMMA UnusedLink ==
  ASSUME AccountInv, NEW l \in Link, link[l].status # "used", NEW s \in Session
  PROVE  session[s].link # l
BY DEF AccountInv, StoreOK, SessionsOK, NoSession

LEMMA LinkStatements ==
  ASSUME AccountInv, NEW q \in Request,
         \/ CreateLink(q) \/ CountGuess(q) \/ Consume(q)
         \/ CreateInvitationLink(q) \/ VoidLinks(q)
  PROVE  AccountInv'
<1>0. /\ RequestOK(q) /\ req[q] \in RequestState
      /\ link \in [Link -> LinkState] /\ req \in [Request -> RequestState]
      /\ \A l \in Link : link[l].status # "none" => link[l].email \in User
  BY DEF AccountInv, AccountTypeOK, StoreOK, Addressed
<1>1. ASSUME End(q), ~RunsAcceptance(req[q]), link' \in [Link -> LinkState],
             UNCHANGED <<user, invitation, session, history>>,
             \A l \in Link :
               /\ link[l].status # "none" => link'[l].status # "none"
               /\ link[l].status = "used" => link'[l].status = "used"
               /\ link'[l].status # "none" => link'[l].email \in User
      PROVE  AccountInv'
  <2>1. /\ req' = [req EXCEPT ![q] = Idle] /\ req'[q] = Idle
        /\ Idle \in RequestState /\ RequestOK(q)'
    BY <1>0, <1>1, IdleIsOK DEF End
  <2>2. Idle.pc \notin AfterUse
    BY DEF Idle, AfterUse
  <2> QED BY <1>1, <2>1, <2>2, LinksChange
<1>2. ASSUME NEW e \in User, NEW purpose \in {"login", "invitation_accept"},
             NEW known \in BOOLEAN, NewLink(e, purpose, known), End(q),
             ~RunsAcceptance(req[q]),
             UNCHANGED <<user, invitation, session, history>>
      PROVE  AccountInv'
  <2> DEFINE new == [email |-> e, status |-> "live", purpose |-> purpose,
                     known |-> known, attempts |-> 0]
  <2>1. PICK l \in Link : /\ link[l].status = "none"
                          /\ link' = [link EXCEPT ![l] = new]
    BY <1>2 DEF NewLink
  <2>2. new \in LinkState
    BY DEF LinkState, OrNone
  <2>3. link' \in [Link -> LinkState] /\ link'[l] = new
    BY <1>0, <2>1, <2>2
  <2>4. \A k \in Link \ {l} : link'[k] = link[k]
    BY <1>0, <2>1
  <2>5. \A k \in Link :
          /\ link[k].status # "none" => link'[k].status # "none"
          /\ link[k].status = "used" => link'[k].status = "used"
          /\ link'[k].status # "none" => link'[k].email \in User
    BY <1>0, <2>1, <2>3, <2>4
  <2> QED BY <1>1, <1>2, <2>3, <2>5
<1>3. CASE CreateLink(q)
  BY <1>0, <1>2, <1>3
     DEF CreateLink, RequestOK, HasSubject, RunsAcceptance, At, RequestState
<1>4. CASE CreateInvitationLink(q)
  BY <1>0, <1>2, <1>4
     DEF CreateInvitationLink, RequestOK, HasSubject, RunsAcceptance, At
<1>5. CASE CountGuess(q)
  <2>1. /\ req[q].link \in Link /\ link[req[q].link].attempts \in Nat
        /\ link[req[q].link] \in LinkState
    BY <1>0, <1>5 DEF CountGuess, RequestOK, HoldsLink, At, LinkState
  <2> DEFINE new == [link[req[q].link] EXCEPT !.attempts = @ + 1]
  <2>2. /\ new \in LinkState /\ new.status = link[req[q].link].status
        /\ new.email = link[req[q].link].email
        /\ link' = [link EXCEPT ![req[q].link] = new]
    BY <1>5, <2>1 DEF CountGuess, LinkState
  <2> QED BY <1>0, <1>1, <1>5, <2>1, <2>2 DEF CountGuess, RunsAcceptance, At
<1>6. CASE VoidLinks(q)
  <2> DEFINE r == [req[q] EXCEPT !.pc = "inviteLink"]
  <2>1. At(q, "void") /\ UNCHANGED <<user, invitation, session, history>>
    BY <1>6 DEF VoidLinks
  <2>2. r \in RequestState /\ req' = [req EXCEPT ![q] = r] /\ req'[q] = r
    BY <1>0, <1>6 DEF VoidLinks, Go, RequestState, SignInPC
  <2>3. \A l \in Link : \/ link'[l] = link[l]
                        \/ /\ link[l].status = "live"
                           /\ link'[l] = [link[l] EXCEPT !.status = "void"]
    BY <1>6 DEF VoidLinks
  <2>4. link' \in [Link -> LinkState]
    BY <1>0, <1>6 DEF VoidLinks, LinkState
  <2>5. \A l \in Link :
          /\ link[l].status # "none" => link'[l].status # "none"
          /\ link[l].status = "used" => link'[l].status = "used"
          /\ link'[l].status # "none" => link'[l].email \in User
    BY <1>0, <2>3 DEF LinkState
  <2>6. RequestOK(q)'
    BY <1>0, <2>1, <2>2 DEF RequestOK, HasSubject, HoldsLink, AfterUse,
                            HoldsInvitation, HasSeen, At
  <2>7. r.pc \notin AfterUse /\ ~RunsAcceptance(req[q])
    BY <1>0, <2>1 DEF AfterUse, RunsAcceptance, At, RequestState
  <2> QED BY <2>1, <2>2, <2>4, <2>5, <2>6, <2>7, LinksChange
<1>7. CASE Consume(q)
  <2> DEFINE l == req[q].link
             pc == IF req[q].known THEN "session" ELSE "invited"
             r == [req[q] EXCEPT !.pc = pc]
  <2>1. /\ At(q, "consume") /\ ~RunsAcceptance(req[q]) /\ l \in Link
        /\ UNCHANGED <<user, invitation, session, history>>
    BY <1>0, <1>7 DEF Consume, RunsAcceptance, At, RequestOK, HoldsLink
  <2>2. CASE link[l].status # "live"
    BY <1>0, <1>1, <1>7, <2>1, <2>2 DEF Consume
  <2>3. CASE link[l].status = "live"
    <3> DEFINE new == [link[l] EXCEPT !.status = "used"]
    <3>1. /\ r \in RequestState /\ req' = [req EXCEPT ![q] = r]
          /\ req'[q] = r
      BY <1>0, <1>7, <2>3 DEF Consume, Go, RequestState, SignInPC
    <3>2. /\ new \in LinkState /\ link' = [link EXCEPT ![l] = new]
          /\ new.status = "used" /\ new.email = link[l].email
      BY <1>0, <1>7, <2>1, <2>3 DEF Consume, LinkState
    <3>3. /\ link' \in [Link -> LinkState] /\ link'[l] = new
          /\ \A k \in Link \ {l} : link'[k] = link[k]
      BY <1>0, <2>1, <3>2
    <3>4. \A k \in Link :
            /\ link[k].status # "none" => link'[k].status # "none"
            /\ link[k].status = "used" => link'[k].status = "used"
            /\ link'[k].status # "none" => link'[k].email \in User
      BY <1>0, <2>1, <2>3, <3>2, <3>3
    <3>5. /\ r.link = l /\ r.of = req[q].of /\ r.pc = pc
          /\ pc \in {"session", "invited"}
      BY <1>0 DEF RequestState
    <3>6. \A s \in Session : session'[s].link # l
      BY <2>1, <2>3, UnusedLink
    <3>7. RequestOK(q)'
      BY <1>0, <2>1, <3>1, <3>2, <3>3, <3>5, <3>6
         DEF RequestOK, HasSubject, HoldsLink, AfterUse, HoldsInvitation,
             HasSeen, At
    <3> QED BY <2>1, <2>3, <3>1, <3>3, <3>4, <3>5, <3>7, LinksChange
  <2> QED BY <2>2, <2>3
<1> QED BY <1>3, <1>4, <1>5, <1>6, <1>7

LEMMA SessionStatements ==
  ASSUME AccountInv, NEW q \in Request, CreateSession(q) \/ RevokeAll(q)
  PROVE  AccountInv'
<1>0. /\ RequestOK(q) /\ req[q] \in RequestState
      /\ session \in [Session -> SessionState]
      /\ req \in [Request -> RequestState]
  BY DEF AccountInv, AccountTypeOK
<1>1. ASSUME NEW r \in RequestState, req' = [req EXCEPT ![q] = r],
             session' \in [Session -> SessionState],
             UNCHANGED <<user, invitation, link, history>>,
             r.pc \notin AfterUse, ~RunsAcceptance(req[q]), RequestOK(q)',
             \A s \in Session :
               \/ session'[s].link = session[s].link
               \/ At(q, "session") /\ session'[s].link = req[q].link,
             SessionsOK'
      PROVE  AccountInv'
  <2>1. /\ AccountTypeOK' /\ req'[q] = r
        /\ \A p \in Request \ {q} : req'[p] = req[p]
    BY <1>0, <1>1 DEF AccountInv, AccountTypeOK, history
  <2>2. Rely({q})
    BY <1>1, <2>1 DEF Rely, SameRequest, history, Exists
  <2>3. LinksApart'
    BY <1>1, <2>1 DEF AccountInv, StoreOK, LinksApart
  <2>4. CreatorOK' /\ Addressed'
    BY <1>1 DEF AccountInv, StoreOK, CreatorOK, Addressed, history, Exists
  <2>5. AcceptanceIsWhole'
    BY <1>1, <2>1 DEF AccountInv, StoreOK, AcceptanceIsWhole, RunsAcceptance,
                      history, Pending
  <2> QED BY <1>1, <2>1, <2>2, <2>3, <2>4, <2>5, OneRequest DEF StoreOK
<1>2. CASE CreateSession(q)
  <2>1. PICK s \in Session :
          /\ session[s] = NoSession
          /\ session' = [session EXCEPT ![s] =
               [user |-> req[q].of, link |-> req[q].link, live |-> TRUE]]
    BY <1>2 DEF CreateSession
  <2>2. /\ At(q, "session") /\ End(q)
        /\ UNCHANGED <<user, invitation, link, history>>
    BY <1>2 DEF CreateSession
  <2>3. /\ req[q].link \in Link /\ link[req[q].link].status = "used"
        /\ \A t \in Session : session[t].link # req[q].link
        /\ req[q].of \in User
    BY <1>0, <2>2 DEF RequestOK, HasSubject, HoldsLink, AfterUse, At
  <2>4. /\ session' \in [Session -> SessionState]
        /\ session'[s].link = req[q].link
        /\ \A t \in Session \ {s} : session'[t] = session[t]
    BY <1>0, <2>1, <2>3 DEF SessionState, OrNone
  <2>5. SessionsOK'
    BY <2>2, <2>3, <2>4 DEF AccountInv, StoreOK, SessionsOK
  <2>6. /\ req' = [req EXCEPT ![q] = Idle] /\ req'[q] = Idle
        /\ Idle \in RequestState /\ RequestOK(q)' /\ Idle.pc \notin AfterUse
    <3>1. req' = [req EXCEPT ![q] = Idle] /\ req'[q] = Idle
      BY <1>0, <2>2 DEF End
    <3>2. Idle.pc \notin AfterUse
      BY DEF Idle, AfterUse
    <3> QED BY <3>1, <3>2, IdleIsOK
  <2> QED BY <1>1, <2>2, <2>4, <2>5, <2>6 DEF RunsAcceptance, At
<1>3. CASE RevokeAll(q)
  <2> DEFINE r == [req[q] EXCEPT !.pc = "update"]
  <2>1. /\ At(q, "revokeAll") /\ req[q].of \in User
        /\ UNCHANGED <<user, invitation, link, history>>
    BY <1>0, <1>3 DEF RevokeAll, RequestOK, HasSubject, At
  <2>2. r \in RequestState /\ req' = [req EXCEPT ![q] = r] /\ req'[q] = r
    BY <1>0, <1>3 DEF RevokeAll, Go, RequestState, AdminPC
  <2>3. \A s \in Session :
          \/ session'[s] = session[s]
          \/ /\ session[s].user = req[q].of
             /\ session'[s] = [session[s] EXCEPT !.live = FALSE]
    BY <1>3 DEF RevokeAll
  <2>4. session' \in [Session -> SessionState]
    BY <1>0, <1>3 DEF RevokeAll, SessionState
  <2>5. \A s \in Session : /\ session'[s].link = session[s].link
                           /\ session'[s] # NoSession => session[s] # NoSession
    <3>1. NoSession.user # req[q].of
      BY <2>1 DEF NoSession
    <3>2. \A s \in Session : session'[s] # session[s] => session[s] # NoSession
      BY <2>3, <3>1
    <3>3. \A s \in Session : session'[s].link = session[s].link
      <4> TAKE s \in Session
      <4>1. session[s] \in SessionState
        BY <1>0
      <4> QED BY <2>3, <4>1 DEF SessionState
    <3> QED BY <3>2, <3>3
  <2>6. SessionsOK'
    BY <2>1, <2>5 DEF AccountInv, StoreOK, SessionsOK
  <2>7. RequestOK(q)'
    <3>1. HasSubject(q)' /\ HoldsLink(q)' /\ HoldsInvitation(q)'
      BY <1>0, <2>1, <2>2 DEF RequestOK, HasSubject, HoldsLink, AfterUse,
                              HoldsInvitation, At
    <3>2. AnotherSuperAdmin(req[q].of) => AnotherSuperAdmin(req[q].of)'
      BY <1>0, <2>1, <2>2
         DEF AnotherSuperAdmin, SuperAdmins, Active, IsSuperAdmin, RequestState
    <3>3. HasSeen(q)'
      BY <1>0, <2>1, <2>2, <3>2
         DEF RequestOK, HasSubject, HasSeen, IsSuperAdmin, At, RequestState
    <3> QED BY <3>1, <3>3 DEF RequestOK
  <2>8. r.pc \notin AfterUse /\ ~RunsAcceptance(req[q])
    BY <1>0, <2>1 DEF AfterUse, RunsAcceptance, At, RequestState
  <2> QED BY <1>1, <2>1, <2>2, <2>4, <2>5, <2>6, <2>7, <2>8
<1> QED BY <1>2, <1>3

\* The steps that no request in a slot takes.
LEMMA SlotlessSteps ==
  ASSUME AccountInv,
         \/ \E s \in Session : EndSession(s)
         \/ \E l \in Link : ExpireLink(l)
         \/ \E a \in User, i \in Invitation : Revoke(a, i)
  PROVE  AccountInv'
<1>0. /\ session \in [Session -> SessionState]
      /\ link \in [Link -> LinkState] /\ req \in [Request -> RequestState]
      /\ invitation \in [Invitation -> InvitationState]
  BY DEF AccountInv, AccountTypeOK
<1>1. ASSUME NEW s \in Session, EndSession(s)
      PROVE  AccountInv'
  <2>1. /\ session' \in [Session -> SessionState]
        /\ \A t \in Session :
             /\ session'[t].link = session[t].link
             /\ session'[t] # NoSession => session[t] # NoSession
        /\ UNCHANGED <<user, invitation, link, req, history>>
    <3> DEFINE new == [session[s] EXCEPT !.live = FALSE]
    <3>1. /\ session' = [session EXCEPT ![s] = new] /\ session[s].live
          /\ UNCHANGED <<user, invitation, link, req, history>>
      BY <1>1 DEF EndSession
    <3>2. new \in SessionState /\ new.link = session[s].link
      <4>1. session[s] \in SessionState
        BY <1>0
      <4> QED BY <4>1 DEF new, SessionState
    <3>5. session[s] # NoSession
      <4>1. NoSession.live = FALSE
        BY DEF NoSession
      <4>2. session[s].live
        BY <3>1
      <4> QED BY <4>1, <4>2
    <3> HIDE DEF new
    <3>3. /\ session' \in [Session -> SessionState] /\ session'[s] = new
          /\ \A t \in Session : t # s => session'[t] = session[t]
      BY <1>0, <3>1, <3>2
    <3>4. ASSUME NEW t \in Session
          PROVE  /\ session'[t].link = session[t].link
                 /\ session'[t] # NoSession => session[t] # NoSession
      <4>1. CASE t = s
        BY <3>2, <3>3, <3>5, <4>1
      <4>2. CASE t # s
        BY <3>3, <4>2
      <4> QED BY <4>1, <4>2
    <3> QED BY <3>1, <3>3, <3>4
  <2>2. AccountTypeOK' /\ Rely({})
    BY <2>1 DEF AccountInv, AccountTypeOK, Rely, SameRequest, history, Exists
  <2>3. StoreOK'
    BY <2>1 DEF AccountInv, StoreOK, LinksApart, SessionsOK, CreatorOK,
                Addressed, AcceptanceIsWhole, history, Exists, Pending
  <2> QED BY <2>2, <2>3, NoRequest
<1>2. ASSUME NEW l \in Link, ExpireLink(l)
      PROVE  AccountInv'
  <2>1. /\ link' \in [Link -> LinkState]
        /\ \A k \in Link :
             \/ link'[k] = link[k]
             \/ /\ link[k].status = "live" /\ link'[k].status = "expired"
                /\ link'[k].email = link[k].email
        /\ UNCHANGED <<user, invitation, session, req, history>>
    BY <1>0, <1>2 DEF ExpireLink, LinkState
  <2>2. \A k \in Link :
          /\ link[k].status # "none" => link'[k].status # "none"
          /\ link[k].status = "used" => link'[k].status = "used"
          /\ link'[k].status # "none" => link'[k].email \in User
    BY <2>1 DEF AccountInv, StoreOK, Addressed
  <2>3. AccountTypeOK' /\ Rely({})
    BY <2>1, <2>2
       DEF AccountInv, AccountTypeOK, Rely, SameRequest, history, Exists
  <2>4. SessionsOK' /\ Addressed'
    BY <2>1, <2>2 DEF AccountInv, StoreOK, SessionsOK, Addressed
  <2>5. LinksApart' /\ CreatorOK' /\ AcceptanceIsWhole'
    BY <2>1 DEF AccountInv, StoreOK, LinksApart, CreatorOK, AcceptanceIsWhole,
                history, Exists, Pending
  <2> QED BY <2>3, <2>4, <2>5, NoRequest DEF StoreOK
<1>3. ASSUME NEW a \in User, NEW i \in Invitation, Revoke(a, i)
      PROVE  AccountInv'
  <2>1. /\ invitation' \in [Invitation -> InvitationState]
        /\ \A j \in Invitation \ {i} : invitation'[j] = invitation[j]
        /\ invitation[i].status = "pending" /\ invitation'[i].status = "revoked"
        /\ invitation'[i].email = invitation[i].email
        /\ invitation'[i].roles = invitation[i].roles
        /\ UNCHANGED <<user, link, session, history>>
    BY <1>0, <1>3 DEF Revoke, InvitationState, Pending
  <2>2. \A p \in Request :
          \/ req'[p] = req[p] /\ req[p].invitation # i
          \/ req'[p] = [req[p] EXCEPT !.overtaken = TRUE]
    BY <1>3 DEF Revoke
  <2>3. ASSUME NEW p \in Request
        PROVE  /\ req'[p] \in RequestState /\ SameRequest(p)
               /\ req[p].invitation = i => req'[p].overtaken
    <3>1. req[p] \in RequestState
      BY <1>0
    <3>2. CASE req'[p] = req[p] /\ req[p].invitation # i
      BY <3>1, <3>2 DEF SameRequest
    <3>3. CASE req'[p] = [req[p] EXCEPT !.overtaken = TRUE]
      BY <3>1, <3>3 DEF SameRequest, RequestState
    <3> QED BY <2>2, <3>2, <3>3
  <2>4. req' \in [Request -> RequestState]
    <3>1. req' = [p \in Request |-> req'[p]]
      BY <1>3 DEF Revoke
    <3> QED BY <2>3, <3>1
  <2>5. AccountTypeOK'
    BY <2>1, <2>4 DEF AccountInv, AccountTypeOK, history
  <2>6. Rely({})
    BY <2>1, <2>3 DEF Rely, history, Exists
  <2>7. LinksApart' /\ SessionsOK'
    BY <2>1, <2>3 DEF AccountInv, StoreOK, LinksApart, SessionsOK, SameRequest
  <2>8. CreatorOK' /\ Addressed'
    BY <1>0, <2>1 DEF AccountInv, AccountTypeOK, StoreOK, CreatorOK, Addressed,
                      history, Exists, OrNone
  <2>9. AcceptanceIsWhole'
    BY <1>0, <2>1, <2>3
       DEF AccountInv, AccountTypeOK, StoreOK, AcceptanceIsWhole, SameRequest,
           history, Pending, OrNone
  <2> QED BY <2>5, <2>6, <2>7, <2>8, <2>9, NoRequest DEF StoreOK
<1> QED BY <1>1, <1>2, <1>3

\* The table of invitations changes: only a pending invitation, and an accepted
\* one has created its user.
LEMMA InvitationStatements ==
  ASSUME AccountInv, NEW q \in Request, CreateInvitation(q) \/ Accept(q)
  PROVE  AccountInv'
<1>0. /\ RequestOK(q) /\ req[q] \in RequestState
      /\ invitation \in [Invitation -> InvitationState]
      /\ req \in [Request -> RequestState]
      /\ creator \in [User -> OrNone(Invitation)]
  BY DEF AccountInv, AccountTypeOK
<1>1. ASSUME NEW r \in RequestState, req' = [req EXCEPT ![q] = r],
             invitation' \in [Invitation -> InvitationState],
             UNCHANGED <<user, link, session, history>>,
             r.pc \in AfterUse => req[q].pc \in AfterUse /\ r.link = req[q].link,
             RequestOK(q)', AcceptanceIsWhole',
             \A i \in Invitation :
               /\ invitation[i].status # "none" =>
                    /\ invitation'[i].status \notin {"none", "revoked"}
                       \/ invitation'[i] = invitation[i]
                    /\ invitation'[i].email = invitation[i].email
                    /\ invitation'[i].roles = invitation[i].roles
               /\ invitation[i].status = "none" =>
                    /\ invitation'[i].status # "revoked"
                    /\ invitation'[i].status # "none" =>
                         invitation'[i].email \in User
      PROVE  AccountInv'
  <2>1. /\ AccountTypeOK' /\ req'[q] = r
        /\ \A p \in Request \ {q} : req'[p] = req[p]
    BY <1>0, <1>1 DEF AccountInv, AccountTypeOK, history
  <2>2. \A i \in Invitation :
          /\ invitation[i].status # "none" => invitation'[i].status # "none"
          /\ invitation'[i].status = "revoked" => invitation[i].status = "revoked"
    BY <1>1
  <2>3. Rely({q})
    BY <1>1, <2>1, <2>2 DEF Rely, SameRequest, history, Exists
  <2>4. LinksApart'
    BY <1>1, <2>1 DEF AccountInv, StoreOK, LinksApart
  <2>5. SessionsOK' /\ Addressed'
    BY <1>1 DEF AccountInv, StoreOK, SessionsOK, Addressed
  <2>6. CreatorOK'
    BY <1>0, <1>1, <2>2
       DEF AccountInv, StoreOK, CreatorOK, history, Exists, OrNone
  <2> QED BY <1>1, <2>1, <2>3, <2>4, <2>5, <2>6, OneRequest DEF StoreOK
<1>2. CASE CreateInvitation(q)
  <2>1. /\ At(q, "invite") /\ ~RunsAcceptance(req[q])
        /\ UNCHANGED <<user, link, session, history>> /\ req[q].of \in User
    BY <1>0, <1>2 DEF CreateInvitation, RunsAcceptance, At, RequestOK, HasSubject
  <2>2. CASE End(q) /\ UNCHANGED invitation
    BY <2>1, <2>2, Ends DEF AccountInv, AccountTypeOK, signVars, history
  <2>3. ASSUME NEW i \in Invitation, invitation[i] = NoInvitation,
               invitation' = [invitation EXCEPT
                  ![i] = [email |-> req[q].of, status |-> "pending",
                          roles |-> req[q].todo]],
               Go(q, "inviteLink")
        PROVE  AccountInv'
    <3> DEFINE r == [req[q] EXCEPT !.pc = "inviteLink"]
               new == [email |-> req[q].of, status |-> "pending",
                       roles |-> req[q].todo]
    <3>1. r \in RequestState /\ req' = [req EXCEPT ![q] = r] /\ req'[q] = r
      BY <1>0, <2>3 DEF Go, RequestState, SignInPC
    <3>2. /\ invitation[i].status = "none" /\ new \in InvitationState
          /\ invitation[i].email = None
      BY <1>0, <2>1, <2>3 DEF NoInvitation, InvitationState, OrNone, RequestState
    <3>3. /\ invitation' \in [Invitation -> InvitationState]
          /\ invitation'[i].status = "pending"
          /\ invitation'[i].email = req[q].of
          /\ \A j \in Invitation : j # i => invitation'[j] = invitation[j]
      BY <1>0, <2>3, <3>2
    <3>4. r.pc \notin AfterUse /\ r.pc = "inviteLink" /\ r.of = req[q].of
      BY <1>0 DEF AfterUse, RequestState
    <3>5. RequestOK(q)'
      BY <2>1, <3>1, <3>4 DEF RequestOK, HasSubject, HoldsLink, AfterUse,
                              HoldsInvitation, HasSeen, At
    <3>6. \A u \in User : creator[u] # i
      BY <3>2 DEF AccountInv, StoreOK, CreatorOK
    <3>7. AcceptanceIsWhole'
      <4>1. ASSUME NEW u \in User, creator[u] # None, creator[u] \notin cut
            PROVE  \/ \E p \in Request : /\ req'[p].invitation = creator[u]
                                         /\ req'[p].pc \in {"grant", "accept"}
                   \/ /\ invitation'[creator[u]].roles
                            \subseteq user[u].roles \cup removed[u]
                      /\ invitation'[creator[u]].status # "pending"
        <5>1. creator[u] \in Invitation /\ creator[u] # i
          BY <1>0, <3>6, <4>1 DEF OrNone
        <5>2. invitation'[creator[u]] = invitation[creator[u]]
          BY <3>3, <5>1
        <5>3. \A p \in Request : req[p].pc \in {"grant", "accept"} => p # q
          BY <2>1 DEF At
        <5>4. \A p \in Request : p # q => req'[p] = req[p]
          BY <1>0, <3>1
        <5> QED BY <4>1, <5>2, <5>3, <5>4
                   DEF AccountInv, StoreOK, AcceptanceIsWhole, Pending
      <4>2. ASSUME NEW j \in Invitation, invitation'[j].status = "accepted"
            PROVE  creator[invitation'[j].email] = j
        BY <3>3, <4>2 DEF AccountInv, StoreOK, AcceptanceIsWhole
      <4>3. creator' = creator /\ user' = user /\ removed' = removed /\ cut' = cut
        BY <2>1 DEF history
      <4> QED BY <4>1, <4>2, <4>3 DEF AcceptanceIsWhole, Pending
    <3>8. \A j \in Invitation :
            /\ invitation[j].status # "none" => invitation'[j] = invitation[j]
            /\ invitation[j].status = "none" =>
                 /\ invitation'[j].status # "revoked"
                 /\ invitation'[j].status # "none" => invitation'[j].email \in User
      BY <2>1, <3>2, <3>3
    <3> QED BY <1>1, <2>1, <3>1, <3>3, <3>4, <3>5, <3>7, <3>8
  <2> QED BY <1>2, <2>2, <2>3 DEF CreateInvitation
<1>3. CASE Accept(q)
  <2> DEFINE i == req[q].invitation
             r == [req[q] EXCEPT !.pc = "session"]
  <2>1. At(q, "accept") /\ UNCHANGED <<user, link, session, history>>
    BY <1>3 DEF Accept
  <2>2. /\ req[q].of \in User /\ i \in Invitation
        /\ invitation[i].email = req[q].of /\ creator[req[q].of] = i
        /\ invitation[i].roles \subseteq user[req[q].of].roles
                                          \cup removed[req[q].of]
    BY <1>0, <2>1 DEF RequestOK, HasSubject, HoldsInvitation, At
  <2>3. \A j \in Invitation :
          \/ /\ invitation'[j] = invitation[j]
             /\ j = i => invitation'[j].status # "pending"
          \/ /\ j = i /\ invitation[j].status = "pending"
             /\ invitation'[j] = [invitation[j] EXCEPT !.status = "accepted"]
    BY <1>3 DEF Accept, Pending
  <2>4. ASSUME NEW j \in Invitation
        PROVE  /\ invitation'[j] \in InvitationState
               /\ invitation'[j].email = invitation[j].email
               /\ invitation'[j].roles = invitation[j].roles
               /\ \/ invitation'[j] = invitation[j]
                  \/ /\ j = i /\ invitation[j].status = "pending"
                     /\ invitation'[j].status = "accepted"
               /\ j = i => invitation'[j].status # "pending"
    <3>1. invitation[j] \in InvitationState
      BY <1>0
    <3> QED BY <2>3, <3>1 DEF InvitationState
  <2>5. invitation' \in [Invitation -> InvitationState]
    <3>1. invitation' = [j \in Invitation |-> invitation'[j]]
      BY <1>3 DEF Accept
    <3> QED BY <2>4, <3>1
  <2>6. r \in RequestState /\ req' = [req EXCEPT ![q] = r] /\ req'[q] = r
    BY <1>0, <1>3 DEF Accept, Go, RequestState, SignInPC
  <2>7. r.pc = "session" /\ r.of = req[q].of /\ r.link = req[q].link
    BY <1>0 DEF RequestState
  <2>8. RequestOK(q)'
    BY <1>0, <2>1, <2>2, <2>6, <2>7
       DEF RequestOK, HasSubject, HoldsLink, AfterUse, HoldsInvitation, HasSeen,
           At
  <2>9. AcceptanceIsWhole'
    <3>1. ASSUME NEW u \in User, creator[u] # None, creator[u] \notin cut
          PROVE  \/ \E p \in Request : /\ req'[p].invitation = creator[u]
                                       /\ req'[p].pc \in {"grant", "accept"}
                 \/ /\ invitation'[creator[u]].roles
                          \subseteq user[u].roles \cup removed[u]
                    /\ invitation'[creator[u]].status # "pending"
      <4>1. creator[u] \in Invitation /\ invitation[creator[u]].email = u
        BY <1>0, <3>1 DEF OrNone, AccountInv, StoreOK, CreatorOK
      <4>2. CASE creator[u] = i
        BY <2>2, <2>4, <4>1, <4>2
      <4>3. CASE creator[u] # i
        <5>1. invitation'[creator[u]] = invitation[creator[u]]
          BY <2>4, <4>1, <4>3
        <5>2. \A p \in Request : p # q => req'[p] = req[p]
          BY <1>0, <2>6
        <5> QED BY <3>1, <4>3, <5>1, <5>2
                   DEF AccountInv, StoreOK, AcceptanceIsWhole, Pending
      <4> QED BY <4>2, <4>3
    <3>2. ASSUME NEW j \in Invitation, invitation'[j].status = "accepted"
          PROVE  creator[invitation'[j].email] = j
      BY <2>2, <2>4, <3>2 DEF AccountInv, StoreOK, AcceptanceIsWhole
    <3>3. creator' = creator /\ user' = user /\ removed' = removed /\ cut' = cut
      BY <2>1 DEF history
    <3> QED BY <3>1, <3>2, <3>3 DEF AcceptanceIsWhole, Pending
  <2>10. req[q].pc \in AfterUse
    BY <2>1 DEF At, AfterUse
  <2>11. \A j \in Invitation :
           /\ invitation[j].status # "none" =>
                \/ invitation'[j].status \notin {"none", "revoked"}
                \/ invitation'[j] = invitation[j]
           /\ invitation[j].status = "none" => invitation'[j] = invitation[j]
    BY <2>4
  <2> QED BY <1>1, <2>1, <2>4, <2>5, <2>6, <2>7, <2>8, <2>9, <2>10, <2>11
<1> QED BY <1>2, <1>3

\* A status or a role of u is written.  Roles go only into removed, and a user
\* is created only from the invitation the request goes on to accept.
LEMMA UserWritten ==
  ASSUME AccountInv, NEW q \in Request, NEW u \in User, NEW r \in UserState,
         NEW next \in RequestState, WriteUser(q, u, r, next),
         UNCHANGED signVars, r.status # "none" \/ r.status = user[u].status,
         creator' \in [User -> OrNone(Invitation)],
         removed' \in [User -> SUBSET Role],
         cut' \in SUBSET Invitation, cut \subseteq cut',
         \A v \in User : removed[v] \subseteq removed'[v],
         Exists(u) => user[u].roles \subseteq r.roles \cup removed'[u],
         \A v \in User :
           \/ creator'[v] = creator[v]
           \/ /\ v = u /\ r.status # "none" /\ creator[u] = None
              /\ creator'[u] = next.invitation
              /\ RunsAcceptance(next) /\ next.invitation \in Invitation
              /\ invitation[next.invitation].email = u
              /\ invitation[next.invitation].status # "none",
         RunsAcceptance(req[q]) => /\ RunsAcceptance(next)
                                   /\ next.invitation = req[q].invitation,
         next.pc \in AfterUse =>
           req[q].pc \in AfterUse /\ next.link = req[q].link,
         RequestOK(q)'
  PROVE  AccountInv'
<1>0. /\ req \in [Request -> RequestState] /\ user \in [User -> UserState]
      /\ creator \in [User -> OrNone(Invitation)]
  BY DEF AccountInv, AccountTypeOK
<1>1. /\ user' \in [User -> UserState] /\ user'[u] = r
      /\ \A v \in User : v # u => user'[v] = user[v]
  BY <1>0 DEF WriteUser
<1>2. /\ req'[q] = next
      /\ \A p \in Request : p # q =>
           req'[p] = [req[p] EXCEPT !.stale = req[p].stale
                                              \/ req[p].pc \in AdminPC]
      /\ req' = [p \in Request |-> req'[p]]
  BY DEF WriteUser
<1>3. ASSUME NEW p \in Request, p # q
      PROVE  /\ req'[p] \in RequestState /\ SameRequest(p)
             /\ req[p].pc \notin AdminPC \/ req'[p].stale
  <2>1. req[p] \in RequestState
    BY <1>0
  <2> DEFINE b == req[p].stale \/ req[p].pc \in AdminPC
  <2>2. b \in BOOLEAN /\ req'[p] = [req[p] EXCEPT !.stale = b]
    BY <1>2, <1>3, <2>1 DEF RequestState
  <2>3. (req[p].stale => b) /\ (req[p].pc \in AdminPC => b)
    OBVIOUS
  <2> HIDE DEF b
  <2>4. /\ req'[p] \in RequestState /\ req'[p].stale = b
        /\ req'[p].pc = req[p].pc /\ req'[p].of = req[p].of
        /\ req'[p].link = req[p].link /\ req'[p].todo = req[p].todo
        /\ req'[p].invitation = req[p].invitation
        /\ req'[p].role = req[p].role /\ req'[p].status = req[p].status
        /\ req'[p].overtaken = req[p].overtaken
    BY <2>1, <2>2 DEF RequestState
  <2> QED BY <2>3, <2>4 DEF SameRequest
<1>4. req' \in [Request -> RequestState]
  BY <1>2, <1>3
<1>5. AccountTypeOK'
  BY <1>1, <1>4 DEF AccountInv, AccountTypeOK, signVars
<1>6. \A v \in User :
        creator[v] # None => Exists(v) /\ creator'[v] = creator[v]
  BY DEF AccountInv, StoreOK, CreatorOK
<1>7. \A v \in User :
        /\ Exists(v) => Exists(v)'
        /\ Exists(v) => user[v].roles \subseteq user'[v].roles \cup removed'[v]
  BY <1>1 DEF Exists
<1>8. Rely({q})
  BY <1>3, <1>6, <1>7 DEF Rely, signVars
<1>9. LinksApart'
  BY <1>2, <1>3 DEF AccountInv, StoreOK, LinksApart, SameRequest
<1>10. SessionsOK' /\ Addressed'
  BY DEF AccountInv, StoreOK, SessionsOK, Addressed, signVars
<1>11. CreatorOK'
  <2>1. ASSUME NEW v \in User, creator'[v] = creator[v], creator[v] # None
        PROVE  /\ Exists(v)' /\ invitation[creator[v]].email = v
               /\ invitation[creator[v]].status # "none"
    BY <1>7, <2>1 DEF AccountInv, StoreOK, CreatorOK
  <2>2. r.status # "none" => Exists(u)'
    BY <1>1 DEF Exists
  <2> QED BY <2>1, <2>2 DEF CreatorOK, signVars
<1>12. AcceptanceIsWhole'
  <2>1. ASSUME NEW v \in User, creator'[v] # None, creator'[v] \notin cut'
        PROVE  \/ \E p \in Request : /\ req'[p].invitation = creator'[v]
                                     /\ req'[p].pc \in {"grant", "accept"}
               \/ /\ invitation[creator'[v]].roles
                        \subseteq user'[v].roles \cup removed'[v]
                  /\ invitation[creator'[v]].status # "pending"
    <3>1. CASE creator'[v] = creator[v]
      <4>1. creator[v] # None /\ creator[v] \notin cut /\ Exists(v)
        BY <1>6, <2>1, <3>1
      <4>2. ASSUME NEW p \in Request, req[p].invitation = creator[v],
                   req[p].pc \in {"grant", "accept"}
            PROVE  \E s \in Request : /\ req'[s].invitation = creator'[v]
                                      /\ req'[s].pc \in {"grant", "accept"}
        <5>1. CASE p = q
          BY <1>2, <3>1, <4>2, <5>1 DEF RunsAcceptance
        <5>2. CASE p # q
          BY <1>3, <3>1, <4>2, <5>2 DEF SameRequest
        <5> QED BY <5>1, <5>2
      <4>3. ASSUME invitation[creator[v]].roles
                     \subseteq user[v].roles \cup removed[v]
            PROVE  invitation[creator[v]].roles
                     \subseteq user'[v].roles \cup removed'[v]
        BY <1>7, <4>1, <4>3
      <4> QED BY <3>1, <4>1, <4>2, <4>3
                 DEF AccountInv, StoreOK, AcceptanceIsWhole, Pending
    <3>2. CASE creator'[v] # creator[v]
      BY <1>2, <3>2 DEF RunsAcceptance
    <3> QED BY <3>1, <3>2
  <2>2. ASSUME NEW j \in Invitation, invitation[j].status = "accepted"
        PROVE  creator'[invitation[j].email] = j
    <3>1. creator[invitation[j].email] = j /\ invitation[j].email \in User
      BY <2>2 DEF AccountInv, StoreOK, AcceptanceIsWhole, Addressed
    <3> QED BY <1>6, <3>1
  <2> QED BY <2>1, <2>2 DEF AcceptanceIsWhole, signVars, Pending
<1> QED BY <1>5, <1>8, <1>9, <1>10, <1>11, <1>12, OneRequest DEF StoreOK

\* Creation of a user and the grants of its roles.
LEMMA AcceptanceStatements ==
  ASSUME AccountInv, NEW q \in Request, CreateUser(q) \/ Grant(q)
  PROVE  AccountInv'
<1>0. /\ RequestOK(q) /\ req[q] \in RequestState
      /\ req \in [Request -> RequestState] /\ user \in [User -> UserState]
      /\ creator \in [User -> OrNone(Invitation)]
      /\ removed \in [User -> SUBSET Role] /\ cut \in SUBSET Invitation
  BY DEF AccountInv, AccountTypeOK
<1>1. CASE CreateUser(q)
  <2>1. /\ At(q, "createUser") /\ UNCHANGED <<signVars, removed, cut>>
        /\ ~RunsAcceptance(req[q])
    BY <1>1 DEF CreateUser, RunsAcceptance, At
  <2>2. CASE End(q) /\ UNCHANGED <<user, creator>>
    BY <1>0, <2>1, <2>2, Ends
  <2>3. ASSUME ~Exists(req[q].of),
               WriteUser(q, req[q].of, [status |-> "active", roles |-> {}],
                         [req[q] EXCEPT !.pc = "grant"]),
               creator' = [creator EXCEPT ![req[q].of] = req[q].invitation]
        PROVE  AccountInv'
    <3>1. PICK u \in User : u = req[q].of
      BY <1>0, <2>1 DEF RequestOK, HasSubject, At
    <3>2. PICK i \in Invitation : i = req[q].invitation
      BY <1>0, <2>1 DEF RequestOK, HoldsInvitation, At
    <3>3. /\ invitation[i].email = u /\ invitation[i].status # "none"
          /\ req[q].todo = invitation[i].roles
      BY <1>0, <2>1, <3>1, <3>2 DEF RequestOK, HoldsInvitation, At
    <3>4. PICK next \in RequestState :
            /\ next = [req[q] EXCEPT !.pc = "grant"]
            /\ next.pc = "grant" /\ next.of = u /\ next.invitation = i
            /\ next.todo = req[q].todo /\ next.link = req[q].link
      <4>1. [req[q] EXCEPT !.pc = "grant"] \in RequestState
        BY <1>0 DEF RequestState, SignInPC
      <4> QED BY <1>0, <3>1, <3>2, <4>1 DEF RequestState
    <3>5. PICK r \in UserState : r = [status |-> "active", roles |-> {}]
      BY DEF UserState
    <3>6. WriteUser(q, u, r, next) /\ req'[q] = next
      BY <2>3, <3>1, <3>4, <3>5 DEF WriteUser
    <3>7. /\ creator' \in [User -> OrNone(Invitation)] /\ creator'[u] = i
          /\ \A v \in User : v # u => creator'[v] = creator[v]
      BY <1>0, <2>3, <3>1, <3>2 DEF OrNone
    <3>8. RequestOK(q)'
      <4>1. HasSubject(q)' /\ HasSeen(q)'
        BY <3>4, <3>6 DEF HasSubject, HasSeen, At
      <4>2. HoldsLink(q)'
        BY <1>0, <2>1, <3>4, <3>6
           DEF RequestOK, HoldsLink, AfterUse, At, signVars
      <4>3. HoldsInvitation(q)'
        BY <2>1, <3>3, <3>4, <3>6, <3>7 DEF HoldsInvitation, At, signVars
      <4> QED BY <4>1, <4>2, <4>3 DEF RequestOK
    <3>9. req[q].pc \in AfterUse /\ RunsAcceptance(next)
      BY <2>1, <3>4 DEF AfterUse, At, RunsAcceptance
    <3>10. ~Exists(u) /\ r.status # "none" /\ creator[u] = None
      BY <2>3, <3>1, <3>5 DEF AccountInv, StoreOK, CreatorOK
    <3>11. \A v \in User :
             \/ creator'[v] = creator[v]
             \/ /\ v = u /\ r.status # "none" /\ creator[u] = None
                /\ creator'[u] = next.invitation
                /\ RunsAcceptance(next) /\ next.invitation \in Invitation
                /\ invitation[next.invitation].email = u
                /\ invitation[next.invitation].status # "none"
      BY <3>3, <3>4, <3>7, <3>9, <3>10
    <3>12. /\ removed' = removed /\ cut' = cut /\ UNCHANGED signVars
           /\ next.pc \in AfterUse => next.link = req[q].link
      BY <2>1, <3>4
    <3> QED BY <1>0, <2>1, <3>6, <3>7, <3>8, <3>9, <3>10, <3>11, <3>12,
               UserWritten
  <2> QED BY <1>1, <2>2, <2>3 DEF CreateUser
<1>2. CASE Grant(q)
  <2>1. /\ At(q, "grant") /\ UNCHANGED <<signVars, creator, removed>>
        /\ RunsAcceptance(req[q]) /\ req[q].pc \in AfterUse
    BY <1>2 DEF Grant, RunsAcceptance, At, AfterUse
  <2>2. PICK u \in User, i \in Invitation :
          u = req[q].of /\ i = req[q].invitation
    BY <1>0, <2>1 DEF RequestOK, HasSubject, HoldsInvitation, At
  <2>3. /\ invitation[i].email = u /\ invitation[i].status # "none"
        /\ creator[u] = i /\ Exists(u)
        /\ \A x \in invitation[i].roles :
             x \in user[u].roles \cup removed[u] \/ x \in req[q].todo
    BY <1>0, <2>1, <2>2
       DEF RequestOK, HoldsInvitation, At, AccountInv, StoreOK, CreatorOK
  <2>4. CASE End(q) /\ cut' = cut \cup {req[q].invitation} /\ UNCHANGED user
    BY <1>0, <2>1, <2>2, <2>4, Ends
  <2>5. ASSUME NEW x \in req[q].todo,
               WriteUser(q, req[q].of,
                 [user[req[q].of] EXCEPT !.roles = @ \cup {x}],
                 [req[q] EXCEPT
                    !.todo = req[q].todo \ {x},
                    !.pc = IF req[q].todo = {x} THEN "accept" ELSE "grant"]),
               UNCHANGED cut
        PROVE  AccountInv'
    <3>1. PICK r \in UserState :
            /\ r = [user[req[q].of] EXCEPT !.roles = @ \cup {x}]
            /\ r.status = user[u].status /\ r.roles = user[u].roles \cup {x}
      <4>1. user[u] \in UserState /\ x \in Role
        BY <1>0, <2>5 DEF RequestState
      <4>2. [user[u] EXCEPT !.roles = @ \cup {x}] \in UserState
        BY <4>1 DEF UserState
      <4> QED BY <2>2, <4>1, <4>2 DEF UserState
    <3>2. PICK pc \in {"grant", "accept"} :
            /\ pc = IF req[q].todo = {x} THEN "accept" ELSE "grant"
            /\ pc = "accept" => req[q].todo = {x}
      OBVIOUS
    <3>3. PICK next \in RequestState :
            /\ next = [req[q] EXCEPT !.todo = req[q].todo \ {x}, !.pc = pc]
            /\ next.pc = pc /\ next.of = u /\ next.invitation = i
            /\ next.todo = req[q].todo \ {x} /\ next.link = req[q].link
      <4>1. [req[q] EXCEPT !.todo = req[q].todo \ {x}, !.pc = pc] \in RequestState
        BY <1>0 DEF RequestState, SignInPC
      <4> QED BY <1>0, <2>2, <4>1 DEF RequestState
    <3>4. WriteUser(q, u, r, next) /\ req'[q] = next
      BY <2>2, <2>5, <3>1, <3>2, <3>3 DEF WriteUser
    <3>5. user'[u] = r
      BY <1>0, <3>4 DEF WriteUser
    <3>6. RequestOK(q)'
      <4>1. HasSubject(q)' /\ HasSeen(q)'
        BY <3>3, <3>4 DEF HasSubject, HasSeen, At
      <4>2. HoldsLink(q)'
        BY <1>0, <2>1, <3>3, <3>4
           DEF RequestOK, HoldsLink, AfterUse, At, signVars
      <4>3. \A y \in invitation[i].roles :
              \/ y \in user'[u].roles \cup removed[u]
              \/ pc = "grant" /\ y \in req[q].todo \ {x}
        BY <2>3, <3>1, <3>2, <3>5
      <4>4. HoldsInvitation(q)'
        BY <2>1, <2>3, <3>3, <3>4, <4>3 DEF HoldsInvitation, At, signVars
      <4> QED BY <4>1, <4>2, <4>4 DEF RequestOK
    <3>7. RunsAcceptance(next)
      BY <3>3 DEF RunsAcceptance
    <3>8. r.status = user[u].status /\ user[u].roles \subseteq r.roles
      BY <3>1
    <3> QED BY <1>0, <2>1, <2>2, <2>5, <3>3, <3>4, <3>6, <3>7, <3>8, UserWritten
  <2> QED BY <1>2, <2>4, <2>5 DEF Grant
<1> QED BY <1>1, <1>2

AssignsOrEnds(r) == r = Idle \/ (r.pc = "findRole" /\ r.of \in User)
LEMMA AdministratorWrites ==
  ASSUME AccountInv, NEW q \in Request,
         NEW u \in User, NEW r \in UserState, NEW next \in RequestState,
         WriteUser(q, u, r, next), UNCHANGED <<signVars, creator, cut>>,
         removed' \in [User -> SUBSET Role],
         \A v \in User : removed[v] \subseteq removed'[v],
         r.status # "none" \/ r.status = user[u].status,
         user[u].roles \subseteq r.roles \cup removed'[u],
         ~RunsAcceptance(req[q]), AssignsOrEnds(next)
  PROVE  AccountInv'
<1> USE DEF AssignsOrEnds
<1>1. req'[q] = next
  BY DEF WriteUser
<1>2. RequestOK(q)'
  <2>1. CASE next = Idle
    BY <1>1, <2>1, IdleIsOK
  <2>2. CASE next.pc = "findRole" /\ next.of \in User
    <3>1. HasSubject(q)' /\ HoldsLink(q)' /\ HoldsInvitation(q)'
      BY <1>1, <2>2 DEF HasSubject, HoldsLink, AfterUse, HoldsInvitation, At
    <3>2. HasSeen(q)'
      BY <1>1, <2>2 DEF HasSeen, At
    <3> QED BY <3>1, <3>2 DEF RequestOK
  <2> QED BY <2>1, <2>2
<1>3. next.pc \notin AfterUse
  BY DEF Idle, AfterUse
<1>4. /\ creator \in [User -> OrNone(Invitation)] /\ cut \in SUBSET Invitation
  BY DEF AccountInv, AccountTypeOK
<1> QED BY <1>2, <1>3, <1>4, UserWritten

\* The writes of administrators.
LEMMA AdministratorStatements ==
  ASSUME AccountInv, NEW q \in Request, Update(q) \/ Assign(q) \/ DeleteRole(q)
  PROVE  AccountInv'
<1>0. /\ RequestOK(q) /\ req[q] \in RequestState
      /\ req \in [Request -> RequestState] /\ user \in [User -> UserState]
      /\ creator \in [User -> OrNone(Invitation)]
      /\ removed \in [User -> SUBSET Role] /\ cut \in SUBSET Invitation
  BY DEF AccountInv, AccountTypeOK
<1>2. Idle \in RequestState /\ AssignsOrEnds(Idle)
  <2>1. AssignsOrEnds(Idle)
    BY DEF AssignsOrEnds
  <2> QED BY <2>1, IdleIsOK
<1>3. CASE Update(q)
  <2>1. /\ req[q].pc \in {"update", "decide"} /\ ~RunsAcceptance(req[q])
        /\ UNCHANGED <<signVars, history>>
    BY <1>3 DEF Update, RunsAcceptance
  <2>2. PICK u \in User : u = req[q].of
    BY <1>0, <2>1 DEF RequestOK, HasSubject, At
  <2>3. PICK r \in UserState :
          /\ r = [user[u] EXCEPT !.status = req[q].status]
          /\ r.status # "none" /\ r.roles = user[u].roles
    <3>1. user[u] \in UserState /\ req[q].status \in {"active", "deactivated"}
      BY <1>0, <2>1 DEF RequestOK, HasSubject, RequestState
    <3>2. [user[u] EXCEPT !.status = req[q].status] \in UserState
      BY <3>1 DEF UserState
    <3> QED BY <3>1, <3>2 DEF UserState
  <2>4. WriteUser(q, u, r, Idle)
    BY <1>3, <2>2, <2>3 DEF Update
  <2>5. UNCHANGED <<signVars, creator, removed, cut>>
    BY <2>1 DEF history
  <2>6. /\ removed' \in [User -> SUBSET Role]
        /\ \A v \in User : removed[v] \subseteq removed'[v]
        /\ user[u].roles \subseteq r.roles \cup removed'[u]
    BY <1>0, <2>3, <2>5
  <2>7. UNCHANGED <<signVars, creator, cut>>
    BY <2>5
  <2> QED BY AdministratorWrites, <1>2, <2>1, <2>2, <2>3, <2>4, <2>6, <2>7
<1>4. CASE Assign(q)
  <2>1. /\ At(q, "assign") /\ ~RunsAcceptance(req[q])
        /\ UNCHANGED <<signVars, history>>
    BY <1>4 DEF Assign, RunsAcceptance, At
  <2>2. CASE End(q) /\ UNCHANGED user
    BY <1>0, <2>1, <2>2, Ends DEF history
  <2>3. ASSUME WriteUser(q, req[q].of,
                 [user[req[q].of] EXCEPT !.roles = @ \cup {req[q].role}],
                 IF req[q].todo = {} THEN Idle
                                     ELSE [req[q] EXCEPT !.pc = "findRole"])
        PROVE  AccountInv'
    <3>1. PICK u \in User : u = req[q].of
      BY <1>0, <2>1 DEF RequestOK, HasSubject, At
    <3>2. PICK r \in UserState :
            /\ r = [user[u] EXCEPT !.roles = @ \cup {req[q].role}]
            /\ r.status = user[u].status
            /\ r.roles = user[u].roles \cup {req[q].role}
      <4>1. user[u] \in UserState /\ req[q].role \in Role
        BY <1>0, <2>1 DEF RequestOK, HasSubject, At
      <4>2. [user[u] EXCEPT !.roles = @ \cup {req[q].role}] \in UserState
        BY <4>1 DEF UserState
      <4> QED BY <4>1, <4>2 DEF UserState
    <3>3. PICK next \in RequestState :
            /\ next = IF req[q].todo = {} THEN Idle
                                          ELSE [req[q] EXCEPT !.pc = "findRole"]
            /\ AssignsOrEnds(next)
      <4>1. PICK more \in RequestState :
              /\ more = [req[q] EXCEPT !.pc = "findRole"]
              /\ AssignsOrEnds(more)
        <5>1. [req[q] EXCEPT !.pc = "findRole"] \in RequestState
          BY <1>0 DEF RequestState, AdminPC
        <5>2. AssignsOrEnds([req[q] EXCEPT !.pc = "findRole"])
          BY <1>0, <3>1 DEF RequestState, AssignsOrEnds
        <5> QED BY <5>1, <5>2
      <4>2. CASE req[q].todo = {}
        BY <1>2, <4>2
      <4>3. CASE req[q].todo # {}
        BY <4>1, <4>3
      <4> QED BY <4>2, <4>3
    <3>4. WriteUser(q, u, r, next)
      BY <2>3, <3>1, <3>2, <3>3
    <3>5. UNCHANGED <<signVars, creator, removed, cut>>
      BY <2>1 DEF history
    <3>6. /\ removed' \in [User -> SUBSET Role]
          /\ \A v \in User : removed[v] \subseteq removed'[v]
          /\ user[u].roles \subseteq r.roles \cup removed'[u]
      BY <1>0, <3>2, <3>5
    <3>7. UNCHANGED <<signVars, creator, cut>>
      BY <3>5
    <3> QED BY AdministratorWrites, <2>1, <3>1, <3>2, <3>3, <3>4, <3>6, <3>7
  <2> QED BY <1>4, <2>2, <2>3 DEF Assign
<1>5. CASE DeleteRole(q)
  <2>1. /\ At(q, "delete") /\ ~RunsAcceptance(req[q])
        /\ UNCHANGED <<signVars, creator, cut>>
    BY <1>5 DEF DeleteRole, RunsAcceptance, At
  <2>2. CASE End(q) /\ UNCHANGED <<user, removed>>
    BY <1>0, <2>1, <2>2, Ends
  <2>3. ASSUME WriteUser(q, req[q].of,
                 [user[req[q].of] EXCEPT !.roles = @ \ {req[q].role}], Idle),
               removed' = [removed EXCEPT ![req[q].of] = @ \cup {req[q].role}]
        PROVE  AccountInv'
    <3>1. PICK u \in User : u = req[q].of
      BY <1>0, <2>1 DEF RequestOK, HasSubject, At
    <3>2. PICK r \in UserState :
            /\ r = [user[u] EXCEPT !.roles = @ \ {req[q].role}]
            /\ r.status = user[u].status
            /\ r.roles = user[u].roles \ {req[q].role}
      <4>1. user[u] \in UserState
        BY <1>0
      <4>2. [user[u] EXCEPT !.roles = @ \ {req[q].role}] \in UserState
        BY <4>1 DEF UserState
      <4> QED BY <4>1, <4>2 DEF UserState
    <3>3. WriteUser(q, u, r, Idle)
      BY <2>3, <3>1, <3>2
    <3>4. req[q].role \in Role
      BY <1>0, <2>1, <3>1 DEF RequestOK, HasSubject, At
    <3>5. /\ removed' \in [User -> SUBSET Role]
          /\ removed'[u] = removed[u] \cup {req[q].role}
          /\ \A v \in User : v # u => removed'[v] = removed[v]
      BY <1>0, <2>3, <3>1, <3>4
    <3>6. /\ \A v \in User : removed[v] \subseteq removed'[v]
          /\ user[u].roles \subseteq r.roles \cup removed'[u]
      BY <3>2, <3>5
    <3> QED BY AdministratorWrites, <1>2, <2>1, <3>1, <3>2, <3>3, <3>5, <3>6
  <2> QED BY <1>5, <2>2, <2>3 DEF DeleteRole
<1> QED BY <1>3, <1>4, <1>5

\* Every step keeps the invariant.
LEMMA AccountStep ==
  ASSUME AccountInv, [Next]_vars
  PROVE  AccountInv'
<1>1. CASE UNCHANGED vars
  <2>1. AccountTypeOK' /\ Rely({})
    BY <1>1 DEF AccountInv, AccountTypeOK, Rely, SameRequest, vars, signVars,
                history, Exists
  <2>2. StoreOK'
    BY <1>1 DEF AccountInv, StoreOK, LinksApart, SessionsOK, CreatorOK,
                Addressed, AcceptanceIsWhole, vars, signVars, history, Exists,
                Pending
  <2> QED BY <2>1, <2>2, NoRequest
<1>2. ASSUME NEW q \in Request, Arrival(q)
      PROVE  AccountInv'
  BY <1>2, Beginnings
<1>3. ASSUME NEW q \in Request, Statement(q)
      PROVE  AccountInv'
  BY <1>3, LinkStatements, Decisions, SessionStatements, InvitationStatements,
     AcceptanceStatements, AdministratorStatements
     DEF Statement, VerifyStatement, InviteStatement, PatchStatement,
         AssignStatement, RemoveRoleStatement
<1>4. ASSUME NEW q \in Request, Fail(q)
      PROVE  AccountInv'
  BY <1>4, Decisions
<1> QED BY <1>1, <1>2, <1>3, <1>4, SlotlessSteps DEF Next

LEMMA AccountBegins == Init => AccountInv
<1> SUFFICES ASSUME Init PROVE AccountInv
  OBVIOUS
<1>1. \A q \in Request : req[q] = Idle /\ req[q].pc = "idle"
  BY DEF Init, Idle
<1>2. AccountTypeOK
  <2>1. /\ NoInvitation \in InvitationState /\ NoMagicLink \in LinkState
        /\ NoSession \in SessionState /\ Idle \in RequestState
    BY IdleIsOK DEF NoInvitation, InvitationState, NoMagicLink, LinkState,
                    NoSession, SessionState, OrNone
  <2> QED BY <2>1 DEF Init, AccountTypeOK, OrNone
<1>3. \A q \in Request : RequestOK(q)
  BY <1>1 DEF RequestOK, HasSubject, HoldsLink, AfterUse, HoldsInvitation,
              HasSeen, At, Idle
<1>4. LinksApart
  BY <1>1 DEF LinksApart, AfterUse
<1>5. SessionsOK /\ CreatorOK
  BY DEF Init, SessionsOK, CreatorOK
<1>6. Addressed
  BY DEF Init, Addressed, NoMagicLink, NoInvitation
<1>7. AcceptanceIsWhole
  BY DEF Init, AcceptanceIsWhole, NoInvitation
<1> QED BY <1>2, <1>3, <1>4, <1>5, <1>6, <1>7 DEF AccountInv, StoreOK

\* The tables, the requests and what each request holds are consistent at any
\* time.
THEOREM AccountsInvariant == Spec => []AccountInv
BY AccountBegins, AccountStep, PTL DEF Spec

\* Every table holds rows of its type.
THEOREM AccountsTypeCorrect == Spec => []AccountTypeOK
<1>1. AccountInv => AccountTypeOK
  BY DEF AccountInv
<1> QED BY <1>1, AccountsInvariant, PTL

\* However many requests open a link, enter its code or replace it, it signs in
\* at most once.
THEOREM LinksSignInOnce == Spec => []OneSessionPerLink
<1>1. AccountInv => OneSessionPerLink
  BY DEF AccountInv, StoreOK, SessionsOK, OneSessionPerLink
<1> QED BY <1>1, AccountsInvariant, PTL

\* A user created from an invitation has its roles unless the request was cut
\* off or an administrator took them.
THEOREM AcceptancesAreWhole == Spec => []AcceptanceIsWhole
<1>1. AccountInv => AcceptanceIsWhole
  BY DEF AccountInv, StoreOK
<1> QED BY <1>1, AccountsInvariant, PTL

\* Who writes the table of users, and who creates a user.
LEMMA UserWriters ==
  ASSUME Next, user' # user
  PROVE  \E q \in Request : \/ CreateUser(q) \/ Grant(q) \/ Update(q)
                            \/ Assign(q) \/ DeleteRole(q)
<1>1. ASSUME NEW q \in Request, Arrival(q) PROVE user' = user
  BY <1>1 DEF Arrival, RequestLink, EnterCode, Invite, OpenLink, BeginVerify,
              Resend, Deactivate, Activate, Approve, Reject, AssignRoles,
              RemoveRole, Begin
<1>2. ASSUME NEW q \in Request, Fail(q) PROVE user' = user
  BY <1>2 DEF Fail
<1>3. ASSUME NEW q \in Request,
             \/ CreateLink(q) \/ CountGuess(q) \/ Consume(q)
             \/ FindInvitation(q) \/ Accept(q) \/ CreateSession(q)
             \/ CheckInvited(q) \/ CreateInvitation(q)
             \/ CreateInvitationLink(q) \/ VoidLinks(q) \/ CountAdmins(q)
             \/ RevokeAll(q) \/ CountRoles(q) \/ FindRole(q)
      PROVE  user' = user
  BY <1>3 DEF CreateLink, CountGuess, Consume, FindInvitation, Accept,
              CreateSession, CheckInvited, CreateInvitation,
              CreateInvitationLink, VoidLinks, CountAdmins, RevokeAll,
              CountRoles, FindRole
<1> QED BY <1>1, <1>2, <1>3
           DEF Next, Statement, VerifyStatement, InviteStatement,
               PatchStatement, AssignStatement, RemoveRoleStatement, Revoke,
               EndSession, ExpireLink

LEMMA Creators ==
  ASSUME Next, creator' # creator
  PROVE  \E q \in Request : CreateUser(q)
<1>1. ASSUME NEW q \in Request, Arrival(q) PROVE creator' = creator
  BY <1>1 DEF Arrival, RequestLink, EnterCode, Invite, OpenLink, BeginVerify,
              Resend, Deactivate, Activate, Approve, Reject, AssignRoles,
              RemoveRole, Begin, history
<1>2. ASSUME NEW q \in Request, Fail(q) PROVE creator' = creator
  BY <1>2 DEF Fail
<1>3. ASSUME NEW q \in Request,
             \/ CreateLink(q) \/ CountGuess(q) \/ Consume(q)
             \/ FindInvitation(q) \/ Accept(q) \/ CreateSession(q)
             \/ CheckInvited(q) \/ CreateInvitation(q)
             \/ CreateInvitationLink(q) \/ VoidLinks(q) \/ CountAdmins(q)
             \/ RevokeAll(q) \/ CountRoles(q) \/ FindRole(q)
      PROVE  creator' = creator
  BY <1>3 DEF CreateLink, CountGuess, Consume, FindInvitation, Accept,
              CreateSession, CheckInvited, CreateInvitation,
              CreateInvitationLink, VoidLinks, CountAdmins, RevokeAll,
              CountRoles, FindRole, history
<1>4. ASSUME NEW q \in Request,
             Grant(q) \/ Update(q) \/ Assign(q) \/ DeleteRole(q)
      PROVE  creator' = creator
  BY <1>4 DEF Grant, Update, Assign, DeleteRole, history
<1> QED BY <1>1, <1>2, <1>3, <1>4
           DEF Next, Statement, VerifyStatement, InviteStatement,
               PatchStatement, AssignStatement, RemoveRoleStatement, Revoke,
               EndSession, ExpireLink, history

\* What a write of the users does: one user changes.
OneUserChanges(q, u) ==
  /\ u = req[q].of /\ req'[q] # req[q]
  /\ \A v \in User : v # u => user'[v] = user[v]
  /\ \/ ~Exists(u) /\ At(q, "createUser")
     \/ /\ user'[u].status = user[u].status
        /\ \E r \in Role : user'[u].roles = user[u].roles \cup {r}
     \/ /\ req[q].pc \in {"update", "decide"}
        /\ user'[u] = [user[u] EXCEPT !.status = req[q].status]
     \/ /\ At(q, "delete") /\ req[q].role \in Role
        /\ user'[u].status = user[u].status
        /\ user'[u].roles = user[u].roles \ {req[q].role}

LEMMA UserWritesChangeOne ==
  ASSUME AccountInv, NEW q \in Request, user' # user,
         \/ CreateUser(q) \/ Grant(q) \/ Update(q) \/ Assign(q) \/ DeleteRole(q)
  PROVE  \E u \in User : OneUserChanges(q, u)
<1> USE DEF OneUserChanges
<1>0. /\ RequestOK(q) /\ req[q] \in RequestState
      /\ req \in [Request -> RequestState] /\ user \in [User -> UserState]
  BY DEF AccountInv, AccountTypeOK
<1>1. PICK u \in User : u = req[q].of
  BY <1>0 DEF RequestOK, HasSubject, At, CreateUser, Grant, Update, Assign,
              DeleteRole
<1>2. user[u] \in UserState
  BY <1>0
<1>3. ASSUME NEW r, NEW next, WriteUser(q, u, r, next)
      PROVE  /\ user'[u] = r /\ req'[q] = next
             /\ \A v \in User : v # u => user'[v] = user[v]
  BY <1>0, <1>3 DEF WriteUser
<1>4. CASE CreateUser(q)
  <2>1. PICK next : /\ ~Exists(u) /\ At(q, "createUser") /\ next.pc = "grant"
                    /\ WriteUser(q, u, [status |-> "active", roles |-> {}], next)
    BY <1>0, <1>1, <1>4 DEF CreateUser, RequestState
  <2> QED BY <1>1, <1>3, <2>1 DEF At
<1>5. CASE Grant(q)
  <2>0. PICK r \in req[q].todo :
          WriteUser(q, u, [user[u] EXCEPT !.roles = @ \cup {r}],
            [req[q] EXCEPT
               !.todo = req[q].todo \ {r},
               !.pc = IF req[q].todo = {r} THEN "accept" ELSE "grant"])
    BY <1>1, <1>5 DEF Grant
  <2>1. PICK next :
          /\ WriteUser(q, u, [user[u] EXCEPT !.roles = @ \cup {r}], next)
          /\ next.todo = req[q].todo \ {r} /\ r \in Role
    <3>1. r \in Role
      BY <1>0 DEF RequestState
    <3>2. [req[q] EXCEPT
               !.todo = req[q].todo \ {r},
               !.pc = IF req[q].todo = {r} THEN "accept" ELSE "grant"].todo
          = req[q].todo \ {r}
      BY <1>0 DEF RequestState
    <3> QED BY <2>0, <3>1, <3>2
  <2>2. /\ user'[u] = [user[u] EXCEPT !.roles = @ \cup {r}] /\ req'[q] = next
        /\ \A v \in User : v # u => user'[v] = user[v]
    BY <1>3, <2>1
  <2>3. /\ user'[u].status = user[u].status
        /\ user'[u].roles = user[u].roles \cup {r}
    BY <1>2, <2>2 DEF UserState
  <2>4. req'[q] # req[q]
    BY <2>1, <2>2
  <2> QED BY <1>1, <2>1, <2>2, <2>3, <2>4
<1>6. CASE Update(q)
  <2>1. /\ WriteUser(q, u, [user[u] EXCEPT !.status = req[q].status], Idle)
        /\ req[q].pc \in {"update", "decide"}
    BY <1>1, <1>6 DEF Update
  <2>2. Idle.pc = "idle"
    BY DEF Idle
  <2> QED BY <1>1, <1>3, <2>1, <2>2
<1>7. CASE Assign(q)
  <2>1. PICK next :
          /\ WriteUser(q, u, [user[u] EXCEPT !.roles = @ \cup {req[q].role}],
                       next)
          /\ next.pc # "assign" /\ At(q, "assign")
    BY <1>0, <1>1, <1>7 DEF Assign, RequestState, Idle
  <2>2. /\ user'[u] = [user[u] EXCEPT !.roles = @ \cup {req[q].role}]
        /\ req'[q] = next /\ \A v \in User : v # u => user'[v] = user[v]
    BY <1>3, <2>1
  <2>3. /\ user'[u].status = user[u].status /\ req[q].role \in Role
        /\ user'[u].roles = user[u].roles \cup {req[q].role}
    BY <1>0, <1>2, <2>1, <2>2 DEF UserState, RequestOK, HasSubject, At
  <2> QED BY <1>1, <2>1, <2>2, <2>3 DEF At
<1>8. CASE DeleteRole(q)
  <2>1. /\ WriteUser(q, u, [user[u] EXCEPT !.roles = @ \ {req[q].role}], Idle)
        /\ At(q, "delete")
    BY <1>1, <1>8 DEF DeleteRole
  <2>2. /\ user'[u] = [user[u] EXCEPT !.roles = @ \ {req[q].role}]
        /\ req'[q] = Idle /\ \A v \in User : v # u => user'[v] = user[v]
    BY <1>3, <2>1
  <2>3. /\ user'[u].status = user[u].status /\ req[q].role \in Role
        /\ user'[u].roles = user[u].roles \ {req[q].role}
    BY <1>0, <1>2, <2>1, <2>2 DEF UserState, RequestOK, HasSubject, At
  <2>4. Idle.pc = "idle"
    BY DEF Idle
  <2> QED BY <1>1, <2>1, <2>2, <2>3, <2>4 DEF At
<1> QED BY <1>4, <1>5, <1>6, <1>7, <1>8

\* A revoked invitation creates a user only by a request it overtook.
THEOREM RevokedInvitationsCreateNoUser == Spec => RevokedCreatesNoUser
<1>1. ASSUME AccountInv, [Next]_vars, NEW u \in User, creator'[u] # creator[u],
             invitation[creator'[u]].status = "revoked"
      PROVE  \E q \in Request :
               At(q, "createUser") /\ req[q].of = u /\ req[q].overtaken
  <2>1. PICK q \in Request : CreateUser(q)
    BY <1>1, Creators DEF vars, history
  <2>2. /\ At(q, "createUser") /\ RequestOK(q) /\ req[q].of \in User
        /\ creator \in [User -> OrNone(Invitation)]
    BY <1>1, <2>1 DEF CreateUser, AccountInv, AccountTypeOK, RequestOK,
                      HasSubject, At
  <2>3. creator' = [creator EXCEPT ![req[q].of] = req[q].invitation]
    BY <1>1, <2>1 DEF CreateUser
  <2>4. req[q].of = u /\ creator'[u] = req[q].invitation
    BY <1>1, <2>2, <2>3
  <2> QED BY <1>1, <2>2, <2>4 DEF RequestOK, HoldsInvitation
<1>2. AccountInv /\ [Next]_vars =>
        [\A u \in User :
           /\ creator'[u] # creator[u]
           /\ invitation[creator'[u]].status = "revoked"
           => \E q \in Request :
                At(q, "createUser") /\ req[q].of = u /\ req[q].overtaken]_vars
  BY <1>1
<1> QED BY <1>2, AccountsInvariant, PTL DEF Spec, RevokedCreatesNoUser

\* The last active super_admin goes only by a request that acted on a state
\* written over since, however many administrators act at once.
THEOREM TheLastSuperAdminStays == Spec => LastSuperAdminStays
<1>1. ASSUME AccountInv, [Next]_vars, SuperAdmins # {}, SuperAdmins' = {}
      PROVE  \E q \in Request : StaleStep(q)
  <2>1. user' # user
    BY <1>1 DEF SuperAdmins, Active, IsSuperAdmin
  <2>2. PICK q \in Request : \/ CreateUser(q) \/ Grant(q) \/ Update(q)
                            \/ Assign(q) \/ DeleteRole(q)
    BY <1>1, <2>1, UserWriters DEF vars
  <2>3. PICK u \in User : OneUserChanges(q, u)
    BY <1>1, <2>1, <2>2, UserWritesChangeOne
  <2>4. RequestOK(q) /\ req[q] \in RequestState /\ user[u] \in UserState
    BY <1>1 DEF AccountInv, AccountTypeOK
  <2>5. ~AnotherSuperAdmin(u)
    BY <1>1, <2>3
       DEF OneUserChanges, AnotherSuperAdmin, SuperAdmins, Active, IsSuperAdmin
  <2>6. u \in SuperAdmins /\ ~(Active(u)' /\ IsSuperAdmin(u)')
    BY <1>1, <2>5 DEF AnotherSuperAdmin, SuperAdmins
  <2>7. req[q].stale
    <3>1. CASE ~Exists(u)
      BY <2>6, <3>1 DEF SuperAdmins, Active, Exists
    <3>2. CASE /\ user'[u].status = user[u].status
               /\ \E r \in Role : user'[u].roles = user[u].roles \cup {r}
      BY <2>6, <3>2 DEF SuperAdmins, Active, IsSuperAdmin
    <3>3. CASE /\ req[q].pc \in {"update", "decide"}
               /\ user'[u] = [user[u] EXCEPT !.status = req[q].status]
      <4>1. /\ user'[u].status = req[q].status /\ user'[u].roles = user[u].roles
            /\ req[q].status \in {"active", "deactivated"}
        BY <2>4, <3>3 DEF UserState, RequestOK, HasSubject, RequestState
      <4>2. req[q].status = "deactivated"
        BY <2>6, <4>1 DEF SuperAdmins, Active, IsSuperAdmin
      <4> QED BY <2>3, <2>4, <2>5, <2>6, <3>3, <4>2
                 DEF OneUserChanges, RequestOK, HasSeen, SuperAdmins, Active, IsSuperAdmin, At
    <3>4. CASE /\ At(q, "delete") /\ req[q].role \in Role
               /\ user'[u].status = user[u].status
               /\ user'[u].roles = user[u].roles \ {req[q].role}
      <4>1. req[q].role = "super_admin" /\ req[q].status = "none"
        BY <2>4, <2>6, <3>4
           DEF SuperAdmins, Active, IsSuperAdmin, RequestOK, HasSubject
      <4> QED BY <2>3, <2>4, <2>5, <3>4, <4>1
                 DEF OneUserChanges, RequestOK, HasSeen, At
    <3> QED BY <2>3, <3>1, <3>2, <3>3, <3>4 DEF OneUserChanges
  <2> QED BY <2>3, <2>7 DEF OneUserChanges, StaleStep
<1>2. AccountInv /\ [Next]_vars =>
        [SuperAdmins # {} /\ SuperAdmins' = {} =>
           \E q \in Request : StaleStep(q)]_vars
  BY <1>1
<1> QED BY <1>2, AccountsInvariant, PTL DEF Spec, LastSuperAdminStays

\* So does the last role of an active user.
THEOREM ActiveUsersKeepARole == Spec => ActiveKeepsRole
<1>1. ASSUME AccountInv, [Next]_vars, NEW v \in User, Active(v)',
             user'[v].roles = {}, user'[v] # user[v], Exists(v)
      PROVE  \E q \in Request : StaleStep(q)
  <2>1. user' # user
    BY <1>1
  <2>2. PICK q \in Request : \/ CreateUser(q) \/ Grant(q) \/ Update(q)
                            \/ Assign(q) \/ DeleteRole(q)
    BY <1>1, <2>1, UserWriters DEF vars
  <2>3. v = req[q].of /\ OneUserChanges(q, v)
    BY <1>1, <2>1, <2>2, UserWritesChangeOne DEF OneUserChanges
  <2>4. RequestOK(q) /\ req[q] \in RequestState /\ user[v] \in UserState
    BY <1>1 DEF AccountInv, AccountTypeOK
  <2>5. req[q].stale
    <3>1. CASE /\ user'[v].status = user[v].status
               /\ \E r \in Role : user'[v].roles = user[v].roles \cup {r}
      BY <1>1, <3>1
    <3>2. CASE /\ req[q].pc \in {"update", "decide"}
               /\ user'[v] = [user[v] EXCEPT !.status = req[q].status]
      <4>1. user'[v].status = req[q].status /\ user'[v].roles = user[v].roles
        BY <2>4, <3>2 DEF UserState
      <4>2. req[q].status = "active" /\ user[v].roles = {}
        BY <1>1, <4>1 DEF Active
      <4>3. ~Active(v)
        BY <1>1, <2>4, <3>2, <4>2 DEF Active, UserState
      <4> QED BY <2>3, <2>4, <3>2, <4>2, <4>3 DEF RequestOK, HasSeen, At
    <3>3. CASE /\ At(q, "delete") /\ req[q].role \in Role
               /\ user'[v].status = user[v].status
               /\ user'[v].roles = user[v].roles \ {req[q].role}
      BY <1>1, <2>3, <2>4, <3>3 DEF RequestOK, HasSeen, At
    <3> QED BY <1>1, <2>3, <3>1, <3>2, <3>3 DEF OneUserChanges
  <2> QED BY <2>3, <2>5 DEF OneUserChanges, StaleStep
<1>2. AccountInv /\ [Next]_vars =>
        [\A u \in User :
           /\ Active(u)' /\ user'[u].roles = {}
           /\ user'[u] # user[u] /\ Exists(u)
           => \E q \in Request : StaleStep(q)]_vars
  BY <1>1
<1> QED BY <1>2, AccountsInvariant, PTL DEF Spec, ActiveKeepsRole

\* An approval or a rejection overturns another decision only if it had read
\* the status before.
THEOREM DecisionsOnApplicantsStand == Spec => DecisionsStand
<1>1. ASSUME AccountInv, NEW q \in Request, At(q, "decide"), ~req[q].stale
      PROVE  user[req[q].of].status = "pending_approval"
  BY <1>1 DEF AccountInv, RequestOK, HasSeen, At
<1>2. AccountInv =>
        [\A q \in Request :
           At(q, "decide") /\ ~req[q].stale /\ user' # user
             /\ req'[q].pc = "idle"
           => user[req[q].of].status = "pending_approval"]_vars
  BY <1>1
<1> QED BY <1>2, AccountsInvariant, PTL DEF Spec, DecisionsStand

\* The requests that compared a wrong code of l and did not count it yet.
Guessing(l) == {q \in Request : At(q, "count") /\ req[q].link = l}

\* A link takes no guess beyond the limit but those under way when it was
\* reached.
GuessInv ==
  \A l \in Link : link[l].attempts + Cardinality(Guessing(l))
                    <= MaxAttempts + Cardinality(Request) - 1

\* No request goes over to counting a guess.
NoGuessBegins ==
  \A p \in Request : req'[p].pc = "count" =>
    req[p].pc = "count" /\ req'[p].link = req[p].link

LEMMA OtherArrivals ==
  ASSUME AccountInv, NEW q \in Request, Arrival(q),
         ~\E e \in User, l \in Link : EnterCode(q, e, l, FALSE)
  PROVE  NoGuessBegins /\ link' = link
<1>0. req \in [Request -> RequestState]
  BY DEF AccountInv, AccountTypeOK
<1>1. ASSUME NEW r, Begin(q, r), r.pc # "count"
      PROVE  NoGuessBegins /\ link' = link
  BY <1>0, <1>1 DEF Begin, signVars, NoGuessBegins
<1>2. ASSUME NEW e \in User, NEW l \in Link, NEW right \in BOOLEAN,
             EnterCode(q, e, l, right)
      PROVE  NoGuessBegins /\ link' = link
  <2>1. right = TRUE
    BY <1>2
  <2> QED BY <1>1, <1>2, <2>1 DEF EnterCode, BeginVerify, Idle
<1>3. ASSUME NEW e, RequestLink(q, e)
      PROVE  NoGuessBegins /\ link' = link
  BY <1>1, <1>3 DEF RequestLink, Idle
<1>4. ASSUME NEW l \in Link, OpenLink(q, l)
      PROVE  NoGuessBegins /\ link' = link
  BY <1>1, <1>4 DEF OpenLink, BeginVerify, Idle
<1>5. ASSUME NEW a, NEW e, NEW roles, Invite(q, a, e, roles)
      PROVE  NoGuessBegins /\ link' = link
  BY <1>1, <1>5 DEF Invite, Idle
<1>6. ASSUME NEW a, NEW i, Resend(q, a, i)
      PROVE  NoGuessBegins /\ link' = link
  BY <1>1, <1>6 DEF Resend, Idle
<1>7. ASSUME NEW a, NEW u, \/ Deactivate(q, a, u) \/ Activate(q, a, u)
                           \/ Approve(q, a, u) \/ Reject(q, a, u)
      PROVE  NoGuessBegins /\ link' = link
  BY <1>1, <1>7 DEF Deactivate, Activate, Approve, Reject, Idle
<1>8. ASSUME NEW a, NEW u, NEW roles, AssignRoles(q, a, u, roles)
      PROVE  NoGuessBegins /\ link' = link
  BY <1>1, <1>8 DEF AssignRoles, Idle
<1>9. ASSUME NEW a, NEW u, NEW r, RemoveRole(q, a, u, r)
      PROVE  NoGuessBegins /\ link' = link
  BY <1>1, <1>9 DEF RemoveRole, Idle
<1> QED BY <1>2, <1>3, <1>4, <1>5, <1>6, <1>7, <1>8, <1>9 DEF Arrival

LEMMA OtherSteps ==
  ASSUME AccountInv, [Next]_vars,
         ~\E q \in Request : Arrival(q) \/ CountGuess(q)
  PROVE  NoGuessBegins
<1>0. req \in [Request -> RequestState]
  BY DEF AccountInv, AccountTypeOK
<1>1. ASSUME NEW q \in Request, NEW r, r.pc # "count",
             req' = [req EXCEPT ![q] = r]
      PROVE  NoGuessBegins
  BY <1>0, <1>1 DEF NoGuessBegins
<1>2. ASSUME NEW q \in Request, End(q)
      PROVE  NoGuessBegins
  BY <1>0, <1>2 DEF NoGuessBegins, End, Idle
<1>3. ASSUME NEW q \in Request, NEW pc, pc # "count", Go(q, pc)
      PROVE  NoGuessBegins
  BY <1>0, <1>3 DEF NoGuessBegins, Go, RequestState
<1>4. ASSUME NEW q \in Request, NEW u, NEW r, NEW next, next.pc # "count",
             WriteUser(q, u, r, next)
      PROVE  NoGuessBegins
  BY <1>0, <1>4 DEF NoGuessBegins, WriteUser, RequestState
<1>5. ASSUME NEW q \in Request, \/ CreateLink(q) \/ CreateSession(q)
                               \/ CreateInvitationLink(q) \/ Fail(q)
      PROVE  NoGuessBegins
  BY <1>2, <1>5 DEF CreateLink, CreateSession, CreateInvitationLink, Fail
<1>6. ASSUME NEW q \in Request,
             \/ Consume(q) \/ Accept(q) \/ CheckInvited(q)
             \/ CreateInvitation(q) \/ VoidLinks(q) \/ CountAdmins(q)
             \/ RevokeAll(q) \/ CountRoles(q)
      PROVE  NoGuessBegins
  BY <1>2, <1>3, <1>6 DEF Consume, Accept, CheckInvited, CreateInvitation,
                          VoidLinks, CountAdmins, RevokeAll, CountRoles
<1>7. ASSUME NEW q \in Request, FindInvitation(q) \/ FindRole(q)
      PROVE  NoGuessBegins
  <2>1. ASSUME NEW i, req' = [req EXCEPT
                 ![q].pc = "createUser", ![q].invitation = i,
                 ![q].todo = invitation[i].roles]
        PROVE  NoGuessBegins
    BY <1>0, <2>1 DEF NoGuessBegins, RequestState
  <2>2. ASSUME NEW r, req' = [req EXCEPT ![q].todo = req[q].todo \ {r}],
               At(q, "findRole")
        PROVE  NoGuessBegins
    BY <1>0, <2>2 DEF NoGuessBegins, RequestState, At
  <2>3. ASSUME NEW r, req' = [req EXCEPT
                 ![q].pc = "assign", ![q].role = r,
                 ![q].todo = req[q].todo \ {r}]
        PROVE  NoGuessBegins
    BY <1>0, <2>3 DEF NoGuessBegins, RequestState
  <2>4. CASE FindInvitation(q)
    BY <1>2, <2>1, <2>4 DEF FindInvitation
  <2>5. CASE FindRole(q)
    BY <1>2, <2>2, <2>3, <2>5 DEF FindRole
  <2> QED BY <1>7, <2>4, <2>5
<1>8. ASSUME NEW q \in Request,
             \/ CreateUser(q) \/ Grant(q) \/ Update(q) \/ Assign(q)
             \/ DeleteRole(q)
      PROVE  NoGuessBegins
  <2>1. \A pc \in {"grant", "accept", "findRole"}, todo \in SUBSET Role :
          /\ [req[q] EXCEPT !.pc = pc].pc = pc
          /\ [req[q] EXCEPT !.todo = todo, !.pc = pc].pc = pc
    BY <1>0 DEF RequestState
  <2>2. Idle.pc = "idle" /\ req[q].todo \in SUBSET Role
    BY <1>0 DEF Idle, RequestState
  <2>3. CASE CreateUser(q) \/ Update(q) \/ DeleteRole(q)
    BY <1>2, <1>4, <2>1, <2>2, <2>3 DEF CreateUser, Update, DeleteRole
  <2>4. CASE Assign(q)
    BY <1>2, <1>4, <2>1, <2>2, <2>4 DEF Assign
  <2>5. CASE Grant(q)
    BY <1>2, <1>4, <2>1, <2>2, <2>5 DEF Grant
  <2> QED BY <1>8, <2>3, <2>4, <2>5
<1>9. ASSUME NEW a, NEW i, Revoke(a, i)
      PROVE  NoGuessBegins
  BY <1>0, <1>9 DEF Revoke, NoGuessBegins, RequestState
<1>10. ASSUME \/ \E s \in Session : EndSession(s)
              \/ \E l \in Link : ExpireLink(l)
              \/ UNCHANGED vars
       PROVE  NoGuessBegins
  BY <1>10 DEF EndSession, ExpireLink, vars, NoGuessBegins
<1> QED BY <1>5, <1>6, <1>7, <1>8, <1>9, <1>10
           DEF Next, Statement, VerifyStatement, InviteStatement,
               PatchStatement, AssignStatement, RemoveRoleStatement

\* The attempts of a link only change by a guess or when the link is created.
LEMMA AttemptsStay ==
  ASSUME AccountInv, [Next]_vars, ~\E q \in Request : CountGuess(q),
         NEW l \in Link
  PROVE  link'[l].attempts \in {link[l].attempts, 0}
<1>0. link \in [Link -> LinkState] /\ link[l] \in LinkState
  BY DEF AccountInv, AccountTypeOK
<1>1. ASSUME NEW e, NEW purpose, NEW known, NewLink(e, purpose, known)
      PROVE  link'[l].attempts \in {link[l].attempts, 0}
  BY <1>0, <1>1 DEF NewLink
<1>2. ASSUME NEW q \in Request, \/ CreateLink(q) \/ CreateInvitationLink(q)
      PROVE  link'[l].attempts \in {link[l].attempts, 0}
  BY <1>1, <1>2 DEF CreateLink, CreateInvitationLink
<1>3. ASSUME NEW q \in Request, Consume(q) \/ VoidLinks(q)
      PROVE  link'[l].attempts = link[l].attempts
  <2>1. req[q].link \in Link \/ ~Consume(q)
    BY DEF AccountInv, RequestOK, HoldsLink, Consume, At
  <2> QED BY <1>0, <1>3, <2>1 DEF Consume, VoidLinks, LinkState
<1>4. ASSUME NEW k \in Link, ExpireLink(k)
      PROVE  link'[l].attempts = link[l].attempts
  BY <1>0, <1>4 DEF ExpireLink, LinkState
<1>5. ASSUME NEW q \in Request, Arrival(q) PROVE link' = link
  BY <1>5 DEF Arrival, RequestLink, EnterCode, Invite, OpenLink, BeginVerify,
              Resend, Deactivate, Activate, Approve, Reject, AssignRoles,
              RemoveRole, Begin, signVars
<1>6. ASSUME NEW q \in Request,
             \/ FindInvitation(q) \/ Accept(q) \/ CreateSession(q)
             \/ CheckInvited(q) \/ CreateInvitation(q) \/ CountAdmins(q)
             \/ RevokeAll(q) \/ CountRoles(q) \/ FindRole(q) \/ Fail(q)
             \/ CreateUser(q) \/ Grant(q) \/ Update(q) \/ Assign(q)
             \/ DeleteRole(q)
      PROVE  link' = link
  BY <1>6 DEF FindInvitation, Accept, CreateSession, CheckInvited,
              CreateInvitation, CountAdmins, RevokeAll, CountRoles, FindRole,
              Fail, CreateUser, Grant, Update, Assign, DeleteRole, signVars
<1> QED BY <1>2, <1>3, <1>4, <1>5, <1>6
           DEF Next, Statement, VerifyStatement, InviteStatement,
               PatchStatement, AssignStatement, RemoveRoleStatement, Revoke,
               EndSession, vars, signVars

LEMMA GuessStep ==
  ASSUME AccountInv, GuessInv, [Next]_vars
  PROVE  GuessInv'
<1> SUFFICES ASSUME NEW l \in Link
             PROVE  link'[l].attempts + Cardinality(Guessing(l)')
                      <= MaxAttempts + Cardinality(Request) - 1
  BY DEF GuessInv
<1>0. /\ req \in [Request -> RequestState] /\ link \in [Link -> LinkState]
      /\ link[l].attempts \in Nat
  BY DEF AccountInv, AccountTypeOK, LinkState
<1>1. /\ Guessing(l) \subseteq Request /\ Guessing(l)' \subseteq Request
  BY DEF Guessing
<1>2. /\ IsFiniteSet(Guessing(l)) /\ IsFiniteSet(Guessing(l)')
      /\ Cardinality(Guessing(l)) \in Nat /\ Cardinality(Guessing(l)') \in Nat
      /\ Cardinality(Request) \in Nat
      /\ Cardinality(Guessing(l)') <= Cardinality(Request)
  BY <1>1, FS_Subset, FS_CardinalityType
<1>3. link[l].attempts + Cardinality(Guessing(l))
        <= MaxAttempts + Cardinality(Request) - 1
  BY DEF GuessInv
<1>4. MaxAttempts \in Nat /\ MaxAttempts >= 1
  OBVIOUS
<1>5. ASSUME link'[l].attempts \in {link[l].attempts, 0}, NoGuessBegins
      PROVE  link'[l].attempts + Cardinality(Guessing(l)')
               <= MaxAttempts + Cardinality(Request) - 1
  <2>1. Guessing(l)' \subseteq Guessing(l)
    BY <1>5 DEF NoGuessBegins, Guessing, At
  <2>2. Cardinality(Guessing(l)') <= Cardinality(Guessing(l))
    BY <1>2, <2>1, FS_Subset
  <2> QED BY <1>0, <1>2, <1>3, <1>4, <1>5, <2>2
<1>6. ASSUME NEW q \in Request, CountGuess(q)
      PROVE  link'[l].attempts + Cardinality(Guessing(l)')
               <= MaxAttempts + Cardinality(Request) - 1
  <2>1. /\ At(q, "count") /\ req[q].link \in Link
        /\ link' = [link EXCEPT ![req[q].link].attempts = @ + 1] /\ End(q)
    BY <1>6 DEF CountGuess, AccountInv, RequestOK, HoldsLink, At
  <2>2. NoGuessBegins /\ ~At(q, "count")'
    BY <1>0, <2>1 DEF NoGuessBegins, End, Idle, At
  <2>3. CASE req[q].link # l
    <3>1. link'[l].attempts = link[l].attempts
      BY <1>0, <2>1, <2>3
    <3> QED BY <1>5, <2>2, <3>1
  <2>4. CASE req[q].link = l
    <3>1. link'[l].attempts = link[l].attempts + 1
      BY <1>0, <2>1, <2>4 DEF LinkState
    <3>2. q \in Guessing(l) /\ Guessing(l)' \subseteq Guessing(l) \ {q}
      BY <2>1, <2>2, <2>4 DEF Guessing, NoGuessBegins, At
    <3>3. /\ IsFiniteSet(Guessing(l) \ {q})
          /\ Cardinality(Guessing(l) \ {q}) = Cardinality(Guessing(l)) - 1
      BY <1>2, <3>2, FS_RemoveElement
    <3>4. Cardinality(Guessing(l)') <= Cardinality(Guessing(l)) - 1
      BY <3>2, <3>3, FS_Subset
    <3> QED BY <1>0, <1>2, <1>3, <1>4, <3>1, <3>4
  <2> QED BY <2>3, <2>4
<1>7. ASSUME NEW q \in Request, NEW e \in User, NEW k \in Link,
             EnterCode(q, e, k, FALSE)
      PROVE  link'[l].attempts + Cardinality(Guessing(l)')
               <= MaxAttempts + Cardinality(Request) - 1
  <2>1. /\ link[k].attempts < MaxAttempts /\ link' = link
        /\ req' = [req EXCEPT ![q] = [Idle EXCEPT
              !.pc = "count", !.of = link[k].email, !.link = k,
              !.known = link[k].known]]
    BY <1>7 DEF EnterCode, BeginVerify, Begin, signVars
  <2>2. req'[q].link = k /\ \A p \in Request : p # q => req'[p] = req[p]
    BY <1>0, <2>1 DEF Idle
  <2>3. CASE k = l
    BY <1>0, <1>2, <1>4, <2>1, <2>3
  <2>4. CASE k # l
    <3>1. Guessing(l)' \subseteq Guessing(l)
      BY <2>2, <2>4 DEF Guessing, At
    <3>2. Cardinality(Guessing(l)') <= Cardinality(Guessing(l))
      BY <1>2, <3>1, FS_Subset
    <3> QED BY <1>0, <1>2, <1>3, <1>4, <2>1, <3>2
  <2> QED BY <2>3, <2>4
<1>8. ASSUME NEW q \in Request, Arrival(q),
             ~\E e \in User, k \in Link : EnterCode(q, e, k, FALSE)
      PROVE  link'[l].attempts + Cardinality(Guessing(l)')
               <= MaxAttempts + Cardinality(Request) - 1
  BY <1>5, <1>8, OtherArrivals
<1>9. CASE ~\E q \in Request : Arrival(q) \/ CountGuess(q)
  <2>1. NoGuessBegins
    BY <1>9, OtherSteps
  <2>2. link'[l].attempts \in {link[l].attempts, 0}
    BY <1>9, AttemptsStay
  <2> QED BY <1>5, <2>1, <2>2
<1> QED BY <1>6, <1>7, <1>8, <1>9

\* Whatever the number of requests, a link takes at most one guess too many for
\* every further one under way.
THEOREM GuessesStayBounded == Spec => []GuessesBounded
<1>1. Init => GuessInv
  <2> SUFFICES ASSUME Init, NEW l \in Link
               PROVE  link[l].attempts + Cardinality(Guessing(l))
                        <= MaxAttempts + Cardinality(Request) - 1
    BY DEF GuessInv
  <2>1. link[l].attempts = 0
    BY DEF Init, NoMagicLink
  <2>2. Guessing(l) = {}
    BY DEF Init, Guessing, At, Idle
  <2>3. Cardinality(Guessing(l)) = 0
    BY <2>2, FS_EmptySet
  <2>4. Cardinality(Request) \in Nat
    BY FS_CardinalityType
  <2> QED BY <2>1, <2>3, <2>4
<1>2. AccountInv /\ GuessInv => GuessesBounded
  <2> SUFFICES ASSUME AccountInv, GuessInv, NEW l \in Link
               PROVE  link[l].attempts
                        <= MaxAttempts + Cardinality(Request) - 1
    BY DEF GuessesBounded
  <2>1. Guessing(l) \subseteq Request
    BY DEF Guessing
  <2>2. Cardinality(Guessing(l)) \in Nat /\ Cardinality(Request) \in Nat
    BY <2>1, FS_Subset, FS_CardinalityType
  <2>3. link[l].attempts \in Nat
    BY DEF AccountInv, AccountTypeOK, LinkState
  <2> QED BY <2>2, <2>3 DEF GuessInv
<1> QED BY <1>1, <1>2, GuessStep, AccountsInvariant, PTL DEF Spec
-----------------------------------------------------------------------------
(***************************************************************************)
(* Who a session belongs to.  A request carries the address of its link    *)
(* and whether that was a user's through up to seven statements; what it   *)
(* carries is never looked up again, so it has to stay true.               *)
(***************************************************************************)

\* The statements of a request that opened a link or entered its code.
Verifying == {"consume", "count"} \cup AfterUse

\* What a request carries of its link and its user is right.
CarriesAddressee(q) ==
  /\ req[q].pc \in Verifying =>
       /\ req[q].of = link[req[q].link].email
       /\ req[q].known = link[req[q].link].known
  /\ At(q, "createLink") /\ req[q].known => Exists(req[q].of)
  /\ req[q].pc \in {"grant", "accept", "session"} => Exists(req[q].of)

LinksKnowUsers ==
  \A l \in Link :
    link[l].status # "none" /\ link[l].known => Exists(link[l].email)

\* A session signs in the address its link was sent to, and it is a user's.
SessionIsOfAddressee ==
  \A s \in Session : session[s].user # None =>
    /\ session[s].user = link[session[s].link].email
    /\ Exists(session[s].user)

AddressInv ==
  /\ AccountInv /\ LinksKnowUsers /\ SessionIsOfAddressee
  /\ \A q \in Request : CarriesAddressee(q)

\* No handler deletes a user or writes the status "none".
LEMMA UsersStay ==
  ASSUME AccountInv, [Next]_vars, NEW u \in User, Exists(u)
  PROVE  user'[u].status # "none"
<1>1. CASE user' = user
  BY <1>1 DEF Exists
<1>2. CASE user' # user
  <2>1. PICK q \in Request : \/ CreateUser(q) \/ Grant(q) \/ Update(q)
                            \/ Assign(q) \/ DeleteRole(q)
    BY <1>2, UserWriters DEF vars
  <2>2. PICK v \in User : OneUserChanges(q, v)
    BY <1>2, <2>1, UserWritesChangeOne
  <2>3. CASE v # u
    BY <2>2, <2>3 DEF OneUserChanges, Exists
  <2>4. CASE v = u
    <3>1. user[u] \in UserState /\ RequestOK(q)
      BY DEF AccountInv, AccountTypeOK
    <3>2. CASE req[q].pc \in {"update", "decide"}
               /\ user'[u] = [user[u] EXCEPT !.status = req[q].status]
      <4>1. req[q].status # "none"
        BY <3>1, <3>2 DEF RequestOK, HasSubject
      <4> QED BY <3>1, <3>2, <4>1 DEF Exists, UserState
    <3> QED BY <2>2, <2>4, <3>2 DEF OneUserChanges, Exists
  <2> QED BY <2>3, <2>4
<1> QED BY <1>1, <1>2

\* What a step may do to the links and the sessions besides.
LinksKeepAddress ==
  \A l \in Link :
    \/ /\ link[l].status # "none"
       /\ link'[l].email = link[l].email /\ link'[l].known = link[l].known
    \/ link[l].status = "none" /\ link'[l].status = "none"
    \/ /\ link[l].status = "none"
       /\ link'[l].known => Exists(link'[l].email)
SessionsKeepAddress ==
  \A s \in Session :
    \/ session'[s].user = session[s].user /\ session'[s].link = session[s].link
    \/ \E q \in Request : /\ At(q, "session")
                          /\ session'[s].user = req[q].of
                          /\ session'[s].link = req[q].link
OthersCarryOn(q) ==
  \A p \in Request \ {q} :
    /\ req'[p].pc = req[p].pc /\ req'[p].of = req[p].of
    /\ req'[p].link = req[p].link /\ req'[p].known = req[p].known

LEMMA AddressStep ==
  ASSUME AddressInv, [Next]_vars, NEW q, OthersCarryOn(q),
         q \in Request => CarriesAddressee(q)',
         LinksKeepAddress, SessionsKeepAddress
  PROVE  AddressInv'
<1>1. AccountInv /\ AccountInv'
  BY AccountStep DEF AddressInv
<1>2. \A l \in Link : link[l].status # "none" => link[l].email \in User
  BY <1>1 DEF AccountInv, StoreOK, Addressed
<1>3. LinksKnowUsers'
  <2> SUFFICES ASSUME NEW l \in Link, link'[l].status # "none", link'[l].known
               PROVE  user'[link'[l].email].status # "none"
    BY DEF LinksKnowUsers, Exists
  <2>1. link'[l].email \in User
    BY <1>1 DEF AccountInv, StoreOK, Addressed
  <2>2. Exists(link'[l].email)
    BY DEF LinksKeepAddress, AddressInv, LinksKnowUsers
  <2> QED BY <1>1, <2>1, <2>2, UsersStay
<1>4. \A p \in Request : req[p].pc \in Verifying =>
        req[p].link \in Link /\ link[req[p].link].status # "none"
  BY <1>1 DEF AccountInv, RequestOK, HoldsLink, Verifying, At
<1>5. \A p \in Request : ~At(p, "idle") => req[p].of \in User
  BY <1>1 DEF AccountInv, RequestOK, HasSubject
<1>6. ASSUME NEW p \in Request \ {q}
      PROVE  CarriesAddressee(p)'
  <2>1. CarriesAddressee(p)
    BY DEF AddressInv
  <2>2. req[p].pc \in {"createLink", "grant", "accept", "session"}
        /\ Exists(req[p].of) => user'[req[p].of].status # "none"
    <3> SUFFICES ASSUME ~At(p, "idle"), Exists(req[p].of)
                 PROVE  user'[req[p].of].status # "none"
      BY DEF At
    <3> QED BY <1>1, <1>5, UsersStay
  <2>3. /\ req'[p].pc = req[p].pc /\ req'[p].of = req[p].of
        /\ req'[p].link = req[p].link /\ req'[p].known = req[p].known
    BY DEF OthersCarryOn
  <2>4. req[p].pc \in Verifying =>
          /\ link'[req[p].link].email = link[req[p].link].email
          /\ link'[req[p].link].known = link[req[p].link].known
    BY <1>4 DEF LinksKeepAddress
  <2>5. req[p].pc \in Verifying => req'[p].link = req[p].link
    BY <2>3
  <2> QED BY <2>1, <2>2, <2>3, <2>4, <2>5 DEF CarriesAddressee, At, Exists
<1>7. SessionIsOfAddressee'
  <2> SUFFICES ASSUME NEW s \in Session, session'[s].user # None
               PROVE  /\ session'[s].user = link'[session'[s].link].email
                      /\ user'[session'[s].user].status # "none"
    BY DEF SessionIsOfAddressee, Exists
  <2>1. CASE session'[s].user = session[s].user
             /\ session'[s].link = session[s].link
    <3>1. /\ session[s].user = link[session[s].link].email
          /\ Exists(session[s].user)
      BY <2>1 DEF AddressInv, SessionIsOfAddressee
    <3>2. session[s] # NoSession
      BY <2>1 DEF NoSession
    <3>3. session[s].link \in Link /\ link[session[s].link].status # "none"
      BY <1>1, <3>2 DEF AccountInv, StoreOK, SessionsOK
    <3>4. session[s].user \in User
      BY <1>2, <3>1, <3>3
    <3>5. user'[session[s].user].status # "none"
      BY <1>1, <3>1, <3>4, UsersStay
    <3> QED BY <2>1, <3>1, <3>3, <3>5 DEF LinksKeepAddress
  <2>2. ASSUME NEW p \in Request, At(p, "session"),
               session'[s].user = req[p].of, session'[s].link = req[p].link
        PROVE  /\ session'[s].user = link'[session'[s].link].email
               /\ user'[session'[s].user].status # "none"
    <3>1. /\ req[p].of = link[req[p].link].email /\ Exists(req[p].of)
          /\ req[p].pc = "session" /\ "session" \in Verifying
      BY <2>2 DEF AddressInv, CarriesAddressee, At, Verifying, AfterUse
    <3>2. user'[req[p].of].status # "none" /\ req[p].link \in Link
          /\ link[req[p].link].status # "none"
      BY <1>1, <1>4, <1>5, <3>1, UsersStay DEF At
    <3> QED BY <2>2, <3>1, <3>2 DEF LinksKeepAddress
  <2> QED BY <2>1, <2>2 DEF SessionsKeepAddress
<1> QED BY <1>1, <1>3, <1>6, <1>7 DEF AddressInv

\* A step of one request that writes neither a link nor a session.
LEMMA OneCarries ==
  ASSUME AddressInv, [Next]_vars, NEW q \in Request, NEW r,
         OthersCarryOn(q), req'[q] = r, link' = link, session' = session,
         r.pc \in Verifying => /\ r.of = link[r.link].email
                               /\ r.known = link[r.link].known,
         r.pc \in {"grant", "accept", "session"} => user'[r.of].status # "none",
         r.pc = "createLink" /\ r.known => user'[r.of].status # "none"
  PROVE  AddressInv'
<1>1. CarriesAddressee(q)'
  BY DEF CarriesAddressee, At, Exists
<1>2. LinksKeepAddress /\ SessionsKeepAddress
  BY DEF LinksKeepAddress, SessionsKeepAddress
<1> QED BY <1>1, <1>2, AddressStep

\* A step that leaves every request where it is.
LEMMA AllCarryOn ==
  ASSUME AddressInv, [Next]_vars, user' = user, SessionsKeepAddress,
         \A l \in Link : /\ link'[l].email = link[l].email
                         /\ link'[l].known = link[l].known
                         /\ link[l].status = "none" <=> link'[l].status = "none",
         \A p \in Request :
           /\ req'[p].pc = req[p].pc /\ req'[p].of = req[p].of
           /\ req'[p].link = req[p].link /\ req'[p].known = req[p].known
  PROVE  AddressInv'
<1>1. PICK q \in Request : TRUE
  OBVIOUS
<1>2. req[q].pc \in Verifying => req[q].link \in Link
  BY DEF AddressInv, AccountInv, RequestOK, HoldsLink, Verifying
<1>3. CarriesAddressee(q)
  BY DEF AddressInv
<1>4. CarriesAddressee(q)'
  BY <1>2, <1>3 DEF CarriesAddressee, At, Exists
<1>5. OthersCarryOn(q) /\ LinksKeepAddress
  BY DEF OthersCarryOn, LinksKeepAddress
<1> QED BY <1>4, <1>5, AddressStep

LEMMA ArrivalsCarry ==
  ASSUME AddressInv, [Next]_vars, NEW q \in Request, Arrival(q)
  PROVE  AddressInv'
<1>0. req \in [Request -> RequestState]
  BY DEF AddressInv, AccountInv, AccountTypeOK
<1>1. ASSUME NEW r, Begin(q, r)
      PROVE  /\ OthersCarryOn(q) /\ req'[q] = r /\ user' = user
             /\ link' = link /\ session' = session
  BY <1>0, <1>1 DEF Begin, signVars, OthersCarryOn
<1>2. ASSUME NEW r, Begin(q, r),
             r.pc \in Verifying => /\ r.of = link[r.link].email
                                   /\ r.known = link[r.link].known,
             r.pc \notin {"grant", "accept", "session"},
             r.pc = "createLink" /\ r.known => Exists(r.of)
      PROVE  AddressInv'
  BY <1>2, <1>1, OneCarries DEF Exists
<1>3. ASSUME NEW r, Begin(q, r), r.pc \in {"checkInvited", "void"} \cup AdminPC
      PROVE  AddressInv'
  BY <1>2, <1>3 DEF Verifying, AfterUse, AdminPC
<1>4. ASSUME NEW e \in User, RequestLink(q, e)
      PROVE  AddressInv'
  <2> DEFINE r == [Idle EXCEPT !.pc = "createLink", !.of = e,
                               !.known = Exists(e)]
  <2>1. r.pc = "createLink" /\ r.of = e /\ r.known = Exists(e)
    BY DEF Idle
  <2> QED BY <1>2, <1>4, <2>1 DEF RequestLink, Verifying, AfterUse
<1>5. ASSUME NEW l \in Link, NEW pc \in {"consume", "count"},
             BeginVerify(q, l, pc)
      PROVE  AddressInv'
  <2> DEFINE r == [Idle EXCEPT !.pc = pc, !.of = link[l].email, !.link = l,
                               !.known = link[l].known]
  <2>1. /\ r.pc = pc /\ r.link = l
        /\ r.of = link[l].email /\ r.known = link[l].known
    BY DEF Idle
  <2> QED BY <1>2, <1>5, <2>1 DEF BeginVerify
<1>6. ASSUME NEW a, NEW u,
             \/ \E roles \in SUBSET Role :
                  Invite(q, a, u, roles) \/ AssignRoles(q, a, u, roles)
             \/ \E i \in Invitation : Resend(q, a, i)
             \/ Deactivate(q, a, u) \/ Activate(q, a, u)
             \/ Approve(q, a, u) \/ Reject(q, a, u)
             \/ \E r \in Role : RemoveRole(q, a, u, r)
      PROVE  AddressInv'
  <2>1. CASE \E roles \in SUBSET Role : Invite(q, a, u, roles)
    BY <1>3, <2>1 DEF Invite, Idle
  <2>2. CASE \E roles \in SUBSET Role : AssignRoles(q, a, u, roles)
    BY <1>3, <2>2 DEF AssignRoles, Idle, AdminPC
  <2>3. CASE \E i \in Invitation : Resend(q, a, i)
    BY <1>3, <2>3 DEF Resend, Idle
  <2>4. CASE Deactivate(q, a, u)
    BY <1>3, <2>4 DEF Deactivate, Idle, AdminPC
  <2>5. CASE Activate(q, a, u)
    BY <1>3, <2>5 DEF Activate, Idle, AdminPC
  <2>6. CASE Approve(q, a, u) \/ Reject(q, a, u)
    BY <1>3, <2>6 DEF Approve, Reject, Idle, AdminPC
  <2>7. CASE \E r \in Role : RemoveRole(q, a, u, r)
    BY <1>3, <2>7 DEF RemoveRole, Idle, AdminPC
  <2> QED BY <1>6, <2>1, <2>2, <2>3, <2>4, <2>5, <2>6, <2>7
<1> QED BY <1>4, <1>5, <1>6 DEF Arrival, OpenLink, EnterCode

\* The statements that write a link or a session.
LEMMA LinkAndSessionWritesCarry ==
  ASSUME AddressInv, [Next]_vars, NEW q \in Request,
         \/ CreateLink(q) \/ CreateInvitationLink(q) \/ VoidLinks(q)
         \/ CountGuess(q) \/ Consume(q) \/ RevokeAll(q) \/ CreateSession(q)
  PROVE  AddressInv'
<1>0. /\ link \in [Link -> LinkState] /\ session \in [Session -> SessionState]
      /\ req \in [Request -> RequestState]
      /\ CarriesAddressee(q) /\ HoldsLink(q)
  BY DEF AddressInv, AccountInv, AccountTypeOK, RequestOK
<1>1. ASSUME NEW pc, pc \notin Verifying \cup {"createLink"},
             Go(q, pc) \/ End(q)
      PROVE  OthersCarryOn(q) /\ CarriesAddressee(q)'
  <2>1. OthersCarryOn(q) /\ req'[q].pc \in {pc, "idle"}
    <3>1. CASE Go(q, pc)
      BY <1>0, <3>1 DEF Go, OthersCarryOn
    <3>2. CASE End(q)
      BY <1>0, <3>2 DEF End, Idle, OthersCarryOn
    <3> QED BY <1>1, <3>1, <3>2
  <2>2. req'[q].pc \notin Verifying \cup {"createLink"}
    BY <1>1, <2>1 DEF Verifying, AfterUse
  <2> QED BY <2>1, <2>2 DEF CarriesAddressee, At, Verifying, AfterUse
<1>2. session' = session => SessionsKeepAddress
  BY DEF SessionsKeepAddress
<1>3. link' = link => LinksKeepAddress
  BY DEF LinksKeepAddress
<1>4. ASSUME NEW e, NEW purpose, NEW known, NewLink(e, purpose, known),
             known => Exists(e)
      PROVE  LinksKeepAddress
  BY <1>0, <1>4 DEF NewLink, LinksKeepAddress
<1>5. CASE CreateLink(q)
  <2>1. LinksKeepAddress
    BY <1>0, <1>4, <1>5 DEF CreateLink, CarriesAddressee
  <2>2. OthersCarryOn(q) /\ CarriesAddressee(q)'
    BY <1>1, <1>5 DEF CreateLink, Verifying, AfterUse
  <2> QED BY <1>2, <1>5, <2>1, <2>2, AddressStep DEF CreateLink
<1>6. CASE CreateInvitationLink(q)
  <2>1. LinksKeepAddress
    BY <1>4, <1>6 DEF CreateInvitationLink
  <2>2. OthersCarryOn(q) /\ CarriesAddressee(q)'
    BY <1>1, <1>6 DEF CreateInvitationLink, Verifying, AfterUse
  <2> QED BY <1>2, <1>6, <2>1, <2>2, AddressStep DEF CreateInvitationLink
<1>7. CASE VoidLinks(q)
  <2>1. LinksKeepAddress
    BY <1>0, <1>7 DEF VoidLinks, LinksKeepAddress
  <2>2. OthersCarryOn(q) /\ CarriesAddressee(q)'
    BY <1>1, <1>7 DEF VoidLinks, Verifying, AfterUse
  <2> QED BY <1>2, <1>7, <2>1, <2>2, AddressStep DEF VoidLinks
<1>8. CASE CountGuess(q)
  <2>1. LinksKeepAddress
    BY <1>0, <1>8 DEF CountGuess, LinksKeepAddress
  <2>2. OthersCarryOn(q) /\ CarriesAddressee(q)'
    BY <1>1, <1>8 DEF CountGuess, Verifying, AfterUse
  <2> QED BY <1>2, <1>8, <2>1, <2>2, AddressStep DEF CountGuess
<1>9. CASE Consume(q)
  <2>1. At(q, "consume") /\ session' = session /\ user' = user
    BY <1>9 DEF Consume
  <2>2. req[q].link \in Link /\ link[req[q].link].status # "none"
    BY <1>0, <2>1 DEF HoldsLink, At
  <2>3. /\ req[q].of = link[req[q].link].email
        /\ req[q].known = link[req[q].link].known
    BY <1>0, <2>1 DEF CarriesAddressee, Verifying, At
  <2>4. req[q].known => Exists(req[q].of)
    BY <2>2, <2>3 DEF AddressInv, LinksKnowUsers
  <2>5. \A l \in Link : /\ link'[l].email = link[l].email
                        /\ link'[l].known = link[l].known
                        /\ link'[l].status \in {link[l].status, "used"}
                        /\ l # req[q].link => link'[l] = link[l]
    <3>1. CASE link' = link
      BY <3>1
    <3>2. CASE link' = [link EXCEPT ![req[q].link].status = "used"]
      BY <1>0, <3>2 DEF LinkState
    <3> QED BY <1>9, <3>1, <3>2 DEF Consume
  <2>8. LinksKeepAddress
    BY <2>2, <2>5 DEF LinksKeepAddress
  <2>6. OthersCarryOn(q)
    BY <1>0, <1>9 DEF Consume, Go, End, OthersCarryOn
  <2>7. CarriesAddressee(q)'
    <3>1. CASE End(q)
      BY <1>1, <3>1 DEF Verifying, AfterUse
    <3>2. CASE Go(q, IF req[q].known THEN "session" ELSE "invited")
      <4>1. /\ req'[q].pc = IF req[q].known THEN "session" ELSE "invited"
            /\ req'[q].of = req[q].of /\ req'[q].link = req[q].link
            /\ req'[q].known = req[q].known
        BY <1>0, <3>2 DEF Go
      <4>2. /\ req'[q].of = link'[req'[q].link].email
            /\ req'[q].known = link'[req'[q].link].known
        BY <2>2, <2>3, <2>5, <4>1
      <4> QED BY <2>1, <2>4, <4>1, <4>2 DEF CarriesAddressee, At, Exists
    <3> QED BY <1>9, <3>1, <3>2 DEF Consume
  <2> QED BY <1>2, <2>1, <2>8, <2>6, <2>7, AddressStep
<1>10. CASE RevokeAll(q)
  <2>1. SessionsKeepAddress
    BY <1>0, <1>10 DEF RevokeAll, SessionsKeepAddress
  <2>2. OthersCarryOn(q) /\ CarriesAddressee(q)'
    BY <1>1, <1>10 DEF RevokeAll, Verifying, AfterUse
  <2> QED BY <1>3, <1>10, <2>1, <2>2, AddressStep DEF RevokeAll
<1>11. CASE CreateSession(q)
  <2>1. SessionsKeepAddress
    BY <1>0, <1>11 DEF CreateSession, SessionsKeepAddress
  <2>2. OthersCarryOn(q) /\ CarriesAddressee(q)'
    BY <1>1, <1>11 DEF CreateSession, Verifying, AfterUse
  <2> QED BY <1>3, <1>11, <2>1, <2>2, AddressStep DEF CreateSession
<1> QED BY <1>5, <1>6, <1>7, <1>8, <1>9, <1>10, <1>11

\* The rest of the statements of a request, and its end between two of them.
LEMMA OtherStatementsCarry ==
  ASSUME AddressInv, [Next]_vars, NEW q \in Request,
         \/ FindInvitation(q) \/ CreateUser(q) \/ Grant(q) \/ Accept(q)
         \/ CheckInvited(q) \/ CreateInvitation(q)
         \/ CountAdmins(q) \/ CountRoles(q) \/ Update(q)
         \/ AssignStatement(q) \/ DeleteRole(q) \/ Fail(q)
  PROVE  AddressInv'
<1>0. /\ user \in [User -> UserState] /\ req \in [Request -> RequestState]
      /\ CarriesAddressee(q) /\ HasSubject(q)
  BY DEF AddressInv, AccountInv, AccountTypeOK, RequestOK
<1>1. link' = link /\ session' = session
  BY DEF FindInvitation, CreateUser, Grant, Accept, CheckInvited,
         CreateInvitation, CountAdmins, CountRoles, Update, AssignStatement,
         FindRole, Assign, DeleteRole, Fail, signVars
<1>2. OthersCarryOn(q)
  <2>1. ASSUME NEW u, NEW r, NEW next, WriteUser(q, u, r, next)
        PROVE  OthersCarryOn(q)
    <3>1. \A p \in Request \ {q} :
            req'[p] = [req[p] EXCEPT !.stale = @ \/ req[p].pc \in AdminPC]
      BY <2>1 DEF WriteUser
    <3> QED BY <1>0, <3>1 DEF OthersCarryOn, RequestState
  <2>2. ASSUME NEW pc, Go(q, pc) \/ End(q)
        PROVE  OthersCarryOn(q)
    BY <1>0, <2>2 DEF Go, End, OthersCarryOn
  <2>3. CASE FindInvitation(q) \/ FindRole(q)
    BY <1>0, <2>2, <2>3 DEF FindInvitation, FindRole, OthersCarryOn
  <2>4. CASE CreateUser(q) \/ Grant(q) \/ Update(q) \/ Assign(q) \/ DeleteRole(q)
    BY <2>1, <2>2, <2>4 DEF CreateUser, Grant, Update, Assign, DeleteRole
  <2>5. CASE \/ Accept(q) \/ CheckInvited(q) \/ CreateInvitation(q)
             \/ CountAdmins(q) \/ CountRoles(q) \/ Fail(q)
    BY <2>2, <2>5 DEF Accept, CheckInvited, CreateInvitation, CountAdmins,
                      CountRoles, Fail
  <2> QED BY <2>3, <2>4, <2>5 DEF AssignStatement
<1>3. ASSUME req'[q].pc \notin Verifying \cup {"createLink"}
      PROVE  AddressInv'
  BY <1>1, <1>2, <1>3, OneCarries DEF Verifying, AfterUse
<1>4. ASSUME req[q].pc \in Verifying, req'[q].of = req[q].of,
             req'[q].link = req[q].link, req'[q].known = req[q].known,
             req'[q].pc \in {"createUser", "grant", "accept", "session"},
             req'[q].pc # "createUser" => user'[req[q].of].status # "none"
      PROVE  AddressInv'
  BY <1>0, <1>1, <1>2, <1>4, OneCarries DEF CarriesAddressee
<1>5. ASSUME End(q)
      PROVE  AddressInv'
  BY <1>0, <1>3, <1>5 DEF End, Idle, Verifying, AfterUse
<1>6. ASSUME req[q].pc \in {"grant", "accept"}
      PROVE  user'[req[q].of].status # "none"
  <2>1. Exists(req[q].of) /\ req[q].of \in User
    BY <1>0, <1>6 DEF CarriesAddressee, HasSubject, At
  <2> QED BY <2>1, UsersStay DEF AddressInv
<1>7. CASE FindInvitation(q)
  <2>1. ASSUME NEW i \in Invitation,
               req' = [req EXCEPT ![q].pc = "createUser", ![q].invitation = i,
                                  ![q].todo = invitation[i].roles]
        PROVE  AddressInv'
    <3>1. /\ req'[q].of = req[q].of /\ req'[q].link = req[q].link
          /\ req'[q].known = req[q].known /\ req'[q].pc = "createUser"
      BY <1>0, <2>1
    <3> QED BY <1>4, <1>7, <3>1 DEF FindInvitation, At, Verifying, AfterUse
  <2> QED BY <1>5, <1>7, <2>1 DEF FindInvitation, PendingFor
<1>8. CASE CreateUser(q)
  <2>1. CASE End(q)
    BY <1>5, <2>1
  <2>2. CASE WriteUser(q, req[q].of, [status |-> "active", roles |-> {}],
                       [req[q] EXCEPT !.pc = "grant"])
    <3>1. user'[req[q].of].status = "active"
      BY <1>0, <1>8, <2>2 DEF CreateUser, WriteUser, HasSubject, At
    <3>2. req'[q] = [req[q] EXCEPT !.pc = "grant"]
      BY <2>2 DEF WriteUser
    <3>3. /\ req'[q].of = req[q].of /\ req'[q].link = req[q].link
          /\ req'[q].known = req[q].known /\ req'[q].pc = "grant"
      BY <1>0, <3>2 DEF RequestState
    <3> QED BY <1>4, <1>8, <3>1, <3>3 DEF CreateUser, At, Verifying, AfterUse
  <2> QED BY <1>8, <2>1, <2>2 DEF CreateUser
<1>9. CASE Grant(q)
  <2>1. CASE End(q)
    BY <1>5, <2>1
  <2>2. ASSUME NEW r \in req[q].todo, NEW s,
               WriteUser(q, req[q].of, s,
                 [req[q] EXCEPT
                    !.todo = req[q].todo \ {r},
                    !.pc = IF req[q].todo = {r} THEN "accept" ELSE "grant"])
        PROVE  AddressInv'
    <3>1. /\ req'[q].of = req[q].of /\ req'[q].link = req[q].link
          /\ req'[q].known = req[q].known
          /\ req'[q].pc \in {"accept", "grant"}
      BY <1>0, <2>2 DEF WriteUser, RequestState
    <3> QED BY <1>4, <1>6, <1>9, <3>1 DEF Grant, At, Verifying, AfterUse
  <2> QED BY <1>9, <2>1, <2>2 DEF Grant
<1>10. CASE Accept(q)
  <2>1. /\ req'[q].of = req[q].of /\ req'[q].link = req[q].link
        /\ req'[q].known = req[q].known /\ req'[q].pc = "session"
    BY <1>0, <1>10 DEF Accept, Go
  <2> QED BY <1>4, <1>6, <1>10, <2>1 DEF Accept, At, Verifying, AfterUse
<1>11. CASE \/ CheckInvited(q) \/ CreateInvitation(q) \/ CountAdmins(q)
            \/ CountRoles(q) \/ FindRole(q)
  <2>1. CASE End(q)
    BY <1>5, <2>1
  <2>2. CASE \E pc \in {"invite", "inviteLink", "revokeAll", "countRoles",
                        "update", "delete"} : Go(q, pc)
    BY <1>0, <1>3, <2>2 DEF Go, Verifying, AfterUse
  <2>3. CASE FindRole(q)
    <3>1. \/ End(q)
          \/ req'[q].pc \in {"findRole", "assign"}
      <4>1. PICK r \in req[q].todo :
              \/ End(q)
              \/ req' = [req EXCEPT ![q].todo = req[q].todo \ {r}]
              \/ req' = [req EXCEPT ![q].pc = "assign", ![q].role = r,
                                   ![q].todo = req[q].todo \ {r}]
        BY <2>3 DEF FindRole
      <4>2. req[q].pc = "findRole"
        BY <2>3 DEF FindRole, At
      <4>3. CASE req' = [req EXCEPT ![q].todo = req[q].todo \ {r}]
        BY <1>0, <4>2, <4>3
      <4>4. CASE req' = [req EXCEPT ![q].pc = "assign", ![q].role = r,
                                    ![q].todo = req[q].todo \ {r}]
        BY <1>0, <4>4
      <4> QED BY <4>1, <4>3, <4>4
    <3> QED BY <1>3, <2>1, <3>1 DEF Verifying, AfterUse
  <2> QED BY <1>11, <2>1, <2>2, <2>3
          DEF CheckInvited, CreateInvitation, CountAdmins, CountRoles
<1>12. CASE Update(q) \/ Assign(q) \/ DeleteRole(q)
  <2>1. CASE End(q)
    BY <1>5, <2>1
  <2>2. ASSUME NEW u, NEW r, NEW next, WriteUser(q, u, r, next),
               next.pc \in {"idle", "findRole"}
        PROVE  AddressInv'
    BY <1>3, <2>2 DEF WriteUser, Verifying, AfterUse
  <2>3. Idle.pc = "idle" /\ [req[q] EXCEPT !.pc = "findRole"].pc = "findRole"
    BY <1>0 DEF Idle, RequestState
  <2>4. CASE Update(q)
    BY <2>2, <2>3, <2>4 DEF Update
  <2>5. CASE Assign(q)
    BY <2>1, <2>2, <2>3, <2>5 DEF Assign
  <2>6. CASE DeleteRole(q)
    BY <2>1, <2>2, <2>3, <2>6 DEF DeleteRole
  <2> QED BY <1>12, <2>4, <2>5, <2>6
<1>13. CASE Fail(q)
  BY <1>5, <1>13 DEF Fail
<1> QED BY <1>7, <1>8, <1>9, <1>10, <1>11, <1>12, <1>13 DEF AssignStatement

LEMMA AddressKept ==
  ASSUME AddressInv, [Next]_vars
  PROVE  AddressInv'
<1>1. ASSUME NEW q \in Request, Arrival(q) \/ Statement(q) \/ Fail(q)
      PROVE  AddressInv'
  BY <1>1, ArrivalsCarry, LinkAndSessionWritesCarry, OtherStatementsCarry
     DEF Statement, VerifyStatement, InviteStatement, PatchStatement,
         RemoveRoleStatement
<1>2. /\ link \in [Link -> LinkState] /\ session \in [Session -> SessionState]
      /\ req \in [Request -> RequestState]
  BY DEF AddressInv, AccountInv, AccountTypeOK
<1>3. ASSUME NEW a \in User, NEW i \in Invitation, Revoke(a, i)
      PROVE  AddressInv'
  BY <1>2, <1>3, AllCarryOn DEF Revoke, SessionsKeepAddress
<1>4. ASSUME NEW s \in Session, EndSession(s)
      PROVE  AddressInv'
  BY <1>2, <1>4, AllCarryOn DEF EndSession, SessionsKeepAddress
<1>5. ASSUME NEW l \in Link, ExpireLink(l)
      PROVE  AddressInv'
  BY <1>2, <1>5, AllCarryOn DEF ExpireLink, SessionsKeepAddress
<1>6. CASE UNCHANGED vars
  BY <1>6, AllCarryOn DEF vars, signVars, SessionsKeepAddress
<1> QED BY <1>1, <1>3, <1>4, <1>5, <1>6 DEF Next

\* Whatever the requests do to each other between reading a link and creating
\* the session, the session signs in the address the link was sent to, and a
\* user has that address: createSession takes the user from the request and
\* looks nothing up (auth/handlers.ts, auth/token.ts).
THEOREM SessionsAreTheAddressees == Spec => []SessionIsOfAddressee
<1>1. Init => AddressInv
  <2> SUFFICES ASSUME Init
               PROVE  AddressInv
    OBVIOUS
  <2>1. AccountInv
    BY AccountBegins
  <2>2. LinksKnowUsers /\ SessionIsOfAddressee
    BY DEF Init, LinksKnowUsers, SessionIsOfAddressee, NoMagicLink, NoSession
  <2>3. ASSUME NEW q \in Request
        PROVE  CarriesAddressee(q)
    BY <2>3 DEF Init, CarriesAddressee, Idle, At, Verifying, AfterUse
  <2> QED BY <2>1, <2>2, <2>3 DEF AddressInv
<1>2. AddressInv /\ [Next]_vars => AddressInv'
  BY AddressKept
<1>3. AddressInv => SessionIsOfAddressee
  BY DEF AddressInv
<1> QED BY <1>1, <1>2, <1>3, PTL DEF Spec
=============================================================================
