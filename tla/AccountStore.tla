---------------------------- MODULE AccountStore ----------------------------
(***************************************************************************)
(* The tables of the account handlers (User with its UserRoles,            *)
(* Invitation, MagicLink, Session) and the requests under way.  Handlers   *)
(* run concurrently; each executes one D1 statement per action and may be  *)
(* cut off between two of them.  A user is named by its e-mail address,    *)
(* which is unique.                                                        *)
(***************************************************************************)
EXTENDS Naturals, FiniteSets

CONSTANTS User,         \* e-mail addresses
          Founder,      \* the super_admin the seed creates
          Managed,      \* bound: the users administrators work on
          Visitor,      \* bound: the addresses that ask for a magic link
          Role,
          Invitation,   \* bound: invitations ever created
          Link,         \* bound: magic links ever created
          Session,      \* bound: sessions ever created
          Request,      \* slots for requests under way
          None,         \* SQL null
          MaxAttempts   \* MagicLink.maxAttempts

ASSUME AccountAssumption ==
  /\ Founder \in User /\ Managed \subseteq User /\ Visitor \subseteq User
  /\ "super_admin" \in Role
  /\ Link \subseteq Nat          \* in the order of their creation
  /\ IsFiniteSet(Request) /\ Request # {}
  /\ None \notin User /\ None \notin Invitation
  /\ None \notin Link /\ None \notin Role
  /\ MaxAttempts \in Nat \ {0}

VARIABLES user,       \* user[u]: its status and roles
          invitation, \* invitation[i]
          link,       \* link[l]
          session,    \* session[s]
          req,        \* req[q]: the request in slot q
          creator,    \* history: the invitation u was created from
          removed,    \* history: the roles administrators took from u
          cut         \* history: invitations whose acceptance was cut off

signVars == <<invitation, link, session>>
history == <<creator, removed, cut>>
vars == <<user, signVars, req, history>>

OrNone(S) == S \cup {None}

UserState == [status: {"none", "pending_approval", "active", "deactivated"},
              roles: SUBSET Role]
NoUser == [status |-> "none", roles |-> {}]
InvitationState ==
  [email: OrNone(User), status: {"none", "pending", "accepted", "revoked"},
   roles: SUBSET Role]
NoInvitation == [email |-> None, status |-> "none", roles |-> {}]
\* known: MagicLink.userId is set.
\* void: usedAt was set by a resend.
LinkState == [email: OrNone(User),
              status: {"none", "live", "used", "void", "expired"},
              purpose: {"login", "invitation_accept"}, known: BOOLEAN,
              attempts: Nat]
NoMagicLink == [email |-> None, status |-> "none", purpose |-> "login",
                known |-> FALSE, attempts |-> 0]
SessionState == [user: OrNone(User), link: OrNone(Link), live: BOOLEAN]
NoSession == [user |-> None, link |-> None, live |-> FALSE]

\* The statement a request executes next. A refused statement (P2002, P2025)
\* ends it with 500.
SignInPC == {"createLink", "consume", "count", "invited", "createUser", "grant",
             "accept", "session", "checkInvited", "invite", "void",
             "inviteLink"}
AdminPC == {"countAdmins", "revokeAll", "countRoles", "update", "decide",
            "findRole", "assign", "delete"}
\* history: stale, another request wrote a status or a role since this one of
\* an administrator began; overtaken, its invitation was revoked since it had
\* found it.
RequestState ==
  [pc: {"idle"} \cup SignInPC \cup AdminPC,
   of: OrNone(User), link: OrNone(Link),
   invitation: OrNone(Invitation), todo: SUBSET Role, role: OrNone(Role),
   known: BOOLEAN, status: {"none", "active", "deactivated"},
   stale: BOOLEAN, overtaken: BOOLEAN]
Idle == [pc |-> "idle", of |-> None, link |-> None,
         invitation |-> None, todo |-> {}, role |-> None, known |-> FALSE,
         status |-> "none", stale |-> FALSE, overtaken |-> FALSE]

AccountTypeOK ==
  /\ user \in [User -> UserState]
  /\ invitation \in [Invitation -> InvitationState]
  /\ link \in [Link -> LinkState]
  /\ session \in [Session -> SessionState]
  /\ req \in [Request -> RequestState]
  /\ creator \in [User -> OrNone(Invitation)]
  /\ removed \in [User -> SUBSET Role]
  /\ cut \in SUBSET Invitation

\* Apart from the founder the seeds may have left managed users of any status;
\* the handlers create the rest.
Init ==
  /\ user \in [User -> UserState]
  /\ user[Founder] = [status |-> "active", roles |-> {"super_admin"}]
  /\ \A u \in User \ {Founder} :
       \/ user[u] = NoUser
       \/ u \in Managed /\ user[u].status # "none" /\ user[u].roles # {}
  /\ invitation = [i \in Invitation |-> NoInvitation]
  /\ link = [l \in Link |-> NoMagicLink]
  /\ session = [s \in Session |-> NoSession]
  /\ req = [q \in Request |-> Idle]
  /\ creator = [u \in User |-> None]
  /\ removed = [u \in User |-> {}]
  /\ cut = {}
-----------------------------------------------------------------------------
At(q, pc) == req[q].pc = pc
Exists(u) == user[u].status # "none"
Active(u) == user[u].status = "active"
IsSuperAdmin(u) == "super_admin" \in user[u].roles
SuperAdmins == {u \in User : Active(u) /\ IsSuperAdmin(u)}
Pending(i) == invitation[i].status = "pending"
PendingFor(e) == {i \in Invitation : Pending(i) /\ invitation[i].email = e}

\* authMiddleware and requirePermission of the request.  The session is any live
\* one, so it is not asked for.  Permissions are those of migration 0009.
MayUpdateUsers(a) ==
  Active(a) /\ user[a].roles \cap {"admin", "super_admin"} # {}
MayUpdateRoles(a) == Active(a) /\ IsSuperAdmin(a)

\* A request arrives and executes its first statement, a read.
Begin(q, r) ==
  /\ At(q, "idle")
  /\ req' = [req EXCEPT ![q] = r]
  /\ UNCHANGED <<user, signVars, history>>
Go(q, pc) == req' = [req EXCEPT ![q].pc = pc]
End(q) == req' = [req EXCEPT ![q] = Idle]

\* Writes a status or a role of u and continues with next.
WriteUser(q, u, r, next) ==
  /\ user' = [user EXCEPT ![u] = r]
  /\ req' = [p \in Request |->
       IF p = q THEN next
       ELSE [req[p] EXCEPT !.stale = @ \/ req[p].pc \in AdminPC]]
=============================================================================
