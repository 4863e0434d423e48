------------------------------ MODULE Accounts ------------------------------
(***************************************************************************)
(* Sign-in, invitations and the administration of users over one database. *)
(***************************************************************************)
EXTENDS SignIn, UserAdmin

\* The request ends between two statements.
Fail(q) ==
  /\ ~At(q, "idle")
  /\ cut' = IF req[q].pc \in {"grant", "accept"}
            THEN cut \cup {req[q].invitation} ELSE cut
  /\ End(q)
  /\ UNCHANGED <<user, signVars, creator, removed>>

Arrival(q) ==
  \/ \E e \in Visitor : RequestLink(q, e)
  \/ \E e \in User :
       \/ \E l \in Link, right \in BOOLEAN : EnterCode(q, e, l, right)
       \/ \E a \in User, roles \in SUBSET Role : Invite(q, a, e, roles)
  \/ \E l \in Link : OpenLink(q, l)
  \/ \E a \in User, i \in Invitation : Resend(q, a, i)
  \/ \E a \in User, u \in Managed :
       \/ Deactivate(q, a, u) \/ Activate(q, a, u)
       \/ Approve(q, a, u) \/ Reject(q, a, u)
       \/ \E roles \in SUBSET Role : AssignRoles(q, a, u, roles)
       \/ \E r \in Role : RemoveRole(q, a, u, r)

Statement(q) ==
  \/ CreateLink(q) \/ CountGuess(q) \/ VerifyStatement(q)
  \/ InviteStatement(q) \/ VoidLinks(q)
  \/ PatchStatement(q) \/ AssignStatement(q) \/ RemoveRoleStatement(q)

Next ==
  \/ \E q \in Request : Arrival(q) \/ Statement(q) \/ Fail(q)
  \/ \E a \in User, i \in Invitation : Revoke(a, i)
  \/ \E s \in Session : EndSession(s)
  \/ \E l \in Link : ExpireLink(l)

Spec == Init /\ [][Next]_vars
-----------------------------------------------------------------------------
\* A magic link signs in at most once and never after a resend replaced it,
\* although the link and its code are read by several requests before one of
\* them uses it up (auth/token.ts, the conditional updateMany).
OneSessionPerLink ==
  \A s \in Session : session[s] # NoSession =>
    /\ link[session[s].link].status = "used"
    /\ \A t \in Session \ {s} : session[t].link # session[s].link

\* Requests that compare a code at the same time all see the count before any
\* of them is added, so a link takes one guess too many for every further slot
\* and no more: neither a resend nor a later request starts the count anew.
GuessesBounded ==
  \A l \in Link : link[l].attempts <= MaxAttempts + Cardinality(Request) - 1

\* Who was created from an invitation has all of its roles that no
\* administrator took away since, and the invitation is settled, unless the
\* request that accepts it is still running or was cut off; and an accepted
\* invitation has created its user.
AcceptanceIsWhole ==
  /\ \A u \in User : creator[u] # None /\ creator[u] \notin cut =>
       \/ \E q \in Request : /\ req[q].invitation = creator[u]
                             /\ req[q].pc \in {"grant", "accept"}
       \/ /\ invitation[creator[u]].roles \subseteq user[u].roles \cup removed[u]
          /\ ~Pending(creator[u])
  /\ \A i \in Invitation : invitation[i].status = "accepted" =>
       creator[invitation[i].email] = i

\* A revoked invitation creates a user only through a request that had found it
\* pending, although its links are still good (admin/invitations.ts, revoke).
RevokedCreatesNoUser ==
  [][\A u \in User :
       /\ creator'[u] # creator[u]
       /\ invitation[creator'[u]].status = "revoked"
       => \E q \in Request :
            At(q, "createUser") /\ req[q].of = u /\ req[q].overtaken]_vars

\* The last active super_admin goes only by a request that decided on a state
\* another request has since written over (admin/users.ts counts, then writes).
StaleStep(q) == req[q].stale /\ req'[q] # req[q]
LastSuperAdminStays ==
  [][SuperAdmins # {} /\ SuperAdmins' = {} =>
       \E q \in Request : StaleStep(q)]_vars

\* Likewise for the last role of a user, and for the activation of a user
\* without roles.  Users created from an invitation get their roles later.
ActiveKeepsRole ==
  [][\A u \in User :
       /\ Active(u)' /\ user'[u].roles = {}
       /\ user'[u] # user[u] /\ Exists(u)
       => \E q \in Request : StaleStep(q)]_vars

\* A decision on an applicant is taken once: an approval or a rejection writes
\* over another decision only if it had read the status before that was taken.
DecisionsStand ==
  [][\A q \in Request :
       At(q, "decide") /\ ~req[q].stale /\ user' # user /\ req'[q].pc = "idle"
       => user[req[q].of].status = "pending_approval"]_vars
=============================================================================
