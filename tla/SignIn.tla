------------------------------- MODULE SignIn -------------------------------
(***************************************************************************)
(* Sign-in by magic link or code, acceptance of an invitation, sessions,   *)
(* and the administrators' handlers of invitations: auth/handlers.ts,      *)
(* auth/token.ts, auth/session.ts, email/service.ts, admin/invitations.ts. *)
(* Rate limits and the sending of mail are left out: any link may be       *)
(* opened.                                                                 *)
(***************************************************************************)
EXTENDS AccountStore

\* The live link findFirst returns: the newest of the address.
Newest(e, l) ==
  /\ link[l].email = e /\ link[l].status = "live"
  /\ \A k \in Link : link[k].email = e /\ link[k].status = "live" => k <= l

\* The next link is created.
NewLink(e, purpose, known) ==
  \E l \in Link :
    /\ link[l].status = "none"
    /\ \A k \in Link : k < l => link[k].status # "none"
    /\ link' = [link EXCEPT ![l] = [email |-> e, status |-> "live",
                  purpose |-> purpose, known |-> known, attempts |-> 0]]
-----------------------------------------------------------------------------
(* POST /v1/auth/magic-link: handleMagicLinkRequest                        *)

\* user.findUnique; the address is anybody's.
RequestLink(q, e) ==
  Begin(q, [Idle EXCEPT !.pc = "createLink", !.of = e, !.known = Exists(e)])

\* The row is written whether or not a mail goes out.
CreateLink(q) ==
  /\ At(q, "createLink")
  /\ NewLink(req[q].of, "login", req[q].known)
  /\ End(q)
  /\ UNCHANGED <<user, invitation, session, history>>
-----------------------------------------------------------------------------
(* GET /v1/auth/verify and POST /v1/auth/verify-code                       *)

BeginVerify(q, l, pc) ==
  Begin(q, [Idle EXCEPT !.pc = pc, !.of = link[l].email, !.link = l,
                        !.known = link[l].known])

\* verifyMagicLinkToken up to the conditional update.
OpenLink(q, l) == link[l].status = "live" /\ BeginVerify(q, l, "consume")

\* mutant: the limit is off by one
EnterCodeBeyond(q, e, l, right) ==
  /\ Newest(e, l) /\ link[l].attempts <= MaxAttempts
  /\ BeginVerify(q, l, IF right THEN "consume" ELSE "count")

\* verifyMagicCode compares the code with the newest link of the address.
EnterCode(q, e, l, right) ==
  /\ Newest(e, l) /\ link[l].attempts < MaxAttempts
  /\ BeginVerify(q, l, IF right THEN "consume" ELSE "count")

\* The guess is added to whatever the row says by now.
CountGuess(q) ==
  /\ At(q, "count")
  /\ link' = [link EXCEPT ![req[q].link].attempts = @ + 1]
  /\ End(q)
  /\ UNCHANGED <<user, invitation, session, history>>

\* mutant: the link is used up without asking whether it is still unused
ConsumeAgain(q) ==
  /\ At(q, "consume")
  /\ link' = [link EXCEPT ![req[q].link].status = "used"]
  /\ Go(q, IF req[q].known THEN "session" ELSE "invited")
  /\ UNCHANGED <<user, invitation, session, history>>

\* updateMany where usedAt is null and expiresAt is in the future.  A known
\* user's lastLoginAt is then written, which nothing here reads.
Consume(q) ==
  /\ At(q, "consume")
  /\ IF link[req[q].link].status = "live"
     THEN /\ link' = [link EXCEPT ![req[q].link].status = "used"]
          /\ Go(q, IF req[q].known THEN "session" ELSE "invited")
     ELSE /\ UNCHANGED link
          /\ End(q)
  /\ UNCHANGED <<user, invitation, session, history>>

\* mutant: any invitation of the address will do
AnyInvitation(q) ==
  /\ At(q, "invited")
  /\ \/ \E i \in Invitation :
          /\ invitation[i].email = req[q].of
          /\ req' = [req EXCEPT ![q].pc = "createUser", ![q].invitation = i,
                                ![q].todo = invitation[i].roles]
     \/ /\ PendingFor(req[q].of) = {}
        /\ End(q)
  /\ UNCHANGED <<user, signVars, history>>

\* invitation.findFirst; without one the answer is 400 and the link is gone.
FindInvitation(q) ==
  /\ At(q, "invited")
  /\ \/ \E i \in PendingFor(req[q].of) :
          req' = [req EXCEPT ![q].pc = "createUser", ![q].invitation = i,
                             ![q].todo = invitation[i].roles]
     \/ /\ PendingFor(req[q].of) = {}
        /\ End(q)
  /\ UNCHANGED <<user, signVars, history>>

\* The address is unique: P2002 when another request created the user.
CreateUser(q) ==
  /\ At(q, "createUser")
  /\ \/ /\ ~Exists(req[q].of)
        /\ WriteUser(q, req[q].of, [status |-> "active", roles |-> {}],
                     [req[q] EXCEPT !.pc = "grant"])
        /\ creator' = [creator EXCEPT ![req[q].of] = req[q].invitation]
     \/ /\ Exists(req[q].of)
        /\ End(q)
        /\ UNCHANGED <<user, creator>>
  /\ UNCHANGED <<signVars, removed, cut>>

\* mutant: only the first role of the invitation is granted
GrantFirst(q) ==
  /\ At(q, "grant")
  /\ \E r \in req[q].todo :
       WriteUser(q, req[q].of, [user[req[q].of] EXCEPT !.roles = @ \cup {r}],
                 [req[q] EXCEPT !.pc = "accept"])
  /\ UNCHANGED <<signVars, history>>

\* userRole.create for the next role: P2002 when an administrator was faster.
Grant(q) ==
  /\ At(q, "grant")
  /\ \E r \in req[q].todo :
       \/ /\ r \notin user[req[q].of].roles
          /\ WriteUser(q, req[q].of,
               [user[req[q].of] EXCEPT !.roles = @ \cup {r}],
               [req[q] EXCEPT
                  !.todo = req[q].todo \ {r},
                  !.pc = IF req[q].todo = {r} THEN "accept" ELSE "grant"])
          /\ UNCHANGED cut
       \/ /\ r \in user[req[q].of].roles
          /\ End(q)
          /\ cut' = cut \cup {req[q].invitation}
          /\ UNCHANGED user
  /\ UNCHANGED <<signVars, creator, removed>>

Accept(q) ==
  /\ At(q, "accept")
  /\ invitation' = [i \in Invitation |->
       IF i = req[q].invitation /\ Pending(i)
       THEN [invitation[i] EXCEPT !.status = "accepted"]
       ELSE invitation[i]]
  /\ Go(q, "session")
  /\ UNCHANGED <<user, link, session, history>>

\* createSession; the status of the user is not asked for.
CreateSession(q) ==
  /\ At(q, "session")
  /\ \E s \in Session :
       /\ session[s] = NoSession
       /\ session' = [session EXCEPT
            ![s] = [user |-> req[q].of, link |-> req[q].link, live |-> TRUE]]
  /\ End(q)
  /\ UNCHANGED <<user, invitation, link, history>>
\* The handlers of the link and of the code after its comparison.
VerifyStatement(q) ==
  \/ Consume(q) \/ FindInvitation(q) \/ CreateUser(q) \/ Grant(q) \/ Accept(q)
  \/ CreateSession(q)
-----------------------------------------------------------------------------
(* Logout, revocation from another session, or 30 days without use         *)

EndSession(s) ==
  /\ session[s].live
  /\ session' = [session EXCEPT ![s].live = FALSE]
  /\ UNCHANGED <<user, invitation, link, req, history>>

ExpireLink(l) ==
  /\ link[l].status = "live"
  /\ link' = [link EXCEPT ![l].status = "expired"]
  /\ UNCHANGED <<user, invitation, session, req, history>>
-----------------------------------------------------------------------------
(* Invitations                                                             *)

\* The address is no user's yet.  roleIds has at least one member.
Invite(q, a, e, roles) ==
  /\ MayUpdateUsers(a) /\ ~Exists(e) /\ roles # {}
  /\ Begin(q, [Idle EXCEPT !.pc = "checkInvited", !.of = e,
                           !.todo = roles])

CheckInvited(q) ==
  /\ At(q, "checkInvited")
  /\ IF PendingFor(req[q].of) = {} THEN Go(q, "invite") ELSE End(q)
  /\ UNCHANGED <<user, signVars, history>>

\* activeEmail is unique: P2002 when another invitation of it is pending.
CreateInvitation(q) ==
  /\ At(q, "invite")
  /\ \/ /\ PendingFor(req[q].of) = {}
        /\ \E i \in Invitation :
             /\ invitation[i] = NoInvitation
             /\ invitation' = [invitation EXCEPT
                  ![i] = [email |-> req[q].of, status |-> "pending",
                          roles |-> req[q].todo]]
        /\ Go(q, "inviteLink")
     \/ /\ PendingFor(req[q].of) # {}
        /\ End(q)
        /\ UNCHANGED invitation
  /\ UNCHANGED <<user, link, session, history>>

\* Also the end of a resend.
CreateInvitationLink(q) ==
  /\ At(q, "inviteLink")
  /\ NewLink(req[q].of, "invitation_accept", FALSE)
  /\ End(q)
  /\ UNCHANGED <<user, invitation, session, history>>

InviteStatement(q) ==
  CheckInvited(q) \/ CreateInvitation(q) \/ CreateInvitationLink(q)

\* mutant: a revoked invitation gets the other status the schema lists
RevokeExpiring(a, i) ==
  /\ MayUpdateUsers(a) /\ Pending(i)
  /\ invitation' = [invitation EXCEPT ![i].status = "expired"]
  /\ UNCHANGED <<user, link, session, req, history>>

\* updateMany where the invitation is pending, one statement.  The links stay.
Revoke(a, i) ==
  /\ MayUpdateUsers(a) /\ Pending(i)
  /\ invitation' = [invitation EXCEPT ![i].status = "revoked"]
  /\ req' = [q \in Request |->
       IF req[q].invitation = i THEN [req[q] EXCEPT !.overtaken = TRUE]
                                ELSE req[q]]
  /\ UNCHANGED <<user, link, session, history>>

Resend(q, a, i) ==
  /\ MayUpdateUsers(a) /\ Pending(i)
  /\ Begin(q, [Idle EXCEPT !.pc = "void", !.of = invitation[i].email])

\* invalidatePreviousMagicLinks
VoidLinks(q) ==
  /\ At(q, "void")
  /\ link' = [l \in Link |->
       IF /\ link[l].email = req[q].of /\ link[l].status = "live"
          /\ link[l].purpose = "invitation_accept"
       THEN [link[l] EXCEPT !.status = "void"]
       ELSE link[l]]
  /\ Go(q, "inviteLink")
  /\ UNCHANGED <<user, invitation, session, history>>
=============================================================================
