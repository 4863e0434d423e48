----------------------------- MODULE UserAdmin -----------------------------
(***************************************************************************)
(* The administrators' handlers of users, roles and approvals:             *)
(* admin/users.ts and admin/approvals.ts.                                  *)
(***************************************************************************)
EXTENDS AccountStore

-----------------------------------------------------------------------------
(* PATCH /v1/admin/users/:id                                               *)

\* Another user is deactivated; a super_admin only if there is another one.
Deactivate(q, a, u) ==
  /\ MayUpdateUsers(a) /\ Exists(u) /\ u # a
  /\ Begin(q, [Idle EXCEPT !.of = u, !.status = "deactivated",
                           !.pc = IF IsSuperAdmin(u) THEN "countAdmins"
                                                     ELSE "revokeAll"])

\* An active user is written all the same; any other needs a role.
Activate(q, a, u) ==
  /\ MayUpdateUsers(a) /\ Exists(u)
  /\ Begin(q, [Idle EXCEPT !.of = u, !.status = "active",
                           !.pc = IF Active(u) THEN "update"
                                               ELSE "countRoles"])

\* mutant: the last super_admin may go too
CountAdminsFrom0(q) ==
  /\ At(q, "countAdmins")
  /\ IF SuperAdmins = {} THEN End(q)
     ELSE Go(q, IF req[q].status = "deactivated" THEN "revokeAll"
                                                 ELSE "countRoles")
  /\ UNCHANGED <<user, signVars, history>>

\* user.count of the active super_admins, for a deactivation or the removal of
\* the role; one of them has to stay.
CountAdmins(q) ==
  /\ At(q, "countAdmins")
  /\ IF Cardinality(SuperAdmins) <= 1 THEN End(q)
     ELSE Go(q, IF req[q].status = "deactivated" THEN "revokeAll"
                                                 ELSE "countRoles")
  /\ UNCHANGED <<user, signVars, history>>

\* revokeAllUserSessions: a statement of its own, before the status.
RevokeAll(q) ==
  /\ At(q, "revokeAll")
  /\ session' = [s \in Session |->
       IF session[s].user = req[q].of THEN [session[s] EXCEPT !.live = FALSE]
                                      ELSE session[s]]
  /\ Go(q, "update")
  /\ UNCHANGED <<user, invitation, link, history>>

\* mutant: the roles are counted, but the answer is not looked at
CountRolesOnly(q) ==
  /\ At(q, "countRoles")
  /\ Go(q, IF req[q].status = "active" THEN "update" ELSE "delete")
  /\ UNCHANGED <<user, signVars, history>>

\* userRole.count: an activation needs one role, a removal two.
CountRoles(q) ==
  /\ At(q, "countRoles")
  /\ IF req[q].status = "active"
     THEN IF user[req[q].of].roles = {} THEN End(q) ELSE Go(q, "update")
     ELSE IF Cardinality(user[req[q].of].roles) <= 1 THEN End(q)
                                                     ELSE Go(q, "delete")
  /\ UNCHANGED <<user, signVars, history>>

\* user.update of the status, whatever it is by now.
Update(q) ==
  /\ req[q].pc \in {"update", "decide"}
  /\ WriteUser(q, req[q].of,
       [user[req[q].of] EXCEPT !.status = req[q].status], Idle)
  /\ UNCHANGED <<signVars, history>>
PatchStatement(q) ==
  CountAdmins(q) \/ RevokeAll(q) \/ CountRoles(q) \/ Update(q)
-----------------------------------------------------------------------------
(* POST /v1/admin/approvals/:userId/approve and .../reject                 *)

\* mutant: the status is not asked for
ApproveAnyStatus(q, a, u) ==
  /\ MayUpdateUsers(a) /\ Exists(u) /\ user[u].roles # {}
  /\ Begin(q, [Idle EXCEPT !.pc = "decide", !.of = u,
                           !.status = "active"])

Approve(q, a, u) ==
  /\ MayUpdateUsers(a)
  /\ user[u].status = "pending_approval" /\ user[u].roles # {}
  /\ Begin(q, [Idle EXCEPT !.pc = "decide", !.of = u,
                           !.status = "active"])

Reject(q, a, u) ==
  /\ MayUpdateUsers(a)
  /\ user[u].status = "pending_approval"
  /\ Begin(q, [Idle EXCEPT !.pc = "decide", !.of = u,
                           !.status = "deactivated"])
-----------------------------------------------------------------------------
(* POST /v1/admin/users/:id/roles and DELETE .../roles/:roleId             *)

AssignRoles(q, a, u, roles) ==
  /\ MayUpdateRoles(a) /\ Exists(u) /\ roles # {}
  /\ Begin(q, [Idle EXCEPT !.pc = "findRole", !.of = u,
                           !.todo = roles])

\* userRole.findUnique for the next role; one the user has is passed over.
FindRole(q) ==
  /\ At(q, "findRole")
  /\ \E r \in req[q].todo :
       IF r \in user[req[q].of].roles
       THEN IF req[q].todo = {r} THEN End(q)
            ELSE req' = [req EXCEPT ![q].todo = req[q].todo \ {r}]
       ELSE req' = [req EXCEPT ![q].pc = "assign", ![q].role = r,
                               ![q].todo = req[q].todo \ {r}]
  /\ UNCHANGED <<user, signVars, history>>

\* userRole.create: P2002 when another request granted the role since.
Assign(q) ==
  /\ At(q, "assign")
  /\ \/ /\ req[q].role \notin user[req[q].of].roles
        /\ WriteUser(q, req[q].of,
             [user[req[q].of] EXCEPT !.roles = @ \cup {req[q].role}],
             IF req[q].todo = {} THEN Idle
                                 ELSE [req[q] EXCEPT !.pc = "findRole"])
     \/ /\ req[q].role \in user[req[q].of].roles
        /\ End(q)
        /\ UNCHANGED user
  /\ UNCHANGED <<signVars, history>>

AssignStatement(q) == FindRole(q) \/ Assign(q)

\* userRole.findUnique; administrators do not demote themselves.
RemoveRole(q, a, u, r) ==
  /\ MayUpdateRoles(a) /\ r \in user[u].roles
  /\ ~(u = a /\ r \in {"admin", "super_admin"})
  /\ Begin(q, [Idle EXCEPT !.of = u, !.role = r,
                           !.pc = IF r = "super_admin" THEN "countAdmins"
                                                       ELSE "countRoles"])

\* userRole.delete: P2025 when another request removed the role since.
DeleteRole(q) ==
  /\ At(q, "delete")
  /\ \/ /\ req[q].role \in user[req[q].of].roles
        /\ WriteUser(q, req[q].of,
             [user[req[q].of] EXCEPT !.roles = @ \ {req[q].role}], Idle)
        /\ removed' = [removed EXCEPT ![req[q].of] = @ \cup {req[q].role}]
     \/ /\ req[q].role \notin user[req[q].of].roles
        /\ End(q)
        /\ UNCHANGED <<user, removed>>
  /\ UNCHANGED <<signVars, creator, cut>>

RemoveRoleStatement(q) == CountAdmins(q) \/ CountRoles(q) \/ DeleteRole(q)
=============================================================================
