---------------------------- MODULE Subscriptions ----------------------------
(***************************************************************************)
(* The subscriptions of one user to one category, a CategorySubscription   *)
(* row per channel, and the suppression entry of the user's phone number.  *)
(* Handlers of routes/subscriptions.ts, admin/subscriptions.ts,            *)
(* routes/unsubscribe.ts and routes/twilio-inbound.ts run concurrently;    *)
(* each performs one D1 statement per action and may be cut off between    *)
(* two of them.  enqueueDeliveries appears as far as it reads and          *)
(* references the rows.                                                    *)
(*                                                                         *)
(* A link stands for a confirmation token, whose hash the row stores.  The *)
(* handlers drop the raw token, so how a link reaches the user is left to  *)
(* the environment (README, section 4).  A row is named by the link it was *)
(* created with.                                                           *)
(***************************************************************************)
EXTENDS Naturals, FiniteSets

CONSTANTS Channel,     \* the channels in use
          Request,     \* slots for requests under way
          Link,        \* bound: the confirmation tokens ever stored
          NoLink,      \* SQL null
          ResendLimit  \* RESEND_LIMIT of subscription-service.ts

ASSUME SubscriptionAssumption ==
  /\ Channel \subseteq {"email", "sms"} /\ Channel # {}
  /\ Link # {} /\ IsFiniteSet(Link) /\ NoLink \notin Link
  /\ Request # {} /\ IsFiniteSet(Request)
  /\ ResendLimit \in Nat

VARIABLES row,       \* row[c]: the subscription of channel c
          number,    \* the SmsSuppression entry of the user's number
          owner,     \* owner[l]: the row link l was stored in
          resends,   \* resends[r]: audit entries "subscription:resend" of row r
          req,       \* req[q]: the request in slot q
          overtaken, \* history: confirmations whose row was opted out after
                     \* they had found it pending
          unaudited  \* history: rows that got a token in a request that was
                     \* cut off before its audit entry

vars == <<row, number, owner, resends, req, overtaken, unaudited>>

OrNone(S) == S \cup {NoLink}

Status == {"none", "pending", "confirmed", "declined"}
Row == [id: OrNone(Link), status: Status, hash: OrNone(Link), expired: BOOLEAN,
        confirmedAt: BOOLEAN, declinedAt: BOOLEAN, deliveries: BOOLEAN]
NoRow == [id |-> NoLink, status |-> "none", hash |-> NoLink, expired |-> FALSE,
          confirmedAt |-> FALSE, declinedAt |-> FALSE, deliveries |-> FALSE]
NewRow(l) == [NoRow EXCEPT !.id = l, !.status = "pending", !.hash = l]

Op == {"none", "subscribe", "admin", "resend", "delete", "forget", "confirm",
       "decline", "optout", "stop", "publish"}
\* The statement a request executes next; "error" is the answer 500.
PC == {"idle", "look", "create", "remove", "count", "renew", "audit",
       "confirm", "decline", "optout", "restore", "declineAll", "filter",
       "deliver", "error"}
RequestState == [pc: PC, op: Op, ch: Channel \cup {"none"}, id: OrNone(Link),
                 todo: SUBSET Channel]
Idle == [pc |-> "idle", op |-> "none", ch |-> "none", id |-> NoLink,
         todo |-> {}]

SubTypeOK ==
  /\ row \in [Channel -> Row]
  /\ number \in {"absent", "active", "removed"}
  /\ owner \in [Link -> OrNone(Link)]
  /\ resends \in [Link -> Nat]
  /\ req \in [Request -> RequestState]
  /\ overtaken \in SUBSET Request
  /\ unaudited \in SUBSET Link

Init ==
  /\ row = [c \in Channel |-> NoRow]
  /\ number = "absent"
  /\ owner = [l \in Link |-> NoLink]
  /\ resends = [l \in Link |-> 0]
  /\ req = [q \in Request |-> Idle]
  /\ overtaken = {}
  /\ unaudited = {}
-----------------------------------------------------------------------------
At(q, pc) == req[q].pc = pc
RowOf(q) == row[req[q].ch]

\* "where: { id }" matches a row.
Found(q) == req[q].id # NoLink /\ RowOf(q).id = req[q].id

Go(q, pc) == req' = [req EXCEPT ![q].pc = pc]
End(q) == req' = [req EXCEPT ![q] = Idle]
Begin(q, pc, op, c) ==
  /\ At(q, "idle")
  /\ req' = [req EXCEPT ![q] = [pc |-> pc, op |-> op, ch |-> c,
                                id |-> row[c].id, todo |-> {}]]

\* The loop over body.channels takes the next channel or the request answers.
NextChannel(q, rest) ==
  req' = [req EXCEPT ![q] =
            IF rest = {} THEN Idle
            ELSE [Idle EXCEPT !.pc = "look", !.op = req[q].op, !.todo = rest]]

\* update or updateMany { status: "declined" } of the rows in cs.
OptOut(cs, hash) ==
  /\ row' = [c \in Channel |->
               IF c \in cs
               THEN [row[c] EXCEPT !.status = "declined", !.declinedAt = TRUE,
                                   !.hash = hash[c],
                                   !.expired = @ /\ hash[c] # NoLink]
               ELSE row[c]]
  /\ overtaken' = overtaken \cup
       {q \in Request : At(q, "confirm") /\ Found(q) /\ req[q].ch \in cs}

Hashes == [c \in Channel |-> row[c].hash]
-----------------------------------------------------------------------------
(* POST /v1/me/subscriptions and POST /v1/admin/subscriptions              *)

BeginLoop(q, op, cs) ==
  /\ At(q, "idle")
  /\ req' = [req EXCEPT ![q] = [Idle EXCEPT !.pc = "look", !.op = op,
                                            !.todo = cs]]
  /\ UNCHANGED <<row, number, owner, resends, overtaken, unaudited>>

\* The category is active and the user has a phone number: otherwise 422.
Subscribe(q, cs) == cs # {} /\ BeginLoop(q, "subscribe", cs)

\* The admin's limits (20 an hour, 5 pending per user) are beyond the bounds.
AdminSubscribe(q, cs) == cs # {} /\ BeginLoop(q, "admin", cs)

Proceed(q, c, pc) ==
  req' = [req EXCEPT ![q] =
            [@ EXCEPT !.pc = pc, !.ch = c, !.id = row[c].id,
                      !.todo = req[q].todo \ {c}]]

\* mutant: the admin's request replaces a pending row as it does a declined one
LookReplacing(q, c) ==
  /\ At(q, "look") /\ c \in req[q].todo
  /\ \/ row[c].status = "none" /\ Proceed(q, c, "create")
     \/ row[c].status = "declined" /\ Proceed(q, c, "remove")
     \/ row[c].status = "pending" /\ Proceed(q, c, "remove")
     \/ row[c].status = "confirmed" /\ End(q)
  /\ UNCHANGED <<row, number, owner, resends, overtaken, unaudited>>

\* findUnique by user, category and channel.  A confirmed row ends the whole
\* request with 409, also when channels before it were subscribed.  The user's
\* request renews a pending row; the admin's passes over it.
Look(q, c) ==
  /\ At(q, "look") /\ c \in req[q].todo
  /\ \/ row[c].status = "none" /\ Proceed(q, c, "create")
     \/ row[c].status = "declined" /\ Proceed(q, c, "remove")
     \/ /\ row[c].status = "pending"
        /\ IF req[q].op = "subscribe" THEN Proceed(q, c, "count")
                                      ELSE NextChannel(q, req[q].todo \ {c})
     \/ row[c].status = "confirmed" /\ End(q)
  /\ UNCHANGED <<row, number, owner, resends, overtaken, unaudited>>

\* The unique key (user, category, channel) refuses a second row: P2002.
Create(q) ==
  /\ At(q, "create")
  /\ \/ /\ RowOf(q).id = NoLink
        /\ \E l \in Link :
             /\ owner[l] = NoLink
             /\ owner' = [owner EXCEPT ![l] = l]
             /\ row' = [row EXCEPT ![req[q].ch] = NewRow(l)]
        /\ NextChannel(q, req[q].todo)
     \/ /\ RowOf(q).id # NoLink
        /\ Go(q, "error")
        /\ UNCHANGED <<row, owner>>
  /\ UNCHANGED <<number, resends, overtaken, unaudited>>

\* delete where id: refused when the row is gone (P2025) and, by the foreign
\* key of AnnouncementDelivery (ON DELETE RESTRICT), once a delivery names it.
Remove(q) ==
  /\ At(q, "remove")
  /\ \/ /\ Found(q) /\ ~RowOf(q).deliveries
        /\ row' = [row EXCEPT ![req[q].ch] = NoRow]
        /\ IF req[q].op \in {"subscribe", "admin"}
           THEN req' = [req EXCEPT ![q] = [@ EXCEPT !.pc = "create",
                                                    !.id = NoLink]]
           ELSE End(q)
     \/ /\ Found(q) => RowOf(q).deliveries
        /\ Go(q, "error")
        /\ UNCHANGED row
  /\ UNCHANGED <<number, owner, resends, overtaken, unaudited>>
-----------------------------------------------------------------------------
(* POST /v1/me/subscriptions/:id/resend, the admin's resend, and the       *)
(* resend inside Subscribe                                                 *)

Resend(q, c) ==
  /\ row[c].status = "pending"
  /\ Begin(q, "count", "resend", c)
  /\ UNCHANGED <<row, number, owner, resends, overtaken, unaudited>>

\* checkResendRateLimit
CountResends(q) ==
  /\ At(q, "count")
  /\ IF resends[req[q].id] < ResendLimit THEN Go(q, "renew")
                                         ELSE NextChannel(q, req[q].todo)
  /\ UNCHANGED <<row, number, owner, resends, overtaken, unaudited>>

\* The row gets a new token, whatever its status has become.
Renew(q) ==
  /\ At(q, "renew")
  /\ \/ /\ Found(q)
        /\ \E l \in Link :
             /\ owner[l] = NoLink
             /\ owner' = [owner EXCEPT ![l] = req[q].id]
             /\ row' = [row EXCEPT ![req[q].ch] =
                          [@ EXCEPT !.hash = l, !.expired = FALSE]]
        /\ Go(q, "audit")
     \/ /\ ~Found(q)
        /\ Go(q, "error")
        /\ UNCHANGED <<row, owner>>
  /\ UNCHANGED <<number, resends, overtaken, unaudited>>

\* mutant: the resend is not recorded
AuditNothing(q) ==
  /\ At(q, "audit")
  /\ NextChannel(q, req[q].todo)
  /\ UNCHANGED <<row, number, owner, resends, overtaken, unaudited>>

Audit(q) ==
  /\ At(q, "audit")
  /\ resends' = [resends EXCEPT ![req[q].id] = @ + 1]
  /\ NextChannel(q, req[q].todo)
  /\ UNCHANGED <<row, number, owner, overtaken, unaudited>>
-----------------------------------------------------------------------------
(* DELETE /v1/me/subscriptions/:id, its admin twin, and the links          *)

Delete(q, c) ==
  /\ row[c].status # "none"
  /\ Begin(q, "remove", "delete", c)
  /\ UNCHANGED <<row, number, owner, resends, overtaken, unaudited>>

\* mutant: the link is looked up without "status: pending"
OpenLinkAnyStatus(q, c, l, answer) ==
  /\ row[c].hash = l /\ ~row[c].expired
  /\ Begin(q, answer, answer, c)
  /\ UNCHANGED <<row, number, owner, resends, overtaken, unaudited>>

\* findFirst of the confirm and the decline page.
OpenLink(q, c, l, answer) ==
  /\ row[c].hash = l /\ row[c].status = "pending" /\ ~row[c].expired
  /\ Begin(q, answer, answer, c)
  /\ UNCHANGED <<row, number, owner, resends, overtaken, unaudited>>

\* The unsubscribe page takes a confirmation token too, of any status.
ForgetByLink(q, c, l) ==
  /\ row[c].hash = l /\ ~row[c].expired
  /\ Begin(q, "remove", "forget", c)
  /\ UNCHANGED <<row, number, owner, resends, overtaken, unaudited>>

\* update where id; it does not ask for the status again.
Confirm(q) ==
  /\ At(q, "confirm")
  /\ \/ /\ Found(q)
        /\ row' = [row EXCEPT ![req[q].ch] =
             [@ EXCEPT !.status = "confirmed", !.confirmedAt = TRUE,
                       !.hash = NoLink, !.expired = FALSE]]
        /\ End(q)
     \/ /\ ~Found(q)
        /\ Go(q, "error")
        /\ UNCHANGED row
  /\ overtaken' = overtaken \ {q}
  /\ UNCHANGED <<number, owner, resends, unaudited>>

Decline(q) ==
  /\ At(q, "decline")
  /\ \/ /\ Found(q)
        /\ OptOut({req[q].ch}, [Hashes EXCEPT ![req[q].ch] = NoLink])
        /\ End(q)
     \/ /\ ~Found(q)
        /\ Go(q, "error")
        /\ UNCHANGED <<row, overtaken>>
  /\ UNCHANGED <<number, owner, resends, unaudited>>

\* The link in a message that was sent names a delivery and through it the row.
OpenDeliveryLink(q, c) ==
  /\ row[c].deliveries
  /\ Begin(q, "optout", "optout", c)
  /\ UNCHANGED <<row, number, owner, resends, overtaken, unaudited>>

\* The foreign key keeps the row the delivery names.
Unsubscribe(q) ==
  /\ At(q, "optout") /\ Found(q)
  /\ OptOut({req[q].ch}, Hashes)
  /\ End(q)
  /\ UNCHANGED <<number, owner, resends, unaudited>>
-----------------------------------------------------------------------------
(* POST /v1/webhooks/twilio/inbound                                        *)

\* STOP creates the suppression entry, or meets P2002 and restores it.
Stop(q) ==
  /\ At(q, "idle")
  /\ IF number = "absent"
     THEN /\ number' = "active"
          /\ req' = [req EXCEPT ![q] = [Idle EXCEPT !.pc = "declineAll",
                                                    !.op = "stop"]]
     ELSE /\ UNCHANGED number
          /\ req' = [req EXCEPT ![q] = [Idle EXCEPT !.pc = "restore",
                                                    !.op = "stop"]]
  /\ UNCHANGED <<row, owner, resends, overtaken, unaudited>>

Restore(q) ==
  /\ At(q, "restore")
  /\ number' = "active"
  /\ Go(q, "declineAll")
  /\ UNCHANGED <<row, owner, resends, overtaken, unaudited>>

\* updateMany of the SMS rows; their tokens stay.
DeclineAll(q) ==
  /\ At(q, "declineAll")
  /\ OptOut({c \in Channel \cap {"sms"} :
               row[c].status \in {"pending", "confirmed"}}, Hashes)
  /\ End(q)
  /\ UNCHANGED <<number, owner, resends, unaudited>>

\* START is one statement; without an entry it changes nothing.
Start ==
  /\ number # "absent"
  /\ number' = "removed"
  /\ UNCHANGED <<row, owner, resends, req, overtaken, unaudited>>
-----------------------------------------------------------------------------
(* enqueueDeliveries for one row, and the world around                     *)

\* mutant: the audience is not restricted to confirmed rows
ReadRows(q, c) ==
  /\ row[c].status # "none"
  /\ Begin(q, "filter", "publish", c)
  /\ UNCHANGED <<row, number, owner, resends, overtaken, unaudited>>

ReadAudience(q, c) ==
  /\ row[c].status = "confirmed"
  /\ Begin(q, "filter", "publish", c)
  /\ UNCHANGED <<row, number, owner, resends, overtaken, unaudited>>

DropSuppressed(q) ==
  /\ At(q, "filter")
  /\ IF req[q].ch = "sms" /\ number = "active" THEN End(q) ELSE Go(q, "deliver")
  /\ UNCHANGED <<row, number, owner, resends, overtaken, unaudited>>

\* announcementDelivery.create: the foreign key needs the row to be there.
Deliver(q) ==
  /\ At(q, "deliver")
  /\ \/ /\ Found(q)
        /\ row' = [row EXCEPT ![req[q].ch].deliveries = TRUE]
        /\ End(q)
     \/ /\ ~Found(q)
        /\ Go(q, "error")
        /\ UNCHANGED row
  /\ UNCHANGED <<number, owner, resends, overtaken, unaudited>>

\* mutant: an expired row gets the status of its own the schema lists
ExpireMarked(c) ==
  /\ row[c].status = "pending"
  /\ row' = [row EXCEPT ![c].status = "expired"]
  /\ UNCHANGED <<number, owner, resends, req, overtaken, unaudited>>

\* expiresAt passes.  Only lookups by token compare it, so it is kept for rows
\* with a token; no job writes the status "expired".
Expire(c) ==
  /\ row[c].hash # NoLink /\ ~row[c].expired
  /\ row' = [row EXCEPT ![c].expired = TRUE]
  /\ UNCHANGED <<number, owner, resends, req, overtaken, unaudited>>

\* The answer 500 goes out; or the request ends between two statements.
Fail(q) ==
  /\ ~At(q, "idle")
  /\ End(q)
  /\ overtaken' = overtaken \ {q}
  /\ unaudited' = unaudited \cup {l \in Link : At(q, "audit") /\ req[q].id = l}
  /\ UNCHANGED <<row, number, owner, resends>>
-----------------------------------------------------------------------------
Arrival(q) ==
  \/ \E cs \in SUBSET Channel : Subscribe(q, cs) \/ AdminSubscribe(q, cs)
  \/ \E c \in Channel :
       \/ Resend(q, c) \/ Delete(q, c) \/ OpenDeliveryLink(q, c)
       \/ ReadAudience(q, c)
       \/ \E l \in Link : \/ ForgetByLink(q, c, l)
                          \/ OpenLink(q, c, l, "confirm")
                          \/ OpenLink(q, c, l, "decline")
  \/ Stop(q)

Statement(q) ==
  \/ \E c \in Channel : Look(q, c)
  \/ Create(q) \/ Remove(q) \/ CountResends(q) \/ Renew(q) \/ Audit(q)
  \/ Confirm(q) \/ Decline(q) \/ Unsubscribe(q) \/ Restore(q) \/ DeclineAll(q)
  \/ DropSuppressed(q) \/ Deliver(q)

Next ==
  \/ \E q \in Request : Arrival(q) \/ Statement(q) \/ Fail(q)
  \/ \E c \in Channel : Expire(c)
  \/ Start

Spec == Init /\ [][Next]_vars
-----------------------------------------------------------------------------
\* A row that was opted out (declined by its link, unsubscribed from a message,
\* or stopped by SMS) is never confirmed by a link opened afterwards: the only
\* confirmations that still get through had found the row pending before.
\* STOP and the message link leave the token in the row, so this rests on the
\* status in the query of the confirm page and on no other handler making a
\* row pending again.
OptOutIsFinal ==
  [][\A c \in Channel :
       /\ row[c].status = "declined" /\ row'[c].id = row[c].id
       /\ row'[c].status # "declined"
       => \E q \in overtaken : At(q, "confirm") /\ req[q].ch = c]_vars

\* checkResendRateLimit counts audit entries that are written after the token:
\* requests that count at the same time all pass, so a row may get one token
\* for every slot beyond the limit, and no more, unless a request was cut off
\* between the token and its entry.
LinksOf(l) == {k \in Link : owner[k] = l}
ResendsBounded ==
  \A l \in Link \ unaudited :
    Cardinality(LinksOf(l) \ {l}) <= ResendLimit + Cardinality(Request) - 1

\* A delivery refers only to a row its user had confirmed, although the row may
\* be opted out, deleted and subscribed anew between the reading of the
\* audience and the insertion of the delivery.
DeliveredWereConfirmed ==
  \A c \in Channel : row[c].deliveries => row[c].confirmedAt

\* Subscribing again never throws away a subscription that was not opted out:
\* whatever happened since the row was read, the row it deletes was declined at
\* some time.  (A confirmation that was under way may have confirmed it since.)
OnlyOptedOutIsReplaced ==
  \A q \in Request :
    At(q, "remove") /\ req[q].op \in {"subscribe", "admin"} /\ Found(q)
    => RowOf(q).declinedAt
=============================================================================
