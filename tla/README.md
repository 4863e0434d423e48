# Formal models of production-city-web

TLA+ modules that model parts of this repository, the TLC runs that check them,
and theorems about them that TLAPS proves. `PROJECT.json` lists the runs, the
source lines behind every definition, the hazards and the theorems. Paths below
are relative to the repository.

    tlc -workers 2 -config delivery_pipeline.cfg MCDelivery.tla
    tlapm AnnouncementDeliveryProofs.tla

## 1. The system

The repository is a public site and a dashboard over a Cloudflare Worker API.

- `apps/backend`: the API (Hono, Prisma over D1), one Durable Object class for
  WebSockets, and the producer side of a job queue.
- `apps/workers`: the consumer of that queue, and a nightly cleanup.
- `apps/web`: the browser application, with its WebSocket client library.
- `prisma`: the schema and migrations. D1 executes one statement atomically. The
  code uses no multi-statement transaction, so whatever a handler reads may have
  changed before it writes, and a handler may stop between two writes.

### Components, their state, and what makes them correct

**Announcement delivery** (`apps/backend/src/lib/delivery-service.ts`,
`apps/workers/src/index.ts`, `apps/workers/src/delivery-handler.ts`,
`apps/backend/src/routes/twilio-status.ts`, `apps/backend/src/email/webhook.ts`).
State: one `AnnouncementDelivery` row per recipient and channel, the suppression
lists, a message per row in Cloudflare Queues, events per callback. A publisher
creates the rows and then sends the messages. A consumer claims a row, asks
Postmark or Twilio, and stores the answer. The providers report back by
callbacks that repeat and overtake each other. Correct means: nobody is sent the
same announcement twice, nobody who opted out is sent one, a status says what
happened, and no row is forgotten. *Modelled and proved about.*

**Browser tabs** (`apps/web/app/lib/websocket/TabCoordinator.ts`,
`WebSocketProvider.tsx`). State: per tab a leader flag, a timer, and sockets with
late close events. Tabs talk over a BroadcastChannel. Correct means: only a leader
uses a connection, a follower notices a dead leader, and a leader is not left
without a connection. *Modelled and proved about.*

**Subscriptions and suppression** (`routes/subscriptions.ts`,
`routes/twilio-inbound.ts`, `routes/unsubscribe.ts`, `lib/subscription-service.ts`).
State: one subscription per user, category and channel with a status and a token
hash; suppression entries with `removedAt`. Hard: confirm, decline, STOP,
unsubscribe and delete read and then write the same row. Correct means: an
opt-out is not undone by a link opened later, a delivery refers only to a confirmed
subscription, and who wants to unsubscribe or to subscribe again can. *Modelled and
proved about.*

**Sign-in and sessions** (`auth/handlers.ts`, `auth/token.ts`, `auth/session.ts`,
`email/service.ts`). State: magic links with a code, attempts and a used mark;
sessions with a revocation time. Hard: concurrent guesses of a code; a link that is
consumed before the user, the roles and the session exist. Correct means: a link or
its code signs in once, guesses are bounded, and an accepted invitation has its user
with all its roles. *Modelled and proved about.*

**Users, roles, invitations, approvals** (`admin/users.ts`, `admin/invitations.ts`,
`admin/approvals.ts`). State: user status, roles, one open invitation per address.
Hard: the last super_admin is protected by a count read before the write; approve
and reject race; an invitation is revoked while it is accepted. Correct means: only
requests that overlap can remove the last super_admin or a user's last role, or
overturn a decision. *Modelled and proved about.*

**Announcement publishing** (`admin/announcements.ts`). State: one row, draft,
published or archived, with links to categories and roles that an edit deletes and
creates again one by one. Hard: publishing is conditional, unpublishing, archiving
and editing are not. Correct means: what is published has a category and somebody
who may see it, an archived announcement stays as it is, the slug of a published
one is frozen. *Modelled and proved about; tags and media checks are left out.*

**WebSocket server** (`durable-objects/websocket-server.ts`, `channel-manager.ts`,
`event-log.ts`, `routes/ws.ts`, `push-helpers.ts`). State: sockets with attachments,
a channel table in memory, an event log in memory, an alarm. Hard: hibernation
between any two events, sockets that are closing while they still count, errors
without a close. Correct means: the table rebuilt from the attachments is what the
clients asked for, a subscriber has the last event of its channels, the limits of
connections hold. *Modelled and proved about.*

**Delivery status in the browser** (`usePollingFallback.ts`, `useDeliveryStatus.ts`,
`login/page.tsx`). State: poll timers and polls in flight, one reference to a timer,
a pause flag, a socket per link. Hard: a resend replaces the link while timers, polls
and close events of the earlier one are still to come, and all share the flags.
Correct means: the page tells the outcome or gives up in time, and stops asking.
*Modelled and proved about.*

**Not planned**: the scheduled cleanup (three deletions by age), HubSpot and
expressions of interest (one insert, one mail, one upsert), request middleware and
per-isolate rate limits, content administration, registry, user interface, scripts
and packages. They have no protocol of several steps or actors that a test would
not reach.

The components meet in few places. Recipients' subscriptions, statuses and
suppression entries feed delivery; sign-in mail bounces feed the same e-mail
suppression list; the tabs hold the sockets that the WebSocket server serves.

### Which behaviours are hard

Concurrent invocations over D1 without transactions, at-least-once queue delivery
with redelivery while the first invocation still runs, invocations that die at any
await, callbacks in any order, and event-loop tasks of several tabs with messages,
timers and close events under way. `PROJECT.json` lists them at their lines with
the properties that cover them.

## 2. Modules

    DeliveryStore          rows, suppression lists, recipients, queue, providers
      DeliveryEnqueue      calls of enqueueDeliveries
      DeliveryWorker       invocations of the queue consumer
      DeliveryCallbacks    callback requests
        AnnouncementDelivery   the three composed; fairness and properties
          MCDelivery                  TLC instances
          AnnouncementDeliveryProofs  theorems
            DeliveryCallbackProofs    theorems about statuses and callbacks
    DeliveryContract       what a delivery promises, as a specification of its own

    TabCoordinator         leader election between tabs
      TabConnection        WebSocketProvider on top of it
        MCTabs             TLC instances
        TabProofs          theorems

    Subscriptions          one user's subscriptions and the suppression of a number
      MCSubscriptions      TLC instances
      SubscriptionProofs   theorems

    AccountStore           users, invitations, links, sessions and request slots
      SignIn               links, verification, acceptance, sessions, invitations
      UserAdmin            status, roles and approvals
        Accounts           the two composed; properties
          MCAccounts       TLC instances
          AccountProofs    theorems

    WebSocketServer        one Durable Object
      MCServer             TLC instance
      WebSocketProofs      theorems

    Publishing             one announcement
      MCPublishing         TLC instance
      PublishingProofs     theorems

    StatusPage             the login page that follows a magic link
      StatusPageProofs     theorems

### Announcement delivery

One D1 statement, queue operation or provider request is one action. A *target* is
a pair of recipient and channel; the schema's unique key leaves one row per target
of an announcement, so `row[t]` is the row's status column and "none" before it
exists. `ext` are the rows with an `externalMessageId`, `supp[t]` the suppression
entry of t's address (absent, active, or removed while `removedAt` is set),
`job[t]` and `attempts[t]` the queue message, `accepted[t]` how many messages the
provider took. `barred` is history: the causes that blocked a target when its row
was claimed and have not been lifted since.

- `DeliveryEnqueue`: a publisher reads the audience, drops the suppressed, creates
  one row per target and then sends one message per row *it* created. Two calls for
  one announcement race for the unique key. `AbortCall` stops one between any two
  statements.
- `DeliveryWorker`: `Receive` hands a message to an invocation, also while another
  holds it. `Fetch`, `Claim` (the conditional `updateMany`), `RecordSending`,
  `LoadRecipient`, `CheckSuppression`, `Transmit`, `StoreSent`, `RecordSent` follow
  `processDeliveryJob`; `MarkStatus` and `RecordMark` are `markFailed` and
  `markSuppressed`. The code's `try` begins at "load": `ThrowInTry` marks the row
  `processing_error` and re-throws, `ThrowToConsumer` asks for a retry.
  `LoseResponse` is a request whose answer is lost after the provider took the
  message. `CrashWorker` ends an invocation anywhere.
- `DeliveryCallbacks`: a handler reads the row and checks the order (`Arrive`),
  inserts the event (`RecordEvent`), updates the row by id (`ApplyCallback`) and
  updates the suppression list (`SuppressAddress`).

`DeliveryContract` counts the messages sent of each row. The mapping takes its phase from
the row and what was accepted (`Phase`) and its count from `accepted`, so a second message
is neither a step of the contract nor a stutter. `queue.send` runs for all jobs of a
publisher at once (`delivery-service.ts:183`); the sends that are under way when one fails
are `SendJob` steps taken before `AbortCall`.

What is external: the providers (`Transmit` accepts or refuses; that `Emit` reports one
final outcome per message is an assumption about them, no handler enforces it), the queue's dead-lettering after `max_retries`
(`apps/workers/wrangler.toml`), and the operator who re-drives dead letters
(`docs/knowledge/queues.md`).

Left out as unreachable: `data_not_found` (the foreign keys are RESTRICT and
nothing deletes users or announcements), `no_phone` after a confirmed SMS
subscription (nothing writes `User.phone`), an unknown channel. `removedAt` of an
e-mail suppression is never set by the code. A successful provider answer without a
message id is not modelled. Two facts about the callers: `enqueueDeliveries` and
`processAnnouncementWebhookEvent` have no caller outside the tests at this commit
(`delivery-service.ts:3` says the publish endpoint calls it); the model takes them
as their comments describe their use.

### Browser tabs

Every action is one task of a tab's event loop. `inbox[t]` holds the messages
posted to t; how long they take and how late a timer runs is open, because browsers
throttle timers of background tabs by more than the coordinator's five and ten
seconds. A message is its type: the handlers only ask whether it is another tab's,
which the channel guarantees. `Room` bounds how many messages tabs post on their
own; answers to messages are never blocked.

`TabConnection` joins each of these tasks with what the provider's
`onLeaderChange` callback does inside it. A socket is connecting, open or closing
until its close event, which may come long after a newer socket was made
(`SocketCloses` forgets whichever socket `wsRef` holds, as the code does). A tab of
the model is one life of the provider: `ProtectedRoute` unmounts it at sign-out and
a mount afterwards is a new tab. The relay of messages, channels, replay, ping and
backoff delays are left out: they do not touch this state.

### Subscriptions and suppression

`Subscriptions` is about one user and one category. `row[c]` is the
`CategorySubscription` row of channel c, `number` the suppression entry of the
user's phone. A *link* stands for a confirmation token; `owner[l]` is the row it was
stored in, and a row is named by its first link, so a row that was deleted and
created anew has another name and "where: { id }" of an older request does not find
it (`Found`). `req[q]` is a request: its next statement, the channel and the row id
it read, and the channels its loop still has to visit.

- `Subscribe`, `AdminSubscribe`, `Look`, `Create`, `Remove` are the two POST
  handlers with their loop over channels; `Remove` is also the DELETE handlers and
  the unsubscribe page's lookup by confirmation token (`Delete`, `ForgetByLink`).
  The foreign key of `AnnouncementDelivery` makes it fail (`deliveries`).
- `Resend`, `CountResends`, `Renew`, `Audit`: the resend handlers and the resend of
  a pending row inside `Subscribe`.
- `OpenLink`, `Confirm`, `Decline`, `OpenDeliveryLink`, `Unsubscribe`: the public
  pages. `Stop`, `Restore`, `DeclineAll`, `Start`: the inbound webhook of Twilio.
- `ReadAudience`, `DropSuppressed`, `Deliver`: `enqueueDeliveries` for one row.
- `Fail` ends a request with its answer 500 or between two statements.

`overtaken` and `unaudited` are history. Two abstractions: all resends fall into one
window of the hourly limit, and `expired` is kept only for a row with a token, since
only lookups by token compare it. As in the delivery model, the phone number is
taken as given although nothing in the repository writes it.

### Accounts

`AccountStore` keeps the tables and the request slots; a request has the next
statement, what it read, and two history flags: `stale` (another request wrote a
user since it decided) and `overtaken` (the invitation it found was revoked since).
`creator[u]` is the invitation that created u, `removed` the roles taken away by
administrators, `cut` the invitations whose acceptance was cut off.

- `SignIn`: `RequestLink` and `CreateLink` (a new login link; earlier links of the
  address stay good), `OpenLink`, `EnterCode`, `CountGuess`, `Consume` (the
  conditional `updateMany`), then `FindInvitation`, `CreateUser`, one `Grant` per
  role, `Accept`, `CreateSession`; `Invite` to `CreateInvitationLink`, `Revoke`,
  `Resend` and `VoidLinks`.
- `UserAdmin`: deactivation (`CountAdmins`, `RevokeAll`, `Update`), activation
  (`CountRoles`), approval and rejection, assignment (`FindRole`, `Assign`) and
  removal of roles (`DeleteRole`).

Left out: rate limits (counts of earlier rows by time), the mail itself (any link may
be opened), and whether a request carries a live session: every active user with the
permission may act, which allows more than the code does. A nested Prisma create is
taken as one statement. Codes are compared only by whether they are right.

### WebSocket server

`WebSocketServer` is one object of either kind; `of` says whose sockets it serves and
is chosen in `Init`. `channels` is what the sockets' attachments hold, `table` the
channel table while the object is in memory, `log` the event log, restricted to
entries younger than its time to live (`AgeLog` drops them). `Evict` and a
redeployment drop the memory; `Reconstructed` is the constructor followed by the
event that woke the object. Facts of the platform that the model takes as given:
`getWebSockets` still returns sockets that are closing, `send` on them throws, and
their order is unspecified. A delivery token is used up by its connection, so a link
has one viewer. Signatures, origins and rates only decide whether a request is
rejected and are left out.

### Publishing

`Publishing` is one announcement. Every handler reads the row first and acts on what
it read. `DropCats`, `AddCat`, `DropRoles`, `AddRole`, `Update` are the statements of
an edit; the creates of one `Promise.all` come in any order, and when one fails the
others are still under way while the handler has answered (`abandoned`). `stale`
marks a request since whose read another one wrote; a create that the unique key refuses
writes nothing and marks nobody. `torn` is history: an edit was
cut off after its first write, or finished over another's writes; a publish whose
check nobody disturbed clears it. Left out: tags (replaced like categories), the
choice of a free slug and the media check, which can only refuse, and texts, which
are the number of the edit that wrote them.

### Status page

`StatusPage` takes one callback of the page as one action, with the effects that its
state changes cause; React may run them slightly later. A *chain* is a timer that
arms itself again after each poll. For one link, the effect starts a chain and the
close event of its socket may start a second, and both poll for the link they were
made for even when the page follows another. `ref` is `intervalRef`: it names the
chain whose timer was armed last, also after that timer ran out. The effect returns a
cleanup only when there is a link, so a timer that is armed while the page has none (by a
poll that was in flight, or by a closing socket that resumes) is not stopped by the next
link: `LeftOver` keeps it, `ref` names the new chain, and it polls on for the earlier
link. `Unfollow` without a link changes nothing. A socket that is
replaced closes later; its `onclose` passes the `mountedRef` check because the next
effect has set it again, so the model has no mounted flag. Left out: the backoff
delays, `sendingTooLong`, typing the code, and browsers without WebSocket.

## 3. Runs

| run | asks | bounds |
|---|---|---|
| `delivery_pipeline` | Is a message sent twice, to a recipient who opted out, or forgotten? Does every queued row settle? Does the pipeline implement `DeliveryContract`? | one SMS recipient who opts out and returns, 2 publishers, 2 workers, 2 attempts, 1 fault of a publisher or a worker |
| `delivery_callbacks` | Does a recorded callback take effect, and in which way alone may a status go back? | 2 handlers, both channels, a callback of every effect on a row, 1 crash of a handler |
| `delivery_regression` | *violated*: does a status never go back? | 2 handlers, e-mail, 3 kinds of callbacks, no fault |
| `delivery_retry` | *violated*: is a retried job tried again? | 1 worker, 1 fault |
| `tabs_election` | Does a follower always watch, do two leaders always have a message under way that ends their rivalry, does a leader always return? | 3 tabs, inbox bound 2 |
| `tabs_sockets` | Does only a leader use a socket, is a leader never stranded? | 2 tabs, 2 sockets each, 2 retries |
| `subscriptions_optout` | Is an opt-out final? Are deliveries only for confirmed rows, resends bounded, standing subscriptions kept? | SMS, 2 requests, 4 tokens, resend limit 1 |
| `accounts_signin` | Does a link sign in once, are guesses bounded, is an acceptance whole, does a revoked invitation create nobody? | 2 users, 1 invitation, 2 links, 2 sessions, 2 requests, 1 attempt |
| `accounts_admins` | Does a super_admin remain, does an active user keep a role, do decisions stand? | 2 users who administer each other, 2 roles, 2 requests |
| `websocket_server` | Does the channel table follow the attachments, are subscribers up to date, do the limits hold? | 4 sockets, limits of 2 for the user and 3 for the object, 1 event per channel |
| `publishing_lifecycle` | Is what is published complete, does the lifecycle hold? | 2 categories, 1 role, 2 requests, 2 edits |
| `status_page` | Does the page settle without a socket, does polling end? | 2 links, so up to 4 chains and 2 sockets |

**Why the bounds are enough.** Targets never share a row, a message or an
invocation; the only state between two of them is the suppression list of one
address and the publisher's loop, so one recipient with one or two channels shows
what there is. A row has one claim, so a third worker only repeats the second.
Two attempts and a fault let a message be redelivered while it is handled, fail, be
retried, be dead-lettered and re-driven. That a row is still queued when its message is
dead-lettered takes as many faults as attempts; the run holds with two faults as well but
takes four minutes, and `NoQueuedRowIsLost` is proved for any number. Two handlers are
what a late write needs: one that read the row, one that wrote since. The election needs three tabs for
a claim heard by both a leader and a follower; a second socket is what a stale
close event needs. Two channels of a user share only the loop of `Subscribe`, and
every race named above is between two requests; four tokens are one subscription and
the two resends the limit of one lets through with two requests, plus the one it
must not. Every race of the accounts and of publishing is between two requests, one
that read and one that wrote since; two links show a link replaced by another. A
user's acceptance that meets an administrator who works on the same user is in no
run (it took more states than a run can have) but in the theorem `AcceptancesAreWhole`.
Four sockets are two open ones of a user, one that closes and still counts, and the one
the object refuses. Two links on the page are the one followed and the leftovers of one
before, with a socket or without. The theorems
of section 5 hold without the bounds.

**Deadlock** is checked in every run except where the system may stop: runs whose
model has no recipient or operator who could always do something
(`delivery_callbacks`, `delivery_regression`, `delivery_retry`), the tabs, which may all be closed,
`accounts_admins`, where nobody with a permission may be left, and the status page,
which is done when polling has ended.

**Fairness.** A publisher and an invocation that were started go on, and the queue
hands out deliverable messages and dead-letters the others: weak fairness on
`PublisherStep`, `WorkerStep` and `DeadLetter`. Nothing is assumed of faults,
recipients, operators or providers. For tabs: an open tab handles its messages, and
a timer fires if it stays armed while nobody leads, since then nobody sends the
heartbeats that restart it. For the page: timers run, a poll is answered or fails, and
time passes; nothing is assumed of the user, the server or the socket.

## 4. Losses

Two runs are violated:

- `delivery_retry`: a statement that fails before sending makes the handler mark
  the row failed and re-throw "for retry" (`delivery-handler.ts:180`). The retry
  finds a row that is not queued, answers `already_claimed` and is acknowledged.
  The announcement is lost although a retry was asked for.
- `delivery_regression`: the order check of a callback and its update are two statements
  (`webhook.ts:271` and `291`, `twilio-status.ts:107` and `151`), and the update is by id
  alone. A Delivery callback that read "sent" writes "delivered" over the "failed" that a
  SpamComplaint stored in between, against "monotonic progression" (`webhook.ts:243`) and
  "don't regress" (`twilio-status.ts:104`). `OnlyLateWritesRegress` says, and
  `RegressionsAreLateWrites` proves, that this is the only way besides a worker that
  cannot record a suppression.

The following were violated runs of earlier versions of this project, each against
the line it quotes; the modules still show them, but their properties are no longer
checked, in favour of more components.

- After Twilio's 21610 the handler creates a suppression entry and ignores a failure
  as "Already in suppression" (`delivery-handler.ts:349`). An entry that START lifted
  exists with `removedAt` set, so the number stays unsuppressed.
- Two leaders whose heartbeats cross both yield (`TabCoordinator.ts:129`), although
  "the first claimer continues". The election recovers after a timeout
  (`LeaderReturns`). `docs/knowledge/websocket-guide.md:193` describes a lowest-id
  rule; the code compares no ids.
- `onclose` clears `wsRef` whichever socket it belongs to
  (`WebSocketProvider.tsx:190`). When the socket that `reconnect()` replaced closes
  late, the newer one is forgotten, and the unmount or a yield leaves it open.
- `AnnouncementDelivery` refers to the subscription with ON DELETE RESTRICT. Once a
  user was sent anything, the unsubscribe of the settings page
  (`routes/subscriptions.ts:335`) fails with 500, and after an opt-out by link or STOP
  subscribing again fails too, because it deletes the old row first (283).
  `unsubscribe.ts:91` declines instead, for this very reason.

Not a run, because it needs no model: `generateConfirmationToken` returns "the raw
token (to send to user)" (`subscription-service.ts:23`), all its callers drop
it and nothing sends a confirmation, so at this commit no user can confirm.

Losses the model shows and no document denies: a confirmation that had found the row
pending overwrites a STOP or an unsubscribe that came between; requests that count
resends together all pass the limit, and one cut off before its audit entry is never
counted; a subscription deleted while it is published to ends the publish halfway; a
crash after the claim leaves a row "sending"; a crash between a callback's event and its update makes the repetition a
duplicate (so `RecordedIsApplied` is claimed only without faults); a row whose event
insert fails after the send reads "failed"; a publisher cut off before sending
leaves queued rows that a second publish skips.

**Accounts.** A link is used up before the invitation, the user, the roles and the
acceptance are written one by one: a cut between them, or a role that an
administrator assigned meanwhile (P2002), leaves a user without roles or an invitation
pending, and nothing repairs it. An invitation for an address that became a user
otherwise stays pending. Two super_admins can deactivate each other. Deactivation
revokes sessions before it writes the status, and sign-in does not ask for the status
(`auth/handlers.ts:309`), so a session made meanwhile works after a reactivation.

**WebSocket server.** An alarm that finds no sockets is the last one until the object
is constructed again. A connection at the limit is refused if the socket that has to
make room is closing already. The log is lost with the memory, so a viewer that comes
after it has to poll. `pushDeliveryStatus`, `pushAdminNotification` and
`broadcastShutdown` have no callers; notifications would go to the object "admin-hub"
while users' sockets are in objects named after the user.
`docs/knowledge/websocket-guide.md` describes revalidation that closes with 4001,
automatic subscription, a log of 1000 events and a replay from `since`; the code
revalidates nothing, subscribes on request, keeps 100 events for five minutes and
replays from `lastMessageTs`.

**Publishing.** Unpublishing and archiving write without condition: a late unpublish
turns an archived announcement into a draft or takes back a newer publish. A late edit
changes the slug of a published announcement, and so does an unpublish followed by an
edit, although `prisma/schema.prisma:492` calls it frozen. An edit that fails between
its statements leaves links missing.

**Status page.** An open socket pauses the polls, and nothing in the repository pushes
a status: the page then shows "sending" for good, without the time limit. When the
socket closes while `intervalRef` still names a timer that ran out, `resume` starts
nothing (`usePollingFallback.ts:104`), although `useDeliveryStatus.ts:11` says "If
WebSocket fails, polling continues". After a resend, the late close event of the
earlier socket resumes polls for the earlier link, whose status is shown as the new
one's and whose final status stops the new link's timer; `wsStatus` is never reset.
The endpoint that is polled does not exist in the backend at this commit
(`api-client.ts:174`), so every poll fails and the page ends by the time limit.

## 5. Proofs

`AnnouncementDeliveryProofs` proves for any users, publishers, workers, handlers,
attempts and faults:

- `TypeCorrect`;
- `DeliveryInvariant`, the inductive invariant `DeliveryInv`. `AtMostOneSend` alone
  is not inductive: it needs that a row between claim and final status has one
  owner and reads "sending" (`OwnerInv`), that a row which never got that far has
  nothing accepted (`SendInv`), that a queued row has its message or its publisher
  (`QueueInv`), and that an owner's recipient is not barred once it was checked
  (`BarredInv`). Each part has a lemma with one step per action;
- `SentAtMostOnce`, `ClaimsAreExclusive`, `SuccessIsAlwaysReal`,
  `NoQueuedRowIsLost`, `MessagesFollowRows`, `OptOutsAreHonoured` from it;
- `PipelineImplementsContract`: under the mapping `Phase`, every step is a step or
  a stutter of `DeliveryContract`, so every accepted message is the first of its row,
  sent after the row was created and before it was given up. It rests on `SendInv`: a
  worker about to send has a row with nothing accepted.

`DeliveryCallbackProofs` carries `DeliveryInv` on to what happens to a row once its
message id is stored (`CallbackInv`: what a worker about to store or mark finds, one
final outcome per message, no event without a callback that was sent):

- `RegressionsAreLateWrites` (`OnlyLateWritesRegress`), without a hypothesis: a status goes back only from failed
  to delivered, by a callback that had read the row before, or from suppressed to
  failed, by a worker whose statement failed.
- `StatusIsMonotonic` excludes exactly these two: callbacks are handled one at a time or
  no spam complaint comes in (`NoSpamRace`), and faults spare the workers. The run
  `delivery_regression` shows what happens without the first. `ProgressInv` says of a handler
  between its read and its update that the row has not passed its callback.
- `RecordedSuppressionsStay`, for any number of handlers: a recorded event keeps its
  suppression entry and its open or click unless a callback handler failed.
- `RecordedAreApplied` (`RecordedIsApplied`), also without a hypothesis: `OutcomeInv` says
  of every recorded callback that the row has come at least as far as its `LeastStatus`,
  or a handler is about to write it. A spam complaint only leaves the row "delivered" at
  least, since a late write may take it back to that.

`DeliveryCallbacks` names a message by its target, which is right as long as a row
has one message. `SentAtMostOnce` does not depend on that: no step of a callback
makes a row claimable or accepts a message.

`TabProofs` proves for any number of tabs, sockets and retries: `TabTypeCorrect`,
`FollowersAlwaysWatch`, `ClientRunsElection` (the provider's steps are steps or
stutters of the election, so what holds of it alone holds of it in the provider),
`RivalsAlwaysHaveMail` (whoever becomes or asserts itself as a leader posts to all other
open tabs in the same step, and a leader that takes such a message out of its inbox
answers a claim, which posts again, or yields to a heartbeat),
and from the inductive invariant `ClientInv` the theorems `ClientTypeCorrect`,
`FollowersUseNoSocket` and `LeadersAreNeverStranded`. `ClientInv` adds to the
properties that leaders are open tabs; the lemmas `OneTab`, `ConnectStep` and
`DisconnectStep` reduce the actions to their effect on one tab.

`SubscriptionProofs` proves for any channels, requests, tokens and limit:
`SubscriptionTypeCorrect`, `OnlyConfirmedAreDelivered`, `StandingSubscriptionsStay`,
`OptOutsAreFinal` and `ResendsStayBounded`. Every handler acts on what it read, so the inductive `SubInv`
says of each request what was true of its row when it was read and cannot be taken
back: its name is used up (a new row never answers to it), `confirmedAt` and
`declinedAt` are never cleared, and a confirmation whose row was declined is in
`overtaken`. `OneRequest` proves once that a step which treats every row as `RowStep`
allows keeps this for the other requests; each action then has a lemma.
`ResendsBounded` counts, so `ResendInv` keeps three inequalities apart: the tokens of a
row are at most its audit entries and the requests about to write one; the entries and
the requests past the comparison exceed the limit by fewer than the requests there are;
and a request that renews belongs to one row only, by name. `QuietStep` proves once that
a step which moves no request in or out of these sets keeps them.

`AccountProofs` proves for any users, roles, links, sessions and requests that every
property of the account runs holds (`LinksSignInOnce`, `GuessesStayBounded`,
`AcceptancesAreWhole`, `RevokedInvitationsCreateNoUser`, `TheLastSuperAdminStays`,
`ActiveUsersKeepARole`, `DecisionsOnApplicantsStand`), and `SessionsAreTheAddressees`.
The inductive `AccountInv` says
of each request what the row it read still has; `Rely` is what a step of one request
leaves to the others, so each action is proved for its own request only.
`GuessesBounded` needs a count: the attempts of a link plus the requests about to add
one never exceed the limit by more than the slots. `AddressInv` adds to `AccountInv` that
what a request carries of its link stays true over the seven statements to
`createSession`, which looks nothing up: the address is the link's, and where the link
was a user's, or the acceptance has created one, the user still exists.

`WebSocketProofs` proves for any sockets, channels and limits: `ServerInv` joins the
types, what memory holds, the table against the attachments, the order of the log and
the freshness of subscribers; `CountInv` counts the connections with finite sets.

`PublishingProofs` proves `PublishedAreComplete` and `TheLifecycleHolds` for any
requests, categories and roles. The inductive `PubInv` says that a request which is
not stale still sees what it read, that such an edit ends with roles for a private
announcement, and that links are complete or being completed unless `torn`. Two
lemmas, `GoLeaves` and `WriteLeaves`, show once what a step leaves to the others.

`StatusPageProofs` proves `ThePageStillPolls` for any number of links. `StillPolling`
needs that only the link on the page has a connecting socket, so that no other
socket can pause the polls, and that its polls are not paused before it opens. Timers left
over from earlier links, which no reference names, may still poll and write the status;
the invariant allows any number of them.

The assumptions are those on the constants (named `...Assumption` in the module that
declares them), which TLC evaluates. Only model-checked, since TLAPS does not reach
them: `RowsSettle`, `LeaderReturns`, `PageSettles` and `PollingEnds` (liveness under
fairness). Every invariant and every action property of the passing runs is the
statement of a theorem, and so is the refinement `ImplementsContract`.

## 6. Not modelled, and plan

Not modelled: the scheduled cleanup, HubSpot and expressions of interest, request
middleware and rate limits, content administration, registry, user interface, scripts
and packages (section 1 says why); `processWebhookEvent` for magic-link mail, which
has no caller outside the tests; `MessageDeduplicator`, a bounded set.

1. Proofs: the safety half of the liveness properties, as measures that no step raises
   and every fair step lowers, which leaves only the temporal argument to TLC.
2. The audience of `DeliveryStore` taken from `Subscriptions`, and `Publishing`
   composed with `DeliveryEnqueue` once the publish endpoint calls it (today
   `enqueueDeliveries` has no caller).
3. `TabConnection` composed with `WebSocketServer`: replay after a reconnect.
