---------------------------- MODULE DeliveryStore ----------------------------
(***************************************************************************)
(* The state the delivery pipeline of one published announcement shares:   *)
(* the AnnouncementDelivery rows, the suppression lists and the recipients *)
(* in D1, the queue between the backend and the workers Worker, and what   *)
(* Postmark and Twilio have accepted.  One D1 statement is one atomic step *)
(* and the code uses no transaction, so every action of the modules that   *)
(* extend this one performs at most one statement.                         *)
(*                                                                         *)
(* A recipient and a channel make a Target: the schema's unique key        *)
(* (announcementId, userId, channel) leaves one row per Target.            *)
(***************************************************************************)
EXTENDS Naturals, FiniteSets

CONSTANTS User,        \* recipients
          Channel,     \* the channels in use
          MaxAttempts, \* deliveries of one message before it is dead-lettered
          MaxFaults,   \* bound: crashes, failed statements and lost responses
          FaultSites,  \* which processes faults may hit
          Restless     \* recipients who opt out, come back, are deactivated

ASSUME DeliveryAssumption ==
  /\ User # {} /\ Channel # {}
  /\ Channel \subseteq {"email", "sms"}
  /\ MaxAttempts \in Nat \ {0}
  /\ MaxFaults \in Nat
  /\ Restless \subseteq User
  /\ FaultSites \subseteq {"publisher", "worker", "callback"}

Target == User \X Channel
UserOf(t) == t[1]
ChannelOf(t) == t[2]

VARIABLES row,       \* row[t]: status column, "none" before the row exists
          ext,       \* targets whose row has an externalMessageId
          supp,      \* supp[t]: the suppression entry of t's address
          active,    \* users whose status is active
          audience,  \* targets with a confirmed subscription and a fitting role
          job,       \* job[t]: the queue message for t's row
          attempts,  \* attempts[t]: how often that message was delivered
          accepted,  \* accepted[t]: messages the provider took for t
          barred,    \* history: targets blocked since their row was claimed
          faults     \* faults so far

storeVars == <<row, ext, supp, active, audience, job, attempts, accepted,
               barred, faults>>

RowStatus == {"none", "queued", "sending", "sent", "delivered", "failed",
              "suppressed"}
JobState == {"none", "queued", "acked", "dead"}
SuppState == {"absent", "active", "removed"}
Cause == {"account", "suppression"}

StoreTypeOK ==
  /\ row \in [Target -> RowStatus]
  /\ ext \in SUBSET Target
  /\ supp \in [Target -> SuppState]
  /\ active \in SUBSET User
  /\ audience \in SUBSET Target
  /\ job \in [Target -> JobState]
  /\ attempts \in [Target -> 0 .. MaxAttempts]
  /\ accepted \in [Target -> Nat]
  /\ barred \in SUBSET (Target \X Cause)
  /\ faults \in 0 .. MaxFaults

\* Recipients that may be in any legal condition when the announcement is
\* published; nothing is delivered yet.
StoreInit ==
  /\ row = [t \in Target |-> "none"]
  /\ ext = {}
  /\ supp \in [Target -> {"absent", "active"}]
  /\ active = User
  /\ audience = Target
  /\ job = [t \in Target |-> "none"]
  /\ attempts = [t \in Target |-> 0]
  /\ accepted = [t \in Target |-> 0]
  /\ barred = {}
  /\ faults = 0

\* The numeric order both callback handlers compare statuses by.
StatusOrder(s) ==
  CASE s = "none"       -> 0
    [] s = "queued"     -> 0
    [] s = "sending"    -> 1
    [] s = "sent"       -> 2
    [] s = "delivered"  -> 3
    [] s = "failed"     -> 4
    [] s = "suppressed" -> 5

\* A suppression applies while its removedAt is null.
Suppressed(t) == supp[t] = "active"

\* What smsSuppression.create (its P2002 ignored) and emailSuppression.upsert
\* with an empty update leave: a removed entry stays removed.
AddSuppression(t) ==
  supp' = IF supp[t] = "absent" THEN [supp EXCEPT ![t] = "active"] ELSE supp

SetRow(t, s) == row' = [row EXCEPT ![t] = s]

\* One fault hits a process of the given site.
Fault(site) ==
  /\ site \in FaultSites
  /\ faults < MaxFaults
  /\ faults' = faults + 1

-----------------------------------------------------------------------------
(* What other parts of the system do to the recipients meanwhile.          *)

\* An administrator deactivates or reactivates an account.
DeactivateUser(u) ==
  /\ u \in active
  /\ active' = active \ {u}
  /\ UNCHANGED <<row, ext, supp, audience, job, attempts, accepted, barred, faults>>

ReactivateUser(u) ==
  /\ u \in User \ active
  /\ active' = active \cup {u}
  /\ barred' = {b \in barred : ~(UserOf(b[1]) = u /\ b[2] = "account")}
  /\ UNCHANGED <<row, ext, supp, audience, job, attempts, accepted, faults>>

\* A subscription stops being confirmed: unsubscribe, decline, STOP or delete.
LeaveAudience(t) ==
  /\ t \in audience
  /\ audience' = audience \ {t}
  /\ UNCHANGED <<row, ext, supp, active, job, attempts, accepted, barred, faults>>

\* Inbound STOP: create the entry or, on P2002, set its removedAt to null.
InboundStop(t) ==
  /\ ChannelOf(t) = "sms" /\ ~Suppressed(t)
  /\ supp' = [supp EXCEPT ![t] = "active"]
  /\ UNCHANGED <<row, ext, active, audience, job, attempts, accepted, barred, faults>>

\* Inbound START: set removedAt.
InboundStart(t) ==
  /\ ChannelOf(t) = "sms" /\ supp[t] # "absent"
  /\ supp' = [supp EXCEPT ![t] = "removed"]
  /\ barred' = barred \ {<<t, "suppression">>}
  /\ UNCHANGED <<row, ext, active, audience, job, attempts, accepted, faults>>

\* A sign-in mail to the same address bounced hard or was reported as spam.
BounceElsewhere(t) ==
  /\ ChannelOf(t) = "email"
  /\ AddSuppression(t)
  /\ UNCHANGED <<row, ext, active, audience, job, attempts, accepted, barred, faults>>

Recipients ==
  \/ \E u \in Restless : DeactivateUser(u) \/ ReactivateUser(u)
  \/ \E t \in Restless \X Channel :
       LeaveAudience(t) \/ InboundStop(t) \/ InboundStart(t)
  \/ \E t \in Target : BounceElsewhere(t)
=============================================================================
