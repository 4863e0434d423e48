--------------------------- MODULE DeliveryEnqueue ---------------------------
(***************************************************************************)
(* enqueueDeliveries: calls of it for one announcement, each a process     *)
(* that reads the audience, drops the suppressed, creates one row per      *)
(* target and only then sends one queue message per row it created.        *)
(***************************************************************************)
EXTENDS DeliveryStore

CONSTANT Publisher  \* the calls of enqueueDeliveries

VARIABLES ppc,   \* ppc[p]: the next statement of call p
          todo,  \* todo[p]: targets p still has to create a row for
          jobs   \* jobs[p]: rows p created whose message it has not sent

publisherVars == <<ppc, todo, jobs>>

PublisherPC == {"start", "email", "sms", "create", "send", "done", "aborted"}

PublisherTypeOK ==
  /\ ppc \in [Publisher -> PublisherPC]
  /\ todo \in [Publisher -> SUBSET Target]
  /\ jobs \in [Publisher -> SUBSET Target]

PublisherInit ==
  /\ ppc = [p \in Publisher |-> "start"]
  /\ todo = [p \in Publisher |-> {}]
  /\ jobs = [p \in Publisher |-> {}]

GoPublisher(p, next) == ppc' = [ppc EXCEPT ![p] = next]

\* Confirmed subscriptions of active users, one per (user, channel).
ReadAudience(p) ==
  /\ ppc[p] = "start"
  /\ todo' = [todo EXCEPT ![p] = {t \in audience : UserOf(t) \in active}]
  /\ GoPublisher(p, "email")
  /\ UNCHANGED <<jobs, storeVars>>

\* The e-mail list is read first, the SMS list after it.
DropSuppressed(p) ==
  /\ ppc[p] \in {"email", "sms"}
  /\ todo' = [todo EXCEPT ![p] =
                {t \in @ : ~(ChannelOf(t) = ppc[p] /\ Suppressed(t))}]
  /\ GoPublisher(p, IF ppc[p] = "email" THEN "sms" ELSE "create")
  /\ UNCHANGED <<jobs, storeVars>>

\* mutant: any error of the create is swallowed and the job is pushed anyway
CreateRowSwallowing(p, t) ==
  /\ ppc[p] = "create" /\ t \in todo[p]
  /\ todo' = [todo EXCEPT ![p] = @ \ {t}]
  /\ (row[t] = "none" /\ SetRow(t, "queued")) \/ UNCHANGED row
  /\ jobs' = [jobs EXCEPT ![p] = @ \cup {t}]
  /\ UNCHANGED <<ppc, ext, supp, active, audience, job, attempts, accepted,
                 barred, faults>>

\* The unique key refuses a second row (P2002) and the call goes on without it.
CreateRow(p, t) ==
  /\ ppc[p] = "create" /\ t \in todo[p]
  /\ todo' = [todo EXCEPT ![p] = @ \ {t}]
  /\ \/ /\ row[t] = "none"
        /\ SetRow(t, "queued")
        /\ jobs' = [jobs EXCEPT ![p] = @ \cup {t}]
     \/ /\ row[t] # "none"
        /\ UNCHANGED <<row, jobs>>
  /\ UNCHANGED <<ppc, ext, supp, active, audience, job, attempts, accepted,
                 barred, faults>>

StartSending(p) ==
  /\ ppc[p] = "create" /\ todo[p] = {}
  /\ GoPublisher(p, "send")
  /\ UNCHANGED <<todo, jobs, storeVars>>

\* queue.send of one job; the jobs of a batch go out in any order.
SendJob(p, t) ==
  /\ ppc[p] = "send" /\ t \in jobs[p]
  /\ jobs' = [jobs EXCEPT ![p] = @ \ {t}]
  /\ job' = [job EXCEPT ![t] = "queued"]
  /\ UNCHANGED <<ppc, todo, row, ext, supp, active, audience, attempts,
                 accepted, barred, faults>>

Return(p) ==
  /\ ppc[p] = "send" /\ jobs[p] = {}
  /\ GoPublisher(p, "done")
  /\ UNCHANGED <<todo, jobs, storeVars>>

\* A statement or queue.send throws, or the isolate dies.  jobs[p] then holds
\* the rows that have no message and, since a later call meets P2002 on them,
\* never get one.  The sends of the batch are started together
\* (delivery-service.ts:183), so some may still be accepted after one was
\* refused: those are SendJob steps taken before this one, which is the same
\* to everyone else since the call does nothing more after either.
AbortCall(p) ==
  /\ ppc[p] \in {"create", "send"}
  /\ Fault("publisher")
  /\ GoPublisher(p, "aborted")
  /\ UNCHANGED <<todo, jobs, row, ext, supp, active, audience, job, attempts,
                 accepted, barred>>

PublisherStep(p) ==
  \/ ReadAudience(p) \/ DropSuppressed(p) \/ StartSending(p) \/ Return(p)
  \/ \E t \in Target : CreateRow(p, t) \/ SendJob(p, t)

Publishing == \E p \in Publisher : PublisherStep(p) \/ AbortCall(p)
=============================================================================
