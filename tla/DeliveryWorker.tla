---------------------------- MODULE DeliveryWorker ----------------------------
(***************************************************************************)
(* The queue consumer: Cloudflare Queues hands a message to an invocation  *)
(* at least once and up to MaxAttempts times; each invocation runs         *)
(* processDeliveryJob one statement or provider request at a time, and     *)
(* acknowledges the message or asks for a retry.                           *)
(***************************************************************************)
EXTENDS DeliveryStore

CONSTANT Worker  \* invocations that can run at the same time

VARIABLES wpc,   \* wpc[w]: the next statement of invocation w
          wjob,  \* wjob[w]: the target whose message w handles
          why    \* why[w]: the reason w is marking the row with

workerVars == <<wpc, wjob, why>>

SkipReason == {"user_deactivated", "email_suppressed", "sms_suppressed"}
FailReason == {"postmark_error", "twilio_error", "twilio_unsubscribed",
               "no_sender", "processing_error"}

\* Statements before the claim and after the job is settled.
OutsidePC == {"idle", "fetch", "claim", "unsub", "ack", "retry"}
\* The row is claimed and the provider has not been asked.
PreSendPC == {"begin", "load", "check", "send"}
\* The row is claimed and its final status is being written.
PostSendPC == {"store", "log", "mark", "note"}

WorkerTypeOK ==
  /\ wpc \in [Worker -> OutsidePC \cup PreSendPC \cup PostSendPC]
  /\ wjob \in [Worker -> Target]
  /\ why \in [Worker -> SkipReason \cup FailReason \cup {"none"}]

WorkerInit ==
  /\ wpc = [w \in Worker |-> "idle"]
  /\ wjob = [w \in Worker |-> CHOOSE t \in Target : TRUE]
  /\ why = [w \in Worker |-> "none"]

\* w goes on at `next`; the reason it may mark the row with becomes `reason`.
GoWorker(w, next, reason) ==
  /\ wpc' = [wpc EXCEPT ![w] = next]
  /\ why' = [why EXCEPT ![w] = reason]
  /\ UNCHANGED wjob

-----------------------------------------------------------------------------
(* The queue.                                                              *)

\* mutant: the queue delivers a message without limit
ReceiveUnlimited(w, t) ==
  /\ wpc[w] = "idle" /\ job[t] = "queued"
  /\ attempts' = [attempts EXCEPT ![t] = @ + 1]
  /\ wpc' = [wpc EXCEPT ![w] = "fetch"]
  /\ wjob' = [wjob EXCEPT ![w] = t]
  /\ UNCHANGED <<why, row, ext, supp, active, audience, job, accepted, barred,
                 faults>>

\* The queue delivers t's message; also while another invocation has it, once
\* its visibility timeout is over.
Receive(w, t) ==
  /\ wpc[w] = "idle"
  /\ job[t] = "queued" /\ attempts[t] < MaxAttempts
  /\ attempts' = [attempts EXCEPT ![t] = @ + 1]
  /\ wpc' = [wpc EXCEPT ![w] = "fetch"]
  /\ wjob' = [wjob EXCEPT ![w] = t]
  /\ UNCHANGED <<why, row, ext, supp, active, audience, job, accepted, barred,
                 faults>>

\* message.ack()
Ack(w) ==
  /\ wpc[w] = "ack"
  /\ job' = IF job[wjob[w]] = "queued"
            THEN [job EXCEPT ![wjob[w]] = "acked"] ELSE job
  /\ GoWorker(w, "idle", "none")
  /\ UNCHANGED <<row, ext, supp, active, audience, attempts, accepted, barred,
                 faults>>

\* mutant: an error is logged and the message acknowledged
RetryAcks(w) ==
  /\ wpc[w] = "retry"
  /\ job' = [job EXCEPT ![wjob[w]] = "acked"]
  /\ GoWorker(w, "idle", "none")
  /\ UNCHANGED <<row, ext, supp, active, audience, attempts, accepted, barred,
                 faults>>

\* message.retry(): the message stays and becomes deliverable again.
Retry(w) ==
  /\ wpc[w] = "retry"
  /\ GoWorker(w, "idle", "none")
  /\ UNCHANGED storeVars

\* All attempts used and none running: the queue dead-letters the message.
DeadLetter(t) ==
  /\ job[t] = "queued" /\ attempts[t] = MaxAttempts
  /\ \A w \in Worker : wpc[w] = "idle" \/ wjob[w] # t
  /\ job' = [job EXCEPT ![t] = "dead"]
  /\ UNCHANGED <<workerVars, row, ext, supp, active, audience, attempts,
                 accepted, barred, faults>>

\* An operator re-enqueues a dead letter for reprocessing.
Redrive(t) ==
  /\ job[t] = "dead"
  /\ job' = [job EXCEPT ![t] = "queued"]
  /\ attempts' = [attempts EXCEPT ![t] = 0]
  /\ UNCHANGED <<workerVars, row, ext, supp, active, audience, accepted,
                 barred, faults>>

-----------------------------------------------------------------------------
(* processDeliveryJob.                                                     *)

Fetch(w) ==
  LET t == wjob[w] IN
  /\ wpc[w] = "fetch"
  /\ IF row[t] \in {"none", "sent", "delivered", "suppressed"} \/ t \in ext
     THEN GoWorker(w, "ack", "none")
     ELSE GoWorker(w, "claim", "none")
  /\ UNCHANGED storeVars

\* History: the causes that block t while w claims it.
Blocked(t) ==
  (IF Suppressed(t) THEN {<<t, "suppression">>} ELSE {})
    \cup (IF UserOf(t) \in active THEN {} ELSE {<<t, "account">>})

\* mutant: a failed row may be claimed again, as a retry would want
ClaimFailedToo(w) ==
  LET t == wjob[w] IN
  /\ wpc[w] = "claim"
  /\ \/ /\ row[t] \in {"queued", "failed"}
        /\ SetRow(t, "sending")
        /\ barred' = barred \cup Blocked(t)
        /\ GoWorker(w, "begin", "none")
     \/ /\ row[t] \notin {"queued", "failed"}
        /\ UNCHANGED <<row, barred>>
        /\ GoWorker(w, "ack", "none")
  /\ UNCHANGED <<ext, supp, active, audience, job, attempts, accepted, faults>>

\* mutant: the claim is a plain update without the status condition
ClaimUnconditionally(w) ==
  LET t == wjob[w] IN
  /\ wpc[w] = "claim"
  /\ SetRow(t, "sending")
  /\ barred' = barred \cup Blocked(t)
  /\ GoWorker(w, "begin", "none")
  /\ UNCHANGED <<ext, supp, active, audience, job, attempts, accepted, faults>>

\* The atomic claim: updateMany where status is still queued.
Claim(w) ==
  LET t == wjob[w] IN
  /\ wpc[w] = "claim"
  /\ \/ /\ row[t] = "queued"
        /\ SetRow(t, "sending")
        /\ barred' = barred \cup Blocked(t)
        /\ GoWorker(w, "begin", "none")
     \/ /\ row[t] # "queued"
        /\ UNCHANGED <<row, barred>>
        /\ GoWorker(w, "ack", "none")
  /\ UNCHANGED <<ext, supp, active, audience, job, attempts, accepted, faults>>

RecordSending(w) ==
  /\ wpc[w] = "begin"
  /\ GoWorker(w, "load", "none")
  /\ UNCHANGED storeVars

\* mutant: a deactivated user ends the job without markSuppressed
LoadRecipientReturning(w) ==
  /\ wpc[w] = "load"
  /\ GoWorker(w, IF UserOf(wjob[w]) \in active THEN "check" ELSE "ack", "none")
  /\ UNCHANGED storeVars

\* Announcement and user are read; no code deletes either once the row exists.
LoadRecipient(w) ==
  /\ wpc[w] = "load"
  /\ IF UserOf(wjob[w]) \in active
     THEN GoWorker(w, "check", "none")
     ELSE GoWorker(w, "mark", "user_deactivated")
  /\ UNCHANGED storeVars

\* mutant: only the e-mail list is consulted before sending
CheckEmailOnly(w) ==
  LET t == wjob[w] IN
  /\ wpc[w] = "check"
  /\ IF Suppressed(t) /\ ChannelOf(t) = "email"
     THEN GoWorker(w, "mark", "email_suppressed")
     ELSE GoWorker(w, "send", "none")
  /\ UNCHANGED storeVars

CheckSuppression(w) ==
  LET t == wjob[w] IN
  /\ wpc[w] = "check"
  /\ IF Suppressed(t)
     THEN GoWorker(w, "mark", IF ChannelOf(t) = "email" THEN "email_suppressed"
                                                     ELSE "sms_suppressed")
     ELSE GoWorker(w, "send", "none")
  /\ UNCHANGED storeVars

\* What the provider, or the sender routing before it, refuses a message with.
Refusals(t) ==
  IF ChannelOf(t) = "email" THEN {"postmark_error"}
  ELSE {"no_sender", "twilio_error", "twilio_unsubscribed"}

\* mutant: the provider's answer is not checked
TransmitUnchecked(w) ==
  LET t == wjob[w] IN
  /\ wpc[w] = "send"
  /\ \/ accepted' = [accepted EXCEPT ![t] = @ + 1]
     \/ UNCHANGED accepted
  /\ GoWorker(w, "store", "none")
  /\ UNCHANGED <<row, ext, supp, active, audience, job, attempts, barred, faults>>

\* mutant: a request that is slow to be answered is made again
TransmitRepeated(w) ==
  LET t == wjob[w] IN
  /\ wpc[w] = "send"
  /\ accepted' = [accepted EXCEPT ![t] = @ + 1]
  /\ GoWorker(w, "store", "none") \/ UNCHANGED workerVars
  /\ UNCHANGED <<row, ext, supp, active, audience, job, attempts, barred, faults>>

\* The provider takes the message and answers, or refuses it.
Transmit(w) ==
  LET t == wjob[w] IN
  /\ wpc[w] = "send"
  /\ \/ /\ accepted' = [accepted EXCEPT ![t] = @ + 1]
        /\ GoWorker(w, "store", "none")
     \/ /\ UNCHANGED accepted
        /\ \E reason \in Refusals(t) : GoWorker(w, "mark", reason)
  /\ UNCHANGED <<row, ext, supp, active, audience, job, attempts, barred, faults>>

\* status sent and externalMessageId in one update
StoreSent(w) ==
  LET t == wjob[w] IN
  /\ wpc[w] = "store"
  /\ SetRow(t, "sent")
  /\ ext' = ext \cup {t}
  /\ GoWorker(w, "log", "none")
  /\ UNCHANGED <<supp, active, audience, job, attempts, accepted, barred, faults>>

RecordSent(w) ==
  /\ wpc[w] = "log"
  /\ GoWorker(w, "ack", "none")
  /\ UNCHANGED storeVars

\* markFailed and markSuppressed: the status update ...
MarkStatus(w) ==
  /\ wpc[w] = "mark"
  /\ SetRow(wjob[w], IF why[w] \in SkipReason THEN "suppressed" ELSE "failed")
  /\ GoWorker(w, "note", why[w])
  /\ UNCHANGED <<ext, supp, active, audience, job, attempts, accepted, barred,
                 faults>>

\* ... and the event, after which the caller goes on.
RecordMark(w) ==
  /\ wpc[w] = "note"
  /\ GoWorker(w, CASE why[w] = "processing_error"    -> "retry"
                   [] why[w] = "twilio_unsubscribed" -> "unsub"
                   [] OTHER                          -> "ack", "none")
  /\ UNCHANGED storeVars

\* Error 21610: add the number to the list; a failure is ignored.
SuppressNumber(w) ==
  /\ wpc[w] = "unsub"
  /\ \/ AddSuppression(wjob[w]) /\ UNCHANGED faults
     \/ UNCHANGED supp /\ Fault("worker")
  /\ GoWorker(w, "ack", "none")
  /\ UNCHANGED <<row, ext, active, audience, job, attempts, accepted, barred>>

-----------------------------------------------------------------------------
(* Faults.                                                                 *)

\* A statement outside the try block, or in its catch, throws: the consumer
\* asks for a retry.
ThrowToConsumer(w) ==
  /\ \/ wpc[w] \in {"fetch", "claim", "begin"}
     \/ wpc[w] \in {"mark", "note"} /\ why[w] = "processing_error"
  /\ GoWorker(w, "retry", "none")
  /\ Fault("worker")
  /\ UNCHANGED <<row, ext, supp, active, audience, job, attempts, accepted, barred>>

\* A statement inside the try block throws: the row is marked
\* processing_error, then the error is thrown on for retry.
ThrowInTry(w) ==
  /\ \/ wpc[w] \in {"load", "check", "send", "store", "log"}
     \/ wpc[w] \in {"mark", "note"} /\ why[w] # "processing_error"
  /\ GoWorker(w, "mark", "processing_error")
  /\ Fault("worker")
  /\ UNCHANGED <<row, ext, supp, active, audience, job, attempts, accepted, barred>>

\* The provider takes the message but fetch rejects or its answer is lost.
LoseResponse(w) ==
  /\ wpc[w] = "send"
  /\ accepted' = [accepted EXCEPT ![wjob[w]] = @ + 1]
  /\ GoWorker(w, "mark", "processing_error")
  /\ Fault("worker")
  /\ UNCHANGED <<row, ext, supp, active, audience, job, attempts, barred>>

\* The isolate dies; the message was not acknowledged.
CrashWorker(w) ==
  /\ wpc[w] # "idle"
  /\ GoWorker(w, "idle", "none")
  /\ Fault("worker")
  /\ UNCHANGED <<row, ext, supp, active, audience, job, attempts, accepted, barred>>

-----------------------------------------------------------------------------
WorkerStep(w) ==
  \/ \E t \in Target : Receive(w, t)
  \/ Fetch(w) \/ Claim(w) \/ RecordSending(w) \/ LoadRecipient(w)
  \/ CheckSuppression(w) \/ Transmit(w) \/ StoreSent(w) \/ RecordSent(w)
  \/ MarkStatus(w) \/ RecordMark(w) \/ SuppressNumber(w) \/ Ack(w) \/ Retry(w)

WorkerFault(w) ==
  ThrowToConsumer(w) \/ ThrowInTry(w) \/ LoseResponse(w) \/ CrashWorker(w)

Consuming ==
  \/ \E w \in Worker : WorkerStep(w) \/ WorkerFault(w)
  \/ \E t \in Target : DeadLetter(t) \/ Redrive(t)
=============================================================================
