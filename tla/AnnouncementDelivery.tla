------------------------- MODULE AnnouncementDelivery -------------------------
(***************************************************************************)
(* The delivery pipeline: publishers, queue consumers and callback         *)
(* handlers over one store, with recipients who opt out and come back.     *)
(***************************************************************************)
EXTENDS DeliveryEnqueue, DeliveryWorker, DeliveryCallbacks

vars == <<storeVars, publisherVars, workerVars, callbackVars>>

Init == StoreInit /\ PublisherInit /\ WorkerInit /\ CallbackInit

Next ==
  \/ Publishing  /\ UNCHANGED <<workerVars, callbackVars>>
  \/ Consuming   /\ UNCHANGED <<publisherVars, callbackVars>>
  \/ CallingBack /\ UNCHANGED <<publisherVars, workerVars>>
  \/ Recipients  /\ UNCHANGED <<publisherVars, workerVars, callbackVars>>

\* Calls and invocations that were started go on; the queue hands out what is
\* deliverable and dead-letters what is not.  Faults, recipients, operators and
\* providers owe nothing.
Fairness ==
  /\ \A p \in Publisher : WF_vars(PublisherStep(p)
                                  /\ UNCHANGED <<workerVars, callbackVars>>)
  /\ \A w \in Worker : WF_vars(WorkerStep(w)
                               /\ UNCHANGED <<publisherVars, callbackVars>>)
  /\ \A t \in Target : WF_vars(DeadLetter(t)
                               /\ UNCHANGED <<publisherVars, callbackVars>>)

Spec == Init /\ [][Next]_vars

FairSpec == Spec /\ Fairness

-----------------------------------------------------------------------------
(* Safety.                                                                 *)

\* Every variable holds values the schema, the queue and the handlers know.
TypeOK == StoreTypeOK /\ PublisherTypeOK /\ WorkerTypeOK /\ CallbackTypeOK

\* Whatever is redelivered, retried, re-published or re-driven, and wherever an
\* invocation dies, a provider takes at most one message for a row: the claim
\* in delivery-handler.ts is there "to prevent double-sends".
AtMostOneSend == \A t \in Target : accepted[t] <= 1

\* w works on t between the claim and the row's final status.
Owns(w, t) == wjob[w] = t /\ wpc[w] \in PreSendPC \cup PostSendPC

\* No two invocations are ever between claim and final status of one row, so
\* their unconditional updates by id never cross.
ClaimIsExclusive ==
  \A t \in Target, v, w \in Worker : Owns(v, t) /\ Owns(w, t) => v = w

\* A row reads sent or delivered only when a provider has the message.
SuccessIsReal ==
  \A t \in Target : row[t] \in {"sent", "delivered"} => accepted[t] = 1

\* A recipient who was suppressed, or whose account was deactivated, when the
\* row was claimed and has been ever since is sent nothing: an opt-out between
\* publishing and sending counts.
OptOutIsHonoured ==
  \A w \in Worker : wpc[w] = "store" =>
    \A c \in Cause : <<wjob[w], c>> \notin barred

\* A row is left queued with nobody to handle it only by a publisher that was
\* cut off before sending the row's message: the queue never drops a queued
\* row, an acknowledged message never leaves one behind, and the P2002 branch
\* loses none.
NothingForgotten ==
  \A t \in Target : row[t] = "queued" =>
    \/ job[t] \in {"queued", "dead"}
    \/ \E p \in Publisher : t \in jobs[p]

\* A message never runs ahead of its row, so a worker never drops a job as
\* delivery_not_found.
JobHasRow == \A t \in Target : job[t] # "none" => row[t] # "none"

-----------------------------------------------------------------------------
(* Callbacks.                                                              *)

\* A worker of a deployment in which faults hit workers, after the first fault.
Troubled == faults > 0 /\ "worker" \in FaultSites

\* A handler writes "delivered" over a failure stored since it read the row, or
\* a worker that cannot record why it suppressed a row marks it failed.
LateWrite(t) ==
  \/ t \in ext /\ row[t] = "failed" /\ row'[t] = "delivered"
  \/ Troubled /\ row[t] = "suppressed" /\ row'[t] = "failed"

\* However callbacks are ordered, repeated and interleaved, a row's status goes
\* back, in the order both handlers compare by, in these two ways only: never
\* to queued, sending or sent, and never from delivered.
OnlyLateWritesRegress ==
  [][\A t \in Target :
       StatusOrder(row'[t]) >= StatusOrder(row[t]) \/ LateWrite(t)]_vars

\* h is between a callback's event and the end of what the callback causes.
InProgress(t, k) ==
  \E h \in Handler : /\ hpc[h] \in {"apply", "suppress"}
                     /\ hmsg[h] = t /\ EventKey(hkind[h]) = EventKey(k)

\* The status a callback leaves at least.  The delivery a spam complaint is
\* about may be handled with it and be written last.
LeastStatus(k) == IF k = "SpamComplaint" THEN "delivered" ELSE StatusOf(k)

\* A callback whose event is recorded has left its mark, whatever else was
\* handled with it: the row is at least where the callback put it and the
\* address is on the suppression list (its entry may since have been lifted).
\* A handler that fails after the event loses the rest: the repeated callback
\* is taken for a duplicate.
RecordedIsApplied ==
  \A t \in Target, k \in Kind :
    /\ faults = 0
    /\ <<t, k>> \in emitted /\ <<t, EventKey(k)>> \in events
    /\ ~InProgress(t, k)
    => /\ k \notin {"Open", "Click"} =>
             StatusOrder(row[t]) >= StatusOrder(LeastStatus(k))
       /\ k \in {"Open", "Click"} => <<t, k>> \in engaged
       /\ k \in Suppressing => supp[t] # "absent"

-----------------------------------------------------------------------------
(* Liveness.                                                               *)

\* What a fault may leave of t's delivery: the publisher was cut off before it
\* sent the message, the message is a dead letter, or an invocation died with
\* the row claimed and no other can claim it.
Unsent(t) == \E p \in Publisher : ppc[p] = "aborted" /\ t \in jobs[p]
Abandoned(t) == /\ faults > 0 /\ "worker" \in FaultSites
                /\ row[t] = "sending" /\ \A w \in Worker : ~Owns(w, t)

\* Every queued row reaches a status that is not queued or sending, whatever
\* the recipient does meanwhile, unless a fault leaves it where an operator can
\* find it.
RowsSettle ==
  \A t \in Target :
    row[t] = "queued" ~>
      \/ row[t] \notin {"none", "queued", "sending"}
      \/ Unsent(t) \/ job[t] = "dead" \/ Abandoned(t)

-----------------------------------------------------------------------------
(* What the code says of itself and does not do.                           *)

\* delivery-handler.ts re-throws a processing error "for retry": a job whose
\* retry was asked for before a provider took the message is claimed again, or
\* ends as a dead letter an operator sees.
RetryTriesAgain ==
  \A t \in Target :
    (\E w \in Worker : /\ wpc[w] = "retry" /\ wjob[w] = t
                       /\ row[t] = "failed" /\ accepted[t] = 0)
      ~> (job[t] = "dead" \/ \E w \in Worker : Owns(w, t))

\* webhook.ts updates the status "with monotonic progression" and
\* twilio-status.ts must not let it regress: it never goes back in the order
\* both compare by.
StatusNeverRegresses ==
  [][\A t \in Target : StatusOrder(row'[t]) >= StatusOrder(row[t])]_vars
-----------------------------------------------------------------------------
(* What the pipeline promises, apart from how it keeps it.                 *)

Phase(t) == IF accepted[t] > 0 THEN "transmitted"
            ELSE IF row[t] = "none" THEN "none"
            ELSE IF row[t] \in {"failed", "suppressed"} THEN "dropped"
            ELSE "pending"

Contract == INSTANCE DeliveryContract
              WITH phase <- [t \in Target |-> Phase(t)], sent <- accepted

\* The pipeline implements the contract: every message a provider takes is the
\* first of its row, comes after the row and never after it was given up.  What
\* follows it, callbacks and failing updates included, changes nothing of that.
ImplementsContract == Contract!Spec
=============================================================================
