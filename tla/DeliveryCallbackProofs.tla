------------------------- MODULE DeliveryCallbackProofs -------------------------
(***************************************************************************)
(* What the callback handlers keep of a row's status and of what a         *)
(* recorded callback stands for, for any number of recipients, workers,    *)
(* handlers and faults.  The rows, workers and messages are those of       *)
(* DeliveryInv; here its statement is carried on to what happens to a row  *)
(* once its message id is stored.                                          *)
(***************************************************************************)
EXTENDS AnnouncementDeliveryProofs

USE DEF vars, storeVars, publisherVars, workerVars, callbackVars

Engaging == {"Open", "Click"}

\* A row with a message id has one of the statuses a handler may find, a
\* suppressed row was never transmitted, and a worker that marks a row which is
\* no longer "sending" does so for a fault.
MessageInv ==
  /\ \A t \in ext : row[t] \in {"sent", "delivered", "failed"}
  /\ \A t \in Target : row[t] = "suppressed" => accepted[t] = 0
  /\ \A w \in Worker :
       /\ wpc[w] = "store" => row[wjob[w]] = "sending"
       /\ wpc[w] \in {"mark", "note"} /\ why[w] # "processing_error"
          => /\ accepted[wjob[w]] = 0
             /\ wpc[w] = "mark" => row[wjob[w]] = "sending"
       /\ why[w] = "processing_error" => faults > 0 /\ "worker" \in FaultSites

\* A provider reports one final outcome of a message, in the terms of its
\* channel.
Reports(c) == IF c = "email" THEN FinalEmail \cup LaterEmail
                             ELSE FinalSms \cup EarlySms
EmitInv ==
  /\ emitted \subseteq Target \X Kind
  /\ \A t \in Target :
       /\ \A j, k \in FinalEmail :
            <<t, j>> \in emitted /\ <<t, k>> \in emitted => j = k
       /\ \A j, k \in FinalSms :
            <<t, j>> \in emitted /\ <<t, k>> \in emitted => j = k
       /\ \A k \in AllKinds : <<t, k>> \in emitted => k \in Reports(ChannelOf(t))

\* A handler works on a callback that was sent and was progress, and touches the
\* suppression list only for what belongs there; an event was
\* recorded for a callback that was sent about a row with a message id.
EventInv ==
  /\ \A h \in Handler : hpc[h] # "idle" =>
       /\ <<hmsg[h], hkind[h]>> \in emitted /\ hkind[h] \notin EarlySms
       /\ hpc[h] = "suppress" => hkind[h] \in Suppressing
  /\ \A e \in events :
       e[1] \in ext /\ \E k \in AllKinds : <<e[1], k>> \in emitted /\ EventKey(k) = e[2]

CallbackInv == DeliveryInv /\ MessageInv /\ EmitInv /\ EventInv
-----------------------------------------------------------------------------
LEMMA InitCallbackInv == Init => CallbackInv
<1> SUFFICES ASSUME Init PROVE CallbackInv
  OBVIOUS
<1>1. DeliveryInv
  BY InitInv
<1>2. MessageInv
  BY DEF Init, StoreInit, WorkerInit, MessageInv
<1>3. EmitInv /\ EventInv
  BY DEF Init, CallbackInit, EmitInv, EventInv
<1> QED
  BY <1>1, <1>2, <1>3 DEF CallbackInv

\* The workers keep MessageInv: only StoreSent stores a message id.
LEMMA ConsumingKeepsMessages ==
  ASSUME DeliveryInv, MessageInv, Consuming
  PROVE  MessageInv'
<1> USE DEF MessageInv, DeliveryInv, TypeOK, StoreTypeOK, WorkerTypeOK, OutsidePC,
            PreSendPC, PostSendPC, GoWorker, SetRow
<1>1. ASSUME NEW w \in Worker, NEW t \in Target, Receive(w, t)
      PROVE  MessageInv'
  BY <1>1 DEF Receive
<1>2. ASSUME NEW w \in Worker,
             Fetch(w) \/ RecordSending(w) \/ RecordSent(w) \/ RecordMark(w)
               \/ SuppressNumber(w) \/ Ack(w) \/ Retry(w) \/ CrashWorker(w)
               \/ ThrowToConsumer(w)
      PROVE  MessageInv'
  <2>1. UNCHANGED <<row, ext, accepted, wjob>> /\ (faults > 0 => faults' > 0)
    BY <1>2 DEF Fetch, RecordSending, RecordSent, RecordMark, SuppressNumber, Ack,
                Retry, CrashWorker, ThrowToConsumer, Fault
  <2>2. PICK next \in {"ack", "claim", "load", "retry", "unsub", "idle"} :
          wpc' = [wpc EXCEPT ![w] = next] /\ why' = [why EXCEPT ![w] = "none"]
    BY <1>2 DEF Fetch, RecordSending, RecordSent, RecordMark, SuppressNumber, Ack,
                Retry, CrashWorker, ThrowToConsumer
  <2> QED
    BY <2>1, <2>2
<1>3. ASSUME NEW w \in Worker, Claim(w)
      PROVE  MessageInv'
  <2>1. CASE row[wjob[w]] = "queued"
    <3>1. /\ row' = [row EXCEPT ![wjob[w]] = "sending"]
          /\ wpc' = [wpc EXCEPT ![w] = "begin"] /\ why' = [why EXCEPT ![w] = "none"]
          /\ UNCHANGED <<wjob, ext, accepted, faults>>
      BY <1>3, <2>1 DEF Claim
    <3> QED
      BY <2>1, <3>1
  <2>2. CASE row[wjob[w]] # "queued"
    BY <1>3, <2>2 DEF Claim
  <2> QED
    BY <2>1, <2>2
<1>4. ASSUME NEW w \in Worker, LoadRecipient(w) \/ CheckSuppression(w)
      PROVE  MessageInv'
  <2>1. accepted[wjob[w]] = 0 /\ row[wjob[w]] = "sending"
    BY <1>4 DEF LoadRecipient, CheckSuppression, SendInv, OwnerInv
  <2>2. PICK next \in {"check", "send", "mark"},
             r \in {"none", "user_deactivated", "email_suppressed",
                    "sms_suppressed"} :
          /\ wpc' = [wpc EXCEPT ![w] = next] /\ why' = [why EXCEPT ![w] = r]
          /\ UNCHANGED <<row, ext, accepted, wjob, faults>>
    BY <1>4 DEF LoadRecipient, CheckSuppression
  <2> QED
    BY <2>1, <2>2
<1>5. ASSUME NEW w \in Worker, Transmit(w) \/ LoseResponse(w)
      PROVE  MessageInv'
  <2> DEFINE t == wjob[w]
  <2>1. wpc[w] = "send" /\ accepted[t] = 0 /\ row[t] = "sending"
    BY <1>5 DEF Transmit, LoseResponse, SendInv, OwnerInv
  <2>2. \A v \in Worker : v # w /\ wpc[v] \in PostSendPC => wjob[v] # t
    BY <2>1 DEF OwnerInv, ClaimIsExclusive, Owns
  <2>3. UNCHANGED <<row, ext, wjob>>
    BY <1>5 DEF Transmit, LoseResponse
  <2>4. CASE LoseResponse(w)
    <3>1. faults' > 0 /\ "worker" \in FaultSites
      BY <2>4 DEF LoseResponse, Fault
    <3> QED
      BY <2>1, <2>2, <2>3, <2>4, <3>1 DEF LoseResponse
  <2>5. CASE Transmit(w)
    <3>1. CASE /\ accepted' = [accepted EXCEPT ![t] = @ + 1]
               /\ GoWorker(w, "store", "none")
      BY <2>1, <2>2, <2>3, <2>5, <3>1 DEF Transmit
    <3>2. ASSUME accepted' = accepted, NEW r \in Refusals(t), GoWorker(w, "mark", r)
          PROVE  MessageInv'
      <4>1. r # "processing_error"
        BY <3>2 DEF Refusals
      <4> QED
        BY <2>1, <2>2, <2>3, <2>5, <3>2, <4>1 DEF Transmit
    <3> QED
      BY <2>5, <3>1, <3>2 DEF Transmit
  <2> QED
    BY <1>5, <2>4, <2>5
<1>6. ASSUME NEW w \in Worker, StoreSent(w) \/ MarkStatus(w)
      PROVE  MessageInv'
  <2> DEFINE t == wjob[w]
  <2>1. Owns(w, t)
    BY <1>6 DEF StoreSent, MarkStatus, Owns
  <2>2. \A v \in Worker : v # w => ~Owns(v, t)
    BY <2>1 DEF OwnerInv, ClaimIsExclusive
  <2>3. CASE StoreSent(w)
    BY <2>2, <2>3 DEF StoreSent, SendInv, Owns
  <2>4. CASE MarkStatus(w)
    <3>1. PICK s \in {"failed", "suppressed"} : row' = [row EXCEPT ![t] = s]
      BY <2>4 DEF MarkStatus
    <3>2. row'[t] = "suppressed" => why[w] # "processing_error"
      BY <2>4 DEF MarkStatus, SkipReason
    <3>3. row'[t] = "suppressed" => accepted[t] = 0 /\ t \notin ext
      BY <2>4, <3>2 DEF MarkStatus, SendInv
    <3>4. /\ wpc[w] = "mark" /\ wpc' = [wpc EXCEPT ![w] = "note"]
          /\ why' = why /\ UNCHANGED <<ext, accepted, wjob, faults>>
      BY <2>4 DEF MarkStatus
    <3> QED
      BY <2>2, <3>1, <3>3, <3>4 DEF Owns
  <2> QED
    BY <1>6, <2>3, <2>4
<1>7. ASSUME NEW w \in Worker, ThrowInTry(w)
      PROVE  MessageInv'
  BY <1>7 DEF ThrowInTry, Fault
<1>8. ASSUME NEW t \in Target, DeadLetter(t) \/ Redrive(t)
      PROVE  MessageInv'
  BY <1>8 DEF DeadLetter, Redrive
<1> QED
  BY <1>1, <1>2, <1>3, <1>4, <1>5, <1>6, <1>7, <1>8
  DEF Consuming, WorkerStep, WorkerFault

\* What a handler writes to a row: the outcome it was told of, of a message that
\* has an id.
LEMMA ApplyWrites ==
  ASSUME CallbackInv, NEW h \in Handler, ApplyCallback(h)
  PROVE  /\ hmsg[h] \in ext
         /\ \A t \in Target : t # hmsg[h] => row'[t] = row[t]
         /\ \/ hkind[h] \in Engaging /\ row' = row
            \/ /\ hkind[h] \notin Engaging /\ row'[hmsg[h]] = StatusOf(hkind[h])
               /\ row'[hmsg[h]] \in {"delivered", "failed"}
<1> USE DEF CallbackInv, DeliveryInv, TypeOK, StoreTypeOK, CallbackTypeOK, SetRow
<1>1. hmsg[h] \in ext /\ hkind[h] \notin EarlySms
  BY DEF ApplyCallback, SendInv, EventInv
<1>2. CASE hkind[h] \in Engaging
  BY <1>1, <1>2 DEF ApplyCallback, Engaging
<1>3. CASE hkind[h] \notin Engaging
  <2>1. row' = [row EXCEPT ![hmsg[h]] = StatusOf(hkind[h])]
    BY <1>3 DEF ApplyCallback, Engaging
  <2>2. StatusOf(hkind[h]) \in {"delivered", "failed"}
    BY <1>1 DEF StatusOf, EarlySms
  <2> QED
    BY <1>1, <1>3, <2>1, <2>2
<1> QED
  BY <1>2, <1>3

LEMMA CallingBackKeepsMessages ==
  ASSUME CallbackInv, CallingBack, UNCHANGED <<publisherVars, workerVars>>
  PROVE  MessageInv'
<1> USE DEF CallbackInv, MessageInv
<1>1. UNCHANGED <<ext, accepted>>
  BY DEF CallingBack, HandlerStep, Emit, Arrive, RecordEvent, ApplyCallback,
         SuppressAddress, CrashHandler
<1>1a. faults' = faults \/ faults' = faults + 1
  BY DEF CallingBack, HandlerStep, Emit, Arrive, RecordEvent, ApplyCallback,
         SuppressAddress, CrashHandler, Fault
<1>1b. faults \in Nat
  BY DeliveryAssumption DEF DeliveryInv, TypeOK, StoreTypeOK
<1>2. \A t \in Target :
        row'[t] = row[t] \/ (t \in ext /\ row'[t] \in {"delivered", "failed"})
  <2>1. ASSUME NEW h \in Handler, ApplyCallback(h)
        PROVE  \A t \in Target : row'[t] = row[t]
                 \/ (t \in ext /\ row'[t] \in {"delivered", "failed"})
    BY <2>1, ApplyWrites
  <2>2. CASE \A h \in Handler : ~ApplyCallback(h)
    BY <2>2 DEF CallingBack, HandlerStep, Emit, Arrive, RecordEvent,
                SuppressAddress, CrashHandler
  <2> QED
    BY <2>1, <2>2
<1>3. \A w \in Worker :
        row[wjob[w]] = "sending" => row'[wjob[w]] = "sending"
  BY <1>2 DEF DeliveryInv, TypeOK, WorkerTypeOK
<1>4. ext \subseteq Target
  BY DEF DeliveryInv, TypeOK, StoreTypeOK
<1> QED
  BY <1>1, <1>1a, <1>1b, <1>2, <1>3, <1>4

LEMMA MessageStep == CallbackInv /\ [Next]_vars => MessageInv'
<1> SUFFICES ASSUME CallbackInv, [Next]_vars PROVE MessageInv'
  OBVIOUS
<1> USE DEF CallbackInv, DeliveryInv, TypeOK, StoreTypeOK, WorkerTypeOK
<1>1. CASE Publishing /\ UNCHANGED <<workerVars, callbackVars>>
  <2>1. /\ \A t \in Target : row'[t] = row[t] \/ (row[t] = "none" /\ row'[t] = "queued")
        /\ UNCHANGED <<accepted, ext>> /\ (faults > 0 => faults' > 0)
    BY <1>1 DEF Publishing, PublisherStep, ReadAudience, DropSuppressed,
                StartSending, Return, CreateRow, SendJob, AbortCall, SetRow, Fault
  <2> QED
    BY <1>1, <2>1 DEF MessageInv
<1>2. CASE Consuming
  BY <1>2, ConsumingKeepsMessages
<1>3. CASE CallingBack /\ UNCHANGED <<publisherVars, workerVars>>
  BY <1>3, CallingBackKeepsMessages
<1>4. CASE Recipients /\ UNCHANGED <<publisherVars, workerVars, callbackVars>>
  <2>1. UNCHANGED <<row, ext, accepted, faults>>
    BY <1>4 DEF Recipients, DeactivateUser, ReactivateUser, LeaveAudience,
                BounceElsewhere, InboundStop, InboundStart
  <2> QED
    BY <1>4, <2>1 DEF MessageInv
<1>5. CASE UNCHANGED vars
  BY <1>5 DEF MessageInv
<1> QED
  BY <1>1, <1>2, <1>3, <1>4, <1>5 DEF Next

\* The providers' part of a step.
LEMMA EmitStep == CallbackInv /\ [Next]_vars => EmitInv'
<1> SUFFICES ASSUME CallbackInv, [Next]_vars PROVE EmitInv'
  OBVIOUS
<1> USE DEF CallbackInv, EmitInv
<1>1. ASSUME NEW t \in Target, NEW k \in Kind, Emit(t, k)
      PROVE  EmitInv'
  <2>1. k \in AllKinds /\ emitted' = emitted \cup {<<t, k>>}
    BY <1>1, KindAssumption DEF Emit
  <2>2. \A s, j : <<s, j>> \in emitted' <=> <<s, j>> \in emitted \/ (s = t /\ j = k)
    BY <2>1
  <2>3. /\ FinalEmail \cap FinalSms = {} /\ LaterEmail \cap FinalEmail = {}
        /\ LaterEmail \cap FinalSms = {} /\ EarlySms \cap FinalEmail = {}
        /\ EarlySms \cap FinalSms = {} /\ LaterEmail \cap EarlySms = {}
    BY DEF FinalEmail, LaterEmail, FinalSms, EarlySms
  <2>4. k \in FinalEmail => \A f \in FinalEmail : <<t, f>> \notin emitted
    BY <1>1, <2>3 DEF Emit
  <2>5. k \in FinalSms => \A f \in FinalSms : <<t, f>> \notin emitted
    BY <1>1, <2>3 DEF Emit
  <2>6. k \in Reports(ChannelOf(t))
    <3>1. CASE k \in FinalEmail
      BY <1>1, <2>3, <3>1 DEF Emit, Reports
    <3>2. CASE k \in LaterEmail
      <4>1. <<t, "Delivery">> \in emitted
        BY <1>1, <2>3, <3>2 DEF Emit
      <4>2. "Delivery" \in Reports(ChannelOf(t)) /\ "Delivery" \notin FinalSms \cup EarlySms
        BY <4>1 DEF AllKinds, FinalEmail, FinalSms, EarlySms
      <4> QED
        BY <3>2, <4>2 DEF Reports
    <3>3. CASE k \in FinalSms \cup EarlySms
      <4>1. ChannelOf(t) = "sms"
        BY <1>1, <2>3, <3>3 DEF Emit
      <4> QED
        BY <3>3, <4>1 DEF Reports
    <3> QED
      BY <2>1, <3>1, <3>2, <3>3 DEF AllKinds
  <2>7. ASSUME NEW s \in Target
        PROVE  /\ \A i, j \in FinalEmail :
                    <<s, i>> \in emitted' /\ <<s, j>> \in emitted' => i = j
               /\ \A i, j \in FinalSms :
                    <<s, i>> \in emitted' /\ <<s, j>> \in emitted' => i = j
               /\ \A j \in AllKinds :
                    <<s, j>> \in emitted' => j \in Reports(ChannelOf(s))
    BY <2>2, <2>4, <2>5, <2>6
  <2> QED
    BY <2>1, <2>7
<1>2. CASE UNCHANGED emitted
  BY <1>2
<1>3. (\E t \in Target, k \in Kind : Emit(t, k)) \/ UNCHANGED emitted
  BY DEF Next, CallingBack, HandlerStep, Arrive, RecordEvent, ApplyCallback,
         SuppressAddress, CrashHandler
<1> QED
  BY <1>1, <1>2, <1>3

LEMMA EventStep == CallbackInv /\ [Next]_vars => EventInv'
<1> SUFFICES ASSUME CallbackInv, [Next]_vars PROVE EventInv'
  OBVIOUS
<1> USE DEF CallbackInv, EventInv, DeliveryInv, TypeOK, StoreTypeOK, CallbackTypeOK
<1>0. ASSUME UNCHANGED callbackVars, ext \subseteq ext'
      PROVE  EventInv'
  BY <1>0
<1>1. CASE Publishing /\ UNCHANGED <<workerVars, callbackVars>>
  <2>1. UNCHANGED ext
    BY <1>1 DEF Publishing, PublisherStep, ReadAudience, DropSuppressed,
                StartSending, Return, CreateRow, SendJob, AbortCall
  <2> QED
    BY <1>0, <1>1, <2>1
<1>2. CASE Consuming /\ UNCHANGED <<publisherVars, callbackVars>>
  <2>1. ext \subseteq ext'
    BY <1>2 DEF Consuming, WorkerStep, WorkerFault, Receive, Fetch, Claim,
                RecordSending, LoadRecipient, CheckSuppression, Transmit, StoreSent,
                RecordSent, MarkStatus, RecordMark, SuppressNumber, Ack, Retry,
                ThrowToConsumer, ThrowInTry, LoseResponse, CrashWorker, DeadLetter,
                Redrive
  <2> QED
    BY <1>0, <1>2, <2>1
<1>3. CASE CallingBack /\ UNCHANGED <<publisherVars, workerVars>>
  <2>1. ASSUME NEW t \in Target, NEW k \in Kind, Emit(t, k)
        PROVE  EventInv'
    BY <2>1 DEF Emit
  <2>2. ASSUME NEW h \in Handler, NEW t \in Target, NEW k \in Kind, Arrive(h, t, k)
        PROVE  EventInv'
    <3>1. row[t] \in {"sent", "delivered", "failed"}
      BY <2>2 DEF Arrive, MessageInv
    <3>2. k \notin EarlySms
      BY <2>2, <3>1 DEF Arrive, Progresses, StatusOf, StatusOrder, EarlySms
    <3> QED
      BY <2>2, <3>2, KindAssumption DEF Arrive
  <2>3. ASSUME NEW h \in Handler, RecordEvent(h)
        PROVE  EventInv'
    <3> DEFINE e == <<hmsg[h], EventKey(hkind[h])>>
    <3>1. hmsg[h] \in ext /\ <<hmsg[h], hkind[h]>> \in emitted
      BY <2>3 DEF RecordEvent, SendInv
    <3>2. events' \subseteq events \cup {e}
      BY <2>3 DEF RecordEvent
    <3>3. \A g \in Handler : /\ hpc'[g] # "idle" => hpc[g] # "idle"
                             /\ hpc'[g] = "suppress" => hpc[g] = "suppress"
      BY <2>3 DEF RecordEvent, GoHandler
    <3>4. UNCHANGED <<hmsg, hkind, emitted, ext>>
      BY <2>3 DEF RecordEvent, GoHandler
    <3>5. e[1] = hmsg[h] /\ e[2] = EventKey(hkind[h]) /\ hkind[h] \in AllKinds
      OBVIOUS
    <3> QED
      BY <3>1, <3>2, <3>3, <3>4, <3>5
  <2>4. ASSUME NEW h \in Handler,
               ApplyCallback(h) \/ SuppressAddress(h) \/ CrashHandler(h)
        PROVE  EventInv'
    <3>1. \A g \in Handler :
            /\ hpc'[g] # "idle" => hpc[g] # "idle"
            /\ hpc'[g] = "suppress" => hpc[g] = "suppress"
                                      \/ hkind[g] \in Suppressing
      BY <2>4 DEF ApplyCallback, SuppressAddress, CrashHandler, GoHandler
    <3>2. UNCHANGED <<hmsg, hkind, emitted, events, ext>>
      BY <2>4 DEF ApplyCallback, SuppressAddress, CrashHandler, GoHandler
    <3> QED
      BY <3>1, <3>2
  <2> QED
    BY <1>3, <2>1, <2>2, <2>3, <2>4 DEF CallingBack, HandlerStep
<1>4. CASE Recipients /\ UNCHANGED <<publisherVars, workerVars, callbackVars>>
  <2>1. UNCHANGED ext
    BY <1>4 DEF Recipients, DeactivateUser, ReactivateUser, LeaveAudience,
                BounceElsewhere, InboundStop, InboundStart
  <2> QED
    BY <1>0, <1>4, <2>1
<1>5. CASE UNCHANGED vars
  BY <1>0, <1>5
<1> QED
  BY <1>1, <1>2, <1>3, <1>4, <1>5 DEF Next

\* CallbackInv is inductive, so it holds throughout.
THEOREM CallbackInvariant == Spec => []CallbackInv
<1>1. Init => CallbackInv
  BY InitCallbackInv
<1>2. CallbackInv /\ [Next]_vars => CallbackInv'
  <2>1. DeliveryInv /\ [Next]_vars => DeliveryInv'
    BY NextTyped, OwnerStep, SendStep, QueueStep, BarredStep DEF DeliveryInv
  <2> QED
    BY <2>1, MessageStep, EmitStep, EventStep DEF CallbackInv
<1> QED
  BY <1>1, <1>2, PTL DEF Spec
-----------------------------------------------------------------------------
(* How the status of a row moves.                                          *)

\* The ways a step may treat the status of t's row: the publisher creates it,
\* a worker claims it and writes its outcome, a worker marks it after a fault,
\* or a handler applies a callback.
RowMove(t) ==
  \/ row'[t] = row[t]
  \/ row[t] = "none" /\ row'[t] = "queued"
  \/ row[t] = "queued" /\ row'[t] = "sending"
  \/ row[t] = "sending" /\ row'[t] \in {"sent", "failed", "suppressed"}
  \/ Troubled /\ row'[t] = "failed"
  \/ \E h \in Handler : ApplyCallback(h) /\ hmsg[h] = t

LEMMA RowsMove ==
  ASSUME CallbackInv, [Next]_vars, NEW t \in Target
  PROVE  RowMove(t)
<1> USE DEF CallbackInv, DeliveryInv, TypeOK, StoreTypeOK, WorkerTypeOK, SetRow,
            RowMove
<1>1. CASE Publishing
  BY <1>1 DEF Publishing, PublisherStep, ReadAudience, DropSuppressed,
              StartSending, Return, CreateRow, SendJob, AbortCall
<1>2. CASE Consuming
  <2>1. ASSUME NEW w \in Worker, Claim(w)
        PROVE  RowMove(t)
    BY <2>1 DEF Claim
  <2>2. ASSUME NEW w \in Worker, StoreSent(w)
        PROVE  RowMove(t)
    BY <2>2 DEF StoreSent, MessageInv
  <2>3. ASSUME NEW w \in Worker, MarkStatus(w)
        PROVE  RowMove(t)
    <3>1. CASE why[w] = "processing_error"
      BY <2>3, <3>1 DEF MarkStatus, MessageInv, SkipReason, Troubled
    <3>2. CASE why[w] # "processing_error"
      BY <2>3, <3>2 DEF MarkStatus, MessageInv
    <3> QED
      BY <3>1, <3>2
  <2>4. CASE \A w \in Worker : ~(Claim(w) \/ StoreSent(w) \/ MarkStatus(w))
    BY <1>2, <2>4
    DEF Consuming, WorkerStep, WorkerFault, Receive, Fetch, RecordSending,
        LoadRecipient, CheckSuppression, Transmit, RecordSent, RecordMark,
        SuppressNumber, Ack, Retry, ThrowToConsumer, ThrowInTry, LoseResponse,
        CrashWorker, DeadLetter, Redrive
  <2> QED
    BY <2>1, <2>2, <2>3, <2>4
<1>3. CASE CallingBack
  <2>1. ASSUME NEW h \in Handler, ApplyCallback(h)
        PROVE  RowMove(t)
    BY <2>1, ApplyWrites
  <2>2. CASE \A h \in Handler : ~ApplyCallback(h)
    BY <1>3, <2>2 DEF CallingBack, HandlerStep, Emit, Arrive, RecordEvent,
                      SuppressAddress, CrashHandler
  <2> QED
    BY <2>1, <2>2
<1>4. CASE Recipients
  BY <1>4 DEF Recipients, DeactivateUser, ReactivateUser, LeaveAudience,
              BounceElsewhere, InboundStop, InboundStart
<1>5. CASE UNCHANGED vars
  BY <1>5
<1> QED
  BY <1>1, <1>2, <1>3, <1>4, <1>5 DEF Next

\* Once the message id is stored, only callbacks and faults of workers write the
\* row.
LEMMA StoredRowMoves ==
  ASSUME CallbackInv, [Next]_vars, NEW t \in ext
  PROVE  \/ row'[t] = row[t]
         \/ Troubled /\ row'[t] = "failed"
         \/ \E h \in Handler : ApplyCallback(h) /\ hmsg[h] = t
<1>1. t \in Target /\ row[t] \in {"sent", "delivered", "failed"}
  BY DEF CallbackInv, DeliveryInv, TypeOK, StoreTypeOK, MessageInv
<1> QED
  BY <1>1, RowsMove DEF RowMove

\* The statuses in the order the handlers compare by.
LEMMA Orders ==
  /\ StatusOrder("none") = 0 /\ StatusOrder("queued") = 0
  /\ StatusOrder("sending") = 1 /\ StatusOrder("sent") = 2
  /\ StatusOrder("delivered") = 3 /\ StatusOrder("failed") = 4
  /\ StatusOrder("suppressed") = 5
BY DEF StatusOrder

\* Whatever handlers race and wherever workers fail, a row's status goes back in
\* the handlers' order in no other way: never to queued, sending or sent, and
\* never from delivered.
THEOREM RegressionsAreLateWrites == Spec => OnlyLateWritesRegress
<1>1. ASSUME CallbackInv, [Next]_vars, NEW t \in Target
      PROVE  StatusOrder(row'[t]) >= StatusOrder(row[t]) \/ LateWrite(t)
  <2>1. row[t] \in RowStatus
    BY <1>1 DEF CallbackInv, DeliveryInv, TypeOK, StoreTypeOK
  <2>2. CASE \E h \in Handler : ApplyCallback(h) /\ hmsg[h] = t
    <3>1. PICK h \in Handler : ApplyCallback(h) /\ hmsg[h] = t
      BY <2>2
    <3>2. /\ t \in ext /\ row[t] \in {"sent", "delivered", "failed"}
          /\ row'[t] = row[t] \/ row'[t] \in {"delivered", "failed"}
      BY <1>1, <3>1, ApplyWrites DEF CallbackInv, MessageInv
    <3> QED
      BY <3>2, Orders DEF LateWrite
  <2>3. CASE Troubled /\ row'[t] = "failed"
    BY <2>1, <2>3, Orders DEF RowStatus, LateWrite
  <2> QED
    BY <1>1, <2>1, <2>2, <2>3, RowsMove, Orders DEF RowMove, RowStatus
<1>2. CallbackInv /\ [Next]_vars =>
        [\A t \in Target : StatusOrder(row'[t]) >= StatusOrder(row[t])
                             \/ LateWrite(t)]_vars
  BY <1>1
<1> QED
  BY <1>2, CallbackInvariant, PTL DEF Spec, OnlyLateWritesRegress
-----------------------------------------------------------------------------
(* Where handlers do not race over different outcomes.                     *)

\* Callbacks are handled one at a time, or no spam complaints come in: only a
\* complaint is an outcome that may follow another for the same message.
NoSpamRace ==
  (\A g, h \in Handler : g = h) \/ "SpamComplaint" \notin Kind

\* Two callbacks that change the status of one row then say the same.
LEMMA OneOutcome ==
  ASSUME NoSpamRace, CallbackInv, NEW g \in Handler, NEW h \in Handler, g # h,
         hpc[g] # "idle", hpc[h] # "idle", hmsg[g] = hmsg[h],
         hkind[g] \notin Engaging, hkind[h] \notin Engaging
  PROVE  hkind[g] = hkind[h]
<1> DEFINE t == hmsg[h]
<1> USE DEF CallbackInv
<1>1. t \in Target
  BY DEF DeliveryInv, TypeOK, CallbackTypeOK
<1>2. /\ <<t, hkind[g]>> \in emitted /\ <<t, hkind[h]>> \in emitted
      /\ hkind[g] \notin EarlySms /\ hkind[h] \notin EarlySms
  BY DEF EventInv
<1>3. hkind[g] \in Kind /\ hkind[h] \in Kind
  BY <1>2 DEF EmitInv
<1>4. hkind[g] # "SpamComplaint" /\ hkind[h] # "SpamComplaint"
  BY <1>3 DEF NoSpamRace
<1>5. /\ hkind[g] \in Reports(ChannelOf(t))
      /\ hkind[h] \in Reports(ChannelOf(t))
  BY <1>1, <1>2, <1>3, KindAssumption DEF EmitInv
<1>6. \/ hkind[g] \in FinalEmail /\ hkind[h] \in FinalEmail
      \/ hkind[g] \in FinalSms /\ hkind[h] \in FinalSms
  BY <1>2, <1>4, <1>5 DEF Reports, LaterEmail, Engaging
<1> QED
  BY <1>1, <1>2, <1>6 DEF EmitInv

\* Unless a worker failed after storing the message id, the outcome a handler
\* is about to write is still progress.
ProgressInv ==
  ~Troubled =>
    \A h \in Handler :
      hpc[h] \in {"record", "apply"} /\ hkind[h] \notin Engaging
        => StatusOrder(StatusOf(hkind[h])) >= StatusOrder(row[hmsg[h]])

\* A fault is not forgotten.
LEMMA FaultsStay ==
  ASSUME CallbackInv, [Next]_vars
  PROVE  faults \in Nat /\ (faults' = faults \/ faults' = faults + 1)
<1>1. faults \in Nat
  BY DeliveryAssumption DEF CallbackInv, DeliveryInv, TypeOK, StoreTypeOK
<1>2. SUFFICES ASSUME faults' # faults PROVE faults' = faults + 1
  BY <1>1
<1>3. CASE Publishing
  BY <1>2, <1>3 DEF Publishing, PublisherStep, ReadAudience, DropSuppressed,
                    StartSending, Return, CreateRow, SendJob, AbortCall, Fault
<1>4. CASE Consuming
  BY <1>2, <1>4
  DEF Consuming, WorkerStep, WorkerFault, Receive, Fetch, Claim, RecordSending,
      LoadRecipient, CheckSuppression, Transmit, StoreSent, RecordSent, MarkStatus,
      RecordMark, SuppressNumber, Ack, Retry, ThrowToConsumer, ThrowInTry,
      LoseResponse, CrashWorker, DeadLetter, Redrive, Fault
<1>5. CASE CallingBack
  BY <1>2, <1>5 DEF CallingBack, HandlerStep, Emit, Arrive, RecordEvent,
                    ApplyCallback, SuppressAddress, CrashHandler, Fault
<1>6. CASE Recipients
  BY <1>2, <1>6 DEF Recipients, DeactivateUser, ReactivateUser, LeaveAudience,
                    BounceElsewhere, InboundStop, InboundStart
<1> QED
  BY <1>2, <1>3, <1>4, <1>5, <1>6 DEF Next

LEMMA TroubleStays ==
  ASSUME CallbackInv, [Next]_vars, Troubled
  PROVE  Troubled'
BY FaultsStay DEF Troubled

\* The row of a handler that goes on with what it read.
LEMMA RowOfHandler ==
  ASSUME NoSpamRace, CallbackInv, ProgressInv, [Next]_vars, ~Troubled,
         NEW h \in Handler, hpc[h] # "idle", ~ApplyCallback(h),
         hkind[h] \notin Engaging
  PROVE  row'[hmsg[h]] \in {row[hmsg[h]], StatusOf(hkind[h])}
<1>1. hmsg[h] \in ext
  BY DEF CallbackInv, DeliveryInv, SendInv
<1>2. ASSUME NEW g \in Handler, ApplyCallback(g), hmsg[g] = hmsg[h]
      PROVE  row'[hmsg[h]] \in {row[hmsg[h]], StatusOf(hkind[h])}
  <2>1. hpc[g] # "idle" /\ g # h
    BY <1>2 DEF ApplyCallback
  <2>2. CASE hkind[g] \in Engaging
    BY <1>2, <2>2, ApplyWrites
  <2>3. CASE hkind[g] \notin Engaging
    <3>1. hkind[g] = hkind[h]
      BY <1>2, <2>1, <2>3, OneOutcome
    <3> QED
      BY <1>2, <2>3, <3>1, ApplyWrites
  <2> QED
    BY <2>2, <2>3
<1> QED
  BY <1>1, <1>2, StoredRowMoves

\* A handler that takes no statement stays where it is.
LEMMA HandlerStays ==
  ASSUME CallbackTypeOK, [Next]_vars, NEW h \in Handler,
         \A t \in Target, k \in Kind : ~Arrive(h, t, k), ~RecordEvent(h),
         ~ApplyCallback(h), ~SuppressAddress(h), ~CrashHandler(h)
  PROVE  hpc'[h] = hpc[h] /\ hmsg'[h] = hmsg[h] /\ hkind'[h] = hkind[h]
<1> USE DEF CallbackTypeOK, GoHandler
<1>1. ASSUME NEW g \in Handler, g # h, NEW t \in Target, NEW k \in Kind,
             Arrive(g, t, k)
      PROVE  hpc'[h] = hpc[h] /\ hmsg'[h] = hmsg[h] /\ hkind'[h] = hkind[h]
  BY <1>1 DEF Arrive
<1>2. ASSUME NEW g \in Handler, g # h,
             RecordEvent(g) \/ ApplyCallback(g) \/ SuppressAddress(g)
               \/ CrashHandler(g)
      PROVE  hpc'[h] = hpc[h] /\ hmsg'[h] = hmsg[h] /\ hkind'[h] = hkind[h]
  BY <1>2 DEF RecordEvent, ApplyCallback, SuppressAddress, CrashHandler
<1>3. CASE \E t \in Target, k \in Kind : Emit(t, k)
  BY <1>3 DEF Emit
<1>4. CASE UNCHANGED callbackVars
  BY <1>4
<1> QED
  BY <1>1, <1>2, <1>3, <1>4 DEF Next, CallingBack, HandlerStep

\* What a step leaves of a handler's place when it neither receives a callback
\* nor applies one.
LEMMA HandlerGoesOn ==
  ASSUME CallbackTypeOK, [Next]_vars, NEW h \in Handler, ~ApplyCallback(h),
         \A t \in Target, k \in Kind : ~Arrive(h, t, k), hpc'[h] # "idle"
  PROVE  /\ hpc'[h] = hpc[h] \/ (hpc[h] = "record" /\ hpc'[h] = "apply")
         /\ hmsg'[h] = hmsg[h] /\ hkind'[h] = hkind[h]
<1>1. CASE RecordEvent(h) \/ SuppressAddress(h) \/ CrashHandler(h)
  BY <1>1 DEF RecordEvent, SuppressAddress, CrashHandler, GoHandler, CallbackTypeOK
<1> QED
  BY <1>1, HandlerStays

LEMMA ProgressStep ==
  ASSUME NoSpamRace, CallbackInv, ProgressInv, [Next]_vars
  PROVE  ProgressInv'
<1> SUFFICES ASSUME ~Troubled', NEW h \in Handler,
                    hpc'[h] \in {"record", "apply"}, hkind'[h] \notin Engaging
             PROVE  StatusOrder(StatusOf(hkind'[h])) >= StatusOrder(row'[hmsg'[h]])
  BY DEF ProgressInv
<1>1. ~Troubled
  BY TroubleStays
<1> USE DEF CallbackInv, DeliveryInv, TypeOK, CallbackTypeOK
<1>2. ASSUME NEW t \in Target, NEW k \in Kind, Arrive(h, t, k)
      PROVE  StatusOrder(StatusOf(hkind'[h])) >= StatusOrder(row'[hmsg'[h]])
  <2>1. /\ hkind'[h] = k /\ hmsg'[h] = t /\ row' = row
        /\ t \in ext /\ Progresses(t, k)
    BY <1>2 DEF Arrive
  <2>2. row[t] \in {"sent", "delivered", "failed"}
    BY <2>1 DEF MessageInv
  <2>3. CASE k = "SpamComplaint"
    <3>1. StatusOf(k) = "failed"
      BY <2>3 DEF StatusOf
    <3> QED
      BY <2>1, <2>2, <3>1, Orders
  <2>4. CASE k # "SpamComplaint"
    <3>1. StatusOrder(StatusOf(k)) > StatusOrder(row[t])
      BY <2>1, <2>4 DEF Progresses, Engaging
    <3>2. StatusOf(k) \in {"sending", "sent", "delivered", "failed"}
      BY DEF StatusOf
    <3> QED
      BY <2>1, <2>2, <3>1, <3>2, Orders
  <2> QED
    BY <2>3, <2>4
<1>3. CASE ApplyCallback(h)
  BY <1>3 DEF ApplyCallback, GoHandler
<1>4. ASSUME ~ApplyCallback(h), \A t \in Target, k \in Kind : ~Arrive(h, t, k)
      PROVE  StatusOrder(StatusOf(hkind'[h])) >= StatusOrder(row'[hmsg'[h]])
  <2>1. /\ hpc[h] \in {"record", "apply"}
        /\ hmsg'[h] = hmsg[h] /\ hkind'[h] = hkind[h]
    BY <1>4, HandlerGoesOn
  <2>2. row'[hmsg[h]] \in {row[hmsg[h]], StatusOf(hkind[h])}
    BY <1>1, <1>4, <2>1, RowOfHandler
  <2>3. StatusOf(hkind[h]) \in {"sending", "sent", "delivered", "failed"}
    BY DEF StatusOf
  <2> QED
    BY <1>1, <2>1, <2>2, <2>3, Orders DEF ProgressInv
<1> QED
  BY <1>2, <1>3, <1>4

LEMMA InitProgress == Init => ProgressInv
BY DEF Init, CallbackInit, ProgressInv

LEMMA ProgressInvariant ==
  ASSUME NoSpamRace
  PROVE  Spec => []ProgressInv
<1>1. CallbackInv /\ ProgressInv /\ [Next]_vars => ProgressInv'
  BY ProgressStep
<1> QED
  BY <1>1, InitProgress, CallbackInvariant, PTL DEF Spec

\* Where no two handlers race over a spam complaint and no worker fails, a
\* row's status never goes back: the check made on the row that was read is as
\* good as one made when the row is written.
LEMMA StatusAdvances ==
  ASSUME NoSpamRace, CallbackInv, ProgressInv, [Next]_vars, ~Troubled,
         NEW t \in Target
  PROVE  StatusOrder(row'[t]) >= StatusOrder(row[t])
<1>1. row[t] \in RowStatus
  BY DEF CallbackInv, DeliveryInv, TypeOK, StoreTypeOK
<1>2. ASSUME NEW h \in Handler, ApplyCallback(h), hmsg[h] = t
      PROVE  StatusOrder(row'[t]) >= StatusOrder(row[t])
  <2>1. CASE hkind[h] \in Engaging
    BY <1>1, <1>2, <2>1, ApplyWrites, Orders DEF RowStatus
  <2>2. CASE hkind[h] \notin Engaging
    BY <1>2, <2>2, ApplyWrites DEF ProgressInv, ApplyCallback
  <2> QED
    BY <2>1, <2>2
<1> QED
  BY <1>1, <1>2, RowsMove, Orders DEF RowMove, RowStatus

\* The statuses do progress monotonically, as both handlers say, where callbacks
\* are handled one at a time or no spam complaint comes in, and where faults
\* spare the workers.
THEOREM StatusIsMonotonic ==
  ASSUME NoSpamRace, "worker" \notin FaultSites
  PROVE  Spec => StatusNeverRegresses
<1>1. CallbackInv /\ ProgressInv /\ [Next]_vars =>
        [\A t \in Target : StatusOrder(row'[t]) >= StatusOrder(row[t])]_vars
  BY StatusAdvances DEF Troubled
<1> QED
  BY <1>1, CallbackInvariant, ProgressInvariant, PTL DEF Spec, StatusNeverRegresses
-----------------------------------------------------------------------------
(* What a recorded event stands for.                                       *)

\* Two reports about one message that share the unique event key are one.
LEMMA KeysAreUnique ==
  ASSUME EmitInv, NEW t \in Target, NEW j \in AllKinds, NEW k \in AllKinds,
         <<t, j>> \in emitted, <<t, k>> \in emitted, EventKey(j) = EventKey(k)
  PROVE  j = k
<1>1. j = k \/ (j \in FinalEmail /\ k \in FinalEmail)
  BY DEF EventKey, AllKinds, FinalEmail, LaterEmail, FinalSms, EarlySms
<1> QED
  BY <1>1 DEF EmitInv

\* Marks are not taken away: an entry of the suppression list may be lifted and
\* stays in the list.
LEMMA MarksStay ==
  ASSUME CallbackInv, [Next]_vars
  PROVE  /\ engaged \subseteq engaged'
         /\ events \subseteq events'
         /\ \A t \in Target : supp[t] # "absent" => supp'[t] # "absent"
<1> USE DEF CallbackInv, DeliveryInv, TypeOK, StoreTypeOK, AddSuppression
<1>1. CASE Publishing /\ UNCHANGED <<workerVars, callbackVars>>
  BY <1>1 DEF Publishing, PublisherStep, ReadAudience, DropSuppressed,
              StartSending, Return, CreateRow, SendJob, AbortCall
<1>2. CASE Consuming /\ UNCHANGED <<publisherVars, callbackVars>>
  BY <1>2 DEF Consuming, WorkerStep, WorkerFault, Receive, Fetch, Claim,
              RecordSending, LoadRecipient, CheckSuppression, Transmit, StoreSent,
              RecordSent, MarkStatus, RecordMark, SuppressNumber, Ack, Retry,
              ThrowToConsumer, ThrowInTry, LoseResponse, CrashWorker, DeadLetter,
              Redrive
<1>3. CASE CallingBack
  BY <1>3 DEF CallingBack, HandlerStep, Emit, Arrive, RecordEvent, ApplyCallback,
              SuppressAddress, CrashHandler
<1>4. CASE Recipients /\ UNCHANGED <<publisherVars, workerVars, callbackVars>>
  BY <1>4 DEF Recipients, DeactivateUser, ReactivateUser, LeaveAudience,
              BounceElsewhere, InboundStop, InboundStart
<1>5. CASE UNCHANGED vars
  BY <1>5
<1> QED
  BY <1>1, <1>2, <1>3, <1>4, <1>5 DEF Next

\* What a callback leaves behind besides the status.
Marked(t, k) ==
  /\ k \in Engaging => <<t, k>> \in engaged
  /\ k \in Suppressing => supp[t] # "absent"

\* An event is recorded, and handled, by a handler of that very callback.
LEMMA NewlyRecorded ==
  ASSUME CallbackInv, [Next]_vars, NEW t \in Target, NEW k \in Kind,
         <<t, EventKey(k)>> \in events', <<t, EventKey(k)>> \notin events
  PROVE  InProgress(t, k)'
<1>1. PICK h \in Handler : RecordEvent(h) /\ events' # events
  BY DEF Next, CallingBack, HandlerStep, Emit, Arrive, ApplyCallback,
         SuppressAddress, CrashHandler
<1>2. <<t, EventKey(k)>> = <<hmsg[h], EventKey(hkind[h])>>
  BY <1>1 DEF RecordEvent
<1>3. hpc'[h] = "apply" /\ hmsg' = hmsg /\ hkind' = hkind
  BY <1>1 DEF RecordEvent, GoHandler, CallbackInv, DeliveryInv, TypeOK,
              CallbackTypeOK
<1> QED
  BY <1>2, <1>3 DEF InProgress

\* A callback that is no longer in progress was finished by a handler of it, if
\* no handler failed.
LEMMA WhoFinishes ==
  ASSUME CallbackInv, [Next]_vars, \A h \in Handler : ~CrashHandler(h),
         NEW t \in Target, NEW k \in Kind, <<t, k>> \in emitted,
         InProgress(t, k), ~InProgress(t, k)'
  PROVE  \E h \in Handler :
           /\ hmsg[h] = t /\ hkind[h] = k
           /\ SuppressAddress(h) \/ (ApplyCallback(h) /\ k \notin Suppressing)
<1> USE DEF CallbackInv, DeliveryInv, TypeOK, CallbackTypeOK
<1>1. PICK h \in Handler : /\ hpc[h] \in {"apply", "suppress"}
                           /\ hmsg[h] = t /\ EventKey(hkind[h]) = EventKey(k)
  BY DEF InProgress
<1>2. hkind[h] = k
  <2>1. <<t, hkind[h]>> \in emitted /\ hkind[h] \in AllKinds /\ k \in AllKinds
    BY <1>1, KindAssumption DEF EventInv
  <2> QED
    BY <1>1, <2>1, KeysAreUnique
<1>3. ~(hpc'[h] \in {"apply", "suppress"} /\ hmsg'[h] = t /\ hkind'[h] = k)
  BY DEF InProgress
<1>4. ApplyCallback(h) => k \notin Suppressing
  BY <1>1, <1>2, <1>3 DEF ApplyCallback, GoHandler
<1>5. ASSUME ~ApplyCallback(h), ~SuppressAddress(h)
      PROVE  FALSE
  <2>1. ~RecordEvent(h) /\ \A s \in Target, j \in Kind : ~Arrive(h, s, j)
    BY <1>1 DEF RecordEvent, Arrive
  <2>2. hpc'[h] = hpc[h] /\ hmsg'[h] = hmsg[h] /\ hkind'[h] = hkind[h]
    BY <1>5, <2>1, HandlerStays
  <2> QED
    BY <1>1, <1>2, <1>3, <2>2
<1> QED
  BY <1>1, <1>2, <1>4, <1>5

\* No callback handler has failed so far.
Handled == faults = 0 \/ "callback" \notin FaultSites

LEMMA HandledBefore ==
  ASSUME CallbackInv, [Next]_vars, Handled'
  PROVE  Handled /\ \A h \in Handler : ~CrashHandler(h)
BY FaultsStay DEF Handled, CrashHandler, Fault

\* A callback whose event was recorded before a step was sent before it.
LEMMA SentBefore ==
  ASSUME CallbackInv, [Next]_vars, NEW t \in Target, NEW k \in Kind,
         <<t, k>> \in emitted', <<t, EventKey(k)>> \in events
  PROVE  <<t, k>> \in emitted
<1>1. PICK j \in AllKinds : <<t, j>> \in emitted /\ EventKey(j) = EventKey(k)
  BY DEF CallbackInv, EventInv
<1>2. <<t, j>> \in emitted' /\ k \in AllKinds
  BY <1>1, KindAssumption
  DEF Next, CallingBack, HandlerStep, Emit, Arrive, RecordEvent, ApplyCallback,
      SuppressAddress, CrashHandler
<1>3. j = k \/ (j \in FinalEmail /\ k \in FinalEmail)
  BY <1>1, <1>2 DEF EventKey, AllKinds, FinalEmail, LaterEmail, FinalSms, EarlySms
<1> QED
  BY <1>1, <1>2, <1>3, EmitStep DEF EmitInv

\* Handlers that race may leave a row with the other's outcome; what they never
\* lose is the rest: however callbacks are ordered, repeated and interleaved, and
\* whatever fails elsewhere, a recorded hard bounce, complaint or unsubscription
\* has its address on the suppression list and a recorded opening its time.
RecordedKeepsMarks ==
  \A t \in Target, k \in Kind :
    /\ Handled
    /\ <<t, k>> \in emitted /\ <<t, EventKey(k)>> \in events /\ ~InProgress(t, k)
    => Marked(t, k)

LEMMA MarksStep ==
  ASSUME CallbackInv, RecordedKeepsMarks, [Next]_vars
  PROVE  RecordedKeepsMarks'
<1> SUFFICES ASSUME NEW t \in Target, NEW k \in Kind, Handled',
                    <<t, k>> \in emitted', <<t, EventKey(k)>> \in events',
                    ~InProgress(t, k)'
             PROVE  Marked(t, k)'
  BY DEF RecordedKeepsMarks
<1>1. <<t, EventKey(k)>> \in events /\ <<t, k>> \in emitted
  BY NewlyRecorded, SentBefore
<1>2. CASE ~InProgress(t, k)
  BY <1>1, <1>2, HandledBefore, MarksStay DEF RecordedKeepsMarks, Marked
<1>3. CASE InProgress(t, k)
  <2>1. PICK h \in Handler :
          /\ hmsg[h] = t /\ hkind[h] = k
          /\ SuppressAddress(h) \/ (ApplyCallback(h) /\ k \notin Suppressing)
    BY <1>1, <1>3, HandledBefore, WhoFinishes
  <2>2. CASE ApplyCallback(h) /\ k \notin Suppressing
    BY <2>1, <2>2 DEF ApplyCallback, Engaging, Marked
  <2>3. CASE SuppressAddress(h)
    <3>1. k \in Suppressing /\ k \notin Engaging
      BY <2>1, <2>3 DEF CallbackInv, EventInv, SuppressAddress, Suppressing, Engaging
    <3>2. AddSuppression(t)
      <4>1. ~Fault("callback")
        BY FaultsStay DEF Handled, Fault
      <4> QED
        BY <2>1, <2>3, <4>1 DEF SuppressAddress
    <3>3. supp'[t] # "absent"
      BY <3>2 DEF AddSuppression, CallbackInv, DeliveryInv, TypeOK, StoreTypeOK
    <3> QED
      BY <3>1, <3>3 DEF Marked
  <2> QED
    BY <2>1, <2>2, <2>3
<1> QED
  BY <1>2, <1>3

\* No race of handlers and no failure of a worker or publisher loses a
\* suppression: it is lost only when a handler fails after it recorded the event.
THEOREM RecordedSuppressionsStay == Spec => []RecordedKeepsMarks
<1>1. Init => RecordedKeepsMarks
  BY DEF Init, CallbackInit, RecordedKeepsMarks
<1>2. CallbackInv /\ RecordedKeepsMarks /\ [Next]_vars => RecordedKeepsMarks'
  BY MarksStep
<1> QED
  BY <1>1, <1>2, CallbackInvariant, PTL DEF Spec

\* The row is where callback k leaves it, or further.
Stands(t, k) == StatusOrder(row[t]) >= StatusOrder(LeastStatus(k))

\* While nothing fails, that is so from the update on.
OutcomeInv ==
  faults = 0 =>
    /\ \A h \in Handler : hpc[h] = "suppress" => Stands(hmsg[h], hkind[h])
    /\ \A t \in Target, k \in Kind \ Engaging :
         /\ <<t, k>> \in emitted /\ <<t, EventKey(k)>> \in events
         /\ ~InProgress(t, k)
         => Stands(t, k)

\* What a callback wrote stands, whatever other callbacks of the message write
\* over it: only a delivery goes back, and not behind an outcome sent instead.
LEMMA OutcomeStands ==
  ASSUME CallbackInv, [Next]_vars, ~Troubled, NEW t \in ext,
         NEW k \in AllKinds \ Engaging, <<t, k>> \in emitted, Stands(t, k)
  PROVE  Stands(t, k)'
<1> USE DEF CallbackInv
<1>1. t \in Target
  BY DEF DeliveryInv, TypeOK, StoreTypeOK
<1>2. LeastStatus(k) \in {"sending", "sent", "delivered", "failed"}
  BY DEF LeastStatus, StatusOf
<1>3. CASE row'[t] = row[t]
  BY <1>3 DEF Stands
<1>4. ASSUME NEW h \in Handler, ApplyCallback(h), hmsg[h] = t,
             row'[t] # row[t]
      PROVE  Stands(t, k)'
  <2>1. /\ hkind[h] \notin Engaging /\ row'[t] = StatusOf(hkind[h])
        /\ row'[t] \in {"delivered", "failed"}
    BY <1>4, ApplyWrites
  <2>2. CASE row'[t] = "failed"
    BY <1>2, <2>2, Orders DEF Stands
  <2>3. CASE row'[t] = "delivered"
    <3>1. hkind[h] \in {"Delivery", "delivered"}
      BY <2>1, <2>3 DEF StatusOf
    <3>2. <<t, hkind[h]>> \in emitted
      BY <1>4 DEF EventInv, ApplyCallback
    <3>3. hkind[h] \in Reports(ChannelOf(t)) /\ k \in Reports(ChannelOf(t))
      BY <1>1, <3>1, <3>2 DEF EmitInv, AllKinds, FinalEmail, FinalSms
    <3>4. k \in FinalEmail \cup FinalSms => k = hkind[h]
      BY <1>1, <3>1, <3>2, <3>3
      DEF EmitInv, Reports, FinalEmail, FinalSms, LaterEmail, EarlySms
    <3>5. LeastStatus(k) # "failed"
      BY <3>1, <3>4 DEF LeastStatus, StatusOf, AllKinds, FinalEmail, FinalSms,
                        LaterEmail, EarlySms, Engaging
    <3> QED
      BY <1>2, <2>3, <3>5, Orders DEF Stands
  <2> QED
    BY <2>1, <2>2, <2>3
<1> QED
  BY <1>3, <1>4, StoredRowMoves

\* Applying a callback puts the row where the callback leaves it.
LEMMA AppliedStands ==
  ASSUME CallbackInv, NEW h \in Handler, ApplyCallback(h), hkind[h] \notin Engaging
  PROVE  Stands(hmsg[h], hkind[h])'
<1>1. row'[hmsg[h]] = StatusOf(hkind[h]) /\ row'[hmsg[h]] \in {"delivered", "failed"}
  BY ApplyWrites
<1>2. hkind' = hkind /\ hmsg' = hmsg
  BY DEF ApplyCallback, GoHandler
<1> QED
  BY <1>1, <1>2, Orders DEF Stands, LeastStatus

LEMMA OutcomeStep ==
  ASSUME CallbackInv, OutcomeInv, [Next]_vars
  PROVE  OutcomeInv'
<1> SUFFICES ASSUME faults' = 0 PROVE OutcomeInv'
  BY DEF OutcomeInv
<1>1. faults = 0 /\ ~Troubled
  BY FaultsStay DEF Troubled
<1> USE DEF CallbackInv
<1>2. ASSUME NEW h \in Handler, hpc'[h] = "suppress"
      PROVE  Stands(hmsg[h], hkind[h])' /\ hmsg'[h] = hmsg[h] /\ hkind'[h] = hkind[h]
  <2>1. CASE ApplyCallback(h)
    <3>1. hkind[h] \in Suppressing /\ hkind' = hkind /\ hmsg' = hmsg
      BY <1>2, <2>1 DEF ApplyCallback, GoHandler, DeliveryInv, TypeOK, CallbackTypeOK
    <3> QED
      BY <2>1, <3>1, AppliedStands DEF Suppressing, Engaging
  <2>2. CASE ~ApplyCallback(h)
    <3>1. \A t \in Target, k \in Kind : ~Arrive(h, t, k)
      BY <1>2 DEF Arrive, DeliveryInv, TypeOK, CallbackTypeOK
    <3>2. hpc[h] = "suppress" /\ hmsg'[h] = hmsg[h] /\ hkind'[h] = hkind[h]
      BY <1>2, <2>2, <3>1, HandlerGoesOn DEF DeliveryInv, TypeOK
    <3>3. /\ hmsg[h] \in ext /\ hkind[h] \in AllKinds \ Engaging
          /\ <<hmsg[h], hkind[h]>> \in emitted
      BY <3>2 DEF DeliveryInv, SendInv, EventInv, Suppressing, Engaging, TypeOK,
                  CallbackTypeOK
    <3>4. Stands(hmsg[h], hkind[h])
      BY <1>1, <3>2 DEF OutcomeInv
    <3>5. row'[hmsg'[h]] = row'[hmsg[h]]
      BY <3>2
    <3> QED
      BY <1>1, <3>2, <3>3, <3>4, OutcomeStands DEF Stands
  <2> QED
    BY <2>1, <2>2
<1>3. ASSUME NEW t \in Target, NEW k \in Kind \ Engaging,
             <<t, k>> \in emitted', <<t, EventKey(k)>> \in events',
             ~InProgress(t, k)'
      PROVE  Stands(t, k)'
  <2>1. /\ <<t, EventKey(k)>> \in events /\ <<t, k>> \in emitted
        /\ t \in ext /\ k \in AllKinds \ Engaging
    BY <1>3, NewlyRecorded, SentBefore, KindAssumption DEF EventInv
  <2>2. CASE ~InProgress(t, k)
    BY <1>1, <2>1, <2>2, OutcomeStands DEF OutcomeInv
  <2>3. CASE InProgress(t, k)
    <3>1. \A h \in Handler : ~CrashHandler(h)
      BY <1>1 DEF CrashHandler, Fault
    <3>2. PICK h \in Handler :
            /\ hmsg[h] = t /\ hkind[h] = k
            /\ SuppressAddress(h) \/ (ApplyCallback(h) /\ k \notin Suppressing)
      BY <1>3, <2>1, <2>3, <3>1, WhoFinishes
    <3>3. CASE ApplyCallback(h)
      BY <3>2, <3>3, ApplyWrites, Orders DEF Stands, LeastStatus
    <3>4. CASE SuppressAddress(h)
      BY <1>1, <2>1, <3>2, <3>4, OutcomeStands DEF OutcomeInv, SuppressAddress
    <3> QED
      BY <3>2, <3>3, <3>4
  <2> QED
    BY <2>2, <2>3
<1> QED
  BY <1>2, <1>3 DEF OutcomeInv, Stands

\* While nothing fails, a callback whose event is recorded has left its mark on
\* the row and on the suppression list, unless its handler is still at it,
\* however many handlers race.
THEOREM RecordedAreApplied == Spec => []RecordedIsApplied
<1>1. Init => OutcomeInv
  BY DEF Init, CallbackInit, OutcomeInv
<1>2. CallbackInv /\ OutcomeInv /\ [Next]_vars => OutcomeInv'
  BY OutcomeStep
<1>3. RecordedKeepsMarks /\ OutcomeInv => RecordedIsApplied
  BY DEF RecordedKeepsMarks, OutcomeInv, Stands, RecordedIsApplied, Handled, Marked,
         Engaging
<1> QED
  BY <1>1, <1>2, <1>3, CallbackInvariant, RecordedSuppressionsStay, PTL DEF Spec
=============================================================================
