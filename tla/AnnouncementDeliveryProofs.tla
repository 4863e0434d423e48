---------------------- MODULE AnnouncementDeliveryProofs ----------------------
(***************************************************************************)
(* What holds of the delivery pipeline for any number of recipients,       *)
(* publishers, workers, callback handlers, attempts and faults.            *)
(***************************************************************************)
EXTENDS AnnouncementDelivery, TLAPS

USE DEF vars, storeVars, publisherVars, workerVars, callbackVars

-----------------------------------------------------------------------------
(* Types.                                                                  *)

LEMMA TargetNotEmpty == Target # {}
<1>1. PICK u \in User, c \in Channel : TRUE
  BY DeliveryAssumption
<1>2. <<u, c>> \in Target
  BY <1>1 DEF Target
<1> QED
  BY <1>2

LEMMA PublishingTyped ==
  ASSUME TypeOK, Publishing, UNCHANGED <<workerVars, callbackVars>>
  PROVE  TypeOK'
<1> USE DEF TypeOK, StoreTypeOK, PublisherTypeOK, WorkerTypeOK, CallbackTypeOK,
            RowStatus, JobState, PublisherPC, GoPublisher, SetRow, Fault
<1> PICK p \in Publisher : PublisherStep(p) \/ AbortCall(p)
  BY DEF Publishing
<1>1. CASE ReadAudience(p)
  BY <1>1 DEF ReadAudience
<1>2. CASE DropSuppressed(p)
  BY <1>2 DEF DropSuppressed
<1>3. CASE StartSending(p) \/ Return(p)
  BY <1>3 DEF StartSending, Return
<1>4. ASSUME NEW t \in Target, CreateRow(p, t)
      PROVE  TypeOK'
  BY <1>4 DEF CreateRow
<1>5. ASSUME NEW t \in Target, SendJob(p, t)
      PROVE  TypeOK'
  BY <1>5 DEF SendJob
<1>6. CASE AbortCall(p)
  BY <1>6, DeliveryAssumption DEF AbortCall
<1> QED
  BY <1>1, <1>2, <1>3, <1>4, <1>5, <1>6 DEF PublisherStep

LEMMA ConsumingTyped ==
  ASSUME TypeOK, Consuming, UNCHANGED <<publisherVars, callbackVars>>
  PROVE  TypeOK'
<1> USE DeliveryAssumption
    DEF TypeOK, StoreTypeOK, PublisherTypeOK, WorkerTypeOK, CallbackTypeOK,
        RowStatus, JobState, SuppState, Cause, OutsidePC, PreSendPC, PostSendPC,
        SkipReason, FailReason, GoWorker, SetRow, Fault, AddSuppression
<1>1. ASSUME NEW w \in Worker, NEW t \in Target, Receive(w, t)
      PROVE  TypeOK'
  BY <1>1 DEF Receive
<1>2. ASSUME NEW w \in Worker, Fetch(w) \/ RecordSending(w) \/ LoadRecipient(w)
                               \/ CheckSuppression(w) \/ RecordSent(w) \/ Retry(w)
      PROVE  TypeOK'
  BY <1>2 DEF Fetch, RecordSending, LoadRecipient, CheckSuppression, RecordSent,
              Retry
<1>3. ASSUME NEW w \in Worker, Claim(w)
      PROVE  TypeOK'
  <2>1. Blocked(wjob[w]) \subseteq Target \X Cause
    BY DEF Blocked
  <2> QED
    BY <1>3, <2>1 DEF Claim
<1>4. ASSUME NEW w \in Worker, Transmit(w)
      PROVE  TypeOK'
  BY <1>4 DEF Transmit, Refusals
<1>5. ASSUME NEW w \in Worker, StoreSent(w) \/ MarkStatus(w)
      PROVE  TypeOK'
  BY <1>5 DEF StoreSent, MarkStatus
<1>5a. ASSUME NEW w \in Worker, RecordMark(w)
      PROVE  TypeOK'
  <2>1. PICK next \in {"retry", "unsub", "ack"} : GoWorker(w, next, "none")
    BY <1>5a DEF RecordMark
  <2> QED
    BY <1>5a, <2>1 DEF RecordMark
<1>6. ASSUME NEW w \in Worker, SuppressNumber(w) \/ Ack(w)
      PROVE  TypeOK'
  BY <1>6 DEF SuppressNumber, Ack
<1>7. ASSUME NEW w \in Worker, WorkerFault(w)
      PROVE  TypeOK'
  <2>1. CASE ThrowToConsumer(w)
    BY <2>1 DEF ThrowToConsumer
  <2>2. CASE ThrowInTry(w)
    BY <2>2 DEF ThrowInTry
  <2>3. CASE LoseResponse(w)
    BY <2>3 DEF LoseResponse
  <2>4. CASE CrashWorker(w)
    BY <2>4 DEF CrashWorker
  <2> QED
    BY <1>7, <2>1, <2>2, <2>3, <2>4 DEF WorkerFault
<1>8. ASSUME NEW t \in Target, DeadLetter(t) \/ Redrive(t)
      PROVE  TypeOK'
  BY <1>8 DEF DeadLetter, Redrive
<1> QED
  BY <1>1, <1>2, <1>3, <1>4, <1>5, <1>5a, <1>6, <1>7, <1>8
  DEF Consuming, WorkerStep

LEMMA CallingBackTyped ==
  ASSUME TypeOK, CallingBack, UNCHANGED <<publisherVars, workerVars>>
  PROVE  TypeOK'
<1> USE DeliveryAssumption, KindAssumption
    DEF TypeOK, StoreTypeOK, PublisherTypeOK, WorkerTypeOK, CallbackTypeOK,
        RowStatus, SuppState, HandlerPC, GoHandler, SetRow, Fault, AddSuppression
<1>1. ASSUME NEW t \in Target, NEW k \in Kind, Emit(t, k)
      PROVE  TypeOK'
  BY <1>1 DEF Emit
<1>2. ASSUME NEW h \in Handler, NEW t \in Target, NEW k \in Kind, Arrive(h, t, k)
      PROVE  TypeOK'
  BY <1>2 DEF Arrive
<1>3. ASSUME NEW h \in Handler, RecordEvent(h)
      PROVE  TypeOK'
  <2>1. EventKey(hkind[h]) \in AllKinds \cup {"Bounce", "failed"}
    BY DEF EventKey
  <2> QED
    BY <1>3, <2>1 DEF RecordEvent
<1>4. ASSUME NEW h \in Handler, ApplyCallback(h)
      PROVE  TypeOK'
  BY <1>4 DEF ApplyCallback, StatusOf
<1>5. ASSUME NEW h \in Handler, SuppressAddress(h) \/ CrashHandler(h)
      PROVE  TypeOK'
  BY <1>5 DEF SuppressAddress, CrashHandler
<1> QED
  BY <1>1, <1>2, <1>3, <1>4, <1>5 DEF CallingBack, HandlerStep

LEMMA RecipientsTyped ==
  ASSUME TypeOK, Recipients, UNCHANGED <<publisherVars, workerVars, callbackVars>>
  PROVE  TypeOK'
<1> USE DeliveryAssumption
    DEF TypeOK, StoreTypeOK, PublisherTypeOK, WorkerTypeOK, CallbackTypeOK,
        SuppState, AddSuppression, Target
<1>1. ASSUME NEW u \in Restless, DeactivateUser(u) \/ ReactivateUser(u)
      PROVE  TypeOK'
  BY <1>1 DEF DeactivateUser, ReactivateUser
<1>2. ASSUME NEW t \in Restless \X Channel,
             LeaveAudience(t) \/ InboundStop(t) \/ InboundStart(t)
      PROVE  TypeOK'
  BY <1>2 DEF LeaveAudience, InboundStop, InboundStart
<1>3. ASSUME NEW t \in Target, BounceElsewhere(t)
      PROVE  TypeOK'
  BY <1>3 DEF BounceElsewhere
<1> QED
  BY <1>1, <1>2, <1>3 DEF Recipients

LEMMA InitTyped == Init => TypeOK
<1> SUFFICES ASSUME Init PROVE TypeOK
  OBVIOUS
<1>1. StoreTypeOK
  BY DeliveryAssumption
  DEF Init, StoreInit, StoreTypeOK, RowStatus, JobState, SuppState
<1>2. PublisherTypeOK
  BY DEF Init, PublisherInit, PublisherTypeOK, PublisherPC
<1>3. WorkerTypeOK
  BY TargetNotEmpty DEF Init, WorkerInit, WorkerTypeOK, OutsidePC
<1>4. CallbackTypeOK
  <2>1. AllKinds # {}
    BY DEF AllKinds, FinalEmail
  <2> QED
    BY <2>1, TargetNotEmpty DEF Init, CallbackInit, CallbackTypeOK, HandlerPC
<1> QED
  BY <1>1, <1>2, <1>3, <1>4 DEF TypeOK

LEMMA StutterTyped == TypeOK /\ UNCHANGED vars => TypeOK'
  BY DEF TypeOK, StoreTypeOK, PublisherTypeOK, WorkerTypeOK, CallbackTypeOK

LEMMA NextTyped == TypeOK /\ [Next]_vars => TypeOK'
  BY PublishingTyped, ConsumingTyped, CallingBackTyped, RecipientsTyped,
     StutterTyped
  DEF Next

\* Every reachable state of the pipeline is well typed: rows, suppression
\* entries, queue messages and handlers only take the values the code knows,
\* and no message is delivered more than MaxAttempts times.
THEOREM TypeCorrect == Spec => []TypeOK
  BY InitTyped, NextTyped, PTL DEF Spec
-----------------------------------------------------------------------------
(* The inductive invariant: who may touch a row, what the providers have,  *)
(* where a row's message is, and who is barred.                            *)

\* A row is claimed once it exists and is no longer queued; it stays so.
IsClaimed(t) == row[t] \notin {"none", "queued"}

\* Between claim and final status a row has one owner, and until the provider
\* is asked nobody else writes it.
OwnerInv ==
  /\ ClaimIsExclusive
  /\ \A w \in Worker :
       /\ wpc[w] \in PreSendPC => row[wjob[w]] = "sending"
       /\ wpc[w] \in PostSendPC \cup {"unsub", "ack"} => IsClaimed(wjob[w])

\* What the providers hold agrees with the rows and with where workers stand.
SendInv ==
  /\ AtMostOneSend
  /\ SuccessIsReal
  /\ \A t \in Target : ~IsClaimed(t) => accepted[t] = 0
  /\ \A t \in ext : accepted[t] = 1
  /\ \A w \in Worker :
       /\ wpc[w] \in PreSendPC => accepted[wjob[w]] = 0
       /\ wpc[w] = "store" => accepted[wjob[w]] = 1
  /\ \A h \in Handler : hpc[h] # "idle" => hmsg[h] \in ext

\* Messages and those who handle them belong to rows; no queued row is lost.
QueueInv ==
  /\ JobHasRow
  /\ NothingForgotten
  /\ \A p \in Publisher : \A t \in jobs[p] : row[t] # "none"
  /\ \A w \in Worker : wpc[w] # "idle" => row[wjob[w]] # "none"

\* A barred target is blocked still, and its worker got no further than the
\* check of that cause.
BarredInv ==
  /\ \A t \in Target :
       /\ <<t, "account">> \in barred => UserOf(t) \notin active
       /\ <<t, "suppression">> \in barred => Suppressed(t)
  /\ \A w \in Worker :
       /\ wpc[w] \in {"check", "send", "store"} => <<wjob[w], "account">> \notin barred
       /\ wpc[w] \in {"send", "store"} => <<wjob[w], "suppression">> \notin barred

DeliveryInv == TypeOK /\ OwnerInv /\ SendInv /\ QueueInv /\ BarredInv

-----------------------------------------------------------------------------
(* Each part is kept by every step.                                        *)

LEMMA InitInv == Init => DeliveryInv
<1> SUFFICES ASSUME Init PROVE DeliveryInv
  OBVIOUS
<1>1. TypeOK
  BY InitTyped
<1>2. OwnerInv
  BY DEF Init, WorkerInit, OwnerInv, ClaimIsExclusive, Owns, PreSendPC, PostSendPC
<1>3. SendInv
  BY DEF Init, StoreInit, WorkerInit, CallbackInit, SendInv, AtMostOneSend,
         SuccessIsReal, IsClaimed, PreSendPC
<1>4. QueueInv
  BY DEF Init, StoreInit, PublisherInit, WorkerInit, QueueInv, JobHasRow,
         NothingForgotten
<1>5. BarredInv
  BY DEF Init, StoreInit, WorkerInit, BarredInv
<1> QED
  BY <1>1, <1>2, <1>3, <1>4, <1>5 DEF DeliveryInv

\* Only the worker module moves workers, and it moves one at a time.
LEMMA OwnerStep == DeliveryInv /\ [Next]_vars => OwnerInv'
<1> SUFFICES ASSUME DeliveryInv, [Next]_vars PROVE OwnerInv'
  OBVIOUS
<1> USE DEF DeliveryInv, TypeOK, StoreTypeOK, WorkerTypeOK, OwnerInv,
            ClaimIsExclusive, Owns, IsClaimed, OutsidePC, PreSendPC, PostSendPC,
            GoWorker, SetRow
<1>1. CASE Publishing /\ UNCHANGED <<workerVars, callbackVars>>
  <2>1. \A t \in Target : row'[t] = row[t] \/ (row[t] = "none" /\ row'[t] = "queued")
    BY <1>1 DEF Publishing, PublisherStep, ReadAudience, DropSuppressed,
                StartSending, Return, CreateRow, SendJob, AbortCall
  <2> QED
    BY <1>1, <2>1 DEF QueueInv
<1>2. CASE Consuming /\ UNCHANGED <<publisherVars, callbackVars>>
  <2>1. ASSUME NEW w \in Worker, NEW t \in Target, Receive(w, t)
        PROVE  OwnerInv'
    BY <2>1 DEF Receive
  <2>2. ASSUME NEW w \in Worker, Fetch(w)
        PROVE  OwnerInv'
    BY <2>2 DEF Fetch, QueueInv, SendInv
  <2>3. ASSUME NEW w \in Worker, Claim(w)
        PROVE  OwnerInv'
    <3>1. CASE row[wjob[w]] = "queued"
      <4>1. \A v \in Worker : ~Owns(v, wjob[w])
        BY <3>1
      <4>2. /\ row' = [row EXCEPT ![wjob[w]] = "sending"]
            /\ wpc' = [wpc EXCEPT ![w] = "begin"] /\ wjob' = wjob
        BY <2>3, <3>1 DEF Claim
      <4>3. ClaimIsExclusive'
        BY <4>1, <4>2
      <4> QED
        BY <4>2, <4>3
    <3>2. CASE row[wjob[w]] # "queued"
      <4>1. /\ row' = row
            /\ wpc' = [wpc EXCEPT ![w] = "ack"] /\ wjob' = wjob
        BY <2>3, <3>2 DEF Claim
      <4>2. row[wjob[w]] # "none"
        BY <2>3 DEF Claim, QueueInv
      <4> QED
        BY <3>2, <4>1, <4>2
    <3> QED
      BY <3>1, <3>2
  <2>4. ASSUME NEW w \in Worker, RecordSending(w) \/ LoadRecipient(w)
                                 \/ CheckSuppression(w) \/ RecordSent(w)
        PROVE  OwnerInv'
    BY <2>4 DEF RecordSending, LoadRecipient, CheckSuppression, RecordSent
  <2>5. ASSUME NEW w \in Worker, Transmit(w)
        PROVE  OwnerInv'
    BY <2>5 DEF Transmit
  <2>6. ASSUME NEW w \in Worker, StoreSent(w) \/ MarkStatus(w)
        PROVE  OwnerInv'
    <3>1. PICK s \in {"sent", "failed", "suppressed"}, next \in {"log", "note"} :
            /\ row' = [row EXCEPT ![wjob[w]] = s]
            /\ wpc' = [wpc EXCEPT ![w] = next] /\ wjob' = wjob
      BY <2>6 DEF StoreSent, MarkStatus
    <3>2. Owns(w, wjob[w])
      BY <2>6 DEF StoreSent, MarkStatus
    <3>3. ClaimIsExclusive'
      BY <3>1, <3>2
    <3>4. \A v \in Worker : v # w => ~Owns(v, wjob[w])
      BY <3>2
    <3> QED
      BY <3>1, <3>3, <3>4
  <2>7. ASSUME NEW w \in Worker, RecordMark(w) \/ SuppressNumber(w)
        PROVE  OwnerInv'
    BY <2>7 DEF RecordMark, SuppressNumber
  <2>8. ASSUME NEW w \in Worker, Ack(w) \/ Retry(w)
        PROVE  OwnerInv'
    BY <2>8 DEF Ack, Retry
  <2>9. ASSUME NEW w \in Worker, ThrowToConsumer(w) \/ CrashWorker(w)
        PROVE  OwnerInv'
    <3>1. PICK next \in {"retry", "idle"} :
            wpc' = [wpc EXCEPT ![w] = next] /\ wjob' = wjob /\ row' = row
      BY <2>9 DEF ThrowToConsumer, CrashWorker
    <3> QED
      BY <3>1
  <2>10. ASSUME NEW w \in Worker, ThrowInTry(w) \/ LoseResponse(w)
         PROVE  OwnerInv'
    BY <2>10 DEF ThrowInTry, LoseResponse
  <2>11. ASSUME NEW t \in Target, DeadLetter(t) \/ Redrive(t)
         PROVE  OwnerInv'
    BY <2>11 DEF DeadLetter, Redrive
  <2> QED
    BY <1>2, <2>1, <2>2, <2>3, <2>4, <2>5, <2>6, <2>7, <2>8, <2>9, <2>10, <2>11
    DEF Consuming, WorkerStep, WorkerFault
<1>3. CASE CallingBack /\ UNCHANGED <<publisherVars, workerVars>>
  <2>1. \A t \in Target :
          row'[t] = row[t] \/ (t \in ext /\ row'[t] \notin {"none", "queued"})
    <3>1. ASSUME NEW h \in Handler, ApplyCallback(h)
          PROVE  \A t \in Target : row'[t] = row[t]
                                   \/ (t \in ext /\ row'[t] \notin {"none", "queued"})
      BY <3>1 DEF ApplyCallback, StatusOf, SendInv, CallbackTypeOK
    <3>2. CASE \A h \in Handler : ~ApplyCallback(h)
      BY <1>3, <3>2 DEF CallingBack, HandlerStep, Emit, Arrive, RecordEvent,
                        SuppressAddress, CrashHandler
    <3> QED
      BY <3>1, <3>2
  <2> QED
    BY <1>3, <2>1 DEF SendInv
<1>4. CASE Recipients /\ UNCHANGED <<publisherVars, workerVars, callbackVars>>
  <2>1. UNCHANGED row
    BY <1>4 DEF Recipients, DeactivateUser, ReactivateUser, LeaveAudience,
                BounceElsewhere, InboundStop, InboundStart
  <2> QED
    BY <1>4, <2>1
<1>5. CASE UNCHANGED vars
  BY <1>5
<1> QED
  BY <1>1, <1>2, <1>3, <1>4, <1>5 DEF Next

\* A provider is asked once, by the owner of the row.
LEMMA SendStep == DeliveryInv /\ [Next]_vars => SendInv'
<1> SUFFICES ASSUME DeliveryInv, [Next]_vars PROVE SendInv'
  OBVIOUS
<1> USE DEF DeliveryInv, TypeOK, StoreTypeOK, WorkerTypeOK, SendInv, AtMostOneSend,
            SuccessIsReal, IsClaimed, OutsidePC, PreSendPC, PostSendPC, GoWorker,
            SetRow
<1>1. CASE Publishing /\ UNCHANGED <<workerVars, callbackVars>>
  <2>1. /\ \A t \in Target : row'[t] = row[t] \/ (row[t] = "none" /\ row'[t] = "queued")
        /\ UNCHANGED <<accepted, ext>>
    BY <1>1 DEF Publishing, PublisherStep, ReadAudience, DropSuppressed,
                StartSending, Return, CreateRow, SendJob, AbortCall
  <2> QED
    BY <1>1, <2>1
<1>2. CASE Consuming /\ UNCHANGED <<publisherVars, callbackVars>>
  <2>1. ASSUME NEW w \in Worker, NEW t \in Target, Receive(w, t)
        PROVE  SendInv'
    BY <1>2, <2>1 DEF Receive
  <2>2. ASSUME NEW w \in Worker, Claim(w)
        PROVE  SendInv'
    <3>1. CASE row[wjob[w]] = "queued"
      BY <1>2, <2>2, <3>1 DEF Claim
    <3>2. CASE row[wjob[w]] # "queued"
      BY <1>2, <2>2, <3>2 DEF Claim
    <3> QED
      BY <3>1, <3>2
  <2>3. ASSUME NEW w \in Worker,
               Fetch(w) \/ RecordSending(w) \/ LoadRecipient(w)
                 \/ CheckSuppression(w) \/ RecordSent(w) \/ RecordMark(w)
                 \/ SuppressNumber(w) \/ Ack(w) \/ Retry(w)
        PROVE  SendInv'
    <3>1. UNCHANGED <<row, ext, accepted, wjob>>
      BY <2>3 DEF Fetch, RecordSending, LoadRecipient, CheckSuppression,
                  RecordSent, RecordMark, SuppressNumber, Ack, Retry
    <3>2. PICK next \in {"ack", "claim", "load", "check", "mark", "send", "retry",
                         "unsub", "idle"} :
            /\ wpc' = [wpc EXCEPT ![w] = next]
            /\ next \in PreSendPC => wpc[w] \in PreSendPC
      BY <2>3 DEF Fetch, RecordSending, LoadRecipient, CheckSuppression,
                  RecordSent, RecordMark, SuppressNumber, Ack, Retry
    <3> QED
      BY <1>2, <3>1, <3>2
  <2>4. ASSUME NEW w \in Worker, Transmit(w) \/ LoseResponse(w)
        PROVE  SendInv'
    <3>1. PICK next \in {"store", "mark"} :
            /\ wpc' = [wpc EXCEPT ![w] = next] /\ UNCHANGED <<row, ext, wjob>>
            /\ \/ accepted' = [accepted EXCEPT ![wjob[w]] = @ + 1]
               \/ accepted' = accepted /\ next = "mark"
      BY <2>4 DEF Transmit, LoseResponse
    <3>2. wpc[w] = "send" /\ accepted[wjob[w]] = 0 /\ row[wjob[w]] = "sending"
      BY <2>4 DEF Transmit, LoseResponse, OwnerInv
    <3>3. \A v \in Worker : v # w /\ wpc[v] \in PreSendPC \cup PostSendPC
            => wjob[v] # wjob[w]
      BY <3>2 DEF OwnerInv, ClaimIsExclusive, Owns
    <3>4. CASE accepted' = [accepted EXCEPT ![wjob[w]] = @ + 1]
      BY <1>2, <3>1, <3>2, <3>3, <3>4
    <3>5. CASE accepted' = accepted /\ next = "mark"
      BY <1>2, <3>1, <3>2, <3>3, <3>5
    <3> QED
      BY <3>1, <3>4, <3>5
  <2>5. ASSUME NEW w \in Worker, StoreSent(w)
        PROVE  SendInv'
    BY <1>2, <2>5 DEF StoreSent
  <2>6. ASSUME NEW w \in Worker, MarkStatus(w)
        PROVE  SendInv'
    <3>1. PICK s \in {"failed", "suppressed"} : row' = [row EXCEPT ![wjob[w]] = s]
      BY <2>6 DEF MarkStatus
    <3>2. /\ wpc[w] = "mark" /\ wpc' = [wpc EXCEPT ![w] = "note"]
          /\ UNCHANGED <<wjob, ext, accepted>>
      BY <2>6 DEF MarkStatus
    <3>3. IsClaimed(wjob[w])
      BY <3>2 DEF OwnerInv
    <3> QED
      BY <1>2, <3>1, <3>2, <3>3
  <2>7. ASSUME NEW w \in Worker, ThrowToConsumer(w) \/ ThrowInTry(w) \/ CrashWorker(w)
        PROVE  SendInv'
    <3>1. PICK next \in {"retry", "idle", "mark"} :
            /\ wpc' = [wpc EXCEPT ![w] = next]
            /\ UNCHANGED <<wjob, row, ext, accepted>>
      BY <2>7 DEF ThrowToConsumer, ThrowInTry, CrashWorker
    <3> QED
      BY <1>2, <3>1
  <2>8. ASSUME NEW t \in Target, DeadLetter(t) \/ Redrive(t)
        PROVE  SendInv'
    BY <1>2, <2>8 DEF DeadLetter, Redrive
  <2> QED
    BY <1>2, <2>1, <2>2, <2>3, <2>4, <2>5, <2>6, <2>7, <2>8
    DEF Consuming, WorkerStep, WorkerFault
<1>3. CASE CallingBack /\ UNCHANGED <<publisherVars, workerVars>>
  <2>1. UNCHANGED <<accepted, ext>>
    BY <1>3 DEF CallingBack, HandlerStep, Emit, Arrive, RecordEvent, ApplyCallback,
                SuppressAddress, CrashHandler
  <2>2. \A t \in Target :
          row'[t] = row[t] \/ (t \in ext /\ row'[t] \notin {"none", "queued"})
    <3>1. ASSUME NEW h \in Handler, ApplyCallback(h)
          PROVE  \A t \in Target : row'[t] = row[t]
                                   \/ (t \in ext /\ row'[t] \notin {"none", "queued"})
      BY <3>1 DEF ApplyCallback, StatusOf, CallbackTypeOK
    <3>2. CASE \A h \in Handler : ~ApplyCallback(h)
      BY <1>3, <3>2 DEF CallingBack, HandlerStep, Emit, Arrive, RecordEvent,
                        SuppressAddress, CrashHandler
    <3> QED
      BY <3>1, <3>2
  <2>3. \A h \in Handler : hpc'[h] # "idle" => hmsg'[h] \in ext
    BY <1>3 DEF CallingBack, HandlerStep, Emit, Arrive, RecordEvent, ApplyCallback,
                SuppressAddress, CrashHandler, GoHandler, CallbackTypeOK
  <2> QED
    BY <1>3, <2>1, <2>2, <2>3
<1>4. CASE Recipients /\ UNCHANGED <<publisherVars, workerVars, callbackVars>>
  <2>1. UNCHANGED <<row, ext, accepted>>
    BY <1>4 DEF Recipients, DeactivateUser, ReactivateUser, LeaveAudience,
                BounceElsewhere, InboundStop, InboundStart
  <2> QED
    BY <1>4, <2>1
<1>5. CASE UNCHANGED vars
  BY <1>5
<1> QED
  BY <1>1, <1>2, <1>3, <1>4, <1>5 DEF Next

\* Nothing sets a row back to none or queued.
LEMMA RowsAdvance ==
  ASSUME DeliveryInv, [Next]_vars, NEW t \in Target
  PROVE  /\ row[t] # "none" => row'[t] # "none"
         /\ row'[t] = "queued" => row[t] \in {"none", "queued"}
<1> USE DEF DeliveryInv, TypeOK, StoreTypeOK, WorkerTypeOK, SetRow
<1>1. CASE Publishing
  BY <1>1 DEF Publishing, PublisherStep, ReadAudience, DropSuppressed, StartSending,
              Return, CreateRow, SendJob, AbortCall
<1>2. ASSUME NEW w \in Worker, Claim(w)
      PROVE  row'[t] = row[t] \/ row'[t] = "sending"
  BY <1>2 DEF Claim
<1>3. ASSUME NEW w \in Worker, StoreSent(w) \/ MarkStatus(w)
      PROVE  row'[t] = row[t] \/ row'[t] \in {"sent", "failed", "suppressed"}
  <2>1. PICK s \in {"sent", "failed", "suppressed"} : row' = [row EXCEPT ![wjob[w]] = s]
    BY <1>3 DEF StoreSent, MarkStatus
  <2> QED
    BY <2>1
<1>4. CASE Consuming /\ \A w \in Worker : ~(Claim(w) \/ StoreSent(w) \/ MarkStatus(w))
  <2>1. row' = row
    BY <1>4 DEF Consuming, WorkerStep, WorkerFault, Receive, Fetch, RecordSending,
                LoadRecipient, CheckSuppression, Transmit, RecordSent, RecordMark,
                SuppressNumber, Ack, Retry, ThrowToConsumer, ThrowInTry, LoseResponse,
                CrashWorker, DeadLetter, Redrive
  <2> QED
    BY <2>1
<1>5. ASSUME NEW h \in Handler, ApplyCallback(h)
      PROVE  row'[t] = row[t] \/ row'[t] \in {"sending", "sent", "delivered", "failed"}
  BY <1>5 DEF ApplyCallback, StatusOf, CallbackTypeOK
<1>6. CASE CallingBack /\ \A h \in Handler : ~ApplyCallback(h)
  BY <1>6 DEF CallingBack, HandlerStep, Emit, Arrive, RecordEvent, SuppressAddress,
              CrashHandler
<1>7. CASE Recipients
  BY <1>7 DEF Recipients, DeactivateUser, ReactivateUser, LeaveAudience,
              BounceElsewhere, InboundStop, InboundStart
<1>8. CASE UNCHANGED vars
  BY <1>8
<1> QED
  BY <1>1, <1>2, <1>3, <1>4, <1>5, <1>6, <1>7, <1>8 DEF Next

\* Rows come before messages, and a message is given up only for a claimed row.
LEMMA QueueStep == DeliveryInv /\ [Next]_vars => QueueInv'
<1> SUFFICES ASSUME DeliveryInv, [Next]_vars PROVE QueueInv'
  OBVIOUS
<1>0. \A t \in Target : /\ row[t] # "none" => row'[t] # "none"
                        /\ row'[t] = "queued" => row[t] \in {"none", "queued"}
  BY RowsAdvance
<1> USE DEF DeliveryInv, TypeOK, StoreTypeOK, PublisherTypeOK, WorkerTypeOK, QueueInv,
            JobHasRow, NothingForgotten, OutsidePC, PreSendPC, PostSendPC, JobState,
            GoWorker, GoPublisher, SetRow
<1>1. ASSUME NEW p \in Publisher, PublisherStep(p) \/ AbortCall(p),
             UNCHANGED <<workerVars, callbackVars>>
      PROVE  QueueInv'
  <2>1. CASE ReadAudience(p) \/ DropSuppressed(p) \/ StartSending(p) \/ Return(p)
             \/ AbortCall(p)
    <3>1. UNCHANGED <<row, job, jobs>>
      BY <2>1 DEF ReadAudience, DropSuppressed, StartSending, Return, AbortCall
    <3> QED
      BY <1>1, <3>1
  <2>2. ASSUME NEW t \in Target, CreateRow(p, t)
        PROVE  QueueInv'
    <3>1. CASE row[t] = "none"
      BY <1>1, <2>2, <3>1 DEF CreateRow
    <3>2. CASE row[t] # "none"
      BY <1>1, <2>2, <3>2 DEF CreateRow
    <3> QED
      BY <3>1, <3>2
  <2>3. ASSUME NEW t \in Target, SendJob(p, t)
        PROVE  QueueInv'
    BY <1>1, <2>3 DEF SendJob
  <2> QED
    BY <1>1, <2>1, <2>2, <2>3 DEF PublisherStep
<1>2. CASE Consuming /\ UNCHANGED <<publisherVars, callbackVars>>
  <2>1. ASSUME NEW w \in Worker, NEW t \in Target, Receive(w, t)
        PROVE  QueueInv'
    BY <1>2, <2>1 DEF Receive
  <2>2. ASSUME NEW w \in Worker, Ack(w)
        PROVE  QueueInv'
    <3>1. IsClaimed(wjob[w])
      BY <2>2 DEF Ack, OwnerInv
    <3> QED
      BY <1>2, <2>2, <3>1 DEF Ack, IsClaimed
  <2>3. ASSUME NEW t \in Target, DeadLetter(t) \/ Redrive(t)
        PROVE  QueueInv'
    BY <1>2, <2>3 DEF DeadLetter, Redrive
  <2>4. ASSUME NEW w \in Worker, (WorkerStep(w) \/ WorkerFault(w)), ~Ack(w),
               \A t \in Target : ~Receive(w, t)
        PROVE  QueueInv'
    <3>1. UNCHANGED <<job, wjob, jobs>>
      BY <1>2, <2>4
      DEF WorkerStep, WorkerFault, Fetch, Claim, RecordSending, LoadRecipient,
          CheckSuppression, Transmit, StoreSent, RecordSent, MarkStatus, RecordMark,
          SuppressNumber, Retry, ThrowToConsumer, ThrowInTry, LoseResponse, CrashWorker
    <3>2. wpc[w] # "idle" /\ \A v \in Worker : v # w => wpc'[v] = wpc[v]
      BY <2>4
      DEF WorkerStep, WorkerFault, Fetch, Claim, RecordSending, LoadRecipient,
          CheckSuppression, Transmit, StoreSent, RecordSent, MarkStatus, RecordMark,
          SuppressNumber, Retry, ThrowToConsumer, ThrowInTry, LoseResponse, CrashWorker
    <3>3. \A t \in Target : row'[t] = "queued" => row[t] = "queued"
      BY <2>4
      DEF WorkerStep, WorkerFault, Fetch, Claim, RecordSending, LoadRecipient,
          CheckSuppression, Transmit, StoreSent, RecordSent, MarkStatus, RecordMark,
          SuppressNumber, Retry, ThrowToConsumer, ThrowInTry, LoseResponse, CrashWorker
    <3> QED
      BY <1>0, <3>1, <3>2, <3>3
  <2> QED
    BY <1>2, <2>1, <2>2, <2>3, <2>4 DEF Consuming
<1>3. CASE CallingBack /\ UNCHANGED <<publisherVars, workerVars>>
  <2>1. UNCHANGED job
    BY <1>3 DEF CallingBack, HandlerStep, Emit, Arrive, RecordEvent, ApplyCallback,
                SuppressAddress, CrashHandler
  <2>2. \A t \in Target : row'[t] = "queued" => row[t] = "queued"
    <3>1. ASSUME NEW h \in Handler, ApplyCallback(h)
          PROVE  \A t \in Target : row'[t] = "queued" => row[t] = "queued"
      BY <3>1 DEF ApplyCallback, StatusOf, CallbackTypeOK
    <3>2. CASE \A h \in Handler : ~ApplyCallback(h)
      BY <1>3, <3>2 DEF CallingBack, HandlerStep, Emit, Arrive, RecordEvent,
                        SuppressAddress, CrashHandler
    <3> QED
      BY <3>1, <3>2
  <2> QED
    BY <1>0, <1>3, <2>1, <2>2
<1>4. CASE Recipients /\ UNCHANGED <<publisherVars, workerVars, callbackVars>>
  <2>1. UNCHANGED <<row, job>>
    BY <1>4 DEF Recipients, DeactivateUser, ReactivateUser, LeaveAudience,
                BounceElsewhere, InboundStop, InboundStart
  <2> QED
    BY <1>4, <2>1
<1>5. CASE UNCHANGED vars
  BY <1>5
<1> QED
  BY <1>1, <1>2, <1>3, <1>4, <1>5 DEF Next, Publishing

\* An opt-out is only forgotten when it is taken back.
LEMMA BarredStep == DeliveryInv /\ [Next]_vars => BarredInv'
<1> SUFFICES ASSUME DeliveryInv, [Next]_vars PROVE BarredInv'
  OBVIOUS
<1> USE DEF DeliveryInv, TypeOK, StoreTypeOK, WorkerTypeOK, BarredInv, SuppState,
            Suppressed, AddSuppression, Target, UserOf, OutsidePC, PreSendPC,
            PostSendPC, GoWorker
<1>1. CASE Publishing /\ UNCHANGED <<workerVars, callbackVars>>
  <2>1. UNCHANGED <<supp, active, barred>>
    BY <1>1 DEF Publishing, PublisherStep, ReadAudience, DropSuppressed,
                StartSending, Return, CreateRow, SendJob, AbortCall
  <2> QED
    BY <1>1, <2>1
<1>2. CASE Consuming /\ UNCHANGED <<publisherVars, callbackVars>>
  <2>1. ASSUME NEW w \in Worker, NEW t \in Target, Receive(w, t)
        PROVE  BarredInv'
    BY <2>1 DEF Receive
  <2>2. ASSUME NEW w \in Worker, Claim(w)
        PROVE  BarredInv'
    <3>1. CASE row[wjob[w]] = "queued"
      <4>1. /\ barred' = barred \cup Blocked(wjob[w])
            /\ wpc' = [wpc EXCEPT ![w] = "begin"] /\ UNCHANGED <<wjob, active, supp>>
        BY <2>2, <3>1 DEF Claim
      <4>2. \A v \in Worker : v # w /\ wpc[v] \in {"check", "send", "store"}
              => wjob[v] # wjob[w]
        BY <3>1 DEF OwnerInv, IsClaimed
      <4> QED
        BY <4>1, <4>2 DEF Blocked
    <3>2. CASE row[wjob[w]] # "queued"
      BY <2>2, <3>2 DEF Claim
    <3> QED
      BY <3>1, <3>2
  <2>3. ASSUME NEW w \in Worker, LoadRecipient(w)
        PROVE  BarredInv'
    BY <2>3 DEF LoadRecipient
  <2>4. ASSUME NEW w \in Worker, CheckSuppression(w)
        PROVE  BarredInv'
    BY <2>4 DEF CheckSuppression
  <2>5. ASSUME NEW w \in Worker,
               Fetch(w) \/ RecordSending(w) \/ Transmit(w) \/ StoreSent(w)
                 \/ RecordSent(w) \/ MarkStatus(w) \/ RecordMark(w) \/ Ack(w)
                 \/ Retry(w) \/ WorkerFault(w)
        PROVE  BarredInv'
    <3>1. UNCHANGED <<supp, active, barred, wjob>>
      BY <2>5 DEF Fetch, RecordSending, Transmit, StoreSent, RecordSent, MarkStatus,
                  RecordMark, Ack, Retry, WorkerFault, ThrowToConsumer, ThrowInTry,
                  LoseResponse, CrashWorker
    <3>2. \A v \in Worker :
            /\ wpc'[v] = "check" => wpc[v] = "check"
            /\ wpc'[v] = "send" => wpc[v] = "send"
            /\ wpc'[v] = "store" => wpc[v] \in {"send", "store"}
      BY <2>5 DEF Fetch, RecordSending, Transmit, StoreSent, RecordSent, MarkStatus,
                  RecordMark, Ack, Retry, WorkerFault, ThrowToConsumer, ThrowInTry,
                  LoseResponse, CrashWorker
    <3> QED
      BY <3>1, <3>2
  <2>6. ASSUME NEW w \in Worker, SuppressNumber(w)
        PROVE  BarredInv'
    BY <2>6 DEF SuppressNumber
  <2>7. ASSUME NEW t \in Target, DeadLetter(t) \/ Redrive(t)
        PROVE  BarredInv'
    BY <2>7 DEF DeadLetter, Redrive
  <2> QED
    BY <1>2, <2>1, <2>2, <2>3, <2>4, <2>5, <2>6, <2>7 DEF Consuming, WorkerStep
<1>3. CASE CallingBack /\ UNCHANGED <<publisherVars, workerVars>>
  <2>1. UNCHANGED <<active, barred>>
    BY <1>3 DEF CallingBack, HandlerStep, Emit, Arrive, RecordEvent, ApplyCallback,
                SuppressAddress, CrashHandler
  <2>2. \A t \in Target : Suppressed(t) => Suppressed(t)'
    BY <1>3 DEF CallingBack, HandlerStep, Emit, Arrive, RecordEvent, ApplyCallback,
                SuppressAddress, CrashHandler
  <2> QED
    BY <1>3, <2>1, <2>2
<1>4. CASE Recipients /\ UNCHANGED <<publisherVars, workerVars, callbackVars>>
  <2>1. ASSUME NEW u \in Restless, DeactivateUser(u)
        PROVE  BarredInv'
    BY <1>4, <2>1 DEF DeactivateUser
  <2>2. ASSUME NEW u \in Restless, ReactivateUser(u)
        PROVE  BarredInv'
    BY <1>4, <2>2 DEF ReactivateUser
  <2>3. ASSUME NEW t \in Restless \X Channel, InboundStart(t)
        PROVE  BarredInv'
    BY <1>4, <2>3 DEF InboundStart
  <2>4. ASSUME NEW t \in Restless \X Channel,
               LeaveAudience(t) \/ InboundStop(t)
        PROVE  BarredInv'
    BY <1>4, <2>4, DeliveryAssumption DEF LeaveAudience, InboundStop
  <2>5. ASSUME NEW t \in Target, BounceElsewhere(t)
        PROVE  BarredInv'
    BY <1>4, <2>5 DEF BounceElsewhere
  <2> QED
    BY <1>4, <2>1, <2>2, <2>3, <2>4, <2>5 DEF Recipients
<1>5. CASE UNCHANGED vars
  BY <1>5
<1> QED
  BY <1>1, <1>2, <1>3, <1>4, <1>5 DEF Next

-----------------------------------------------------------------------------
(* What follows of every reachable state.                                  *)

\* The inductive invariant holds throughout.
THEOREM DeliveryInvariant == Spec => []DeliveryInv
<1>1. Init => DeliveryInv
  BY InitInv
<1>2. DeliveryInv /\ [Next]_vars => DeliveryInv'
  BY NextTyped, OwnerStep, SendStep, QueueStep, BarredStep DEF DeliveryInv
<1> QED
  BY <1>1, <1>2, PTL DEF Spec

\* No recipient is sent an announcement twice on one channel, for any number of
\* publishers, workers, redeliveries, redrives and faults.
THEOREM SentAtMostOnce == Spec => []AtMostOneSend
<1>1. DeliveryInv => AtMostOneSend
  BY DEF DeliveryInv, SendInv
<1> QED
  BY <1>1, DeliveryInvariant, PTL

\* The claim keeps the workers apart: a row has one owner.
THEOREM ClaimsAreExclusive == Spec => []ClaimIsExclusive
<1>1. DeliveryInv => ClaimIsExclusive
  BY DEF DeliveryInv, OwnerInv
<1> QED
  BY <1>1, DeliveryInvariant, PTL

\* A row that reports success has a message the provider took.
THEOREM SuccessIsAlwaysReal == Spec => []SuccessIsReal
<1>1. DeliveryInv => SuccessIsReal
  BY DEF DeliveryInv, SendInv
<1> QED
  BY <1>1, DeliveryInvariant, PTL

\* A queued row has a message, or a publisher that still holds it.
THEOREM NoQueuedRowIsLost == Spec => []NothingForgotten
<1>1. DeliveryInv => NothingForgotten
  BY DEF DeliveryInv, QueueInv
<1> QED
  BY <1>1, DeliveryInvariant, PTL

\* No message is ahead of its row.
THEOREM MessagesFollowRows == Spec => []JobHasRow
<1>1. DeliveryInv => JobHasRow
  BY DEF DeliveryInv, QueueInv
<1> QED
  BY <1>1, DeliveryInvariant, PTL

\* An opt-out standing since before the claim always stops the message.
THEOREM OptOutsAreHonoured == Spec => []OptOutIsHonoured
<1>1. DeliveryInv => OptOutIsHonoured
  BY DEF DeliveryInv, TypeOK, WorkerTypeOK, StoreTypeOK, Cause, BarredInv,
         OptOutIsHonoured
<1> QED
  BY <1>1, DeliveryInvariant, PTL

-----------------------------------------------------------------------------
(* The pipeline implements the contract.                                   *)

phases == [t \in Target |-> Phase(t)]

kept == <<phases, accepted>>

\* Only three actions move a row through the contract.
LEMMA PhaseStep ==
  ASSUME DeliveryInv, [Next]_vars
  PROVE  (\E t \in Target : Contract!Create(t) \/ Contract!Transmit(t)
                              \/ Contract!Drop(t))
         \/ kept' = kept
<1> USE DEF DeliveryInv, TypeOK, StoreTypeOK, WorkerTypeOK, SendInv, IsClaimed,
            AtMostOneSend, Phase, phases, kept, SetRow, GoWorker
<1> USE DEF Contract!Create, Contract!Transmit, Contract!Drop, Contract!Become
<1>0. ASSUME UNCHANGED <<row, accepted>>
      PROVE  kept' = kept
  BY <1>0
<1>1. CASE Publishing /\ UNCHANGED <<workerVars, callbackVars>>
  <2>1. ASSUME NEW p \in Publisher, NEW t \in Target, CreateRow(p, t), row[t] = "none"
        PROVE  Contract!Create(t)
    <3>1. row' = [row EXCEPT ![t] = "queued"] /\ accepted' = accepted
      BY <2>1 DEF CreateRow
    <3>2. accepted[t] = 0
      BY <2>1
    <3>3. phases[t] = "none" /\ phases'[t] = "pending"
      BY <2>1, <3>1, <3>2
    <3>4. \A s \in Target : s # t => phases'[s] = phases[s]
      BY <3>1
    <3>5. phases' = [phases EXCEPT ![t] = "pending"]
      BY <3>3, <3>4
    <3> QED
      BY <3>1, <3>3, <3>5
  <2>2. CASE \A p \in Publisher, t \in Target : ~(CreateRow(p, t) /\ row[t] = "none")
    <3>1. UNCHANGED <<row, accepted>>
      BY <1>1, <2>2 DEF Publishing, PublisherStep, ReadAudience, DropSuppressed,
                        StartSending, Return, CreateRow, SendJob, AbortCall
    <3> QED
      BY <1>0, <3>1
  <2> QED
    BY <2>1, <2>2
<1>2. CASE Consuming /\ UNCHANGED <<publisherVars, callbackVars>>
  <2>1. ASSUME NEW w \in Worker, Claim(w)
        PROVE  kept' = kept
    <3>1. accepted' = accepted
          /\ (row' = row \/ (row[wjob[w]] = "queued"
                              /\ row' = [row EXCEPT ![wjob[w]] = "sending"]))
      BY <2>1 DEF Claim
    <3>2. \A t \in Target : phases'[t] = phases[t]
      BY <3>1
    <3> QED
      BY <3>1, <3>2
  <2>2. ASSUME NEW w \in Worker, Transmit(w) \/ LoseResponse(w)
        PROVE  Contract!Transmit(wjob[w]) \/ kept' = kept
    <3>1. row' = row /\ (accepted' = accepted
                         \/ accepted' = [accepted EXCEPT ![wjob[w]] = @ + 1])
      BY <2>2 DEF Transmit, LoseResponse
    <3>2. CASE accepted' = accepted
      BY <1>0, <3>1, <3>2
    <3>3. CASE accepted' = [accepted EXCEPT ![wjob[w]] = @ + 1]
      <4>1. row[wjob[w]] = "sending" /\ accepted[wjob[w]] = 0
        BY <2>2 DEF Transmit, LoseResponse, OwnerInv, PreSendPC
      <4>2. phases[wjob[w]] = "pending" /\ phases'[wjob[w]] = "transmitted"
        BY <3>1, <3>3, <4>1
      <4>3. \A s \in Target : s # wjob[w] => phases'[s] = phases[s]
        BY <3>1, <3>3
      <4>4. phases' = [phases EXCEPT ![wjob[w]] = "transmitted"]
        BY <4>2, <4>3
      <4> QED
        BY <3>3, <4>2, <4>4
    <3> QED
      BY <3>1, <3>2, <3>3
  <2>3. ASSUME NEW w \in Worker, StoreSent(w)
        PROVE  kept' = kept
    <3>1. accepted' = accepted /\ row' = [row EXCEPT ![wjob[w]] = "sent"]
          /\ accepted[wjob[w]] = 1
      BY <2>3 DEF StoreSent
    <3>2. \A t \in Target : phases'[t] = phases[t]
      BY <3>1
    <3> QED
      BY <3>1, <3>2
  <2>4. ASSUME NEW w \in Worker, MarkStatus(w)
        PROVE  Contract!Drop(wjob[w]) \/ kept' = kept
    <3>1. PICK s \in {"failed", "suppressed"} :
            accepted' = accepted /\ row' = [row EXCEPT ![wjob[w]] = s]
      BY <2>4 DEF MarkStatus
    <3>2. row[wjob[w]] # "none"
      BY <2>4 DEF MarkStatus, OwnerInv, PostSendPC
    <3>3. \A t \in Target : t # wjob[w] => phases'[t] = phases[t]
      BY <3>1
    <3>4. CASE phases[wjob[w]] = "pending"
      <4>1. phases'[wjob[w]] = "dropped"
        BY <3>1, <3>4
      <4>2. phases' = [phases EXCEPT ![wjob[w]] = "dropped"]
        BY <3>3, <4>1
      <4> QED
        BY <3>1, <3>4, <4>2
    <3>5. CASE phases[wjob[w]] # "pending"
      <4>1. phases'[wjob[w]] = phases[wjob[w]]
        BY <3>1, <3>2, <3>5
      <4>2. \A t \in Target : phases'[t] = phases[t]
        BY <3>3, <4>1
      <4> QED
        BY <3>1, <4>2
    <3> QED
      BY <3>4, <3>5
  <2>5. CASE \A w \in Worker : ~(Claim(w) \/ Transmit(w) \/ LoseResponse(w)
                                   \/ StoreSent(w) \/ MarkStatus(w))
    <3>1. UNCHANGED <<row, accepted>>
      BY <1>2, <2>5
      DEF Consuming, WorkerStep, WorkerFault, Receive, Fetch, RecordSending,
          LoadRecipient, CheckSuppression, RecordSent, RecordMark, SuppressNumber,
          Ack, Retry, ThrowToConsumer, ThrowInTry, CrashWorker, DeadLetter, Redrive
    <3> QED
      BY <1>0, <3>1
  <2> QED
    BY <2>1, <2>2, <2>3, <2>4, <2>5
<1>3. CASE CallingBack /\ UNCHANGED <<publisherVars, workerVars>>
  <2>1. ASSUME NEW h \in Handler, ApplyCallback(h)
        PROVE  kept' = kept
    <3>1. accepted' = accepted /\ accepted[hmsg[h]] = 1
      BY <2>1 DEF ApplyCallback
    <3>2. \A t \in Target : t # hmsg[h] => row'[t] = row[t]
      BY <2>1 DEF ApplyCallback, CallbackTypeOK
    <3>3. \A t \in Target : phases'[t] = phases[t]
      BY <3>1, <3>2
    <3> QED
      BY <3>1, <3>3
  <2>2. CASE \A h \in Handler : ~ApplyCallback(h)
    <3>1. UNCHANGED <<row, accepted>>
      BY <1>3, <2>2 DEF CallingBack, HandlerStep, Emit, Arrive, RecordEvent,
                        SuppressAddress, CrashHandler
    <3> QED
      BY <1>0, <3>1
  <2> QED
    BY <2>1, <2>2
<1>4. CASE Recipients
  <2>1. UNCHANGED <<row, accepted>>
    BY <1>4 DEF Recipients, DeactivateUser, ReactivateUser, LeaveAudience,
                BounceElsewhere, InboundStop, InboundStart
  <2> QED
    BY <1>0, <2>1
<1>5. CASE UNCHANGED vars
  BY <1>0, <1>5
<1> QED
  BY <1>1, <1>2, <1>3, <1>4, <1>5 DEF Next

\* The pipeline implements the contract: one message at most is sent for a row,
\* only after it was created and never after it was given up.
THEOREM PipelineImplementsContract == Spec => ImplementsContract
<1>1. Init => Contract!Init
  BY DEF Init, StoreInit, Contract!Init, Phase
<1>2. DeliveryInv /\ [Next]_vars => [Contract!Next]_kept
  BY PhaseStep DEF Contract!Next
<1> QED
  BY <1>1, <1>2, DeliveryInvariant, PTL
  DEF Spec, ImplementsContract, Contract!Spec, Contract!contractVars, phases,
      kept
=============================================================================
