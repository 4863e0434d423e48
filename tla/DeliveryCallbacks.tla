-------------------------- MODULE DeliveryCallbacks --------------------------
(***************************************************************************)
(* What the providers report about accepted messages, and the two          *)
(* handlers of it: the Twilio status route and                             *)
(* processAnnouncementWebhookEvent for Postmark.  A provider may send a    *)
(* callback any number of times, and callbacks of one message may be       *)
(* handled at the same time and in any order.  A callback that is answered *)
(* without an effect, such as one for a message id not stored yet, leaves  *)
(* the state as it is and needs no action.                                 *)
(*                                                                         *)
(* One message per row is accepted (AtMostOneSend), so a message is named  *)
(* by its target.                                                          *)
(***************************************************************************)
EXTENDS DeliveryStore

CONSTANTS Handler,  \* callback requests that can be handled at the same time
          Kind      \* the kinds of callbacks the providers send

FinalEmail == {"Delivery", "HardBounce", "SoftBounce"}
LaterEmail == {"SpamComplaint", "Open", "Click"}
FinalSms == {"delivered", "undelivered", "unsubscribed"}
EarlySms == {"queued", "sent"}
AllKinds == FinalEmail \cup LaterEmail \cup FinalSms \cup EarlySms

ASSUME KindAssumption == Kind \subseteq AllKinds

VARIABLES hpc,      \* hpc[h]: the next statement of handler h
          hmsg,     \* hmsg[h]: the target whose callback h handles
          hkind,    \* hkind[h]: its kind
          emitted,  \* callbacks the providers have begun to send
          events,   \* DeliveryEvent rows of provider callbacks
          engaged   \* openedAt and clickedAt

callbackVars == <<hpc, hmsg, hkind, emitted, events, engaged>>

HandlerPC == {"idle", "record", "apply", "suppress"}

\* RecordType, or Twilio's MessageStatus: what the unique event key is made of.
EventKey(k) ==
  CASE k \in {"HardBounce", "SoftBounce"}    -> "Bounce"
    [] k = "unsubscribed"                    -> "failed"
    [] OTHER                                 -> k

CallbackTypeOK ==
  /\ hpc \in [Handler -> HandlerPC]
  /\ hmsg \in [Handler -> Target]
  /\ hkind \in [Handler -> AllKinds]
  /\ emitted \in SUBSET (Target \X AllKinds)
  /\ events \in SUBSET (Target \X (AllKinds \cup {"Bounce", "failed"}))
  /\ engaged \in SUBSET (Target \X {"Open", "Click"})

CallbackInit ==
  /\ hpc = [h \in Handler |-> "idle"]
  /\ hmsg = [h \in Handler |-> CHOOSE t \in Target : TRUE]
  /\ hkind = [h \in Handler |-> CHOOSE k \in AllKinds : TRUE]
  /\ emitted = {} /\ events = {} /\ engaged = {}

\* An assumption on the provider, which no handler enforces: it reports at most
\* one final outcome of an accepted message; mail is opened or reported as spam
\* after it was delivered.
Emit(t, k) ==
  /\ accepted[t] > 0 /\ <<t, k>> \notin emitted
  /\ CASE k \in FinalEmail -> /\ ChannelOf(t) = "email"
                              /\ \A f \in FinalEmail : <<t, f>> \notin emitted
       [] k \in LaterEmail -> <<t, "Delivery">> \in emitted
       [] k \in FinalSms   -> /\ ChannelOf(t) = "sms"
                              /\ \A f \in FinalSms : <<t, f>> \notin emitted
       [] k \in EarlySms   -> ChannelOf(t) = "sms"
  /\ emitted' = emitted \cup {<<t, k>>}
  /\ UNCHANGED <<hpc, hmsg, hkind, events, engaged, storeVars>>

\* The status a callback stands for; Open and Click stand for none.
StatusOf(k) ==
  CASE k = "queued"                  -> "sending"
    [] k = "sent"                    -> "sent"
    [] k \in {"Delivery", "delivered"} -> "delivered"
    [] OTHER                         -> "failed"

\* mutant: the order check is dropped
ProgressesUnchecked(t, k) ==
  IF k \in {"Open", "Click"} THEN <<t, k>> \notin engaged ELSE TRUE

\* The check each handler makes on the row it read.  A spam complaint is
\* always let through; of Open and Click only the first is.
Progresses(t, k) ==
  CASE k = "SpamComplaint"     -> TRUE
    [] k \in {"Open", "Click"} -> <<t, k>> \notin engaged
    [] OTHER                   -> StatusOrder(StatusOf(k)) > StatusOrder(row[t])

\* A callback, or a repetition of it, arrives; its handler finds the row by
\* externalMessageId and the callback is progress.
Arrive(h, t, k) ==
  /\ hpc[h] = "idle"
  /\ <<t, k>> \in emitted
  /\ t \in ext /\ Progresses(t, k)
  /\ hmsg' = [hmsg EXCEPT ![h] = t]
  /\ hkind' = [hkind EXCEPT ![h] = k]
  /\ hpc' = [hpc EXCEPT ![h] = "record"]
  /\ UNCHANGED <<emitted, events, engaged, storeVars>>

GoHandler(h, next) ==
  /\ hpc' = [hpc EXCEPT ![h] = next]
  /\ UNCHANGED <<hmsg, hkind>>

\* deliveryEvent.create: a duplicate (P2002) ends the handling.
RecordEvent(h) ==
  LET e == <<hmsg[h], EventKey(hkind[h])>> IN
  /\ hpc[h] = "record"
  /\ \/ e \notin events /\ events' = events \cup {e} /\ GoHandler(h, "apply")
     \/ e \in events /\ UNCHANGED events /\ GoHandler(h, "idle")
  /\ UNCHANGED <<emitted, engaged, storeVars>>

\* Kinds that put the address on a suppression list.
Suppressing == {"HardBounce", "SpamComplaint", "unsubscribed"}

\* mutant: the address is left off the suppression list
ApplyWithoutSuppression(h) ==
  LET t == hmsg[h]  k == hkind[h] IN
  /\ hpc[h] = "apply"
  /\ IF k \in {"Open", "Click"}
     THEN engaged' = engaged \cup {<<t, k>>} /\ UNCHANGED row
     ELSE SetRow(t, StatusOf(k)) /\ UNCHANGED engaged
  /\ GoHandler(h, "idle")
  /\ UNCHANGED <<emitted, events, ext, supp, active, audience, job, attempts,
                 accepted, barred, faults>>

\* The update of the row, by id and without a condition on its status.
ApplyCallback(h) ==
  LET t == hmsg[h]  k == hkind[h] IN
  /\ hpc[h] = "apply"
  /\ IF k \in {"Open", "Click"}
     THEN engaged' = engaged \cup {<<t, k>>} /\ UNCHANGED row
     ELSE SetRow(t, StatusOf(k)) /\ UNCHANGED engaged
  /\ GoHandler(h, IF k \in Suppressing THEN "suppress" ELSE "idle")
  /\ UNCHANGED <<emitted, events, ext, supp, active, audience, job,
                 attempts, accepted, barred, faults>>

\* The Twilio route ignores a failure here; Postmark's handler would throw.
SuppressAddress(h) ==
  /\ hpc[h] = "suppress"
  /\ \/ AddSuppression(hmsg[h]) /\ UNCHANGED faults
     \/ hkind[h] = "unsubscribed" /\ UNCHANGED supp /\ Fault("callback")
  /\ GoHandler(h, "idle")
  /\ UNCHANGED <<emitted, events, engaged, row, ext, active, audience,
                 job, attempts, accepted, barred>>

\* The handler throws or dies before it answers: the provider repeats the callback.
CrashHandler(h) ==
  /\ hpc[h] # "idle"
  /\ GoHandler(h, "idle")
  /\ Fault("callback")
  /\ UNCHANGED <<emitted, events, engaged, row, ext, supp, active,
                 audience, job, attempts, accepted, barred>>

HandlerStep(h) ==
  \/ \E t \in Target, k \in Kind : Arrive(h, t, k)
  \/ RecordEvent(h) \/ ApplyCallback(h) \/ SuppressAddress(h)

CallingBack ==
  \/ \E t \in Target, k \in Kind : Emit(t, k)
  \/ \E h \in Handler : HandlerStep(h) \/ CrashHandler(h)
=============================================================================
