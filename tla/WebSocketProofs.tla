--------------------------- MODULE WebSocketProofs ---------------------------
(***************************************************************************)
(* What holds of one WebSocket object for any number of sockets, channels  *)
(* and events, whatever the limits.                                        *)
(***************************************************************************)
EXTENDS WebSocketServer, FiniteSetTheorems, TLAPS

USE DEF memory, sockets, wsVars

-----------------------------------------------------------------------------
(* The inductive invariant                                                 *)

\* The table is empty until it is rebuilt, and what has no connection has no
\* attachment.
MemoryInv ==
  /\ ~rebuilt => table = NoTable
  /\ \A s \in Socket : s \notin Present => channels[s] = {}

\* The log ends, for each channel in it, with the channel's last event.
InOrder(l, la) ==
  \A i \in 1..Len(l) :
    /\ l[i].n <= la[l[i].ch]
    /\ \E j \in i..Len(l) : l[j].ch = l[i].ch /\ l[j].n = la[l[i].ch]

LogInv == InOrder(log, last)

CountInv == IsFiniteSet(Present) /\ ConnectionsBounded

ServerInv ==
  ServerTypeOK /\ MemoryInv /\ TableFollowsSockets /\ LogInv /\ UpToDate

-----------------------------------------------------------------------------
(* The operators                                                           *)

\* The rebuilt table is what the attachments say.
LEMMA ReconstructedFollows ==
  ASSUME ServerTypeOK, MemoryInv, TableFollowsSockets
  PROVE  /\ Reconstructed(Present) \in [Channel -> SUBSET Socket]
         /\ \A ch \in Channel :
              /\ \A s \in Reconstructed(Present)[ch] :
                   state[s] \in {"open", "closing", "failed"}
              /\ \A s \in Present :
                   s \in Reconstructed(Present)[ch] <=> ch \in channels[s]
<1>1. CASE rebuilt
  BY <1>1 DEF Reconstructed, ServerTypeOK, TableFollowsSockets
<1>2. CASE ~rebuilt
  BY <1>2 DEF Reconstructed, ServerTypeOK, Present
<1> QED
  BY <1>1, <1>2 DEF ServerTypeOK

LEMMA EntryTyped ==
  ASSUME ServerTypeOK, NEW i \in 1..Len(log)
  PROVE  log[i] \in Event /\ log[i].ch \in Channel /\ log[i].n \in Nat
<1>1. log[i] \in Event
  BY DEF ServerTypeOK
<1> QED
  BY <1>1 DEF Event

\* Replaying a channel that the log still knows yields its last event.
LEMMA ReplayIsLast ==
  ASSUME ServerTypeOK, LogInv, NEW ch \in Channel, Logged(ch) # {}
  PROVE  Replayed(ch) = last[ch]
<1>1. \A n \in Logged(ch) : n \in Nat /\ n <= last[ch]
  <2> SUFFICES ASSUME NEW i \in 1..Len(log), log[i].ch = ch
               PROVE  log[i].n \in Nat /\ log[i].n <= last[ch]
    BY DEF Logged
  <2> QED
    BY EntryTyped DEF LogInv, InOrder
<1>2. last[ch] \in Logged(ch)
  <2>1. PICK i \in 1..Len(log) : log[i].ch = ch
    BY DEF Logged
  <2>i. i..Len(log) \subseteq 1..Len(log)
    BY DEF ServerTypeOK
  <2>2. PICK j \in 1..Len(log) : log[j].ch = ch /\ log[j].n = last[ch]
    BY <2>1, <2>i DEF LogInv, InOrder
  <2> QED
    BY <2>2 DEF Logged
<1>3. \A n \in Logged(ch) :
        (\A k \in Logged(ch) : k <= n) => n = last[ch]
  BY <1>1, <1>2 DEF ServerTypeOK
<1> QED
  BY <1>1, <1>2, <1>3 DEF Replayed

LEMMA ReplayTyped ==
  ASSUME ServerTypeOK, LogInv, NEW ch \in Channel
  PROVE  Replayed(ch) \in Nat
  BY ReplayIsLast DEF Replayed, ServerTypeOK

\* Events leave the log from the front.
LEMMA TailInOrder ==
  ASSUME NEW l \in Seq(Event), NEW la \in [Channel -> Nat], Len(l) > 0,
         InOrder(l, la)
  PROVE  /\ Tail(l) \in Seq(Event) /\ InOrder(Tail(l), la)
         /\ Len(Tail(l)) = Len(l) - 1
         /\ \A i \in 1..Len(Tail(l)) : Tail(l)[i] = l[i + 1]
<1>1. /\ Tail(l) \in Seq(Event) /\ Len(Tail(l)) = Len(l) - 1
      /\ \A i \in 1..Len(Tail(l)) : Tail(l)[i] = l[i + 1]
  OBVIOUS
<1>2. ASSUME NEW i \in 1..Len(Tail(l))
      PROVE  /\ Tail(l)[i].n <= la[Tail(l)[i].ch]
             /\ \E j \in i..Len(Tail(l)) :
                  /\ Tail(l)[j].ch = Tail(l)[i].ch
                  /\ Tail(l)[j].n = la[Tail(l)[i].ch]
  <2>1. i + 1 \in 1..Len(l) /\ Tail(l)[i] = l[i + 1]
    BY <1>1
  <2>2. PICK j \in (i + 1)..Len(l) :
          l[j].ch = l[i + 1].ch /\ l[j].n = la[l[i + 1].ch]
    BY <2>1 DEF InOrder
  <2>3. j - 1 \in i..Len(Tail(l)) /\ Tail(l)[j - 1] = l[j]
    BY <1>1, <2>2
  <2> QED
    BY <2>1, <2>2, <2>3 DEF InOrder
<1> QED
  BY <1>1, <1>2 DEF InOrder

\* A new event goes to its end.
LEMMA AppendInOrder ==
  ASSUME NEW l \in Seq(Event), NEW la \in [Channel -> Nat], NEW ch \in Channel,
         InOrder(l, la),
         NEW e \in Event, e.ch = ch, e.n = la[ch] + 1,
         NEW lb \in [Channel -> Nat], lb[ch] = la[ch] + 1,
         \A c \in Channel \ {ch} : lb[c] = la[c]
  PROVE  /\ Append(l, e) \in Seq(Event) /\ InOrder(Append(l, e), lb)
         /\ Len(Append(l, e)) = Len(l) + 1 /\ Append(l, e)[Len(l) + 1] = e
         /\ \A i \in 1..Len(l) : Append(l, e)[i] = l[i]
<1>1. e \in Event /\ e.ch = ch /\ e.n = la[ch] + 1
  OBVIOUS
<1>2. /\ Append(l, e) \in Seq(Event)
      /\ Len(Append(l, e)) = Len(l) + 1 /\ Append(l, e)[Len(l) + 1] = e
      /\ \A i \in 1..Len(l) : Append(l, e)[i] = l[i]
  BY <1>1
<1>3. ASSUME NEW i \in 1..Len(l)
      PROVE  l[i].ch \in Channel /\ l[i].n \in Nat
  <2>1. l[i] \in Event
    OBVIOUS
  <2> QED
    BY <2>1 DEF Event
<1>4. /\ lb[ch] = la[ch] + 1 /\ la[ch] \in Nat
      /\ \A c \in Channel \ {ch} : lb[c] = la[c]
  OBVIOUS
<1> DEFINE a == Append(l, e)
<1> HIDE DEF a
<1>5. ASSUME NEW i \in 1..Len(a)
      PROVE  /\ a[i].n <= lb[a[i].ch]
             /\ \E j \in i..Len(a) : a[j].ch = a[i].ch /\ a[j].n = lb[a[i].ch]
  <2>0. /\ Len(a) = Len(l) + 1 /\ a[Len(l) + 1] = e /\ Len(l) \in Nat
        /\ \A k \in 1..Len(l) : a[k] = l[k]
    BY <1>2 DEF a
  <2>1. CASE i = Len(l) + 1
    <3>1. i \in i..Len(a) /\ a[i] = e
      BY <2>0, <2>1
    <3>2. a[i].ch = ch /\ a[i].n = lb[a[i].ch] /\ a[i].n \in Nat
      BY <1>1, <1>4, <3>1
    <3> QED
      BY <3>1, <3>2
  <2>2. CASE i \in 1..Len(l) /\ l[i].ch = ch
    <3>1. Len(a) \in i..Len(a) /\ a[Len(a)] = e /\ a[i] = l[i]
      BY <2>0, <2>2
    <3>2. l[i].n <= la[ch] /\ l[i].n \in Nat
      BY <1>3, <2>2 DEF InOrder
    <3>3. a[i].n <= lb[a[i].ch]
      BY <1>4, <2>2, <3>1, <3>2
    <3>4. a[Len(a)].ch = a[i].ch /\ a[Len(a)].n = lb[a[i].ch]
      BY <1>1, <1>4, <2>2, <3>1
    <3> QED
      BY <3>1, <3>3, <3>4
  <2>3. CASE i \in 1..Len(l) /\ l[i].ch # ch
    <3>1. PICK j \in i..Len(l) : l[j].ch = l[i].ch /\ l[j].n = la[l[i].ch]
      BY <2>3 DEF InOrder
    <3>2. j \in i..Len(a) /\ a[j] = l[j] /\ a[i] = l[i]
      BY <2>0, <2>3
    <3>3. lb[l[i].ch] = la[l[i].ch] /\ l[i].n <= la[l[i].ch]
      BY <1>3, <1>4, <2>3 DEF InOrder
    <3> QED
      BY <3>1, <3>2, <3>3
  <2> QED
    BY <2>0, <2>1, <2>2, <2>3
<1> QED
  BY <1>2, <1>5 DEF InOrder, a

\* EventLog.push keeps the order, and forgets but does not invent events of
\* other channels.
LEMMA PushInOrder ==
  ASSUME ServerTypeOK, LogInv, NEW ch \in Channel,
         NEW lb, lb = [last EXCEPT ![ch] = @ + 1]
  PROVE  /\ Push(ch) \in Seq(Event) /\ InOrder(Push(ch), lb)
         /\ lb \in [Channel -> Nat]
         /\ \A c \in Channel \ {ch} : \A i \in 1..Len(Push(ch)) :
              Push(ch)[i].ch = c => Logged(c) # {}
<1> DEFINE e == [ch |-> ch, n |-> last[ch] + 1]
           all == Append(log, e)
<1>0. log \in Seq(Event) /\ last \in [Channel -> Nat] /\ lb \in [Channel -> Nat]
  BY DEF ServerTypeOK
<1>2. e \in Event /\ e.ch = ch /\ e.n = last[ch] + 1
  BY <1>0 DEF Event
<1>3. lb[ch] = last[ch] + 1 /\ \A c \in Channel \ {ch} : lb[c] = last[c]
  BY <1>0
<1>p. Push(ch) = IF Len(all) > MaxEventLog THEN Tail(all) ELSE all
  BY DEF Push
<1>i. InOrder(log, last)
  BY DEF LogInv
<1> HIDE DEF e
<1>a. all = Append(log, e)
  OBVIOUS
<1> HIDE DEF all
<1>1. /\ all \in Seq(Event) /\ InOrder(all, lb)
      /\ Len(all) = Len(log) + 1 /\ all[Len(log) + 1] = e
      /\ \A i \in 1..Len(log) : all[i] = log[i]
  <2>1. /\ Append(log, e) \in Seq(Event) /\ InOrder(Append(log, e), lb)
        /\ Len(Append(log, e)) = Len(log) + 1
        /\ Append(log, e)[Len(log) + 1] = e
        /\ \A i \in 1..Len(log) : Append(log, e)[i] = log[i]
    BY ONLY <1>0, <1>2, <1>3, <1>i, AppendInOrder, ch \in Channel, SMT
  <2> QED
    BY <1>a, <2>1
<1>6. ASSUME NEW c \in Channel \ {ch}, NEW i \in 1..Len(all), all[i].ch = c
      PROVE  Logged(c) # {}
  <2>1. i \in 1..Len(log) /\ log[i].ch = c
    BY <1>0, <1>1, <1>2, <1>6
  <2> QED
    BY <2>1 DEF Logged
<1>4. CASE Len(all) > MaxEventLog
  <2>1. Len(all) > 0
    BY <1>0, <1>1
  <2>2. /\ Tail(all) \in Seq(Event) /\ InOrder(Tail(all), lb)
        /\ Len(Tail(all)) = Len(all) - 1
        /\ \A i \in 1..Len(Tail(all)) : Tail(all)[i] = all[i + 1]
    BY <1>0, <1>1, <2>1, TailInOrder
  <2>3. ASSUME NEW c \in Channel \ {ch}, NEW i \in 1..Len(Tail(all)),
               Tail(all)[i].ch = c
        PROVE  Logged(c) # {}
    <3>1. i + 1 \in 1..Len(all) /\ all[i + 1].ch = c
      BY <1>1, <2>2, <2>3
    <3> QED
      BY <1>6, <3>1
  <2> QED
    BY <1>0, <1>p, <1>4, <2>2, <2>3
<1>5. CASE ~(Len(all) > MaxEventLog)
  BY <1>0, <1>1, <1>6, <1>p, <1>5
<1> QED
  BY <1>4, <1>5
-----------------------------------------------------------------------------
(* Every step keeps every part                                             *)

\* Every action keeps the types.
LEMMA TypedStep ==
  ASSUME ServerInv, [ServerNext]_wsVars
  PROVE  ServerTypeOK'
<1> USE DEF ServerInv, ServerTypeOK, States, Wake
<1>1. ASSUME Evict
      PROVE  ServerTypeOK'
  <2>1. <<>> \in Seq(Event)
    OBVIOUS
  <2> QED
    BY <1>1, <2>1 DEF Evict, NoTable
<1>2. ASSUME Reject
      PROVE  ServerTypeOK'
  BY <1>2 DEF Reject
<1>3. ASSUME AgeLog
      PROVE  ServerTypeOK'
  <2>1. Len(log) > 0 /\ log' = Tail(log)
    BY <1>3 DEF AgeLog
  <2>2. log' \in Seq(Event)
    BY <2>1, TailInOrder DEF LogInv
  <2> QED
    BY <1>3, <2>2 DEF AgeLog
<1>4. ASSUME ConsumeToken
      PROVE  ServerTypeOK'
  BY <1>4 DEF ConsumeToken
<1>5. ASSUME Redeploy
      PROVE  ServerTypeOK'
  <2>1. <<>> \in Seq(Event)
    OBVIOUS
  <2> QED
    BY <1>5, <2>1 DEF Redeploy, NoTable
<1>6. ASSUME NEW s \in Socket, Connect(s)
      PROVE  ServerTypeOK'
  BY <1>6 DEF Connect
<1>7. ASSUME NEW s \in Socket, ConnectDelivery(s)
      PROVE  ServerTypeOK'
  <2>1. /\ Reconstructed(Present) \in [Channel -> SUBSET Socket]
        /\ Replayed(of) \in Nat /\ of \in Channel
    BY <1>7, ReconstructedFollows, ReplayTyped DEF ConnectDelivery, Channel
  <2> QED
    BY <1>7, <2>1 DEF ConnectDelivery
<1>8. ASSUME NEW s \in Socket, Replay(s)
      PROVE  ServerTypeOK'
  <2>1. \A ch \in Channel : Replayed(ch) \in Nat
    BY ReplayTyped
  <2> QED
    BY <1>8, <2>1 DEF Replay
<1>9. ASSUME NEW s \in Socket, Strike(s)
      PROVE  ServerTypeOK'
  BY <1>9 DEF Strike
<1>10. ASSUME NEW s \in Socket, WebSocketClose(s)
      PROVE  ServerTypeOK'
  BY <1>10 DEF WebSocketClose, Drop
<1>11. ASSUME NEW s \in Socket, WebSocketError(s)
      PROVE  ServerTypeOK'
  BY <1>11 DEF WebSocketError, Drop
<1>12. ASSUME NEW s \in Socket, NEW ch \in Channel, Subscribe(s, ch)
      PROVE  ServerTypeOK'
  <2>1. Reconstructed(Present) \in [Channel -> SUBSET Socket]
    BY ReconstructedFollows
  <2> QED
    BY <1>12, <2>1 DEF Subscribe
<1>13. ASSUME NEW s \in Socket, NEW ch \in Channel, Unsubscribe(s, ch)
      PROVE  ServerTypeOK'
  <2>1. Reconstructed(Present) \in [Channel -> SUBSET Socket]
    BY ReconstructedFollows
  <2> QED
    BY <1>13, <2>1 DEF Unsubscribe
<1>14. ASSUME NEW silent \in SUBSET Open, Alarm(silent)
      PROVE  ServerTypeOK'
  BY <1>14 DEF Alarm
<1>15. ASSUME NEW ch \in Channel, NEW terminal \in BOOLEAN,
             HandleBroadcast(ch, terminal)
      PROVE  ServerTypeOK'
  <2>1. Reconstructed(Present) \in [Channel -> SUBSET Socket]
    BY ReconstructedFollows
  <2>2. log' \in Seq(Event) /\ last' \in [Channel -> Nat]
    BY <1>15, PushInOrder DEF HandleBroadcast
  <2>3. state' \in [Socket -> States]
    BY <1>15 DEF HandleBroadcast
  <2>4. heard' \in [Socket -> [Channel -> Nat]]
    BY <1>15 DEF HandleBroadcast
  <2> QED
    BY <1>15, <2>1, <2>2, <2>3, <2>4 DEF HandleBroadcast
<1>16. CASE UNCHANGED wsVars
  BY <1>16
<1> QED
  BY <1>1, <1>2, <1>3, <1>4, <1>5, <1>6, <1>7, <1>8, <1>9,
     <1>10, <1>11, <1>12, <1>13, <1>14, <1>15, <1>16 DEF ServerNext

\* Only a rebuild fills the table, and only connections have attachments.
LEMMA MemoryStep ==
  ASSUME ServerInv, [ServerNext]_wsVars
  PROVE  MemoryInv'
<1> USE DEF ServerInv, ServerTypeOK, MemoryInv, Present, Wake
<1>1. ASSUME Evict
      PROVE  MemoryInv'
  BY <1>1 DEF Evict
<1>2. ASSUME Reject
      PROVE  MemoryInv'
  BY <1>2 DEF Reject
<1>3. ASSUME AgeLog
      PROVE  MemoryInv'
  BY <1>3 DEF AgeLog
<1>4. ASSUME ConsumeToken
      PROVE  MemoryInv'
  BY <1>4 DEF ConsumeToken
<1>5. ASSUME Redeploy
      PROVE  MemoryInv'
  BY <1>5 DEF Redeploy
<1>6. ASSUME NEW s \in Socket, Connect(s)
      PROVE  MemoryInv'
  BY <1>6 DEF Connect
<1>7. ASSUME NEW s \in Socket, ConnectDelivery(s)
      PROVE  MemoryInv'
  BY <1>7 DEF ConnectDelivery
<1>8. ASSUME NEW s \in Socket, Replay(s)
      PROVE  MemoryInv'
  BY <1>8 DEF Replay
<1>9. ASSUME NEW s \in Socket, Strike(s)
      PROVE  MemoryInv'
  BY <1>9 DEF Strike
<1>10. ASSUME NEW s \in Socket, WebSocketClose(s)
      PROVE  MemoryInv'
  BY <1>10 DEF WebSocketClose, Drop, NoTable
<1>11. ASSUME NEW s \in Socket, WebSocketError(s)
      PROVE  MemoryInv'
  BY <1>11 DEF WebSocketError, Drop
<1>12. ASSUME NEW s \in Socket, NEW ch \in Channel, Subscribe(s, ch)
      PROVE  MemoryInv'
  BY <1>12 DEF Subscribe
<1>13. ASSUME NEW s \in Socket, NEW ch \in Channel, Unsubscribe(s, ch)
      PROVE  MemoryInv'
  BY <1>13 DEF Unsubscribe
<1>14. ASSUME NEW silent \in SUBSET Open, Alarm(silent)
      PROVE  MemoryInv'
  BY <1>14 DEF Alarm, Open
<1>15. ASSUME NEW ch \in Channel, NEW terminal \in BOOLEAN,
             HandleBroadcast(ch, terminal)
      PROVE  MemoryInv'
  BY <1>15 DEF HandleBroadcast
<1>16. CASE UNCHANGED wsVars
  BY <1>16
<1> QED
  BY <1>1, <1>2, <1>3, <1>4, <1>5, <1>6, <1>7, <1>8, <1>9,
     <1>10, <1>11, <1>12, <1>13, <1>14, <1>15, <1>16 DEF ServerNext

\* Handlers change table and attachment together.
LEMMA TableStep ==
  ASSUME ServerInv, [ServerNext]_wsVars
  PROVE  TableFollowsSockets'
<1> USE DEF ServerInv, ServerTypeOK, MemoryInv, TableFollowsSockets, Present,
            Wake
<1>1. ASSUME Evict
      PROVE  TableFollowsSockets'
  BY <1>1 DEF Evict, NoTable
<1>2. ASSUME Reject
      PROVE  TableFollowsSockets'
  BY <1>2 DEF Reject
<1>3. ASSUME AgeLog
      PROVE  TableFollowsSockets'
  BY <1>3 DEF AgeLog
<1>4. ASSUME ConsumeToken
      PROVE  TableFollowsSockets'
  BY <1>4 DEF ConsumeToken
<1>5. ASSUME Redeploy
      PROVE  TableFollowsSockets'
  BY <1>5 DEF Redeploy, NoTable
<1>6. ASSUME NEW s \in Socket, Connect(s)
      PROVE  TableFollowsSockets'
  <2>1. /\ state'[s] = "open" /\ s \notin Present
        /\ \A x \in Socket : x # s =>
             \/ state'[x] = state[x]
             \/ state[x] = "open" /\ state'[x] = "closing"
    BY <1>6 DEF Connect, Open
  <2>2. \A ch \in Channel : s \notin table[ch] /\ ch \notin channels[s]
    BY <1>6 DEF Connect
  <2>3. UNCHANGED <<table, channels, rebuilt>>
    BY <1>6 DEF Connect
  <2>4. ASSUME NEW c \in Channel, NEW x \in table[c]
        PROVE  state'[x] \in {"open", "closing", "failed"}
    BY <2>1, <2>2, <2>4
  <2>5. ASSUME NEW c \in Channel, rebuilt, NEW x \in Present'
        PROVE  x \in table[c] <=> c \in channels[x]
    <3>1. x = s \/ x \in Present
      BY <2>1
    <3> QED
      BY <2>2, <2>5, <3>1
  <2> QED
    BY <2>3, <2>4, <2>5
<1>7. ASSUME NEW s \in Socket, ConnectDelivery(s)
      PROVE  TableFollowsSockets'
  <2> DEFINE R == Reconstructed(Present)
  <2>1. /\ R \in [Channel -> SUBSET Socket]
        /\ \A c \in Channel :
             /\ \A x \in R[c] : state[x] \in {"open", "closing", "failed"}
             /\ \A x \in Present : x \in R[c] <=> c \in channels[x]
    BY ReconstructedFollows
  <2>2. /\ s \notin Present /\ of \in Channel
        /\ state[s] = "none"
        /\ state' = [state EXCEPT ![s] = "open"]
        /\ table' = [R EXCEPT ![of] = @ \cup {s}]
        /\ channels' = [channels EXCEPT ![s] = {of}]
    BY <1>7 DEF ConnectDelivery, Channel
  <2> HIDE DEF R
  <2> QED
    BY <2>1, <2>2
<1>8. ASSUME NEW s \in Socket, Replay(s)
      PROVE  TableFollowsSockets'
  BY <1>8 DEF Replay
<1>9. ASSUME NEW s \in Socket, Strike(s)
      PROVE  TableFollowsSockets'
  BY <1>9 DEF Strike, Open
<1>10. ASSUME NEW s \in Socket, WebSocketClose(s)
      PROVE  TableFollowsSockets'
  BY <1>10 DEF WebSocketClose, Drop
<1>11. ASSUME NEW s \in Socket, WebSocketError(s)
      PROVE  TableFollowsSockets'
  BY <1>11 DEF WebSocketError, Drop
<1>12. ASSUME NEW s \in Socket, NEW ch \in Channel, Subscribe(s, ch)
      PROVE  TableFollowsSockets'
  <2> DEFINE R == Reconstructed(Present)
  <2>1. /\ R \in [Channel -> SUBSET Socket]
        /\ \A c \in Channel :
             /\ \A x \in R[c] : state[x] \in {"open", "closing", "failed"}
             /\ \A x \in Present : x \in R[c] <=> c \in channels[x]
    BY ReconstructedFollows
  <2>2. /\ s \in Present /\ state' = state
        /\ table' = [R EXCEPT ![ch] = @ \cup {s}]
        /\ channels' = [channels EXCEPT ![s] = @ \cup {ch}]
    BY <1>12 DEF Subscribe
  <2> HIDE DEF R
  <2> QED
    BY <2>1, <2>2
<1>13. ASSUME NEW s \in Socket, NEW ch \in Channel, Unsubscribe(s, ch)
      PROVE  TableFollowsSockets'
  <2> DEFINE R == Reconstructed(Present)
  <2>1. /\ R \in [Channel -> SUBSET Socket]
        /\ \A c \in Channel :
             /\ \A x \in R[c] : state[x] \in {"open", "closing", "failed"}
             /\ \A x \in Present : x \in R[c] <=> c \in channels[x]
    BY ReconstructedFollows
  <2>2. /\ s \in Present /\ state' = state
        /\ table' = [R EXCEPT ![ch] = @ \ {s}]
        /\ channels' = [channels EXCEPT ![s] = @ \ {ch}]
    BY <1>13 DEF Unsubscribe
  <2> HIDE DEF R
  <2> QED
    BY <2>1, <2>2
<1>14. ASSUME NEW silent \in SUBSET Open, Alarm(silent)
      PROVE  TableFollowsSockets'
  BY <1>14 DEF Alarm, Open
<1>15. ASSUME NEW ch \in Channel, NEW terminal \in BOOLEAN,
             HandleBroadcast(ch, terminal)
      PROVE  TableFollowsSockets'
  BY <1>15, ReconstructedFollows DEF HandleBroadcast, Open
<1>16. CASE UNCHANGED wsVars
  BY <1>16
<1> QED
  BY <1>1, <1>2, <1>3, <1>4, <1>5, <1>6, <1>7, <1>8, <1>9,
     <1>10, <1>11, <1>12, <1>13, <1>14, <1>15, <1>16 DEF ServerNext

\* Only broadcasts add to the log, at its end.
LEMMA LogStep ==
  ASSUME ServerInv, [ServerNext]_wsVars
  PROVE  LogInv'
<1> USE DEF ServerInv, LogInv, Wake
<1>1. ASSUME Evict
      PROVE  LogInv'
  BY <1>1 DEF Evict, InOrder
<1>2. ASSUME Reject
      PROVE  LogInv'
  BY <1>2 DEF Reject
<1>3. ASSUME AgeLog
      PROVE  LogInv'
  <2>1. Len(log) > 0 /\ log' = Tail(log)
    BY <1>3 DEF AgeLog, ServerTypeOK
  <2> QED
    BY <1>3, <2>1, TailInOrder DEF AgeLog, ServerTypeOK
<1>4. ASSUME ConsumeToken
      PROVE  LogInv'
  BY <1>4 DEF ConsumeToken
<1>5. ASSUME Redeploy
      PROVE  LogInv'
  BY <1>5 DEF Redeploy, InOrder
<1>6. ASSUME NEW s \in Socket, Connect(s)
      PROVE  LogInv'
  BY <1>6 DEF Connect
<1>7. ASSUME NEW s \in Socket, ConnectDelivery(s)
      PROVE  LogInv'
  BY <1>7 DEF ConnectDelivery
<1>8. ASSUME NEW s \in Socket, Replay(s)
      PROVE  LogInv'
  BY <1>8 DEF Replay
<1>9. ASSUME NEW s \in Socket, Strike(s)
      PROVE  LogInv'
  BY <1>9 DEF Strike
<1>10. ASSUME NEW s \in Socket, WebSocketClose(s)
      PROVE  LogInv'
  BY <1>10 DEF WebSocketClose
<1>11. ASSUME NEW s \in Socket, WebSocketError(s)
      PROVE  LogInv'
  BY <1>11 DEF WebSocketError
<1>12. ASSUME NEW s \in Socket, NEW ch \in Channel, Subscribe(s, ch)
      PROVE  LogInv'
  BY <1>12 DEF Subscribe
<1>13. ASSUME NEW s \in Socket, NEW ch \in Channel, Unsubscribe(s, ch)
      PROVE  LogInv'
  BY <1>13 DEF Unsubscribe
<1>14. ASSUME NEW silent \in SUBSET Open, Alarm(silent)
      PROVE  LogInv'
  BY <1>14 DEF Alarm
<1>15. ASSUME NEW ch \in Channel, NEW terminal \in BOOLEAN,
             HandleBroadcast(ch, terminal)
      PROVE  LogInv'
  BY <1>15, PushInOrder DEF HandleBroadcast
<1>16. CASE UNCHANGED wsVars
  BY <1>16
<1> QED
  BY <1>1, <1>2, <1>3, <1>4, <1>5, <1>6, <1>7, <1>8, <1>9,
     <1>10, <1>11, <1>12, <1>13, <1>14, <1>15, <1>16 DEF ServerNext

\* What an open connection has heard of a channel after a step: the last event,
\* what it had heard before it, or nothing that the log could have told it.
KeptUp ==
  \A x \in Socket : state'[x] = "open" =>
    \A c \in channels'[x] :
      \/ heard'[x][c] = last[c]
      \/ state[x] = "open" /\ c \in channels[x] /\ heard'[x][c] = heard[x][c]
      \/ of \in DeliveryLink /\ Logged(c) = {}

LEMMA QuietStep ==
  ASSUME ServerTypeOK, ServerTypeOK', UpToDate, UNCHANGED <<of, last>>, KeptUp,
         \A c \in Channel : Logged(c) = {} => Logged(c)' = {}
  PROVE  UpToDate'
<1> SUFFICES ASSUME NEW x \in Socket, state'[x] = "open", NEW c \in channels'[x]
             PROVE  \/ heard'[x][c] = last[c]
                    \/ of \in DeliveryLink /\ Logged(c)' = {}
  BY DEF UpToDate, Open
<1>1. c \in Channel
  BY DEF ServerTypeOK
<1>2. CASE state[x] = "open" /\ c \in channels[x] /\ heard'[x][c] = heard[x][c]
  BY <1>1, <1>2 DEF UpToDate, Open
<1> QED
  BY <1>1, <1>2 DEF KeptUp

\* The same when the log stays as it is.
LEMMA QuietLogStep ==
  ASSUME ServerTypeOK, ServerTypeOK', UpToDate, UNCHANGED <<of, last, log>>,
         KeptUp
  PROVE  UpToDate'
<1>1. \A c : Logged(c)' = Logged(c)
  BY DEF Logged
<1> QED
  BY <1>1, QuietStep

\* Every open subscriber stays up to date.
LEMMA UpToDateStep ==
  ASSUME ServerInv, ServerTypeOK', [ServerNext]_wsVars
  PROVE  UpToDate'
<1> USE DEF ServerInv, Wake
<1>1. ASSUME Evict
      PROVE  UpToDate'
  <2>1. log' = <<>> /\ UNCHANGED <<of, state, channels, heard, last>>
    BY <1>1 DEF Evict
  <2>2. \A c \in Channel : Logged(c)' = {}
    BY <2>1 DEF Logged
  <2>3. KeptUp
    BY <2>1 DEF KeptUp
  <2> QED
    BY <2>1, <2>2, <2>3, QuietStep
<1>2. ASSUME Reject
      PROVE  UpToDate'
  <2>1. KeptUp /\ UNCHANGED <<of, last, log>>
    BY <1>2 DEF KeptUp, Reject
  <2> QED
    BY <2>1, QuietLogStep
<1>3. ASSUME AgeLog
      PROVE  UpToDate'
  <2>1. Len(log) > 0 /\ log' = Tail(log)
    BY <1>3 DEF AgeLog, ServerTypeOK
  <2>2. /\ Len(log') = Len(log) - 1
        /\ \A i \in 1..Len(log') : log'[i] = log[i + 1]
    BY <2>1, TailInOrder DEF LogInv, ServerTypeOK
  <2>3. ASSUME NEW c \in Channel, Logged(c) = {}
        PROVE  Logged(c)' = {}
    <3>1. \A i \in 1..Len(log) : log[i].ch # c
      BY <2>3 DEF Logged
    <3>2. \A i \in 1..Len(log') : log'[i].ch # c
      BY <2>1, <2>2, <3>1
    <3> QED
      BY <3>2 DEF Logged
  <2>4. UNCHANGED <<of, last>> /\ KeptUp
    BY <1>3 DEF AgeLog, KeptUp
  <2> QED
    BY <2>3, <2>4, QuietStep
<1>4. ASSUME ConsumeToken
      PROVE  UpToDate'
  <2>1. KeptUp /\ UNCHANGED <<of, last, log>>
    BY <1>4 DEF KeptUp, ConsumeToken
  <2> QED
    BY <2>1, QuietLogStep
<1>5. ASSUME Redeploy
      PROVE  UpToDate'
  BY <1>5 DEF Redeploy, UpToDate, Open, Present
<1>6. ASSUME NEW s \in Socket, Connect(s)
      PROVE  UpToDate'
  <2>1. channels[s] = {}
    BY <1>6 DEF Connect, MemoryInv, Present
  <2>2. KeptUp /\ UNCHANGED <<of, last, log>>
    BY <1>6, <2>1 DEF KeptUp, Connect, ServerTypeOK
  <2> QED
    BY <2>2, QuietLogStep
<1>7. ASSUME NEW s \in Socket, ConnectDelivery(s)
      PROVE  UpToDate'
  <2>1. /\ of \in DeliveryLink /\ of \in Channel /\ state[s] = "none"
        /\ state' = [state EXCEPT ![s] = "open"]
        /\ channels' = [channels EXCEPT ![s] = {of}]
        /\ heard' = [heard EXCEPT ![s][of] = Replayed(of)]
        /\ UNCHANGED <<of, log, last>>
    BY <1>7 DEF ConnectDelivery, Channel
  <2>2. heard'[s][of] = last[of] \/ Logged(of) = {}
    BY <2>1, ReplayIsLast DEF ServerTypeOK
  <2>3. KeptUp
    BY <2>1, <2>2 DEF KeptUp, ServerTypeOK
  <2> QED
    BY <2>1, <2>3, QuietLogStep
<1>8. ASSUME NEW s \in Socket, Replay(s)
      PROVE  UpToDate'
  <2>1. PICK i \in 1..Len(log) :
          heard' = [heard EXCEPT ![s] = [ch \in Channel |->
            IF \E j \in i..Len(log) : log[j].ch = ch /\ ch \in channels[s]
            THEN Replayed(ch) ELSE heard[s][ch]]]
    BY <1>8 DEF Replay
  <2>2. UNCHANGED <<of, state, channels, last, log>>
    BY <1>8 DEF Replay
  <2>3. ASSUME NEW c \in Channel, NEW j \in i..Len(log), log[j].ch = c
        PROVE  Replayed(c) = last[c]
    <3>1. j \in 1..Len(log)
      BY DEF ServerTypeOK
    <3>2. Logged(c) # {}
      BY <2>3, <3>1 DEF Logged
    <3> QED
      BY <3>2, ReplayIsLast
  <2>4. \A c \in Channel : heard'[s][c] \in {heard[s][c], last[c]}
    BY <2>1, <2>3 DEF ServerTypeOK
  <2>5. \A x \in Socket : x # s => heard'[x] = heard[x]
    BY <2>1 DEF ServerTypeOK
  <2>6. KeptUp
    BY <2>2, <2>4, <2>5 DEF KeptUp, ServerTypeOK
  <2> QED
    BY <2>2, <2>6, QuietLogStep
<1>9. ASSUME NEW s \in Socket, Strike(s)
      PROVE  UpToDate'
  <2>1. KeptUp /\ UNCHANGED <<of, last, log>>
    BY <1>9 DEF KeptUp, Strike
  <2> QED
    BY <2>1, QuietLogStep
<1>10. ASSUME NEW s \in Socket, WebSocketClose(s)
      PROVE  UpToDate'
  <2>1. KeptUp /\ UNCHANGED <<of, last, log>>
    BY <1>10 DEF KeptUp, WebSocketClose, Drop, ServerTypeOK
  <2> QED
    BY <2>1, QuietLogStep
<1>11. ASSUME NEW s \in Socket, WebSocketError(s)
      PROVE  UpToDate'
  <2>1. KeptUp /\ UNCHANGED <<of, last, log>>
    BY <1>11 DEF KeptUp, WebSocketError, Drop, ServerTypeOK
  <2> QED
    BY <2>1, QuietLogStep
<1>12. ASSUME NEW s \in Socket, NEW ch \in Channel, Subscribe(s, ch)
      PROVE  UpToDate'
  <2>1. KeptUp /\ UNCHANGED <<of, last, log>>
    BY <1>12 DEF KeptUp, Subscribe, ServerTypeOK
  <2> QED
    BY <2>1, QuietLogStep
<1>13. ASSUME NEW s \in Socket, NEW ch \in Channel, Unsubscribe(s, ch)
      PROVE  UpToDate'
  <2>1. KeptUp /\ UNCHANGED <<of, last, log>>
    BY <1>13 DEF KeptUp, Unsubscribe, ServerTypeOK
  <2> QED
    BY <2>1, QuietLogStep
<1>14. ASSUME NEW silent \in SUBSET Open, Alarm(silent)
      PROVE  UpToDate'
  <2>1. KeptUp /\ UNCHANGED <<of, last, log>>
    BY <1>14 DEF KeptUp, Alarm
  <2> QED
    BY <2>1, QuietLogStep
<1>15. ASSUME NEW ch \in Channel, NEW terminal \in BOOLEAN,
             HandleBroadcast(ch, terminal)
      PROVE  UpToDate'
  <2>1. /\ \A x \in Socket : state'[x] = "open" => state[x] = "open"
        /\ UNCHANGED <<of, channels>>
        /\ table' = Reconstructed(Present)
        /\ last' = [last EXCEPT ![ch] = @ + 1]
        /\ log' = Push(ch)
    BY <1>15 DEF HandleBroadcast, Open
  <2>2. \A x \in Socket :
          /\ \A c \in Channel : c # ch => heard'[x][c] = heard[x][c]
          /\ x \in Open /\ x \in table'[ch] => heard'[x][ch] = last[ch] + 1
    BY <1>15 DEF HandleBroadcast, ServerTypeOK
  <2>3. ASSUME NEW c \in Channel \ {ch}, Logged(c) = {}
        PROVE  Logged(c)' = {}
    <3>1. \A i \in 1..Len(log') : log'[i].ch # c
      BY <2>1, <2>3, PushInOrder
    <3> QED
      BY <3>1 DEF Logged
  <2>4. ASSUME NEW x \in Socket, state'[x] = "open", ch \in channels'[x]
        PROVE  heard'[x][ch] = last'[ch]
    <3>1. x \in Open /\ x \in Present /\ ch \in channels[x]
      BY <2>1, <2>4 DEF Present, Open
    <3>2. x \in table'[ch]
      BY <2>1, <3>1, ReconstructedFollows
    <3>3. last'[ch] = last[ch] + 1
      BY <2>1 DEF ServerTypeOK
    <3> QED
      BY <2>2, <3>1, <3>2, <3>3
  <2>5. ASSUME NEW x \in Socket, state'[x] = "open", NEW c \in channels'[x],
               c # ch
        PROVE  \/ heard'[x][c] = last'[c]
               \/ of' \in DeliveryLink /\ Logged(c)' = {}
    <3>1. x \in Open /\ c \in channels[x] /\ c \in Channel
      BY <2>1, <2>5 DEF Open, ServerTypeOK
    <3>2. heard'[x][c] = heard[x][c] /\ last'[c] = last[c]
      BY <2>1, <2>2, <2>5, <3>1 DEF ServerTypeOK
    <3>3. heard[x][c] = last[c] \/ (of \in DeliveryLink /\ Logged(c) = {})
      BY <3>1 DEF UpToDate
    <3> QED
      BY <2>1, <2>3, <2>5, <3>1, <3>2, <3>3
  <2> QED
    BY <2>4, <2>5 DEF UpToDate, Open
<1>16. CASE UNCHANGED wsVars
  <2>1. KeptUp
    BY <1>16 DEF KeptUp
  <2> QED
    BY <1>16, <2>1, QuietLogStep
<1> QED
  BY <1>1, <1>2, <1>3, <1>4, <1>5, <1>6, <1>7, <1>8, <1>9,
     <1>10, <1>11, <1>12, <1>13, <1>14, <1>15, <1>16 DEF ServerNext

LEMMA ServerInitInv == ServerInit => ServerInv
<1>1. <<>> \in Seq(Event)
  OBVIOUS
<1> SUFFICES ASSUME ServerInit PROVE ServerInv
  OBVIOUS
<1> USE DEF ServerInit, NoTable
<1>2. ServerTypeOK
  BY <1>1 DEF ServerTypeOK, States, Channel
<1>3. MemoryInv /\ TableFollowsSockets
  BY DEF MemoryInv, TableFollowsSockets, Present
<1>4. LogInv /\ UpToDate
  BY DEF LogInv, InOrder, UpToDate, Open
<1> QED
  BY <1>2, <1>3, <1>4 DEF ServerInv

LEMMA ServerInvStep == ServerInv /\ [ServerNext]_wsVars => ServerInv'
  BY TypedStep, MemoryStep, TableStep, LogStep, UpToDateStep DEF ServerInv

THEOREM ServerInvariant == ServerSpec => []ServerInv
  BY ServerInitInv, ServerInvStep, PTL DEF ServerSpec

-----------------------------------------------------------------------------
(* The limits                                                              *)

LEMMA FewerSockets ==
  ASSUME CountInv, of' = of, Present' \subseteq Present, Open' \subseteq Open
  PROVE  CountInv'
<1>0. Open \subseteq Present
  BY DEF Open, Present
<1>1. IsFiniteSet(Open)
  BY <1>0, FS_Subset DEF CountInv
<1>2. /\ IsFiniteSet(Present') /\ Cardinality(Present') <= Cardinality(Present)
      /\ Cardinality(Open') <= Cardinality(Open)
  BY <1>1, FS_Subset DEF CountInv
<1>3. /\ Cardinality(Present) \in Nat /\ Cardinality(Present') \in Nat
      /\ Cardinality(Open) \in Nat /\ IsFiniteSet(Open')
  BY <1>1, <1>2, FS_CardinalityType, FS_Subset DEF CountInv
<1>4. Cardinality(Open') \in Nat
  BY <1>3, FS_CardinalityType
<1> QED
  BY <1>2, <1>3, <1>4, ServerAssumption DEF CountInv, ConnectionsBounded

\* A user's connection: the sockets that can be sent to stay within the limit,
\* because one of them makes room.
LEMMA OneMoreSocket ==
  ASSUME CountInv, NEW s \in Socket, Connect(s), ServerTypeOK
  PROVE  CountInv'
<1>0. Open \subseteq Present /\ s \notin Present /\ s \notin Open /\ of' = of
  BY DEF Open, Present, Connect
<1>1. IsFiniteSet(Present) /\ IsFiniteSet(Open)
  BY <1>0, FS_Subset DEF CountInv
<1>2. /\ IsFiniteSet(Present \cup {s}) /\ IsFiniteSet(Open \cup {s})
      /\ Cardinality(Present \cup {s}) = Cardinality(Present) + 1
      /\ Cardinality(Open \cup {s}) = Cardinality(Open) + 1
  BY <1>0, <1>1, FS_AddElement
<1>3. /\ Cardinality(Present) \in Nat /\ Cardinality(Open) \in Nat
      /\ Cardinality(Open) <= Cardinality(Present)
  BY <1>0, <1>1, FS_CardinalityType, FS_Subset
<1>4. Present' = Present \cup {s}
  BY DEF Connect, Present, Open, ServerTypeOK
<1>5. Cardinality(Present) < MaxPerObject /\ of \in User
  BY DEF Connect
<1>6. CASE Cardinality(Present) < MaxPerUser
           /\ state' = [state EXCEPT ![s] = "open"]
  <2>1. Open' = Open \cup {s}
    BY <1>6 DEF Open, ServerTypeOK
  <2> QED
    BY <1>0, <1>2, <1>3, <1>4, <1>5, <1>6, <2>1, ServerAssumption
       DEF CountInv, ConnectionsBounded
<1>7. ASSUME NEW o \in Open,
             state' = [state EXCEPT ![s] = "open", ![o] = "closing"]
      PROVE  CountInv'
  <2>1. Open' = (Open \cup {s}) \ {o}
    BY <1>0, <1>7 DEF Open, ServerTypeOK
  <2>2. Cardinality((Open \cup {s}) \ {o}) = Cardinality(Open \cup {s}) - 1
    BY <1>2, FS_RemoveElement
  <2>3. Cardinality(Open') = Cardinality(Open)
    BY <1>2, <1>3, <2>1, <2>2
  <2> QED
    BY <1>0, <1>2, <1>3, <1>4, <1>5, <2>3, ServerAssumption
       DEF CountInv, ConnectionsBounded
<1> QED
  BY <1>6, <1>7 DEF Connect

LEMMA OneMoreViewer ==
  ASSUME CountInv, NEW s \in Socket, ConnectDelivery(s), ServerTypeOK
  PROVE  CountInv'
<1>0. s \notin Present /\ of' = of /\ of \notin User
  BY ServerAssumption DEF Present, ConnectDelivery
<1>1. Present' = Present \cup {s}
  BY DEF ConnectDelivery, Present, ServerTypeOK
<1>2. /\ IsFiniteSet(Present \cup {s})
      /\ Cardinality(Present \cup {s}) = Cardinality(Present) + 1
  BY <1>0, FS_AddElement DEF CountInv
<1>3. Cardinality(Present) < MaxPerObject /\ Cardinality(Present) \in Nat
  BY FS_CardinalityType DEF ConnectDelivery, CountInv
<1> QED
  BY <1>0, <1>1, <1>2, <1>3, ServerAssumption DEF CountInv, ConnectionsBounded

\* The limits hold after every step.
LEMMA CountStep ==
  ASSUME CountInv, ServerTypeOK, [ServerNext]_wsVars
  PROVE  CountInv'
<1> USE DEF ServerTypeOK
<1>1. ASSUME Evict
      PROVE  CountInv'
  BY <1>1, FewerSockets DEF Evict, Present, Open
<1>2. ASSUME Reject
      PROVE  CountInv'
  BY <1>2, FewerSockets DEF Reject, Present, Open
<1>3. ASSUME AgeLog
      PROVE  CountInv'
  BY <1>3, FewerSockets DEF AgeLog, Present, Open
<1>4. ASSUME ConsumeToken
      PROVE  CountInv'
  BY <1>4, FewerSockets DEF ConsumeToken, Present, Open
<1>5. ASSUME Redeploy
      PROVE  CountInv'
  BY <1>5, FewerSockets DEF Redeploy, Present, Open
<1>6. ASSUME NEW s \in Socket, Connect(s)
      PROVE  CountInv'
  BY <1>6, OneMoreSocket
<1>7. ASSUME NEW s \in Socket, ConnectDelivery(s)
      PROVE  CountInv'
  BY <1>7, OneMoreViewer
<1>8. ASSUME NEW s \in Socket, Replay(s)
      PROVE  CountInv'
  BY <1>8, FewerSockets DEF Replay, Present, Open
<1>9. ASSUME NEW s \in Socket, Strike(s)
      PROVE  CountInv'
  BY <1>9, FewerSockets DEF Strike, Present, Open
<1>10. ASSUME NEW s \in Socket, WebSocketClose(s)
      PROVE  CountInv'
  BY <1>10, FewerSockets DEF WebSocketClose, Drop, Present, Open
<1>11. ASSUME NEW s \in Socket, WebSocketError(s)
      PROVE  CountInv'
  BY <1>11, FewerSockets DEF WebSocketError, Drop, Present, Open
<1>12. ASSUME NEW s \in Socket, NEW ch \in Channel, Subscribe(s, ch)
      PROVE  CountInv'
  BY <1>12, FewerSockets DEF Subscribe, Present, Open
<1>13. ASSUME NEW s \in Socket, NEW ch \in Channel, Unsubscribe(s, ch)
      PROVE  CountInv'
  BY <1>13, FewerSockets DEF Unsubscribe, Present, Open
<1>14. ASSUME NEW silent \in SUBSET Open, Alarm(silent)
      PROVE  CountInv'
  BY <1>14, FewerSockets DEF Alarm, Present, Open
<1>15. ASSUME NEW ch \in Channel, NEW terminal \in BOOLEAN,
             HandleBroadcast(ch, terminal)
      PROVE  CountInv'
  BY <1>15, FewerSockets DEF HandleBroadcast, Present, Open
<1>16. CASE UNCHANGED wsVars
  BY <1>16, FewerSockets DEF Present, Open
<1> QED
  BY <1>1, <1>2, <1>3, <1>4, <1>5, <1>6, <1>7, <1>8, <1>9,
     <1>10, <1>11, <1>12, <1>13, <1>14, <1>15, <1>16 DEF ServerNext

-----------------------------------------------------------------------------
(* Theorems                                                                *)

\* Every variable of the object keeps its type.
THEOREM ServerTypeCorrect == ServerSpec => []ServerTypeOK
  BY ServerInvariant, PTL DEF ServerInv

\* The channel table follows the attachments across hibernation.
THEOREM TheTableFollowsSockets == ServerSpec => []TableFollowsSockets
  BY ServerInvariant, PTL DEF ServerInv

\* Subscribers are up to date however often the memory is lost.
THEOREM SubscribersAreUpToDate == ServerSpec => []UpToDate
  BY ServerInvariant, PTL DEF ServerInv

\* Connections stay within the limits of the user and of the object.
THEOREM ConnectionsStayBounded == ServerSpec => []ConnectionsBounded
<1>1. ServerInit => CountInv
  <2> SUFFICES ASSUME ServerInit PROVE CountInv
    OBVIOUS
  <2>1. Present = {} /\ Open = {}
    BY DEF ServerInit, Present, Open
  <2> QED
    BY <2>1, FS_EmptySet, ServerAssumption DEF CountInv, ConnectionsBounded
<1>2. CountInv /\ ServerTypeOK /\ [ServerNext]_wsVars => CountInv'
  BY CountStep
<1>3. CountInv => ConnectionsBounded
  BY DEF CountInv
<1> QED
  BY <1>1, <1>2, <1>3, ServerTypeCorrect, PTL DEF ServerSpec
=============================================================================
