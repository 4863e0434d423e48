--------------------------- MODULE WebSocketServer ---------------------------
(***************************************************************************)
(* One Durable Object of class WebSocketHibernationServer, with its        *)
(* ChannelManager and EventLog.  It serves the sockets of one user, or the *)
(* socket of one magic link's delivery status (routes/ws.ts).  The         *)
(* platform may drop the object's memory at any time between two events    *)
(* and keep its sockets with their attachments; the next event constructs  *)
(* it anew.  A handler takes no step of its own between two reads, so each *)
(* event is one action.                                                    *)
(***************************************************************************)
EXTENDS Integers, Sequences, FiniteSets

CONSTANTS
  User,              \* users; their object is named by their id
  DeliveryLink,      \* magic links; their object is named by the channel
  AdminChannel,      \* the channels of CHANNEL_PERMISSIONS
  Socket,            \* accepted connections
  MaxPerUser,        \* MAX_CONNECTIONS_PER_USER
  MaxPerObject,      \* MAX_CONNECTIONS_PER_DO
  MaxSubscriptions,  \* MAX_SUBSCRIPTIONS_PER_CONNECTION
  MaxEventLog,       \* MAX_EVENT_LOG
  MaxEvents          \* bound: broadcasts to a channel

ASSUME ServerAssumption ==
  /\ User \cap DeliveryLink = {} /\ (User \cup DeliveryLink) # {}
  /\ AdminChannel \cap (User \cup DeliveryLink) = {}
  /\ MaxPerUser \in Nat \ {0} /\ MaxPerObject \in Nat
  /\ MaxSubscriptions \in Nat /\ MaxEventLog \in Nat /\ MaxEvents \in Nat

VARIABLES
  of,        \* whose object this is
  token,     \* the magic link's delivery token: unused, used, or connected
  state,     \* none, open, closing, closed or failed, per socket
  channels,  \* the channels in the socket's attachment
  loaded,    \* whether the object is in memory
  rebuilt,   \* channelsReconstructed
  table,     \* ChannelManager.channels
  log,       \* EventLog.entries that are not older than EVENT_LOG_TTL_MS
  alarm,     \* whether an alarm is set
  last,      \* history: how many events each channel had
  heard      \* history: the last event of a channel a socket was sent

memory == <<loaded, rebuilt, table, log>>
sockets == <<token, state, channels, heard>>
wsVars == <<of, sockets, memory, alarm, last>>

\* The channel user:<id> or delivery:<id> is named by its owner.
Channel == User \cup DeliveryLink \cup AdminChannel
States == {"none", "open", "closing", "closed", "failed"}
Event == [ch : Channel, n : Nat]  \* a log entry, by its number in the channel

\* A socket stays in getWebSockets() after close() until the close event, and
\* send() throws from then on.
Open == {s \in Socket : state[s] = "open"}
Present == {s \in Socket : state[s] \in {"open", "closing"}}

NoTable == [ch \in Channel |-> {}]

ServerInit ==
  /\ of \in User \cup DeliveryLink
  /\ token = "unused"
  /\ state = [s \in Socket |-> "none"]
  /\ channels = [s \in Socket |-> {}]
  /\ loaded = FALSE /\ rebuilt = FALSE /\ table = NoTable /\ log = <<>>
  /\ alarm = FALSE
  /\ last = [ch \in Channel |-> 0]
  /\ heard = [s \in Socket |-> [ch \in Channel |-> 0]]
-----------------------------------------------------------------------------
(* Memory                                                                  *)

\* The constructor runs before the event if the object is not in memory, and
\* sets an alarm.
Wake == loaded' = TRUE /\ alarm' = (alarm \/ ~loaded)

\* The object hibernates or is moved: only sockets and attachments stay.
Evict ==
  /\ loaded
  /\ loaded' = FALSE /\ rebuilt' = FALSE /\ table' = NoTable /\ log' = <<>>
  /\ UNCHANGED <<of, sockets, alarm, last>>

\* A request that is answered with an error wakes the object all the same.
Reject ==
  ~loaded /\ Wake /\ UNCHANGED <<of, sockets, rebuilt, table, log, last>>

\* mutant: the table is taken for complete after a wake
StaleTable(present) == table

\* ensureChannelsReconstructed, with the sockets getWebSockets() returns.
Reconstructed(present) ==
  IF rebuilt THEN table
  ELSE [ch \in Channel |-> {s \in present : ch \in channels[s]}]

\* The numbers of the logged events of a channel.
Logged(ch) == {log[i].n : i \in {j \in 1..Len(log) : log[j].ch = ch}}

\* The oldest entry is older than the TTL, so replay leaves it out from now on.
AgeLog ==
  /\ log # <<>>
  /\ log' = Tail(log)
  /\ UNCHANGED <<of, sockets, loaded, rebuilt, table, alarm, last>>
-----------------------------------------------------------------------------
(* Connections: fetch                                                      *)

\* mutant: the limit is compared after the new connection is counted out
ConnectBeyond(s) ==
  /\ of \in User /\ state[s] = "none"
  /\ Cardinality(Present) < MaxPerObject
  /\ \/ /\ Cardinality(Present) <= MaxPerUser
        /\ state' = [state EXCEPT ![s] = "open"]
     \/ /\ Cardinality(Present) > MaxPerUser
        /\ \E o \in Open :
             state' = [state EXCEPT ![s] = "open", ![o] = "closing"]
  /\ Wake
  /\ UNCHANGED <<of, token, channels, heard, rebuilt, table, log, last>>

\* A user connects.  At the limit the first socket of getWebSockets() makes
\* room; which one that is, is up to the platform.  If it is closing already,
\* send() throws and the connection fails (Reject).
Connect(s) ==
  /\ of \in User /\ state[s] = "none"
  /\ Cardinality(Present) < MaxPerObject
  /\ \/ /\ Cardinality(Present) < MaxPerUser
        /\ state' = [state EXCEPT ![s] = "open"]
     \/ /\ Cardinality(Present) >= MaxPerUser
        /\ \E o \in Open :
             state' = [state EXCEPT ![s] = "open", ![o] = "closing"]
  /\ Wake
  /\ UNCHANGED <<of, token, channels, heard, rebuilt, table, log, last>>

\* /v1/ws/delivery marks the token as used before it asks the object.
ConsumeToken ==
  /\ of \in DeliveryLink /\ token = "unused"
  /\ token' = "used"
  /\ UNCHANGED <<of, state, channels, heard, memory, alarm, last>>

\* What a viewer has heard once the connection stands, with the log's replay.
Replayed(ch) ==
  IF Logged(ch) = {} THEN 0
  ELSE CHOOSE n \in Logged(ch) : \A k \in Logged(ch) : k <= n

\* The sign-in page watches a delivery: it is subscribed and sent the latest
\* event at once.
ConnectDelivery(s) ==
  /\ of \in DeliveryLink /\ state[s] = "none" /\ token = "used"
  /\ Cardinality(Present) < MaxPerObject
  /\ token' = "connected"
  /\ state' = [state EXCEPT ![s] = "open"]
  /\ channels' = [channels EXCEPT ![s] = {of}]
  /\ rebuilt' = TRUE
  /\ table' = [Reconstructed(Present) EXCEPT ![of] = @ \cup {s}]
  /\ heard' = [heard EXCEPT ![s][of] = Replayed(of)]
  /\ Wake
  /\ UNCHANGED <<of, log, last>>
-----------------------------------------------------------------------------
(* Messages of clients: webSocketMessage                                   *)

\* mutant: the attachment keeps the old list
SubscribeUnsaved(s, ch) ==
  /\ s \in Present /\ of \in User /\ ch \in AdminChannel \cup {of}
  /\ Cardinality(channels[s]) < MaxSubscriptions /\ ch \notin channels[s]
  /\ UNCHANGED channels
  /\ rebuilt' = TRUE
  /\ table' = [Reconstructed(Present) EXCEPT ![ch] = @ \cup {s}]
  /\ heard' = [heard EXCEPT ![s][ch] = last[ch]]
  /\ Wake
  /\ UNCHANGED <<of, token, state, log, last>>

\* handleSubscribe: the user's own channel or an admin channel its permissions
\* allow.  Nothing is promised about events before it: heard starts at last.
Subscribe(s, ch) ==
  /\ s \in Present /\ of \in User /\ ch \in AdminChannel \cup {of}
  /\ Cardinality(channels[s]) < MaxSubscriptions /\ ch \notin channels[s]
  /\ channels' = [channels EXCEPT ![s] = @ \cup {ch}]
  /\ rebuilt' = TRUE
  /\ table' = [Reconstructed(Present) EXCEPT ![ch] = @ \cup {s}]
  /\ heard' = [heard EXCEPT ![s][ch] = last[ch]]
  /\ Wake
  /\ UNCHANGED <<of, token, state, log, last>>

\* handleUnsubscribe asks for no subscription and no permission.
Unsubscribe(s, ch) ==
  /\ s \in Present /\ of \in User
  /\ channels' = [channels EXCEPT ![s] = @ \ {ch}]
  /\ rebuilt' = TRUE
  /\ table' = [Reconstructed(Present) EXCEPT ![ch] = @ \ {s}]
  /\ Wake
  /\ UNCHANGED <<of, token, state, heard, log, last>>

\* handleReplay sends what the client's timestamp leaves of the log: a suffix.
Replay(s) ==
  /\ s \in Open
  /\ \E i \in 1..Len(log) :
       heard' = [heard EXCEPT ![s] = [ch \in Channel |->
         IF \E j \in i..Len(log) : log[j].ch = ch /\ ch \in channels[s]
         THEN Replayed(ch) ELSE heard[s][ch]]]
  /\ Wake
  /\ UNCHANGED <<of, token, state, channels, rebuilt, table, log, last>>

\* addStrike: the last malformed message closes the connection.
Strike(s) ==
  /\ s \in Open
  /\ state' = [state EXCEPT ![s] = "closing"]
  /\ Wake
  /\ UNCHANGED <<of, token, channels, heard, rebuilt, table, log, last>>
-----------------------------------------------------------------------------
(* Ends of connections                                                     *)

\* The attachment goes with the socket.
Drop(s, how) ==
  /\ state' = [state EXCEPT ![s] = how]
  /\ channels' = [channels EXCEPT ![s] = {}]
  /\ heard' = [heard EXCEPT ![s] = [ch \in Channel |-> 0]]

\* webSocketClose, with unsubscribeAll.
WebSocketClose(s) ==
  /\ s \in Present
  /\ Drop(s, "closed")
  /\ table' = [ch \in Channel |-> table[ch] \ {s}]
  /\ Wake
  /\ UNCHANGED <<of, token, rebuilt, log, last>>

\* webSocketError leaves the table alone.
WebSocketError(s) ==
  /\ s \in Present
  /\ Drop(s, "failed")
  /\ Wake
  /\ UNCHANGED <<of, token, rebuilt, table, log, last>>

\* A deployment restarts the object and ends every connection.
Redeploy ==
  /\ state' = [s \in Socket |-> IF s \in Present THEN "failed" ELSE state[s]]
  /\ channels' = [s \in Socket |-> {}]
  /\ heard' = [s \in Socket |-> [ch \in Channel |-> 0]]
  /\ loaded' = FALSE /\ rebuilt' = FALSE /\ table' = NoTable /\ log' = <<>>
  /\ UNCHANGED <<of, token, alarm, last>>

\* alarm(): sockets without a recent pong, and idle ones without channels, are
\* closed.  The constructor of an object that the alarm woke has set the next.
Alarm(silent) ==
  /\ alarm
  /\ state' = [s \in Socket |-> IF s \in silent THEN "closing" ELSE state[s]]
  /\ loaded' = TRUE
  /\ alarm' = (~loaded \/ Present # {})
  /\ UNCHANGED <<of, token, channels, heard, rebuilt, table, log, last>>
-----------------------------------------------------------------------------
(* Broadcasts of the Worker: handleBroadcast                               *)

\* EventLog.push
Push(ch) ==
  LET all == Append(log, [ch |-> ch, n |-> last[ch] + 1])
  IN  IF Len(all) > MaxEventLog THEN Tail(all) ELSE all

\* The event is logged and sent to every subscriber that can still be sent to.
\* A terminal delivery status then closes them.
HandleBroadcast(ch, terminal) ==
  /\ last[ch] < MaxEvents
  /\ ch \in IF of \in User THEN AdminChannel \cup {of} ELSE {of}
  /\ rebuilt' = TRUE
  /\ table' = Reconstructed(Present)
  /\ last' = [last EXCEPT ![ch] = @ + 1]
  /\ log' = Push(ch)
  /\ heard' = [s \in Socket |-> IF s \in Open /\ s \in table'[ch]
                 THEN [heard[s] EXCEPT ![ch] = last[ch] + 1] ELSE heard[s]]
  /\ state' = [s \in Socket |->
                 IF terminal /\ ch \in DeliveryLink /\ s \in Open
                    /\ s \in table'[ch]
                 THEN "closing" ELSE state[s]]
  /\ Wake
  /\ UNCHANGED <<of, token, channels>>
-----------------------------------------------------------------------------
ServerNext ==
  \/ Evict \/ Reject \/ AgeLog \/ ConsumeToken \/ Redeploy
  \/ \E s \in Socket :
       \/ Connect(s) \/ ConnectDelivery(s)
       \/ Replay(s) \/ Strike(s) \/ WebSocketClose(s) \/ WebSocketError(s)
       \/ \E ch \in Channel : Subscribe(s, ch) \/ Unsubscribe(s, ch)
  \/ \E silent \in SUBSET Open : Alarm(silent)
  \/ \E ch \in Channel, terminal \in BOOLEAN : HandleBroadcast(ch, terminal)

ServerSpec == ServerInit /\ [][ServerNext]_wsVars
-----------------------------------------------------------------------------
(* Properties                                                              *)

ServerTypeOK ==
  /\ of \in User \cup DeliveryLink
  /\ token \in {"unused", "used", "connected"}
  /\ state \in [Socket -> States]
  /\ channels \in [Socket -> SUBSET Channel]
  /\ loaded \in BOOLEAN /\ rebuilt \in BOOLEAN /\ alarm \in BOOLEAN
  /\ table \in [Channel -> SUBSET Socket]
  /\ log \in Seq(Event)
  /\ last \in [Channel -> Nat]
  /\ heard \in [Socket -> [Channel -> Nat]]

\* Once the channel table is rebuilt, a connection is in it under exactly the
\* channels of its attachment, across subscriptions, hibernation and closes;
\* beyond that it holds only sockets that ended with an error
\* (websocket-server.ts:85, channel-manager.ts:107).
TableFollowsSockets ==
  \A ch \in Channel :
    /\ \A s \in table[ch] : state[s] \in {"open", "closing", "failed"}
    /\ rebuilt => \A s \in Present : s \in table[ch] <=> ch \in channels[s]

\* An open connection was sent the last event of each of its channels, however
\* often the object lost its memory.  A delivery viewer may have come too late:
\* then no event of the link is left in the log (websocket-server.ts:294).
UpToDate ==
  \A s \in Open : \A ch \in channels[s] :
    heard[s][ch] = last[ch] \/ (of \in DeliveryLink /\ Logged(ch) = {})

\* A user never has more open connections than the limit, and an object never
\* more sockets than its own (websocket-server.ts:231-253).
ConnectionsBounded ==
  /\ of \in User => Cardinality(Open) <= MaxPerUser
  /\ Cardinality(Present) <= MaxPerObject
=============================================================================
