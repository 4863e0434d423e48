------------------------------ MODULE TabProofs ------------------------------
(***************************************************************************)
(* What holds of the tabs of one user for any number of tabs, sockets and  *)
(* retries, however messages, timers and close events interleave.          *)
(***************************************************************************)
EXTENDS TabConnection, TLAPS

USE DEF tabVars, socketVars, clientVars

-----------------------------------------------------------------------------
(* The election.                                                           *)

\* Posting leaves every inbox a sequence of messages.
LEMMA BroadcastTyped ==
  ASSUME NEW box \in [Tab -> Seq(Message)], NEW t \in Tab, NEW m \in Message
  PROVE  Broadcast(box, t, m) \in [Tab -> Seq(Message)]
  BY DEF Broadcast

LEMMA HandledTyped ==
  ASSUME TabTypeOK, NEW t \in Tab, inbox[t] # <<>>
  PROVE  Handled(t) \in [Tab -> Seq(Message)]
  BY DEF TabTypeOK, Handled

LEMMA TabTypedStep == TabTypeOK /\ [TabNext]_tabVars => TabTypeOK'
<1> SUFFICES ASSUME TabTypeOK, [TabNext]_tabVars PROVE TabTypeOK'
  OBVIOUS
<1> USE DEF TabTypeOK
<1>0. {"heartbeat", "claim", "resign"} = Message
  BY DEF Message
<1>1. ASSUME NEW t \in Tab, Open(t)
      PROVE  TabTypeOK'
  BY <1>0, <1>1, BroadcastTyped DEF Open
<1>2. ASSUME NEW t \in Tab, Beat(t)
      PROVE  TabTypeOK'
  BY <1>0, <1>2, BroadcastTyped DEF Beat
<1>3. ASSUME NEW t \in Tab, HearHeartbeat(t)
      PROVE  TabTypeOK'
  BY <1>3, HandledTyped DEF HearHeartbeat, Hears
<1>4. ASSUME NEW t \in Tab, HearClaim(t)
      PROVE  TabTypeOK'
  <2>1. Handled(t) \in [Tab -> Seq(Message)]
    BY <1>4, HandledTyped DEF HearClaim, Hears
  <2>2. Broadcast(Handled(t), t, "heartbeat") \in [Tab -> Seq(Message)]
    BY <1>0, <2>1, BroadcastTyped
  <2> QED
    BY <1>4, <2>1, <2>2 DEF HearClaim
<1>5. ASSUME NEW t \in Tab, HearResign(t)
      PROVE  TabTypeOK'
  <2>1. Handled(t) \in [Tab -> Seq(Message)]
    BY <1>5, HandledTyped DEF HearResign, Hears
  <2>2. Broadcast(Handled(t), t, "claim") \in [Tab -> Seq(Message)]
    BY <1>0, <2>1, BroadcastTyped
  <2> QED
    BY <1>5, <2>2 DEF HearResign
<1>6. ASSUME NEW t \in Tab, Timeout(t)
      PROVE  TabTypeOK'
  BY <1>0, <1>6, BroadcastTyped DEF Timeout
<1>7. ASSUME NEW t \in Tab, Destroy(t)
      PROVE  TabTypeOK'
  <2>1. Broadcast(inbox, t, "resign") \in [Tab -> Seq(Message)]
    BY <1>0, BroadcastTyped
  <2> QED
    BY <1>7, <2>1 DEF Destroy
<1>8. ASSUME NEW t \in Tab, Kill(t)
      PROVE  TabTypeOK'
  BY <1>8 DEF Kill
<1>9. CASE UNCHANGED tabVars
  BY <1>9
<1> QED
  BY <1>1, <1>2, <1>3, <1>4, <1>5, <1>6, <1>7, <1>8, <1>9 DEF TabNext, Hear

\* Every tab, timer and inbox only takes the values the coordinator knows.
THEOREM TabTypeCorrect == TabSpec => []TabTypeOK
<1>1. TabInit => TabTypeOK
  BY DEF TabInit, TabTypeOK
<1> QED
  BY <1>1, TabTypedStep, PTL DEF TabSpec

LEMMA WatchStep == TabTypeOK /\ FollowersWatch /\ [TabNext]_tabVars => FollowersWatch'
<1> SUFFICES ASSUME TabTypeOK, FollowersWatch, [TabNext]_tabVars
             PROVE  FollowersWatch'
  OBVIOUS
<1> USE DEF TabTypeOK, FollowersWatch, Opened
<1>1. ASSUME NEW t \in Tab, Open(t) \/ Beat(t) \/ HearClaim(t) \/ HearResign(t)
      PROVE  FollowersWatch'
  BY <1>1 DEF Open, Beat, HearClaim, HearResign
<1>2. ASSUME NEW t \in Tab, HearHeartbeat(t)
      PROVE  FollowersWatch'
  BY <1>2 DEF HearHeartbeat
<1>3. ASSUME NEW t \in Tab, Timeout(t)
      PROVE  FollowersWatch'
  BY <1>3 DEF Timeout
<1>4. ASSUME NEW t \in Tab, Destroy(t) \/ Kill(t)
      PROVE  FollowersWatch'
  BY <1>4 DEF Destroy, Kill
<1>5. CASE UNCHANGED tabVars
  BY <1>5
<1> QED
  BY <1>1, <1>2, <1>3, <1>4, <1>5 DEF TabNext, Hear

\* No follower is ever left with its timer stopped.
THEOREM FollowersAlwaysWatch == TabSpec => []FollowersWatch
<1>1. TabInit => FollowersWatch
  BY DEF TabInit, FollowersWatch, Opened
<1> QED
  BY <1>1, TabTypeCorrect, WatchStep, PTL DEF TabSpec

\* Of a tab that is not open nothing is left in the set of leaders.
LeadersAreOpen == \A t \in leader : Opened(t)

TabInv == TabTypeOK /\ LeadersAreOpen

LEMMA TabInvStep == TabInv /\ [TabNext]_tabVars => TabInv'
<1> SUFFICES ASSUME TabInv, [TabNext]_tabVars PROVE TabInv'
  OBVIOUS
<1>0. TabTypeOK'
  BY TabTypedStep DEF TabInv
<1> USE DEF TabInv, TabTypeOK, LeadersAreOpen, Opened
<1>1. ASSUME NEW t \in Tab, Open(t) \/ Beat(t) \/ HearHeartbeat(t) \/ HearClaim(t)
      PROVE  LeadersAreOpen'
  BY <1>1 DEF Open, Beat, HearHeartbeat, HearClaim
<1>2. ASSUME NEW t \in Tab, HearResign(t) \/ Timeout(t)
      PROVE  LeadersAreOpen'
  BY <1>2 DEF HearResign, Timeout, Hears
<1>3. ASSUME NEW t \in Tab, Destroy(t) \/ Kill(t)
      PROVE  LeadersAreOpen'
  BY <1>3 DEF Destroy, Kill
<1>4. CASE UNCHANGED tabVars
  BY <1>4
<1> QED
  BY <1>0, <1>1, <1>2, <1>3, <1>4 DEF TabNext, Hear

\* A message that is posted reaches every open tab but its sender, behind what
\* is there already.
LEMMA PostedIsMail ==
  ASSUME TabTypeOK, NEW box \in [Tab -> Seq(Message)], NEW t \in Tab,
         NEW m \in {"claim", "heartbeat"}, inbox' = Broadcast(box, t, m),
         NEW s \in Tab, s # t, Opened(s)
  PROVE  HasMail(s)'
<1>1. box[s] \in Seq(Message) /\ m \in Message
  BY DEF Message
<1>2. inbox'[s] = Append(box[s], m)
  BY DEF Broadcast
<1>3. /\ Len(Append(box[s], m)) = Len(box[s]) + 1 /\ Len(box[s]) \in Nat
      /\ Append(box[s], m)[Len(box[s]) + 1] = m
  BY <1>1
<1> QED
  BY <1>2, <1>3 DEF HasMail

\* A step in which a tab posts a claim or a heartbeat tells all the others.
LEMMA PostingWarns ==
  ASSUME TabTypeOK, TabInv', NEW box \in [Tab -> Seq(Message)], NEW t \in Tab,
         NEW m \in {"claim", "heartbeat"}, inbox' = Broadcast(box, t, m),
         \A s \in Tab \ {t} : life'[s] = life[s]
  PROVE  RivalsHaveMail'
<1>1. ASSUME NEW s \in leader', s # t
      PROVE  HasMail(s)'
  <2>1. s \in Tab /\ Opened(s)
    BY <1>1 DEF TabInv, TabTypeOK, LeadersAreOpen, Opened
  <2> QED
    BY <1>1, <2>1, PostedIsMail
<1> QED
  BY <1>1 DEF RivalsHaveMail

\* A step that makes no tab a leader and takes no message from those that lead
\* on leaves the rivals their mail.
LEMMA RivalsKeepMail ==
  ASSUME RivalsHaveMail, leader' \subseteq leader,
         \A s \in leader' : HasMail(s) => HasMail(s)'
  PROVE  RivalsHaveMail'
  BY DEF RivalsHaveMail

LEMMA RivalsStep ==
  TabInv /\ RivalsHaveMail /\ [TabNext]_tabVars => RivalsHaveMail'
<1> SUFFICES ASSUME TabInv, RivalsHaveMail, [TabNext]_tabVars
             PROVE  RivalsHaveMail'
  OBVIOUS
<1>0. TabTypeOK /\ TabInv' /\ inbox \in [Tab -> Seq(Message)]
  BY TabInvStep DEF TabInv, TabTypeOK
<1>1. ASSUME NEW t \in Tab, Open(t) \/ Beat(t)
      PROVE  RivalsHaveMail'
  <2>1. \E m \in {"claim", "heartbeat"} : inbox' = Broadcast(inbox, t, m)
    BY <1>1 DEF Open, Beat
  <2>2. \A s \in Tab \ {t} : life'[s] = life[s]
    BY <1>0, <1>1 DEF Open, Beat, TabTypeOK
  <2> QED
    BY <1>0, <2>1, <2>2, PostingWarns
<1>2. ASSUME NEW t \in Tab, HearHeartbeat(t)
      PROVE  RivalsHaveMail'
  <2>1. leader' = leader \ {t} /\ \A s \in Tab \ {t} : inbox'[s] = inbox[s]
    BY <1>0, <1>2 DEF HearHeartbeat, Handled
  <2> QED
    BY <1>0, <2>1, RivalsKeepMail DEF HasMail, TabTypeOK
<1>3. ASSUME NEW t \in Tab, HearClaim(t)
      PROVE  RivalsHaveMail'
  <2>1. Handled(t) \in [Tab -> Seq(Message)]
    BY <1>0, <1>3, HandledTyped DEF HearClaim, Hears
  <2>2. CASE t \in leader
    <3>1. inbox' = Broadcast(Handled(t), t, "heartbeat") /\ life' = life
      BY <1>3, <2>2 DEF HearClaim
    <3> QED
      BY <1>0, <2>1, <3>1, PostingWarns
  <2>3. CASE t \notin leader
    <3>1. leader' = leader /\ \A s \in Tab \ {t} : inbox'[s] = inbox[s]
      BY <1>0, <1>3, <2>3 DEF HearClaim, Handled
    <3> QED
      BY <1>0, <2>3, <3>1, RivalsKeepMail DEF HasMail, TabTypeOK
  <2> QED
    BY <2>2, <2>3
<1>4. ASSUME NEW t \in Tab, HearResign(t)
      PROVE  RivalsHaveMail'
  <2>1. Handled(t) \in [Tab -> Seq(Message)]
    BY <1>0, <1>4, HandledTyped DEF HearResign, Hears
  <2>2. inbox' = Broadcast(Handled(t), t, "claim") /\ life' = life
    BY <1>4 DEF HearResign
  <2> QED
    BY <1>0, <2>1, <2>2, PostingWarns
<1>5. ASSUME NEW t \in Tab, Timeout(t)
      PROVE  RivalsHaveMail'
  <2>1. CASE t \in leader
    BY <1>5, <2>1, RivalsKeepMail DEF Timeout, HasMail
  <2>2. CASE t \notin leader
    <3>1. inbox' = Broadcast(inbox, t, "claim") /\ life' = life
      BY <1>5, <2>2 DEF Timeout
    <3> QED
      BY <1>0, <3>1, PostingWarns
  <2> QED
    BY <2>1, <2>2
<1>6. ASSUME NEW t \in Tab, Destroy(t)
      PROVE  RivalsHaveMail'
  <2>1. ASSUME NEW s \in leader', HasMail(s)
        PROVE  HasMail(s)'
    <3>1. s \in Tab /\ s # t /\ inbox[s] \in Seq(Message)
      BY <1>0, <1>6 DEF Destroy, TabTypeOK
    <3>2. inbox'[s] \in {inbox[s], Append(inbox[s], "resign")}
      BY <1>0, <1>6, <3>1 DEF Destroy, Broadcast
    <3>3. PICK i \in 1..Len(inbox[s]) : inbox[s][i] \in {"claim", "heartbeat"}
      BY <2>1 DEF HasMail
    <3>4. /\ Append(inbox[s], "resign")[i] = inbox[s][i]
          /\ i \in 1..Len(Append(inbox[s], "resign"))
      BY <3>1, <3>3 DEF Message
    <3> QED
      BY <3>2, <3>3, <3>4 DEF HasMail
  <2> QED
    BY <1>6, <2>1, RivalsKeepMail DEF Destroy
<1>7. ASSUME NEW t \in Tab, Kill(t)
      PROVE  RivalsHaveMail'
  <2>1. leader' = leader \ {t} /\ \A s \in Tab \ {t} : inbox'[s] = inbox[s]
    BY <1>0, <1>7 DEF Kill
  <2> QED
    BY <1>0, <2>1, RivalsKeepMail DEF HasMail, TabTypeOK
<1>8. CASE UNCHANGED tabVars
  BY <1>8, RivalsKeepMail DEF HasMail
<1> QED
  BY <1>1, <1>2, <1>3, <1>4, <1>5, <1>6, <1>7, <1>8 DEF TabNext, Hear

LEMMA TabInvariance == TabSpec => []TabInv
<1>1. TabInit => TabInv
  BY DEF TabInit, TabInv, TabTypeOK, LeadersAreOpen
<1> QED
  BY <1>1, TabInvStep, PTL DEF TabSpec

\* For any number of tabs, two leaders never go unnoticed by both.
THEOREM RivalsAlwaysHaveMail == TabSpec => []RivalsHaveMail
<1>1. TabInit => RivalsHaveMail
  BY DEF TabInit, RivalsHaveMail
<1> QED
  BY <1>1, TabInvariance, RivalsStep, PTL DEF TabSpec

-----------------------------------------------------------------------------
(* The provider on top of it.                                              *)

\* The provider's part in a task never changes the coordinator's.
LEMMA ClientStepsAreTabSteps == [ClientNext]_clientVars => [TabNext]_tabVars
  BY DEF ClientNext, TabNext, Hear, Mount, Yield, Reassert, Succeed, Promote, Unmount,
         Discard, Reconnect, Wake, ReconnectNow, SocketOpens, SocketFails, SocketCloses

\* The provider runs the election as it is: what holds of the coordinators
\* alone holds of the coordinators in their providers.
THEOREM ClientRunsElection == ClientSpec => TabSpec
<1>1. ClientInit => TabInit
  BY DEF ClientInit
<1> QED
  BY <1>1, ClientStepsAreTabSteps, PTL DEF ClientSpec, TabSpec

\* What Connect makes of the sockets.
LEMMA ConnectEffect ==
  ASSUME SocketTypeOK, NEW t \in Tab,
         NEW before \in [Socket -> {"none", "connecting", "open", "closing"}],
         Connect(t, before)
  PROVE  /\ sock' \in [Tab -> [Socket -> {"none", "connecting", "open", "closing"}]]
         /\ ref' \in [Tab -> SUBSET Socket]
         /\ \E k \in Socket : sock'[t][k] # "none"
         /\ \A s \in Tab : s # t => sock'[s] = sock[s] /\ ref'[s] = ref[s]
<1>1. PICK k \in Socket :
        /\ sock' = [sock EXCEPT ![t] = [before EXCEPT ![k] = "connecting"]]
        /\ ref' = [ref EXCEPT ![t] = {k}]
  BY DEF Connect
<1>2. [before EXCEPT ![k] = "connecting"]
        \in [Socket -> {"none", "connecting", "open", "closing"}]
  OBVIOUS
<1>3. sock'[t][k] = "connecting"
  BY <1>1 DEF SocketTypeOK
<1> QED
  BY <1>1, <1>2, <1>3 DEF SocketTypeOK

LEMMA ClosedTyped ==
  ASSUME SocketTypeOK, NEW t \in Tab
  PROVE  Closed(t) \in [Socket -> {"none", "connecting", "open", "closing"}]
  BY DEF SocketTypeOK, Closed

\* The inductive invariant of the provider.
ClientInv == TabInv /\ SocketTypeOK /\ OnlyLeadersUseSockets /\ LeaderIsConnecting

LEMMA ClientInitInv == ClientInit => ClientInv
<1> SUFFICES ASSUME ClientInit PROVE ClientInv
  OBVIOUS
<1>1. TabInv
  BY DEF ClientInit, TabInit, TabInv, TabTypeOK, LeadersAreOpen
<1>2. SocketTypeOK
  BY SocketAssumption DEF ClientInit, SocketInit, SocketTypeOK
<1> QED
  BY <1>1, <1>2
  DEF ClientInit, TabInit, SocketInit, ClientInv, OnlyLeadersUseSockets, LeaderIsConnecting

\* Only t's part of the state changes, or its neighbours' in what the
\* invariant does not speak of.
TouchesOnly(t) ==
  \A s \in Tab \ {t} :
    /\ sock'[s] = sock[s] /\ ref'[s] = ref[s] /\ retries'[s] = retries[s]
    /\ life'[s] = life[s]
    /\ s \in leader' <=> s \in leader
    /\ s \in pending => s \in pending'

\* t's own part of the invariant.
UsesAsLeader(t) == ref[t] # {} => life[t] = "open" /\ t \in leader
IsConnecting(t) ==
  t \in leader => \/ \E k \in Socket : sock[t][k] # "none"
                  \/ t \in pending
                  \/ retries[t] = MaxRetries

LEMMA OneTab ==
  ASSUME ClientInv, NEW t \in Tab, TouchesOnly(t),
         TabInv', SocketTypeOK', UsesAsLeader(t)', IsConnecting(t)'
  PROVE  ClientInv'
<1>1. OnlyLeadersUseSockets'
  <2> SUFFICES ASSUME NEW s \in Tab, ref'[s] # {}
               PROVE  life'[s] = "open" /\ s \in leader'
    BY DEF OnlyLeadersUseSockets, Opened
  <2>1. CASE s = t
    BY <2>1 DEF UsesAsLeader
  <2>2. CASE s # t
    BY <2>2 DEF TouchesOnly, ClientInv, OnlyLeadersUseSockets, Opened
  <2> QED
    BY <2>1, <2>2
<1>2. LeaderIsConnecting'
  <2> SUFFICES ASSUME NEW s \in Tab, s \in leader'
               PROVE  \/ \E k \in Socket : sock'[s][k] # "none"
                      \/ s \in pending'
                      \/ retries'[s] = MaxRetries
    BY DEF LeaderIsConnecting, TabInv, TabTypeOK
  <2>1. CASE s = t
    BY <2>1 DEF IsConnecting
  <2>2. CASE s # t
    BY <2>2 DEF TouchesOnly, ClientInv, LeaderIsConnecting
  <2> QED
    BY <2>1, <2>2
<1> QED
  BY <1>1, <1>2 DEF ClientInv

\* What Connect does for the invariant, in a step that leaves the tab leading.
LEMMA ConnectStep ==
  ASSUME ClientInv, TabInv', NEW t \in Tab,
         NEW before \in [Socket -> {"none", "connecting", "open", "closing"}],
         Connect(t, before),
         life'[t] = "open", leader' = leader \cup {t},
         \A s \in Tab \ {t} : life'[s] = life[s],
         pending' \in SUBSET Tab, retries' \in [Tab -> 0 .. MaxRetries],
         \A s \in Tab \ {t} : (s \in pending => s \in pending') /\ retries'[s] = retries[s]
  PROVE  ClientInv'
<1>0. SocketTypeOK
  BY DEF ClientInv
<1>1. /\ sock' \in [Tab -> [Socket -> {"none", "connecting", "open", "closing"}]]
      /\ ref' \in [Tab -> SUBSET Socket]
      /\ \E k \in Socket : sock'[t][k] # "none"
      /\ \A s \in Tab : s # t => sock'[s] = sock[s] /\ ref'[s] = ref[s]
  BY <1>0, ConnectEffect
<1>2. SocketTypeOK'
  BY <1>1 DEF SocketTypeOK
<1>3. TouchesOnly(t)
  BY <1>1 DEF TouchesOnly
<1>4. UsesAsLeader(t)' /\ IsConnecting(t)'
  BY <1>1 DEF UsesAsLeader, IsConnecting
<1> QED
  BY <1>2, <1>3, <1>4, OneTab

\* What giving up the socket wsRef holds does for it, in a step that leaves the
\* tab following.
LEMMA DisconnectStep ==
  ASSUME ClientInv, TabInv', NEW t \in Tab,
         sock' \in [Tab -> [Socket -> {"none", "connecting", "open", "closing"}]],
         \A s \in Tab \ {t} : sock'[s] = sock[s],
         ref' = [ref EXCEPT ![t] = {}],
         leader' = leader \ {t},
         \A s \in Tab \ {t} : life'[s] = life[s],
         pending' \in SUBSET Tab, retries' \in [Tab -> 0 .. MaxRetries],
         \A s \in Tab \ {t} : (s \in pending => s \in pending') /\ retries'[s] = retries[s]
  PROVE  ClientInv'
<1>0. SocketTypeOK
  BY DEF ClientInv
<1>1. /\ ref' \in [Tab -> SUBSET Socket] /\ ref'[t] = {}
      /\ \A s \in Tab : s # t => ref'[s] = ref[s]
  BY <1>0 DEF SocketTypeOK
<1>2. SocketTypeOK'
  BY <1>1 DEF SocketTypeOK
<1>3. TouchesOnly(t)
  BY <1>1 DEF TouchesOnly
<1>4. UsesAsLeader(t)' /\ IsConnecting(t)'
  BY <1>1 DEF UsesAsLeader, IsConnecting
<1> QED
  BY <1>2, <1>3, <1>4, OneTab

LEMMA ClientInvStep == ClientInv /\ [ClientNext]_clientVars => ClientInv'
<1> SUFFICES ASSUME ClientInv, [ClientNext]_clientVars PROVE ClientInv'
  OBVIOUS
<1>a. TabTypeOK /\ SocketTypeOK
  BY DEF ClientInv, TabInv
<1>b. TabInv'
  BY ClientStepsAreTabSteps, TabInvStep DEF ClientInv
<1>d. \A t \in leader : life[t] = "open"
  BY DEF ClientInv, TabInv, LeadersAreOpen, Opened
<1>c. /\ pending \in SUBSET Tab /\ retries \in [Tab -> 0 .. MaxRetries]
      /\ \A t \in Tab : sock[t] \in [Socket -> {"none", "connecting", "open", "closing"}]
  BY <1>a DEF SocketTypeOK
<1>1. ASSUME NEW t \in Tab, Mount(t)
      PROVE  ClientInv'
  <2>1. Connect(t, sock[t]) /\ UNCHANGED <<pending, retries>>
    BY <1>1 DEF Mount
  <2>2. leader' = leader \cup {t} /\ life'[t] = "open"
        /\ \A s \in Tab \ {t} : life'[s] = life[s]
    BY <1>1, <1>a DEF Mount, Open, TabTypeOK
  <2> QED
    BY <1>b, <1>c, <2>1, <2>2, ConnectStep
<1>2. ASSUME NEW t \in Tab, Succeed(t)
      PROVE  ClientInv'
  <2>1. Connect(t, sock[t]) /\ UNCHANGED <<pending, retries>>
    BY <1>2 DEF Succeed
  <2>2. leader' = leader \cup {t} /\ life' = life /\ life[t] = "open"
    BY <1>2 DEF Succeed, HearResign, Hears, Opened
  <2> QED
    BY <1>b, <1>c, <2>1, <2>2, ConnectStep
<1>3. ASSUME NEW t \in Tab, Yield(t)
      PROVE  ClientInv'
  <2>1. leader' = leader \ {t} /\ life' = life /\ UNCHANGED <<pending, retries>>
    BY <1>3 DEF Yield, HearHeartbeat
  <2>2. CASE t \in leader
    <3>1. Disconnect(t)
      BY <1>3, <2>2 DEF Yield
    <3>2. /\ sock' \in [Tab -> [Socket -> {"none", "connecting", "open", "closing"}]]
          /\ \A s \in Tab \ {t} : sock'[s] = sock[s]
          /\ ref' = [ref EXCEPT ![t] = {}]
      BY <3>1, <1>a, ClosedTyped DEF Disconnect, SocketTypeOK
    <3> QED
      BY <1>b, <1>c, <2>1, <3>2, DisconnectStep
  <2>3. CASE t \notin leader
    <3>1. sock' = sock /\ ref' = ref
      BY <1>3, <2>3 DEF Yield
    <3>2. ref[t] = {}
      BY <2>3 DEF ClientInv, OnlyLeadersUseSockets
    <3>3. ref' = [ref EXCEPT ![t] = {}]
      BY <3>1, <3>2, <1>a DEF SocketTypeOK
    <3>4. sock' \in [Tab -> [Socket -> {"none", "connecting", "open", "closing"}]]
      BY <3>1, <1>a DEF SocketTypeOK
    <3> QED
      BY <1>b, <1>c, <2>1, <3>1, <3>3, <3>4, DisconnectStep
  <2> QED
    BY <2>2, <2>3
<1>4. ASSUME NEW t \in Tab, Reassert(t) \/ (Beat(t) /\ UNCHANGED socketVars)
      PROVE  ClientInv'
  <2>1. UNCHANGED <<life, leader>> /\ UNCHANGED socketVars
    BY <1>4 DEF Reassert, HearClaim, Beat
  <2>2. SocketTypeOK'
    BY <2>1, <1>a DEF SocketTypeOK, socketVars
  <2> QED
    BY <1>b, <2>1, <2>2
    DEF ClientInv, OnlyLeadersUseSockets, LeaderIsConnecting, Opened,
        socketVars
<1>5. ASSUME NEW t \in Tab, Promote(t)
      PROVE  ClientInv'
  <2>1. leader' = leader \cup {t} /\ life' = life /\ UNCHANGED <<pending, retries>>
        /\ life[t] = "open"
    BY <1>5 DEF Promote, Timeout, Opened
  <2>2. CASE t \in leader
    <3>1. UNCHANGED socketVars /\ leader' = leader
      BY <1>5, <2>1, <2>2 DEF Promote, socketVars
    <3>2. SocketTypeOK'
      BY <3>1, <1>a DEF SocketTypeOK, socketVars
    <3> QED
      BY <1>b, <2>1, <3>1, <3>2
      DEF ClientInv, OnlyLeadersUseSockets, LeaderIsConnecting, Opened,
          socketVars
  <2>3. CASE t \notin leader
    <3>1. Connect(t, sock[t])
      BY <1>5, <2>3 DEF Promote
    <3> QED
      BY <1>b, <1>c, <2>1, <3>1, ConnectStep
  <2> QED
    BY <2>2, <2>3
<1>6. ASSUME NEW t \in Tab, Unmount(t) \/ Discard(t)
      PROVE  ClientInv'
  <2>1. /\ leader' = leader \ {t} /\ retries' = retries /\ pending' = pending \ {t}
        /\ ref' = [ref EXCEPT ![t] = {}]
    BY <1>6 DEF Unmount, Discard, Destroy, Kill, Disconnect
  <2>2. \A s \in Tab \ {t} : life'[s] = life[s]
    BY <1>6, <1>a DEF Unmount, Discard, Destroy, Kill, TabTypeOK
  <2>3. PICK new \in [Socket -> {"none", "connecting", "open", "closing"}] :
          sock' = [sock EXCEPT ![t] = new]
    BY <1>6, <1>a, ClosedTyped DEF Unmount, Discard, Disconnect
  <2>4. /\ sock' \in [Tab -> [Socket -> {"none", "connecting", "open", "closing"}]]
        /\ \A s \in Tab \ {t} : sock'[s] = sock[s]
    BY <2>3, <1>a DEF SocketTypeOK
  <2> QED
    BY <1>b, <1>c, <2>1, <2>2, <2>4, DisconnectStep
<1>7. ASSUME NEW t \in Tab, NEW k \in Socket, SocketOpens(t, k) \/ SocketFails(t, k)
      PROVE  ClientInv'
  <2>1. PICK s \in {"open", "closing"} : sock' = [sock EXCEPT ![t][k] = s]
    BY <1>7 DEF SocketOpens, SocketFails
  <2>2. /\ retries' = retries \/ (retries' = [retries EXCEPT ![t] = 0])
        /\ UNCHANGED <<life, leader, armed, inbox, ref, pending>>
    BY <1>7 DEF SocketOpens, SocketFails, tabVars
  <2>3. /\ sock' \in [Tab -> [Socket -> {"none", "connecting", "open", "closing"}]]
        /\ \A r \in Tab \ {t} : sock'[r] = sock[r]
        /\ sock'[t][k] # "none"
    BY <2>1, <1>a DEF SocketTypeOK
  <2>4. /\ retries' \in [Tab -> 0 .. MaxRetries]
        /\ \A r \in Tab \ {t} : retries'[r] = retries[r]
    BY <2>2, <1>c, SocketAssumption
  <2>5. SocketTypeOK'
    BY <2>2, <2>3, <2>4, <1>a DEF SocketTypeOK
  <2>6. TouchesOnly(t)
    BY <2>2, <2>3, <2>4 DEF TouchesOnly
  <2>7. UsesAsLeader(t)' /\ IsConnecting(t)'
    BY <2>2, <2>3 DEF UsesAsLeader, IsConnecting, ClientInv, OnlyLeadersUseSockets, Opened
  <2> QED
    BY <1>b, <2>5, <2>6, <2>7, OneTab
<1>8. ASSUME NEW t \in Tab, NEW k \in Socket, SocketCloses(t, k)
      PROVE  ClientInv'
  <2>1. /\ sock' = [sock EXCEPT ![t][k] = "none"]
        /\ ref' = [ref EXCEPT ![t] = {}]
        /\ UNCHANGED <<life, leader, armed, inbox>>
    BY <1>8 DEF SocketCloses, tabVars
  <2>2. /\ sock' \in [Tab -> [Socket -> {"none", "connecting", "open", "closing"}]]
        /\ ref' \in [Tab -> SUBSET Socket] /\ ref'[t] = {}
        /\ \A r \in Tab \ {t} : sock'[r] = sock[r] /\ ref'[r] = ref[r]
    BY <2>1, <1>a DEF SocketTypeOK
  <2>3. /\ retries' \in [Tab -> 0 .. MaxRetries] /\ pending' \in SUBSET Tab
        /\ pending \subseteq pending'
        /\ \A s \in Tab \ {t} : retries'[s] = retries[s]
    BY <1>8, <1>c, SocketAssumption DEF SocketCloses
  <2>4. life[t] = "open" => t \in pending' \/ retries'[t] = MaxRetries
    <3>1. CASE Opened(t) /\ retries[t] < MaxRetries
      <4>1. pending' = pending \cup {t}
        BY <1>8, <3>1 DEF SocketCloses
      <4> QED
        BY <4>1
    <3>2. CASE ~ (Opened(t) /\ retries[t] < MaxRetries)
      <4>1. retries' = retries
        BY <1>8, <3>2 DEF SocketCloses
      <4>2. retries[t] \in 0 .. MaxRetries
        BY <1>c
      <4> QED
        BY <3>2, <4>1, <4>2, SocketAssumption DEF Opened
    <3> QED
      BY <3>1, <3>2
  <2>5. SocketTypeOK'
    BY <2>2, <2>3 DEF SocketTypeOK
  <2>6. TouchesOnly(t)
    BY <2>1, <2>2, <2>3 DEF TouchesOnly
  <2>7. t \in leader => life[t] = "open"
    BY <1>d
  <2>8. UsesAsLeader(t)' /\ IsConnecting(t)'
    BY <2>1, <2>2, <2>4, <2>7 DEF UsesAsLeader, IsConnecting
  <2> QED
    BY <1>b, <2>5, <2>6, <2>8, OneTab
<1>9. ASSUME NEW t \in Tab, Reconnect(t)
      PROVE  ClientInv'
  <2>1. /\ pending' = pending \ {t} /\ retries' = retries
        /\ UNCHANGED <<life, leader, armed, inbox>>
    BY <1>9 DEF Reconnect, tabVars
  <2>2. CASE t \in leader
    <3>1. Connect(t, sock[t])
      BY <1>9, <2>2 DEF Reconnect
    <3>2. life'[t] = "open" /\ leader' = leader \cup {t}
      BY <1>d, <2>1, <2>2
    <3>3. pending' \in SUBSET Tab /\ \A s \in Tab \ {t} : s \in pending => s \in pending'
      BY <1>c, <2>1
    <3> QED
      BY <1>b, <1>c, <2>1, <3>1, <3>2, <3>3, ConnectStep
  <2>3. CASE t \notin leader
    <3>1. sock' = sock /\ ref' = ref
      BY <1>9, <2>3 DEF Reconnect
    <3>2. SocketTypeOK'
      BY <2>1, <3>1, <1>a DEF SocketTypeOK
    <3>3. TouchesOnly(t)
      BY <2>1, <3>1 DEF TouchesOnly
    <3>4. UsesAsLeader(t)' /\ IsConnecting(t)'
      BY <2>1, <2>3, <3>1
      DEF UsesAsLeader, IsConnecting, ClientInv, OnlyLeadersUseSockets, Opened
    <3> QED
      BY <1>b, <3>2, <3>3, <3>4, OneTab
  <2> QED
    BY <2>2, <2>3
<1>10. ASSUME NEW t \in Tab, Wake(t)
       PROVE  ClientInv'
  <2>1. Connect(t, sock[t]) /\ t \in leader /\ life[t] = "open"
        /\ UNCHANGED <<life, leader, pending, retries>>
    BY <1>10 DEF Wake, Opened, tabVars
  <2>2. leader' = leader \cup {t}
    BY <2>1
  <2> QED
    BY <1>b, <1>c, <2>1, <2>2, ConnectStep
<1>11. ASSUME NEW t \in Tab, ReconnectNow(t)
       PROVE  ClientInv'
  <2>1. /\ pending' = pending \ {t} /\ retries' = [retries EXCEPT ![t] = 0]
        /\ UNCHANGED <<life, leader, armed, inbox>> /\ life[t] = "open"
    BY <1>11 DEF ReconnectNow, Opened, tabVars
  <2>2. /\ pending' \in SUBSET Tab /\ retries' \in [Tab -> 0 .. MaxRetries]
        /\ \A s \in Tab \ {t} : (s \in pending => s \in pending') /\ retries'[s] = retries[s]
    BY <2>1, <1>c, SocketAssumption
  <2>3. CASE t \in leader
    <3>1. Connect(t, Closed(t)) /\ leader' = leader \cup {t}
      BY <1>11, <2>1, <2>3 DEF ReconnectNow
    <3>2. Closed(t) \in [Socket -> {"none", "connecting", "open", "closing"}]
      BY <1>a, ClosedTyped
    <3> QED
      BY <1>b, <2>1, <2>2, <3>1, <3>2, ConnectStep
  <2>4. CASE t \notin leader
    <3>1. Disconnect(t) /\ leader' = leader \ {t}
      BY <1>11, <2>1, <2>4 DEF ReconnectNow
    <3>2. /\ sock' \in [Tab -> [Socket -> {"none", "connecting", "open", "closing"}]]
          /\ \A s \in Tab \ {t} : sock'[s] = sock[s]
          /\ ref' = [ref EXCEPT ![t] = {}]
      BY <3>1, <1>a, ClosedTyped DEF Disconnect, SocketTypeOK
    <3> QED
      BY <1>b, <2>1, <2>2, <3>1, <3>2, DisconnectStep
  <2> QED
    BY <2>3, <2>4
<1>12. CASE UNCHANGED clientVars
  <2>1. SocketTypeOK'
    BY <1>12, <1>a DEF SocketTypeOK, clientVars, socketVars
  <2> QED
    BY <1>b, <1>12, <2>1
    DEF ClientInv, OnlyLeadersUseSockets, LeaderIsConnecting, Opened,
        clientVars, tabVars, socketVars
<1> QED
  BY <1>1, <1>2, <1>3, <1>4, <1>5, <1>6, <1>7, <1>8, <1>9, <1>10, <1>11, <1>12
  DEF ClientNext

THEOREM ClientInvariant == ClientSpec => []ClientInv
  BY ClientInitInv, ClientInvStep, PTL DEF ClientSpec

\* The coordinators and the sockets only take the values the provider knows;
\* the retries never exceed their limit.
THEOREM ClientTypeCorrect == ClientSpec => []ClientTypeOK
<1>1. ClientInv => ClientTypeOK
  BY DEF ClientInv, TabInv, ClientTypeOK
<1> QED
  BY <1>1, ClientInvariant, PTL

\* A tab uses a socket only while it leads.
THEOREM FollowersUseNoSocket == ClientSpec => []OnlyLeadersUseSockets
<1>1. ClientInv => OnlyLeadersUseSockets
  BY DEF ClientInv
<1> QED
  BY <1>1, ClientInvariant, PTL

\* A leader that has not used up its retries is never stranded.
THEOREM LeadersAreNeverStranded == ClientSpec => []LeaderIsConnecting
<1>1. ClientInv => LeaderIsConnecting
  BY DEF ClientInv
<1> QED
  BY <1>1, ClientInvariant, PTL
=============================================================================
