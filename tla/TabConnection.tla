---------------------------- MODULE TabConnection ----------------------------
(***************************************************************************)
(* WebSocketProvider on top of TabCoordinator: the sockets each tab has    *)
(* made, the one wsRef holds, and the reconnect timer.  The provider's     *)
(* onLeaderChange callback runs inside the coordinator's task, so an       *)
(* action here is a coordinator's action joined with what the provider     *)
(* does in it.  A socket that is closed stays "closing" until its close    *)
(* event runs; that event may come long after a newer socket was made.     *)
(*                                                                         *)
(* The delay of the backoff, the ping and the channels are left out; the   *)
(* messages of an open socket do not change this state.                    *)
(***************************************************************************)
EXTENDS TabCoordinator

CONSTANTS Socket,     \* bound: names for the sockets a tab has at one time
          MaxRetries  \* MAX_RETRIES

ASSUME SocketAssumption == MaxRetries \in Nat

VARIABLES sock,     \* sock[t][k]: state of t's socket k, "none" if free
          ref,      \* ref[t]: the sockets wsRef holds: one or none
          pending,  \* tabs whose reconnect timer is running
          retries   \* retries[t]: retriesRef

socketVars == <<sock, ref, pending, retries>>
clientVars == <<tabVars, socketVars>>

SocketTypeOK ==
  /\ sock \in [Tab -> [Socket -> {"none", "connecting", "open", "closing"}]]
  /\ ref \in [Tab -> SUBSET Socket]
  /\ pending \in SUBSET Tab
  /\ retries \in [Tab -> 0 .. MaxRetries]

SocketInit ==
  /\ sock = [t \in Tab |-> [k \in Socket |-> "none"]]
  /\ ref = [t \in Tab |-> {}]
  /\ pending = {}
  /\ retries = [t \in Tab |-> 0]

Live(t) == {k \in Socket : sock[t][k] \in {"connecting", "open"}}

\* Closing the socket wsRef holds, if any, begins its closing handshake.
Closed(t) == [k \in Socket |-> IF k \in ref[t] /\ k \in Live(t) THEN "closing"
                               ELSE sock[t][k]]

\* connect(), of a tab that leads: wsRef is overwritten whatever it held.
Connect(t, before) ==
  \E k \in Socket :
    /\ before[k] = "none"
    /\ sock' = [sock EXCEPT ![t] = [before EXCEPT ![k] = "connecting"]]
    /\ ref' = [ref EXCEPT ![t] = {k}]

\* wsRef.current.close(); wsRef.current = null
Disconnect(t) ==
  /\ sock' = [sock EXCEPT ![t] = Closed(t)]
  /\ ref' = [ref EXCEPT ![t] = {}]

-----------------------------------------------------------------------------
(* The coordinator's tasks, with the provider's part in them.              *)

\* The effect of the provider: connect() once the coordinator leads.
Mount(t) == Open(t) /\ Connect(t, sock[t]) /\ UNCHANGED <<pending, retries>>

\* mutant: a tab that yields keeps its connection
YieldConnected(t) ==
  /\ HearHeartbeat(t)
  /\ UNCHANGED socketVars

\* onLeaderChange(false) closes the connection; for a follower nothing changes.
Yield(t) ==
  /\ HearHeartbeat(t)
  /\ IF t \in leader THEN Disconnect(t) ELSE UNCHANGED <<sock, ref>>
  /\ UNCHANGED <<pending, retries>>

Reassert(t) == HearClaim(t) /\ UNCHANGED socketVars

\* onLeaderChange(true) connects, also when the tab led and was connected.
Succeed(t) == HearResign(t) /\ Connect(t, sock[t]) /\ UNCHANGED <<pending, retries>>

Promote(t) ==
  /\ Timeout(t)
  /\ IF t \in leader THEN UNCHANGED <<sock, ref>> ELSE Connect(t, sock[t])
  /\ UNCHANGED <<pending, retries>>

\* The cleanup of the effect; ProtectedRoute unmounts the provider at sign-out too.
Unmount(t) ==
  /\ Destroy(t)
  /\ Disconnect(t)
  /\ pending' = pending \ {t}
  /\ UNCHANGED retries

\* The sockets of a discarded tab are gone with it.
Discard(t) ==
  /\ Kill(t)
  /\ sock' = [sock EXCEPT ![t] = [k \in Socket |-> "none"]]
  /\ ref' = [ref EXCEPT ![t] = {}]
  /\ pending' = pending \ {t}
  /\ UNCHANGED retries

-----------------------------------------------------------------------------
(* The provider's own tasks.                                               *)

\* onopen; a socket that opens after the unmount is closed at once.
SocketOpens(t, k) ==
  /\ sock[t][k] = "connecting"
  /\ IF Opened(t)
     THEN /\ sock' = [sock EXCEPT ![t][k] = "open"]
          /\ retries' = [retries EXCEPT ![t] = 0]
     ELSE sock' = [sock EXCEPT ![t][k] = "closing"] /\ UNCHANGED retries
  /\ UNCHANGED <<tabVars, ref, pending>>

\* The server or the network ends the connection; its close event follows.
SocketFails(t, k) ==
  /\ k \in Live(t)
  /\ sock' = [sock EXCEPT ![t][k] = "closing"]
  /\ UNCHANGED <<tabVars, ref, pending, retries>>

\* mutant: the close event of a connection that failed does not reconnect
SocketClosesForGood(t, k) ==
  /\ sock[t][k] = "closing"
  /\ sock' = [sock EXCEPT ![t][k] = "none"]
  /\ ref' = [ref EXCEPT ![t] = {}]
  /\ UNCHANGED <<tabVars, pending, retries>>

\* mutant: the retries are counted without their limit
SocketClosesUnlimited(t, k) ==
  /\ sock[t][k] = "closing"
  /\ sock' = [sock EXCEPT ![t][k] = "none"]
  /\ ref' = [ref EXCEPT ![t] = {}]
  /\ IF Opened(t)
     THEN /\ retries' = [retries EXCEPT ![t] = @ + 1]
          /\ pending' = pending \cup {t}
     ELSE UNCHANGED <<pending, retries>>
  /\ UNCHANGED tabVars

\* onclose of socket k: whichever socket wsRef holds, it is forgotten, and the
\* tab reconnects until its retries are used up.
SocketCloses(t, k) ==
  /\ sock[t][k] = "closing"
  /\ sock' = [sock EXCEPT ![t][k] = "none"]
  /\ ref' = [ref EXCEPT ![t] = {}]
  /\ IF Opened(t) /\ retries[t] < MaxRetries
     THEN /\ retries' = [retries EXCEPT ![t] = @ + 1]
          /\ pending' = pending \cup {t}
     ELSE UNCHANGED <<pending, retries>>
  /\ UNCHANGED tabVars

\* The reconnect timer: connect() returns at once unless the tab leads.
Reconnect(t) ==
  /\ t \in pending
  /\ pending' = pending \ {t}
  /\ IF t \in leader THEN Connect(t, sock[t]) ELSE UNCHANGED <<sock, ref>>
  /\ UNCHANGED <<tabVars, retries>>

\* visibilitychange or online.
Wake(t) ==
  /\ Opened(t) /\ t \in leader /\ ref[t] = {}
  /\ Connect(t, sock[t])
  /\ UNCHANGED <<tabVars, pending, retries>>

\* reconnect(), called by the application.
ReconnectNow(t) ==
  /\ Opened(t)
  /\ pending' = pending \ {t}
  /\ retries' = [retries EXCEPT ![t] = 0]
  /\ IF t \in leader THEN Connect(t, Closed(t)) ELSE Disconnect(t)
  /\ UNCHANGED tabVars

ClientInit == TabInit /\ SocketInit

ClientNext ==
  \E t \in Tab :
    \/ Mount(t) \/ Yield(t) \/ Reassert(t) \/ Succeed(t) \/ Promote(t)
    \/ Unmount(t) \/ Discard(t)
    \/ Beat(t) /\ UNCHANGED socketVars
    \/ Reconnect(t) \/ Wake(t) \/ ReconnectNow(t)
    \/ \E k \in Socket : SocketOpens(t, k) \/ SocketFails(t, k) \/ SocketCloses(t, k)

ClientSpec == ClientInit /\ [][ClientNext]_clientVars

-----------------------------------------------------------------------------
ClientTypeOK == TabTypeOK /\ SocketTypeOK

\* The connection wsRef holds is a leader's: a tab that yields, is unmounted or
\* wakes up as a follower never goes on using one.
OnlyLeadersUseSockets == \A t \in Tab : ref[t] # {} => Opened(t) /\ t \in leader

\* A leader is never stranded: it has a live socket, a close event or a
\* reconnect timer that will make one, or it has used up its retries.
LeaderIsConnecting ==
  \A t \in leader :
    \/ \E k \in Socket : sock[t][k] # "none"
    \/ t \in pending
    \/ retries[t] = MaxRetries
=============================================================================
