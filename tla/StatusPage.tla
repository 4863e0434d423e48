----------------------------- MODULE StatusPage -----------------------------
(***************************************************************************)
(* The login page while it follows the mail of a magic link: the polls of  *)
(* usePollingFallback.ts, the socket of useDeliveryStatus.ts, and the      *)
(* resends of login/page.tsx that replace the link.  JavaScript runs one   *)
(* callback at a time: every action is one callback with the effects that  *)
(* its state changes cause.  A chain is a timer that arms itself again     *)
(* after each poll.  For one link the effect starts a chain and the close  *)
(* of the socket may start another; both keep the link they started with.  *)
(***************************************************************************)
EXTENDS Naturals

CONSTANT MaxLinks      \* bound: links asked for

ASSUME PageAssumption == MaxLinks \in Nat

Link == 1..MaxLinks
Chain == Link \X {"effect", "resume"}

VARIABLES
  view,        \* the form the page shows
  ask,         \* per link how it was asked for, and whether it came
  id,          \* requestId, with its deliveryToken; 0 for none
  status,      \* the last polled status
  pushed,      \* wsStatus: the last status a socket delivered
  timedOut,
  overdue,     \* MAX_POLL_DURATION_MS have passed since startTimeRef
  paused,      \* pausedRef
  chain,       \* per chain: its timer is armed, its poll is under way, or not
  ref,         \* intervalRef: the chain whose timer was armed last, or none
  sock,        \* per link its socket
  wsRef        \* the link whose socket the hook holds, or 0

form == <<view, ask>>
shown == <<status, pushed, timedOut>>
polling == <<overdue, paused, chain, ref>>
sockets == <<sock, wsRef>>
pageVars == <<form, id, shown, polling, sockets>>

NoChain == <<0, "none">>
Status == {"sending", "delivered"}
Terminal(s) == s = "delivered"       \* and likewise bounced and failed
Active(c) == chain[c] \in {"armed", "asking"}

PageInit ==
  /\ view = "email" /\ ask = [k \in Link |-> "unused"]
  /\ id = 0
  /\ status = "none" /\ pushed = "none" /\ timedOut = FALSE
  /\ overdue = FALSE /\ paused = FALSE
  /\ chain = [c \in Chain |-> "none"] /\ ref = NoChain
  /\ sock = [k \in Link |-> "none"] /\ wsRef = 0
-----------------------------------------------------------------------------
(* Pieces of the hooks.                                                    *)

\* stopPolling, when the chains are f: the timer that ref names is cleared, if
\* it still runs.
Stopped(f) ==
  [c \in Chain |-> IF c = ref /\ f[c] = "armed" THEN "ended" ELSE f[c]]

\* ws.close(): the close event comes later.
Closing(k) ==
  [j \in Link |-> IF j = k /\ sock[j] \in {"connecting", "open"}
                  THEN "closing" ELSE sock[j]]

\* The cleanups of both effects, when no link is followed any more.  With none
\* followed before, the states of React do not change and no effect runs.
Unfollow ==
  /\ id' = 0
  /\ \/ id = 0 /\ UNCHANGED <<shown, polling, sockets>>
     \/ /\ id # 0
        /\ status' = "none" /\ timedOut' = FALSE
        /\ chain' = Stopped(chain) /\ ref' = NoChain
        /\ sock' = Closing(id) /\ wsRef' = 0
        /\ UNCHANGED <<pushed, overdue, paused>>

\* What the effects for the link before leave of the timers: an effect that
\* followed none has no cleanup, and a timer armed since goes on unnamed.
LeftOver == IF id # 0 THEN Stopped(chain) ELSE chain

\* mutant: the pause of the link before is not lifted
FollowPaused(k) ==
  /\ id' = k
  /\ status' = "sending" /\ timedOut' = FALSE /\ overdue' = FALSE
  /\ chain' = [LeftOver EXCEPT ![<<k, "effect">>] = "armed"]
  /\ ref' = <<k, "effect">>
  /\ sock' = [Closing(id) EXCEPT ![k] = "connecting"] /\ wsRef' = k
  /\ UNCHANGED <<pushed, paused>>

\* The cleanups, and both effects for the new link.
Follow(k) ==
  /\ id' = k
  /\ status' = "sending" /\ timedOut' = FALSE
  /\ overdue' = FALSE /\ paused' = FALSE
  /\ chain' = [LeftOver EXCEPT ![<<k, "effect">>] = "armed"]
  /\ ref' = <<k, "effect">>
  /\ sock' = [Closing(id) EXCEPT ![k] = "connecting"] /\ wsRef' = k
  /\ UNCHANGED pushed
-----------------------------------------------------------------------------
(* The page.                                                               *)

Request(k, how) ==
  /\ ask[k] = "unused" /\ \A j \in Link : j < k => ask[j] # "unused"
  /\ ask' = [ask EXCEPT ![k] = how]

\* handleEmailSubmit; the form takes one submission at a time.
Submit(k) ==
  /\ view = "email" /\ \A j \in Link : ask[j] # "submitted"
  /\ Request(k, "submitted")
  /\ UNCHANGED <<view, id, shown, polling, sockets>>

\* handleResend forgets the link at once and asks for another.
Resend(k) ==
  /\ view = "code"
  /\ Request(k, "resent")
  /\ Unfollow /\ UNCHANGED view

\* The answers come in any order, also after the user went back.
Answer(k) ==
  /\ ask[k] \in {"submitted", "resent"}
  /\ ask' = [ask EXCEPT ![k] = "done"]
  /\ view' = IF ask[k] = "submitted" THEN "code" ELSE view
  /\ Follow(k)

Refuse(k) ==
  /\ ask[k] \in {"submitted", "resent"}
  /\ ask' = [ask EXCEPT ![k] = "done"]
  /\ UNCHANGED <<view, id, shown, polling, sockets>>

GoBack ==
  /\ view = "code" /\ view' = "email"
  /\ Unfollow /\ UNCHANGED ask
-----------------------------------------------------------------------------
(* Polling.                                                                *)

\* mutant: the time is not looked at
FireForever(c) ==
  /\ chain[c] = "armed"
  /\ chain' = [chain EXCEPT ![c] = IF paused THEN "ended" ELSE "asking"]
  /\ UNCHANGED <<form, id, shown, overdue, paused, ref, sockets>>

\* A timer runs poll.
Fire(c) ==
  /\ chain[c] = "armed"
  /\ LET fired == [chain EXCEPT ![c] = "ended"]
     IN  \/ paused /\ chain' = fired /\ UNCHANGED <<timedOut, ref>>
         \/ /\ ~paused /\ overdue
            /\ chain' = Stopped(fired) /\ ref' = NoChain /\ timedOut' = TRUE
         \/ /\ ~paused /\ ~overdue
            /\ chain' = [chain EXCEPT ![c] = "asking"]
            /\ UNCHANGED <<timedOut, ref>>
  /\ UNCHANGED <<form, id, status, pushed, overdue, paused, sockets>>

\* The timer is armed again, whatever happened during the poll.
Rearm(c) == chain' = [chain EXCEPT ![c] = "armed"] /\ ref' = c

\* The poll of a chain is answered.  A terminal status closes the socket and
\* stops the timer, whatever link either belongs to.
PollAnswered(c, s) ==
  /\ chain[c] = "asking"
  /\ status' = s
  /\ IF Terminal(s)
     THEN /\ chain' = [Stopped(chain) EXCEPT ![c] = "ended"]
          /\ ref' = NoChain
          /\ sock' = Closing(wsRef) /\ wsRef' = 0
     ELSE Rearm(c) /\ UNCHANGED sockets
  /\ UNCHANGED <<form, id, pushed, timedOut, overdue, paused>>

\* mutant: a poll that fails is the last one
PollFailsForGood(c) ==
  /\ chain[c] = "asking"
  /\ chain' = [chain EXCEPT ![c] = "ended"]
  /\ UNCHANGED <<form, id, shown, overdue, paused, ref, sockets>>

PollFails(c) ==
  /\ chain[c] = "asking"
  /\ Rearm(c)
  /\ UNCHANGED <<form, id, shown, overdue, paused, sockets>>

TimePasses ==
  /\ ~overdue /\ overdue' = TRUE
  /\ UNCHANGED <<form, id, shown, paused, chain, ref, sockets>>
-----------------------------------------------------------------------------
(* The socket.                                                             *)

SocketOpens(k) ==
  /\ sock[k] = "connecting"
  /\ sock' = [sock EXCEPT ![k] = "open"]
  /\ paused' = TRUE
  /\ chain' = Stopped(chain) /\ ref' = NoChain
  /\ UNCHANGED <<form, id, shown, overdue, wsRef>>

SocketMessage(k, s) ==
  /\ sock[k] = "open"
  /\ pushed' = s
  /\ UNCHANGED <<form, id, status, timedOut, polling, sockets>>

\* onclose, of whichever socket.  A resume arms a timer only if the hook holds
\* none, run out or not; it polls for the link of this socket.
SocketCloses(k) ==
  /\ sock[k] \in {"connecting", "open", "closing"}
  /\ sock' = [sock EXCEPT ![k] =
                IF sock[k] = "connecting" THEN "failed" ELSE "closed"]
  /\ wsRef' = 0
  /\ paused' = FALSE
  /\ IF ref = NoChain
     THEN Rearm(<<k, "resume">>)
     ELSE UNCHANGED <<chain, ref>>
  /\ UNCHANGED <<form, id, shown, overdue>>
-----------------------------------------------------------------------------
PageNext ==
  \/ \E k \in Link : \/ Submit(k) \/ Resend(k) \/ Answer(k) \/ Refuse(k)
                     \/ SocketOpens(k) \/ SocketCloses(k)
                     \/ \E s \in Status : SocketMessage(k, s)
  \/ \E c \in Chain : \/ Fire(c) \/ PollFails(c)
                      \/ \E s \in Status : PollAnswered(c, s)
  \/ GoBack \/ TimePasses

PageSpec == PageInit /\ [][PageNext]_pageVars

\* Timers run, requests are answered or fail, and time passes.  Nothing is
\* assumed of the user, the server or the socket.
PageFairSpec ==
  /\ PageSpec
  /\ WF_pageVars(TimePasses)
  /\ \A c \in Chain :
       /\ WF_pageVars(Fire(c))
       /\ WF_pageVars(PollFails(c) \/ \E s \in Status : PollAnswered(c, s))
-----------------------------------------------------------------------------
(* Properties                                                              *)

PageTypeOK ==
  /\ view \in {"email", "code"}
  /\ ask \in [Link -> {"unused", "submitted", "resent", "done"}]
  /\ id \in 0..MaxLinks /\ wsRef \in 0..MaxLinks
  /\ {status, pushed} \subseteq Status \cup {"none"}
  /\ timedOut \in BOOLEAN /\ overdue \in BOOLEAN /\ paused \in BOOLEAN
  /\ chain \in [Chain -> {"none", "armed", "asking", "ended"}]
  /\ ref \in Chain \cup {NoChain}
  /\ sock \in
       [Link -> {"none", "connecting", "open", "closing", "closed", "failed"}]

\* The link on the page never had a socket.
WithoutSocket(k) == id = k /\ sock[k] \in {"connecting", "failed"}
Settled == Terminal(status) \/ timedOut

\* While the socket of the link has not opened, the page polls until a poll
\* tells a final status or the time is up, whatever is left of the timers,
\* polls and sockets of the links before, timers that no reference names any
\* more among them (usePollingFallback.ts:4, useDeliveryStatus.ts:11).
StillPolling ==
  \A k \in Link : WithoutSocket(k) /\ ~Settled =>
    ~paused /\ \E c \in Chain : Active(c)

\* So it settles, unless the user goes on or the socket opens.
PageSettles ==
  \A k \in Link :
    WithoutSocket(k) ~> Settled \/ ~WithoutSocket(k)

\* However sockets come and go, in the end the page asks the server no more.
PollingEnds == <>[](\A c \in Chain : ~Active(c))
=============================================================================
