-------------------------- MODULE StatusPageProofs --------------------------
(***************************************************************************)
(* The page that follows a magic link polls as long as it must, for any    *)
(* number of resends.                                                      *)
(***************************************************************************)
EXTENDS StatusPage, TLAPS

\* A socket that is still connecting belongs to the link on the page.
OneConnecting == \A j \in Link : sock[j] = "connecting" => j = id

\* Only a socket that opened pauses the polls, and only those of its own link.
Unpaused == \A k \in Link : WithoutSocket(k) => ~paused

PageInv == PageTypeOK /\ OneConnecting /\ Unpaused /\ StillPolling

\* Every page starts in the invariant: it follows no link.
LEMMA PageInitial == PageInit => PageInv
<1> SUFFICES ASSUME PageInit PROVE PageInv
  OBVIOUS
<1>1. 0 \in 0..MaxLinks /\ \A k \in Link : k # 0
  BY PageAssumption DEF Link
<1> QED
  BY <1>1 DEF PageInit, PageInv, PageTypeOK, OneConnecting, Unpaused,
       StillPolling, WithoutSocket, Link, Status, NoChain

-----------------------------------------------------------------------------
\* Clearing the timer and closing a socket keep the types (stopPolling and
\* ws.close).
LEMMA PiecesTyped ==
  ASSUME PageTypeOK, NEW k
  PROVE  /\ Stopped(chain) \in [Chain -> {"none", "armed", "asking", "ended"}]
         /\ Closing(k) \in
              [Link -> {"none", "connecting", "open", "closing", "closed", "failed"}]
  BY DEF PageTypeOK, Stopped, Closing

\* Giving a link up keeps the invariant (the cleanups of both effects).
LEMMA UnfollowKeeps ==
  ASSUME PageInv, Unfollow,
         view' \in {"email", "code"},
         ask' \in [Link -> {"unused", "submitted", "resent", "done"}]
  PROVE  PageInv'
<1>1. 0 \in 0..MaxLinks /\ \A k \in Link : k # 0
  BY PageAssumption DEF Link
<1>2. PageTypeOK'
  <2>1. CASE id = 0
    BY <2>1 DEF PageInv, PageTypeOK, Unfollow, shown, polling, sockets
  <2>2. CASE id # 0
    <3>1. /\ chain' \in [Chain -> {"none", "armed", "asking", "ended"}]
          /\ ref' \in Chain \cup {NoChain}
      BY <2>2, PiecesTyped DEF PageInv, Unfollow
    <3>2. /\ sock' \in
                [Link -> {"none", "connecting", "open", "closing", "closed", "failed"}]
          /\ wsRef' \in 0..MaxLinks /\ id' \in 0..MaxLinks
      BY <1>1, <2>2, PiecesTyped DEF PageInv, Unfollow
    <3>3. /\ {status', pushed'} \subseteq Status \cup {"none"}
          /\ timedOut' \in BOOLEAN /\ overdue' \in BOOLEAN /\ paused' \in BOOLEAN
      BY <2>2 DEF PageInv, PageTypeOK, Unfollow
    <3> QED
      BY <3>1, <3>2, <3>3 DEF PageTypeOK
  <2> QED
    BY <2>1, <2>2
<1>3. OneConnecting'
  <2>1. CASE id = 0
    BY <2>1 DEF PageInv, OneConnecting, Unfollow, sockets
  <2>2. CASE id # 0
    BY <2>2 DEF PageInv, OneConnecting, Unfollow, Closing, PageTypeOK
  <2> QED
    BY <2>1, <2>2
<1>4. Unpaused' /\ StillPolling'
  BY <1>1 DEF Unpaused, StillPolling, WithoutSocket, Unfollow
<1> QED
  BY <1>2, <1>3, <1>4 DEF PageInv

\* Following a new link keeps the invariant: it starts unpaused with a timer.
LEMMA FollowKeeps ==
  ASSUME PageInv, NEW k \in Link, Follow(k),
         view' \in {"email", "code"},
         ask' \in [Link -> {"unused", "submitted", "resent", "done"}]
  PROVE  PageInv'
<1>1. k \in 0..MaxLinks /\ <<k, "effect">> \in Chain
  BY PageAssumption DEF Link, Chain
<1>2. PageTypeOK'
  <2>1. chain' \in [Chain -> {"none", "armed", "asking", "ended"}]
    BY PiecesTyped DEF PageInv, PageTypeOK, Follow, LeftOver
  <2>2. sock' \in
         [Link -> {"none", "connecting", "open", "closing", "closed", "failed"}]
    BY PiecesTyped DEF PageInv, Follow
  <2> QED
    BY <1>1, <2>1, <2>2 DEF PageInv, PageTypeOK, Follow, Status
<1>3. OneConnecting'
  BY DEF PageInv, OneConnecting, Follow, Closing, PageTypeOK
<1>4. Unpaused'
  BY DEF Unpaused, Follow
<1>5. chain'[<<k, "effect">>] = "armed"
  BY <1>1, PiecesTyped DEF PageInv, PageTypeOK, Follow, LeftOver
<1>6. StillPolling'
  BY <1>1, <1>5 DEF StillPolling, Follow, Active
<1> QED
  BY <1>2, <1>3, <1>4, <1>6 DEF PageInv

\* A timer that fires ends polling only if it is paused or the time is up.
LEMMA FireKeeps ==
  ASSUME PageInv, NEW c \in Chain, Fire(c)
  PROVE  PageInv'
<1> DEFINE fired == [chain EXCEPT ![c] = "ended"]
<1>1. fired \in [Chain -> {"none", "armed", "asking", "ended"}]
  BY DEF PageInv, PageTypeOK
<1>2. PageTypeOK'
  <2>1. CASE paused
    BY <1>1, <2>1 DEF PageInv, PageTypeOK, Fire, form, sockets
  <2>2. CASE ~paused /\ overdue
    <3>1. Stopped(fired) \in [Chain -> {"none", "armed", "asking", "ended"}]
      BY <1>1 DEF Stopped
    <3> HIDE DEF fired
    <3>2. chain' = Stopped(fired) /\ ref' = NoChain /\ timedOut' = TRUE
      BY <2>2 DEF Fire, fired
    <3> QED
      BY <3>1, <3>2 DEF PageInv, PageTypeOK, Fire, form, sockets
  <2>3. CASE ~paused /\ ~overdue
    BY <2>3 DEF PageInv, PageTypeOK, Fire, form, sockets
  <2> QED
    BY <2>1, <2>2, <2>3
<1>3. OneConnecting' /\ Unpaused'
  BY DEF PageInv, OneConnecting, Unpaused, WithoutSocket, Fire, sockets
<1>4. StillPolling'
  <2> SUFFICES ASSUME NEW k \in Link, WithoutSocket(k)', ~Settled'
               PROVE  ~paused' /\ \E d \in Chain : Active(d)'
    BY DEF StillPolling
  <2>1. WithoutSocket(k) /\ paused' = paused /\ status' = status
    BY DEF WithoutSocket, Fire, sockets
  <2>2. ~paused
    BY <2>1 DEF PageInv, Unpaused
  <2>3. ~overdue
    BY <2>2 DEF Fire, Settled
  <2>4. chain'[c] = "asking"
    BY <2>2, <2>3 DEF Fire, PageInv, PageTypeOK
  <2> QED
    BY <2>1, <2>2, <2>4 DEF Active
<1> QED
  BY <1>2, <1>3, <1>4 DEF PageInv

\* An answered poll is the last one only if its status is final.
LEMMA PollAnsweredKeeps ==
  ASSUME PageInv, NEW c \in Chain, NEW s \in Status, PollAnswered(c, s)
  PROVE  PageInv'
<1>1. CASE Terminal(s)
  <2>1. PageTypeOK'
    BY <1>1, PiecesTyped, PageAssumption
       DEF PageInv, PageTypeOK, PollAnswered, NoChain, form
  <2>2. \A k \in Link : /\ sock'[k] = "connecting" => sock[k] = "connecting"
                        /\ sock'[k] = "failed" => sock[k] = "failed"
    BY <1>1 DEF PollAnswered, Closing, PageInv, PageTypeOK
  <2>3. OneConnecting'
    BY <2>2 DEF PageInv, OneConnecting, PollAnswered
  <2>4. Unpaused'
    BY <2>2 DEF PageInv, Unpaused, WithoutSocket, PollAnswered
  <2>5. StillPolling'
    BY <1>1 DEF StillPolling, Settled, PollAnswered, Terminal
  <2> QED
    BY <2>1, <2>3, <2>4, <2>5 DEF PageInv
<1>2. CASE ~Terminal(s)
  <2>1. PageTypeOK'
    BY <1>2 DEF PageInv, PageTypeOK, PollAnswered, Rearm, sockets, form
  <2>2. OneConnecting' /\ Unpaused'
    BY <1>2 DEF PageInv, OneConnecting, Unpaused, WithoutSocket, PollAnswered,
         sockets
  <2>3. chain'[c] = "armed"
    BY <1>2 DEF PageInv, PageTypeOK, PollAnswered, Rearm
  <2>4. StillPolling'
    BY <2>2, <2>3 DEF StillPolling, Unpaused, Active
  <2> QED
    BY <2>1, <2>2, <2>4 DEF PageInv
<1> QED
  BY <1>1, <1>2

\* A failed poll arms its timer again.
LEMMA PollFailsKeeps ==
  ASSUME PageInv, NEW c \in Chain, PollFails(c)
  PROVE  PageInv'
<1>1. PageTypeOK'
  BY DEF PageInv, PageTypeOK, PollFails, Rearm, shown, sockets, form
<1>2. OneConnecting' /\ Unpaused'
  BY DEF PageInv, OneConnecting, Unpaused, WithoutSocket, PollFails, sockets
<1>3. chain'[c] = "armed"
  BY DEF PageInv, PageTypeOK, PollFails, Rearm
<1>4. StillPolling'
  BY <1>2, <1>3 DEF StillPolling, Unpaused, Active
<1> QED
  BY <1>1, <1>2, <1>4 DEF PageInv

\* The socket that opens is the one of the link on the page.
LEMMA SocketOpensKeeps ==
  ASSUME PageInv, NEW k \in Link, SocketOpens(k)
  PROVE  PageInv'
<1>1. id = k /\ id' = k
  BY DEF PageInv, OneConnecting, SocketOpens
<1>2. sock'[k] = "open" /\ \A j \in Link \ {k} : sock'[j] = sock[j]
  BY DEF PageInv, PageTypeOK, SocketOpens
<1>3. PageTypeOK'
  BY PiecesTyped DEF PageInv, PageTypeOK, SocketOpens, NoChain, form, shown
<1>4. OneConnecting'
  BY <1>1, <1>2 DEF PageInv, OneConnecting
<1>5. Unpaused' /\ StillPolling'
  BY <1>1, <1>2 DEF Unpaused, StillPolling, WithoutSocket
<1> QED
  BY <1>3, <1>4, <1>5 DEF PageInv

\* A close event lifts the pause and may start a chain; it ends none.
LEMMA SocketClosesKeeps ==
  ASSUME PageInv, NEW k \in Link, SocketCloses(k)
  PROVE  PageInv'
<1>1. <<k, "resume">> \in Chain
  BY DEF Chain
<1>2. PageTypeOK'
  <2>1. chain' \in [Chain -> {"none", "armed", "asking", "ended"}]
        /\ ref' \in Chain \cup {NoChain}
    BY <1>1 DEF PageInv, PageTypeOK, SocketCloses, Rearm
  <2>2. sock' \in
         [Link -> {"none", "connecting", "open", "closing", "closed", "failed"}]
    BY DEF PageInv, PageTypeOK, SocketCloses
  <2>3. wsRef' \in 0..MaxLinks
    BY PageAssumption DEF SocketCloses
  <2>5. paused' \in BOOLEAN
    BY DEF SocketCloses
  <2>4. UNCHANGED <<view, ask, id, status, pushed, timedOut, overdue>>
    BY DEF SocketCloses, form, shown
  <2> QED
    BY <2>1, <2>2, <2>3, <2>4, <2>5 DEF PageInv, PageTypeOK
<1>3. OneConnecting'
  BY DEF PageInv, PageTypeOK, OneConnecting, SocketCloses
<1>4. Unpaused'
  BY DEF Unpaused, SocketCloses
<1>5. StillPolling'
  <2> SUFFICES ASSUME NEW j \in Link, WithoutSocket(j)', ~Settled'
               PROVE  \E d \in Chain : Active(d)'
    BY DEF StillPolling, SocketCloses
  <2>1. ~Settled /\ id = j
    BY DEF Settled, WithoutSocket, SocketCloses, shown
  <2>2. CASE ref = NoChain
    <3>1. chain'[<<k, "resume">>] = "armed"
      BY <1>1, <2>2 DEF PageInv, PageTypeOK, SocketCloses, Rearm
    <3> QED
      BY <1>1, <3>1 DEF Active
  <2>3. CASE ref # NoChain
    <3>1. WithoutSocket(j)
      BY <2>1 DEF WithoutSocket, SocketCloses, PageInv, PageTypeOK
    <3>2. PICK d \in Chain : Active(d)
      BY <2>1, <3>1 DEF PageInv, StillPolling
    <3> QED
      BY <2>3, <3>2 DEF Active, SocketCloses
  <2> QED
    BY <2>2, <2>3
<1> QED
  BY <1>2, <1>3, <1>4, <1>5 DEF PageInv

\* What leaves the link, the polls and the sockets alone keeps the invariant.
LEMMA OthersKeep ==
  ASSUME PageInv,
         UNCHANGED <<id, status, timedOut, paused, chain, ref, sockets>>,
         view' \in {"email", "code"},
         ask' \in [Link -> {"unused", "submitted", "resent", "done"}],
         overdue' \in BOOLEAN, pushed' \in Status \cup {"none"}
  PROVE  PageInv'
  BY DEF PageInv, PageTypeOK, OneConnecting, Unpaused, StillPolling, Settled,
       WithoutSocket, Active, sockets
-----------------------------------------------------------------------------
\* Every callback keeps the invariant.
LEMMA PageStep == PageInv /\ [PageNext]_pageVars => PageInv'
<1> SUFFICES ASSUME PageInv, [PageNext]_pageVars PROVE PageInv'
  OBVIOUS
<1>t. PageTypeOK
  BY DEF PageInv
<1>1. ASSUME NEW k \in Link, Submit(k) \/ Refuse(k) PROVE PageInv'
  BY <1>1, <1>t, OthersKeep
     DEF Submit, Refuse, Request, PageTypeOK, shown, polling
<1>2. ASSUME NEW k \in Link, Resend(k) PROVE PageInv'
  BY <1>2, <1>t, UnfollowKeeps DEF Resend, Request, PageTypeOK
<1>3. ASSUME NEW k \in Link, Answer(k) PROVE PageInv'
  BY <1>3, <1>t, FollowKeeps DEF Answer, PageTypeOK
<1>4. ASSUME NEW k \in Link, NEW s \in Status, SocketMessage(k, s) PROVE PageInv'
  BY <1>4, <1>t, OthersKeep DEF SocketMessage, PageTypeOK, form, polling
<1>5. CASE GoBack
  BY <1>5, <1>t, UnfollowKeeps DEF GoBack, PageTypeOK
<1>6. CASE TimePasses
  BY <1>6, <1>t, OthersKeep DEF TimePasses, PageTypeOK, form, shown
<1>7. CASE UNCHANGED pageVars
  BY <1>7, <1>t, OthersKeep DEF pageVars, form, shown, polling, PageTypeOK
<1> QED
  BY <1>1, <1>2, <1>3, <1>4, <1>5, <1>6, <1>7, FireKeeps, PollAnsweredKeeps,
     PollFailsKeeps, SocketOpensKeeps, SocketClosesKeeps DEF PageNext

\* The invariant of the page: types, one connecting socket, no pause without an
\* open socket, and polling until the page settles.
THEOREM PageInvariant == PageSpec => []PageInv
  BY PageInitial, PageStep, PTL DEF PageSpec

\* Every variable of the page keeps its type.
THEOREM PageTypeCorrect == PageSpec => []PageTypeOK
<1>1. PageInv => PageTypeOK
  BY DEF PageInv
<1> QED
  BY <1>1, PageInvariant, PTL

\* A page without a socket polls until it settles, after any number of resends
\* and with any leftovers of the links before.
THEOREM ThePageStillPolls == PageSpec => []StillPolling
<1>1. PageInv => StillPolling
  BY DEF PageInv
<1> QED
  BY <1>1, PageInvariant, PTL
=============================================================================
