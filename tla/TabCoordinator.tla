---------------------------- MODULE TabCoordinator ----------------------------
(***************************************************************************)
(* Leader election between the browser tabs of one user over a             *)
(* BroadcastChannel.  A message posted by a tab is delivered, in order, to *)
(* every other tab that is open when it is posted; how long that takes,    *)
(* and how late a background tab's timers run, is left open.  Every action *)
(* is one task of a tab's event loop.                                      *)
(*                                                                         *)
(* The handlers only ask whether a message comes from another tab, which a *)
(* BroadcastChannel guarantees, so a message is its type alone.            *)
(***************************************************************************)
EXTENDS Naturals, Sequences

CONSTANTS Tab,      \* coordinators, each created once
          MaxInbox  \* bound: no tab posts by itself while an inbox is as long

ASSUME TabAssumption == MaxInbox \in Nat \ {0}

VARIABLES life,    \* life[t]: before its constructor, in use, destroyed or killed
          leader,  \* tabs whose _isLeader is set
          armed,   \* tabs whose timeoutTimer is running
          inbox    \* inbox[t]: messages t has not handled

tabVars == <<life, leader, armed, inbox>>

Message == {"heartbeat", "claim", "resign"}

TabTypeOK ==
  /\ life \in [Tab -> {"unborn", "open", "gone"}]
  /\ leader \in SUBSET Tab
  /\ armed \in SUBSET Tab
  /\ inbox \in [Tab -> Seq(Message)]

TabInit ==
  /\ life = [t \in Tab |-> "unborn"]
  /\ leader = {} /\ armed = {}
  /\ inbox = [t \in Tab |-> <<>>]

Opened(t) == life[t] = "open"

\* What postMessage(m) of t makes of the inboxes `box`.
Broadcast(box, t, m) ==
  [s \in Tab |-> IF s # t /\ Opened(s) THEN Append(box[s], m) ELSE box[s]]

\* t handles the message at the head of its inbox.
Hears(t, m) == Opened(t) /\ inbox[t] # <<>> /\ Head(inbox[t]) = m
Handled(t) == [inbox EXCEPT ![t] = Tail(@)]

Room == \A s \in Tab : Len(inbox[s]) < MaxInbox

-----------------------------------------------------------------------------
\* The constructor: the tab leads at once and claims it.
Open(t) ==
  /\ life[t] = "unborn" /\ Room
  /\ life' = [life EXCEPT ![t] = "open"]
  /\ leader' = leader \cup {t}
  /\ inbox' = Broadcast(inbox, t, "claim")
  /\ UNCHANGED armed

\* The heartbeat interval of a leader.
Beat(t) ==
  /\ Opened(t) /\ t \in leader /\ Room
  /\ inbox' = Broadcast(inbox, t, "heartbeat")
  /\ UNCHANGED <<life, leader, armed>>

\* mutant: a leader that yields forgets to watch the other one
HearHeartbeatUnwatched(t) ==
  /\ Hears(t, "heartbeat")
  /\ leader' = leader \ {t}
  /\ armed' = IF t \in leader THEN armed ELSE armed \cup {t}
  /\ inbox' = Handled(t)
  /\ UNCHANGED life

\* Another tab leads: watch it, and yield to it.
HearHeartbeat(t) ==
  /\ Hears(t, "heartbeat")
  /\ leader' = leader \ {t}
  /\ armed' = armed \cup {t}
  /\ inbox' = Handled(t)
  /\ UNCHANGED life

\* mutant: a leader asserts itself with a message type the handlers do not know
HearClaimUnknown(t) ==
  /\ Hears(t, "claim")
  /\ inbox' = IF t \in leader THEN Broadcast(Handled(t), t, "assert") ELSE Handled(t)
  /\ UNCHANGED <<life, leader, armed>>

\* A leader asserts itself; a follower watches the new leader.
HearClaim(t) ==
  /\ Hears(t, "claim")
  /\ IF t \in leader
     THEN inbox' = Broadcast(Handled(t), t, "heartbeat") /\ UNCHANGED armed
     ELSE inbox' = Handled(t) /\ armed' = armed \cup {t}
  /\ UNCHANGED <<life, leader>>

\* Whoever hears of a resignation claims, also a tab that leads already.
HearResign(t) ==
  /\ Hears(t, "resign")
  /\ leader' = leader \cup {t}
  /\ inbox' = Broadcast(Handled(t), t, "claim")
  /\ UNCHANGED <<life, armed>>

\* mutant: the timer of a follower fires without a claim
TimeoutIgnored(t) ==
  /\ Opened(t) /\ t \in armed /\ Room
  /\ armed' = armed \ {t}
  /\ UNCHANGED <<life, leader, inbox>>

\* The timer fires: a follower claims; for a leader nothing happens.
Timeout(t) ==
  /\ Opened(t) /\ t \in armed /\ Room
  /\ armed' = armed \ {t}
  /\ leader' = leader \cup {t}
  /\ inbox' = IF t \in leader THEN inbox ELSE Broadcast(inbox, t, "claim")
  /\ UNCHANGED life

\* destroy(): a leader resigns; the timers stop and the channel is closed.
\* _isLeader keeps its value but nothing reads it any more.
Destroy(t) ==
  /\ Opened(t)
  /\ life' = [life EXCEPT ![t] = "gone"]
  /\ leader' = leader \ {t} /\ armed' = armed \ {t}
  /\ inbox' = LET told == IF t \in leader THEN Broadcast(inbox, t, "resign")
                                          ELSE inbox
              IN  [told EXCEPT ![t] = <<>>]

\* The browser discards the tab; nobody is told.
Kill(t) ==
  /\ Opened(t)
  /\ life' = [life EXCEPT ![t] = "gone"]
  /\ leader' = leader \ {t} /\ armed' = armed \ {t}
  /\ inbox' = [inbox EXCEPT ![t] = <<>>]

Hear(t) == HearHeartbeat(t) \/ HearClaim(t) \/ HearResign(t)

TabNext ==
  \E t \in Tab : Open(t) \/ Beat(t) \/ Hear(t) \/ Timeout(t) \/ Destroy(t) \/ Kill(t)

TabSpec == TabInit /\ [][TabNext]_tabVars

\* Open tabs handle their messages, and a running timer fires if nobody leads:
\* then nobody sends the heartbeats that restart it.
TabFairness ==
  \A t \in Tab : /\ WF_tabVars(Hear(t))
                 /\ WF_tabVars(Timeout(t) /\ leader = {})

TabFairSpec == TabSpec /\ TabFairness

-----------------------------------------------------------------------------
\* A tab that does not lead always watches the leader: however claims,
\* heartbeats, resignations and timers interleave, no follower is left with
\* its timer stopped, so none waits for ever for a leader that is gone.
FollowersWatch == \A t \in Tab : Opened(t) => t \in leader \cup armed

\* Tabs that lead side by side find out from messages already posted: one of
\* them has a claim it will answer or a heartbeat it will yield to in its inbox,
\* so a double leadership ends without the next heartbeat or any timer
\* (TabCoordinator.ts:116-146).
HasMail(t) == \E i \in 1..Len(inbox[t]) : inbox[t][i] \in {"claim", "heartbeat"}
RivalsHaveMail ==
  \A s, t \in leader : s # t => HasMail(s) \/ HasMail(t)

\* While a tab is open, a tab leads again and again: tabs that made each other
\* yield, and tabs whose leader was discarded, recover.
LeaderReturns == []<>((\E t \in Tab : Opened(t)) => leader # {})
=============================================================================
