--------------------------- MODULE DeliveryContract ---------------------------
(***************************************************************************)
(* What a delivery row promises its recipient, whatever the queue, the     *)
(* workers and the providers do: one message at most is sent for it, only  *)
(* after it was created, and none after it was reported failed or          *)
(* suppressed.                                                             *)
(***************************************************************************)
EXTENDS Naturals

CONSTANT Target

VARIABLES phase,  \* phase[t]: what became of t's delivery
          sent    \* sent[t]: messages sent for t

contractVars == <<phase, sent>>

Init ==
  /\ phase = [t \in Target |-> "none"]
  /\ sent = [t \in Target |-> 0]

Become(t, from, to) ==
  /\ phase[t] = from
  /\ phase' = [phase EXCEPT ![t] = to]

Create(t) == Become(t, "none", "pending") /\ UNCHANGED sent
Transmit(t) ==
  /\ Become(t, "pending", "transmitted")
  /\ sent' = [sent EXCEPT ![t] = @ + 1]
Drop(t) == Become(t, "pending", "dropped") /\ UNCHANGED sent

Next == \E t \in Target : Create(t) \/ Transmit(t) \/ Drop(t)

Spec == Init /\ [][Next]_contractVars
=============================================================================
