-------------------------- MODULE SubscriptionProofs --------------------------
(***************************************************************************)
(* Theorems about the subscriptions of one user, for every set of          *)
(* channels, requests and tokens.  Every handler acts on a row it read     *)
(* earlier, so the invariant SubInv relates each request to the row it     *)
(* holds: what was true of the row when it was read and no statement of    *)
(* another request can take back.                                          *)
(***************************************************************************)
EXTENDS Subscriptions, FiniteSetTheorems, TLAPS

\* The columns of a row agree, and its name is a token that was used.
RowOK(c) ==
  /\ row[c].status = "none" <=> row[c].id = NoLink
  /\ row[c].id # NoLink => owner[row[c].id] # NoLink
  /\ row[c].status = "declined" => row[c].declinedAt
  /\ row[c].status = "confirmed" => row[c].confirmedAt
  /\ row[c].deliveries => row[c].confirmedAt

\* A request that holds a row name holds a used one: a row created later has
\* another name and is not found.
HoldsUsedName(q) ==
  req[q].id # NoLink => owner[req[q].id] # NoLink /\ req[q].ch \in Channel

\* The statements that act on a row.
OnRow == {"create", "remove", "count", "renew", "audit", "confirm", "decline",
          "optout", "filter", "deliver"}

RequestOK(q) ==
  /\ HoldsUsedName(q)
  /\ req[q].pc \in OnRow => req[q].ch \in Channel
  /\ At(q, "confirm") /\ Found(q) /\ RowOf(q).status = "declined"
     => q \in overtaken
  /\ req[q].pc \in {"filter", "deliver"} /\ Found(q) => RowOf(q).confirmedAt
  /\ At(q, "remove") /\ req[q].op \in {"subscribe", "admin"} /\ Found(q)
     => RowOf(q).declinedAt

SubInv ==
  /\ SubTypeOK
  /\ \A c \in Channel : RowOK(c)
  /\ \A q \in Request : RequestOK(q)

\* What a statement may do to the row of a channel: keep it and its dates, and
\* mark the confirmations it overtakes when it declines the row; or delete it;
\* or create one with a name nobody holds.
RowStep(c) ==
  \/ /\ row'[c].id = row[c].id
     /\ row[c].confirmedAt => row'[c].confirmedAt
     /\ row[c].declinedAt => row'[c].declinedAt
     /\ row'[c].status = "declined" /\ row[c].status # "declined"
        => \A p \in Request :
             At(p, "confirm") /\ Found(p) /\ req[p].ch = c => p \in overtaken'
  \/ row'[c].id = NoLink
  \/ row'[c].id \in Link /\ owner[row'[c].id] = NoLink

USE SubscriptionAssumption

\* A step of one request that treats every row as RowStep says keeps what the
\* other requests know of theirs.
LEMMA OneRequest ==
  ASSUME SubInv, SubTypeOK',
         NEW q \in Request,
         \A p \in Request \ {q} : req'[p] = req[p],
         \A l \in Link : owner[l] # NoLink => owner'[l] # NoLink,
         overtaken \ {q} \subseteq overtaken',
         \A c \in Channel : RowOK(c)' /\ RowStep(c),
         RequestOK(q)'
  PROVE  SubInv'
<1>1. SUFFICES ASSUME NEW p \in Request \ {q}
               PROVE  RequestOK(p)'
  BY DEF SubInv
<1>2. RequestOK(p) /\ req'[p] = req[p] /\ req[p] \in RequestState
  BY DEF SubInv, SubTypeOK
<1>3. HoldsUsedName(p)'
  BY <1>2 DEF RequestOK, HoldsUsedName, RequestState, OrNone
<1>4. CASE ~Found(p)'
  BY <1>2, <1>3, <1>4 DEF RequestOK
<1>5. CASE Found(p)'
  <2> DEFINE c == req[p].ch
  <2>1. c \in Channel /\ req[p].id \in Link /\ owner[req[p].id] # NoLink
    BY <1>2, <1>5 DEF RequestOK, HoldsUsedName, Found, RequestState, OrNone
  <2>2. row'[c].id = req[p].id
    BY <1>2, <1>5 DEF Found, RowOf
  <2>3. /\ row'[c].id = row[c].id
        /\ row[c].confirmedAt => row'[c].confirmedAt
        /\ row[c].declinedAt => row'[c].declinedAt
        /\ row'[c].status = "declined" /\ row[c].status # "declined"
           => (At(p, "confirm") => p \in overtaken')
    BY <2>1, <2>2 DEF RowStep, Found, RowOf
  <2>4. Found(p)
    BY <2>1, <2>2, <2>3 DEF Found, RowOf
  <2>5. At(p, "confirm") /\ row'[c].status = "declined" => p \in overtaken'
    BY <1>2, <2>3, <2>4 DEF RequestOK, RowOf
  <2> QED BY <1>2, <1>3, <2>3, <2>4, <2>5 DEF RequestOK, RowOf, At
<1> QED BY <1>4, <1>5

\* Steps that read rows and write none.
LEMMA RequestOnly ==
  ASSUME SubInv,
         NEW q \in Request, NEW r \in RequestState,
         req' = [req EXCEPT ![q] = r],
         UNCHANGED <<row, owner>>,
         number' \in {"absent", "active", "removed"},
         resends' \in [Link -> Nat],
         overtaken' \in SUBSET Request, overtaken \ {q} \subseteq overtaken',
         unaudited' \in SUBSET Link,
         RequestOK(q)'
  PROVE  SubInv'
<1>1. SubTypeOK' /\ \A p \in Request \ {q} : req'[p] = req[p]
  BY DEF SubInv, SubTypeOK
<1>2. \A c \in Channel : RowOK(c)' /\ RowStep(c)
  BY DEF SubInv, RowOK, RowStep
<1> QED BY <1>1, <1>2, OneRequest

\* A request that answers holds nothing.
LEMMA IdleIsOK ==
  Idle \in RequestState /\ \A q \in Request : req'[q] = Idle => RequestOK(q)'
BY DEF Idle, RequestState, PC, Op, OrNone, RequestOK, HoldsUsedName, OnRow, At

LEMMA Arrivals ==
  ASSUME SubInv, NEW q \in Request, Arrival(q)
  PROVE  SubInv'
<1> USE DEF SubInv, SubTypeOK
<1>1. ASSUME NEW cs \in SUBSET Channel, NEW op \in {"subscribe", "admin"},
             BeginLoop(q, op, cs)
      PROVE  SubInv'
  <2> DEFINE r == [Idle EXCEPT !.pc = "look", !.op = op, !.todo = cs]
  <2>1. r \in RequestState /\ req' = [req EXCEPT ![q] = r] /\ req'[q] = r
    BY <1>1 DEF BeginLoop, Idle, RequestState, PC, Op, OrNone
  <2>2. RequestOK(q)'
    BY <2>1 DEF RequestOK, HoldsUsedName, OnRow, At, Idle
  <2> QED BY <1>1, <2>1, <2>2, RequestOnly DEF BeginLoop
<1>2. ASSUME NEW c \in Channel, NEW pc \in OnRow, NEW op \in Op,
             Begin(q, pc, op, c),
             UNCHANGED <<row, number, owner, resends, overtaken, unaudited>>,
             pc = "confirm" => row[c].status # "declined",
             pc \in {"filter", "deliver"} => row[c].confirmedAt,
             pc = "remove" => op \notin {"subscribe", "admin"}
      PROVE  SubInv'
  <2> DEFINE r == [pc |-> pc, op |-> op, ch |-> c, id |-> row[c].id,
                   todo |-> {}]
  <2>1. r \in RequestState /\ req' = [req EXCEPT ![q] = r] /\ req'[q] = r
    BY <1>2 DEF Begin, RequestState, Row, PC, OnRow
  <2>2. RequestOK(q)'
    BY <1>2, <2>1 DEF RequestOK, HoldsUsedName, OnRow, At, RowOf, RowOK
  <2> QED BY <1>2, <2>1, <2>2, RequestOnly
<1>3. ASSUME NEW c \in Channel,
             Resend(q, c) \/ Delete(q, c) \/ OpenDeliveryLink(q, c)
      PROVE  SubInv'
  BY <1>2, <1>3 DEF Resend, Delete, OpenDeliveryLink, OnRow, Op
<1>4. ASSUME NEW c \in Channel, ReadAudience(q, c)
      PROVE  SubInv'
  BY <1>2, <1>4 DEF ReadAudience, OnRow, Op, RowOK
<1>5. ASSUME NEW c \in Channel, NEW l \in Link,
             \/ ForgetByLink(q, c, l) \/ OpenLink(q, c, l, "confirm")
             \/ OpenLink(q, c, l, "decline")
      PROVE  SubInv'
  BY <1>2, <1>5 DEF ForgetByLink, OpenLink, OnRow, Op
<1>6. CASE Stop(q)
  <2>1. PICK pc \in {"restore", "declineAll"} :
          req' = [req EXCEPT ![q] = [Idle EXCEPT !.pc = pc, !.op = "stop"]]
    BY <1>6 DEF Stop
  <2> DEFINE r == [Idle EXCEPT !.pc = pc, !.op = "stop"]
  <2>2. r \in RequestState /\ req' = [req EXCEPT ![q] = r] /\ req'[q] = r
    BY <2>1 DEF Idle, RequestState, PC, Op, OrNone
  <2>3. RequestOK(q)'
    BY <2>2 DEF RequestOK, HoldsUsedName, OnRow, At, Idle
  <2> QED BY <1>6, <2>2, <2>3, RequestOnly DEF Stop
<1> QED BY <1>1, <1>3, <1>4, <1>5, <1>6
           DEF Arrival, Subscribe, AdminSubscribe

\* Statements that only read, or write something else than rows.
LEMMA Reads ==
  ASSUME SubInv, NEW q \in Request,
         \/ \E c \in Channel : Look(q, c)
         \/ CountResends(q) \/ Audit(q) \/ Restore(q) \/ DropSuppressed(q)
  PROVE  SubInv'
<1> USE DEF SubInv, SubTypeOK
<1>0. RequestOK(q) /\ req[q] \in RequestState
  OBVIOUS
<1>1. ASSUME NEW rest \in SUBSET Channel, NextChannel(q, rest),
             UNCHANGED <<row, number, owner, overtaken, unaudited>>,
             resends' \in [Link -> Nat]
      PROVE  SubInv'
  <2> DEFINE r == IF rest = {} THEN Idle
                  ELSE [Idle EXCEPT !.pc = "look", !.op = req[q].op,
                                    !.todo = rest]
  <2>1. r \in RequestState /\ req' = [req EXCEPT ![q] = r] /\ req'[q] = r
    BY <1>0, <1>1 DEF NextChannel, Idle, RequestState, PC, Op, OrNone
  <2>2. RequestOK(q)'
    BY <2>1 DEF RequestOK, HoldsUsedName, OnRow, At, Idle
  <2> QED BY <1>1, <2>1, <2>2, RequestOnly
<1>2. ASSUME End(q),
             UNCHANGED <<row, number, owner, resends, overtaken, unaudited>>
      PROVE  SubInv'
  <2>1. req' = [req EXCEPT ![q] = Idle] /\ req'[q] = Idle
    BY <1>2 DEF End
  <2> QED BY <1>2, <2>1, IdleIsOK, RequestOnly
<1>3. ASSUME NEW c \in Channel, Look(q, c)
      PROVE  SubInv'
  <2>1. ASSUME NEW pc \in {"create", "remove", "count"}, Proceed(q, c, pc),
               pc = "remove" => row[c].declinedAt
        PROVE  SubInv'
    <3> DEFINE r == [req[q] EXCEPT !.pc = pc, !.ch = c, !.id = row[c].id,
                                   !.todo = req[q].todo \ {c}]
    <3>1. r \in RequestState /\ req' = [req EXCEPT ![q] = r] /\ req'[q] = r
      BY <1>0, <2>1 DEF Proceed, RequestState, PC, Row
    <3>2. RequestOK(q)'
      BY <1>3, <2>1, <3>1 DEF RequestOK, HoldsUsedName, OnRow, At, RowOf, RowOK,
                              Look, RequestState
    <3> QED BY <1>3, <2>1, <3>1, <3>2, RequestOnly DEF Look
  <2>2. CASE NextChannel(q, req[q].todo \ {c})
    BY <1>0, <1>1, <1>3, <2>2 DEF Look, RequestState
  <2>3. CASE End(q)
    BY <1>2, <1>3, <2>3 DEF Look
  <2> QED BY <1>3, <2>1, <2>2, <2>3 DEF Look, RowOK
<1>4. ASSUME NEW pc \in {"renew", "declineAll", "deliver", "error"}, Go(q, pc),
             UNCHANGED <<row, owner, resends, overtaken, unaudited>>,
             number' \in {"absent", "active", "removed"},
             pc = "renew" => At(q, "count"), pc = "deliver" => At(q, "filter")
      PROVE  SubInv'
  <2> DEFINE r == [req[q] EXCEPT !.pc = pc]
  <2>1. r \in RequestState /\ req' = [req EXCEPT ![q] = r] /\ req'[q] = r
    BY <1>0, <1>4 DEF Go, RequestState, PC
  <2>2. RequestOK(q)'
    BY <1>0, <1>4, <2>1 DEF RequestOK, HoldsUsedName, OnRow, At, RowOf, Found,
                            RequestState
  <2> QED BY <1>4, <2>1, <2>2, RequestOnly
<1>5. CASE CountResends(q)
  BY <1>0, <1>1, <1>4, <1>5 DEF CountResends, RequestState
<1>6. CASE Audit(q)
  <2>1. resends' \in [Link -> Nat]
    <3>1. resends \in [Link -> Nat]
      OBVIOUS
    <3>2. \A l \in Link : resends'[l] \in {resends[l], resends[l] + 1}
      BY <1>6, <3>1 DEF Audit
    <3>3. resends' = [l \in Link |-> resends'[l]]
      BY <1>6, <3>1 DEF Audit
    <3> QED BY <3>1, <3>2, <3>3
  <2>2. req[q].todo \in SUBSET Channel
    BY <1>0 DEF RequestState
  <2> QED BY <1>1, <1>6, <2>1, <2>2 DEF Audit
<1>7. CASE Restore(q)
  BY <1>4, <1>7 DEF Restore
<1>8. CASE DropSuppressed(q)
  BY <1>2, <1>4, <1>8 DEF DropSuppressed
<1> QED BY <1>3, <1>5, <1>6, <1>7, <1>8

\* A statement that finds no row to act on answers 500 and changes no row.
LEMMA Failures ==
  ASSUME SubInv, NEW q \in Request,
         Go(q, "error"), UNCHANGED <<row, number, owner, resends, unaudited>>,
         overtaken' \in {overtaken, overtaken \ {q}}
  PROVE  SubInv'
<1> DEFINE r == [req[q] EXCEPT !.pc = "error"]
<1>1. RequestOK(q) /\ r \in RequestState /\ req' = [req EXCEPT ![q] = r]
      /\ req'[q] = r
  BY DEF SubInv, SubTypeOK, Go, RequestState, PC
<1>2. RequestOK(q)'
  BY <1>1 DEF RequestOK, HoldsUsedName, OnRow, At, SubInv, SubTypeOK,
              RequestState
<1> QED BY <1>1, <1>2, RequestOnly DEF SubInv, SubTypeOK

\* A statement that replaces the row of its channel by d and goes on as r.
LEMMA OneRow ==
  ASSUME SubInv, NEW q \in Request, NEW c \in Channel,
         NEW d \in Row, NEW r \in RequestState,
         row' = [row EXCEPT ![c] = d], req' = [req EXCEPT ![q] = r],
         owner' \in [Link -> OrNone(Link)],
         \A l \in Link : owner[l] # NoLink => owner'[l] # NoLink,
         UNCHANGED <<number, resends, unaudited>>,
         overtaken' \in SUBSET Request, overtaken \ {q} \subseteq overtaken',
         RowOK(c)', RowStep(c), RequestOK(q)'
  PROVE  SubInv'
<1> USE DEF SubInv, SubTypeOK
<1>1. SubTypeOK' /\ \A p \in Request \ {q} : req'[p] = req[p]
  OBVIOUS
<1>2. ASSUME NEW e \in Channel \ {c}
      PROVE  RowOK(e)' /\ RowStep(e)
  <2>1. row'[e] = row[e] /\ row[e] \in Row
    OBVIOUS
  <2> QED BY <2>1 DEF RowOK, RowStep, Row, OrNone
<1> QED BY <1>1, <1>2, OneRequest

\* What SubInv says of a request about to act on its row, that of channel c.
HeldRow(q, c) ==
  /\ RequestOK(q) /\ RowOK(c) /\ row[c] \in Row
  /\ req[q] \in RequestState
  /\ row \in [Channel -> Row] /\ req \in [Request -> RequestState]
  /\ owner \in [Link -> OrNone(Link)] /\ overtaken \in SUBSET Request

LEMMA OnItsRow ==
  ASSUME SubInv, NEW q \in Request, req[q].pc \in OnRow
  PROVE  req[q].ch \in Channel /\ HeldRow(q, req[q].ch)
BY DEF SubInv, SubTypeOK, RequestOK, HeldRow

LEMMA HoldsNothing ==
  ASSUME NEW q \in Request, req'[q].pc \notin OnRow, req'[q].id = NoLink
  PROVE  RequestOK(q)'
BY DEF RequestOK, HoldsUsedName, At, OnRow

LEMMA Creates ==
  ASSUME SubInv, NEW q \in Request, Create(q)
  PROVE  SubInv'
<1>0. PICK c \in Channel : c = req[q].ch /\ HeldRow(q, c)
  BY OnItsRow DEF Create, At, OnRow, HeldRow
<1>1. CASE Go(q, "error") /\ UNCHANGED <<row, owner>>
  BY <1>1, Failures DEF Create
<1>2. ASSUME NEW l \in Link, owner[l] = NoLink,
             owner' = [owner EXCEPT ![l] = l],
             row' = [row EXCEPT ![c] = NewRow(l)],
             NextChannel(q, req[q].todo)
      PROVE  SubInv'
  <2> DEFINE r == IF req[q].todo = {} THEN Idle
                  ELSE [Idle EXCEPT !.pc = "look", !.op = req[q].op,
                                    !.todo = req[q].todo]
  <2>1. r \in RequestState /\ req' = [req EXCEPT ![q] = r] /\ req'[q] = r
    BY <1>0, <1>2 DEF HeldRow, NextChannel, Idle, RequestState, PC, Op, OrNone
  <2>2. RequestOK(q)'
    <3>1. r.pc \in {"idle", "look"} /\ r.id = NoLink
      BY DEF Idle
    <3> QED BY <2>1, <3>1, HoldsNothing DEF OnRow
  <2>3. /\ NewRow(l) \in Row /\ row'[c] = NewRow(l) /\ owner'[l] = l
        /\ NewRow(l).id = l /\ NewRow(l).status = "pending"
        /\ ~NewRow(l).deliveries /\ l # NoLink
    BY <1>0, <1>2 DEF HeldRow, NewRow, NoRow, Row, Status, OrNone
  <2>4. RowOK(c)' /\ RowStep(c)
    BY <1>2, <2>3 DEF RowOK, RowStep
  <2>5. /\ owner' \in [Link -> OrNone(Link)]
        /\ \A k \in Link : owner[k] # NoLink => owner'[k] # NoLink
    BY <1>0, <1>2 DEF HeldRow, OrNone
  <2> QED BY <1>0, <1>2, <2>1, <2>2, <2>3, <2>4, <2>5, OneRow
             DEF HeldRow, Create
<1> QED BY <1>0, <1>1, <1>2 DEF Create

LEMMA Removes ==
  ASSUME SubInv, NEW q \in Request, Remove(q)
  PROVE  SubInv'
<1>0. PICK c \in Channel : c = req[q].ch /\ HeldRow(q, c)
  BY OnItsRow DEF Remove, At, OnRow, HeldRow
<1>1. CASE Go(q, "error") /\ UNCHANGED row
  BY <1>1, Failures DEF Remove
<1>2. ASSUME row' = [row EXCEPT ![c] = NoRow],
             NEW r \in {Idle, [req[q] EXCEPT !.pc = "create", !.id = NoLink]},
             req' = [req EXCEPT ![q] = r]
      PROVE  SubInv'
  <2>1. r \in RequestState /\ req'[q] = r
    BY <1>0, <1>2, IdleIsOK DEF HeldRow, RequestState, PC, OrNone
  <2>2. RequestOK(q)'
    <3>1. r.id = NoLink /\ (r.pc \in OnRow => r.pc = "create" /\ r.ch = c)
      <4>1. CASE r = Idle
        BY <4>1 DEF Idle, OnRow
      <4>2. CASE r = [req[q] EXCEPT !.pc = "create", !.id = NoLink]
        BY <1>0, <4>2 DEF HeldRow, RequestState
      <4> QED BY <1>2, <4>1, <4>2
    <3> QED BY <2>1, <3>1 DEF RequestOK, HoldsUsedName, At, OnRow
  <2>3. NoRow \in Row /\ row'[c] = NoRow
    BY <1>0, <1>2 DEF HeldRow, NoRow, Row, Status, OrNone
  <2>4. RowOK(c)' /\ RowStep(c)
    BY <1>2, <2>3 DEF RowOK, RowStep, NoRow
  <2> QED BY <1>0, <1>2, <2>1, <2>2, <2>3, <2>4, OneRow DEF HeldRow, Remove
<1> QED BY <1>0, <1>1, <1>2 DEF Remove, End

LEMMA Renewals ==
  ASSUME SubInv, NEW q \in Request, Renew(q)
  PROVE  SubInv'
<1>0. PICK c \in Channel : c = req[q].ch /\ HeldRow(q, c)
  BY OnItsRow DEF Renew, At, OnRow, HeldRow
<1>1. CASE Go(q, "error") /\ UNCHANGED <<row, owner>>
  BY <1>1, Failures DEF Renew
<1>2. ASSUME Found(q), Go(q, "audit"), NEW l \in Link, owner[l] = NoLink,
             owner' = [owner EXCEPT ![l] = req[q].id],
             row' = [row EXCEPT ![c] =
                       [row[c] EXCEPT !.hash = l, !.expired = FALSE]]
      PROVE  SubInv'
  <2> DEFINE r == [req[q] EXCEPT !.pc = "audit"]
             d == [row[c] EXCEPT !.hash = l, !.expired = FALSE]
  <2>1. r \in RequestState /\ req' = [req EXCEPT ![q] = r] /\ req'[q] = r
    BY <1>0, <1>2 DEF HeldRow, Go, RequestState, PC
  <2>2. /\ owner' \in [Link -> OrNone(Link)]
        /\ \A k \in Link : owner[k] # NoLink => owner'[k] # NoLink
    BY <1>0, <1>2 DEF HeldRow, RequestState, Found, OrNone
  <2>3. RequestOK(q)'
    BY <1>0, <2>1, <2>2 DEF HeldRow, RequestOK, HoldsUsedName, OnRow, At,
                            RequestState, OrNone
  <2>4. d \in Row /\ row'[c] = d
    BY <1>0, <1>2 DEF HeldRow, Row, OrNone
  <2>5. RowOK(c)' /\ RowStep(c)
    BY <1>0, <2>2, <2>4 DEF HeldRow, RowOK, RowStep, Row, OrNone
  <2> QED BY <1>0, <1>2, <2>1, <2>2, <2>3, <2>4, <2>5, OneRow
             DEF HeldRow, Renew
<1> QED BY <1>0, <1>1, <1>2 DEF Renew, RowOf

LEMMA Confirms ==
  ASSUME SubInv, NEW q \in Request, Confirm(q)
  PROVE  SubInv'
<1>0. PICK c \in Channel : c = req[q].ch /\ HeldRow(q, c)
  BY OnItsRow DEF Confirm, At, OnRow, HeldRow
<1>1. CASE Go(q, "error") /\ UNCHANGED row
  BY <1>1, Failures DEF Confirm
<1> DEFINE d == [row[c] EXCEPT !.status = "confirmed", !.confirmedAt = TRUE,
                               !.hash = NoLink, !.expired = FALSE]
<1>2. ASSUME Found(q), End(q), row' = [row EXCEPT ![c] = d]
      PROVE  SubInv'
  <2>1. /\ req' = [req EXCEPT ![q] = Idle] /\ RequestOK(q)'
        /\ Idle \in RequestState
    BY <1>0, <1>2, IdleIsOK DEF HeldRow, End
  <2>2. d \in Row /\ row'[c] = d
    BY <1>0, <1>2 DEF HeldRow, Row, Status, OrNone
  <2>3. row[c].id # NoLink /\ UNCHANGED owner
    BY <1>0, <1>2 DEF Found, RowOf, Confirm
  <2>4. RowOK(c)' /\ RowStep(c)
    BY <1>0, <2>2, <2>3 DEF HeldRow, RowOK, RowStep, Row
  <2>5. overtaken' \in SUBSET Request /\ overtaken \ {q} \subseteq overtaken'
    BY <1>0 DEF HeldRow, Confirm
  <2> QED BY <1>0, <1>2, <2>1, <2>2, <2>3, <2>4, <2>5, OneRow
             DEF HeldRow, Confirm
<1> QED BY <1>0, <1>1, <1>2 DEF Confirm

LEMMA Delivers ==
  ASSUME SubInv, NEW q \in Request, Deliver(q)
  PROVE  SubInv'
<1>0. PICK c \in Channel : c = req[q].ch /\ HeldRow(q, c)
  BY OnItsRow DEF Deliver, At, OnRow, HeldRow
<1>1. CASE Go(q, "error") /\ UNCHANGED row
  BY <1>1, Failures DEF Deliver
<1> DEFINE d == [row[c] EXCEPT !.deliveries = TRUE]
<1>2. ASSUME Found(q), End(q), row' = [row EXCEPT ![c] = d]
      PROVE  SubInv'
  <2>1. /\ req' = [req EXCEPT ![q] = Idle] /\ RequestOK(q)'
        /\ Idle \in RequestState
    BY <1>0, <1>2, IdleIsOK DEF HeldRow, End
  <2>2. d \in Row /\ row'[c] = d
    BY <1>0, <1>2 DEF HeldRow, Row
  <2>3. row[c].confirmedAt
    BY <1>0, <1>2 DEF HeldRow, RequestOK, RowOf, At, Deliver
  <2>4. RowOK(c)' /\ RowStep(c)
    BY <1>0, <2>2, <2>3 DEF HeldRow, RowOK, RowStep, Row, Deliver
  <2> QED BY <1>0, <1>2, <2>1, <2>2, <2>4, OneRow DEF HeldRow, Deliver
<1> QED BY <1>0, <1>1, <1>2 DEF Deliver

\* An opt-out of any number of existing rows.
LEMMA OptsOut ==
  ASSUME SubInv, NEW q \in Request, NEW cs \in SUBSET Channel,
         NEW hash \in [Channel -> OrNone(Link)], OptOut(cs, hash), End(q),
         \A c \in cs : row[c].id # NoLink,
         UNCHANGED <<number, owner, resends, unaudited>>
  PROVE  SubInv'
<1>1. SubTypeOK
  BY DEF SubInv
<1>2. /\ req' = [req EXCEPT ![q] = Idle] /\ RequestOK(q)'
      /\ Idle \in RequestState
      /\ \A p \in Request \ {q} : req'[p] = req[p]
  BY <1>1, IdleIsOK DEF End, SubTypeOK
<1>3. ASSUME NEW c \in Channel
      PROVE  row'[c] \in Row /\ RowOK(c)' /\ RowStep(c)
  <2>1. row[c] \in Row /\ RowOK(c) /\ hash[c] \in OrNone(Link)
    BY <1>1 DEF SubInv, SubTypeOK
  <2>2. CASE c \in cs
    <3>1. row'[c] = [row[c] EXCEPT !.status = "declined", !.declinedAt = TRUE,
                       !.hash = hash[c],
                       !.expired = row[c].expired /\ hash[c] # NoLink]
      BY <2>2 DEF OptOut
    <3>2. row'[c] \in Row
      BY <2>1, <3>1 DEF Row, Status
    <3>3. RowOK(c)'
      BY <2>1, <2>2, <3>1 DEF Row, RowOK
    <3>4. \A p \in Request : At(p, "confirm") /\ Found(p) /\ req[p].ch = c
                             => p \in overtaken'
      BY <2>2 DEF OptOut
    <3> QED BY <2>1, <3>1, <3>2, <3>3, <3>4 DEF RowStep, Row
  <2>3. CASE c \notin cs
    <3>1. row'[c] = row[c]
      BY <2>3 DEF OptOut
    <3> QED BY <2>1, <3>1 DEF RowOK, RowStep
  <2> QED BY <2>2, <2>3
<1>4. overtaken' \in SUBSET Request /\ overtaken \subseteq overtaken'
  BY <1>1 DEF SubTypeOK, OptOut
<1>5. row' \in [Channel -> Row]
  <2>1. row' = [c \in Channel |-> row'[c]]
    BY DEF OptOut
  <2> QED BY <1>3, <2>1
<1>6. SubTypeOK'
  BY <1>1, <1>2, <1>4, <1>5 DEF SubTypeOK
<1> QED BY <1>2, <1>3, <1>4, <1>6, OneRequest

LEMMA OptOuts ==
  ASSUME SubInv, NEW q \in Request,
         Decline(q) \/ Unsubscribe(q) \/ DeclineAll(q)
  PROVE  SubInv'
<1>1. Hashes \in [Channel -> OrNone(Link)]
  BY DEF Hashes, SubInv, SubTypeOK, Row
<1>2. CASE Go(q, "error") /\ UNCHANGED <<row, overtaken>>
  BY <1>2, Failures DEF Decline, Unsubscribe, DeclineAll, End, Go
<1>3. CASE DeclineAll(q)
  <2> DEFINE cs == {c \in Channel \cap {"sms"} :
                      row[c].status \in {"pending", "confirmed"}}
  <2>1. cs \in SUBSET Channel /\ \A c \in cs : row[c].id # NoLink
    BY DEF SubInv, RowOK
  <2> QED BY <1>1, <1>3, <2>1, OptsOut DEF DeclineAll
<1>4. ASSUME Found(q), req[q].pc \in OnRow, End(q),
             NEW hash \in [Channel -> OrNone(Link)], OptOut({req[q].ch}, hash),
             UNCHANGED <<number, owner, resends, unaudited>>
      PROVE  SubInv'
  <2>1. PICK c \in Channel : c = req[q].ch
    BY <1>4, OnItsRow
  <2>2. row[c].id # NoLink /\ {c} \in SUBSET Channel
    BY <1>4, <2>1 DEF Found, RowOf
  <2> QED BY <1>4, <2>1, <2>2, OptsOut
<1>5. [Hashes EXCEPT ![req[q].ch] = NoLink] \in [Channel -> OrNone(Link)]
  BY <1>1 DEF OrNone
<1> QED BY <1>1, <1>2, <1>3, <1>4, <1>5 DEF Decline, Unsubscribe, At, OnRow

LEMMA Ends ==
  ASSUME SubInv, NEW q \in Request, Fail(q)
  PROVE  SubInv'
<1>1. SubTypeOK
  BY DEF SubInv
<1>2. /\ req' = [req EXCEPT ![q] = Idle] /\ RequestOK(q)'
      /\ Idle \in RequestState
  BY <1>1, IdleIsOK DEF Fail, End, SubTypeOK
<1>3. /\ overtaken' \in SUBSET Request /\ overtaken \ {q} \subseteq overtaken'
      /\ unaudited' \in SUBSET Link
      /\ number' \in {"absent", "active", "removed"}
      /\ resends' \in [Link -> Nat] /\ UNCHANGED <<row, owner>>
  BY <1>1 DEF Fail, SubTypeOK
<1> QED BY <1>2, <1>3, RequestOnly

LEMMA TimePasses ==
  ASSUME SubInv, NEW c \in Channel, Expire(c)
  PROVE  SubInv'
<1> DEFINE d == [row[c] EXCEPT !.expired = TRUE]
<1>1. SubTypeOK /\ row[c] \in Row /\ row' = [row EXCEPT ![c] = d] /\ d \in Row
  <2>1. SubTypeOK /\ row[c] \in Row
    BY DEF SubInv, SubTypeOK
  <2>2. d \in Row
    BY <2>1 DEF Row
  <2>3. row' = [row EXCEPT ![c] = d]
    BY Zenon DEF Expire
  <2> QED BY <2>1, <2>2, <2>3
<1>2. SubTypeOK' /\ row'[c] = d
  BY <1>1 DEF SubTypeOK, Expire
<1>3. ASSUME NEW e \in Channel
      PROVE  /\ RowOK(e)' /\ row'[e].id = row[e].id
             /\ row'[e].status = row[e].status
             /\ row'[e].confirmedAt = row[e].confirmedAt
             /\ row'[e].declinedAt = row[e].declinedAt
  <2>1. RowOK(e) /\ row[e] \in Row
    BY <1>1 DEF SubInv, SubTypeOK
  <2>2. CASE e = c
    BY <1>1, <1>2, <2>1, <2>2 DEF RowOK, Row, Expire
  <2>3. CASE e # c
    <3>1. row'[e] = row[e]
      BY <1>1, <2>3 DEF SubTypeOK
    <3> QED BY <2>1, <3>1 DEF RowOK, Expire
  <2> QED BY <2>2, <2>3
<1>4. ASSUME NEW q \in Request
      PROVE  RequestOK(q)'
  BY <1>3 DEF SubInv, RequestOK, HoldsUsedName, Found, RowOf, At, OnRow, Expire
<1> QED BY <1>2, <1>3, <1>4 DEF SubInv

LEMMA Starts ==
  ASSUME SubInv, Start
  PROVE  SubInv'
BY DEF SubInv, SubTypeOK, Start, RowOK, RequestOK, HoldsUsedName, Found, RowOf,
       At, OnRow
-----------------------------------------------------------------------------
LEMMA InitIsInv == Init => SubInv
BY DEF Init, SubInv, SubTypeOK, NoRow, Row, Status, Idle, RequestState, PC, Op,
       OrNone, RowOK, RequestOK, HoldsUsedName, OnRow, At

LEMMA StepKeepsInv == SubInv /\ [Next]_vars => SubInv'
<1> SUFFICES ASSUME SubInv, [Next]_vars PROVE SubInv'
  OBVIOUS
<1>1. CASE UNCHANGED vars
  BY <1>1 DEF vars, SubInv, SubTypeOK, RowOK, RequestOK, HoldsUsedName, Found,
              RowOf, At
<1>2. ASSUME NEW q \in Request, Statement(q)
      PROVE  SubInv'
  BY <1>2, Reads, Creates, Removes, Renewals, Confirms, Delivers, OptOuts
     DEF Statement
<1> QED BY <1>1, <1>2, Arrivals, Ends, TimePasses, Starts DEF Next

LEMMA Invariance == Spec => []SubInv
BY InitIsInv, StepKeepsInv, PTL DEF Spec

\* Rows, requests and histories keep their types.
THEOREM SubscriptionTypeCorrect == Spec => []SubTypeOK
<1>1. SubInv => SubTypeOK
  BY DEF SubInv
<1> QED BY <1>1, Invariance, PTL

\* Only a row its user had confirmed is ever referred to by a delivery.
THEOREM OnlyConfirmedAreDelivered == Spec => []DeliveredWereConfirmed
<1>1. SubInv => DeliveredWereConfirmed
  BY DEF SubInv, RowOK, DeliveredWereConfirmed
<1> QED BY <1>1, Invariance, PTL

\* Subscribing again deletes only rows that were opted out.
THEOREM StandingSubscriptionsStay == Spec => []OnlyOptedOutIsReplaced
<1>1. SubInv => OnlyOptedOutIsReplaced
  BY DEF SubInv, RequestOK, OnlyOptedOutIsReplaced
<1> QED BY <1>1, Invariance, PTL

\* The only statement that takes a row out of "declined" is the confirmation of
\* a request that found the row pending, and such a request is in overtaken.
LEMMA OnlyLateConfirmations ==
  ASSUME SubInv, Next, NEW c \in Channel, row[c].status = "declined",
         row'[c].id = row[c].id, row'[c].status # "declined"
  PROVE  \E q \in overtaken : At(q, "confirm") /\ req[q].ch = c
<1>1. /\ row[c] \in Row /\ row[c].id # NoLink /\ row'[c] # row[c]
      /\ row \in [Channel -> Row]
  BY DEF SubInv, SubTypeOK, RowOK
<1>2. ASSUME NEW q \in Request, NEW e \in Channel, e = req[q].ch,
             \/ Create(q) \/ Remove(q) \/ Renew(q) \/ Deliver(q)
      PROVE  FALSE
  <2>1. CASE Create(q)
    BY <1>1, <1>2, <2>1 DEF Create, RowOf
  <2>2. CASE Remove(q)
    BY <1>1, <1>2, <2>2 DEF Remove, NoRow
  <2>3. CASE Renew(q)
    <3>1. \/ row' = row
          \/ \E l \in Link : row' = [row EXCEPT ![e] =
                              [row[e] EXCEPT !.hash = l, !.expired = FALSE]]
      BY <1>2, <2>3 DEF Renew
    <3>2. row'[c].status = row[c].status
      <4>1. CASE c = e
        <5>1. ASSUME NEW l \in Link,
                     row' = [row EXCEPT ![e] =
                               [row[e] EXCEPT !.hash = l, !.expired = FALSE]]
              PROVE  row'[c] = [row[c] EXCEPT !.hash = l, !.expired = FALSE]
          BY <1>1, <4>1, <5>1
        <5>2. \A l : [row[c] EXCEPT !.hash = l, !.expired = FALSE].status
                     = row[c].status
          BY <1>1 DEF Row
        <5> QED BY <3>1, <5>1, <5>2
      <4>2. CASE c # e
        BY <1>1, <3>1, <4>2
      <4> QED BY <4>1, <4>2
    <3> QED BY <3>2
  <2>4. CASE Deliver(q)
    BY <1>1, <1>2, <2>4 DEF Deliver, Row
  <2> QED BY <1>2, <2>1, <2>2, <2>3, <2>4
<1>3. ASSUME NEW q \in Request, Confirm(q)
      PROVE  q \in overtaken /\ At(q, "confirm") /\ req[q].ch = c
  <2>1. PICK e \in Channel : e = req[q].ch /\ HeldRow(q, e)
    BY <1>3, OnItsRow DEF Confirm, At, OnRow, HeldRow
  <2>2. Found(q) /\ e = c
    BY <1>1, <1>3, <2>1 DEF Confirm
  <2> QED BY <1>3, <2>1, <2>2 DEF HeldRow, RequestOK, RowOf, Confirm
<1>4. ASSUME NEW cs, NEW hash, OptOut(cs, hash)
      PROVE  FALSE
  <2>1. CASE c \in cs
    BY <1>1, <1>4, <2>1 DEF OptOut, Row
  <2>2. CASE c \notin cs
    BY <1>1, <1>4, <2>2 DEF OptOut
  <2> QED BY <2>1, <2>2
<1>5. ASSUME NEW e \in Channel, Expire(e)
      PROVE  FALSE
  BY <1>1, <1>5 DEF Expire, Row
<1>6. row' # row
  BY <1>1
<1>7. PICK q \in Request : Statement(q)
  BY <1>5, <1>6
     DEF Next, Arrival, Subscribe, AdminSubscribe, BeginLoop, Resend, Delete,
         OpenDeliveryLink, ReadAudience, ForgetByLink, OpenLink, Stop, Fail,
         Start
<1>8. Create(q) \/ Remove(q) \/ Renew(q) \/ Deliver(q)
      => req[q].ch \in Channel
  BY OnItsRow DEF Create, Remove, Renew, Deliver, At, OnRow
<1> QED BY <1>2, <1>3, <1>4, <1>6, <1>7, <1>8
           DEF Statement, Look, CountResends, Audit, Restore, DropSuppressed,
               Decline, Unsubscribe, DeclineAll

\* An opted-out row is confirmed only by a request that had found it pending.
THEOREM OptOutsAreFinal == Spec => OptOutIsFinal
<1>1. SubInv /\ [Next]_vars =>
        [\A c \in Channel :
           /\ row[c].status = "declined" /\ row'[c].id = row[c].id
           /\ row'[c].status # "declined"
           => \E q \in overtaken : At(q, "confirm") /\ req[q].ch = c]_vars
  BY OnlyLateConfirmations
<1> QED BY <1>1, Invariance, PTL DEF Spec, OptOutIsFinal
-----------------------------------------------------------------------------
(***************************************************************************)
(* How many tokens a row gets.  The limit is compared with audit entries   *)
(* that are written after the token, so the tokens of a row are bounded by *)
(* its entries plus the requests that have still to write theirs, and the  *)
(* entries by the limit plus the requests that passed the comparison.      *)
(***************************************************************************)

\* The tokens row l was given after its first.
Resent(l) == LinksOf(l) \ {l}

\* The requests that stored a token in row l and did not record it yet, and
\* those that passed the comparison for row l and did not record a token yet.
Auditing(l) == {q \in Request : At(q, "audit") /\ req[q].id = l}
Renewing(l) == {q \in Request : req[q].pc \in {"renew", "audit"}
                                /\ req[q].id = l}

\* A name in use is the first token of its own row.
Owns(l) == l # NoLink => owner[l] = l

NamesOK ==
  /\ \A k \in Link : Owns(owner[k])
  /\ \A c \in Channel : Owns(row[c].id)
  /\ \A q \in Request : Owns(req[q].id)
  /\ \A q \in Request : req[q].pc \in {"count", "renew", "audit"}
                        => req[q].id # NoLink

TokensOK(l) ==
  l \notin unaudited
  => Cardinality(Resent(l)) <= resends[l] + Cardinality(Auditing(l))
EntriesOK(l) ==
  resends[l] + Cardinality(Renewing(l))
    <= ResendLimit + Cardinality(Request) - 1

ResendInv ==
  /\ SubInv
  /\ NamesOK
  /\ \A l \in Link : TokensOK(l) /\ EntriesOK(l)

LEMMA FiniteParts ==
  ASSUME NEW l
  PROVE  /\ IsFiniteSet(Resent(l)) /\ Cardinality(Resent(l)) \in Nat
         /\ IsFiniteSet(Auditing(l)) /\ Cardinality(Auditing(l)) \in Nat
         /\ IsFiniteSet(Renewing(l)) /\ Cardinality(Renewing(l)) \in Nat
         /\ Cardinality(Auditing(l)) <= Cardinality(Renewing(l))
         /\ Cardinality(Renewing(l)) <= Cardinality(Request)
         /\ Cardinality(Request) \in Nat \ {0}
<1>1. /\ Resent(l) \in SUBSET Link /\ Renewing(l) \in SUBSET Request
      /\ Auditing(l) \in SUBSET Renewing(l)
  BY DEF Resent, LinksOf, Renewing, Auditing, At
<1>2. IsFiniteSet(Resent(l)) /\ IsFiniteSet(Renewing(l))
  BY <1>1, FS_Subset
<1>3. IsFiniteSet(Auditing(l))
      /\ Cardinality(Auditing(l)) <= Cardinality(Renewing(l))
  BY <1>1, <1>2, FS_Subset
<1>4. Cardinality(Renewing(l)) <= Cardinality(Request)
  BY <1>1, FS_Subset
<1>5. Cardinality(Request) \in Nat /\ Cardinality(Request) # 0
  BY FS_CardinalityType, FS_EmptySet
<1> QED BY <1>2, <1>3, <1>4, <1>5, FS_CardinalityType

\* A step that stores no second token in a row, writes no audit entry and lets
\* no request pass the comparison.
QuietStep ==
  /\ \/ owner' = owner
     \/ \E l \in Link : owner[l] = NoLink /\ owner' = [owner EXCEPT ![l] = l]
  /\ \A c \in Channel : \/ row'[c].id \in {row[c].id, NoLink}
                        \/ owner'[row'[c].id] = row'[c].id
  /\ \A p \in Request :
       /\ \/ req'[p].id \in {req[p].id, NoLink}
          \/ \E c \in Channel : req'[p].id = row[c].id
       /\ req'[p].pc = "count" => req'[p].id # NoLink
       /\ req'[p].pc \in {"renew", "audit"} => req'[p] = req[p]
       /\ At(p, "audit") => req'[p] = req[p] \/ req[p].id \in unaudited'
  /\ resends' = resends /\ unaudited \subseteq unaudited'

LEMMA QuietKeepsNames ==
  ASSUME ResendInv, QuietStep
  PROVE  NamesOK'
<1>0. owner \in [Link -> OrNone(Link)] /\ NamesOK
  BY DEF ResendInv, SubInv, SubTypeOK
<1>1. ASSUME NEW l, l \in OrNone(Link), Owns(l)
      PROVE  Owns(l)'
  BY <1>0, <1>1 DEF QuietStep, Owns, OrNone
<1>2. \A k \in Link : owner[k] \in OrNone(Link) /\ Owns(owner[k])
  BY <1>0 DEF NamesOK
<1>3. ASSUME NEW k \in Link
      PROVE  Owns(owner[k])'
  <2>1. CASE owner'[k] = owner[k]
    BY <1>0, <1>1, <1>2, <2>1 DEF Owns
  <2>2. CASE owner'[k] = k
    BY <2>2 DEF Owns
  <2> QED BY <1>0, <2>1, <2>2 DEF QuietStep
<1>4. \A c \in Channel : row[c].id \in OrNone(Link)
  BY DEF ResendInv, SubInv, SubTypeOK, Row
<1>5. \A c \in Channel : (Owns(row[c].id))'
  BY <1>0, <1>1, <1>4 DEF QuietStep, NamesOK, Owns
<1>6. \A p \in Request : req[p].id \in OrNone(Link)
  BY DEF ResendInv, SubInv, SubTypeOK, RequestState
<1>7. \A p \in Request : (Owns(req[p].id))'
  BY <1>0, <1>1, <1>4, <1>6 DEF QuietStep, NamesOK, Owns
<1>8. \A p \in Request : req'[p].pc \in {"count", "renew", "audit"}
                         => req'[p].id # NoLink
  BY <1>0 DEF QuietStep, NamesOK
<1> QED BY <1>3, <1>5, <1>7, <1>8 DEF NamesOK

\* A link that was not stored yet names no row.
LEMMA FreshHasNone ==
  ASSUME ResendInv, NEW l \in Link, owner[l] = NoLink
  PROVE  LinksOf(l) = {}
BY DEF ResendInv, NamesOK, Owns, LinksOf

LEMMA QuietKeepsCounts ==
  ASSUME ResendInv, SubTypeOK', QuietStep, NEW l \in Link
  PROVE  TokensOK(l)' /\ EntriesOK(l)'
<1>0. /\ SubTypeOK /\ TokensOK(l) /\ EntriesOK(l)
      /\ resends'[l] = resends[l] /\ resends[l] \in Nat
  BY DEF ResendInv, SubInv, SubTypeOK, QuietStep
<1>1. Resent(l)' = Resent(l)
  <2>1. ASSUME NEW k \in Link, owner[k] = NoLink,
               owner' = [owner EXCEPT ![k] = k]
        PROVE  Resent(l)' = Resent(l)
    BY <1>0, <2>1 DEF SubTypeOK, Resent, LinksOf
  <2> QED BY <2>1 DEF QuietStep, Resent, LinksOf
<1>2. Renewing(l)' \in SUBSET Renewing(l)
  BY DEF QuietStep, Renewing
<1>3. Cardinality(Renewing(l)') <= Cardinality(Renewing(l))
      /\ Cardinality(Renewing(l)') \in Nat
  BY <1>2, FiniteParts, FS_Subset, FS_CardinalityType
<1>4. EntriesOK(l)'
  BY <1>0, <1>3, FiniteParts DEF EntriesOK
<1>5. ASSUME l \notin unaudited'
      PROVE  Auditing(l)' = Auditing(l)
  BY <1>5 DEF QuietStep, Auditing, At
<1>6. TokensOK(l)'
  BY <1>0, <1>1, <1>5 DEF TokensOK, QuietStep
<1> QED BY <1>4, <1>6

\* One request goes on as r, which is not in the middle of a renewal.
LEMMA OneIsQuiet ==
  ASSUME ResendInv, NEW q \in Request, NEW r, req' = [req EXCEPT ![q] = r],
         \/ r.id \in {req[q].id, NoLink}
         \/ \E c \in Channel : r.id = row[c].id,
         r.pc = "count" => r.id # NoLink,
         r.pc \notin {"renew", "audit"},
         At(q, "audit") => req[q].id \in unaudited',
         owner' = owner,
         \A c \in Channel : row'[c].id \in {row[c].id, NoLink},
         resends' = resends, unaudited \subseteq unaudited'
  PROVE  QuietStep
<1>1. req \in [Request -> RequestState] /\ NamesOK
  BY DEF ResendInv, SubInv, SubTypeOK
<1>2. req'[q] = r /\ \A p \in Request \ {q} : req'[p] = req[p]
  BY <1>1
<1>3. ASSUME NEW p \in Request
      PROVE  /\ \/ req'[p].id \in {req[p].id, NoLink}
                \/ \E c \in Channel : req'[p].id = row[c].id
             /\ req'[p].pc = "count" => req'[p].id # NoLink
             /\ req'[p].pc \in {"renew", "audit"} => req'[p] = req[p]
             /\ At(p, "audit") => req'[p] = req[p] \/ req[p].id \in unaudited'
  BY <1>1, <1>2 DEF NamesOK
<1> QED BY <1>3 DEF QuietStep

LEMMA QuietArrivals ==
  ASSUME ResendInv, NEW q \in Request, Arrival(q)
  PROVE  QuietStep
<1>0. At(q, "idle")
  BY DEF Arrival, Subscribe, AdminSubscribe, BeginLoop, Resend, Delete,
         OpenDeliveryLink, ReadAudience, ForgetByLink, OpenLink, Begin, Stop
<1>1. ASSUME NEW r, req' = [req EXCEPT ![q] = r], r.pc \notin {"renew", "audit"},
             r.id = NoLink \/ \E c \in Channel : r.id = row[c].id,
             r.pc = "count" => r.id # NoLink,
             UNCHANGED <<row, owner, resends, unaudited>>
      PROVE  QuietStep
  BY <1>0, <1>1, OneIsQuiet DEF At
<1>2. ASSUME NEW op, NEW cs, BeginLoop(q, op, cs)
      PROVE  QuietStep
  BY <1>1, <1>2 DEF BeginLoop, Idle
<1>3. ASSUME NEW pc \in {"confirm", "decline", "optout", "remove", "filter",
                         "count"},
             NEW op, NEW c \in Channel, Begin(q, pc, op, c),
             pc = "count" => row[c].id # NoLink,
             UNCHANGED <<row, owner, resends, unaudited>>
      PROVE  QuietStep
  <2> DEFINE r == [pc |-> pc, op |-> op, ch |-> c, id |-> row[c].id,
                   todo |-> {}]
  <2>1. req' = [req EXCEPT ![q] = r] /\ r.pc = pc /\ r.id = row[c].id
    BY <1>3 DEF Begin
  <2> QED BY <1>1, <1>3, <2>1
<1>4. \A c \in Channel : row[c].status = "pending" => row[c].id # NoLink
  BY DEF ResendInv, SubInv, RowOK
<1>5. CASE Stop(q)
  <2>1. PICK pc \in {"restore", "declineAll"} :
          req' = [req EXCEPT ![q] = [Idle EXCEPT !.pc = pc, !.op = "stop"]]
    BY <1>5 DEF Stop
  <2> QED BY <1>1, <1>5, <2>1 DEF Stop, Idle
<1> QED BY <1>2, <1>3, <1>4, <1>5
           DEF Arrival, Subscribe, AdminSubscribe, Resend, Delete,
               OpenDeliveryLink, ReadAudience, ForgetByLink, OpenLink

\* The statements that change neither tokens nor audit entries, and those of
\* a renewal that go no further.
LEMMA QuietStatements ==
  ASSUME ResendInv, NEW q \in Request,
         Statement(q) \/ Fail(q), ~Audit(q), ~(Renew(q) /\ At(q, "audit")'),
         ~(CountResends(q) /\ At(q, "renew")')
  PROVE  QuietStep
<1>0. /\ SubTypeOK /\ NamesOK /\ req[q] \in RequestState
      /\ ~At(q, "audit") \/ Fail(q)
  BY DEF ResendInv, SubInv, SubTypeOK, Statement, Look, Create, Remove,
         CountResends, Renew, Confirm, Decline, Unsubscribe, Restore,
         DeclineAll, DropSuppressed, Deliver, At
<1>1. ASSUME NEW r, req' = [req EXCEPT ![q] = r], ~At(q, "audit"),
             r.pc \notin {"renew", "audit"},
             \/ r.id \in {req[q].id, NoLink}
             \/ \E c \in Channel : r.id = row[c].id,
             r.pc = "count" => r.id # NoLink,
             \A c \in Channel : row'[c].id \in {row[c].id, NoLink},
             UNCHANGED <<owner, resends, unaudited>>
      PROVE  QuietStep
  BY <1>1, OneIsQuiet
<1>2. ASSUME NEW rest, NextChannel(q, rest) \/ End(q)
      PROVE  \E r : /\ req' = [req EXCEPT ![q] = r]
                    /\ r.pc \in {"idle", "look"} /\ r.id = NoLink
  <2> DEFINE look == [Idle EXCEPT !.pc = "look", !.op = req[q].op,
                                  !.todo = rest]
  <2>1. Idle.pc = "idle" /\ Idle.id = NoLink
    BY DEF Idle
  <2>2. look.pc = "look" /\ look.id = NoLink
    BY DEF Idle
  <2>3. req' = [req EXCEPT ![q] = Idle] \/ req' = [req EXCEPT ![q] = look]
    BY <1>2 DEF NextChannel, End
  <2> QED BY <2>1, <2>2, <2>3
<1>3. ASSUME NEW pc \in {"create", "declineAll", "deliver", "error"}, Go(q, pc)
      PROVE  \E r : /\ req' = [req EXCEPT ![q] = r]
                    /\ r.pc = pc /\ r.id = req[q].id
  <2> DEFINE r == [req[q] EXCEPT !.pc = pc]
  <2>1. r.pc = pc /\ r.id = req[q].id
    BY <1>0 DEF RequestState
  <2>2. req' = [req EXCEPT ![q] = r]
    BY <1>3 DEF Go
  <2> QED BY <2>1, <2>2
<1>4. ASSUME NEW c \in Channel, Look(q, c)
      PROVE  QuietStep
  <2>1. ASSUME NEW pc \in {"create", "remove", "count"}, Proceed(q, c, pc),
               row[c].status = "pending" \/ pc # "count"
        PROVE  QuietStep
    <3> DEFINE r == [req[q] EXCEPT !.pc = pc, !.ch = c, !.id = row[c].id,
                                   !.todo = req[q].todo \ {c}]
    <3>1. req' = [req EXCEPT ![q] = r] /\ r.pc = pc /\ r.id = row[c].id
      BY <1>0, <2>1 DEF Proceed, RequestState
    <3>2. row[c].status = "pending" => row[c].id # NoLink
      BY DEF ResendInv, SubInv, RowOK
    <3> QED BY <1>1, <1>4, <2>1, <3>1, <3>2 DEF Look, At
  <2>2. CASE NextChannel(q, req[q].todo \ {c}) \/ End(q)
    BY <1>1, <1>2, <1>4, <2>2 DEF Look, At
  <2> QED BY <1>4, <2>1, <2>2 DEF Look
<1>5. CASE Create(q)
  <2>1. CASE Go(q, "error") /\ UNCHANGED <<row, owner>>
    BY <1>1, <1>3, <1>5, <2>1 DEF Create, At
  <2>2. ASSUME NEW l \in Link, owner[l] = NoLink,
               owner' = [owner EXCEPT ![l] = l],
               row' = [row EXCEPT ![req[q].ch] = NewRow(l)],
               NextChannel(q, req[q].todo)
        PROVE  QuietStep
    <3>1. PICK r : /\ req' = [req EXCEPT ![q] = r]
                   /\ r.pc \in {"idle", "look"} /\ r.id = NoLink
      BY <1>2, <2>2
    <3>2. \A p \in Request \ {q} : req'[p] = req[p]
      BY <1>0, <3>1 DEF SubTypeOK
    <3>3. req'[q] = r /\ ~At(q, "audit")
      BY <1>0, <1>5, <3>1 DEF SubTypeOK, Create, At
    <3>4. \A c \in Channel : row'[c] = row[c] \/ row'[c].id = l
      BY <1>0, <2>2 DEF SubTypeOK, NewRow, NoRow
    <3>5. owner'[l] = l
      BY <1>0, <2>2 DEF SubTypeOK
    <3>6. \A p \in Request \ {q} : req[p].pc = "count" => req[p].id # NoLink
      BY <1>0 DEF NamesOK
    <3> QED BY <1>5, <2>2, <3>1, <3>2, <3>3, <3>4, <3>5, <3>6
               DEF QuietStep, Create
  <2> QED BY <1>5, <2>1, <2>2 DEF Create
<1>6. CASE Remove(q)
  <2>1. CASE Go(q, "error") /\ UNCHANGED row
    BY <1>1, <1>3, <1>6, <2>1 DEF Remove, At
  <2>2. ASSUME row' = [row EXCEPT ![req[q].ch] = NoRow],
               NEW r \in {Idle, [req[q] EXCEPT !.pc = "create", !.id = NoLink]},
               req' = [req EXCEPT ![q] = r]
        PROVE  QuietStep
    <3>1. r.id = NoLink /\ r.pc \in {"idle", "create"}
      <4>1. CASE r = Idle
        BY <4>1 DEF Idle
      <4>2. CASE r = [req[q] EXCEPT !.pc = "create", !.id = NoLink]
        BY <1>0, <4>2 DEF RequestState
      <4> QED BY <2>2, <4>1, <4>2
    <3>2. \A c \in Channel : row'[c].id \in {row[c].id, NoLink}
      BY <1>0, <2>2 DEF SubTypeOK, NoRow
    <3> QED BY <1>1, <1>6, <2>2, <3>1, <3>2 DEF Remove, At
  <2> QED BY <1>6, <2>1, <2>2 DEF Remove, End
<1>7. CASE CountResends(q) \/ Restore(q) \/ DropSuppressed(q)
  <2>1. ~Go(q, "renew")
    <3>1. Go(q, "renew") => req'[q].pc = "renew"
      BY <1>0 DEF Go, SubTypeOK, RequestState
    <3>2. Restore(q) \/ DropSuppressed(q) => ~Go(q, "renew")
      <4>1. \A pc \in {"declineAll", "deliver"} : Go(q, pc) => req'[q].pc = pc
        BY <1>0 DEF Go, SubTypeOK, RequestState
      <4>2. End(q) => req'[q].pc = "idle"
        BY <1>0 DEF End, SubTypeOK, Idle
      <4> QED BY <3>1, <4>1, <4>2 DEF Restore, DropSuppressed
    <3> QED BY <1>7, <3>1, <3>2 DEF At
  <2>2. \/ \E rest : NextChannel(q, rest) \/ End(q)
        \/ \E pc \in {"declineAll", "deliver"} : Go(q, pc)
    BY <1>7, <2>1 DEF CountResends, Restore, DropSuppressed
  <2>3. PICK r : /\ req' = [req EXCEPT ![q] = r]
                 /\ r.pc \in {"idle", "look", "declineAll", "deliver"}
                 /\ r.id \in {req[q].id, NoLink}
    BY <1>2, <1>3, <2>2
  <2>4. ~At(q, "audit") /\ UNCHANGED <<row, owner, resends, unaudited>>
    BY <1>7 DEF CountResends, Restore, DropSuppressed, At
  <2> QED BY <1>1, <2>3, <2>4
<1>8. CASE Renew(q)
  <2>1. Go(q, "audit") => At(q, "audit")'
    BY <1>0 DEF Go, SubTypeOK, RequestState, At
  <2> QED BY <1>1, <1>3, <1>8, <2>1 DEF Renew, At
<1>9. CASE Confirm(q) \/ Deliver(q)
  <2>1. \A c \in Channel : row'[c].id = row[c].id
    <3>1. \A d \in Row :
            /\ [d EXCEPT !.status = "confirmed", !.confirmedAt = TRUE,
                         !.hash = NoLink, !.expired = FALSE].id = d.id
            /\ [d EXCEPT !.deliveries = TRUE].id = d.id
      BY DEF Row
    <3>2. row \in [Channel -> Row]
      BY <1>0 DEF SubTypeOK
    <3>3. CASE Confirm(q)
      BY <3>1, <3>2, <3>3 DEF Confirm
    <3>4. CASE Deliver(q)
      BY <3>1, <3>2, <3>4 DEF Deliver
    <3> QED BY <1>9, <3>3, <3>4
  <2> QED BY <1>1, <1>2, <1>3, <1>9, <2>1 DEF Confirm, Deliver, At
<1>10. CASE Decline(q) \/ Unsubscribe(q) \/ DeclineAll(q)
  <2>1. ASSUME NEW cs, NEW hash, OptOut(cs, hash), NEW c \in Channel
        PROVE  row'[c].id = row[c].id
    <3>1. row[c] \in Row
      BY <1>0 DEF SubTypeOK
    <3>2. CASE c \in cs
      BY <2>1, <3>1, <3>2 DEF OptOut, Row
    <3>3. CASE c \notin cs
      BY <2>1, <3>3 DEF OptOut
    <3> QED BY <3>2, <3>3
  <2>2. \A c \in Channel : row'[c].id = row[c].id
    BY <1>10, <2>1 DEF Decline, Unsubscribe, DeclineAll
  <2> QED BY <1>1, <1>2, <1>3, <1>10, <2>2
             DEF Decline, Unsubscribe, DeclineAll, At
<1>11. CASE Fail(q)
  <2>1. At(q, "audit") => req[q].id \in unaudited'
    BY <1>0, <1>11 DEF Fail, NamesOK, RequestState, OrNone, At
  <2> QED BY <1>11, <2>1, OneIsQuiet DEF Fail, End, Idle
<1> QED BY <1>4, <1>5, <1>6, <1>7, <1>8, <1>9, <1>10, <1>11 DEF Statement

LEMMA QuietRest ==
  ASSUME ResendInv,
         (\E c \in Channel : Expire(c)) \/ Start \/ UNCHANGED vars
  PROVE  QuietStep
<1>1. \A c \in Channel : row'[c].id = row[c].id
  BY DEF ResendInv, SubInv, SubTypeOK, Expire, Row, Start, vars
<1> QED BY <1>1 DEF QuietStep, ResendInv, NamesOK, Expire, Start, vars

\* What ResendInv says of a request in the middle of a renewal.
LEMMA InRenewal ==
  ASSUME ResendInv, NEW q \in Request, req[q].pc \in {"count", "renew", "audit"}
  PROVE  /\ req[q].id \in Link /\ owner[req[q].id] = req[q].id
         /\ req[q].ch \in Channel /\ resends[req[q].id] \in Nat
BY DEF ResendInv, SubInv, SubTypeOK, NamesOK, Owns, RequestOK, OnRow,
       RequestState, OrNone

\* A request passes the comparison: there were fewer entries than the limit,
\* and at most as many requests are past the comparison as there are.
LEMMA Passes ==
  ASSUME ResendInv, NEW q \in Request, CountResends(q), At(q, "renew")'
  PROVE  NamesOK' /\ \A l \in Link : TokensOK(l)' /\ EntriesOK(l)'
<1>0. /\ req \in [Request -> RequestState] /\ resends \in [Link -> Nat]
      /\ NamesOK /\ req[q].id \in Link
      /\ UNCHANGED <<row, owner, resends, unaudited>>
  BY InRenewal DEF ResendInv, SubInv, SubTypeOK, CountResends, At
<1>1. Go(q, "renew") /\ resends[req[q].id] < ResendLimit
  <2>1. NextChannel(q, req[q].todo) => req'[q].pc \in {"idle", "look"}
    BY <1>0 DEF NextChannel, Idle
  <2> QED BY <2>1 DEF CountResends, At
<1>2. /\ \A p \in Request \ {q} : req'[p] = req[p]
      /\ req'[q].pc = "renew" /\ req'[q].id = req[q].id /\ req[q].pc = "count"
  BY <1>0, <1>1 DEF Go, RequestState, CountResends, At
<1>3. NamesOK'
  BY <1>0, <1>2 DEF NamesOK, Owns
<1>4. ASSUME NEW l \in Link
      PROVE  TokensOK(l)' /\ EntriesOK(l)'
  <2>1. TokensOK(l) /\ EntriesOK(l) /\ resends[l] \in Nat
    BY <1>0 DEF ResendInv
  <2>2. Auditing(l)' = Auditing(l) /\ Resent(l)' = Resent(l)
    BY <1>0, <1>2 DEF Auditing, At, Resent, LinksOf
  <2>3. CASE l = req[q].id
    <3>1. Renewing(l)' \in SUBSET Request
      BY DEF Renewing
    <3>2. /\ Cardinality(Renewing(l)') <= Cardinality(Request)
          /\ Cardinality(Renewing(l)') \in Nat
      BY <3>1, FS_Subset, FS_CardinalityType
    <3> QED BY <1>0, <1>1, <2>1, <2>2, <2>3, <3>2, FiniteParts
               DEF TokensOK, EntriesOK
  <2>4. CASE l # req[q].id
    <3>1. Renewing(l)' = Renewing(l)
      BY <1>2, <2>4 DEF Renewing
    <3> QED BY <1>0, <2>1, <2>2, <3>1 DEF TokensOK, EntriesOK
  <2> QED BY <2>3, <2>4
<1> QED BY <1>3, <1>4

\* A request stores a second token and has still to record it.
LEMMA StoresToken ==
  ASSUME ResendInv, NEW q \in Request, Renew(q), At(q, "audit")'
  PROVE  NamesOK' /\ \A l \in Link : TokensOK(l)' /\ EntriesOK(l)'
<1> DEFINE i == req[q].id
<1>0. /\ req \in [Request -> RequestState] /\ resends \in [Link -> Nat]
      /\ row \in [Channel -> Row] /\ owner \in [Link -> OrNone(Link)]
      /\ NamesOK /\ i \in Link /\ owner[i] = i /\ i # NoLink
      /\ UNCHANGED <<resends, unaudited>>
  BY InRenewal DEF ResendInv, SubInv, SubTypeOK, Renew, At
<1>1. Go(q, "error") => req'[q].pc = "error"
  BY <1>0 DEF Go, RequestState
<1>2. PICK k \in Link : /\ Go(q, "audit") /\ owner[k] = NoLink
                        /\ owner' = [owner EXCEPT ![k] = i]
                        /\ row' = [row EXCEPT ![req[q].ch] =
                             [row[req[q].ch] EXCEPT !.hash = k,
                                                    !.expired = FALSE]]
  BY <1>1 DEF Renew, At
<1>3. /\ \A p \in Request \ {q} : req'[p] = req[p]
      /\ req'[q].pc = "audit" /\ req'[q].id = i /\ req[q].pc = "renew"
  <2>1. req[q].pc = "renew" /\ req' = [req EXCEPT ![q].pc = "audit"]
    BY <1>2 DEF Renew, At, Go
  <2> QED BY <1>0, <2>1 DEF RequestState
<1>4. k # i /\ owner'[k] = i /\ \A l \in Link \ {k} : owner'[l] = owner[l]
  BY <1>0, <1>2
<1>5. NamesOK'
  <2>1. \A c \in Channel : row'[c].id = row[c].id
    <3>1. \A d \in Row :
            [d EXCEPT !.hash = k, !.expired = FALSE].id = d.id
      BY DEF Row
    <3> QED BY <1>0, <1>2, <3>1
  <2>2. ASSUME NEW l \in OrNone(Link), Owns(l)
        PROVE  Owns(l)'
    BY <1>2, <1>4, <2>2 DEF Owns, OrNone
  <2>3. /\ \A l \in Link : owner[l] \in OrNone(Link) /\ Owns(owner[l])
        /\ \A c \in Channel : row[c].id \in OrNone(Link) /\ Owns(row[c].id)
        /\ \A p \in Request : req[p].id \in OrNone(Link) /\ Owns(req[p].id)
    BY <1>0 DEF NamesOK, Row, RequestState
  <2>4. ASSUME NEW l \in Link
        PROVE  Owns(owner[l])'
    <3>1. owner'[l] \in {owner[l], i} /\ Owns(owner[l])'
      BY <1>4, <2>2, <2>3 DEF Owns
    <3> QED BY <1>0, <1>4, <2>2, <2>3, <3>1 DEF Owns
  <2>5. \A c \in Channel : Owns(row[c].id)'
    BY <2>1, <2>2, <2>3 DEF Owns
  <2>6. \A p \in Request : Owns(req[p].id)'
    BY <1>3, <2>2, <2>3 DEF Owns
  <2>7. \A p \in Request : req'[p].pc \in {"count", "renew", "audit"}
                           => req'[p].id # NoLink
    BY <1>0, <1>3 DEF NamesOK
  <2> QED BY <2>4, <2>5, <2>6, <2>7 DEF NamesOK
<1>6. ASSUME NEW l \in Link
      PROVE  TokensOK(l)' /\ EntriesOK(l)'
  <2>1. TokensOK(l) /\ EntriesOK(l) /\ resends[l] \in Nat
    BY <1>0 DEF ResendInv
  <2>2. Renewing(l)' = Renewing(l)
    BY <1>3 DEF Renewing
  <2>3. CASE l = i
    <3>1. Resent(l)' = Resent(l) \cup {k} /\ k \notin Resent(l)
      BY <1>0, <1>2, <1>4, <2>3 DEF Resent, LinksOf
    <3>2. Auditing(l)' = Auditing(l) \cup {q} /\ q \notin Auditing(l)
      BY <1>3, <2>3 DEF Auditing, At
    <3>3. /\ Cardinality(Resent(l)') = Cardinality(Resent(l)) + 1
          /\ Cardinality(Auditing(l)') = Cardinality(Auditing(l)) + 1
      BY <3>1, <3>2, FiniteParts, FS_AddElement
    <3> QED BY <1>0, <2>1, <2>2, <3>3, FiniteParts DEF TokensOK, EntriesOK
  <2>4. CASE l # i
    <3>1. Resent(l)' = Resent(l)
      BY <1>0, <1>2, <1>4, <2>4 DEF Resent, LinksOf
    <3>2. Auditing(l)' = Auditing(l)
      BY <1>3, <2>4 DEF Auditing, At
    <3> QED BY <1>0, <2>1, <2>2, <3>1, <3>2 DEF TokensOK, EntriesOK
  <2> QED BY <2>3, <2>4
<1> QED BY <1>5, <1>6

\* A request records the token it stored.
LEMMA RecordsToken ==
  ASSUME ResendInv, NEW q \in Request, Audit(q)
  PROVE  NamesOK' /\ \A l \in Link : TokensOK(l)' /\ EntriesOK(l)'
<1> DEFINE i == req[q].id
<1>0. /\ req \in [Request -> RequestState] /\ resends \in [Link -> Nat]
      /\ NamesOK /\ i \in Link /\ req[q].pc = "audit"
      /\ UNCHANGED <<row, owner, unaudited>>
  BY InRenewal DEF ResendInv, SubInv, SubTypeOK, Audit, At
<1>1. /\ \A p \in Request \ {q} : req'[p] = req[p]
      /\ req'[q].pc \in {"idle", "look"} /\ req'[q].id = NoLink
  BY <1>0 DEF Audit, NextChannel, Idle
<1>2. NamesOK'
  BY <1>0, <1>1 DEF NamesOK, Owns
<1>3. resends'[i] = resends[i] + 1
      /\ \A l \in Link \ {i} : resends'[l] = resends[l]
  BY <1>0 DEF Audit
<1>4. ASSUME NEW l \in Link
      PROVE  TokensOK(l)' /\ EntriesOK(l)'
  <2>1. /\ TokensOK(l) /\ EntriesOK(l) /\ resends[l] \in Nat
        /\ Resent(l)' = Resent(l)
    BY <1>0 DEF ResendInv, Resent, LinksOf
  <2>2. CASE l = i
    <3>1. /\ Auditing(l)' = Auditing(l) \ {q} /\ q \in Auditing(l)
          /\ Renewing(l)' = Renewing(l) \ {q} /\ q \in Renewing(l)
      BY <1>0, <1>1, <2>2 DEF Auditing, Renewing, At
    <3>2. /\ Cardinality(Auditing(l)') = Cardinality(Auditing(l)) - 1
          /\ Cardinality(Renewing(l)') = Cardinality(Renewing(l)) - 1
      <4>1. IsFiniteSet(Auditing(l)) /\ IsFiniteSet(Renewing(l))
        BY FiniteParts
      <4>2. Cardinality(Auditing(l) \ {q}) = Cardinality(Auditing(l)) - 1
        BY <3>1, <4>1, FS_RemoveElement
      <4>3. Cardinality(Renewing(l) \ {q}) = Cardinality(Renewing(l)) - 1
        BY <3>1, <4>1, FS_RemoveElement
      <4> QED BY <3>1, <4>2, <4>3
    <3> QED BY <1>0, <1>3, <2>1, <2>2, <3>2, FiniteParts
               DEF TokensOK, EntriesOK
  <2>3. CASE l # i
    <3>1. Auditing(l)' = Auditing(l) /\ Renewing(l)' = Renewing(l)
      BY <1>0, <1>1, <2>3 DEF Auditing, Renewing, At
    <3> QED BY <1>0, <1>3, <2>1, <2>3, <3>1 DEF TokensOK, EntriesOK
  <2> QED BY <2>2, <2>3
<1> QED BY <1>2, <1>4

LEMMA InitIsResendInv == Init => ResendInv
<1> SUFFICES ASSUME Init PROVE ResendInv
  OBVIOUS
<1>1. NamesOK
  BY DEF Init, NamesOK, Owns, NoRow, Idle
<1>2. ASSUME NEW l \in Link
      PROVE  TokensOK(l) /\ EntriesOK(l)
  <2>1. Resent(l) = {} /\ Renewing(l) = {} /\ resends[l] = 0
    BY DEF Init, Resent, LinksOf, Renewing, Idle
  <2>2. Cardinality(Resent(l)) = 0 /\ Cardinality(Renewing(l)) = 0
    BY <2>1, FS_EmptySet
  <2> QED BY <2>1, <2>2, FiniteParts DEF TokensOK, EntriesOK
<1> QED BY <1>1, <1>2, InitIsInv DEF ResendInv

LEMMA StepKeepsResendInv == ResendInv /\ [Next]_vars => ResendInv'
<1> SUFFICES ASSUME ResendInv, [Next]_vars PROVE ResendInv'
  OBVIOUS
<1>1. SubInv' /\ SubTypeOK'
  BY StepKeepsInv DEF ResendInv, SubInv
<1>2. CASE QuietStep
  BY <1>1, <1>2, QuietKeepsNames, QuietKeepsCounts DEF ResendInv
<1>3. ASSUME NEW q \in Request, Statement(q) \/ Fail(q)
      PROVE  ResendInv'
  <2>1. CASE Audit(q)
    BY <1>1, <2>1, RecordsToken DEF ResendInv
  <2>2. CASE Renew(q) /\ At(q, "audit")'
    BY <1>1, <2>2, StoresToken DEF ResendInv
  <2>3. CASE CountResends(q) /\ At(q, "renew")'
    BY <1>1, <2>3, Passes DEF ResendInv
  <2> QED BY <1>2, <1>3, <2>1, <2>2, <2>3, QuietStatements
<1>4. ASSUME NEW q \in Request, Arrival(q)
      PROVE  ResendInv'
  BY <1>2, <1>4, QuietArrivals
<1>5. CASE (\E c \in Channel : Expire(c)) \/ Start \/ UNCHANGED vars
  BY <1>2, <1>5, QuietRest
<1> QED BY <1>3, <1>4, <1>5 DEF Next

\* A row whose requests all wrote their audit entries gets at most one token
\* for every request beyond the first in addition to the limit: the comparison
\* of checkResendRateLimit and the entry it counts are separate statements.
THEOREM ResendsStayBounded == Spec => []ResendsBounded
<1>1. ResendInv => ResendsBounded
  <2> SUFFICES ASSUME ResendInv, NEW l \in Link \ unaudited
               PROVE  Cardinality(Resent(l))
                        <= ResendLimit + Cardinality(Request) - 1
    BY DEF ResendsBounded, Resent
  <2>1. TokensOK(l) /\ EntriesOK(l) /\ resends[l] \in Nat
    BY DEF ResendInv, SubInv, SubTypeOK
  <2> QED BY <2>1, FiniteParts DEF TokensOK, EntriesOK
<1> QED BY <1>1, InitIsResendInv, StepKeepsResendInv, PTL DEF Spec
=============================================================================
