-------------------------- MODULE PublishingProofs --------------------------
(***************************************************************************)
(* What holds of a published announcement, for any number of requests,     *)
(* categories and roles.                                                   *)
(***************************************************************************)
EXTENDS Publishing, TLAPS

Statuses == {"none", "draft", "published", "archived"}
Editing == {"dropCats", "addCats", "dropRoles", "addRoles", "update",
            "abandoned", "abandonedRoles"}

\* The visibility and the roles an edit is about to leave.
NewVis(q) == IF "visibility" \in req[q].has THEN req[q].vis ELSE ann.vis
NewRoles(q) == IF "roleIds" \in req[q].has THEN req[q].roles ELSE roles

\* What a request read still holds if nobody wrote since.
ReadHolds(q) ==
  Running(q) /\ ~req[q].stale =>
    /\ req[q].seen = ann.status
    /\ req[q].pc \in Editing => ann.status \notin {"none", "archived"}
    /\ req[q].pc = "publish" =>
         cats # {} /\ (ann.vis = "private" => roles # {})

\* An edit that nobody disturbed ends with roles for a private announcement.
EditHolds(q) ==
  ~req[q].stale =>
    /\ req[q].pc \in {"dropCats", "addCats", "dropRoles"} =>
         (NewVis(q) = "private" => NewRoles(q) # {})
    /\ req[q].pc = "dropRoles" => "roleIds" \in req[q].has
    /\ req[q].pc = "addRoles" => roles \cup req[q].todo # {}
    /\ req[q].pc = "update" => (NewVis(q) = "private" => roles # {})

\* The statements of an edit that replace links know that they do, and only
\* what was published is unpublished.
Steps(q) ==
  /\ req[q].pc = "unpublish" => req[q].seen = "published"
  /\ req[q].pc = "dropCats" => req[q].cats # {}
  /\ req[q].pc \in {"dropRoles", "addRoles", "abandonedRoles"} =>
       "roleIds" \in req[q].has

NoneIsIdle == ann.status = "none" => \A q \in Request : ~Running(q)

\* Complete links, or an edit on its way there, unless history was torn.
CatsHold ==
  ann.status # "none" /\ torn = {} =>
    cats # {} \/ \E q \in Request : At(q, "addCats")
RolesHold ==
  ann.status # "none" /\ torn = {} =>
    \/ ann.vis = "private" => roles # {}
    \/ \E q \in Request :
         req[q].pc \in {"addRoles", "update"} /\ "roleIds" \in req[q].has

RequestHolds(q) == ReadHolds(q) /\ EditHolds(q) /\ Steps(q)

PubInv ==
  /\ PubTypeOK /\ NoneIsIdle /\ CatsHold /\ RolesHold
  /\ \A q \in Request : RequestHolds(q)

ReqType ==
  [pc : Pc, has : SUBSET Field, cats : SUBSET Category,
   roles : SUBSET Role, vis : {"public", "private"},
   seen : Statuses, n : Nat,
   todo : SUBSET (Category \cup Role), stale : BOOLEAN]
AnnType == [status : Statuses, vis : {"public", "private"},
            slug : Nat, text : Nat, edited : Nat]

\* The type invariant with its record sets named.
LEMMA Typed ==
  PubTypeOK <=> /\ ann \in AnnType
                /\ cats \subseteq Category /\ roles \subseteq Role
                /\ req \in [Request -> ReqType]
                /\ edits \in Nat /\ torn \subseteq {"cut", "overlap"}
  BY DEF PubTypeOK, AnnType, ReqType, Statuses

\* The slot of a request that is over.
LEMMA IdleTyped == Idle \in ReqType /\ Idle.pc = "idle" /\ Idle.stale = FALSE
  BY DEF Idle, ReqType, Pc, Statuses, Field

\* A fresh announcement is in the invariant.
LEMMA PubInitial == PubInit => PubInv
<1> SUFFICES ASSUME PubInit PROVE PubInv
  OBVIOUS
<1>1. \A q \in Request : req[q] = Idle
  BY DEF PubInit
<1>2. PubTypeOK
  BY Typed, IdleTyped DEF PubInit, AnnType, Statuses
<1>3. NoneIsIdle /\ CatsHold /\ RolesHold
  BY <1>1, IdleTyped DEF PubInit, NoneIsIdle, CatsHold, RolesHold, Running
<1>4. \A q \in Request : RequestHolds(q)
  BY <1>1, IdleTyped
     DEF RequestHolds, ReadHolds, EditHolds, Steps, Running
<1> QED
  BY <1>2, <1>3, <1>4 DEF PubInv
-----------------------------------------------------------------------------
\* The others are left as they are by a step that writes nothing.
LEMMA GoLeaves ==
  ASSUME PubInv, NEW q \in Request, NEW r \in ReqType, Go(q, r),
         UNCHANGED <<ann, links>>
  PROVE  /\ req' \in [Request -> ReqType] /\ req'[q] = r
         /\ \A p \in Request \ {q} : req'[p] = req[p] /\ RequestHolds(p)'
<1>1. req \in [Request -> ReqType]
  BY Typed DEF PubInv
<1>2. req' \in [Request -> ReqType] /\ req'[q] = r
      /\ \A p \in Request \ {q} : req'[p] = req[p]
  BY <1>1 DEF Go
<1>3. ASSUME NEW p \in Request \ {q} PROVE RequestHolds(p)'
  <2>1. RequestHolds(p) /\ req'[p] = req[p]
    BY <1>2 DEF PubInv
  <2>2. ann' = ann /\ cats' = cats /\ roles' = roles
    BY DEF links
  <2>3. ReadHolds(p)'
    BY <2>1, <2>2 DEF RequestHolds, ReadHolds, Running
  <2>4. EditHolds(p)'
    BY <2>1, <2>2 DEF RequestHolds, EditHolds, NewVis, NewRoles
  <2>5. Steps(p)'
    BY <2>1 DEF RequestHolds, Steps
  <2> QED
    BY <2>3, <2>4, <2>5 DEF RequestHolds
<1> QED
  BY <1>2, <1>3

\* The others know after a write that what they read is old.
LEMMA WriteLeaves ==
  ASSUME PubInv, NEW q \in Request, NEW r \in ReqType, GoWritten(q, r)
  PROVE  /\ req' \in [Request -> ReqType] /\ req'[q] = r
         /\ \A p \in Request \ {q} :
              /\ req'[p].pc = req[p].pc /\ req'[p].has = req[p].has
              /\ RequestHolds(p)'
<1>1. req \in [Request -> ReqType]
  BY Typed DEF PubInv
<1>2. \A p \in Request \ {q} :
        req'[p] = IF Running(p) THEN [req[p] EXCEPT !.stale = TRUE] ELSE req[p]
  BY DEF GoWritten
<1>3. req'[q] = r
  BY DEF GoWritten
<1>4. ASSUME NEW p \in Request \ {q} PROVE req'[p] \in ReqType
  <2>1. req[p] \in ReqType /\ [req[p] EXCEPT !.stale = TRUE] \in ReqType
    BY <1>1 DEF ReqType
  <2> QED
    BY <1>2, <2>1
<1>5. req' \in [Request -> ReqType]
  BY <1>3, <1>4 DEF GoWritten
<1>6. ASSUME NEW p \in Request \ {q}
      PROVE  /\ req'[p].pc = req[p].pc /\ req'[p].has = req[p].has
             /\ req'[p].cats = req[p].cats /\ req'[p].seen = req[p].seen
             /\ req'[p].pc # "idle" => req'[p].stale
    BY <1>1, <1>2 DEF ReqType, Running
<1>7. ASSUME NEW p \in Request \ {q} PROVE RequestHolds(p)'
  <2>1. Steps(p)
    BY DEF PubInv, RequestHolds
  <2>2. Steps(p)'
    BY <1>6, <2>1 DEF Steps
  <2>3. ReadHolds(p)' /\ EditHolds(p)'
    BY <1>6 DEF ReadHolds, EditHolds, Running
  <2> QED
    BY <2>2, <2>3 DEF RequestHolds
<1> QED
  BY <1>3, <1>5, <1>6, <1>7

\* An announcement that somebody works on exists.
LEMMA RunningExists ==
  ASSUME PubInv, NEW q \in Request, Running(q)
  PROVE  ann.status # "none"
  BY DEF PubInv, NoneIsIdle

\* An idle slot satisfies what is asked of requests.
LEMMA IdleHolds ==
  ASSUME NEW q \in Request, req'[q] = Idle
  PROVE  RequestHolds(q)'
  BY IdleTyped DEF RequestHolds, ReadHolds, EditHolds, Steps, Running
-----------------------------------------------------------------------------
\* A new announcement: nobody can be working on it yet.
LEMMA CreateKeeps ==
  ASSUME PubInv, NEW q \in Request, NEW cs \in SUBSET Category,
         NEW rs \in SUBSET Role, Create(q, cs, rs)
  PROVE  PubInv'
<1>1. \A p \in Request : ~Running(p) /\ req' = req
  BY DEF PubInv, NoneIsIdle, Create
<1>2. PubTypeOK'
  <2>1. ann' \in AnnType
    BY Typed DEF PubInv, Create, AnnType, Statuses
  <2> QED
    BY <2>1, Typed DEF PubInv, Create, PubTypeOK, AnnType, Statuses
<1>3. NoneIsIdle'
  BY <1>1 DEF NoneIsIdle, Running, Create
<1>4. ann'.vis = "private" => rs # {}
  BY Typed DEF PubInv, Create, AnnType
<1>5. CatsHold' /\ RolesHold'
  BY <1>4 DEF CatsHold, RolesHold, Create
<1>6. \A p \in Request : RequestHolds(p)'
  BY <1>1 DEF RequestHolds, ReadHolds, EditHolds, Steps, Running
<1> QED
  BY <1>2, <1>3, <1>5, <1>6 DEF PubInv

\* A request that has read the row and goes on.
LEMMA ReadKeeps ==
  ASSUME PubInv, NEW q \in Request, NEW r \in ReqType, Go(q, r),
         UNCHANGED <<ann, links>>, edits' \in Nat,
         torn' \subseteq {"cut", "overlap"}, torn \subseteq torn',
         ann.status # "none", RequestHolds(q)',
         \/ req[q].pc \in {"addCats", "addRoles"}
         \/ req[q].pc = "update" /\ "roleIds" \in req[q].has
         => torn' # {}
  PROVE  PubInv'
<1>1. /\ req' \in [Request -> ReqType] /\ req'[q] = r
      /\ \A p \in Request \ {q} : req'[p] = req[p] /\ RequestHolds(p)'
  BY GoLeaves
<1>2. ann' = ann /\ cats' = cats /\ roles' = roles
  BY DEF links
<1>3. PubTypeOK'
  BY <1>1, <1>2, Typed DEF PubInv, PubTypeOK, ReqType, Statuses
<1>4. NoneIsIdle'
  BY <1>2 DEF NoneIsIdle
<1>5. CatsHold'
  <2>1. CatsHold
    BY DEF PubInv
  <2> QED
    BY <1>1, <1>2, <2>1 DEF CatsHold, At
<1>6. RolesHold'
  <2>1. RolesHold
    BY DEF PubInv
  <2> QED
    BY <1>1, <1>2, <2>1 DEF RolesHold
<1>7. \A p \in Request : RequestHolds(p)'
  BY <1>1
<1> QED
  BY <1>3, <1>4, <1>5, <1>6, <1>7 DEF PubInv

\* A request that has written: what it did to the links and the history.
LEMMA WriteKeeps ==
  ASSUME PubInv, NEW q \in Request, Running(q), NEW r \in ReqType,
         GoWritten(q, r), RequestHolds(q)',
         ann' \in AnnType, ann'.status # "none",
         cats' \subseteq Category, roles' \subseteq Role,
         edits' \in Nat, torn' \subseteq {"cut", "overlap"},
         CatsHold', RolesHold'
  PROVE  PubInv'
<1>1. /\ req' \in [Request -> ReqType]
      /\ \A p \in Request \ {q} : RequestHolds(p)'
  BY WriteLeaves
<1>2. PubTypeOK'
  BY <1>1 DEF PubTypeOK, ReqType, AnnType, Statuses
<1>3. NoneIsIdle'
  BY DEF NoneIsIdle
<1> QED
  BY <1>1, <1>2, <1>3 DEF PubInv
-----------------------------------------------------------------------------
(* The handlers that read the row.                                         *)

LEMMA EditKeeps ==
  ASSUME PubInv, NEW q \in Request, NEW has \in SUBSET Field,
         NEW cs \in SUBSET Category, NEW rs \in SUBSET Role,
         NEW vis \in {"public", "private"}, Edit(q, has, cs, rs, vis)
  PROVE  PubInv'
<1> DEFINE b == [Idle EXCEPT !.has = has, !.cats = cs, !.roles = rs,
                   !.vis = vis, !.seen = ann.status, !.n = edits + 1]
           r == [b EXCEPT !.pc = Start(b)]
<1>t. ann \in AnnType /\ edits \in Nat /\ roles \subseteq Role
  BY Typed DEF PubInv
<1>1. /\ b \in ReqType /\ b.has = has /\ b.cats = cs /\ b.roles = rs
      /\ b.vis = vis /\ b.seen = ann.status /\ b.stale = FALSE
  <2>2. ann.status \in Statuses /\ edits + 1 \in Nat
    BY <1>t DEF AnnType
  <2> QED
    BY <2>2, IdleTyped DEF ReqType
<1>2. Start(b) = IF "categoryIds" \in has THEN "dropCats"
                 ELSE IF "roleIds" \in has THEN "dropRoles" ELSE "update"
  BY <1>1 DEF Start, AfterCats
<1>3. Start(b) \in {"dropCats", "dropRoles", "update"}
  BY <1>2
<1>4. /\ r \in ReqType /\ r.pc = Start(b) /\ r.has = has /\ r.cats = cs
      /\ r.roles = rs /\ r.vis = vis /\ r.seen = ann.status
      /\ r.stale = FALSE
  <2> HIDE DEF b
  <2>1. Start(b) \in Pc
    BY <1>3 DEF Pc
  <2> QED
    BY <1>1, <2>1 DEF ReqType
<1>5. Go(q, r) /\ UNCHANGED <<ann, links, torn>> /\ edits' \in Nat
  BY <1>t DEF Edit
<1> HIDE DEF r, b
<1>6. req'[q] = r /\ ann' = ann /\ cats' = cats /\ roles' = roles
  BY <1>4, <1>5, GoLeaves DEF links
<1>7. ann.status \notin {"none", "archived"} /\ ~Running(q)
  BY DEF Edit
<1>8. /\ "categoryIds" \in has => cs # {}
      /\ (IF "visibility" \in has THEN vis ELSE ann.vis) = "private" =>
           (IF "roleIds" \in has THEN rs ELSE roles) # {}
  BY DEF Edit
<1>9. ReadHolds(q)'
  BY <1>3, <1>4, <1>6, <1>7 DEF ReadHolds, Editing
<1>10. EditHolds(q)'
  BY <1>2, <1>4, <1>6, <1>8 DEF EditHolds, NewVis, NewRoles
<1>11. Steps(q)'
  BY <1>2, <1>4, <1>6, <1>8 DEF Steps
<1>12. RequestHolds(q)'
  BY <1>9, <1>10, <1>11 DEF RequestHolds
<1>13. torn' \subseteq {"cut", "overlap"} /\ torn \subseteq torn'
  BY <1>5, Typed DEF PubInv
<1> QED
  BY <1>4, <1>5, <1>7, <1>12, <1>13, ReadKeeps DEF Running

\* Publishing, unpublishing and archiving start alike; publishing asks for
\* complete links.
LEMMA BeginKeeps ==
  ASSUME PubInv, NEW q \in Request,
         NEW pc \in {"publish", "unpublish", "archive"}, Read(q, pc),
         ann.status # "none",
         pc = "publish" => cats # {} /\ (ann.vis = "private" => roles # {}),
         pc = "unpublish" => ann.status = "published"
  PROVE  PubInv'
<1> DEFINE r == [Idle EXCEPT !.pc = pc, !.seen = ann.status]
<1>1. r \in ReqType /\ r.pc = pc /\ r.seen = ann.status
  BY Typed, IdleTyped DEF PubInv, ReqType, AnnType, Pc, Idle
<1>2. Go(q, r) /\ UNCHANGED <<ann, links, edits, torn>> /\ req[q].pc = "idle"
  BY DEF Read, Running
<1> HIDE DEF r
<1>3. req'[q] = r /\ ann' = ann /\ cats' = cats /\ roles' = roles
  BY <1>1, <1>2, GoLeaves DEF links
<1>4. RequestHolds(q)'
  BY <1>1, <1>3 DEF RequestHolds, ReadHolds, EditHolds, Steps, Editing
<1>5. edits' \in Nat /\ torn' \subseteq {"cut", "overlap"}
      /\ torn \subseteq torn'
  BY <1>2, Typed DEF PubInv
<1> QED
  BY <1>1, <1>2, <1>4, <1>5, ReadKeeps

\* A request that ends early is remembered in torn if its edit had begun to
\* write.
LEMMA FailKeeps ==
  ASSUME PubInv, NEW q \in Request, Fail(q)
  PROVE  PubInv'
<1>1. Go(q, Idle) /\ UNCHANGED <<ann, links, edits>> /\ ann.status # "none"
  BY RunningExists DEF Fail
<1>2. RequestHolds(q)'
  BY <1>1, IdleHolds, IdleTyped, GoLeaves
<1>3. /\ edits' \in Nat /\ torn' \subseteq {"cut", "overlap"}
      /\ torn \subseteq torn'
  BY Typed DEF PubInv, Fail
<1>4. \/ req[q].pc \in {"addCats", "addRoles"}
      \/ req[q].pc = "update" /\ "roleIds" \in req[q].has
      => torn' # {}
  BY DEF Fail, Start, AfterCats
<1> QED
  BY <1>1, <1>2, <1>3, <1>4, ReadKeeps, IdleTyped
-----------------------------------------------------------------------------
(* The statements that replace links.                                      *)

LEMMA DropCatsKeeps ==
  ASSUME PubInv, NEW q \in Request, DropCats(q)
  PROVE  PubInv'
<1> DEFINE r == [req[q] EXCEPT !.pc = "addCats", !.todo = req[q].cats]
<1>t. req[q] \in ReqType /\ ann \in AnnType /\ req[q].pc = "dropCats"
  BY Typed DEF PubInv, DropCats, At
<1>1. /\ r \in ReqType /\ r.pc = "addCats" /\ r.has = req[q].has
      /\ r.roles = req[q].roles /\ r.vis = req[q].vis
      /\ r.seen = req[q].seen /\ r.stale = req[q].stale
  BY <1>t DEF ReqType, Pc
<1>2. GoWritten(q, r) /\ cats' = {} /\ UNCHANGED <<ann, roles, edits, torn>>
  BY DEF DropCats
<1> HIDE DEF r
<1>3. req'[q] = r
  BY <1>1, <1>2, WriteLeaves
<1>4. Running(q) /\ ann.status # "none"
  BY <1>t, RunningExists DEF Running
<1>5. RequestHolds(q)
  BY DEF PubInv
<1>6. RequestHolds(q)'
  <2>1. ReadHolds(q)'
    BY <1>t, <1>1, <1>2, <1>3, <1>5
       DEF RequestHolds, ReadHolds, Running, Editing
  <2>2. EditHolds(q)'
    BY <1>t, <1>1, <1>2, <1>3, <1>5
       DEF RequestHolds, EditHolds, NewVis, NewRoles
  <2>3. Steps(q)'
    BY <1>1, <1>3 DEF Steps
  <2> QED
    BY <2>1, <2>2, <2>3 DEF RequestHolds
<1>7. CatsHold'
  BY <1>1, <1>3 DEF CatsHold, At
<1>8. RolesHold'
  <2>1. RolesHold /\ \A p \in Request \ {q} :
          req'[p].pc = req[p].pc /\ req'[p].has = req[p].has
    BY <1>1, <1>2, WriteLeaves DEF PubInv
  <2> QED
    BY <1>t, <1>2, <2>1 DEF RolesHold
<1> QED
  BY <1>t, <1>1, <1>2, <1>4, <1>6, <1>7, <1>8, WriteKeeps, Typed DEF PubInv

LEMMA AddCatKeeps ==
  ASSUME PubInv, NEW q \in Request, NEW c \in Category, AddCat(q, c)
  PROVE  PubInv'
<1> DEFINE refused == c \in cats \/ At(q, "abandoned")
           left == req[q].todo \ {c}
           next == IF left = {} THEN AfterCats(req[q]) ELSE "addCats"
           pc == IF refused THEN "abandoned" ELSE next
           r == [req[q] EXCEPT !.todo = left, !.pc = pc]
<1>t. /\ req[q] \in ReqType /\ ann \in AnnType
      /\ req[q].pc \in {"addCats", "abandoned"}
  BY Typed DEF PubInv, AddCat
<1>1. pc \in {"abandoned", "addCats", "dropRoles", "update"}
  BY DEF AfterCats
<1>2. /\ refused => pc = "abandoned"
      /\ pc = "dropRoles" => "roleIds" \in req[q].has
      /\ pc = "update" => "roleIds" \notin req[q].has
  BY DEF AfterCats
<1>3. pc # "abandoned" => req[q].pc = "addCats"
  BY <1>t, <1>2 DEF At
<1>4. left \in SUBSET (Category \cup Role)
  BY <1>t DEF ReqType
<1>5. /\ IF c \in cats THEN Go(q, r) ELSE GoWritten(q, r)
      /\ cats' = cats \cup {c}
      /\ UNCHANGED <<ann, roles, edits>>
      /\ torn' = IF refused THEN torn \cup {"cut"} ELSE torn
  BY DEF AddCat
<1> HIDE DEF refused, left, next, pc
<1>6. /\ r \in ReqType /\ r.pc = pc /\ r.has = req[q].has
      /\ r.roles = req[q].roles /\ r.vis = req[q].vis
      /\ r.seen = req[q].seen /\ r.stale = req[q].stale
  BY <1>t, <1>1, <1>4 DEF ReqType, Pc
<1> HIDE DEF r
<1>7. /\ req'[q] = r
      /\ \A p \in Request \ {q} :
           req'[p].pc = req[p].pc /\ req'[p].has = req[p].has
  <2>1. CASE c \in cats
    <3>1. Go(q, r) /\ UNCHANGED <<ann, links>>
      BY <1>5, <2>1 DEF links
    <3> QED
      BY <1>6, <3>1, GoLeaves
  <2>2. CASE c \notin cats
    BY <1>5, <1>6, <2>2, WriteLeaves
  <2> QED
    BY <2>1, <2>2
<1>8. Running(q) /\ ann.status # "none" /\ RequestHolds(q)
  BY <1>t, RunningExists DEF Running, PubInv
<1>9. RequestHolds(q)'
  <2>1. ReadHolds(q)'
    BY <1>t, <1>1, <1>5, <1>6, <1>7, <1>8
       DEF RequestHolds, ReadHolds, Running, Editing
  <2>2. EditHolds(q)'
    BY <1>1, <1>2, <1>3, <1>5, <1>6, <1>7, <1>8
       DEF RequestHolds, EditHolds, NewVis, NewRoles
  <2>3. Steps(q)'
    BY <1>1, <1>2, <1>6, <1>7 DEF Steps
  <2> QED
    BY <2>1, <2>2, <2>3 DEF RequestHolds
<1>10. CatsHold'
  BY <1>5 DEF CatsHold
<1>11. RolesHold'
  <2>1. RolesHold
    BY DEF PubInv
  <2>2. torn' = {} => torn = {}
    BY <1>5
  <2> QED
    BY <1>t, <1>5, <1>7, <2>1, <2>2 DEF RolesHold
<1>12. /\ cats' \subseteq Category /\ roles' \subseteq Role /\ edits' \in Nat
       /\ torn' \subseteq {"cut", "overlap"}
  BY <1>5, Typed DEF PubInv
<1>13. CASE c \in cats
  <2>1. Go(q, r) /\ UNCHANGED <<ann, links>>
    BY <1>5, <1>13 DEF links
  <2>2. torn \subseteq torn' /\ torn' # {}
    BY <1>5, <1>13 DEF refused
  <2> QED
    BY <1>6, <1>8, <1>9, <1>12, <2>1, <2>2, ReadKeeps
<1>14. CASE c \notin cats
  BY <1>t, <1>5, <1>6, <1>8, <1>9, <1>10, <1>11, <1>12, <1>14, WriteKeeps
<1> QED
  BY <1>13, <1>14

LEMMA DropRolesKeeps ==
  ASSUME PubInv, NEW q \in Request, DropRoles(q)
  PROVE  PubInv'
<1> DEFINE pc == IF req[q].roles = {} THEN "update" ELSE "addRoles"
           r == [req[q] EXCEPT !.todo = req[q].roles, !.pc = pc]
<1>t. req[q] \in ReqType /\ ann \in AnnType /\ req[q].pc = "dropRoles"
  BY Typed DEF PubInv, DropRoles, At
<1>1. pc \in {"update", "addRoles"} /\ (pc = "update" <=> req[q].roles = {})
  OBVIOUS
<1>2. GoWritten(q, r) /\ roles' = {} /\ UNCHANGED <<ann, cats, edits, torn>>
  BY DEF DropRoles
<1> HIDE DEF pc
<1>3. /\ r \in ReqType /\ r.pc = pc /\ r.has = req[q].has
      /\ r.roles = req[q].roles /\ r.vis = req[q].vis
      /\ r.seen = req[q].seen /\ r.stale = req[q].stale
      /\ r.todo = req[q].roles
  BY <1>t, <1>1 DEF ReqType, Pc
<1> HIDE DEF r
<1>4. req'[q] = r /\ \A p \in Request \ {q} : req'[p].pc = req[p].pc
  BY <1>2, <1>3, WriteLeaves
<1>5. Running(q) /\ ann.status # "none" /\ RequestHolds(q)
  BY <1>t, RunningExists DEF Running, PubInv
<1>6. "roleIds" \in req[q].has
  BY <1>t, <1>5 DEF RequestHolds, Steps
<1>7. RequestHolds(q)'
  <2>1. ReadHolds(q)'
    BY <1>t, <1>1, <1>2, <1>3, <1>4, <1>5
       DEF RequestHolds, ReadHolds, Running, Editing
  <2>2. EditHolds(q)'
    BY <1>t, <1>1, <1>2, <1>3, <1>4, <1>5, <1>6
       DEF RequestHolds, EditHolds, NewVis, NewRoles
  <2>3. Steps(q)'
    BY <1>1, <1>3, <1>4, <1>6 DEF Steps
  <2> QED
    BY <2>1, <2>2, <2>3 DEF RequestHolds
<1>8. CatsHold'
  <2>1. CatsHold
    BY DEF PubInv
  <2> QED
    BY <1>t, <1>2, <1>4, <2>1 DEF CatsHold, At
<1>9. RolesHold'
  BY <1>1, <1>3, <1>4, <1>6 DEF RolesHold
<1> QED
  BY <1>t, <1>2, <1>3, <1>5, <1>7, <1>8, <1>9, WriteKeeps, Typed DEF PubInv

LEMMA AddRoleKeeps ==
  ASSUME PubInv, NEW q \in Request, NEW c \in Role, AddRole(q, c)
  PROVE  PubInv'
<1> DEFINE refused == c \in roles \/ At(q, "abandonedRoles")
           left == req[q].todo \ {c}
           next == IF left = {} THEN "update" ELSE "addRoles"
           pc == IF refused THEN "abandonedRoles" ELSE next
           r == [req[q] EXCEPT !.todo = left, !.pc = pc]
<1>t. /\ req[q] \in ReqType /\ ann \in AnnType
      /\ req[q].pc \in {"addRoles", "abandonedRoles"}
  BY Typed DEF PubInv, AddRole
<1>1. pc \in {"abandonedRoles", "addRoles", "update"}
      /\ (pc # "abandonedRoles" => req[q].pc = "addRoles")
  BY <1>t DEF At
<1>2. left \in SUBSET (Category \cup Role)
  BY <1>t DEF ReqType
<1>3. /\ IF c \in roles THEN Go(q, r) ELSE GoWritten(q, r)
      /\ roles' = roles \cup {c}
      /\ UNCHANGED <<ann, cats, edits>>
      /\ torn' = IF refused THEN torn \cup {"cut"} ELSE torn
  BY DEF AddRole
<1> HIDE DEF refused, left, next, pc
<1>4. /\ r \in ReqType /\ r.pc = pc /\ r.has = req[q].has
      /\ r.seen = req[q].seen /\ r.stale = req[q].stale
  BY <1>t, <1>1, <1>2 DEF ReqType, Pc
<1> HIDE DEF r
<1>5. req'[q] = r /\ \A p \in Request \ {q} : req'[p].pc = req[p].pc
  <2>1. CASE c \in roles
    <3>1. Go(q, r) /\ UNCHANGED <<ann, links>>
      BY <1>3, <2>1 DEF links
    <3> QED
      BY <1>4, <3>1, GoLeaves
  <2>2. CASE c \notin roles
    BY <1>3, <1>4, <2>2, WriteLeaves
  <2> QED
    BY <2>1, <2>2
<1>6. Running(q) /\ ann.status # "none" /\ RequestHolds(q)
  BY <1>t, RunningExists DEF Running, PubInv
<1>7. "roleIds" \in req[q].has
  BY <1>t, <1>6 DEF RequestHolds, Steps
<1>8. RequestHolds(q)'
  <2>1. ReadHolds(q)'
    BY <1>t, <1>1, <1>3, <1>4, <1>5, <1>6
       DEF RequestHolds, ReadHolds, Running, Editing
  <2>2. EditHolds(q)'
    BY <1>1, <1>3, <1>4, <1>5 DEF EditHolds
  <2>3. Steps(q)'
    BY <1>1, <1>4, <1>5, <1>7 DEF Steps
  <2> QED
    BY <2>1, <2>2, <2>3 DEF RequestHolds
<1>9. CatsHold'
  <2>1. CatsHold /\ (torn' = {} => torn = {})
    BY <1>3 DEF PubInv
  <2> QED
    BY <1>t, <1>3, <1>5, <2>1 DEF CatsHold, At
<1>10. RolesHold'
  BY <1>3 DEF RolesHold
<1>11. /\ cats' \subseteq Category /\ roles' \subseteq Role /\ edits' \in Nat
       /\ torn' \subseteq {"cut", "overlap"}
  BY <1>3, Typed DEF PubInv
<1>12. CASE c \in roles
  <2>1. Go(q, r) /\ UNCHANGED <<ann, links>>
    BY <1>3, <1>12 DEF links
  <2>2. torn \subseteq torn' /\ torn' # {}
    BY <1>3, <1>12 DEF refused
  <2> QED
    BY <1>4, <1>6, <1>8, <1>11, <2>1, <2>2, ReadKeeps
<1>13. CASE c \notin roles
  BY <1>t, <1>3, <1>4, <1>6, <1>8, <1>9, <1>10, <1>11, <1>13, WriteKeeps
<1> QED
  BY <1>12, <1>13
-----------------------------------------------------------------------------
(* The statements that write the row.                                      *)

\* The row after the last write of an edit.
LEMMA UpdatedTyped ==
  ASSUME PubInv, NEW q \in Request, Update(q)
  PROVE  /\ ann' \in AnnType /\ ann'.status = ann.status
         /\ ann'.vis = NewVis(q)
         /\ ann'.slug = IF "words" \in req[q].has /\ req[q].seen = "draft"
                        THEN req[q].n ELSE ann.slug
         /\ ann'.text = IF "words" \in req[q].has THEN req[q].n ELSE ann.text
         /\ ann'.edited =
              IF "words" \in req[q].has /\ req[q].seen = "published"
              THEN req[q].n ELSE ann.edited
<1>1. req[q] \in ReqType /\ ann \in AnnType
  BY Typed DEF PubInv
<1> QED
  BY <1>1 DEF Update, ReqType, AnnType, NewVis

LEMMA UpdateKeeps ==
  ASSUME PubInv, NEW q \in Request, Update(q)
  PROVE  PubInv'
<1>t. req[q].pc = "update" /\ RequestHolds(q) /\ torn \subseteq {"cut", "overlap"}
  BY Typed DEF PubInv, Update, At
<1>1. /\ GoWritten(q, Idle) /\ UNCHANGED <<links, edits>>
      /\ torn' = IF req[q].stale THEN torn \cup {"overlap"} ELSE torn
  BY DEF Update
<1>2. req'[q] = Idle /\ \A p \in Request \ {q} : req'[p].pc = req[p].pc
  BY <1>1, IdleTyped, WriteLeaves
<1>3. Running(q) /\ ann.status # "none"
  BY <1>t, RunningExists DEF Running
<1>4. CatsHold'
  <2>1. CatsHold /\ cats' = cats /\ (torn' = {} => torn = {})
    BY <1>1 DEF PubInv, links
  <2> QED
    BY <1>t, <1>2, <1>3, <2>1 DEF CatsHold, At
<1>5. RolesHold'
  <2>1. roles' = roles
    BY <1>1 DEF links
  <2>2. torn' = {} => ~req[q].stale
    BY <1>1
  <2>3. ~req[q].stale => (NewVis(q) = "private" => roles # {})
    BY <1>t DEF RequestHolds, EditHolds
  <2> QED
    BY <2>1, <2>2, <2>3, UpdatedTyped DEF RolesHold
<1>6. RequestHolds(q)'
  BY <1>2, IdleHolds
<1>7. /\ cats' \subseteq Category /\ roles' \subseteq Role /\ edits' \in Nat
      /\ torn' \subseteq {"cut", "overlap"}
  BY <1>1, <1>t, Typed DEF PubInv, links
<1> QED
  BY <1>1, <1>3, <1>4, <1>5, <1>6, <1>7, IdleTyped, UpdatedTyped, WriteKeeps

\* Unpublishing and archiving leave the links and the visibility alone.
LEMMA SetStatusKeeps ==
  ASSUME PubInv, NEW q \in Request, NEW st \in {"draft", "archived"},
         req[q].pc \in {"unpublish", "archive"},
         ann' = [ann EXCEPT !.status = st], GoWritten(q, Idle),
         UNCHANGED <<links, edits, torn>>
  PROVE  PubInv'
<1>1. ann' \in AnnType /\ ann'.status = st /\ ann'.vis = ann.vis
  BY Typed DEF PubInv, AnnType, Statuses
<1>2. /\ req'[q] = Idle
      /\ \A p \in Request \ {q} :
           req'[p].pc = req[p].pc /\ req'[p].has = req[p].has
  BY IdleTyped, WriteLeaves
<1>3. Running(q) /\ ann.status # "none"
  BY RunningExists DEF Running
<1>4. cats' = cats /\ roles' = roles
  BY DEF links
<1>5. CatsHold'
  <2>1. CatsHold
    BY DEF PubInv
  <2> QED
    BY <1>2, <1>3, <1>4, <2>1 DEF CatsHold, At
<1>6. RolesHold'
  <2>1. RolesHold
    BY DEF PubInv
  <2> QED
    BY <1>1, <1>2, <1>3, <1>4, <2>1 DEF RolesHold
<1>7. RequestHolds(q)'
  BY <1>2, IdleHolds
<1> QED
  BY <1>1, <1>3, <1>4, <1>5, <1>6, <1>7, IdleTyped, WriteKeeps, Typed
     DEF PubInv

LEMMA SetPublishedKeeps ==
  ASSUME PubInv, NEW q \in Request, SetPublished(q)
  PROVE  PubInv'
<1>t. /\ req[q].pc = "publish" /\ RequestHolds(q) /\ Running(q)
      /\ cats' = cats /\ roles' = roles /\ edits' = edits
  BY DEF SetPublished, At, Running, PubInv, links
<1>0. ann.status # "none"
  BY <1>t, RunningExists
<1>1. CASE ann.status = "draft"
  <2>1. /\ ann' = [ann EXCEPT !.status = "published"] /\ GoWritten(q, Idle)
        /\ torn' = IF req[q].stale THEN torn ELSE {}
    BY <1>1 DEF SetPublished
  <2>2. ann' \in AnnType /\ ann'.status = "published" /\ ann'.vis = ann.vis
    BY <2>1, Typed DEF PubInv, AnnType, Statuses
  <2>3. /\ req'[q] = Idle
        /\ \A p \in Request \ {q} :
             req'[p].pc = req[p].pc /\ req'[p].has = req[p].has
    BY <2>1, IdleTyped, WriteLeaves
  <2>4. ~req[q].stale => cats # {} /\ (ann.vis = "private" => roles # {})
    BY <1>t DEF RequestHolds, ReadHolds
  <2>5. CatsHold'
    <3>1. CatsHold
      BY DEF PubInv
    <3> QED
      BY <1>t, <1>0, <2>1, <2>3, <2>4, <3>1 DEF CatsHold, At
  <2>6. RolesHold'
    <3>1. RolesHold
      BY DEF PubInv
    <3> QED
      BY <1>t, <1>0, <2>1, <2>2, <2>3, <2>4, <3>1 DEF RolesHold
  <2>7. RequestHolds(q)'
    BY <2>3, IdleHolds
  <2> QED
    BY <1>t, <2>1, <2>2, <2>5, <2>6, <2>7, IdleTyped, WriteKeeps, Typed
       DEF PubInv
<1>2. CASE ann.status # "draft"
  <2>1. Go(q, Idle) /\ UNCHANGED <<ann, links, edits, torn>>
    BY <1>2 DEF SetPublished
  <2>2. RequestHolds(q)'
    BY <2>1, GoLeaves, IdleTyped, IdleHolds
  <2>3. edits' \in Nat /\ torn' \subseteq {"cut", "overlap"}
        /\ torn \subseteq torn'
    BY <2>1, Typed DEF PubInv
  <2> QED
    BY <1>t, <1>0, <2>1, <2>2, <2>3, ReadKeeps, IdleTyped
<1> QED
  BY <1>1, <1>2
-----------------------------------------------------------------------------
\* Every statement keeps the invariant.
LEMMA PubStep == PubInv /\ [PubNext]_pubVars => PubInv'
<1> SUFFICES ASSUME PubInv, [PubNext]_pubVars PROVE PubInv'
  OBVIOUS
<1>1. CASE UNCHANGED pubVars
  <2>1. UNCHANGED <<ann, cats, roles, req, edits, torn>>
    BY <1>1 DEF pubVars, links
  <2> QED
    BY <2>1 DEF PubInv, PubTypeOK, NoneIsIdle, CatsHold, RolesHold,
         RequestHolds, ReadHolds, EditHolds, Steps, Running, At, NewVis,
         NewRoles
<1>2. ASSUME NEW q \in Request, Publish(q) \/ Unpublish(q) \/ Archive(q)
      PROVE  PubInv'
  <2>1. CASE Publish(q)
    BY <2>1, BeginKeeps DEF Publish
  <2>2. CASE Unpublish(q)
    BY <2>2, BeginKeeps DEF Unpublish
  <2>3. CASE Archive(q)
    BY <2>3, BeginKeeps DEF Archive
  <2> QED
    BY <1>2, <2>1, <2>2, <2>3
<1>3. ASSUME NEW q \in Request, SetDraft(q) PROVE PubInv'
  BY <1>3, SetStatusKeeps DEF SetDraft, At
<1>4. ASSUME NEW q \in Request, SetArchived(q) PROVE PubInv'
  BY <1>4, SetStatusKeeps DEF SetArchived, At
<1> QED
  BY <1>1, <1>2, <1>3, <1>4, CreateKeeps, EditKeeps, DropCatsKeeps,
     AddCatKeeps, DropRolesKeeps, AddRoleKeeps, UpdateKeeps, SetPublishedKeeps,
     FailKeeps DEF PubNext

\* Complete links, or an edit on its way, are what the property asks for.
LEMMA InvIsComplete == PubInv => PublishedIsComplete
<1> SUFFICES ASSUME PubInv, ann.status = "published", torn = {}
             PROVE  /\ cats # {} \/ \E q \in Request : At(q, "addCats")
                    /\ Viewers # {} \/ \E q \in Request :
                         /\ req[q].pc \in {"addRoles", "update"}
                         /\ "roleIds" \in req[q].has
  BY DEF PublishedIsComplete
<1>1. Viewers = IF ann.vis = "public" THEN Role \cup {"anyone"} ELSE roles
  BY DEF Viewers
<1>2. ann.vis \in {"public", "private"}
  BY DEF PubInv, PubTypeOK
<1> QED
  BY <1>1, <1>2 DEF PubInv, CatsHold, RolesHold

\* What one step may do to the row.
LifecycleStep ==
  LET late == \E q \in Request : req[q].stale /\ req'[q] # req[q]
  IN  /\ ann'.status = "published" /\ ann.status # "published"
         => ann.status = "draft"
      /\ ann.status = "archived" => ann' = ann \/ late
      /\ ann.status = "published" =>
           \/ late
           \/ /\ ann'.slug = ann.slug
              /\ ann'.text # ann.text => ann'.edited = ann'.text

\* A request that writes the row and is stale is a late one.
LEMMA LateWrites ==
  ASSUME PubInv, NEW q \in Request, Running(q), req[q].stale, GoWritten(q, Idle)
  PROVE  \E p \in Request : req[p].stale /\ req'[p] # req[p]
<1>1. req'[q] = Idle
  BY IdleTyped, WriteLeaves
<1> QED
  BY <1>1, IdleTyped DEF Running

LEMMA LifecycleKept == PubInv /\ PubNext => LifecycleStep
<1> SUFFICES ASSUME PubInv, PubNext PROVE LifecycleStep
  OBVIOUS
<1>t. ann \in AnnType /\ \A q \in Request : RequestHolds(q)
  BY Typed DEF PubInv
<1>1. CASE ann' = ann
  BY <1>1 DEF LifecycleStep
<1>2. ASSUME NEW q \in Request, NEW cs \in SUBSET Category,
             NEW rs \in SUBSET Role, Create(q, cs, rs)
      PROVE  LifecycleStep
  <2>1. ann.status = "none" /\ ann'.status = "draft"
    BY <1>t, <1>2 DEF Create, AnnType
  <2> QED
    BY <2>1 DEF LifecycleStep
<1>3. ASSUME NEW q \in Request, Update(q) PROVE LifecycleStep
  <2>1. req[q].pc = "update" /\ GoWritten(q, Idle) /\ Running(q)
    BY <1>3 DEF Update, At, Running
  <2>2. CASE req[q].stale
    BY <1>3, <2>1, <2>2, LateWrites, UpdatedTyped DEF LifecycleStep
  <2>3. CASE ~req[q].stale
    <3>1. req[q].seen = ann.status /\ ann.status # "archived"
      BY <1>t, <2>1, <2>3 DEF RequestHolds, ReadHolds, Editing
    <3> QED
      BY <1>3, <3>1, UpdatedTyped DEF LifecycleStep
  <2> QED
    BY <2>2, <2>3
<1>4. ASSUME NEW q \in Request, SetPublished(q) PROVE LifecycleStep
  <2>1. CASE ann.status = "draft"
    BY <2>1 DEF LifecycleStep
  <2>2. CASE ann.status # "draft"
    BY <1>1, <1>4, <2>2 DEF SetPublished
  <2> QED
    BY <2>1, <2>2
<1>5. ASSUME NEW q \in Request, SetDraft(q) PROVE LifecycleStep
  <2>1. /\ req[q].pc = "unpublish" /\ GoWritten(q, Idle) /\ Running(q)
        /\ ann'.status = "draft" /\ ann'.slug = ann.slug
        /\ ann'.text = ann.text
    BY <1>t, <1>5 DEF SetDraft, At, Running, AnnType
  <2>2. CASE req[q].stale
    BY <2>1, <2>2, LateWrites DEF LifecycleStep
  <2>3. CASE ~req[q].stale
    <3>1. ann.status # "archived"
      BY <1>t, <2>1, <2>3 DEF RequestHolds, ReadHolds, Steps
    <3> QED
      BY <2>1, <3>1 DEF LifecycleStep
  <2> QED
    BY <2>2, <2>3
<1>6. ASSUME NEW q \in Request, SetArchived(q) PROVE LifecycleStep
  <2>1. /\ ann'.status = "archived" /\ ann'.slug = ann.slug
        /\ ann'.text = ann.text /\ (ann.status = "archived" => ann' = ann)
    BY <1>t, <1>6 DEF SetArchived, AnnType
  <2> QED
    BY <2>1 DEF LifecycleStep
<1>7. ASSUME NEW q \in Request,
             DropCats(q) \/ DropRoles(q) \/ Publish(q) \/ Unpublish(q)
             \/ Archive(q) \/ Fail(q)
      PROVE  LifecycleStep
  BY <1>1, <1>7
     DEF DropCats, DropRoles, Publish, Unpublish, Archive, Read, Fail
<1>8. ASSUME NEW q \in Request, NEW c, AddCat(q, c) \/ AddRole(q, c)
      PROVE  LifecycleStep
  BY <1>1, <1>8 DEF AddCat, AddRole
<1>9. ASSUME NEW q \in Request, NEW has, NEW cs, NEW rs, NEW vis,
             Edit(q, has, cs, rs, vis)
      PROVE  LifecycleStep
  BY <1>1, <1>9 DEF Edit
<1> QED
  BY <1>2, <1>3, <1>4, <1>5, <1>6, <1>7, <1>8, <1>9 DEF PubNext

\* The inductive invariant of publishing: types, what a request read still
\* holds unless it is stale, and complete links unless history was torn.
THEOREM PublishingInvariant == PubSpec => []PubInv
  BY PubInitial, PubStep, PTL DEF PubSpec

\* Every variable of an announcement keeps its type.
THEOREM PublishingTypeCorrect == PubSpec => []PubTypeOK
<1>1. PubInv => PubTypeOK
  BY DEF PubInv
<1> QED
  BY <1>1, PublishingInvariant, PTL

\* What is published is complete, for any number of concurrent requests.
THEOREM PublishedAreComplete == PubSpec => []PublishedIsComplete
  BY InvIsComplete, PublishingInvariant, PTL

\* The lifecycle is broken only by a request that another overtook.
THEOREM TheLifecycleHolds == PubSpec => LifecycleHolds
<1>1. PubInv /\ [PubNext]_pubVars => [LifecycleStep]_pubVars
  BY LifecycleKept
<1>2. PubSpec => [][LifecycleStep]_pubVars
  BY <1>1, PublishingInvariant, PTL DEF PubSpec
<1> QED
  BY <1>2 DEF LifecycleHolds, LifecycleStep
=============================================================================
