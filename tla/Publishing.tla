----------------------------- MODULE Publishing -----------------------------
(***************************************************************************)
(* The life of one announcement under the administrators' handlers of      *)
(* admin/announcements.ts.  Every database statement is an action; a       *)
(* handler acts on the row it read first.  Tags are left out: they are     *)
(* replaced like categories, and nothing asks for them.  Titles and texts  *)
(* are the number of the edit that wrote them.                             *)
(***************************************************************************)
EXTENDS Naturals

CONSTANTS
  Category, Role,
  Request,         \* slots of requests running at the same time
  MaxEdits         \* bound: edits

ASSUME PublishingAssumption == MaxEdits \in Nat

VARIABLES
  ann,       \* the Announcement row
  cats,      \* its AnnouncementCategoryLink rows
  roles,     \* its AnnouncementRoleVisibility rows
  req,       \* per slot the request: next statement, body, what it read
  edits,     \* how many edits were begun
  torn       \* history: edits cut off, or finished over another's writes

links == <<cats, roles>>
pubVars == <<ann, links, req, edits, torn>>

\* The fields an edit's body may have.
Field == {"categoryIds", "roleIds", "visibility", "words"}

Idle == [pc |-> "idle", has |-> {}, cats |-> {}, roles |-> {}, vis |-> "public",
         seen |-> "none", n |-> 0, todo |-> {}, stale |-> FALSE]
Running(q) == req[q].pc # "idle"
At(q, pc) == req[q].pc = pc

\* The row is absent, or a draft, published or archived.  lastEditedAt is the
\* edit that set it.
PubInit ==
  /\ ann = [status |-> "none", vis |-> "public", slug |-> 0, text |-> 0,
            edited |-> 0]
  /\ cats = {} /\ roles = {}
  /\ req = [q \in Request |-> Idle]
  /\ edits = 0 /\ torn = {}

\* Who gets the announcement from the public handlers: everyone ("anyone"), or
\* the holders of its roles.
Viewers ==
  CASE ann.status # "published" -> {}
    [] ann.vis = "public" -> Role \cup {"anyone"}
    [] OTHER -> roles
-----------------------------------------------------------------------------
\* The request goes on without having written.
Go(q, r) == req' = [req EXCEPT ![q] = r]

\* The request goes on after a write; what the others read is old now.
GoWritten(q, r) ==
  req' = [p \in Request |->
            CASE p = q -> r
              [] p # q /\ Running(p) -> [req[p] EXCEPT !.stale = TRUE]
              [] OTHER -> req[p]]

\* POST /v1/admin/announcements: a draft with all its links, in one nested
\* create.  A private one names its roles, a public one none.
Create(q, cs, rs) ==
  /\ ~Running(q) /\ ann.status = "none" /\ cs # {}
  /\ ann' = [ann EXCEPT !.status = "draft",
                        !.vis = IF rs = {} THEN "public" ELSE "private"]
  /\ cats' = cs /\ roles' = rs
  /\ UNCHANGED <<req, edits, torn>>
-----------------------------------------------------------------------------
(* PATCH /v1/admin/announcements/:id                                       *)

\* The next statement of an edit once the categories, or the roles, are done.
AfterCats(r) == IF "roleIds" \in r.has THEN "dropRoles" ELSE "update"
Start(r) == IF "categoryIds" \in r.has THEN "dropCats" ELSE AfterCats(r)

\* The row is read and the body compared with it.  A body names at least one
\* category if any; what it leaves out counts as it is.
Edit(q, has, cs, rs, vis) ==
  /\ ~Running(q) /\ edits < MaxEdits
  /\ ann.status \notin {"none", "archived"}
  /\ "categoryIds" \in has <=> cs # {}
  /\ "roleIds" \notin has => rs = {}
  /\ "visibility" \notin has => vis = "public"
  /\ LET newVis == IF "visibility" \in has THEN vis ELSE ann.vis
         newRoles == IF "roleIds" \in has THEN rs ELSE roles
     IN  IF newVis = "private" THEN newRoles # {} ELSE rs = {}
  /\ edits' = edits + 1
  /\ LET r == [Idle EXCEPT !.has = has, !.cats = cs, !.roles = rs,
                 !.vis = vis, !.seen = ann.status, !.n = edits + 1]
     IN  Go(q, [r EXCEPT !.pc = Start(r)])
  /\ UNCHANGED <<ann, links, torn>>

DropCats(q) ==
  /\ At(q, "dropCats")
  /\ cats' = {}
  /\ GoWritten(q, [req[q] EXCEPT !.pc = "addCats", !.todo = req[q].cats])
  /\ UNCHANGED <<ann, roles, edits, torn>>

\* The creates of one Promise.all, in any order.  A link that another edit made
\* meanwhile fails this one; its other creates are under way nonetheless.
AddCat(q, c) ==
  /\ req[q].pc \in {"addCats", "abandoned"} /\ c \in req[q].todo
  /\ cats' = cats \cup {c}
  /\ LET left == req[q].todo \ {c}
         refused == c \in cats \/ At(q, "abandoned")
         next == IF left = {} THEN AfterCats(req[q]) ELSE "addCats"
         r == [req[q] EXCEPT !.todo = left,
                             !.pc = IF refused THEN "abandoned" ELSE next]
     IN  /\ IF c \in cats THEN Go(q, r) ELSE GoWritten(q, r)
         /\ torn' = IF refused THEN torn \cup {"cut"} ELSE torn
  /\ UNCHANGED <<ann, roles, edits>>

DropRoles(q) ==
  /\ At(q, "dropRoles")
  /\ roles' = {}
  /\ GoWritten(q, [req[q] EXCEPT !.todo = req[q].roles,
                     !.pc = IF req[q].roles = {} THEN "update" ELSE "addRoles"])
  /\ UNCHANGED <<ann, cats, edits, torn>>

AddRole(q, c) ==
  /\ req[q].pc \in {"addRoles", "abandonedRoles"} /\ c \in req[q].todo
  /\ roles' = roles \cup {c}
  /\ LET left == req[q].todo \ {c}
         refused == c \in roles \/ At(q, "abandonedRoles")
         next == IF left = {} THEN "update" ELSE "addRoles"
         r == [req[q] EXCEPT !.todo = left,
                             !.pc = IF refused THEN "abandonedRoles" ELSE next]
     IN  /\ IF c \in roles THEN Go(q, r) ELSE GoWritten(q, r)
         /\ torn' = IF refused THEN torn \cup {"cut"} ELSE torn
  /\ UNCHANGED <<ann, cats, edits>>

\* mutant: the slug follows the title whatever the status was
UpdateSlug(q) ==
  /\ At(q, "update")
  /\ LET r == req[q]
     IN  /\ ann' = [ann EXCEPT
              !.vis = IF "visibility" \in r.has THEN r.vis ELSE @,
              !.slug = IF "words" \in r.has THEN r.n ELSE @,
              !.text = IF "words" \in r.has THEN r.n ELSE @,
              !.edited = IF "words" \in r.has /\ r.seen = "published"
                         THEN r.n ELSE @]
         /\ torn' = IF r.stale THEN torn \cup {"overlap"} ELSE torn
  /\ GoWritten(q, Idle)
  /\ UNCHANGED <<links, edits>>

\* The row is written without condition.  Only a draft, as it was read, gets a
\* new slug; only a published one is marked as edited.
Update(q) ==
  /\ At(q, "update")
  /\ LET r == req[q]
     IN  /\ ann' = [ann EXCEPT
              !.vis = IF "visibility" \in r.has THEN r.vis ELSE @,
              !.slug = IF "words" \in r.has /\ r.seen = "draft"
                       THEN r.n ELSE @,
              !.text = IF "words" \in r.has THEN r.n ELSE @,
              !.edited = IF "words" \in r.has /\ r.seen = "published"
                         THEN r.n ELSE @]
         /\ torn' = IF r.stale THEN torn \cup {"overlap"} ELSE torn
  /\ GoWritten(q, Idle)
  /\ UNCHANGED <<links, edits>>
-----------------------------------------------------------------------------
(* POST .../publish, .../unpublish, .../archive                            *)

Read(q, pc) ==
  /\ ~Running(q)
  /\ Go(q, [Idle EXCEPT !.pc = pc, !.seen = ann.status])
  /\ UNCHANGED <<ann, links, edits, torn>>

\* mutant: the categories and roles are not asked for
PublishUnchecked(q) == ann.status = "draft" /\ Read(q, "publish")

\* Media assets are left out: they can only refuse.
Publish(q) ==
  /\ ann.status = "draft"
  /\ cats # {} /\ (ann.vis = "private" => roles # {})
  /\ Read(q, "publish")

\* updateMany where the status is still draft.
SetPublished(q) ==
  /\ At(q, "publish")
  /\ IF ann.status = "draft"
     THEN /\ ann' = [ann EXCEPT !.status = "published"]
          /\ torn' = IF req[q].stale THEN torn ELSE {}
          /\ GoWritten(q, Idle)
     ELSE /\ UNCHANGED <<ann, torn>>
          /\ Go(q, Idle)
  /\ UNCHANGED <<links, edits>>

Unpublish(q) == ann.status = "published" /\ Read(q, "unpublish")

\* update by id: whatever the status is by now.
SetDraft(q) ==
  /\ At(q, "unpublish")
  /\ ann' = [ann EXCEPT !.status = "draft"]
  /\ GoWritten(q, Idle)
  /\ UNCHANGED <<links, edits, torn>>

Archive(q) == ann.status # "none" /\ Read(q, "archive")

SetArchived(q) ==
  /\ At(q, "archive")
  /\ ann' = [ann EXCEPT !.status = "archived"]
  /\ GoWritten(q, Idle)
  /\ UNCHANGED <<links, edits, torn>>

\* A request ends between two statements, or the rest of an abandoned one does.
\* An edit that had not written yet leaves nothing half done.
Fail(q) ==
  /\ Running(q)
  /\ Go(q, Idle)
  /\ torn' = IF req[q].pc \in {"publish", "unpublish", "archive", Start(req[q])}
             THEN torn ELSE torn \cup {"cut"}
  /\ UNCHANGED <<ann, links, edits>>
-----------------------------------------------------------------------------
PubNext ==
  \E q \in Request :
    \/ \E cs \in SUBSET Category, rs \in SUBSET Role : Create(q, cs, rs)
    \/ \E has \in SUBSET Field, cs \in SUBSET Category, rs \in SUBSET Role,
          vis \in {"public", "private"} : Edit(q, has, cs, rs, vis)
    \/ DropCats(q) \/ \E c \in Category : AddCat(q, c)
    \/ DropRoles(q) \/ \E c \in Role : AddRole(q, c)
    \/ Update(q)
    \/ Publish(q) \/ SetPublished(q) \/ Unpublish(q) \/ SetDraft(q)
    \/ Archive(q) \/ SetArchived(q) \/ Fail(q)

PubSpec == PubInit /\ [][PubNext]_pubVars
-----------------------------------------------------------------------------
(* Properties                                                              *)

Pc == {"idle", "dropCats", "addCats", "abandoned", "dropRoles", "addRoles",
       "abandonedRoles", "update", "publish", "unpublish", "archive"}

PubTypeOK ==
  /\ ann \in [status : {"none", "draft", "published", "archived"},
              vis : {"public", "private"},
              slug : Nat, text : Nat, edited : Nat]
  /\ cats \subseteq Category /\ roles \subseteq Role
  /\ req \in [Request ->
       [pc : Pc, has : SUBSET Field, cats : SUBSET Category,
        roles : SUBSET Role, vis : {"public", "private"},
        seen : {"none", "draft", "published", "archived"}, n : Nat,
        todo : SUBSET (Category \cup Role), stale : BOOLEAN]]
  /\ edits \in Nat /\ torn \subseteq {"cut", "overlap"}

\* What is published has a category and somebody who may see it, except while
\* an edit is between its deletions and its last write, or since an edit was
\* cut off or finished over another's writes.  Publishing checks it again
\* (announcements.ts:743, 658-692).
PublishedIsComplete ==
  ann.status = "published" /\ torn = {} =>
    /\ cats # {} \/ \E q \in Request : At(q, "addCats")
    /\ Viewers # {} \/ \E q \in Request :
         req[q].pc \in {"addRoles", "update"} /\ "roleIds" \in req[q].has

\* Nothing is published but a draft, whatever else runs.  An archived
\* announcement stays as it is, the slug of a published one is frozen, and its
\* text changes only together with lastEditedAt, unless the request that breaks
\* this had read the row before another request wrote (announcements.ts:541,
\* 625, 648, 767, 810; prisma/schema.prisma:492).
LifecycleHolds ==
  [][LET late == \E q \in Request : req[q].stale /\ req'[q] # req[q]
     IN  /\ ann'.status = "published" /\ ann.status # "published"
            => ann.status = "draft"
         /\ ann.status = "archived" => ann' = ann \/ late
         /\ ann.status = "published" =>
              \/ late
              \/ /\ ann'.slug = ann.slug
                 /\ ann'.text # ann.text => ann'.edited = ann'.text]_pubVars
=============================================================================
