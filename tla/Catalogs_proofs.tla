--------------------------- MODULE Catalogs_proofs ---------------------------
(***************************************************************************)
(* The properties of Catalogs.tla for every number of catalogs, sources,   *)
(* resources and requests.                                                 *)
(***************************************************************************)
EXTENDS Catalogs, Trails

-----------------------------------------------------------------------------
(* The inductive invariant. *)

Resting(r) == pc[r] \in {"idle", "done"}

\* Who has read a row, and who has resolved the catalog of a resource.
Reading(r) == pc[r] \in {"sources", "save", "publishers", "software", "row",
                         "merge"}
Owning(r) == pc[r] \in {"insert", "insertLog", "item", "saveItem"}

\* Only a handler that is through has answered or has asked for sources; who
\* is not there yet has resolved nothing; what was resolved was created.
Answered ==
    \A r \in Requests :
       /\ pc[r] # "done" => reply[r] = None /\ local[r].want = None
       /\ pc[r] = "idle" => local[r].id = None
       /\ Reading(r) => local[r].id \in Ids
       /\ pc[r] = "save" => \A x \in local[r].rows : x.owner = local[r].id
       /\ local[r].id # None => catalogs[local[r].id] # Unborn

\* The deletion of a catalog is that in its trail, and the PATCHes to blame
\* for what comes later are not fewer than that.
Deletion(c) == [type |-> "delete", id |-> c]
Saved(c) == {r \in Requests : local[r].id = c /\ local[r].want # None}
LateOnes ==
    /\ IsFiniteSet({r \in Requests : pc[r] # "idle"})
    /\ \A c \in Ids :
          /\ Count("delete", c) = IF catalogs[c] = Gone THEN 1 ELSE 0
          /\ Cardinality(Late(trail, c, Deletion(c))) <= Cardinality(Saved(c))

\* Whatever carries an id carries that of a catalog that was created.
ItemsBorn == \A x \in items : x.owner # None => catalogs[x.owner] # Unborn

\* In a plain behaviour a request finds things as it left them.
Turns == plain => \A r, q \in Requests : ~ Resting(r) /\ ~ Resting(q) => r = q

Within(r) ==
    \/ \E c \in Resolved(local[r].path) : local[r].id = Owner(c)
    \/ local[r].path = Root /\ local[r].id = None

Current(r) ==
    /\ Reading(r) => /\ Exists(local[r].id)
                     /\ local[r].alt = catalogs[local[r].id]
    /\ pc[r] = "save" => local[r].rows = Of(local[r].id)
    /\ pc[r] = "software" => \/ local[r].busy
                             \/ \A x \in items :
                                   x.kind = "publisher" => ~ InScope(r, x)
    /\ pc[r] = "row" => \A x \in Resources : ~ InScope(r, x)
    /\ Owning(r) => Within(r)
    /\ pc[r] = "saveItem" => local[r].item.owner = local[r].id
InStep == plain => \A r \in Requests : Current(r)

\* No catalog lists a source twice.
PlainOnce ==
    plain => \A x, y \in sources :
                x.owner = y.owner /\ x.url = y.url => x = y

CInv == /\ TypeOK /\ Answered
        /\ LateOnes
        /\ NoSourceLeftBehind /\ ItemsBorn
        /\ Turns /\ InStep
        /\ PlainOnce /\ PlainSources /\ PlainUntied

-----------------------------------------------------------------------------
(* Steps. *)

Moves(r) == \/ Fail(r) \/ PostCatalog(r)
            \/ FindForPatch(r) \/ LoadSources(r) \/ Save(r)
            \/ FindForDelete(r) \/ CountPublishers(r) \/ CountSoftware(r)
            \/ DeleteRow(r)
            \/ FindForItem(r) \/ CreateItem(r)
            \/ FindForLog(r) \/ CreateLog(r)
            \/ FindForPatchItem(r) \/ LoadItem(r) \/ SaveItem(r)
            \/ RemoveItem(r)
            \/ FindForAnalysis(r) \/ MergeAnalysis(r)

\* The request r goes on and no other does.
Acts(r) ==
    /\ pc[r] # "done" /\ pc'[r] # "idle"
    /\ plain' => plain /\ (pc[r] = "idle" => Alone)
    /\ \A q \in Requests \ {r} : /\ pc'[q] = pc[q]
                                 /\ reply'[q] = reply[q]
                                 /\ local'[q] = local[q]
    /\ pc'[r] # "done" => reply'[r] = reply[r]
    /\ pc[r] = "save" /\ reply'[r] = "ok" => Save(r)
    /\ Save(r) \/ local'[r].want = local[r].want
    /\ \/ local'[r].id = local[r].id
       \/ local'[r].id = None
       \/ local'[r].id \in Ids /\ Exists(local'[r].id)
    /\ Reading(r)' =>
          /\ \/ FindForPatch(r) \/ LoadSources(r)
             \/ FindForDelete(r) \/ CountPublishers(r) \/ CountSoftware(r)
             \/ FindForAnalysis(r)
          /\ \/ Reading(r) /\ local'[r].id = local[r].id
             \/ local'[r].id \in Ids
    /\ pc'[r] = "save" => LoadSources(r)
    /\ Owning(r)' => \/ FindForItem(r) \/ FindForLog(r) \/ FindForPatchItem(r)
                     \/ LoadItem(r)

\* Setting some fields of a request's local leaves the others.
LEMMA LocalStays ==
    ASSUME TypeOK, NEW r \in Requests
    PROVE  /\ \A x : LET l == [local EXCEPT ![r].rows = x][r]
                     IN  /\ l.id = local[r].id /\ l.alt = local[r].alt
                         /\ l.want = local[r].want /\ l.rows = x
           /\ \A x : LET l == [local EXCEPT ![r].busy = x][r]
                     IN  /\ l.id = local[r].id /\ l.alt = local[r].alt
                         /\ l.want = local[r].want /\ l.busy = x
           /\ \A x : LET l == [local EXCEPT ![r].want = x][r]
                     IN  l.id = local[r].id /\ l.want = x
           /\ \A x : LET l == [local EXCEPT ![r].path = x][r]
                     IN  /\ l.id = local[r].id /\ l.want = local[r].want
                         /\ l.path = x
           /\ \A x : LET l == [local EXCEPT ![r].item = x][r]
                     IN  /\ l.id = local[r].id /\ l.want = local[r].want
                         /\ l.path = local[r].path /\ l.item = x
           /\ \A x, y : LET l == [local EXCEPT ![r].id = x, ![r].alt = y][r]
                        IN  /\ l.id = x /\ l.alt = y
                            /\ l.want = local[r].want
           /\ \A x, y : LET l == [local EXCEPT ![r].id = x, ![r].path = y][r]
                        IN  /\ l.id = x /\ l.path = y
                            /\ l.want = local[r].want
BY DEF TypeOK, Locals

\* What the first query of a PATCH, a DELETE or an analysis leads to, ...
LEMMA FoundIn ==
    ASSUME NEW r, NEW kind, NEW place, Find(r, kind, place)
    PROVE  /\ Arrives(r, kind)
           /\ plain' = (plain /\ Alone)
           /\ UNCHANGED <<catalogs, sources, items, trail>>
           /\ \/ Answer(r, "notfound") /\ local' = local
              \/ /\ Goto(r, place)
                 /\ \E c \in Ids :
                       /\ Exists(c)
                       /\ local' = [local EXCEPT ![r].id = c,
                                                 ![r].alt = catalogs[c]]
BY DEF Find, Resolved

\* ... and that of a handler of resources or logs.
LEMMA OwnerIn ==
    ASSUME NEW r, NEW kind, NEW place, FindOwner(r, kind, place)
    PROVE  /\ Arrives(r, kind)
           /\ plain' = (plain /\ Alone)
           /\ UNCHANGED <<catalogs, sources, items, trail>>
           /\ \E param \in Params :
                 \/ /\ Goto(r, place)
                    /\ \E c \in Resolved(param) :
                          local' = [local EXCEPT ![r].id = Owner(c),
                                                 ![r].path = param]
                 \/ /\ local' = [local EXCEPT ![r].path = param]
                    /\ \/ param = Root /\ Goto(r, place)
                       \/ Answer(r, "notfound")
<1>1. PICK param \in Params :
         \/ \E c \in Resolved(param) :
               /\ local' = [local EXCEPT ![r].id = Owner(c),
                                         ![r].path = param]
               /\ Goto(r, place)
         \/ /\ IF param = Root THEN Goto(r, place) ELSE Answer(r, "notfound")
            /\ local' = [local EXCEPT ![r].path = param]
  BY DEF FindOwner
<1> QED BY <1>1 DEF FindOwner

\* Each handler's step is one of r alone that goes where Acts says.
LEMMA MoveActs ==
    ASSUME TypeOK, NEW r \in Requests, Moves(r)
    PROVE  Acts(r)
<1> USE DEF TypeOK
<1>1. ASSUME NEW kind, Arrives(r, kind)
      PROVE  pc[r] = "idle"
  BY <1>1 DEF Arrives
<1>2. ASSUME NEW status, Answer(r, status)
      PROVE  /\ pc'[r] = "done" /\ reply'[r] = status
             /\ ~ Reading(r)' /\ ~ Owning(r)'
             /\ \A q \in Requests \ {r} : /\ pc'[q] = pc[q]
                                          /\ reply'[q] = reply[q]
  BY <1>2 DEF Answer, Reading, Owning
<1>3. ASSUME NEW place, Goto(r, place)
      PROVE  /\ UNCHANGED reply
             /\ pc'[r] = place
             /\ \A q \in Requests \ {r} : pc'[q] = pc[q]
  BY <1>3 DEF Goto
<1>4. ASSUME local' = local
      PROVE  /\ \A q \in Requests \ {r} : local'[q] = local[q]
             /\ local'[r].id = local[r].id
             /\ local'[r].want = local[r].want
  BY <1>4
<1>5. ASSUME UNCHANGED plain, pc[r] # "idle", pc[r] # "done", pc[r] # "save",
             local' = local, NEW status, Answer(r, status)
      PROVE  Acts(r)
  BY <1>2, <1>4, <1>5 DEF Acts
<1>6. CASE Fail(r)
  <2>1. pc[r] # "done" /\ (plain' => plain /\ (pc[r] = "idle" => Alone))
    <3>1. CASE \E kind \in kinds : /\ Arrives(r, kind)
                                   /\ plain' = (plain /\ Alone)
      BY <3>1 DEF Arrives
    <3>2. CASE pc[r] \notin {"idle", "done"} /\ UNCHANGED plain
      BY <3>2
    <3> QED BY <1>6, <3>1, <3>2 DEF Fail
  <2>2. Answer(r, "error") /\ local' = local
    BY <1>6 DEF Fail
  <2> QED BY <1>2, <1>4, <2>1, <2>2 DEF Acts
<1>7. CASE PostCatalog(r)
  <2>1. pc[r] = "idle" /\ (plain' => plain /\ Alone)
    BY <1>7 DEF PostCatalog, Arrives
  <2> QED BY <1>2, <1>4, <1>7, <2>1 DEF PostCatalog, Acts
<1>8. CASE RemoveItem(r)
  <2>1. pc[r] = "idle" /\ (plain' => plain /\ Alone)
    BY <1>8 DEF RemoveItem, Arrives
  <2> QED BY <1>2, <1>4, <1>8, <2>1 DEF RemoveItem, Acts
<1>9. ASSUME NEW kind, NEW place \in {"sources", "publishers", "merge"},
             Find(r, kind, place),
             FindForPatch(r) \/ FindForDelete(r) \/ FindForAnalysis(r)
      PROVE  Acts(r)
  <2>1. pc[r] = "idle" /\ (plain' => plain /\ Alone)
    BY <1>1, <1>9, FoundIn
  <2>2. CASE Answer(r, "notfound") /\ local' = local
    BY <1>2, <1>4, <2>1, <2>2 DEF Acts
  <2>3. ASSUME Goto(r, place), NEW c \in Ids, Exists(c),
               local' = [local EXCEPT ![r].id = c, ![r].alt = catalogs[c]]
        PROVE  Acts(r)
    <3>1. /\ \A q \in Requests \ {r} : local'[q] = local[q]
          /\ local'[r].id = c /\ local'[r].want = local[r].want
      BY <2>3, LocalStays
    <3>2. ~ Owning(r)' /\ pc'[r] = place
      BY <1>3, <2>3 DEF Owning
    <3> QED BY <1>3, <1>9, <2>1, <2>3, <3>1, <3>2 DEF Acts
  <2> QED BY <1>9, <2>2, <2>3, FoundIn
<1>10. CASE FindForPatch(r) \/ FindForDelete(r) \/ FindForAnalysis(r)
  BY <1>9, <1>10 DEF FindForPatch, FindForDelete, FindForAnalysis
<1>11. ASSUME NEW kind, NEW place \in {"insert", "insertLog", "item"},
              FindOwner(r, kind, place),
              FindForItem(r) \/ FindForLog(r) \/ FindForPatchItem(r)
       PROVE  Acts(r)
  <2>1. pc[r] = "idle" /\ (plain' => plain /\ Alone)
    BY <1>1, <1>11, OwnerIn
  <2>2. PICK param \in Params :
           \/ /\ Goto(r, place)
              /\ \E c \in Resolved(param) :
                    local' = [local EXCEPT ![r].id = Owner(c),
                                           ![r].path = param]
           \/ /\ local' = [local EXCEPT ![r].path = param]
              /\ Goto(r, place) \/ Answer(r, "notfound")
    BY <1>11, OwnerIn
  <2>3. /\ \A q \in Requests \ {r} : local'[q] = local[q]
        /\ local'[r].want = local[r].want
        /\ \/ local'[r].id = local[r].id
           \/ \E c \in Resolved(param) : local'[r].id = Owner(c)
    <3>1. CASE local' = [local EXCEPT ![r].path = param]
      BY <3>1, LocalStays
    <3>2. ASSUME NEW c \in Resolved(param),
                 local' = [local EXCEPT ![r].id = Owner(c), ![r].path = param]
          PROVE  /\ \A q \in Requests \ {r} : local'[q] = local[q]
                 /\ local'[r].want = local[r].want
                 /\ local'[r].id = Owner(c)
      BY <3>2, LocalStays
    <3> QED BY <2>2, <3>1, <3>2
  <2>4. \/ local'[r].id = local[r].id
        \/ local'[r].id = None
        \/ local'[r].id \in Ids /\ Exists(local'[r].id)
    BY <2>3 DEF Resolved, Owner
  <2>5. CASE Goto(r, place)
    <3>1. ~ Reading(r)' /\ pc'[r] = place
      BY <1>3, <2>5 DEF Reading
    <3> QED BY <1>3, <1>11, <2>1, <2>3, <2>4, <2>5, <3>1 DEF Acts
  <2>6. CASE Answer(r, "notfound")
    BY <1>2, <2>1, <2>3, <2>4, <2>6 DEF Acts
  <2> QED BY <2>2, <2>5, <2>6
<1>12. CASE FindForItem(r) \/ FindForLog(r) \/ FindForPatchItem(r)
  BY <1>11, <1>12 DEF FindForItem, FindForLog, FindForPatchItem
<1>13. CASE LoadSources(r)
  <2>1. /\ \A q \in Requests \ {r} : local'[q] = local[q]
        /\ local'[r].id = local[r].id /\ local'[r].want = local[r].want
    BY <1>13, LocalStays DEF LoadSources
  <2>2. /\ Reading(r) /\ UNCHANGED plain /\ Goto(r, "save")
        /\ pc[r] = "sources"
    BY <1>13 DEF LoadSources, Reading
  <2>3. ~ Owning(r)'
    BY <1>3, <2>2 DEF Owning
  <2> QED BY <1>3, <1>13, <2>1, <2>2, <2>3 DEF Acts
<1>14. CASE Save(r)
  <2>1. /\ \A q \in Requests \ {r} : local'[q] = local[q]
        /\ local'[r].id = local[r].id
    <3>1. PICK want : local' = [local EXCEPT ![r].want = want]
      BY <1>14 DEF Save
    <3> QED BY <3>1, LocalStays
  <2>2. pc[r] = "save" /\ (plain' => plain) /\ Answer(r, "ok")
    BY <1>14 DEF Save
  <2> QED BY <1>2, <1>14, <2>1, <2>2 DEF Acts
<1>15. CASE CountPublishers(r)
  <2>1. /\ \A q \in Requests \ {r} : local'[q] = local[q]
        /\ local'[r].id = local[r].id /\ local'[r].want = local[r].want
    BY <1>15, LocalStays DEF CountPublishers
  <2>2. /\ Reading(r) /\ UNCHANGED plain /\ Goto(r, "software")
        /\ pc[r] = "publishers"
    BY <1>15 DEF CountPublishers, Reading
  <2>3. ~ Owning(r)'
    BY <1>3, <2>2 DEF Owning
  <2> QED BY <1>3, <1>15, <2>1, <2>2, <2>3 DEF Acts
<1>16. CASE CountSoftware(r)
  <2>1. /\ Reading(r) /\ UNCHANGED plain /\ pc[r] = "software"
        /\ local' = local
        /\ Goto(r, "row") \/ Answer(r, "conflict")
    BY <1>16 DEF CountSoftware, Reading
  <2>2. CASE Answer(r, "conflict")
    BY <1>5, <2>1, <2>2
  <2>3. CASE Goto(r, "row")
    <3>1. ~ Owning(r)'
      BY <1>3, <2>3 DEF Owning
    <3> QED BY <1>3, <1>4, <1>16, <2>1, <2>3, <3>1 DEF Acts
  <2> QED BY <2>1, <2>2, <2>3
<1>17. CASE DeleteRow(r)
  BY <1>5, <1>17 DEF DeleteRow
<1>18. CASE CreateItem(r) \/ CreateLog(r)
  BY <1>5, <1>18 DEF CreateItem, CreateLog, Insert
<1>19. CASE SaveItem(r) \/ MergeAnalysis(r)
  BY <1>5, <1>19 DEF SaveItem, MergeAnalysis
<1>20. CASE LoadItem(r)
  <2>1. /\ UNCHANGED plain /\ pc[r] = "item"
        /\ \/ Answer(r, "notfound") /\ local' = local
           \/ /\ Goto(r, "saveItem")
              /\ \E x : local' = [local EXCEPT ![r].item = x]
    BY <1>20 DEF LoadItem
  <2>2. CASE Answer(r, "notfound") /\ local' = local
    BY <1>5, <2>1, <2>2
  <2>3. ASSUME Goto(r, "saveItem"),
               NEW x, local' = [local EXCEPT ![r].item = x]
        PROVE  Acts(r)
    <3>1. /\ \A q \in Requests \ {r} : local'[q] = local[q]
          /\ local'[r].id = local[r].id /\ local'[r].want = local[r].want
      BY <2>3, LocalStays
    <3>2. ~ Reading(r)'
      BY <1>3, <2>3 DEF Reading
    <3> QED BY <1>3, <1>20, <2>1, <2>3, <3>1, <3>2 DEF Acts
  <2> QED BY <2>1, <2>2, <2>3
<1> QED BY <1>6, <1>7, <1>8, <1>10, <1>12, <1>13, <1>14, <1>15, <1>16, <1>17,
           <1>18, <1>19, <1>20 DEF Moves

\* A step is one of some request, or nothing happens.
LEMMA StepMoves ==
    ASSUME [Next]_vars
    PROVE  UNCHANGED vars \/ (UNCHANGED kinds /\ \E r \in Requests : Moves(r))
BY DEF Next, Moves

\* In every step at most one request acts.
LEMMA StepActs ==
    ASSUME TypeOK, [Next]_vars
    PROVE  UNCHANGED vars \/ \E r \in Requests : Acts(r)
BY StepMoves, MoveActs

\* Four handlers write catalogs, sources and trail.
LEMMA StepWrites ==
    ASSUME [Next]_vars
    PROVE  \/ UNCHANGED <<catalogs, sources, trail>>
           \/ \E r \in Requests : \/ PostCatalog(r) \/ Save(r)
                                 \/ DeleteRow(r) \/ MergeAnalysis(r)
BY FoundIn, OwnerIn
DEF Next, vars, Fail, FindForPatch, LoadSources, FindForDelete,
    CountPublishers, CountSoftware, FindForItem, CreateItem, FindForLog,
    CreateLog, Insert, FindForPatchItem, LoadItem, SaveItem, RemoveItem,
    FindForAnalysis

-----------------------------------------------------------------------------
(* What the writes write, and types. *)

\* The marks None, Unborn and Gone are none of a catalog's values, nor of
\* each other.
LEMMA Distinct ==
    ASSUME CatalogsAssumption
    PROVE  /\ None # Unborn /\ None # Gone /\ Unborn # Gone
           /\ None \notin Alts \cup Ids \cup {Root}
           /\ Unborn \notin Alts \cup Ids \cup {Root, None}
           /\ Gone \notin Alts \cup Ids \cup {Root, None}
<1>1. ASSUME NEW a, NEW b PROVE Cardinality({a, b}) # 3
  <2>1. Cardinality({a}) = 1 /\ IsFiniteSet({a})
    BY FS_Singleton
  <2>2. {a, b} = {a} \cup {b}
    OBVIOUS
  <2>3. \/ Cardinality({a, b}) = Cardinality({a})
        \/ Cardinality({a, b}) = Cardinality({a}) + 1
    BY <2>1, <2>2, FS_AddElement
  <2> QED BY <2>1, <2>3
<1>2. /\ None = Unborn => {None, Unborn, Gone} = {None, Gone}
      /\ None = Gone => {None, Unborn, Gone} = {None, Unborn}
      /\ Unborn = Gone => {None, Unborn, Gone} = {None, Unborn}
  OBVIOUS
<1>3. None # Unborn /\ None # Gone /\ Unborn # Gone
  BY <1>1, <1>2 DEF CatalogsAssumption
<1> QED BY <1>3 DEF CatalogsAssumption

\* A catalog that exists has its alternative id, if any, as its value.
LEMMA ValueOf ==
    ASSUME TypeOK, NEW c \in Ids
    PROVE  Exists(c) => catalogs[c] \in Alts \cup {Root, None}
BY DEF TypeOK, Exists

\* What PostCatalog writes.
LEMMA Posted ==
    ASSUME NEW r \in Requests, PostCatalog(r)
    PROVE  \E c \in Ids, alt \in Alts \cup {Root, None},
              given \in SUBSET (Urls \X Copies) :
              /\ catalogs[c] = Unborn
              /\ alt = Root <=> given = {}
              /\ catalogs' = [catalogs EXCEPT ![c] = alt]
              /\ sources' = sources \cup
                    {[by |-> r, url |-> g[1], copy |-> g[2], owner |-> c] :
                        g \in given}
              /\ Record("create", c)
              /\ plain' => plain /\ \A g, h \in given : g[1] = h[1] => g = h
BY DEF PostCatalog

\* The rows of a list of sources are rows, and of the catalog.
LEMMA GivenRows ==
    ASSUME NEW r \in Requests, NEW c \in Ids,
           NEW given \in SUBSET (Urls \X Copies)
    PROVE  /\ {[by |-> r, url |-> g[1], copy |-> g[2], owner |-> c] :
                  g \in given} \subseteq Rows
           /\ \A x \in {[by |-> r, url |-> g[1], copy |-> g[2],
                         owner |-> c] : g \in given} : x.owner = c
<1>1. \A g \in given : g[1] \in Urls /\ g[2] \in Copies
  OBVIOUS
<1>2. \A u \in Urls, n \in Copies :
         [by |-> r, url |-> u, copy |-> n, owner |-> c] \in Rows
  BY DEF Rows
<1> QED BY <1>1, <1>2

\* What the transaction of a PATCH writes.
LEMMA Written ==
    ASSUME CatalogsAssumption, TypeOK, Answered,
           NEW r \in Requests, Save(r)
    PROVE  LET c == local[r].id IN
           /\ c \in Ids
           /\ Record("update", c)
           /\ \E alt \in Alts \cup {Root, None}, want \in SUBSET Urls,
                 map \in Maps(local[r].rows) :
              \E changed \in SUBSET Kept(map, want) :
                 /\ Allowed(r, alt, want)
                 /\ Referenced(c, Added(r, map, want) \cup changed)
                 /\ catalogs' = IF Exists(c)
                                THEN [catalogs EXCEPT ![c] = alt]
                                ELSE catalogs
                 /\ sources' = (sources \ (map \ Kept(map, want)))
                                  \cup (Added(r, map, want) \cup changed)
                 /\ local' = [local EXCEPT ![r].want = want]
                 /\ plain' => plain /\ (alt = Root => local[r].alt = Root)
                 /\ Added(r, map, want) \cup changed \subseteq Rows
                 /\ \A x \in Added(r, map, want) \cup changed : x.owner = c
<1> DEFINE c == local[r].id
<1>1. c \in Ids /\ \A x \in local[r].rows : x.owner = c
  BY DEF Save, Answered, Reading
<1>2. PICK alt \in Patched \cup {None, local[r].alt}, want \in SUBSET Urls :
      \E map \in Maps(local[r].rows) :
      \E changed \in SUBSET Kept(map, want) :
         LET put == Added(r, map, want) \cup changed IN
         /\ Allowed(r, alt, want)
         /\ Referenced(c, put)
         /\ sources' = (sources \ (map \ Kept(map, want))) \cup put
         /\ catalogs' = IF Exists(c) THEN [catalogs EXCEPT ![c] = alt]
                        ELSE catalogs
         /\ Record("update", c)
         /\ local' = [local EXCEPT ![r].want = want]
         /\ plain' = (plain /\ (alt = Root => local[r].alt = Root))
  BY DEF Save
<1>3. PICK map \in Maps(local[r].rows) :
      \E changed \in SUBSET Kept(map, want) :
         LET put == Added(r, map, want) \cup changed IN
         /\ Allowed(r, alt, want)
         /\ Referenced(c, put)
         /\ sources' = (sources \ (map \ Kept(map, want))) \cup put
         /\ catalogs' = IF Exists(c) THEN [catalogs EXCEPT ![c] = alt]
                        ELSE catalogs
         /\ Record("update", c)
         /\ local' = [local EXCEPT ![r].want = want]
         /\ plain' = (plain /\ (alt = Root => local[r].alt = Root))
  BY <1>2
<1>4. PICK changed \in SUBSET Kept(map, want) :
         LET put == Added(r, map, want) \cup changed IN
         /\ Allowed(r, alt, want)
         /\ Referenced(c, put)
         /\ sources' = (sources \ (map \ Kept(map, want))) \cup put
         /\ catalogs' = IF Exists(c) THEN [catalogs EXCEPT ![c] = alt]
                        ELSE catalogs
         /\ Record("update", c)
         /\ local' = [local EXCEPT ![r].want = want]
         /\ plain' = (plain /\ (alt = Root => local[r].alt = Root))
  BY <1>3
<1> HIDE DEF c
<1>5. alt \in Alts \cup {Root, None}
  <2>1. local[r].alt \in Alts \cup {Root, None}
    BY DEF TypeOK, Locals
  <2> QED BY <2>1 DEF CatalogsAssumption
<1>6. changed \subseteq local[r].rows /\ local[r].rows \subseteq Rows
  <2>1. local[r].rows \subseteq Rows
    BY DEF TypeOK, Locals
  <2>2. map \subseteq local[r].rows
    BY DEF Maps
  <2> QED BY <2>1, <2>2 DEF Kept
<1>7. /\ Added(r, map, want) \subseteq Rows
      /\ \A x \in Added(r, map, want) : x.owner = c
  <2>1. \A u \in Urls : [by |-> r, url |-> u, copy |-> 1, owner |-> c] \in Rows
    BY <1>1 DEF Rows, CatalogsAssumption
  <2>2. Added(r, map, want) =
           {[by |-> r, url |-> u, copy |-> 1, owner |-> c] :
               u \in want \ {x.url : x \in map}}
    BY DEF Added, c
  <2> QED BY <2>1, <2>2
<1>8. /\ Added(r, map, want) \cup changed \subseteq Rows
      /\ \A x \in Added(r, map, want) \cup changed : x.owner = c
  BY <1>1, <1>6, <1>7
<1>9. /\ Allowed(r, alt, want)
      /\ Referenced(c, Added(r, map, want) \cup changed)
      /\ catalogs' = IF Exists(c) THEN [catalogs EXCEPT ![c] = alt]
                     ELSE catalogs
      /\ sources' = (sources \ (map \ Kept(map, want)))
                       \cup (Added(r, map, want) \cup changed)
      /\ local' = [local EXCEPT ![r].want = want]
      /\ plain' => plain /\ (alt = Root => local[r].alt = Root)
  BY <1>4
<1>10. Record("update", c)
  BY <1>4
<1>11. \E rest \in SUBSET Kept(map, want) :
          /\ Allowed(r, alt, want)
          /\ Referenced(c, Added(r, map, want) \cup rest)
          /\ catalogs' = IF Exists(c) THEN [catalogs EXCEPT ![c] = alt]
                         ELSE catalogs
          /\ sources' = (sources \ (map \ Kept(map, want)))
                           \cup (Added(r, map, want) \cup rest)
          /\ local' = [local EXCEPT ![r].want = want]
          /\ plain' => plain /\ (alt = Root => local[r].alt = Root)
          /\ Added(r, map, want) \cup rest \subseteq Rows
          /\ \A x \in Added(r, map, want) \cup rest : x.owner = c
  BY <1>8, <1>9, Zenon
<1>12. \E a \in Alts \cup {Root, None}, w \in SUBSET Urls,
          m \in Maps(local[r].rows) :
       \E rest \in SUBSET Kept(m, w) :
          /\ Allowed(r, a, w)
          /\ Referenced(c, Added(r, m, w) \cup rest)
          /\ catalogs' = IF Exists(c) THEN [catalogs EXCEPT ![c] = a]
                         ELSE catalogs
          /\ sources' = (sources \ (m \ Kept(m, w)))
                           \cup (Added(r, m, w) \cup rest)
          /\ local' = [local EXCEPT ![r].want = w]
          /\ plain' => plain /\ (a = Root => local[r].alt = Root)
          /\ Added(r, m, w) \cup rest \subseteq Rows
          /\ \A x \in Added(r, m, w) \cup rest : x.owner = c
  <2>1. alt \in Alts \cup {Root, None}
    BY <1>5
  <2> WITNESS alt \in Alts \cup {Root, None}, want \in SUBSET Urls,
              map \in Maps(local[r].rows)
  <2> QED BY <1>11
<1> USE DEF c
<1> QED BY <1>1, <1>10, <1>12

\* What syncSources puts is of its own catalog, which the foreign key checks.
LEMMA WrittenRows ==
    ASSUME CatalogsAssumption, TypeOK, Answered,
           NEW r \in Requests, Save(r), NEW c \in Ids, c = local[r].id
    PROVE  \E cut, put : /\ sources' = (sources \ cut) \cup put
                         /\ Referenced(c, put)
                         /\ \A x \in put : x.owner = c
<1>1. PICK alt \in Alts \cup {Root, None}, want \in SUBSET Urls,
           map \in Maps(local[r].rows) :
      \E changed \in SUBSET Kept(map, want) :
         /\ Allowed(r, alt, want)
         /\ Referenced(local[r].id, Added(r, map, want) \cup changed)
         /\ catalogs' = IF Exists(local[r].id)
                        THEN [catalogs EXCEPT ![local[r].id] = alt]
                        ELSE catalogs
         /\ sources' = (sources \ (map \ Kept(map, want)))
                          \cup (Added(r, map, want) \cup changed)
         /\ local' = [local EXCEPT ![r].want = want]
         /\ plain' => plain /\ (alt = Root => local[r].alt = Root)
         /\ Added(r, map, want) \cup changed \subseteq Rows
         /\ \A x \in Added(r, map, want) \cup changed :
               x.owner = local[r].id
  BY Written
<1>2. PICK changed \in SUBSET Kept(map, want) :
         /\ Allowed(r, alt, want)
         /\ Referenced(local[r].id, Added(r, map, want) \cup changed)
         /\ catalogs' = IF Exists(local[r].id)
                        THEN [catalogs EXCEPT ![local[r].id] = alt]
                        ELSE catalogs
         /\ sources' = (sources \ (map \ Kept(map, want)))
                          \cup (Added(r, map, want) \cup changed)
         /\ local' = [local EXCEPT ![r].want = want]
         /\ plain' => plain /\ (alt = Root => local[r].alt = Root)
         /\ Added(r, map, want) \cup changed \subseteq Rows
         /\ \A x \in Added(r, map, want) \cup changed :
               x.owner = local[r].id
  BY <1>1
<1> DEFINE cut == map \ Kept(map, want)
           put == Added(r, map, want) \cup changed
<1>3. /\ sources' = (sources \ cut) \cup put
      /\ Referenced(c, put)
      /\ \A x \in put : x.owner = c
  BY <1>2
<1> HIDE DEF cut, put
<1> QED BY <1>3

\* A well-typed change of one request's local keeps locals well typed.
LEMMA LocalsTyped ==
    ASSUME TypeOK, NEW r \in Requests
    PROVE  /\ \A x \in SUBSET Rows :
                 [local EXCEPT ![r].rows = x] \in [Requests -> Locals]
           /\ \A x \in BOOLEAN :
                 [local EXCEPT ![r].busy = x] \in [Requests -> Locals]
           /\ \A x \in SUBSET Urls :
                 [local EXCEPT ![r].want = x] \in [Requests -> Locals]
           /\ \A x \in Ids \cup {Root} :
                 [local EXCEPT ![r].path = x] \in [Requests -> Locals]
           /\ \A x \in Items :
                 [local EXCEPT ![r].item = x] \in [Requests -> Locals]
           /\ \A x \in Ids, y \in Alts \cup {Root, None} :
                 [local EXCEPT ![r].id = x, ![r].alt = y]
                    \in [Requests -> Locals]
           /\ \A x \in Ids \cup {None}, y \in Ids \cup {Root} :
                 [local EXCEPT ![r].id = x, ![r].path = y]
                    \in [Requests -> Locals]
<1>1. local[r] \in Locals
  BY DEF TypeOK
<1>2. /\ \A x \in SUBSET Rows : [local[r] EXCEPT !.rows = x] \in Locals
      /\ \A x \in BOOLEAN : [local[r] EXCEPT !.busy = x] \in Locals
      /\ \A x \in SUBSET Urls : [local[r] EXCEPT !.want = x] \in Locals
      /\ \A x \in Ids \cup {Root} : [local[r] EXCEPT !.path = x] \in Locals
      /\ \A x \in Items : [local[r] EXCEPT !.item = x] \in Locals
      /\ \A x \in Ids, y \in Alts \cup {Root, None} :
            [local[r] EXCEPT !.id = x, !.alt = y] \in Locals
      /\ \A x \in Ids \cup {None}, y \in Ids \cup {Root} :
            [local[r] EXCEPT !.id = x, !.path = y] \in Locals
  BY <1>1 DEF Locals
<1>3. \A l \in Locals : [local EXCEPT ![r] = l] \in [Requests -> Locals]
  BY DEF TypeOK
<1>4. \A x, y :
         /\ [local EXCEPT ![r].id = x, ![r].alt = y] =
               [local EXCEPT ![r] = [local[r] EXCEPT !.id = x, !.alt = y]]
         /\ [local EXCEPT ![r].id = x, ![r].path = y] =
               [local EXCEPT ![r] = [local[r] EXCEPT !.id = x, !.path = y]]
  BY <1>1 DEF TypeOK, Locals
<1>5. /\ \A x \in Ids, y \in Alts \cup {Root, None} :
            [local EXCEPT ![r].id = x, ![r].alt = y] \in [Requests -> Locals]
      /\ \A x \in Ids \cup {None}, y \in Ids \cup {Root} :
            [local EXCEPT ![r].id = x, ![r].path = y] \in [Requests -> Locals]
  <2>1. ASSUME NEW x \in Ids, NEW y \in Alts \cup {Root, None}
        PROVE  [local EXCEPT ![r].id = x, ![r].alt = y]
                  \in [Requests -> Locals]
    <3>1. [local[r] EXCEPT !.id = x, !.alt = y] \in Locals
      BY <1>2, Zenon
    <3>2. [local EXCEPT ![r] = [local[r] EXCEPT !.id = x, !.alt = y]]
             \in [Requests -> Locals]
      BY <1>3, <3>1
    <3> QED BY <1>4, <3>2
  <2>2. ASSUME NEW x \in Ids \cup {None}, NEW y \in Ids \cup {Root}
        PROVE  [local EXCEPT ![r].id = x, ![r].path = y]
                  \in [Requests -> Locals]
    <3>1. [local[r] EXCEPT !.id = x, !.path = y] \in Locals
      BY <1>2, Zenon
    <3>2. [local EXCEPT ![r] = [local[r] EXCEPT !.id = x, !.path = y]]
             \in [Requests -> Locals]
      BY <1>3, <3>1
    <3> QED BY <1>4, <3>2
  <2> QED BY <2>1, <2>2
<1>6. /\ \A x \in SUBSET Rows :
            [local EXCEPT ![r].rows = x] \in [Requests -> Locals]
      /\ \A x \in BOOLEAN :
            [local EXCEPT ![r].busy = x] \in [Requests -> Locals]
      /\ \A x \in SUBSET Urls :
            [local EXCEPT ![r].want = x] \in [Requests -> Locals]
      /\ \A x \in Ids \cup {Root} :
            [local EXCEPT ![r].path = x] \in [Requests -> Locals]
      /\ \A x \in Items :
            [local EXCEPT ![r].item = x] \in [Requests -> Locals]
  BY <1>2, <1>3
<1> QED BY <1>5, <1>6

\* Steps keep pc, reply, plain and kinds well typed.
LEMMA TypeMoves ==
    ASSUME TypeOK, [Next]_vars
    PROVE  /\ pc' \in [Requests -> Places]
           /\ reply' \in [Requests ->
                            {None, "ok", "notfound", "conflict", "error"}]
           /\ kinds' \in Workloads
           /\ plain' \in BOOLEAN
<1> SUFFICES ASSUME NEW r \in Requests, Moves(r), UNCHANGED kinds
             PROVE  /\ pc' \in [Requests -> Places]
                    /\ reply' \in [Requests ->
                          {None, "ok", "notfound", "conflict", "error"}]
                    /\ plain' \in BOOLEAN
  BY StepMoves DEF TypeOK, vars
<1>1. \/ \E status \in {"ok", "notfound", "conflict", "error"} :
            Answer(r, status)
      \/ \E place \in Places : Goto(r, place)
  <2> USE DEF Places
  <2>1. CASE FindForPatch(r) \/ FindForDelete(r) \/ FindForAnalysis(r)
    BY <2>1, FoundIn DEF FindForPatch, FindForDelete, FindForAnalysis
  <2>2. CASE FindForItem(r) \/ FindForLog(r) \/ FindForPatchItem(r)
    BY <2>2, OwnerIn DEF FindForItem, FindForLog, FindForPatchItem
  <2>3. CASE LoadSources(r) \/ CountPublishers(r)
    BY <2>3 DEF LoadSources, CountPublishers
  <2>4. CASE CountSoftware(r) \/ LoadItem(r)
    BY <2>4 DEF CountSoftware, LoadItem
  <2>5. CASE DeleteRow(r) \/ MergeAnalysis(r)
    BY <2>5 DEF DeleteRow, MergeAnalysis
  <2>6. CASE Fail(r) \/ PostCatalog(r) \/ Save(r)
    BY <2>6 DEF Fail, PostCatalog, Save
  <2>7. CASE CreateItem(r) \/ CreateLog(r) \/ SaveItem(r) \/ RemoveItem(r)
    BY <2>7 DEF CreateItem, CreateLog, Insert, SaveItem, RemoveItem
  <2> QED BY <2>1, <2>2, <2>3, <2>4, <2>5, <2>6, <2>7 DEF Moves
<1>2. \/ plain' \in BOOLEAN
      \/ UNCHANGED plain
      \/ \E A \in BOOLEAN : plain' = (plain /\ A)
  <2>1. CASE \/ FindForPatch(r) \/ FindForDelete(r) \/ FindForAnalysis(r)
             \/ FindForItem(r) \/ FindForLog(r) \/ FindForPatchItem(r)
    BY <2>1, FoundIn, OwnerIn
       DEF FindForPatch, FindForDelete, FindForAnalysis, FindForItem,
           FindForLog, FindForPatchItem, Alone
  <2>2. CASE Fail(r) \/ PostCatalog(r) \/ Save(r) \/ RemoveItem(r)
    <3>1. plain \in BOOLEAN
      BY DEF TypeOK
    <3>2. CASE Fail(r)
      BY <3>1, <3>2 DEF Fail, Alone
    <3>3. CASE PostCatalog(r)
      <4>1. PICK given : plain' = (plain /\ Alone /\ \A g, h \in given :
                                                g[1] = h[1] => g = h)
        BY <3>3 DEF PostCatalog
      <4> QED BY <4>1 DEF Alone
    <3>4. CASE Save(r)
      <4>1. PICK alt : plain' = (plain /\ (alt = Root => local[r].alt = Root))
        BY <3>4 DEF Save
      <4> QED BY <4>1
    <3>5. CASE RemoveItem(r)
      BY <3>5 DEF RemoveItem, Alone
    <3> QED BY <2>2, <3>2, <3>3, <3>4, <3>5
  <2>3. CASE \/ LoadSources(r) \/ CountPublishers(r) \/ CountSoftware(r)
             \/ DeleteRow(r) \/ CreateItem(r) \/ CreateLog(r)
             \/ LoadItem(r) \/ SaveItem(r) \/ MergeAnalysis(r)
    BY <2>3 DEF LoadSources, CountPublishers, CountSoftware, DeleteRow,
                CreateItem, CreateLog, Insert, LoadItem, SaveItem,
                MergeAnalysis
  <2> QED BY <2>1, <2>2, <2>3 DEF Moves
<1>3. plain' \in BOOLEAN
  BY <1>2 DEF TypeOK
<1>4. "done" \in Places
  BY DEF Places
<1> QED BY <1>1, <1>3, <1>4 DEF TypeOK, Answer, Goto

\* Steps keep what handlers have read well typed.
LEMMA TypeLocal ==
    ASSUME CatalogsAssumption, TypeOK, Answered, [Next]_vars
    PROVE  local' \in [Requests -> Locals]
<1>1. CASE local' = local
  BY <1>1 DEF TypeOK
<1>2. ASSUME NEW r \in Requests, NEW c \in Ids, Exists(c),
             local' = [local EXCEPT ![r].id = c, ![r].alt = catalogs[c]]
      PROVE  local' \in [Requests -> Locals]
  <2>1. \A x \in Ids, y \in Alts \cup {Root, None} :
           [local EXCEPT ![r].id = x, ![r].alt = y] \in [Requests -> Locals]
    BY LocalsTyped, Zenon
  <2> QED BY <1>2, <2>1, ValueOf
<1>3. ASSUME NEW r \in Requests, NEW param \in Params,
             NEW c \in Resolved(param),
             local' = [local EXCEPT ![r].id = Owner(c), ![r].path = param]
      PROVE  local' \in [Requests -> Locals]
  <2>1. \A x \in Ids \cup {None}, y \in Ids \cup {Root} :
           [local EXCEPT ![r].id = x, ![r].path = y] \in [Requests -> Locals]
    BY LocalsTyped, Zenon
  <2>2. Owner(c) \in Ids \cup {None} /\ param \in Ids \cup {Root}
    BY DEF Owner, Resolved, Params
  <2> QED BY <1>3, <2>1, <2>2
<1>4. ASSUME NEW r \in Requests, NEW param \in Params,
             local' = [local EXCEPT ![r].path = param]
      PROVE  local' \in [Requests -> Locals]
  BY <1>4, LocalsTyped DEF Params
<1>5. ASSUME NEW r \in Requests, LoadSources(r)
      PROVE  local' \in [Requests -> Locals]
  <2>1. Of(local[r].id) \in SUBSET Rows
    BY DEF Of, TypeOK
  <2>2. local' = [local EXCEPT ![r].rows = Of(local[r].id)]
    BY <1>5 DEF LoadSources
  <2> QED BY <2>1, <2>2, LocalsTyped
<1>6. ASSUME NEW r \in Requests, Save(r)
      PROVE  local' \in [Requests -> Locals]
  <2>1. PICK want \in SUBSET Urls : local' = [local EXCEPT ![r].want = want]
    BY <1>6, Written
  <2> QED BY <2>1, LocalsTyped
<1>7. ASSUME NEW r \in Requests, CountPublishers(r)
      PROVE  local' \in [Requests -> Locals]
  <2>1. PICK busy \in BOOLEAN : local' = [local EXCEPT ![r].busy = busy]
    BY <1>7 DEF CountPublishers
  <2> QED BY <2>1, LocalsTyped
<1>8. ASSUME NEW r \in Requests, NEW x \in items,
             local' = [local EXCEPT ![r].item = x]
      PROVE  local' \in [Requests -> Locals]
  <2>1. x \in Items
    BY DEF TypeOK
  <2> QED BY <1>8, <2>1, LocalsTyped
<1>9. \/ local' = local
      \/ \E r \in Requests :
            \/ \E c \in Ids : /\ Exists(c)
                              /\ local' = [local EXCEPT ![r].id = c,
                                                   ![r].alt = catalogs[c]]
            \/ \E param \in Params :
                  \/ \E c \in Resolved(param) :
                        local' = [local EXCEPT ![r].id = Owner(c),
                                               ![r].path = param]
                  \/ local' = [local EXCEPT ![r].path = param]
            \/ LoadSources(r) \/ Save(r) \/ CountPublishers(r)
            \/ \E x \in items : local' = [local EXCEPT ![r].item = x]
  <2>1. CASE UNCHANGED vars
    BY <2>1 DEF vars
  <2>2. ASSUME NEW r \in Requests, Moves(r)
        PROVE  \/ local' = local
               \/ \E c \in Ids : /\ Exists(c)
                                 /\ local' = [local EXCEPT ![r].id = c,
                                                      ![r].alt = catalogs[c]]
               \/ \E param \in Params :
                     \/ \E c \in Resolved(param) :
                           local' = [local EXCEPT ![r].id = Owner(c),
                                                  ![r].path = param]
                     \/ local' = [local EXCEPT ![r].path = param]
               \/ LoadSources(r) \/ Save(r) \/ CountPublishers(r)
               \/ \E x \in items : local' = [local EXCEPT ![r].item = x]
    <3>1. CASE FindForPatch(r) \/ FindForDelete(r) \/ FindForAnalysis(r)
      BY <3>1, FoundIn DEF FindForPatch, FindForDelete, FindForAnalysis
    <3>2. CASE FindForItem(r) \/ FindForLog(r) \/ FindForPatchItem(r)
      BY <3>2, OwnerIn DEF FindForItem, FindForLog, FindForPatchItem
    <3>3. CASE LoadItem(r)
      BY <3>3 DEF LoadItem
    <3> QED BY <2>2, <3>1, <3>2, <3>3
            DEF Moves, Fail, PostCatalog, CountSoftware, DeleteRow,
                CreateItem, CreateLog, Insert, SaveItem, RemoveItem,
                MergeAnalysis
  <2> QED BY <2>1, <2>2, StepMoves
<1> QED BY <1>1, <1>2, <1>3, <1>4, <1>5, <1>6, <1>7, <1>8, <1>9

\* Recording a well-typed event keeps the trail well typed.
LEMMA TrailTyped ==
    ASSUME TypeOK, NEW type \in {"create", "update", "delete"}, NEW c \in Ids,
           Record(type, c)
    PROVE  trail' \in Seq([type : {"create", "update", "delete"}, id : Ids])
<1>1. [type |-> type, id |-> c]
         \in [type : {"create", "update", "delete"}, id : Ids]
  OBVIOUS
<1> QED BY <1>1 DEF TypeOK, Record

\* Steps keep the tables well typed.
LEMMA TypeStore ==
    ASSUME CatalogsAssumption, TypeOK, Answered, [Next]_vars
    PROVE  /\ catalogs' \in [Ids -> Alts \cup {Root, None, Unborn, Gone}]
           /\ sources' \in SUBSET Rows
           /\ trail' \in Seq([type : {"create", "update", "delete"}, id : Ids])
<1> SUFFICES ASSUME NEW r \in Requests,
                    \/ PostCatalog(r) \/ Save(r)
                    \/ DeleteRow(r) \/ MergeAnalysis(r)
             PROVE  /\ catalogs' \in
                          [Ids -> Alts \cup {Root, None, Unborn, Gone}]
                    /\ sources' \in SUBSET Rows
                    /\ trail' \in Seq([type : {"create", "update", "delete"},
                                       id : Ids])
  BY StepWrites DEF TypeOK
<1>1. CASE PostCatalog(r)
  <2>1. PICK c \in Ids, alt \in Alts \cup {Root, None},
             given \in SUBSET (Urls \X Copies) :
           /\ catalogs' = [catalogs EXCEPT ![c] = alt]
           /\ sources' = sources \cup
                 {[by |-> r, url |-> g[1], copy |-> g[2], owner |-> c] :
                     g \in given}
           /\ Record("create", c)
    BY <1>1, Posted
  <2>2. trail' \in Seq([type : {"create", "update", "delete"}, id : Ids])
    BY <2>1, TrailTyped
  <2>3. sources' \in SUBSET Rows
    BY <2>1, GivenRows DEF TypeOK
  <2> QED BY <2>1, <2>2, <2>3 DEF TypeOK
<1>2. CASE Save(r)
  <2>1. PICK c \in Ids : c = local[r].id
    BY <1>2, Written
  <2>2. Record("update", c)
    BY <1>2, <2>1, Written
  <2>3. trail' \in Seq([type : {"create", "update", "delete"}, id : Ids])
    BY <2>2, TrailTyped
  <2>4. /\ \E alt \in Alts \cup {Root, None} :
              catalogs' = IF Exists(c) THEN [catalogs EXCEPT ![c] = alt]
                          ELSE catalogs
        /\ \E A, B : B \subseteq Rows /\ sources' = (sources \ A) \cup B
    BY <1>2, <2>1, Written
  <2> QED BY <2>3, <2>4 DEF TypeOK
<1>3. CASE DeleteRow(r) \/ MergeAnalysis(r)
  <2>1. local[r].id \in Ids
    BY <1>3 DEF DeleteRow, MergeAnalysis, Answered, Reading
  <2>2. \/ UNCHANGED trail
        \/ \E type \in {"create", "update", "delete"} :
              Record(type, local[r].id)
    BY <1>3 DEF DeleteRow, MergeAnalysis
  <2>3. trail' \in Seq([type : {"create", "update", "delete"}, id : Ids])
    BY <2>1, <2>2, TrailTyped DEF TypeOK
  <2> QED BY <1>3, <2>1, <2>3 DEF TypeOK, DeleteRow, MergeAnalysis
<1> QED BY <1>1, <1>2, <1>3

\* A resource or log is of the catalog that its handler resolved.
LEMMA ItemsGrow ==
    ASSUME [Next]_vars
    PROVE  \/ UNCHANGED items
           \/ /\ \/ items' \subseteq items
                 \/ \E r \in Requests, kind \in {"publisher", "software",
                                                 "log"} :
                       /\ CreateItem(r) \/ CreateLog(r)
                       /\ items' = items \cup
                             {[by |-> r, kind |-> kind,
                               owner |-> local[r].id]}
              /\ UNCHANGED <<catalogs, sources, trail>>
<1> SUFFICES ASSUME NEW r \in Requests,
                    CreateItem(r) \/ CreateLog(r) \/ RemoveItem(r)
             PROVE  /\ \/ items' \subseteq items
                       \/ /\ CreateItem(r) \/ CreateLog(r)
                          /\ \E kind \in {"publisher", "software", "log"} :
                                items' = items \cup
                                   {[by |-> r, kind |-> kind,
                                     owner |-> local[r].id]}
                    /\ UNCHANGED <<catalogs, sources, trail>>
  BY FoundIn, OwnerIn
  DEF Next, vars, Fail, PostCatalog, FindForPatch, LoadSources, Save,
      FindForDelete, CountPublishers, CountSoftware, DeleteRow, FindForItem,
      FindForLog, FindForPatchItem, LoadItem, SaveItem, FindForAnalysis,
      MergeAnalysis
<1> QED BY DEF CreateItem, CreateLog, Insert, RemoveItem

\* Steps keep the types of all state.
LEMMA TypeStep ==
    ASSUME CatalogsAssumption, TypeOK, Answered, [Next]_vars PROVE TypeOK'
<1>1. items' \in SUBSET Items
  <2>1. \A r \in Requests : local[r].id \in Ids \cup {None}
    BY DEF TypeOK, Locals
  <2>2. \A r \in Requests, kind \in {"publisher", "software", "log"} :
           [by |-> r, kind |-> kind, owner |-> local[r].id] \in Items
    BY <2>1 DEF Items
  <2>3. items' \subseteq items \/ \E x \in Items : items' = items \cup {x}
    BY <2>2, ItemsGrow
  <2> QED BY <2>3 DEF TypeOK
<1> QED BY <1>1, TypeMoves, TypeLocal, TypeStore DEF TypeOK

-----------------------------------------------------------------------------
(* The trail and the life of a catalog. *)

SameLife(c) == /\ catalogs'[c] = Unborn <=> catalogs[c] = Unborn
               /\ catalogs'[c] = Gone <=> catalogs[c] = Gone

\* What a step records of a catalog, and what it does to it.
Records(type, c) ==
    /\ Record(type, c)
    /\ \A d \in Ids \ {c} : catalogs'[d] = catalogs[d]
    /\ \/ /\ type = "create"
          /\ catalogs[c] = Unborn /\ catalogs'[c] \notin {Unborn, Gone}
       \/ /\ type = "delete"
          /\ Exists(c) /\ catalogs'[c] = Gone
       \/ /\ type = "update" /\ SameLife(c)
          /\ \/ Exists(c)
             \/ \E r \in Requests : Save(r) /\ local[r].id = c

\* What is recorded says what happened to the catalog's row.
LEMMA Chronicle ==
    ASSUME CatalogsAssumption, TypeOK, Answered, [Next]_vars
    PROVE  \/ UNCHANGED <<catalogs, trail>>
           \/ \E c \in Ids, type \in {"create", "update", "delete"} :
                 Records(type, c)
<1> SUFFICES ASSUME NEW r \in Requests,
                    \/ PostCatalog(r) \/ Save(r)
                    \/ DeleteRow(r) \/ MergeAnalysis(r)
             PROVE  \/ UNCHANGED <<catalogs, trail>>
                    \/ \E c \in Ids, type \in {"create", "update", "delete"} :
                          Records(type, c)
  BY StepWrites
<1>1. CASE PostCatalog(r)
  <2>1. PICK c \in Ids, alt \in Alts \cup {Root, None} :
           /\ catalogs[c] = Unborn
           /\ catalogs' = [catalogs EXCEPT ![c] = alt]
           /\ Record("create", c)
    BY <1>1, Posted
  <2>2. catalogs'[c] \notin {Unborn, Gone}
    BY <2>1, Distinct DEF TypeOK
  <2>3. \A d \in Ids \ {c} : catalogs'[d] = catalogs[d]
    BY <2>1 DEF TypeOK
  <2> QED BY <2>1, <2>2, <2>3 DEF Records
<1>2. CASE Save(r)
  <2>1. PICK c \in Ids : c = local[r].id
    BY <1>2, Written
  <2>2. PICK alt \in Alts \cup {Root, None} :
           /\ Record("update", c)
           /\ catalogs' = IF Exists(c) THEN [catalogs EXCEPT ![c] = alt]
                          ELSE catalogs
    BY <1>2, <2>1, Written
  <2>3. (\A d \in Ids \ {c} : catalogs'[d] = catalogs[d]) /\ SameLife(c)
    BY <2>2, Distinct DEF SameLife, TypeOK, Exists
  <2> QED BY <1>2, <2>1, <2>2, <2>3 DEF Records
<1>3. CASE DeleteRow(r)
  <2>1. local[r].id \in Ids
    BY <1>3 DEF DeleteRow, Answered, Reading
  <2>2. \/ /\ Exists(local[r].id)
           /\ catalogs' = [catalogs EXCEPT ![local[r].id] = Gone]
           /\ Record("delete", local[r].id)
        \/ UNCHANGED <<catalogs, trail>>
    BY <1>3 DEF DeleteRow, DeleteResult
  <2> QED BY <2>1, <2>2 DEF Records, TypeOK
<1>4. CASE MergeAnalysis(r)
  <2>1. local[r].id \in Ids
    BY <1>4 DEF MergeAnalysis, Answered, Reading
  <2>2. \/ Exists(local[r].id) /\ Record("update", local[r].id)
        \/ UNCHANGED trail
    BY <1>4 DEF MergeAnalysis
  <2>3. UNCHANGED catalogs
    BY <1>4 DEF MergeAnalysis
  <2> QED BY <2>1, <2>2, <2>3 DEF Records, SameLife
<1> QED BY <1>1, <1>2, <1>3, <1>4

\* Nothing is unborn again, and what is gone stays so.
LEMMA LifeStep ==
    ASSUME CatalogsAssumption, TypeOK, Answered, [Next]_vars
    PROVE  \A c \in Ids :
              /\ catalogs[c] # Unborn => catalogs'[c] # Unborn
              /\ catalogs[c] = Gone => catalogs'[c] = Gone
<1>1. CASE UNCHANGED <<catalogs, trail>>
  BY <1>1
<1>2. ASSUME NEW c \in Ids, NEW type, Records(type, c), NEW d \in Ids
      PROVE  /\ catalogs[d] # Unborn => catalogs'[d] # Unborn
             /\ catalogs[d] = Gone => catalogs'[d] = Gone
  BY <1>2, Distinct DEF Records, SameLife, Exists
<1> QED BY <1>1, <1>2, Chronicle

\* Only finitely many requests have ever arrived.
LEMMA BusyStep ==
    ASSUME TypeOK, LateOnes, [Next]_vars
    PROVE  IsFiniteSet({r \in Requests : pc'[r] # "idle"})
<1> DEFINE Busy == {r \in Requests : pc[r] # "idle"}
<1>1. IsFiniteSet(Busy)
  BY DEF LateOnes
<1>2. CASE UNCHANGED vars
  <2>1. {r \in Requests : pc'[r] # "idle"} = Busy
    BY <1>2 DEF vars
  <2> QED BY <1>1, <2>1
<1>3. ASSUME NEW r \in Requests, Acts(r)
      PROVE  IsFiniteSet({q \in Requests : pc'[q] # "idle"})
  <2>1. {q \in Requests : pc'[q] # "idle"} \subseteq Busy \cup {r}
    BY <1>3 DEF Acts
  <2> HIDE DEF Busy
  <2>2. IsFiniteSet(Busy \cup {r})
    BY <1>1, FS_AddElement
  <2> QED BY <2>1, <2>2, FS_Subset
<1> QED BY <1>2, <1>3, StepActs

\* Who has saved a catalog stays one who has.
LEMMA SavedStep ==
    ASSUME TypeOK, Answered, LateOnes, [Next]_vars, NEW c \in Ids
    PROVE  /\ Saved(c) \subseteq Saved(c)'
           /\ IsFiniteSet(Saved(c)) /\ Cardinality(Saved(c)) \in Nat
           /\ IsFiniteSet(Saved(c)') /\ Cardinality(Saved(c)') \in Nat
           /\ Cardinality(Saved(c)) <= Cardinality(Saved(c)')
<1>1. Saved(c) \subseteq {q \in Requests : pc[q] = "done"}
  BY DEF Saved, Answered
<1>2. Saved(c) \subseteq Saved(c)'
  <2>1. CASE UNCHANGED vars
    BY <2>1 DEF Saved, vars
  <2>2. ASSUME NEW r \in Requests, Acts(r) PROVE Saved(c) \subseteq Saved(c)'
    BY <1>1, <2>2 DEF Saved, Acts
  <2> QED BY <2>1, <2>2, StepActs
<1>3. Saved(c)' \subseteq {q \in Requests : pc'[q] # "idle"}
  <2>1. CASE UNCHANGED vars
    BY <1>1, <2>1 DEF Saved, vars
  <2>2. ASSUME NEW r \in Requests, Acts(r)
        PROVE  Saved(c)' \subseteq {q \in Requests : pc'[q] # "idle"}
    BY <1>1, <2>2 DEF Saved, Acts
  <2> QED BY <2>1, <2>2, StepActs
<1>4. /\ IsFiniteSet({q \in Requests : pc[q] # "idle"})
      /\ IsFiniteSet({q \in Requests : pc'[q] # "idle"})
  BY BusyStep DEF LateOnes
<1>5. Saved(c) \subseteq {q \in Requests : pc[q] # "idle"}
  BY <1>1
<1>6. IsFiniteSet(Saved(c)) /\ IsFiniteSet(Saved(c)')
  BY <1>3, <1>4, <1>5, FS_Subset
<1>7. Cardinality(Saved(c)) <= Cardinality(Saved(c)')
  BY <1>2, <1>6, FS_Subset
<1> QED BY <1>2, <1>6, <1>7, FS_CardinalityType

\* The deletions of a catalog and the events after them are finitely many.
LEMMA DeletesFinite ==
    ASSUME TypeOK, LateOnes, NEW c \in Ids
    PROVE  /\ Count("delete", c) = Cardinality(Hits(trail, Deletion(c)))
           /\ Count("delete", c) \in Nat
           /\ Cardinality(Late(trail, c, Deletion(c))) \in Nat
           /\ Hits(trail, Deletion(c)) # {} => catalogs[c] = Gone
<1> DEFINE E == [type : {"create", "update", "delete"}, id : Ids]
<1>1. trail \in Seq(E)
  BY DEF TypeOK
<1>2. Count("delete", c) = Cardinality(Hits(trail, Deletion(c)))
  BY DEF Count, Hits, Deletion
<1>3. /\ IsFiniteSet(Hits(trail, Deletion(c)))
      /\ Cardinality(Hits(trail, Deletion(c))) \in Nat
  BY <1>1, HitsFinite
<1>4. Cardinality(Late(trail, c, Deletion(c))) \in Nat
  BY <1>1, LateFinite
<1>5. Hits(trail, Deletion(c)) # {} =>
         Cardinality(Hits(trail, Deletion(c))) # 0
  BY <1>3, FS_EmptySet
<1>6. catalogs[c] # Gone => Count("delete", c) = 0
  BY DEF LateOnes
<1> QED BY <1>2, <1>3, <1>4, <1>5, <1>6

\* What a step's event counts for.
LEMMA Counted ==
    ASSUME TypeOK, NEW c \in Ids, NEW type \in {"create", "update", "delete"},
           Record(type, c), NEW d \in Ids
    PROVE  /\ Cardinality(Hits(trail', Deletion(d))) =
                 Cardinality(Hits(trail, Deletion(d)))
                    + (IF c = d /\ type = "delete" THEN 1 ELSE 0)
           /\ Cardinality(Late(trail', d, Deletion(d))) =
                 Cardinality(Late(trail, d, Deletion(d)))
                    + (IF c = d /\ Hits(trail, Deletion(d)) # {} THEN 1 ELSE 0)
           /\ Count("delete", d)' = Cardinality(Hits(trail', Deletion(d)))
<1> DEFINE E == [type : {"create", "update", "delete"}, id : Ids]
           e == [type |-> type, id |-> c]
<1>1. trail \in Seq(E) /\ e \in E /\ trail' = Append(trail, e)
  BY DEF TypeOK, Record
<1>2. e.id = c /\ (e = Deletion(d) <=> c = d /\ type = "delete")
  BY DEF Deletion
<1>3. Count("delete", d)' = Cardinality(Hits(trail', Deletion(d)))
  BY DEF Count, Hits, Deletion
<1> HIDE DEF e, E
<1>4. Cardinality(Hits(trail', Deletion(d))) =
         Cardinality(Hits(trail, Deletion(d)))
            + (IF e = Deletion(d) THEN 1 ELSE 0)
  BY <1>1, HitsAppend
<1>5. Cardinality(Late(trail', d, Deletion(d))) =
         Cardinality(Late(trail, d, Deletion(d)))
            + (IF e.id = d /\ Hits(trail, Deletion(d)) # {} THEN 1 ELSE 0)
  BY <1>1, LateAppend
<1> QED BY <1>2, <1>3, <1>4, <1>5

\* A PATCH is one of those that have saved its catalog from then on.
LEMMA SavedNow ==
    ASSUME CatalogsAssumption, TypeOK, Answered,
           NEW r \in Requests, Save(r), NEW c \in Ids, c = local[r].id
    PROVE  r \in Saved(c)' /\ r \notin Saved(c)
<1>1. PICK want \in SUBSET Urls : local' = [local EXCEPT ![r].want = want]
  BY Written
<1>2. local'[r].id = c /\ local'[r].want = want
  BY <1>1, LocalStays
<1>3. want # None
  BY DEF CatalogsAssumption
<1>4. local[r].want = None
  BY DEF Save, Answered
<1> QED BY <1>2, <1>3, <1>4 DEF Saved

\* One deletion per catalog, and each later event has a PATCH to blame.
LEMMA LateOnesStep ==
    ASSUME CatalogsAssumption, TypeOK, Answered, LateOnes, [Next]_vars
    PROVE  LateOnes'
<1> SUFFICES ASSUME NEW d \in Ids
             PROVE  /\ Count("delete", d)' =
                          IF catalogs'[d] = Gone THEN 1 ELSE 0
                    /\ Cardinality(Late(trail', d, Deletion(d)))
                          <= Cardinality(Saved(d)')
  BY BusyStep DEF LateOnes, Deletion
<1>1. /\ Count("delete", d) = IF catalogs[d] = Gone THEN 1 ELSE 0
      /\ Cardinality(Late(trail, d, Deletion(d))) <= Cardinality(Saved(d))
      /\ Cardinality(Saved(d)) <= Cardinality(Saved(d)')
      /\ Cardinality(Saved(d)) \in Nat /\ Cardinality(Saved(d)') \in Nat
      /\ Cardinality(Late(trail, d, Deletion(d))) \in Nat
      /\ Count("delete", d) = Cardinality(Hits(trail, Deletion(d)))
      /\ Hits(trail, Deletion(d)) # {} => catalogs[d] = Gone
  BY SavedStep, DeletesFinite DEF LateOnes
<1>2. CASE UNCHANGED <<catalogs, trail>>
  <2>1. Count("delete", d)' = Count("delete", d)
    BY <1>2 DEF Count
  <2> QED BY <1>1, <1>2, <2>1
<1>3. ASSUME NEW c \in Ids, NEW type \in {"create", "update", "delete"},
             Records(type, c)
      PROVE  /\ Count("delete", d)' = IF catalogs'[d] = Gone THEN 1 ELSE 0
             /\ Cardinality(Late(trail', d, Deletion(d)))
                   <= Cardinality(Saved(d)')
  <2>1. /\ Cardinality(Hits(trail', Deletion(d))) =
              Cardinality(Hits(trail, Deletion(d)))
                 + (IF c = d /\ type = "delete" THEN 1 ELSE 0)
        /\ Cardinality(Late(trail', d, Deletion(d))) =
              Cardinality(Late(trail, d, Deletion(d)))
                 + (IF c = d /\ Hits(trail, Deletion(d)) # {} THEN 1 ELSE 0)
        /\ Count("delete", d)' = Cardinality(Hits(trail', Deletion(d)))
    BY <1>3, Counted DEF Records
  <2>2. CASE c # d
    <3>1. catalogs'[d] = catalogs[d]
      BY <1>3, <2>2 DEF Records
    <3> QED BY <1>1, <2>1, <2>2, <3>1
  <2>3. CASE c = d /\ Hits(trail, Deletion(d)) = {}
    <3>1. catalogs[d] # Gone
      BY <1>1, <2>3, FS_EmptySet
    <3>2. catalogs'[d] = Gone <=> type = "delete"
      BY <1>3, <2>3, <3>1 DEF Records, SameLife
    <3> QED BY <1>1, <2>1, <2>3, <3>1, <3>2
  <2>4. CASE c = d /\ Hits(trail, Deletion(d)) # {}
    <3>1. catalogs[d] = Gone
      BY <1>1, <2>4
    <3>2. /\ type = "update" /\ catalogs'[d] = Gone
          /\ \E r \in Requests : Save(r) /\ local[r].id = d
      BY <1>3, <2>4, <3>1, Distinct DEF Records, SameLife, Exists
    <3>3. PICK r \in Requests : r \in Saved(d)' /\ r \notin Saved(d)
      BY <3>2, SavedNow
    <3>4. Cardinality(Saved(d)) # Cardinality(Saved(d)')
      BY <3>3, SavedStep, FS_Subset
    <3> QED BY <1>1, <2>1, <2>4, <3>1, <3>2, <3>4
  <2> QED BY <2>2, <2>3, <2>4
<1> QED BY <1>2, <1>3, Chronicle

-----------------------------------------------------------------------------
(* Requests, and what carries an id. *)

\* Steps keep what is known of a request from where it is.
LEMMA AnsweredStep ==
    ASSUME CatalogsAssumption, TypeOK, Answered, [Next]_vars PROVE Answered'
<1>1. CASE UNCHANGED vars
  BY <1>1 DEF Answered, Reading, vars
<1>2. ASSUME NEW r \in Requests, Acts(r) PROVE Answered'
  <2>1. \A c \in Ids : catalogs[c] # Unborn => catalogs'[c] # Unborn
    BY LifeStep
  <2>2. \A q \in Requests : local[q].id \in Ids \cup {None}
    BY DEF TypeOK, Locals
  <2> SUFFICES ASSUME NEW q \in Requests
               PROVE  /\ pc'[q] # "done" => /\ reply'[q] = None
                                            /\ local'[q].want = None
                      /\ pc'[q] = "idle" => local'[q].id = None
                      /\ Reading(q)' => local'[q].id \in Ids
                      /\ pc'[q] = "save" =>
                            \A x \in local'[q].rows : x.owner = local'[q].id
                      /\ local'[q].id # None =>
                            catalogs'[local'[q].id] # Unborn
    BY DEF Answered
  <2>3. CASE q # r
    <3>1. pc'[q] = pc[q] /\ reply'[q] = reply[q] /\ local'[q] = local[q]
      BY <1>2, <2>3 DEF Acts
    <3>2. Reading(q)' <=> Reading(q)
      BY <3>1 DEF Reading
    <3> QED BY <2>1, <2>2, <3>1, <3>2 DEF Answered
  <2>4. CASE q = r
    <3>1. pc'[r] # "done" => reply'[r] = None /\ local'[r].want = None
      <4>1. Save(r) => pc'[r] = "done"
        BY DEF Save, Answer, TypeOK
      <4> QED BY <1>2, <4>1 DEF Acts, Answered
    <3>2. pc'[r] # "idle"
      BY <1>2 DEF Acts
    <3>3. Reading(r)' => local'[r].id \in Ids
      BY <1>2 DEF Acts, Answered
    <3>4. pc'[r] = "save" => \A x \in local'[r].rows : x.owner = local'[r].id
      <4> SUFFICES ASSUME LoadSources(r)
                   PROVE  \A x \in local'[r].rows : x.owner = local'[r].id
        BY <1>2 DEF Acts
      <4>1. /\ local'[r].id = local[r].id
            /\ local'[r].rows = Of(local[r].id)
        BY LocalStays DEF LoadSources
      <4> QED BY <4>1 DEF Of
    <3>5. local'[r].id # None => catalogs'[local'[r].id] # Unborn
      <4>1. CASE local'[r].id = local[r].id
        BY <2>1, <2>2, <4>1 DEF Answered
      <4>2. CASE local'[r].id \in Ids /\ Exists(local'[r].id)
        <5>1. PICK c \in Ids : c = local'[r].id
          BY <4>2
        <5>2. catalogs[c] # Unborn
          BY <4>2, <5>1 DEF Exists
        <5> QED BY <2>1, <5>1, <5>2
      <4> QED BY <1>2, <4>1, <4>2 DEF Acts
    <3> QED BY <2>4, <3>1, <3>2, <3>3, <3>4, <3>5
  <2> QED BY <2>3, <2>4
<1> QED BY <1>1, <1>2, StepActs

\* In a plain behaviour a request goes on while all others rest.
LEMMA OthersRest ==
    ASSUME Turns, NEW r \in Requests, Acts(r), plain'
    PROVE  \A q \in Requests \ {r} : Resting(q) /\ Resting(q)'
BY DEF Turns, Acts, Resting, Alone

\* In a plain behaviour one request at a time is on its way.
LEMMA TurnsStep ==
    ASSUME TypeOK, Turns, [Next]_vars PROVE Turns'
<1>1. CASE UNCHANGED vars
  BY <1>1 DEF Turns, Resting, vars
<1>2. ASSUME NEW r \in Requests, Acts(r) PROVE Turns'
  BY <1>2, OthersRest DEF Turns
<1> QED BY <1>1, <1>2, StepActs

\* What exists does until it is deleted, with its sources.
LEMMA ExistsStep ==
    ASSUME CatalogsAssumption, TypeOK, Answered, [Next]_vars
    PROVE  \A c \in Ids : Exists(c) => \/ Exists(c)'
                                       \/ /\ catalogs'[c] = Gone
                                          /\ sources' = sources \ Of(c)
                                          /\ UNCHANGED items
<1> SUFFICES ASSUME NEW r \in Requests,
                    \/ PostCatalog(r) \/ Save(r)
                    \/ DeleteRow(r) \/ MergeAnalysis(r),
                    NEW c \in Ids, Exists(c)
             PROVE  \/ Exists(c)'
                    \/ /\ catalogs'[c] = Gone
                       /\ sources' = sources \ Of(c) /\ UNCHANGED items
  BY StepWrites DEF Exists
<1>1. CASE PostCatalog(r)
  <2>1. PICK d \in Ids, alt \in Alts \cup {Root, None} :
           catalogs' = [catalogs EXCEPT ![d] = alt]
    BY <1>1, Posted
  <2> QED BY <2>1, Distinct DEF Exists, TypeOK
<1>2. CASE Save(r)
  <2>1. PICK d \in Ids : d = local[r].id
    BY <1>2, Written
  <2>2. PICK alt \in Alts \cup {Root, None} :
           catalogs' = IF Exists(d) THEN [catalogs EXCEPT ![d] = alt]
                       ELSE catalogs
    BY <1>2, <2>1, Written
  <2> QED BY <2>2, Distinct DEF Exists, TypeOK
<1>3. CASE DeleteRow(r)
  <2>1. PICK d \in Ids : d = local[r].id
    BY <1>3 DEF DeleteRow, Answered, Reading
  <2>2. \/ /\ catalogs' = [catalogs EXCEPT ![d] = Gone]
           /\ sources' = sources \ Of(d) /\ UNCHANGED items
        \/ UNCHANGED catalogs
    BY <1>3, <2>1 DEF DeleteRow
  <2> QED BY <2>2 DEF Exists, TypeOK
<1>4. CASE MergeAnalysis(r)
  BY <1>4 DEF MergeAnalysis, Exists
<1> QED BY <1>1, <1>2, <1>3, <1>4

\* No step leaves a source whose catalog is gone.
LEMMA NoSourceStep ==
    ASSUME CatalogsAssumption, TypeOK, Answered, NoSourceLeftBehind,
           [Next]_vars
    PROVE  NoSourceLeftBehind'
<1>1. \A x \in sources : x.owner \in Ids /\ Exists(x.owner)
  BY DEF TypeOK, Rows, NoSourceLeftBehind
<1>2. \A x \in sources' \cap sources : Exists(x.owner)'
  BY <1>1, ExistsStep DEF Of
<1>3. ASSUME NEW x \in sources' \ sources
      PROVE  Exists(x.owner)'
  <2>1. PICK r \in Requests : \/ PostCatalog(r) \/ Save(r)
                              \/ DeleteRow(r) \/ MergeAnalysis(r)
    BY <1>3, StepWrites
  <2>2. CASE PostCatalog(r)
    <3>1. PICK c \in Ids, alt \in Alts \cup {Root, None},
               given \in SUBSET (Urls \X Copies) :
             /\ catalogs' = [catalogs EXCEPT ![c] = alt]
             /\ sources' = sources \cup
                   {[by |-> r, url |-> g[1], copy |-> g[2], owner |-> c] :
                       g \in given}
      BY <2>2, Posted
    <3>2. x.owner = c
      BY <1>3, <3>1, GivenRows
    <3> QED BY <3>1, <3>2, Distinct DEF Exists, TypeOK
  <2>3. CASE Save(r)
    <3>1. PICK c \in Ids : c = local[r].id
      BY <2>3, Written
    <3>2. PICK cut, put : /\ sources' = (sources \ cut) \cup put
                          /\ Referenced(c, put)
                          /\ \A y \in put : y.owner = c
      BY <2>3, <3>1, WrittenRows
    <3>3. x.owner = c /\ Exists(c)
      BY <1>3, <3>2 DEF Referenced
    <3> QED BY <1>3, <3>3, ExistsStep
  <2>4. CASE DeleteRow(r) \/ MergeAnalysis(r)
    BY <1>3, <2>4 DEF DeleteRow, MergeAnalysis
  <2> QED BY <2>1, <2>2, <2>3, <2>4
<1> QED BY <1>2, <1>3 DEF NoSourceLeftBehind

\* No step gives a resource the id of a catalog that was not created.
LEMMA ItemsBornStep ==
    ASSUME CatalogsAssumption, TypeOK, Answered, ItemsBorn, [Next]_vars
    PROVE  ItemsBorn'
<1>1. \A x \in items : x.owner \in Ids \cup {None}
  BY DEF TypeOK, Items
<1>2. \A r \in Requests : local[r].id \in Ids \cup {None}
  BY DEF TypeOK, Locals
<1>3. \A c \in Ids : catalogs[c] # Unborn => catalogs'[c] # Unborn
  BY LifeStep
<1>4. \A x \in items' \ items :
         \E r \in Requests : x.owner = local[r].id
  BY ItemsGrow
<1>5. \A x \in items' \cap items :
         x.owner # None => catalogs'[x.owner] # Unborn
  BY <1>1, <1>3 DEF ItemsBorn
<1>6. \A x \in items' \ items :
         x.owner # None => catalogs'[x.owner] # Unborn
  BY <1>2, <1>3, <1>4 DEF Answered
<1> QED BY <1>5, <1>6 DEF ItemsBorn

-----------------------------------------------------------------------------
(* Plain behaviours. *)

\* Nothing is asked of a request that is not on its way.
LEMMA RestingCurrent ==
    ASSUME NEW r \in Requests, Resting(r)' PROVE Current(r)'
BY DEF Resting, Current, Reading, Owning

\* What findCatalog has just read is up to date.
LEMMA FindCurrent ==
    ASSUME TypeOK, NEW r \in Requests, NEW kind,
           NEW place \in {"sources", "publishers", "merge"},
           Find(r, kind, place)
    PROVE  Current(r)'
<1>1. CASE Answer(r, "notfound")
  BY <1>1, RestingCurrent DEF Answer, TypeOK, Resting
<1>2. ASSUME Goto(r, place), NEW c \in Ids, Exists(c),
             local' = [local EXCEPT ![r].id = c, ![r].alt = catalogs[c]]
      PROVE  Current(r)'
  <2>1. local'[r].id = c /\ local'[r].alt = catalogs[c]
    BY <1>2, LocalStays
  <2>2. pc'[r] = place
    BY <1>2 DEF Goto, TypeOK
  <2>3. catalogs' = catalogs
    BY FoundIn
  <2>4. Exists(local[r].id)' /\ (local[r].alt = catalogs[local[r].id])'
    BY <1>2, <2>1, <2>3 DEF Exists
  <2> QED BY <2>2, <2>4 DEF Current, Owning
<1> QED BY <1>1, <1>2, FoundIn

\* What was just resolved for a resource or a log is the owner the path
\* names.
LEMMA OwnerCurrent ==
    ASSUME TypeOK, Answered, NEW r \in Requests, NEW kind,
           NEW place \in {"insert", "insertLog", "item"},
           FindOwner(r, kind, place)
    PROVE  Current(r)'
<1>1. CASE Answer(r, "notfound")
  BY <1>1, RestingCurrent DEF Answer, TypeOK, Resting
<1>2. ASSUME Goto(r, place), Within(r)' PROVE Current(r)'
  <2>1. pc'[r] = place
    BY <1>2 DEF Goto, TypeOK
  <2> QED BY <1>2, <2>1 DEF Current, Reading
<1>3. catalogs' = catalogs
  BY OwnerIn
<1>4. ASSUME Goto(r, place), NEW param \in Params, NEW c \in Resolved(param),
             local' = [local EXCEPT ![r].id = Owner(c), ![r].path = param]
      PROVE  Within(r)'
  <2>1. local'[r].id = Owner(c) /\ local'[r].path = param
    BY <1>4, LocalStays
  <2>2. (local[r].id = Owner(c))' /\ c \in Resolved(local[r].path)'
    BY <1>3, <2>1 DEF Owner, Resolved, Exists
  <2> QED BY <2>2 DEF Within
<1>5. ASSUME local' = [local EXCEPT ![r].path = Root]
      PROVE  Within(r)'
  <2>1. local'[r].id = local[r].id /\ local'[r].path = Root
    BY <1>5, LocalStays
  <2>2. pc[r] = "idle"
    BY OwnerIn DEF Arrives
  <2> QED BY <2>1, <2>2 DEF Within, Answered
<1> QED BY <1>1, <1>2, <1>4, <1>5, OwnerIn

\* The sources that were just read and the two counts of DeleteCatalog are
\* so.
LEMMA CountsCurrent ==
    ASSUME TypeOK, NEW r \in Requests, Current(r),
           LoadSources(r) \/ CountPublishers(r) \/ CountSoftware(r)
    PROVE  Current(r)'
<1>1. CASE LoadSources(r)
  <2>1. /\ local'[r].id = local[r].id /\ local'[r].alt = local[r].alt
        /\ local'[r].rows = Of(local[r].id)
    BY <1>1, LocalStays DEF LoadSources
  <2>2. /\ UNCHANGED <<catalogs, sources>> /\ Reading(r)
        /\ pc'[r] = "save"
    BY <1>1 DEF LoadSources, Reading, Goto, TypeOK
  <2>3. Exists(local[r].id)' /\ (local[r].alt = catalogs[local[r].id])'
    BY <2>1, <2>2 DEF Current, Exists
  <2>4. (local[r].rows = Of(local[r].id))'
    BY <2>1, <2>2 DEF Of
  <2> QED BY <2>2, <2>3, <2>4 DEF Current, Owning
<1>2. CASE CountPublishers(r)
  <2> DEFINE busy == \E x \in items : x.kind = "publisher" /\ InScope(r, x)
  <2>1. /\ local'[r].id = local[r].id /\ local'[r].alt = local[r].alt
        /\ local'[r].busy = busy
    <3>1. local' = [local EXCEPT ![r].busy = busy]
      BY <1>2 DEF CountPublishers
    <3> HIDE DEF busy
    <3> QED BY <3>1, LocalStays
  <2>2. /\ UNCHANGED <<catalogs, items>> /\ Reading(r)
        /\ pc'[r] = "software"
    BY <1>2 DEF CountPublishers, Reading, Goto, TypeOK
  <2>3. Exists(local[r].id)' /\ (local[r].alt = catalogs[local[r].id])'
    BY <2>1, <2>2 DEF Current, Exists
  <2>4. \A x : InScope(r, x)' <=> InScope(r, x)
    BY <2>1 DEF InScope
  <2>5. \/ local'[r].busy
        \/ \A x \in items' : x.kind = "publisher" => ~ InScope(r, x)'
    BY <2>1, <2>2, <2>4
  <2> QED BY <2>2, <2>3, <2>5 DEF Current, Owning
<1>3. CASE CountSoftware(r)
  <2>1. /\ UNCHANGED <<catalogs, items, local>> /\ Reading(r)
        /\ pc[r] = "software"
    BY <1>3 DEF CountSoftware, Reading
  <2>2. CASE Answer(r, "conflict")
    BY <2>2, RestingCurrent DEF Answer, TypeOK, Resting
  <2>3. CASE /\ Goto(r, "row") /\ ~ local[r].busy
             /\ \A x \in items : x.kind = "software" => ~ InScope(r, x)
    <3>1. pc'[r] = "row"
      BY <2>3 DEF Goto, TypeOK
    <3>2. Exists(local[r].id)' /\ (local[r].alt = catalogs[local[r].id])'
      BY <2>1 DEF Current, Exists
    <3>3. \A x \in items : x.kind \in {"publisher", "software", "log"}
      BY DEF TypeOK, Items
    <3>4. \A x \in items : x.kind # "log" => ~ InScope(r, x)
      BY <2>1, <2>3, <3>3 DEF Current
    <3>5. (\A x \in Resources : ~ InScope(r, x))'
      BY <2>1, <3>4 DEF Resources, InScope
    <3> QED BY <3>1, <3>2, <3>5 DEF Current, Owning
  <2> QED BY <1>3, <2>2, <2>3 DEF CountSoftware
<1> QED BY <1>1, <1>2, <1>3

\* The resource that was just read belongs to the catalog.
LEMMA LoadCurrent ==
    ASSUME TypeOK, NEW r \in Requests, Current(r), LoadItem(r)
    PROVE  Current(r)'
<1>1. CASE Answer(r, "notfound")
  BY <1>1, RestingCurrent DEF Answer, TypeOK, Resting
<1>2. ASSUME NEW x \in items, Belongs(r, x), Goto(r, "saveItem"),
             local' = [local EXCEPT ![r].item = x]
      PROVE  Current(r)'
  <2>1. /\ local'[r].id = local[r].id /\ local'[r].path = local[r].path
        /\ local'[r].item = x
    BY <1>2, LocalStays
  <2>2. pc'[r] = "saveItem"
    BY <1>2 DEF Goto, TypeOK
  <2>3. UNCHANGED catalogs /\ Owning(r)
    BY DEF LoadItem, Owning
  <2>4. Within(r)'
    BY <2>1, <2>3 DEF Current, Within, Resolved, Owner, Exists
  <2>5. local'[r].item.owner = local'[r].id
    BY <1>2, <2>1 DEF Belongs
  <2> QED BY <2>2, <2>4, <2>5 DEF Current, Reading
<1> QED BY <1>1, <1>2 DEF LoadItem

\* In a plain behaviour requests find things as they left them.
LEMMA InStepStep ==
    ASSUME TypeOK, Answered, Turns, InStep, [Next]_vars
    PROVE  InStep'
<1>1. CASE UNCHANGED vars
  BY <1>1 DEF InStep, Current, Reading, Owning, Within, Resolved, Owner,
              Exists, Of, InScope, Resources, vars
<1>2. ASSUME plain', NEW r \in Requests, Acts(r)
      PROVE  \A q \in Requests : Current(q)'
  <2>1. Current(r)
    BY <1>2 DEF Acts, InStep
  <2>2. \A q \in Requests \ {r} : Current(q)'
    BY <1>2, OthersRest, RestingCurrent
  <2>3. ASSUME ~ Reading(r)', ~ Owning(r)' PROVE Current(r)'
    BY <2>3 DEF Current, Reading, Owning
  <2>4. ASSUME FindForPatch(r) \/ FindForDelete(r) \/ FindForAnalysis(r)
        PROVE  Current(r)'
    BY <2>4, FindCurrent DEF FindForPatch, FindForDelete, FindForAnalysis
  <2>5. ASSUME FindForItem(r) \/ FindForLog(r) \/ FindForPatchItem(r)
        PROVE  Current(r)'
    BY <2>5, OwnerCurrent DEF FindForItem, FindForLog, FindForPatchItem
  <2>6. Current(r)'
    BY <1>2, <2>1, <2>3, <2>4, <2>5, CountsCurrent, LoadCurrent DEF Acts
  <2> QED BY <2>2, <2>6
<1> QED BY <1>1, <1>2, StepActs DEF InStep

\* The map of a PATCH that finds each URL once holds all it has read.
LEMMA MapsAll ==
    ASSUME NEW rows, \A x, y \in rows : x.url = y.url => x = y,
           NEW map \in Maps(rows)
    PROVE  map = rows
<1>1. map \subseteq rows /\ {x.url : x \in map} = {x.url : x \in rows}
  BY DEF Maps
<1>2. ASSUME NEW x \in rows PROVE x \in map
  <2>1. x.url \in {y.url : y \in map}
    BY <1>1
  <2>2. PICK y \in map : y.url = x.url
    BY <2>1
  <2> QED BY <1>1, <2>2
<1> QED BY <1>1, <1>2

\* What the PATCH of a plain behaviour leaves: the sources it asked for, once
\* each, and the root the root.
SavesPlainly(r, c, alt, want) ==
    /\ catalogs' = [catalogs EXCEPT ![c] = alt]
    /\ local' = [local EXCEPT ![r].want = want]
    /\ alt = Root <=> catalogs[c] = Root
    /\ alt = Root <=> want = {}
    /\ {x.url : x \in Of(c)'} = want
    /\ \A x, y \in Of(c)' : x.url = y.url => x = y
    /\ \A d \in Ids \ {c} : Of(d)' = Of(d)

\* A PATCH of a catalog in a plain behaviour leaves each source once.
LEMMA SavedAlone ==
    ASSUME CatalogsAssumption, TypeOK, Answered, InStep, PlainOnce,
           NEW r \in Requests, Save(r), plain',
           NEW c \in Ids, c = local[r].id
    PROVE  \E alt \in Alts \cup {Root, None}, want \in SUBSET Urls :
              SavesPlainly(r, c, alt, want)
<1>1. /\ Exists(c) /\ local[r].alt = catalogs[c] /\ local[r].rows = Of(c)
      /\ plain
  BY DEF Save, InStep, Current, Reading
<1>2. PICK alt \in Alts \cup {Root, None}, want \in SUBSET Urls,
           map \in Maps(local[r].rows) :
      \E changed \in SUBSET Kept(map, want) :
         /\ Allowed(r, alt, want)
         /\ catalogs' = IF Exists(local[r].id)
                        THEN [catalogs EXCEPT ![local[r].id] = alt]
                        ELSE catalogs
         /\ sources' = (sources \ (map \ Kept(map, want)))
                          \cup (Added(r, map, want) \cup changed)
         /\ local' = [local EXCEPT ![r].want = want]
         /\ plain' => plain /\ (alt = Root => local[r].alt = Root)
  <2>1. PICK alt \in Alts \cup {Root, None}, want \in SUBSET Urls,
             map \in Maps(local[r].rows) :
        \E changed \in SUBSET Kept(map, want) :
           /\ Allowed(r, alt, want)
           /\ Referenced(local[r].id, Added(r, map, want) \cup changed)
           /\ catalogs' = IF Exists(local[r].id)
                          THEN [catalogs EXCEPT ![local[r].id] = alt]
                          ELSE catalogs
           /\ sources' = (sources \ (map \ Kept(map, want)))
                            \cup (Added(r, map, want) \cup changed)
           /\ local' = [local EXCEPT ![r].want = want]
           /\ plain' => plain /\ (alt = Root => local[r].alt = Root)
           /\ Added(r, map, want) \cup changed \subseteq Rows
           /\ \A x \in Added(r, map, want) \cup changed :
                 x.owner = local[r].id
    BY Written
  <2> QED BY <2>1
<1>3. map = Of(c)
  <2>1. \A x, y \in Of(c) : x.url = y.url => x = y
    BY <1>1 DEF PlainOnce, Of
  <2>2. map \in Maps(Of(c))
    BY <1>1
  <2> QED BY <2>1, <2>2, MapsAll
<1> DEFINE kept == {x \in Of(c) : x.url \in want}
           added == {[by |-> r, url |-> u, copy |-> 1, owner |-> c] :
                        u \in want \ {x.url : x \in Of(c)}}
<1>4. Kept(map, want) = kept /\ Added(r, map, want) = added
  BY <1>3 DEF Kept, Added
<1>5. sources' = (sources \ (Of(c) \ kept)) \cup added
  <2>1. PICK changed \in SUBSET Kept(map, want) :
           sources' = (sources \ (map \ Kept(map, want)))
                         \cup (Added(r, map, want) \cup changed)
    BY <1>2
  <2>2. changed \subseteq kept /\ kept \subseteq sources
    BY <1>4 DEF Of
  <2> HIDE DEF kept, added
  <2> QED BY <1>3, <1>4, <2>1, <2>2
<1>6. \A x \in added : /\ x.owner = c
                       /\ x.url \in want /\ \A y \in Of(c) : x.url # y.url
  OBVIOUS
<1>7. \A x, y \in added : x.url = y.url => x = y
  OBVIOUS
<1>8. ASSUME NEW u \in want
      PROVE  (\E x \in Of(c) : x.url = u) \/ \E x \in added : x.url = u
  <2>1. CASE \A x \in Of(c) : x.url # u
    <3>1. [by |-> r, url |-> u, copy |-> 1, owner |-> c] \in added
      BY <2>1
    <3> QED BY <3>1
  <2> QED BY <2>1
<1>9. kept = {x \in Of(c) : x.url \in want}
  OBVIOUS
<1> HIDE DEF added, kept
<1>10. Of(c)' = kept \cup added
  BY <1>5, <1>6, <1>9 DEF Of
<1>11. \A d \in Ids \ {c} : Of(d)' = Of(d)
  BY <1>5, <1>6, <1>9 DEF Of
<1>12. {x.url : x \in Of(c)'} = want
  <2>1. \A x \in kept \cup added : x.url \in want
    BY <1>6, <1>9
  <2>2. \A u \in want : \E x \in kept \cup added : x.url = u
    BY <1>8, <1>9
  <2> QED BY <1>10, <2>1, <2>2
<1>13. \A x, y \in Of(c)' : x.url = y.url => x = y
  <2>1. \A x, y \in Of(c) : x.url = y.url => x = y
    BY <1>1 DEF PlainOnce, Of
  <2> QED BY <1>6, <1>7, <1>9, <1>10, <2>1
<1>14. /\ catalogs' = [catalogs EXCEPT ![c] = alt]
       /\ local' = [local EXCEPT ![r].want = want]
       /\ alt = Root <=> catalogs[c] = Root
       /\ alt = Root <=> want = {}
  <2>1. /\ Allowed(r, alt, want)
        /\ catalogs' = [catalogs EXCEPT ![c] = alt]
        /\ local' = [local EXCEPT ![r].want = want]
        /\ alt = Root => local[r].alt = Root
    BY <1>1, <1>2
  <2> QED BY <1>1, <2>1 DEF Allowed
<1>15. SavesPlainly(r, c, alt, want)
  BY <1>11, <1>12, <1>13, <1>14 DEF SavesPlainly
<1> QED BY <1>15

\* What the POST of a plain behaviour adds: a catalog without any before.
LEMMA PostedAlone ==
    ASSUME CatalogsAssumption, TypeOK, NoSourceLeftBehind,
           NEW r \in Requests, PostCatalog(r), plain'
    PROVE  \E c \in Ids, alt \in Alts \cup {Root, None} :
              /\ catalogs[c] = Unborn
              /\ catalogs' = [catalogs EXCEPT ![c] = alt]
              /\ alt = Root <=> Of(c)' = {}
              /\ \A x, y \in Of(c)' : x.url = y.url => x = y
              /\ \A d \in Ids \ {c} : Of(d)' = Of(d)
<1>1. PICK c \in Ids, alt \in Alts \cup {Root, None},
           given \in SUBSET (Urls \X Copies) :
         /\ catalogs[c] = Unborn
         /\ alt = Root <=> given = {}
         /\ catalogs' = [catalogs EXCEPT ![c] = alt]
         /\ sources' = sources \cup
               {[by |-> r, url |-> g[1], copy |-> g[2], owner |-> c] :
                   g \in given}
         /\ \A g, h \in given : g[1] = h[1] => g = h
  BY Posted
<1> DEFINE row(g) == [by |-> r, url |-> g[1], copy |-> g[2], owner |-> c]
           added == {row(g) : g \in given}
<1>2. sources' = sources \cup added
  BY <1>1
<1>3. \A x \in sources : x.owner # c
  BY <1>1 DEF NoSourceLeftBehind, Exists
<1>4. \A x \in added : x.owner = c
  OBVIOUS
<1>5. added = {} <=> given = {}
  <2>1. \A g \in given : row(g) \in added
    OBVIOUS
  <2>2. \A x \in added : \E g \in given : x = row(g)
    OBVIOUS
  <2> HIDE DEF added, row
  <2> QED BY <2>1, <2>2
<1>6. \A x, y \in added : x.url = y.url => x = y
  <2> SUFFICES ASSUME NEW g \in given, NEW h \in given,
                      row(g).url = row(h).url
               PROVE  row(g) = row(h)
    OBVIOUS
  <2> QED BY <1>1
<1> HIDE DEF added
<1>7. Of(c)' = added /\ \A d \in Ids \ {c} : Of(d)' = Of(d)
  BY <1>2, <1>3, <1>4 DEF Of
<1> QED BY <1>1, <1>5, <1>6, <1>7

\* In a plain behaviour the sources keep to their rules.
LEMMA PlainSourcesStep ==
    ASSUME CatalogsAssumption, TypeOK, Answered, NoSourceLeftBehind, InStep,
           PlainOnce, PlainSources, [Next]_vars
    PROVE  PlainOnce' /\ PlainSources'
<1> DEFINE Fine(c) ==
              /\ Exists(c) => (catalogs[c] = Root <=> Of(c) = {})
              /\ \A x, y \in Of(c) : x.url = y.url => x = y
<1>1. (\A c \in Ids : Fine(c)) <=> (\A c \in Ids : Exists(c) =>
                                       (catalogs[c] = Root <=> Of(c) = {}))
                                   /\ \A x, y \in sources :
                                         x.owner = y.owner /\ x.url = y.url
                                            => x = y
  <2>1. \A x \in sources : x.owner \in Ids
    BY DEF TypeOK, Rows
  <2> QED BY <2>1 DEF Of
<1>2. (\A c \in Ids : Fine(c)') => PlainOnce' /\ PlainSources'
  <2>1. \A x \in sources' : x.owner \in Ids
    BY TypeStep DEF TypeOK, Rows
  <2> QED BY <2>1 DEF PlainOnce, PlainSources, Of
<1> SUFFICES ASSUME plain' PROVE \A c \in Ids : Fine(c)'
  BY <1>2 DEF PlainOnce, PlainSources
<1>3. plain
  BY StepActs DEF Acts, vars
<1>4. \A c \in Ids : Fine(c)
  BY <1>1, <1>3 DEF PlainOnce, PlainSources
<1>5. ASSUME NEW c \in Ids, catalogs'[c] = catalogs[c], Of(c)' = Of(c)
      PROVE  Fine(c)'
  BY <1>4, <1>5 DEF Exists
<1>6. CASE UNCHANGED <<catalogs, sources, trail>>
  BY <1>5, <1>6 DEF Of
<1>7. ASSUME NEW r \in Requests, PostCatalog(r) PROVE \A c \in Ids : Fine(c)'
  <2>1. PICK c \in Ids, alt \in Alts \cup {Root, None} :
           /\ catalogs' = [catalogs EXCEPT ![c] = alt]
           /\ alt = Root <=> Of(c)' = {}
           /\ \A x, y \in Of(c)' : x.url = y.url => x = y
           /\ \A d \in Ids \ {c} : Of(d)' = Of(d)
    BY <1>7, PostedAlone
  <2>2. Fine(c)'
    BY <2>1 DEF TypeOK
  <2>3. \A d \in Ids \ {c} : Fine(d)'
    BY <1>5, <2>1 DEF TypeOK
  <2> QED BY <2>2, <2>3
<1>8. ASSUME NEW r \in Requests, Save(r) PROVE \A c \in Ids : Fine(c)'
  <2>1. PICK c \in Ids : c = local[r].id
    BY <1>8, Written
  <2>2. PICK alt \in Alts \cup {Root, None}, want \in SUBSET Urls :
           SavesPlainly(r, c, alt, want)
    BY <1>8, <2>1, SavedAlone
  <2>3. want = {} <=> Of(c)' = {}
    BY <2>2 DEF SavesPlainly
  <2>4. Fine(c)'
    BY <2>2, <2>3 DEF TypeOK, SavesPlainly
  <2>5. \A d \in Ids \ {c} : Fine(d)'
    BY <1>5, <2>2 DEF TypeOK, SavesPlainly
  <2> QED BY <2>4, <2>5
<1>9. ASSUME NEW r \in Requests, DeleteRow(r) PROVE \A c \in Ids : Fine(c)'
  <2>1. PICK c \in Ids : c = local[r].id
    BY <1>9 DEF DeleteRow, Answered, Reading
  <2>2. CASE UNCHANGED <<catalogs, sources>>
    BY <1>5, <2>2 DEF Of
  <2>3. CASE /\ catalogs' = [catalogs EXCEPT ![c] = Gone]
             /\ sources' = sources \ Of(c)
    <3>1. Of(c)' = {} /\ ~ Exists(c)'
      BY <2>3 DEF Of, Exists, TypeOK
    <3>2. \A d \in Ids \ {c} : Of(d)' = Of(d) /\ catalogs'[d] = catalogs[d]
      BY <2>3 DEF Of, TypeOK
    <3> QED BY <1>5, <3>1, <3>2
  <2> QED BY <1>9, <2>1, <2>2, <2>3 DEF DeleteRow
<1>10. ASSUME NEW r \in Requests, MergeAnalysis(r)
       PROVE  \A c \in Ids : Fine(c)'
  BY <1>5, <1>10 DEF MergeAnalysis, Of
<1> QED BY <1>6, <1>7, <1>8, <1>9, <1>10, StepWrites

\* In a plain behaviour nothing is tied to a catalog that is not there.
LEMMA PlainUntiedStep ==
    ASSUME CatalogsAssumption, TypeOK, Answered, ItemsBorn, InStep, PlainOnce,
           NoSourceLeftBehind, PlainUntied, [Next]_vars
    PROVE  PlainUntied'
<1> SUFFICES ASSUME plain'
             PROVE  \A x \in items' : x.owner # None =>
                                         catalogs'[x.owner] # Root
  BY DEF PlainUntied, RootUntied
<1>1. plain
  BY StepActs DEF Acts, vars
<1>2. \A x \in items : /\ x.owner \in Ids \cup {None}
                       /\ x.owner # None => /\ catalogs[x.owner] # Root
                                            /\ catalogs[x.owner] # Unborn
  BY <1>1 DEF TypeOK, Items, ItemsBorn, PlainUntied, RootUntied
<1>3. ASSUME NEW r \in Requests, CreateItem(r) \/ CreateLog(r)
      PROVE  local[r].id # None => catalogs[local[r].id] # Root
  <2>1. Within(r)
    BY <1>1, <1>3 DEF CreateItem, CreateLog, InStep, Current, Owning
  <2> QED BY <2>1 DEF Within, Owner
<1>4. CASE UNCHANGED catalogs
  <2>1. \A x \in items' \ items :
           x.owner # None => catalogs[x.owner] # Root
    BY <1>3, ItemsGrow
  <2> QED BY <1>2, <1>4, <2>1
<1>5. ASSUME catalogs' # catalogs
      PROVE  /\ items' = items
             /\ \A c \in Ids : catalogs'[c] = Root =>
                                  catalogs[c] \in {Root, Unborn}
  <2>1. PICK r \in Requests : \/ PostCatalog(r) \/ Save(r)
                              \/ DeleteRow(r) \/ MergeAnalysis(r)
    BY <1>5, StepWrites
  <2>2. items' = items
    BY <2>1 DEF PostCatalog, Save, DeleteRow, MergeAnalysis
  <2>3. CASE PostCatalog(r)
    <3>1. PICK c \in Ids, alt \in Alts \cup {Root, None} :
             /\ catalogs[c] = Unborn
             /\ catalogs' = [catalogs EXCEPT ![c] = alt]
      BY <2>3, Posted
    <3> QED BY <2>2, <3>1 DEF TypeOK
  <2>4. CASE Save(r)
    <3>1. PICK c \in Ids : c = local[r].id
      BY <2>4, Written
    <3>2. PICK alt \in Alts \cup {Root, None}, want \in SUBSET Urls :
             SavesPlainly(r, c, alt, want)
      BY <2>4, <3>1, SavedAlone
    <3> QED BY <2>2, <3>2 DEF TypeOK, SavesPlainly
  <2>5. CASE DeleteRow(r)
    <3>1. PICK c \in Ids : c = local[r].id
      BY <2>5 DEF DeleteRow, Answered, Reading
    <3>2. catalogs' = [catalogs EXCEPT ![c] = Gone]
      BY <1>5, <2>5, <3>1 DEF DeleteRow
    <3> QED BY <2>2, <3>2, Distinct DEF TypeOK
  <2>6. CASE MergeAnalysis(r)
    BY <1>5, <2>6 DEF MergeAnalysis
  <2> QED BY <2>1, <2>3, <2>4, <2>5, <2>6
<1>6. CASE catalogs' # catalogs
  BY <1>2, <1>5, <1>6
<1> QED BY <1>4, <1>6

-----------------------------------------------------------------------------
(* The invariant. *)

\* The invariant holds at the start.
LEMMA CInvStart == ASSUME CatalogsAssumption, Init PROVE CInv
<1>1. /\ catalogs \in [Ids -> Alts \cup {Root, None, Unborn}]
      /\ \A c \in Ids : Of(c) = {} <=> catalogs[c] \in {Root, Unborn}
      /\ trail = <<>>
      /\ pc = [r \in Requests |-> "idle"]
      /\ local = [r \in Requests |-> Nothing]
      /\ reply = [r \in Requests |-> None]
      /\ kinds \in Workloads /\ plain = TRUE
  BY DEF Init
<1>2. sources \subseteq [by : {Seed}, url : Urls, copy : {1}, owner : Ids]
  BY DEF Init
<1>3. /\ items \subseteq [by : {Seed}, kind : {"publisher", "software"},
                          owner : Ids \cup {None}]
      /\ \A x \in items : x.owner # None => Of(x.owner) # {}
  <2>1. PICK owner \in {None} \cup {c \in Ids : Of(c) # {}} :
           items \in SUBSET [by : {Seed}, kind : {"publisher", "software"},
                             owner : {owner}]
    BY DEF Init
  <2> QED BY <2>1
<1>4. sources \subseteq Rows /\ items \subseteq Items
  BY <1>2, <1>3 DEF Rows, Items, CatalogsAssumption
<1>5. TypeOK
  <2>1. Nothing \in Locals
    <3>1. /\ None \in Ids \cup {None} /\ None \in Alts \cup {Root, None}
          /\ {} \in SUBSET Rows /\ None \in (SUBSET Urls) \cup {None}
          /\ None \in Ids \cup {Root, None} /\ None \in Items \cup {None}
      OBVIOUS
    <3> QED BY <3>1 DEF Nothing, Locals
  <2>2. "idle" \in Places
    BY DEF Places
  <2> QED BY <1>1, <1>4, <2>1, <2>2 DEF TypeOK
<1>6. \A r \in Requests : /\ pc[r] = "idle" /\ reply[r] = None
                          /\ local[r].id = None /\ local[r].want = None
  BY <1>1 DEF Nothing
<1>7. Answered
  BY <1>6 DEF Answered, Reading
<1>8. LateOnes
  <2>1. {r \in Requests : pc[r] # "idle"} = {}
    BY <1>6
  <2>2. ASSUME NEW c \in Ids
        PROVE  /\ Count("delete", c) = IF catalogs[c] = Gone THEN 1 ELSE 0
               /\ Cardinality(Late(trail, c, Deletion(c)))
                     <= Cardinality(Saved(c))
    <3>1. Count("delete", c) = Cardinality(Hits(<<>>, Deletion(c)))
      BY <1>1 DEF Count, Hits, Deletion
    <3>2. catalogs[c] # Gone
      BY <1>1, Distinct
    <3>3. Late(trail, c, Deletion(c)) = {} /\ Saved(c) = {}
      BY <1>1, <1>6 DEF Late, Saved
    <3>4. Cardinality(Hits(<<>>, Deletion(c))) = 0
      BY HitsEmpty
    <3>5. Cardinality({}) = 0
      BY FS_EmptySet
    <3> QED BY <3>1, <3>2, <3>3, <3>4, <3>5
  <2> QED BY <2>1, <2>2, FS_EmptySet DEF LateOnes
<1>9. NoSourceLeftBehind
  <2>1. ASSUME NEW x \in sources PROVE Exists(x.owner)
    <3>1. PICK c \in Ids : c = x.owner
      BY <1>2
    <3>2. Of(c) # {}
      BY <3>1 DEF Of
    <3> QED BY <1>1, <3>1, <3>2, Distinct DEF Exists
  <2> QED BY <2>1 DEF NoSourceLeftBehind
<1>10. ItemsBorn /\ PlainUntied
  <2>1. ASSUME NEW x \in items, x.owner # None
        PROVE  catalogs[x.owner] \notin {Root, Unborn}
    <3>1. PICK c \in Ids : c = x.owner
      BY <1>3, <2>1
    <3> QED BY <1>1, <1>3, <2>1, <3>1
  <2> QED BY <2>1 DEF ItemsBorn, PlainUntied, RootUntied
<1>11. Turns /\ InStep
  BY <1>6 DEF Turns, InStep, Current, Resting, Reading, Owning
<1>12. PlainOnce
  BY <1>2 DEF PlainOnce
<1>13. PlainSources
  BY <1>1 DEF PlainSources, Exists
<1> QED BY <1>5, <1>7, <1>8, <1>9, <1>10, <1>11, <1>12, <1>13 DEF CInv

\* The invariant is inductive.
LEMMA CInvStep == ASSUME CatalogsAssumption, CInv, [Next]_vars PROVE CInv'
BY TypeStep, AnsweredStep, LateOnesStep, NoSourceStep, ItemsBornStep,
   TurnsStep, InStepStep, PlainSourcesStep, PlainUntiedStep DEF CInv

\* The invariant holds in every state.
LEMMA CInvInvariant == Spec => []CInv
<1>1. Init => CInv
  BY CInvStart, CatalogsAssumption
<1>2. CInv /\ [Next]_vars => CInv'
  BY CInvStep, CatalogsAssumption
<1> QED BY <1>1, <1>2, PTL DEF Spec

-----------------------------------------------------------------------------
(* The properties. *)

\* OneDelete is what LateOnes counts.
LEMMA OneDeleteHolds == ASSUME LateOnes PROVE OneDelete
BY DEF LateOnes, OneDelete, Late, Saved, Deletion

\* Who deletes has counted nothing in the catalog, by its id and, the root, by
\* none.
LEMMA DeleteStep ==
    ASSUME CatalogsAssumption, CInv, [Next]_vars, plain, NEW c \in Ids,
           Exists(c), catalogs'[c] = Gone
    PROVE  /\ \A x \in Resources : x.owner # c
           /\ catalogs[c] = Root => \A x \in Resources : x.owner # None
<1> USE DEF CInv
<1>1. PICK r \in Requests : DeleteRow(r) /\ local[r].id = c
  <2>1. catalogs'[c] # catalogs[c]
    BY DEF Exists
  <2>2. PICK r \in Requests : \/ PostCatalog(r) \/ Save(r)
                              \/ DeleteRow(r) \/ MergeAnalysis(r)
    BY <2>1, StepWrites
  <2>3. ~ PostCatalog(r)
    <3> SUFFICES ASSUME PostCatalog(r) PROVE FALSE
      OBVIOUS
    <3>1. PICK d \in Ids, alt \in Alts \cup {Root, None} :
             catalogs' = [catalogs EXCEPT ![d] = alt]
      BY Posted
    <3> QED BY <2>1, <3>1, Distinct DEF TypeOK
  <2>4. ~ Save(r)
    <3> SUFFICES ASSUME Save(r) PROVE FALSE
      OBVIOUS
    <3>1. PICK d \in Ids : d = local[r].id
      BY Written
    <3>2. PICK alt \in Alts \cup {Root, None} :
             catalogs' = IF Exists(d) THEN [catalogs EXCEPT ![d] = alt]
                         ELSE catalogs
      BY <3>1, Written
    <3> QED BY <2>1, <3>2, Distinct DEF TypeOK
  <2>5. ~ MergeAnalysis(r)
    BY <2>1 DEF MergeAnalysis
  <2>6. DeleteRow(r)
    BY <2>2, <2>3, <2>4, <2>5
  <2>7. local[r].id = c
    BY <2>1, <2>6 DEF DeleteRow, TypeOK
  <2> QED BY <2>6, <2>7
<1>2. /\ local[r].alt = catalogs[c]
      /\ \A x \in Resources : ~ InScope(r, x)
  BY <1>1 DEF DeleteRow, InStep, Current, Reading
<1>3. \A x \in Resources : x.owner # None => catalogs[x.owner] # Root
  BY DEF Resources, PlainUntied, RootUntied
<1>4. c # None
  BY Distinct
<1> QED BY <1>1, <1>2, <1>3, <1>4 DEF InScope

\* A PATCH that answers has saved.
LEMMA InLineStep ==
    ASSUME CatalogsAssumption, CInv, [Next]_vars, NEW r \in Requests,
           plain', pc[r] = "save", reply'[r] = "ok"
    PROVE  /\ {x.url : x \in Of(local[r].id)'} = local'[r].want
           /\ \A x, y \in Of(local[r].id)' : x.url = y.url => x = y
<1> USE DEF CInv
<1>1. reply[r] = None /\ None # "ok"
  BY DEF Answered, CatalogsAssumption
<1>2. Save(r)
  BY <1>1, StepActs DEF Acts, vars
<1>3. PICK c \in Ids : c = local[r].id
  BY <1>2, Written
<1>4. PICK alt, want : SavesPlainly(r, c, alt, want)
  BY <1>2, <1>3, SavedAlone
<1>5. local'[r].want = want /\ local'[r].id = c
  BY <1>3, <1>4, LocalStays DEF SavesPlainly
<1>6. Of(local[r].id)' = Of(c)'
  BY <1>5 DEF Of
<1>7. /\ {x.url : x \in Of(c)'} = want
      /\ \A x, y \in Of(c)' : x.url = y.url => x = y
  BY <1>4 DEF SavesPlainly
<1> QED BY <1>5, <1>6, <1>7

-----------------------------------------------------------------------------
(* The theorems. *)

\* The columns of catalogs, sources, resources, the trail and the requests
\* have the types catalogs.go and the models give them.
THEOREM TypeCorrect == Spec => []TypeOK
<1>1. CInv => TypeOK
  BY DEF CInv
<1> QED BY <1>1, CInvInvariant, PTL

\* DeleteCatalog: of the requests that resolve and count the same catalog
\* exactly one deletes and records it, and what is recorded of it after that
\* is at most the updates of as many PATCHes, whatever the others do.
THEOREM OneDeleteCorrect == Spec => []OneDelete
<1>1. CInv => OneDelete
  BY OneDeleteHolds DEF CInv
<1> QED BY <1>1, CInvInvariant, PTL

\* DeleteCatalog and the foreign key of catalog_sources: no source is left
\* without its catalog, also where a PATCH commits after the DELETE.
THEOREM NoSourceLeftBehindCorrect == Spec => []NoSourceLeftBehind
<1>1. CInv => NoSourceLeftBehind
  BY DEF CInv
<1> QED BY <1>1, CInvInvariant, PTL

\* catalogOwnerID, in plain behaviours: nothing carries the id of the root's
\* row, whatever the sequence of POSTs, PATCHes and DELETEs.
THEOREM PlainUntiedCorrect == Spec => []PlainUntied
<1>1. CInv => PlainUntied
  BY DEF CInv
<1> QED BY <1>1, CInvInvariant, PTL

\* The checks of PostCatalog and PatchCatalog, in plain behaviours: the root
\* has no sources and every other catalog has some.
THEOREM PlainSourcesCorrect == Spec => []PlainSources
<1>1. CInv => PlainSources
  BY DEF CInv
<1> QED BY <1>1, CInvInvariant, PTL

\* The two counts of DeleteCatalog, in plain behaviours: no deletion leaves a
\* publisher or software of the catalog, or of the root, behind.
THEOREM PlainDeleteCorrect == Spec => PlainDelete
<1>1. CInv /\ [Next]_vars =>
         [plain => \A c \in Ids : Exists(c) /\ catalogs'[c] = Gone =>
             /\ \A x \in Resources : x.owner # c
             /\ catalogs[c] = Root =>
                   \A x \in Resources : x.owner # None]_vars
  BY CatalogsAssumption, DeleteStep
<1> QED BY <1>1, CInvInvariant, PTL DEF Spec, PlainDelete

\* belongsToCatalog, in plain behaviours: a PATCH of a publisher or software
\* changes one of the catalog its path names, the root without a row, by its
\* row's id or by its alternative id included.
THEOREM PlainWithinCorrect == Spec => PlainWithin
<1>1. CInv =>
         (plain => \A r \in Requests :
             pc[r] = "saveItem" =>
                LET path == local[r].path IN
                \/ \E c \in Resolved(path) : local[r].item.owner = Owner(c)
                \/ path = Root /\ local[r].item.owner = None)
  BY DEF CInv, InStep, Current, Owning, Within
<1>2. CInv /\ [Next]_vars =>
         [plain => \A r \in Requests :
             pc[r] = "saveItem" /\ reply'[r] = "ok" =>
                LET path == local[r].path IN
                \/ \E c \in Resolved(path) : local[r].item.owner = Owner(c)
                \/ path = Root /\ local[r].item.owner = None]_vars
  BY <1>1
<1> QED BY <1>2, CInvInvariant, PTL DEF Spec, PlainWithin

\* syncSources, in plain behaviours: a PATCH leaves the sources it asked for,
\* each once, whichever copy its map held.
THEOREM PlainInLineCorrect == Spec => PlainInLine
<1>1. CInv /\ [Next]_vars =>
         [\A r \in Requests :
             plain' /\ pc[r] = "save" /\ reply'[r] = "ok" =>
                /\ {x.url : x \in Of(local[r].id)'} = local'[r].want
                /\ \A x, y \in Of(local[r].id)' :
                      x.url = y.url => x = y]_vars
  BY CatalogsAssumption, InLineStep
<1> QED BY <1>1, CInvInvariant, PTL DEF Spec, PlainInLine
=============================================================================
