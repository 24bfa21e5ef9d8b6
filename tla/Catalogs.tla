------------------------------- MODULE Catalogs -------------------------------
(***************************************************************************)
(* internal/handlers/catalogs.go: catalogs with their sources, and what     *)
(* carries a catalog's id, publishers, software and logs, under concurrent *)
(* requests on PostgreSQL (READ COMMITTED: every query sees what is        *)
(* committed when it runs).                                                *)
(*                                                                         *)
(* The root catalog is implicit, a path of "∅" without a row, or the row   *)
(* whose alternative id is Root; either way its resources carry no id.     *)
(* catalog_id has no foreign key, catalog_sources.catalog_id has one that  *)
(* cascades.  Commits are single steps, as in Software.tla, except for     *)
(* DeleteCatalog's, which counts before it deletes.                        *)
(***************************************************************************)
EXTENDS Naturals, Sequences, FiniteSets

CONSTANTS Ids,       \* catalog ids
          Requests,  \* the requests, each handled once
          Workloads, \* the sets of handlers that requests call for
          Urls,      \* normalised URLs of sources
          Copies,    \* BOUND: 1..n, how often a POST body may list a URL
          Alts,      \* alternative ids other than the root's
          Patched,   \* the alternative ids a PATCH body may carry
          Root,      \* the alternative id of the root catalog
          Seed,      \* stands for the request that made the initial rows
          None,      \* no value
          Unborn,    \* stands for the row of a catalog not created yet
          Gone       \* stands for the row of a catalog that was deleted

Handlers == {"post", "patch", "delete", "item", "remove", "patchItem", "log",
             "analysis"}

ASSUME CatalogsAssumption ==
    /\ Workloads \subseteq SUBSET Handlers
    /\ Patched \subseteq Alts \cup {Root}
    /\ Root \notin Alts
    /\ {None, Unborn, Gone} \cap (Alts \cup Ids \cup {Root}) = {}
    /\ Cardinality({None, Unborn, Gone}) = 3
    /\ None \notin {"ok", "notfound", "conflict", "error"}
    /\ \A want \in SUBSET Urls : want # None
    /\ Seed \notin Requests
    /\ 1 \in Copies

\* A row of catalog_sources, told apart by who made it and the copy it is.
Rows == [by : Requests \cup {Seed}, url : Urls, copy : Copies, owner : Ids]

\* A publisher or software with its catalog_id, a log with its entity_id.
Items == [by : Requests \cup {Seed}, kind : {"publisher", "software", "log"},
          owner : Ids \cup {None}]

VARIABLES kinds,     \* the handlers that this behaviour runs
          catalogs,  \* per id the alternative id of the row, Unborn or Gone
          sources,   \* the rows of catalog_sources
          items,     \* the publishers, software and logs
          trail,     \* the events of catalogs, in commit order
          pc,        \* per request where its handler is
          local,     \* per request what its handler has read
          reply,     \* per request the answer
          plain      \* history: so far no two requests were handled at a
                     \* time, no PATCH made a catalog the root and no POST
                     \* listed a source twice

vars == <<kinds, catalogs, sources, items, trail, pc, local, reply, plain>>

Nothing == [id |-> None, alt |-> None, rows |-> {}, busy |-> FALSE,
            want |-> None, path |-> None, item |-> None]
Locals == [id : Ids \cup {None},             \* the catalog that was resolved
           alt : Alts \cup {Root, None},     \* its alternative id at that time
           rows : SUBSET Rows,               \* its sources that were read
           busy : BOOLEAN,                   \* the count found a publisher
           want : (SUBSET Urls) \cup {None}, \* the sources the PATCH asked for
           path : Ids \cup {Root, None},     \* history: what the path named
           item : Items \cup {None}]         \* the resource that was loaded

Places == {"idle", "sources", "save", "insert", "publishers", "software",
           "row", "item", "saveItem", "insertLog", "merge", "done"}

TypeOK ==
    /\ kinds \in Workloads
    /\ catalogs \in [Ids -> Alts \cup {Root, None, Unborn, Gone}]
    /\ sources \in SUBSET Rows
    /\ items \in SUBSET Items
    /\ trail \in Seq([type : {"create", "update", "delete"}, id : Ids])
    /\ pc \in [Requests -> Places]
    /\ local \in [Requests -> Locals]
    /\ reply \in [Requests -> {None, "ok", "notfound", "conflict", "error"}]
    /\ plain \in BOOLEAN

Exists(c) == catalogs[c] \notin {Unborn, Gone}

Of(c) == {x \in sources : x.owner = c}

\* The unique index on catalogs.alternative_id lets c have alt.
AltFree(c, alt) == alt = None \/ \A d \in Ids \ {c} : catalogs[d] # alt

\* At the start there are catalogs with a source each, or a root without any,
\* and resources in some of them.
Init ==
    /\ kinds \in Workloads
    /\ catalogs \in {f \in [Ids -> Alts \cup {Root, None, Unborn}] :
                        \A c, d \in Ids :
                           c # d /\ f[c] = f[d] => f[c] \in {None, Unborn}}
    /\ sources \in SUBSET [by : {Seed}, url : Urls, copy : {1}, owner : Ids]
    /\ \A c \in Ids : Of(c) = {} <=> catalogs[c] \in {Root, Unborn}
    /\ \E owner \in {None} \cup {c \in Ids : Of(c) # {}} :
          items \in SUBSET [by : {Seed}, kind : {"publisher", "software"},
                            owner : {owner}]
    /\ trail = <<>>
    /\ pc = [r \in Requests |-> "idle"]
    /\ local = [r \in Requests |-> Nothing]
    /\ reply = [r \in Requests |-> None]
    /\ plain = TRUE

-----------------------------------------------------------------------------
Answer(r, status) == /\ pc' = [pc EXCEPT ![r] = "done"]
                     /\ reply' = [reply EXCEPT ![r] = status]

Goto(r, place) == /\ pc' = [pc EXCEPT ![r] = place]
                  /\ UNCHANGED reply

Arrives(r, kind) == kind \in kinds /\ pc[r] = "idle"

\* No request is being handled.
Alone == \A q \in Requests : pc[q] \in {"idle", "done"}

\* The event a model hook records in the transaction.
Record(type, c) == trail' = Append(trail, [type |-> type, id |-> c])

\* resolveCatalog: the rows a path parameter matches, at most one.
Resolved(param) == {c \in Ids : Exists(c) /\ param \in {c, catalogs[c]}}
Params == Ids \cup {Root}

\* Any handler may end in an error before its write or in a transaction that
\* fails: nothing is written.
Fail(r) ==
    /\ \/ \E kind \in kinds : Arrives(r, kind) /\ plain' = (plain /\ Alone)
       \/ pc[r] \notin {"idle", "done"} /\ UNCHANGED plain
    /\ Answer(r, "error")
    /\ UNCHANGED <<catalogs, sources, items, trail, local>>

\* PostCatalog: sources on every catalog but the root.  buildSources keeps a
\* URL that the body lists twice.
PostCatalog(r) ==
    /\ Arrives(r, "post")
    /\ \E c \in Ids, alt \in Alts \cup {Root, None} :
       \E given \in SUBSET (Urls \X Copies) :
          /\ catalogs[c] = Unborn
          /\ alt = Root <=> given = {}
          /\ AltFree(c, alt)
          /\ catalogs' = [catalogs EXCEPT ![c] = alt]
          /\ sources' = sources \cup
                {[by |-> r, url |-> g[1], copy |-> g[2], owner |-> c] :
                    g \in given}
          /\ Record("create", c)
          /\ plain' = (plain /\ Alone /\ \A g, h \in given :
                                            g[1] = h[1] => g = h)
    /\ Answer(r, "ok")
    /\ UNCHANGED <<items, local>>

\* The first query of PatchCatalog and DeleteCatalog: a row, and not the
\* implicit root.
Find(r, kind, place) ==
    /\ Arrives(r, kind)
    /\ plain' = (plain /\ Alone)
    /\ \E param \in Params :
          \/ \E c \in Resolved(param) :
                /\ local' = [local EXCEPT ![r].id = c, ![r].alt = catalogs[c]]
                /\ Goto(r, place)
          \/ /\ Resolved(param) = {}
             /\ Answer(r, "notfound")
             /\ UNCHANGED local
    /\ UNCHANGED <<catalogs, sources, items, trail>>

FindForPatch(r) == Find(r, "patch", "sources")

\* PatchCatalog, second query: the preload of Sources.
LoadSources(r) ==
    /\ pc[r] = "sources"
    /\ local' = [local EXCEPT ![r].rows = Of(local[r].id)]
    /\ Goto(r, "save")
    /\ UNCHANGED <<catalogs, sources, items, trail, plain>>

\* syncSources: its map holds one of the rows that were read for each URL.
Maps(rows) == {map \in SUBSET rows :
                  /\ {x.url : x \in map} = {x.url : x \in rows}
                  /\ \A x, y \in map : x.url = y.url => x = y}
KeptAll(map, want) == map       \* mutant: nothing is removed
Kept(map, want) == {x \in map : x.url \in want}
Added(r, map, want) ==
    {[by |-> r, url |-> u, copy |-> 1, owner |-> local[r].id] :
        u \in want \ {x.url : x \in map}}

\* The checks of PatchCatalog before its transaction, on the row as it was
\* read: the root stays the root and has no sources, the others have some.
AllowedEmpty(r, alt, want) ==   \* mutant: sources are not checked
    local[r].alt = Root => alt = Root /\ want = {}
Allowed(r, alt, want) == /\ local[r].alt = Root => alt = Root
                         /\ local[r].alt = Root <=> want = {}

\* The foreign key of catalog_sources.
Unreferenced(c, put) == TRUE    \* mutant: no foreign key
Referenced(c, put) == put \ sources # {} => Exists(c)

\* PatchCatalog's transaction.  What the body leaves out keeps the value that
\* was read, which is among the choices, and is written all the same.  The
\* driver or the arguments of some sources may change: saving such a row
\* inserts it again when it is gone.  Inserting a source needs the catalog,
\* saving the columns does not, and the hook records its event either way.
Save(r) ==
    /\ pc[r] = "save"
    /\ \E alt \in Patched \cup {None, local[r].alt}, want \in SUBSET Urls :
       \E map \in Maps(local[r].rows) :
       \E changed \in SUBSET Kept(map, want) :
          LET c == local[r].id
              put == Added(r, map, want) \cup changed
          IN
          /\ Allowed(r, alt, want)
          /\ Referenced(c, put)
          /\ Exists(c) => AltFree(c, alt)
          /\ sources' = (sources \ (map \ Kept(map, want))) \cup put
          /\ catalogs' = IF Exists(c) THEN [catalogs EXCEPT ![c] = alt]
                         ELSE catalogs
          /\ Record("update", c)
          /\ local' = [local EXCEPT ![r].want = want]
          /\ plain' = (plain /\ (alt = Root => local[r].alt = Root))
    /\ Answer(r, "ok")
    /\ UNCHANGED items

-----------------------------------------------------------------------------
(* DeleteCatalog: the lookup, then the two counts and the deletes in a     *)
(* transaction that does not lock what it counted.                         *)

\* catalogScope of the row that was read.
InScope(r, x) == x.owner = IF local[r].alt = Root THEN None ELSE local[r].id

FindForDelete(r) == Find(r, "delete", "publishers")

CountPublishers(r) ==
    /\ pc[r] = "publishers"
    /\ local' = [local EXCEPT ![r].busy =
                    \E x \in items : x.kind = "publisher" /\ InScope(r, x)]
    /\ Goto(r, "software")
    /\ UNCHANGED <<catalogs, sources, items, trail, plain>>

CountUnheeded(r) ==             \* mutant: software is not counted
    /\ pc[r] = "software"
    /\ IF local[r].busy THEN Answer(r, "conflict") ELSE Goto(r, "row")
    /\ UNCHANGED <<catalogs, sources, items, trail, local, plain>>
CountSoftware(r) ==
    /\ pc[r] = "software"
    /\ IF \/ local[r].busy
          \/ \E x \in items : x.kind = "software" /\ InScope(r, x)
       THEN Answer(r, "conflict")
       ELSE Goto(r, "row")
    /\ UNCHANGED <<catalogs, sources, items, trail, local, plain>>

\* The sources and the row go; when the row is gone already deleteResult
\* fails the transaction, hook event and all.
Unchecked(c) == TRUE            \* mutant: no deleteResult
DeleteResult(c) == Exists(c)
DeleteRow(r) ==
    /\ pc[r] = "row"
    /\ LET c == local[r].id IN
          \/ /\ DeleteResult(c)
             /\ sources' = sources \ Of(c)
             /\ catalogs' = [catalogs EXCEPT ![c] = Gone]
             /\ Record("delete", c)
             /\ Answer(r, "ok")
          \/ /\ ~ DeleteResult(c)
             /\ Answer(r, "notfound")
             /\ UNCHANGED <<catalogs, sources, trail>>
    /\ UNCHANGED <<items, local, plain>>

-----------------------------------------------------------------------------
(* The resources and logs of a catalog: the lookup of the catalog, then     *)
(* the write, with nothing around the two.                                 *)

\* catalogOwnerID, also what belongsToCatalog compares with.
OwnerAlternative(c) == catalogs[c] \* mutant: it is the alternative id
OwnerAlways(c) == c             \* mutant: the root's row owns its resources
Owner(c) == IF catalogs[c] = Root THEN None ELSE c

\* The first query: a row, or the implicit root.
FindOwner(r, kind, place) ==
    /\ Arrives(r, kind)
    /\ plain' = (plain /\ Alone)
    /\ \E param \in Params :
          \/ \E c \in Resolved(param) :
                /\ local' = [local EXCEPT ![r].id = Owner(c),
                                         ![r].path = param]
                /\ Goto(r, place)
          \/ /\ Resolved(param) = {}
             /\ IF param = Root THEN Goto(r, place)
                ELSE Answer(r, "notfound")
             /\ local' = [local EXCEPT ![r].path = param]
    /\ UNCHANGED <<catalogs, sources, items, trail>>

Insert(r, kind) ==
    /\ items' = items \cup {[by |-> r, kind |-> kind, owner |-> local[r].id]}
    /\ Answer(r, "ok")
    /\ UNCHANGED <<catalogs, sources, trail, local, plain>>

\* PostCatalogPublisher, PostCatalogSoftware.
FindForItem(r) == FindOwner(r, "item", "insert")
CreateItem(r) == /\ pc[r] = "insert"
                 /\ \E kind \in {"publisher", "software"} : Insert(r, kind)

\* PostCatalogLog; a log of the root names no entity.
FindForLog(r) == FindOwner(r, "log", "insertLog")
CreateLog(r) == pc[r] = "insertLog" /\ Insert(r, "log")

\* PatchCatalogPublisher, PatchCatalogSoftware: the resource is another query.
FindForPatchItem(r) == FindOwner(r, "patchItem", "item")

BelongsLoosely(r, x) ==         \* mutant: to the root everything belongs
    local[r].id \in {None, x.owner}
Belongs(r, x) == x.owner = local[r].id
LoadItem(r) ==
    /\ pc[r] = "item"
    /\ \/ \E x \in items :
             /\ x.kind # "log"
             /\ IF Belongs(r, x)
                THEN /\ local' = [local EXCEPT ![r].item = x]
                     /\ Goto(r, "saveItem")
                ELSE Answer(r, "notfound") /\ UNCHANGED local
       \/ Answer(r, "notfound") /\ UNCHANGED local
    /\ UNCHANGED <<catalogs, sources, items, trail, plain>>

\* updatePublisher and updateSoftware: catalog_id is not one of the columns
\* they save; what they do save is in Publishers.tla and Software.tla.
SaveItem(r) ==
    /\ pc[r] = "saveItem"
    /\ Answer(r, "ok")
    /\ UNCHANGED <<catalogs, sources, items, trail, local, plain>>

\* DeletePublisher and DeleteSoftware, for what they do to a catalog.
RemoveItem(r) ==
    /\ Arrives(r, "remove")
    /\ plain' = (plain /\ Alone)
    /\ \E x \in items : x.kind # "log" /\ items' = items \ {x}
    /\ Answer(r, "ok")
    /\ UNCHANGED <<catalogs, sources, trail, local>>

-----------------------------------------------------------------------------
\* PatchCatalogAnalysis: the merge (its document is in Software.tla) fails with
\* the row gone, and its event with it.
FindForAnalysis(r) == Find(r, "analysis", "merge")

MergeAnalysis(r) ==
    /\ pc[r] = "merge"
    /\ \/ /\ Exists(local[r].id)
          /\ Record("update", local[r].id)
          /\ Answer(r, "ok")
       \/ /\ ~ Exists(local[r].id)
          /\ Answer(r, "notfound")
          /\ UNCHANGED trail
    /\ UNCHANGED <<catalogs, sources, items, local, plain>>

Next == /\ \E r \in Requests : \/ Fail(r)
                               \/ PostCatalog(r)
                               \/ FindForPatch(r)
                               \/ LoadSources(r)
                               \/ Save(r)
                               \/ FindForDelete(r)
                               \/ CountPublishers(r)
                               \/ CountSoftware(r)
                               \/ DeleteRow(r)
                               \/ FindForItem(r)
                               \/ CreateItem(r)
                               \/ FindForLog(r)
                               \/ CreateLog(r)
                               \/ FindForPatchItem(r)
                               \/ LoadItem(r)
                               \/ SaveItem(r)
                               \/ RemoveItem(r)
                               \/ FindForAnalysis(r)
                               \/ MergeAnalysis(r)
        /\ UNCHANGED kinds

Spec == Init /\ [][Next]_vars

-----------------------------------------------------------------------------
(* Properties *)

Resources == {x \in items : x.kind # "log"}

Count(type, c) ==
    Cardinality({i \in DOMAIN trail : trail[i] = [type |-> type, id |-> c]})

\* Of the requests that resolve and count the same catalog, one deletes it and
\* records it, and a refused or late one records nothing; after that only
\* PATCHes that read the catalog before do, an analysis does not.
OneDelete ==
    \A c \in Ids :
       LET late == {j \in DOMAIN trail :
                      /\ trail[j].id = c
                      /\ \E i \in 1..(j - 1) :
                            trail[i] = [type |-> "delete", id |-> c]}
       IN /\ Count("delete", c) = IF catalogs[c] = Gone THEN 1 ELSE 0
          /\ Cardinality(late) <=
                Cardinality({r \in Requests : /\ local[r].id = c
                                              /\ local[r].want # None})

\* No source outlives its catalog, also when a PATCH that read the sources
\* earlier puts them back after the DELETE.
NoSourceLeftBehind == \A x \in sources : Exists(x.owner)

\* catalogs.go:221: DeleteCatalog "Returns 409 if the catalog still has
\* associated publishers or software": no deletion leaves a resource of the
\* catalog behind.
DeleteRefused ==
    [][\A c \in Ids : Exists(c) /\ catalogs'[c] = Gone =>
          \A x \in Resources : x.owner # c]_vars

\* catalogs.go:223: "root resources are never tied to the row's UUID": nothing
\* carries the id of the root's row, or the root's routes would miss it.
RootUntied == \A x \in items : x.owner # None => catalogs[x.owner] # Root

\* What is left of these as long as requests come one at a time, no PATCH
\* makes a catalog the root and no POST lists a source twice, whatever the
\* sequence of requests: a deletion is refused while the catalog or the root
\* has resources, ...
PlainDelete == [][plain =>
    \A c \in Ids : Exists(c) /\ catalogs'[c] = Gone =>
       /\ \A x \in Resources : x.owner # c
       /\ catalogs[c] = Root => \A x \in Resources : x.owner # None]_vars

\* ... a PATCH of a resource through a catalog's path changes a resource of
\* the catalog the path names (catalogs.go:63-64), whether it is the root by
\* its row, by its id or without a row, ...
PlainWithin == [][plain =>
    \A r \in Requests : pc[r] = "saveItem" /\ reply'[r] = "ok" =>
       LET path == local[r].path IN
       \/ \E c \in Resolved(path) : local[r].item.owner = Owner(c)
       \/ path = Root /\ local[r].item.owner = None]_vars

\* ... the root's row owns nothing, ...
PlainUntied == plain => RootUntied

\* ... the other catalogs have sources and the root has none, ...
PlainSources == plain =>
    \A c \in Ids : Exists(c) => (catalogs[c] = Root <=> Of(c) = {})

\* ... and a PATCH leaves the sources it asked for, each once
\* (catalogs.go:421: syncSources "brings the catalog_sources table in line with
\* the desired state").
PlainInLine ==
    [][\A r \in Requests :
          plain' /\ pc[r] = "save" /\ reply'[r] = "ok" =>
             /\ {x.url : x \in Of(local[r].id)'} = local'[r].want
             /\ \A x, y \in Of(local[r].id)' : x.url = y.url => x = y]_vars
=============================================================================
