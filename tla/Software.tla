------------------------------- MODULE Software -------------------------------
(***************************************************************************)
(* internal/handlers/software.go: software with its canonical URL, aliases,*)
(* analysis, logs and audit trail, under concurrent requests on PostgreSQL.*)
(*                                                                         *)
(* A handler reads outside its transaction, one query after the other, and *)
(* then writes in one.  The transaction runs no query of its own: what it  *)
(* writes comes from the earlier reads and the body, and its row locks and *)
(* unique indexes order it with the others, so its effect is one step, the *)
(* commit.  A transaction that fails leaves nothing behind.                *)
(***************************************************************************)
EXTENDS Naturals, Sequences, FiniteSets

CONSTANTS Ids,         \* software ids
          Requests,    \* the requests, each handled once
          Workloads,   \* the sets of handlers a behaviour may be about
          Urls,        \* normalised URLs
          Namespaces,  \* namespaces of the analysis document
          Seed,        \* stands for the request that made the initial rows
          None,        \* no value
          Unborn,      \* stands for the row of a software not created yet
          Gone         \* stands for the row of a software that was deleted

\* Those of Bundles.tla included.
BundleHandlers == {"bundle", "patchBundle", "deleteBundle"}
Handlers == {"create", "patch", "delete", "analysis", "log", "patchLog",
             "deleteLog"} \cup BundleHandlers
Places == {"idle", "aliases", "url", "save", "insert", "message", "link",
           "links", "members", "check", "swap", "done"}

\* A row of software_urls.  A request writes at most once and never the same
\* URL twice, so its request, URL and software tell a row from all others.
Rows == [by : Requests \cup {Seed}, url : Urls, owner : Ids]

\* A row of logs: the software it is about, or None for a log of nothing.
Logs == [by : Requests \cup {Seed}, owner : Ids \cup {None}]

\* A row of software: the canonical URL stands for the columns of PATCH, the
\* analysis document holds per namespace the request that wrote it last.
Columns == [canonical : Rows, analysis : [Namespaces -> Requests \cup {None}]]

\* Seed and None are nothing else, None is no answer, Unborn and Gone no rows.
ASSUME SoftwareAssumption ==
    /\ Workloads \subseteq SUBSET Handlers
    /\ Seed \notin Requests
    /\ None \notin Requests \cup Ids \cup Rows \cup {Seed, Unborn, Gone}
    /\ None \notin {"ok", "notfound", "error"}
    /\ Unborn # Gone
    /\ Unborn \notin Columns /\ Gone \notin Columns

VARIABLES software,  \* per id the row, Unborn or Gone
          urls,      \* the rows of software_urls
          logs,      \* the live rows of logs: a DELETE sets deleted_at
          trail,     \* the events of software, in commit order
          pc,        \* per request where its handler is
          local,     \* per request what its handler has read or merged
          reply,     \* per request the answer: None, "ok", "notfound", "error"
          kinds,     \* the handlers this behaviour is about
          serial     \* history: no two requests were ever handled at a time

vars == <<software, urls, logs, trail, pc, local, reply, kinds, serial>>

Exists(s) == software[s] \notin {Unborn, Gone}

Nothing == [id |-> None, canonical |-> None, rows |-> {}, want |-> {},
            merged |-> {}, log |-> None]
Locals == [id : Ids \cup {None},         \* the software asked for
           canonical : Rows \cup {None}, \* its canonical row when it was read
           rows : SUBSET Rows,           \* the rows of its URLs that were read
           want : SUBSET Urls,           \* the URLs the PATCH asked for
          merged : SUBSET Namespaces,   \* the namespaces of the body merged
          log : Logs \cup {None}]       \* the log asked for

TypeOK ==
    /\ software \in [Ids -> Columns \cup {Unborn, Gone}]
    /\ urls \in SUBSET Rows
    /\ logs \in SUBSET Logs
    /\ trail \in Seq([type : {"create", "update", "delete"}, id : Ids])
    /\ pc \in [Requests -> Places]
    /\ local \in [Requests -> Locals]
    /\ reply \in [Requests -> {None, "ok", "notfound", "error"}]
    /\ kinds \in Workloads
    /\ serial \in BOOLEAN

\* At the start some software exists, with a canonical URL, aliases and logs;
\* the unique index on the URL holds.
Init ==
    /\ kinds \in Workloads
    /\ urls \in {x \in SUBSET [by : {Seed}, url : Urls, owner : Ids] :
                    \A a, b \in x : a.url = b.url => a = b}
    /\ software \in [Ids -> [canonical : urls,
                             analysis : {[n \in Namespaces |-> None]}]
                            \cup {Unborn}]
    /\ \A s \in Ids : IF Exists(s) THEN software[s].canonical.owner = s
                      ELSE \A x \in urls : x.owner # s
    /\ logs \in {{}, {l \in Logs : l.by = Seed /\ l.owner # None
                                   /\ "patchLog" \in kinds /\ Exists(l.owner)}}
    /\ trail = <<>>
    /\ pc = [r \in Requests |-> "idle"]
    /\ local = [r \in Requests |-> Nothing]
    /\ reply = [r \in Requests |-> None]
    /\ serial = TRUE

-----------------------------------------------------------------------------
Answer(r, status) == /\ pc' = [pc EXCEPT ![r] = "done"]
                     /\ reply' = [reply EXCEPT ![r] = status]

Goto(r, place) == /\ pc' = [pc EXCEPT ![r] = place]
                  /\ UNCHANGED reply

\* A request for a handler comes in.
Arrives(r, kind) ==
    /\ kind \in kinds
    /\ pc[r] = "idle"
    /\ serial' = (serial /\ \A q \in Requests : pc[q] \in {"idle", "done"})

\* The event a model hook records in the transaction.
Record(type, s) == trail' = Append(trail, [type |-> type, id |-> s])

NewRows(r, s, us) == {[by |-> r, url |-> u, owner |-> s] : u \in us}

\* The unique index on software_urls.url lets the rows in.
NoDuplicate(kept, added) == \A x \in kept, y \in added : x.url # y.url

\* Their foreign key does.
Referenced(s, added) == added # {} => Exists(s)

\* Any handler may end in an error before its write or in a transaction that
\* fails: a body that does not validate, a unique index that is violated, the
\* database.  Nothing is written.
Fail(r) ==
    /\ \/ \E kind \in kinds : Arrives(r, kind)
       \/ pc[r] \notin {"idle", "done"} /\ UNCHANGED serial
    /\ Answer(r, "error")
    /\ UNCHANGED <<software, urls, logs, trail, local>>

\* createSoftware: the software and its URLs in one transaction.
Create(r) ==
    /\ Arrives(r, "create")
    /\ \E s \in Ids, url \in Urls : \E aliases \in SUBSET (Urls \ {url}) :
          LET added == NewRows(r, s, aliases \cup {url}) IN
          /\ software[s] = Unborn
          /\ NoDuplicate(urls, added)
          /\ urls' = urls \cup added
          /\ software' = [software EXCEPT ![s] =
                [canonical |-> [by |-> r, url |-> url, owner |-> s],
                 analysis  |-> [n \in Namespaces |-> None]]]
          /\ Record("create", s)
          /\ local' = [local EXCEPT ![r].id = s]
    /\ Answer(r, "ok")
    /\ UNCHANGED logs

\* What deleteEntityLogs and the selected association leave, and whether
\* deleteResult lets the transaction commit.
AllLogs(s) == logs                     \* mutant: no deleteEntityLogs
LogsLeft(s) == {l \in logs : l.owner # s}
AllUrls(s) == urls                     \* mutant: Aliases is not selected
UrlsLeft(s) == {x \in urls : x.owner # s}
Unchecked(s) == TRUE                   \* mutant: no deleteResult
DeleteResult(s) == Exists(s)

\* DeleteSoftware: logs, URLs and row go in one transaction; when the row is
\* gone already it fails, hook event and all.
Delete(r) ==
    /\ Arrives(r, "delete")
    /\ \E s \in Ids :
          /\ local' = [local EXCEPT ![r].id = s]
          /\ \/ /\ DeleteResult(s)
                /\ logs' = LogsLeft(s)
                /\ urls' = UrlsLeft(s)
                /\ software' = [software EXCEPT ![s] = Gone]
                /\ Record("delete", s)
                /\ Answer(r, "ok")
             \/ /\ ~ DeleteResult(s)
                /\ Answer(r, "notfound")
                /\ UNCHANGED <<software, urls, logs, trail>>

-----------------------------------------------------------------------------
(* PatchSoftware: three queries, then the transaction. *)

\* loadSoftware, first query: the row, with the id of its canonical URL.
LoadSoftware(r) ==
    /\ Arrives(r, "patch")
    /\ \E s \in Ids :
          \/ /\ Exists(s)
             /\ local' = [local EXCEPT ![r].id = s,
                                       ![r].canonical = software[s].canonical]
             /\ Goto(r, "aliases")
          \/ /\ ~ Exists(s)
             /\ local' = [local EXCEPT ![r].id = s]
             /\ Answer(r, "notfound")
    /\ UNCHANGED <<software, urls, logs, trail>>

\* loadSoftware, second query: the rows of the software but the canonical one.
LoadAliases(r) ==
    /\ pc[r] = "aliases"
    /\ local' = [local EXCEPT ![r].rows =
                    {x \in urls : /\ x.owner = local[r].id
                                  /\ x # local[r].canonical}]
    /\ Goto(r, "url")
    /\ UNCHANGED <<software, urls, logs, trail, serial>>

\* loadSoftware, third query: the canonical row; if it is missing, errLoad.
LoadUrl(r) ==
    /\ pc[r] = "url"
    /\ \/ /\ local[r].canonical \in urls
          /\ local' = [local EXCEPT ![r].rows = @ \cup {local[r].canonical}]
          /\ Goto(r, "save")
       \/ /\ local[r].canonical \notin urls
          /\ Answer(r, "error")
          /\ UNCHANGED local
    /\ UNCHANGED <<software, urls, logs, trail, serial>>

\* syncAliases on the rows that were read: which stay, which are added.
KeptAll(r, all) == local[r].rows       \* mutant: nothing is removed
Kept(r, all) == {x \in local[r].rows : x.url \in all}
Added(r, all) ==
    NewRows(r, local[r].id, {u \in all : \A x \in local[r].rows : x.url # u})

\* updateColumns on the software row: the columns it names.
StaleColumns(r, row) ==                \* mutant: the analysis read is saved
    [canonical |-> row, analysis |-> [n \in Namespaces |-> None]]
BareColumns(r, row) ==                 \* mutant: SoftwareURLID is left out
    software[local[r].id]
SavedColumns(r, row) ==
    [software[local[r].id] EXCEPT !.canonical = row]

\* updateSoftware: the transaction, for a body that makes url the canonical
\* URL and aliases the others (a field left out keeps what was read, which is
\* among the choices).  Adding a URL needs the software, for the foreign key
\* of software_urls; saving the columns does not, and the hook records its
\* event whether a row matched or not.
Save(r) ==
    /\ pc[r] = "save"
    /\ \E url \in Urls, aliases \in SUBSET Urls :
          LET s == local[r].id
              all == aliases \cup {url}
              left == urls \ (local[r].rows \ Kept(r, all))
              row == CHOOSE x \in Kept(r, all) \cup Added(r, all) : x.url = url
          IN
          /\ NoDuplicate(left, Added(r, all))
          /\ Referenced(s, Added(r, all))
          /\ urls' = left \cup Added(r, all)
          /\ software' = IF Exists(s)
                         THEN [software EXCEPT ![s] = SavedColumns(r, row)]
                         ELSE software
          /\ Record("update", s)
          /\ local' = [local EXCEPT ![r].want = all]
    /\ Answer(r, "ok")
    /\ UNCHANGED <<logs, serial>>

-----------------------------------------------------------------------------
\* PatchSoftwareAnalysis: the merge and its event in one statement on the row,
\* which needs no earlier read; no row, no event.
MergeAlone(doc, patch) == patch        \* mutant: the patch is the document
Merged(doc, patch) ==
    [n \in Namespaces |-> IF n \in DOMAIN patch THEN patch[n] ELSE doc[n]]
MergeAnalysis(r) ==
    /\ Arrives(r, "analysis")
    /\ \E s \in Ids, namespaces \in (SUBSET Namespaces) \ {{}} :
          \/ /\ Exists(s)
             /\ software' = [software EXCEPT ![s].analysis =
                                Merged(@, [n \in namespaces |-> r])]
             /\ Record("update", s)
             /\ local' = [local EXCEPT ![r].id = s, ![r].merged = namespaces]
             /\ Answer(r, "ok")
          \/ /\ ~ Exists(s)
             /\ local' = [local EXCEPT ![r].id = s]
             /\ Answer(r, "notfound")
             /\ UNCHANGED <<software, trail>>
    /\ UNCHANGED <<urls, logs>>

\* postEntityLog: the software is looked up, then the log is created, without
\* a transaction around the two.
FindForLog(r) ==
    /\ Arrives(r, "log")
    /\ \E s \in Ids :
          /\ local' = [local EXCEPT ![r].id = s]
          /\ \/ Exists(s) /\ Goto(r, "insert")
             \/ ~ Exists(s) /\ Answer(r, "notfound")
    /\ UNCHANGED <<software, urls, logs, trail>>

CreateLog(r) ==
    /\ pc[r] = "insert"
    /\ logs' = logs \cup {[by |-> r, owner |-> local[r].id]}
    /\ Answer(r, "ok")
    /\ UNCHANGED <<software, urls, trail, local, serial>>

\* PostLog: a log of nothing.
PostLog(r) ==
    /\ Arrives(r, "log")
    /\ logs' = logs \cup {[by |-> r, owner |-> None]}
    /\ Answer(r, "ok")
    /\ UNCHANGED <<software, urls, trail, local>>

\* PatchLog: the log is looked up, ...
FindLog(r) ==
    /\ Arrives(r, "patchLog")
    /\ \/ \E l \in logs : /\ local' = [local EXCEPT ![r].log = l]
                          /\ Goto(r, "message")
       \/ Answer(r, "notfound") /\ UNCHANGED local
    /\ UNCHANGED <<software, urls, logs, trail>>

\* ... then Updates writes the message to the live row, if there is one still,
\* and the answer is 200 in any case.
Upserted(l) == logs \cup {l}           \* mutant: Save, not Updates
Updated(l) == logs
UpdateLog(r) ==
    /\ pc[r] = "message"
    /\ logs' = Updated(local[r].log)
    /\ Answer(r, "ok")
    /\ UNCHANGED <<software, urls, trail, local, serial>>

\* DeleteLog: one statement.
DeleteLog(r) ==
    /\ Arrives(r, "deleteLog")
    /\ \/ \E l \in logs : /\ logs' = logs \ {l}
                          /\ Answer(r, "ok")
       \/ Answer(r, "notfound") /\ UNCHANGED logs
    /\ UNCHANGED <<software, urls, trail, local>>

Next == /\ \E r \in Requests : \/ Fail(r)
                               \/ Create(r)
                               \/ Delete(r)
                               \/ LoadSoftware(r)
                               \/ LoadAliases(r)
                               \/ LoadUrl(r)
                               \/ Save(r)
                               \/ MergeAnalysis(r)
                               \/ FindForLog(r)
                               \/ CreateLog(r)
                               \/ PostLog(r)
                               \/ FindLog(r)
                               \/ UpdateLog(r)
                               \/ DeleteLog(r)
        /\ UNCHANGED kinds

Spec == Init /\ [][Next]_vars

-----------------------------------------------------------------------------
(* Properties *)

Count(type, s) ==
    Cardinality({i \in DOMAIN trail : trail[i] = [type |-> type, id |-> s]})

\* However the requests for a software interleave, its trail has exactly one
\* delete event once it is gone and none before, and it is created at most
\* once (deleteResult in crud.go, the hooks under Transaction).
OneDelete == \A s \in Ids :
                /\ Count("delete", s) = IF software[s] = Gone THEN 1 ELSE 0
                /\ Count("create", s) <= 1

\* A software that is gone leaves no URL behind to block others, also when a
\* PATCH that read it earlier commits after the DELETE.
NoUrlLeftBehind == \A x \in urls : Exists(x.owner)

\* An analysis namespace a scanner was told is stored stays, or is replaced by
\* another scanner's: neither a merge of other namespaces nor a PATCH of the
\* software that read the row before takes it away.
AnalysisKept ==
    \A r \in Requests : \A n \in local[r].merged :
       Exists(local[r].id) =>
          \E q \in Requests : /\ software[local[r].id].analysis[n] = q
                              /\ local[q].id = local[r].id
                              /\ n \in local[q].merged

\* The canonical URL of a software is one of its rows in software_urls
\* (software.go:170-171: updateSoftware saves it "keeping its canonical URL
\* and its aliases in sync").
CanonicalExists ==
    \A s \in Ids : Exists(s) => /\ software[s].canonical \in urls
                                /\ software[s].canonical.owner = s

\* A PATCH that succeeds leaves the software with the URLs it asked for, the
\* canonical one and the aliases, and no other, as long as requests are
\* handled one at a time.
UrlsInSync ==
    [][\A r \in Requests :
          serial /\ pc[r] = "save" /\ reply'[r] = "ok" =>
             {x.url : x \in {y \in urls' : y.owner = local[r].id}}
                = local'[r].want]_vars

\* hooks.go:84-86: "no receiver is told about a change that never happened":
\* a software's delete event is the last of its trail.
NothingAfterDelete ==
    \A i, j \in DOMAIN trail :
       i < j /\ trail[i].type = "delete" => trail[j].id # trail[i].id

\* crud.go:275-276: deleteEntityLogs "soft deletes the logs attached to entity,
\* for the handlers deleting the entity itself": none is left once it is gone.
NoLogLeftBehind == \A l \in logs : l.owner # None => Exists(l.owner)

\* A log that was deleted, by its own DELETE or with its software, stays
\* deleted: a PATCH that read it before and answers 200 does not bring it
\* back.  Only its POST makes a row, once.
LogsStayDeleted ==
    [][\A l \in logs' \ logs : l.by \in Requests /\ reply[l.by] = None]_vars

\* What only overlapping requests break: handled one at a time they keep every
\* software's canonical URL, whatever sequence of requests it is, ...
SerialCanonical == serial => CanonicalExists

\* ... record nothing after a delete, and leave no log of what is gone.
SerialDelete == serial => NothingAfterDelete /\ NoLogLeftBehind
=============================================================================
