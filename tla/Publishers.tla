------------------------------ MODULE Publishers ------------------------------
(***************************************************************************)
(* internal/handlers/publishers.go: publishers with their alternative ids, *)
(* code hosting, logs and audit trail, under concurrent requests.  Reads   *)
(* and commits are steps as in Software.tla.                               *)
(*                                                                         *)
(* checkAlternativeIDConflict is a query of the transaction, and yet the   *)
(* transaction is one step: ids are random, a body can only name one that  *)
(* was made before, and such a row can go but not come after the query.    *)
(***************************************************************************)
EXTENDS Naturals, Sequences, FiniteSets

CONSTANTS Ids,       \* publisher ids
          Requests,  \* the requests, each handled once
          Workloads, \* the sets of handlers a behaviour may be about
          Urls,      \* normalised URLs of code hosting
          Groups,    \* the values of group a body may carry
          Alts,      \* alternative ids that are not ids of publishers
          Seed,      \* stands for the request that made the initial rows
          None,      \* no value
          Unborn,    \* stands for the row of a publisher not created yet
          Gone       \* stands for the row of a publisher that was deleted

\* Those of Webhooks.tla included.
Handlers == {"create", "patch", "delete", "log", "hook", "unhook"}

ASSUME PublishersAssumption ==
    /\ Workloads \subseteq SUBSET Handlers
    /\ Groups \subseteq BOOLEAN
    /\ Alts \cap Ids = {}
    /\ {None, Unborn, Gone} \cap (Alts \cup Ids) = {}
    /\ Cardinality({None, Unborn, Gone}) = 3
    /\ None \notin {"ok", "notfound", "error"}
    /\ Seed \notin Requests

\* A row of publishers_code_hosting, told apart by who made it.
Rows == [by : Requests \cup {Seed}, url : Urls, group : BOOLEAN, owner : Ids]

\* What a body says of code hosting: some URLs, each with its group.
Hosting == {want \in SUBSET (Urls \X Groups) :
               /\ want # {}
               /\ \A v, w \in want : v[1] = w[1] => v = w}

VARIABLES publishers,  \* per id the alternative id of the row, Unborn or Gone
          hosts,       \* the rows of publishers_code_hosting
          logs,        \* the live rows of logs
          trail,       \* the events of publishers, in commit order
          pc,          \* per request where its handler is
          local,       \* per request what its handler has read
          reply,       \* per request the answer
          kinds,       \* the handlers this behaviour is about
          serial       \* history: no two requests were ever handled at a time

vars == <<publishers, hosts, logs, trail, pc, local, reply, kinds, serial>>

Nothing == [id |-> None, alt |-> None, rows |-> {}, want |-> {}]
Locals == [id : Ids \cup {None},         \* the publisher that was found
           alt : Alts \cup Ids \cup {None},  \* its alternative id then
           rows : SUBSET Rows,           \* its code hosting that was read
           want : SUBSET (Urls \X BOOLEAN)]  \* what the PATCH asked for

TypeOK ==
    /\ publishers \in [Ids -> Alts \cup Ids \cup {None, Unborn, Gone}]
    /\ hosts \in SUBSET Rows
    /\ logs \in SUBSET [by : Requests, owner : Ids]
    /\ trail \in Seq([type : {"create", "update", "delete"}, id : Ids])
    /\ pc \in [Requests ->
                  {"idle", "hosting", "save", "row", "insert", "hook", "done"}]
    /\ local \in [Requests -> Locals]
    /\ reply \in [Requests -> {None, "ok", "notfound", "error"}]
    /\ kinds \in Workloads
    /\ serial \in BOOLEAN

Exists(p) == publishers[p] \notin {Unborn, Gone}

Of(p) == {x \in hosts : x.owner = p}

\* The unique index on publishers.alternative_id lets p have alt.
AltFree(p, alt) == alt = None \/ \A q \in Ids \ {p} : publishers[q] # alt

\* The one on publishers_code_hosting.url lets the rows in, ...
NoDuplicate(kept, added) == \A x \in kept, y \in added : x.url # y.url

\* ... and so does the foreign key of its publisher_id.
Referenced(p, added) == added # {} => Exists(p)

\* At the start there are publishers with code hosting.
Init ==
    /\ kinds \in Workloads
    /\ publishers \in {f \in [Ids -> Alts \cup {None, Unborn}] :
                          \A p, q \in Ids :
                             p # q /\ f[p] = f[q] => f[p] \notin Alts}
    /\ hosts \in {x \in SUBSET [by : {Seed}, url : Urls, group : Groups,
                                owner : Ids] :
                     \A a, b \in x : a.url = b.url => a = b}
    /\ \A p \in Ids : Exists(p) <=> Of(p) # {}
    /\ logs = {}
    /\ trail = <<>>
    /\ pc = [r \in Requests |-> "idle"]
    /\ local = [r \in Requests |-> Nothing]
    /\ reply = [r \in Requests |-> None]
    /\ serial = TRUE

-----------------------------------------------------------------------------
Answer(r, status) == /\ pc' = [pc EXCEPT ![r] = "done"]
                     /\ reply' = [reply EXCEPT ![r] = status]

Goto(r, place) == /\ pc' = [pc EXCEPT ![r] = place]
                  /\ UNCHANGED reply

\* A request for a handler comes in.
Arrives(r, kind) ==
    /\ kind \in kinds
    /\ pc[r] = "idle"
    /\ serial' = (serial /\ \A q \in Requests : pc[q] \in {"idle", "done"})

\* The event a model hook records in the transaction.
Record(type, p) == trail' = Append(trail, [type |-> type, id |-> p])

\* The ids a body or a path may name: those ever made, and alternative ids.
Names == Alts \cup {p \in Ids : publishers[p] # Unborn}

\* findOne with byAlternativeID: the rows a name matches.
Matching(name) == {p \in Ids : Exists(p) /\ name \in {p, publishers[p]}}

\* checkAlternativeIDConflict: no publisher has this id.
Unheeded(alt) == TRUE          \* mutant: no checkAlternativeIDConflict
NoIdConflict(alt) == alt \in Ids => ~ Exists(alt)

\* Any handler may end in an error before its write or in a transaction that
\* fails: nothing is written.
Fail(r) ==
    /\ \/ \E kind \in kinds : Arrives(r, kind)
       \/ pc[r] \notin {"idle", "done"} /\ UNCHANGED serial
    /\ Answer(r, "error")
    /\ UNCHANGED <<publishers, hosts, logs, trail, local>>

\* createPublisher: the publisher and its code hosting.
Create(r) ==
    /\ Arrives(r, "create")
    /\ \E p \in Ids, alt \in Names \cup {None}, want \in Hosting :
          LET added == {[by |-> r, url |-> w[1], group |-> w[2],
                         owner |-> p] : w \in want} IN
          /\ publishers[p] = Unborn
          /\ NoIdConflict(alt)
          /\ AltFree(p, alt)
          /\ NoDuplicate(hosts, added)
          /\ publishers' = [publishers EXCEPT ![p] = alt]
          /\ hosts' = hosts \cup added
          /\ Record("create", p)
    /\ Answer(r, "ok")
    /\ UNCHANGED <<logs, local>>

\* The first query of PatchPublisher and DeletePublisher.
Named(p, name) == name         \* mutant: the name goes on as the id
Target(p, name) == p
Find(r, kind, place) ==
    /\ Arrives(r, kind)
    /\ \E name \in Names :
          \/ \E p \in Matching(name) :
                /\ local' = [local EXCEPT ![r].id = Target(p, name),
                                          ![r].alt = publishers[p]]
                /\ Goto(r, place)
          \/ /\ Matching(name) = {}
             /\ Answer(r, "notfound")
             /\ UNCHANGED local
    /\ UNCHANGED <<publishers, hosts, logs, trail>>

FindForPatch(r) == Find(r, "patch", "hosting")

\* PatchPublisher, second query: the preload of CodeHosting.
LoadHosting(r) ==
    /\ pc[r] = "hosting"
    /\ local' = [local EXCEPT ![r].rows = Of(local[r].id)]
    /\ Goto(r, "save")
    /\ UNCHANGED <<publishers, hosts, logs, trail, serial>>

\* syncCodeHosting on the rows that were read, for the URLs alone: a row it
\* adds takes group's default, a row it keeps stays as it is.
KeptAll(r, want) == local[r].rows   \* mutant: nothing is removed
Kept(r, want) == {x \in local[r].rows : \E w \in want : w[1] = x.url}
Added(r, want) ==
    {[by |-> r, url |-> u, group |-> TRUE, owner |-> local[r].id] :
        u \in {w[1] : w \in want} \ {x.url : x \in local[r].rows}}

\* validatePatchedPublisher: the publisher a PATCH produces has code hosting,
\* also when the body leaves it out and none was read.
Validates(want) == want # {}

\* updatePublisher's transaction.  What the body leaves out keeps the value
\* that was read, which is among the choices, and is written all the same; an
\* alternative id that is not new is not checked against the ids.  Adding code
\* hosting needs the publisher, saving the columns does not, and the hook
\* records its event either way.
Save(r) ==
    /\ pc[r] = "save"
    /\ \E alt \in Names \cup {None, local[r].alt} :
       \E want \in Hosting \cup {{<<x.url, x.group>> : x \in local[r].rows}} :
          LET p == local[r].id
              left == hosts \ (local[r].rows \ Kept(r, want))
          IN
          /\ Validates(want)
          /\ alt # local[r].alt => NoIdConflict(alt)
          /\ Exists(p) => AltFree(p, alt)
          /\ NoDuplicate(left, Added(r, want))
          /\ Referenced(p, Added(r, want))
          /\ hosts' = left \cup Added(r, want)
          /\ publishers' = IF Exists(p) THEN [publishers EXCEPT ![p] = alt]
                           ELSE publishers
          /\ Record("update", p)
          /\ local' = [local EXCEPT ![r].want = want]
    /\ Answer(r, "ok")
    /\ UNCHANGED <<logs, serial>>

-----------------------------------------------------------------------------
FindForDelete(r) == Find(r, "delete", "row")

\* What deleteEntityLogs and the selected association leave, and whether
\* deleteResult lets the transaction commit.
AllLogs(p) == logs             \* mutant: no deleteEntityLogs
LogsLeft(p) == {l \in logs : l.owner # p}
AllHosts(p) == hosts           \* mutant: CodeHosting stays
HostsLeft(p) == hosts \ Of(p)
Unchecked(p) == TRUE           \* mutant: no deleteResult
DeleteResult(p) == Exists(p)

\* DeletePublisher's transaction: logs, code hosting and row go; when the row
\* is gone already it fails, hook event and all.
DeleteRow(r) ==
    /\ pc[r] = "row"
    /\ LET p == local[r].id IN
          \/ /\ DeleteResult(p)
             /\ logs' = LogsLeft(p)
             /\ hosts' = HostsLeft(p)
             /\ publishers' = [publishers EXCEPT ![p] = Gone]
             /\ Record("delete", p)
             /\ Answer(r, "ok")
          \/ /\ ~ DeleteResult(p)
             /\ Answer(r, "notfound")
             /\ UNCHANGED <<publishers, hosts, logs, trail>>
    /\ UNCHANGED <<local, serial>>

\* postEntityLog: the publisher is looked up, by its id alone, then the log is
\* created, without a transaction around the two.
FindForLog(r) ==
    /\ Arrives(r, "log")
    /\ \E p \in Ids :
          \/ /\ Exists(p)
             /\ local' = [local EXCEPT ![r].id = p]
             /\ Goto(r, "insert")
          \/ /\ ~ Exists(p)
             /\ Answer(r, "notfound")
             /\ UNCHANGED local
    /\ UNCHANGED <<publishers, hosts, logs, trail>>

CreateLog(r) ==
    /\ pc[r] = "insert"
    /\ logs' = logs \cup {[by |-> r, owner |-> local[r].id]}
    /\ Answer(r, "ok")
    /\ UNCHANGED <<publishers, hosts, trail, local, serial>>

Next == /\ \E r \in Requests : \/ Fail(r)
                               \/ Create(r)
                               \/ FindForPatch(r)
                               \/ LoadHosting(r)
                               \/ Save(r)
                               \/ FindForDelete(r)
                               \/ DeleteRow(r)
                               \/ FindForLog(r)
                               \/ CreateLog(r)
        /\ UNCHANGED kinds

Spec == Init /\ [][Next]_vars

-----------------------------------------------------------------------------
(* Properties *)

Count(type, p) ==
    Cardinality({i \in DOMAIN trail : trail[i] = [type |-> type, id |-> p]})

\* Of the requests that find the same publisher one deletes it and records it,
\* and it is created once (deleteResult in crud.go, the hooks under
\* Transaction).
OneDelete == \A p \in Ids :
                /\ Count("delete", p) = IF publishers[p] = Gone THEN 1 ELSE 0
                /\ Count("create", p) <= 1

\* publishers.go:216-217: checkAlternativeIDConflict keeps "ambiguous lookups"
\* out: no name matches two publishers, though an alternative id that a PATCH
\* writes back as it read it is not checked again and ids and alternative ids
\* live in different columns.
OneName == \A name \in Names : Cardinality(Matching(name)) <= 1

\* Code hosting does not outlive its publisher, to block its URL for others,
\* also when a PATCH that read it commits after the DELETE.
NoHostLeftBehind == \A x \in hosts : Exists(x.owner)

\* Handled one at a time, whatever the sequence, requests record nothing after
\* a delete and leave no log of what is gone, ...
SerialDelete ==
    serial =>
       /\ \A i, j \in DOMAIN trail :
             i < j /\ trail[i].type = "delete" => trail[j].id # trail[i].id
       /\ \A l \in logs : Exists(l.owner)

\* ... and a PATCH leaves the URLs it asked for and no other.
UrlsInSync ==
    [][\A r \in Requests :
          serial /\ pc[r] = "save" /\ reply'[r] = "ok" =>
             {x.url : x \in Of(local[r].id)'}
                = {w[1] : w \in local'[r].want}]_vars

\* publishers.go:145-146: "updatePublisher applies the PATCH body to publisher
\* and saves it, keeping its CodeHosting in sync": each URL with its group.
HostingInSync ==
    [][\A r \in Requests :
          serial /\ pc[r] = "save" /\ reply'[r] = "ok" =>
             {<<x.url, x.group>> : x \in Of(local[r].id)'}
                = local'[r].want]_vars
=============================================================================
