--------------------------- MODULE Software_proofs ---------------------------
(***************************************************************************)
(* The properties of Software.tla and Bundles.tla for every number of      *)
(* software, bundles, URLs, namespaces and requests.                       *)
(***************************************************************************)
EXTENDS Bundles, Trails

-----------------------------------------------------------------------------
(* The inductive invariant of the software. *)

Resting(r) == pc[r] \in {"idle", "done"}
Patching(r) == pc[r] \in {"aliases", "url", "save"}

\* Only a handler that is through has answered, and what it merged is known
\* then.  One that looked its software up has one that was created.
Answered ==
    \A r \in Requests :
       /\ pc[r] # "done" => reply[r] = None /\ local[r].merged = {}
       /\ Patching(r) \/ pc[r] = "insert" => local[r].id \in Ids
       /\ local[r].merged # {} => /\ local[r].id \in Ids
                                  /\ software[local[r].id] # Unborn

\* The trail of a software is that of its life.
Lived ==
    \A s \in Ids :
       /\ Count("delete", s) = IF software[s] = Gone THEN 1 ELSE 0
       /\ Count("create", s) = 0 \/ Count("create", s) = 1
       /\ software[s] = Unborn => Count("create", s) = 0
Ended == \A i \in DOMAIN trail :
            trail[i].type = "delete" => software[trail[i].id] = Gone

\* Handled alone a request finds things as it left them.
Alone == serial => \A r, q \in Requests : ~ Resting(r) /\ ~ Resting(q) => r = q

InStep ==
    serial => \A r \in Requests :
       LET s == local[r].id IN
       /\ Patching(r) => /\ Exists(s)
                         /\ local[r].canonical = software[s].canonical
       /\ pc[r] = "url" => local[r].rows = {x \in urls :
                              x.owner = s /\ x # software[s].canonical}
       /\ pc[r] = "save" => local[r].rows = {x \in urls : x.owner = s}
       /\ pc[r] = "insert" => Exists(s)

SInv == /\ TypeOK /\ Answered
        /\ NoUrlLeftBehind /\ AnalysisKept
        /\ Lived /\ Ended
        /\ Alone /\ InStep /\ SerialCanonical /\ SerialDelete

-----------------------------------------------------------------------------
(* The inductive invariant of the bundles. *)

\* A bundle handler that found its bundle has one.
Found == \A r \in Requests : pc[r] \in {"links", "members", "check", "swap"}
                               => asked[r].id \in BundleIds

\* What a PATCH would link that leaves the members out is not empty, and who
\* is not there yet has named none.
Filled == \A r \in Requests :
             /\ pc[r] = "swap" /\ ~ asked[r].named => asked[r].want # {}
             /\ pc[r] = "idle" => ~ asked[r].named

\* The events of a bundle after its deletion and the requests to blame.
Deletes(b) == Hits(news, [type |-> "delete", id |-> b])
LateNews(b) == {j \in DOMAIN news :
                   news[j].id = b /\ \E i \in Deletes(b) : i < j}
Cleared(b) == {r \in Requests : /\ pc[r] = "done"
                                /\ asked[r].id = b
                                /\ asked[r].named
                                /\ asked[r].want = {}}
BundleTrail ==
    /\ IsFiniteSet({r \in Requests : pc[r] # "idle"})
    /\ \A b \in BundleIds :
          /\ Cardinality(Deletes(b)) = IF bundles[b] = Gone THEN 1 ELSE 0
          /\ Cardinality(LateNews(b)) <= Cardinality(Cleared(b))

\* Handled alone, a PATCH of a bundle has read the members there are.
BundleInStep ==
    serial => \A r \in Requests :
       LET b == asked[r].id IN
       /\ pc[r] \in {"members", "check"} => asked[r].members = Members(b)
       /\ pc[r] = "swap" /\ ~ asked[r].named => asked[r].want = Members(b)

BInv == /\ SInv /\ BTypeOK /\ MembersExist
        /\ Found /\ Filled /\ BundleTrail /\ BundleInStep

-----------------------------------------------------------------------------
(* Steps as the software sees them. *)

\* A handler of bundles goes on, or any handler fails.
Passes(r) ==
    /\ pc[r] # "done"
    /\ serial' \in BOOLEAN
    /\ serial' => serial /\ (pc[r] = "idle" => \A q \in Requests : Resting(q))
    /\ \/ /\ pc[r] \in {"idle", "link", "links", "members", "check", "swap"}
          /\ \/ \E place \in {"link", "links", "members", "check", "swap"} :
                   Goto(r, place)
             \/ \E status \in {"ok", "notfound", "error"} : Answer(r, status)
       \/ Answer(r, "error")
    /\ SoftwareAside

Step == [Next]_vars \/ \E r \in Requests : Passes(r)

\* A handler of Software.tla goes on.
Moves(r) == \/ Fail(r)
            \/ Create(r) \/ Delete(r)
            \/ LoadSoftware(r) \/ LoadAliases(r) \/ LoadUrl(r) \/ Save(r)
            \/ MergeAnalysis(r)
            \/ FindForLog(r) \/ CreateLog(r) \/ PostLog(r)
            \/ FindLog(r) \/ UpdateLog(r) \/ DeleteLog(r)

\* The request r goes on and no other does.
Acts(r) ==
    /\ pc[r] # "done"
    /\ serial' => serial /\ (pc[r] = "idle" => \A q \in Requests : Resting(q))
    /\ \A q \in Requests \ {r} : /\ pc'[q] = pc[q]
                                 /\ reply'[q] = reply[q]
                                 /\ local'[q] = local[q]
    /\ pc'[r] # "done" => reply'[r] = reply[r]
    /\ pc[r] = "save" /\ reply'[r] = "ok" => Save(r)
    /\ pc'[r] \in {"aliases", "url", "save", "insert"} =>
          /\ \/ LoadSoftware(r) \/ LoadAliases(r) \/ LoadUrl(r)
             \/ FindForLog(r)
          /\ \/ Patching(r) /\ local'[r].id = local[r].id
             \/ local'[r].id \in Ids
    /\ local'[r].merged = local[r].merged \/ MergeAnalysis(r)

\* Setting some fields of a request's local leaves the others.
LEMMA LocalStays ==
    ASSUME TypeOK, NEW r \in Requests
    PROVE  /\ \A x : LET l == [local EXCEPT ![r].id = x][r]
                     IN  l.id = x /\ l.merged = local[r].merged
           /\ \A x : LET l == [local EXCEPT ![r].rows = x][r]
                     IN  l.id = local[r].id /\ l.merged = local[r].merged
           /\ \A x : LET l == [local EXCEPT ![r].want = x][r]
                     IN  l.id = local[r].id /\ l.merged = local[r].merged
           /\ \A x : LET l == [local EXCEPT ![r].log = x][r]
                     IN  l.id = local[r].id /\ l.merged = local[r].merged
           /\ \A x, y : LET l == [local EXCEPT ![r].id = x,
                                              ![r].canonical = y][r]
                        IN  l.id = x /\ l.merged = local[r].merged
BY DEF TypeOK, Locals

\* MergeAnalysis writes nothing, or its namespaces in a software there is.
LEMMA MergedIn ==
    ASSUME TypeOK, NEW r \in Requests, MergeAnalysis(r)
    PROVE  \E s \in Ids :
              /\ local'[r].id = s
              /\ \/ /\ UNCHANGED <<software, trail>>
                    /\ local'[r].merged = local[r].merged
                 \/ /\ Exists(s)
                    /\ Record("update", s)
                    /\ \E ns \in SUBSET Namespaces :
                          /\ local'[r].merged = ns
                          /\ software' = [software EXCEPT ![s] =
                               [canonical |-> software[s].canonical,
                                analysis  |-> [n \in Namespaces |->
                                   IF n \in ns THEN r
                                   ELSE software[s].analysis[n]]]]
<1>1. PICK s \in Ids, ns \in SUBSET Namespaces :
         \/ /\ Exists(s)
            /\ software' = [software EXCEPT ![s].analysis =
                               Merged(@, [n \in ns |-> r])]
            /\ Record("update", s)
            /\ local' = [local EXCEPT ![r].id = s, ![r].merged = ns]
         \/ /\ local' = [local EXCEPT ![r].id = s]
            /\ UNCHANGED <<software, trail>>
  BY DEF MergeAnalysis
<1>2. CASE /\ Exists(s)
           /\ software' = [software EXCEPT ![s].analysis =
                              Merged(@, [n \in ns |-> r])]
           /\ Record("update", s)
           /\ local' = [local EXCEPT ![r].id = s, ![r].merged = ns]
  <2>1. local'[r].id = s /\ local'[r].merged = ns
    BY <1>2 DEF TypeOK, Locals
  <2>2. software[s] \in Columns
    BY <1>2 DEF TypeOK, Exists
  <2>3. Merged(software[s].analysis, [n \in ns |-> r]) =
           [n \in Namespaces |-> IF n \in ns THEN r
                                 ELSE software[s].analysis[n]]
    BY DEF Merged
  <2>4. ASSUME NEW d
        PROVE  [software EXCEPT ![s].analysis = d] =
                 [software EXCEPT ![s] =
                    [canonical |-> software[s].canonical, analysis |-> d]]
    <3>1. [software[s] EXCEPT !.analysis = d] =
             [canonical |-> software[s].canonical, analysis |-> d]
      BY <2>2 DEF Columns
    <3> QED BY <3>1
  <2> DEFINE doc == [n \in Namespaces |-> IF n \in ns THEN r
                                          ELSE software[s].analysis[n]]
  <2>5. software' = [software EXCEPT ![s].analysis = doc]
    BY <1>2, <2>3
  <2>6. software' = [software EXCEPT ![s] =
                       [canonical |-> software[s].canonical, analysis |-> doc]]
    <3> HIDE DEF doc
    <3> QED BY <2>4, <2>5
  <2> QED BY <1>2, <2>1, <2>6
<1>3. CASE /\ local' = [local EXCEPT ![r].id = s]
           /\ UNCHANGED <<software, trail>>
  <2>1. local'[r].id = s /\ local'[r].merged = local[r].merged
    BY <1>3 DEF TypeOK, Locals
  <2> QED BY <1>3, <2>1
<1> QED BY <1>1, <1>2, <1>3

\* Each handler's step is one of r alone that goes where Acts says.
LEMMA MoveActs ==
    ASSUME TypeOK, NEW r \in Requests, Moves(r) \/ Passes(r)
    PROVE  Acts(r)
<1> USE DEF TypeOK
<1>1. ASSUME NEW kind, Arrives(r, kind)
      PROVE  /\ pc[r] = "idle"
             /\ serial' => serial /\ \A q \in Requests : Resting(q)
  BY <1>1 DEF Arrives, Resting
<1>2. ASSUME NEW status, Answer(r, status)
      PROVE  /\ pc'[r] = "done" /\ reply'[r] = status
             /\ \A q \in Requests \ {r} : /\ pc'[q] = pc[q]
                                          /\ reply'[q] = reply[q]
  BY <1>2 DEF Answer
<1>3. ASSUME NEW place, Goto(r, place)
      PROVE  /\ UNCHANGED reply
             /\ pc'[r] = place
             /\ \A q \in Requests \ {r} : pc'[q] = pc[q]
  BY <1>3 DEF Goto
<1>4. CASE Passes(r)
  BY <1>2, <1>3, <1>4 DEF Passes, SoftwareAside, Acts
<1>5. CASE Fail(r)
  BY <1>1, <1>2, <1>5 DEF Fail, Resting, Acts
<1>6. CASE Create(r)
  BY <1>1, <1>2, <1>6, LocalStays DEF Create, Acts
<1>7. CASE Delete(r)
  BY <1>1, <1>2, <1>7, LocalStays DEF Delete, Acts
<1>8. CASE LoadSoftware(r)
  <2>1. /\ \A q \in Requests \ {r} : local'[q] = local[q]
        /\ local'[r].id \in Ids /\ local'[r].merged = local[r].merged
    <3>1. PICK s \in Ids :
             \/ local' = [local EXCEPT ![r].id = s,
                                     ![r].canonical = software[s].canonical]
             \/ local' = [local EXCEPT ![r].id = s]
      BY <1>8 DEF LoadSoftware
    <3> QED BY <3>1 DEF Locals
  <2>2. Goto(r, "aliases") \/ Answer(r, "notfound")
    BY <1>8 DEF LoadSoftware
  <2>3. Arrives(r, "patch")
    BY <1>8 DEF LoadSoftware
  <2> QED BY <1>1, <1>2, <1>3, <1>8, <2>1, <2>2, <2>3 DEF Acts
<1>9. CASE LoadAliases(r)
  BY <1>3, <1>9, LocalStays DEF LoadAliases, Patching, Acts
<1>10. CASE LoadUrl(r)
  <2>1. /\ \A q \in Requests \ {r} : local'[q] = local[q]
        /\ local'[r].id = local[r].id /\ local'[r].merged = local[r].merged
    <3>1. \/ local' = [local EXCEPT ![r].rows = @ \cup {local[r].canonical}]
          \/ local' = local
      BY <1>10 DEF LoadUrl
    <3> QED BY <3>1 DEF Locals
  <2>2. Goto(r, "save") \/ Answer(r, "error")
    BY <1>10 DEF LoadUrl
  <2>3. pc[r] = "url" /\ UNCHANGED serial
    BY <1>10 DEF LoadUrl
  <2> QED BY <1>2, <1>3, <1>10, <2>1, <2>2, <2>3 DEF Patching, Acts
<1>11. CASE Save(r)
  <2>1. /\ \A q \in Requests \ {r} : local'[q] = local[q]
        /\ local'[r].merged = local[r].merged
    BY <1>11, LocalStays DEF Save
  <2>2. pc[r] = "save" /\ UNCHANGED serial /\ Answer(r, "ok")
    BY <1>11 DEF Save
  <2> QED BY <1>2, <1>11, <2>1, <2>2 DEF Acts
<1>12. CASE MergeAnalysis(r)
  <2>1. \A q \in Requests \ {r} : local'[q] = local[q]
    BY <1>12 DEF MergeAnalysis
  <2> QED BY <1>1, <1>2, <1>12, <2>1 DEF MergeAnalysis, Acts
<1>13. CASE FindForLog(r)
  <2>1. /\ \A q \in Requests \ {r} : local'[q] = local[q]
        /\ local'[r].id \in Ids /\ local'[r].merged = local[r].merged
    BY <1>13, LocalStays DEF FindForLog
  <2>2. Goto(r, "insert") \/ Answer(r, "notfound")
    BY <1>13 DEF FindForLog
  <2>3. Arrives(r, "log")
    BY <1>13 DEF FindForLog
  <2> QED BY <1>1, <1>2, <1>3, <1>13, <2>1, <2>2, <2>3 DEF Acts
<1>14. CASE CreateLog(r)
  BY <1>2, <1>14 DEF CreateLog, Acts
<1>15. CASE PostLog(r)
  BY <1>1, <1>2, <1>15 DEF PostLog, Acts
<1>16. CASE FindLog(r)
  <2>1. /\ \A q \in Requests \ {r} : local'[q] = local[q]
        /\ local'[r].merged = local[r].merged
    <3>1. \/ \E l : local' = [local EXCEPT ![r].log = l]
          \/ local' = local
      BY <1>16 DEF FindLog
    <3>2. CASE local' = local
      BY <3>2
    <3>3. CASE \E l : local' = [local EXCEPT ![r].log = l]
      BY <3>3, LocalStays
    <3> QED BY <3>1, <3>2, <3>3
  <2>2. Goto(r, "message") \/ Answer(r, "notfound")
    BY <1>16 DEF FindLog
  <2>3. Arrives(r, "patchLog")
    BY <1>16 DEF FindLog
  <2> QED BY <1>1, <1>2, <1>3, <2>1, <2>2, <2>3 DEF Acts
<1>17. CASE UpdateLog(r)
  BY <1>2, <1>17 DEF UpdateLog, Acts
<1>18. CASE DeleteLog(r)
  BY <1>1, <1>2, <1>18 DEF DeleteLog, Acts
<1> QED BY <1>4, <1>5, <1>6, <1>7, <1>8, <1>9, <1>10, <1>11, <1>12, <1>13,
           <1>14, <1>15, <1>16, <1>17, <1>18 DEF Moves

\* In every step at most one request acts.
LEMMA StepActs ==
    ASSUME TypeOK, Step
    PROVE  UNCHANGED vars \/ \E r \in Requests : Acts(r)
<1>1. Next => \E r \in Requests : Moves(r)
  BY DEF Next, Moves
<1> QED BY <1>1, MoveActs DEF Step

\* Four handlers write software, URLs and trail.
LEMMA StepWrites ==
    ASSUME Step
    PROVE  \/ UNCHANGED <<software, urls, trail>>
           \/ \E r \in Requests : \/ Create(r) \/ Delete(r)
                                 \/ Save(r) \/ MergeAnalysis(r)
BY DEF Step, Next, vars, Passes, SoftwareAside, Fail, LoadSoftware,
   LoadAliases, LoadUrl, FindForLog, CreateLog, PostLog, FindLog, UpdateLog,
   DeleteLog

\* The rows a PATCH keeps and adds, and the canonical one among them.
LEMMA SavedRows ==
    ASSUME TypeOK, NEW r \in Requests, local[r].id \in Ids,
           NEW url \in Urls, NEW all \in SUBSET Urls, url \in all
    PROVE  LET row == CHOOSE x \in Kept(r, all) \cup Added(r, all) :
                         x.url = url
           IN  /\ Kept(r, all) \subseteq local[r].rows
               /\ local[r].rows \subseteq Rows
               /\ Added(r, all) \subseteq Rows
               /\ \A x \in Added(r, all) : x.by = r /\ x.owner = local[r].id
               /\ row \in Kept(r, all) \cup Added(r, all)
               /\ row \in Rows /\ row.url = url
<1>1. local[r] \in Locals /\ local[r].rows \subseteq Rows
  BY DEF TypeOK, Locals
<1>2. /\ Kept(r, all) \subseteq local[r].rows
      /\ Added(r, all) \subseteq Rows
      /\ \A x \in Added(r, all) : x.by = r /\ x.owner = local[r].id
  BY <1>1 DEF Kept, Added, NewRows, Rows
<1>3. \E x \in Kept(r, all) \cup Added(r, all) : x.url = url
  <2>1. CASE \E x \in local[r].rows : x.url = url
    BY <2>1 DEF Kept
  <2>2. CASE \A x \in local[r].rows : x.url # url
    <3>1. [by |-> r, url |-> url, owner |-> local[r].id] \in Added(r, all)
      BY <2>2 DEF Added, NewRows
    <3> QED BY <3>1
  <2> QED BY <2>1, <2>2
<1> QED BY <1>1, <1>2, <1>3

-----------------------------------------------------------------------------
(* Types. *)

\* A well-typed change of one request's local keeps locals well typed.
LEMMA LocalsTyped ==
    ASSUME TypeOK, NEW r \in Requests
    PROVE  /\ \A x \in Ids :
                 [local EXCEPT ![r].id = x] \in [Requests -> Locals]
           /\ \A x \in SUBSET Rows :
                 [local EXCEPT ![r].rows = x] \in [Requests -> Locals]
           /\ \A x \in SUBSET Urls :
                 [local EXCEPT ![r].want = x] \in [Requests -> Locals]
           /\ \A x \in Logs :
                 [local EXCEPT ![r].log = x] \in [Requests -> Locals]
           /\ \A x \in Ids, y \in Rows :
                 [local EXCEPT ![r].id = x, ![r].canonical = y]
                    \in [Requests -> Locals]
           /\ \A x \in Ids, y \in SUBSET Namespaces :
                 [local EXCEPT ![r].id = x, ![r].merged = y]
                    \in [Requests -> Locals]
<1>1. local[r] \in Locals
  BY DEF TypeOK
<1>2. /\ \A x \in Ids : [local[r] EXCEPT !.id = x] \in Locals
      /\ \A x \in SUBSET Rows : [local[r] EXCEPT !.rows = x] \in Locals
      /\ \A x \in SUBSET Urls : [local[r] EXCEPT !.want = x] \in Locals
      /\ \A x \in Logs : [local[r] EXCEPT !.log = x] \in Locals
      /\ \A x \in Ids, y \in Rows :
            [local[r] EXCEPT !.id = x, !.canonical = y] \in Locals
      /\ \A x \in Ids, y \in SUBSET Namespaces :
            [local[r] EXCEPT !.id = x, !.merged = y] \in Locals
  BY <1>1 DEF Locals
<1>3. \A l \in Locals : [local EXCEPT ![r] = l] \in [Requests -> Locals]
  BY DEF TypeOK
<1>4. \A x, y :
         /\ [local EXCEPT ![r].id = x, ![r].canonical = y] =
               [local EXCEPT ![r] =
                  [local[r] EXCEPT !.id = x, !.canonical = y]]
         /\ [local EXCEPT ![r].id = x, ![r].merged = y] =
               [local EXCEPT ![r] = [local[r] EXCEPT !.id = x, !.merged = y]]
  BY <1>1 DEF TypeOK, Locals
<1> QED BY <1>2, <1>3, <1>4

\* Steps keep pc, reply, serial and kinds well typed.
LEMMA TypeMoves ==
    ASSUME TypeOK, Step
    PROVE  /\ pc' \in [Requests -> Places]
           /\ reply' \in [Requests -> {None, "ok", "notfound", "error"}]
           /\ kinds' \in Workloads
           /\ serial' \in BOOLEAN
<1> SUFFICES ASSUME NEW r \in Requests,
                    \/ Passes(r) \/ Fail(r)
                    \/ Create(r) \/ Delete(r)
                    \/ LoadSoftware(r) \/ LoadAliases(r) \/ LoadUrl(r)
                    \/ Save(r)
                    \/ MergeAnalysis(r)
                    \/ FindForLog(r) \/ CreateLog(r) \/ PostLog(r)
                    \/ FindLog(r) \/ UpdateLog(r) \/ DeleteLog(r),
                    UNCHANGED kinds
             PROVE  /\ pc' \in [Requests -> Places]
                    /\ reply' \in [Requests ->
                                     {None, "ok", "notfound", "error"}]
                    /\ serial' \in BOOLEAN
  BY DEF Step, Next, vars, TypeOK, Passes, SoftwareAside
<1>1. \/ \E status \in {"ok", "notfound", "error"} : Answer(r, status)
      \/ \E place \in Places : Goto(r, place)
  BY DEF Passes, Fail, Create, Delete, LoadSoftware, LoadAliases, LoadUrl,
         Save, MergeAnalysis, FindForLog, CreateLog, PostLog, FindLog,
         UpdateLog, DeleteLog, Places
<1>2. serial' \in BOOLEAN
  BY DEF TypeOK, Passes, Fail, Create, Delete, LoadSoftware, LoadAliases,
         LoadUrl, Save, MergeAnalysis, FindForLog, CreateLog, PostLog,
         FindLog, UpdateLog, DeleteLog, Arrives
<1> QED BY <1>1, <1>2 DEF TypeOK, Answer, Goto, Places

\* What a request read comes from the rows there are.
LEMMA TypeLocal ==
    ASSUME TypeOK, Step
    PROVE  local' \in [Requests -> Locals]
<1> SUFFICES ASSUME NEW r \in Requests,
                    \/ Create(r) \/ Delete(r)
                    \/ LoadSoftware(r) \/ LoadAliases(r) \/ LoadUrl(r)
                    \/ Save(r)
                    \/ MergeAnalysis(r)
                    \/ FindForLog(r) \/ FindLog(r)
             PROVE  local' \in [Requests -> Locals]
  BY DEF Step, Next, vars, TypeOK, Passes, SoftwareAside, Fail, CreateLog,
         PostLog, UpdateLog, DeleteLog
<1>1. CASE Create(r)
  BY <1>1, LocalsTyped DEF Create
<1>2. CASE Delete(r)
  BY <1>2, LocalsTyped DEF Delete
<1>3. CASE LoadSoftware(r)
  <2>1. PICK s \in Ids :
           \/ /\ Exists(s)
              /\ local' = [local EXCEPT ![r].id = s,
                                        ![r].canonical = software[s].canonical]
           \/ local' = [local EXCEPT ![r].id = s]
    BY <1>3 DEF LoadSoftware
  <2>2. Exists(s) => software[s].canonical \in Rows
    BY DEF TypeOK, Exists, Columns
  <2>3. \A x \in Rows : [local EXCEPT ![r].id = s, ![r].canonical = x]
                           \in [Requests -> Locals]
    BY LocalsTyped, Zenon
  <2>4. [local EXCEPT ![r].id = s] \in [Requests -> Locals]
    BY LocalsTyped, Zenon
  <2> QED BY <2>1, <2>2, <2>3, <2>4, Zenon
<1>4. CASE LoadAliases(r)
  BY <1>4, LocalsTyped DEF LoadAliases, TypeOK
<1>5. CASE LoadUrl(r)
  <2>1. CASE /\ local[r].canonical \in urls
             /\ local' = [local EXCEPT ![r].rows = @ \cup {local[r].canonical}]
    <3>1. local[r].rows \cup {local[r].canonical} \in SUBSET Rows
      BY <2>1 DEF TypeOK, Locals
    <3>2. local' = [local EXCEPT ![r].rows =
                                    local[r].rows \cup {local[r].canonical}]
      BY <2>1
    <3> QED BY <3>1, <3>2, LocalsTyped
  <2> QED BY <1>5, <2>1 DEF LoadUrl, TypeOK
<1>6. CASE Save(r)
  <2>1. PICK x \in SUBSET Urls : local' = [local EXCEPT ![r].want = x]
    BY <1>6 DEF Save
  <2> QED BY <2>1, LocalsTyped
<1>7. CASE MergeAnalysis(r)
  <2>1. PICK s \in Ids, n \in SUBSET Namespaces :
           \/ local' = [local EXCEPT ![r].id = s, ![r].merged = n]
           \/ local' = [local EXCEPT ![r].id = s]
    BY <1>7, Zenon DEF MergeAnalysis
  <2>2. [local EXCEPT ![r].id = s, ![r].merged = n] \in [Requests -> Locals]
    BY LocalsTyped, Zenon
  <2>3. [local EXCEPT ![r].id = s] \in [Requests -> Locals]
    BY LocalsTyped, Zenon
  <2> QED BY <2>1, <2>2, <2>3, Zenon
<1>8. CASE FindForLog(r)
  BY <1>8, LocalsTyped DEF FindForLog
<1>9. CASE FindLog(r)
  <2>1. \/ \E l \in logs : local' = [local EXCEPT ![r].log = l]
        \/ local' = local
    BY <1>9 DEF FindLog
  <2>2. logs \subseteq Logs /\ local \in [Requests -> Locals]
    BY DEF TypeOK
  <2>3. \A l \in Logs : [local EXCEPT ![r].log = l] \in [Requests -> Locals]
    BY LocalsTyped, Zenon
  <2> QED BY <2>1, <2>2, <2>3, Zenon
<1> QED BY <1>1, <1>2, <1>3, <1>4, <1>5, <1>6, <1>7, <1>8, <1>9

\* Recording a well-typed event keeps the trail well typed.
LEMMA TrailTyped ==
    ASSUME TypeOK, NEW type \in {"create", "update", "delete"}, NEW s \in Ids,
           Record(type, s)
    PROVE  trail' \in Seq([type : {"create", "update", "delete"}, id : Ids])
<1>1. [type |-> type, id |-> s]
         \in [type : {"create", "update", "delete"}, id : Ids]
  OBVIOUS
<1> QED BY <1>1 DEF TypeOK, Record

\* Steps keep the tables well typed.
LEMMA TypeStore ==
    ASSUME SoftwareAssumption, TypeOK, Answered, Step
    PROVE  /\ software' \in [Ids -> Columns \cup {Unborn, Gone}]
           /\ urls' \in SUBSET Rows
           /\ trail' \in Seq([type : {"create", "update", "delete"}, id : Ids])
<1> SUFFICES ASSUME NEW r \in Requests,
                    \/ Create(r) \/ Delete(r) \/ Save(r) \/ MergeAnalysis(r)
             PROVE  /\ software' \in [Ids -> Columns \cup {Unborn, Gone}]
                    /\ urls' \in SUBSET Rows
                    /\ trail' \in Seq([type : {"create", "update", "delete"},
                                       id : Ids])
  BY StepWrites DEF TypeOK
<1>1. CASE Create(r)
  <2>1. PICK s \in Ids, url \in Urls, aliases \in SUBSET Urls :
           /\ urls' = urls \cup NewRows(r, s, aliases \cup {url})
           /\ software' = [software EXCEPT ![s] =
                 [canonical |-> [by |-> r, url |-> url, owner |-> s],
                  analysis  |-> [n \in Namespaces |-> None]]]
           /\ Record("create", s)
    BY <1>1 DEF Create
  <2>2. [canonical |-> [by |-> r, url |-> url, owner |-> s],
         analysis  |-> [n \in Namespaces |-> None]] \in Columns
    BY DEF Columns, Rows
  <2>3. NewRows(r, s, aliases \cup {url}) \subseteq Rows
    BY DEF NewRows, Rows
  <2>4. trail' \in Seq([type : {"create", "update", "delete"}, id : Ids])
    BY <2>1, TrailTyped
  <2>5. software' \in [Ids -> Columns \cup {Unborn, Gone}]
    BY <2>1, <2>2 DEF TypeOK
  <2> QED BY <2>1, <2>3, <2>4, <2>5 DEF TypeOK
<1>2. CASE Delete(r)
  <2>1. PICK s \in Ids :
           \/ /\ urls' = UrlsLeft(s)
              /\ software' = [software EXCEPT ![s] = Gone]
              /\ Record("delete", s)
           \/ UNCHANGED <<software, urls, trail>>
    BY <1>2 DEF Delete
  <2>2. trail' \in Seq([type : {"create", "update", "delete"}, id : Ids])
    BY <2>1, TrailTyped DEF TypeOK
  <2> QED BY <2>1, <2>2 DEF TypeOK, UrlsLeft
<1>3. CASE Save(r)
  <2> DEFINE s == local[r].id
  <2>1. s \in Ids
    BY <1>3 DEF Save, Answered, Patching
  <2>2. PICK url \in Urls, aliases \in SUBSET Urls :
           LET all == aliases \cup {url}
               left == urls \ (local[r].rows \ Kept(r, all))
               row == CHOOSE x \in Kept(r, all) \cup Added(r, all) :
                         x.url = url
           IN /\ urls' = left \cup Added(r, all)
              /\ software' = IF Exists(s)
                             THEN [software EXCEPT ![s] = SavedColumns(r, row)]
                             ELSE software
              /\ Record("update", s)
    BY <1>3 DEF Save
  <2> DEFINE all == aliases \cup {url}
             row == CHOOSE x \in Kept(r, all) \cup Added(r, all) :
                       x.url = url
  <2>3. Added(r, all) \subseteq Rows /\ row \in Rows
    <3>1. all \in SUBSET Urls /\ url \in all
      OBVIOUS
    <3> HIDE DEF all
    <3> QED BY <2>1, <3>1, SavedRows
  <2>4. Exists(s) => SavedColumns(r, row) \in Columns
    <3> HIDE DEF row
    <3> QED BY <2>1, <2>3 DEF SavedColumns, Columns, Exists, TypeOK
  <2>5. software' = IF Exists(s)
                    THEN [software EXCEPT ![s] = SavedColumns(r, row)]
                    ELSE software
    BY <2>2
  <2>6. urls' \in SUBSET Rows
    BY <2>2, <2>3 DEF TypeOK
  <2>7. trail' \in Seq([type : {"create", "update", "delete"}, id : Ids])
    BY <2>1, <2>2, TrailTyped
  <2> HIDE DEF s, row, all
  <2>8. software' \in [Ids -> Columns \cup {Unborn, Gone}]
    BY <2>1, <2>4, <2>5 DEF TypeOK
  <2> QED BY <2>6, <2>7, <2>8
<1>4. CASE MergeAnalysis(r)
  <2>1. PICK s \in Ids, namespaces \in SUBSET Namespaces :
           \/ /\ Exists(s)
              /\ software' = [software EXCEPT ![s].analysis =
                                 Merged(@, [n \in namespaces |-> r])]
              /\ Record("update", s)
           \/ UNCHANGED <<software, trail>>
    BY <1>4 DEF MergeAnalysis
  <2>2. Exists(s) => Merged(software[s].analysis, [n \in namespaces |-> r])
                        \in [Namespaces -> Requests \cup {None}]
    BY DEF Merged, Exists, TypeOK, Columns
  <2>3. Exists(s) => \A d \in [Namespaces -> Requests \cup {None}] :
           [software EXCEPT ![s].analysis = d]
              \in [Ids -> Columns \cup {Unborn, Gone}]
    <3> SUFFICES ASSUME Exists(s),
                        NEW d \in [Namespaces -> Requests \cup {None}]
                 PROVE  [software EXCEPT ![s].analysis = d]
                           \in [Ids -> Columns \cup {Unborn, Gone}]
      OBVIOUS
    <3>1. software[s] \in Columns
      BY DEF Exists, TypeOK
    <3>2. [software[s] EXCEPT !.analysis = d] \in Columns
      BY <3>1 DEF Columns
    <3> QED BY <3>2 DEF TypeOK
  <2>4. urls' = urls
    BY <1>4 DEF MergeAnalysis
  <2>5. trail' \in Seq([type : {"create", "update", "delete"}, id : Ids])
    BY <2>1, TrailTyped DEF TypeOK
  <2>6. software' \in [Ids -> Columns \cup {Unborn, Gone}]
    <3>1. CASE UNCHANGED <<software, trail>>
      BY <3>1 DEF TypeOK
    <3>2. CASE /\ Exists(s)
               /\ software' = [software EXCEPT ![s].analysis =
                                  Merged(@, [n \in namespaces |-> r])]
      <4>1. software' = [software EXCEPT ![s].analysis =
                 Merged(software[s].analysis, [n \in namespaces |-> r])]
        BY <3>2
      <4> QED BY <2>2, <2>3, <3>2, <4>1
    <3> QED BY <2>1, <3>1, <3>2
  <2> QED BY <2>4, <2>5, <2>6 DEF TypeOK
<1> QED BY <1>1, <1>2, <1>3, <1>4

\* Steps keep the types of all state.
LEMMA TypeStep ==
    ASSUME SoftwareAssumption, TypeOK, Answered, Step PROVE TypeOK'
<1>1. logs' \in SUBSET Logs
  <2> SUFFICES ASSUME NEW r \in Requests,
                      \/ Delete(r) \/ CreateLog(r) \/ PostLog(r)
                      \/ UpdateLog(r) \/ DeleteLog(r)
               PROVE  logs' \in SUBSET Logs
    BY DEF Step, Next, vars, TypeOK, Passes, SoftwareAside, Fail, Create,
           LoadSoftware, LoadAliases, LoadUrl, Save, MergeAnalysis,
           FindForLog, FindLog
  <2>1. pc[r] = "insert" => local[r].id \in Ids
    BY DEF Answered
  <2> QED BY <2>1 DEF Delete, LogsLeft, CreateLog, PostLog, UpdateLog, Updated,
                      DeleteLog, TypeOK, Logs
<1> QED BY <1>1, TypeMoves, TypeLocal, TypeStore DEF TypeOK

-----------------------------------------------------------------------------
(* What the writes write. *)

\* The rows a PATCH leaves are those of others, those it keeps and those it
\* adds.
LEMMA Saved ==
    ASSUME TypeOK, Answered, NEW r \in Requests, Save(r)
    PROVE  LET s == local[r].id IN
           /\ s \in Ids
           /\ Record("update", s)
           /\ \E all \in SUBSET Urls, row \in Rows :
                 /\ row \in Kept(r, all) \cup Added(r, all)
                 /\ urls' = (urls \ (local[r].rows \ Kept(r, all)))
                              \cup Added(r, all)
                 /\ Referenced(s, Added(r, all))
                 /\ local' = [local EXCEPT ![r].want = all]
                 /\ \A x \in Added(r, all) : x \in Rows /\ x.owner = s
                 /\ IF Exists(s)
                    THEN software' = [software EXCEPT ![s] =
                            [canonical |-> row,
                             analysis  |-> software[s].analysis]]
                    ELSE software' = software
<1> DEFINE s == local[r].id
<1>1. s \in Ids
  BY DEF Save, Answered, Patching
<1>2. PICK url \in Urls, aliases \in SUBSET Urls :
         LET all == aliases \cup {url}
             left == urls \ (local[r].rows \ Kept(r, all))
             row == CHOOSE x \in Kept(r, all) \cup Added(r, all) : x.url = url
         IN /\ Referenced(s, Added(r, all))
            /\ urls' = left \cup Added(r, all)
            /\ software' = IF Exists(s)
                           THEN [software EXCEPT ![s] = SavedColumns(r, row)]
                           ELSE software
            /\ Record("update", s)
            /\ local' = [local EXCEPT ![r].want = all]
  BY DEF Save
<1> DEFINE all == aliases \cup {url}
           row == CHOOSE x \in Kept(r, all) \cup Added(r, all) : x.url = url
<1>3. all \in SUBSET Urls /\ url \in all
  OBVIOUS
<1>4. /\ row \in Kept(r, all) \cup Added(r, all)
      /\ row \in Rows
      /\ \A x \in Added(r, all) : x \in Rows /\ x.owner = s
  <2> HIDE DEF all
  <2> QED BY <1>1, <1>3, SavedRows
<1>5. /\ Referenced(s, Added(r, all))
      /\ urls' = (urls \ (local[r].rows \ Kept(r, all))) \cup Added(r, all)
      /\ software' = IF Exists(s)
                     THEN [software EXCEPT ![s] = SavedColumns(r, row)]
                     ELSE software
      /\ Record("update", s)
      /\ local' = [local EXCEPT ![r].want = all]
  BY <1>2
<1> HIDE DEF all, row
<1>6. Exists(s) => SavedColumns(r, row) =
         [canonical |-> row, analysis |-> software[s].analysis]
  BY <1>1 DEF SavedColumns, Exists, TypeOK, Columns
<1>7. IF Exists(s)
      THEN software' = [software EXCEPT ![s] =
              [canonical |-> row, analysis |-> software[s].analysis]]
      ELSE software' = software
  BY <1>5, <1>6
<1> QED BY <1>1, <1>3, <1>4, <1>5, <1>7

-----------------------------------------------------------------------------
(* The trail and the life of a software. *)

SameLife(s) == /\ software'[s] = Unborn <=> software[s] = Unborn
               /\ software'[s] = Gone <=> software[s] = Gone

\* What a step records of a software, and what it does to it.
Records(type, s) ==
    /\ Record(type, s)
    /\ \A t \in Ids \ {s} : software'[t] = software[t]
    /\ \/ /\ type = "create"
          /\ software[s] = Unborn /\ software'[s] \notin {Unborn, Gone}
       \/ /\ type = "delete"
          /\ Exists(s) /\ software'[s] = Gone
       \/ /\ type = "update" /\ SameLife(s)
          /\ \/ Exists(s)
             \/ serial' = serial /\ \E r \in Requests :
                   pc[r] = "save" /\ local[r].id = s

\* What is recorded says what happened to the software's row.
LEMMA Chronicle ==
    ASSUME SoftwareAssumption, TypeOK, Answered, Step
    PROVE  \/ UNCHANGED <<software, trail>>
           \/ \E s \in Ids, type \in {"create", "update", "delete"} :
                 Records(type, s)
<1> SUFFICES ASSUME NEW r \in Requests,
                    \/ Create(r) \/ Delete(r) \/ Save(r) \/ MergeAnalysis(r)
             PROVE  \/ UNCHANGED <<software, trail>>
                    \/ \E s \in Ids, type \in {"create", "update", "delete"} :
                          Records(type, s)
  BY StepWrites
<1>2. CASE Create(r)
  <2>1. PICK s \in Ids, url \in Urls :
           /\ software[s] = Unborn
           /\ software' = [software EXCEPT ![s] =
                 [canonical |-> [by |-> r, url |-> url, owner |-> s],
                  analysis  |-> [n \in Namespaces |-> None]]]
           /\ Record("create", s)
    BY <1>2 DEF Create
  <2>2. [canonical |-> [by |-> r, url |-> url, owner |-> s],
         analysis  |-> [n \in Namespaces |-> None]] \in Columns
    BY DEF Columns, Rows
  <2>3. software'[s] \notin {Unborn, Gone}
    BY <2>1, <2>2 DEF SoftwareAssumption, TypeOK
  <2>4. \A t \in Ids \ {s} : software'[t] = software[t]
    BY <2>1 DEF TypeOK
  <2> QED BY <2>1, <2>3, <2>4 DEF Records
<1>3. CASE Delete(r)
  <2>1. PICK s \in Ids :
           \/ /\ Exists(s)
              /\ software' = [software EXCEPT ![s] = Gone]
              /\ Record("delete", s)
           \/ UNCHANGED <<software, trail>>
    BY <1>3 DEF Delete, DeleteResult
  <2> QED BY <2>1 DEF Records, TypeOK
<1>4. CASE Save(r)
  <2> DEFINE s == local[r].id
  <2>1. /\ s \in Ids
        /\ Record("update", s)
        /\ \/ software' = software
           \/ /\ Exists(s)
              /\ \E c \in Columns : software' = [software EXCEPT ![s] = c]
    <3>1. PICK row \in Rows :
             /\ s \in Ids
             /\ Record("update", s)
             /\ IF Exists(s)
                THEN software' = [software EXCEPT ![s] =
                        [canonical |-> row,
                         analysis  |-> software[s].analysis]]
                ELSE software' = software
      BY <1>4, Saved
    <3>2. Exists(s) => [canonical |-> row, analysis  |-> software[s].analysis]
                          \in Columns
      BY <3>1 DEF TypeOK, Exists, Columns
    <3> QED BY <3>1, <3>2
  <2>2. (\A t \in Ids \ {s} : software'[t] = software[t]) /\ SameLife(s)
    BY <2>1 DEF SameLife, TypeOK, Exists, SoftwareAssumption
  <2>3. pc[r] = "save" /\ serial' = serial
    BY <1>4 DEF Save
  <2> QED BY <2>1, <2>2, <2>3 DEF Records
<1>5. CASE MergeAnalysis(r)
  <2>1. ASSUME NEW s \in Ids, Exists(s), Record("update", s),
               NEW ns \in SUBSET Namespaces,
               software' = [software EXCEPT ![s] =
                     [canonical |-> software[s].canonical,
                      analysis  |-> [n \in Namespaces |->
                         IF n \in ns THEN r
                         ELSE software[s].analysis[n]]]]
        PROVE  Records("update", s)
    <3>1. [canonical |-> software[s].canonical,
           analysis  |-> [n \in Namespaces |->
              IF n \in ns THEN r ELSE software[s].analysis[n]]] \in Columns
      BY <2>1 DEF TypeOK, Exists, Columns
    <3>2. (\A t \in Ids \ {s} : software'[t] = software[t]) /\ SameLife(s)
      BY <2>1, <3>1 DEF SameLife, TypeOK, Exists, SoftwareAssumption
    <3> QED BY <2>1, <3>2 DEF Records
  <2> QED BY <1>5, <2>1, MergedIn
<1> QED BY <1>2, <1>3, <1>4, <1>5

\* Nothing is unborn again, and what is gone stays so.
LEMMA LifeStep ==
    ASSUME SoftwareAssumption, TypeOK, Answered, Step
    PROVE  \A s \in Ids : /\ software[s] # Unborn => software'[s] # Unborn
                          /\ software[s] = Gone => software'[s] = Gone
<1>1. CASE UNCHANGED <<software, trail>>
  BY <1>1
<1>2. ASSUME NEW s \in Ids, NEW type, Records(type, s), NEW t \in Ids
      PROVE  /\ software[t] # Unborn => software'[t] # Unborn
             /\ software[t] = Gone => software'[t] = Gone
  BY <1>2 DEF Records, SameLife, Exists, SoftwareAssumption
<1> QED BY <1>1, <1>2, Chronicle

\* Steps keep the trail of a software that of its life.
LEMMA LivedStep ==
    ASSUME SoftwareAssumption, TypeOK, Answered, Lived, Ended, Step
    PROVE  Lived' /\ Ended'
<1> DEFINE E == [type : {"create", "update", "delete"}, id : Ids]
<1>1. CASE UNCHANGED <<software, trail>>
  BY <1>1 DEF Lived, Ended, Count
<1>2. ASSUME NEW s \in Ids, NEW type \in {"create", "update", "delete"},
             Records(type, s)
      PROVE  Lived' /\ Ended'
  <2> DEFINE e == [type |-> type, id |-> s]
  <2>1. trail \in Seq(E) /\ e \in E /\ trail' = Append(trail, e)
    BY <1>2 DEF TypeOK, Records, Record
  <2>2. ASSUME NEW t \in Ids, NEW k \in {"create", "delete"}
        PROVE  Count(k, t)' =
                  Count(k, t) + (IF k = type /\ t = s THEN 1 ELSE 0)
    <3> DEFINE x == [type |-> k, id |-> t]
    <3>1. Count(k, t) = Cardinality(Hits(trail, x))
      BY DEF Count, Hits
    <3>2. Count(k, t)' = Cardinality(Hits(trail', x))
      BY DEF Count, Hits
    <3>3. e = x <=> k = type /\ t = s
      OBVIOUS
    <3> HIDE DEF E, e, x
    <3>4. Cardinality(Hits(Append(trail, e), x)) =
             Cardinality(Hits(trail, x)) + (IF e = x THEN 1 ELSE 0)
      BY <2>1, HitsAppend
    <3> QED BY <2>1, <3>1, <3>2, <3>3, <3>4
  <2>3. Lived'
    <3> SUFFICES ASSUME NEW t \in Ids
                 PROVE  /\ Count("delete", t)' =
                              IF software'[t] = Gone THEN 1 ELSE 0
                        /\ \/ Count("create", t)' = 0
                           \/ Count("create", t)' = 1
                        /\ software'[t] = Unborn => Count("create", t)' = 0
      BY DEF Lived
    <3>1. /\ Count("delete", t) = IF software[t] = Gone THEN 1 ELSE 0
          /\ Count("create", t) = 0 \/ Count("create", t) = 1
          /\ software[t] = Unborn => Count("create", t) = 0
      BY DEF Lived
    <3>2. /\ Count("delete", t)' = Count("delete", t)
               + (IF "delete" = type /\ t = s THEN 1 ELSE 0)
          /\ Count("create", t)' = Count("create", t)
               + (IF "create" = type /\ t = s THEN 1 ELSE 0)
      BY <2>2
    <3>3. CASE t # s
      BY <1>2, <3>1, <3>2, <3>3 DEF Records
    <3>4. CASE t = s
      <4>1. CASE type = "create"
        BY <1>2, <3>1, <3>2, <3>4, <4>1 DEF Records, SoftwareAssumption
      <4>2. CASE type = "delete"
        BY <1>2, <3>1, <3>2, <3>4, <4>2 DEF Records, SoftwareAssumption, Exists
      <4>3. CASE type = "update"
        BY <1>2, <3>1, <3>2, <3>4, <4>3 DEF Records, SameLife
      <4> QED BY <4>1, <4>2, <4>3
    <3> QED BY <3>3, <3>4
  <2>4. Ended'
    <3> SUFFICES ASSUME NEW i \in DOMAIN trail', trail'[i].type = "delete"
                 PROVE  software'[trail'[i].id] = Gone
      BY DEF Ended
    <3>1. CASE i \in DOMAIN trail
      <4>1. trail'[i] = trail[i] /\ trail[i] \in E
        <5> HIDE DEF E, e
        <5> QED BY <2>1, <3>1, AppendPlaces
      <4> QED BY <3>1, <4>1, LifeStep DEF Ended
    <3>2. CASE i \notin DOMAIN trail
      <4>1. trail'[i] = e
        BY <2>1, <3>2
      <4>2. type = "delete" /\ trail'[i].id = s
        BY <4>1
      <4> QED BY <1>2, <4>2 DEF Records
    <3> QED BY <3>1, <3>2
  <2> QED BY <2>3, <2>4
<1> QED BY <1>1, <1>2, Chronicle

\* Requests that take turns record nothing of what is gone.
LEMMA NothingAfterStep ==
    ASSUME SoftwareAssumption, TypeOK, Answered, Ended, InStep,
           NothingAfterDelete, Step, serial, serial'
    PROVE  NothingAfterDelete'
<1> DEFINE E == [type : {"create", "update", "delete"}, id : Ids]
<1>1. CASE UNCHANGED <<software, trail>>
  BY <1>1 DEF NothingAfterDelete
<1>2. ASSUME NEW s \in Ids, NEW type \in {"create", "update", "delete"},
             Records(type, s)
      PROVE  NothingAfterDelete'
  <2> DEFINE e == [type |-> type, id |-> s]
  <2>1. trail \in Seq(E) /\ e \in E /\ trail' = Append(trail, e)
    BY <1>2 DEF TypeOK, Records, Record
  <2>2. software[s] # Gone
    BY <1>2 DEF Records, Exists, InStep, Patching, SoftwareAssumption
  <2> SUFFICES ASSUME NEW i \in DOMAIN trail', NEW j \in DOMAIN trail',
                      i < j, trail'[i].type = "delete"
               PROVE  trail'[j].id # trail'[i].id
    BY DEF NothingAfterDelete
  <2>3. i \in DOMAIN trail /\ trail'[i] = trail[i]
    BY <2>1
  <2>4. CASE j \in DOMAIN trail
    BY <2>1, <2>3, <2>4 DEF NothingAfterDelete
  <2>5. CASE j \notin DOMAIN trail
    <3>1. trail'[j] = e
      BY <2>1, <2>5
    <3>2. software[trail[i].id] = Gone
      BY <2>3 DEF Ended
    <3> QED BY <2>2, <2>3, <3>1, <3>2
  <2> QED BY <2>4, <2>5
<1> QED BY <1>1, <1>2, Chronicle

-----------------------------------------------------------------------------
(* Requests. *)

\* Steps keep what is known of a request from where it is.
LEMMA AnsweredStep ==
    ASSUME SoftwareAssumption, TypeOK, Answered, Step PROVE Answered'
<1>1. CASE UNCHANGED vars
  BY <1>1 DEF Answered, Patching, vars
<1>2. ASSUME NEW r \in Requests, Acts(r) PROVE Answered'
  <2> SUFFICES ASSUME NEW q \in Requests
               PROVE  /\ pc'[q] # "done" => reply'[q] = None
                                            /\ local'[q].merged = {}
                      /\ (Patching(q) \/ pc[q] = "insert")' =>
                            local'[q].id \in Ids
                      /\ local'[q].merged # {} =>
                            /\ local'[q].id \in Ids
                            /\ software'[local'[q].id] # Unborn
    BY DEF Answered
  <2>1. CASE q # r
    BY <1>2, <2>1, LifeStep DEF Acts, Answered, Patching
  <2>2. CASE q = r
    <3>1. pc[r] # "done" /\ reply[r] = None /\ local[r].merged = {}
      BY <1>2 DEF Acts, Answered
    <3>2. (Patching(r) \/ pc[r] = "insert")' => local'[r].id \in Ids
      BY <1>2 DEF Acts, Answered, Patching
    <3>3. CASE local'[r].merged = {}
      BY <1>2, <2>2, <3>1, <3>2, <3>3 DEF Acts
    <3>4. CASE local'[r].merged # {}
      <4>1. MergeAnalysis(r)
        BY <1>2, <3>1, <3>4 DEF Acts
      <4>2. pc'[r] = "done"
        BY <4>1 DEF MergeAnalysis, Answer, TypeOK
      <4>3. local'[r].id \in Ids /\ Exists(local'[r].id)
        BY <3>1, <3>4, <4>1, MergedIn
      <4> QED BY <2>2, <3>2, <4>2, <4>3, LifeStep DEF Exists
    <3> QED BY <3>3, <3>4
  <2> QED BY <2>1, <2>2
<1> QED BY <1>1, <1>2, StepActs

\* Handled alone, a request goes on while all others rest.
LEMMA OthersRest ==
    ASSUME Alone, NEW r \in Requests, Acts(r), serial'
    PROVE  \A q \in Requests \ {r} : Resting(q) /\ Resting(q)'
BY DEF Alone, Acts, Resting

\* While requests take turns one at a time is on its way.
LEMMA AloneStep ==
    ASSUME TypeOK, Alone, Step PROVE Alone'
<1>1. CASE UNCHANGED vars
  BY <1>1 DEF Alone, Resting, vars
<1>2. ASSUME NEW r \in Requests, Acts(r) PROVE Alone'
  BY <1>2, OthersRest DEF Alone
<1> QED BY <1>1, <1>2, StepActs

\* What exists does until it is deleted.
LEMMA ExistsStep ==
    ASSUME SoftwareAssumption, TypeOK, Answered, Step,
           ~ \E r \in Requests : Delete(r)
    PROVE  \A t \in Ids : Exists(t) => Exists(t)'
<1> SUFFICES ASSUME NEW r \in Requests,
                    Create(r) \/ Save(r) \/ MergeAnalysis(r)
             PROVE  \A t \in Ids : Exists(t) => Exists(t)'
  BY StepWrites DEF Exists
<1>1. CASE Create(r)
  <2>1. PICK s \in Ids, url \in Urls :
           /\ software[s] = Unborn
           /\ software' = [software EXCEPT ![s] =
                 [canonical |-> [by |-> r, url |-> url, owner |-> s],
                  analysis  |-> [n \in Namespaces |-> None]]]
    BY <1>1 DEF Create
  <2> QED BY <2>1 DEF Exists, TypeOK
<1>2. CASE Save(r)
  <2> DEFINE s == local[r].id
  <2>1. PICK row \in Rows :
           /\ s \in Ids
           /\ IF Exists(s)
              THEN software' = [software EXCEPT ![s] =
                      [canonical |-> row, analysis |-> software[s].analysis]]
              ELSE software' = software
    BY <1>2, Saved
  <2>2. Exists(s) => [canonical |-> row, analysis |-> software[s].analysis]
                        \in Columns
    BY <2>1 DEF TypeOK, Exists, Columns
  <2> HIDE DEF s
  <2> QED BY <2>1, <2>2 DEF Exists, TypeOK, SoftwareAssumption
<1>3. CASE MergeAnalysis(r)
  <2>1. ASSUME NEW s \in Ids, Exists(s), NEW ns,
               software' = [software EXCEPT ![s] =
                     [canonical |-> software[s].canonical,
                      analysis  |-> [n \in Namespaces |->
                         IF n \in ns THEN r
                         ELSE software[s].analysis[n]]]]
        PROVE  \A t \in Ids : Exists(t) => Exists(t)'
    <3>1. [canonical |-> software[s].canonical,
           analysis  |-> [n \in Namespaces |->
              IF n \in ns THEN r ELSE software[s].analysis[n]]] \in Columns
      BY <2>1 DEF TypeOK, Exists, Columns
    <3> QED BY <2>1, <3>1 DEF TypeOK, Exists, SoftwareAssumption
  <2> QED BY <1>3, <2>1, MergedIn DEF Exists
<1> QED BY <1>1, <1>2, <1>3

\* No step leaves a URL whose software is gone.
LEMMA NoUrlStep ==
    ASSUME SoftwareAssumption, TypeOK, Answered, NoUrlLeftBehind, Step
    PROVE  NoUrlLeftBehind'
<1> SUFFICES ASSUME NEW r \in Requests,
                    \/ Create(r) \/ Delete(r) \/ Save(r) \/ MergeAnalysis(r)
             PROVE  NoUrlLeftBehind'
  BY StepWrites DEF NoUrlLeftBehind, Exists
<1>1. \A x \in Rows : x.owner \in Ids
  BY DEF Rows
<1>2. \A x \in urls : x \in Rows /\ x.owner \in Ids /\ Exists(x.owner)
  BY <1>1 DEF TypeOK, NoUrlLeftBehind
<1>3. ASSUME NEW q \in Requests, Delete(q) PROVE NoUrlLeftBehind'
  <2>1. PICK s \in Ids :
           \/ UNCHANGED <<software, urls>>
           \/ /\ urls' = UrlsLeft(s)
              /\ software' = [software EXCEPT ![s] = Gone]
    BY <1>3 DEF Delete
  <2> QED BY <1>2, <2>1 DEF UrlsLeft, NoUrlLeftBehind, Exists, TypeOK
<1>4. CASE ~ \E q \in Requests : Delete(q)
  <2>1. \A t \in Ids : Exists(t) => Exists(t)'
    BY <1>4, ExistsStep
  <2>2. CASE Create(r)
    <3>1. PICK s \in Ids, url \in Urls, aliases \in SUBSET Urls :
             /\ urls' = urls \cup NewRows(r, s, aliases \cup {url})
             /\ software' = [software EXCEPT ![s] =
                   [canonical |-> [by |-> r, url |-> url, owner |-> s],
                    analysis  |-> [n \in Namespaces |-> None]]]
      BY <2>2 DEF Create
    <3>2. [canonical |-> [by |-> r, url |-> url, owner |-> s],
           analysis  |-> [n \in Namespaces |-> None]] \in Columns
      BY DEF Columns, Rows
    <3>3. Exists(s)'
      BY <3>1, <3>2 DEF Exists, TypeOK, SoftwareAssumption
    <3>4. \A x \in NewRows(r, s, aliases \cup {url}) : x.owner = s
      BY DEF NewRows
    <3> QED BY <1>2, <2>1, <3>1, <3>3, <3>4 DEF NoUrlLeftBehind
  <2>3. CASE Save(r)
    <3>1. PICK all \in SUBSET Urls :
             /\ local[r].id \in Ids
             /\ urls' = (urls \ (local[r].rows \ Kept(r, all)))
                          \cup Added(r, all)
             /\ Referenced(local[r].id, Added(r, all))
             /\ \A x \in Added(r, all) : x.owner = local[r].id
      BY <2>3, Saved
    <3>2. \A x \in Added(r, all) : Exists(x.owner) /\ x.owner \in Ids
      BY <3>1 DEF Referenced
    <3>3. \A x \in urls' : x \in urls \/ x \in Added(r, all)
      BY <3>1
    <3> QED BY <1>2, <2>1, <3>2, <3>3 DEF NoUrlLeftBehind
  <2>4. CASE MergeAnalysis(r)
    BY <1>2, <2>1, <2>4 DEF MergeAnalysis, NoUrlLeftBehind
  <2> QED BY <1>4, <2>2, <2>3, <2>4
<1> QED BY <1>3, <1>4

\* Only a merge changes the analysis of a software that stays.
LEMMA Analyses ==
    ASSUME SoftwareAssumption, TypeOK, Answered, Step,
           NEW s \in Ids, NEW n \in Namespaces, Exists(s), Exists(s)'
    PROVE  \/ software'[s].analysis[n] = software[s].analysis[n]
           \/ \E r \in Requests : /\ MergeAnalysis(r)
                                  /\ software'[s].analysis[n] = r
                                  /\ local'[r].id = s
                                  /\ n \in local'[r].merged
<1> SUFFICES ASSUME NEW r \in Requests,
                    \/ Create(r) \/ Delete(r) \/ Save(r) \/ MergeAnalysis(r)
             PROVE  \/ software'[s].analysis[n] = software[s].analysis[n]
                    \/ /\ MergeAnalysis(r)
                       /\ software'[s].analysis[n] = r
                       /\ local'[r].id = s
                       /\ n \in local'[r].merged
  BY StepWrites
<1>1. CASE Create(r)
  <2>1. PICK t \in Ids : /\ software[t] = Unborn
                         /\ \E c : software' = [software EXCEPT ![t] = c]
    BY <1>1 DEF Create
  <2> QED BY <2>1 DEF Exists, TypeOK
<1>2. CASE Delete(r)
  <2>1. PICK t \in Ids : \/ software' = software
                         \/ software' = [software EXCEPT ![t] = Gone]
    BY <1>2 DEF Delete
  <2> QED BY <2>1 DEF Exists, TypeOK
<1>3. CASE Save(r)
  <2>1. PICK row \in Rows :
           IF Exists(local[r].id)
           THEN software' = [software EXCEPT ![local[r].id] =
                   [canonical |-> row,
                    analysis  |-> software[local[r].id].analysis]]
           ELSE software' = software
    BY <1>3, Saved
  <2> QED BY <2>1 DEF TypeOK
<1>4. CASE MergeAnalysis(r)
  <2>1. PICK t \in Ids :
              /\ local'[r].id = t
              /\ \/ software' = software
                 \/ \E ns \in SUBSET Namespaces :
                       /\ local'[r].merged = ns
                       /\ software' = [software EXCEPT ![t] =
                            [canonical |-> software[t].canonical,
                             analysis  |-> [k \in Namespaces |->
                                IF k \in ns THEN r
                                ELSE software[t].analysis[k]]]]
    BY <1>4, MergedIn
  <2> QED BY <1>4, <2>1 DEF TypeOK
<1> QED BY <1>1, <1>2, <1>3, <1>4

\* No step takes away what another scanner merged.
LEMMA AnalysisStep ==
    ASSUME SoftwareAssumption, TypeOK, Answered, AnalysisKept, Step
    PROVE  AnalysisKept'
<1>1. CASE UNCHANGED vars
  BY <1>1 DEF AnalysisKept, Exists, vars
<1>2. ASSUME NEW r \in Requests, Acts(r) PROVE AnalysisKept'
  <2> SUFFICES ASSUME NEW q \in Requests, NEW n \in local'[q].merged,
                      Exists(local[q].id)'
               PROVE  \E w \in Requests :
                         /\ software'[local'[q].id].analysis[n] = w
                         /\ local'[w].id = local'[q].id
                         /\ n \in local'[w].merged
    BY DEF AnalysisKept, Exists
  <2>1. n \in Namespaces
    BY TypeStep DEF TypeOK, Locals
  <2>2. CASE n \in local[q].merged
    <3>1. PICK s \in Ids : /\ local[q].id = s /\ software[s] # Unborn
                           /\ local'[q] = local[q]
      BY <1>2, <2>2 DEF Acts, Answered
    <3>2. Exists(s) /\ Exists(s)'
      BY <3>1, LifeStep DEF Exists
    <3>3. PICK w \in Requests : /\ software[s].analysis[n] = w
                                /\ local[w].id = s
                                /\ n \in local[w].merged
      BY <2>2, <3>1, <3>2 DEF AnalysisKept
    <3>4. w # r /\ local'[w] = local[w] /\ q # r
      BY <1>2, <2>2, <3>3 DEF Acts, Answered
    <3>5. \/ software'[s].analysis[n] = software[s].analysis[n]
          \/ \E x \in Requests : /\ MergeAnalysis(x)
                                 /\ software'[s].analysis[n] = x
                                 /\ local'[x].id = s
                                 /\ n \in local'[x].merged
      BY <2>1, <3>1, <3>2, Analyses
    <3> QED BY <3>1, <3>3, <3>4, <3>5
  <2>3. CASE n \notin local[q].merged
    <3>1. q = r /\ MergeAnalysis(q) /\ local[q].merged = {}
      BY <1>2, <2>3 DEF Acts, Answered
    <3>2. PICK s \in Ids, ns \in SUBSET Namespaces :
             /\ local'[q].id = s
             /\ local'[q].merged = ns
             /\ software' = [software EXCEPT ![s] =
                  [canonical |-> software[s].canonical,
                   analysis  |-> [k \in Namespaces |->
                      IF k \in ns THEN q ELSE software[s].analysis[k]]]]
      BY <2>3, <3>1, MergedIn
    <3>3. software'[s].analysis[n] = q
      BY <2>1, <3>2 DEF TypeOK
    <3> QED BY <3>2, <3>3
  <2> QED BY <2>2, <2>3
<1> QED BY <1>1, <1>2, StepActs

-----------------------------------------------------------------------------
(* Requests that are handled one at a time. *)

\* Only its handlers write a canonical URL, and only its deletion takes it.
LEMMA CanonicalStep ==
    ASSUME SoftwareAssumption, TypeOK, Answered, Alone, InStep,
           SerialCanonical, Step
    PROVE  SerialCanonical'
<1> SUFFICES ASSUME serial' PROVE CanonicalExists'
  BY DEF SerialCanonical
<1>1. serial
  BY StepActs DEF Acts, vars
<1>2. /\ CanonicalExists
      /\ \A s \in Ids : Exists(s) => /\ software[s].canonical \in urls
                                     /\ software[s].canonical.owner = s
  BY <1>1 DEF SerialCanonical, CanonicalExists
<1> SUFFICES ASSUME NEW r \in Requests,
                    \/ Create(r) \/ Delete(r) \/ Save(r) \/ MergeAnalysis(r),
                    NEW t \in Ids, Exists(t)'
             PROVE  /\ software'[t].canonical \in urls'
                    /\ software'[t].canonical.owner = t
  <2>1. CASE UNCHANGED <<software, urls, trail>>
    BY <1>2, <2>1 DEF CanonicalExists, Exists
  <2> QED BY <2>1, StepWrites DEF CanonicalExists, Exists
<1>3. CASE Create(r)
  <2>1. PICK s \in Ids, url \in Urls, aliases \in SUBSET Urls :
           /\ urls' = urls \cup NewRows(r, s, aliases \cup {url})
           /\ software' = [software EXCEPT ![s] =
                 [canonical |-> [by |-> r, url |-> url, owner |-> s],
                  analysis  |-> [n \in Namespaces |-> None]]]
    BY <1>3 DEF Create
  <2>2. [by |-> r, url |-> url, owner |-> s]
           \in NewRows(r, s, aliases \cup {url})
    BY DEF NewRows
  <2>3. CASE t = s
    BY <2>1, <2>2, <2>3 DEF TypeOK
  <2>4. CASE t # s
    BY <1>2, <2>1, <2>4 DEF Exists, TypeOK
  <2> QED BY <2>3, <2>4
<1>4. CASE Delete(r)
  <2>1. PICK s \in Ids :
           \/ UNCHANGED <<software, urls>>
           \/ /\ urls' = UrlsLeft(s)
              /\ software' = [software EXCEPT ![s] = Gone]
    BY <1>4 DEF Delete
  <2> QED BY <1>2, <2>1 DEF UrlsLeft, Exists, TypeOK
<1>5. CASE Save(r)
  <2> DEFINE s == local[r].id
  <2>1. PICK all \in SUBSET Urls, row \in Rows :
           /\ s \in Ids
           /\ row \in Kept(r, all) \cup Added(r, all)
           /\ urls' = (urls \ (local[r].rows \ Kept(r, all)))
                        \cup Added(r, all)
           /\ \A x \in Added(r, all) : x.owner = s
           /\ IF Exists(s)
              THEN software' = [software EXCEPT ![s] =
                      [canonical |-> row, analysis |-> software[s].analysis]]
              ELSE software' = software
    BY <1>5, Saved
  <2>2. Exists(s) /\ local[r].rows = {x \in urls : x.owner = s}
    BY <1>1, <1>5 DEF Save, InStep, Patching
  <2>3. Kept(r, all) \subseteq local[r].rows
    BY DEF Kept
  <2>4. row \in urls' /\ row.owner = s
    BY <2>1, <2>2, <2>3
  <2>5. CASE t = s
    BY <2>1, <2>2, <2>4, <2>5 DEF TypeOK
  <2>6. CASE t # s
    <3>1. software'[t] = software[t]
      BY <2>1, <2>2, <2>6 DEF TypeOK
    <3>2. Exists(t)
      BY <3>1 DEF Exists
    <3>3. software[t].canonical \notin local[r].rows
      BY <1>2, <2>2, <2>6, <3>2
    <3> QED BY <1>2, <2>1, <3>1, <3>2, <3>3
  <2> QED BY <2>5, <2>6
<1>6. CASE MergeAnalysis(r)
  <2>1. urls' = urls
    BY <1>6 DEF MergeAnalysis
  <2>2. PICK s \in Ids :
           \/ software' = software
           \/ /\ Exists(s)
              /\ \E d : software' = [software EXCEPT ![s] =
                            [canonical |-> software[s].canonical,
                             analysis  |-> d]]
    BY <1>6, MergedIn
  <2> QED BY <1>2, <2>1, <2>2 DEF Exists, TypeOK
<1> QED BY <1>3, <1>4, <1>5, <1>6

\* Nor does a software that goes leave a log.
LEMMA SerialDeleteStep ==
    ASSUME SoftwareAssumption, TypeOK, Answered, Ended, Alone, InStep,
           SerialDelete, Step
    PROVE  SerialDelete'
<1> SUFFICES ASSUME serial' PROVE NothingAfterDelete' /\ NoLogLeftBehind'
  BY DEF SerialDelete
<1>1. serial
  BY StepActs DEF Acts, vars
<1>2. NothingAfterDelete /\ NoLogLeftBehind
  BY <1>1 DEF SerialDelete
<1>3. \A l \in logs : l.owner # None => l.owner \in Ids /\ Exists(l.owner)
  BY <1>2 DEF NoLogLeftBehind, TypeOK, Logs
<1>4. NoLogLeftBehind'
  <2>1. CASE \E r \in Requests : Delete(r)
    <3>1. PICK s \in Ids :
             \/ UNCHANGED <<software, logs>>
             \/ /\ logs' = LogsLeft(s)
                /\ software' = [software EXCEPT ![s] = Gone]
      BY <2>1 DEF Delete
    <3> QED BY <1>3, <3>1 DEF LogsLeft, NoLogLeftBehind, Exists, TypeOK
  <2>2. CASE ~ \E r \in Requests : Delete(r)
    <3>1. \A t \in Ids : Exists(t) => Exists(t)'
      BY <2>2, ExistsStep
    <3>2. \A l \in logs' : l.owner # None => l.owner \in Ids /\ Exists(l.owner)
      <4>1. CASE logs' = logs
        BY <1>3, <4>1
      <4>2. ASSUME NEW r \in Requests,
                   \/ CreateLog(r) \/ PostLog(r)
                   \/ UpdateLog(r) \/ DeleteLog(r)
            PROVE  \A l \in logs' : l.owner # None =>
                                       l.owner \in Ids /\ Exists(l.owner)
        <5>1. CASE CreateLog(r)
          BY <1>1, <1>3, <5>1 DEF CreateLog, InStep, Answered
        <5>2. CASE PostLog(r)
          <6>1. logs' = logs \cup {[by |-> r, owner |-> None]}
            BY <5>2 DEF PostLog
          <6> QED BY <1>3, <6>1
        <5>3. CASE UpdateLog(r)
          BY <1>3, <5>3 DEF UpdateLog, Updated
        <5>4. CASE DeleteLog(r)
          BY <1>3, <5>4 DEF DeleteLog
        <5> QED BY <4>2, <5>1, <5>2, <5>3, <5>4
      <4> QED BY <2>2, <4>1, <4>2
              DEF Step, Next, vars, Passes, SoftwareAside, Fail, Create,
                  LoadSoftware, LoadAliases, LoadUrl, Save, MergeAnalysis,
                  FindForLog, FindLog
    <3> QED BY <3>1, <3>2 DEF NoLogLeftBehind
  <2> QED BY <2>1, <2>2
<1> QED BY <1>1, <1>2, <1>4, NothingAfterStep

\* While requests take turns they find things as they left them.
LEMMA InStepStep ==
    ASSUME SoftwareAssumption, TypeOK, Answered, Alone, InStep,
           SerialCanonical, Step
    PROVE  InStep'
<1>1. CASE UNCHANGED vars
  BY <1>1 DEF InStep, Patching, Exists, vars
<1>2. ASSUME serial', NEW r \in Requests, Acts(r)
      PROVE  InStep'
  <2>1. serial /\ CanonicalExists
    BY <1>2 DEF Acts, SerialCanonical
  <2>2. \A q \in Requests \ {r} : Resting(q)'
    BY <1>2, OthersRest
  <2> DEFINE s == local[r].id
             t == local'[r].id
  <2>3. /\ Patching(r) => /\ Exists(s)
                          /\ local[r].canonical = software[s].canonical
        /\ pc[r] = "url" => local[r].rows = {x \in urls :
                              x.owner = s /\ x # software[s].canonical}
    BY <2>1 DEF InStep
  <2> SUFFICES
        /\ Patching(r)' => /\ software'[t] \notin {Unborn, Gone}
                           /\ local'[r].canonical = software'[t].canonical
        /\ pc'[r] = "url" => local'[r].rows = {x \in urls' :
                               x.owner = t /\ x # software'[t].canonical}
        /\ pc'[r] = "save" => local'[r].rows = {x \in urls' : x.owner = t}
        /\ pc'[r] = "insert" => software'[t] \notin {Unborn, Gone}
    BY <2>2 DEF InStep, Resting, Patching, Exists
  <2>4. CASE pc'[r] \notin {"aliases", "url", "save", "insert"}
    BY <2>4 DEF Patching
  <2>5. CASE LoadSoftware(r)
    <3>1. PICK u \in Ids :
             \/ /\ Exists(u) /\ Goto(r, "aliases")
                /\ local' = [local EXCEPT ![r].id = u,
                                   ![r].canonical = software[u].canonical]
             \/ Answer(r, "notfound")
      BY <2>5 DEF LoadSoftware
    <3>2. UNCHANGED <<software, urls>>
      BY <2>5 DEF LoadSoftware
    <3>3. CASE Answer(r, "notfound")
      BY <2>4, <3>3 DEF Answer, TypeOK
    <3>4. CASE /\ Exists(u) /\ Goto(r, "aliases")
               /\ local' = [local EXCEPT ![r].id = u,
                                  ![r].canonical = software[u].canonical]
      <4>1. local'[r].id = u /\ local'[r].canonical = software[u].canonical
        BY <3>4 DEF TypeOK, Locals
      <4>2. pc'[r] = "aliases"
        BY <3>4 DEF Goto, TypeOK
      <4> QED BY <3>2, <3>4, <4>1, <4>2 DEF Exists
    <3> QED BY <3>1, <3>3, <3>4
  <2>6. CASE LoadAliases(r)
    <3>1. UNCHANGED <<software, urls>> /\ pc'[r] = "url" /\ Patching(r)
      BY <2>6 DEF LoadAliases, Goto, TypeOK, Patching
    <3>2. /\ local'[r].id = s /\ local'[r].canonical = local[r].canonical
          /\ local'[r].rows = {x \in urls : /\ x.owner = s
                                            /\ x # local[r].canonical}
      BY <2>6 DEF LoadAliases, TypeOK, Locals
    <3> QED BY <2>3, <3>1, <3>2 DEF Exists
  <2>7. CASE LoadUrl(r)
    <3>1. UNCHANGED <<software, urls>> /\ pc[r] = "url" /\ Patching(r)
      BY <2>7 DEF LoadUrl, Patching
    <3>2. CASE Answer(r, "error")
      BY <2>4, <3>2 DEF Answer, TypeOK
    <3>3. CASE /\ local' = [local EXCEPT ![r].rows =
                                           @ \cup {local[r].canonical}]
               /\ Goto(r, "save")
      <4>1. /\ local'[r].id = s /\ local'[r].canonical = local[r].canonical
            /\ local'[r].rows = local[r].rows \cup {local[r].canonical}
        BY <3>3 DEF TypeOK, Locals
      <4>2. pc'[r] = "save"
        BY <3>3 DEF Goto, TypeOK
      <4>3. s \in Ids
        BY <3>1 DEF Answered
      <4>4. /\ software[s].canonical \in urls
            /\ software[s].canonical.owner = s
        BY <2>1, <2>3, <3>1, <4>3 DEF CanonicalExists
      <4>5. local'[r].rows = {x \in urls : x.owner = s}
        BY <2>3, <3>1, <4>1, <4>4
      <4> QED BY <2>3, <3>1, <4>1, <4>2, <4>5 DEF Exists
    <3> QED BY <2>7, <3>2, <3>3 DEF LoadUrl
  <2>8. CASE FindForLog(r)
    <3>1. PICK u \in Ids :
             /\ local' = [local EXCEPT ![r].id = u]
             /\ \/ Exists(u) /\ Goto(r, "insert")
                \/ Answer(r, "notfound")
      BY <2>8 DEF FindForLog
    <3>2. software' = software /\ local'[r].id = u
      BY <2>8, <3>1, LocalStays DEF FindForLog
    <3>3. CASE Answer(r, "notfound")
      BY <2>4, <3>3 DEF Answer, TypeOK
    <3>4. CASE Exists(u) /\ Goto(r, "insert")
      <4>1. pc'[r] = "insert"
        BY <3>4 DEF Goto, TypeOK
      <4> QED BY <3>2, <3>4, <4>1 DEF Exists, Patching
    <3> QED BY <3>1, <3>3, <3>4
  <2> QED BY <1>2, <2>4, <2>5, <2>6, <2>7, <2>8 DEF Acts
<1> QED BY <1>1, <1>2, StepActs DEF InStep

-----------------------------------------------------------------------------
(* The invariant. *)

\* The invariant of the software holds at the start.
LEMMA SInvStart == ASSUME SoftwareAssumption, Init PROVE SInv
<1>1. /\ urls \in SUBSET Rows
      /\ \A x \in urls : x.owner \in Ids
  BY DEF Init, Rows
<1>2. [canonical : urls, analysis : {[n \in Namespaces |-> None]}]
         \subseteq Columns
  BY <1>1 DEF Columns
<1>3. /\ software \in [Ids -> Columns \cup {Unborn}]
      /\ \A s \in Ids : Exists(s) => software[s].canonical \in urls
  <2>1. software \in [Ids -> [canonical : urls,
                              analysis : {[n \in Namespaces |-> None]}]
                             \cup {Unborn}]
    BY DEF Init
  <2> QED BY <1>2, <2>1 DEF Exists
<1>4. /\ \A s \in Ids : Exists(s) => software[s].canonical.owner = s
      /\ \A s \in Ids : ~ Exists(s) => \A x \in urls : x.owner # s
  BY DEF Init
<1>5. /\ logs \subseteq Logs
      /\ \A l \in logs : Exists(l.owner)
  BY DEF Init
<1>6. /\ trail = <<>>
      /\ pc = [r \in Requests |-> "idle"]
      /\ local = [r \in Requests |-> Nothing]
      /\ reply = [r \in Requests |-> None]
      /\ kinds \in Workloads /\ serial = TRUE
  BY DEF Init
<1>7. TypeOK
  <2>1. Nothing \in Locals
    BY DEF Nothing, Locals
  <2>2. pc \in [Requests -> Places]
    BY <1>6 DEF Places
  <2> QED BY <1>1, <1>3, <1>5, <1>6, <2>1, <2>2 DEF TypeOK
<1>8. Answered /\ AnalysisKept
  <2>1. \A r \in Requests : /\ pc[r] = "idle" /\ reply[r] = None
                            /\ local[r].merged = {}
    BY <1>6 DEF Nothing
  <2> QED BY <2>1 DEF Answered, AnalysisKept, Patching
<1>9. NoUrlLeftBehind
  BY <1>1, <1>4 DEF NoUrlLeftBehind
<1>10. Lived /\ Ended
  <2>1. \A s \in Ids : software[s] # Gone
    BY <1>3 DEF SoftwareAssumption
  <2>2. \A type, s : Count(type, s) = 0
    <3> TAKE type, s
    <3>1. Count(type, s) = Cardinality(Hits(<<>>, [type |-> type, id |-> s]))
      BY <1>6 DEF Count, Hits
    <3> QED BY <3>1, HitsEmpty
  <2> QED BY <1>6, <2>1, <2>2 DEF Lived, Ended
<1>11. Alone /\ InStep
  BY <1>6 DEF Alone, InStep, Resting, Patching
<1>12. SerialCanonical /\ SerialDelete
  BY <1>3, <1>4, <1>5, <1>6
  DEF SerialCanonical, CanonicalExists, SerialDelete, NothingAfterDelete,
      NoLogLeftBehind
<1> QED BY <1>7, <1>8, <1>9, <1>10, <1>11, <1>12 DEF SInv

\* The invariant of the software is inductive.
LEMMA SInvStep == ASSUME SoftwareAssumption, SInv, Step PROVE SInv'
BY TypeStep, AnsweredStep, NoUrlStep, AnalysisStep, LivedStep, AloneStep,
   InStepStep, CanonicalStep, SerialDeleteStep DEF SInv

\* OneDelete is part of what Lived says.
LEMMA OneDeleteHolds == ASSUME Lived PROVE OneDelete
BY DEF Lived, OneDelete

\* The rows of a PATCH that is alone are those it keeps and those it adds.
LEMMA InSyncStep ==
    ASSUME SoftwareAssumption, SInv, Step, NEW r \in Requests,
           serial, pc[r] = "save", reply'[r] = "ok"
    PROVE  {x.url : x \in {y \in urls' : y.owner = local[r].id}}
              = local'[r].want
<1> USE DEF SInv
<1>1. reply[r] = None /\ None # "ok"
  BY DEF Answered, SoftwareAssumption
<1>2. Save(r)
  BY <1>1, StepActs DEF Acts, vars
<1> DEFINE s == local[r].id
<1>3. PICK all \in SUBSET Urls :
         /\ urls' = (urls \ (local[r].rows \ Kept(r, all)))
                      \cup Added(r, all)
         /\ local' = [local EXCEPT ![r].want = all]
         /\ \A x \in Added(r, all) : x.owner = s
  BY <1>2, Saved
<1>4. local'[r].want = all
  BY <1>3 DEF TypeOK, Locals
<1>5. local[r].rows = {x \in urls : x.owner = s}
  BY DEF InStep
<1>6. {y \in urls' : y.owner = s} = Kept(r, all) \cup Added(r, all)
  BY <1>3, <1>5 DEF Kept
<1>7. \A x \in Kept(r, all) \cup Added(r, all) : x.url \in all
  BY DEF Kept, Added, NewRows
<1>8. ASSUME NEW u \in all
      PROVE  \E x \in Kept(r, all) \cup Added(r, all) : x.url = u
  <2>1. CASE \E x \in local[r].rows : x.url = u
    BY <2>1 DEF Kept
  <2>2. CASE \A x \in local[r].rows : x.url # u
    <3>1. [by |-> r, url |-> u, owner |-> s] \in Added(r, all)
      BY <2>2 DEF Added, NewRows
    <3> QED BY <3>1
  <2> QED BY <2>1, <2>2
<1>9. {x.url : x \in Kept(r, all) \cup Added(r, all)} = all
  BY <1>7, <1>8
<1> QED BY <1>4, <1>6, <1>9

\* No step brings a deleted log back.
LEMMA StayDeletedStep ==
    ASSUME TypeOK, Answered, Step, NEW l \in logs' \ logs
    PROVE  l.by \in Requests /\ reply[l.by] = None
<1>1. PICK r \in Requests : \/ Delete(r) \/ CreateLog(r) \/ PostLog(r)
                            \/ UpdateLog(r) \/ DeleteLog(r)
  BY DEF Step, Next, vars, Passes, SoftwareAside, Fail, Create, LoadSoftware,
         LoadAliases, LoadUrl, Save, MergeAnalysis, FindForLog, FindLog
<1>2. CASE Delete(r) \/ UpdateLog(r) \/ DeleteLog(r)
  BY <1>2 DEF Delete, LogsLeft, UpdateLog, Updated, DeleteLog
<1>3. CASE CreateLog(r) \/ PostLog(r)
  <2>1. l.by = r
    BY <1>3 DEF CreateLog, PostLog
  <2>2. pc[r] # "done"
    BY <1>3 DEF CreateLog, PostLog, Arrives
  <2> QED BY <2>1, <2>2 DEF Answered
<1> QED BY <1>1, <1>2, <1>3

\* Without bundles the invariant holds in every state.
LEMMA SInvInvariant == Spec => []SInv
<1>1. Init => SInv
  BY SoftwareAssumption, SInvStart
<1>2. SInv /\ [Next]_vars => SInv'
  BY SoftwareAssumption, SInvStep DEF Step
<1> QED BY <1>1, <1>2, PTL DEF Spec

\* Without bundles: what the handlers of software.go and logs.go promise of
\* types, delete events, URLs, the analysis, and of requests that take turns
\* holds for any number of software, URLs, namespaces and requests.
THEOREM SoftwareCorrect ==
    Spec => [](/\ TypeOK
               /\ OneDelete
               /\ NoUrlLeftBehind
               /\ AnalysisKept
               /\ SerialCanonical
               /\ SerialDelete)
<1>1. SInv => /\ TypeOK /\ OneDelete /\ NoUrlLeftBehind /\ AnalysisKept
              /\ SerialCanonical /\ SerialDelete
  BY OneDeleteHolds DEF SInv
<1> QED BY <1>1, SInvInvariant, PTL

-----------------------------------------------------------------------------
(* The handlers of bundles. *)

BMoves(r) == \/ FindMembers(r) \/ CreateBundle(r)
             \/ FindBundle(r) \/ LoadLinks(r) \/ LoadMembers(r)
             \/ CheckMembers(r) \/ SwapLinks(r)
             \/ DeleteBundle(r)

BPlaces == {"link", "links", "members", "check", "swap"}

\* To the software a step of a bundle handler passes.
LEMMA BMovesPass ==
    ASSUME BTypeOK, NEW r \in Requests, BMoves(r)
    PROVE  /\ Passes(r)
           /\ \A q \in Requests \ {r} : asked'[q] = asked[q]
<1> USE DEF BTypeOK, TypeOK
<1>1. ASSUME NEW kind, Arrives(r, kind)
      PROVE  /\ pc[r] = "idle" /\ serial' \in BOOLEAN
             /\ serial' => serial /\ \A q \in Requests : Resting(q)
  BY <1>1 DEF Arrives, Resting
<1>2. /\ pc[r] \in {"idle"} \cup BPlaces
      /\ serial' \in BOOLEAN
      /\ serial' => /\ serial
                    /\ pc[r] = "idle" => \A q \in Requests : Resting(q)
  <2>1. \/ \E kind : Arrives(r, kind)
        \/ pc[r] \in BPlaces /\ UNCHANGED serial
    BY DEF BMoves, FindMembers, CreateBundle, FindBundle, LoadLinks,
           LoadMembers, CheckMembers, SwapLinks, DeleteBundle, BPlaces
  <2> QED BY <1>1, <2>1 DEF BPlaces
<1>3. \/ \E place \in BPlaces : Goto(r, place)
      \/ \E status \in {"ok", "notfound", "error"} : Answer(r, status)
  BY DEF BMoves, FindMembers, CreateBundle, FindBundle, LoadLinks,
         LoadMembers, CheckMembers, SwapLinks, DeleteBundle, BPlaces
<1>4. SoftwareAside
  BY DEF BMoves, FindMembers, CreateBundle, FindBundle, LoadLinks,
         LoadMembers, CheckMembers, SwapLinks, DeleteBundle
<1>5. \A q \in Requests \ {r} : asked'[q] = asked[q]
  BY DEF BMoves, FindMembers, CreateBundle, FindBundle, LoadLinks,
         LoadMembers, CheckMembers, SwapLinks, DeleteBundle
<1> QED BY <1>2, <1>3, <1>4, <1>5 DEF Passes, BPlaces

\* At the places of bundles the other handlers do not go on, they fail.
LEMMA MovesElsewhere ==
    ASSUME TypeOK, NEW r \in Requests, Moves(r)
    PROVE  /\ pc'[r] \notin BPlaces
           /\ pc[r] \in BPlaces => reply'[r] = "error"
<1>1. ASSUME NEW status, Answer(r, status)
      PROVE  pc'[r] = "done" /\ reply'[r] = status
  BY <1>1 DEF Answer, TypeOK
<1>2. ASSUME NEW place, Goto(r, place)
      PROVE  pc'[r] = place
  BY <1>2 DEF Goto, TypeOK
<1>3. pc'[r] \notin BPlaces
  BY <1>1, <1>2
  DEF Moves, Fail, Create, Delete, LoadSoftware, LoadAliases, LoadUrl, Save,
      MergeAnalysis, FindForLog, CreateLog, PostLog, FindLog, UpdateLog,
      DeleteLog, BPlaces
<1>4. pc[r] \in BPlaces => Answer(r, "error")
  BY DEF Moves, Fail, Create, Delete, LoadSoftware, LoadAliases, LoadUrl, Save,
         MergeAnalysis, FindForLog, CreateLog, PostLog, FindLog, UpdateLog,
         DeleteLog, Arrives, BPlaces
<1> QED BY <1>1, <1>3, <1>4

\* A step is one request's, of either module.
LEMMA BNextMoves ==
    ASSUME BTypeOK, BNext
    PROVE  /\ Step
           /\ \E r \in Requests :
                 /\ Acts(r)
                 /\ \A q \in Requests \ {r} : asked'[q] = asked[q]
                 /\ BMoves(r) \/ (Moves(r) /\ SoftwareNext)
<1>1. CASE SoftwareNext
  <2>1. Step /\ asked' = asked
    BY <1>1 DEF SoftwareNext, Step
  <2>2. PICK r \in Requests : Moves(r)
    BY <1>1 DEF SoftwareNext, Next, Moves
  <2> QED BY <1>1, <2>1, <2>2, MoveActs DEF BTypeOK
<1>2. ASSUME NEW r \in Requests, BMoves(r)
      PROVE  Step /\ Acts(r) /\ \A q \in Requests \ {r} : asked'[q] = asked[q]
  BY <1>2, BMovesPass, MoveActs DEF Step, BTypeOK
<1> QED BY <1>1, <1>2 DEF BNext, BMoves

\* A well-typed change of what one request asks for keeps asked well typed.
LEMMA AskedTyped ==
    ASSUME BTypeOK, NEW r \in Requests
    PROVE  /\ \A b \in BundleIds :
                 [asked EXCEPT ![r].id = b] \in [Requests -> Asked]
           /\ \A m \in SUBSET Ids :
                 [asked EXCEPT ![r].members = m] \in [Requests -> Asked]
           /\ \A w \in SUBSET Ids :
                 [asked EXCEPT ![r].want = w] \in [Requests -> Asked]
           /\ \A w \in SUBSET Ids, n \in BOOLEAN :
                 [asked EXCEPT ![r].want = w, ![r].named = n]
                    \in [Requests -> Asked]
           /\ \A b \in BundleIds, n \in BOOLEAN :
                 [asked EXCEPT ![r].id = b, ![r].named = n]
                    \in [Requests -> Asked]
<1>1. asked[r] \in Asked
  BY DEF BTypeOK
<1>2. /\ \A b \in BundleIds : [asked[r] EXCEPT !.id = b] \in Asked
      /\ \A m \in SUBSET Ids : [asked[r] EXCEPT !.members = m] \in Asked
      /\ \A w \in SUBSET Ids : [asked[r] EXCEPT !.want = w] \in Asked
      /\ \A w \in SUBSET Ids, n \in BOOLEAN :
            [asked[r] EXCEPT !.want = w, !.named = n] \in Asked
      /\ \A b \in BundleIds, n \in BOOLEAN :
            [asked[r] EXCEPT !.id = b, !.named = n] \in Asked
  BY <1>1 DEF Asked
<1>3. \A a \in Asked : [asked EXCEPT ![r] = a] \in [Requests -> Asked]
  BY DEF BTypeOK
<1>4. \A x, y :
         /\ [asked EXCEPT ![r].want = x, ![r].named = y] =
               [asked EXCEPT ![r] = [asked[r] EXCEPT !.want = x, !.named = y]]
         /\ [asked EXCEPT ![r].id = x, ![r].named = y] =
               [asked EXCEPT ![r] = [asked[r] EXCEPT !.id = x, !.named = y]]
  BY <1>1 DEF BTypeOK, Asked
<1> QED BY <1>2, <1>3, <1>4

\* Only the bundle of the path is asked for.
LEMMA AskedStays ==
    ASSUME BTypeOK, NEW r \in Requests,
           LoadLinks(r) \/ LoadMembers(r) \/ CheckMembers(r)
    PROVE  asked'[r].id = asked[r].id
<1>1. \/ \E m : asked' = [asked EXCEPT ![r].members = m]
      \/ \E w, n : asked' = [asked EXCEPT ![r].want = w, ![r].named = n]
      \/ asked' = asked
  BY DEF LoadLinks, LoadMembers, CheckMembers
<1> QED BY <1>1 DEF BTypeOK, Asked

\* Recording a well-typed event keeps the trail of bundles well typed.
LEMMA NewsTyped ==
    ASSUME BTypeOK, NEW type \in {"create", "update", "delete"},
           NEW b \in BundleIds, Tell(type, b)
    PROVE  news' \in Seq([type : {"create", "update", "delete"},
                         id : BundleIds])
<1>1. [type |-> type, id |-> b]
         \in [type : {"create", "update", "delete"}, id : BundleIds]
  OBVIOUS
<1> QED BY <1>1 DEF BTypeOK, Tell

\* Steps keep the types of the bundles' state.
LEMMA BTypeStep ==
    ASSUME BTypeOK, Found, BNext, TypeOK' PROVE BTypeOK'
<1> DEFINE N == Seq([type : {"create", "update", "delete"}, id : BundleIds])
<1>1. BTypeOK => /\ bundles \in [BundleIds -> {None, Unborn, Gone}]
                 /\ links \in SUBSET Links
                 /\ news \in N
                 /\ asked \in [Requests -> Asked]
  BY DEF BTypeOK
<1> SUFFICES /\ bundles' \in [BundleIds -> {None, Unborn, Gone}]
             /\ links' \in SUBSET Links
             /\ news' \in N
             /\ asked' \in [Requests -> Asked]
  BY DEF BTypeOK
<1>2. CASE SoftwareNext
  BY <1>1, <1>2 DEF SoftwareNext, LinksLeft
<1>3. ASSUME NEW r \in Requests, FindMembers(r)
      PROVE  /\ UNCHANGED <<bundles, links, news>>
             /\ asked' \in [Requests -> Asked]
  <2>1. PICK w \in SUBSET Ids : \/ asked' = [asked EXCEPT ![r].want = w]
                                \/ asked' = asked
    BY <1>3 DEF FindMembers
  <2>2. UNCHANGED <<bundles, links, news>>
    BY <1>3 DEF FindMembers
  <2>3. [asked EXCEPT ![r].want = w] \in [Requests -> Asked]
    BY AskedTyped, Zenon
  <2> QED BY <1>1, <2>1, <2>2, <2>3
<1>4. ASSUME NEW r \in Requests, CreateBundle(r)
      PROVE  /\ bundles' \in [BundleIds -> {None, Unborn, Gone}]
             /\ links' \in SUBSET Links
             /\ news' \in N
             /\ asked' \in [Requests -> Asked]
  <2>1. PICK b \in BundleIds :
           /\ bundles' = [bundles EXCEPT ![b] = None]
           /\ links' = links \cup LinksOf(b, asked[r].want)
           /\ Tell("create", b)
           /\ asked' = [asked EXCEPT ![r].id = b, ![r].named = TRUE]
    BY <1>4 DEF CreateBundle
  <2>2. asked[r].want \subseteq Ids
    BY <1>1 DEF Asked
  <2>3. LinksOf(b, asked[r].want) \subseteq Links
    BY <2>2 DEF LinksOf, Links
  <2>4. [asked EXCEPT ![r].id = b, ![r].named = TRUE] \in [Requests -> Asked]
    BY AskedTyped, Zenon
  <2>5. news' \in N
    BY <2>1, NewsTyped
  <2> QED BY <1>1, <2>1, <2>3, <2>4, <2>5
<1>5. ASSUME NEW r \in Requests, FindBundle(r)
      PROVE  /\ UNCHANGED <<bundles, links, news>>
             /\ asked' \in [Requests -> Asked]
  <2>1. PICK b \in BundleIds : asked' = [asked EXCEPT ![r].id = b]
    BY <1>5 DEF FindBundle
  <2>2. UNCHANGED <<bundles, links, news>>
    BY <1>5 DEF FindBundle
  <2>3. [asked EXCEPT ![r].id = b] \in [Requests -> Asked]
    BY AskedTyped, Zenon
  <2> QED BY <2>1, <2>2, <2>3
<1>6. ASSUME NEW r \in Requests, LoadLinks(r) \/ LoadMembers(r)
      PROVE  /\ UNCHANGED <<bundles, links, news>>
             /\ asked' \in [Requests -> Asked]
  <2>1. asked[r].members \subseteq Ids
    BY <1>1 DEF Asked
  <2>2. PICK m \in SUBSET Ids : asked' = [asked EXCEPT ![r].members = m]
    <3>1. Members(asked[r].id) \in SUBSET Ids
      BY DEF Members
    <3>2. {s \in asked[r].members : Exists(s)} \in SUBSET Ids
      BY <2>1
    <3>3. CASE LoadLinks(r)
      BY <3>1, <3>3 DEF LoadLinks
    <3>4. CASE LoadMembers(r)
      BY <3>2, <3>4 DEF LoadMembers
    <3> QED BY <1>6, <3>3, <3>4
  <2>3. UNCHANGED <<bundles, links, news>>
    BY <1>6 DEF LoadLinks, LoadMembers
  <2>4. [asked EXCEPT ![r].members = m] \in [Requests -> Asked]
    BY AskedTyped, Zenon
  <2> QED BY <2>2, <2>3, <2>4
<1>7. ASSUME NEW r \in Requests, CheckMembers(r)
      PROVE  /\ UNCHANGED <<bundles, links, news>>
             /\ asked' \in [Requests -> Asked]
  <2>1. asked[r].members \subseteq Ids
    BY <1>1 DEF Asked
  <2>2. \A named \in BOOLEAN : Wanted(r, named) \subseteq SUBSET Ids
    BY <2>1 DEF Wanted
  <2>3. PICK named \in BOOLEAN, w \in SUBSET Ids :
           \/ asked' = [asked EXCEPT ![r].want = w, ![r].named = named]
           \/ asked' = asked
    BY <1>7, <2>2 DEF CheckMembers
  <2>4. UNCHANGED <<bundles, links, news>>
    BY <1>7 DEF CheckMembers
  <2>5. [asked EXCEPT ![r].want = w, ![r].named = named]
           \in [Requests -> Asked]
    BY AskedTyped, Zenon
  <2> QED BY <1>1, <2>3, <2>4, <2>5
<1>8. ASSUME NEW r \in Requests, SwapLinks(r)
      PROVE  /\ UNCHANGED <<bundles, asked>>
             /\ links' \in SUBSET Links
             /\ news' \in N
  <2>1. asked[r].id \in BundleIds /\ asked[r].want \subseteq Ids
    BY <1>1, <1>8 DEF SwapLinks, Found, Asked
  <2>2. /\ links' = Replaced(asked[r].id, asked[r].want)
        /\ Tell("update", asked[r].id)
        /\ UNCHANGED <<bundles, asked>>
    BY <1>8 DEF SwapLinks
  <2>3. news' \in N
    BY <2>1, <2>2, NewsTyped
  <2>4. Replaced(asked[r].id, asked[r].want) \subseteq Links
    BY <1>1, <2>1 DEF Replaced, LinksOf, Links
  <2> QED BY <2>2, <2>3, <2>4
<1>9. ASSUME NEW r \in Requests, DeleteBundle(r)
      PROVE  /\ bundles' \in [BundleIds -> {None, Unborn, Gone}]
             /\ links' \in SUBSET Links
             /\ news' \in N
             /\ asked' \in [Requests -> Asked]
  <2>1. PICK b \in BundleIds :
           /\ asked' = [asked EXCEPT ![r].id = b]
           /\ \/ /\ links' = {x \in links : x.bundle # b}
                 /\ bundles' = [bundles EXCEPT ![b] = Gone]
                 /\ Tell("delete", b)
              \/ UNCHANGED <<bundles, links, news>>
    BY <1>9 DEF DeleteBundle
  <2>2. [asked EXCEPT ![r].id = b] \in [Requests -> Asked]
    BY AskedTyped, Zenon
  <2>3. news' \in N
    BY <1>1, <2>1, NewsTyped
  <2> QED BY <1>1, <2>1, <2>2, <2>3
<1> QED BY <1>1, <1>2, <1>3, <1>4, <1>5, <1>6, <1>7, <1>8, <1>9 DEF BNext

\* The foreign keys are enough.
LEMMA MembersStep ==
    ASSUME SoftwareAssumption, BTypeOK, Answered, MembersExist, BNext
    PROVE  MembersExist'
<1>1. \A x \in links : /\ x.bundle \in BundleIds /\ x.software \in Ids
                       /\ Live(x.bundle) /\ Exists(x.software)
  BY DEF MembersExist, BTypeOK, Links
<1>2. Unborn # None /\ Gone # None
  BY DEF SoftwareAssumption
<1>3. CASE SoftwareNext
  <2>1. \A s \in Ids : software[s] # Unborn => software'[s] # Unborn
    BY <1>3, LifeStep DEF SoftwareNext, Step, BTypeOK
  <2>2. links' = LinksLeft(software') /\ bundles' = bundles
    BY <1>3 DEF SoftwareNext
  <2> QED BY <1>1, <2>1, <2>2 DEF LinksLeft, MembersExist, Live, Exists
<1>4. ASSUME NEW r \in Requests, BMoves(r)
      PROVE  MembersExist'
  <2>1. software' = software
    BY <1>4, BMovesPass DEF Passes, SoftwareAside
  <2>2. CASE UNCHANGED <<bundles, links>>
    BY <2>1, <2>2 DEF MembersExist, Live, Exists
  <2>3. CASE CreateBundle(r)
    <3>1. PICK b \in BundleIds :
             /\ bundles[b] = Unborn
             /\ AllFound(asked[r].want)
             /\ bundles' = [bundles EXCEPT ![b] = None]
             /\ links' = links \cup LinksOf(b, asked[r].want)
      BY <2>3 DEF CreateBundle
    <3>2. ASSUME NEW x \in links'
          PROVE  bundles'[x.bundle] = None /\ Exists(x.software)
      <4>1. CASE x \in links
        BY <1>1, <1>2, <3>1, <4>1 DEF Live, BTypeOK
      <4>2. CASE x \in LinksOf(b, asked[r].want)
        <5>1. PICK s \in asked[r].want : x = [bundle |-> b, software |-> s]
          BY <4>2 DEF LinksOf
        <5> QED BY <3>1, <5>1 DEF AllFound, BTypeOK
      <4> QED BY <3>1, <4>1, <4>2
    <3> QED BY <2>1, <3>2 DEF MembersExist, Live, Exists
  <2>4. CASE SwapLinks(r)
    <3> DEFINE b == asked[r].id
               want == asked[r].want
    <3>1. /\ Keyed(b, want)
          /\ links' = Replaced(b, want)
          /\ bundles' = bundles
      BY <2>4 DEF SwapLinks
    <3>2. ASSUME NEW x \in links' PROVE Live(x.bundle) /\ Exists(x.software)
      <4>1. CASE x \in links
        BY <1>1, <4>1
      <4>2. CASE x \notin links
        <5>1. PICK s \in want : x = [bundle |-> b, software |-> s]
          BY <3>1, <3>2, <4>2 DEF Replaced, LinksOf
        <5>2. s \in want \ Members(b)
          BY <4>2, <5>1 DEF Members
        <5>3. Live(b) /\ Exists(s)
          BY <3>1, <5>2 DEF Keyed
        <5> QED BY <5>1, <5>3
      <4> QED BY <4>1, <4>2
    <3> QED BY <2>1, <3>1, <3>2 DEF MembersExist, Live, Exists
  <2>5. CASE DeleteBundle(r)
    <3>1. PICK b \in BundleIds :
             \/ /\ links' = {x \in links : x.bundle # b}
                /\ bundles' = [bundles EXCEPT ![b] = Gone]
             \/ UNCHANGED <<bundles, links>>
      BY <2>5 DEF DeleteBundle
    <3>2. CASE /\ links' = {x \in links : x.bundle # b}
               /\ bundles' = [bundles EXCEPT ![b] = Gone]
      <4>1. \A x \in links' : bundles'[x.bundle] = None /\ Exists(x.software)
        BY <1>1, <3>2 DEF Live, BTypeOK
      <4> QED BY <2>1, <4>1 DEF MembersExist, Live, Exists
    <3> QED BY <2>2, <3>1, <3>2
  <2> QED BY <1>4, <2>2, <2>3, <2>4, <2>5
          DEF BMoves, FindMembers, FindBundle, LoadLinks, LoadMembers,
              CheckMembers
<1> QED BY <1>3, <1>4 DEF BNext, BMoves

\* Steps keep that a bundle handler under way found its bundle.
LEMMA FoundStep ==
    ASSUME BTypeOK, Found, BNext PROVE Found'
<1>1. PICK r \in Requests :
         /\ Acts(r)
         /\ \A q \in Requests \ {r} : asked'[q] = asked[q]
         /\ BMoves(r) \/ (Moves(r) /\ SoftwareNext)
  BY BNextMoves
<1>2. pc'[r] \in {"links", "members", "check", "swap"} =>
         asked'[r].id \in BundleIds
  <2>1. CASE Moves(r)
    BY <2>1, MovesElsewhere DEF BPlaces, BTypeOK
  <2>2. CASE FindMembers(r) \/ CreateBundle(r) \/ SwapLinks(r)
    <3>1. \/ \E status : Answer(r, status)
          \/ Goto(r, "link")
      BY <2>2 DEF FindMembers, CreateBundle, SwapLinks
    <3> QED BY <3>1 DEF Answer, Goto, BTypeOK, TypeOK
  <2>3. CASE FindBundle(r) \/ DeleteBundle(r)
    <3>1. PICK b \in BundleIds : asked' = [asked EXCEPT ![r].id = b]
      BY <2>3 DEF FindBundle, DeleteBundle
    <3> QED BY <3>1 DEF BTypeOK, Asked
  <2>4. CASE LoadLinks(r) \/ LoadMembers(r) \/ CheckMembers(r)
    <3>1. pc[r] \in {"links", "members", "check"}
      BY <2>4 DEF LoadLinks, LoadMembers, CheckMembers
    <3>2. asked'[r].id = asked[r].id
      BY <2>4, AskedStays
    <3> QED BY <3>1, <3>2 DEF Found
  <2> QED BY <1>1, <2>1, <2>2, <2>3, <2>4 DEF BMoves
<1>3. ASSUME NEW q \in Requests \ {r}
      PROVE  asked'[q] = asked[q] /\ pc'[q] = pc[q]
  BY <1>1, <1>3 DEF Acts
<1> QED BY <1>2, <1>3 DEF Found

\* Steps keep Filled.
LEMMA FilledStep ==
    ASSUME BTypeOK, Filled, BNext PROVE Filled'
<1>1. PICK r \in Requests :
         /\ Acts(r)
         /\ \A q \in Requests \ {r} : asked'[q] = asked[q]
         /\ BMoves(r) \/ (Moves(r) /\ SoftwareNext)
  BY BNextMoves
<1>2. pc'[r] # "idle"
  <2>1. \/ \E status : Answer(r, status)
        \/ \E place \in Places \ {"idle"} : Goto(r, place)
    BY <1>1 DEF Moves, Fail, Create, Delete, LoadSoftware, LoadAliases,
      LoadUrl, Save, MergeAnalysis, FindForLog, CreateLog, PostLog, FindLog,
      UpdateLog, DeleteLog, BMoves, FindMembers, CreateBundle, FindBundle,
      LoadLinks, LoadMembers, CheckMembers, SwapLinks, DeleteBundle, Places
  <2> QED BY <2>1 DEF Answer, Goto, BTypeOK, TypeOK
<1>3. pc'[r] = "swap" /\ ~ asked'[r].named => asked'[r].want # {}
  <2>1. CASE Moves(r)
    BY <2>1, MovesElsewhere DEF BPlaces, BTypeOK
  <2>2. CASE CheckMembers(r)
    <3>1. PICK named \in BOOLEAN : \E w \in Wanted(r, named) :
             \/ asked' = [asked EXCEPT ![r].want = w, ![r].named = named]
             \/ Answer(r, "error")
      BY <2>2 DEF CheckMembers
    <3>2. CASE Answer(r, "error")
      BY <3>2 DEF Answer, BTypeOK, TypeOK
    <3>3. CASE \E w \in Wanted(r, named) :
                  asked' = [asked EXCEPT ![r].want = w, ![r].named = named]
      <4> PICK w \in Wanted(r, named) :
             asked' = [asked EXCEPT ![r].want = w, ![r].named = named]
        BY <3>3
      <4>1. asked'[r].want = w /\ asked'[r].named = named
        BY <3>3 DEF BTypeOK, Asked
      <4>2. ~ named => w # {}
        BY DEF Wanted
      <4> QED BY <4>1, <4>2
    <3> QED BY <3>1, <3>2, <3>3
  <2>3. CASE BMoves(r) /\ ~ CheckMembers(r)
    <3>1. \/ \E status : Answer(r, status)
          \/ \E place \in BPlaces \ {"swap"} : Goto(r, place)
      BY <2>3 DEF BMoves, FindMembers, CreateBundle, FindBundle,
        LoadLinks, LoadMembers, SwapLinks, DeleteBundle, BPlaces
    <3> QED BY <3>1 DEF Answer, Goto, BTypeOK, TypeOK
  <2> QED BY <1>1, <2>1, <2>2, <2>3
<1>4. ASSUME NEW q \in Requests \ {r}
      PROVE  asked'[q] = asked[q] /\ pc'[q] = pc[q]
  BY <1>1, <1>4 DEF Acts
<1> QED BY <1>2, <1>3, <1>4 DEF Filled

-----------------------------------------------------------------------------
(* The trail of a bundle. *)

\* The deletions of a bundle and the events after them are finitely many.
LEMMA DeletesFinite ==
    ASSUME BTypeOK, NEW b \in BundleIds
    PROVE  /\ IsFiniteSet(Deletes(b)) /\ Cardinality(Deletes(b)) \in Nat
           /\ Cardinality(Deletes(b)) = 0 <=> Deletes(b) = {}
           /\ IsFiniteSet(LateNews(b)) /\ Cardinality(LateNews(b)) \in Nat
<1> DEFINE E == [type : {"create", "update", "delete"}, id : BundleIds]
<1>1. news \in Seq(E)
  BY DEF BTypeOK
<1>2. IsFiniteSet(Deletes(b))
  <2> HIDE DEF E
  <2> QED BY <1>1, HitsFinite DEF Deletes
<1>3. DOMAIN news = 1..Len(news) /\ Len(news) \in Nat
  BY <1>1
<1>4. IsFiniteSet(DOMAIN news)
  BY <1>3, FS_Interval
<1>5. LateNews(b) \in SUBSET DOMAIN news
  BY DEF LateNews
<1>6. IsFiniteSet(LateNews(b))
  BY <1>4, <1>5, FS_Subset
<1> QED BY <1>2, <1>6, FS_CardinalityType, FS_EmptySet

\* One more event in the trail, counted.
LEMMA NewsAppend ==
    ASSUME BTypeOK, NEW type \in {"create", "update", "delete"},
           NEW c \in BundleIds, Tell(type, c), NEW b \in BundleIds
    PROVE  /\ Cardinality(Deletes(b)') = Cardinality(Deletes(b))
                 + (IF type = "delete" /\ b = c THEN 1 ELSE 0)
           /\ Cardinality(LateNews(b)') = Cardinality(LateNews(b))
                 + (IF b = c /\ Deletes(b) # {} THEN 1 ELSE 0)
<1> DEFINE E == [type : {"create", "update", "delete"}, id : BundleIds]
           e == [type |-> type, id |-> c]
           d == [type |-> "delete", id |-> b]
           n == Len(news)
<1>1. news \in Seq(E) /\ e \in E /\ news' = Append(news, e)
  BY DEF BTypeOK, Tell
<1>2. e = d <=> type = "delete" /\ b = c
  OBVIOUS
<1>3. Cardinality(Deletes(b)') = Cardinality(Deletes(b))
         + (IF type = "delete" /\ b = c THEN 1 ELSE 0)
  <2>1. Deletes(b) = Hits(news, d) /\ Deletes(b)' = Hits(Append(news, e), d)
    BY <1>1 DEF Deletes
  <2> HIDE DEF E, e, d
  <2> QED BY <1>1, <1>2, <2>1, HitsAppend
<1>4. /\ \A i \in DOMAIN news : /\ i \in Nat /\ i < n + 1
                                /\ i \in DOMAIN news' /\ news'[i] = news[i]
      /\ n \in Nat /\ n + 1 \in DOMAIN news' /\ news'[n + 1] = e
      /\ \A i \in DOMAIN news' : i \notin DOMAIN news => i = n + 1
  <2>1. n \in Nat
    BY <1>1
  <2> HIDE DEF E, e
  <2> QED BY <1>1, <2>1, AppendPlaces
<1>5. e.id = c
  OBVIOUS
<1> HIDE DEF e, d, n, E
<1>6. \A i \in DOMAIN news : i \in Deletes(b)' <=> i \in Deletes(b)
  BY <1>4 DEF Deletes, Hits
<1>7. \A i \in Deletes(b) : i \in DOMAIN news
  BY DEF Deletes, Hits
<1>8. \A i \in Deletes(b)' : i \in DOMAIN news \/ i = n + 1
  BY <1>4 DEF Deletes, Hits
<1>9. \A j \in DOMAIN news : j \in LateNews(b)' <=> j \in LateNews(b)
  BY <1>4, <1>6, <1>7, <1>8 DEF LateNews
<1>10. n + 1 \in LateNews(b)' <=> b = c /\ Deletes(b) # {}
  BY <1>4, <1>5, <1>6, <1>7, <1>8 DEF LateNews
<1>11. /\ \A j \in LateNews(b)' : j \in DOMAIN news \/ j = n + 1
       /\ \A j \in LateNews(b) : j \in DOMAIN news
       /\ n + 1 \notin LateNews(b)
  BY <1>4 DEF LateNews
<1>12. IsFiniteSet(LateNews(b)) /\ Cardinality(LateNews(b)) \in Nat
  BY DeletesFinite
<1>13. CASE b = c /\ Deletes(b) # {}
  <2>1. LateNews(b)' = LateNews(b) \cup {n + 1}
    BY <1>9, <1>10, <1>11, <1>13
  <2>2. Cardinality(LateNews(b) \cup {n + 1}) = Cardinality(LateNews(b)) + 1
    BY <1>11, <1>12, FS_AddElement
  <2>3. Cardinality(LateNews(b)') = Cardinality(LateNews(b)) + 1
    BY <2>1, <2>2
  <2> QED BY <1>3, <1>13, <2>3
<1>14. CASE ~ (b = c /\ Deletes(b) # {})
  <2>1. LateNews(b)' = LateNews(b)
    BY <1>9, <1>10, <1>11, <1>14
  <2> QED BY <1>3, <1>12, <1>14, <2>1
<1> QED BY <1>13, <1>14

\* Only finitely many requests have ever arrived.
LEMMA BusyStep ==
    ASSUME BTypeOK, BundleTrail, BNext
    PROVE  IsFiniteSet({r \in Requests : pc'[r] # "idle"})
<1> DEFINE Busy == {r \in Requests : pc[r] # "idle"}
<1>1. PICK r \in Requests : Acts(r)
  BY BNextMoves
<1>2. /\ IsFiniteSet(Busy)
      /\ {q \in Requests : pc'[q] # "idle"} \subseteq Busy \cup {r}
  BY <1>1 DEF BundleTrail, Acts
<1> HIDE DEF Busy
<1>3. IsFiniteSet(Busy \cup {r})
  BY <1>2, FS_AddElement
<1> QED BY <1>2, <1>3, FS_Subset

\* Who has cleared a bundle stays one who has.
LEMMA ClearedStep ==
    ASSUME BTypeOK, BundleTrail, BNext, NEW b \in BundleIds
    PROVE  /\ Cleared(b) \subseteq Cleared(b)'
           /\ IsFiniteSet(Cleared(b)) /\ Cardinality(Cleared(b)) \in Nat
           /\ IsFiniteSet(Cleared(b)') /\ Cardinality(Cleared(b)') \in Nat
           /\ Cardinality(Cleared(b)) <= Cardinality(Cleared(b)')
<1>1. PICK r \in Requests :
         /\ Acts(r)
         /\ \A q \in Requests \ {r} : asked'[q] = asked[q]
  BY BNextMoves
<1>2. /\ IsFiniteSet({q \in Requests : pc[q] # "idle"})
      /\ IsFiniteSet({q \in Requests : pc'[q] # "idle"})
  BY BusyStep DEF BundleTrail
<1>3. /\ Cleared(b) \subseteq {q \in Requests : pc[q] # "idle"}
      /\ Cleared(b)' \subseteq {q \in Requests : pc'[q] # "idle"}
  BY DEF Cleared
<1>5. Cleared(b) \subseteq Cleared(b)'
  BY <1>1 DEF Cleared, Acts
<1>6. IsFiniteSet(Cleared(b)) /\ IsFiniteSet(Cleared(b)')
  BY <1>2, <1>3, FS_Subset
<1>7. Cardinality(Cleared(b)) <= Cardinality(Cleared(b)')
  BY <1>5, <1>6, FS_Subset
<1> QED BY <1>5, <1>6, <1>7, FS_CardinalityType

\* An update of a bundle that is gone is a PATCH that clears it.
LEMMA LateSwap ==
    ASSUME SoftwareAssumption, BTypeOK, MembersExist, Filled, BundleTrail,
           NEW r \in Requests, SwapLinks(r),
           NEW b \in BundleIds, asked[r].id = b, Deletes(b) # {}
    PROVE  r \in Cleared(b)' /\ r \notin Cleared(b)
<1>1. bundles[b] = Gone
  BY DeletesFinite DEF BundleTrail
<1>2. Members(b) = {}
  BY <1>1 DEF Members, MembersExist, Live, SoftwareAssumption
<1>3. asked[r].want = {}
  BY <1>1, <1>2 DEF SwapLinks, Keyed, Live, SoftwareAssumption
<1>4. pc[r] = "swap" /\ pc'[r] = "done" /\ asked' = asked
  BY DEF SwapLinks, Answer, BTypeOK, TypeOK
<1>5. asked[r].named
  BY <1>3, <1>4 DEF Filled
<1> QED BY <1>3, <1>4, <1>5 DEF Cleared

\* One deletion per bundle, and each later event has a clearing PATCH to
\* blame.
LEMMA BundleTrailStep ==
    ASSUME SoftwareAssumption, BTypeOK, MembersExist, Found, Filled,
           BundleTrail, BNext
    PROVE  BundleTrail'
<1> SUFFICES ASSUME NEW b \in BundleIds
             PROVE  /\ Cardinality(Deletes(b)') =
                          IF bundles'[b] = Gone THEN 1 ELSE 0
                    /\ Cardinality(LateNews(b)') <= Cardinality(Cleared(b)')
  BY BusyStep DEF BundleTrail
<1>1. /\ Cardinality(Deletes(b)) = IF bundles[b] = Gone THEN 1 ELSE 0
      /\ Cardinality(LateNews(b)) <= Cardinality(Cleared(b))
      /\ Cardinality(Cleared(b)) <= Cardinality(Cleared(b)')
      /\ Cardinality(LateNews(b)) \in Nat
      /\ Cardinality(Cleared(b)) \in Nat /\ Cardinality(Cleared(b)') \in Nat
      /\ Deletes(b) # {} => bundles[b] = Gone
  BY ClearedStep, DeletesFinite DEF BundleTrail
<1>2. None # Gone /\ Unborn # Gone
  BY DEF SoftwareAssumption
<1>3. CASE UNCHANGED <<bundles, news>>
  <2>1. Deletes(b)' = Deletes(b) /\ LateNews(b)' = LateNews(b)
    BY <1>3 DEF Deletes, LateNews, Hits
  <2> QED BY <1>1, <1>3, <2>1
<1>4. ASSUME NEW r \in Requests, CreateBundle(r)
      PROVE  /\ Cardinality(Deletes(b)') = IF bundles'[b] = Gone THEN 1 ELSE 0
             /\ Cardinality(LateNews(b)') <= Cardinality(Cleared(b)')
  <2>1. PICK c \in BundleIds : /\ bundles[c] = Unborn
                               /\ bundles' = [bundles EXCEPT ![c] = None]
                               /\ Tell("create", c)
    BY <1>4 DEF CreateBundle
  <2>2. /\ Cardinality(Deletes(b)') = Cardinality(Deletes(b))
        /\ Cardinality(LateNews(b)') = Cardinality(LateNews(b))
              + (IF b = c /\ Deletes(b) # {} THEN 1 ELSE 0)
    BY <2>1, NewsAppend, DeletesFinite
  <2>3. bundles'[b] = Gone <=> bundles[b] = Gone
    BY <1>2, <2>1 DEF BTypeOK
  <2> QED BY <1>1, <1>2, <2>1, <2>2, <2>3
<1>5. ASSUME NEW r \in Requests, SwapLinks(r)
      PROVE  /\ Cardinality(Deletes(b)') = IF bundles'[b] = Gone THEN 1 ELSE 0
             /\ Cardinality(LateNews(b)') <= Cardinality(Cleared(b)')
  <2>1. PICK c \in BundleIds : c = asked[r].id
    BY <1>5 DEF SwapLinks, Found
  <2>2. Tell("update", c) /\ bundles' = bundles
    BY <1>5, <2>1 DEF SwapLinks
  <2>3. /\ Cardinality(Deletes(b)') = Cardinality(Deletes(b))
        /\ Cardinality(LateNews(b)') = Cardinality(LateNews(b))
              + (IF b = c /\ Deletes(b) # {} THEN 1 ELSE 0)
    BY <2>2, NewsAppend, DeletesFinite
  <2>4. b = c /\ Deletes(b) # {} =>
           Cardinality(Cleared(b)) < Cardinality(Cleared(b)')
    <3> SUFFICES ASSUME b = c, Deletes(b) # {}
                 PROVE  Cardinality(Cleared(b)) # Cardinality(Cleared(b)')
      BY <1>1
    <3>1. r \in Cleared(b)' /\ r \notin Cleared(b)
      BY <1>5, <2>1, LateSwap
    <3> QED BY <3>1, ClearedStep, FS_Subset
  <2> QED BY <1>1, <2>2, <2>3, <2>4
<1>6. ASSUME NEW r \in Requests, DeleteBundle(r)
      PROVE  /\ Cardinality(Deletes(b)') = IF bundles'[b] = Gone THEN 1 ELSE 0
             /\ Cardinality(LateNews(b)') <= Cardinality(Cleared(b)')
  <2>1. PICK c \in BundleIds :
           \/ /\ Live(c)
              /\ bundles' = [bundles EXCEPT ![c] = Gone]
              /\ Tell("delete", c)
           \/ UNCHANGED <<bundles, news>>
    BY <1>6 DEF DeleteBundle, RowMatched
  <2>2. CASE UNCHANGED <<bundles, news>>
    BY <1>3, <2>2
  <2>3. CASE /\ Live(c)
             /\ bundles' = [bundles EXCEPT ![c] = Gone]
             /\ Tell("delete", c)
    <3>1. /\ Cardinality(Deletes(b)') = Cardinality(Deletes(b))
                + (IF b = c THEN 1 ELSE 0)
          /\ Cardinality(LateNews(b)') = Cardinality(LateNews(b))
                + (IF b = c /\ Deletes(b) # {} THEN 1 ELSE 0)
      BY <2>3, NewsAppend
    <3>2. bundles'[b] = IF b = c THEN Gone ELSE bundles[b]
      BY <2>3 DEF BTypeOK
    <3>3. b = c => bundles[b] # Gone
      BY <1>2, <2>3 DEF Live
    <3>4. CASE b = c
      BY <1>1, <3>1, <3>2, <3>3, <3>4
    <3>5. CASE b # c
      BY <1>1, <3>1, <3>2, <3>5
    <3> QED BY <3>4, <3>5
  <2> QED BY <2>1, <2>2, <2>3
<1>7. \/ UNCHANGED <<bundles, news>>
      \/ \E r \in Requests : CreateBundle(r) \/ SwapLinks(r) \/ DeleteBundle(r)
  BY DEF BNext, SoftwareNext, FindMembers, FindBundle, LoadLinks, LoadMembers,
         CheckMembers
<1> QED BY <1>3, <1>4, <1>5, <1>6, <1>7

-----------------------------------------------------------------------------
(* Bundle handlers one at a time. *)

\* The swap that succeeds is the request's own step.
LEMMA SwapsAlone ==
    ASSUME SoftwareAssumption, BTypeOK, Answered, BNext,
           NEW r \in Requests, pc[r] = "swap", reply'[r] = "ok"
    PROVE  SwapLinks(r)
<1>1. reply[r] = None /\ None # "ok"
  BY DEF Answered, SoftwareAssumption
<1>2. PICK q \in Requests :
         Acts(q) /\ (BMoves(q) \/ (Moves(q) /\ SoftwareNext))
  BY BNextMoves
<1>3. q = r
  BY <1>1, <1>2 DEF Acts
<1>4. ~ Moves(r)
  BY MovesElsewhere DEF BPlaces, BTypeOK
<1> QED BY <1>2, <1>3, <1>4
        DEF BMoves, FindMembers, CreateBundle, FindBundle, LoadLinks,
            LoadMembers, CheckMembers, DeleteBundle, Arrives

\* A PATCH that is handled alone leaves the members it was asked for.
LEMMA SerialMembersStep ==
    ASSUME SoftwareAssumption, BTypeOK, Answered, BundleInStep, BNext,
           NEW r \in Requests, serial, pc[r] = "swap", reply'[r] = "ok"
    PROVE  LET b == asked[r].id IN
           Members(b)' = IF asked[r].named THEN asked[r].want
                         ELSE Members(b)
<1>1. /\ links' = Replaced(asked[r].id, asked[r].want)
      /\ asked' = asked
  BY SwapsAlone DEF SwapLinks
<1>2. asked[r].want \subseteq Ids
  BY DEF BTypeOK, Asked
<1>3. Members(asked[r].id)' = asked[r].want
  BY <1>1, <1>2 DEF Members, Replaced, LinksOf
<1>4. ~ asked[r].named => asked[r].want = Members(asked[r].id)
  BY DEF BundleInStep
<1> QED BY <1>3, <1>4

\* While requests take turns a PATCH of a bundle has read the members there
\* are.
LEMMA BundleInStepStep ==
    ASSUME SoftwareAssumption, BTypeOK, Alone, MembersExist, BundleInStep,
           BNext
    PROVE  BundleInStep'
<1> SUFFICES ASSUME serial' PROVE BundleInStep'
  BY DEF BundleInStep
<1>1. PICK r \in Requests :
         /\ Acts(r)
         /\ BMoves(r) \/ (Moves(r) /\ SoftwareNext)
  BY BNextMoves
<1>2. serial /\ \A q \in Requests \ {r} : Resting(q)'
  BY <1>1, OthersRest DEF Acts
<1> SUFFICES /\ pc'[r] \in {"members", "check"} =>
                   asked'[r].members = Members(asked[r].id)'
             /\ pc'[r] = "swap" /\ ~ asked'[r].named =>
                   asked'[r].want = Members(asked[r].id)'
  BY <1>2 DEF BundleInStep, Resting
<1>3. CASE pc'[r] \notin {"members", "check", "swap"}
  BY <1>3
<1>4. CASE Moves(r)
  BY <1>4, <1>3, MovesElsewhere DEF BPlaces, BTypeOK
<1>5. CASE FindMembers(r) \/ CreateBundle(r) \/ FindBundle(r) \/ SwapLinks(r)
           \/ DeleteBundle(r)
  <2>1. \/ \E status : Answer(r, status)
        \/ Goto(r, "link") \/ Goto(r, "links")
    BY <1>5 DEF FindMembers, CreateBundle, FindBundle, SwapLinks, DeleteBundle
  <2> QED BY <1>3, <2>1 DEF Answer, Goto, BTypeOK, TypeOK
<1>6. CASE LoadLinks(r) \/ LoadMembers(r) \/ CheckMembers(r)
  <2>1. links' = links
    BY <1>6 DEF LoadLinks, LoadMembers, CheckMembers
  <2>2. asked'[r].id = asked[r].id
    BY <1>6, AskedStays
  <2>3. Members(asked[r].id)' = Members(asked[r].id)
    BY <2>1, <2>2 DEF Members
  <2>4. CASE LoadLinks(r)
    <3>1. asked'[r].members = Members(asked[r].id) /\ pc'[r] = "members"
      BY <2>4 DEF LoadLinks, Goto, BTypeOK, TypeOK, Asked
    <3> QED BY <2>3, <3>1
  <2>5. CASE LoadMembers(r)
    <3>1. /\ asked'[r].members = {s \in asked[r].members : Exists(s)}
          /\ pc'[r] = "check" /\ pc[r] = "members"
      BY <2>5 DEF LoadMembers, Goto, BTypeOK, TypeOK, Asked
    <3>2. asked[r].members = Members(asked[r].id)
      BY <1>2, <3>1 DEF BundleInStep
    <3>3. \A s \in Members(asked[r].id) : Exists(s)
      BY DEF Members, MembersExist
    <3> QED BY <2>3, <3>1, <3>2, <3>3
  <2>6. CASE CheckMembers(r)
    <3>1. pc[r] = "check"
      BY <2>6 DEF CheckMembers
    <3>2. PICK named \in BOOLEAN : \E w \in Wanted(r, named) :
             \/ /\ asked' = [asked EXCEPT ![r].want = w, ![r].named = named]
                /\ Goto(r, "swap")
             \/ Answer(r, "error")
      BY <2>6 DEF CheckMembers
    <3>3. CASE Answer(r, "error")
      BY <1>3, <3>3 DEF Answer, BTypeOK, TypeOK
    <3>4. CASE \E w \in Wanted(r, named) :
                  /\ asked' = [asked EXCEPT ![r].want = w, ![r].named = named]
                  /\ Goto(r, "swap")
      <4>1. PICK w \in Wanted(r, named) :
                  /\ asked' = [asked EXCEPT ![r].want = w, ![r].named = named]
                  /\ Goto(r, "swap")
        BY <3>4
      <4>2. asked'[r].want = w /\ asked'[r].named = named
        BY <4>1 DEF BTypeOK, Asked
      <4>3. pc'[r] = "swap"
        BY <4>1 DEF Goto, BTypeOK, TypeOK
      <4>4. ~ named => w = asked[r].members
        BY DEF Wanted
      <4>5. asked[r].members = Members(asked[r].id)
        BY <1>2, <3>1 DEF BundleInStep
      <4> QED BY <2>3, <4>2, <4>3, <4>4, <4>5
    <3> QED BY <3>2, <3>3, <3>4
  <2> QED BY <1>6, <2>4, <2>5, <2>6
<1> QED BY <1>1, <1>4, <1>5, <1>6 DEF BMoves

-----------------------------------------------------------------------------
(* The invariant of the bundles, and what it shows. *)

\* The invariant with bundles holds at the start.
LEMMA BInvStart == ASSUME SoftwareAssumption, BInit PROVE BInv
<1>1. SInv
  BY SInvStart DEF BInit
<1>2. /\ bundles \in [BundleIds -> {None, Unborn}]
      /\ links \in SUBSET {x \in Links : Live(x.bundle) /\ Exists(x.software)}
      /\ news = <<>>
      /\ asked = [r \in Requests |-> Unasked]
      /\ pc = [r \in Requests |-> "idle"]
  BY DEF BInit, Init
<1>3. BTypeOK
  <2>1. Unasked \in Asked
    BY DEF Unasked, Asked
  <2> QED BY <1>1, <1>2, <2>1 DEF SInv, BTypeOK
<1>4. MembersExist
  BY <1>2 DEF MembersExist
<1>5. Found /\ Filled /\ BundleInStep
  BY <1>2 DEF Found, Filled, BundleInStep, Unasked
<1>6. BundleTrail
  <2>1. {r \in Requests : pc[r] # "idle"} = {}
    BY <1>2
  <2>2. ASSUME NEW b \in BundleIds
        PROVE  /\ Cardinality(Deletes(b)) = IF bundles[b] = Gone THEN 1 ELSE 0
               /\ Cardinality(LateNews(b)) <= Cardinality(Cleared(b))
    <3>1. Cardinality(Deletes(b)) = 0 /\ bundles[b] # Gone
      BY <1>2, HitsEmpty DEF Deletes, SoftwareAssumption
    <3>2. LateNews(b) = {} /\ Cleared(b) = {}
      BY <1>2 DEF LateNews, Cleared
    <3> QED BY <3>1, <3>2, FS_EmptySet
  <2> QED BY <2>1, <2>2, FS_EmptySet DEF BundleTrail
<1> QED BY <1>1, <1>3, <1>4, <1>5, <1>6 DEF BInv

\* The invariant with bundles is inductive.
LEMMA BInvStep == ASSUME SoftwareAssumption, BInv, [BNext]_bvars PROVE BInv'
<1>1. CASE BNext
  <2>1. SInv'
    BY <1>1, SInvStep, BNextMoves DEF BInv
  <2>2. TypeOK /\ TypeOK' /\ Answered /\ Alone
    BY <2>1 DEF BInv, SInv
  <2> QED BY <1>1, <2>1, <2>2, BTypeStep, MembersStep, FoundStep, FilledStep,
             BundleTrailStep, BundleInStepStep DEF BInv
<1>2. CASE UNCHANGED bvars
  <2>1. SInv'
    BY <1>2, SInvStep DEF bvars, Step, BInv
  <2>2. BTypeOK'
    BY <1>2, <2>1 DEF bvars, vars, BInv, BTypeOK, SInv
  <2>3. MembersExist' /\ Found' /\ Filled'
    BY <1>2 DEF bvars, vars, BInv, MembersExist, Found, Filled, Live, Exists
  <2>4. BundleTrail'
    BY <1>2 DEF bvars, vars, BInv, BundleTrail, Deletes, LateNews, Cleared
  <2>5. BundleInStep'
    BY <1>2 DEF bvars, vars, BInv, BundleInStep, Members
  <2> QED BY <2>1, <2>2, <2>3, <2>4, <2>5 DEF BInv
<1> QED BY <1>1, <1>2

\* The invariant with bundles holds in every state.
LEMMA BInvInvariant == BSpec => []BInv
<1>1. BInit => BInv
  BY SoftwareAssumption, BInvStart
<1>2. BInv /\ [BNext]_bvars => BInv'
  BY SoftwareAssumption, BInvStep
<1> QED BY <1>1, <1>2, PTL DEF BSpec

\* BundleTrailEnds is what BundleTrail counts.
LEMMA BundleTrailEndsHolds ==
    ASSUME BTypeOK, Filled, BundleTrail PROVE BundleTrailEnds
<1> SUFFICES ASSUME NEW b \in BundleIds
             PROVE  LET clearing == {r \in Requests : /\ asked[r].id = b
                                                     /\ asked[r].named
                                                     /\ asked[r].want = {}}
                    IN /\ Cardinality(Deletes(b)) =
                             IF bundles[b] = Gone THEN 1 ELSE 0
                       /\ Cardinality(LateNews(b)) <= Cardinality(clearing)
  BY DEF BundleTrailEnds, Deletes, LateNews, Hits
<1> DEFINE clearing == {r \in Requests : /\ asked[r].id = b
                                        /\ asked[r].named
                                        /\ asked[r].want = {}}
<1>1. /\ clearing \subseteq {r \in Requests : pc[r] # "idle"}
      /\ Cleared(b) \subseteq clearing
  BY DEF Filled, Cleared
<1>2. IsFiniteSet(clearing)
  BY <1>1, FS_Subset DEF BundleTrail
<1> HIDE DEF clearing
<1>3. Cardinality(Cleared(b)) <= Cardinality(clearing)
  BY <1>1, <1>2, FS_Subset
<1>4. /\ Cardinality(LateNews(b)) \in Nat
      /\ Cardinality(Cleared(b)) \in Nat /\ Cardinality(clearing) \in Nat
  <2>1. IsFiniteSet(Cleared(b))
    BY <1>1, <1>2, FS_Subset
  <2> QED BY <1>2, <2>1, DeletesFinite, FS_CardinalityType
<1>5. Cardinality(LateNews(b)) <= Cardinality(clearing)
  BY <1>3, <1>4 DEF BundleTrail
<1> QED BY <1>5 DEF BundleTrail, clearing

-----------------------------------------------------------------------------

\* The variables of software and bundles keep their types.
THEOREM BTypeCorrect == BSpec => []BTypeOK
BY BInvInvariant, PTL DEF BInv

\* However POST, PATCH, DELETE and the merges of a software interleave, its
\* trail has one delete event once it is gone, none before, and at most one
\* creation (deleteResult in crud.go, the hooks of models/hooks.go).
THEOREM OneDeleteCorrect == BSpec => []OneDelete
<1>1. BInv => OneDelete
  BY OneDeleteHolds DEF BInv, SInv
<1> QED BY <1>1, BInvInvariant, PTL

\* DeleteSoftware takes every URL, and neither a PATCH that read the software
\* before nor a POST leaves one whose software is gone.
THEOREM NoUrlLeftBehindCorrect == BSpec => []NoUrlLeftBehind
<1>1. BInv => NoUrlLeftBehind
  BY DEF BInv, SInv
<1> QED BY <1>1, BInvInvariant, PTL

\* PatchSoftwareAnalysis merges in one statement: what one scanner stored no
\* other request takes away, a PATCH that read the row before included.
THEOREM AnalysisKeptCorrect == BSpec => []AnalysisKept
<1>1. BInv => AnalysisKept
  BY DEF BInv, SInv
<1> QED BY <1>1, BInvInvariant, PTL

\* Requests for software that take turns keep every canonical URL among the
\* rows of its software.
THEOREM SerialCanonicalCorrect == BSpec => []SerialCanonical
<1>1. BInv => SerialCanonical
  BY DEF BInv, SInv
<1> QED BY <1>1, BInvInvariant, PTL

\* Requests that take turns record nothing after a delete event, and
\* deleteEntityLogs leaves no log of what is gone.
THEOREM SerialDeleteCorrect == BSpec => []SerialDelete
<1>1. BInv => SerialDelete
  BY DEF BInv, SInv
<1> QED BY <1>1, BInvInvariant, PTL

\* updateSoftware leaves the software with the URLs that were asked for and no
\* other, as long as requests take turns.
THEOREM UrlsInSyncCorrect == BSpec => UrlsInSync
<1> DEFINE A == \A r \in Requests :
                   serial /\ pc[r] = "save" /\ reply'[r] = "ok" =>
                      {x.url : x \in {y \in urls' : y.owner = local[r].id}}
                         = local'[r].want
<1>1. BInv /\ [BNext]_bvars => [A]_vars
  <2>1. BInv /\ BNext => A
    BY SoftwareAssumption, InSyncStep, BNextMoves DEF BInv
  <2> QED BY <2>1 DEF bvars
<1> QED BY <1>1, BInvInvariant, PTL DEF BSpec, UrlsInSync

\* A log that is deleted stays so: the PATCH that read it before brings no row
\* back (Updates in logs.go), only a POST makes one.
THEOREM LogsStayDeletedCorrect == BSpec => LogsStayDeleted
<1> DEFINE A == \A l \in logs' \ logs :
                   l.by \in Requests /\ reply[l.by] = None
<1>1. BInv /\ [BNext]_bvars => [A]_vars
  <2>1. BInv /\ BNext => A
    BY StayDeletedStep, BNextMoves DEF BInv, SInv, BTypeOK
  <2> QED BY <2>1 DEF bvars
<1> QED BY <1>1, BInvInvariant, PTL DEF BSpec, LogsStayDeleted

\* No bundle has a member that is gone and nothing that is gone has members,
\* though bundles.go checks both before its transaction only: the foreign keys
\* of the join table are enough.
THEOREM MembersExistCorrect == BSpec => []MembersExist
<1>1. BInv => MembersExist
  BY DEF BInv
<1> QED BY <1>1, BInvInvariant, PTL

\* A bundle is deleted once in its trail, and after that come no more events
\* than there are PATCHes that clear its members.
THEOREM BundleTrailEndsCorrect == BSpec => []BundleTrailEnds
<1>1. BInv => BundleTrailEnds
  BY BundleTrailEndsHolds DEF BInv
<1> QED BY <1>1, BInvInvariant, PTL

\* A PATCH of a bundle handled alone leaves the members it names, and those
\* there were if it names none, though it writes them all again.
THEOREM SerialMembersCorrect == BSpec => SerialMembers
<1> DEFINE A == \A r \in Requests :
                   serial /\ pc[r] = "swap" /\ reply'[r] = "ok" =>
                      LET b == asked[r].id IN
                      Members(b)' = IF asked[r].named THEN asked[r].want
                                    ELSE Members(b)
<1>1. BInv /\ [BNext]_bvars => [A]_bvars
  BY SoftwareAssumption, SerialMembersStep DEF BInv, SInv
<1> QED BY <1>1, BInvInvariant, PTL DEF BSpec, SerialMembers
=============================================================================
