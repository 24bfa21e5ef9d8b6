-------------------------- MODULE Publishers_proofs --------------------------
(***************************************************************************)
(* The properties of Publishers.tla and Webhooks.tla for every number of   *)
(* publishers, names, URLs, webhooks and requests.                         *)
(***************************************************************************)
EXTENDS Webhooks, Trails

-----------------------------------------------------------------------------
(* The inductive invariant of the publishers. *)

Resting(r) == pc[r] \in {"idle", "done"}

\* Who waits for its next query or transaction has found its publisher.
Bound(r) == pc[r] \in {"hosting", "save", "row", "insert"}

\* Only a handler that is through has answered.
Answered ==
    \A r \in Requests :
       /\ pc[r] # "done" => reply[r] = None
       /\ Bound(r) \/ pc[r] = "hook" => local[r].id \in Ids

\* The trail of a publisher is that of its life.
Lived ==
    \A p \in Ids :
       /\ Count("delete", p) = IF publishers[p] = Gone THEN 1 ELSE 0
       /\ Count("create", p) = 0 \/ Count("create", p) = 1
       /\ publishers[p] = Unborn => Count("create", p) = 0
Ended == \A i \in DOMAIN trail :
            trail[i].type = "delete" => publishers[trail[i].id] = Gone

\* No two publishers have an alternative id in common, and one that is an id
\* is that of a publisher which is gone, for good, also where a PATCH has read
\* it and is to write it back unchecked.
Unique ==
    \A p, q \in Ids :
       p # q /\ publishers[p] = publishers[q] =>
          publishers[p] \in {None, Unborn, Gone}
Dead ==
    /\ \A p \in Ids : publishers[p] \in Ids =>
                         publishers[publishers[p]] = Gone
    /\ \A r \in Requests : local[r].alt \in Ids =>
                              publishers[local[r].alt] = Gone

\* Handled alone a request finds things as it left them.
Alone == serial => \A r, q \in Requests : ~ Resting(r) /\ ~ Resting(q) => r = q
InStep ==
    serial => \A r \in Requests :
       /\ Bound(r) => Exists(local[r].id)
       /\ pc[r] = "save" => local[r].rows = Of(local[r].id)

PInv == /\ TypeOK /\ Answered
        /\ Lived /\ Ended
        /\ Unique /\ Dead /\ NoHostLeftBehind
        /\ Alone /\ InStep /\ SerialDelete

-----------------------------------------------------------------------------
(* The inductive invariant of the webhooks. *)

\* A request makes one webhook at most, as the last thing it does, and
\* whether that is there still is in until.
Linked ==
    /\ \A h \in Known : /\ pc[h.by] = "done"
                        /\ h \in hooks <=> until[h.by] = None
    /\ \A g, h \in Known : g.by = h.by => g = h
    /\ \A r \in Requests : pc[r] # "done" => until[r] = None

\* A POST is of an event that was dispatched, to a webhook there was.
Posted == posts \subseteq told \X Known

WInv == /\ PInv /\ WTypeOK
        /\ HookTrail /\ Linked /\ Posted /\ Subscribed

-----------------------------------------------------------------------------
(* Steps as the publishers see them. *)

\* A handler of webhooks goes on.
Passes(r) ==
    /\ pc[r] \in {"idle", "hook"}
    /\ serial' \in BOOLEAN
    /\ serial' => serial /\ (pc[r] = "idle" => \A q \in Requests : Resting(q))
    /\ \/ Goto(r, "hook") /\ \E p \in Ids : local' = [local EXCEPT ![r].id = p]
       \/ /\ \E status \in {"ok", "notfound"} : Answer(r, status)
          /\ \/ local' = local
             \/ \E p \in Ids : local' = [local EXCEPT ![r].id = p]
    /\ UNCHANGED <<publishers, hosts, logs, trail, kinds>>

Step == [Next]_vars \/ \E r \in Requests : Passes(r)

\* A handler of Publishers.tla goes on.
Moves(r) == \/ Fail(r) \/ Create(r)
            \/ FindForPatch(r) \/ LoadHosting(r) \/ Save(r)
            \/ FindForDelete(r) \/ DeleteRow(r)
            \/ FindForLog(r) \/ CreateLog(r)

\* The request r goes on and no other does.
Acts(r) ==
    /\ pc[r] # "done"
    /\ serial' => serial /\ (pc[r] = "idle" => \A q \in Requests : Resting(q))
    /\ \A q \in Requests \ {r} : /\ pc'[q] = pc[q]
                                 /\ reply'[q] = reply[q]
                                 /\ local'[q] = local[q]
    /\ pc'[r] # "done" => reply'[r] = reply[r]
    /\ pc[r] = "save" /\ reply'[r] = "ok" => Save(r)
    /\ Bound(r)' => \/ FindForPatch(r) \/ LoadHosting(r)
                    \/ FindForDelete(r) \/ FindForLog(r)
    /\ Bound(r)' \/ pc'[r] = "hook" =>
          \/ Bound(r) /\ local'[r].id = local[r].id
          \/ local'[r].id \in Ids
    /\ \/ local'[r].alt = local[r].alt
       \/ \E p \in Ids : local'[r].alt = publishers[p]

\* Setting some fields of a request's local leaves the others.
LEMMA LocalStays ==
    ASSUME TypeOK, NEW r \in Requests
    PROVE  /\ \A x : LET l == [local EXCEPT ![r].id = x][r]
                     IN  l.id = x /\ l.alt = local[r].alt
           /\ \A x : LET l == [local EXCEPT ![r].rows = x][r]
                     IN  /\ l.id = local[r].id /\ l.alt = local[r].alt
                         /\ l.rows = x
           /\ \A x : LET l == [local EXCEPT ![r].want = x][r]
                     IN  /\ l.id = local[r].id /\ l.alt = local[r].alt
                         /\ l.want = x
           /\ \A x, y : LET l == [local EXCEPT ![r].id = x, ![r].alt = y][r]
                        IN  l.id = x /\ l.alt = y
BY DEF TypeOK, Locals

\* What the first query of a PATCH or a DELETE leads to.
LEMMA FoundIn ==
    ASSUME NEW r, NEW kind, NEW place, Find(r, kind, place)
    PROVE  /\ Arrives(r, kind)
           /\ UNCHANGED <<publishers, hosts, logs, trail>>
           /\ \/ /\ Answer(r, "notfound")
                 /\ local' = local
              \/ /\ Goto(r, place)
                 /\ \E p \in Ids :
                       /\ Exists(p)
                       /\ local' = [local EXCEPT ![r].id = p,
                                                 ![r].alt = publishers[p]]
BY DEF Find, Target, Matching

\* Each handler's step is one of r alone that goes where Acts says.
LEMMA MoveActs ==
    ASSUME TypeOK, NEW r \in Requests, Moves(r) \/ Passes(r)
    PROVE  Acts(r)
<1> USE DEF TypeOK
<1>1. ASSUME NEW kind, Arrives(r, kind)
      PROVE  /\ pc[r] = "idle"
             /\ serial' => serial /\ \A q \in Requests : Resting(q)
  BY <1>1 DEF Arrives, Resting
<1>2. ASSUME NEW status, Answer(r, status)
      PROVE  /\ pc'[r] = "done" /\ reply'[r] = status
             /\ ~ Bound(r)'
             /\ \A q \in Requests \ {r} : /\ pc'[q] = pc[q]
                                          /\ reply'[q] = reply[q]
  BY <1>2 DEF Answer, Bound
<1>3. ASSUME NEW place, Goto(r, place)
      PROVE  /\ UNCHANGED reply
             /\ pc'[r] = place
             /\ \A q \in Requests \ {r} : pc'[q] = pc[q]
  BY <1>3 DEF Goto
<1>4. CASE Passes(r)
  <2>1. /\ \A q \in Requests \ {r} : local'[q] = local[q]
        /\ local'[r].alt = local[r].alt
    <3>1. \/ local' = local
          \/ \E p : local' = [local EXCEPT ![r].id = p]
      BY <1>4 DEF Passes
    <3>2. CASE local' = local
      BY <3>2
    <3>3. ASSUME NEW p, local' = [local EXCEPT ![r].id = p]
          PROVE  /\ \A q \in Requests \ {r} : local'[q] = local[q]
                 /\ local'[r].alt = local[r].alt
      BY <3>3, LocalStays
    <3> QED BY <3>1, <3>2, <3>3
  <2>2. \/ /\ Goto(r, "hook")
           /\ \E p \in Ids : local' = [local EXCEPT ![r].id = p]
        \/ \E status \in {"ok", "notfound"} : Answer(r, status)
    BY <1>4 DEF Passes
  <2>3. /\ pc[r] \in {"idle", "hook"}
        /\ serial' =>
              serial /\ (pc[r] = "idle" => \A q \in Requests : Resting(q))
    BY <1>4 DEF Passes
  <2>4. CASE \E status \in {"ok", "notfound"} : Answer(r, status)
    BY <1>2, <2>1, <2>3, <2>4 DEF Acts
  <2>5. CASE /\ Goto(r, "hook")
             /\ \E p \in Ids : local' = [local EXCEPT ![r].id = p]
    <3>1. local'[r].id \in Ids
      BY <2>5, LocalStays
    <3>2. ~ Bound(r)'
      BY <1>3, <2>5 DEF Bound
    <3> QED BY <1>3, <2>1, <2>3, <2>5, <3>1, <3>2 DEF Acts
  <2> QED BY <2>2, <2>4, <2>5
<1>5. CASE Fail(r)
  BY <1>1, <1>2, <1>5 DEF Fail, Resting, Acts
<1>6. CASE Create(r)
  BY <1>1, <1>2, <1>6 DEF Create, Acts
<1>7. ASSUME NEW kind, NEW place \in {"hosting", "row"}, Find(r, kind, place),
             FindForPatch(r) \/ FindForDelete(r)
      PROVE  Acts(r)
  <2>1. Arrives(r, kind)
    BY <1>7, FoundIn
  <2>2. CASE Answer(r, "notfound") /\ local' = local
    BY <1>1, <1>2, <2>1, <2>2 DEF Acts
  <2>3. ASSUME Goto(r, place),
               NEW p \in Ids,
               local' = [local EXCEPT ![r].id = p, ![r].alt = publishers[p]]
        PROVE  Acts(r)
    <3>1. /\ \A q \in Requests \ {r} : local'[q] = local[q]
          /\ local'[r].id = p /\ local'[r].alt = publishers[p]
      BY <2>3, LocalStays
    <3> QED BY <1>1, <1>3, <1>7, <2>1, <2>3, <3>1 DEF Acts
  <2> QED BY <1>7, <2>2, <2>3, FoundIn
<1>8. CASE FindForPatch(r)
  BY <1>7, <1>8 DEF FindForPatch
<1>9. CASE FindForDelete(r)
  BY <1>7, <1>9 DEF FindForDelete
<1>10. CASE LoadHosting(r)
  <2>1. /\ \A q \in Requests \ {r} : local'[q] = local[q]
        /\ local'[r].id = local[r].id /\ local'[r].alt = local[r].alt
    BY <1>10, LocalStays DEF LoadHosting
  <2>2. Bound(r) /\ UNCHANGED serial /\ Goto(r, "save") /\ pc[r] = "hosting"
    BY <1>10 DEF LoadHosting, Bound
  <2> QED BY <1>3, <1>10, <2>1, <2>2 DEF Acts
<1>11. CASE Save(r)
  <2>1. /\ \A q \in Requests \ {r} : local'[q] = local[q]
        /\ local'[r].alt = local[r].alt
    <3>1. PICK want : local' = [local EXCEPT ![r].want = want]
      BY <1>11 DEF Save
    <3> QED BY <3>1, LocalStays
  <2>2. pc[r] = "save" /\ UNCHANGED serial /\ Answer(r, "ok")
    BY <1>11 DEF Save
  <2> QED BY <1>2, <1>11, <2>1, <2>2 DEF Acts
<1>12. CASE DeleteRow(r)
  <2>1. pc[r] = "row" /\ UNCHANGED <<local, serial>>
    BY <1>12 DEF DeleteRow
  <2>2. Answer(r, "ok") \/ Answer(r, "notfound")
    BY <1>12 DEF DeleteRow
  <2> QED BY <1>2, <2>1, <2>2 DEF Acts
<1>13. CASE FindForLog(r)
  <2>1. PICK p \in Ids : \/ /\ local' = [local EXCEPT ![r].id = p]
                            /\ Goto(r, "insert")
                         \/ /\ Answer(r, "notfound")
                            /\ local' = local
    BY <1>13 DEF FindForLog
  <2>2. Arrives(r, "log")
    BY <1>13 DEF FindForLog
  <2>3. CASE Answer(r, "notfound") /\ local' = local
    BY <1>1, <1>2, <2>2, <2>3 DEF Acts
  <2>4. CASE local' = [local EXCEPT ![r].id = p] /\ Goto(r, "insert")
    <3>1. /\ \A q \in Requests \ {r} : local'[q] = local[q]
          /\ local'[r].id = p /\ local'[r].alt = local[r].alt
      BY <2>4, LocalStays
    <3> QED BY <1>1, <1>3, <1>13, <2>2, <2>4, <3>1 DEF Acts
  <2> QED BY <2>1, <2>3, <2>4
<1>14. CASE CreateLog(r)
  BY <1>2, <1>14 DEF CreateLog, Acts
<1> QED BY <1>4, <1>5, <1>6, <1>8, <1>9, <1>10, <1>11, <1>12, <1>13, <1>14
        DEF Moves

\* In every step at most one request acts.
LEMMA StepActs ==
    ASSUME TypeOK, Step
    PROVE  UNCHANGED vars \/ \E r \in Requests : Acts(r)
<1>1. Next => \E r \in Requests : Moves(r)
  BY DEF Next, Moves
<1> QED BY <1>1, MoveActs DEF Step

\* Three handlers write publishers, code hosting and trail.
LEMMA StepWrites ==
    ASSUME Step
    PROVE  \/ UNCHANGED <<publishers, hosts, trail>>
           \/ \E r \in Requests : Create(r) \/ Save(r) \/ DeleteRow(r)
BY FoundIn DEF Step, Next, vars, Passes, Fail, FindForPatch, LoadHosting,
               FindForDelete, FindForLog, CreateLog

-----------------------------------------------------------------------------
(* Types. *)

\* A well-typed change of one request's local keeps locals well typed.
LEMMA LocalsTyped ==
    ASSUME TypeOK, NEW r \in Requests
    PROVE  /\ \A x \in Ids :
                 [local EXCEPT ![r].id = x] \in [Requests -> Locals]
           /\ \A x \in SUBSET Rows :
                 [local EXCEPT ![r].rows = x] \in [Requests -> Locals]
           /\ \A x \in SUBSET (Urls \X BOOLEAN) :
                 [local EXCEPT ![r].want = x] \in [Requests -> Locals]
           /\ \A x \in Ids, y \in Alts \cup Ids \cup {None} :
                 [local EXCEPT ![r].id = x, ![r].alt = y]
                    \in [Requests -> Locals]
<1>1. local[r] \in Locals
  BY DEF TypeOK
<1>2. /\ \A x \in Ids : [local[r] EXCEPT !.id = x] \in Locals
      /\ \A x \in SUBSET Rows : [local[r] EXCEPT !.rows = x] \in Locals
      /\ \A x \in SUBSET (Urls \X BOOLEAN) :
            [local[r] EXCEPT !.want = x] \in Locals
      /\ \A x \in Ids, y \in Alts \cup Ids \cup {None} :
            [local[r] EXCEPT !.id = x, !.alt = y] \in Locals
  BY <1>1 DEF Locals
<1>3. \A l \in Locals : [local EXCEPT ![r] = l] \in [Requests -> Locals]
  BY DEF TypeOK
<1>4. \A x, y :
         [local EXCEPT ![r].id = x, ![r].alt = y] =
            [local EXCEPT ![r] = [local[r] EXCEPT !.id = x, !.alt = y]]
  BY <1>1 DEF TypeOK, Locals
<1> QED BY <1>2, <1>3, <1>4

\* A PATCH adds rows of its publisher, and asks for URLs with their groups.
LEMMA SavedRows ==
    ASSUME PublishersAssumption, TypeOK, NEW r \in Requests,
           local[r].id \in Ids,
           NEW want \in Hosting \cup
                           {{<<x.url, x.group>> : x \in local[r].rows}}
    PROVE  /\ want \in SUBSET (Urls \X BOOLEAN)
           /\ Added(r, want) \subseteq Rows
           /\ \A x \in Added(r, want) : x.by = r /\ x.owner = local[r].id
<1>1. local[r].rows \subseteq Rows
  BY DEF TypeOK, Locals
<1>2. \A x \in Rows : x.url \in Urls /\ x.group \in BOOLEAN
  BY DEF Rows
<1>3. want \in SUBSET (Urls \X BOOLEAN)
  <2>1. CASE want \in Hosting
    BY <2>1 DEF Hosting, PublishersAssumption
  <2>2. CASE want = {<<x.url, x.group>> : x \in local[r].rows}
    BY <1>1, <1>2, <2>2
  <2> QED BY <2>1, <2>2
<1>4. {w[1] : w \in want} \subseteq Urls
  BY <1>3
<1>5. Added(r, want) \subseteq Rows
  <2>1. \A u \in Urls : [by |-> r, url |-> u, group |-> TRUE,
                         owner |-> local[r].id] \in Rows
    BY DEF Rows
  <2>2. \A u \in {w[1] : w \in want} \ {x.url : x \in local[r].rows} :
           u \in Urls
    BY <1>4
  <2> QED BY <2>1, <2>2 DEF Added
<1>6. \A x \in Added(r, want) : x.by = r /\ x.owner = local[r].id
  BY DEF Added
<1> QED BY <1>3, <1>5, <1>6

\* What the transaction of a PATCH writes.
LEMMA Saved ==
    ASSUME PublishersAssumption, TypeOK, Answered,
           NEW r \in Requests, Save(r)
    PROVE  LET p == local[r].id IN
           /\ p \in Ids
           /\ Record("update", p)
           /\ \E alt \in Names \cup {None, local[r].alt},
                 want \in SUBSET (Urls \X BOOLEAN) :
                 /\ alt # local[r].alt => NoIdConflict(alt)
                 /\ Exists(p) => AltFree(p, alt)
                 /\ publishers' = IF Exists(p)
                                  THEN [publishers EXCEPT ![p] = alt]
                                  ELSE publishers
                 /\ hosts' = (hosts \ (local[r].rows \ Kept(r, want)))
                                \cup Added(r, want)
                 /\ Referenced(p, Added(r, want))
                 /\ local' = [local EXCEPT ![r].want = want]
                 /\ Added(r, want) \subseteq Rows
                 /\ \A x \in Added(r, want) : x.owner = p
<1> DEFINE p == local[r].id
<1>1. p \in Ids
  BY DEF Save, Answered, Bound
<1>2. PICK alt \in Names \cup {None, local[r].alt},
           want \in Hosting \cup
                       {{<<x.url, x.group>> : x \in local[r].rows}} :
         LET left == hosts \ (local[r].rows \ Kept(r, want)) IN
         /\ alt # local[r].alt => NoIdConflict(alt)
         /\ Exists(p) => AltFree(p, alt)
         /\ Referenced(p, Added(r, want))
         /\ hosts' = left \cup Added(r, want)
         /\ publishers' = IF Exists(p) THEN [publishers EXCEPT ![p] = alt]
                          ELSE publishers
         /\ Record("update", p)
         /\ local' = [local EXCEPT ![r].want = want]
  BY DEF Save
<1>3. /\ want \in SUBSET (Urls \X BOOLEAN)
      /\ Added(r, want) \subseteq Rows
      /\ \A x \in Added(r, want) : x.owner = p
  BY <1>1, SavedRows
<1> HIDE DEF p
<1>4. Record("update", p)
  BY <1>2
<1>5. /\ alt # local[r].alt => NoIdConflict(alt)
      /\ Exists(p) => AltFree(p, alt)
      /\ publishers' = IF Exists(p) THEN [publishers EXCEPT ![p] = alt]
                       ELSE publishers
      /\ hosts' = (hosts \ (local[r].rows \ Kept(r, want))) \cup Added(r, want)
      /\ Referenced(p, Added(r, want))
      /\ local' = [local EXCEPT ![r].want = want]
  BY <1>2
<1> USE DEF p
<1> QED BY <1>1, <1>3, <1>4, <1>5

\* What createPublisher writes.
LEMMA Created ==
    ASSUME PublishersAssumption, NEW r \in Requests, Create(r)
    PROVE  \E p \in Ids, alt \in Names \cup {None}, added \in SUBSET Rows :
              /\ publishers[p] = Unborn
              /\ NoIdConflict(alt)
              /\ AltFree(p, alt)
              /\ publishers' = [publishers EXCEPT ![p] = alt]
              /\ hosts' = hosts \cup added
              /\ \A x \in added : x.owner = p
              /\ Record("create", p)
<1>1. PICK p \in Ids, alt \in Names \cup {None}, want \in Hosting :
         /\ publishers[p] = Unborn
         /\ NoIdConflict(alt)
         /\ AltFree(p, alt)
         /\ publishers' = [publishers EXCEPT ![p] = alt]
         /\ hosts' = hosts \cup {[by |-> r, url |-> w[1], group |-> w[2],
                                  owner |-> p] : w \in want}
         /\ Record("create", p)
  BY DEF Create
<1> DEFINE added == {[by |-> r, url |-> w[1], group |-> w[2],
                      owner |-> p] : w \in want}
<1>2. \A w \in want : w[1] \in Urls /\ w[2] \in BOOLEAN
  BY DEF Hosting, PublishersAssumption
<1>3. added \in SUBSET Rows
  BY <1>2 DEF Rows
<1>4. \A x \in added : x.owner = p
  OBVIOUS
<1>5. hosts' = hosts \cup added
  BY <1>1
<1> HIDE DEF added
<1> QED BY <1>1, <1>3, <1>4, <1>5

\* The marks None, Unborn and Gone are no ids nor alternative ids and differ.
LEMMA Distinct ==
    ASSUME PublishersAssumption
    PROVE  /\ None # Unborn /\ None # Gone /\ Unborn # Gone
           /\ None \notin Alts \cup Ids
           /\ Unborn \notin Alts \cup Ids
           /\ Gone \notin Alts \cup Ids
<1>1. ASSUME NEW a, NEW b PROVE Cardinality({a, b}) # 3
  <2>1. Cardinality({a}) = 1 /\ IsFiniteSet({a})
    BY FS_Singleton
  <2>2. {a, b} = {a} \cup {b}
    OBVIOUS
  <2>3. \/ Cardinality({a, b}) = Cardinality({a})
        \/ Cardinality({a, b}) = Cardinality({a}) + 1
    BY <2>1, <2>2, FS_AddElement
  <2> QED BY <2>1, <2>3
<1>2. /\ None = Unborn => {None, Unborn, Gone} = {None, Gone}
      /\ None = Gone => {None, Unborn, Gone} = {None, Unborn}
      /\ Unborn = Gone => {None, Unborn, Gone} = {None, Unborn}
  OBVIOUS
<1>3. None # Unborn /\ None # Gone /\ Unborn # Gone
  BY <1>1, <1>2 DEF PublishersAssumption
<1> QED BY <1>3 DEF PublishersAssumption

\* Recording a well-typed event keeps the trail well typed.
LEMMA TrailTyped ==
    ASSUME TypeOK, NEW type \in {"create", "update", "delete"}, NEW p \in Ids,
           Record(type, p)
    PROVE  trail' \in Seq([type : {"create", "update", "delete"}, id : Ids])
<1>1. [type |-> type, id |-> p]
         \in [type : {"create", "update", "delete"}, id : Ids]
  OBVIOUS
<1> QED BY <1>1 DEF TypeOK, Record

\* Steps keep pc, reply, serial and kinds well typed.
LEMMA TypeMoves ==
    ASSUME TypeOK, Step
    PROVE  /\ pc' \in [Requests ->
                  {"idle", "hosting", "save", "row", "insert", "hook", "done"}]
           /\ reply' \in [Requests -> {None, "ok", "notfound", "error"}]
           /\ kinds' \in Workloads
           /\ serial' \in BOOLEAN
<1> DEFINE Places ==
              {"idle", "hosting", "save", "row", "insert", "hook", "done"}
<1> SUFFICES ASSUME NEW r \in Requests, Moves(r) \/ Passes(r),
                    UNCHANGED kinds
             PROVE  /\ pc' \in [Requests -> Places]
                    /\ reply' \in [Requests ->
                                     {None, "ok", "notfound", "error"}]
                    /\ serial' \in BOOLEAN
  BY DEF Step, Next, vars, TypeOK, Passes, Moves
<1>1. \/ \E status \in {"ok", "notfound", "error"} : Answer(r, status)
      \/ \E place \in Places : Goto(r, place)
  BY FoundIn DEF Moves, Passes, Fail, Create, FindForPatch, LoadHosting, Save,
         FindForDelete, DeleteRow, FindForLog, CreateLog
<1>2. \/ \E kind : Arrives(r, kind)
      \/ UNCHANGED serial
      \/ serial' \in BOOLEAN
  BY FoundIn DEF Moves, Passes, Fail, Create, FindForPatch, LoadHosting, Save,
         FindForDelete, DeleteRow, FindForLog, CreateLog
<1>3. serial' \in BOOLEAN
  BY <1>2 DEF TypeOK, Arrives
<1>4. /\ pc \in [Requests -> Places]
      /\ reply \in [Requests -> {None, "ok", "notfound", "error"}]
  BY DEF TypeOK
<1>5. "done" \in Places
  OBVIOUS
<1> HIDE DEF Places
<1> QED BY <1>1, <1>3, <1>4, <1>5 DEF Answer, Goto

\* Steps keep what handlers have read well typed.
LEMMA TypeLocal ==
    ASSUME PublishersAssumption, TypeOK, Answered, Step
    PROVE  local' \in [Requests -> Locals]
<1>1. \A p \in Ids : Exists(p) => publishers[p] \in Alts \cup Ids \cup {None}
  BY DEF TypeOK, Exists
<1>2. CASE local' = local
  BY <1>2 DEF TypeOK
<1>3. ASSUME NEW r \in Requests,
             \E x \in Ids : local' = [local EXCEPT ![r].id = x]
      PROVE  local' \in [Requests -> Locals]
  <2>1. PICK x \in Ids : local' = [local EXCEPT ![r].id = x]
    BY <1>3
  <2>2. [local EXCEPT ![r].id = x] \in [Requests -> Locals]
    BY LocalsTyped, Zenon
  <2> QED BY <2>1, <2>2
<1>4. ASSUME NEW r \in Requests,
             \E p \in Ids : /\ Exists(p)
                            /\ local' = [local EXCEPT ![r].id = p,
                                                 ![r].alt = publishers[p]]
      PROVE  local' \in [Requests -> Locals]
  <2>1. PICK p \in Ids :
           /\ Exists(p)
           /\ local' = [local EXCEPT ![r].id = p, ![r].alt = publishers[p]]
    BY <1>4
  <2>2. \A x \in Ids, y \in Alts \cup Ids \cup {None} :
           [local EXCEPT ![r].id = x, ![r].alt = y] \in [Requests -> Locals]
    BY LocalsTyped, Zenon
  <2> QED BY <1>1, <2>1, <2>2
<1>5. ASSUME NEW r \in Requests, LoadHosting(r)
      PROVE  local' \in [Requests -> Locals]
  <2>1. Of(local[r].id) \in SUBSET Rows
    BY DEF Of, TypeOK
  <2>2. local' = [local EXCEPT ![r].rows = Of(local[r].id)]
    BY <1>5 DEF LoadHosting
  <2> QED BY <2>1, <2>2, LocalsTyped
<1>6. ASSUME NEW r \in Requests, Save(r)
      PROVE  local' \in [Requests -> Locals]
  <2>1. PICK want \in SUBSET (Urls \X BOOLEAN) :
           local' = [local EXCEPT ![r].want = want]
    BY <1>6, Saved
  <2> QED BY <2>1, LocalsTyped
<1>7. \/ local' = local
      \/ \E r \in Requests :
            \/ \E x \in Ids : local' = [local EXCEPT ![r].id = x]
            \/ \E p \in Ids : /\ Exists(p)
                              /\ local' = [local EXCEPT ![r].id = p,
                                                   ![r].alt = publishers[p]]
            \/ LoadHosting(r) \/ Save(r)
  BY FoundIn DEF Step, Next, vars, Passes, Fail, Create, FindForPatch,
                 FindForDelete, DeleteRow, FindForLog, CreateLog
<1> QED BY <1>2, <1>3, <1>4, <1>5, <1>6, <1>7

\* Steps keep the tables well typed.
LEMMA TypeStore ==
    ASSUME PublishersAssumption, TypeOK, Answered, Step
    PROVE  /\ publishers' \in [Ids -> Alts \cup Ids \cup {None, Unborn, Gone}]
           /\ hosts' \in SUBSET Rows
           /\ trail' \in Seq([type : {"create", "update", "delete"}, id : Ids])
<1> SUFFICES ASSUME NEW r \in Requests, Create(r) \/ Save(r) \/ DeleteRow(r)
             PROVE  /\ publishers' \in
                          [Ids -> Alts \cup Ids \cup {None, Unborn, Gone}]
                    /\ hosts' \in SUBSET Rows
                    /\ trail' \in Seq([type : {"create", "update", "delete"},
                                       id : Ids])
  BY StepWrites DEF TypeOK
<1>1. /\ Names \subseteq Alts \cup Ids
      /\ local[r].alt \in Alts \cup Ids \cup {None}
  BY DEF Names, TypeOK, Locals
<1>2. CASE Create(r)
  <2>1. PICK p \in Ids, alt \in Names \cup {None}, added \in SUBSET Rows :
           /\ publishers' = [publishers EXCEPT ![p] = alt]
           /\ hosts' = hosts \cup added
           /\ Record("create", p)
    BY <1>2, Created
  <2>2. trail' \in Seq([type : {"create", "update", "delete"}, id : Ids])
    BY <2>1, TrailTyped
  <2> QED BY <1>1, <2>1, <2>2 DEF TypeOK
<1>3. CASE Save(r)
  <2> DEFINE p == local[r].id
  <2>1. PICK alt \in Names \cup {None, local[r].alt},
             want \in SUBSET (Urls \X BOOLEAN) :
           /\ p \in Ids
           /\ Record("update", p)
           /\ publishers' = IF Exists(p) THEN [publishers EXCEPT ![p] = alt]
                            ELSE publishers
           /\ hosts' = (hosts \ (local[r].rows \ Kept(r, want)))
                          \cup Added(r, want)
           /\ Added(r, want) \subseteq Rows
    BY <1>3, Saved
  <2>2. trail' \in Seq([type : {"create", "update", "delete"}, id : Ids])
    BY <2>1, TrailTyped
  <2> HIDE DEF p
  <2> QED BY <1>1, <2>1, <2>2 DEF TypeOK
<1>4. CASE DeleteRow(r)
  <2>1. local[r].id \in Ids
    BY <1>4 DEF DeleteRow, Answered, Bound
  <2>2. \/ /\ hosts' = HostsLeft(local[r].id)
           /\ publishers' = [publishers EXCEPT ![local[r].id] = Gone]
           /\ Record("delete", local[r].id)
        \/ UNCHANGED <<publishers, hosts, trail>>
    BY <1>4 DEF DeleteRow
  <2>3. trail' \in Seq([type : {"create", "update", "delete"}, id : Ids])
    BY <2>1, <2>2, TrailTyped DEF TypeOK
  <2> QED BY <2>1, <2>2, <2>3 DEF TypeOK, HostsLeft
<1> QED BY <1>2, <1>3, <1>4

\* Steps keep the types of all state.
LEMMA TypeStep ==
    ASSUME PublishersAssumption, TypeOK, Answered, Step PROVE TypeOK'
<1>1. logs' \in SUBSET [by : Requests, owner : Ids]
  <2> SUFFICES ASSUME NEW r \in Requests, DeleteRow(r) \/ CreateLog(r)
               PROVE  logs' \in SUBSET [by : Requests, owner : Ids]
    BY FoundIn DEF Step, Next, vars, TypeOK, Passes, Fail, Create,
                   FindForPatch, LoadHosting, Save, FindForDelete, FindForLog
  <2>1. pc[r] = "insert" => local[r].id \in Ids
    BY DEF Answered, Bound
  <2> QED BY <2>1 DEF DeleteRow, LogsLeft, CreateLog, TypeOK
<1> QED BY <1>1, TypeMoves, TypeLocal, TypeStore DEF TypeOK

-----------------------------------------------------------------------------
(* The trail and the life of a publisher. *)

SameLife(p) == /\ publishers'[p] = Unborn <=> publishers[p] = Unborn
               /\ publishers'[p] = Gone <=> publishers[p] = Gone

\* What a step records of a publisher, and what it does to it.
Records(type, p) ==
    /\ Record(type, p)
    /\ \A q \in Ids \ {p} : publishers'[q] = publishers[q]
    /\ \/ /\ type = "create"
          /\ publishers[p] = Unborn /\ publishers'[p] \notin {Unborn, Gone}
       \/ /\ type = "delete"
          /\ Exists(p) /\ publishers'[p] = Gone
       \/ /\ type = "update" /\ SameLife(p)
          /\ serial' = serial
          /\ \E r \in Requests : pc[r] = "save" /\ local[r].id = p

\* What is recorded says what happened to the publisher's row.
LEMMA Chronicle ==
    ASSUME PublishersAssumption, TypeOK, Answered, Step
    PROVE  \/ UNCHANGED <<publishers, trail>>
           \/ \E p \in Ids, type \in {"create", "update", "delete"} :
                 Records(type, p)
<1> SUFFICES ASSUME NEW r \in Requests, Create(r) \/ Save(r) \/ DeleteRow(r)
             PROVE  \/ UNCHANGED <<publishers, trail>>
                    \/ \E p \in Ids, type \in {"create", "update", "delete"} :
                          Records(type, p)
  BY StepWrites
<1>1. /\ Names \cup {None, local[r].alt} \subseteq Alts \cup Ids \cup {None}
      /\ Unborn \notin Alts \cup Ids \cup {None}
      /\ Gone \notin Alts \cup Ids \cup {None}
  BY Distinct DEF Names, TypeOK, Locals
<1>2. CASE Create(r)
  <2>1. PICK p \in Ids, alt \in Names \cup {None} :
           /\ publishers[p] = Unborn
           /\ publishers' = [publishers EXCEPT ![p] = alt]
           /\ Record("create", p)
    BY <1>2, Created
  <2>2. publishers'[p] \notin {Unborn, Gone}
    BY <1>1, <2>1 DEF TypeOK
  <2>3. \A q \in Ids \ {p} : publishers'[q] = publishers[q]
    BY <2>1 DEF TypeOK
  <2> QED BY <2>1, <2>2, <2>3 DEF Records
<1>3. CASE Save(r)
  <2> DEFINE p == local[r].id
  <2>1. PICK alt \in Names \cup {None, local[r].alt} :
           /\ p \in Ids
           /\ Record("update", p)
           /\ publishers' = IF Exists(p) THEN [publishers EXCEPT ![p] = alt]
                            ELSE publishers
    BY <1>3, Saved
  <2>2. (\A q \in Ids \ {p} : publishers'[q] = publishers[q]) /\ SameLife(p)
    <3> HIDE DEF p
    <3> QED BY <1>1, <2>1 DEF SameLife, TypeOK, Exists
  <2>3. pc[r] = "save" /\ serial' = serial
    BY <1>3 DEF Save
  <2> QED BY <2>1, <2>2, <2>3 DEF Records
<1>4. CASE DeleteRow(r)
  <2>1. local[r].id \in Ids
    BY <1>4 DEF DeleteRow, Answered, Bound
  <2>2. \/ /\ Exists(local[r].id)
           /\ publishers' = [publishers EXCEPT ![local[r].id] = Gone]
           /\ Record("delete", local[r].id)
        \/ UNCHANGED <<publishers, trail>>
    BY <1>4 DEF DeleteRow, DeleteResult
  <2> QED BY <2>1, <2>2 DEF Records, TypeOK
<1> QED BY <1>2, <1>3, <1>4

\* Nothing is unborn again, and what is gone stays so.
LEMMA LifeStep ==
    ASSUME PublishersAssumption, TypeOK, Answered, Step
    PROVE  \A p \in Ids :
              /\ publishers[p] # Unborn => publishers'[p] # Unborn
              /\ publishers[p] = Gone => publishers'[p] = Gone
<1>1. CASE UNCHANGED <<publishers, trail>>
  BY <1>1
<1>2. ASSUME NEW p \in Ids, NEW type, Records(type, p), NEW q \in Ids
      PROVE  /\ publishers[q] # Unborn => publishers'[q] # Unborn
             /\ publishers[q] = Gone => publishers'[q] = Gone
  BY <1>2, Distinct DEF Records, SameLife, Exists
<1> QED BY <1>1, <1>2, Chronicle

\* Steps keep the trail of a publisher that of its life.
LEMMA LivedStep ==
    ASSUME PublishersAssumption, TypeOK, Answered, Lived, Ended, Step
    PROVE  Lived' /\ Ended'
<1> DEFINE E == [type : {"create", "update", "delete"}, id : Ids]
<1>1. CASE UNCHANGED <<publishers, trail>>
  BY <1>1 DEF Lived, Ended, Count
<1>2. ASSUME NEW p \in Ids, NEW type \in {"create", "update", "delete"},
             Records(type, p)
      PROVE  Lived' /\ Ended'
  <2> DEFINE e == [type |-> type, id |-> p]
  <2>1. trail \in Seq(E) /\ e \in E /\ trail' = Append(trail, e)
    BY <1>2 DEF TypeOK, Records, Record
  <2>2. ASSUME NEW q \in Ids, NEW k \in {"create", "delete"}
        PROVE  Count(k, q)' =
                  Count(k, q) + (IF k = type /\ q = p THEN 1 ELSE 0)
    <3> DEFINE x == [type |-> k, id |-> q]
    <3>1. Count(k, q) = Cardinality(Hits(trail, x))
      BY DEF Count, Hits
    <3>2. Count(k, q)' = Cardinality(Hits(trail', x))
      BY DEF Count, Hits
    <3>3. e = x <=> k = type /\ q = p
      OBVIOUS
    <3> HIDE DEF E, e, x
    <3>4. Cardinality(Hits(Append(trail, e), x)) =
             Cardinality(Hits(trail, x)) + (IF e = x THEN 1 ELSE 0)
      BY <2>1, HitsAppend
    <3> QED BY <2>1, <3>1, <3>2, <3>3, <3>4
  <2>3. Lived'
    <3> SUFFICES ASSUME NEW q \in Ids
                 PROVE  /\ Count("delete", q)' =
                              IF publishers'[q] = Gone THEN 1 ELSE 0
                        /\ \/ Count("create", q)' = 0
                           \/ Count("create", q)' = 1
                        /\ publishers'[q] = Unborn => Count("create", q)' = 0
      BY DEF Lived
    <3>1. /\ Count("delete", q) = IF publishers[q] = Gone THEN 1 ELSE 0
          /\ Count("create", q) = 0 \/ Count("create", q) = 1
          /\ publishers[q] = Unborn => Count("create", q) = 0
      BY DEF Lived
    <3>2. /\ Count("delete", q)' = Count("delete", q)
               + (IF "delete" = type /\ q = p THEN 1 ELSE 0)
          /\ Count("create", q)' = Count("create", q)
               + (IF "create" = type /\ q = p THEN 1 ELSE 0)
      BY <2>2
    <3>3. Unborn # Gone
      BY Distinct
    <3>4. CASE q # p
      BY <1>2, <3>1, <3>2, <3>4 DEF Records
    <3>5. CASE q = p
      <4>1. CASE type = "create"
        BY <1>2, <3>1, <3>2, <3>3, <3>5, <4>1 DEF Records
      <4>2. CASE type = "delete"
        BY <1>2, <3>1, <3>2, <3>3, <3>5, <4>2 DEF Records, Exists
      <4>3. CASE type = "update"
        BY <1>2, <3>1, <3>2, <3>5, <4>3 DEF Records, SameLife
      <4> QED BY <4>1, <4>2, <4>3
    <3> QED BY <3>4, <3>5
  <2>4. Ended'
    <3> SUFFICES ASSUME NEW i \in DOMAIN trail', trail'[i].type = "delete"
                 PROVE  publishers'[trail'[i].id] = Gone
      BY DEF Ended
    <3>1. CASE i \in DOMAIN trail
      <4>1. trail'[i] = trail[i] /\ trail[i] \in E
        <5> HIDE DEF E, e
        <5> QED BY <2>1, <3>1, AppendPlaces
      <4> QED BY <3>1, <4>1, LifeStep DEF Ended
    <3>2. CASE i \notin DOMAIN trail
      <4>1. trail'[i] = e
        BY <2>1, <3>2
      <4>2. type = "delete" /\ trail'[i].id = p
        BY <4>1
      <4> QED BY <1>2, <4>2 DEF Records
    <3> QED BY <3>1, <3>2
  <2> QED BY <2>3, <2>4
<1> QED BY <1>1, <1>2, Chronicle

-----------------------------------------------------------------------------
(* Names and code hosting. *)

\* No step gives two publishers a name in common.
LEMMA NamesApart ==
    ASSUME PublishersAssumption, TypeOK, Answered, Unique, Dead, Step
    PROVE  Unique' /\ Dead'
<1>1. \A p \in Ids : publishers[p] = Gone => publishers'[p] = Gone
  BY LifeStep
<1>2. ASSUME NEW p \in Ids, NEW alt, AltFree(p, alt),
             alt \in Ids => publishers[alt] = Gone,
             publishers' = [publishers EXCEPT ![p] = alt]
      PROVE  Unique' /\ \A q \in Ids : publishers'[q] \in Ids =>
                                          publishers'[publishers'[q]] = Gone
  <2>1. /\ publishers'[p] = alt
        /\ \A q \in Ids \ {p} : publishers'[q] = publishers[q]
    BY <1>2 DEF TypeOK
  <2>2. Unique'
    BY <1>2, <2>1 DEF Unique, AltFree
  <2> QED BY <1>1, <1>2, <2>1, <2>2 DEF Dead
<1>3. /\ Unique'
      /\ \A q \in Ids : publishers'[q] \in Ids =>
                           publishers'[publishers'[q]] = Gone
  <2>1. CASE UNCHANGED <<publishers, hosts, trail>>
    BY <2>1 DEF Unique, Dead
  <2>2. ASSUME NEW r \in Requests, Create(r)
        PROVE  /\ Unique'
               /\ \A q \in Ids : publishers'[q] \in Ids =>
                                    publishers'[publishers'[q]] = Gone
    <3>1. PICK p \in Ids, alt \in Names \cup {None} :
             /\ NoIdConflict(alt)
             /\ AltFree(p, alt)
             /\ publishers' = [publishers EXCEPT ![p] = alt]
      BY <2>2, Created
    <3>2. alt \in Ids => publishers[alt] = Gone
      BY <3>1, Distinct DEF PublishersAssumption, Names, NoIdConflict, Exists
    <3> QED BY <1>2, <3>1, <3>2
  <2>3. ASSUME NEW r \in Requests, Save(r)
        PROVE  /\ Unique'
               /\ \A q \in Ids : publishers'[q] \in Ids =>
                                    publishers'[publishers'[q]] = Gone
    <3> DEFINE p == local[r].id
    <3>1. PICK alt \in Names \cup {None, local[r].alt} :
             /\ p \in Ids
             /\ alt # local[r].alt => NoIdConflict(alt)
             /\ Exists(p) => AltFree(p, alt)
             /\ publishers' = IF Exists(p) THEN [publishers EXCEPT ![p] = alt]
                              ELSE publishers
      BY <2>3, Saved
    <3>2. alt \in Ids => publishers[alt] = Gone
      BY <3>1, Distinct
      DEF PublishersAssumption, Names, NoIdConflict, Exists, Dead
    <3> HIDE DEF p
    <3>3. CASE Exists(p)
      BY <1>2, <3>1, <3>2, <3>3
    <3>4. CASE ~ Exists(p)
      BY <3>1, <3>4 DEF Unique, Dead
    <3> QED BY <3>3, <3>4
  <2>4. ASSUME NEW r \in Requests, DeleteRow(r)
        PROVE  /\ Unique'
               /\ \A q \in Ids : publishers'[q] \in Ids =>
                                    publishers'[publishers'[q]] = Gone
    <3> DEFINE p == local[r].id
    <3>1. p \in Ids
      BY <2>4 DEF DeleteRow, Answered, Bound
    <3>2. \/ publishers' = [publishers EXCEPT ![p] = Gone]
          \/ publishers' = publishers
      BY <2>4 DEF DeleteRow
    <3> HIDE DEF p
    <3>3. \A q \in Ids : \/ publishers'[q] = publishers[q]
                         \/ publishers'[q] = Gone
      BY <3>1, <3>2 DEF TypeOK
    <3>4. Gone \notin Ids
      BY Distinct
    <3> QED BY <1>1, <3>3, <3>4 DEF Unique, Dead
  <2> QED BY <2>1, <2>2, <2>3, <2>4, StepWrites
<1>4. \A r \in Requests : local'[r].alt \in Ids =>
                             publishers'[local'[r].alt] = Gone
  <2>1. CASE UNCHANGED vars
    BY <2>1 DEF Dead, vars
  <2>2. ASSUME NEW q \in Requests, Acts(q), NEW r \in Requests,
               local'[r].alt \in Ids
        PROVE  publishers'[local'[r].alt] = Gone
    <3>1. \/ local'[r].alt = local[r].alt
          \/ \E p \in Ids : local'[r].alt = publishers[p]
      BY <2>2 DEF Acts
    <3> QED BY <1>1, <2>2, <3>1 DEF Dead
  <2> QED BY <2>1, <2>2, StepActs
<1> QED BY <1>3, <1>4 DEF Dead

\* What exists does until it is deleted.
LEMMA ExistsStep ==
    ASSUME PublishersAssumption, TypeOK, Answered, Step
    PROVE  \A q \in Ids :
              Exists(q) => \/ Exists(q)'
                           \/ \E r \in Requests :
                                 /\ DeleteRow(r) /\ local[r].id = q
                                 /\ logs' = LogsLeft(q)
                                 /\ hosts' = HostsLeft(q)
<1>1. \A r \in Requests : /\ Names \cup {None, local[r].alt}
                                \subseteq Alts \cup Ids \cup {None}
                          /\ Unborn \notin Alts \cup Ids \cup {None}
                          /\ Gone \notin Alts \cup Ids \cup {None}
  BY Distinct DEF Names, TypeOK, Locals
<1> SUFFICES ASSUME NEW r \in Requests, Create(r) \/ Save(r) \/ DeleteRow(r),
                    NEW q \in Ids, Exists(q)
             PROVE  \/ Exists(q)'
                    \/ /\ DeleteRow(r) /\ local[r].id = q
                       /\ logs' = LogsLeft(q) /\ hosts' = HostsLeft(q)
  BY StepWrites DEF Exists
<1>2. CASE Create(r)
  <2>1. PICK p \in Ids, alt \in Names \cup {None} :
           publishers' = [publishers EXCEPT ![p] = alt]
    BY <1>2, Created
  <2> QED BY <1>1, <2>1 DEF Exists, TypeOK
<1>3. CASE Save(r)
  <2> DEFINE p == local[r].id
  <2>1. PICK alt \in Names \cup {None, local[r].alt} :
           /\ p \in Ids
           /\ publishers' = IF Exists(p) THEN [publishers EXCEPT ![p] = alt]
                            ELSE publishers
    BY <1>3, Saved
  <2> HIDE DEF p
  <2> QED BY <1>1, <2>1 DEF Exists, TypeOK
<1>4. CASE DeleteRow(r)
  <2>1. local[r].id \in Ids
    BY <1>4 DEF DeleteRow, Answered, Bound
  <2>2. \/ /\ logs' = LogsLeft(local[r].id)
           /\ hosts' = HostsLeft(local[r].id)
           /\ publishers' = [publishers EXCEPT ![local[r].id] = Gone]
        \/ UNCHANGED <<publishers, hosts, logs>>
    BY <1>4 DEF DeleteRow
  <2> QED BY <1>4, <2>1, <2>2 DEF Exists, TypeOK
<1> QED BY <1>2, <1>3, <1>4

\* No step leaves code hosting whose publisher is gone.
LEMMA NoHostStep ==
    ASSUME PublishersAssumption, TypeOK, Answered, NoHostLeftBehind, Step
    PROVE  NoHostLeftBehind'
<1>1. \A x \in Rows : x.owner \in Ids
  BY DEF Rows
<1>2. \A x \in hosts : x.owner \in Ids /\ Exists(x.owner)
  BY <1>1 DEF TypeOK, NoHostLeftBehind
<1>3. \A x \in hosts' \cap hosts : Exists(x.owner)'
  BY <1>2, ExistsStep DEF HostsLeft, Of
<1>4. ASSUME NEW x \in hosts' \ hosts
      PROVE  Exists(x.owner)'
  <2>1. PICK r \in Requests : Create(r) \/ Save(r) \/ DeleteRow(r)
    BY <1>4, StepWrites
  <2>2. CASE Create(r)
    <3>1. PICK p \in Ids, alt \in Names \cup {None}, added \in SUBSET Rows :
             /\ publishers' = [publishers EXCEPT ![p] = alt]
             /\ hosts' = hosts \cup added
             /\ \A y \in added : y.owner = p
      BY <2>2, Created
    <3>2. alt \notin {Unborn, Gone}
      BY <3>1, Distinct DEF Names
    <3> QED BY <1>4, <3>1, <3>2 DEF Exists, TypeOK
  <2>3. CASE Save(r)
    <3>1. PICK p \in Ids : p = local[r].id
      BY <2>3, Saved
    <3>2. PICK want \in SUBSET (Urls \X BOOLEAN) :
             /\ hosts' = (hosts \ (local[r].rows \ Kept(r, want)))
                            \cup Added(r, want)
             /\ Referenced(p, Added(r, want))
             /\ \A y \in Added(r, want) : y.owner = p
      BY <2>3, <3>1, Saved
    <3>3. x.owner = p /\ Exists(p)
      BY <1>4, <3>2 DEF Referenced
    <3>4. Exists(p) => Exists(p)' \/ hosts' = HostsLeft(p)
      BY ExistsStep
    <3>5. x \notin HostsLeft(p)
      BY <1>4 DEF HostsLeft
    <3> QED BY <1>4, <3>3, <3>4, <3>5 DEF Exists
  <2>4. CASE DeleteRow(r)
    BY <1>4, <2>4 DEF DeleteRow, HostsLeft
  <2> QED BY <2>1, <2>2, <2>3, <2>4
<1> QED BY <1>3, <1>4 DEF NoHostLeftBehind

-----------------------------------------------------------------------------
(* Requests. *)

\* Steps keep what is known of a request from where it is.
LEMMA AnsweredStep ==
    ASSUME TypeOK, Answered, Step PROVE Answered'
<1>1. CASE UNCHANGED vars
  BY <1>1 DEF Answered, Bound, vars
<1>2. ASSUME NEW r \in Requests, Acts(r) PROVE Answered'
  <2> SUFFICES ASSUME NEW q \in Requests
               PROVE  /\ pc'[q] # "done" => reply'[q] = None
                      /\ Bound(q)' \/ pc'[q] = "hook" => local'[q].id \in Ids
    BY DEF Answered
  <2>1. CASE q # r
    BY <1>2, <2>1 DEF Acts, Answered, Bound
  <2>2. CASE q = r
    BY <1>2, <2>2 DEF Acts, Answered
  <2> QED BY <2>1, <2>2
<1> QED BY <1>1, <1>2, StepActs

\* Handled alone, a request goes on while all others rest.
LEMMA OthersRest ==
    ASSUME Alone, NEW r \in Requests, Acts(r), serial'
    PROVE  \A q \in Requests \ {r} : Resting(q) /\ Resting(q)'
BY DEF Alone, Acts, Resting

\* While requests take turns one at a time is on its way.
LEMMA AloneStep ==
    ASSUME TypeOK, Alone, Step PROVE Alone'
<1>1. CASE UNCHANGED vars
  BY <1>1 DEF Alone, Resting, vars
<1>2. ASSUME NEW r \in Requests, Acts(r) PROVE Alone'
  BY <1>2, OthersRest DEF Alone
<1> QED BY <1>1, <1>2, StepActs

\* While requests take turns they find things as they left them.
LEMMA InStepStep ==
    ASSUME TypeOK, Answered, Alone, InStep, Step
    PROVE  InStep'
<1>1. CASE UNCHANGED vars
  BY <1>1 DEF InStep, Bound, Exists, Of, vars
<1>2. ASSUME serial', NEW r \in Requests, Acts(r)
      PROVE  InStep'
  <2>1. serial
    BY <1>2 DEF Acts
  <2>2. \A q \in Requests \ {r} : Resting(q)'
    BY <1>2, OthersRest
  <2> DEFINE t == local'[r].id
  <2> SUFFICES
        /\ Bound(r)' => publishers'[t] \notin {Unborn, Gone}
        /\ pc'[r] = "save" =>
              local'[r].rows = {x \in hosts' : x.owner = t}
    BY <2>2 DEF InStep, Resting, Bound, Exists, Of
  <2>3. CASE ~ Bound(r)'
    BY <2>3 DEF Bound
  <2>4. ASSUME NEW kind, NEW place \in {"hosting", "row"},
               Find(r, kind, place)
        PROVE  /\ Bound(r)' => publishers'[t] \notin {Unborn, Gone}
               /\ pc'[r] # "save"
    <3>1. CASE Answer(r, "notfound")
      BY <3>1 DEF Answer, TypeOK, Bound
    <3>2. ASSUME Goto(r, place), NEW p \in Ids, Exists(p),
                 local' = [local EXCEPT ![r].id = p,
                                        ![r].alt = publishers[p]]
          PROVE  /\ Bound(r)' => publishers'[t] \notin {Unborn, Gone}
                 /\ pc'[r] # "save"
      <4>1. local'[r].id = p
        BY <3>2, LocalStays
      <4>2. pc'[r] = place /\ publishers' = publishers
        BY <2>4, <3>2, FoundIn DEF Goto, TypeOK
      <4> QED BY <3>2, <4>1, <4>2 DEF Exists
    <3> QED BY <2>4, <3>1, <3>2, FoundIn
  <2>5. CASE FindForPatch(r) \/ FindForDelete(r)
    BY <2>4, <2>5 DEF FindForPatch, FindForDelete
  <2>6. CASE LoadHosting(r)
    <3>1. /\ local'[r].id = local[r].id
          /\ local'[r].rows = Of(local[r].id)
      BY <2>6, LocalStays DEF LoadHosting
    <3>2. UNCHANGED <<publishers, hosts>> /\ Bound(r)
      BY <2>6 DEF LoadHosting, Bound
    <3> QED BY <2>1, <3>1, <3>2 DEF InStep, Exists, Of
  <2>7. CASE FindForLog(r)
    <3>1. PICK p \in Ids :
             \/ /\ Exists(p)
                /\ local' = [local EXCEPT ![r].id = p]
                /\ Goto(r, "insert")
             \/ Answer(r, "notfound")
      BY <2>7 DEF FindForLog
    <3>2. publishers' = publishers
      BY <2>7 DEF FindForLog
    <3>3. CASE Answer(r, "notfound")
      BY <2>3, <3>3 DEF Answer, TypeOK, Bound
    <3>4. CASE /\ Exists(p)
               /\ local' = [local EXCEPT ![r].id = p]
               /\ Goto(r, "insert")
      <4>1. local'[r].id = p
        BY <3>4, LocalStays
      <4>2. pc'[r] = "insert"
        BY <3>4 DEF Goto, TypeOK
      <4> QED BY <3>2, <3>4, <4>1, <4>2 DEF Exists
    <3> QED BY <3>1, <3>3, <3>4
  <2> QED BY <1>2, <2>3, <2>5, <2>6, <2>7 DEF Acts
<1> QED BY <1>1, <1>2, StepActs DEF InStep

\* Requests that take turns record nothing of what is gone and leave no log
\* of it.
LEMMA SerialDeleteStep ==
    ASSUME PublishersAssumption, TypeOK, Answered, Ended, InStep,
           SerialDelete, Step
    PROVE  SerialDelete'
<1> DEFINE E == [type : {"create", "update", "delete"}, id : Ids]
           After(trl) == \A i, j \in DOMAIN trl :
                            i < j /\ trl[i].type = "delete" =>
                               trl[j].id # trl[i].id
<1> SUFFICES ASSUME serial'
             PROVE  After(trail') /\ \A l \in logs' : Exists(l.owner)'
  BY DEF SerialDelete, Exists
<1>1. serial
  BY StepActs DEF Acts, vars
<1>2. After(trail) /\ \A l \in logs : Exists(l.owner)
  BY <1>1 DEF SerialDelete
<1>3. After(trail')
  <2>1. CASE UNCHANGED <<publishers, trail>>
    BY <1>2, <2>1
  <2>2. ASSUME NEW p \in Ids, NEW type \in {"create", "update", "delete"},
               Records(type, p)
        PROVE  After(trail')
    <3> DEFINE e == [type |-> type, id |-> p]
    <3>1. trail \in Seq(E) /\ e \in E /\ trail' = Append(trail, e)
      BY <2>2 DEF TypeOK, Records, Record
    <3>2. publishers[p] # Gone
      BY <1>1, <2>2, Distinct DEF Records, Exists, InStep, Bound
    <3> SUFFICES ASSUME NEW i \in DOMAIN trail', NEW j \in DOMAIN trail',
                        i < j, trail'[i].type = "delete"
                 PROVE  trail'[j].id # trail'[i].id
      OBVIOUS
    <3>3. i \in DOMAIN trail /\ trail'[i] = trail[i]
      BY <3>1
    <3>4. CASE j \in DOMAIN trail
      BY <1>2, <3>1, <3>3, <3>4
    <3>5. CASE j \notin DOMAIN trail
      <4>1. trail'[j] = e
        BY <3>1, <3>5
      <4>2. publishers[trail[i].id] = Gone
        BY <3>3 DEF Ended
      <4> QED BY <3>2, <3>3, <4>1, <4>2
    <3> QED BY <3>4, <3>5
  <2> QED BY <2>1, <2>2, Chronicle
<1>4. \A l \in logs' : Exists(l.owner)'
  <2>1. \A l \in logs : l.owner \in Ids
    BY DEF TypeOK
  <2>2. \A l \in logs' \cap logs : Exists(l.owner)'
    BY <1>2, <2>1, ExistsStep DEF LogsLeft
  <2>3. ASSUME NEW l \in logs' \ logs PROVE Exists(l.owner)'
    <3>1. PICK r \in Requests : CreateLog(r)
      BY FoundIn, <2>3 DEF Step, Next, vars, Passes, Fail, Create,
         FindForPatch, LoadHosting, Save, FindForDelete, DeleteRow, LogsLeft,
         FindForLog
    <3>2. l.owner = local[r].id /\ publishers' = publishers
      BY <2>3, <3>1 DEF CreateLog
    <3>3. Exists(local[r].id)
      BY <1>1, <3>1 DEF CreateLog, InStep, Bound
    <3> QED BY <3>2, <3>3 DEF Exists
  <2> QED BY <2>2, <2>3
<1> QED BY <1>3, <1>4

-----------------------------------------------------------------------------
(* The invariant. *)

\* The invariant of the publishers holds at the start.
LEMMA PInvStart == ASSUME PublishersAssumption, Init PROVE PInv
<1>1. /\ publishers \in [Ids -> Alts \cup {None, Unborn}]
      /\ \A p, q \in Ids : p # q /\ publishers[p] = publishers[q] =>
                              publishers[p] \notin Alts
  BY DEF Init
<1>2. /\ hosts \in SUBSET Rows
      /\ \A x \in hosts : x.owner \in Ids
  <2>1. hosts \subseteq [by : {Seed}, url : Urls, group : Groups, owner : Ids]
    BY DEF Init
  <2> QED BY <2>1 DEF Rows, PublishersAssumption
<1>3. /\ trail = <<>> /\ logs = {}
      /\ pc = [r \in Requests |-> "idle"]
      /\ local = [r \in Requests |-> Nothing]
      /\ reply = [r \in Requests |-> None]
      /\ kinds \in Workloads /\ serial = TRUE
  BY DEF Init
<1>4. TypeOK
  <2>1. Nothing \in Locals
    BY DEF Nothing, Locals
  <2> QED BY <1>1, <1>2, <1>3, <2>1 DEF TypeOK
<1>5. Answered
  BY <1>3 DEF Answered, Bound
<1>6. Lived /\ Ended
  <2>1. \A p \in Ids : publishers[p] # Gone
    BY <1>1, Distinct
  <2>2. \A type, p : Count(type, p) = 0
    <3> TAKE type, p
    <3>1. Count(type, p) = Cardinality(Hits(<<>>, [type |-> type, id |-> p]))
      BY <1>3 DEF Count, Hits
    <3> QED BY <3>1, HitsEmpty
  <2> QED BY <1>3, <2>1, <2>2 DEF Lived, Ended
<1>7. Unique /\ Dead
  <2>1. \A r \in Requests : local[r].alt = None
    BY <1>3 DEF Nothing
  <2>2. \A p \in Ids : publishers[p] \notin Ids
    BY <1>1, Distinct DEF PublishersAssumption
  <2> QED BY <1>1, <2>1, <2>2, Distinct DEF Unique, Dead
<1>8. NoHostLeftBehind
  BY <1>2 DEF Init, NoHostLeftBehind, Of
<1>9. Alone /\ InStep
  BY <1>3 DEF Alone, InStep, Resting, Bound
<1>10. SerialDelete
  BY <1>3 DEF SerialDelete
<1> QED BY <1>4, <1>5, <1>6, <1>7, <1>8, <1>9, <1>10 DEF PInv

\* The invariant of the publishers is inductive.
LEMMA PInvStep == ASSUME PublishersAssumption, PInv, Step PROVE PInv'
BY TypeStep, AnsweredStep, LivedStep, NamesApart, NoHostStep, AloneStep,
   InStepStep, SerialDeleteStep DEF PInv

\* OneDelete is part of what Lived says.
LEMMA OneDeleteHolds == ASSUME Lived PROVE OneDelete
BY DEF Lived, OneDelete

\* A name matches the publisher whose id it is or whose alternative id it is,
\* and never both.
LEMMA OneNameHolds ==
    ASSUME PublishersAssumption, TypeOK, Unique, Dead
    PROVE  OneName
<1> SUFFICES ASSUME NEW name \in Names
             PROVE  Cardinality(Matching(name)) <= 1
  BY DEF OneName
<1>1. ASSUME NEW p \in Matching(name), NEW q \in Matching(name)
      PROVE  p = q
  <2>1. /\ p \in Ids /\ Exists(p) /\ name \in {p, publishers[p]}
        /\ q \in Ids /\ Exists(q) /\ name \in {q, publishers[q]}
    BY <1>1 DEF Matching
  <2>2. CASE name = p \/ name = q
    BY <2>1, <2>2 DEF Exists, Dead
  <2>3. CASE publishers[p] = name /\ publishers[q] = name
    BY <2>1, <2>3, Distinct DEF Unique, Names
  <2> QED BY <2>1, <2>2, <2>3
<1>2. CASE Matching(name) = {}
  BY <1>2, FS_EmptySet
<1>3. CASE Matching(name) # {}
  <2>1. PICK p \in Matching(name) : TRUE
    BY <1>3
  <2>2. Matching(name) = {p}
    BY <1>1
  <2>3. Cardinality({p}) = 1
    BY FS_Singleton
  <2> QED BY <2>2, <2>3
<1> QED BY <1>2, <1>3

\* The rows of a PATCH that is alone are those it keeps and those it adds.
LEMMA InSyncStep ==
    ASSUME PublishersAssumption, PInv, Step, NEW r \in Requests,
           serial, pc[r] = "save", reply'[r] = "ok"
    PROVE  {x.url : x \in Of(local[r].id)'} = {w[1] : w \in local'[r].want}
<1> USE DEF PInv
<1>1. reply[r] = None /\ None # "ok"
  BY DEF Answered, PublishersAssumption
<1>2. Save(r)
  BY <1>1, StepActs DEF Acts, vars
<1>3. PICK want \in SUBSET (Urls \X BOOLEAN) :
         /\ hosts' = (hosts \ (local[r].rows \ Kept(r, want)))
                        \cup Added(r, want)
         /\ local' = [local EXCEPT ![r].want = want]
         /\ \A x \in Added(r, want) : x.owner = local[r].id
  BY <1>2, Saved
<1>4. local'[r].want = want /\ local'[r].id = local[r].id
  BY <1>3, LocalStays
<1>5. local[r].rows = {x \in hosts : x.owner = local[r].id}
  BY DEF InStep, Of
<1>6. {y \in hosts' : y.owner = local[r].id}
         = Kept(r, want) \cup Added(r, want)
  BY <1>3, <1>5 DEF Kept
<1> DEFINE us == {w[1] : w \in want}
<1>7. Kept(r, want) = {x \in local[r].rows : x.url \in us}
  BY DEF Kept
<1>8. \A x \in Kept(r, want) \cup Added(r, want) : x.url \in us
  BY <1>7 DEF Added
<1>9. ASSUME NEW u \in us
      PROVE  \E x \in Kept(r, want) \cup Added(r, want) : x.url = u
  <2>1. CASE \E x \in local[r].rows : x.url = u
    BY <1>7, <2>1
  <2>2. CASE \A x \in local[r].rows : x.url # u
    <3>1. [by |-> r, url |-> u, group |-> TRUE, owner |-> local[r].id]
             \in Added(r, want)
      BY <2>2 DEF Added
    <3> QED BY <3>1
  <2> QED BY <2>1, <2>2
<1> HIDE DEF us
<1>10. {x.url : x \in Kept(r, want) \cup Added(r, want)} = us
  BY <1>8, <1>9
<1> QED BY <1>4, <1>6, <1>10 DEF Of, us

-----------------------------------------------------------------------------
(* The handlers of webhooks. *)

\* To the publishers every step of Webhooks is one of theirs, or passes.
LEMMA WNextSteps ==
    ASSUME WTypeOK, [WNext]_wvars
    PROVE  Step
<1>1. CASE UNCHANGED wvars
  BY <1>1 DEF wvars, Step
<1>2. CASE PublishersNext
  BY <1>2 DEF PublishersNext, Step
<1>3. ASSUME NEW r \in Requests,
             PostForAll(r) \/ FindForHook(r) \/ PostForOne(r) \/ DeleteHook(r)
      PROVE  Passes(r)
  <2>1. \A q \in Requests : pc[q] \in {"idle", "done"} <=> Resting(q)
    BY DEF Resting
  <2>2. ASSUME NEW kind, Arrives(r, kind)
        PROVE  /\ pc[r] = "idle"
               /\ serial' \in BOOLEAN
               /\ serial' => serial /\ \A q \in Requests : Resting(q)
    BY <2>2 DEF Arrives, Resting, WTypeOK, TypeOK
  <2>3. CASE FindForHook(r)
    BY <2>2, <2>3 DEF FindForHook, Passes
  <2>4. CASE PostForAll(r)
    BY <2>2, <2>4 DEF PostForAll, Insert, Passes
  <2>5. CASE DeleteHook(r)
    BY <2>2, <2>5 DEF DeleteHook, Passes
  <2>6. CASE PostForOne(r)
    BY <2>6 DEF PostForOne, Insert, Passes, WTypeOK, TypeOK
  <2> QED BY <1>3, <2>3, <2>4, <2>5, <2>6
<1>4. ASSUME NEW i, Dispatch(i) PROVE Step
  BY <1>4 DEF Dispatch, Step
<1> QED BY <1>1, <1>2, <1>3, <1>4 DEF WNext, Step

\* One step of the webhooks: one is made, one is deleted, an event is
\* dispatched, or the handlers of the publishers go on.
Makes(r, h) == /\ h \in Hooks /\ h.by = r /\ r \in Requests
               /\ pc[r] # "done" /\ pc' = [pc EXCEPT ![r] = "done"]
               /\ hooks' = hooks \cup {h}
               /\ Tell("create", h)
               /\ since' = [since EXCEPT ![r] = Len(trail)]
               /\ UNCHANGED <<trail, told, posts, until>>
Removes(h) == /\ h \in hooks
              /\ hooks' = hooks \ {h}
              /\ Tell("delete", h)
              /\ until' = [until EXCEPT ![h.by] = Len(trail)]
              /\ \A r \in Requests : pc[r] = "done" => pc'[r] = "done"
              /\ UNCHANGED <<trail, told, posts, since>>
Keeps == /\ \/ trail' = trail
            \/ \E e \in [type : {"create", "update", "delete"}, id : Ids] :
                  trail' = Append(trail, e)
         /\ \A r \in Requests : pc[r] = "done" => pc'[r] = "done"
         /\ UNCHANGED hookvars

\* What a step does to webhooks, their trail and the dispatch.
LEMMA HookSteps ==
    ASSUME PublishersAssumption, PInv, WTypeOK, [WNext]_wvars
    PROVE  \/ \E r \in Requests, h \in Hooks : Makes(r, h)
           \/ \E h \in Known : Removes(h)
           \/ \E i \in DOMAIN trail : Dispatch(i)
           \/ Keeps
<1>1. Step
  BY WNextSteps
<1>2. \A r \in Requests : pc[r] = "done" => pc'[r] = "done"
  <2>1. UNCHANGED vars \/ \E r \in Requests : Acts(r)
    BY <1>1, StepActs DEF PInv
  <2> QED BY <2>1 DEF Acts, vars
<1>3. \/ trail' = trail
      \/ \E e \in [type : {"create", "update", "delete"}, id : Ids] :
            trail' = Append(trail, e)
  BY <1>1, Chronicle DEF PInv, Records, Record
<1>4. ASSUME NEW r \in Requests, NEW on \in Ids \cup {All}, Insert(r, on),
             pc[r] # "done"
      PROVE  \E h \in Hooks : Makes(r, h)
  <2>1. PICK url \in Targets :
           LET h == [by |-> r, url |-> url, on |-> on] IN
           hooks' = hooks \cup {h} /\ Tell("create", h)
    BY <1>4 DEF Insert
  <2>2. [by |-> r, url |-> url, on |-> on] \in Hooks
    BY DEF Hooks
  <2> QED BY <1>4, <2>1, <2>2 DEF Insert, Makes, Answer
<1>5. ASSUME NEW r \in Requests, PostForAll(r)
      PROVE  \E h \in Hooks : Makes(r, h)
  BY <1>4, <1>5 DEF PostForAll, Arrives
<1>6. ASSUME NEW r \in Requests, PostForOne(r)
      PROVE  \E h \in Hooks : Makes(r, h)
  <2>1. local[r].id \in Ids /\ pc[r] # "done"
    BY <1>6 DEF PostForOne, PInv, Answered
  <2> QED BY <1>4, <1>6, <2>1 DEF PostForOne
<1>7. ASSUME NEW r \in Requests, DeleteHook(r)
      PROVE  Keeps \/ \E h \in Known : Removes(h)
  BY <1>2, <1>3, <1>7
  DEF DeleteHook, HookMatched, Keeps, Removes, hookvars
<1>8. ASSUME NEW r \in Requests, FindForHook(r)
      PROVE  Keeps
  BY <1>2, <1>3, <1>8 DEF FindForHook, Keeps
<1>9. CASE PublishersNext
  BY <1>2, <1>3, <1>9 DEF PublishersNext, HooksLeft, Keeps, hookvars
<1>10. CASE UNCHANGED wvars
  BY <1>2, <1>3, <1>10 DEF wvars, Keeps
<1> QED BY <1>5, <1>6, <1>7, <1>8, <1>9, <1>10 DEF WNext

HookEvents == [type : {"create", "delete"}, hook : Hooks]
Removed == {hookTrail[i].hook : i \in
               {j \in DOMAIN hookTrail : hookTrail[j].type = "delete"}}

\* An event that is told of a webhook.
LEMMA Told ==
    ASSUME hookTrail \in Seq(HookEvents), NEW type \in {"create", "delete"},
           NEW h \in Hooks, Tell(type, h)
    PROVE  /\ hookTrail' \in Seq(HookEvents)
           /\ Known' = Known \cup {h}
           /\ Removed' = IF type = "delete" THEN Removed \cup {h} ELSE Removed
<1> DEFINE e == [type |-> type, hook |-> h]
           last == Len(hookTrail) + 1
<1>1. e \in HookEvents /\ e.type = type /\ e.hook = h
  BY DEF HookEvents
<1>2. hookTrail' = Append(hookTrail, e)
  BY DEF Tell
<1> HIDE DEF e
<1>3. /\ \A i \in DOMAIN hookTrail : /\ i \in DOMAIN hookTrail'
                                     /\ hookTrail'[i] = hookTrail[i]
      /\ last \in DOMAIN hookTrail' /\ hookTrail'[last] = e
      /\ \A i \in DOMAIN hookTrail' : i \notin DOMAIN hookTrail => i = last
  BY <1>1, <1>2, AppendPlaces
<1>4. hookTrail' \in Seq(HookEvents)
  BY <1>1, <1>2
<1> HIDE DEF last
<1>5. Known' = Known \cup {h}
  <2>1. ASSUME NEW g \in Known' PROVE g \in Known \cup {h}
    <3>1. PICK i \in DOMAIN hookTrail' : g = hookTrail'[i].hook
      BY <2>1 DEF Known
    <3> QED BY <1>1, <1>3, <3>1 DEF Known
  <2>2. ASSUME NEW g \in Known PROVE g \in Known'
    <3>1. PICK i \in DOMAIN hookTrail : g = hookTrail[i].hook
      BY <2>2 DEF Known
    <3> QED BY <1>3, <3>1 DEF Known
  <2>3. h \in Known'
    BY <1>1, <1>3 DEF Known
  <2> QED BY <2>1, <2>2, <2>3
<1>6. Removed' = IF type = "delete" THEN Removed \cup {h} ELSE Removed
  <2>1. ASSUME NEW g \in Removed'
        PROVE  g \in Removed \/ (g = h /\ type = "delete")
    <3>1. PICK i \in DOMAIN hookTrail' :
             g = hookTrail'[i].hook /\ hookTrail'[i].type = "delete"
      BY <2>1 DEF Removed
    <3> QED BY <1>1, <1>3, <3>1 DEF Removed
  <2>2. ASSUME NEW g \in Removed PROVE g \in Removed'
    <3>1. PICK i \in DOMAIN hookTrail :
             g = hookTrail[i].hook /\ hookTrail[i].type = "delete"
      BY <2>2 DEF Removed
    <3> QED BY <1>3, <3>1 DEF Removed
  <2>3. type = "delete" => h \in Removed'
    BY <1>1, <1>3 DEF Removed
  <2> QED BY <2>1, <2>2, <2>3
<1> QED BY <1>4, <1>5, <1>6

\* The trail of the publishers only grows.
LEMMA TrailGrows ==
    ASSUME TypeOK,
           \/ trail' = trail
           \/ \E e \in [type : {"create", "update", "delete"}, id : Ids] :
                 trail' = Append(trail, e)
    PROVE  \A i \in DOMAIN trail : i \in DOMAIN trail' /\ trail'[i] = trail[i]
<1> DEFINE E == [type : {"create", "update", "delete"}, id : Ids]
<1>1. trail \in Seq(E)
  BY DEF TypeOK
<1>2. \/ trail' = trail
      \/ \E e \in E : trail' = Append(trail, e)
  OBVIOUS
<1> HIDE DEF E
<1> QED BY <1>1, <1>2, AppendPlaces

\* Steps keep the types of the webhooks' state.
LEMMA WTypeStep ==
    ASSUME PublishersAssumption, PInv, WTypeOK, HookTrail, Linked,
           [WNext]_wvars
    PROVE  WTypeOK'
<1>1. TypeOK'
  BY WNextSteps, PInvStep DEF PInv
<1>2. Len(trail) \in Nat /\ hookTrail \in Seq(HookEvents)
  BY DEF WTypeOK, TypeOK, HookEvents
<1> SUFFICES /\ hooks' \in SUBSET Hooks
             /\ hookTrail' \in Seq(HookEvents)
             /\ told' \in SUBSET DOMAIN trail'
             /\ posts' \in SUBSET ((DOMAIN trail') \X Hooks)
             /\ since' \in [Requests -> Nat \cup {None}]
             /\ until' \in [Requests -> Nat \cup {None}]
  BY <1>1 DEF WTypeOK, HookEvents
<1>3. ASSUME NEW r \in Requests, NEW h \in Hooks, Makes(r, h)
      PROVE  /\ hooks' \in SUBSET Hooks /\ hookTrail' \in Seq(HookEvents)
             /\ UNCHANGED <<trail, told, posts, until>>
             /\ since' \in [Requests -> Nat \cup {None}]
  BY <1>2, <1>3, Told DEF Makes, WTypeOK
<1>4. ASSUME NEW h \in Known, Removes(h)
      PROVE  /\ hooks' \in SUBSET Hooks /\ hookTrail' \in Seq(HookEvents)
             /\ UNCHANGED <<trail, told, posts, since>>
             /\ until' \in [Requests -> Nat \cup {None}]
  <2>1. h \in Hooks
    BY <1>4 DEF Removes, WTypeOK
  <2> QED BY <1>2, <1>4, <2>1, Told DEF Removes, WTypeOK
<1>5. ASSUME NEW i \in DOMAIN trail, Dispatch(i)
      PROVE  /\ UNCHANGED <<trail, hooks, hookTrail, since, until>>
             /\ told' \in SUBSET DOMAIN trail
             /\ posts' \in SUBSET ((DOMAIN trail) \X Hooks)
  <2>1. {<<i, h>> : h \in {x \in hooks : For(x, trail[i])}}
           \subseteq (DOMAIN trail) \X Hooks
    BY DEF WTypeOK
  <2> QED BY <1>5, <2>1 DEF Dispatch, WTypeOK, vars
<1>6. ASSUME Keeps
      PROVE  /\ UNCHANGED hookvars
             /\ told' \in SUBSET DOMAIN trail'
             /\ posts' \in SUBSET ((DOMAIN trail') \X Hooks)
  <2>1. \A i \in DOMAIN trail : i \in DOMAIN trail'
    BY <1>6, TrailGrows DEF Keeps, PInv
  <2> QED BY <1>6, <2>1 DEF Keeps, hookvars, WTypeOK
<1> QED BY <1>2, <1>3, <1>4, <1>5, <1>6, HookSteps DEF WTypeOK, hookvars

\* Steps keep the trail of a webhook that of its life.
LEMMA HookTrailStep ==
    ASSUME PublishersAssumption, PInv, WTypeOK, HookTrail, Linked,
           [WNext]_wvars
    PROVE  HookTrail'
<1>1. /\ hookTrail \in Seq(HookEvents)
      /\ hooks \subseteq Hooks
      /\ hooks = Known \ Removed
  BY DEF WTypeOK, HookEvents, HookTrail, Removed
<1>2. ASSUME NEW type \in {"create", "delete"}, NEW h \in Hooks, Tell(type, h),
             \/ type = "create" /\ h \notin Known /\ hooks' = hooks \cup {h}
             \/ type = "delete" /\ h \in hooks /\ hooks' = hooks \ {h}
      PROVE  HookTrail'
  <2> DEFINE e == [type |-> type, hook |-> h]
             last == Len(hookTrail) + 1
  <2>1. e \in HookEvents /\ e.type = type /\ e.hook = h
    BY DEF HookEvents
  <2>2. hookTrail' = Append(hookTrail, e)
    BY <1>2 DEF Tell
  <2> HIDE DEF e
  <2>3. /\ \A i \in DOMAIN hookTrail : /\ i \in Nat
                                       /\ hookTrail'[i] = hookTrail[i]
                                       /\ hookTrail[i] \in HookEvents
                                       /\ i < last
        /\ hookTrail'[last] = e /\ last \in Nat
        /\ \A i \in DOMAIN hookTrail' : i \notin DOMAIN hookTrail => i = last
    BY <1>1, <2>1, <2>2, AppendPlaces
  <2> HIDE DEF last
  <2>4. Removed \subseteq Known
    BY DEF Removed, Known
  <2>5. hooks' = Known' \ Removed'
    BY <1>1, <1>2, <2>4, Told
  <2>6. ASSUME NEW i \in DOMAIN hookTrail', NEW j \in DOMAIN hookTrail',
               i < j, hookTrail'[i].hook = hookTrail'[j].hook
        PROVE  hookTrail'[i].type = "create" /\ hookTrail'[j].type = "delete"
    <3>1. i \in DOMAIN hookTrail
      BY <2>3, <2>6
    <3>2. CASE j \in DOMAIN hookTrail
      BY <2>3, <2>6, <3>1, <3>2 DEF HookTrail
    <3>3. CASE j \notin DOMAIN hookTrail
      <4>1. hookTrail'[j] = e /\ hookTrail[i].hook = h
        BY <2>1, <2>3, <2>6, <3>1, <3>3
      <4>2. h \in Known
        BY <3>1, <4>1 DEF Known
      <4>3. type = "delete" /\ h \in hooks
        BY <1>2, <4>2
      <4>4. hookTrail[i].type # "delete"
        BY <1>1, <3>1, <4>1, <4>3 DEF Removed
      <4>5. hookTrail[i].type = "create"
        BY <2>3, <3>1, <4>4 DEF HookEvents
      <4> QED BY <2>1, <2>3, <3>1, <4>1, <4>3, <4>5
    <3> QED BY <3>2, <3>3
  <2> QED BY <2>5, <2>6 DEF HookTrail, Removed
<1>3. ASSUME NEW r \in Requests, NEW h \in Hooks, Makes(r, h)
      PROVE  HookTrail'
  <2>1. h \notin Known
    BY <1>3 DEF Makes, Linked
  <2> QED BY <1>2, <1>3, <2>1 DEF Makes
<1>4. ASSUME NEW h \in Known, Removes(h) PROVE HookTrail'
  BY <1>1, <1>2, <1>4 DEF Removes
<1>5. CASE UNCHANGED <<hooks, hookTrail>>
  BY <1>5 DEF HookTrail, Known
<1> QED BY <1>3, <1>4, <1>5, HookSteps DEF Dispatch, Keeps, hookvars

\* The webhooks of the trail are webhooks of requests.
LEMMA KnownHooks ==
    ASSUME hookTrail \in Seq(HookEvents)
    PROVE  \A h \in Known : h \in Hooks /\ h.by \in Requests
<1>1. \A i \in DOMAIN hookTrail : hookTrail[i] \in HookEvents
  OBVIOUS
<1>2. \A e \in HookEvents : e.hook \in Hooks
  BY DEF HookEvents
<1>3. \A h \in Hooks : h.by \in Requests
  BY DEF Hooks
<1> QED BY <1>1, <1>2, <1>3 DEF Known

\* Steps keep a request's webhook its only one and until in line with it.
LEMMA LinkedStep ==
    ASSUME PublishersAssumption, WebhooksAssumption, PInv, WTypeOK, HookTrail,
           Linked, [WNext]_wvars
    PROVE  Linked'
<1>1. /\ hookTrail \in Seq(HookEvents)
      /\ Len(trail) # None
      /\ until \in [Requests -> Nat \cup {None}]
      /\ pc \in [Requests ->
            {"idle", "hosting", "save", "row", "insert", "hook", "done"}]
  BY DEF WTypeOK, TypeOK, HookEvents, WebhooksAssumption
<1>2. \A h \in Known : h \in Hooks /\ h.by \in Requests
  BY <1>1, KnownHooks
<1>3. ASSUME NEW r \in Requests, NEW h \in Hooks, Makes(r, h)
      PROVE  Linked'
  <2>1. Known' = Known \cup {h}
    BY <1>1, <1>3, Told DEF Makes
  <2>2. until[r] = None /\ \A g \in Known : g.by # r
    BY <1>3 DEF Makes, Linked
  <2>3. /\ pc'[r] = "done"
        /\ \A q \in Requests \ {r} : pc'[q] = pc[q]
        /\ until' = until /\ h.by = r /\ hooks' = hooks \cup {h}
    BY <1>1, <1>3 DEF Makes
  <2> QED BY <1>2, <2>1, <2>2, <2>3 DEF Linked
<1>4. ASSUME NEW h \in Known, Removes(h) PROVE Linked'
  <2>1. Known' = Known \cup {h}
    BY <1>1, <1>2, <1>4, Told DEF Removes
  <2>2. /\ until'[h.by] # None
        /\ \A q \in Requests \ {h.by} : until'[q] = until[q]
        /\ hooks' = hooks \ {h}
        /\ \A q \in Requests : pc[q] = "done" => pc'[q] = "done"
    BY <1>1, <1>2, <1>4 DEF Removes
  <2> QED BY <1>2, <2>1, <2>2 DEF Linked
<1>5. CASE /\ UNCHANGED <<hooks, hookTrail, until>>
           /\ \A q \in Requests : pc[q] = "done" => pc'[q] = "done"
  <2>1. Known' = Known
    BY <1>5 DEF Known
  <2> QED BY <1>2, <1>5, <2>1 DEF Linked
<1> QED BY <1>3, <1>4, <1>5, HookSteps DEF Dispatch, Keeps, hookvars, vars

\* What is posted, and to whom.
LEMMA SubscribedStep ==
    ASSUME PublishersAssumption, WebhooksAssumption, PInv, WTypeOK, HookTrail,
           Linked, Posted, Subscribed, [WNext]_wvars
    PROVE  Posted' /\ Subscribed'
<1>1. /\ hookTrail \in Seq(HookEvents)
      /\ since \in [Requests -> Nat \cup {None}]
      /\ until \in [Requests -> Nat \cup {None}]
      /\ told \subseteq DOMAIN trail
      /\ Len(trail) \in Nat /\ Len(trail) # None
      /\ DOMAIN trail = 1..Len(trail)
  BY DEF WTypeOK, TypeOK, HookEvents, WebhooksAssumption
<1>2. \A h \in Known : h \in Hooks /\ h.by \in Requests
  BY <1>1, KnownHooks
<1>3. \A i, h : <<i, h>> \in posts => i \in told /\ h \in Known
  BY DEF Posted
<1>4. hooks \subseteq Known
  BY DEF HookTrail
<1>5. ASSUME NEW r \in Requests, NEW h \in Hooks, Makes(r, h)
      PROVE  Posted' /\ Subscribed'
  <2>1. Known' = Known \cup {h}
    BY <1>1, <1>5, Told DEF Makes
  <2>2. \A g \in Known : g.by # r
    BY <1>5 DEF Makes, Linked
  <2>3. /\ since'[r] = Len(trail) /\ h.by = r
        /\ \A q \in Requests \ {r} : since'[q] = since[q]
        /\ UNCHANGED <<trail, told, posts, until>>
    BY <1>1, <1>5 DEF Makes
  <2>4. \A i \in DOMAIN trail : ~ (since'[r] < i)
    BY <1>1, <2>3
  <2>5. \A i : <<i, h>> \notin posts
    BY <1>3, <2>2, <2>3
  <2>6. Posted'
    BY <2>1, <2>3 DEF Posted
  <2>7. Subscribed'
    <3> SUFFICES ASSUME NEW g \in Known \cup {h}, NEW i \in DOMAIN trail
                 PROVE  /\ i \in told /\ For(g, trail[i]) /\ since'[g.by] < i
                              /\ until[g.by] = None => <<i, g>> \in posts
                        /\ <<i, g>> \in posts /\ until[g.by] # None =>
                              i <= until[g.by]
      BY <2>1, <2>3 DEF Subscribed, For
    <3>1. CASE g = h
      BY <2>3, <2>4, <2>5, <3>1
    <3>2. CASE g \in Known
      BY <1>2, <2>2, <2>3, <3>2 DEF Subscribed
    <3> QED BY <3>1, <3>2
  <2> QED BY <2>6, <2>7
<1>6. ASSUME NEW h \in Known, Removes(h)
      PROVE  Posted' /\ Subscribed'
  <2>1. Known' = Known
    <3>1. Known' = Known \cup {h}
      BY <1>1, <1>2, <1>6, Told DEF Removes
    <3> QED BY <1>6, <3>1
  <2>2. /\ until'[h.by] = Len(trail)
        /\ \A g \in Known \ {h} : until'[g.by] = until[g.by]
        /\ UNCHANGED <<trail, told, posts, since>>
    BY <1>1, <1>2, <1>6 DEF Removes, Linked
  <2>3. \A i \in DOMAIN trail : i <= until'[h.by]
    BY <1>1, <2>2
  <2> QED BY <1>1, <2>1, <2>2, <2>3 DEF Posted, Subscribed
<1>7. ASSUME NEW i \in DOMAIN trail, Dispatch(i)
      PROVE  Posted' /\ Subscribed'
  <2>1. Known' = Known
    BY <1>7 DEF Dispatch, Known
  <2>2. /\ told' = told \cup {i}
        /\ UNCHANGED <<trail, since, until>>
        /\ \A j, h : <<j, h>> \in posts' <=>
              \/ <<j, h>> \in posts
              \/ j = i /\ h \in hooks /\ For(h, trail[i])
    BY <1>7 DEF Dispatch, vars
  <2>3. posts' \subseteq told' \X Known
    BY <1>4, <1>7, <2>2 DEF Posted, Dispatch
  <2>4. \A h \in Known : h \in hooks <=> until[h.by] = None
    BY DEF Linked
  <2>5. Subscribed'
    <3> SUFFICES ASSUME NEW h \in Known, NEW j \in DOMAIN trail
                 PROVE  /\ j \in told' /\ For(h, trail[j]) /\ since[h.by] < j
                              /\ until[h.by] = None => <<j, h>> \in posts'
                        /\ <<j, h>> \in posts' /\ until[h.by] # None =>
                              j <= until[h.by]
      BY <2>1, <2>2 DEF Subscribed, For
    <3>1. /\ j \in told /\ For(h, trail[j]) /\ since[h.by] < j
                /\ until[h.by] = None => <<j, h>> \in posts
          /\ <<j, h>> \in posts /\ until[h.by] # None => j <= until[h.by]
      BY DEF Subscribed
    <3> QED BY <2>2, <2>4, <3>1
  <2> QED BY <2>1, <2>3, <2>5 DEF Posted
<1>8. CASE Keeps
  <2>1. \A i \in DOMAIN trail : i \in DOMAIN trail' /\ trail'[i] = trail[i]
    BY <1>8, TrailGrows DEF Keeps, PInv
  <2>2. Known' = Known /\ UNCHANGED hookvars
    BY <1>8 DEF Keeps, Known, hookvars
  <2>3. \A i \in DOMAIN trail' : \A h \in Known :
           i \in told \/ <<i, h>> \in posts =>
              i \in DOMAIN trail /\ trail'[i] = trail[i]
    BY <1>1, <1>3, <2>1
  <2>4. Subscribed'
    <3> SUFFICES ASSUME NEW h \in Known, NEW j \in DOMAIN trail'
                 PROVE  /\ j \in told /\ For(h, trail'[j]) /\ since[h.by] < j
                              /\ until[h.by] = None => <<j, h>> \in posts
                        /\ <<j, h>> \in posts /\ until[h.by] # None =>
                              j <= until[h.by]
      BY <2>2 DEF Subscribed, For, hookvars
    <3> QED BY <2>3 DEF Subscribed
  <2> QED BY <2>2, <2>4 DEF Posted, hookvars
<1> QED BY <1>5, <1>6, <1>7, <1>8, HookSteps

\* The invariant with webhooks holds at the start.
LEMMA WInvStart ==
    ASSUME PublishersAssumption, WInit PROVE WInv
<1>1. PInv
  BY PInvStart DEF WInit
<1>2. /\ hooks = {} /\ hookTrail = <<>> /\ told = {} /\ posts = {}
      /\ since = [r \in Requests |-> None]
      /\ until = [r \in Requests |-> None]
  BY DEF WInit
<1>3. Known = {}
  BY <1>2 DEF Known
<1>4. WTypeOK
  BY <1>1, <1>2 DEF WTypeOK, PInv
<1>5. HookTrail /\ Linked /\ Posted /\ Subscribed
  BY <1>2, <1>3 DEF HookTrail, Linked, Posted, Subscribed
<1> QED BY <1>1, <1>4, <1>5 DEF WInv

\* The invariant with webhooks is inductive.
LEMMA WInvStep ==
    ASSUME PublishersAssumption, WebhooksAssumption, WInv, [WNext]_wvars
    PROVE  WInv'
<1>1. PInv'
  BY WNextSteps, PInvStep DEF WInv
<1> QED BY <1>1, WTypeStep, HookTrailStep, LinkedStep, SubscribedStep DEF WInv

\* The invariant with webhooks holds in every state.
LEMMA WInvInvariant == WSpec => []WInv
<1>1. WInit => WInv
  BY PublishersAssumption, WInvStart
<1>2. WInv /\ [WNext]_wvars => WInv'
  BY PublishersAssumption, WebhooksAssumption, WInvStep
<1> QED BY <1>1, <1>2, PTL DEF WSpec

-----------------------------------------------------------------------------
(* The results: every property of the run MCWebhooks. *)

\* The columns of publishers, hosts, logs, trails, requests and webhooks have
\* the types publishers.go, webhooks.go and the models give them.
THEOREM WTypeCorrect == WSpec => []WTypeOK
<1>1. WInv => WTypeOK
  BY DEF WInv
<1> QED BY <1>1, WInvInvariant, PTL

\* DeletePublisher: of the requests that find the same publisher exactly one
\* deletes it and records it, whatever the others do; it is created once.
THEOREM OneDeleteCorrect == WSpec => []OneDelete
<1>1. WInv => OneDelete
  BY OneDeleteHolds DEF WInv, PInv
<1> QED BY <1>1, WInvInvariant, PTL

\* checkAlternativeIDConflict and the unique index together, under any
\* interleaving and with what a PATCH writes back unchecked: no name a path
\* can hold matches two publishers.
THEOREM OneNameCorrect == WSpec => []OneName
<1>1. WInv => OneName
  BY PublishersAssumption, OneNameHolds DEF WInv, PInv
<1> QED BY <1>1, WInvInvariant, PTL

\* DeletePublisher and the foreign key: no row of code hosting is left without
\* its publisher, also where a PATCH commits after the DELETE.
THEOREM NoHostLeftBehindCorrect == WSpec => []NoHostLeftBehind
<1>1. WInv => NoHostLeftBehind
  BY DEF WInv, PInv
<1> QED BY <1>1, WInvInvariant, PTL

\* The handlers one at a time, in any order: nothing is recorded of a
\* publisher after its deletion, and no log of it is left.
THEOREM SerialDeleteCorrect == WSpec => []SerialDelete
<1>1. WInv => SerialDelete
  BY DEF WInv, PInv
<1> QED BY <1>1, WInvInvariant, PTL

\* syncCodeHosting, when requests take turns: a PATCH leaves the URLs it asked
\* for and no other.
THEOREM UrlsInSyncCorrect == WSpec => UrlsInSync
<1>1. WInv /\ [WNext]_wvars =>
         [\A r \in Requests :
             serial /\ pc[r] = "save" /\ reply'[r] = "ok" =>
                {x.url : x \in Of(local[r].id)'}
                   = {w[1] : w \in local'[r].want}]_vars
  BY PublishersAssumption, WNextSteps, InSyncStep DEF WInv
<1> QED BY <1>1, WInvInvariant, PTL DEF WSpec, UrlsInSync

\* DispatchWebhooks: a webhook that was there when an event was committed and
\* still is gets the POST when the event is dispatched, that of the deletion
\* of its publisher included; a deleted one gets nothing committed later.
THEOREM SubscribedCorrect == WSpec => []Subscribed
<1>1. WInv => Subscribed
  BY DEF WInv
<1> QED BY <1>1, WInvInvariant, PTL

\* The POSTs of webhooks and DeleteWebhook: each webhook is created and then
\* deleted at most once in the audit trail, and the rows are those the trail
\* says there are.
THEOREM HookTrailCorrect == WSpec => []HookTrail
<1>1. WInv => HookTrail
  BY DEF WInv
<1> QED BY <1>1, WInvInvariant, PTL
=============================================================================
