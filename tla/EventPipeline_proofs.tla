------------------------- MODULE EventPipeline_proofs -------------------------
(***************************************************************************)
(* Where an event can be on its way to the subscribers, for every number   *)
(* of requests, keys, subscribers and events, every buffer and every       *)
(* number of crashes.                                                      *)
(***************************************************************************)
EXTENDS EventPipeline, TLAPS

\* The debouncer of the pipeline, with what is proved of Coalescer.
CP == INSTANCE Coalescer_proofs

\* What a sequence holds, and that it holds nothing twice.
Elems(s) == {s[i] : i \in DOMAIN s}
Distinct(s) == \A i, j \in DOMAIN s : s[i] = s[j] => i = j

-----------------------------------------------------------------------------
(* The inductive invariant. *)

\* Only a request in its transaction or after the commit has events.
Idle == \A r \in Requests :
           phase[r] \in {"idle", "done", "failed"} => recorded[r] = <<>>

\* Events are numbered in the order they are recorded.
Numbered == /\ \A r \in Requests : \A e \in Recorded(r) : e.id < nextId
            /\ \A e \in rows : e.id < nextId

\* A row is there before its event is handed over, and not before the commit.
Committed ==
    /\ NoPhantom
    /\ missed \subseteq rows
    /\ \A r \in Requests :
          /\ phase[r] = "open" => Recorded(r) \cap rows = {}
          /\ phase[r] = "sending" => Recorded(r) \subseteq rows

\* What a request still has is nowhere else.
Apart ==
    /\ \A r \in Requests :
          /\ Distinct(recorded[r])
          /\ \A e \in Recorded(r) :
                /\ e \notin InChan \cup {worker} \cup Submitted \cup missed
                /\ \A q \in Requests \ {r} : e \notin Recorded(q)
    /\ Distinct(chan)
    /\ \A e \in InChan : e \notin Submitted
    /\ worker \notin InChan \cup Submitted
    /\ \A e \in missed : e \notin InChan \cup {worker} \cup Submitted

\* Every committed event is somewhere.
Accounted == rows \subseteq Unsent \cup missed \cup InChan \cup {worker}
                           \cup Submitted

\* A Drain that met nothing on the way to the debouncer has all that was held,
\* and nothing comes after it.
Quiet ==
    /\ draining \subseteq taken
    /\ proc = "exited" => draining = {}
    /\ quiet => /\ proc \in {"draining", "exited", "crashed"}
                /\ \A r \in Requests : phase[r] \in {"done", "failed"}
                /\ chan = <<>>
                /\ worker = None
                /\ \A k \in Keys : held[k] = None
                /\ taken = draining

Legs == Idle /\ Numbered /\ Committed /\ Apart /\ Accounted

IInv == TypeOK /\ CP!Inv /\ Legs /\ Quiet

-----------------------------------------------------------------------------
(* Sequences as what they hold. *)

\* The empty sequence holds nothing.
LEMMA ElemsEmpty == Elems(<<>>) = {} /\ Distinct(<<>>)
BY DEF Elems, Distinct

\* What a sequence holds with one more at its end.
LEMMA ElemsAppend ==
    ASSUME NEW S, NEW s \in Seq(S), NEW x \in S
    PROVE  /\ Elems(Append(s, x)) = Elems(s) \cup {x}
           /\ Distinct(s) /\ x \notin Elems(s) => Distinct(Append(s, x))
<1> DEFINE n == Len(s)
<1>1. /\ n \in Nat
      /\ DOMAIN s = 1..n /\ DOMAIN Append(s, x) = 1..(n + 1)
      /\ \A i \in 1..n : Append(s, x)[i] = s[i]
      /\ Append(s, x)[n + 1] = x
  OBVIOUS
<1>2. Elems(Append(s, x)) = Elems(s) \cup {x}
  BY <1>1 DEF Elems
<1>3. ASSUME Distinct(s), x \notin Elems(s) PROVE Distinct(Append(s, x))
  BY <1>1, <1>3 DEF Elems, Distinct
<1> QED BY <1>2, <1>3

\* What a sequence holds without its first.
LEMMA ElemsTail ==
    ASSUME NEW S, NEW s \in Seq(S), s # <<>>
    PROVE  /\ Head(s) \in S /\ Tail(s) \in Seq(S)
           /\ Elems(s) = {Head(s)} \cup Elems(Tail(s))
           /\ Distinct(s) => Distinct(Tail(s)) /\ Head(s) \notin Elems(Tail(s))
<1> DEFINE n == Len(s)
<1>1. /\ n \in Nat \ {0}
      /\ DOMAIN s = 1..n /\ DOMAIN Tail(s) = 1..(n - 1)
      /\ Head(s) = s[1]
      /\ \A i \in 1..(n - 1) : Tail(s)[i] = s[i + 1]
      /\ Head(s) \in S /\ Tail(s) \in Seq(S)
  OBVIOUS
<1>2. \A i \in 1..n : i = 1 \/ (i - 1 \in 1..(n - 1) /\ s[i] = Tail(s)[i - 1])
  BY <1>1
<1>3. \A i \in 1..(n - 1) : i + 1 \in 1..n /\ i + 1 # 1
  BY <1>1
<1>4. Elems(s) = {Head(s)} \cup Elems(Tail(s))
  <2>1. ASSUME NEW x \in Elems(s) PROVE x \in {Head(s)} \cup Elems(Tail(s))
    <3>1. PICK i \in 1..n : x = s[i]
      BY <1>1 DEF Elems
    <3>2. CASE i = 1
      BY <1>1, <3>1, <3>2
    <3>3. CASE i - 1 \in 1..(n - 1) /\ s[i] = Tail(s)[i - 1]
      BY <1>1, <3>1, <3>3 DEF Elems
    <3> QED BY <1>2, <3>2, <3>3
  <2>2. ASSUME NEW x \in Elems(Tail(s)) PROVE x \in Elems(s)
    BY <1>1, <1>3 DEF Elems
  <2>3. Head(s) \in Elems(s)
    BY <1>1 DEF Elems
  <2> QED BY <2>1, <2>2, <2>3
<1>5. ASSUME Distinct(s)
      PROVE  Distinct(Tail(s)) /\ Head(s) \notin Elems(Tail(s))
  <2>1. Distinct(Tail(s))
    BY <1>1, <1>3, <1>5 DEF Distinct
  <2>2. Head(s) \notin Elems(Tail(s))
    BY <1>1, <1>3, <1>5 DEF Distinct, Elems
  <2> QED BY <2>1, <2>2
<1> QED BY <1>1, <1>4, <1>5

\* The places of the pipeline in these terms.
LEMMA Places ==
    /\ \A r \in Requests : Recorded(r) = Elems(recorded[r])
    /\ InChan = Elems(chan)
    /\ Submitted = Elems(submitted)
    /\ \A e : C!Occurs(e, submitted) <=> e \in Submitted
    /\ \A e : CP!Occurs(e, submitted) <=> e \in Submitted
BY DEF Recorded, Elems, InChan, Submitted, C!Occurs, CP!Occurs

-----------------------------------------------------------------------------
(* Types, and the debouncer. *)

\* The events of the pipeline are those of its debouncer.
LEMMA SameTypes == Events = C!Events /\ Events = CP!Events
BY DEF Events, C!Events, CP!Events

\* The start of a process is well typed.
LEMMA StartTypes ==
    ASSUME NEW state \in {"up", "closed", "draining", "exited", "crashed"},
           NEW n \in 0..MaxRestarts, Start(state, n)
    PROVE  TypeOK
<1> USE DEF Start
<1>1. <<>> \in Seq(Events) /\ Len(<<>>) = 0
  OBVIOUS
<1>2. C!TypeOK
  BY <1>1, SameTypes DEF C!Init, C!TypeOK
<1>3. /\ recorded \in [Requests -> Seq(Events)]
      /\ chan \in Seq(Events) /\ Len(chan) <= Buffer
  BY <1>1, PipelineAssumption
<1>4. /\ nextId \in 1..(MaxEvents + 1)
      /\ restarts \in 0..MaxRestarts
  BY PipelineAssumption
<1> QED BY <1>2, <1>3, <1>4 DEF TypeOK, Phases

\* Steps keep the types of all state.
LEMMA TypeStep ==
    ASSUME TypeOK, [Next]_vars PROVE TypeOK'
<1> USE PipelineAssumption, SameTypes DEF TypeOK, C!TypeOK
<1>1. ASSUME NEW r \in Requests, Begin(r) PROVE TypeOK'
  BY <1>1 DEF Begin, coalescer, Phases
<1>2. ASSUME NEW r \in Requests, NEW k \in Keys, Emit(r, k) PROVE TypeOK'
  <2>1. [id |-> nextId, key |-> k] \in Events
    BY <1>2 DEF Emit, Events
  <2>2. Append(recorded[r], [id |-> nextId, key |-> k]) \in Seq(Events)
    BY <2>1
  <2> QED BY <1>2, <2>2 DEF Emit, coalescer
<1>3. ASSUME NEW r \in Requests, Commit(r) PROVE TypeOK'
  <2>1. Recorded(r) \subseteq Events
    BY DEF Recorded
  <2> QED BY <1>3, <2>1 DEF Commit, coalescer, Phases
<1>4. ASSUME NEW r \in Requests, Rollback(r) PROVE TypeOK'
  BY <1>4 DEF Rollback, coalescer, Phases
<1>5. ASSUME NEW r \in Requests, Send(r) PROVE TypeOK'
  <2>1. /\ Head(recorded[r]) \in Events
        /\ Tail(recorded[r]) \in Seq(Events)
    BY <1>5, ElemsTail DEF Send
  <2>2. recorded' \in [Requests -> Seq(Events)]
    BY <1>5, <2>1 DEF Send
  <2>3. chan' \in Seq(Events) /\ Len(chan') <= Buffer
    <3>1. CASE Room /\ chan' = Append(chan, Head(recorded[r]))
      <4>1. /\ chan' \in Seq(Events) /\ Len(chan') = Len(chan) + 1
        BY <2>1, <3>1
      <4> QED BY <3>1, <4>1 DEF Room
    <3>2. CASE UNCHANGED chan
      BY <3>2
    <3> QED BY <1>5, <3>1, <3>2 DEF Send
  <2> QED BY <1>5, <2>1, <2>2, <2>3 DEF Send, coalescer
<1>6. ASSUME NEW r \in Requests, Finish(r) PROVE TypeOK'
  BY <1>6 DEF Finish, coalescer, Phases
<1>7. CASE Receive
  <2>1. /\ Head(chan) \in Events
        /\ Tail(chan) \in Seq(Events) /\ Len(Tail(chan)) <= Buffer
    BY <1>7 DEF Receive
  <2> QED BY <1>7, <2>1 DEF Receive, coalescer
<1>8. CASE WorkerSubmit
  <2>1. worker \in Events /\ worker.key \in Keys
    BY <1>8 DEF WorkerSubmit, Events
  <2>2. posts' \in SUBSET (Events \X Subscribers)
    BY <1>8, <2>1 DEF WorkerSubmit, Post
  <2>3. CASE debounced /\ C!Submit(worker)
    BY <1>8, <2>1, <2>2, <2>3 DEF WorkerSubmit, C!Submit
  <2>4. CASE C!SubmitThrough(worker)
    BY <1>8, <2>1, <2>2, <2>4 DEF WorkerSubmit, C!SubmitThrough
  <2> QED BY <1>8, <2>3, <2>4 DEF WorkerSubmit
<1>9. ASSUME NEW k \in Keys, Flush(k) PROVE TypeOK'
  BY <1>9 DEF Flush, C!Take
<1>10. ASSUME NEW e \in taken, Dispatch(e) PROVE TypeOK'
  BY <1>10 DEF Dispatch, C!Dispatch, Post
<1>11. ASSUME NEW p \in posts, PostEnds(p) PROVE TypeOK'
  BY <1>11 DEF PostEnds, coalescer
<1>12. CASE Shutdown
  BY <1>12 DEF Shutdown, coalescer
<1>13. CASE Drain
  BY <1>13 DEF Drain, C!Take, NothingUnderWay
<1>14. ASSUME NEW e \in draining, DrainDispatch(e) PROVE TypeOK'
  BY <1>14 DEF DrainDispatch, C!Dispatch, Post
<1>15. CASE Exit
  BY <1>15 DEF Exit, coalescer
<1>16. CASE Crash
  BY <1>16 DEF Crash, coalescer
<1>17. CASE Restart
  <2>1. phase' \in [Requests -> Phases]
    BY <1>17 DEF Restart, Phases
  <2>2. <<>> \in Seq(Events) /\ Len(<<>>) = 0
    OBVIOUS
  <2>3. /\ recorded' \in [Requests -> Seq(Events)]
        /\ chan' \in Seq(Events) /\ Len(chan') <= Buffer
        /\ C!TypeOK'
    BY <1>17, <2>2 DEF Restart
  <2>4. restarts' \in 0..MaxRestarts
    BY <1>17 DEF Restart
  <2> QED BY <1>17, <2>1, <2>3, <2>4 DEF Restart
<1>18. CASE UNCHANGED vars
  BY <1>18 DEF vars, coalescer
<1> QED BY <1>1, <1>2, <1>3, <1>4, <1>5, <1>6, <1>7, <1>8, <1>9, <1>10, <1>11,
           <1>12, <1>13, <1>14, <1>15, <1>16, <1>17, <1>18
        DEF Next, Handler

\* Every state of the event path is well typed: in particular EventChan never
\* holds more than its buffer.
THEOREM TypeCorrect == Spec => []TypeOK
<1>1. Init => TypeOK
  BY StartTypes, PipelineAssumption DEF Init
<1>2. TypeOK /\ [Next]_vars => TypeOK'
  BY TypeStep
<1> QED BY <1>1, <1>2, PTL DEF Spec

\* What the pipeline does to the debouncer is a step of Coalescer, except that
\* a new process has a new one.
LEMMA DebouncerMoves ==
    ASSUME TypeOK, [Next]_vars, ~ Restart
    PROVE  [CP!Next]_(CP!vars)
<1> USE SameTypes DEF TypeOK, C!TypeOK
<1>1. ASSUME NEW r \in Requests,
             Begin(r) \/ Commit(r) \/ Rollback(r) \/ Send(r) \/ Finish(r)
      PROVE  UNCHANGED coalescer
  BY <1>1 DEF Begin, Commit, Rollback, Send, Finish
<1>2. ASSUME NEW r \in Requests, NEW k \in Keys, Emit(r, k)
      PROVE  UNCHANGED coalescer
  BY <1>2 DEF Emit
<1>3. ASSUME Receive \/ Shutdown \/ Exit \/ Crash \/ UNCHANGED vars
      PROVE  UNCHANGED coalescer
  BY <1>3 DEF Receive, Shutdown, Exit, Crash, vars
<1>4. ASSUME NEW p \in posts, PostEnds(p) PROVE UNCHANGED coalescer
  BY <1>4 DEF PostEnds
<1>5. CASE WorkerSubmit
  <2>1. worker \in CP!Events
    BY <1>5 DEF WorkerSubmit
  <2>2. CP!Submit(worker) \/ CP!SubmitThrough(worker)
    BY <1>5 DEF WorkerSubmit, C!Submit, C!SubmitThrough, CP!Submit,
       CP!SubmitThrough, C!Occurs, CP!Occurs
  <2> QED BY <2>1, <2>2 DEF CP!Next
<1>6. ASSUME NEW ks \in SUBSET Keys, C!Take(ks) PROVE CP!Next
  BY <1>6 DEF C!Take, CP!Take, CP!Next
<1>7. ASSUME NEW k \in Keys, Flush(k) PROVE CP!Next
  BY <1>6, <1>7 DEF Flush
<1>8. ASSUME Drain PROVE CP!Next
  BY <1>6, <1>8 DEF Drain
<1>9. ASSUME NEW e \in Events, C!Dispatch(e) PROVE CP!Next
  BY <1>9 DEF C!Dispatch, CP!Dispatch, CP!Next
<1>10. ASSUME NEW e \in taken, Dispatch(e) PROVE CP!Next
  BY <1>9, <1>10 DEF Dispatch
<1>11. ASSUME NEW e \in draining, DrainDispatch(e) PROVE CP!Next
  BY <1>9, <1>11 DEF DrainDispatch
<1>12. UNCHANGED coalescer => UNCHANGED CP!vars
  BY DEF coalescer, CP!vars
<1> QED BY <1>1, <1>2, <1>3, <1>4, <1>5, <1>7, <1>8, <1>10, <1>11, <1>12
        DEF Next, Handler

\* A new process has a debouncer at its start.
LEMMA DebouncerInit ==
    ASSUME C!Init PROVE CP!Inv
<1>1. CP!CoalescerAssumption
  BY PipelineAssumption, SameTypes DEF CP!CoalescerAssumption
<1>2. CP!Init
  BY DEF C!Init, CP!Init
<1> QED BY <1>1, <1>2, CP!InvInit

\* What is proved of Coalescer holds of the pipeline's debouncer.
LEMMA DebouncerStep ==
    ASSUME TypeOK, CP!Inv, [Next]_vars PROVE CP!Inv'
<1>1. CP!CoalescerAssumption
  BY PipelineAssumption, SameTypes DEF CP!CoalescerAssumption
<1>2. CASE ~ Restart
  BY <1>1, <1>2, DebouncerMoves, CP!InvStep
<1>3. CASE Restart
  <2>1. /\ submitted' = <<>> /\ dispatched' = <<>> /\ taken' = {}
        /\ held' = [k \in Keys |-> None]
    BY <1>3 DEF Restart
  <2>2. CP!TypeOK' /\ CP!Known' /\ CP!Filed'
    BY <2>1 DEF CP!TypeOK, CP!Known, CP!Filed
  <2>3. CP!DispatchedOnce' /\ CP!NothingLost'
    BY <2>1 DEF CP!DispatchedOnce, CP!NothingLost, CP!Occurs
  <2> QED BY <2>2, <2>3 DEF CP!Inv
<1> QED BY <1>2, <1>3

-----------------------------------------------------------------------------
(* Where an event can be, action by action.  In each case the places are    *)
(* computed first, the rest is about sets.                                  *)

\* Nothing of what Legs is about moves.
Still == UNCHANGED <<phase, recorded, nextId, rows, chan, worker, submitted,
                     missed>>

\* Legs is about nothing but the places of events.
LEMMA LegsStill ==
    ASSUME Legs, Still,
           posts' \subseteq posts \/ \A p \in posts' : p[1] \in rows
    PROVE  Legs'
<1> USE DEF Still
<1>1. /\ \A r \in Requests : Recorded(r)' = Recorded(r)
      /\ InChan' = InChan /\ Submitted' = Submitted /\ Unsent' = Unsent
  BY DEF Recorded, InChan, Submitted, Unsent
<1>2. Idle' /\ Numbered' /\ Apart' /\ Accounted'
  BY <1>1 DEF Legs, Idle, Numbered, Apart, Accounted
<1>3. Committed'
  BY <1>1 DEF Legs, Committed, NoPhantom
<1> QED BY <1>2, <1>3 DEF Legs

\* A transaction begins with nothing recorded.
LEMMA BeginLegs ==
    ASSUME TypeOK, Legs, NEW r \in Requests, Begin(r) PROVE Legs'
<1> USE DEF Begin
<1>1. /\ \A q \in Requests : Recorded(q)' = Recorded(q)
      /\ InChan' = InChan /\ Submitted' = Submitted
      /\ Recorded(r) = {}
      /\ phase' = [phase EXCEPT ![r] = "open"]
      /\ \A q \in Requests : phase'[q] = IF q = r THEN "open" ELSE phase[q]
  BY DEF Recorded, InChan, Submitted, coalescer, Legs, Idle, TypeOK
<1>2. Unsent' = Unsent
  BY <1>1 DEF Unsent
<1>3. Idle' /\ Numbered' /\ Accounted'
  BY <1>1, <1>2 DEF Legs, Idle, Numbered, Accounted
<1>4. Committed'
  BY <1>1 DEF Legs, Committed, NoPhantom
<1>5. Apart'
  BY <1>1 DEF Legs, Apart
<1> QED BY <1>3, <1>4, <1>5 DEF Legs

\* The event recorded is a new one.
LEMMA EmitLegs ==
    ASSUME TypeOK, Legs, NEW r \in Requests, NEW k \in Keys, Emit(r, k)
    PROVE  Legs'
<1> DEFINE e == [id |-> nextId, key |-> k]
<1>0. e \in Events /\ e # None /\ nextId \in Nat /\ nextId' = nextId + 1
  BY PipelineAssumption DEF Emit, Events, TypeOK
<1>1. /\ \A q \in Requests \ {r} : recorded'[q] = recorded[q]
      /\ recorded'[r] = Append(recorded[r], e)
      /\ recorded[r] \in Seq(Events)
      /\ UNCHANGED <<phase, rows, chan, worker, submitted, posts, missed>>
      /\ phase[r] = "open"
  BY DEF Emit, TypeOK, coalescer
<1>2. /\ \A q \in Requests \ {r} : Recorded(q)' = Recorded(q)
      /\ Recorded(r)' = Recorded(r) \cup {e}
      /\ InChan' = InChan /\ Submitted' = Submitted
  BY <1>0, <1>1, ElemsAppend DEF Recorded, Elems, InChan, Submitted
<1>3. e \notin rows /\ \A q \in Requests : e \notin Recorded(q)
  BY <1>0 DEF Legs, Numbered
<1>4. e \notin InChan \cup {worker} \cup Submitted \cup missed
  BY <1>0, <1>3 DEF Legs, Committed, NoPhantom
<1>5. Distinct(recorded'[r])
  BY <1>0, <1>1, <1>3, ElemsAppend, Places DEF Legs, Apart
<1>6. Unsent' = Unsent
  BY <1>1, <1>2 DEF Unsent
<1>7. Idle' /\ Accounted'
  BY <1>1, <1>2, <1>6 DEF Legs, Idle, Accounted
<1>8. Numbered'
  <2>0. \A x \in Events : x.id \in Nat
    BY PipelineAssumption DEF Events
  <2>1. \A q \in Requests : \A x \in Recorded(q) : x.id \in Nat
    <3>1. \A q \in Requests : recorded[q] \in Seq(Events)
      BY DEF TypeOK
    <3>2. \A q \in Requests : Recorded(q) \subseteq Events
      BY <3>1 DEF Recorded
    <3> QED BY <2>0, <3>2
  <2>2. \A x \in rows : x.id \in Nat
    BY <2>0 DEF TypeOK
  <2> QED BY <1>0, <1>1, <1>2, <2>1, <2>2 DEF Legs, Numbered
<1>9. Committed'
  BY <1>1, <1>2, <1>3 DEF Legs, Committed, NoPhantom
<1>10. Apart'
  <2> HIDE DEF e
  <2>1. \A q \in Requests : Distinct(recorded'[q])
    BY <1>1, <1>5 DEF Legs, Apart
  <2>2. ASSUME NEW q \in Requests, NEW x \in Recorded(q)'
        PROVE  /\ x \notin InChan \cup {worker} \cup Submitted \cup missed
               /\ \A y \in Requests \ {q} : x \notin Recorded(y)'
    <3>1. CASE x = e
      BY <1>2, <1>3, <1>4, <2>2, <3>1
    <3>2. CASE x \in Recorded(q) /\ x # e
      BY <1>2, <3>2 DEF Legs, Apart
    <3> QED BY <1>2, <2>2, <3>1, <3>2
  <2> QED BY <1>1, <1>2, <2>1, <2>2 DEF Legs, Apart
<1> QED BY <1>7, <1>8, <1>9, <1>10 DEF Legs

\* With the commit the rows are there and their events are to be sent.
LEMMA CommitLegs ==
    ASSUME TypeOK, Legs, NEW r \in Requests, Commit(r) PROVE Legs'
<1>1. /\ \A q \in Requests : Recorded(q)' = Recorded(q)
      /\ InChan' = InChan /\ Submitted' = Submitted
      /\ phase[r] = "open"
      /\ \A q \in Requests : phase'[q] = IF q = r THEN "sending" ELSE phase[q]
      /\ rows' = rows \cup Recorded(r)
      /\ UNCHANGED <<recorded, nextId, chan, worker, submitted, posts, missed>>
  BY DEF Commit, Recorded, InChan, Submitted, coalescer, TypeOK
<1>2. Unsent' = Unsent \cup Recorded(r)
  BY <1>1 DEF Unsent
<1>3. Idle' /\ Numbered' /\ Accounted'
  BY <1>1, <1>2 DEF Legs, Idle, Numbered, Accounted
<1>4. Committed'
  BY <1>1 DEF Legs, Committed, NoPhantom, Apart
<1>5. Apart'
  BY <1>1 DEF Legs, Apart
<1> QED BY <1>3, <1>4, <1>5 DEF Legs

\* With a rollback the events are nowhere.
LEMMA RollbackLegs ==
    ASSUME TypeOK, Legs, NEW r \in Requests, Rollback(r) PROVE Legs'
<1>1. /\ \A q \in Requests \ {r} : recorded'[q] = recorded[q]
      /\ recorded'[r] = <<>>
      /\ phase[r] = "open"
      /\ \A q \in Requests : phase'[q] = IF q = r THEN "failed" ELSE phase[q]
      /\ UNCHANGED <<rows, nextId, chan, worker, submitted, posts, missed>>
  BY DEF Rollback, coalescer, TypeOK
<1>2. /\ \A q \in Requests \ {r} : Recorded(q)' = Recorded(q)
      /\ Recorded(r)' = {}
      /\ InChan' = InChan /\ Submitted' = Submitted
  BY <1>1 DEF Recorded, InChan, Submitted
<1>3. Unsent' = Unsent
  BY <1>1, <1>2 DEF Unsent
<1>4. Idle' /\ Numbered' /\ Accounted'
  BY <1>1, <1>2, <1>3 DEF Legs, Idle, Numbered, Accounted
<1>5. Committed'
  BY <1>1, <1>2 DEF Legs, Committed, NoPhantom
<1>6. Apart'
  BY <1>1, <1>2, ElemsEmpty DEF Legs, Apart
<1> QED BY <1>4, <1>5, <1>6 DEF Legs

\* The event goes from its request into the channel, or is missed.
LEMMA SendLegs ==
    ASSUME TypeOK, Legs, NEW r \in Requests, Send(r) PROVE Legs'
<1> DEFINE e == Head(recorded[r])
<1>1. /\ \A q \in Requests \ {r} : recorded'[q] = recorded[q]
      /\ recorded'[r] = Tail(recorded[r])
      /\ phase[r] = "sending"
      /\ recorded[r] \in Seq(Events) /\ recorded[r] # <<>>
      /\ UNCHANGED <<phase, rows, nextId, worker, submitted, posts>>
  BY DEF Send, coalescer, TypeOK
<1>2. /\ e \in Events
      /\ Recorded(r) = {e} \cup Elems(Tail(recorded[r]))
      /\ e \notin Elems(Tail(recorded[r])) /\ Distinct(Tail(recorded[r]))
  BY <1>1, ElemsTail, Places DEF Legs, Apart
<1>3. /\ \A q \in Requests \ {r} : Recorded(q)' = Recorded(q)
      /\ Recorded(r)' = Elems(Tail(recorded[r]))
      /\ Submitted' = Submitted
  BY <1>1 DEF Recorded, Elems, Submitted
<1>4. Unsent = Unsent' \cup {e}
  BY <1>1, <1>2, <1>3 DEF Unsent
<1>5. /\ e \in rows
      /\ e \notin InChan \cup {worker} \cup Submitted \cup missed
      /\ \A q \in Requests \ {r} : e \notin Recorded(q)
  BY <1>1, <1>2 DEF Legs, Committed, Apart
<1>6. \/ /\ InChan' = InChan \cup {e} /\ Distinct(chan')
         /\ missed' = missed
      \/ /\ InChan' = InChan /\ chan' = chan
         /\ missed' = missed \cup {e}
  <2>1. CASE chan' = Append(chan, e) /\ UNCHANGED missed
    <3>1. chan \in Seq(Events) /\ Distinct(chan)
      BY DEF TypeOK, Legs, Apart
    <3>2. Elems(chan') = Elems(chan) \cup {e} /\ Distinct(chan')
      BY <1>2, <1>5, <2>1, <3>1, ElemsAppend, Places
    <3> QED BY <2>1, <3>2 DEF InChan, Elems
  <2>2. CASE missed' = missed \cup {e} /\ UNCHANGED chan
    BY <2>2 DEF InChan
  <2> QED BY <2>1, <2>2 DEF Send
<1>7. Idle' /\ Numbered' /\ Accounted'
  <2>1. Idle' /\ Numbered'
    BY <1>1, <1>2, <1>3 DEF Legs, Idle, Numbered
  <2>2. Accounted'
    BY <1>1, <1>3, <1>4, <1>6 DEF Legs, Accounted
  <2> QED BY <2>1, <2>2
<1>8. Committed'
  BY <1>1, <1>2, <1>3, <1>5, <1>6 DEF Legs, Committed, NoPhantom
<1>9. Apart'
  BY <1>1, <1>2, <1>3, <1>5, <1>6 DEF Legs, Apart
<1> QED BY <1>7, <1>8, <1>9 DEF Legs

\* A request that sent all its events has none.
LEMMA FinishLegs ==
    ASSUME TypeOK, Legs, NEW r \in Requests, Finish(r) PROVE Legs'
<1>1. /\ \A q \in Requests : Recorded(q)' = Recorded(q)
      /\ InChan' = InChan /\ Submitted' = Submitted
      /\ Recorded(r) = {} /\ recorded[r] = <<>>
      /\ \A q \in Requests : phase'[q] = IF q = r THEN "done" ELSE phase[q]
      /\ UNCHANGED <<rows, recorded, nextId, chan, worker, submitted, posts,
                     missed>>
  BY DEF Finish, Recorded, InChan, Submitted, coalescer, TypeOK
<1>2. Unsent' = Unsent
  BY <1>1 DEF Unsent
<1>3. Idle' /\ Numbered' /\ Accounted'
  BY <1>1, <1>2 DEF Legs, Idle, Numbered, Accounted
<1>4. Committed'
  BY <1>1 DEF Legs, Committed, NoPhantom
<1>5. Apart'
  BY <1>1 DEF Legs, Apart
<1> QED BY <1>3, <1>4, <1>5 DEF Legs

\* From the channel to the worker.
LEMMA ReceiveLegs ==
    ASSUME TypeOK, Legs, Receive PROVE Legs'
<1>1. /\ \A q \in Requests : Recorded(q)' = Recorded(q)
      /\ Submitted' = Submitted /\ Unsent' = Unsent
      /\ UNCHANGED <<phase, rows, recorded, nextId, submitted, posts, missed>>
      /\ worker = None
  BY DEF Receive, Recorded, Submitted, Unsent, coalescer
<1>2. /\ worker' \in Events /\ worker' # None
      /\ InChan = InChan' \cup {worker'}
      /\ worker' \notin InChan' /\ Distinct(chan')
  <2>1. chan \in Seq(Events) /\ chan # <<>> /\ Distinct(chan)
        /\ worker' = Head(chan) /\ chan' = Tail(chan)
    BY DEF Receive, TypeOK, Legs, Apart
  <2>2. InChan' = Elems(chan') /\ InChan = Elems(chan)
    BY DEF InChan, Elems
  <2> QED BY <2>1, <2>2, ElemsTail, PipelineAssumption
<1>3. Idle' /\ Numbered'
  BY <1>1 DEF Legs, Idle, Numbered
<1>4. Committed'
  BY <1>1, <1>2 DEF Legs, Committed, NoPhantom
<1>5. Apart'
  BY <1>1, <1>2 DEF Legs, Apart
<1>6. Accounted'
  <2>1. None \notin rows
    BY PipelineAssumption DEF TypeOK
  <2> QED BY <1>1, <1>2, <2>1 DEF Legs, Accounted
<1> QED BY <1>3, <1>4, <1>5, <1>6 DEF Legs

\* From the worker to the debouncer.
LEMMA WorkerLegs ==
    ASSUME TypeOK, Legs, WorkerSubmit PROVE Legs'
<1>1. /\ \A q \in Requests : Recorded(q)' = Recorded(q)
      /\ InChan' = InChan /\ Unsent' = Unsent
      /\ UNCHANGED <<phase, rows, recorded, nextId, chan, missed>>
      /\ worker' = None /\ worker \in Events
  BY DEF WorkerSubmit, Recorded, InChan, Unsent, TypeOK
<1>2. Submitted' = Submitted \cup {worker}
  <2>1. /\ submitted \in Seq(Events)
        /\ submitted' = Append(submitted, worker)
    BY SameTypes
       DEF WorkerSubmit, C!Submit, C!SubmitThrough, TypeOK, C!TypeOK
  <2>2. Submitted' = Elems(submitted') /\ Submitted = Elems(submitted)
    BY DEF Submitted, Elems
  <2> QED BY <1>1, <2>1, <2>2, ElemsAppend
<1>3. worker \in rows
  BY <1>1, PipelineAssumption DEF Legs, Committed, NoPhantom
<1>4. \A p \in posts' : p[1] \in rows
  <2>1. \A p \in posts' : p \in posts \/ p[1] = worker
    BY DEF WorkerSubmit, Post
  <2> QED BY <1>3, <2>1 DEF Legs, Committed, NoPhantom
<1>5. Idle' /\ Numbered' /\ Accounted'
  BY <1>1, <1>2 DEF Legs, Idle, Numbered, Accounted
<1>6. Committed'
  BY <1>1, <1>2, <1>3, <1>4 DEF Legs, Committed, NoPhantom
<1>7. Apart'
  <2>1. /\ None \notin Submitted /\ None \notin InChan /\ None \notin missed
        /\ \A r \in Requests : None \notin Recorded(r)
    BY PipelineAssumption, SameTypes
       DEF TypeOK, C!TypeOK, Submitted, InChan, Recorded
  <2>2. ASSUME NEW r \in Requests, NEW e \in Recorded(r)
        PROVE  /\ e \notin InChan' \cup {worker'} \cup Submitted' \cup missed'
               /\ \A q \in Requests \ {r} : e \notin Recorded(q)
    BY <1>1, <1>2, <2>1 DEF Legs, Apart
  <2>3. \A r \in Requests : Distinct(recorded'[r])
    BY <1>1 DEF Legs, Apart
  <2>4. Distinct(chan') /\ worker' \notin InChan' \cup Submitted'
    BY <1>1, <1>2, <2>1, PipelineAssumption DEF Legs, Apart
  <2>5. \A e \in InChan' : e \notin Submitted'
    BY <1>1, <1>2 DEF Legs, Apart
  <2>6. \A e \in missed' : e \notin InChan' \cup {worker'} \cup Submitted'
    BY <1>1, <1>2, <2>1 DEF Legs, Apart
  <2> QED BY <1>1, <2>2, <2>3, <2>4, <2>5, <2>6 DEF Apart
<1> QED BY <1>5, <1>6, <1>7 DEF Legs

\* Nothing but the committed rows is left.
LEMMA RestartLegs ==
    ASSUME TypeOK, Legs, Restart PROVE Legs'
<1>1. /\ \A q \in Requests : /\ phase'[q] \notin {"open", "sending"}
                             /\ recorded'[q] = <<>>
      /\ chan' = <<>> /\ submitted' = <<>> /\ posts' = {}
      /\ worker' = None
      /\ missed' = rows /\ rows' = rows
  BY DEF Restart, TypeOK
<1>2. /\ \A q \in Requests : Recorded(q)' = {}
      /\ InChan' = {} /\ Submitted' = {}
  BY <1>1 DEF Recorded, InChan, Submitted
<1>3. nextId' = nextId
  BY DEF Restart
<1>4. Idle' /\ Numbered' /\ Accounted'
  BY <1>1, <1>2, <1>3 DEF Legs, Idle, Numbered, Accounted
<1>5. Committed'
  BY <1>1, <1>2 DEF Legs, Committed, NoPhantom
<1>6. Apart'
  <2>1. None \notin rows
    BY PipelineAssumption DEF TypeOK
  <2> QED BY <1>1, <1>2, <2>1, ElemsEmpty DEF Legs, Apart
<1> QED BY <1>4, <1>5, <1>6 DEF Legs

\* Every step keeps an event at its one place.
LEMMA LegsStep ==
    ASSUME TypeOK, CP!Inv, Quiet, Legs, [Next]_vars PROVE Legs'
<1>1. ASSUME NEW e \in taken, Post(e), Still PROVE Legs'
  <2>1. e \in rows
    BY Places DEF CP!Inv, CP!Known, Legs, Committed, NoPhantom
  <2>2. \A p \in posts' : p[1] \in rows
    BY <1>1, <2>1 DEF Post, Legs, Committed, NoPhantom
  <2> QED BY <1>1, <2>2, LegsStill
<1>2. ASSUME NEW e \in taken, Dispatch(e) PROVE Legs'
  BY <1>1, <1>2 DEF Dispatch, C!Dispatch, Still
<1>3. ASSUME NEW e \in draining, DrainDispatch(e) PROVE Legs'
  BY <1>1, <1>3 DEF DrainDispatch, C!Dispatch, Still, Quiet
<1>4. ASSUME NEW k \in Keys, Flush(k) PROVE Legs'
  BY <1>4, LegsStill DEF Flush, C!Take, Still
<1>5. ASSUME NEW p \in posts, PostEnds(p) PROVE Legs'
  BY <1>5, LegsStill DEF PostEnds, coalescer, Still
<1>6. ASSUME Shutdown \/ Exit \/ Crash \/ UNCHANGED vars PROVE Legs'
  BY <1>6, LegsStill DEF Shutdown, Exit, Crash, vars, coalescer, Still
<1>7. ASSUME Drain PROVE Legs'
  BY <1>7, LegsStill DEF Drain, C!Take, Still
<1> QED BY <1>2, <1>3, <1>4, <1>5, <1>6, <1>7, BeginLegs, EmitLegs, CommitLegs,
           RollbackLegs, SendLegs, FinishLegs, ReceiveLegs, WorkerLegs,
           RestartLegs DEF Next, Handler

-----------------------------------------------------------------------------
(* The promise of a graceful shutdown, and the theorems. *)

\* Every step keeps what a quiet Drain found.
LEMMA QuietStep ==
    ASSUME TypeOK, Quiet, [Next]_vars PROVE Quiet'
<1> USE DEF Quiet
<1>1. ASSUME NEW r \in Requests,
             \/ Begin(r) \/ \E k \in Keys : Emit(r, k)
             \/ Commit(r) \/ Send(r) \/ Rollback(r) \/ Finish(r)
      PROVE  Quiet'
  <2>1. phase[r] \notin {"done", "failed"}
    BY <1>1 DEF Begin, Emit, Commit, Send, Rollback, Finish
  <2>2. ~ quiet /\ UNCHANGED <<taken, draining, proc, quiet>>
    BY <1>1, <2>1 DEF Begin, Emit, Commit, Send, Rollback, Finish, coalescer
  <2> QED BY <2>2
<1>2. CASE Receive
  BY <1>2 DEF Receive, coalescer
<1>3. CASE WorkerSubmit
  BY <1>3 DEF WorkerSubmit, C!Submit, C!SubmitThrough
<1>4. ASSUME NEW k \in Keys, Flush(k) PROVE Quiet'
  <2>1. held[k] # None /\ taken \subseteq taken'
    BY <1>4 DEF Flush, C!Take
  <2> QED BY <1>4, <2>1 DEF Flush
<1>5. ASSUME NEW e \in taken, Dispatch(e) PROVE Quiet'
  BY <1>5 DEF Dispatch, C!Dispatch
<1>6. ASSUME NEW p \in posts, PostEnds(p) PROVE Quiet'
  BY <1>6 DEF PostEnds, coalescer
<1>7. CASE Shutdown
  BY <1>7 DEF Shutdown, coalescer
<1>8. CASE Drain
  <2>1. proc = "closed" /\ ~ quiet /\ proc' = "draining"
    BY <1>8 DEF Drain
  <2>2. /\ taken' = taken \cup draining'
        /\ \A k \in Keys : held'[k] = None
        /\ quiet' = NothingUnderWay
        /\ UNCHANGED <<phase, chan, worker>>
    BY <1>8 DEF Drain, C!Take
  <2> QED BY <2>1, <2>2 DEF NothingUnderWay
<1>9. ASSUME NEW e \in draining, DrainDispatch(e) PROVE Quiet'
  BY <1>9 DEF DrainDispatch, C!Dispatch
<1>10. CASE Exit
  BY <1>10 DEF Exit, coalescer
<1>11. CASE Crash
  BY <1>11 DEF Crash, coalescer
<1>12. CASE Restart
  BY <1>12 DEF Restart
<1>13. CASE UNCHANGED vars
  BY <1>13 DEF vars, coalescer
<1> QED BY <1>1, <1>2, <1>3, <1>4, <1>5, <1>6, <1>7, <1>8, <1>9, <1>10, <1>11,
           <1>12, <1>13 DEF Next, Handler

\* A process that has handled nothing yet has nothing anywhere.
LEMMA IInvStart ==
    ASSUME NEW state \in {"up", "closed", "draining", "exited", "crashed"},
           NEW n \in 0..MaxRestarts, Start(state, n)
    PROVE  IInv
<1>1. TypeOK
  BY StartTypes
<1>2. CP!Inv
  BY DebouncerInit DEF Start
<1>3. /\ \A r \in Requests : recorded[r] = <<>> /\ Recorded(r) = {}
      /\ rows = {} /\ InChan = {} /\ Submitted = {} /\ posts = {}
      /\ worker = None /\ missed = {} /\ chan = <<>>
  BY DEF Start, C!Init, Recorded, InChan, Submitted
<1>4. Legs
  BY <1>3, ElemsEmpty
     DEF Legs, Idle, Numbered, Committed, NoPhantom, Apart, Accounted
<1>5. Quiet
  BY DEF Start, C!Init, Quiet
<1> QED BY <1>1, <1>2, <1>4, <1>5 DEF IInv

\* The invariant is inductive.
LEMMA IInvStep == IInv /\ [Next]_vars => IInv'
BY TypeStep, DebouncerStep, LegsStep, QuietStep DEF IInv

\* The places of an event, of hooks.go, main.go and the debouncer together, as
\* one inductive invariant.
THEOREM IInvInvariant == Spec => []IInv
<1>1. Init => IInv
  BY IInvStart, PipelineAssumption DEF Init
<1> QED BY <1>1, IInvStep, PTL DEF Spec

\* What each property takes of the invariant.
LEMMA NoPhantomHolds == IInv => NoPhantom
BY DEF IInv, Legs, Committed

\* Whoever has the event, it is accounted for.
LEMMA EverythingAccountedHolds == IInv => EverythingAccounted
<1>1. CP!NothingLost => C!NothingLost
  BY DEF CP!NothingLost, C!NothingLost, CP!Superseded, C!Superseded,
     CP!Accounted, C!Accounted, CP!Occurs, C!Occurs
<1> QED BY <1>1 DEF IInv, CP!Inv, Legs, Accounted, EverythingAccounted

\* The places of Legs exclude each other, and Coalescer does the rest.
LEMMA OneLegHolds == IInv => OneLeg
<1> SUFFICES ASSUME IInv PROVE OneLeg
  OBVIOUS
<1>1. C!DispatchedOnce
  BY DEF IInv, CP!Inv, CP!DispatchedOnce, C!DispatchedOnce, CP!Occurs,
     C!Occurs
<1>2. \A e \in Unsent : e \notin InChan \cup Submitted \cup missed
  BY DEF IInv, Legs, Apart, Unsent
<1>3. /\ InChan \cap Submitted = {}
      /\ worker \notin InChan \cup Submitted
      /\ missed \cap (InChan \cup {worker} \cup Submitted) = {}
  BY DEF IInv, Legs, Apart
<1> QED BY <1>1, <1>2, <1>3 DEF OneLeg

\* After a quiet Drain all that was submitted is out.
LEMMA QuietDrainDispatchesHolds == IInv => QuietDrainDispatches
<1> SUFFICES ASSUME IInv, proc = "exited", quiet, NEW i \in DOMAIN submitted
             PROVE  C!Superseded(i) \/ C!Occurs(submitted[i], dispatched)
  BY DEF QuietDrainDispatches, AllDispatched
<1>1. taken = {} /\ \A k \in Keys : held[k] = None
  BY DEF IInv, Quiet
<1>2. submitted[i] \in Events /\ submitted[i].key \in Keys
  <2>1. submitted \in Seq(Events)
    BY SameTypes DEF IInv, TypeOK, C!TypeOK
  <2>2. submitted[i] \in Events
    BY <2>1
  <2> QED BY <2>2 DEF Events
<1>3. CP!Superseded(i) \/ CP!Accounted(i)
  BY DEF IInv, CP!Inv, CP!NothingLost
<1>4. CP!Superseded(i) => C!Superseded(i)
  BY DEF CP!Superseded, C!Superseded
<1>5. CP!Accounted(i) => C!Occurs(submitted[i], dispatched)
  BY <1>1, <1>2, PipelineAssumption DEF CP!Accounted, CP!Occurs, C!Occurs
<1> QED BY <1>3, <1>4, <1>5

\* hooks.go:83-86: "no receiver is told about a change that never happened".
\* What is in the channel, with the worker, with the debouncer or being posted
\* has its committed row, through rollbacks, drops, crashes and restarts.
THEOREM NoPhantomCorrect == Spec => []NoPhantom
BY IInvInvariant, NoPhantomHolds, PTL

\* A committed event is with its request, in the channel, with the worker, with
\* the debouncer, which loses none, or was dropped by a full channel (hooks.go)
\* or by the end of a process.
THEOREM EverythingAccountedCorrect == Spec => []EverythingAccounted
BY IInvInvariant, EverythingAccountedHolds, PTL

\* sendNonBlock, the worker and the debouncer hand an event on: it is never in
\* two places, nor dispatched twice by one process.
THEOREM OneLegCorrect == Spec => []OneLeg
BY IInvInvariant, OneLegHolds, PTL

\* main.go:56-60: a Drain that meets no handler, no event on its way to the
\* debouncer and no flush has every event the debouncer got dispatched, itself
\* or a newer one of its key, before the process exits.
THEOREM QuietDrainDispatchesCorrect == Spec => []QuietDrainDispatches
BY IInvInvariant, QuietDrainDispatchesHolds, PTL
=============================================================================
