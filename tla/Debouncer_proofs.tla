--------------------------- MODULE Debouncer_proofs ---------------------------
(***************************************************************************)
(* The safety properties of Debouncer.tla for every number of keys and     *)
(* events and every delay, cap and lateness.                               *)
(***************************************************************************)
EXTENDS Debouncer, TLAPS

-----------------------------------------------------------------------------
\* Every state of the debouncer is well typed: in particular the wait handed
\* to newTimer is never negative (debouncer.go:82-93).
LEMMA WaitType ==
    ASSUME NEW k \in Keys, TypeOK
    PROVE  /\ Deadline(k) \in Nat
           /\ Since(k) \in Nat
           /\ Wait(Deadline(k)) \in Nat
<1>1. Deadline(k) \in Nat
  <2>1. CASE pending[k] = None
    BY <2>1, DebouncerAssumption DEF Deadline, TypeOK
  <2>2. CASE pending[k] # None
    BY <2>2 DEF Deadline, TypeOK, Entries
  <2> QED BY <2>1, <2>2
<1>2. Since(k) \in Nat
  <2>1. CASE pending[k] = None
    BY <2>1 DEF Since, TypeOK
  <2>2. CASE pending[k] # None
    BY <2>2 DEF Since, TypeOK, Entries
  <2> QED BY <2>1, <2>2
<1>3. Wait(Deadline(k)) \in Nat
  BY <1>1, DebouncerAssumption DEF Wait, TypeOK
<1> QED BY <1>1, <1>2, <1>3

\* Every state of Submit, flush, Drain and the timers (debouncer.go) is well
\* typed.
THEOREM TypeCorrect == Spec => []TypeOK
<1>1. Init => TypeOK
  BY DebouncerAssumption DEF Init, TypeOK
<1>2. TypeOK /\ [Next]_vars => TypeOK'
  <2> SUFFICES ASSUME TypeOK, [Next]_vars PROVE TypeOK'
    OBVIOUS
  <2> USE DEF TypeOK
  <2>1. ASSUME NEW e \in Events, Submit(e) PROVE TypeOK'
    <3> e.key \in Keys
      BY DEF Events
    <3>1. CASE SubmitHeld(e)
      <4>1. [event |-> e, deadline |-> Deadline(e.key),
             since |-> Since(e.key)] \in Entries
        BY WaitType DEF Entries
      <4>2. pending' \in [Keys -> Entries \cup {None}]
        BY <3>1, <4>1 DEF SubmitHeld
      <4>3. now + Wait(Deadline(e.key)) \in Nat
        BY WaitType
      <4>4. armed' \in SUBSET Timers
        BY <3>1, <4>3 DEF SubmitHeld, Timers, Stopped
      <4> QED BY <3>1, <4>2, <4>4 DEF SubmitHeld
    <3>2. CASE SubmitDirect(e)
      BY <3>2 DEF SubmitDirect
    <3> QED BY <2>1, <3>1, <3>2 DEF Submit
  <2>2. ASSUME NEW t \in armed, Fire(t) PROVE TypeOK'
    BY <2>2 DEF Fire
  <2>3. ASSUME NEW t \in firing, Flush(t) PROVE TypeOK'
    <3> t.event.key \in Keys
      BY DEF Timers, Events
    <3>1. CASE pending[t.event.key] = None
      BY <2>3, <3>1 DEF Flush
    <3>2. CASE pending[t.event.key] # None
      BY <2>3, <3>2 DEF Flush, Entries
    <3> QED BY <3>1, <3>2
  <2>4. ASSUME NEW e \in flushing, Dispatch(e) PROVE TypeOK'
    BY <2>4 DEF Dispatch
  <2>5. CASE Drain
    <3>1. drained' \in SUBSET Events
      BY <2>5 DEF Drain, Held, Entries
    <3> QED BY <2>5, <3>1 DEF Drain
  <2>6. ASSUME NEW e \in drained, DrainDispatch(e) PROVE TypeOK'
    BY <2>6 DEF DrainDispatch
  <2>7. CASE DrainReturn
    BY <2>7 DEF DrainReturn
  <2>8. CASE Tick
    BY <2>8, DebouncerAssumption DEF Tick
  <2>9. CASE UNCHANGED vars
    BY <2>9 DEF vars
  <2> QED BY <2>1, <2>2, <2>3, <2>4, <2>5, <2>6, <2>7, <2>8, <2>9 DEF Next
<1> QED BY <1>1, <1>2, PTL DEF Spec

-----------------------------------------------------------------------------
(* Which events are where: the invariant the other results rest on.        *)

\* Events are numbered as they come, and no other event is anywhere.
Numbered ==
    /\ \A i \in DOMAIN submitted : submitted[i].id = i
    /\ \A k \in Held : pending[k].event.id <= Len(submitted)
    /\ \A e \in flushing \cup drained : e.id <= Len(submitted)

\* An entry is filed under the key of its event.
Filed == \A k \in Held : pending[k].event.key = k

\* An event is in the map, taken by a flush or taken by Drain, never in two
\* of these places.
Apart == /\ \A k \in Held : pending[k].event \notin flushing \cup drained
         /\ flushing \cap drained = {}

\* Drain has nothing in hand before it starts.
DrainFresh == drain = "idle" => drained = {}

Located == TypeOK /\ Numbered /\ Filed /\ Apart /\ DrainFresh

\* An event that is still to be submitted is nowhere yet.
LEMMA SubmitFresh ==
    ASSUME Located, NEW e \in Events, Submit(e)
    PROVE  /\ \A i \in DOMAIN submitted : submitted[i] # e
           /\ \A k \in Held : pending[k].event # e
           /\ e \notin flushing \cup drained
<1>1. e.id = Len(submitted) + 1 /\ Len(submitted) \in Nat
  BY DEF Submit, Located, TypeOK
<1>2. \A i \in DOMAIN submitted : submitted[i] # e
  BY <1>1 DEF Located, Numbered, TypeOK
<1>3. \A k \in Held : pending[k].event # e
  BY <1>1 DEF Located, Numbered
<1>4. e \notin flushing \cup drained
  BY <1>1 DEF Located, Numbered
<1> QED BY <1>2, <1>3, <1>4

\* Located holds in every state, each step moving an event from one place to
\* another.
LEMMA LocatedInvariant == Spec => []Located
<1>1. Init => Numbered /\ Filed /\ Apart /\ DrainFresh
  BY DEF Init, Numbered, Filed, Apart, DrainFresh, Held
<1>2. Located /\ TypeOK' /\ [Next]_vars => Located'
  <2> SUFFICES ASSUME Located, TypeOK', [Next]_vars
               PROVE  Numbered' /\ Filed' /\ Apart' /\ DrainFresh'
    BY DEF Located
  <2> USE DEF Located, TypeOK
  <2>1. ASSUME NEW e \in Events, Submit(e)
        PROVE  Numbered' /\ Filed' /\ Apart' /\ DrainFresh'
    <3> e.key \in Keys
      BY DEF Events
    <3>1. e.id = Len(submitted) + 1 /\ submitted' = Append(submitted, e)
      BY <2>1 DEF Submit, SubmitHeld, SubmitDirect
    <3>2. \A i \in DOMAIN submitted' : submitted'[i].id = i
      BY <3>1 DEF Numbered
    <3>3. UNCHANGED <<flushing, drain, drained>>
      BY <2>1 DEF Submit, SubmitHeld, SubmitDirect
    <3>4. \A k \in Held' : \/ k \in Held /\ pending'[k] = pending[k]
                           \/ k = e.key /\ pending'[k].event = e
      BY <2>1 DEF Submit, SubmitHeld, SubmitDirect, Held
    <3>5. Numbered'
      <4>1. Len(submitted') = Len(submitted) + 1 /\ Len(submitted) \in Nat
        BY <3>1
      <4>2. \A k \in Held : pending[k].event.id \in Nat
        BY DebouncerAssumption DEF Held, Entries, Events
      <4>3. \A x \in flushing \cup drained : x.id \in Nat
        BY DebouncerAssumption DEF Events
      <4>4. \A k \in Held' : pending'[k].event.id <= Len(submitted')
        BY <3>1, <3>4, <4>1, <4>2 DEF Numbered
      <4>5. \A x \in flushing' \cup drained' : x.id <= Len(submitted')
        BY <3>3, <4>1, <4>3 DEF Numbered
      <4> QED BY <3>2, <4>4, <4>5 DEF Numbered
    <3>6. Filed'
      BY <3>4 DEF Filed
    <3>7. Apart'
      BY <2>1, <3>3, <3>4, SubmitFresh DEF Apart
    <3> QED BY <3>3, <3>5, <3>6, <3>7 DEF DrainFresh
  <2>2. ASSUME NEW t \in armed, Fire(t)
        PROVE  Numbered' /\ Filed' /\ Apart' /\ DrainFresh'
    BY <2>2 DEF Fire, Numbered, Filed, Apart, DrainFresh, Held
  <2>3. ASSUME NEW t \in firing, Flush(t)
        PROVE  Numbered' /\ Filed' /\ Apart' /\ DrainFresh'
    <3> DEFINE k == t.event.key
    <3> k \in Keys
      BY DEF Timers, Events
    <3>1. CASE pending[k] = None
      BY <2>3, <3>1 DEF Flush, Numbered, Filed, Apart, DrainFresh, Held
    <3>2. CASE pending[k] # None
      <4>1. /\ Held' = Held \ {k}
            /\ \A x \in Held' : pending'[x] = pending[x]
            /\ flushing' = flushing \cup {pending[k].event}
            /\ UNCHANGED <<submitted, drain, drained>>
        BY <2>3, <3>2 DEF Flush, Held
      <4>2. k \in Held
        BY <3>2 DEF Held
      <4>3. \A x \in Held' : pending[x].event # pending[k].event
        BY <4>1, <4>2 DEF Filed
      <4>4. Numbered'
        BY <4>1, <4>2 DEF Numbered
      <4>5. Filed' /\ Apart' /\ DrainFresh'
        BY <4>1, <4>2, <4>3 DEF Filed, Apart, DrainFresh
      <4> QED BY <4>4, <4>5
    <3> QED BY <3>1, <3>2
  <2>4. ASSUME NEW e \in flushing, Dispatch(e)
        PROVE  Numbered' /\ Filed' /\ Apart' /\ DrainFresh'
    BY <2>4 DEF Dispatch, Numbered, Filed, Apart, DrainFresh, Held
  <2>5. ASSUME Drain
        PROVE  Numbered' /\ Filed' /\ Apart' /\ DrainFresh'
    <3>1. Held' = {} /\ drained' = {pending[k].event : k \in Held}
      BY <2>5, DebouncerAssumption DEF Drain, Held
    <3>2. drained = {} /\ UNCHANGED <<submitted, flushing>> /\ drain' # "idle"
      BY <2>5 DEF Drain, DrainFresh
    <3> QED BY <3>1, <3>2 DEF Numbered, Filed, Apart, DrainFresh
  <2>6. ASSUME NEW e \in drained, DrainDispatch(e)
        PROVE  Numbered' /\ Filed' /\ Apart' /\ DrainFresh'
    BY <2>6 DEF DrainDispatch, Numbered, Filed, Apart, DrainFresh, Held
  <2>7. ASSUME DrainReturn
        PROVE  Numbered' /\ Filed' /\ Apart' /\ DrainFresh'
    BY <2>7 DEF DrainReturn, Numbered, Filed, Apart, DrainFresh, Held
  <2>8. ASSUME Tick
        PROVE  Numbered' /\ Filed' /\ Apart' /\ DrainFresh'
    BY <2>8 DEF Tick, Numbered, Filed, Apart, DrainFresh, Held
  <2>9. ASSUME UNCHANGED vars
        PROVE  Numbered' /\ Filed' /\ Apart' /\ DrainFresh'
    BY <2>9 DEF vars, Numbered, Filed, Apart, DrainFresh, Held
  <2> QED BY <2>1, <2>2, <2>3, <2>4, <2>5, <2>6, <2>7, <2>8, <2>9 DEF Next
<1> QED BY <1>1, <1>2, TypeCorrect, PTL DEF Spec, Located

-----------------------------------------------------------------------------
(* Every entry has its timer, and with punctual timers the timer is due by *)
(* the deadline.                                                           *)

\* The timer of an entry is due by the entry's deadline, which is not past
\* and is still the one of the Submit that made the entry.
Punctual ==
    Cap > 0 /\ Lateness = 0 =>
       \A k \in Held :
          /\ pending[k].deadline = pending[k].since + Cap
          /\ now <= pending[k].deadline
          /\ \E t \in armed \cup firing : /\ t.event = pending[k].event
                                          /\ t.at <= pending[k].deadline

\* The timer Submit(e) makes.
NewTimer(e) == [event |-> e, at |-> now + Wait(Deadline(e.key))]

\* The entry and the timer Submit makes.
LEMMA SubmitStep ==
    ASSUME Located, NEW e \in Events, SubmitHeld(e)
    PROVE  /\ pending'[e.key].event = e
           /\ pending'[e.key].deadline = Deadline(e.key)
           /\ pending'[e.key].since = Since(e.key)
           /\ NewTimer(e) \in armed'
           /\ NewTimer(e).event = e
           /\ NewTimer(e).at = now + Wait(Deadline(e.key))
           /\ UNCHANGED <<now, firing>>
BY DEF SubmitHeld, Located, TypeOK, Events, NewTimer

\* After any step an entry is either the one Submit has just made or an old
\* one, and the timers of an old one are still there.
LEMMA EntryStep ==
    ASSUME Located, [Next]_vars, NEW k \in Held'
    PROVE  \/ \E e \in Events : SubmitHeld(e) /\ k = e.key
           \/ /\ k \in Held /\ pending'[k] = pending[k]
              /\ \A t \in armed \cup firing :
                    t.event = pending[k].event
                       => t \in armed' \cup firing'
<1> DEFINE Kept == /\ k \in Held /\ pending'[k] = pending[k]
                   /\ \A t \in armed \cup firing :
                         t.event = pending[k].event
                            => t \in armed' \cup firing'
<1> USE DEF Located, TypeOK
<1>1. ASSUME NEW e \in Events, SubmitHeld(e), k # e.key PROVE Kept
  <2>1. k \in Held /\ pending'[k] = pending[k]
    BY <1>1 DEF SubmitHeld, Held
  <2>2. pending[k].event.key = k
    BY <2>1 DEF Filed
  <2>3. pending[e.key] = None \/ pending[e.key].event.key = e.key
    BY DEF Filed, Held, Events
  <2> QED BY <1>1, <2>1, <2>2, <2>3 DEF SubmitHeld, Stopped
<1>2. ASSUME NEW e \in Events, SubmitDirect(e) PROVE Kept
  BY <1>2 DEF SubmitDirect, Held
<1>3. ASSUME NEW t \in armed, Fire(t) PROVE Kept
  BY <1>3 DEF Fire, Held
<1>4. ASSUME NEW t \in firing, Flush(t) PROVE Kept
  <2>1. k \in Held /\ k # t.event.key /\ pending'[k] = pending[k]
    BY <1>4 DEF Flush, Held
  <2>2. t.event # pending[k].event
    BY <2>1 DEF Filed
  <2> QED BY <1>4, <2>1, <2>2 DEF Flush
<1>5. ASSUME NEW e \in flushing, Dispatch(e) PROVE Kept
  BY <1>5 DEF Dispatch, Held
<1>6. CASE Drain
  BY <1>6 DEF Drain, Held
<1>7. ASSUME NEW e \in drained, DrainDispatch(e) PROVE Kept
  BY <1>7 DEF DrainDispatch, Held
<1>8. CASE DrainReturn
  BY <1>8 DEF DrainReturn, Held
<1>9. CASE Tick
  BY <1>9 DEF Tick, Held
<1>10. CASE UNCHANGED vars
  BY <1>10 DEF vars, Held
<1> QED BY <1>1, <1>2, <1>3, <1>4, <1>5, <1>6, <1>7, <1>8, <1>9, <1>10
        DEF Next, Submit

\* No entry is ever left in the map without a timer that takes it out, for
\* any interleaving of Submit, started timers and Drain (debouncer.go:57-138).
THEOREM NothingStrandedCorrect == Spec => []NothingStranded
<1>1. Init => NothingStranded
  BY DEF Init, NothingStranded, Held
<1>2. Located /\ NothingStranded /\ [Next]_vars => NothingStranded'
  <2> SUFFICES ASSUME Located, NothingStranded, [Next]_vars, NEW k \in Held'
               PROVE  \E t \in armed' \cup firing' :
                         t.event = pending'[k].event
    BY DEF NothingStranded
  <2>1. ASSUME NEW e \in Events, SubmitHeld(e), k = e.key
        PROVE  \E t \in armed' \cup firing' :
                         t.event = pending'[k].event
    BY <2>1, SubmitStep
  <2>2. ASSUME k \in Held, pending'[k] = pending[k],
               \A t \in armed \cup firing :
                  t.event = pending[k].event
                     => t \in armed' \cup firing'
        PROVE  \E t \in armed' \cup firing' :
                         t.event = pending'[k].event
    BY <2>2 DEF NothingStranded
  <2> QED BY <2>1, <2>2, EntryStep
<1> QED BY <1>1, <1>2, LocatedInvariant, PTL DEF Spec

\* With a cap and timers that are started on time no key waits past the cap
\* from the Submit that made its entry, whatever keeps coming for it
\* (debouncer.go:17-19).  The deadline being ahead is what makes the wait of
\* the next timer end by it (82-93), so the two are proved together.
THEOREM CapHonouredCorrect == Spec => []CapHonoured
<1>1. Init => Punctual
  BY DEF Init, Punctual, Held
<1>2. Located /\ Punctual /\ TypeOK' /\ [Next]_vars => Punctual'
  <2> SUFFICES ASSUME Located, Punctual, TypeOK', [Next]_vars,
                      Cap > 0, Lateness = 0, NEW k \in Held'
               PROVE  /\ pending'[k].deadline = pending'[k].since + Cap
                      /\ now' <= pending'[k].deadline
                      /\ \E t \in armed' \cup firing' :
                            /\ t.event = pending'[k].event
                            /\ t.at <= pending'[k].deadline
    BY DEF Punctual
  <2> now \in Nat
    BY DEF Located, TypeOK
  <2>1. ASSUME NEW e \in Events, SubmitHeld(e), k = e.key
        PROVE  /\ pending'[k].deadline = pending'[k].since + Cap
               /\ now' <= pending'[k].deadline
               /\ \E t \in armed' \cup firing' :
                     /\ t.event = pending'[k].event
                     /\ t.at <= pending'[k].deadline
    <3>1. k \in Keys
      BY DEF Held
    <3>2. /\ Deadline(k) \in Nat /\ now <= Deadline(k)
          /\ Deadline(k) = Since(k) + Cap
      <4>1. CASE pending[k] = None
        BY <4>1, DebouncerAssumption DEF Deadline, Since
      <4>2. CASE pending[k] # None
        BY <3>1, <4>2, WaitType DEF Deadline, Since, Held, Punctual, Located
      <4> QED BY <4>1, <4>2
    <3>3. now + Wait(Deadline(k)) <= Deadline(k)
      BY <3>2, DebouncerAssumption DEF Wait, Located, TypeOK
    <3>4. /\ NewTimer(e) \in armed' \cup firing'
          /\ NewTimer(e).event = pending'[k].event
          /\ NewTimer(e).at <= pending'[k].deadline
          /\ now' <= pending'[k].deadline
          /\ pending'[k].deadline = pending'[k].since + Cap
      BY <2>1, <3>2, <3>3, SubmitStep
    <3> QED BY <3>4
  <2>2. ASSUME k \in Held, pending'[k] = pending[k],
               \A t \in armed \cup firing :
                  t.event = pending[k].event
                     => t \in armed' \cup firing'
        PROVE  /\ pending'[k].deadline = pending'[k].since + Cap
               /\ now' <= pending'[k].deadline
               /\ \E t \in armed' \cup firing' :
                     /\ t.event = pending'[k].event
                     /\ t.at <= pending'[k].deadline
    <3>1. PICK t \in armed \cup firing : /\ t.event = pending[k].event
                                         /\ t.at <= pending[k].deadline
      BY <2>2 DEF Punctual
    <3>2. t.at \in Nat /\ pending[k].deadline \in Nat
      BY <2>2 DEF Located, TypeOK, Timers, Entries, Held
    <3>3. now' <= pending[k].deadline
      <4>1. CASE Tick
        BY <3>1, <3>2, <4>1 DEF Tick
      <4>2. CASE UNCHANGED now
        BY <2>2, <4>2 DEF Punctual
      <4> QED BY <4>1, <4>2 DEF Next, Submit, SubmitHeld, SubmitDirect, Fire,
                 Flush, Dispatch, Drain, DrainDispatch, DrainReturn, vars
    <3>4. pending[k].deadline = pending[k].since + Cap
      BY <2>2 DEF Punctual
    <3> QED BY <2>2, <3>1, <3>3, <3>4
  <2> QED BY <2>1, <2>2, EntryStep
<1>3. Located /\ Punctual => CapHonoured
  BY DEF Punctual, CapHonoured
<1> QED BY <1>1, <1>2, <1>3, LocatedInvariant, TypeCorrect, PTL DEF Spec

-----------------------------------------------------------------------------
(* The timers implement Coalescer.tla.                                     *)

\* The hold of the abstract specification: the events of the entries.
HeldEvents ==
    [k \in Keys |-> IF pending[k] = None THEN None ELSE pending[k].event]

\* Every step of the debouncer is a step of Coalescer or changes nothing it
\* sees; that Drain and a flush never have the same event in hand is what
\* lets their dispatches map to two of Coalescer's.
LEMMA StepRefines ==
    ASSUME Located, [Next]_vars
    PROVE  [C!Next]_(C!vars)
<1> USE DEF Located, TypeOK
<1> DEFINE Same == UNCHANGED <<submitted, HeldEvents, flushing \cup drained,
                               dispatched>>
<1>0. Same => UNCHANGED C!vars
  BY DEF C!vars, HeldEvents
<1>1. ASSUME NEW e \in Events, Submit(e) PROVE C!Next
  <2>1. ~ C!Occurs(e, submitted)
    BY <1>1, SubmitFresh DEF C!Occurs
  <2>2. e \in C!Events /\ e.key \in Keys
    BY DEF Events, C!Events
  <2>3. CASE SubmitHeld(e)
    <3> DEFINE entry == [event |-> e, deadline |-> Deadline(e.key),
                         since |-> Since(e.key)]
    <3>0. entry # None
      <4>1. entry \in Entries
        BY <2>2, WaitType DEF Entries
      <4> QED BY <4>1, DebouncerAssumption
    <3>1. HeldEvents' = [HeldEvents EXCEPT ![e.key] = e]
      BY <2>2, <2>3, <3>0 DEF SubmitHeld, HeldEvents
    <3> QED
      BY <2>1, <2>2, <2>3, <3>1 DEF SubmitHeld, HeldEvents, C!Submit, C!Next
  <2>4. CASE SubmitDirect(e)
    BY <2>1, <2>2, <2>4 DEF SubmitDirect, C!SubmitThrough, C!Next
  <2> QED BY <1>1, <2>3, <2>4 DEF Submit
<1>2. ASSUME NEW t \in armed, Fire(t) PROVE Same
  BY <1>2 DEF Fire, HeldEvents
<1>3. ASSUME NEW t \in firing, Flush(t) PROVE C!Next \/ Same
  <2> DEFINE k == t.event.key
  <2>0. k \in Keys
    BY DEF Timers, Events
  <2>1. CASE pending[k] = None
    BY <1>3, <2>1 DEF Flush, HeldEvents
  <2>2. CASE pending[k] # None
    <3>1. HeldEvents' =
            [x \in Keys |-> IF x \in {k} THEN None ELSE HeldEvents[x]]
      BY <1>3, <2>0, <2>2 DEF Flush, HeldEvents
    <3>2. HeldEvents[k] = pending[k].event /\ HeldEvents[k] # None
      BY <2>0, <2>2, DebouncerAssumption DEF HeldEvents, Entries
    <3>3. (flushing \cup drained)' =
            (flushing \cup drained) \cup {HeldEvents[x] : x \in {k}}
      BY <1>3, <2>2, <3>2 DEF Flush
    <3>4. UNCHANGED <<submitted, dispatched>>
      BY <1>3 DEF Flush
    <3>5. C!Take({k})
      BY <3>1, <3>2, <3>3, <3>4 DEF C!Take, HeldEvents
    <3> QED BY <2>0, <3>5 DEF C!Next
  <2> QED BY <2>1, <2>2
<1>4. ASSUME NEW e \in flushing, Dispatch(e) PROVE C!Next
  <2>1. (flushing \cup drained)' = (flushing \cup drained) \ {e}
    BY <1>4 DEF Dispatch, Apart
  <2>2. /\ UNCHANGED <<submitted, HeldEvents>>
        /\ dispatched' = Append(dispatched, e)
    BY <1>4 DEF Dispatch, HeldEvents
  <2>3. C!Dispatch(e)
    BY <2>1, <2>2 DEF C!Dispatch, HeldEvents
  <2> QED BY <2>3 DEF C!Next, Events, C!Events
<1>5. ASSUME Drain PROVE C!Next
  <2>0. PICK ks \in SUBSET Keys : ks = Held
    BY DEF Held
  <2>1. HeldEvents' = [x \in Keys |-> IF x \in ks THEN None ELSE HeldEvents[x]]
    BY <1>5, <2>0 DEF Drain, HeldEvents, Held
  <2>2. \A x \in ks : HeldEvents[x] = pending[x].event /\ HeldEvents[x] # None
    BY <2>0, DebouncerAssumption DEF HeldEvents, Held, Entries
  <2>3. drained = {} /\ drained' = {HeldEvents[x] : x \in ks}
    BY <1>5, <2>0, <2>2 DEF Drain, DrainFresh
  <2>4. (flushing \cup drained)' =
          (flushing \cup drained) \cup {HeldEvents[x] : x \in ks}
    BY <1>5, <2>3 DEF Drain
  <2>5. UNCHANGED <<submitted, dispatched>>
    BY <1>5 DEF Drain
  <2>6. C!Take(ks)
    BY <2>1, <2>2, <2>4, <2>5 DEF C!Take, HeldEvents
  <2> QED BY <2>6 DEF C!Next
<1>6. ASSUME NEW e \in drained, DrainDispatch(e) PROVE C!Next
  <2>1. (flushing \cup drained)' = (flushing \cup drained) \ {e}
    BY <1>6 DEF DrainDispatch, Apart
  <2>2. /\ UNCHANGED <<submitted, HeldEvents>>
        /\ dispatched' = Append(dispatched, e)
    BY <1>6 DEF DrainDispatch, HeldEvents
  <2>3. C!Dispatch(e)
    BY <2>1, <2>2 DEF C!Dispatch, HeldEvents
  <2> QED BY <2>3 DEF C!Next, Events, C!Events
<1>7. ASSUME DrainReturn PROVE Same
  BY <1>7 DEF DrainReturn, HeldEvents
<1>8. ASSUME Tick PROVE Same
  BY <1>8 DEF Tick, HeldEvents
<1>9. ASSUME UNCHANGED vars PROVE Same
  BY <1>9 DEF vars, HeldEvents
<1> QED BY <1>0, <1>1, <1>2, <1>3, <1>4, <1>5, <1>6, <1>7, <1>8, <1>9 DEF Next

\* The debouncer implements Coalescer: whatever the timers, late goroutines
\* and Drain do, what is dispatched is what each key last got, once.
THEOREM CoalescesCorrect == Spec => Coalesces
<1>1. Init => C!Init
  BY DEF Init, C!Init
<1>2. Located /\ [Next]_vars => [C!Next]_(C!vars)
  BY StepRefines
<1> QED BY <1>1, <1>2, LocatedInvariant, PTL DEF Spec, Coalesces, C!Spec

-----------------------------------------------------------------------------
(* What Coalescer guarantees holds of the debouncer.                       *)

CP == INSTANCE Coalescer_proofs WITH
         held <- [k \in Keys |-> IF pending[k] = None THEN None
                                 ELSE pending[k].event],
         taken <- flushing \cup drained

\* The last event a key got is in its entry, in the hands of a flush or of
\* Drain, or dispatched; and no event is dispatched twice.
THEOREM NothingLostCorrect == Spec => [](C!NothingLost /\ C!DispatchedOnce)
<1>1. CP!CoalescerAssumption
  BY DebouncerAssumption DEF CP!CoalescerAssumption, CP!Events, Events
<1>2. (CP!Init <=> C!Init) /\ ([CP!Next]_(CP!vars) <=> [C!Next]_(C!vars))
  BY DEF CP!Init, C!Init, CP!vars, C!vars, CP!Next, C!Next, CP!Events,
     C!Events, CP!Submit, C!Submit, CP!SubmitThrough, C!SubmitThrough, CP!Take,
     C!Take, CP!Dispatch, C!Dispatch, CP!Occurs, C!Occurs
<1>3. CP!NothingLost /\ CP!DispatchedOnce => C!NothingLost /\ C!DispatchedOnce
  BY DEF CP!NothingLost, C!NothingLost, CP!DispatchedOnce, C!DispatchedOnce,
     CP!Superseded, C!Superseded, CP!Accounted, C!Accounted, CP!Occurs,
     C!Occurs
<1>4. CP!Spec => []CP!NothingLost
  BY <1>1, CP!NothingLostCorrect
<1>5. CP!Spec => []CP!DispatchedOnce
  BY <1>1, CP!DispatchedOnceCorrect
<1> QED BY <1>2, <1>3, <1>4, <1>5, CoalescesCorrect, PTL
        DEF Coalesces, C!Spec, CP!Spec
=============================================================================
