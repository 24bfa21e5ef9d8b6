------------------------------ MODULE Coalescer ------------------------------
(***************************************************************************)
(* What the webhook debouncer promises, without its timers.                *)
(*                                                                         *)
(* Events come in, at most one per key is held, a newer event of a key     *)
(* replaces the one held for that key, and the events taken out of the     *)
(* hold are handed to the dispatcher one by one.  Debouncer.tla implements *)
(* this specification with timers, EventPipeline.tla composes it with the  *)
(* rest of the event path.                                                 *)
(***************************************************************************)
EXTENDS Naturals, Sequences

CONSTANTS Keys,       \* the (EntityType, EntityID, Type) keys of events
          MaxEvents,  \* BOUND: events are numbered 1..MaxEvents
          None        \* stands for "nothing held"

\* An event as far as the debouncer tells events apart: which one it is (its
\* UUID) and the key it coalesces on.
Events == [id : 1..MaxEvents, key : Keys]

\* What the theorems about this module suppose of the constants.
CoalescerAssumption == MaxEvents \in Nat /\ None \notin Events

VARIABLES submitted,   \* the events submitted so far, in order
          held,        \* per key, the event waiting to be taken, or None
          taken,       \* events taken out of the hold, not yet dispatched
          dispatched   \* the events the dispatcher was called with, in order

vars == <<submitted, held, taken, dispatched>>

Occurs(e, seq) == \E i \in DOMAIN seq : seq[i] = e

TypeOK == /\ submitted \in Seq(Events)
          /\ held \in [Keys -> Events \cup {None}]
          /\ taken \in SUBSET Events
          /\ dispatched \in Seq(Events)

Init == /\ submitted = <<>>
        /\ held = [k \in Keys |-> None]
        /\ taken = {}
        /\ dispatched = <<>>

\* An event is submitted and replaces the one its key held.
Submit(e) == /\ ~ Occurs(e, submitted)
             /\ submitted' = Append(submitted, e)
             /\ held' = [held EXCEPT ![e.key] = e]
             /\ UNCHANGED <<taken, dispatched>>

\* With debouncing off an event is dispatched as it is submitted.
SubmitThrough(e) == /\ ~ Occurs(e, submitted)
                    /\ submitted' = Append(submitted, e)
                    /\ dispatched' = Append(dispatched, e)
                    /\ UNCHANGED <<held, taken>>

\* The events held for some keys are taken out at once: a timer takes one,
\* a drain takes all there are.
Take(ks) == /\ \A k \in ks : held[k] # None
            /\ held' = [k \in Keys |-> IF k \in ks THEN None ELSE held[k]]
            /\ taken' = taken \cup {held[k] : k \in ks}
            /\ UNCHANGED <<submitted, dispatched>>

\* One of the events taken out reaches the dispatcher.
Dispatch(e) == /\ e \in taken
               /\ taken' = taken \ {e}
               /\ dispatched' = Append(dispatched, e)
               /\ UNCHANGED <<submitted, held>>

Next == \/ \E e \in Events : Submit(e) \/ SubmitThrough(e)
        \/ \E ks \in SUBSET Keys : Take(ks)
        \/ \E e \in Events : Dispatch(e)

Spec == Init /\ [][Next]_vars

-----------------------------------------------------------------------------
\* e was followed by a newer event of its key, which carries the same news.
Superseded(i) ==
    \E j \in DOMAIN submitted : j > i /\ submitted[j].key = submitted[i].key

\* Where the i-th event submitted is, if it is anywhere.
Accounted(i) == LET e == submitted[i] IN
                \/ held[e.key] = e
                \/ e \in taken
                \/ Occurs(e, dispatched)

\* No event is lost: one that no newer event of its key replaced is held,
\* on its way to the dispatcher, or dispatched.
NothingLost == \A i \in DOMAIN submitted : Superseded(i) \/ Accounted(i)

\* No event reaches the dispatcher twice, whichever mix of timers and drain
\* took it out, and what is still held or taken was not dispatched before.
DispatchedOnce ==
    /\ \A i, j \in DOMAIN dispatched : dispatched[i] = dispatched[j] => i = j
    /\ \A k \in Keys : ~ Occurs(held[k], dispatched) /\ held[k] \notin taken
    /\ \A e \in taken : ~ Occurs(e, dispatched)
=============================================================================
