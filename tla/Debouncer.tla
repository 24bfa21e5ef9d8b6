------------------------------ MODULE Debouncer ------------------------------
(***************************************************************************)
(* internal/webhooks/debouncer.go: bursts of webhook events on one         *)
(* (EntityType, EntityID, Type) key collapse into a single dispatch.       *)
(*                                                                         *)
(* Submit, flush and Drain run under one mutex, so each critical section   *)
(* is one step; what happens outside it is a step of its own: the runtime  *)
(* starting a timer's goroutine (Fire), that goroutine getting the mutex   *)
(* (Flush) and the dispatch after it let the mutex go (Dispatch,           *)
(* DrainDispatch).  A timer that has fired cannot be stopped any more, and *)
(* the code ignores what Stop returns.                                     *)
(***************************************************************************)
EXTENDS Integers, Sequences

CONSTANTS Keys,       \* the (EntityType, EntityID, Type) keys
          None,       \* no entry in the map
          Delays,     \* the delays it may be configured with
          Cap,        \* longest time from the first Submit, 0: no cap
          Lateness,   \* how late the runtime may start or schedule a due timer
          MaxEvents,  \* BOUND: how many events are submitted
          MaxTime     \* BOUND: the clock stops here

Events == [id : 1..MaxEvents, key : Keys]

\* What the map holds for a key.  The timer of an entry is the one its last
\* Submit made, so the entry's event identifies it.  History: since, when the
\* Submit that made the entry came.
Entries == [event : Events, deadline : Nat, since : Nat]

\* A timer made by Submit(event), due at a time.
Timers == [event : Events, at : Nat]

ASSUME DebouncerAssumption ==
    /\ Delays \subseteq Nat
    /\ Cap \in Nat
    /\ Lateness \in Nat
    /\ MaxEvents \in Nat
    /\ MaxTime \in Nat
    /\ None \notin Events
    /\ None \notin Entries

VARIABLES delay,       \* quiet time before a dispatch, 0: debouncing off
          now,         \* the clock
          submitted,   \* the events submitted so far, in order
          pending,     \* the map: per key an entry or None
          armed,       \* timers the runtime has not started yet
          firing,      \* timers whose goroutine waits for the mutex in flush
          flushing,    \* events flush took out, its dispatch still to come
          drain,       \* Drain: "idle", "dispatching", "returned"
          drained,     \* events Drain took out, their dispatch still to come
          dispatched   \* the events the dispatcher was called with, in order

vars == <<delay, now, submitted, pending, armed, firing, flushing, drain,
          drained, dispatched>>

TypeOK ==
    /\ delay \in Delays
    /\ now \in 0..MaxTime
    /\ submitted \in Seq(Events)
    /\ pending \in [Keys -> Entries \cup {None}]
    /\ armed \in SUBSET Timers
    /\ firing \in SUBSET Timers
    /\ flushing \in SUBSET Events
    /\ drain \in {"idle", "dispatching", "returned"}
    /\ drained \in SUBSET Events
    /\ dispatched \in Seq(Events)

Init ==
    /\ delay \in Delays
    /\ now = 0
    /\ submitted = <<>>
    /\ pending = [k \in Keys |-> None]
    /\ armed = {}
    /\ firing = {}
    /\ flushing = {}
    /\ drain = "idle"
    /\ drained = {}
    /\ dispatched = <<>>

-----------------------------------------------------------------------------
\* The cap runs from the Submit that made the entry; replacing its event
\* leaves the deadline alone.
DeadlineOfMoved(k) == now + Cap   \* mutant: every Submit moves the deadline
DeadlineBefore(k) ==              \* mutant: the cap is subtracted
    IF pending[k] = None THEN now - Cap ELSE pending[k].deadline
Deadline(k) == IF pending[k] = None THEN now + Cap ELSE pending[k].deadline

Since(k) == IF pending[k] = None THEN now ELSE pending[k].since

\* How long the new timer waits: the delay, cut down to what is left of the
\* cap when there is one, and never negative.
Wait(deadline) ==
    LET remaining == deadline - now IN
    IF Cap = 0 \/ remaining >= delay THEN delay
    ELSE IF remaining < 0 THEN 0 ELSE remaining

\* prev.timer.Stop() for the entry of key k: it takes a timer that was not
\* started, and does nothing to one that was.
StoppedAll(k) == {t \in armed : FALSE}  \* mutant: every timer is stopped
Stopped(k) == {t \in armed : pending[k] = None \/ t.event # pending[k].event}

\* Submit(e), debouncing on.
SubmitHeld(e) ==
    /\ delay > 0
    /\ submitted' = Append(submitted, e)
    /\ pending' = [pending EXCEPT ![e.key] =
                      [event |-> e, deadline |-> Deadline(e.key),
                       since |-> Since(e.key)]]
    /\ armed' = Stopped(e.key)
                  \cup {[event |-> e, at |-> now + Wait(Deadline(e.key))]}
    /\ UNCHANGED <<delay, now, firing, flushing, drain, drained, dispatched>>

\* Submit(e), debouncing off: the dispatcher runs in the caller.
SubmitSilent(e) ==        \* mutant: Submit returns before the dispatch
    /\ delay = 0
    /\ submitted' = Append(submitted, e)
    /\ UNCHANGED <<delay, now, pending, armed, firing, flushing, drain,
                   drained, dispatched>>
SubmitDirect(e) ==
    /\ delay = 0
    /\ submitted' = Append(submitted, e)
    /\ dispatched' = Append(dispatched, e)
    /\ UNCHANGED <<delay, now, pending, armed, firing, flushing, drain,
                   drained>>

\* Submit is not to be called concurrently with Drain or after it
\* (debouncer.go:102), and nothing in it refuses: the worker of main does call
\* it then, see EventPipeline.tla, so it comes at any time.  Events are
\* numbered in the order they come.
Submit(e) ==
    /\ e.id = Len(submitted) + 1
    /\ now + delay <= MaxTime
    /\ SubmitHeld(e) \/ SubmitDirect(e)

\* The runtime starts the goroutine of a due timer.
Fire(t) ==
    /\ t \in armed
    /\ t.at <= now
    /\ armed' = armed \ {t}
    /\ firing' = firing \cup {t}
    /\ UNCHANGED <<delay, now, submitted, pending, flushing, drain, drained,
                   dispatched>>

\* flush(key): the goroutine of t takes out whatever its key holds by now.
FlushKeeping(t) ==   \* mutant: the entry stays in the map
    /\ t \in firing
    /\ firing' = firing \ {t}
    /\ IF pending[t.event.key] = None
       THEN UNCHANGED flushing
       ELSE flushing' = flushing \cup {pending[t.event.key].event}
    /\ UNCHANGED <<delay, now, submitted, pending, armed, drain, drained,
                   dispatched>>
Flush(t) ==
    /\ t \in firing
    /\ firing' = firing \ {t}
    /\ LET entry == pending[t.event.key] IN
       \/ /\ entry = None
          /\ UNCHANGED <<pending, flushing>>
       \/ /\ entry # None
          /\ pending' = [pending EXCEPT ![t.event.key] = None]
          /\ flushing' = flushing \cup {entry.event}
    /\ UNCHANGED <<delay, now, submitted, armed, drain, drained, dispatched>>

\* flush after the unlock: safeDispatch.
Dispatch(e) ==
    /\ e \in flushing
    /\ flushing' = flushing \ {e}
    /\ dispatched' = Append(dispatched, e)
    /\ UNCHANGED <<delay, now, submitted, pending, armed, firing, drain,
                   drained>>

Held == {k \in Keys : pending[k] # None}

\* Drain under the mutex: the timers of the entries are stopped, a timer no
\* entry owns any more is not.
Drain ==
    /\ drain = "idle"
    /\ drain' = "dispatching"
    /\ armed' = {t \in armed : \A k \in Held : t.event # pending[k].event}
    /\ drained' = {pending[k].event : k \in Held}
    /\ pending' = [k \in Keys |-> None]
    /\ UNCHANGED <<delay, now, submitted, firing, flushing, dispatched>>

\* Drain after the unlock: safeDispatch of each event it collected.
DrainDispatch(e) ==
    /\ drain = "dispatching"
    /\ e \in drained
    /\ drained' = drained \ {e}
    /\ dispatched' = Append(dispatched, e)
    /\ UNCHANGED <<delay, now, submitted, pending, armed, firing, flushing,
                   drain>>

DrainReturn ==
    /\ drain = "dispatching"
    /\ drained = {}
    /\ drain' = "returned"
    /\ UNCHANGED <<delay, now, submitted, pending, armed, firing, flushing,
                   drained, dispatched>>

\* Time passes; a due timer or its goroutine waits at most Lateness.
Tick ==
    /\ now < MaxTime
    /\ \A t \in armed \cup firing : now < t.at + Lateness
    /\ now' = now + 1
    /\ UNCHANGED <<delay, submitted, pending, armed, firing, flushing, drain,
                   drained, dispatched>>

Next ==
    \/ \E e \in Events : Submit(e)
    \/ \E t \in armed : Fire(t)
    \/ \E t \in firing : Flush(t)
    \/ \E e \in flushing : Dispatch(e)
    \/ Drain
    \/ \E e \in drained : DrainDispatch(e)
    \/ DrainReturn
    \/ Tick

Spec == Init /\ [][Next]_vars

\* Time goes on, the runtime starts due timers and schedules goroutines, and
\* once started Drain runs to its end.  Nobody has to submit or to drain.
Fairness ==
    /\ WF_vars(Tick)
    /\ \A e \in Events :
          /\ WF_vars(\E t \in armed : t.event = e /\ Fire(t))
          /\ WF_vars(\E t \in firing : t.event = e /\ Flush(t))
          /\ WF_vars(Dispatch(e))
          /\ WF_vars(DrainDispatch(e))
    /\ WF_vars(DrainReturn)

FairSpec == Spec /\ Fairness

-----------------------------------------------------------------------------
(* Properties *)

\* The debouncer without its timers (Coalescer.tla).
C == INSTANCE Coalescer WITH
        held <- [k \in Keys |-> IF pending[k] = None THEN None
                                ELSE pending[k].event],
        taken <- flushing \cup drained

\* The timers implement coalescing: what flush and Drain take is what the
\* key last got, once (Submit, flush and Drain of debouncer.go).
Coalesces == C!Spec

\* An entry never sits in the map without the timer that will take it out:
\* the race of a fired timer with a Submit that re-arms (Stop returning
\* false, debouncer.go:72) or with Drain strands nothing.
NothingStranded ==
    \A k \in Held : \E t \in armed \cup firing : t.event = pending[k].event

\* No key waits in the map longer than the cap from the Submit that made its
\* entry, however often it is resubmitted, if timers are started on time
\* (debouncer.go:17-19, the deadline kept at 70-80 and the wait at 82-91).
CapHonoured ==
    Cap > 0 /\ Lateness = 0 => \A k \in Held : now <= pending[k].since + Cap

\* Whatever is submitted is dispatched, itself or a newer event of its key,
\* even when Drain comes in between.
EventuallyDispatched ==
    \A n \in 1..MaxEvents :
       Len(submitted) >= n
         ~> \E i \in DOMAIN dispatched :
               /\ dispatched[i].id >= n
               /\ dispatched[i].key = submitted[n].key

\* debouncer.go:17-18: "A trailing timer fires `delay` after the last Submit
\* for that key": an entry is taken out by Drain or after its own timer, the
\* one its last Submit made, was started.
TrailingEdge ==
    [][\A k \in Held : /\ pending'[k] = None
                       /\ drain' = drain
                       => \A t \in armed : t.event # pending[k].event]_vars
=============================================================================
