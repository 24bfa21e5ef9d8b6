---------------------------- MODULE EventPipeline ----------------------------
(***************************************************************************)
(* The way of an event from the write that causes it to the subscribers:   *)
(*                                                                         *)
(*   models.Transaction and emit   record it with the write, hand it over  *)
(*                                 after the commit (hooks.go)             *)
(*   EventChan                     bounded channel, a full one drops       *)
(*   worker                        the goroutine of Setup that submits to  *)
(*                                 the debouncer (main.go)                 *)
(*   debouncer                     Coalescer.tla, which Debouncer.tla      *)
(*                                 implements                              *)
(*   DispatchWebhooks, post        one fire-and-forget POST per webhook    *)
(*   main                          Shutdown, Drain, exit; crash, restart   *)
(*                                                                         *)
(* Every write of the handlers that has event hooks runs under             *)
(* models.Transaction, so the branch of emit that sends at once is not     *)
(* taken.                                                                  *)
(***************************************************************************)
EXTENDS Naturals, Sequences, FiniteSets

CONSTANTS Requests,     \* the write requests
          Keys,         \* the (EntityType, EntityID, Type) keys of the events
          Subscribers,  \* the webhooks registered for them
          None,         \* no event
          Buffer,       \* eventChanBuffer
          MaxEvents,    \* BOUND: how many events are recorded
          MaxRestarts   \* BOUND: how often the process goes away

Events == [id : 1..MaxEvents, key : Keys]

ASSUME PipelineAssumption ==
    /\ Buffer \in Nat \ {0}
    /\ MaxEvents \in Nat
    /\ MaxRestarts \in Nat
    /\ None \notin Events

VARIABLES
    debounced,  \* is the configured debounce delay positive?
    phase,      \* per request: "idle", "open", "sending", "done", "failed"
    recorded,   \* per request: pendingEvents, recorded in its transaction
    nextId,     \* the next event to be recorded
    rows,       \* the committed rows of the events table
    chan,       \* EventChan
    worker,     \* the event the worker took from EventChan, or None
    submitted, held, taken, dispatched,  \* the debouncer, see Coalescer.tla
    draining,   \* the events Drain took out, a part of taken
    posts,      \* <<event, subscriber>>: the POSTs under way
    proc,       \* "up", "closed", "draining", "exited", "crashed"
    restarts,   \* how often the process went away
    missed,     \* history: committed events whose live dispatch was given up
    quiet       \* history: Drain met no event on its way to or out of held

coalescer == <<submitted, held, taken, dispatched>>
vars == <<debounced, phase, recorded, nextId, rows, chan, worker, coalescer,
          draining, posts, proc, restarts, missed, quiet>>

C == INSTANCE Coalescer

Phases == {"idle", "open", "sending", "done", "failed"}

TypeOK ==
    /\ debounced \in BOOLEAN
    /\ phase \in [Requests -> Phases]
    /\ recorded \in [Requests -> Seq(Events)]
    /\ nextId \in 1..(MaxEvents + 1)
    /\ rows \in SUBSET Events
    /\ chan \in Seq(Events) /\ Len(chan) <= Buffer
    /\ worker \in Events \cup {None}
    /\ C!TypeOK
    /\ draining \in SUBSET Events
    /\ posts \in SUBSET (Events \X Subscribers)
    /\ proc \in {"up", "closed", "draining", "exited", "crashed"}
    /\ restarts \in 0..MaxRestarts
    /\ missed \in SUBSET Events
    /\ quiet \in BOOLEAN

\* The state of a process that handled nothing yet, after n that went away.
Start(state, n) ==
    /\ debounced \in BOOLEAN
    /\ phase = [r \in Requests |-> "idle"]
    /\ recorded = [r \in Requests |-> <<>>]
    /\ nextId = 1
    /\ rows = {}
    /\ chan = <<>>
    /\ worker = None
    /\ C!Init
    /\ draining = {}
    /\ posts = {}
    /\ proc = state
    /\ restarts = n
    /\ missed = {}
    /\ quiet = FALSE

Init == Start("up", 0)

\* Goroutines run until the process is gone: those of handlers and the
\* worker go on while main drains.
Running == proc \in {"up", "closed", "draining"}

-----------------------------------------------------------------------------
(* A write under models.Transaction. *)

\* The transaction starts, with no event collected.
Begin(r) ==
    /\ Running
    /\ phase[r] = "idle"
    /\ phase' = [phase EXCEPT ![r] = "open"]
    /\ UNCHANGED <<debounced, recorded, nextId, rows, chan, worker, coalescer,
                   draining, posts, proc, restarts, missed, quiet>>

\* emit, from a hook of a write: the row goes into the transaction, the event
\* waits for the commit.
EmitEager(r, k) ==   \* mutant: the hook hands the event over before the commit
    /\ Running
    /\ phase[r] = "open"
    /\ nextId <= MaxEvents
    /\ Len(chan) < Buffer
    /\ chan' = Append(chan, [id |-> nextId, key |-> k])
    /\ nextId' = nextId + 1
    /\ UNCHANGED <<debounced, phase, recorded, rows, worker, coalescer,
                   draining, posts, proc, restarts, missed, quiet>>
Emit(r, k) ==
    /\ Running
    /\ phase[r] = "open"
    /\ nextId <= MaxEvents
    /\ recorded' = [recorded EXCEPT ![r] =
                       Append(@, [id |-> nextId, key |-> k])]
    /\ nextId' = nextId + 1
    /\ UNCHANGED <<debounced, phase, rows, chan, worker, coalescer, draining,
                   posts, proc, restarts, missed, quiet>>

\* The events r has recorded and not handed over.
Recorded(r) == {recorded[r][i] : i \in DOMAIN recorded[r]}

\* The commit makes the rows visible.
Commit(r) ==
    /\ Running
    /\ phase[r] = "open"
    /\ rows' = rows \cup Recorded(r)
    /\ phase' = [phase EXCEPT ![r] = "sending"]
    /\ UNCHANGED <<debounced, recorded, nextId, chan, worker, coalescer,
                   draining, posts, proc, restarts, missed, quiet>>

\* A statement, an event insert or the commit fails: Transaction returns the
\* error, the rows are gone with the write and nothing is handed over.
Rollback(r) ==
    /\ Running
    /\ phase[r] = "open"
    /\ phase' = [phase EXCEPT ![r] = "failed"]
    /\ recorded' = [recorded EXCEPT ![r] = <<>>]
    /\ UNCHANGED <<debounced, nextId, rows, chan, worker, coalescer, draining,
                   posts, proc, restarts, missed, quiet>>

\* sendNonBlock of the next event of r: a full channel drops it.
RoomOffByOne == Len(chan) <= Buffer   \* mutant: one more than fits
Room == Len(chan) < Buffer
SendLastOnly(r) ==   \* mutant: only the last event of a transaction is sent
    /\ Running
    /\ phase[r] = "sending"
    /\ recorded[r] # <<>>
    /\ recorded' = [recorded EXCEPT ![r] = <<>>]
    /\ \/ /\ Room
          /\ chan' = Append(chan, recorded[r][Len(recorded[r])])
          /\ UNCHANGED missed
       \/ /\ ~ Room
          /\ missed' = missed \cup {recorded[r][Len(recorded[r])]}
          /\ UNCHANGED chan
    /\ UNCHANGED <<debounced, phase, nextId, rows, worker, coalescer,
                   draining, posts, proc, restarts, quiet>>
Send(r) ==
    /\ Running
    /\ phase[r] = "sending"
    /\ recorded[r] # <<>>
    /\ recorded' = [recorded EXCEPT ![r] = Tail(@)]
    /\ \/ /\ Room
          /\ chan' = Append(chan, Head(recorded[r]))
          /\ UNCHANGED missed
       \/ /\ ~ Room
          /\ missed' = missed \cup {Head(recorded[r])}
          /\ UNCHANGED chan
    /\ UNCHANGED <<debounced, phase, nextId, rows, worker, coalescer,
                   draining, posts, proc, restarts, quiet>>

\* Every event was sent, Transaction returns.
Finish(r) ==
    /\ Running
    /\ phase[r] = "sending"
    /\ recorded[r] = <<>>
    /\ phase' = [phase EXCEPT ![r] = "done"]
    /\ UNCHANGED <<debounced, recorded, nextId, rows, chan, worker, coalescer,
                   draining, posts, proc, restarts, missed, quiet>>

-----------------------------------------------------------------------------
(* The worker, the debouncer and the dispatch. *)

\* for event := range EventChan
ReceivePeek ==   \* mutant: the event stays in the channel
    /\ Running
    /\ worker = None
    /\ chan # <<>>
    /\ worker' = Head(chan)
    /\ UNCHANGED <<debounced, phase, recorded, nextId, rows, chan, coalescer,
                   draining, posts, proc, restarts, missed, quiet>>
Receive ==
    /\ Running
    /\ worker = None
    /\ chan # <<>>
    /\ worker' = Head(chan)
    /\ chan' = Tail(chan)
    /\ UNCHANGED <<debounced, phase, recorded, nextId, rows, coalescer,
                   draining, posts, proc, restarts, missed, quiet>>

\* The POSTs a dispatch starts.  A failing query starts none, a request that
\* cannot be built ends the loop over the webhooks, whose order is open.
Post(e) == \E reached \in SUBSET Subscribers :
              posts' = posts \cup ({e} \X reached)

\* debouncer.Submit; nothing keeps the worker from it once Drain has begun.
WorkerMute ==   \* mutant: without debouncing the event goes nowhere
    /\ Running
    /\ worker # None
    /\ worker' = None
    /\ IF debounced THEN C!Submit(worker) ELSE UNCHANGED coalescer
    /\ UNCHANGED <<debounced, phase, recorded, nextId, rows, chan, draining,
                   posts, proc, restarts, missed, quiet>>
WorkerSubmit ==
    /\ Running
    /\ worker # None
    /\ worker' = None
    /\ \/ debounced /\ C!Submit(worker) /\ UNCHANGED posts
       \/ ~ debounced /\ C!SubmitThrough(worker) /\ Post(worker)
    /\ UNCHANGED <<debounced, phase, recorded, nextId, rows, chan, draining,
                   proc, restarts, missed, quiet>>

\* The timer of a key: flush up to the unlock.
Flush(k) ==
    /\ Running
    /\ C!Take({k})
    /\ UNCHANGED <<debounced, phase, recorded, nextId, rows, chan, worker,
                   draining, posts, proc, restarts, missed, quiet>>

\* flush after the unlock: DispatchWebhooks.
Dispatch(e) ==
    /\ Running
    /\ e \notin draining
    /\ C!Dispatch(e)
    /\ Post(e)
    /\ UNCHANGED <<debounced, phase, recorded, nextId, rows, chan, worker,
                   draining, proc, restarts, missed, quiet>>

\* A POST ends: delivered, refused or timed out.  It is not tried again.
PostEnds(p) ==
    /\ Running
    /\ p \in posts
    /\ posts' = posts \ {p}
    /\ UNCHANGED <<debounced, phase, recorded, nextId, rows, chan, worker,
                   coalescer, draining, proc, restarts, missed, quiet>>

-----------------------------------------------------------------------------
(* main: SIGTERM, Drain, exit.  Listen returns when the listeners are      *)
(* closed, without waiting for the handlers under way.                     *)

Shutdown ==
    /\ proc = "up"
    /\ proc' = "closed"
    /\ UNCHANGED <<debounced, phase, recorded, nextId, rows, chan, worker,
                   coalescer, draining, posts, restarts, missed, quiet>>

\* No handler, no event on its way to the debouncer, no flush.
NothingUnderWay ==
    /\ \A r \in Requests : phase[r] \in {"done", "failed"}
    /\ chan = <<>> /\ worker = None /\ taken = {}

DrainHalf ==   \* mutant: Drain leaves an entry behind
    /\ proc = "closed"
    /\ proc' = "draining"
    /\ \E ks \in SUBSET Keys :
          /\ Cardinality(ks) <= 1
          /\ C!Take(ks)
          /\ draining' = {held[k] : k \in ks}
    /\ quiet' = NothingUnderWay
    /\ UNCHANGED <<debounced, phase, recorded, nextId, rows, chan, worker,
                   posts, restarts, missed>>
Drain ==
    /\ proc = "closed"
    /\ proc' = "draining"
    /\ LET ks == {k \in Keys : held[k] # None} IN
       /\ C!Take(ks)
       /\ draining' = {held[k] : k \in ks}
    /\ quiet' = NothingUnderWay
    /\ UNCHANGED <<debounced, phase, recorded, nextId, rows, chan, worker,
                   posts, restarts, missed>>

DrainDispatch(e) ==
    /\ proc = "draining"
    /\ e \in draining
    /\ draining' = draining \ {e}
    /\ C!Dispatch(e)
    /\ Post(e)
    /\ UNCHANGED <<debounced, phase, recorded, nextId, rows, chan, worker,
                   proc, restarts, missed, quiet>>

\* Drain has returned, main returns and the process with all its goroutines
\* is gone.
Exit ==
    /\ proc = "draining"
    /\ draining = {}
    /\ proc' = "exited"
    /\ UNCHANGED <<debounced, phase, recorded, nextId, rows, chan, worker,
                   coalescer, draining, posts, restarts, missed, quiet>>

\* The process is killed.
Crash ==
    /\ Running
    /\ restarts < MaxRestarts
    /\ proc' = "crashed"
    /\ UNCHANGED <<debounced, phase, recorded, nextId, rows, chan, worker,
                   coalescer, draining, posts, restarts, missed, quiet>>

\* A new process: the database is what is left of the old one.  Open
\* transactions are rolled back; nothing dispatches the committed events the
\* old process still had in memory.
Restart ==
    /\ proc \in {"exited", "crashed"}
    /\ restarts < MaxRestarts
    /\ restarts' = restarts + 1
    /\ proc' = "up"
    /\ phase' = [r \in Requests |-> IF phase[r] \in {"open", "sending"}
                                     THEN "failed" ELSE phase[r]]
    /\ recorded' = [r \in Requests |-> <<>>]
    /\ chan' = <<>>
    /\ worker' = None
    /\ submitted' = <<>>
    /\ held' = [k \in Keys |-> None]
    /\ taken' = {}
    /\ dispatched' = <<>>
    /\ draining' = {}
    /\ posts' = {}
    /\ missed' = rows
    /\ quiet' = FALSE
    /\ UNCHANGED <<debounced, nextId, rows>>

-----------------------------------------------------------------------------
Handler(r) == Commit(r) \/ Rollback(r) \/ Send(r) \/ Finish(r)

Next ==
    \/ \E r \in Requests : \/ Begin(r)
                           \/ \E k \in Keys : Emit(r, k)
                           \/ Handler(r)
    \/ Receive
    \/ WorkerSubmit
    \/ \E k \in Keys : Flush(k)
    \/ \E e \in taken : Dispatch(e)
    \/ \E p \in posts : PostEnds(p)
    \/ Shutdown
    \/ Drain
    \/ \E e \in draining : DrainDispatch(e)
    \/ Exit
    \/ Crash
    \/ Restart

Spec == Init /\ [][Next]_vars

\* Goroutines are scheduled: handlers end what they began, the worker takes
\* what comes, an entry's timer takes it out (Debouncer.tla), dispatches and
\* POSTs come to an end (a POST has a deadline), main goes on after Shutdown.
\* Requests, SIGTERM, crashes and restarts need not come.
Fairness ==
    /\ \A r \in Requests : WF_vars(Handler(r))
    /\ WF_vars(Receive)
    /\ WF_vars(WorkerSubmit)
    /\ \A k \in Keys : WF_vars(Flush(k))
    /\ \A e \in Events : WF_vars(Dispatch(e)) /\ WF_vars(DrainDispatch(e))
    /\ WF_vars(\E p \in posts : PostEnds(p))
    /\ WF_vars(Drain)
    /\ WF_vars(Exit)

FairSpec == Spec /\ Fairness

-----------------------------------------------------------------------------
(* Properties *)

InChan == {chan[i] : i \in DOMAIN chan}
Submitted == {submitted[i] : i \in DOMAIN submitted}

\* hooks.go:83-86: "no receiver is told about a change that never happened":
\* what is on its way to the subscribers has its row, through rollbacks, drops
\* and restarts.
NoPhantom ==
    InChan \cup ({worker} \ {None}) \cup Submitted
       \cup {p[1] : p \in posts} \subseteq rows

\* A committed event is still to be sent by its request, given up (dropped by
\* a full channel or gone with a process), in the channel, with the worker, or
\* with the debouncer, which holds it unless a newer one of its key took over.
Unsent == UNION {Recorded(r) : r \in {q \in Requests : phase[q] = "sending"}}
EverythingAccounted ==
    /\ rows \subseteq Unsent \cup missed \cup InChan \cup {worker}
                  \cup Submitted
    /\ C!NothingLost

\* No event is on two legs of its way at once, nor dispatched twice: a retry
\* by a newer process included.
OneLeg ==
    /\ Unsent \cap (InChan \cup Submitted \cup missed) = {}
    /\ InChan \cap Submitted = {} /\ worker \notin InChan \cup Submitted
    /\ missed \cap (InChan \cup {worker} \cup Submitted) = {}
    /\ C!DispatchedOnce

\* While the process is up, an event that made it into the channel is
\* dispatched, itself or one of its key that was submitted after it.
ChannelDispatched ==
    \A e \in Events :
       e \in InChan ~> \/ \E i \in DOMAIN submitted :
                             /\ submitted[i] = e
                             /\ \E j \in DOMAIN submitted :
                                   /\ j >= i
                                   /\ submitted[j].key = e.key
                                   /\ C!Occurs(submitted[j], dispatched)
                       \/ proc # "up"

\* What the debouncer ever got is dispatched, itself or a newer event.
AllDispatched == \A i \in DOMAIN submitted :
                    C!Superseded(i) \/ C!Occurs(submitted[i], dispatched)

\* If Drain meets no handler, no event on its way to the debouncer and no
\* flush under way, what the debouncer held is dispatched before the process
\* exits (main.go:56-60, Drain in debouncer.go): the part of the promise of a
\* graceful shutdown the code keeps.
QuietDrainDispatches == proc = "exited" /\ quiet => AllDispatched

\* main.go:56-58: "Drain runs after Listen returns so any webhook event held in
\* the debouncer's pending window is dispatched before the process exits."
ExitDispatches == proc = "exited" => AllDispatched
=============================================================================
