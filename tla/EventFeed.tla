------------------------------ MODULE EventFeed ------------------------------
(***************************************************************************)
(* The audit trail as a table that handlers write, GET /v1/events reads    *)
(* page by page and the purge cuts off at its old end.                     *)
(*                                                                         *)
(*   handlers          insert a row in a transaction (hooks.go)            *)
(*   GetEvents         one page, newest first, with a link to the next     *)
(*                     one (events.go, crud.go, general/)                  *)
(*   StartEventPurge   a goroutine that deletes what is past the           *)
(*                     retention, at startup and with every tick           *)
(*   main              stops the purge after Drain, exits; crash, restart  *)
(*                                                                         *)
(* EventPipeline.tla has the way of the events to the subscribers; neither *)
(* reads the state of the other.                                           *)
(***************************************************************************)
EXTENDS Naturals, Sequences, FiniteSets

CONSTANTS Entities,   \* what events are about
          Filters,    \* the entities that may pass the filter of a query
          Sizes,      \* values of page[size]
          MaxWritten, \* BOUND: how many events are inserted
          MaxDowns    \* BOUND: how often the process goes away

ASSUME FeedAssumption ==
    /\ Filters \subseteq SUBSET Entities
    /\ Sizes \subseteq Nat \ {0}
    /\ MaxWritten \in Nat
    /\ MaxDowns \in Nat

VARIABLES
    written,    \* the events in the order of created_at, with what became
                \* of their transaction
    aged,       \* the first of them that are older than the retention
    purged,     \* the committed ones that were deleted
    retention,  \* EVENT_RETENTION_DAYS is not 0
    purger,     \* the goroutine: "off", "purging", "waiting"
    life,       \* the process: "up", "stopping", "down"
    downs,      \* how often it went away
    walk        \* a client that follows the links of a list

feedVars ==
    <<written, aged, purged, retention, purger, life, downs, walk>>

Positions == 1..MaxWritten

\* The query a client sends: a filter, the size of a page and the cursor, which
\* is the last event of the page before.
Queries == [filter : Filters \cup {Entities}, size : Sizes,
            after : 1..(MaxWritten + 1)]

\* A client: what it asks for next, what it has got; history: what it asked
\* for first, and the events that were there when it began.
NoQuery == [filter |-> {}, size |-> 0, after |-> 0]
Walks == [doing : {"nothing", "asking", "finished"},
          next : Queries \cup {NoQuery}, asked : Filters \cup {{}},
          got : Seq(SUBSET Positions), there : SUBSET Positions]

FeedTypeOK ==
    /\ written \in Seq([about : Entities,
                        state : {"open", "committed", "undone"}])
    /\ aged \in 0..Len(written)
    /\ purged \in SUBSET (DOMAIN written)
    /\ retention \in BOOLEAN
    /\ purger \in {"off", "purging", "waiting"}
    /\ life \in {"up", "stopping", "down"}
    /\ downs \in 0..MaxDowns
    /\ walk \in Walks

\* A trail without events, after n processes that went away.
FeedStart(state, n) ==
    /\ written = <<>>
    /\ aged = 0
    /\ purged = {}
    /\ retention \in BOOLEAN
    /\ purger = IF retention THEN "purging" ELSE "off"
    /\ life = state
    /\ downs = n
    /\ walk = [doing |-> "nothing", next |-> NoQuery, asked |-> {},
               got |-> <<>>, there |-> {}]

FeedInit == FeedStart("up", 0)

\* The rows a query sees.
Visible == {i \in DOMAIN written : written[i].state = "committed"} \ purged

-----------------------------------------------------------------------------
(* The handlers: created_at is set with the insert, the row is seen with   *)
(* the commit, and commits need not come in the order of created_at.       *)

ServerUp == life # "down"

Insert(x) ==
    /\ ServerUp
    /\ Len(written) < MaxWritten
    /\ written' = Append(written, [about |-> x, state |-> "open"])
    /\ UNCHANGED <<aged, purged, retention, purger, life, downs, walk>>

\* A transaction that rolls back is one that never commits.
CommitRow(i) ==
    /\ ServerUp
    /\ written[i].state = "open"
    /\ written' = [written EXCEPT ![i].state = "committed"]
    /\ UNCHANGED <<aged, purged, retention, purger, life, downs, walk>>

\* The rows of transactions that come to no commit any more.
Undone(i) == IF written[i].state = "open"
             THEN [written[i] EXCEPT !.state = "undone"] ELSE written[i]

\* Days go by, and no transaction lasts as long as the retention.  Without one
\* nothing is older than it.
GrowOld ==
    /\ retention
    /\ aged < Len(written)
    /\ aged' = aged + 1
    /\ written' = [written EXCEPT ![aged + 1] = Undone(aged + 1)]
    /\ UNCHANGED <<purged, retention, purger, life, downs, walk>>

-----------------------------------------------------------------------------
(* The purge. *)

\* PurgeEvents, one DELETE: the rows created before the cutoff.
Purge ==
    /\ ServerUp
    /\ purger = "purging"
    /\ purged' = purged \cup {i \in Visible : i <= aged}
    /\ purger' = "waiting"
    /\ UNCHANGED <<written, aged, retention, life, downs, walk>>

\* The DELETE fails: the goroutine logs it and goes on as after a success.
PurgeGivesUp ==   \* mutant: it returns
    /\ ServerUp
    /\ purger = "purging"
    /\ purger' = "off"
    /\ UNCHANGED <<written, aged, purged, retention, life, downs, walk>>
PurgeFails ==
    /\ ServerUp
    /\ purger = "purging"
    /\ purger' = "waiting"
    /\ UNCHANGED <<written, aged, purged, retention, life, downs, walk>>

\* The next tick.
Tick ==
    /\ ServerUp
    /\ purger = "waiting"
    /\ purger' = "purging"
    /\ UNCHANGED <<written, aged, purged, retention, life, downs, walk>>

\* The other case of the select; with both ready either is taken.
PurgerReturns ==
    /\ life = "stopping"
    /\ purger = "waiting"
    /\ purger' = "off"
    /\ UNCHANGED <<written, aged, purged, retention, life, downs, walk>>

-----------------------------------------------------------------------------
(* main: after Drain it calls the function that StartEventPurge returned,  *)
(* and does not wait for a purge under way.                                *)

StopPurge ==
    /\ life = "up"
    /\ life' = "stopping"
    /\ UNCHANGED <<written, aged, purged, retention, purger, downs, walk>>

\* The process returns from main or is killed; open transactions are undone.
Gone(from) ==
    /\ life = from
    /\ life' = "down"
    /\ purger' = "off"
    /\ written' = [i \in DOMAIN written |-> Undone(i)]
    /\ UNCHANGED <<aged, purged, retention, downs, walk>>

Exits == Gone("stopping")
Killed == downs < MaxDowns /\ Gone("up")

Starts ==
    /\ life = "down"
    /\ downs < MaxDowns
    /\ downs' = downs + 1
    /\ life' = "up"
    /\ purger' = IF retention THEN "purging" ELSE "off"
    /\ UNCHANGED <<written, aged, purged, retention, walk>>

-----------------------------------------------------------------------------
(* GetEvents. *)

\* A client asks for the first page, with a filter or with none.
Ask(filter, size) ==
    /\ ServerUp
    /\ walk.doing = "nothing"
    /\ walk' = [doing |-> "asking", asked |-> filter, got |-> <<>>,
                next |-> [filter |-> filter, size |-> size,
                          after |-> MaxWritten + 1],
                there |-> {i \in Visible : written[i].about \in filter}]
    /\ UNCHANGED <<written, aged, purged, retention, purger, life, downs>>

\* The rows a query matches after its cursor, in the order DESC of (created_at,
\* id).
Matching(q) ==
    {i \in Visible : written[i].about \in q.filter /\ i < q.after}

\* A page: as many of the newest of them as fit.
IsPage(page, q) ==
    /\ \A i \in page, j \in Matching(q) \ page : j < i
    /\ \/ Cardinality(page) = q.size
       \/ page = Matching(q) /\ Cardinality(page) < q.size

\* NewPaginationLinks: the parameters of the request with another cursor.
LinkBare(q, page) ==    \* mutant: the link has nothing but the cursor
    [q EXCEPT !.filter = Entities,
              !.after = CHOOSE i \in page : \A j \in page : i <= j]
Link(q, page) ==
    [q EXCEPT !.after = CHOOSE i \in page : \A j \in page : i <= j]

\* The answer: a page, and a link to the next one when there are more rows.
Page ==
    /\ ServerUp
    /\ walk.doing = "asking"
    /\ \E page \in SUBSET Matching(walk.next) :
          /\ IsPage(page, walk.next)
          /\ walk' = IF page = Matching(walk.next)
                     THEN [walk EXCEPT !.got = Append(@, page),
                                       !.doing = "finished",
                                       !.next = NoQuery]
                     ELSE [walk EXCEPT !.got = Append(@, page),
                                       !.next = Link(@, page)]
    /\ UNCHANGED <<written, aged, purged, retention, purger, life, downs>>

FeedNext ==
    \/ \E x \in Entities : Insert(x)
    \/ \E i \in DOMAIN written : CommitRow(i)
    \/ GrowOld
    \/ Purge
    \/ PurgeFails
    \/ Tick
    \/ PurgerReturns
    \/ StopPurge
    \/ Exits
    \/ Killed
    \/ Starts
    \/ \E filter \in Filters, size \in Sizes : Ask(filter, size)
    \/ Page

\* The ticker ticks, the DELETE comes to an end, with success if it is tried
\* again and again, and main goes on to its end.
FeedFairness ==
    WF_feedVars(Tick) /\ SF_feedVars(Purge) /\ WF_feedVars(Exits)

FeedSpec == FeedInit /\ [][FeedNext]_feedVars /\ FeedFairness

-----------------------------------------------------------------------------
(* Properties *)

\* A client that follows the links to the end got, newest first and none
\* twice, events its filter lets through, and every one of those that was in
\* the trail when it began, except what was purged since: no page overlaps
\* another or leaves a gap, though events are inserted, committed out of order
\* and purged between any two pages.
WalkFaithful ==
    walk.doing = "finished" =>
       LET got == UNION {walk.got[n] : n \in DOMAIN walk.got} IN
       /\ \A m, n \in DOMAIN walk.got : m < n =>
             \A i \in walk.got[m], j \in walk.got[n] : j < i
       /\ \A i \in got : /\ written[i].about \in walk.asked
                         /\ written[i].state = "committed"
       /\ walk.there \ purged \subseteq got

\* README.md:106-110: "Older events are deleted at startup and once a day": with
\* a retention old events go, all of them, also when a purge fails or the
\* process is killed before its turn, unless the process goes down.
Overdue == retention /\ \E i \in Visible : i <= aged
AgedPurged == Overdue ~> (~ Overdue \/ life = "down")
=============================================================================
