--------------------------- MODULE EventFeed_proofs ---------------------------
(***************************************************************************)
(* A client that follows the links of the event list, for every number of  *)
(* events, every filter and page size; and the pipeline and the feed side  *)
(* by side, as MCTrail.tla runs them.                                      *)
(***************************************************************************)
EXTENDS MCTrail, EventPipeline_proofs, FiniteSetTheorems, WellFoundedInduction

-----------------------------------------------------------------------------
(* The inductive invariant. *)

Bounded == Len(written) <= MaxWritten

\* A row a query with this filter may answer.
Fits(i, filter) == /\ i \in DOMAIN written
                   /\ written[i].state = "committed"
                   /\ written[i].about \in filter

Descending(got) == \A m, n \in DOMAIN got :
                      m < n => \A i \in got[m], j \in got[n] : j < i

\* The events of some pages, and those the client has got.
All(pages) == UNION {pages[n] : n \in DOMAIN pages}
Got == All(walk.got)

\* What the client got is in order and what it asked for, and what was there
\* is got unless it is purged or still to come, below the cursor.
Walking ==
    /\ walk.doing = "nothing" => walk.got = <<>> /\ walk.there = {}
    /\ walk.doing = "asking" =>
          /\ walk.next \in Queries
          /\ walk.next.filter = walk.asked
          /\ \A i \in Got : i >= walk.next.after
    /\ Descending(walk.got)
    /\ \A i \in Got : Fits(i, walk.asked)
    /\ \A i \in walk.there :
          /\ Fits(i, walk.asked)
          /\ \/ i \in purged
             \/ i \in Got
             \/ walk.doing = "asking" /\ i < walk.next.after

FeedInv == FeedTypeOK /\ Bounded /\ Walking

-----------------------------------------------------------------------------
(* The table. *)

Row == [about : Entities, state : {"open", "committed", "undone"}]

\* A change of one row.
LEMMA RowChange ==
    ASSUME NEW s \in Seq(Row), NEW i \in DOMAIN s, NEW x \in Row
    PROVE  /\ [s EXCEPT ![i] = x] \in Seq(Row)
           /\ Len([s EXCEPT ![i] = x]) = Len(s)
           /\ DOMAIN [s EXCEPT ![i] = x] = DOMAIN s
           /\ \A j \in DOMAIN s :
                 [s EXCEPT ![i] = x][j] = IF j = i THEN x ELSE s[j]
OBVIOUS

\* Rows keep what they are about, and a committed row stays committed.
Stays == /\ written' \in Seq(Row) /\ Len(written') <= MaxWritten
         /\ DOMAIN written \subseteq DOMAIN written'
         /\ Len(written) <= Len(written')
         /\ \A i \in DOMAIN written :
               /\ written'[i].about = written[i].about
               /\ written[i].state = "committed"
                     => written'[i].state = "committed"

\* A row is undone only where it was not committed.
LEMMA UndoneRow ==
    ASSUME NEW i \in DOMAIN written, written \in Seq(Row)
    PROVE  /\ Undone(i) \in Row
           /\ Undone(i).about = written[i].about
           /\ written[i].state = "committed" => Undone(i).state = "committed"
<1>1. written[i] \in Row
  OBVIOUS
<1> QED BY <1>1 DEF Undone, Row

\* A step leaves the rows a query may answer where they are, or purges them.
LEMMA TableStep ==
    ASSUME FeedTypeOK, Bounded, [FeedNext]_feedVars PROVE Stays
<1>0. written \in Seq(Row) /\ Len(written) <= MaxWritten
  BY DEF FeedTypeOK, Bounded, Row
<1>1. ASSUME UNCHANGED written PROVE Stays
  BY <1>0, <1>1 DEF Stays
<1>2. ASSUME NEW x \in Entities, Insert(x) PROVE Stays
  <2>1. [about |-> x, state |-> "open"] \in Row
    BY DEF Row
  <2>2. /\ written' \in Seq(Row) /\ Len(written') = Len(written) + 1
        /\ DOMAIN written' = 1..(Len(written) + 1)
        /\ DOMAIN written = 1..Len(written)
        /\ \A i \in 1..Len(written) : written'[i] = written[i]
    BY <1>0, <1>2, <2>1 DEF Insert
  <2> QED BY <1>0, <1>2, <2>2, FeedAssumption DEF Insert, Stays
<1>3. ASSUME NEW i \in DOMAIN written, CommitRow(i) PROVE Stays
  <2> DEFINE x == [written[i] EXCEPT !.state = "committed"]
  <2>1. written[i] \in Row
    BY <1>0
  <2>2. x \in Row /\ x.about = written[i].about /\ x.state = "committed"
    BY <2>1 DEF Row
  <2>3. written' = [written EXCEPT ![i] = x]
    BY <1>3 DEF CommitRow
  <2> HIDE DEF x
  <2> QED BY <1>0, <2>2, <2>3, RowChange DEF Stays
<1>4. ASSUME GrowOld PROVE Stays
  <2>1. aged + 1 \in DOMAIN written
    BY <1>0, <1>4 DEF GrowOld, FeedTypeOK
  <2>2. written' = [written EXCEPT ![aged + 1] = Undone(aged + 1)]
    BY <1>4 DEF GrowOld
  <2> QED BY <1>0, <2>1, <2>2, RowChange, UndoneRow DEF Stays
<1>5. ASSUME NEW from, Gone(from) PROVE Stays
  <2>1. written' = [i \in 1..Len(written) |-> Undone(i)]
    BY <1>0, <1>5 DEF Gone
  <2>2. \A i \in 1..Len(written) : Undone(i) \in Row
    BY <1>0, UndoneRow
  <2>3. /\ written' \in Seq(Row) /\ Len(written') = Len(written)
        /\ DOMAIN written' = DOMAIN written
    BY <1>0, <2>1, <2>2
  <2> QED BY <1>0, <2>1, <2>3, UndoneRow DEF Stays
<1> QED BY <1>1, <1>2, <1>3, <1>4, <1>5
        DEF FeedNext, feedVars, Purge, PurgeFails, Tick, PurgerReturns,
            StopPurge, Exits, Killed, Starts, Ask, Page

-----------------------------------------------------------------------------
(* A page. *)

\* A set of numbers that is not empty has a least one.
LEMMA LeastNumber ==
    ASSUME NEW T \in SUBSET Nat, T # {}
    PROVE  \E x \in T : \A y \in T : x <= y
<1>1. \E x \in T : \A y \in T : ~ (<<y, x>> \in OpToRel(<, Nat))
  BY NatLessThanWellFounded, WFMin
<1>2. PICK x \in T : \A y \in T : ~ (<<y, x>> \in OpToRel(<, Nat))
  BY <1>1
<1>3. \A y \in T : ~ (y < x)
  BY <1>2 DEF OpToRel
<1> QED BY <1>3

\* What matches a query fits its filter, is below its cursor and not purged.
LEMMA MatchingRows ==
    ASSUME FeedTypeOK, Bounded, NEW q \in Queries
    PROVE  /\ Matching(q) \subseteq Positions
           /\ IsFiniteSet(Matching(q))
           /\ \A i \in Matching(q) : Fits(i, q.filter) /\ i < q.after
           /\ \A i : Fits(i, q.filter) /\ i < q.after /\ i \notin purged
                     => i \in Matching(q)
<1>1. DOMAIN written = 1..Len(written) /\ DOMAIN written \subseteq Positions
  BY FeedAssumption DEF FeedTypeOK, Bounded, Positions
<1>2. Matching(q) \subseteq Positions
  BY <1>1 DEF Matching, Visible
<1>3. IsFiniteSet(Positions)
  BY FS_Interval, FeedAssumption DEF Positions
<1> QED BY <1>2, <1>3, FS_Subset DEF Matching, Visible, Fits

\* A page that leaves something out has a link, which goes on where it ends.
LEMMA LinkGoesOn ==
    ASSUME FeedTypeOK, Bounded, NEW q \in Queries,
           NEW page \in SUBSET Matching(q), IsPage(page, q),
           page # Matching(q)
    PROVE  /\ Link(q, page) \in Queries
           /\ Link(q, page).filter = q.filter
           /\ Link(q, page).after < q.after
           /\ \A i \in page : i >= Link(q, page).after
           /\ \A i \in Matching(q) \ page : i < Link(q, page).after
<1> DEFINE least == CHOOSE i \in page : \A j \in page : i <= j
<1>1. page \in SUBSET Nat /\ page \subseteq Positions
  BY MatchingRows DEF Positions
<1>2. page # {}
  <2>1. q.size \in Nat \ {0} /\ Cardinality(page) = q.size
    BY FeedAssumption DEF IsPage, Queries
  <2> QED BY <2>1, FS_EmptySet
<1>3. least \in page /\ \A j \in page : least <= j
  BY <1>1, <1>2, LeastNumber
<1>4. Link(q, page) = [q EXCEPT !.after = least]
  BY DEF Link
<1> HIDE DEF least
<1>5. least \in 1..(MaxWritten + 1)
  BY <1>1, <1>3, FeedAssumption DEF Positions
<1>6. least < q.after
  BY <1>3, MatchingRows
<1>7. \A i \in Matching(q) \ page : i < least
  BY <1>3 DEF IsPage
<1> QED BY <1>3, <1>4, <1>5, <1>6, <1>7 DEF Queries

-----------------------------------------------------------------------------
(* The walk of a client. *)

\* One more page: in order, if it is below what came before.
LEMMA GotAppend ==
    ASSUME NEW got \in Seq(SUBSET Positions), NEW page \in SUBSET Positions
    PROVE  LET more == Append(got, page) IN
           /\ more \in Seq(SUBSET Positions)
           /\ All(more) = All(got) \cup page
           /\ Descending(got) /\ (\A i \in All(got) : \A j \in page : j < i)
                => Descending(more)
<1> DEFINE l == Len(got)
           more == Append(got, page)
<1>1. /\ l \in Nat /\ more \in Seq(SUBSET Positions)
      /\ DOMAIN got = 1..l /\ DOMAIN more = 1..(l + 1)
      /\ \A n \in 1..l : more[n] = got[n]
      /\ more[l + 1] = page
  OBVIOUS
<1> HIDE DEF l, more
<1>2. All(more) = All(got) \cup page
  BY <1>1 DEF All
<1>3. ASSUME Descending(got), \A i \in All(got) : \A j \in page : j < i
      PROVE  Descending(more)
  <2> SUFFICES ASSUME NEW m \in 1..(l + 1), NEW n \in 1..(l + 1), m < n,
                      NEW i \in more[m], NEW j \in more[n]
               PROVE  j < i
    BY <1>1 DEF Descending
  <2>1. m \in 1..l /\ i \in got[m]
    BY <1>1
  <2>2. CASE n = l + 1
    BY <1>1, <1>3, <2>1, <2>2 DEF All
  <2>3. CASE n \in 1..l
    BY <1>1, <1>3, <2>1, <2>3 DEF Descending
  <2> QED BY <1>1, <2>2, <2>3
<1> QED BY <1>1, <1>2, <1>3 DEF more

\* While the client waits rows come and go, what it got stays right.
LEMMA WalkStays ==
    ASSUME Walking, Stays, purged \subseteq purged', UNCHANGED walk
    PROVE  Walking'
<1>1. Got' = Got
  BY DEF Got
<1>2. \A i, filter : Fits(i, filter) => Fits(i, filter)'
  BY DEF Fits, Stays
<1>3. /\ walk.doing = "nothing" => walk'.got = <<>> /\ walk'.there = {}
      /\ walk.doing = "asking" =>
            /\ walk'.next \in Queries
            /\ walk'.next.filter = walk'.asked
            /\ \A i \in Got' : i >= walk'.next.after
      /\ Descending(walk'.got)
  BY <1>1 DEF Walking
<1>4. \A i \in Got' : Fits(i, walk.asked)'
  BY <1>1, <1>2 DEF Walking
<1>5. \A i \in walk'.there :
         /\ Fits(i, walk.asked)'
         /\ \/ i \in purged'
            \/ i \in Got'
            \/ walk'.doing = "asking" /\ i < walk'.next.after
  BY <1>1, <1>2 DEF Walking
<1> QED BY <1>3, <1>4, <1>5 DEF Walking

\* Asking begins a walk on which nothing was got.
LEMMA WalkAsk ==
    ASSUME FeedTypeOK, Bounded, Walking,
           NEW filter \in Filters, NEW size \in Sizes, Ask(filter, size)
    PROVE  Walking' /\ walk' \in Walks
<1> DEFINE q == [filter |-> filter, size |-> size, after |-> MaxWritten + 1]
           there == {i \in Visible : written[i].about \in filter}
<1>1. q \in Queries
  BY FeedAssumption DEF Queries
<1>2. /\ walk' = [doing |-> "asking", asked |-> filter, got |-> <<>>,
                  next |-> q, there |-> there]
      /\ UNCHANGED <<written, purged>>
  BY DEF Ask
<1>3. /\ there \subseteq Positions
      /\ \A i \in there : Fits(i, filter) /\ i < MaxWritten + 1
  <2>1. DOMAIN written = 1..Len(written) /\ DOMAIN written \subseteq Positions
    BY FeedAssumption DEF FeedTypeOK, Bounded, Positions
  <2> QED BY <2>1, FeedAssumption DEF Visible, Fits, Positions
<1>4. <<>> \in Seq(SUBSET Positions) /\ DOMAIN <<>> = {}
  OBVIOUS
<1>5. walk' \in Walks
  BY <1>1, <1>2, <1>3, <1>4 DEF Walks
<1> HIDE DEF there
<1>6. Got' = {} /\ Descending(walk'.got)
  BY <1>2, <1>4 DEF Got, All, Descending
<1>7. \A i \in walk'.there : Fits(i, filter)' /\ i < walk'.next.after
  BY <1>2, <1>3 DEF Fits
<1> QED BY <1>1, <1>2, <1>5, <1>6, <1>7 DEF Walking

\* A page takes a walk on: what it passes over is got or purged.
LEMMA WalkPage ==
    ASSUME FeedTypeOK, Bounded, Walking, Page
    PROVE  Walking' /\ walk' \in Walks
<1> DEFINE q == walk.next
<1>0. /\ walk \in Walks /\ walk.doing = "asking"
      /\ q \in Queries /\ q.filter = walk.asked
      /\ UNCHANGED <<written, purged>>
      /\ walk.got \in Seq(SUBSET Positions)
  BY DEF Page, FeedTypeOK, Walking, Walks
<1>1. PICK page \in SUBSET Matching(q) :
         /\ IsPage(page, q)
         /\ walk' = IF page = Matching(q)
                    THEN [walk EXCEPT !.got = Append(walk.got, page),
                                      !.doing = "finished",
                                      !.next = NoQuery]
                    ELSE [walk EXCEPT !.got = Append(walk.got, page),
                                      !.next = Link(q, page)]
  BY DEF Page
<1> HIDE DEF q
<1>2. /\ page \in SUBSET Positions
      /\ \A i \in page : Fits(i, walk.asked) /\ i < q.after
      /\ \A i : Fits(i, walk.asked) /\ i < q.after /\ i \notin purged
                => i \in Matching(q)
  BY <1>0, <1>1, MatchingRows
<1>3. \A i \in Got : \A j \in page : j < i
  <2>1. \A i \in Got : i >= q.after /\ i \in Nat
    BY <1>0 DEF Walking, Got, All, Positions, q
  <2>2. \A j \in page : j \in Nat /\ j < q.after
    BY <1>2 DEF Positions
  <2>3. q.after \in Nat
    BY <1>0, FeedAssumption DEF Queries
  <2> QED BY <2>1, <2>2, <2>3
<1>4. /\ walk'.got = Append(walk.got, page)
      /\ walk'.asked = walk.asked /\ walk'.there = walk.there
      /\ IF page = Matching(q)
         THEN walk'.doing = "finished" /\ walk'.next = NoQuery
         ELSE walk'.doing = "asking" /\ walk'.next = Link(q, page)
  BY <1>0, <1>1 DEF Walks
<1>5. /\ Append(walk.got, page) \in Seq(SUBSET Positions)
      /\ Got' = Got \cup page
      /\ Descending(walk'.got)
  BY <1>0, <1>2, <1>3, <1>4, GotAppend DEF Got, Walking
<1>6. \A i, filter : Fits(i, filter)' <=> Fits(i, filter)
  BY <1>0 DEF Fits
<1>7. \A i \in Got' : Fits(i, walk.asked)'
  BY <1>2, <1>4, <1>5, <1>6 DEF Walking
<1>8. CASE page = Matching(q)
  <2>1. walk' \in Walks
    BY <1>0, <1>1, <1>5, <1>8 DEF Walks
  <2>2. \A i \in walk.there : i \in purged \/ i \in Got'
    BY <1>0, <1>2, <1>5, <1>8 DEF Walking, q
  <2>3. \A i \in walk'.there :
           Fits(i, walk.asked)' /\ (i \in purged' \/ i \in Got')
    BY <1>0, <1>4, <1>6, <2>2 DEF Walking
  <2> QED BY <1>4, <1>5, <1>7, <1>8, <2>1, <2>3 DEF Walking
<1>9. CASE page # Matching(q)
  <2> DEFINE next == Link(q, page)
  <2>1. /\ next \in Queries /\ next.filter = q.filter
        /\ next.after < q.after
        /\ \A i \in page : i >= next.after
        /\ \A i \in Matching(q) \ page : i < next.after
    BY <1>0, <1>1, <1>9, LinkGoesOn
  <2> HIDE DEF next
  <2>2. walk' \in Walks
    BY <1>0, <1>1, <1>5, <1>9, <2>1 DEF Walks, next
  <2>3. \A i \in Got' : i >= next.after
    <3>1. \A i \in Got : i >= q.after /\ i \in Nat
      BY <1>0 DEF Walking, Got, All, Positions, q
    <3>2. next.after \in Nat /\ q.after \in Nat
      BY <1>0, <2>1, FeedAssumption DEF Queries
    <3> QED BY <1>5, <2>1, <3>1, <3>2
  <2>4. \A i \in walk.there : i \in purged \/ i \in Got' \/ i < next.after
    BY <1>0, <1>2, <1>5, <2>1 DEF Walking, q
  <2>5. \A i \in walk'.there :
           /\ Fits(i, walk.asked)'
           /\ i \in purged' \/ i \in Got' \/ i < next.after
    BY <1>0, <1>4, <1>6, <2>4 DEF Walking
  <2>6. walk'.doing = "asking" /\ walk'.next = next
    BY <1>4, <1>9 DEF next
  <2>7. next.filter = walk'.asked
    BY <1>0, <1>4, <2>1
  <2> QED BY <1>4, <1>5, <1>7, <2>1, <2>2, <2>3, <2>5, <2>6, <2>7 DEF Walking
<1> QED BY <1>8, <1>9

\* Steps keep the types of table, purge and walk.
LEMMA FeedTypeStep ==
    ASSUME FeedTypeOK, Bounded, Stays, walk' \in Walks, [FeedNext]_feedVars
    PROVE  FeedTypeOK' /\ purged \subseteq purged'
<1> USE FeedAssumption DEF FeedTypeOK
<1>0. /\ written' \in Seq(Row) /\ Len(written) <= Len(written')
      /\ aged \in 0..Len(written') /\ purged \in SUBSET (DOMAIN written')
  BY DEF Stays, Row
<1>1. ASSUME NEW x \in Entities, Insert(x) PROVE FeedTypeOK'
  BY <1>0, <1>1 DEF Insert, Row
<1>2. ASSUME NEW i \in DOMAIN written, CommitRow(i) PROVE FeedTypeOK'
  BY <1>0, <1>2 DEF CommitRow, Row
<1>3. CASE GrowOld
  <2>1. aged' \in 0..Len(written')
    BY <1>0, <1>3 DEF GrowOld
  <2> QED BY <1>0, <1>3, <2>1 DEF GrowOld, Row
<1>4. CASE Purge
  <2>1. purged \subseteq purged' /\ purged' \in SUBSET (DOMAIN written')
    BY <1>0, <1>4 DEF Purge, Visible
  <2> QED BY <1>0, <1>4, <2>1 DEF Purge, Row
<1>5. CASE PurgeFails \/ Tick \/ PurgerReturns \/ StopPurge
  BY <1>0, <1>5 DEF PurgeFails, Tick, PurgerReturns, StopPurge, Row
<1>6. ASSUME NEW from, Gone(from) PROVE FeedTypeOK'
  BY <1>0, <1>6 DEF Gone, Row
<1>7. CASE Starts
  <2>1. downs' \in 0..MaxDowns
    BY <1>7 DEF Starts
  <2>2. purger' \in {"off", "purging", "waiting"}
    BY <1>7 DEF Starts
  <2> QED BY <1>0, <1>7, <2>1, <2>2 DEF Starts, Row
<1>8. ASSUME NEW filter, NEW size, Ask(filter, size) PROVE FeedTypeOK'
  BY <1>0, <1>8 DEF Ask, Row
<1>9. CASE Page
  BY <1>0, <1>9 DEF Page, Row
<1>10. CASE UNCHANGED feedVars
  BY <1>0, <1>10 DEF feedVars, Row
<1>11. FeedTypeOK'
  BY <1>1, <1>2, <1>3, <1>4, <1>5, <1>6, <1>7, <1>8, <1>9, <1>10
     DEF FeedNext, Exits, Killed
<1>12. UNCHANGED purged \/ Purge
  BY DEF FeedNext, feedVars, Insert, CommitRow, GrowOld, PurgeFails, Tick,
     PurgerReturns, StopPurge, Exits, Killed, Gone, Starts, Ask, Page
<1>13. Purge => purged \subseteq purged'
  BY DEF Purge
<1> QED BY <1>11, <1>12, <1>13

-----------------------------------------------------------------------------
(* The invariant, and the theorems. *)

\* The invariant holds at the start, however the process begins.
LEMMA FeedInvStart ==
    ASSUME NEW state \in {"up", "stopping", "down"}, NEW n \in 0..MaxDowns,
           FeedStart(state, n)
    PROVE  FeedInv
<1> USE FeedAssumption DEF FeedStart
<1>1. <<>> \in Seq(Row) /\ Len(<<>>) = 0 /\ DOMAIN <<>> = {}
      /\ <<>> \in Seq(SUBSET Positions)
  OBVIOUS
<1>2. walk \in Walks
  BY <1>1 DEF Walks
<1>3. FeedTypeOK /\ Bounded
  BY <1>1, <1>2 DEF FeedTypeOK, Bounded, Row
<1>4. Walking
  BY <1>1 DEF Walking, Got, All, Descending
<1> QED BY <1>3, <1>4 DEF FeedInv

\* The invariant is inductive.
LEMMA FeedInvStep == FeedInv /\ [FeedNext]_feedVars => FeedInv'
<1> SUFFICES ASSUME FeedInv, [FeedNext]_feedVars PROVE FeedInv'
  OBVIOUS
<1> USE DEF FeedInv
<1>1. Stays
  BY TableStep
<1>2. Bounded'
  BY <1>1 DEF Stays, Bounded
<1>3. ASSUME NEW filter \in Filters, NEW size \in Sizes, Ask(filter, size)
      PROVE  FeedInv'
  BY <1>1, <1>2, <1>3, WalkAsk, FeedTypeStep
<1>4. CASE Page
  BY <1>1, <1>2, <1>4, WalkPage, FeedTypeStep
<1>5. CASE UNCHANGED walk
  <2>1. walk' \in Walks
    BY <1>5 DEF FeedTypeOK
  <2> QED BY <1>1, <1>2, <1>5, <2>1, WalkStays, FeedTypeStep
<1> QED BY <1>3, <1>4, <1>5
        DEF FeedNext, feedVars, Insert, CommitRow, GrowOld, Purge, PurgeFails,
            Tick, PurgerReturns, StopPurge, Exits, Killed, Gone, Starts

\* A walk that came to its end has got all it should.
LEMMA FeedInvWalk == FeedInv => WalkFaithful
<1> SUFFICES ASSUME FeedInv, walk.doing = "finished"
             PROVE  /\ Descending(walk.got)
                    /\ \A i \in Got : /\ written[i].about \in walk.asked
                                      /\ written[i].state = "committed"
                    /\ walk.there \ purged \subseteq Got
  BY DEF WalkFaithful, Descending, Got, All
<1> QED BY DEF FeedInv, Walking, Fits

\* Every state of the event table, of the purge and of a client's walk is well
\* typed: a link of GetEvents is again a query it answers (general/, crud.go).
THEOREM FeedTypeCorrect == FeedSpec => []FeedTypeOK
<1>1. FeedInit => FeedInv
  BY FeedInvStart, FeedAssumption DEF FeedInit
<1>2. FeedInv => FeedTypeOK
  BY DEF FeedInv
<1> QED BY <1>1, <1>2, FeedInvStep, PTL DEF FeedSpec

\* GetEvents and its links: a client that follows them to the end got, newest
\* first and none twice, what its filter lets through and all that was there
\* when it began, except what was purged since.
THEOREM WalkFaithfulCorrect == FeedSpec => []WalkFaithful
<1>1. FeedInit => FeedInv
  BY FeedInvStart, FeedAssumption DEF FeedInit
<1> QED BY <1>1, FeedInvStep, FeedInvWalk, PTL DEF FeedSpec

\* The pipeline and the feed side by side, the composition of MCTrail.tla: the
\* states of both are well typed and what is proved of each of them holds.
THEOREM TrailCorrect ==
    TrailSpec => [](/\ TrailTypeOK
                    /\ NoPhantom /\ EverythingAccounted /\ OneLeg
                    /\ QuietDrainDispatches /\ WalkFaithful)
<1>1. TrailInit => IInv /\ FeedInv
  <2>1. Init \/ PipelineGone => IInv
    BY IInvStart, PipelineAssumption DEF Init, PipelineGone
  <2>2. FeedInit \/ FeedGone => FeedInv
    BY FeedInvStart, FeedAssumption DEF FeedInit, FeedGone
  <2> QED BY <2>1, <2>2 DEF TrailInit
<1>2. IInv /\ FeedInv /\ [TrailNext]_<<vars, feedVars>> => IInv' /\ FeedInv'
  BY IInvStep, FeedInvStep DEF TrailNext
<1>3. IInv => /\ TypeOK /\ NoPhantom /\ EverythingAccounted /\ OneLeg
              /\ QuietDrainDispatches
  BY NoPhantomHolds, EverythingAccountedHolds, OneLegHolds,
     QuietDrainDispatchesHolds DEF IInv
<1>4. FeedInv => FeedTypeOK
  BY DEF FeedInv
<1> QED BY <1>1, <1>2, <1>3, <1>4, FeedInvWalk, PTL DEF TrailSpec, TrailTypeOK
=============================================================================
