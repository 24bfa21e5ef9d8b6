-------------------------------- MODULE Trails --------------------------------
(* Lemmas about audit trails as sequences of events, for the proofs about  *)
(* the handlers that record them.                                          *)
EXTENDS Naturals, Sequences, FiniteSets, FiniteSetTheorems, TLAPS

\* The places of an event in a trail.
Hits(trl, e) == {i \in DOMAIN trl : trl[i] = e}

\* One more event comes last.
LEMMA AppendPlaces ==
    ASSUME NEW S, NEW trl \in Seq(S), NEW x \in S
    PROVE  /\ \A i \in DOMAIN trl : /\ i \in Nat /\ trl[i] \in S
                                     /\ i \in DOMAIN Append(trl, x)
                                     /\ Append(trl, x)[i] = trl[i]
           /\ Len(trl) + 1 \in DOMAIN Append(trl, x)
           /\ Append(trl, x)[Len(trl) + 1] = x
           /\ \A i \in DOMAIN Append(trl, x) :
                 i \notin DOMAIN trl => i = Len(trl) + 1
           /\ \A i \in DOMAIN trl : i < Len(trl) + 1
<1>1. /\ Len(trl) \in Nat
      /\ DOMAIN trl = 1..Len(trl)
      /\ DOMAIN Append(trl, x) = 1..(Len(trl) + 1)
      /\ \A i \in 1..Len(trl) : trl[i] \in S /\ Append(trl, x)[i] = trl[i]
      /\ Append(trl, x)[Len(trl) + 1] = x
  OBVIOUS
<1> QED BY <1>1

\* A trail is finite, and so are the places of an event.
LEMMA HitsFinite ==
    ASSUME NEW S, NEW trl \in Seq(S), NEW e
    PROVE  IsFiniteSet(Hits(trl, e)) /\ Cardinality(Hits(trl, e)) \in Nat
<1>1. DOMAIN trl = 1..Len(trl) /\ IsFiniteSet(1..Len(trl))
  BY FS_Interval
<1>2. Hits(trl, e) \in SUBSET (1..Len(trl))
  BY <1>1 DEF Hits
<1>3. IsFiniteSet(Hits(trl, e))
  BY <1>1, <1>2, FS_Subset
<1> QED BY <1>3, FS_CardinalityType

\* One more event counts where it is the one that is looked for.
LEMMA HitsAppend ==
    ASSUME NEW S, NEW trl \in Seq(S), NEW x \in S, NEW e
    PROVE  Cardinality(Hits(Append(trl, x), e)) =
              Cardinality(Hits(trl, e)) + (IF x = e THEN 1 ELSE 0)
<1> DEFINE n == Len(trl)
<1>1. /\ n \in Nat
      /\ DOMAIN trl = 1..n /\ DOMAIN Append(trl, x) = 1..(n + 1)
      /\ \A i \in 1..n : Append(trl, x)[i] = trl[i]
      /\ Append(trl, x)[n + 1] = x
  OBVIOUS
<1>2. /\ IsFiniteSet(Hits(trl, e)) /\ Cardinality(Hits(trl, e)) \in Nat
  BY HitsFinite
<1>3. CASE x = e
  <2>1. Hits(Append(trl, x), e) = Hits(trl, e) \cup {n + 1}
    BY <1>1, <1>3 DEF Hits
  <2>2. n + 1 \notin Hits(trl, e)
    BY <1>1 DEF Hits
  <2> QED BY <1>2, <1>3, <2>1, <2>2, FS_AddElement
<1>4. CASE x # e
  <2>1. Hits(Append(trl, x), e) = Hits(trl, e)
    BY <1>1, <1>4 DEF Hits
  <2> QED BY <1>2, <1>4, <2>1
<1> QED BY <1>3, <1>4

\* Nothing is in the empty trail.
LEMMA HitsEmpty == \A e : Cardinality(Hits(<<>>, e)) = 0
<1>1. \A e : Hits(<<>>, e) = {}
  BY DEF Hits
<1> QED BY <1>1, FS_EmptySet

\* The places of events of id after the event d.
Late(trl, id, d) == {j \in DOMAIN trl : /\ trl[j].id = id
                                        /\ \E i \in 1..(j - 1) : trl[i] = d}

\* The events after a deletion are finitely many.
LEMMA LateFinite ==
    ASSUME NEW S, NEW trl \in Seq(S), NEW id, NEW d
    PROVE  /\ IsFiniteSet(Late(trl, id, d))
           /\ Cardinality(Late(trl, id, d)) \in Nat
<1>1. DOMAIN trl = 1..Len(trl) /\ IsFiniteSet(1..Len(trl))
  BY FS_Interval
<1>2. Late(trl, id, d) \in SUBSET (1..Len(trl))
  BY <1>1 DEF Late
<1>3. IsFiniteSet(Late(trl, id, d))
  BY <1>1, <1>2, FS_Subset
<1> QED BY <1>3, FS_CardinalityType

\* One more event is late where it is one of id and d is there already.
LEMMA LateAppend ==
    ASSUME NEW S, NEW trl \in Seq(S), NEW x \in S, NEW id, NEW d
    PROVE  Cardinality(Late(Append(trl, x), id, d)) =
              Cardinality(Late(trl, id, d))
                + (IF x.id = id /\ Hits(trl, d) # {} THEN 1 ELSE 0)
<1> DEFINE n == Len(trl)
           new == Append(trl, x)
<1>1. /\ n \in Nat
      /\ DOMAIN trl = 1..n /\ DOMAIN new = 1..(n + 1)
      /\ \A i \in 1..n : new[i] = trl[i]
      /\ new[n + 1] = x
  OBVIOUS
<1>2. /\ IsFiniteSet(Late(trl, id, d))
      /\ Cardinality(Late(trl, id, d)) \in Nat
  BY LateFinite
<1> HIDE DEF n, new
<1>3. \A j \in 1..n : j \in Late(new, id, d) <=> j \in Late(trl, id, d)
  BY <1>1 DEF Late
<1>4. n + 1 \in Late(new, id, d) <=> x.id = id /\ Hits(trl, d) # {}
  <2>1. n + 1 \in Late(new, id, d) <=>
           x.id = id /\ \E i \in 1..n : trl[i] = d
    BY <1>1 DEF Late
  <2> QED BY <1>1, <2>1 DEF Hits
<1>5. /\ \A j \in Late(new, id, d) : j \in 1..n \/ j = n + 1
      /\ \A j \in Late(trl, id, d) : j \in 1..n
      /\ n + 1 \notin Late(trl, id, d)
  BY <1>1 DEF Late
<1>6. CASE x.id = id /\ Hits(trl, d) # {}
  <2>1. Late(new, id, d) = Late(trl, id, d) \cup {n + 1}
    BY <1>3, <1>4, <1>5, <1>6
  <2>2. Cardinality(Late(trl, id, d) \cup {n + 1}) =
           Cardinality(Late(trl, id, d)) + 1
    BY <1>2, <1>5, FS_AddElement
  <2> QED BY <1>6, <2>1, <2>2 DEF new
<1>7. CASE ~ (x.id = id /\ Hits(trl, d) # {})
  <2>1. Late(new, id, d) = Late(trl, id, d)
    BY <1>3, <1>4, <1>5, <1>7
  <2> QED BY <1>2, <1>7, <2>1 DEF new
<1> QED BY <1>6, <1>7
=============================================================================
