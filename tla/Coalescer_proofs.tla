--------------------------- MODULE Coalescer_proofs ---------------------------
(* What coalescing guarantees, for every number of keys and events.        *)
EXTENDS Coalescer, TLAPS

\* An event that was never submitted is nowhere.
Known == /\ \A k \in Keys : held[k] # None => Occurs(held[k], submitted)
         /\ \A e \in taken : Occurs(e, submitted)
         /\ \A i \in DOMAIN dispatched : Occurs(dispatched[i], submitted)

\* An event is held under its own key.
Filed == \A k \in Keys : held[k] # None => held[k].key = k

Inv == TypeOK /\ Known /\ Filed /\ DispatchedOnce /\ NothingLost

\* What occurs in a sequence with one more at its end.
LEMMA OccursAppend ==
    ASSUME NEW seq \in Seq(Events), NEW e \in Events, NEW x
    PROVE  Occurs(x, Append(seq, e)) <=> Occurs(x, seq) \/ x = e
<1>1. /\ DOMAIN seq = 1..Len(seq)
      /\ DOMAIN Append(seq, e) = 1..(Len(seq) + 1)
      /\ Len(seq) \in Nat
      /\ \A i \in 1..Len(seq) : Append(seq, e)[i] = seq[i]
      /\ Append(seq, e)[Len(seq) + 1] = e
  OBVIOUS
<1>2. ASSUME Occurs(x, Append(seq, e)) PROVE Occurs(x, seq) \/ x = e
  BY <1>1, <1>2 DEF Occurs
<1>3. ASSUME Occurs(x, seq) \/ x = e PROVE Occurs(x, Append(seq, e))
  BY <1>1, <1>3 DEF Occurs
<1> QED BY <1>2, <1>3

\* Submitting e supersedes what its key had, leaves the rest where it was.
LEMMA SubmittedStep ==
    ASSUME TypeOK, NothingLost, NEW e \in Events,
           submitted' = Append(submitted, e),
           taken \subseteq taken',
           \A x : Occurs(x, dispatched) => Occurs(x, dispatched'),
           \A k \in Keys : k # e.key => held'[k] = held[k],
           held'[e.key] = e \/ Occurs(e, dispatched')
    PROVE  NothingLost'
<1>0. PICK n \in Nat : n = Len(submitted)
  BY DEF TypeOK
<1>1. /\ DOMAIN submitted = 1..n /\ DOMAIN submitted' = 1..(n + 1)
      /\ \A i \in 1..n : submitted'[i] = submitted[i]
      /\ submitted'[n + 1] = e
  BY <1>0 DEF TypeOK
<1>2. \A i \in 1..n : submitted[i].key \in Keys
  <2>1. \A i \in 1..n : submitted[i] \in Events
    BY <1>1 DEF TypeOK
  <2> QED BY <2>1 DEF Events
<1>3. Accounted(n + 1)'
  BY <1>1 DEF Accounted
<1>4. ASSUME NEW i \in 1..n PROVE Superseded(i)' \/ Accounted(i)'
  <2>0. i \in DOMAIN submitted /\ i \in DOMAIN submitted' /\ n + 1 > i
    BY <1>1
  <2>1. CASE Superseded(i)
    <3>1. PICK j \in 1..n : j > i /\ submitted[j].key = submitted[i].key
      BY <1>1, <2>1 DEF Superseded
    <3>2. j \in DOMAIN submitted' /\ submitted'[j] = submitted[j]
      BY <1>1
    <3> QED BY <1>1, <3>1, <3>2 DEF Superseded
  <2>2. CASE submitted[i].key = e.key
    <3>1. n + 1 \in DOMAIN submitted'
      BY <1>1
    <3> QED BY <1>1, <2>0, <2>2, <3>1 DEF Superseded
  <2>3. CASE Accounted(i) /\ submitted[i].key # e.key
    BY <1>1, <1>2, <2>3 DEF Accounted
  <2> QED BY <2>0, <2>1, <2>2, <2>3 DEF NothingLost
<1>5. \A i \in DOMAIN submitted' : i \in 1..n \/ i = n + 1
  BY <1>1
<1> QED BY <1>3, <1>4, <1>5 DEF NothingLost

\* Dispatching an event that is nowhere else keeps dispatches unique.
LEMMA DispatchedOnceStep ==
    ASSUME TypeOK, DispatchedOnce, NEW e \in Events,
           dispatched' = Append(dispatched, e),
           ~ Occurs(e, dispatched),
           taken' = taken \ {e},
           UNCHANGED held,
           \A k \in Keys : held[k] # e
    PROVE  DispatchedOnce'
<1> DEFINE n == Len(dispatched)
<1>1. /\ n \in Nat
      /\ DOMAIN dispatched = 1..n /\ DOMAIN dispatched' = 1..(n + 1)
      /\ \A i \in 1..n : dispatched'[i] = dispatched[i] /\ dispatched[i] # e
      /\ dispatched'[n + 1] = e
  BY DEF TypeOK, Occurs
<1>2. \A i, j \in DOMAIN dispatched' : dispatched'[i] = dispatched'[j] => i = j
  BY <1>1 DEF DispatchedOnce
<1>3. \A x : Occurs(x, dispatched') <=> Occurs(x, dispatched) \/ x = e
  BY OccursAppend DEF TypeOK
<1> QED BY <1>2, <1>3 DEF DispatchedOnce

\* The initial state is well typed and nothing is anywhere.
LEMMA InvInit ==
    ASSUME CoalescerAssumption, Init PROVE Inv
BY DEF CoalescerAssumption, Init, Inv, TypeOK, Known, Filed, DispatchedOnce,
   NothingLost, Occurs

\* Well-typedness, and the two guarantees with what they rest on, where an
\* event can be, go through every step.
LEMMA InvStep ==
    ASSUME CoalescerAssumption, Inv, [Next]_vars PROVE Inv'
<1> USE DEF Inv
<1>1. ASSUME NEW e \in Events, Submit(e) PROVE Inv'
  <2>0. /\ e.key \in Keys
        /\ e # None
        /\ \A x : Occurs(x, submitted') <=> Occurs(x, submitted) \/ x = e
    BY <1>1, OccursAppend DEF CoalescerAssumption, Submit, TypeOK, Events
  <2>1. TypeOK'
    BY <1>1, <2>0 DEF Submit, TypeOK
  <2>2. /\ held'[e.key] = e
        /\ \A k \in Keys : k # e.key => held'[k] = held[k]
        /\ UNCHANGED <<taken, dispatched>>
    BY <1>1, <2>0 DEF Submit, TypeOK
  <2>3. Known'
    BY <2>0, <2>2 DEF Known
  <2>4. Filed'
    BY <2>2 DEF Filed
  <2>5. ~ Occurs(e, dispatched) /\ e \notin taken
    BY <1>1 DEF Submit, Known, Occurs
  <2>6. DispatchedOnce'
    BY <2>2, <2>5 DEF DispatchedOnce, Occurs
  <2>7. NothingLost'
    BY <1>1, <2>0, <2>2, SubmittedStep DEF Submit
  <2> QED BY <2>1, <2>3, <2>4, <2>6, <2>7
<1>2. ASSUME NEW e \in Events, SubmitThrough(e) PROVE Inv'
  <2>0. /\ e.key \in Keys
        /\ \A x : Occurs(x, submitted') <=> Occurs(x, submitted) \/ x = e
        /\ \A x : Occurs(x, dispatched') <=> Occurs(x, dispatched) \/ x = e
        /\ UNCHANGED <<held, taken>>
    BY <1>2, OccursAppend DEF SubmitThrough, TypeOK, Events
  <2>1. TypeOK'
    BY <1>2 DEF SubmitThrough, TypeOK
  <2>2. Known' /\ Filed'
    <3>1. \A i \in DOMAIN dispatched' :
             \/ i \in DOMAIN dispatched /\ dispatched'[i] = dispatched[i]
             \/ dispatched'[i] = e
      BY <1>2 DEF SubmitThrough, TypeOK
    <3> QED BY <2>0, <3>1 DEF Known, Filed
  <2>3. /\ ~ Occurs(e, dispatched)
        /\ e \notin taken
        /\ \A k \in Keys : held[k] # e
    BY <1>2 DEF CoalescerAssumption, SubmitThrough, Known, Occurs
  <2>4. DispatchedOnce'
    BY <1>2, <2>0, <2>3, DispatchedOnceStep DEF SubmitThrough
  <2>5. NothingLost'
    BY <1>2, <2>0, SubmittedStep DEF SubmitThrough
  <2> QED BY <2>1, <2>2, <2>4, <2>5
<1>3. ASSUME NEW ks \in SUBSET Keys, Take(ks) PROVE Inv'
  <2>1. \A k \in ks : held[k] \in Events
    BY <1>3 DEF Take, TypeOK
  <2>2. TypeOK' /\ Known' /\ Filed'
    BY <1>3, <2>1 DEF Take, TypeOK, Known, Filed
  \* Two keys never hold the same event, so what is taken for one is not
  \* still held for another.
  <2>3. \A k \in Keys : held'[k] \notin taken'
    <3> SUFFICES ASSUME NEW k \in Keys, held'[k] \in taken' PROVE FALSE
      OBVIOUS
    <3>1. held'[k] # None
      BY <2>2 DEF CoalescerAssumption, TypeOK
    <3>2. k \notin ks /\ held'[k] = held[k]
      BY <1>3, <3>1 DEF Take
    <3>3. PICK x \in ks : held[x] = held[k]
      BY <1>3, <3>2 DEF Take, DispatchedOnce
    <3> QED BY <3>1, <3>2, <3>3 DEF Filed
  <2>4. ~ Occurs(None, dispatched)
    BY DEF CoalescerAssumption, Occurs, TypeOK
  <2>5. DispatchedOnce'
    BY <1>3, <2>3, <2>4 DEF Take, DispatchedOnce
  <2>6. NothingLost'
    <3> SUFFICES ASSUME NEW i \in DOMAIN submitted, Accounted(i)
                 PROVE  Accounted(i)'
      BY <1>3 DEF Take, NothingLost, Superseded
    <3>1. submitted[i] \in Events
      BY DEF TypeOK
    <3> QED BY <1>3, <3>1 DEF Take, Accounted, Events
  <2> QED BY <2>2, <2>5, <2>6
<1>4. ASSUME NEW e \in Events, Dispatch(e) PROVE Inv'
  <2>0. /\ \A x : Occurs(x, dispatched') <=> Occurs(x, dispatched) \/ x = e
        /\ taken' = taken \ {e}
        /\ UNCHANGED <<submitted, held>>
    BY <1>4, OccursAppend DEF Dispatch, TypeOK
  <2>1. TypeOK'
    BY <1>4 DEF Dispatch, TypeOK
  <2>2. Known' /\ Filed'
    <3>1. \A i \in DOMAIN dispatched' :
             \/ i \in DOMAIN dispatched /\ dispatched'[i] = dispatched[i]
             \/ dispatched'[i] = e
      BY <1>4 DEF Dispatch, TypeOK
    <3> QED BY <1>4, <2>0, <3>1 DEF Known, Filed, Dispatch
  <2>3. ~ Occurs(e, dispatched) /\ \A k \in Keys : held[k] # e
    BY <1>4 DEF Dispatch, DispatchedOnce
  <2>4. DispatchedOnce'
    BY <1>4, <2>0, <2>3, DispatchedOnceStep DEF Dispatch
  <2>5. NothingLost'
    BY <2>0 DEF NothingLost, Superseded, Accounted
  <2> QED BY <2>1, <2>2, <2>4, <2>5
<1>5. CASE UNCHANGED vars
  BY <1>5 DEF vars, TypeOK, Known, Filed, DispatchedOnce, NothingLost,
     Superseded, Accounted, Occurs
<1> QED BY <1>1, <1>2, <1>3, <1>4, <1>5 DEF Next

\* The reachable states of the debouncer satisfy Inv.
LEMMA InvInvariant ==
    ASSUME CoalescerAssumption PROVE Spec => []Inv
<1>1. Init => Inv
  BY InvInit
<1>2. Inv /\ [Next]_vars => Inv'
  BY InvStep
<1> QED BY <1>1, <1>2, PTL DEF Spec

\* An event that no newer one of its key replaced is never lost.
THEOREM NothingLostCorrect ==
    ASSUME CoalescerAssumption PROVE Spec => []NothingLost
BY InvInvariant, PTL DEF Inv

\* No event reaches the dispatcher twice.
THEOREM DispatchedOnceCorrect ==
    ASSUME CoalescerAssumption PROVE Spec => []DispatchedOnce
BY InvInvariant, PTL DEF Inv
=============================================================================
