------------------------- MODULE NightlyWalkProofs -------------------------
(***************************************************************************)
(* Proofs about NightlyWalk for any catalog, number of jobs, slice size    *)
(* and number of failures.                                                 *)
(***************************************************************************)
EXTENDS NightlyWalk, FiniteSetTheorems, SequenceTheorems, TLAPS

\* Only the job that holds the lock is at work.
LockInv == \A j \in Jobs : pc[j] # "idle" <=> lock = j

\* For the request types a slice has still to walk and has not walked, what the
\* job read before its first walk is what is believed, and what was seen last,
\* to this day.
SliceInv ==
    \A j \in Jobs : pc[j] = "slice" =>
        /\ errors[j] < MaxErrors
        /\ todo[j] # <<>>
        /\ \A i \in DOMAIN todo[j] : todo[j][i] \notin looked[j] =>
              /\ inUse[j][todo[j][i]] = believed[todo[j][i]]
              /\ last[j][todo[j][i]] = latest[todo[j][i]]

IInv == TypeOK /\ LockInv /\ SliceInv

\* Every walk the model knows is one, and the full one is believable.
LEMMA KnownWalks == {Full, Stuck, Empty, Broken} \subseteq Walks /\ Ok(Full)
  BY DEF Walks, Ok, Full, Walk

\* What record stores is a row, and no row is no row.
LEMMA RecordedRow ==
  ASSUME NEW w \in Walks, NEW j, NEW s
  PROVE  Row(w, Suspect(j, s, w)) \in Rows /\ Row(w, Suspect(j, s, w)) # None
  <1>1. CASE Suspect(j, s, w)
    <2>1. Suspect(j, s, w) = TRUE
      BY <1>1 DEF Suspect
    <2>2. Ok(w)
      BY <1>1 DEF Suspect
    <2>3. Row(w, TRUE) \in Rows
      BY <2>2 DEF Rows
    <2>4. QED
      BY <2>1, <2>3, RowsAssumption
  <1>2. CASE ~Suspect(j, s, w)
    <2>1. Suspect(j, s, w) = FALSE
      BY <1>2 DEF Suspect
    <2>2. Row(w, FALSE) \in Rows
      BY DEF Rows
    <2>3. QED
      BY <2>1, <2>2, RowsAssumption
  <1>3. QED
    BY <1>1, <1>2

\* The rest of a list of request types is one, shorter by one.
LEMMA RestOfSlice ==
  ASSUME NEW q \in Seq(Services), q # <<>>
  PROVE  /\ Head(q) \in Services /\ 1 \in DOMAIN q /\ Head(q) = q[1]
         /\ Tail(q) \in Seq(Services) /\ Len(Tail(q)) = Len(q) - 1
         /\ \A i \in DOMAIN Tail(q) : /\ i + 1 \in DOMAIN q /\ Tail(q)[i] = q[i + 1]
         /\ Len(q) # 1 => Tail(q) # <<>>
  <1>1. /\ Head(q) \in Services /\ Tail(q) \in Seq(Services) /\ Len(Tail(q)) = Len(q) - 1
        /\ \A i \in 1..Len(Tail(q)) : Tail(q)[i] = q[i + 1]
    BY HeadTailProperties
  <1>2. /\ Len(q) \in Nat \ {0} /\ DOMAIN q = 1..Len(q)
        /\ DOMAIN Tail(q) = 1..Len(Tail(q)) /\ Head(q) = q[1]
    BY <1>1, EmptySeq
  <1>3. Len(q) # 1 => Tail(q) # <<>>
    <2>1. Tail(q) = <<>> => Len(Tail(q)) = 0
      BY <1>1, EmptySeq
    <2>2. QED
      BY <1>1, <1>2, <2>1
  <1>4. QED
    BY <1>1, <1>2, <1>3

\* A slice, picked or named, lists request types, at most Limit.
LEMMA Slices ==
  ASSUME NEW q \in Pick \cup Named
  PROVE  q \in Seq(Services) /\ Len(q) <= Limit
  <1> USE WalkAssumption
  <1>1. CASE q \in Pick
    <2>1. Cardinality(Services) \in Nat
      BY FS_CardinalityType
    <2>2. PICK n \in Nat : n <= Limit /\ q \in [1..n -> Services]
      BY <1>1, <2>1 DEF Pick
    <2>3. q \in Seq(Services)
      BY <2>2, IsASeq
    <2>4. QED
      BY <2>2, <2>3
  <1>2. CASE q \in Named
    <2>1. PICK n \in 0..Limit : q \in [1..n -> Services]
      BY <1>2 DEF Named
    <2>2. q \in Seq(Services)
      BY <2>1, IsASeq
    <2>3. QED
      BY <2>1, <2>2
  <1>3. QED
    BY <1>1, <1>2

\* The invariant holds at first.
LEMMA InitIInv == Init => IInv
  <1> SUFFICES ASSUME Init PROVE IInv
    OBVIOUS
  <1> USE WalkAssumption, KnownWalks DEF Init
  <1>1. Walked = {}
    BY DEF Walked
  <1>2. TypeOK
    BY <1>1, EmptySeq DEF TypeOK, Older, Beliefs, NewestRows
  <1>3. LockInv /\ SliceInv
    BY DEF LockInv, SliceInv
  <1>4. QED
    BY <1>2, <1>3 DEF IInv

\* A job takes the lock and reads what is believed.
LEMMA RunInd ==
  ASSUME IInv, NEW j \in Jobs, NEW q \in Pick \cup Named, Run(j, q), odd' \in 0..MaxOdd
  PROVE  IInv'
  <1> USE WalkAssumption DEF IInv, stored
  <1>1. /\ q \in Seq(Services) /\ Len(q) <= Limit
        /\ pc[j] = "idle" /\ lock = None
        /\ lock' = j
        /\ pc' = [pc EXCEPT ![j] = IF q = <<>> THEN "offer" ELSE "slice"]
        /\ todo' = [todo EXCEPT ![j] = q]
        /\ errors' = [errors EXCEPT ![j] = 0]
        /\ looked' = [looked EXCEPT ![j] = {}]
        /\ inUse' = [inUse EXCEPT ![j] = believed]
        /\ last' = [last EXCEPT ![j] = latest]
        /\ UNCHANGED <<city, latest, believed, order, offered>>
    BY Slices DEF Run
  <1>2. \A i \in Jobs \ {j} : pc[i] = "idle" /\ pc'[i] = "idle"
    BY <1>1 DEF LockInv, TypeOK
  <1>3. /\ pc'[j] = IF q = <<>> THEN "offer" ELSE "slice"
        /\ todo'[j] = q /\ errors'[j] = 0 /\ inUse'[j] = believed /\ last'[j] = latest
    BY <1>1 DEF TypeOK
  <1>4. TypeOK'
    <2>1. Walked' = Walked /\ \A s, t : Older(s, t)' = Older(s, t)
      BY <1>1 DEF Walked, Older
    <2>2. /\ pc' \in [Jobs -> {"idle", "slice", "offer"}]
          /\ todo' \in [Jobs -> Seq(Services)] /\ errors' \in [Jobs -> 0..MaxErrors]
          /\ looked' \in [Jobs -> SUBSET Services]
          /\ inUse' \in [Jobs -> Beliefs \cup {None}]
          /\ last' \in [Jobs -> NewestRows \cup {None}]
      BY <1>1 DEF TypeOK
    <2>3. \A i \in Jobs : Len(todo'[i]) <= Limit
      BY <1>1 DEF TypeOK
    <2>4. \A i \in Jobs : pc'[i] = "slice" => inUse'[i] \in Beliefs /\ last'[i] \in NewestRows
      BY <1>2, <1>3 DEF TypeOK
    <2>5. QED
      BY <1>1, <2>1, <2>2, <2>3, <2>4 DEF TypeOK
  <1>5. LockInv'
    BY <1>1, <1>2, <1>3 DEF LockInv
  <1>6. SliceInv'
    BY <1>1, <1>2, <1>3 DEF SliceInv
  <1>7. QED
    BY <1>4, <1>5, <1>6

\* What storing a walk does to the newest rows, to belief and to the order.
LEMMA RecordKeeps ==
  ASSUME TypeOK, NEW j \in Jobs, NEW s \in Services, NEW w \in Walks, Record(j, s, w)
  PROVE  /\ latest' \in NewestRows /\ believed' \in Beliefs
         /\ \A t \in Services \ {s} : latest'[t] = latest[t] /\ believed'[t] = believed[t]
         /\ Walked' = Walked \cup {s}
         /\ order' \subseteq Walked' \X Walked'
         /\ \A t, u \in Walked' : t # u => (<<t, u>> \in order' <=> <<u, t>> \notin order')
         /\ \A t, u, v \in Walked' : <<t, u>> \in order' /\ <<u, v>> \in order' => <<t, v>> \in order'
         /\ \A t \in Walked' : <<t, t>> \notin order'
  <1> DEFINE row == Row(w, Suspect(j, s, w))
  <1>1. row \in Rows /\ row # None
    BY RecordedRow
  <1>2. latest' = [latest EXCEPT ![s] = row]
    BY DEF Record
  <1> HIDE DEF row
  <1>3. latest' \in NewestRows
    BY <1>1, <1>2 DEF TypeOK, NewestRows
  <1>4. believed' \in Beliefs
    BY DEF Record, TypeOK, Beliefs
  <1>5. \A t \in Services \ {s} : latest'[t] = latest[t] /\ believed'[t] = believed[t]
    BY DEF Record, TypeOK, NewestRows, Beliefs
  <1>6. Walked' = Walked \cup {s}
    BY <1>1, <1>2 DEF Walked, TypeOK, NewestRows
  <1>7. order' \subseteq Walked' \X Walked'
    BY <1>6 DEF Record, TypeOK
  <1>8. \A t, u \in Walked' :
           <<t, u>> \in order' <=> (t # s /\ u # s /\ <<t, u>> \in order) \/ (t # s /\ u = s)
    <2> TAKE t, u \in Walked'
    <2>1. order' = {p \in order : s \notin {p[1], p[2]}} \cup (Walked \ {s}) \X {s}
      BY DEF Record
    <2>2. <<t, u>> \in {p \in order : s \notin {p[1], p[2]}} <=> t # s /\ u # s /\ <<t, u>> \in order
      OBVIOUS
    <2>3. <<t, u>> \in (Walked \ {s}) \X {s} <=> t # s /\ u = s
      BY <1>6
    <2>4. QED
      BY <2>1, <2>2, <2>3
  <1>9. \A t, u \in Walked' : t # u => (<<t, u>> \in order' <=> <<u, t>> \notin order')
    <2> TAKE t, u \in Walked'
    <2>1. <<t, u>> \in order' <=> (t # s /\ u # s /\ <<t, u>> \in order) \/ (t # s /\ u = s)
      BY <1>8
    <2>2. <<u, t>> \in order' <=> (t # s /\ u # s /\ <<u, t>> \in order) \/ (u # s /\ t = s)
      BY <1>8
    <2>3. t # s /\ u # s /\ t # u => (<<t, u>> \in order <=> <<u, t>> \notin order)
      BY <1>6 DEF TypeOK, Older
    <2>4. QED
      BY <2>1, <2>2, <2>3
  <1>10. \A t, u, v \in Walked' : <<t, u>> \in order' /\ <<u, v>> \in order' => <<t, v>> \in order'
    <2>1. \A t, u, v \in Walked : <<t, u>> \in order /\ <<u, v>> \in order => <<t, v>> \in order
      BY DEF TypeOK, Older
    <2>2. \A t \in Walked' : t # s => t \in Walked
      BY <1>6
    <2>3. QED
      BY <1>8, <2>1, <2>2
  <1>11. \A t \in Walked' : <<t, t>> \notin order'
    BY <1>6, <1>8 DEF TypeOK, Older
  <1>12. QED
    BY <1>3, <1>4, <1>5, <1>6, <1>7, <1>9, <1>10, <1>11

\* A walk of one request type is recorded.
LEMMA WalkOneInd ==
  ASSUME IInv, NEW j \in Jobs, NEW w \in Walks, WalkOne(j, w), odd' \in 0..MaxOdd
  PROVE  IInv'
  <1> USE WalkAssumption DEF IInv
  <1> DEFINE s == Head(todo[j])
             failures == IF Ok(w) THEN 0 ELSE errors[j] + 1
             over == failures >= MaxErrors \/ Len(todo[j]) = 1
  <1>1. /\ pc[j] = "slice" /\ lock = j
        /\ todo[j] \in Seq(Services) /\ todo[j] # <<>>
        /\ errors[j] \in Nat /\ errors[j] < MaxErrors
    BY DEF WalkOne, TypeOK, LockInv, SliceInv
  <1>2. /\ s \in Services /\ Tail(todo[j]) \in Seq(Services)
        /\ Len(Tail(todo[j])) = Len(todo[j]) - 1
        /\ \A i \in DOMAIN Tail(todo[j]) :
              /\ i + 1 \in DOMAIN todo[j] /\ Tail(todo[j])[i] = todo[j][i + 1]
              /\ Tail(todo[j])[i] \in Services
        /\ Len(todo[j]) # 1 => Tail(todo[j]) # <<>>
    <2>1. \A i \in DOMAIN Tail(todo[j]) : Tail(todo[j])[i] \in Services
      BY <1>1, RestOfSlice, ElementOfSeq
    <2>2. QED
      BY <1>1, <2>1, RestOfSlice
  <1>3. failures \in 0..MaxErrors /\ (~over => failures < MaxErrors)
    BY <1>1
  <1>4. /\ Record(j, s, w)
        /\ errors' = [errors EXCEPT ![j] = failures]
        /\ looked' = [looked EXCEPT ![j] = looked[j] \cup {s}]
        /\ todo' = [todo EXCEPT ![j] = Tail(todo[j])]
        /\ pc' = [pc EXCEPT ![j] = IF over THEN "offer" ELSE pc[j]]
        /\ UNCHANGED <<city, lock, inUse, last, offered>>
    BY DEF WalkOne
  <1> HIDE DEF s, failures
  <1>5. \A i \in Jobs \ {j} : pc[i] = "idle" /\ pc'[i] = "idle" /\ todo'[i] = todo[i]
    BY <1>1, <1>4 DEF LockInv, TypeOK
  <1>6. pc'[j] = (IF over THEN "offer" ELSE "slice") /\ todo'[j] = Tail(todo[j])
        /\ errors'[j] = failures /\ looked'[j] = looked[j] \cup {s}
    BY <1>1, <1>4 DEF TypeOK
  <1>7. TypeOK'
    <2>1. /\ pc' \in [Jobs -> {"idle", "slice", "offer"}]
          /\ todo' \in [Jobs -> Seq(Services)] /\ errors' \in [Jobs -> 0..MaxErrors]
          /\ looked' \in [Jobs -> SUBSET Services]
      BY <1>2, <1>3, <1>4 DEF TypeOK
    <2>2. \A i \in Jobs : Len(todo'[i]) <= Limit
      <3>1. Len(todo[j]) <= Limit /\ Len(todo[j]) \in Nat
        BY <1>1 DEF TypeOK
      <3>2. Len(todo'[j]) <= Limit
        BY <1>2, <1>6, <3>1
      <3>3. QED
        BY <1>5, <3>2 DEF TypeOK
    <2>3. \A i \in Jobs : pc'[i] = "slice" => pc[i] = "slice"
      BY <1>1, <1>5
    <2>4. QED
      BY <1>2, <1>4, <2>1, <2>2, <2>3, RecordKeeps DEF TypeOK, Older
  <1>8. LockInv'
    BY <1>1, <1>4, <1>5, <1>6 DEF LockInv
  <1>9. SliceInv'
    <2> SUFFICES ASSUME pc'[j] = "slice"
                 PROVE  /\ errors'[j] < MaxErrors
                        /\ todo'[j] # <<>>
                        /\ \A i \in DOMAIN todo'[j] : todo'[j][i] \notin looked'[j] =>
                              /\ inUse'[j][todo'[j][i]] = believed'[todo'[j][i]]
                              /\ last'[j][todo'[j][i]] = latest'[todo'[j][i]]
      BY <1>5 DEF SliceInv
    <2>1. ~over
      BY <1>6
    <2>2. \A t \in Services \ {s} : latest'[t] = latest[t] /\ believed'[t] = believed[t]
      BY <1>2, <1>4, RecordKeeps
    <2>3. \A i \in DOMAIN Tail(todo[j]) : Tail(todo[j])[i] \notin looked[j] \cup {s} =>
              /\ inUse[j][Tail(todo[j])[i]] = believed'[Tail(todo[j])[i]]
              /\ last[j][Tail(todo[j])[i]] = latest'[Tail(todo[j])[i]]
      BY <1>1, <1>2, <2>2 DEF SliceInv
    <2>4. QED
      BY <1>2, <1>3, <1>4, <1>6, <2>1, <2>3
  <1>10. QED
    BY <1>7, <1>8, <1>9

\* A slice is cut short, a job ends or dies.
LEMMA EndInd ==
  ASSUME IInv, NEW j \in Jobs, pc[j] # "idle", Ends(j), UNCHANGED <<city, stored>>,
         offered' \in {offered, believed}, odd' \in 0..MaxOdd
  PROVE  IInv'
  <1> USE WalkAssumption DEF IInv, stored
  <1>1. /\ lock = j /\ lock' = None
        /\ \A i \in Jobs : pc'[i] = "idle"
        /\ pc' \in [Jobs -> {"idle", "slice", "offer"}]
    BY DEF Ends, LockInv, TypeOK
  <1>2. TypeOK'
    <2>1. Walked' = Walked /\ \A s, t : Older(s, t)' = Older(s, t)
      BY DEF Walked, Older
    <2>2. /\ todo' \in [Jobs -> Seq(Services)] /\ errors' \in [Jobs -> 0..MaxErrors]
          /\ looked' \in [Jobs -> SUBSET Services]
          /\ \A i \in Jobs : Len(todo'[i]) <= Limit
      BY EmptySeq DEF Ends, TypeOK
    <2>3. /\ inUse' \in [Jobs -> Beliefs \cup {None}]
          /\ last' \in [Jobs -> NewestRows \cup {None}]
      BY DEF Ends, TypeOK
    <2>4. offered' \in [Services -> {w \in Walks : Ok(w)} \cup {None}]
      BY DEF TypeOK, Beliefs
    <2>5. QED
      BY <1>1, <2>1, <2>2, <2>3, <2>4 DEF TypeOK
  <1>3. LockInv' /\ SliceInv'
    BY <1>1 DEF LockInv, SliceInv
  <1>4. QED
    BY <1>2, <1>3

\* Every step keeps the invariant.
LEMMA StepIInv == IInv /\ [Next]_vars => IInv'
  <1> SUFFICES ASSUME IInv, [Next]_vars PROVE IInv'
    OBVIOUS
  <1> USE WalkAssumption
  <1>0. odd \in 0..MaxOdd /\ (Odd => odd' \in 0..MaxOdd)
    BY DEF IInv, TypeOK, Odd
  <1>1. CASE UNCHANGED vars
    BY <1>1 DEF IInv, TypeOK, LockInv, SliceInv, Walked, Older, vars, stored, slice
  <1>2. ASSUME NEW s \in Services, CityChanges(s) PROVE IInv'
    <2>1. UNCHANGED <<stored, lock, slice, offered>> /\ city' \in [Services -> Walks]
          /\ odd' \in 0..MaxOdd
      BY <1>0, <1>2 DEF CityChanges, IInv, TypeOK
    <2>2. QED
      BY <2>1 DEF IInv, TypeOK, LockInv, SliceInv, Walked, Older, stored, slice
  <1>3. ASSUME NEW j \in Jobs, Nightly(j) \/ RunByHand(j) PROVE IInv'
    BY <1>0, <1>3, RunInd DEF Nightly, RunByHand
  <1>4. ASSUME NEW j \in Jobs, ReadsIt(j) PROVE IInv'
    <2>1. Head(todo[j]) \in Services
      BY <1>4, RestOfSlice DEF ReadsIt, IInv, TypeOK, SliceInv
    <2>2. QED
      BY <1>0, <1>4, <2>1, WalkOneInd DEF ReadsIt, IInv, TypeOK
  <1>5. ASSUME NEW j \in Jobs, Misreads(j) PROVE IInv'
    BY <1>0, <1>5, WalkOneInd, KnownWalks DEF Misreads
  <1>6. ASSUME NEW j \in Jobs, StopShort(j) PROVE IInv'
    <2>1. /\ pc[j] = "slice" /\ pc' = [pc EXCEPT ![j] = "offer"] /\ odd' \in 0..MaxOdd
          /\ UNCHANGED <<city, stored, lock, todo, errors, looked, inUse, last, offered>>
      BY <1>0, <1>6 DEF StopShort
    <2>2. QED
      BY <2>1 DEF IInv, TypeOK, LockInv, SliceInv, Walked, Older, stored
  <1>7. ASSUME NEW j \in Jobs, Propose(j) \/ JobDies(j) PROVE IInv'
    BY <1>0, <1>7, EndInd DEF Propose, JobDies
  <1>8. QED
    BY <1>1, <1>2, <1>3, <1>4, <1>5, <1>6, <1>7 DEF Next

\* The invariant holds in every reachable state.
THEOREM Invariance == Spec => []IInv
  <1>1. QED
    BY InitIInv, StepIInv, PTL DEF Spec

\* Every variable keeps its type: what is believed and offered is always a
\* walk that ran to its end, and the newest rows stay in a strict total order.
THEOREM TypeCorrect == Spec => []TypeOK
  <1>1. IInv => TypeOK
    BY DEF IInv
  <1>2. QED
    BY <1>1, Invariance, PTL

\* A walk that lost questions or Continue is believed only when the newest row
\* of its request type was set aside for the same loss, or --codes named the
\* type twice and the slice comes round to it again.
THEOREM LossNeedsTwo == Spec => LossSeenTwice
  <1> DEFINE Twice == \A s \in Services :
                believed'[s] # believed[s] /\ Degraded(believed[s], believed'[s]) =>
                   \/ LooksAgain(s)
                   \/ /\ latest[s] # None /\ latest[s].suspect
                      /\ Shape(latest[s].walk) = Shape(believed'[s])
  <1>1. ASSUME IInv, [Next]_vars PROVE Twice
    <2> USE <1>1
    <2>1. CASE UNCHANGED believed
      BY <2>1
    <2>2. ASSUME NEW j \in Jobs, NEW w \in Walks, WalkOne(j, w) PROVE Twice
      <3>1. /\ todo[j] \in Seq(Services) /\ todo[j] # <<>> /\ pc[j] = "slice"
            /\ \A i \in DOMAIN todo[j] : todo[j][i] \notin looked[j] =>
                  /\ inUse[j][todo[j][i]] = believed[todo[j][i]]
                  /\ last[j][todo[j][i]] = latest[todo[j][i]]
        BY <2>2 DEF WalkOne, IInv, TypeOK, SliceInv
      <3>2. PICK s \in Services : s = Head(todo[j])
        BY <3>1, RestOfSlice
      <3>3. \/ LooksAgain(s)
            \/ inUse[j][s] = believed[s] /\ last[j][s] = latest[s]
        BY <3>1, <3>2, RestOfSlice DEF LooksAgain
      <3>4. believed' = IF Ok(w) /\ ~Suspect(j, s, w) THEN [believed EXCEPT ![s] = w] ELSE believed
        BY <2>2, <3>2 DEF WalkOne, Record
      <3>5. CASE Ok(w) /\ ~Suspect(j, s, w)
        <4>1. Degraded(believed[s], w) =>
                 \/ LooksAgain(s)
                 \/ latest[s] # None /\ latest[s].suspect /\ Shape(latest[s].walk) = Shape(w)
          BY <3>3, <3>5 DEF Suspect
        <4>2. \A t \in Services : believed'[t] = IF t = s THEN w ELSE believed[t]
          BY <3>4, <3>5 DEF IInv, TypeOK, Beliefs
        <4>3. QED
          BY <4>1, <4>2
      <3>6. QED
        BY <2>1, <3>4, <3>5
    <2>3. ASSUME NEW j \in Jobs, ReadsIt(j) PROVE Twice
      <3>1. Head(todo[j]) \in Services
        BY <2>3, RestOfSlice DEF ReadsIt, IInv, TypeOK, SliceInv
      <3>2. QED
        BY <2>2, <2>3, <3>1 DEF ReadsIt, IInv, TypeOK
    <2>4. ASSUME NEW j \in Jobs, Misreads(j) PROVE Twice
      BY <2>2, <2>4, KnownWalks DEF Misreads
    <2>5. CASE \/ \E s \in Services : CityChanges(s)
               \/ \E j \in Jobs :
                     Nightly(j) \/ RunByHand(j) \/ StopShort(j) \/ Propose(j) \/ JobDies(j)
      BY <2>1, <2>5 DEF CityChanges, Nightly, RunByHand, Run, StopShort, Propose, JobDies, stored
    <2>6. QED
      BY <2>1, <2>3, <2>4, <2>5 DEF Next, vars, stored
  <1>2. IInv /\ [Next]_vars => [Twice]_vars
    BY <1>1
  <1>3. QED
    BY <1>2, Invariance, PTL DEF Spec, LossSeenTwice
=============================================================================
