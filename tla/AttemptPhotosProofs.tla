------------------------ MODULE AttemptPhotosProofs ------------------------
(***************************************************************************)
(* AttemptPhotos for any number of concurrent calls, any limit and any     *)
(* retention: how far uploads that race can go over the limit, and when    *)
(* the only copy of a photo may be destroyed.                              *)
(***************************************************************************)
EXTENDS AttemptPhotos, FiniteSetTheorems, TLAPS

\* The size of a finite set is a natural number.
LEMMA Size == ASSUME NEW S, IsFiniteSet(S) PROVE Cardinality(S) \in Nat
BY FS_CardinalityType

\* The photos kept and the calls that have counted are finitely many.
LEMMA FiniteSets ==
    /\ IsFiniteSet(Kept) /\ Cardinality(Kept) \in Nat
    /\ IsFiniteSet(Counted) /\ Cardinality(Counted) \in Nat
<1>1. IsFiniteSet(Ids)
  BY PhotosAssumption, FS_Interval DEF Ids
<1>2. Kept \in SUBSET Ids
  BY DEF Kept
<1>3. Counted \in SUBSET Clients
  BY DEF Counted
<1>4. IsFiniteSet(Kept) /\ IsFiniteSet(Counted)
  <2>1. IsFiniteSet(Kept)
    BY ONLY <1>1, <1>2, FS_Subset
  <2>2. IsFiniteSet(Clients)
    BY PhotosAssumption
  <2>3. IsFiniteSet(Counted)
    BY ONLY <1>3, <2>2, FS_Subset
  <2> QED  BY <2>1, <2>3
<1> QED  BY <1>4, FS_CardinalityType

\* Every step keeps the types.
LEMMA TypeStep == TypeOK /\ [Next]_vars => TypeOK'
<1> SUFFICES ASSUME TypeOK, [Next]_vars PROVE TypeOK'
    OBVIOUS
<1> USE PhotosAssumption DEF TypeOK
<1>1. ASSUME NEW c \in Clients, ClientStep(c) PROVE TypeOK'
  <2>1. CASE Look(c, "adding") \/ Look(c, "removing")
    BY <2>1 DEF Look, table, queue
  <2>2. CASE Counts(c)
    <3>1. seen'[c] \in 0..MaxPhotos - 1 /\ seen' \in [Clients -> 0..MaxPhotos - 1]
      <4>1. Cardinality(Kept) \in Nat
        BY FiniteSets
      <4> QED  BY <2>2, <4>1 DEF Counts
    <3> QED  BY <2>2, <3>1 DEF Counts, table, queue
  <2>3. CASE Keeps(c)
    <3>1. PICK n \in Names \cup {seen[c] + 1} : name' = [name EXCEPT ![next] = n]
      BY <2>3 DEF Keeps
    <3>2. n \in FileNames
      BY <3>1 DEF FileNames
    <3>3. name' \in [Ids -> FileNames \cup {None}]
      BY <3>1, <3>2
    <3> QED  BY <2>3, <3>3 DEF Keeps, queue, Ids
  <2>4. CASE Refused(c)
    BY <2>4 DEF Refused, table, queue
  <2>5. CASE Removes(c)
    BY <2>5 DEF Removes, queue
  <2> QED  BY <1>1, <2>1, <2>2, <2>3, <2>4, <2>5 DEF ClientStep
<1>2. CASE RequestStep
  BY <1>2 DEF RequestStep, Queue, Approve, Retry, Become, table, queue, States, OpenStates
<1>3. CASE NewDay
  BY <1>3 DEF NewDay, queue, Kept
<1>4. CASE StartAndSweep \/ SweepFails
  BY <1>4 DEF StartAndSweep, SweepFails, Purge, table
<1>5. CASE Filing
  <2>1. CASE Claim
    BY <2>1 DEF Claim, States, table
  <2>2. CASE ForFiling
    BY <2>2 DEF ForFiling, Kept, table
  <2>3. CASE Submits
    <3> DEFINE listed == {i \in carried : \E j \in city' : name[j] = name[i]}
    <3>1. IsFiniteSet(1..MaxIds) /\ Cardinality(1..MaxIds) = MaxIds
      BY FS_Interval
    <3>2. listed \subseteq 1..MaxIds
      BY DEF Ids
    <3>3. Cardinality(listed) \in 0..MaxIds
      <4>1. listed \in SUBSET (1..MaxIds)
        BY <3>2
      <4>2. IsFiniteSet(listed) /\ Cardinality(listed) <= Cardinality(1..MaxIds)
        BY ONLY <3>1, <4>1, FS_Subset
      <4>3. Cardinality(listed) \in Nat
        BY ONLY <4>2, Size
      <4> HIDE DEF listed
      <4> QED  BY <3>1, <4>2, <4>3
    <3>4. city' \subseteq Ids
      BY <2>3 DEF Submits, OnDisk
    <3> QED  BY <2>3, <3>3, <3>4 DEF Submits, table
  <2>4. CASE FinishFiled
    BY <2>4 DEF FinishFiled, States, table
  <2>5. CASE Releases
    BY <2>5 DEF Releases, States, table
  <2>6. CASE PurgeFiled
    BY <2>6 DEF PurgeFiled, Purge, Kept
  <2> QED  BY <1>5, <2>1, <2>2, <2>3, <2>4, <2>5, <2>6 DEF Filing
<1>6. CASE Leaves \/ WorkerDies
  BY <1>6 DEF Leaves, WorkerDies, table
<1>7. CASE UNCHANGED vars
  BY <1>7 DEF vars
<1> QED  BY <1>1, <1>2, <1>3, <1>4, <1>5, <1>6, <1>7 DEF Next

\* Every reachable state is well-typed.
THEOREM PhotosTypeCorrect == Spec => []TypeOK
<1>1. Init => TypeOK
  BY PhotosAssumption DEF Init, TypeOK, States, OpenStates, Ids
<1> QED  BY <1>1, TypeStep, PTL DEF Spec

-----------------------------------------------------------------------------
(* The limit. An upload past its count adds at most one photo, so the kept  *)
(* photos and the uploads past their count are bounded together.            *)

Reserved ==
    Cardinality(Kept) + Cardinality(Counted) <= MaxPhotos + Cardinality(Clients) - 1

\* A step after which no more photos are kept or counted on keeps the bound.
LEMMA Shrinks ==
    ASSUME Reserved, Kept' \subseteq Kept, Counted' \subseteq Counted
    PROVE  Reserved'
<1>1. Cardinality(Kept') <= Cardinality(Kept) /\ Cardinality(Kept') \in Nat
  BY FiniteSets, FS_Subset, FS_CardinalityType
<1>2. Cardinality(Counted') <= Cardinality(Counted) /\ Cardinality(Counted') \in Nat
  BY FiniteSets, FS_Subset, FS_CardinalityType
<1>3. Cardinality(Clients) \in Nat /\ MaxPhotos \in Nat
  BY PhotosAssumption, FS_CardinalityType
<1> QED  BY <1>1, <1>2, <1>3, FiniteSets DEF Reserved

\* Every step keeps the count of room reserved.
LEMMA ReservedStep == TypeOK /\ Reserved /\ [Next]_vars => Reserved'
<1> SUFFICES ASSUME TypeOK, Reserved, [Next]_vars PROVE Reserved'
    OBVIOUS
<1>0. Cardinality(Clients) \in Nat /\ MaxPhotos \in Nat \ {0} /\ IsFiniteSet(Clients)
  BY PhotosAssumption, FS_CardinalityType
<1>1. ASSUME NEW c \in Clients, ClientStep(c) PROVE Reserved'
  <2>1. CASE Look(c, "adding") \/ Look(c, "removing")
    <3>1. Kept' \subseteq Kept /\ Counted' \subseteq Counted
      BY <2>1 DEF Look, table, Kept, Counted, TypeOK
    <3> QED  BY <3>1, Shrinks
  <2>2. CASE Counts(c)
    <3>1. Kept' = Kept
      BY <2>2 DEF Counts, table, Kept
    <3>2. Cardinality(Kept) <= MaxPhotos - 1
      BY <2>2, <1>0, FiniteSets DEF Counts
    <3>3. Counted' \in SUBSET Clients
      BY DEF Counted
    <3>4. Cardinality(Counted') <= Cardinality(Clients) /\ Cardinality(Counted') \in Nat
      BY ONLY <3>3, <1>0, FS_Subset, FS_CardinalityType
    <3> QED  BY <3>1, <3>2, <3>4, <1>0, FiniteSets DEF Reserved
  <2>3. CASE Keeps(c)
    <3>1. Kept' = Kept \cup {next}
      BY <2>3 DEF Keeps, Kept, TypeOK
    <3>2. Counted' = Counted \ {c} /\ c \in Counted
      BY <2>3 DEF Keeps, Counted, TypeOK
    <3>3. Cardinality(Kept') <= Cardinality(Kept) + 1 /\ Cardinality(Kept') \in Nat
      <4>1. Cardinality(Kept \cup {next}) \in {Cardinality(Kept), Cardinality(Kept) + 1}
        BY ONLY FiniteSets, FS_AddElement
      <4> QED  BY ONLY <3>1, <4>1, FiniteSets
    <3>4. Cardinality(Counted') = Cardinality(Counted) - 1
      BY <3>2, FiniteSets, FS_RemoveElement
    <3> QED  BY <3>3, <3>4, <1>0, FiniteSets DEF Reserved
  <2>4. CASE Refused(c)
    <3>1. Kept' \subseteq Kept /\ Counted' \subseteq Counted
      BY <2>4 DEF Refused, table, Kept, Counted, TypeOK
    <3> QED  BY <3>1, Shrinks
  <2>5. CASE Removes(c)
    <3>1. Kept' \subseteq Kept /\ Counted' \subseteq Counted
      BY <2>5 DEF Removes, Kept, Counted, TypeOK
    <3> QED  BY <3>1, Shrinks
  <2> QED  BY <1>1, <2>1, <2>2, <2>3, <2>4, <2>5 DEF ClientStep
<1>2. ASSUME RequestStep \/ NewDay \/ StartAndSweep \/ SweepFails \/ Filing
             \/ Leaves \/ WorkerDies \/ UNCHANGED vars
      PROVE  Reserved'
  <2>1. UNCHANGED client
    BY <1>2 DEF RequestStep, Queue, Approve, Retry, Become, NewDay, StartAndSweep,
       SweepFails, Filing, Claim, ForFiling, Submits, FinishFiled, Releases,
       PurgeFiled, Leaves, WorkerDies, vars
  <2>2. UNCHANGED photo \/ \E S \in SUBSET Ids : Purge(S)
    BY <1>2 DEF RequestStep, Queue, Approve, Retry, Become, NewDay, StartAndSweep,
       SweepFails, Filing, Claim, ForFiling, Submits, FinishFiled, Releases,
       PurgeFiled, Leaves, WorkerDies, vars, table, Kept, Old
  <2>3. Kept' \subseteq Kept /\ Counted' \subseteq Counted
    BY <2>1, <2>2 DEF Kept, Counted, Purge, TypeOK
  <2> QED  BY <2>3, Shrinks
<1> QED  BY <1>1, <1>2 DEF Next

\* At first no room is reserved.
LEMMA ReservedInit == Init => Reserved
<1> SUFFICES ASSUME Init PROVE Reserved
    OBVIOUS
<1>1. Kept = {} /\ Counted = {}
  BY DEF Init, Kept, Counted
<1>2. Cardinality(Clients) \in Nat \ {0}
  BY PhotosAssumption, FS_CardinalityType, FS_EmptySet
<1> QED  BY <1>1, <1>2, FS_EmptySet, PhotosAssumption DEF Reserved

\* Uploads that race go over MAX_PHOTOS by at most the calls under way less one,
\* however many there are.
THEOREM BoundedOvershoot == Spec => []KeptIsBounded
<1>1. Init => TypeOK
  BY PhotosAssumption DEF Init, TypeOK, States, OpenStates, Ids
<1>2. Reserved => KeptIsBounded
  BY FiniteSets, PhotosAssumption, FS_CardinalityType DEF Reserved, KeptIsBounded
<1> QED  BY <1>1, <1>2, TypeStep, ReservedInit, ReservedStep, PTL DEF Spec

-----------------------------------------------------------------------------
(* Purging                                                                 *)

PurgingIsFiled == worker = "purging" => state = "filed"

\* What an execution purges is filed, and stays so.
LEMMA PurgingStep == PurgingIsFiled /\ [Next]_vars => PurgingIsFiled'
<1> SUFFICES ASSUME PurgingIsFiled, [Next]_vars PROVE PurgingIsFiled'
    OBVIOUS
<1> USE DEF PurgingIsFiled
<1>1. ASSUME NEW c \in Clients, ClientStep(c) PROVE UNCHANGED <<state, worker>>
  BY <1>1 DEF ClientStep, Look, Counts, Keeps, Refused, Removes, queue
<1>2. CASE RequestStep
  BY <1>2 DEF RequestStep, Queue, Approve, Retry, Become, queue
<1>3. CASE NewDay \/ UNCHANGED vars
  BY <1>3 DEF NewDay, vars, queue
<1>4. CASE StartAndSweep \/ SweepFails \/ Leaves \/ WorkerDies
  BY <1>4 DEF StartAndSweep, SweepFails, Leaves, WorkerDies
<1>5. CASE Filing
  BY <1>5 DEF Filing, Claim, ForFiling, Submits, FinishFiled, Releases, PurgeFiled
<1> QED  BY <1>1, <1>2, <1>3, <1>4, <1>5 DEF Next

\* A step destroys photos only when it may.
LEMMA PurgeStep ==
    ASSUME TypeOK, PurgingIsFiled, [Next]_vars, NEW i \in Ids,
           photo[i] = "kept", photo'[i] = "purged"
    PROVE  state = "filed" \/ age[i] > KeepDays
<1>1. ASSUME NEW c \in Clients, ClientStep(c) PROVE FALSE
  BY <1>1 DEF ClientStep, Look, Counts, Keeps, Refused, Removes, table, TypeOK
<1>2. CASE StartAndSweep
  BY <1>2 DEF StartAndSweep, Purge, Old, Kept
<1>3. CASE PurgeFiled
  BY <1>3 DEF PurgeFiled, PurgingIsFiled
<1>4. ASSUME RequestStep \/ NewDay \/ SweepFails \/ Claim \/ ForFiling \/ Submits
             \/ FinishFiled \/ Releases \/ Leaves \/ WorkerDies \/ UNCHANGED vars
      PROVE  FALSE
  BY <1>4 DEF RequestStep, Queue, Approve, Retry, Become, NewDay, SweepFails, Claim,
     ForFiling, Submits, FinishFiled, Releases, Leaves, WorkerDies, vars, table
<1> QED  BY <1>1, <1>2, <1>3, <1>4 DEF Next, Filing

\* Whatever the limit and the retention, no step destroys the only copy of a
\* photo before the City has the request or KEEP_DAYS are over.
THEOREM PurgedOnlyInTime == Spec => PurgedOnlyWhenDone
<1>1. Init => TypeOK /\ PurgingIsFiled
  BY PhotosAssumption DEF Init, TypeOK, States, OpenStates, Ids, PurgingIsFiled
<1>2. TypeOK /\ PurgingIsFiled /\ [Next]_vars =>
        [\A i \in Ids : photo[i] = "kept" /\ photo'[i] = "purged" =>
           state = "filed" \/ age[i] > KeepDays]_vars
  BY PurgeStep
<1> QED  BY <1>1, <1>2, TypeStep, PurgingStep, PTL DEF Spec, PurgedOnlyWhenDone
=============================================================================
