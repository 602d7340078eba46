----------------------------- MODULE RegistryProofs -----------------------------
(***************************************************************************)
(* Proofs about the registry: of RegistryStore for any catalog, forms,     *)
(* administrators and number of nights and decisions; of RegistryCache,    *)
(* that an instance follows its own adoptions at once and that what it     *)
(* holds is never older than its date, for any set of versions and any     *)
(* number of threads.                                                      *)
(***************************************************************************)
EXTENDS RegistryStore, RegistryCache, TLAPS

-----------------------------------------------------------------------------
(* The store                                                               *)

\* Until something was logged nothing but the bundled registry is in use; and
\* what the walk's transaction has read is still so, unless the read failed or
\* a decision was committed meanwhile.
ReadInv ==
    /\ lastPut = None => \A v \in Versions : status[v] # "active"
    /\ night \in Inside => cur \in Versions /\ (~crossed => cur = AsRead)
    /\ night = "proposing" => offer \in Contents /\ (~crossed => seen = status[offer])

IInv == TypeOK /\ ReadInv

OneActive(st) == \A u, v \in Versions : st[u] = "active" /\ st[v] = "active" => u = v
OneWaits(st) == \A u, v \in Versions : st[u] = "proposed" /\ st[v] = "proposed" => u = v

-----------------------------------------------------------------------------
(* Versions, and the active one                                            *)

\* The active version, if there is one, is the one the status says.
LEMMA ActiveIs ==
  ASSUME NEW st, OneActive(st)
  PROVE  /\ ActiveIn(st) \in Versions \cup {None}
         /\ \A v \in Versions : st[v] = "active" <=> ActiveIn(st) = v
  <1>1. CASE \E v \in Versions : st[v] = "active"
    <2>1. ActiveIn(st) \in Versions /\ st[ActiveIn(st)] = "active"
      BY <1>1 DEF ActiveIn
    <2>2. QED
      BY <2>1 DEF OneActive
  <1>2. CASE ~(\E v \in Versions : st[v] = "active")
    <2>1. ActiveIn(st) = None
      BY <1>2 DEF ActiveIn
    <2>2. QED
      BY <1>2, <2>1, StoreAssumption
  <1>3. QED
    BY <1>1, <1>2

\* Two stores with the same active versions have the same version in use.
LEMMA SameActive ==
  ASSUME NEW st, NEW su, OneActive(st), OneActive(su),
         \A v \in Versions : st[v] = "active" <=> su[v] = "active"
  PROVE  ActiveIn(su) = ActiveIn(st)
  BY ActiveIs, StoreAssumption

\* What the walk leaves of a version is a registry, and not the bundled one.
LEMMA KeptIsContent ==
  ASSUME TypeOK, NEW v \in Versions
  PROVE  Kept(v) \in Contents /\ Kept(v) # Bundled /\ Content(Kept(v)) = Kept(v)
  <1>1. Content(v) \in Contents
    BY StoreAssumption DEF Content, Versions
  <1>2. Kept(v) \in Contents
    BY <1>1 DEF Kept, Contents
  <1>3. QED
    BY <1>2, StoreAssumption DEF Content

\* The version in use is the active one, the bundled one without one.
LEMMA CurrentIs ==
  ASSUME TypeOK
  PROVE  /\ Active \in Versions \cup {None} /\ Current \in Versions
         /\ \A v \in Versions : status[v] = "active" <=> Active = v
         /\ \A v \in Versions : status[v] = "active" => Current = v
  BY ActiveIs, StoreAssumption DEF TypeOK, Active, Current, OneActive, Versions

\* What putting a version in use does to the store.
LEMMA MakeActiveKeeps ==
  ASSUME NEW st \in [Versions -> Statuses], OneActive(st), OneWaits(st),
         lastPut \in Versions \cup {None},
         NEW v \in Versions, NEW read, MakeActive(st, v, read)
  PROVE  /\ status' \in [Versions -> Statuses] /\ OneActive(status') /\ OneWaits(status')
         /\ lastPut' \in Versions
         /\ \A u \in Versions : st[u] = "dismissed" => status'[u] \in {"dismissed", "active"}
         /\ read # v => ActiveIn(status') = v /\ lastPut' = v
         /\ read = v => /\ ActiveIn(status') = ActiveIn(st)
                        /\ lastPut' = IF lastPut = None THEN Bundled ELSE lastPut
  <1> USE StoreAssumption
  <1>1. /\ WithBaseline(st) \in [Versions -> Statuses]
        /\ \A u \in Versions : \/ WithBaseline(st)[u] = st[u]
                               \/ st[u] = "none" /\ WithBaseline(st)[u] = "retired"
    BY DEF WithBaseline, Versions, Statuses
  <1>2. CASE read = v
    <2>1. status' = WithBaseline(st) /\ lastPut' = IF lastPut = None THEN Bundled ELSE lastPut
      BY <1>2 DEF MakeActive
    <2>2. \A u \in Versions : st[u] = "active" <=> status'[u] = "active"
      BY <1>1, <2>1
    <2>3. OneActive(status') /\ OneWaits(status')
      BY <1>1, <2>1 DEF OneActive, OneWaits
    <2>4. ActiveIn(status') = ActiveIn(st)
      BY <2>2, <2>3, SameActive
    <2>5. QED
      BY <1>1, <1>2, <2>1, <2>3, <2>4 DEF Versions
  <1>3. CASE read # v
    <2>1. /\ \A u \in Versions : status'[u] =
                IF u = v THEN "active"
                ELSE IF WithBaseline(st)[u] = "active" THEN "retired" ELSE WithBaseline(st)[u]
          /\ status' \in [Versions -> Statuses] /\ lastPut' = v
      BY <1>1, <1>3 DEF MakeActive, Statuses
    <2>2. OneActive(status') /\ status'[v] = "active"
      BY <2>1 DEF OneActive
    <2>3. OneWaits(status')
      BY <1>1, <2>1 DEF OneWaits
    <2>4. ActiveIn(status') = v
      BY <2>2, ActiveIs
    <2>5. QED
      BY <1>1, <1>3, <2>1, <2>2, <2>3, <2>4
  <1>4. QED
    BY <1>2, <1>3

-----------------------------------------------------------------------------
(* The invariant                                                           *)

\* The invariant holds at first.
LEMMA InitIInv == Init => IInv
  <1> SUFFICES ASSUME Init PROVE IInv
    OBVIOUS
  <1> USE StoreAssumption DEF Init
  <1>1. listed \subseteq Types
    BY DEF Contents
  <1>2. misread \in BOOLEAN /\ crossed \in BOOLEAN
    BY Zenon
  <1>3. TypeOK
    BY <1>1, <1>2 DEF TypeOK, Statuses, Inside
  <1>4. ReadInv
    BY DEF ReadInv, Inside
  <1>5. QED
    BY <1>3, <1>4 DEF IInv

\* Steps that leave the store alone, as far as the invariant goes.
LEMMA StoreRests ==
  ASSUME TypeOK, UNCHANGED <<status, lastPut>>
  PROVE  Active' = Active /\ Current' = Current
  BY DEF Active, Current

\* The City changes its catalog or its form.
LEMMA CityInd ==
  ASSUME IInv, CityChanges
  PROVE  IInv'
  <1>1. Current' = Current
    BY StoreRests DEF IInv, CityChanges
  <1>2. TypeOK'
    BY StoreAssumption DEF CityChanges, IInv, TypeOK, walk
  <1>3. ReadInv'
    BY <1>1 DEF CityChanges, IInv, ReadInv, AsRead, walk
  <1>4. QED
    BY <1>2, <1>3 DEF IInv

\* A night begins.
LEMMA NightInd ==
  ASSUME IInv, Night \/ ShortNight \/ NightDies
  PROVE  IInv'
  <1> USE StoreAssumption DEF IInv
  <1>1. CASE Night \/ ShortNight
    <2>1. PICK live \in SUBSET listed, used \in {Current, Bundled} : NightBegins(live, used)
      BY <1>1 DEF Night, ShortNight
    <2>2. Content(used).types \subseteq Types
      BY CurrentIs DEF Content, Versions, Contents
    <2>3. faults' \in 0..MaxFaults
      BY <1>1 DEF Night, ShortNight, Reads, Fault, TypeOK
    <2>4. /\ catalog' \subseteq Types /\ codes' \subseteq Types \ catalog'
          /\ night' \in {"slice", "retire"}
          /\ UNCHANGED <<listed, status, lastPut, offer, cur, misread, seen, target, was, changes,
                         decisions, crossed>>
      BY <2>1, <2>2 DEF NightBegins, TypeOK
    <2>5. TypeOK'
      BY <2>3, <2>4 DEF TypeOK
    <2>6. ReadInv'
      BY <2>4 DEF ReadInv, Inside
    <2>7. QED
      BY <2>5, <2>6
  <1>2. CASE NightDies
    <2>1. misread' \in BOOLEAN /\ crossed' \in BOOLEAN
      BY <1>2, Zenon DEF NightDies, NightEnds
    <2>2. TypeOK'
      BY <1>2, <2>1 DEF NightDies, NightEnds, Fault, TypeOK
    <2>3. ReadInv'
      BY <1>2 DEF NightDies, NightEnds, ReadInv, Inside
    <2>4. QED
      BY <2>2, <2>3
  <1>3. QED
    BY <1>1, <1>2

\* What current() answers, and what a transaction of the walk makes of it.
LEMMA ReadsTyped ==
  ASSUME TypeOK, NEW failed \in BOOLEAN, NEW used \in {Current, Bundled}, Reads(used, failed)
  PROVE  /\ used \in Versions /\ faults' \in 0..MaxFaults
         /\ used = IF failed THEN Bundled ELSE Current
  BY CurrentIs, StoreAssumption DEF Reads, Fault, TypeOK, Versions

\* The transaction that retires reads.
LEMMA RetireReadsInd ==
  ASSUME IInv, RetireReads
  PROVE  IInv'
  <1> USE StoreAssumption DEF IInv
  <1>1. PICK failed \in BOOLEAN, used \in {Current, Bundled} :
          /\ Reads(used, failed)
          /\ IF Content(used).types \cap codes = {}
               THEN night' = "slice" /\ UNCHANGED <<cur, misread>>
               ELSE night' = "retiring" /\ cur' = used /\ misread' = failed
    BY DEF RetireReads
  <1>2. UNCHANGED <<listed, status, lastPut, catalog, codes, offer, seen, target, was, changes,
                    decisions, crossed>>
    BY DEF RetireReads
  <1>3. Current' = Current
    BY <1>2, StoreRests
  <1>4. /\ used \in Versions /\ faults' \in 0..MaxFaults
        /\ used = IF failed THEN Bundled ELSE Current
    BY <1>1, ReadsTyped
  <1>5. CASE Content(used).types \cap codes = {}
    <2>1. night' = "slice" /\ UNCHANGED <<cur, misread>>
      BY <1>1, <1>5
    <2>2. TypeOK'
      BY <1>2, <1>4, <2>1 DEF TypeOK
    <2>3. ReadInv'
      BY <1>2, <2>1 DEF ReadInv, Inside
    <2>4. QED
      BY <2>2, <2>3
  <1>6. CASE Content(used).types \cap codes # {}
    <2>1. night' = "retiring" /\ cur' = used /\ misread' = failed
      BY <1>1, <1>6
    <2>2. misread' \in BOOLEAN
      BY <2>1, Zenon
    <2>3. TypeOK'
      BY <1>2, <1>4, <2>1, <2>2 DEF TypeOK, Inside
    <2>4. cur' = AsRead'
      BY <1>3, <1>4, <2>1, Zenon DEF AsRead
    <2>5. ReadInv'
      BY <1>2, <1>4, <2>1, <2>4 DEF ReadInv, Inside
    <2>6. QED
      BY <2>3, <2>5
  <1>7. QED
    BY <1>5, <1>6

\* The transaction that retires commits.
LEMMA RetireCommitsInd ==
  ASSUME IInv, RetireCommits
  PROVE  IInv'
  <1> USE StoreAssumption DEF IInv
  <1> DEFINE v == Kept(cur)
             st == IF status[v] = "none" THEN [status EXCEPT ![v] = "retired"] ELSE status
  <1>1. cur \in Versions /\ v \in Versions
    BY KeptIsContent DEF RetireCommits, ReadInv, Inside, Versions
  <1>2. /\ MakeActive(st, v, Active)
        /\ night' = "slice" /\ cur' = None
        /\ UNCHANGED <<listed, catalog, codes, offer, seen, target, was, changes, faults, decisions>>
    BY DEF RetireCommits
  <1> HIDE DEF v
  <1>3. st \in [Versions -> Statuses] /\ OneActive(st) /\ OneWaits(st)
    BY <1>1 DEF TypeOK, OneActive, OneWaits, Statuses
  <1> HIDE DEF st
  <1>4. /\ status' \in [Versions -> Statuses] /\ OneActive(status') /\ OneWaits(status')
        /\ lastPut' \in Versions
    BY <1>1, <1>2, <1>3, MakeActiveKeeps DEF TypeOK
  <1>5. TypeOK'
    <2>1. misread' \in BOOLEAN /\ crossed' \in BOOLEAN
      BY Zenon DEF RetireCommits
    <2>2. QED
      BY <1>2, <1>4, <2>1 DEF TypeOK, OneActive, OneWaits
  <1>6. ReadInv'
    BY <1>2, <1>4 DEF ReadInv, Inside
  <1>7. QED
    BY <1>5, <1>6

\* The offer reads.
LEMMA ProposeReadsInd ==
  ASSUME IInv, ProposeReads
  PROVE  IInv'
  <1> USE StoreAssumption DEF IInv
  <1>1. PICK f \in Forms : offer' = [types |-> catalog, form |-> f]
    BY DEF ProposeReads
  <1>2. offer' \in Contents /\ offer' \in Versions
    BY <1>1 DEF TypeOK, Contents, Versions
  <1>3. /\ night' = "proposing" /\ seen' = status[offer']
        /\ misread' \in BOOLEAN /\ cur' \in {Current, Bundled} /\ Reads(cur', misread')
        /\ UNCHANGED <<listed, status, lastPut, catalog, codes, target, was, changes, decisions,
                       crossed>>
    BY Zenon DEF ProposeReads
  <1>4. Current' = Current
    BY <1>3, StoreRests
  <1>5. /\ cur' \in Versions /\ faults' \in 0..MaxFaults
        /\ cur' = IF misread' THEN Bundled ELSE Current
    BY <1>3, ReadsTyped
  <1>6. TypeOK'
    <2>1. seen' \in Statuses
      BY <1>2, <1>3 DEF TypeOK
    <2>2. QED
      BY <1>2, <1>3, <1>5, <2>1 DEF TypeOK, Inside
  <1>7. cur' = AsRead'
    BY <1>4, <1>5, Zenon DEF AsRead
  <1>8. ReadInv'
    BY <1>2, <1>3, <1>5, <1>7 DEF ReadInv, Inside
  <1>9. QED
    BY <1>6, <1>8

\* What the commit of propose does to the store. An offer that is active by
\* then, against what was read, is the one case in which the version in use
\* goes with nothing in its place.
LEMMA ProposeKeeps ==
  ASSUME TypeOK, ReadInv, ProposeCommits
  PROVE  /\ status' \in [Versions -> Statuses] /\ OneActive(status') /\ OneWaits(status')
         /\ lastPut' \in Versions \cup {None}
         /\ \A v \in Versions : status'[v] = "active" => status[v] = "active"
         /\ \A v \in Versions : status[v] = "active" /\ status'[v] # "active" => crossed
         /\ \A v \in Versions : status[v] = "dismissed" /\ status'[v] # "dismissed" => crossed
         /\ lastPut' = lastPut \/ (lastPut = None /\ lastPut' = Bundled)
  <1> USE StoreAssumption
  <1>1. /\ Withdraws \/ Decided \/ Offers
        /\ night = "proposing" /\ offer \in Versions /\ (~crossed => seen = status[offer])
    BY DEF ProposeCommits, ReadInv, Versions
  <1>2. CASE Withdraws
    <2>1. /\ \A v \in Versions : status'[v] = IF status[v] = "proposed" THEN "retired" ELSE status[v]
          /\ status' \in [Versions -> Statuses] /\ UNCHANGED lastPut
      BY <1>2 DEF Withdraws, Waiting, TypeOK, Statuses
    <2>2. QED
      BY <2>1 DEF TypeOK, OneActive, OneWaits
  <1>3. CASE Decided
    BY <1>3 DEF Decided, TypeOK, OneActive, OneWaits
  <1>4. CASE Offers
    <2>1. /\ WithBaseline(status) \in [Versions -> Statuses]
          /\ \A u \in Versions : \/ WithBaseline(status)[u] = status[u]
                                 \/ status[u] = "none" /\ WithBaseline(status)[u] = "retired"
      BY DEF TypeOK, WithBaseline, Versions, Statuses
    <2>2. /\ \A v \in Versions : status'[v] =
                IF v = offer THEN "proposed"
                ELSE IF status[v] = "proposed" THEN "retired" ELSE WithBaseline(status)[v]
          /\ status' \in [Versions -> Statuses]
          /\ lastPut' = IF lastPut = None THEN Bundled ELSE lastPut
          /\ seen \notin {"dismissed", "active"}
      BY <1>4, <2>1 DEF Offers, Waiting, Statuses
    <2>3. OneActive(status')
      BY <2>1, <2>2 DEF TypeOK, OneActive
    <2>4. OneWaits(status')
      BY <2>1, <2>2 DEF TypeOK, OneWaits
    <2>5. QED
      BY <1>1, <2>1, <2>2, <2>3, <2>4 DEF TypeOK, Versions
  <1>5. QED
    BY <1>1, <1>2, <1>3, <1>4

\* The offer commits, in one of its three ends.
LEMMA ProposeCommitsInd ==
  ASSUME IInv, ProposeCommits
  PROVE  IInv'
  <1> USE StoreAssumption DEF IInv
  <1>1. /\ night' = "idle" /\ catalog' = {} /\ codes' = {}
        /\ cur' = None /\ offer' = None /\ seen' = None
        /\ UNCHANGED <<listed, target, was, changes, faults, decisions>>
    BY DEF ProposeCommits, NightEnds
  <1>2. TypeOK'
    <2>1. misread' \in BOOLEAN /\ crossed' \in BOOLEAN
      BY Zenon DEF ProposeCommits, NightEnds
    <2>2. QED
      BY <1>1, <2>1, ProposeKeeps DEF TypeOK, OneActive, OneWaits
  <1>3. ReadInv'
    BY <1>1, ProposeKeeps DEF ReadInv, Inside
  <1>4. QED
    BY <1>2, <1>3

\* The administrators' transactions.
LEMMA AdminInd ==
  ASSUME IInv, (\E t \in Admins : AdoptReads(t) \/ AdoptCommits(t) \/ AdoptFails(t)) \/ Dismiss
  PROVE  IInv'
  <1> USE StoreAssumption DEF IInv
  <1>1. ASSUME NEW t \in Admins, AdoptReads(t) PROVE IInv'
    <2>1. /\ target' \in [Admins -> Versions \cup {None}] /\ was' \in [Admins -> Versions \cup {None}]
          /\ decisions' \in 0..MaxDecisions
          /\ UNCHANGED <<listed, status, lastPut, walk, changes, faults, crossed>>
      BY <1>1, CurrentIs DEF AdoptReads, Deciding, TypeOK
    <2>2. Current' = Current
      BY <2>1, StoreRests
    <2>3. QED
      BY <2>1, <2>2 DEF TypeOK, ReadInv, AsRead, walk
  <1>2. ASSUME NEW t \in Admins, AdoptEnds(t)
        PROVE  /\ target' \in [Admins -> Versions \cup {None}]
               /\ was' \in [Admins -> Versions \cup {None}]
               /\ UNCHANGED <<listed, walk, changes, faults, decisions>>
    BY <1>2 DEF AdoptEnds, TypeOK
  <1>3. ASSUME NEW t \in Admins, AdoptFails(t) PROVE IInv'
    <2>1. /\ target' \in [Admins -> Versions \cup {None}] /\ was' \in [Admins -> Versions \cup {None}]
          /\ UNCHANGED <<listed, walk, changes, faults, decisions, status, lastPut, crossed>>
      BY <1>2, <1>3 DEF AdoptFails
    <2>2. Current' = Current
      BY <2>1, StoreRests
    <2>3. QED
      BY <2>1, <2>2 DEF TypeOK, ReadInv, AsRead, walk
  <1>4. ASSUME Crosses PROVE crossed' \in BOOLEAN /\ (night \in Inside => crossed')
    BY <1>4, Zenon DEF Crosses
  <1>5. ASSUME NEW t \in Admins, AdoptCommits(t) PROVE IInv'
    <2>1. /\ target[t] \in Versions /\ MakeActive(status, target[t], was[t]) /\ Crosses
          /\ target' \in [Admins -> Versions \cup {None}] /\ was' \in [Admins -> Versions \cup {None}]
          /\ UNCHANGED <<listed, walk, changes, faults, decisions>>
      BY <1>2, <1>5 DEF AdoptCommits, TypeOK
    <2>2. /\ status' \in [Versions -> Statuses] /\ OneActive(status') /\ OneWaits(status')
          /\ lastPut' \in Versions
      <3>1. OneActive(status) /\ OneWaits(status)
        BY DEF TypeOK, OneActive, OneWaits
      <3>2. QED
        BY <2>1, <3>1, MakeActiveKeeps DEF TypeOK
    <2>3. crossed' \in BOOLEAN /\ (night \in Inside => crossed')
      BY <1>4, <2>1
    <2>4. TypeOK'
      BY <2>1, <2>2, <2>3 DEF TypeOK, OneActive, OneWaits, walk
    <2>5. ReadInv'
      BY <2>1, <2>2, <2>3 DEF ReadInv, walk, Inside
    <2>6. QED
      BY <2>4, <2>5
  <1>6. CASE Dismiss
    <2>1. PICK v \in Waiting : status' = [status EXCEPT ![v] = "dismissed"]
      BY <1>6 DEF Dismiss
    <2>2. /\ status' \in [Versions -> Statuses]
          /\ \A u \in Versions : status'[u] = IF u = v THEN "dismissed" ELSE status[u]
      BY <2>1 DEF TypeOK, Statuses
    <2>3. crossed' \in BOOLEAN /\ (night \in Inside => crossed')
      BY <1>4, <1>6 DEF Dismiss
    <2>4. decisions' \in 0..MaxDecisions /\ UNCHANGED <<listed, lastPut, walk, target, was, changes, faults>>
      BY <1>6 DEF Dismiss, Deciding, TypeOK
    <2>5. TypeOK'
      BY <2>2, <2>3, <2>4 DEF TypeOK, walk
    <2>6. ReadInv'
      BY <2>2, <2>3, <2>4 DEF ReadInv, walk, Inside
    <2>7. QED
      BY <2>5, <2>6
  <1>7. QED
    BY <1>1, <1>3, <1>5, <1>6

\* Every step keeps the invariant.
LEMMA StepIInv == IInv /\ [Next]_vars => IInv'
  <1> SUFFICES ASSUME IInv, [Next]_vars PROVE IInv'
    OBVIOUS
  <1>1. CASE UNCHANGED vars
    <2>1. Current' = Current
      BY <1>1, StoreRests DEF IInv, vars
    <2>2. QED
      BY <1>1, <2>1 DEF IInv, TypeOK, ReadInv, AsRead, vars, walk
  <1>2. QED
    BY <1>1, CityInd, NightInd, RetireReadsInd, RetireCommitsInd, ProposeReadsInd,
       ProposeCommitsInd, AdminInd DEF Next

\* The invariant holds in every reachable state.
THEOREM Invariance == Spec => []IInv
  <1>1. QED
    BY InitIInv, StepIInv, PTL DEF Spec

\* Every variable keeps its type; in particular at most one version is active
\* and at most one waits, however adoptions, retirements and offers race.
THEOREM TypeCorrect == Spec => []TypeOK
  <1>1. IInv => TypeOK
    BY DEF IInv
  <1>2. QED
    BY <1>1, Invariance, PTL

-----------------------------------------------------------------------------
(* What a step may never do                                                *)

\* The steps that write neither the status of a version nor the log.
Elsewhere ==
    \/ CityChanges \/ Night \/ ShortNight \/ RetireReads \/ ProposeReads \/ NightDies
    \/ \E t \in Admins : AdoptReads(t) \/ AdoptFails(t)

\* Steps outside the store leave its rows alone.
LEMMA ElsewhereRests == Elsewhere => UNCHANGED <<status, lastPut>>
  BY DEF Elsewhere, CityChanges, Night, ShortNight, NightBegins, RetireReads, ProposeReads,
         NightDies, AdoptReads, AdoptFails, walk

\* A retirement puts in use what is left of the version it read, or leaves
\* that in use.
LEMMA RetireCommitsEffect ==
  ASSUME IInv, RetireCommits
  PROVE  /\ cur \in Versions
         /\ \A u \in Versions : status[u] = "dismissed" => status'[u] \in {"dismissed", "active"}
         /\ Active' = Kept(cur) /\ Current' = Kept(cur)
         /\ Active # Kept(cur) => lastPut' = Kept(cur)
         /\ Active = Kept(cur) => lastPut' = lastPut
  <1> USE StoreAssumption DEF IInv
  <1> DEFINE v == Kept(cur)
             st == IF status[v] = "none" THEN [status EXCEPT ![v] = "retired"] ELSE status
  <1>1. cur \in Versions /\ v \in Versions
    BY KeptIsContent DEF RetireCommits, ReadInv, Inside, Versions
  <1>2. MakeActive(st, v, Active)
    BY DEF RetireCommits
  <1> HIDE DEF v
  <1>3. /\ st \in [Versions -> Statuses] /\ OneActive(st) /\ OneWaits(st)
        /\ \A u \in Versions : /\ st[u] = "active" <=> status[u] = "active"
                               /\ st[u] = "dismissed" <=> status[u] = "dismissed"
    BY <1>1 DEF TypeOK, OneActive, OneWaits, Statuses
  <1> HIDE DEF st
  <1>4. /\ \A u \in Versions : st[u] = "dismissed" => status'[u] \in {"dismissed", "active"}
        /\ Active # v => ActiveIn(status') = v /\ lastPut' = v
        /\ Active = v => /\ ActiveIn(status') = ActiveIn(st)
                         /\ lastPut' = IF lastPut = None THEN Bundled ELSE lastPut
    BY <1>1, <1>2, <1>3, MakeActiveKeeps DEF TypeOK
  <1>5. Active' = v
    <2>1. OneActive(status)
      BY DEF TypeOK, OneActive
    <2>2. ActiveIn(st) = Active
      BY <1>3, <2>1, SameActive DEF Active
    <2>3. QED
      BY <1>4, <2>2 DEF Active
  <1>6. Active = v => lastPut # None
    BY <1>1, CurrentIs DEF ReadInv
  <1>7. QED
    BY <1>1, <1>3, <1>4, <1>5, <1>6 DEF Current, v, Versions

\* An adoption puts its version in use, or leaves it in use.
LEMMA AdoptCommitsEffect ==
  ASSUME IInv, NEW t \in Admins, AdoptCommits(t)
  PROVE  /\ target'[t] # target[t]
         /\ \A u \in Versions : status[u] = "dismissed" => status'[u] \in {"dismissed", "active"}
         /\ \/ Current' = lastPut'
            \/ Current' = Current /\ lastPut' = lastPut
  <1> USE StoreAssumption DEF IInv
  <1>1. /\ target[t] \in Versions /\ target'[t] = None
        /\ MakeActive(status, target[t], was[t])
    BY DEF AdoptCommits, AdoptEnds, TypeOK
  <1>2. OneActive(status) /\ OneWaits(status)
    BY DEF TypeOK, OneActive, OneWaits
  <1>3. /\ \A u \in Versions : status[u] = "dismissed" => status'[u] \in {"dismissed", "active"}
        /\ was[t] # target[t] => Active' = target[t] /\ lastPut' = target[t]
        /\ was[t] = target[t] => Active' = Active
                                 /\ lastPut' = IF lastPut = None THEN Bundled ELSE lastPut
    BY <1>1, <1>2, MakeActiveKeeps DEF TypeOK, Active
  <1>4. lastPut = None => Active = None
    BY CurrentIs DEF ReadInv
  <1>5. QED
    BY <1>1, <1>3, <1>4 DEF Current, Versions

\* A night's offer leaves the version in use where it is, unless a decision
\* crossed it.
LEMMA ProposeCommitsEffect ==
  ASSUME IInv, ProposeCommits, ~crossed
  PROVE  /\ Current' = Current
         /\ lastPut' = lastPut \/ (lastPut = None /\ lastPut' = Current')
         /\ \A v \in Versions : status[v] = "dismissed" => status'[v] = "dismissed"
  <1> USE StoreAssumption DEF IInv
  <1>1. /\ \A v \in Versions : status[v] = "active" <=> status'[v] = "active"
        /\ \A v \in Versions : status[v] = "dismissed" => status'[v] = "dismissed"
        /\ OneActive(status')
        /\ lastPut' = lastPut \/ (lastPut = None /\ lastPut' = Bundled)
    BY ProposeKeeps
  <1>2. Active' = Active
    <2>1. OneActive(status)
      BY DEF TypeOK, OneActive
    <2>2. QED
      BY <1>1, <2>1, SameActive DEF Active
  <1>3. lastPut = None => Current = Bundled
    BY CurrentIs DEF ReadInv, Current
  <1>4. QED
    BY <1>1, <1>2, <1>3 DEF Current

\* A dismissal writes one row and one event.
LEMMA DismissEffect ==
  ASSUME IInv, Dismiss
  PROVE  /\ Current' = Current /\ lastPut' = lastPut
         /\ \A v \in Versions : status[v] = "dismissed" => status'[v] = "dismissed"
  <1> USE DEF IInv
  <1>1. PICK w \in Waiting : status' = [status EXCEPT ![w] = "dismissed"]
    BY DEF Dismiss
  <1>2. \A u \in Versions : status'[u] = IF u = w THEN "dismissed" ELSE status[u]
    BY <1>1 DEF TypeOK
  <1>3. \A v \in Versions : status[v] = "active" <=> status'[v] = "active"
    BY <1>1, <1>2 DEF Waiting
  <1>4. OneActive(status) /\ OneActive(status')
    BY <1>3 DEF TypeOK, OneActive
  <1>5. Active' = Active
    BY <1>3, <1>4, SameActive DEF Active
  <1>6. QED
    BY <1>2, <1>5 DEF Current, Dismiss

\* A step commits to the store, or is elsewhere.
LEMMA NextCases ==
  ASSUME [Next]_vars
  PROVE  \/ UNCHANGED <<status, lastPut>>
         \/ RetireCommits \/ ProposeCommits \/ Dismiss
         \/ \E t \in Admins : AdoptCommits(t)
  BY ElsewhereRests DEF Next, vars, Elsewhere

\* What the log says was put in use last is what is in use, unless a decision
\* crossed the walk's transaction.
THEOREM LogIsTrue == Spec => HistoryStaysTrue
  <1> DEFINE Tells == \/ lastPut \notin {None, Current}
                      \/ lastPut' \in {None, Current'}
                      \/ crossed
  <1>1. ASSUME IInv, [Next]_vars PROVE Tells
    <2> USE <1>1
    <2>1. CASE UNCHANGED <<status, lastPut>>
      BY <2>1, StoreRests DEF IInv
    <2>2. CASE RetireCommits
      <3>1. Active = Kept(cur) => Current = Kept(cur)
        BY KeptIsContent, CurrentIs, RetireCommitsEffect, <2>2, StoreAssumption
           DEF Current, IInv, Versions
      <3>2. QED
        BY <2>2, <3>1, RetireCommitsEffect
    <2>3. CASE ProposeCommits
      BY <2>3, ProposeCommitsEffect
    <2>4. CASE Dismiss
      BY <2>4, DismissEffect
    <2>5. ASSUME NEW t \in Admins, AdoptCommits(t) PROVE Tells
      BY <2>5, AdoptCommitsEffect
    <2>6. QED
      BY <2>1, <2>2, <2>3, <2>4, <2>5, NextCases
  <1>2. IInv /\ [Next]_vars => [Tells]_vars
    BY <1>1
  <1>3. QED
    BY <1>2, Invariance, PTL DEF Spec, HistoryStaysTrue

\* What a retirement leaves of a version is that version without request types
\* the City did not list.
LEMMA KeptLosesUnlisted ==
  ASSUME TypeOK, NEW v \in Versions
  PROVE  LosesUnlisted(Content(v), Kept(v))
  <1>1. Content(v) \in Contents
    BY StoreAssumption DEF Content, Versions
  <1>2. Kept(v).form = Content(v).form /\ Kept(v).types = Content(v).types \ codes
    BY <1>1 DEF Kept, Contents
  <1>3. QED
    BY <1>2 DEF LosesUnlisted, TypeOK

\* Without an administrator the form only loses request types the City did not
\* list that night, against the version its transaction read as in use, unless
\* a decision crossed that transaction.
THEOREM OnlyLosesAlone == Spec => OnlyRetiresAlone
  <1> DEFINE Alone == Current' # Current /\ (\A t \in Admins : target[t] = target'[t]) =>
                \/ crossed
                \/ /\ LosesUnlisted(Content(AsRead), Content(Current)')
                   /\ lastPut' = Current'
  <1>1. ASSUME IInv, [Next]_vars PROVE Alone
    <2> USE <1>1
    <2>1. CASE UNCHANGED <<status, lastPut>>
      BY <2>1, StoreRests DEF IInv
    <2>2. CASE RetireCommits
      <3>1. night = "retiring"
        BY <2>2 DEF RetireCommits
      <3>2. cur \in Versions /\ (~crossed => cur = AsRead)
        BY <3>1 DEF IInv, ReadInv, Inside
      <3>3. Current' # Current => Active # Kept(cur)
        BY <2>2, RetireCommitsEffect, KeptIsContent, StoreAssumption DEF Current, IInv, Versions
      <3>4. Content(Current)' = Kept(cur)
        <4>1. Content(Current)' = Content(Current')
          BY DEF Content
        <4>2. QED
          BY <2>2, <3>2, <4>1, RetireCommitsEffect, KeptIsContent DEF IInv
      <3>5. LosesUnlisted(Content(cur), Kept(cur))
        BY <3>2, KeptLosesUnlisted DEF IInv
      <3>6. QED
        BY <2>2, <3>2, <3>3, <3>4, <3>5, RetireCommitsEffect
    <2>3. CASE ProposeCommits
      BY <2>3, ProposeCommitsEffect
    <2>4. CASE Dismiss
      BY <2>4, DismissEffect
    <2>5. ASSUME NEW t \in Admins, AdoptCommits(t) PROVE Alone
      BY <2>5, AdoptCommitsEffect
    <2>6. QED
      BY <2>1, <2>2, <2>3, <2>4, <2>5, NextCases
  <1>2. IInv /\ [Next]_vars => [Alone]_vars
    BY <1>1
  <1>3. QED
    BY <1>2, Invariance, PTL DEF Spec, OnlyRetiresAlone

\* What an administrator turned down is not offered again, unless the decision
\* crossed the offer; it only comes into use.
THEOREM NoIsKept == Spec => NoStaysNo
  <1> DEFINE Kind == \A v \in Versions :
                status[v] = "dismissed" /\ status'[v] # "dismissed" =>
                   crossed \/ status'[v] = "active"
  <1>1. ASSUME IInv, [Next]_vars PROVE Kind
    <2> USE <1>1
    <2>1. CASE UNCHANGED <<status, lastPut>>
      BY <2>1
    <2>2. CASE RetireCommits
      BY <2>2, RetireCommitsEffect
    <2>3. CASE ProposeCommits
      BY <2>3, ProposeCommitsEffect
    <2>4. CASE Dismiss
      BY <2>4, DismissEffect
    <2>5. ASSUME NEW t \in Admins, AdoptCommits(t) PROVE Kind
      BY <2>5, AdoptCommitsEffect
    <2>6. QED
      BY <2>1, <2>2, <2>3, <2>4, <2>5, NextCases
  <1>2. IInv /\ [Next]_vars => [Kind]_vars
    BY <1>1
  <1>3. QED
    BY <1>2, Invariance, PTL DEF Spec, NoStaysNo

-----------------------------------------------------------------------------
(* The cache                                                               *)

\* One thread at a time is past the lock, and only a handler that asked is
\* inside _current.
LockInv ==
    /\ \A t \in Threads : step[t] \in {"looking", "fetching", "filling"} => lock = t
    /\ \A t \in Threads : step[t] # "ready" => doing[t] \in Asking

\* The version in use is a recent one, for every adoption under way, and so is
\* what a call has read under the lock: no adoption is followed in between.
RecentInv ==
    /\ InUse \in recent
    /\ \A s \in Adopters : doing[s] = "refresh" => InUse \in mine[s]
    /\ \A t \in Threads : step[t] = "filling" => got[t] \in recent
    /\ FollowsAtOnce

\* What a call has read has been out of use no longer than the call has lasted.
AgeInv ==
    /\ gone[InUse] = 0
    /\ \A t \in Threads : step[t] = "filling" => gone[got[t]] <= late[t]
    /\ StaleIsBounded

\* What every step of a handler leaves well-typed.
LEMMA GoesTyped ==
    ASSUME CacheTypeOK, NEW t \in Threads, NEW v \in Editions, Goes(t, v)
    PROVE  /\ doing' \in [Threads -> Asking \cup {"idle", "refresh"}]
           /\ order' \in [Threads -> {"body", "tag"}]
           /\ first' \in [Threads -> Editions \cup {Nothing}]
           /\ copy' \in [Apps -> [body : Editions \cup {Nothing}, tag : Editions \cup {Nothing}]]
           /\ \A s \in Threads : s # t => doing'[s] = doing[s]
           /\ \A s \in Threads : doing'[s] = "refresh" => doing[s] = "refresh"
<1>1. CASE /\ doing[t] = "check" /\ copy[t].tag = v
           /\ doing' = [doing EXCEPT ![t] = "idle"]
           /\ UNCHANGED <<order, first, copy>>
  BY <1>1 DEF CacheTypeOK, Asking
<1>2. CASE /\ doing[t] = "check" /\ copy[t].tag # v
           /\ doing' = [doing EXCEPT ![t] = order[t]]
           /\ UNCHANGED <<order, first, copy>>
  BY <1>2 DEF CacheTypeOK, Asking
<1>3. CASE /\ doing[t] = order[t]
           /\ doing' = [doing EXCEPT ![t] = IF @ = "body" THEN "tag" ELSE "body"]
           /\ first' = [first EXCEPT ![t] = v]
           /\ UNCHANGED <<order, copy>>
  BY <1>3 DEF CacheTypeOK, Asking
<1>4. CASE /\ doing[t] \in {"body", "tag"} \ {order[t]}
           /\ doing' = [doing EXCEPT ![t] = "idle"]
           /\ copy' = [copy EXCEPT ![t] = IF order[t] = "body" THEN [body |-> first[t], tag |-> v]
                                                               ELSE [body |-> v, tag |-> first[t]]]
           /\ first' = [first EXCEPT ![t] = Nothing]
           /\ UNCHANGED order
  BY <1>4 DEF CacheTypeOK, Asking
<1>5. CASE /\ doing[t] = "report"
           /\ doing' = [doing EXCEPT ![t] = "idle"]
           /\ UNCHANGED <<order, first, copy>>
  BY <1>5 DEF CacheTypeOK, Asking
<1> QED
  BY <1>1, <1>2, <1>3, <1>4, <1>5 DEF Goes

\* A call that fills the copy.
LEMMA FillTyped ==
    ASSUME CacheTypeOK, NEW t \in Threads, NEW v \in Editions, Fill(t, v), age' = late[t],
           blind' \in BOOLEAN
    PROVE  CacheTypeOK'
<1> USE CacheAssumption
<1>1. age' \in 0..MaxAge
  BY DEF CacheTypeOK, MaxAge
<1>2. /\ step' \in [Threads -> InCall \cup {"ready"}]
      /\ late' \in [Threads -> 0..MaxWait]
      /\ got' \in [Threads -> Editions \cup {Nothing}]
      /\ \A s \in Threads : step'[s] = "filling" => got'[s] \in Editions
  BY DEF CacheTypeOK, Fill, Done, InCall
<1> QED
  BY <1>1, <1>2, GoesTyped DEF CacheTypeOK, Fill, database, ghosts

\* Types are inductive by themselves.
THEOREM CacheTypeCorrect == CacheSpec => []CacheTypeOK
<1> USE CacheAssumption
<1>1. CacheInit => CacheTypeOK
  <2> SUFFICES ASSUME CacheInit
               PROVE  CacheTypeOK
    OBVIOUS
  <2>1. MaxAge \in Nat
    BY DEF MaxAge
  <2>2. /\ active \in Editions \cup {Nothing}
        /\ gone \in [Editions -> 0..MaxAge]
        /\ held \in Editions \cup {Nothing}
        /\ age \in 0..MaxAge
    BY <2>1 DEF CacheInit
  <2>3. /\ late \in [Threads -> 0..MaxWait]
        /\ got \in [Threads -> Editions \cup {Nothing}]
        /\ first \in [Threads -> Editions \cup {Nothing}]
    BY DEF CacheInit
  <2>4. copy \in [Apps -> [body : Editions \cup {Nothing}, tag : Editions \cup {Nothing}]]
    BY DEF CacheInit
  <2>5. /\ doing \in [Threads -> Asking \cup {"idle", "refresh"}]
        /\ step \in [Threads -> InCall \cup {"ready"}]
        /\ order \in [Threads -> {"body", "tag"}]
        /\ \A t \in Threads : step[t] = "filling" => got[t] \in Editions
    BY DEF CacheInit, InCall, Asking
  <2> QED
    BY <2>2, <2>3, <2>4, <2>5 DEF CacheInit, CacheTypeOK
<1>2. CacheTypeOK /\ [CacheNext]_cacheVars => CacheTypeOK'
  <2> SUFFICES ASSUME CacheTypeOK, [CacheNext]_cacheVars
               PROVE  CacheTypeOK'
    OBVIOUS
  <2>1. CASE Tick
    <3>1. age' \in 0..MaxAge
      BY <2>1 DEF Tick, CacheTypeOK, MaxAge
    <3>2. late' \in [Threads -> 0..MaxWait]
      BY <2>1 DEF Tick, CacheTypeOK
    <3>3. gone' \in [Editions -> 0..MaxAge]
      BY <2>1 DEF Tick, CacheTypeOK, MaxAge
    <3> QED
      BY <2>1, <3>1, <3>2, <3>3 DEF Tick, CacheTypeOK, handler, ghosts
  <2>2. ASSUME NEW t \in Apps, Ask(t)
        PROVE  CacheTypeOK'
    BY <2>2 DEF Ask, CacheTypeOK, Threads, Asking, database, cache, call, ghosts
  <2>3. ASSUME NEW t \in Adopters, NEW v \in Editions, Adopt(t, v)
        PROVE  CacheTypeOK'
    <3>1. InUse' \in Editions
      BY <2>3 DEF Adopt, Becomes, InUse
    <3> QED
      BY <2>3, <3>1 DEF Adopt, Becomes, CacheTypeOK, Threads, MaxAge, cache, call
  <2>4. ASSUME NEW v \in Editions \cup {Nothing}, ChangeElsewhere(v)
        PROVE  CacheTypeOK'
    <3>1. InUse' \in Editions
      BY <2>4 DEF ChangeElsewhere, Becomes, InUse
    <3> QED
      BY <2>4, <3>1 DEF ChangeElsewhere, Becomes, CacheTypeOK, MaxAge, cache, call, handler
  <2>5. ASSUME NEW t \in Adopters, Refresh(t)
        PROVE  CacheTypeOK'
    BY <2>5 DEF Refresh, CacheTypeOK, Threads, Asking, MaxAge, database, call
  <2>6. ASSUME NEW t \in Threads, CurrentStep(t)
        PROVE  CacheTypeOK'
    <3>1. CASE Hit(t)
      <4>1. held \in Editions
        BY <3>1 DEF Hit, Fresh, CacheTypeOK
      <4> QED
        BY <3>1, <4>1, GoesTyped DEF Hit, CacheTypeOK, database, cache, call, ghosts
    <3>2. CASE Miss(t)
      BY <3>2 DEF Miss, CacheTypeOK, InCall, database, cache, handler, ghosts
    <3>3. CASE Enter(t)
      <4>1. CASE Fresh(t) /\ Goes(t, held) /\ Done(t) /\ UNCHANGED lock
        <5>1. held \in Editions
          BY <4>1 DEF Fresh, CacheTypeOK
        <5>2. /\ step' \in [Threads -> InCall \cup {"ready"}]
              /\ late' \in [Threads -> 0..MaxWait]
              /\ got' \in [Threads -> Editions \cup {Nothing}]
              /\ \A s \in Threads : step'[s] = "filling" => got'[s] \in Editions
          BY <4>1 DEF CacheTypeOK, Done, InCall
        <5> QED
          BY <3>3, <4>1, <5>1, <5>2, GoesTyped DEF Enter, CacheTypeOK, database, ghosts
      <4>2. CASE /\ ~Fresh(t)
                 /\ lock' = t
                 /\ step' = [step EXCEPT ![t] = "looking"]
                 /\ UNCHANGED <<late, got, handler>>
        BY <3>3, <4>2 DEF Enter, CacheTypeOK, InCall, database, handler, ghosts
      <4> QED
        BY <3>3, <4>1, <4>2 DEF Enter
    <3>4. CASE Look(t)
      BY <3>4 DEF Look, InUse, CacheTypeOK, InCall, database, cache, handler, ghosts
    <3>5. CASE Fetch(t)
      BY <3>5 DEF Fetch, InUse, CacheTypeOK, InCall, database, cache, handler, ghosts
    <3>6. CASE Filled(t)
      BY <3>6, FillTyped DEF Filled, CacheTypeOK
    <3>7. CASE Fails(t)
      BY <3>7, FillTyped DEF Fails, CacheTypeOK
    <3> QED
      BY <2>6, <3>1, <3>2, <3>3, <3>4, <3>5, <3>6, <3>7 DEF CurrentStep
  <2>7. CASE UNCHANGED cacheVars
    BY <2>7 DEF CacheTypeOK, cacheVars, database, cache, call, handler, ghosts
  <2> QED
    BY <2>1, <2>2, <2>3, <2>4, <2>5, <2>6, <2>7 DEF CacheNext
<1> QED
  BY <1>1, <1>2, PTL DEF CacheSpec

-----------------------------------------------------------------------------
(* What a step of a handler, a fill and a tick leave of the invariant      *)

\* Every call that ends lets the lock go or never had it.
LEMMA LockKept ==
    ASSUME CacheTypeOK, LockInv, [CacheNext]_cacheVars
    PROVE  LockInv'
<1> USE CacheAssumption
<1> USE DEF LockInv
<1>0. Nothing \notin Threads
  BY DEF Threads
<1>1. CASE Tick
  BY <1>1 DEF Tick, handler
<1>2. ASSUME NEW t \in Apps, Ask(t)
      PROVE  LockInv'
  BY <1>2 DEF Ask, CacheTypeOK, Threads, Asking, cache, call
<1>3. ASSUME NEW t \in Adopters, NEW v \in Editions, Adopt(t, v)
      PROVE  LockInv'
  <2>1. step[t] = "ready"
    BY <1>3 DEF Adopt, Asking, Threads
  <2> QED
    BY <1>3, <2>1 DEF Adopt, CacheTypeOK, Threads, cache, call
<1>4. ASSUME NEW v \in Editions \cup {Nothing}, ChangeElsewhere(v)
      PROVE  LockInv'
  BY <1>4 DEF ChangeElsewhere, cache, call, handler
<1>5. ASSUME NEW t \in Adopters, Refresh(t)
      PROVE  LockInv'
  BY <1>5 DEF Refresh, CacheTypeOK, Threads, Asking, call
<1>6. ASSUME NEW t \in Threads, CurrentStep(t)
      PROVE  LockInv'
  <2>1. CASE Hit(t)
    <3>1. held \in Editions
      BY <2>1 DEF Hit, Fresh, CacheTypeOK
    <3> QED
      BY <2>1, <3>1, GoesTyped DEF Hit, cache, call
  <2>2. CASE Miss(t)
    BY <2>2 DEF Miss, CacheTypeOK, cache, handler
  <2>3. CASE Enter(t)
    <3>1. CASE Fresh(t) /\ Goes(t, held) /\ Done(t) /\ UNCHANGED lock
      <4>1. held \in Editions
        BY <3>1 DEF Fresh, CacheTypeOK
      <4> QED
        BY <3>1, <4>1, GoesTyped DEF Done, CacheTypeOK
    <3>2. CASE /\ ~Fresh(t)
               /\ lock' = t
               /\ step' = [step EXCEPT ![t] = "looking"]
               /\ UNCHANGED <<late, got, handler>>
      BY <1>0, <2>3, <3>2 DEF Enter, handler, CacheTypeOK
    <3> QED
      BY <2>3, <3>1, <3>2 DEF Enter
  <2>4. CASE Look(t)
    BY <2>4 DEF Look, CacheTypeOK, cache, handler
  <2>5. CASE Fetch(t)
    BY <2>5 DEF Fetch, CacheTypeOK, cache, handler
  <2>6. ASSUME NEW v \in Editions, Fill(t, v), lock = t
        PROVE  LockInv'
    <3>1. \A s \in Threads : s # t => step[s] \notin {"looking", "fetching", "filling"}
      BY <2>6
    <3> QED
      BY <2>6, <3>1, GoesTyped DEF Fill, Done, CacheTypeOK
  <2>7. CASE Filled(t)
    BY <2>6, <2>7 DEF Filled, CacheTypeOK
  <2>8. CASE Fails(t)
    BY <2>6, <2>8 DEF Fails, CacheTypeOK
  <2> QED
    BY <1>6, <2>1, <2>2, <2>3, <2>4, <2>5, <2>7, <2>8 DEF CurrentStep
<1>7. CASE UNCHANGED cacheVars
  BY <1>7 DEF cacheVars, cache, call, handler
<1> QED
  BY <1>1, <1>2, <1>3, <1>4, <1>5, <1>6, <1>7 DEF CacheNext

\* What the cache, the calls and the handlers hold was in use since the adoption they
\* follow, and stays so.
LEMMA RecentKept ==
    ASSUME CacheTypeOK, LockInv, RecentInv, [CacheNext]_cacheVars
    PROVE  RecentInv'
<1> USE CacheAssumption
<1> USE DEF RecentInv, FollowsAtOnce
<1>0. Nothing \notin Threads /\ Nothing \notin Editions /\ InUse \in Editions
  BY DEF Threads, InUse, CacheTypeOK
<1>1. CASE Tick
  BY <1>1 DEF Tick, InUse, handler, ghosts
<1>2. ASSUME NEW t \in Apps, Ask(t)
      PROVE  RecentInv'
  BY <1>2 DEF Ask, InUse, CacheTypeOK, Threads, database, cache, call, ghosts
<1>3. ASSUME NEW t \in Adopters, NEW v \in Editions, Adopt(t, v)
      PROVE  RecentInv'
  <2>1. InUse' = v /\ v \in recent' /\ recent \subseteq recent'
    BY <1>0, <1>3 DEF Adopt, Becomes, InUse
  <2>2. \A s \in Adopters : doing'[s] = "refresh" => v \in mine'[s]
    BY <1>3 DEF Adopt, CacheTypeOK, Threads
  <2> QED
    BY <1>3, <2>1, <2>2 DEF Adopt, cache, call
<1>4. ASSUME NEW v \in Editions \cup {Nothing}, ChangeElsewhere(v)
      PROVE  RecentInv'
  <2>1. InUse' \in recent' /\ recent \subseteq recent'
    BY <1>4 DEF ChangeElsewhere, Becomes
  <2>2. \A s \in Adopters : doing'[s] = "refresh" => InUse' \in mine'[s]
    BY <1>4 DEF ChangeElsewhere, handler
  <2> QED
    BY <1>4, <2>1, <2>2 DEF ChangeElsewhere, cache, call
<1>5. ASSUME NEW t \in Adopters, Refresh(t)
      PROVE  RecentInv'
  <2>1. \A s \in Threads : step[s] # "filling"
    BY <1>0, <1>5 DEF Refresh, LockInv
  <2>2. InUse' = InUse /\ InUse' \in recent'
    BY <1>5 DEF Refresh, InUse, database
  <2>3. \A s \in Adopters : doing'[s] = "refresh" => InUse \in mine'[s]
    BY <1>5 DEF Refresh, CacheTypeOK, Threads
  <2> QED
    BY <1>5, <2>1, <2>2, <2>3 DEF Refresh, call
<1>6. ASSUME NEW t \in Threads, CurrentStep(t)
      PROVE  RecentInv'
  <2>1. CASE Hit(t)
    <3>1. held \in Editions
      BY <2>1 DEF Hit, Fresh, CacheTypeOK
    <3> QED
      BY <2>1, <3>1, GoesTyped DEF Hit, InUse, database, cache, call, ghosts, Threads
  <2>2. CASE Miss(t)
    BY <2>2 DEF Miss, InUse, CacheTypeOK, database, cache, handler, ghosts
  <2>3. CASE Enter(t)
    <3>1. CASE Fresh(t) /\ Goes(t, held) /\ Done(t) /\ UNCHANGED lock
      <4>1. held \in Editions
        BY <3>1 DEF Fresh, CacheTypeOK
      <4>2. \A s \in Threads : doing'[s] = "refresh" => doing[s] = "refresh"
        BY <3>1, <4>1, GoesTyped
      <4> QED
        BY <2>3, <3>1, <4>2 DEF Enter, Done, InUse, CacheTypeOK, database, ghosts, Threads
    <3>2. CASE /\ ~Fresh(t)
               /\ lock' = t
               /\ step' = [step EXCEPT ![t] = "looking"]
               /\ UNCHANGED <<late, got, handler>>
      BY <2>3, <3>2 DEF Enter, InUse, CacheTypeOK, database, handler, ghosts
    <3> QED
      BY <2>3, <3>1, <3>2 DEF Enter
  <2>4. CASE Look(t)
    BY <2>4 DEF Look, InUse, CacheTypeOK, database, cache, handler, ghosts
  <2>5. CASE Fetch(t)
    BY <2>5 DEF Fetch, InUse, CacheTypeOK, database, cache, handler, ghosts
  <2>6. ASSUME NEW v \in Editions, Fill(t, v), blind' \/ v \in recent
        PROVE  RecentInv'
    <3>1. \A s \in Threads : doing'[s] = "refresh" => doing[s] = "refresh"
      BY <2>6, GoesTyped DEF Fill
    <3> QED
      BY <2>6, <3>1 DEF Fill, Done, InUse, CacheTypeOK, database, ghosts, Threads
  <2>7. CASE Filled(t)
    BY <2>6, <2>7 DEF Filled, CacheTypeOK
  <2>8. CASE Fails(t)
    BY <2>6, <2>8 DEF Fails, CacheTypeOK
  <2> QED
    BY <1>6, <2>1, <2>2, <2>3, <2>4, <2>5, <2>7, <2>8 DEF CurrentStep
<1>7. CASE UNCHANGED cacheVars
  BY <1>7 DEF cacheVars, InUse, database, cache, call, handler, ghosts
<1> QED
  BY <1>1, <1>2, <1>3, <1>4, <1>5, <1>6, <1>7 DEF CacheNext

\* The clock moves what is held, what a call has read and what is out of use
\* alike.
LEMMA AgeKept ==
    ASSUME CacheTypeOK, AgeInv, [CacheNext]_cacheVars
    PROVE  AgeInv'
<1> USE CacheAssumption
<1> USE DEF AgeInv, StaleIsBounded
<1>0. /\ Nothing \notin Editions /\ InUse \in Editions
      /\ MaxAge \in Nat /\ MaxWait \leq MaxAge
      /\ age \in Nat /\ age \leq MaxAge
      /\ \A v \in Editions : gone[v] \in Nat /\ gone[v] \leq MaxAge
      /\ \A t \in Threads : late[t] \in Nat
  BY DEF InUse, CacheTypeOK, MaxAge
<1>1. CASE Tick
  <2>1. InUse' = InUse /\ gone'[InUse] = 0
    BY <1>0, <1>1 DEF Tick, InUse
  <2>2. \A v \in Editions : gone'[v] \leq gone[v] + 1 /\ gone'[v] \leq MaxAge
    BY <1>0, <1>1 DEF Tick
  <2>3. \A t \in Threads : step[t] = "filling" => late'[t] = late[t] + 1
    BY <1>1 DEF Tick, InCall
  <2>4. ASSUME NEW t \in Threads, step'[t] = "filling"
        PROVE  gone'[got'[t]] \leq late'[t]
    <3>1. step[t] = "filling" /\ got' = got /\ got[t] \in Editions
      BY <1>1, <2>4 DEF Tick, CacheTypeOK
    <3>2. gone'[got[t]] \in Nat
      BY <1>0, <1>1, <3>1 DEF Tick
    <3> QED
      BY <1>0, <2>2, <2>3, <3>1, <3>2
  <2>5. StaleIsBounded'
    <3> SUFFICES ASSUME held # Nothing, ~blind
                 PROVE  gone'[held] \leq age'
      BY <1>1 DEF Tick
    <3>1. held \in Editions /\ gone[held] \leq age
      BY DEF CacheTypeOK
    <3>2. gone'[held] \in Nat /\ age' = IF age < MaxAge THEN age + 1 ELSE age
      BY <1>0, <1>1, <3>1 DEF Tick
    <3> QED
      BY <1>0, <2>2, <3>1, <3>2
  <2> QED
    BY <2>1, <2>4, <2>5
<1>2. ASSUME NEW t \in Apps, Ask(t)
      PROVE  AgeInv'
  BY <1>2 DEF Ask, InUse, database, cache, call
<1>3. ASSUME NEW v \in Editions \cup {Nothing}, Becomes(v), UNCHANGED <<cache, call>>
      PROVE  AgeInv'
  <2>1. InUse' \in Editions
    BY <1>0, <1>3 DEF Becomes, InUse
  <2>2. \A w \in Editions : gone'[w] = IF w = InUse' THEN 0 ELSE gone[w]
    BY <1>3, <2>1 DEF Becomes, CacheTypeOK
  <2>3. \A t \in Threads : step'[t] = "filling" => gone'[got'[t]] \leq late'[t]
    BY <1>0, <1>3, <2>2 DEF call, CacheTypeOK
  <2>4. StaleIsBounded'
    BY <1>0, <1>3, <2>2 DEF cache, CacheTypeOK
  <2> QED
    BY <2>1, <2>2, <2>3, <2>4
<1>4. ASSUME NEW t \in Adopters, Refresh(t)
      PROVE  AgeInv'
  BY <1>4 DEF Refresh, InUse, database, call
<1>5. ASSUME NEW t \in Threads, CurrentStep(t)
      PROVE  AgeInv'
  <2>1. CASE Hit(t)
    BY <2>1 DEF Hit, InUse, database, cache, call
  <2>2. CASE Miss(t)
    BY <2>2 DEF Miss, InUse, CacheTypeOK, database, cache
  <2>3. CASE Enter(t)
    BY <2>3 DEF Enter, Done, InUse, CacheTypeOK, database, handler
  <2>4. CASE Look(t)
    BY <1>0, <2>4 DEF Look, InUse, CacheTypeOK, database, cache
  <2>5. CASE Fetch(t)
    BY <1>0, <2>5 DEF Fetch, InUse, CacheTypeOK, database, cache
  <2>6. CASE Filled(t)
    BY <2>6 DEF Filled, Fill, Done, InUse, CacheTypeOK, database
  <2>7. CASE Fails(t)
    BY <2>7 DEF Fails, Fill, Done, InUse, CacheTypeOK, database
  <2> QED
    BY <1>5, <2>1, <2>2, <2>3, <2>4, <2>5, <2>6, <2>7 DEF CurrentStep
<1>6. CASE UNCHANGED cacheVars
  BY <1>6 DEF cacheVars, InUse, database, cache, call
<1> QED
  BY <1>1, <1>2, <1>3, <1>4, <1>5, <1>6 DEF CacheNext, Adopt, ChangeElsewhere, cache, call

-----------------------------------------------------------------------------
CacheInv == CacheTypeOK /\ LockInv /\ RecentInv /\ AgeInv

\* The invariant holds in every reachable state.
LEMMA Inductive == CacheSpec => []CacheInv
<1> USE CacheAssumption
<1>1. CacheInit => LockInv /\ RecentInv /\ AgeInv
  <2> SUFFICES ASSUME CacheInit
               PROVE  LockInv /\ RecentInv /\ AgeInv
    OBVIOUS
  <2>1. \A t \in Threads : step[t] = "ready" /\ doing[t] = "idle"
    BY DEF CacheInit
  <2>2. InUse = InImage /\ gone[InImage] = 0 /\ held = Nothing /\ recent = {InImage}
    BY DEF CacheInit, InUse
  <2> QED
    BY <2>1, <2>2 DEF LockInv, RecentInv, AgeInv, FollowsAtOnce, StaleIsBounded, Threads
<1>2. /\ CacheTypeOK /\ CacheTypeOK'
      /\ LockInv /\ RecentInv /\ AgeInv /\ [CacheNext]_cacheVars
      => LockInv' /\ RecentInv' /\ AgeInv'
  BY LockKept, RecentKept, AgeKept
<1> QED
  BY <1>1, <1>2, CacheTypeCorrect, PTL DEF CacheSpec, CacheInv

\* Once an adoption made here has been followed by refresh(), no version that
\* was out of use before it is ever held, whatever fill was under way.
THEOREM FollowsOwnAdoptions == CacheSpec => []FollowsAtOnce
<1>1. CacheInv => FollowsAtOnce
  BY DEF CacheInv, RecentInv
<1> QED
  BY <1>1, Inductive, PTL

\* What is held was in use at its date or later, so nothing older than
\* TTL_SECONDS is served while the database answers.
THEOREM NeverStaler == CacheSpec => []StaleIsBounded
<1>1. CacheInv => StaleIsBounded
  BY DEF CacheInv, AgeInv
<1> QED
  BY <1>1, Inductive, PTL
=============================================================================
