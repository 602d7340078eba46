----------------------------- MODULE MirrorProofs -----------------------------
(***************************************************************************)
(* Proofs about Mirror for any number of cases, windows, pages, retries,   *)
(* jobs and accidents: its types, and that an ingest skips nothing         *)
(* silently.                                                               *)
(***************************************************************************)
EXTENDS Mirror, FiniteSetTheorems, SequenceTheorems, WellFoundedInduction, TLAPS

-----------------------------------------------------------------------------
(* The City's list                                                         *)

Below(w, k) == {c \in Within(w) : Place(w, c) < k}

\* A window has finitely many cases.
LEMMA WindowFinite == \A w : IsFiniteSet(Within(w))
<1> SUFFICES ASSUME NEW w PROVE IsFiniteSet(Within(w))
  OBVIOUS
<1>1. Within(w) \subseteq Cases
  BY DEF Within, Filed
<1> QED BY <1>1, MirrorAssumption, FS_Subset

LEMMA BeforeFinite == \A w, c : IsFiniteSet({d \in Within(w) : <<d, c>> \in order})
BY WindowFinite, FS_Subset

\* A place is a number.
LEMMA PlaceType == \A w, c : Place(w, c) \in Nat
BY BeforeFinite, FS_CardinalityType DEF Place

\* The older of two comes first.
LEMMA OlderFirst ==
    ASSUME Ordered, NEW w, NEW c \in Within(w), NEW d \in Within(w), <<c, d>> \in order
    PROVE  Place(w, c) < Place(w, d)
<1> DEFINE before(e) == {b \in Within(w) : <<b, e>> \in order}
<1>1. c \in Filed /\ d \in Filed /\ \A b \in Within(w) : b \in Filed
  BY DEF Within
<1>2. before(c) \subseteq before(d) \ {c} /\ c \in before(d)
  BY <1>1 DEF Ordered
<1>3. IsFiniteSet(before(d)) /\ IsFiniteSet(before(d) \ {c}) /\ Cardinality(before(d) \ {c}) = Place(w, d) - 1
  <2>1. IsFiniteSet(before(d)) /\ Cardinality(before(d)) = Place(w, d)
    BY BeforeFinite DEF Place
  <2> HIDE DEF before
  <2> QED BY <1>2, <2>1, FS_RemoveElement
<1>4. Place(w, c) <= Place(w, d) - 1
  <2>1. Cardinality(before(c)) = Place(w, c)
    BY DEF Place
  <2> HIDE DEF before
  <2> QED BY <1>2, <1>3, <2>1, FS_Subset
<1> QED BY <1>4, PlaceType

\* No place is left out: where one case comes after k places, k cases come before them.
LEMMA PlacesFill ==
    ASSUME Ordered, NEW w, NEW k \in Nat, NEW far \in Within(w), k <= Place(w, far)
    PROVE  IsFiniteSet(Below(w, k)) /\ Cardinality(Below(w, k)) = k
<1> DEFINE less == {ij \in Nat \X Nat : ij[1] < ij[2]}
           beyond == {Place(w, c) : c \in {d \in Within(w) : k <= Place(w, d)}}
<1>1. \A c \in Within(w) : Place(w, c) \in Nat
  BY PlaceType
<1>2. \E m \in Within(w) : k <= Place(w, m)
                           /\ \A d \in Within(w) : k <= Place(w, d) => Place(w, m) <= Place(w, d)
  <2>1. beyond \subseteq Nat /\ beyond # {}
    BY <1>1
  <2>2. IsWellFoundedOn(less, Nat)
    BY NatLessThanWellFounded, Zenon DEF OpToRel
  <2>3. PICK n \in beyond : \A j \in beyond : ~(<<j, n>> \in less)
    <3> HIDE DEF less, beyond
    <3> QED BY <2>1, <2>2, WFMin
  <2>4. PICK m \in Within(w) : k <= Place(w, m) /\ n = Place(w, m)
    BY <2>3
  <2>5. ASSUME NEW d \in Within(w), k <= Place(w, d)
        PROVE  Place(w, m) <= Place(w, d)
    <3>1. Place(w, d) \in beyond
      BY <2>5
    <3>2. Place(w, d) \in Nat /\ Place(w, m) \in Nat
      BY <1>1
    <3>3. ~(<<Place(w, d), Place(w, m)>> \in less)
      <4> HIDE DEF less, beyond
      <4> QED BY <2>3, <2>4, <3>1
    <3> QED BY <3>2, <3>3
  <2> QED BY <2>4, <2>5
<1> PICK m \in Within(w) : k <= Place(w, m)
                           /\ \A d \in Within(w) : k <= Place(w, d) => Place(w, m) <= Place(w, d)
  BY <1>2
<1>3. Below(w, k) = {d \in Within(w) : <<d, m>> \in order}
  <2>1. ASSUME NEW d \in Within(w), <<d, m>> \in order
        PROVE  Place(w, d) < k
    BY <1>1, <2>1, OlderFirst
  <2>2. ASSUME NEW d \in Within(w), Place(w, d) < k
        PROVE  <<d, m>> \in order
    <3>1. d # m /\ <<m, d>> \notin order
      BY <1>1, <2>2, OlderFirst
    <3>2. d \in Filed /\ m \in Filed
      BY DEF Within
    <3> QED BY <3>1, <3>2 DEF Ordered
  <2> QED BY <2>1, <2>2 DEF Below
<1>4. IsFiniteSet(Below(w, k)) /\ Cardinality(Below(w, k)) = Place(w, m)
  BY <1>3, BeforeFinite DEF Place
<1>5. Cardinality(Below(w, k)) <= k
  <2> DEFINE f == [c \in Below(w, k) |-> Place(w, c)]
  <2>1. f \in [Below(w, k) -> 0..k - 1]
    BY <1>1 DEF Below
  <2>2. ASSUME NEW c \in Below(w, k), NEW d \in Below(w, k), c # d
        PROVE  f[c] # f[d]
    <3>1. c \in Within(w) /\ d \in Within(w) /\ c \in Filed /\ d \in Filed
      BY DEF Below, Within
    <3>2. <<c, d>> \in order \/ <<d, c>> \in order
      BY <2>2, <3>1 DEF Ordered
    <3>3. Place(w, c) < Place(w, d) \/ Place(w, d) < Place(w, c)
      BY <3>1, <3>2, OlderFirst
    <3> QED BY <1>1, <3>1, <3>3
  <2>3. f \in Injection(Below(w, k), 0..k - 1)
    <3> HIDE DEF f
    <3> QED BY <2>1, <2>2 DEF Injection, IsInjective
  <2>4. IsFiniteSet(0..k - 1) /\ Cardinality(0..k - 1) = k
    <3> DEFINE last == k - 1
    <3>1. last \in Int /\ 0 \in Int
      OBVIOUS
    <3>2. IsFiniteSet(0..last) /\ Cardinality(0..last) = IF 0 > last THEN 0 ELSE last - 0 + 1
      <4> HIDE DEF last
      <4> QED BY <3>1, FS_Interval
    <3> QED BY <3>2
  <2> QED BY <2>3, <2>4, FS_Injection
<1> QED BY <1>1, <1>4, <1>5

\* Before the last case of a window, pages are full.
LEMMA FullPage ==
    ASSUME Ordered, NEW w, NEW p \in Nat \ {0}, NEW far \in Within(w), p * PageSize <= Place(w, far)
    PROVE  Cardinality(Page(w, p)) = PageSize
<1> DEFINE lo == (p - 1) * PageSize
           hi == p * PageSize
<1>1. lo \in Nat /\ hi \in Nat /\ hi = lo + PageSize /\ lo <= hi /\ PageSize \in Nat
  <2>1. PageSize \in Nat /\ p - 1 \in Nat
    BY MirrorAssumption
  <2>2. hi = lo + PageSize
    BY <2>1
  <2>3. lo \in Nat
    BY <2>1
  <2> QED BY <2>1, <2>2, <2>3
<1>2. Page(w, p) = Below(w, hi) \ Below(w, lo)
  BY <1>1, PlaceType DEF Page, Below
<1>3. Below(w, hi) \cap Below(w, lo) = Below(w, lo)
  <2> HIDE DEF lo, hi
  <2> QED BY <1>1, PlaceType DEF Below
<1>4. /\ IsFiniteSet(Below(w, hi)) /\ Cardinality(Below(w, hi)) = hi
      /\ Cardinality(Below(w, lo)) = lo
  <2>1. lo <= Place(w, far)
    BY <1>1, PlaceType
  <2> HIDE DEF lo, hi
  <2> QED BY <1>1, <2>1, PlacesFill DEF hi
<1>5. Cardinality(Page(w, p)) = hi - lo
  <2> DEFINE upTo == Below(w, hi)
             before == Below(w, lo)
  <2>1. IsFiniteSet(upTo) /\ Cardinality(upTo) = hi /\ Cardinality(before) = lo
        /\ Page(w, p) = upTo \ before /\ upTo \cap before = before
    BY <1>2, <1>3, <1>4
  <2> HIDE DEF upTo, before, lo, hi
  <2>2. Cardinality(upTo \ before) = Cardinality(upTo) - Cardinality(upTo \cap before)
    BY <2>1, FS_Difference
  <2> QED BY <2>1, <2>2
<1> HIDE DEF lo, hi
<1> QED BY <1>1, <1>5

-----------------------------------------------------------------------------
(* The invariant                                                           *)

Progress ==
    [pc : {"idle", "list", "upsert", "select", "enrich", "apply", "stage", "media"},
     stack : Seq(Nat \X Nat), page : Nat \ {0}, got : [Cases -> Nat],
     volume : Nat, caps : Nat, capped : SUBSET (1..Span),
     session : {"none", "ok", "stale"}, tries : Nat, rebooted : BOOLEAN,
     todo : SUBSET Cases, case : Cases \cup {None}, answer : Nat, quiet : BOOLEAN]

Asking ==
    [pc : {"idle", "ask", "upsert", "apply", "stage"}, by : {"schedule", "press", None},
     todo : SUBSET Cases, case : Cases \cup {None}, answer : Nat]

\* What the City has, which nothing stored is ahead of.
CityInv ==
    /\ version \in [Cases -> Nat] /\ slot \in [Cases -> 1..Span] /\ Ordered
    /\ changes \in 0..MaxChanges /\ odd \in 0..MaxOdd
    /\ \A c \in Cases : version[c] <= changes + 1

RowInv ==
    /\ listed \in [Cases -> Nat] /\ detail \in [Cases -> Nat] /\ stamp \in [Cases -> Nat]
    /\ blind \in [Cases -> BOOLEAN]
    /\ \A c \in Cases : listed[c] <= version[c] /\ detail[c] <= version[c] /\ stamp[c] <= version[c]
    /\ media \in [Cases -> {None, "staged", "stored", "failed", "lost"}]
    /\ \A c \in Cases : media[c] # None => c \in Pictured /\ detail[c] > 0

\* An answer under way is about a case the City has, and of its version or an earlier one.
Answers(r) ==
    /\ r.pc \in {"apply", "stage"} => r.case \in Cases /\ 0 < r.answer /\ r.answer <= version[r.case]
    /\ r.pc = "stage" => detail[r.case] > 0

JobInv ==
    /\ ingest \in Progress
    /\ \A i \in 1..Len(ingest.stack) : ingest.stack[i][1] < ingest.stack[i][2] /\ ingest.stack[i][2] <= Span
    /\ ingest.pc = "list" => ingest.stack # <<>>
    /\ \A c \in Cases : ingest.got[c] <= version[c]
    /\ \A c \in ingest.todo : listed[c] > 0
    /\ Answers(ingest)

PassInv ==
    /\ refresh \in [Askers -> Asking]
    /\ \A a \in Askers :
          /\ Answers(refresh[a])
          /\ refresh[a].pc = "upsert" => /\ refresh[a].case \in Cases /\ 0 < refresh[a].answer
                                         /\ refresh[a].answer <= version[refresh[a].case]

\* A case was read as it is, or lies in a window reported, in one still to be read, or on
\* a page still to be read of the one being read.
Covered(c) ==
    \/ ingest.got[c] = version[c]
    \/ slot[c] \in ingest.capped
    \/ \E i \in 1..Len(ingest.stack) - 1 : slot[c] \in Units(ingest.stack[i])
    \/ /\ ingest.stack # <<>> /\ slot[c] \in Units(Top)
       /\ (ingest.page - 1) * PageSize <= Place(Top, c)

CoverInv ==
    ingest.quiet =>
        /\ ingest.pc = "list" => \A c \in Filed : Covered(c)
        /\ ingest.pc = "upsert" => \A c \in Filed : ingest.got[c] = version[c] \/ slot[c] \in ingest.capped

TypeInv == CityInv /\ RowInv /\ JobInv /\ PassInv

-----------------------------------------------------------------------------
(* Types                                                                   *)

LEMMA InitTypes == Init => TypeInv
<1> SUFFICES ASSUME Init PROVE TypeInv
  OBVIOUS
<1>1. CityInv
  BY MirrorAssumption DEF Init, CityInv
<1>2. RowInv
  BY <1>1 DEF Init, RowInv, CityInv
<1>3. JobInv
  BY <1>1 DEF Init, JobInv, Idle, Progress, Answers, CityInv
<1>4. PassInv
  BY DEF Init, PassInv, Asleep, Asking, Answers
<1> QED BY <1>1, <1>2, <1>3, <1>4 DEF TypeInv

\* The City goes on and no row is emptied.
Grows ==
    \A c \in Cases :
        /\ version[c] <= version'[c]
        /\ listed[c] > 0 => listed'[c] > 0
        /\ detail[c] > 0 => detail'[c] > 0

LEMMA CityStep ==
    ASSUME TypeInv, [Next]_vars
    PROVE  CityInv' /\ \A c \in Cases : version[c] <= version'[c]
<1> USE DEF TypeInv
<1>1. ASSUME UNCHANGED <<city, changes>>, odd' \in 0..MaxOdd
      PROVE  CityInv' /\ \A c \in Cases : version[c] <= version'[c]
  <2>1. version' = version /\ slot' = slot /\ changes' = changes /\ Filed' = Filed /\ order' = order
    BY <1>1 DEF city, Filed
  <2>2. Ordered'
    BY <2>1 DEF CityInv, Ordered
  <2> QED BY <1>1, <2>1, <2>2 DEF CityInv
<1>2. ASSUME NEW c \in Cases, CityChanges(c)
      PROVE  CityInv' /\ \A d \in Cases : version[d] <= version'[d]
  <2>1. /\ version' = [version EXCEPT ![c] = @ + 1] /\ slot' = [slot EXCEPT ![c] = Span]
        /\ changes' = changes + 1 /\ changes < MaxChanges /\ odd' = odd
        /\ order' = {p \in order : c \notin {p[1], p[2]}} \cup (Filed \ {c}) \X {c}
    BY <1>2 DEF CityChanges
  <2>2. Filed' = Filed \cup {c}
    BY <2>1 DEF Filed, CityInv
  <2>3. Ordered'
    <3>1. \A d, e : <<d, e>> \in order' <=> \/ <<d, e>> \in order /\ d # c /\ e # c
                                            \/ d \in Filed /\ d # c /\ e = c
      BY <2>1 DEF CityInv, Ordered
    <3>2. order' \subseteq Filed' \X Filed'
      BY <2>1, <2>2 DEF CityInv, Ordered
    <3>3. \A d, e \in Filed' : <<d, e>> \in order' <=> d # e /\ <<e, d>> \notin order'
      BY <2>2, <3>1 DEF CityInv, Ordered
    <3>4. \A b, d, e \in Filed' : <<b, d>> \in order' /\ <<d, e>> \in order' => <<b, e>> \in order'
      BY <2>2, <3>1 DEF CityInv, Ordered
    <3> QED BY <3>2, <3>3, <3>4 DEF Ordered
  <2> QED BY <2>1, <2>3, MirrorAssumption DEF CityInv
<1>3. \/ UNCHANGED <<city, changes>> /\ (odd' = odd \/ (odd < MaxOdd /\ odd' = odd + 1))
      \/ \E c \in Cases : CityChanges(c)
  BY DEF Next, vars, Job, Begins, Goes, Accident, Redeployed, IngestBegins,
        ReadsPage, Bootstraps, CallFails, Refused, Upserts, Selects, Enriches, DetailFails, Applies,
        Stages, Downloads, IngestDies, RefreshBegins, RefreshMine, RefreshOne, AskAbout, Asks,
        AskFails, RefreshUpserts, RefreshApplies, RefreshStages, RefreshDies
<1>4. odd' = odd \/ (odd < MaxOdd /\ odd' = odd + 1) => odd' \in 0..MaxOdd
  BY MirrorAssumption DEF CityInv
<1> QED BY <1>1, <1>2, <1>3, <1>4

\* What is stored stays behind the City, and no row of a case is emptied.
LEMMA RowStep ==
    ASSUME TypeInv, [Next]_vars
    PROVE  RowInv' /\ Grows
<1> USE DEF TypeInv
<1> \A c \in Cases : version[c] <= version'[c] /\ version[c] \in Nat /\ version'[c] \in Nat
  BY CityStep DEF CityInv
<1>1. CASE UNCHANGED rows
  BY <1>1 DEF rows, stored, RowInv, Grows
<1>2. ASSUME NEW c \in Cases, NEW answer \in Nat, 0 < answer, answer <= version[c],
             Store(c, answer), version' = version
      PROVE  RowInv' /\ Grows
  <2>1. detail' = [detail EXCEPT ![c] = answer] /\ stamp' = [stamp EXCEPT ![c] = version[c]]
        /\ blind' = [blind EXCEPT ![c] = answer # version[c]] /\ listed' = listed /\ media' = media
    BY <1>2 DEF Store
  <2> QED BY <1>2, <2>1 DEF RowInv, Grows, CityInv
<1>3. ASSUME UNCHANGED <<stored, version>>, media' \in [Cases -> {None, "staged", "stored", "failed", "lost"}],
             \A c \in Cases : media'[c] # None => c \in Pictured /\ detail[c] > 0
      PROVE  RowInv' /\ Grows
  BY <1>3 DEF RowInv, stored, Grows
<1>4. ASSUME NEW c \in Cases, detail[c] > 0, media' = Staged(c) \/ media' = Unstaged(c), UNCHANGED <<stored, version>>
      PROVE  RowInv' /\ Grows
  <2>1. media' \in [Cases -> {None, "staged", "stored", "failed", "lost"}]
    BY <1>4 DEF Staged, Unstaged, RowInv
  <2>2. \A d \in Cases : media'[d] # None => d \in Pictured /\ detail[d] > 0
    BY <1>4 DEF Staged, Unstaged, RowInv
  <2> QED BY <1>3, <1>4, <2>1, <2>2
<1>5. CASE Upserts
  <2>1. CASE UNCHANGED listed
    BY <1>1, <1>5, <2>1 DEF Upserts, rows, stored
  <2>2. CASE listed' = [c \in Cases |-> IF c \in {d \in Cases : ingest.got[d] > 0} THEN ingest.got[c] ELSE listed[c]]
    <3>1. \A c \in Cases : ingest.got[c] \in Nat /\ ingest.got[c] <= version[c]
      BY DEF JobInv, Progress
    <3>2. detail' = detail /\ stamp' = stamp /\ blind' = blind /\ media' = media /\ version' = version
      BY <1>5 DEF Upserts, city
    <3> QED BY <2>2, <3>1, <3>2 DEF RowInv, Grows
  <2> QED BY <1>5, <2>1, <2>2 DEF Upserts
<1>6. CASE Applies
  <2> PICK c \in Cases : c = ingest.case
    BY <1>6 DEF Applies, JobInv, Answers
  <2> PICK answer \in Nat : answer = ingest.answer
    BY <1>6 DEF Applies, JobInv, Progress
  <2>1. 0 < answer /\ answer <= version[c] /\ Store(c, answer) /\ version' = version
    BY <1>6 DEF Applies, JobInv, Answers, city
  <2> QED BY <1>2, <2>1
<1>7. CASE Stages \/ (IngestDies /\ ingest.pc = "stage")
  <2> PICK c \in Cases : c = ingest.case
    BY <1>7 DEF Stages, JobInv, Answers
  <2>1. detail[c] > 0 /\ (media' = Staged(c) \/ media' = Unstaged(c)) /\ UNCHANGED <<stored, version>>
    BY <1>7 DEF Stages, IngestDies, JobInv, Answers, city
  <2> QED BY <1>4, <2>1
<1>8. CASE Downloads
  <2>1. UNCHANGED <<stored, version>>
    BY <1>8 DEF Downloads, city
  <2>2. CASE UNCHANGED media
    BY <1>1, <2>1, <2>2 DEF rows
  <2>3. ASSUME NEW c \in PendingMedia, NEW outcome \in {"stored", "failed"}, media' = [media EXCEPT ![c] = outcome]
        PROVE  RowInv' /\ Grows
    <3>1. c \in Cases /\ media[c] = "staged" /\ None # "staged"
      BY MirrorAssumption DEF PendingMedia
    <3>2. media' \in [Cases -> {None, "staged", "stored", "failed", "lost"}]
      BY <2>3, <3>1 DEF RowInv
    <3>3. \A d \in Cases : media'[d] # None => d \in Pictured /\ detail[d] > 0
      BY <2>3, <3>1 DEF RowInv
    <3> QED BY <1>3, <2>1, <3>2, <3>3
  <2> QED BY <1>8, <2>2, <2>3 DEF Downloads
<1>9. ASSUME NEW a \in Askers, RefreshUpserts(a)
      PROVE  RowInv' /\ Grows
  <2> PICK c \in Cases : c = refresh[a].case
    BY <1>9 DEF RefreshUpserts, PassInv
  <2> PICK answer \in Nat : answer = refresh[a].answer
    BY <1>9 DEF RefreshUpserts, PassInv, Asking
  <2>1. /\ listed' = [listed EXCEPT ![c] = answer] /\ 0 < answer /\ answer <= version[c]
        /\ detail' = detail /\ stamp' = stamp /\ blind' = blind /\ media' = media /\ version' = version
    BY <1>9 DEF RefreshUpserts, PassInv, city
  <2> QED BY <2>1 DEF RowInv, Grows
<1>10. ASSUME NEW a \in Askers, RefreshApplies(a)
       PROVE  RowInv' /\ Grows
  <2> PICK c \in Cases : c = refresh[a].case
    BY <1>10 DEF RefreshApplies, PassInv, Answers
  <2> PICK answer \in Nat : answer = refresh[a].answer
    BY <1>10 DEF RefreshApplies, PassInv, Asking
  <2>1. 0 < answer /\ answer <= version[c] /\ Store(c, answer) /\ version' = version
    BY <1>10 DEF RefreshApplies, PassInv, Answers, city
  <2> QED BY <1>2, <2>1
<1>11. ASSUME NEW a \in Askers, RefreshStages(a) \/ (RefreshDies(a) /\ refresh[a].pc = "stage")
       PROVE  RowInv' /\ Grows
  <2> PICK c \in Cases : c = refresh[a].case
    BY <1>11 DEF RefreshStages, PassInv, Answers
  <2>1. detail[c] > 0 /\ (media' = Staged(c) \/ media' = Unstaged(c)) /\ UNCHANGED <<stored, version>>
    BY <1>11 DEF RefreshStages, RefreshDies, PassInv, Answers, city
  <2> QED BY <1>4, <2>1
<1>12. CASE IngestDies /\ ingest.pc # "stage"
  BY <1>1, <1>12 DEF IngestDies, rows
<1>13. ASSUME NEW a \in Askers, RefreshDies(a), refresh[a].pc # "stage"
       PROVE  RowInv' /\ Grows
  BY <1>1, <1>13 DEF RefreshDies, rows
<1>14. \/ UNCHANGED rows \/ Upserts \/ Applies \/ Stages \/ Downloads \/ IngestDies
       \/ \E a \in Askers : RefreshUpserts(a) \/ RefreshApplies(a) \/ RefreshStages(a) \/ RefreshDies(a)
  BY DEF Next, vars, Job, Begins, Goes, Accident, CityChanges, Redeployed, IngestBegins,
        ReadsPage, Bootstraps, CallFails, Refused, Selects, Enriches, DetailFails,
        RefreshBegins, RefreshMine, RefreshOne, AskAbout, Asks, AskFails
<1> QED BY <1>1, <1>5, <1>6, <1>7, <1>8, <1>9, <1>10, <1>11, <1>12, <1>13, <1>14

\* What the refreshes are about to store is an answer of the City.
LEMMA PassStep ==
    ASSUME TypeInv, [Next]_vars
    PROVE  PassInv'
<1> USE DEF TypeInv
<1>1. /\ Grows
      /\ \A c \in Cases : version[c] \in Nat /\ version'[c] \in Nat /\ detail[c] \in Nat /\ detail'[c] \in Nat
  BY RowStep, CityStep DEF CityInv, RowInv
<1>2. ASSUME NEW r \in Asking, Answers(r),
             r.pc = "upsert" => r.case \in Cases /\ 0 < r.answer /\ r.answer <= version[r.case]
      PROVE  /\ Answers(r)'
             /\ r.pc = "upsert" => r.case \in Cases /\ 0 < r.answer /\ r.answer <= version'[r.case]
  <2>1. r.answer \in Nat
    BY DEF Asking
  <2> QED BY <1>1, <1>2, <2>1 DEF Answers, Grows
<1>3. CASE UNCHANGED refresh
  <2> SUFFICES ASSUME NEW a \in Askers
               PROVE  /\ Answers(refresh[a])'
                      /\ refresh[a].pc = "upsert" =>
                            refresh[a].case \in Cases /\ 0 < refresh[a].answer /\ refresh[a].answer <= version'[refresh[a].case]
    BY <1>3 DEF PassInv
  <2> PICK r \in Asking : r = refresh[a]
    BY DEF PassInv
  <2> QED BY <1>2, <1>3 DEF PassInv, Answers
<1>4. ASSUME NEW a \in Askers, NEW r \in Asking, refresh' = [refresh EXCEPT ![a] = r],
             Answers(r)',
             r.pc = "upsert" => r.case \in Cases /\ 0 < r.answer /\ r.answer <= version'[r.case]
      PROVE  PassInv'
  <2>1. refresh' \in [Askers -> Asking]
    BY <1>4 DEF PassInv
  <2>2. ASSUME NEW b \in Askers
        PROVE  /\ Answers(refresh[b])'
               /\ refresh'[b].pc = "upsert" => /\ refresh'[b].case \in Cases /\ 0 < refresh'[b].answer
                                               /\ refresh'[b].answer <= version'[refresh'[b].case]
    <3>1. CASE b = a
      <4>1. refresh'[b] = r
        BY <1>4, <3>1 DEF PassInv
      <4> QED BY <1>4, <4>1 DEF Answers
    <3>2. CASE b # a
      <4> PICK q \in Asking : q = refresh[b]
        BY DEF PassInv
      <4>1. refresh'[b] = q
        BY <1>4, <3>2 DEF PassInv
      <4>2. Answers(q) /\ (q.pc = "upsert" => q.case \in Cases /\ 0 < q.answer /\ q.answer <= version[q.case])
        BY DEF PassInv
      <4> QED BY <1>2, <4>1, <4>2 DEF Answers
    <3> QED BY <3>1, <3>2
  <2> QED BY <2>1, <2>2 DEF PassInv
<1>5. ASSUME NEW a \in Askers, NEW r \in Asking, refresh' = [refresh EXCEPT ![a] = r], r.pc \in {"idle", "ask"}
      PROVE  PassInv'
  BY <1>4, <1>5 DEF Answers
<1>6. Asleep \in Asking /\ Asleep.pc = "idle"
  BY DEF Asleep, Asking
<1>7. ASSUME NEW a \in Askers, Begins(a)
      PROVE  PassInv'
  <2> PICK by \in {"schedule", "press"}, todo \in SUBSET Cases : AskAbout(a, by, todo)
    BY <1>7, MirrorAssumption DEF Begins, RefreshBegins, RefreshMine, RefreshOne
  <2> DEFINE r == [Asleep EXCEPT !.pc = "ask", !.by = by, !.todo = todo]
  <2>1. r \in Asking /\ r.pc = "ask"
    BY DEF Asleep, Asking
  <2>2. refresh' = [refresh EXCEPT ![a] = r]
    BY DEF AskAbout
  <2> HIDE DEF r
  <2> QED BY <1>5, <2>1, <2>2
<1>8. ASSUME NEW a \in Askers, Asks(a)
      PROVE  PassInv'
  <2>1. refresh[a] \in Asking /\ refresh[a].pc = "ask"
    BY <1>8 DEF Asks, PassInv
  <2>2. CASE refresh' = [refresh EXCEPT ![a] = Asleep]
    BY <1>5, <1>6, <2>2
  <2>3. ASSUME NEW c \in refresh[a].todo, version[c] = 0,
               refresh' = [refresh EXCEPT ![a] = [refresh[a] EXCEPT !.todo = @ \ {c}]]
        PROVE  PassInv'
    <3> PICK r \in Asking : r = [refresh[a] EXCEPT !.todo = @ \ {c}]
      BY <2>1 DEF Asking
    <3>1. r.pc = "ask"
      BY <2>1 DEF Asking
    <3>2. refresh' = [refresh EXCEPT ![a] = r]
      BY <2>3
    <3> QED BY <1>5, <3>1, <3>2
  <2>4. ASSUME NEW c \in refresh[a].todo, version[c] # 0,
               refresh' = [refresh EXCEPT ![a] = [[refresh[a] EXCEPT !.todo = @ \ {c}]
                                                  EXCEPT !.pc = "upsert", !.case = c, !.answer = version[c]]]
        PROVE  PassInv'
    <3>1. c \in Cases /\ version[c] \in Nat
      BY <1>1, <2>1 DEF Asking
    <3> PICK r \in Asking : r = [[refresh[a] EXCEPT !.todo = @ \ {c}]
                                EXCEPT !.pc = "upsert", !.case = c, !.answer = version[c]]
      BY <2>1, <3>1 DEF Asking
    <3>2. r.pc = "upsert" /\ r.case = c /\ r.answer = version[c]
      BY <2>1 DEF Asking
    <3>3. refresh' = [refresh EXCEPT ![a] = r]
      BY <2>4
    <3>4. 0 < r.answer /\ r.answer <= version'[c]
      BY <1>1, <2>4, <3>1, <3>2 DEF Grows
    <3> QED BY <1>4, <3>1, <3>2, <3>3, <3>4 DEF Answers
  <2>5. ASSUME NEW c \in refresh[a].todo,
               refresh' = [refresh EXCEPT ![a] =
                 IF version[c] = 0 THEN [refresh[a] EXCEPT !.todo = @ \ {c}]
                 ELSE [[refresh[a] EXCEPT !.todo = @ \ {c}] EXCEPT !.pc = "upsert", !.case = c, !.answer = version[c]]]
        PROVE  PassInv'
    <3>1. CASE version[c] = 0
      BY <2>3, <2>5, <3>1
    <3>2. CASE version[c] # 0
      BY <2>4, <2>5, <3>2
    <3> QED BY <3>1, <3>2
  <2>6. \/ refresh' = [refresh EXCEPT ![a] = Asleep]
        \/ \E c \in refresh[a].todo :
             refresh' = [refresh EXCEPT ![a] =
                 IF version[c] = 0 THEN [refresh[a] EXCEPT !.todo = @ \ {c}]
                 ELSE [[refresh[a] EXCEPT !.todo = @ \ {c}] EXCEPT !.pc = "upsert", !.case = c, !.answer = version[c]]]
    BY <1>8 DEF Asks
  <2> QED BY <2>2, <2>5, <2>6
<1>9. ASSUME NEW a \in Askers, AskFails(a)
      PROVE  PassInv'
  <2>1. refresh[a] \in Asking /\ refresh[a].pc = "ask"
    BY <1>9 DEF AskFails, PassInv
  <2>2. CASE refresh' = [refresh EXCEPT ![a] = Asleep]
    BY <1>5, <1>6, <2>2
  <2>3. ASSUME NEW c, refresh' = [refresh EXCEPT ![a] = [refresh[a] EXCEPT !.todo = @ \ {c}]]
        PROVE  PassInv'
    <3> PICK r \in Asking : r = [refresh[a] EXCEPT !.todo = @ \ {c}]
      BY <2>1 DEF Asking
    <3>1. r.pc = "ask"
      BY <2>1 DEF Asking
    <3>2. refresh' = [refresh EXCEPT ![a] = r]
      BY <2>3
    <3> QED BY <1>5, <3>1, <3>2
  <2>4. PICK c \in refresh[a].todo :
           refresh' = [refresh EXCEPT ![a] =
              IF refresh[a].by = "schedule" THEN Asleep ELSE [refresh[a] EXCEPT !.todo = @ \ {c}]]
    BY <1>9 DEF AskFails
  <2>5. CASE refresh[a].by = "schedule"
    BY <2>2, <2>4, <2>5
  <2>6. CASE refresh[a].by # "schedule"
    BY <2>3, <2>4, <2>6
  <2> QED BY <2>5, <2>6
<1>10. ASSUME NEW a \in Askers, RefreshUpserts(a)
       PROVE  PassInv'
  <2>1. refresh[a] \in Asking /\ refresh[a].pc = "upsert"
    BY <1>10 DEF RefreshUpserts, PassInv
  <2> PICK r \in Asking : r = [refresh[a] EXCEPT !.pc = "apply"]
    BY <2>1 DEF Asking
  <2>2. /\ r.pc = "apply" /\ r.case = refresh[a].case /\ r.answer = refresh[a].answer
        /\ refresh' = [refresh EXCEPT ![a] = r]
    BY <1>10, <2>1 DEF RefreshUpserts, Asking
  <2>3. r.case \in Cases /\ 0 < r.answer /\ r.answer <= version[r.case] /\ r.answer \in Nat
    BY <2>1, <2>2 DEF PassInv, Asking
  <2>4. r.answer <= version'[r.case]
    BY <1>1, <2>3 DEF Grows
  <2> QED BY <1>4, <2>2, <2>3, <2>4 DEF Answers
<1>11. ASSUME NEW a \in Askers, RefreshApplies(a)
       PROVE  PassInv'
  <2>1. refresh[a] \in Asking /\ refresh[a].pc = "apply"
    BY <1>11 DEF RefreshApplies, PassInv
  <2> PICK r \in Asking : r = [refresh[a] EXCEPT !.pc = "stage"]
    BY <2>1 DEF Asking
  <2>2. /\ r.pc = "stage" /\ r.case = refresh[a].case /\ r.answer = refresh[a].answer
        /\ refresh' = [refresh EXCEPT ![a] = r]
    BY <1>11, <2>1 DEF RefreshApplies, Asking
  <2>3. r.case \in Cases /\ 0 < r.answer /\ r.answer <= version[r.case] /\ r.answer \in Nat
    BY <2>1, <2>2 DEF PassInv, Asking, Answers
  <2>4. r.answer <= version'[r.case]
    BY <1>1, <2>3 DEF Grows
  <2>5. detail'[r.case] > 0
    BY <1>11, <2>2, <2>3 DEF RefreshApplies, Store, RowInv
  <2> QED BY <1>4, <2>2, <2>3, <2>4, <2>5 DEF Answers
<1>12. ASSUME NEW a \in Askers, RefreshStages(a)
       PROVE  PassInv'
  <2>1. refresh[a] \in Asking
    BY DEF PassInv
  <2> PICK r \in Asking : r = [refresh[a] EXCEPT !.pc = "ask", !.case = None, !.answer = 0]
    BY <2>1 DEF Asking
  <2>2. r.pc = "ask" /\ refresh' = [refresh EXCEPT ![a] = r]
    BY <1>12, <2>1 DEF RefreshStages, Asking, PassInv
  <2> QED BY <1>5, <2>2
<1>13. ASSUME NEW a \in Askers, RefreshDies(a)
       PROVE  PassInv'
  BY <1>5, <1>6, <1>13 DEF RefreshDies
<1>14. \/ UNCHANGED refresh
       \/ \E a \in Askers : \/ Begins(a) \/ Asks(a) \/ AskFails(a) \/ RefreshUpserts(a)
                            \/ RefreshApplies(a) \/ RefreshStages(a) \/ RefreshDies(a)
  BY DEF Next, vars, Job, Goes, Accident, CityChanges, Redeployed, IngestBegins,
        ReadsPage, Bootstraps, CallFails, Refused, Upserts, Selects, Enriches, DetailFails, Applies,
        Stages, Downloads, IngestDies
<1> QED BY <1>3, <1>7, <1>8, <1>9, <1>10, <1>11, <1>12, <1>13, <1>14

\* What the types of an ingest say of the windows still to be read.
LEMMA TopWindow ==
    ASSUME TypeInv, ingest.stack # <<>>
    PROVE  /\ Len(ingest.stack) \in Nat \ {0} /\ Top = ingest.stack[Len(ingest.stack)]
           /\ Top \in Nat \X Nat /\ Top[1] \in Nat /\ Top[2] \in Nat /\ Top[1] < Top[2] /\ Top[2] <= Span
           /\ Front(ingest.stack) \in Seq(Nat \X Nat)
           /\ Len(Front(ingest.stack)) = Len(ingest.stack) - 1
           /\ \A i \in 1..Len(ingest.stack) - 1 : Front(ingest.stack)[i] = ingest.stack[i]
<1>1. ingest.stack \in Seq(Nat \X Nat) /\ Len(ingest.stack) \in Nat \ {0}
  BY DEF TypeInv, JobInv, Progress
<1>2. Top = ingest.stack[Len(ingest.stack)]
  BY DEF Top, Last
<1>3. Top \in Nat \X Nat /\ Top[1] < Top[2] /\ Top[2] <= Span
  BY <1>1, <1>2 DEF TypeInv, JobInv
<1>4. /\ Front(ingest.stack) \in Seq(Nat \X Nat)
      /\ Len(Front(ingest.stack)) = Len(ingest.stack) - 1
      /\ \A i \in 1..Len(ingest.stack) - 1 : Front(ingest.stack)[i] = ingest.stack[i]
  BY <1>1 DEF Front
<1> QED BY <1>1, <1>2, <1>3, <1>4

\* A window at the end is what is left of the range, and so it is in two halves of one.
WindowsFit(s) ==
    s \in Seq(Nat \X Nat) /\ \A i \in 1..Len(s) : s[i][1] < s[i][2] /\ s[i][2] <= Span

LEMMA RestFits ==
    ASSUME TypeInv, ingest.stack # <<>>
    PROVE  WindowsFit(ingest.stack) /\ WindowsFit(Front(ingest.stack))
<1>1. WindowsFit(ingest.stack)
  BY DEF WindowsFit, TypeInv, JobInv, Progress
<1>2. WindowsFit(Front(ingest.stack))
  <2> DEFINE rest == Front(ingest.stack)
             n == Len(ingest.stack)
  <2>1. /\ n \in Nat \ {0} /\ rest \in Seq(Nat \X Nat) /\ Len(rest) = n - 1
        /\ \A i \in 1..n - 1 : rest[i] = ingest.stack[i]
    BY TopWindow
  <2>2. \A i \in 1..n : ingest.stack[i][1] < ingest.stack[i][2] /\ ingest.stack[i][2] <= Span
    BY <1>1 DEF WindowsFit
  <2>3. \A i \in 1..n - 1 : i \in 1..n
    BY <2>1
  <2> HIDE DEF rest, n
  <2>4. WindowsFit(rest)
    BY <2>1, <2>2, <2>3 DEF WindowsFit
  <2> QED BY <2>4 DEF rest
<1> QED BY <1>1, <1>2

LEMMA HalvesFit ==
    ASSUME TypeInv, ingest.stack # <<>>, ~AtFloor
    PROVE  LET rest == Front(ingest.stack)
               mid == (Top[1] + Top[2]) \div 2
               split == rest \o Halves(Top)
           IN  /\ WindowsFit(split)
               /\ mid \in Nat /\ Top[1] < mid /\ mid < Top[2]
               /\ Len(split) = Len(rest) + 2
               /\ \A i \in 1..Len(rest) : split[i] = rest[i]
               /\ split[Len(rest) + 1] = <<mid, Top[2]>> /\ split[Len(rest) + 2] = <<Top[1], mid>>
<1> DEFINE rest == Front(ingest.stack)
           mid == (Top[1] + Top[2]) \div 2
           split == rest \o Halves(Top)
<1>1. mid \in Nat /\ Top[1] < mid /\ mid < Top[2]
  BY TopWindow DEF AtFloor
<1>2. Top[1] \in Nat /\ Top[2] \in Nat /\ Top[2] <= Span /\ Span \in Nat
  BY TopWindow, MirrorAssumption
<1>3. Halves(Top) = <<(<<mid, Top[2]>>), (<<Top[1], mid>>)>>
  BY DEF Halves
<1>4. Halves(Top) \in Seq(Nat \X Nat) /\ Len(Halves(Top)) = 2
      /\ Halves(Top)[1] = <<mid, Top[2]>> /\ Halves(Top)[2] = <<Top[1], mid>>
  <2> HIDE DEF mid
  <2> QED BY <1>1, <1>2, <1>3
<1>5. rest \in Seq(Nat \X Nat) /\ Len(rest) \in Nat /\ WindowsFit(rest)
  BY RestFits DEF WindowsFit
<1>6. /\ split \in Seq(Nat \X Nat) /\ Len(split) = Len(rest) + 2
      /\ \A i \in 1..Len(rest) : split[i] = rest[i]
      /\ split[Len(rest) + 1] = <<mid, Top[2]>> /\ split[Len(rest) + 2] = <<Top[1], mid>>
  <2> DEFINE two == Halves(Top)
             n == Len(rest)
  <2>1. /\ two \in Seq(Nat \X Nat) /\ Len(two) = 2 /\ rest \in Seq(Nat \X Nat)
        /\ n \in Nat /\ n = Len(rest) /\ split = rest \o two
    BY <1>4, <1>5
  <2> HIDE DEF mid, rest, two, split, n
  <2>2. /\ split \in Seq(Nat \X Nat) /\ Len(split) = Len(rest) + Len(two)
        /\ \A i \in 1..Len(rest) + Len(two) :
              split[i] = IF i <= Len(rest) THEN rest[i] ELSE two[i - Len(rest)]
    BY <2>1, ConcatProperties
  <2>3. \A i \in 1..n : split[i] = rest[i]
    BY <2>1, <2>2
  <2>4. split[n + 1] = two[1] /\ split[n + 2] = two[2]
    BY <2>1, <2>2
  <2> QED BY <1>4, <2>1, <2>2, <2>3, <2>4 DEF n, two
<1>7. \A i \in 1..Len(split) : i \in 1..Len(rest) \/ i = Len(rest) + 1 \/ i = Len(rest) + 2
  <2> HIDE DEF split, rest
  <2> QED BY <1>5, <1>6
<1>8. WindowsFit(split)
  <2> SUFFICES ASSUME NEW i \in 1..Len(split)
               PROVE  split[i][1] < split[i][2] /\ split[i][2] <= Span
    BY <1>6 DEF WindowsFit
  <2> HIDE DEF split, rest, mid
  <2>1. CASE i \in 1..Len(rest)
    BY <1>5, <1>6, <2>1 DEF WindowsFit
  <2>2. CASE i = Len(rest) + 1
    BY <1>1, <1>2, <1>6, <2>2
  <2>3. CASE i = Len(rest) + 2
    BY <1>1, <1>2, <1>6, <2>3
  <2> QED BY <1>7, <2>1, <2>2, <2>3
<1> QED BY <1>1, <1>6, <1>8

\* The units of a window are of the range.
LEMMA UnitsFit ==
    \A w \in Nat \X Nat : w[2] <= Span => Units(w) \subseteq 1..Span
BY MirrorAssumption DEF Units

LEMMA AbandonedFit ==
    ASSUME NEW s, WindowsFit(s)
    PROVE  Abandoned(s) \subseteq 1..Span
<1> SUFFICES ASSUME NEW i \in DOMAIN s
             PROVE  Units(s[i]) \subseteq 1..Span
  BY DEF Abandoned, ToSet
<1>1. s[i] \in Nat \X Nat /\ s[i][2] <= Span
  <2>1. s \in Seq(Nat \X Nat) /\ DOMAIN s = 1..Len(s)
    BY DEF WindowsFit
  <2> QED BY <2>1 DEF WindowsFit
<1> QED BY <1>1, UnitsFit

\* A page read; the window goes on, or the next one follows.
LEMMA PageRead ==
    ASSUME TypeInv, ReadsPage
    PROVE  /\ UNCHANGED <<city, changes, rows, refresh>>
           /\ ingest' \in Progress
           /\ UNCHANGED <<ingest.capped, ingest.todo, ingest.quiet>>
           /\ ingest'.got = [c \in Cases |-> IF c \in Page(Top, ingest.page) THEN version[c] ELSE ingest.got[c]]
           /\ IF Cardinality(Page(Top, ingest.page)) = PageSize
              THEN /\ UNCHANGED <<ingest.pc, ingest.stack>> /\ ingest'.page = ingest.page + 1
              ELSE /\ ingest'.stack = Front(ingest.stack) /\ ingest'.page = 1
                   /\ ingest'.pc = IF Front(ingest.stack) = <<>> THEN "upsert" ELSE "list"
<1> DEFINE page == Page(Top, ingest.page)
           got == [c \in Cases |-> IF c \in page THEN version[c] ELSE ingest.got[c]]
           read == [ingest EXCEPT !.got = got, !.tries = 0, !.rebooted = FALSE]
           over == [read EXCEPT !.stack = Front(@), !.page = 1, !.volume = 0, !.caps = 0]
<1>1. ingest \in Progress /\ ingest.pc = "list" /\ ingest.stack # <<>>
  BY DEF TypeInv, JobInv, ReadsPage, Calls
<1>2. got \in [Cases -> Nat]
  BY <1>1 DEF Progress, TypeInv, CityInv
<1>3. /\ read \in Progress /\ read.got = got
      /\ read.pc = "list" /\ read.stack = ingest.stack /\ read.page = ingest.page
      /\ read.capped = ingest.capped /\ read.todo = ingest.todo /\ read.quiet = ingest.quiet
  <2> HIDE DEF got
  <2> QED BY <1>1, <1>2 DEF Progress
<1>4. Front(ingest.stack) \in Seq(Nat \X Nat)
  BY <1>1, TopWindow
<1>5. /\ over \in Progress /\ over.got = got
      /\ over.pc = "list" /\ over.stack = Front(ingest.stack) /\ over.page = 1
      /\ over.capped = ingest.capped /\ over.todo = ingest.todo /\ over.quiet = ingest.quiet
  <2> PICK one \in Nat \ {0}, zero \in Nat : one = 1 /\ zero = 0
    OBVIOUS
  <2> DEFINE r == [read EXCEPT !.stack = Front(@), !.page = one, !.volume = zero, !.caps = zero]
  <2> HIDE DEF read, got
  <2>1. r = over
    OBVIOUS
  <2>2. r \in Progress
    BY <1>3, <1>4 DEF Progress
  <2>3. /\ r.got = got /\ r.pc = "list" /\ r.stack = Front(ingest.stack) /\ r.page = 1
        /\ r.capped = ingest.capped /\ r.todo = ingest.todo /\ r.quiet = ingest.quiet
    BY <1>3 DEF Progress
  <2> HIDE DEF r, over
  <2> QED BY <2>1, <2>2, <2>3
<1>6. /\ Drained(over) \in Progress /\ Drained(over).got = got
      /\ Drained(over).stack = Front(ingest.stack) /\ Drained(over).page = 1
      /\ Drained(over).pc = IF Front(ingest.stack) = <<>> THEN "upsert" ELSE "list"
      /\ Drained(over).capped = ingest.capped /\ Drained(over).todo = ingest.todo
      /\ Drained(over).quiet = ingest.quiet
  <2> HIDE DEF over, got
  <2> QED BY <1>5 DEF Drained, Progress
<1>7. /\ [read EXCEPT !.page = @ + 1] \in Progress /\ [read EXCEPT !.page = @ + 1].got = got
      /\ [read EXCEPT !.page = @ + 1].pc = "list" /\ [read EXCEPT !.page = @ + 1].stack = ingest.stack
      /\ [read EXCEPT !.page = @ + 1].page = ingest.page + 1
      /\ [read EXCEPT !.page = @ + 1].capped = ingest.capped /\ [read EXCEPT !.page = @ + 1].todo = ingest.todo
      /\ [read EXCEPT !.page = @ + 1].quiet = ingest.quiet
  <2> HIDE DEF read, got
  <2> QED BY <1>3 DEF Progress
<1>8. ingest' = IF Cardinality(page) = PageSize THEN [read EXCEPT !.page = @ + 1] ELSE Drained(over)
  BY DEF ReadsPage
<1>9. UNCHANGED <<city, changes, rows, refresh>>
  BY DEF ReadsPage
<1> HIDE DEF read, over, got
<1>10. CASE Cardinality(page) = PageSize
  BY <1>1, <1>7, <1>8, <1>9, <1>10 DEF got
<1>11. CASE Cardinality(page) # PageSize
  BY <1>1, <1>6, <1>8, <1>9, <1>11 DEF got
<1> QED BY <1>10, <1>11

\* What a refusal of the volume does: the window is split, tried again, skipped and
\* reported, or with it all that is left.
RefusedAs(stack, capped, pc) ==
    /\ ingest'.stack = stack /\ ingest'.capped = capped /\ ingest'.pc = pc /\ ingest'.page = 1

LEMMA RefusalMade ==
    ASSUME TypeInv, Refused
    PROVE  /\ UNCHANGED <<city, changes, rows, refresh>>
           /\ ingest' \in Progress
           /\ UNCHANGED <<ingest.got, ingest.todo, ingest.quiet>>
           /\ LET rest == Front(ingest.stack)
                  reported == ingest.capped \cup Units(Top)
              IN  \/ ~AtFloor /\ RefusedAs(rest \o Halves(Top), ingest.capped, "list")
                  \/ RefusedAs(ingest.stack, ingest.capped, "list")
                  \/ RefusedAs(<<>>, reported \cup Abandoned(rest), "upsert")
                  \/ RefusedAs(rest, reported, IF rest = <<>> THEN "upsert" ELSE "list")
<1> DEFINE rest == Front(ingest.stack)
           reported == ingest.capped \cup Units(Top)
           again == [ingest EXCEPT !.page = 1, !.tries = 0, !.rebooted = FALSE]
           skipped == [again EXCEPT !.stack = rest, !.volume = 0, !.caps = @ + 1, !.capped = @ \cup Units(Top)]
           split == [again EXCEPT !.stack = rest \o Halves(Top)]
           retried == [again EXCEPT !.volume = @ + 1]
           gone == [skipped EXCEPT !.pc = "upsert", !.stack = <<>>, !.capped = @ \cup Abandoned(rest)]
<1>1. ingest \in Progress /\ ingest.pc = "list" /\ ingest.stack # <<>>
  BY DEF TypeInv, JobInv, Refused, Calls
<1>2. Units(Top) \subseteq 1..Span /\ rest \in Seq(Nat \X Nat) /\ Abandoned(rest) \subseteq 1..Span
  BY <1>1, TopWindow, UnitsFit, AbandonedFit, RestFits
<1>3. ~AtFloor => rest \o Halves(Top) \in Seq(Nat \X Nat)
  BY <1>1, HalvesFit DEF WindowsFit
<1> DEFINE Kept(r) == r.got = ingest.got /\ r.todo = ingest.todo /\ r.quiet = ingest.quiet /\ r.page = 1
<1>4. /\ again \in Progress /\ Kept(again)
      /\ again.pc = "list" /\ again.stack = ingest.stack /\ again.capped = ingest.capped
  <2> PICK one \in Nat \ {0}, zero \in Nat : one = 1 /\ zero = 0
    OBVIOUS
  <2> DEFINE r == [ingest EXCEPT !.page = one, !.tries = zero, !.rebooted = FALSE]
  <2>1. r = again
    OBVIOUS
  <2>2. r \in Progress
    BY <1>1 DEF Progress
  <2>3. Kept(r) /\ r.pc = "list" /\ r.stack = ingest.stack /\ r.capped = ingest.capped
    BY <1>1 DEF Progress
  <2> HIDE DEF r, again
  <2> QED BY <2>1, <2>2, <2>3
<1> HIDE DEF again
<1>5. ~AtFloor => /\ split \in Progress /\ Kept(split)
                  /\ split.pc = "list" /\ split.stack = rest \o Halves(Top) /\ split.capped = ingest.capped
  <2> DEFINE both == rest \o Halves(Top)
  <2> HIDE DEF both
  <2>1. ~AtFloor => both \in Seq(Nat \X Nat)
    BY <1>3 DEF both
  <2>2. ~AtFloor => LET r == [again EXCEPT !.stack = both]
                    IN  r \in Progress /\ Kept(r) /\ r.pc = "list" /\ r.stack = both /\ r.capped = ingest.capped
    BY <1>4, <2>1 DEF Progress
  <2> QED BY <2>2 DEF both
<1>6. /\ retried \in Progress /\ Kept(retried)
      /\ retried.pc = "list" /\ retried.stack = ingest.stack /\ retried.capped = ingest.capped
  <2> PICK more \in Nat : more = again.volume + 1
    BY <1>4 DEF Progress
  <2> DEFINE r == [again EXCEPT !.volume = more]
  <2>1. r = retried
    OBVIOUS
  <2>2. r \in Progress /\ Kept(r) /\ r.pc = "list" /\ r.stack = ingest.stack /\ r.capped = ingest.capped
    BY <1>4 DEF Progress
  <2> HIDE DEF r, retried
  <2> QED BY <2>1, <2>2
<1>7. /\ skipped \in Progress /\ Kept(skipped)
      /\ skipped.pc = "list" /\ skipped.stack = rest /\ skipped.capped = reported
  <2> PICK zero \in Nat : zero = 0
    OBVIOUS
  <2> PICK more \in Nat : more = again.caps + 1
    BY <1>4 DEF Progress
  <2> PICK set \in SUBSET (1..Span) : set = again.capped \cup Units(Top)
    BY <1>2, <1>4 DEF Progress
  <2> DEFINE r == [again EXCEPT !.stack = rest, !.volume = zero, !.caps = more, !.capped = set]
  <2> HIDE DEF rest
  <2>1. r = skipped
    OBVIOUS
  <2>2. r \in Progress
    BY <1>2, <1>4 DEF Progress
  <2>3. Kept(r) /\ r.pc = "list" /\ r.stack = rest /\ r.capped = set
    BY <1>4 DEF Progress
  <2> HIDE DEF r, skipped
  <2> QED BY <1>4, <2>1, <2>2, <2>3
<1> HIDE DEF skipped, split, retried, rest, reported
<1>8. /\ gone \in Progress /\ Kept(gone)
      /\ gone.pc = "upsert" /\ gone.stack = <<>> /\ gone.capped = reported \cup Abandoned(rest)
  <2>1. <<>> \in Seq(Nat \X Nat)
    OBVIOUS
  <2> QED BY <1>2, <1>7, <2>1 DEF Progress
<1>9. /\ Drained(skipped) \in Progress /\ Kept(Drained(skipped))
      /\ Drained(skipped).pc = (IF rest = <<>> THEN "upsert" ELSE "list")
      /\ Drained(skipped).stack = rest /\ Drained(skipped).capped = reported
  BY <1>7 DEF Drained, Progress
<1>10. /\ UNCHANGED <<city, changes, rows, refresh>>
       /\ ingest' = IF ~AtFloor THEN split
                    ELSE IF ingest.volume < VolumeRetries THEN retried
                    ELSE IF skipped.caps >= GiveUpAfter THEN gone ELSE Drained(skipped)
  BY DEF Refused, again, skipped, split, retried, rest
<1> HIDE DEF gone
<1>11. CASE ~AtFloor /\ ingest' = split
  BY <1>5, <1>10, <1>11 DEF RefusedAs, rest
<1>12. CASE ingest' = retried
  BY <1>6, <1>10, <1>12 DEF RefusedAs
<1>13. CASE ingest' = gone
  BY <1>8, <1>10, <1>13 DEF RefusedAs, rest, reported
<1>14. CASE ingest' = Drained(skipped)
  BY <1>9, <1>10, <1>14 DEF RefusedAs, rest, reported
<1> QED BY <1>10, <1>11, <1>12, <1>13, <1>14

\* What the ingest holds is of the City's, and its windows are of its range.
LEMMA JobStep ==
    ASSUME TypeInv, [Next]_vars
    PROVE  JobInv'
<1> USE DEF TypeInv
<1>1. /\ Grows
      /\ \A c \in Cases : /\ version[c] \in Nat /\ version'[c] \in Nat /\ detail[c] \in Nat /\ detail'[c] \in Nat
                          /\ listed[c] \in Nat /\ listed'[c] \in Nat
  BY RowStep, CityStep DEF CityInv, RowInv
<1>2. ASSUME NEW r \in Progress, ingest' = r, WindowsFit(r.stack), r.pc = "list" => r.stack # <<>>,
             \A c \in Cases : r.got[c] <= version'[c],
             \A c \in r.todo : listed'[c] > 0,
             Answers(r)'
      PROVE  JobInv'
  BY <1>2 DEF JobInv, WindowsFit, Answers
<1>3. /\ ingest \in Progress /\ WindowsFit(ingest.stack)
      /\ \A c \in Cases : ingest.got[c] \in Nat /\ ingest.got[c] <= version'[c]
      /\ \A c \in ingest.todo : c \in Cases /\ listed'[c] > 0
  <2>1. ingest \in Progress /\ WindowsFit(ingest.stack)
    BY DEF JobInv, WindowsFit, Progress
  <2>2. \A c \in Cases : ingest.got[c] \in Nat /\ ingest.got[c] <= version[c]
    BY DEF JobInv, Progress
  <2>3. ingest.todo \subseteq Cases /\ \A c \in ingest.todo : listed[c] > 0
    BY DEF JobInv, Progress
  <2>4. \A c \in Cases : ingest.got[c] <= version'[c]
    BY <1>1, <2>2 DEF Grows
  <2>5. \A c \in ingest.todo : c \in Cases /\ listed'[c] > 0
    BY <1>1, <2>3 DEF Grows
  <2> QED BY <2>1, <2>2, <2>4, <2>5
<1>4. ASSUME NEW r \in Progress, ingest' = r, r.stack = ingest.stack, r.got = ingest.got,
             r.todo \subseteq ingest.todo, r.pc = "list" => ingest.pc = "list",
             r.pc \notin {"apply", "stage"}
      PROVE  JobInv'
  <2>1. Answers(r)'
    BY <1>4 DEF Answers
  <2>2. r.pc = "list" => r.stack # <<>>
    BY <1>4 DEF JobInv
  <2> QED BY <1>2, <1>3, <1>4, <2>1, <2>2
<1>5. ASSUME NEW r \in Progress, ingest' = r, r.stack = ingest.stack, r.got = ingest.got,
             r.todo = ingest.todo, r.pc = ingest.pc, r.case = ingest.case, r.answer = ingest.answer
      PROVE  JobInv'
  <2>1. Answers(r)'
    <3>1. r.answer \in Nat
      BY DEF Progress
    <3> QED BY <1>1, <1>5, <3>1 DEF Answers, Grows, JobInv
  <2>2. r.pc = "list" => r.stack # <<>>
    BY <1>5 DEF JobInv
  <2> QED BY <1>2, <1>3, <1>5, <2>1, <2>2
<1>6. /\ Idle \in Progress /\ Idle.pc = "idle" /\ Idle.stack = <<>> /\ Idle.todo = {}
      /\ \A c \in Cases : Idle.got[c] = 0
  BY DEF Idle, Progress
<1>7. ASSUME NEW r \in Progress, ingest' = r, r.got = Idle.got, r.todo = {}, WindowsFit(r.stack),
             r.pc = "list" => r.stack # <<>>, r.pc \notin {"apply", "stage"}
      PROVE  JobInv'
  <2>1. Answers(r)'
    BY <1>7 DEF Answers
  <2>2. \A c \in Cases : r.got[c] <= version'[c]
    BY <1>1, <1>6, <1>7
  <2> QED BY <1>2, <1>7, <2>1, <2>2
<1>8. WindowsFit(<<>>) /\ WindowsFit(Windows) /\ Windows # <<>> /\ Windows \in Seq(Nat \X Nat)
  BY MirrorAssumption DEF WindowsFit, Windows
<1>9. CASE ingest' = Idle
  BY <1>6, <1>7, <1>8, <1>9
<1>10. CASE UNCHANGED ingest
  BY <1>3, <1>5, <1>10
<1>11. ASSUME NEW c \in Cases, CityChanges(c)
       PROVE  JobInv'
  <2> PICK quiet \in BOOLEAN : quiet = (ingest.quiet /\ ingest.pc \notin {"list", "upsert"})
    BY <1>3 DEF Progress
  <2> DEFINE r == [ingest EXCEPT !.quiet = quiet]
  <2>1. ingest' = r
    BY <1>11 DEF CityChanges
  <2>2. /\ r \in Progress /\ r.stack = ingest.stack /\ r.got = ingest.got /\ r.todo = ingest.todo
        /\ r.pc = ingest.pc /\ r.case = ingest.case /\ r.answer = ingest.answer
    BY <1>3 DEF Progress
  <2> HIDE DEF r
  <2> QED BY <1>5, <2>1, <2>2
<1>12. CASE Redeployed \/ Bootstraps
  <2> DEFINE r(session, rebooted) == [ingest EXCEPT !.session = session, !.rebooted = rebooted]
  <2>1. ASSUME NEW session \in {"ok", "stale"}, NEW rebooted \in BOOLEAN, ingest' = r(session, rebooted)
        PROVE  JobInv'
    <3>1. /\ r(session, rebooted) \in Progress /\ r(session, rebooted).stack = ingest.stack
          /\ r(session, rebooted).got = ingest.got /\ r(session, rebooted).todo = ingest.todo
          /\ r(session, rebooted).pc = ingest.pc /\ r(session, rebooted).case = ingest.case
          /\ r(session, rebooted).answer = ingest.answer
      BY <1>3 DEF Progress
    <3> HIDE DEF r
    <3> QED BY <1>5, <2>1, <3>1
  <2>2. ingest' = Idle \/ \E session \in {"ok", "stale"}, rebooted \in BOOLEAN : ingest' = r(session, rebooted)
    <3>1. CASE Redeployed
      <4>1. ingest' = r("stale", ingest.rebooted) /\ ingest.rebooted \in BOOLEAN
        BY <1>3, <3>1 DEF Redeployed, Progress
      <4> QED BY <4>1
    <3>2. CASE Bootstraps
      BY <1>3, <3>2 DEF Bootstraps, Progress
    <3> QED BY <1>12, <3>1, <3>2
  <2> QED BY <1>9, <2>1, <2>2
<1>13. CASE CallFails
  <2> PICK more \in Nat : more = ingest.tries + 1
    BY <1>3 DEF Progress
  <2> DEFINE r == [ingest EXCEPT !.tries = more]
  <2>1. ingest' = Idle \/ ingest' = r
    BY <1>13 DEF CallFails
  <2>2. /\ r \in Progress /\ r.stack = ingest.stack /\ r.got = ingest.got /\ r.todo = ingest.todo
        /\ r.pc = ingest.pc /\ r.case = ingest.case /\ r.answer = ingest.answer
    BY <1>3 DEF Progress
  <2> HIDE DEF r
  <2> QED BY <1>5, <1>9, <2>1, <2>2
<1>14. CASE IngestBegins
  <2> DEFINE r == [Idle EXCEPT !.pc = "list", !.stack = Windows]
  <2>1. r \in Progress /\ r.got = Idle.got /\ r.todo = {} /\ r.pc = "list" /\ r.stack = Windows
    BY <1>6, <1>8 DEF Progress
  <2>2. ingest' = r
    BY <1>14 DEF IngestBegins
  <2> HIDE DEF r
  <2> QED BY <1>7, <1>8, <2>1, <2>2
<1>15. CASE ReadsPage
  <2> PICK r \in Progress : r = ingest'
    BY <1>15, PageRead
  <2>1. ingest.pc = "list" /\ ingest.stack # <<>> /\ ingest.stack \in Seq(Nat \X Nat)
    BY <1>3, <1>15 DEF ReadsPage, Calls, JobInv, Progress
  <2>2. r.todo = ingest.todo /\ (r.pc = "list" \/ r.pc = "upsert")
    BY <1>15, <2>1, PageRead
  <2>3. WindowsFit(r.stack) /\ (r.pc = "list" => r.stack # <<>>)
    BY <1>3, <1>15, <2>1, PageRead, RestFits
  <2>4. \A c \in Cases : r.got[c] <= version'[c]
    <3>1. r.got = [c \in Cases |-> IF c \in Page(Top, ingest.page) THEN version[c] ELSE ingest.got[c]]
      BY <1>15, PageRead
    <3> QED BY <1>1, <1>3, <3>1 DEF Grows
  <2>5. Answers(r)'
    BY <2>2 DEF Answers
  <2> QED BY <1>2, <1>3, <2>2, <2>3, <2>4, <2>5
<1>16. CASE Refused
  <2> PICK r \in Progress : r = ingest'
    BY <1>16, RefusalMade
  <2>1. ingest.pc = "list" /\ ingest.stack # <<>>
    BY <1>16 DEF Refused, Calls, JobInv
  <2>2. r.todo = ingest.todo /\ r.got = ingest.got /\ (r.pc = "list" \/ r.pc = "upsert")
    BY <1>16, RefusalMade DEF RefusedAs
  <2>3. WindowsFit(r.stack)
    BY <1>8, <1>16, <2>1, RefusalMade, RestFits, HalvesFit DEF RefusedAs
  <2>4. r.pc = "list" => r.stack # <<>>
    <3>1. ~AtFloor => Front(ingest.stack) \o Halves(Top) # <<>>
      <4> DEFINE split == Front(ingest.stack) \o Halves(Top)
      <4>1. ~AtFloor => Len(split) = Len(Front(ingest.stack)) + 2 /\ Len(Front(ingest.stack)) \in Nat
        BY <2>1, HalvesFit, TopWindow
      <4> HIDE DEF split
      <4>2. ~AtFloor => split # <<>>
        BY <4>1
      <4> QED BY <4>2 DEF split
    <3> QED BY <1>16, <2>1, <3>1, RefusalMade DEF RefusedAs
  <2>5. Answers(r)'
    BY <2>2 DEF Answers
  <2> QED BY <1>2, <1>3, <2>2, <2>3, <2>4, <2>5
<1>17. CASE Upserts
  <2> DEFINE r == [Idle EXCEPT !.pc = "select"]
  <2>1. r \in Progress /\ r.got = Idle.got /\ r.todo = {} /\ r.pc = "select" /\ r.stack = <<>>
    BY <1>6 DEF Progress
  <2>2. ingest' = Idle \/ ingest' = r
    BY <1>17 DEF Upserts
  <2> HIDE DEF r
  <2> QED BY <1>7, <1>8, <1>9, <2>1, <2>2
<1>18. CASE Selects
  <2> PICK s \in SUBSET {c \in Cases : NeedsDetail(c)} : ingest' = [ingest EXCEPT !.pc = "enrich", !.todo = s]
    BY <1>18 DEF Selects
  <2> PICK r \in Progress : r = [ingest EXCEPT !.pc = "enrich", !.todo = s]
    BY <1>3 DEF Progress
  <2>1. r.pc = "enrich" /\ r.todo = s /\ r.stack = ingest.stack /\ r.got = ingest.got
    BY <1>3 DEF Progress
  <2>2. \A c \in s : listed'[c] > 0
    BY <1>1 DEF NeedsDetail, Grows
  <2>3. Answers(r)'
    BY <2>1 DEF Answers
  <2> QED BY <1>2, <1>3, <2>1, <2>2, <2>3
<1>19. CASE Enriches
  <2>1. CASE ingest' = [ingest EXCEPT !.pc = "media"]
    <3> DEFINE r == [ingest EXCEPT !.pc = "media"]
    <3>1. r \in Progress /\ r.pc = "media" /\ r.todo = ingest.todo /\ r.stack = ingest.stack /\ r.got = ingest.got
      BY <1>3 DEF Progress
    <3> HIDE DEF r
    <3> QED BY <1>4, <2>1, <3>1 DEF r
  <2>2. ASSUME NEW c \in ingest.todo,
               ingest' = [ingest EXCEPT !.pc = "apply", !.todo = @ \ {c}, !.case = c, !.answer = version[c]]
        PROVE  JobInv'
    <3>1. c \in Cases /\ version[c] \in Nat /\ listed[c] > 0 /\ listed[c] \in Nat /\ listed[c] <= version[c]
      BY <1>1, <1>3 DEF JobInv, RowInv
    <3> PICK answer \in Nat : answer = version[c]
      BY <3>1
    <3> DEFINE left == ingest.todo \ {c}
    <3>2. left \subseteq ingest.todo /\ left \in SUBSET Cases
      BY <1>3
    <3>3. ingest' = [ingest EXCEPT !.pc = "apply", !.todo = left, !.case = c, !.answer = answer]
      BY <2>2
    <3> HIDE DEF left
    <3>4. [ingest EXCEPT !.pc = "apply", !.todo = left, !.case = c, !.answer = answer] \in Progress
      BY <1>3, <3>1, <3>2 DEF Progress
    <3> PICK r \in Progress : r = [ingest EXCEPT !.pc = "apply", !.todo = left, !.case = c, !.answer = answer]
      BY <3>4
    <3>5. /\ r.pc = "apply" /\ r.todo = left /\ r.case = c /\ r.answer = answer
          /\ r.stack = ingest.stack /\ r.got = ingest.got
      BY <1>3 DEF Progress
    <3>6. Answers(r)'
      BY <1>1, <3>1, <3>5 DEF Answers, Grows
    <3> QED BY <1>2, <1>3, <3>2, <3>3, <3>5, <3>6
  <2> QED BY <1>19, <2>1, <2>2 DEF Enriches
<1>20. CASE DetailFails \/ Stages
  <2> DEFINE r == [ingest EXCEPT !.pc = "enrich", !.case = None, !.answer = 0]
  <2>1. r \in Progress
    BY <1>3 DEF Progress
  <2>2. r.pc = "enrich" /\ r.todo = ingest.todo /\ r.stack = ingest.stack /\ r.got = ingest.got
    BY <1>3 DEF Progress
  <2>3. ingest' = r
    BY <1>20 DEF DetailFails, Stages
  <2> HIDE DEF r
  <2> QED BY <1>4, <2>1, <2>2, <2>3
<1>21. CASE Applies
  <2> PICK r \in Progress : r = [ingest EXCEPT !.pc = "stage"]
    BY <1>3 DEF Progress
  <2>1. /\ r.pc = "stage" /\ r.case = ingest.case /\ r.answer = ingest.answer
        /\ r.todo = ingest.todo /\ r.stack = ingest.stack /\ r.got = ingest.got
    BY <1>3 DEF Progress
  <2>2. ingest' = r
    BY <1>21 DEF Applies
  <2>3. /\ ingest.case \in Cases /\ 0 < ingest.answer /\ ingest.answer <= version[ingest.case]
        /\ ingest.answer \in Nat
    BY <1>21 DEF Applies, JobInv, Answers, Progress
  <2>4. ingest.answer <= version'[ingest.case]
    BY <1>1, <2>3 DEF Grows
  <2>5. detail'[ingest.case] > 0
    BY <1>21, <2>3 DEF Applies, Store, RowInv
  <2>6. Answers(r)'
    BY <2>1, <2>3, <2>4, <2>5 DEF Answers
  <2> QED BY <1>2, <1>3, <2>1, <2>2, <2>6
<1>22. \/ UNCHANGED ingest \/ ingest' = Idle \/ \E c \in Cases : CityChanges(c)
       \/ Redeployed \/ Bootstraps \/ CallFails \/ IngestBegins \/ ReadsPage \/ Refused \/ Upserts \/ Selects
       \/ Enriches \/ DetailFails \/ Stages \/ Applies
  BY DEF Next, vars, Job, Begins, Goes, Accident, Downloads, IngestDies, RefreshBegins, RefreshMine,
        RefreshOne, AskAbout, Asks, AskFails, RefreshUpserts, RefreshApplies, RefreshStages, RefreshDies
<1> QED BY <1>9, <1>10, <1>11, <1>12, <1>13, <1>14, <1>15, <1>16, <1>17, <1>18, <1>19, <1>20, <1>21, <1>22

LEMMA TypesStep == TypeInv /\ [Next]_vars => TypeInv'
BY CityStep, RowStep, JobStep, PassStep DEF TypeInv

-----------------------------------------------------------------------------
(* Nothing is skipped silently                                             *)

\* A case that is covered after a step that leaves the City as it is.
LEMMA CoveredThen ==
    ASSUME NEW c \in Cases, UNCHANGED city,
           \/ ingest'.got[c] = version[c]
           \/ slot[c] \in ingest'.capped
           \/ \E i \in 1..Len(ingest'.stack) - 1 : slot[c] \in Units(ingest'.stack[i])
           \/ /\ ingest'.stack # <<>> /\ slot[c] \in Units(Last(ingest'.stack))
              /\ (ingest'.page - 1) * PageSize <= Place(Last(ingest'.stack), c)
    PROVE  Covered(c)'
BY DEF Covered, Top, Place, Within, Filed, city

\* No page is before the first.
LEMMA FirstPage ==
    ASSUME NEW w, NEW c
    PROVE  (1 - 1) * PageSize <= Place(w, c)
<1>1. (1 - 1) * PageSize = 0
  BY MirrorAssumption
<1> QED BY <1>1, PlaceType

\* A window that was still to be read is, or is the one to be read now.
LEMMA CoveredBelow ==
    ASSUME TypeInv, NEW c \in Cases, UNCHANGED city, ingest.stack # <<>>,
           ingest'.stack = Front(ingest.stack), ingest'.page = 1,
           NEW i \in 1..Len(ingest.stack) - 1, slot[c] \in Units(ingest.stack[i])
    PROVE  Covered(c)' /\ Front(ingest.stack) # <<>>
<1> DEFINE rest == Front(ingest.stack)
           n == Len(ingest.stack)
<1>1. /\ n \in Nat \ {0} /\ rest \in Seq(Nat \X Nat) /\ Len(rest) = n - 1
      /\ rest[i] = ingest.stack[i] /\ i \in 1..n - 1
  BY TopWindow
<1>2. ingest'.stack = rest
  OBVIOUS
<1> HIDE DEF rest, n
<1>3. rest # <<>>
  BY <1>1
<1>4. CASE i = n - 1
  <2>1. Last(ingest'.stack) = ingest.stack[i]
    BY <1>1, <1>2, <1>4 DEF Last
  <2>2. (ingest'.page - 1) * PageSize <= Place(Last(ingest'.stack), c)
    BY FirstPage
  <2> QED BY <1>2, <1>3, <2>1, <2>2, CoveredThen DEF rest
<1>5. CASE i # n - 1
  <2>1. i \in 1..Len(ingest'.stack) - 1 /\ slot[c] \in Units(ingest'.stack[i])
    BY <1>1, <1>2, <1>5
  <2> QED BY <1>3, <2>1, CoveredThen DEF rest
<1> QED BY <1>4, <1>5

LEMMA PageCovers ==
    ASSUME TypeInv, ReadsPage, NEW c \in Filed, Covered(c)
    PROVE  /\ ingest'.pc = "list" => Covered(c)'
           /\ ingest'.pc = "upsert" => ingest'.got[c] = version'[c] \/ slot'[c] \in ingest'.capped
<1> DEFINE page == Page(Top, ingest.page)
           full == Cardinality(page) = PageSize
<1>1. /\ c \in Cases /\ UNCHANGED city /\ ingest'.capped = ingest.capped
      /\ ingest'.got[c] = IF c \in page THEN version[c] ELSE ingest.got[c]
  BY PageRead DEF Filed
<1>2. version' = version /\ slot' = slot
  BY <1>1 DEF city
<1>3. ingest.stack # <<>> /\ ingest.page \in Nat \ {0} /\ ingest.pc = "list"
  BY DEF TypeInv, JobInv, ReadsPage, Calls, Progress
<1>4. IF full
      THEN ingest'.pc = "list" /\ ingest'.stack = ingest.stack /\ ingest'.page = ingest.page + 1
      ELSE /\ ingest'.stack = Front(ingest.stack) /\ ingest'.page = 1
           /\ ingest'.pc = IF Front(ingest.stack) = <<>> THEN "upsert" ELSE "list"
  BY <1>3, PageRead
<1> HIDE DEF full, page
<1>5. CASE ingest.got[c] = version[c] \/ slot[c] \in ingest.capped \/ c \in page
  <2>1. ingest'.got[c] = version[c] \/ slot[c] \in ingest'.capped
    BY <1>1, <1>5
  <2> QED BY <1>1, <1>2, <2>1, CoveredThen
<1>6. ASSUME NEW i \in 1..Len(ingest.stack) - 1, slot[c] \in Units(ingest.stack[i])
      PROVE  Covered(c)' /\ ingest'.pc = "list"
  <2>1. CASE full
    BY <1>1, <1>4, <1>6, <2>1, CoveredThen
  <2>2. CASE ~full
    BY <1>1, <1>3, <1>4, <1>6, <2>2, CoveredBelow
  <2> QED BY <2>1, <2>2
<1>7. CASE slot[c] \in Units(Top) /\ (ingest.page - 1) * PageSize <= Place(Top, c) /\ c \notin page
  <2>1. c \in Within(Top)
    <3>1. slot[c] \in Nat /\ Top[1] \in Nat /\ Top[2] \in Nat
      BY <1>1, <1>3, TopWindow, MirrorAssumption DEF TypeInv, CityInv
    <3> QED BY <1>7, <3>1 DEF Units, Within
  <2>2. ingest.page * PageSize <= Place(Top, c)
    <3>1. ingest.page * PageSize \in Nat /\ Place(Top, c) \in Nat
      BY <1>3, PlaceType, MirrorAssumption
    <3>2. ~(Place(Top, c) < ingest.page * PageSize)
      BY <1>7, <2>1 DEF Page, page
    <3> QED BY <3>1, <3>2
  <2>3. full
    <3>1. Ordered
      BY DEF TypeInv, CityInv
    <3> PICK p \in Nat \ {0} : p = ingest.page
      BY <1>3
    <3> PICK w : w = Top
      OBVIOUS
    <3>2. Cardinality(Page(w, p)) = PageSize
      BY <2>1, <2>2, <3>1, FullPage
    <3> QED BY <3>2 DEF full, page
  <2>4. Last(ingest'.stack) = Top /\ ingest'.stack # <<>>
    BY <1>3, <1>4, <2>3 DEF Top
  <2>5. (ingest'.page - 1) * PageSize <= Place(Last(ingest'.stack), c)
    BY <1>3, <1>4, <2>2, <2>3, <2>4
  <2>6. slot[c] \in Units(Last(ingest'.stack))
    BY <1>7, <2>4
  <2> QED BY <1>1, <1>4, <2>3, <2>4, <2>5, <2>6, CoveredThen
<1> QED BY <1>5, <1>6, <1>7 DEF Covered

LEMMA RefusalCovers ==
    ASSUME TypeInv, Refused, NEW c \in Filed, Covered(c)
    PROVE  /\ ingest'.pc = "list" => Covered(c)'
           /\ ingest'.pc = "upsert" => ingest'.got[c] = version'[c] \/ slot'[c] \in ingest'.capped
<1> DEFINE rest == Front(ingest.stack)
           reported == ingest.capped \cup Units(Top)
<1>1. c \in Cases /\ UNCHANGED city /\ ingest'.got = ingest.got
  BY RefusalMade DEF Filed
<1>2. version' = version /\ slot' = slot
  BY <1>1 DEF city
<1>3. ingest.stack # <<>> /\ ingest.stack \in Seq(Nat \X Nat)
  BY DEF TypeInv, JobInv, Refused, Calls, Progress
<1>4. /\ Len(ingest.stack) \in Nat \ {0} /\ Len(rest) = Len(ingest.stack) - 1
      /\ rest \in Seq(Nat \X Nat)
      /\ \A i \in 1..Len(ingest.stack) - 1 : rest[i] = ingest.stack[i]
  BY <1>3, TopWindow
<1>5. \/ ~AtFloor /\ RefusedAs(rest \o Halves(Top), ingest.capped, "list")
      \/ RefusedAs(ingest.stack, ingest.capped, "list")
      \/ RefusedAs(<<>>, reported \cup Abandoned(rest), "upsert")
      \/ RefusedAs(rest, reported, IF rest = <<>> THEN "upsert" ELSE "list")
  BY RefusalMade
<1> HIDE DEF rest, reported
<1>6. CASE ingest.got[c] = version[c] \/ slot[c] \in ingest.capped
  <2>1. ingest'.got[c] = version[c] \/ slot[c] \in ingest'.capped
    BY <1>1, <1>5, <1>6 DEF RefusedAs, reported
  <2> QED BY <1>1, <1>2, <2>1, CoveredThen
<1>7. CASE ~AtFloor /\ RefusedAs(rest \o Halves(Top), ingest.capped, "list")
  <2> DEFINE split == rest \o Halves(Top)
             mid == (Top[1] + Top[2]) \div 2
  <2>1. /\ mid \in Nat /\ Top[1] < mid /\ mid < Top[2] /\ Len(split) = Len(rest) + 2
        /\ \A i \in 1..Len(rest) : split[i] = rest[i]
        /\ split[Len(rest) + 1] = <<mid, Top[2]>> /\ split[Len(rest) + 2] = <<Top[1], mid>>
    BY <1>3, <1>7, HalvesFit DEF rest
  <2>2. ingest'.stack = split /\ ingest'.page = 1 /\ ingest'.pc = "list"
    BY <1>7 DEF RefusedAs
  <2>3. Top[1] \in Nat /\ Top[2] \in Nat /\ slot[c] \in Nat
    BY <1>1, <1>3, TopWindow, MirrorAssumption DEF TypeInv, CityInv
  <2> PICK n \in Nat \ {0} : n = Len(ingest.stack)
    BY <1>4
  <2> HIDE DEF split, mid
  <2>4. Len(rest) = n - 1 /\ \A i \in 1..n - 1 : rest[i] = ingest.stack[i]
    BY <1>4
  <2>5. Len(ingest'.stack) = n + 1
    BY <2>1, <2>2, <2>4
  <2>6. \A i \in 1..n - 1 : ingest'.stack[i] = ingest.stack[i]
    <3>1. \A i \in 1..n - 1 : split[i] = rest[i]
      BY <2>1, <2>4
    <3> QED BY <2>2, <2>4, <3>1
  <2>7. ingest'.stack[n] = <<mid, Top[2]>> /\ ingest'.stack[n + 1] = <<Top[1], mid>>
    <3>1. Len(rest) + 1 = n /\ Len(rest) + 2 = n + 1
      BY <2>4
    <3> QED BY <2>1, <2>2, <3>1
  <2>8. ASSUME NEW i \in 1..Len(ingest.stack) - 1, slot[c] \in Units(ingest.stack[i])
        PROVE  Covered(c)'
    <3>1. i \in 1..Len(ingest'.stack) - 1 /\ ingest'.stack[i] = ingest.stack[i]
      BY <2>5, <2>6
    <3> QED BY <1>1, <2>8, <3>1, CoveredThen
  <2>9. CASE slot[c] \in Units(Top) /\ slot[c] > mid
    <3>1. n \in 1..Len(ingest'.stack) - 1 /\ ingest'.stack[n] = <<mid, Top[2]>>
      BY <2>5, <2>7
    <3>2. slot[c] \in Units(ingest'.stack[n])
      BY <2>1, <2>3, <2>9, <3>1 DEF Units
    <3> QED BY <1>1, <2>2, <3>1, <3>2, CoveredThen
  <2>10. CASE slot[c] \in Units(Top) /\ ~(slot[c] > mid)
    <3>1. Last(ingest'.stack) = <<Top[1], mid>> /\ ingest'.stack # <<>>
      <4>1. ingest'.stack # <<>>
        BY <2>5
      <4> QED BY <2>5, <2>7, <4>1 DEF Last
    <3>2. slot[c] \in Units(Last(ingest'.stack))
      BY <2>1, <2>3, <2>10, <3>1 DEF Units
    <3>3. (ingest'.page - 1) * PageSize <= Place(Last(ingest'.stack), c)
      BY <2>2, FirstPage
    <3> QED BY <1>1, <2>2, <3>1, <3>2, <3>3, CoveredThen
  <2> QED BY <1>6, <2>2, <2>8, <2>9, <2>10 DEF Covered
<1>8. CASE RefusedAs(ingest.stack, ingest.capped, "list")
  <2>1. ingest'.stack = ingest.stack /\ ingest'.page = 1 /\ ingest'.pc = "list"
    BY <1>8 DEF RefusedAs
  <2>2. Last(ingest'.stack) = Top
    BY <2>1 DEF Top
  <2>3. (ingest'.page - 1) * PageSize <= Place(Last(ingest'.stack), c)
    BY <2>1, FirstPage
  <2>4. CASE slot[c] \in Units(Top)
    BY <1>1, <1>3, <2>1, <2>2, <2>3, <2>4, CoveredThen
  <2>5. ASSUME NEW i \in 1..Len(ingest.stack) - 1, slot[c] \in Units(ingest.stack[i])
        PROVE  Covered(c)'
    BY <1>1, <2>1, <2>5, CoveredThen
  <2> QED BY <1>6, <2>1, <2>4, <2>5 DEF Covered
<1>9. CASE RefusedAs(<<>>, reported \cup Abandoned(rest), "upsert")
  <2>1. ingest'.pc = "upsert" /\ ingest'.capped = reported \cup Abandoned(rest)
    BY <1>9 DEF RefusedAs
  <2>2. ASSUME NEW i \in 1..Len(ingest.stack) - 1, slot[c] \in Units(ingest.stack[i])
        PROVE  slot[c] \in Abandoned(rest)
    <3>1. rest[i] = ingest.stack[i] /\ i \in DOMAIN rest
      BY <1>4, <2>2
    <3>2. rest[i] \in ToSet(rest)
      BY <3>1 DEF ToSet
    <3> QED BY <2>2, <3>1, <3>2 DEF Abandoned
  <2>3. slot[c] \in Units(Top) => slot[c] \in reported
    BY DEF reported
  <2> QED BY <1>2, <1>6, <2>1, <2>2, <2>3 DEF Covered
<1>10. CASE RefusedAs(rest, reported, IF rest = <<>> THEN "upsert" ELSE "list")
  <2>1. /\ ingest'.stack = rest /\ ingest'.page = 1 /\ ingest'.capped = reported
        /\ ingest'.pc = IF rest = <<>> THEN "upsert" ELSE "list"
    BY <1>10 DEF RefusedAs
  <2>2. CASE slot[c] \in Units(Top)
    <3>1. slot[c] \in ingest'.capped
      BY <2>1, <2>2 DEF reported
    <3> QED BY <1>1, <1>2, <3>1, CoveredThen
  <2>3. ASSUME NEW i \in 1..Len(ingest.stack) - 1, slot[c] \in Units(ingest.stack[i])
        PROVE  Covered(c)' /\ rest # <<>>
    BY <1>1, <1>3, <2>1, <2>3, CoveredBelow DEF rest
  <2> QED BY <1>6, <2>1, <2>2, <2>3 DEF Covered
<1> QED BY <1>5, <1>7, <1>8, <1>9, <1>10

\* While the City keeps still, a list covers every case.
LEMMA CoverStep ==
    ASSUME TypeInv, CoverInv, [Next]_vars
    PROVE  CoverInv'
<1> SUFFICES ASSUME ingest'.quiet, ingest'.pc \in {"list", "upsert"}
             PROVE  /\ ingest'.pc = "list" => \A c \in Filed' : Covered(c)'
                    /\ ingest'.pc = "upsert" =>
                          \A c \in Filed' : ingest'.got[c] = version'[c] \/ slot'[c] \in ingest'.capped
  BY DEF CoverInv
<1> USE DEF TypeInv
<1>1. ingest \in Progress
  BY DEF JobInv
<1>2. CASE /\ UNCHANGED city
           /\ UNCHANGED <<ingest.pc, ingest.stack, ingest.page, ingest.got, ingest.capped, ingest.quiet>>
  <2>1. Filed' = Filed /\ version' = version /\ slot' = slot
    BY <1>2 DEF city, Filed
  <2>2. ASSUME NEW c \in Filed, Covered(c)
        PROVE  Covered(c)'
    <3>1. c \in Cases
      BY DEF Filed
    <3>2. Last(ingest'.stack) = Top
      BY <1>2 DEF Top
    <3> QED BY <1>2, <2>2, <3>1, <3>2, CoveredThen DEF Covered
  <2> QED BY <1>2, <2>1, <2>2 DEF CoverInv
<1>3. CASE \E c \in Cases : CityChanges(c)
  <2>1. ingest' = [ingest EXCEPT !.quiet = @ /\ ingest.pc \notin {"list", "upsert"}]
    BY <1>3 DEF CityChanges
  <2>2. ingest'.pc = ingest.pc /\ ingest'.quiet = (ingest.quiet /\ ingest.pc \notin {"list", "upsert"})
    BY <1>1, <2>1 DEF Progress
  <2> QED BY <2>2
<1>4. CASE IngestBegins
  <2>1. /\ UNCHANGED city /\ ingest'.stack = Windows /\ ingest'.page = 1 /\ ingest'.pc = "list"
    BY <1>4 DEF IngestBegins, Idle
  <2>2. ASSUME NEW c \in Cases
        PROVE  Covered(c)'
    <3>1. Last(ingest'.stack) = <<0, Span>> /\ ingest'.stack # <<>>
      BY <2>1 DEF Windows, Last
    <3>2. slot[c] \in Units(<<0, Span>>)
      BY MirrorAssumption DEF Units, CityInv
    <3>3. (ingest'.page - 1) * PageSize <= Place(Last(ingest'.stack), c)
      BY <2>1, FirstPage
    <3> QED BY <2>1, <3>1, <3>2, <3>3, CoveredThen
  <2>3. Filed' \subseteq Cases
    BY DEF Filed
  <2> QED BY <2>1, <2>2, <2>3
<1>5. ASSUME UNCHANGED city, ingest.quiet, ingest.pc = "list",
             \A c \in Filed : Covered(c) =>
                 /\ ingest'.pc = "list" => Covered(c)'
                 /\ ingest'.pc = "upsert" => ingest'.got[c] = version'[c] \/ slot'[c] \in ingest'.capped
      PROVE  /\ ingest'.pc = "list" => \A c \in Filed' : Covered(c)'
             /\ ingest'.pc = "upsert" =>
                   \A c \in Filed' : ingest'.got[c] = version'[c] \/ slot'[c] \in ingest'.capped
  <2>1. Filed' = Filed
    BY <1>5 DEF city, Filed
  <2> QED BY <1>5, <2>1 DEF CoverInv
<1>6. CASE ReadsPage
  <2>1. UNCHANGED city /\ ingest'.quiet = ingest.quiet /\ ingest.pc = "list"
    BY <1>6, PageRead DEF ReadsPage, Calls
  <2> QED BY <1>5, <1>6, <2>1, PageCovers
<1>7. CASE Refused
  <2>1. UNCHANGED city /\ ingest'.quiet = ingest.quiet /\ ingest.pc = "list"
    BY <1>7, RefusalMade DEF Refused, Calls
  <2> QED BY <1>5, <1>7, <2>1, RefusalCovers
<1>8. CASE Redeployed \/ CallFails \/ Bootstraps
  <2>1. Idle.pc = "idle"
    BY DEF Idle
  <2>2. UNCHANGED city
    BY <1>8 DEF Redeployed, CallFails, Bootstraps
  <2>3. UNCHANGED <<ingest.pc, ingest.stack, ingest.page, ingest.got, ingest.capped, ingest.quiet>>
    BY <1>1, <1>8, <2>1 DEF Redeployed, CallFails, Bootstraps, Progress
  <2> QED BY <1>2, <2>2, <2>3
<1>9. CASE Upserts \/ Selects \/ Enriches \/ DetailFails \/ Applies \/ Stages \/ IngestDies
  <2>1. Idle.pc = "idle" /\ [Idle EXCEPT !.pc = "select"].pc = "select"
    BY DEF Idle
  <2>2. ingest'.pc \notin {"list", "upsert"}
    BY <1>1, <1>9, <2>1 DEF Upserts, Selects, Enriches, DetailFails, Applies, Stages, IngestDies, Progress
  <2> QED BY <2>2
<1>10. CASE Downloads
  <2>1. Idle.pc = "idle"
    BY DEF Idle
  <2>2. ingest'.pc \notin {"list", "upsert"}
    BY <1>1, <1>10, <2>1 DEF Downloads
  <2> QED BY <2>2
<1>11. CASE UNCHANGED <<city, ingest>>
  BY <1>2, <1>11
<1>12. \/ UNCHANGED <<city, ingest>> \/ (\E c \in Cases : CityChanges(c)) \/ IngestBegins \/ ReadsPage \/ Refused
       \/ Redeployed \/ CallFails \/ Bootstraps \/ Upserts \/ Selects \/ Enriches \/ DetailFails \/ Applies
       \/ Stages \/ Downloads \/ IngestDies
  BY DEF Next, vars, Job, Begins, Goes, Accident, RefreshBegins, RefreshMine,
        RefreshOne, AskAbout, Asks, AskFails, RefreshUpserts, RefreshApplies, RefreshStages, RefreshDies
<1> QED BY <1>3, <1>4, <1>6, <1>7, <1>8, <1>9, <1>10, <1>11, <1>12

-----------------------------------------------------------------------------
(* The theorems                                                            *)

LEMMA Invariance == Spec => [](TypeInv /\ CoverInv)
<1>1. Init => TypeInv /\ CoverInv
  <2>1. Init => CoverInv
    BY DEF Init, CoverInv, Idle
  <2> QED BY <2>1, InitTypes
<1>2. TypeInv /\ CoverInv /\ [Next]_vars => (TypeInv /\ CoverInv)'
  BY TypesStep, CoverStep
<1> QED BY <1>1, <1>2, PTL DEF Spec

\* Every state of the mirror has its type: the City's list is in an order, what is stored is
\* never ahead of the City, a photo's row has a case with a detail, and the windows still
\* to be read are parts of the range.
THEOREM TypeCorrect == Spec => []TypeOK
<1>1. TypeInv => TypeOK
  <2> SUFFICES ASSUME TypeInv PROVE TypeOK
    OBVIOUS
  <2> USE DEF TypeInv
  <2>1. /\ Ordered /\ slot \in [Cases -> 1..Span] /\ changes \in 0..MaxChanges /\ odd \in 0..MaxOdd
        /\ version \in [Cases -> Nat]
    BY DEF CityInv
  <2>2. /\ blind \in [Cases -> BOOLEAN]
        /\ \A c \in Cases : listed[c] <= version[c] /\ detail[c] <= version[c]
        /\ \A c \in Cases : media[c] # None => c \in Pictured /\ detail[c] > 0
    BY DEF RowInv
  <2>3. \A c \in Cases : version[c] \in 0..MaxChanges + 1
    BY MirrorAssumption DEF CityInv
  <2>4. version \in [Cases -> 0..MaxChanges + 1]
    BY <2>1, <2>3
  <2>5. ASSUME NEW f \in [Cases -> Nat], \A c \in Cases : f[c] <= version[c]
        PROVE  f \in [Cases -> 0..MaxChanges + 1]
    BY <2>3, <2>5, MirrorAssumption
  <2>6. /\ listed \in [Cases -> 0..MaxChanges + 1] /\ detail \in [Cases -> 0..MaxChanges + 1]
        /\ stamp \in [Cases -> 0..MaxChanges + 1]
    BY <2>5 DEF RowInv
  <2>7. /\ ingest.pc \in {"idle", "list", "upsert", "select", "enrich", "apply", "stage", "media"}
        /\ ingest.capped \subseteq 1..Span /\ ingest.session \in {"none", "ok", "stale"}
    BY DEF JobInv, Progress
  <2>8. \A w \in ToSet(ingest.stack) : w[1] < w[2] /\ w[2] <= Span
    <3>1. ingest.stack \in Seq(Nat \X Nat)
      BY DEF JobInv, Progress
    <3>2. DOMAIN ingest.stack = 1..Len(ingest.stack)
      BY <3>1
    <3> QED BY <3>2 DEF ToSet, JobInv
  <2>9. \A a \in Askers : refresh[a].pc \in {"idle", "ask", "upsert", "apply", "stage"}
    BY DEF PassInv, Asking
  <2> QED BY <2>1, <2>2, <2>4, <2>6, <2>7, <2>8, <2>9 DEF TypeOK
<1> QED BY <1>1, Invariance, PTL

\* When an ingest stores what it listed while the City kept still, every case is stored as
\* the City has it or lies in a window that the run reports as incomplete: refusals split
\* windows and skip some, pages follow each other, the run gives up and reports the rest.
THEOREM NothingSkipped == Spec => NothingSkippedSilently
<1>1. ASSUME TypeInv, CoverInv, [Next]_vars, ingest.pc = "upsert", ingest'.pc = "select", ingest.quiet,
             NEW c \in Cases, version[c] > 0
      PROVE  listed'[c] = version[c] \/ slot[c] \in ingest.capped
  <2>1. ingest \in Progress
    BY <1>1 DEF TypeInv, JobInv
  <2>2. Upserts
    <3>1. CASE \E d \in Cases : CityChanges(d)
      <4>1. ingest'.pc = ingest.pc
        BY <2>1, <3>1 DEF CityChanges, Progress
      <4> QED BY <1>1, <4>1
    <3>2. CASE Redeployed
      <4>1. ingest'.pc = ingest.pc
        BY <2>1, <3>2 DEF Redeployed, Progress
      <4> QED BY <1>1, <4>1
    <3>3. CASE ingest' = Idle
      BY <1>1, <3>3 DEF Idle
    <3>4. \/ UNCHANGED ingest \/ ingest' = Idle \/ Upserts \/ (\E d \in Cases : CityChanges(d)) \/ Redeployed
      BY <1>1 DEF Next, vars, Job, Begins, Goes, Accident, RefreshBegins, RefreshMine, RefreshOne, AskAbout,
            Asks, AskFails, RefreshUpserts, RefreshApplies, RefreshStages, RefreshDies, IngestBegins,
            ReadsPage, Bootstraps, CallFails, Refused, Calls, Selects, Enriches, DetailFails, Applies, Stages,
            Downloads, IngestDies
    <3> QED BY <1>1, <3>1, <3>2, <3>3, <3>4
  <2>3. ingest' # Idle
    BY <1>1 DEF Idle
  <2>4. listed' = [d \in Cases |-> IF d \in {b \in Cases : ingest.got[b] > 0} THEN ingest.got[d] ELSE listed[d]]
    BY <2>2, <2>3 DEF Upserts
  <2>5. ingest.got[c] = version[c] \/ slot[c] \in ingest.capped
    BY <1>1 DEF CoverInv, Filed
  <2> QED BY <1>1, <2>4, <2>5
<1>2. TypeInv /\ CoverInv /\ [Next]_vars =>
        [ingest.pc = "upsert" /\ ingest'.pc = "select" /\ ingest.quiet =>
            \A c \in Cases : version[c] > 0 => listed'[c] = version[c] \/ slot[c] \in ingest.capped]_vars
  BY <1>1
<1> QED BY <1>2, Invariance, PTL DEF Spec, NothingSkippedSilently
=============================================================================
