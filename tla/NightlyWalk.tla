---------------------------- MODULE NightlyWalk ----------------------------
(***************************************************************************)
(* What the nightly walk of the City's wizard believes (walk.py): each     *)
(* night re-reads a slice of the request types, stores what it saw, and    *)
(* offers the registry that the believed walks describe. A walk that saw   *)
(* less than the believed one is set aside until a second walk agrees. How *)
(* the walk and the filings share the one browser is in SubmissionQueue,   *)
(* what becomes of the offer in RegistryStore.                             *)
(***************************************************************************)
EXTENDS Naturals, FiniteSets, Sequences

CONSTANTS
    Services,
    Jobs,       \* executions of the walk job
    Limit,      \* --limit, the size of a slice
    MaxErrors,  \* MAX_CONSECUTIVE_ERRORS
    MaxOdd,     \* bound of the model: the City's changes, misreadings and cut nights
    None

ASSUME WalkAssumption ==
    /\ IsFiniteSet(Services)
    /\ Limit \in Nat \ {0}
    /\ MaxErrors \in Nat \ {0}
    /\ MaxOdd \in Nat
    /\ None \notin Services \cup Jobs

VARIABLES
    city,       \* what an undisturbed walk of each request type would read
    latest,     \* the newest row of wizard_walks of each request type
    believed,   \* the walk the registry is built from: bundled_rules | believed_walks
    order,      \* the walked request types by their newest rows: pairs, the older first
    lock,       \* WALK_LOCK
    pc, todo, errors,   \* of each job: where it is, its targets left, failures in a row
    looked,             \* of each job: the request types its slice has walked
    inUse, last,        \* of each job: what walk_slice read before its first walk
    offered,    \* the rules of the last registry offered
    odd         \* how much has gone wrong or changed

stored == <<latest, believed, order>>
slice == <<pc, todo, errors, looked, inUse, last>>
vars == <<city, stored, lock, slice, offered, odd>>

\* A walk, to the extent belief looks at it: how many questions it met, whether
\* Continue was enabled at the end (unknown: it did not get there), its error.
Walk(n, continue, error) == [n |-> n, continue |-> continue, error |-> error]
Full == Walk(2, "yes", "none")
Stuck == Walk(2, "no", "none")
Empty == Walk(0, "no", "none")
ViewOnly == Walk(0, "unknown", "view-only")
Broken == Walk(0, "unknown", "timeout")
Walks == {Full, Stuck, Empty, ViewOnly, Broken}

\* ok: it ran to the end of the questions, or met a permanent answer.
Ok(w) == (w.error = "none" /\ w.continue # "unknown") \/ w.error = "view-only"

Degraded(prev, w) ==
    \/ prev.n > 0 /\ w.n = 0
    \/ prev.continue = "yes" /\ w.continue = "no"

Shape(w) == <<w.n, w.continue>>

Row(w, suspect) == [walk |-> w, ok |-> Ok(w), suspect |-> suspect]
Rows == {Row(w, FALSE) : w \in Walks} \cup {Row(w, TRUE) : w \in {v \in Walks : Ok(v)}}

\* latest has rows only, which are not None.
ASSUME RowsAssumption == None \notin Rows

Distinct(q) == \A i, j \in DOMAIN q : i # j => q[i] # q[j]

Older(s, t) == <<s, t>> \in order
Walked == {s \in Services : latest[s] # None}

Beliefs == [Services -> {w \in Walks : Ok(w)}]
NewestRows == [Services -> Rows \cup {None}]

TypeOK ==
    /\ city \in [Services -> Walks]
    /\ latest \in NewestRows
    /\ believed \in Beliefs
    /\ order \subseteq Walked \X Walked
    /\ \A s, t \in Walked : s # t => (Older(s, t) <=> ~Older(t, s))
    /\ \A s, t, u \in Walked : Older(s, t) /\ Older(t, u) => Older(s, u)
    /\ \A s \in Walked : ~Older(s, s)
    /\ lock \in Jobs \cup {None}
    /\ pc \in [Jobs -> {"idle", "slice", "offer"}]
    /\ todo \in [Jobs -> Seq(Services)]
    /\ \A j \in Jobs : Len(todo[j]) <= Limit
    /\ errors \in [Jobs -> 0..MaxErrors]
    /\ looked \in [Jobs -> SUBSET Services]
    /\ inUse \in [Jobs -> Beliefs \cup {None}]
    /\ last \in [Jobs -> NewestRows \cup {None}]
    /\ \A j \in Jobs : pc[j] = "slice" => inUse[j] \in Beliefs /\ last[j] \in NewestRows
    /\ offered \in [Services -> {w \in Walks : Ok(w)} \cup {None}]
    /\ odd \in 0..MaxOdd

Init ==
    /\ city = [s \in Services |-> Full]
    /\ believed = [s \in Services |-> Full]
    /\ latest = [s \in Services |-> None]
    /\ order = {}
    /\ lock = None
    /\ pc = [j \in Jobs |-> "idle"]
    /\ todo = [j \in Jobs |-> <<>>]
    /\ errors = [j \in Jobs |-> 0]
    /\ looked = [j \in Jobs |-> {}]
    /\ inUse = [j \in Jobs |-> None]
    /\ last = [j \in Jobs |-> None]
    /\ offered = [s \in Services |-> None]
    /\ odd = 0

Odd == odd < MaxOdd /\ odd' = odd + 1

\* The City changes a request type's questions, or breaks its page.
CityChanges(s) ==
    /\ \E w \in Walks \ {city[s]} : city' = [city EXCEPT ![s] = w]
    /\ Odd
    /\ UNCHANGED <<stored, lock, slice, offered>>

-----------------------------------------------------------------------------
(* Tonight's slice                                                         *)

\* Mutant of Rank: a request type whose page failed is tried first.
RankFailedFirst(s) ==
    IF latest[s] = None THEN 1 ELSE IF latest[s].suspect \/ ~latest[s].ok THEN 0 ELSE 2

Rank(s) == IF latest[s] = None THEN 1 ELSE IF latest[s].suspect THEN 0 ELSE 2

Before(s, t) == Rank(s) < Rank(t) \/ (Rank(s) = Rank(t) /\ Older(s, t))

\* The slices pick can choose: the first of the sorted list, a tie being left
\* to the order of the catalog.
Pick ==
    LET size == IF Cardinality(Services) < Limit THEN Cardinality(Services) ELSE Limit
    IN  {q \in [1..size -> Services] :
            /\ Distinct(q)
            /\ \A i, j \in 1..size : i < j => ~Before(q[j], q[i])
            /\ \A s \in Services, i \in 1..size :
                  (\A k \in 1..size : q[k] # s) => ~Before(s, q[i])}

\* --codes: the request types named on the command line, whatever their turn,
\* and as often as they are named.
Named == UNION {[1..n -> Services] : n \in 0..Limit}

\* Mutant of Run: the job does not ask for the lock.
RunUnlocked(j, q) ==
    /\ pc[j] = "idle"
    /\ lock' = j
    /\ pc' = [pc EXCEPT ![j] = IF q = <<>> THEN "offer" ELSE "slice"]
    /\ todo' = [todo EXCEPT ![j] = q]
    /\ errors' = [errors EXCEPT ![j] = 0]
    /\ looked' = [looked EXCEPT ![j] = {}]
    /\ inUse' = [inUse EXCEPT ![j] = believed]
    /\ last' = [last EXCEPT ![j] = latest]
    /\ UNCHANGED <<city, stored, offered>>

\* run takes the lock, and walk_slice reads what is believed and what was seen
\* last, once for the whole slice.
Run(j, q) ==
    /\ pc[j] = "idle" /\ lock = None
    /\ lock' = j
    /\ pc' = [pc EXCEPT ![j] = IF q = <<>> THEN "offer" ELSE "slice"]
    /\ todo' = [todo EXCEPT ![j] = q]
    /\ errors' = [errors EXCEPT ![j] = 0]
    /\ looked' = [looked EXCEPT ![j] = {}]
    /\ inUse' = [inUse EXCEPT ![j] = believed]
    /\ last' = [last EXCEPT ![j] = latest]
    /\ UNCHANGED <<city, stored, offered>>

Nightly(j) == (\E q \in Pick : Run(j, q)) /\ UNCHANGED odd

RunByHand(j) == (\E q \in Named : Run(j, q)) /\ Odd

\* Mutant of Suspect: a failed walk is set aside too.
SuspectAnyWalk(j, s, w) ==
    /\ Degraded(inUse[j][s], w)
    /\ ~(last[j][s] # None /\ last[j][s].suspect /\ Shape(last[j][s].walk) = Shape(w))

\* record: a walk that saw less than the one in use is suspect, unless the row
\* before it was suspect and lost the same things.
Suspect(j, s, w) ==
    /\ Ok(w) /\ Degraded(inUse[j][s], w)
    /\ ~(last[j][s] # None /\ last[j][s].suspect /\ Shape(last[j][s].walk) = Shape(w))

Record(j, s, w) ==
    /\ latest' = [latest EXCEPT ![s] = Row(w, Suspect(j, s, w))]
    /\ believed' = IF Ok(w) /\ ~Suspect(j, s, w) THEN [believed EXCEPT ![s] = w] ELSE believed
    /\ order' = {p \in order : s \notin {p[1], p[2]}} \cup (Walked \ {s}) \X {s}

\* One request type: the probe's answer is stored, and two failures in a row
\* end the night.
WalkOne(j, w) ==
    /\ pc[j] = "slice"
    /\ Record(j, Head(todo[j]), w)
    /\ LET failures == IF Ok(w) THEN 0 ELSE errors[j] + 1
           over == failures >= MaxErrors \/ Len(todo[j]) = 1
       IN  /\ errors' = [errors EXCEPT ![j] = failures]
           /\ looked' = [looked EXCEPT ![j] = @ \cup {Head(todo[j])}]
           /\ todo' = [todo EXCEPT ![j] = Tail(@)]
           /\ pc' = [pc EXCEPT ![j] = IF over THEN "offer" ELSE @]
    /\ UNCHANGED <<city, lock, inUse, last, offered>>

ReadsIt(j) ==
    /\ pc[j] = "slice"
    /\ WalkOne(j, city[Head(todo[j])])
    /\ UNCHANGED odd

\* A slow page shows less than there is, or nothing; a probe is cut at
\* PER_CATEGORY_SECONDS.
Misreads(j) ==
    /\ pc[j] = "slice"
    /\ \E w \in {Stuck, Empty, Broken} : WalkOne(j, w)
    /\ Odd

\* Out of time, or a filing held the floor.
StopShort(j) ==
    /\ pc[j] = "slice"
    /\ pc' = [pc EXCEPT ![j] = "offer"]
    /\ Odd
    /\ UNCHANGED <<city, stored, lock, todo, errors, looked, inUse, last, offered>>

\* The locals of the job are gone.
Ends(j) ==
    /\ lock' = None
    /\ pc' = [pc EXCEPT ![j] = "idle"]
    /\ todo' = [todo EXCEPT ![j] = <<>>]
    /\ errors' = [errors EXCEPT ![j] = 0]
    /\ looked' = [looked EXCEPT ![j] = {}]
    /\ inUse' = [inUse EXCEPT ![j] = None]
    /\ last' = [last EXCEPT ![j] = None]

\* candidate, and the end of run: what is offered is built from the walks
\* believed now, not from those read before the slice.
Propose(j) ==
    /\ pc[j] = "offer"
    /\ offered' = believed
    /\ Ends(j)
    /\ UNCHANGED <<city, stored, odd>>

\* The job is killed: its connection takes the lock with it.
JobDies(j) ==
    /\ pc[j] # "idle"
    /\ Ends(j)
    /\ Odd
    /\ UNCHANGED <<city, stored, offered>>

Next ==
    \/ \E s \in Services : CityChanges(s)
    \/ \E j \in Jobs :
          Nightly(j) \/ RunByHand(j) \/ ReadsIt(j) \/ Misreads(j) \/ StopShort(j)
          \/ Propose(j) \/ JobDies(j)

Spec == Init /\ [][Next]_vars

\* The schedule starts the job every night, the job walks on while it lives.
FairSpec ==
    /\ Spec
    /\ WF_vars(\E j \in Jobs : Nightly(j))
    /\ WF_vars(\E j \in Jobs : ReadsIt(j))
    /\ WF_vars(\E j \in Jobs : Propose(j))

-----------------------------------------------------------------------------
(* Properties                                                              *)

\* Named more than once with --codes, a request type comes round again in a
\* slice, and is judged by what was read before the slice's first look at it.
LooksAgain(s) == \E j \in Jobs : pc[j] = "slice" /\ Head(todo[j]) = s /\ s \in looked[j]

\* record, under the lock of run: a walk that lost questions or Continue
\* against the believed one becomes the believed one only when the newest row
\* of its request type, as it is then, was set aside for the same loss. Two
\* jobs at once would count one slow page twice. So does a slice that names a
\* request type twice, which pick does for --codes only: a good look and then a
\* slow page, after a row set aside the night before, is taken for a loss.
LossSeenTwice ==
    [][\A s \in Services :
          believed'[s] # believed[s] /\ Degraded(believed[s], believed'[s]) =>
             \/ LooksAgain(s)
             \/ /\ latest[s] # None /\ latest[s].suspect
                /\ Shape(latest[s].walk) = Shape(believed'[s])]_vars

\* pick, record and candidate: once the City's form stays as it is and nothing
\* more goes wrong, every request type whose page can be read is believed and
\* offered as it is, with a slice smaller than the catalog, a second look where
\* one is due, and pages that never load and end the night early.
BeliefCatchesUp ==
    <>[](\A s \in Services : Ok(city[s]) => believed[s] = city[s] /\ offered[s] = city[s])
=============================================================================
