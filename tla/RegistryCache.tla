--------------------------- MODULE RegistryCache ---------------------------
(***************************************************************************)
(* The registry as one web instance serves it (dashboard/registry.py): a   *)
(* copy kept for TTL_SECONDS and filled under a lock, the handlers that    *)
(* read it several times for one answer (submit.py), the copies clients    *)
(* keep by ETag, and adoptions made here or on another instance. Each      *)
(* request runs in a thread of its own. Instances share only the version   *)
(* in use, so one is enough.                                               *)
(***************************************************************************)
EXTENDS Naturals

CONSTANTS
    Apps,       \* clients, each with one request at a time
    Adopters,   \* threads that run an administrator's adoption here
    Editions,   \* the versions of the registry
    InImage,    \* the version of the file in the image
    Ttl,        \* TTL_SECONDS, in ticks of the clock
    MaxWait,    \* bound of the model: ticks a call waits for the lock and the database
    Nothing

ASSUME CacheAssumption ==
    /\ InImage \in Editions
    /\ Nothing \notin Editions \cup Apps \cup Adopters
    /\ Apps \cap Adopters = {}
    /\ Ttl \in Nat \ {0}
    /\ MaxWait \in Nat

VARIABLES
    active,     \* the version adopted last, as the database has it
    gone,       \* ticks since each version was last in use
    held, age, blind,   \* the copy; ticks since its `at`; was its last fill without the database
    lock,
    doing,      \* what a thread's handler is about to ask of the cache
    step, late, got,    \* inside _current: the step, ticks since it read the clock, the answer
    order, first,       \* which of body and tag the handler reads first, and that value
    copy,       \* what a client keeps: the body and the tag it came under
    recent,     \* versions in use since the last adoption that was finished here
    mine        \* versions in use since an adoption under way here was committed

database == <<active, gone>>
cache == <<held, age, blind, lock>>
call == <<step, late, got>>
handler == <<doing, order, first, copy>>
ghosts == <<recent, mine>>
cacheVars == <<database, cache, call, handler, ghosts>>

Threads == Apps \cup Adopters
InUse == IF active = Nothing THEN InImage ELSE active
MaxAge == Ttl + MaxWait
Asking == {"check", "body", "tag", "report"}
InCall == {"waiting", "looking", "fetching", "filling"}

CacheTypeOK ==
    /\ active \in Editions \cup {Nothing}
    /\ gone \in [Editions -> 0..MaxAge]
    /\ held \in Editions \cup {Nothing}
    /\ age \in 0..MaxAge
    /\ blind \in BOOLEAN
    /\ lock \in Threads \cup {Nothing}
    /\ doing \in [Threads -> Asking \cup {"idle", "refresh"}]
    /\ step \in [Threads -> InCall \cup {"ready"}]
    /\ late \in [Threads -> 0..MaxWait]
    /\ got \in [Threads -> Editions \cup {Nothing}]
    /\ \A t \in Threads : step[t] = "filling" => got[t] \in Editions
    /\ order \in [Threads -> {"body", "tag"}]
    /\ first \in [Threads -> Editions \cup {Nothing}]
    /\ copy \in [Apps -> [body : Editions \cup {Nothing}, tag : Editions \cup {Nothing}]]
    /\ recent \subseteq Editions
    /\ mine \in [Adopters -> SUBSET Editions]

CacheInit ==
    /\ active = Nothing
    /\ gone = [v \in Editions |-> IF v = InImage THEN 0 ELSE MaxAge]
    /\ held = Nothing
    /\ age = 0
    /\ blind = FALSE
    /\ lock = Nothing
    /\ doing = [t \in Threads |-> "idle"]
    /\ step = [t \in Threads |-> "ready"]
    /\ late = [t \in Threads |-> 0]
    /\ got = [t \in Threads |-> Nothing]
    /\ order = [t \in Threads |-> "body"]
    /\ first = [t \in Threads |-> Nothing]
    /\ copy = [t \in Apps |-> [body |-> Nothing, tag |-> Nothing]]
    /\ recent = {InImage}
    /\ mine = [t \in Adopters |-> {}]

\* time.monotonic, and the time a version has been out of use.
Tick ==
    /\ \A t \in Threads : step[t] \in InCall => late[t] < MaxWait
    /\ age' = IF held # Nothing /\ age < MaxAge THEN age + 1 ELSE age
    /\ late' = [t \in Threads |-> IF step[t] \in InCall THEN late[t] + 1 ELSE late[t]]
    /\ gone' = [v \in Editions |->
                  IF v = InUse THEN 0 ELSE IF gone[v] < MaxAge THEN gone[v] + 1 ELSE MaxAge]
    /\ UNCHANGED <<active, held, blind, lock, step, got, handler, ghosts>>

-----------------------------------------------------------------------------
(* The handlers                                                            *)

\* GET of the index, a service, the whole registry or its version. The index
\* and a service read the registry first and its version for the headers after
\* it; the whole registry is the other way around.
Ask(t) ==
    /\ doing[t] = "idle"
    /\ doing' = [doing EXCEPT ![t] = "check"]
    /\ \E o \in {"body", "tag"} : order' = [order EXCEPT ![t] = o]
    /\ UNCHANGED <<database, cache, call, first, copy, ghosts>>

\* _current has answered v and the handler goes on: 304, the first of body and
\* tag, 200 with both, or an adoption's answer.
Goes(t, v) ==
    \/ /\ doing[t] = "check" /\ copy[t].tag = v
       /\ doing' = [doing EXCEPT ![t] = "idle"]
       /\ UNCHANGED <<order, first, copy>>
    \/ /\ doing[t] = "check" /\ copy[t].tag # v
       /\ doing' = [doing EXCEPT ![t] = order[t]]
       /\ UNCHANGED <<order, first, copy>>
    \/ /\ doing[t] = order[t]
       /\ doing' = [doing EXCEPT ![t] = IF @ = "body" THEN "tag" ELSE "body"]
       /\ first' = [first EXCEPT ![t] = v]
       /\ UNCHANGED <<order, copy>>
    \/ /\ doing[t] \in {"body", "tag"} \ {order[t]}
       /\ doing' = [doing EXCEPT ![t] = "idle"]
       /\ copy' = [copy EXCEPT ![t] = IF order[t] = "body" THEN [body |-> first[t], tag |-> v]
                                                           ELSE [body |-> v, tag |-> first[t]]]
       /\ first' = [first EXCEPT ![t] = Nothing]
       /\ UNCHANGED order
    \/ /\ doing[t] = "report"
       /\ doing' = [doing EXCEPT ![t] = "idle"]
       /\ UNCHANGED <<order, first, copy>>

\* v is active from now on, or nothing is and the file in the image is in use.
Becomes(v) ==
    /\ active' = v
    /\ gone' = [gone EXCEPT ![InUse'] = 0]
    /\ recent' = recent \cup {InUse'}

\* registry_adopt: registry_store.adopt has committed.
Adopt(t, v) ==
    /\ doing[t] = "idle"
    /\ Becomes(v)
    /\ mine' = [s \in Adopters |-> IF s = t THEN {v}
                                 ELSE IF doing[s] = "refresh" THEN mine[s] \cup {v} ELSE {}]
    /\ doing' = [doing EXCEPT ![t] = "refresh"]
    /\ UNCHANGED <<cache, call, order, first, copy>>

\* An adoption through another instance, a retirement by the walk, or an offer
\* by the walk that takes back the version that was adopted in the meantime.
ChangeElsewhere(v) ==
    /\ v # active
    /\ Becomes(v)
    /\ mine' = [s \in Adopters |-> IF doing[s] = "refresh" THEN mine[s] \cup {InUse'} ELSE {}]
    /\ UNCHANGED <<cache, call, handler>>

\* Mutant of Refresh: what is held is forgotten without taking the lock.
RefreshUnlocked(t) ==
    /\ doing[t] = "refresh"
    /\ held' = Nothing
    /\ age' = 0
    /\ doing' = [doing EXCEPT ![t] = "report"]
    /\ recent' = recent \cap mine[t]
    /\ mine' = [mine EXCEPT ![t] = {}]
    /\ UNCHANGED <<database, blind, lock, call, order, first, copy>>

\* "This instance now; the others within a minute."
Refresh(t) ==
    /\ doing[t] = "refresh"
    /\ lock = Nothing
    /\ held' = Nothing
    /\ age' = 0
    /\ doing' = [doing EXCEPT ![t] = "report"]
    /\ recent' = recent \cap mine[t]
    /\ mine' = [mine EXCEPT ![t] = {}]
    /\ UNCHANGED <<database, blind, lock, call, order, first, copy>>

-----------------------------------------------------------------------------
(* _current                                                                *)

\* Is the copy young enough, by the clock the call read?
Fresh(t) == held # Nothing /\ age < Ttl + late[t]

\* The copy, without the lock.
Hit(t) ==
    /\ doing[t] \in Asking /\ step[t] = "ready"
    /\ Fresh(t)
    /\ Goes(t, held)
    /\ UNCHANGED <<database, cache, call, ghosts>>

Miss(t) ==
    /\ doing[t] \in Asking /\ step[t] = "ready"
    /\ ~Fresh(t)
    /\ step' = [step EXCEPT ![t] = "waiting"]
    /\ UNCHANGED <<database, cache, late, got, handler, ghosts>>

Done(t) ==
    /\ step' = [step EXCEPT ![t] = "ready"]
    /\ late' = [late EXCEPT ![t] = 0]
    /\ got' = [got EXCEPT ![t] = Nothing]

\* Under the lock, look again: somebody else may have filled it.
Enter(t) ==
    /\ step[t] = "waiting"
    /\ lock = Nothing
    /\ \/ /\ Fresh(t)
          /\ Goes(t, held)
          /\ Done(t)
          /\ UNCHANGED lock
       \/ /\ ~Fresh(t)
          /\ lock' = t
          /\ step' = [step EXCEPT ![t] = "looking"]
          /\ UNCHANGED <<late, got, handler>>
    /\ UNCHANGED <<database, held, age, blind, ghosts>>

\* Mutant of Look: with nothing adopted there is nothing to serve.
LookUnbundled(t) ==
    /\ step[t] = "looking"
    /\ step' = [step EXCEPT ![t] = IF active \in {Nothing, held} THEN "filling" ELSE "fetching"]
    /\ got' = [got EXCEPT ![t] = active]
    /\ UNCHANGED <<database, cache, late, handler, ghosts>>

\* The provider asks for the version alone: the one already held, or none, is
\* all it has to know.
Look(t) ==
    /\ step[t] = "looking"
    /\ step' = [step EXCEPT ![t] = IF active \in {Nothing, held} THEN "filling" ELSE "fetching"]
    /\ got' = [got EXCEPT ![t] = IF active \in {Nothing, held} THEN InUse ELSE Nothing]
    /\ UNCHANGED <<database, cache, late, handler, ghosts>>

\* The whole registry, in a statement of its own.
Fetch(t) ==
    /\ step[t] = "fetching"
    /\ step' = [step EXCEPT ![t] = "filling"]
    /\ got' = [got EXCEPT ![t] = InUse]
    /\ UNCHANGED <<database, cache, late, handler, ghosts>>

Fill(t, v) ==
    /\ held' = v
    /\ lock' = Nothing
    /\ Goes(t, v)
    /\ Done(t)
    /\ UNCHANGED <<database, ghosts>>

\* Mutant of Filled: the copy is dated when it is stored.
FilledAndDatedNow(t) ==
    /\ step[t] = "filling"
    /\ Fill(t, got[t])
    /\ age' = 0
    /\ blind' = FALSE

Filled(t) ==
    /\ step[t] = "filling"
    /\ Fill(t, got[t])
    /\ age' = late[t]
    /\ blind' = FALSE

\* "Keep serving what we have; failing that, the file in the image."
Fails(t) ==
    /\ step[t] \in {"looking", "fetching"}
    /\ Fill(t, IF held = Nothing THEN InImage ELSE held)
    /\ age' = late[t]
    /\ blind' = TRUE

-----------------------------------------------------------------------------
CurrentStep(t) == Hit(t) \/ Miss(t) \/ Enter(t) \/ Look(t) \/ Fetch(t) \/ Filled(t) \/ Fails(t)

CacheNext ==
    \/ Tick
    \/ \E t \in Apps : Ask(t)
    \/ \E t \in Adopters, v \in Editions : Adopt(t, v)
    \/ \E v \in Editions \cup {Nothing} : ChangeElsewhere(v)
    \/ \E t \in Adopters : Refresh(t)
    \/ \E t \in Threads : CurrentStep(t)

CacheSpec == CacheInit /\ [][CacheNext]_cacheVars

-----------------------------------------------------------------------------
(* Properties                                                              *)

\* Once an adoption made on this instance has been followed by refresh(), the
\* instance never again holds a version that was out of use before it, not even
\* by a fill that was reading the database at the time.
FollowsAtOnce ==
    held # Nothing /\ ~blind => held \in recent

\* "The others within a minute": what is held was in use at its date or later,
\* so what is served is at most TTL_SECONDS out of date while the database can
\* be read (_current, _held["at"]).
StaleIsBounded ==
    held # Nothing /\ ~blind => gone[held] <= age

=============================================================================
