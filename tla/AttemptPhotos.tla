--------------------------- MODULE AttemptPhotos ---------------------------
(***************************************************************************)
(* The photos on one request: added and taken away by the person preparing *)
(* it (dashboard/submit.py, photos.py), read and attached by the filing    *)
(* worker (submit_worker.py, submit_browser.py), purged once the City has  *)
(* the request and swept after KEEP_DAYS. Every statement but the sweep is *)
(* keyed on one attempt, so one request is enough; how it moves through    *)
(* the queue is SubmissionQueue's, and only its states are kept here.      *)
(***************************************************************************)
EXTENDS Naturals, FiniteSets

CONSTANTS
    Clients,    \* requests to the photo endpoints that can be under way at once
    Names,      \* the file names phones give
    MaxPhotos,  \* photos.MAX_PHOTOS
    KeepDays,   \* photos.KEEP_DAYS
    MaxIds,     \* bound of the model: photo ids handed out
    None

ASSUME PhotosAssumption ==
    /\ MaxPhotos \in Nat \ {0}
    /\ KeepDays \in Nat
    /\ MaxIds \in Nat
    /\ IsFiniteSet(Clients) /\ Clients # {}
    /\ None \notin Names
    /\ Names \cap Nat = {}

VARIABLES
    state,      \* submission_attempts.submit_state
    photo,      \* what is left of each photo id
    name, age,  \* file_name; days since created_at, one more than KeepDays is enough
    next,       \* the id sequence
    client,     \* where each call to an endpoint is
    seen,       \* the count an upload read
    worker,     \* where the filing worker is
    carried,    \* what for_filing read
    city, note  \* the photos the City took with the filing; photo_note's count

vars == <<state, photo, name, age, next, client, seen, worker, carried, city, note>>

Ids == 1..MaxIds
OpenStates == {"prepared", "queued"}
States == OpenStates \cup {"approved", "filing", "filed", "failed"}
Kept == {i \in Ids : photo[i] = "kept"}
Counted == {c \in Clients : client[c] = "counted"}

\* safe_name: the phone's name, or photo-<index> when it gave none.
FileNames == Names \cup 1..MaxPhotos

TypeOK ==
    /\ state \in States
    /\ photo \in [Ids -> {"unused", "kept", "purged", "removed"}]
    /\ name \in [Ids -> FileNames \cup {None}]
    /\ age \in [Ids -> 0..KeepDays + 1]
    /\ next \in 1..MaxIds + 1
    /\ client \in [Clients -> {"idle", "adding", "counted", "removing"}]
    /\ seen \in [Clients -> 0..MaxPhotos - 1]
    /\ worker \in {"off", "loop", "claimed", "carrying", "submitted", "purging"}
    /\ carried \subseteq Ids
    /\ city \subseteq Ids
    /\ note \in 0..MaxIds

Init ==
    /\ state = "prepared"
    /\ photo = [i \in Ids |-> "unused"]
    /\ name = [i \in Ids |-> None]
    /\ age = [i \in Ids |-> 0]
    /\ next = 1
    /\ client = [c \in Clients |-> "idle"]
    /\ seen = [c \in Clients |-> 0]
    /\ worker = "off"
    /\ carried = {}
    /\ city = {}
    /\ note = 0

queue == <<worker, carried, city, note>>
table == <<photo, name, age, next>>
-----------------------------------------------------------------------------
(* The endpoints                                                           *)

\* photos_add and photos_remove read the row and check that it is still open.
Look(c, to) ==
    /\ client[c] = "idle"
    /\ state \in OpenStates
    /\ client' = [client EXCEPT ![c] = to]
    /\ UNCHANGED <<state, table, seen, queue>>

\* Mutant of Counts: the limit is checked after counting the new photo in.
CountsTooFar(c) ==
    /\ client[c] = "adding"
    /\ Cardinality(Kept) <= MaxPhotos
    /\ client' = [client EXCEPT ![c] = "counted"]
    /\ seen' = [seen EXCEPT ![c] = Cardinality(Kept)]
    /\ UNCHANGED <<state, table, queue>>

\* photos.add counts what is kept; the photo is then re-encoded.
Counts(c) ==
    /\ client[c] = "adding"
    /\ Cardinality(Kept) < MaxPhotos
    /\ client' = [client EXCEPT ![c] = "counted"]
    /\ seen' = [seen EXCEPT ![c] = Cardinality(Kept)]
    /\ UNCHANGED <<state, table, queue>>

Keeps(c) ==
    /\ client[c] = "counted"
    /\ next \in Ids
    /\ \E n \in Names \cup {seen[c] + 1} : name' = [name EXCEPT ![next] = n]
    /\ photo' = [photo EXCEPT ![next] = "kept"]
    /\ next' = next + 1
    /\ client' = [client EXCEPT ![c] = "idle"]
    /\ UNCHANGED <<state, age, seen, queue>>

\* Not a photo, too many photos, or a call that went away.
Refused(c) ==
    /\ client[c] \in {"adding", "counted"}
    /\ client' = [client EXCEPT ![c] = "idle"]
    /\ UNCHANGED <<state, table, seen, queue>>

Removes(c) ==
    /\ client[c] = "removing"
    /\ client' = [client EXCEPT ![c] = "idle"]
    /\ \E i \in Ids :
          photo' = IF photo[i] = "unused" THEN photo ELSE [photo EXCEPT ![i] = "removed"]
    /\ UNCHANGED <<state, name, age, next, seen, queue>>

-----------------------------------------------------------------------------
(* The request, as far as photos follow it                                 *)

Become(from, to) ==
    /\ state = from
    /\ state' = to
    /\ UNCHANGED <<table, client, seen, queue>>

Queue == Become("prepared", "queued")
Approve == Become("queued", "approved")
Retry == Become("failed", "approved")

Old == {i \in Kept : age[i] > KeepDays}

NewDay ==
    /\ age' = [i \in Ids |-> IF i \in Kept /\ age[i] <= KeepDays THEN age[i] + 1 ELSE age[i]]
    /\ age' # age
    /\ UNCHANGED <<state, photo, name, next, client, seen, queue>>

Purge(S) == photo' = [i \in Ids |-> IF i \in S THEN "purged" ELSE photo[i]]

\* Mutant of StartAndSweep: only requests still open are swept.
SweepUnsent ==
    /\ worker = "off"
    /\ worker' = "loop"
    /\ Purge(IF state \in OpenStates THEN Old ELSE {})
    /\ UNCHANGED <<state, name, age, next, client, seen, carried, city, note>>

\* An execution takes the floor and sweeps; the sweep looks at the photo alone.
StartAndSweep ==
    /\ worker = "off"
    /\ worker' = "loop"
    /\ Purge(Old)
    /\ UNCHANGED <<state, name, age, next, client, seen, carried, city, note>>

\* "Housekeeping never blocks a filing."
SweepFails ==
    /\ worker = "off"
    /\ worker' = "loop"
    /\ UNCHANGED <<state, table, client, seen, carried, city, note>>

Claim ==
    /\ worker = "loop"
    /\ state = "approved"
    /\ worker' = "claimed"
    /\ state' = "filing"
    /\ UNCHANGED <<table, client, seen, carried, city, note>>

ForFiling ==
    /\ worker = "claimed"
    /\ worker' = "carrying"
    /\ carried' = Kept
    /\ UNCHANGED <<state, table, client, seen, city, note>>

\* The browser writes each photo to a file of its name, so the last of a name
\* is the one the City's form is given.
OnDisk == {i \in carried : \A j \in carried : name[j] = name[i] => j <= i}

\* The City's form takes some of them, the note counts the names it lists, and
\* Submit is pressed.
Submits ==
    /\ worker = "carrying"
    /\ worker' = "submitted"
    /\ city' \in SUBSET OnDisk
    /\ note' = Cardinality({i \in carried : \E j \in city' : name[j] = name[i]})
    /\ UNCHANGED <<state, table, client, seen, carried>>

FinishFiled ==
    /\ worker = "submitted"
    /\ worker' = "purging"
    /\ state' = "filed"
    /\ UNCHANGED <<table, client, seen, carried, city, note>>

\* Mutant of Releases: the photos go with any end of the claim.
ReleasesAndPurges ==
    /\ worker \in {"claimed", "carrying", "submitted"}
    /\ worker' = "loop"
    /\ state' \in {"approved", "failed"}
    /\ carried' = {} /\ city' = {} /\ note' = 0
    /\ Purge(Kept)
    /\ UNCHANGED <<name, age, next, client, seen>>

\* A run that did not file: another try, or failed.
Releases ==
    /\ worker \in {"claimed", "carrying", "submitted"}
    /\ worker' = "loop"
    /\ state' \in {"approved", "failed"}
    /\ carried' = {} /\ city' = {} /\ note' = 0
    /\ UNCHANGED <<table, client, seen>>

\* finish's second transaction.
PurgeFiled ==
    /\ worker = "purging"
    /\ worker' = "loop"
    /\ Purge(Kept)
    /\ UNCHANGED <<state, name, age, next, client, seen, carried, city, note>>

\* The queue is empty or --max is reached.
Leaves ==
    /\ worker = "loop"
    /\ worker' = "off"
    /\ carried' = {}
    /\ UNCHANGED <<state, table, client, seen, city, note>>

\* The execution dies; a claimed row stays in `filing`.
WorkerDies ==
    /\ worker \notin {"off", "loop"}
    /\ worker' = "off"
    /\ carried' = {}
    /\ UNCHANGED <<state, table, client, seen, city, note>>

-----------------------------------------------------------------------------
ClientStep(c) ==
    \/ Look(c, "adding") \/ Look(c, "removing")
    \/ Counts(c) \/ Keeps(c) \/ Refused(c) \/ Removes(c)

RequestStep == Queue \/ Approve \/ Retry

Filing == Claim \/ ForFiling \/ Submits \/ FinishFiled \/ Releases \/ PurgeFiled

Next ==
    \/ \E c \in Clients : ClientStep(c)
    \/ RequestStep
    \/ NewDay
    \/ StartAndSweep \/ SweepFails \/ Filing \/ Leaves \/ WorkerDies

Spec == Init /\ [][Next]_vars

\* Days pass; the schedule starts executions and not every sweep fails; a claim
\* is brought to an end or its execution dies; --max ends every drain.
Fairness ==
    /\ WF_vars(NewDay)
    /\ SF_vars(StartAndSweep)
    /\ WF_vars(Filing \/ WorkerDies)
    /\ SF_vars(Leaves)

FairSpec == Spec /\ Fairness
-----------------------------------------------------------------------------
(* Properties                                                              *)

\* Uploads count before they insert and nothing locks the row in between, so
\* calls under way together can go over the limit, but only by those calls:
\* photos.add's check of MAX_PHOTOS.
KeptIsBounded ==
    Cardinality(Kept) <= MaxPhotos + Cardinality(Clients) - 1

\* The only copy of a photo is destroyed by the site only when the City has the
\* request or the photo is older than KEEP_DAYS, whatever finish, purge, the
\* sweep and late uploads do between each other.
PurgedOnlyWhenDone ==
    [][\A i \in Ids : photo[i] = "kept" /\ photo'[i] = "purged" =>
          state = "filed" \/ age[i] > KeepDays]_vars

\* "Held briefly, then gone": every photo goes, one kept after the purge of a
\* filed request or on a row stuck in `filing` too.
PhotosGo ==
    \A i \in Ids : photo[i] = "kept" ~> photo[i] # "kept"

=============================================================================
