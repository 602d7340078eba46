-------------------------- MODULE SubmissionQueue --------------------------
(***************************************************************************)
(* The submission queue: the rows of submission_attempts from the moment   *)
(* they are prepared, the web handlers that release them (dashboard/       *)
(* submit.py), the executions of the filing job that drain them            *)
(* (submit_worker.py), the browser run each claim turns into               *)
(* (submit_browser.py), the nightly walk that shares the floor (walk.py)   *)
(* and the kick and the schedule that start the job (job_runner.py).       *)
(*                                                                         *)
(* One action is one transaction, or one step outside the database: the    *)
(* code commits after every statement group, so another process can run    *)
(* between any two actions.                                                *)
(***************************************************************************)
EXTENDS Naturals, FiniteSets

CONSTANTS
    Requests,    \* attempt ids
    Presses,     \* one call of POST /api/queue each, with its own contact
    Workers,     \* executions of the filing job that can be alive at once
    Walk,        \* the nightly walk, as a holder of the locks
    None,
    Blocked,     \* requests the anti-abuse policy answered `block`
    MaxTries,    \* submit_worker.MAX_TRIES
    MaxPerRun,   \* --max of one execution
    MaxSends,    \* bound of the model: no retry once this many sends were made
    Modes,       \* subset of BOOLEAN: may an execution be live, a rehearsal
    Crashes,     \* may a process die, or a kick fail
    LateFaults,  \* may the browser fail after Submit was clicked
    Misreads,    \* may another resident's new number appear on the page
    Schedule     \* is the safety-net schedule installed

ASSUME BoundsAssumption ==
    /\ MaxTries \in Nat \ {0}
    /\ MaxPerRun \in Nat \ {0}
    /\ MaxSends \in Nat

ASSUME NamesAssumption ==
    /\ None \notin Requests \cup Presses \cup Workers \cup {Walk}
    /\ Walk \notin Workers
    /\ Blocked \subseteq Requests

ASSUME SwitchesAssumption ==
    /\ Modes \subseteq BOOLEAN
    /\ Crashes \in BOOLEAN /\ LateFaults \in BOOLEAN
    /\ Misreads \in BOOLEAN /\ Schedule \in BOOLEAN

VARIABLES
    \* columns of submission_attempts
    submit_state, tries, contact, case, relayed, approved_at,
    now,            \* the database clock, counted in sends
    linked,         \* requests in request_links as `mine`
    \* advisory locks and the web service
    floor, walk_lock, press, target, kicks,
    \* executions of the job
    pc, job, live, left, rechecked, read,
    walk, walk_kicked,
    \* what happened outside: City records made, and sends asked for by people
    records, sends

rows == <<submit_state, tries, contact, case, relayed, approved_at, now, linked>>
web == <<press, target>>
locals == <<job, live, left, rechecked, read>>
walker == <<walk, walk_kicked>>
ghosts == <<records, sends>>
vars == <<rows, floor, walk_lock, web, kicks, pc, locals, walker, ghosts>>

States == {"prepared", "queued", "approved", "filing", "filed", "failed"}
Numbers == {"none", "ours", "foreign"}
PressPcs == {"idle", "read", "queued", "sent", "refused"}
WalkPcs == {"off", "between", "clear", "walking"}

\* An execution holding the floor, and among those one with a claimed row.
Driving == {"claimed", "clicked"}
Owning == Driving \cup {"submitted", "releasing"}
Settling == {"linking", "parking", "uncounting"}
Holding == Owning \cup Settling \cup {"loop", "leaving"}
WorkerPcs == Holding \cup {"off", "arrived", "waiting", "probing", "lasttry", "asleep"}

TypeOK ==
    /\ submit_state \in [Requests -> States]
    /\ tries \in [Requests -> 0..MaxTries]
    /\ contact \in [Requests -> Presses \cup {None}]
    /\ case \in [Requests -> Numbers]
    /\ relayed \subseteq Requests
    /\ approved_at \in [Requests -> Nat]
    /\ now \in Nat
    /\ linked \subseteq Requests
    /\ floor \in Workers \cup {Walk, None}
    /\ walk_lock \in Workers \cup {Walk, None}
    /\ press \in [Presses -> PressPcs]
    /\ target \in [Presses -> Requests \cup {None}]
    /\ kicks \in Nat
    /\ pc \in [Workers -> WorkerPcs]
    /\ job \in [Workers -> Requests \cup {None}]
    /\ live \in [Workers -> BOOLEAN]
    /\ left \in [Workers -> 0..MaxPerRun]
    /\ rechecked \in [Workers -> BOOLEAN]
    /\ read \in [Workers -> Numbers]
    /\ walk \in WalkPcs
    /\ walk_kicked \in BOOLEAN
    /\ records \in [Requests -> Nat]
    /\ sends \in [Requests -> Nat]

Init ==
    /\ submit_state = [r \in Requests |-> "prepared"]
    /\ tries = [r \in Requests |-> 0]
    /\ contact = [r \in Requests |-> None]
    /\ case = [r \in Requests |-> "none"]
    /\ relayed = {}
    /\ approved_at = [r \in Requests |-> 0]
    /\ now = 0
    /\ linked = {}
    /\ floor = None
    /\ walk_lock = None
    /\ press = [p \in Presses |-> "idle"]
    /\ target = [p \in Presses |-> None]
    /\ kicks = 0
    /\ pc = [w \in Workers |-> "off"]
    /\ job = [w \in Workers |-> None]
    /\ live = [w \in Workers |-> FALSE]
    /\ left = [w \in Workers |-> 0]
    /\ rechecked = [w \in Workers |-> FALSE]
    /\ read = [w \in Workers |-> "none"]
    /\ walk = "off"
    /\ walk_kicked = FALSE
    /\ records = [r \in Requests |-> 0]
    /\ sends = [r \in Requests |-> 0]

-----------------------------------------------------------------------------
(* The web service                                                         *)

SetState(r, s) == submit_state' = [submit_state EXCEPT ![r] = s]

\* `approved_at = now()`, and one more time a person asked for a filing.
Approve(r) ==
    /\ SetState(r, "approved")
    /\ now' = now + 1
    /\ approved_at' = [approved_at EXCEPT ![r] = now + 1]
    /\ sends' = [sends EXCEPT ![r] = @ + 1]
    /\ kicks' = kicks + 1

\* The handler reads the row and checks it. A 409 leaves no trace.
PressRead(p, r) ==
    /\ press[p] = "idle"
    /\ submit_state[r] \in {"prepared", "queued"}
    /\ r \notin Blocked
    /\ press' = [press EXCEPT ![p] = "read"]
    /\ target' = [target EXCEPT ![p] = r]
    /\ UNCHANGED <<rows, floor, walk_lock, kicks, pc, locals, walker, ghosts>>

\* Mutant of PressQueue: the update's `submit_state IN (...)` is forgotten.
PressQueueUnchecked(p) ==
    /\ press[p] = "read"
    /\ press' = [press EXCEPT ![p] = "queued"]
    /\ SetState(target[p], "queued")
    /\ contact' = [contact EXCEPT ![target[p]] = p]
    /\ UNCHANGED <<tries, case, relayed, approved_at, now, linked, floor, walk_lock,
                   target, kicks, pc, locals, walker, ghosts>>

\* db.queue_attempt, committed on its own. The row may have moved on since.
PressQueue(p) ==
    /\ press[p] = "read"
    /\ press' = [press EXCEPT ![p] = "queued"]
    /\ IF submit_state[target[p]] \in {"prepared", "queued"}
         THEN /\ SetState(target[p], "queued")
              /\ contact' = [contact EXCEPT ![target[p]] = p]
         ELSE UNCHANGED <<submit_state, contact>>
    /\ UNCHANGED <<tries, case, relayed, approved_at, now, linked, floor, walk_lock,
                   target, kicks, pc, locals, walker, ghosts>>

\* db.approve_attempt; the kick is a background task that runs after the answer.
PressApprove(p) ==
    /\ press[p] = "queued"
    /\ \/ /\ submit_state[target[p]] = "queued"
          /\ Approve(target[p])
          /\ press' = [press EXCEPT ![p] = "sent"]
       \/ /\ submit_state[target[p]] # "queued"
          /\ press' = [press EXCEPT ![p] = "refused"]
          /\ UNCHANGED <<submit_state, now, approved_at, sends, kicks>>
    /\ UNCHANGED <<tries, contact, case, relayed, linked, floor, walk_lock,
                   target, pc, locals, walker, records>>

\* The web process goes away between two of the handler's commits.
PressDies(p) ==
    /\ Crashes
    /\ press[p] \in {"read", "queued"}
    /\ press' = [press EXCEPT ![p] = "refused"]
    /\ UNCHANGED <<rows, floor, walk_lock, target, kicks, pc, locals, walker, ghosts>>

\* Mutant of Retry: the update's `submit_state = 'failed'` also lets filed rows in.
RetryAnyEnded(r) ==
    /\ submit_state[r] \in {"failed", "filed"}
    /\ now < MaxSends
    /\ Approve(r)
    /\ tries' = [tries EXCEPT ![r] = 0]
    /\ UNCHANGED <<contact, case, relayed, linked, floor, walk_lock,
                   web, pc, locals, walker, records>>

\* POST /api/retry by an administrator: db.retry_attempt, then a kick.
Retry(r) ==
    /\ submit_state[r] = "failed"
    /\ now < MaxSends
    /\ Approve(r)
    /\ tries' = [tries EXCEPT ![r] = 0]
    /\ UNCHANGED <<contact, case, relayed, linked, floor, walk_lock,
                   web, pc, locals, walker, records>>

-----------------------------------------------------------------------------
(* Starting the job                                                        *)

\* Cloud Run starts one execution.
StartJob ==
    \E w \in Workers, l \in Modes :
        /\ pc[w] = "off"
        /\ pc' = [pc EXCEPT ![w] = "arrived"]
        /\ live' = [live EXCEPT ![w] = l]
        /\ UNCHANGED <<job, left, rechecked, read>>

\* job_runner.kick never raises; a kick that fails starts nothing.
Kick ==
    /\ kicks > 0
    /\ kicks' = kicks - 1
    /\ \/ StartJob
       \/ Crashes /\ UNCHANGED <<pc, locals>>
    /\ UNCHANGED <<rows, floor, walk_lock, web, walker, ghosts>>

ScheduleTick ==
    /\ Schedule
    /\ StartJob
    /\ UNCHANGED <<rows, floor, walk_lock, web, kicks, walker, ghosts>>

-----------------------------------------------------------------------------
(* The floor                                                               *)

Goto(w, from, to) ==
    /\ pc[w] = from
    /\ pc' = [pc EXCEPT ![w] = to]

\* The process has exited, and its memory with it.
Exit(w) ==
    /\ pc' = [pc EXCEPT ![w] = "off"]
    /\ job' = [job EXCEPT ![w] = None]
    /\ live' = [live EXCEPT ![w] = FALSE]
    /\ left' = [left EXCEPT ![w] = 0]
    /\ rechecked' = [rechecked EXCEPT ![w] = FALSE]
    /\ read' = [read EXCEPT ![w] = "none"]

\* The loop is done with its claim.
NextTurn(w, from) ==
    /\ Goto(w, from, "loop")
    /\ job' = [job EXCEPT ![w] = None]
    /\ read' = [read EXCEPT ![w] = "none"]
    /\ UNCHANGED <<live, left, rechecked>>

\* Mutant of TakeTheFloor: the answer of pg_try_advisory_lock is not looked at.
TakeTheFloorBlindly(w, from) ==
    /\ floor' = w
    /\ Goto(w, from, "loop")
    /\ left' = [left EXCEPT ![w] = MaxPerRun]
    /\ rechecked' = [rechecked EXCEPT ![w] = FALSE]
    /\ UNCHANGED <<rows, walk_lock, web, kicks, job, live, read, walker, ghosts>>

\* The floor is this execution's: the drain loop starts.
TakeTheFloor(w, from) ==
    /\ floor = None
    /\ floor' = w
    /\ Goto(w, from, "loop")
    /\ left' = [left EXCEPT ![w] = MaxPerRun]
    /\ rechecked' = [rechecked EXCEPT ![w] = FALSE]
    /\ UNCHANGED <<rows, walk_lock, web, kicks, job, live, read, walker, ghosts>>

\* pg_try_advisory_lock answered false.
FloorTaken(w, from, to) ==
    /\ floor # None
    /\ Goto(w, from, to)
    /\ UNCHANGED <<rows, floor, walk_lock, web, kicks, locals, walker, ghosts>>

Arrive(w) == TakeTheFloor(w, "arrived") \/ FloorTaken(w, "arrived", "waiting")

\* wait_out_a_walk: a walk is recognized by its lock, which the probe itself
\* holds for a moment when it is free.
ProbeWalk(w) ==
    /\ IF walk_lock = None
         THEN walk_lock' = w /\ Goto(w, "waiting", "probing")
         ELSE UNCHANGED walk_lock /\ Goto(w, "waiting", "asleep")
    /\ UNCHANGED <<rows, floor, web, kicks, locals, walker, ghosts>>

ProbeDone(w) ==
    /\ Goto(w, "probing", "lasttry")
    /\ walk_lock' = None
    /\ UNCHANGED <<rows, floor, web, kicks, locals, walker, ghosts>>

\* No walk: one more try, then leave to whoever holds the floor.
LastTry(w) ==
    \/ TakeTheFloor(w, "lasttry")
    \/ /\ pc[w] = "lasttry"
       /\ floor # None
       /\ Exit(w)
       /\ UNCHANGED <<rows, floor, walk_lock, web, kicks, walker, ghosts>>

WakeUp(w) == TakeTheFloor(w, "asleep") \/ FloorTaken(w, "asleep", "waiting")

\* WALK_WAIT_SECONDS are over.
GiveUpWaiting(w) ==
    /\ pc[w] = "waiting"
    /\ Exit(w)
    /\ UNCHANGED <<rows, floor, walk_lock, web, kicks, walker, ghosts>>

LeaveTheFloor(w) ==
    /\ pc[w] = "leaving" \/ (pc[w] = "loop" /\ left[w] = 0)
    /\ Exit(w)
    /\ floor' = None
    /\ UNCHANGED <<rows, walk_lock, web, kicks, walker, ghosts>>

-----------------------------------------------------------------------------
(* Claiming                                                                *)

\* Mutant of Claimable: `AND tries < %s` is forgotten.
ClaimableAtAnyTries == {r \in Requests : submit_state[r] = "approved"}

Claimable == {r \in Requests : submit_state[r] = "approved" /\ tries[r] < MaxTries}
Oldest == {r \in Claimable : \A s \in Claimable : approved_at[r] <= approved_at[s]}

\* Mutant of ClaimNext: `tries = tries + 1` is forgotten.
ClaimUncounted(w) ==
    /\ left[w] > 0
    /\ Goto(w, "loop", "claimed")
    /\ \E r \in Oldest : SetState(r, "filing") /\ job' = [job EXCEPT ![w] = r]
    /\ left' = [left EXCEPT ![w] = @ - 1]
    /\ rechecked' = [rechecked EXCEPT ![w] = FALSE]
    /\ UNCHANGED <<tries, contact, case, relayed, approved_at, now, linked, floor,
                   walk_lock, web, kicks, live, read, walker, ghosts>>

ClaimNext(w) ==
    /\ left[w] > 0
    /\ Goto(w, "loop", "claimed")
    /\ \E r \in Oldest :
          /\ SetState(r, "filing")
          /\ tries' = [tries EXCEPT ![r] = @ + 1]
          /\ job' = [job EXCEPT ![w] = r]
    /\ left' = [left EXCEPT ![w] = @ - 1]
    /\ rechecked' = [rechecked EXCEPT ![w] = FALSE]
    /\ UNCHANGED <<contact, case, relayed, approved_at, now, linked, floor, walk_lock,
                   web, kicks, live, read, walker, ghosts>>

\* The queue is empty: look once more, then let go.
ClaimNothing(w) ==
    /\ left[w] > 0
    /\ Claimable = {}
    /\ \/ /\ rechecked[w]
          /\ Goto(w, "loop", "leaving")
          /\ UNCHANGED <<left, rechecked>>
       \/ /\ ~rechecked[w]
          /\ Goto(w, "loop", "loop")
          /\ left' = [left EXCEPT ![w] = @ - 1]
          /\ rechecked' = [rechecked EXCEPT ![w] = TRUE]
    /\ UNCHANGED <<rows, floor, walk_lock, web, kicks, job, live, read, walker, ghosts>>

-----------------------------------------------------------------------------
(* One browser run                                                         *)

\* Every stage before Submit, and every exception before it.
StopShort(w) ==
    /\ Goto(w, "claimed", "releasing")
    /\ UNCHANGED <<rows, floor, walk_lock, web, kicks, locals, walker, ghosts>>

\* The only click that files. The City accepts or refuses; the page will show
\* our number, no number, or a newer one of somebody else's.
PressSubmit(w) ==
    /\ live[w]
    /\ Goto(w, "claimed", "clicked")
    /\ \E accepted \in BOOLEAN, shown \in Numbers :
          /\ shown = "ours" => accepted
          /\ shown = "foreign" => Misreads
          /\ records' = [records EXCEPT ![job[w]] = IF accepted THEN @ + 1 ELSE @]
          /\ read' = [read EXCEPT ![w] = shown]
    /\ UNCHANGED <<rows, floor, walk_lock, web, kicks, job, live, left, rechecked,
                   walker, sends>>

\* The page is read, and _close_out writes what it showed on its own
\* connection, or logs that it could not.
CloseOut(w) ==
    /\ Goto(w, "clicked", "submitted")
    /\ \/ /\ case' = [case EXCEPT ![job[w]] = read[w]]
          /\ relayed' = relayed \cup {job[w]}
       \/ UNCHANGED <<case, relayed>>
    /\ UNCHANGED <<submit_state, tries, contact, approved_at, now, linked, floor,
                   walk_lock, web, kicks, locals, walker, ghosts>>

\* A click that timed out, a page that could not be read, a browser that would
\* not close: the stage is still at_submit, or the call raises.
LateFault(w) ==
    /\ LateFaults
    /\ \/ Goto(w, "clicked", "releasing")
       \/ Goto(w, "submitted", "releasing")
    /\ UNCHANGED <<rows, floor, walk_lock, web, kicks, locals, walker, ghosts>>

-----------------------------------------------------------------------------
(* Recording how the claim ended                                           *)

\* Mutant of FinishFiled: the number and the time are left to _close_out.
FinishWithoutNumber(w) ==
    /\ read[w] # "none"
    /\ Goto(w, "submitted", "linking")
    /\ SetState(job[w], "filed")
    /\ contact' = [contact EXCEPT ![job[w]] = None]
    /\ UNCHANGED <<tries, case, relayed, approved_at, now, linked, floor, walk_lock,
                   web, kicks, locals, walker, ghosts>>

\* Mutant of FinishFiled: the contact details are kept.
FinishKeepsContact(w) ==
    /\ read[w] # "none"
    /\ Goto(w, "submitted", "linking")
    /\ SetState(job[w], "filed")
    /\ case' = [case EXCEPT ![job[w]] = read[w]]
    /\ relayed' = relayed \cup {job[w]}
    /\ UNCHANGED <<tries, contact, approved_at, now, linked, floor, walk_lock, web,
                   kicks, locals, walker, ghosts>>

\* finish(state="filed")
FinishFiled(w) ==
    /\ read[w] # "none"
    /\ Goto(w, "submitted", "linking")
    /\ SetState(job[w], "filed")
    /\ case' = [case EXCEPT ![job[w]] = read[w]]
    /\ relayed' = relayed \cup {job[w]}
    /\ contact' = [contact EXCEPT ![job[w]] = None]
    /\ UNCHANGED <<tries, approved_at, now, linked, floor, walk_lock, web, kicks,
                   locals, walker, ghosts>>

\* Bookkeeping only: no submitter, or a failure, leaves the filing unlinked.
LinkRequest(w) ==
    /\ NextTurn(w, "linking")
    /\ linked' \in {linked, linked \cup {job[w]}}
    /\ UNCHANGED <<submit_state, tries, contact, case, relayed, approved_at, now,
                   floor, walk_lock, web, kicks, walker, ghosts>>

\* Mutant of Park: an unread number is treated like any other failure.
ParkForAnotherTry(w) ==
    /\ read[w] = "none"
    /\ Goto(w, "submitted", "releasing")
    /\ UNCHANGED <<rows, floor, walk_lock, web, kicks, locals, walker, ghosts>>

\* Submit pressed and no number shown: finish(state="failed"), then, in a
\* transaction of its own, the tries counter goes to its limit.
Park(w) ==
    /\ read[w] = "none"
    /\ Goto(w, "submitted", "parking")
    /\ SetState(job[w], "failed")
    /\ UNCHANGED <<tries, contact, case, relayed, approved_at, now, linked, floor,
                   walk_lock, web, kicks, locals, walker, ghosts>>

ParkTries(w) ==
    /\ NextTurn(w, "parking")
    /\ tries' = [tries EXCEPT ![job[w]] = MaxTries]
    /\ UNCHANGED <<submit_state, contact, case, relayed, approved_at, now, linked,
                   floor, walk_lock, web, kicks, walker, ghosts>>

\* A rehearsal got to the review step: finish(state="approved"), then the try
\* is given back.
Rehearse(w) ==
    /\ ~live[w]
    /\ Goto(w, "claimed", "uncounting")
    /\ SetState(job[w], "approved")
    /\ UNCHANGED <<tries, contact, case, relayed, approved_at, now, linked, floor,
                   walk_lock, web, kicks, locals, walker, ghosts>>

UncountTry(w) ==
    /\ NextTurn(w, "uncounting")
    /\ tries' = [tries EXCEPT ![job[w]] = @ - 1]
    /\ UNCHANGED <<submit_state, contact, case, relayed, approved_at, now, linked,
                   floor, walk_lock, web, kicks, walker, ghosts>>

\* release: another try, or `failed` once it has had enough.
Release(w) ==
    /\ NextTurn(w, "releasing")
    /\ SetState(job[w], IF tries[job[w]] >= MaxTries THEN "failed" ELSE "approved")
    /\ UNCHANGED <<tries, contact, case, relayed, approved_at, now, linked, floor,
                   walk_lock, web, kicks, walker, ghosts>>

\* Mutant of WorkerDies: the row an execution was filing goes back to the queue.
WorkerDiesUnclaiming(w) ==
    /\ Crashes
    /\ pc[w] # "off"
    /\ Exit(w)
    /\ floor' = IF floor = w THEN None ELSE floor
    /\ walk_lock' = IF walk_lock = w THEN None ELSE walk_lock
    /\ IF pc[w] \in Owning THEN SetState(job[w], "approved") ELSE UNCHANGED submit_state
    /\ UNCHANGED <<tries, contact, case, relayed, approved_at, now, linked,
                   web, kicks, walker, ghosts>>

\* The execution dies; its session's advisory locks go with it.
WorkerDies(w) ==
    /\ Crashes
    /\ pc[w] # "off"
    /\ Exit(w)
    /\ floor' = IF floor = w THEN None ELSE floor
    /\ walk_lock' = IF walk_lock = w THEN None ELSE walk_lock
    /\ UNCHANGED <<rows, web, kicks, walker, ghosts>>

-----------------------------------------------------------------------------
(* The nightly walk, as far as it shares the floor                         *)

\* A walk that finds its lock taken, if only by a probe, skips the night.
WalkStarts ==
    /\ walk = "off"
    /\ walk_lock = None
    /\ walk_lock' = Walk
    /\ walk' = "between"
    /\ walk_kicked' = FALSE
    /\ UNCHANGED <<rows, floor, web, kicks, pc, locals, ghosts>>

\* take_floor: a filing goes first. The look and the lock are two statements.
WalkLooks ==
    /\ walk = "between"
    /\ Claimable = {}
    /\ walk' = "clear"
    /\ UNCHANGED <<rows, floor, walk_lock, web, kicks, pc, locals, walk_kicked, ghosts>>

\* Something is waiting: ask once for the job that files it.
WalkKicks ==
    /\ walk = "between"
    /\ Claimable # {}
    /\ ~walk_kicked
    /\ walk_kicked' = TRUE
    /\ \/ StartJob
       \/ Crashes /\ UNCHANGED <<pc, locals>>
    /\ UNCHANGED <<rows, floor, walk_lock, web, kicks, walk, ghosts>>

WalkTakesFloor ==
    /\ walk = "clear"
    /\ IF floor = None
         THEN floor' = Walk /\ walk' = "walking"
         ELSE UNCHANGED floor /\ walk' = "between"
    /\ UNCHANGED <<rows, walk_lock, web, kicks, pc, locals, walk_kicked, ghosts>>

\* Mutant of WalkLeavesFloor: the slice ends and the floor is kept.
WalkKeepsFloor ==
    /\ walk = "walking"
    /\ walk' = "between"
    /\ walk_kicked' = FALSE
    /\ UNCHANGED <<rows, floor, walk_lock, web, kicks, pc, locals, ghosts>>

WalkLeavesFloor ==
    /\ walk = "walking"
    /\ walk' = "between"
    /\ walk_kicked' = FALSE
    /\ floor' = None
    /\ UNCHANGED <<rows, walk_lock, web, kicks, pc, locals, ghosts>>

\* The slice is done, out of time, or stood aside too long.
WalkEnds ==
    /\ walk = "between"
    /\ walk' = "off"
    /\ walk_lock' = None
    /\ UNCHANGED <<rows, floor, web, kicks, pc, locals, walk_kicked, ghosts>>

WalkDies ==
    /\ Crashes
    /\ walk # "off"
    /\ walk' = "off"
    /\ walk_lock' = None
    /\ floor' = IF floor = Walk THEN None ELSE floor
    /\ UNCHANGED <<rows, web, kicks, pc, locals, walk_kicked, ghosts>>

-----------------------------------------------------------------------------
PressStep(p) ==
    \/ \E r \in Requests : PressRead(p, r)
    \/ PressQueue(p)
    \/ PressApprove(p)

WorkerStep(w) ==
    \/ Arrive(w) \/ ProbeWalk(w) \/ ProbeDone(w) \/ LastTry(w) \/ WakeUp(w)
    \/ GiveUpWaiting(w) \/ ClaimNext(w) \/ ClaimNothing(w) \/ LeaveTheFloor(w)
    \/ StopShort(w) \/ PressSubmit(w) \/ CloseOut(w) \/ LateFault(w)
    \/ FinishFiled(w) \/ LinkRequest(w) \/ Park(w) \/ ParkTries(w)
    \/ Rehearse(w) \/ UncountTry(w) \/ Release(w)

WalkStep ==
    WalkLooks \/ WalkKicks \/ WalkTakesFloor \/ WalkLeavesFloor \/ WalkEnds

Next ==
    \/ \E p \in Presses : PressStep(p) \/ PressDies(p)
    \/ \E r \in Requests : Retry(r)
    \/ Kick
    \/ ScheduleTick
    \/ \E w \in Workers : WorkerStep(w) \/ WorkerDies(w)
    \/ WalkStarts
    \/ WalkStep
    \/ WalkDies

Spec == Init /\ [][Next]_vars

\* Cloud Run runs an execution it has started, the background task runs, the
\* schedule keeps coming, and a walk under way goes on. Nobody has to press,
\* retry or start a walk, and nothing has to crash.
Fairness ==
    /\ \A w \in Workers : WF_vars(WorkerStep(w))
    /\ WF_vars(Kick)
    /\ WF_vars(ScheduleTick)
    /\ WF_vars(WalkStep)

FairSpec == Spec /\ Fairness
-----------------------------------------------------------------------------
(* Properties                                                              *)

OpenBrowsers == {w \in Workers : pc[w] \in Driving}

\* At most one browser is driven at the City's site, the walk's included: the
\* floor lock of take_the_floor, wait_out_a_walk and walk.take_floor at work.
OneBrowser ==
    /\ \A v, w \in OpenBrowsers : v = w
    /\ walk = "walking" => OpenBrowsers = {}

\* A claimed row is in `filing` and is nobody else's until its execution
\* settles it: claim_next's row lock and state flip.
ClaimIsExclusive ==
    \A w \in Workers : pc[w] \in Owning =>
        /\ job[w] \in Requests
        /\ submit_state[job[w]] = "filing"
        /\ \A v \in Workers \ {w} : job[v] # job[w]

\* The contact details stay on the row for as long as a filing may still need
\* them and not a step longer: queue_attempt writes them, finish erases them.
ContactWhileNeeded ==
    \A r \in Requests :
        contact[r] # None <=> submit_state[r] \in {"queued", "approved", "filing", "failed"}

\* A row called filed has a number and a filing time, whatever _close_out and
\* finish did between them; and `mine` is vouched for only on such a row.
FiledIsRecorded ==
    /\ \A r \in Requests : submit_state[r] = "filed" => case[r] # "none" /\ r \in relayed
    /\ \A r \in linked : submit_state[r] = "filed"

\* However the browser fails after Submit, one send makes at most MAX_TRIES
\* City records: the tries counter bounds the damage of a retry.
DamageIsBounded ==
    \A r \in Requests : records[r] <= MaxTries * sends[r]

\* Nothing moves a filed row again, not a late press, a retry, a sweep or the
\* second half of another claim's bookkeeping.
FiledIsFinal ==
    [][\A r \in Requests : submit_state[r] = "filed" =>
          submit_state'[r] = "filed" /\ case'[r] = case[r] /\ contact'[r] = None]_vars

\* One send makes at most one City record: "retrying the second case files a
\* duplicate in a real person's name. So this is parked, not retried".
OneRecordPerSend ==
    \A r \in Requests : records[r] <= sends[r]

\* A request somebody sent is filed or failed in the end.
SendsSettle ==
    \A r \in Requests : submit_state[r] = "approved" ~> submit_state[r] \in {"filed", "failed"}

\* A row's state as the person who made the request understands it.
StatusOf(s) ==
    CASE s \in {"prepared", "queued"} -> "open"
      [] s \in {"approved", "filing"} -> "sent"
      [] OTHER -> s

Status == [r \in Requests |-> StatusOf(submit_state[r])]

Contract == INSTANCE FilingContract WITH status <- Status, asked <- sends, held <- records

\* The queue keeps the promise of FilingContract.
KeepsContract == Contract!Spec
=============================================================================
