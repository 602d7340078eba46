# Verification of alex311-visibility

TLA+ specifications of the parts of alex311-visibility that are hard to get right
and hard to test, the TLC configurations that check them on small instances, and
TLAPS proofs of the results that matter most for every instance. The reference is
the code: every definition is listed in `PROJECT.json` with the lines it models.

Run a check with `tlc -workers 2 -config queue_faults.cfg MCSubmissionQueue`, a
proof with `tlapm SubmissionQueueProofs.tla`.

## The system

A resident prepares a 311 request on the site, sends it, and a job files it on the
City's own web form with a browser. Around that: a mirror of the City's public
records, accounts, notifications, and a registry that describes the City's form.
The web service and the jobs are separate processes that meet in one Postgres
database; almost every statement group commits on its own.

| Component | State it keeps | Operations | What makes it correct |
|---|---|---|---|
| Submission queue and filing worker (`submit_worker.py`, `db.py`, `submit.py`, `job_runner.py`) | rows of `submission_attempts` (state, tries, contact, number, times), the floor and walk advisory locks, kicks under way | precheck, queue, approve, retry; kick, schedule; take the floor, wait out a walk, claim, finish, park, release, link | nothing is filed that nobody sent; one send, one City record; one browser; a sent request settles; filed is the end |
| Browser run (`submit_browser.py`, `wizard.py`) | the City's form, what the page shows, the `SubmitResult` | open a category, answer questions, details, contact, Submit, read the number, close out | Submit is pressed at most once per claim and by no rehearsal; each question gets the answer given for it; the outcome told to the queue is the City's |
| Form validation (`registry.py`) | none; a check of answers against the registry | validate | answers that pass are not turned away by a form the registry is true to |
| Report page's address (`submit.html`, `submit.py`) | the address box, what the page holds beside it for the City, the offered spelling, the list, lookups under way | type, look up, take a spelling or a near miss, drop a pin, check | the report goes to the place its person wrote down |
| Abuse policy and precheck (`abuse.py`, `submit.py`, `db.py`) | recorded attempts and the mirror's rows, read as history | precheck, record, evaluate | limits hold up to what runs at once |
| Photos (`photos.py`) | `attempt_photos` | add, list, remove, carry, purge, sweep | at most three; destroyed once the City has them or after a week, not before, not never |
| Nightly walk (`walk.py`) | `wizard_walks`, the walk lock, the floor while a slice runs | pick, walk, record, retire, propose | it gives way to filings; a bad night does not change what is believed; what is believed catches up |
| Registry store (`registry_store.py`) | `registry_versions`, the append-only `registry_events` | propose, adopt, dismiss, retire services | one version in use; history tells which; a decision is not undone by a walk |
| Registry cache (`dashboard/registry.py`, `app.py`, `submit.py`) | a copy per web instance and its date; clients' copies by ETag | read, fill, refresh; answer 200 or 304 | an adoption is followed at once here and within a minute elsewhere |
| Accounts and sessions (`portal_auth.py`, `submit.py`) | `portal_users`, `portal_sessions` | invite, sign in, sign out, disable, enable, block, delete | a disabled account has no session; there is always an administrator; one person, one account |
| Sign-in codes and limits (`signin_code.py`, `submit.py`) | `signin_codes`, send times in memory | issue, redeem, wait | a code works once, while it is the newest, and not after too many wrong tries |
| Mirror (`ingest.py`, `refresh.py`, `client.py`, `db.py`) | `service_requests`, media, run records | ingest windows, enrich, refresh, fetch media | nothing is skipped without a word; nothing that changed stays stale |
| Push (`push.py`) | `request_links.notified_status`, devices | pass, register, disable | one notification per change, from one pass |
| Digest and watches (`digest.py`, `watches.py`) | digest columns, `watches` | confirm, unsubscribe, send, add | nothing is skipped; only proved addresses get mail; a failing address is given up |
| Links, feedback, stances (`db.py`) | `request_links`, `request_feedback`, `request_stances` under row security | follow, unfollow, rate, support | `mine` is only written by a filing |

How they interact: the web handlers write rows and start the job (a background
task, after the answer is sent); executions of the job, the walk and the schedule
share two session-level advisory locks; the worker writes the link that push,
digest and threads read; ingest and refresh each end with a push pass; the walk
reads and writes the registry that the web instances cache and the worker files
against; the mirror's rows are what the policy, the watches and the push compare.

The hard behaviours are races between commits (two presses, a retry against a
worker's bookkeeping, uploads against a send, a sign-in against a disable, two
administrators), crashes between them, locks that are looked at and taken in two
steps, a click whose result is not known, clocks of two parties compared with each
other, descriptions of one form that come apart, and work that is only done if some
later execution comes. `PROJECT.json` lists them as hazards, each at its line, with
the properties that cover it or the reason none does.

## Modules

| Module | What it is |
|---|---|
| `SubmissionQueue` | the queue, the worker, the walk as a holder of the floor, and the browser run as far as its result matters |
| `FilingContract` | what the site promises the person who pressed send; `SubmissionQueue` implements it |
| `AttemptPhotos` | the photos on one request, from upload to purge |
| `RegistryCache` | the registry as one web instance serves it: the copy, the provider, the handlers, clients' copies |
| `RegistryStore` | the stored versions of the registry, the log, the walk's and the administrators' transactions |
| `NightlyWalk` | what the walk believes of the City's wizard |
| `Accounts` | accounts, identities, sessions, administrators' requests, sign-in codes |
| `Mirror` | the ingest, the refresh passes and what they store, against a City that changes |
| `Tidings` | links, verdicts, support, devices, the push pass; watches and the digest |
| `Precheck` | addresses, history, the policy, and the two transactions that ask it |
| `AddressBox` | the page's address and what the City would be handed for it, before and around `Precheck` |
| `WizardForm` | answers checked against the registry, and typed into the City's form |
| `Reports` | `AddressBox` and `WizardForm` composed: from the words in the box to the precheck's row, to Submit, and the driver run by hand |
| `MC...` | instances for TLC, one per component (`MCReports` for the last four) |
| `SubmissionQueueProofs`, `AttemptPhotosProofs`, `NightlyWalkProofs`, `AccountsProofs`, `MirrorProofs`, `TidingsProofs` | proofs about the module of that name; of the queue also that it implements `FilingContract` |
| `RegistryProofs` | proofs about `RegistryStore` and `RegistryCache` |
| `ReportsProofs` | proofs about `Reports`, and so about `Precheck`, `AddressBox` and `WizardForm` as it composes them |

### SubmissionQueue

One action is one transaction, or one step outside the database. The state is the
columns of `submission_attempts` that the code branches on, the two locks, the
program counter and locals of each execution (`pc`, `job`, `live`, `left`,
`rechecked`, `read`), the walk, and two history variables: `records`, the City
records made for a request, and `sends`, how many times a person asked for it.

- Web: `PressRead`, `PressQueue`, `PressApprove` are the read, the first and the
  second commit of `POST /api/queue`; `PressDies` is the process going away between
  them. `Retry` is the administrator's endpoint, one transaction and a kick.
- Starting: `Kick` is the background task (it may fail and starts nothing then),
  `ScheduleTick` the `*/10` schedule of `deploy/README.md`.
- The floor: `Arrive`, `ProbeWalk`, `ProbeDone`, `LastTry`, `WakeUp`,
  `GiveUpWaiting` are `take_the_floor` and `wait_out_a_walk` statement by
  statement, with the probe of the walk's lock as a state of its own because the
  walk can start and find it held.
- Filing: `ClaimNext` and `ClaimNothing` are one turn of the drain loop with its
  second look at the queue; `StopShort`, `PressSubmit`, `CloseOut`, `LateFault` are
  `_run`; `FinishFiled`, `LinkRequest`, `Park`, `ParkTries`, `Rehearse`,
  `UncountTry`, `Release` are the branches of `main`, one action per commit.
- The walk: `WalkStarts`, `WalkLooks`, `WalkKicks`, `WalkTakesFloor`,
  `WalkLeavesFloor`, `WalkEnds`, `WalkDies`.

The City is a choice made in `PressSubmit`: it accepts or refuses, and the page will
show our number, none, or (with `Misreads`) a number another resident just got.
`LateFaults` lets the browser fail after the click. `Crashes` lets any process die
and a kick fail. The switches are constants so that each run can say which faults
its property withstands.

`FilingContract` has a status per request (open, sent, filed, failed) and two
counters; `Status`, `sends` and `records` are the refinement mapping. The queue
implements it when the browser does not fail after Submit and the page shows no
stranger's number, whatever else crashes.

### AttemptPhotos

`Look`, `Counts`, `Keeps`, `Removes` and `Refused` are the steps of the upload and
delete endpoints, each its own statement with no lock between them;
`StartAndSweep`, `ForFiling`, `Submits`, `FinishFiled`, `PurgeFiled` are the
worker's. Time is the age of a photo in days, up to one past `KEEP_DAYS`. Every
statement but the sweep is keyed on one attempt and the sweep looks at each photo
alone, so one request is enough.

### RegistryCache

`Hit`, `Miss`, `Enter`, `Look`, `Fetch`, `Filled` and `Fails` are `_current`, cut
where another thread can come in: before the lock, under it while the provider asks
the database twice (`app.py:50-59`), and at the store of the copy. `Refresh` is
`refresh`. A handler calls `_current` several times for one answer; `doing`, `order`
and `first` say which call it is about and what it got, and `Goes` is what the
handler does with an answer. `age` is the time since `_held["at"]`, `late` the time
since a call read the clock, so `Fresh` is the comparison the code makes.
`gone`, `recent` and `mine` are history: for how long each version has been out of
use, and which versions were in use since the last adoption that this instance has
followed. The names differ from the store's (`Adopters`, `Editions`, `InImage`,
`Nothing`, `CacheSpec`) so that one module can speak of both.

The versions change under it by `Adopt` (here) and `ChangeElsewhere` (another
instance, or the walk, which may also leave none in use). Instances share nothing
but the version in use, so one instance and a free environment stand for all.

### NightlyWalk

A walk of one request type is abstracted to what belief looks at: how many questions
it met, whether Continue was enabled, its error. `city` is what an undisturbed walk
would read, `latest` the newest row of `wizard_walks`, `believed` what
`believed_walks` answers. `Run` takes the lock and reads, once, what is believed and
what was seen last; `Pick` is `pick` up to the order of the catalog; `WalkOne` with
`Suspect` and `Record` is one turn of `walk_slice` and `record`; `Propose` is
`candidate`; `order` is which of two types was walked longer ago, as a relation.
`Misreads`, `StopShort`, `JobDies` and `RunByHand` are a slow page, a
cut night, a killed job and `--codes`, which may name one type several times, as
`pick` lets it; `looked` is what a slice has walked so far. What becomes of the offer
is in `RegistryStore`, the floor in `SubmissionQueue`.

### RegistryStore

A version is its content (request types and a form), but for the bundled one, whose
name is not a fingerprint. Every transaction is a read and a commit, as READ
COMMITTED sees them: `RetireReads`/`RetireCommits` (`retire_services`),
`ProposeReads`/`ProposeCommits` (`propose` with its three ends `Withdraws`,
`Decided`, `Offers`), `AdoptReads`/`AdoptCommits`/`AdoptFails` (`adopt`; the index
of one active row makes the second of two fail), `Dismiss`. `NightBegins` is `run`
up to the retirement: a catalog shorter than 0.8 of the known one is not believed, and
the codes to retire are worked out once; `RetireReads` reads the registry in use again
and `Kept` takes those codes out of it. `Reads` is `current`, which answers a read that
failed with the bundled file (`misread` says that the transaction under way was
answered so); such reads, short answers and killed nights are counted by `faults`.
`lastPut` is what `in_use_at` answers for now. `crossed` remembers that an
administrator's decision was committed inside the walk's transaction.

### Accounts

`SignInReads`/`SignInCommits` are `sign_in_with_firebase`: the account, the
invitation or nobody, then the link or the new account and the session, refused by
the unique indexes. `Counts` is `count_admins` and its 409, `Disable` and `Delete`
the rest of an administrator's request (`DeleteMyAccount`, `UsersDisable`,
`Moderate`). `beside` marks an invitation that was made after its person had come
without one (`Came`). `overlapped` marks a session whose sign-in had read the account before
a disable committed; `stale` a count made before another administrator went.
`EmailLink`, `Expires`, `RedeemReads`, `RedeemHands`, `RedeemRefuses` are
`signin_code`, whose row is locked between read and write; `handed` and `guessed`
count what each code did.

### Mirror

A case is its version. `order` is which of two cases the City lists first, as a
relation; the `Place` of a case in a window is how many come before it there, and a
page is a stretch of places. `ingest` holds the run: the stack of windows, the page, what
was got, how often it was refused, what it reported as capped. `ReadsPage`,
`Bootstraps`, `CallFails`, `Refused` are `fetch_range` and `_call` (a window is
split, tried again, skipped and reported, and after `VOLUME_GIVE_UP_AFTER` the rest
is reported at once); `Upserts`, `Selects`, `Enriches`, `Applies`, `Stages`,
`Downloads` the rest of `run_ingest`, one action per transaction. `RefreshBegins`,
`RefreshMine`, `RefreshOne` start `refresh_cases`, and `Asks`, `RefreshUpserts`,
`RefreshApplies`, `RefreshStages` are its steps. A change by the City moves a case
to the end of its list, under a reader. `blind` and `lost` mark the two cases the
code cannot mend.

### Tidings

The links of one case: `FiledFromHere`, `Follow`, `Unfollow`, `SaveFeedback`,
`DeleteFeedback`, `SetStance` (which sees no links, because row-level security is
forced and it does not say for whom it acts, `Visible`). `NotifyReads`, `Claims`,
`Sends`, `Sent`, `PassEnds` are `notify`, with the compare-and-set of
`notified_status` in `Holds`. The digest has a clock that moves with every event
whose time is compared: `UpsertBegins`/`UpsertCommits` because `now()` is the
beginning of a transaction, `RequestDigest`, `Confirm`, `TurnOff`, `Unsubscribe` for
the address, `DigestBegins`, `DigestFeeds`, `DigestSent`, `DigestFails`,
`DigestEnds` for `digest.run`. Watches of the three kinds are `CategorySpecs`,
`AddressSpecs`, `AreaSpecs`, and `Matches` is `_clause`. `NewsFor` is the feed's
condition and `Feeds` its `ORDER BY ... LIMIT`: the newest, as many as `FEED_LIMIT`
has room for. `run.left` is the news there was no room for. `owed` and `proved` are
history.

### Precheck, AddressBox, WizardForm, Reports

`Precheck`: an address is streets of words; `NormalizeAddress`, `SqlPrefix` and
`Like` are what finds the history of one. `Evaluate` is `evaluate` over a history,
with each rule an operator of its own. `PrecheckJudges` reads and judges,
`RecordAttempt` writes in another transaction.

`AddressBox`: `typed` is what the box says and `cityAddress` what the City would be
handed instead. `Retype` is the box's input handler, `FindAddress` sends a lookup, and
`Found` is its answer, which comes whenever it comes: `Candidates`, `Exact` and
`Suggestions` are `/api/geocode`. `TakeSpelling` and `PickCandidate` are the two buttons;
`DropPin` and `Named` are the pin and the address it is given by `/api/reverse`.
`CheckReport` is the page's precheck, with both addresses. `late` remembers that an
answer was taken for other words than stood in the box by then.

`WizardForm`: `Validate` is `validate` (visible questions, options, hard stops).
`FillFromRegistry` is one turn of `_fill_from_registry`: `Matching` is
`match_question`, and `AnswerListed`, `LeaveListed`, `AnswerFree`,
`AnswerDescribed`, `Invent`, `LeaveFree` its ways out; `ValueFor` is what
`fill_free` types. `Choose` is a click on each of the values: `Hits` are the options a
click may land on, which for checkboxes and role-radios is any of the page whose text
contains the wanted one (`Longer`). `OpenCategory` with `Located` types the address into
the City's search and takes its first row, which `Gazetteer` gives for each address: the
place itself, another one, a refusal, or none. `NeedsAnswers`, `ToReview`, `Rehearsed`,
`Submit`, `Breaks` are the rest of `prepare_submission`. The form is any of `Forms`: the
registry's own, one with a picklist and composite boxes, one that has drifted, a short one
with a single optional list, and one whose options read alike.

`Reports`: `SendAndFile` takes a recorded row, checked by `/api/validate` or not, and
`Sent` is the address that goes with it, the City's spelling before the person's words;
`RunByHand` is the driver's command line, whose run is recorded for the policy to
count (`Recorded`). Waiting, claiming and retrying are `SubmissionQueue`'s.

## Runs

| Run | Instance | What it shows |
|---|---|---|
| `queue_faults` | 1 request, 2 presses, 2 executions live or rehearsing, the walk, every fault | `TypeOK`, `OneBrowser`, `ClaimIsExclusive`, `ContactWhileNeeded`, `FiledIsRecorded`, `DamageIsBounded`, `FiledIsFinal` |
| `queue_contract` | 2 requests (one blocked by the policy), crashes, no fault after Submit | `OneRecordPerSend`, and `KeepsContract`, the refinement |
| `queue_settles` | 2 requests, fair, no crashes | `SendsSettle`: an approved request is filed or failed in the end |
| `photos_kept` | 2 calls, limit 1, 3 ids, a week of 1 day, fair | `TypeOK`, `KeptIsBounded`, `PurgedOnlyWhenDone`, `PhotosGo` |
| `registry_follows` | 1 client, 2 administrators, 2 versions, a TTL of 2 ticks, waits of 1 | `CacheTypeOK`, `FollowsAtOnce`, `StaleIsBounded` |
| `walk_believes` | 3 request types, slices of 2, 2 jobs, nights ended by one failure, 3 accidents, fair | `TypeOK`, `LossSeenTwice`, `BeliefCatchesUp` |
| `registry_decides` | 3 request types, 2 forms, 2 administrators, 2 decisions, 1 change, 1 fault (a failed read, a short answer or a killed night), fair | `TypeOK`, `HistoryStaysTrue`, `OnlyRetiresAlone`, `NoStaysNo`, `RetiredTypesGo` |
| `accounts_hold` | 3 account ids, 2 identities with one address (one verified), 2 devices, 2 administrators' requests, 3 codes, 2 wrong guesses | `TypeOK`, `DisabledHasNoSession`, `LinkedToOwner`, `AdminsGoOnlyByRace`, `CodeIsSpent` |
| `mirror_follows` | 2 cases, one linked and with photos, 2 windows, pages of 1, 1 refresh, 1 change, 3 accidents, fair | `TypeOK`, `NothingSkippedSilently`, `MirrorCatchesUp` |
| `tidings_tell` | 2 accounts, 2 passes, 2 phones, 2 statuses; 3 addresses, 2 cases, watches of each kind, a feed of 1, 6 ticks | `TypeOK`, `ToldOnce`, `DigestOnlyProved`, `NewsIsKept` |
| `reports_reach` | 2 threads, 3 log rows, 3 instants, limits of 1 a day; 4 things typed, 2 addresses on record, 2 lookups; 5 forms, 6 registry questions | `LimitsHold`, `FiledAsSaid`, `StopsOnlyForGaps` |
| `live_invents` | the same | violates `LiveInventsNothing` |

Bounds. Two of each competitor is where every race here lives: a third execution,
press, thread or administrator adds another copy of a pair already explored, and
the proofs of all the safety properties hold for any number. `MaxTries` is 2
instead of 3, `MaxPerRun` 2 (two turns of the loop: a claim and a second look),
`MaxSends` bounds retries only. One photo over the limit needs two uploads and a
limit of one; three ids let a mistaken limit show itself; a day is a step and
`KEEP_DAYS` is 1. Every client names its photo by its place here, because a name
given twice touches the note only. A tick of the registry's clock is a part of the
minute: what matters is that a copy can be young or old, before and after a call
waited (`MaxWait`, which bounds the time a call takes, is not in the code).

Three request types with slices of two make `pick` leave one out each night, and a
failure that ends a night leaves one unread in a slice. Of three request types the
file lists two: the City may then list another beside them or in the place of one,
which retires it, or one alone, which is under 0.8 and not believed. Three accounts
are the first administrator, one invited and one who came by themselves. Two windows
are one split and one floor; pages of one case make a short page and a full one, and
a case that moves from one to the other. Three accidents allow a refusal, its retry
and a give-up, or one of them with a redeployment or a kill. Six ticks hold a
confirmation, a change, an upsert, a digest and a second change. A feed of one
with two cases is one that can be too short. Three rows are one
more than the address limit allows in a day with two threads. Of what is typed, one is
an address on record, one the same address spelled otherwise, one a corner that nothing
on record is near, and one nothing; two lookups can then be answered in
either order, and a second address on record is a near miss for the list, for the pin
and for the City's search. Five forms are one for each way in which a form and the
registry may differ.

Constraints keep apart what shares no state, so that a run is a sum and not a
product: `Separately` (`MCAccounts`) sends codes only where no account has changed,
`Apart` (`MCTidings`) lets either links or digests move, with the second account
only on the first one's phone, and `Apart` (`MCReports`) writes and files one report,
addresses included, or judges and records the policed ones with nothing looked up. Each half is complete in itself. The liveness
runs use neither constraints nor symmetry.

Symmetry: executions and presses in the safety runs of the queue, clients and
administrators of the cache, devices and administrators' requests of the accounts,
jobs, phones and statuses of the tidings, threads of the prechecks. No definition
chooses among them.

Deadlock is checked in every run but `registry_decides`: a City that lists less than
0.8 of the registry in use ends every night at its first guard, which changes nothing,
and administrators may have nothing (more) to decide.

## Fairness

`SubmissionQueue!Fairness`: an execution that was started keeps taking steps (`WF`
of `WorkerStep` for each execution: Cloud Run runs what it started, and every wait
in the worker is bounded by a timeout), the background kick runs, the schedule keeps
coming, and a walk in progress goes on. Nobody has to press, retry or start a walk.
`deploy/README.md:667-668` says of a request whose kick was lost "slower, not lost":
`SendsSettle` is that promise, with the schedule it rests on. It is checked without
crashes, because a crashed execution leaves its row in `filing` for good.

`AttemptPhotos!Fairness`: days pass; the schedule starts an execution again and
again and not every sweep fails (`SF` of `StartAndSweep`, which competes with
`SweepFails`); a claim ends or its execution dies; `--max` ends every drain (`SF` of
`Leaves`).

`NightlyWalk!FairSpec`: the schedule starts the walk every night, a walk goes on
while it lives and ends with an offer. `RegistryStore!FairSpec`: the same nights,
and a transaction begun is committed. `Mirror!FairSpec`: the scheduler starts
ingests again and again, and an ingest or a refresh that is not killed takes its
next step; nobody has to ask for a refresh. Nothing is asked of the City in any of
them, and accidents are bounded by count, never by fairness.

## Proofs

Every safety invariant and every action property that a run checks is also a theorem,
but `LiveInventsNothing`, which does not hold. The theorems are about every set of
requests, people, executions, cases, forms and answers, and every value of the bounds.
They assume what the modules' ASSUMEs say of the constants: that limits and bounds are
natural numbers (positive where the code's are), that `None` is no other value, and that
what the code counts is a finite set (`Clients`, `Ids`, `Services`, `Types`, `Cases`,
`Registry`, `Threads`). A few say more: every identity has an address
(`AccountsAssumption`), the registry of the file is a content and the bundled one's name
is not (`StoreAssumption`), a question with options has no boxes (`WizardAssumption`),
no address on record is the missing one (`AddressAssumption`), who files by hand has no
account and gives one address (`ByHandAssumption`), and the history that is read goes
back further than a day (`PrecheckAssumption`; 30 days in the code).

Few of the properties are inductive. What the invariants add, and why:

- **Queue** (`SubmissionQueueProofs`). `MutualExclusion` and `ExclusiveClaims` need who
  holds each lock at each program counter (`FloorInv`) and that a claimed row is in
  `filing` (`JobInv`). `TypeCorrect` needs them too: a rehearsal's `tries - 1` stays a
  natural number because the claim it undoes was counted. `OneRecordEach`: a row that
  can still be claimed, or is claimed and not clicked, has one record fewer than sends
  (`SendInv`). `BoundedDamage`, with a browser that may fail after Submit: a row has as
  many records left as tries, counting `MAX_TRIES` for every send (`BudgetInv`).
  `ContactKept`, `FilingsRecorded` and `FiledStays` go by what a row has in each state
  (`RowInv`), for which no worker but its owner may write a row in `filing`.
- **Contract** (`QueueKeepsContract`): the refinement, action by action, for a browser
  that does not fail after Submit and a page without a stranger's number.
- **Photos** (`AttemptPhotosProofs`). `BoundedOvershoot` is by counting: photos kept plus
  uploads that have already counted never exceed the limit plus the calls less one,
  because the last to count saw room. `PurgedOnlyInTime` needs that a purge is of a filed
  request.
- **Registry store** (`RegistryProofs`). `ReadInv`: what the walk's transaction has read
  is still so unless a decision was committed meanwhile (`crossed`) or the read failed
  (`misread`), and the codes to retire are of types the City did not list. From it the
  effect of each commit on the version in use is a lemma, and `LogIsTrue`, `OnlyLosesAlone` and
  `NoIsKept` follow from the effects.
- **Registry cache** (`RegistryProofs`). `FollowsOwnAdoptions` and `NeverStaler`: whoever
  is past the lock holds it, so an adoption cannot be followed between a call's read of
  the database and its store (`RecentInv`); and what a call has read has been out of use
  no longer than the call has lasted, which is what its copy is dated by (`AgeInv`).
- **Accounts** (`AccountsProofs`). `SessionsGo` and `OwnersOnly`: what a sign-in under way
  may still rely on when it commits, and that a disable it did not see marked it
  (`SignInv`). That nobody has a twin
  needs that an identity that came, or is coming with nobody found, has no invitation but
  one made beside it (`TwinInv`). `LastAdminStays`: a count that nobody has overtaken still stands
  (`StaffInv`). `CodesAreSpent`: the row is of the newest code, and a redeem that has read
  it holds it alone (`CodeInv`).
- **Walk** (`NightlyWalkProofs`). `LossNeedsTwo`: what a slice has read of the types it
  has still to walk, and has not walked before, is so to this day (`SliceInv`), because
  the job that walks holds the lock (`LockInv`).
- **Mirror** (`MirrorProofs`). `NothingSkipped`: while the City keeps still, each case was
  read as it is, or lies in a window reported or still to be read, or on a page still to
  be read (`CoverInv`). That a page short of `PAGE_SIZE` is the last one is by counting:
  the places of a window are the numbers below its size (`PlacesFill`, by well-founded
  induction on finite sets), so a case beyond a page means a full page (`FullPage`).
- **Tidings** (`TidingsProofs`). `OneTelling`: while the City comes back to no status
  there is a rank of the statuses in which links, and what passes have read of them, only
  go up; a late pass then finds that the link no longer holds what it read (`ToldInv`).
  `ProvedOnly`: a digest is on only for an address that was proved, and the job read it on
  (`ProvedInv`). `NewsAwaits`: news that is owed is later than the mark the next digest
  compares with, than the one read for a digest on its way, and, but for what that digest
  carries or had no room for, than its own beginning (`NewsInv`), which needs that no time
  is ahead of the clock (`ClockInv`).
- **Reports** (`ReportsProofs`). `SentAsSaid`: at every turn of the fill, and not only at
  Submit, a question of the form holds only what is wanted for it (`Held`); each way out
  of `_fill_from_registry` keeps that, also of boxes filled in part, and on a form
  without look-alikes a click hits its own option (`HitsItself`). Of the place: while no
  answer came late, what the City would be handed is the same address as the words in the
  box once both are normalized (`Fits` in `AddressInv`), since an exact match is that and a
  near miss replaces the words too; and so it is of every report checked and recorded
  (`RowsFit`).
  `TurnedAwayForGaps`: when the form is as the registry has it, a question is matched by
  its own wording alone (`OwnKey`) and shown exactly when the check took it as shown
  (`ShownIsVisible`), so an answer that passed is one the run can use. `DailyLimitsHold`
  is by counting: reports passed without a warning and recorded in a day and reports judged and not yet recorded do
  not exceed the limit and one for each further thread while the day lasts (`DayInv`);
  the history the judgement read has at least what was recorded of that day (`JudgedBelow`).

Model-checked only: the liveness properties `SendsSettle`, `PhotosGo`,
`BeliefCatchesUp`, `RetiredTypesGo` and `MirrorCatchesUp`. They rest on fairness, which is
about ENABLED, and that is beyond the prover. `LiveInventsNothing` is refuted by its run.


## What the checks found

`live_invents`: `fill_free` (`wizard.py:419`) types a value of the driver's own into a
date or time box whose question was answered with a string or given the description,
and into a text box answered with a date, on a live run too. `submit_browser.py:217-220`
says that every value of a live run has to have been supplied deliberately.

The other properties hold, each up to what the code leaves open and no further. Where a
property names an exemption, it is one of these:

- A failure after Submit was clicked, before the page was read, is retried, and the
  City may get the request twice; `DamageIsBounded` is the bound. `OneRecordPerSend` and
  the contract hold without such a failure (`LateFaults`, `Misreads`).
- A number that another resident got while Submit was in progress may be taken for
  ours when the confirmation shows none.
- Parking takes two commits; a retry between them leaves a row approved with its tries
  used up, which no worker takes and retry refuses. `SendsSettle` is checked without
  retries (`MaxSends` is 0).
- The sweep takes week-old photos of requests that were sent and wait;
  `PurgedOnlyWhenDone` says what is left. Two photos of one name are counted twice.
- Body and ETag of one answer are read in separate calls, so a client may keep one
  version's form under another's tag.
- An administrator's decision committed inside the walk's `propose` may be undone by it
  (`crossed` in `HistoryStaysTrue`, `OnlyRetiresAlone`, `NoStaysNo`).
- A read of the registry in use that fails inside `retire_services` is answered with the
  bundled file (`registry_store.py:102-109`), and what a retirement leaves of that file
  replaces the version an administrator adopted. `OnlyRetiresAlone` compares with what was
  read (`AsRead`). A catalog short by less than a fifth is believed.
- `--codes A,A` judges both looks at a type by what was read before the slice
  (`walk.py:389`, `413`): after a night that set a row aside, a good look and a slow page
  make a loss believed in one slice (`LooksAgain` in `LossSeenTwice`).
- Two administrators acting on each other at once may leave none (`stale` in
  `AdminsGoOnlyByRace`). A sign-in that read the account before it was disabled leaves a
  session that works when it is enabled again (`overlapped` in `DisabledHasNoSession`).
  An invitation made after its person came without one stays beside their account
  (`beside` in `LinkedToOwner`).
- A detail fetched before a change and stamped after it is not fetched again (`blind`);
  a job killed between a detail and its photos' rows loses the photos (`lost`); a photo
  that failed once is not tried again (`MirrorCatchesUp`).
- News committed after a digest's mark, with a time before it, is not told (`Late`), and
  of more than `FEED_LIMIT` items at once (`watches.py:43`) the oldest are not: the mark
  moves past what did not fit (`run.left`). `NewsIsKept` is about all other news. A pass that is late may tell a status again when the City has come back to it
  (`ToldOnce`). Two requests at once may store one watch more than `MAX_WATCHES`
  (`Added`).
- `set_stance` looks for the person's own link in a transaction that row-level security
  shows none, so its refusal never comes (`db.py:640`, `Visible(None)`).
- The check and the run read some answers differently (`StopsOnlyForGaps` names them): an
  empty string for an optional list passes `/api/validate` and the run stops at it
  (`submit_browser.py:247-252`, `dashboard/registry.py:220`); so does a list given for a
  text; an answer under a bare question number is used by the run and never checked; a
  picklist's options are not read by the run.
- Prechecks at once do not see each other: the limit plus one for each further thread
  (`LimitsHold`, which counts what passes without a warning). A report over a limit is
  `review` and is sent once its person acknowledges the warning (`submit.py:1157`). A
  report without an address is judged without history, the person's own included.
- The page takes the answer to a lookup without asking whether the box still says what
  was looked up (`submit.html:563`), and the address of a pin into a box that is no longer
  empty (`submit.html:505`): the City's spelling of one place may then go with the words
  of another (`late` in `PinnedAsSaid`).
- `set_location` takes the first row of the City's search without comparing it
  (`wizard.py:475-489`): words the City spells otherwise may be pinned at another place,
  which is why the City's spelling is sent where there is one. A report without an address
  is filed at a point of the map, since its `lat` and `long` are not used
  (`wizard.py:545-555`). `PinnedAsSaid` is about neither.
- Checkboxes and role-radios are found by a text on the whole page (`wizard.py:245-248`),
  so an option whose text is part of another's may be clicked in its place
  (`Unmistakable` in `FilledAsAnswered` and `StopsOnlyForGaps`).

## Not modelled

- Firebase's tokens, Google's sign-in and the mail service: external; their answers are
  inputs of `Accounts` and `Tidings`.
- Building a registry from walks, comparing two in words, and drift reports: pure
  transformations of large documents; what is built is an input of `RegistryStore`.
- Issue threads: a score over texts and places with constants tuned by eye, and a vote
  that is one upsert.
- The health check and the public dashboard: read-only queries.
- The probe's exploration of a form in `wizard.py` (what one walk reads is an input of
  `NightlyWalk`), waits of the browser and its selectors, but for the options that are found
  by their text.
- `use_bundled`, which takes the stored version out of use: nothing calls it.
- Conversion of HEIC photos, the backfill's choice of dates, public sums of stances and
  verdicts, display names and policy versions: no property tells them apart.
- How often mail may be asked for: counters of one process whose effect is a refusal.

## Plan

What proofs could still add: one theorem over both registry modules, that an adoption in
the store is what an instance's cache follows (they share a proof module and nothing
else yet); an abstract specification of what a person is told, which the push pass of
`Tidings` implements; and, of the liveness properties, that no step leads away from the
goal (a filed row, a purged photo, a case that is as the City has it). Of the system, the
score of issue threads and the comparison of two registries are functions that could be
checked against a reference definition over small inputs.
