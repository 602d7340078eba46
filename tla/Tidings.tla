------------------------------ MODULE Tidings ------------------------------
(***************************************************************************)
(* What an account is told: links to a case, the verdict and the support   *)
(* that hang on them (db.py), the push pass that two jobs run (push.py),   *)
(* watches (watches.py) and the daily digest with its confirmed address    *)
(* (digest.py), with the routes of submit.py that reach them.              *)
(*                                                                         *)
(* The links of one case are modelled: those of another share nothing with *)
(* them. A case has a type and a place; coordinates are places and which   *)
(* places are near each other. Times are ticks of one clock that moves     *)
(* with every event whose time is compared with another.                   *)
(***************************************************************************)
EXTENDS Naturals, SequencesExt

CONSTANTS
    Users,
    OwnEmail,     \* the verified address an account signs in with, or None
    Addresses,
    Tokens,       \* APNs tokens of phones
    MaxDevices,   \* MAX_DEVICES
    Jobs,         \* the jobs that run the push pass
    Statuses,     \* the City's statuses
    Cases, Places, TypeOf, PlaceOf,    \* cases that a watch may match
    Near,         \* pairs of places within NEARBY_METERS
    Payloads,     \* what may be asked to be watched
    MaxWatches,   \* MAX_WATCHES
    FeedLimit,    \* FEED_LIMIT
    MaxFailures,  \* MAX_FAILURES
    MaxMoves,     \* bound of the model: changes of the linked case's status
    MaxTime,      \* bound of the model: ticks of the clock
    None

\* A row of request_links, what a pass reads of one, and the pass.
Link == [relation : {"mine", "following"}, notified : Statuses \cup {None}, fresh : BOOLEAN]
Reading == [user : Users, link : Link, now : Statuses]
Pass == [pc : {"idle", "claim", "send"}, todo : SUBSET Reading, row : Reading \cup {None},
         left : SUBSET Tokens]

\* A transaction on the mirror; a watch; an account's digest columns, what the
\* job reads of them, and the job.
Upsert == [at : 1..MaxTime, as : [Cases -> 0..MaxTime]]
Watch ==
    [kind : {"category"}, type : {TypeOf[c] : c \in Cases}]
    \cup [kind : {"address"}, places : SUBSET Places, around : SUBSET Places]
    \cup [kind : {"area"}, places : SUBSET Places]
Digest == [email : Addresses \cup {None}, confirmed : 0..MaxTime, sent : 0..MaxTime,
           failures : 0..MaxFailures]
Person == [user : Users, since : 0..MaxTime, email : Addresses, failures : 0..MaxFailures]
Run == [pc : {"idle", "next", "send"}, now : 0..MaxTime, todo : SUBSET Person,
        person : Person \cup {None}, items : SUBSET Cases, left : SUBSET Cases]

ASSUME TidingsAssumption ==
    /\ OwnEmail \in [Users -> Addresses \cup {None}]
    /\ None \notin Addresses \cup Users \cup Statuses \cup Tokens
    /\ None \notin Link \cup Reading \cup Person \cup Upsert
    /\ PlaceOf \in [Cases -> Places]
    /\ \A p \in Payloads : \/ p.kind = "category"
                           \/ p.kind \in {"address", "area"} /\ p.places \subseteq Places
    /\ MaxDevices \in Nat \ {0} /\ MaxWatches \in Nat \ {0} /\ FeedLimit \in Nat \ {0}
    /\ MaxFailures \in Nat \ {0} /\ MaxMoves \in Nat /\ MaxTime \in Nat \ {0}

VARIABLES
    status,      \* the linked case's status in the mirror, None before it is there
    became,      \* how often the mirror has come to each status
    link,        \* request_links: the relation, what was last told, made just now
    told,        \* how often a link's person was told of each status
    verdict,     \* feedback: the relation it was given in
    stance,      \* request_stances
    devices,     \* push_devices of an account, the one seen last first
    off,         \* tokens that Apple said are gone
    pass,        \* a job's push pass

    clock,
    cityAt,      \* when the City last changed a case
    seen,        \* service_requests.first_seen_at, 0 for no row
    updated,     \* service_requests.last_updated_datetime
    upsert,      \* a transaction that writes the mirror
    watches,     \* watches: the specs of an account's watches
    digest,      \* the digest columns of portal_users
    asked,       \* confirmation links in someone's mail
    mailed,      \* unsubscribe links in someone's mail
    proved,      \* account and address: opened the link, or signs in with it
    owed,        \* news that the next digest has to tell
    run          \* the digest job

links == <<status, became, link, told, verdict, stance>>
phones == <<devices, off>>
mirror == <<cityAt, seen, updated, upsert>>
digests == <<clock, mirror, watches, digest, asked, mailed, proved, owed, run>>
vars == <<links, phones, pass, digests>>

Quiet == [pc |-> "idle", todo |-> {}, row |-> None, left |-> {}]
NoDigest == [email |-> None, confirmed |-> 0, sent |-> 0, failures |-> 0]
Asleep == [pc |-> "idle", now |-> 0, todo |-> {}, person |-> None, items |-> {},
           left |-> {}]

TypeOK ==
    /\ status \in Statuses \cup {None} /\ became \in [Statuses -> Nat]
    /\ link \in [Users -> Link \cup {None}] /\ told \in [Users -> [Statuses -> Nat]]
    /\ verdict \in [Users -> {"mine", "following", None}]
    /\ stance \in [Users -> {"support", "oppose", None}]
    /\ devices \in [Users -> Seq(Tokens)] /\ off \subseteq Tokens
    /\ \A u \in Users :
          /\ Len(devices[u]) <= MaxDevices /\ IsInjective(devices[u])
          /\ \A w \in Users \ {u} : ToSet(devices[u]) \cap ToSet(devices[w]) = {}
          /\ digest[u].failures = MaxFailures => digest[u].confirmed = 0
          /\ digest[u].email = None => digest[u].confirmed = 0
    /\ pass \in [Jobs -> Pass]
    /\ clock \in 1..MaxTime /\ upsert \in Upsert \cup {None}
    /\ cityAt \in [Cases -> 0..MaxTime] /\ seen \in [Cases -> 0..MaxTime]
    /\ updated \in [Cases -> 0..MaxTime]
    /\ \A c \in Cases : seen[c] <= clock /\ updated[c] <= cityAt[c] /\ cityAt[c] <= clock
    /\ watches \in [Users -> SUBSET Watch] /\ digest \in [Users -> Digest]
    /\ owed \in [Users -> SUBSET Cases]
    /\ run \in Run
    /\ proved \subseteq Users \X Addresses
    /\ asked \subseteq Users \X Addresses /\ mailed \subseteq asked \cup proved

\* An empty mirror; an account may have confirmed an address already.
Init ==
    /\ \E confirmed \in SUBSET (Users \X Addresses) :
          /\ \A p, q \in confirmed : p[1] = q[1] => p = q
          /\ asked = {p \in confirmed : OwnEmail[p[1]] # p[2]}
          /\ digest = [u \in Users |-> IF \E p \in confirmed : p[1] = u
                THEN [NoDigest EXCEPT !.email = (CHOOSE p \in confirmed : p[1] = u)[2],
                                      !.confirmed = 1]
                ELSE NoDigest]
    /\ status = None /\ became = [s \in Statuses |-> 0]
    /\ link = [u \in Users |-> None]
    /\ told = [u \in Users |-> [s \in Statuses |-> 0]]
    /\ verdict = [u \in Users |-> None] /\ stance = verdict
    /\ devices = [u \in Users |-> <<>>] /\ off = {}
    /\ pass = [j \in Jobs |-> Quiet]
    /\ clock = 1
    /\ cityAt = [c \in Cases |-> 0] /\ seen = cityAt /\ updated = cityAt
    /\ upsert = None
    /\ watches = [u \in Users |-> {}] /\ owed = watches
    /\ mailed = {}
    /\ proved = asked \cup {p \in Users \X Addresses : OwnEmail[p[1]] = p[2]}
    /\ run = Asleep

-----------------------------------------------------------------------------
(* Links, verdicts and support                                             *)

\* An ingest or a refresh stores another status of the case.
StatusMoves(s) ==
    /\ s # status
    /\ FoldFunction(+, 0, became) < MaxMoves
    /\ status' = s
    /\ became' = [became EXCEPT ![s] = @ + 1]
    /\ UNCHANGED <<link, told, verdict, stance, phones, pass, digests>>

Is(u, relation) == link[u] # None /\ link[u].relation = relation

\* link_request: mine outranks following.
Linked(l, relation) ==
    IF l = None THEN [relation |-> relation, notified |-> None, fresh |-> TRUE]
    ELSE [l EXCEPT !.relation = IF relation = "mine" THEN "mine" ELSE @]

\* The worker, when the City has given the number.
FiledFromHere(u) ==
    /\ ~ \E w \in Users : Is(w, "mine")
    /\ link' = [link EXCEPT ![u] = Linked(@, "mine")]
    /\ UNCHANGED <<status, became, told, verdict, stance, phones, pass, digests>>

\* follow needs no proof.
Follow(u) ==
    /\ link' = [link EXCEPT ![u] = Linked(@, "following")]
    /\ UNCHANGED <<status, became, told, verdict, stance, phones, pass, digests>>

\* unfollow: what is told after that is told to another link.
Unfollow(u) ==
    /\ link[u] # None
    /\ link' = [link EXCEPT ![u] = None]
    /\ told' = [told EXCEPT ![u] = [s \in Statuses |-> 0]]
    /\ UNCHANGED <<status, became, verdict, stance, phones, pass, digests>>

\* Two days pass.
LinkAges(u) ==
    /\ link[u] # None
    /\ link' = [link EXCEPT ![u].fresh = FALSE]
    /\ UNCHANGED <<status, became, told, verdict, stance, phones, pass, digests>>

\* save_feedback: makes a link when there is none; the relation stays that of the
\* first verdict when it is revised.
SaveFeedback(u) ==
    /\ link' = [link EXCEPT ![u] = IF @ = None THEN Linked(@, "following") ELSE @]
    /\ verdict' = [verdict EXCEPT ![u] = IF @ = None THEN link'[u].relation ELSE @]
    /\ UNCHANGED <<status, became, told, stance, phones, pass, digests>>

DeleteFeedback(u) ==
    /\ verdict[u] # None
    /\ verdict' = [verdict EXCEPT ![u] = None]
    /\ UNCHANGED <<status, became, link, told, stance, phones, pass, digests>>

\* The links a transaction sees that acts for account a: forced row-level security.
Visible(a) == {u \in Users : link[u] # None /\ u = a}

\* set_stance, for a case in the mirror. It looks for the person's own link but
\* does not say for whom it acts.
SetStance(u, s) ==
    /\ status # None
    /\ ~ (u \in Visible(None) /\ Is(u, "mine"))
    /\ stance' = [stance EXCEPT ![u] = s]
    /\ UNCHANGED <<status, became, link, told, verdict, phones, pass, digests>>

-----------------------------------------------------------------------------
(* Devices                                                                 *)

\* Mutant: the phone stays with the account that was signed in on it before.
RegisteredTwice(u, t) ==
    [devices EXCEPT ![u] =
        LET others == RemoveFirst(@, t)
        IN  <<t>> \o SubSeq(others, 1, IF Len(others) < MaxDevices
                                        THEN Len(others) ELSE MaxDevices - 1)]

\* register: a phone's token moves to the account that is signed in on it; an
\* account keeps the devices seen last.
Registered(u, t) ==
    [w \in Users |->
        LET others == RemoveFirst(devices[w], t)
        IN  IF w # u THEN others
            ELSE <<t>> \o SubSeq(others, 1, IF Len(others) < MaxDevices
                                            THEN Len(others) ELSE MaxDevices - 1)]

\* A phone registers when its person allows notifications and whenever the app starts.
Register(u, t) ==
    /\ devices' = Registered(u, t)
    /\ off' = off \ {t}
    /\ UNCHANGED <<links, pass, digests>>

Unregister(u, t) ==
    /\ t \in ToSet(devices[u])
    /\ devices' = [devices EXCEPT ![u] = RemoveFirst(@, t)]
    /\ off' = off \ {t}
    /\ UNCHANGED <<links, pass, digests>>

-----------------------------------------------------------------------------
(* notify, at the end of an ingest and of a refresh                        *)

\* The links whose case is not at the status they were last told.
NotifyReads(j) ==
    /\ pass[j].pc = "idle"
    /\ LET changed == {u \in Users : link[u] # None /\ status \notin {None, link[u].notified}}
       IN  /\ changed # {}
           /\ pass' = [pass EXCEPT ![j] =
                 [Quiet EXCEPT !.pc = "claim",
                               !.todo = {[user |-> u, link |-> link[u], now |-> status] :
                                         u \in changed}]]
    /\ UNCHANGED <<links, phones, digests>>

\* Mutant: the link is moved whatever it holds by now.
HoldsAny(row) == link[row.user] # None

\* The link still holds what this pass read.
Holds(row) == link[row.user] # None /\ link[row.user].notified = row.link.notified

\* "received" for a request just sent from here; the first status of any other
\* link is a baseline.
Announces(row) ==
    row.link.notified = None => row.link.relation = "mine" /\ row.link.fresh

\* A pass claims the next link, reads its person's devices, and is at work on it;
\* or it has lost the link to the other pass.
Claims(j) ==
    /\ pass[j].pc = "claim"
    /\ \E row \in pass[j].todo :
          LET rest == [pass[j] EXCEPT !.todo = @ \ {row}]
          IN  IF Holds(row)
              THEN /\ link' = [link EXCEPT ![row.user].notified = row.now]
                   /\ IF Announces(row)
                      THEN /\ told' = [told EXCEPT ![row.user][row.now] = @ + 1]
                           /\ pass' = [pass EXCEPT ![j] = [rest EXCEPT !.pc = "send", !.row = row,
                                          !.left = ToSet(devices[row.user]) \ off]]
                      ELSE UNCHANGED told /\ pass' = [pass EXCEPT ![j] = rest]
              ELSE UNCHANGED <<link, told>> /\ pass' = [pass EXCEPT ![j] = rest]
    /\ UNCHANGED <<status, became, verdict, stance, phones, digests>>

\* One device: sent, failed for good, or gone and switched off.
Sends(j) ==
    /\ pass[j].pc = "send"
    /\ \E t \in pass[j].left, gone \in BOOLEAN :
          /\ off' = IF gone /\ \E u \in Users : t \in ToSet(devices[u]) THEN off \cup {t} ELSE off
          /\ pass' = [pass EXCEPT ![j].left = @ \ {t}]
    /\ UNCHANGED <<links, devices, digests>>

Sent(j) ==
    /\ pass[j].pc = "send" /\ pass[j].left = {}
    /\ pass' = [pass EXCEPT ![j].pc = "claim", ![j].row = None]
    /\ UNCHANGED <<links, phones, digests>>

\* The pass is over, or the job is killed: what it has claimed and not sent is lost.
PassEnds(j) ==
    /\ pass[j].pc # "idle"
    /\ pass' = [pass EXCEPT ![j] = Quiet]
    /\ UNCHANGED <<links, phones, digests>>

-----------------------------------------------------------------------------
(* Watches                                                                 *)

Mirrored == {c \in Cases : seen[c] > 0}

\* category_spec: a type the City has used.
CategorySpecs(p) ==
    {[kind |-> "category", type |-> p.type] : c \in {d \in Mirrored : TypeOf[d] = p.type}}

\* address_spec: "nearby" measures from the places the City has used by now.
AddressSpecs(p) ==
    {[kind |-> "address", places |-> p.places,
      around |-> IF p.nearby THEN p.places \cap {PlaceOf[c] : c \in Mirrored} ELSE {}]}

\* area_spec.
AreaSpecs(p) == {[kind |-> "area", places |-> p.places]}

Specs(p) == CASE p.kind = "category" -> CategorySpecs(p)
              [] p.kind = "address" -> AddressSpecs(p)
              [] p.kind = "area" -> AreaSpecs(p)

\* _clause.
Matches(w, c) ==
    CASE w.kind = "category" -> TypeOf[c] = w.type
      [] w.kind = "area" -> PlaceOf[c] \in w.places
      [] w.kind = "address" -> \/ PlaceOf[c] \in w.places
                              \/ \E place \in w.around : <<place, PlaceOf[c]>> \in Near

Watched(ws) == {c \in Cases : \E w \in ws : Matches(w, c)}

-----------------------------------------------------------------------------
(* The mirror and the feed                                                 *)

Ticks == clock < MaxTime /\ clock' = clock + 1

CityChanges(c) ==
    /\ Ticks
    /\ cityAt' = [cityAt EXCEPT ![c] = clock']
    /\ UNCHANGED <<links, phones, pass, seen, updated, upsert, watches, digest, asked, mailed,
                   proved, owed, run>>

\* A transaction that stores what the City has answered; now() is its beginning.
UpsertBegins ==
    /\ upsert = None
    /\ \E c \in Cases : cityAt[c] > updated[c]
    /\ Ticks
    /\ upsert' = [at |-> clock', as |-> cityAt]
    /\ UNCHANGED <<links, phones, pass, cityAt, seen, updated, watches, digest, asked, mailed,
                   proved, owed, run>>

\* The time that a digest compares with a case's.
Since(d) == IF d.sent > 0 THEN d.sent ELSE d.confirmed
On(d) == d.confirmed > 0

\* News of a case to someone who watches it is owed, unless a digest began after
\* its time: that of the City for a change, that of the transaction for a new case.
Late(u, t) == t <= Since(digest[u]) \/ (run.pc # "idle" /\ t <= run.now)

UpsertCommits ==
    /\ upsert # None
    /\ seen' = [c \in Cases |-> IF seen[c] = 0 /\ upsert.as[c] > 0 THEN upsert.at ELSE seen[c]]
    /\ updated' = upsert.as
    /\ owed' = [u \in Users |-> owed[u] \cup
          {c \in Watched(watches[u]) : /\ On(digest[u]) /\ updated'[c] > updated[c]
                                       /\ ~Late(u, IF seen[c] = 0 THEN upsert.at ELSE updated'[c])}]
    /\ upsert' = None
    /\ UNCHANGED <<links, phones, pass, clock, cityAt, watches, digest, asked, mailed, proved, run>>

\* add_watch. The watches are counted before one is stored and nothing is locked,
\* so the count may miss that of another request.
Added(ws, p) ==
    {ws \cup {w} : w \in {x \in Specs(p) \ ws :
        \E missed \in {0, 1} : Cardinality(ws) < MaxWatches + missed}}

AddWatch(u, p) ==
    /\ \E ws \in Added(watches[u], p) : watches' = [watches EXCEPT ![u] = ws]
    /\ UNCHANGED <<links, phones, pass, clock, mirror, digest, asked, mailed, proved, owed, run>>

RemoveWatch(u) ==
    /\ \E w \in watches[u] : watches' = [watches EXCEPT ![u] = @ \ {w}]
    /\ owed' = [owed EXCEPT ![u] = @ \cap Watched(watches'[u])]
    /\ UNCHANGED <<links, phones, pass, clock, mirror, digest, asked, mailed, proved, run>>

Newest(c) == IF seen[c] > updated[c] THEN seen[c] ELSE updated[c]

\* feed: what is new or changed since,
NewsFor(u, since) ==
    {c \in Mirrored \cap Watched(watches[u]) : seen[c] > since \/ updated[c] > since}

\* and the newest of it, as much as there is room for.
Feeds(news) ==
    {f \in SUBSET news : /\ f = news \/ Cardinality(f) = FeedLimit
                         /\ Cardinality(f) <= FeedLimit
                         /\ \A c \in f, d \in news \ f : Newest(d) <= Newest(c)}

-----------------------------------------------------------------------------
(* The digest's address                                                    *)

\* request: on at once for the address the account signs in with; else pending.
Requested(u, e) ==
    [digest EXCEPT ![u].email = e, ![u].failures = 0,
                   ![u].confirmed = IF OwnEmail[u] = e THEN clock + 1 ELSE 0]

\* digest_set: for a pending address a link is mailed, which may fail.
RequestDigest(u, e) ==
    /\ Ticks
    /\ digest' = Requested(u, e)
    /\ asked' \in {asked, IF OwnEmail[u] = e THEN asked ELSE asked \cup {<<u, e>>}}
    /\ owed' = [owed EXCEPT ![u] = {}]
    /\ UNCHANGED <<links, phones, pass, mirror, watches, mailed, proved, run>>

\* confirm.
Confirmed(d) == [d EXCEPT !.confirmed = clock + 1, !.failures = 0]

\* Mutant: the link confirms whatever address the account has by now.
ConfirmAny(u, e) ==
    /\ <<u, e>> \in asked /\ digest[u].email # None
    /\ Ticks
    /\ proved' = proved \cup {<<u, e>>}
    /\ digest' = [digest EXCEPT ![u] = Confirmed(@)]
    /\ owed' = [owed EXCEPT ![u] = {}]
    /\ UNCHANGED <<links, phones, pass, mirror, watches, asked, mailed, run>>

\* digest_confirm: the link in the mail, of the address the account still has.
Confirm(u, e) ==
    /\ <<u, e>> \in asked /\ digest[u].email = e
    /\ Ticks
    /\ proved' = proved \cup {<<u, e>>}
    /\ digest' = [digest EXCEPT ![u] = Confirmed(@)]
    /\ owed' = [owed EXCEPT ![u] = {}]
    /\ UNCHANGED <<links, phones, pass, mirror, watches, asked, mailed, run>>

\* unsubscribe and turn_off.
Off(d) == [d EXCEPT !.email = None, !.confirmed = 0]

\* digest_off.
TurnOff(u) ==
    /\ digest[u].email # None
    /\ digest' = [digest EXCEPT ![u] = Off(@)]
    /\ owed' = [owed EXCEPT ![u] = {}]
    /\ UNCHANGED <<links, phones, pass, clock, mirror, watches, asked, mailed, proved, run>>

\* digest_unsubscribe, by the link in any digest that went to the address.
Unsubscribe(u, e) ==
    /\ <<u, e>> \in mailed /\ digest[u].email = e
    /\ digest' = [digest EXCEPT ![u] = Off(@)]
    /\ owed' = [owed EXCEPT ![u] = {}]
    /\ UNCHANGED <<links, phones, pass, clock, mirror, watches, asked, mailed, proved, run>>

-----------------------------------------------------------------------------
(* digest.run                                                              *)

\* The people and their marks are read once.
DigestBegins ==
    /\ run.pc = "idle"
    /\ \E u \in Users : On(digest[u])
    /\ Ticks
    /\ run' = [Asleep EXCEPT !.pc = "next", !.now = clock',
                             !.todo = {[user |-> u, since |-> Since(digest[u]),
                                        email |-> digest[u].email, failures |-> digest[u].failures] :
                                       u \in {w \in Users : On(digest[w])}}]
    /\ UNCHANGED <<links, phones, pass, mirror, watches, digest, asked, mailed, proved, owed>>

\* Mutant: the mark is the time when the mail has gone out.
MarkAtEnd(u) == [digest EXCEPT ![u].sent = clock]

Mark(u) == [digest EXCEPT ![u].sent = run.now]

\* One person's feed; nothing in it moves the mark.
DigestFeeds ==
    /\ run.pc = "next"
    /\ \E p \in run.todo : \E items \in Feeds(NewsFor(p.user, p.since)) :
          LET rest == [run EXCEPT !.todo = @ \ {p}]
          IN  IF items = {}
              THEN digest' = Mark(p.user) /\ run' = rest
              ELSE /\ run' = [rest EXCEPT !.pc = "send", !.person = p, !.items = items,
                                         !.left = NewsFor(p.user, p.since) \ items]
                   /\ UNCHANGED digest
    /\ UNCHANGED <<links, phones, pass, clock, mirror, watches, asked, mailed, proved, owed>>

\* The mark that follows a mail is put behind all news: what it had no room for is lost.
DigestSent ==
    /\ run.pc = "send"
    /\ LET p == run.person
       IN  /\ digest' = [Mark(p.user) EXCEPT ![p.user].failures = 0]
           /\ mailed' = mailed \cup {<<p.user, p.email>>}
           /\ owed' = [owed EXCEPT ![p.user] = @ \ (run.items \cup run.left)]
    /\ run' = [run EXCEPT !.pc = "next", !.person = None, !.items = {}, !.left = {}]
    /\ UNCHANGED <<links, phones, pass, clock, mirror, watches, asked, proved>>

\* A mail that cannot be sent; after enough of those the digest is switched off.
Failed(d, fails) ==
    [d EXCEPT !.failures = fails, !.confirmed = IF fails >= MaxFailures THEN 0 ELSE @]

DigestFails ==
    /\ run.pc = "send"
    /\ LET p == run.person
       IN  digest' = [digest EXCEPT ![p.user] = Failed(@, p.failures + 1)]
    /\ run' = [run EXCEPT !.pc = "next", !.person = None, !.items = {}, !.left = {}]
    /\ UNCHANGED <<links, phones, pass, clock, mirror, watches, asked, mailed, proved, owed>>

\* Everyone has been served, or the job is killed.
DigestEnds ==
    /\ run.pc # "idle"
    /\ run' = Asleep
    /\ UNCHANGED <<links, phones, pass, clock, mirror, watches, digest, asked, mailed, proved, owed>>

-----------------------------------------------------------------------------

LinkStep ==
    \/ \E s \in Statuses : StatusMoves(s)
    \/ \E u \in Users :
          \/ FiledFromHere(u) \/ Follow(u) \/ Unfollow(u) \/ LinkAges(u) \/ SaveFeedback(u) \/ DeleteFeedback(u)
          \/ \E s \in {"support", "oppose", None} : SetStance(u, s)
          \/ \E t \in Tokens : Register(u, t) \/ Unregister(u, t)
    \/ \E j \in Jobs : NotifyReads(j) \/ Claims(j) \/ Sends(j) \/ Sent(j) \/ PassEnds(j)

DigestStep ==
    \/ \E c \in Cases : CityChanges(c)
    \/ UpsertBegins \/ UpsertCommits
    \/ \E u \in Users :
          \/ \E p \in Payloads : AddWatch(u, p)
          \/ RemoveWatch(u)
          \/ \E e \in Addresses : RequestDigest(u, e) \/ Confirm(u, e) \/ Unsubscribe(u, e)
          \/ TurnOff(u)
    \/ DigestBegins \/ DigestFeeds \/ DigestSent \/ DigestFails \/ DigestEnds

Next == LinkStep \/ DigestStep

Spec == Init /\ [][Next]_vars

-----------------------------------------------------------------------------
(* Properties                                                              *)

\* "A change is claimed before it is sent" (push.py): however the two jobs' passes
\* overlap, the person of a link is told of a status at most once; unless the City
\* has come back to a status, when a pass that is late may take the old reading for
\* the new one.
ToldOnce ==
    (\A s \in Statuses : became[s] <= 1) =>
        \A u \in Users, s \in Statuses : told[u][s] <= 1

\* "to an address the person confirmed" (digest.py): whatever addresses an account
\* has asked for and whatever old links are opened, a digest goes only to one that
\* was proved to be this account's, by its link or by signing in with it.
DigestOnlyProved ==
    /\ mailed \subseteq proved
    /\ run.person # None => <<run.person.user, run.person.email>> \in proved

\* "everything the mirror has seen or seen change" (digest.py): news that is owed
\* to a person is what the next digest will find, through failed mails, killed jobs
\* and news that comes while a digest is on its way. Two kinds of news are not owed,
\* they are lost: older than a digest's beginning when it reaches the mirror
\* (UpsertCommits), and more than FEED_LIMIT at once (DigestSent).
NewsIsKept ==
    \A u \in Users : \A c \in owed[u] :
        seen[c] > Since(digest[u]) \/ updated[c] > Since(digest[u])
=============================================================================
