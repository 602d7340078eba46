------------------------------- MODULE Mirror -------------------------------
(***************************************************************************)
(* The mirror of the City's cases (client.py, ingest.py, refresh.py and    *)
(* their tables in db.py). The ingest job reads the list by windows of     *)
(* activity time and pages, upserts it in one transaction and then fetches *)
(* details and photos; the refresh job and people on the site ask about    *)
(* single cases meanwhile. The City changes cases at any moment, which     *)
(* moves them to the end of its list, refuses queries, fails and is        *)
(* redeployed.                                                             *)
(*                                                                         *)
(* A case is its version: 0 before it is filed, and one more with every    *)
(* change. Both clocks are taken to agree, so "last updated after it was   *)
(* enriched" is: of a later version than the City had at that moment.      *)
(***************************************************************************)
EXTENDS Naturals, SequencesExt

CONSTANTS
    Cases,
    Linked,      \* cases that someone sent or follows
    Span,        \* length of an ingest's range, in windows of MIN_WINDOW
    PageSize,    \* LIST_PAGE_SIZE
    MaxRetries,  \* max_retries
    VolumeRetries, GiveUpAfter,   \* VOLUME_RETRIES, VOLUME_GIVE_UP_AFTER
    MaxDetails,  \* --max-details
    Askers,      \* what asks about single cases: the refresh job, requests of people
    Pictured,    \* cases with photos
    MaxChanges,  \* bound of the model: changes by the City
    MaxOdd,      \* bound of the model: refusals, failures, redeployments, killed jobs
    None

ASSUME MirrorAssumption ==
    /\ IsFiniteSet(Cases) /\ Linked \subseteq Cases
    /\ None \notin Cases \cup {"staged", "stored", "failed", "lost"}
    /\ Span \in Nat \ {0} /\ PageSize \in Nat \ {0} /\ GiveUpAfter \in Nat \ {0}
    /\ MaxRetries \in Nat /\ VolumeRetries \in Nat /\ MaxDetails \in Nat
    /\ MaxChanges \in Nat /\ MaxOdd \in Nat

VARIABLES
    order,       \* of the City's cases: <<c, d>> where d's last activity is the newer
    slot,        \* the window of its range in which a case was last active
    version,     \* the City's version of each case
    changes, odd,
    listed,      \* service_requests: the version of the list columns, 0 for no row
    detail,      \* the version of the detail columns, 0 for never enriched
    stamp,       \* the City's version at enriched_at
    blind,       \* the case changed between that detail's answer and enriched_at
    media,       \* a case's photos: no rows, "staged", "stored" or, for good, "failed";
                 \* "lost": no rows, though the detail that named them is stored
    ingest,      \* the ingest job
    refresh      \* a pass of the refresh job, or a person's request, of each asker

city == <<order, slot, version>>
stored == <<listed, detail, stamp, blind>>
rows == <<stored, media>>
vars == <<city, changes, odd, rows, ingest, refresh>>

Idle == [pc |-> "idle", stack |-> <<>>, page |-> 1, got |-> [c \in Cases |-> 0],
         volume |-> 0, caps |-> 0, capped |-> {}, session |-> "none", tries |-> 0,
         rebooted |-> FALSE, todo |-> {}, case |-> None, answer |-> 0, quiet |-> TRUE]

Asleep == [pc |-> "idle", by |-> None, todo |-> {}, case |-> None, answer |-> 0]

Filed == {c \in Cases : version[c] > 0}

\* One of two cases is the older, and the older of the older is the oldest.
Ordered ==
    /\ order \subseteq Filed \X Filed
    /\ \A c, d \in Filed : <<c, d>> \in order <=> c # d /\ <<d, c>> \notin order
    /\ \A b, c, d \in Filed : <<b, c>> \in order /\ <<c, d>> \in order => <<b, d>> \in order

TypeOK ==
    /\ Ordered
    /\ slot \in [Cases -> 1..Span]
    /\ \A f \in {version, listed, detail, stamp} : f \in [Cases -> 0..MaxChanges + 1]
    /\ \A c \in Cases : listed[c] <= version[c] /\ detail[c] <= version[c]
    /\ blind \in [Cases -> BOOLEAN]
    /\ \A c \in Cases : media[c] # None => c \in Pictured /\ detail[c] > 0
    /\ ingest.pc \in {"idle", "list", "upsert", "select", "enrich", "apply", "stage", "media"}
    /\ \A w \in ToSet(ingest.stack) : w[1] < w[2] /\ w[2] <= Span
    /\ ingest.capped \subseteq 1..Span /\ ingest.session \in {"none", "ok", "stale"}
    /\ \A a \in Askers : refresh[a].pc \in {"idle", "ask", "upsert", "apply", "stage"}
    /\ changes \in 0..MaxChanges /\ odd \in 0..MaxOdd

\* The first ingest of an empty mirror; all of the City's cases but one are filed.
Init ==
    /\ \E c \in Cases : version = [d \in Cases |-> IF d = c THEN 0 ELSE 1]
    /\ order \in SUBSET (Filed \X Filed) /\ Ordered
    /\ slot \in [Cases -> 1..Span]
    /\ \A p \in order : slot[p[1]] <= slot[p[2]]
    /\ changes = 0 /\ odd = 0
    /\ listed = [c \in Cases |-> 0] /\ detail = listed /\ stamp = listed
    /\ blind = [c \in Cases |-> FALSE]
    /\ media = [c \in Cases |-> None]
    /\ ingest = Idle
    /\ refresh = [a \in Askers |-> Asleep]

-----------------------------------------------------------------------------
(* The City                                                                *)

\* A case is filed or changed: it is the last in the list now.
CityChanges(c) ==
    /\ changes < MaxChanges
    /\ changes' = changes + 1
    /\ order' = {p \in order : c \notin {p[1], p[2]}} \cup (Filed \ {c}) \X {c}
    /\ slot' = [slot EXCEPT ![c] = Span]
    /\ version' = [version EXCEPT ![c] = @ + 1]
    /\ ingest' = [ingest EXCEPT !.quiet = @ /\ ingest.pc \notin {"list", "upsert"}]
    /\ UNCHANGED <<odd, rows, refresh>>

Redeployed ==
    /\ ingest.session = "ok"
    /\ odd < MaxOdd /\ odd' = odd + 1
    /\ ingest' = [ingest EXCEPT !.session = "stale"]
    /\ UNCHANGED <<city, changes, rows, refresh>>

Within(w) == {c \in Filed : w[1] < slot[c] /\ slot[c] <= w[2]}

\* Where a case comes in the window's list.
Place(w, c) == Cardinality({d \in Within(w) : <<d, c>> \in order})

\* list_page: a page of the window, as it is at this moment.
Page(w, p) == {c \in Within(w) : (p - 1) * PageSize <= Place(w, c) /\ Place(w, c) < p * PageSize}

-----------------------------------------------------------------------------
(* fetch_range                                                             *)

Top == Last(ingest.stack)
AtFloor == Top[2] - Top[1] = 1
Windows == <<(<<0, Span>>)>>

\* run_ingest: start_run, and the range cut into windows.
IngestBegins ==
    /\ ingest.pc = "idle"
    /\ ingest' = [Idle EXCEPT !.pc = "list", !.stack = Windows]
    /\ UNCHANGED <<city, changes, odd, rows, refresh>>

\* What is left of the run when no window is left.
Drained(i) == IF i.stack = <<>> THEN [i EXCEPT !.pc = "upsert"] ELSE i

\* _post_action: a call goes out in the session there is. The City answers it, or
\* refuses its volume, or fails, or does not know the session any more.
Calls == ingest.pc = "list" /\ ingest.session = "ok"

\* One call that the City answers; a short page ends the window.
ReadsPage ==
    /\ Calls
    /\ LET page == Page(Top, ingest.page)
           read == [ingest EXCEPT !.got = [c \in Cases |-> IF c \in page THEN version[c] ELSE @[c]],
                                  !.tries = 0, !.rebooted = FALSE]
       IN  ingest' = IF Cardinality(page) = PageSize
                     THEN [read EXCEPT !.page = @ + 1]
                     ELSE Drained([read EXCEPT !.stack = Front(@), !.page = 1, !.volume = 0,
                                               !.caps = 0])
    /\ UNCHANGED <<city, changes, odd, rows, refresh>>

\* bootstrap, before the first call; and by _call on out of sync, once in a call:
\* the second time the error is raised.
Bootstraps ==
    /\ ingest.pc = "list" /\ ingest.session # "ok"
    /\ ingest' = IF ingest.rebooted THEN Idle
                 ELSE [ingest EXCEPT !.session = "ok", !.rebooted = ingest.session = "stale"]
    /\ UNCHANGED <<city, changes, odd, rows, refresh>>

\* _call on a transient error: tried again, and the run fails in the end.
CallFails ==
    /\ Calls
    /\ odd < MaxOdd /\ odd' = odd + 1
    /\ ingest' = IF ingest.tries = MaxRetries THEN Idle ELSE [ingest EXCEPT !.tries = @ + 1]
    /\ UNCHANGED <<city, changes, rows, refresh>>

Halves(w) == LET mid == (w[1] + w[2]) \div 2 IN <<(<<mid, w[2]>>), (<<w[1], mid>>)>>

\* Mutant: a window is reported from one too early.
UnitsFromStart(w) == w[1]..w[2]

Units(w) == (w[1] + 1)..w[2]

\* Mutant: what is left when the run gives up is not reported.
AbandonedQuietly(stack) == {}

Abandoned(stack) == UNION {Units(w) : w \in ToSet(stack)}

\* VolumeTooLargeError: a large window is split; one at the floor is tried again,
\* then reported and skipped, and after enough of those all that is left is.
Refused ==
    /\ Calls
    /\ odd < MaxOdd /\ odd' = odd + 1
    /\ LET again == [ingest EXCEPT !.page = 1, !.tries = 0, !.rebooted = FALSE]
           rest == Front(ingest.stack)
           skipped == [again EXCEPT !.stack = rest, !.volume = 0, !.caps = @ + 1,
                                    !.capped = @ \cup Units(Top)]
       IN  ingest' =
             IF ~AtFloor THEN [again EXCEPT !.stack = rest \o Halves(Top)]
             ELSE IF ingest.volume < VolumeRetries THEN [again EXCEPT !.volume = @ + 1]
             ELSE IF skipped.caps >= GiveUpAfter
                  THEN [skipped EXCEPT !.pc = "upsert", !.stack = <<>>,
                                       !.capped = @ \cup Abandoned(rest)]
             ELSE Drained(skipped)
    /\ UNCHANGED <<city, changes, rows, refresh>>

-----------------------------------------------------------------------------
(* run_ingest after the list                                               *)

\* upsert_list_records, one transaction: what was read, whatever a refresh has
\* stored since. Nothing was read and the last good run is long ago: the run fails.
\* From here on a redeployment is a call that fails at most.
Upserts ==
    /\ ingest.pc = "upsert"
    /\ LET read == {c \in Cases : ingest.got[c] > 0}
       IN  \/ /\ listed' = [c \in Cases |-> IF c \in read THEN ingest.got[c] ELSE listed[c]]
              /\ ingest' = [Idle EXCEPT !.pc = "select"]
           \/ /\ read = {} /\ ingest.capped # {}
              /\ ingest' = Idle
              /\ UNCHANGED listed
    /\ UNCHANGED <<city, changes, odd, detail, stamp, blind, media, refresh>>

\* Mutant: a case is enriched once.
NeedsDetailOnce(c) == listed[c] > 0 /\ detail[c] = 0

\* select_needing_enrichment: never enriched, or changed since as far as is listed.
NeedsDetail(c) == listed[c] > 0 /\ (detail[c] = 0 \/ listed[c] > stamp[c])

\* The first of them, those never enriched before the others.
Selects ==
    /\ ingest.pc = "select"
    /\ \E s \in SUBSET {c \in Cases : NeedsDetail(c)} :
          /\ \A d \in Cases \ s : NeedsDetail(d) =>
                /\ Cardinality(s) = MaxDetails
                /\ detail[d] = 0 => \A c \in s : detail[c] = 0
          /\ Cardinality(s) <= MaxDetails
          /\ ingest' = [ingest EXCEPT !.pc = "enrich", !.todo = s]
    /\ UNCHANGED <<city, changes, odd, rows, refresh>>

\* get_detail of a case; the photos come when none is left.
Enriches ==
    /\ ingest.pc = "enrich"
    /\ \/ \E c \in ingest.todo :
             ingest' = [ingest EXCEPT !.pc = "apply", !.todo = @ \ {c},
                                      !.case = c, !.answer = version[c]]
       \/ /\ ingest.todo = {}
          /\ ingest' = [ingest EXCEPT !.pc = "media"]
    /\ UNCHANGED <<city, changes, odd, rows, refresh>>

\* A detail that cannot be had is skipped.
DetailFails ==
    /\ ingest.pc = "apply"
    /\ odd < MaxOdd /\ odd' = odd + 1
    /\ ingest' = [ingest EXCEPT !.pc = "enrich", !.case = None, !.answer = 0]
    /\ UNCHANGED <<city, changes, rows, refresh>>

\* apply_detail: the answer, stamped with the time it is stored.
Store(c, answer) ==
    /\ detail' = [detail EXCEPT ![c] = answer]
    /\ stamp' = [stamp EXCEPT ![c] = version[c]]
    /\ blind' = [blind EXCEPT ![c] = answer # version[c]]
    /\ UNCHANGED <<listed, media>>

Applies ==
    /\ ingest.pc = "apply"
    /\ Store(ingest.case, ingest.answer)
    /\ ingest' = [ingest EXCEPT !.pc = "stage"]
    /\ UNCHANGED <<city, changes, odd, refresh>>

\* upsert_media_rows, a transaction of its own: rows that exist keep what became of them.
Staged(c) == [media EXCEPT ![c] = IF c \in Pictured /\ @ \in {None, "lost"} THEN "staged" ELSE @]

\* What a job leaves that is killed before it.
Unstaged(c) == [media EXCEPT ![c] = IF c \in Pictured /\ @ = None THEN "lost" ELSE @]

Stages ==
    /\ ingest.pc = "stage"
    /\ media' = Staged(ingest.case)
    /\ ingest' = [ingest EXCEPT !.pc = "enrich", !.case = None, !.answer = 0]
    /\ UNCHANGED <<city, changes, odd, stored, refresh>>

\* select_media_pending_download.
PendingMedia == {c \in Cases : media[c] = "staged"}

\* fetch_pending_media: each is stored or, whatever the error was, marked as failed: a
\* photo that the City keeps private always, another when a call or the store fails.
Downloads ==
    /\ ingest.pc = "media"
    /\ \/ \E c \in PendingMedia, outcome \in {"stored", "failed"} :
             media' = [media EXCEPT ![c] = outcome] /\ UNCHANGED ingest
       \/ PendingMedia = {} /\ ingest' = Idle /\ UNCHANGED media
    /\ UNCHANGED <<city, changes, odd, stored, refresh>>

\* The job is killed, or its schema check fails.
IngestDies ==
    /\ ingest.pc # "idle"
    /\ odd < MaxOdd /\ odd' = odd + 1
    /\ ingest' = Idle
    /\ media' = IF ingest.pc = "stage" THEN Unstaged(ingest.case) ELSE media
    /\ UNCHANGED <<city, changes, stored, refresh>>

-----------------------------------------------------------------------------
(* refresh.run, every quarter of an hour, and a person's request           *)

\* due_cases: linked cases that are not closed as far as the mirror knows, and
\* were not asked about just now.
Closed(v) == v = MaxChanges + 1

AskAbout(a, by, cases) ==
    /\ refresh[a].pc = "idle" /\ cases # {}
    /\ refresh' = [refresh EXCEPT ![a] = [Asleep EXCEPT !.pc = "ask", !.by = by, !.todo = cases]]
    /\ UNCHANGED <<city, changes, odd, rows, ingest>>

\* One pass at a time, by a lock.
RefreshBegins(a) ==
    /\ \A b \in Askers : refresh[b].by # "schedule"
    /\ \E due \in SUBSET {c \in Linked : ~Closed(listed[c])} : AskAbout(a, "schedule", due)

\* refresh_my_requests: the newest links of an account, whatever is known of them.
RefreshMine(a) == \E mine \in SUBSET Linked : AskAbout(a, "press", mine)

\* refresh_one: any case, if the mirror has not heard of it just now.
RefreshOne(a) == \E c \in Cases : AskAbout(a, "press", {c})

\* refresh_cases asks about one: the answer, or that there is no such case yet.
Asks(a) ==
    /\ refresh[a].pc = "ask"
    /\ \/ \E c \in refresh[a].todo :
             LET rest == [refresh[a] EXCEPT !.todo = @ \ {c}]
             IN  refresh' = [refresh EXCEPT ![a] =
                     IF version[c] = 0 THEN rest
                     ELSE [rest EXCEPT !.pc = "upsert", !.case = c, !.answer = version[c]]]
       \/ /\ refresh[a].todo = {}
          /\ refresh' = [refresh EXCEPT ![a] = Asleep]
    /\ UNCHANGED <<city, changes, odd, rows, ingest>>

\* An error, or an answer in no known shape, ends the job's pass (stop_on_error) and is
\* one result of a person's request.
AskFails(a) ==
    /\ refresh[a].pc = "ask"
    /\ odd < MaxOdd /\ odd' = odd + 1
    /\ \E c \in refresh[a].todo :
          LET rest == [refresh[a] EXCEPT !.todo = @ \ {c}]
          IN  refresh' = [refresh EXCEPT ![a] = IF refresh[a].by = "schedule" THEN Asleep ELSE rest]
    /\ UNCHANGED <<city, changes, rows, ingest>>

\* The answer is stored in three transactions: the list columns, the detail, the photos.
RefreshUpserts(a) ==
    /\ refresh[a].pc = "upsert"
    /\ listed' = [listed EXCEPT ![refresh[a].case] = refresh[a].answer]
    /\ refresh' = [refresh EXCEPT ![a].pc = "apply"]
    /\ UNCHANGED <<city, changes, odd, detail, stamp, blind, media, ingest>>

RefreshApplies(a) ==
    /\ refresh[a].pc = "apply"
    /\ Store(refresh[a].case, refresh[a].answer)
    /\ refresh' = [refresh EXCEPT ![a].pc = "stage"]
    /\ UNCHANGED <<city, changes, odd, ingest>>

RefreshStages(a) ==
    /\ refresh[a].pc = "stage"
    /\ media' = Staged(refresh[a].case)
    /\ refresh' = [refresh EXCEPT ![a].pc = "ask", ![a].case = None, ![a].answer = 0]
    /\ UNCHANGED <<city, changes, odd, stored, ingest>>

RefreshDies(a) ==
    /\ refresh[a].pc # "idle"
    /\ odd < MaxOdd /\ odd' = odd + 1
    /\ refresh' = [refresh EXCEPT ![a] = Asleep]
    /\ media' = IF refresh[a].pc = "stage" THEN Unstaged(refresh[a].case) ELSE media
    /\ UNCHANGED <<city, changes, stored, ingest>>

-----------------------------------------------------------------------------

Job ==
    \/ IngestBegins \/ ReadsPage \/ Bootstraps \/ Upserts \/ Selects \/ Enriches \/ Applies
    \/ Stages \/ Downloads
Begins(a) == RefreshBegins(a) \/ RefreshMine(a) \/ RefreshOne(a)
Goes(a) == Asks(a) \/ RefreshUpserts(a) \/ RefreshApplies(a) \/ RefreshStages(a)
Accident ==
    \/ Redeployed \/ CallFails \/ Refused \/ DetailFails \/ IngestDies
    \/ \E a \in Askers : AskFails(a) \/ RefreshDies(a)

Next == (\E c \in Cases : CityChanges(c)) \/ Job \/ (\E a \in Askers : Begins(a) \/ Goes(a)) \/ Accident

Spec == Init /\ [][Next]_vars

\* The scheduler starts an ingest again and again, and what is under way and not killed
\* goes on. Nothing is asked of the City, nobody has to ask for a refresh.
FairSpec == Spec /\ WF_vars(Job) /\ \A a \in Askers : WF_vars(Goes(a))

-----------------------------------------------------------------------------
(* Properties                                                              *)

\* "Skipped windows are never silent" (client.py): when the City kept still
\* during the list, whatever it refused and however windows were split, every
\* case is stored as it is or lies in a window that was reported incomplete.
NothingSkippedSilently ==
    [][ingest.pc = "upsert" /\ ingest'.pc = "select" /\ ingest.quiet =>
          \A c \in Cases :
              version[c] > 0 => listed'[c] = version[c] \/ slot[c] \in ingest.capped]_vars

\* ingest.py and select_needing_enrichment: once the City and the accidents
\* rest, the mirror ends with each case's list columns as they are, and with its
\* detail, but of a case that changed between the detail's answer and its stamp; and each
\* photo is stored or was refused once, but where a job was killed before it noted which
\* photos the detail it had stored names.
MirrorCatchesUp ==
    <>[](\A c \in Cases :
            /\ listed[c] = version[c]
            /\ detail[c] = version[c] \/ blind[c]
            /\ c \in Pictured => version[c] = 0 \/ media[c] \in {"stored", "failed", "lost"})
=============================================================================
