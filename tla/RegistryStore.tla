--------------------------- MODULE RegistryStore ---------------------------
(***************************************************************************)
(* The registry as data (registry_store.py): the versions stored, the one  *)
(* in use, and the log of what was put in use. The nightly walk offers a   *)
(* registry and takes out what the City retired (walk.run); administrators *)
(* adopt and dismiss. Each runs in transactions of several statements that *)
(* see what others have committed (READ COMMITTED), so every action here   *)
(* is a statement's read or a transaction's commit.                        *)
(***************************************************************************)
EXTENDS Naturals, FiniteSets

CONSTANTS
    Types,          \* request types
    Forms,          \* what the rest of a registry asks
    InFile,         \* the registry in the image
    Bundled,        \* its version, which is not the fingerprint of its content
    Admins,
    MaxChanges,     \* bound of the model: times the City changes its catalog
    MaxFaults,      \* bound of the model: short answers, failed reads and jobs that died
    MaxDecisions,   \* bound of the model: decisions of administrators
    None

Contents == [types : SUBSET Types, form : Forms]
Versions == Contents \cup {Bundled}

ASSUME StoreAssumption ==
    /\ IsFiniteSet(Types)
    /\ InFile \in Contents
    /\ Bundled \notin Contents
    /\ None \notin Versions \cup Admins
    /\ MaxChanges \in Nat /\ MaxFaults \in Nat /\ MaxDecisions \in Nat

VARIABLES
    listed,     \* the request types the City lists
    status,     \* registry_versions.status, none where there is no row
    lastPut,    \* the last baseline or adopted event: what in_use_at answers now
    night,      \* where the walk is
    catalog,    \* what it read of the City tonight
    codes,      \* what was in use when it began and the City did not list
    offer,      \* the registry it is offering
    cur,        \* what its transaction took for the registry in use
    misread,    \* which is the file in the image, because the read failed
    seen,       \* the version propose found stored, or None, and its status
    target, was,    \* of each administrator: the version being adopted, the active one read
    changes, faults, decisions,
    crossed     \* a decision was committed since the walk's transaction read

walk == <<night, catalog, codes, offer, cur, misread, seen>>
vars == <<listed, status, lastPut, walk, target, was, changes, faults, decisions, crossed>>

Content(v) == IF v = Bundled THEN InFile ELSE v

\* diff: adopting reg over v changes something for a person filling the form. A
\* content is what it compares, so the file and a registry of its fingerprint
\* do not differ.
Differs(v, reg) == Content(v) # reg

\* active and current: the active version, or the file in the image.
ActiveIn(st) == IF \E v \in Versions : st[v] = "active"
                THEN CHOOSE v \in Versions : st[v] = "active"
                ELSE None
Active == ActiveIn(status)
Current == IF Active = None THEN Bundled ELSE Active

Inside == {"retiring", "proposing"}
Statuses == {"none", "proposed", "active", "retired", "dismissed"}

TypeOK ==
    /\ listed \subseteq Types
    /\ status \in [Versions -> Statuses]
    /\ \A u, v \in Versions : status[u] = "active" /\ status[v] = "active" => u = v
    /\ \A u, v \in Versions : status[u] = "proposed" /\ status[v] = "proposed" => u = v
    /\ lastPut \in Versions \cup {None}
    /\ night \in {"idle", "retire", "slice"} \cup Inside
    /\ catalog \subseteq Types
    /\ codes \subseteq Types \ catalog
    /\ offer \in Contents \cup {None}
    /\ cur \in Versions \cup {None}
    /\ seen \in Statuses \cup {None}
    /\ target \in [Admins -> Versions \cup {None}]
    /\ was \in [Admins -> Versions \cup {None}]
    /\ changes \in 0..MaxChanges /\ faults \in 0..MaxFaults /\ decisions \in 0..MaxDecisions
    /\ misread \in BOOLEAN /\ crossed \in BOOLEAN

Init ==
    /\ listed = InFile.types
    /\ status = [v \in Versions |-> "none"]
    /\ lastPut = None
    /\ night = "idle" /\ catalog = {} /\ codes = {}
    /\ offer = None /\ cur = None /\ seen = None
    /\ target = [t \in Admins |-> None]
    /\ was = [t \in Admins |-> None]
    /\ changes = 0 /\ faults = 0 /\ decisions = 0
    /\ misread = FALSE /\ crossed = FALSE

\* The City adds and retires request types.
CityChanges ==
    /\ changes < MaxChanges
    /\ changes' = changes + 1
    /\ listed' \in SUBSET Types \ {listed}
    /\ UNCHANGED <<status, lastPut, walk, target, was, faults, decisions, crossed>>

-----------------------------------------------------------------------------
(* What the transactions write                                             *)

\* _keep_baseline: before the first version is offered or goes into use, the
\* bundled one is stored and logged.
WithBaseline(st) ==
    IF lastPut = None /\ st[Bundled] = "none" THEN [st EXCEPT ![Bundled] = "retired"] ELSE st

\* Mutant of MakeActive: only the version read before is retired.
MakeActiveOverRead(st, v, read) ==
    /\ status' = [u \in Versions |->
                    IF u = v THEN "active"
                    ELSE IF u = read THEN "retired" ELSE WithBaseline(st)[u]]
    /\ lastPut' = v

\* _make_active: the version in use is retired, v is in use and logged. One
\* that is in use already is left alone.
MakeActive(st, v, read) ==
    IF read = v
      THEN status' = WithBaseline(st) /\ lastPut' = IF lastPut = None THEN Bundled ELSE lastPut
      ELSE /\ status' = [u \in Versions |->
                  IF u = v THEN "active"
                  ELSE IF WithBaseline(st)[u] = "active" THEN "retired" ELSE WithBaseline(st)[u]]
           /\ lastPut' = v

-----------------------------------------------------------------------------
(* The walk                                                                *)

\* run: a catalog shorter than 0.8 of the registry in use is not believed.
Short(live, known) == 5 * Cardinality(live) < 4 * Cardinality(known)

Fault == faults < MaxFaults /\ faults' = faults + 1

\* current: the version in use, or the file in the image when the read failed,
\* which the caller is not told.
Reads(v, failed) ==
    \/ ~failed /\ v = Current /\ UNCHANGED faults
    \/ failed /\ v = Bundled /\ Fault

\* What is to be retired is worked out once, from what was read as in use.
NightBegins(live, used) ==
    /\ night = "idle"
    /\ ~Short(live, Content(used).types)
    /\ catalog' = live
    /\ codes' = Content(used).types \ live
    /\ night' = IF codes' = {} THEN "slice" ELSE "retire"
    /\ UNCHANGED <<listed, status, lastPut, offer, cur, misread, seen, target, was, changes,
                   decisions, crossed>>

Night ==
    \E failed \in BOOLEAN, used \in {Current, Bundled} :
        Reads(used, failed) /\ NightBegins(listed, used)

\* The City's answer leaves some out.
ShortNight ==
    /\ Fault
    /\ \E live \in SUBSET listed, used \in {Current, Bundled} : NightBegins(live, used)

\* What is left of a version: the codes worked out when the night began are
\* taken out of what is read now.
Kept(v) == [Content(v) EXCEPT !.types = @ \ codes]

\* Mutant of RetireReads: it starts from the file and not from the one in use.
RetireReadsFile ==
    /\ night = "retire"
    /\ IF Content(Bundled).types \cap codes = {}
         THEN night' = "slice" /\ UNCHANGED cur
         ELSE night' = "retiring" /\ cur' = Bundled
    /\ UNCHANGED <<listed, status, lastPut, catalog, codes, offer, misread, seen, target, was,
                   changes, faults, decisions, crossed>>

\* retire_services reads the registry in use again; nothing is done when none
\* of the codes is in it.
RetireReads ==
    /\ night = "retire"
    /\ \E failed \in BOOLEAN, used \in {Current, Bundled} :
          /\ Reads(used, failed)
          /\ IF Content(used).types \cap codes = {}
               THEN night' = "slice" /\ UNCHANGED <<cur, misread>>
               ELSE night' = "retiring" /\ cur' = used /\ misread' = failed
    /\ UNCHANGED <<listed, status, lastPut, catalog, codes, offer, seen, target, was, changes,
                   decisions, crossed>>

\* Mutant of RetireCommits: what is left waits for an administrator too.
RetireWaits ==
    /\ night = "retiring"
    /\ status' = [status EXCEPT ![Kept(cur)] = IF @ = "none" THEN "retired" ELSE @]
    /\ night' = "slice"
    /\ cur' = None /\ misread' = FALSE /\ crossed' = FALSE
    /\ UNCHANGED <<listed, lastPut, catalog, codes, offer, seen, target, was, changes, faults,
                   decisions>>

\* retire_services: stored as retired unless it is there, then put in use.
RetireCommits ==
    /\ night = "retiring"
    /\ \A t \in Admins : target[t] # Kept(cur)
    /\ LET v == Kept(cur)
       IN  MakeActive(IF status[v] = "none" THEN [status EXCEPT ![v] = "retired"] ELSE status,
                      v, Active)
    /\ night' = "slice"
    /\ cur' = None /\ misread' = FALSE /\ crossed' = FALSE
    /\ UNCHANGED <<listed, catalog, codes, offer, seen, target, was, changes, faults,
                   decisions>>

\* propose reads the registry in use and the status of what it offers: the
\* catalog's types, asked as the believed walks say.
ProposeReads ==
    /\ night = "slice"
    /\ night' = "proposing"
    /\ misread' \in BOOLEAN /\ cur' \in {Current, Bundled} /\ Reads(cur', misread')
    /\ \E f \in Forms : offer' = [types |-> catalog, form |-> f]
    /\ seen' = status[offer']
    /\ UNCHANGED <<listed, status, lastPut, catalog, codes, target, was, changes, decisions,
                   crossed>>

\* What propose writes: nothing differs from the registry in use, and what was
\* waiting is no longer true; or an administrator has decided on exactly this;
\* or it replaces what was waiting.
Waiting == {v \in Versions : status[v] = "proposed"}

Withdraws ==
    /\ ~Differs(cur, offer)
    /\ status' = [v \in Versions |-> IF v \in Waiting THEN "retired" ELSE status[v]]
    /\ UNCHANGED lastPut

Decided ==
    /\ Differs(cur, offer) /\ seen \in {"dismissed", "active"}
    /\ UNCHANGED <<status, lastPut>>

\* Mutant of Offers: an earlier `no` is not looked at.
OffersAgain ==
    /\ Differs(cur, offer) /\ seen # "active"
    /\ status' = [v \in Versions |->
                    IF v = offer THEN "proposed"
                    ELSE IF v \in Waiting THEN "retired"
                    ELSE WithBaseline(status)[v]]
    /\ lastPut' = IF lastPut = None THEN Bundled ELSE lastPut

\* Mutant of Offers: `AND status = 'proposed'` is forgotten.
OffersAlone ==
    /\ Differs(cur, offer) /\ seen \notin {"dismissed", "active"}
    /\ status' = [v \in Versions |->
                    IF v = offer THEN "proposed"
                    ELSE IF WithBaseline(status)[v] = "none" THEN "none" ELSE "retired"]
    /\ lastPut' = IF lastPut = None THEN Bundled ELSE lastPut

Offers ==
    /\ Differs(cur, offer) /\ seen \notin {"dismissed", "active"}
    /\ status' = [v \in Versions |->
                    IF v = offer THEN "proposed"
                    ELSE IF v \in Waiting THEN "retired"
                    ELSE WithBaseline(status)[v]]
    /\ lastPut' = IF lastPut = None THEN Bundled ELSE lastPut

NightEnds ==
    /\ night' = "idle"
    /\ catalog' = {} /\ codes' = {}
    /\ cur' = None /\ offer' = None /\ seen' = None
    /\ misread' = FALSE /\ crossed' = FALSE

\* The commit, once no administrator's transaction holds a row it writes.
ProposeCommits ==
    /\ night = "proposing"
    /\ \A t \in Admins : target[t] \notin Waiting \cup {offer}
    /\ Withdraws \/ Decided \/ Offers
    /\ NightEnds
    /\ UNCHANGED <<listed, target, was, changes, faults, decisions>>

\* The job is killed, or what it asked of the database or the City failed.
NightDies ==
    /\ night # "idle"
    /\ Fault
    /\ NightEnds
    /\ UNCHANGED <<listed, status, lastPut, target, was, changes, decisions>>

-----------------------------------------------------------------------------
(* Administrators                                                          *)

Deciding == decisions < MaxDecisions /\ decisions' = decisions + 1

Crosses == crossed' = (crossed \/ night \in Inside)

\* adopt: any stored version, with its row locked, and the active one read.
AdoptReads(t) ==
    /\ target[t] = None
    /\ Deciding
    /\ \E v \in Versions :
          /\ status[v] # "none" /\ \A u \in Admins : target[u] # v
          /\ target' = [target EXCEPT ![t] = v]
    /\ was' = [was EXCEPT ![t] = Active]
    /\ UNCHANGED <<listed, status, lastPut, walk, changes, faults, crossed>>

AdoptEnds(t) ==
    /\ target' = [target EXCEPT ![t] = None]
    /\ was' = [was EXCEPT ![t] = None]
    /\ UNCHANGED <<listed, walk, changes, faults, decisions>>

\* The rest of _make_active, whose updates see what was committed since.
AdoptCommits(t) ==
    /\ target[t] # None
    /\ \A u \in Admins \ {t} : target[u] # Active \/ Active = None
    /\ MakeActive(status, target[t], was[t])
    /\ Crosses
    /\ AdoptEnds(t)

\* Two of them at once: the second update breaks the index of one active row.
AdoptFails(t) ==
    /\ target[t] # None
    /\ Active # was[t]
    /\ AdoptEnds(t)
    /\ UNCHANGED <<status, lastPut, crossed>>

Dismiss ==
    /\ Deciding
    /\ \E v \in Waiting :
          /\ \A t \in Admins : target[t] # v
          /\ status' = [status EXCEPT ![v] = "dismissed"]
    /\ Crosses
    /\ UNCHANGED <<listed, lastPut, walk, target, was, changes, faults>>

-----------------------------------------------------------------------------

Next ==
    \/ CityChanges \/ Night \/ ShortNight
    \/ RetireReads \/ RetireCommits \/ ProposeReads \/ ProposeCommits \/ NightDies
    \/ \E t \in Admins : AdoptReads(t) \/ AdoptCommits(t) \/ AdoptFails(t)
    \/ Dismiss

Spec == Init /\ [][Next]_vars

\* The schedule starts the walk every night; a transaction begun ends.
FairSpec ==
    /\ Spec
    /\ WF_vars(Night) /\ WF_vars(RetireReads) /\ WF_vars(RetireCommits)
    /\ WF_vars(ProposeReads) /\ WF_vars(ProposeCommits)
    /\ \A t \in Admins : WF_vars(AdoptCommits(t))

-----------------------------------------------------------------------------
(* Properties                                                              *)

\* in_use_at against current: what the log says was put in use last is what is
\* in use, whichever adoptions, retirements and nights race. Only a decision
\* committed between the read and the commit of the walk's transaction can end
\* that: propose sets the status of a version without looking at it again.
HistoryStaysTrue ==
    [][\/ lastPut \notin {None, Current}
       \/ lastPut' \in {None, Current'}
       \/ crossed]_vars

\* The version in use, as the walk's transaction read it.
AsRead == IF misread THEN Bundled ELSE Current

\* The form asks the same, of some of the types, and of all that the City
\* listed tonight.
LosesUnlisted(old, new) ==
    /\ new.form = old.form
    /\ new.types \subseteq old.types
    /\ old.types \cap catalog \subseteq new.types

\* The module's second rule: without an administrator the form changes only by
\* losing request types the City did not list; everything else waits. What it
\* is compared with is what the transaction took for the registry in use: when
\* that read failed, current() answers with the file in the image, and what a
\* retirement leaves of the file replaces the version an administrator adopted.
OnlyRetiresAlone ==
    [][Current' # Current /\ (\A t \in Admins : target[t] = target'[t]) =>
          \/ crossed
          \/ /\ LosesUnlisted(Content(AsRead), Content(Current)')
             /\ lastPut' = Current']_vars

\* A version an administrator turned down is not offered again by a later
\* night, only put in use by a person or as what a retirement leaves.
NoStaysNo ==
    [][\A v \in Versions :
          status[v] = "dismissed" /\ status'[v] # "dismissed" =>
             crossed \/ status'[v] = "active"]_vars

AsListed ==
    LET used == Content(Current).types
    IN  used \subseteq listed \/ Short(listed, used)

\* retire_services: a type the City has dropped leaves the form in the end,
\* whatever administrators adopted meanwhile, unless so many went at once that
\* the catalog is taken for a bad answer.
RetiredTypesGo == <>[]AsListed
=============================================================================
