------------------------------- MODULE Precheck -------------------------------
(***************************************************************************)
(* The anti-abuse policy (abuse.py) and the request that asks it           *)
(* (/api/precheck in submit.py): a report is judged against what the City  *)
(* and this service have lately been asked about the address and by the    *)
(* person, and then written down whatever the outcome. The history is read *)
(* in one transaction and the attempt recorded in another, and requests    *)
(* run in threads. Time is in days; a text is a class of descriptions that *)
(* read alike once normalised.                                             *)
(***************************************************************************)
EXTENDS Integers, FiniteSets, Sequences

CONSTANTS
    Threads,
    Proposals,      \* the reports that may be checked
    CityRows,       \* the rows that may appear in the mirror, [address, category, text]
    Direction,      \* _DIRECTIONS: a word to its abbreviation
    Suffix,         \* _SUFFIXES: a street-type word to the full one
    StartsWith,     \* pairs of different words, the first a longer spelling of the second
    LongTexts,      \* texts of duplicate_text_min_chars or more
    CutTexts,       \* texts the City's form would cut, as a description or an answer
    Policy,         \* the thresholds, under their names in the dataclass
    Lookback,       \* days of history read: 30 in the code
    Instants,               \* bound of the model: the days it looks at
    MaxEvents, MaxCity,     \* bounds of the model: rows of the log, and the City's among them
    None

Thresholds ==
    {"submitter_per_day", "submitter_per_week", "submitter_address_per_week",
     "same_category_repeat_days", "address_per_day", "address_per_week", "targeting_share",
     "targeting_min_events", "burst_events", "burst_days", "burst_diversity"}

\* The history that is read goes back further than the day a daily limit is about.
ASSUME PrecheckAssumption ==
    /\ Policy \in [Thresholds -> Nat]
    /\ Lookback \in Nat \ {0, 1} /\ MaxEvents \in Nat /\ MaxCity \in Nat
    /\ 0 \in Instants /\ Instants \subseteq Nat
    /\ IsFiniteSet(Threads) /\ None \notin Threads

VARIABLES
    now,
    log,        \* submission_attempts and the mirror's rows, in the order they came
    checking    \* of each thread: its report, judged but not recorded

policyVars == <<now, log, checking>>

-----------------------------------------------------------------------------
(* Addresses. One is written as its streets, two at an intersection, and a *)
(* street as its words, punctuation gone and in capitals.                  *)

Normal(words) ==
    [i \in DOMAIN words |->
        IF i \in 2..Len(words) - 1 /\ words[i] \in DOMAIN Direction THEN Direction[words[i]]
        ELSE IF words[i] \in DOMAIN Suffix THEN Suffix[words[i]] ELSE words[i]]

\* The sides of an intersection are sorted, so the order they are written in is lost.
NormalizeAddress(address) ==
    IF address = None THEN {} ELSE {Normal(address[i]) : i \in DOMAIN address}

\* Of the first street, what comes before its type.
PrefixWords(address) ==
    LET words == address[1]
        cut == {i \in 2..Len(words) : words[i] \in DOMAIN Suffix}
    IN  IF cut = {} THEN words
        ELSE SubSeq(words, 1, (CHOOSE i \in cut : \A j \in cut : i <= j) - 1)

SqlPrefix(address) ==
    LET words == PrefixWords(address)
    IN  [i \in DOMAIN words |->
            IF i \in 2..Len(words) - 1 /\ words[i] \in DOMAIN Direction
            THEN Direction[words[i]] ELSE words[i]]

Like(prefix, address) ==
    LET words == address[1]
        n == Len(prefix)
    IN  /\ n <= Len(words)
        /\ \A i \in 1..n - 1 : words[i] = prefix[i]
        /\ words[n] = prefix[n] \/ <<words[n], prefix[n]>> \in StartsWith

-----------------------------------------------------------------------------
(* The policy. A history is a set of positions in the log.                 *)

Key(i) == NormalizeAddress(log[i].address)

Within(events, t, days) == {i \in events : t - days <= log[i].at /\ log[i].at <= t}
Count(events, t, days) == Cardinality(Within(events, t, days))

Mine(p, h) == {i \in h : p.by # None /\ log[i].by = p.by}
AtAddress(p, h) == {i \in h : Key(i) = NormalizeAddress(p.address)}

OverSubmitterLimits(p, h, t) ==
    /\ p.by # None
    /\ \/ Count(Mine(p, h), t, 1) >= Policy.submitter_per_day
       \/ Count(Mine(p, h), t, 7) >= Policy.submitter_per_week
       \/ Count(Mine(p, h) \cap AtAddress(p, h), t, 7) >= Policy.submitter_address_per_week

\* This share, in hundredths, of one person's reports is about one address.
Targets(p, h) ==
    LET total == Cardinality(Mine(p, h)) + 1
        here == Cardinality(Mine(p, h) \cap AtAddress(p, h)) + 1
    IN  /\ p.by # None
        /\ total >= Policy.targeting_min_events
        /\ 100 * here >= Policy.targeting_share * total

RepeatsItself(p, h, t) ==
    /\ p.by # None /\ p.text \in LongTexts
    /\ \E i \in Within(Mine(p, h), t, Policy.same_category_repeat_days) : log[i].text = p.text

\* A plausible bug: the limit is enforced one report late.
OverAddressLimitsLate(p, h, t) ==
    \/ Count(AtAddress(p, h), t, 1) > Policy.address_per_day
    \/ Count(AtAddress(p, h), t, 7) > Policy.address_per_week

OverAddressLimits(p, h, t) ==
    \/ Count(AtAddress(p, h), t, 1) >= Policy.address_per_day
    \/ Count(AtAddress(p, h), t, 7) >= Policy.address_per_week

\* Distinct descriptions over all of them, the missing ones left out.
OneVoice(p, h, t) ==
    LET burst == Within(AtAddress(p, h), t, Policy.burst_days)
        told == {i \in burst : log[i].text # None}
        texts == {log[i].text : i \in told} \cup ({p.text} \ {None})
        n == Cardinality(told) + IF p.text = None THEN 0 ELSE 1
    IN  /\ Cardinality(burst) + 1 >= Policy.burst_events
        /\ n > 0 /\ 100 * Cardinality(texts) < Policy.burst_diversity * n

OpenDuplicate(p, h, t) ==
    \E i \in Within(AtAddress(p, h), t, Policy.same_category_repeat_days) :
        log[i].category = p.category /\ ~log[i].closed

\* evaluate: the strongest finding decides. The cooldown that goes with `review` is
\* stored and never read.
Evaluate(p, h, t) ==
    IF p.honeypot THEN "block"
    ELSE IF \/ OverSubmitterLimits(p, h, t) \/ Targets(p, h) \/ RepeatsItself(p, h, t)
            \/ OverAddressLimits(p, h, t) \/ OneVoice(p, h, t) THEN "review"
    ELSE IF OpenDuplicate(p, h, t) THEN "notice"
    ELSE "allow"

-----------------------------------------------------------------------------
(* Asking it                                                               *)

Counted(e) == e.outcome # "block"

\* What the City has at the address, found by its prefix and then compared, and what
\* this service has recorded there or for the person.
AbuseHistory(address, by, t) ==
    {i \in DOMAIN log :
        /\ log[i].at > t - Lookback
        /\ IF log[i].source = "city"
           THEN Like(SqlPrefix(address), log[i].address) /\ Key(i) = NormalizeAddress(address)
           ELSE Counted(log[i]) /\ \/ Key(i) = NormalizeAddress(address)
                                   \/ by # None /\ log[i].by = by}

\* Without an address nothing is looked up, the person's own reports neither.
History(p, t) == IF p.address = None THEN {} ELSE AbuseHistory(p.address, p.by, t)

Attempt(p, outcome, t) ==
    [source |-> "ours", by |-> p.by, address |-> p.address, cityAddress |-> p.cityAddress,
     category |-> p.category, text |-> p.text, answers |-> p.answers, outcome |-> outcome, at |-> t, closed |-> FALSE]

PolicyInit ==
    /\ now = 0
    /\ log = <<>>
    /\ checking = [th \in Threads |-> None]

\* Only answers that are strings are measured.
TooLong(p) ==
    \/ p.text \in CutTexts
    \/ \E k \in DOMAIN p.answers : p.answers[k].is = "str" /\ p.answers[k].says \cap CutTexts # {}

\* A text too long is refused before anything is read.
PrecheckJudges(th, p) ==
    /\ checking[th] = None
    /\ ~TooLong(p)
    /\ checking' = [checking EXCEPT ![th] = [report |-> p, outcome |-> Evaluate(p, History(p, now), now)]]
    /\ UNCHANGED <<now, log>>

RecordAttempt(th) ==
    /\ checking[th] # None /\ Len(log) < MaxEvents
    /\ log' = Append(log, Attempt(checking[th].report, checking[th].outcome, now))
    /\ checking' = [checking EXCEPT ![th] = None]
    /\ UNCHANGED now

\* The instance goes down between the two, or the insert fails.
PrecheckFails(th) ==
    /\ checking[th] # None
    /\ checking' = [checking EXCEPT ![th] = None]
    /\ UNCHANGED <<now, log>>

CityRow(row, t) ==
    [source |-> "city", by |-> None, address |-> row.address, cityAddress |-> None,
     category |-> row.category, text |-> row.text, answers |-> None, outcome |-> None, at |-> t, closed |-> FALSE]
FromCity == {i \in DOMAIN log : log[i].source = "city"}

CityRecords ==
    /\ Cardinality(FromCity) < MaxCity /\ Len(log) < MaxEvents
    /\ \E row \in CityRows : log' = Append(log, CityRow(row, now))
    /\ UNCHANGED <<now, checking>>

CityCloses ==
    /\ \E i \in FromCity : ~log[i].closed /\ log' = [log EXCEPT ![i].closed = TRUE]
    /\ UNCHANGED <<now, checking>>

Tick ==
    /\ now' \in {t \in Instants : t > now}
    /\ UNCHANGED <<log, checking>>

\* What is checked comes from the page that asks it (AddressBox).
PolicyNext ==
    \/ \E th \in Threads : RecordAttempt(th) \/ PrecheckFails(th)
    \/ CityRecords
    \/ CityCloses
    \/ Tick

-----------------------------------------------------------------------------
Passed(e) == e.source = "ours" /\ e.outcome \in {"allow", "notice"}

\* The daily limits hold whatever runs at once and however slowly: in any stretch of a
\* day, the reports about one address that went through without a warning are at most
\* the limit and one for each further thread, and so are those one person made of
\* places with an address (evaluate and precheck: judged in one transaction, counted
\* by the next).
LimitsHold ==
    \A i \in DOMAIN log :
        LET day == {j \in DOMAIN log : Passed(log[j]) /\ log[j].address # None
                                       /\ log[i].at <= log[j].at /\ log[j].at <= log[i].at + 1}
            late == Cardinality(Threads) - 1
        IN  Passed(log[i]) =>
              /\ Cardinality({j \in day : Key(j) = Key(i)}) <= Policy.address_per_day + late
              /\ log[i].by # None =>
                    Cardinality({j \in day : log[j].by = log[i].by}) <= Policy.submitter_per_day + late
=============================================================================
