------------------------------ MODULE WizardForm ------------------------------
(***************************************************************************)
(* A report's answers and the City's form: the check of the answers        *)
(* against the registry (validate in registry.py), and the run that types  *)
(* them into the City's wizard, question by question, and presses Submit   *)
(* when both gates are open (submit_browser.py, wizard.py). The wizard is  *)
(* the City's: it may refuse an option, lose a click, keep Continue or     *)
(* Submit from us, and its form may no longer be the registry's. What a    *)
(* run means to the queue is in SubmissionQueue, photos in AttemptPhotos.  *)
(***************************************************************************)
EXTENDS Integers, FiniteSets, Sequences

CONSTANTS
    Registry,   \* the questions of the request type in the registry in use
    Forms,      \* what the City's form for it may be: question numbers to questions
    Rounds,     \* questions a run answers before it gives up: 18 in the code
    Invented,   \* whatever the driver makes up
    Words,      \* the description of every report, where it has one
    Longer,     \* pairs of different options: the first's text contains the second's
    Gazetteer,  \* the first row the City's search offers for an address: a place,
                \* NotServiceable, or Absent if there is none
    NotServiceable, Somewhere,
    Absent

\* classify: the question kinds that are lists, and those of which one option is kept.
Listed == {"radio", "select", "checkbox", "radio-role", "dropdown"}
One == {"radio", "select", "radio-role"}

\* choose: the kinds whose options are found by their text, on the whole page.
ByText == {"checkbox", "radio-role"}

ASSUME WizardAssumption ==
    /\ IsFiniteSet(Registry)
    /\ \A f \in Forms : \A k \in DOMAIN f :
          /\ k \in Nat /\ IsFiniteSet(f[k].options)
          /\ f[k].boxes \subseteq {"text", "date", "time", "meridiem"}
          /\ f[k].kind \in Listed => f[k].boxes = {}

(* A question of the form has a kind, the options it renders, whether it   *)
(* is required, its boxes if it is no list, the answers it is shown after  *)
(* ({}: always), its wording, and the options the City refuses with an     *)
(* alert. One of the registry has its order and key, wording, options,     *)
(* `required`, `dataOnly` (seen in the City's data, never on the walked    *)
(* form), `revealed` ({}: not conditional), and options with a hard stop   *)
(* or only `agents` may use. An answer is a string, a list or a dict, with *)
(* what it says: the empty string and the empty list say nothing.          *)

VARIABLES
    form,       \* the City's, under this run
    stage, ok,  \* of the SubmitResult
    live,       \* both gates are open
    sent,       \* the button that files the request was pressed
    pin,        \* what the location step was given: Absent where there was no such step
    report,     \* answers, address, and whether it has a description and contact details
    checked,    \* /api/validate was asked about the answers and found nothing
    page,       \* what each question of the wizard holds: <<box or "option", value>>
    done,       \* the questions the run has seen to
    answered,   \* the ones the SubmitResult says were answered
    stopped     \* the question `unanswered` names, and whether its answer was rejected

result == <<stage, ok, answered, stopped>>
given == <<form, live, report, checked>>
work == <<answered, stopped, pin, page, done>>
formVars == <<given, result, sent, pin, page, done>>

Orders == DOMAIN form

Says(answers, key, option) == key \in DOMAIN answers /\ option \in answers[key].says

-----------------------------------------------------------------------------
(* /api/validate                                                           *)

Visible(answers) ==
    {q \in Registry : q.dataOnly \/ q.revealed = {}
                      \/ \E r \in q.revealed : Says(answers, r[1], r[2])}

Empty(answers, key) == key \notin DOMAIN answers \/ answers[key].says = {}

\* A plausible bug: what only the agents can choose is not left out.
OffersListed(q, says) == q.options = {} \/ says \subseteq q.options

\* An option is in the list, and not one only the City's agents can choose.
Offers(q, says) == q.options = {} \/ (says \subseteq q.options /\ says \cap q.agents = {})

Errors(answers) ==
    {q \in Visible(answers) :
        IF Empty(answers, q.key) THEN q.required /\ ~q.dataOnly
        ELSE ~Offers(q, answers[q.key].says)}

\* A hard stop, after the answers it was met with.
Blocking(answers) ==
    {q \in Visible(answers) : \E h \in q.hard :
        Says(answers, q.key, h.option) /\ \A w \in h.when : Says(answers, w[1], w[2])}

Validate(answers) == Errors(answers) = {} /\ Blocking(answers) = {}

-----------------------------------------------------------------------------
(* The wizard                                                              *)

Holds(k) == {x[2] : x \in page[k]}
Boxes(k) == form[k].boxes

Shown == {k \in Orders : form[k].when = {} \/ \E w \in form[k].when : w[2] \in Holds(w[1])}

\* classify: a picklist is recognised by its trigger and its options are not read.
Options(k) == IF form[k].kind = "dropdown" THEN {} ELSE form[k].options

\* answered: the AM/PM select is not looked at.
Answered(k) ==
    IF form[k].kind \in Listed THEN page[k] # {}
    ELSE \A b \in Boxes(k) \ {"meridiem"} : \E x \in page[k] : x[1] = b

Pending == {k \in Shown \ done : ~Answered(k)}
Front == CHOOSE k \in Pending : \A j \in Pending : k <= j

\* What a click for option o of question k may hit: where options are found by their
\* text, the page's first with that text in it. Which is first is the City's.
Hits(k, o) ==
    IF form[k].kind \in ByText
    THEN {h \in UNION {{j} \X form[j].options : j \in Orders} :
            form[h[1]].kind = form[k].kind /\ (h[2] = o \/ <<h[2], o>> \in Longer)}
    ELSE {<<k, o>>}

\* What a question of a list may hold after these of its options were clicked: some clicks
\* are lost, an option may be refused, a second click on a checkbox takes the tick away,
\* and only the last one stays where one is the limit.
Clicked(j, options) ==
    LET marks == {<<"option", u>> : u \in options \ form[j].refused}
    IN  IF form[j].kind \in One THEN {page[j]} \cup {{m} : m \in marks}
        ELSE {(page[j] \ c) \cup (c \ page[j]) : c \in SUBSET marks}

\* choose, for each of the values.
Choose(k, says) ==
    \E hit \in [says -> UNION {Hits(k, o) : o \in says}] :
        LET on == {hit[o][1] : o \in says}
            Of(j) == {hit[o][2] : o \in {p \in says : hit[p][1] = j}}
        IN  /\ \A o \in says : hit[o] \in Hits(k, o)
            /\ \E held \in [on -> UNION {Clicked(j, Of(j)) : j \in on}] :
                  /\ \A j \in on : held[j] \in Clicked(j, Of(j))
                  /\ page' = [j \in Orders |-> IF j \in on THEN held[j] ELSE page[j]]

\* fill_free: what a box is given. A string goes where no date and no time is wanted, a
\* date and a time where they are wanted; anything else is made up (_value_for, "10:00").
ValueFor(box, answer) ==
    CASE box = "text" /\ answer.is = "str" -> answer.says
      [] box \in {"date", "time"} /\ answer.is = "dict" /\ box \in answer.says -> {box}
      [] box = "meridiem" /\ answer.is = "dict" /\ "time" \in answer.says -> {"time"}
      [] OTHER -> {Invented}

\* A box that cannot be filled is passed over.
FillFree(k, answer) ==
    \E filled \in SUBSET Boxes(k) :
        page' = [page EXCEPT ![k] = UNION {{b} \X ValueFor(b, answer) : b \in filled}]

-----------------------------------------------------------------------------
(* The questions                                                           *)

\* match_question: the order, then the wording, then the options, then what was
\* answered, then what was walked; the registry's own order decides the rest.
Matching(k) ==
    LET same == {q \in Registry : q.order = k}
        worded == {q \in same : q.words = form[k].words}
        byWords == IF worded # {} THEN worded ELSE same
        Overlap(q) == Cardinality(Options(k) \cap q.options)
        best == {q \in byWords : \A r \in byWords : Overlap(r) <= Overlap(q)}
        byOptions == IF \E q \in byWords : Overlap(q) > 0 THEN best ELSE byWords
        told == {q \in byOptions : q.key \in DOMAIN report.answers}
        byAnswer == IF told # {} THEN told ELSE byOptions
        walked == {q \in byAnswer : ~q.dataOnly}
    IN  IF Cardinality(same) <= 1 THEN same ELSE IF walked # {} THEN walked ELSE byAnswer

\* The keys the answer to a question may be found under.
Keys(k) == IF Matching(k) = {} THEN {<<"q", k>>} ELSE {q.key : q \in Matching(k)}

Unanswered == [is |-> "none", says |-> {}]

\* By the question's key, or by its bare order.
Want(k, key) ==
    IF key \in DOMAIN report.answers THEN report.answers[key]
    ELSE IF Matching(k) # {} /\ <<"order", k>> \in DOMAIN report.answers
    THEN report.answers[<<"order", k>>] ELSE Unanswered

FormInit ==
    /\ form \in Forms
    /\ stage = "none" /\ ok = TRUE /\ live = FALSE /\ checked = FALSE
    /\ report = Absent /\ sent = FALSE /\ pin = Absent
    /\ page = [k \in Orders |-> {}]
    /\ done = {} /\ answered = {} /\ stopped = Absent

\* prepare_submission: both gates, and a report that was checked or was not. Its request
\* type may have gone from the registry since.
Begin(r, gates, asked) ==
    /\ stage = "none"
    /\ asked => Validate(r.answers)
    /\ report' = r /\ live' = gates /\ checked' = asked
    /\ \/ stage' = "starting" /\ UNCHANGED ok
       \/ stage' = "unknown_service" /\ ok' = FALSE
    /\ UNCHANGED <<form, sent, work>>

\* set_location types the address into the City's search and takes the first row, without
\* comparing it; a report without an address gets a point of the map, not the report's.
Located == IF report.address = Absent THEN Somewhere ELSE Gazetteer[report.address]

\* open_category: to the tile, past the file upload, and through the location step if
\* the request type has one. No row at all, and the run breaks.
OpenCategory ==
    /\ stage = "starting" /\ ok
    /\ \/ stage' = "in_wizard" /\ pin' = Absent
       \/ Located \notin {Absent, NotServiceable} /\ stage' = "in_wizard" /\ pin' = Located
       \/ Located = NotServiceable /\ stage' = "address_not_serviceable" /\ UNCHANGED pin
    /\ UNCHANGED <<given, ok, sent, answered, stopped, page, done>>

Asking == stage = "in_wizard" /\ ok /\ stopped = Absent /\ Pending # {} /\ Cardinality(done) < Rounds
Sees(k) == done' = done \cup {k} /\ UNCHANGED <<given, stage, ok, sent, pin>>
Settled(k) == answered' = answered \cup {k} /\ UNCHANGED stopped
Stops(k, rejected) == stopped' = [k |-> k, rejected |-> rejected] /\ UNCHANGED answered

\* A list whose options are on the page: every value is clicked, none is invented. The
\* values before the one that is not offered are clicked already.
AnswerListed(k, want) ==
    /\ form[k].kind \in Listed /\ Options(k) # {} /\ want # Unanswered
    /\ LET offered == want.says \cap Options(k)
           good == want.says \subseteq Options(k) /\ ~(want.is = "str" /\ want.says = {})
       IN  /\ \E taken \in (IF good THEN {offered} ELSE SUBSET offered) : Choose(k, taken)
           /\ IF good THEN Settled(k) ELSE Stops(k, TRUE)

LeaveListed(k, want) ==
    /\ form[k].kind \in Listed /\ Options(k) # {} /\ want = Unanswered
    /\ Stops(k, FALSE) /\ UNCHANGED page

NotListed(k) == form[k].kind \notin Listed \/ Options(k) = {}
Given(want) == want.is = "dict" \/ (want.is = "str" /\ want.says # {})

AnswerFree(k, want) ==
    /\ NotListed(k) /\ Given(want)
    /\ FillFree(k, want) /\ Settled(k)

Description == [is |-> "str", says |-> {Words}]

\* A text question with no answer of its own is given the description.
AnswerDescribed(k, want) ==
    /\ NotListed(k) /\ ~Given(want) /\ form[k].kind = "text" /\ report.described
    /\ FillFree(k, Description) /\ Settled(k)

Bare(k, want) == NotListed(k) /\ ~Given(want) /\ ~(form[k].kind = "text" /\ report.described)

\* A plausible bug: a live run that takes the rehearsal's way out.
MayInventAnyway == TRUE

MayInvent == ~live

Invent(k, want) ==
    /\ Bare(k, want) /\ MayInvent
    /\ FillFree(k, Unanswered) /\ Settled(k)

LeaveFree(k, want) ==
    /\ Bare(k, want) /\ ~MayInvent
    /\ Stops(k, FALSE) /\ UNCHANGED page

FillFromRegistry ==
    /\ Asking
    /\ \E key \in Keys(Front) :
        LET k == Front
            want == Want(k, key)
        IN  /\ \/ AnswerListed(k, want) \/ LeaveListed(k, want)
               \/ AnswerFree(k, want) \/ AnswerDescribed(k, want)
               \/ Invent(k, want) \/ LeaveFree(k, want)
            /\ Sees(k)

\* After the loop: an unanswered question ends the run before anything is sent.
NeedsAnswers ==
    /\ stage = "in_wizard" /\ ok /\ stopped # Absent
    /\ stage' = "needs_answers"
    /\ UNCHANGED <<given, ok, sent, work>>

Filled == stage = "in_wizard" /\ ok /\ stopped = Absent /\ ~Asking

\* The City lets a run through the details step when what it requires is there, and past
\* a contact step that demands them when the contact details are.
CityContinues == \A k \in Shown : form[k].required => Answered(k)

\* contact_state: the contact step demands the details of some request types.
Demands == BOOLEAN

\* fill_contact: only what the person gave is typed; without it the step that demands it
\* keeps Continue back.
ContactAccepted(demanded) == demanded => report.contact

\* Details, contact and review: Continue is pressed while it is there.
ToReview ==
    /\ Filled
    /\ \E demanded \in Demands :
        stage' = CASE ~CityContinues -> "no_submit_button"
                   [] CityContinues /\ ~ContactAccepted(demanded) -> "needs_contact"
                   [] OTHER -> "at_submit"
    /\ UNCHANGED <<given, ok, sent, work>>

Rehearsed ==
    /\ stage = "at_submit" /\ ok /\ ~live
    /\ stage' = "ready_not_submitted"
    /\ UNCHANGED <<given, ok, sent, work>>

\* The only click that files a request. Reading what the page says next may fail, and
\* then the result is that of a run that broke.
Submit ==
    /\ stage = "at_submit" /\ ok /\ live
    /\ sent' = TRUE
    /\ \/ stage' = "submitted" /\ UNCHANGED ok
       \/ ok' = FALSE /\ UNCHANGED stage
    /\ UNCHANGED <<given, work>>

\* A page that does not answer, a tile or a button that is not there: the stage stays.
Breaks ==
    /\ stage \in {"starting", "in_wizard", "at_submit"} /\ ok
    /\ ok' = FALSE
    /\ UNCHANGED <<given, stage, sent, work>>

-----------------------------------------------------------------------------
\* Where the answer to a question may stand: under the key of the question with its
\* wording, or with its order where no wording fits, or under the bare number.
RightfulKeys(k) ==
    LET same == {q \in Registry : q.order = k}
        worded == {q \in same : q.words = form[k].words}
    IN  {q.key : q \in IF worded # {} THEN worded ELSE same} \cup {<<"order", k>>, <<"q", k>>}
Rightful(k) == {report.answers[a] : a \in RightfulKeys(k) \cap DOMAIN report.answers}

\* Where a live run does make something up: boxes for a date, a time and AM/PM, and a
\* text box whose question was answered with a date.
Lapses(k) ==
    \/ Boxes(k) \cap {"date", "time", "meridiem"} # {}
    \/ \E a \in Rightful(k) : a.is = "dict"

\* No option found by its text can be taken for another of the form.
Unmistakable(f) ==
    \A j, k \in DOMAIN f : f[j].kind \in ByText /\ f[j].kind = f[k].kind =>
        /\ j # k => f[j].options \cap f[k].options = {}
        /\ \A u \in f[j].options, o \in f[k].options : <<u, o>> \notin Longer

\* What the City's form holds is what the person said: at Submit each question holds
\* values the person gave for that question, or in a text the description, whatever the
\* form has become since the registry was made and whichever questions share its number;
\* and Submit is pressed by no rehearsal (match_question, _fill_from_registry,
\* gates_open). Left out are the values the next property is about, and forms on which
\* an option can be taken for another by its text, which choose does not tell apart.
FilledAsAnswered ==
    sent =>
        /\ live
        /\ Unmistakable(form) => \A k \in Orders : Holds(k) \subseteq
              (UNION {a.says : a \in Rightful(k)})
              \cup (IF form[k].kind = "text" /\ report.described THEN {Words} ELSE {})
              \cup (IF Lapses(k) THEN {Invented} ELSE {})

\* "A live run may not [make up a value]: every value that goes to the City in someone's
\* name has to have been supplied deliberately" (submit_browser.py:217-220).
LiveInventsNothing ==
    sent /\ live => \A k \in Orders : Invented \notin Holds(k)

\* The registry's questions with the number and the wording of the one at k.
Worded(f, k) == {q \in Registry : q.order = k /\ q.words = f[k].words}

\* The form is the one the registry was made from, and its questions and options can be
\* told apart: each is one of the registry, shown always if that is, and otherwise only after options
\* of lists that the registry says reveal it.
Current(f) ==
  /\ Unmistakable(f)
  /\ \A k \in DOMAIN f : \E q \in Registry :
        /\ Worded(f, k) = {q} /\ ~q.dataOnly
        /\ q.options \ q.agents = f[k].options /\ q.required = f[k].required
        /\ f[k].when = {} => q.revealed = {}
        /\ \A w \in f[k].when :
              /\ w[1] \in DOMAIN f /\ f[w[1]].kind \in Listed
              /\ \E r \in q.revealed, p \in Worded(f, w[1]) : p.key = r[1] /\ w[2] = r[2]

\* Nothing is answered under a bare number, which the run falls back to and the check
\* never reads.
ByKey(answers) == \A k \in Orders : <<"order", k>> \notin DOMAIN answers

\* Answers that passed the check are not turned away by a form the registry is true to: a
\* live run then stops for answers only at an optional question that was left empty, at
\* a picklist, whose options the run never reads, or at a box whose answer is a list,
\* which the check takes for a text and the run does not (validate against
\* _fill_from_registry: two readers of one registry).
StopsOnlyForGaps ==
    stage = "needs_answers" /\ checked /\ ByKey(report.answers) /\ Current(form) =>
        LET k == stopped.k
        IN  \/ form[k].kind = "dropdown"
            \/ ~form[k].required /\ \A q \in Worded(form, k) : Empty(report.answers, q.key)
            \/ /\ ~stopped.rejected /\ NotListed(k)
               /\ \E a \in Rightful(k) : a.is \notin {"str", "dict"}
=============================================================================
