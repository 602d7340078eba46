----------------------------- MODULE ReportsProofs -----------------------------
(***************************************************************************)
(* Proofs about Reports for any registry, forms, answers, policy, history  *)
(* and number of threads: what the City is sent is what the person said,   *)
(* checked answers are turned away only where the check does not look, and *)
(* the daily limits hold but for what runs at once.                        *)
(***************************************************************************)
EXTENDS Reports, FiniteSetTheorems, WellFoundedInduction, TLAPS

-----------------------------------------------------------------------------
(* Matching a question of the form with one of the registry                *)

\* What the answers hold for a question of the form.
Wanted(k) == UNION {Want(k, key).says : key \in Keys(k)}

\* A question that is matched has the number, and the wording if any has it.
LEMMA MatchingFits ==
    ASSUME NEW k
    PROVE  /\ \A q \in Matching(k) : q \in Registry /\ q.order = k
           /\ Worded(form, k) # {} => Matching(k) \subseteq Worded(form, k)
<1> DEFINE same == {q \in Registry : q.order = k}
           worded == {q \in same : q.words = form[k].words}
<1>1. IsFiniteSet(same)
  BY WizardAssumption, FS_Subset
<1>2. Worded(form, k) = worded
  BY DEF Worded
<1>3. CASE Cardinality(same) <= 1
  <2>1. Matching(k) = same
    BY <1>3 DEF Matching
  <2>2. ASSUME worded # {}
        PROVE  worded = same
    <3>1. /\ IsFiniteSet(worded) /\ Cardinality(worded) <= Cardinality(same)
          /\ Cardinality(same) = Cardinality(worded) => same = worded
      BY <1>1, FS_Subset
    <3>2. Cardinality(worded) \in Nat /\ Cardinality(worded) # 0 /\ Cardinality(same) \in Nat
      BY <1>1, <2>2, <3>1, FS_CardinalityType, FS_EmptySet
    <3> HIDE DEF worded, same
    <3> QED BY <1>3, <3>1, <3>2
  <2> QED BY <1>2, <2>1, <2>2
<1>4. CASE ~(Cardinality(same) <= 1)
  <2> DEFINE byWords == IF worded # {} THEN worded ELSE same
  <2>1. Matching(k) \subseteq byWords
    BY <1>4 DEF Matching
  <2> QED BY <1>2, <2>1
<1> QED BY <1>3, <1>4

\* Of questions that can be told apart, the one with the number and the wording.
LEMMA MatchingOne ==
    ASSUME form \in Forms, NEW k \in Orders, NEW q \in Registry,
           Worded(form, k) = {q}, ~q.dataOnly
    PROVE  Matching(k) = {q}
<1> DEFINE same == {r \in Registry : r.order = k}
<1>1. Matching(k) \subseteq {q}
  BY MatchingFits
<1>2. q \in same /\ {r \in same : r.words = form[k].words} = {q}
  BY DEF Worded
<1>3. CASE Cardinality(same) <= 1
  BY <1>1, <1>2, <1>3 DEF Matching
<1>4. CASE ~(Cardinality(same) <= 1)
  <2> DEFINE overlap(r) == Cardinality(Options(k) \cap r.options)
             best == {r \in {q} : \A p \in {q} : overlap(p) <= overlap(r)}
             byOptions == IF \E r \in {q} : overlap(r) > 0 THEN best ELSE {q}
             told == {r \in byOptions : r.key \in DOMAIN report.answers}
             byAnswer == IF told # {} THEN told ELSE byOptions
             walked == {r \in byAnswer : ~r.dataOnly}
  <2>1. IsFiniteSet(Options(k))
    BY WizardAssumption, FS_EmptySet DEF Options, Orders
  <2>2. overlap(q) \in Nat
    BY <2>1, FS_Subset, FS_CardinalityType
  <2>3. best = {q}
    <3> HIDE DEF overlap
    <3> QED BY <2>2
  <2>4. byOptions = {q} /\ byAnswer = {q} /\ walked = {q}
    <3> HIDE DEF overlap, best
    <3> QED BY <2>3
  <2>5. Matching(k) = IF walked # {} THEN walked ELSE byAnswer
    BY <1>2, <1>4 DEF Matching
  <2> QED BY <2>4, <2>5
<1> QED BY <1>3, <1>4

\* What is wanted for a question stands where its answer may stand.
LEMMA WantIsRightful ==
    ASSUME NEW k, NEW key \in Keys(k)
    PROVE  Want(k, key) \in Rightful(k) \cup {Unanswered}
<1>1. key \in RightfulKeys(k)
  BY MatchingFits DEF Keys, RightfulKeys, Worded
<1>2. <<"order", k>> \in RightfulKeys(k)
  BY DEF RightfulKeys
<1> QED BY <1>1, <1>2 DEF Want, Rightful

-----------------------------------------------------------------------------
(* What the form holds                                                     *)

\* What the person said of a question, the description in a text, and a made-up value
\* in a rehearsal or where a live run makes one up. A list holds no more than is wanted.
Held(k) ==
    /\ Holds(k) \subseteq
          Wanted(k)
          \cup (IF form[k].kind = "text" /\ report.described THEN {Words} ELSE {})
          \cup (IF Lapses(k) \/ ~live THEN {Invented} ELSE {})
    /\ form[k].kind \in Listed => Holds(k) \subseteq Wanted(k)

\* Nothing is typed before a run begins, so what is in the form was typed for its report.
PageInv ==
    /\ form \in Forms
    /\ page = [k \in Orders |-> page[k]]
    /\ stage = "none" => /\ ~sent /\ pin = Absent /\ stopped = Absent
                         /\ \A k \in Orders : page[k] = {}
    /\ sent => live
    /\ pin \in {Absent, Located}
    /\ Unmistakable(form) => \A k \in Orders : Held(k)

\* Within a run what is wanted for a question, and from where, does not change.
LEMMA GivenKeeps ==
    ASSUME NEW k, UNCHANGED given
    PROVE  /\ Matching(k)' = Matching(k) /\ Wanted(k)' = Wanted(k) /\ Lapses(k)' = Lapses(k)
           /\ Rightful(k)' = Rightful(k) /\ Located' = Located
           /\ \A key : Want(k, key)' = Want(k, key)
<1>1. UNCHANGED <<form, report>>
  BY DEF given
<1>2. Options(k)' = Options(k)
  BY <1>1 DEF Options
<1>3. Matching(k)' = Matching(k)
  BY <1>1, <1>2, Zenon DEF Matching
<1>4. Keys(k)' = Keys(k)
  BY <1>3 DEF Keys
<1>5. \A key : Want(k, key)' = Want(k, key)
  BY <1>1, <1>3 DEF Want
<1>6. Wanted(k)' = Wanted(k)
  BY <1>4, <1>5 DEF Wanted
<1>7. Rightful(k)' = Rightful(k)
  BY <1>1 DEF Rightful, RightfulKeys
<1> QED BY <1>1, <1>3, <1>5, <1>6, <1>7 DEF Lapses, Boxes, Located

\* Clicks change what questions hold, and nothing else of the page.
LEMMA ChooseTyped ==
    ASSUME NEW k, NEW says, Choose(k, says)
    PROVE  page' = [j \in Orders |-> page'[j]]
<1> DEFINE with(on, held) == [j \in Orders |-> IF j \in on THEN held[j] ELSE page[j]]
<1>1. PICK on, held : page' = with(on, held)
  BY DEF Choose
<1> QED BY <1>1

\* Where no option can be taken for another, a click hits the option it is meant for.
LEMMA HitsItself ==
    ASSUME Unmistakable(form), NEW k \in Orders, NEW o \in form[k].options
    PROVE  Hits(k, o) \subseteq {<<k, o>>}
<1> SUFFICES ASSUME form[k].kind \in ByText, NEW j \in Orders, NEW u \in form[j].options,
                    form[j].kind = form[k].kind, u = o \/ <<u, o>> \in Longer
             PROVE  j = k /\ u = o
  <2>1. CASE form[k].kind \notin ByText
    BY <2>1 DEF Hits
  <2>2. CASE form[k].kind \in ByText
    <3> SUFFICES ASSUME NEW h \in Hits(k, o) PROVE h = <<k, o>>
      OBVIOUS
    <3>1. PICK j \in Orders : h \in {j} \X form[j].options
      BY <2>2 DEF Hits
    <3>2. form[h[1]].kind = form[k].kind /\ (h[2] = o \/ <<h[2], o>> \in Longer)
      BY <2>2 DEF Hits
    <3>3. h = <<j, h[2]>> /\ h[1] = j /\ h[2] \in form[j].options
      BY <3>1
    <3> QED BY <2>2, <3>2, <3>3
  <2> QED BY <2>1, <2>2
<1>1. <<u, o>> \notin Longer
  BY DEF Unmistakable, Orders
<1>2. j # k => form[j].options \cap form[k].options = {}
  BY DEF Unmistakable, Orders
<1> QED BY <1>1, <1>2

\* A list is given what is wanted.
LEMMA ListHeld ==
    ASSUME PageInv, Unmistakable(form), NEW k \in Orders, NEW key \in Keys(k),
           AnswerListed(k, Want(k, key)), UNCHANGED given
    PROVE  page' = [j \in Orders |-> IF j = k THEN page'[k] ELSE page[j]] /\ Held(k)'
<1> DEFINE want == Want(k, key)
<1>1. PICK taken : taken \subseteq want.says /\ taken \subseteq Options(k) /\ Choose(k, taken)
  BY DEF AnswerListed
<1>2. taken \subseteq form[k].options
  BY <1>1 DEF Options
<1> DEFINE onOf(hit) == {hit[o][1] : o \in taken}
           of(hit, j) == {hit[o][2] : o \in {p \in taken : hit[p][1] = j}}
<1>3. PICK hit, held :
          /\ \A o \in taken : hit[o] \in Hits(k, o)
          /\ \A j \in onOf(hit) : held[j] \in Clicked(j, of(hit, j))
          /\ page' = [j \in Orders |-> IF j \in onOf(hit) THEN held[j] ELSE page[j]]
  <2>1. PICK hit \in [taken -> UNION {Hits(k, o) : o \in taken}] :
            /\ \A o \in taken : hit[o] \in Hits(k, o)
            /\ \E held \in [onOf(hit) -> UNION {Clicked(j, of(hit, j)) : j \in onOf(hit)}] :
                  /\ \A j \in onOf(hit) : held[j] \in Clicked(j, of(hit, j))
                  /\ page' = [j \in Orders |-> IF j \in onOf(hit) THEN held[j] ELSE page[j]]
    BY <1>1, Zenon DEF Choose
  <2> HIDE DEF onOf, of
  <2> QED BY <2>1
<1>4. \A o \in taken : hit[o] = <<k, o>>
  BY <1>2, <1>3, HitsItself
<1>5. onOf(hit) \subseteq {k} /\ of(hit, k) \subseteq taken
  BY <1>4
<1>6. page'[k] = page[k] \/ page'[k] \in Clicked(k, of(hit, k))
  BY <1>3
<1>7. \A x \in page'[k] : x \in page[k] \/ \E o \in taken : x = <<"option", o>>
  <2> DEFINE options == of(hit, k)
             marks == {<<"option", u>> : u \in options \ form[k].refused}
  <2>1. ASSUME NEW h \in Clicked(k, options)
        PROVE  h \subseteq page[k] \cup marks
    <3> HIDE DEF options
    <3>1. CASE form[k].kind \in One
      BY <2>1, <3>1 DEF Clicked
    <3>2. CASE form[k].kind \notin One
      <4>1. PICK c \in SUBSET marks : h = (page[k] \ c) \cup (c \ page[k])
        BY <2>1, <3>2 DEF Clicked
      <4> QED BY <4>1
    <3> QED BY <3>1, <3>2
  <2>2. \A m \in marks : \E o \in taken : m = <<"option", o>>
    BY <1>5
  <2> HIDE DEF marks, options
  <2> QED BY <1>6, <2>1, <2>2 DEF options
<1>8. Holds(k)' \subseteq Holds(k) \cup taken
  <2> SUFFICES ASSUME NEW x \in page'[k] PROVE x[2] \in Holds(k) \cup taken
    BY DEF Holds
  <2> QED BY <1>7 DEF Holds
<1>9. Wanted(k)' = Wanted(k) /\ want.says \subseteq Wanted(k) /\ Lapses(k)' = Lapses(k)
  BY GivenKeeps DEF Wanted
<1>10. page' = [j \in Orders |-> IF j = k THEN page'[k] ELSE page[j]]
  <2> HIDE DEF onOf
  <2> QED BY <1>3, <1>5
<1>11. UNCHANGED <<form, report, live>>
  BY DEF given
<1>12. Held(k)
  BY DEF PageInv
<1> QED BY <1>1, <1>8, <1>9, <1>10, <1>11, <1>12 DEF Held

\* A box is given what is wanted, the description, or something made up.
LEMMA BoxesHeld ==
    ASSUME PageInv, NEW k \in Orders, NEW key \in Keys(k), UNCHANGED given, NEW answer,
           FillFree(k, answer),
           \/ answer = Want(k, key) /\ Given(answer)
           \/ answer = Description /\ form[k].kind = "text" /\ report.described
           \/ answer = Unanswered /\ ~live
    PROVE  page' = [j \in Orders |-> IF j = k THEN page'[k] ELSE page[j]] /\ Held(k)'
<1> DEFINE filled(s) == UNION {{b} \X ValueFor(b, answer) : b \in s}
<1>1. PICK s \in SUBSET Boxes(k) : page' = [page EXCEPT ![k] = filled(s)]
  BY DEF FillFree
<1>2. page' = [j \in Orders |-> IF j = k THEN filled(s) ELSE page[j]]
  BY <1>1 DEF PageInv
<1>3. \A v \in Holds(k)' : \E b \in Boxes(k) : v \in ValueFor(b, answer)
  BY <1>2 DEF Holds
<1>4. Boxes(k) \subseteq {"text", "date", "time", "meridiem"}
  BY WizardAssumption DEF PageInv, Orders, Boxes
<1>5. form[k].kind \in Listed => Boxes(k) = {}
  BY WizardAssumption DEF PageInv, Orders, Boxes
<1>6. /\ Wanted(k)' = Wanted(k) /\ Want(k, key).says \subseteq Wanted(k)
      /\ Lapses(k)' = Lapses(k)
  BY GivenKeeps DEF Wanted
<1>7. ASSUME NEW b \in Boxes(k), NEW v \in ValueFor(b, answer)
      PROVE  \/ v \in Wanted(k)
             \/ v = Words /\ form[k].kind = "text" /\ report.described
             \/ v = Invented /\ (Lapses(k) \/ ~live)
  <2>1. CASE b # "text"
    <3>1. Lapses(k)
      BY <1>4, <2>1 DEF Lapses
    <3>2. CASE answer = Want(k, key)
      BY <1>4, <1>6, <1>7, <2>1, <3>1, <3>2 DEF ValueFor
    <3>3. CASE answer \in {Description, Unanswered}
      BY <1>4, <1>7, <2>1, <3>1, <3>3 DEF ValueFor, Description, Unanswered
    <3> QED BY <3>2, <3>3
  <2>2. CASE b = "text" /\ answer = Want(k, key) /\ Given(answer)
    <3>1. CASE answer.is = "str"
      BY <1>6, <1>7, <2>2, <3>1 DEF ValueFor
    <3>2. CASE answer.is # "str"
      <4>1. answer.is = "dict" /\ answer # Unanswered
        BY <2>2, <3>2 DEF Given, Unanswered
      <4>2. answer \in Rightful(k)
        BY <2>2, <4>1, WantIsRightful
      <4>3. Lapses(k)
        BY <4>1, <4>2 DEF Lapses
      <4> QED BY <1>7, <2>2, <3>2, <4>3 DEF ValueFor
    <3> QED BY <3>1, <3>2
  <2>3. CASE b = "text" /\ answer = Description /\ form[k].kind = "text" /\ report.described
    BY <1>7, <2>3 DEF ValueFor, Description
  <2>4. CASE b = "text" /\ answer = Unanswered /\ ~live
    BY <1>7, <2>4 DEF ValueFor, Unanswered
  <2> QED BY <2>1, <2>2, <2>3, <2>4
<1>8. UNCHANGED <<form, report, live>>
  BY DEF given
<1> QED BY <1>2, <1>3, <1>5, <1>6, <1>7, <1>8 DEF Held

\* The run sees to the questions in their order.
LEMMA FrontIsPending ==
    ASSUME form \in Forms, Pending # {}
    PROVE  Front \in Pending /\ Front \in Orders
<1>1. Pending \subseteq Nat /\ Pending \subseteq Orders
  BY WizardAssumption DEF Pending, Shown, Orders
<1> DEFINE less == {ss \in Nat \X Nat : ss[1] < ss[2]}
<1>2. IsWellFoundedOn(less, Nat)
  BY NatLessThanWellFounded, Zenon DEF OpToRel
<1>3. PICK k \in Pending : \A j \in Pending : ~(<<j, k>> \in less)
  <2> HIDE DEF less
  <2> QED BY <1>1, <1>2, WFMin
<1>4. ASSUME NEW j \in Pending
      PROVE  k <= j
  <2>1. j \in Nat /\ k \in Nat
    BY <1>1
  <2>2. j < k => <<j, k>> \in less
    BY <2>1
  <2>3. ~(j < k)
    <3> HIDE DEF less
    <3> QED BY <1>3, <2>2
  <2> QED BY <2>1, <2>3
<1> QED BY <1>1, <1>4 DEF Front

\* A run that sees to one question.
LEMMA FillHeld ==
    ASSUME PageInv, FillFromRegistry
    PROVE  PageInv'
<1>0. PICK k \in Orders : k = Front
  BY FrontIsPending DEF FillFromRegistry, Asking, PageInv
<1>1. /\ UNCHANGED given /\ UNCHANGED <<form, live, report>>
      /\ stage = "in_wizard" /\ UNCHANGED <<stage, sent, pin>>
  BY DEF FillFromRegistry, Asking, Sees, given
<1>2. PICK key \in Keys(k) :
          LET want == Want(k, key)
          IN  \/ AnswerListed(k, want) \/ LeaveListed(k, want)
              \/ AnswerFree(k, want) \/ AnswerDescribed(k, want)
              \/ Invent(k, want) \/ LeaveFree(k, want)
  BY <1>0 DEF FillFromRegistry
<1>3. page' = [j \in Orders |-> page'[j]]
  <2>1. CASE AnswerListed(k, Want(k, key))
    BY <2>1, ChooseTyped DEF AnswerListed
  <2>2. CASE LeaveListed(k, Want(k, key)) \/ LeaveFree(k, Want(k, key))
    BY <2>2 DEF LeaveListed, LeaveFree, PageInv
  <2>3. ASSUME NEW answer, FillFree(k, answer)
        PROVE  page' = [j \in Orders |-> page'[j]]
    <3> DEFINE filled(t) == UNION {{b} \X ValueFor(b, answer) : b \in t}
    <3>1. PICK t \in SUBSET Boxes(k) : page' = [page EXCEPT ![k] = filled(t)]
      BY <2>3 DEF FillFree
    <3> HIDE DEF filled
    <3> QED BY <3>1 DEF PageInv
  <2> QED BY <1>2, <2>1, <2>2, <2>3 DEF AnswerFree, AnswerDescribed, Invent
<1>4. ASSUME Unmistakable(form)
      PROVE  UNCHANGED page \/ (page' = [j \in Orders |-> IF j = k THEN page'[k] ELSE page[j]] /\ Held(k)')
  <2>1. CASE AnswerListed(k, Want(k, key))
    BY <1>1, <1>4, <2>1, ListHeld
  <2>2. CASE AnswerFree(k, Want(k, key))
    BY <1>1, <2>2, BoxesHeld DEF AnswerFree
  <2>3. CASE AnswerDescribed(k, Want(k, key))
    BY <1>1, <2>3, BoxesHeld DEF AnswerDescribed
  <2>4. CASE Invent(k, Want(k, key))
    BY <1>1, <2>4, BoxesHeld DEF Invent, MayInvent
  <2>5. CASE LeaveListed(k, Want(k, key)) \/ LeaveFree(k, Want(k, key))
    BY <2>5 DEF LeaveListed, LeaveFree
  <2> QED BY <1>2, <2>1, <2>2, <2>3, <2>4, <2>5
<1>5. ASSUME Unmistakable(form), NEW j \in Orders
      PROVE  Held(j)'
  <2>1. Held(j)
    BY <1>5 DEF PageInv
  <2>2. CASE page'[j] = page[j]
    BY <1>1, <2>1, <2>2, GivenKeeps DEF Held, Holds
  <2>3. CASE page'[j] # page[j]
    BY <1>4, <1>5, <2>3
  <2> QED BY <2>2, <2>3
<1>6. Located' = Located /\ Orders' = Orders /\ Unmistakable(form)' = Unmistakable(form)
  BY <1>1 DEF Located, Orders, Unmistakable
<1> QED BY <1>1, <1>3, <1>5, <1>6 DEF PageInv

\* Every step of a run keeps what is known of the page.
LEMMA PageStep ==
    ASSUME PageInv, [Next]_reportVars
    PROVE  PageInv'
<1>1. ASSUME UNCHANGED <<form, report, live, page>>, sent' => sent \/ live,
             pin' \in {pin, Absent, Located}, stage' # "none" \/ UNCHANGED <<stage, sent, pin, stopped>>
      PROVE  PageInv'
  <2>1. UNCHANGED <<form, report, live>> /\ Located' = Located /\ Orders' = Orders
    BY <1>1 DEF Located, Orders
  <2>2. Unmistakable(form) => \A k \in Orders : Held(k)'
    <3> SUFFICES ASSUME Unmistakable(form), NEW k \in Orders PROVE Held(k)'
      OBVIOUS
    <3>1. /\ Holds(k)' = Holds(k) /\ Wanted(k)' = Wanted(k) /\ Lapses(k)' = Lapses(k)
      <4>1. Options(k)' = Options(k)
        BY <2>1 DEF Options
      <4>2. Matching(k)' = Matching(k)
        BY <2>1, <4>1, Zenon DEF Matching
      <4>3. Keys(k)' = Keys(k)
        BY <4>2 DEF Keys
      <4>4. \A key : Want(k, key)' = Want(k, key)
        BY <2>1, <4>2 DEF Want
      <4> QED BY <1>1, <2>1, <4>3, <4>4 DEF Wanted, Lapses, Rightful, RightfulKeys, Boxes, Holds
    <3> QED BY <2>1, <3>1 DEF PageInv, Held
  <2>3. Unmistakable(form)' = Unmistakable(form)
    BY <2>1 DEF Unmistakable
  <2> QED BY <1>1, <2>1, <2>2, <2>3 DEF PageInv
<1>2. CASE UNCHANGED formVars
  BY <1>1, <1>2 DEF formVars, given, result
<1>3. ASSUME NEW r, NEW gates, NEW asked, Begin(r, gates, asked)
      PROVE  PageInv'
  <2>1. /\ UNCHANGED <<form, page, pin, sent>> /\ stage = "none" /\ stage' # "none"
    BY <1>3 DEF Begin, work
  <2>2. \A k \in Orders : page'[k] = {} /\ Holds(k)' = {}
    BY <2>1 DEF PageInv, Holds
  <2> QED BY <2>1, <2>2 DEF PageInv, Held, Orders
<1>4. CASE OpenCategory
  BY <1>1, <1>4 DEF OpenCategory, given
<1>5. CASE FillFromRegistry
  BY <1>5, FillHeld
<1>6. CASE NeedsAnswers \/ ToReview \/ Rehearsed \/ Breaks
  BY <1>1, <1>6 DEF NeedsAnswers, ToReview, Rehearsed, Breaks, given, work
<1>7. CASE Submit
  BY <1>1, <1>7 DEF Submit, given, work
<1> QED BY <1>2, <1>3, <1>4, <1>5, <1>6, <1>7
        DEF Next, SendAndFile, RunByHand, Drive, FileIt, reportVars

-----------------------------------------------------------------------------
(* What a run stops for                                                    *)

\* What a stop at k leaves to say, when the form is as the registry has it.
Gap(k, rejected) ==
    \/ form[k].kind = "dropdown"
    \/ ~form[k].required /\ \A q \in Worded(form, k) : Empty(report.answers, q.key)
    \/ ~rejected /\ NotListed(k) /\ \E a \in Rightful(k) : a.is \notin {"str", "dict"}

Truly == checked /\ ByKey(report.answers) /\ Current(form)

GapInv ==
    /\ checked => Validate(report.answers)
    /\ stage = "needs_answers" => stopped # Absent
    /\ stopped # Absent /\ Truly => Gap(stopped.k, stopped.rejected)

\* On a form the registry is true to, a question is answered by its own key.
LEMMA OwnKey ==
    ASSUME form \in Forms, Current(form), ByKey(report.answers), NEW k \in Orders,
           NEW q, Worded(form, k) = {q}
    PROVE  /\ q \in Registry /\ q.order = k /\ ~q.dataOnly
           /\ q.options \ q.agents = form[k].options /\ q.required = form[k].required
           /\ Keys(k) = {q.key}
           /\ Want(k, q.key) = IF q.key \in DOMAIN report.answers
                               THEN report.answers[q.key] ELSE Unanswered
<1>1. /\ q \in Registry /\ q.order = k /\ ~q.dataOnly
      /\ q.options \ q.agents = form[k].options /\ q.required = form[k].required
  BY DEF Current, Worded, Orders
<1>2. Matching(k) = {q}
  BY <1>1, MatchingOne
<1> QED BY <1>1, <1>2 DEF Keys, Want, ByKey

\* A question that the form shows is visible to the check.
LEMMA ShownIsVisible ==
    ASSUME PageInv, Truly, NEW k \in Orders, k \in Shown, NEW q, Worded(form, k) = {q}
    PROVE  q \in Visible(report.answers)
<1>1. q \in Registry /\ form \in Forms
  BY OwnKey DEF PageInv, Truly
<1>2. CASE form[k].when = {}
  BY <1>1, <1>2 DEF Truly, Current, Orders, Visible
<1>3. CASE form[k].when # {}
  <2>1. PICK w \in form[k].when : w[2] \in Holds(w[1])
    BY <1>3 DEF Shown
  <2>2. PICK c \in Registry :
            /\ Worded(form, k) = {c}
            /\ \A v \in form[k].when :
                  /\ v[1] \in Orders /\ form[v[1]].kind \in Listed
                  /\ \E r \in c.revealed, p \in Worded(form, v[1]) : p.key = r[1] /\ v[2] = r[2]
    BY DEF Truly, Current, Orders
  <2>3. PICK r \in q.revealed, p \in Worded(form, w[1]) :
            w[1] \in Orders /\ form[w[1]].kind \in Listed /\ p.key = r[1] /\ w[2] = r[2]
    <3>1. c = q
      BY <2>2
    <3> QED BY <2>1, <2>2, <3>1
  <2>4. Worded(form, w[1]) = {p}
    BY <2>3 DEF Truly, Current, Orders
  <2>5. /\ Keys(w[1]) = {p.key}
        /\ Want(w[1], p.key) = IF p.key \in DOMAIN report.answers
                               THEN report.answers[p.key] ELSE Unanswered
    BY <1>1, <2>3, <2>4, OwnKey DEF Truly
  <2>6. w[2] \in Wanted(w[1])
    <3>1. Unmistakable(form)
      BY DEF Truly, Current
    <3> QED BY <2>1, <2>3, <3>1 DEF PageInv, Held
  <2>7. w[2] \in Want(w[1], p.key).says
    BY <2>5, <2>6 DEF Wanted
  <2>8. Says(report.answers, r[1], r[2])
    BY <2>3, <2>5, <2>7 DEF Says, Unanswered
  <2> QED BY <1>1, <2>3, <2>8 DEF Visible
<1> QED BY <1>2, <1>3

\* Where a run stops with checked answers, something is left to say.
LEMMA StopIsGap ==
    ASSUME PageInv, Truly, Validate(report.answers), NEW k \in Orders, k \in Shown,
           NEW key \in Keys(k), NEW rejected,
           \/ /\ AnswerListed(k, Want(k, key))
              /\ ~(/\ Want(k, key).says \subseteq Options(k)
                   /\ ~(Want(k, key).is = "str" /\ Want(k, key).says = {}))
           \/ LeaveListed(k, Want(k, key)) /\ rejected = FALSE
           \/ LeaveFree(k, Want(k, key)) /\ rejected = FALSE
    PROVE  Gap(k, rejected)
<1>1. PICK q \in Registry : Worded(form, k) = {q}
  BY DEF Truly, Current, Orders
<1>2. /\ form \in Forms /\ ~q.dataOnly
      /\ q.options \ q.agents = form[k].options /\ q.required = form[k].required
      /\ key = q.key
      /\ Want(k, key) = IF q.key \in DOMAIN report.answers
                        THEN report.answers[q.key] ELSE Unanswered
  BY <1>1, OwnKey DEF PageInv, Truly
<1>3. q \notin Errors(report.answers) /\ q \in Visible(report.answers)
  BY <1>1, ShownIsVisible DEF Validate
<1>4. CASE Empty(report.answers, q.key)
  BY <1>1, <1>2, <1>3, <1>4 DEF Errors, Gap
<1>5. CASE ~Empty(report.answers, q.key) /\ form[k].kind # "dropdown"
  <2>1. /\ q.key \in DOMAIN report.answers /\ report.answers[q.key].says # {}
        /\ Want(k, key) = report.answers[q.key]
    BY <1>2, <1>5 DEF Empty
  <2>2. Offers(q, Want(k, key).says) /\ Options(k) = form[k].options
    BY <1>3, <1>5, <2>1 DEF Errors, Options
  <2>3. Want(k, key).says \subseteq Options(k) \/ Options(k) = {}
    BY <1>2, <2>2 DEF Offers
  <2>4. CASE LeaveFree(k, Want(k, key)) /\ rejected = FALSE
    <3>1. NotListed(k) /\ Want(k, key).is \notin {"str", "dict"}
      BY <2>1, <2>4 DEF LeaveFree, Bare, Given
    <3>2. Want(k, key) \in Rightful(k)
      BY <2>1, WantIsRightful DEF Unanswered
    <3> QED BY <2>4, <3>1, <3>2 DEF Gap
  <2>5. CASE LeaveListed(k, Want(k, key))
    BY <2>1, <2>5 DEF LeaveListed, Unanswered
  <2>6. CASE /\ AnswerListed(k, Want(k, key))
             /\ ~(/\ Want(k, key).says \subseteq Options(k)
                  /\ ~(Want(k, key).is = "str" /\ Want(k, key).says = {}))
    <3>1. Options(k) # {}
      BY <2>6 DEF AnswerListed
    <3> QED BY <2>1, <2>3, <2>6, <3>1
  <2> QED BY <2>4, <2>5, <2>6
<1> QED BY <1>4, <1>5 DEF Gap

\* A step that stops nothing and changes no report keeps what is known of a stop.
LEMMA GapKeeps ==
    ASSUME GapInv, UNCHANGED <<form, report, checked, stopped>>,
           stage' = "needs_answers" => stage = "needs_answers" \/ stopped # Absent
    PROVE  GapInv'
<1>1. Truly' = Truly
  BY DEF Truly, ByKey, Orders, Current, Worded
<1>2. PICK k, rejected : k = stopped.k /\ rejected = stopped.rejected
  OBVIOUS
<1>3. NotListed(k)' = NotListed(k) /\ Rightful(k)' = Rightful(k)
  BY DEF NotListed, Options, Rightful, RightfulKeys
<1>4. Gap(k, rejected) => Gap(k, rejected)'
  BY <1>3 DEF Gap, Worded
<1>5. k = stopped'.k /\ rejected = stopped'.rejected
  BY <1>2
<1>6. stopped' # Absent /\ Truly' => Gap(stopped.k, stopped.rejected)'
  <2> SUFFICES ASSUME stopped' # Absent, Truly'
               PROVE  Gap(stopped.k, stopped.rejected)'
    OBVIOUS
  <2>1. Gap(k, rejected)
    BY <1>1, <1>2 DEF GapInv
  <2> QED BY <1>4, <1>5, <2>1 DEF Gap
<1> QED BY <1>6 DEF GapInv

\* A stop at a question that the run sees to is a gap.
LEMMA FillGap ==
    ASSUME PageInv, GapInv, FillFromRegistry
    PROVE  GapInv'
<1>1. PICK k \in Orders : k = Front /\ k \in Shown
  BY FrontIsPending DEF FillFromRegistry, Asking, PageInv, Pending
<1>2. /\ UNCHANGED <<form, report, checked, stage>>
      /\ stage = "in_wizard" /\ stopped = Absent
  BY DEF FillFromRegistry, Asking, Sees, given
<1>3. PICK key \in Keys(k) :
          LET want == Want(k, key)
          IN  \/ AnswerListed(k, want) \/ LeaveListed(k, want)
              \/ AnswerFree(k, want) \/ AnswerDescribed(k, want)
              \/ Invent(k, want) \/ LeaveFree(k, want)
  BY <1>1 DEF FillFromRegistry
<1>4. CASE UNCHANGED stopped
  BY <1>2, <1>4, GapKeeps
<1>5. CASE stopped' # stopped
  <2> DEFINE want == Want(k, key)
             good == want.says \subseteq Options(k) /\ ~(want.is = "str" /\ want.says = {})
  <2>1. PICK rejected \in BOOLEAN :
            /\ stopped' = [k |-> k, rejected |-> rejected]
            /\ \/ AnswerListed(k, want) /\ ~good
               \/ LeaveListed(k, want) /\ rejected = FALSE
               \/ LeaveFree(k, want) /\ rejected = FALSE
    <3>1. CASE AnswerListed(k, want)
      BY <1>5, <3>1 DEF AnswerListed, Settled, Stops
    <3>2. CASE LeaveListed(k, want) \/ LeaveFree(k, want)
      BY <3>2 DEF LeaveListed, LeaveFree, Stops
    <3>3. CASE AnswerFree(k, want) \/ AnswerDescribed(k, want) \/ Invent(k, want)
      BY <1>5, <3>3 DEF AnswerFree, AnswerDescribed, Invent, Settled
    <3> QED BY <1>3, <3>1, <3>2, <3>3
  <2>2. Truly' = Truly
    BY <1>2 DEF Truly, ByKey, Orders, Current, Worded
  <2>3. ASSUME Truly
        PROVE  Gap(k, rejected)
    <3>1. Validate(report.answers)
      BY <2>3 DEF Truly, GapInv
    <3> QED BY <1>1, <2>1, <2>3, <3>1, StopIsGap
  <2>4. NotListed(k)' = NotListed(k) /\ Rightful(k)' = Rightful(k)
    BY <1>2 DEF NotListed, Options, Rightful, RightfulKeys
  <2>5. Gap(k, rejected) => Gap(k, rejected)'
    BY <1>2, <2>4 DEF Gap, Worded
  <2>6. stopped'.k = k /\ stopped'.rejected = rejected
    BY <2>1
  <2>7. stopped' # Absent /\ Truly' => Gap(stopped.k, stopped.rejected)'
    <3> SUFFICES ASSUME Truly'
                 PROVE  Gap(stopped.k, stopped.rejected)'
      OBVIOUS
    <3> QED BY <2>2, <2>3, <2>5, <2>6 DEF Gap
  <2> QED BY <1>2, <2>7 DEF GapInv
<1> QED BY <1>4, <1>5

\* Every step keeps what is known of a stop.
LEMMA GapStep ==
    ASSUME PageInv, GapInv, [Next]_reportVars
    PROVE  GapInv'
<1>1. CASE UNCHANGED formVars
  BY <1>1, GapKeeps DEF formVars, given, result
<1>2. ASSUME NEW r, NEW gates, NEW asked, Begin(r, gates, asked)
      PROVE  GapInv'
  BY <1>2 DEF Begin, work, PageInv, GapInv
<1>3. CASE OpenCategory
  BY <1>3, GapKeeps DEF OpenCategory, given
<1>4. CASE NeedsAnswers \/ ToReview \/ Rehearsed \/ Breaks \/ Submit
  BY <1>4, GapKeeps DEF NeedsAnswers, ToReview, Rehearsed, Breaks, Submit, given, work
<1> QED BY <1>1, <1>2, <1>3, <1>4, FillGap
        DEF Next, SendAndFile, RunByHand, Drive, FileIt, reportVars

\* Both hold in every reachable state, whatever the policy does meanwhile.
LEMMA FormInvariance == Spec => [](PageInv /\ GapInv)
<1>1. Init => PageInv /\ GapInv
  BY DEF Init, FormInit, PageInv, GapInv, Held, Holds, Orders
<1>2. PageInv /\ GapInv /\ [Next]_reportVars => PageInv' /\ GapInv'
  BY PageStep, GapStep
<1> QED BY <1>1, <1>2, PTL DEF Spec

\* Checked answers are turned away only where the check does not look.
THEOREM TurnedAwayForGaps == Spec => []StopsOnlyForGaps
<1>1. PageInv /\ GapInv => StopsOnlyForGaps
  BY DEF GapInv, StopsOnlyForGaps, Gap, Truly
<1> QED BY <1>1, FormInvariance, PTL

-----------------------------------------------------------------------------
(* The daily limits                                                        *)

\* What a row of the log may say, and what a thread has judged.
Outcomes == {"allow", "notice", "review", "block", "relayed", None}
Entered == Proposals \cup ByHand
Rows ==
    [source: {"ours", "city"}, by: {p.by : p \in Entered} \cup {None},
     address: {p.address : p \in Entered} \cup {row.address : row \in CityRows},
     cityAddress: {p.cityAddress : p \in Entered} \cup {None},
     category: {p.category : p \in Entered} \cup {row.category : row \in CityRows},
     text: {p.text : p \in Entered} \cup {row.text : row \in CityRows},
     answers: {p.answers : p \in Entered} \cup {None},
     outcome: Outcomes, at: Instants, closed: BOOLEAN]

LogTyped ==
    /\ now \in Instants
    /\ log \in Seq(Rows)
    /\ \A i \in DOMAIN log : log[i].at <= now
    /\ checking \in [Threads -> [report: Proposals, outcome: Outcomes] \cup {None}]
    /\ \A i \in DOMAIN log : Passed(log[i]) => Threads # {}

\* A limit is on the reports about one address or on those by one person.
Values(kind) ==
    IF kind = "address" THEN {NormalizeAddress(p.address) : p \in Entered \cup CityRows}
    ELSE {p.by : p \in Entered}

Of(kind, v, e) ==
    /\ e.address # None
    /\ IF kind = "address" THEN NormalizeAddress(e.address) = v ELSE v # None /\ e.by = v

Limit(kind) == IF kind = "address" THEN Policy.address_per_day ELSE Policy.submitter_per_day

\* Of these, the recorded ones of the day that begins at a, and the ones judged but not
\* recorded.
Went(kind, v, a) ==
    {j \in DOMAIN log : Passed(log[j]) /\ Of(kind, v, log[j]) /\ a <= log[j].at /\ log[j].at <= a + 1}
Going(kind, v) ==
    {th \in Threads : /\ checking[th] # None /\ checking[th].outcome \in {"allow", "notice"}
                      /\ Of(kind, v, checking[th].report)}

\* While the day lasts, what is still to be recorded counts with what was; when nothing
\* is, only what was.
Few(kind, v, a) ==
    /\ now <= a + 1 /\ Going(kind, v) # {} =>
          Cardinality(Went(kind, v, a)) + Cardinality(Going(kind, v)) <= Limit(kind) + Cardinality(Threads) - 1
    /\ Went(kind, v, a) # {} =>
          Cardinality(Went(kind, v, a)) <= Limit(kind) + Cardinality(Threads) - 1
DayInv == \A kind \in {"address", "person"} : \A v \in Values(kind), a \in Instants : Few(kind, v, a)

\* A row of the log has what its kind has, and a time the model looks at.
LEMMA RowOfLog ==
    ASSUME LogTyped
    PROVE  \A i \in DOMAIN log : log[i] \in Rows /\ log[i].at \in Instants /\ log[i].at \in Nat
<1> SUFFICES ASSUME NEW i \in DOMAIN log
             PROVE  log[i] \in Rows /\ log[i].at \in Instants /\ log[i].at \in Nat
  OBVIOUS
<1>1. log[i] \in Rows
  BY DEF LogTyped
<1>2. log[i].at \in Instants
  BY <1>1 DEF Rows
<1> QED BY <1>1, <1>2, PrecheckAssumption

\* What is counted is finite, and no more judge at once than there are threads.
LEMMA SetsFinite ==
    ASSUME LogTyped, NEW kind, NEW v, NEW a
    PROVE  /\ IsFiniteSet(DOMAIN log)
           /\ IsFiniteSet(Went(kind, v, a)) /\ Cardinality(Went(kind, v, a)) \in Nat
           /\ IsFiniteSet(Going(kind, v)) /\ Cardinality(Going(kind, v)) \in Nat
           /\ Cardinality(Threads) \in Nat
           /\ Cardinality(Going(kind, v)) <= Cardinality(Threads)
           /\ Limit(kind) \in Nat
<1>1. IsFiniteSet(DOMAIN log)
  <2>1. Len(log) \in Nat /\ DOMAIN log = 1..Len(log)
    BY DEF LogTyped
  <2> QED BY <2>1, FS_Interval
<1>2. Went(kind, v, a) \subseteq DOMAIN log
  BY DEF Went
<1>3. Going(kind, v) \subseteq Threads
  BY DEF Going
<1>4. IsFiniteSet(Threads) /\ Policy \in [Thresholds -> Nat]
  BY PrecheckAssumption
<1>5. Limit(kind) \in Nat
  BY <1>4 DEF Limit, Thresholds
<1>6. IsFiniteSet(Went(kind, v, a)) /\ Cardinality(Went(kind, v, a)) \in Nat
  BY <1>1, <1>2, FS_Subset, FS_CardinalityType
<1>7. /\ IsFiniteSet(Going(kind, v)) /\ Cardinality(Going(kind, v)) \in Nat
      /\ Cardinality(Threads) \in Nat /\ Cardinality(Going(kind, v)) <= Cardinality(Threads)
  BY <1>3, <1>4, FS_Subset, FS_CardinalityType
<1> QED BY <1>1, <1>5, <1>6, <1>7

\* A report goes through only while what went of its day is below the limit: the history
\* holds all of it, as it goes back further than a day.
LEMMA JudgedBelow ==
    ASSUME LogTyped, NEW kind \in {"address", "person"}, NEW v, NEW a \in Instants, NEW p,
           now <= a + 1, Of(kind, v, p),
           Evaluate(p, History(p, now), now) \in {"allow", "notice"}
    PROVE  Cardinality(Went(kind, v, a)) < Limit(kind)
<1> DEFINE h == AbuseHistory(p.address, p.by, now)
           seen == IF kind = "address" THEN AtAddress(p, h) ELSE Mine(p, h)
<1>1. History(p, now) = h
  BY DEF Of, History
<1>2. ~OverSubmitterLimits(p, h, now) /\ ~OverAddressLimits(p, h, now)
  BY <1>1 DEF Evaluate
<1>3. Went(kind, v, a) \subseteq Within(seen, now, 1)
  <2> SUFFICES ASSUME NEW j \in DOMAIN log, Passed(log[j]), Of(kind, v, log[j]), a <= log[j].at
               PROVE  j \in Within(seen, now, 1)
    BY DEF Went
  <2>1. /\ now \in Nat /\ a \in Nat /\ log[j].at \in Nat /\ log[j].at <= now /\ now - 1 <= log[j].at
        /\ Lookback \in Nat /\ Lookback >= 2
    <3>1. now \in Nat /\ a \in Nat /\ Lookback \in Nat \ {0, 1}
      BY PrecheckAssumption DEF LogTyped
    <3>2. log[j].at \in Nat /\ log[j].at <= now
      BY RowOfLog DEF LogTyped
    <3> QED BY <3>1, <3>2
  <2>2. log[j].at > now - Lookback
    BY <2>1
  <2>3. log[j].source = "ours" /\ Counted(log[j])
    BY DEF Passed, Counted
  <2>4. IF kind = "address" THEN Key(j) = NormalizeAddress(p.address)
        ELSE p.by # None /\ log[j].by = p.by
    BY DEF Of, Key
  <2>5. j \in h
    BY <2>2, <2>3, <2>4 DEF AbuseHistory
  <2>6. j \in seen
    BY <2>4, <2>5 DEF AtAddress, Mine
  <2> HIDE DEF seen
  <2> QED BY <2>1, <2>6 DEF Within
<1>4. /\ IsFiniteSet(Within(seen, now, 1)) /\ Count(seen, now, 1) \in Nat
      /\ Cardinality(Went(kind, v, a)) <= Count(seen, now, 1)
  <2>1. Within(seen, now, 1) \subseteq DOMAIN log
    BY DEF Within, AtAddress, Mine, AbuseHistory
  <2>2. IsFiniteSet(DOMAIN log)
    BY SetsFinite
  <2> HIDE DEF seen
  <2> QED BY <1>3, <2>1, <2>2, FS_Subset, FS_CardinalityType DEF Count
<1>5. ~(Count(seen, now, 1) >= Limit(kind))
  <2>1. CASE kind = "address"
    BY <1>2, <2>1 DEF OverAddressLimits, Limit
  <2>2. CASE kind = "person"
    <3>1. p.by # None
      BY <2>2 DEF Of
    <3> QED BY <1>2, <2>2, <3>1 DEF OverSubmitterLimits, Limit
  <2> QED BY <2>1, <2>2
<1> HIDE DEF seen
<1> QED BY <1>4, <1>5, SetsFinite

\* A row at the end adds itself to what went, if it passed, and else nothing.
LEMMA WentGrows ==
    ASSUME LogTyped, NEW kind, NEW v, NEW a \in Instants, NEW row \in Rows, log' = Append(log, row)
    PROVE  /\ Len(log) + 1 \notin Went(kind, v, a)
           /\ Went(kind, v, a)' =
                IF Passed(row) /\ Of(kind, v, row) /\ a <= row.at /\ row.at <= a + 1
                THEN Went(kind, v, a) \cup {Len(log) + 1} ELSE Went(kind, v, a)
<1>1. /\ Len(log) \in Nat /\ DOMAIN log = 1..Len(log) /\ DOMAIN log' = 1..Len(log) + 1
      /\ log'[Len(log) + 1] = row /\ \A j \in DOMAIN log : log'[j] = log[j]
  BY DEF LogTyped
<1>2. DOMAIN log' = DOMAIN log \cup {Len(log) + 1} /\ Len(log) + 1 \notin DOMAIN log
  BY <1>1
<1>3. Went(kind, v, a)' = {j \in DOMAIN log' : Passed(log'[j]) /\ Of(kind, v, log'[j])
                                               /\ a <= log'[j].at /\ log'[j].at <= a + 1}
  BY DEF Went
<1>4. ASSUME NEW j \in DOMAIN log
      PROVE  (Passed(log'[j]) /\ Of(kind, v, log'[j]) /\ a <= log'[j].at /\ log'[j].at <= a + 1)
             <=> (Passed(log[j]) /\ Of(kind, v, log[j]) /\ a <= log[j].at /\ log[j].at <= a + 1)
  BY <1>1, <1>4
<1> QED BY <1>1, <1>2, <1>3, <1>4, Zenon DEF Went

\* The City's rows and those of runs by hand are rows of the log that did not pass.
LEMMA RowsNotPassed ==
    ASSUME LogTyped
    PROVE  /\ \A c \in CityRows :
                /\ CityRow(c, now) \in Rows /\ CityRow(c, now).at = now
                /\ ~Passed(CityRow(c, now))
           /\ \A p \in ByHand :
                LET row == Attempt(p, "relayed", now)
                IN  row \in Rows /\ row.at = now /\ ~Passed(row)
<1>1. ASSUME NEW c \in CityRows
      PROVE  CityRow(c, now) \in Rows /\ CityRow(c, now).at = now /\ ~Passed(CityRow(c, now))
  BY DEF CityRow, Rows, Outcomes, LogTyped, Passed
<1>2. ASSUME NEW p \in ByHand
      PROVE  LET row == Attempt(p, "relayed", now)
             IN  row \in Rows /\ row.at = now /\ ~Passed(row)
  <2> DEFINE row == Attempt(p, "relayed", now)
  <2>1. row \in Rows
    BY DEF Attempt, Rows, Outcomes, LogTyped, Entered
  <2>2. row.at = now /\ ~Passed(row)
    BY DEF Attempt, Passed
  <2> QED BY <2>1, <2>2
<1> QED BY <1>1, <1>2

\* The rows of the log and the judgements are what they should be, after every step.
LEMMA LogTypedStep ==
    ASSUME LogTyped, [Next]_reportVars
    PROVE  LogTyped'
<1>1. ASSUME NEW row \in Rows, log' = Append(log, row), row.at = now, now' = now,
             checking' \in [Threads -> [report: Proposals, outcome: Outcomes] \cup {None}],
             Passed(row) => Threads # {}
      PROVE  LogTyped'
  <2>1. log' \in Seq(Rows)
    BY <1>1 DEF LogTyped
  <2>2. ASSUME NEW i \in DOMAIN log'
        PROVE  (i \in DOMAIN log /\ log'[i] = log[i]) \/ log'[i] = row
    BY <1>1 DEF LogTyped
  <2>3. now \in Nat
    BY PrecheckAssumption DEF LogTyped
  <2>4. \A i \in DOMAIN log' : log'[i].at <= now'
    BY <1>1, <2>2, <2>3 DEF LogTyped
  <2>5. \A i \in DOMAIN log' : Passed(log'[i]) => Threads # {}
    BY <1>1, <2>2 DEF LogTyped
  <2> QED BY <1>1, <2>1, <2>4, <2>5 DEF LogTyped, Passed
<1>2. CASE UNCHANGED <<now, log, checking>>
  BY <1>2 DEF LogTyped, Passed
<1>3. ASSUME NEW th \in Threads, NEW p \in Proposals, PrecheckJudges(th, p)
      PROVE  LogTyped'
  <2>1. Evaluate(p, History(p, now), now) \in Outcomes
    BY DEF Evaluate, Outcomes
  <2>2. checking' \in [Threads -> [report: Proposals, outcome: Outcomes] \cup {None}]
    BY <1>3, <2>1 DEF PrecheckJudges, LogTyped
  <2> QED BY <1>3, <2>2 DEF PrecheckJudges, LogTyped, Passed
<1>4. ASSUME NEW th \in Threads, RecordAttempt(th)
      PROVE  LogTyped'
  <2> DEFINE row == Attempt(checking[th].report, checking[th].outcome, now)
  <2>1. checking[th].report \in Proposals /\ checking[th].outcome \in Outcomes /\ now \in Instants
    BY <1>4 DEF RecordAttempt, LogTyped
  <2>2. row \in Rows
    BY <2>1 DEF Attempt, Rows, Entered
  <2>3. row.at = now
    BY DEF Attempt
  <2>4. checking' \in [Threads -> [report: Proposals, outcome: Outcomes] \cup {None}]
    BY <1>4 DEF RecordAttempt, LogTyped
  <2>5. log' = Append(log, row) /\ now' = now
    BY <1>4 DEF RecordAttempt
  <2> HIDE DEF row
  <2> QED BY <1>1, <2>2, <2>3, <2>4, <2>5
<1>5. ASSUME NEW th \in Threads, PrecheckFails(th)
      PROVE  LogTyped'
  <2>1. checking' \in [Threads -> [report: Proposals, outcome: Outcomes] \cup {None}]
    BY <1>5 DEF PrecheckFails, LogTyped
  <2> QED BY <1>5, <2>1 DEF PrecheckFails, LogTyped, Passed
<1>6. CASE CityRecords
  <2> PICK c \in CityRows : log' = Append(log, CityRow(c, now))
    BY <1>6 DEF CityRecords
  <2>1. now' = now /\ checking' \in [Threads -> [report: Proposals, outcome: Outcomes] \cup {None}]
    BY <1>6 DEF CityRecords, LogTyped
  <2> QED BY <1>1, <2>1, RowsNotPassed
<1>7. CASE CityCloses
  <2> PICK i \in FromCity : log' = [log EXCEPT ![i].closed = TRUE]
    BY <1>7 DEF CityCloses
  <2>1. i \in DOMAIN log /\ log[i] \in Rows /\ log' = [log EXCEPT ![i] = [log[i] EXCEPT !.closed = TRUE]]
    BY DEF FromCity, LogTyped
  <2>2. [log[i] EXCEPT !.closed = TRUE] \in Rows
    BY <2>1 DEF Rows
  <2>3. log' \in Seq(Rows) /\ DOMAIN log' = DOMAIN log
    BY <2>1, <2>2 DEF LogTyped
  <2>4. ASSUME NEW j \in DOMAIN log
        PROVE  log'[j].at = log[j].at /\ Passed(log'[j]) = Passed(log[j])
    BY <2>1 DEF Passed, Rows
  <2> QED BY <1>7, <2>3, <2>4 DEF CityCloses, LogTyped
<1>8. CASE Tick
  <2>1. now' \in Instants /\ now \in Nat /\ now' \in Nat /\ now' > now /\ log' = log /\ checking' = checking
    BY <1>8, PrecheckAssumption DEF Tick, LogTyped
  <2>2. \A i \in DOMAIN log : log[i].at \in Nat
    BY RowOfLog
  <2> QED BY <2>1, <2>2 DEF LogTyped, Passed
<1>9. CASE FileIt
  <2>1. CASE UNCHANGED log
    BY <1>2, <1>9, <2>1 DEF FileIt
  <2>2. CASE ~UNCHANGED log
    <3> PICK p \in ByHand : log' = Append(log, Attempt(p, "relayed", now))
      BY <1>9, <2>2 DEF FileIt, Recorded
    <3>1. now' = now /\ checking' = checking
      BY <1>9 DEF FileIt
    <3>2. checking \in [Threads -> [report: Proposals, outcome: Outcomes] \cup {None}]
      BY DEF LogTyped
    <3> QED BY <1>1, <3>1, <3>2, RowsNotPassed
  <2> QED BY <2>1, <2>2
<1> QED BY <1>2, <1>3, <1>4, <1>5, <1>6, <1>7, <1>8, <1>9
        DEF Next, PolicyNext, AddressNext, CheckReport, SendAndFile, RunByHand, Drive, reportVars, policyVars

\* There is nothing in the log and nothing judged.
LEMMA InitTyped == Init => LogTyped
<1> SUFFICES ASSUME Init PROVE LogTyped
  OBVIOUS
<1>1. now = 0 /\ log = <<>> /\ checking = [th \in Threads |-> None]
  BY DEF Init, PolicyInit
<1> QED BY <1>1, PrecheckAssumption DEF LogTyped

\* Every step keeps the day within its limit.
LEMMA DayStep ==
    ASSUME LogTyped, DayInv, [Next]_reportVars
    PROVE  DayInv'
<1> SUFFICES ASSUME NEW kind \in {"address", "person"}, NEW v \in Values(kind), NEW a \in Instants
             PROVE  Few(kind, v, a)'
  BY DEF DayInv, Values, Entered
<1> DEFINE went == Went(kind, v, a)
           going == Going(kind, v)
           w == Cardinality(went)
           g == Cardinality(going)
           most == Limit(kind) + Cardinality(Threads) - 1
<1>1. (now <= a + 1 /\ going # {} => w + g <= most) /\ (went # {} => w <= most)
  BY DEF DayInv, Few
<1>2. /\ IsFiniteSet(went) /\ IsFiniteSet(going) /\ w \in Nat /\ g \in Nat
      /\ Cardinality(Threads) \in Nat /\ g <= Cardinality(Threads) /\ Limit(kind) \in Nat
  BY SetsFinite
<1>3. /\ (went = {} <=> w = 0) /\ (going = {} <=> g = 0)
  BY <1>2, FS_EmptySet
<1>4. Few(kind, v, a)' <=> /\ now' <= a + 1 /\ going' # {} => w' + g' <= most
                           /\ went' # {} => w' <= most
  BY DEF Few, Limit
<1>5. now \in Nat /\ a \in Nat
  BY PrecheckAssumption DEF LogTyped
<1>10. ASSUME NEW th \in Threads, NEW p \in Proposals, PrecheckJudges(th, p)
       PROVE  Few(kind, v, a)'
  <2> DEFINE outcome == Evaluate(p, History(p, now), now)
             judged == [report |-> p, outcome |-> outcome]
  <2>1. now' = now /\ log' = log /\ checking' = [checking EXCEPT ![th] = judged] /\ checking[th] = None
    BY <1>10 DEF PrecheckJudges
  <2>2. went' = went
    BY <2>1 DEF Went
  <2>3. CASE outcome \in {"allow", "notice"} /\ Of(kind, v, p) /\ now <= a + 1
    <3>1. w < Limit(kind)
      BY <2>3, JudgedBelow
    <3>2. g' \in Nat /\ g' <= Cardinality(Threads)
      <4>1. LogTyped'
        BY <1>10, LogTypedStep DEF Next, PolicyNext
      <4>2. going' \subseteq Threads /\ IsFiniteSet(Threads)
        BY PrecheckAssumption DEF Going
      <4> QED BY <4>2, FS_Subset, FS_CardinalityType
    <3> HIDE DEF went, going
    <3> QED BY <1>1, <1>2, <1>4, <2>1, <2>2, <3>1, <3>2
  <2>4. CASE ~(outcome \in {"allow", "notice"} /\ Of(kind, v, p))
    <3>1. going' = going
      <4>1. ASSUME NEW t \in Threads
            PROVE  t \in going' <=> t \in going
        <5>1. CASE t = th
          <6>1. t \notin going
            BY <2>1, <5>1 DEF Going
          <6>2. checking'[t] = judged
            BY <2>1, <5>1 DEF LogTyped
          <6>3. judged.report = p /\ judged.outcome = outcome
            OBVIOUS
          <6>4. t \notin going'
            BY <2>4, <6>2, <6>3 DEF Going, Of
          <6> QED BY <6>1, <6>4
        <5>2. CASE t # th
          <6>1. checking'[t] = checking[t]
            BY <2>1, <5>2 DEF LogTyped
          <6> QED BY <6>1 DEF Going, Of
        <5> QED BY <5>1, <5>2
      <4> QED BY <4>1 DEF Going
    <3> HIDE DEF went, going
    <3> QED BY <1>1, <1>4, <2>1, <2>2, <3>1
  <2>5. CASE ~(now <= a + 1)
    BY <1>1, <1>4, <2>1, <2>2, <2>5
  <2> QED BY <2>3, <2>4, <2>5
<1>11. ASSUME NEW th \in Threads, RecordAttempt(th)
       PROVE  Few(kind, v, a)'
  <2> DEFINE c == checking[th]
             row == Attempt(c.report, c.outcome, now)
             n == Len(log) + 1
  <2>1. now' = now /\ log' = Append(log, row) /\ checking' = [checking EXCEPT ![th] = None] /\ c # None
    BY <1>11 DEF RecordAttempt
  <2>2. row \in Rows
    <3>1. c.report \in Proposals /\ c.outcome \in Outcomes /\ now \in Instants
      BY <2>1 DEF LogTyped
    <3> QED BY <3>1 DEF Attempt, Rows, Entered
  <2>3. /\ Passed(row) <=> c.outcome \in {"allow", "notice"}
        /\ Of(kind, v, row) <=> Of(kind, v, c.report)
        /\ row.at = now
    BY DEF Passed, Of, Attempt
  <2>4. th \in going <=> Passed(row) /\ Of(kind, v, row)
    BY <2>1, <2>3 DEF Going
  <2>5. going' = going \ {th}
    <3>1. ASSUME NEW t \in Threads
          PROVE  t \in going' <=> t \in going \ {th}
      <4>1. CASE t = th
        BY <2>1, <4>1 DEF Going, LogTyped
      <4>2. CASE t # th
        <5>1. checking'[t] = checking[t]
          BY <2>1, <4>2 DEF LogTyped
        <5> QED BY <4>2, <5>1 DEF Going, Of
      <4> QED BY <4>1, <4>2
    <3> QED BY <3>1 DEF Going
  <2>6. /\ n \notin went
        /\ went' = IF Passed(row) /\ Of(kind, v, row) /\ a <= row.at /\ row.at <= a + 1
                   THEN went \cup {n} ELSE went
    <3> HIDE DEF row
    <3> QED BY <2>1, <2>2, WentGrows
  <2>7. g' = IF th \in going THEN g - 1 ELSE g
    <3> HIDE DEF going
    <3> QED BY <1>2, <2>5, FS_RemoveElement
  <2>8. w' = IF th \in going /\ a <= now /\ now <= a + 1 THEN w + 1 ELSE w
    <3>1. went' = IF th \in going /\ a <= now /\ now <= a + 1 THEN went \cup {n} ELSE went
      BY <2>3, <2>4, <2>6
    <3> HIDE DEF went, going, n
    <3> QED BY <1>2, <2>6, <3>1, FS_AddElement
  <2>9. going' # {} => going # {}
    BY <2>5
  <2>10. went' # {} => went # {} \/ (th \in going /\ now <= a + 1)
    BY <2>3, <2>4, <2>6
  <2> HIDE DEF went, going, w, g, most
  <2>11. th \in going => going # {} /\ g >= 1
    BY <1>2, <1>3
  <2>12. most \in Int
    BY <1>2 DEF most
  <2> QED BY <1>1, <1>2, <1>4, <1>5, <2>1, <2>7, <2>8, <2>9, <2>10, <2>11, <2>12
<1>12. ASSUME NEW th \in Threads, PrecheckFails(th)
       PROVE  Few(kind, v, a)'
  <2>1. now' = now /\ log' = log /\ checking' = [checking EXCEPT ![th] = None]
    BY <1>12 DEF PrecheckFails
  <2>2. went' = went
    BY <2>1 DEF Went
  <2>3. going' \subseteq going
    <3> SUFFICES ASSUME NEW t \in Threads, t \in going' PROVE t \in going
      BY DEF Going
    <3>1. t # th
      BY <2>1 DEF Going, LogTyped
    <3>2. checking'[t] = checking[t]
      BY <2>1, <3>1 DEF LogTyped
    <3> QED BY <3>2 DEF Going, Of
  <2>4. g' \in Nat /\ g' <= g
    <3> HIDE DEF going
    <3> QED BY <1>2, <2>3, FS_Subset, FS_CardinalityType
  <2> HIDE DEF went, going
  <2> QED BY <1>1, <1>2, <1>4, <2>1, <2>2, <2>3, <2>4
<1>13. ASSUME went' = went, going' = going, now' \in Nat, now <= now'
       PROVE  Few(kind, v, a)'
  <2> HIDE DEF went, going
  <2> QED BY <1>1, <1>4, <1>5, <1>13
<1>14. ASSUME NEW row \in Rows, log' = Append(log, row), ~Passed(row), checking' = checking, now' = now
       PROVE  Few(kind, v, a)'
  <2>1. went' = went
    BY <1>14, WentGrows
  <2>2. going' = going
    BY <1>14 DEF Going
  <2> HIDE DEF went, going
  <2> QED BY <1>5, <1>13, <1>14, <2>1, <2>2
<1>15. CASE CityRecords
  <2> PICK c \in CityRows : log' = Append(log, CityRow(c, now))
    BY <1>15 DEF CityRecords
  <2> QED BY <1>14, <1>15, RowsNotPassed DEF CityRecords
<1>16. CASE CityCloses
  <2> PICK i \in FromCity : log' = [log EXCEPT ![i].closed = TRUE]
    BY <1>16 DEF CityCloses
  <2>1. i \in DOMAIN log /\ log[i] \in Rows /\ log' = [log EXCEPT ![i] = [log[i] EXCEPT !.closed = TRUE]]
    BY DEF FromCity, LogTyped
  <2>2. DOMAIN log' = DOMAIN log
    BY <2>1
  <2>3. ASSUME NEW j \in DOMAIN log
        PROVE  /\ Passed(log'[j]) <=> Passed(log[j])
               /\ Of(kind, v, log'[j]) <=> Of(kind, v, log[j])
               /\ log'[j].at = log[j].at
    BY <2>1 DEF Passed, Of, Rows
  <2>4. went' = went
    BY <2>2, <2>3 DEF Went
  <2>5. going' = going
    BY <1>16 DEF CityCloses, Going
  <2> HIDE DEF went, going
  <2> QED BY <1>5, <1>13, <1>16, <2>4, <2>5 DEF CityCloses
<1>17. CASE Tick
  <2>1. now' \in Nat /\ now <= now' /\ log' = log /\ checking' = checking
    BY <1>5, <1>17, PrecheckAssumption DEF Tick
  <2>2. went' = went /\ going' = going
    BY <2>1 DEF Went, Going
  <2> HIDE DEF went, going
  <2> QED BY <1>13, <2>1, <2>2
<1>18. CASE UNCHANGED <<now, log, checking>>
  <2>1. went' = went /\ going' = going
    BY <1>18 DEF Went, Going
  <2> HIDE DEF went, going
  <2> QED BY <1>5, <1>13, <1>18, <2>1
<1>19. CASE FileIt
  <2>1. CASE UNCHANGED log
    BY <1>18, <1>19, <2>1 DEF FileIt
  <2>2. CASE ~UNCHANGED log
    <3> PICK p \in ByHand : log' = Append(log, Attempt(p, "relayed", now))
      BY <1>19, <2>2 DEF FileIt, Recorded
    <3>1. now' = now /\ checking' = checking
      BY <1>19 DEF FileIt
    <3>2. checking \in [Threads -> [report: Proposals, outcome: Outcomes] \cup {None}]
      BY DEF LogTyped
    <3> QED BY <1>14, <3>1, <3>2, RowsNotPassed
  <2> QED BY <2>1, <2>2
<1> HIDE DEF went, going, w, g, most
<1> QED BY <1>10, <1>11, <1>12, <1>15, <1>16, <1>17, <1>18, <1>19
        DEF Next, PolicyNext, AddressNext, CheckReport, SendAndFile, RunByHand, Drive, reportVars, policyVars

\* The daily limits hold for any policy, history and number of threads.
THEOREM DailyLimitsHold == Spec => []LimitsHold
<1>1. Init => LogTyped /\ DayInv
  <2> SUFFICES ASSUME Init PROVE LogTyped /\ DayInv
    OBVIOUS
  <2>1. now = 0 /\ log = <<>> /\ checking = [th \in Threads |-> None]
    BY DEF Init, PolicyInit
  <2>2. LogTyped
    BY InitTyped
  <2>3. \A kind, v, a : Went(kind, v, a) = {} /\ Going(kind, v) = {}
    BY <2>1 DEF Went, Going
  <2> QED BY <2>2, <2>3 DEF DayInv, Few
<1>2. LogTyped /\ DayInv /\ [Next]_reportVars => LogTyped' /\ DayInv'
  BY LogTypedStep, DayStep
<1>3. LogTyped /\ DayInv => LimitsHold
  <2> SUFFICES ASSUME LogTyped, DayInv, NEW i \in DOMAIN log, Passed(log[i])
               PROVE  /\ Cardinality({j \in DOMAIN log :
                            /\ Passed(log[j]) /\ log[j].address # None
                            /\ log[i].at <= log[j].at /\ log[j].at <= log[i].at + 1
                            /\ Key(j) = Key(i)}) <= Policy.address_per_day + (Cardinality(Threads) - 1)
                      /\ log[i].by # None =>
                           Cardinality({j \in DOMAIN log :
                              /\ Passed(log[j]) /\ log[j].address # None
                              /\ log[i].at <= log[j].at /\ log[j].at <= log[i].at + 1
                              /\ log[j].by = log[i].by}) <= Policy.submitter_per_day + (Cardinality(Threads) - 1)
    BY DEF LimitsHold
  <2> DEFINE a == log[i].at
             who == log[i].by
             most(kind) == Limit(kind) + Cardinality(Threads) - 1
  <2>1. log[i] \in Rows /\ a \in Instants
    BY RowOfLog
  <2>2. Threads # {} /\ Cardinality(Threads) \in Nat \ {0}
    BY PrecheckAssumption, FS_EmptySet, FS_CardinalityType DEF LogTyped
  <2>3. ASSUME NEW kind \in {"address", "person"}, NEW v \in Values(kind)
        PROVE  Cardinality(Went(kind, v, a)) <= most(kind)
    <3>1. Went(kind, v, a) # {} => Cardinality(Went(kind, v, a)) <= most(kind)
      BY <2>1, <2>3 DEF DayInv, Few
    <3>2. Went(kind, v, a) = {} => Cardinality(Went(kind, v, a)) = 0
      BY FS_EmptySet
    <3>3. Limit(kind) \in Nat
      BY SetsFinite
    <3> QED BY <2>2, <3>1, <3>2, <3>3
  <2>4. Key(i) \in Values("address")
    <3>1. log[i].address \in {p.address : p \in Entered} \cup {row.address : row \in CityRows}
      BY <2>1 DEF Rows
    <3>2. PICK p \in Entered \cup CityRows : log[i].address = p.address
      BY <3>1
    <3> QED BY <3>2 DEF Key, Values
  <2>5. who # None => who \in Values("person")
    BY <2>1 DEF Rows, Values
  <2>6. {j \in DOMAIN log : /\ Passed(log[j]) /\ log[j].address # None
                            /\ log[i].at <= log[j].at /\ log[j].at <= log[i].at + 1
                            /\ Key(j) = Key(i)} = Went("address", Key(i), a)
    BY DEF Went, Of, Key
  <2>7. who # None =>
          {j \in DOMAIN log : /\ Passed(log[j]) /\ log[j].address # None
                              /\ log[i].at <= log[j].at /\ log[j].at <= log[i].at + 1
                              /\ log[j].by = log[i].by} = Went("person", who, a)
    BY DEF Went, Of
  <2>8. /\ Cardinality(Went("address", Key(i), a)) <= Policy.address_per_day + (Cardinality(Threads) - 1)
        /\ who # None => Cardinality(Went("person", who, a)) <= Policy.submitter_per_day + (Cardinality(Threads) - 1)
    <3>1. Cardinality(Went("address", Key(i), a)) <= most("address")
      BY <2>3, <2>4
    <3>2. who # None => Cardinality(Went("person", who, a)) <= most("person")
      BY <2>3, <2>5
    <3>3. Policy.address_per_day \in Nat /\ Policy.submitter_per_day \in Nat
      BY PrecheckAssumption DEF Thresholds
    <3> QED BY <2>2, <3>1, <3>2, <3>3 DEF Limit
  <2> HIDE DEF a, who
  <2> QED BY <2>6, <2>7, <2>8 DEF a, who
<1> QED BY <1>1, <1>2, <1>3, PTL DEF Spec

-----------------------------------------------------------------------------
(* Where a report goes                                                     *)

\* The City's spelling, where there is one, is of the same address as the words.
Fits(words, city) == city # None => words # None /\ NormalizeAddress(city) = NormalizeAddress(words)

\* What the page offers and looks up is an address; what it holds fits, and so does what
\* was checked and recorded, unless an answer came late; and a run files one row of the
\* log under the address it has for the City.
AddressInv ==
    /\ None \notin lookups /\ candidates \subseteq OnRecord
    /\ stage = "none" => attempt = 0
    /\ attempt # 0 => attempt \in DOMAIN log /\ report.address = Sent(log[attempt])
    /\ ~late => /\ Fits(typed, cityAddress)
                /\ \A th \in Threads : checking[th] # None =>
                      Fits(checking[th].report.address, checking[th].report.cityAddress)
                /\ \A i \in DOMAIN log : Fits(log[i].address, log[i].cityAddress)

\* Of the page, everything but an answer for other words keeps the spelling to the words.
LEMMA PageFits ==
    ASSUME AddressInv, AddressNext
    PROVE  /\ None \notin lookups' /\ candidates' \subseteq OnRecord
           /\ ~late' => ~late /\ Fits(typed', cityAddress')
<1>1. ASSUME NEW a, Take(a), a # None
      PROVE  None \notin lookups' /\ candidates' \subseteq OnRecord
             /\ (~late' => ~late /\ Fits(typed', cityAddress'))
  BY <1>1 DEF Take, Fits, asking, AddressInv
<1>2. ASSUME NEW a, Retype(a)
      PROVE  None \notin lookups' /\ candidates' \subseteq OnRecord
             /\ (~late' => ~late /\ Fits(typed', cityAddress'))
  BY <1>2 DEF Retype, Fits, asking, AddressInv
<1>3. CASE FindAddress \/ DropPin
  BY <1>3 DEF FindAddress, DropPin, AddressInv
<1>4. ASSUME NEW q \in lookups, Found(q)
      PROVE  None \notin lookups' /\ candidates' \subseteq OnRecord
             /\ (~late' => ~late /\ Fits(typed', cityAddress'))
  <2>1. PICK s \in Suggestions(q) : cityAddress' = s /\ late' = (late \/ (s # None /\ q # typed))
    BY <1>4 DEF Found
  <2>2. s # None => NormalizeAddress(s) = NormalizeAddress(q)
    BY DEF Suggestions, Exact
  <2>3. lookups' \subseteq lookups /\ typed' = typed /\ candidates' \in {candidates, {}, Candidates(q)}
    BY <1>4 DEF Found
  <2>4. Candidates(q) \subseteq OnRecord
    BY DEF Candidates
  <2> QED BY <2>1, <2>2, <2>3, <2>4 DEF Fits, AddressInv
<1>5. ASSUME NEW q \in lookups, LookupFails(q)
      PROVE  None \notin lookups' /\ candidates' \subseteq OnRecord
             /\ (~late' => ~late /\ Fits(typed', cityAddress'))
  BY <1>5 DEF LookupFails, offered, AddressInv
<1>6. CASE Named
  <2>1. cityAddress' = cityAddress /\ candidates' = candidates /\ lookups' = lookups
    BY <1>6 DEF Named, offered
  <2>2. CASE UNCHANGED <<typed, late>>
    BY <2>1, <2>2 DEF Fits, AddressInv
  <2>3. ASSUME NEW a \in OnRecord, typed' = a, late' = (late \/ typed # None)
        PROVE  ~late' => ~late /\ Fits(typed', cityAddress')
    <3> SUFFICES ASSUME ~late' PROVE ~late /\ Fits(typed', cityAddress')
      OBVIOUS
    <3>1. ~late /\ typed = None
      BY <2>3, Zenon
    <3>2. cityAddress = None
      BY <3>1 DEF Fits, AddressInv
    <3> QED BY <2>1, <3>1, <3>2 DEF Fits
  <2> QED BY <1>6, <2>1, <2>2, <2>3 DEF Named, AddressInv
<1>7. CASE Reload
  BY <1>7 DEF Reload, Fits
<1> QED BY <1>1, <1>2, <1>3, <1>4, <1>5, <1>6, <1>7, AddressAssumption
        DEF AddressNext, TakeSpelling, PickCandidate, AddressInv

\* Rows are added at the end, by a check of the page, by the City or by a run by hand, and
\* keep their addresses.
LEMMA RowsFit ==
    ASSUME LogTyped, AddressInv, [Next]_reportVars
    PROVE  /\ \A i \in DOMAIN log :
                 /\ i \in DOMAIN log' /\ log'[i].address = log[i].address
                 /\ log'[i].cityAddress = log[i].cityAddress
           /\ ~late => \A i \in DOMAIN log' : Fits(log'[i].address, log'[i].cityAddress)
<1>1. ASSUME NEW row, log' = Append(log, row), ~late => Fits(row.address, row.cityAddress)
      PROVE  /\ \A i \in DOMAIN log : i \in DOMAIN log' /\ log'[i] = log[i]
             /\ ~late => \A i \in DOMAIN log' : Fits(log'[i].address, log'[i].cityAddress)
  <2>1. /\ Len(log) \in Nat /\ DOMAIN log = 1..Len(log) /\ DOMAIN log' = 1..Len(log) + 1
        /\ log'[Len(log) + 1] = row /\ \A i \in DOMAIN log : log'[i] = log[i]
    BY <1>1 DEF LogTyped
  <2>2. \A i \in DOMAIN log' : i \in DOMAIN log \/ i = Len(log) + 1
    BY <2>1
  <2>3. \A i \in DOMAIN log : i \in DOMAIN log'
    BY <2>1
  <2> QED BY <1>1, <2>1, <2>2, <2>3 DEF AddressInv
<1>2. CASE UNCHANGED log
  BY <1>2 DEF AddressInv
<1>3. ASSUME NEW th \in Threads, RecordAttempt(th)
      PROVE  log' = Append(log, Attempt(checking[th].report, checking[th].outcome, now))
             /\ (~late => Fits(checking[th].report.address, checking[th].report.cityAddress))
  BY <1>3 DEF RecordAttempt, AddressInv
<1>4. CASE CityRecords
  <2> PICK c \in CityRows : log' = Append(log, CityRow(c, now))
    BY <1>4 DEF CityRecords
  <2>1. CityRow(c, now).cityAddress = None
    BY DEF CityRow
  <2> QED BY <1>1, <2>1 DEF Fits
<1>5. CASE CityCloses
  <2> PICK i \in FromCity : log' = [log EXCEPT ![i].closed = TRUE]
    BY <1>5 DEF CityCloses
  <2>1. i \in DOMAIN log /\ log[i] \in Rows /\ log' = [log EXCEPT ![i] = [log[i] EXCEPT !.closed = TRUE]]
    BY DEF FromCity, LogTyped
  <2>2. DOMAIN log' = DOMAIN log
    BY <2>1
  <2>3. ASSUME NEW j \in DOMAIN log
        PROVE  log'[j].address = log[j].address /\ log'[j].cityAddress = log[j].cityAddress
    BY <2>1 DEF Rows
  <2> QED BY <2>2, <2>3 DEF AddressInv
<1>6. CASE FileIt
  <2>1. CASE UNCHANGED log
    BY <1>2, <2>1
  <2>2. CASE ~UNCHANGED log
    <3> PICK p \in ByHand : log' = Append(log, Attempt(p, "relayed", now))
      BY <1>6, <2>2 DEF FileIt, Recorded
    <3>1. Attempt(p, "relayed", now).cityAddress = None
      BY ByHandAssumption DEF Attempt
    <3> QED BY <1>1, <3>1 DEF Fits
  <2> QED BY <2>1, <2>2
<1>7. ASSUME NEW th \in Threads, RecordAttempt(th)
      PROVE  /\ \A i \in DOMAIN log : i \in DOMAIN log' /\ log'[i] = log[i]
             /\ ~late => \A i \in DOMAIN log' : Fits(log'[i].address, log'[i].cityAddress)
  <2> DEFINE row == Attempt(checking[th].report, checking[th].outcome, now)
  <2>1. row.address = checking[th].report.address /\ row.cityAddress = checking[th].report.cityAddress
    BY DEF Attempt
  <2>2. log' = Append(log, row)
    BY <1>3, <1>7
  <2>3. ~late => Fits(row.address, row.cityAddress)
    BY <1>3, <1>7, <2>1
  <2> HIDE DEF row
  <2> QED BY <1>1, <2>2, <2>3
<1>8. CASE \/ \E th \in Threads : PrecheckFails(th)
           \/ Tick
           \/ AddressNext /\ UNCHANGED policyVars
           \/ \E th \in Threads : CheckReport(th)
           \/ SendAndFile \/ RunByHand \/ Drive
           \/ UNCHANGED reportVars
  <2>1. UNCHANGED log
    BY <1>8 DEF PrecheckFails, Tick, CheckReport, PrecheckJudges, SendAndFile, RunByHand, Drive,
                reportVars, policyVars
  <2> QED BY <1>2, <2>1
<1> QED BY <1>4, <1>5, <1>6, <1>7, <1>8 DEF Next, PolicyNext

\* Every step keeps a report at the address of its words.
LEMMA AddressStep ==
    ASSUME LogTyped, AddressInv, [Next]_reportVars
    PROVE  AddressInv'
<1>1. /\ None \notin lookups' /\ candidates' \subseteq OnRecord
      /\ ~late' => ~late /\ Fits(typed', cityAddress')
  <2>1. CASE AddressNext
    BY <2>1, PageFits
  <2>2. CASE UNCHANGED addressVars
    BY <2>2 DEF addressVars, offered, asking, AddressInv
  <2> QED BY <2>1, <2>2 DEF Next, PolicyNext, CheckReport, SendAndFile, RunByHand, Drive, FileIt, reportVars
<1>2. ASSUME ~late', NEW th \in Threads, checking'[th] # None
      PROVE  Fits(checking'[th].report.address, checking'[th].report.cityAddress)
  <2>1. checking \in [Threads -> [report: Proposals, outcome: Outcomes] \cup {None}]
    BY DEF LogTyped
  <2>2. CASE checking'[th] = checking[th]
    BY <1>1, <1>2, <2>2 DEF AddressInv
  <2>3. ASSUME NEW t \in Threads, CheckReport(t)
        PROVE  Fits(checking'[th].report.address, checking'[th].report.cityAddress)
    <3>1. PICK p \in Proposals : p.address = typed /\ p.cityAddress = cityAddress /\ PrecheckJudges(t, p)
      BY <2>3 DEF CheckReport
    <3>2. CASE th = t
      <4>1. checking'[th].report = p
        BY <2>1, <3>1, <3>2 DEF PrecheckJudges
      <4> QED BY <1>1, <1>2, <3>1, <4>1 DEF AddressInv
    <3>3. CASE th # t
      BY <2>1, <2>2, <3>1, <3>3 DEF PrecheckJudges
    <3> QED BY <3>2, <3>3
  <2>4. ASSUME NEW t \in Threads, RecordAttempt(t) \/ PrecheckFails(t)
        PROVE  checking'[th] = checking[th]
    BY <1>2, <2>1, <2>4 DEF RecordAttempt, PrecheckFails
  <2>5. CASE UNCHANGED checking
    BY <2>2, <2>5
  <2> QED BY <2>2, <2>3, <2>4, <2>5
          DEF Next, PolicyNext, CityRecords, CityCloses, Tick, SendAndFile, RunByHand, Drive, FileIt,
              reportVars, policyVars
<1>3. /\ stage' = "none" => attempt' = 0
      /\ attempt' # 0 => attempt' \in DOMAIN log' /\ report'.address = Sent(log'[attempt'])
  <2>1. CASE SendAndFile
    <3>1. PICK i \in DOMAIN log, contact \in BOOLEAN, gates \in BOOLEAN, asked \in BOOLEAN :
             attempt' = i /\ Begin(Report(log[i], contact), gates, asked)
      BY <2>1 DEF SendAndFile
    <3>2. log' = log /\ stage' # "none" /\ report' = Report(log[i], contact)
      BY <2>1, <3>1 DEF SendAndFile, Begin, policyVars
    <3> QED BY <3>1, <3>2 DEF Report
  <2>2. CASE RunByHand
    <3>1. stage = "none" /\ stage' # "none" /\ attempt' = attempt
      BY <2>2 DEF RunByHand, Begin
    <3> QED BY <3>1 DEF AddressInv
  <2>3. CASE UNCHANGED <<report, attempt>> /\ (stage' = "none" => stage = "none")
    BY <2>3, RowsFit DEF AddressInv, Sent
  <2>4. CASE Drive \/ FileIt
    <3>1. UNCHANGED <<report, attempt>> /\ stage' # "none"
      BY <2>4 DEF Drive, FileIt, OpenCategory, FillFromRegistry, Asking, Sees, NeedsAnswers, ToReview,
                  Rehearsed, Breaks, Submit, given
    <3> QED BY <2>3, <3>1
  <2> QED BY <2>1, <2>2, <2>3, <2>4 DEF Next, reportVars, formVars, given, result
<1> QED BY <1>1, <1>2, <1>3, RowsFit DEF AddressInv

\* What the City is sent is what the person said, whatever registry, form, answers,
\* addresses and search: up to the values of LiveInventsNothing and the exemptions
\* FiledAsSaid names, each question holds at Submit what was given for it, no rehearsal
\* presses Submit, and the pin is at the address of the person's words.
THEOREM SentAsSaid == Spec => []FiledAsSaid
<1>1. Init => LogTyped /\ AddressInv
  BY InitTyped DEF Init, PolicyInit, AddressInit, FormInit, AddressInv, Fits
<1>2. LogTyped /\ AddressInv /\ [Next]_reportVars => LogTyped' /\ AddressInv'
  BY LogTypedStep, AddressStep
<1>3. ASSUME PageInv PROVE FilledAsAnswered
  <2> USE <1>3
  <2> SUFFICES ASSUME sent, Unmistakable(form), NEW k \in Orders, NEW v \in Holds(k)
               PROVE  v \in (UNION {a.says : a \in Rightful(k)})
                            \cup (IF form[k].kind = "text" /\ report.described THEN {Words} ELSE {})
                            \cup (IF Lapses(k) THEN {Invented} ELSE {})
    BY DEF FilledAsAnswered, PageInv
  <2>1. Wanted(k) \subseteq UNION {a.says : a \in Rightful(k)}
    <3> SUFFICES ASSUME NEW key \in Keys(k), NEW x \in Want(k, key).says
                 PROVE  x \in UNION {a.says : a \in Rightful(k)}
      BY DEF Wanted
    <3>1. Want(k, key) \in Rightful(k)
      BY WantIsRightful DEF Unanswered
    <3>2. Want(k, key).says \in {a.says : a \in Rightful(k)}
      BY <3>1
    <3> QED BY <3>2
  <2> QED BY <2>1 DEF PageInv, Held
<1>4. ASSUME PageInv, AddressInv PROVE PinnedAsSaid
  <2> DEFINE e == log[attempt]
  <2> SUFFICES ASSUME attempt # 0, ~late, pin # Absent, e.cityAddress # None,
                      Gazetteer[e.cityAddress] = e.cityAddress
               PROVE  NormalizeAddress(pin) = NormalizeAddress(e.address)
    BY DEF PinnedAsSaid
  <2>1. report.address = e.cityAddress /\ Fits(e.address, e.cityAddress)
    BY <1>4 DEF AddressInv, Sent
  <2>2. pin = e.cityAddress
    BY <1>4, <2>1, OneNone DEF PageInv, Located
  <2> QED BY <2>1, <2>2 DEF Fits
<1>5. PageInv /\ AddressInv => FiledAsSaid
  BY <1>3, <1>4 DEF FiledAsSaid
<1> QED BY <1>1, <1>2, <1>5, FormInvariance, PTL DEF Spec

=============================================================================
