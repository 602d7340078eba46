------------------------------- MODULE MCReports -------------------------------
(* A small instance of Reports for TLC.                                    *)
EXTENDS Reports, TLC

CONSTANTS p1, th1, th2, x, y, z

MCDirection == [w \in {"NORTH", "N"} |-> "N"]
MCSuffix == [w \in {"ST", "STREET"} |-> "STREET"]
MCStartsWith == {<<"NORTH", "N">>, <<"STREET", "ST">>}

Pitt == <<<<"1", "NORTH", "PITT", "ST">>>>
PittShort == <<<<"1", "N", "PITT", "STREET">>>>
CornerTurned == <<<<"N", "PITT", "STREET">>, <<"KING", "STREET">>>>
View == <<<<"1", "N", "PITT", "VIEW", "ST">>>>      \* what comes near, and is not meant
Nowhere == <<<<"0", "PITT", "ST">>>>

MCTypable == {Pitt, PittShort, CornerTurned, None}
MCOnRecord == {Pitt, View}

\* The City's search knows its own spelling, and offers something else for the person's.
MCGazetteer == (Pitt :> Pitt) @@ (PittShort :> View) @@ (View :> View)
               @@ (CornerTurned :> None) @@ (Nowhere :> NotServiceable)
MCLonger == {<<"cc", "c">>}

MCPolicy == [submitter_per_day |-> 1, submitter_per_week |-> 3, submitter_address_per_week |-> 2,
             same_category_repeat_days |-> 7, address_per_day |-> 1, address_per_week |-> 3,
             targeting_share |-> 60, targeting_min_events |-> 3,
             burst_events |-> 3, burst_days |-> 7, burst_diversity |-> 50]

MCCityRows == {[address |-> Pitt, category |-> "c", text |-> x]}

Str(s) == [is |-> "str", says |-> {s}]
List(s) == [is |-> "list", says |-> s]
Dict(s) == [is |-> "dict", says |-> s]
Blank == [is |-> "str", says |-> {}]

Code(n) == <<"code", n>>

Question(order, key, words, options, required, dataOnly, revealed, hard) ==
    [order |-> order, key |-> key, words |-> words, options |-> options, required |-> required,
     dataOnly |-> dataOnly, revealed |-> revealed, hard |-> hard, agents |-> {}]

MCRegistry ==
    {[Question(1, Code(1), "where", {"a", "b", "r", "g"}, TRUE, FALSE, {}, {[option |-> "r", when |-> {}]})
         EXCEPT !.agents = {"g"}],
     Question(2, Code(2), "which", {"c", "d"}, TRUE, FALSE, {<<Code(1), "a">>}, {}),
     Question(3, Code(3), "what", {}, FALSE, FALSE, {}, {}),
     Question(3, Code(4), "damage", {}, FALSE, TRUE, {}, {}),
     Question(4, Code(5), "when", {}, TRUE, FALSE, {}, {}),
     Question(5, Code(6), "maybe", {"o"}, FALSE, FALSE, {}, {})}

Asked(kind, options, required, boxes, when, words, refused) ==
    [kind |-> kind, options |-> options, required |-> required, boxes |-> boxes,
     when |-> when, words |-> words, refused |-> refused]

Base == <<Asked("radio", {"a", "b", "r"}, TRUE, {}, {}, "where", {"r"}),
          Asked("checkbox", {"c", "d"}, TRUE, {}, {<<1, "a">>}, "which", {}),
          Asked("text", {}, FALSE, {"text"}, {}, "what", {}),
          Asked("text", {}, TRUE, {"date"}, {}, "when", {})>>
Alike == [k \in {2, 3, 4} |->
            IF k = 3 THEN Asked("checkbox", {"c", "cc"}, FALSE, {}, {}, "what", {})
            ELSE [Base[k] EXCEPT !.when = {}]]
Picklist == [Base EXCEPT ![2].kind = "dropdown", ![4].kind = "composite",
                         ![4].boxes = {"date", "time", "meridiem"}]
Drifted == [Base EXCEPT ![2].options = {"c", "e"}, ![3].words = "say", ![3].required = TRUE]
Short == [k \in {5} |-> Asked("radio", {"o"}, FALSE, {}, {}, "maybe", {})]
MCForms == {Base, Picklist, Drifted, Short, Alike}

Parts(n, choices) == {[k \in {Code(n)} |-> a] : a \in choices} \cup {<<>>}

DatedFive == Code(5) :> Dict({"date", "time"})
Chosen == {b @@ DatedFive @@ (Code(1) :> Str("a")) : b \in Parts(2, {List({"c"}), List({"c", "d"})})}
          \cup {a @@ DatedFive : a \in Parts(1, {Str("b"), Str("r"), Str("g")})}
          \cup {b @@ (Code(1) :> Str("b")) : b \in Parts(5, {Dict({"date"})})}
          \cup {(Code(6) :> Blank) @@ DatedFive @@ (Code(1) :> Str("b"))}
Told == {a @@ (Code(5) :> Str("w")) @@ (Code(1) :> Str("b")) :
            a \in {c @@ d : c \in Parts(3, {Str("u"), List({"u"}), Dict({"date"})}), d \in Parts(4, {Str("v")})}}

Checks(by, address, text, answers) ==
    [by |-> by, address |-> address, cityAddress |-> None, category |-> "c", text |-> text, honeypot |-> FALSE,
     answers |-> answers]

Policed ==
    {Checks(p1, Pitt, x, <<>>), Checks(None, PittShort, x, <<>>), Checks(p1, None, x, <<>>),
     Checks(None, Pitt, z, <<>>),
     [Checks(None, Pitt, x, <<>>) EXCEPT !.honeypot = TRUE]}
Written == {Checks(None, CornerTurned, None, answers) : answers \in Chosen}
           \cup {Checks(None, PittShort, y, answers) : answers \in Told}
           \cup {[Checks(None, PittShort, None, answers) EXCEPT !.cityAddress = Pitt] : answers \in Told}
TooMuch == Checks(None, CornerTurned, None, Code(3) :> Str(z))

\* What was found for other words.
Astray == [Checks(None, CornerTurned, y, Code(1) :> Str("b")) EXCEPT !.cityAddress = Pitt]
MCByHand == {Checks(None, None, y, Code(1) :> Str("b")),
             Checks(None, Nowhere, y, (Code(1) :> Str("b")) @@ (<<"order", 4>> :> Dict({"date"})))}
MCProposals == Policed \cup Written \cup {TooMuch, Astray}

MCSymmetry == Permutations(Threads)

\* What is sent and filed does not bear on the policy but for the run by hand, so one
\* half is looked at without the other: one report of the written ones is filed, and the
\* others are judged and recorded. The page is left alone once the written one is
\* checked, and the policed ones are just typed.
Busy == {th \in Threads : checking[th] # None}
AtRest == lookups = {} /\ ~naming /\ candidates = {}
Left(p) ==
    /\ AtRest /\ typed = p.address /\ cityAddress = p.cityAddress
    /\ late => p.address = Astray.address /\ p.cityAddress = Astray.cityAddress
Apart ==
    \/ /\ stage = "none" /\ form = Base
       /\ \A i \in DOMAIN log : log[i].answers \in {None, <<>>}
       /\ \A th \in Busy : checking[th].report \in Policed
       /\ AtRest /\ spelling = None /\ cityAddress = None /\ ~late
    \/ /\ now = 0 /\ Len(log) <= 1 /\ FromCity = {}
       /\ IF stage = "none" THEN Cardinality(Busy) + Len(log) <= 1
          ELSE Busy = {} /\ (attempt # 0 \/ log = <<>>)
       /\ \A th \in Busy : Left(checking[th].report)
       /\ \A i \in DOMAIN log : log[i].outcome = "relayed" \/ Left(log[i])
       /\ stage # "none" /\ attempt = 0 => AtRest /\ typed = None /\ cityAddress = None /\ ~late
=============================================================================
