-------------------------------- MODULE Reports --------------------------------
(***************************************************************************)
(* Reports from the form to the City: what the precheck has recorded may   *)
(* be sent, whatever its answers are, since only /api/validate looks at    *)
(* them and nothing asks whether it was called; an operator may also run   *)
(* the driver by hand, past the policy, and that run is recorded for the   *)
(* policy to count. Waiting, claiming and retrying are SubmissionQueue's.  *)
(***************************************************************************)
EXTENDS AddressBox, WizardForm

\* One word for what is not there.
ASSUME OneNone == Absent = None

CONSTANT ByHand     \* the reports an operator may file with the driver

\* The driver takes one address, and nobody is signed in.
ASSUME ByHandAssumption == \A p \in ByHand : p.by = None /\ p.cityAddress = None

VARIABLE attempt    \* the row of the log the run files; 0: run by hand

reportVars == <<policyVars, addressVars, formVars, attempt>>

Init == PolicyInit /\ AddressInit /\ FormInit /\ attempt = 0

\* A plausible bug, and what the code once did: the person's own words.
SentVerbatim(e) == e.address

\* file_one: the City's spelling where there is one, and the person's words otherwise.
Sent(e) == IF e.cityAddress # None THEN e.cityAddress ELSE e.address

Report(e, contact) ==
    [answers |-> e.answers, address |-> Sent(e), described |-> e.text # None, contact |-> contact]

\* /api/queue refuses what the policy blocked; a warning needs an acknowledgement, which
\* the person may give. Once sent, it is filed as it was recorded.
Sendable(e) == e.source = "ours" /\ e.outcome # "block"

SendAndFile ==
    /\ \E i \in DOMAIN log, contact, gates, asked \in BOOLEAN :
          /\ Sendable(log[i])
          /\ attempt' = i /\ Begin(Report(log[i], contact), gates, asked)
    /\ UNCHANGED <<policyVars, addressVars>>

RunByHand ==
    /\ \E p \in ByHand, contact, gates \in BOOLEAN :
          Begin(Report(p, contact), gates, FALSE)
    /\ UNCHANGED <<policyVars, addressVars, attempt>>

\* _record, before the click: a run by hand gets a row, which nothing looks at but the
\* policy; a database that cannot be written stops nothing.
Recorded ==
    \/ attempt = 0 /\ Len(log) < MaxEvents
       /\ \E p \in ByHand :
            /\ p.answers = report.answers /\ p.address = report.address
            /\ log' = Append(log, Attempt(p, "relayed", now))
    \/ UNCHANGED log

FileIt == Submit /\ Recorded /\ UNCHANGED <<now, checking, addressVars, attempt>>

Drive ==
    /\ OpenCategory \/ FillFromRegistry \/ NeedsAnswers \/ ToReview \/ Rehearsed \/ Breaks
    /\ UNCHANGED <<policyVars, addressVars, attempt>>

Next ==
    \/ PolicyNext /\ UNCHANGED <<addressVars, formVars, attempt>>
    \/ AddressNext /\ UNCHANGED <<policyVars, formVars, attempt>>
    \/ (\E th \in Threads : CheckReport(th)) /\ UNCHANGED <<formVars, attempt>>
    \/ SendAndFile \/ RunByHand \/ Drive \/ FileIt

Spec == Init /\ [][Next]_reportVars

-----------------------------------------------------------------------------
\* A report goes to the place its person wrote down: where the City's own spelling is
\* sent instead of the words, and the City's search answers it with itself, the pin is at
\* the address of the words, whatever they were before, whichever lookups were under way
\* as they changed, and whatever the search would have offered first for the words. That
\* is so as long as no answer came late, which the page does not notice (submit.html,
\* /api/geocode, file_one, set_location).
PinnedAsSaid ==
    sent /\ attempt # 0 /\ ~late /\ pin # Absent =>
        LET e == log[attempt]
        IN  e.cityAddress # None /\ Gazetteer[e.cityAddress] = e.cityAddress =>
                NormalizeAddress(pin) = NormalizeAddress(e.address)

\* What the City is sent is what the person said: the answers under their questions, and
\* the place.
FiledAsSaid == FilledAsAnswered /\ PinnedAsSaid
=============================================================================
