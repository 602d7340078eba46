------------------------------ MODULE AddressBox ------------------------------
(***************************************************************************)
(* The address of a report, as submit.html comes by it. The person types,  *)
(* the page looks the words up in what the City has called its places      *)
(* (/api/geocode), and holds the City's spelling beside the words, which   *)
(* stay the person's; a pin on the map names an address too                *)
(* (/api/reverse). A lookup is answered whenever it is, and the page does  *)
(* not ask whether the words are still those it was about. One page is     *)
(* followed, filled in again and again.                                    *)
(***************************************************************************)
EXTENDS Precheck

CONSTANTS
    Typable,    \* what people type
    OnRecord,   \* the addresses of service_requests
    MaxLookups  \* bound of the model: lookups under way at once

ASSUME AddressAssumption == None \notin OnRecord /\ MaxLookups \in Nat

VARIABLES
    typed,          \* what the address box says: None if it is empty
    cityAddress,    \* what the City would be handed for it, None for the words themselves
    spelling,       \* the City's spelling as offered beside the box
    candidates,     \* the list to pick the closest match from
    lookups,        \* the words of lookups under way; two about the same words are one
    naming,         \* the address of a pin is being asked for
    late            \* some answer ever came for other words than stood in the box by then

offered == <<spelling, candidates>>
asking == <<lookups, naming>>
addressVars == <<typed, cityAddress, offered, asking, late>>

AddressInit ==
    /\ typed = None /\ cityAddress = None
    /\ spelling = None /\ candidates = {}
    /\ lookups = {} /\ naming = FALSE /\ late = FALSE

-----------------------------------------------------------------------------
(* /api/geocode                                                            *)

Spelled(w) ==
    IF \E k \in DOMAIN Direction : k # w /\ Direction[k] = w
    THEN CHOOSE k \in DOMAIN Direction : k # w /\ Direction[k] = w ELSE w

\* With the directions abbreviated, and with them spelled out.
SqlPrefixes(address) ==
    LET words == PrefixWords(address)
    IN  {SqlPrefix(address),
         [i \in DOMAIN words |->
            IF i \in 2..Len(words) - 1 THEN Spelled(words[i]) ELSE words[i]]}

Candidates(q) == {a \in OnRecord : \E prefix \in SqlPrefixes(q) : Like(prefix, a)}

\* merge_candidates: what is the same address once normalized, as opposed to a near miss.
\* Which of its spellings the City has used most is left open.
Exact(q) == {a \in Candidates(q) : NormalizeAddress(a) = NormalizeAddress(q)}

Suggestions(q) == IF Exact(q) = {} THEN {None} ELSE Exact(q)

-----------------------------------------------------------------------------
(* The page                                                                *)

\* The box's input handler. The list stays until the next lookup.
Retype(a) ==
    /\ typed' = a /\ cityAddress' = None /\ spelling' = None
    /\ UNCHANGED <<candidates, asking, late>>

\* findAddress: half a second after the last key, at a press or at Enter. An empty box is
\* not looked up.
FindAddress ==
    /\ candidates' = {}
    /\ \/ typed = None /\ UNCHANGED lookups
       \/ typed # None /\ Cardinality(lookups) < MaxLookups /\ lookups' = lookups \cup {typed}
    /\ UNCHANGED <<typed, cityAddress, spelling, naming, late>>

\* The answer, whatever the box says by now: an exact match alone places the pin, and
\* otherwise there is a list, if anything is near.
Found(q) ==
    /\ q \in lookups /\ lookups' = lookups \ {q}
    /\ \E s \in Suggestions(q) :
          /\ cityAddress' = s
          /\ spelling' = IF s = q THEN None ELSE s
          /\ late' = (late \/ (s # None /\ q # typed))
    /\ candidates' = IF Candidates(q) = {} THEN candidates
                     ELSE IF Candidates(q) = Exact(q) THEN {} ELSE Candidates(q)
    /\ UNCHANGED <<typed, naming>>

\* A lookup that fails says so and leaves everything as it is.
LookupFails(q) ==
    /\ q \in lookups /\ lookups' = lookups \ {q}
    /\ UNCHANGED <<typed, cityAddress, offered, naming, late>>

\* The City's spelling, or one of the list, goes into the box and to the City.
Take(a) ==
    /\ typed' = a /\ cityAddress' = a
    /\ spelling' = None /\ candidates' = {}
    /\ UNCHANGED <<asking, late>>

TakeSpelling == spelling # None /\ Take(spelling)
PickCandidate == \E c \in candidates : Take(c)

\* setLocation from the map or the browser's position: the pin is named if the box is
\* empty.
DropPin ==
    /\ candidates' = {}
    /\ naming' = (naming \/ typed = None)
    /\ UNCHANGED <<typed, cityAddress, spelling, lookups, late>>

\* fillAddressFromPoint: the nearest address, into a box that may no longer be empty; or
\* none is near, or the request failed.
Named ==
    /\ naming /\ naming' = FALSE
    /\ \/ \E a \in OnRecord : typed' = a /\ late' = (late \/ typed # None)
       \/ UNCHANGED <<typed, late>>
    /\ UNCHANGED <<cityAddress, offered, lookups>>

\* The page is loaded anew, by the same person or another.
Reload ==
    /\ typed' = None /\ cityAddress' = None
    /\ spelling' = None /\ candidates' = {}
    /\ lookups' = {} /\ naming' = FALSE
    /\ UNCHANGED late

AddressNext ==
    \/ \E a \in Typable : Retype(a)
    \/ FindAddress
    \/ \E q \in lookups : Found(q) \/ LookupFails(q)
    \/ TakeSpelling \/ PickCandidate
    \/ DropPin \/ Named
    \/ Reload

\* precheck of the page: the words as they stand, and beside them what the City would
\* be handed.
CheckReport(th) ==
    /\ \E p \in Proposals :
          /\ p.address = typed /\ p.cityAddress = cityAddress
          /\ PrecheckJudges(th, p)
    /\ UNCHANGED addressVars
=============================================================================
