--------------------------- MODULE TidingsProofs ---------------------------
(***************************************************************************)
(* Proofs about Tidings for any number of accounts, phones, jobs, cases    *)
(* and addresses.                                                          *)
(***************************************************************************)
EXTENDS Tidings, FiniteSetTheorems, SequenceTheorems, TLAPS

\* The half of the types that links and phones share, and that of the digest.
LinkTypes ==
    /\ status \in Statuses \cup {None} /\ became \in [Statuses -> Nat]
    /\ link \in [Users -> Link \cup {None}] /\ told \in [Users -> [Statuses -> Nat]]
    /\ verdict \in [Users -> {"mine", "following", None}]
    /\ stance \in [Users -> {"support", "oppose", None}]
    /\ pass \in [Jobs -> Pass]

PhoneTypes ==
    /\ devices \in [Users -> Seq(Tokens)] /\ off \subseteq Tokens
    /\ \A u \in Users :
          /\ Len(devices[u]) <= MaxDevices /\ IsInjective(devices[u])
          /\ \A w \in Users \ {u} : ToSet(devices[u]) \cap ToSet(devices[w]) = {}

DigestTypes ==
    /\ clock \in 1..MaxTime /\ upsert \in Upsert \cup {None}
    /\ cityAt \in [Cases -> 0..MaxTime] /\ seen \in [Cases -> 0..MaxTime]
    /\ updated \in [Cases -> 0..MaxTime]
    /\ \A c \in Cases : seen[c] <= clock /\ updated[c] <= cityAt[c] /\ cityAt[c] <= clock
    /\ watches \in [Users -> SUBSET Watch] /\ digest \in [Users -> Digest]
    /\ owed \in [Users -> SUBSET Cases]
    /\ \A u \in Users :
          /\ digest[u].failures = MaxFailures => digest[u].confirmed = 0
          /\ digest[u].email = None => digest[u].confirmed = 0
    /\ run \in Run
    /\ proved \subseteq Users \X Addresses
    /\ asked \subseteq Users \X Addresses /\ mailed \subseteq asked \cup proved

\* The type invariant is that of the links, the phones and the digest.
LEMMA TypesSplit == TypeOK <=> LinkTypes /\ PhoneTypes /\ DigestTypes
BY DEF TypeOK, LinkTypes, PhoneTypes, DigestTypes

-----------------------------------------------------------------------------
(* Sequences of phones                                                     *)

\* A sequence that holds an element once is left with the others, in their order.
LEMMA TakenOut ==
    ASSUME NEW S, NEW s \in Seq(S), NEW t, IsInjective(s)
    PROVE  /\ RemoveFirst(s, t) \in Seq(S) /\ IsInjective(RemoveFirst(s, t))
           /\ ToSet(RemoveFirst(s, t)) = ToSet(s) \ {t}
           /\ Len(RemoveFirst(s, t)) <= Len(s)
<1> DEFINE r == RemoveFirst(s, t)
<1>0. \A i, j \in 1..Len(s) : s[i] = s[j] => i = j
  BY DEF IsInjective
<1>1. CASE ~ \E i \in 1..Len(s) : s[i] = t
  <2>1. r = s
    BY <1>1 DEF RemoveFirst
  <2>2. t \notin ToSet(s)
    BY <1>1 DEF ToSet
  <2> QED BY <2>1, <2>2
<1>2. CASE \E i \in 1..Len(s) : s[i] = t
  <2>1. PICK k \in 1..Len(s) : s[k] = t
    BY <1>2
  <2>2. {i \in 1..Len(s) : s[i] = t} = {k}
    BY <2>1, <1>0
  <2>3. SelectInSeq(s, LAMBDA v : v = t) = k
    <3>1. Min({k}) = k
      BY <2>1 DEF Min
    <3> QED BY <3>1, <2>2 DEF SelectInSeq
  <2>4. r = SubSeq(s, 1, k - 1) \o SubSeq(s, k + 1, Len(s))
    BY <2>3, <1>2 DEF RemoveFirst, RemoveAt
  <2> DEFINE n == Len(s) - 1
             a == SubSeq(s, 1, k - 1)
             b == SubSeq(s, k + 1, Len(s))
  <2>a. a \in Seq(S) /\ Len(a) = k - 1 /\ \A i \in 1..(k - 1) : a[i] = s[i]
    BY <2>1, SubSeqProperties
  <2>b. b \in Seq(S) /\ Len(b) = Len(s) - k /\ \A i \in 1..(Len(s) - k) : b[i] = s[i + k]
    <3>1. k + 1 <= Len(s) + 1
      BY <2>1
    <3> QED BY <2>1, <3>1, SubSeqProperties
  <2> HIDE DEF a, b
  <2>5. r \in Seq(S) /\ Len(r) = n
    <3>1. r = a \o b
      BY <2>4 DEF a, b
    <3> HIDE DEF r
    <3> QED BY <3>1, <2>1, <2>a, <2>b
  <2>6. \A i \in 1..n : r[i] = IF i < k THEN s[i] ELSE s[i + 1]
    <3> SUFFICES ASSUME NEW i \in 1..n PROVE r[i] = IF i < k THEN s[i] ELSE s[i + 1]
      OBVIOUS
    <3>0. r = a \o b
      BY <2>4 DEF a, b
    <3> HIDE DEF r
    <3>1. CASE i < k
      <4>1. i \in 1..Len(a)
        BY <3>1, <2>a, <2>1
      <4> QED BY <3>0, <3>1, <4>1, <2>a, <2>b
    <3>2. CASE ~(i < k)
      <4>1. i - Len(a) \in 1..(Len(s) - k) /\ i - Len(a) + k = i + 1
        BY <3>2, <2>a, <2>1
      <4>2. r[i] = b[i - Len(a)]
        BY <3>0, <3>2, <4>1, <2>a, <2>b, <2>1
      <4> QED BY <4>1, <4>2, <2>b, <3>2
    <3> QED BY <3>1, <3>2
  <2> HIDE DEF r
  <2>7. IsInjective(r)
    <3> SUFFICES ASSUME NEW i \in 1..n, NEW j \in 1..n, r[i] = r[j] PROVE i = j
      BY <2>5 DEF IsInjective
    <3> QED BY <2>6, <1>0, <2>1
  <2>8. ToSet(r) = ToSet(s) \ {t}
    <3>1. ASSUME NEW x \in ToSet(r) PROVE x \in ToSet(s) \ {t}
      <4>1. PICK i \in 1..n : x = r[i]
        BY <3>1, <2>5 DEF ToSet
      <4>2. PICK j \in 1..Len(s) : x = s[j] /\ j # k
        BY <4>1, <2>6, <2>1
      <4> QED BY <4>2, <1>0, <2>1 DEF ToSet
    <3>2. ASSUME NEW x \in ToSet(s) \ {t} PROVE x \in ToSet(r)
      <4>1. PICK j \in 1..Len(s) : x = s[j]
        BY <3>2 DEF ToSet
      <4>2. j # k
        BY <4>1, <3>2, <2>1
      <4>3. \E i \in 1..n : x = r[i]
        <5>1. CASE j < k
          BY <5>1, <4>1, <2>6, <2>1
        <5>2. CASE j > k
          <6>1. j - 1 \in 1..n /\ ~(j - 1 < k) /\ (j - 1) + 1 = j
            BY <5>2, <2>1, <4>1
          <6> QED BY <6>1, <4>1, <2>6
        <5> QED BY <5>1, <5>2, <4>2, <2>1, <4>1
      <4> QED BY <4>3, <2>5 DEF ToSet
    <3> QED BY <3>1, <3>2
  <2> QED BY <2>5, <2>7, <2>8 DEF r
<1> QED BY <1>1, <1>2

\* A new element before the first ones of a sequence that does not hold it.
LEMMA PutFirst ==
    ASSUME NEW S, NEW s \in Seq(S), NEW t \in S, IsInjective(s), t \notin ToSet(s),
           NEW n \in 0..Len(s)
    PROVE  LET r == <<t>> \o SubSeq(s, 1, n)
           IN  /\ r \in Seq(S) /\ IsInjective(r) /\ Len(r) = n + 1
               /\ ToSet(r) \subseteq ToSet(s) \cup {t}
<1> DEFINE r == <<t>> \o SubSeq(s, 1, n)
<1>0. \A i, j \in 1..Len(s) : s[i] = s[j] => i = j
  BY DEF IsInjective
<1>1. r \in Seq(S) /\ Len(r) = n + 1
  OBVIOUS
<1>2. \A i \in 1..(n + 1) : r[i] = IF i = 1 THEN t ELSE s[i - 1]
  OBVIOUS
<1> HIDE DEF r
<1>3. \A i \in 1..Len(s) : s[i] # t
  BY DEF ToSet
<1>4. IsInjective(r)
  <2> SUFFICES ASSUME NEW i \in 1..(n + 1), NEW j \in 1..(n + 1), r[i] = r[j] PROVE i = j
    BY <1>1 DEF IsInjective
  <2> QED BY <1>0, <1>2, <1>3
<1>5. ASSUME NEW x \in ToSet(r) PROVE x \in ToSet(s) \cup {t}
  <2>1. PICK i \in 1..(n + 1) : x = r[i]
    BY <1>5, <1>1 DEF ToSet
  <2>2. i = 1 => x = t
    BY <2>1, <1>2
  <2>3. i # 1 => i - 1 \in 1..Len(s) /\ x = s[i - 1]
    BY <2>1, <1>2
  <2> QED BY <2>2, <2>3 DEF ToSet
<1> QED BY <1>1, <1>4, <1>5 DEF r

\* Registering and removing a phone keep the types.
LEMMA RegisterTypes ==
    ASSUME PhoneTypes, NEW u \in Users, NEW t \in Tokens, Register(u, t)
    PROVE  PhoneTypes'
<1> DEFINE others(w) == RemoveFirst(devices[w], t)
           n == IF Len(others(u)) < MaxDevices THEN Len(others(u)) ELSE MaxDevices - 1
<1>1. \A w \in Users :
        /\ others(w) \in Seq(Tokens) /\ IsInjective(others(w))
        /\ ToSet(others(w)) = ToSet(devices[w]) \ {t}
        /\ Len(others(w)) <= Len(devices[w])
  BY TakenOut DEF PhoneTypes
<1>2. devices' = [w \in Users |-> IF w # u THEN others(w) ELSE <<t>> \o SubSeq(others(u), 1, n)]
  BY DEF Register, Registered
<1> HIDE DEF others
<1>3. MaxDevices \in Nat \ {0} /\ n \in 0..Len(others(u)) /\ n < MaxDevices
  BY <1>1, TidingsAssumption
<1> HIDE DEF n
<1>4. /\ devices'[u] \in Seq(Tokens) /\ IsInjective(devices'[u]) /\ Len(devices'[u]) = n + 1
      /\ ToSet(devices'[u]) \subseteq ToSet(devices[u]) \cup {t}
  <2>1. devices'[u] = <<t>> \o SubSeq(others(u), 1, n)
    BY <1>2
  <2>2. others(u) \in Seq(Tokens) /\ IsInjective(others(u)) /\ t \notin ToSet(others(u))
    BY <1>1
  <2>3. LET d == <<t>> \o SubSeq(others(u), 1, n)
        IN  d \in Seq(Tokens) /\ IsInjective(d) /\ Len(d) = n + 1
            /\ ToSet(d) \subseteq ToSet(others(u)) \cup {t}
    BY <1>1, <1>3, <2>2, PutFirst, Zenon
  <2> QED BY <2>1, <2>3, <1>1
<1>5. \A w \in Users \ {u} : devices'[w] = others(w)
  BY <1>2
<1>6. devices' \in [Users -> Seq(Tokens)]
  BY <1>1, <1>2, <1>4, <1>5
<1>7. off' \subseteq Tokens
  BY DEF PhoneTypes, Register
<1>8. ASSUME NEW v \in Users
      PROVE  /\ Len(devices'[v]) <= MaxDevices /\ IsInjective(devices'[v])
             /\ \A w \in Users \ {v} : ToSet(devices'[v]) \cap ToSet(devices'[w]) = {}
  <2>0. \A w \in Users \ {u} : ToSet(devices[w]) \cap ToSet(devices[u]) = {}
    BY DEF PhoneTypes
  <2>1. \A w \in Users \ {u} : ToSet(devices'[w]) = ToSet(devices[w]) \ {t}
    BY <1>1, <1>5
  <2>2. CASE v = u
    BY <2>0, <2>1, <2>2, <1>3, <1>4
  <2>3. CASE v # u
    <3>1. Len(devices'[v]) <= MaxDevices /\ IsInjective(devices'[v])
      <4>1. Len(devices[v]) <= MaxDevices /\ devices[v] \in Seq(Tokens)
        BY DEF PhoneTypes
      <4> QED BY <2>3, <1>1, <1>3, <1>5, <4>1
    <3>2. ASSUME NEW w \in Users \ {v} PROVE ToSet(devices'[v]) \cap ToSet(devices'[w]) = {}
      <4>1. ToSet(devices[v]) \cap ToSet(devices[w]) = {}
        BY DEF PhoneTypes
      <4> QED BY <4>1, <2>0, <2>1, <2>3, <1>4
    <3> QED BY <3>1, <3>2
  <2> QED BY <2>2, <2>3
<1> QED BY <1>6, <1>7, <1>8 DEF PhoneTypes

\* Unregistering a phone keeps the types.
LEMMA UnregisterTypes ==
    ASSUME PhoneTypes, NEW u \in Users, NEW t \in Tokens, Unregister(u, t)
    PROVE  PhoneTypes'
<1>1. /\ RemoveFirst(devices[u], t) \in Seq(Tokens) /\ IsInjective(RemoveFirst(devices[u], t))
      /\ ToSet(RemoveFirst(devices[u], t)) = ToSet(devices[u]) \ {t}
      /\ Len(RemoveFirst(devices[u], t)) <= Len(devices[u])
  BY TakenOut DEF PhoneTypes
<1>2. devices' = [devices EXCEPT ![u] = RemoveFirst(@, t)] /\ off' = off \ {t}
  BY DEF Unregister
<1> DEFINE rest == RemoveFirst(devices[u], t)
<1> HIDE DEF rest
<1>3. devices' = [devices EXCEPT ![u] = rest]
  BY <1>2 DEF rest
<1>4. /\ devices' \in [Users -> Seq(Tokens)] /\ off' \subseteq Tokens
      /\ devices'[u] = rest /\ \A w \in Users \ {u} : devices'[w] = devices[w]
  BY <1>1, <1>2, <1>3 DEF PhoneTypes, rest
<1>5. ASSUME NEW v \in Users
      PROVE  /\ Len(devices'[v]) <= MaxDevices /\ IsInjective(devices'[v])
             /\ \A w \in Users \ {v} : ToSet(devices'[v]) \cap ToSet(devices'[w]) = {}
  <2>1. Len(devices[v]) <= MaxDevices /\ devices[v] \in Seq(Tokens) /\ IsInjective(devices[v])
    BY DEF PhoneTypes
  <2>2. Len(devices'[v]) <= MaxDevices /\ IsInjective(devices'[v])
    <3>1. CASE v = u
      <4>1. Len(rest) \in Nat /\ Len(devices[u]) \in Nat /\ MaxDevices \in Nat
        BY <1>1, <2>1, <3>1, TidingsAssumption DEF rest
      <4> QED BY <3>1, <4>1, <1>1, <1>4, <2>1 DEF rest
    <3>2. CASE v # u
      BY <3>2, <1>4, <2>1
    <3> QED BY <3>1, <3>2
  <2>3. ASSUME NEW w \in Users \ {v} PROVE ToSet(devices'[v]) \cap ToSet(devices'[w]) = {}
    <3>1. ToSet(devices[v]) \cap ToSet(devices[w]) = {}
      BY DEF PhoneTypes
    <3>2. \A x \in Users : ToSet(devices'[x]) \subseteq ToSet(devices[x])
      BY <1>1, <1>4 DEF rest
    <3> QED BY <3>1, <3>2
  <2> QED BY <2>2, <2>3
<1> QED BY <1>4, <1>5 DEF PhoneTypes

-----------------------------------------------------------------------------
(* Links and passes                                                        *)

\* A link that is made or made again keeps what it was last told.
LEMMA LinkedIs ==
    ASSUME NEW l \in Link \cup {None}, NEW relation \in {"mine", "following"}
    PROVE  /\ Linked(l, relation) \in Link
           /\ Linked(l, relation).notified = IF l = None THEN None ELSE l.notified
BY DEF Linked, Link

\* What a step on a link changes of it.
Renewed(old, new) ==
    \A u \in Users :
        /\ new[u] \in Link \cup {None}
        /\ IF old[u] = None THEN new[u] # None => new[u].notified = None
           ELSE new[u] # None /\ new[u].notified = old[u].notified

\* The steps on links that tell nobody anything.
LEMMA RenewEffect ==
    ASSUME LinkTypes, NEW u \in Users,
           FiledFromHere(u) \/ Follow(u) \/ LinkAges(u) \/ SaveFeedback(u)
    PROVE  /\ Renewed(link, link') /\ LinkTypes'
           /\ UNCHANGED <<status, became, told, pass, devices, off, digests>>
<1>0. None \notin Link /\ link \in [Users -> Link \cup {None}]
  BY TidingsAssumption DEF LinkTypes
<1>1. ASSUME NEW relation \in {"mine", "following"}, link' = [link EXCEPT ![u] = Linked(@, relation)]
      PROVE  Renewed(link, link') /\ link' \in [Users -> Link \cup {None}]
  BY <1>0, <1>1, LinkedIs DEF Renewed
<1>2. Renewed(link, link) /\ link \in [Users -> Link \cup {None}]
  BY <1>0 DEF Renewed
<1>3. CASE FiledFromHere(u) \/ Follow(u)
  BY <1>1, <1>3 DEF FiledFromHere, Follow, LinkTypes, phones, digests
<1>4. CASE LinkAges(u)
  <2>1. link[u] \in Link /\ [link[u] EXCEPT !.fresh = FALSE] \in Link
        /\ [link[u] EXCEPT !.fresh = FALSE].notified = link[u].notified
    BY <1>0, <1>4 DEF LinkAges, Link
  <2>2. link' = [link EXCEPT ![u] = [link[u] EXCEPT !.fresh = FALSE]]
    BY <1>4 DEF LinkAges
  <2>3. Renewed(link, link') /\ link' \in [Users -> Link \cup {None}]
    BY <1>0, <2>1, <2>2 DEF Renewed
  <2> QED BY <1>4, <2>3 DEF LinkAges, LinkTypes, phones, digests
<1>5. CASE SaveFeedback(u)
  <2>1. Renewed(link, link') /\ link' \in [Users -> Link \cup {None}]
    <3>1. CASE link[u] = None
      <4>1. link' = [link EXCEPT ![u] = Linked(@, "following")]
        BY <1>5, <3>1 DEF SaveFeedback
      <4> QED BY <4>1, <1>1
    <3>2. CASE link[u] # None
      <4>1. link' = link
        BY <1>5, <3>2, <1>0 DEF SaveFeedback
      <4> QED BY <4>1, <1>2
    <3> QED BY <3>1, <3>2
  <2>2. link'[u] \in Link
    <3>1. Linked(link[u], "following") \in Link
      BY <1>0, LinkedIs
    <3>2. link'[u] = IF link[u] = None THEN Linked(link[u], "following") ELSE link[u]
      BY <1>5, <1>0 DEF SaveFeedback
    <3> QED BY <3>1, <3>2, <1>0
  <2>3. link'[u].relation \in {"mine", "following"}
    BY <2>2 DEF Link
  <2>4. verdict' \in [Users -> {"mine", "following", None}]
    BY <1>5, <2>3 DEF SaveFeedback, LinkTypes
  <2> QED BY <1>5, <2>1, <2>4 DEF SaveFeedback, LinkTypes, phones, digests
<1> QED BY <1>3, <1>4, <1>5

\* What a claim does: the link is told of another status, and one device after
\* another is still to be sent it.
LEMMA ClaimEffect ==
    ASSUME LinkTypes, PhoneTypes, NEW j \in Jobs, Claims(j)
    PROVE  /\ LinkTypes'
           /\ UNCHANGED <<status, became, devices, off, digests>>
           /\ \A k \in Jobs : pass'[k].todo \subseteq pass[k].todo
           /\ \/ UNCHANGED <<link, told>>
              \/ \E row \in pass[j].todo :
                    /\ Holds(row) /\ row \in Reading
                    /\ link' = [link EXCEPT ![row.user].notified = row.now]
                    /\ \/ told' = told
                       \/ told' = [told EXCEPT ![row.user][row.now] = @ + 1]
<1>0. /\ None \notin Link /\ link \in [Users -> Link \cup {None}]
      /\ told \in [Users -> [Statuses -> Nat]]
      /\ pass \in [Jobs -> Pass]
  BY TidingsAssumption DEF LinkTypes
<1>1. PICK row \in pass[j].todo :
        LET rest == [pass[j] EXCEPT !.todo = @ \ {row}]
        IN  IF Holds(row)
            THEN /\ link' = [link EXCEPT ![row.user].notified = row.now]
                 /\ IF Announces(row)
                    THEN /\ told' = [told EXCEPT ![row.user][row.now] = @ + 1]
                         /\ pass' = [pass EXCEPT ![j] = [rest EXCEPT !.pc = "send", !.row = row,
                                        !.left = ToSet(devices[row.user]) \ off]]
                    ELSE UNCHANGED told /\ pass' = [pass EXCEPT ![j] = rest]
            ELSE UNCHANGED <<link, told>> /\ pass' = [pass EXCEPT ![j] = rest]
  BY DEF Claims
<1>2. row \in Reading /\ row.user \in Users /\ row.now \in Statuses
  BY <1>0 DEF Reading, Pass
<1>3. UNCHANGED <<status, became, verdict, stance, devices, off, digests>>
  BY DEF Claims, phones
<1>4. ToSet(devices[row.user]) \ off \subseteq Tokens
  <2>1. devices[row.user] \in Seq(Tokens)
    BY <1>2 DEF PhoneTypes
  <2> QED BY <2>1 DEF ToSet
<1> DEFINE rest == [pass[j] EXCEPT !.todo = @ \ {row}]
           sends == [rest EXCEPT !.pc = "send", !.row = row, !.left = ToSet(devices[row.user]) \ off]
<1>5. /\ rest \in Pass
      /\ rest.todo \subseteq pass[j].todo
  BY <1>0 DEF Pass
<1>6. /\ sends \in Pass
      /\ sends.todo \subseteq pass[j].todo
  BY <1>0, <1>2, <1>4 DEF Pass
<1>7. pass' = [pass EXCEPT ![j] = rest] \/ pass' = [pass EXCEPT ![j] = sends]
  BY <1>1
<1> HIDE DEF rest, sends
<1>8. /\ pass' \in [Jobs -> Pass]
      /\ \A k \in Jobs : pass'[k].todo \subseteq pass[k].todo
  BY <1>0, <1>5, <1>6, <1>7
<1>9. CASE ~Holds(row)
  BY <1>1, <1>3, <1>8, <1>9 DEF LinkTypes
<1>10. CASE Holds(row)
  <2>1. link[row.user] \in Link
    BY <1>0, <1>2, <1>10 DEF Holds
  <2>2. [link[row.user] EXCEPT !.notified = row.now] \in Link
    BY <2>1, <1>2 DEF Link
  <2>3. link' = [link EXCEPT ![row.user].notified = row.now]
        /\ (told' = told \/ told' = [told EXCEPT ![row.user][row.now] = @ + 1])
    BY <1>1, <1>10
  <2>4. link' \in [Users -> Link \cup {None}]
    BY <1>0, <1>2, <2>2, <2>3
  <2>5. told' \in [Users -> [Statuses -> Nat]]
    <3>1. [told[row.user] EXCEPT ![row.now] = @ + 1] \in [Statuses -> Nat]
      BY <1>0, <1>2
    <3>2. \/ told' = told
          \/ told' = [told EXCEPT ![row.user] = [told[row.user] EXCEPT ![row.now] = @ + 1]]
      BY <2>3
    <3> QED BY <1>0, <1>2, <3>1, <3>2
  <2> QED BY <1>2, <1>3, <1>8, <1>10, <2>3, <2>4, <2>5 DEF LinkTypes
<1> QED BY <1>9, <1>10

\* A pass reads links that are not at the City's status.
LEMMA NotifyEffect ==
    ASSUME LinkTypes, NEW j \in Jobs, NotifyReads(j)
    PROVE  /\ LinkTypes'
           /\ UNCHANGED <<status, became, link, told, devices, off, digests>>
           /\ \A k \in Jobs, row \in Reading : row \in pass'[k].todo =>
                 \/ row \in pass[k].todo
                 \/ /\ row.user \in Users /\ link[row.user] # None /\ row.link = link[row.user]
                    /\ row.now = status /\ status # None /\ status # row.link.notified
<1> DEFINE changed == {u \in Users : link[u] # None /\ status \notin {None, link[u].notified}}
           todo == {[user |-> u, link |-> link[u], now |-> status] : u \in changed}
<1>0. link \in [Users -> Link \cup {None}] /\ pass \in [Jobs -> Pass]
      /\ status \in Statuses \cup {None}
  BY DEF LinkTypes
<1>1. todo \subseteq Reading
  <2> SUFFICES ASSUME NEW u \in changed
               PROVE  [user |-> u, link |-> link[u], now |-> status] \in Reading
    OBVIOUS
  <2> QED BY <1>0 DEF Reading
<1>2. \A row \in todo : /\ row.user \in Users /\ link[row.user] # None
                        /\ row.link = link[row.user]
                        /\ row.now = status /\ status # None /\ status # row.link.notified
  OBVIOUS
<1>3. pass' = [pass EXCEPT ![j] = [Quiet EXCEPT !.pc = "claim", !.todo = todo]]
      /\ UNCHANGED <<status, became, link, told, verdict, stance, devices, off, digests>>
  BY DEF NotifyReads, links, phones
<1> HIDE DEF todo, changed
<1>4. [Quiet EXCEPT !.pc = "claim", !.todo = todo] \in Pass
      /\ [Quiet EXCEPT !.pc = "claim", !.todo = todo].todo = todo
  BY <1>1 DEF Quiet, Pass
<1>5. pass' \in [Jobs -> Pass] /\ \A k \in Jobs : pass'[k].todo = IF k = j THEN todo ELSE pass[k].todo
  BY <1>0, <1>3, <1>4
<1> QED BY <1>2, <1>3, <1>5 DEF LinkTypes

\* What else a job does with its pass, a person with a verdict or support, and a
\* phone: it makes no reading and touches no link.
LEMMA StillEffect ==
    ASSUME LinkTypes, PhoneTypes,
           \/ \E u \in Users :
                 \/ DeleteFeedback(u) \/ \E s \in {"support", "oppose", None} : SetStance(u, s)
                 \/ \E t \in Tokens : Register(u, t) \/ Unregister(u, t)
           \/ \E j \in Jobs : Sends(j) \/ Sent(j) \/ PassEnds(j)
    PROVE  /\ LinkTypes' /\ PhoneTypes'
           /\ UNCHANGED <<status, became, link, told, digests>>
           /\ \A k \in Jobs : pass'[k].todo \subseteq pass[k].todo
<1> DEFINE Goal ==
             /\ LinkTypes' /\ PhoneTypes'
             /\ UNCHANGED <<status, became, link, told, digests>>
             /\ \A k \in Jobs : pass'[k].todo \subseteq pass[k].todo
<1>0. pass \in [Jobs -> Pass] /\ \A k \in Jobs : pass[k] \in Pass
  BY DEF LinkTypes
<1>1. ASSUME NEW u \in Users,
             DeleteFeedback(u) \/ \E s \in {"support", "oppose", None} : SetStance(u, s)
      PROVE  Goal
  BY <1>1 DEF DeleteFeedback, SetStance, LinkTypes, PhoneTypes, phones, digests
<1>2. ASSUME NEW u \in Users, \E t \in Tokens : Register(u, t) \/ Unregister(u, t)
      PROVE  Goal
  <2>1. PhoneTypes'
    BY <1>2, RegisterTypes, UnregisterTypes
  <2> QED BY <1>2, <2>1 DEF Register, Unregister, LinkTypes, links, digests
<1>3. ASSUME NEW j \in Jobs, Sends(j) PROVE Goal
  <2>1. PICK t \in pass[j].left, gone \in BOOLEAN :
          /\ off' = IF gone /\ \E v \in Users : t \in ToSet(devices[v]) THEN off \cup {t} ELSE off
          /\ pass' = [pass EXCEPT ![j].left = @ \ {t}]
    BY <1>3 DEF Sends
  <2>2. off' \subseteq Tokens /\ t \in Tokens
    BY <1>0, <2>1 DEF Pass, PhoneTypes
  <2>3. pass' \in [Jobs -> Pass] /\ \A k \in Jobs : pass'[k].todo = pass[k].todo
    <3>1. [pass[j] EXCEPT !.left = @ \ {t}] \in Pass
          /\ [pass[j] EXCEPT !.left = @ \ {t}].todo = pass[j].todo
      BY <1>0 DEF Pass
    <3>2. pass' = [pass EXCEPT ![j] = [pass[j] EXCEPT !.left = @ \ {t}]]
      BY <2>1
    <3> QED BY <1>0, <3>1, <3>2
  <2> QED BY <1>3, <2>2, <2>3 DEF Sends, LinkTypes, PhoneTypes, links, digests
<1>4. ASSUME NEW j \in Jobs, Sent(j) PROVE Goal
  <2>1. pass' \in [Jobs -> Pass] /\ \A k \in Jobs : pass'[k].todo = pass[k].todo
    <3>1. [pass[j] EXCEPT !.pc = "claim", !.row = None] \in Pass
          /\ [pass[j] EXCEPT !.pc = "claim", !.row = None].todo = pass[j].todo
      BY <1>0 DEF Pass
    <3>2. pass' = [pass EXCEPT ![j] = [pass[j] EXCEPT !.pc = "claim", !.row = None]]
      BY <1>4, <1>0 DEF Sent
    <3> QED BY <1>0, <3>1, <3>2
  <2> QED BY <1>4, <2>1 DEF Sent, LinkTypes, PhoneTypes, links, phones, digests
<1>5. ASSUME NEW j \in Jobs, PassEnds(j) PROVE Goal
  <2>1. Quiet \in Pass /\ Quiet.todo = {}
    BY DEF Quiet, Pass
  <2>2. pass' \in [Jobs -> Pass] /\ \A k \in Jobs : pass'[k].todo \subseteq pass[k].todo
    BY <1>0, <1>5, <2>1 DEF PassEnds
  <2> QED BY <1>5, <2>2 DEF PassEnds, LinkTypes, PhoneTypes, links, phones, digests
<1> QED BY <1>1, <1>2, <1>3, <1>4, <1>5

\* Unfollowing takes the link away, and what was told with it.
LEMMA UnfollowEffect ==
    ASSUME LinkTypes, NEW u \in Users, Unfollow(u)
    PROVE  /\ LinkTypes'
           /\ UNCHANGED <<status, became, pass, devices, off, digests>>
           /\ link' = [link EXCEPT ![u] = None]
           /\ told' = [told EXCEPT ![u] = [s \in Statuses |-> 0]]
BY DEF Unfollow, LinkTypes, phones, digests

\* The City moves the case to a status it was not in, and nothing else changes.
LEMMA MoveEffect ==
    ASSUME LinkTypes, NEW s \in Statuses, StatusMoves(s)
    PROVE  /\ LinkTypes'
           /\ s # status /\ status' = s /\ became' = [became EXCEPT ![s] = @ + 1]
           /\ UNCHANGED <<link, told, pass, devices, off, digests>>
<1>1. /\ s # status /\ status' = s /\ became' = [became EXCEPT ![s] = @ + 1]
      /\ UNCHANGED <<link, told, verdict, stance, pass, devices, off, digests>>
  BY DEF StatusMoves, phones
<1>2. became' \in [Statuses -> Nat]
  BY <1>1 DEF LinkTypes
<1> QED BY <1>1, <1>2 DEF LinkTypes

-----------------------------------------------------------------------------
(* Told once                                                               *)

\* While the City comes back to no status, rank is the order it came to them in: a
\* link, and what a pass has read of one, only ever go up in it, so a pass that is
\* late finds that the link no longer holds what it read.
OrderedIn(rank, st, be, li, to, pa) ==
    /\ \A s \in Statuses : be[s] >= 1 => st # None /\ (s # st => rank[s] < rank[st])
    /\ st # None => be[st] >= 1
    /\ \A u \in Users : li[u] # None => li[u].notified = None \/ be[li[u].notified] >= 1
    /\ \A j \in Jobs : \A row \in pa[j].todo :
          /\ be[row.now] >= 1
          /\ row.link.notified # None =>
                be[row.link.notified] >= 1 /\ rank[row.link.notified] < rank[row.now]
    /\ \A u \in Users, s \in Statuses : to[u][s] > 0 =>
          /\ to[u][s] = 1 /\ be[s] >= 1
          /\ li[u] # None /\ li[u].notified # None /\ rank[s] <= rank[li[u].notified]

ToldInv ==
    (\A s \in Statuses : became[s] <= 1) =>
        \E rank \in [Statuses -> Nat] : OrderedIn(rank, status, became, link, told, pass)

\* At first nothing was told.
LEMMA InitToldInv == Init => ToldInv
<1> SUFFICES ASSUME Init PROVE ToldInv
  OBVIOUS
<1>1. [s \in Statuses |-> 0] \in [Statuses -> Nat]
  OBVIOUS
<1>2. OrderedIn([s \in Statuses |-> 0], status, became, link, told, pass)
  <2>1. status = None /\ \A s \in Statuses : became[s] = 0
    BY DEF Init
  <2>2. \A u \in Users : link[u] = None
    BY DEF Init
  <2>3. \A j \in Jobs : pass[j].todo = {}
    BY DEF Init, Quiet
  <2>4. \A u \in Users, s \in Statuses : told[u][s] = 0
    BY DEF Init
  <2> QED BY <2>1, <2>2, <2>3, <2>4 DEF OrderedIn
<1> QED BY <1>1, <1>2 DEF ToldInv

\* Steps that only renew links or drop readings keep the order.
LEMMA RenewOrdered ==
    ASSUME LinkTypes, NEW rank, OrderedIn(rank, status, became, link, told, pass),
           UNCHANGED <<status, became, told>>, Renewed(link, link'),
           \A k \in Jobs : pass'[k].todo \subseteq pass[k].todo
    PROVE  OrderedIn(rank, status', became', link', told', pass')
<1>0. link \in [Users -> Link \cup {None}] /\ None \notin Link
  BY TidingsAssumption DEF LinkTypes
<1>1. ASSUME NEW u \in Users, link'[u] # None
      PROVE  link'[u].notified = None \/ became[link'[u].notified] >= 1
  BY <1>1 DEF Renewed, OrderedIn
<1>2. ASSUME NEW u \in Users, NEW s \in Statuses, told[u][s] > 0
      PROVE  link'[u] # None /\ link'[u].notified # None /\ rank[s] <= rank[link'[u].notified]
  BY <1>2 DEF Renewed, OrderedIn
<1> QED BY <1>1, <1>2 DEF OrderedIn

\* A claim takes a link up in the order, and so to a status it was not told of.
LEMMA ClaimOrdered ==
    ASSUME LinkTypes, NEW rank \in [Statuses -> Nat],
           OrderedIn(rank, status, became, link, told, pass),
           UNCHANGED <<status, became>>, \A k \in Jobs : pass'[k].todo \subseteq pass[k].todo,
           NEW j \in Jobs, NEW row \in pass[j].todo, Holds(row), row \in Reading,
           link' = [link EXCEPT ![row.user].notified = row.now],
           told' = told \/ told' = [told EXCEPT ![row.user][row.now] = @ + 1]
    PROVE  OrderedIn(rank, status', became', link', told', pass')
<1> DEFINE v == row.user  n == row.now  old == row.link.notified
<1>0. /\ link \in [Users -> Link \cup {None}] /\ told \in [Users -> [Statuses -> Nat]]
      /\ None \notin Link /\ None \notin Statuses
      /\ v \in Users /\ n \in Statuses /\ n # None /\ row.link \in Link
  BY TidingsAssumption DEF LinkTypes, Reading
<1>1. /\ link[v] \in Link /\ link[v] # None /\ link[v].notified = old
      /\ old \in Statuses \cup {None}
  BY <1>0 DEF Holds, Link
<1>2. /\ \A u \in Users \ {v} : link'[u] = link[u]
      /\ link'[v] \in Link /\ link'[v] # None /\ link'[v].notified = n
  <2>1. [link[v] EXCEPT !.notified = n] \in Link /\ [link[v] EXCEPT !.notified = n].notified = n
    BY <1>0, <1>1 DEF Link
  <2>2. link' = [link EXCEPT ![v] = [link[v] EXCEPT !.notified = n]]
    OBVIOUS
  <2> QED BY <1>0, <2>1, <2>2
<1>3. became[n] >= 1 /\ (old # None => rank[old] < rank[n])
  BY DEF OrderedIn
<1>4. ASSUME NEW s \in Statuses, told[v][s] > 0
      PROVE  told[v][s] = 1 /\ became[s] >= 1 /\ rank[s] < rank[n]
  <2>1. told[v][s] = 1 /\ became[s] >= 1 /\ old # None /\ rank[s] <= rank[old]
    BY <1>0, <1>1, <1>4 DEF OrderedIn
  <2>2. rank[s] \in Nat /\ rank[old] \in Nat /\ rank[n] \in Nat
    BY <1>0, <1>1, <2>1
  <2> QED BY <1>3, <2>1, <2>2
<1>5. told[v][n] = 0
  <2>1. told[v][n] \in Nat /\ rank[n] \in Nat
    BY <1>0
  <2> QED BY <1>0, <1>4, <2>1
<1>6. /\ \A u \in Users \ {v} : told'[u] = told[u]
      /\ \A s \in Statuses : told'[v][s] = told[v][s] \/ (s = n /\ told'[v][s] = 1)
  <2>1. CASE told' = told
    BY <2>1
  <2>2. CASE told' = [told EXCEPT ![v][n] = @ + 1]
    <3>1. told' = [told EXCEPT ![v] = [told[v] EXCEPT ![n] = told[v][n] + 1]]
      BY <2>2
    <3>2. told[v] \in [Statuses -> Nat] /\ told[v][n] + 1 = 1
      BY <1>0, <1>5
    <3> QED BY <1>0, <3>1, <3>2
  <2> QED BY <2>1, <2>2
<1> HIDE DEF v, n, old
<1>7. ASSUME NEW u \in Users, link'[u] # None
      PROVE  link'[u].notified = None \/ became[link'[u].notified] >= 1
  <2>1. CASE u = v
    BY <2>1, <1>2, <1>3
  <2>2. CASE u # v
    BY <2>2, <1>2, <1>7 DEF OrderedIn
  <2> QED BY <2>1, <2>2
<1>8. ASSUME NEW u \in Users, NEW s \in Statuses, told'[u][s] > 0
      PROVE  /\ told'[u][s] = 1 /\ became[s] >= 1
             /\ link'[u] # None /\ link'[u].notified # None /\ rank[s] <= rank[link'[u].notified]
  <2>1. CASE u # v
    <3>1. link'[u] = link[u] /\ told'[u] = told[u]
      BY <2>1, <1>2, <1>6
    <3>2. told[u][s] > 0
      BY <3>1, <1>8
    <3> QED BY <3>1, <3>2 DEF OrderedIn
  <2>2. CASE u = v
    <3>1. rank[s] \in Nat /\ rank[n] \in Nat
      BY <1>0
    <3>2. CASE s = n
      BY <1>0, <1>2, <1>3, <1>5, <1>6, <1>8, <2>2, <3>1, <3>2
    <3>3. CASE s # n
      <4>1. told[v][s] > 0 /\ told'[v][s] = told[v][s]
        BY <1>6, <1>8, <2>2, <3>3
      <4> QED BY <4>1, <1>0, <1>2, <1>4, <2>2, <3>1
    <3> QED BY <3>2, <3>3
  <2> QED BY <2>1, <2>2
<1> QED BY <1>7, <1>8 DEF OrderedIn

\* The City's new status goes on top of the order.
LEMMA MoveOrdered ==
    ASSUME LinkTypes, NEW rank \in [Statuses -> Nat],
           OrderedIn(rank, status, became, link, told, pass),
           NEW s \in Statuses, s # status, status' = s, became' = [became EXCEPT ![s] = @ + 1],
           UNCHANGED <<link, told, pass>>, became'[s] <= 1
    PROVE  \E up \in [Statuses -> Nat] : OrderedIn(up, status', became', link', told', pass')
<1> DEFINE up == [rank EXCEPT ![s] = IF status = None THEN 0 ELSE rank[status] + 1]
<1>0. /\ link \in [Users -> Link \cup {None}] /\ None \notin Link /\ None \notin Statuses
      /\ status \in Statuses \cup {None} /\ became \in [Statuses -> Nat]
      /\ pass \in [Jobs -> Pass] /\ \A j \in Jobs : pass[j].todo \subseteq Reading
  BY TidingsAssumption DEF LinkTypes, Pass
<1>1. up \in [Statuses -> Nat]
  BY <1>0
<1>2. became[s] = 0 /\ became' = [became EXCEPT ![s] = 1]
  <2>1. became[s] \in Nat /\ became'[s] = became[s] + 1
    BY <1>0
  <2>2. became[s] = 0
    BY <2>1
  <2> QED BY <2>2
<1>3. \A r \in Statuses : became[r] >= 1 => r # s /\ became'[r] >= 1 /\ up[r] = rank[r]
  BY <1>0, <1>2
<1>4. status # None => up[s] = rank[status] + 1
  OBVIOUS
<1> HIDE DEF up
<1>5. ASSUME NEW r \in Statuses, became'[r] >= 1
      PROVE  status' # None /\ (r # status' => up[r] < up[status'])
  <2>1. CASE r = s
    BY <2>1, <1>0
  <2>2. CASE r # s
    <3>1. became[r] >= 1
      BY <1>0, <1>2, <1>5, <2>2
    <3>2. status # None /\ (r = status \/ rank[r] < rank[status])
      BY <3>1 DEF OrderedIn
    <3>3. up[r] = rank[r] /\ up[s] = rank[status] + 1 /\ rank[r] \in Nat /\ rank[status] \in Nat
      BY <1>0, <1>3, <1>4, <3>1, <3>2
    <3> QED BY <1>0, <3>2, <3>3
  <2> QED BY <2>1, <2>2
<1>6. ASSUME NEW u \in Users, link[u] # None
      PROVE  link[u].notified = None \/ became'[link[u].notified] >= 1
  <2>1. link[u].notified \in Statuses \cup {None}
    BY <1>0, <1>6 DEF Link
  <2> QED BY <1>3, <1>6, <2>1 DEF OrderedIn
<1>7. ASSUME NEW j \in Jobs, NEW row \in pass[j].todo
      PROVE  /\ became'[row.now] >= 1
             /\ row.link.notified # None =>
                  became'[row.link.notified] >= 1 /\ up[row.link.notified] < up[row.now]
  <2>1. row.now \in Statuses /\ row.link.notified \in Statuses \cup {None}
    BY <1>0 DEF Reading, Link
  <2> QED BY <1>3, <2>1 DEF OrderedIn
<1>8. ASSUME NEW u \in Users, NEW r \in Statuses, told[u][r] > 0
      PROVE  /\ told[u][r] = 1 /\ became'[r] >= 1
             /\ link[u] # None /\ link[u].notified # None /\ up[r] <= up[link[u].notified]
  <2>1. /\ told[u][r] = 1 /\ became[r] >= 1
        /\ link[u] # None /\ link[u].notified # None /\ rank[r] <= rank[link[u].notified]
    BY <1>8 DEF OrderedIn
  <2>2. link[u].notified \in Statuses
    BY <1>0, <2>1 DEF Link
  <2>3. became[link[u].notified] >= 1
    BY <2>1 DEF OrderedIn
  <2> QED BY <1>3, <2>1, <2>2, <2>3
<1>9. status' # None => became'[status'] >= 1
  BY <1>0, <1>2
<1>10. OrderedIn(up, status', became', link', told', pass')
  BY <1>5, <1>6, <1>7, <1>8, <1>9 DEF OrderedIn
<1> QED BY <1>1, <1>10

\* A pass reads a link below the City's status.
LEMMA NotifyOrdered ==
    ASSUME LinkTypes, NEW rank, OrderedIn(rank, status, became, link, told, pass),
           LinkTypes', UNCHANGED <<status, became, link, told>>,
           \A k \in Jobs, row \in Reading : row \in pass'[k].todo =>
              \/ row \in pass[k].todo
              \/ /\ row.user \in Users /\ link[row.user] # None /\ row.link = link[row.user]
                 /\ row.now = status /\ status # None /\ status # row.link.notified
    PROVE  OrderedIn(rank, status', became', link', told', pass')
<1>1. ASSUME NEW k \in Jobs, NEW row \in pass'[k].todo
      PROVE  /\ became[row.now] >= 1
             /\ row.link.notified # None =>
                  became[row.link.notified] >= 1 /\ rank[row.link.notified] < rank[row.now]
  <2>1. row \in Reading
    BY DEF LinkTypes, Pass
  <2>2. CASE row \in pass[k].todo
    BY <2>2 DEF OrderedIn
  <2>3. CASE /\ row.user \in Users /\ link[row.user] # None /\ row.link = link[row.user]
             /\ row.now = status /\ status # None /\ status # row.link.notified
    <3>1. row.link.notified # None =>
            became[row.link.notified] >= 1 /\ row.link.notified \in Statuses
      BY <2>1, <2>3 DEF OrderedIn, Reading, Link
    <3> QED BY <2>3, <3>1 DEF OrderedIn
  <2> QED BY <2>1, <2>2, <2>3
<1> QED BY <1>1 DEF OrderedIn

\* Unfollowing keeps the order: what was told goes with the link.
LEMMA UnfollowOrdered ==
    ASSUME LinkTypes, NEW rank, OrderedIn(rank, status, became, link, told, pass),
           NEW u \in Users, UNCHANGED <<status, became, pass>>,
           link' = [link EXCEPT ![u] = None],
           told' = [told EXCEPT ![u] = [s \in Statuses |-> 0]]
    PROVE  OrderedIn(rank, status', became', link', told', pass')
<1>1. /\ \A v \in Users \ {u} : link'[v] = link[v] /\ told'[v] = told[v]
      /\ link'[u] = None /\ \A s \in Statuses : told'[u][s] = 0
  BY DEF LinkTypes
<1>2. ASSUME NEW v \in Users, link'[v] # None
      PROVE  link'[v].notified = None \/ became[link'[v].notified] >= 1
  BY <1>1, <1>2 DEF OrderedIn
<1>3. ASSUME NEW v \in Users, NEW s \in Statuses, told'[v][s] > 0
      PROVE  /\ told'[v][s] = 1 /\ became[s] >= 1
             /\ link'[v] # None /\ link'[v].notified # None /\ rank[s] <= rank[link'[v].notified]
  <2>1. v # u
    BY <1>1, <1>3
  <2> QED BY <1>1, <1>3, <2>1 DEF OrderedIn
<1> QED BY <1>2, <1>3 DEF OrderedIn

\* Every step of links, phones and passes keeps types and the order of the tellings.
LEMMA LinkStepInd ==
    ASSUME LinkTypes, PhoneTypes, ToldInv, LinkStep
    PROVE  LinkTypes' /\ PhoneTypes' /\ ToldInv' /\ UNCHANGED digests
<1> DEFINE Once == \A s \in Statuses : became[s] <= 1
<1>1. ASSUME ~Once, LinkTypes', UNCHANGED became
      PROVE  ToldInv'
  BY <1>1 DEF ToldInv
<1>2. CASE \E s \in Statuses : StatusMoves(s)
  <2>1. PICK s \in Statuses : StatusMoves(s)
    BY <1>2
  <2>2. /\ LinkTypes' /\ s # status /\ status' = s /\ became' = [became EXCEPT ![s] = @ + 1]
        /\ UNCHANGED <<link, told, pass, devices, off, digests>>
    BY <2>1, MoveEffect
  <2>3. ASSUME \A r \in Statuses : became'[r] <= 1
        PROVE  \E rank \in [Statuses -> Nat] : OrderedIn(rank, status', became', link', told', pass')
    <3>1. Once
      <4>1. SUFFICES ASSUME NEW r \in Statuses PROVE became[r] <= 1
        OBVIOUS
      <4>2. became[r] \in Nat /\ (became'[r] = became[r] \/ became'[r] = became[r] + 1)
        BY <2>2 DEF LinkTypes
      <4> QED BY <2>3, <4>2
    <3>2. PICK rank \in [Statuses -> Nat] : OrderedIn(rank, status, became, link, told, pass)
      BY <3>1 DEF ToldInv
    <3> QED BY <2>2, <2>3, <3>2, MoveOrdered
  <2>4. ToldInv'
    BY <2>3 DEF ToldInv
  <2> QED BY <2>2, <2>4 DEF PhoneTypes
<1>3. ASSUME NEW u \in Users, FiledFromHere(u) \/ Follow(u) \/ LinkAges(u) \/ SaveFeedback(u)
      PROVE  LinkTypes' /\ PhoneTypes' /\ ToldInv' /\ UNCHANGED digests
  <2>1. /\ Renewed(link, link') /\ LinkTypes'
        /\ UNCHANGED <<status, became, told, pass, devices, off, digests>>
    BY <1>3, RenewEffect
  <2>2. ToldInv'
    <3>1. ASSUME NEW rank \in [Statuses -> Nat], OrderedIn(rank, status, became, link, told, pass)
          PROVE  OrderedIn(rank, status', became', link', told', pass')
      BY <2>1, <3>1, RenewOrdered
    <3> QED BY <2>1, <3>1 DEF ToldInv
  <2> QED BY <2>1, <2>2 DEF PhoneTypes
<1>4. ASSUME NEW u \in Users, Unfollow(u)
      PROVE  LinkTypes' /\ PhoneTypes' /\ ToldInv' /\ UNCHANGED digests
  <2>1. /\ LinkTypes' /\ UNCHANGED <<status, became, pass, devices, off, digests>>
        /\ link' = [link EXCEPT ![u] = None]
        /\ told' = [told EXCEPT ![u] = [s \in Statuses |-> 0]]
    BY <1>4, UnfollowEffect
  <2>2. ToldInv'
    <3>1. ASSUME NEW rank \in [Statuses -> Nat], OrderedIn(rank, status, became, link, told, pass)
          PROVE  OrderedIn(rank, status', became', link', told', pass')
      BY <2>1, <3>1, UnfollowOrdered
    <3> QED BY <2>1, <3>1 DEF ToldInv
  <2> QED BY <2>1, <2>2 DEF PhoneTypes
<1>5. ASSUME NEW j \in Jobs, Claims(j)
      PROVE  LinkTypes' /\ PhoneTypes' /\ ToldInv' /\ UNCHANGED digests
  <2>1. /\ LinkTypes' /\ UNCHANGED <<status, became, devices, off, digests>>
        /\ \A k \in Jobs : pass'[k].todo \subseteq pass[k].todo
        /\ \/ UNCHANGED <<link, told>>
           \/ \E row \in pass[j].todo :
                 /\ Holds(row) /\ row \in Reading
                 /\ link' = [link EXCEPT ![row.user].notified = row.now]
                 /\ told' = told \/ told' = [told EXCEPT ![row.user][row.now] = @ + 1]
    BY <1>5, ClaimEffect
  <2>2. ToldInv'
    <3>1. ASSUME NEW rank \in [Statuses -> Nat], OrderedIn(rank, status, became, link, told, pass)
          PROVE  OrderedIn(rank, status', became', link', told', pass')
      <4>1. CASE UNCHANGED <<link, told>>
        <5>1. Renewed(link, link')
          BY <4>1 DEF Renewed, LinkTypes
        <5> QED BY <2>1, <3>1, <4>1, <5>1, RenewOrdered
      <4>2. CASE \E row \in pass[j].todo :
                    /\ Holds(row) /\ row \in Reading
                    /\ link' = [link EXCEPT ![row.user].notified = row.now]
                    /\ told' = told \/ told' = [told EXCEPT ![row.user][row.now] = @ + 1]
        BY <2>1, <3>1, <4>2, ClaimOrdered
      <4> QED BY <2>1, <4>1, <4>2
    <3> QED BY <2>1, <3>1 DEF ToldInv
  <2> QED BY <2>1, <2>2 DEF PhoneTypes
<1>6. ASSUME NEW j \in Jobs, NotifyReads(j)
      PROVE  LinkTypes' /\ PhoneTypes' /\ ToldInv' /\ UNCHANGED digests
  <2>1. /\ LinkTypes'
        /\ UNCHANGED <<status, became, link, told, devices, off, digests>>
        /\ \A k \in Jobs, row \in Reading : row \in pass'[k].todo =>
              \/ row \in pass[k].todo
              \/ /\ row.user \in Users /\ link[row.user] # None /\ row.link = link[row.user]
                 /\ row.now = status /\ status # None /\ status # row.link.notified
    BY <1>6, NotifyEffect
  <2>2. ToldInv'
    <3>1. ASSUME NEW rank \in [Statuses -> Nat], OrderedIn(rank, status, became, link, told, pass)
          PROVE  OrderedIn(rank, status', became', link', told', pass')
      BY <2>1, <3>1, NotifyOrdered
    <3> QED BY <2>1, <3>1 DEF ToldInv
  <2> QED BY <2>1, <2>2 DEF PhoneTypes
<1>7. ASSUME \/ \E u \in Users :
                   \/ DeleteFeedback(u) \/ \E s \in {"support", "oppose", None} : SetStance(u, s)
                   \/ \E t \in Tokens : Register(u, t) \/ Unregister(u, t)
             \/ \E j \in Jobs : Sends(j) \/ Sent(j) \/ PassEnds(j)
      PROVE  LinkTypes' /\ PhoneTypes' /\ ToldInv' /\ UNCHANGED digests
  <2>1. /\ LinkTypes' /\ PhoneTypes'
        /\ UNCHANGED <<status, became, link, told, digests>>
        /\ \A k \in Jobs : pass'[k].todo \subseteq pass[k].todo
    BY <1>7, StillEffect
  <2>2. ToldInv'
    <3>0. Renewed(link, link')
      BY <2>1 DEF Renewed, LinkTypes
    <3>1. ASSUME NEW rank \in [Statuses -> Nat], OrderedIn(rank, status, became, link, told, pass)
          PROVE  OrderedIn(rank, status', became', link', told', pass')
      BY <2>1, <3>0, <3>1, RenewOrdered
    <3> QED BY <2>1, <3>1 DEF ToldInv
  <2> QED BY <2>1, <2>2
<1> QED BY <1>2, <1>3, <1>4, <1>5, <1>6, <1>7 DEF LinkStep

-----------------------------------------------------------------------------
(* The digest: addresses and times                                         *)

\* The people whom the job has still to serve.
Served == run.todo \cup ({run.person} \ {None})

\* An account's digest is on only for an address that was proved, and the job
\* read it on.
ProvedInv ==
    /\ mailed \subseteq proved
    /\ \A u \in Users : OwnEmail[u] # None => <<u, OwnEmail[u]>> \in proved
    /\ \A u \in Users : On(digest[u]) => <<u, digest[u].email>> \in proved
    /\ \A p \in Served : <<p.user, p.email>> \in proved /\ p.failures < MaxFailures

\* No time is ahead of the clock, nor a reading of the City ahead of the City.
ClockInv ==
    /\ upsert # None =>
          /\ upsert.at <= clock
          /\ \A c \in Cases : updated[c] <= upsert.as[c] /\ upsert.as[c] <= cityAt[c]
    /\ \A u \in Users : digest[u].confirmed <= clock /\ digest[u].sent <= clock
    /\ run.now <= clock
    /\ run.pc # "idle" => run.now > 0
    /\ run.pc = "idle" => run.todo = {}
    /\ run.pc = "send" <=> run.person # None
    /\ \A p \in Served : p.since <= run.now

DigestInv == DigestTypes /\ ProvedInv /\ ClockInv

\* A row of an account that is well-typed.
Sound(d) ==
    /\ d \in Digest
    /\ d.failures = MaxFailures => d.confirmed = 0
    /\ d.email = None => d.confirmed = 0

\* Every row of the digest is sound.
LEMMA SoundRows ==
    DigestTypes => digest \in [Users -> Digest] /\ \A u \in Users : Sound(digest[u])
BY DEF DigestTypes, Sound

\* A step that changes one account's row and moves no time backwards.
LEMMA RowInd ==
    ASSUME DigestInv, NEW u \in Users, Sound(digest'[u]),
           digest'[u].confirmed <= clock', digest'[u].sent <= clock',
           digest' = [digest EXCEPT ![u] = digest'[u]],
           On(digest'[u]) => <<u, digest'[u].email>> \in proved',
           clock' \in 1..MaxTime, clock <= clock', proved \subseteq proved',
           proved' \subseteq Users \X Addresses,
           asked \subseteq asked', asked' \subseteq Users \X Addresses,
           mailed' \subseteq asked' \cup proved', mailed' \subseteq proved',
           owed' \in [Users -> SUBSET Cases],
           UNCHANGED <<mirror, watches>>,
           run' \in Run, run'.now = run.now,
           run'.pc # "idle" => run.pc # "idle", run'.pc = "idle" => run'.todo = {},
           run'.pc = "send" <=> run'.person # None, Served' \subseteq Served
    PROVE  DigestInv'
<1>1. /\ digest' \in [Users -> Digest]
      /\ \A v \in Users \ {u} : digest'[v] = digest[v]
  BY DEF DigestInv, DigestTypes, Sound
<1>2. \A v \in Users : Sound(digest'[v])
  BY <1>1, SoundRows DEF DigestInv
<1>3. clock \in Nat /\ clock' \in Nat
  BY DEF DigestInv, DigestTypes
<1>4. DigestTypes'
  <2>1. \A c \in Cases : seen'[c] <= clock' /\ updated'[c] <= cityAt'[c] /\ cityAt'[c] <= clock'
    <3>1. \A c \in Cases : seen[c] \in Nat /\ updated[c] \in Nat /\ cityAt[c] \in Nat
      BY DEF DigestInv, DigestTypes
    <3> QED BY <1>3, <3>1 DEF mirror, DigestInv, DigestTypes
  <2> QED BY <1>1, <1>2, <2>1 DEF DigestInv, DigestTypes, mirror, Sound
<1>5. ProvedInv'
  <2>1. ASSUME NEW v \in Users, On(digest'[v]) PROVE <<v, digest'[v].email>> \in proved'
    BY <1>1, <2>1 DEF DigestInv, ProvedInv
  <2>2. \A p \in Served' : <<p.user, p.email>> \in proved' /\ p.failures < MaxFailures
    BY DEF DigestInv, ProvedInv
  <2> QED BY <2>1, <2>2 DEF DigestInv, ProvedInv
<1>6. ClockInv'
  <2>1. ASSUME NEW v \in Users PROVE digest'[v].confirmed <= clock' /\ digest'[v].sent <= clock'
    <3>1. digest[v].confirmed \in Nat /\ digest[v].sent \in Nat
          /\ digest[v].confirmed <= clock /\ digest[v].sent <= clock
      BY DEF DigestInv, DigestTypes, Digest, ClockInv
    <3> QED BY <1>1, <1>3, <3>1
  <2>2. upsert' # None =>
          /\ upsert'.at <= clock'
          /\ \A c \in Cases : updated'[c] <= upsert'.as[c] /\ upsert'.as[c] <= cityAt'[c]
    <3>1. upsert # None => upsert.at \in Nat
      BY DEF DigestInv, DigestTypes, Upsert
    <3> QED BY <1>3, <3>1 DEF mirror, DigestInv, ClockInv
  <2>3. run'.now <= clock' /\ (run'.pc # "idle" => run'.now > 0)
    BY <1>3 DEF DigestInv, ClockInv, DigestTypes, Run
  <2>4. \A p \in Served' : p.since <= run'.now
    BY DEF DigestInv, ClockInv
  <2> QED BY <2>1, <2>2, <2>3, <2>4 DEF ClockInv
<1> QED BY <1>4, <1>5, <1>6 DEF DigestInv

\* The mirror's steps leave the addresses and the job alone.
LEMMA MirrorInd ==
    ASSUME DigestInv, UNCHANGED <<watches, digest, asked, mailed, proved, run>>,
           clock' \in 1..MaxTime, clock <= clock', upsert' \in Upsert \cup {None},
           cityAt' \in [Cases -> 0..MaxTime], seen' \in [Cases -> 0..MaxTime],
           updated' \in [Cases -> 0..MaxTime], owed' \in [Users -> SUBSET Cases],
           \A c \in Cases : seen'[c] <= clock' /\ updated'[c] <= cityAt'[c] /\ cityAt'[c] <= clock',
           upsert' # None =>
              /\ upsert'.at <= clock'
              /\ \A c \in Cases : updated'[c] <= upsert'.as[c] /\ upsert'.as[c] <= cityAt'[c]
    PROVE  DigestInv'
<1>1. DigestTypes'
  BY DEF DigestInv, DigestTypes
<1>2. ProvedInv'
  BY DEF DigestInv, ProvedInv, Served
<1>3. ClockInv'
  <2>1. clock \in Nat /\ clock' \in Nat /\ run.now \in Nat
    BY DEF DigestInv, DigestTypes, Run
  <2>2. \A u \in Users : digest[u].confirmed \in Nat /\ digest[u].sent \in Nat
    BY DEF DigestInv, DigestTypes, Digest
  <2> QED BY <2>1, <2>2 DEF DigestInv, ClockInv, Served
<1> QED BY <1>1, <1>2, <1>3 DEF DigestInv

\* The City changes a case.
LEMMA CityInd ==
    ASSUME DigestInv, NEW c \in Cases, CityChanges(c)
    PROVE  DigestInv'
<1>1. /\ clock \in 1..MaxTime /\ clock' = clock + 1 /\ clock' \in 1..MaxTime
      /\ cityAt' = [cityAt EXCEPT ![c] = clock']
      /\ UNCHANGED <<seen, updated, upsert, watches, digest, asked, mailed, proved, owed, run>>
  BY TidingsAssumption DEF CityChanges, Ticks, DigestInv, DigestTypes
<1>2. /\ cityAt \in [Cases -> 0..MaxTime] /\ seen \in [Cases -> 0..MaxTime]
      /\ updated \in [Cases -> 0..MaxTime] /\ owed \in [Users -> SUBSET Cases]
      /\ upsert \in Upsert \cup {None}
      /\ \A d \in Cases : seen[d] <= clock /\ updated[d] <= cityAt[d] /\ cityAt[d] <= clock
  BY DEF DigestInv, DigestTypes
<1>3. /\ cityAt' \in [Cases -> 0..MaxTime]
      /\ \A d \in Cases : cityAt[d] <= cityAt'[d] /\ cityAt'[d] <= clock'
  BY <1>1, <1>2
<1>4. \A d \in Cases : seen[d] <= clock' /\ updated[d] <= cityAt'[d]
  BY <1>1, <1>2, <1>3
<1>5. ASSUME upsert # None
      PROVE  upsert.at <= clock' /\ \A d \in Cases : updated[d] <= upsert.as[d] /\ upsert.as[d] <= cityAt'[d]
  <2>1. upsert.at \in Nat /\ upsert.as \in [Cases -> 0..MaxTime]
    BY <1>2, <1>5 DEF Upsert
  <2>2. upsert.at <= clock /\ \A d \in Cases : updated[d] <= upsert.as[d] /\ upsert.as[d] <= cityAt[d]
    BY <1>5 DEF DigestInv, ClockInv
  <2> QED BY <1>1, <1>2, <1>3, <2>1, <2>2
<1> QED BY <1>1, <1>2, <1>3, <1>4, <1>5, MirrorInd

\* An upsert begins: its time is its transaction's.
LEMMA BeginInd ==
    ASSUME DigestInv, UpsertBegins
    PROVE  DigestInv'
<1>1. /\ clock \in 1..MaxTime /\ clock' = clock + 1 /\ clock' \in 1..MaxTime
      /\ upsert' = [at |-> clock', as |-> cityAt]
      /\ UNCHANGED <<cityAt, seen, updated, watches, digest, asked, mailed, proved, owed, run>>
  BY TidingsAssumption DEF UpsertBegins, Ticks, DigestInv, DigestTypes
<1>2. /\ cityAt \in [Cases -> 0..MaxTime] /\ seen \in [Cases -> 0..MaxTime]
      /\ updated \in [Cases -> 0..MaxTime] /\ owed \in [Users -> SUBSET Cases]
      /\ \A d \in Cases : seen[d] <= clock /\ updated[d] <= cityAt[d] /\ cityAt[d] <= clock
  BY DEF DigestInv, DigestTypes
<1>3. upsert' \in Upsert
  BY <1>1, <1>2 DEF Upsert
<1>4. \A d \in Cases : seen[d] <= clock' /\ cityAt[d] <= clock'
  BY <1>1, <1>2
<1>5. upsert'.at <= clock' /\ \A d \in Cases : updated[d] <= upsert'.as[d] /\ upsert'.as[d] <= cityAt[d]
  BY <1>1, <1>2
<1> QED BY <1>1, <1>2, <1>3, <1>4, <1>5, MirrorInd

\* An upsert commits.
LEMMA CommitInd ==
    ASSUME DigestInv, UpsertCommits
    PROVE  DigestInv'
<1>1. /\ upsert # None /\ upsert' = None /\ updated' = upsert.as
      /\ seen' = [c \in Cases |-> IF seen[c] = 0 /\ upsert.as[c] > 0 THEN upsert.at ELSE seen[c]]
      /\ UNCHANGED <<clock, cityAt, watches, digest, asked, mailed, proved, run>>
  BY DEF UpsertCommits
<1>2. /\ clock \in 1..MaxTime /\ cityAt \in [Cases -> 0..MaxTime] /\ seen \in [Cases -> 0..MaxTime]
      /\ owed \in [Users -> SUBSET Cases] /\ upsert \in Upsert
      /\ \A d \in Cases : seen[d] <= clock /\ cityAt[d] <= clock
      /\ upsert.at <= clock /\ \A d \in Cases : upsert.as[d] <= cityAt[d]
  BY <1>1 DEF DigestInv, DigestTypes, ClockInv
<1>3. upsert.at \in 1..MaxTime /\ upsert.as \in [Cases -> 0..MaxTime]
  BY <1>2 DEF Upsert
<1>4. seen' \in [Cases -> 0..MaxTime] /\ \A d \in Cases : seen'[d] <= clock
  BY <1>1, <1>2, <1>3
<1>5. owed' \in [Users -> SUBSET Cases]
  <2> DEFINE news(u) ==
          {c \in Watched(watches[u]) : /\ On(digest[u]) /\ updated'[c] > updated[c]
                                       /\ ~Late(u, IF seen[c] = 0 THEN upsert.at ELSE updated'[c])}
  <2>1. owed' = [u \in Users |-> owed[u] \cup news(u)]
    BY DEF UpsertCommits
  <2>2. \A u \in Users : news(u) \subseteq Cases
    BY DEF Watched
  <2> HIDE DEF news
  <2> QED BY <1>2, <2>1, <2>2
<1> QED BY <1>1, <1>2, <1>3, <1>4, <1>5, MirrorInd

\* Watches are of the three kinds.
LEMMA SpecsAreWatches ==
    ASSUME NEW p \in Payloads
    PROVE  Specs(p) \subseteq Watch
<1>1. CASE p.kind = "category"
  <2>1. Specs(p) = CategorySpecs(p)
    BY <1>1 DEF Specs
  <2>2. CategorySpecs(p) \subseteq Watch
    BY DEF CategorySpecs, Watch, Mirrored
  <2> QED BY <2>1, <2>2
<1>2. CASE p.kind = "address"
  <2>1. Specs(p) = AddressSpecs(p) /\ p.places \subseteq Places
    BY <1>2, TidingsAssumption DEF Specs
  <2>2. AddressSpecs(p) \subseteq Watch
    <3>1. (IF p.nearby THEN p.places \cap {PlaceOf[c] : c \in Mirrored} ELSE {}) \subseteq Places
      BY <2>1
    <3> QED BY <2>1, <3>1 DEF AddressSpecs, Watch
  <2> QED BY <2>1, <2>2
<1>3. CASE p.kind = "area"
  <2>1. Specs(p) = AreaSpecs(p) /\ p.places \subseteq Places
    BY <1>3, TidingsAssumption DEF Specs
  <2>2. AreaSpecs(p) \subseteq Watch
    BY <2>1 DEF AreaSpecs, Watch
  <2> QED BY <2>1, <2>2
<1> QED BY <1>1, <1>2, <1>3, TidingsAssumption

\* A step on an account's watches leaves everything else of the digest alone.
LEMMA WatchInd ==
    ASSUME DigestInv, watches' \in [Users -> SUBSET Watch], owed' \in [Users -> SUBSET Cases],
           UNCHANGED <<clock, mirror, digest, asked, mailed, proved, run>>
    PROVE  DigestInv'
<1>1. DigestTypes'
  BY DEF DigestInv, DigestTypes, mirror
<1>2. ProvedInv' /\ ClockInv'
  BY DEF DigestInv, ProvedInv, ClockInv, Served, mirror
<1> QED BY <1>1, <1>2 DEF DigestInv

\* A watch is added.
LEMMA AddInd ==
    ASSUME DigestInv, NEW u \in Users, NEW p \in Payloads, AddWatch(u, p)
    PROVE  DigestInv' /\ \A v \in Users : watches[v] \subseteq watches'[v]
<1>1. PICK ws \in Added(watches[u], p) : watches' = [watches EXCEPT ![u] = ws]
  BY DEF AddWatch
<1>2. PICK w \in Specs(p) : ws = watches[u] \cup {w}
  BY <1>1 DEF Added
<1>3. watches \in [Users -> SUBSET Watch]
  BY DEF DigestInv, DigestTypes
<1>4. watches' \in [Users -> SUBSET Watch] /\ \A v \in Users : watches[v] \subseteq watches'[v]
  BY <1>1, <1>2, <1>3, SpecsAreWatches
<1>5. owed' \in [Users -> SUBSET Cases]
  BY DEF AddWatch, DigestInv, DigestTypes
<1> QED BY <1>4, <1>5, WatchInd DEF AddWatch

\* A watch is removed.
LEMMA RemoveInd ==
    ASSUME DigestInv, NEW u \in Users, RemoveWatch(u)
    PROVE  /\ DigestInv'
           /\ \A v \in Users : owed'[v] \subseteq owed[v]
           /\ owed'[u] \subseteq Watched(watches'[u])
           /\ \A v \in Users \ {u} : watches'[v] = watches[v]
<1>1. PICK w \in watches[u] : watches' = [watches EXCEPT ![u] = @ \ {w}]
  BY DEF RemoveWatch
<1>2. /\ watches \in [Users -> SUBSET Watch] /\ owed \in [Users -> SUBSET Cases]
      /\ owed' = [owed EXCEPT ![u] = owed[u] \cap Watched(watches'[u])]
  BY DEF RemoveWatch, DigestInv, DigestTypes
<1>3. watches' \in [Users -> SUBSET Watch] /\ \A v \in Users \ {u} : watches'[v] = watches[v]
  BY <1>1, <1>2
<1>4. /\ owed' \in [Users -> SUBSET Cases] /\ \A v \in Users : owed'[v] \subseteq owed[v]
      /\ owed'[u] \subseteq Watched(watches'[u])
  BY <1>2
<1> QED BY <1>3, <1>4, WatchInd DEF RemoveWatch

\* An address is asked for.
LEMMA RequestInd ==
    ASSUME DigestInv, NEW u \in Users, NEW e \in Addresses, RequestDigest(u, e)
    PROVE  DigestInv' /\ owed' = [owed EXCEPT ![u] = {}]
<1> DEFINE r == digest[u]
           c == IF OwnEmail[u] = e THEN clock + 1 ELSE 0
<1>0. r \in Digest /\ Sound(r) /\ digest \in [Users -> Digest]
  BY SoundRows DEF DigestInv, DigestTypes
<1>1. /\ clock \in 1..MaxTime /\ clock' = clock + 1 /\ clock' \in 1..MaxTime
      /\ owed' = [owed EXCEPT ![u] = {}]
      /\ asked' \in {asked, IF OwnEmail[u] = e THEN asked ELSE asked \cup {<<u, e>>}}
      /\ UNCHANGED <<mirror, watches, mailed, proved, run>>
  BY TidingsAssumption DEF RequestDigest, Ticks, DigestInv, DigestTypes
<1>2. c \in 0..MaxTime /\ c <= clock' /\ e # None /\ 0 \in 0..MaxFailures
      /\ MaxFailures # 0 /\ (c > 0 => OwnEmail[u] = e)
  BY <1>1, TidingsAssumption
<1>3. digest' = [digest EXCEPT ![u] = [r EXCEPT !.email = e, !.failures = 0, !.confirmed = c]]
  BY <1>0 DEF RequestDigest, Requested
<1> HIDE DEF c, r
<1> DEFINE d == [r EXCEPT !.email = e, !.failures = 0, !.confirmed = c]
<1>4. d \in Digest /\ d.email = e /\ d.confirmed = c /\ d.sent = r.sent /\ d.failures = 0
  BY <1>0, <1>2 DEF Digest
<1> HIDE DEF d
<1>5. /\ digest'[u] = d /\ digest' = [digest EXCEPT ![u] = digest'[u]]
      /\ digest'[u] \in Digest
      /\ digest'[u].email = e /\ digest'[u].confirmed = c
      /\ digest'[u].sent = r.sent /\ digest'[u].failures = 0
  BY <1>0, <1>3, <1>4 DEF d
<1>6. Sound(digest'[u])
  BY <1>2, <1>4, <1>5 DEF Sound, Digest
<1>7. On(digest'[u]) => <<u, digest'[u].email>> \in proved
  BY <1>2, <1>5 DEF On, DigestInv, ProvedInv
<1>8. digest'[u].confirmed <= clock' /\ digest'[u].sent <= clock'
  <2>1. r.sent \in Nat /\ r.sent <= clock
    BY <1>0 DEF Digest, DigestInv, ClockInv, r
  <2> QED BY <1>1, <1>2, <1>4, <1>5, <2>1
<1>9. asked \subseteq asked' /\ asked' \subseteq Users \X Addresses
  BY <1>1 DEF DigestInv, DigestTypes
<1>10. owed' \in [Users -> SUBSET Cases]
  BY <1>1 DEF DigestInv, DigestTypes
<1>11. /\ run \in Run /\ mailed \subseteq asked \cup proved /\ mailed \subseteq proved
       /\ proved \subseteq Users \X Addresses
       /\ run.pc = "idle" => run.todo = {}
       /\ run.pc = "send" <=> run.person # None
  BY DEF DigestInv, DigestTypes, ProvedInv, ClockInv
<1>12. Served' = Served
  BY <1>1 DEF Served
<1>13. DigestInv'
  BY <1>1, <1>5, <1>6, <1>7, <1>8, <1>9, <1>10, <1>11, <1>12, RowInd
<1> QED BY <1>1, <1>13

\* A link from the mail is opened, an old one perhaps.
LEMMA ConfirmInd ==
    ASSUME DigestInv, NEW u \in Users, NEW e \in Addresses, Confirm(u, e)
    PROVE  DigestInv' /\ owed' = [owed EXCEPT ![u] = {}]
<1> DEFINE r == digest[u]
           c == clock + 1
<1>0. r \in Digest /\ Sound(r) /\ digest \in [Users -> Digest]
  BY SoundRows DEF DigestInv, DigestTypes
<1>1. /\ clock \in 1..MaxTime /\ clock' = clock + 1 /\ clock' \in 1..MaxTime
      /\ owed' = [owed EXCEPT ![u] = {}] /\ r.email = e
      /\ proved' = proved \cup {<<u, e>>}
      /\ UNCHANGED <<mirror, watches, asked, mailed, run>>
  BY TidingsAssumption DEF Confirm, Ticks, DigestInv, DigestTypes
<1>2. /\ c \in 0..MaxTime /\ c = clock' /\ e # None /\ 0 \in 0..MaxFailures /\ MaxFailures # 0
      /\ None \in Addresses \cup {None} /\ 0 \in 0..MaxTime
  BY <1>1, TidingsAssumption
<1>3. digest' = [digest EXCEPT ![u] = [r EXCEPT !.confirmed = c, !.failures = 0]]
  BY <1>0 DEF Confirm, Confirmed
<1> HIDE DEF c, r
<1> DEFINE d == [r EXCEPT !.confirmed = c, !.failures = 0]
<1>4. d \in Digest /\ d.email = r.email /\ d.confirmed = c /\ d.sent = r.sent /\ d.failures = 0
  BY <1>0, <1>2 DEF Digest
<1> HIDE DEF d
<1>5. /\ digest'[u] = d /\ digest' = [digest EXCEPT ![u] = digest'[u]]
      /\ digest'[u] \in Digest
      /\ digest'[u].email = e /\ digest'[u].confirmed = c
      /\ digest'[u].sent = r.sent /\ digest'[u].failures = 0
  BY <1>0, <1>1, <1>3, <1>4 DEF d
<1>6. Sound(digest'[u])
  BY <1>2, <1>4, <1>5 DEF Sound, Digest
<1>7. digest'[u].confirmed <= clock' /\ digest'[u].sent <= clock'
  <2>1. r.sent \in Nat /\ r.sent <= clock
    BY <1>0 DEF Digest, DigestInv, ClockInv, r
  <2> QED BY <1>1, <1>2, <1>4, <1>5, <2>1
<1>8. owed' \in [Users -> SUBSET Cases] /\ <<u, digest'[u].email>> \in proved'
  BY <1>1, <1>5 DEF DigestInv, DigestTypes
<1>9. /\ run \in Run /\ mailed' \subseteq asked' \cup proved' /\ mailed' \subseteq proved'
      /\ proved \subseteq proved' /\ asked \subseteq asked' /\ clock <= clock'
      /\ proved' \subseteq Users \X Addresses /\ asked' \subseteq Users \X Addresses
      /\ run.pc = "idle" => run.todo = {}
      /\ run.pc = "send" <=> run.person # None
  BY <1>1 DEF DigestInv, DigestTypes, ProvedInv, ClockInv
<1>10. Served' = Served
  BY <1>1 DEF Served
<1>11. DigestInv'
  BY <1>1, <1>5, <1>6, <1>7, <1>8, <1>9, <1>10, RowInd
<1> QED BY <1>1, <1>11

\* The digest is turned off, signed in or by the link in a mail.
LEMMA OffInd ==
    ASSUME DigestInv, NEW u \in Users, TurnOff(u) \/ \E e \in Addresses : Unsubscribe(u, e)
    PROVE  DigestInv' /\ owed' = [owed EXCEPT ![u] = {}]
<1> DEFINE r == digest[u]
<1>0. r \in Digest /\ Sound(r) /\ digest \in [Users -> Digest]
  BY SoundRows DEF DigestInv, DigestTypes
<1>1. /\ clock \in 1..MaxTime /\ clock' = clock /\ owed' = [owed EXCEPT ![u] = {}]
      /\ UNCHANGED <<mirror, watches, asked, mailed, proved, run>>
  BY DEF TurnOff, Unsubscribe, DigestInv, DigestTypes
<1>2. digest' = [digest EXCEPT ![u] = [r EXCEPT !.email = None, !.confirmed = 0]]
  BY <1>0 DEF TurnOff, Unsubscribe, Off
<1>3. 0 \in 0..MaxTime /\ 0 \in 0..MaxFailures
  BY TidingsAssumption
<1> HIDE DEF r
<1> DEFINE d == [r EXCEPT !.email = None, !.confirmed = 0]
<1>4. d \in Digest /\ d.email = None /\ d.confirmed = 0 /\ d.sent = r.sent /\ d.failures = r.failures
  BY <1>0, <1>3 DEF Digest
<1> HIDE DEF d
<1>5. /\ digest'[u] = d /\ digest' = [digest EXCEPT ![u] = digest'[u]]
      /\ digest'[u] \in Digest
      /\ digest'[u].email = None /\ digest'[u].confirmed = 0
      /\ digest'[u].sent = r.sent /\ digest'[u].failures = r.failures
  BY <1>0, <1>2, <1>4 DEF d
<1>6. Sound(digest'[u]) /\ ~On(digest'[u])
  BY <1>3, <1>4, <1>5 DEF Sound, Digest, On
<1>7. digest'[u].confirmed <= clock' /\ digest'[u].sent <= clock'
  <2>1. r.sent \in Nat /\ r.sent <= clock
    BY <1>0 DEF Digest, DigestInv, ClockInv, r
  <2> QED BY <1>1, <1>3, <1>4, <1>5, <2>1
<1>8. owed' \in [Users -> SUBSET Cases]
  BY <1>1 DEF DigestInv, DigestTypes
<1>9. /\ run \in Run /\ mailed' \subseteq asked' \cup proved' /\ mailed' \subseteq proved'
      /\ proved \subseteq proved' /\ asked \subseteq asked' /\ clock <= clock'
      /\ proved' \subseteq Users \X Addresses /\ asked' \subseteq Users \X Addresses
      /\ run.pc = "idle" => run.todo = {}
      /\ run.pc = "send" <=> run.person # None
  BY <1>1 DEF DigestInv, DigestTypes, ProvedInv, ClockInv
<1>10. Served' = Served
  BY <1>1 DEF Served
<1>11. DigestInv'
  BY <1>1, <1>5, <1>6, <1>7, <1>8, <1>9, <1>10, RowInd
<1> QED BY <1>1, <1>11

\* What the job reads of an account whose digest is on.
LEMMA PersonIs ==
    ASSUME DigestInv, NEW u \in Users, On(digest[u])
    PROVE  LET p == [user |-> u, since |-> Since(digest[u]), email |-> digest[u].email,
                     failures |-> digest[u].failures]
           IN  /\ p \in Person /\ p.failures < MaxFailures /\ p.since <= clock
               /\ <<p.user, p.email>> \in proved
<1>1. /\ digest[u] \in Digest /\ Sound(digest[u])
      /\ digest[u].confirmed <= clock /\ digest[u].sent <= clock
  BY SoundRows DEF DigestInv, DigestTypes, ClockInv
<1>2. /\ digest[u].email \in Addresses
      /\ digest[u].failures \in 0..MaxFailures /\ digest[u].failures # MaxFailures
      /\ MaxFailures \in Nat
  <2>1. digest[u].confirmed # 0
    BY <1>1 DEF On, Digest
  <2> QED BY <1>1, <2>1, TidingsAssumption DEF Sound, Digest
<1>3. Since(digest[u]) \in 0..MaxTime /\ Since(digest[u]) <= clock
  BY <1>1 DEF Since, Digest
<1>4. <<u, digest[u].email>> \in proved
  BY DEF DigestInv, ProvedInv
<1> QED BY <1>2, <1>3, <1>4 DEF Person

\* The job begins: it reads who is to be served.
LEMMA JobBeginInd ==
    ASSUME DigestInv, DigestBegins
    PROVE  /\ DigestInv' /\ run'.person = None
           /\ UNCHANGED <<mirror, watches, digest, owed>>
           /\ \A p \in run'.todo : p.user \in Users /\ p.since = Since(digest[p.user])
<1> DEFINE PersonOf(u) == [user |-> u, since |-> Since(digest[u]), email |-> digest[u].email,
                           failures |-> digest[u].failures]
           todo == {PersonOf(u) : u \in {w \in Users : On(digest[w])}}
<1>1. /\ clock \in 1..MaxTime /\ clock' = clock + 1 /\ clock' \in 1..MaxTime
      /\ run' = [Asleep EXCEPT !.pc = "next", !.now = clock', !.todo = todo]
      /\ UNCHANGED <<mirror, watches, digest, asked, mailed, proved, owed>>
  BY TidingsAssumption DEF DigestBegins, Ticks, DigestInv, DigestTypes
<1>2. \A p \in todo : /\ p \in Person /\ p.failures < MaxFailures /\ p.since <= clock
                      /\ <<p.user, p.email>> \in proved
                      /\ p.user \in Users /\ p.since = Since(digest[p.user])
  <2> SUFFICES ASSUME NEW u \in Users, On(digest[u])
               PROVE  /\ PersonOf(u) \in Person /\ PersonOf(u).failures < MaxFailures /\ PersonOf(u).since <= clock
                      /\ <<PersonOf(u).user, PersonOf(u).email>> \in proved
                      /\ PersonOf(u).user \in Users /\ PersonOf(u).since = Since(digest[PersonOf(u).user])
    OBVIOUS
  <2> QED BY PersonIs
<1> HIDE DEF todo
<1>3. /\ run'.pc = "next" /\ run'.now = clock' /\ run'.todo = todo /\ run'.person = None
      /\ run' \in Run
  <2>1. todo \subseteq Person
    BY <1>2
  <2>2. run' = [pc |-> "next", now |-> clock', todo |-> todo, person |-> None, items |-> {}, left |-> {}]
    BY <1>1 DEF Asleep
  <2>3. clock' \in 0..MaxTime
    BY <1>1
  <2>4. run'.pc = "next" /\ run'.now = clock' /\ run'.todo = todo /\ run'.person = None
    BY <2>2
  <2>5. run' \in Run
    BY <2>1, <2>2, <2>3 DEF Run
  <2> QED BY <2>4, <2>5
<1>4. Served' = todo
  BY <1>3 DEF Served
<1>5. DigestTypes'
  <2>1. \A c \in Cases : seen[c] \in Nat /\ cityAt[c] \in Nat
    BY DEF DigestInv, DigestTypes
  <2> QED BY <1>1, <1>3, <2>1 DEF DigestInv, DigestTypes, mirror
<1>6. ProvedInv'
  BY <1>1, <1>2, <1>4 DEF DigestInv, ProvedInv
<1>7. ClockInv'
  <2>1. \A u \in Users : digest[u].confirmed \in Nat /\ digest[u].sent \in Nat
    BY DEF DigestInv, DigestTypes, Digest
  <2>2. upsert # None => upsert.at \in Nat
    BY DEF DigestInv, DigestTypes, Upsert
  <2>3. \A p \in todo : p.since \in Nat
    <3>1. \A p \in Person : p.since \in Nat
      BY DEF Person
    <3> QED BY <1>2, <3>1
  <2>4. \A p \in Served' : p.since <= run'.now
    <3> SUFFICES ASSUME NEW p \in todo PROVE p.since <= clock'
      BY <1>3, <1>4
    <3>1. p.since <= clock
      BY <1>2
    <3>2. p.since \in Nat
      BY <2>3
    <3>3. clock \in Nat /\ clock' = clock + 1
      BY <1>1
    <3> QED BY <3>1, <3>2, <3>3
  <2>5. /\ run'.now <= clock' /\ run'.now > 0 /\ run'.pc # "idle"
        /\ run'.pc # "send" /\ run'.person = None
    BY <1>1, <1>3
  <2>6. \A u \in Users : digest'[u].confirmed <= clock' /\ digest'[u].sent <= clock'
    BY <1>1, <2>1 DEF DigestInv, ClockInv
  <2>7. upsert' # None =>
          /\ upsert'.at <= clock'
          /\ \A c \in Cases : updated'[c] <= upsert'.as[c] /\ upsert'.as[c] <= cityAt'[c]
    BY <1>1, <2>2 DEF DigestInv, ClockInv, mirror
  <2> QED BY <2>4, <2>5, <2>6, <2>7 DEF ClockInv
<1> QED BY <1>1, <1>2, <1>3, <1>5, <1>6, <1>7 DEF DigestInv

\* The job ends: nobody is left to serve.
LEMMA JobEndInd ==
    ASSUME DigestInv, DigestEnds
    PROVE  DigestInv' /\ Served' = {} /\ run'.person = None
<1>1. /\ run' = Asleep /\ Asleep \in Run /\ Served' = {} /\ run'.person = None
      /\ UNCHANGED <<clock, mirror, watches, digest, asked, mailed, proved, owed>>
  BY TidingsAssumption DEF DigestEnds, Asleep, Run, Served
<1>2. DigestTypes' /\ ProvedInv'
  BY <1>1 DEF DigestInv, DigestTypes, ProvedInv, mirror
<1>3. ClockInv'
  BY <1>1 DEF DigestInv, DigestTypes, ClockInv, Asleep, mirror
<1> QED BY <1>1, <1>2, <1>3 DEF DigestInv

\* A feed has nothing in it only if there is no news.
LEMMA EmptyFeed ==
    ASSUME NEW news, {} \in Feeds(news)
    PROVE  news = {}
BY FS_EmptySet, TidingsAssumption DEF Feeds

\* A person's feed is read.
LEMMA FeedsInd ==
    ASSUME DigestInv, DigestFeeds
    PROVE  /\ DigestInv' /\ UNCHANGED <<clock, mirror, watches, owed>>
           /\ \E p \in run.todo : p.user \in Users /\
                 \/ /\ NewsFor(p.user, p.since) = {} /\ Served' \subseteq Served /\ run'.person = None
                    /\ \A u \in Users \ {p.user} : digest'[u] = digest[u]
                    /\ Since(digest'[p.user]) = run.now
                    /\ run'.now = run.now
                 \/ /\ run'.person = p /\ run'.items \cup run'.left = NewsFor(p.user, p.since)
                    /\ Served' \subseteq Served /\ UNCHANGED digest
                    /\ run'.now = run.now
<1>0. PICK p \in run.todo : \E items \in Feeds(NewsFor(p.user, p.since)) :
        LET rest == [run EXCEPT !.todo = @ \ {p}]
        IN  IF items = {}
            THEN digest' = Mark(p.user) /\ run' = rest
            ELSE /\ run' = [rest EXCEPT !.pc = "send", !.person = p, !.items = items,
                                       !.left = NewsFor(p.user, p.since) \ items]
                 /\ UNCHANGED digest
  BY DEF DigestFeeds
<1>1. PICK items \in Feeds(NewsFor(p.user, p.since)) :
        LET rest == [run EXCEPT !.todo = @ \ {p}]
        IN  IF items = {}
            THEN digest' = Mark(p.user) /\ run' = rest
            ELSE /\ run' = [rest EXCEPT !.pc = "send", !.person = p, !.items = items,
                                       !.left = NewsFor(p.user, p.since) \ items]
                 /\ UNCHANGED digest
  BY <1>0
<1> DEFINE u == p.user
<1>2. /\ run \in Run /\ run.pc = "next" /\ run.person = None /\ p \in Person /\ u \in Users
      /\ None \notin Person /\ run.now \in 0..MaxTime /\ run.now > 0 /\ run.now <= clock
  BY TidingsAssumption DEF DigestFeeds, DigestInv, DigestTypes, ClockInv, Run, Person
<1>3. /\ digest[u] \in Digest /\ Sound(digest[u]) /\ digest \in [Users -> Digest]
      /\ digest[u].confirmed <= clock /\ digest[u].sent <= clock
      /\ On(digest[u]) => <<u, digest[u].email>> \in proved
  BY <1>2, SoundRows DEF DigestInv, DigestTypes, ClockInv, ProvedInv
<1>4. /\ clock \in 1..MaxTime /\ owed \in [Users -> SUBSET Cases]
      /\ asked \subseteq Users \X Addresses /\ proved \subseteq Users \X Addresses
      /\ mailed \subseteq asked \cup proved /\ mailed \subseteq proved
      /\ UNCHANGED <<clock, mirror, watches, asked, mailed, proved, owed>>
  BY DEF DigestFeeds, DigestInv, DigestTypes, ProvedInv
<1>5. clock <= clock' /\ clock' \in 1..MaxTime
  BY <1>4
<1>6. CASE items = {}
  <2>0. NewsFor(u, p.since) = {}
    BY <1>6, EmptyFeed
  <2>1. digest' = [digest EXCEPT ![u].sent = run.now] /\ run' = [run EXCEPT !.todo = @ \ {p}]
    BY <1>1, <1>6 DEF Mark
  <2>2. /\ run' \in Run /\ run'.pc = "next" /\ run'.person = None /\ run'.now = run.now
        /\ Served' \subseteq Served
    BY <1>2, <2>1 DEF Run, Served
  <2> DEFINE r == digest[u]
             d == [r EXCEPT !.sent = run.now]
  <2> HIDE DEF r
  <2>3. /\ d \in Digest /\ d.email = r.email /\ d.confirmed = r.confirmed /\ d.sent = run.now
        /\ d.failures = r.failures
    BY <1>2, <1>3 DEF Digest, r
  <2>4. digest' = [digest EXCEPT ![u] = d]
    BY <2>1 DEF r
  <2> HIDE DEF d
  <2>5. /\ digest'[u] = d /\ digest' = [digest EXCEPT ![u] = digest'[u]]
        /\ \A v \in Users \ {u} : digest'[v] = digest[v]
    BY <1>2, <1>3, <2>4
  <2>6. Sound(digest'[u]) /\ (On(digest'[u]) => <<u, digest'[u].email>> \in proved')
    BY <1>3, <1>4, <2>3, <2>5 DEF Sound, On, r
  <2>7. digest'[u].confirmed <= clock' /\ digest'[u].sent <= clock'
    BY <1>2, <1>3, <1>4, <2>3, <2>5 DEF r
  <2>8. Since(digest'[u]) = run.now
    BY <1>2, <2>3, <2>5 DEF Since
  <2>9. DigestInv'
    BY <1>2, <1>4, <1>5, <2>2, <2>5, <2>6, <2>7, RowInd
  <2> QED BY <1>2, <1>4, <2>0, <2>2, <2>5, <2>8, <2>9
<1>7. CASE items # {}
  <2> DEFINE left == NewsFor(u, p.since) \ items
  <2>0. items \subseteq Cases /\ left \subseteq Cases /\ items \cup left = NewsFor(u, p.since)
    BY DEF Feeds, NewsFor, Mirrored
  <2>1. /\ run' = [[run EXCEPT !.todo = @ \ {p}] EXCEPT !.pc = "send", !.person = p, !.items = items, !.left = left]
        /\ UNCHANGED digest
    BY <1>1, <1>7
  <2> HIDE DEF left
  <2>2. /\ run' \in Run /\ run'.pc = "send" /\ run'.person = p /\ run'.now = run.now
        /\ run'.items = items /\ run'.left = left /\ run'.person # None
        /\ run'.todo \subseteq run.todo
    BY <1>2, <2>0, <2>1 DEF Run
  <2>3. Served' \subseteq Served
    BY <2>2 DEF Served
  <2>4. /\ digest'[u] = digest[u] /\ digest' = [digest EXCEPT ![u] = digest'[u]]
    BY <1>2, <1>3, <2>1
  <2>5. Sound(digest'[u]) /\ (On(digest'[u]) => <<u, digest'[u].email>> \in proved')
    BY <1>3, <1>4, <2>4
  <2>6. digest'[u].confirmed <= clock' /\ digest'[u].sent <= clock'
    BY <1>3, <1>4, <2>4
  <2>7. DigestInv'
    BY <1>2, <1>4, <1>5, <2>2, <2>3, <2>4, <2>5, <2>6, RowInd
  <2> QED BY <1>2, <1>4, <2>0, <2>1, <2>2, <2>3, <2>7
<1> QED BY <1>6, <1>7

\* The person whose mail is on its way has an account and an address of it.
LEMMA SendingIs ==
    ASSUME DigestInv, run.pc = "send"
    PROVE  /\ run.person \in Person /\ run.person.user \in Users /\ run.person.email \in Addresses
           /\ run.person.failures \in 0..(MaxFailures - 1)
           /\ <<run.person.user, run.person.email>> \in proved
           /\ run.now \in 0..MaxTime /\ run.now > 0 /\ run.now <= clock
<1>1. run \in Run /\ run.person # None /\ run.now > 0 /\ run.now <= clock
  BY DEF DigestInv, DigestTypes, ClockInv
<1>2. run.person \in Person /\ run.now \in 0..MaxTime
  BY <1>1 DEF Run
<1>3. run.person.failures < MaxFailures /\ <<run.person.user, run.person.email>> \in proved
  BY <1>1 DEF DigestInv, ProvedInv, Served
<1> QED BY <1>1, <1>2, <1>3, TidingsAssumption DEF Person

\* When the mail has gone or failed the job goes on with the others.
LEMMA NextPerson ==
    ASSUME DigestInv, run.pc = "send",
           run' = [run EXCEPT !.pc = "next", !.person = None, !.items = {}, !.left = {}]
    PROVE  /\ run' \in Run /\ run'.pc = "next" /\ run'.person = None /\ run'.now = run.now
           /\ run'.items = {} /\ Served' \subseteq Served
<1>1. run \in Run
  BY DEF DigestInv, DigestTypes
<1>2. /\ run' \in Run /\ run'.pc = "next" /\ run'.person = None /\ run'.now = run.now
      /\ run'.items = {} /\ run'.todo = run.todo
  BY <1>1 DEF Run
<1> QED BY <1>2 DEF Served

\* A mail has gone.
LEMMA SentInd ==
    ASSUME DigestInv, DigestSent
    PROVE  LET u == run.person.user
           IN  /\ DigestInv' /\ UNCHANGED <<clock, mirror, watches>>
               /\ u \in Users /\ owed' = [owed EXCEPT ![u] = @ \ (run.items \cup run.left)]
               /\ \A v \in Users \ {u} : digest'[v] = digest[v]
               /\ Since(digest'[u]) = run.now
               /\ run'.person = None /\ run'.now = run.now /\ Served' \subseteq Served
<1> DEFINE u == run.person.user  e == run.person.email  r == digest[u]
           d == [r EXCEPT !.sent = run.now, !.failures = 0]
<1>1. /\ run.pc = "send" /\ digest' = [Mark(u) EXCEPT ![u].failures = 0]
      /\ mailed' = mailed \cup {<<u, e>>}
      /\ owed' = [owed EXCEPT ![u] = @ \ (run.items \cup run.left)]
      /\ run' = [run EXCEPT !.pc = "next", !.person = None, !.items = {}, !.left = {}]
      /\ UNCHANGED <<clock, mirror, watches, asked, proved>>
  BY DEF DigestSent
<1>2. /\ run' \in Run /\ run'.pc = "next" /\ run'.person = None /\ run'.now = run.now
      /\ run'.items = {} /\ Served' \subseteq Served
  BY <1>1, NextPerson
<1>3. /\ u \in Users /\ e \in Addresses /\ <<u, e>> \in proved
      /\ run.now \in 0..MaxTime /\ run.now > 0 /\ run.now <= clock
  BY <1>1, SendingIs
<1>4. /\ r \in Digest /\ Sound(r) /\ digest \in [Users -> Digest]
      /\ r.confirmed <= clock /\ r.sent <= clock
      /\ On(r) => <<u, r.email>> \in proved
  BY <1>3, SoundRows DEF DigestInv, DigestTypes, ClockInv, ProvedInv
<1>5. digest' = [digest EXCEPT ![u] = d]
  BY <1>1, <1>3, <1>4 DEF Mark
<1>6. 0 \in 0..MaxFailures /\ MaxFailures # 0
  BY TidingsAssumption
<1>7. /\ owed' \in [Users -> SUBSET Cases] /\ clock \in 1..MaxTime
      /\ asked \subseteq Users \X Addresses /\ proved \subseteq Users \X Addresses
      /\ mailed' \subseteq asked \cup proved /\ mailed' \subseteq proved
  <2>1. /\ owed \in [Users -> SUBSET Cases] /\ clock \in 1..MaxTime
        /\ asked \subseteq Users \X Addresses /\ proved \subseteq Users \X Addresses
        /\ mailed \subseteq asked \cup proved /\ mailed \subseteq proved
    BY DEF DigestInv, DigestTypes, ProvedInv
  <2> QED BY <1>1, <1>3, <2>1
<1> HIDE DEF u, e, r
<1>8. /\ d \in Digest /\ d.email = r.email /\ d.confirmed = r.confirmed /\ d.sent = run.now
      /\ d.failures = 0
  BY <1>3, <1>4, <1>6 DEF Digest
<1> HIDE DEF d
<1>9. /\ digest'[u] = d /\ digest' = [digest EXCEPT ![u] = digest'[u]]
      /\ \A v \in Users \ {u} : digest'[v] = digest[v]
  BY <1>3, <1>4, <1>5
<1>a. proved' = proved /\ clock' = clock
  BY <1>1
<1>10. Sound(digest'[u]) /\ (On(digest'[u]) => <<u, digest'[u].email>> \in proved')
  BY <1>a, <1>4, <1>6, <1>8, <1>9 DEF Sound, On
<1>11. /\ digest'[u].confirmed <= clock' /\ digest'[u].sent <= clock'
       /\ clock <= clock' /\ clock' \in 1..MaxTime
  BY <1>a, <1>3, <1>4, <1>7, <1>8, <1>9
<1>12. Since(digest'[u]) = run.now
  BY <1>3, <1>8, <1>9 DEF Since
<1>13. DigestInv'
  BY <1>1, <1>2, <1>3, <1>7, <1>9, <1>10, <1>11, RowInd
<1> QED BY <1>1, <1>2, <1>3, <1>9, <1>12, <1>13 DEF u

\* A mail that fails may switch the digest off; it moves no mark.
LEMMA FailsInd ==
    ASSUME DigestInv, DigestFails
    PROVE  LET u == run.person.user
           IN  /\ DigestInv' /\ UNCHANGED <<clock, mirror, watches, owed>>
               /\ u \in Users /\ \A v \in Users \ {u} : digest'[v] = digest[v]
               /\ Since(digest'[u]) <= Since(digest[u])
               /\ run'.person = None /\ run'.now = run.now /\ Served' \subseteq Served
<1> DEFINE u == run.person.user  r == digest[u]  f == run.person.failures + 1
           c == IF f >= MaxFailures THEN 0 ELSE r.confirmed
           d == [r EXCEPT !.failures = f, !.confirmed = c]
<1>1. /\ run.pc = "send" /\ digest' = [digest EXCEPT ![u] = Failed(@, f)]
      /\ run' = [run EXCEPT !.pc = "next", !.person = None, !.items = {}, !.left = {}]
      /\ UNCHANGED <<clock, mirror, watches, asked, mailed, proved, owed>>
  BY DEF DigestFails
<1>2. /\ run' \in Run /\ run'.pc = "next" /\ run'.person = None /\ run'.now = run.now
      /\ run'.items = {} /\ Served' \subseteq Served
  BY <1>1, NextPerson
<1>3. u \in Users /\ f \in 0..MaxFailures /\ MaxFailures \in Nat
  BY <1>1, SendingIs, TidingsAssumption
<1>4. /\ r \in Digest /\ Sound(r) /\ digest \in [Users -> Digest]
      /\ r.confirmed <= clock /\ r.sent <= clock
      /\ On(r) => <<u, r.email>> \in proved
  BY <1>3, SoundRows DEF DigestInv, DigestTypes, ClockInv, ProvedInv
<1>5. digest' = [digest EXCEPT ![u] = d]
  BY <1>1, <1>3, <1>4 DEF Failed
<1>6. /\ owed \in [Users -> SUBSET Cases] /\ clock \in 1..MaxTime
      /\ asked \subseteq Users \X Addresses /\ proved \subseteq Users \X Addresses
      /\ mailed \subseteq asked \cup proved /\ mailed \subseteq proved
  BY DEF DigestInv, DigestTypes, ProvedInv
<1>7. /\ c \in 0..MaxTime /\ r.sent \in 0..MaxTime /\ r.confirmed \in 0..MaxTime
      /\ c = 0 \/ c = r.confirmed
      /\ f = MaxFailures => c = 0
      /\ c <= r.confirmed
  BY <1>3, <1>4, TidingsAssumption DEF Digest
<1>8. f = MaxFailures => c = 0
  BY <1>3
<1> HIDE DEF u, r, f, c
<1>9. /\ d \in Digest /\ d.email = r.email /\ d.confirmed = c /\ d.sent = r.sent
      /\ d.failures = f
  BY <1>3, <1>4, <1>7 DEF Digest
<1> HIDE DEF d
<1>10. /\ digest'[u] = d /\ digest' = [digest EXCEPT ![u] = digest'[u]]
       /\ \A v \in Users \ {u} : digest'[v] = digest[v]
  BY <1>3, <1>4, <1>5
<1>11. Sound(digest'[u]) /\ (On(digest'[u]) => <<u, digest'[u].email>> \in proved')
  BY <1>1, <1>4, <1>7, <1>8, <1>9, <1>10 DEF Sound, On
<1>12. /\ digest'[u].confirmed <= clock' /\ digest'[u].sent <= clock'
       /\ clock <= clock' /\ clock' \in 1..MaxTime
  BY <1>1, <1>4, <1>6, <1>7, <1>9, <1>10
<1>13. Since(digest'[u]) <= Since(r)
  BY <1>7, <1>9, <1>10 DEF Since
<1>14. DigestInv'
  BY <1>1, <1>2, <1>3, <1>6, <1>10, <1>11, <1>12, RowInd
<1> QED BY <1>1, <1>2, <1>3, <1>10, <1>13, <1>14 DEF u, r

\* Every step of watches and digests keeps the digest's invariant.
LEMMA DigestStepInd ==
    ASSUME DigestInv, DigestStep
    PROVE  DigestInv'
BY CityInd, BeginInd, CommitInd, AddInd, RemoveInd, RequestInd, ConfirmInd, OffInd,
   JobBeginInd, FeedsInd, SentInd, FailsInd, JobEndInd DEF DigestStep

\* No step of watches and digests touches links, phones and passes.
LEMMA DigestStepLeaves ==
    ASSUME DigestStep
    PROVE  UNCHANGED <<links, phones, pass>>
BY DEF DigestStep, CityChanges, UpsertBegins, UpsertCommits, AddWatch, RemoveWatch,
       RequestDigest, Confirm, Unsubscribe, TurnOff, DigestBegins, DigestFeeds, DigestSent,
       DigestFails, DigestEnds

-----------------------------------------------------------------------------
(* The digest: news                                                        *)

\* What a digest that compares with t finds of a case.
News(c, t, se, up) == se[c] > t \/ up[c] > t

\* News that is owed is news to the next digest, to the one that has been read for
\* and not served, and, but for what the mail on its way has in it, to the one
\* that begins when that mail is marked.
NewsInv ==
    /\ \A c \in Cases : updated[c] > 0 => seen[c] > 0
    /\ \A u \in Users : owed[u] \subseteq Watched(watches[u])
    /\ \A u \in Users : \A c \in owed[u] : News(c, Since(digest[u]), seen, updated)
    /\ \A p \in Served : \A c \in owed[p.user] : News(c, p.since, seen, updated)
    /\ run.person # None =>
          \A c \in owed[run.person.user] \ (run.items \cup run.left) : News(c, run.now, seen, updated)

\* Steps that write neither marks nor the mirror and owe nothing new.
LEMMA LessOwed ==
    ASSUME NewsInv, UNCHANGED <<seen, updated>>,
           \A u \in Users : owed'[u] \subseteq owed[u] /\ owed'[u] \subseteq Watched(watches'[u]),
           \A u \in Users : owed'[u] = {} \/ Since(digest'[u]) <= Since(digest[u]),
           \A u \in Users : Since(digest'[u]) \in Nat /\ Since(digest[u]) \in Nat,
           \A c \in Cases : seen[c] \in Nat /\ updated[c] \in Nat,
           \A u \in Users : owed[u] \subseteq Cases,
           \A p \in Served : p.user \in Users,
           Served' \subseteq Served,
           run'.person # None => run'.person = run.person /\ run'.items = run.items /\ run'.left = run.left /\ run'.now = run.now
    PROVE  NewsInv'
<1>1. ASSUME NEW u \in Users, NEW c \in owed'[u]
      PROVE  News(c, Since(digest'[u]), seen', updated')
  <2>1. c \in owed[u] /\ c \in Cases /\ News(c, Since(digest[u]), seen, updated)
    BY <1>1 DEF NewsInv
  <2>2. Since(digest'[u]) <= Since(digest[u])
    BY <1>1
  <2> QED BY <2>1, <2>2 DEF News
<1>2. ASSUME NEW p \in Served', NEW c \in owed'[p.user]
      PROVE  News(c, p.since, seen', updated')
  <2>1. p \in Served /\ p.user \in Users
    OBVIOUS
  <2> QED BY <1>2, <2>1 DEF NewsInv, News
<1>3. ASSUME run'.person # None, NEW c \in owed'[run'.person.user] \ (run'.items \cup run'.left)
      PROVE  News(c, run'.now, seen', updated')
  <2>1. run.person \in Served /\ run.person.user \in Users
    BY <1>3 DEF Served
  <2> QED BY <1>3, <2>1 DEF NewsInv, News
<1> QED BY <1>1, <1>2, <1>3 DEF NewsInv

\* An upsert brings news, whose time a digest has not passed.
LEMMA CommitNews ==
    ASSUME DigestInv, NewsInv, UpsertCommits
    PROVE  NewsInv'
<1> DEFINE news(u) ==
        {c \in Watched(watches[u]) : /\ On(digest[u]) /\ updated'[c] > updated[c]
                                     /\ ~Late(u, IF seen[c] = 0 THEN upsert.at ELSE updated'[c])}
<1>1. /\ upsert # None /\ updated' = upsert.as
      /\ seen' = [c \in Cases |-> IF seen[c] = 0 /\ upsert.as[c] > 0 THEN upsert.at ELSE seen[c]]
      /\ owed' = [u \in Users |-> owed[u] \cup news(u)]
      /\ UNCHANGED <<clock, cityAt, watches, digest, run>>
  BY DEF UpsertCommits
<1>2. /\ owed \in [Users -> SUBSET Cases] /\ upsert \in Upsert /\ run \in Run
      /\ seen \in [Cases -> 0..MaxTime] /\ updated \in [Cases -> 0..MaxTime]
      /\ digest \in [Users -> Digest]
      /\ \A c \in Cases : updated[c] <= upsert.as[c]
      /\ run.pc = "idle" => run.todo = {}
      /\ run.pc = "send" <=> run.person # None
      /\ \A p \in Served : p.since <= run.now
  BY <1>1 DEF DigestInv, DigestTypes, ClockInv
<1>3. upsert.at \in 1..MaxTime /\ upsert.as \in [Cases -> 0..MaxTime]
  BY <1>2 DEF Upsert
<1>4. \A c \in Cases : /\ seen[c] \in Nat /\ updated[c] \in Nat
                       /\ seen'[c] \in Nat /\ updated'[c] \in Nat
                       /\ updated[c] <= updated'[c] /\ seen[c] <= seen'[c]
                       /\ updated'[c] > 0 => seen'[c] > 0
                       /\ seen[c] = 0 /\ updated'[c] > updated[c] => seen'[c] = upsert.at
  BY <1>1, <1>2, <1>3
<1>5. \A u \in Users : Since(digest[u]) \in Nat
  BY <1>2 DEF Digest, Since
<1>6. ASSUME NEW u \in Users, NEW c \in news(u)
      PROVE  /\ c \in Cases /\ c \in Watched(watches[u])
             /\ News(c, Since(digest[u]), seen', updated')
             /\ run.pc # "idle" => News(c, run.now, seen', updated')
  <2>0. c \in Cases
    BY <1>6 DEF Watched
  <2>1. ~Late(u, IF seen[c] = 0 THEN upsert.at ELSE updated'[c]) /\ updated'[c] > updated[c]
    BY <1>6
  <2>2. run.now \in Nat
    BY <1>2 DEF Run
  <2>3. CASE seen[c] = 0
    BY <1>3, <1>4, <1>5, <1>6, <2>0, <2>1, <2>2, <2>3 DEF Late, News
  <2>4. CASE seen[c] # 0
    BY <1>4, <1>5, <1>6, <2>0, <2>1, <2>2, <2>4 DEF Late, News
  <2> QED BY <2>3, <2>4
<1> HIDE DEF news
<1>7. ASSUME NEW t \in Nat, NEW c \in Cases, News(c, t, seen, updated)
      PROVE  News(c, t, seen', updated')
  BY <1>4, <1>7 DEF News
<1>8. \A u \in Users : owed[u] \subseteq Cases /\ owed'[u] = owed[u] \cup news(u)
  BY <1>1, <1>2
<1>9. ASSUME NEW u \in Users
      PROVE  /\ owed'[u] \subseteq Watched(watches'[u])
             /\ \A c \in owed'[u] : News(c, Since(digest'[u]), seen', updated')
  BY <1>1, <1>5, <1>6, <1>7, <1>8 DEF NewsInv
<1>10. Served' = Served /\ \A p \in Served : p \in Person /\ p.user \in Users /\ p.since \in Nat
  BY <1>1, <1>2 DEF Served, Run, Person
<1>11. run.now \in Nat /\ (Served # {} => run.pc # "idle")
  BY <1>2 DEF Served, Run
<1>12. ASSUME NEW p \in Served, NEW c \in owed'[p.user]
       PROVE  News(c, p.since, seen', updated')
  <2>1. CASE c \in owed[p.user]
    BY <2>1, <1>7, <1>8, <1>10 DEF NewsInv
  <2>2. CASE c \in news(p.user)
    <3>1. News(c, run.now, seen', updated') /\ p.since <= run.now /\ c \in Cases
      BY <2>2, <1>2, <1>6, <1>10, <1>11
    <3> QED BY <3>1, <1>4, <1>10, <1>11 DEF News
  <2> QED BY <2>1, <2>2, <1>8, <1>10
<1>13. ASSUME run.person # None, NEW c \in owed'[run.person.user] \ (run.items \cup run.left)
       PROVE  News(c, run.now, seen', updated')
  <2>1. run.person \in Served /\ run.pc # "idle"
    BY <1>2, <1>13 DEF Served
  <2>2. CASE c \in owed[run.person.user]
    BY <2>1, <2>2, <1>7, <1>8, <1>10, <1>11, <1>13 DEF NewsInv
  <2>3. CASE c \in news(run.person.user)
    BY <2>1, <2>3, <1>6, <1>10
  <2> QED BY <2>1, <2>2, <2>3, <1>8, <1>10, <1>13
<1> QED BY <1>1, <1>4, <1>9, <1>10, <1>12, <1>13 DEF NewsInv

\* All that is owed to a person is in their feed or left out of it for want of room.
LEMMA FeedsNews ==
    ASSUME DigestInv, DigestInv', NewsInv, DigestFeeds
    PROVE  NewsInv'
<1>1. PICK p \in run.todo : p.user \in Users /\
         \/ /\ NewsFor(p.user, p.since) = {} /\ Served' \subseteq Served /\ run'.person = None
            /\ \A u \in Users \ {p.user} : digest'[u] = digest[u]
            /\ Since(digest'[p.user]) = run.now
            /\ run'.now = run.now
         \/ /\ run'.person = p /\ run'.items \cup run'.left = NewsFor(p.user, p.since)
            /\ Served' \subseteq Served /\ UNCHANGED digest
            /\ run'.now = run.now
  BY FeedsInd
<1>2. UNCHANGED <<seen, updated, watches, owed>>
  BY FeedsInd DEF mirror
<1>3. /\ \A c \in Cases : seen[c] \in Nat /\ updated[c] \in Nat
      /\ \A u \in Users : owed[u] \subseteq Cases
      /\ \A u \in Users : Since(digest[u]) \in Nat /\ Since(digest'[u]) \in Nat
      /\ \A q \in Served : q.user \in Users /\ q.since \in Nat
      /\ DigestTypes
  BY DEF DigestInv, DigestTypes, Digest, Since, Served, Run, Person
<1>4. p \in Served
  BY <1>1 DEF Served
<1>5. owed[p.user] \subseteq NewsFor(p.user, p.since)
  <2> SUFFICES ASSUME NEW c \in owed[p.user] PROVE c \in NewsFor(p.user, p.since)
    OBVIOUS
  <2>1. c \in Cases /\ c \in Watched(watches[p.user]) /\ News(c, p.since, seen, updated)
    BY <1>1, <1>3, <1>4 DEF NewsInv
  <2>2. seen[c] > 0
    BY <1>3, <1>4, <2>1 DEF NewsInv, News
  <2> QED BY <2>1, <2>2 DEF NewsFor, Mirrored, News
<1>6. CASE /\ NewsFor(p.user, p.since) = {} /\ Served' \subseteq Served /\ run'.person = None
           /\ \A u \in Users \ {p.user} : digest'[u] = digest[u]
  <2>1. owed[p.user] = {}
    BY <1>5, <1>6
  <2>2. \A u \in Users : owed[u] = {} \/ Since(digest'[u]) = Since(digest[u])
    BY <1>6, <2>1
  <2>3. \A u \in Users : owed[u] \subseteq Watched(watches[u])
    BY DEF NewsInv
  <2>4. \A u \in Users : owed'[u] = {} \/ Since(digest'[u]) <= Since(digest[u])
    BY <1>2, <1>3, <2>2
  <2> QED BY <1>2, <1>3, <1>6, <2>3, <2>4, LessOwed
<1>7. CASE /\ run'.person = p /\ run'.items \cup run'.left = NewsFor(p.user, p.since)
           /\ Served' \subseteq Served /\ UNCHANGED digest
  <2>1. owed'[run'.person.user] \ (run'.items \cup run'.left) = {}
    BY <1>2, <1>5, <1>7
  <2> QED BY <1>2, <1>7, <2>1 DEF NewsInv
<1> QED BY <1>1, <1>6, <1>7

\* What is left owed when a mail has gone is newer than its digest.
LEMMA SentNews ==
    ASSUME DigestInv, DigestInv', NewsInv, DigestSent
    PROVE  NewsInv'
<1> DEFINE u == run.person.user
<1>1. /\ UNCHANGED <<seen, updated, watches>>
      /\ u \in Users /\ owed' = [owed EXCEPT ![u] = @ \ (run.items \cup run.left)]
      /\ \A v \in Users \ {u} : digest'[v] = digest[v]
      /\ Since(digest'[u]) = run.now
      /\ run'.person = None /\ Served' \subseteq Served
  BY SentInd DEF mirror
<1>2. owed \in [Users -> SUBSET Cases] /\ \A q \in Served : q.user \in Users
  BY DEF DigestInv, DigestTypes, Served, Run, Person
<1>3. run.person # None
  BY DEF DigestSent, DigestInv, ClockInv
<1>4. /\ owed'[u] = owed[u] \ (run.items \cup run.left)
      /\ \A v \in Users \ {u} : owed'[v] = owed[v]
  BY <1>1, <1>2
<1>5. ASSUME NEW v \in Users
      PROVE  /\ owed'[v] \subseteq Watched(watches'[v])
             /\ \A c \in owed'[v] : News(c, Since(digest'[v]), seen', updated')
  <2>1. CASE v = u
    BY <1>1, <1>3, <1>4, <2>1 DEF NewsInv
  <2>2. CASE v # u
    BY <1>1, <1>4, <2>2 DEF NewsInv
  <2> QED BY <2>1, <2>2
<1>6. ASSUME NEW p \in Served', NEW c \in owed'[p.user]
      PROVE  News(c, p.since, seen', updated')
  <2>1. p \in Served /\ p.user \in Users /\ c \in owed[p.user]
    BY <1>1, <1>2, <1>4, <1>6
  <2> QED BY <1>1, <2>1 DEF NewsInv
<1> QED BY <1>1, <1>5, <1>6 DEF NewsInv

\* Who is to be served is served what is owed.
LEMMA JobBeginNews ==
    ASSUME DigestInv, NewsInv, DigestBegins
    PROVE  NewsInv'
<1>1. /\ run'.person = None /\ UNCHANGED <<seen, updated, watches, digest, owed>>
      /\ \A p \in run'.todo : p.user \in Users /\ p.since = Since(digest[p.user])
  BY JobBeginInd DEF mirror
<1>2. Served' = run'.todo
  BY <1>1 DEF Served
<1> QED BY <1>1, <1>2 DEF NewsInv

\* Every step of watches and digests keeps the news.
LEMMA DigestStepNews ==
    ASSUME DigestInv, DigestInv', NewsInv, DigestStep
    PROVE  NewsInv'
<1>1. /\ \A c \in Cases : seen[c] \in Nat /\ updated[c] \in Nat
      /\ \A u \in Users : owed[u] \subseteq Cases
      /\ \A u \in Users : Since(digest[u]) \in Nat /\ Since(digest'[u]) \in Nat
      /\ \A q \in Served : q.user \in Users
      /\ \A u \in Users : owed[u] \subseteq Watched(watches[u])
  BY DEF DigestInv, DigestTypes, Digest, Since, Served, Run, Person, NewsInv
<1>2. ASSUME UNCHANGED <<seen, updated, watches, digest, run, owed>>
      PROVE  NewsInv'
  BY <1>2 DEF NewsInv, Served
<1>3. CASE (\E c \in Cases : CityChanges(c)) \/ UpsertBegins
  BY <1>2, <1>3 DEF CityChanges, UpsertBegins
<1>4. ASSUME NEW u \in Users, NEW p \in Payloads, AddWatch(u, p)
      PROVE  NewsInv'
  <2>1. UNCHANGED <<seen, updated, digest, run, owed>>
    BY <1>4 DEF AddWatch, mirror
  <2>2. \A v \in Users : watches[v] \subseteq watches'[v]
    BY <1>4, AddInd
  <2>3. \A v \in Users : Watched(watches[v]) \subseteq Watched(watches'[v])
    BY <2>2 DEF Watched
  <2> QED BY <2>1, <2>3 DEF NewsInv, Served
<1>5. ASSUME NEW u \in Users, RemoveWatch(u)
      PROVE  NewsInv'
  <2>1. UNCHANGED <<seen, updated, digest, run>>
    BY <1>5 DEF RemoveWatch, mirror
  <2>2. /\ \A v \in Users : owed'[v] \subseteq owed[v]
        /\ owed'[u] \subseteq Watched(watches'[u])
        /\ \A v \in Users \ {u} : watches'[v] = watches[v]
    BY <1>5, RemoveInd
  <2>3. \A v \in Users : owed'[v] \subseteq owed[v] /\ owed'[v] \subseteq Watched(watches'[v])
    BY <1>1, <2>2
  <2>4. Served' = Served
    BY <2>1 DEF Served
  <2>5. \A v \in Users : owed'[v] = {} \/ Since(digest'[v]) <= Since(digest[v])
    BY <1>1, <2>1
  <2> QED BY <1>1, <2>1, <2>3, <2>4, <2>5, LessOwed
<1>6. ASSUME NEW u \in Users,
             TurnOff(u) \/ \E e \in Addresses : RequestDigest(u, e) \/ Confirm(u, e) \/ Unsubscribe(u, e)
      PROVE  NewsInv'
  <2>1. /\ owed' = [owed EXCEPT ![u] = {}] /\ UNCHANGED <<seen, updated, watches, run>>
        /\ \A v \in Users \ {u} : digest'[v] = digest[v]
    BY <1>6 DEF TurnOff, RequestDigest, Confirm, Unsubscribe, Requested, mirror,
                DigestInv, DigestTypes
  <2>2. /\ owed'[u] = {} /\ \A v \in Users \ {u} : owed'[v] = owed[v]
    BY <2>1 DEF DigestInv, DigestTypes
  <2>3. \A v \in Users : /\ owed'[v] \subseteq owed[v] /\ owed'[v] \subseteq Watched(watches'[v])
                         /\ owed'[v] = {} \/ Since(digest'[v]) <= Since(digest[v])
    <3> SUFFICES ASSUME NEW v \in Users
                 PROVE  /\ owed'[v] \subseteq owed[v] /\ owed'[v] \subseteq Watched(watches'[v])
                        /\ owed'[v] = {} \/ Since(digest'[v]) <= Since(digest[v])
      OBVIOUS
    <3>1. CASE v = u
      BY <2>2, <3>1
    <3>2. CASE v # u
      BY <1>1, <2>1, <2>2, <3>2
    <3> QED BY <3>1, <3>2
  <2>4. Served' = Served
    BY <2>1 DEF Served
  <2> QED BY <1>1, <2>1, <2>3, <2>4, LessOwed
<1>7. CASE DigestFails
  <2>1. /\ UNCHANGED <<seen, updated, watches, owed>>
        /\ \A v \in Users \ {run.person.user} : digest'[v] = digest[v]
        /\ Since(digest'[run.person.user]) <= Since(digest[run.person.user])
        /\ run'.person = None /\ Served' \subseteq Served
    BY <1>7, FailsInd DEF mirror
  <2>2. \A v \in Users : owed'[v] = {} \/ Since(digest'[v]) <= Since(digest[v])
    BY <1>1, <2>1
  <2> QED BY <1>1, <2>1, <2>2, LessOwed
<1>8. CASE DigestEnds
  <2>1. UNCHANGED <<seen, updated, watches, digest, owed>> /\ Served' = {} /\ run'.person = None
    BY <1>8, JobEndInd DEF DigestEnds, mirror
  <2> QED BY <2>1 DEF NewsInv
<1> QED BY <1>3, <1>4, <1>5, <1>6, <1>7, <1>8, CommitNews, FeedsNews, SentNews, JobBeginNews
        DEF DigestStep

-----------------------------------------------------------------------------
(* The inductive invariant                                                 *)

IInv == LinkTypes /\ PhoneTypes /\ ToldInv /\ DigestInv

\* At first there are no phones.
LEMMA InitPhones == Init => PhoneTypes
<1> SUFFICES ASSUME Init PROVE PhoneTypes
  OBVIOUS
<1>1. devices = [u \in Users |-> <<>>] /\ off = {}
  BY DEF Init
<1>2. <<>> \in Seq(Tokens) /\ Len(<<>>) = 0 /\ IsInjective(<<>>) /\ ToSet(<<>>) = {}
  BY DEF IsInjective, ToSet
<1> QED BY <1>1, <1>2, TidingsAssumption DEF PhoneTypes

\* At first there are no links.
LEMMA InitLinks == Init => LinkTypes
<1> SUFFICES ASSUME Init PROVE LinkTypes
  OBVIOUS
<1>1. Quiet \in Pass
  BY DEF Quiet, Pass
<1>2. /\ status = None /\ became = [s \in Statuses |-> 0]
      /\ link = [u \in Users |-> None]
      /\ told = [u \in Users |-> [s \in Statuses |-> 0]]
      /\ verdict = [u \in Users |-> None] /\ stance = [u \in Users |-> None]
      /\ pass = [j \in Jobs |-> Quiet]
  BY DEF Init
<1> QED BY <1>1, <1>2 DEF LinkTypes

\* At first nobody has a digest, and nothing is owed.
LEMMA InitDigest == Init => DigestInv /\ NewsInv
<1> SUFFICES ASSUME Init PROVE DigestInv /\ NewsInv
  OBVIOUS
<1> DEFINE Has(confirmed, u) == \E p \in confirmed : p[1] = u
           Row(confirmed, u) ==
             IF \E p \in confirmed : p[1] = u
             THEN [NoDigest EXCEPT !.email = (CHOOSE p \in confirmed : p[1] = u)[2],
                                   !.confirmed = 1]
             ELSE NoDigest
<1>1. PICK confirmed \in SUBSET (Users \X Addresses) :
        /\ asked = {p \in confirmed : OwnEmail[p[1]] # p[2]}
        /\ digest = [u \in Users |-> Row(confirmed, u)]
  BY DEF Init
<1>2. /\ clock = 1 /\ cityAt = [c \in Cases |-> 0] /\ seen = [c \in Cases |-> 0]
      /\ updated = [c \in Cases |-> 0] /\ upsert = None
      /\ watches = [u \in Users |-> {}] /\ owed = [u \in Users |-> {}] /\ mailed = {}
      /\ proved = asked \cup {p \in Users \X Addresses : OwnEmail[p[1]] = p[2]}
      /\ run = Asleep
  BY DEF Init
<1>3. /\ Asleep \in Run /\ Served = {} /\ run.pc = "idle" /\ run.now = 0 /\ run.todo = {}
      /\ run.person = None
  BY <1>2, TidingsAssumption DEF Asleep, Run, Served
<1>4. ASSUME NEW u \in Users
      PROVE  /\ Sound(Row(confirmed, u)) /\ Row(confirmed, u).confirmed \in {0, 1}
             /\ Row(confirmed, u).sent = 0
             /\ On(Row(confirmed, u)) => <<u, Row(confirmed, u).email>> \in proved
  <2>1. CASE ~ \E p \in confirmed : p[1] = u
    <3>1. Row(confirmed, u) = NoDigest
      BY <2>1
    <3> HIDE DEF Row
    <3> QED BY <3>1, TidingsAssumption DEF NoDigest, Sound, Digest, On
  <2>2. CASE \E p \in confirmed : p[1] = u
    <3> DEFINE p == CHOOSE q \in confirmed : q[1] = u
    <3>1. p \in confirmed /\ p[1] = u
      BY <2>2
    <3>2. Row(confirmed, u) = [NoDigest EXCEPT !.email = p[2], !.confirmed = 1]
      BY <2>2
    <3> HIDE DEF p, Row
    <3>3. p[2] \in Addresses /\ p = <<u, p[2]>> /\ p \in Users \X Addresses
      BY <3>1
    <3>4. p \in proved
      BY <1>1, <1>2, <3>1, <3>3
    <3>5. Row(confirmed, u) = [email |-> p[2], confirmed |-> 1, sent |-> 0, failures |-> 0]
      BY <3>2 DEF NoDigest
    <3>6. p[2] # None /\ 1 \in 0..MaxTime /\ 0 \in 0..MaxTime /\ 0 \in 0..MaxFailures /\ MaxFailures # 0
      BY <3>3, TidingsAssumption
    <3>7. <<u, Row(confirmed, u).email>> \in proved
      BY <3>3, <3>4, <3>5
    <3> QED BY <3>3, <3>5, <3>6, <3>7 DEF Sound, Digest
  <2> QED BY <2>1, <2>2
<1> HIDE DEF Row
<1>5. asked \subseteq Users \X Addresses /\ proved \subseteq Users \X Addresses
  BY <1>1, <1>2
<1>6. \A u \in Users : OwnEmail[u] # None => <<u, OwnEmail[u]>> \in proved
  BY <1>2, TidingsAssumption
<1>7. DigestTypes
  <2>1. digest \in [Users -> Digest]
    BY <1>1, <1>4 DEF Sound
  <2>2. \A u \in Users : /\ digest[u].failures = MaxFailures => digest[u].confirmed = 0
                         /\ digest[u].email = None => digest[u].confirmed = 0
    BY <1>1, <1>4 DEF Sound
  <2>3. MaxTime \in Nat \ {0}
    BY TidingsAssumption
  <2> QED BY <1>2, <1>3, <1>5, <2>1, <2>2, <2>3 DEF DigestTypes
<1>8. ProvedInv
  BY <1>1, <1>2, <1>3, <1>4, <1>6 DEF ProvedInv
<1>9. ClockInv
  <2>1. \A u \in Users : digest[u].confirmed <= clock /\ digest[u].sent <= clock
    <3> SUFFICES ASSUME NEW u \in Users PROVE digest[u].confirmed <= 1 /\ digest[u].sent <= 1
      BY <1>2
    <3>1. digest[u].confirmed \in {0, 1} /\ digest[u].sent = 0
      BY <1>1, <1>4
    <3> QED BY <3>1
  <2>2. run.now <= clock /\ run.pc # "send"
    BY <1>2, <1>3
  <2> QED BY <1>2, <1>3, <2>1, <2>2 DEF ClockInv
<1>10. NewsInv
  BY <1>2, <1>3 DEF NewsInv
<1> QED BY <1>7, <1>8, <1>9, <1>10 DEF DigestInv

\* The invariant holds at first.
LEMMA InitIInv == Init => IInv
BY InitLinks, InitPhones, InitToldInv, InitDigest DEF IInv

\* What the digest's invariant is about, unchanged, keeps it.
LEMMA DigestUnchanged ==
    ASSUME DigestInv, UNCHANGED digests
    PROVE  DigestInv'
<1>1. DigestTypes'
  BY DEF DigestInv, DigestTypes, digests, mirror
<1>2. ProvedInv' /\ ClockInv'
  BY DEF DigestInv, ProvedInv, ClockInv, Served, digests, mirror
<1> QED BY <1>1, <1>2 DEF DigestInv

\* What the links' invariant is about, unchanged, keeps it.
LEMMA LinksUnchanged ==
    ASSUME LinkTypes, PhoneTypes, ToldInv, UNCHANGED <<links, phones, pass>>
    PROVE  LinkTypes' /\ PhoneTypes' /\ ToldInv'
<1>1. UNCHANGED <<status, became, link, told, verdict, stance, devices, off, pass>>
  BY DEF links, phones
<1> QED BY <1>1 DEF LinkTypes, PhoneTypes, ToldInv

\* Every step keeps the invariant.
LEMMA StepIInv == IInv /\ [Next]_vars => IInv'
<1> SUFFICES ASSUME IInv, [Next]_vars PROVE IInv'
  OBVIOUS
<1>1. CASE LinkStep
  BY <1>1, LinkStepInd, DigestUnchanged DEF IInv
<1>2. CASE DigestStep
  BY <1>2, DigestStepInd, DigestStepLeaves, LinksUnchanged DEF IInv
<1>3. CASE UNCHANGED vars
  BY <1>3, DigestUnchanged, LinksUnchanged DEF IInv, vars
<1> QED BY <1>1, <1>2, <1>3 DEF Next

\* The invariant holds in every reachable state, whatever the accounts, phones, passes,
\* cases and addresses.
THEOREM Invariance == Spec => []IInv
BY InitIInv, StepIInv, PTL DEF Spec

\* Every reachable state is well-typed: a phone is one account's, an account has at
\* most MAX_DEVICES of them, and a digest that failed MAX_FAILURES times is off.
THEOREM TypeCorrect == Spec => []TypeOK
<1>1. IInv => TypeOK
  BY TypesSplit DEF IInv, DigestInv
<1> QED BY <1>1, Invariance, PTL

\* For any number of jobs, people and statuses, and however their passes overlap
\* with links that come and go: while the City comes back to no status, nobody is
\* told of one twice.
THEOREM OneTelling == Spec => []ToldOnce
<1>1. IInv => ToldOnce
  <2> SUFFICES ASSUME IInv, \A s \in Statuses : became[s] <= 1,
                      NEW u \in Users, NEW s \in Statuses
               PROVE  told[u][s] <= 1
    BY DEF ToldOnce
  <2>1. PICK rank \in [Statuses -> Nat] : OrderedIn(rank, status, became, link, told, pass)
    BY DEF IInv, ToldInv
  <2>2. told[u][s] \in Nat
    BY DEF IInv, LinkTypes
  <2>3. told[u][s] > 0 => told[u][s] = 1
    BY <2>1 DEF OrderedIn
  <2> QED BY <2>2, <2>3
<1> QED BY <1>1, Invariance, PTL

\* Whatever addresses accounts ask for and whichever old links are opened, no digest
\* goes, or is about to go, to an address that was not proved to be the account's.
THEOREM ProvedOnly == Spec => []DigestOnlyProved
<1>1. IInv => DigestOnlyProved
  BY DEF IInv, DigestInv, ProvedInv, DigestOnlyProved, Served
<1> QED BY <1>1, Invariance, PTL

\* A step that leaves the digest alone keeps the news.
LEMMA StepNews ==
    IInv /\ IInv' /\ NewsInv /\ [Next]_vars => NewsInv'
<1> SUFFICES ASSUME IInv, IInv', NewsInv, [Next]_vars PROVE NewsInv'
  OBVIOUS
<1>1. ASSUME UNCHANGED digests PROVE NewsInv'
  BY <1>1 DEF NewsInv, Served, digests, mirror
<1>2. CASE LinkStep
  BY <1>1, <1>2, LinkStepInd DEF IInv
<1>3. CASE DigestStep
  BY <1>3, DigestStepNews DEF IInv
<1>4. CASE UNCHANGED vars
  BY <1>1, <1>4 DEF vars
<1> QED BY <1>2, <1>3, <1>4 DEF Next

\* Whatever mails fail and jobs are killed, and whatever comes while a digest is on its
\* way, the news that is owed to a person is what their next digest finds.
THEOREM NewsAwaits == Spec => []NewsIsKept
<1>1. NewsInv => NewsIsKept
  BY DEF NewsInv, News, NewsIsKept
<1>2. Init => NewsInv
  BY InitDigest
<1>3. IInv /\ IInv' /\ NewsInv /\ [Next]_vars => NewsInv'
  BY StepNews
<1> QED BY <1>1, <1>2, <1>3, Invariance, PTL DEF Spec
=============================================================================
