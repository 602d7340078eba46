--------------------------- MODULE AccountsProofs ---------------------------
(***************************************************************************)
(* Proofs about Accounts for any number of people, devices, administrators *)
(* and codes.                                                              *)
(***************************************************************************)
EXTENDS Accounts, TLAPS

\* What a sign-in under way may still rely on when it commits: the account it
\* read, if it is still there, is the one its identity was entitled to, and was
\* not disabled behind its back unnoticed.
SignInv ==
    \A d \in Devices : signing[d] # None =>
        /\ signing[d].user = None => signing[d].link
        /\ signing[d].user # None =>
              /\ signing[d].user \in spent
              /\ signing[d].link => signing[d].uid \in Verified
        /\ signing[d].user \in Known =>
              /\ signing[d].link => users[signing[d].user].email = EmailOf[signing[d].uid]
              /\ users[signing[d].user].disabled => signing[d].disabled \/ signing[d].overlapped

\* An invited address is only ever linked to the identity verified to be it.
LinkInv ==
    \A i \in Known :
        users[i].email # None /\ users[i].uid # None =>
            /\ users[i].uid \in Verified /\ EmailOf[users[i].uid] = users[i].email

AccountInv == SignInv /\ DisabledHasNoSession /\ LinkInv

\* A count nobody has overtaken still stands.
StaffInv ==
    \A t \in Staff : staff[t] # None /\ ~staff[t].stale => Others(staff[t].user) # {}

\* The row is of the newest code, and a redeem that holds it holds it alone.
CodeInv ==
    /\ code.id = codes
    /\ \A c \in 1..MaxCodes :
          /\ c > codes => handed[c] = 0 /\ guessed[c] = 0
          /\ c = codes => guessed[c] = code.wrong /\ (~code.used => handed[c] = 0)
    /\ \A d \in Devices : redeeming[d] # None =>
          /\ redeeming[d].row.id = codes /\ codes # 0
          /\ code.wrong < MaxWrong /\ ~code.used
          /\ \A e \in Devices \ {d} : redeeming[e] = None

IInv == TypeOK /\ AccountInv /\ StaffInv /\ CodeInv

\* A row is never mistaken for no row.
LEMMA UserIsARow ==
  ASSUME NEW e \in Emails \cup {None}, NEW u \in Uids \cup {None}, NEW r \in {"user", "admin"},
         NEW b \in BOOLEAN
  PROVE  /\ User(e, u, r, b) \in Rows
         /\ User(e, u, r, b) # None
  <1>1. User(e, u, r, b) \in Rows
    BY DEF User, Rows
  <1>2. QED
    BY <1>1, AccountsAssumption

\* An id that was not given out belongs to nobody.
LEMMA FreshId ==
  ASSUME TypeOK, spent # Ids
  PROVE  LET i == CHOOSE j \in Ids \ spent : TRUE
         IN  i \in Ids /\ i \notin spent /\ users[i] = None
  BY DEF TypeOK, Known

\* The invariant holds at first.
LEMMA InitIInv == Init => IInv
  <1> SUFFICES ASSUME Init PROVE IInv
    OBVIOUS
  <1> USE AccountsAssumption DEF Init
  <1> DEFINE e == CHOOSE e \in Emails : TRUE
  <1>1. /\ users \in [Ids -> Rows \cup {None}]
        /\ \A i \in Ids \ {First} : users[i] = None
        /\ users[First] = User(e, None, "admin", FALSE) /\ users[First] # None
    BY UserIsARow
  <1>2. Known = {First}
    BY <1>1 DEF Known
  <1>3. TypeOK
    <2>1. session \in [Devices -> [user : Ids \cup {None}, live : BOOLEAN, overlapped : BOOLEAN]]
      BY Zenon DEF NoSession
    <2>2. code \in Codes
      BY DEF NoRow, Codes
    <2>3. /\ Known \subseteq spent /\ spent \subseteq Ids
          /\ \A i, j \in Known : i = j
          /\ \A d \in Devices : ~session[d].live
      BY <1>2 DEF NoSession
    <2>4. /\ signing \in [Devices -> SignIns \cup {None}]
          /\ staff \in [Staff -> Removals \cup {None}]
          /\ redeeming \in [Devices -> Redeems \cup {None}]
          /\ handed \in [1..MaxCodes -> Nat] /\ guessed \in [1..MaxCodes -> Nat]
          /\ codes \in 0..MaxCodes
      OBVIOUS
    <2> HIDE DEF Init
    <2>5. QED
      BY <1>1, <2>1, <2>2, <2>3, <2>4 DEF TypeOK
  <1>4. AccountInv
    BY <1>1, <1>2 DEF AccountInv, SignInv, DisabledHasNoSession, LinkInv, NoSession, User
  <1>5. StaffInv
    BY DEF StaffInv
  <1>6. CodeInv
    BY DEF CodeInv, NoRow
  <1>7. QED
    BY <1>3, <1>4, <1>5, <1>6 DEF IInv

-----------------------------------------------------------------------------
(* Signing in                                                              *)

\* The fields of what a sign-in has read.
LEMMA SigningFields ==
  ASSUME TypeOK, NEW d \in Devices, signing[d] # None
  PROVE  /\ signing[d] \in SignIns
         /\ signing[d].uid \in Uids
         /\ signing[d].user \in Ids \cup {None}
  BY DEF TypeOK, SignIns

\* A sign-in's read: the account, the invitation or nobody.
LEMMA SignInReadsInd ==
  ASSUME IInv, NEW d \in Devices, NEW uid \in Uids, SignInReads(d, uid)
  PROVE  IInv'
  <1> USE AccountsAssumption DEF IInv
  <1>1. PICK i : /\ i \in IF Holding(uid) # {} THEN Holding(uid)
                         ELSE IF InvitedAs(uid) # {} THEN InvitedAs(uid) ELSE {None}
                 /\ signing' = [signing EXCEPT ![d] =
                      [uid |-> uid, user |-> i, link |-> Holding(uid) = {},
                       disabled |-> i # None /\ users[i].disabled, overlapped |-> FALSE]]
    BY DEF SignInReads
  <1> DEFINE s == [uid |-> uid, user |-> i, link |-> Holding(uid) = {},
                   disabled |-> i # None /\ users[i].disabled, overlapped |-> FALSE]
  <1>2. i \in Known \cup {None}
    BY <1>1 DEF Holding, InvitedAs
  <1>3. s \in SignIns /\ s # None
    <2>1. (Holding(uid) = {}) \in BOOLEAN /\ (i # None /\ users[i].disabled) \in BOOLEAN
      BY Zenon
    <2>2. i \in Ids \cup {None}
      BY <1>2 DEF Known
    <2>3. s \in SignIns
      BY <2>1, <2>2, Zenon DEF SignIns
    <2>4. QED
      BY <2>3
  <1>4. /\ signing' = [signing EXCEPT ![d] = s]
        /\ UNCHANGED <<users, spent, session, staff, mails>> /\ Known' = Known /\ Admins' = Admins
    BY <1>1 DEF SignInReads, Known, Admins
  <1> HIDE DEF s
  <1>5. signing' \in [Devices -> SignIns \cup {None}]
    BY <1>3, <1>4 DEF TypeOK
  <1>6. TypeOK'
    BY <1>4, <1>5 DEF TypeOK, mails
  <1>7. AccountInv'
    <2>1. /\ s.uid = uid /\ s.user = i /\ s.link = (Holding(uid) = {})
          /\ s.disabled = (i # None /\ users[i].disabled)
      BY DEF s
    <2>2. i = None => Holding(uid) = {}
      BY <1>1, <1>2 DEF Holding, Known
    <2>3. i # None /\ Holding(uid) = {} => uid \in Verified /\ users[i].email = EmailOf[uid]
      BY <1>1 DEF InvitedAs
    <2>4. \A e \in Devices : signing'[e] = IF e = d THEN s ELSE signing[e]
      BY <1>4 DEF TypeOK
    <2>5. SignInv'
      BY <1>2, <1>3, <1>4, <2>1, <2>2, <2>3, <2>4 DEF SignInv, AccountInv, TypeOK
    <2>6. QED
      BY <1>4, <2>5 DEF AccountInv, DisabledHasNoSession, LinkInv
  <1>8. StaffInv' /\ CodeInv'
    BY <1>4 DEF StaffInv, CodeInv, Others, mails
  <1>9. QED
    BY <1>6, <1>7, <1>8

\* A sign-in's commit: a link or a new account, and a session.
LEMMA SignInCommitsInd ==
  ASSUME IInv, NEW d \in Devices, SignInCommits(d)
  PROVE  IInv'
  <1> USE AccountsAssumption DEF IInv
  <1> DEFINE s == signing[d]
             i == IF s.user = None THEN CHOOSE j \in Ids \ spent : TRUE ELSE s.user
             refused == (s.link /\ Holding(s.uid) \ {i} # {})
                        \/ (s.user # None /\ users[s.user] = None)
             row == IF s.user = None THEN User(None, s.uid, "user", FALSE)
                    ELSE IF s.link THEN [users[i] EXCEPT !.uid = s.uid] ELSE users[i]
  <1>1. /\ s \in SignIns /\ s.uid \in Uids /\ s.user \in Ids \cup {None}
        /\ i \in Ids
        /\ s.user = None => i \notin spent /\ users[i] = None
        /\ s.user # None => i = s.user
    BY SigningFields, FreshId DEF SignInCommits
  <1>2. /\ signing[d] # None
        /\ signing' = [signing EXCEPT ![d] = None]
        /\ UNCHANGED <<staff, mails>>
        /\ \/ refused /\ UNCHANGED <<users, spent, session>>
           \/ /\ ~refused
              /\ users' = [users EXCEPT ![i] = row]
              /\ spent' = spent \cup {i}
              /\ session' = IF s.disabled THEN session
                            ELSE [session EXCEPT ![d] =
                                     [user |-> i, live |-> TRUE, overlapped |-> s.overlapped]]
    BY DEF SignInCommits
  <1> HIDE DEF i, row, refused
  <1>3. CodeInv'
    BY <1>2 DEF CodeInv, mails
  <1>4. CASE refused /\ UNCHANGED <<users, spent, session>>
    <2>1. TypeOK'
      BY <1>2, <1>4 DEF TypeOK, Known, mails
    <2>2. AccountInv'
      BY <1>2, <1>4 DEF TypeOK, AccountInv, SignInv, DisabledHasNoSession, LinkInv, Known
    <2>3. StaffInv'
      BY <1>2, <1>4 DEF StaffInv, Others, Admins, Known
    <2>4. QED
      BY <1>3, <2>1, <2>2, <2>3
  <1>5. CASE /\ ~refused
             /\ users' = [users EXCEPT ![i] = row]
             /\ spent' = spent \cup {i}
             /\ session' = IF s.disabled THEN session
                           ELSE [session EXCEPT ![d] =
                                    [user |-> i, live |-> TRUE, overlapped |-> s.overlapped]]
    <2>1. /\ row \in Rows /\ row # None
          /\ s.user = None => row.email = None /\ ~row.disabled /\ row.role = "user"
          /\ s.user # None => /\ row.email = users[i].email /\ row.role = users[i].role
                              /\ row.disabled = users[i].disabled
          /\ row.uid = IF s.user = None \/ s.link THEN s.uid ELSE users[i].uid
      <3>1. CASE s.user = None
        BY <1>1, <3>1, UserIsARow DEF User, row
      <3>2. CASE s.user # None
        <4>1. users[i] \in Rows
          BY <1>1, <1>5, <3>2 DEF TypeOK, refused
        <4>2. [users[i] EXCEPT !.uid = s.uid] \in Rows
          BY <1>1, <4>1 DEF Rows
        <4>3. row \in Rows
          BY <3>2, <4>1, <4>2 DEF row
        <4>4. QED
          BY <1>1, <3>2, <4>1, <4>3 DEF Rows, row
      <3>3. QED
        BY <3>1, <3>2
    <2>2. s.user # None => users[i] # None
      BY <1>1, <1>5 DEF refused
    <2>3. /\ \A j \in Ids : users'[j] = IF j = i THEN row ELSE users[j]
          /\ Known' = Known \cup {i}
          /\ Admins \subseteq Admins'
      BY <1>1, <1>5, <2>1, <2>2 DEF TypeOK, Known, Admins
    <2>4. \A j \in Known \ {i} : users[j].uid # row.uid \/ row.uid = None
      <3>1. CASE s.user = None \/ s.link
        <4>1. s.link
          BY <1>2, <3>1 DEF AccountInv, SignInv
        <4>2. QED
          BY <1>5, <2>1, <3>1, <4>1 DEF Holding, refused
      <3>2. CASE ~(s.user = None \/ s.link)
        BY <1>1, <2>1, <2>2, <3>2 DEF TypeOK, Known
      <3>3. QED
        BY <3>1, <3>2
    <2>5. \A j \in Known \ {i} : users[j].email # row.email \/ row.email = None
      BY <1>1, <2>1, <2>2 DEF TypeOK, Known
    <2>6. \A j, k \in Known' : j # k =>
            /\ users'[j].email = users'[k].email => users'[j].email = None
            /\ users'[j].uid = users'[k].uid => users'[j].uid = None
      <3> SUFFICES ASSUME NEW j \in Known', NEW k \in Known', j # k
                   PROVE  /\ users'[j].email = users'[k].email => users'[j].email = None
                          /\ users'[j].uid = users'[k].uid => users'[j].uid = None
        OBVIOUS
      <3>1. /\ j \in Ids /\ k \in Ids
            /\ j # i => j \in Known /\ users'[j] = users[j]
            /\ k # i => k \in Known /\ users'[k] = users[k]
            /\ j = i => users'[j] = row
            /\ k = i => users'[k] = row
        BY <2>3 DEF Known
      <3>2. CASE j = i \/ k = i
        BY <2>1, <2>4, <2>5, <3>1, <3>2
      <3>3. CASE j # i /\ k # i
        BY <3>1, <3>3 DEF TypeOK
      <3>4. QED
        BY <3>2, <3>3
    <2>7. session' \in [Devices -> [user : Ids \cup {None}, live : BOOLEAN, overlapped : BOOLEAN]]
      <3>1. s.overlapped \in BOOLEAN
        BY <1>1 DEF SignIns
      <3>2. [user |-> i, live |-> TRUE, overlapped |-> s.overlapped]
              \in [user : Ids \cup {None}, live : BOOLEAN, overlapped : BOOLEAN]
        BY <1>1, <3>1, Zenon
      <3>3. QED
        BY <1>5, <3>2 DEF TypeOK
    <2>8. /\ s.disabled => session' = session
          /\ ~s.disabled => \A e \in Devices : session'[e] =
                IF e = d THEN [user |-> i, live |-> TRUE, overlapped |-> s.overlapped]
                ELSE session[e]
      BY <1>5 DEF TypeOK
    <2>9. \A e \in Devices : session'[e].live => session'[e].user \in Known'
      <3> TAKE e \in Devices
      <3>1. CASE e = d /\ ~s.disabled
        <4>1. session'[e].user = i
          BY <2>8, <3>1
        <4>2. QED
          BY <2>3, <4>1
      <3>2. CASE ~(e = d /\ ~s.disabled)
        <4>1. session'[e] = session[e]
          BY <2>8, <3>2
        <4>2. QED
          BY <2>3, <4>1 DEF TypeOK
      <3>3. QED
        BY <3>1, <3>2
    <2>10. TypeOK'
      <3>1. users' \in [Ids -> Rows \cup {None}] /\ Known' \subseteq spent' /\ spent' \subseteq Ids
        BY <1>1, <1>5, <2>1, <2>3 DEF TypeOK
      <3>2. signing' \in [Devices -> SignIns \cup {None}]
        BY <1>2 DEF TypeOK
      <3>3. QED
        BY <1>2, <2>6, <2>7, <2>9, <3>1, <3>2 DEF TypeOK, mails
    <2>11. SignInv'
      <3> SUFFICES ASSUME NEW e \in Devices, NEW r, r = signing[e], signing'[e] # None
                   PROVE  /\ signing'[e] = r
                          /\ r.user = None => r.link
                          /\ r.user # None => r.user \in spent' /\ (r.link => r.uid \in Verified)
                          /\ r.user \in Known' =>
                               /\ r.link => users'[r.user].email = EmailOf[r.uid]
                               /\ users'[r.user].disabled => r.disabled \/ r.overlapped
        BY DEF SignInv
      <3>0. signing'[e] = r
        BY <1>2 DEF TypeOK
      <3>1. r # None
        BY <1>2 DEF TypeOK
      <3>2. /\ r.user = None => r.link
            /\ r.user # None => r.user \in spent /\ (r.link => r.uid \in Verified)
            /\ r.user \in Known =>
                  /\ r.link => users[r.user].email = EmailOf[r.uid]
                  /\ users[r.user].disabled => r.disabled \/ r.overlapped
        BY <3>1 DEF AccountInv, SignInv
      <3>3. r.user \in Known' => /\ r.user \in Known
                                 /\ users'[r.user].email = users[r.user].email
                                 /\ users'[r.user].disabled = users[r.user].disabled
        <4>1. CASE r.user = i
          BY <1>1, <2>1, <2>2, <2>3, <3>2, <4>1 DEF Known
        <4>2. CASE r.user # i
          BY <2>3, <4>2 DEF Known
        <4>3. QED
          BY <4>1, <4>2
      <3>4. QED
        BY <1>5, <3>0, <3>2, <3>3
    <2>12. DisabledHasNoSession'
      <3> SUFFICES ASSUME NEW e \in Devices, session'[e].live
                   PROVE  /\ session'[e].user \in Known'
                          /\ users'[session'[e].user].disabled => session'[e].overlapped
        BY DEF DisabledHasNoSession
      <3>1. CASE e = d /\ ~s.disabled
        <4>1. session'[e].user = i /\ session'[e].overlapped = s.overlapped
          BY <2>8, <3>1
        <4>2. i \in Known' /\ users'[i] = row
          BY <1>1, <2>3
        <4>3. row.disabled => s.overlapped
          BY <1>1, <1>2, <2>1, <2>2, <3>1 DEF AccountInv, SignInv, Known
        <4>4. QED
          BY <4>1, <4>2, <4>3
      <3>2. CASE ~(e = d /\ ~s.disabled)
        <4>1. session'[e] = session[e] /\ session[e].user \in Known
          BY <2>8, <3>2 DEF TypeOK
        <4>2. users'[session[e].user].disabled = users[session[e].user].disabled
          BY <1>1, <2>1, <2>3, <4>1 DEF Known, TypeOK
        <4>3. QED
          BY <2>3, <4>1, <4>2 DEF AccountInv, DisabledHasNoSession
      <3>3. QED
        BY <3>1, <3>2
    <2>13. LinkInv'
      <3>1. row.email # None /\ row.uid # None => row.uid \in Verified /\ EmailOf[row.uid] = row.email
        BY <1>1, <1>2, <2>1, <2>2 DEF AccountInv, SignInv, LinkInv, Known
      <3>2. QED
        BY <2>3, <3>1 DEF AccountInv, LinkInv, Known
    <2>14. StaffInv'
      BY <1>2, <2>3 DEF StaffInv, Others
    <2>15. QED
      BY <1>3, <2>10, <2>11, <2>12, <2>13, <2>14 DEF AccountInv
  <1>6. QED
    BY <1>2, <1>4, <1>5

\* An account that is not touched keeps what the invariant says of it.
LEMMA SessionsEnd ==
  ASSUME IInv, UNCHANGED <<users, spent, signing, staff, mails>>,
         \A d \in Devices : session'[d] \in {session[d], NoSession},
         session' \in [Devices -> [user : Ids \cup {None}, live : BOOLEAN, overlapped : BOOLEAN]]
  PROVE  IInv'
  <1>1. Known' = Known /\ Admins' = Admins
    BY DEF Known, Admins
  <1>2. \A d \in Devices : session'[d].live => session'[d] = session[d]
    BY DEF NoSession
  <1>3. TypeOK'
    BY <1>1, <1>2 DEF IInv, TypeOK, mails
  <1>4. AccountInv'
    BY <1>1, <1>2 DEF IInv, AccountInv, SignInv, DisabledHasNoSession, LinkInv
  <1>5. StaffInv' /\ CodeInv'
    BY <1>1 DEF IInv, StaffInv, CodeInv, Others, mails
  <1>6. QED
    BY <1>3, <1>4, <1>5 DEF IInv

\* A device without a session is well-typed.
LEMMA NoSessionIsOne == NoSession \in [user : Ids \cup {None}, live : BOOLEAN, overlapped : BOOLEAN]
  BY Zenon DEF NoSession

\* What is left when the sessions of an account are ended.
LEMMA RevokedSessions ==
  ASSUME TypeOK, NEW i
  PROVE  /\ Revoked(i) \in [Devices -> [user : Ids \cup {None}, live : BOOLEAN, overlapped : BOOLEAN]]
         /\ \A d \in Devices : /\ Revoked(i)[d] \in {session[d], NoSession}
                               /\ Revoked(i)[d].live => /\ Revoked(i)[d] = session[d]
                                                        /\ session[d].user # i
  <1>1. \A d \in Devices : Revoked(i)[d] = IF session[d].user = i THEN NoSession ELSE session[d]
    BY DEF Revoked
  <1>2. QED
    BY <1>1, NoSessionIsOne DEF Revoked, TypeOK, NoSession

\* Signing out, here or everywhere.
LEMMA LogoutInd ==
  ASSUME IInv, NEW d \in Devices, Logout(d) \/ LogoutAll(d)
  PROVE  IInv'
  <1>1. CASE Logout(d)
    <2>1. session' \in [Devices -> [user : Ids \cup {None}, live : BOOLEAN, overlapped : BOOLEAN]]
      BY <1>1, NoSessionIsOne DEF Logout, IInv, TypeOK
    <2>2. \A e \in Devices : session'[e] \in {session[e], NoSession}
      BY <1>1 DEF Logout, IInv, TypeOK
    <2>3. QED
      BY <1>1, <2>1, <2>2, SessionsEnd DEF Logout
  <1>2. CASE LogoutAll(d)
    BY <1>2, RevokedSessions, SessionsEnd DEF LogoutAll, IInv
  <1>3. QED
    BY <1>1, <1>2

-----------------------------------------------------------------------------
(* Administrators                                                          *)

\* An administrator invites an address.
LEMMA InviteInd ==
  ASSUME IInv, NEW email \in Emails, NEW role \in {"user", "admin"}, Invite(email, role)
  PROVE  IInv'
  <1> USE AccountsAssumption DEF IInv
  <1>1. PICK i \in Ids \ spent, beside \in BOOLEAN :
          /\ users' = [users EXCEPT ![i] = User(email, None, role, beside)]
          /\ spent' = spent \cup {i}
    BY DEF Invite
  <1>2. /\ \A j \in Known : users[j].email # email
        /\ UNCHANGED <<session, signing, staff, mails>>
    BY DEF Invite
  <1>3. i \notin Known
    BY DEF TypeOK
  <1> DEFINE row == User(email, None, role, beside)
  <1>4. /\ row \in Rows /\ row # None
        /\ row.email = email /\ row.uid = None /\ row.disabled = FALSE
    BY UserIsARow DEF User
  <1> HIDE DEF row
  <1>5. /\ users'[i] = row /\ \A j \in Ids \ {i} : users'[j] = users[j]
        /\ Known' = Known \cup {i}
        /\ \A j \in Known : j # i /\ users'[j] = users[j]
        /\ Admins \subseteq Admins'
    BY <1>1, <1>3, <1>4 DEF TypeOK, Known, Admins, row
  <1>6. TypeOK'
    <2>1. users' \in [Ids -> Rows \cup {None}] /\ Known' \subseteq spent' /\ spent' \subseteq Ids
      BY <1>1, <1>4, <1>5 DEF TypeOK, row
    <2>2. \A j, k \in Known' : j # k =>
            /\ users'[j].email = users'[k].email => users'[j].email = None
            /\ users'[j].uid = users'[k].uid => users'[j].uid = None
      BY <1>2, <1>4, <1>5 DEF TypeOK
    <2>3. QED
      BY <1>2, <1>5, <2>1, <2>2 DEF TypeOK, mails
  <1>7. SignInv'
    <2>1. \A d \in Devices : signing[d] # None => signing[d].user # i
      BY <1>1, SigningFields DEF AccountInv, SignInv
    <2>2. QED
      BY <1>1, <1>2, <1>5, <2>1 DEF AccountInv, SignInv
  <1>8. DisabledHasNoSession' /\ LinkInv'
    BY <1>2, <1>4, <1>5 DEF AccountInv, DisabledHasNoSession, LinkInv
  <1>9. StaffInv' /\ CodeInv'
    BY <1>2, <1>5 DEF StaffInv, CodeInv, Others, mails
  <1>10. QED
    BY <1>6, <1>7, <1>8, <1>9 DEF AccountInv

\* An administrator enables an account.
LEMMA EnableInd ==
  ASSUME IInv, NEW i \in Ids, Enable(i)
  PROVE  IInv'
  <1> USE AccountsAssumption DEF IInv
  <1> DEFINE row == [users[i] EXCEPT !.disabled = FALSE]
  <1>1. /\ i \in Known /\ users' = [users EXCEPT ![i] = row]
        /\ UNCHANGED <<spent, session, signing, staff, mails>>
    BY DEF Enable
  <1>2. users[i] \in Rows /\ row \in Rows /\ row # None
    <2>1. users[i] \in Rows
      BY <1>1 DEF Known, TypeOK
    <2>2. row \in Rows
      BY <2>1 DEF Rows
    <2>3. QED
      BY <2>1, <2>2
  <1>3. /\ row.email = users[i].email /\ row.uid = users[i].uid /\ row.role = users[i].role
        /\ row.disabled = FALSE
    BY <1>2 DEF Rows
  <1> HIDE DEF row
  <1>4. /\ users'[i] = row /\ \A j \in Ids \ {i} : users'[j] = users[j]
        /\ Known' = Known
        /\ Admins \subseteq Admins'
    BY <1>1, <1>2, <1>3 DEF TypeOK, Known, Admins
  <1>5. \A j \in Known :
          /\ users'[j].email = users[j].email /\ users'[j].uid = users[j].uid
          /\ users'[j].disabled => users[j].disabled
    BY <1>3, <1>4 DEF Known
  <1>6. TypeOK'
    <2>1. users' \in [Ids -> Rows \cup {None}]
      BY <1>1, <1>2 DEF TypeOK
    <2>2. QED
      BY <1>1, <1>4, <1>5, <2>1 DEF TypeOK, mails
  <1>7. AccountInv'
    BY <1>1, <1>4, <1>5 DEF AccountInv, SignInv, DisabledHasNoSession, LinkInv
  <1>8. StaffInv' /\ CodeInv'
    BY <1>1, <1>4 DEF StaffInv, CodeInv, Others, mails
  <1>9. QED
    BY <1>6, <1>7, <1>8

\* A request counts the administrators there are.
LEMMA CountsInd ==
  ASSUME IInv, NEW t \in Staff, NEW what \in {"delete", "disable", "block"}, NEW i \in Ids,
         Counts(t, what, i)
  PROVE  IInv'
  <1> USE AccountsAssumption DEF IInv
  <1> DEFINE task == [what |-> what, user |-> i, stale |-> FALSE]
  <1>1. /\ UNCHANGED <<users, spent, session, signing, mails>>
        /\ staff' = IF Others(i) = {} THEN staff ELSE [staff EXCEPT ![t] = task]
        /\ Known' = Known /\ Admins' = Admins
    BY DEF Counts, Known, Admins
  <1>2. task \in Removals
    BY Zenon DEF Removals
  <1>3. task.user = i
    OBVIOUS
  <1> HIDE DEF task
  <1>4. TypeOK'
    <2>1. staff' \in [Staff -> Removals \cup {None}]
      BY <1>1, <1>2 DEF TypeOK
    <2>2. QED
      BY <1>1, <2>1 DEF TypeOK, mails
  <1>5. StaffInv'
    <2>1. \A u \in Staff : staff'[u] = staff[u] \/ (staff'[u] = task /\ Others(i) # {})
      BY <1>1 DEF TypeOK
    <2>2. QED
      BY <1>1, <1>3, <2>1 DEF StaffInv, Others
  <1>6. AccountInv' /\ CodeInv'
    BY <1>1 DEF AccountInv, SignInv, DisabledHasNoSession, LinkInv, CodeInv, mails
  <1>7. QED
    BY <1>4, <1>5, <1>6

\* A removal overtakes every other count, when it removes an administrator.
LEMMA StalesInd ==
  ASSUME IInv, NEW t \in Staff, NEW i \in Ids, Stales(t, i),
         Admins' = Admins \ {i}
  PROVE  staff' \in [Staff -> Removals \cup {None}] /\ StaffInv'
  <1> USE AccountsAssumption DEF IInv
  <1>1. \A u \in Staff : staff[u] # None => staff[u] \in Removals
    BY DEF TypeOK
  <1>2. \A u \in Staff : staff[u] # None =>
          [staff[u] EXCEPT !.stale = @ \/ i \in Admins] \in Removals
    <2> SUFFICES ASSUME NEW u \in Staff, staff[u] # None
                 PROVE  [staff[u] EXCEPT !.stale = @ \/ i \in Admins] \in Removals
      OBVIOUS
    <2>1. (staff[u].stale \/ i \in Admins) \in BOOLEAN
      BY Zenon
    <2>2. QED
      BY <1>1, <2>1 DEF Removals
  <1>3. staff' \in [Staff -> Removals \cup {None}]
    BY <1>2 DEF Stales
  <1>4. \A u \in Staff : staff'[u] # None /\ ~staff'[u].stale =>
          /\ staff[u] # None /\ ~staff[u].stale /\ i \notin Admins
          /\ staff'[u].user = staff[u].user
    <2> SUFFICES ASSUME NEW u \in Staff, staff'[u] # None, ~staff'[u].stale
                 PROVE  /\ staff[u] # None /\ ~staff[u].stale /\ i \notin Admins
                        /\ staff'[u].user = staff[u].user
      OBVIOUS
    <2>1. staff[u] # None /\ staff'[u] = [staff[u] EXCEPT !.stale = @ \/ i \in Admins]
      BY DEF Stales
    <2>2. staff[u] \in Removals
      BY <1>1, <2>1
    <2>3. staff'[u].stale = (staff[u].stale \/ i \in Admins) /\ staff'[u].user = staff[u].user
      BY <2>1, <2>2 DEF Removals
    <2>4. QED
      BY <2>1, <2>3
  <1>5. StaffInv'
    BY <1>4 DEF StaffInv, Others
  <1>6. QED
    BY <1>3, <1>5

\* An account is disabled: its sessions go with it.
LEMMA DisableInd ==
  ASSUME IInv, NEW t \in Staff, Disable(t)
  PROVE  IInv'
  <1> USE AccountsAssumption DEF IInv
  <1>1. staff[t].user \in Ids
    BY DEF Disable, TypeOK, Removals
  <1>2. PICK i \in Ids : i = staff[t].user
    BY <1>1
  <1> DEFINE row == [users[i] EXCEPT !.disabled = TRUE]
  <1>3. /\ users' = IF users[i] = None THEN users ELSE [users EXCEPT ![i] = row]
        /\ session' = Revoked(i)
        /\ signing' = [d \in Devices |->
                          IF signing[d] # None /\ signing[d].user = i
                          THEN [signing[d] EXCEPT !.overlapped = TRUE] ELSE signing[d]]
        /\ Stales(t, i)
        /\ UNCHANGED <<spent, mails>>
    BY <1>2 DEF Disable
  <1>4. users[i] # None => /\ row \in Rows /\ row # None
                           /\ row.email = users[i].email /\ row.uid = users[i].uid
                           /\ row.role = users[i].role /\ row.disabled = TRUE
    <2> SUFFICES ASSUME users[i] # None
                 PROVE  /\ row \in Rows
                        /\ row.email = users[i].email /\ row.uid = users[i].uid
                        /\ row.role = users[i].role /\ row.disabled = TRUE
      OBVIOUS
    <2>1. users[i] \in Rows
      BY DEF TypeOK
    <2>2. QED
      BY <2>1 DEF Rows
  <1> HIDE DEF row
  <1>5. /\ users' \in [Ids -> Rows \cup {None}]
        /\ \A j \in Ids \ {i} : users'[j] = users[j]
        /\ users'[i] = IF users[i] = None THEN None ELSE row
    BY <1>3, <1>4 DEF TypeOK
  <1>6. Known' = Known /\ Admins' = Admins \ {i}
    BY <1>4, <1>5 DEF Known, Admins
  <1>7. \A j \in Known : /\ users'[j].email = users[j].email /\ users'[j].uid = users[j].uid
                         /\ users'[j].disabled => users[j].disabled \/ j = i
    BY <1>4, <1>5 DEF Known
  <1>8. \A d \in Devices : signing[d] # None =>
          /\ signing'[d] \in SignIns
          /\ signing'[d].uid = signing[d].uid /\ signing'[d].user = signing[d].user
          /\ signing'[d].link = signing[d].link /\ signing'[d].disabled = signing[d].disabled
          /\ signing[d].overlapped \/ signing[d].user = i => signing'[d].overlapped
    <2> SUFFICES ASSUME NEW d \in Devices, signing[d] # None
                 PROVE  /\ signing'[d] \in SignIns
                        /\ signing'[d].uid = signing[d].uid /\ signing'[d].user = signing[d].user
                        /\ signing'[d].link = signing[d].link
                        /\ signing'[d].disabled = signing[d].disabled
                        /\ signing[d].overlapped \/ signing[d].user = i => signing'[d].overlapped
      OBVIOUS
    <2>1. signing[d] \in SignIns
      BY SigningFields
    <2>2. CASE signing[d].user = i
      <3>1. signing'[d] = [signing[d] EXCEPT !.overlapped = TRUE]
        BY <1>3, <2>2
      <3>2. QED
        BY <2>1, <3>1 DEF SignIns
    <2>3. CASE signing[d].user # i
      <3>1. signing'[d] = signing[d]
        BY <1>3, <2>3
      <3>2. QED
        BY <2>1, <2>3, <3>1
    <2>4. QED
      BY <2>2, <2>3
  <1>9. \A d \in Devices : signing[d] = None => signing'[d] = None
    BY <1>3
  <1>10. TypeOK'
    <2>1. signing' \in [Devices -> SignIns \cup {None}]
      BY <1>3, <1>8, <1>9
    <2>2. staff' \in [Staff -> Removals \cup {None}]
      BY <1>3, <1>6, StalesInd
    <2>3. \A j, k \in Known' : j # k =>
            /\ users'[j].email = users'[k].email => users'[j].email = None
            /\ users'[j].uid = users'[k].uid => users'[j].uid = None
      <3> SUFFICES ASSUME NEW j \in Known, NEW k \in Known, j # k
                   PROVE  /\ users'[j].email = users'[k].email => users'[j].email = None
                          /\ users'[j].uid = users'[k].uid => users'[j].uid = None
        BY <1>6
      <3>1. /\ users[j].email = users[k].email => users[j].email = None
            /\ users[j].uid = users[k].uid => users[j].uid = None
        BY DEF TypeOK
      <3>2. QED
        BY <1>7, <3>1
    <2>4. /\ session' \in [Devices -> [user : Ids \cup {None}, live : BOOLEAN, overlapped : BOOLEAN]]
          /\ \A d \in Devices : session'[d].live => session'[d].user \in Known'
      <3>1. \A d \in Devices : session'[d].live => session'[d] = session[d]
        BY <1>3, RevokedSessions
      <3>2. QED
        BY <1>3, <1>6, <3>1, RevokedSessions DEF TypeOK
    <2>5. QED
      BY <1>3, <1>5, <1>6, <2>1, <2>2, <2>3, <2>4 DEF TypeOK, mails
  <1>11. SignInv'
    BY <1>3, <1>6, <1>7, <1>8, <1>9 DEF AccountInv, SignInv
  <1>12. DisabledHasNoSession'
    <2>1. \A d \in Devices : session'[d].live => session'[d] = session[d] /\ session[d].user # i
      BY <1>3, RevokedSessions
    <2>2. QED
      BY <1>6, <1>7, <2>1 DEF AccountInv, DisabledHasNoSession
  <1>13. LinkInv'
    BY <1>6, <1>7 DEF AccountInv, LinkInv
  <1>14. StaffInv' /\ CodeInv'
    BY <1>3, <1>6, StalesInd DEF CodeInv, mails
  <1>15. QED
    BY <1>10, <1>11, <1>12, <1>13, <1>14 DEF AccountInv

\* An account is deleted, and its sessions.
LEMMA DeleteInd ==
  ASSUME IInv, NEW t \in Staff, Delete(t)
  PROVE  IInv'
  <1> USE AccountsAssumption DEF IInv
  <1>1. staff[t].user \in Ids
    BY DEF Delete, TypeOK, Removals
  <1>2. PICK i \in Ids : i = staff[t].user
    BY <1>1
  <1>3. /\ users' = [users EXCEPT ![i] = None]
        /\ session' = Revoked(i)
        /\ Stales(t, i)
        /\ UNCHANGED <<spent, signing, mails>>
    BY <1>2 DEF Delete
  <1>4. /\ users' \in [Ids -> Rows \cup {None}]
        /\ \A j \in Ids \ {i} : users'[j] = users[j]
        /\ Known' = Known \ {i} /\ Admins' = Admins \ {i}
    BY <1>3 DEF TypeOK, Known, Admins
  <1>5. \A j \in Known' : j \in Known /\ users'[j] = users[j]
    BY <1>4 DEF Known
  <1>6. \A d \in Devices : session'[d].live => session'[d] = session[d] /\ session[d].user # i
    BY <1>3, RevokedSessions
  <1>7. TypeOK'
    <2>1. staff' \in [Staff -> Removals \cup {None}]
      BY <1>3, <1>4, StalesInd
    <2>2. session' \in [Devices -> [user : Ids \cup {None}, live : BOOLEAN, overlapped : BOOLEAN]]
      BY <1>3, RevokedSessions
    <2>3. QED
      BY <1>3, <1>4, <1>5, <1>6, <2>1, <2>2 DEF TypeOK, mails
  <1>8. AccountInv'
    BY <1>3, <1>4, <1>5, <1>6 DEF AccountInv, SignInv, DisabledHasNoSession, LinkInv
  <1>9. StaffInv' /\ CodeInv'
    BY <1>3, <1>4, StalesInd DEF CodeInv, mails
  <1>10. QED
    BY <1>7, <1>8, <1>9

-----------------------------------------------------------------------------
(* The codes                                                               *)

\* The steps of the sign-in codes leave the accounts alone, and CodeTypes is
\* what they have to keep of the type.
CodeTypes ==
    /\ code \in Codes
    /\ codes \in 0..MaxCodes
    /\ redeeming \in [Devices -> Redeems \cup {None}]
    /\ handed \in [1..MaxCodes -> Nat]
    /\ guessed \in [1..MaxCodes -> Nat]

\* A step that leaves the accounts alone has only the codes' invariant to keep.
LEMMA AccountsRest ==
  ASSUME IInv, UNCHANGED accounts, CodeTypes', CodeInv'
  PROVE  IInv'
  <1>1. Known' = Known /\ Admins' = Admins
    BY DEF Known, Admins, accounts
  <1>2. TypeOK'
    BY <1>1 DEF IInv, TypeOK, CodeTypes, accounts
  <1>3. AccountInv' /\ StaffInv'
    BY <1>1 DEF IInv, AccountInv, SignInv, DisabledHasNoSession, LinkInv, StaffInv,
                Others, accounts
  <1>4. QED
    BY <1>2, <1>3 DEF IInv

\* The steps of the sign-in codes.
LEMMA CodesInd ==
  ASSUME IInv,
         \/ EmailLink \/ Expires
         \/ \E d \in Devices, guess \in 0..codes : RedeemReads(d, guess)
         \/ \E d \in Devices : RedeemHands(d) \/ RedeemRefuses(d)
  PROVE  IInv'
  <1> USE AccountsAssumption DEF IInv
  <1>1. CodeTypes
    BY DEF TypeOK, CodeTypes
  <1>2. /\ code.id \in 0..MaxCodes /\ code.wrong \in 0..MaxWrong
        /\ code.used \in BOOLEAN /\ code.expired \in BOOLEAN
    BY <1>1 DEF CodeTypes, Codes
  <1>3. CASE EmailLink
    <2>1. /\ code' = [id |-> codes + 1, wrong |-> 0, used |-> FALSE, expired |-> FALSE]
          /\ codes < MaxCodes /\ codes' = codes + 1
          /\ \A d \in Devices : redeeming[d] = None
          /\ UNCHANGED <<redeeming, handed, guessed, accounts>>
      BY <1>3 DEF EmailLink, Issued, NoRow
    <2>2. code' \in Codes
      BY <1>1, <2>1 DEF CodeTypes, Codes
    <2>3. CodeTypes'
      BY <1>1, <2>1, <2>2 DEF CodeTypes
    <2>4. CodeInv'
      BY <1>1, <2>1 DEF CodeTypes, CodeInv
    <2>5. QED
      BY <2>1, <2>3, <2>4, AccountsRest
  <1>4. CASE Expires
    <2>1. /\ code' = [code EXCEPT !.expired = TRUE]
          /\ UNCHANGED <<codes, redeeming, handed, guessed, accounts>>
      BY <1>4 DEF Expires
    <2>2. /\ code' \in Codes /\ code'.id = code.id /\ code'.wrong = code.wrong
          /\ code'.used = code.used
      BY <1>1, <2>1 DEF CodeTypes, Codes
    <2>3. CodeTypes' /\ CodeInv'
      BY <1>1, <2>1, <2>2 DEF CodeTypes, CodeInv
    <2>4. QED
      BY <2>1, <2>3, AccountsRest
  <1>5. ASSUME NEW d \in Devices, NEW guess \in 0..codes, RedeemReads(d, guess)
        PROVE  IInv'
    <2> DEFINE r == [row |-> code, guess |-> guess]
    <2>1. /\ redeeming' = [redeeming EXCEPT ![d] = r]
          /\ \A e \in Devices : redeeming[e] = None
          /\ code.id # 0 /\ code.wrong < MaxWrong /\ ~code.used
          /\ UNCHANGED <<code, codes, handed, guessed, accounts>>
      BY <1>5 DEF RedeemReads
    <2>2. r \in Redeems /\ r.row = code
      BY <1>1 DEF CodeTypes, Redeems
    <2> HIDE DEF r
    <2>3. CodeTypes'
      BY <1>1, <2>1, <2>2 DEF CodeTypes
    <2>4. \A e \in Devices : redeeming'[e] = IF e = d THEN r ELSE None
      BY <1>1, <2>1 DEF CodeTypes
    <2>5. CodeInv'
      BY <2>1, <2>2, <2>4 DEF CodeInv
    <2>6. QED
      BY <2>1, <2>3, <2>5, AccountsRest
  <1>6. ASSUME NEW d \in Devices, redeeming[d] # None,
               redeeming' = [redeeming EXCEPT ![d] = None]
        PROVE  /\ redeeming' \in [Devices -> Redeems \cup {None}]
               /\ redeeming[d].row.id = codes /\ codes \in 1..MaxCodes
               /\ code.wrong < MaxWrong /\ ~code.used
               /\ \A e \in Devices : redeeming'[e] = None
    <2>1. redeeming[d].row.id = codes /\ codes # 0 /\ code.wrong < MaxWrong /\ ~code.used
      BY <1>6 DEF CodeInv
    <2>2. QED
      BY <1>1, <1>6, <2>1 DEF CodeTypes, CodeInv
  <1>7. ASSUME NEW d \in Devices, RedeemHands(d) PROVE IInv'
    <2>1. /\ redeeming[d] # None
          /\ code' = [code EXCEPT !.used = TRUE]
          /\ handed' = [handed EXCEPT ![redeeming[d].row.id] = @ + 1]
          /\ redeeming' = [redeeming EXCEPT ![d] = None]
          /\ UNCHANGED <<codes, guessed, accounts>>
      BY <1>7 DEF RedeemHands
    <2>2. /\ code' \in Codes /\ code'.id = code.id /\ code'.wrong = code.wrong
          /\ code'.used
      BY <1>1, <2>1 DEF CodeTypes, Codes
    <2>3. handed' = [handed EXCEPT ![codes] = @ + 1] /\ codes \in 1..MaxCodes
      BY <1>6, <2>1
    <2>4. CodeTypes'
      BY <1>1, <1>6, <2>1, <2>2, <2>3 DEF CodeTypes
    <2>5. CodeInv'
      BY <1>1, <1>6, <2>1, <2>2, <2>3 DEF CodeTypes, CodeInv
    <2>6. QED
      BY <2>1, <2>4, <2>5, AccountsRest
  <1>8. ASSUME NEW d \in Devices, RedeemRefuses(d) PROVE IInv'
    <2>1. /\ redeeming[d] # None
          /\ code' = [code EXCEPT !.wrong = @ + 1]
          /\ guessed' = [guessed EXCEPT ![redeeming[d].row.id] = @ + 1]
          /\ redeeming' = [redeeming EXCEPT ![d] = None]
          /\ UNCHANGED <<codes, handed, accounts>>
      BY <1>8 DEF RedeemRefuses
    <2>2. code.wrong < MaxWrong
      BY <1>6, <2>1
    <2>3. /\ code' \in Codes /\ code'.id = code.id /\ code'.wrong = code.wrong + 1
          /\ code'.used = code.used
      <3>1. code.wrong + 1 \in 0..MaxWrong
        BY <1>2, <2>2
      <3>2. code' \in Codes
        BY <1>1, <2>1, <3>1 DEF CodeTypes, Codes
      <3>3. code'.id = code.id /\ code'.wrong = code.wrong + 1
        BY <1>1, <2>1 DEF CodeTypes, Codes
      <3>4. code'.used = code.used
        BY <1>1, <2>1 DEF CodeTypes, Codes
      <3>5. QED
        BY <3>2, <3>3, <3>4
    <2>4. guessed' = [guessed EXCEPT ![codes] = @ + 1] /\ codes \in 1..MaxCodes
      BY <1>6, <2>1
    <2>5. CodeTypes'
      BY <1>1, <1>6, <2>1, <2>3, <2>4 DEF CodeTypes
    <2>6. CodeInv'
      BY <1>1, <1>6, <2>1, <2>3, <2>4 DEF CodeTypes, CodeInv
    <2>7. QED
      BY <2>1, <2>5, <2>6, AccountsRest
  <1>9. QED
    BY <1>3, <1>4, <1>5, <1>7, <1>8

-----------------------------------------------------------------------------

\* Every step keeps the invariant.
LEMMA StepIInv == IInv /\ [Next]_vars => IInv'
  <1> SUFFICES ASSUME IInv, [Next]_vars PROVE IInv'
    OBVIOUS
  <1>1. CASE UNCHANGED vars
    <2>1. UNCHANGED accounts /\ CodeTypes' /\ CodeInv'
      BY <1>1 DEF vars, mails, IInv, TypeOK, CodeTypes, CodeInv
    <2>2. QED
      BY <2>1, AccountsRest
  <1>2. ASSUME NEW t \in Staff, NEW i \in Ids,
               DeleteMyAccount(t, i) \/ UsersDisable(t, i) \/ Moderate(t, i)
        PROVE  IInv'
    BY <1>2, CountsInd DEF DeleteMyAccount, UsersDisable, Moderate
  <1>3. QED
    BY <1>1, <1>2, SignInReadsInd, SignInCommitsInd, LogoutInd, InviteInd, EnableInd,
       DisableInd, DeleteInd, CodesInd DEF Next

\* The invariant holds in every reachable state, whatever the accounts, identities,
\* devices, requests and codes.
THEOREM Invariance == Spec => []IInv
  <1>1. QED
    BY InitIInv, StepIInv, PTL DEF Spec

\* Every variable keeps its type, which says that no two accounts share an
\* address or an identity and that a live session has an account.
THEOREM TypeCorrect == Spec => []TypeOK
  <1>1. IInv => TypeOK
    BY DEF IInv
  <1>2. QED
    BY <1>1, Invariance, PTL

\* A disabled account has no session that would work again, but one whose
\* sign-in overlapped the disabling.
THEOREM SessionsGo == Spec => []DisabledHasNoSession
  <1>1. IInv => DisabledHasNoSession
    BY DEF IInv, AccountInv
  <1>2. QED
    BY <1>1, Invariance, PTL

-----------------------------------------------------------------------------
(* An invitation and the account beside it                                 *)

\* What is waiting for somebody who has come was made after they came.
TwinInv == \A uid \in Uids : Came(uid) => \A i \in InvitedAs(uid) : users[i].beside

\* A step that makes no row, links none and lets no sign-in find nobody.
LEMMA QuietKeepsTwin ==
  ASSUME TwinInv, TypeOK,
         \A i \in Known' : /\ i \in Known /\ users'[i].email = users[i].email
                           /\ users'[i].uid = users[i].uid /\ users'[i].beside = users[i].beside,
         \A d \in Devices : signing'[d] # None =>
             /\ signing[d] # None
             /\ signing'[d].uid = signing[d].uid /\ signing'[d].user = signing[d].user
  PROVE  TwinInv'
  <1> SUFFICES ASSUME NEW uid \in Uids, Came(uid)', NEW i \in InvitedAs(uid)'
               PROVE  users'[i].beside
    BY DEF TwinInv
  <1>1. Came(uid)
    BY DEF Came, Holding
  <1>2. i \in Known' /\ i \in InvitedAs(uid)
    BY DEF InvitedAs
  <1>3. QED
    BY <1>1, <1>2 DEF TwinInv

\* A sign-in that finds nobody leaves no invitation waiting; one that commits
\* makes an account where it had found nobody, or takes the only invitation.
LEMMA SignInKeepsTwin ==
  ASSUME IInv, TwinInv, NEW d \in Devices,
         SignInCommits(d) \/ \E uid \in Uids : SignInReads(d, uid)
  PROVE  TwinInv'
  <1> USE AccountsAssumption DEF IInv
  <1>1. ASSUME NEW uid \in Uids, SignInReads(d, uid) PROVE TwinInv'
    <2>1. PICK r : /\ r.uid = uid
                   /\ r.user = None => Holding(uid) = {} /\ InvitedAs(uid) = {}
                   /\ signing' = [signing EXCEPT ![d] = r]
      <3>1. PICK i : /\ i \in IF Holding(uid) # {} THEN Holding(uid)
                              ELSE IF InvitedAs(uid) # {} THEN InvitedAs(uid) ELSE {None}
                     /\ signing' = [signing EXCEPT ![d] =
                          [uid |-> uid, user |-> i, link |-> Holding(uid) = {},
                           disabled |-> i # None /\ users[i].disabled, overlapped |-> FALSE]]
        BY <1>1 DEF SignInReads
      <3>2. i = None => Holding(uid) = {} /\ InvitedAs(uid) = {}
        BY <3>1 DEF Holding, InvitedAs, Known
      <3> DEFINE read == [uid |-> uid, user |-> i, link |-> Holding(uid) = {},
                          disabled |-> i # None /\ users[i].disabled, overlapped |-> FALSE]
      <3>3. read.uid = uid /\ read.user = i /\ signing' = [signing EXCEPT ![d] = read]
        BY <3>1
      <3> HIDE DEF read
      <3>4. QED
        BY <3>2, <3>3
    <2>2. UNCHANGED users /\ Known' = Known
      BY <1>1 DEF SignInReads, Known
    <2>3. \A e \in Devices : signing'[e] = IF e = d THEN r ELSE signing[e]
      BY <2>1 DEF TypeOK
    <2>4. ASSUME NEW v \in Uids
          PROVE  /\ InvitedAs(v)' = InvitedAs(v) /\ Holding(v)' = Holding(v)
                 /\ Came(v)' => Came(v) \/ InvitedAs(v) = {}
      <3>1. InvitedAs(v)' = InvitedAs(v) /\ Holding(v)' = Holding(v)
        BY <2>2 DEF InvitedAs, Holding
      <3>2. QED
        BY <2>1, <2>3, <3>1 DEF Came
    <2>5. QED
      BY <2>2, <2>4 DEF TwinInv
  <1>2. CASE SignInCommits(d)
    <2> DEFINE s == signing[d]
               i == IF s.user = None THEN CHOOSE j \in Ids \ spent : TRUE ELSE s.user
               row == IF s.user = None THEN User(None, s.uid, "user", FALSE)
                      ELSE IF s.link THEN [users[i] EXCEPT !.uid = s.uid] ELSE users[i]
    <2>1. /\ s \in SignIns /\ s.uid \in Uids /\ s.user \in Ids \cup {None} /\ i \in Ids
          /\ s.user = None => users[i] = None
      BY <1>2, SigningFields, FreshId DEF SignInCommits
    <2>2. /\ signing[d] # None /\ signing' = [signing EXCEPT ![d] = None]
          /\ \/ UNCHANGED users
             \/ /\ s.user # None => users[i] # None
                /\ users' = [users EXCEPT ![i] = row]
      BY <1>2 DEF SignInCommits
    <2>3. \A e \in Devices : signing'[e] # None => e # d /\ signing'[e] = signing[e]
      BY <2>2 DEF TypeOK
    <2>4. CASE UNCHANGED users
      <3>1. Known' = Known
        BY <2>4 DEF Known
      <3>2. QED
        BY <2>3, <2>4, <3>1, QuietKeepsTwin
    <2>5. CASE s.user # None /\ ~s.link /\ users' = [users EXCEPT ![i] = row]
      <3>1. users' = users
        BY <2>1, <2>5 DEF TypeOK
      <3>2. QED
        BY <2>4, <3>1
    <2>6. CASE /\ s.user = None \/ (s.user # None /\ users[i] # None /\ s.link)
               /\ users' = [users EXCEPT ![i] = row]
      <3>0. PICK u \in Uids : u = s.uid
        BY <2>1
      <3> HIDE DEF i
      <3>1. row # None /\ row.uid = s.uid /\ row.uid # None
        <4>1. CASE s.user = None
          BY <2>1, <4>1, UserIsARow DEF User
        <4>2. CASE s.user # None
          <5>1. users[i] \in Rows /\ row = [users[i] EXCEPT !.uid = s.uid]
            BY <2>1, <2>6, <4>2 DEF TypeOK
          <5>2. row \in Rows /\ row.uid = s.uid
            BY <2>1, <5>1 DEF Rows
          <5>3. QED
            BY <2>1, <5>2
        <4>3. QED
          BY <4>1, <4>2
      <3> HIDE DEF row
      <3>2. /\ \A j \in Ids : users'[j] = IF j = i THEN row ELSE users[j]
            /\ Known' = Known \cup {i}
        BY <2>1, <2>6, <3>1 DEF TypeOK, Known
      <3>3. ASSUME NEW v \in Uids, NEW j \in InvitedAs(v)'
            PROVE  j \in InvitedAs(v) /\ j # i /\ users'[j] = users[j]
        BY <3>1, <3>2 DEF InvitedAs, Known
      <3>4. ASSUME NEW v \in Uids, v # u, Came(v)'
            PROVE  Came(v)
        BY <2>3, <3>0, <3>1, <3>2, <3>4 DEF Came, Holding, Known
      <3>5. ASSUME NEW j \in InvitedAs(u)'
            PROVE  users'[j].beside
        <4>1. j \in InvitedAs(u) /\ j # i /\ users'[j] = users[j]
          BY <3>3, <3>5
        <4>2. CASE s.user = None
          <5>1. Came(u)
            BY <2>2, <3>0, <4>2 DEF Came
          <5>2. QED
            BY <4>1, <5>1 DEF TwinInv
        <4>3. CASE s.user # None
          <5>1. i \in Known /\ s.link /\ i = s.user
            BY <2>1, <2>6, <4>3 DEF Known, i
          <5>2. users[i].email = EmailOf[u]
            BY <2>2, <3>0, <5>1 DEF AccountInv, SignInv
          <5>3. users[j].email = EmailOf[u] /\ j \in Known
            BY <4>1 DEF InvitedAs
          <5>4. EmailOf[u] # None
            BY <3>0
          <5>5. QED
            BY <4>1, <5>1, <5>2, <5>3, <5>4 DEF TypeOK
        <4>4. QED
          BY <4>2, <4>3
      <3>6. QED
        <4> SUFFICES ASSUME NEW v \in Uids, Came(v)', NEW j \in InvitedAs(v)'
                     PROVE  users'[j].beside
          BY DEF TwinInv
        <4>1. CASE v = u
          BY <3>5, <4>1
        <4>2. CASE v # u
          <5>1. Came(v) /\ j \in InvitedAs(v) /\ users'[j] = users[j]
            BY <3>3, <3>4, <4>2
          <5>2. QED
            BY <5>1 DEF TwinInv
        <4>3. QED
          BY <4>1, <4>2
    <2>7. QED
      BY <2>2, <2>4, <2>5, <2>6
  <1>3. QED
    BY <1>1, <1>2

\* An invitation to somebody who has come is one beside their account.
LEMMA InviteKeepsTwin ==
  ASSUME IInv, TwinInv, NEW email \in Emails, NEW role \in {"user", "admin"},
         Invite(email, role)
  PROVE  TwinInv'
  <1> USE AccountsAssumption DEF IInv
  <1>1. PICK i \in Ids \ spent, beside \in BOOLEAN :
          /\ beside = \E uid \in Verified : EmailOf[uid] = email /\ Came(uid)
          /\ users' = [users EXCEPT ![i] = User(email, None, role, beside)]
    BY DEF Invite
  <1> DEFINE row == User(email, None, role, beside)
  <1>2. row # None /\ row.email = email /\ row.uid = None /\ row.beside = beside
    BY UserIsARow DEF User
  <1> HIDE DEF row
  <1>3. /\ users'[i] = row /\ \A j \in Ids \ {i} : users'[j] = users[j]
        /\ i \notin Known /\ Known' = Known \cup {i}
        /\ UNCHANGED signing
    <2>1. i \notin Known /\ users' = [users EXCEPT ![i] = row]
      BY <1>1 DEF TypeOK, row
    <2>2. users'[i] = row /\ \A j \in Ids \ {i} : users'[j] = users[j]
      BY <2>1 DEF TypeOK
    <2>3. QED
      BY <1>2, <2>1, <2>2 DEF Known, Invite
  <1> SUFFICES ASSUME NEW uid \in Uids, Came(uid)', NEW j \in InvitedAs(uid)'
               PROVE  users'[j].beside
    BY DEF TwinInv
  <1>4. Came(uid)
    BY <1>2, <1>3 DEF Came, Holding, Known
  <1>5. CASE j = i
    <2>1. uid \in Verified /\ EmailOf[uid] = email
      BY <1>2, <1>3, <1>5 DEF InvitedAs
    <2>2. QED
      BY <1>1, <1>2, <1>3, <1>4, <1>5, <2>1
  <1>6. CASE j # i
    <2>1. j \in Known /\ j \in InvitedAs(uid) /\ users'[j] = users[j]
      BY <1>3, <1>6 DEF InvitedAs, Known
    <2>2. QED
      BY <1>4, <2>1 DEF TwinInv
  <1>7. QED
    BY <1>5, <1>6

\* What the other steps of the accounts do to a row.
LEMMA QuietSteps ==
  ASSUME IInv, TwinInv,
         \/ \E i \in Ids : Enable(i)
         \/ \E t \in Staff : Disable(t) \/ Delete(t)
  PROVE  TwinInv'
  <1> USE AccountsAssumption DEF IInv
  <1>1. PICK i \in Ids, b \in BOOLEAN :
          \/ users' \in {users, [users EXCEPT ![i] = None]}
          \/ i \in Known /\ users' = [users EXCEPT ![i].disabled = b]
    <2>1. ASSUME NEW t \in Staff, staff[t] # None PROVE staff[t].user \in Ids
      BY <2>1 DEF TypeOK, Removals
    <2>2. CASE \E i \in Ids : Enable(i)
      BY <2>2 DEF Enable
    <2>3. CASE \E t \in Staff : Disable(t) \/ Delete(t)
      BY <2>1, <2>3 DEF Disable, Delete, Known
    <2>4. QED
      BY <2>2, <2>3
  <1>2. \A j \in Known' :
          /\ j \in Known /\ users'[j].email = users[j].email
          /\ users'[j].uid = users[j].uid /\ users'[j].beside = users[j].beside
    <2> SUFFICES ASSUME NEW j \in Known'
                 PROVE  /\ j \in Known /\ users'[j].email = users[j].email
                        /\ users'[j].uid = users[j].uid /\ users'[j].beside = users[j].beside
      OBVIOUS
    <2>1. CASE i \in Known /\ users' = [users EXCEPT ![i].disabled = b]
      <3>1. users'[j] = IF j = i THEN [users[j] EXCEPT !.disabled = b] ELSE users[j]
        BY <2>1 DEF TypeOK, Known
      <3>2. j \in Known
        BY <2>1, <3>1 DEF Known
      <3>3. QED
        BY <3>1, <3>2 DEF TypeOK, Known, Rows
    <2>2. CASE users' = [users EXCEPT ![i] = None] \/ users' = users
      BY <2>2 DEF TypeOK, Known
    <2>3. QED
      BY <1>1, <2>1, <2>2
  <1>3. \A d \in Devices : signing'[d] # None =>
          /\ signing[d] # None
          /\ signing'[d].uid = signing[d].uid /\ signing'[d].user = signing[d].user
    <2>1. ASSUME NEW t \in Staff, Disable(t), NEW d \in Devices, signing'[d] # None
          PROVE  /\ signing[d] # None
                 /\ signing'[d].uid = signing[d].uid /\ signing'[d].user = signing[d].user
      BY <2>1, SigningFields DEF Disable, SignIns
    <2>2. QED
      BY <2>1 DEF Enable, Delete
  <1>4. QED
    BY <1>2, <1>3, QuietKeepsTwin

\* Every step keeps what is said of twins.
LEMMA StepTwinInv == IInv /\ TwinInv /\ [Next]_vars => TwinInv'
  <1> SUFFICES ASSUME IInv, TwinInv, [Next]_vars PROVE TwinInv'
    OBVIOUS
  <1>1. CASE UNCHANGED <<users, signing>>
    <2>1. Known' = Known
      BY <1>1 DEF Known
    <2>2. QED
      BY <1>1, <2>1, QuietKeepsTwin DEF IInv
  <1>2. CASE \/ UNCHANGED vars
             \/ \E d \in Devices : Logout(d) \/ LogoutAll(d)
             \/ \E t \in Staff, i \in Ids :
                   DeleteMyAccount(t, i) \/ UsersDisable(t, i) \/ Moderate(t, i)
             \/ EmailLink \/ Expires
             \/ \E d \in Devices, guess \in 0..codes : RedeemReads(d, guess)
             \/ \E d \in Devices : RedeemHands(d) \/ RedeemRefuses(d)
    BY <1>1, <1>2 DEF Logout, LogoutAll, DeleteMyAccount, UsersDisable, Moderate, Counts,
                      EmailLink, Expires, RedeemReads, RedeemHands, RedeemRefuses,
                      accounts, vars
  <1>3. QED
    BY <1>2, SignInKeepsTwin, InviteKeepsTwin, QuietSteps DEF Next

\* An invited address belongs to an identity verified to be that address, and
\* nobody has two accounts, or an account and a waiting invitation, unless the
\* invitation was made after they came.
THEOREM OwnersOnly == Spec => []LinkedToOwner
  <1> USE AccountsAssumption
  <1>1. Init => TwinInv
    <2> SUFFICES ASSUME Init, NEW uid \in Uids PROVE ~Came(uid)
      BY DEF TwinInv
    <2>1. \A i \in Known : users[i].uid = None
      BY DEF Init, Known, User
    <2>2. QED
      BY <2>1 DEF Init, Came, Holding
  <1>2. ASSUME TypeOK, TwinInv, NEW uid \in Uids,
               NEW i \in Holding(uid) \cup InvitedAs(uid),
               NEW j \in Holding(uid) \cup InvitedAs(uid), i # j
        PROVE  users[i].beside \/ users[j].beside
    <2>1. CASE i \in Holding(uid) /\ j \in Holding(uid)
      BY <1>2, <2>1 DEF Holding, TypeOK
    <2>2. CASE i \in InvitedAs(uid) /\ j \in InvitedAs(uid)
      <3>1. users[i].email = EmailOf[uid] /\ users[j].email = EmailOf[uid] /\ EmailOf[uid] # None
        BY <2>2 DEF InvitedAs
      <3>2. i \in Known /\ j \in Known
        BY <2>2 DEF InvitedAs
      <3>3. QED
        BY <1>2, <3>1, <3>2 DEF TypeOK
    <2>3. CASE Holding(uid) # {}
      BY <1>2, <2>1, <2>3 DEF TwinInv, Came
    <2>4. QED
      BY <1>2, <2>2, <2>3
  <1>3. IInv /\ TwinInv => LinkedToOwner
    BY <1>2 DEF IInv, AccountInv, LinkInv, LinkedToOwner
  <1>4. QED
    BY <1>1, <1>3, StepTwinInv, Invariance, PTL DEF Spec

-----------------------------------------------------------------------------
(* What a step may never do                                                *)

\* Only the commit of a removal takes an administrator away.
LEMMA AdminsStay ==
  ASSUME IInv, [Next]_vars, ~(\E t \in Staff : Disable(t) \/ Delete(t))
  PROVE  Admins \subseteq Admins'
  <1> USE AccountsAssumption DEF IInv
  <1> SUFFICES ASSUME NEW j \in Admins PROVE j \in Admins'
    OBVIOUS
  <1>1. /\ j \in Ids /\ j \in spent /\ users[j] \in Rows /\ users[j] # None
        /\ users[j].role = "admin" /\ ~users[j].disabled
    BY DEF Admins, Known, TypeOK
  <1>2. CASE UNCHANGED users
    BY <1>1, <1>2 DEF Admins, Known
  <1>3. ASSUME NEW d \in Devices, SignInCommits(d) PROVE j \in Admins'
    <2> DEFINE i == IF signing[d].user = None THEN CHOOSE k \in Ids \ spent : TRUE
                    ELSE signing[d].user
    <2>1. \/ UNCHANGED users
          \/ users' = [users EXCEPT ![i] =
                         IF signing[d].user = None THEN User(None, signing[d].uid, "user", FALSE)
                         ELSE IF signing[d].link THEN [users[i] EXCEPT !.uid = signing[d].uid]
                         ELSE users[i]]
      BY <1>3 DEF SignInCommits
    <2>2. signing[d].user = None => i # j
      BY <1>1, <1>3, FreshId DEF SignInCommits
    <2> HIDE DEF i
    <2>3. users'[j] \in {users[j], [users[j] EXCEPT !.uid = signing[d].uid]}
      <3>1. CASE i # j
        BY <1>1, <2>1, <3>1 DEF TypeOK
      <3>2. CASE i = j
        BY <1>1, <2>1, <2>2, <3>2 DEF TypeOK
      <3>3. QED
        BY <3>1, <3>2
    <2>4. [users[j] EXCEPT !.uid = signing[d].uid] \in Rows
      BY <1>1, <1>3, SigningFields DEF SignInCommits, Rows
    <2>5. users'[j] # None /\ users'[j].role = "admin" /\ ~users'[j].disabled
      BY <1>1, <2>3, <2>4 DEF Rows
    <2>6. QED
      BY <1>1, <2>5 DEF Admins, Known
  <1>4. ASSUME NEW email \in Emails, NEW role \in {"user", "admin"}, Invite(email, role)
        PROVE  j \in Admins'
    <2>1. users'[j] = users[j]
      <3>1. PICK i \in Ids \ spent, beside \in BOOLEAN :
               users' = [users EXCEPT ![i] = User(email, None, role, beside)]
        BY <1>4 DEF Invite
      <3>2. QED
        BY <1>1, <3>1 DEF TypeOK
    <2>2. QED
      BY <1>1, <2>1 DEF Admins, Known
  <1>5. ASSUME NEW i \in Ids, Enable(i) PROVE j \in Admins'
    <2>1. users'[j] = users[j]
      BY <1>1, <1>5 DEF Enable, TypeOK
    <2>2. QED
      BY <1>1, <2>1 DEF Admins, Known
  <1>6. CASE \/ \E d \in Devices, uid \in Uids : SignInReads(d, uid)
             \/ \E d \in Devices : Logout(d) \/ LogoutAll(d)
             \/ \E t \in Staff, i \in Ids :
                   DeleteMyAccount(t, i) \/ UsersDisable(t, i) \/ Moderate(t, i)
    BY <1>2, <1>6 DEF SignInReads, Logout, LogoutAll, DeleteMyAccount, UsersDisable, Moderate,
                      Counts
  <1>7. CASE \/ EmailLink \/ Expires
             \/ \E d \in Devices, guess \in 0..codes : RedeemReads(d, guess)
             \/ \E d \in Devices : RedeemHands(d) \/ RedeemRefuses(d)
    BY <1>2, <1>7 DEF EmailLink, Expires, RedeemReads, RedeemHands, RedeemRefuses, accounts
  <1>8. QED
    BY <1>2, <1>3, <1>4, <1>5, <1>6, <1>7 DEF Next, vars, accounts

\* The last administrator goes only by a removal whose count was overtaken by
\* another removal.
THEOREM LastAdminStays == Spec => AdminsGoOnlyByRace
  <1> USE AccountsAssumption
  <1> DEFINE Goes == Admins # {} /\ Admins' = {} =>
                \E t \in Staff : staff[t] # None /\ staff'[t] = None /\ staff[t].stale
  <1>1. ASSUME IInv, [Next]_vars PROVE Goes
    <2> SUFFICES ASSUME Admins # {}, Admins' = {}
                 PROVE  \E t \in Staff : staff[t] # None /\ staff'[t] = None /\ staff[t].stale
      OBVIOUS
    <2>1. PICK t \in Staff : Disable(t) \/ Delete(t)
      BY <1>1, AdminsStay
    <2>2. staff[t] # None /\ staff'[t] = None
      BY <2>1 DEF Disable, Delete, Stales
    <2>3. \A j \in Ids \ {staff[t].user} : users'[j] = users[j]
      BY <1>1, <2>1 DEF Disable, Delete, IInv, TypeOK
    <2>4. Admins \ {staff[t].user} \subseteq Admins'
      BY <2>3 DEF Admins, Known
    <2>5. staff[t].stale
      BY <1>1, <2>2, <2>4 DEF IInv, StaffInv, Others
    <2>6. QED
      BY <2>2, <2>5
  <1>2. IInv /\ [Next]_vars => [Goes]_vars
    BY <1>1
  <1>3. QED
    BY <1>2, Invariance, PTL DEF Spec, AdminsGoOnlyByRace

\* A code is handed over, or answered, only while it is the newest, unused and
\* was guessed wrong less than MAX_WRONG times.
THEOREM CodesAreSpent == Spec => CodeIsSpent
  <1> DEFINE Spends == \A c \in 1..MaxCodes :
                handed'[c] # handed[c] \/ guessed'[c] # guessed[c] =>
                    c = codes /\ handed[c] = 0 /\ guessed[c] < MaxWrong
  <1>1. ASSUME IInv, [Next]_vars PROVE Spends
    <2> USE <1>1
    <2>1. CASE UNCHANGED <<handed, guessed>>
      BY <2>1
    <2>2. ASSUME NEW d \in Devices, RedeemHands(d) \/ RedeemRefuses(d) PROVE Spends
      <3>1. /\ redeeming[d].row.id = codes /\ codes # 0
            /\ code.wrong < MaxWrong /\ ~code.used
        BY <2>2 DEF RedeemHands, RedeemRefuses, IInv, CodeInv
      <3>2. \A c \in 1..MaxCodes : c # codes => handed'[c] = handed[c] /\ guessed'[c] = guessed[c]
        BY <2>2, <3>1 DEF RedeemHands, RedeemRefuses, IInv, TypeOK
      <3>3. \A c \in 1..MaxCodes : c = codes => handed[c] = 0 /\ guessed[c] < MaxWrong
        BY <3>1 DEF IInv, CodeInv
      <3>4. QED
        BY <3>2, <3>3
    <2>3. CASE \/ \E d \in Devices, uid \in Uids : SignInReads(d, uid)
               \/ \E d \in Devices : SignInCommits(d) \/ Logout(d) \/ LogoutAll(d)
               \/ \E email \in Emails, role \in {"user", "admin"} : Invite(email, role)
               \/ \E i \in Ids : Enable(i)
               \/ \E t \in Staff, i \in Ids :
                     DeleteMyAccount(t, i) \/ UsersDisable(t, i) \/ Moderate(t, i)
               \/ \E t \in Staff : Disable(t) \/ Delete(t)
      BY <2>1, <2>3 DEF SignInReads, SignInCommits, Logout, LogoutAll, Invite, Enable,
                        DeleteMyAccount, UsersDisable, Moderate, Counts, Disable, Delete, mails
    <2>4. CASE \/ EmailLink \/ Expires
               \/ \E d \in Devices, guess \in 0..codes : RedeemReads(d, guess)
      BY <2>1, <2>4 DEF EmailLink, Expires, RedeemReads
    <2>5. QED
      BY <2>1, <2>2, <2>3, <2>4 DEF Next, vars, mails
  <1>2. IInv /\ [Next]_vars => [Spends]_vars
    BY <1>1
  <1>3. QED
    BY <1>2, Invariance, PTL DEF Spec, CodeIsSpent
=============================================================================
