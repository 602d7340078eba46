------------------------------ MODULE Accounts ------------------------------
(***************************************************************************)
(* Who can come in (portal_auth.py, signin_code.py and their routes in     *)
(* submit.py): invitations, the accounts Firebase identities are linked    *)
(* to, sessions, the codes in sign-in mails, and what administrators do to *)
(* accounts. A request is a thread whose transaction reads first and       *)
(* writes later; in between others commit. Firebase, Google and the mail   *)
(* are outside: an identity that signs in has been verified by them.       *)
(***************************************************************************)
EXTENDS Naturals, FiniteSets

CONSTANTS
    Ids,        \* user ids, never used again
    First,      \* the administrator the CLI has invited
    Uids,       \* Firebase identities
    Emails,
    EmailOf,    \* the address in an identity's token
    Verified,   \* identities whose address Firebase has verified
    Devices,    \* browsers and phones, each with one session cookie
    Staff,      \* threads of administrators
    MaxCodes,   \* bound of the model: sign-in mails with a code
    MaxWrong,   \* MAX_WRONG
    None

\* A row of portal_users; and, which is no column, whether it was made beside an
\* account: an invitation to somebody who had signed in before.
Rows == [email : Emails \cup {None}, uid : Uids \cup {None},
         role : {"user", "admin"}, disabled : BOOLEAN, beside : BOOLEAN]
SignIns == [uid : Uids, user : Ids \cup {None}, link : BOOLEAN,
            disabled : BOOLEAN, overlapped : BOOLEAN]
Removals == [what : {"delete", "disable", "block"}, user : Ids, stale : BOOLEAN]
Codes == [id : 0..MaxCodes, wrong : 0..MaxWrong, used : BOOLEAN, expired : BOOLEAN]
Redeems == [row : Codes, guess : 0..MaxCodes]

ASSUME AccountsAssumption ==
    /\ IsFiniteSet(Ids) /\ First \in Ids
    /\ Emails # {}
    /\ EmailOf \in [Uids -> Emails]
    /\ Verified \subseteq Uids
    /\ MaxCodes \in Nat /\ MaxWrong \in Nat \ {0}
    /\ None \notin Ids \cup Uids \cup Emails
    /\ None \notin Rows \cup SignIns \cup Removals \cup Redeems

VARIABLES
    users,      \* portal_users: None where there is no row
    spent,      \* user ids that were given out
    session,    \* the session in each device's cookie
    signing,    \* a sign-in under way: what sign_in_with_firebase has read
    staff,      \* an administrator's request under way, after its count of the others
    code,       \* signin_codes, of one address: the row, or None
    codes,      \* codes mailed so far
    redeeming,  \* of each device: its redeem under way, the row it read and its guess
    handed, guessed     \* of each code: link codes handed over for it, wrong guesses answered

accounts == <<users, spent, session, signing, staff>>
mails == <<code, codes, redeeming, handed, guessed>>
vars == <<accounts, mails>>

User(email, uid, role, beside) ==
    [email |-> email, uid |-> uid, role |-> role, disabled |-> FALSE, beside |-> beside]
Known == {i \in Ids : users[i] # None}
Admins == {i \in Known : users[i].role = "admin" /\ ~users[i].disabled}

NoSession == [user |-> None, live |-> FALSE, overlapped |-> FALSE]
NoRow == [id |-> 0, wrong |-> 0, used |-> FALSE, expired |-> FALSE]

TypeOK ==
    /\ users \in [Ids -> Rows \cup {None}]
    /\ \A i, j \in Known : i # j =>
          /\ users[i].email = users[j].email => users[i].email = None
          /\ users[i].uid = users[j].uid => users[i].uid = None
    /\ Known \subseteq spent /\ spent \subseteq Ids
    /\ session \in [Devices -> [user : Ids \cup {None}, live : BOOLEAN, overlapped : BOOLEAN]]
    /\ \A d \in Devices : session[d].live => session[d].user \in Known
    /\ signing \in [Devices -> SignIns \cup {None}]
    /\ staff \in [Staff -> Removals \cup {None}]
    /\ code \in Codes
    /\ codes \in 0..MaxCodes
    /\ redeeming \in [Devices -> Redeems \cup {None}]
    /\ handed \in [1..MaxCodes -> Nat]
    /\ guessed \in [1..MaxCodes -> Nat]

\* portal_auth seed: the first administrator is an invitation.
Init ==
    /\ users = [i \in Ids |-> IF i = First
                              THEN User(CHOOSE e \in Emails : TRUE, None, "admin", FALSE)
                              ELSE None]
    /\ spent = {First}
    /\ session = [d \in Devices |-> NoSession]
    /\ signing = [d \in Devices |-> None]
    /\ staff = [t \in Staff |-> None]
    /\ code = NoRow /\ codes = 0
    /\ redeeming = [d \in Devices |-> None]
    /\ handed = [c \in 1..MaxCodes |-> 0]
    /\ guessed = [c \in 1..MaxCodes |-> 0]

-----------------------------------------------------------------------------
(* Signing in                                                              *)

Holding(uid) == {i \in Known : users[i].uid = uid}

InvitedAs(uid) == {i \in Known : users[i].uid = None /\ users[i].email = EmailOf[uid]
                                 /\ uid \in Verified}

\* The identity has an account, or a sign-in of it has found nobody and not committed.
Came(uid) ==
    \/ Holding(uid) # {}
    \/ \E d \in Devices : signing[d] # None /\ signing[d].uid = uid /\ signing[d].user = None

\* sign_in_with_firebase reads: the account linked to this identity; or, for a
\* verified address, the invitation to it; or there is nobody.
SignInReads(d, uid) ==
    /\ signing[d] = None
    /\ \E i \in IF Holding(uid) # {} THEN Holding(uid)
                ELSE IF InvitedAs(uid) # {} THEN InvitedAs(uid)
                ELSE {None} :
          signing' = [signing EXCEPT ![d] =
              [uid |-> uid, user |-> i, link |-> Holding(uid) = {},
               disabled |-> i # None /\ users[i].disabled, overlapped |-> FALSE]]
    /\ UNCHANGED <<users, spent, session, staff, mails>>

\* Mutant: the new account or link is written without a unique index.
SignInTwice(d) ==
    /\ signing[d] # None
    /\ LET s == signing[d]
           i == IF s.user = None THEN CHOOSE j \in Ids \ spent : TRUE ELSE s.user
       IN  /\ s.user = None => spent # Ids
           /\ users' = [users EXCEPT ![i] =
                  IF s.user = None THEN User(None, s.uid, "user", FALSE) ELSE [@ EXCEPT !.uid = s.uid]]
           /\ spent' = spent \cup {i}
    /\ signing' = [signing EXCEPT ![d] = None]
    /\ UNCHANGED <<session, staff, mails>>

\* Its writes: the link or the new account, and the session, unless the account
\* was disabled. An identity linked elsewhere meanwhile breaks the unique index,
\* a deleted account the session's reference: the transaction is undone.
SignInCommits(d) ==
    /\ signing[d] # None
    /\ LET s == signing[d]
           fresh == CHOOSE i \in Ids \ spent : TRUE
           i == IF s.user = None THEN fresh ELSE s.user
           taken == s.link /\ Holding(s.uid) \ {i} # {}
           lost == s.user # None /\ users[s.user] = None
       IN  /\ s.user = None => spent # Ids
           /\ IF taken \/ lost
                THEN UNCHANGED <<users, spent, session>>
                ELSE /\ users' = [users EXCEPT ![i] =
                             IF s.user = None THEN User(None, s.uid, "user", FALSE)
                             ELSE IF s.link THEN [@ EXCEPT !.uid = s.uid] ELSE @]
                     /\ spent' = spent \cup {i}
                     /\ session' = IF s.disabled THEN session
                                   ELSE [session EXCEPT ![d] =
                                            [user |-> i, live |-> TRUE,
                                             overlapped |-> s.overlapped]]
    /\ signing' = [signing EXCEPT ![d] = None]
    /\ UNCHANGED <<staff, mails>>

\* session_user: a live session of an account that is not disabled.
Usable(d) == session[d].live /\ session[d].user \in Known /\ ~users[session[d].user].disabled

\* logout of this device, or the session's time is over.
Logout(d) ==
    /\ session[d].live
    /\ session' = [session EXCEPT ![d] = NoSession]
    /\ UNCHANGED <<users, spent, signing, staff, mails>>

\* Mutant: the sessions of a disabled account stay.
RevokedNone(i) == session

Revoked(i) == [d \in Devices |-> IF session[d].user = i THEN NoSession ELSE session[d]]

LogoutAll(d) ==
    /\ Usable(d)
    /\ session' = Revoked(session[d].user)
    /\ UNCHANGED <<users, spent, signing, staff, mails>>

-----------------------------------------------------------------------------
(* Administrators, and a person deleting their own account                 *)

\* Mutant: the address is stored without a unique index.
InviteAgain(email, role) ==
    /\ \E i \in Ids \ spent :
          /\ i = CHOOSE j \in Ids \ spent : TRUE
          /\ users' = [users EXCEPT ![i] = User(email, None, role, FALSE)]
          /\ spent' = spent \cup {i}
    /\ UNCHANGED <<session, signing, staff, mails>>

\* users_create, and portal_auth add: the unique index refuses a second row for
\* one address. Nobody looks whether a person of that address has signed in.
Invite(email, role) ==
    /\ \A i \in Known : users[i].email # email
    /\ \E i \in Ids \ spent, beside \in BOOLEAN :
          /\ i = CHOOSE j \in Ids \ spent : TRUE
          /\ beside = \E uid \in Verified : EmailOf[uid] = email /\ Came(uid)
          /\ users' = [users EXCEPT ![i] = User(email, None, role, beside)]
          /\ spent' = spent \cup {i}
    /\ UNCHANGED <<session, signing, staff, mails>>

\* set_disabled(FALSE).
Enable(i) ==
    /\ i \in Known /\ users[i].disabled
    /\ users' = [users EXCEPT ![i].disabled = FALSE]
    /\ UNCHANGED <<spent, session, signing, staff, mails>>

\* Mutant: the account that is removed counts as an administrator left.
OthersAll(i) == Admins

\* count_admins, excluding the account it is about.
Others(i) == Admins \ {i}

\* The others are counted, and none left is a 409; the rest of the request comes later.
Counts(t, what, i) ==
    /\ staff[t] = None
    /\ i \in Known
    /\ staff' = IF Others(i) = {} THEN staff
                ELSE [staff EXCEPT ![t] = [what |-> what, user |-> i, stale |-> FALSE]]
    /\ UNCHANGED <<users, spent, session, signing, mails>>

\* delete_my_account: one's own, from a device that is signed in.
DeleteMyAccount(t, i) ==
    /\ \E d \in Devices : Usable(d) /\ session[d].user = i
    /\ Counts(t, "delete", i)

UsersDisable(t, i) == Counts(t, "disable", i)

\* moderate: the account behind a report is blocked, after the decision was logged.
Moderate(t, i) == Counts(t, "block", i)

\* What a committed removal of an administrator does to the counts of others.
Stales(t, i) ==
    staff' = [u \in Staff |->
                IF u = t THEN None
                ELSE IF staff[u] = None THEN None
                ELSE [staff[u] EXCEPT !.stale = @ \/ i \in Admins]]

\* set_disabled: the account, then its live sessions. A sign-in that has read
\* the account and not committed is not among them.
Disable(t) ==
    /\ staff[t] # None /\ staff[t].what \in {"disable", "block"}
    /\ LET i == staff[t].user
       IN  /\ users' = IF users[i] = None THEN users ELSE [users EXCEPT ![i].disabled = TRUE]
           /\ session' = Revoked(i)
           /\ signing' = [d \in Devices |->
                            IF signing[d] # None /\ signing[d].user = i
                            THEN [signing[d] EXCEPT !.overlapped = TRUE] ELSE signing[d]]
           /\ Stales(t, i)
    /\ UNCHANGED <<spent, mails>>

\* delete_account: the row and, by cascade, its sessions.
Delete(t) ==
    /\ staff[t] # None /\ staff[t].what = "delete"
    /\ LET i == staff[t].user
       IN  /\ users' = [users EXCEPT ![i] = None]
           /\ session' = Revoked(i)
           /\ Stales(t, i)
    /\ UNCHANGED <<spent, signing, mails>>

-----------------------------------------------------------------------------
(* The code in the sign-in mail, for one address                           *)

\* issue: a new code takes the row over, whatever became of the one before.
Issued(id) == [NoRow EXCEPT !.id = id]

\* email_link: the code is stored, waiting for a redeem that holds the row, and then the
\* mail goes out or fails. How often an address may ask is left out: it only refuses.
EmailLink ==
    /\ codes < MaxCodes
    /\ \A d \in Devices : redeeming[d] = None
    /\ codes' = codes + 1
    /\ code' = Issued(codes + 1)
    /\ UNCHANGED <<redeeming, handed, guessed, accounts>>

Expires ==
    /\ code.id # 0 /\ ~code.expired
    /\ code' = [code EXCEPT !.expired = TRUE]
    /\ UNCHANGED <<codes, redeeming, handed, guessed, accounts>>

\* Mutant: the row is read without FOR UPDATE.
RedeemPeeks(d, guess) ==
    /\ redeeming[d] = None
    /\ code.id # 0 /\ code.wrong < MaxWrong /\ ~code.used /\ ~code.expired
    /\ redeeming' = [redeeming EXCEPT ![d] = [row |-> code, guess |-> guess]]
    /\ UNCHANGED <<code, codes, handed, guessed, accounts>>

\* redeem reads the row FOR UPDATE; a spent one is refused. A person may type
\* any code they were mailed, or another (0).
RedeemReads(d, guess) ==
    /\ redeeming[d] = None
    /\ \A e \in Devices : redeeming[e] = None
    /\ code.id # 0 /\ code.wrong < MaxWrong /\ ~code.used /\ ~code.expired
    /\ redeeming' = [redeeming EXCEPT ![d] = [row |-> code, guess |-> guess]]
    /\ UNCHANGED <<code, codes, handed, guessed, accounts>>

Right(r) == r.guess = r.row.id

RedeemHands(d) ==
    /\ redeeming[d] # None /\ Right(redeeming[d])
    /\ code' = [code EXCEPT !.used = TRUE]
    /\ handed' = [handed EXCEPT ![redeeming[d].row.id] = @ + 1]
    /\ redeeming' = [redeeming EXCEPT ![d] = None]
    /\ UNCHANGED <<codes, guessed, accounts>>

RedeemRefuses(d) ==
    /\ redeeming[d] # None /\ ~Right(redeeming[d])
    /\ code' = [code EXCEPT !.wrong = @ + 1]
    /\ guessed' = [guessed EXCEPT ![redeeming[d].row.id] = @ + 1]
    /\ redeeming' = [redeeming EXCEPT ![d] = None]
    /\ UNCHANGED <<codes, handed, accounts>>

-----------------------------------------------------------------------------

Next ==
    \/ \E d \in Devices, uid \in Uids : SignInReads(d, uid)
    \/ \E d \in Devices : SignInCommits(d) \/ Logout(d) \/ LogoutAll(d)
    \/ \E email \in Emails, role \in {"user", "admin"} : Invite(email, role)
    \/ \E i \in Ids : Enable(i)
    \/ \E t \in Staff, i \in Ids : DeleteMyAccount(t, i) \/ UsersDisable(t, i) \/ Moderate(t, i)
    \/ \E t \in Staff : Disable(t) \/ Delete(t)
    \/ EmailLink \/ Expires
    \/ \E d \in Devices, guess \in 0..codes : RedeemReads(d, guess)
    \/ \E d \in Devices : RedeemHands(d) \/ RedeemRefuses(d)

Spec == Init /\ [][Next]_vars

-----------------------------------------------------------------------------
(* Properties                                                              *)

\* count_admins, disable, block and delete: the last administrator is removed
\* only by a request that counted the others before another one removed one of
\* them; no order of whole requests, invitations and sign-ins leaves none.
AdminsGoOnlyByRace ==
    [][Admins # {} /\ Admins' = {} =>
          \E t \in Staff : staff[t] # None /\ staff'[t] = None /\ staff[t].stale]_vars

\* set_disabled and delete_account against sign_in_with_firebase: an account
\* that is gone has no session left, and one that is disabled none that would
\* work again when it is enabled, but one whose sign-in read the account before
\* it was disabled and committed after.
DisabledHasNoSession ==
    \A d \in Devices :
        session[d].live =>
            /\ session[d].user \in Known
            /\ users[session[d].user].disabled => session[d].overlapped

\* sign_in_with_firebase: an invited address is only ever linked to an identity
\* whose address was verified to be that one; and a person keeps the account they
\* were invited to "rather than gaining a twin", however their first sign-ins
\* race with each other and with the invitation: nobody has two accounts, or an
\* account and a waiting invitation, unless the invitation was made after they
\* had come without one.
LinkedToOwner ==
    /\ \A i \in Known :
          users[i].email # None /\ users[i].uid # None =>
              /\ users[i].uid \in Verified /\ EmailOf[users[i].uid] = users[i].email
    /\ \A uid \in Uids : \A i, j \in Holding(uid) \cup InvitedAs(uid) :
          i # j => users[i].beside \/ users[j].beside

\* redeem and issue: a code is handed its link, or answered, only while it is
\* the newest, unused, and was guessed wrong less than MAX_WRONG times, however
\* redeems and new mails overlap.
CodeIsSpent ==
    [][\A c \in 1..MaxCodes :
          handed'[c] # handed[c] \/ guessed'[c] # guessed[c] =>
              c = codes /\ handed[c] = 0 /\ guessed[c] < MaxWrong]_vars
=============================================================================
