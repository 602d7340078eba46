----------------------------- MODULE MCAccounts -----------------------------
(* A small instance of Accounts for TLC.                                   *)
EXTENDS Accounts, TLC

CONSTANTS i1, i2, i3, u1, u2, e1, e2, d1, d2, t1, t2

\* Two identities with one address, of which Firebase has verified the first; the
\* other address can be invited and never comes.
MCEmailOf == [u \in Uids |-> e1]

\* Accounts and sign-in codes share no state, so the interleavings of one with the
\* other show nothing more: codes are mailed only where no account has changed.
Separately ==
    codes > 0 => /\ users[First] # None /\ users[First].uid = None /\ spent = {First}
                 /\ ~users[First].disabled
                 /\ \A d \in Devices : signing[d] = None /\ session[d] = NoSession
                 /\ \A t \in Staff : staff[t] = None

MCSymmetry == Permutations(Devices) \cup Permutations(Staff)
=============================================================================
