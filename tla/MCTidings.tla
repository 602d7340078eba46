----------------------------- MODULE MCTidings -----------------------------
(* A small instance of Tidings for TLC.                                    *)
EXTENDS Tidings, TLC

CONSTANTS u1, u2, own, other, third, s1, s2, t1, t2, c1, c2, p1, p2, j1, j2

MCOwnEmail == [u \in Users |-> own]
MCTypeOf == [c \in Cases |-> "t"]
MCPlaceOf == (c1 :> p1) @@ (c2 :> p2)
MCNear == {p1, p2} \X {p1, p2}
MCPayloads == {[kind |-> "category", type |-> "t"],
               [kind |-> "address", places |-> {p1}, nearby |-> TRUE],
               [kind |-> "area", places |-> {p2}]}

\* Nothing reads a verdict or a stance but the person's own next one, and digests
\* share no state with links: one of these at a time. The second account is there to
\* sign in on the first one's phone.
Apart ==
    LET still == [u \in Users |-> None]
        quiet == pass = [j \in Jobs |-> Quiet]
        phoneless == phones[1] = [u \in Users |-> <<>>]
        linkless == status = None /\ link = still /\ phoneless /\ off = {}
        undigested == watches = [u \in Users |-> {}] /\ digest = [u \in Users |-> NoDigest]
    IN  /\ link[u2] = None /\ verdict[u2] = None /\ stance[u2] = None
        /\ watches[u2] = {} /\ digest[u2] = NoDigest /\ asked \subseteq {u1} \X Addresses
        /\ linkless \/ (clock = 1 /\ undigested /\ asked = {})
        /\ (verdict = still /\ stance = still) \/ (quiet /\ phoneless)

MCSymmetry == Permutations(Jobs) \cup Permutations(Tokens) \cup Permutations(Statuses)
=============================================================================
