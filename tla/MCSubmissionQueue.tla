------------------------- MODULE MCSubmissionQueue -------------------------
(* Small instances of SubmissionQueue for TLC.                             *)
EXTENDS SubmissionQueue, TLC

CONSTANTS r1, r2, p1, p2, w1, w2

MCTwoRequests == {r1, r2}
MCOneRequest == {r1}
MCSecondBlocked == {r2}
MCLiveAndRehearsal == {TRUE, FALSE}
MCLiveOnly == {TRUE}

\* Executions and presses are interchangeable in every safety run.
MCSymmetry == Permutations(Workers) \cup Permutations(Presses)
=============================================================================
