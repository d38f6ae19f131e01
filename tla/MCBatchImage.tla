---------------------------- MODULE MCBatchImage ----------------------------
(***************************************************************************)
(* Instances of BatchImage for TLC.                                        *)
(***************************************************************************)
EXTENDS BatchImage

CONSTANTS w1, w2, MaxTrouble

\* At most MaxTrouble faults, crashes and cancellations; stalls count once,
\* since a process that stalls is late with all of its heartbeats, and do
\* not come with a crash, after which the same records grow old.  Only one
\* comes with a cancellation (two workers and a cancellation concern the
\* invariants alone, which BatchImageProofs proves without these bounds).
Bounded ==
    /\ budget'.faults + budget'.crashes + budget'.cancels
         + (IF budget'.stalls > 0 THEN 1 ELSE 0) <= MaxTrouble
    /\ budget'.stalls = 0 \/ budget'.crashes = 0
    /\ budget'.stalls <= 1 \/ budget'.cancels = 0

BoundedSpec == Init /\ [][Next /\ Bounded]_vars /\ Fairness
=============================================================================
