----------------------- MODULE MCSystemOperationLock -----------------------
(***************************************************************************)
(* Instances of SystemOperationLock for TLC.                               *)
(***************************************************************************)
EXTENDS SystemOperationLock

CONSTANTS c1, c2, c3, op

\* Two attempts at one operation, which share its id, and another operation.
SomeRetries == [c \in Calls |-> IF c = c3 THEN c3 ELSE op]
=============================================================================
