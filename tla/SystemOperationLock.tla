------------------------ MODULE SystemOperationLock ------------------------
(***************************************************************************)
(* SystemOperationLockService: update, rollback and restart of the server  *)
(* take one global lock, a row of idempotency_records under a fixed key    *)
(* (IdempotencyStore), so that they exclude each other across processes.   *)
(*                                                                         *)
(* The row's fingerprint is the operation id of the caller that inserted   *)
(* it; the row stays, "succeeded" or "failed_retryable", after a release,  *)
(* and the next operation takes it over with TryReclaim.                   *)
(***************************************************************************)
EXTENDS IdempotencyStore

\* The retention (an hour by default) is not shorter than a lock (30 seconds).
ASSUME LockAssumption == ProcessingTimeout <= RecordTTL

VARIABLES
    seen,       \* <<id, status>> of the row each operation read
    renewing    \* the renewal goroutine of a held lock is alive

vars == <<row, pc, lag, held, seen, renewing>>

Acquiring == {"create", "get", "reclaim"}

\* The shape of the state.
TypeOK ==
    /\ row \in RowType
    /\ pc \in [Calls -> {"idle", "running", "done"} \cup Acquiring]
    /\ lag \in [Calls -> 0..(ProcessingTimeout + MaxLag)]
    /\ held \in [Calls -> Calls \cup {NoRow}]
    /\ seen \in [Calls -> (Calls \cup {NoRow}) \X Status]
    /\ renewing \in [Calls -> BOOLEAN]

Init ==
    /\ StoreInit
    /\ seen = [c \in Calls |-> <<NoRow, "succeeded">>]
    /\ renewing = [c \in Calls |-> FALSE]

Leave(c) == Goto(c, "done") /\ renewing' = [renewing EXCEPT ![c] = FALSE]

---------------------------------------------------------------------------
(***************************************************************************)
(* Acquire.                                                                *)
(***************************************************************************)

Start(c) ==
    /\ pc[c] = "idle"
    /\ Goto(c, "create")
    /\ ReadClock(c)
    /\ UNCHANGED <<row, held, seen, renewing>>

\* The statement took effect; its reply reaches the caller or is lost.
LockAnswered(c) ==
    \/ Goto(c, "running") /\ renewing' = [renewing EXCEPT ![c] = TRUE]
    \/ Leave(c)

Create(c) ==
    /\ pc[c] = "create"
    /\ CreateProcessing(c)
    /\ LockAnswered(c)
    /\ UNCHANGED <<lag, seen>>

CreateConflict(c) ==
    /\ pc[c] = "create"
    /\ Exists
    /\ Goto(c, "get")
    /\ UNCHANGED <<row, lag, held, seen, renewing>>

LockedByOther(c) == row.status = "processing" /\ row.locked > -lag[c]

\* Missing, or busy
GetRefused(c) ==
    /\ pc[c] = "get"
    /\ Exists => LockedByOther(c)
    /\ Leave(c)
    /\ UNCHANGED <<row, lag, held, seen>>

Get(c) ==
    /\ pc[c] = "get"
    /\ Exists /\ ~LockedByOther(c)
    /\ seen' = [seen EXCEPT ![c] = <<row.id, row.status>>]
    /\ Goto(c, "reclaim")
    /\ UNCHANGED <<row, lag, held, renewing>>

Reclaim(c) ==
    /\ pc[c] = "reclaim"
    /\ TryReclaim(c, seen[c][1], seen[c][2])
    /\ LockAnswered(c)
    /\ UNCHANGED <<lag, seen>>

\* Busy: the row is read once more for the message only
ReclaimRace(c) ==
    /\ pc[c] = "reclaim"
    /\ ~Reclaimable(c, seen[c][1], seen[c][2])
    /\ Leave(c)
    /\ UNCHANGED <<row, lag, held, seen>>

---------------------------------------------------------------------------
(***************************************************************************)
(* Holding and releasing.                                                  *)
(***************************************************************************)

\* A tick of renewLoop; a failed one is skipped.
Renew(c) ==
    /\ pc[c] = "running" /\ renewing[c]
    /\ ExtendProcessingLock(c)
    /\ ReadClock(c)
    /\ UNCHANGED <<pc, held, seen, renewing>>

\* The row no longer carries this operation's id: the loop ends with a log
\* line, the operation itself is not told.
OwnershipLost(c) ==
    /\ pc[c] = "running" /\ renewing[c]
    /\ ~Extendable(c)
    /\ renewing' = [renewing EXCEPT ![c] = FALSE]
    /\ UNCHANGED <<row, pc, lag, held, seen>>

\* The update, rollback or restart ended, well or not
Release(c) ==
    /\ pc[c] = "running"
    /\ MarkSucceeded(c, c, RecordTTL) \/ MarkFailedRetryable(c, 0, RecordTTL)
    /\ Leave(c)
    /\ UNCHANGED <<lag, held, seen>>

\* A statement failed without effect, or the process died: a lock it holds is
\* left to run out
StoreError(c) ==
    /\ pc[c] \in Acquiring \cup {"running"}
    /\ Leave(c)
    /\ UNCHANGED <<row, lag, held, seen>>

Cleanup == DeleteExpired /\ UNCHANGED <<seen, renewing>>

(***************************************************************************)
(* The timing assumption: the clock reading of Acquire is at most MaxLag   *)
(* old when a statement uses it, and a renewal loop that is alive gets a   *)
(* renewal through before the lock runs out.  Nothing bounds an operation  *)
(* whose loop has ended.                                                   *)
(***************************************************************************)
Timely ==
    \A c \in Calls :
        /\ pc[c] \in Acquiring => lag[c] < MaxLag
        /\ renewing[c] => lag[c] + 1 < ProcessingTimeout

Tick ==
    /\ Timely
    /\ AgeRow
    /\ lag' = [c \in Calls |->
                IF pc[c] \in Acquiring \/ (pc[c] = "running" /\ lag[c] < ProcessingTimeout)
                THEN lag[c] + 1
                ELSE lag[c]]
    /\ UNCHANGED <<pc, held, seen, renewing>>

Acquire(c) ==
    \/ Start(c) \/ Create(c) \/ CreateConflict(c) \/ GetRefused(c) \/ Get(c)
    \/ Reclaim(c) \/ ReclaimRace(c)

Next ==
    \/ \E c \in Calls : Acquire(c) \/ Renew(c) \/ OwnershipLost(c) \/ Release(c) \/ StoreError(c)
    \/ Cleanup
    \/ Tick

Spec == Init /\ [][Next]_vars

(***************************************************************************)
(* The condition under which the lock excludes: an operation that took     *)
(* over the row of another one, whose renewals therefore match no row,     *)
(* ends within one lock.                                                   *)
(***************************************************************************)
ShortTakeovers ==
    \A c \in Calls : pc'[c] = "running" /\ row'.fp # Fingerprint[c] => lag'[c] < ProcessingTimeout
ShortSpec == Init /\ [][Next /\ ShortTakeovers]_vars

---------------------------------------------------------------------------
(***************************************************************************)
(* Properties.                                                             *)
(***************************************************************************)

(***************************************************************************)
(* Two system operations never run at the same time: Acquire answers       *)
(* "another system operation is in progress" while one does.               *)
(***************************************************************************)
OneSystemOperation == Cardinality({c \in Calls : pc[c] = "running"}) <= 1

(***************************************************************************)
(* "locked_until should be renewed while lock is held"                     *)
(* (system_operation_lock_service_test.go): the row of a running operation *)
(* is locked, so that the next Acquire finds it busy.                      *)
(***************************************************************************)
HeldLockIsLocked ==
    \A c \in Calls : pc[c] = "running" => IsMine(c) /\ row.status = "processing" /\ row.locked > 0
=============================================================================
