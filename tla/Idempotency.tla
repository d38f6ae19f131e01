---------------------------- MODULE Idempotency ----------------------------
(***************************************************************************)
(* IdempotencyCoordinator.Execute: calls that carry one Idempotency-Key    *)
(* run their side effect once and replay its result, over one row of       *)
(* idempotency_records (IdempotencyStore).                                 *)
(*                                                                         *)
(* Every statement is a round trip of its own: any other caller, a crash,  *)
(* the cleanup service or the clock may come between two of them, and each *)
(* may fail, before or after it took effect.  A call reads the clock once, *)
(* when it starts, and uses that reading in every later statement.  A      *)
(* detached call (ExecutionTimeout > 0) renews its claim while it runs.    *)
(*                                                                         *)
(* A call is identified with the response its side effect produces.        *)
(***************************************************************************)
EXTENDS IdempotencyStore

CONSTANTS
    Detached,             \* the calls with an ExecutionTimeout
    FailedRetryBackoff

ASSUME IdempotencyAssumption ==
    /\ Detached \subseteq Calls
    /\ FailedRetryBackoff \in Nat /\ FailedRetryBackoff <= ProcessingTimeout

VARIABLES
    seen,       \* <<id, status>> of the row each call last read
    result,     \* what each call returned
    renewing,   \* the renewal goroutine of a detached call is alive
    lastOk,     \* ghost: the call whose side effect succeeded last
    retained,   \* ghost: time left in which that result must answer for the key
    fresh       \* ghost: the calls that started while it had to, and nobody claimed the key

ghosts == <<lastOk, retained, fresh>>
vars == <<row, pc, lag, held, seen, result, renewing, lastOk, retained, fresh>>

Unclaimed == {"create", "get", "reclaimExpired", "reget", "reclaimFailed"}
Claimed == {"executing", "markOk", "markFail"}
Results == {"none", "ok", "error", "replay", "conflict", "unavailable", "crashed"}

TypeOK ==
    /\ row \in RowType
    /\ pc \in [Calls -> {"idle", "done"} \cup Unclaimed \cup Claimed]
    /\ lag \in [Calls -> 0..(RecordTTL + MaxLag)]
    /\ held \in [Calls -> Calls \cup {NoRow}]
    /\ seen \in [Calls -> (Calls \cup {NoRow}) \X Status]
    /\ result \in [Calls -> Results]
    /\ renewing \in [Calls -> BOOLEAN]
    /\ lastOk \in Calls \cup {NoRow}
    /\ retained \in 0..RecordTTL
    /\ fresh \subseteq Calls

Init ==
    /\ StoreInit
    /\ seen = [c \in Calls |-> <<NoRow, "succeeded">>]
    /\ result = [c \in Calls |-> "none"]
    /\ renewing = [c \in Calls |-> FALSE]
    /\ lastOk = NoRow
    /\ retained = 0
    /\ fresh = {}

\* The call returns r
Return(c, r) ==
    /\ Goto(c, "done")
    /\ result' = [result EXCEPT ![c] = r]
    /\ renewing' = [renewing EXCEPT ![c] = FALSE]

---------------------------------------------------------------------------
(***************************************************************************)
(* Claiming the key.                                                       *)
(***************************************************************************)

Start(c) ==
    /\ pc[c] = "idle"
    /\ Goto(c, "create")
    /\ ReadClock(c)
    /\ fresh' = IF retained > 0 THEN fresh \cup {c} ELSE fresh
    /\ UNCHANGED <<row, held, seen, result, renewing, lastOk, retained>>

\* The statement took effect: either the call learns it and executes, or it
\* gets an error and leaves a claim behind that nobody works on.  Whatever was
\* retained no longer answers for the key.
ClaimAnswered(c) ==
    /\ \/ /\ Goto(c, "executing")
          /\ renewing' = [renewing EXCEPT ![c] = c \in Detached]
          /\ UNCHANGED result
       \/ Return(c, "unavailable")
    /\ retained' = 0
    /\ fresh' = {}

Create(c) ==
    /\ pc[c] = "create"
    /\ CreateProcessing(c)
    /\ ClaimAnswered(c)
    /\ UNCHANGED <<lag, seen, lastOk>>

CreateConflict(c) ==
    /\ pc[c] = "create"
    /\ Exists
    /\ Goto(c, "get")
    /\ UNCHANGED <<row, lag, held, seen, result, renewing, ghosts>>

\* Mutant: the comparison of expires_at with now is missing.
SeenExpiredAlways(c) == TRUE

\* !existing.ExpiresAt.After(now)
SeenExpired(c) == row.expires <= -lag[c]

\* The record read is missing, or belongs to another request
GetRejected(c) ==
    /\ pc[c] \in {"get", "reget"}
    /\ \/ ~Exists /\ Return(c, "unavailable")
       \/ Exists /\ row.fp # Fingerprint[c] /\ Return(c, "conflict")
    /\ UNCHANGED <<row, lag, held, seen, ghosts>>

GetExpired(c) ==
    /\ pc[c] = "get"
    /\ Exists /\ row.fp = Fingerprint[c]
    /\ SeenExpired(c)
    /\ seen' = [seen EXCEPT ![c] = <<row.id, row.status>>]
    /\ Goto(c, "reclaimExpired")
    /\ UNCHANGED <<row, lag, held, result, renewing, ghosts>>

\* Decide on a record that may not be reclaimed as expired
Decides(c) ==
    /\ Exists /\ row.fp = Fingerprint[c]
    /\ pc[c] = "reget" \/ (pc[c] = "get" /\ ~SeenExpired(c))

\* A truncated response does not decode: the replay fails.
Replay(c) ==
    /\ Decides(c)
    /\ row.status = "succeeded"
    /\ \E r \in {"replay", "unavailable"} : Return(c, r)
    /\ UNCHANGED <<row, lag, held, seen, ghosts>>

\* In progress, or in the backoff of a failure
Busy(c) ==
    /\ Decides(c)
    /\ \/ row.status = "processing"
       \/ row.status = "failed_retryable" /\ row.locked > -lag[c]
    /\ Return(c, "conflict")
    /\ UNCHANGED <<row, lag, held, seen, ghosts>>

Retry(c) ==
    /\ Decides(c)
    /\ row.status = "failed_retryable" /\ row.locked <= -lag[c]
    /\ seen' = [seen EXCEPT ![c] = <<row.id, row.status>>]
    /\ Goto(c, "reclaimFailed")
    /\ UNCHANGED <<row, lag, held, result, renewing, ghosts>>

Reclaim(c) ==
    /\ pc[c] \in {"reclaimExpired", "reclaimFailed"}
    /\ TryReclaim(c, seen[c][1], seen[c][2])
    /\ ClaimAnswered(c)
    /\ UNCHANGED <<lag, seen, lastOk>>

\* Another call was faster: read again, or give up
ReclaimRace(c) ==
    /\ ~Reclaimable(c, seen[c][1], seen[c][2])
    /\ \/ pc[c] = "reclaimExpired" /\ Goto(c, "reget") /\ UNCHANGED <<result, renewing>>
       \/ pc[c] = "reclaimFailed" /\ Return(c, "conflict")
    /\ UNCHANGED <<row, lag, held, seen, ghosts>>

---------------------------------------------------------------------------
(***************************************************************************)
(* Executing and recording.                                                *)
(***************************************************************************)

\* A tick of renewProcessingLease; an error is ignored until the next tick.
Renew(c) ==
    /\ pc[c] \in Claimed /\ renewing[c]
    /\ ExtendProcessingLock(c)
    /\ ReadClock(c)
    /\ UNCHANGED <<pc, held, seen, result, renewing, ghosts>>

\* The goroutine ends: the claim is lost, or the ExecutionTimeout has passed
StopRenewing(c) ==
    /\ pc[c] \in Claimed /\ renewing[c]
    /\ renewing' = [renewing EXCEPT ![c] = FALSE]
    /\ UNCHANGED <<row, pc, lag, held, seen, result, ghosts>>

\* The side effect happened.  Its result must answer for the key until the
\* retention counted from the last clock reading ends.
Succeed(c) ==
    /\ pc[c] = "executing"
    /\ Goto(c, "markOk")
    /\ lastOk' = c
    /\ retained' = RecordTTL - lag[c]
    /\ fresh' = {}
    /\ UNCHANGED <<row, lag, held, seen, result, renewing>>

\* execute returned an error
Fail(c) ==
    /\ pc[c] = "executing"
    /\ Goto(c, "markFail")
    /\ UNCHANGED <<row, lag, held, seen, result, renewing, ghosts>>

\* expiresAt is counted from the start of the call, or from now when detached
RetentionLeft(c) == IF c \in Detached THEN RecordTTL ELSE RecordTTL - lag[c]

RecordSuccess(c) ==
    /\ pc[c] = "markOk"
    /\ MarkSucceeded(c, c, RetentionLeft(c))
    /\ \E r \in {"ok", "unavailable"} : Return(c, r)
    /\ UNCHANGED <<lag, held, seen, ghosts>>

RecordFailure(c) ==
    /\ pc[c] = "markFail"
    /\ MarkFailedRetryable(c, FailedRetryBackoff, RetentionLeft(c))
    /\ Return(c, "error")
    /\ UNCHANGED <<lag, held, seen, ghosts>>

\* A statement failed without effect, or the response could not be marshalled:
\* a claim stays as it is
StoreError(c) ==
    /\ pc[c] \in Unclaimed \cup {"markOk", "markFail"}
    /\ Return(c, IF pc[c] = "markFail" THEN "error" ELSE "unavailable")
    /\ UNCHANGED <<row, lag, held, seen, ghosts>>

Crash(c) ==
    /\ pc[c] \in Unclaimed \cup Claimed
    /\ Return(c, "crashed")
    /\ UNCHANGED <<row, lag, held, seen, ghosts>>

Cleanup == DeleteExpired /\ UNCHANGED <<seen, result, renewing, ghosts>>

(***************************************************************************)
(* The timing assumption: the statements that claim a key follow the       *)
(* reading of the clock within MaxLag, and a claim is worked off, or       *)
(* renewed, before the retention of its record ends.                       *)
(***************************************************************************)
Timely ==
    \A c \in Calls :
        /\ pc[c] \in Unclaimed => lag[c] < MaxLag
        /\ pc[c] \in Claimed => lag[c] + 1 < RecordTTL

Tick ==
    /\ Timely
    /\ AgeRow
    /\ lag' = [c \in Calls |-> IF pc[c] \in Unclaimed \cup Claimed THEN lag[c] + 1 ELSE 0]
    /\ retained' = IF retained > 0 THEN retained - 1 ELSE 0
    /\ fresh' = IF retained > 1 THEN fresh ELSE {}
    /\ UNCHANGED <<pc, held, seen, result, renewing, lastOk>>

Claiming(c) ==
    \/ Start(c) \/ Create(c) \/ CreateConflict(c)
    \/ GetRejected(c) \/ GetExpired(c) \/ Replay(c) \/ Busy(c) \/ Retry(c)
    \/ Reclaim(c) \/ ReclaimRace(c)

Executing(c) ==
    \/ Renew(c) \/ StopRenewing(c)
    \/ Succeed(c) \/ Fail(c) \/ RecordSuccess(c) \/ RecordFailure(c)

Next ==
    \/ \E c \in Calls : Claiming(c) \/ Executing(c) \/ StoreError(c) \/ Crash(c)
    \/ Cleanup
    \/ Tick

Spec == Init /\ [][Next]_vars

\* Statements return, executions end, the cleanup runs every interval and time passes.
Fairness ==
    /\ \A c \in Calls :
        /\ WF_vars(pc[c] # "idle" /\ Claiming(c))
        /\ WF_vars(pc[c] \in Claimed /\ (Succeed(c) \/ Fail(c) \/ RecordSuccess(c) \/ RecordFailure(c)))
    /\ WF_vars(Cleanup)
    /\ WF_vars(Tick)

FairSpec == Spec /\ Fairness

---------------------------------------------------------------------------
(***************************************************************************)
(* Properties.                                                             *)
(***************************************************************************)

(***************************************************************************)
(* At most one call at a time owns the key, from its claim to the end of   *)
(* the statement that records the outcome: the Mark statements compare the *)
(* row's id only, so a second owner would have its outcome overwritten.    *)
(***************************************************************************)
SingleOwner == Cardinality({c \in Calls : pc[c] \in Claimed}) <= 1

(***************************************************************************)
(* A record that answers retries holds the result of the latest side       *)
(* effect, never that of an execution that a reclaim has superseded.       *)
(***************************************************************************)
ReplayIsLatest == (Exists /\ row.status = "succeeded") => row.body = lastOk

(***************************************************************************)
(* A call that starts after a side effect succeeded does not claim the key *)
(* while the result is retained, even when recording it failed.  Once a    *)
(* call that started earlier has claimed it (the reclaim of a record that  *)
(* was read before it was renewed, see SingleSideEffect) nothing is        *)
(* promised any more: if that call fails, its record invites a retry.      *)
(***************************************************************************)
RetrySafe == [][\A c \in fresh : held'[c] = held[c]]_vars

(***************************************************************************)
(* "concurrent same-key requests should execute business side-effect once" *)
(* (idempotency_test.go): nobody executes while a result is retained.      *)
(***************************************************************************)
SingleSideEffect ==
    [][\A c \in Calls : pc[c] # "executing" /\ pc'[c] = "executing" => retained = 0]_vars

(***************************************************************************)
(* A key whose owner crashed, or lost the reply to its claim, does not     *)
(* stay in progress for ever: the record is deleted or claimed again.      *)
(***************************************************************************)
Orphaned == Exists /\ row.status = "processing" /\ \A c \in Calls : pc[c] \notin Claimed
OrphanFreed == Orphaned ~> ~Orphaned
=============================================================================
