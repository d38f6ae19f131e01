------------------------- MODULE IdempotencyStore -------------------------
(***************************************************************************)
(* One row of the PostgreSQL table idempotency_records: the record of one  *)
(* (scope, key) pair, and the statements of idempotency_repo.go on it.     *)
(*                                                                         *)
(* The two clients of the table extend this module: IdempotencyCoordinator *)
(* (the Idempotency-Key header of write requests) and SystemOperationLock  *)
(* (the global lock of update, rollback and restart).                      *)
(*                                                                         *)
(* Time is relative: a row keeps the time left to locked_until and to      *)
(* expires_at, and every caller keeps its lag, the time since it read the  *)
(* clock.  A caller computes deadlines and compares with "now" from that   *)
(* reading, so an old reading writes a deadline that is lag units shorter. *)
(* Both times left stop at -MaxLag: no caller has an older reading of the  *)
(* clock, so no comparison can tell them apart below.  locked_until NULL   *)
(* is a lock that ran out long ago: every reader treats the two alike.     *)
(***************************************************************************)
EXTENDS Integers, FiniteSets

CONSTANTS
    Calls,              \* the callers; a row is identified by the one that inserted it
    NoRow,              \* not a caller: the id when the table has no row for the key
    Fingerprint,        \* request_fingerprint each caller presents
    ProcessingTimeout,  \* length of a lock
    RecordTTL,          \* length of a record's retention
    MaxLag              \* longest time between reading the clock and using it

ASSUME StoreAssumption ==
    /\ NoRow \notin Calls
    /\ MaxLag \in Nat
    /\ ProcessingTimeout \in Nat /\ ProcessingTimeout > MaxLag
    /\ RecordTTL \in Nat /\ RecordTTL > MaxLag

VARIABLES
    row,    \* [id, fp, status, body, locked, expires]
    pc,     \* phase of each caller
    lag,    \* time since each caller last read the clock
    held    \* record.ID of the claim of each caller, NoRow when it has none

storeVars == <<row, pc, lag, held>>

Status == {"processing", "succeeded", "failed_retryable"}
RowType == [id : Calls \cup {NoRow}, fp : {Fingerprint[c] : c \in Calls} \cup {NoRow},
            status : Status, body : Calls \cup {NoRow}, locked : (-MaxLag)..ProcessingTimeout,
            expires : (-MaxLag)..RecordTTL]

Absent == [id |-> NoRow, fp |-> NoRow, status |-> "succeeded", body |-> NoRow,
           locked |-> -MaxLag, expires |-> -MaxLag]

Exists == row.id # NoRow

StoreInit ==
    /\ row = Absent
    /\ pc = [c \in Calls |-> "idle"]
    /\ lag = [c \in Calls |-> 0]
    /\ held = [c \in Calls |-> NoRow]

Goto(c, phase) == pc' = [pc EXCEPT ![c] = phase]
ReadClock(c) == lag' = [lag EXCEPT ![c] = 0]

\* Only the id column is compared: a caller whose row was deleted updates nothing.
IsMine(c) == Exists /\ row.id = held[c]

---------------------------------------------------------------------------
(***************************************************************************)
(* The statements.                                                         *)
(***************************************************************************)

\* INSERT ... ON CONFLICT DO NOTHING, when there is no row
CreateProcessing(c) ==
    /\ ~Exists
    /\ row' = [id |-> c, fp |-> Fingerprint[c], status |-> "processing", body |-> NoRow,
               locked |-> ProcessingTimeout - lag[c], expires |-> RecordTTL - lag[c]]
    /\ held' = [held EXCEPT ![c] = c]

\* Mutant: the lock is not compared.
ReclaimableUnlocked(c, id, from) == Exists /\ row.id = id /\ row.status = from

\* The WHERE clause of TryReclaim
Reclaimable(c, id, from) ==
    /\ Exists
    /\ row.id = id
    /\ row.status = from
    /\ row.locked <= -lag[c]

\* Mutant: the new retention is added to what is left of the old one.
TryReclaimExtends(c, id, from) ==
    /\ Reclaimable(c, id, from)
    /\ row' = [row EXCEPT !.status = "processing", !.locked = ProcessingTimeout - lag[c],
                          !.expires = @ + RecordTTL]
    /\ held' = [held EXCEPT ![c] = id]

\* The fingerprint and the stored response keep their values
TryReclaim(c, id, from) ==
    /\ Reclaimable(c, id, from)
    /\ row' = [row EXCEPT !.status = "processing", !.locked = ProcessingTimeout - lag[c],
                          !.expires = RecordTTL - lag[c]]
    /\ held' = [held EXCEPT ![c] = id]

Extendable(c) == IsMine(c) /\ row.status = "processing" /\ row.fp = Fingerprint[c]

\* Mutant: a renewal moves expires_at only.
ExtendExpiryOnly(c) ==
    /\ Extendable(c)
    /\ row' = [row EXCEPT !.expires = RecordTTL]

ExtendProcessingLock(c) ==
    /\ Extendable(c)
    /\ row' = [row EXCEPT !.locked = ProcessingTimeout, !.expires = RecordTTL]

\* Mutant: a response that is already stored is kept.
MarkSucceededFirstWins(c, body, expires) ==
    row' = IF IsMine(c)
           THEN [row EXCEPT !.status = "succeeded", !.body = IF @ = NoRow THEN body ELSE @,
                            !.locked = -MaxLag, !.expires = expires]
           ELSE row

MarkSucceeded(c, body, expires) ==
    row' = IF IsMine(c)
           THEN [row EXCEPT !.status = "succeeded", !.body = body, !.locked = -MaxLag,
                            !.expires = expires]
           ELSE row

MarkFailedRetryable(c, locked, expires) ==
    row' = IF IsMine(c)
           THEN [row EXCEPT !.status = "failed_retryable", !.locked = locked,
                            !.expires = expires]
           ELSE row

\* Mutant: the cleanup keeps records that are still processing.
DeleteExpiredFinished ==
    /\ Exists /\ row.expires <= 0 /\ row.status # "processing"
    /\ row' = Absent
    /\ UNCHANGED <<pc, lag, held>>

\* The cleanup service deletes an expired row whatever its status
DeleteExpired ==
    /\ Exists /\ row.expires <= 0
    /\ row' = Absent
    /\ UNCHANGED <<pc, lag, held>>

\* One unit of time
OlderBy(t) == IF t > -MaxLag THEN t - 1 ELSE t
AgeRow == row' = IF Exists THEN [row EXCEPT !.locked = OlderBy(@), !.expires = OlderBy(@)]
                           ELSE row
=============================================================================
