-------------------------- MODULE IdempotencyProofs --------------------------
(***************************************************************************)
(* Theorems about IdempotencyCoordinator.Execute, for any number of calls  *)
(* with one key, detached or not, any fingerprints and any times that      *)
(* satisfy the assumptions.                                                *)
(***************************************************************************)
EXTENDS Idempotency, IdempotencyStoreProofs, FiniteSetTheorems

Reclaiming == {"reclaimExpired", "reclaimFailed"}

\* The statements that claim a key use a recent reading of the clock.
LagInv == \A c \in Calls : pc[c] \in Unclaimed => lag[c] <= MaxLag

(***************************************************************************)
(* The owner of the key is the only one, and the row is its own: still in  *)
(* progress, not near the end of its retention, and locked against every   *)
(* call that decided to reclaim it before the owner claimed it.            *)
(***************************************************************************)
Owns(c) ==
    /\ Exists /\ row.id = held[c] /\ row.status = "processing"
    /\ row.expires + lag[c] >= RecordTTL /\ lag[c] < RecordTTL
    /\ \A d \in Calls : pc[d] \in Claimed => d = c
    /\ \A d \in Calls : pc[d] \in Reclaiming => row.locked + lag[d] > 0

OwnerInv == \A c \in Calls : pc[c] \in Claimed => Owns(c)

(***************************************************************************)
(* What is known of the latest result.                                     *)
(***************************************************************************)
ResultInv ==
    /\ ReplayIsLatest
    /\ \A c \in Calls :
        /\ pc[c] = "markOk" => lastOk = c /\ retained + lag[c] <= RecordTTL
        /\ pc[c] \in {"executing", "markFail"} => retained = 0

(***************************************************************************)
(* While a result is retained its record is there, in progress or          *)
(* succeeded, for at least as long, and a call that started in that time   *)
(* gets no further than reading it.                                        *)
(***************************************************************************)
RetainInv ==
    /\ retained > 0 => /\ Exists /\ row.status \in {"processing", "succeeded"}
                       /\ row.expires >= retained
    /\ \A c \in fresh : retained > 0 /\ pc[c] \in {"create", "get", "done"}

IdemInv == TypeOK /\ LagInv /\ OwnerInv /\ ResultInv /\ RetainInv

USE DEF ghosts, Unclaimed, Claimed, Reclaiming

Pcs == {"idle", "done"} \cup Unclaimed \cup Claimed
Seens == (Calls \cup {NoRow}) \X Status

-----------------------------------------------------------------------------
(***************************************************************************)
(* A call that only moves on: it reads, gives up, fails or stops.          *)
(***************************************************************************)
LEMMA QuietStep ==
  ASSUME IdemInv, NEW c \in Calls, NEW to \in Pcs, Goto(c, to),
         UNCHANGED <<row, lag, held, ghosts>>,
         seen' \in [Calls -> Seens], result' \in [Calls -> Results],
         renewing' \in [Calls -> BOOLEAN],
         to \in Unclaimed => pc[c] \in Unclaimed,
         to \in Claimed => pc[c] \in Claimed,
         to = "markOk" => pc[c] = "markOk",
         to \in {"executing", "markFail"} => pc[c] \in {"executing", "markFail"},
         to \in Reclaiming => row.status # "processing" \/ row.expires <= 0,
         c \in fresh => to \in {"create", "get", "done"}
  PROVE  IdemInv'
  <1>0. /\ pc \in [Calls -> Pcs] /\ lag \in [Calls -> 0..(RecordTTL + MaxLag)] /\ row \in RowType
        /\ pc' = [pc EXCEPT ![c] = to]
    BY DEF IdemInv, TypeOK, Goto, Pcs
  <1>1. TypeOK'
    BY <1>0 DEF IdemInv, TypeOK, Pcs, Seens
  <1>2. LagInv'
    BY <1>0 DEF IdemInv, LagInv
  <1>3. OwnerInv'
    BY <1>0, StoreAssumption DEF IdemInv, OwnerInv, Owns, Exists, RowType
  <1>4. ResultInv'
    BY <1>0 DEF IdemInv, ResultInv, ReplayIsLatest, Exists
  <1>5. RetainInv'
    BY <1>0 DEF IdemInv, RetainInv, Exists
  <1>q. QED
    BY <1>1, <1>2, <1>3, <1>4, <1>5 DEF IdemInv

\* A call that returns, with whatever result, keeps the invariant.
LEMMA ReturnStep ==
  ASSUME IdemInv, NEW c \in Calls, NEW r \in Results, Return(c, r),
         UNCHANGED <<row, lag, held, seen, ghosts>>
  PROVE  IdemInv'
  <1>1. /\ seen' \in [Calls -> Seens] /\ result' \in [Calls -> Results]
        /\ renewing' \in [Calls -> BOOLEAN] /\ Goto(c, "done") /\ "done" \in Pcs
    BY DEF IdemInv, TypeOK, Return, Pcs, Seens
  <1>q. QED
    BY <1>1, QuietStep

\* The steps of Execute that leave the record alone.
LEMMA ReadSteps ==
  ASSUME IdemInv, NEW c \in Calls,
         \/ CreateConflict(c) \/ GetRejected(c) \/ GetExpired(c) \/ Replay(c) \/ Busy(c) \/ Retry(c)
         \/ ReclaimRace(c) \/ StopRenewing(c) \/ Fail(c) \/ StoreError(c) \/ Crash(c)
  PROVE  IdemInv'
  <1>0. /\ seen \in [Calls -> Seens] /\ result \in [Calls -> Results] /\ pc \in [Calls -> Pcs]
        /\ renewing \in [Calls -> BOOLEAN] /\ row \in RowType
        /\ lag \in [Calls -> 0..(RecordTTL + MaxLag)] /\ retained \in 0..RecordTTL /\ RetainInv
    BY DEF IdemInv, TypeOK, Pcs, Seens
  <1>1. CASE \E r \in Results : Return(c, r) /\ UNCHANGED <<row, lag, held, seen, ghosts>>
    BY <1>1, ReturnStep
  <1>2. CASE CreateConflict(c)
    BY <1>0, <1>2, QuietStep DEF CreateConflict, Pcs
  <1>3. ASSUME GetExpired(c) \/ Retry(c)
        PROVE  IdemInv'
    <2>1. pc[c] \in Unclaimed /\ (row.status = "failed_retryable" \/ row.expires <= 0)
      <3>1. CASE GetExpired(c)
        BY <1>0, <3>1, StoreAssumption DEF GetExpired, SeenExpired, RowType
      <3>2. CASE Retry(c)
        BY <3>2 DEF Retry, Decides
      <3>q. QED
        BY <1>3, <3>1, <3>2
    <2>2. c \notin fresh
      BY <1>0, <2>1, StoreAssumption DEF RetainInv, RowType
    <2>3. <<row.id, row.status>> \in Seens
      BY <1>0 DEF RowType, Seens
    <2>4. seen' \in [Calls -> Seens]
      BY <1>0, <1>3, <2>3 DEF GetExpired, Retry
    <2>q. QED
      BY <1>0, <1>3, <2>1, <2>2, <2>4, QuietStep DEF GetExpired, Retry, Pcs
  <1>4. CASE ReclaimRace(c) /\ pc[c] = "reclaimExpired" /\ Goto(c, "reget") /\ UNCHANGED <<result, renewing>>
    <2>1. c \notin fresh
      BY <1>0, <1>4 DEF RetainInv
    <2>q. QED
      BY <1>0, <1>4, <2>1, QuietStep DEF ReclaimRace, Pcs
  <1>5. CASE StopRenewing(c)
    <2>1. Goto(c, pc[c]) /\ pc[c] \in Pcs /\ c \notin fresh
      BY <1>0, <1>5 DEF StopRenewing, Goto, RetainInv
    <2>q. QED
      BY <1>0, <1>5, <2>1, QuietStep DEF StopRenewing
  <1>6. CASE Fail(c)
    <2>1. c \notin fresh
      BY <1>0, <1>6 DEF Fail, RetainInv
    <2>q. QED
      BY <1>0, <1>6, <2>1, QuietStep DEF Fail, Pcs
  <1>q. QED
    BY <1>1, <1>2, <1>3, <1>4, <1>5, <1>6
    DEF GetRejected, Replay, Busy, ReclaimRace, StoreError, Crash, Results

\* A call that starts reads the clock, and notes whether a result is retained.
LEMMA StartStep ==
  ASSUME IdemInv, NEW c \in Calls, Start(c)
  PROVE  IdemInv'
  <1> USE DEF Start, Goto, ReadClock
  <1>0. /\ pc \in [Calls -> Pcs] /\ lag \in [Calls -> 0..(RecordTTL + MaxLag)]
        /\ retained \in 0..RecordTTL
    BY DEF IdemInv, TypeOK, Pcs
  <1>1. TypeOK'
    BY StoreAssumption DEF IdemInv, TypeOK
  <1>2. LagInv'
    BY <1>0, StoreAssumption DEF IdemInv, LagInv
  <1>3. OwnerInv'
    BY <1>0 DEF IdemInv, OwnerInv, Owns, Exists
  <1>4. ResultInv'
    BY <1>0 DEF IdemInv, ResultInv, ReplayIsLatest, Exists
  <1>5. RetainInv'
    BY <1>0 DEF IdemInv, RetainInv, Exists
  <1>q. QED
    BY <1>1, <1>2, <1>3, <1>4, <1>5 DEF IdemInv

(***************************************************************************)
(* A claim, by insert or by take-over: nobody owned the key before, and    *)
(* the lock it writes outlasts whatever the others have read.              *)
(***************************************************************************)
LEMMA ClaimStep ==
  ASSUME IdemInv, NEW c \in Calls, Create(c) \/ Reclaim(c)
  PROVE  IdemInv'
  <1>0. /\ row \in RowType /\ lag \in [Calls -> 0..(RecordTTL + MaxLag)] /\ pc \in [Calls -> Pcs]
        /\ held \in [Calls -> Calls \cup {NoRow}] /\ lag[c] \in 0..MaxLag
        /\ pc[c] \in {"create"} \cup Reclaiming /\ UNCHANGED <<lag, seen, lastOk>>
        /\ ClaimAnswered(c) /\ retained' = 0 /\ fresh' = {}
    BY StoreAssumption DEF IdemInv, TypeOK, LagInv, Create, Reclaim, ClaimAnswered, Pcs
  <1>1. /\ row' \in RowType /\ Exists' /\ row'.status = "processing"
        /\ row'.locked = ProcessingTimeout - lag[c] /\ row'.expires = RecordTTL - lag[c]
        /\ held' = [held EXCEPT ![c] = row'.id]
        /\ ~Exists \/ row.locked <= -lag[c]
    <2>1. CASE Create(c)
      BY <1>0, <2>1, CreateEffect DEF Create, CreateProcessing
    <2>2. CASE Reclaim(c)
      BY <1>0, <2>2, ReclaimEffect DEF Reclaim, TryReclaim
    <2>q. QED
      BY <2>1, <2>2
  <1>2. \A d \in Calls : pc[d] \notin Claimed
    <2>1. CASE Create(c)
      BY <2>1 DEF Create, CreateProcessing, IdemInv, OwnerInv, Owns
    <2>2. CASE Reclaim(c)
      <3>1. Exists /\ row.locked <= -lag[c] /\ pc[c] \in Reclaiming
        BY <2>2 DEF Reclaim, TryReclaim, Reclaimable
      <3>q. QED
        BY <1>0, <3>1 DEF IdemInv, OwnerInv, Owns, RowType
    <2>q. QED
      BY <2>1, <2>2
  <1>3. /\ pc' \in [Calls -> Pcs] /\ pc'[c] \in {"executing", "done"}
        /\ \A d \in Calls \ {c} : pc'[d] = pc[d]
        /\ result' \in [Calls -> Results] /\ renewing' \in [Calls -> BOOLEAN]
    <2>1. pc' = [pc EXCEPT ![c] = "executing"] \/ pc' = [pc EXCEPT ![c] = "done"]
      BY <1>0 DEF ClaimAnswered, Return, Goto
    <2>2. result' \in [Calls -> Results]
      BY <1>0 DEF IdemInv, TypeOK, ClaimAnswered, Return, Results
    <2>3. renewing' = [renewing EXCEPT ![c] = c \in Detached] \/ renewing' = [renewing EXCEPT ![c] = FALSE]
      BY <1>0 DEF ClaimAnswered, Return
    <2>4. (c \in Detached) \in BOOLEAN /\ renewing \in [Calls -> BOOLEAN]
      BY DEF IdemInv, TypeOK
    <2>5. renewing' \in [Calls -> BOOLEAN]
      BY <2>3, <2>4
    <2>q. QED
      BY <1>0, <2>1, <2>2, <2>5 DEF Pcs
  <1>4. TypeOK'
    <2>1. row'.id \in Calls \cup {NoRow}
      BY <1>1 DEF RowType
    <2>2. held' \in [Calls -> Calls \cup {NoRow}]
      BY <1>0, <1>1, <2>1
    <2>3. retained' \in 0..RecordTTL
      BY <1>0, StoreAssumption
    <2>q. QED
      BY <1>0, <1>1, <1>3, <2>2, <2>3 DEF IdemInv, TypeOK, Pcs
  <1>5. LagInv'
    BY <1>0, <1>3 DEF IdemInv, LagInv
  <1>6. OwnerInv'
    <2>1. \A d \in Calls : pc'[d] \in Claimed => d = c
      BY <1>2, <1>3
    <2>2. row'.locked > 0 /\ row'.expires + lag[c] >= RecordTTL /\ lag[c] < RecordTTL
      BY <1>0, <1>1, StoreAssumption
    <2>3. \A d \in Calls : row'.locked + lag'[d] > 0
      BY <1>0, <1>1, <2>2, StoreAssumption
    <2>4. row'.id = held'[c]
      BY <1>0, <1>1
    <2>q. QED
      BY <1>0, <1>1, <2>1, <2>2, <2>3, <2>4 DEF OwnerInv, Owns, Exists
  <1>7. ResultInv'
    BY <1>0, <1>1, <1>2, <1>3 DEF IdemInv, ResultInv, ReplayIsLatest
  <1>8. RetainInv'
    BY <1>0 DEF RetainInv
  <1>q. QED
    BY <1>4, <1>5, <1>6, <1>7, <1>8 DEF IdemInv

\* A renewal of the owner's claim, with a new reading of the clock.
LEMMA RenewStep ==
  ASSUME IdemInv, NEW c \in Calls, Renew(c)
  PROVE  IdemInv'
  <1>0. /\ row \in RowType /\ lag \in [Calls -> 0..(RecordTTL + MaxLag)] /\ pc[c] \in Claimed
        /\ lag' = [lag EXCEPT ![c] = 0] /\ Owns(c)
        /\ UNCHANGED <<pc, held, seen, result, renewing, ghosts>>
    BY DEF IdemInv, TypeOK, Renew, ReadClock, OwnerInv
  <1>1. /\ row' \in RowType /\ row'.id = row.id /\ row'.body = row.body
        /\ row'.status = "processing" /\ row'.locked = ProcessingTimeout /\ row'.expires = RecordTTL
    BY <1>0, ExtendEffect DEF Renew
  <1>2. TypeOK'
    BY <1>0, <1>1, StoreAssumption DEF IdemInv, TypeOK
  <1>3. LagInv'
    BY <1>0 DEF IdemInv, LagInv
  <1>4. OwnerInv'
    <2>1. \A d \in Calls : pc[d] \in Claimed => d = c
      BY <1>0 DEF Owns
    <2>2. \A d \in Calls : row'.locked + lag'[d] > 0
      BY <1>0, <1>1, StoreAssumption
    <2>q. QED
      BY <1>0, <1>1, <2>1, <2>2, StoreAssumption DEF OwnerInv, Owns, Exists
  <1>5. ResultInv'
    BY <1>0, <1>1, StoreAssumption DEF IdemInv, TypeOK, ResultInv, ReplayIsLatest
  <1>6. RetainInv'
    BY <1>0, <1>1, StoreAssumption DEF IdemInv, TypeOK, RetainInv, Owns, Exists
  <1>q. QED
    BY <1>2, <1>3, <1>4, <1>5, <1>6 DEF IdemInv

\* The side effect: from here on its result has to answer for the key.
LEMMA SucceedStep ==
  ASSUME IdemInv, NEW c \in Calls, Succeed(c)
  PROVE  IdemInv'
  <1> USE DEF Succeed, Goto
  <1>0. /\ row \in RowType /\ lag \in [Calls -> 0..(RecordTTL + MaxLag)] /\ pc \in [Calls -> Pcs]
        /\ Owns(c)
    BY DEF IdemInv, TypeOK, OwnerInv, Pcs
  <1>1. TypeOK'
    BY <1>0, StoreAssumption DEF IdemInv, TypeOK, Owns, RowType
  <1>2. LagInv'
    BY <1>0 DEF IdemInv, LagInv
  <1>3. OwnerInv'
    BY <1>0 DEF IdemInv, OwnerInv, Owns, Exists
  <1>4. ResultInv'
    BY <1>0, StoreAssumption DEF Owns, ResultInv, ReplayIsLatest, Exists
  <1>5. RetainInv'
    BY <1>0, StoreAssumption DEF Owns, RetainInv, Exists, RowType
  <1>q. QED
    BY <1>1, <1>2, <1>3, <1>4, <1>5 DEF IdemInv

\* The owner records its outcome and is gone.
LEMMA RecordStep ==
  ASSUME IdemInv, NEW c \in Calls, RecordSuccess(c) \/ RecordFailure(c)
  PROVE  IdemInv'
  <1>0. /\ row \in RowType /\ lag \in [Calls -> 0..(RecordTTL + MaxLag)] /\ pc \in [Calls -> Pcs]
        /\ pc[c] \in {"markOk", "markFail"} /\ Owns(c) /\ IsMine(c)
        /\ UNCHANGED <<lag, held, seen, ghosts>>
    BY DEF IdemInv, TypeOK, OwnerInv, Owns, IsMine, RecordSuccess, RecordFailure, Pcs
  <1>1. /\ RetentionLeft(c) \in (-MaxLag)..RecordTTL /\ RetentionLeft(c) >= RecordTTL - lag[c]
        /\ FailedRetryBackoff \in (-MaxLag)..ProcessingTimeout
    BY <1>0, StoreAssumption, IdempotencyAssumption DEF RetentionLeft, Owns, RowType
  <1>2. /\ row' \in RowType /\ row'.id = row.id
        /\ \/ pc[c] = "markOk" /\ row'.status = "succeeded" /\ row'.body = c
              /\ row'.expires = RetentionLeft(c)
           \/ pc[c] = "markFail" /\ row'.status = "failed_retryable"
    <2>1. CASE RecordSuccess(c)
      BY <1>0, <1>1, <2>1, SucceededEffect DEF RecordSuccess
    <2>2. CASE RecordFailure(c)
      BY <1>0, <1>1, <2>2, FailedEffect DEF RecordFailure
    <2>q. QED
      BY <2>1, <2>2
  <1>3. /\ pc' = [pc EXCEPT ![c] = "done"] /\ result' \in [Calls -> Results]
        /\ renewing' \in [Calls -> BOOLEAN]
    BY ZenonT(40) DEF IdemInv, TypeOK, RecordSuccess, RecordFailure, Return, Goto, Results
  <1>4. TypeOK'
    BY <1>0, <1>2, <1>3 DEF IdemInv, TypeOK
  <1>5. LagInv'
    BY <1>0, <1>3 DEF IdemInv, LagInv
  <1>6. OwnerInv'
    BY <1>0, <1>3 DEF Owns, OwnerInv
  <1>7. ResultInv'
    BY <1>0, <1>2, <1>3 DEF IdemInv, ResultInv, ReplayIsLatest, Owns
  <1>8. RetainInv'
    <2>1. pc[c] = "markOk" => retained <= row'.expires
      BY <1>0, <1>1, <1>2, StoreAssumption DEF IdemInv, TypeOK, ResultInv
    <2>2. pc[c] = "markFail" => retained = 0
      BY DEF IdemInv, ResultInv
    <2>3. retained > 0 => Exists' /\ row'.status = "succeeded" /\ row'.expires >= retained
      BY <1>0, <1>1, <1>2, <2>1, <2>2 DEF Owns, Exists, IdemInv, TypeOK
    <2>4. \A d \in fresh : retained > 0 /\ pc'[d] \in {"create", "get", "done"}
      BY <1>0, <1>3 DEF IdemInv, TypeOK, RetainInv
    <2>q. QED
      BY <1>0, <2>3, <2>4 DEF RetainInv
  <1>q. QED
    BY <1>4, <1>5, <1>6, <1>7, <1>8 DEF IdemInv

\* The cleanup finds neither the record of an owner nor that of a retained result.
LEMMA CleanupStep ==
  ASSUME IdemInv, Cleanup
  PROVE  IdemInv'
  <1>0. /\ row \in RowType /\ lag \in [Calls -> 0..(RecordTTL + MaxLag)] /\ retained \in 0..RecordTTL
        /\ Exists /\ row' \in RowType /\ row.expires <= 0 /\ ~Exists'
        /\ UNCHANGED <<pc, lag, held, seen, result, renewing, ghosts>>
    BY DeleteEffect DEF IdemInv, TypeOK, Cleanup, DeleteExpired
  <1>1. \A c \in Calls : pc[c] \notin Claimed
    BY <1>0, StoreAssumption DEF IdemInv, OwnerInv, Owns, RowType
  <1>2. TypeOK'
    BY <1>0 DEF IdemInv, TypeOK
  <1>3. LagInv' /\ OwnerInv'
    BY <1>0, <1>1 DEF IdemInv, LagInv, OwnerInv
  <1>4. ResultInv'
    BY <1>0, <1>1 DEF ResultInv, ReplayIsLatest
  <1>5. RetainInv'
    BY <1>0 DEF IdemInv, RetainInv, RowType
  <1>q. QED
    BY <1>2, <1>3, <1>4, <1>5 DEF IdemInv

\* A unit of time.
LEMMA TickStep ==
  ASSUME IdemInv, Tick
  PROVE  IdemInv'
  <1>0. /\ row \in RowType /\ lag \in [Calls -> 0..(RecordTTL + MaxLag)] /\ retained \in 0..RecordTTL
        /\ pc \in [Calls -> Pcs] /\ Timely
        /\ lag' = [c \in Calls |-> IF pc[c] \in Unclaimed \cup Claimed THEN lag[c] + 1 ELSE 0]
        /\ UNCHANGED <<pc, held, seen, result, renewing, lastOk>>
        /\ retained' = (IF retained > 0 THEN retained - 1 ELSE 0)
        /\ fresh' = (IF retained > 1 THEN fresh ELSE {})
    BY DEF IdemInv, TypeOK, Tick, Pcs
  <1>1. /\ row' \in RowType /\ row'.id = row.id /\ row'.status = row.status /\ row'.body = row.body
        /\ row'.locked >= row.locked - 1 /\ row'.expires >= row.expires - 1
    BY <1>0, AgeEffect DEF Tick
  <1>2. /\ \A c \in Calls : pc[c] \in Unclaimed => lag'[c] = lag[c] + 1 /\ lag'[c] <= MaxLag
        /\ \A c \in Calls : pc[c] \in Claimed => lag'[c] = lag[c] + 1 /\ lag'[c] < RecordTTL
    BY <1>0, StoreAssumption DEF Timely
  <1>3. TypeOK'
    <2>1. lag' \in [Calls -> 0..(RecordTTL + MaxLag)]
      BY <1>0, <1>2, StoreAssumption
    <2>2. retained' \in 0..RecordTTL
      BY <1>0, StoreAssumption
    <2>3. fresh' \subseteq Calls
      BY <1>0 DEF IdemInv, TypeOK
    <2>q. QED
      BY <1>0, <1>1, <2>1, <2>2, <2>3 DEF IdemInv, TypeOK
  <1>4. LagInv'
    BY <1>0, <1>2 DEF LagInv
  <1>5. OwnerInv'
    BY <1>0, <1>1, <1>2, StoreAssumption DEF IdemInv, OwnerInv, Owns, Exists, RowType
  <1>6. ResultInv'
    BY <1>0, <1>1, <1>2, StoreAssumption DEF IdemInv, ResultInv, ReplayIsLatest, Exists
  <1>7. RetainInv'
    BY <1>0, <1>1 DEF IdemInv, RetainInv, Exists, RowType
  <1>q. QED
    BY <1>3, <1>4, <1>5, <1>6, <1>7 DEF IdemInv

-----------------------------------------------------------------------------
\* The invariant holds initially.
LEMMA IdemInit == Init => IdemInv
  <1> SUFFICES ASSUME Init PROVE IdemInv
    OBVIOUS
  <1>1. row \in RowType
    BY StoreAssumption DEF Init, StoreInit, Absent, RowType, Status
  <1>2. TypeOK
    BY <1>1, StoreAssumption DEF Init, StoreInit, TypeOK, Results, Status
  <1>3. LagInv /\ OwnerInv
    BY StoreAssumption DEF Init, StoreInit, LagInv, OwnerInv
  <1>4. ResultInv /\ RetainInv
    BY DEF Init, StoreInit, Absent, ResultInv, ReplayIsLatest, RetainInv, Exists
  <1>q. QED
    BY <1>2, <1>3, <1>4 DEF IdemInv

\* Every step keeps the invariant.
LEMMA IdemStep == IdemInv /\ [Next]_vars => IdemInv'
  <1> SUFFICES ASSUME IdemInv, [Next]_vars PROVE IdemInv'
    OBVIOUS
  <1>1. ASSUME NEW c \in Calls, Claiming(c) \/ Executing(c) \/ StoreError(c) \/ Crash(c)
        PROVE  IdemInv'
    BY <1>1, ReadSteps, StartStep, ClaimStep, RenewStep, SucceedStep, RecordStep
    DEF Claiming, Executing
  <1>2. CASE Cleanup
    BY <1>2, CleanupStep
  <1>3. CASE Tick
    BY <1>3, TickStep
  <1>4. CASE UNCHANGED vars
    BY <1>4 DEF vars, IdemInv, TypeOK, LagInv, OwnerInv, Owns, ResultInv, ReplayIsLatest, RetainInv,
                Exists
  <1>q. QED
    BY <1>1, <1>2, <1>3, <1>4 DEF Next

\* The invariant holds in every behaviour.
LEMMA IdemAlways == Spec => []IdemInv
  BY IdemInit, IdemStep, PTL DEF Spec

\* Type correctness: deadlines and clock readings stay within their ranges,
\* so the floor at which a deadline stops ageing loses nothing.
THEOREM IdempotencyTypes == Spec => []TypeOK
  <1>1. IdemInv => TypeOK
    BY DEF IdemInv
  <1>q. QED
    BY <1>1, IdemAlways, PTL

\* At most one call owns the key at a time, though the Mark statements compare
\* only the row's id: a claim locks the row against every take-over decided on
\* before it.
THEOREM KeyHasSingleOwner == Spec => []SingleOwner
  <1>1. IdemInv => SingleOwner
    <2> SUFFICES ASSUME IdemInv PROVE SingleOwner
      OBVIOUS
    <2> DEFINE S == {c \in Calls : pc[c] \in Claimed}
    <2>1. CASE S = {}
      BY <2>1, FS_EmptySet DEF SingleOwner
    <2>2. ASSUME NEW c \in S PROVE SingleOwner
      <3>1. S = {c}
        BY <2>2 DEF IdemInv, OwnerInv, Owns
      <3>2. Cardinality(S) = 1
        BY <3>1, FS_Singleton
      <3>q. QED
        BY <3>2 DEF SingleOwner
    <2>q. QED
      BY <2>1, <2>2
  <1>q. QED
    BY <1>1, IdemAlways, PTL

\* A record that answers retries holds the result of the latest side effect.
THEOREM ReplayIsOfLatest == Spec => []ReplayIsLatest
  <1>1. IdemInv => ReplayIsLatest
    BY DEF IdemInv, ResultInv
  <1>q. QED
    BY <1>1, IdemAlways, PTL

\* A call that starts while the result of a side effect is retained, recorded
\* or not, never claims the key.
THEOREM RetriesAreSafe == Spec => RetrySafe
  <1>1. ASSUME IdemInv, [Next]_vars, NEW c \in fresh PROVE held'[c] = held[c]
    <2>1. /\ c \in Calls /\ held \in [Calls -> Calls \cup {NoRow}] /\ Exists
          /\ pc[c] \in {"create", "get", "done"}
      BY <1>1 DEF IdemInv, TypeOK, RetainInv
    <2>2. ASSUME NEW d \in Calls, Create(d) \/ Reclaim(d) PROVE d # c /\ held' = [held EXCEPT ![d] = held'[d]]
      BY <2>1, <2>2 DEF Create, CreateProcessing, Reclaim, TryReclaim
    <2>3. CASE \E d \in Calls : Create(d) \/ Reclaim(d)
      BY <2>1, <2>2, <2>3
    <2>4. CASE UNCHANGED held
      BY <2>4
    <2>q. QED
      BY <1>1, <2>3, <2>4
      DEF Next, Claiming, Executing, Start, CreateConflict, GetRejected, GetExpired, Replay, Busy,
          Retry, ReclaimRace, Renew, StopRenewing, Succeed, Fail, RecordSuccess, RecordFailure,
          StoreError, Crash, Cleanup, DeleteExpired, Tick, vars
  <1>2. IdemInv /\ [Next]_vars => [\A c \in fresh : held'[c] = held[c]]_vars
    BY <1>1
  <1>q. QED
    BY <1>2, IdemAlways, PTL DEF Spec, RetrySafe
==============================================================================
