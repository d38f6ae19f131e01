---------------------- MODULE SystemOperationLockProofs ----------------------
(***************************************************************************)
(* Theorems about SystemOperationLockService, for any number of operations *)
(* and attempts, any operation ids and any times that satisfy the          *)
(* assumptions.                                                            *)
(***************************************************************************)
EXTENDS SystemOperationLock, IdempotencyStoreProofs, FiniteSetTheorems

\* The statements of Acquire use a recent reading of the clock.
LagInv == \A c \in Calls : pc[c] \in Acquiring => lag[c] <= MaxLag

(***************************************************************************)
(* A running operation is the only one.  The row carries its claim, locked *)
(* and retained since its last reading of the clock, which is younger than *)
(* a lock; if the row also carries its operation id its renewal loop is    *)
(* alive, because nothing made it match no row.                            *)
(***************************************************************************)
Holds(c) ==
    /\ Exists /\ row.id = held[c] /\ row.status = "processing"
    /\ row.locked + lag[c] >= ProcessingTimeout
    /\ row.expires + lag[c] >= RecordTTL
    /\ lag[c] < ProcessingTimeout
    /\ row.fp = Fingerprint[c] => renewing[c]
    /\ \A d \in Calls : pc[d] = "running" => d = c

RunInv == \A c \in Calls : pc[c] = "running" => Holds(c)

LockInv == TypeOK /\ LagInv /\ RunInv

\* The lock of an operation that cannot renew it outlasts the next step.
InTime ==
    \A c \in Calls : pc[c] = "running" /\ row.fp # Fingerprint[c] => lag'[c] < ProcessingTimeout

Pcs == {"idle", "running", "done"} \cup Acquiring
Seens == (Calls \cup {NoRow}) \X Status
Lags == 0..(ProcessingTimeout + MaxLag)

USE DEF Acquiring

-----------------------------------------------------------------------------
\* An operation that only moves on: it reads, is refused, fails or stops.
LEMMA QuietStep ==
  ASSUME LockInv, NEW c \in Calls, NEW to \in Pcs \ {"running"}, Goto(c, to),
         UNCHANGED <<row, lag, held>>, seen' \in [Calls -> Seens],
         to \in Acquiring => pc[c] \in Acquiring,
         renewing' \in [Calls -> BOOLEAN], \A d \in Calls \ {c} : renewing'[d] = renewing[d]
  PROVE  LockInv'
  <1>0. pc \in [Calls -> Pcs] /\ pc' = [pc EXCEPT ![c] = to]
    BY DEF LockInv, TypeOK, Goto, Pcs
  <1>1. TypeOK'
    BY <1>0 DEF LockInv, TypeOK, Pcs, Seens
  <1>2. LagInv'
    BY <1>0 DEF LockInv, LagInv
  <1>3. RunInv'
    BY <1>0 DEF LockInv, RunInv, Holds, Exists
  <1>q. QED
    BY <1>1, <1>2, <1>3 DEF LockInv

\* An attempt that ends keeps the invariant.
LEMMA LeaveStep ==
  ASSUME LockInv, NEW c \in Calls, Leave(c), UNCHANGED <<row, lag, held, seen>>
  PROVE  LockInv'
  <1>1. /\ seen' \in [Calls -> Seens] /\ renewing' \in [Calls -> BOOLEAN]
        /\ \A d \in Calls \ {c} : renewing'[d] = renewing[d]
        /\ Goto(c, "done") /\ "done" \in Pcs \ {"running"}
    BY DEF LockInv, TypeOK, Leave, Pcs, Seens
  <1>q. QED
    BY <1>1, QuietStep

\* The steps that leave the record alone.
LEMMA ReadSteps ==
  ASSUME LockInv, NEW c \in Calls,
         \/ CreateConflict(c) \/ GetRefused(c) \/ Get(c) \/ ReclaimRace(c) \/ StoreError(c)
  PROVE  LockInv'
  <1>0. /\ seen \in [Calls -> Seens] /\ renewing \in [Calls -> BOOLEAN] /\ row \in RowType
    BY DEF LockInv, TypeOK, Seens
  <1>1. CASE Leave(c) /\ UNCHANGED <<row, lag, held, seen>>
    BY <1>1, LeaveStep
  <1>2. CASE CreateConflict(c)
    BY <1>0, <1>2, QuietStep DEF CreateConflict, Pcs
  <1>3. CASE Get(c)
    <2>1. <<row.id, row.status>> \in Seens
      BY <1>0 DEF RowType, Seens
    <2>2. seen' \in [Calls -> Seens]
      BY <1>0, <1>3, <2>1 DEF Get
    <2>q. QED
      BY <1>0, <1>3, <2>2, QuietStep DEF Get, Pcs
  <1>q. QED
    BY <1>1, <1>2, <1>3 DEF GetRefused, ReclaimRace, StoreError

\* An operation that starts reads the clock.
LEMMA StartStep ==
  ASSUME LockInv, NEW c \in Calls, Start(c)
  PROVE  LockInv'
  <1> USE DEF Start, Goto, ReadClock
  <1>0. pc \in [Calls -> Pcs] /\ lag \in [Calls -> Lags]
    BY DEF LockInv, TypeOK, Pcs, Lags
  <1>1. TypeOK'
    BY StoreAssumption DEF LockInv, TypeOK
  <1>2. LagInv'
    BY <1>0, StoreAssumption DEF LockInv, LagInv
  <1>3. RunInv'
    BY <1>0 DEF LockInv, RunInv, Holds, Exists
  <1>q. QED
    BY <1>1, <1>2, <1>3 DEF LockInv

\* The row of a running operation is locked, so nobody takes it over.
LEMMA ClaimStep ==
  ASSUME LockInv, NEW c \in Calls, Create(c) \/ Reclaim(c)
  PROVE  LockInv'
  <1>0. /\ row \in RowType /\ lag \in [Calls -> Lags] /\ pc \in [Calls -> Pcs]
        /\ held \in [Calls -> Calls \cup {NoRow}] /\ lag[c] \in 0..MaxLag
        /\ pc[c] \in Acquiring /\ UNCHANGED <<lag, seen>> /\ LockAnswered(c)
        /\ renewing \in [Calls -> BOOLEAN]
    BY StoreAssumption DEF LockInv, TypeOK, LagInv, Create, Reclaim, Pcs, Lags
  <1>1. /\ row' \in RowType /\ Exists' /\ row'.status = "processing"
        /\ row'.locked = ProcessingTimeout - lag[c] /\ row'.expires = RecordTTL - lag[c]
        /\ held' = [held EXCEPT ![c] = row'.id]
        /\ ~Exists \/ row.locked <= -lag[c]
    <2>1. CASE Create(c)
      BY <1>0, <2>1, CreateEffect DEF Create, CreateProcessing
    <2>2. CASE Reclaim(c)
      BY <1>0, <2>2, ReclaimEffect DEF Reclaim, TryReclaim
    <2>q. QED
      BY <2>1, <2>2
  <1>2. \A d \in Calls : pc[d] # "running"
    BY <1>0, <1>1, StoreAssumption DEF LockInv, RunInv, Holds, RowType, Lags
  <1>3. /\ pc' \in [Calls -> Pcs] /\ renewing' \in [Calls -> BOOLEAN]
        /\ \A d \in Calls \ {c} : pc'[d] = pc[d]
        /\ \/ pc'[c] = "running" /\ renewing'[c]
           \/ pc'[c] = "done"
    <2>1. CASE Goto(c, "running") /\ renewing' = [renewing EXCEPT ![c] = TRUE]
      BY <1>0, <2>1 DEF Goto, Pcs
    <2>2. CASE Leave(c)
      BY <1>0, <2>2 DEF Leave, Goto, Pcs
    <2>q. QED
      BY <1>0, <2>1, <2>2 DEF LockAnswered
  <1>4. TypeOK'
    <2>1. row'.id \in Calls \cup {NoRow}
      BY <1>1 DEF RowType
    <2>2. held' \in [Calls -> Calls \cup {NoRow}]
      BY <1>0, <1>1, <2>1
    <2>q. QED
      BY <1>0, <1>1, <1>3, <2>2 DEF LockInv, TypeOK, Pcs
  <1>5. LagInv'
    BY <1>0, <1>3 DEF LockInv, LagInv
  <1>6. RunInv'
    <2>1. \A d \in Calls : pc'[d] = "running" => d = c
      BY <1>2, <1>3
    <2>2. /\ row'.locked + lag[c] >= ProcessingTimeout /\ row'.expires + lag[c] >= RecordTTL
          /\ lag[c] < ProcessingTimeout
      BY <1>0, <1>1, StoreAssumption
    <2>3. row'.id = held'[c]
      BY <1>0, <1>1
    <2>q. QED
      BY <1>0, <1>1, <1>3, <2>1, <2>2, <2>3 DEF RunInv, Holds, Exists
  <1>q. QED
    BY <1>4, <1>5, <1>6 DEF LockInv

\* A tick of renewLoop, or its end: the loop of an operation whose id the row
\* carries does not end.
LEMMA RenewSteps ==
  ASSUME LockInv, NEW c \in Calls, Renew(c) \/ OwnershipLost(c)
  PROVE  LockInv'
  <1>0. /\ row \in RowType /\ lag \in [Calls -> Lags] /\ pc[c] = "running" /\ Holds(c)
        /\ renewing \in [Calls -> BOOLEAN] /\ UNCHANGED <<pc, held, seen>>
        /\ \A d \in Calls : pc[d] = "running" => d = c
    BY DEF LockInv, TypeOK, RunInv, Holds, Renew, OwnershipLost, Lags
  <1>1. CASE Renew(c)
    <2>1. /\ row' \in RowType /\ row'.id = row.id /\ row'.fp = row.fp
          /\ row'.status = "processing" /\ row'.locked = ProcessingTimeout /\ row'.expires = RecordTTL
      BY <1>0, <1>1, ExtendEffect DEF Renew
    <2>2. lag' = [lag EXCEPT ![c] = 0] /\ UNCHANGED renewing
      BY <1>1 DEF Renew, ReadClock
    <2>3. TypeOK'
      BY <1>0, <2>1, <2>2, StoreAssumption DEF LockInv, TypeOK
    <2>4. LagInv'
      BY <1>0, <2>2 DEF LockInv, LagInv
    <2>5. RunInv'
      BY <1>0, <2>1, <2>2, StoreAssumption DEF RunInv, Holds, Exists
    <2>q. QED
      BY <2>3, <2>4, <2>5 DEF LockInv
  <1>2. CASE OwnershipLost(c)
    <2>1. UNCHANGED <<row, lag>> /\ renewing' = [renewing EXCEPT ![c] = FALSE]
      BY <1>2 DEF OwnershipLost
    <2>2. row.fp # Fingerprint[c]
      BY <1>0, <1>2 DEF OwnershipLost, Extendable, IsMine, Holds
    <2>3. TypeOK' /\ LagInv'
      BY <1>0, <2>1 DEF LockInv, TypeOK, LagInv
    <2>4. RunInv'
      BY <1>0, <2>1, <2>2 DEF RunInv, Holds, Exists
    <2>q. QED
      BY <2>3, <2>4 DEF LockInv
  <1>q. QED
    BY <1>1, <1>2

\* The operation ends; no other was running.
LEMMA ReleaseStep ==
  ASSUME LockInv, NEW c \in Calls, Release(c)
  PROVE  LockInv'
  <1>0. /\ row \in RowType /\ pc \in [Calls -> Pcs] /\ UNCHANGED <<lag, held, seen>>
        /\ \A d \in Calls : pc[d] = "running" => d = c
        /\ pc' = [pc EXCEPT ![c] = "done"] /\ renewing' = [renewing EXCEPT ![c] = FALSE]
    BY DEF LockInv, TypeOK, RunInv, Holds, Release, Leave, Goto, Pcs
  <1>1. row' \in RowType
    <2>1. RecordTTL \in (-MaxLag)..RecordTTL /\ 0 \in (-MaxLag)..ProcessingTimeout
      BY StoreAssumption
    <2>q. QED
      BY <1>0, <2>1, SucceededEffect, FailedEffect DEF Release
  <1>2. TypeOK'
    BY <1>0, <1>1 DEF LockInv, TypeOK
  <1>3. LagInv' /\ RunInv'
    BY <1>0 DEF LockInv, LagInv, RunInv
  <1>q. QED
    BY <1>2, <1>3 DEF LockInv

\* The cleanup deletes no row that is held.
LEMMA CleanupStep ==
  ASSUME LockInv, Cleanup
  PROVE  LockInv'
  <1>0. /\ row \in RowType /\ lag \in [Calls -> Lags] /\ row' \in RowType /\ row.expires <= 0
        /\ UNCHANGED <<pc, lag, held, seen, renewing>>
    BY DeleteEffect DEF LockInv, TypeOK, Cleanup, Lags
  <1>1. \A c \in Calls : pc[c] # "running"
    BY <1>0, StoreAssumption, LockAssumption DEF LockInv, RunInv, Holds, RowType, Lags
  <1>2. TypeOK'
    BY <1>0 DEF LockInv, TypeOK
  <1>3. LagInv' /\ RunInv'
    BY <1>0, <1>1 DEF LockInv, LagInv, RunInv
  <1>q. QED
    BY <1>2, <1>3 DEF LockInv

\* Time keeps the invariant while renewals are timely.
LEMMA TickStep ==
  ASSUME LockInv, Tick, InTime
  PROVE  LockInv'
  <1>0. /\ row \in RowType /\ lag \in [Calls -> Lags] /\ pc \in [Calls -> Pcs] /\ Timely
        /\ UNCHANGED <<pc, held, seen, renewing>>
        /\ lag' = [c \in Calls |->
                    IF pc[c] \in Acquiring \/ (pc[c] = "running" /\ lag[c] < ProcessingTimeout)
                    THEN lag[c] + 1 ELSE lag[c]]
    BY DEF LockInv, TypeOK, Tick, Pcs, Lags
  <1>1. /\ row' \in RowType /\ row'.id = row.id /\ row'.fp = row.fp /\ row'.status = row.status
        /\ row'.locked >= row.locked - 1 /\ row'.expires >= row.expires - 1
    BY <1>0, AgeEffect DEF Tick
  <1>2. TypeOK'
    <2>1. lag' \in [Calls -> Lags]
      BY <1>0, StoreAssumption DEF Timely, Lags, LockInv, LagInv
    <2>q. QED
      BY <1>0, <1>1, <2>1 DEF LockInv, TypeOK, Lags
  <1>3. LagInv'
    BY <1>0, StoreAssumption DEF LagInv, Timely, Lags
  <1>4. ASSUME NEW c \in Calls, pc[c] = "running" PROVE Holds(c)'
    <2>1. Holds(c) /\ lag'[c] = lag[c] + 1 /\ lag[c] \in Lags
      BY <1>0, <1>4 DEF LockInv, RunInv, Holds
    <2>2. lag'[c] < ProcessingTimeout
      <3>1. CASE row.fp = Fingerprint[c]
        BY <1>0, <2>1, <3>1, StoreAssumption DEF Holds, Timely, Lags
      <3>2. CASE row.fp # Fingerprint[c]
        BY <1>4, <3>2 DEF InTime
      <3>q. QED
        BY <3>1, <3>2
    <2>q. QED
      BY <1>0, <1>1, <2>1, <2>2, StoreAssumption DEF Holds, Exists, RowType, Lags
  <1>q. QED
    BY <1>0, <1>2, <1>3, <1>4 DEF LockInv, RunInv

-----------------------------------------------------------------------------
\* The invariant holds initially.
LEMMA LockInit == Init => LockInv
  <1> SUFFICES ASSUME Init PROVE LockInv
    OBVIOUS
  <1>1. row \in RowType
    BY StoreAssumption DEF Init, StoreInit, Absent, RowType, Status
  <1>2. TypeOK
    BY <1>1, StoreAssumption DEF Init, StoreInit, TypeOK, Status
  <1>3. LagInv /\ RunInv
    BY DEF Init, StoreInit, LagInv, RunInv
  <1>q. QED
    BY <1>2, <1>3 DEF LockInv

\* Every step keeps the invariant if time passes only within the lock of a holder that cannot renew.
LEMMA LockStep ==
  ASSUME LockInv, [Next]_vars, Tick => InTime
  PROVE  LockInv'
  <1>1. ASSUME NEW c \in Calls,
               Acquire(c) \/ Renew(c) \/ OwnershipLost(c) \/ Release(c) \/ StoreError(c)
        PROVE  LockInv'
    BY <1>1, ReadSteps, StartStep, ClaimStep, RenewSteps, ReleaseStep DEF Acquire
  <1>2. CASE Cleanup
    BY <1>2, CleanupStep
  <1>3. CASE Tick
    BY <1>3, TickStep
  <1>4. CASE UNCHANGED vars
    BY <1>4 DEF vars, LockInv, TypeOK, LagInv, RunInv, Holds, Exists
  <1>q. QED
    BY <1>1, <1>2, <1>3, <1>4 DEF Next

\* Two holders would both own the one row.
LEMMA LockExcludes == LockInv => OneSystemOperation
  <1> SUFFICES ASSUME LockInv PROVE OneSystemOperation
    OBVIOUS
  <1> DEFINE S == {c \in Calls : pc[c] = "running"}
  <1>1. CASE S = {}
    BY <1>1, FS_EmptySet DEF OneSystemOperation
  <1>2. ASSUME NEW c \in S PROVE OneSystemOperation
    <2>1. S = {c}
      BY <1>2 DEF LockInv, RunInv, Holds
    <2>2. Cardinality(S) = 1
      BY <2>1, FS_Singleton
    <2>q. QED
      BY <2>2 DEF OneSystemOperation
  <1>q. QED
    BY <1>1, <1>2

\* A holder's row is locked.
LEMMA LockIsLocked == LockInv => HeldLockIsLocked
  BY StoreAssumption DEF LockInv, TypeOK, RunInv, Holds, HeldLockIsLocked, IsMine, RowType

\* A step of ShortSpec keeps the invariant.
LEMMA ShortInTime == LockInv /\ [Next /\ ShortTakeovers]_vars => LockInv'
  <1> SUFFICES ASSUME LockInv, [Next /\ ShortTakeovers]_vars PROVE LockInv'
    OBVIOUS
  <1>1. CASE UNCHANGED vars
    BY <1>1 DEF vars, LockInv, TypeOK, LagInv, RunInv, Holds, Exists
  <1>2. CASE Next /\ ShortTakeovers
    <2>1. ASSUME Tick PROVE InTime
      <3>1. row'.fp = row.fp /\ pc' = pc
        BY <2>1, AgeEffect DEF Tick, LockInv, TypeOK
      <3>q. QED
        BY <1>2, <3>1 DEF ShortTakeovers, InTime
    <2>q. QED
      BY <1>2, <2>1, LockStep
  <1>q. QED
    BY <1>1, <1>2

\* Two system operations never run at the same time, whatever statements fail
\* and processes die, as long as an operation that took over the row of
\* another one ends within one lock.  Without that condition it is false
\* (ExtendProcessingLock compares the operation id, TryReclaim keeps it).
THEOREM OperationsExclude == ShortSpec => []OneSystemOperation
  BY LockInit, ShortInTime, LockExcludes, PTL DEF ShortSpec

\* Under the same condition the row of a running operation is its own and
\* locked: locked_until is renewed while the lock is held.
THEOREM HeldLocksAreLocked == ShortSpec => []HeldLockIsLocked
  BY LockInit, ShortInTime, LockIsLocked, PTL DEF ShortSpec

-----------------------------------------------------------------------------
(***************************************************************************)
(* Attempts at one operation share its id: no condition is needed.         *)
(***************************************************************************)
SameOperation == \A c, d \in Calls : Fingerprint[c] = Fingerprint[d]

IdInv == Exists => row.fp \in {Fingerprint[c] : c \in Calls}

\* A step between attempts at one operation keeps the invariant.
LEMMA SameStep ==
  ASSUME SameOperation, LockInv, IdInv, [Next]_vars
  PROVE  LockInv' /\ IdInv'
  <1>0. row \in RowType /\ lag \in [Calls -> Lags]
    BY DEF LockInv, TypeOK, Lags
  <1>1. InTime
    BY DEF LockInv, RunInv, Holds, IdInv, SameOperation, InTime
  <1>2. LockInv'
    BY <1>1, LockStep
  <1>3. IdInv'
    <2>1. CASE UNCHANGED row
      BY <2>1 DEF IdInv, Exists
    <2>2. ASSUME NEW c \in Calls, Create(c) PROVE IdInv'
      BY <2>2 DEF Create, CreateProcessing, IdInv
    <2>3. CASE row'.fp = row.fp /\ row'.id = row.id
      BY <2>3 DEF IdInv, Exists
    <2>4. ASSUME NEW c \in Calls, Reclaim(c) PROVE IdInv'
      <3>1. lag[c] \in 0..MaxLag
        BY <1>0, <2>4, StoreAssumption DEF LockInv, LagInv, Reclaim, Lags
      <3>q. QED
        BY <1>0, <2>3, <2>4, <3>1, ReclaimEffect DEF Reclaim
    <2>5. ASSUME NEW c \in Calls, Renew(c) PROVE IdInv'
      BY <1>0, <2>3, <2>5, ExtendEffect DEF Renew
    <2>6. ASSUME NEW c \in Calls, Release(c) PROVE IdInv'
      <3>1. RecordTTL \in (-MaxLag)..RecordTTL /\ 0 \in (-MaxLag)..ProcessingTimeout
        BY StoreAssumption
      <3>q. QED
        BY <1>0, <2>3, <2>6, <3>1, SucceededEffect, FailedEffect DEF Release
    <2>7. CASE Cleanup
      BY <2>7, DeleteEffect DEF Cleanup, IdInv
    <2>8. CASE Tick
      BY <1>0, <2>3, <2>8, AgeEffect DEF Tick
    <2>q. QED
      BY <2>1, <2>2, <2>4, <2>5, <2>6, <2>7, <2>8
      DEF Next, Acquire, Start, CreateConflict, GetRefused, Get, ReclaimRace, OwnershipLost,
          StoreError, vars
  <1>q. QED
    BY <1>2, <1>3

\* Attempts at one operation exclude each other, and each keeps its row
\* locked, however long it runs.
THEOREM AttemptsExclude ==
  ASSUME SameOperation
  PROVE  Spec => [](OneSystemOperation /\ HeldLockIsLocked)
  <1>1. Init => IdInv
    BY DEF Init, StoreInit, Absent, IdInv, Exists
  <1>2. LockInv /\ IdInv /\ [Next]_vars => (LockInv /\ IdInv)'
    BY SameStep
  <1>3. LockInv => OneSystemOperation /\ HeldLockIsLocked
    BY LockExcludes, LockIsLocked
  <1>q. QED
    BY <1>1, <1>2, <1>3, LockInit, PTL DEF Spec
==============================================================================
