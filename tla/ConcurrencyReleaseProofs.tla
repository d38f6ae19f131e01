--------------------- MODULE ConcurrencyReleaseProofs ---------------------
(***************************************************************************)
(* Theorems about the giving back of slots in ConcurrencyLease: the        *)
(* cancellation domain that ends with its last slot, for any number of     *)
(* slots in a domain, and the recovery map that retries the releases whose *)
(* outcome is unknown, for any number of processes, calls and retries.     *)
(***************************************************************************)
EXTENDS ConcurrencyLeaseProofs

USE DEF redisVars, callVars, recoverVars, execVars

(***************************************************************************)
(* A domain counts its slots: while its capacity lasts, slots is the       *)
(* number of calls between retainSlot and releaseSlot.  Without it a       *)
(* domain could be taken down to zero slots by an admission.               *)
(***************************************************************************)
Holding == {"running", "renewing", "draining", "releasing"}
Holders(e) == {o \in Owners : ExecOf[o] = e /\ pc[o] \in Holding}

SlotsCounted(e) == capDone[e] \/ slots[e] = Cardinality(Holders(e))
Ended(e) == parentDone[e] /\ notified[e] /\ slots[e] = 0 => capDone[e]

DomainInv ==
    \A e \in Execs : SlotsCounted(e) /\ (notified[e] => parentDone[e]) /\ Ended(e)

(***************************************************************************)
(* The calls of a domain are finitely many.                                *)
(***************************************************************************)
LEMMA HoldersFinite ==
  ASSUME NEW e \in Execs
  PROVE  IsFiniteSet(Holders(e)) /\ Cardinality(Holders(e)) \in Nat
  <1>1. Holders(e) \in SUBSET Owners /\ IsFiniteSet(Owners)
    BY SetsAssumption DEF Holders
  <1>2. IsFiniteSet(Holders(e))
    BY <1>1, FS_Subset
  <1>q. QED
    BY <1>2, FS_CardinalityType

(***************************************************************************)
(* A step that leaves the domains and the calls that hold slots alone.     *)
(***************************************************************************)
LEMMA DomainFrame ==
  ASSUME DomainInv, UNCHANGED execVars,
         \A o \in Owners : pc'[o] \in Holding <=> pc[o] \in Holding
  PROVE  DomainInv'
  <1>1. \A e \in Execs : Holders(e)' = Holders(e)
    BY DEF Holders
  <1>q. QED
    BY <1>1 DEF DomainInv, SlotsCounted, Ended

(***************************************************************************)
(* retainSlot, at the end of acquireRequestSlot.                           *)
(***************************************************************************)
LEMMA DomainAcquired ==
  ASSUME TypeOK, DomainInv, NEW o \in Owners, Acquired(o)
  PROVE  DomainInv'
  <1> DEFINE x == ExecOf[o]
  <1>0. x \in Execs
    BY MapsAssumption
  <1>1. /\ UNCHANGED <<parentDone, notified, capDone>>
        /\ slots'[x] = slots[x] + 1
        /\ \A e \in Execs : e # x => slots'[e] = slots[e]
    BY <1>0 DEF Acquired, TypeOK
  <1>2. Holders(x)' = Holders(x) \cup {o} /\ o \notin Holders(x)
    BY DEF Acquired, Goto, Holders, Holding, TypeOK
  <1>3. \A e \in Execs : e # x => Holders(e)' = Holders(e)
    BY DEF Acquired, Goto, Holders, Holding, TypeOK
  <1>4. Cardinality(Holders(x)') = Cardinality(Holders(x)) + 1
    BY <1>0, <1>2, HoldersFinite, FS_AddElement
  <1>5. SlotsCounted(x)' /\ (notified'[x] => parentDone'[x]) /\ Ended(x)'
    BY <1>0, <1>1, <1>4, HoldersFinite DEF DomainInv, SlotsCounted, Ended
  <1>6. ASSUME NEW e \in Execs, e # x
        PROVE  SlotsCounted(e)' /\ (notified'[e] => parentDone'[e]) /\ Ended(e)'
    BY <1>1, <1>3, <1>6 DEF DomainInv, SlotsCounted, Ended
  <1>q. QED
    BY <1>5, <1>6 DEF DomainInv

(***************************************************************************)
(* releaseSlot, when the release of a call has ended either way.           *)
(***************************************************************************)
LEMMA DomainReleased ==
  ASSUME TypeOK, DomainInv, NEW o \in Owners, Reclaimed(o) \/ ReclaimError(o)
  PROVE  DomainInv'
  <1> DEFINE x == ExecOf[o]
  <1>0. x \in Execs
    BY MapsAssumption
  <1>1. /\ UNCHANGED <<parentDone, notified, execDone>>
        /\ pc' = [pc EXCEPT ![o] = "done"]
        /\ pc[o] \in {"uncertain", "releasing"}
        /\ ReleaseSlot(o)
    BY DEF Reclaimed, ReclaimError, Goto
  <1>2. CASE pc[o] = "uncertain"
    <2>1. UNCHANGED execVars
      BY <1>1, <1>2 DEF ReleaseSlot
    <2>2. \A p \in Owners : pc'[p] \in Holding <=> pc[p] \in Holding
      BY <1>1, <1>2 DEF Holding, TypeOK
    <2>q. QED
      BY <2>1, <2>2, DomainFrame
  <1>3. CASE pc[o] = "releasing"
    <2>1. /\ slots'[x] = slots[x] - 1
          /\ capDone'[x] = (capDone[x] \/ (slots[x] = 1 /\ parentDone[x]))
          /\ \A e \in Execs : e # x => slots'[e] = slots[e] /\ capDone'[e] = capDone[e]
      BY <1>0, <1>1, <1>3 DEF ReleaseSlot, TypeOK
    <2>2. Holders(x)' = Holders(x) \ {o} /\ o \in Holders(x)
      BY <1>1, <1>3 DEF Holders, Holding, TypeOK
    <2>3. \A e \in Execs : e # x => Holders(e)' = Holders(e)
      BY <1>1, <1>3 DEF Holders, Holding, TypeOK
    <2>4. Cardinality(Holders(x)') = Cardinality(Holders(x)) - 1
      BY <1>0, <2>2, HoldersFinite, FS_RemoveElement
    <2>5. SlotsCounted(x)' /\ Ended(x)'
      <3>1. slots[x] \in Int /\ SlotsCounted(x) /\ Ended(x)
        BY <1>0 DEF TypeOK, DomainInv
      <3>2. SlotsCounted(x)'
        BY <2>1, <2>4, <3>1 DEF SlotsCounted
      <3>3. Ended(x)'
        <4>1. slots[x] = 1 /\ parentDone[x] => capDone'[x]
          BY <2>1
        <4>2. slots'[x] = 0 => slots[x] = 1
          BY <2>1, <3>1
        <4>q. QED
          BY <1>1, <4>1, <4>2 DEF Ended
      <3>q. QED
        BY <3>2, <3>3
    <2>6. ASSUME NEW e \in Execs, e # x
          PROVE  SlotsCounted(e)' /\ Ended(e)'
      BY <1>1, <2>1, <2>3, <2>6 DEF DomainInv, SlotsCounted, Ended
    <2>q. QED
      BY <1>1, <2>5, <2>6 DEF DomainInv
  <1>q. QED
    BY <1>1, <1>2, <1>3

(***************************************************************************)
(* The renewal goroutine gives a lost lease up: the domain is cancelled.   *)
(***************************************************************************)
LEMMA DomainLease ==
  ASSUME TypeOK, DomainInv, NEW o \in Owners, LeaseStep(o)
  PROVE  DomainInv'
  <1>0. ExecOf[o] \in Execs
    BY MapsAssumption
  <1>1. ASSUME Renew(o) \/ Renewed(o) \/ Finish(o) \/ FinishWhileRenewing(o)
        PROVE  DomainInv'
    <2>1. UNCHANGED execVars
      BY <1>1 DEF Renew, Renewed, Finish, FinishWhileRenewing
    <2>2. \A p \in Owners : pc'[p] \in Holding <=> pc[p] \in Holding
      BY <1>1 DEF Renew, Renewed, Finish, FinishWhileRenewing, Goto, Holding, TypeOK
    <2>q. QED
      BY <2>1, <2>2, DomainFrame
  <1>2. ASSUME LeaseLost(o) \/ Drained(o)
        PROVE  DomainInv'
    <2>1. UNCHANGED <<slots, parentDone, notified>>
      BY <1>2 DEF LeaseLost, Drained
    <2>2. \A p \in Owners : pc'[p] \in Holding <=> pc[p] \in Holding
      BY <1>2 DEF LeaseLost, Drained, Goto, Holding, TypeOK
    <2>3. \A e \in Execs : capDone[e] => capDone'[e]
      BY <1>0, <1>2 DEF LeaseLost, Drained, CancelDomain, TypeOK
    <2>4. \A e \in Execs : Holders(e)' = Holders(e)
      BY <2>2 DEF Holders
    <2>q. QED
      BY <2>1, <2>3, <2>4 DEF DomainInv, SlotsCounted, Ended
  <1>q. QED
    BY <1>1, <1>2, DomainReleased DEF LeaseStep

(***************************************************************************)
(* Disconnects, the goroutine that follows them, and crashes.              *)
(***************************************************************************)
LEMMA DomainEnv ==
  ASSUME TypeOK, DomainInv, EnvStep
  PROVE  DomainInv'
  <1>1. ASSUME NEW x \in Execs, Disconnect(x) PROVE DomainInv'
    <2>1. UNCHANGED <<slots, notified, capDone, pc>>
      BY <1>1 DEF Disconnect
    <2>2. parentDone' = [parentDone EXCEPT ![x] = TRUE] /\ ~parentDone[x]
      BY <1>1 DEF Disconnect
    <2>3. \A e \in Execs : Holders(e)' = Holders(e)
      BY <2>1 DEF Holders
    <2>q. QED
      BY <2>1, <2>2, <2>3 DEF DomainInv, SlotsCounted, Ended, TypeOK
  <1>2. ASSUME NEW x \in Execs, AfterParent(x) PROVE DomainInv'
    <2>1. UNCHANGED <<slots, parentDone, pc>> /\ parentDone[x]
      BY <1>2 DEF AfterParent
    <2>2. /\ notified' = [notified EXCEPT ![x] = TRUE]
          /\ capDone' = [capDone EXCEPT ![x] = @ \/ slots[x] = 0]
      BY <1>2 DEF AfterParent
    <2>3. \A e \in Execs : Holders(e)' = Holders(e)
      BY <2>1 DEF Holders
    <2>q. QED
      BY <2>1, <2>2, <2>3 DEF DomainInv, SlotsCounted, Ended, TypeOK
  <1>3. ASSUME NEW g \in Groups, SetLimit(g) PROVE DomainInv'
    BY <1>3, DomainFrame DEF SetLimit
  <1>4. ASSUME NEW i \in Instances, Crash(i) PROVE DomainInv'
    <2> DEFINE mine == {o \in OnInst(i) : pc[o] \notin {"idle", "done"}}
               dead == {ExecOf[o] : o \in mine}
    <2>1. UNCHANGED <<parentDone, notified>>
      BY <1>4 DEF Crash
    <2>2. \A e \in Execs : e \in dead => capDone'[e]
      BY <1>4 DEF Crash
    <2>3. \A e \in Execs : e \notin dead => slots'[e] = slots[e] /\ capDone'[e] = capDone[e]
      BY <1>4 DEF Crash, TypeOK
    <2>4. ASSUME NEW e \in Execs, e \notin dead PROVE Holders(e)' = Holders(e)
      <3>1. \A o \in Owners : ExecOf[o] = e => o \notin mine
        BY <2>4
      <3>2. \A o \in Owners : o \notin mine => pc'[o] = pc[o]
        BY <1>4 DEF Crash
      <3>q. QED
        BY <3>1, <3>2 DEF Holders
    <2>q. QED
      BY <2>1, <2>2, <2>3, <2>4 DEF DomainInv, SlotsCounted, Ended
  <1>q. QED
    BY <1>1, <1>2, <1>3, <1>4 DEF EnvStep

\* A domain starts without slots.
LEMMA DomainInit == Init => DomainInv
  <1> SUFFICES ASSUME Init PROVE DomainInv
    OBVIOUS
  <1>1. \A e \in Execs : Holders(e) = {}
    BY DEF Init, Holders, Holding
  <1>q. QED
    BY <1>1, FS_EmptySet DEF Init, DomainInv, SlotsCounted, Ended

\* Every step keeps the count of a domain.
LEMMA DomainStep == TypeOK /\ DomainInv /\ [Next]_vars => DomainInv'
  <1> SUFFICES ASSUME TypeOK, DomainInv, [Next]_vars PROVE DomainInv'
    OBVIOUS
  <1>1. ASSUME UNCHANGED <<pc, execVars>> PROVE DomainInv'
    BY <1>1, DomainFrame
  <1>2. CASE RedisStep
    <2>1. UNCHANGED <<pc, execVars>>
      BY <1>2 DEF RedisStep, ExecAcquire, ExecRefresh, ExecRelease, Reap
    <2>q. QED
      BY <1>1, <2>1
  <1>3. CASE RecoverStep
    <2>1. UNCHANGED <<pc, execVars>>
      BY <1>3 DEF RecoverStep, WorkerTake, RecoverCall, RecoverReply, RecoverError
    <2>q. QED
      BY <1>1, <2>1
  <1>4. ASSUME NEW o \in Owners, AdmitStep(o) PROVE DomainInv'
    <2>1. ASSUME Decline(o) \/ Begin(o) \/ Recovered(o) \/ Reserve(o) \/ ReserveRefused(o)
                 \/ PoolFull(o) \/ AcquireError(o)
          PROVE  DomainInv'
      <3>1. UNCHANGED execVars
        BY <2>1 DEF Decline, Begin, Recovered, Reserve, ReserveRefused, PoolFull, AcquireError
      <3>2. /\ pc[o] \notin Holding
            /\ \E l \in Phases \ Holding : pc' = [pc EXCEPT ![o] = l]
        BY <2>1 DEF Decline, Begin, Recovered, Reserve, ReserveRefused, PoolFull, AcquireError,
                    Goto, Holding, Phases
      <3>q. QED
        BY <3>1, <3>2, DomainFrame DEF TypeOK
    <2>q. QED
      BY <1>4, <2>1, DomainAcquired DEF AdmitStep
  <1>5. CASE Tick
    BY <1>1, <1>5 DEF Tick
  <1>6. CASE UNCHANGED vars
    BY <1>1, <1>6 DEF vars
  <1>q. QED
    BY <1>2, <1>3, <1>4, <1>5, <1>6, DomainLease, DomainEnv DEF Next

(***************************************************************************)
(* A disconnected request is left without capacity once it holds no slot,  *)
(* however its disconnect, the goroutine told of it, its admissions and    *)
(* its releases interleave.                                                *)
(***************************************************************************)
THEOREM DisconnectEnds == Spec => []DisconnectedDomainEnds
  <1>1. DomainInv => DisconnectedDomainEnds
    BY DEF DomainInv, Ended, DisconnectedDomainEnds
  <1>q. QED
    BY <1>1, TypeInit, TypeStep, DomainInit, DomainStep, PTL DEF Spec

(***************************************************************************)
(* Capacity ends with the last slot, with a lost lease of the domain, or   *)
(* with the process: never because the client went away.                   *)
(***************************************************************************)
THEOREM DrainKeeps == Spec => DrainKeepsCapacity
  <1> DEFINE Keeps ==
        \A e \in Execs : ~capDone[e] /\ capDone'[e] =>
          \/ slots'[e] = 0
          \/ \E o \in Owners : ExecOf[o] = e /\ pc[o] \in {"renewing", "draining"}
                               /\ reply[o] # "ok" /\ pc'[o] # pc[o]
  <1>1. TypeOK /\ [Next]_vars => [Keeps]_vars
    <2> SUFFICES ASSUME TypeOK, Next, NEW e \in Execs, ~capDone[e], capDone'[e]
                 PROVE  \/ slots'[e] = 0
                        \/ \E o \in Owners : ExecOf[o] = e /\ pc[o] \in {"renewing", "draining"}
                                             /\ reply[o] # "ok" /\ pc'[o] # pc[o]
      OBVIOUS
    <2>1. ~(capDone' = capDone)
      OBVIOUS
    <2>2. ~RedisStep /\ ~RecoverStep /\ ~Tick
      BY <2>1 DEF RedisStep, ExecAcquire, ExecRefresh, ExecRelease, Reap, RecoverStep,
                  WorkerTake, RecoverCall, RecoverReply, RecoverError, Tick
    <2>3. ASSUME NEW o \in Owners, AdmitStep(o) PROVE FALSE
      BY <2>1, <2>3 DEF AdmitStep, Decline, Begin, Recovered, Reserve, ReserveRefused, Acquired,
                        PoolFull, AcquireError
    <2>4. ASSUME NEW o \in Owners, LeaseLost(o) \/ Drained(o)
          PROVE  ExecOf[o] = e /\ pc[o] \in {"renewing", "draining"} /\ reply[o] # "ok"
                 /\ pc'[o] # pc[o]
      BY <2>4, MapsAssumption DEF LeaseLost, Drained, CancelDomain, Goto, TypeOK
    <2>5. ASSUME NEW o \in Owners, Reclaimed(o) \/ ReclaimError(o)
          PROVE  slots'[e] = 0
      <3>1. ReleaseSlot(o)
        BY <2>5 DEF Reclaimed, ReclaimError
      <3>q. QED
        BY <3>1, MapsAssumption DEF ReleaseSlot, TypeOK
    <2>6. ASSUME NEW o \in Owners, LeaseStep(o)
          PROVE  LeaseLost(o) \/ Drained(o) \/ Reclaimed(o) \/ ReclaimError(o)
      BY <2>1, <2>6 DEF LeaseStep, Renew, Renewed, Finish, FinishWhileRenewing
    <2>7. ASSUME EnvStep PROVE slots'[e] = 0
      <3>1. ASSUME NEW x \in Execs, AfterParent(x) PROVE slots'[e] = 0
        BY <3>1 DEF AfterParent, TypeOK
      <3>2. ASSUME NEW i \in Instances, Crash(i) PROVE slots'[e] = 0
        BY <3>2 DEF Crash, TypeOK
      <3>q. QED
        BY <2>1, <2>7, <3>1, <3>2 DEF EnvStep, Disconnect, SetLimit
    <2>q. QED
      BY <2>2, <2>3, <2>4, <2>5, <2>6, <2>7 DEF Next
  <1>q. QED
    BY <1>1, TypeInit, TypeStep, PTL DEF Spec, DrainKeepsCapacity

-----------------------------------------------------------------------------
(***************************************************************************)
(* The recovery map.  From the moment its acquire is sent until its        *)
(* release is settled a call has a record that is not pending.             *)
(***************************************************************************)
Reserved == {"acquiring", "uncertain", "running", "renewing", "draining", "releasing"}

(***************************************************************************)
(* A recovered record belongs to the process of its recoverer, is busy as  *)
(* long as it is pending, and was taken by one recoverer only.  A record   *)
(* that expires while it is recovered leaves the map; the batch that holds *)
(* it shrinks later.                                                       *)
(***************************************************************************)
Home(c) == IF c \in Owners THEN InstOf[c] ELSE c

TakenInv ==
    /\ BusyHasOneRecoverer
    /\ \A c \in Callers : \A p \in batch[c] : p \in pending => p \in busy
    /\ \A c \in Callers : \A p \in batch[c] : InstOf[p] = Home(c)

(***************************************************************************)
(* What an answer tells the one who awaits it: a refused acquire and a     *)
(* confirmed release leave no member, and only a command nobody awaits can *)
(* write it again.  A pending record outlives the member it stands for.    *)
(***************************************************************************)
Gone(o) == o \notin members \/ o \in excused

OutlivesInv == \A o \in pending : Gone(o) \/ age[o] + left[o] >= TTL
RefusedInv == \A o \in Owners : pc[o] = "acquiring" /\ reply[o] = "no" => o \notin members
ConfirmedInv ==
    /\ \A o \in Owners : pc[o] \in {"uncertain", "releasing"} /\ reply[o] = "ok" => Gone(o)
    /\ \A c \in Callers : target[c] # None /\ reply[c] = "ok" => Gone(target[c])

LeakInv == NoSilentLeak /\ OutlivesInv /\ RefusedInv /\ ConfirmedInv

(***************************************************************************)
(* Only reserveConcurrencyOwner adds a record, and a record is dropped or  *)
(* marked pending by its own call, or once that call has ended.            *)
(***************************************************************************)
LEMMA SpaceFrame ==
  ASSUME TypeOK, RecoverySpaceReserved, owners' \subseteq owners,
         \A o \in Owners : pc'[o] \in Reserved =>
            pc[o] \in Reserved /\ (o \in owners => o \in owners') /\ (o \in pending' => o \in pending)
  PROVE  RecoverySpaceReserved'
  <1>1. ASSUME NEW i \in Instances
        PROVE  Cardinality(owners' \cap OnInst(i)) <= Capacity
    <2>1. IsFiniteSet(owners \cap OnInst(i))
      BY SetsAssumption, FS_Subset DEF OnInst
    <2>2. owners' \cap OnInst(i) \in SUBSET (owners \cap OnInst(i))
      OBVIOUS
    <2>3. Cardinality(owners' \cap OnInst(i)) <= Cardinality(owners \cap OnInst(i))
      BY <2>1, <2>2, FS_Subset
    <2>4. /\ Cardinality(owners' \cap OnInst(i)) \in Nat
          /\ Cardinality(owners \cap OnInst(i)) \in Nat
      BY <2>1, <2>2, FS_Subset, FS_CardinalityType
    <2>5. Cardinality(owners \cap OnInst(i)) <= Capacity
      BY DEF RecoverySpaceReserved
    <2>q. QED
      BY <2>3, <2>4, <2>5, LimitsAssumption
  <1>2. \A o \in Owners : pc'[o] \in Reserved => o \in owners' \ pending'
    BY DEF RecoverySpaceReserved, Reserved
  <1>q. QED
    BY <1>1, <1>2 DEF RecoverySpaceReserved, Reserved, OnInst

\* reserveConcurrencyOwner adds a record only where there is room.
LEMMA SpaceReserve ==
  ASSUME TypeOK, RecoverInv, RecoverySpaceReserved, NEW o \in Owners, Reserve(o)
  PROVE  RecoverySpaceReserved'
  <1> DEFINE E == Evictable(o)
  <1>1. E \subseteq pending /\ \A p \in E : pc[p] = "done"
    BY DEF Evictable, Elapsed, RecoverInv
  <1>2. /\ owners' = (owners \ E) \cup {o}
        /\ pending' = pending \ E
        /\ pc' = [pc EXCEPT ![o] = "acquiring"]
        /\ pc[o] = "reserving"
    BY DEF Reserve, Goto
  <1>3. \A i \in Instances : IsFiniteSet((owners \ E) \cap OnInst(i))
    BY SetsAssumption, FS_Subset DEF OnInst
  <1>4. ASSUME NEW i \in Instances
        PROVE  Cardinality(owners' \cap OnInst(i)) <= Capacity
    <2> DEFINE S == (owners \ E) \cap OnInst(i)
    <2>1. Cardinality(S) \in Nat /\ IsFiniteSet(S)
      BY <1>3, FS_CardinalityType
    <2>2. CASE InstOf[o] = i
      <3>1. Cardinality(S) < Capacity
        BY <2>2 DEF Reserve, HasRoom
      <3>2. owners' \cap OnInst(i) = S \cup {o}
        BY <1>2, <2>2 DEF OnInst
      <3>3. Cardinality(S \cup {o}) <= Cardinality(S) + 1
        BY <2>1, FS_AddElement
      <3>4. Cardinality(S \cup {o}) \in Nat
        BY <2>1, FS_AddElement, FS_CardinalityType
      <3>5. Cardinality(owners' \cap OnInst(i)) = Cardinality(S \cup {o})
        BY <3>2
      <3> HIDE DEF S
      <3>q. QED
        BY <2>1, <3>1, <3>3, <3>4, <3>5, LimitsAssumption
    <2>3. CASE InstOf[o] # i
      <3>1. owners' \cap OnInst(i) = S
        BY <1>2, <2>3 DEF OnInst
      <3>2. S \in SUBSET (owners \cap OnInst(i)) /\ IsFiniteSet(owners \cap OnInst(i))
        BY SetsAssumption, FS_Subset DEF OnInst
      <3>3. Cardinality(S) <= Cardinality(owners \cap OnInst(i))
        BY <3>2, FS_Subset
      <3>4. /\ Cardinality(owners \cap OnInst(i)) \in Nat
            /\ Cardinality(owners \cap OnInst(i)) <= Capacity
        BY <3>2, FS_CardinalityType DEF RecoverySpaceReserved
      <3> HIDE DEF S
      <3>q. QED
        BY <2>1, <3>1, <3>3, <3>4, LimitsAssumption
    <2>q. QED
      BY <2>2, <2>3
  <1>5. o \notin pending
    BY <1>2 DEF RecoverInv
  <1>6. \A p \in Owners : pc'[p] \in Reserved => p \in owners' \ pending'
    BY <1>1, <1>2, <1>5 DEF RecoverySpaceReserved, Reserved, TypeOK
  <1>q. QED
    BY <1>4, <1>6 DEF RecoverySpaceReserved, Reserved, OnInst

\* Every step keeps the reserved space.
LEMMA SpaceStep ==
  ASSUME TypeOK, RecoverInv, RecoverySpaceReserved, [Next]_vars
  PROVE  RecoverySpaceReserved'
  <1>1. ASSUME UNCHANGED <<pc, owners, pending>> PROVE RecoverySpaceReserved'
    BY <1>1, SpaceFrame
  <1>2. CASE RedisStep
    <2>1. UNCHANGED <<pc, owners, pending>>
      BY <1>2 DEF RedisStep, ExecAcquire, ExecRefresh, ExecRelease, Reap
    <2>q. QED
      BY <1>1, <2>1
  <1>3. ASSUME NEW F, \A p \in F : p \in Owners => pc[p] = "done", UNCHANGED pc,
               owners' = owners \ F, pending' \subseteq pending
        PROVE  RecoverySpaceReserved'
    BY <1>3, SpaceFrame DEF Reserved
  <1>4. CASE RecoverStep
    <2>1. ASSUME NEW i \in Instances, WorkerTake(i) PROVE RecoverySpaceReserved'
      <3> DEFINE F == Elapsed(pending \cap OnInst(i))
      <3>1. UNCHANGED pc /\ owners' = owners \ F /\ pending' \subseteq pending
        BY <2>1 DEF WorkerTake, Take
      <3>2. \A p \in F : pc[p] = "done"
        BY DEF Elapsed, RecoverInv
      <3>q. QED
        BY <1>3, <3>1, <3>2
    <2>2. ASSUME NEW c \in Callers, RecoverCall(c) PROVE RecoverySpaceReserved'
      BY <1>1, <2>2 DEF RecoverCall
    <2>3. ASSUME NEW c \in Callers, NEW p \in batch[c], NEW ok \in BOOLEAN, RecoverEnd(c, p, ok), UNCHANGED pc
          PROVE  RecoverySpaceReserved'
      <3>1. pc[p] = "done"
        BY <2>3 DEF RecoverInv
      <3>2. CASE ok
        <4>1. owners' = owners \ {p} /\ pending' \subseteq pending
          BY <2>3, <3>2 DEF RecoverEnd, FinishRecovery, Forget
        <4>q. QED
          BY <2>3, <3>1, <4>1, SpaceFrame DEF Reserved
      <3>3. CASE ~ok
        BY <1>1, <2>3, <3>3 DEF RecoverEnd, FinishRecovery
      <3>q. QED
        BY <3>2, <3>3
    <2>4. ASSUME NEW c \in Callers, RecoverReply(c) PROVE RecoverySpaceReserved'
      <3>1. target[c] \in batch[c] /\ RecoverEnd(c, target[c], TRUE) /\ UNCHANGED pc
        BY <2>4 DEF RecoverReply, RecoverInv
      <3>q. QED
        BY <2>3, <3>1
    <2>5. ASSUME NEW c \in Callers, RecoverError(c) PROVE RecoverySpaceReserved'
      BY <2>3, <2>5 DEF RecoverError
    <2>q. QED
      BY <1>4, <2>1, <2>2, <2>4, <2>5 DEF RecoverStep
  <1>5. ASSUME NEW o \in Owners, AdmitStep(o) PROVE RecoverySpaceReserved'
    <2>1. ASSUME Decline(o) \/ Recovered(o) PROVE RecoverySpaceReserved'
      <3>1. /\ UNCHANGED <<owners, pending>>
            /\ \E l \in {"done", "reserving"} : pc' = [pc EXCEPT ![o] = l]
        BY <2>1 DEF Decline, Recovered, Goto
      <3>q. QED
        BY <3>1, SpaceFrame DEF Reserved, TypeOK
    <2>2. ASSUME Begin(o) PROVE RecoverySpaceReserved'
      <3> DEFINE P == pending \cap OnInst(InstOf[o]) \cap InGroup(GroupOf[o])
      <3>1. /\ owners' = owners \ Elapsed(P) /\ pending' \subseteq pending
            /\ \E l \in {"done", "reserving", "recovering"} : pc' = [pc EXCEPT ![o] = l]
        BY <2>2 DEF Begin, Take, Goto
      <3>2. \A p \in Elapsed(P) : pc[p] = "done"
        BY DEF Elapsed, RecoverInv
      <3>q. QED
        BY <3>1, <3>2, SpaceFrame DEF Reserved, TypeOK
    <2>3. ASSUME ReserveRefused(o) PROVE RecoverySpaceReserved'
      <3>1. /\ owners' = owners \ Evictable(o) /\ pending' \subseteq pending
            /\ pc' = [pc EXCEPT ![o] = "done"]
        BY <2>3 DEF ReserveRefused, Forget, Goto
      <3>2. \A p \in Evictable(o) : pc[p] = "done"
        BY DEF Evictable, Elapsed, RecoverInv
      <3>q. QED
        BY <3>1, <3>2, SpaceFrame DEF Reserved, TypeOK
    <2>4. ASSUME Acquired(o) \/ AcquireError(o) PROVE RecoverySpaceReserved'
      <3>1. /\ UNCHANGED <<owners, pending>>
            /\ \E l \in {"running", "uncertain"} : pc' = [pc EXCEPT ![o] = l]
            /\ pc[o] = "acquiring"
        BY <2>4 DEF Acquired, AcquireError, Goto
      <3>q. QED
        BY <3>1, SpaceFrame DEF Reserved, TypeOK
    <2>5. ASSUME PoolFull(o) PROVE RecoverySpaceReserved'
      <3>1. /\ owners' = owners \ {o} /\ pending' \subseteq pending
            /\ pc' = [pc EXCEPT ![o] = "done"]
        BY <2>5 DEF PoolFull, Forget, Goto
      <3>q. QED
        BY <3>1, SpaceFrame DEF Reserved, TypeOK
    <2>q. QED
      BY <1>5, <2>1, <2>2, <2>3, <2>4, <2>5, SpaceReserve DEF AdmitStep
  <1>6. ASSUME NEW o \in Owners, LeaseStep(o) PROVE RecoverySpaceReserved'
    <2>1. ASSUME Renew(o) \/ Renewed(o) \/ LeaseLost(o) \/ Finish(o) \/ FinishWhileRenewing(o) \/ Drained(o)
          PROVE  RecoverySpaceReserved'
      <3>1. /\ UNCHANGED <<owners, pending>>
            /\ pc[o] \in Reserved
            /\ \E l \in Reserved : pc' = [pc EXCEPT ![o] = l]
        BY <2>1 DEF Renew, Renewed, LeaseLost, Finish, FinishWhileRenewing, Drained, Goto, Reserved
      <3>q. QED
        BY <3>1, SpaceFrame DEF TypeOK
    <2>2. ASSUME Reclaimed(o) \/ ReclaimError(o) PROVE RecoverySpaceReserved'
      <3>1. /\ owners' \subseteq owners /\ owners \ {o} \subseteq owners'
            /\ pending' \subseteq pending \cup {o}
            /\ pc' = [pc EXCEPT ![o] = "done"]
        BY <2>2 DEF Reclaimed, ReclaimError, Forget, MarkPending, Goto
      <3>q. QED
        BY <3>1, SpaceFrame DEF Reserved, TypeOK
    <2>q. QED
      BY <1>6, <2>1, <2>2 DEF LeaseStep
  <1>7. CASE EnvStep
    <2>1. ASSUME NEW e \in Execs, Disconnect(e) \/ AfterParent(e) PROVE RecoverySpaceReserved'
      BY <1>1, <2>1 DEF Disconnect, AfterParent
    <2>2. ASSUME NEW g \in Groups, SetLimit(g) PROVE RecoverySpaceReserved'
      BY <1>1, <2>2 DEF SetLimit
    <2>3. ASSUME NEW i \in Instances, Crash(i) PROVE RecoverySpaceReserved'
      <3>1. /\ owners' = owners \ OnInst(i) /\ pending' \subseteq pending
            /\ \A o \in Owners : pc'[o] \in {"done", pc[o]}
            /\ \A o \in OnInst(i) : pc'[o] \in {"idle", "done"}
        BY <2>3 DEF Crash, OnInst
      <3>q. QED
        BY <3>1, SpaceFrame DEF Reserved
    <2>q. QED
      BY <1>7, <2>1, <2>2, <2>3 DEF EnvStep
  <1>8. CASE Tick
    BY <1>1, <1>8 DEF Tick
  <1>9. CASE UNCHANGED vars
    BY <1>1, <1>9 DEF vars
  <1>q. QED
    BY <1>2, <1>4, <1>5, <1>6, <1>7, <1>8, <1>9 DEF Next

(***************************************************************************)
(* A step that takes no record and finishes none.                          *)
(***************************************************************************)
LEMMA TakenFrame ==
  ASSUME TakenInv, batch' = batch, busy' = busy,
         \A c \in Callers : \A p \in batch[c] : p \in pending' => p \in pending
  PROVE  TakenInv'
  BY DEF TakenInv, BusyHasOneRecoverer, Home

(***************************************************************************)
(* pendingConcurrencyOwners, for the worker and for an admission.          *)
(***************************************************************************)
LEMMA TakenTake ==
  ASSUME TypeOK, TakenInv, NEW c \in Callers, batch[c] = {}, NEW P \in SUBSET pending,
         NEW T \in Batches(P), Take(P, T), batch' = [batch EXCEPT ![c] = T],
         \A p \in P : InstOf[p] = Home(c)
  PROVE  TakenInv'
  <1> DEFINE F == Elapsed(P)
  <1>1. T \subseteq P /\ T \cap F = {} /\ T \cap busy = {}
    BY DEF Batches, Takeable
  <1>2. pending' = pending \ F /\ busy' = (busy \ F) \cup T
    BY DEF Take
  <1>3. batch'[c] = T /\ \A d \in Callers : d # c => batch'[d] = batch[d]
    BY DEF TypeOK
  <1> HIDE DEF F
  <1>4. \A d \in Callers : batch[d] \cap T = {}
    BY <1>1 DEF TakenInv
  <1>5. \A p \in busy' : \E d \in Callers : p \in batch'[d]
    <2> TAKE p \in busy'
    <2>1. CASE p \in T
      BY <1>3, <2>1
    <2>2. CASE p \notin T
      <3>1. p \in busy
        BY <1>2, <2>2
      <3>2. PICK d \in Callers : p \in batch[d]
        BY <3>1 DEF TakenInv, BusyHasOneRecoverer
      <3>q. QED
        BY <1>3, <3>2
    <2>q. QED
      BY <2>1, <2>2
  <1>6. \A d, e \in Callers : d # e => batch'[d] \cap batch'[e] = {}
    BY <1>3, <1>4 DEF TakenInv, BusyHasOneRecoverer
  <1>7. \A d \in Callers : \A p \in batch'[d] : p \in pending' => p \in busy'
    BY <1>2, <1>3 DEF TakenInv
  <1>8. \A d \in Callers : \A p \in batch'[d] : InstOf[p] = Home(d)
    BY <1>1, <1>3 DEF TakenInv
  <1>q. QED
    BY <1>5, <1>6, <1>7, <1>8 DEF TakenInv, BusyHasOneRecoverer, Home

(***************************************************************************)
(* finishConcurrencyOwnerRecovery, with either outcome.                    *)
(***************************************************************************)
LEMMA TakenEnd ==
  ASSUME TypeOK, TakenInv, NEW c \in Callers, NEW p \in batch[c], NEW ok \in BOOLEAN,
         RecoverEnd(c, p, ok)
  PROVE  TakenInv'
  <1>1. pending' \subseteq pending /\ busy' = busy \ {p}
    BY DEF RecoverEnd, FinishRecovery, Forget
  <1>2. batch'[c] = batch[c] \ {p} /\ \A d \in Callers : d # c => batch'[d] = batch[d]
    BY DEF RecoverEnd, TypeOK
  <1>3. \A d \in Callers : d # c => p \notin batch[d]
    BY DEF TakenInv, BusyHasOneRecoverer
  <1>4. \A q \in busy' : \E d \in Callers : q \in batch'[d]
    <2> TAKE q \in busy'
    <2>1. q \in busy /\ q # p
      BY <1>1
    <2>2. PICK d \in Callers : q \in batch[d]
      BY <2>1 DEF TakenInv, BusyHasOneRecoverer
    <2>q. QED
      BY <1>2, <2>1, <2>2
  <1>5. \A d, e \in Callers : d # e => batch'[d] \cap batch'[e] = {}
    BY <1>2 DEF TakenInv, BusyHasOneRecoverer
  <1>6. \A d \in Callers : \A q \in batch'[d] : q \in pending' => q \in busy'
    BY <1>1, <1>2, <1>3 DEF TakenInv
  <1>7. \A d \in Callers : \A q \in batch'[d] : InstOf[q] = Home(d)
    BY <1>2 DEF TakenInv
  <1>q. QED
    BY <1>4, <1>5, <1>6, <1>7 DEF TakenInv, BusyHasOneRecoverer, Home

(***************************************************************************)
(* A process that dies takes its records and its recoverers with it.       *)
(***************************************************************************)
LEMMA TakenCrash ==
  ASSUME TypeOK, TakenInv, NEW i \in Instances, Crash(i)
  PROVE  TakenInv'
  <1>1. pending' = pending \ OnInst(i) /\ busy' = busy \ OnInst(i)
    BY DEF Crash
  <1>2. \A c \in Callers : batch'[c] = {} \/ batch'[c] = batch[c]
    BY DEF Crash
  <1>3. \A c \in Callers : Home(c) # i => batch'[c] = batch[c]
    BY SetsAssumption DEF Crash, Home, OnInst, Callers
  <1>4. \A p \in busy' : \E c \in Callers : p \in batch'[c]
    <2> TAKE p \in busy'
    <2>1. p \in busy /\ p \in Owners /\ InstOf[p] # i
      BY <1>1 DEF OnInst, TypeOK
    <2>2. PICK c \in Callers : p \in batch[c]
      BY <2>1 DEF TakenInv, BusyHasOneRecoverer
    <2>3. Home(c) # i
      BY <2>1, <2>2 DEF TakenInv
    <2>q. QED
      BY <1>3, <2>2, <2>3
  <1>5. \A c, d \in Callers : c # d => batch'[c] \cap batch'[d] = {}
    BY <1>2 DEF TakenInv, BusyHasOneRecoverer
  <1>6. \A c \in Callers : \A p \in batch'[c] : p \in pending' => p \in busy'
    BY <1>1, <1>2 DEF TakenInv
  <1>7. \A c \in Callers : \A p \in batch'[c] : InstOf[p] = Home(c)
    BY <1>2 DEF TakenInv
  <1>q. QED
    BY <1>4, <1>5, <1>6, <1>7 DEF TakenInv, BusyHasOneRecoverer, Home

\* Every step keeps each record with one recoverer.
LEMMA TakenStep ==
  ASSUME TypeOK, RecoverInv, TakenInv, [Next]_vars
  PROVE  TakenInv'
  <1>1. ASSUME UNCHANGED <<batch, busy, pending>> PROVE TakenInv'
    BY <1>1, TakenFrame
  <1>2. CASE RedisStep
    <2>1. UNCHANGED <<batch, busy, pending>>
      BY <1>2 DEF RedisStep, ExecAcquire, ExecRefresh, ExecRelease, Reap
    <2>q. QED
      BY <1>1, <2>1
  <1>3. CASE RecoverStep
    <2>1. ASSUME NEW i \in Instances, WorkerTake(i) PROVE TakenInv'
      <3> DEFINE P == pending \cap OnInst(i)
      <3>1. PICK T \in Batches(P) : Take(P, T) /\ batch' = [batch EXCEPT ![i] = T]
        BY <2>1 DEF WorkerTake
      <3>2. i \in Callers /\ batch[i] = {} /\ \A p \in P : InstOf[p] = Home(i)
        BY <2>1, SetsAssumption DEF WorkerTake, Callers, OnInst, Home
      <3>3. P \in SUBSET pending
        OBVIOUS
      <3> HIDE DEF P
      <3>q. QED
        BY <3>1, <3>2, <3>3, TakenTake
    <2>2. ASSUME NEW c \in Callers, RecoverCall(c) PROVE TakenInv'
      BY <1>1, <2>2 DEF RecoverCall
    <2>3. ASSUME NEW c \in Callers, RecoverReply(c) PROVE TakenInv'
      <3>1. target[c] \in batch[c] /\ RecoverEnd(c, target[c], TRUE)
        BY <2>3 DEF RecoverReply, RecoverInv
      <3>q. QED
        BY <3>1, TakenEnd
    <2>4. ASSUME NEW c \in Callers, RecoverError(c) PROVE TakenInv'
      <3>1. PICK p \in batch[c] : RecoverEnd(c, p, FALSE)
        BY <2>4 DEF RecoverError
      <3>q. QED
        BY <3>1, TakenEnd
    <2>q. QED
      BY <1>3, <2>1, <2>2, <2>3, <2>4 DEF RecoverStep
  <1>4. ASSUME NEW o \in Owners, pc[o] # "done", batch' = batch, Forget({o}) \/ MarkPending(o)
        PROVE  TakenInv'
    <2>1. o \notin pending /\ o \notin busy /\ \A c \in Callers : o \notin batch[c]
      BY <1>4 DEF RecoverInv, TypeOK
    <2>2. busy' = busy /\ pending' \subseteq pending \cup {o}
      BY <1>4, <2>1 DEF Forget, MarkPending
    <2>q. QED
      BY <1>4, <2>1, <2>2, TakenFrame
  <1>5. ASSUME NEW o \in Owners, AdmitStep(o) PROVE TakenInv'
    <2>1. ASSUME Decline(o) \/ Recovered(o) \/ Acquired(o) \/ AcquireError(o) PROVE TakenInv'
      <3>1. UNCHANGED <<batch, busy, pending>>
        BY <2>1 DEF Decline, Recovered, Acquired, AcquireError
      <3>q. QED
        BY <1>1, <3>1
    <2>2. ASSUME Begin(o) PROVE TakenInv'
      <3> DEFINE P == pending \cap OnInst(InstOf[o]) \cap InGroup(GroupOf[o])
      <3>1. PICK T \in Batches(P) : Take(P, T) /\ batch' = [batch EXCEPT ![o] = T]
        BY <2>2 DEF Begin
      <3>2. o \in Callers /\ batch[o] = {} /\ \A p \in P : InstOf[p] = Home(o)
        BY <2>2 DEF Begin, RecoverInv, Callers, OnInst, Home
      <3>3. P \in SUBSET pending
        OBVIOUS
      <3> HIDE DEF P
      <3>q. QED
        BY <3>1, <3>2, <3>3, TakenTake
    <2>3. ASSUME Reserve(o) \/ ReserveRefused(o) PROVE TakenInv'
      <3>1. Evictable(o) \cap busy = {}
        BY DEF Evictable
      <3>2. busy' = busy /\ pending' \subseteq pending /\ batch' = batch
        BY <2>3, <3>1 DEF Reserve, ReserveRefused, Forget
      <3>q. QED
        BY <3>2, TakenFrame
    <2>4. ASSUME PoolFull(o) PROVE TakenInv'
      BY <1>4, <2>4 DEF PoolFull
    <2>q. QED
      BY <1>5, <2>1, <2>2, <2>3, <2>4 DEF AdmitStep
  <1>6. ASSUME NEW o \in Owners, LeaseStep(o) PROVE TakenInv'
    <2>1. ASSUME Reclaimed(o) \/ ReclaimError(o) PROVE TakenInv'
      BY <1>4, <2>1 DEF Reclaimed, ReclaimError
    <2>2. ASSUME ~Reclaimed(o), ~ReclaimError(o) PROVE UNCHANGED <<batch, busy, pending>>
      BY <1>6, <2>2 DEF LeaseStep, Renew, Renewed, LeaseLost, Finish, FinishWhileRenewing, Drained
    <2>q. QED
      BY <1>1, <2>1, <2>2
  <1>7. CASE EnvStep
    BY <1>1, <1>7, TakenCrash DEF EnvStep, Disconnect, AfterParent, SetLimit
  <1>8. CASE Tick
    BY <1>1, <1>8 DEF Tick
  <1>9. CASE UNCHANGED vars
    BY <1>1, <1>9 DEF vars
  <1>q. QED
    BY <1>2, <1>3, <1>5, <1>6, <1>7, <1>8, <1>9 DEF Next

(***************************************************************************)
(* A script that runs for the call o: it is written again only while it is *)
(* awaited, and answers nobody who recovers or releases a slot.            *)
(***************************************************************************)
LEMMA LeakWrite ==
  ASSUME TypeOK, RecoverInv, RecoverySpaceReserved, LeakInv, NEW o \in Owners,
         UNCHANGED <<pc, owners, pending, left, target>>,
         members' \subseteq members \cup {o}, excused \subseteq excused',
         \A p \in Owners : p # o => age'[p] = age[p],
         o \in members' => \/ o \in members /\ age'[o] = age[o]
                           \/ o \in excused'
                           \/ pc[o] = "acquiring"
                           \/ Live(o) /\ pc[o] \in {"renewing", "draining"},
         \A c \in Callers : reply'[c] = reply[c] \/ (c = o /\ pc[o] \in {"acquiring", "renewing", "draining"}),
         pc[o] = "acquiring" /\ reply'[o] = "no" => o \notin members'
  PROVE  LeakInv'
  <1>1. NoSilentLeak'
    BY DEF LeakInv, NoSilentLeak, Live, RecoverySpaceReserved, TypeOK
  <1>2. OutlivesInv'
    <2>1. \A p \in pending : pc[p] = "done"
      BY DEF RecoverInv
    <2>q. QED
      BY <2>1 DEF LeakInv, OutlivesInv, Gone, TypeOK
  <1>3. RefusedInv'
    BY DEF LeakInv, RefusedInv, Callers
  <1>4. \A p \in Owners : pc'[p] \in {"uncertain", "releasing"} /\ reply'[p] = "ok" => Gone(p)'
    BY DEF LeakInv, ConfirmedInv, Gone, Callers
  <1>5. ASSUME NEW c \in Callers, target'[c] # None, reply'[c] = "ok"
        PROVE  Gone(target[c])'
    <2>1. target[c] \in batch[c] /\ pc[target[c]] = "done"
      BY <1>5 DEF RecoverInv
    <2>2. c = o => pc[o] = "recovering"
      BY <2>1 DEF RecoverInv
    <2>3. Gone(target[c])
      BY <1>5, <2>2 DEF LeakInv, ConfirmedInv
    <2>q. QED
      BY <2>1, <2>3 DEF Gone
  <1>6. ConfirmedInv'
    BY <1>4, <1>5 DEF ConfirmedInv, Gone
  <1>q. QED
    BY <1>1, <1>2, <1>3, <1>6 DEF LeakInv

\* The scripts keep what their answers tell.
LEMMA LeakRedis ==
  ASSUME TypeOK, RecoverInv, RecoverySpaceReserved, LeakInv, RedisStep
  PROVE  LeakInv'
  <1>1. ASSUME NEW o \in Owners, ExecAcquire(o) PROVE LeakInv'
    <2> DEFINE cmd == <<"acquire", o>>
    <2>1. \A c \in Callers : Awaits(c, cmd) => c = o /\ pc[o] = "acquiring"
      BY DEF Awaits
    <2>2. UNCHANGED <<pc, owners, pending, left, target>>
      BY <1>1 DEF ExecAcquire
    <2>3. o \in Callers /\ (pc[o] = "acquiring" => Awaits(o, cmd))
      BY DEF Awaits, Callers
    <2> HIDE DEF cmd
    <2>4. CASE Write(o, cmd)
      <3>1. /\ members' \subseteq members \cup {o} /\ excused \subseteq excused'
            /\ \A p \in Owners : p # o => age'[p] = age[p]
        BY <2>4 DEF Write, TypeOK
      <3>2. pc[o] = "acquiring" \/ o \in excused'
        BY <2>1, <2>4 DEF Write, Awaited
      <3>3. \A c \in Callers : reply'[c] = reply[c] \/ (c = o /\ pc[o] = "acquiring")
        <4>1. \A c \in Callers : reply'[c] = IF Awaits(c, cmd) THEN "ok" ELSE reply[c]
          BY <2>4 DEF Write, Answer
        <4>q. QED
          BY <2>1, <4>1
      <3>4. pc[o] = "acquiring" => reply'[o] = "ok"
        BY <2>3, <2>4 DEF Write, Answer
      <3>q. QED
        BY <2>2, <3>1, <3>2, <3>3, <3>4, LeakWrite
    <2>5. CASE Refuse(o, cmd) /\ o \notin members \ Expired(GroupOf[o])
      <3>1. members' \subseteq members /\ o \notin members' /\ age' = age /\ excused' = excused
        BY <2>5 DEF Refuse
      <3>2. \A c \in Callers : reply'[c] = reply[c] \/ (c = o /\ pc[o] = "acquiring")
        <4>1. \A c \in Callers : reply'[c] = IF Awaits(c, cmd) THEN "no" ELSE reply[c]
          BY <2>5 DEF Refuse, Answer
        <4>q. QED
          BY <2>1, <4>1
      <3>q. QED
        BY <2>2, <3>1, <3>2, LeakWrite
    <2>q. QED
      BY <1>1, <2>4, <2>5 DEF ExecAcquire, cmd
  <1>2. ASSUME NEW o \in Owners, ExecRefresh(o) PROVE LeakInv'
    <2> DEFINE cmd == <<"refresh", o>>
    <2>1. \A c \in Callers : Awaits(c, cmd) => c = o /\ pc[o] \in {"renewing", "draining"}
      BY DEF Awaits
    <2>2. UNCHANGED <<pc, owners, pending, left, target>>
      BY <1>2 DEF ExecRefresh
    <2> HIDE DEF cmd
    <2>3. CASE Write(o, cmd) /\ o \in members \ Expired(GroupOf[o])
      <3>1. /\ members' \subseteq members \cup {o} /\ excused \subseteq excused'
            /\ \A p \in Owners : p # o => age'[p] = age[p]
        BY <2>3 DEF Write, TypeOK
      <3>2. pc[o] \in {"renewing", "draining"} \/ o \in excused'
        BY <2>1, <2>3 DEF Write, Awaited
      <3>3. \A c \in Callers : reply'[c] = reply[c] \/ (c = o /\ pc[o] \in {"renewing", "draining"})
        <4>1. \A c \in Callers : reply'[c] = IF Awaits(c, cmd) THEN "ok" ELSE reply[c]
          BY <2>3 DEF Write, Answer
        <4>q. QED
          BY <2>1, <4>1
      <3>4. Live(o)
        <4>1. o \in members /\ ~(age[o] >= TTL)
          BY <2>3 DEF Expired, InGroup
        <4>2. age[o] \in Int /\ TTL \in Int
          BY TimingAssumption DEF TypeOK
        <4>q. QED
          BY <4>1, <4>2 DEF Live
      <3>5. pc[o] = "acquiring" => reply'[o] = reply[o] /\ o \in members
        BY <2>3, <3>3 DEF Callers
      <3>6. ~(pc[o] = "acquiring" /\ reply'[o] = "no")
        BY <3>5 DEF LeakInv, RefusedInv
      <3>q. QED
        BY <2>2, <3>1, <3>2, <3>3, <3>4, <3>6, LeakWrite
    <2>4. CASE Refuse(o, cmd)
      <3>1. members' \subseteq members /\ age' = age /\ excused' = excused
        BY <2>4 DEF Refuse
      <3>2. \A c \in Callers : reply'[c] = reply[c] \/ (c = o /\ pc[o] \in {"renewing", "draining"})
        <4>1. \A c \in Callers : reply'[c] = IF Awaits(c, cmd) THEN "no" ELSE reply[c]
          BY <2>4 DEF Refuse, Answer
        <4>q. QED
          BY <2>1, <4>1
      <3>3. pc[o] = "acquiring" /\ reply'[o] = "no" => o \notin members'
        BY <3>1, <3>2 DEF LeakInv, RefusedInv, Callers
      <3>q. QED
        BY <2>2, <3>1, <3>2, <3>3, LeakWrite
    <2>q. QED
      BY <1>2, <2>3, <2>4 DEF ExecRefresh, cmd
  <1>3. ASSUME NEW o \in Owners, ExecRelease(o) PROVE LeakInv'
    <2> DEFINE cmd == <<"release", o>>
    <2>1. /\ UNCHANGED <<pc, owners, pending, left, target, age, excused>>
          /\ members' \subseteq members /\ o \notin members'
      BY <1>3 DEF ExecRelease
    <2>2. /\ \A c \in Callers : Awaits(c, cmd) => \/ c = o /\ pc[o] \in {"uncertain", "releasing"}
                                                  \/ target[c] = o
          /\ \A c \in Callers : reply'[c] = IF Awaits(c, cmd) THEN "ok" ELSE reply[c]
      BY <1>3 DEF ExecRelease, Answer, Awaits
    <2>3. NoSilentLeak' /\ OutlivesInv'
      BY <2>1 DEF LeakInv, NoSilentLeak, OutlivesInv, Live, Gone
    <2>4. RefusedInv'
      BY <2>1, <2>2 DEF LeakInv, RefusedInv, Callers
    <2>5. \A p \in Owners : pc'[p] \in {"uncertain", "releasing"} /\ reply'[p] = "ok" => Gone(p)'
      <3> SUFFICES ASSUME NEW p \in Owners, pc[p] \in {"uncertain", "releasing"}, reply'[p] = "ok"
                   PROVE  Gone(p)'
        BY <2>1
      <3>1. p \in Callers /\ target[p] = None
        BY DEF RecoverInv, Callers
      <3>2. p = o \/ reply[p] = "ok"
        BY <2>2, <3>1, SetsAssumption
      <3>q. QED
        BY <2>1, <3>2 DEF LeakInv, ConfirmedInv, Gone
    <2>6. ASSUME NEW c \in Callers, target'[c] # None, reply'[c] = "ok"
          PROVE  Gone(target[c])'
      <3>1. target[c] \in batch[c] /\ target[c] # None
        BY <2>1, <2>6 DEF RecoverInv
      <3>2. c = o => pc[o] = "recovering"
        BY <3>1 DEF RecoverInv
      <3>3. target[c] = o \/ reply[c] = "ok"
        BY <2>2, <2>6, <3>2
      <3>q. QED
        BY <2>1, <3>1, <3>3 DEF LeakInv, ConfirmedInv, Gone
    <2>7. ConfirmedInv'
      BY <2>1, <2>5, <2>6 DEF ConfirmedInv, Gone
    <2>q. QED
      BY <2>3, <2>4, <2>7 DEF LeakInv
  <1>4. ASSUME NEW g \in Groups, Reap(g) PROVE LeakInv'
    <2>1. /\ UNCHANGED <<pc, owners, pending, left, target, age, excused, reply>>
          /\ members' \subseteq members
      BY <1>4 DEF Reap
    <2>q. QED
      BY <2>1 DEF LeakInv, NoSilentLeak, OutlivesInv, RefusedInv, ConfirmedInv, Live, Gone
  <1>q. QED
    BY <1>1, <1>2, <1>3, <1>4 DEF RedisStep

(***************************************************************************)
(* A step of a gateway process: it drops only records of members that are  *)
(* gone or expired, and acts on an answer in the phase that awaited it.    *)
(***************************************************************************)
LEMMA LeakFrame ==
  ASSUME TypeOK, LeakInv, UNCHANGED <<members, age>>, excused \subseteq excused',
         \A o \in owners \ owners' : Live(o) => o \in excused',
         \A o \in pending' : (o \in pending /\ left'[o] = left[o]) \/ left'[o] = TTL,
         \A o \in Owners : pc'[o] = "acquiring" /\ reply'[o] = "no" =>
            pc[o] = "acquiring" /\ reply[o] = "no",
         \A o \in Owners : pc'[o] \in {"uncertain", "releasing"} /\ reply'[o] = "ok" =>
            pc[o] \in {"uncertain", "releasing"} /\ reply[o] = "ok",
         \A c \in Callers : target'[c] # None /\ reply'[c] = "ok" =>
            target'[c] = target[c] /\ reply[c] = "ok",
         pending' \subseteq Owners
  PROVE  LeakInv'
  <1>1. NoSilentLeak'
    BY DEF LeakInv, NoSilentLeak, Live
  <1>2. OutlivesInv'
    <2> SUFFICES ASSUME NEW o \in pending' PROVE Gone(o)' \/ age'[o] + left'[o] >= TTL
      BY DEF OutlivesInv
    <2>1. CASE o \in pending /\ left'[o] = left[o]
      BY <2>1 DEF LeakInv, OutlivesInv, Gone
    <2>2. CASE left'[o] = TTL
      <3>1. age'[o] \in Nat /\ TTL \in Nat
        BY TimingAssumption DEF TypeOK
      <3>q. QED
        BY <2>2, <3>1
    <2>q. QED
      BY <2>1, <2>2
  <1>3. RefusedInv' /\ ConfirmedInv'
    BY DEF LeakInv, RefusedInv, ConfirmedInv, Gone
  <1>q. QED
    BY <1>1, <1>2, <1>3 DEF LeakInv

\* An expired record stands for a member that is gone or expired.
LEMMA ElapsedIsGone ==
  ASSUME TypeOK, LeakInv, NEW P \in SUBSET pending
  PROVE  \A p \in Elapsed(P) : Live(p) => p \in excused
  <1> SUFFICES ASSUME NEW p \in Elapsed(P), Live(p) PROVE p \in excused
    OBVIOUS
  <1>1. p \in pending /\ left[p] = 0 /\ p \in Owners
    BY DEF Elapsed, TypeOK
  <1>2. age[p] \in Nat /\ TTL \in Nat
    BY <1>1, TimingAssumption DEF TypeOK
  <1>q. QED
    BY <1>1, <1>2 DEF LeakInv, OutlivesInv, Gone, Live

\* A recoverer forgets a record on a confirmed release only.
LEMMA LeakRecovery ==
  ASSUME TypeOK, TypeOK', RecoverInv, LeakInv, RecoverStep
  PROVE  LeakInv'
  <1>1. ASSUME NEW i \in Instances, WorkerTake(i) PROVE LeakInv'
    <2> DEFINE P == pending \cap OnInst(i)
    <2>1. /\ UNCHANGED <<members, age, excused, pc, reply, target>>
          /\ owners' = owners \ Elapsed(P) /\ pending' = pending \ Elapsed(P)
          /\ left' = [o \in Owners |-> IF o \in Elapsed(P) THEN 0 ELSE left[o]]
      BY <1>1 DEF WorkerTake, Take
    <2>2. \A p \in Elapsed(P) : Live(p) => p \in excused
      BY ElapsedIsGone
    <2> HIDE DEF P
    <2>q. QED
      BY <2>1, <2>2, LeakFrame DEF TypeOK
  <1>2. ASSUME NEW c \in Callers, RecoverCall(c) PROVE LeakInv'
    <2>1. /\ UNCHANGED <<members, age, excused, pc, owners, pending, left>>
          /\ reply' = [reply EXCEPT ![c] = "none"]
          /\ \A d \in Callers : d # c => target'[d] = target[d]
      BY <1>2 DEF RecoverCall, Send, TypeOK
    <2>q. QED
      BY <2>1, LeakFrame DEF TypeOK, Callers
  <1>3. ASSUME NEW c \in Callers, NEW p \in batch[c], NEW ok \in BOOLEAN, RecoverEnd(c, p, ok),
               TakeReply(c), UNCHANGED <<members, age, excused, pc>>,
               ok => target[c] = p /\ reply[c] = "ok"
        PROVE  LeakInv'
    <2>1. /\ reply' = [reply EXCEPT ![c] = "none"]
          /\ \A d \in Callers : d # c => target'[d] = target[d]
      BY <1>3 DEF RecoverEnd, TakeReply, TypeOK
    <2>2. p \in Owners
      BY <1>3 DEF TypeOK
    <2>3. CASE ok
      <3>1. p # None /\ Gone(p)
        BY <1>3, <2>2, <2>3, SetsAssumption DEF LeakInv, ConfirmedInv
      <3>2. /\ owners' = owners \ {p} /\ pending' = pending \ {p}
            /\ \A o \in Owners : o # p => left'[o] = left[o]
        BY <1>3, <2>3 DEF RecoverEnd, FinishRecovery, Forget
      <3>q. QED
        BY <1>3, <2>1, <3>1, <3>2, LeakFrame DEF TypeOK, Callers, Gone, Live
    <2>4. CASE ~ok
      <3>1. UNCHANGED <<owners, pending, left>>
        BY <1>3, <2>4 DEF RecoverEnd, FinishRecovery
      <3>q. QED
        BY <1>3, <2>1, <3>1, LeakFrame DEF TypeOK, Callers
    <2>q. QED
      BY <2>3, <2>4
  <1>4. ASSUME NEW c \in Callers, RecoverReply(c) PROVE LeakInv'
    <2>1. /\ target[c] \in batch[c] /\ reply[c] = "ok" /\ RecoverEnd(c, target[c], TRUE)
          /\ TakeReply(c) /\ UNCHANGED <<members, age, excused, pc>>
      BY <1>4 DEF RecoverReply, RecoverInv
    <2>q. QED
      BY <1>3, <2>1
  <1>5. ASSUME NEW c \in Callers, RecoverError(c) PROVE LeakInv'
    <2>1. PICK p \in batch[c] : RecoverEnd(c, p, FALSE)
      BY <1>5 DEF RecoverError
    <2>2. TakeReply(c) /\ UNCHANGED <<members, age, excused, pc>>
      BY <1>5 DEF RecoverError
    <2>q. QED
      BY <1>3, <2>1, <2>2
  <1>q. QED
    BY <1>1, <1>2, <1>4, <1>5 DEF RecoverStep

\* An admission forgets expired records, and its own when it is refused.
LEMMA LeakAdmit ==
  ASSUME TypeOK, TypeOK', RecoverInv, LeakInv, NEW o \in Owners, AdmitStep(o)
  PROVE  LeakInv'
  <1>0. o \in Callers
    BY DEF Callers
  <1>1. CASE Decline(o) \/ Recovered(o)
    <2>1. /\ UNCHANGED <<members, age, excused, reply, target, owners, pending, left>>
          /\ \E l \in {"done", "reserving"} : pc' = [pc EXCEPT ![o] = l]
      BY <1>1 DEF Decline, Recovered, Goto
    <2>q. QED
      BY <2>1, LeakFrame DEF TypeOK
  <1>2. CASE Begin(o)
    <2> DEFINE P == pending \cap OnInst(InstOf[o]) \cap InGroup(GroupOf[o])
    <2>1. /\ UNCHANGED <<members, age, excused, reply, target>>
          /\ owners' = owners \ Elapsed(P) /\ pending' = pending \ Elapsed(P)
          /\ left' = [p \in Owners |-> IF p \in Elapsed(P) THEN 0 ELSE left[p]]
          /\ \E l \in {"done", "reserving", "recovering"} : pc' = [pc EXCEPT ![o] = l]
      BY <1>2 DEF Begin, Take, Goto
    <2>2. \A p \in Elapsed(P) : Live(p) => p \in excused
      BY ElapsedIsGone
    <2> HIDE DEF P
    <2>q. QED
      BY <2>1, <2>2, LeakFrame DEF TypeOK
  <1>3. \A p \in Evictable(o) : Live(p) => p \in excused
    BY ElapsedIsGone DEF Evictable
  <1>4. CASE Reserve(o)
    <2>1. /\ UNCHANGED <<members, age, excused, target, left>>
          /\ owners \ Evictable(o) \subseteq owners' /\ pending' \subseteq pending
          /\ pc' = [pc EXCEPT ![o] = "acquiring"]
          /\ reply' = [reply EXCEPT ![o] = "none"]
      BY <1>4 DEF Reserve, Goto, Send
    <2>q. QED
      BY <1>0, <1>3, <2>1, LeakFrame DEF TypeOK, Callers
  <1>5. CASE ReserveRefused(o)
    <2>1. /\ UNCHANGED <<members, age, excused, target, reply>>
          /\ owners' = owners \ Evictable(o) /\ pending' = pending \ Evictable(o)
          /\ left' = [p \in Owners |-> IF p \in Evictable(o) THEN 0 ELSE left[p]]
          /\ pc' = [pc EXCEPT ![o] = "done"]
      BY <1>5 DEF ReserveRefused, Forget, Goto
    <2>q. QED
      BY <1>3, <2>1, LeakFrame DEF TypeOK
  <1>6. CASE Acquired(o) \/ AcquireError(o)
    <2>1. /\ UNCHANGED <<members, age, excused, target, owners, pending, left>>
          /\ \E l \in {"running", "uncertain"} : pc' = [pc EXCEPT ![o] = l]
          /\ reply' = [reply EXCEPT ![o] = "none"]
      BY <1>6 DEF Acquired, AcquireError, Goto, TakeReply, Send
    <2>q. QED
      BY <1>0, <2>1, LeakFrame DEF TypeOK, Callers
  <1>7. CASE PoolFull(o)
    <2>1. /\ UNCHANGED <<members, age, excused, target>>
          /\ owners' = owners \ {o} /\ pending' = pending \ {o}
          /\ \A p \in Owners : p # o => left'[p] = left[p]
          /\ pc' = [pc EXCEPT ![o] = "done"]
          /\ reply' = [reply EXCEPT ![o] = "none"]
      BY <1>7 DEF PoolFull, Forget, Goto, TakeReply
    <2>2. o \notin members
      BY <1>7 DEF PoolFull, LeakInv, RefusedInv
    <2>q. QED
      BY <1>0, <2>1, <2>2, LeakFrame DEF TypeOK, Callers, Live
  <1>q. QED
    BY <1>1, <1>2, <1>4, <1>5, <1>6, <1>7 DEF AdmitStep

\* ReleaseFunc forgets a record when confirmed and marks it pending otherwise.
LEMMA LeakLease ==
  ASSUME TypeOK, TypeOK', RecoverInv, LeakInv, NEW o \in Owners, LeaseStep(o)
  PROVE  LeakInv'
  <1>0. o \in Callers
    BY DEF Callers
  <1>1. CASE Reclaimed(o)
    <2>1. /\ UNCHANGED <<members, age, excused, target>>
          /\ owners' = owners \ {o} /\ pending' = pending \ {o}
          /\ \A p \in Owners : p # o => left'[p] = left[p]
          /\ pc' = [pc EXCEPT ![o] = "done"]
          /\ reply' = [reply EXCEPT ![o] = "none"]
      BY <1>1 DEF Reclaimed, Forget, Goto, TakeReply
    <2>2. Gone(o)
      BY <1>1 DEF Reclaimed, LeakInv, ConfirmedInv
    <2>q. QED
      BY <1>0, <2>1, <2>2, LeakFrame DEF TypeOK, Callers, Live, Gone
  <1>2. CASE ReclaimError(o)
    <2>1. /\ UNCHANGED <<members, age, excused, target, owners>>
          /\ pc' = [pc EXCEPT ![o] = "done"]
          /\ reply' = [reply EXCEPT ![o] = "none"]
      BY <1>2 DEF ReclaimError, MarkPending, Goto, TakeReply
    <2>2. o \notin pending
      BY <1>2 DEF ReclaimError, RecoverInv
    <2>3. \A p \in pending' : (p \in pending /\ left'[p] = left[p]) \/ left'[p] = TTL
      BY <1>2, <2>2 DEF ReclaimError, MarkPending, TypeOK
    <2>q. QED
      BY <1>0, <2>1, <2>3, LeakFrame DEF TypeOK, Callers
  <1>3. CASE Renew(o) \/ Renewed(o) \/ LeaseLost(o) \/ Finish(o) \/ Drained(o)
    <2>1. /\ UNCHANGED <<members, age, excused, target, owners, pending, left>>
          /\ \E l \in {"renewing", "running", "releasing"} : pc' = [pc EXCEPT ![o] = l]
          /\ reply' = [reply EXCEPT ![o] = "none"]
      BY <1>3 DEF Renew, Renewed, LeaseLost, Finish, Drained, Goto, TakeReply, Send
    <2>q. QED
      BY <1>0, <2>1, LeakFrame DEF TypeOK, Callers
  <1>4. CASE FinishWhileRenewing(o)
    <2>1. /\ UNCHANGED <<members, age, excused, target, owners, pending, left, reply>>
          /\ pc' = [pc EXCEPT ![o] = "draining"]
      BY <1>4 DEF FinishWhileRenewing, Goto
    <2>q. QED
      BY <2>1, LeakFrame DEF TypeOK
  <1>q. QED
    BY <1>1, <1>2, <1>3, <1>4 DEF LeaseStep

(***************************************************************************)
(* Time ages a member as fast as the record that stands for it.            *)
(***************************************************************************)
LEMMA LeakTick ==
  ASSUME TypeOK, LeakInv, Tick
  PROVE  LeakInv'
  <1>1. UNCHANGED <<members, pc, reply, target, owners, pending, excused>>
    BY DEF Tick
  <1>2. TTL \in Nat
    BY TimingAssumption
  <1>3. \A o \in members : age[o] \in 0..TTL /\ left[o] \in 0..TTL
    BY DEF TypeOK
  <1>4. \A o \in members : /\ age'[o] = IF age[o] + 1 < TTL THEN age[o] + 1 ELSE TTL
                           /\ left'[o] = IF left[o] - 1 > 0 THEN left[o] - 1 ELSE 0
    BY DEF Tick, Min2, Max2, TypeOK
  <1>5. \A o \in members : age[o] <= age'[o]
    BY <1>2, <1>3, <1>4
  <1>6. \A o \in Owners : Live(o)' => Live(o)
    <2> SUFFICES ASSUME NEW o \in Owners, o \in members, age'[o] < TTL PROVE age[o] < TTL
      BY <1>1 DEF Live
    <2>q. QED
      BY <1>2, <1>3, <1>4
  <1>7. \A o \in members : age[o] + left[o] >= TTL => age'[o] + left'[o] >= TTL
    BY <1>2, <1>3, <1>4
  <1>8. NoSilentLeak' /\ OutlivesInv'
    BY <1>1, <1>6, <1>7 DEF LeakInv, NoSilentLeak, OutlivesInv, Gone
  <1>9. RefusedInv' /\ ConfirmedInv'
    BY <1>1 DEF LeakInv, RefusedInv, ConfirmedInv, Gone
  <1>q. QED
    BY <1>8, <1>9 DEF LeakInv

\* Every step keeps unexpired members known.
LEMMA LeakStep ==
  ASSUME TypeOK, TypeOK', RecoverInv, RecoverySpaceReserved, LeakInv, [Next]_vars
  PROVE  LeakInv'
  <1>1. ASSUME UNCHANGED <<members, age, excused, pc, reply, target, owners, pending, left>>
        PROVE  LeakInv'
    BY <1>1 DEF LeakInv, NoSilentLeak, OutlivesInv, RefusedInv, ConfirmedInv, Live, Gone
  <1>2. CASE EnvStep
    <2>1. ASSUME NEW i \in Instances, Crash(i) PROVE LeakInv'
      <3>1. /\ UNCHANGED <<members, age, reply>>
            /\ excused' = excused \cup (owners \cap OnInst(i))
            /\ owners' = owners \ OnInst(i) /\ pending' = pending \ OnInst(i)
            /\ \A o \in Owners : InstOf[o] # i => left'[o] = left[o]
            /\ \A o \in Owners : pc'[o] \in {"done", pc[o]}
            /\ \A c \in Callers : target'[c] \in {None, target[c]}
        BY <2>1 DEF Crash
      <3>q. QED
        BY <3>1, LeakFrame DEF TypeOK, OnInst
    <2>q. QED
      BY <1>1, <1>2, <2>1 DEF EnvStep, Disconnect, AfterParent, SetLimit
  <1>3. CASE UNCHANGED vars
    BY <1>1, <1>3 DEF vars
  <1>q. QED
    BY <1>2, <1>3, LeakRedis, LeakRecovery, LeakAdmit, LeakLease, LeakTick DEF Next

\* The recovery map starts empty.
LEMMA RecoveryInit == Init => RecoverySpaceReserved /\ TakenInv /\ LeakInv
  <1> SUFFICES ASSUME Init PROVE RecoverySpaceReserved /\ TakenInv /\ LeakInv
    OBVIOUS
  <1>1. \A i \in Instances : Cardinality(owners \cap OnInst(i)) = 0
    <2>1. owners = {}
      BY DEF Init
    <2>2. \A i \in Instances : owners \cap OnInst(i) = {}
      BY <2>1
    <2>q. QED
      BY <2>2, FS_EmptySet
  <1>2. RecoverySpaceReserved
    BY <1>1, LimitsAssumption DEF Init, RecoverySpaceReserved
  <1>3. TakenInv
    BY DEF Init, TakenInv, BusyHasOneRecoverer
  <1>4. LeakInv
    BY DEF Init, LeakInv, NoSilentLeak, OutlivesInv, RefusedInv, ConfirmedInv, Live
  <1>q. QED
    BY <1>2, <1>3, <1>4

(***************************************************************************)
(* The recovery map never exceeds its capacity, and every call from its    *)
(* acquire to its release has a record in it, whatever calls, crashes and  *)
(* retries share the map (reserveConcurrencyOwner).                        *)
(***************************************************************************)
THEOREM SpaceIsReserved == Spec => []RecoverySpaceReserved
  <1>1. ProtocolInv => RecoverInv
    BY DEF ProtocolInv
  <1>q. QED
    BY <1>1, TypeInit, TypeStep, ProtocolInit, ProtocolStep, RecoveryInit, SpaceStep, PTL DEF Spec

(***************************************************************************)
(* A record is recovered by one admission or worker at a time, and a busy  *)
(* one always has a recoverer that will finish it                          *)
(* (pendingConcurrencyOwners, finishConcurrencyOwnerRecovery).             *)
(***************************************************************************)
THEOREM OneRecoverer == Spec => []BusyHasOneRecoverer
  <1>1. ProtocolInv => RecoverInv
    BY DEF ProtocolInv
  <1>2. TakenInv => BusyHasOneRecoverer
    BY DEF TakenInv
  <1>q. QED
    BY <1>1, <1>2, TypeInit, TypeStep, ProtocolInit, ProtocolStep, RecoveryInit, TakenStep, PTL
    DEF Spec

(***************************************************************************)
(* An unexpired member is known to the recovery map of its process unless  *)
(* the process crashed or a command ran after its caller gave up on it:    *)
(* the map forgets a record only on a confirmed release, on a refusal, or  *)
(* when the member has expired with it.                                    *)
(***************************************************************************)
THEOREM SlotsAreNotLeaked == Spec => []NoSilentLeak
  <1>1. ProtocolInv => RecoverInv
    BY DEF ProtocolInv
  <1>2. LeakInv => NoSilentLeak
    BY DEF LeakInv
  <1>q. QED
    BY <1>1, <1>2, TypeInit, TypeStep, ProtocolInit, ProtocolStep, RecoveryInit, SpaceStep,
       LeakStep, PTL DEF Spec

(***************************************************************************)
(* A slot that was given back or has expired stays so: only an acquire of  *)
(* the same call, still on its way, can record it again, never a renewal   *)
(* (refreshRegularLeaseScript).                                            *)
(***************************************************************************)
THEOREM SlotsStayReleased == Spec => NoResurrection
  <1> DEFINE Kept == \A o \in Owners : ~Live(o) /\ Live(o)' => <<"acquire", o>> \in wire
  <1>1. TypeOK /\ [Next]_vars => [Kept]_vars
    <2> SUFFICES ASSUME TypeOK, Next, NEW o \in Owners, ~Live(o), Live(o)'
                 PROVE  <<"acquire", o>> \in wire
      OBVIOUS
    <2>1. ~(UNCHANGED <<members, age>>)
      BY DEF Live
    <2>2. age[o] \in 0..TTL /\ TTL \in Nat
      BY TimingAssumption DEF TypeOK
    <2>3. ~Tick
      BY <2>2 DEF Tick, Live, Min2
    <2>4. ASSUME NEW p \in Owners, AdmitStep(p) \/ LeaseStep(p) PROVE FALSE
      BY <2>1, <2>4 DEF AdmitStep, Decline, Begin, Recovered, Reserve, ReserveRefused, Acquired,
                        PoolFull, AcquireError, LeaseStep, Renew, Renewed, LeaseLost, Finish,
                        FinishWhileRenewing, Drained, Reclaimed, ReclaimError
    <2>5. ~RecoverStep /\ ~EnvStep
      BY <2>1 DEF RecoverStep, WorkerTake, RecoverCall, RecoverReply, RecoverError, EnvStep,
                  Disconnect, AfterParent, SetLimit, Crash
    <2>6. ASSUME members' \subseteq members, age' = age PROVE FALSE
      BY <2>6 DEF Live
    <2>7. ASSUME NEW p \in Owners, NEW cmd, Write(p, cmd) PROVE p = o
      BY <2>7 DEF Write, Live, TypeOK
    <2>8. ASSUME NEW p \in Owners, ExecRefresh(p) PROVE FALSE
      <3>1. p \in members \ Expired(GroupOf[p]) /\ Write(p, <<"refresh", p>>)
        BY <2>6, <2>8 DEF ExecRefresh, Refuse
      <3>2. p = o
        BY <2>7, <3>1
      <3>q. QED
        BY <2>2, <3>1, <3>2 DEF Expired, InGroup, Live
    <2>9. ASSUME NEW p \in Owners, ExecAcquire(p) PROVE p = o
      BY <2>6, <2>7, <2>9 DEF ExecAcquire, Refuse
    <2>10. ASSUME NEW p \in Owners, ExecRelease(p) PROVE FALSE
      BY <2>6, <2>10 DEF ExecRelease
    <2>11. ASSUME NEW g \in Groups, Reap(g) PROVE FALSE
      BY <2>6, <2>11 DEF Reap
    <2>12. PICK p \in Owners : ExecAcquire(p)
      BY <2>3, <2>4, <2>5, <2>8, <2>10, <2>11 DEF Next, RedisStep
    <2>q. QED
      BY <2>9, <2>12 DEF ExecAcquire
  <1>q. QED
    BY <1>1, TypeInit, TypeStep, PTL DEF Spec, NoResurrection
=============================================================================
