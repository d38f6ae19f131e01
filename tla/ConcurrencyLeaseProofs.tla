---------------------- MODULE ConcurrencyLeaseProofs ----------------------
(***************************************************************************)
(* Theorems about ConcurrencyLease, for every number of calls, groups,     *)
(* processes and every timing that satisfies its assumptions.              *)
(***************************************************************************)
EXTENDS ConcurrencyLease, FiniteSetTheorems, TLAPS

USE DEF redisVars, callVars, recoverVars, execVars

(***************************************************************************)
(* Type correctness is preserved by every operation of the Redis scripts,  *)
(* the recovery map, acquireRequestSlot, the renewal goroutine and their   *)
(* environment.                                                            *)
(***************************************************************************)
LEMMA TypeInit == Init => TypeOK
  BY SetsAssumption, MapsAssumption, LimitsAssumption, TimingAssumption
  DEF Init, TypeOK, Callers, Phases

\* The scripts keep the types.
LEMMA TypeRedis ==
  ASSUME TypeOK, NEW o \in Owners, ExecAcquire(o) \/ ExecRefresh(o) \/ ExecRelease(o)
  PROVE  TypeOK'
  <1>0. TTL \in Nat
    BY TimingAssumption
  <1>1. ASSUME NEW cmd, NEW ans \in {"ok", "no"}, Answer(cmd, ans)
        PROVE  reply' \in [Callers -> {"none", "ok", "no"}]
    BY <1>1 DEF Answer, TypeOK
  <1>2. ASSUME NEW cmd, Consume(cmd)
        PROVE  wire' \subseteq (Ops \X Owners)
    BY <1>2 DEF Consume, TypeOK
  <1>3. ASSUME NEW cmd, Write(o, cmd)
        PROVE  /\ members' \subseteq Owners
               /\ age' \in [Owners -> 0..TTL]
               /\ excused' \subseteq Owners
               /\ reply' \in [Callers -> {"none", "ok", "no"}]
    BY <1>0, <1>1, <1>3 DEF Write, TypeOK
  <1>4. ASSUME NEW cmd, Refuse(o, cmd)
        PROVE  /\ members' \subseteq Owners
               /\ age' \in [Owners -> 0..TTL]
               /\ excused' \subseteq Owners
               /\ reply' \in [Callers -> {"none", "ok", "no"}]
    BY <1>1, <1>4 DEF Refuse, TypeOK
  <1>5. CASE ExecAcquire(o)
    BY <1>2, <1>3, <1>4, <1>5 DEF ExecAcquire, TypeOK
  <1>6. CASE ExecRefresh(o)
    BY <1>2, <1>3, <1>4, <1>6 DEF ExecRefresh, TypeOK
  <1>7. CASE ExecRelease(o)
    BY <1>1, <1>2, <1>7 DEF ExecRelease, TypeOK
  <1>q. QED
    BY <1>5, <1>6, <1>7

\* The recoverers keep the types.
LEMMA TypeRecovery ==
  ASSUME TypeOK, NEW c \in Callers,
         \/ c \in Instances /\ WorkerTake(c)
         \/ RecoverCall(c) \/ RecoverReply(c) \/ RecoverError(c)
  PROVE  TypeOK'
  <1>0. TTL \in Nat
    BY TimingAssumption
  <1>1. CASE c \in Instances /\ WorkerTake(c)
    BY <1>0, <1>1 DEF WorkerTake, Take, Elapsed, Takeable, Batches, OnInst, TypeOK
  <1>2. CASE RecoverCall(c)
    BY <1>2 DEF RecoverCall, Send, Ops, TypeOK
  <1>3. ASSUME NEW p \in Owners, NEW success \in BOOLEAN, RecoverEnd(c, p, success)
        PROVE  /\ batch' \in [Callers -> SUBSET Owners]
               /\ target' \in [Callers -> Owners \cup {None}]
               /\ failed' \in [Owners -> BOOLEAN]
               /\ owners' \subseteq Owners /\ pending' \subseteq owners' /\ busy' \subseteq pending'
               /\ left' \in [Owners -> 0..TTL]
    BY <1>0, <1>3 DEF RecoverEnd, FinishRecovery, Forget, TypeOK
  <1>4. CASE RecoverReply(c)
    <2>1. target[c] \in Owners
      BY <1>4 DEF RecoverReply, TypeOK
    <2>q. QED
      BY <1>3, <1>4, <2>1 DEF RecoverReply, TakeReply, TypeOK
  <1>5. CASE RecoverError(c)
    <2>1. PICK p \in batch[c] : RecoverEnd(c, p, FALSE)
      BY <1>5 DEF RecoverError
    <2>2. p \in Owners
      BY <2>1 DEF TypeOK
    <2>q. QED
      BY <1>3, <1>5, <2>1, <2>2 DEF RecoverError, TakeReply, TypeOK
  <1>q. QED
    BY <1>1, <1>2, <1>4, <1>5

\* An admission keeps the types.
LEMMA TypeAdmit ==
  ASSUME TypeOK, NEW o \in Owners, AdmitStep(o)
  PROVE  TypeOK'
  <1>0. TTL \in Nat /\ o \in Callers
    BY TimingAssumption DEF Callers
  <1>1. CASE Decline(o)
    BY <1>1 DEF Decline, Goto, Phases, TypeOK
  <1>2. CASE Begin(o)
    <2>1. limit[GroupOf[o]] \in Int
      BY MapsAssumption, LimitsAssumption DEF TypeOK
    <2>2. lim' \in [Owners -> Int]
      BY <1>2, <2>1 DEF Begin, TypeOK
    <2>3. failed' \in [Owners -> BOOLEAN]
      BY <1>2 DEF Begin, StillBusy, TypeOK
    <2>4. pc' \in [Owners -> Phases]
      BY <1>2 DEF Begin, Goto, Phases, TypeOK
    <2>5. /\ owners' \subseteq Owners /\ pending' \subseteq owners' /\ busy' \subseteq pending'
          /\ left' \in [Owners -> 0..TTL]
          /\ batch' \in [Callers -> SUBSET Owners]
      BY <1>0, <1>2 DEF Begin, Take, Elapsed, Takeable, Batches, OnInst, InGroup, TypeOK
    <2>q. QED
      BY <1>2, <2>2, <2>3, <2>4, <2>5 DEF Begin, TypeOK
  <1>3. CASE Recovered(o)
    BY <1>3 DEF Recovered, Goto, Phases, TypeOK
  <1>4. CASE Reserve(o)
    BY <1>0, <1>4 DEF Reserve, Evictable, Elapsed, OnInst, Send, Goto, SetTimer, Phases, Ops, TypeOK
  <1>5. CASE ReserveRefused(o)
    BY <1>0, <1>5 DEF ReserveRefused, Forget, Goto, Phases, TypeOK
  <1>6. CASE Acquired(o)
    <2>1. ExecOf[o] \in Execs
      BY MapsAssumption
    <2>2. slots' \in [Execs -> Int]
      BY <1>6, <2>1 DEF Acquired, TypeOK
    <2>q. QED
      BY <1>0, <1>6, <2>2 DEF Acquired, TakeReply, Goto, SetTimer, Phases, TypeOK
  <1>7. CASE PoolFull(o)
    BY <1>0, <1>7 DEF PoolFull, Forget, TakeReply, Goto, SetTimer, Phases, TypeOK
  <1>8. CASE AcquireError(o)
    BY <1>0, <1>8 DEF AcquireError, Send, Goto, SetTimer, Phases, Ops, TypeOK
  <1>q. QED
    BY <1>1, <1>2, <1>3, <1>4, <1>5, <1>6, <1>7, <1>8 DEF AdmitStep

\* The renewal goroutine and ReleaseFunc keep the types.
LEMMA TypeLease ==
  ASSUME TypeOK, NEW o \in Owners, LeaseStep(o)
  PROVE  TypeOK'
  <1>0. TTL \in Nat /\ o \in Callers /\ ExecOf[o] \in Execs
    BY TimingAssumption, MapsAssumption DEF Callers
  <1>1. CASE Renew(o)
    BY <1>0, <1>1 DEF Renew, Send, Goto, SetTimer, Phases, Ops, TypeOK
  <1>2. CASE Renewed(o)
    BY <1>0, <1>2 DEF Renewed, TakeReply, Goto, Phases, TypeOK
  <1>3. CASE LeaseLost(o)
    BY <1>0, <1>3 DEF LeaseLost, CancelDomain, TakeReply, Goto, Phases, TypeOK
  <1>4. CASE Finish(o)
    BY <1>0, <1>4 DEF Finish, Send, Goto, SetTimer, Phases, Ops, TypeOK
  <1>5. CASE FinishWhileRenewing(o)
    BY <1>5 DEF FinishWhileRenewing, Goto, Phases, TypeOK
  <1>6. CASE Drained(o)
    <2>1. execDone' \in [Execs -> BOOLEAN] /\ capDone' \in [Execs -> BOOLEAN]
      BY <1>0, <1>6 DEF Drained, CancelDomain, TypeOK
    <2>q. QED
      BY <1>0, <1>6, <2>1 DEF Drained, Send, Goto, SetTimer, Phases, Ops, TypeOK
  <1>7. ASSUME ReleaseSlot(o)
        PROVE  slots' \in [Execs -> Int] /\ capDone' \in [Execs -> BOOLEAN]
    BY <1>0, <1>7 DEF ReleaseSlot, TypeOK
  <1>8. CASE Reclaimed(o)
    BY <1>0, <1>7, <1>8 DEF Reclaimed, Forget, TakeReply, Goto, Phases, TypeOK
  <1>9. CASE ReclaimError(o)
    BY <1>0, <1>7, <1>9 DEF ReclaimError, MarkPending, TakeReply, Goto, Phases, TypeOK
  <1>q. QED
    BY <1>1, <1>2, <1>3, <1>4, <1>5, <1>6, <1>8, <1>9 DEF LeaseStep

\* Disconnects, limit changes, crashes, time and the reaper keep the types.
LEMMA TypeEnv ==
  ASSUME TypeOK, EnvStep \/ Tick \/ \E g \in Groups : Reap(g)
  PROVE  TypeOK'
  <1>0. TTL \in Nat
    BY TimingAssumption
  <1>1. ASSUME NEW e \in Execs, Disconnect(e) PROVE TypeOK'
    BY <1>1 DEF Disconnect, TypeOK
  <1>2. ASSUME NEW e \in Execs, AfterParent(e) PROVE TypeOK'
    BY <1>2 DEF AfterParent, TypeOK
  <1>3. ASSUME NEW g \in Groups, SetLimit(g) PROVE TypeOK'
    BY <1>3 DEF SetLimit, TypeOK
  <1>4. ASSUME NEW i \in Instances, Crash(i) PROVE TypeOK'
    <2>1. pc' \in [Owners -> Phases] /\ timer' \in [Owners -> Nat]
      BY <1>4 DEF Crash, Phases, TypeOK
    <2>2. /\ owners' \subseteq Owners /\ pending' \subseteq owners' /\ busy' \subseteq pending'
          /\ left' \in [Owners -> 0..TTL]
          /\ excused' \subseteq Owners
      BY <1>0, <1>4 DEF Crash, TypeOK
    <2>3. batch' \in [Callers -> SUBSET Owners] /\ target' \in [Callers -> Owners \cup {None}]
      BY <1>4 DEF Crash, TypeOK
    <2>4. slots' \in [Execs -> Int]
      BY <1>4 DEF Crash, TypeOK
    <2>5. execDone' \in [Execs -> BOOLEAN] /\ capDone' \in [Execs -> BOOLEAN]
      BY <1>4 DEF Crash, TypeOK
    <2>q. QED
      BY <1>4, <2>1, <2>2, <2>3, <2>4, <2>5 DEF Crash, TypeOK
  <1>5. CASE Tick
    <2>1. \A o \in Owners : Deadline(o) \in Nat
      BY TimingAssumption DEF Deadline
    <2>2. age' \in [Owners -> 0..TTL]
      BY <1>0, <1>5 DEF Tick, Min2, TypeOK
    <2>3. timer' \in [Owners -> Nat]
      BY <1>5, <2>1 DEF Tick, Min2, Max2, TypeOK
    <2>4. left' \in [Owners -> 0..TTL]
      BY <1>0, <1>5 DEF Tick, Max2, TypeOK
    <2>q. QED
      BY <1>5, <2>2, <2>3, <2>4 DEF Tick, TypeOK
  <1>6. ASSUME NEW g \in Groups, Reap(g) PROVE TypeOK'
    BY <1>6 DEF Reap, TypeOK
  <1>q. QED
    BY <1>1, <1>2, <1>3, <1>4, <1>5, <1>6 DEF EnvStep

\* Every step keeps the types.
LEMMA TypeStep == TypeOK /\ [Next]_vars => TypeOK'
  <1> SUFFICES ASSUME TypeOK, [Next]_vars PROVE TypeOK'
    OBVIOUS
  <1>1. CASE RedisStep
    BY <1>1, TypeRedis, TypeEnv DEF RedisStep
  <1>2. CASE RecoverStep
    BY <1>2, TypeRecovery DEF RecoverStep, Callers
  <1>3. CASE \E o \in Owners : AdmitStep(o) \/ LeaseStep(o)
    BY <1>3, TypeAdmit, TypeLease
  <1>4. CASE EnvStep \/ Tick
    BY <1>4, TypeEnv
  <1>5. CASE UNCHANGED vars
    BY <1>5 DEF vars, TypeOK
  <1>q. QED
    BY <1>1, <1>2, <1>3, <1>4, <1>5 DEF Next

(***************************************************************************)
(* The slot protocol keeps the shape of its state: pending records are     *)
(* reserved ones, busy records are pending, clocks stay in range.          *)
(***************************************************************************)
THEOREM TypeCorrect == Spec => []TypeOK
  BY TypeInit, TypeStep, PTL DEF Spec

-----------------------------------------------------------------------------
(***************************************************************************)
(* The inductive invariant behind the bound on executions.  An attempt     *)
(* that has not sent its acquire is unknown to Redis; a release of a slot  *)
(* is on its way only once the attempt stopped executing; recovery works   *)
(* on ended attempts only.                                                 *)
(***************************************************************************)
FreshInv ==
    \A o \in Owners : pc[o] \in {"idle", "recovering", "reserving"} =>
        o \notin members /\ <<"acquire", o>> \notin wire

ReleaseInv ==
    \A o \in Owners : <<"release", o>> \in wire => pc[o] \in {"uncertain", "releasing", "done"}

RecoverInv ==
    /\ \A p \in pending : pc[p] = "done"
    /\ \A c \in Callers : \A p \in batch[c] : pc[p] = "done"
    /\ \A c \in Callers : target[c] # None => target[c] \in batch[c]
    /\ \A o \in Owners : pc[o] # "recovering" => batch[o] = {}

\* How stale a lease can be in each phase, for a process that is not suspended.
Timed(o) ==
    /\ pc[o] = "acquiring" => timer[o] <= AcquireTimeout
    /\ pc[o] = "acquiring" /\ reply[o] = "ok" => o \in members /\ age[o] <= timer[o]
    /\ pc[o] = "running" /\ ~capDone[ExecOf[o]] =>
          o \in members /\ age[o] <= AcquireTimeout + timer[o] /\ timer[o] <= RenewEvery
    /\ pc[o] = "renewing" => timer[o] <= RenewTimeout
    /\ pc[o] = "renewing" /\ reply[o] = "ok" => age[o] <= timer[o]
    /\ pc[o] = "renewing" /\ ~capDone[ExecOf[o]] =>
          o \in members /\ age[o] <= AcquireTimeout + RenewEvery + timer[o]

TimedInv == \A o \in Owners \ Stalling : Timed(o)


ProtocolInv == FreshInv /\ ReleaseInv /\ RecoverInv

\* Initially nothing is recorded, sent or recovered.
LEMMA ProtocolInit == Init => ProtocolInv
  BY SetsAssumption DEF Init, ProtocolInv, FreshInv, ReleaseInv, RecoverInv, Callers

(***************************************************************************)
(* No script adds the member of an attempt that has not asked for it.      *)
(***************************************************************************)
LEMMA ProtocolRedis ==
  ASSUME TypeOK, ProtocolInv, NEW o \in Owners, ExecAcquire(o) \/ ExecRefresh(o) \/ ExecRelease(o)
  PROVE  ProtocolInv'
  <1> USE DEF ProtocolInv
  <1>1. UNCHANGED <<callVars, recoverVars, execVars>>
    BY DEF ExecAcquire, ExecRefresh, ExecRelease
  <1>2. wire' \subseteq wire
    BY DEF ExecAcquire, ExecRefresh, ExecRelease, Consume
  <1>3. /\ members' \subseteq members \cup {o}
        /\ o \in members' \ members => <<"acquire", o>> \in wire
    BY DEF ExecAcquire, ExecRefresh, ExecRelease, Write, Refuse
  <1>4. FreshInv'
    BY <1>1, <1>2, <1>3 DEF FreshInv
  <1>5. ReleaseInv' /\ RecoverInv'
    BY <1>1, <1>2 DEF ReleaseInv, RecoverInv
  <1>q. QED
    BY <1>4, <1>5

\* A recoverer sends releases of ended attempts only.
LEMMA ProtocolRecovery ==
  ASSUME TypeOK, ProtocolInv, NEW c \in Callers,
         \/ c \in Instances /\ WorkerTake(c)
         \/ RecoverCall(c) \/ RecoverReply(c) \/ RecoverError(c)
  PROVE  ProtocolInv'
  <1> USE DEF ProtocolInv
  <1>1. pc' = pc /\ members' = members
    BY DEF WorkerTake, RecoverCall, RecoverReply, RecoverError
  <1>2. CASE c \in Instances /\ WorkerTake(c)
    <2>1. c \notin Owners
      BY <1>2, SetsAssumption
    <2>2. PICK T \in SUBSET pending : /\ batch' = [batch EXCEPT ![c] = T]
                                      /\ pending' \subseteq pending
      BY <1>2 DEF WorkerTake, Take, Batches, Takeable
    <2>3. FreshInv' /\ ReleaseInv'
      BY <1>1, <1>2 DEF WorkerTake, FreshInv, ReleaseInv
    <2>4. target' = target /\ batch[c] = {}
      BY <1>2 DEF WorkerTake
    <2>5. RecoverInv'
      BY <1>1, <2>1, <2>2, <2>4 DEF RecoverInv, TypeOK, Callers
    <2>q. QED
      BY <2>3, <2>5
  <1>3. CASE RecoverCall(c)
    <2>1. PICK p \in batch[c] : target' = [target EXCEPT ![c] = p] /\ Send("release", p, c)
      BY <1>3 DEF RecoverCall
    <2>2. pc[p] = "done" /\ p \in Owners
      BY <2>1 DEF RecoverInv, TypeOK
    <2>3. FreshInv' /\ ReleaseInv'
      BY <1>1, <2>1, <2>2 DEF Send, FreshInv, ReleaseInv
    <2>4. RecoverInv'
      BY <1>1, <1>3, <2>1 DEF RecoverCall, RecoverInv, TypeOK
    <2>q. QED
      BY <2>3, <2>4
  <1>4. ASSUME NEW p, NEW success, RecoverEnd(c, p, success), wire' = wire,
               target[c] \in {None, p}
        PROVE  ProtocolInv'
    <2>1. FreshInv' /\ ReleaseInv'
      BY <1>1, <1>4 DEF FreshInv, ReleaseInv
    <2>2. /\ pending' \subseteq pending
          /\ batch' = [batch EXCEPT ![c] = batch[c] \ {p}]
          /\ target' = [target EXCEPT ![c] = None]
      BY <1>4 DEF RecoverEnd, FinishRecovery, Forget
    <2>3. RecoverInv'
      BY <1>1, <2>2 DEF RecoverInv, TypeOK
    <2>q. QED
      BY <2>1, <2>3
  <1>5. CASE RecoverReply(c)
    BY <1>4, <1>5 DEF RecoverReply
  <1>6. CASE RecoverError(c)
    BY <1>4, <1>6 DEF RecoverError
  <1>q. QED
    BY <1>2, <1>3, <1>5, <1>6

\* An admission is unknown to Redis until its acquire is sent.
LEMMA ProtocolAdmit ==
  ASSUME TypeOK, ProtocolInv, NEW o \in Owners, AdmitStep(o)
  PROVE  ProtocolInv'
  <1> USE DEF ProtocolInv, Goto
  <1>0. o \in Callers /\ Owners \subseteq Callers
    BY DEF Callers
  <1>1. CASE Decline(o)
    BY <1>1 DEF Decline, FreshInv, ReleaseInv, RecoverInv, TypeOK
  <1>2. CASE Begin(o)
    <2>1. PICK T \in SUBSET pending :
            /\ batch' = [batch EXCEPT ![o] = T]
            /\ pending' \subseteq pending
            /\ pc' = [pc EXCEPT ![o] = IF T # {} THEN "recovering"
                                       ELSE IF StillBusy(pending \cap OnInst(InstOf[o])
                                                            \cap InGroup(GroupOf[o]), T)
                                            THEN "done" ELSE "reserving"]
      BY <1>2 DEF Begin, Take, Batches, Takeable
    <2>2. pc[o] = "idle" /\ UNCHANGED <<members, wire, target>>
      BY <1>2 DEF Begin
    <2>3. FreshInv' /\ ReleaseInv'
      BY <2>1, <2>2 DEF FreshInv, ReleaseInv, TypeOK
    <2>4. \A p \in Owners : pc[p] = "done" => pc'[p] = "done"
      BY <2>1, <2>2 DEF TypeOK
    <2>5. T # {} => pc'[o] = "recovering"
      BY <2>1 DEF TypeOK
    <2>6. \A p \in Owners \ {o} : pc'[p] = pc[p] /\ batch'[p] = batch[p]
      BY <1>0, <2>1 DEF TypeOK
    <2>7. \A c \in Callers : \A p \in batch'[c] : p \in batch[c] \/ p \in pending
      BY <1>0, <2>1 DEF TypeOK
    <2>8. batch'[o] = T /\ target[o] = None
      BY <1>0, <2>1, <2>2 DEF RecoverInv, TypeOK
    <2>9. RecoverInv'
      <3>1. \A p \in pending' : pc'[p] = "done"
        BY <2>1, <2>4 DEF RecoverInv, TypeOK
      <3>2. \A c \in Callers : \A p \in batch'[c] : pc'[p] = "done"
        BY <2>4, <2>7 DEF RecoverInv, TypeOK
      <3>3. \A c \in Callers : target'[c] # None => target'[c] \in batch'[c]
        BY <1>0, <2>1, <2>2, <2>8 DEF RecoverInv, TypeOK
      <3>4. \A p \in Owners : pc'[p] # "recovering" => batch'[p] = {}
        BY <2>5, <2>6, <2>8 DEF RecoverInv
      <3>q. QED
        BY <3>1, <3>2, <3>3, <3>4 DEF RecoverInv
    <2>q. QED
      BY <2>3, <2>9
  <1>3. CASE Recovered(o)
    BY <1>3 DEF Recovered, FreshInv, ReleaseInv, RecoverInv, TypeOK
  <1>4. CASE Reserve(o)
    <2>1. FreshInv' /\ ReleaseInv'
      BY <1>4 DEF Reserve, Send, FreshInv, ReleaseInv, TypeOK
    <2>2. RecoverInv'
      BY <1>4 DEF Reserve, RecoverInv, TypeOK
    <2>q. QED
      BY <2>1, <2>2
  <1>5. CASE ReserveRefused(o)
    BY <1>5 DEF ReserveRefused, Forget, FreshInv, ReleaseInv, RecoverInv, TypeOK
  <1>6. CASE Acquired(o)
    BY <1>6 DEF Acquired, FreshInv, ReleaseInv, RecoverInv, TypeOK
  <1>7. CASE PoolFull(o)
    BY <1>7 DEF PoolFull, Forget, FreshInv, ReleaseInv, RecoverInv, TypeOK
  <1>8. CASE AcquireError(o)
    BY <1>8 DEF AcquireError, Send, FreshInv, ReleaseInv, RecoverInv, TypeOK
  <1>q. QED
    BY <1>1, <1>2, <1>3, <1>4, <1>5, <1>6, <1>7, <1>8 DEF AdmitStep

\* A call sends its release when it stops executing.
LEMMA ProtocolLease ==
  ASSUME TypeOK, ProtocolInv, NEW o \in Owners, LeaseStep(o)
  PROVE  ProtocolInv'
  <1> USE DEF ProtocolInv, Goto, Send
  <1>1. CASE Renew(o)
    BY <1>1 DEF Renew, FreshInv, ReleaseInv, RecoverInv, TypeOK
  <1>2. CASE Renewed(o)
    BY <1>2 DEF Renewed, FreshInv, ReleaseInv, RecoverInv, TypeOK
  <1>3. CASE LeaseLost(o)
    BY <1>3 DEF LeaseLost, FreshInv, ReleaseInv, RecoverInv, TypeOK
  <1>4. CASE Finish(o)
    BY <1>4 DEF Finish, FreshInv, ReleaseInv, RecoverInv, TypeOK
  <1>5. CASE FinishWhileRenewing(o)
    BY <1>5 DEF FinishWhileRenewing, FreshInv, ReleaseInv, RecoverInv, TypeOK
  <1>6. CASE Drained(o)
    BY <1>6 DEF Drained, FreshInv, ReleaseInv, RecoverInv, TypeOK
  <1>7. CASE Reclaimed(o)
    BY <1>7 DEF Reclaimed, Forget, FreshInv, ReleaseInv, RecoverInv, TypeOK
  <1>8. CASE ReclaimError(o)
    BY <1>8 DEF ReclaimError, MarkPending, FreshInv, ReleaseInv, RecoverInv, TypeOK
  <1>q. QED
    BY <1>1, <1>2, <1>3, <1>4, <1>5, <1>6, <1>7, <1>8 DEF LeaseStep

\* Crashes, time and the reaper keep the protocol invariant.
LEMMA ProtocolEnv ==
  ASSUME TypeOK, ProtocolInv, EnvStep \/ Tick \/ \E g \in Groups : Reap(g)
  PROVE  ProtocolInv'
  <1> USE DEF ProtocolInv
  <1>1. ASSUME NEW i \in Instances, Crash(i) PROVE ProtocolInv'
    <2>1. \A o \in Owners : pc'[o] \in {pc[o], "done"}
      BY <1>1 DEF Crash, TypeOK
    <2>2. \A o \in Owners : pc[o] = "done" => pc'[o] = "done"
      BY <1>1 DEF Crash, TypeOK
    <2>3. FreshInv' /\ ReleaseInv'
      BY <1>1, <2>1 DEF Crash, FreshInv, ReleaseInv
    <2>4. RecoverInv'
      <3>1. \A p \in pending' : pc'[p] = "done"
        BY <1>1, <2>2 DEF Crash, RecoverInv, TypeOK
      <3>2. \A c \in Callers : batch'[c] \in {batch[c], {}}
        BY <1>1 DEF Crash
      <3>3. \A c \in Callers : \A p \in batch'[c] : pc'[p] = "done"
        BY <2>2, <3>2 DEF RecoverInv, TypeOK
      <3>4. \A c \in Callers : target'[c] # None => target'[c] \in batch'[c]
        BY <1>1 DEF Crash, RecoverInv
      <3>5. \A o \in Owners : pc'[o] # "recovering" => batch'[o] = {}
        BY <1>1 DEF Crash, RecoverInv, TypeOK, Callers
      <3>q. QED
        BY <3>1, <3>3, <3>4, <3>5 DEF RecoverInv
    <2>q. QED
      BY <2>3, <2>4
  <1>2. ASSUME members' \subseteq members, UNCHANGED <<wire, pc, batch, target, pending>>
        PROVE  ProtocolInv'
    BY <1>2 DEF FreshInv, ReleaseInv, RecoverInv
  <1>3. CASE ~(\E i \in Instances : Crash(i))
    BY <1>2, <1>3 DEF EnvStep, Disconnect, AfterParent, SetLimit, Tick, Reap
  <1>q. QED
    BY <1>1, <1>3

\* Every step keeps the protocol invariant.
LEMMA ProtocolStep == TypeOK /\ ProtocolInv /\ [Next]_vars => ProtocolInv'
  <1> SUFFICES ASSUME TypeOK, ProtocolInv, [Next]_vars PROVE ProtocolInv'
    OBVIOUS
  <1>1. CASE RedisStep
    BY <1>1, ProtocolRedis, ProtocolEnv DEF RedisStep
  <1>2. CASE RecoverStep
    BY <1>2, ProtocolRecovery DEF RecoverStep, Callers
  <1>3. CASE \E o \in Owners : AdmitStep(o) \/ LeaseStep(o)
    BY <1>3, ProtocolAdmit, ProtocolLease
  <1>4. CASE EnvStep \/ Tick
    BY <1>4, ProtocolEnv
  <1>5. CASE UNCHANGED vars
    BY <1>5 DEF vars, ProtocolInv, FreshInv, ReleaseInv, RecoverInv
  <1>q. QED
    BY <1>1, <1>2, <1>3, <1>4, <1>5 DEF Next

-----------------------------------------------------------------------------
(***************************************************************************)
(* Removing members, or changing the limit of a call Redis does not know,  *)
(* leaves every remaining set of members within the limit of its latest.   *)
(***************************************************************************)
LEMMA PoolStable ==
  ASSUME PoolWithinLimit, members' \subseteq members, \A o \in members' : lim'[o] = lim[o]
  PROVE  PoolWithinLimit'
  <1> SUFFICES ASSUME NEW g \in Groups, NEW S \in SUBSET (members' \cap InGroup(g)), S # {}
               PROVE  \E o \in S : (lim'[o] <= 0 /\ g \in UserGroups) \/ Cardinality(S) <= lim'[o]
    BY DEF PoolWithinLimit, FitsSomeLimit, InGroup
  <1>1. PICK o \in S : (lim[o] <= 0 /\ g \in UserGroups) \/ Cardinality(S) <= lim[o]
    BY DEF PoolWithinLimit, FitsSomeLimit
  <1>q. QED
    BY <1>1

(***************************************************************************)
(* acquireScript counts the group before it adds a member, so any set that *)
(* contains the new member fits the limit the script was given.            *)
(***************************************************************************)
LEMMA PoolAcquire ==
  ASSUME TypeOK, PoolWithinLimit, NEW o \in Owners, ExecAcquire(o)
  PROVE  PoolWithinLimit'
  <1> DEFINE kept == (members \ Expired(GroupOf[o])) \cap InGroup(GroupOf[o])
  <1>0. lim' = lim
    BY DEF ExecAcquire
  <1>1. CASE members' \subseteq members
    BY <1>0, <1>1, PoolStable
  <1>2. CASE ~(members' \subseteq members)
    <2>1. members' = (members \ Expired(GroupOf[o])) \cup {o} /\ Admits(o)
      BY <1>2 DEF ExecAcquire, Write, Refuse
    <2> SUFFICES ASSUME NEW g \in Groups, NEW S \in SUBSET (members' \cap InGroup(g)), S # {}
                 PROVE  \E p \in S : (lim[p] <= 0 /\ g \in UserGroups) \/ Cardinality(S) <= lim[p]
      BY <1>0 DEF PoolWithinLimit, FitsSomeLimit, InGroup
    <2>2. CASE o \notin S
      <3>1. S \in SUBSET (members \cap InGroup(g))
        BY <2>1, <2>2
      <3>q. QED
        BY <3>1 DEF PoolWithinLimit, FitsSomeLimit
    <2>3. CASE o \in S
      <3>1. g = GroupOf[o]
        BY <2>3 DEF InGroup
      <3>2. CASE lim[o] <= 0 /\ GroupOf[o] \in UserGroups
        BY <2>3, <3>1, <3>2
      <3>3. CASE Cardinality(kept) < lim[o]
        <4>1. IsFiniteSet(kept) /\ S \subseteq kept \cup {o}
          <5>1. kept \subseteq Owners
            BY DEF TypeOK
          <5>2. IsFiniteSet(kept)
            BY <5>1, SetsAssumption, FS_Subset
          <5>q. QED
            BY <2>1, <3>1, <5>2
        <4>2. /\ IsFiniteSet(kept \cup {o})
              /\ Cardinality(kept \cup {o}) <= Cardinality(kept) + 1
              /\ Cardinality(kept) \in Nat
          <5>1. IsFiniteSet(kept \cup {o})
            BY <4>1, FS_AddElement
          <5>2. Cardinality(kept) \in Nat
            BY <4>1, FS_CardinalityType
          <5>q. QED
            BY <4>1, <5>1, <5>2, FS_AddElement
        <4>3. Cardinality(S) <= Cardinality(kept \cup {o}) /\ Cardinality(S) \in Nat
          BY <4>1, <4>2, FS_Subset, FS_CardinalityType
        <4>4. lim[o] \in Int /\ Cardinality(kept \cup {o}) \in Nat
          BY <4>2, FS_CardinalityType DEF TypeOK
        <4>q. QED
          BY <2>3, <3>3, <4>2, <4>3, <4>4
      <3>q. QED
        BY <2>1, <3>2, <3>3 DEF Admits
    <2>q. QED
      BY <2>2, <2>3
  <1>q. QED
    BY <1>1, <1>2

\* Every step keeps the bound on a pool.
LEMMA PoolStep == TypeOK /\ FreshInv /\ PoolWithinLimit /\ [Next]_vars => PoolWithinLimit'
  <1> SUFFICES ASSUME TypeOK, FreshInv, PoolWithinLimit, [Next]_vars PROVE PoolWithinLimit'
    OBVIOUS
  <1>1. ASSUME members' \subseteq members, lim' = lim PROVE PoolWithinLimit'
    BY <1>1, PoolStable
  <1>2. CASE RedisStep
    <2>1. ASSUME NEW o \in Owners, ExecRefresh(o) \/ ExecRelease(o) PROVE PoolWithinLimit'
      <3>1. members' \subseteq members /\ lim' = lim
        BY <2>1 DEF ExecRefresh, ExecRelease, Write, Refuse
      <3>q. QED
        BY <1>1, <3>1
    <2>2. ASSUME NEW g \in Groups, Reap(g) PROVE PoolWithinLimit'
      BY <1>1, <2>2 DEF Reap
    <2>q. QED
      BY <1>2, <2>1, <2>2, PoolAcquire DEF RedisStep
  <1>3. CASE RecoverStep
    BY <1>1, <1>3 DEF RecoverStep, WorkerTake, RecoverCall, RecoverReply, RecoverError
  <1>4. ASSUME NEW o \in Owners, AdmitStep(o) PROVE PoolWithinLimit'
    <2>1. CASE Begin(o)
      <3>1. members' = members /\ o \notin members /\ \A p \in Owners \ {o} : lim'[p] = lim[p]
        BY <2>1 DEF Begin, FreshInv, TypeOK
      <3>q. QED
        BY <3>1, PoolStable DEF TypeOK
    <2>2. CASE ~Begin(o)
      <3>1. members' = members /\ lim' = lim
        BY <1>4, <2>2 DEF AdmitStep, Decline, Recovered, Reserve, ReserveRefused, Acquired,
                          PoolFull, AcquireError
      <3>q. QED
        BY <1>1, <3>1
    <2>q. QED
      BY <2>1, <2>2
  <1>5. ASSUME NEW o \in Owners, LeaseStep(o) PROVE PoolWithinLimit'
    <2>1. members' = members /\ lim' = lim
      BY <1>5 DEF LeaseStep, Renew, Renewed, LeaseLost, Finish, FinishWhileRenewing, Drained,
                  Reclaimed, ReclaimError
    <2>q. QED
      BY <1>1, <2>1
  <1>6. CASE EnvStep \/ Tick
    <2>1. members' = members /\ lim' = lim
      BY <1>6 DEF EnvStep, Tick, Disconnect, AfterParent, SetLimit, Crash
    <2>q. QED
      BY <1>1, <2>1
  <1>7. CASE UNCHANGED vars
    BY <1>1, <1>7 DEF vars
  <1>q. QED
    BY <1>2, <1>3, <1>4, <1>5, <1>6, <1>7 DEF Next

-----------------------------------------------------------------------------
(***************************************************************************)
(* The timing argument, call by call.                                      *)
(***************************************************************************)
\* A lease under its deadlines is not expired, so no script reaps it.
LEMMA TimedUnexpired ==
  ASSUME TypeOK, NEW o \in Owners, Timed(o),
         \/ pc[o] = "acquiring" /\ reply[o] = "ok"
         \/ pc[o] \in {"running", "renewing"} /\ ~capDone[ExecOf[o]]
  PROVE  o \in members /\ age[o] < TTL
  BY TimingAssumption DEF Timed, TypeOK

\* Steps of other callers do not touch the call's own phase, clock and reply.
LEMMA TimedFrame ==
  ASSUME TypeOK, NEW o \in Owners, Timed(o),
         pc'[o] = pc[o], timer'[o] = timer[o], reply'[o] = reply[o],
         capDone[ExecOf[o]] => capDone'[ExecOf[o]],
         members' = members, age' = age
  PROVE  Timed(o)'
  BY DEF Timed

\* A script that answers a call makes its member young.
LEMMA TimedRedis ==
  ASSUME TypeOK, ReleaseInv, RecoverInv, NEW o \in Owners, Timed(o),
         NEW p \in Owners, ExecAcquire(p) \/ ExecRefresh(p) \/ ExecRelease(p)
  PROVE  Timed(o)'
  <1>1. pc' = pc /\ timer' = timer /\ capDone' = capDone
    BY DEF ExecAcquire, ExecRefresh, ExecRelease
  <1>2. PICK cmd : /\ cmd \in {<<"acquire", p>>, <<"refresh", p>>, <<"release", p>>}
                   /\ cmd \in wire
                   /\ \/ cmd # <<"release", p>> /\ Write(p, cmd)
                      \/ cmd # <<"release", p>> /\ Refuse(p, cmd)
                      \/ /\ cmd = <<"release", p>>
                         /\ members' = members \ (Expired(GroupOf[p]) \cup {p})
                         /\ age' = age /\ Answer(cmd, "ok")
    BY DEF ExecAcquire, ExecRefresh, ExecRelease
  <1>3. CASE pc[o] \notin {"acquiring", "running", "renewing"}
    BY <1>1, <1>3 DEF Timed
  <1>4. CASE pc[o] \in {"acquiring", "running", "renewing"}
    <2>1. batch[o] = {} /\ target[o] = None /\ o \in Callers
      BY <1>4 DEF RecoverInv, Callers
    <2>2. cmd[2] = p /\ cmd[1] \in {"acquire", "refresh", "release"}
      BY <1>2
    <2>3. Awaits(o, cmd) => p = o /\ cmd # <<"release", p>>
      BY <1>2, <1>4, <2>1, <2>2, SetsAssumption DEF Awaits
    <2>4. ~Awaits(o, cmd) => reply'[o] = reply[o]
      BY <1>2, <2>1 DEF Write, Refuse, Answer, TypeOK
    <2>5. cmd = <<"release", p>> => p # o
      BY <1>2, <1>4 DEF ReleaseInv
    <2>6. o \notin Expired(GroupOf[p]) /\ o \in members => o \in members'
      BY <1>2, <2>5 DEF Write, Refuse
    <2>7. age'[o] = age[o] \/ age'[o] = 0
      BY <1>2 DEF Write, Refuse, TypeOK
    <2>8. Awaits(o, cmd) /\ reply'[o] = "ok" => o \in members' /\ age'[o] = 0
      BY <1>2, <2>1, <2>3 DEF Write, Refuse, Answer, TypeOK
    <2>9. \/ pc[o] = "acquiring" /\ reply[o] = "ok"
          \/ pc[o] \in {"running", "renewing"} /\ ~capDone[ExecOf[o]]
          => o \in members'
      BY <2>6, TimedUnexpired, TimingAssumption DEF Expired, TypeOK
    <2>10. age[o] \in Nat /\ timer[o] \in Nat
      BY DEF TypeOK
    <2>q. QED
      BY <1>1, <2>4, <2>7, <2>8, <2>9, <2>10, TimingAssumption DEF Timed
  <1>q. QED
    BY <1>3, <1>4

\* The reaper removes no member that is within its time.
LEMMA TimedReap ==
  ASSUME TypeOK, NEW o \in Owners, Timed(o), NEW g \in Groups, Reap(g)
  PROVE  Timed(o)'
  <1>1. UNCHANGED <<pc, timer, reply, capDone, age>>
    BY DEF Reap
  <1>2. \/ pc[o] = "acquiring" /\ reply[o] = "ok"
        \/ pc[o] \in {"running", "renewing"} /\ ~capDone[ExecOf[o]]
        => o \in members'
    BY TimedUnexpired, TimingAssumption DEF Reap, Expired, TypeOK
  <1>q. QED
    BY <1>1, <1>2 DEF Timed

\* Recovery does not touch a call that runs.
LEMMA TimedRecovery ==
  ASSUME TypeOK, RecoverInv, NEW o \in Owners, Timed(o), NEW c \in Callers,
         \/ c \in Instances /\ WorkerTake(c)
         \/ RecoverCall(c) \/ RecoverReply(c) \/ RecoverError(c)
  PROVE  Timed(o)'
  <1>1. UNCHANGED <<pc, timer, capDone, members, age>>
    BY DEF WorkerTake, RecoverCall, RecoverReply, RecoverError
  <1>2. c # o => reply'[o] = reply[o]
    BY DEF WorkerTake, RecoverCall, RecoverReply, RecoverError, Send, TakeReply, TypeOK, Callers
  <1>3. c = o => pc[o] = "recovering"
    BY ZenonT(40), SetsAssumption DEF WorkerTake, RecoverCall, RecoverReply, RecoverError, RecoverInv, Callers
  <1>q. QED
    BY <1>1, <1>2, <1>3 DEF Timed

\* The steps of a call keep its member within its time.
LEMMA TimedCall ==
  ASSUME TypeOK, NEW o \in Owners, Timed(o), NEW p \in Owners, AdmitStep(p) \/ LeaseStep(p)
  PROVE  Timed(o)'
  <1>0. /\ p \in Callers /\ o \in Callers /\ ExecOf[p] \in Execs /\ ExecOf[o] \in Execs
        /\ AcquireTimeout \in Nat /\ RenewEvery \in Nat /\ RenewTimeout \in Nat
        /\ RenewTimeout <= RenewEvery
        /\ age[o] \in Nat /\ timer[o] \in Nat
    BY TimingAssumption, MapsAssumption DEF Callers, TypeOK
  <1>1. members' = members /\ age' = age
    BY DEF AdmitStep, Decline, Begin, Recovered, Reserve, ReserveRefused, Acquired, PoolFull,
           AcquireError, LeaseStep, Renew, Renewed, LeaseLost, Finish, FinishWhileRenewing,
           Drained, Reclaimed, ReclaimError, Send
  <1>2. capDone[ExecOf[o]] => capDone'[ExecOf[o]]
    BY <1>0 DEF AdmitStep, Decline, Begin, Recovered, Reserve, ReserveRefused, Acquired, PoolFull,
           AcquireError, LeaseStep, Renew, Renewed, LeaseLost, Finish, FinishWhileRenewing,
           Drained, Reclaimed, ReclaimError, CancelDomain, ReleaseSlot, TypeOK
  <1>3. CASE p # o
    <2>1. pc'[o] = pc[o] /\ timer'[o] = timer[o] /\ reply'[o] = reply[o]
      <3>1. CASE AdmitStep(p)
        BY <1>0, <1>3, <3>1
        DEF AdmitStep, Decline, Begin, Recovered, Reserve, ReserveRefused, Acquired, PoolFull,
            AcquireError, Goto, SetTimer, TakeReply, Send, TypeOK
      <3>2. CASE LeaseStep(p)
        BY <1>0, <1>3, <3>2
        DEF LeaseStep, Renew, Renewed, LeaseLost, Finish, FinishWhileRenewing, Drained,
            Reclaimed, ReclaimError, Goto, SetTimer, TakeReply, Send, TypeOK
      <3>q. QED
        BY <3>1, <3>2
    <2>q. QED
      BY <1>1, <1>2, <2>1, TimedFrame
  <1>4. CASE p = o
    <2> USE DEF Goto, SetTimer, TakeReply, Send
    <2>1. CASE Reserve(o)
      BY <1>0, <1>1, <2>1 DEF Reserve, Timed, TypeOK
    <2>2. CASE Acquired(o)
      BY <1>0, <1>1, <2>2 DEF Acquired, Timed, TypeOK
    <2>3. CASE Renew(o)
      BY <1>0, <1>1, <2>3 DEF Renew, Timed, TypeOK
    <2>4. CASE Renewed(o)
      BY <1>0, <1>1, <2>4 DEF Renewed, Timed, TypeOK
    <2>5. CASE LeaseLost(o)
      BY <1>0, <1>1, <2>5 DEF LeaseLost, CancelDomain, Timed, TypeOK
    <2>6. ASSUME pc'[o] \notin {"acquiring", "running", "renewing"} PROVE Timed(o)'
      BY <2>6 DEF Timed
    <2>7. CASE Decline(o) \/ Begin(o) \/ Recovered(o) \/ ReserveRefused(o) \/ PoolFull(o)
               \/ AcquireError(o)
      BY <1>0, <2>6, <2>7
      DEF Decline, Begin, Recovered, ReserveRefused, PoolFull, AcquireError, TypeOK
    <2>8. CASE Finish(o) \/ FinishWhileRenewing(o) \/ Drained(o) \/ Reclaimed(o) \/ ReclaimError(o)
      BY <1>0, <2>6, <2>8
      DEF Finish, FinishWhileRenewing, Drained, Reclaimed, ReclaimError, TypeOK
    <2>q. QED
      BY <1>4, <2>1, <2>2, <2>3, <2>4, <2>5, <2>7, <2>8 DEF AdmitStep, LeaseStep
  <1>q. QED
    BY <1>3, <1>4

\* Time passes only while every call that is not suspended is within its
\* deadline.
LEMMA TimedTick ==
  ASSUME TypeOK, NEW o \in Owners \ Stalling, Timed(o), Tick
  PROVE  Timed(o)'
  <1>1. UNCHANGED <<members, reply, pc, capDone>> /\ Punctual(o)
    BY DEF Tick
  <1>2. /\ age'[o] = IF o \in members THEN Min2(age[o] + 1, TTL) ELSE 0
        /\ timer'[o] = Min2(timer[o] + 1, Max2(timer[o], Deadline(o)))
    BY DEF Tick
  <1>3. /\ age[o] \in Nat /\ timer[o] \in Nat /\ TTL \in Nat
        /\ AcquireTimeout \in Nat /\ RenewEvery \in Nat /\ RenewTimeout \in Nat
    BY TimingAssumption DEF TypeOK
  <1>4. CASE pc[o] = "acquiring"
    BY <1>1, <1>2, <1>3, <1>4 DEF Punctual, Deadline, Min2, Max2, Timed
  <1>5. CASE pc[o] = "running"
    BY <1>1, <1>2, <1>3, <1>5 DEF Punctual, Deadline, Min2, Max2, Timed
  <1>6. CASE pc[o] = "renewing"
    BY <1>1, <1>2, <1>3, <1>6 DEF Punctual, Deadline, Min2, Max2, Timed
  <1>q. QED
    BY <1>1, <1>4, <1>5, <1>6 DEF Timed

\* A crash ends the calls of its process.
LEMMA TimedCrash ==
  ASSUME TypeOK, NEW o \in Owners, Timed(o), NEW i \in Instances, Crash(i)
  PROVE  Timed(o)'
  <1>1. \/ pc'[o] = "done"
        \/ pc'[o] = pc[o] /\ timer'[o] = timer[o]
    BY DEF Crash, TypeOK
  <1>2. UNCHANGED <<members, age, reply>> /\ (capDone[ExecOf[o]] => capDone'[ExecOf[o]])
    BY MapsAssumption DEF Crash, TypeOK
  <1>q. QED
    BY <1>1, <1>2 DEF Timed

\* Every step keeps the members of running calls within their time.
LEMMA TimedStep ==
  TypeOK /\ ProtocolInv /\ TimedInv /\ [Next]_vars => TimedInv'
  <1> SUFFICES ASSUME TypeOK, ProtocolInv, TimedInv, [Next]_vars, NEW o \in Owners \ Stalling
               PROVE  Timed(o)'
    BY DEF TimedInv
  <1>0. Timed(o) /\ ReleaseInv /\ RecoverInv
    BY DEF TimedInv, ProtocolInv
  <1>1. CASE RedisStep
    BY <1>0, <1>1, TimedRedis, TimedReap DEF RedisStep
  <1>2. CASE RecoverStep
    BY <1>0, <1>2, TimedRecovery DEF RecoverStep, Callers
  <1>3. CASE \E p \in Owners : AdmitStep(p) \/ LeaseStep(p)
    BY <1>0, <1>3, TimedCall
  <1>4. CASE EnvStep
    <2>1. ASSUME NEW e \in Execs, Disconnect(e) \/ AfterParent(e) PROVE Timed(o)'
      <3>1. UNCHANGED <<members, age, reply, pc, timer>>
        BY <2>1 DEF Disconnect, AfterParent
      <3>2. capDone[ExecOf[o]] => capDone'[ExecOf[o]]
        BY <2>1, MapsAssumption DEF Disconnect, AfterParent, TypeOK
      <3>q. QED
        BY <1>0, <3>1, <3>2, TimedFrame
    <2>2. ASSUME NEW g \in Groups, SetLimit(g) PROVE Timed(o)'
      BY <1>0, <2>2, TimedFrame DEF SetLimit
    <2>q. QED
      BY <1>0, <1>4, <2>1, <2>2, TimedCrash DEF EnvStep
  <1>5. CASE Tick
    BY <1>0, <1>5, TimedTick
  <1>6. CASE UNCHANGED vars
    BY <1>0, <1>6, TimedFrame DEF vars
  <1>q. QED
    BY <1>1, <1>2, <1>3, <1>4, <1>5, <1>6 DEF Next

-----------------------------------------------------------------------------
(***************************************************************************)
(* The inductive invariant: types, where each attempt can be, how stale    *)
(* its lease can be, and the pool bound.                                   *)
(***************************************************************************)
LeaseInv == TypeOK /\ ProtocolInv /\ TimedInv /\ PoolWithinLimit

\* The whole invariant holds initially.
LEMMA LeaseInvInit == Init => LeaseInv
  <1> SUFFICES ASSUME Init PROVE LeaseInv
    OBVIOUS
  <1>1. TimedInv
    BY DEF Init, TimedInv, Timed
  <1>2. PoolWithinLimit
    BY DEF Init, PoolWithinLimit, FitsSomeLimit
  <1>q. QED
    BY <1>1, <1>2, TypeInit, ProtocolInit DEF LeaseInv

\* Every step keeps the whole invariant.
LEMMA LeaseInvStep == LeaseInv /\ [Next]_vars => LeaseInv'
  BY TypeStep, ProtocolStep, TimedStep, PoolStep DEF LeaseInv, ProtocolInv

(***************************************************************************)
(* Redis never records more owners in a user or account pool than the      *)
(* limit one of them was admitted under, for any interleaving of late,     *)
(* duplicated and lost commands, crashes and limit edits.                  *)
(***************************************************************************)
THEOREM PoolBound == Spec => []PoolWithinLimit
  <1>1. LeaseInv => PoolWithinLimit
    BY DEF LeaseInv
  <1>q. QED
    BY <1>1, LeaseInvInit, LeaseInvStep, PTL DEF Spec

(***************************************************************************)
(* A request whose capacity context is alive has an unexpired member in    *)
(* Redis, so refreshRequestLease is fail-closed.                           *)
(***************************************************************************)
THEOREM LeaseSafety == Spec => []ExecutionHoldsSlot
  <1>1. LeaseInv => ExecutionHoldsSlot
    <2> SUFFICES ASSUME LeaseInv, NEW o \in Owners \ Stalling, Executing(o)
                 PROVE  Live(o)
      BY DEF ExecutionHoldsSlot
    <2>1. TypeOK /\ Timed(o)
      BY DEF LeaseInv, TimedInv
    <2>q. QED
      BY <2>1, TimedUnexpired DEF Executing, Live
  <1>q. QED
    BY <1>1, LeaseInvInit, LeaseInvStep, PTL DEF Spec

(***************************************************************************)
(* The requests really executing in a group stay within the limit that one *)
(* of them was admitted under.                                             *)
(***************************************************************************)
THEOREM ExecutionBound == Spec => []ExecutionsWithinLimit
  <1>1. LeaseInv => ExecutionsWithinLimit
    <2> SUFFICES ASSUME LeaseInv, NEW g \in Groups,
                        NEW S \in SUBSET {o \in InGroup(g) \ Stalling : Executing(o)}
                 PROVE  FitsSomeLimit(g, S)
      BY DEF ExecutionsWithinLimit
    <2>1. \A o \in S : o \in members /\ o \in InGroup(g)
      <3> SUFFICES ASSUME NEW o \in S PROVE o \in members /\ o \in InGroup(g)
        OBVIOUS
      <3>1. o \in Owners \ Stalling /\ Executing(o) /\ o \in InGroup(g)
        BY DEF InGroup
      <3>2. TypeOK /\ Timed(o)
        BY <3>1 DEF LeaseInv, TimedInv
      <3>q. QED
        BY <3>1, <3>2, TimedUnexpired DEF Executing
    <2>q. QED
      BY <2>1 DEF LeaseInv, PoolWithinLimit
  <1>q. QED
    BY <1>1, LeaseInvInit, LeaseInvStep, PTL DEF Spec
=============================================================================
