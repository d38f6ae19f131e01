-------------------------- MODULE ConcurrencyLease --------------------------
(***************************************************************************)
(* Execution-concurrency slots of the gateway: the per-user and            *)
(* per-account request pools kept in Redis, the renewed lease under which  *)
(* an admitted request runs, the cancellation domain shared by the slots   *)
(* of one request, and the per-instance map that retries releases whose    *)
(* outcome is unknown.                                                     *)
(*                                                                         *)
(* An element of Owners is one call of acquireRequestSlot, identified by   *)
(* the requestID it generates; it is used once.  Redis commands travel     *)
(* over a network that may lose, delay or duplicate them: the caller gives *)
(* up at its deadline while the command may still be executed later.       *)
(* Time is discrete and relative: Redis keeps the age of each member, a    *)
(* caller the time since it entered its phase.                             *)
(***************************************************************************)
EXTENDS Integers, FiniteSets

CONSTANTS
    Owners,         \* calls of acquireRequestSlot (their requestIDs)
    Groups,         \* (scope, id) pairs: one Redis sorted set each
    UserGroups,     \* the groups of scope "user"
    Instances,      \* gateway processes
    Execs,          \* cancellation domains (one request or worker operation)
    GroupOf,        \* group a call asks a slot of
    InstOf,         \* process a call runs in
    ExecOf,         \* domain a call belongs to
    Stalling,       \* calls whose process may be suspended past a deadline
    LimitValues,    \* concurrency limits an administrator may configure
    TTL,            \* lifetime of an unrenewed member
    AcquireTimeout, \* deadline of the acquire call
    RenewEvery,     \* renewal interval
    RenewTimeout,   \* deadline of the renewal call
    Capacity,       \* concurrencyOwnerRecoveryCapacity
    Batch,          \* concurrencyOwnerRecoveryBatch
    None            \* no recovery target

Callers == Owners \cup Instances

ASSUME SetsAssumption ==
    /\ IsFiniteSet(Owners)
    /\ Owners \cap Instances = {}
    /\ None \notin Owners
    /\ UserGroups \subseteq Groups
    /\ Stalling \subseteq Owners

ASSUME MapsAssumption ==
    /\ GroupOf \in [Owners -> Groups]
    /\ InstOf \in [Owners -> Instances]
    /\ ExecOf \in [Owners -> Execs]

ASSUME LimitsAssumption ==
    /\ LimitValues \subseteq Int
    /\ LimitValues # {}
    /\ Capacity \in Nat \ {0}
    /\ Batch \in Nat \ {0}

(***************************************************************************)
(* The renewal interval is min(TTL/3, 10s), its deadline min(2s, TTL/6),   *)
(* the acquire deadline 2s and the shortest TTL one minute, so a lease is  *)
(* renewed, or given up, well before it can expire.                        *)
(***************************************************************************)
ASSUME TimingAssumption ==
    /\ TTL \in Nat
    /\ AcquireTimeout \in Nat
    /\ RenewEvery \in Nat
    /\ RenewTimeout \in Nat
    /\ RenewTimeout <= RenewEvery
    /\ AcquireTimeout + RenewEvery + RenewTimeout < TTL

VARIABLES
    \* Redis and the network
    members,    \* requestIDs in the sorted sets, expired ones included
    age,        \* time since the member's score was written
    wire,       \* commands <<op, owner>> sent and not executed: late or lost
    reply,      \* answer a caller has received to the call it awaits
    \* acquireRequestSlot and its renewal goroutine
    pc, timer,
    lim,        \* limit the call was given
    \* owner recovery
    batch,      \* owners a caller took to recover and has not finished
    target,     \* the one whose release it awaits
    failed,     \* recoverConcurrencyOwners: failed
    owners, pending, busy,
    left,       \* time until a pending record's expiresAt
    \* concurrencyExecution
    slots, parentDone, notified, execDone, capDone,
    \* configuration
    limit,
    \* auxiliary: owners whose slot was written by a command no one awaited
    \* any more, or whose process crashed
    excused

redisVars == <<members, age, wire, reply>>
callVars == <<pc, timer, lim>>
recoverVars == <<batch, target, failed, owners, pending, busy, left>>
execVars == <<slots, parentDone, notified, execDone, capDone>>
vars == <<redisVars, callVars, recoverVars, execVars, limit, excused>>

Phases == {"idle", "recovering", "reserving", "acquiring", "uncertain",
           "running", "renewing", "draining", "releasing", "done"}
Ops == {"acquire", "refresh", "release"}

Max2(a, b) == IF a > b THEN a ELSE b
Min2(a, b) == IF a < b THEN a ELSE b

(***************************************************************************)
(* One type invariant: every variable keeps its shape, the clocks their    *)
(* range.                                                                  *)
(***************************************************************************)
TypeOK ==
    /\ members \subseteq Owners
    /\ age \in [Owners -> 0..TTL]
    /\ wire \subseteq (Ops \X Owners)
    /\ reply \in [Callers -> {"none", "ok", "no"}]
    /\ pc \in [Owners -> Phases]
    /\ timer \in [Owners -> Nat]
    /\ lim \in [Owners -> Int]
    /\ batch \in [Callers -> SUBSET Owners]
    /\ target \in [Callers -> Owners \cup {None}]
    /\ failed \in [Owners -> BOOLEAN]
    /\ owners \subseteq Owners
    /\ pending \subseteq owners
    /\ busy \subseteq pending
    /\ left \in [Owners -> 0..TTL]
    /\ slots \in [Execs -> Int]
    /\ parentDone \in [Execs -> BOOLEAN]
    /\ notified \in [Execs -> BOOLEAN]
    /\ execDone \in [Execs -> BOOLEAN]
    /\ capDone \in [Execs -> BOOLEAN]
    /\ limit \in [Groups -> LimitValues]
    /\ excused \subseteq Owners

Init ==
    /\ members = {}
    /\ age = [o \in Owners |-> 0]
    /\ wire = {}
    /\ reply = [c \in Callers |-> "none"]
    /\ pc = [o \in Owners |-> "idle"]
    /\ timer = [o \in Owners |-> 0]
    /\ lim = [o \in Owners |-> 0]
    /\ batch = [c \in Callers |-> {}]
    /\ target = [c \in Callers |-> None]
    /\ failed = [o \in Owners |-> FALSE]
    /\ owners = {}
    /\ pending = {}
    /\ busy = {}
    /\ left = [o \in Owners |-> 0]
    /\ slots = [e \in Execs |-> 0]
    /\ parentDone = [e \in Execs |-> FALSE]
    /\ notified = [e \in Execs |-> FALSE]
    /\ execDone = [e \in Execs |-> FALSE]
    /\ capDone = [e \in Execs |-> FALSE]
    /\ limit \in [Groups -> LimitValues]
    /\ excused = {}

-----------------------------------------------------------------------------
(***************************************************************************)
(* Redis: the Lua scripts run atomically when the command is delivered.    *)
(***************************************************************************)
InGroup(g) == {o \in Owners : GroupOf[o] = g}
OnInst(i) == {o \in Owners : InstOf[o] = i}

\* Mutant: members are kept forever (off by one at the saturated age).
ExpiredNever(g) == {o \in members \cap InGroup(g) : age[o] > TTL}

\* ZREMRANGEBYSCORE key -inf now-ttl, the first step of every script
Expired(g) == {o \in members \cap InGroup(g) : age[o] >= TTL}

\* Mutant: one owner more than the limit.
AdmitsOneMore(o) ==
    LET kept == (members \ Expired(GroupOf[o])) \cap InGroup(GroupOf[o])
    IN  \/ lim[o] <= 0 /\ GroupOf[o] \in UserGroups
        \/ Cardinality(kept) <= lim[o]

\* acquireScript: an unlimited user is still counted
Admits(o) ==
    LET kept == (members \ Expired(GroupOf[o])) \cap InGroup(GroupOf[o])
    IN  \/ lim[o] <= 0 /\ GroupOf[o] \in UserGroups
        \/ Cardinality(kept) < lim[o]

\* The call a caller is blocked on; a reply to any other command is dropped.
Awaits(c, cmd) ==
    \/ /\ c = cmd[2]
       /\ \/ cmd[1] = "acquire" /\ pc[c] = "acquiring"
          \/ cmd[1] = "refresh" /\ pc[c] \in {"renewing", "draining"}
          \/ cmd[1] = "release" /\ pc[c] \in {"uncertain", "releasing"}
    \/ cmd[1] = "release" /\ target[c] = cmd[2]

Awaited(cmd) == \E c \in Callers : Awaits(c, cmd)

Answer(cmd, ans) ==
    reply' = [c \in Callers |-> IF Awaits(c, cmd) THEN ans ELSE reply[c]]

\* A command executed while its caller retries it may be executed again.
Consume(cmd) ==
    \/ wire' = wire \ {cmd}
    \/ Awaited(cmd) /\ UNCHANGED wire

Write(o, cmd) ==
    /\ members' = (members \ Expired(GroupOf[o])) \cup {o}
    /\ age' = [age EXCEPT ![o] = 0]
    /\ excused' = IF Awaited(cmd) THEN excused ELSE excused \cup {o}
    /\ Answer(cmd, "ok")

Refuse(o, cmd) ==
    /\ members' = members \ Expired(GroupOf[o])
    /\ Answer(cmd, "no")
    /\ UNCHANGED <<age, excused>>

\* acquireScript (a member that is still there is refreshed, for retries)
ExecAcquire(o) ==
    LET cmd == <<"acquire", o>>
    IN  /\ cmd \in wire
        /\ Consume(cmd)
        /\ IF o \in members \ Expired(GroupOf[o]) \/ Admits(o)
           THEN Write(o, cmd)
           ELSE Refuse(o, cmd)
        /\ UNCHANGED <<callVars, recoverVars, execVars, limit>>

\* Mutant: renewal recreates a missing member.
ExecRefreshRecreates(o) ==
    LET cmd == <<"refresh", o>>
    IN  /\ cmd \in wire
        /\ Consume(cmd)
        /\ Write(o, cmd)
        /\ UNCHANGED <<callVars, recoverVars, execVars, limit>>

\* refreshRegularLeaseScript: a missing or expired member is not recreated
ExecRefresh(o) ==
    LET cmd == <<"refresh", o>>
    IN  /\ cmd \in wire
        /\ Consume(cmd)
        /\ IF o \in members \ Expired(GroupOf[o])
           THEN Write(o, cmd)
           ELSE Refuse(o, cmd)
        /\ UNCHANGED <<callVars, recoverVars, execVars, limit>>

\* ReleaseUserSlot / ReleaseAccountSlot: ZREM, then the active-index refresh
\* reaps the expired members of the same set
ExecRelease(o) ==
    LET cmd == <<"release", o>>
    IN  /\ cmd \in wire
        /\ Consume(cmd)
        /\ members' = members \ (Expired(GroupOf[o]) \cup {o})
        /\ Answer(cmd, "ok")
        /\ UNCHANGED <<age, callVars, recoverVars, execVars, limit, excused>>

\* CleanupExpiredAccountSlotKeys, the count scripts and the key's own EXPIRE
Reap(g) ==
    /\ Expired(g) # {}
    /\ members' = members \ Expired(g)
    /\ UNCHANGED <<age, wire, reply, callVars, recoverVars, execVars, limit, excused>>

-----------------------------------------------------------------------------
(***************************************************************************)
(* The owner-recovery map of an instance.                                  *)
(***************************************************************************)
Send(op, o, c) ==
    /\ wire' = wire \cup {<<op, o>>}
    /\ reply' = [reply EXCEPT ![c] = "none"]

TakeReply(c) == reply' = [reply EXCEPT ![c] = "none"]

\* Mutant: the record stays in its group's pending map.
ForgetOwnerOnly(F) ==
    /\ owners' = owners \ F
    /\ left' = [o \in Owners |-> IF o \in F THEN 0 ELSE left[o]]
    /\ UNCHANGED <<pending, busy>>

\* forgetLocked, for a set of owners
Forget(F) ==
    /\ owners' = owners \ F
    /\ pending' = pending \ F
    /\ busy' = busy \ F
    /\ left' = [o \in Owners |-> IF o \in F THEN 0 ELSE left[o]]

\* markConcurrencyOwnerPending: nothing happens to an owner no longer in the map
MarkPending(o) ==
    /\ pending' = IF o \in owners THEN pending \cup {o} ELSE pending
    /\ left' = IF o \in owners THEN [left EXCEPT ![o] = TTL] ELSE left
    /\ UNCHANGED <<owners, busy>>

\* pendingConcurrencyOwners: expired records are forgotten even when busy
Elapsed(P) == {p \in P : left[p] = 0}
\* Mutant: a record is taken although someone is recovering it.
TakeableBusy(P) == P \ Elapsed(P)
Takeable(P) == {p \in P \ Elapsed(P) : p \notin busy}
Batches(P) ==
    {T \in SUBSET Takeable(P) : Cardinality(T) = Min2(Batch, Cardinality(Takeable(P)))}
StillBusy(P, T) == (P \ Elapsed(P)) \ T # {}

Take(P, T) ==
    LET F == Elapsed(P)
    IN  /\ owners' = owners \ F
        /\ pending' = pending \ F
        /\ busy' = (busy \ F) \cup T
        /\ left' = [o \in Owners |-> IF o \in F THEN 0 ELSE left[o]]

\* finishConcurrencyOwnerRecovery
FinishRecovery(p, success) ==
    IF success
    THEN Forget({p})
    ELSE busy' = busy \ {p} /\ UNCHANGED <<owners, pending, left>>

\* The cleanup worker's recoverPendingConcurrencyOwners takes its batch.
WorkerTake(i) ==
    /\ batch[i] = {}
    /\ \E T \in Batches(pending \cap OnInst(i)) :
        /\ Take(pending \cap OnInst(i), T)
        /\ batch' = [batch EXCEPT ![i] = T]
    /\ UNCHANGED <<redisVars, callVars, target, failed, execVars, limit, excused>>

\* One iteration of the recovery loop, in an admission or in the worker:
\* issue the release of the next owner of the batch ...
RecoverCall(c) ==
    /\ target[c] = None
    /\ \E p \in batch[c] :
        /\ target' = [target EXCEPT ![c] = p]
        /\ Send("release", p, c)
    /\ UNCHANGED <<members, age, callVars, batch, failed, owners, pending, busy, left,
                   execVars, limit, excused>>

\* ... and record its outcome.  Only an admission looks at failed.
RecoverEnd(c, p, success) ==
    /\ FinishRecovery(p, success)
    /\ batch' = [batch EXCEPT ![c] = @ \ {p}]
    /\ target' = [target EXCEPT ![c] = None]
    /\ failed' = IF c \in Owners /\ ~success THEN [failed EXCEPT ![c] = TRUE] ELSE failed

RecoverReply(c) ==
    /\ target[c] # None
    /\ reply[c] = "ok"
    /\ RecoverEnd(c, target[c], TRUE)
    /\ TakeReply(c)
    /\ UNCHANGED <<members, age, wire, callVars, execVars, limit, excused>>

\* The call failed, or the shared deadline had passed before it was issued.
RecoverError(c) ==
    /\ \E p \in batch[c] :
        /\ target[c] \in {None, p}
        /\ RecoverEnd(c, p, FALSE)
    /\ TakeReply(c)
    /\ UNCHANGED <<members, age, wire, callVars, execVars, limit, excused>>

-----------------------------------------------------------------------------
(***************************************************************************)
(* acquireRequestSlot.                                                     *)
(***************************************************************************)
Goto(o, phase) == pc' = [pc EXCEPT ![o] = phase]
SetTimer(o) == timer' = [timer EXCEPT ![o] = 0]

\* The domain is already cancelled, the user cannot be read, or the account
\* is unlimited and takes no slot.
Decline(o) ==
    /\ pc[o] = "idle"
    /\ Goto(o, "done")
    /\ UNCHANGED <<redisVars, timer, lim, recoverVars, execVars, limit, excused>>

\* ResolveUserConcurrency, then recoverConcurrencyOwners takes the pending
\* releases of this group; one being recovered elsewhere refuses admission.
Begin(o) ==
    LET P == pending \cap OnInst(InstOf[o]) \cap InGroup(GroupOf[o])
    IN  /\ pc[o] = "idle"
        /\ ~execDone[ExecOf[o]]
        /\ GroupOf[o] \in UserGroups \/ limit[GroupOf[o]] > 0
        /\ lim' = [lim EXCEPT ![o] = limit[GroupOf[o]]]
        /\ \E T \in Batches(P) :
            /\ Take(P, T)
            /\ batch' = [batch EXCEPT ![o] = T]
            /\ failed' = [failed EXCEPT ![o] = StillBusy(P, T)]
            /\ Goto(o, IF T # {} THEN "recovering"
                       ELSE IF StillBusy(P, T) THEN "done" ELSE "reserving")
        /\ UNCHANGED <<redisVars, timer, target, execVars, limit, excused>>

Recovered(o) ==
    /\ pc[o] = "recovering"
    /\ batch[o] = {}
    /\ Goto(o, IF failed[o] THEN "done" ELSE "reserving")
    /\ UNCHANGED <<redisVars, timer, lim, recoverVars, execVars, limit, excused>>

\* reserveConcurrencyOwner, then the acquire script is sent.  Only a full map
\* makes room, from expired records no one is recovering.
Evictable(o) ==
    IF Cardinality(owners \cap OnInst(InstOf[o])) >= Capacity
    THEN Elapsed(pending \cap OnInst(InstOf[o])) \ busy
    ELSE {}

\* Mutant: off by one at the capacity of the map.
HasRoomForOneMore(o) ==
    Cardinality((owners \ Evictable(o)) \cap OnInst(InstOf[o])) <= Capacity
HasRoom(o) == Cardinality((owners \ Evictable(o)) \cap OnInst(InstOf[o])) < Capacity

Reserve(o) ==
    /\ pc[o] = "reserving"
    /\ HasRoom(o)
    /\ owners' = (owners \ Evictable(o)) \cup {o}
    /\ pending' = pending \ Evictable(o)
    /\ Send("acquire", o, o)
    /\ Goto(o, "acquiring")
    /\ SetTimer(o)
    /\ UNCHANGED <<members, age, lim, batch, target, failed, busy, left, execVars, limit, excused>>

ReserveRefused(o) ==
    /\ pc[o] = "reserving"
    /\ ~HasRoom(o)
    /\ Forget(Evictable(o))
    /\ Goto(o, "done")
    /\ UNCHANGED <<redisVars, timer, lim, batch, target, failed, execVars, limit, excused>>

\* Admitted: retainSlot and start the renewal goroutine's ticker.
Acquired(o) ==
    /\ pc[o] = "acquiring"
    /\ reply[o] = "ok"
    /\ TakeReply(o)
    /\ Goto(o, "running")
    /\ SetTimer(o)
    /\ slots' = [slots EXCEPT ![ExecOf[o]] = @ + 1]
    /\ UNCHANGED <<members, age, wire, lim, recoverVars, parentDone, notified, execDone, capDone,
                   limit, excused>>

PoolFull(o) ==
    /\ pc[o] = "acquiring"
    /\ reply[o] = "no"
    /\ Forget({o})
    /\ TakeReply(o)
    /\ Goto(o, "done")
    /\ SetTimer(o)
    /\ UNCHANGED <<members, age, wire, lim, batch, target, failed, execVars, limit, excused>>

\* Mutant: the acquire call has no deadline.
AcquireErrorOnReplyOnly(o) ==
    /\ pc[o] = "acquiring"
    /\ reply[o] = "no"
    /\ Send("release", o, o)
    /\ Goto(o, "uncertain")
    /\ SetTimer(o)
    /\ UNCHANGED <<members, age, lim, recoverVars, execVars, limit, excused>>

\* No answer in time, or the domain was cancelled: the script may have run or
\* may still run, so this call's own slot is released.
AcquireError(o) ==
    /\ pc[o] = "acquiring"
    /\ Send("release", o, o)
    /\ Goto(o, "uncertain")
    /\ SetTimer(o)
    /\ UNCHANGED <<members, age, lim, recoverVars, execVars, limit, excused>>

-----------------------------------------------------------------------------
(***************************************************************************)
(* refreshRequestLease and ReleaseFunc.                                    *)
(***************************************************************************)
CancelDomain(e) ==
    /\ execDone' = [execDone EXCEPT ![e] = TRUE]
    /\ capDone' = [capDone EXCEPT ![e] = TRUE]

\* The ticker fires; the goroutine has exited once capacity is cancelled.
Renew(o) ==
    /\ pc[o] = "running"
    /\ ~capDone[ExecOf[o]]
    /\ timer[o] >= RenewEvery
    /\ Send("refresh", o, o)
    /\ Goto(o, "renewing")
    /\ SetTimer(o)
    /\ UNCHANGED <<members, age, lim, recoverVars, execVars, limit, excused>>

Renewed(o) ==
    /\ pc[o] = "renewing"
    /\ reply[o] = "ok"
    /\ TakeReply(o)
    /\ Goto(o, "running")
    /\ UNCHANGED <<members, age, wire, timer, lim, recoverVars, execVars, limit, excused>>

\* Mutant: a failed renewal is tolerated until the next one.
LeaseLostTolerated(o) ==
    /\ pc[o] = "renewing"
    /\ reply[o] # "ok"
    /\ TakeReply(o)
    /\ Goto(o, "running")
    /\ UNCHANGED <<members, age, wire, timer, lim, recoverVars, execVars, limit, excused>>

\* A missing member, an error or no answer in time: ErrConcurrencyLeaseLost
\* cancels the whole domain and the goroutine exits.
LeaseLost(o) ==
    /\ pc[o] = "renewing"
    /\ reply[o] # "ok"
    /\ CancelDomain(ExecOf[o])
    /\ TakeReply(o)
    /\ Goto(o, "running")
    /\ UNCHANGED <<members, age, wire, timer, lim, recoverVars, slots, parentDone, notified, limit, excused>>

\* ReleaseFunc stops the goroutine and waits for it: a renewal in progress
\* finishes first.
Finish(o) ==
    /\ pc[o] = "running"
    /\ Send("release", o, o)
    /\ Goto(o, "releasing")
    /\ SetTimer(o)
    /\ UNCHANGED <<members, age, lim, recoverVars, execVars, limit, excused>>

FinishWhileRenewing(o) ==
    /\ pc[o] = "renewing"
    /\ Goto(o, "draining")
    /\ UNCHANGED <<redisVars, timer, lim, recoverVars, execVars, limit, excused>>

Drained(o) ==
    /\ pc[o] = "draining"
    /\ IF reply[o] = "ok" THEN UNCHANGED <<execDone, capDone>> ELSE CancelDomain(ExecOf[o])
    /\ Send("release", o, o)
    /\ Goto(o, "releasing")
    /\ SetTimer(o)
    /\ UNCHANGED <<members, age, lim, recoverVars, slots, parentDone, notified, limit, excused>>

\* Mutant: the last release does not look at the disconnected parent.
ReleaseSlotOnly(o) ==
    IF pc[o] = "releasing"
    THEN slots' = [slots EXCEPT ![ExecOf[o]] = @ - 1] /\ UNCHANGED capDone
    ELSE UNCHANGED <<slots, capDone>>

\* releaseSlot (deferred): the last slot of a disconnected domain ends it
ReleaseSlot(o) ==
    LET e == ExecOf[o]
    IN  IF pc[o] = "releasing"
        THEN /\ slots' = [slots EXCEPT ![e] = @ - 1]
             /\ capDone' = [capDone EXCEPT ![e] = @ \/ (slots[e] = 1 /\ parentDone[e])]
        ELSE UNCHANGED <<slots, capDone>>

\* reclaimConcurrencyOwner, after an uncertain admission or in ReleaseFunc
Reclaimed(o) ==
    /\ pc[o] \in {"uncertain", "releasing"}
    /\ reply[o] = "ok"
    /\ Forget({o})
    /\ ReleaseSlot(o)
    /\ TakeReply(o)
    /\ Goto(o, "done")
    /\ UNCHANGED <<members, age, wire, timer, lim, batch, target, failed, parentDone, notified, execDone,
                   limit, excused>>

\* Mutant: a failed release is forgotten like a confirmed one.
ReclaimErrorForgets(o) ==
    /\ pc[o] \in {"uncertain", "releasing"}
    /\ Forget({o})
    /\ ReleaseSlot(o)
    /\ TakeReply(o)
    /\ Goto(o, "done")
    /\ UNCHANGED <<members, age, wire, timer, lim, batch, target, failed, parentDone, notified,
                   execDone, limit, excused>>

ReclaimError(o) ==
    /\ pc[o] \in {"uncertain", "releasing"}
    /\ MarkPending(o)
    /\ ReleaseSlot(o)
    /\ TakeReply(o)
    /\ Goto(o, "done")
    /\ UNCHANGED <<members, age, wire, timer, lim, batch, target, failed, parentDone, notified, execDone,
                   limit, excused>>

-----------------------------------------------------------------------------
(***************************************************************************)
(* The environment of a call.                                              *)
(***************************************************************************)
\* The client goes away: the parent context, and with it the execution
\* context, is done; capacity is not.
Disconnect(e) ==
    /\ ~parentDone[e]
    /\ parentDone' = [parentDone EXCEPT ![e] = TRUE]
    /\ execDone' = [execDone EXCEPT ![e] = TRUE]
    /\ UNCHANGED <<redisVars, callVars, recoverVars, slots, notified, capDone, limit, excused>>

\* Mutant: a disconnect cancels capacity at once.
AfterParentCancels(e) ==
    /\ parentDone[e]
    /\ ~notified[e]
    /\ notified' = [notified EXCEPT ![e] = TRUE]
    /\ capDone' = [capDone EXCEPT ![e] = TRUE]
    /\ UNCHANGED <<redisVars, callVars, recoverVars, slots, parentDone, execDone, limit, excused>>

\* The context.AfterFunc goroutine of WithConcurrencyLeaseContext
AfterParent(e) ==
    /\ parentDone[e]
    /\ ~notified[e]
    /\ notified' = [notified EXCEPT ![e] = TRUE]
    /\ capDone' = [capDone EXCEPT ![e] = @ \/ slots[e] = 0]
    /\ UNCHANGED <<redisVars, callVars, recoverVars, slots, parentDone, execDone, limit, excused>>

SetLimit(g) ==
    /\ limit' \in {[limit EXCEPT ![g] = n] : n \in LimitValues \ {limit[g]}}
    /\ UNCHANGED <<redisVars, callVars, recoverVars, execVars, excused>>

\* A process dies and is started again: its memory is gone, Redis and the
\* commands already sent stay.  Start-up cleanup reaps expired members only.
Crash(i) ==
    LET mine == {o \in OnInst(i) : pc[o] \notin {"idle", "done"}}
        dead == {ExecOf[o] : o \in mine}
    IN  /\ pc' = [o \in Owners |-> IF o \in mine THEN "done" ELSE pc[o]]
        /\ timer' = [o \in Owners |-> IF o \in mine THEN 0 ELSE timer[o]]
        /\ excused' = excused \cup (owners \cap OnInst(i))
        /\ owners' = owners \ OnInst(i)
        /\ pending' = pending \ OnInst(i)
        /\ busy' = busy \ OnInst(i)
        /\ left' = [o \in Owners |-> IF InstOf[o] = i THEN 0 ELSE left[o]]
        /\ batch' = [c \in Callers |-> IF c = i \/ c \in mine THEN {} ELSE batch[c]]
        /\ target' = [c \in Callers |-> IF c = i \/ c \in mine THEN None ELSE target[c]]
        /\ slots' = [e \in Execs |-> IF e \in dead THEN 0 ELSE slots[e]]
        /\ execDone' = [e \in Execs |-> execDone[e] \/ e \in dead]
        /\ capDone' = [e \in Execs |-> capDone[e] \/ e \in dead]
        /\ UNCHANGED <<redisVars, lim, failed, parentDone, notified, limit>>

Deadline(o) ==
    CASE pc[o] = "acquiring" -> AcquireTimeout
      [] pc[o] = "running" -> RenewEvery
      [] pc[o] \in {"renewing", "draining"} -> RenewTimeout
      [] OTHER -> 0

\* A process that is not suspended acts at its deadlines; the work of a
\* cancelled domain has no lease to keep.
Punctual(o) ==
    \/ o \in Stalling
    \/ pc[o] = "running" /\ capDone[ExecOf[o]]
    \/ pc[o] \in {"acquiring", "running", "renewing", "draining"} => timer[o] < Deadline(o)

Tick ==
    /\ \A o \in Owners : Punctual(o)
    /\ age' = [o \in Owners |-> IF o \in members THEN Min2(age[o] + 1, TTL) ELSE 0]
    /\ timer' = [o \in Owners |-> Min2(timer[o] + 1, Max2(timer[o], Deadline(o)))]
    /\ left' = [o \in Owners |-> Max2(left[o] - 1, 0)]
    /\ UNCHANGED <<members, wire, reply, pc, lim, batch, target, failed, owners, pending, busy,
                   execVars, limit, excused>>

-----------------------------------------------------------------------------
RedisStep ==
    \/ \E o \in Owners : ExecAcquire(o) \/ ExecRefresh(o) \/ ExecRelease(o)
    \/ \E g \in Groups : Reap(g)

RecoverStep ==
    \/ \E i \in Instances : WorkerTake(i)
    \/ \E c \in Callers : RecoverCall(c) \/ RecoverReply(c) \/ RecoverError(c)

AdmitStep(o) ==
    \/ Decline(o) \/ Begin(o) \/ Recovered(o)
    \/ Reserve(o) \/ ReserveRefused(o)
    \/ Acquired(o) \/ PoolFull(o) \/ AcquireError(o)

LeaseStep(o) ==
    \/ Renew(o) \/ Renewed(o) \/ LeaseLost(o)
    \/ Finish(o) \/ FinishWhileRenewing(o) \/ Drained(o)
    \/ Reclaimed(o) \/ ReclaimError(o)

EnvStep ==
    \/ \E e \in Execs : Disconnect(e) \/ AfterParent(e)
    \/ \E g \in Groups : SetLimit(g)
    \/ \E i \in Instances : Crash(i)

Next ==
    \/ RedisStep
    \/ RecoverStep
    \/ \E o \in Owners : AdmitStep(o) \/ LeaseStep(o)
    \/ EnvStep
    \/ Tick

Spec == Init /\ [][Next]_vars

(***************************************************************************)
(* Deadlines fire, a process keeps taking steps, and Redis drops a key     *)
(* EXPIREd for a whole TTL.  Nothing is assumed of the network (any        *)
(* command may be lost) or of the handler (a request may run for ever).    *)
(***************************************************************************)
Progress(o) ==
    \/ Recovered(o) \/ Reserve(o) \/ ReserveRefused(o)
    \/ Acquired(o) \/ PoolFull(o) \/ AcquireError(o)
    \/ Renew(o) \/ Renewed(o) \/ LeaseLost(o)
    \/ Drained(o) \/ Reclaimed(o) \/ ReclaimError(o)

Fairness ==
    /\ WF_vars(Tick)
    /\ \A g \in Groups : WF_vars(Reap(g))
    /\ \A c \in Callers : WF_vars(RecoverCall(c) \/ RecoverReply(c) \/ RecoverError(c))
    /\ \A o \in Owners : WF_vars(Progress(o))

-----------------------------------------------------------------------------
(***************************************************************************)
(* Properties.                                                             *)
(***************************************************************************)
Live(o) == o \in members /\ age[o] < TTL
Executing(o) == pc[o] \in {"running", "renewing"} /\ ~capDone[ExecOf[o]]

\* S could have been admitted one by one: its last member saw room for it.
FitsSomeLimit(g, S) ==
    S # {} => \E o \in S : \/ lim[o] <= 0 /\ g \in UserGroups
                          \/ Cardinality(S) <= lim[o]

(***************************************************************************)
(* The pool bound, under limits that are edited while requests run: the    *)
(* owners recorded in a group, and any of them, never exceed the limit     *)
(* under which one of them was admitted (acquireScript counts before it    *)
(* adds).                                                                  *)
(***************************************************************************)
PoolWithinLimit ==
    \A g \in Groups : \A S \in SUBSET (members \cap InGroup(g)) : FitsSomeLimit(g, S)

(***************************************************************************)
(* Fail-closed execution: while the capacity context of an admitted        *)
(* request is not cancelled its member is in Redis and unexpired, so no    *)
(* other request has taken its place (refreshRequestLease).                *)
(***************************************************************************)
ExecutionHoldsSlot == \A o \in Owners \ Stalling : Executing(o) => Live(o)

(***************************************************************************)
(* The bound that matters to the upstream account: requests really         *)
(* executing, not records in Redis, stay within the limit.                 *)
(***************************************************************************)
ExecutionsWithinLimit ==
    \A g \in Groups :
        \A S \in SUBSET {o \in InGroup(g) \ Stalling : Executing(o)} : FitsSomeLimit(g, S)

(***************************************************************************)
(* No slot is leaked silently: an unexpired member is known to the         *)
(* recovery map of its process, whatever was lost, until the process       *)
(* crashes or a command lands after its caller gave up on it.              *)
(***************************************************************************)
NoSilentLeak == \A o \in Owners : Live(o) /\ o \notin excused => o \in owners

(***************************************************************************)
(* Recovery space is reserved before Redis is written and kept until the   *)
(* release is settled, within the memory bound: an outage that makes every *)
(* admitted request end at once cannot overflow the map.                   *)
(***************************************************************************)
RecoverySpaceReserved ==
    /\ \A i \in Instances : Cardinality(owners \cap OnInst(i)) <= Capacity
    /\ \A o \in Owners :
        pc[o] \in {"acquiring", "uncertain", "running", "renewing", "draining", "releasing"}
            => o \in owners \ pending

(***************************************************************************)
(* A record marked busy blocks admission of its group, so exactly one      *)
(* caller is recovering it: an admission or the cleanup worker.            *)
(***************************************************************************)
BusyHasOneRecoverer ==
    /\ \A p \in busy : \E c \in Callers : p \in batch[c]
    /\ \A c, d \in Callers : c # d => batch[c] \cap batch[d] = {}

(***************************************************************************)
(* A disconnected request that holds no slot has no capacity left to drain *)
(* upstream with, however the disconnect raced its admissions and          *)
(* releases (WithConcurrencyLeaseContext, releaseSlot).                    *)
(***************************************************************************)
DisconnectedDomainEnds ==
    \A e \in Execs : parentDone[e] /\ notified[e] /\ slots[e] = 0 => capDone[e]

(***************************************************************************)
(* Disconnecting alone never stops a request that holds its slots: its     *)
(* capacity ends with the last slot, or when a lease of the domain is      *)
(* lost.                                                                   *)
(***************************************************************************)
DrainKeepsCapacity ==
    [][\A e \in Execs : ~capDone[e] /\ capDone'[e] =>
          \/ slots'[e] = 0
          \/ \E o \in Owners : ExecOf[o] = e /\ pc[o] \in {"renewing", "draining"}
                               /\ reply[o] # "ok" /\ pc'[o] # pc[o]]_vars

(***************************************************************************)
(* A member that is gone, or expired, is never alive again unless an       *)
(* acquire of the same call is still under way: renewal does not recreate  *)
(* it (refreshRegularLeaseScript).                                         *)
(***************************************************************************)
NoResurrection ==
    [][\A o \in Owners : ~Live(o) /\ Live(o)' => <<"acquire", o>> \in wire]_vars

(***************************************************************************)
(* Every admission is decided and every release function returns, whatever *)
(* Redis does.                                                             *)
(***************************************************************************)
AttemptsEnd ==
    \A o \in Owners :
        pc[o] \notin {"idle", "running", "renewing", "done"} ~> pc[o] \in {"running", "renewing", "done"}

(***************************************************************************)
(* Every slot whose call is over is given back, even if all releases are   *)
(* lost, or executed before a late acquire.                                *)
(***************************************************************************)
SlotsReturn == \A o \in Owners : pc[o] = "done" /\ o \in members ~> o \notin members

(***************************************************************************)
(* A request whose member expired while its process was suspended does not *)
(* go on without a slot, even if it never finishes by itself.              *)
(***************************************************************************)
LostLeaseCancels ==
    \A o \in Owners : Executing(o) /\ ~Live(o) ~> ~Executing(o) \/ Live(o)
=============================================================================
