------------------------- MODULE BalanceAdmission -------------------------
(***************************************************************************)
(* Admission of balance-billed requests of one user: the eligibility       *)
(* check, the in-flight reservation in Redis, its handle (a reference      *)
(* counted hold shared by the handler and the billing task), the charge    *)
(* and the balance cache the next admission reads.                         *)
(*                                                                         *)
(* A Redis call answers in time, or fails: then it was not executed, was   *)
(* executed all the same, or will be later (an entry of late).  Every      *)
(* failure is "fail-open": the request goes on without the reservation.    *)
(*                                                                         *)
(* Amounts are integers.  A member's expiry, and the one a call carries,   *)
(* is the time left to it: a script compares and writes times its caller   *)
(* computed, so a late one writes an earlier expiry and may count members  *)
(* that have expired since.  A call is executed within a TTL, or never;    *)
(* nobody can tell a member apart that expired a TTL ago from an older one.*)
(***************************************************************************)
EXTENDS Integers, FiniteSets, FiniteSetsExt

CONSTANTS
    Reqs,       \* the requests of the user
    Estimate,   \* estimate of each request at admission
    Selected,   \* estimate once its account is selected
    Balance,    \* the user's balance before them
    TTL,        \* ttl of a reservation
    MaxLate     \* bound on the failed calls that may still be executed

ASSUME AdmissionAssumption ==
    /\ IsFiniteSet(Reqs)
    /\ Estimate \in [Reqs -> Nat \ {0}]
    /\ Selected \in [Reqs -> Nat]
    /\ Balance \in Nat
    /\ TTL \in Nat /\ TTL > 1
    /\ MaxLate \in Nat

VARIABLES
    db,         \* users.balance
    cached,     \* the balance cache has an entry
    cache,      \* its value, 0 when there is none
    writes,     \* cache writes queued: <<"set", r, value>> or <<"deduct", r, cost>>
    reserved,   \* amount of each member of billing:inflight_amt, 0 when there is none
    left,       \* time left to each member of billing:inflight
    late,       \* Redis calls that failed and may still be executed
    pc,         \* the handler of each request
    read,       \* balance a handler read before its reservation call
    amount,     \* amount of each handle
    refs,       \* references of each handle, 0 when it is closed or there is none
    owned,      \* the requests that got a handle
    renewing,   \* the requests whose renewal goroutine is alive
    task,       \* the billing task of each request
    cost,       \* what each billing task charges
    newBalance  \* balance the charge returned, until the cache is synchronised

redis == <<reserved, left, late>>
wallet == <<db, cached, cache, writes>>
handle == <<amount, refs, owned, renewing>>
bill == <<task, cost, newBalance>>
vars == <<wallet, redis, pc, read, handle, bill>>

Phases == {"idle", "checked", "loaded", "running", "raising", "rejected", "finished"}
Tasks == {"none", "queued", "charged", "synced", "done"}

\* The members that have not expired for a caller whose clock reading is age units old
LiveAt(age) == {r \in Reqs : reserved[r] > 0 /\ left[r] > -age}
Live == LiveAt(0)
Inflight(S) == MapThenSumSet(LAMBDA r : reserved[r], S)

\* The shape of the state.
TypeOK ==
    /\ db \in Int /\ cached \in BOOLEAN /\ cache \in Int
    /\ writes \subseteq ({"set", "deduct"} \X Reqs \X Int)
    /\ reserved \in [Reqs -> Nat] /\ left \in [Reqs -> (1 - TTL)..TTL]
    /\ late \subseteq [op : {"reserve", "update", "renew", "release"}, req : Reqs,
                    amount : Nat, balance : Int, expiry : 1..TTL]
    /\ pc \in [Reqs -> Phases] /\ read \in [Reqs -> Int]
    /\ amount \in [Reqs -> Nat] /\ refs \in [Reqs -> 0..2]
    /\ owned \subseteq Reqs /\ renewing \subseteq owned
    /\ task \in [Reqs -> Tasks] /\ cost \in [Reqs -> Nat] /\ newBalance \in [Reqs -> Int]

Init ==
    /\ db = Balance /\ cached \in BOOLEAN /\ cache = (IF cached THEN Balance ELSE 0) /\ writes = {}
    /\ reserved = [r \in Reqs |-> 0] /\ left = [r \in Reqs |-> 0] /\ late = {}
    /\ pc = [r \in Reqs |-> "idle"] /\ read = [r \in Reqs |-> 0]
    /\ amount = [r \in Reqs |-> 0] /\ refs = [r \in Reqs |-> 0]
    /\ owned = {} /\ renewing = {}
    /\ task = [r \in Reqs |-> "none"] /\ cost = [r \in Reqs |-> 0]
    /\ newBalance = [r \in Reqs |-> 0]

Goto(r, phase) == pc' = [pc EXCEPT ![r] = phase]

\* The balance read goes out of scope
ForgetRead(r) == read' = [read EXCEPT ![r] = 0]

---------------------------------------------------------------------------
(***************************************************************************)
(* The scripts.                                                            *)
(***************************************************************************)

\* Only the members of S are kept, and r has this amount and expiry
Put(S, r, amt, expiry) ==
    /\ reserved' = [q \in Reqs |-> IF q = r THEN amt ELSE IF q \in S THEN reserved[q] ELSE 0]
    /\ left' = [q \in Reqs |-> IF q = r THEN expiry ELSE IF q \in S THEN left[q] ELSE 0]

Keep(S) ==
    /\ reserved' = [q \in Reqs |-> IF q \in S THEN reserved[q] ELSE 0]
    /\ left' = [q \in Reqs |-> IF q \in S THEN left[q] ELSE 0]

\* Mutant: the amount is compared with the balance alone.
CoversSelfOnly(S, amt, balance) == balance >= amt

\* With nobody else in flight (S empty) the amount is not compared
Covers(S, amt, balance) == S = {} \/ balance - Inflight(S) >= amt

ReserveScript(r, amt, balance, expiry) ==
    LET S == LiveAt(TTL - expiry)
    IN  IF Covers(S, amt, balance) THEN Put(S, r, amt, expiry) ELSE Keep(S)

Raises(S, r, amt, balance) == r \in S /\ amt > reserved[r] /\ Covers(S \ {r}, amt, balance)

UpdateScript(r, amt, balance, expiry) ==
    LET S == LiveAt(TTL - expiry)
    IN  IF Raises(S, r, amt, balance) THEN Put(S, r, amt, Max({left[r], expiry})) ELSE Keep(S)

\* Mutant: a renewal that arrives late brings its reservation back.
RenewRecreates(r, expiry) == Put(Reqs, r, amount[r], expiry)

\* The expiry is overwritten, by an earlier one too; only r's member is looked at
RenewScript(r, expiry) ==
    IF r \in LiveAt(TTL - expiry) THEN Put(Reqs, r, reserved[r], expiry) ELSE Keep(Reqs \ {r})

ReleaseScript(r) == Keep(Reqs \ {r})

\* A call that failed is executed now
ExecLate(m) ==
    /\ m \in late
    /\ late' = late \ {m}
    /\ CASE m.op = "reserve" -> ReserveScript(m.req, m.amount, m.balance, m.expiry)
         [] m.op = "update" -> UpdateScript(m.req, m.amount, m.balance, m.expiry)
         [] m.op = "renew" -> RenewScript(m.req, m.expiry)
         [] m.op = "release" -> ReleaseScript(m.req)
    /\ UNCHANGED <<wallet, pc, read, handle, bill>>

\* The call fails before Redis has executed it: it never will, or later
Unanswered(op, r, amt, balance) ==
    /\ late' = late \/ (/\ Cardinality(late) < MaxLate
                        /\ late' = late \cup {[op |-> op, req |-> r, amount |-> amt,
                                               balance |-> balance, expiry |-> TTL]})
    /\ UNCHANGED <<reserved, left>>

---------------------------------------------------------------------------
(***************************************************************************)
(* The balance cache.                                                      *)
(***************************************************************************)

\* GetUserBalance: on a miss the database answers and the cache is filled by
\* the write queue, some time later
ReadBalance(r) == IF cached THEN cache ELSE db
FillCache(r) == writes' = IF cached THEN writes ELSE writes \cup {<<"set", r, db>>}

ExecWrite(w) ==
    /\ w \in writes
    /\ writes' = writes \ {w}
    /\ IF w[1] = "set" THEN cached' = TRUE /\ cache' = w[3]
                       ELSE cached' = cached /\ cache' = IF cached THEN cache - w[3] ELSE 0
    /\ UNCHANGED <<db, redis, pc, read, handle, bill>>

CacheExpires ==
    /\ cached
    /\ cached' = FALSE /\ cache' = 0
    /\ UNCHANGED <<db, writes, redis, pc, read, handle, bill>>

---------------------------------------------------------------------------
(***************************************************************************)
(* Admission.                                                              *)
(***************************************************************************)

\* checkBalanceEligibility
Check(r) ==
    /\ pc[r] = "idle"
    /\ Goto(r, IF ReadBalance(r) <= 0 THEN "rejected" ELSE "checked")
    /\ FillCache(r)
    /\ UNCHANGED <<db, cached, cache, redis, read, handle, bill>>

\* The balance for the reservation is read before the script runs
Load(r) ==
    /\ \/ pc[r] = "checked" /\ Goto(r, "loaded")
       \/ pc[r] = "running" /\ refs[r] > 0 /\ task[r] = "none" /\ Goto(r, "raising")
    /\ read' = [read EXCEPT ![r] = ReadBalance(r)]
    /\ FillCache(r)
    /\ UNCHANGED <<db, cached, cache, redis, handle, bill>>

Admitted(r) ==
    /\ Goto(r, "running")
    /\ amount' = [amount EXCEPT ![r] = Estimate[r]]
    /\ refs' = [refs EXCEPT ![r] = 1]
    /\ owned' = owned \cup {r}
    /\ renewing' = renewing \cup {r}

Reserve(r) ==
    /\ pc[r] = "loaded"
    /\ ReserveScript(r, Estimate[r], read[r], TTL)
    /\ IF Covers(Live, Estimate[r], read[r]) THEN Admitted(r)
                                             ELSE Goto(r, "rejected") /\ UNCHANGED handle
    /\ ForgetRead(r)
    /\ UNCHANGED <<wallet, late, bill>>

\* The reply is lost and the client library sends the script again: the second
\* execution counts the member the first one wrote
ReserveTwice(r) ==
    /\ pc[r] = "loaded"
    /\ Covers(Live, Estimate[r], read[r])
    /\ ReserveScript(r, Estimate[r], read[r], TTL)
    /\ IF read[r] - Inflight(Live) - Estimate[r] >= Estimate[r]
       THEN Admitted(r)
       ELSE Goto(r, "rejected") /\ UNCHANGED handle
    /\ ForgetRead(r)
    /\ UNCHANGED <<wallet, late, bill>>

\* Fail-open: the request runs without a handle
ReserveError(r) ==
    /\ pc[r] = "loaded"
    /\ \/ Unanswered("reserve", r, Estimate[r], read[r])
       \/ ReserveScript(r, Estimate[r], read[r], TTL) /\ UNCHANGED late
    /\ Goto(r, "running")
    /\ ForgetRead(r)
    /\ UNCHANGED <<wallet, handle, bill>>

NewAmount(r) == IF Selected[r] > amount[r] THEN Selected[r] ELSE amount[r]

\* IncreaseInflightReservation: a refusal ends the request
Raise(r) ==
    /\ pc[r] = "raising"
    /\ UpdateScript(r, NewAmount(r), read[r], TTL)
    /\ IF Raises(Live, r, NewAmount(r), read[r]) \/ (r \in Live /\ NewAmount(r) <= reserved[r])
       THEN Goto(r, "running") /\ amount' = [amount EXCEPT ![r] = NewAmount(r)]
       ELSE Goto(r, "rejected") /\ UNCHANGED amount
    /\ ForgetRead(r)
    /\ UNCHANGED <<wallet, late, refs, owned, renewing, bill>>

RaiseError(r) ==
    /\ pc[r] = "raising"
    /\ \/ Unanswered("update", r, NewAmount(r), read[r])
       \/ UpdateScript(r, NewAmount(r), read[r], TTL) /\ UNCHANGED late
    /\ Goto(r, "running")
    /\ ForgetRead(r)
    /\ UNCHANGED <<wallet, handle, bill>>

\* A tick of the renewal goroutine: it ends when the answer is that the member is gone
Renew(r) ==
    /\ r \in renewing
    /\ RenewScript(r, TTL)
    /\ renewing' = IF r \in Live THEN renewing ELSE renewing \ {r}
    /\ UNCHANGED <<wallet, late, pc, read, amount, refs, owned, bill>>

RenewError(r) ==
    /\ r \in renewing
    /\ \/ Unanswered("renew", r, 0, 0)
       \/ RenewScript(r, TTL) /\ UNCHANGED late
    /\ UNCHANGED <<wallet, pc, read, handle, bill>>

---------------------------------------------------------------------------
(***************************************************************************)
(* The end of a request: the handler and the billing task each return      *)
(* their reference, the last one releases.                                 *)
(***************************************************************************)

\* Mutant: the handler's end releases whatever the references.
DecRefReleases(r) ==
    /\ refs' = [refs EXCEPT ![r] = 0]
    /\ ReleaseScript(r) /\ UNCHANGED late

DecRef(r) ==
    /\ refs' = [refs EXCEPT ![r] = IF @ > 0 THEN @ - 1 ELSE 0]
    /\ IF refs[r] = 1
       THEN (ReleaseScript(r) /\ UNCHANGED late) \/ Unanswered("release", r, 0, 0)
       ELSE UNCHANGED redis

\* The upstream answered: the billing task takes a reference of its own
Submit(r) ==
    /\ pc[r] = "running" /\ task[r] = "none"
    /\ task' = [task EXCEPT ![r] = "queued"]
    /\ cost' = [cost EXCEPT ![r] = IF r \in owned THEN amount[r] ELSE Estimate[r]]
    /\ refs' = [refs EXCEPT ![r] = IF @ > 0 THEN @ + 1 ELSE 0]
    /\ UNCHANGED <<wallet, redis, pc, read, amount, owned, renewing, newBalance>>

\* Mutant: the renewal goroutine is not stopped.
StopRenewalNever(r) == UNCHANGED renewing

StopRenewal(r) == renewing' = renewing \ {r}

HandlerDone(r) ==
    /\ pc[r] = "running" \/ (pc[r] = "rejected" /\ refs[r] > 0)
    /\ Goto(r, "finished")
    /\ StopRenewal(r)
    /\ DecRef(r)
    /\ UNCHANGED <<wallet, read, amount, owned, bill>>

\* applyUsageBilling: one transaction
Charge(r) ==
    /\ task[r] = "queued"
    /\ db' = db - cost[r]
    /\ newBalance' = [newBalance EXCEPT ![r] = db - cost[r]]
    /\ task' = [task EXCEPT ![r] = "charged"]
    /\ UNCHANGED <<cached, cache, writes, redis, pc, read, handle, cost>>

\* syncBalanceCacheAfterDeduction: an exhausted balance is invalidated
Deducted(r) ==
    IF newBalance[r] <= 0 THEN cached' = FALSE /\ cache' = 0
    ELSE cache' = (IF cached THEN cache - cost[r] ELSE 0) /\ UNCHANGED cached

Sync(r) ==
    /\ task[r] = "charged"
    /\ Deducted(r)
    /\ task' = [task EXCEPT ![r] = "synced"]
    /\ newBalance' = [newBalance EXCEPT ![r] = 0]
    /\ UNCHANGED <<db, writes, redis, pc, read, handle, cost>>

\* The cache call failed, executed or not: the deduction goes to the write
\* queue, an invalidation is given up
SyncError(r) ==
    /\ task[r] = "charged"
    /\ Deducted(r) \/ UNCHANGED <<cached, cache>>
    /\ writes' = IF newBalance[r] <= 0 THEN writes ELSE writes \cup {<<"deduct", r, cost[r]>>}
    /\ task' = [task EXCEPT ![r] = "synced"]
    /\ newBalance' = [newBalance EXCEPT ![r] = 0]
    /\ UNCHANGED <<db, redis, pc, read, handle, cost>>

\* The task ends, or is dropped by the worker pool before it ran
TaskDone(r) ==
    /\ task[r] \in {"synced", "queued"}
    /\ task' = [task EXCEPT ![r] = "done"]
    /\ cost' = [cost EXCEPT ![r] = 0]
    /\ DecRef(r)
    /\ UNCHANGED <<wallet, pc, read, amount, owned, renewing, newBalance>>

\* The process dies: what it held in memory is gone, Redis keeps the member
Crash(r) ==
    /\ \/ pc[r] \in {"checked", "loaded", "running", "raising"}
       \/ refs[r] > 0
       \/ task[r] \in {"queued", "charged", "synced"}
    /\ Goto(r, "finished")
    /\ task' = [task EXCEPT ![r] = "done"]
    /\ refs' = [refs EXCEPT ![r] = 0]
    /\ renewing' = renewing \ {r}
    /\ cost' = [cost EXCEPT ![r] = 0]
    /\ newBalance' = [newBalance EXCEPT ![r] = 0]
    /\ ForgetRead(r)
    /\ UNCHANGED <<wallet, redis, amount, owned>>

(***************************************************************************)
(* Time.  A renewal goroutine that is alive gets a renewal through before  *)
(* its reservation runs out; nothing bounds a billing task.                *)
(***************************************************************************)
Timely == \A r \in renewing : left[r] # 1

Tick ==
    /\ Timely
    /\ left' = [r \in Reqs |-> IF reserved[r] = 0 THEN 0 ELSE Max({left[r] - 1, 1 - TTL})]
    /\ late' = {[m EXCEPT !.expiry = @ - 1] : m \in {n \in late : n.expiry > 1}}
    /\ UNCHANGED <<wallet, reserved, pc, read, handle, bill>>

Admission(r) == Check(r) \/ Load(r) \/ Reserve(r) \/ Raise(r)
Billing(r) == Submit(r) \/ HandlerDone(r) \/ Charge(r) \/ Sync(r) \/ TaskDone(r)
RedisErrors(r) == ReserveTwice(r) \/ ReserveError(r) \/ RaiseError(r) \/ RenewError(r)
Failures(r) == RedisErrors(r) \/ SyncError(r) \/ Crash(r)
CacheStep == (\E w \in writes : ExecWrite(w)) \/ CacheExpires

Next ==
    \/ \E r \in Reqs : Admission(r) \/ Renew(r) \/ Billing(r) \/ Failures(r)
    \/ \E m \in late : ExecLate(m)
    \/ CacheStep
    \/ Tick

Spec == Init /\ [][Next]_vars

\* Time passes and a live renewal goroutine renews; no billing task is sure to run.
Fairness == WF_vars(Tick) /\ \A r \in Reqs : WF_vars(Renew(r))


---------------------------------------------------------------------------
(***************************************************************************)
(* Properties.                                                             *)
(***************************************************************************)

\* A billing task that has not reached the cache yet
Unbilled(r) == task[r] \in {"queued", "charged"}

(***************************************************************************)
(* Nothing but the clock ends a reservation, or lowers it below its        *)
(* handle's amount, before the handler has returned and the charge has     *)
(* reached the cached balance; and the clock only once nobody renews it.   *)
(***************************************************************************)
Needed(r) == pc[r] \in {"running", "raising"} \/ Unbilled(r)
Lapses(r) == r \notin renewing /\ left[r] = 1 /\ reserved'[r] = reserved[r]

HeldUntilBilled ==
    [][\A r \in owned : Needed(r) /\ Needed(r)' /\ r \in Live
            => (r \in Live' /\ reserved'[r] >= amount'[r]) \/ Lapses(r)]_vars

(***************************************************************************)
(* A reservation that was released never comes back, whatever renewal or   *)
(* increase of it is still on its way to Redis.                            *)
(***************************************************************************)
ReleasedForGood ==
    [][\A r \in owned : refs[r] = 0 /\ reserved[r] = 0 => reserved'[r] = 0]_vars

(***************************************************************************)
(* A reservation ends even when its billing task is stuck, its release is  *)
(* lost, its process died or a repeated call refused the request after the *)
(* first had reserved: it is not renewed once its handler is gone.         *)
(***************************************************************************)
Ended(r) == pc[r] = "finished" \/ (pc[r] = "rejected" /\ r \notin owned)
ReservationsEnd == \A r \in Reqs : Ended(r) ~> r \notin Live

(***************************************************************************)
(* Reservations beside each other never exceed the balance the user had:   *)
(* only a request that is alone may reserve more, and nobody joins it.     *)
(***************************************************************************)
ReservedWithinBalance == Cardinality(Live) > 1 => Inflight(Live) <= Balance

(***************************************************************************)
(* The cached balance reflects every charge whose billing task is done     *)
(* (gateway_usage_billing.go, before the reservation is released).         *)
(***************************************************************************)
ChargesVisible ==
    cached => cache <= db + MapThenSumSet(LAMBDA r : cost[r], {r \in Reqs : task[r] = "charged"})
=============================================================================
