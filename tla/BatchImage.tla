----------------------------- MODULE BatchImage -----------------------------
(***************************************************************************)
(* The life of one batch image job: submission under a balance hold, the   *)
(* user's cancellation, the recovery of submissions that stopped half way, *)
(* the workers that poll the provider, index its results and settle the    *)
(* hold, and the Redis queue between them.  Every database statement or    *)
(* transaction, Redis script and provider call is a step of its own; what  *)
(* a process decided from what it read is kept in its program counter.     *)
(*                                                                         *)
(* A fault is one call that returns an error.  A billing transaction may   *)
(* also have committed when its caller sees the error.  A crash ends one   *)
(* process between two of its steps (for a submission also: its client is  *)
(* gone, which cancels the context of every later call); the lost answer   *)
(* of a committed change of the job's status counts as one, since its      *)
(* caller no more goes on from that change.  A stall is a heartbeat that   *)
(* comes too late.                                                         *)
(***************************************************************************)
EXTENDS Naturals, FiniteSets

CONSTANTS
    Workers,        \* worker loops of all instances
    NoWorker,       \* value of the job lock when it is free
    Hold,           \* amount reserved for the job
    Cost,           \* what its successful images cost
    OtherFrozen,    \* frozen balance of the user's other jobs
    MaxRetries,     \* batchImageSettlementMaxRetries
    MaxFaults,      \* bound on calls that fail
    MaxCrashes,     \* bound on processes that stop half way
    MaxStalls,      \* bound on heartbeats that come too late
    MaxCancels,     \* bound on cancellations
    MaxReady        \* bound on the copies of the job on the ready list

ASSUME BatchAssumption ==
    /\ NoWorker \notin Workers
    /\ Hold \in Nat \ {0} /\ Cost \in 0..Hold /\ OtherFrozen \in Nat
    /\ MaxRetries \in Nat \ {0} /\ MaxReady \in Nat \ {0}
    /\ {MaxFaults, MaxCrashes, MaxStalls, MaxCancels} \subseteq Nat

VARIABLES
    job,        \* the row: [status, named (provider_job_name is set), retry, fresh, hidden]
    wallet,     \* the user's [balance, frozen] and the billing requests claimed for the job
    task,       \* state of the job's reservation in gateway_unfinished_tasks
    prov,       \* the job at the provider: [state, cancel (asked)]
    queue,      \* the Redis queue: [inflight, ready, delayed, active, lock]
    sub,        \* where the submission is
    can,        \* where the cancellation is
    rec,        \* where the recovery of stale submissions is
    wk,         \* each worker: [pc, note (what it decided or saw), locked]
    budget      \* [faults, crashes, stalls, cancels] so far

vars == <<job, wallet, task, prov, queue, sub, can, rec, wk, budget>>

Unsubmitted == {"created", "uploading"}
Terminal == {"completed", "failed", "cancelled", "output_deleted"}
Statuses == Unsubmitted \cup Terminal \cup {"none", "submitted", "running", "indexing", "settling"}
Succeeded == {"good", "costly", "garbled"}  \* results that settle, exceed the hold, do not parse
Ended == Succeeded \cup {"failed", "cancelled"}
SubPcs == {"idle", "bind", "hold", "holdFail", "holdHide", "holdReturn", "items", "upload",
           "release", "releaseOnly", "record", "hide", "stuck", "stuckEnqueue", "intent", "intentRelease", "intentFail",
           "intentStuck", "submit", "name", "abort", "bindAgain", "enqueue", "return",
           "done", "holdError", "crashed"}
WorkerPcs == {"idle", "lock", "pipeline", "read", "indexingTask", "settlingTask", "localTask",
              "terminalHold", "admit", "poll", "toRunning", "providerTask", "toIndexing", "toFailed",
              "toCancelled", "index", "indexFailed", "toSettling", "settle", "settleTask",
              "capture", "markSettled", "completedTask", "recordFailure", "exhaustRelease",
              "exhaustFail", "recheck", "requeue", "ack", "unlock"}
CanPcs == {"idle", "task", "taskOnly", "hold", "newTask", "newHold", "enqueue", "provider",
           "transition"}
Notes == {"none", "running", "indexing", "settled", "capture", "recordFailure", "exhaustRelease"} \cup Ended

\* The shape of the state.
TypeOK ==
    /\ job \in [status : Statuses, named : BOOLEAN, retry : 0..MaxRetries, fresh : BOOLEAN,
                hidden : BOOLEAN]
    /\ wallet \in [balance : 0..Hold, frozen : 0..(OtherFrozen + Hold),
                   claims : SUBSET {"hold", "capture", "release"}]
    /\ task \in {"none", "reserved", "bound", "uncertain", "released"}
    /\ prov \in [state : {"none", "running"} \cup Ended, cancel : BOOLEAN]
    /\ queue \in [inflight : BOOLEAN, ready : 0..MaxReady, delayed : BOOLEAN,
                  active : {"no", "fresh", "stale"}, lock : Workers \cup {NoWorker}]
    /\ sub \in SubPcs
    /\ can \in CanPcs
    /\ rec \in {"idle", "fail", "release", "enqueue"}
    /\ wk \in [Workers -> [pc : WorkerPcs, note : Notes, locked : BOOLEAN]]
    /\ budget \in [faults : 0..MaxFaults, crashes : 0..MaxCrashes, stalls : 0..MaxStalls,
                   cancels : 0..MaxCancels]

Init ==
    /\ job = [status |-> "none", named |-> FALSE, retry |-> 0, fresh |-> TRUE, hidden |-> FALSE]
    /\ wallet \in [balance : {Hold - 1, Hold}, frozen : {OtherFrozen}, claims : {{}}]
    /\ task = "none"
    /\ prov = [state |-> "none", cancel |-> FALSE]
    /\ queue = [inflight |-> FALSE, ready |-> 0, delayed |-> FALSE, active |-> "no",
                lock |-> NoWorker]
    /\ sub = "idle" /\ can = "idle" /\ rec = "idle"
    /\ wk = [w \in Workers |-> [pc |-> "idle", note |-> "none", locked |-> FALSE]]
    /\ budget = [faults |-> 0, crashes |-> 0, stalls |-> 0, cancels |-> 0]

-----------------------------------------------------------------------------
(* Calls.  A call ends "ok", "refused" (by the state it found) or "error". *)

Results == {"ok", "refused", "error"}

NoFault == UNCHANGED budget
Fault == budget.faults < MaxFaults /\ budget' = [budget EXCEPT !.faults = @ + 1]
Stall == budget.stalls < MaxStalls /\ budget' = [budget EXCEPT !.stalls = @ + 1]
Crash == budget.crashes < MaxCrashes /\ budget' = [budget EXCEPT !.crashes = @ + 1]
LostAnswer == Crash

CanTransition(from, to) ==
    /\ from \notin Terminal
    /\ \/ to = "failed"
       \/ to \in CASE from = "created"   -> {"uploading", "submitted", "cancelled"}
                   [] from = "uploading" -> {"submitted", "cancelled"}
                   [] from = "submitted" -> {"running", "indexing", "cancelled"}
                   [] from = "running"   -> {"running", "indexing", "cancelled"}
                   [] from = "indexing"  -> {"settling"}
                   [] from = "settling"  -> {"completed"}
                   [] OTHER              -> {}

\* TransitionBatchImageJobStatus: under the row lock.
Transition(to, r) ==
    \/ /\ (r = "ok" /\ NoFault) \/ (r = "error" /\ LostAnswer)
       /\ CanTransition(job.status, to)
       /\ job' = [job EXCEPT !.status = to, !.fresh = TRUE]
    \/ r = "refused" /\ NoFault /\ ~CanTransition(job.status, to) /\ UNCHANGED job
    \/ r = "error" /\ Fault /\ UNCHANGED job

\* RecordBatchImageJobSubmitFailure with markFailed: writes the status
\* whatever it was; its callers ignore an error, lost answers included.
RecordSubmitFailure ==
    \/ NoFault /\ job' = [job EXCEPT !.status = "failed", !.fresh = TRUE]
    \/ Fault /\ UNCHANGED job

\* A billing transaction that would leave the wallet as w: it applies, is
\* refused, or fails with or without having committed.
Billing(applies, w, r) ==
    \/ r = "ok" /\ NoFault /\ applies /\ wallet' = w
    \/ r = "refused" /\ NoFault /\ ~applies /\ UNCHANGED wallet
    \/ r = "error" /\ Fault /\ wallet' \in {wallet} \cup (IF applies THEN {w} ELSE {})

ReserveHold(r) ==
    Billing(job.status \in Unsubmitted /\ wallet.balance >= Hold,
            [balance |-> wallet.balance - Hold, frozen |-> wallet.frozen + Hold,
             claims |-> wallet.claims \cup {"hold"}], r)

\* checkBatchImageWalletOperation for a release
ReleaseAllowed == "capture" \notin wallet.claims /\ job.status # "completed"

\* Mutant: the money goes back whether or not it was reserved.
ReleasedUnreserved ==
    [balance |-> wallet.balance + Hold, frozen |-> wallet.frozen - Hold,
     claims |-> wallet.claims \cup {"release"}]

\* releaseUsageBillingBatchImageBalance: a hold that was never reserved is
\* not given back, but the release is claimed all the same.
Released ==
    IF "hold" \in wallet.claims
    THEN [balance |-> wallet.balance + Hold, frozen |-> wallet.frozen - Hold,
          claims |-> wallet.claims \cup {"release"}]
    ELSE [wallet EXCEPT !.claims = @ \cup {"release"}]

ReleaseHold(r) ==
    IF "release" \in wallet.claims
    THEN Billing(TRUE, wallet, r)
    ELSE Billing(ReleaseAllowed /\ ("hold" \in wallet.claims => wallet.frozen >= Hold), Released, r)

\* Enqueue: the in-flight key keeps a job from being queued twice.
Enqueue(r) ==
    \/ /\ r = "ok" /\ NoFault
       /\ queue.inflight \/ queue.ready < MaxReady
       /\ queue' = IF queue.inflight THEN queue
                   ELSE [queue EXCEPT !.inflight = TRUE, !.ready = @ + 1]
    \/ r = "error" /\ Fault /\ UNCHANGED queue

\* Mutant: any terminal state frees the reservation.
ReleaseTaskAlways(proof) ==
    task' = IF task \in {"bound", "uncertain"} THEN "released" ELSE task

\* ReleaseTask: an uncertain reservation goes only with proof that the
\* provider is done.
ReleaseTask(proof) ==
    task' = IF task = "bound" \/ (task = "uncertain" /\ proof) THEN "released" ELSE task

-----------------------------------------------------------------------------
(* Submit.                                                                 *)

subRest == <<can, rec, wk, prov>>

SubmitCreate ==
    /\ sub = "idle" /\ sub' = "bind"
    /\ task' = "reserved"
    /\ job' = [job EXCEPT !.status = "created"]
    /\ UNCHANGED <<wallet, queue, budget, subRest>>

SubmitBind ==
    /\ sub = "bind"
    /\ \/ NoFault /\ task' = "bound" /\ sub' = "hold"
       \/ Fault /\ UNCHANGED task /\ sub' = "return"
    /\ UNCHANGED <<job, wallet, queue, subRest>>

SubmitHold ==
    /\ sub = "hold"
    /\ \E r \in Results : ReserveHold(r) /\ sub' = IF r = "ok" THEN "items" ELSE "holdFail"
    /\ UNCHANGED <<job, task, queue, subRest>>

\* The hold failed: the job is marked failed and the hold is not released.
SubmitHoldFailed ==
    /\ sub = "holdFail" /\ sub' = "holdHide"
    /\ RecordSubmitFailure
    /\ UNCHANGED <<wallet, task, queue, subRest>>

SubmitItems ==
    /\ sub = "items"
    /\ \/ NoFault /\ sub' = "upload"
       \/ Fault /\ sub' = "release"
    /\ UNCHANGED <<job, wallet, task, queue, subRest>>

\* The job may already be in a final state, which is then left alone.
SubmitUpload ==
    /\ sub = "upload"
    /\ \E r \in Results :
        /\ Transition("uploading", r)
        /\ sub' = CASE r = "ok" -> "intent" [] r = "refused" -> "releaseOnly"
                    [] r = "error" -> "release"
    /\ UNCHANGED <<wallet, task, queue, subRest>>

\* releaseFailedSubmitHold
SubmitReleaseHold ==
    /\ sub \in {"release", "releaseOnly"}
    /\ \E r \in Results :
        /\ ReleaseHold(r)
        /\ sub' = IF r # "ok" THEN "stuck" ELSE IF sub = "release" THEN "record" ELSE "return"
    /\ UNCHANGED <<job, task, queue, subRest>>

SubmitRecordFailure ==
    /\ \/ sub = "record" /\ sub' = "hide"
       \/ sub = "stuck" /\ sub' = "stuckEnqueue"
    /\ RecordSubmitFailure
    /\ UNCHANGED <<wallet, task, queue, subRest>>

\* enqueueBillingRetry
SubmitEnqueueRelease ==
    /\ sub = "stuckEnqueue" /\ sub' = "return"
    /\ \E r \in {"ok", "error"} : Enqueue(r)
    /\ UNCHANGED <<job, wallet, task, subRest>>

\* hidePreUpstreamSubmitFailure: the user no longer sees the job.
SubmitHide ==
    /\ \/ sub = "hide" /\ sub' = "return"
       \/ sub = "holdHide" /\ sub' = "holdReturn"
    /\ \/ NoFault /\ job' = [job EXCEPT !.hidden = @ \/ job.status \in Terminal]
       \/ Fault /\ UNCHANGED job
    /\ UNCHANGED <<wallet, task, queue, subRest>>

\* MarkUncertain: the intent to create is recorded before the provider is
\* called; a reservation released meanwhile refuses it.
SubmitIntent ==
    /\ sub = "intent"
    /\ \/ NoFault /\ task # "released" /\ task' = "uncertain" /\ sub' = "submit"
       \/ NoFault /\ task = "released" /\ UNCHANGED task /\ sub' = "intentRelease"
       \/ Fault /\ UNCHANGED task /\ sub' = "intentRelease"
    /\ UNCHANGED <<job, wallet, queue, subRest>>

SubmitIntentRelease ==
    /\ sub = "intentRelease"
    /\ \E r \in Results :
        ReleaseHold(r) /\ sub' = IF r = "ok" THEN "intentFail" ELSE "intentStuck"
    /\ UNCHANGED <<job, task, queue, subRest>>

\* The failed transition of the intent path keeps a final state it finds.
SubmitIntentFail ==
    /\ sub \in {"intentFail", "intentStuck"}
    /\ \E r \in Results :
        /\ Transition("failed", r)
        /\ sub' = CASE sub = "intentStuck" -> "stuckEnqueue"
                    [] sub = "intentFail" /\ r = "ok" -> "hide"
                    [] OTHER -> "return"
    /\ UNCHANGED <<wallet, task, queue, subRest>>

\* The provider creates the job, refuses it, or creates it and the answer
\* is lost: nobody knows its name then.
SubmitProvider ==
    /\ sub = "submit"
    /\ \/ NoFault /\ prov' = [prov EXCEPT !.state = "running"] /\ sub' = "name"
       \/ Fault /\ prov' \in {prov, [prov EXCEPT !.state = "running"]} /\ sub' = "release"
    /\ UNCHANGED <<job, wallet, task, queue, can, rec, wk>>

\* UpdateBatchImageJobProviderSubmit; Submit aborts what it believes to be
\* an orphan also when the update committed and only its answer was lost.
SubmitName ==
    /\ sub = "name"
    /\ \/ /\ (NoFault /\ sub' = "bindAgain") \/ (LostAnswer /\ sub' = "abort")
          /\ CanTransition(job.status, "submitted")
          /\ job' = [job EXCEPT !.status = "submitted", !.named = TRUE, !.fresh = TRUE]
       \/ /\ \/ NoFault /\ ~CanTransition(job.status, "submitted")
             \/ Fault
          /\ UNCHANGED job
          /\ sub' = "abort"
    /\ UNCHANGED <<wallet, task, queue, subRest>>

\* abortOrphanProviderJob: best effort.
SubmitAbort ==
    /\ sub = "abort" /\ sub' = "done"
    /\ \/ NoFault /\ prov' = [prov EXCEPT !.cancel = TRUE]
       \/ Fault /\ UNCHANGED prov
    /\ UNCHANGED <<job, wallet, task, queue, can, rec, wk>>

SubmitBindAgain ==
    /\ sub = "bindAgain"
    /\ \/ NoFault /\ task # "released" /\ task' = "bound" /\ sub' = "enqueue"
       \/ NoFault /\ task = "released" /\ UNCHANGED task /\ sub' = "done"
       \/ Fault /\ UNCHANGED task /\ sub' = "done"
    /\ UNCHANGED <<job, wallet, queue, subRest>>

SubmitEnqueue ==
    /\ sub = "enqueue" /\ sub' = "done"
    /\ \E r \in {"ok", "error"} : Enqueue(r)
    /\ UNCHANGED <<job, wallet, task, subRest>>

\* A submission that is over.
Gone == {"done", "holdError", "crashed"}

\* upstreamStarted: the intent was recorded, so the provider was or may have
\* been called.
UpstreamStarted == task = "uncertain" \/ sub \in {"name", "abort", "bindAgain", "enqueue"}

\* The deferred release of the reservation, unless the provider was called.
SubmitReturn ==
    /\ \/ sub = "return" /\ sub' = "done"
       \/ sub = "holdReturn" /\ sub' = "holdError"
    /\ \/ NoFault /\ task' = IF UpstreamStarted THEN task ELSE "released"
       \/ Fault /\ UNCHANGED task
    /\ UNCHANGED <<job, wallet, queue, subRest>>

\* The process of the submission dies, or its client is gone: no later
\* call takes effect but the deferred release, which has its own context.
SubmitStops ==
    /\ sub \notin {"idle"} \cup Gone /\ sub' = "crashed"
    /\ Crash
    /\ task' \in {task} \cup (IF UpstreamStarted THEN {} ELSE {"released"})
    /\ UNCHANGED <<job, wallet, queue, subRest>>

\* Submit again with the same idempotency key: a submitted job is queued.
SubmitReplay ==
    /\ sub \in {"done", "crashed"} /\ job.status = "submitted" /\ ~queue.inflight
    /\ \E r \in {"ok", "error"} : Enqueue(r)
    /\ UNCHANGED <<job, wallet, task, sub, subRest>>

Submit ==
    \/ SubmitCreate \/ SubmitBind \/ SubmitHold \/ SubmitHoldFailed \/ SubmitItems
    \/ SubmitUpload \/ SubmitReleaseHold \/ SubmitRecordFailure \/ SubmitEnqueueRelease
    \/ SubmitHide \/ SubmitIntent \/ SubmitIntentRelease \/ SubmitIntentFail
    \/ SubmitProvider \/ SubmitName \/ SubmitAbort \/ SubmitBindAgain \/ SubmitEnqueue
    \/ SubmitReturn

-----------------------------------------------------------------------------
(* Cancel.                                                                 *)

canRest == <<sub, rec, wk>>

\* What Cancel does is decided by the row it reads.
CancelRead ==
    /\ can = "idle" /\ job.status # "none" /\ ~job.hidden
    /\ budget.cancels < MaxCancels /\ budget' = [budget EXCEPT !.cancels = @ + 1]
    /\ can' = CASE job.status \in {"failed", "cancelled"} -> "task"
                [] job.status \in {"completed", "output_deleted"} -> "taskOnly"
                [] job.status = "settling" -> "idle"
                [] OTHER -> IF job.named THEN "provider" ELSE "transition"
    /\ UNCHANGED <<job, wallet, task, prov, queue, canRest>>

CancelTransition ==
    /\ can = "transition"
    /\ \E r \in Results : Transition("cancelled", r) /\ can' = IF r = "ok" THEN "newTask" ELSE "idle"
    /\ UNCHANGED <<wallet, task, prov, queue, canRest>>

CancelTask ==
    /\ can \in {"task", "taskOnly", "newTask"}
    /\ \/ /\ NoFault /\ ReleaseTask(FALSE)
          /\ can' = CASE can = "task" -> "hold" [] can = "newTask" -> "newHold" [] OTHER -> "idle"
       \/ Fault /\ UNCHANGED task /\ can' = "idle"
    /\ UNCHANGED <<job, wallet, prov, queue, canRest>>

\* A job found cancelled or failed may have been settled before; one that
\* this call has cancelled is queued when its release is refused as well.
CancelHold ==
    /\ can \in {"hold", "newHold"}
    /\ \E r \in Results :
        /\ ReleaseHold(r)
        /\ can' = IF r = "error" \/ (r = "refused" /\ can = "newHold") THEN "enqueue" ELSE "idle"
    /\ UNCHANGED <<job, task, prov, queue, canRest>>

CancelProvider ==
    /\ can = "provider"
    /\ \/ NoFault /\ prov' = [prov EXCEPT !.cancel = TRUE] /\ can' = "enqueue"
       \/ Fault /\ UNCHANGED prov /\ can' = "idle"
    /\ UNCHANGED <<job, wallet, task, queue, canRest>>

CancelEnqueue ==
    /\ can = "enqueue" /\ can' = "idle"
    /\ \E r \in {"ok", "error"} : Enqueue(r)
    /\ UNCHANGED <<job, wallet, task, prov, canRest>>

CancelStops ==
    /\ can # "idle" /\ can' = "idle"
    /\ Crash
    /\ UNCHANGED <<job, wallet, task, prov, queue, canRest>>

Cancel == CancelTransition \/ CancelTask \/ CancelHold \/ CancelProvider \/ CancelEnqueue

-----------------------------------------------------------------------------
(* ReleaseStaleUnsubmittedOnce.                                            *)

recRest == <<sub, can, wk, prov, task>>

\* Mutant: only uploads are looked at.
StaleUploading == job.status = "uploading" /\ ~job.named /\ ~job.fresh

Stale == job.status \in Unsubmitted /\ ~job.named /\ ~job.fresh

RecoverList ==
    /\ rec = "idle" /\ Stale /\ rec' = "fail"
    /\ UNCHANGED <<job, wallet, queue, budget, recRest>>

\* Mutant: the list's answer is trusted.
FailStaleListed ==
    /\ rec = "fail"
    /\ \/ NoFault /\ job' = [job EXCEPT !.status = "failed", !.fresh = TRUE]
          /\ rec' = "release"
       \/ Fault /\ UNCHANGED job /\ rec' = "idle"
    /\ UNCHANGED <<wallet, queue, recRest>>

\* FailStaleUnsubmittedBatchImageJob checks again, in the update.
FailStale ==
    /\ rec = "fail"
    /\ \/ /\ (NoFault /\ rec' = "release") \/ (LostAnswer /\ rec' = "idle")
          /\ Stale /\ job' = [job EXCEPT !.status = "failed", !.fresh = TRUE]
       \/ NoFault /\ ~Stale /\ UNCHANGED job /\ rec' = "idle"
       \/ Fault /\ UNCHANGED job /\ rec' = "idle"
    /\ UNCHANGED <<wallet, queue, recRest>>

\* Mutant: a release that fails is left to the next scan.
RecoverReleaseForgets ==
    /\ rec = "release" /\ rec' = "idle"
    /\ \E r \in Results : ReleaseHold(r)
    /\ UNCHANGED <<job, queue, recRest>>

RecoverRelease ==
    /\ rec = "release"
    /\ \E r \in Results : ReleaseHold(r) /\ rec' = IF r = "ok" THEN "idle" ELSE "enqueue"
    /\ UNCHANGED <<job, queue, recRest>>

RecoverEnqueue ==
    /\ rec = "enqueue" /\ rec' = "idle"
    /\ \E r \in {"ok", "error"} : Enqueue(r)
    /\ UNCHANGED <<job, wallet, recRest>>

RecoverStops ==
    /\ rec # "idle" /\ rec' = "idle"
    /\ Crash
    /\ UNCHANGED <<job, wallet, queue, recRest>>

Recover == RecoverList \/ FailStale \/ RecoverRelease \/ RecoverEnqueue

-----------------------------------------------------------------------------
(* The workers: RunOnce, the pipeline and provider processors, Settle.     *)

others == <<sub, can, rec>>

GoNote(w, to, note) == wk' = [wk EXCEPT ![w].pc = to, ![w].note = note]
Go(w, to) == GoNote(w, to, "none")

\* Reserve: popped from the ready list and put on the active set at once.
WorkerReserve(w) ==
    /\ wk[w].pc = "idle" /\ queue.ready > 0
    /\ queue' = [queue EXCEPT !.ready = @ - 1, !.active = "fresh"]
    /\ Go(w, "lock")
    /\ UNCHANGED <<job, wallet, task, prov, budget, others>>

TryAcquireJobLock(w) ==
    /\ wk[w].pc = "lock"
    /\ \/ /\ NoFault /\ queue.lock = NoWorker
          /\ queue' = [queue EXCEPT !.lock = w]
          /\ wk' = [wk EXCEPT ![w] = [pc |-> "pipeline", note |-> "none", locked |-> TRUE]]
       \/ /\ \/ NoFault /\ queue.lock # NoWorker
             \/ Fault
          /\ UNCHANGED queue /\ Go(w, "requeue")
    /\ UNCHANGED <<job, wallet, task, prov, others>>

\* The pipeline reads the row to choose, and what it chooses reads it again.
PipelineRead(w) ==
    /\ wk[w].pc = "pipeline"
    /\ Go(w, IF job.status = "settling" THEN "settle" ELSE "read")
    /\ UNCHANGED <<job, wallet, task, prov, queue, budget, others>>

ProcessRead(w) ==
    /\ wk[w].pc = "read"
    /\ CASE job.status = "indexing" -> Go(w, "indexingTask")
         [] job.status = "settling" -> Go(w, "settlingTask")
         [] job.status \in {"failed", "cancelled"} -> Go(w, "localTask")
         [] job.status \in {"completed", "output_deleted"} -> GoNote(w, "localTask", "settled")
         [] job.status = "running" -> GoNote(w, "admit", "running")
         [] job.status = "submitted" -> Go(w, "admit")
         [] OTHER -> Go(w, "requeue")
    /\ UNCHANGED <<job, wallet, task, prov, queue, budget, others>>

\* AcquireUserSlot: the worker competes with the user's other requests.
Admit(w) ==
    /\ wk[w].pc = "admit"
    /\ IF wk[w].note = "indexing" THEN Go(w, "index") ELSE GoNote(w, "poll", wk[w].note)
    /\ UNCHANGED <<job, wallet, task, prov, queue, budget, others>>

SlotRefused(w) ==
    /\ wk[w].pc = "admit"
    /\ Go(w, "requeue")
    /\ UNCHANGED <<job, wallet, task, prov, queue, budget, others>>

\* releaseBatchImageUnfinished, at each of the places that call it
WorkerReleaseTask(w) ==
    /\ \/ wk[w].pc = "indexingTask" /\ ReleaseTask(TRUE) /\ GoNote(w, "admit", "indexing")
       \/ wk[w].pc = "settlingTask" /\ ReleaseTask(TRUE) /\ Go(w, "ack")
       \/ wk[w].pc = "completedTask" /\ ReleaseTask(TRUE) /\ Go(w, "ack")
       \/ wk[w].pc = "settleTask" /\ ReleaseTask(TRUE) /\ GoNote(w, wk[w].note, wk[w].note)
       \/ /\ wk[w].pc = "providerTask" /\ ReleaseTask(TRUE)
          /\ GoNote(w, CASE wk[w].note = "failed" -> "toFailed"
                         [] wk[w].note = "cancelled" -> "toCancelled"
                         [] OTHER -> "toIndexing", wk[w].note)
       \/ /\ wk[w].pc = "localTask" /\ ReleaseTask(FALSE)
          /\ Go(w, IF wk[w].note = "settled" THEN "ack" ELSE "terminalHold")
    /\ UNCHANGED <<job, wallet, prov, queue, budget, others>>

\* Mutant: the job leaves the queue though its hold is still there.
TerminalHoldAcks(w) ==
    /\ wk[w].pc = "terminalHold"
    /\ \E r \in Results : ReleaseHold(r) /\ Go(w, "ack")
    /\ UNCHANGED <<job, task, prov, queue, others>>

TerminalHold(w) ==
    /\ wk[w].pc = "terminalHold"
    /\ \E r \in Results : ReleaseHold(r) /\ Go(w, IF r = "error" THEN "requeue" ELSE "ack")
    /\ UNCHANGED <<job, task, prov, queue, others>>

\* provider.Get
Poll(w) ==
    /\ wk[w].pc = "poll"
    /\ CASE prov.state \in Ended -> GoNote(w, "providerTask", prov.state)
         [] prov.state = "running" /\ wk[w].note # "running" -> Go(w, "toRunning")
         [] OTHER -> Go(w, "requeue")
    /\ UNCHANGED <<job, wallet, task, prov, queue, budget, others>>

\* The transitions of Process and indexAndSettle, and what follows each.
WorkerTransition(w) ==
    /\ \E step \in {<<"toRunning", "running", "requeue">>, <<"toIndexing", "indexing", "index">>,
                    <<"toFailed", "failed", "localTask">>, <<"toCancelled", "cancelled", "localTask">>,
                    <<"indexFailed", "failed", "localTask">>, <<"toSettling", "settling", "requeue">>,
                    <<"exhaustFail", "failed", "recheck">>} :
        /\ wk[w].pc = step[1]
        /\ \E r \in Results :
            Transition(step[2], r) /\ Go(w, IF r = "ok" THEN step[3] ELSE "requeue")
    /\ UNCHANGED <<wallet, task, prov, queue, others>>

\* Index writes the items only while the job is indexing.  Output that
\* cannot be opened is tried again; any other error fails the job.
Index(w) ==
    /\ wk[w].pc = "index"
    /\ \/ /\ NoFault
          /\ Go(w, IF prov.state = "garbled" THEN "indexFailed"
                   ELSE IF job.status = "indexing" THEN "toSettling" ELSE "requeue")
       \/ Fault /\ \E to \in {"requeue", "indexFailed"} : Go(w, to)
    /\ UNCHANGED <<job, wallet, task, prov, queue, others>>

SettleRead(w) ==
    /\ wk[w].pc = "settle"
    /\ CASE job.status = "completed" -> Go(w, "completedTask")
         [] job.status = "settling" ->
              GoNote(w, "settleTask", IF job.retry >= MaxRetries THEN "exhaustRelease"
                                      ELSE IF prov.state = "costly" THEN "recordFailure"
                                      ELSE "capture")
         [] OTHER -> Go(w, "requeue")
    /\ UNCHANGED <<job, wallet, task, prov, queue, budget, others>>

\* captureUsageBillingBatchImageBalance
Captured ==
    [balance |-> wallet.balance + Hold - Cost, frozen |-> wallet.frozen - Hold,
     claims |-> wallet.claims \cup {"capture"}]

\* checkBatchImageWalletOperation for a capture
CaptureAllowed == "release" \notin wallet.claims /\ job.status = "settling"

\* Mutant: the completion is left to MarkBatchImageJobSettled.
CaptureOnly(w) ==
    /\ wk[w].pc = "capture"
    /\ \E r \in Results :
        /\ IF "capture" \in wallet.claims
           THEN Billing(job.status = "completed", wallet, r)
           ELSE Billing(CaptureAllowed /\ wallet.frozen >= Hold, Captured, r)
        /\ IF r = "ok" THEN Go(w, "markSettled") ELSE GoNote(w, "recordFailure", "capture")
    /\ UNCHANGED <<job, task, prov, queue, others>>

\* The charge and the job's completion commit together.
Capture(w) ==
    /\ wk[w].pc = "capture"
    /\ \E r \in Results :
        /\ IF "capture" \in wallet.claims
           THEN Billing(job.status = "completed", wallet, r)
           ELSE Billing(CaptureAllowed /\ wallet.frozen >= Hold, Captured, r)
        /\ IF r = "ok" THEN Go(w, "markSettled") ELSE GoNote(w, "recordFailure", "capture")
    /\ job' = IF wallet' # wallet THEN [job EXCEPT !.status = "completed"] ELSE job
    /\ UNCHANGED <<task, prov, queue, others>>

\* MarkBatchImageJobSettled finds the job completed by the capture.
MarkSettled(w) ==
    /\ wk[w].pc = "markSettled"
    /\ Go(w, IF job.status = "completed" THEN "completedTask" ELSE "requeue")
    /\ UNCHANGED <<job, wallet, task, prov, queue, budget, others>>

\* recordSettlementFailure; an error of the record (which may have been
\* made: its event is written after it) is ignored.
RecordFailure(w) ==
    /\ wk[w].pc = "recordFailure"
    /\ LET again == IF wk[w].note = "capture" THEN "recheck" ELSE "requeue"
           counted == [job EXCEPT !.retry = IF @ < MaxRetries THEN @ + 1 ELSE @] IN
       \/ /\ NoFault /\ job' = counted
          /\ Go(w, IF job'.retry >= MaxRetries THEN "exhaustRelease" ELSE again)
       \/ Fault /\ job' \in {job, counted} /\ Go(w, again)
    /\ UNCHANGED <<wallet, task, prov, queue, others>>

\* failExhaustedSettlement gives the hold back before the job fails.
ExhaustRelease(w) ==
    /\ wk[w].pc = "exhaustRelease"
    /\ \E r \in Results : ReleaseHold(r) /\ Go(w, IF r = "ok" THEN "exhaustFail" ELSE "recheck")
    /\ UNCHANGED <<job, task, prov, queue, others>>

\* After a billing failure the pipeline looks whether the job is done.
Recheck(w) ==
    /\ wk[w].pc = "recheck"
    /\ Go(w, IF job.status \in Terminal THEN "ack" ELSE "requeue")
    /\ UNCHANGED <<job, wallet, task, prov, queue, budget, others>>

RequeueAfter(w) ==
    /\ wk[w].pc = "requeue" /\ Go(w, "unlock")
    /\ \/ NoFault /\ queue' = [queue EXCEPT !.active = "no", !.delayed = TRUE]
       \/ Fault /\ UNCHANGED queue
    /\ UNCHANGED <<job, wallet, task, prov, others>>

Ack(w) ==
    /\ wk[w].pc = "ack" /\ Go(w, "unlock")
    /\ \/ NoFault /\ queue' = [queue EXCEPT !.active = "no", !.delayed = FALSE, !.inflight = FALSE]
       \/ Fault /\ UNCHANGED queue
    /\ UNCHANGED <<job, wallet, task, prov, others>>

\* The deferred release of the lock, which only deletes the worker's own.
Unlock(w) ==
    /\ wk[w].pc = "unlock"
    /\ wk' = [wk EXCEPT ![w] = [pc |-> "idle", note |-> "none", locked |-> FALSE]]
    /\ \/ NoFault /\ queue' = IF wk[w].locked /\ queue.lock = w
                              THEN [queue EXCEPT !.lock = NoWorker] ELSE queue
       \/ Fault /\ UNCHANGED queue
    /\ UNCHANGED <<job, wallet, task, prov, others>>

\* A call of Process or Settle fails, and the worker puts the job back.
WorkerError(w) ==
    /\ wk[w].pc \in {"pipeline", "read", "indexingTask", "settlingTask", "localTask", "admit",
                      "poll", "providerTask", "settle", "settleTask", "markSettled",
                      "completedTask", "recheck"}
    /\ Fault
    /\ Go(w, "requeue")
    /\ UNCHANGED <<job, wallet, task, prov, queue, others>>

WorkerStops(w) ==
    /\ wk[w].pc # "idle"
    /\ Crash
    /\ wk' = [wk EXCEPT ![w] = [pc |-> "idle", note |-> "none", locked |-> FALSE]]
    /\ UNCHANGED <<job, wallet, task, prov, queue, others>>

Worker(w) ==
    \/ WorkerReserve(w) \/ TryAcquireJobLock(w) \/ PipelineRead(w) \/ ProcessRead(w)
    \/ WorkerReleaseTask(w) \/ TerminalHold(w) \/ Admit(w) \/ Poll(w) \/ WorkerTransition(w) \/ Index(w)
    \/ SettleRead(w) \/ Capture(w) \/ MarkSettled(w) \/ RecordFailure(w) \/ ExhaustRelease(w)
    \/ Recheck(w) \/ RequeueAfter(w) \/ Ack(w) \/ Unlock(w)

-----------------------------------------------------------------------------
(* The queue's movers, the passing of time, the provider and the cleanup.  *)

processes == <<sub, can, rec, wk>>

MoveDueDelayed ==
    /\ queue.delayed /\ queue.ready < MaxReady
    /\ queue' = [queue EXCEPT !.delayed = FALSE, !.ready = @ + 1]
    /\ UNCHANGED <<job, wallet, task, prov, budget, processes>>

RecoverStaleActive ==
    /\ queue.active = "stale" /\ queue.ready < MaxReady
    /\ queue' = [queue EXCEPT !.active = "no", !.ready = @ + 1]
    /\ UNCHANGED <<job, wallet, task, prov, budget, processes>>

\* runJobHeartbeat runs while Process does.
Beating(w) == wk[w].locked /\ wk[w].pc \notin {"requeue", "ack", "unlock"}

Heartbeat(w) ==
    /\ Beating(w) /\ queue.active = "stale"
    /\ queue' = [queue EXCEPT !.active = "fresh"]
    /\ UNCHANGED <<job, wallet, task, prov, budget, processes>>

\* A live worker that lets StaleActiveAfter pass has stalled.
ActiveAges ==
    /\ queue.active = "fresh"
    /\ IF \E w \in Workers : wk[w].pc # "idle" THEN Stall ELSE NoFault
    /\ queue' = [queue EXCEPT !.active = "stale"]
    /\ UNCHANGED <<job, wallet, task, prov, processes>>

LockExpires ==
    /\ queue.lock # NoWorker
    /\ IF wk[queue.lock].locked THEN Stall ELSE NoFault
    /\ queue' = [queue EXCEPT !.lock = NoWorker]
    /\ UNCHANGED <<job, wallet, task, prov, processes>>

\* runSubmitHeartbeat touches the row while the provider is being called.
Submitting == sub \in {"intent", "submit"}

Touch ==
    /\ Submitting /\ job.status \in Unsubmitted /\ ~job.fresh
    /\ job' = [job EXCEPT !.fresh = TRUE]
    /\ UNCHANGED <<wallet, task, prov, queue, budget, processes>>

\* So has a live submission.
RowAges ==
    /\ job.status \in Unsubmitted /\ job.fresh
    /\ IF sub \in Gone THEN NoFault ELSE Stall
    /\ job' = [job EXCEPT !.fresh = FALSE]
    /\ UNCHANGED <<wallet, task, prov, queue, processes>>

\* A cancellation may come too late.
ProviderEnds ==
    /\ prov.state = "running"
    /\ \E s \in Ended :
        /\ s = "cancelled" => prov.cancel
        /\ prov' = [prov EXCEPT !.state = s]
    /\ UNCHANGED <<job, wallet, task, queue, budget, processes>>

\* MarkBatchImageOutputDeleted
DeleteOutput ==
    /\ job.status = "completed"
    /\ job' = [job EXCEPT !.status = "output_deleted"]
    /\ UNCHANGED <<wallet, task, prov, queue, budget, processes>>

Next ==
    \/ Submit \/ SubmitStops \/ SubmitReplay
    \/ CancelRead \/ Cancel \/ CancelStops
    \/ Recover \/ RecoverStops
    \/ \E w \in Workers : Worker(w) \/ SlotRefused(w) \/ WorkerError(w) \/ WorkerStops(w)
                           \/ Heartbeat(w)
    \/ MoveDueDelayed \/ RecoverStaleActive \/ ActiveAges \/ LockExpires \/ Touch \/ RowAges
    \/ ProviderEnds \/ DeleteOutput

Spec == Init /\ [][Next]_vars

\* Every process goes on with what it began, the loops of the runtime come
\* round, and a batch ends at the provider.
Fairness ==
    /\ WF_vars(Submit) /\ WF_vars(Cancel) /\ WF_vars(Recover)
    /\ \A w \in Workers : WF_vars(Worker(w))
    /\ WF_vars(MoveDueDelayed) /\ WF_vars(RecoverStaleActive)
    /\ WF_vars(ActiveAges) /\ WF_vars(LockExpires) /\ WF_vars(RowAges)
    /\ WF_vars(ProviderEnds)

-----------------------------------------------------------------------------
\* The job's share of the user's frozen balance is reserved.
Held == "hold" \in wallet.claims /\ wallet.claims \cap {"capture", "release"} = {}

\* Whatever races (a cancellation, the recovery, two workers of which one
\* lost its lock) and whichever answer of a billing transaction is lost, the
\* hold is charged or given back at most once and never both, the frozen
\* balance of the user's other jobs is untouched, and no money appears or
\* disappears (applyBatchImageBalanceHold and its three operations).
HoldAccounted ==
    /\ ~({"capture", "release"} \subseteq wallet.claims)
    /\ wallet.frozen = OtherFrozen + IF Held THEN Hold ELSE 0
    /\ wallet.balance + wallet.frozen + (IF "capture" \in wallet.claims THEN Cost ELSE 0)
         \in {OtherFrozen + Hold - 1, OtherFrozen + Hold}

\* A job is completed exactly when it was charged, also when the worker dies
\* or loses the answer between the charge and what follows it in Settle.
CompletedIsCharged ==
    job.status \in {"completed", "output_deleted"} <=> "capture" \in wallet.claims

\* A job the provider is known to work on keeps its hold until the provider
\* is done, so a slow submission is never refunded behind its back by
\* ReleaseStaleUnsubmittedOnce.  The exception is real: a Cancel that read
\* the row before the provider's job was recorded in it moves the submitted
\* job to cancelled, and asks the provider for nothing.
RefundedIsStopped ==
    ("release" \in wallet.claims /\ job.named) => prov.state \in Ended \/ job.status = "cancelled"

\* While the provider works on the job, known by name or not, the job counts
\* against the user's unfinished tasks: no local final state and no recovery
\* frees it.  The exception is that same late Cancel, of a job the provider
\* was not asked to stop.
CapacityHeld ==
    prov.state = "running" =>
        task # "released" \/ (job.named /\ job.status = "cancelled" /\ ~prov.cancel)

\* What docs/GATEWAY_TASK_LIMITS.md:41-42 says of CapacityHeld's exception:
\* a running batch consumes capacity, whatever the local state.
CapacityUntilStopped == prov.state = "running" => task # "released"

\* The submission, the recovery or a worker is about to release the hold, or
\* to queue the job for it.
Releasing ==
    \/ sub \in {"release", "releaseOnly", "stuck", "stuckEnqueue", "intentRelease", "intentStuck"}
    \/ rec \in {"release", "enqueue"}
    \/ \E w \in Workers : wk[w].pc \in {"localTask", "terminalHold"}

\* No scan looks at a failed job any more, so somebody has to know that its
\* hold is still there.  A failed job that the provider had stays queued
\* until a worker has released its hold, whatever fails or crashes, as long
\* as no heartbeat comes too late.  For one that was given up before that,
\* and for one that two workers have, a single failed call never strands the
\* hold: the job is queued, or the submission, the recovery or the worker
\* that failed it is about to release it.  Not covered: a crash or a lost
\* answer between the failed state and the release, a second failure, and a
\* reservation that committed though Submit saw an error.
NotStranded ==
    job.status = "failed" /\ Held =>
        /\ job.named /\ budget.stalls = 0 => queue.inflight
        /\ budget.crashes = 0 /\ budget.faults <= 1 =>
              \/ queue.inflight \/ Releasing
              \/ sub \in {"holdFail", "holdHide", "holdReturn", "holdError"}

\* The hold of a queued job ends, charged or given back, despite worker
\* crashes, failed calls, results that cannot be priced or read, and
\* cancellations, as long as no heartbeat comes too late and the user's other
\* requests let a worker in again and again: Process requeues a job whose
\* user has no free slot without a limit.  Two workers on one job can lose
\* it: the second reads it as indexing and then, in Process, as settling, and
\* takes it off the queue that the first has put it back on.
QueuedSettles ==
    [](budget.stalls = 0) /\ SF_vars(\E w \in Workers : Admit(w))
    => ((queue.inflight /\ Held) ~> ~Held)

\* A submission that stopped before the provider's job was recorded gets its
\* hold back from the recovery, or from a worker when that release fails
\* (a user who cancels the job meanwhile may have to cancel it again), unless
\* the recovery stops as well or a second call fails.
StaleSubmissionRefunded ==
    [](budget.crashes <= 1 /\ budget.faults <= 1)
    => ((sub = "crashed" /\ Held /\ job.status \in Unsubmitted)
            ~> (~Held \/ job.status = "cancelled"))
=============================================================================
