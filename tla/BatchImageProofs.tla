-------------------------- MODULE BatchImageProofs --------------------------
(***************************************************************************)
(* Theorems about a batch image job, for any number of workers, faults,    *)
(* crashes, stalls and cancellations, and any amounts.                     *)
(***************************************************************************)
EXTENDS BatchImage, TLAPS

Known == {"submitted", "running", "indexing", "settling", "completed", "output_deleted"}
Early == {"idle", "bind", "hold", "items", "upload", "intent", "submit"}
Charged == {"completed", "output_deleted"}
Refused == {"failed", "cancelled"}

(***************************************************************************)
(* What the submission's progress says.  A release that is claimed before  *)
(* the hold is reserved closes the way to it: the job is no longer one     *)
(* that may be submitted, or the submission itself has given up.           *)
(***************************************************************************)
SubmitInv ==
    /\ sub = "idle" => job.status = "none" /\ wallet.claims = {}
    /\ sub \in {"bind", "hold"} => "hold" \notin wallet.claims
    /\ sub \in {"items", "upload", "intent", "submit", "name"} => "hold" \in wallet.claims
    /\ sub \in Early => prov.state = "none"
    /\ sub = "submit" => task = "uncertain"
    /\ "release" \in wallet.claims /\ job.status \in Unsubmitted => sub \notin Early \cup {"name"}
    /\ job.status \in Known => job.named
    /\ sub \in {"bindAgain", "enqueue"} => job.named
    /\ job.named => /\ sub \in {"abort", "bindAgain", "enqueue", "done", "crashed"}
                    /\ "hold" \in wallet.claims
                    /\ job.status \notin Unsubmitted

(***************************************************************************)
(* What the processes that work on the job know: a worker past the         *)
(* provider's answer works on a batch that has ended, and whoever is about *)
(* to give the hold back saw a final state that lasts.                     *)
(***************************************************************************)
PastProvider == {"indexingTask", "settlingTask", "providerTask", "toIndexing", "toFailed",
                 "toCancelled", "index", "indexFailed", "toSettling", "settleTask", "capture",
                 "markSettled", "completedTask", "recordFailure", "exhaustRelease",
                 "exhaustFail"}

Knows(r) ==
    /\ r.pc \in PastProvider => prov.state \in Ended
    /\ r.pc = "admit" /\ r.note = "indexing" => prov.state \in Ended
    /\ r.pc \in PastProvider \cup {"admit", "poll", "toRunning"} => job.named
    /\ r.pc = "settleTask" => r.note \in {"exhaustRelease", "recordFailure", "capture"}
    /\ r.pc = "localTask" => job.status \in IF r.note = "settled" THEN Charged ELSE Refused
    /\ r.pc = "terminalHold" => job.status \in Refused

KnowledgeInv ==
    /\ \A w \in Workers : Knows(wk[w])
    /\ can \in {"task", "hold", "newTask", "newHold"} => job.status \in Refused
    /\ can = "taskOnly" => job.status \in Charged
    /\ rec = "release" => job.status = "failed"

(***************************************************************************)
(* What is left of the job at the provider.                                *)
(***************************************************************************)
ProviderInv ==
    /\ job.status \in {"indexing", "settling"} \cup Charged => prov.state \in Ended
    /\ job.named /\ job.status = "failed" => prov.state \in Ended
    /\ prov.state = "running" =>
            IF job.named THEN task # "released" \/ job.status = "cancelled"
            ELSE task = "uncertain"

DataInv == HoldAccounted /\ CompletedIsCharged /\ RefundedIsStopped /\ ProviderInv

(***************************************************************************)
(* The types, by name.                                                     *)
(***************************************************************************)
Budgets == [faults : 0..MaxFaults, crashes : 0..MaxCrashes, stalls : 0..MaxStalls,
            cancels : 0..MaxCancels]
Wallets == [balance : 0..Hold, frozen : 0..(OtherFrozen + Hold),
            claims : SUBSET {"hold", "capture", "release"}]
Jobs == [status : Statuses, named : BOOLEAN, retry : 0..MaxRetries, fresh : BOOLEAN,
         hidden : BOOLEAN]
Queues == [inflight : BOOLEAN, ready : 0..MaxReady, delayed : BOOLEAN,
           active : {"no", "fresh", "stale"}, lock : Workers \cup {NoWorker}]
Tasks == {"none", "reserved", "bound", "uncertain", "released"}
Provs == [state : {"none", "running"} \cup Ended, cancel : BOOLEAN]
WorkerStates == [pc : WorkerPcs, note : Notes, locked : BOOLEAN]
RecPcs == {"idle", "fail", "release", "enqueue"}

Types ==
    /\ job \in Jobs /\ wallet \in Wallets /\ task \in Tasks /\ prov \in Provs
    /\ queue \in Queues /\ sub \in SubPcs /\ can \in CanPcs /\ rec \in RecPcs
    /\ wk \in [Workers -> WorkerStates] /\ budget \in Budgets

BatchInv == Types /\ DataInv /\ SubmitInv /\ KnowledgeInv

(***************************************************************************)
(* Whoever asked the provider to stop.  A Cancel that read the row before  *)
(* the provider's job was in it finds a job nobody has asked to stop, or   *)
(* one whose submission has ended and left the reservation uncertain.      *)
(***************************************************************************)
LateInv ==
    /\ sub \in Early \cup {"name"} => ~prov.cancel
    /\ sub = "abort" /\ prov.state = "running" => task = "uncertain"
    /\ can = "provider" => job.named /\ (prov.state = "running" => job.status # "cancelled")
    /\ /\ prov.state = "running" /\ prov.cancel /\ job.named
       /\ can = "transition" \/ job.status = "cancelled"
       => task = "uncertain" /\ sub \in {"done", "crashed"}

USE DEF NoFault, Fault, Stall, Crash, LostAnswer, Results, Terminal, Unsubmitted, Statuses, Ended, Succeeded
USE DEF subRest, canRest, recRest, others, processes
USE DEF Known, Early, Charged, Refused

-----------------------------------------------------------------------------
(***************************************************************************)
(* What the calls do.                                                      *)
(***************************************************************************)
LEMMA FaultTyped ==
  ASSUME budget \in Budgets, NoFault \/ Fault \/ Stall \/ Crash
  PROVE  budget' \in Budgets
  BY BatchAssumption DEF Budgets

\* What a transition of the job row changes, and that it starts from an allowed status.
LEMMA TransitionEffect ==
  ASSUME job \in Jobs, budget \in Budgets, NEW to \in Statuses, NEW r \in Results,
         Transition(to, r)
  PROVE  /\ job' \in Jobs /\ budget' \in Budgets
         /\ job'.named = job.named
         /\ \/ r # "refused" /\ CanTransition(job.status, to) /\ job'.status = to
            \/ r # "ok" /\ job' = job
  <1>1. budget' \in Budgets
    BY FaultTyped DEF Transition
  <1>2. CASE job' = job /\ r # "ok"
    BY <1>1, <1>2
  <1>3. CASE r # "refused" /\ CanTransition(job.status, to)
             /\ job' = [job EXCEPT !.status = to, !.fresh = TRUE]
    BY <1>1, <1>3 DEF Jobs
  <1>q. QED
    BY <1>2, <1>3 DEF Transition

\* Releasing the hold moves the money back at most once.
LEMMA ReleaseEffect ==
  ASSUME wallet \in Wallets, budget \in Budgets, HoldAccounted, NEW r \in Results,
         ReleaseHold(r)
  PROVE  /\ wallet' \in Wallets /\ budget' \in Budgets /\ HoldAccounted'
         /\ \/ wallet'.claims = wallet.claims
            \/ wallet'.claims = wallet.claims \cup {"release"}
         /\ r = "ok" => "release" \in wallet'.claims
  <1> DEFINE grants == ReleaseAllowed /\ ("hold" \in wallet.claims => wallet.frozen >= Hold)
  <1>1. budget' \in Budgets
    BY FaultTyped DEF ReleaseHold, Billing
  <1>2. CASE wallet' = wallet /\ (r = "ok" => "release" \in wallet.claims)
    BY <1>1, <1>2 DEF HoldAccounted, Held
  <1>3. CASE "release" \notin wallet.claims /\ grants /\ wallet' = Released
    <2>1. CASE "hold" \in wallet.claims
      <3>1. /\ wallet'.balance = wallet.balance + Hold /\ wallet'.frozen = wallet.frozen - Hold
            /\ wallet'.claims = wallet.claims \cup {"release"}
            /\ wallet' = [balance |-> wallet'.balance, frozen |-> wallet'.frozen,
                          claims |-> wallet'.claims]
        BY <1>3, <2>1 DEF Released
      <3>2. "capture" \notin wallet.claims /\ Held /\ ~Held'
        BY <1>3, <2>1, <3>1 DEF Wallets, ReleaseAllowed, Held
      <3>3. HoldAccounted'
        BY <3>1, <3>2, BatchAssumption DEF HoldAccounted, Wallets
      <3>4. wallet'.balance \in 0..Hold /\ wallet'.frozen \in 0..(OtherFrozen + Hold)
        BY <3>1, <3>2, BatchAssumption DEF HoldAccounted, Wallets
      <3>5. wallet' \in Wallets
        BY <3>1, <3>4 DEF Wallets
      <3>q. QED
        BY <1>1, <3>1, <3>3, <3>5
    <2>2. CASE "hold" \notin wallet.claims
      <3>1. wallet' = [wallet EXCEPT !.claims = @ \cup {"release"}]
        BY <1>3, <2>2 DEF Released
      <3>2. /\ wallet' \in Wallets /\ wallet'.claims = wallet.claims \cup {"release"}
            /\ wallet'.balance = wallet.balance /\ wallet'.frozen = wallet.frozen
        BY <3>1 DEF Wallets
      <3>3. HoldAccounted'
        BY <1>3, <2>2, <3>2 DEF HoldAccounted, Held, ReleaseAllowed
      <3>q. QED
        BY <1>1, <3>2, <3>3
    <2>q. QED
      BY <2>1, <2>2
  <1>q. QED
    BY <1>2, <1>3 DEF ReleaseHold, Billing

\* Reserving the hold moves the money to the frozen balance at most once.
LEMMA ReserveEffect ==
  ASSUME wallet \in Wallets, budget \in Budgets, HoldAccounted, NEW r \in Results,
         ReserveHold(r), "hold" \notin wallet.claims, "capture" \notin wallet.claims,
         job.status \in Unsubmitted => "release" \notin wallet.claims
  PROVE  /\ wallet' \in Wallets /\ budget' \in Budgets /\ HoldAccounted'
         /\ \/ r # "ok" /\ wallet'.claims = wallet.claims
            \/ wallet'.claims = wallet.claims \cup {"hold"} /\ job.status \in Unsubmitted
  <1>1. budget' \in Budgets
    BY FaultTyped DEF ReserveHold, Billing
  <1>2. CASE wallet' = wallet /\ r # "ok"
    BY <1>1, <1>2 DEF HoldAccounted, Held
  <1>3. CASE /\ job.status \in Unsubmitted /\ wallet.balance >= Hold
             /\ wallet' = [balance |-> wallet.balance - Hold, frozen |-> wallet.frozen + Hold,
                           claims |-> wallet.claims \cup {"hold"}]
    <2>1. /\ wallet'.balance = wallet.balance - Hold /\ wallet'.frozen = wallet.frozen + Hold
          /\ wallet'.claims = wallet.claims \cup {"hold"}
      BY <1>3
    <2>2. ~Held /\ Held'
      BY <1>3, <2>1 DEF Held
    <2>3. HoldAccounted'
      BY <2>1, <2>2, BatchAssumption DEF HoldAccounted, Wallets
    <2>4. wallet'.balance \in 0..Hold /\ wallet'.frozen \in 0..(OtherFrozen + Hold)
      BY <1>3, <2>1, <2>2, BatchAssumption DEF HoldAccounted, Wallets
    <2>5. wallet' \in Wallets
      BY <1>3, <2>1, <2>4 DEF Wallets
    <2>q. QED
      BY <1>1, <1>3, <2>1, <2>3, <2>5
  <1>q. QED
    BY <1>2, <1>3 DEF ReserveHold, Billing


\* Recording the failure of a submission changes the status of the row only.
LEMMA FailureEffect ==
  ASSUME job \in Jobs, budget \in Budgets, RecordSubmitFailure
  PROVE  /\ job' \in Jobs /\ budget' \in Budgets /\ job'.named = job.named
         /\ job'.status \in {job.status, "failed"}
  BY FaultTyped DEF RecordSubmitFailure, Jobs

\* Queueing the job keeps the queue well formed.
LEMMA EnqueueEffect ==
  ASSUME queue \in Queues, budget \in Budgets, NEW r, Enqueue(r)
  PROVE  queue' \in Queues /\ budget' \in Budgets
  <1>1. budget' \in Budgets
    BY FaultTyped DEF Enqueue
  <1>2. CASE queue' = queue
    BY <1>1, <1>2
  <1>3. CASE queue.ready < MaxReady
             /\ queue' = [queue EXCEPT !.inflight = TRUE, !.ready = queue.ready + 1]
    <2>1. queue.ready + 1 \in 0..MaxReady
      BY <1>3, BatchAssumption DEF Queues
    <2>q. QED
      BY <1>1, <1>3, <2>1 DEF Queues
  <1>q. QED
    BY <1>2, <1>3 DEF Enqueue

\* A step of a worker that changes its place and its note, and no other worker.
LEMMA WorkerMoved ==
  ASSUME wk \in [Workers -> WorkerStates], NEW w \in Workers, NEW to \in WorkerPcs,
         NEW note \in Notes, GoNote(w, to, note)
  PROVE  /\ wk' \in [Workers -> WorkerStates]
         /\ wk'[w].pc = to /\ wk'[w].note = note /\ wk'[w].locked = wk[w].locked
         /\ \A v \in Workers \ {w} : wk'[v] = wk[v]
  <1> DEFINE q == [wk[w] EXCEPT !.pc = to]
             r == [q EXCEPT !.note = note]
  <1>0. wk[w] \in WorkerStates
    OBVIOUS
  <1>1. q \in WorkerStates /\ q.pc = to /\ q.locked = wk[w].locked
    BY <1>0 DEF WorkerStates
  <1>2. r \in WorkerStates /\ r.pc = to /\ r.note = note /\ r.locked = wk[w].locked
    <2> HIDE DEF q
    <2>q. QED
      BY <1>1 DEF WorkerStates
  <1>3. wk' = [wk EXCEPT ![w] = r]
    BY DEF GoNote
  <1> HIDE DEF r
  <1>q. QED
    BY <1>2, <1>3

(***************************************************************************)
(* What a step keeps of the invariant when it leaves alone what the parts  *)
(* of it are about.                                                        *)
(***************************************************************************)
JobKept == job'.status = job.status /\ job'.named = job.named

\* The money and the row stay consistent when neither changes.
LEMMA DataKept ==
  ASSUME DataInv, JobKept, prov'.state = prov.state, UNCHANGED <<wallet, task>>
  PROVE  DataInv'
  BY DEF DataInv, JobKept, HoldAccounted, Held, CompletedIsCharged, RefundedIsStopped,
         ProviderInv

\* What is known of the submission survives a step that leaves it alone.
LEMMA SubmitKept ==
  ASSUME SubmitInv, JobKept, prov'.state = prov.state, UNCHANGED <<wallet, task, sub>>
  PROVE  SubmitInv'
  BY DEF SubmitInv, JobKept

\* What the processes know survives a step that moves none of them.
LEMMA KnowledgeKept ==
  ASSUME KnowledgeInv, UNCHANGED <<wk, can, rec>>,
         prov.state \in Ended => prov'.state \in Ended,
         job.named => job'.named,
         job.status = "failed" => job'.status = "failed",
         job.status \in Refused => job'.status \in Refused,
         job.status \in Charged => job'.status \in Charged
  PROVE  KnowledgeInv'
  BY DEF KnowledgeInv, Knows

(***************************************************************************)
(* A legal transition comes from a state in which nothing is settled, and  *)
(* nobody who saw a final state is under way.                              *)
(***************************************************************************)
LEMMA Transitioned ==
  ASSUME BatchInv, NEW to \in {"uploading", "failed", "cancelled", "running", "indexing", "settling"},
         CanTransition(job.status, to), job'.status = to, job'.named = job.named,
         to \in {"indexing", "settling"} => prov.state \in Ended,
         to = "failed" /\ job.named => prov.state \in Ended,
         UNCHANGED <<wallet, task, prov>>
  PROVE  /\ DataInv'
         /\ \A w \in Workers : wk[w].pc \notin {"localTask", "terminalHold"}
         /\ can \notin {"task", "hold", "taskOnly"} /\ rec # "release"
  <1>1. job.status \notin Terminal
    BY DEF CanTransition
  <1>2. HoldAccounted'
    BY DEF BatchInv, DataInv, HoldAccounted, Held
  <1>3. CompletedIsCharged'
    BY <1>1 DEF BatchInv, DataInv, CompletedIsCharged
  <1>4. RefundedIsStopped'
    BY <1>1 DEF BatchInv, DataInv, RefundedIsStopped
  <1>5. ProviderInv'
    BY <1>1 DEF BatchInv, DataInv, ProviderInv
  <1>6. /\ \A w \in Workers : wk[w].pc \notin {"localTask", "terminalHold"}
        /\ can \notin {"task", "hold", "taskOnly"} /\ rec # "release"
    BY <1>1 DEF BatchInv, KnowledgeInv, Knows
  <1>q. QED
    BY <1>2, <1>3, <1>4, <1>5, <1>6 DEF DataInv

\* What is known of the submission survives a transition made by another process.
LEMMA SubmitTransitioned ==
  ASSUME SubmitInv, sub # "idle",
         NEW to \in {"failed", "cancelled", "running", "indexing", "settling"},
         CanTransition(job.status, to), job'.status = to, job'.named = job.named,
         UNCHANGED <<wallet, task, prov, sub>>
  PROVE  SubmitInv'
  BY DEF SubmitInv, CanTransition

(***************************************************************************)
(* A worker that only reads, or only touches the queue.                    *)
(***************************************************************************)
LEMMA WorkerLocal ==
  ASSUME BatchInv, NEW w \in Workers, JobKept, job' \in Jobs,
         UNCHANGED <<wallet, task, prov, sub, can, rec>>,
         queue' \in Queues, budget' \in Budgets, wk' \in [Workers -> WorkerStates],
         \A v \in Workers \ {w} : wk'[v] = wk[v],
         Knows(wk'[w])
  PROVE  BatchInv'
  <1>1. Types'
    BY DEF BatchInv, Types
  <1>2. DataInv' /\ SubmitInv'
    BY DataKept, SubmitKept DEF BatchInv
  <1>3. KnowledgeInv'
    BY DEF BatchInv, KnowledgeInv, Knows, JobKept
  <1>q. QED
    BY <1>1, <1>2, <1>3 DEF BatchInv

\* A worker that reads the row knows the status it read.
LEMMA WorkerReads ==
  ASSUME BatchInv, NEW w \in Workers,
         PipelineRead(w) \/ ProcessRead(w) \/ Admit(w) \/ SlotRefused(w) \/ Poll(w) \/ Index(w)
            \/ SettleRead(w) \/ MarkSettled(w) \/ Recheck(w)
  PROVE  BatchInv'
  <1> USE DEF Go
  <1>0. /\ Types /\ DataInv /\ SubmitInv /\ KnowledgeInv /\ Knows(wk[w]) /\ ProviderInv
        /\ job \in Jobs /\ wk \in [Workers -> WorkerStates] /\ JobKept
        /\ UNCHANGED <<job, wallet, task, prov, queue, sub, can, rec>> /\ budget \in Budgets
        /\ NoFault \/ Fault
    BY DEF BatchInv, Types, DataInv, KnowledgeInv, JobKept, PipelineRead, ProcessRead, Admit,
           SlotRefused, Poll, Index, SettleRead, MarkSettled, Recheck
  <1>1. ASSUME NEW to \in WorkerPcs, NEW note \in Notes, GoNote(w, to, note),
               to \in PastProvider => prov.state \in Ended,
               to = "admit" /\ note = "indexing" => prov.state \in Ended,
               to \in PastProvider \cup {"admit", "poll", "toRunning"} => job.named,
               to = "settleTask" => note \in {"exhaustRelease", "recordFailure", "capture"},
               to = "localTask" => job.status \in IF note = "settled" THEN Charged ELSE Refused,
               to # "terminalHold"
        PROVE  BatchInv'
    <2>1. /\ wk' \in [Workers -> WorkerStates] /\ wk'[w].pc = to /\ wk'[w].note = note
          /\ \A v \in Workers \ {w} : wk'[v] = wk[v]
      BY <1>0, <1>1, WorkerMoved
    <2>2. Knows(wk'[w])
      BY <1>0, <1>1, <2>1 DEF Knows
    <2>3. queue' \in Queues /\ budget' \in Budgets
      BY <1>0, FaultTyped DEF Types
    <2>q. QED
      BY <1>0, <2>1, <2>2, <2>3, WorkerLocal
  <1> USE DEF WorkerPcs, Notes, PastProvider
  <1>2. CASE PipelineRead(w)
    BY <1>0, <1>1, <1>2 DEF PipelineRead
  <1>3. CASE ProcessRead(w)
    BY <1>0, <1>1, <1>3 DEF ProcessRead, ProviderInv, SubmitInv
  <1>4. CASE Poll(w)
    BY <1>0, <1>1, <1>4 DEF Poll, Knows
  <1>5. CASE Index(w)
    BY <1>0, <1>1, <1>5 DEF Index, Knows
  <1>6. CASE SettleRead(w)
    BY <1>0, <1>1, <1>6 DEF SettleRead, ProviderInv, SubmitInv
  <1>7. CASE MarkSettled(w)
    BY <1>0, <1>1, <1>7 DEF MarkSettled, Knows
  <1>8. CASE Recheck(w)
    BY <1>0, <1>1, <1>8 DEF Recheck
  <1>9. CASE Admit(w) \/ SlotRefused(w)
    <2>1. wk[w].note \in Notes
      BY <1>0 DEF WorkerStates
    <2>q. QED
      BY <1>0, <1>1, <1>9, <2>1 DEF Admit, SlotRefused, Knows
  <1>q. QED
    BY <1>2, <1>3, <1>4, <1>5, <1>6, <1>7, <1>8, <1>9

\* The queue operations of a worker touch neither the row nor the money.
LEMMA WorkerQueues ==
  ASSUME BatchInv, NEW w \in Workers,
         \/ WorkerReserve(w) \/ TryAcquireJobLock(w) \/ RequeueAfter(w) \/ Ack(w) \/ Unlock(w)
         \/ WorkerError(w) \/ WorkerStops(w)
  PROVE  BatchInv'
  <1> USE DEF Go
  <1>0. /\ queue \in Queues /\ budget \in Budgets /\ wk \in [Workers -> WorkerStates]
        /\ JobKept /\ job' \in Jobs
        /\ UNCHANGED <<job, wallet, task, prov, sub, can, rec>>
        /\ NoFault \/ Fault \/ Crash
    BY DEF BatchInv, Types, JobKept, WorkerReserve, TryAcquireJobLock, RequeueAfter, Ack, Unlock,
           WorkerError, WorkerStops
  <1>1. budget' \in Budgets
    BY <1>0, FaultTyped
  <1>2. queue' \in Queues
    <2>1. CASE queue' = queue
      BY <1>0, <2>1
    <2>2. CASE queue.ready > 0 /\ queue' = [queue EXCEPT !.ready = queue.ready - 1, !.active = "fresh"]
      <3>1. queue.ready - 1 \in 0..MaxReady
        BY <1>0, <2>2, BatchAssumption DEF Queues
      <3>q. QED
        BY <1>0, <2>2, <3>1 DEF Queues
    <2>3. CASE queue' = [queue EXCEPT !.lock = w]
      BY <1>0, <2>3 DEF Queues
    <2>4. CASE queue' = [queue EXCEPT !.active = "no", !.delayed = TRUE]
      BY <1>0, <2>4 DEF Queues
    <2>5. CASE queue' = [queue EXCEPT !.active = "no", !.delayed = FALSE, !.inflight = FALSE]
      BY <1>0, <2>5 DEF Queues
    <2>6. CASE queue' = [queue EXCEPT !.lock = NoWorker]
      BY <1>0, <2>6 DEF Queues
    <2>q. QED
      BY <2>1, <2>2, <2>3, <2>4, <2>5, <2>6
      DEF WorkerReserve, TryAcquireJobLock, RequeueAfter, Ack, Unlock, WorkerError, WorkerStops
  <1>3. ASSUME NEW to \in {"lock", "requeue", "unlock"}, GoNote(w, to, "none")
        PROVE  BatchInv'
    <2>1. to \in WorkerPcs /\ "none" \in Notes
      BY DEF WorkerPcs, Notes
    <2>2. /\ wk' \in [Workers -> WorkerStates] /\ wk'[w].pc = to
          /\ \A v \in Workers \ {w} : wk'[v] = wk[v]
      BY <1>0, <1>3, <2>1, WorkerMoved
    <2>3. Knows(wk'[w])
      BY <2>2 DEF Knows, PastProvider
    <2>q. QED
      BY <1>0, <1>1, <1>2, <2>2, <2>3, WorkerLocal
  <1>4. ASSUME NEW r \in WorkerStates, r.pc \in {"pipeline", "idle"}, wk' = [wk EXCEPT ![w] = r]
        PROVE  BatchInv'
    <2>1. /\ wk' \in [Workers -> WorkerStates] /\ wk'[w] = r
          /\ \A v \in Workers \ {w} : wk'[v] = wk[v]
      BY <1>0, <1>4
    <2>2. Knows(wk'[w])
      BY <1>4, <2>1 DEF Knows, PastProvider
    <2>q. QED
      BY <1>0, <1>1, <1>2, <2>1, <2>2, WorkerLocal
  <1>5. /\ [pc |-> "pipeline", note |-> "none", locked |-> TRUE] \in WorkerStates
        /\ [pc |-> "idle", note |-> "none", locked |-> FALSE] \in WorkerStates
    BY DEF WorkerStates, WorkerPcs, Notes
  <1>6. CASE \E to \in {"lock", "requeue", "unlock"} : GoNote(w, to, "none")
    BY <1>3, <1>6
  <1>7. CASE wk' = [wk EXCEPT ![w] = [pc |-> "pipeline", note |-> "none", locked |-> TRUE]]
    BY <1>4, <1>5, <1>7
  <1>8. CASE wk' = [wk EXCEPT ![w] = [pc |-> "idle", note |-> "none", locked |-> FALSE]]
    BY <1>4, <1>5, <1>8
  <1>q. QED
    BY <1>6, <1>7, <1>8
    DEF WorkerReserve, TryAcquireJobLock, RequeueAfter, Ack, Unlock, WorkerError, WorkerStops

(***************************************************************************)
(* The reservation goes only where the provider is done, or where nothing  *)
(* of it is uncertain.                                                     *)
(***************************************************************************)
LEMMA TaskReleased ==
  ASSUME BatchInv, NEW proof \in BOOLEAN, ReleaseTask(proof),
         proof => prov.state \in Ended,
         ~proof => job.status \in Refused \cup Charged,
         UNCHANGED <<job, wallet, prov, sub>>
  PROVE  task' \in Tasks /\ DataInv' /\ SubmitInv'
  <1>1. task' \in Tasks /\ task' \in {task, "released"}
    BY DEF ReleaseTask, Tasks, BatchInv, Types
  <1>2. task' # task => task = "bound" \/ prov.state \in Ended
    BY DEF ReleaseTask
  <1>3. ProviderInv'
    BY <1>1, <1>2 DEF BatchInv, DataInv, ProviderInv
  <1>4. HoldAccounted' /\ CompletedIsCharged' /\ RefundedIsStopped'
    BY DEF BatchInv, DataInv, HoldAccounted, Held, CompletedIsCharged, RefundedIsStopped
  <1>5. SubmitInv'
    BY <1>1, <1>2 DEF BatchInv, SubmitInv
  <1>q. QED
    BY <1>1, <1>3, <1>4, <1>5 DEF DataInv

(***************************************************************************)
(* The hold goes back only for a job that is refused, whose batch has      *)
(* ended, or that the provider's name never reached.                       *)
(***************************************************************************)
LEMMA HoldReleased ==
  ASSUME BatchInv, NEW r \in Results, ReleaseHold(r),
         job.status \in Refused \/ prov.state \in Ended \/ ~job.named,
         UNCHANGED <<job, task, prov>>
  PROVE  /\ wallet' \in Wallets /\ budget' \in Budgets /\ DataInv'
         /\ wallet'.claims \in {wallet.claims, wallet.claims \cup {"release"}}
  <1>1. wallet \in Wallets /\ budget \in Budgets /\ HoldAccounted
    BY DEF BatchInv, Types, DataInv
  <1>2. /\ wallet' \in Wallets /\ budget' \in Budgets /\ HoldAccounted'
        /\ wallet'.claims \in {wallet.claims, wallet.claims \cup {"release"}}
    BY <1>1, ReleaseEffect
  <1>3. CompletedIsCharged'
    BY <1>2 DEF BatchInv, DataInv, CompletedIsCharged
  <1>4. RefundedIsStopped' /\ ProviderInv'
    BY <1>2 DEF BatchInv, DataInv, RefundedIsStopped, ProviderInv
  <1>q. QED
    BY <1>2, <1>3, <1>4 DEF DataInv

(***************************************************************************)
(* A worker's step, once what it does to the data is known.                *)
(***************************************************************************)
LEMMA WorkerSteps ==
  ASSUME BatchInv, NEW w \in Workers, NEW to \in WorkerPcs, NEW note \in Notes,
         GoNote(w, to, note),
         job' \in Jobs, wallet' \in Wallets, task' \in Tasks, budget' \in Budgets,
         DataInv', SubmitInv',
         UNCHANGED <<prov, queue, sub, can, rec>>,
         job.named => job'.named,
         job.status = "failed" => job'.status = "failed",
         job.status \in Refused => job'.status \in Refused,
         job.status \in Charged => job'.status \in Charged,
         to \in PastProvider => prov.state \in Ended,
         to = "admit" /\ note = "indexing" => prov.state \in Ended,
         to \in PastProvider \cup {"admit", "poll", "toRunning"} => job.named,
         to = "settleTask" => note \in {"exhaustRelease", "recordFailure", "capture"},
         to = "localTask" => job'.status \in IF note = "settled" THEN Charged ELSE Refused,
         to = "terminalHold" => job'.status \in Refused
  PROVE  BatchInv'
  <1>0. wk \in [Workers -> WorkerStates] /\ KnowledgeInv
    BY DEF BatchInv, Types
  <1>1. /\ wk' \in [Workers -> WorkerStates] /\ wk'[w].pc = to /\ wk'[w].note = note
        /\ \A v \in Workers \ {w} : wk'[v] = wk[v]
    BY <1>0, WorkerMoved
  <1>2. Types'
    BY <1>1 DEF BatchInv, Types
  <1>3. Knows(wk[w])'
    BY <1>1 DEF Knows
  <1>4. \A v \in Workers \ {w} : Knows(wk[v])'
    BY <1>0, <1>1 DEF KnowledgeInv, Knows
  <1>5. KnowledgeInv'
    BY <1>0, <1>3, <1>4 DEF KnowledgeInv
  <1>q. QED
    BY <1>2, <1>5 DEF BatchInv

\* A worker gives hold and capacity back only for a job that has ended.
LEMMA WorkerReleases ==
  ASSUME BatchInv, NEW w \in Workers,
         WorkerReleaseTask(w) \/ TerminalHold(w) \/ ExhaustRelease(w)
  PROVE  BatchInv'
  <1> USE DEF Go, WorkerPcs, Notes, PastProvider
  <1>0. /\ Types /\ Knows(wk[w]) /\ SubmitInv
        /\ job \in Jobs /\ wallet \in Wallets /\ task \in Tasks /\ budget \in Budgets
        /\ UNCHANGED <<job, prov, queue, sub, can, rec>>
    BY DEF BatchInv, Types, KnowledgeInv, WorkerReleaseTask, TerminalHold, ExhaustRelease
  <1>1. CASE WorkerReleaseTask(w)
    <2>1. UNCHANGED <<wallet, budget>>
      BY <1>1 DEF WorkerReleaseTask
    <2>2. CASE /\ ReleaseTask(TRUE) /\ prov.state \in Ended /\ job.named
               /\ \E to \in {"admit", "ack", "toFailed", "toCancelled", "toIndexing", "exhaustRelease",
                             "recordFailure", "capture"}, note \in Notes : GoNote(w, to, note)
      <3>1. task' \in Tasks /\ DataInv' /\ SubmitInv'
        BY <1>0, <2>1, <2>2, TaskReleased
      <3>2. PICK to \in {"admit", "ack", "toFailed", "toCancelled", "toIndexing", "exhaustRelease",
                        "recordFailure", "capture"}, note \in Notes : GoNote(w, to, note)
        BY <2>2
      <3>3. to \in WorkerPcs /\ to \notin {"settleTask", "localTask", "terminalHold"}
        BY <3>2
      <3>4. prov.state \in Ended /\ job.named /\ job' = job
        BY <1>0, <2>2
      <3>5. wallet' \in Wallets /\ budget' \in Budgets
        BY <1>0, <2>1
      <3> HIDE DEF WorkerPcs, Notes, PastProvider
      <3>q. QED
        BY <1>0, <3>1, <3>2, <3>3, <3>4, <3>5, WorkerSteps
    <2>3. CASE /\ wk[w].pc = "localTask" /\ ReleaseTask(FALSE)
               /\ GoNote(w, IF wk[w].note = "settled" THEN "ack" ELSE "terminalHold", "none")
      <3>1. job.status \in Refused \cup Charged
        BY <1>0, <2>3 DEF Knows
      <3>2. task' \in Tasks /\ DataInv' /\ SubmitInv'
        BY <1>0, <2>1, <2>3, <3>1, TaskReleased
      <3>3. wk[w].note # "settled" => job.status \in Refused
        BY <1>0, <2>3 DEF Knows
      <3>4. CASE wk[w].note = "settled"
        <4>1. GoNote(w, "ack", "none")
          BY <2>3, <3>4
        <4>2. "ack" \in WorkerPcs \ (PastProvider \cup {"admit", "poll", "toRunning"})
              /\ "none" \in Notes
          OBVIOUS
        <4> HIDE DEF WorkerPcs, Notes, PastProvider
        <4>q. QED
          BY <1>0, <2>1, <3>2, <4>1, <4>2, WorkerSteps
      <3>5. CASE wk[w].note # "settled"
        <4>1. GoNote(w, "terminalHold", "none")
          BY <2>3, <3>5
        <4>2. "terminalHold" \in WorkerPcs \ (PastProvider \cup {"admit", "poll", "toRunning"})
              /\ "none" \in Notes
          OBVIOUS
        <4> HIDE DEF WorkerPcs, Notes, PastProvider
        <4>q. QED
          BY <1>0, <2>1, <3>2, <3>3, <3>5, <4>1, <4>2, WorkerSteps
      <3>q. QED
        BY <3>4, <3>5
    <2>4. wk[w].note \in Notes
      BY <1>0 DEF Types, WorkerStates
    <2>q. QED
      BY <1>0, <1>1, <2>2, <2>3, <2>4 DEF WorkerReleaseTask, Knows
  <1>2. CASE TerminalHold(w)
    <2>1. job.status \in Refused
      BY <1>0, <1>2 DEF TerminalHold, Knows
    <2>2. PICK r \in Results : ReleaseHold(r) /\ Go(w, IF r = "error" THEN "requeue" ELSE "ack")
      BY <1>2 DEF TerminalHold
    <2>3. UNCHANGED task
      BY <1>2 DEF TerminalHold
    <2>4. /\ wallet' \in Wallets /\ budget' \in Budgets /\ DataInv'
          /\ wallet'.claims \in {wallet.claims, wallet.claims \cup {"release"}}
      BY <1>0, <2>1, <2>2, <2>3, HoldReleased
    <2>5. SubmitInv'
      BY <1>0, <2>1, <2>3, <2>4 DEF SubmitInv
    <2>q. QED
      BY ZenonT(40), <1>0, <2>2, <2>3, <2>4, <2>5, WorkerSteps
  <1>3. CASE ExhaustRelease(w)
    <2>1. prov.state \in Ended /\ job.named
      BY <1>0, <1>3 DEF ExhaustRelease, Knows
    <2>2. PICK r \in Results : ReleaseHold(r) /\ Go(w, IF r = "ok" THEN "exhaustFail" ELSE "recheck")
      BY <1>3 DEF ExhaustRelease
    <2>3. UNCHANGED task
      BY <1>3 DEF ExhaustRelease
    <2>4. /\ wallet' \in Wallets /\ budget' \in Budgets /\ DataInv'
          /\ wallet'.claims \in {wallet.claims, wallet.claims \cup {"release"}}
      BY <1>0, <2>1, <2>2, <2>3, HoldReleased
    <2>5. SubmitInv'
      BY <1>0, <2>1, <2>3, <2>4 DEF SubmitInv
    <2>q. QED
      BY <1>0, <2>1, <2>2, <2>3, <2>4, <2>5, WorkerSteps
  <1>q. QED
    BY <1>1, <1>2, <1>3

\* The transitions a worker makes keep the invariant.
LEMMA WorkerTransitions ==
  ASSUME BatchInv, NEW w \in Workers, WorkerTransition(w)
  PROVE  BatchInv'
  <1> USE DEF Go, WorkerPcs, Notes
  <1>0. /\ Types /\ Knows(wk[w]) /\ SubmitInv
        /\ job \in Jobs /\ wallet \in Wallets /\ task \in Tasks /\ budget \in Budgets
        /\ UNCHANGED <<wallet, task, prov, queue, sub, can, rec>>
    BY DEF BatchInv, Types, KnowledgeInv, WorkerTransition
  <1>1. ASSUME NEW from \in {"toRunning", "toIndexing", "toFailed", "toCancelled", "indexFailed",
                             "toSettling", "exhaustFail"},
               NEW to \in {"running", "indexing", "failed", "cancelled", "settling"},
               NEW pc \in {"requeue", "index", "localTask", "recheck"}, NEW r \in Results,
               wk[w].pc = from, Transition(to, r),
               Go(w, IF r = "ok" THEN pc ELSE "requeue"),
               from = "toRunning" => to = "running" /\ pc = "requeue",
               pc = "localTask" => to \in Refused
        PROVE  BatchInv'
    <2>1. job.named /\ (from # "toRunning" => prov.state \in Ended)
      BY <1>0, <1>1 DEF Knows, PastProvider
    <2>2. /\ job' \in Jobs /\ budget' \in Budgets /\ job'.named = job.named
          /\ \/ r # "refused" /\ CanTransition(job.status, to) /\ job'.status = to
             \/ r # "ok" /\ job' = job
      BY <1>0, <1>1, TransitionEffect
    <2>3. CASE r # "refused" /\ CanTransition(job.status, to) /\ job'.status = to
      <3>1. DataInv'
        BY <1>0, <1>1, <2>1, <2>2, <2>3, Transitioned
      <3>2. sub # "idle"
        BY <1>0, <2>1 DEF SubmitInv
      <3>3. SubmitInv'
        BY <1>0, <1>1, <2>2, <2>3, <3>2, SubmitTransitioned
      <3>4. job.status \notin Terminal
        BY <2>2, <2>3 DEF CanTransition
      <3>5. pc = "index" => prov.state \in Ended
        BY <1>1, <2>1
      <3>q. QED
        BY ZenonT(40), <1>0, <1>1, <2>1, <2>2, <2>3, <3>1, <3>3, <3>4, <3>5, WorkerSteps DEF PastProvider
    <2>4. CASE r # "ok" /\ job' = job
      <3>1. DataInv' /\ SubmitInv'
        BY <1>0, <2>2, <2>4, DataKept, SubmitKept DEF BatchInv, JobKept
      <3>2. GoNote(w, "requeue", "none") /\ job' = job
        BY <1>1, <2>2, <2>4
      <3>3. "requeue" \notin PastProvider \cup {"admit", "poll", "toRunning", "settleTask", "localTask", "terminalHold"}
        BY DEF PastProvider
      <3>q. QED
        BY <1>0, <2>2, <3>1, <3>2, <3>3, WorkerSteps
    <2>q. QED
      BY <2>2, <2>3, <2>4
  <1>q. QED
    BY <1>1 DEF WorkerTransition

\* Capturing charges the frozen amount at most once.
LEMMA CaptureEffect ==
  ASSUME BatchInv, NEW w \in Workers, Capture(w)
  PROVE  /\ \/ UNCHANGED <<job, wallet>>
            \/ /\ CaptureAllowed /\ wallet' = Captured /\ "capture" \notin wallet.claims
               /\ job' = [job EXCEPT !.status = "completed"]
         /\ budget' \in Budgets
         /\ Go(w, "markSettled") \/ GoNote(w, "recordFailure", "capture")
         /\ UNCHANGED <<task, prov, queue, sub, can, rec>>
  <1>1. budget \in Budgets /\ wallet \in Wallets
    BY DEF BatchInv, Types
  <1>2. budget' \in Budgets
    BY <1>1, FaultTyped DEF Capture, Billing
  <1>3. CASE wallet' = wallet
    BY <1>2, <1>3 DEF Capture
  <1>4. CASE wallet' # wallet
    <2>1. "capture" \notin wallet.claims /\ CaptureAllowed /\ wallet' = Captured
      BY <1>4 DEF Capture, Billing
    <2>2. job' = [job EXCEPT !.status = "completed"]
      BY <1>4 DEF Capture
    <2>q. QED
      BY <1>2, <2>1, <2>2 DEF Capture
  <1>q. QED
    BY <1>3, <1>4

\* A worker captures the hold of a settling job only.
LEMMA WorkerCaptures ==
  ASSUME BatchInv, NEW w \in Workers, Capture(w)
  PROVE  BatchInv'
  <1> USE DEF Go, WorkerPcs, Notes, PastProvider
  <1>0. /\ Types /\ Knows(wk[w]) /\ SubmitInv /\ DataInv
        /\ job \in Jobs /\ wallet \in Wallets /\ task \in Tasks /\ budget \in Budgets
    BY DEF BatchInv, Types, KnowledgeInv
  <1>1. /\ budget' \in Budgets
        /\ Go(w, "markSettled") \/ GoNote(w, "recordFailure", "capture")
        /\ UNCHANGED <<task, prov, queue, sub, can, rec>>
    BY CaptureEffect
  <1>2. prov.state \in Ended /\ job.named
    BY <1>0 DEF Capture, Knows
  <1>3. CASE UNCHANGED <<job, wallet>>
    <2>1. DataInv' /\ SubmitInv'
      BY <1>0, <1>1, <1>3, DataKept, SubmitKept DEF JobKept
    <2>q. QED
      BY <1>0, <1>1, <1>2, <1>3, <2>1, WorkerSteps
  <1>4. CASE /\ CaptureAllowed /\ wallet' = Captured /\ "capture" \notin wallet.claims
             /\ job' = [job EXCEPT !.status = "completed"]
    <2>1. job' \in Jobs /\ job'.status = "completed" /\ job'.named = job.named
      BY <1>0, <1>4 DEF Jobs
    <2>2. /\ wallet'.balance = wallet.balance + Hold - Cost /\ wallet'.frozen = wallet.frozen - Hold
          /\ wallet'.claims = wallet.claims \cup {"capture"}
          /\ wallet' = [balance |-> wallet'.balance, frozen |-> wallet'.frozen,
                        claims |-> wallet'.claims]
      BY <1>4 DEF Captured
    <2>3. "hold" \in wallet.claims /\ "release" \notin wallet.claims /\ job.status = "settling"
      BY <1>0, <1>2, <1>4 DEF SubmitInv, CaptureAllowed
    <2>4. Held /\ ~Held'
      BY <1>4, <2>2, <2>3 DEF Held
    <2>5. HoldAccounted'
      BY <1>0, <1>4, <2>2, <2>3, <2>4, BatchAssumption DEF HoldAccounted, Wallets, DataInv
    <2>6. wallet'.balance \in 0..Hold /\ wallet'.frozen \in 0..(OtherFrozen + Hold)
      BY <1>0, <1>4, <2>2, <2>3, <2>4, BatchAssumption DEF HoldAccounted, Wallets, DataInv
    <2>7. wallet' \in Wallets
      BY <1>0, <2>2, <2>6 DEF Wallets
    <2>8. CompletedIsCharged' /\ RefundedIsStopped' /\ ProviderInv'
      BY <1>1, <1>2, <2>1, <2>2, <2>3 DEF CompletedIsCharged, RefundedIsStopped, ProviderInv
    <2>9. SubmitInv'
      BY <1>0, <1>1, <1>2, <2>1, <2>2, <2>3 DEF SubmitInv
    <2>10. DataInv'
      BY <2>5, <2>8 DEF DataInv
    <2>q. QED
      BY <1>0, <1>1, <1>2, <2>1, <2>3, <2>7, <2>9, <2>10, WorkerSteps
  <1>q. QED
    BY <1>3, <1>4, CaptureEffect

\* A worker records the failure of a job whose hold was not captured.
LEMMA WorkerRecords ==
  ASSUME BatchInv, NEW w \in Workers, RecordFailure(w)
  PROVE  BatchInv'
  <1> USE DEF Go, WorkerPcs, Notes, PastProvider
  <1>0. /\ Types /\ Knows(wk[w]) /\ job \in Jobs /\ wallet \in Wallets /\ task \in Tasks
        /\ budget \in Budgets /\ UNCHANGED <<wallet, task, prov, queue, sub, can, rec>>
    BY DEF BatchInv, Types, KnowledgeInv, RecordFailure
  <1>1. budget' \in Budgets
    BY <1>0, FaultTyped DEF RecordFailure
  <1>2. prov.state \in Ended /\ job.named
    BY <1>0 DEF RecordFailure, Knows
  <1>3. job' \in Jobs /\ JobKept
    <2>1. CASE job' = job
      BY <1>0, <2>1 DEF JobKept
    <2>2. CASE job' = [job EXCEPT !.retry = IF job.retry < MaxRetries THEN job.retry + 1 ELSE job.retry]
      <3>1. (IF job.retry < MaxRetries THEN job.retry + 1 ELSE job.retry) \in 0..MaxRetries
        BY <1>0, BatchAssumption DEF Jobs
      <3>q. QED
        BY <1>0, <2>2, <3>1 DEF Jobs, JobKept
    <2>q. QED
      BY <2>1, <2>2 DEF RecordFailure
  <1>4. DataInv' /\ SubmitInv'
    BY <1>0, <1>3, DataKept, SubmitKept DEF BatchInv
  <1>5. \E to \in {"recheck", "requeue", "exhaustRelease"} : GoNote(w, to, "none")
    BY DEF RecordFailure
  <1>q. QED
    BY <1>0, <1>1, <1>2, <1>3, <1>4, <1>5, WorkerSteps DEF JobKept

(***************************************************************************)
(* Time, the queue's movers, the provider and the cleanup.                 *)
(***************************************************************************)
LEMMA QuietStep ==
  ASSUME BatchInv, job' \in Jobs, JobKept, prov' \in Provs, prov'.state = prov.state,
         queue' \in Queues, budget' \in Budgets, UNCHANGED <<wallet, task, processes>>
  PROVE  BatchInv'
  <1>1. Types'
    BY DEF BatchInv, Types
  <1>2. DataInv' /\ SubmitInv'
    BY DataKept, SubmitKept DEF BatchInv
  <1>3. KnowledgeInv'
    BY KnowledgeKept DEF BatchInv, JobKept
  <1>q. QED
    BY <1>1, <1>2, <1>3 DEF BatchInv

\* The loops of the queue move the job between its sets and change nothing else.
LEMMA QueueMoves ==
  ASSUME BatchInv,
         \/ MoveDueDelayed \/ RecoverStaleActive \/ ActiveAges \/ LockExpires
         \/ \E w \in Workers : Heartbeat(w)
  PROVE  BatchInv'
  <1>0. /\ job \in Jobs /\ prov \in Provs /\ queue \in Queues /\ budget \in Budgets
        /\ UNCHANGED <<job, wallet, task, prov, processes>>
        /\ NoFault \/ Stall
    BY DEF BatchInv, Types, MoveDueDelayed, RecoverStaleActive, ActiveAges, LockExpires, Heartbeat
  <1>1. budget' \in Budgets
    BY <1>0, FaultTyped
  <1>2. queue' \in Queues
    <2>1. CASE queue.ready < MaxReady /\ queue' = [queue EXCEPT !.delayed = FALSE, !.ready = queue.ready + 1]
      <3>1. queue.ready + 1 \in 0..MaxReady
        BY <1>0, <2>1, BatchAssumption DEF Queues
      <3>q. QED
        BY <1>0, <2>1, <3>1 DEF Queues
    <2>2. CASE queue.ready < MaxReady /\ queue' = [queue EXCEPT !.active = "no", !.ready = queue.ready + 1]
      <3>1. queue.ready + 1 \in 0..MaxReady
        BY <1>0, <2>2, BatchAssumption DEF Queues
      <3>q. QED
        BY <1>0, <2>2, <3>1 DEF Queues
    <2>3. CASE queue' = [queue EXCEPT !.active = "fresh"] \/ queue' = [queue EXCEPT !.active = "stale"]
      BY <1>0, <2>3 DEF Queues
    <2>4. CASE queue' = [queue EXCEPT !.lock = NoWorker]
      BY <1>0, <2>4 DEF Queues
    <2>q. QED
      BY <2>1, <2>2, <2>3, <2>4
      DEF MoveDueDelayed, RecoverStaleActive, ActiveAges, LockExpires, Heartbeat
  <1>q. QED
    BY <1>0, <1>1, <1>2, QuietStep DEF JobKept

\* Heartbeats, age and the provider's own progress keep the invariant.
LEMMA RowAndProvider ==
  ASSUME BatchInv, Touch \/ RowAges \/ ProviderEnds \/ DeleteOutput
  PROVE  BatchInv'
  <1>0. /\ job \in Jobs /\ prov \in Provs /\ queue \in Queues /\ budget \in Budgets
        /\ wallet \in Wallets /\ task \in Tasks
        /\ UNCHANGED <<wallet, task, queue, processes>>
        /\ NoFault \/ Stall
    BY DEF BatchInv, Types, Touch, RowAges, ProviderEnds, DeleteOutput
  <1>1. budget' \in Budgets
    BY <1>0, FaultTyped
  <1>2. CASE Touch \/ RowAges
    <2>1. job' \in Jobs /\ JobKept /\ UNCHANGED prov
      BY <1>0, <1>2 DEF Touch, RowAges, Jobs, JobKept
    <2>q. QED
      BY <1>0, <1>1, <2>1, QuietStep
  <1>3. CASE ProviderEnds
    <2>1. /\ UNCHANGED job /\ prov' \in Provs /\ prov.state = "running" /\ prov'.state \in Ended
      BY <1>0, <1>3 DEF ProviderEnds, Provs
    <2>2. Types'
      BY <1>0, <1>1, <2>1 DEF BatchInv, Types
    <2>3. DataInv'
      BY <1>0, <2>1 DEF BatchInv, DataInv, HoldAccounted, Held, CompletedIsCharged,
                        RefundedIsStopped, ProviderInv
    <2>4. SubmitInv'
      BY <1>0, <2>1 DEF BatchInv, SubmitInv
    <2>5. KnowledgeInv'
      BY <1>0, <2>1, KnowledgeKept DEF BatchInv
    <2>q. QED
      BY <2>2, <2>3, <2>4, <2>5 DEF BatchInv
  <1>4. CASE DeleteOutput
    <2>1. /\ job' \in Jobs /\ job.status = "completed" /\ job'.status = "output_deleted"
          /\ job'.named = job.named /\ UNCHANGED prov
      BY <1>0, <1>4 DEF DeleteOutput, Jobs
    <2>2. Types'
      BY <1>0, <1>1, <2>1 DEF BatchInv, Types
    <2>3. DataInv'
      BY <1>0, <2>1 DEF BatchInv, DataInv, HoldAccounted, Held, CompletedIsCharged,
                        RefundedIsStopped, ProviderInv
    <2>4. SubmitInv'
      BY <1>0, <2>1 DEF BatchInv, SubmitInv
    <2>5. KnowledgeInv'
      BY <1>0, <2>1, KnowledgeKept DEF BatchInv
    <2>q. QED
      BY <2>2, <2>3, <2>4, <2>5 DEF BatchInv
  <1>q. QED
    BY <1>2, <1>3, <1>4

-----------------------------------------------------------------------------
(***************************************************************************)
(* A step of the submission, a cancellation or the recovery.               *)
(***************************************************************************)
LEMMA ProcessSteps ==
  ASSUME BatchInv, job' \in Jobs, wallet' \in Wallets, task' \in Tasks, prov' \in Provs,
         queue' \in Queues, budget' \in Budgets, sub' \in SubPcs, can' \in CanPcs,
         rec' \in RecPcs, UNCHANGED wk, DataInv', SubmitInv',
         prov.state \in Ended => prov'.state \in Ended,
         job.named => job'.named,
         job.status = "failed" => job'.status = "failed",
         job.status \in Refused => job'.status \in Refused,
         job.status \in Charged => job'.status \in Charged,
         can' = can \/ (can' \in {"task", "hold", "newTask", "newHold"} => job'.status \in Refused),
         can' = can \/ (can' = "taskOnly" => job'.status \in Charged),
         rec' = rec \/ (rec' = "release" => job'.status = "failed")
  PROVE  BatchInv'
  <1>1. Types'
    BY DEF BatchInv, Types
  <1>2. KnowledgeInv'
    BY DEF BatchInv, KnowledgeInv, Knows
  <1>q. QED
    BY <1>1, <1>2 DEF BatchInv

\* Every step of a cancellation keeps the invariant.
LEMMA CancelSteps ==
  ASSUME BatchInv, CancelRead \/ Cancel \/ CancelStops
  PROVE  BatchInv'
  <1>0. /\ job \in Jobs /\ wallet \in Wallets /\ task \in Tasks /\ prov \in Provs
        /\ queue \in Queues /\ budget \in Budgets /\ sub \in SubPcs /\ can \in CanPcs
        /\ rec \in RecPcs /\ KnowledgeInv /\ SubmitInv /\ DataInv
        /\ UNCHANGED <<sub, rec, wk>>
    BY DEF BatchInv, Types, CancelRead, Cancel, CancelTransition, CancelTask, CancelHold,
           CancelProvider, CancelEnqueue, CancelStops
  <1> USE DEF CanPcs
  <1>1. CASE CancelRead
    <2>1. UNCHANGED <<job, wallet, task, prov, queue>>
      BY <1>1 DEF CancelRead
    <2>2. budget' \in Budgets
      BY <1>0, <1>1, BatchAssumption DEF CancelRead, Budgets
    <2>3. DataInv' /\ SubmitInv'
      BY <1>0, <2>1, DataKept, SubmitKept DEF JobKept
    <2>4. /\ can' \in CanPcs
          /\ can' \in {"task", "hold", "newTask", "newHold"} => job.status \in Refused
          /\ can' = "taskOnly" => job.status \in Charged
      BY <1>1 DEF CancelRead
    <2>q. QED
      BY <1>0, <2>1, <2>2, <2>3, <2>4, ProcessSteps
  <1>2. CASE CancelTransition
    <2>1. PICK r \in Results : Transition("cancelled", r) /\ can' = IF r = "ok" THEN "newTask" ELSE "idle"
      BY <1>2 DEF CancelTransition
    <2>2. UNCHANGED <<wallet, task, prov, queue>>
      BY <1>2 DEF CancelTransition
    <2>3. /\ job' \in Jobs /\ budget' \in Budgets /\ job'.named = job.named
          /\ \/ /\ r # "refused" /\ CanTransition(job.status, "cancelled")
                /\ job'.status = "cancelled"
             \/ r # "ok" /\ job' = job
      BY <1>0, <2>1, TransitionEffect
    <2>4. CASE CanTransition(job.status, "cancelled") /\ job'.status = "cancelled"
      <3>1. DataInv'
        BY <1>0, <2>2, <2>3, <2>4, Transitioned
      <3>2. sub # "idle" /\ job.status \notin Terminal
        BY <1>0, <2>3, <2>4 DEF SubmitInv, CanTransition
      <3>3. SubmitInv'
        BY <1>0, <2>2, <2>3, <2>4, <3>2, SubmitTransitioned
      <3>q. QED
        BY <1>0, <2>1, <2>2, <2>3, <2>4, <3>1, <3>2, <3>3, ProcessSteps
    <2>5. CASE r # "ok" /\ job' = job
      <3>1. DataInv' /\ SubmitInv'
        BY <1>0, <2>2, <2>3, <2>5, DataKept, SubmitKept DEF JobKept
      <3>q. QED
        BY <1>0, <2>1, <2>2, <2>3, <2>5, <3>1, ProcessSteps
    <2>q. QED
      BY <2>3, <2>4, <2>5
  <1>3. CASE CancelTask
    <2>1. UNCHANGED <<job, wallet, prov, queue>> /\ job.status \in Refused \cup Charged
      BY <1>0, <1>3 DEF CancelTask, KnowledgeInv
    <2>2. budget' \in Budgets
      BY <1>0, <1>3, FaultTyped DEF CancelTask
    <2>3. task' \in Tasks /\ DataInv' /\ SubmitInv'
      <3>1. CASE ReleaseTask(FALSE)
        BY <1>0, <2>1, <3>1, TaskReleased
      <3>2. CASE UNCHANGED task
        BY <1>0, <2>1, <3>2, DataKept, SubmitKept DEF JobKept
      <3>q. QED
        BY <1>3, <3>1, <3>2 DEF CancelTask
    <2>4. /\ can' \in {"hold", "newHold", "idle"}
          /\ can' \in {"hold", "newHold"} => job.status \in Refused
      BY <1>0, <1>3 DEF CancelTask, KnowledgeInv
    <2>q. QED
      BY <1>0, <2>1, <2>2, <2>3, <2>4, ProcessSteps
  <1>4. CASE CancelHold
    <2>1. UNCHANGED <<job, task, prov, queue>> /\ job.status \in Refused
      BY <1>0, <1>4 DEF CancelHold, KnowledgeInv
    <2>2. PICK r \in Results : ReleaseHold(r) /\ can' \in {"enqueue", "idle"}
      BY <1>4 DEF CancelHold
    <2>3. /\ wallet' \in Wallets /\ budget' \in Budgets /\ DataInv'
          /\ wallet'.claims \in {wallet.claims, wallet.claims \cup {"release"}}
      BY <2>1, <2>2, HoldReleased
    <2>4. SubmitInv'
      BY <1>0, <2>1, <2>3 DEF SubmitInv
    <2>q. QED
      BY <1>0, <2>1, <2>2, <2>3, <2>4, ProcessSteps
  <1>5. CASE CancelProvider \/ CancelEnqueue \/ CancelStops
    <2>1. /\ UNCHANGED <<job, wallet, task>> /\ can' \in {"idle", "enqueue"}
          /\ prov' \in Provs /\ prov'.state = prov.state
      BY <1>0, <1>5 DEF CancelProvider, CancelEnqueue, CancelStops, Provs
    <2>2. queue' \in Queues /\ budget' \in Budgets
      BY <1>0, <1>5, FaultTyped, EnqueueEffect DEF CancelProvider, CancelEnqueue, CancelStops
    <2>3. DataInv' /\ SubmitInv'
      BY <1>0, <2>1, DataKept, SubmitKept DEF JobKept
    <2>q. QED
      BY <1>0, <2>1, <2>2, <2>3, ProcessSteps
  <1>q. QED
    BY <1>1, <1>2, <1>3, <1>4, <1>5 DEF Cancel

\* Every step of the recovery of stale submissions keeps the invariant.
LEMMA RecoverSteps ==
  ASSUME BatchInv, Recover \/ RecoverStops
  PROVE  BatchInv'
  <1>0. /\ job \in Jobs /\ wallet \in Wallets /\ task \in Tasks /\ prov \in Provs
        /\ queue \in Queues /\ budget \in Budgets /\ sub \in SubPcs /\ can \in CanPcs
        /\ rec \in RecPcs /\ KnowledgeInv /\ SubmitInv /\ DataInv
        /\ UNCHANGED <<sub, can, wk, prov, task>>
    BY DEF BatchInv, Types, Recover, RecoverList, FailStale, RecoverRelease, RecoverEnqueue,
           RecoverStops
  <1> USE DEF RecPcs
  <1>1. CASE \/ RecoverList \/ RecoverEnqueue \/ RecoverStops
             \/ FailStale /\ UNCHANGED job /\ rec' = "idle" /\ (NoFault \/ Fault)
    <2>1. UNCHANGED <<job, wallet>> /\ rec' \in {"idle", "fail"}
      BY <1>1 DEF RecoverList, RecoverEnqueue, RecoverStops, FailStale
    <2>2. queue' \in Queues /\ budget' \in Budgets
      BY <1>0, <1>1, FaultTyped, EnqueueEffect
      DEF RecoverList, RecoverEnqueue, RecoverStops, FailStale
    <2>3. DataInv' /\ SubmitInv'
      BY <1>0, <2>1, DataKept, SubmitKept DEF JobKept
    <2>q. QED
      BY <1>0, <2>1, <2>2, <2>3, ProcessSteps
  <1>2. CASE FailStale /\ Stale /\ job' = [job EXCEPT !.status = "failed", !.fresh = TRUE]
             /\ rec' \in {"release", "idle"} /\ (NoFault \/ Crash)
    <2>1. /\ job' \in Jobs /\ job'.status = "failed" /\ job'.named = job.named /\ ~job.named
          /\ job.status \in Unsubmitted /\ UNCHANGED <<wallet, queue>> /\ budget' \in Budgets
      BY <1>0, <1>2, FaultTyped DEF Jobs, FailStale, Stale
    <2>2. CanTransition(job.status, "failed")
      BY <2>1 DEF CanTransition
    <2>3. DataInv'
      BY <1>0, <2>1, <2>2, Transitioned
    <2>4. sub # "idle"
      BY <1>0, <2>1 DEF SubmitInv
    <2>5. SubmitInv'
      BY <1>0, <2>1, <2>2, <2>4, SubmitTransitioned
    <2>q. QED
      BY <1>0, <1>2, <2>1, <2>3, <2>5, ProcessSteps
  <1>3. CASE RecoverRelease
    <2>1. UNCHANGED <<job, queue>> /\ job.status = "failed"
      BY <1>0, <1>3 DEF RecoverRelease, KnowledgeInv
    <2>2. PICK r \in Results : ReleaseHold(r) /\ rec' = IF r = "ok" THEN "idle" ELSE "enqueue"
      BY <1>3 DEF RecoverRelease
    <2>3. /\ wallet' \in Wallets /\ budget' \in Budgets /\ DataInv'
          /\ wallet'.claims \in {wallet.claims, wallet.claims \cup {"release"}}
      BY <1>0, <2>1, <2>2, HoldReleased
    <2>4. SubmitInv'
      BY <1>0, <2>1, <2>3 DEF SubmitInv
    <2>q. QED
      BY <1>0, <2>1, <2>2, <2>3, <2>4, ProcessSteps
  <1>q. QED
    BY <1>1, <1>2, <1>3 DEF Recover, FailStale

(***************************************************************************)
(* The submission.  Each group of its steps touches one thing: nothing but *)
(* where it is, the row, the hold, the reservation, or the provider.       *)
(***************************************************************************)
LEMMA SubmitWaits ==
  ASSUME BatchInv,
         \/ SubmitItems \/ SubmitEnqueueRelease \/ SubmitHide \/ SubmitEnqueue \/ SubmitAbort
         \/ SubmitReplay
  PROVE  BatchInv'
  <1>0. /\ job \in Jobs /\ wallet \in Wallets /\ task \in Tasks /\ prov \in Provs
        /\ queue \in Queues /\ budget \in Budgets /\ sub \in SubPcs /\ can \in CanPcs
        /\ rec \in RecPcs /\ SubmitInv /\ DataInv
        /\ UNCHANGED <<can, rec, wk, wallet, task>>
    BY DEF BatchInv, Types, SubmitItems, SubmitEnqueueRelease, SubmitHide, SubmitEnqueue,
           SubmitAbort, SubmitReplay
  <1>1. /\ job' \in Jobs /\ JobKept /\ prov' \in Provs /\ prov'.state = prov.state
        /\ sub' \in SubPcs
    BY <1>0 DEF SubmitItems, SubmitEnqueueRelease, SubmitHide, SubmitEnqueue, SubmitAbort,
                SubmitReplay, Jobs, Provs, JobKept, SubPcs
  <1>2. queue' \in Queues /\ budget' \in Budgets
    BY <1>0, FaultTyped, EnqueueEffect
    DEF SubmitItems, SubmitEnqueueRelease, SubmitHide, SubmitEnqueue, SubmitAbort, SubmitReplay
  <1>3. DataInv'
    BY <1>0, <1>1, DataKept
  <1>4. SubmitInv'
    BY <1>0, <1>1
    DEF SubmitInv, JobKept, SubmitItems, SubmitEnqueueRelease, SubmitHide, SubmitEnqueue,
        SubmitAbort, SubmitReplay
  <1>q. QED
    BY <1>0, <1>1, <1>2, <1>3, <1>4, ProcessSteps DEF JobKept

\* The steps in which Submit writes the row keep the invariant.
LEMMA SubmitRow ==
  ASSUME BatchInv,
         SubmitHoldFailed \/ SubmitRecordFailure \/ SubmitUpload \/ SubmitIntentFail
  PROVE  BatchInv'
  <1>0. /\ job \in Jobs /\ wallet \in Wallets /\ task \in Tasks /\ prov \in Provs
        /\ queue \in Queues /\ budget \in Budgets /\ sub \in SubPcs /\ can \in CanPcs
        /\ rec \in RecPcs /\ SubmitInv /\ DataInv
        /\ UNCHANGED <<can, rec, wk, wallet, task, prov, queue>>
    BY DEF BatchInv, Types, SubmitHoldFailed, SubmitRecordFailure, SubmitUpload, SubmitIntentFail
  <1>1. ~job.named /\ job.status \notin Known /\ sub # "idle"
    BY <1>0 DEF SubmitInv, SubmitHoldFailed, SubmitRecordFailure, SubmitUpload, SubmitIntentFail
  <1>2. CASE SubmitHoldFailed \/ SubmitRecordFailure
    <2>1. /\ job' \in Jobs /\ budget' \in Budgets /\ job'.named = job.named
          /\ job'.status \in {job.status, "failed"}
      BY <1>0, <1>2, FailureEffect DEF SubmitHoldFailed, SubmitRecordFailure
    <2>2. DataInv'
      BY <1>0, <1>1, <2>1 DEF DataInv, HoldAccounted, Held, CompletedIsCharged,
                              RefundedIsStopped, ProviderInv
    <2>3. sub' \in {"holdHide", "hide", "stuckEnqueue"}
      BY <1>2 DEF SubmitHoldFailed, SubmitRecordFailure
    <2>4. SubmitInv'
      BY <1>0, <1>1, <2>1, <2>3 DEF SubmitInv
    <2>5. sub' \in SubPcs
      BY <2>3 DEF SubPcs
    <2>q. QED
      BY <1>0, <1>1, <2>1, <2>2, <2>4, <2>5, ProcessSteps
  <1>3. CASE SubmitUpload \/ SubmitIntentFail
    <2>1. PICK r \in Results, to \in {"uploading", "failed"} :
              /\ Transition(to, r)
              /\ \/ sub = "upload" /\ to = "uploading" /\ r = "ok" /\ sub' = "intent"
                 \/ sub = "upload" /\ to = "uploading" /\ r # "ok" /\ sub' \in {"releaseOnly", "release"}
                 \/ sub # "upload" /\ to = "failed" /\ sub' \in {"stuckEnqueue", "hide", "return"}
      BY <1>3 DEF SubmitUpload, SubmitIntentFail
    <2>2. /\ job' \in Jobs /\ budget' \in Budgets /\ job'.named = job.named
          /\ \/ r # "refused" /\ CanTransition(job.status, to) /\ job'.status = to
             \/ r # "ok" /\ job' = job
      BY <1>0, <2>1, TransitionEffect
    <2>3. DataInv'
      <3>1. CASE CanTransition(job.status, to) /\ job'.status = to
        BY <1>0, <1>1, <2>2, <3>1, Transitioned
      <3>2. CASE job' = job
        BY <1>0, <2>2, <3>2, DataKept DEF JobKept
      <3>q. QED
        BY <2>2, <3>1, <3>2
    <2>4. SubmitInv'
      BY <1>0, <1>1, <2>1, <2>2 DEF SubmitInv, CanTransition
    <2>5. sub' \in SubPcs
      BY <2>1 DEF SubPcs
    <2>6. job' = job \/ job.status \notin Terminal
      BY <2>2 DEF CanTransition
    <2>q. QED
      BY <1>0, <2>2, <2>3, <2>4, <2>5, <2>6, ProcessSteps
  <1>q. QED
    BY <1>2, <1>3

\* The steps in which Submit moves money keep the invariant.
LEMMA SubmitWallet ==
  ASSUME BatchInv, SubmitHold \/ SubmitReleaseHold \/ SubmitIntentRelease
  PROVE  BatchInv'
  <1>0. /\ job \in Jobs /\ wallet \in Wallets /\ task \in Tasks /\ prov \in Provs
        /\ queue \in Queues /\ budget \in Budgets /\ sub \in SubPcs /\ can \in CanPcs
        /\ rec \in RecPcs /\ SubmitInv /\ DataInv
        /\ UNCHANGED <<can, rec, wk, job, task, prov, queue>>
    BY DEF BatchInv, Types, SubmitHold, SubmitReleaseHold, SubmitIntentRelease
  <1>1. ~job.named /\ job.status \notin Known
    BY <1>0 DEF SubmitInv, SubmitHold, SubmitReleaseHold, SubmitIntentRelease
  <1>2. CASE SubmitHold
    <2>1. PICK r \in Results : ReserveHold(r) /\ sub' = IF r = "ok" THEN "items" ELSE "holdFail"
      BY <1>2 DEF SubmitHold
    <2>2. /\ sub = "hold" /\ "hold" \notin wallet.claims /\ "capture" \notin wallet.claims
          /\ job.status \in Unsubmitted => "release" \notin wallet.claims
      BY <1>0, <1>1, <1>2 DEF SubmitHold, SubmitInv, DataInv, CompletedIsCharged
    <2>3. /\ wallet' \in Wallets /\ budget' \in Budgets /\ HoldAccounted'
          /\ \/ r # "ok" /\ wallet'.claims = wallet.claims
             \/ wallet'.claims = wallet.claims \cup {"hold"} /\ job.status \in Unsubmitted
      BY <1>0, <2>1, <2>2, ReserveEffect DEF DataInv
    <2>4. CompletedIsCharged' /\ RefundedIsStopped' /\ ProviderInv'
      BY <1>0, <1>1, <2>3 DEF DataInv, CompletedIsCharged, RefundedIsStopped, ProviderInv
    <2>5. SubmitInv'
      BY <1>0, <1>1, <2>1, <2>2, <2>3 DEF SubmitInv
    <2>6. sub' \in SubPcs
      BY <2>1 DEF SubPcs
    <2>q. QED
      BY <1>0, <2>3, <2>4, <2>5, <2>6, ProcessSteps DEF DataInv
  <1>3. CASE SubmitReleaseHold \/ SubmitIntentRelease
    <2>1. PICK r \in Results : ReleaseHold(r)
      BY <1>3 DEF SubmitReleaseHold, SubmitIntentRelease
    <2>2. sub' \in {"stuck", "record", "return", "intentFail", "intentStuck"}
      BY <1>3 DEF SubmitReleaseHold, SubmitIntentRelease
    <2>3. /\ wallet' \in Wallets /\ budget' \in Budgets /\ DataInv'
          /\ wallet'.claims \in {wallet.claims, wallet.claims \cup {"release"}}
      BY <1>0, <1>1, <2>1, HoldReleased
    <2>4. SubmitInv'
      BY <1>0, <1>1, <2>2, <2>3 DEF SubmitInv
    <2>5. sub' \in SubPcs
      BY <2>2 DEF SubPcs
    <2>q. QED
      BY <1>0, <2>3, <2>4, <2>5, ProcessSteps
  <1>q. QED
    BY <1>2, <1>3

\* Binding the capacity to the provider's job, and the ends of Submit, keep the invariant.
LEMMA SubmitReservation ==
  ASSUME BatchInv,
         SubmitBind \/ SubmitIntent \/ SubmitBindAgain \/ SubmitReturn \/ SubmitStops
  PROVE  BatchInv'
  <1>0. /\ job \in Jobs /\ wallet \in Wallets /\ task \in Tasks /\ prov \in Provs
        /\ queue \in Queues /\ budget \in Budgets /\ sub \in SubPcs /\ can \in CanPcs
        /\ rec \in RecPcs /\ SubmitInv /\ DataInv
        /\ UNCHANGED <<can, rec, wk, job, wallet, prov, queue>>
    BY DEF BatchInv, Types, SubmitBind, SubmitIntent, SubmitBindAgain, SubmitReturn, SubmitStops
  <1>1. budget' \in Budgets
    BY <1>0, FaultTyped DEF SubmitBind, SubmitIntent, SubmitBindAgain, SubmitReturn, SubmitStops
  <1>2. task' \in Tasks
    BY <1>0 DEF SubmitBind, SubmitIntent, SubmitBindAgain, SubmitReturn, SubmitStops, Tasks
  <1>3. sub' \in SubPcs
    BY DEF SubmitBind, SubmitIntent, SubmitBindAgain, SubmitReturn, SubmitStops, SubPcs
  <1>4. ProviderInv'
    BY <1>0
    DEF DataInv, ProviderInv, SubmitInv, SubmitBind, SubmitIntent, SubmitBindAgain, SubmitReturn,
        SubmitStops, UpstreamStarted, Gone
  <1>5. HoldAccounted' /\ CompletedIsCharged' /\ RefundedIsStopped'
    BY <1>0 DEF DataInv, HoldAccounted, Held, CompletedIsCharged, RefundedIsStopped
  <1>6. SubmitInv'
    BY <1>0 DEF SubmitInv, SubmitBind, SubmitIntent, SubmitBindAgain, SubmitReturn, SubmitStops, Gone
  <1>q. QED
    BY <1>0, <1>1, <1>2, <1>3, <1>4, <1>5, <1>6, ProcessSteps DEF DataInv

\* Creating the row and the provider's job keeps the invariant.
LEMMA SubmitCreates ==
  ASSUME BatchInv, SubmitCreate \/ SubmitProvider \/ SubmitName
  PROVE  BatchInv'
  <1>0. /\ job \in Jobs /\ wallet \in Wallets /\ task \in Tasks /\ prov \in Provs
        /\ queue \in Queues /\ budget \in Budgets /\ sub \in SubPcs /\ can \in CanPcs
        /\ rec \in RecPcs /\ SubmitInv /\ DataInv
        /\ UNCHANGED <<can, rec, wk, wallet, queue>>
    BY DEF BatchInv, Types, SubmitCreate, SubmitProvider, SubmitName
  <1>1. budget' \in Budgets
    BY <1>0, FaultTyped DEF SubmitCreate, SubmitProvider, SubmitName
  <1>2. sub' \in SubPcs
    BY DEF SubmitCreate, SubmitProvider, SubmitName, SubPcs
  <1>3. CASE SubmitCreate
    <2>1. /\ job' \in Jobs /\ job'.status = "created" /\ job'.named = job.named
          /\ task' = "reserved" /\ UNCHANGED prov /\ sub = "idle" /\ sub' = "bind"
      BY <1>0, <1>3 DEF SubmitCreate, Jobs
    <2>2. ~job.named /\ job.status = "none" /\ wallet.claims = {} /\ prov.state = "none"
      BY <1>0, <2>1 DEF SubmitInv
    <2>3. DataInv'
      BY <1>0, <2>1, <2>2 DEF DataInv, HoldAccounted, Held, CompletedIsCharged,
                              RefundedIsStopped, ProviderInv
    <2>4. SubmitInv'
      BY <1>0, <2>1, <2>2 DEF SubmitInv
    <2>5. task' \in Tasks
      BY <2>1 DEF Tasks
    <2>q. QED
      BY <1>0, <1>1, <1>2, <2>1, <2>2, <2>3, <2>4, <2>5, ProcessSteps
  <1>4. CASE SubmitProvider
    <2>1. /\ prov' \in Provs /\ prov'.state \in {prov.state, "running"} /\ UNCHANGED <<job, task>>
          /\ sub = "submit" /\ sub' \in {"name", "release"}
      BY <1>0, <1>4 DEF SubmitProvider, Provs
    <2>2. ~job.named /\ task = "uncertain" /\ prov.state = "none" /\ job.status \notin Known
      BY <1>0, <2>1 DEF SubmitInv
    <2>3. DataInv'
      BY <1>0, <2>1, <2>2 DEF DataInv, HoldAccounted, Held, CompletedIsCharged,
                              RefundedIsStopped, ProviderInv
    <2>4. SubmitInv'
      BY <1>0, <2>1, <2>2 DEF SubmitInv
    <2>q. QED
      BY <1>0, <1>1, <1>2, <2>1, <2>2, <2>3, <2>4, ProcessSteps
  <1>5. CASE SubmitName
    <2>1. UNCHANGED <<task, prov>> /\ sub = "name"
      BY <1>5 DEF SubmitName
    <2>2. CASE UNCHANGED job /\ sub' = "abort"
      <3>1. DataInv'
        BY <1>0, <2>1, <2>2, DataKept DEF JobKept
      <3>2. SubmitInv'
        BY <1>0, <2>1, <2>2 DEF SubmitInv
      <3>q. QED
        BY <1>0, <1>1, <1>2, <2>1, <2>2, <3>1, <3>2, ProcessSteps
    <2>3. CASE /\ CanTransition(job.status, "submitted") /\ sub' \in {"bindAgain", "abort"}
               /\ job' = [job EXCEPT !.status = "submitted", !.named = TRUE, !.fresh = TRUE]
      <3>1. job' \in Jobs /\ job'.status = "submitted" /\ job'.named
        BY <1>0, <2>3 DEF Jobs
      <3>2. /\ job.status \in Unsubmitted /\ "release" \notin wallet.claims
            /\ "hold" \in wallet.claims /\ ~job.named
        BY <1>0, <2>1, <2>3 DEF CanTransition, SubmitInv
      <3>3. DataInv'
        BY <1>0, <2>1, <3>1, <3>2 DEF DataInv, HoldAccounted, Held, CompletedIsCharged,
                                      RefundedIsStopped, ProviderInv
      <3>4. SubmitInv'
        BY <1>0, <2>1, <2>3, <3>1, <3>2 DEF SubmitInv
      <3>q. QED
        BY <1>0, <1>1, <1>2, <2>1, <3>1, <3>2, <3>3, <3>4, ProcessSteps
    <2>q. QED
      BY <1>5, <2>2, <2>3 DEF SubmitName
  <1>q. QED
    BY <1>3, <1>4, <1>5

-----------------------------------------------------------------------------
(***************************************************************************)
(* The invariant holds at first, and every step keeps it.                  *)
(***************************************************************************)
LEMMA BatchInit == Init => BatchInv
  <1> SUFFICES ASSUME Init PROVE BatchInv
    OBVIOUS
  <1>1. wallet \in Wallets /\ budget \in Budgets
    BY BatchAssumption DEF Init, Wallets, Budgets
  <1>2. job \in Jobs /\ prov \in Provs /\ queue \in Queues /\ task \in Tasks
    BY BatchAssumption DEF Init, Jobs, Provs, Queues, Tasks
  <1>3. wk \in [Workers -> WorkerStates]
    BY DEF Init, WorkerStates, WorkerPcs, Notes
  <1>4. Types
    BY <1>1, <1>2, <1>3 DEF Types, Init, SubPcs, CanPcs, RecPcs
  <1>5. DataInv
    BY BatchAssumption
    DEF Init, DataInv, HoldAccounted, Held, CompletedIsCharged, RefundedIsStopped, ProviderInv
  <1>6. SubmitInv /\ KnowledgeInv
    BY DEF Init, SubmitInv, KnowledgeInv, Knows, PastProvider
  <1>q. QED
    BY <1>4, <1>5, <1>6 DEF BatchInv

\* Every step keeps the invariant.
LEMMA BatchStep == BatchInv /\ [Next]_vars => BatchInv'
  <1> SUFFICES ASSUME BatchInv, [Next]_vars PROVE BatchInv'
    OBVIOUS
  <1>1. CASE Submit \/ SubmitStops \/ SubmitReplay
    BY <1>1, SubmitWaits, SubmitRow, SubmitWallet, SubmitReservation, SubmitCreates DEF Submit
  <1>2. CASE CancelRead \/ Cancel \/ CancelStops
    BY <1>2, CancelSteps
  <1>3. CASE Recover \/ RecoverStops
    BY <1>3, RecoverSteps
  <1>4. ASSUME NEW w \in Workers, Worker(w) \/ SlotRefused(w) \/ WorkerError(w) \/ WorkerStops(w)
        PROVE  BatchInv'
    BY <1>4, WorkerReads, WorkerQueues, WorkerReleases, WorkerTransitions, WorkerCaptures,
       WorkerRecords DEF Worker
  <1>5. CASE \/ MoveDueDelayed \/ RecoverStaleActive \/ ActiveAges \/ LockExpires
             \/ \E w \in Workers : Heartbeat(w)
    BY <1>5, QueueMoves
  <1>6. CASE Touch \/ RowAges \/ ProviderEnds \/ DeleteOutput
    BY <1>6, RowAndProvider
  <1>7. CASE UNCHANGED vars
    <2>1. Types'
      BY <1>7 DEF vars, BatchInv, Types
    <2>2. DataInv' /\ SubmitInv' /\ KnowledgeInv'
      BY <1>7, DataKept, SubmitKept, KnowledgeKept DEF vars, BatchInv, JobKept
    <2>q. QED
      BY <2>1, <2>2 DEF BatchInv
  <1>q. QED
    BY <1>1, <1>2, <1>3, <1>4, <1>5, <1>6, <1>7 DEF Next

\* The invariant holds in every behaviour.
LEMMA BatchInvariant == Spec => []BatchInv
  BY BatchInit, BatchStep, PTL DEF Spec

-----------------------------------------------------------------------------
(***************************************************************************)
(* The late Cancel is the only one that frees a running batch.             *)
(***************************************************************************)
LEMMA LateKept ==
  ASSUME LateInv, UNCHANGED <<sub, can>>, prov'.cancel = prov.cancel, job'.named = job.named,
         prov'.state = "running" =>
            /\ prov.state = "running"
            /\ task = "uncertain" => task' = "uncertain"
            /\ job'.status = "cancelled" => job.status = "cancelled"
  PROVE  LateInv'
  BY DEF LateInv

\* A worker frees an uncertain reservation, and cancels the row, only when
\* the provider is done.
LEMMA WorkersLate ==
  ASSUME BatchInv, LateInv, NEW w \in Workers,
         Worker(w) \/ SlotRefused(w) \/ WorkerError(w) \/ WorkerStops(w) \/ Heartbeat(w)
  PROVE  LateInv'
  <1>0. job \in Jobs /\ budget \in Budgets /\ Knows(wk[w])
    BY DEF BatchInv, Types, KnowledgeInv
  <1>1. CASE WorkerTransition(w)
    <2>1. PICK from \in {"toRunning", "toIndexing", "toFailed", "toCancelled", "indexFailed",
                         "toSettling", "exhaustFail"},
               to \in {"running", "indexing", "failed", "cancelled", "settling"}, r \in Results :
              /\ wk[w].pc = from /\ Transition(to, r)
              /\ to = "cancelled" => from = "toCancelled"
      BY <1>1 DEF WorkerTransition
    <2>2. job'.named = job.named /\ (job'.status = to \/ job' = job)
      BY <1>0, <2>1, TransitionEffect
    <2>3. to = "cancelled" => prov.state \in Ended
      BY <1>0, <2>1 DEF Knows, PastProvider
    <2>q. QED
      BY <1>1, <2>2, <2>3, LateKept DEF WorkerTransition
  <1>2. CASE WorkerReleaseTask(w)
    <2>1. prov.state = "running" /\ task = "uncertain" => task' = "uncertain"
      BY <1>0, <1>2 DEF WorkerReleaseTask, ReleaseTask, Knows, PastProvider
    <2>q. QED
      BY <1>2, <2>1, LateKept DEF WorkerReleaseTask
  <1>3. CASE Capture(w) \/ RecordFailure(w)
    <2>1. job'.named = job.named /\ (job'.status = job.status \/ job'.status = "completed")
      BY <1>0, <1>3 DEF Capture, RecordFailure, Jobs
    <2>q. QED
      BY <1>3, <2>1, LateKept DEF Capture, RecordFailure
  <1>4. CASE ~(WorkerTransition(w) \/ WorkerReleaseTask(w) \/ Capture(w) \/ RecordFailure(w))
    BY <1>4, LateKept
    DEF Worker, WorkerReserve, TryAcquireJobLock, PipelineRead, ProcessRead, TerminalHold, Admit,
        Poll, Index, SettleRead, MarkSettled, ExhaustRelease, Recheck, RequeueAfter, Ack, Unlock,
        SlotRefused, WorkerError, WorkerStops, Heartbeat
  <1>q. QED
    BY <1>1, <1>2, <1>3, <1>4

\* A Cancel that knows the provider's job asks the provider first.
LEMMA CancelsLate ==
  ASSUME BatchInv, LateInv, CancelRead \/ Cancel \/ CancelStops
  PROVE  LateInv'
  <1>0. job \in Jobs /\ prov \in Provs /\ budget \in Budgets /\ SubmitInv
    BY DEF BatchInv, Types
  <1>1. CASE CancelRead
    BY <1>1 DEF CancelRead, LateInv
  <1>2. CASE CancelTransition
    <2>1. /\ can = "transition" /\ can' \in {"idle", "newTask"}
          /\ UNCHANGED <<wallet, task, prov, queue, sub, rec, wk>>
          /\ \E r \in Results : Transition("cancelled", r)
      BY <1>2 DEF CancelTransition
    <2>2. job'.named = job.named /\ job'.status \in {job.status, "cancelled"}
      BY <1>0, <2>1, TransitionEffect
    <2>q. QED
      BY <2>1, <2>2 DEF LateInv
  <1>3. CASE CancelTask
    <2>1. /\ can' \in {"idle", "hold", "newHold"} /\ UNCHANGED <<job, prov, sub>>
          /\ task = "uncertain" => task' = "uncertain"
      BY <1>3 DEF CancelTask, ReleaseTask
    <2>q. QED
      BY <2>1 DEF LateInv
  <1>4. CASE CancelProvider
    <2>1. /\ can = "provider" /\ can' \in {"enqueue", "idle"} /\ UNCHANGED <<job, task, sub>>
          /\ prov'.state = prov.state
      BY <1>0, <1>4 DEF CancelProvider, Provs
    <2>q. QED
      BY <1>0, <2>1 DEF LateInv, SubmitInv
  <1>5. CASE CancelHold \/ CancelEnqueue \/ CancelStops
    BY <1>5 DEF CancelHold, CancelEnqueue, CancelStops, LateInv
  <1>q. QED
    BY <1>1, <1>2, <1>3, <1>4, <1>5 DEF Cancel

\* A submission that asks the provider to stop has left its reservation
\* uncertain.
LEMMA SubmitsLate ==
  ASSUME BatchInv, LateInv, Submit \/ SubmitStops \/ SubmitReplay
  PROVE  LateInv'
  <1>0. /\ job \in Jobs /\ prov \in Provs /\ budget \in Budgets /\ SubmitInv /\ ProviderInv
        /\ UNCHANGED can
    BY DEF BatchInv, Types, DataInv, Submit, SubmitCreate, SubmitBind, SubmitHold,
           SubmitHoldFailed, SubmitItems, SubmitUpload, SubmitReleaseHold, SubmitRecordFailure,
           SubmitEnqueueRelease, SubmitHide, SubmitIntent, SubmitIntentRelease, SubmitIntentFail,
           SubmitProvider, SubmitName, SubmitAbort, SubmitBindAgain, SubmitEnqueue, SubmitReturn,
           SubmitStops, SubmitReplay
  <1>1. CASE SubmitProvider
    <2>1. ~job.named /\ ~prov.cancel /\ UNCHANGED job /\ sub' # "abort"
          /\ ~prov'.cancel
      BY <1>0, <1>1 DEF SubmitProvider, SubmitInv, LateInv, Provs
    <2>q. QED
      BY <1>0, <2>1 DEF LateInv
  <1>2. CASE SubmitName
    <2>1. /\ sub = "name" /\ ~job.named /\ ~prov.cancel /\ UNCHANGED <<prov, task>>
          /\ prov.state = "running" => task = "uncertain"
      BY <1>0, <1>2 DEF SubmitName, SubmitInv, ProviderInv, LateInv
    <2>2. can # "provider"
      BY <2>1 DEF LateInv
    <2>q. QED
      BY <1>0, <2>1, <2>2 DEF LateInv
  <1>3. CASE SubmitAbort
    <2>1. sub = "abort" /\ sub' = "done" /\ UNCHANGED <<job, task>> /\ prov'.state = prov.state
      BY <1>0, <1>3 DEF SubmitAbort, Provs
    <2>q. QED
      BY <1>0, <2>1 DEF LateInv
  <1>4. CASE SubmitBindAgain \/ SubmitEnqueue
    BY <1>0, <1>4 DEF SubmitBindAgain, SubmitEnqueue, LateInv
  <1>5. CASE SubmitReplay
    BY <1>0, <1>5 DEF SubmitReplay, LateInv
  <1>6. CASE SubmitStops
    BY <1>0, <1>6 DEF SubmitStops, LateInv, Gone
  <1>7. CASE \/ SubmitCreate \/ SubmitBind \/ SubmitHold \/ SubmitHoldFailed \/ SubmitItems
             \/ SubmitUpload \/ SubmitReleaseHold \/ SubmitRecordFailure \/ SubmitEnqueueRelease
             \/ SubmitHide \/ SubmitIntent \/ SubmitIntentRelease \/ SubmitIntentFail
             \/ SubmitReturn
    <2>1. /\ sub \notin {"abort", "bindAgain", "enqueue", "done", "crashed"} /\ UNCHANGED prov
          /\ sub' \in Early \cup {"name"} => sub \in Early \cup {"name"}
          /\ sub' # "abort"
      BY <1>7 DEF SubmitCreate, SubmitBind, SubmitHold,
           SubmitHoldFailed, SubmitItems, SubmitUpload, SubmitReleaseHold, SubmitRecordFailure,
           SubmitEnqueueRelease, SubmitHide, SubmitIntent, SubmitIntentRelease, SubmitIntentFail,
           SubmitReturn
    <2>2. ~job.named /\ ~job'.named
      <3>1. job'.named = job.named
        BY <1>0, <1>7 DEF SubmitCreate, SubmitBind, SubmitHold,
           SubmitHoldFailed, SubmitItems, SubmitUpload, SubmitReleaseHold, SubmitRecordFailure,
           SubmitEnqueueRelease, SubmitHide, SubmitIntent, SubmitIntentRelease, SubmitIntentFail,
           SubmitReturn, RecordSubmitFailure, Transition, Jobs
      <3>q. QED
        BY <1>0, <2>1, <3>1 DEF SubmitInv
    <2>q. QED
      BY <1>0, <2>1, <2>2 DEF LateInv
  <1>q. QED
    BY <1>1, <1>2, <1>3, <1>4, <1>5, <1>6, <1>7 DEF Submit

\* Every step keeps it.
LEMMA LateStep == BatchInv /\ LateInv /\ [Next]_vars => LateInv'
  <1> SUFFICES ASSUME BatchInv, LateInv, [Next]_vars PROVE LateInv'
    OBVIOUS
  <1>0. job \in Jobs /\ prov \in Provs
    BY DEF BatchInv, Types
  <1>1. CASE Submit \/ SubmitStops \/ SubmitReplay
    BY <1>1, SubmitsLate
  <1>2. CASE CancelRead \/ Cancel \/ CancelStops
    BY <1>2, CancelsLate
  <1>3. CASE \E w \in Workers : \/ Worker(w) \/ SlotRefused(w) \/ WorkerError(w) \/ WorkerStops(w)
                                \/ Heartbeat(w)
    BY <1>3, WorkersLate
  <1>4. CASE Recover \/ RecoverStops
    <2>1. /\ UNCHANGED <<sub, can, prov, task>> /\ job'.named = job.named
          /\ job'.status \in {job.status, "failed"}
      BY <1>0, <1>4 DEF Recover, RecoverList, FailStale, RecoverRelease, RecoverEnqueue,
                        RecoverStops, Jobs
    <2>q. QED
      BY <2>1, LateKept
  <1>5. CASE \/ MoveDueDelayed \/ RecoverStaleActive \/ ActiveAges \/ LockExpires
             \/ Touch \/ RowAges \/ ProviderEnds \/ DeleteOutput \/ UNCHANGED vars
    <2>1. /\ UNCHANGED <<sub, can, task>> /\ job'.named = job.named
          /\ job'.status \in {job.status, "output_deleted"}
          /\ prov'.cancel = prov.cancel /\ (prov'.state = "running" => prov.state = "running")
      BY <1>0, <1>5 DEF MoveDueDelayed, RecoverStaleActive, ActiveAges, LockExpires, Touch,
                        RowAges, ProviderEnds, DeleteOutput, vars, Jobs, Provs
    <2>q. QED
      BY <2>1, LateKept
  <1>q. QED
    BY <1>1, <1>2, <1>3, <1>4, <1>5 DEF Next

\* It holds in every behaviour.
LEMMA LateInvariant == Spec => []LateInv
  <1>1. Init => LateInv
    BY DEF Init, LateInv
  <1>q. QED
    BY <1>1, LateStep, BatchInvariant, PTL DEF Spec

-----------------------------------------------------------------------------
(***************************************************************************)
(* No hold is stranded.  What closes a job for the queue is that its hold  *)
(* is charged or given back or, once a heartbeat was late, that the        *)
(* provider's results can be settled: a second worker then takes the job   *)
(* off the queue without having settled it.  Whoever takes the job off the *)
(* queue knows one of the two.                                             *)
(***************************************************************************)
Priced == {"good", "costly"}
Over == wallet.claims \cap {"capture", "release"} # {}
Solo == budget.stalls = 0
Closed == Over \/ (~Solo /\ job.named /\ prov.state \in Priced)
Queued == queue.ready > 0 \/ queue.delayed \/ queue.active # "no"
Settling == {"settlingTask", "toSettling", "settle", "settleTask", "capture", "markSettled",
             "completedTask", "recordFailure", "exhaustRelease", "exhaustFail", "recheck"}
Settlers == {"settleTask", "capture", "recordFailure", "exhaustRelease", "exhaustFail", "recheck"}
Unlocked == {"idle", "lock", "requeue", "unlock"}
Finishing == {"localTask", "terminalHold"}

\* A worker goes where the provider's answer sends it; one that nobody
\* disturbs settles a job that it found settling, and whose status it alone
\* changes.
Follows(r) ==
    /\ r.pc \notin Unlocked => r.locked
    /\ r.pc = "providerTask" => r.note = prov.state
    /\ r.pc \in {"indexingTask", "toIndexing", "index"} => prov.state \in Succeeded
    /\ r.pc = "admit" /\ r.note = "indexing" => prov.state \in Succeeded
    /\ r.pc = "toFailed" => prov.state = "failed"
    /\ r.pc = "indexFailed" => prov.state = "garbled" \/ (prov.state \in Priced /\ budget.faults >= 1)
    /\ r.pc \in Settling => job.named /\ prov.state \in Priced
    /\ r.pc = "read" /\ Solo => job.status # "settling"
    /\ r.pc = "settlingTask" => ~Solo
    /\ r.pc \in Settlers /\ Solo => Over \/ job.status = "settling"
    /\ r.pc \in {"exhaustFail", "completedTask"} => Over
    /\ r.pc = "ack" => Closed
    /\ r.pc # "idle" => queue.inflight \/ Closed

ResultInv ==
    /\ \A w \in Workers : Follows(wk[w])
    /\ job.status = "indexing" => prov.state \in Succeeded
    /\ job.status \in {"settling"} \cup Charged => prov.state \in Priced

\* As long as no heartbeat is late, the worker that holds the lock owns it.
LockInv == Solo => \A w \in Workers : wk[w].locked => queue.lock = w

QueueInv == Queued => queue.inflight \/ Closed

NamedInv ==
    job.named /\ job.status = "failed" =>
        \/ Over
        \/ queue.inflight /\ prov.state \notin Priced
        \/ /\ prov.state \in Priced
           /\ Solo => queue.inflight
           /\ budget.faults >= 1
           /\ budget.crashes = 0 /\ budget.faults <= 1 => \E w \in Workers : wk[w].pc \in Finishing

(***************************************************************************)
(* A job that the provider never had is given up by its submission or by   *)
(* the recovery; each needs a fault of its own to let the hold go.         *)
(***************************************************************************)
GivingUp == {"release", "releaseOnly", "stuck", "stuckEnqueue", "intentRelease", "intentStuck"}
NeverHeld == {"holdFail", "holdHide", "holdReturn", "holdError"}

FaultInv ==
    /\ sub \in {"record", "intentFail"} => Over
    /\ sub \in {"stuck", "stuckEnqueue", "intentStuck"} => Over \/ budget.faults >= 1
    /\ rec = "enqueue" => Over \/ budget.faults >= 1

UnnamedInv ==
    (/\ ~job.named /\ job.status = "failed" /\ Held
     /\ budget.crashes = 0 /\ budget.faults <= 1)
        => queue.inflight \/ sub \in GivingUp \cup NeverHeld \/ rec \in {"release", "enqueue"}

StrandInv == ResultInv /\ LockInv /\ QueueInv /\ NamedInv /\ FaultInv /\ UnnamedInv

\* What no step takes back.
Onward ==
    /\ wallet.claims \subseteq wallet'.claims
    /\ job.named => job'.named
    /\ prov.state \in Ended => prov'.state = prov.state
    /\ budget.faults <= budget'.faults /\ budget.crashes <= budget'.crashes
    /\ Solo' => Solo

\* A call spends the budget of its fault, and gives nothing back to it.
LEMMA BudgetSpent ==
  ASSUME budget \in Budgets
  PROVE  /\ NoFault \/ Fault \/ Stall \/ Crash =>
                /\ budget.faults <= budget'.faults /\ budget.crashes <= budget'.crashes
                /\ Solo' => Solo
         /\ Fault => budget'.faults = budget.faults + 1
         /\ Crash => budget'.crashes = budget.crashes + 1
         /\ Stall => ~Solo'
         /\ budget.faults \in Nat /\ budget.crashes \in Nat
  <1>1. budget.faults \in Nat /\ budget.crashes \in Nat /\ budget.stalls \in Nat
    BY BatchAssumption DEF Budgets
  <1>2. /\ Fault => /\ budget'.faults = budget.faults + 1 /\ budget'.crashes = budget.crashes
                    /\ budget'.stalls = budget.stalls
        /\ Crash => /\ budget'.crashes = budget.crashes + 1 /\ budget'.faults = budget.faults
                    /\ budget'.stalls = budget.stalls
        /\ Stall => /\ budget'.crashes = budget.crashes /\ budget'.faults = budget.faults
                    /\ budget'.stalls = budget.stalls + 1
    BY DEF Budgets
  <1>q. QED
    BY <1>1, <1>2 DEF Solo

\* Only an error leaves the hold of a released job where it was.
LEMMA ReleaseAnswered ==
  ASSUME BatchInv, NEW r \in Results, ReleaseHold(r)
  PROVE  /\ wallet'.claims \in {wallet.claims, wallet.claims \cup {"release"}}
         /\ r # "error" => Over'
         /\ r = "error" => Fault
         /\ NoFault \/ Fault
  <1>0. wallet \in Wallets /\ budget \in Budgets /\ HoldAccounted /\ CompletedIsCharged
    BY DEF BatchInv, Types, DataInv
  <1>1. /\ wallet'.claims \in {wallet.claims, wallet.claims \cup {"release"}}
        /\ r = "ok" => "release" \in wallet'.claims
    BY <1>0, ReleaseEffect
  <1>2. ASSUME r = "refused" PROVE Over'
    <2>1. UNCHANGED wallet /\ "release" \notin wallet.claims
      BY <1>2 DEF ReleaseHold, Billing
    <2>2. ~ReleaseAllowed \/ ("hold" \in wallet.claims /\ ~(wallet.frozen >= Hold))
      BY <1>2, <2>1 DEF ReleaseHold, Billing
    <2>3. CASE ~ReleaseAllowed
      BY <1>0, <2>1, <2>3 DEF ReleaseAllowed, CompletedIsCharged, Over
    <2>4. CASE "hold" \in wallet.claims /\ ~(wallet.frozen >= Hold)
      <3>1. ~Held
        BY <1>0, <2>4, BatchAssumption DEF HoldAccounted, Wallets
      <3>q. QED
        BY <2>1, <2>4, <3>1 DEF Held, Over
    <2>q. QED
      BY <2>2, <2>3, <2>4
  <1>3. (r = "error" => Fault) /\ (NoFault \/ Fault)
    BY DEF ReleaseHold, Billing
  <1>q. QED
    BY <1>1, <1>2, <1>3 DEF Over

(***************************************************************************)
(* What a step keeps when every worker it moves goes where it should.      *)
(***************************************************************************)
LEMMA ResultsKept ==
  ASSUME BatchInv, StrandInv, Onward, budget \in Budgets, budget' \in Budgets,
         queue.inflight => queue'.inflight \/ Closed,
         \A v \in Workers : wk'[v] = wk[v] \/ Follows(wk[v])',
         \/ job'.status = "settling" <=> job.status = "settling"
         \/ \A v \in Workers : Follows(wk[v])' \/ wk[v].pc \in Unlocked \/ ~Solo',
         \A v \in Workers : wk[v].pc \in Finishing =>
            \/ wk'[v].pc \in Finishing \/ Over'
            \/ budget'.faults > budget.faults \/ budget'.crashes > budget.crashes,
         Queued' => Queued \/ queue'.inflight \/ Closed,
         job'.status = "indexing" => job.status = "indexing" \/ prov.state \in Succeeded,
         job'.status \in {"settling"} \cup Charged =>
            job.status \in {"settling"} \cup Charged \/ prov.state \in Priced,
         job'.named /\ job'.status = "failed" =>
            \/ job.named /\ job.status = "failed"
            \/ Over
            \/ queue.inflight /\ prov.state \in {"failed", "garbled"}
            \/ NamedInv'
  PROVE  ResultInv' /\ QueueInv' /\ NamedInv'
  <1>0. /\ budget.faults \in Nat /\ budget.crashes \in Nat
        /\ budget'.faults \in Nat /\ budget'.crashes \in Nat
        /\ budget.faults <= budget'.faults /\ budget.crashes <= budget'.crashes
    BY BatchAssumption DEF Budgets, Onward
  <1>1. /\ Over => Over'
        /\ Closed => Closed'
        /\ \A s \in Ended : prov.state = s => prov'.state = s
        /\ queue.inflight \/ Closed => queue'.inflight \/ Closed'
    BY DEF Onward, Over, Closed, Priced
  <1>2. ASSUME NEW v \in Workers, wk'[v] = wk[v] PROVE Follows(wk[v])'
    <2> SUFFICES ASSUME ~Follows(wk[v])' PROVE FALSE
      OBVIOUS
    <2>1. Follows(wk[v]) /\ Knows(wk[v])
      BY DEF StrandInv, ResultInv, BatchInv, KnowledgeInv
    <2>2. (wk[v].pc = "providerTask") => prov'.state = prov.state
      BY <1>1, <2>1 DEF Knows, PastProvider
    <2>3. (wk[v].pc \in Settling) => job'.named /\ prov'.state \in Priced
      BY <1>1, <2>1 DEF Follows, Onward, Priced
    <2>4. \/ job'.status = "settling" <=> job.status = "settling"
          \/ wk[v].pc \in Unlocked \/ ~Solo'
      OBVIOUS
    <2>5. /\ (wk[v].pc = "read" /\ Solo') => job'.status # "settling"
          /\ (wk[v].pc \in Settlers /\ Solo') => Over' \/ job'.status = "settling"
      BY <1>1, <2>1, <2>4 DEF Follows, Onward, Settlers, Unlocked
    <2>6. wk[v].pc = "settlingTask" => ~Solo'
      BY <2>1 DEF Follows, Onward
    <2>7. wk[v].pc = "indexFailed" =>
            prov'.state = "garbled" \/ (prov'.state \in Priced /\ budget'.faults >= 1)
      BY <1>0, <1>1, <2>1 DEF Follows, Priced
    <2>8. wk[v].pc \in {"indexingTask", "toIndexing", "index"} \/ (wk[v].pc = "admit" /\ wk[v].note = "indexing")
            => prov'.state \in Succeeded
      BY <1>1, <2>1 DEF Follows
    <2>9. wk[v].pc = "toFailed" => prov'.state = "failed"
      BY <1>1, <2>1 DEF Follows
    <2>q. QED
      BY <1>1, <1>2, <2>1, <2>2, <2>3, <2>5, <2>6, <2>7, <2>8, <2>9 DEF Follows
  <1>3. ResultInv'
    BY <1>1, <1>2 DEF StrandInv, ResultInv, Priced
  <1>4. QueueInv'
    BY <1>1 DEF StrandInv, QueueInv
  <1>5. NamedInv'
    <2>1. CASE Over \/ Over' \/ ~(job'.named /\ job'.status = "failed")
      BY <1>1, <2>1 DEF NamedInv
    <2>2. CASE ~Over /\ ~Over' /\ job.named /\ job.status = "failed"
      <3>1. NamedInv /\ prov.state \in Ended /\ prov'.state = prov.state
        BY <1>1, <2>2 DEF StrandInv, BatchInv, DataInv, ProviderInv
      <3>2. CASE queue.inflight /\ prov.state \notin Priced
        BY <2>2, <3>1, <3>2 DEF NamedInv, Closed
      <3>3. CASE prov.state \in Priced
        <4>1. Solo' => queue'.inflight
          BY <2>2, <3>1, <3>3 DEF NamedInv, Closed, Onward
        <4>2. budget.faults >= 1 /\ budget'.faults >= 1
          BY <1>0, <2>2, <3>1, <3>3 DEF NamedInv
        <4>3. ASSUME budget'.crashes = 0, budget'.faults <= 1
              PROVE  \E w \in Workers : wk'[w].pc \in Finishing
          <5>1. /\ budget.crashes = 0 /\ budget.faults <= 1
                /\ ~(budget'.faults > budget.faults) /\ ~(budget'.crashes > budget.crashes)
            BY <1>0, <4>2, <4>3
          <5>2. PICK w \in Workers : wk[w].pc \in Finishing
            BY <2>2, <3>1, <3>3, <5>1 DEF NamedInv
          <5>q. QED
            BY <2>2, <5>1, <5>2
        <4>q. QED
          BY <3>1, <3>3, <4>1, <4>2, <4>3 DEF NamedInv
      <3>q. QED
        BY <2>2, <3>1, <3>2, <3>3 DEF NamedInv
    <2>3. CASE ~Over /\ queue.inflight /\ prov.state \in {"failed", "garbled"}
      BY <1>1, <2>3 DEF Closed, Priced, NamedInv
    <2>q. QED
      BY <2>1, <2>2, <2>3
  <1>q. QED
    BY <1>3, <1>4, <1>5

\* The lock keeps its owner in a step that neither takes it nor lets it go.
LEMMA LocksKept ==
  ASSUME StrandInv, Onward, queue'.lock = queue.lock,
         \A v \in Workers : wk'[v].locked => wk[v].locked
  PROVE  LockInv'
  BY DEF StrandInv, LockInv, Onward

\* A step that neither submits nor recovers leaves an unnamed job in its care.
LEMMA CareKept ==
  ASSUME BatchInv, StrandInv, Onward, UNCHANGED <<sub, rec>>,
         budget \in Budgets, budget' \in Budgets,
         queue.inflight => queue'.inflight \/ Closed,
         "hold" \in wallet'.claims => "hold" \in wallet.claims,
         job'.status = "failed" /\ ~job'.named => job.status = "failed"
  PROVE  FaultInv' /\ UnnamedInv'
  <1>1. /\ Over => Over'
        /\ Held' => Held /\ ~Over
        /\ Closed /\ ~Over => job'.named
    BY DEF Onward, Over, Held, Closed
  <1>2. /\ budget.faults \in Nat /\ budget.crashes \in Nat
        /\ budget'.faults \in Nat /\ budget'.crashes \in Nat
    BY BatchAssumption DEF Budgets
  <1>3. FaultInv'
    BY <1>1, <1>2 DEF StrandInv, FaultInv, Onward
  <1>4. UnnamedInv'
    <2> SUFFICES ASSUME ~job'.named, job'.status = "failed", Held',
                        budget'.crashes = 0, budget'.faults <= 1
                 PROVE  queue'.inflight \/ sub \in GivingUp \cup NeverHeld
                            \/ rec \in {"release", "enqueue"}
      BY DEF UnnamedInv
    <2>1. ~job.named /\ job.status = "failed"
      BY DEF Onward
    <2>2. Held /\ ~Over /\ ~Closed
      BY <1>1
    <2>3. budget.crashes = 0 /\ budget.faults <= 1
      BY <1>2 DEF Onward
    <2>q. QED
      BY <2>1, <2>2, <2>3 DEF StrandInv, UnnamedInv
  <1>q. QED
    BY <1>3, <1>4

\* A worker's step: where it goes is all that the other workers do not see,
\* and as long as they are not stalled only the owner of the lock moves the row.
LEMMA WorkerFollows ==
  ASSUME BatchInv, StrandInv, Onward, NEW w \in Workers, UNCHANGED <<sub, rec>>,
         budget \in Budgets, budget' \in Budgets,
         \A v \in Workers \ {w} : wk'[v] = wk[v],
         Follows(wk[w])', LockInv',
         wk[w].pc \in Finishing =>
            \/ wk'[w].pc \in Finishing \/ Over'
            \/ budget'.faults > budget.faults \/ budget'.crashes > budget.crashes,
         queue.inflight => queue'.inflight \/ Closed,
         Queued' => Queued \/ wk[w].pc # "idle",
         "hold" \in wallet'.claims => "hold" \in wallet.claims,
         job'.status = job.status \/ (job.named /\ wk[w].pc \notin Unlocked),
         job'.status = "indexing" => job.status = "indexing" \/ prov.state \in Succeeded,
         job'.status \in {"settling"} \cup Charged =>
            job.status \in {"settling"} \cup Charged \/ prov.state \in Priced,
         job'.named = job.named,
         job'.status = "failed" =>
            \/ job.status = "failed" \/ Over \/ NamedInv'
            \/ (queue.inflight /\ prov.state \in {"failed", "garbled"})
  PROVE  StrandInv'
  <1>1. wk[w].pc # "idle" => queue.inflight \/ Closed
    BY DEF StrandInv, ResultInv, Follows
  <1>2. /\ \A v \in Workers : wk'[v] = wk[v] \/ Follows(wk[v])'
        /\ \A v \in Workers : wk[v].pc \in Finishing =>
              \/ wk'[v].pc \in Finishing \/ Over'
              \/ budget'.faults > budget.faults \/ budget'.crashes > budget.crashes
    OBVIOUS
  <1>3. Queued' => Queued \/ queue'.inflight \/ Closed
    BY <1>1
  <1>4. \/ job'.status = "settling" <=> job.status = "settling"
        \/ \A v \in Workers : Follows(wk[v])' \/ wk[v].pc \in Unlocked \/ ~Solo'
    <2> SUFFICES ASSUME wk[w].pc \notin Unlocked, NEW v \in Workers \ {w},
                        wk[v].pc \notin Unlocked, Solo'
                 PROVE  FALSE
      OBVIOUS
    <2>1. wk[w].locked /\ wk[v].locked /\ Solo
      BY DEF StrandInv, ResultInv, Follows, Onward
    <2>q. QED
      BY <2>1 DEF StrandInv, LockInv
  <1>5. ResultInv' /\ QueueInv' /\ NamedInv'
    BY <1>2, <1>3, <1>4, ResultsKept
  <1>6. job'.status = "failed" /\ ~job'.named => job.status = "failed"
    OBVIOUS
  <1>7. FaultInv' /\ UnnamedInv'
    BY <1>6, CareKept
  <1>q. QED
    BY <1>5, <1>7 DEF StrandInv

\* What a worker that moves to a place must know there.
LEMMA WorkerGoes ==
  ASSUME BatchInv, StrandInv, NEW w \in Workers, NEW to \in WorkerPcs, NEW note \in Notes,
         GoNote(w, to, note),
         to \in Unlocked \/ wk[w].pc \notin Unlocked,
         to = "providerTask" => note = prov'.state,
         to \in {"indexingTask", "toIndexing", "index"} => prov'.state \in Succeeded,
         to = "admit" /\ note = "indexing" => prov'.state \in Succeeded,
         to = "toFailed" => prov'.state = "failed",
         to = "indexFailed" =>
            prov'.state = "garbled" \/ (prov'.state \in Priced /\ budget'.faults >= 1),
         to \in Settling => job'.named /\ prov'.state \in Priced,
         to = "read" /\ Solo' => job'.status # "settling",
         to = "settlingTask" => ~Solo',
         to \in Settlers /\ Solo' => Over' \/ job'.status = "settling",
         to \in {"exhaustFail", "completedTask"} => Over',
         to = "ack" => Closed',
         to # "idle" => queue'.inflight \/ Closed'
  PROVE  /\ Follows(wk[w])' /\ wk'[w].pc = to
         /\ \A v \in Workers \ {w} : wk'[v] = wk[v]
         /\ \A v \in Workers : wk'[v].locked = wk[v].locked
  <1>1. wk \in [Workers -> WorkerStates] /\ Follows(wk[w])
    BY DEF BatchInv, Types, StrandInv, ResultInv
  <1>2. /\ wk'[w].pc = to /\ wk'[w].note = note /\ wk'[w].locked = wk[w].locked
        /\ \A v \in Workers \ {w} : wk'[v] = wk[v]
    BY <1>1, WorkerMoved
  <1>3. to \notin Unlocked => wk'[w].locked
    BY <1>1, <1>2 DEF Follows
  <1>4. Follows(wk[w])'
    BY <1>2, <1>3 DEF Follows
  <1>q. QED
    BY <1>2, <1>4

\* A worker that only reads goes where the answer sends it.
LEMMA ReadsFollow ==
  ASSUME BatchInv, StrandInv, NEW w \in Workers,
         \/ PipelineRead(w) \/ ProcessRead(w) \/ Admit(w) \/ SlotRefused(w) \/ Poll(w)
         \/ Index(w) \/ SettleRead(w) \/ MarkSettled(w) \/ Recheck(w) \/ WorkerError(w)
  PROVE  StrandInv'
  <1> USE DEF Go
  <1>0. /\ UNCHANGED <<job, wallet, prov, queue, sub, rec>>
        /\ Knows(wk[w]) /\ Follows(wk[w]) /\ ResultInv /\ SubmitInv /\ ProviderInv /\ DataInv
        /\ wk[w].pc \notin Unlocked /\ prov \in Provs /\ wk[w] \in WorkerStates
        /\ CompletedIsCharged
    BY DEF BatchInv, Types, KnowledgeInv, DataInv, StrandInv, ResultInv, PipelineRead, ProcessRead,
           Admit, SlotRefused, Poll, Index, SettleRead, MarkSettled, Recheck, WorkerError, Unlocked
  <1>1. NoFault \/ Fault
    BY DEF PipelineRead, ProcessRead, Admit, SlotRefused, Poll, Index, SettleRead, MarkSettled,
           Recheck, WorkerError
  <1>2. budget \in Budgets /\ budget' \in Budgets
    BY <1>1, FaultTyped DEF BatchInv, Types
  <1>3. /\ Onward /\ (Fault => budget'.faults > budget.faults /\ budget'.faults >= 1)
        /\ Solo' = Solo /\ Over' = Over /\ Closed' = Closed
    <2>1. budget'.stalls = budget.stalls
      BY <1>1, <1>2 DEF Budgets
    <2>q. QED
      BY <1>0, <1>1, <1>2, <2>1, BudgetSpent DEF Onward, Over, Solo, Closed
  <1>4. queue'.inflight \/ Closed'
    BY <1>0, <1>3 DEF Follows, Unlocked
  <1>5. ASSUME NEW to \in WorkerPcs, NEW note \in Notes, GoNote(w, to, note),
               wk[w].pc \notin Finishing \/ Fault,
               to = "providerTask" => note = prov.state,
               to \in {"indexingTask", "toIndexing", "index"} => prov.state \in Succeeded,
               to # "admit" \/ note # "indexing",
               to # "toFailed",
               to = "indexFailed" =>
                  prov.state = "garbled" \/ (prov.state \in Priced /\ budget'.faults >= 1),
               to \in Settling => job.named /\ prov.state \in Priced,
               to = "read" /\ Solo => job.status # "settling",
               to = "settlingTask" => ~Solo,
               to \in Settlers /\ Solo => Over \/ job.status = "settling",
               to = "completedTask" => Over,
               to = "ack" => Closed,
               to # "exhaustFail"
        PROVE  StrandInv'
    <2>1. /\ Follows(wk[w])' /\ wk'[w].pc = to
          /\ \A v \in Workers \ {w} : wk'[v] = wk[v]
          /\ \A v \in Workers : wk'[v].locked = wk[v].locked
      BY <1>0, <1>3, <1>4, <1>5, WorkerGoes
    <2>2. Queued' => Queued
      BY <1>0 DEF Queued
    <2>3. LockInv'
      BY <1>0, <1>3, <2>1, LocksKept
    <2>q. QED
      BY <1>0, <1>2, <1>3, <1>5, <2>1, <2>2, <2>3, WorkerFollows
  <1> USE DEF WorkerPcs, Notes, Settling, Priced, Settlers, Finishing
  <1>6. CASE PipelineRead(w)
    BY <1>0, <1>5, <1>6 DEF PipelineRead, ResultInv, SubmitInv
  <1>7. CASE ProcessRead(w)
    BY <1>0, <1>5, <1>7 DEF ProcessRead, ResultInv, SubmitInv, Follows
  <1>8. CASE Admit(w)
    <2>1. CASE wk[w].note = "indexing" /\ Go(w, "index")
      BY <1>0, <1>5, <1>8, <2>1 DEF Admit, Follows
    <2>2. CASE wk[w].note # "indexing" /\ GoNote(w, "poll", wk[w].note)
      <3>1. wk[w].note \in Notes
        BY <1>0 DEF WorkerStates
      <3>q. QED
        BY <1>0, <1>5, <1>8, <2>2, <3>1 DEF Admit
    <2>q. QED
      BY <1>8, <2>1, <2>2 DEF Admit
  <1>9. CASE SlotRefused(w)
    BY <1>0, <1>5, <1>9 DEF SlotRefused
  <1>10. CASE Poll(w)
    BY <1>0, <1>5, <1>10 DEF Poll
  <1>11. CASE Index(w)
    BY <1>0, <1>3, <1>5, <1>11 DEF Index, Follows, Knows, PastProvider
  <1>12. CASE SettleRead(w)
    BY <1>0, <1>5, <1>12 DEF SettleRead, ResultInv, SubmitInv, CompletedIsCharged, Over
  <1>13. CASE MarkSettled(w)
    BY <1>0, <1>5, <1>13 DEF MarkSettled, Follows, CompletedIsCharged, Over
  <1>14. CASE Recheck(w)
    BY <1>0, <1>5, <1>14 DEF Recheck, Follows, Closed
  <1>15. CASE WorkerError(w)
    BY <1>0, <1>5, <1>15 DEF WorkerError
  <1>q. QED
    BY <1>6, <1>7, <1>8, <1>9, <1>10, <1>11, <1>12, <1>13, <1>14, <1>15

\* The queue operations of a worker keep the job queued or find it closed.
LEMMA QueuesFollow ==
  ASSUME BatchInv, StrandInv, NEW w \in Workers,
         \/ WorkerReserve(w) \/ TryAcquireJobLock(w) \/ RequeueAfter(w) \/ Ack(w) \/ Unlock(w)
         \/ WorkerStops(w)
  PROVE  StrandInv'
  <1> USE DEF Go
  <1>0. /\ UNCHANGED <<job, wallet, prov, sub, rec>>
        /\ Follows(wk[w]) /\ QueueInv /\ queue \in Queues /\ wk \in [Workers -> WorkerStates]
    BY DEF BatchInv, Types, StrandInv, ResultInv, WorkerReserve, TryAcquireJobLock, RequeueAfter,
           Ack, Unlock, WorkerStops
  <1>1. NoFault \/ Fault \/ Crash
    BY DEF WorkerReserve, TryAcquireJobLock, RequeueAfter, Ack, Unlock, WorkerStops
  <1>2. budget \in Budgets /\ budget' \in Budgets
    BY <1>1, FaultTyped DEF BatchInv, Types
  <1>3. Onward /\ (WorkerStops(w) => budget'.crashes > budget.crashes)
    BY <1>0, <1>1, <1>2, BudgetSpent DEF Onward, WorkerStops
  <1>4. queue.inflight => queue'.inflight \/ Closed
    BY <1>0 DEF Queues, Follows, WorkerReserve, TryAcquireJobLock, RequeueAfter, Ack, Unlock,
               WorkerStops
  <1>5. Queued' => Queued \/ wk[w].pc # "idle"
    BY <1>0 DEF Queues, Queued, WorkerReserve, TryAcquireJobLock, RequeueAfter, Ack, Unlock,
               WorkerStops
  <1>6. queue'.inflight \/ Closed'
    <2>1. queue.inflight \/ Closed
      BY <1>0 DEF Queued, QueueInv, Follows, WorkerReserve, TryAcquireJobLock, RequeueAfter, Ack,
                 Unlock, WorkerStops
    <2>q. QED
      BY <1>0, <1>3, <1>4, <2>1 DEF Closed, Over, Onward
  <1>7. /\ Follows(wk[w])' /\ \A v \in Workers \ {w} : wk'[v] = wk[v]
        /\ LockInv'
    <2>1. CASE \E to \in {"lock", "requeue", "unlock"} : GoNote(w, to, "none") /\ queue'.lock = queue.lock
      <3>1. PICK to \in {"lock", "requeue", "unlock"} : GoNote(w, to, "none") /\ queue'.lock = queue.lock
        BY <2>1
      <3>2. to \in WorkerPcs \ (Settling \cup {"ack", "providerTask", "indexingTask", "toIndexing",
                                              "index", "toFailed", "indexFailed", "admit", "read"})
            /\ "none" \in Notes /\ to \in Unlocked /\ to \notin Settlers
        BY <3>1 DEF WorkerPcs, Settling, Notes, Unlocked, Settlers
      <3>3. /\ Follows(wk[w])' /\ \A v \in Workers \ {w} : wk'[v] = wk[v]
            /\ \A v \in Workers : wk'[v].locked = wk[v].locked
        BY <1>6, <3>1, <3>2, WorkerGoes DEF Settling
      <3>q. QED
        BY <1>3, <3>1, <3>3, LocksKept
    <2>2. ASSUME NEW r \in WorkerStates, r.pc = "idle" \/ (r.pc = "pipeline" /\ r.locked),
                 wk' = [wk EXCEPT ![w] = r]
          PROVE  /\ Follows(wk[w])' /\ wk'[w] = r
                 /\ \A v \in Workers \ {w} : wk'[v] = wk[v]
      <3>1. wk'[w] = r /\ \A v \in Workers \ {w} : wk'[v] = wk[v]
        BY <1>0, <2>2
      <3>q. QED
        BY <1>6, <2>2, <3>1 DEF Follows, Settling, Settlers, Unlocked
    <2>3. /\ [pc |-> "pipeline", note |-> "none", locked |-> TRUE] \in WorkerStates
          /\ [pc |-> "idle", note |-> "none", locked |-> FALSE] \in WorkerStates
      BY DEF WorkerStates, WorkerPcs, Notes
    <2>4. CASE /\ queue.lock = NoWorker /\ queue'.lock = w
               /\ wk' = [wk EXCEPT ![w] = [pc |-> "pipeline", note |-> "none", locked |-> TRUE]]
      <3>1. /\ Follows(wk[w])' /\ \A v \in Workers \ {w} : wk'[v] = wk[v]
        BY <2>2, <2>3, <2>4
      <3>2. Solo' => \A v \in Workers : ~wk[v].locked
        BY <1>3, <2>4, BatchAssumption DEF StrandInv, LockInv, Onward
      <3>q. QED
        BY <2>4, <3>1, <3>2 DEF LockInv
    <2>5. CASE /\ wk' = [wk EXCEPT ![w] = [pc |-> "idle", note |-> "none", locked |-> FALSE]]
               /\ queue'.lock = queue.lock \/ queue.lock = w
      <3> DEFINE r == [pc |-> "idle", note |-> "none", locked |-> FALSE]
      <3>0. r \in WorkerStates /\ r.pc = "idle" /\ ~r.locked /\ wk' = [wk EXCEPT ![w] = r]
        BY <2>3, <2>5
      <3> HIDE DEF r
      <3>1. /\ Follows(wk[w])' /\ \A v \in Workers \ {w} : wk'[v] = wk[v]
            /\ ~wk'[w].locked
        BY <2>2, <3>0
      <3>q. QED
        BY <1>3, <2>5, <3>1 DEF StrandInv, LockInv, Onward
    <2>6. CASE WorkerReserve(w) \/ RequeueAfter(w) \/ Ack(w)
      BY <1>0, <2>1, <2>6 DEF WorkerReserve, RequeueAfter, Ack, Queues
    <2>7. CASE TryAcquireJobLock(w)
      BY <1>0, <2>1, <2>4, <2>7 DEF TryAcquireJobLock, Queues
    <2>8. CASE Unlock(w) \/ WorkerStops(w)
      BY <1>0, <2>5, <2>8 DEF Unlock, WorkerStops
    <2>q. QED
      BY <2>6, <2>7, <2>8
  <1>8. wk[w].pc \in Finishing => budget'.crashes > budget.crashes
    BY <1>3 DEF WorkerReserve, TryAcquireJobLock, RequeueAfter, Ack, Unlock, Finishing
  <1>q. QED
    BY <1>0, <1>2, <1>3, <1>4, <1>5, <1>7, <1>8, WorkerFollows

\* A worker that releases the task, or the hold, knows that the batch is over.
LEMMA ReleasesFollow ==
  ASSUME BatchInv, StrandInv, NEW w \in Workers,
         WorkerReleaseTask(w) \/ TerminalHold(w) \/ ExhaustRelease(w)
  PROVE  StrandInv'
  <1> USE DEF Go
  <1>0. /\ UNCHANGED <<job, prov, queue, sub, rec>>
        /\ Knows(wk[w]) /\ Follows(wk[w]) /\ CompletedIsCharged /\ wk[w].pc \notin Unlocked
        /\ wk[w].note \in Notes /\ budget \in Budgets
    BY DEF BatchInv, Types, KnowledgeInv, DataInv, StrandInv, ResultInv, WorkerStates,
           WorkerReleaseTask, TerminalHold, ExhaustRelease, Unlocked
  <1>1. ASSUME NEW to \in WorkerPcs, NEW note \in Notes, GoNote(w, to, note),
               wallet'.claims \in {wallet.claims, wallet.claims \cup {"release"}},
               NoFault \/ Fault,
               wk[w].pc \in Finishing => to \in Finishing \/ Over' \/ Fault,
               to \notin {"providerTask", "indexFailed", "read", "settlingTask", "completedTask"},
               to \in {"indexingTask", "toIndexing", "index"} => prov.state \in Succeeded,
               to = "admit" => prov.state \in Succeeded,
               to = "toFailed" => prov.state = "failed",
               to \in Settling => job.named /\ prov.state \in Priced,
               to \in Settlers /\ Solo => Over \/ job.status = "settling",
               to = "exhaustFail" => Over',
               to = "ack" => Closed'
        PROVE  StrandInv'
    <2>1. budget' \in Budgets
      BY <1>0, <1>1, FaultTyped
    <2>2. Onward /\ (Fault => budget'.faults > budget.faults)
      BY <1>0, <1>1, BudgetSpent DEF Onward
    <2>3. (queue'.inflight \/ Closed') /\ (Over => Over')
      BY <1>0, <1>1, <2>2 DEF Follows, Closed, Over, Unlocked, Onward
    <2>4. /\ Follows(wk[w])' /\ wk'[w].pc = to
          /\ \A v \in Workers \ {w} : wk'[v] = wk[v]
          /\ \A v \in Workers : wk'[v].locked = wk[v].locked
      BY <1>0, <1>1, <2>2, <2>3, WorkerGoes DEF Onward
    <2>5. Queued' => Queued
      BY <1>0 DEF Queued
    <2>6. "hold" \in wallet'.claims => "hold" \in wallet.claims
      BY <1>1
    <2>7. LockInv'
      BY <1>0, <2>2, <2>4, LocksKept
    <2>q. QED
      BY <1>0, <1>1, <2>1, <2>2, <2>4, <2>5, <2>6, <2>7, WorkerFollows
  <1>2. CASE WorkerReleaseTask(w)
    <2>1. UNCHANGED <<wallet, budget>>
      BY <1>2 DEF WorkerReleaseTask
    <2>2. Over' = Over /\ Closed' = Closed
      BY <1>0, <2>1 DEF Over, Closed, Solo
    <2>3. CASE wk[w].pc = "indexingTask" /\ GoNote(w, "admit", "indexing")
      BY <1>0, <1>1, <2>1, <2>3 DEF Follows, WorkerPcs, Notes, Settling, Settlers, Finishing
    <2>4. CASE wk[w].pc \in {"settlingTask", "completedTask"} /\ Go(w, "ack")
      <3>1. Closed'
        BY <1>0, <2>2, <2>4 DEF Follows, Settling, Closed
      <3>q. QED
        BY <1>0, <1>1, <2>1, <2>4, <3>1 DEF WorkerPcs, Notes, Settling, Settlers, Finishing
    <2>5. CASE wk[w].pc = "settleTask" /\ GoNote(w, wk[w].note, wk[w].note)
      <3>1. /\ wk[w].note \in {"exhaustRelease", "recordFailure", "capture"}
            /\ job.named /\ prov.state \in Priced
            /\ Solo => Over \/ job.status = "settling"
        BY <1>0, <2>5 DEF Knows, Follows, Settling, Settlers
      <3>2. wk[w].note \in WorkerPcs
        BY <3>1 DEF WorkerPcs
      <3>q. QED
        BY <1>0, <1>1, <2>1, <2>5, <3>1, <3>2 DEF Finishing
    <2>6. CASE /\ wk[w].pc = "providerTask"
               /\ GoNote(w, CASE wk[w].note = "failed" -> "toFailed"
                              [] wk[w].note = "cancelled" -> "toCancelled"
                              [] OTHER -> "toIndexing", wk[w].note)
      <3>1. wk[w].note = prov.state /\ prov.state \in Ended
        BY <1>0, <2>6 DEF Knows, Follows, PastProvider
      <3>2. \/ prov.state = "failed" /\ GoNote(w, "toFailed", wk[w].note)
            \/ GoNote(w, "toCancelled", wk[w].note)
            \/ prov.state \in Succeeded /\ GoNote(w, "toIndexing", wk[w].note)
        BY <2>6, <3>1
      <3>q. QED
        BY <1>0, <1>1, <2>1, <2>6, <3>2 DEF WorkerPcs, Settling, Settlers, Finishing
    <2>7. CASE /\ wk[w].pc = "localTask"
               /\ Go(w, IF wk[w].note = "settled" THEN "ack" ELSE "terminalHold")
      <3>1. wk[w].note = "settled" => Over' /\ Closed'
        BY <1>0, <2>2, <2>7 DEF Knows, CompletedIsCharged, Over, Closed
      <3>2. /\ {"ack", "terminalHold"} \subseteq WorkerPcs \ (Settling \cup Settlers)
            /\ "none" \in Notes /\ "terminalHold" \in Finishing
        BY DEF WorkerPcs, Notes, Settling, Settlers, Finishing
      <3>3. \/ GoNote(w, "ack", "none") /\ Over' /\ Closed'
            \/ GoNote(w, "terminalHold", "none")
        BY <2>7, <3>1
      <3>q. QED
        BY <1>0, <1>1, <2>1, <2>7, <3>2, <3>3
    <2>q. QED
      BY <1>2, <2>3, <2>4, <2>5, <2>6, <2>7 DEF WorkerReleaseTask
  <1>3. CASE TerminalHold(w)
    <2>1. PICK r \in Results : ReleaseHold(r) /\ Go(w, IF r = "error" THEN "requeue" ELSE "ack")
      BY <1>3 DEF TerminalHold
    <2>2. /\ wallet'.claims \in {wallet.claims, wallet.claims \cup {"release"}}
          /\ r # "error" => Over' /\ Closed'
          /\ r = "error" => Fault
          /\ NoFault \/ Fault
      BY <2>1, ReleaseAnswered DEF Closed
    <2>q. QED
      BY <1>0, <1>1, <2>1, <2>2 DEF WorkerPcs, Notes, Settling, Settlers
  <1>4. CASE ExhaustRelease(w)
    <2>1. PICK r \in Results : ReleaseHold(r) /\ Go(w, IF r = "ok" THEN "exhaustFail" ELSE "recheck")
      BY <1>4 DEF ExhaustRelease
    <2>2. /\ wallet'.claims \in {wallet.claims, wallet.claims \cup {"release"}}
          /\ r = "ok" => Over'
          /\ NoFault \/ Fault
      BY <2>1, ReleaseAnswered
    <2>3. /\ job.named /\ prov.state \in Priced
          /\ Solo => Over \/ job.status = "settling"
          /\ wk[w].pc \notin Finishing
      BY <1>0, <1>4 DEF ExhaustRelease, Follows, Settling, Settlers, Finishing
    <2>q. QED
      BY <1>0, <1>1, <2>1, <2>2, <2>3 DEF WorkerPcs, Notes
  <1>q. QED
    BY <1>2, <1>3, <1>4

(***************************************************************************)
(* A worker that moves the row: it fails a job whose results cannot be     *)
(* settled and that is queued, one whose hold was given back, or one whose *)
(* results it failed to read and whose hold it goes on to release.         *)
(***************************************************************************)
LEMMA RowFollows ==
  ASSUME BatchInv, StrandInv, NEW w \in Workers, NEW to \in WorkerPcs, NEW note \in Notes,
         GoNote(w, to, note), UNCHANGED <<prov, queue, sub, rec>>,
         wk[w].pc \notin Unlocked \cup Finishing,
         "hold" \in wallet'.claims => "hold" \in wallet.claims,
         wallet.claims \subseteq wallet'.claims,
         NoFault \/ Fault \/ Crash, job'.named = job.named, job.named,
         to \in {"requeue", "index", "localTask", "recheck", "markSettled", "recordFailure",
                 "exhaustRelease"},
         to = "index" => prov.state \in Succeeded,
         to \in Settling => prov.state \in Priced,
         to \in Settlers /\ Solo => Over' \/ job'.status = "settling",
         job'.status = "indexing" => job.status = "indexing" \/ prov.state \in Succeeded,
         job'.status \in {"settling"} \cup Charged =>
            job.status \in {"settling"} \cup Charged \/ prov.state \in Priced,
         job'.status = "failed" =>
            \/ job.status = "failed" \/ Over \/ prov.state \in {"failed", "garbled"}
            \/ prov.state \in Priced /\ budget.faults >= 1 /\ (to \in Finishing \/ Crash)
  PROVE  StrandInv'
  <1>0. budget \in Budgets /\ Follows(wk[w])
    BY DEF BatchInv, Types, StrandInv, ResultInv
  <1>1. budget' \in Budgets
    BY <1>0, FaultTyped
  <1>2. Onward
    BY <1>0, BudgetSpent DEF Onward
  <1>3. (queue.inflight \/ Closed) /\ (queue'.inflight \/ Closed')
    BY <1>0, <1>2 DEF Follows, Closed, Over, Unlocked, Onward
  <1>4. /\ Follows(wk[w])' /\ wk'[w].pc = to
        /\ \A v \in Workers \ {w} : wk'[v] = wk[v]
        /\ \A v \in Workers : wk'[v].locked = wk[v].locked
    BY <1>2, <1>3, WorkerGoes DEF Onward
  <1>5. Queued' => Queued
    BY DEF Queued
  <1>6. LockInv'
    BY <1>2, <1>4, LocksKept
  <1>7. job'.status = "failed" =>
          \/ job.status = "failed" \/ Over \/ NamedInv'
          \/ (queue.inflight /\ prov.state \in {"failed", "garbled"})
    <2>1. ASSUME ~Over, prov.state \in {"failed", "garbled"} PROVE queue.inflight
      BY <1>3, <2>1 DEF Closed, Priced
    <2>2. ASSUME ~Over, prov.state \in Priced, budget.faults >= 1, to \in Finishing \/ Crash
          PROVE  NamedInv'
      <3>1. Solo' => queue'.inflight
        BY <1>2, <1>3, <2>2 DEF Closed, Onward
      <3>2. budget'.faults >= 1 /\ (Crash => budget'.crashes # 0)
        BY <1>0, <1>1, <1>2, <2>2, BudgetSpent, BatchAssumption DEF Onward, Budgets
      <3>3. budget'.crashes = 0 => \E v \in Workers : wk'[v].pc \in Finishing
        BY <1>4, <2>2, <3>2
      <3>q. QED
        BY <2>2, <3>1, <3>2, <3>3 DEF NamedInv
    <2>q. QED
      BY <2>1, <2>2
  <1>q. QED
    BY <1>0, <1>1, <1>2, <1>4, <1>5, <1>6, <1>7, WorkerFollows

\* The transitions, the capture and the recording of a failure.
LEMMA RowsFollow ==
  ASSUME BatchInv, StrandInv, NEW w \in Workers,
         WorkerTransition(w) \/ Capture(w) \/ RecordFailure(w)
  PROVE  StrandInv'
  <1> USE DEF Go, WorkerPcs, Notes, Settling, Settlers, Priced
  <1>0. /\ job \in Jobs /\ budget \in Budgets /\ Knows(wk[w]) /\ Follows(wk[w])
        /\ UNCHANGED <<prov, queue, sub, rec>> /\ wk[w].pc \notin Unlocked \cup Finishing
    BY DEF BatchInv, Types, KnowledgeInv, StrandInv, ResultInv, WorkerTransition, Capture,
           RecordFailure, Unlocked, Finishing
  <1>1. ASSUME NEW from, NEW to \in {"running", "indexing", "failed", "cancelled", "settling"},
               NEW pc \in {"requeue", "index", "localTask", "recheck"}, NEW r \in Results,
               wk[w].pc = from, Transition(to, r), UNCHANGED wallet,
               Go(w, IF r = "ok" THEN pc ELSE "requeue"),
               <<from, to, pc>> \in
                   {<<"toRunning", "running", "requeue">>, <<"toIndexing", "indexing", "index">>,
                    <<"toFailed", "failed", "localTask">>, <<"toCancelled", "cancelled", "localTask">>,
                    <<"indexFailed", "failed", "localTask">>, <<"toSettling", "settling", "requeue">>,
                    <<"exhaustFail", "failed", "recheck">>}
        PROVE  StrandInv'
    <2>1. /\ job'.named = job.named
          /\ \/ job'.status = to /\ (r = "ok" \/ Crash)
             \/ job' = job
      BY <1>0, <1>1, TransitionEffect DEF Transition
    <2>2. /\ job.named
          /\ from \in {"toIndexing"} => prov.state \in Succeeded
          /\ from = "toFailed" => prov.state = "failed"
          /\ from = "indexFailed" => prov.state = "garbled"
                                       \/ (prov.state \in Priced /\ budget.faults >= 1)
          /\ from \in {"toSettling", "exhaustFail"} => prov.state \in Priced
          /\ from = "exhaustFail" => Over
      BY <1>0, <1>1 DEF Knows, Follows, PastProvider
    <2>3. /\ pc = "index" => prov.state \in Succeeded
          /\ pc = "recheck" => prov.state \in Priced /\ Over /\ Over'
          /\ to = "indexing" => prov.state \in Succeeded
          /\ to = "settling" => prov.state \in Priced
          /\ to = "failed" => \/ Over \/ prov.state \in {"failed", "garbled"}
                              \/ prov.state \in Priced /\ budget.faults >= 1 /\ pc = "localTask"
      BY <1>1, <2>2 DEF Over
    <2>4. PICK at \in {"requeue", pc} : GoNote(w, at, "none") /\ (r = "ok" => at = pc)
      BY <1>1
    <2>5. /\ at \in WorkerPcs /\ "none" \in Notes
          /\ at \in {"requeue", "index", "localTask", "recheck"}
          /\ at = "index" => prov.state \in Succeeded
          /\ at \in Settling => prov.state \in Priced
          /\ at \in Settlers => Over'
      BY <1>1, <2>3, <2>4
    <2>6. /\ job'.status = "indexing" => job.status = "indexing" \/ prov.state \in Succeeded
          /\ job'.status \in {"settling"} \cup Charged =>
                job.status \in {"settling"} \cup Charged \/ prov.state \in Priced
      BY <1>1, <2>1, <2>3
    <2>7. job'.status = "failed" =>
            \/ job.status = "failed" \/ Over \/ prov.state \in {"failed", "garbled"}
            \/ prov.state \in Priced /\ budget.faults >= 1 /\ (at \in Finishing \/ Crash)
      <3>1. CASE job' = job
        BY <3>1
      <3>2. CASE job'.status = to /\ r = "ok"
        BY <1>1, <2>3, <2>4, <3>2 DEF Finishing
      <3>3. CASE job'.status = to /\ Crash
        BY <1>1, <2>3, <3>3
      <3>q. QED
        BY <2>1, <3>1, <3>2, <3>3
    <2>8. NoFault \/ Fault \/ Crash
      BY <1>1 DEF Transition
    <2> HIDE DEF WorkerPcs, Notes, Settling, Settlers, Priced
    <2>q. QED
      BY <1>0, <1>1, <2>1, <2>2, <2>4, <2>5, <2>6, <2>7, <2>8, RowFollows
  <1>2. CASE WorkerTransition(w)
    BY <1>1, <1>2 DEF WorkerTransition
  <1>3. CASE Capture(w)
    <2>1. /\ job.named /\ prov.state \in Priced
          /\ Solo => Over \/ job.status = "settling"
      BY <1>0, <1>3 DEF Capture, Follows
    <2>2. /\ "hold" \in wallet'.claims => "hold" \in wallet.claims
          /\ wallet.claims \subseteq wallet'.claims
          /\ job'.named = job.named
          /\ job'.status = job.status \/ (job'.status = "completed" /\ "capture" \in wallet'.claims)
          /\ Go(w, "markSettled") \/ GoNote(w, "recordFailure", "capture")
      BY <1>0, <1>3, CaptureEffect DEF Captured, Jobs
    <2>3. NoFault \/ Fault
      BY <1>3 DEF Capture, Billing
    <2>4. /\ job'.status = "indexing" => job.status = "indexing"
          /\ job'.status = "failed" => job.status = "failed"
          /\ Solo => Over' \/ job'.status = "settling"
      BY <2>1, <2>2 DEF Over
    <2>5. PICK at \in {"markSettled", "recordFailure"}, note \in {"none", "capture"} :
              GoNote(w, at, note)
      BY <2>2
    <2>6. at \in WorkerPcs /\ note \in Notes
      BY <2>5
    <2> HIDE DEF WorkerPcs, Notes, Settling, Settlers, Priced
    <2>q. QED
      BY <1>0, <2>1, <2>2, <2>3, <2>4, <2>5, <2>6, RowFollows
  <1>4. CASE RecordFailure(w)
    <2>1. /\ job.named /\ prov.state \in Priced
          /\ Solo => Over \/ job.status = "settling"
      BY <1>0, <1>4 DEF RecordFailure, Follows
    <2>2. /\ UNCHANGED wallet /\ job'.named = job.named /\ job'.status = job.status
          /\ NoFault \/ Fault
      BY <1>0, <1>4 DEF RecordFailure, Jobs
    <2>3. PICK at \in {"recheck", "requeue", "exhaustRelease"} : GoNote(w, at, "none")
      BY <1>4 DEF RecordFailure
    <2>4. /\ at \in WorkerPcs /\ "none" \in Notes
          /\ Solo => Over' \/ job'.status = "settling"
      BY <2>1, <2>2, <2>3 DEF Over
    <2> HIDE DEF WorkerPcs, Notes, Settling, Settlers, Priced
    <2>q. QED
      BY <1>0, <2>1, <2>2, <2>3, <2>4, RowFollows
  <1>q. QED
    BY <1>2, <1>3, <1>4

(***************************************************************************)
(* A cancellation, the queue's movers, time and the provider.              *)
(***************************************************************************)
LEMMA QuietFollows ==
  ASSUME BatchInv, StrandInv, UNCHANGED <<wk, sub, rec>>, Onward,
         budget \in Budgets, budget' \in Budgets,
         queue.inflight => queue'.inflight,
         Queued' => Queued \/ queue'.inflight,
         LockInv', "hold" \in wallet'.claims => "hold" \in wallet.claims,
         job'.status = "settling" <=> job.status = "settling",
         job'.status = "indexing" => job.status = "indexing",
         job'.status \in {"settling"} \cup Charged => job.status \in {"settling"} \cup Charged,
         job'.status = "failed" => job.status = "failed", job'.named = job.named
  PROVE  StrandInv'
  <1>1. ResultInv' /\ QueueInv' /\ NamedInv'
    BY ResultsKept
  <1>2. FaultInv' /\ UnnamedInv'
    BY CareKept
  <1>q. QED
    BY <1>1, <1>2 DEF StrandInv

\* Queueing the job keeps it on the queue.
LEMMA EnqueueKeeps ==
  ASSUME queue \in Queues, NEW r \in {"ok", "error"}, Enqueue(r)
  PROVE  /\ queue.inflight => queue'.inflight
         /\ Queued' => Queued \/ queue'.inflight
         /\ queue'.lock = queue.lock
         /\ r = "ok" => queue'.inflight /\ NoFault
         /\ r = "error" => Fault
  BY DEF Enqueue, Queued, Queues

\* No step of a cancellation strands the hold.
LEMMA CancelFollows ==
  ASSUME BatchInv, StrandInv, CancelRead \/ Cancel \/ CancelStops
  PROVE  StrandInv'
  <1>0. /\ job \in Jobs /\ wallet \in Wallets /\ prov \in Provs /\ queue \in Queues
        /\ budget \in Budgets /\ UNCHANGED <<sub, rec, wk>>
    BY DEF BatchInv, Types, CancelRead, Cancel, CancelTransition, CancelTask, CancelHold,
           CancelProvider, CancelEnqueue, CancelStops
  <1>1. ASSUME NoFault \/ Fault \/ Crash,
               wallet'.claims \in {wallet.claims, wallet.claims \cup {"release"}},
               job'.named = job.named, job'.status \in {job.status, "cancelled"},
               job'.status = "settling" <=> job.status = "settling",
               prov'.state = prov.state, queue'.lock = queue.lock,
               queue.inflight => queue'.inflight, Queued' => Queued \/ queue'.inflight
        PROVE  StrandInv'
    <2>1. budget' \in Budgets
      BY <1>0, <1>1, FaultTyped
    <2>2. Onward
      BY <1>0, <1>1, BudgetSpent DEF Onward
    <2>3. LockInv'
      BY <1>0, <1>1, <2>2, LocksKept
    <2>q. QED
      BY <1>0, <1>1, <2>1, <2>2, <2>3, QuietFollows
  <1>2. CASE CancelRead
    <2>1. UNCHANGED <<job, wallet, prov, queue>>
      BY <1>2 DEF CancelRead
    <2>2. /\ budget' \in Budgets
          /\ budget'.faults = budget.faults /\ budget'.crashes = budget.crashes
          /\ budget'.stalls = budget.stalls
      BY <1>0, <1>2, BatchAssumption DEF CancelRead, Budgets
    <2>3. Onward
      BY <1>0, <2>1, <2>2, BudgetSpent DEF Onward, Solo
    <2>4. LockInv'
      BY <1>0, <2>1, <2>3, LocksKept
    <2>q. QED
      BY <1>0, <2>1, <2>2, <2>3, <2>4, QuietFollows DEF Queued
  <1>3. CASE CancelTransition
    <2>1. PICK r \in Results : Transition("cancelled", r)
      BY <1>3 DEF CancelTransition
    <2>2. /\ job'.named = job.named /\ job'.status \in {job.status, "cancelled"}
          /\ job'.status = "settling" <=> job.status = "settling"
      BY <1>0, <2>1, TransitionEffect DEF CanTransition
    <2>q. QED
      BY <1>1, <1>3, <2>1, <2>2 DEF CancelTransition, Transition, Queued
  <1>4. CASE CancelTask
    BY <1>1, <1>4 DEF CancelTask, Queued
  <1>5. CASE CancelHold
    BY <1>1, <1>5, ReleaseAnswered DEF CancelHold, Queued
  <1>6. CASE CancelProvider
    BY <1>0, <1>1, <1>6 DEF CancelProvider, Queued, Provs
  <1>7. CASE CancelEnqueue
    BY <1>0, <1>1, <1>7, EnqueueKeeps DEF CancelEnqueue
  <1>8. CASE CancelStops
    BY <1>1, <1>8 DEF CancelStops, Queued
  <1>q. QED
    BY <1>2, <1>3, <1>4, <1>5, <1>6, <1>7, <1>8 DEF Cancel

\* Neither the queue's movers nor time nor the provider strand the hold.
LEMMA TimeFollows ==
  ASSUME BatchInv, StrandInv,
         \/ MoveDueDelayed \/ RecoverStaleActive \/ ActiveAges \/ LockExpires
         \/ \E w \in Workers : Heartbeat(w)
         \/ Touch \/ RowAges \/ ProviderEnds \/ DeleteOutput
         \/ UNCHANGED vars
  PROVE  StrandInv'
  <1>0. /\ job \in Jobs /\ wallet \in Wallets /\ prov \in Provs /\ queue \in Queues
        /\ budget \in Budgets
    BY DEF BatchInv, Types
  <1>1. UNCHANGED <<sub, rec, wk, wallet>> /\ (NoFault \/ Stall)
    BY DEF MoveDueDelayed, RecoverStaleActive, ActiveAges, LockExpires, Heartbeat, Touch, RowAges,
           ProviderEnds, DeleteOutput, vars
  <1>2. /\ job'.named = job.named
        /\ \/ job'.status = job.status
           \/ job.status = "completed" /\ job'.status = "output_deleted"
    BY <1>0 DEF MoveDueDelayed, RecoverStaleActive, ActiveAges, LockExpires, Heartbeat, Touch,
                RowAges, ProviderEnds, DeleteOutput, vars, Jobs
  <1>3. prov'.state = prov.state \/ prov.state = "running"
    BY <1>0 DEF MoveDueDelayed, RecoverStaleActive, ActiveAges, LockExpires, Heartbeat, Touch,
                RowAges, ProviderEnds, DeleteOutput, vars, Provs
  <1>4. queue.inflight => queue'.inflight
    BY <1>0 DEF MoveDueDelayed, RecoverStaleActive, ActiveAges, LockExpires, Heartbeat, Touch,
                RowAges, ProviderEnds, DeleteOutput, vars, Queues
  <1>5. Queued' => Queued
    BY <1>0 DEF MoveDueDelayed, RecoverStaleActive, ActiveAges, LockExpires, Heartbeat, Touch,
                RowAges, ProviderEnds, DeleteOutput, vars, Queues, Queued
  <1>6. budget' \in Budgets
    BY <1>0, <1>1, FaultTyped
  <1>7. Onward
    BY <1>0, <1>1, <1>2, <1>3, BudgetSpent DEF Onward
  <1>8. LockInv'
    <2>1. CASE LockExpires
      <3>1. CASE wk[queue.lock].locked
        BY <1>0, <2>1, <3>1, BudgetSpent DEF LockExpires, LockInv
      <3>2. CASE ~wk[queue.lock].locked
        BY <1>1, <1>7, <2>1, <3>2 DEF LockInv, StrandInv, Onward
      <3>q. QED
        BY <3>1, <3>2
    <2>2. CASE ~LockExpires
      <3>1. queue'.lock = queue.lock
        BY <1>0, <2>2 DEF MoveDueDelayed, RecoverStaleActive, ActiveAges, Heartbeat, Touch,
                RowAges, ProviderEnds, DeleteOutput, vars, Queues
      <3>q. QED
        BY <1>1, <1>7, <3>1, LocksKept
    <2>q. QED
      BY <2>1, <2>2
  <1>q. QED
    BY <1>0, <1>1, <1>2, <1>4, <1>5, <1>6, <1>7, <1>8, QuietFollows

(***************************************************************************)
(* The recovery and the submission, which may leave an unnamed job failed. *)
(***************************************************************************)
LEMMA CarerFollows ==
  ASSUME BatchInv, StrandInv, UNCHANGED wk, Onward,
         budget \in Budgets, budget' \in Budgets,
         queue'.lock = queue.lock, queue.inflight => queue'.inflight,
         Queued' => Queued \/ queue'.inflight,
         job'.status = "settling" <=> job.status = "settling",
         job'.status = "indexing" => job.status = "indexing",
         job'.status \in {"settling"} \cup Charged => job.status \in {"settling"} \cup Charged,
         job'.named /\ job'.status = "failed" => job.named /\ job.status = "failed",
         FaultInv', UnnamedInv'
  PROVE  StrandInv'
  <1>1. ResultInv' /\ QueueInv' /\ NamedInv'
    BY ResultsKept
  <1>2. LockInv'
    BY LocksKept
  <1>q. QED
    BY <1>1, <1>2 DEF StrandInv

\* The recovery gives a hold up only after a second failure.
LEMMA RecoverFollows ==
  ASSUME BatchInv, StrandInv, Recover \/ RecoverStops
  PROVE  StrandInv'
  <1>0. /\ job \in Jobs /\ wallet \in Wallets /\ prov \in Provs /\ queue \in Queues
        /\ budget \in Budgets /\ FaultInv /\ UnnamedInv /\ UNCHANGED <<sub, wk, prov>>
    BY DEF BatchInv, Types, StrandInv, Recover, RecoverList, FailStale, RecoverRelease,
           RecoverEnqueue, RecoverStops
  <1>1. NoFault \/ Fault \/ Crash
    BY DEF Recover, RecoverList, FailStale, RecoverRelease, RecoverEnqueue, RecoverStops,
           ReleaseHold, Billing, Enqueue
  <1>2. /\ wallet'.claims \in {wallet.claims, wallet.claims \cup {"release"}}
        /\ rec = "release" /\ rec' = "idle" => Over' \/ Crash
        /\ rec = "release" /\ rec' = "enqueue" => Over' \/ Fault
    BY ReleaseAnswered
    DEF Recover, RecoverList, FailStale, RecoverRelease, RecoverEnqueue, RecoverStops
  <1>3. /\ queue.inflight => queue'.inflight
        /\ queue'.lock = queue.lock
        /\ Queued' => Queued \/ queue'.inflight
        /\ rec = "enqueue" => rec' = "idle" /\ (queue'.inflight \/ Fault \/ Crash)
    BY <1>0, EnqueueKeeps
    DEF Recover, RecoverList, FailStale, RecoverRelease, RecoverEnqueue, RecoverStops, Queued
  <1>4. /\ job'.named = job.named
        /\ \/ job'.status = job.status
           \/ ~job.named /\ job.status \in Unsubmitted /\ job'.status = "failed"
              /\ (rec' = "release" \/ Crash)
    BY <1>0 DEF Recover, RecoverList, FailStale, RecoverRelease, RecoverEnqueue, RecoverStops, Jobs,
                Stale
  <1>5. /\ rec' = "enqueue" => rec = "release"
        /\ rec = "release" => rec' \in {"idle", "enqueue"}
    BY DEF Recover, RecoverList, FailStale, RecoverRelease, RecoverEnqueue, RecoverStops
  <1>6. Onward
    BY <1>0, <1>1, <1>2, <1>4, BudgetSpent DEF Onward
  <1>7. /\ Over => Over'
        /\ Held' => Held /\ ~Over'
        /\ Fault => budget'.faults = budget.faults + 1
        /\ Crash => budget'.crashes = budget.crashes + 1
        /\ budget.faults \in Nat /\ budget.crashes \in Nat
        /\ budget.faults <= budget'.faults /\ budget.crashes <= budget'.crashes
    BY <1>0, <1>1, <1>2, BudgetSpent DEF Over, Held
  <1>8. budget' \in Budgets /\ budget'.faults \in Nat /\ budget'.crashes \in Nat
    BY <1>0, <1>1, FaultTyped, BatchAssumption DEF Budgets
  <1>9. FaultInv'
    BY <1>0, <1>2, <1>5, <1>7, <1>8 DEF FaultInv
  <1>10. UnnamedInv'
    <2> SUFFICES ASSUME ~job'.named, job'.status = "failed", Held',
                        budget'.crashes = 0, budget'.faults <= 1
                 PROVE  queue'.inflight \/ sub' \in GivingUp \cup NeverHeld
                            \/ rec' \in {"release", "enqueue"}
      BY DEF UnnamedInv
    <2>1. Held /\ ~Over' /\ ~Over /\ ~Crash
      BY <1>7, <1>8
    <2>2. CASE rec' = "release"
      BY <2>2
    <2>3. CASE rec' # "release"
      <3>1. queue.inflight \/ sub \in GivingUp \cup NeverHeld \/ rec \in {"release", "enqueue"}
        BY <1>0, <1>4, <1>7, <1>8, <2>1, <2>3 DEF UnnamedInv
      <3>2. CASE queue.inflight
        BY <1>3, <3>2
      <3>3. CASE sub \in GivingUp \cup NeverHeld
        BY <1>0, <3>3
      <3>4. CASE rec = "release"
        BY <1>2, <1>5, <2>1, <3>4
      <3>5. CASE rec = "enqueue"
        <4>1. budget.faults >= 1
          BY <1>0, <2>1, <3>5 DEF FaultInv
        <4>2. ~Fault
          BY <1>7, <1>8, <4>1
        <4>q. QED
          BY <1>3, <2>1, <3>5, <4>2
      <3>q. QED
        BY <3>1, <3>2, <3>3, <3>4, <3>5
    <2>q. QED
      BY <2>2, <2>3
  <1>q. QED
    BY <1>0, <1>3, <1>4, <1>6, <1>8, <1>9, <1>10, CarerFollows

\* A step of the submission that leaves the hold and a failed job alone.
LEMMA SubmitIdles ==
  ASSUME BatchInv, StrandInv,
         \/ SubmitCreate \/ SubmitBind \/ SubmitItems \/ SubmitUpload \/ SubmitHide
         \/ SubmitIntent \/ SubmitProvider \/ SubmitName \/ SubmitAbort \/ SubmitBindAgain
         \/ SubmitEnqueue \/ SubmitReplay \/ SubmitReturn \/ SubmitStops
  PROVE  StrandInv'
  <1> USE DEF GivingUp, NeverHeld
  <1>0. /\ job \in Jobs /\ prov \in Provs /\ queue \in Queues /\ budget \in Budgets
        /\ FaultInv /\ UnnamedInv /\ SubmitInv
        /\ UNCHANGED <<wallet, can, rec, wk>>
    BY DEF BatchInv, Types, StrandInv, SubmitCreate, SubmitBind, SubmitItems, SubmitUpload,
           SubmitHide, SubmitIntent, SubmitProvider, SubmitName, SubmitAbort, SubmitBindAgain,
           SubmitEnqueue, SubmitReplay, SubmitReturn, SubmitStops
  <1>1. NoFault \/ Fault \/ Crash
    BY DEF SubmitCreate, SubmitBind, SubmitItems, SubmitUpload, Transition, SubmitHide,
           SubmitIntent, SubmitProvider, SubmitName, SubmitAbort, SubmitBindAgain, SubmitEnqueue,
           SubmitReplay, Enqueue, SubmitReturn, SubmitStops
  <1>2. /\ job.named => job'.named
        /\ \/ job'.status = job.status
           \/ job'.status \in {"created", "uploading", "submitted"} /\ job.status # "settling"
        /\ job'.named = job.named \/ job'.status = "submitted"
    BY <1>0 DEF SubmitCreate, SubmitBind, SubmitItems, SubmitUpload, Transition, SubmitHide,
           SubmitIntent, SubmitProvider, SubmitName, SubmitAbort, SubmitBindAgain, SubmitEnqueue,
           SubmitReplay, SubmitReturn, SubmitStops, Jobs, SubmitInv, CanTransition
  <1>3. prov'.state = prov.state \/ prov.state = "none"
    BY <1>0 DEF SubmitCreate, SubmitBind, SubmitItems, SubmitUpload, SubmitHide,
           SubmitIntent, SubmitProvider, SubmitName, SubmitAbort, SubmitBindAgain, SubmitEnqueue,
           SubmitReplay, SubmitReturn, SubmitStops, Provs, SubmitInv
  <1>4. queue'.lock = queue.lock /\ (queue.inflight => queue'.inflight)
    BY <1>0, EnqueueKeeps
    DEF SubmitCreate, SubmitBind, SubmitItems, SubmitUpload, SubmitHide,
        SubmitIntent, SubmitProvider, SubmitName, SubmitAbort, SubmitBindAgain, SubmitEnqueue,
        SubmitReplay, SubmitReturn, SubmitStops
  <1>5. Queued' => Queued \/ queue'.inflight
    BY <1>0, EnqueueKeeps
    DEF SubmitCreate, SubmitBind, SubmitItems, SubmitUpload, SubmitHide,
        SubmitIntent, SubmitProvider, SubmitName, SubmitAbort, SubmitBindAgain, SubmitEnqueue,
        SubmitReplay, SubmitReturn, SubmitStops, Queued
  <1>6. /\ sub \in GivingUp \cup NeverHeld => sub' \in NeverHeld \/ Crash
        /\ sub' \notin {"record", "intentFail", "stuck", "stuckEnqueue", "intentStuck"}
    BY DEF SubmitCreate, SubmitBind, SubmitItems, SubmitUpload, SubmitHide,
           SubmitIntent, SubmitProvider, SubmitName, SubmitAbort, SubmitBindAgain, SubmitEnqueue,
           SubmitReplay, SubmitReturn, SubmitStops
  <1>7. Onward
    BY <1>0, <1>1, <1>2, <1>3, BudgetSpent DEF Onward
  <1>8. budget' \in Budgets
    BY <1>0, <1>1, FaultTyped
  <1>9. /\ budget.faults \in Nat /\ budget.crashes \in Nat
        /\ budget'.faults \in Nat /\ budget'.crashes \in Nat
        /\ Crash => budget'.crashes = budget.crashes + 1
    BY <1>0, <1>8, BudgetSpent, BatchAssumption DEF Budgets
  <1>10. Over' = Over /\ Held' = Held
    BY <1>0 DEF Over, Held
  <1>11. FaultInv'
    BY <1>0, <1>6, <1>7, <1>9, <1>10 DEF FaultInv, Onward
  <1>12. UnnamedInv'
    <2> SUFFICES ASSUME ~job'.named, job'.status = "failed", Held',
                        budget'.crashes = 0, budget'.faults <= 1
                 PROVE  queue'.inflight \/ sub' \in GivingUp \cup NeverHeld
                            \/ rec' \in {"release", "enqueue"}
      BY DEF UnnamedInv
    <2>1. ~job.named /\ job.status = "failed" /\ Held /\ ~Crash
      BY <1>2, <1>9, <1>10
    <2>2. budget.crashes = 0 /\ budget.faults <= 1
      BY <1>7, <1>9 DEF Onward
    <2>q. QED
      BY <1>0, <1>4, <1>6, <2>1, <2>2 DEF UnnamedInv
  <1>13. /\ job'.named /\ job'.status = "failed" => job.named /\ job.status = "failed"
         /\ job'.status = "settling" <=> job.status = "settling"
         /\ job'.status = "indexing" => job.status = "indexing"
         /\ job'.status \in {"settling"} \cup Charged => job.status \in {"settling"} \cup Charged
    BY <1>2
  <1>q. QED
    BY <1>0, <1>4, <1>5, <1>7, <1>8, <1>11, <1>12, <1>13, CarerFollows

\* The submission gives a hold up only after a second failure.
LEMMA SubmitGivesUp ==
  ASSUME BatchInv, StrandInv,
         \/ SubmitHold \/ SubmitHoldFailed \/ SubmitReleaseHold \/ SubmitRecordFailure
         \/ SubmitEnqueueRelease \/ SubmitIntentRelease \/ SubmitIntentFail
  PROVE  StrandInv'
  <1> USE DEF GivingUp, NeverHeld
  <1>0. /\ job \in Jobs /\ wallet \in Wallets /\ queue \in Queues /\ budget \in Budgets
        /\ FaultInv /\ UnnamedInv /\ SubmitInv
        /\ UNCHANGED <<prov, can, rec, wk>>
    BY DEF BatchInv, Types, StrandInv, SubmitHold, SubmitHoldFailed, SubmitReleaseHold,
           SubmitRecordFailure, SubmitEnqueueRelease, SubmitIntentRelease, SubmitIntentFail
  <1>1. NoFault \/ Fault \/ Crash
    BY DEF SubmitHold, SubmitHoldFailed, SubmitReleaseHold, SubmitRecordFailure,
           SubmitEnqueueRelease, SubmitIntentRelease, SubmitIntentFail, ReserveHold, ReleaseHold,
           Billing, RecordSubmitFailure, Enqueue, Transition
  <1>2. ~job.named /\ job'.named = job.named /\ job'.status \in {job.status, "failed"}
    <2>1. ~job.named
      BY <1>0 DEF SubmitInv, SubmitHold, SubmitHoldFailed, SubmitReleaseHold, SubmitRecordFailure,
                  SubmitEnqueueRelease, SubmitIntentRelease, SubmitIntentFail
    <2>2. job'.named = job.named /\ job'.status \in {job.status, "failed"}
      BY <1>0 DEF SubmitHold, SubmitHoldFailed, SubmitReleaseHold, SubmitRecordFailure,
                  SubmitEnqueueRelease, SubmitIntentRelease, SubmitIntentFail,
                  RecordSubmitFailure, Transition, Jobs
    <2>q. QED
      BY <2>1, <2>2
  <1>3. /\ wallet.claims \subseteq wallet'.claims
        /\ sub # "hold" /\ "hold" \in wallet'.claims => "hold" \in wallet.claims
    BY ReleaseAnswered
    DEF SubmitHold, SubmitHoldFailed, SubmitReleaseHold, SubmitRecordFailure,
        SubmitEnqueueRelease, SubmitIntentRelease, SubmitIntentFail, ReserveHold, Billing
  <1>4. queue'.lock = queue.lock /\ (queue.inflight => queue'.inflight)
    BY <1>0, EnqueueKeeps
    DEF SubmitHold, SubmitHoldFailed, SubmitReleaseHold, SubmitRecordFailure,
        SubmitEnqueueRelease, SubmitIntentRelease, SubmitIntentFail
  <1>5. Queued' => Queued \/ queue'.inflight
    BY <1>0, EnqueueKeeps
    DEF SubmitHold, SubmitHoldFailed, SubmitReleaseHold, SubmitRecordFailure,
        SubmitEnqueueRelease, SubmitIntentRelease, SubmitIntentFail, Queued
  <1>6. Onward
    BY <1>0, <1>1, <1>2, <1>3, BudgetSpent DEF Onward
  <1>7. budget' \in Budgets
    BY <1>0, <1>1, FaultTyped
  <1>8. /\ budget.faults \in Nat /\ budget.crashes \in Nat
        /\ budget'.faults \in Nat /\ budget'.crashes \in Nat
        /\ Fault => budget'.faults = budget.faults + 1
        /\ Over => Over'
    BY <1>0, <1>3, <1>7, BudgetSpent, BatchAssumption DEF Budgets, Over
  <1>9. ASSUME sub' \in {"record", "intentFail"} => Over',
               sub' \in {"stuck", "stuckEnqueue", "intentStuck"} => Over' \/ budget'.faults >= 1,
               \/ sub' \in GivingUp \cup NeverHeld
               \/ Over' \/ queue'.inflight \/ budget'.faults > 1 \/ job'.status # "failed"
        PROVE  StrandInv'
    <2>1. FaultInv'
      BY <1>0, <1>6, <1>8, <1>9 DEF FaultInv, Onward
    <2>2. UnnamedInv'
      BY <1>8, <1>9 DEF UnnamedInv, Held, Over
    <2>3. /\ job'.status = "settling" <=> job.status = "settling"
          /\ job'.status = "indexing" => job.status = "indexing"
          /\ job'.status \in {"settling"} \cup Charged => job.status \in {"settling"} \cup Charged
      BY <1>0, <1>2 DEF SubmitInv
    <2>q. QED
      BY <1>0, <1>2, <1>4, <1>5, <1>6, <1>7, <2>1, <2>2, <2>3, CarerFollows
  <1>10. CASE SubmitHold
    BY <1>9, <1>10 DEF SubmitHold, ReserveHold, Billing
  <1>11. CASE SubmitHoldFailed
    BY <1>9, <1>11 DEF SubmitHoldFailed
  <1>12. CASE SubmitReleaseHold \/ SubmitIntentRelease
    <2>1. PICK r \in Results :
              /\ ReleaseHold(r)
              /\ IF r = "ok" THEN sub' \in {"record", "return", "intentFail"}
                             ELSE sub' \in {"stuck", "intentStuck"}
      BY <1>12 DEF SubmitReleaseHold, SubmitIntentRelease
    <2>2. /\ r # "error" => Over'
          /\ r = "error" => budget'.faults >= 1
      BY <1>8, <2>1, ReleaseAnswered
    <2>q. QED
      BY <1>9, <2>1, <2>2
  <1>13. CASE SubmitRecordFailure \/ SubmitIntentFail
    <2>1. \/ sub \in {"record", "intentFail"} /\ sub' \in {"hide", "return"}
          \/ sub \in {"stuck", "intentStuck"} /\ sub' = "stuckEnqueue"
      BY <1>13 DEF SubmitRecordFailure, SubmitIntentFail
    <2>2. budget.faults <= budget'.faults
      BY <1>6 DEF Onward
    <2>q. QED
      BY <1>0, <1>8, <1>9, <2>1, <2>2 DEF FaultInv
  <1>14. CASE SubmitEnqueueRelease
    <2>1. sub = "stuckEnqueue" /\ sub' = "return" /\ (queue'.inflight \/ Fault)
      BY <1>0, <1>14, EnqueueKeeps DEF SubmitEnqueueRelease
    <2>q. QED
      BY <1>0, <1>8, <1>9, <2>1 DEF FaultInv
  <1>q. QED
    BY <1>10, <1>11, <1>12, <1>13, <1>14

\* Every step keeps the invariant.
LEMMA StrandStep == BatchInv /\ StrandInv /\ [Next]_vars => StrandInv'
  <1> SUFFICES ASSUME BatchInv, StrandInv, [Next]_vars PROVE StrandInv'
    OBVIOUS
  <1>1. CASE Submit \/ SubmitStops \/ SubmitReplay
    BY <1>1, SubmitIdles, SubmitGivesUp DEF Submit
  <1>2. CASE CancelRead \/ Cancel \/ CancelStops
    BY <1>2, CancelFollows
  <1>3. CASE Recover \/ RecoverStops
    BY <1>3, RecoverFollows
  <1>4. ASSUME NEW w \in Workers, Worker(w) \/ SlotRefused(w) \/ WorkerError(w) \/ WorkerStops(w)
        PROVE  StrandInv'
    BY <1>4, ReadsFollow, QueuesFollow, ReleasesFollow, RowsFollow DEF Worker
  <1>5. CASE \/ MoveDueDelayed \/ RecoverStaleActive \/ ActiveAges \/ LockExpires
             \/ \E w \in Workers : Heartbeat(w)
             \/ Touch \/ RowAges \/ ProviderEnds \/ DeleteOutput
             \/ UNCHANGED vars
    BY <1>5, TimeFollows
  <1>q. QED
    BY <1>1, <1>2, <1>3, <1>4, <1>5 DEF Next

\* The initial states satisfy it.
LEMMA StrandInit == Init => StrandInv
  BY DEF Init, StrandInv, ResultInv, Follows, Settling, Settlers, Unlocked, LockInv, QueueInv,
         Queued, NamedInv, FaultInv, UnnamedInv

\* It holds in every behaviour.
LEMMA StrandInvariant == Spec => []StrandInv
  BY StrandInit, StrandStep, BatchInvariant, PTL DEF Spec

-----------------------------------------------------------------------------
(***************************************************************************)
(* The theorems.                                                           *)
(***************************************************************************)
\* Type correctness: whatever fails, stops or stalls, the row, the wallet and
\* the queue stay within their types; the balance is never negative and the
\* frozen balance never exceeds what the user's jobs hold.
THEOREM BatchTypes == Spec => []TypeOK
  <1>1. BatchInv => TypeOK
    BY DEF BatchInv, Types, TypeOK, Jobs, Wallets, Tasks, Provs, Queues, CanPcs, RecPcs,
           WorkerStates, Budgets
  <1>q. QED
    BY <1>1, BatchInvariant, PTL

\* The hold is charged or given back at most once and never both, and no money
\* appears or disappears (applyBatchImageBalanceHold), for any number of
\* workers, lost answers, crashes and cancellations.
THEOREM HoldIsAccounted == Spec => []HoldAccounted
  <1>1. BatchInv => HoldAccounted
    BY DEF BatchInv, DataInv
  <1>q. QED
    BY <1>1, BatchInvariant, PTL

\* A job is completed exactly when it was charged: captureUsageBilling-
\* BatchImageBalance commits both together and nothing undoes either.
THEOREM CompletedJobsAreCharged == Spec => []CompletedIsCharged
  <1>1. BatchInv => CompletedIsCharged
    BY DEF BatchInv, DataInv
  <1>q. QED
    BY <1>1, BatchInvariant, PTL

\* The hold of a job whose provider name was recorded goes back only when the
\* provider is done, or after the late Cancel that the property names.
THEOREM RefundedJobsAreStopped == Spec => []RefundedIsStopped
  <1>1. BatchInv => RefundedIsStopped
    BY DEF BatchInv, DataInv
  <1>q. QED
    BY <1>1, BatchInvariant, PTL

\* A job the provider works on, known by name or not, keeps its place among
\* the user's unfinished tasks (ReleaseTask and the deferred release of
\* Submit), unless it was cancelled by a Cancel that read the row before the
\* provider's job was in it and so asked the provider for nothing.
THEOREM CapacityIsHeld == Spec => []CapacityHeld
  <1>1. BatchInv /\ LateInv => CapacityHeld
    <2> SUFFICES ASSUME BatchInv, LateInv, prov.state = "running", task = "released"
                 PROVE  job.named /\ job.status = "cancelled" /\ ~prov.cancel
      BY DEF CapacityHeld
    <2>1. job.named /\ job.status = "cancelled"
      BY DEF BatchInv, DataInv, ProviderInv
    <2>q. QED
      BY <2>1 DEF LateInv
  <1>q. QED
    BY <1>1, BatchInvariant, LateInvariant, PTL

\* The hold of a failed job is not stranded.  As long as no heartbeat is late,
\* a job the provider had stays on the queue, whatever fails, stops or loses
\* its answer, until a worker has given its hold back (terminalHold in
\* Process, and the in-flight key that only an acknowledgement deletes).  For
\* one that two workers have, and for one that was given up before the
\* provider had it, one failed call never strands the hold: the worker,
\* Submit or ReleaseStaleUnsubmittedOnce goes on to release it.
THEOREM HoldsAreNotStranded == Spec => []NotStranded
  <1>1. BatchInv /\ StrandInv => NotStranded
    <2> SUFFICES ASSUME BatchInv, StrandInv, job.status = "failed", Held
                 PROVE  /\ job.named /\ budget.stalls = 0 => queue.inflight
                        /\ budget.crashes = 0 /\ budget.faults <= 1 =>
                              \/ queue.inflight \/ Releasing
                              \/ sub \in {"holdFail", "holdHide", "holdReturn", "holdError"}
      BY DEF NotStranded
    <2>1. ~Over /\ NamedInv
      BY DEF StrandInv, Held, Over
    <2>2. job.named /\ budget.stalls = 0 => queue.inflight
      BY <2>1 DEF NamedInv, Solo
    <2>3. ASSUME job.named, budget.crashes = 0, budget.faults <= 1
          PROVE  queue.inflight \/ Releasing
      BY <2>1, <2>3 DEF NamedInv, Finishing, Releasing
    <2>4. ASSUME ~job.named, budget.crashes = 0, budget.faults <= 1
          PROVE  \/ queue.inflight \/ Releasing
                 \/ sub \in {"holdFail", "holdHide", "holdReturn", "holdError"}
      BY <2>4 DEF StrandInv, UnnamedInv, GivingUp, NeverHeld, Releasing
    <2>q. QED
      BY <2>2, <2>3, <2>4
  <1>q. QED
    BY <1>1, BatchInvariant, StrandInvariant, PTL

=============================================================================
