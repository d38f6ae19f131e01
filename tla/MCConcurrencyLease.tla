------------------------ MODULE MCConcurrencyLease ------------------------
(***************************************************************************)
(* Instances of ConcurrencyLease for TLC.  The full specification is       *)
(* explored on the shortest clocks.                                        *)
(***************************************************************************)
EXTENDS ConcurrencyLease, TLC

CONSTANTS o1, o2, u, i1

AllInU == [o \in Owners |-> u]
AllOnI1 == [o \in Owners |-> i1]
OwnExec == [o \in Owners |-> o]

Calls == \E o \in Owners : AdmitStep(o) \/ LeaseStep(o)

\* The limit is edited before the first request and, if it was, at any time.
Unused == \A o \in Owners : pc[o] = "idle"
Edited == \E o \in Owners : limit[GroupOf[o]] # 1 \/ (lim[o] = 0 /\ pc[o] # "idle")

\* Two requests run side by side for the one slot, while clients stay
\* connected, processes alive and releases unretried.  One after the other
\* they meet everything else, but for a disconnect: domains are independent,
\* so the client of one request disconnects while there is no other.
SideBySide == Cardinality(owners) > 1
Undisturbed == pending = {} /\ excused = {} /\ \A e \in Execs : ~parentDone[e]
DisconnectsAlone ==
    \A e \in Execs : parentDone[e] => \A o \in Owners : ExecOf[o] = e \/ pc[o] = "idle"

QuietNext == RedisStep \/ Calls \/ Tick
FullNext ==
    \/ Edited /\ (QuietNext \/ \E g \in Groups : SetLimit(g)) /\ ~SideBySide'
    \/ ~Edited /\ SideBySide /\ QuietNext
    \/ /\ ~Edited /\ ~SideBySide /\ Next
       /\ limit' = limit \/ Unused
       /\ SideBySide' => Undisturbed
       /\ DisconnectsAlone'
FullSpec == Init /\ [][FullNext]_vars

\* The cleanup worker is disabled: pending releases are retried by later
\* admissions only, and Redis is left to expire the rest.
NoWorkerNext ==
    \/ RedisStep \/ Calls \/ Tick
    \/ \E o \in Owners : RecoverCall(o) \/ RecoverReply(o) \/ RecoverError(o)
NoWorkerSpec == Init /\ [][NoWorkerNext]_vars /\ Fairness

OwnerSymmetry == Permutations(Owners)
=============================================================================
