------------------------ MODULE MCBalanceAdmission ------------------------
(***************************************************************************)
(* Instances of BalanceAdmission for TLC.                                  *)
(***************************************************************************)
EXTENDS BalanceAdmission, TLC

CONSTANTS r1, r2

Ones == [r \in Reqs |-> 1]
Twos == [r \in Reqs |-> 2]
Symmetry == Permutations(Reqs)

\* One request meets everything the balance cache can do.  Another joins it
\* only while the cache reflects the charges, and nothing disturbs the cache
\* from then on (a stale one has a run of its own).
Joins == cached /\ writes = {} /\ ChargesVisible
HoldNext ==
    \/ \E r \in Reqs :
        /\ pc[r] = "idle" => Joins \/ \A q \in Reqs : pc[q] = "idle"
        /\ Admission(r) \/ Renew(r) \/ Billing(r) \/ RedisErrors(r) \/ Crash(r)
    \/ /\ \E r \in Reqs : pc[r] = "idle"
       /\ CacheStep \/ \E r \in Reqs : SyncError(r)
    \/ \E m \in late : ExecLate(m)
    \/ Tick
HoldSpec == Init /\ [][HoldNext]_vars /\ Fairness

\* Redis is healthy; no time passes.
HealthyNext ==
    /\ (\E r \in Reqs : Admission(r) \/ Billing(r)) \/ CacheStep
    /\ late' = {}
HealthySpec == Init /\ [][HealthyNext]_vars
=============================================================================
