-------------------------- MODULE BalanceProofs ---------------------------
(***************************************************************************)
(* Theorems about the reservations of one user, for any number of          *)
(* requests, estimates, failed calls and late calls, and any behaviour of  *)
(* the balance cache.                                                      *)
(***************************************************************************)
EXTENDS BalanceAdmission, FiniteSetTheorems, WellFoundedInduction, TLAPS

(***************************************************************************)
(* Totals over finite sets.  An induction on the set is an argument about  *)
(* a smallest set for which a law fails.                                   *)
(***************************************************************************)

Total(f, S) == MapThenSumSet(LAMBDA r : f[r], S)

Pick(S) == CHOOSE x \in S : TRUE

\* g computes the totals of f over the subsets of S
Computes(g, f, S) ==
  g = [s \in SUBSET S |-> IF s = {} THEN 0 ELSE f[Pick(s)] + g[s \ {Pick(s)}]]

\* Among some subsets of a finite set there is one that contains no other.
LEMMA SmallestSubset ==
  ASSUME NEW S, IsFiniteSet(S), NEW F \in SUBSET SUBSET S, F # {}
  PROVE  \E T \in F : \A U \in F : U \subseteq T => U = T
  <1>1. F \subseteq FiniteSubsetsOf(S)
    BY FS_Subset DEF FiniteSubsetsOf
  <1>2. PICK T \in F : \A U \in F : <<U, T>> \notin StrictSubsetOrdering(S)
    BY <1>1, FS_StrictSubsetOrderingWellFounded, WFMin
  <1>q. QED
    BY <1>2 DEF StrictSubsetOrdering

\* A total is the value, at the set, of a function that computes the totals.
LEMMA TotalUnfolded ==
  ASSUME NEW f, NEW S
  PROVE  Total(f, S) = (CHOOSE g : Computes(g, f, S))[S]
  BY DEF Total, Computes, Pick, MapThenSumSet, MapThenFoldSet

\* Two functions that compute the totals over two sets agree on what is in both.
LEMMA TotalsAgree ==
  ASSUME NEW f, NEW S, NEW T, IsFiniteSet(S), T \subseteq S,
         NEW g, Computes(g, f, S), NEW h, Computes(h, f, T)
  PROVE  \A U \in SUBSET T : g[U] = h[U]
  <1> DEFINE Bad == {U \in SUBSET T : g[U] # h[U]}
  <1>1. SUFFICES ASSUME Bad # {} PROVE FALSE
    OBVIOUS
  <1>2. PICK U \in Bad : \A V \in Bad : V \subseteq U => V = U
    <2>1. Bad \in SUBSET SUBSET T /\ IsFiniteSet(T)
      BY FS_Subset
    <2> HIDE DEF Bad
    <2>q. QED
      BY <1>1, <2>1, SmallestSubset
  <1>3. /\ g[U] = IF U = {} THEN 0 ELSE f[Pick(U)] + g[U \ {Pick(U)}]
        /\ h[U] = IF U = {} THEN 0 ELSE f[Pick(U)] + h[U \ {Pick(U)}]
    <2>1. U \in SUBSET S /\ U \in SUBSET T
      BY <1>2
    <2>q. QED
      BY <2>1 DEF Computes
  <1>4. U # {} => Pick(U) \in U
    BY DEF Pick
  <1>5. U # {} => g[U \ {Pick(U)}] = h[U \ {Pick(U)}]
    BY <1>2, <1>4
  <1>q. QED
    BY <1>2, <1>3, <1>5

\* The totals over a finite set can be computed.
LEMMA TotalsExist ==
  ASSUME NEW f, NEW S, IsFiniteSet(S)
  PROVE  \E g : Computes(g, f, S)
  <1> DEFINE Bad == {U \in SUBSET S : ~ \E g : Computes(g, f, U)}
             H(U) == CHOOSE g : Computes(g, f, U)
  <1>1. SUFFICES ASSUME Bad # {} PROVE FALSE
    OBVIOUS
  <1>2. PICK T \in Bad : \A V \in Bad : V \subseteq T => V = T
    <2>1. Bad \in SUBSET SUBSET S
      OBVIOUS
    <2> HIDE DEF Bad
    <2>q. QED
      BY <1>1, <2>1, SmallestSubset
  <1>3. \A U \in SUBSET T : U # T => Computes(H(U), f, U)
    BY <1>2
  <1> HIDE DEF H
  <1> DEFINE g == [s \in SUBSET T |->
                     IF s = {} THEN 0 ELSE f[Pick(s)] + H(s \ {Pick(s)})[s \ {Pick(s)}]]
  <1>4. ASSUME NEW s \in SUBSET T, s # {}
        PROVE  g[s \ {Pick(s)}] = H(s \ {Pick(s)})[s \ {Pick(s)}]
    <2> DEFINE u == s \ {Pick(s)}
               v == u \ {Pick(u)}
    <2>1. Pick(s) \in s
      BY <1>4 DEF Pick
    <2>2. u \in SUBSET T /\ u # T
      BY <2>1
    <2>3. Computes(H(u), f, u)
      BY <1>3, <2>2
    <2>4. H(u)[u] = IF u = {} THEN 0 ELSE f[Pick(u)] + H(u)[v]
      BY <2>3 DEF Computes
    <2>5. g[u] = IF u = {} THEN 0 ELSE f[Pick(u)] + H(v)[v]
      BY <2>2
    <2>6. v \in SUBSET u /\ v # T /\ IsFiniteSet(u)
      BY <2>2, FS_Subset
    <2>7. Computes(H(v), f, v)
      BY <1>3, <2>2, <2>6
    <2>8. H(u)[v] = H(v)[v]
      <3>1. v \in SUBSET v /\ v \subseteq u
        BY <2>6
      <3> HIDE DEF u, v
      <3>q. QED
        BY <2>3, <2>6, <2>7, <3>1, TotalsAgree
    <2>q. QED
      BY <2>4, <2>5, <2>8
  <1>5. Computes(g, f, T)
    BY <1>4 DEF Computes
  <1>q. QED
    BY <1>2, <1>5

\* The defining equation of a total.
LEMMA TotalByPick ==
  ASSUME NEW f, NEW S, IsFiniteSet(S)
  PROVE  Total(f, S) = IF S = {} THEN 0 ELSE f[Pick(S)] + Total(f, S \ {Pick(S)})
  <1> DEFINE R == S \ {Pick(S)}
             g == CHOOSE g : Computes(g, f, S)
             h == CHOOSE h : Computes(h, f, R)
  <1>1. IsFiniteSet(R)
    BY FS_Subset
  <1>2. Computes(g, f, S) /\ Computes(h, f, R)
    BY <1>1, TotalsExist
  <1>3. Total(f, S) = g[S] /\ Total(f, R) = h[R]
    BY TotalUnfolded
  <1> HIDE DEF g, h
  <1>4. g[S] = IF S = {} THEN 0 ELSE f[Pick(S)] + g[R]
    BY <1>2 DEF Computes
  <1>5. g[R] = h[R]
    BY <1>2, TotalsAgree
  <1>q. QED
    BY <1>3, <1>4, <1>5

\* A total of natural numbers is one.
LEMMA TotalType ==
  ASSUME NEW f, NEW S, IsFiniteSet(S), \A x \in S : f[x] \in Nat
  PROVE  Total(f, S) \in Nat
  <1> DEFINE Bad == {U \in SUBSET S : Total(f, U) \notin Nat}
  <1>1. SUFFICES ASSUME Bad # {} PROVE FALSE
    OBVIOUS
  <1>2. PICK U \in Bad : \A V \in Bad : V \subseteq U => V = U
    <2>1. Bad \in SUBSET SUBSET S
      OBVIOUS
    <2> HIDE DEF Bad
    <2>q. QED
      BY <1>1, <2>1, SmallestSubset
  <1>3. Total(f, U) = IF U = {} THEN 0 ELSE f[Pick(U)] + Total(f, U \ {Pick(U)})
    BY FS_Subset, TotalByPick
  <1>4. U # {} => Pick(U) \in U
    BY DEF Pick
  <1>5. U # {} => f[Pick(U)] \in Nat /\ Total(f, U \ {Pick(U)}) \in Nat
    BY <1>2, <1>4
  <1>q. QED
    BY <1>2, <1>3, <1>5

\* Any element can be taken out first.
LEMMA TotalAny ==
  ASSUME NEW f, NEW S, IsFiniteSet(S), \A x \in S : f[x] \in Nat, NEW e \in S
  PROVE  Total(f, S) = f[e] + Total(f, S \ {e})
  <1> DEFINE Bad == {U \in SUBSET S : \E x \in U : Total(f, U) # f[x] + Total(f, U \ {x})}
  <1>1. SUFFICES ASSUME Bad # {} PROVE FALSE
    OBVIOUS
  <1>2. PICK U \in Bad : \A V \in Bad : V \subseteq U => V = U
    <2>1. Bad \in SUBSET SUBSET S
      OBVIOUS
    <2> HIDE DEF Bad
    <2>q. QED
      BY <1>1, <2>1, SmallestSubset
  <1>3. PICK x \in U : Total(f, U) # f[x] + Total(f, U \ {x})
    BY <1>2
  <1> DEFINE p == Pick(U)
             W == (U \ {p}) \ {x}
  <1>4. p \in U
    BY <1>3 DEF Pick
  <1>5. Total(f, U) = f[p] + Total(f, U \ {p})
    BY <1>4, FS_Subset, TotalByPick
  <1> HIDE DEF p
  <1>6. p # x
    BY <1>3, <1>5
  <1>7. \A V \in SUBSET U : V # U => \A y \in V : Total(f, V) = f[y] + Total(f, V \ {y})
    BY <1>2
  <1>8. Total(f, U \ {p}) = f[x] + Total(f, W)
    <2>1. U \ {p} \in SUBSET U /\ U \ {p} # U /\ x \in U \ {p}
      BY <1>4, <1>6
    <2>q. QED
      BY <1>7, <2>1
  <1>9. Total(f, U \ {x}) = f[p] + Total(f, W)
    <2>1. U \ {x} \in SUBSET U /\ U \ {x} # U /\ p \in U \ {x} /\ (U \ {x}) \ {p} = W
      BY <1>4, <1>6
    <2>q. QED
      BY <1>7, <2>1
  <1>10. f[p] \in Nat /\ f[x] \in Nat /\ Total(f, W) \in Nat
    BY <1>2, <1>4, FS_Subset, TotalType
  <1>q. QED
    BY <1>3, <1>5, <1>8, <1>9, <1>10

\* A total is bounded by another, if each of its terms that counts is in the other.
LEMMA TotalBound ==
  ASSUME NEW S, IsFiniteSet(S), NEW T, IsFiniteSet(T), NEW f, NEW g,
         \A x \in S : f[x] \in Nat, \A x \in T : g[x] \in Nat,
         \A x \in S : f[x] # 0 => x \in T /\ f[x] <= g[x]
  PROVE  Total(f, S) <= Total(g, T)
  <1> DEFINE Bad == {U \in SUBSET (S \cup T) : ~(Total(f, S \cap U) <= Total(g, T \cap U))}
  <1>0. IsFiniteSet(S \cup T)
    BY FS_Union
  <1>1. ASSUME Bad # {} PROVE FALSE
    <2>1. PICK U \in Bad : \A V \in Bad : V \subseteq U => V = U
      <3>1. Bad \in SUBSET SUBSET (S \cup T)
        OBVIOUS
      <3> HIDE DEF Bad
      <3>q. QED
        BY <1>0, <1>1, <3>1, SmallestSubset
    <2>2. U # {}
      <3>1. S \cap {} = {} /\ T \cap {} = {} /\ Total(f, {}) = 0 /\ Total(g, {}) = 0
        BY FS_EmptySet, TotalByPick
      <3>2. Total(f, S \cap {}) <= Total(g, T \cap {})
        BY <3>1
      <3>q. QED
        BY <2>1, <3>2
    <2>3. PICK x \in U : TRUE
      BY <2>2
    <2> DEFINE V == U \ {x}
    <2>4. Total(f, S \cap V) <= Total(g, T \cap V)
      <3>1. V \in SUBSET (S \cup T) /\ V \notin Bad
        BY <2>1, <2>3
      <3>q. QED
        BY <3>1
    <2>5. /\ IsFiniteSet(S \cap U) /\ IsFiniteSet(T \cap U)
          /\ IsFiniteSet(S \cap V) /\ IsFiniteSet(T \cap V)
      BY FS_Intersection
    <2>6. /\ Total(f, S \cap V) \in Nat /\ Total(g, T \cap V) \in Nat
          /\ Total(f, S \cap U) \in Nat /\ Total(g, T \cap U) \in Nat
      BY <2>5, TotalType
    <2>7. IF x \in S THEN Total(f, S \cap U) = f[x] + Total(f, S \cap V)
                     ELSE S \cap U = S \cap V
      <3>1. (S \cap U) \ {x} = S \cap V
        OBVIOUS
      <3>2. CASE x \in S
        BY <2>5, <3>1, <3>2, TotalAny
      <3>q. QED
        BY <3>2
    <2>8. IF x \in T THEN Total(g, T \cap U) = g[x] + Total(g, T \cap V)
                     ELSE T \cap U = T \cap V
      <3>1. (T \cap U) \ {x} = T \cap V
        OBVIOUS
      <3>2. CASE x \in T
        BY <2>5, <3>1, <3>2, TotalAny
      <3>q. QED
        BY <3>2
    <2>9. ~(Total(f, S \cap U) <= Total(g, T \cap U))
      BY <2>1
    <2> HIDE DEF V, Bad
    <2>q. QED
      BY <2>4, <2>6, <2>7, <2>8, <2>9
  <1>2. S \cap (S \cup T) = S /\ T \cap (S \cup T) = T
    OBVIOUS
  <1>q. QED
    BY <1>1, <1>2

\* The total of no terms.
LEMMA TotalOfNone ==
  ASSUME NEW f
  PROVE  Total(f, {}) = 0
  BY FS_EmptySet, TotalByPick

---------------------------------------------------------------------------
(***************************************************************************)
(* The inductive invariant.                                                *)
(***************************************************************************)

RedisTyped == reserved \in [Reqs -> Nat] /\ left \in [Reqs -> (1 - TTL)..TTL]

\* Nobody ever saw, or will see, more than the balance the user had.
SpendInv ==
  /\ db <= Balance /\ cache <= Balance
  /\ \A w \in writes : IF w[1] = "set" THEN w[3] <= Balance ELSE w[3] >= 0
  /\ \A r \in Reqs : read[r] <= Balance
  /\ \A m \in late : m.balance <= Balance

\* Two members, expired or not, fit into the balance.
JointInv ==
  \A q, r \in Reqs : q # r /\ reserved[q] > 0 /\ reserved[r] > 0 => Inflight(Reqs) <= Balance

Early == {"idle", "checked", "loaded"}
HandlerRefs(r) == IF pc[r] \in {"running", "raising", "rejected"} THEN 1 ELSE 0
TaskRefs(r) == IF task[r] \in {"queued", "charged", "synced"} THEN 1 ELSE 0

\* A handle is counted by the handler and the billing task that use it, and
\* reserves at least its amount.
Handled(r) ==
  /\ pc[r] \in Early => r \notin owned
  /\ pc[r] \in Early \cup {"raising", "rejected"} => task[r] = "none"
  /\ pc[r] = "raising" => r \in owned
  /\ refs[r] = IF r \in owned THEN HandlerRefs(r) + TaskRefs(r) ELSE 0
  /\ r \in owned /\ reserved[r] > 0 => reserved[r] >= amount[r]
HandleInv == \A r \in Reqs : Handled(r)

\* A call still on its way reserves for a request that has no handle, or
\* releases a handle that is closed.
LateInv ==
  \A m \in late :
    /\ m.op = "reserve" => m.req \notin owned /\ pc[m.req] \notin Early
    /\ m.op = "release" => m.req \in owned /\ refs[m.req] = 0

BalanceInv == TypeOK /\ SpendInv /\ JointInv /\ HandleInv /\ LateInv

---------------------------------------------------------------------------
(***************************************************************************)
(* What a script does to the members.                                      *)
(***************************************************************************)

\* A live member stays so, an absent one stays away, and no amount is lowered.
Stays(r) ==
  /\ r \in Live => r \in Live'
  /\ reserved[r] = 0 => reserved'[r] = 0
  /\ reserved'[r] = 0 \/ reserved'[r] >= reserved[r]

\* The greater of two integers.
LEMMA MaxOfTwo ==
  ASSUME NEW a \in Int, NEW b \in Int
  PROVE  Max({a, b}) = IF a >= b THEN a ELSE b
  BY DEF Max

\* What is in flight is a total of the reserved amounts.
LEMMA InflightIsTotal ==
  /\ \A S : Inflight(S) = Total(reserved, S)
  /\ Inflight(Reqs)' = Total(reserved', Reqs)
  <1>1. \A S : Inflight(S) = Total(reserved, S)
    BY DEF Inflight, Total
  <1>2. Inflight(Reqs)' = Total(reserved', Reqs)
    BY DEF Inflight, Total, MapThenSumSet, MapThenFoldSet
  <1>q. QED
    BY <1>1, <1>2

\* A clock that lags sees every live member.
LEMMA LateClock ==
  ASSUME RedisTyped, NEW expiry \in 1..TTL
  PROVE  Live \subseteq LiveAt(TTL - expiry) /\ LiveAt(TTL - expiry) \subseteq Reqs
  BY AdmissionAssumption DEF RedisTyped, Live, LiveAt

\* Dropping members lowers the total.
LEMMA FewerMembers ==
  ASSUME RedisTyped, RedisTyped', JointInv, \A q \in Reqs : reserved'[q] \in {0, reserved[q]}
  PROVE  JointInv'
  <1>1. Total(reserved', Reqs) <= Total(reserved, Reqs)
    BY AdmissionAssumption, TotalBound DEF RedisTyped
  <1>2. Total(reserved', Reqs) \in Nat /\ Total(reserved, Reqs) \in Nat
    BY AdmissionAssumption, TotalType DEF RedisTyped
  <1>q. QED
    BY <1>1, <1>2, InflightIsTotal, AdmissionAssumption DEF JointInv, RedisTyped

\* Keeping the members a caller sees.
LEMMA KeepEffect ==
  ASSUME RedisTyped, JointInv, NEW S \in SUBSET Reqs, Keep(S)
  PROVE  /\ RedisTyped' /\ JointInv'
         /\ \A q \in Reqs : reserved'[q] = 0 \/ reserved'[q] = reserved[q]
         /\ \A q \in S : reserved'[q] = reserved[q] /\ left'[q] = left[q]
         /\ \A q \in Reqs \ S : reserved'[q] = 0
  <1>1. /\ \A q \in Reqs : reserved'[q] = 0 \/ reserved'[q] = reserved[q]
        /\ \A q \in S : reserved'[q] = reserved[q] /\ left'[q] = left[q]
        /\ \A q \in Reqs \ S : reserved'[q] = 0
    BY DEF Keep
  <1>2. RedisTyped'
    BY AdmissionAssumption DEF RedisTyped, Keep
  <1>q. QED
    BY <1>1, <1>2, FewerMembers

\* Writing a member next to the ones a caller sees.
LEMMA PutEffect ==
  ASSUME RedisTyped, NEW S \in SUBSET Reqs, NEW r \in Reqs, NEW amt \in Nat,
         NEW expiry \in 1..TTL, Put(S, r, amt, expiry),
         S \ {r} = {} \/ Inflight(S \ {r}) + amt <= Balance
  PROVE  /\ RedisTyped' /\ JointInv'
         /\ reserved'[r] = amt /\ left'[r] = expiry
         /\ \A q \in S \ {r} : reserved'[q] = reserved[q] /\ left'[q] = left[q]
         /\ \A q \in Reqs \ (S \cup {r}) : reserved'[q] = 0
  <1>1. /\ reserved'[r] = amt /\ left'[r] = expiry
        /\ \A q \in S \ {r} : reserved'[q] = reserved[q] /\ left'[q] = left[q]
        /\ \A q \in Reqs \ (S \cup {r}) : reserved'[q] = 0
    BY DEF Put
  <1>2. RedisTyped'
    BY AdmissionAssumption DEF RedisTyped, Put
  <1>3. CASE S \ {r} = {}
    BY <1>1, <1>2, <1>3 DEF JointInv
  <1>4. CASE Inflight(S \ {r}) + amt <= Balance
    <2>1. IsFiniteSet(Reqs \ {r}) /\ IsFiniteSet(S \ {r})
      BY AdmissionAssumption, FS_Subset
    <2>2. \A q \in Reqs \ {r} : reserved'[q] # 0 => q \in S \ {r} /\ reserved'[q] <= reserved[q]
      BY <1>1 DEF RedisTyped
    <2>3. Total(reserved', Reqs \ {r}) <= Total(reserved, S \ {r})
      BY <1>2, <2>1, <2>2, TotalBound DEF RedisTyped
    <2>4. Total(reserved', Reqs) = amt + Total(reserved', Reqs \ {r})
      BY <1>1, <1>2, AdmissionAssumption, TotalAny DEF RedisTyped
    <2>5. Total(reserved', Reqs \ {r}) \in Nat /\ Total(reserved, S \ {r}) \in Nat
      BY <1>2, <2>1, TotalType DEF RedisTyped
    <2>6. Total(reserved', Reqs) <= Balance
      BY <1>4, <2>3, <2>4, <2>5, InflightIsTotal, AdmissionAssumption
    <2>q. QED
      BY <1>1, <1>2, <2>6, InflightIsTotal DEF JointInv
  <1>q. QED
    BY <1>3, <1>4

\* Members whose amount and time are kept stay.
LEMMA MemberStays ==
  ASSUME RedisTyped, NEW q \in Reqs,
         \/ reserved'[q] = reserved[q] /\ left'[q] = left[q]
         \/ reserved'[q] = 0 /\ q \notin Live
  PROVE  Stays(q)
  BY DEF Stays, Live, LiveAt, RedisTyped

\* A reservation leaves the other members alone.
LEMMA ReserveEffect ==
  ASSUME RedisTyped, JointInv, NEW r \in Reqs, NEW amt \in Nat, NEW balance \in Int,
         balance <= Balance, NEW expiry \in 1..TTL, ReserveScript(r, amt, balance, expiry)
  PROVE  /\ RedisTyped' /\ JointInv' /\ \A q \in Reqs \ {r} : Stays(q)
         /\ Covers(LiveAt(TTL - expiry), amt, balance) => reserved'[r] = amt
  <1> DEFINE S == LiveAt(TTL - expiry)
  <1>1. Live \subseteq S /\ S \subseteq Reqs
    BY LateClock
  <1>2. CASE Covers(S, amt, balance)
    <2>1. Put(S, r, amt, expiry)
      BY <1>2 DEF ReserveScript
    <2>2. S \ {r} = {} \/ Inflight(S \ {r}) + amt <= Balance
      <3>1. IsFiniteSet(S) /\ IsFiniteSet(S \ {r})
        BY <1>1, AdmissionAssumption, FS_Subset
      <3>2. Total(reserved, S \ {r}) <= Total(reserved, S)
        BY <1>1, <3>1, TotalBound DEF RedisTyped
      <3>3. Total(reserved, S \ {r}) \in Nat /\ Total(reserved, S) \in Nat
        BY <1>1, <3>1, TotalType DEF RedisTyped
      <3>4. Inflight(S \ {r}) = Total(reserved, S \ {r}) /\ Inflight(S) = Total(reserved, S)
        BY InflightIsTotal
      <3> HIDE DEF S
      <3>q. QED
        BY <1>2, <3>2, <3>3, <3>4, AdmissionAssumption DEF Covers
    <2> HIDE DEF S
    <2>3. /\ RedisTyped' /\ JointInv' /\ reserved'[r] = amt
          /\ \A q \in S \ {r} : reserved'[q] = reserved[q] /\ left'[q] = left[q]
          /\ \A q \in Reqs \ (S \cup {r}) : reserved'[q] = 0
      BY <1>1, <2>1, <2>2, PutEffect
    <2>q. QED
      BY <1>1, <2>3, MemberStays
  <1>3. CASE ~Covers(S, amt, balance)
    <2>1. Keep(S)
      BY <1>3 DEF ReserveScript
    <2> HIDE DEF S
    <2>2. /\ RedisTyped' /\ JointInv'
          /\ \A q \in S : reserved'[q] = reserved[q] /\ left'[q] = left[q]
          /\ \A q \in Reqs \ S : reserved'[q] = 0
      BY <1>1, <2>1, KeepEffect
    <2>q. QED
      BY <1>1, <1>3, <2>2, MemberStays DEF S
  <1>q. QED
    BY <1>2, <1>3

\* An increase leaves every member alone, or raises the one it is for.
LEMMA UpdateEffect ==
  ASSUME RedisTyped, JointInv, NEW r \in Reqs, NEW amt \in Nat, NEW balance \in Int,
         balance <= Balance, NEW expiry \in 1..TTL, UpdateScript(r, amt, balance, expiry)
  PROVE  /\ RedisTyped' /\ JointInv' /\ \A q \in Reqs : Stays(q)
         /\ IF Raises(LiveAt(TTL - expiry), r, amt, balance)
            THEN reserved'[r] = amt ELSE r \in Live => reserved'[r] = reserved[r]
  <1> DEFINE S == LiveAt(TTL - expiry)
             e == Max({left[r], expiry})
  <1>1. Live \subseteq S /\ S \subseteq Reqs
    BY LateClock
  <1>2. CASE Raises(S, r, amt, balance)
    <2>1. Put(S, r, amt, e)
      BY <1>2 DEF UpdateScript
    <2>2. S \ {r} = {} \/ Inflight(S \ {r}) + amt <= Balance
      <3>1. IsFiniteSet(S \ {r})
        BY <1>1, AdmissionAssumption, FS_Subset
      <3>2. Total(reserved, S \ {r}) \in Nat
        BY <1>1, <3>1, TotalType DEF RedisTyped
      <3>3. Inflight(S \ {r}) = Total(reserved, S \ {r})
        BY InflightIsTotal
      <3> HIDE DEF S
      <3>q. QED
        BY <1>2, <3>2, <3>3, AdmissionAssumption DEF Raises, Covers
    <2>3. PICK z \in 1..TTL : z = e
      BY MaxOfTwo, AdmissionAssumption DEF RedisTyped
    <2>4. r \in S /\ amt > reserved[r]
      BY <1>2 DEF Raises
    <2> HIDE DEF S, e
    <2>5. /\ RedisTyped' /\ JointInv' /\ reserved'[r] = amt /\ left'[r] = z
          /\ \A q \in S \ {r} : reserved'[q] = reserved[q] /\ left'[q] = left[q]
          /\ \A q \in Reqs \ (S \cup {r}) : reserved'[q] = 0
      <3>1. Put(S, r, amt, z)
        BY <2>1, <2>3
      <3>2. reserved'[r] = amt /\ left'[r] = z
        BY <3>1 DEF Put
      <3>q. QED
        BY <1>1, <2>2, <2>3, <3>1, <3>2, PutEffect
    <2>6. Stays(r)
      <3>1. reserved[r] > 0
        BY <2>4 DEF S, LiveAt
      <3>q. QED
        BY <2>3, <2>4, <2>5, <3>1, AdmissionAssumption DEF Stays, Live, LiveAt, RedisTyped
    <2>7. \A q \in Reqs \ {r} : Stays(q)
      BY <1>1, <2>5, MemberStays
    <2>q. QED
      BY <1>2, <2>5, <2>6, <2>7 DEF S
  <1>3. CASE ~Raises(S, r, amt, balance)
    <2>1. Keep(S)
      BY <1>3 DEF UpdateScript
    <2> HIDE DEF S
    <2>2. /\ RedisTyped' /\ JointInv'
          /\ \A q \in S : reserved'[q] = reserved[q] /\ left'[q] = left[q]
          /\ \A q \in Reqs \ S : reserved'[q] = 0
      BY <1>1, <2>1, KeepEffect
    <2>q. QED
      BY <1>1, <1>3, <2>2, MemberStays DEF S
  <1>q. QED
    BY <1>2, <1>3

\* A release drops its member only.
LEMMA ReleaseEffect ==
  ASSUME RedisTyped, JointInv, NEW r \in Reqs, ReleaseScript(r)
  PROVE  /\ RedisTyped' /\ JointInv' /\ reserved'[r] = 0
         /\ \A q \in Reqs \ {r} : Stays(q)
  BY KeepEffect, MemberStays DEF ReleaseScript

\* A renewal leaves every member alone but for its time.
LEMMA RenewEffect ==
  ASSUME RedisTyped, JointInv, NEW r \in Reqs, NEW expiry \in 1..TTL, RenewScript(r, expiry)
  PROVE  /\ RedisTyped' /\ JointInv' /\ \A q \in Reqs : Stays(q)
  <1>1. CASE r \in LiveAt(TTL - expiry)
    <2>1. Put(Reqs, r, reserved[r], expiry)
      BY <1>1 DEF RenewScript
    <2>2. /\ reserved' = reserved /\ left' \in [Reqs -> (1 - TTL)..TTL]
          /\ left'[r] = expiry /\ \A q \in Reqs \ {r} : left'[q] = left[q]
      BY <2>1, AdmissionAssumption DEF Put, RedisTyped
    <2>3. RedisTyped' /\ JointInv'
      BY <2>2, InflightIsTotal DEF RedisTyped, JointInv
    <2>q. QED
      BY <2>2, <2>3, AdmissionAssumption DEF Stays, Live, LiveAt, RedisTyped
  <1>2. CASE r \notin LiveAt(TTL - expiry)
    <2>1. Keep(Reqs \ {r})
      BY <1>2 DEF RenewScript
    <2>2. r \notin Live
      BY <1>2, LateClock
    <2>3. /\ RedisTyped' /\ JointInv' /\ reserved'[r] = 0
          /\ \A q \in Reqs \ {r} : reserved'[q] = reserved[q] /\ left'[q] = left[q]
      BY <2>1, KeepEffect
    <2>q. QED
      BY <2>2, <2>3, MemberStays
  <1>q. QED
    BY <1>1, <1>2

---------------------------------------------------------------------------
(***************************************************************************)
(* What a step does to the members.                                        *)
(***************************************************************************)

\* The member of a handle stays, or its time runs out, or nobody needs it.
Survives(q) == Stays(q) \/ Lapses(q) \/ (~Needed(q)' /\ reserved'[q] = 0)
MembersKept == RedisTyped' /\ JointInv' /\ \A q \in owned : Survives(q)

\* A step that does not call Redis.
LEMMA RedisUnchanged ==
  ASSUME RedisTyped, JointInv, owned \subseteq Reqs, UNCHANGED <<reserved, left>>
  PROVE  MembersKept
  <1>1. RedisTyped' /\ JointInv'
    BY InflightIsTotal DEF RedisTyped, JointInv
  <1>2. \A q \in owned : Stays(q)
    BY MemberStays
  <1>q. QED
    BY <1>1, <1>2 DEF MembersKept, Survives

\* A request returns its reference.
LEMMA DecRefKeeps ==
  ASSUME BalanceInv, NEW r \in Reqs, DecRef(r), refs[r] = 1 => ~Needed(r)'
  PROVE  MembersKept
  <1>0. RedisTyped /\ JointInv /\ owned \subseteq Reqs
    BY DEF BalanceInv, TypeOK, RedisTyped
  <1>1. CASE UNCHANGED <<reserved, left>>
    BY <1>0, <1>1, RedisUnchanged
  <1>2. CASE refs[r] = 1 /\ ReleaseScript(r)
    <2>1. /\ RedisTyped' /\ JointInv' /\ reserved'[r] = 0
          /\ \A q \in Reqs \ {r} : Stays(q)
      BY <1>0, <1>2, ReleaseEffect
    <2>q. QED
      BY <1>0, <1>2, <2>1 DEF MembersKept, Survives
  <1>q. QED
    BY <1>1, <1>2 DEF DecRef, Unanswered, redis

\* A call that failed is executed.
LEMMA LateKeeps ==
  ASSUME BalanceInv, NEW m \in late, ExecLate(m)
  PROVE  MembersKept
  <1>0. RedisTyped /\ JointInv /\ owned \subseteq Reqs
    BY DEF BalanceInv, TypeOK, RedisTyped
  <1>1. /\ m.op \in {"reserve", "update", "renew", "release"} /\ m.req \in Reqs
        /\ m.amount \in Nat /\ m.balance \in Int /\ m.expiry \in 1..TTL
        /\ m.balance <= Balance
    BY DEF BalanceInv, TypeOK, SpendInv
  <1>2. CASE m.op = "reserve" /\ ReserveScript(m.req, m.amount, m.balance, m.expiry)
    <2>1. m.req \notin owned
      BY <1>2 DEF BalanceInv, LateInv
    <2>2. RedisTyped' /\ JointInv' /\ \A q \in Reqs \ {m.req} : Stays(q)
      BY <1>0, <1>1, <1>2, ReserveEffect
    <2>q. QED
      BY <1>0, <2>1, <2>2 DEF MembersKept, Survives
  <1>3. CASE m.op = "update" /\ UpdateScript(m.req, m.amount, m.balance, m.expiry)
    <2>1. RedisTyped' /\ JointInv' /\ \A q \in Reqs : Stays(q)
      BY <1>0, <1>1, <1>3, UpdateEffect
    <2>q. QED
      BY <1>0, <2>1 DEF MembersKept, Survives
  <1>4. CASE m.op = "renew" /\ RenewScript(m.req, m.expiry)
    <2>1. RedisTyped' /\ JointInv' /\ \A q \in Reqs : Stays(q)
      BY <1>0, <1>1, <1>4, RenewEffect
    <2>q. QED
      BY <1>0, <2>1 DEF MembersKept, Survives
  <1>5. CASE m.op = "release" /\ ReleaseScript(m.req)
    <2>1. /\ RedisTyped' /\ JointInv' /\ reserved'[m.req] = 0
          /\ \A q \in Reqs \ {m.req} : Stays(q)
      BY <1>0, <1>1, <1>5, ReleaseEffect
    <2>2. ~Needed(m.req)
      BY <1>1, <1>5 DEF BalanceInv, LateInv, HandleInv, Handled, HandlerRefs, TaskRefs, Needed, Unbilled
    <2>3. ~Needed(m.req)'
      BY <2>2 DEF ExecLate, bill, Needed, Unbilled
    <2>q. QED
      BY <1>0, <2>1, <2>3 DEF MembersKept, Survives
  <1>q. QED
    BY <1>1, <1>2, <1>3, <1>4, <1>5 DEF ExecLate

\* Time passes.
LEMMA TickKeeps ==
  ASSUME BalanceInv, Tick
  PROVE  MembersKept
  <1>0. RedisTyped /\ JointInv /\ owned \subseteq Reqs
    BY DEF BalanceInv, TypeOK, RedisTyped
  <1>1. \A r \in Reqs : left'[r] = IF reserved[r] = 0 THEN 0
                                   ELSE IF left[r] - 1 >= 1 - TTL THEN left[r] - 1 ELSE 1 - TTL
    <2>1. ASSUME NEW r \in Reqs
          PROVE  Max({left[r] - 1, 1 - TTL}) = IF left[r] - 1 >= 1 - TTL THEN left[r] - 1 ELSE 1 - TTL
      BY <1>0, MaxOfTwo, AdmissionAssumption DEF RedisTyped
    <2>q. QED
      BY <2>1 DEF Tick
  <1>2. reserved' = reserved /\ left' \in [Reqs -> (1 - TTL)..TTL]
    BY <1>0, <1>1, AdmissionAssumption DEF Tick, RedisTyped
  <1>3. RedisTyped' /\ JointInv'
    BY <1>0, <1>2, InflightIsTotal DEF RedisTyped, JointInv
  <1>4. ASSUME NEW q \in owned
        PROVE  Stays(q) \/ Lapses(q)
    <2>1. CASE q \in Live /\ left[q] = 1
      BY <1>0, <1>2, <2>1 DEF Tick, Timely, Lapses
    <2>2. CASE ~(q \in Live /\ left[q] = 1)
      BY <1>0, <1>1, <1>2, <2>2, AdmissionAssumption DEF Stays, Live, LiveAt, RedisTyped
    <2>q. QED
      BY <2>1, <2>2
  <1>q. QED
    BY <1>3, <1>4 DEF MembersKept, Survives

\* A step keeps the members of the handles, within the balance.
LEMMA StepKeepsMembers ==
  ASSUME BalanceInv, Next
  PROVE  MembersKept
  <1>0. RedisTyped /\ JointInv /\ owned \subseteq Reqs
    BY DEF BalanceInv, TypeOK, RedisTyped
  <1>1. ASSUME NEW r \in Reqs, Check(r) \/ Load(r) \/ Submit(r) \/ Charge(r) \/ Sync(r)
                                 \/ SyncError(r) \/ Crash(r)
        PROVE  MembersKept
    <2>1. UNCHANGED <<reserved, left>>
      BY <1>1 DEF Check, Load, Submit, Charge, Sync, SyncError, Crash, redis
    <2>q. QED
      BY <1>0, <2>1, RedisUnchanged
  <1>2. ASSUME NEW r \in Reqs, Reserve(r) \/ ReserveTwice(r) \/ ReserveError(r)
        PROVE  MembersKept
    <2>1. r \notin owned /\ Estimate[r] \in Nat /\ read[r] \in Int /\ read[r] <= Balance
      BY <1>2, AdmissionAssumption
         DEF Reserve, ReserveTwice, ReserveError, BalanceInv, HandleInv, Handled, Early, SpendInv, TypeOK
    <2>2. CASE UNCHANGED <<reserved, left>>
      BY <1>0, <2>2, RedisUnchanged
    <2>3. CASE ReserveScript(r, Estimate[r], read[r], TTL)
      <3>1. TTL \in 1..TTL
        BY AdmissionAssumption
      <3>2. RedisTyped' /\ JointInv' /\ \A q \in Reqs \ {r} : Stays(q)
        BY <1>0, <2>1, <2>3, <3>1, ReserveEffect
      <3>q. QED
        BY <1>0, <2>1, <3>2 DEF MembersKept, Survives
    <2>q. QED
      BY <1>2, <2>2, <2>3 DEF Reserve, ReserveTwice, ReserveError, Unanswered
  <1>3. ASSUME NEW r \in Reqs, Raise(r) \/ RaiseError(r)
        PROVE  MembersKept
    <2>1. NewAmount(r) \in Nat /\ read[r] \in Int /\ read[r] <= Balance
      BY AdmissionAssumption DEF NewAmount, BalanceInv, SpendInv, TypeOK
    <2>2. CASE UNCHANGED <<reserved, left>>
      BY <1>0, <2>2, RedisUnchanged
    <2>3. CASE UpdateScript(r, NewAmount(r), read[r], TTL)
      <3>1. TTL \in 1..TTL
        BY AdmissionAssumption
      <3>2. RedisTyped' /\ JointInv' /\ \A q \in Reqs : Stays(q)
        BY <1>0, <2>1, <2>3, <3>1, UpdateEffect
      <3>q. QED
        BY <1>0, <3>2 DEF MembersKept, Survives
    <2>q. QED
      BY <1>3, <2>2, <2>3 DEF Raise, RaiseError, Unanswered
  <1>4. ASSUME NEW r \in Reqs, Renew(r) \/ RenewError(r)
        PROVE  MembersKept
    <2>1. CASE UNCHANGED <<reserved, left>>
      BY <1>0, <2>1, RedisUnchanged
    <2>2. CASE RenewScript(r, TTL)
      <3>1. TTL \in 1..TTL
        BY AdmissionAssumption
      <3>2. RedisTyped' /\ JointInv' /\ \A q \in Reqs : Stays(q)
        BY <1>0, <2>2, <3>1, RenewEffect
      <3>q. QED
        BY <1>0, <3>2 DEF MembersKept, Survives
    <2>q. QED
      BY <1>4, <2>1, <2>2 DEF Renew, RenewError, Unanswered
  <1>5. ASSUME NEW r \in Reqs, HandlerDone(r)
        PROVE  MembersKept
    <2>1. pc'[r] = "finished" /\ task' = task
      BY <1>5 DEF HandlerDone, Goto, bill, BalanceInv, TypeOK
    <2>2. refs[r] = 1 => ~Needed(r)'
      BY <1>5, <2>1 DEF HandlerDone, BalanceInv, HandleInv, Handled, HandlerRefs, TaskRefs, Needed, Unbilled
    <2>q. QED
      BY <1>5, <2>2, DecRefKeeps DEF HandlerDone
  <1>6. ASSUME NEW r \in Reqs, TaskDone(r)
        PROVE  MembersKept
    <2>1. task'[r] = "done" /\ pc' = pc
      BY <1>6 DEF TaskDone, BalanceInv, TypeOK
    <2>2. refs[r] = 1 => ~Needed(r)'
      BY <1>6, <2>1 DEF TaskDone, BalanceInv, HandleInv, Handled, HandlerRefs, TaskRefs, Needed, Unbilled
    <2>q. QED
      BY <1>6, <2>2, DecRefKeeps DEF TaskDone
  <1>7. ASSUME CacheStep
        PROVE  MembersKept
    <2>1. UNCHANGED <<reserved, left>>
      BY <1>7 DEF CacheStep, ExecWrite, CacheExpires, redis
    <2>q. QED
      BY <1>0, <2>1, RedisUnchanged
  <1>q. QED
    BY <1>1, <1>2, <1>3, <1>4, <1>5, <1>6, <1>7, LateKeeps, TickKeeps
       DEF Next, Admission, Billing, Failures, RedisErrors

---------------------------------------------------------------------------
(***************************************************************************)
(* The types, and the balances everybody saw.                              *)
(***************************************************************************)

WalletTyped ==
  /\ db \in Int /\ cache \in Int
  /\ writes \subseteq ({"set", "deduct"} \X Reqs \X Int)
LateTyped ==
  late \subseteq [op : {"reserve", "update", "renew", "release"}, req : Reqs,
                  amount : Nat, balance : Int, expiry : 1..TTL]
CallTyped ==
  /\ pc \in [Reqs -> Phases] /\ read \in [Reqs -> Int]
  /\ amount \in [Reqs -> Nat] /\ refs \in [Reqs -> 0..2]
  /\ owned \subseteq Reqs /\ renewing \subseteq owned
  /\ task \in [Reqs -> Tasks] /\ cost \in [Reqs -> Nat] /\ newBalance \in [Reqs -> Int]

\* The parts of the type invariant.
LEMMA TypeParts ==
  /\ TypeOK <=> RedisTyped /\ WalletTyped /\ cached \in BOOLEAN /\ LateTyped /\ CallTyped
  /\ TypeOK' <=> RedisTyped' /\ WalletTyped' /\ (cached \in BOOLEAN)' /\ LateTyped' /\ CallTyped'
  BY DEF TypeOK, RedisTyped, WalletTyped, LateTyped, CallTyped

\* The cache has an entry or none.
LEMMA CachedTyped ==
  ASSUME BalanceInv, Next
  PROVE  cached' \in BOOLEAN
  <1>0. cached \in BOOLEAN
    BY DEF BalanceInv, TypeOK
  <1>1. ASSUME NEW r \in Reqs, Sync(r) \/ SyncError(r)
        PROVE  cached' \in BOOLEAN
    BY <1>0, <1>1 DEF Sync, SyncError, Deducted
  <1>2. ASSUME CacheStep
        PROVE  cached' \in BOOLEAN
    BY <1>0, <1>2 DEF CacheStep, ExecWrite, CacheExpires
  <1>3. ASSUME cached' = cached
        PROVE  cached' \in BOOLEAN
    BY <1>0, <1>3
  <1>q. QED
    BY <1>1, <1>2, <1>3
       DEF Next, Admission, Billing, Failures, RedisErrors, wallet, Check, Load, Reserve, ReserveTwice,
           ReserveError, Raise, RaiseError, Renew, RenewError, Submit, HandlerDone, Charge, TaskDone,
           Crash, ExecLate, Tick

\* The database, the cache and the queued writes: their types, and that none
\* of them holds more than the balance the user had.
LEMMA WalletStep ==
  ASSUME BalanceInv, Next
  PROVE  /\ WalletTyped' /\ db' <= Balance /\ cache' <= Balance
         /\ \A w \in writes' : IF w[1] = "set" THEN w[3] <= Balance ELSE w[3] >= 0
  <1> DEFINE Result ==
        /\ WalletTyped' /\ db' <= Balance /\ cache' <= Balance
        /\ \A w \in writes' : IF w[1] = "set" THEN w[3] <= Balance ELSE w[3] >= 0
  <1>0. WalletTyped /\ CallTyped /\ SpendInv /\ Balance \in Nat
    BY TypeParts, AdmissionAssumption DEF BalanceInv
  <1>1. ASSUME NEW r \in Reqs, Check(r) \/ Load(r)
        PROVE  Result
    BY <1>0, <1>1 DEF Check, Load, FillCache, WalletTyped, SpendInv
  <1>2. ASSUME NEW r \in Reqs, Charge(r) \/ Sync(r) \/ SyncError(r)
        PROVE  Result
    BY <1>0, <1>2 DEF Charge, Sync, SyncError, Deducted, WalletTyped, CallTyped, SpendInv
  <1>3. ASSUME CacheStep
        PROVE  Result
    BY <1>0, <1>3 DEF CacheStep, ExecWrite, CacheExpires, WalletTyped, SpendInv
  <1>4. ASSUME UNCHANGED wallet
        PROVE  Result
    BY <1>0, <1>4 DEF wallet, WalletTyped, SpendInv
  <1> HIDE DEF Result
  <1>5. Result
    BY <1>1, <1>2, <1>3, <1>4
       DEF Next, Admission, Billing, Failures, RedisErrors, Reserve, ReserveTwice, ReserveError, Raise,
           RaiseError, Renew, RenewError, Submit, HandlerDone, TaskDone, Crash, ExecLate, Tick
  <1>q. QED
    BY <1>5 DEF Result

\* The handlers and the billing tasks: their types, and that none of them
\* read more than the balance the user had.
LEMMA CallStep ==
  ASSUME BalanceInv, Next
  PROVE  CallTyped' /\ \A r \in Reqs : read'[r] <= Balance
  <1> DEFINE Result == CallTyped' /\ \A r \in Reqs : read'[r] <= Balance
  <1>0. /\ WalletTyped /\ CallTyped /\ SpendInv /\ Balance \in Nat
        /\ Estimate \in [Reqs -> Nat] /\ Selected \in [Reqs -> Nat]
    BY TypeParts, AdmissionAssumption DEF BalanceInv
  <1>1. ASSUME NEW r \in Reqs, Check(r) \/ Load(r)
        PROVE  Result
    BY <1>0, <1>1
       DEF Check, Load, ReadBalance, Goto, handle, bill, WalletTyped, CallTyped, SpendInv, Phases
  <1>2. ASSUME NEW r \in Reqs, Reserve(r) \/ ReserveTwice(r) \/ ReserveError(r)
        PROVE  Result
    BY <1>0, <1>2
       DEF Reserve, ReserveTwice, ReserveError, Admitted, ForgetRead, Goto, handle, bill, CallTyped,
           SpendInv, Phases
  <1>3. ASSUME NEW r \in Reqs, Raise(r) \/ RaiseError(r)
        PROVE  Result
    BY <1>0, <1>3
       DEF Raise, RaiseError, NewAmount, ForgetRead, Goto, handle, bill, CallTyped, SpendInv, Phases
  <1>4. ASSUME NEW r \in Reqs, Renew(r) \/ RenewError(r)
        PROVE  Result
    BY <1>0, <1>4 DEF Renew, RenewError, handle, bill, CallTyped, SpendInv
  <1>5. ASSUME NEW r \in Reqs, Submit(r)
        PROVE  Result
    <2>1. refs[r] \in 0..1
      BY <1>0, <1>5 DEF Submit, BalanceInv, HandleInv, Handled, HandlerRefs, TaskRefs
    <2>2. refs' \in [Reqs -> 0..2]
      BY <1>0, <1>5, <2>1 DEF Submit, CallTyped
    <2>q. QED
      BY <1>0, <1>5, <2>2 DEF Submit, CallTyped, SpendInv, Tasks
  <1>6. ASSUME NEW r \in Reqs, HandlerDone(r) \/ TaskDone(r)
        PROVE  Result
    BY <1>0, <1>6 DEF HandlerDone, TaskDone, DecRef, StopRenewal, Goto, bill, CallTyped, SpendInv, Phases, Tasks
  <1>7. ASSUME NEW r \in Reqs, Charge(r) \/ Sync(r) \/ SyncError(r)
        PROVE  Result
    BY <1>0, <1>7 DEF Charge, Sync, SyncError, handle, WalletTyped, CallTyped, SpendInv, Tasks
  <1>8. ASSUME NEW r \in Reqs, Crash(r)
        PROVE  Result
    BY <1>0, <1>8 DEF Crash, ForgetRead, Goto, CallTyped, SpendInv, Phases, Tasks
  <1>9. ASSUME UNCHANGED <<pc, read, handle, bill>>
        PROVE  Result
    BY <1>0, <1>9 DEF handle, bill, CallTyped, SpendInv
  <1> HIDE DEF Result
  <1>10. Result
    BY <1>1, <1>2, <1>3, <1>4, <1>5, <1>6, <1>7, <1>8, <1>9
       DEF Next, Admission, Billing, Failures, RedisErrors, CacheStep, ExecWrite, CacheExpires, ExecLate, Tick
  <1>q. QED
    BY <1>10 DEF Result

---------------------------------------------------------------------------
(***************************************************************************)
(* The handles and the calls on their way.                                 *)
(***************************************************************************)

\* What a step of other requests leaves of a handle.
SameCall(q) ==
  /\ pc'[q] = pc[q] /\ task'[q] = task[q] /\ refs'[q] = refs[q] /\ amount'[q] = amount[q]
  /\ q \in owned' <=> q \in owned

\* A handle that a step leaves alone is handled as before.
LEMMA OthersHandled ==
  ASSUME BalanceInv, Next, NEW q \in Reqs, SameCall(q)
  PROVE  Handled(q)'
  <1>1. Handled(q) /\ (q \in owned => Survives(q))
    BY StepKeepsMembers DEF BalanceInv, HandleInv, MembersKept
  <1>2. /\ reserved[q] \in Nat /\ reserved'[q] \in Nat /\ amount[q] \in Nat
    BY StepKeepsMembers, TypeParts DEF BalanceInv, MembersKept, RedisTyped, CallTyped
  <1>3. q \in owned => reserved'[q] = 0 \/ (reserved[q] > 0 /\ reserved'[q] >= reserved[q])
    BY <1>1, <1>2 DEF Survives, Stays, Lapses
  <1>q. QED
    BY <1>1, <1>2, <1>3 DEF SameCall, Handled, HandlerRefs, TaskRefs

\* A step keeps what is known of the handles; a request that got no handle, or
\* closed it, gets none.
LEMMA HandleStep ==
  ASSUME BalanceInv, Next
  PROVE  /\ HandleInv'
         /\ owned \subseteq owned'
         /\ \A q \in Reqs : /\ q \notin owned /\ pc[q] \notin Early
                                => q \notin owned' /\ pc'[q] \notin Early
                            /\ q \in owned /\ refs[q] = 0 => refs'[q] = 0
  <1> DEFINE Lasting(q) == /\ q \in owned => q \in owned'
                           /\ q \notin owned /\ pc[q] \notin Early
                                => q \notin owned' /\ pc'[q] \notin Early
                           /\ q \in owned /\ refs[q] = 0 => refs'[q] = 0
  <1>0. /\ CallTyped /\ CallTyped' /\ RedisTyped /\ RedisTyped' /\ HandleInv
        /\ \A q \in owned : Survives(q)
        /\ TTL \in 1..TTL /\ Estimate \in [Reqs -> Nat] /\ Selected \in [Reqs -> Nat]
    BY TypeParts, CallStep, StepKeepsMembers, AdmissionAssumption DEF BalanceInv, MembersKept
  <1>1. ASSUME NEW r \in Reqs, Handled(r)', Lasting(r), \A q \in Reqs \ {r} : SameCall(q)
        PROVE  HandleInv' /\ \A q \in Reqs : Lasting(q)
    BY <1>1, OthersHandled DEF HandleInv, SameCall
  <1>2. ASSUME \A q \in Reqs : SameCall(q)
        PROVE  HandleInv' /\ \A q \in Reqs : Lasting(q)
    BY <1>2, OthersHandled DEF HandleInv, SameCall
  <1>3. ASSUME NEW r \in Reqs, Check(r) \/ Load(r)
        PROVE  HandleInv' /\ \A q \in Reqs : Lasting(q)
    <2>1. \A q \in Reqs \ {r} : SameCall(q)
      BY <1>0, <1>3 DEF Check, Load, Goto, handle, bill, SameCall, CallTyped
    <2>2. /\ reserved' = reserved /\ refs' = refs /\ owned' = owned /\ task' = task /\ amount' = amount
          /\ \/ pc[r] = "idle" /\ pc'[r] \in {"rejected", "checked"}
             \/ pc[r] = "checked" /\ pc'[r] = "loaded"
             \/ pc[r] = "running" /\ refs[r] > 0 /\ task[r] = "none" /\ pc'[r] = "raising"
      BY <1>0, <1>3 DEF Check, Load, Goto, redis, handle, bill, CallTyped
    <2>3. Handled(r)' /\ Lasting(r)
      BY <1>0, <2>2 DEF HandleInv, Handled, HandlerRefs, TaskRefs, Early
    <2>q. QED
      BY <1>1, <2>1, <2>3
  <1>4. ASSUME NEW r \in Reqs, Reserve(r) \/ ReserveTwice(r) \/ ReserveError(r)
        PROVE  HandleInv' /\ \A q \in Reqs : Lasting(q)
    <2>1. \A q \in Reqs \ {r} : SameCall(q)
      BY <1>0, <1>4 DEF Reserve, ReserveTwice, ReserveError, Admitted, Goto, handle, bill, SameCall, CallTyped
    <2>2. pc[r] = "loaded" /\ r \notin owned /\ task' = task /\ task[r] = "none" /\ refs[r] = 0
      BY <1>0, <1>4 DEF Reserve, ReserveTwice, ReserveError, bill, HandleInv, Handled, Early
    <2>3. \/ UNCHANGED handle /\ pc'[r] \in {"running", "rejected"}
          \/ /\ pc'[r] = "running" /\ refs'[r] = 1 /\ r \in owned' /\ amount'[r] = Estimate[r]
             /\ Covers(Live, Estimate[r], read[r]) /\ ReserveScript(r, Estimate[r], read[r], TTL)
      BY <1>0, <1>4 DEF Reserve, ReserveTwice, ReserveError, Admitted, Goto, CallTyped
    <2>4. CASE UNCHANGED handle
      BY <1>0, <1>1, <2>1, <2>2, <2>3, <2>4 DEF handle, Handled, HandlerRefs, TaskRefs, Early
    <2>5. CASE ~UNCHANGED handle
      <3>1. LiveAt(TTL - TTL) = Live
        BY AdmissionAssumption DEF Live
      <3>2. reserved'[r] = Estimate[r]
        <4>1. JointInv /\ read[r] \in Int /\ read[r] <= Balance /\ Estimate[r] \in Nat
          BY <1>0 DEF BalanceInv, SpendInv, CallTyped
        <4>q. QED
          BY <1>0, <2>3, <2>5, <3>1, <4>1, ReserveEffect
      <3>3. Handled(r)' /\ Lasting(r)
        BY <1>0, <2>2, <2>3, <2>5, <3>2 DEF Handled, HandlerRefs, TaskRefs, Early
      <3>q. QED
        BY <1>1, <2>1, <3>3
    <2>q. QED
      BY <2>4, <2>5
  <1>5. ASSUME NEW r \in Reqs, Raise(r) \/ RaiseError(r)
        PROVE  HandleInv' /\ \A q \in Reqs : Lasting(q)
    <2>1. \A q \in Reqs \ {r} : SameCall(q)
      BY <1>0, <1>5 DEF Raise, RaiseError, Goto, handle, bill, SameCall, CallTyped
    <2>2. /\ pc[r] = "raising" /\ r \in owned /\ pc'[r] \in {"running", "rejected"}
          /\ refs' = refs /\ owned' = owned /\ task' = task
      BY <1>0, <1>5 DEF Raise, RaiseError, Goto, handle, bill, HandleInv, Handled, CallTyped
    <2>3. reserved'[r] > 0 => reserved'[r] >= amount'[r]
      <3>1. CASE amount' = amount
        BY <1>0, <2>2, <3>1 DEF HandleInv, Handled, Survives, Stays, Lapses, RedisTyped, CallTyped
      <3>2. CASE amount' # amount
        <4>1. /\ UpdateScript(r, NewAmount(r), read[r], TTL) /\ amount'[r] = NewAmount(r)
              /\ Raises(Live, r, NewAmount(r), read[r]) \/ (r \in Live /\ NewAmount(r) <= reserved[r])
          BY <1>0, <1>5, <3>2 DEF Raise, RaiseError, handle, CallTyped
        <4>2. LiveAt(TTL - TTL) = Live
          BY AdmissionAssumption DEF Live
        <4>3. JointInv /\ read[r] \in Int /\ read[r] <= Balance /\ NewAmount(r) \in Nat
          BY <1>0 DEF BalanceInv, SpendInv, CallTyped, NewAmount
        <4>4. IF Raises(Live, r, NewAmount(r), read[r])
              THEN reserved'[r] = NewAmount(r) ELSE r \in Live => reserved'[r] = reserved[r]
          BY <1>0, <4>1, <4>2, <4>3, UpdateEffect
        <4>q. QED
          BY <4>1, <4>3, <4>4
      <3>q. QED
        BY <3>1, <3>2
    <2>4. Handled(r)' /\ Lasting(r)
      BY <1>0, <2>2, <2>3 DEF HandleInv, Handled, HandlerRefs, TaskRefs, Early
    <2>q. QED
      BY <1>1, <2>1, <2>4
  <1>6. ASSUME NEW r \in Reqs, Submit(r)
        PROVE  HandleInv' /\ \A q \in Reqs : Lasting(q)
    <2>1. \A q \in Reqs \ {r} : SameCall(q)
      BY <1>0, <1>6 DEF Submit, SameCall, CallTyped
    <2>2. Handled(r)' /\ Lasting(r)
      BY <1>0, <1>6 DEF Submit, redis, HandleInv, Handled, HandlerRefs, TaskRefs, Early, CallTyped
    <2>q. QED
      BY <1>1, <2>1, <2>2
  <1>7. ASSUME NEW r \in Reqs, HandlerDone(r) \/ TaskDone(r)
        PROVE  HandleInv' /\ \A q \in Reqs : Lasting(q)
    <2>1. \A q \in Reqs \ {r} : SameCall(q)
      BY <1>0, <1>7 DEF HandlerDone, TaskDone, DecRef, Goto, bill, SameCall, CallTyped
    <2>2. /\ refs'[r] = (IF refs[r] > 0 THEN refs[r] - 1 ELSE 0) /\ owned' = owned /\ amount' = amount
          /\ \/ pc[r] \in {"running", "rejected"} /\ pc'[r] = "finished" /\ task' = task
             \/ task[r] \in {"synced", "queued"} /\ task'[r] = "done" /\ pc' = pc
      BY <1>0, <1>7 DEF HandlerDone, TaskDone, DecRef, Goto, bill, CallTyped
    <2>3. r \in owned => reserved'[r] = 0 \/ (reserved[r] > 0 /\ reserved'[r] >= reserved[r])
      BY <1>0 DEF Survives, Stays, Lapses, RedisTyped
    <2>4. Handled(r)' /\ Lasting(r)
      BY <1>0, <2>2, <2>3 DEF HandleInv, Handled, HandlerRefs, TaskRefs, Early, CallTyped, RedisTyped
    <2>q. QED
      BY <1>1, <2>1, <2>4
  <1>8. ASSUME NEW r \in Reqs, Charge(r) \/ Sync(r) \/ SyncError(r) \/ Crash(r)
        PROVE  HandleInv' /\ \A q \in Reqs : Lasting(q)
    <2>1. \A q \in Reqs \ {r} : SameCall(q)
      BY <1>0, <1>8 DEF Charge, Sync, SyncError, Crash, Goto, handle, SameCall, CallTyped
    <2>2. /\ reserved' = reserved /\ owned' = owned /\ amount' = amount
          /\ \/ /\ pc' = pc /\ refs' = refs
                /\ task[r] \in {"queued", "charged"} /\ task'[r] \in {"charged", "synced"}
             \/ pc'[r] = "finished" /\ task'[r] = "done" /\ refs'[r] = 0
      BY <1>0, <1>8 DEF Charge, Sync, SyncError, Crash, Goto, redis, handle, CallTyped
    <2>3. Handled(r)' /\ Lasting(r)
      BY <1>0, <2>2 DEF HandleInv, Handled, HandlerRefs, TaskRefs, Early, CallTyped
    <2>q. QED
      BY <1>1, <2>1, <2>3
  <1>9. ASSUME UNCHANGED <<pc, task, refs, amount, owned>>
        PROVE  HandleInv' /\ \A q \in Reqs : Lasting(q)
    BY <1>2, <1>9 DEF SameCall
  <1> HIDE DEF Lasting
  <1>10. HandleInv' /\ \A q \in Reqs : Lasting(q)
    BY <1>3, <1>4, <1>5, <1>6, <1>7, <1>8, <1>9
       DEF Next, Admission, Billing, Failures, RedisErrors, CacheStep, ExecWrite, CacheExpires, ExecLate,
           Tick, Renew, RenewError, handle, bill
  <1>q. QED
    BY <1>0, <1>10 DEF Lasting, CallTyped

\* The calls on their way: their types, what balance they carry, and which
\* requests they are for.
LEMMA LateStep ==
  ASSUME BalanceInv, Next
  PROVE  LateTyped' /\ (\A m \in late' : m.balance <= Balance) /\ LateInv'
  <1>0. /\ LateTyped /\ CallTyped /\ SpendInv /\ LateInv /\ HandleInv /\ Balance \in Nat
        /\ TTL \in 1..TTL /\ Estimate \in [Reqs -> Nat] /\ Selected \in [Reqs -> Nat]
    BY TypeParts, AdmissionAssumption DEF BalanceInv
  \* nobody gets a handle or a reference while a call of theirs is under way
  <1>1. \A m \in late : /\ m.op = "reserve" => m.req \notin owned' /\ pc'[m.req] \notin Early
                        /\ m.op = "release" => m.req \in owned' /\ refs'[m.req] = 0
    BY <1>0, HandleStep DEF LateInv, LateTyped
  <1>2. CASE late' \subseteq late
    BY <1>0, <1>1, <1>2 DEF LateTyped, SpendInv, LateInv
  <1>3. ASSUME NEW op \in {"reserve", "update", "renew", "release"}, NEW r \in Reqs, NEW amt \in Nat,
               NEW balance \in Int, balance <= Balance, Unanswered(op, r, amt, balance),
               op = "reserve" => r \notin owned' /\ pc'[r] \notin Early,
               op = "release" => r \in owned' /\ refs'[r] = 0
        PROVE  LateTyped' /\ (\A m \in late' : m.balance <= Balance) /\ LateInv'
    <2> DEFINE new == [op |-> op, req |-> r, amount |-> amt, balance |-> balance, expiry |-> TTL]
    <2>1. late' \subseteq late \cup {new}
      BY <1>3 DEF Unanswered
    <2>2. /\ new \in [op : {"reserve", "update", "renew", "release"}, req : Reqs,
                      amount : Nat, balance : Int, expiry : 1..TTL]
          /\ new.op = op /\ new.req = r /\ new.balance = balance
      BY <1>0
    <2> HIDE DEF new
    <2>q. QED
      BY <1>0, <1>1, <1>3, <2>1, <2>2 DEF LateTyped, SpendInv, LateInv
  <1>4. ASSUME NEW r \in Reqs, ReserveError(r)
        PROVE  LateTyped' /\ (\A m \in late' : m.balance <= Balance) /\ LateInv'
    <2>1. r \notin owned' /\ pc'[r] \notin Early
      BY <1>0, <1>4 DEF ReserveError, Goto, handle, HandleInv, Handled, Early, CallTyped
    <2>2. Estimate[r] \in Nat /\ read[r] \in Int /\ read[r] <= Balance
      BY <1>0 DEF CallTyped, SpendInv
    <2>q. QED
      BY <1>2, <1>3, <1>4, <2>1, <2>2 DEF ReserveError
  <1>5. ASSUME NEW r \in Reqs, RaiseError(r)
        PROVE  LateTyped' /\ (\A m \in late' : m.balance <= Balance) /\ LateInv'
    <2>1. NewAmount(r) \in Nat /\ read[r] \in Int /\ read[r] <= Balance
      BY <1>0 DEF NewAmount, CallTyped, SpendInv
    <2>q. QED
      BY <1>2, <1>3, <1>5, <2>1 DEF RaiseError
  <1>6. ASSUME NEW r \in Reqs, RenewError(r)
        PROVE  LateTyped' /\ (\A m \in late' : m.balance <= Balance) /\ LateInv'
    BY <1>0, <1>2, <1>3, <1>6 DEF RenewError
  <1>7. ASSUME NEW r \in Reqs, HandlerDone(r) \/ TaskDone(r)
        PROVE  LateTyped' /\ (\A m \in late' : m.balance <= Balance) /\ LateInv'
    <2>1. DecRef(r) /\ owned' = owned
      BY <1>7 DEF HandlerDone, TaskDone
    <2>2. refs[r] = 1 => r \in owned' /\ refs'[r] = 0
      BY <1>0, <2>1 DEF DecRef, HandleInv, Handled, CallTyped
    <2>q. QED
      BY <1>0, <1>2, <1>3, <2>1, <2>2 DEF DecRef, redis
  <1>8. CASE Tick
    <2>1. \A m \in late' : \E n \in late : n.expiry > 1 /\ m = [n EXCEPT !.expiry = @ - 1]
      BY <1>8 DEF Tick
    <2>2. \A m \in late' : \E n \in late :
            m.op = n.op /\ m.req = n.req /\ m.amount = n.amount /\ m.balance = n.balance
      BY <1>0, <2>1 DEF LateTyped
    <2>3. LateTyped'
      BY <1>0, <2>1 DEF LateTyped
    <2>q. QED
      BY <1>0, <1>1, <2>2, <2>3 DEF SpendInv, LateInv
  <1>q. QED
    BY <1>2, <1>4, <1>5, <1>6, <1>7, <1>8
       DEF Next, Admission, Billing, Failures, RedisErrors, CacheStep, ExecWrite, CacheExpires, ExecLate,
           Check, Load, Reserve, ReserveTwice, Raise, Renew, Submit, Charge, Sync, SyncError, Crash, redis

---------------------------------------------------------------------------
(***************************************************************************)
(* The theorems.                                                           *)
(***************************************************************************)

\* The invariant holds at first.
LEMMA BalanceInvInit == Init => BalanceInv
  <1> SUFFICES ASSUME Init PROVE BalanceInv
    OBVIOUS
  <1>1. RedisTyped /\ WalletTyped /\ cached \in BOOLEAN /\ LateTyped /\ CallTyped
    BY AdmissionAssumption DEF Init, RedisTyped, WalletTyped, LateTyped, CallTyped, Phases, Tasks
  <1>2. SpendInv /\ JointInv /\ LateInv
    BY AdmissionAssumption DEF Init, SpendInv, JointInv, LateInv
  <1>3. HandleInv
    BY DEF Init, HandleInv, Handled, HandlerRefs, TaskRefs, Early
  <1>q. QED
    BY <1>1, <1>2, <1>3, TypeParts DEF BalanceInv

\* Every step keeps the invariant.
LEMMA BalanceInvStep == BalanceInv /\ [Next]_vars => BalanceInv'
  <1> SUFFICES ASSUME BalanceInv, [Next]_vars PROVE BalanceInv'
    OBVIOUS
  <1>1. CASE Next
    <2>1. RedisTyped' /\ JointInv'
      BY <1>1, StepKeepsMembers DEF MembersKept
    <2>2. TypeOK'
      BY <1>1, <2>1, WalletStep, CachedTyped, CallStep, LateStep, TypeParts
    <2>3. SpendInv'
      BY <1>1, WalletStep, CallStep, LateStep DEF SpendInv
    <2>4. HandleInv' /\ LateInv'
      BY <1>1, HandleStep, LateStep
    <2>q. QED
      BY <2>1, <2>2, <2>3, <2>4 DEF BalanceInv
  <1>2. CASE UNCHANGED vars
    <2>1. UNCHANGED <<db, cached, cache, writes, reserved, left, late, pc, read, amount, refs, owned,
                      renewing, task, cost, newBalance>>
      BY <1>2 DEF vars, wallet, redis, handle, bill
    <2>2. TypeOK' /\ SpendInv' /\ LateInv'
      BY <2>1 DEF BalanceInv, TypeOK, SpendInv, LateInv
    <2>3. JointInv'
      BY <2>1, InflightIsTotal DEF BalanceInv, JointInv
    <2>4. HandleInv'
      BY <2>1 DEF BalanceInv, HandleInv, Handled, HandlerRefs, TaskRefs
    <2>q. QED
      BY <2>2, <2>3, <2>4 DEF BalanceInv
  <1>q. QED
    BY <1>1, <1>2

\* The invariant always holds.
LEMMA BalanceInvariant == Spec => []BalanceInv
  BY BalanceInvInit, BalanceInvStep, PTL DEF Spec

\* The shape of the state: a handle never has more than the two references of
\* its handler and its billing task, and a late call never writes an expiry
\* longer than a TTL.
THEOREM BalanceTypes == Spec => []TypeOK
  <1>1. BalanceInv => TypeOK
    BY DEF BalanceInv
  <1>q. QED
    BY <1>1, BalanceInvariant, PTL

\* However many requests reserve, raise, renew and release at a time, with
\* failed and late calls and any state of the cache, what two of them hold
\* together never exceeds the balance the user had (ReserveScript, UpdateScript).
THEOREM ReservationsFit == Spec => []ReservedWithinBalance
  <1>1. BalanceInv => ReservedWithinBalance
    <2> SUFFICES ASSUME BalanceInv, Cardinality(Live) > 1 PROVE Inflight(Live) <= Balance
      BY DEF ReservedWithinBalance
    <2>1. RedisTyped /\ JointInv /\ Live \subseteq Reqs /\ IsFiniteSet(Live)
      BY AdmissionAssumption, FS_Subset DEF BalanceInv, TypeOK, RedisTyped, Live, LiveAt
    <2>2. PICK q, r \in Live : q # r
      <3>1. Live # {} /\ ~ \E q : Live = {q}
        BY <2>1, FS_EmptySet, FS_Singleton
      <3>q. QED
        BY <3>1
    <2>3. Inflight(Reqs) <= Balance
      BY <2>1, <2>2 DEF JointInv, Live, LiveAt
    <2>4. Total(reserved, Live) <= Total(reserved, Reqs)
      BY <2>1, AdmissionAssumption, TotalBound DEF RedisTyped
    <2>5. Total(reserved, Live) \in Nat /\ Total(reserved, Reqs) \in Nat
      BY <2>1, AdmissionAssumption, TotalType DEF RedisTyped
    <2>q. QED
      BY <2>3, <2>4, <2>5, InflightIsTotal, AdmissionAssumption
  <1>q. QED
    BY <1>1, BalanceInvariant, PTL

\* No step of any request, script or late call takes a reservation away, or
\* below its handle's amount, while its handler runs or its charge is not in
\* the cached balance; only the clock does, once nobody renews it.
THEOREM ReservationsHeld == Spec => HeldUntilBilled
  <1> DEFINE Held == \A r \in owned : Needed(r) /\ Needed(r)' /\ r \in Live
                        => (r \in Live' /\ reserved'[r] >= amount'[r]) \/ Lapses(r)
  <1>1. BalanceInv /\ BalanceInv' /\ [Next]_vars => [Held]_vars
    <2> SUFFICES ASSUME BalanceInv, BalanceInv', Next,
                        NEW r \in owned, Needed(r)', r \in Live, ~Lapses(r)
                 PROVE  r \in Live' /\ reserved'[r] >= amount'[r]
      OBVIOUS
    <2>1. Survives(r) /\ r \in Reqs /\ r \in owned'
      BY StepKeepsMembers, HandleStep DEF MembersKept, BalanceInv, TypeOK
    <2>2. r \in Live'
      BY <2>1 DEF Survives, Stays
    <2>3. reserved'[r] > 0
      BY <2>2 DEF Live, LiveAt
    <2>q. QED
      BY <2>1, <2>2, <2>3 DEF BalanceInv, HandleInv, Handled
  <1>q. QED
    BY <1>1, BalanceInvariant, PTL DEF Spec, HeldUntilBilled

\* No renewal, increase or repeated call, however late, brings a reservation
\* back that was released.
THEOREM ReleaseIsFinal == Spec => ReleasedForGood
  <1> DEFINE Gone == \A r \in owned : refs[r] = 0 /\ reserved[r] = 0 => reserved'[r] = 0
  <1>1. BalanceInv /\ [Next]_vars => [Gone]_vars
    <2> SUFFICES ASSUME BalanceInv, Next, NEW r \in owned, reserved[r] = 0
                 PROVE  reserved'[r] = 0
      OBVIOUS
    <2>1. Survives(r)
      BY StepKeepsMembers DEF MembersKept
    <2>q. QED
      BY <2>1 DEF Survives, Stays, Lapses
  <1>q. QED
    BY <1>1, BalanceInvariant, PTL DEF Spec, ReleasedForGood
=============================================================================
