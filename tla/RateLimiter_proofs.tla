---- MODULE RateLimiter_proofs ----
(* Proofs about RateLimiter, for every set of requests and buckets. *)
EXTENDS RateLimiter, TLAPS

(* What links the counter to the history: the two agree until a limit is   *)
(* reached, and whoever is refused found a bucket that had reached it.     *)
Full(b, n) ==
    \E q \in Request : BucketOf[q] = b /\ CapacityOf[q] > 0 /\ n >= CapacityOf[q]

CountInv ==
    \A b \in Bucket :
        /\ passed[b] <= consumed[b]
        /\ passed[b] <= peak[b]
        /\ consumed[b] > passed[b] => Full(b, passed[b])

RefusalInv ==
    /\ \A b \in Bucket : is_blocked[b] => Full(b, peak[b])
    /\ \A r \in Request : pc[r] \in {"over", "refused"} => Full(BucketOf[r], peak[BucketOf[r]])
    /\ \A r \in Request : pc[r] \in {"open", "over"} => CapacityOf[r] > 0

LimiterInv == TypeOK /\ WithinBudget /\ CountInv /\ RefusalInv

(* A full bucket stays full when the peak grows. *)
LEMMA FullGrows ==
    ASSUME NEW b \in Bucket, NEW m \in Nat, NEW n \in Nat, m <= n, Full(b, m)
    PROVE  Full(b, n)
BY RequestAssumption DEF Full

LEMMA InitHolds == Init => LimiterInv
BY RequestAssumption DEF Init, LimiterInv, TypeOK, WithinBudget, CountInv, RefusalInv, Full, Stores

(* A charge below the limit is counted as let through; one at the limit    *)
(* shows that the bucket is full.                                          *)
LEMMA ChargeKeeps ==
    ASSUME LimiterInv, NEW r \in Request, Charge(r)
    PROVE  LimiterInv'
<1> DEFINE b == BucketOf[r]
<1>b. b \in Bucket /\ CapacityOf[r] \in Nat
  BY RequestAssumption
<1>c. pc[r] = "open" /\ CapacityOf[r] > 0
  BY DEF Charge, LimiterInv, RefusalInv
<1>1. TypeOK'
  BY <1>b DEF LimiterInv, TypeOK, Charge, workerVars
<1>2. /\ \A c \in Bucket : passed'[c] >= passed[c] /\ peak'[c] >= peak[c]
      /\ \A c \in Bucket : c # b => passed'[c] = passed[c] /\ consumed'[c] = consumed[c]
      /\ consumed'[b] = consumed[b] + 1
  BY <1>b DEF LimiterInv, TypeOK, Charge
<1>3. CASE Exceeds(consumed[b], r)
  <2>1. passed' = passed /\ peak' = peak /\ is_blocked' = is_blocked
        /\ pc' = [pc EXCEPT ![r] = "over"]
    BY <1>3 DEF Charge
  <2>2. Full(b, passed[b])
    <3>1. CASE consumed[b] > passed[b]
      BY <3>1, <1>b DEF LimiterInv, CountInv
    <3>2. CASE consumed[b] = passed[b]
      BY <3>2, <1>3, <1>b, <1>c DEF Exceeds, Full
    <3> QED BY <3>1, <3>2, <1>b DEF LimiterInv, TypeOK, CountInv
  <2>3. Full(b, peak[b])
    BY <2>2, <1>b, FullGrows DEF LimiterInv, TypeOK, CountInv
  <2>4. WithinBudget'
    BY <2>1 DEF LimiterInv, WithinBudget
  <2>5. CountInv'
    BY <1>2, <2>1, <2>2, <1>b DEF LimiterInv, TypeOK, CountInv, Full
  <2>6. RefusalInv'
    BY <2>1, <2>3, <1>c DEF LimiterInv, TypeOK, RefusalInv, Full
  <2> QED BY <1>1, <2>4, <2>5, <2>6 DEF LimiterInv
<1>4. CASE ~Exceeds(consumed[b], r)
  <2>1. /\ passed' = [passed EXCEPT ![b] = @ + 1]
        /\ peak' = [peak EXCEPT ![b] = IF @ <= passed[b] THEN passed[b] + 1 ELSE @]
        /\ is_blocked' = is_blocked
        /\ pc' = [pc EXCEPT ![r] = "through"]
    BY <1>4 DEF Charge
  <2>2. passed[b] < CapacityOf[r]
    BY <1>4, <1>b DEF LimiterInv, TypeOK, CountInv, Exceeds
  <2>3. WithinBudget'
    BY <2>1, <2>2, <1>b DEF LimiterInv, TypeOK, WithinBudget
  <2>4. CountInv'
    <3> SUFFICES ASSUME NEW c \in Bucket
                 PROVE  /\ passed'[c] <= consumed'[c]
                        /\ passed'[c] <= peak'[c]
                        /\ consumed'[c] > passed'[c] => Full(c, passed'[c])
      BY DEF CountInv, Full
    <3>1. passed'[c] <= consumed'[c] /\ passed'[c] <= peak'[c]
      BY <2>1, <1>2, <1>b DEF LimiterInv, TypeOK, CountInv
    <3>2. consumed'[c] > passed'[c] => consumed[c] > passed[c]
      BY <2>1, <1>2, <1>b DEF LimiterInv, TypeOK, CountInv
    <3>3. consumed'[c] > passed'[c] => Full(c, passed'[c])
      BY <3>2, <1>1, <1>2, FullGrows DEF LimiterInv, TypeOK, CountInv
    <3> QED BY <3>1, <3>3
  <2>5. RefusalInv'
    <3>1. \A c \in Bucket : Full(c, peak[c]) => Full(c, peak'[c])
      BY <1>1, <1>2, FullGrows DEF LimiterInv, TypeOK
    <3>2. \A q \in Request : BucketOf[q] \in Bucket
      BY RequestAssumption
    <3> QED BY <2>1, <3>1, <3>2 DEF LimiterInv, TypeOK, RefusalInv, Full
  <2> QED BY <1>1, <2>3, <2>4, <2>5 DEF LimiterInv
<1> QED BY <1>3, <1>4

(* The worker empties counters and lifts blocks; both only weaken what the *)
(* invariant asks for.                                                     *)
LEMMA WorkerKeeps ==
    ASSUME LimiterInv, Worker
    PROVE  LimiterInv'
<1>1. CASE Tick
  BY <1>1 DEF LimiterInv, TypeOK, WithinBudget, CountInv, RefusalInv, Full, Tick, bucketVars
<1>2. ASSUME NEW b \in Bucket, Visit(b)
      PROVE  LimiterInv'
  BY <1>2 DEF LimiterInv, TypeOK, WithinBudget, CountInv, RefusalInv, Full, Visit, bucketVars
<1>3. ASSUME NEW what \in Stores, Store(what)
      PROVE  LimiterInv'
  <2>1. TypeOK'
    <3>1. at \in Bucket /\ due' \subseteq Stores /\ at' \in Bucket \cup {NoBucket}
      BY <1>3 DEF LimiterInv, TypeOK, Store
    <3>2. /\ consumed' \in [Bucket -> Nat] /\ passed' \in [Bucket -> Nat]
          /\ is_blocked' \in [Bucket -> BOOLEAN]
      <4>1. CASE what = "consumed"
        BY <4>1, <3>1, <1>3 DEF LimiterInv, TypeOK, Store
      <4>2. CASE what # "consumed"
        <5>1. /\ is_blocked' = [is_blocked EXCEPT ![at] = FALSE]
              /\ consumed' = consumed /\ passed' = passed
          BY <4>2, <1>3 DEF Store, Unblocked
        <5> QED BY <5>1, <3>1 DEF LimiterInv, TypeOK
      <4> QED BY <4>1, <4>2
    <3> QED BY <3>1, <3>2, <1>3 DEF LimiterInv, TypeOK, Store
  <2>2. CASE what = "consumed"
    BY <2>1, <2>2, <1>3 DEF LimiterInv, TypeOK, WithinBudget, CountInv, RefusalInv, Full, Store
  <2>3. CASE what # "consumed"
    BY <2>1, <2>3, <1>3 DEF LimiterInv, TypeOK, WithinBudget, CountInv, RefusalInv, Full, Store, Unblocked
  <2> QED BY <2>2, <2>3
<1> QED BY <1>1, <1>2, <1>3 DEF Worker

LEMMA StepKeeps == LimiterInv /\ [Next]_vars => LimiterInv'
<1> SUFFICES ASSUME LimiterInv, [Next]_vars
             PROVE  LimiterInv'
  OBVIOUS
<1>1. ASSUME NEW r \in Request, Find(r)
      PROVE  LimiterInv'
  BY <1>1 DEF LimiterInv, TypeOK, WithinBudget, CountInv, RefusalInv, Full, Find, bucketVars, workerVars
<1>2. ASSUME NEW r \in Request, ReadFlag(r)
      PROVE  LimiterInv'
  <2> DEFINE new == IF is_blocked[BucketOf[r]] THEN "refused"
                    ELSE IF Limited(r) THEN "open" ELSE "through"
  <2>1. pc' = [pc EXCEPT ![r] = new] /\ UNCHANGED <<bucketVars, workerVars>>
    BY <1>2 DEF ReadFlag
  <2>2. new \in {"refused", "open", "through"}
    OBVIOUS
  <2>3. /\ new = "refused" => Full(BucketOf[r], peak[BucketOf[r]])
        /\ new = "open" => CapacityOf[r] > 0
        /\ new # "over"
    BY RequestAssumption DEF LimiterInv, RefusalInv, Limited
  <2> HIDE DEF new
  <2>4. TypeOK'
    BY <2>1, <2>2 DEF LimiterInv, TypeOK, bucketVars, workerVars
  <2>5. WithinBudget' /\ CountInv'
    BY <2>1 DEF LimiterInv, WithinBudget, CountInv, Full, bucketVars
  <2>6. RefusalInv'
    BY <2>1, <2>2, <2>3 DEF LimiterInv, TypeOK, RefusalInv, Full, bucketVars
  <2> QED BY <2>4, <2>5, <2>6 DEF LimiterInv
<1>3. ASSUME NEW r \in Request, Charge(r)
      PROVE  LimiterInv'
  BY <1>3, ChargeKeeps
<1>4. ASSUME NEW r \in Request, Block(r)
      PROVE  LimiterInv'
  <2>1. /\ pc[r] = "over" /\ BucketOf[r] \in Bucket
        /\ pc' = [pc EXCEPT ![r] = "refused"]
        /\ is_blocked' = [is_blocked EXCEPT ![BucketOf[r]] = TRUE]
        /\ UNCHANGED <<consumed, passed, peak, workerVars>>
    BY <1>4, RequestAssumption DEF Block
  <2>2. TypeOK'
    BY <2>1 DEF LimiterInv, TypeOK, workerVars
  <2>3. WithinBudget' /\ CountInv'
    BY <2>1 DEF LimiterInv, WithinBudget, CountInv, Full
  <2>4. RefusalInv'
    BY <2>1 DEF LimiterInv, TypeOK, RefusalInv, Full
  <2> QED BY <2>2, <2>3, <2>4 DEF LimiterInv
<1>5. CASE Worker
  BY <1>5, WorkerKeeps
<1>6. CASE UNCHANGED vars
  BY <1>6 DEF LimiterInv, TypeOK, WithinBudget, CountInv, RefusalInv, Full, vars, bucketVars, workerVars
<1> QED BY <1>1, <1>2, <1>3, <1>4, <1>5, <1>6 DEF Next, Middleware

LEMMA AlwaysLimiterInv == Spec => []LimiterInv
BY InitHolds, StepKeeps, PTL DEF Spec

(* However many requests arrive together and whenever the worker runs, a   *)
(* bucket lets through at most a full limit between two resets.            *)
THEOREM BudgetHolds == Spec => []WithinBudget
<1>1. LimiterInv => WithinBudget
  BY DEF LimiterInv
<1> QED BY <1>1, AlwaysLimiterInv, PTL

(* A request is refused only on a bucket that has once let a full limit    *)
(* through.                                                                *)
THEOREM RefusalsFollowALimit == Spec => []RefusedAfterLimit
<1>1. LimiterInv => RefusedAfterLimit
  BY DEF LimiterInv, RefusalInv, RefusedAfterLimit, Full, SameBucket
<1> QED BY <1>1, AlwaysLimiterInv, PTL

(* The counters and flags keep their types, whatever is charged and reset. *)
THEOREM LimiterTypes == Spec => []TypeOK
<1>1. LimiterInv => TypeOK
  BY DEF LimiterInv
<1> QED BY <1>1, AlwaysLimiterInv, PTL
====
