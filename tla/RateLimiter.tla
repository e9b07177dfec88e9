---- MODULE RateLimiter ----
(***************************************************************************)
(* The request limiter: the middleware of api/middleware/rate_limit.rs and *)
(* the worker of infrastructure/oss_adapters.rs that empties its buckets   *)
(* once a minute.  Nothing is awaited, but the runtime has many threads: a *)
(* step is one operation on an atomic.  All of them are Relaxed, so the    *)
(* two stores of the worker may be seen in either order.                   *)
(***************************************************************************)
EXTENDS Integers

CONSTANTS
    Request,        \* the requests; each goes through the middleware once
    Bucket,         \* the keys "rl:tb:tenant:model" of rate_limit_cache
    NoBucket,
    BucketOf,       \* the bucket each request asks for
    CapacityOf      \* the limit that routing gives each request; 0 is none

ASSUME RequestAssumption ==
    /\ BucketOf \in [Request -> Bucket]
    /\ CapacityOf \in [Request -> Nat]
    /\ NoBucket \notin Bucket

VARIABLES
    consumed,       \* LocalBucket.consumed
    is_blocked,     \* LocalBucket.is_blocked
    pc,             \* where each request is in the middleware
    toVisit,        \* buckets the worker has yet to reset in this pass
    at,             \* the bucket whose shard the worker holds, or NoBucket
    due,            \* the stores it has yet to make there
    passed,         \* history: counted requests let through since consumed
                    \* was last reset
    peak            \* history: the largest value of passed so far

bucketVars == <<consumed, is_blocked, passed, peak>>
workerVars == <<toVisit, at, due>>
vars == <<bucketVars, workerVars, pc>>

(* The capacity of an unlimited route is 0 and is never compared. *)
Limited(r) == CapacityOf[r] > 0

Init ==
    /\ consumed = [b \in Bucket |-> 0]
    /\ is_blocked = [b \in Bucket |-> FALSE]
    /\ pc = [r \in Request |-> "arriving"]
    /\ toVisit = {}
    /\ at = NoBucket
    /\ due = {}
    /\ passed = [b \in Bucket |-> 0]
    /\ peak = [b \in Bucket |-> 0]

-----------------------------------------------------------------------------
(* The middleware.  entry(..).or_insert_with(..) needs the shard for       *)
(* writing, which the worker's iterator holds while it is at the bucket.   *)

Find(r) ==
    /\ pc[r] = "arriving"
    /\ at # BucketOf[r]
    /\ pc' = [pc EXCEPT ![r] = "found"]
    /\ UNCHANGED <<bucketVars, workerVars>>

(* is_blocked is read before the capacity is looked at: a blocked bucket   *)
(* refuses also the requests that have no limit.                           *)
ReadFlag(r) ==
    /\ pc[r] = "found"
    /\ pc' = [pc EXCEPT ![r] = IF is_blocked[BucketOf[r]] THEN "refused"
                               ELSE IF Limited(r) THEN "open"
                               ELSE "through"]
    /\ UNCHANGED <<bucketVars, workerVars>>

ExceedsByOne(n, r) == n > CapacityOf[r]            \* mutant of Exceeds

ExceedsEarly(n, r) == n + 1 >= CapacityOf[r]       \* mutant of Exceeds

Exceeds(n, r) == n >= CapacityOf[r]

(* fetch_add returns the count before this request. *)
Charge(r) ==
    LET b == BucketOf[r] IN
    /\ pc[r] = "open"
    /\ consumed' = [consumed EXCEPT ![b] = @ + 1]
    /\ IF Exceeds(consumed[b], r)
         THEN /\ pc' = [pc EXCEPT ![r] = "over"]
              /\ UNCHANGED <<passed, peak>>
         ELSE /\ pc' = [pc EXCEPT ![r] = "through"]
              /\ passed' = [passed EXCEPT ![b] = @ + 1]
              /\ peak' = [peak EXCEPT ![b] = IF @ <= passed[b] THEN passed[b] + 1 ELSE @]
    /\ UNCHANGED <<is_blocked, workerVars>>

BlockRefunding(r) ==                               \* mutant of Block
    /\ pc[r] = "over"
    /\ is_blocked' = [is_blocked EXCEPT ![BucketOf[r]] = TRUE]
    /\ consumed' = [consumed EXCEPT ![BucketOf[r]] = @ - 1]
    /\ pc' = [pc EXCEPT ![r] = "refused"]
    /\ UNCHANGED <<passed, peak, workerVars>>

Block(r) ==
    /\ pc[r] = "over"
    /\ is_blocked' = [is_blocked EXCEPT ![BucketOf[r]] = TRUE]
    /\ pc' = [pc EXCEPT ![r] = "refused"]
    /\ UNCHANGED <<consumed, passed, peak, workerVars>>

-----------------------------------------------------------------------------
(* The worker of OssRateLimit::start_sync_worker.  A bucket created while  *)
(* the iterator runs may be missed; it is empty then and a visit before    *)
(* its first use does nothing, so that case needs no action of its own.    *)

Tick ==
    /\ toVisit = {} /\ at = NoBucket
    /\ toVisit' = Bucket
    /\ UNCHANGED <<bucketVars, at, due, pc>>

Stores == {"consumed", "is_blocked"}

Visit(b) ==
    /\ at = NoBucket
    /\ b \in toVisit
    /\ at' = b
    /\ due' = Stores
    /\ toVisit' = toVisit \ {b}
    /\ UNCHANGED <<bucketVars, pc>>

StaysBlocked(flags, b) == flags                    \* mutant of Unblocked

Unblocked(flags, b) == [flags EXCEPT ![b] = FALSE]

Store(what) ==
    /\ at # NoBucket
    /\ what \in due
    /\ due' = due \ {what}
    /\ at' = IF due = {what} THEN NoBucket ELSE at
    /\ IF what = "consumed"
         THEN /\ consumed' = [consumed EXCEPT ![at] = 0]
              /\ passed' = [passed EXCEPT ![at] = 0]
              /\ UNCHANGED is_blocked
         ELSE /\ is_blocked' = Unblocked(is_blocked, at)
              /\ UNCHANGED <<consumed, passed>>
    /\ UNCHANGED <<peak, toVisit, pc>>

-----------------------------------------------------------------------------
Middleware(r) == Find(r) \/ ReadFlag(r) \/ Charge(r) \/ Block(r)

Worker == Tick \/ (\E b \in Bucket : Visit(b)) \/ (\E what \in Stores : Store(what))

Next == (\E r \in Request : Middleware(r)) \/ Worker

Spec == Init /\ [][Next]_vars

(* The runtime keeps running the worker; its interval ticks every minute.  *)
FairSpec == Spec /\ WF_vars(Worker)

TypeOK ==
    /\ consumed \in [Bucket -> Nat]
    /\ is_blocked \in [Bucket -> BOOLEAN]
    /\ pc \in [Request -> {"arriving", "found", "open", "over", "through", "refused"}]
    /\ toVisit \subseteq Bucket
    /\ at \in Bucket \cup {NoBucket}
    /\ due \subseteq Stores
    /\ passed \in [Bucket -> Nat]
    /\ peak \in [Bucket -> Nat]

SameBucket(q, r) == BucketOf[q] = BucketOf[r]

(* Between two resets of its counter a bucket lets through no more than    *)
(* the limit of one of the requests that use it, however many arrive       *)
(* together: fetch_add judges each at a count of its own.                  *)
WithinBudget ==
    \A b \in Bucket : passed[b] > 0 =>
        \E q \in Request : BucketOf[q] = b /\ passed[b] <= CapacityOf[q]

(* Nobody is refused before the bucket has once let through a full limit:  *)
(* neither a concurrent reset nor a request without a limit (capacity 0)   *)
(* makes the middleware refuse on a bucket that was never used up.         *)
RefusedAfterLimit ==
    \A r \in Request : pc[r] = "refused" =>
        \E q \in Request :
            SameBucket(q, r) /\ CapacityOf[q] > 0 /\ peak[BucketOf[r]] >= CapacityOf[q]

(* A bucket is not blocked for good: the worker reopens it.                *)
BlockLifts == \A b \in Bucket : is_blocked[b] ~> ~is_blocked[b]

(* A blocked bucket has used up a limit since its last reset, which is     *)
(* what its 429 says and what the module's header promises of an atomic    *)
(* check.  A request that charged before the reset and blocks after it     *)
(* breaks this: the bucket refuses for a minute with nothing consumed.     *)
BlockedMeansSpent ==
    \A b \in Bucket : (is_blocked[b] /\ at # b) =>
        \E q \in Request : /\ BucketOf[q] = b
                           /\ CapacityOf[q] > 0
                           /\ consumed[b] >= CapacityOf[q]

====
