---- MODULE MCRateLimiter ----
(* Instances of RateLimiter for TLC. *)
EXTENDS RateLimiter, TLC

CONSTANTS r1, r2, r3, r4, r5, b1, b2

(* Three requests with a limit of two on one bucket, and one without a     *)
(* limit on the same bucket (a tenant whose model is called "global" and   *)
(* its requests that name no model); one request on another bucket.        *)
MCBucketOf == r1 :> b1 @@ r2 :> b1 @@ r3 :> b1 @@ r4 :> b1 @@ r5 :> b2
MCCapacityOf == r1 :> 2 @@ r2 :> 2 @@ r3 :> 2 @@ r4 :> 0 @@ r5 :> 1

(* Two requests, a limit of one. *)
PairBucketOf == r1 :> b1 @@ r2 :> b1
PairCapacityOf == r1 :> 1 @@ r2 :> 1
====
