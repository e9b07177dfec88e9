---- MODULE UpstreamRouter ----
(***************************************************************************)
(* Where a completion request goes: infrastructure/llm_router.rs with its  *)
(* circuit breaker, and the stream failover of usecases/proxy.rs.          *)
(*                                                                         *)
(* A request walks the targets of its route in order of priority.  It      *)
(* reads the breaker of each first, keeps the healthy ones, sends to the   *)
(* first and, when that fails, goes through the others.  A stream that     *)
(* breaks later goes through the list of the others once more.  A step is  *)
(* what runs between two awaits.                                           *)
(***************************************************************************)
EXTENDS Naturals, Sequences, FiniteSets

CONSTANTS
    Request,
    Streaming,      \* the requests that ask for a stream
    Tenant,
    TenantOf,       \* the tenant of each request
    Alias,          \* api_key_alias: the names of provider keys
    Route,          \* the aliases of each request's targets, by priority
    Unbuildable     \* pairs of a request and a position of its route for
                    \* which build_provider_request fails

ASSUME RouteAssumption ==
    /\ Streaming \subseteq Request
    /\ TenantOf \in [Request -> Tenant]
    /\ Route \in [Request -> Seq(Alias)]

VARIABLES
    open,           \* circuit_breaker: the keys in it
    pc,             \* where each request is
    rest,           \* positions the loop at hand has not come to
    pool,           \* the healthy positions; prep.fallback_targets later
    target,         \* the position being tried
    status,         \* the HTTP status given to the client of a stream
    tried,          \* history: the positions sent to, in order
    seen,           \* history: the positions found open
    heard           \* history: the attempts a stream's client has heard from

requestVars == <<rest, pool, target, status, tried, seen, heard>>
vars == <<open, pc, requestVars>>

Position(r) == 1..Len(Route[r])

Last(S) == CHOOSE p \in S : \A q \in S : q <= p    \* mutant of First

First(S) == CHOOSE p \in S : \A q \in S : p <= q

KeyOfAlias(r, p) == Route[r][p]                    \* mutant of Key

(* circuit_breaker_key *)
Key(r, p) == <<TenantOf[r], Route[r][p]>>

Builds(r, p) == <<r, p>> \notin Unbuildable

Init ==
    /\ open = {}
    /\ pc = [r \in Request |-> "checking"]
    /\ rest = [r \in Request |-> Position(r)]
    /\ pool = [r \in Request |-> {}]
    /\ target = [r \in Request |-> 0]
    /\ status = [r \in Request |-> "none"]
    /\ tried = [r \in Request |-> << >>]
    /\ seen = [r \in Request |-> {}]
    /\ heard = [r \in Request |-> {}]

-----------------------------------------------------------------------------
(* prep_upstream_request: one read of the breaker per target. *)

CheckStoppingAtOpen(r) ==                          \* mutant of Check
    LET p == First(rest[r]) IN
    /\ pc[r] = "checking"
    /\ rest[r] # {}
    /\ IF Key(r, p) \in open
         THEN /\ rest' = [rest EXCEPT ![r] = {}]
              /\ seen' = [seen EXCEPT ![r] = @ \cup {p}]
              /\ UNCHANGED pool
         ELSE /\ rest' = [rest EXCEPT ![r] = @ \ {p}]
              /\ pool' = [pool EXCEPT ![r] = @ \cup {p}]
              /\ UNCHANGED seen
    /\ UNCHANGED <<open, pc, target, status, tried, heard>>

Check(r) ==
    LET p == First(rest[r]) IN
    /\ pc[r] = "checking"
    /\ rest[r] # {}
    /\ rest' = [rest EXCEPT ![r] = @ \ {p}]
    /\ IF Key(r, p) \in open
         THEN /\ seen' = [seen EXCEPT ![r] = @ \cup {p}]
              /\ UNCHANGED pool
         ELSE /\ pool' = [pool EXCEPT ![r] = @ \cup {p}]
              /\ UNCHANGED seen
    /\ UNCHANGED <<open, pc, target, status, tried, heard>>

Checked(r) == pc[r] = "checking" /\ rest[r] = {}

Ends(r, verdict) ==
    /\ pc' = [pc EXCEPT ![r] = verdict]
    /\ UNCHANGED <<open, requestVars>>

NoActiveKeys(r) == Checked(r) /\ pool[r] = {} /\ Ends(r, "noKeys")

(* The first healthy target is the primary one.  When its request cannot   *)
(* be built the error is returned at once and no other target is tried.    *)
PrimaryUnbuildable(r) ==
    Checked(r) /\ pool[r] # {} /\ ~Builds(r, First(pool[r])) /\ Ends(r, "unbuilt")

PrepareKeeping(r) ==                               \* mutant of Prepare
    LET p == First(pool[r]) IN
    /\ Checked(r)
    /\ pool[r] # {}
    /\ Builds(r, p)
    /\ target' = [target EXCEPT ![r] = p]
    /\ rest' = [rest EXCEPT ![r] = pool[r] \ {p}]
    /\ pc' = [pc EXCEPT ![r] = "ready"]
    /\ UNCHANGED <<open, pool, status, tried, seen, heard>>

(* The loop over the fallbacks later runs on a clone of the list: rest.    *)
Prepare(r) ==
    LET p == First(pool[r]) IN
    /\ Checked(r)
    /\ pool[r] # {}
    /\ Builds(r, p)
    /\ target' = [target EXCEPT ![r] = p]
    /\ pool' = [pool EXCEPT ![r] = @ \ {p}]
    /\ rest' = [rest EXCEPT ![r] = pool[r] \ {p}]
    /\ pc' = [pc EXCEPT ![r] = "ready"]
    /\ UNCHANGED <<open, status, tried, seen, heard>>

-----------------------------------------------------------------------------
(* execute_upstream_request.  The cache lookup and the budget checks lie   *)
(* between Prepare and Dispatch; the breaker is not read again.            *)

Dispatch(r) ==
    /\ pc[r] = "ready"
    /\ tried' = [tried EXCEPT ![r] = Append(@, target[r])]
    /\ pc' = [pc EXCEPT ![r] = "waiting"]
    /\ UNCHANGED <<open, rest, pool, target, status, seen, heard>>

(* A status that is_retryable_error does not list, 400 among them.         *)
Accept(r, s) ==
    /\ pc[r] = "waiting"
    /\ IF r \in Streaming
         THEN /\ status' = [status EXCEPT ![r] = s]
              /\ pc' = [pc EXCEPT ![r] = "streaming"]
         ELSE /\ pc' = [pc EXCEPT ![r] = "answered"]
              /\ UNCHANGED status
    /\ UNCHANGED <<open, rest, pool, target, tried, seen, heard>>

(* A retryable status, a network error or the timeout of the client.       *)
Fail(r) ==
    /\ pc[r] = "waiting"
    /\ pc' = [pc EXCEPT ![r] = "tripping"]
    /\ UNCHANGED <<open, requestVars>>

Trip(r) ==
    /\ pc[r] = "tripping"
    /\ open' = open \cup {Key(r, target[r])}
    /\ pc' = [pc EXCEPT ![r] = "next"]
    /\ UNCHANGED requestVars

Candidate(r) == pc[r] = "next" /\ rest[r] # {}

SkipOpen(r) ==
    LET p == First(rest[r]) IN
    /\ Candidate(r)
    /\ Key(r, p) \in open
    /\ rest' = [rest EXCEPT ![r] = @ \ {p}]
    /\ seen' = [seen EXCEPT ![r] = @ \cup {p}]
    /\ UNCHANGED <<open, pc, pool, target, status, tried, heard>>

SkipUnbuildable(r) ==
    LET p == First(rest[r]) IN
    /\ Candidate(r)
    /\ Key(r, p) \notin open
    /\ ~Builds(r, p)
    /\ rest' = [rest EXCEPT ![r] = @ \ {p}]
    /\ UNCHANGED <<open, pc, pool, target, status, tried, seen, heard>>

RetryKeeping(r) ==                                 \* mutant of Retry
    LET p == First(rest[r]) IN
    /\ Candidate(r)
    /\ Key(r, p) \notin open
    /\ Builds(r, p)
    /\ target' = [target EXCEPT ![r] = p]
    /\ tried' = [tried EXCEPT ![r] = Append(@, p)]
    /\ pc' = [pc EXCEPT ![r] = "waiting"]
    /\ UNCHANGED <<open, rest, pool, status, seen, heard>>

Retry(r) ==
    LET p == First(rest[r]) IN
    /\ Candidate(r)
    /\ Key(r, p) \notin open
    /\ Builds(r, p)
    /\ target' = [target EXCEPT ![r] = p]
    /\ rest' = [rest EXCEPT ![r] = @ \ {p}]
    /\ tried' = [tried EXCEPT ![r] = Append(@, p)]
    /\ pc' = [pc EXCEPT ![r] = "waiting"]
    /\ UNCHANGED <<open, pool, status, seen, heard>>

GiveUp(r) == pc[r] = "next" /\ rest[r] = {} /\ Ends(r, "failed")

(* The handler is dropped with its client, or a cache hit ends it before   *)
(* anything was sent; the budget checks refuse nothing in this build.      *)
Drop(r) ==
    /\ pc[r] \in {"checking", "ready", "waiting", "tripping", "next"}
    /\ Ends(r, "dropped")

-----------------------------------------------------------------------------
(* handle_streaming_response.  A task of its own pumps chunks; prep comes  *)
(* to it with fallback_targets as prep_upstream_request has left them.     *)

Relay(r) ==
    /\ pc[r] = "streaming"
    /\ Len(tried[r]) \notin heard[r]
    /\ heard' = [heard EXCEPT ![r] = @ \cup {Len(tried[r])}]
    /\ UNCHANGED <<open, pc, rest, pool, target, status, tried, seen>>

Complete(r) == pc[r] = "streaming" /\ Ends(r, "complete")

(* The pump finds the client gone when it sends it a chunk. *)
Leave(r) == pc[r] = "streaming" /\ Ends(r, "left")

(* An error signature in a chunk, or a read error or timeout. *)
Break(r) == pc[r] = "streaming" /\ Ends(r, "failover")

Failover(r) == pc[r] = "failover" /\ pool[r] # {}

StitchUnbuildableKeeping(r) ==                     \* mutant of StitchUnbuildable
    Failover(r) /\ ~Builds(r, First(pool[r])) /\ UNCHANGED vars

StitchUnbuildable(r) ==
    LET p == First(pool[r]) IN
    /\ Failover(r)
    /\ ~Builds(r, p)
    /\ pool' = [pool EXCEPT ![r] = @ \ {p}]
    /\ UNCHANGED <<open, pc, rest, target, status, tried, seen, heard>>

Stitch(r) ==
    LET p == First(pool[r]) IN
    /\ Failover(r)
    /\ Builds(r, p)
    /\ pool' = [pool EXCEPT ![r] = @ \ {p}]
    /\ target' = [target EXCEPT ![r] = p]
    /\ tried' = [tried EXCEPT ![r] = Append(@, p)]
    /\ pc' = [pc EXCEPT ![r] = "stitching"]
    /\ UNCHANGED <<open, rest, status, seen, heard>>

Stitched(r) == pc[r] = "stitching" /\ Ends(r, "streaming")

StitchFails(r) == pc[r] = "stitching" /\ Ends(r, "failover")

Abort(r) == pc[r] = "failover" /\ pool[r] = {} /\ Ends(r, "aborted")

-----------------------------------------------------------------------------
(* An entry expires after 60 s, or is evicted. *)
Expire(k) ==
    /\ k \in open
    /\ open' = open \ {k}
    /\ UNCHANGED <<pc, requestVars>>

Status == {"ok", "rejected"}

Prep(r) == Check(r) \/ NoActiveKeys(r) \/ PrimaryUnbuildable(r) \/ Prepare(r)

Execute(r) ==
    \/ Dispatch(r) \/ (\E s \in Status : Accept(r, s)) \/ Fail(r) \/ Trip(r)
    \/ SkipOpen(r) \/ SkipUnbuildable(r) \/ Retry(r) \/ GiveUp(r)

Pump(r) ==
    \/ Complete(r) \/ Break(r) \/ StitchUnbuildable(r) \/ Stitch(r)
    \/ Stitched(r) \/ StitchFails(r) \/ Abort(r)

Next ==
    \/ \E r \in Request : Prep(r) \/ Execute(r) \/ Pump(r)
                          \/ Relay(r) \/ Leave(r) \/ Drop(r)
    \/ \E k \in open : Expire(k)

Spec == Init /\ [][Next]_vars

(* The runtime runs what is ready, and the HTTP client gives up on a       *)
(* response, body included, after 120 s.                                   *)
FairSpec == Spec /\ \A r \in Request : WF_vars(Prep(r) \/ Execute(r) \/ Pump(r))

-----------------------------------------------------------------------------
Routing == {"waiting", "tripping", "next"}
Pumping == {"streaming", "failover", "stitching"}
Errors == {"noKeys", "unbuilt", "failed", "aborted"}

Ended == {"noKeys", "unbuilt", "answered", "failed", "dropped",
          "complete", "left", "aborted"}

TypeOK ==
    /\ open \subseteq Tenant \X Alias
    /\ pc \in [Request -> Ended \cup {"checking", "ready", "waiting", "tripping",
                                      "next", "streaming", "failover", "stitching"}]
    /\ target \in [Request -> Nat]
    /\ status \in [Request -> Status \cup {"none"}]
    /\ DOMAIN rest = Request /\ DOMAIN pool = Request /\ DOMAIN tried = Request
    /\ DOMAIN seen = Request /\ DOMAIN heard = Request
    /\ \A r \in Request :
        /\ rest[r] \subseteq Position(r)
        /\ pool[r] \subseteq Position(r)
        /\ seen[r] \subseteq Position(r)
        /\ tried[r] \in Seq(Position(r))
        /\ heard[r] \subseteq DOMAIN tried[r]
        /\ target[r] \in Position(r) \cup {0}

WasTried(r, p) == \E n \in DOMAIN tried[r] : tried[r][n] = p

(* Priorities are kept: whenever a request is sent to a target, by the     *)
(* router or by the stream failover, each target before it in the route    *)
(* was found open, cannot be built, or was tried by the request before.    *)
InOrder == \A r \in Request : \A n \in DOMAIN tried[r] : \A p \in Position(r) :
    p < tried[r][n] =>
        \/ p \in seen[r] \/ ~Builds(r, p)
        \/ \E m \in DOMAIN tried[r] : m < n /\ tried[r][m] = p

(* A request that is not a stream is sent to no target twice, whichever    *)
(* breakers expire while it goes through the fallbacks.                    *)
TriedOnce == \A r \in Request \ Streaming : \A m, n \in DOMAIN tried[r] :
    tried[r][m] = tried[r][n] => m = n

NowhereToGo(r) ==
    \A p \in Position(r) : p \in seen[r] \/ ~Builds(r, p) \/ WasTried(r, p)

(* The first target that was not found open has no request built for it.   *)
PrimaryRefuses(r) == \E p \in Position(r) :
    ~Builds(r, p) /\ \A q \in Position(r) : q < p => q \in seen[r]

(* An error, a stream's abort included, comes at one of two places.  At    *)
(* the end of the route every target was found open, cannot be built, or   *)
(* was tried.  Before the first call the error of building the primary's   *)
(* request goes to the client as it is (llm_router.rs 233-243), whatever   *)
(* the others could do; once a call was made no error leaves a target out. *)
ErrorIsEarned == \A r \in Request : pc[r] \in Errors =>
    \/ NowhereToGo(r)
    \/ pc[r] = "unbuilt" /\ tried[r] = << >> /\ PrimaryRefuses(r)

(* A call that was not the answer: another followed it, or it was lost.    *)
Unanswered(q, n) ==
    n < Len(tried[q]) \/ pc[q] \in {"tripping", "next", "failed", "dropped"}

(* Whoever finds a target open finds it so by its own tenant's doing: some *)
(* request of that tenant was sent to a target under that very key, and    *)
(* this call was not what answered it.  Neither another tenant's failures  *)
(* nor those of the other keys of a route take a target out of it.         *)
OpenIsEarned == \A r \in Request : \A p \in seen[r] :
    \E q \in Request : \E n \in DOMAIN tried[q] :
        /\ TenantOf[q] = TenantOf[r] /\ Route[q][tried[q][n]] = Route[r][p]
        /\ Unanswered(q, n)

(* One request costs a bounded number of calls: one per target, and for a  *)
(* stream once more for each target but one.                               *)
AttemptsBounded == \A r \in Request :
    LET n == Cardinality(Position(r)) IN
    /\ r \notin Streaming => Len(tried[r]) <= n
    /\ n > 0 => Len(tried[r]) <= 2 * n - 1

(* Where a request is on its route, and what it has before it. *)
StageOf(r) ==
    CASE pc[r] \in {"checking", "ready"} \cup Routing -> "routing"
      [] pc[r] \in Pumping -> "streaming"
      [] pc[r] = "unbuilt" -> "refused"
      [] pc[r] \in Errors \ {"unbuilt"} -> "exhausted"
      [] pc[r] \in Ended \ Errors -> "over"

LeftOf(r) ==
    CASE pc[r] = "checking" -> rest[r] \cup pool[r]
      [] pc[r] = "ready" -> rest[r] \cup {target[r]}
      [] pc[r] \in Routing -> rest[r]
      [] pc[r] \in Pumping -> pool[r]
      [] pc[r] \in Ended -> {}

LaterOf(r) == IF r \in Streaming /\ pc[r] \in Routing THEN pool[r] ELSE {}

Stage == [r \in Request |-> StageOf(r)]
Left == [r \in Request |-> LeftOf(r)]
Later == [r \in Request |-> LaterOf(r)]
Positions == [r \in Request |-> Position(r)]
Unfit == [r \in Request |-> {p \in Position(r) : ~Builds(r, p)}]

Walker == INSTANCE RouteWalk WITH
    Target <- Positions, Unfit <- Unfit, stage <- Stage, left <- Left, later <- Later, calls <- tried

(* A request walks its route in ascending order and never goes back, and a *)
(* stream does so once more from the target after its first: what router   *)
(* and stream failover do between them is an implementation of RouteWalk.  *)
WalksItsRoute == Walker!Spec

(* Every request ends, also while streams break and are stitched and       *)
(* breakers open and close, as long as its client reads or goes away.      *)
EveryRequestEnds == \A r \in Request : <>(pc[r] \in Ended)

-----------------------------------------------------------------------------
(* What the documentation says.  TLC refutes these; section 5 of the       *)
(* README names the smallest instances.                                    *)

(* A request fails only when no target is left for it, as failover is said *)
(* to be automatic.  The loop over the fallbacks skips a target whose      *)
(* request cannot be built; that of the primary is an error at once.       *)
FailsOnlyAtTheEnd == \A r \in Request : pc[r] \in Errors => NowhereToGo(r)

(* A stream moves on to the next target when one fails it: it is sent to   *)
(* no target twice.  The fallbacks that execute_upstream_request has tried *)
(* are still in the list, the one whose stream has just broken included.   *)
StreamsMoveOn == \A r \in Streaming : \A m, n \in DOMAIN tried[r] :
    tried[r][m] = tried[r][n] => m = n

(* Stream failover skips targets whose breaker is open, as routing does.   *)
FailoverSkipsOpen == [][\A r \in Request :
    (pc[r] = "failover" /\ pc'[r] = "stitching") => Key(r, target'[r]) \notin open]_vars

(* What the client of a stream hears is one answer.  A fallback is sent    *)
(* the original request and begins anew, after what was already relayed.   *)
OneAnswer == \A r \in Request : Cardinality(heard[r]) <= 1

(* A stitched stream goes to the client under a successful status.         *)
StitchedIsOk == [][\A r \in Request :
    (pc[r] = "stitching" /\ pc'[r] = "streaming") => status[r] = "ok"]_vars
====
