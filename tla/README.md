# A verification of the Kryneth gateway

Kryneth sits between agents and the services they use. It proxies chat
completions to LLM providers, and it executes the tool calls that the models
ask for against MCP servers. The second is where its claim to be an "execution
integrity boundary" is decided: a tool call may move money, a network may lose
its answer, and the agent will retry. This directory holds TLA+ models of the
parts of the gateway that keep state, the TLC runs that check them, and the
theorems about them that TLAPS proves.

Paths below are relative to the repository root; the code lives in
`src/src/` as seen from the directory that holds `src/` and `tla/`.

## 1. Inventory

| Part | Source | State | Operations | Interacts with |
|---|---|---|---|---|
| Execution store | `infrastructure/oss_adapters.rs` 210-436, `domain/execution.rs` | moka cache: key -> state, version, lease, result | `create_or_claim`, `mark_running/succeeded/failed/unknown` (`get`, `transition` have no caller) | called by the execution service |
| Execution service | `usecases/execution_service.rs` | none of its own; one handler future and one detached task per call | `execute_tool` | store, reconciler, transport |
| MCP transport, fan-out | `infrastructure/mcp_client.rs` | none | `execute_single_tool_call`, `fan_out` (10 at a time) | MCP servers; called by the service and by the proxy |
| Reconciler | `oss_adapters.rs` 438-449 | none | `reconcile` | called when a guarded key is Unknown |
| MCP registry, name scanner | `infrastructure/mcp_registry.rs` | tool -> URL map, outcomes of warm-ups, 20 permits | warm-up, `NameScanFsm` | orchestrator, `GET /v1/mcp/registry` |
| Agent guardian | `usecases/behavior_guard.rs` | moka cache of counters per agent and tool signature (60 s) | `evaluate` of each requested call, sandbox | proxy |
| Rate limiter | `api/middleware/rate_limit.rs`, `oss_adapters.rs` 127-156 | DashMap of buckets (`consumed`, `is_blocked`) | middleware, reset worker | all requests |
| Router, circuit breaker | `infrastructure/llm_router.rs`, `routing_strategy.rs` | routing table (ArcSwap), breaker cache (60 s) | target choice, failover, stream failover | providers |
| Response cache | `infrastructure/l1_cache.rs`, `usecases/proxy.rs` | exact and semantic L1 maps | lookup, fill at the end of a response or stream | proxy |
| Proxy | `usecases/proxy.rs`, `agentic_orchestrator.rs`, `agentic_tracker.rs`, `tool_router.rs` | none of its own | the request pipeline, stream stitching, tool interception | all of the above |
| Edge | `api/handlers.rs`, `middleware/*`, `domain/billing.rs`, `compliance.rs` | dashboard metrics, trace store, budgets | handlers, auth, billing guard | all requests |
| Providers | `infrastructure/providers/*` | none | translation of requests and responses | router |

What is hard, per part, and what makes it correct:

* **Execution store and service.** Every store operation is a `get` and an
  `insert` with awaits between; a handler dies with its client, its attempt
  does not; two timeouts (4.5 s and 5 s) and a lease (10 s) race; the cache
  forgets. Correct means: a guarded mutating call acts at most once; Unknown
  is never retried without the reconciler; a timeout never becomes Failed; a
  success is never made up; the version fence tells attempts apart; every call
  is answered and no key stays blocked.
* **Transport.** How an HTTP outcome maps to success, Failed or Unknown
  decides whether the retry is allowed. Correct means Failed only when nothing
  was done, Succeeded only when it was.
* **Agent guardian.** Counters are read and written back with awaits between,
  under a time to live that each write renews. Correct means that a loop or a
  storm is stopped within a known number of calls, and no others are.
* **Rate limiter.** Two atomics per bucket, updated separately, and a reset
  worker. Correct means no tenant exceeds its budget in a window by more than
  the number of requests in flight and no tenant stays blocked after a reset.
* **Router.** A healthy set read before it is used, breakers shared by all
  requests of a tenant, failover while streaming. Correct means priorities are
  kept, no target is tried twice for a request, a broken one is skipped and one
  that others broke is not, an error comes when there is nowhere left to go or
  before anything was sent, and a stream is one answer.
* **Response cache and pipeline.** The cache is asked with the body as it came
  and filled by a task that outlives the request, with the body as it was
  sent; the sandbox and the fan-out ask and run many things at once. Correct
  means that a replay is an answer given to the same tenant for what it asks,
  that nothing redacted goes out, that a tool a message calls runs only when all
  calls of it are allowed, and that results are those of the calls.
* **Conversation.** The agent sends its whole history each turn, the target may
  change each turn, and tools are stripped, asked about and put back. Correct
  means that each target gets the same conversation in its own form.
* **Edge and registry.** Identity goes through the layers in two forms, a header
  and claims, and so does a session, in one namespace with those that clients
  name. A scanner looks for names in bytes cut into chunks; warm-ups run
  under a semaphore. Correct means one request is one tenant everywhere, a
  warm-up is set off by a value under `name` only, and every permit comes back.

The hazards, each at its line and with the properties that cover it, are in
`PROJECT.json`.

## 2. Plan

1. `ExecutionStore`, `ExecutionService`, with the abstract `SingleEffect`:
   the core. Done, with proofs of its main properties.
2. `RateLimiter` and `AgentGuardian`: two small concurrent counters whose lost
   updates and stale flags matter. Done, with proofs of their bounds.
3. `UpstreamRouter`, with the abstract `RouteWalk`: target choice, circuit
   breaker, stream failover. Done, with proofs of every safety property and of
   the refinement.
4. `Gateway`: one request through redaction, cache, upstream, sandbox and
   fan-out, and the tasks that outlive it. Done, with proofs. It leaves the
   choice of a target to step 3, the counters to step 2, the execution of a
   tool call to step 1: their outcomes are free choices.
5. `Providers`, `UserText`, `ToolRouter` and `Conversation`, which composes
   them: what becomes of an agent's history over several turns. Done, with
   proofs about what is sent, looked up, scanned and offered.
6. `NameScanner` and `Ingress`, which uses it: the layers of the routes,
   sessions, warm-ups. Done, with proofs of its safety properties.

Every safety property of the runs is a theorem. Left to model: the chunks of a
stream in `Providers`; a byte-level model of the scan of stream chunks for error
signatures.

## 3. The execution service

### Modules

* `ExecutionStore` - the entries of the operation cache and what each store
  operation makes of one. Pure operators.
* `ExecutionService` - the calls. A *caller* is one call of `execute_tool`: a
  handler (`pc`) and at most one attempt (`tpc`). A step is what runs between
  two awaits, so each store operation is two steps, `...Get` and `...Put`, and
  `get_with` is one because moka makes it atomic. `saw` and `tsaw` hold the
  copy read by the get until it is written back. The MCP server is the variable
  `call`; it may act at any time after a call was sent.
* `SingleEffect` - the promise: one attempt at a time may act, another may
  start only when it is certain that the one before did not and will not act.
* `ExecutionInvariants` - the inductive invariants of the proofs.
* `MCExecutionService` - instances for TLC.
* `ExecutionService_proofs` - theorems for all faults, for calls one after
  the other, and for calls that may come while another waits.

`version` and `content` (whether `result_content` is set) are modelled as they
are. A lease is named by the call that wrote it and `lapsed` is the set of
leases that have run out. A key is *guarded* when the tool is not read-only by
its name (`resolve_tool_policy`) and the request carries an explicit
idempotency key, the condition of `execution_service.rs` 170. Derivation of the
key is abstracted to `KeyOf`.

What the environment does is chosen by the constant `Faults`, listed at the
head of the module. With `Faults = {}` there are still lost answers and
timeouts, which no instance is without. `overlap` and `inflight` let a call
arrive while another on its key is being handled; without them the agent waits
for an answer, or leaves, before it issues the call again.

### Runs

| Run | Instance | Shows |
|---|---|---|
| `es_staggered` | 4 calls, guarded key, a call may come while another waits for its attempt; detach, soft errors | `TypeOK`, `AtMostOnce`, `VersionsAreExclusive`, `KeepsPromise`, and the invariant of the proofs, `StaggeredInv` |
| `es_faults` | 2 calls, unguarded key, all faults | `SuccessIsConfirmed`, `FailureIsConfirmed` |
| `es_live` | 2 overlapping calls, guarded key, drop, detach, abort, soft errors, a reconciler that may know | `EveryCallAnswered`, `NoKeyIsWedged`, `UnknownBlocksRetry` |
| `es_overlap` | 2 overlapping calls, guarded key | `AtMostOnce` refuted, see 5 |

The bounds. Only the number of calls is bounded; each call is finite, so no
counter needs a cap. Versions reach the number of calls. Two calls are enough
for every race of a handler with another and with an attempt; four give a key
that is claimed, fails, is reclaimed, becomes Unknown and is tried again. `es_staggered`
has no overlap of handlers before their attempts, no drop, no lapse and no
verdict: what races there are with those is shown by `es_faults`, `es_live` and
`es_overlap`, and in section 5. One key, because no step reads or writes another key than that of its call.
Deadlock is not checked: when all calls are answered the system rests.

Fairness, assumed by `es_live` only: each handler and each attempt that can step
does (tokio runs what is ready, the policy timeout fires, the transport gives
up on a silent server after 4.5 s), and a lease on record passes. Nothing is
assumed of clients or of the server.

### Proofs

For every set of calls and keys and every value of `Faults`:

* `TypeCorrect`: `Spec => []TypeOK`.
* `SuccessIsAlwaysConfirmed`, `FailureIsAlwaysConfirmed`. `SuccessIsConfirmed`
  is not inductive, since a handler or attempt may hold an old copy and write
  it back. `RecordsInv` adds that every copy, every pending write and every
  answer is backed too, and that what backs it stays (`AnsweredOnce`);
  `RecordsAlways` says that it holds.

When the cache evicts nothing, whatever else happens:

* `UnknownKeysStayBlocked`: `Spec => UnknownBlocksRetry`. A key has settled in
  Unknown when its entry says so and nobody is at work on it. The invariant,
  `Blocked`, is about the calls that come later: until the reconciler has said
  Failed, the entry is Unknown or Succeeded, and they are asking or recording a
  success, and nowhere on the way to an attempt (`Stuck`).

For every set of calls and keys, when
`Faults \subseteq {"detach", "soft", "verdict"}` (`Serially`):

* `SerialCallsActOnce`: `Spec => []AtMostOnce`. `SerialInv` says why: there is
  one handler per key; a call about to dispatch holds the entry and finds the
  key quiet; Absent and Failed mean quiet; Claimed and Running name the call
  that is at work; its lease outlives it. `SerialInvHolds` is the invariant itself.
* `SerialCallsKeepPromise`: `Spec => KeepsPromise`, the refinement. `Spawn`
  maps to `Begin`, a refusal or an unrouted call to `Withdraw`, `Apply` to
  `TakeEffect`, all else stutters.
* `SerialVersionsAreExclusive`: with every key guarded. `VersionInv` adds that
  copies still to be written carry the current version.

When `Faults \subseteq {"inflight", "detach", "soft"}` (`Staggered`), that is,
when a call may also come while others on its key wait for their attempts, and
the reconciler is the one of this build, which never knows:

* `StaggeredCallsActOnce`, `StaggeredCallsKeepPromise` and
  `StaggeredVersionsAreExclusive`: the same three. `SerialInv` is too strong
  here: a handler that has waited writes Unknown over the claim of a later call,
  with the copy and the version of its own. `StaggeredInv` says what is left:
  only one handler per key is before its attempt, all others write nothing but
  Unknown; the call about to dispatch has a version above those of all attempts
  so far, and finds its claim or Unknown under an older version; and Failed
  carries the newest version that an attempt has used, so that reclaiming it
  gives a new one. Unknown under an old version is then never reclaimed, since
  nothing turns it into Failed. `StaggeredInvHolds` is the invariant itself.

The hypotheses are what the code needs, not a convenience. Added to
`{"detach", "soft", "verdict"}`, each of `overlap`, `lapse`, `evict`, `drop`,
`abort`, `liar` and `hasty` breaks `AtMostOnce` with three calls, and `inflight`
does with five: a reconciler that answers Failed, if only of an attempt that
did fail, makes the old version that a late `mark_unknown` has put back
the one to count from, and two attempts carry the same (see 5). The proof
attempt for `inflight` and `verdict` together found that instance.
Overlapping calls and clients that leave early are departures from the
documentation (see 5). The others are assumptions a user of the gateway makes:
leases longer than the work they cover, no eviction while a key is in use,
servers that do not answer non-2xx after acting, a reconciler that does not say
Failed while the call may still act, no task that dies silently.

## 4. The other parts

### Rate limiter

`RateLimiter` models the middleware (`Find`, `ReadFlag`, `Charge`, `Block`) and
the worker that empties the buckets once a minute (`Tick`, `Visit`, `Store`).
Nothing awaits here, but threads run in parallel: a step is one operation on an
atomic. All are Relaxed, so the two stores of the worker happen in either
order. The worker's iterator holds the shard of the bucket it is at, which keeps
`Find` out and nothing else. `passed` and `peak` are history.

| Run | Instance | Shows |
|---|---|---|
| `rl_shared` | 3 limited requests and an unlimited one on a bucket, one on another, fair worker | `WithinBudget`, `RefusedAfterLimit`, `BlockLifts` |

A request passes once and the worker runs as often as it likes. Three requests
exceed a limit of two with a reset at any point between them; the second bucket
lets the worker be busy elsewhere. `rl_shared` assumes weak fairness of the
worker, a task in an endless loop over a timer, and nothing of requests; only
`BlockLifts` uses it. Deadlock is checked: the worker always has a step.

Proved for all requests, buckets and limits: `LimiterTypes`, `BudgetHolds` and
`RefusalsFollowALimit`. `CountInv` says that the counter is at least the number
let through, and if it is more, the bucket has let through a full limit;
`RefusalInv` that a flag or a request over the limit goes back to a full bucket.

### Agent guardian

`AgentGuardian` models `enforce_oss_agent_guardian`: `StormGet` and `StormPut`
charge all calls of a body to the session, then `LoopGet` and `LoopPut` charge
each call to its signature. `get` and `insert` are steps of their own, `now`
is time in units of a fraction of the 60 s time to live, `Horizon` is the bound
on it. The environment is chosen by constants: `Parallel` (a session has
requests in flight together), `Drops` (clients leave), `Evicts` (the cache is
at its bound).

| Run | Instance | Shows |
|---|---|---|
| `ag_serial` | 4 requests, one at a time, 3 signatures, 3 units past the start | `LoopIsStopped`, `StormIsStopped` |
| `ag_bans` | 4 parallel requests, drops, evictions | `BansEnd` |

TTL is 2 and the horizon up to 3, so entries expire, are renewed and expire again;
limits of 1 to 3 with four requests are reached and passed. `ag_serial` has one
request of a session at a time, so the update that two in parallel lose is not
in it; section 5 says what it does to `LoopIsStopped`. Deadlock is not
checked: requests end and time stops at the horizon.

Proved for all bodies, limits, time to live and horizon, when sessions are
serial and the cache stays below its bound: `SerialLoopsAreStopped` and
`SerialStormsAreStopped`. `CountInv` says that a live counter counts at least
the calls let by within the last TTL (`Recent`), since each of them renewed the
entry; `PendingInv` says the same of a number about to be inserted;
`OneInFlight` keeps others from changing what it was computed from. With
`Parallel` the property fails (see 5); with `Evicts` it plainly does.
Proved without these hypotheses, for parallel requests, drops and evictions:
`GuardianTypes`, and `BansAlwaysEnd`, the action property `BansEnd`. Its
invariant, `WritesLetBy`, says that the last write under a signature that is
still live was that of a call let by, since a refused call writes nothing.

### Router, circuit breaker, stream failover

`UpstreamRouter` follows a request along the positions of its route, which are
its targets in order of priority. `Check`, `NoActiveKeys`, `PrimaryUnbuildable`
and `Prepare` are `prep_upstream_request`; `Dispatch`, `Accept`, `Fail`,
`Trip`, `SkipOpen`, `SkipUnbuildable`, `Retry` and `GiveUp` are
`execute_upstream_request`; `Relay`, `Complete`, `Leave`, `Break`, the `Stitch`
actions and `Abort` are the pump of `handle_streaming_response`. `rest` is the
list the loop at hand goes through, `pool` the list `fallback_targets` as it
reaches the pump: the router works on a clone. `Expire` forgets a breaker at
any time, which covers the 60 s of the code and every other duration. `Drop`
ends a request before an answer: its client leaves, or the cache answers.

`RouteWalk` is what it amounts to, with no breakers, lists or loops: a request
goes through its targets in ascending order, passing over any it likes, and is
exhausted when none is left, or refused before it was sent anywhere, when
no request can be built for the first that is left (`Unfit`); a stream that was accepted has, once more, those
after the first it was sent to. `WalksItsRoute` is the refinement. `Left` maps
the lists: the healthy ones and those not yet looked at before the first call,
then `rest`, then `pool` for the pump; `Later` is `pool` while the router still
works on its clone of it.

| Run | Instance | Shows |
|---|---|---|
| `ur_routes` | a stream with 3 targets (2 under one key, 1 unbuildable), a buffered request of its tenant, one of another tenant with equal key names | `InOrder`, `TriedOnce`, `ErrorIsEarned`, `OpenIsEarned`, `AttemptsBounded`, `WalksItsRoute`, `EveryRequestEnds` |

No counter needs a bound: each request walks finite lists once. Three targets
are enough for a target to be skipped, tried and left over in one walk. `TypeOK`
is left to its theorem, `RouterTypes`.

An error has two places. The loop over the fallbacks passes over a target that
no request can be built for; `prep_upstream_request` returns that error of the
first target with `?`, and the fallbacks are not asked. `ErrorIsEarned`
says that there is no third place, and `FailsOnlyAtTheEnd`, which TLC refutes,
that there is only the first (section 5). `OpenIsEarned` follows a target that
was found open back to a call: of the same tenant, under the same key, and not
the one that was answered. The breaker's key, a string of both, is what it rests on.

`ur_routes` assumes weak fairness of each request's own steps (tokio runs what is ready;
the HTTP client, built in `main.rs`, gives up on a response with its body after
120 s), so a stream that relays for ever is not assumed to exist, nor is a client
that stays and stops reading; `Gateway` has both clients. Nothing is assumed of breakers and other requests. Deadlock is not checked: requests end.

Proved for all requests, routes, tenants and choices of streams:
`RouterTypes`, `PrioritiesAreKept`, `TargetsAreTriedOnce`, `ErrorsAreEarned`,
`BreakersAreSeparate` and `CallsAreBounded`. `Walk` says where the positions of a route are at each
point of the code: in the list at hand, or seen open, unbuildable or tried; and
that the error of the first target comes before any call. `Evidence` is what
keeps `OpenIsEarned`: each tenant and key in the breakers, each target about to
be put there and each seen open has a call that was not the answer, and such a
call never becomes one. For streams it says so of `pool` as well, which is why the failover may end in an
error, and why it tries targets twice. `Cost` bounds the calls: in the router
those made and the positions left are at most the targets; the pump starts with
one position less than the route has, and each of its calls takes one.
`RouterWalksItsRoute` is the refinement, for all of them too: each step of a
request maps to one step of `RouteWalk` (`PassesOver`, `Sends`, `WalkEnds`, the
start of a stream) or to none (`Stays`), and leaves the walks of the others
alone (`OthersStay`).

### The gateway

`Gateway` follows a completion request through `execute_proxy`. `Admit` is
what comes before the upstream: the guardian may turn the request away, the
compliance service redacts a sensitive body, the exact cache is asked.
`Forward` sends it, or refuses when no target can be asked. `Buffered` reads a
body, asks the policy service about the calls of its message at once (`Allow`,
`Deny`, `Intercept`, `NoVerdict`), starts calls up to the width of the fan-out
(`Launch`), takes their results as they come (`Land`) and attaches them
(`Attach`), or fails to, for a body that is no object (`AttachFails`).
`Pump` relays a stream and stitches a fallback to it when it breaks.
`Collector` is the two tasks that live on: one collects the text the pump
could hand it, one logs the request and fills the cache. `Client` goes away
(`Drop`, `Leave`) or stays and reads no more (`Stall`); the tasks go on. Which
target, which verdict, which result: free choices, made by the modules above.
`outbound`, `logged`, `passed` and `lost` are history.

The data that the properties tell apart:

* A body of upstream (`Reply`) has calls in one of four places (`Place`): in the
  message of its first choice, beside such a message, elsewhere, or it is an
  array of them. The sandbox looks in the first place alone, the adapter that
  extracts the calls in all, and results can be attached to all but the last.
* An event of a stream is text of some bytes, has none, is one that the event
  parser fails on, or is `[DONE]`; the last two end the collection. Text is
  left out once it does not fit the buffer (`held`).
* `Prompt` is what is read out of a redacted body for telemetry and for the key
  of the fill: the content of its first choice if the body looks like an answer,
  else its text. So it may be any other body, and the answer to a redacted
  request is kept under that.

| Run | Instance | Shows |
|---|---|---|
| `gw` | two requests of two tenants: a sensitive body, one it redacts to and one that reads as an answer, a test scenario; prose with and without the word `tool_calls`, two calls, a phantom call, a call beside a message, a bare array; a stream that fits the buffer and one that does not, a fallback with an event the parser fails on and one without text; clients that leave or stop reading | `TypeOK`, `ReplayIsOwn`, `RawStaysInside`, `AllowedOnly`, `ResultsAreOwn`, `WholeUnlessCut`, `EveryRequestSettles` |
| `gw_tools` | as `gw`, three provider formats | `ToolsAreExecuted` refuted, see 5 |

Two requests are a fill and a replay, in either order and at once. A fan-out of
width 2 (`Window`) with answers of one and two calls has two in flight that end in
either order; that one waits for another to end is left to the theorem, which
has any width. A channel of two places (`Channel`) with streams of up to three events and a
fallback is a channel that is full, a stream that breaks at each chunk, and a
stitched one; a buffer of three bytes (`Buffer`) takes two texts of one byte and
has no room for one of one byte after one of two. Entries expire at any time. Deadlock is not checked:
requests end.

`gw` assumes weak fairness of each request's handler, of its pump and of
its tasks: what they await has a timeout or ends when a connection closes, but
for the pump's send to the client, which has none. So the pump of a `deaf`
client has no step, and `EveryRequestSettles` leaves such requests out
(`Blocked`): they may wait for ever, and their telemetry with them. Nothing is
assumed of clients, streams and the cache.

Proved for all requests, tenants, bodies, answers, streams, buffers and widths:
`GatewayTypes`, `ReplaysAreOwn`, `RawNeverLeaves`, `ToolsAreAllowed`,
`ResultsMatchCalls`, `UncutStreamsAreWhole`.
`StageInv` says what each stage has behind it: past redaction, and in the
tasks, a body is not sensitive. `CacheInv` says that each entry is the answer
to a request whose telemetry is done, under its tenant and its
`TelemetryPrompt`; a replay inherits that. `FanInv` says that what was launched
is in flight or has come in, once, and, where the calls are in the message, only
when all verdicts were in favour. `WholeInv` is about clean streams, those
that the event parser takes to their end and whose text fits. `Clean` says that it
fits by a function of the partial sums of its bytes, for which no recursion is
needed (`CleanSum`); `Collecting` that the chunks in the channel are the
next ones of the stream, and what the collector has taken up to there is every
text and their sum (`TookNone`, `TookOther`, `TookText`). That redaction leaves
nothing to redact, neither in the body nor in what is read out of it, is
an assumption (`GatewayAssumption`): an external service does it.

Loop budget, loop detection and burn rate are called on this way and do
nothing in this build (`enforce_agentic_loop_budget`, `enforce_burn_rate`):
they are no actions. The semantic cache is off as well (`OssSemanticCache`).

### The conversation

`Conversation` is an agent that keeps its history and sends all of it each
time (`Write`, `Answer`), the gateway's way with it (`Send`, `Build`, `Fail`)
and the target's answer (`Receive`). It composes three modules of pure operators:
`Providers`, the translation of messages to OpenAI's, Anthropic's and Gemini's
form and of answers back; `UserText`, what the cache is asked for and what is
searched for personal data; `ToolRouter`, which strips tool schemas, offers
`get_tool_details` and answers its calls.

The scan for personal data finds the text of a block only when the first
`"type"` in it, at whatever depth, is the block's own: `Nested` are the texts for
which it is not, and `Legible` the blocks the scan can read. `ScanCovers` is about
those. The reader for the cache also takes bare strings of a list for text; what
it looks up may therefore not have been scanned (`LookedIsScanned`, section 5).
`NothingIsLost` goes by `Contents`, the parts of a message that `to_universal`
makes: what it makes nothing of, images in tool messages and the legacy
`function_call`, is not among them. `ToolsAreOffered` says that each tool keeps
its place, and its schema all but the paths through `description`, `title` and
`examples`; that includes a property of such a name (`PropertiesAreKept`,
section 5). `docs/features/mcp-router.md` 138 says that the whole `parameters`
block goes, 235-238 that three keys of it do: the code does the second.

| Run | Instance | Shows |
|---|---|---|
| `conv` | three turns, two tools, texts, split and empty writings, a block that begins with another type, images, two calls at once, calls of `get_tool_details` | `Alternates`, `NothingIsLost`, `NoEcho`, `ScanCovers`, `ToolsAreOffered` |

Bounds: three requests, seven messages of history, and a budget of six parts for
the scan, which stands for 64 KiB. Three turns let each target follow each other
one, a failed request be sent again with more, and an answer go to a call of the
turn before. The environment is what an agent does: it sends what its user
writes before it asks, adds each answer to its history, gives one result to
each call in any order. Requests ask for stripped schemas (the header
`x-kryneth-context-compression`; without it the gateway leaves the tools
alone). The semantic cache is off in this build, so `NoEcho` is about what it
would be asked for. Deadlock is not checked: the conversation ends at its
bounds. Schemas are trees over a constant set `Schemas`, over which `Strip`
descends as a recursive function; `conv` has one with descriptions at three
depths, under keys and in a list, and all that stripping makes of it.

Proved for histories of any length, any writings, answers, tools, targets and
budget: `AlternatesHolds`, `NothingIsEverLost`, `NoEchoHolds`,
`ScanCoversHolds` and `ToolsAreOfferedHolds`. The assumptions are that preambles,
writings and answers are sequences (`PreamblesAssumption`, `WritingsAssumption`,
`AnswersAssumption`), the budget is a number (`BudgetAssumption`), the names of
the tools of a request differ (`ToolsAssumption`) and a schema is an object, an
array or a value, nested no deeper than `serde_json` parses, and is still one
when stripped (`SchemasAssumption`). The adapters are loops, written as
recursive functions on `0..Len(h)`. The prover has no induction for them, but it
has well-founded minima (`WFMin`): in the module `Loops`, `UpTo` takes the least
index at which a claim fails, and `LoopExists` shows with it that such a
function exists. On these rest `AfterAlternates` with `AnthropicAlternates`
(after each message the sequence so far alternates and its last role is known),
`TakesAll` with `KindsTakesAll` (a loop that picks items misses none), and
`FlattenCovers` (a flattened sequence has all that was in its members).
`RequestSpeaks` is `NothingIsLost` of one request: `UniversalSpeaks` follows the
first loop message by message beside the joined contents of the history (what it
leaves out says nothing), `AnthropicSpeaks` the second, where `AfterSpeaks`
shows that what comes between two messages is a dummy and no more. The invariant
of the conversation, `TalkInv`, says that the history is a sequence of messages
made of parts and calls, which only grows (`SentInv`), that a request waits for
a real target, hence that an answer never comes back as the user's, and that
each request was looked up under its last message or under nothing
(`LookedIsLast`: a request ends with what decides).

`ToolsAreOffered` goes by the depth of schemas: what holds of a schema when it
holds of all that are less deep holds of all (`ByDepth`). `StrippedIs` and
`PathsAre` show that the two recursive functions exist, level by level;
`StrippedPaths` that the paths of a stripped schema are those of the schema that
hold no key of `Metadata`, no more and no fewer; `LazyIs` and `OfferedIsRight`
follow the tools one by one and the one that is appended.

### The way in

`Ingress` takes a request through the layers of its route: `Authenticate` or
`Reject`, then for chat `Bill`, `Charge` and the handler (`Handle`), which
names its session and may set off the warm-up of a tool, `WarmEnds`; for the
admin routes `RequireAdmin`; for the registry `Show`. Each layer is a step. A
tenant is a tenant and a spelling, since a UUID has several: the header has
the one `Uuid` prints, the claims that of the token. Sessions are in one
namespace, as the strings of `resolve_session_id` are: one that the client
names may be any other. `OneTenant` says of the tenant that header and claims
agree and of sessions that two tenants who name none share none; that
the spellings agree (`OneSpelling`), and that no client names another's session
(`SessionsAreApart`), is refuted in section 5.

`NameScanner` is `NameScanFsm`, state by state, over tokens instead of bytes, and
`find_tool_hint` over its chunks; `Text` and `Names` are the reference: the
text of a body and the names in it. A character that JSON writes with a
backslash is a token of `DOMAIN Letter`, and `Letter` gives what is written
after it: quote and backslash themselves, `b` for a backspace, `n` for a line
feed. The scanner takes that letter for the character, and `Read` is what a text
says to it; a body names a tool when a value under `name` reads so. That
the value is the name itself is refuted in section 5 (`WarmsByName`).

| Run | Instance | Shows |
|---|---|---|
| `ingress` | three requests, each with any of eleven mixes of credentials, headers and bodies; one permit, one second | `OneTenant`, `StatusIsEarned`, `PermitsReturn` |

The mixes are a bearer, a key and a cookie, good, bad and missing, alone and
against each other, a header of another tenant, a spelling of its own, no
UUID, and a session that is another's; two tools are registered; the bodies have
a name, a name after another, a name within a text, as a value, as a key, and a
backspace for the first letter of a name, cut by chunks of ten tokens, the
last after 50 (`ScanLimit`), which all but the longest body stay below. Three requests are two that warm
up, one of which may find no permit, and one that looks. Whether a token or a
key is good is given with it. A key that ends in a quote and `name` is taken
for `name`, which `Names` allows. `ingress` assumes that a warm-up ends: its
HEAD has a timeout of 500 ms. Nothing is assumed of requests. Deadlock is not
checked: requests end.

Proved for all requests, credentials, headers, routes, permits and clocks:
`OneTenantHolds`. `Identified` says that past authentication the header and the
claims are the credential's, each in its spelling, and stay so; `Separate` that
a session the client did not name has the claims' tenant in it. It assumes that what
stands for the absence of a value is no claim (`NothingAssumption`).
`StatusFollowsNames`: `EarnedInv` takes each outcome, and each state shown, back
to a request with claims of the same tenant that named the tool, as the scanner reads
names.

That the scanner finds only names is the theorem `HintsAreNames`, for bodies of any
size, any keys, texts and objects, any characters written with a backslash,
chunks of any length and any limit. Its steps:

* `ByteReads`, `ScanReads`: what each state of the scanner says of the tokens
  before it (`Reads`). In `value` there is a quoted `name` and nothing but
  spaces and colons since; in `in` a quote was opened after that, and `buf` is
  what stands between, less the backslash of each pair (`Spells`);
* `HintIsValue`: so a hint stands in the body after a quoted `name`, spelled
  between quotes (`ValueAt`);
* `MemberTextShape`: the text of a member is two quoted texts with fixed marks
  between, and ends in a comma. What the scanner found has no comma in it, so
  it lies within one member (`OneMember`, `FlattenWindow`);
* `ValueInMember`: in there, a quote within a key or a text has a backslash before
  it (`EscapedIsEscape`), so an unescaped one is an end, the quoted `name` is the end
  of a key and the value that of the member;
* `ReadSays`, `SpelledStays`, `SpellsOnce`: a text as JSON writes it spells what
  it reads, and nothing else.

It assumes of tools that their names have no comma (`RegisteredAssumption`), of
what is written with a backslash that quote and backslash are and that nothing
else is written as a quote (`LetterAssumption`), and of arrivals that keys and
values are sequences (`ArrivalsAssumption`).

`Loops` holds what these proofs and those of the conversation share: loops
written as recursive functions, and sequences of sequences joined into one.

### Not modelled

Listed with the reason under `components` in `PROJECT.json`:

* telemetry, dashboard and the counts and latencies of tools: nothing decides by them;
* fields of requests and answers other than roles and contents, Bedrock (never
  a target, `get_provider_config`), and the chunks of streams in each
  provider's form: translations field by field, which a model would repeat;
* redaction itself, an external service, and the text matching around it;
* the semantic cache and embeddings, which this build replaces by nothing;
* mapping of errors to HTTP, configuration, the arena and the splicing of bytes.

Abstracted in what is modelled: the text of prompts and tool results; the key a
tool call is filed under (`KeyOf`), the hash of a call's arguments
(`Signature`), whether a request can be built for a target (`Unbuildable`).
Routing and client configuration do not change after boot in the open-source
build.

### What stays with TLC

Everything under fairness: `EveryCallAnswered`, `NoKeyIsWedged`, `BlockLifts`,
`EveryRequestEnds`, `EveryRequestSettles`, `PermitsReturn`. Liveness is outside
what the prover does.

All other properties of the passing runs are theorems. What recursive functions
compute is proved where it is needed, over loops (`Loops`) and over schemas
(`ByDepth`), by least counterexample, since the prover has no induction.

## 5. Where code and documentation part

Two runs are kept to show a disagreement; the lines that disagree are quoted
under `findings` in `PROJECT.json`.

* `es_overlap`: overlapping calls on a guarded key are both told Claimed, and
  both reach the server.
* `gw_tools`: calls in an answer of a provider whose format is not OpenAI's are
  returned to the agent, not executed.

One more is about a parameter that nothing reads: `docs/api-reference/enterprise-headers.md`
26-33 names strategies by latency and by cost, and `prep_upstream_request`
(`llm_router.rs` 139) ignores `_strategy`. Static priorities, the third, are what
`InOrder` shows.

TLC refutes the properties below as well. They stay in the modules; a `.cfg`
with the instance named here reproduces each. An instance that is the name of a
run is that of its `.cfg`, with the changes given.

| Property | Instance | What happens | The line it departs from |
|---|---|---|---|
| `AtMostOnce` | 3 calls, guarded, `Faults = {"drop", "detach"}` | a client leaves between claim and attempt; the next call inherits its live lease, works under it, and a third reclaims when it runs out (`oss_adapters.rs` 257) | `README.md` 253, "Prevents duplicate execution replay" |
| `AtMostOnce` | 5 calls, guarded, `Faults = {"inflight", "verdict"}` | a late `mark_unknown` puts back an old version, the reconciler answers Failed, and the key is reclaimed under a version that an attempt already has; the late write of that one's handler puts its lease, which has run out, under the work of the other, and the next call reclaims it (`oss_adapters.rs` 405) | `README.md` 185, "monotonic lease versioning" |
| `VersionsAreExclusive` | 2 calls, `Guarded = {}`, `Faults = {}` | a call on an unguarded Unknown key runs without a claim, under the version of the attempt before | `execution_service.rs` 237, "We reclaim and increment version." |
| `SuccessSticks` | 1 call, `Faults = {}` | the attempt records its success, the handler's timeout overwrites it with Unknown | `README.md` 168, "Result payload cached for deduplication." |
| `SucceededMeansApplied` | 1 call, `Faults = {"soft"}` | an answer 200 that carries `isError` or a JSON-RPC error is a success | `README.md` 168, "Downstream side effect completed cleanly." |
| `FailedMeansNotApplied` | 1 call, `Faults = {"liar"}` | a server acts and answers a non-2xx status | `README.md` 175 |
| `SlidingWindow` | 3 serial requests of one call, limits 2 and 4, TTL 2, horizon 4 | each write renews the entry, so calls spread over two windows add up | `docs/features/agentic-firewall.md` 46 |
| `LoopMeansRepetition` | `CallsOf <- Conversation`, serial, limits 2 and 20 | a body repeats the calls of its history, which are counted again on every turn | `docs/overview/security-model.md` 18 |
| `FailoverSkipsOpen` | one stream, `Route <- Triple` | the failover of a stream does not look at the breakers | `infrastructure/llm_router.rs` 194, "filter out circuit-breaker-blacklisted targets" |
| `OneAnswer` | one stream, `Route <- Pair` | a second answer from its beginning follows part of the first | `docs/overview/architecture.md` 110, "without ... restarting the generation" |
| `StitchedIsOk` | one stream, `Route <- Pair` | an error answer is replaced by the stream of a fallback, under the status of the error | `docs/features/ema-latency-routing.md` 87, "preserve Client HTTP 200" |
| `VersionsNeverRegress` | `es_overlap`, 3 calls, `Faults = {"inflight", "detach"}` | a late `mark_unknown` writes back the copy, and the version, of before the key was reclaimed | `README.md` 185, "monotonic lease versioning" |
| `BlockedMeansSpent` | `rl_shared`, 2 requests, `BucketOf <- PairBucketOf`, `CapacityOf <- PairCapacityOf` | a flag set after the reset blocks a bucket nobody has used | `api/middleware/rate_limit.rs` 135, the text of the 429 |
| `LoopIsStopped` | `ag_serial`, `Parallel = TRUE` | parallel requests of a session read the same count | `docs/features/agentic-firewall.md` 79, "Maximum number of tool calls with identical signatures" |
| `StreamsMoveOn` | `ur_routes`, one stream, `Route <- Pair` | a stream that broke is sent again to the target that broke it | `docs/overview/architecture.md` 110, "consumes the next fallback target" |
| `ProseIsLeftAlone` | `gw` | an answer that has the word `tool_calls` and no call is replaced by a denial when the policy service does not answer | `usecases/proxy.rs` 1632, "the original bytes are returned unchanged" |
| `CachedIsWhole` | `gw` | the part of a stream that was collected before its client left is filed as the answer | `docs/features/semantic-caching.md` 28, "Cache response" |
| `DenialHolds` | `gw`, `Answers <- MCElsewhere` | a call in a delta is not what the sandbox asks about; denied, the body has no message to replace, and the call is executed (`behavior_guard.rs` 431-449, 540-555, `providers/openai.rs` 75-117) | `docs/overview/security-model.md` 19, "intercepts outbound tool execution requests" |
| `ResultsAreOrdered` | `gw` | results of a fan-out are in the order in which the calls ended (`mcp_client.rs` 171) | `infrastructure/mcp_client.rs` 128, "returns an ordered" |
| `KeyedOnPayload` | `gw` | the answer to a redacted body is kept under the text read out of it (`proxy.rs` 726-730), which no client sent | `docs/features/semantic-caching.md` 88, "Keyed on the SHA-256 hash of the entire raw JSON payload" |
| `PropertiesAreKept` | `conv` | a property that is called `title` is stripped like a title | `docs/features/mcp-router.md` 238, "Strictly preserves" |
| `GeminiIsComplete` | `conv` | calls and results have no part in Gemini's form: the message is empty | `docs/changelog/releases.md` 20, "Complete translation support" |
| `CohereIsATarget` | `conv` | no request is ever built for Cohere | `docs/integrations/llm-providers.md` 32, "Failover translation targets" |
| `ResultsFollowCalls` | `conv` | a dummy turn comes between two results of calls made together, and the gateway's own reply to `get_tool_details` has no call before it | Anthropic's API as `providers/anthropic.rs` 141-206 serves it |
| `ToolResultsAreScanned` | `conv` | messages of the role tool are not searched for personal data | `usecases/proxy.rs` 113, "Agent tools ... are the primary vectors" |
| `FailsOnlyAtTheEnd` | `ur_routes` | the primary is open, no request can be built for the next target, and the one after is not asked | `infrastructure/llm_router.rs` 233-243, against the loop over the fallbacks that passes over such a target |
| `LookedIsScanned` | `conv` | the cache is asked for a text in a block that begins with another type, or for one past the budget, which the scan has not read; so it is for a bare string in a list | `usecases/proxy.rs` 203 against 473-498: the two readers differ |
| `SpeaksItsFormat` | `conv` | a body of more than 5 MB goes out in OpenAI's form whatever its target | `infrastructure/llm_router.rs` 497-501 |
| `FindsRegistered` | `ingress` | the rest of a chunk is dropped when a name was found in it, and a second name with it | `infrastructure/mcp_registry.rs` 278, "Returns `Some(tool_name)` when" |
| `SessionIsStable` | `ingress` | the same request a second later has another session | `usecases/agentic_tracker.rs` 89, "Deterministic" |
| `SessionsAreApart` | `ingress` | a client names as its session the string of tenant and key that another's session is | `usecases/agentic_tracker.rs` 37, 57: tenant in what is made, nothing in what is named |
| `OneSpelling` | `ingress` | the token spells the tenant in upper case: the bucket is charged to one spelling, the claims have the other | `api/middleware/auth.rs` 335-362, `api/handlers.rs` 83-86 |
| `WarmsByName` | `ingress` | a value of a backspace and `ash` warms the tool `bash` | `infrastructure/mcp_registry.rs` 111-115 |
