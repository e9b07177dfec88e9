--------------------------- MODULE ExecutionService ---------------------------
(***************************************************************************)
(* ExecutionService::execute_tool (src/src/usecases/execution_service.rs)  *)
(* over MokaExecutionStore: the path of one tool call from its claim on an *)
(* idempotency key, through the detached task that talks to the MCP        *)
(* server, to the outcome recorded under that key.                         *)
(*                                                                         *)
(* A caller is one call of execute_tool.  It owns a handler future, which  *)
(* dies with the client's connection, and at most one attempt, a spawned   *)
(* task that does not.  A step is what runs between two awaits.            *)
(***************************************************************************)
EXTENDS ExecutionStore, FiniteSets

CONSTANTS       \* and Caller, the calls of execute_tool
    Key,        \* idempotency keys (the SHA-256 of lines 82-102)
    KeyOf,      \* the key each call resolves to
    Guarded,    \* keys of mutating tools sent with an explicit idempotency key
    Faults      \* what the environment may do in this instance

\* "overlap"  a call arrives at any moment of another call on its key
\* "inflight" a call arrives while the others on its key wait for their attempt
\* "lapse"    a lease runs out under a claim that is still being worked on
\* "evict"    the cache forgets an entry (300 s TTL, 10 MB weigher)
\* "drop"     a client disconnects before its attempt is spawned
\* "detach"   a client disconnects afterwards: the attempt goes on alone
\* "abort"    a spawned attempt dies without recording anything
\* "soft"     the server answers 200 with a JSON-RPC error in the body
\* "liar"     the server answers non-2xx although it performed the action
\* "verdict"  a reconciler that gives definite answers is plugged in
\* "hasty"    and says Failed while an attempt may still act
FaultKind == {"overlap", "inflight", "lapse", "evict", "drop", "detach",
              "abort", "soft", "liar", "verdict", "hasty"}

ASSUME KeyOfAssumption == KeyOf \in [Caller -> Key]
ASSUME GuardedAssumption == Guarded \subseteq Key
ASSUME FaultsAssumption == Faults \subseteq FaultKind

VARIABLES
    store,      \* the operation cache, one entry per key
    pc,         \* the handler's next step
    saw,        \* the entry its last cache.get returned, until it is used
    ver,        \* claim_ctx.version
    goal,       \* the state its mark_* call is about to write
    retry,      \* handlers on their second create_or_claim
    lapsed,     \* calls whose lease (the one they wrote) has run out
    answer,     \* what the ToolResult says
    verdict,    \* what the reconciler told the handler
    tpc,        \* the attempt's next step
    tsaw,       \* as saw, for the attempt
    tgoal,      \* as goal, for the attempt
    call,       \* the tool call as the MCP server sees it
    reply       \* what the transport made of the server's answer

handlerVars == <<pc, saw, ver, goal, retry, answer, verdict>>
attemptVars == <<tpc, tsaw, tgoal>>
wireVars == <<call, reply>>
vars == <<store, lapsed, handlerVars, attemptVars, wireVars>>

HandlerPC == {"idle", "get", "put", "init", "reconcile", "markGet", "markPut",
              "spawn", "wait", "done", "gone"}
AttemptPC == {"none", "start", "sent", "markGet", "markPut", "done", "dead"}
Answer == {"none", "replayed", "inFlight", "reconciled", "reconcileFailed",
           "previousUnknown", "ok", "failed", "ambiguous", "noOutcome"}
Reply == {"none", "ok", "rpcError", "httpError", "lost", "unrouted"}
Call == {"unsent", "sent", "applied", "refused"}
Verdict == {"none", "succeeded", "failed", "stillUnknown"}

TypeOK ==
    /\ store \in [Key -> Entry]
    /\ lapsed \in SUBSET Caller
    /\ pc \in [Caller -> HandlerPC]
    /\ saw \in [Caller -> Entry]
    /\ ver \in [Caller -> Nat]
    /\ goal \in [Caller -> State]
    /\ retry \in SUBSET Caller
    /\ answer \in [Caller -> Answer]
    /\ verdict \in [Caller -> Verdict]
    /\ tpc \in [Caller -> AttemptPC]
    /\ tsaw \in [Caller -> Entry]
    /\ tgoal \in [Caller -> State]
    /\ call \in [Caller -> Call]
    /\ reply \in [Caller -> Reply]

Init ==
    /\ store = [k \in Key |-> Absent]
    /\ lapsed = {}
    /\ pc = [c \in Caller |-> "idle"]
    /\ saw = [c \in Caller |-> Absent]
    /\ ver = [c \in Caller |-> 0]
    /\ goal = [c \in Caller |-> "Absent"]
    /\ retry = {}
    /\ answer = [c \in Caller |-> "none"]
    /\ verdict = [c \in Caller |-> "none"]
    /\ tpc = [c \in Caller |-> "none"]
    /\ tsaw = [c \in Caller |-> Absent]
    /\ tgoal = [c \in Caller |-> "Absent"]
    /\ call = [c \in Caller |-> "unsent"]
    /\ reply = [c \in Caller |-> "none"]

Peers(c) == {d \in Caller : KeyOf[d] = KeyOf[c]}
Handling(c) == pc[c] \notin {"idle", "done", "gone"}
Attempting(c) == tpc[c] \notin {"none", "done", "dead"}

-------------------------------------------------------------------------------
(* The handler *)

\* The request reaches execute_tool.  Without "overlap" and "inflight" the
\* agent waits for the answer to one call before it issues the same call again.
Arrive(c) ==
    /\ pc[c] = "idle"
    /\ \A d \in Peers(c) :
          \/ ~Handling(d)
          \/ "overlap" \in Faults
          \/ "inflight" \in Faults /\ tpc[d] # "none"
    /\ pc' = [pc EXCEPT ![c] = "get"]
    /\ UNCHANGED <<store, lapsed, saw, ver, goal, retry, answer, verdict,
                   attemptVars, wireVars>>

Finish(c, a) ==
    /\ pc' = [pc EXCEPT ![c] = "done"]
    /\ answer' = [answer EXCEPT ![c] = a]

BeginMark(c, s) ==
    /\ pc' = [pc EXCEPT ![c] = "markGet"]
    /\ goal' = [goal EXCEPT ![c] = s]

\* What the handler does with the state and version create_or_claim returned.
\* A Failed entry (get_with can return one) is run like a claimed one, and
\* after the second claim the returned state is not looked at.
Proceed(c, e) ==
    \/ /\ c \in retry \/ e.state \in {"Claimed", "Failed"}
       /\ BeginMark(c, "Running")
       /\ ver' = [ver EXCEPT ![c] = e.version]
       /\ UNCHANGED <<retry, answer>>
    \/ /\ c \notin retry /\ e.state = "Succeeded"
       /\ Finish(c, "replayed")
       /\ UNCHANGED <<ver, goal, retry>>
    \/ /\ c \notin retry /\ e.state = "Running"
       /\ Finish(c, "inFlight")
       /\ UNCHANGED <<ver, goal, retry>>
    \/ /\ c \notin retry /\ e.state = "Unknown" /\ KeyOf[c] \in Guarded
       /\ pc' = [pc EXCEPT ![c] = "reconcile"]
       /\ ver' = [ver EXCEPT ![c] = e.version]
       /\ UNCHANGED <<goal, retry, answer>>
    \/ /\ c \notin retry /\ e.state = "Unknown" /\ KeyOf[c] \notin Guarded
       /\ pc' = [pc EXCEPT ![c] = "get"]
       /\ retry' = retry \cup {c}
       /\ UNCHANGED <<ver, goal, answer>>

\* create_or_claim, its cache.get and the match on what it returned.
ClaimGet(c) ==
    /\ pc[c] = "get"
    /\ LET e == store[KeyOf[c]] IN
       \/ /\ e.state = "Absent"
          /\ pc' = [pc EXCEPT ![c] = "init"]
          /\ UNCHANGED <<saw, ver, goal, retry, answer>>
       \/ /\ Reclaimable(e, lapsed)
          /\ pc' = [pc EXCEPT ![c] = "put"]
          /\ saw' = [saw EXCEPT ![c] = e]
          /\ UNCHANGED <<ver, goal, retry, answer>>
       \/ /\ e.state # "Absent" /\ ~Reclaimable(e, lapsed)
          /\ Proceed(c, e)
          /\ UNCHANGED saw
    /\ UNCHANGED <<store, lapsed, verdict, attemptVars, wireVars>>

\* create_or_claim, the insert of a reclaimed copy of what the get returned.
ClaimPut(c) ==
    /\ pc[c] = "put"
    /\ LET e == Reclaimed(saw[c], c) IN
       /\ store' = [store EXCEPT ![KeyOf[c]] = e]
       /\ Proceed(c, e)
    /\ saw' = [saw EXCEPT ![c] = Absent]
    /\ UNCHANGED <<lapsed, verdict, attemptVars, wireVars>>

\* create_or_claim, get_with: atomic, and every loser of the race is given
\* the winner's entry.
ClaimInit(c) ==
    /\ pc[c] = "init"
    /\ LET old == store[KeyOf[c]]
           e == IF old.state = "Absent" THEN FirstEntry(c) ELSE old IN
       /\ store' = [store EXCEPT ![KeyOf[c]] = e]
       /\ Proceed(c, e)
    /\ UNCHANGED <<lapsed, saw, verdict, attemptVars, wireVars>>

\* reconciler.reconcile.  OssReconciler always answers StillUnknown; another one
\* behind the port may not.  A definite answer is true when it is given; unless
\* it is "hasty", Failed is not said while an attempt on the key can still act.
Reconcile(c) ==
    /\ pc[c] = "reconcile"
    /\ \/ /\ "verdict" \in Faults
          /\ \E d \in Peers(c) : call[d] = "applied"
          /\ BeginMark(c, "Succeeded")
          /\ verdict' = [verdict EXCEPT ![c] = "succeeded"]
          /\ UNCHANGED answer
       \/ /\ "verdict" \in Faults
          /\ \A d \in Peers(c) :
                /\ call[d] # "applied"
                /\ \/ "hasty" \in Faults
                   \/ call[d] # "sent" /\ ~Attempting(d)
          /\ BeginMark(c, "Failed")
          /\ verdict' = [verdict EXCEPT ![c] = "failed"]
          /\ UNCHANGED answer
       \/ /\ Finish(c, "previousUnknown")
          /\ verdict' = [verdict EXCEPT ![c] = "stillUnknown"]
          /\ UNCHANGED goal
    /\ UNCHANGED <<store, lapsed, saw, ver, retry, attemptVars, wireVars>>

\* What the handler does once its mark_* call has returned.
AfterMark(c) ==
    \/ /\ goal[c] = "Running"
       /\ pc' = [pc EXCEPT ![c] = "spawn"]
       /\ UNCHANGED answer
    \/ goal[c] = "Succeeded" /\ Finish(c, "reconciled")
    \/ goal[c] = "Failed" /\ Finish(c, "reconcileFailed")
    \/ goal[c] = "Unknown" /\ Finish(c, "noOutcome")

\* mark_running, mark_succeeded, mark_failed, mark_unknown: the get.
MarkGet(c) ==
    /\ pc[c] = "markGet"
    /\ LET e == store[KeyOf[c]] IN
       \/ /\ Carries(e, ver[c])
          /\ pc' = [pc EXCEPT ![c] = "markPut"]
          /\ saw' = [saw EXCEPT ![c] = e]
          /\ UNCHANGED answer
       \/ /\ ~Carries(e, ver[c])
          /\ AfterMark(c)
          /\ UNCHANGED saw
    /\ UNCHANGED <<store, lapsed, ver, goal, retry, verdict,
                   attemptVars, wireVars>>

\* ... and the insert.
MarkPut(c) ==
    /\ pc[c] = "markPut"
    /\ store' = [store EXCEPT ![KeyOf[c]] = Stamped(saw[c], goal[c])]
    /\ saw' = [saw EXCEPT ![c] = Absent]
    /\ AfterMark(c)
    /\ UNCHANGED <<lapsed, ver, goal, retry, verdict, attemptVars, wireVars>>

\* tokio::spawn of the attempt.
Spawn(c) ==
    /\ pc[c] = "spawn"
    /\ pc' = [pc EXCEPT ![c] = "wait"]
    /\ tpc' = [tpc EXCEPT ![c] = "start"]
    /\ UNCHANGED <<store, lapsed, saw, ver, goal, retry, answer, verdict,
                   tsaw, tgoal, wireVars>>

\* The attempt ended within policy.timeout_seconds.
Join(c) ==
    /\ pc[c] = "wait" /\ tpc[c] = "done"
    /\ Finish(c, CASE reply[c] \in {"ok", "rpcError"} -> "ok"
                   [] reply[c] = "httpError" -> "failed"
                   [] OTHER -> "ambiguous")
    /\ UNCHANGED <<store, lapsed, saw, ver, goal, retry, verdict,
                   attemptVars, wireVars>>

\* Mutant of GiveUp: the JoinError of a dead attempt is not handled.
GiveUpOnElapsedOnly(c) ==
    /\ pc[c] = "wait" /\ tpc[c] \notin {"done", "dead"}
    /\ BeginMark(c, "Unknown")
    /\ UNCHANGED <<store, lapsed, saw, ver, retry, answer, verdict,
                   attemptVars, wireVars>>

\* The five seconds elapsed (the attempt is not cancelled: its JoinHandle is
\* dropped), or the attempt died: mark_unknown from the handler.
GiveUp(c) ==
    /\ pc[c] = "wait" /\ tpc[c] # "done"
    /\ BeginMark(c, "Unknown")
    /\ UNCHANGED <<store, lapsed, saw, ver, retry, answer, verdict,
                   attemptVars, wireVars>>

\* The client disconnects and hyper drops the handler future at an await.
Disconnect(c) ==
    /\ Handling(c)
    /\ IF tpc[c] = "none" THEN "drop" \in Faults ELSE "detach" \in Faults
    /\ pc' = [pc EXCEPT ![c] = "gone"]
    /\ saw' = [saw EXCEPT ![c] = Absent]
    /\ UNCHANGED <<store, lapsed, ver, goal, retry, answer, verdict,
                   attemptVars, wireVars>>

-------------------------------------------------------------------------------
(* The attempt *)

\* Mutants of Outcome: every unsuccessful result recorded as Failed; a lost
\* answer recorded as Reconciling, a state create_or_claim never leaves.
OutcomeWithoutUnknown(r) ==
    IF r \in {"ok", "rpcError"} THEN "Succeeded" ELSE "Failed"
OutcomeReconciling(r) ==
    CASE r \in {"ok", "rpcError"} -> "Succeeded"
      [] r = "httpError" -> "Failed"
      [] OTHER -> "Reconciling"

\* The state the attempt records for what the transport returned.
Outcome(r) ==
    CASE r \in {"ok", "rpcError"} -> "Succeeded"
      [] r = "httpError" -> "Failed"
      [] OTHER -> "Unknown"

Returned(c, r) ==
    /\ reply' = [reply EXCEPT ![c] = r]
    /\ tgoal' = [tgoal EXCEPT ![c] = Outcome(r)]
    /\ tpc' = [tpc EXCEPT ![c] = "markGet"]

\* The registry has no URL for the tool: nothing is sent, and the text
\* "not configured" is classified like a timeout.
Unrouted(c) ==
    /\ tpc[c] = "start"
    /\ Returned(c, "unrouted")
    /\ UNCHANGED <<store, lapsed, handlerVars, tsaw, call>>

Send(c) ==
    /\ tpc[c] = "start"
    /\ tpc' = [tpc EXCEPT ![c] = "sent"]
    /\ call' = [call EXCEPT ![c] = "sent"]
    /\ UNCHANGED <<store, lapsed, handlerVars, tsaw, tgoal, reply>>

\* 2xx once the server has acted; with "soft" also a 2xx that carries an error.
ReplyOk(c) ==
    /\ tpc[c] = "sent"
    /\ \/ call[c] = "applied" /\ Returned(c, "ok") /\ UNCHANGED call
       \/ /\ "soft" \in Faults /\ call[c] = "sent"
          /\ Returned(c, "rpcError")
          /\ call' = [call EXCEPT ![c] = "refused"]
    /\ UNCHANGED <<store, lapsed, handlerVars, tsaw>>

\* non-2xx
ReplyError(c) ==
    /\ tpc[c] = "sent"
    /\ \/ call[c] = "sent" /\ call' = [call EXCEPT ![c] = "refused"]
       \/ "liar" \in Faults /\ call[c] = "applied" /\ UNCHANGED call
    /\ Returned(c, "httpError")
    /\ UNCHANGED <<store, lapsed, handlerVars, tsaw>>

\* The 4.5 s request timeout, a connection error, or a non-2xx whose text
\* reads like a timeout.  The server may have acted, or may yet.
ReplyLost(c) ==
    /\ tpc[c] = "sent"
    /\ Returned(c, "lost")
    /\ UNCHANGED <<store, lapsed, handlerVars, tsaw, call>>

AttemptMarkGet(c) ==
    /\ tpc[c] = "markGet"
    /\ LET e == store[KeyOf[c]] IN
       \/ /\ Carries(e, ver[c])
          /\ tpc' = [tpc EXCEPT ![c] = "markPut"]
          /\ tsaw' = [tsaw EXCEPT ![c] = e]
       \/ /\ ~Carries(e, ver[c])
          /\ tpc' = [tpc EXCEPT ![c] = "done"]
          /\ UNCHANGED tsaw
    /\ UNCHANGED <<store, lapsed, handlerVars, tgoal, wireVars>>

AttemptMarkPut(c) ==
    /\ tpc[c] = "markPut"
    /\ store' = [store EXCEPT ![KeyOf[c]] = Stamped(tsaw[c], tgoal[c])]
    /\ tsaw' = [tsaw EXCEPT ![c] = Absent]
    /\ tpc' = [tpc EXCEPT ![c] = "done"]
    /\ UNCHANGED <<lapsed, handlerVars, tgoal, wireVars>>

Abort(c) ==
    /\ "abort" \in Faults /\ Attempting(c)
    /\ tpc' = [tpc EXCEPT ![c] = "dead"]
    /\ tsaw' = [tsaw EXCEPT ![c] = Absent]
    /\ UNCHANGED <<store, lapsed, handlerVars, tgoal, wireVars>>

-------------------------------------------------------------------------------
(* The environment *)

\* The MCP server performs the action, possibly long after the gateway has
\* given up on the answer.
Apply(c) ==
    /\ call[c] = "sent"
    /\ call' = [call EXCEPT ![c] = "applied"]
    /\ UNCHANGED <<store, lapsed, handlerVars, attemptVars, reply>>

\* The lease c wrote passes.  Without "lapse" it outlives c's claim and attempt
\* (10 s against timeouts of 5 s and 4.5 s).  It matters once it is on record.
LeaseExpires(c) ==
    /\ store[KeyOf[c]].holder = c /\ c \notin lapsed
    /\ "lapse" \in Faults \/ (~Handling(c) /\ ~Attempting(c))
    /\ lapsed' = lapsed \cup {c}
    /\ UNCHANGED <<store, handlerVars, attemptVars, wireVars>>

Evict(k) ==
    /\ "evict" \in Faults
    /\ store[k].state # "Absent"
    /\ store' = [store EXCEPT ![k] = Absent]
    /\ UNCHANGED <<lapsed, handlerVars, attemptVars, wireVars>>

-------------------------------------------------------------------------------
Handler(c) ==
    \/ ClaimGet(c) \/ ClaimPut(c) \/ ClaimInit(c) \/ Reconcile(c)
    \/ MarkGet(c) \/ MarkPut(c) \/ Spawn(c) \/ Join(c) \/ GiveUp(c)

Attempt(c) ==
    \/ Unrouted(c) \/ Send(c) \/ ReplyOk(c) \/ ReplyError(c) \/ ReplyLost(c)
    \/ AttemptMarkGet(c) \/ AttemptMarkPut(c)

Next ==
    \/ \E c \in Caller : \/ Arrive(c) \/ Handler(c) \/ Disconnect(c)
                         \/ Attempt(c) \/ Abort(c) \/ Apply(c) \/ LeaseExpires(c)
    \/ \E k \in Key : Evict(k)

Spec == Init /\ [][Next]_vars

(***************************************************************************)
(* Tokio runs what is ready, the policy timeout fires, the transport gives *)
(* up on a silent server, and time passes leases.  Nothing is assumed of   *)
(* the clients or of the server.                                           *)
(***************************************************************************)
Fairness ==
    \A c \in Caller : /\ WF_vars(Handler(c))
                      /\ WF_vars(Attempt(c))
                      /\ WF_vars(LeaseExpires(c))

FairSpec == Spec /\ Fairness

-------------------------------------------------------------------------------
(* Properties *)

\* The keys on which the server, or the reconciler, has said that a call
\* succeeded; and those on which it has said that one failed.
Confirmed ==
    {KeyOf[c] : c \in {d \in Caller : \/ reply[d] \in {"ok", "rpcError"}
                                     \/ verdict[d] = "succeeded"}}
Rejected ==
    {KeyOf[c] : c \in {d \in Caller : \/ reply[d] = "httpError"
                                     \/ verdict[d] = "failed"}}

\* A success is never made up: a key is Succeeded, holds a result to replay or
\* has been answered with a success only after the server confirmed a call on
\* it or the reconciler did, however stale the entry that was written back.
SuccessIsConfirmed ==
    /\ \A k \in Key : /\ store[k].content => k \in Confirmed
                      /\ store[k].state = "Succeeded" => store[k].content
    /\ \A c \in Caller : answer[c] \in {"replayed", "reconciled", "ok"}
                            => KeyOf[c] \in Confirmed

\* README "Failed vs. Unknown": a timeout never turns into Failed, which the
\* next claim would retry.  Failed needs an answer that says so.
FailureIsConfirmed ==
    \A k \in Key : store[k].state = "Failed" => k \in Rejected

Applied(k) == {c \in Caller : KeyOf[c] = k /\ call[c] = "applied"}

\* The purpose of the layer: a mutating call under an explicit idempotency key
\* takes effect at most once, whatever is retried.
AtMostOnce ==
    \A k \in Guarded : \A c, d \in Applied(k) : c = d

\* Attempts on one key carry different versions, which is what lets the fence
\* tell the completion of one from that of another.
VersionsAreExclusive ==
    \A c, d \in Caller :
        /\ KeyOf[c] = KeyOf[d]
        /\ tpc[c] # "none" /\ tpc[d] # "none"
        /\ ver[c] = ver[d]
        => c = d

\* README "Stale Completion Fencing": the version of an entry never goes back.
VersionsNeverRegress ==
    [][\A k \in Key : store'[k].state # "Absent"
                        => store'[k].version >= store[k].version]_store

\* Nobody is at work on key k and its entry says Unknown.
SettledUnknown(k) ==
    /\ store[k].state = "Unknown"
    /\ \A c \in Caller : KeyOf[c] = k => ~Handling(c) /\ ~Attempting(c)

\* The unsafe-retry guard: once a guarded key has settled in Unknown, no later
\* call reaches the server before the reconciler has said Failed.
UnknownBlocksRetry ==
    \A c \in Caller :
        []( KeyOf[c] \in Guarded /\ SettledUnknown(KeyOf[c]) /\ pc[c] = "idle"
            => [](\/ call[c] = "unsent"
                  \/ \E d \in Peers(c) : verdict[d] = "failed"))

\* Every call that arrives is answered, unless its client leaves first.
EveryCallAnswered ==
    \A c \in Caller : Handling(c) ~> ~Handling(c)

\* No key is wedged: an entry somebody claimed reaches an outcome, is forgotten
\* or can be reclaimed, also when the call that claimed it is gone.
NoKeyIsWedged ==
    \A k \in Key :
        store[k].state \in {"Claimed", "Running"}
            ~> \/ store[k].state \notin {"Claimed", "Running"}
               \/ Reclaimable(store[k], lapsed)

\* The calls on key k that may still act.
Open(k) ==
    {c \in Caller : KeyOf[c] = k /\ (tpc[c] = "start" \/ call[c] = "sent")}

Promise == INSTANCE SingleEffect
               WITH Operation <- Guarded, Worker <- Caller,
                    open <- [k \in Guarded |-> Open(k)],
                    acted <- [k \in Guarded |-> Applied(k)]

\* The service keeps the promise of SingleEffect for every guarded key.
KeepsPromise == Promise!Spec

-----------------------------------------------------------------------------
\* What the documentation says.  TLC refutes these; section 5 of the README
\* names the smallest instances.

\* README "Execution States": a result recorded as Succeeded stays there to
\* answer duplicates, as long as the cache holds the entry.
SuccessSticks ==
    [][\A k \in Key : store[k].state = "Succeeded"
                        => store'[k].state \in {"Succeeded", "Absent"}]_store

\* README "Execution States": Succeeded means that the side effect happened.
SucceededMeansApplied ==
    \A k \in Key : store[k].state = "Succeeded" => Applied(k) # {}

\* README "Failed vs. Unknown": Failed means that it did not.
FailedMeansNotApplied ==
    \A k \in Key : store[k].state = "Failed" => Applied(k) = {}
====
