---- MODULE AgentGuardian ----
(***************************************************************************)
(* The agent guardian, usecases/behavior_guard.rs: before a request is     *)
(* proxied, the tool calls in its body are charged to two kinds of counter *)
(* in one moka cache, one for all calls of the session (the storm counter) *)
(* and one for each call signature (the loop counters).                    *)
(*                                                                         *)
(* A counter is read with get and written back with insert, and both are   *)
(* awaited: requests of one session interleave between them.  moka forgets *)
(* an entry TTL after its last insert; time is the variable now.           *)
(***************************************************************************)
EXTENDS Naturals, Sequences, FiniteSets

CONSTANTS
    Request,        \* the requests that arrive
    Session,        \* values of x-session-id; the counters know no tenant
    Signature,      \* tool name and semantic hash of the arguments
    Unreadable,     \* a tool call in none of the known formats
    Storm,          \* what the storm key has in place of a signature
    SessionOf,      \* the session of each request
    CallsOf,        \* the tool calls found in each body, in order
    MaxSession,     \* MAX_SESSION_TOOL_CALLS
    MaxIdentical,   \* MAX_IDENTICAL_TOOL_CALLS
    TTL,            \* time_to_live of agent_guardian_cache
    Horizon,        \* bound on now
    Parallel,       \* whether a session has requests in flight together
    Drops,          \* whether clients disconnect
    Evicts          \* whether the cache reaches its 10 MB bound

ASSUME GuardianAssumption ==
    /\ SessionOf \in [Request -> Session]
    /\ CallsOf \in [Request -> Seq(Signature \cup {Unreadable})]
    /\ Unreadable \notin Signature /\ Storm \notin Signature
    /\ MaxSession \in Nat /\ MaxIdentical \in Nat
    /\ TTL \in Nat \ {0} /\ Horizon \in Nat
    /\ Parallel \in BOOLEAN /\ Drops \in BOOLEAN /\ Evicts \in BOOLEAN

(* The keys hash "session || _STORM" and "session || tool || hash".        *)
Key == Session \X (Signature \cup {Storm})

VARIABLES
    now,
    count,          \* agent_guardian_cache: the number under each key ...
    wrote,          \* ... and when it was last inserted
    pc,             \* where each request is
    i,              \* the tool call it is at
    new,            \* the number it is about to insert
    letBy           \* history: the calls that passed a check, as records
                    \* of the key, the request, its call and the time

vars == <<now, count, wrote, pc, i, new, letBy>>

StormKey(r) == <<SessionOf[r], Storm>>
LoopKey(r) == <<SessionOf[r], CallsOf[r][i[r]]>>

(* get(key).await.unwrap_or(0) *)
Live(k) == now - wrote[k] < TTL
Get(k) == IF Live(k) THEN count[k] ELSE 0

Verdict == {"passed", "storm", "loop", "dropped"}
InFlight(r) == pc[r] \notin Verdict \cup {"new"}

Init ==
    /\ now = TTL                            \* so that wrote = 0 is long ago
    /\ count = [k \in Key |-> 0]
    /\ wrote = [k \in Key |-> 0]
    /\ pc = [r \in Request |-> "new"]
    /\ i = [r \in Request |-> 1]
    /\ new = [r \in Request |-> 0]
    /\ letBy = {}

-----------------------------------------------------------------------------
(* A body without tool calls is not charged. *)
Ignore(r) ==
    /\ pc[r] = "new"
    /\ CallsOf[r] = << >>
    /\ pc' = [pc EXCEPT ![r] = "passed"]
    /\ UNCHANGED <<now, count, wrote, i, new, letBy>>

OneTooMany(n, max) == n > max + 1                  \* mutant of TooMany

TooMany(n, max) == n > max

(* All calls of the body are added at once; a refused body is not charged. *)
StormGet(r) ==
    LET n == Get(StormKey(r)) + Len(CallsOf[r]) IN
    /\ pc[r] = "new"
    /\ CallsOf[r] # << >>
    /\ Parallel \/ \A q \in Request : SessionOf[q] = SessionOf[r] => ~InFlight(q)
    /\ IF TooMany(n, MaxSession)
         THEN /\ pc' = [pc EXCEPT ![r] = "storm"]
              /\ UNCHANGED new
         ELSE /\ pc' = [pc EXCEPT ![r] = "stormPut"]
              /\ new' = [new EXCEPT ![r] = n]
    /\ UNCHANGED <<now, count, wrote, i, letBy>>

Insert(k, n) ==
    /\ count' = [count EXCEPT ![k] = n]
    /\ wrote' = [wrote EXCEPT ![k] = now]

StormPut(r) ==
    /\ pc[r] = "stormPut"
    /\ Insert(StormKey(r), new[r])
    /\ pc' = [pc EXCEPT ![r] = "calls"]
    /\ letBy' = letBy \cup
           {[key |-> StormKey(r), req |-> r, call |-> c, time |-> now] : c \in 1..Len(CallsOf[r])}
    /\ UNCHANGED <<now, i, new>>

(* The calls of the body one after the other; those charged before a       *)
(* refusal stay charged.                                                   *)
LoopGetRenewing(r) ==                              \* mutant of LoopGet
    LET n == Get(LoopKey(r)) + 1 IN
    /\ pc[r] = "calls"
    /\ i[r] <= Len(CallsOf[r])
    /\ CallsOf[r][i[r]] # Unreadable
    /\ IF TooMany(n, MaxIdentical)
         THEN /\ pc' = [pc EXCEPT ![r] = "loop"]
              /\ Insert(LoopKey(r), n)
              /\ UNCHANGED new
         ELSE /\ pc' = [pc EXCEPT ![r] = "loopPut"]
              /\ new' = [new EXCEPT ![r] = n]
              /\ UNCHANGED <<count, wrote>>
    /\ UNCHANGED <<now, i, letBy>>

LoopGet(r) ==
    LET n == Get(LoopKey(r)) + 1 IN
    /\ pc[r] = "calls"
    /\ i[r] <= Len(CallsOf[r])
    /\ CallsOf[r][i[r]] # Unreadable
    /\ IF TooMany(n, MaxIdentical)
         THEN /\ pc' = [pc EXCEPT ![r] = "loop"]
              /\ UNCHANGED new
         ELSE /\ pc' = [pc EXCEPT ![r] = "loopPut"]
              /\ new' = [new EXCEPT ![r] = n]
    /\ UNCHANGED <<now, count, wrote, i, letBy>>

LoopPut(r) ==
    /\ pc[r] = "loopPut"
    /\ Insert(LoopKey(r), new[r])
    /\ pc' = [pc EXCEPT ![r] = "calls"]
    /\ i' = [i EXCEPT ![r] = @ + 1]
    /\ letBy' = letBy \cup {[key |-> LoopKey(r), req |-> r, call |-> i[r], time |-> now]}
    /\ UNCHANGED <<now, new>>

(* from_borrowed_value returns None: the call is not charged to a loop.    *)
Skip(r) ==
    /\ pc[r] = "calls"
    /\ i[r] <= Len(CallsOf[r])
    /\ CallsOf[r][i[r]] = Unreadable
    /\ i' = [i EXCEPT ![r] = @ + 1]
    /\ UNCHANGED <<now, count, wrote, pc, new, letBy>>

Pass(r) ==
    /\ pc[r] = "calls"
    /\ i[r] > Len(CallsOf[r])
    /\ pc' = [pc EXCEPT ![r] = "passed"]
    /\ UNCHANGED <<now, count, wrote, i, new, letBy>>

(* The client disconnects and its handler is dropped where it awaits.      *)
Drop(r) ==
    /\ Drops
    /\ InFlight(r)
    /\ pc' = [pc EXCEPT ![r] = "dropped"]
    /\ UNCHANGED <<now, count, wrote, i, new, letBy>>

(* At its bound moka drops entries, or does not admit them. *)
Evict(k) ==
    /\ Evicts
    /\ Live(k)
    /\ count' = [count EXCEPT ![k] = 0]
    /\ wrote' = [wrote EXCEPT ![k] = 0]
    /\ UNCHANGED <<now, pc, i, new, letBy>>

Advance ==
    /\ now < TTL + Horizon
    /\ now' = now + 1
    /\ UNCHANGED <<count, wrote, pc, i, new, letBy>>

Guard(r) ==
    \/ Ignore(r) \/ StormGet(r) \/ StormPut(r)
    \/ LoopGet(r) \/ LoopPut(r) \/ Skip(r) \/ Pass(r)

Next ==
    \/ \E r \in Request : Guard(r) \/ Drop(r)
    \/ \E k \in Key : Evict(k)
    \/ Advance

Spec == Init /\ [][Next]_vars

-----------------------------------------------------------------------------
Limit(k) == IF k[2] = Storm THEN MaxSession ELSE MaxIdentical

TypeOK ==
    /\ now \in TTL..(TTL + Horizon)
    /\ count \in [Key -> Nat] /\ \A k \in Key : count[k] <= Limit(k)
    /\ wrote \in [Key -> 0..now]
    /\ pc \in [Request -> Verdict \cup {"new", "stormPut", "calls", "loopPut"}]
    /\ i \in [Request -> Nat \ {0}]
    /\ new \in [Request -> Nat]
    /\ letBy \subseteq [key : Key, req : Request, call : Nat \ {0}, time : 0..now]

(* The calls let by under a key within the last TTL. *)
Recent(k) == {e \in letBy : e.key = k /\ now - e.time < TTL}

(* A runaway loop is stopped: in any TTL no more than MaxIdentical calls   *)
(* with one signature get by, wherever entries expire in between and       *)
(* however the calls are spread over requests.                             *)
LoopIsStopped == \A k \in Key : k[2] # Storm => Cardinality(Recent(k)) <= MaxIdentical

(* A tool storm is stopped: in any TTL a session gets no more than         *)
(* MaxSession calls by, those of requests refused as loops included.       *)
StormIsStopped == \A s \in Session : Cardinality(Recent(<<s, Storm>>)) <= MaxSession

(* A ban ends: a request is refused as a loop only when one of its calls   *)
(* got by less than TTL ago.  An agent that keeps trying while it is       *)
(* refused does not prolong its ban.                                       *)
Refuses(r) == pc[r] # "loop" /\ pc'[r] = "loop"
BansEnd == [][\A r \in Request : (Refuses(r) /\ MaxIdentical > 0) => Recent(LoopKey(r)) # {}]_vars

-----------------------------------------------------------------------------
(* What the documentation says.  TLC refutes these; section 5 of the       *)
(* README names the smallest instances.                                    *)

(* A loop is what the documentation says: more than MaxIdentical identical *)
(* calls within a sliding window of TTL.  Every insert renews the entry,   *)
(* so calls much older than that still count.                              *)
SlidingWindow == [][\A r \in Request :
    Refuses(r) => Cardinality(Recent(LoopKey(r))) >= MaxIdentical]_vars

(* A request is refused as a loop only when the conversation it carries    *)
(* repeats a call.  Agents send the conversation again with every turn,    *)
(* and each time all its tool calls are charged.                           *)
Repeats(r, sig) == Cardinality({c \in DOMAIN CallsOf[r] : CallsOf[r][c] = sig})
LoopMeansRepetition == \A r \in Request :
    pc[r] = "loop" => \E sig \in Signature : Repeats(r, sig) > MaxIdentical
====
