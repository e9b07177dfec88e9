---- MODULE Gateway ----
(***************************************************************************)
(* The way of a completion request through the gateway: the handler        *)
(* chat_completions, execute_proxy with its cache lookup and redaction,    *)
(* the tool sandbox, the fan-out of tool calls, and the tasks that live    *)
(* on after the answer: the one that collects a stream and the one that    *)
(* logs, bills and fills the cache.                                        *)
(*                                                                         *)
(* Routing, the counters of the guard and the execution of one tool call   *)
(* are modules of their own; here they are a free choice.  A step is what  *)
(* runs between two awaits.  The semantic cache and its embeddings are     *)
(* switched off in the open-source build, which leaves the exact cache.    *)
(***************************************************************************)
EXTENDS Naturals, Sequences, FiniteSets

CONSTANTS
    Request,
    Nobody,         \* no request
    Tenant,
    Body,
    AsksOf,         \* what each may ask: tenant, body, names a test scenario
    Sensitive,      \* bodies whose user text pii_regex matches
    Redactions,     \* pairs: a sensitive body, what redaction may make of it
    Prompt,         \* what extract_response_content makes of a redacted body
    Streaming,      \* bodies that ask for a stream
    Tool,           \* the tools an answer may call
    Registered,     \* those with an endpoint in the MCP registry
    Phantom,        \* a call of get_tool_details that the registry can serve
    Format,         \* wire formats of the providers: openai, anthropic, gemini
    Answers,        \* what upstream may answer to each
    Window,         \* simultaneous calls of a fan-out: 10
    Channel,        \* places between the pump and the collector: 1024
    Fallbacks,      \* targets left for a stream that breaks
    Stream,         \* the events streamed to a request, by fallbacks left
    Buffer,         \* bound on the text collected: 256 KiB
    FailOpen        \* SANDBOX_FALLBACK_MODE

Ask == [tenant : Tenant, body : Body, scenario : BOOLEAN]

(* Where a body has its calls: in the message of its first choice, at its  *)
(* top level beside such a message, elsewhere in an object without one (in *)
(* a delta, at the top level, by itself), or it is an array of calls.      *)
Place == {"message", "beside", "elsewhere", "array"}

(* Has the body "tool_calls" in it?  Prose may, and an array may not.      *)
Reply == [calls : Seq(Tool), place : Place, word : BOOLEAN]

(* An event to a chunk: text of so many bytes, one that has none in either *)
(* of two shapes, one the event parser fails on, [DONE].                   *)
Event == [kind : {"text", "other", "bad", "done"}, size : Nat]

(* Redaction is taken to do its work: what comes out does not match, nor   *)
(* does what is extracted from it.                                         *)
ASSUME GatewayAssumption ==
    /\ Nobody \notin Request
    /\ AsksOf \in [Request -> SUBSET Ask]
    /\ Redactions \subseteq Sensitive \X (Body \ Sensitive)
    /\ Streaming \subseteq Body
    /\ Prompt \in [Body -> Body]
    /\ \A b \in Body \ Sensitive : Prompt[b] \notin Sensitive
    /\ Answers \in [Request -> SUBSET Reply]
    /\ Fallbacks \in Nat /\ Channel \in Nat /\ Buffer \in Nat
    /\ Stream \in [Request -> [0..Fallbacks -> Seq(Event)]]
    /\ FailOpen \in BOOLEAN

VARIABLES
    cache,          \* exact_cache: whose answer each key holds
    pc,             \* where each request is
    ask,            \* what each request asks; fixed
    sent,           \* its body; from the redaction on, the redacted one
    outbound,       \* history: pairs of a request and what it sent upstream
    logged,         \* history: unredacted prompts handed to the telemetry
    replay,         \* the request whose answer it was given from the cache
    status,         \* what counts as its status: ok is 200, bad any other
    format,         \* the format of the provider that answered
    calls,          \* tool calls in the body at hand, in OpenAI's shape
    place,          \* where they are
    word,           \* the body has "tool_calls" in it, with calls or without
    said,           \* what the message is: answer, denial or schema
    passed,         \* history: the calls the policy let pass
    todo,           \* the next call of the fan-out to start
    flying,         \* calls in flight
    results,        \* pairs of a call and whether its result is known, as they came in
    at,             \* chunks of the stream at hand that were sent on
    deaf,           \* the client has stopped reading; the pump's send waits
    rest,           \* fallbacks left
    queue,          \* chunks between pump and collector
    text,           \* chunks whose text was collected
    held,           \* their bytes
    lost,           \* history: a chunk found the channel full
    task            \* the telemetry task

messageVars == <<format, calls, place, word, said, passed>>
handlerVars == <<ask, sent, outbound, replay, status, messageVars>>
toolVars == <<todo, flying, results>>
streamVars == <<at, deaf, rest, queue, text, held, lost>>
taskVars == <<cache, logged, task>>
vars == <<pc, handlerVars, toolVars, streamVars, taskVars>>

Handling == {"arrived", "redacting", "lookup", "missed", "waiting", "reading",
             "sandbox", "fanout"}
Pumping == {"streaming", "broken"}
Over == {"refused", "answered", "aborted", "gone"}

Init ==
    /\ cache = [k \in Tenant \X Body |-> Nobody]
    /\ pc = [r \in Request |-> "arrived"]
    /\ ask \in [Request -> UNION {AsksOf[r] : r \in Request}]
    /\ \A r \in Request : ask[r] \in AsksOf[r]
    /\ sent = [r \in Request |-> ask[r].body]
    /\ outbound = {}
    /\ logged = {}
    /\ replay = [r \in Request |-> Nobody]
    /\ status = [r \in Request |-> "none"]
    /\ format = [r \in Request |-> "none"]
    /\ calls = [r \in Request |-> << >>]
    /\ place = [r \in Request |-> "message"]
    /\ word = [r \in Request |-> FALSE]
    /\ said = [r \in Request |-> "nothing"]
    /\ passed = [r \in Request |-> {}]
    /\ todo = [r \in Request |-> 1]
    /\ flying = [r \in Request |-> {}]
    /\ results = [r \in Request |-> << >>]
    /\ at = [r \in Request |-> 0]
    /\ deaf = [r \in Request |-> FALSE]
    /\ rest = [r \in Request |-> Fallbacks]
    /\ queue = [r \in Request |-> << >>]
    /\ text = [r \in Request |-> << >>]
    /\ held = [r \in Request |-> 0]
    /\ lost = [r \in Request |-> FALSE]
    /\ task = [r \in Request |-> "none"]

Goes(r, from, to) == pc[r] = from /\ pc' = [pc EXCEPT ![r] = to]

Logs(b) == logged' = logged \cup ({b} \cap Sensitive)

-----------------------------------------------------------------------------
(* Before the upstream. *)

(* The agent guardian, or a body that is no JSON. *)
TurnAway(r) ==
    /\ Goes(r, "arrived", "refused")
    /\ UNCHANGED <<handlerVars, toolVars, streamVars, taskVars>>

Inspect(r) ==
    /\ Goes(r, "arrived", IF ask[r].body \in Sensitive THEN "redacting" ELSE "lookup")
    /\ UNCHANGED <<handlerVars, toolVars, streamVars, taskVars>>

RedactKeeping(r, b) ==                             \* mutant of Redact
    /\ Goes(r, "redacting", "lookup")
    /\ <<ask[r].body, b>> \in Redactions
    /\ UNCHANGED <<handlerVars, toolVars, streamVars, taskVars>>

(* call_compliance_redact: the service's payload, or the one made here     *)
(* when the service does not answer.                                       *)
Redact(r, b) ==
    /\ Goes(r, "redacting", "lookup")
    /\ <<ask[r].body, b>> \in Redactions
    /\ sent' = [sent EXCEPT ![r] = b]
    /\ UNCHANGED <<ask, outbound, replay, status, messageVars,
                   toolVars, streamVars, taskVars>>

(* A 2xx answer of the service that cannot be parsed. *)
RedactFails(r) ==
    /\ Goes(r, "redacting", "refused")
    /\ UNCHANGED <<handlerVars, toolVars, streamVars, taskVars>>

KeyOfBody(r, b) == <<CHOOSE t \in Tenant : TRUE, b>>   \* mutant of KeyOf

KeyOf(r, b) == <<ask[r].tenant, b>>

(* The lookup goes by the body as it came. *)
Found(r) == cache[KeyOf(r, ask[r].body)]

Hit(r) ==
    /\ Goes(r, "lookup", "answered")
    /\ ~ask[r].scenario
    /\ Found(r) # Nobody
    /\ replay' = [replay EXCEPT ![r] = Found(r)]
    /\ status' = [status EXCEPT ![r] = "ok"]
    /\ task' = [task EXCEPT ![r] = "due"]
    /\ UNCHANGED <<ask, sent, outbound, messageVars,
                   toolVars, streamVars, cache, logged>>

Miss(r) ==
    /\ Goes(r, "lookup", "missed")
    /\ ask[r].scenario \/ Found(r) = Nobody
    /\ UNCHANGED <<handlerVars, toolVars, streamVars, taskVars>>

(* No target or none that a request can be built for.  The checks of loops *)
(* and of the burn rate before it refuse nothing in this build.            *)
Refuse(r) ==
    /\ Goes(r, "missed", "refused")
    /\ UNCHANGED <<handlerVars, toolVars, streamVars, taskVars>>

Dispatch(r) ==
    /\ Goes(r, "missed", "waiting")
    /\ outbound' = outbound \cup {<<r, sent[r]>>}
    /\ UNCHANGED <<ask, sent, replay, status, messageVars,
                   toolVars, streamVars, taskVars>>

(* Every target failed. *)
UpstreamFails(r) ==
    /\ Goes(r, "waiting", "refused")
    /\ UNCHANGED <<handlerVars, toolVars, streamVars, taskVars>>

BeginBody(r, s) ==
    /\ sent[r] \notin Streaming
    /\ Goes(r, "waiting", "reading")
    /\ status' = [status EXCEPT ![r] = s]
    /\ UNCHANGED <<ask, sent, outbound, replay, messageVars,
                   toolVars, streamVars, taskVars>>

-----------------------------------------------------------------------------
(* handle_buffered_response. *)

ReadFails(r) ==
    /\ Goes(r, "reading", "refused")
    /\ UNCHANGED <<handlerVars, toolVars, streamVars, taskVars>>

(* unify_response: OpenAI's adapter leaves the body as it is; the others   *)
(* build one with a message, and Gemini's leaves the calls behind.         *)
Unified(f, a) == IF f = "gemini" THEN << >> ELSE a.calls

PlaceIn(f, a) == IF f = "openai" THEN a.place ELSE "message"

Read(r, f, a) ==
    /\ Goes(r, "reading", "sandbox")
    /\ format' = [format EXCEPT ![r] = f]
    /\ calls' = [calls EXCEPT ![r] = Unified(f, a)]
    /\ place' = [place EXCEPT ![r] = PlaceIn(f, a)]
    /\ word' = [word EXCEPT ![r] = a.word]
    /\ said' = [said EXCEPT ![r] = "answer"]
    /\ UNCHANGED <<ask, sent, outbound, replay, status, passed,
                   toolVars, streamVars, taskVars>>

(* enforce_mcp_sandbox asks about every call at once and takes the answers *)
(* in order.  Silence is a status that is no 2xx, a connection that fails  *)
(* and a body without a verdict.                                           *)
Verdict == {"allow", "deny", "silence", "timeout"}

Asked(r) == word[r]

(* It looks for calls in the message alone, and asks about unknown_tool    *)
(* when it finds none.                                                     *)
Questions(r) ==
    IF calls[r] = << >> \/ place[r] # "message" THEN {1} ELSE 1..Len(calls[r])

Stops(v) ==
    {i \in DOMAIN v : v[i] = "deny" \/ (~FailOpen /\ v[i] \in {"silence", "timeout"})}

StopsAtFirst(v) ==                                 \* mutant of FirstStop
    IF 1 \in Stops(v) THEN v[1] ELSE "none"

(* The verdict that decides: later ones are not looked at. *)
FirstStop(v) ==
    IF Stops(v) = {} THEN "none"
    ELSE v[CHOOSE i \in Stops(v) : \A j \in Stops(v) : i <= j]

Ignored(r) ==
    /\ Goes(r, "sandbox", "fanout")
    /\ ~Asked(r)
    /\ UNCHANGED <<handlerVars, toolVars, streamVars, taskVars>>

Hears(r, v) ==
    /\ pc[r] = "sandbox"
    /\ Asked(r)
    /\ v \in [Questions(r) -> Verdict]
    /\ passed' = [passed EXCEPT ![r] = {i \in DOMAIN v : \A j \in 1..i : j \notin Stops(v)}]
    /\ UNCHANGED <<ask, sent, outbound, replay, status, format,
                   toolVars, streamVars, taskVars>>

(* intercept_phantom_call looks at the first call; the answer it makes     *)
(* has none of the others.                                                 *)
Intercepted(r) ==
    place[r] = "message" /\ calls[r] # << >> /\ calls[r][1] \in Phantom

HasMessage(r) == place[r] \in {"message", "beside"}

(* Also a denial of a body that has no message to replace. *)
Allow(r, v) ==
    /\ Hears(r, v)
    /\ FirstStop(v) = "none" \/ (FirstStop(v) # "timeout" /\ ~HasMessage(r))
    /\ ~Intercepted(r)
    /\ pc' = [pc EXCEPT ![r] = "fanout"]
    /\ UNCHANGED <<calls, place, word, said>>

Intercept(r, v) ==
    /\ Hears(r, v)
    /\ FirstStop(v) = "none"
    /\ Intercepted(r)
    /\ pc' = [pc EXCEPT ![r] = "fanout"]
    /\ calls' = [calls EXCEPT ![r] = << >>]
    /\ word' = [word EXCEPT ![r] = FALSE]
    /\ said' = [said EXCEPT ![r] = "schema"]
    /\ UNCHANGED place

(* The message goes, with the calls it had; calls beside it stay. *)
Deny(r, v) ==
    /\ Hears(r, v)
    /\ FirstStop(v) \in {"deny", "silence"}
    /\ HasMessage(r)
    /\ pc' = [pc EXCEPT ![r] = "fanout"]
    /\ said' = [said EXCEPT ![r] = "denial"]
    /\ IF place[r] = "message"
         THEN /\ calls' = [calls EXCEPT ![r] = << >>]
              /\ word' = [word EXCEPT ![r] = FALSE]
         ELSE UNCHANGED <<calls, word>>
    /\ UNCHANGED place

NoVerdict(r, v) ==
    /\ Hears(r, v)
    /\ FirstStop(v) = "timeout"
    /\ pc' = [pc EXCEPT ![r] = "refused"]
    /\ UNCHANGED <<calls, place, word, said>>

(* extract_tool_calls runs the adapter of the provider over the unified    *)
(* body, and only OpenAI's finds calls in it, in whichever place they are. *)
Extracted(r) ==
    IF format[r] = "openai" /\ word[r] /\ Registered # {} THEN calls[r] ELSE << >>

(* What the ExecutionService was given. *)
Executed(r) == 1..(todo[r] - 1)

Launch(r) ==
    /\ pc[r] = "fanout"
    /\ todo[r] <= Len(Extracted(r))
    /\ Cardinality(flying[r]) < Window
    /\ flying' = [flying EXCEPT ![r] = @ \cup {todo[r]}]
    /\ todo' = [todo EXCEPT ![r] = @ + 1]
    /\ UNCHANGED <<pc, handlerVars, results, streamVars, taskVars>>

(* Results come in as the calls end, in any order.  What the execution     *)
(* service makes of a call is its module's matter; here a result is known, *)
(* or says PREVIOUS_ATTEMPT_UNKNOWN.                                       *)
Land(r, i, known) ==
    /\ pc[r] = "fanout"
    /\ i \in flying[r]
    /\ flying' = [flying EXCEPT ![r] = @ \ {i}]
    /\ results' = [results EXCEPT ![r] = Append(@, <<i, known>>)]
    /\ UNCHANGED <<pc, handlerVars, todo, streamVars, taskVars>>

AttachEarly(r) ==                                  \* mutant of Attach
    /\ Goes(r, "fanout", "answered")
    /\ todo[r] > Len(Extracted(r))
    /\ task' = [task EXCEPT ![r] = "due"]
    /\ UNCHANGED <<handlerVars, toolVars, streamVars, cache, logged>>

(* Results whose content is PREVIOUS_ATTEMPT_UNKNOWN are left out. *)
Attached(r) ==
    {results[r][i][1] : i \in {j \in DOMAIN results[r] : results[r][j][2]}}

Attach(r) ==
    /\ Goes(r, "fanout", "answered")
    /\ todo[r] > Len(Extracted(r))
    /\ flying[r] = {}
    /\ Attached(r) = {} \/ place[r] # "array"
    /\ task' = [task EXCEPT ![r] = "due"]
    /\ UNCHANGED <<handlerVars, toolVars, streamVars, cache, logged>>

(* attach_tool_results needs an object.  The tools have run. *)
AttachFails(r) ==
    /\ Goes(r, "fanout", "refused")
    /\ todo[r] > Len(Extracted(r))
    /\ flying[r] = {}
    /\ Attached(r) # {} /\ place[r] = "array"
    /\ UNCHANGED <<handlerVars, toolVars, streamVars, taskVars>>

(* The client leaves and the handler is dropped at its await, with the     *)
(* calls in flight; what they set going goes on.                           *)
Drop(r) ==
    /\ pc[r] \in Handling
    /\ pc' = [pc EXCEPT ![r] = "gone"]
    /\ flying' = [flying EXCEPT ![r] = {}]
    /\ UNCHANGED <<handlerVars, todo, results, streamVars, taskVars>>

-----------------------------------------------------------------------------
(* handle_streaming_response: the pump and the collector. *)

BeginStream(r, s) ==
    /\ sent[r] \in Streaming
    /\ Goes(r, "waiting", "streaming")
    /\ status' = [status EXCEPT ![r] = s]
    /\ task' = [task EXCEPT ![r] = "collecting"]
    /\ UNCHANGED <<ask, sent, outbound, replay, messageVars,
                   toolVars, streamVars, cache, logged>>

Events(r) == Stream[r][rest[r]]

(* try_send: a full channel, or a collector that has stopped, costs the    *)
(* chunk; the client is sent it all the same.                              *)
Relay(r) ==
    LET full == Len(queue[r]) >= Channel IN
    /\ pc[r] = "streaming" /\ ~deaf[r]
    /\ at[r] < Len(Events(r))
    /\ at' = [at EXCEPT ![r] = @ + 1]
    /\ IF task[r] = "collecting" /\ ~full
         THEN queue' = [queue EXCEPT ![r] = Append(@, <<rest[r], at[r] + 1>>)]
         ELSE UNCHANGED queue
    /\ lost' = [lost EXCEPT ![r] = @ \/ (task[r] = "collecting" /\ full)]
    /\ UNCHANGED <<pc, handlerVars, toolVars, deaf, rest, text, held, taskVars>>

Complete(r) ==
    /\ at[r] = Len(Events(r)) /\ ~deaf[r]
    /\ Goes(r, "streaming", "answered")
    /\ UNCHANGED <<handlerVars, toolVars, streamVars, taskVars>>

Break(r) ==
    /\ ~deaf[r]
    /\ Goes(r, "streaming", "broken")
    /\ UNCHANGED <<handlerVars, toolVars, streamVars, taskVars>>

StitchKeeping(r) ==                                \* mutant of Stitch
    /\ rest[r] > 0
    /\ Goes(r, "broken", "streaming")
    /\ at' = [at EXCEPT ![r] = 0]
    /\ outbound' = outbound \cup {<<r, sent[r]>>}
    /\ status' = [status EXCEPT ![r] = "swapped"]
    /\ UNCHANGED <<ask, sent, replay, messageVars,
                   toolVars, deaf, rest, queue, text, held, lost, taskVars>>

(* The fallback's stream starts from the beginning.  From here on the      *)
(* answer counts as hot-swapped.                                           *)
Stitch(r) ==
    /\ rest[r] > 0
    /\ Goes(r, "broken", "streaming")
    /\ rest' = [rest EXCEPT ![r] = @ - 1]
    /\ at' = [at EXCEPT ![r] = 0]
    /\ outbound' = outbound \cup {<<r, sent[r]>>}
    /\ status' = [status EXCEPT ![r] = IF task[r] = "collecting" THEN "swapped" ELSE @]
    /\ UNCHANGED <<ask, sent, replay, messageVars,
                   toolVars, deaf, queue, text, held, lost, taskVars>>

StitchFailsBelow(r) ==                             \* mutant of StitchFails
    /\ pc[r] = "broken"
    /\ rest' = [rest EXCEPT ![r] = @ - 1]
    /\ outbound' = outbound \cup {<<r, sent[r]>>}
    /\ UNCHANGED <<pc, ask, sent, replay, status, messageVars,
                   toolVars, at, deaf, queue, text, held, lost, taskVars>>

StitchFails(r) ==
    /\ pc[r] = "broken" /\ rest[r] > 0
    /\ rest' = [rest EXCEPT ![r] = @ - 1]
    /\ outbound' = outbound \cup {<<r, sent[r]>>}
    /\ UNCHANGED <<pc, ask, sent, replay, status, messageVars,
                   toolVars, at, deaf, queue, text, held, lost, taskVars>>

Abort(r) ==
    /\ rest[r] = 0 /\ ~deaf[r]
    /\ Goes(r, "broken", "aborted")
    /\ UNCHANGED <<handlerVars, toolVars, streamVars, taskVars>>

(* The pump waits for the client: in the send of the last chunk, or in     *)
(* that of the error after the last fallback.                              *)
Sending(r) ==
    \/ pc[r] = "streaming" /\ at[r] > 0
    \/ pc[r] = "broken" /\ rest[r] = 0

(* The client stays and reads no more, and the send has no timeout.        *)
Stall(r) ==
    /\ Sending(r) /\ ~deaf[r]
    /\ deaf' = [deaf EXCEPT ![r] = TRUE]
    /\ UNCHANGED <<pc, handlerVars, toolVars, at, rest, queue, text, held, lost, taskVars>>

(* The send finds the client gone. *)
Leave(r) ==
    /\ Sending(r)
    /\ pc' = [pc EXCEPT ![r] = "gone"]
    /\ UNCHANGED <<handlerVars, toolVars, streamVars, taskVars>>

(* Text that does not fit is left out; what follows may still fit. *)
Collect(r) ==
    LET c == Head(queue[r])
        e == Stream[r][c[1]][c[2]] IN
    /\ task[r] = "collecting"
    /\ queue[r] # << >>
    /\ queue' = [queue EXCEPT ![r] = Tail(@)]
    /\ task' = IF e.kind \in {"bad", "done"} THEN [task EXCEPT ![r] = "due"] ELSE task
    /\ IF e.kind = "text" /\ held[r] + e.size < Buffer
         THEN /\ text' = [text EXCEPT ![r] = Append(@, c)]
              /\ held' = [held EXCEPT ![r] = @ + e.size]
         ELSE UNCHANGED <<text, held>>
    /\ UNCHANGED <<pc, handlerVars, toolVars, at, deaf, rest, lost, cache, logged>>

CollectedEarly(r) ==                               \* mutant of Collected
    /\ task[r] = "collecting"
    /\ pc[r] \in Over
    /\ task' = [task EXCEPT ![r] = "due"]
    /\ UNCHANGED <<pc, handlerVars, toolVars, streamVars, cache, logged>>

(* The pump has ended and its side of the channel is closed. *)
Collected(r) ==
    /\ task[r] = "collecting"
    /\ pc[r] \in Over
    /\ queue[r] = << >>
    /\ task' = [task EXCEPT ![r] = "due"]
    /\ UNCHANGED <<pc, handlerVars, toolVars, streamVars, cache, logged>>

-----------------------------------------------------------------------------
(* fire_async_telemetry, in a task of its own. *)

(* A stream that was stitched, or came from a fallback, counts as 200. *)
Counts200(r) == status[r] \in {"ok", "swapped"}

HasContent(r) == sent[r] \in Streaming => held[r] > 0

Fills(r) ==
    /\ replay[r] = Nobody
    /\ ~ask[r].scenario
    /\ Counts200(r)
    /\ HasContent(r)

(* telemetry_prompt: the body as it came, or what an extractor of answers  *)
(* makes of the redacted one: the content of its first choice if it has    *)
(* one, else its text.                                                     *)
TelemetryPrompt(r) ==
    IF ask[r].body \in Sensitive THEN Prompt[sent[r]] ELSE ask[r].body

(* The fill goes by it.  Answers of 1000 tokens and more are not kept, nor *)
(* empty ones.                                                             *)
Record(r, kept) ==
    LET key == KeyOf(r, TelemetryPrompt(r)) IN
    /\ task[r] = "due"
    /\ task' = [task EXCEPT ![r] = "done"]
    /\ Logs(TelemetryPrompt(r))
    /\ cache' = IF Fills(r) /\ kept THEN [cache EXCEPT ![key] = r] ELSE cache
    /\ UNCHANGED <<pc, handlerVars, toolVars, streamVars>>

(* An hour without a hit, or no room. *)
Expire(k) ==
    /\ cache[k] # Nobody
    /\ cache' = [cache EXCEPT ![k] = Nobody]
    /\ UNCHANGED <<pc, handlerVars, toolVars, streamVars, logged, task>>

-----------------------------------------------------------------------------

Admit(r) ==
    \/ TurnAway(r) \/ Inspect(r)
    \/ \E b \in Body : Redact(r, b)
    \/ RedactFails(r) \/ Hit(r) \/ Miss(r)

Forward(r) ==
    \/ Refuse(r) \/ Dispatch(r) \/ UpstreamFails(r)
    \/ \E s \in {"ok", "bad"} : BeginBody(r, s)
    \/ \E s \in {"ok", "bad", "swapped"} : BeginStream(r, s)

Buffered(r) ==
    \/ ReadFails(r)
    \/ \E f \in Format, a \in Answers[r] : Read(r, f, a)
    \/ Ignored(r)
    \/ \E v \in [Questions(r) -> Verdict] : 
          Allow(r, v) \/ Intercept(r, v) \/ Deny(r, v) \/ NoVerdict(r, v)
    \/ Launch(r)
    \/ \E i \in flying[r], known \in BOOLEAN : Land(r, i, known)
    \/ Attach(r) \/ AttachFails(r)

Pump(r) ==
    \/ Relay(r) \/ Complete(r) \/ Break(r)
    \/ Stitch(r) \/ StitchFails(r) \/ Abort(r)

Client(r) == Drop(r) \/ Stall(r) \/ Leave(r)

Collector(r) ==
    \/ Collect(r) \/ Collected(r)
    \/ \E kept \in BOOLEAN : Record(r, kept)

Step(r) ==
    Admit(r) \/ Forward(r) \/ Buffered(r) \/ Pump(r) \/ Collector(r) \/ Client(r)

Next ==
    \/ \E r \in Request : Step(r)
    \/ \E k \in DOMAIN cache : Expire(k)

Spec == Init /\ [][Next]_vars

(* The awaits of the handler and of the two tasks end, for the calls they  *)
(* make have timeouts, but for the pump's send, which a client that is     *)
(* deaf to it keeps waiting.  Nothing obliges a client to read, to stay or *)
(* to leave, a stream to break or an entry to expire.                      *)
FairSpec ==
    /\ Spec
    /\ \A r \in Request :
          /\ WF_vars(Admit(r) \/ Forward(r) \/ Buffered(r))
          /\ WF_vars(Pump(r))
          /\ WF_vars(Collector(r))

-----------------------------------------------------------------------------

(* What of its streams may be relayed. *)
Chunk(r) == {c \in (0..Fallbacks) \X (Nat \ {0}) : c[2] <= Len(Stream[r][c[1]])}

TypeOK ==
    /\ cache \in [Tenant \X Body -> Request \cup {Nobody}]
    /\ pc \in [Request -> Handling \cup Pumping \cup Over]
    /\ ask \in [Request -> Ask]
    /\ sent \in [Request -> Body]
    /\ outbound \subseteq Request \X Body
    /\ logged \subseteq Sensitive
    /\ replay \in [Request -> Request \cup {Nobody}]
    /\ status \in [Request -> {"none", "ok", "bad", "swapped"}]
    /\ format \in [Request -> Format \cup {"none"}]
    /\ calls \in [Request -> Seq(Tool)]
    /\ place \in [Request -> Place]
    /\ word \in [Request -> BOOLEAN]
    /\ said \in [Request -> {"nothing", "answer", "denial", "schema"}]
    /\ passed \in [Request -> SUBSET Nat]
    /\ todo \in [Request -> Nat \ {0}]
    /\ flying \in [Request -> SUBSET (Nat \ {0})]
    /\ results \in [Request -> Seq((Nat \ {0}) \X BOOLEAN)]
    /\ at \in [Request -> Nat]
    /\ deaf \in [Request -> BOOLEAN]
    /\ rest \in [Request -> 0..Fallbacks]
    /\ queue \in [Request -> Seq((0..Fallbacks) \X (Nat \ {0}))]
    /\ \A r \in Request : queue[r] \in Seq(Chunk(r))
    /\ text \in [Request -> Seq((0..Fallbacks) \X (Nat \ {0}))]
    /\ held \in [Request -> Nat]
    /\ lost \in [Request -> BOOLEAN]
    /\ task \in [Request -> {"none", "collecting", "due", "done"}]

(* A request that is answered from the cache gets what upstream answered,  *)
(* with a status that counts as 200, to a request of its own tenant: one   *)
(* that came with the very same body, or one that was redacted and whose   *)
(* redacted body says, as an answer is read, what this one came with.  A   *)
(* test scenario neither reads nor fills, and no replay is replayed.  The  *)
(* lookup goes by the body before redaction, the fill by what is left of   *)
(* it long after the answer.                                               *)
ReplayIsOwn ==
    \A r \in Request :
        replay[r] # Nobody =>
            LET q == replay[r] IN
            /\ ask[q].tenant = ask[r].tenant
            /\ TelemetryPrompt(q) = ask[r].body
            /\ Counts200(q) /\ task[q] = "done" /\ replay[q] = Nobody
            /\ ~ask[q].scenario /\ ~ask[r].scenario

(* What redaction was to take out is neither sent to a provider, not even  *)
(* by the failover of a stream, long after the handler has answered, nor   *)
(* handed to the telemetry by the task that comes after.                   *)
RawStaysInside == logged = {} /\ \A p \in outbound : p[2] \notin Sensitive

(* A tool that the message of an answer calls is executed only if the      *)
(* policy let every call of the message pass, in whatever order its        *)
(* verdicts came and whichever it timed out on, and the message went out   *)
(* as it was.                                                              *)
AllowedOnly ==
    \A r \in Request :
        todo[r] > 1 /\ place[r] = "message" =>
            said[r] = "answer" /\ passed[r] = 1..Len(calls[r])

(* Each call of an answer comes back once, however the fan-out was bounded *)
(* and whichever call ended first, and no call of another; the answer goes *)
(* out when all are in.  So what is attached is the result of every call   *)
(* that has one, and nothing else; where nothing can be attached to, the   *)
(* answer does not go out without it.                                      *)
ResultsAreOwn ==
    \A r \in Request :
        LET back(i) == {j \in DOMAIN results[r] : results[r][j][1] = i} IN
        /\ \A i \in 1..Len(Extracted(r)), j, k \in DOMAIN results[r] :
              j \in back(i) /\ k \in back(i) => j = k
        /\ Attached(r) \subseteq 1..Len(Extracted(r))
        /\ pc[r] = "answered" =>
              /\ \A i \in 1..Len(Extracted(r)) : back(i) # {}
              /\ place[r] = "array" => Attached(r) = {}

(* The event parser takes all of it, [DONE] is nowhere but at the end, and *)
(* the bytes of its text, added up, stay under the bound.                  *)
Clean(s) ==
    /\ \A i \in DOMAIN s : s[i].kind # "bad" /\ (s[i].kind = "done" => i = Len(s))
    /\ \E sum \in [0..Len(s) -> 0..(Buffer - 1)] :
          /\ sum[0] = 0
          /\ \A i \in DOMAIN s :
                sum[i] = sum[i - 1] + (IF s[i].kind = "text" THEN s[i].size ELSE 0)

Texts(s) == {i \in DOMAIN s : s[i].kind = "text"}

(* The collector has every text of a clean stream that nothing cut, once   *)
(* and in order: the client stayed, the stream did not break and the       *)
(* channel had room.                                                       *)
WholeUnlessCut ==
    \A r \in Request :
        (/\ pc[r] = "answered" /\ sent[r] \in Streaming /\ replay[r] = Nobody
         /\ rest[r] = Fallbacks /\ ~lost[r] /\ task[r] \in {"due", "done"}
         /\ Clean(Stream[r][Fallbacks]))
        => /\ \A i, j \in DOMAIN text[r] : i < j => text[r][i][2] < text[r][j][2]
           /\ {text[r][i] : i \in DOMAIN text[r]}
                 = {<<Fallbacks, i>> : i \in Texts(Stream[r][Fallbacks])}

Settled(r) ==
    /\ pc[r] \in Over
    /\ task[r] \notin {"due", "collecting"}
    /\ pc[r] = "answered" => task[r] = "done"

Blocked(r) == pc[r] \in Pumping /\ deaf[r]

(* Every request comes to an end, and so does the telemetry task of every  *)
(* answer, however often its stream breaks, unless the client stays and    *)
(* reads no more: then the pump waits for it.                              *)
EveryRequestSettles == \A r \in Request : <>[](Settled(r) \/ Blocked(r))

-----------------------------------------------------------------------------
(* What the documentation says, and the code does not do. *)

(* endpoints.md 43: the calls of a buffered answer to tools of the         *)
(* registry are executed before it is returned.                            *)
ToolsAreExecuted ==
    \A r \in Request :
        pc[r] = "answered" /\ said[r] = "answer" =>
            \A i \in DOMAIN calls[r] : calls[r][i] \in Registered => i \in Executed(r)

(* proxy.rs 1632: the sandbox returns the bytes unchanged when the policy  *)
(* service does not answer, and at once when there is no tool call.        *)
ProseIsLeftAlone ==
    [][\A r \in Request :
          said'[r] = "denial" /\ said[r] # "denial" => calls[r] # << >>]_vars

(* behavior_guard.rs 409: the policy decides on the calls of the body; if  *)
(* it says no to what it is asked, none runs.                              *)
DenialHolds == \A r \in Request : todo[r] > 1 => passed[r] = Questions(r)

(* mcp_client.rs 128: fan_out returns the results in the calls' order.     *)
ResultsAreOrdered ==
    \A r \in Request :
        \A i, j \in DOMAIN results[r] : i < j => results[r][i][1] < results[r][j][1]

(* semantic-caching.md 88: the exact cache is keyed on the payload.        *)
KeyedOnPayload ==
    \A k \in DOMAIN cache : cache[k] # Nobody => ask[cache[k]].body = k[2]

(* semantic-caching.md: an answer that is replayed is the answer.          *)
CachedIsWhole ==
    \A k \in DOMAIN cache :
        cache[k] # Nobody /\ sent[cache[k]] \in Streaming =>
            \E n \in 0..Fallbacks :
                {text[cache[k]][i] : i \in DOMAIN text[cache[k]]}
                    = {<<n, i>> : i \in Texts(Stream[cache[k]][n])}
====
