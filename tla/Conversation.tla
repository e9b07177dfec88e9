---- MODULE Conversation ----
(***************************************************************************)
(* An agent's conversation through the gateway, turn by turn.  The agent   *)
(* keeps the history and sends all of it each time; the gateway strips the *)
(* tool schemas, reads the user's words for its cache and its search for   *)
(* personal data, puts the request into the format of whichever target it  *)
(* has, and the answer back into OpenAI's, or answers a call of            *)
(* get_tool_details by itself.  The targets may change from turn to turn.  *)
(***************************************************************************)
EXTENDS Naturals, Sequences, FiniteSets, SequencesExt, Providers, UserText, ToolRouter

CONSTANTS
    Preambles,      \* messages an agent may begin with
    Writings,       \* what a user may write: sequences of parts
    Tools,          \* the tools of every request
    Answers,        \* what a target may answer: texts and calls without an id
    Turns,          \* bound: requests of the conversation
    Length          \* bound: messages of the history

IsSeq(s) == s \in Seq(ToSet(s))

ASSUME WritingsAssumption == \A parts \in Writings : IsSeq(parts)
ASSUME PreamblesAssumption ==
    \A h \in Preambles :
        IsSeq(h) /\ \A i \in DOMAIN h : IsSeq(h[i].parts) /\ IsSeq(h[i].calls)
(* The names of the tools of a request differ. *)
ASSUME ToolsAssumption ==
    /\ IsSeq(Tools)
    /\ \A i \in DOMAIN Tools :
        /\ Tools[i] \in [name : {Tools[i].name}, params : Seq(Schemas)]
        /\ \A j \in DOMAIN Tools : Tools[i].name = Tools[j].name => i = j
ASSUME AnswersAssumption == \A a \in Answers : IsSeq(a)

Heavy(h) == \E i \in DOMAIN h : Kinds(h[i].parts, {"image"}) # << >>

VARIABLES
    history,        \* the messages the agent has
    due,            \* calls of the last answer still without a result
    stage,          \* agent, or where the request is: routing, waiting
    turns,          \* history: what each request was and was looked up for
    offered,        \* the tools that go with the request
    wire            \* the request as it was sent last

vars == <<history, due, stage, turns, offered, wire>>

Nothing == [target |-> "none", shape |-> "none", system |-> << >>, messages |-> << >>,
            renamed |-> FALSE, length |-> 0]

Init ==
    /\ history \in Preambles
    /\ due = << >>
    /\ stage = "agent"
    /\ turns = << >>
    /\ offered = << >>
    /\ wire = Nothing

Says(m) ==
    /\ Len(history) < Length
    /\ history' = Append(history, m)

(* A request ends with a question or with results. *)
Asks == history # << >> /\ Last(history).role \in {"user", "tool"}

(* What the user writes is sent; when that failed, there may be more. *)
Write(parts) ==
    /\ stage = "agent" /\ due = << >>
    /\ ~Asks \/ (turns # << >> /\ Last(turns).length = Len(history))
    /\ Says(Msg("user", parts, << >>, NoCall))
    /\ UNCHANGED <<due, stage, turns, offered, wire>>

(* The result of a call, the agent's own or from tool_results, in whatever *)
(* order they come.                                                        *)
Answer(i) ==
    /\ stage = "agent"
    /\ Says(Msg("tool", <<Of("text", "result")>>, << >>, due[i].id))
    /\ due' = RemoveAt(due, i)
    /\ UNCHANGED <<stage, turns, offered, wire>>

Send ==
    /\ stage = "agent" /\ due = << >> /\ Asks
    /\ Len(turns) < Turns
    /\ stage' = "routing"
    /\ turns' = Append(turns, [length |-> Len(history), looked |-> Looked(history)])
    /\ offered' = Offered(Tools, history)
    /\ UNCHANGED <<history, due, wire>>

Build(f) ==
    /\ stage = "routing"
    /\ Builds(f, history, Heavy(history))
    /\ stage' = "waiting"
    /\ wire' = Request(f, history, Heavy(history))
    /\ UNCHANGED <<history, due, turns, offered>>

(* No target, or none that answers. *)
Fail ==
    /\ stage \in {"routing", "waiting"}
    /\ stage' = "agent"
    /\ UNCHANGED <<history, due, turns, offered, wire>>

(* The target gives each call an id of its own. *)
Named(a) ==
    [k \in DOMAIN a |->
        IF a[k].kind # "call" THEN a[k]
        ELSE Of("call", [a[k].of EXCEPT !.id = <<Len(turns), k>>])]

Receive(a) ==
    LET reply == Reply(Unify(wire.target, Named(a))) IN
    /\ stage = "waiting"
    /\ stage' = "agent"
    /\ Says(reply)
    /\ due' = reply.calls
    /\ UNCHANGED <<turns, offered, wire>>

Next ==
    \/ \E parts \in Writings : Write(parts)
    \/ \E i \in DOMAIN due : Answer(i)
    \/ Send
    \/ \E f \in Targets : Build(f)
    \/ Fail
    \/ \E a \in Answers : Receive(a)

Spec == Init /\ [][Next]_vars

-----------------------------------------------------------------------------

Alternate(ms) == \A i \in DOMAIN ms : i > 1 => ms[i].role # ms[i - 1].role

(* What Anthropic is sent alternates between user and assistant, as its    *)
(* API demands, whichever targets answered before and whatever was written *)
(* or came back twice in a row.                                            *)
Alternates == wire.shape = "anthropic" => Alternate(wire.messages)

(* What is in messages, one after the other. *)
Parts(ms) == FlattenSeq([i \in DOMAIN ms |-> ms[i].parts])

Undummied(ps) == Taken(ps, {i \in DOMAIN ps : ps[i].kind # "dummy"})

(* What was said in a history, by anyone but the system. *)
Said(h) ==
    FlattenSeq([i \in DOMAIN h |-> IF h[i].role = "system" THEN << >> ELSE Contents(h[i])])

(* And it is the conversation: without the dummies it has every text,      *)
(* image, call and result of the history in their order.                   *)
NothingIsLost ==
    wire.shape = "anthropic" =>
        Undummied(Parts(wire.messages)) = Said(SubSeq(history, 1, wire.length))

(* An agent that comes back with more than it had before does not have the *)
(* cache asked for the same words of its user again: it would be given the *)
(* answer it came from, for ever.                                          *)
NoEcho ==
    \A i, j \in DOMAIN turns :
        turns[i].looked # 0 /\ turns[i].looked = turns[j].looked =>
            turns[i].length = turns[j].length

(* What the user has written in a legible block of text is searched for    *)
(* personal data on every later turn, however long the conversation grows: *)
(* it is enough that the texts up to its own message fit into the budget,  *)
(* of which the first message takes a double share (proxy.rs 415-481).     *)
ScanCovers ==
    \A i \in DOMAIN history :
        /\ history[i].role = "user"
        /\ Len(AllScanned(SubSeq(history, 1, i))) <= Budget
        => \A p \in ToSet(history[i].parts) :
              Legible(p) => p \in ToSet(Scanned(history))

(* The paths of a schema, as sequences of keys and indices. *)
Under(x, ps) == {<<x>> \o p : p \in ps}

Paths[v \in Schemas] ==
    {<< >>} \cup
    CASE v.kind = "object" ->
            UNION {Under(Of("key", k), Paths[v.fields[k]]) : k \in DOMAIN v.fields}
      [] v.kind = "array" ->
            UNION {Under(Of("index", i), Paths[v.items[i]]) : i \in DOMAIN v.items}
      [] v.kind = "value" -> {}

Plain(p) == \A i \in DOMAIN p : p[i].kind = "key" => p[i].of \notin Metadata

(* Every tool of the agent is offered, in its place and under its name;    *)
(* its schema is the agent's without the descriptions, no more and no less *)
(* taken out at any depth, unless the model has asked for all of it; and   *)
(* the gateway's own tool comes once.                                      *)
IsOffer(tools) ==
    /\ \A i \in DOMAIN Tools :
          LET t == Tools[i]  o == tools[i] IN
          /\ o.name = t.name
          /\ \/ o.params = t.params
             \/ t.name \in DOMAIN Registry /\ o.params = Registry[t.name]
             \/ \A k \in DOMAIN t.params :
                   Paths[o.params[k]] = {p \in Paths[t.params[k]] : Plain(p)}
    /\ Cardinality({i \in DOMAIN tools : tools[i].name = PhantomTool}) <= 1
    /\ \A i \in DOMAIN tools : i > Len(Tools) => tools[i].name = PhantomTool

(* This holds of the tools of every request, on every turn.                *)
ToolsAreOffered == offered # << >> => IsOffer(offered)

-----------------------------------------------------------------------------
(* What the documentation says, and the code does not do. *)

(* mcp-router.md 238: properties and required are strictly preserved.  The *)
(* strip goes by the key, a property may be called title.                  *)
PropertiesAreKept ==
    offered # << >> =>
        \A i \in DOMAIN Tools :
            \A k \in DOMAIN Tools[i].params :
                \A p \in Paths[Tools[i].params[k]] :
                    p # << >> /\ Front(p) = <<Of("key", "properties")>> =>
                        p \in Paths[offered[i].params[k]]

(* releases.md 20: complete translation support for Gemini.                *)
GeminiIsComplete ==
    wire.shape = "gemini" =>
        \A i \in DOMAIN wire.messages : wire.messages[i].parts # << >>

(* llm-providers.md 32: Cohere is a target of failover translation.        *)
CohereIsATarget ==
    Translatable(history) => \A f \in Targets : Builds(f, history, FALSE)

(* A result follows the call it is of: in the next message for Anthropic.  *)
(* A dummy comes between the results of calls made together, and the       *)
(* gateway's own answer to get_tool_details has no call before it.         *)
ResultsFollowCalls ==
    wire.shape = "anthropic" =>
        \A i \in DOMAIN wire.messages :
            \A p \in ToSet(wire.messages[i].parts) :
                p.kind = "result" =>
                    i > 1 /\ Of("call", p.of) \in ToSet(wire.messages[i - 1].parts)

(* proxy.rs 113: what tools bring into the conversation is scanned.        *)
ToolResultsAreScanned ==
    \A i \in DOMAIN history :
        history[i].role = "tool" => ToSet(history[i].parts) \subseteq ToSet(Scanned(history))

(* What the cache is asked for is searched before.  It is not when it is a *)
(* bare string in a list, which only the cache's reader takes for text,    *)
(* when its block is not legible, or when it comes after 64 KiB.           *)
LookedIsScanned == ToSet(SemanticText(history)) \subseteq ToSet(Scanned(history))

(* A request is in the format of its target, and names its model.  A body  *)
(* of more than 5 MB is not rewritten.                                     *)
SpeaksItsFormat == wire.target # "none" => wire.shape = wire.target /\ wire.renamed
====
