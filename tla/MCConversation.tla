---- MODULE MCConversation ----
EXTENDS Conversation, TLC

CONSTANTS search, clock

Text(x) == Of("text", x)
Call(tool, asks) == Of("call", [id |-> 0, tool |-> tool, valid |-> TRUE, asks |-> asks])

MCPreambles ==
    {<< >>,
     <<Msg("system", <<Text("rules")>>, << >>, NoCall)>>,
     <<Msg("developer", <<Text("rules")>>, << >>, NoCall)>>}

(* One text; two, and one in a block that begins with cache_control;       *)
(* nothing; and an image, which makes the body big.                        *)
MCWritings ==
    {<<Text("question")>>, <<Text("first"), Text("second"), Text("marked")>>, << >>, <<Of("image", "map")>>}

(* Prose, a question for a schema, two calls in one answer, and            *)
(* get_tool_details, alone and before another call.                        *)
MCAnswers ==
    {<<Text("prose")>>, <<Text("schema of search?")>>,
     <<Text("prose"), Call(search, search), Call(clock, clock)>>,
     <<Call(PhantomTool, search), Call(clock, clock)>>,
     <<Call(PhantomTool, clock)>>}

MCWants ==
    [x \in {"prose", "schema of search?"} |-> IF x = "prose" THEN {} ELSE {search}]

(* search has a property called title that it requires.                    *)
Schema ==
    Object([type |-> Value, description |-> Value,
            properties |-> Object([query |-> Object([type |-> Value, description |-> Value]),
                                   title |-> Object([type |-> Value])]),
            anyOf |-> Array(<<Object([examples |-> Value, required |-> Value])>>)])

(* What is in it, and what stripping leaves of that. *)
Described ==
    {Object([k \in K |-> Value]) :
        K \in {{"type", "description"}, {"type"}, {"examples", "required"}, {"required"}}}

Properties == {Object(f) : f \in UNION {[K -> Described] : K \in SUBSET {"query", "title"}}}

MCSchemas ==
    LET lists == {Array(<<x>>) : x \in Described}
        bare == [type : {Value}, properties : Properties, anyOf : lists]
        told == [type : {Value}, description : {Value}, properties : Properties, anyOf : lists]
    IN {Value} \cup Described \cup Properties \cup lists \cup {Object(f) : f \in bare \cup told}

MCDepth[v \in MCSchemas] ==
    LET above(S) == 1 + Max({0} \cup S)
    IN CASE v.kind = "object" -> above({MCDepth[v.fields[k]] : k \in DOMAIN v.fields})
         [] v.kind = "array" -> above({MCDepth[v.items[i]] : i \in DOMAIN v.items})
         [] v.kind = "value" -> 0

MCTools == <<[name |-> search, params |-> <<Schema>>], [name |-> clock, params |-> << >>]>>

MCRegistry == search :> <<Schema>>
====
