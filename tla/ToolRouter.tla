---- MODULE ToolRouter ----
(***************************************************************************)
(* The tool schemas of a request: inject_lazy_summaries strips what the    *)
(* registry knows, and adds get_tool_details, a tool that the gateway      *)
(* answers by itself in intercept_phantom_call.  Pure operators on a JSON  *)
(* value as a tree: an object has fields, an array items, the rest is      *)
(* "value".                                                                *)
(***************************************************************************)
EXTENDS Naturals, Sequences, SequencesExt, Providers

CONSTANTS
    Schemas,        \* schemas, with what is in them and what stripping leaves
    Depth,          \* how deep each of them is nested
    Registry,       \* names in MCP_TOOL_SCHEMA_REGISTRY -> a schema or none
    Wants           \* texts -> the tools whose schema they ask for

Object(fields) == [kind |-> "object", fields |-> fields]

Array(items) == [kind |-> "array", items |-> items]

Value == [kind |-> "value"]

IsObject(v) == v = Object(v.fields) /\ \A k \in DOMAIN v.fields : v.fields[k] \in Schemas

IsArray(v) == v = Array(v.items) /\ \A i \in DOMAIN v.items : v.items[i] \in Schemas

Metadata == {"description", "title", "examples"}

StripTop(v) ==                                     \* mutant of Strip
    IF v.kind # "object" THEN v
    ELSE Object([k \in DOMAIN v.fields \ Metadata |-> v.fields[k]])

(* strip_non_essential_metadata goes by the key, wherever it stands. *)
Stripped[v \in Schemas] ==
    CASE v.kind = "object" ->
            Object([k \in DOMAIN v.fields \ Metadata |-> Stripped[v.fields[k]]])
      [] v.kind = "array" -> Array([i \in DOMAIN v.items |-> Stripped[v.items[i]]])
      [] v.kind = "value" -> v

Strip(v) == Stripped[v]

(* A schema is a finite tree: serde_json parses no document that is nested *)
(* deeper than MaxDepth.                                                   *)
MaxDepth == 128

ASSUME SchemasAssumption ==
    /\ Depth \in [Schemas -> 0..MaxDepth]
    /\ \A v \in Schemas :
        /\ Stripped[v] \in Schemas
        /\ \/ v.kind = "object" /\ IsObject(v)
              /\ \A k \in DOMAIN v.fields : Depth[v.fields[k]] < Depth[v]
           \/ v.kind = "array" /\ IsArray(v)
              /\ \A i \in DOMAIN v.items : Depth[v.items[i]] < Depth[v]
           \/ v.kind = "value"

(* full_schema_requested_set: by keyword and similarity, in the text of    *)
(* the last message of the assistant that has one.                         *)
Wanted(h) ==
    LET spoken == SelectSeq(h, LAMBDA m : m.role = "assistant" /\ Kinds(m.parts, {"text"}) # << >>)
    IN IF spoken = << >> THEN {}
       ELSE UNION {Wants[p.of] : p \in ToSet(Kinds(Last(spoken).parts, {"text"}))}

PhantomTool == "get_tool_details"

(* A tool of a request is [name, params]; params and what the registry has *)
(* are sequences of one schema or none.                                    *)
Phantom == [name |-> PhantomTool, params |-> <<Object([tool_name |-> Value])>>]

Lazy(t, wanted) ==
    IF t.name \notin DOMAIN Registry THEN t
    ELSE IF t.name \in wanted
      THEN [t EXCEPT !.params = IF Registry[t.name] # << >> THEN Registry[t.name] ELSE @]
    ELSE [t EXCEPT !.params = [i \in DOMAIN @ |-> Strip(@[i])]]

Modified(t, wanted) == t.name \in DOMAIN Registry /\ (t.name \in wanted \/ t.params # << >>)

Offered(tools, h) ==
    LET lazy == [i \in DOMAIN tools |-> Lazy(tools[i], Wanted(h))]
    IN IF \A i \in DOMAIN tools : ~Modified(tools[i], Wanted(h)) THEN tools
       ELSE IF \E i \in DOMAIN tools : tools[i].name = PhantomTool THEN lazy
       ELSE Append(lazy, Phantom)

(* The call that the gateway answers: the first of the message, for a tool *)
(* it has a schema of.  Its answer takes the place of the whole message.   *)
Intercepts(m) ==
    /\ m.calls # << >>
    /\ m.calls[1].tool = PhantomTool /\ m.calls[1].valid
    /\ m.calls[1].asks \in DOMAIN Registry

Reply(m) ==
    IF Intercepts(m)
      THEN Msg("tool", <<Of("text", "schema")>>, << >>, m.calls[1].id)
      ELSE m
====
