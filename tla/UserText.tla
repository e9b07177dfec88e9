---- MODULE UserText ----
(***************************************************************************)
(* The two readers of what the user wrote: extract_semantic_text, for the  *)
(* semantic cache, walks the messages from the newest; and                 *)
(* extract_semantic_text_raw, for the search for personal data, goes       *)
(* through the bytes of the body from the beginning and stops at a budget. *)
(* Bodies in the form of messages; the budget is counted in texts.         *)
(***************************************************************************)
EXTENDS Naturals, Sequences, SequencesExt, Providers

CONSTANTS
    Budget,         \* 64 KiB of text
    Nested          \* the texts whose block has an object with another type
                    \* in it before its own, as cache_control has

ASSUME BudgetAssumption == Budget \in Nat

(* A tool at work: the turn is no question of the user's.                  *)
Agentic(m) ==
    \/ m.role \in {"tool", "function"}
    \/ m.role = "assistant" /\ (m.calls # << >> \/ Kinds(m.parts, {"tool_use"}) # << >>)
    \/ m.role # "assistant" /\ Kinds(m.parts, {"tool_result"}) # << >>

DecisiveUnlessTool(m) ==                           \* mutant of Decisive
    m.role = "user" \/ (m.role # "tool" /\ Agentic(m))

(* Where the walk ends: other messages are passed over. *)
Decisive(m) == m.role = "user" \/ Agentic(m)

(* The message whose text the cache is asked for, or 0.  In a list, bare   *)
(* strings count as text.                                                  *)
Looked(h) ==
    LET ends == {i \in DOMAIN h : Decisive(h[i])}
        at == CHOOSE i \in ends : \A j \in ends : j <= i
    IN IF ends = {} \/ Agentic(h[at]) \/ Kinds(h[at].parts, {"text", "bare"}) = << >>
         THEN 0 ELSE at

SemanticText(h) ==
    IF Looked(h) = 0 THEN << >> ELSE Kinds(h[Looked(h)].parts, {"text", "bare"})

ScannedOfFirst(m) ==                               \* mutant of ScannedOf
    IF m.role = "user" THEN FirstOf(Kinds(m.parts, {"text"})) ELSE << >>

(* Of a list only the blocks of type text.  The type of a block is the     *)
(* first that find_key meets in it, at whatever depth.                     *)
Legible(p) == p.kind = "text" /\ p.of \notin Nested

ScannedOf(m) ==
    IF m.role = "user"
      THEN Taken(m.parts, {i \in DOMAIN m.parts : Legible(m.parts[i])}) ELSE << >>

(* The body is an object too, and find_key looks into what is nested: if   *)
(* its first role is user, the text of its first message comes twice.      *)
AllScanned(h) ==
    (IF h = << >> THEN << >> ELSE ScannedOf(h[1]))
        \o FlattenSeq([i \in DOMAIN h |-> ScannedOf(h[i])])

Scanned(h) ==
    LET all == AllScanned(h) IN SubSeq(all, 1, IF Len(all) < Budget THEN Len(all) ELSE Budget)
====
