---- MODULE Providers ----
(***************************************************************************)
(* The adapters between OpenAI's wire format, in which agents speak, the   *)
(* universal conversation, and the formats of Anthropic, Gemini and        *)
(* Cohere.  Pure operators: an agent's message is                          *)
(*                                                                         *)
(*   [role, parts, calls, answers]                                         *)
(*                                                                         *)
(* with the parts of its content in order, the tool calls it makes and the *)
(* call a tool message answers.  A part is [kind, of]: a text, an image, a *)
(* bare string in a list, or a block of another kind.  A call is           *)
(* [id, tool, valid], valid when its arguments are JSON.                   *)
(***************************************************************************)
EXTENDS Naturals, Sequences, SequencesExt

CONSTANT
    NoCall          \* what answers is in a message that is no tool result

Msg(role, parts, calls, answers) ==
    [role |-> role, parts |-> parts, calls |-> calls, answers |-> answers]

Of(kind, x) == [kind |-> kind, of |-> x]

(* The items of s at the indices in keep, in their order. *)
Taken(s, keep) ==
    LET upTo[i \in 0..Len(s)] ==
            IF i = 0 THEN << >>
            ELSE IF i \in keep THEN Append(upTo[i - 1], s[i])
            ELSE upTo[i - 1]
    IN upTo[Len(s)]

(* The parts of the kinds ks. *)
Kinds(ps, ks) == Taken(ps, {i \in DOMAIN ps : ps[i].kind \in ks})

-----------------------------------------------------------------------------
(* openai.rs, to_universal. *)

KnownRoles == {"system", "user", "assistant", "tool", "function"}

Translatable(h) ==
    \A i \in DOMAIN h :
        /\ h[i].role \in KnownRoles
        /\ h[i].role # "system" => \A k \in DOMAIN h[i].calls : h[i].calls[k].valid

(* The last system message that has a text, and of its texts the first. *)
SystemPrompt(h) ==
    LET texts(m) == Kinds(m.parts, {"text"})
        said == SelectSeq(h, LAMBDA m : m.role = "system" /\ texts(m) # << >>)
    IN IF said = << >> THEN << >> ELSE <<Head(texts(Last(said)))>>

(* A tool message that names its call becomes one result, empty or not. *)
Contents(m) ==
    IF m.role \in {"tool", "function"} /\ m.answers # NoCall
      THEN <<Of("result", m.answers)>>
      ELSE Kinds(m.parts, {"text", "image"})
           \o [i \in DOMAIN m.calls |-> Of("call", m.calls[i].id)]

UniversalRole(m) == IF m.role = "function" THEN "tool" ELSE m.role

UniversalMessage(m) == [role |-> UniversalRole(m), parts |-> Contents(m)]

(* System messages are taken out, and those nothing is left of. *)
Kept(m) == m.role # "system" /\ Contents(m) # << >>

Universal(h) ==
    Taken([i \in DOMAIN h |-> UniversalMessage(h[i])], {i \in DOMAIN h : Kept(h[i])})

-----------------------------------------------------------------------------
(* from_universal of the targets.  Cohere's always fails. *)

Targets == {"openai", "anthropic", "gemini", "cohere"}

AnthropicRole(m) == IF m.role \in {"user", "tool"} THEN "user" ELSE "assistant"

OtherRole(role) == IF role = "user" THEN "assistant" ELSE "user"

Dummy(role) == [role |-> role, parts |-> <<Of("dummy", role)>>]

AfterUnequal(ms, m) ==                             \* mutant of After
    LET role == AnthropicRole(m)
        next == [role |-> role, parts |-> m.parts]
    IN IF ms # << >> /\ Head(ms).role = role
         THEN ms \o <<Dummy(OtherRole(role)), next>>
         ELSE Append(ms, next)

AfterReplacing(ms, m) ==                           \* mutant of After
    LET role == AnthropicRole(m)
        next == [role |-> role, parts |-> m.parts]
    IN IF ms # << >> /\ Last(ms).role = role THEN Append(Front(ms), next) ELSE Append(ms, next)

(* Between two messages of one role comes a dummy of the other. *)
After(ms, m) ==
    LET role == AnthropicRole(m)
        next == [role |-> role, parts |-> m.parts]
    IN IF ms # << >> /\ Last(ms).role = role
         THEN ms \o <<Dummy(OtherRole(role)), next>>
         ELSE Append(ms, next)

Anthropic(u) ==
    LET upTo[i \in 0..Len(u)] == IF i = 0 THEN << >> ELSE After(upTo[i - 1], u[i])
    IN upTo[Len(u)]

GeminiRole(m) == IF m.role \in {"system", "user"} THEN "user" ELSE "model"

(* Only texts are carried over; a message without stays, empty. *)
Gemini(u) ==
    [i \in DOMAIN u |-> [role |-> GeminiRole(u[i]), parts |-> Kinds(u[i].parts, {"text"})]]

(* build_provider_request: a body of more than 5 MB goes as it is, one for *)
(* an OpenAI target changes its model only, the others are translated.     *)
Builds(f, h, big) ==
    big \/ f = "openai" \/ (f \in {"anthropic", "gemini"} /\ Translatable(h))

Request(f, h, big) ==
    LET as(shape, system, ms) ==
            [target |-> f, shape |-> shape, system |-> system, messages |-> ms,
             renamed |-> ~big, length |-> Len(h)]
    IN IF big \/ f = "openai" THEN as("openai", << >>, h)
       ELSE CASE f = "anthropic" -> as(f, SystemPrompt(h), Anthropic(Universal(h)))
              [] f = "gemini" -> as(f, SystemPrompt(h), Gemini(Universal(h)))

-----------------------------------------------------------------------------
(* unify_response: what the agent gets of an answer, a sequence of texts   *)
(* and calls.  Anthropic's adapter takes the first text and the calls      *)
(* whose input is an object, Gemini's the first part if it is a text.      *)

FirstOf(ps) == IF ps = << >> THEN << >> ELSE <<Head(ps)>>

CallsOf(a) == LET cs == Kinds(a, {"call"}) IN [i \in DOMAIN cs |-> cs[i].of]

Valid(calls) == Taken(calls, {i \in DOMAIN calls : calls[i].valid})

Unify(f, a) ==
    LET reply(texts, calls) == Msg("assistant", texts, calls, NoCall)
    IN CASE f = "anthropic" ->
              reply(FirstOf(Kinds(a, {"text"})), Valid(CallsOf(a)))
         [] f = "gemini" -> reply(Kinds(FirstOf(a), {"text"}), << >>)
         [] f \in {"openai", "cohere"} -> reply(Kinds(a, {"text"}), CallsOf(a))
====
