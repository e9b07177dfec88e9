---- MODULE MCGateway ----
EXTENDS Gateway, TLC

CONSTANTS r1, r2, t1, t2, raw, clean, told, rawflow, flow, get, put, details

From(t, b) == [tenant |-> t, body |-> b, scenario |-> FALSE]

(* The flows ask for a stream; the raw ones redact to the others.          *)
MCAsksOf ==
    r1 :> {From(t1, raw), From(t1, rawflow)}
    @@ r2 :> {From(t1, clean), From(t2, clean), From(t1, flow),
              [From(t1, clean) EXCEPT !.scenario = TRUE]}

(* The service that redacts may leave a body that reads as an answer and   *)
(* says what the clean one is.                                             *)
MCRedactions == {<<raw, clean>>, <<raw, told>>, <<rawflow, flow>>}

MCPrompt == (told :> clean) @@ [b \in Body |-> b]

Reads(in, names, speaks) == [calls |-> names, place |-> in, word |-> speaks]

(* Prose that speaks of tool_calls, two calls, a phantom call before a     *)
(* real one, a call beside a message, a bare array; and prose.             *)
MCAnswers ==
    r1 :> {Reads("message", << >>, TRUE), Reads("message", <<get, put>>, TRUE),
           Reads("message", <<details, get>>, TRUE),
           Reads("beside", <<get>>, TRUE), Reads("array", <<get>>, TRUE)}
    @@ r2 :> {Reads("message", << >>, FALSE)}

(* A call in a delta, for want of a message. *)
MCElsewhere == [r \in Request |-> {Reads("elsewhere", <<get>>, TRUE)}]

Says(n) == [kind |-> "text", size |-> n]
Other == [kind |-> "other", size |-> 0]
Bad == [kind |-> "bad", size |-> 0]
Done == [kind |-> "done", size |-> 0]

(* To the first a stream that fits, then one the parser fails on; to the   *)
(* second one whose end does not fit, then one without any text.           *)
MCStream ==
    r1 :> (1 :> <<Says(1), Says(1), Done>> @@ 0 :> <<Bad>>)
    @@ r2 :> (1 :> <<Says(2), Says(1)>> @@ 0 :> <<Other>>)
====
