---- MODULE MCAgentGuardian ----
(* Instances of AgentGuardian for TLC. *)
EXTENDS AgentGuardian, TLC

CONSTANTS r1, r2, r3, r4, s1, a, b, c

OneSession == [r \in Request |-> s1]

(* Single calls, a pair of identical ones, and one that cannot be read. *)
MixedCalls == r1 :> <<a>> @@ r2 :> <<a, a>> @@ r3 :> <<b, Unreadable>> @@ r4 :> <<a>>

(* The same call every time, and one body without calls. *)
SameCall == [r \in Request |-> IF r = r4 THEN << >> ELSE <<a>>]

(* Three turns of a conversation, each sent with the turns before it. *)
Conversation == r1 :> <<a>> @@ r2 :> <<a, b>> @@ r3 :> <<a, b, c>>
====
