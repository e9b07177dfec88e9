---- MODULE MCUpstreamRouter ----
(* Instances of UpstreamRouter for TLC. *)
EXTENDS UpstreamRouter, TLC

CONSTANTS r1, r2, r3, t1, t2, k1, k2, k3

(* r3 is of another tenant, whose keys have the same names. *)
MCTenantOf == [r \in Request |-> IF r = r3 THEN t2 ELSE t1]

(* Three targets for r1, two of them with one key. *)
MCRoute == [r \in Request |-> CASE r = r1 -> <<k1, k2, k1>>
                                 [] r = r2 -> <<k2, k1>>
                                 [] r = r3 -> <<k1>>]
MCUnbuildable == {<<r1, 2>>}

Pair == [r \in Request |-> <<k1, k2>>]
Triple == [r \in Request |-> <<k1, k2, k3>>]
====
