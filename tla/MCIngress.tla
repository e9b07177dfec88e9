---- MODULE MCIngress ----
EXTENDS Ingress

CONSTANTS r1, r2, r3, acme

Jwt(id, good) ==
    [kind |-> "jwt", good |-> good, tenant |-> id, admin |-> FALSE, alias |-> Nothing]
ApiKey(good) == [kind |-> "key", good |-> good]

Member(key, kind, value) == [key |-> key, kind |-> kind, value |-> value]

(* A tool named; named after another name, in its chunk or the next; its   *)
(* name as another key's value, within a string, and as a key under name;  *)
(* and a key that ends like name; and a backspace and "ash", which reads   *)
(* as bash.                                                                *)
Plain == <<Member(<<"name">>, "string", <<"search">>)>>
Second == <<Member(<<"name">>, "string", <<"bob">>), Member(<<"name">>, "string", <<"search">>)>>
Third == <<Member(<<"name">>, "string", <<"bob">>), Member(<<"role">>, "string", <<"user">>),
           Member(<<"name">>, "string", <<"search">>)>>
Spoken == <<Member(<<"text">>, "string", <<"quote", "name", "quote", "colon", "quote", "search", "quote">>),
            Member(<<"title">>, "string", <<"name">>), Member(<<"role">>, "string", <<"search">>)>>
Under == <<Member(<<"name">>, "object", <<"search">>),
           Member(<<"name">>, "string", <<"search", "quote">>)>>
Ending == <<Member(<<"text", "quote", "name">>, "string", <<"search">>)>>
Misread == <<Member(<<"name">>, "string", <<"backspace", "ash">>)>>

MCRegistered == {<<"search">>, <<"b", "ash">>}
MCLetter ==
    [t \in {"quote", "backslash", "backspace"} |-> IF t = "backspace" THEN "b" ELSE t]

A(route, body) ==
    [route |-> route, body |-> body, local |-> FALSE, bearer |-> Nothing, key |-> Nothing,
     cookie |-> Nothing, csrf |-> FALSE, header |-> Nothing, alias |-> Nothing,
     session |-> Nothing, idem |-> Nothing, scenario |-> FALSE]

Other == <<acme, "upper case">>

MCArrivals ==
    {[A("chat", Plain) EXCEPT !.bearer = Jwt(Other, TRUE), !.header = Id(Zero), !.idem = "once"],
     [A("chat", Third) EXCEPT !.cookie = Jwt(Id(acme), TRUE), !.csrf = TRUE, !.session = <<"s">>],
     [A("chat", Spoken \o Misread) EXCEPT !.key = ApiKey(TRUE), !.cookie = Jwt(Id(acme), TRUE),
                               !.header = Id(acme), !.alias = "internal_test", !.idem = "once",
                               !.scenario = TRUE],
     [A("chat", Under) EXCEPT !.local = TRUE, !.bearer = Jwt(Id(acme), FALSE), !.scenario = TRUE],
     [A("chat", Ending) EXCEPT !.bearer = ApiKey(TRUE), !.session = <<Other, "once">>],
     [A("chat", Second) EXCEPT !.key = Jwt(Id(acme), TRUE)],
     [A("chat", Plain) EXCEPT !.bearer = Jwt(<<acme, "no uuid">>, TRUE)],
     [A("admin", Plain) EXCEPT !.bearer = Jwt(Id(acme), TRUE)],
     [A("admin", Plain) EXCEPT !.bearer = [Jwt(Id(acme), TRUE) EXCEPT !.admin = TRUE]],
     [A("mcp", << >>) EXCEPT !.bearer = Jwt(Id(acme), TRUE)],
     [A("mcp", << >>) EXCEPT !.bearer = ApiKey(TRUE), !.header = Id(acme)]}
====
