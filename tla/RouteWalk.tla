----------------------------- MODULE RouteWalk -----------------------------
(***************************************************************************)
(* What the router promises of a route (enterprise-headers.md 32: static   *)
(* priorities are strictly respected): a request goes through its targets  *)
(* in ascending order and never back.  A target may be passed over.  A     *)
(* stream that breaks goes through those after the first once more, again  *)
(* in ascending order.  An error has two places: "exhausted" is the end of *)
(* the route, no shortcut, and "refused" comes before anything was sent,   *)
(* when no request can be built for the first target that is left.         *)
(***************************************************************************)
EXTENDS Naturals, Sequences

CONSTANTS
    Request,
    Streaming,      \* the requests that ask for a stream
    Target,         \* the targets of each request, as numbers
    Unfit           \* those of them no request can be built for

VARIABLES
    stage,          \* routing, streaming, exhausted, refused, or over
    left,           \* the targets a request may still be sent to
    later,          \* those a stream may be sent to when it breaks
    calls           \* the targets a request was sent to

vars == <<stage, left, later, calls>>

Init ==
    /\ stage = [r \in Request |-> "routing"]
    /\ left = [r \in Request |-> Target[r]]
    /\ later = [r \in Request |-> {}]
    /\ calls = [r \in Request |-> << >>]

Walking(r) == stage[r] \in {"routing", "streaming"}

PassOver(r, p) ==
    /\ Walking(r) /\ p \in left[r]
    /\ left' = [left EXCEPT ![r] = @ \ {p}]
    /\ UNCHANGED <<stage, later, calls>>

Send(r, p) ==
    /\ Walking(r) /\ p \in left[r] \ Unfit[r] /\ \A q \in left[r] : p <= q
    /\ left' = [left EXCEPT ![r] = @ \ {p}]
    /\ later' = IF r \in Streaming /\ calls[r] = << >>
                  THEN [later EXCEPT ![r] = left[r] \ {p}] ELSE later
    /\ calls' = [calls EXCEPT ![r] = Append(@, p)]
    /\ UNCHANGED stage

\* A target has answered with a stream.
Stream(r) ==
    /\ stage[r] = "routing" /\ r \in Streaming /\ calls[r] # << >>
    /\ stage' = [stage EXCEPT ![r] = "streaming"]
    /\ left' = [left EXCEPT ![r] = later[r]]
    /\ later' = [later EXCEPT ![r] = {}]
    /\ UNCHANGED calls

Exhaust(r) ==
    /\ Walking(r) /\ left[r] = {}
    /\ stage' = [stage EXCEPT ![r] = "exhausted"]
    /\ later' = [later EXCEPT ![r] = {}]
    /\ UNCHANGED <<left, calls>>

Refuse(r) ==
    /\ stage[r] = "routing" /\ calls[r] = << >>
    /\ \E p \in left[r] \cap Unfit[r] : \A q \in left[r] : p <= q
    /\ stage' = [stage EXCEPT ![r] = "refused"]
    /\ left' = [left EXCEPT ![r] = {}]
    /\ later' = [later EXCEPT ![r] = {}]
    /\ UNCHANGED calls

\* It was answered, or its client is gone.
Finish(r) ==
    /\ Walking(r)
    /\ stage' = [stage EXCEPT ![r] = "over"]
    /\ left' = [left EXCEPT ![r] = {}]
    /\ later' = [later EXCEPT ![r] = {}]
    /\ UNCHANGED calls

Next ==
    \E r \in Request :
        \/ \E p \in left[r] : PassOver(r, p) \/ Send(r, p)
        \/ Stream(r) \/ Exhaust(r) \/ Refuse(r) \/ Finish(r)

Spec == Init /\ [][Next]_vars
=============================================================================
