----------------------------- MODULE SingleEffect -----------------------------
(***************************************************************************)
(* What the execution layer promises of a mutating operation named by an   *)
(* idempotency key (README, "Downstream Responsibility"): one attempt at a *)
(* time may act on the target system, another may start only when it is    *)
(* certain that the one before did not and will not act, and once one has  *)
(* acted none follows.                                                     *)
(***************************************************************************)
CONSTANTS Operation, Worker

VARIABLES
    open,       \* open[o] : the attempts that may still act
    acted       \* acted[o] : the attempts that have acted

vars == <<open, acted>>

Init ==
    /\ open = [o \in Operation |-> {}]
    /\ acted = [o \in Operation |-> {}]

\* An attempt starts.
Begin(o, a) ==
    /\ open[o] = {} /\ acted[o] = {}
    /\ open' = [open EXCEPT ![o] = {a}]
    /\ UNCHANGED acted

\* It is certain that the attempt has not acted and will not.
Withdraw(o, a) ==
    /\ open[o] = {a}
    /\ open' = [open EXCEPT ![o] = {}]
    /\ UNCHANGED acted

\* The attempt acts.
TakeEffect(o, a) ==
    /\ open[o] = {a}
    /\ open' = [open EXCEPT ![o] = {}]
    /\ acted' = [acted EXCEPT ![o] = {a}]

Next ==
    \E o \in Operation, a \in Worker :
        Begin(o, a) \/ Withdraw(o, a) \/ TakeEffect(o, a)

Spec == Init /\ [][Next]_vars
===============================================================================
