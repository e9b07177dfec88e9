---------------------------- MODULE ExecutionStore ----------------------------
(***************************************************************************)
(* The entries of MokaExecutionStore (src/src/infrastructure/              *)
(* oss_adapters.rs) and what one store operation makes of an entry.        *)
(*                                                                         *)
(* The cache holds, per idempotency key, an OperationCacheEntry.  Four of  *)
(* its fields decide what the code does: the state, the version (the       *)
(* fence), lease_until, and whether result_content is set.  A lease is     *)
(* named by the call that wrote it, its holder, and which leases have run  *)
(* out is a set kept by the module that uses this one.  The texts, the     *)
(* latency, the timestamps and the attempt counter decide nothing and are  *)
(* left out.                                                               *)
(*                                                                         *)
(* Every operation of the store is cache.get(key).await, a decision, and   *)
(* cache.insert(key, modified copy).await.  Nothing makes the pair atomic, *)
(* so this module only says what the decision and the copy are; the module *)
(* ExecutionService takes the get and the insert as two steps.             *)
(***************************************************************************)
EXTENDS Naturals

CONSTANTS
    Caller,     \* the calls that claim keys
    Nobody      \* the holder of no lease

ASSUME NobodyAssumption == Nobody \notin Caller

\* ExecutionState, with "Absent" for a key the cache does not hold.  Pending
\* and Reconciling are declared in the source but no operation stores them.
State == {"Absent", "Claimed", "Running", "Succeeded", "Failed", "Unknown"}

Entry == [state : State, version : Nat, holder : Caller \cup {Nobody},
          content : BOOLEAN]

Absent ==
    [state |-> "Absent", version |-> 0, holder |-> Nobody, content |-> FALSE]

\* The entry create_or_claim hands to get_with when its get found nothing.
FirstEntry(c) ==
    [state |-> "Claimed", version |-> 1, holder |-> c, content |-> FALSE]

\* Mutants of Reclaimable: Unknown handled like Failed; an expired Claimed
\* entry handled like a live one.
ReclaimsUnknown(e, lapsed) ==
    \/ e.state \in {"Failed", "Unknown"}
    \/ e.state \in {"Claimed", "Running"} /\ e.holder \in lapsed
ReclaimsRunningOnly(e, lapsed) ==
    e.state = "Failed" \/ (e.state = "Running" /\ e.holder \in lapsed)

\* create_or_claim takes the entry over: its lease ran out, or it failed.
Reclaimable(e, lapsed) ==
    \/ e.state = "Failed"
    \/ e.state \in {"Claimed", "Running"} /\ e.holder \in lapsed

\* Mutant of Reclaimed: the version is not incremented.
ReclaimedInPlace(e, c) == [e EXCEPT !.state = "Claimed", !.holder = c]

Reclaimed(e, c) ==
    [state |-> "Claimed", version |-> e.version + 1, holder |-> c,
     content |-> e.content]

\* The fence of the mark_* operations: the entry exists and its version is
\* the caller's.  They do not look at its state.
Carries(e, v) == e.state # "Absent" /\ e.version = v

\* Mutant of Stamped: every mark_* stores its text as the result to replay.
StampedWithText(e, s) == [e EXCEPT !.state = s, !.content = TRUE]

\* The copy a mark_* operation inserts.  The lease and the version stay.
Stamped(e, s) ==
    [state |-> s, version |-> e.version, holder |-> e.holder,
     content |-> (e.content \/ s = "Succeeded")]

===============================================================================
