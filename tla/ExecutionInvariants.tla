-------------------------- MODULE ExecutionInvariants --------------------------
(***************************************************************************)
(* Inductive invariants of ExecutionService, behind the theorems of        *)
(* ExecutionService_proofs.                                                *)
(***************************************************************************)
EXTENDS ExecutionService

-------------------------------------------------------------------------------
(* Records never say more than the server or the reconciler said.  Holds    *)
(* under every fault.                                                      *)

Backed(e, k) ==
    /\ e.content => k \in Confirmed
    /\ e.state = "Succeeded" => e.content
    /\ e.state = "Failed" => k \in Rejected

\* A mark_* call about to write s on key k is entitled to.
Entitled(s, k) ==
    /\ s = "Succeeded" => k \in Confirmed
    /\ s = "Failed" => k \in Rejected

\* What backs a record is never taken back: a call spawns one attempt, which is
\* answered once, and asks the reconciler once.
AnsweredOnce ==
    \A c \in Caller :
        /\ pc[c] \in {"idle", "get", "put", "init", "reconcile", "spawn"}
              => tpc[c] = "none"
        /\ pc[c] \in {"markGet", "markPut"} /\ goal[c] # "Unknown"
              => tpc[c] = "none"
        /\ tpc[c] \in {"none", "start", "sent"} => reply[c] = "none"
        /\ pc[c] \in {"idle", "get", "put", "init", "reconcile"}
              => verdict[c] = "none"

\* Every record, also a stale copy that is still to be written back, and every
\* pending write is backed by an answer.
RecordsAreBacked ==
    /\ \A k \in Key : Backed(store[k], k)
    /\ \A c \in Caller :
          /\ Backed(saw[c], KeyOf[c])
          /\ Backed(tsaw[c], KeyOf[c])
          /\ Entitled(goal[c], KeyOf[c])
          /\ Entitled(tgoal[c], KeyOf[c])
          /\ answer[c] \in {"replayed", "reconciled", "ok"} => KeyOf[c] \in Confirmed

RecordsInv == AnsweredOnce /\ RecordsAreBacked

-------------------------------------------------------------------------------
(* One attempt at a time on a guarded key.  Holds when calls on a key come  *)
(* one after the other and nothing but detaching, soft errors and definite *)
(* answers of the reconciler happens.                                      *)

Serially == Faults \subseteq {"detach", "soft", "verdict"}

\* c's attempt may act on the target system, or has.
Active(c) == Attempting(c) \/ call[c] \in {"sent", "applied"}

Quiet(k) == \A c \in Caller : KeyOf[c] = k => ~Active(c)

\* c's handler is between its claim and the spawn of its attempt.
Dispatching(c) ==
    \/ pc[c] \in {"put", "init", "spawn"}
    \/ pc[c] \in {"markGet", "markPut"} /\ goal[c] = "Running"

OneHandler ==
    \A c \in Caller : \A d \in Peers(c) : Handling(c) /\ Handling(d) => c = d

OneActive ==
    \A c \in Caller : KeyOf[c] \in Guarded =>
        \A d \in Peers(c) : Active(c) /\ Active(d) => c = d

\* The steps of one call come in the order of the code.
CallOrder ==
    \A c \in Caller :
        /\ tpc[c] \in {"none", "start"} => call[c] = "unsent"
        /\ tpc[c] \in {"markGet", "markPut"}
              => /\ tgoal[c] \in {"Succeeded", "Failed", "Unknown"}
                 /\ tgoal[c] = "Failed" => call[c] = "refused"
        /\ pc[c] \in {"markGet", "markPut"}
              => goal[c] \in {"Running", "Succeeded", "Failed", "Unknown"}
        /\ c \in retry => KeyOf[c] \notin Guarded

\* What makes the service implement SingleEffect.
OneAtATime ==
    /\ OneActive
    /\ CallOrder
    /\ \A c \in Caller : KeyOf[c] \in Guarded /\ Dispatching(c) => Quiet(KeyOf[c])

\* Nobody else can touch the key of a call that is about to dispatch.
DispatchIsQuiet ==
    \A c \in Caller : KeyOf[c] \in Guarded =>
        LET e == store[KeyOf[c]] IN
        /\ Dispatching(c) => Quiet(KeyOf[c])
        /\ pc[c] \in {"markGet", "markPut"} /\ goal[c] = "Failed" => Quiet(KeyOf[c])
        /\ pc[c] = "init" => e.state = "Absent"
        /\ pc[c] \in {"markGet", "markPut"} /\ goal[c] = "Running"
              => e.state = "Claimed" /\ e.holder = c /\ e.version = ver[c]
        /\ pc[c] = "markPut" /\ goal[c] = "Running" => saw[c] = e
        /\ pc[c] = "spawn"
              => e.state = "Running" /\ e.holder = c /\ e.version = ver[c]

\* What the entry says of the attempts on its key.
EntryIsRight ==
    \A k \in Guarded :
        LET e == store[k] IN
        /\ e.state \in {"Absent", "Failed"} => Quiet(k)
        /\ e.state \in {"Claimed", "Running"}
              => /\ e.holder \in Caller
                 /\ KeyOf[e.holder] = k
                 /\ e.version = ver[e.holder]
        /\ e.state = "Claimed"
              => pc[e.holder] \in {"markGet", "markPut"} /\ goal[e.holder] = "Running"
        /\ e.state = "Running" => pc[e.holder] = "spawn" \/ Attempting(e.holder)

\* A lease outlives the call that wrote it.
LeaseOutlives ==
    /\ \A c \in lapsed : pc[c] \in {"done", "gone"} /\ ~Attempting(c)
    /\ \A k \in Key, c \in Caller : store[k].holder = c => pc[c] # "idle"
    /\ \A c, d \in Caller :
          saw[c].holder = d \/ tsaw[c].holder = d => pc[d] # "idle"

SerialInv ==
    /\ OneHandler
    /\ OneActive
    /\ CallOrder
    /\ DispatchIsQuiet
    /\ EntryIsRight
    /\ LeaseOutlives

-------------------------------------------------------------------------------
(* Versions only grow, under the same condition, so that every attempt on a *)
(* guarded key carries one of its own.                                     *)

\* No copy that is still to be written back carries an old version.
CopiesAreFresh ==
    \A c \in Caller : KeyOf[c] \in Guarded =>
        LET v == store[KeyOf[c]].version IN
        /\ pc[c] \in {"put", "markPut"} => saw[c].version = v
        /\ Attempting(c) => ver[c] = v
        /\ tpc[c] = "markPut" => tsaw[c].version = v

\* An attempt to come carries a version above those of the attempts so far.
VersionsGrow ==
    \A c \in Caller : KeyOf[c] \in Guarded =>
        /\ tpc[c] # "none" => ver[c] <= store[KeyOf[c]].version
        /\ store[KeyOf[c]].state = "Absent" => tpc[c] = "none"
        /\ \A d \in Peers(c) \ {c} :
              /\ Dispatching(c) /\ pc[c] \notin {"put", "init"} /\ tpc[d] # "none"
                    => ver[d] < ver[c]
              /\ tpc[c] # "none" /\ tpc[d] # "none" => ver[c] # ver[d]

VersionInv == CopiesAreFresh /\ VersionsGrow

-------------------------------------------------------------------------------
(* The same when a call may come while others on its key wait for their    *)
(* attempts, as long as the reconciler says nothing definite.  A handler   *)
(* that has waited can then write Unknown over the claim of a later call,  *)
(* with a copy and a version of before it.                                 *)

Staggered == Faults \subseteq {"inflight", "detach", "soft"}

Unspawned(c) == Handling(c) /\ tpc[c] = "none"

\* The handlers that have not spawned an attempt are one, and those that have
\* only ever write Unknown.
OneDispatcher ==
    \A c \in Caller :
        /\ \A d \in Peers(c) : Unspawned(c) /\ Unspawned(d) => c = d
        /\ pc[c] = "wait" => tpc[c] # "none"
        /\ pc[c] \in {"markGet", "markPut"}
              => \/ goal[c] = "Running" /\ tpc[c] = "none"
                 \/ goal[c] = "Unknown" /\ tpc[c] # "none"

\* c carries a version above those of all attempts before it on its key.
Newest(c) == \A d \in Peers(c) \ {c} : tpc[d] # "none" => ver[d] < ver[c]

\* What an attempt on c's key carries is at most v.
AtMostVersion(c, v) == \A d \in Peers(c) : tpc[d] # "none" => ver[d] <= v

\* The call about to dispatch: the key is quiet, its version is new, and the
\* entry is its claim, or Unknown under an older version.
DispatchesNewest(c) ==
    LET e == store[KeyOf[c]]
        own == e.holder = c /\ e.version = ver[c]
        overwritten == e.state = "Unknown" /\ e.version < ver[c] IN
    /\ Dispatching(c) => Quiet(KeyOf[c])
    /\ (Dispatching(c) /\ pc[c] \notin {"put", "init"}) \/ Attempting(c) => Newest(c)
    /\ pc[c] = "init" => e.state = "Absent"
    /\ pc[c] = "put" => /\ saw[c].state = "Failed" /\ e.state \in {"Failed", "Unknown"}
                        /\ AtMostVersion(c, saw[c].version)
    /\ pc[c] \in {"markGet", "markPut"} /\ goal[c] = "Running"
          => (e.state = "Claimed" /\ own) \/ overwritten
    /\ pc[c] = "markPut" /\ goal[c] = "Running"
          => saw[c].state = "Claimed" /\ saw[c].holder = c
    /\ pc[c] = "spawn" => (e.state = "Running" /\ own) \/ overwritten

DispatchIsNewest == \A c \in Caller : KeyOf[c] \in Guarded => DispatchesNewest(c)

\* A copy that a mark_* call writes back has the version of its attempt.
CopiesAreOwn ==
    \A c \in Caller : /\ pc[c] = "markPut" => saw[c].version = ver[c]
                      /\ tpc[c] = "markPut" => tsaw[c].version = ver[c]

\* What the entry says: who is at work, and which versions have been used.
EntryIsNewest ==
    /\ EntryIsRight
    /\ \A c \in Caller : KeyOf[c] \in Guarded =>
          LET e == store[KeyOf[c]] IN
          /\ e.state = "Absent" => tpc[c] = "none"
          /\ e.state = "Failed" => AtMostVersion(c, e.version)

ExclusiveVersions ==
    \A c \in Caller : KeyOf[c] \in Guarded =>
        \A d \in Peers(c) \ {c} : tpc[c] # "none" /\ tpc[d] # "none" => ver[c] # ver[d]

StaggeredInv ==
    /\ OneDispatcher
    /\ OneActive
    /\ CallOrder
    /\ DispatchIsNewest
    /\ CopiesAreOwn
    /\ EntryIsNewest
    /\ ExclusiveVersions
    /\ LeaseOutlives
===============================================================================
