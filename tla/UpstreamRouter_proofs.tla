---- MODULE UpstreamRouter_proofs ----
(* Proofs about UpstreamRouter, for every set of requests, every route and *)
(* every choice of streams and of requests that cannot be built.           *)
EXTENDS UpstreamRouter, FiniteSetTheorems, WellFoundedInduction, TLAPS

(* The positions a request need not come to any more. *)
Done(r) == {p \in Position(r) : p \in seen[r] \/ ~Builds(r, p) \/ WasTried(r, p)}

(* Where the positions of a route are while the request goes through it:   *)
(* still in the list at hand, or done.  The loop of the router works on    *)
(* rest, and leaves pool as the pump will find it.                         *)
Walk(r) ==
    /\ pc[r] = "checking" =>
          tried[r] = << >> /\ Position(r) \subseteq rest[r] \cup pool[r] \cup seen[r]
    /\ pc[r] = "ready" =>
          /\ tried[r] = << >> /\ target[r] \in Position(r) /\ Builds(r, target[r])
          /\ rest[r] = pool[r] /\ target[r] \notin pool[r]
          /\ \A p \in pool[r] : target[r] < p
          /\ Position(r) \subseteq pool[r] \cup seen[r] \cup {target[r]}
    /\ pc[r] \in Routing =>
          /\ target[r] \in Position(r) /\ tried[r] # << >>
          /\ Position(r) \subseteq rest[r] \cup Done(r)
          /\ Position(r) \subseteq pool[r] \cup Done(r)
          /\ \A p \in rest[r] : ~WasTried(r, p)
    /\ pc[r] \in Pumping =>
          r \in Streaming /\ tried[r] # << >> /\ Position(r) \subseteq pool[r] \cup Done(r)
    /\ pc[r] = "unbuilt" => tried[r] = << >> /\ PrimaryRefuses(r)
    /\ pc[r] \in Errors \ {"unbuilt"} => Position(r) \subseteq Done(r)

Ordered(r) == \A n \in DOMAIN tried[r] : \A p \in Position(r) :
    p < tried[r][n] =>
        \/ p \in seen[r] \/ ~Builds(r, p)
        \/ \E m \in DOMAIN tried[r] : m < n /\ tried[r][m] = p

Once(r) == r \notin Streaming => \A m, n \in DOMAIN tried[r] :
    tried[r][m] = tried[r][n] => m = n

RequestInv(r) == Walk(r) /\ Ordered(r) /\ Once(r)

RouterInv == TypeOK /\ \A r \in Request : RequestInv(r)

-----------------------------------------------------------------------------
(* A set of positions has a least one. *)
LEMMA FirstIsLeast ==
    ASSUME NEW r \in Request, NEW S \in SUBSET Position(r), S # {}
    PROVE  First(S) \in S /\ \A q \in S : First(S) <= q
<1> DEFINE Less == {ss \in Nat \X Nat : ss[1] < ss[2]}
<1>1. IsWellFoundedOn(Less, Nat)
  BY NatLessThanWellFounded DEF OpToRel
<1>2. S \subseteq Nat
  BY RouteAssumption DEF Position
<1>3. \A p, q \in Nat : <<q, p>> \in Less <=> q < p
  OBVIOUS
<1> HIDE DEF Less
<1>4. PICK p \in S : \A q \in S : <<q, p>> \notin Less
  BY <1>1, <1>2, WFMin
<1>5. \A q \in S : p <= q
  <2> SUFFICES ASSUME NEW q \in S
               PROVE  p <= q
    OBVIOUS
  <2>1. p \in Nat /\ q \in Nat /\ <<q, p>> \notin Less
    BY <1>2, <1>4
  <2> QED BY <2>1, <1>3
<1> QED BY <1>5 DEF First

LEMMA AppendFacts ==
    ASSUME NEW S, NEW s \in Seq(S), NEW e \in S
    PROVE  /\ Append(s, e) \in Seq(S)
           /\ DOMAIN Append(s, e) = DOMAIN s \cup {Len(s) + 1}
           /\ Append(s, e)[Len(s) + 1] = e
           /\ \A n \in DOMAIN s : Append(s, e)[n] = s[n] /\ n < Len(s) + 1 /\ n \in Nat
           /\ Len(s) + 1 \notin DOMAIN s /\ Len(s) \in Nat
OBVIOUS

(* A request whose state stays keeps its invariant. *)
LEMMA SameRequest ==
    ASSUME NEW q \in Request, RequestInv(q),
           pc'[q] = pc[q], rest'[q] = rest[q], pool'[q] = pool[q],
           target'[q] = target[q], tried'[q] = tried[q], seen'[q] = seen[q]
    PROVE  RequestInv(q)'
<1>1. Done(q)' = Done(q) /\ \A p \in Position(q) : WasTried(q, p)' <=> WasTried(q, p)
  BY DEF Done, WasTried
<1>2. Walk(q)'
  BY <1>1 DEF RequestInv, Walk, WasTried, PrimaryRefuses
<1>3. Ordered(q)' /\ Once(q)'
  BY DEF RequestInv, Ordered, Once
<1> QED BY <1>2, <1>3 DEF RequestInv

(* A request that was sent nowhere and saw at least as much. *)
LEMMA SeenGrows ==
    ASSUME NEW r \in Request, RequestInv(r),
           tried'[r] = tried[r], seen[r] \subseteq seen'[r]
    PROVE  Ordered(r)' /\ Once(r)' /\ Done(r) \subseteq Done(r)'
           /\ \A p \in Position(r) : WasTried(r, p)' <=> WasTried(r, p)
<1>1. Ordered(r)'
  BY DEF RequestInv, Ordered
<1>2. Once(r)'
  BY DEF RequestInv, Once
<1>3. Done(r) \subseteq Done(r)'
  BY DEF Done, WasTried
<1> QED BY <1>1, <1>2, <1>3 DEF WasTried

(* A request that is sent to p, when everything before p is done. *)
LEMMA Sent ==
    ASSUME NEW r \in Request, TypeOK, RequestInv(r), NEW p \in Position(r),
           tried'[r] = Append(tried[r], p), seen'[r] = seen[r],
           \A q \in Position(r) : q < p => q \in Done(r),
           r \notin Streaming => ~WasTried(r, p)
    PROVE  /\ Ordered(r)' /\ Once(r)' /\ tried'[r] # << >>
           /\ Done(r)' = Done(r) \cup {p}
           /\ \A q \in Position(r) : WasTried(r, q)' <=> (q = p \/ WasTried(r, q))
<1>1. tried[r] \in Seq(Position(r))
  BY DEF TypeOK
<1> DEFINE s == tried[r]
           L == Len(tried[r]) + 1
<1>2. /\ DOMAIN tried'[r] = DOMAIN s \cup {L} /\ tried'[r][L] = p
      /\ \A n \in DOMAIN s : tried'[r][n] = s[n] /\ n < L /\ n \in Nat
      /\ L \notin DOMAIN s /\ L \in Nat
  <2>1. /\ DOMAIN Append(s, p) = DOMAIN s \cup {Len(s) + 1}
        /\ Append(s, p)[Len(s) + 1] = p
        /\ \A n \in DOMAIN s : Append(s, p)[n] = s[n] /\ n < Len(s) + 1 /\ n \in Nat
        /\ Len(s) + 1 \notin DOMAIN s /\ Len(s) \in Nat
    BY <1>1, AppendFacts
  <2> QED BY <2>1
<1> HIDE DEF s, L
<1>3. \A q \in Position(r) : WasTried(r, q)' <=> (q = p \/ WasTried(r, q))
  BY <1>2 DEF WasTried, s
<1>4. Done(r)' = Done(r) \cup {p}
  BY <1>3 DEF Done
<1>5. Ordered(r)'
  <2> SUFFICES ASSUME NEW n \in DOMAIN tried'[r], NEW q \in Position(r), q < tried'[r][n]
               PROVE  \/ q \in seen'[r] \/ ~Builds(r, q)
                      \/ \E m \in DOMAIN tried'[r] : m < n /\ tried'[r][m] = q
    BY DEF Ordered
  <2>1. CASE n \in DOMAIN s
    <3>1. q < s[n]
      BY <2>1, <1>2
    <3>2. \/ q \in seen[r] \/ ~Builds(r, q)
          \/ \E m \in DOMAIN s : m < n /\ s[m] = q
      BY <2>1, <3>1 DEF RequestInv, Ordered, s
    <3> QED BY <3>2, <1>2
  <2>2. CASE n = L
    <3>1. q \in Done(r)
      BY <2>2, <1>2
    <3>2. \/ q \in seen[r] \/ ~Builds(r, q)
          \/ \E m \in DOMAIN s : s[m] = q
      BY <3>1 DEF Done, WasTried, s
    <3> QED BY <3>2, <2>2, <1>2
  <2> QED BY <2>1, <2>2, <1>2
<1>6. Once(r)'
  <2> SUFFICES ASSUME r \notin Streaming, NEW m \in DOMAIN tried'[r],
                      NEW n \in DOMAIN tried'[r], tried'[r][m] = tried'[r][n]
               PROVE  m = n
    BY DEF Once
  <2>1. \A k \in DOMAIN s : s[k] # p
    BY DEF WasTried, s
  <2>2. \A j, k \in DOMAIN s : s[j] = s[k] => j = k
    BY DEF RequestInv, Once, s
  <2> QED BY <2>1, <2>2, <1>2
<1>7. tried'[r] # << >>
  <2>1. L \in DOMAIN tried'[r]
    BY <1>2
  <2> QED BY <2>1
<1> QED BY <1>3, <1>4, <1>5, <1>6, <1>7

(* What holds of every request but r when a step is r's, and what is left  *)
(* to show of r.                                                           *)
LEMMA Lift ==
    ASSUME RouterInv, NEW r \in Request, TypeOK', RequestInv(r)',
           \A q \in Request \ {r} :
               /\ pc'[q] = pc[q] /\ rest'[q] = rest[q] /\ pool'[q] = pool[q]
               /\ target'[q] = target[q] /\ tried'[q] = tried[q] /\ seen'[q] = seen[q]
    PROVE  RouterInv'
<1>1. \A q \in Request \ {r} : RequestInv(q)'
  <2> SUFFICES ASSUME NEW q \in Request \ {r}
               PROVE  RequestInv(q)'
    OBVIOUS
  <2> QED BY SameRequest DEF RouterInv
<1> QED BY <1>1 DEF RouterInv

-----------------------------------------------------------------------------
LEMMA CheckKeeps ==
    ASSUME RouterInv, NEW r \in Request, Check(r)
    PROVE  RouterInv'
<1> DEFINE p == First(rest[r])
<1>1. TypeOK /\ RequestInv(r) /\ pc[r] = "checking" /\ rest[r] # {}
  BY DEF RouterInv, Check
<1>2. p \in rest[r] /\ p \in Position(r)
  BY <1>1, FirstIsLeast DEF TypeOK
<1>3. /\ rest' = [rest EXCEPT ![r] = @ \ {p}]
      /\ \/ seen' = [seen EXCEPT ![r] = @ \cup {p}] /\ pool' = pool
         \/ pool' = [pool EXCEPT ![r] = @ \cup {p}] /\ seen' = seen
      /\ UNCHANGED <<open, pc, target, status, tried, heard>>
  BY DEF Check
<1> HIDE DEF p
<1>4. TypeOK'
  BY <1>1, <1>2, <1>3 DEF TypeOK, Position
<1>5. /\ rest'[r] = rest[r] \ {p}
      /\ \/ seen'[r] = seen[r] \cup {p} /\ pool'[r] = pool[r]
         \/ pool'[r] = pool[r] \cup {p} /\ seen'[r] = seen[r]
  BY <1>1, <1>3 DEF TypeOK
<1>6. RequestInv(r)'
  <2>1. Ordered(r)' /\ Once(r)'
    BY <1>1, <1>3, <1>5, SeenGrows
  <2>2. tried[r] = << >> /\ Position(r) \subseteq rest[r] \cup pool[r] \cup seen[r]
    BY <1>1 DEF RequestInv, Walk
  <2>3. Walk(r)'
    BY <1>1, <1>3, <1>5, <2>2 DEF Walk, Routing, Pumping, Errors, Position
  <2> QED BY <2>1, <2>3 DEF RequestInv
<1>7. \A q \in Request \ {r} :
          /\ pc'[q] = pc[q] /\ rest'[q] = rest[q] /\ pool'[q] = pool[q]
          /\ target'[q] = target[q] /\ tried'[q] = tried[q] /\ seen'[q] = seen[q]
  BY <1>1, <1>3 DEF TypeOK
<1> QED BY <1>4, <1>6, <1>7, Lift

LEMMA PrepareKeeps ==
    ASSUME RouterInv, NEW r \in Request, Prepare(r)
    PROVE  RouterInv'
<1> DEFINE p == First(pool[r])
<1>1. TypeOK /\ RequestInv(r) /\ pc[r] = "checking" /\ rest[r] = {} /\ pool[r] # {}
      /\ Builds(r, p)
  BY DEF RouterInv, Prepare, Checked
<1>2. p \in pool[r] /\ p \in Position(r) /\ \A q \in pool[r] : p <= q
  BY <1>1, FirstIsLeast DEF TypeOK
<1>3. /\ target' = [target EXCEPT ![r] = p]
      /\ pool' = [pool EXCEPT ![r] = @ \ {p}]
      /\ rest' = [rest EXCEPT ![r] = pool[r] \ {p}]
      /\ pc' = [pc EXCEPT ![r] = "ready"]
      /\ UNCHANGED <<open, status, tried, seen, heard>>
  BY DEF Prepare
<1> HIDE DEF p
<1>4. TypeOK'
  BY <1>1, <1>2, <1>3, RouteAssumption DEF TypeOK, Position
<1>5. /\ target'[r] = p /\ pool'[r] = pool[r] \ {p} /\ rest'[r] = pool[r] \ {p}
      /\ pc'[r] = "ready" /\ tried'[r] = tried[r] /\ seen'[r] = seen[r]
  BY <1>1, <1>3 DEF TypeOK
<1>6. RequestInv(r)'
  <2>1. Ordered(r)' /\ Once(r)'
    BY <1>1, <1>5, SeenGrows
  <2>2. tried[r] = << >> /\ Position(r) \subseteq pool[r] \cup seen[r]
    BY <1>1 DEF RequestInv, Walk
  <2>3. \A q \in pool[r] \ {p} : p < q
    BY <1>1, <1>2, RouteAssumption DEF TypeOK, Position
  <2>4. Walk(r)'
    BY <1>1, <1>2, <1>5, <2>2, <2>3 DEF Walk, Routing, Pumping, Errors, Position, Builds
  <2> QED BY <2>1, <2>4 DEF RequestInv
<1>7. \A q \in Request \ {r} :
          /\ pc'[q] = pc[q] /\ rest'[q] = rest[q] /\ pool'[q] = pool[q]
          /\ target'[q] = target[q] /\ tried'[q] = tried[q] /\ seen'[q] = seen[q]
  BY <1>1, <1>3 DEF TypeOK
<1> QED BY <1>4, <1>6, <1>7, Lift

(* Steps that only move a request on; what its new place asks for is given *)
(* by its old one.                                                         *)
LEMMA MoveKeeps ==
    ASSUME RouterInv, NEW r \in Request, NEW v,
           pc' = [pc EXCEPT ![r] = v], UNCHANGED <<open, requestVars>>,
           v \in Ended \cup {"tripping", "next", "streaming", "failover", "stitching"},
           Walk(r)'
    PROVE  RouterInv'
<1>1. TypeOK /\ RequestInv(r)
  BY DEF RouterInv
<1>2. TypeOK'
  BY <1>1 DEF TypeOK, requestVars, Position
<1>3. RequestInv(r)'
  <2>1. Ordered(r)' /\ Once(r)'
    BY <1>1, SeenGrows DEF requestVars
  <2> QED BY <2>1 DEF RequestInv
<1>4. \A q \in Request \ {r} :
          /\ pc'[q] = pc[q] /\ rest'[q] = rest[q] /\ pool'[q] = pool[q]
          /\ target'[q] = target[q] /\ tried'[q] = tried[q] /\ seen'[q] = seen[q]
  BY <1>1 DEF TypeOK, requestVars
<1> QED BY <1>2, <1>3, <1>4, Lift

LEMMA EndKeeps ==
    ASSUME RouterInv, NEW r \in Request,
           \/ NoActiveKeys(r) \/ PrimaryUnbuildable(r) \/ GiveUp(r) \/ Drop(r)
           \/ Complete(r) \/ Leave(r) \/ Break(r) \/ Stitched(r) \/ StitchFails(r) \/ Abort(r)
    PROVE  RouterInv'
<1>1. PICK v : Ends(r, v) /\ v \in Ended \cup {"streaming", "failover"}
  BY DEF NoActiveKeys, PrimaryUnbuildable, GiveUp, Drop, Complete, Leave, Break,
      Stitched, StitchFails, Abort, Ended
<1>2. /\ pc' = [pc EXCEPT ![r] = v] /\ UNCHANGED <<open, requestVars>>
      /\ pc'[r] = v
  BY <1>1 DEF Ends, RouterInv, TypeOK
<1>3. Done(r)' = Done(r)
  BY <1>2 DEF Done, WasTried, requestVars
<1>4. Walk(r)'
  <2>1. Walk(r) /\ TypeOK
    BY DEF RouterInv, RequestInv
  <2>2. CASE NoActiveKeys(r)
    <3>1. pc'[r] = "noKeys" /\ Position(r) \subseteq seen[r]
      BY <2>1, <2>2 DEF NoActiveKeys, Checked, Ends, Walk, TypeOK
    <3>2. Position(r) \subseteq Done(r)
      BY <3>1 DEF Done
    <3> QED BY <3>1, <3>2, <1>3 DEF Walk, Routing, Pumping, Errors, Position
  <2>3. CASE GiveUp(r)
    <3>1. pc'[r] = "failed" /\ Position(r) \subseteq Done(r)
      BY <2>1, <2>3 DEF GiveUp, Ends, Walk, TypeOK, Routing
    <3> QED BY <3>1, <1>3 DEF Walk, Routing, Pumping, Errors, Position
  <2>4. CASE Abort(r)
    <3>1. pc'[r] = "aborted" /\ Position(r) \subseteq Done(r)
      BY <2>1, <2>4 DEF Abort, Ends, Walk, TypeOK, Pumping, Errors
    <3> QED BY <3>1, <1>3 DEF Walk, Routing, Pumping, Errors, Position
  <2>5. CASE Break(r) \/ Stitched(r) \/ StitchFails(r)
    <3>1. pc[r] \in Pumping /\ pc'[r] \in Pumping
      BY <2>1, <2>5 DEF Break, Stitched, StitchFails, Ends, TypeOK, Pumping, Errors
    <3>2. r \in Streaming /\ tried[r] # << >> /\ Position(r) \subseteq pool[r] \cup Done(r)
      BY <2>1, <3>1 DEF Walk
    <3> QED BY <3>1, <3>2, <1>2, <1>3 DEF Walk, Routing, Pumping, Errors, Position, requestVars
  <2>6. CASE Drop(r) \/ Complete(r) \/ Leave(r)
    <3>1. pc'[r] \in {"dropped", "complete", "left"}
      BY <2>1, <2>6 DEF Drop, Complete, Leave, Ends, TypeOK
    <3> QED BY <3>1 DEF Walk, Routing, Pumping, Errors
  <2>7. CASE PrimaryUnbuildable(r)
    <3> DEFINE p == First(pool[r])
    <3>1. /\ pc'[r] = "unbuilt" /\ tried'[r] = << >> /\ seen'[r] = seen[r]
          /\ pool[r] # {} /\ pool[r] \in SUBSET Position(r) /\ ~Builds(r, p)
          /\ Position(r) \subseteq pool[r] \cup seen[r]
      BY <2>1, <2>7 DEF PrimaryUnbuildable, Checked, Ends, Walk, TypeOK, requestVars
    <3>2. p \in pool[r] /\ \A q \in pool[r] : p <= q
      BY <3>1, FirstIsLeast
    <3> HIDE DEF p
    <3>3. \A q \in Position(r) : q < p => q \in seen[r]
      BY <3>1, <3>2 DEF Position
    <3>4. PrimaryRefuses(r)'
      BY <3>1, <3>2, <3>3 DEF PrimaryRefuses, Position, Builds
    <3> QED BY <3>1, <3>4 DEF Walk, Routing, Pumping, Errors
  <2> QED BY <2>2, <2>3, <2>4, <2>5, <2>6, <2>7
<1> QED BY <1>1, <1>2, <1>4, MoveKeeps

LEMMA DispatchKeeps ==
    ASSUME RouterInv, NEW r \in Request, Dispatch(r)
    PROVE  RouterInv'
<1> DEFINE p == target[r]
<1>1. TypeOK /\ RequestInv(r) /\ pc[r] = "ready"
  BY DEF RouterInv, Dispatch
<1>2. /\ tried[r] = << >> /\ p \in Position(r) /\ rest[r] = pool[r] /\ p \notin pool[r]
      /\ \A q \in pool[r] : p < q
      /\ Position(r) \subseteq pool[r] \cup seen[r] \cup {p}
  BY <1>1 DEF RequestInv, Walk
<1>3. /\ tried' = [tried EXCEPT ![r] = Append(tried[r], p)]
      /\ pc' = [pc EXCEPT ![r] = "waiting"]
      /\ UNCHANGED <<open, rest, pool, target, status, seen, heard>>
  BY DEF Dispatch
<1> HIDE DEF p
<1>4. Append(tried[r], p) \in Seq(Position(r))
      /\ DOMAIN tried[r] \subseteq DOMAIN Append(tried[r], p)
  BY <1>1, <1>2, AppendFacts DEF TypeOK
<1>5. TypeOK'
  BY <1>1, <1>3, <1>4 DEF TypeOK, Position
<1>6. pc'[r] = "waiting" /\ tried'[r] = Append(tried[r], p)
  BY <1>1, <1>3 DEF TypeOK
<1>7. \A q \in Position(r) : q < p => q \in Done(r)
  <2> SUFFICES ASSUME NEW q \in Position(r), q < p
               PROVE  q \in seen[r]
    BY DEF Done
  <2>1. q \in Nat /\ p \in Nat
    BY <1>2, RouteAssumption DEF Position
  <2>2. q # p /\ q \notin pool[r]
    BY <1>2, <2>1
  <2> QED BY <1>2, <2>2
<1>8. \A q \in Position(r) : ~WasTried(r, q)
  BY <1>2 DEF WasTried
<1>9. /\ Ordered(r)' /\ Once(r)' /\ tried'[r] # << >>
      /\ Done(r)' = Done(r) \cup {p}
      /\ \A q \in Position(r) : WasTried(r, q)' <=> (q = p \/ WasTried(r, q))
  BY <1>1, <1>2, <1>3, <1>6, <1>7, <1>8, Sent
<1>10. seen[r] \subseteq Done(r)
  BY <1>1 DEF Done, TypeOK
<1>11. pool[r] \subseteq Position(r)
  BY <1>1 DEF TypeOK
<1>12. Walk(r)'
  BY <1>2, <1>3, <1>6, <1>8, <1>9, <1>10, <1>11 DEF Walk, Routing, Pumping, Errors, Position, p
<1>13. \A q \in Request \ {r} :
          /\ pc'[q] = pc[q] /\ rest'[q] = rest[q] /\ pool'[q] = pool[q]
          /\ target'[q] = target[q] /\ tried'[q] = tried[q] /\ seen'[q] = seen[q]
  BY <1>1, <1>3 DEF TypeOK
<1>14. RequestInv(r)'
  BY <1>9, <1>12 DEF RequestInv
<1> QED BY <1>5, <1>13, <1>14, Lift

(* The router's reply steps. *)
LEMMA ReplyKeeps ==
    ASSUME RouterInv, NEW r \in Request,
           Fail(r) \/ Trip(r) \/ (\E s \in Status : Accept(r, s))
    PROVE  RouterInv'
<1>1. TypeOK /\ RequestInv(r) /\ pc[r] \in Routing
  BY DEF RouterInv, Fail, Trip, Accept, Routing
<1>2. UNCHANGED <<rest, pool, target, tried, seen, heard>>
  BY DEF Fail, Trip, Accept, requestVars
<1>3. Done(r)' = Done(r) /\ \A p \in Position(r) : WasTried(r, p)' <=> WasTried(r, p)
  BY <1>2 DEF Done, WasTried
<1>4. pc'[r] \in {"tripping", "next", "streaming", "answered"}
      /\ (pc'[r] = "streaming" => r \in Streaming)
      /\ \A q \in Request \ {r} : pc'[q] = pc[q]
  BY <1>1 DEF Fail, Trip, Accept, TypeOK
<1>5. Key(r, target[r]) \in Tenant \X Alias
  BY <1>1, RouteAssumption DEF Key, RequestInv, Walk, Position
<1>6. TypeOK'
  <2>1. open' \subseteq Tenant \X Alias
    BY <1>1, <1>5 DEF Fail, Trip, Accept, TypeOK
  <2>2. pc' \in [Request -> Ended \cup {"checking", "ready", "waiting", "tripping",
                                        "next", "streaming", "failover", "stitching"}]
    <3>1. \E v \in {"tripping", "next", "streaming", "answered"} : pc' = [pc EXCEPT ![r] = v]
      BY DEF Fail, Trip, Accept
    <3> QED BY <3>1, <1>1 DEF TypeOK, Ended
  <2>3. status' \in [Request -> Status \cup {"none"}]
    <3>1. status' = status \/ \E s \in Status : status' = [status EXCEPT ![r] = s]
      BY DEF Fail, Trip, Accept, requestVars
    <3> QED BY <3>1, <1>1 DEF TypeOK
  <2> QED BY <1>1, <1>2, <2>1, <2>2, <2>3 DEF TypeOK, Position
<1>7. Walk(r)'
  <2>1. /\ target[r] \in Position(r) /\ tried[r] # << >>
        /\ Position(r) \subseteq rest[r] \cup Done(r)
        /\ Position(r) \subseteq pool[r] \cup Done(r)
        /\ \A q \in rest[r] : ~WasTried(r, q)
        /\ rest[r] \subseteq Position(r)
    BY <1>1 DEF RequestInv, Walk, TypeOK
  <2> QED BY <2>1, <1>2, <1>3, <1>4 DEF Walk, Routing, Pumping, Errors, Position
<1>8. Ordered(r)' /\ Once(r)'
  BY <1>1, <1>2, SeenGrows
<1>9. RequestInv(r)'
  BY <1>7, <1>8 DEF RequestInv
<1> QED BY <1>2, <1>4, <1>6, <1>9, Lift

LEMMA SkipKeeps ==
    ASSUME RouterInv, NEW r \in Request, SkipOpen(r) \/ SkipUnbuildable(r)
    PROVE  RouterInv'
<1> DEFINE p == First(rest[r])
<1>1. TypeOK /\ RequestInv(r) /\ pc[r] = "next" /\ rest[r] # {}
  BY DEF RouterInv, SkipOpen, SkipUnbuildable, Candidate
<1>2. p \in rest[r] /\ p \in Position(r)
  BY <1>1, FirstIsLeast DEF TypeOK
<1>3. /\ rest' = [rest EXCEPT ![r] = @ \ {p}]
      /\ \/ seen' = [seen EXCEPT ![r] = @ \cup {p}]
         \/ seen' = seen /\ ~Builds(r, p)
      /\ UNCHANGED <<open, pc, pool, target, status, tried, heard>>
  BY DEF SkipOpen, SkipUnbuildable
<1> HIDE DEF p
<1>4. TypeOK'
  BY <1>1, <1>2, <1>3 DEF TypeOK, Position
<1>5. /\ rest'[r] = rest[r] \ {p} /\ seen[r] \subseteq seen'[r]
      /\ p \in seen'[r] \/ ~Builds(r, p)
  BY <1>1, <1>3 DEF TypeOK
<1>6. /\ Ordered(r)' /\ Once(r)' /\ Done(r) \subseteq Done(r)'
      /\ \A q \in Position(r) : WasTried(r, q)' <=> WasTried(r, q)
  BY <1>1, <1>3, <1>5, SeenGrows
<1>7. p \in Done(r)'
  BY <1>2, <1>5 DEF Done, Position
<1>8. Walk(r)'
  <2>1. /\ target[r] \in Position(r) /\ tried[r] # << >>
        /\ Position(r) \subseteq rest[r] \cup Done(r)
        /\ Position(r) \subseteq pool[r] \cup Done(r)
        /\ \A q \in rest[r] : ~WasTried(r, q)
    BY <1>1 DEF RequestInv, Walk, Routing
  <2>2. rest[r] \subseteq Position(r)
    BY <1>1 DEF TypeOK
  <2> QED BY <1>1, <1>3, <1>5, <1>6, <1>7, <2>1, <2>2 DEF Walk, Routing, Pumping, Errors, Position
<1>10. \A q \in Request \ {r} :
          /\ pc'[q] = pc[q] /\ rest'[q] = rest[q] /\ pool'[q] = pool[q]
          /\ target'[q] = target[q] /\ tried'[q] = tried[q] /\ seen'[q] = seen[q]
  BY <1>1, <1>3 DEF TypeOK
<1>11. RequestInv(r)'
  BY <1>6, <1>8 DEF RequestInv
<1> QED BY <1>4, <1>10, <1>11, Lift

LEMMA RetryKeeps ==
    ASSUME RouterInv, NEW r \in Request, Retry(r)
    PROVE  RouterInv'
<1> DEFINE p == First(rest[r])
<1>1. TypeOK /\ RequestInv(r) /\ pc[r] = "next" /\ rest[r] # {}
  BY DEF RouterInv, Retry, Candidate
<1>2. p \in rest[r] /\ p \in Position(r) /\ \A q \in rest[r] : p <= q
  BY <1>1, FirstIsLeast DEF TypeOK
<1>3. /\ rest' = [rest EXCEPT ![r] = @ \ {p}]
      /\ target' = [target EXCEPT ![r] = p]
      /\ tried' = [tried EXCEPT ![r] = Append(tried[r], p)]
      /\ pc' = [pc EXCEPT ![r] = "waiting"]
      /\ UNCHANGED <<open, pool, status, seen, heard>>
  BY DEF Retry
<1> HIDE DEF p
<1>4. Append(tried[r], p) \in Seq(Position(r))
      /\ DOMAIN tried[r] \subseteq DOMAIN Append(tried[r], p)
  BY <1>1, <1>2, AppendFacts DEF TypeOK
<1>5. TypeOK'
  <2>1. p \in Nat
    BY <1>2, RouteAssumption DEF Position
  <2>2. target' \in [Request -> Nat] /\ target'[r] \in Position(r)
        /\ \A q \in Request : q # r => target'[q] = target[q]
    BY <1>1, <1>2, <1>3, <2>1 DEF TypeOK
  <2>3. \A q \in Request : /\ rest'[q] \subseteq Position(q)
                            /\ tried'[q] \in Seq(Position(q))
                            /\ DOMAIN tried[q] \subseteq DOMAIN tried'[q]
    BY <1>1, <1>3, <1>4 DEF TypeOK
  <2>4. DOMAIN rest' = Request /\ DOMAIN tried' = Request
        /\ pc' \in [Request -> Ended \cup {"checking", "ready", "waiting", "tripping",
                                            "next", "streaming", "failover", "stitching"}]
    BY <1>1, <1>3 DEF TypeOK
  <2> QED BY <1>1, <1>3, <2>2, <2>3, <2>4 DEF TypeOK, Position
<1>6. /\ pc'[r] = "waiting" /\ tried'[r] = Append(tried[r], p)
      /\ target'[r] = p /\ rest'[r] = rest[r] \ {p}
  BY <1>1, <1>3 DEF TypeOK
<1>7. /\ Position(r) \subseteq rest[r] \cup Done(r)
      /\ Position(r) \subseteq pool[r] \cup Done(r)
      /\ \A q \in rest[r] : ~WasTried(r, q)
  BY <1>1 DEF RequestInv, Walk, Routing
<1>8. \A q \in Position(r) : q < p => q \in Done(r)
  <2> SUFFICES ASSUME NEW q \in Position(r), q < p
               PROVE  q \notin rest[r]
    BY <1>7
  <2>1. q \in Nat /\ p \in Nat
    BY <1>2, RouteAssumption DEF Position
  <2> QED BY <1>2, <2>1
<1>9. /\ Ordered(r)' /\ Once(r)' /\ tried'[r] # << >>
      /\ Done(r)' = Done(r) \cup {p}
      /\ \A q \in Position(r) : WasTried(r, q)' <=> (q = p \/ WasTried(r, q))
  BY <1>1, <1>2, <1>3, <1>6, <1>7, <1>8, Sent
<1>10. rest[r] \subseteq Position(r)
  BY <1>1 DEF TypeOK
<1>11. Walk(r)'
  BY <1>2, <1>3, <1>6, <1>7, <1>9, <1>10 DEF Walk, Routing, Pumping, Errors, Position
<1>13. \A q \in Request \ {r} :
          /\ pc'[q] = pc[q] /\ rest'[q] = rest[q] /\ pool'[q] = pool[q]
          /\ target'[q] = target[q] /\ tried'[q] = tried[q] /\ seen'[q] = seen[q]
  BY <1>1, <1>3 DEF TypeOK
<1>14. RequestInv(r)'
  BY <1>9, <1>11 DEF RequestInv
<1> QED BY <1>5, <1>13, <1>14, Lift

-----------------------------------------------------------------------------
LEMMA RelayKeeps ==
    ASSUME RouterInv, NEW r \in Request, Relay(r)
    PROVE  RouterInv'
<1>1. /\ heard' = [heard EXCEPT ![r] = @ \cup {Len(tried[r])}]
      /\ UNCHANGED <<open, pc, rest, pool, target, status, tried, seen>>
      /\ TypeOK /\ RequestInv(r) /\ pc[r] = "streaming"
  BY DEF Relay, RouterInv
<1>2. Len(tried[r]) \in DOMAIN tried[r]
  <2>1. tried[r] \in Seq(Position(r)) /\ tried[r] # << >>
    BY <1>1 DEF TypeOK, RequestInv, Walk, Pumping, Errors
  <2> QED BY <2>1
<1>3. TypeOK'
  BY <1>1, <1>2 DEF TypeOK, Position
<1>4. \A q \in Request : RequestInv(q)'
  <2> SUFFICES ASSUME NEW q \in Request
               PROVE  RequestInv(q)'
    OBVIOUS
  <2> QED BY <1>1, SameRequest DEF RouterInv
<1> QED BY <1>1, <1>3, <1>4 DEF RouterInv

LEMMA StitchUnbuildableKeeps ==
    ASSUME RouterInv, NEW r \in Request, StitchUnbuildable(r)
    PROVE  RouterInv'
<1> DEFINE p == First(pool[r])
<1>1. TypeOK /\ RequestInv(r) /\ pc[r] = "failover" /\ pool[r] # {} /\ ~Builds(r, p)
  BY DEF RouterInv, StitchUnbuildable, Failover
<1>2. p \in pool[r] /\ p \in Position(r)
  BY <1>1, FirstIsLeast DEF TypeOK
<1>3. /\ pool' = [pool EXCEPT ![r] = @ \ {p}]
      /\ UNCHANGED <<open, pc, rest, target, status, tried, seen, heard>>
  BY DEF StitchUnbuildable
<1> HIDE DEF p
<1>4. TypeOK' /\ pool'[r] = pool[r] \ {p}
  BY <1>1, <1>2, <1>3 DEF TypeOK, Position
<1>5. /\ Ordered(r)' /\ Once(r)' /\ Done(r) \subseteq Done(r)'
      /\ \A q \in Position(r) : WasTried(r, q)' <=> WasTried(r, q)
  BY <1>1, <1>3, SeenGrows
<1>6. p \in Done(r)'
  BY <1>1, <1>2 DEF Done, Position, Builds
<1>7. r \in Streaming /\ tried[r] # << >> /\ Position(r) \subseteq pool[r] \cup Done(r)
  BY <1>1 DEF RequestInv, Walk, Pumping, Errors
<1>8. Walk(r)'
  BY <1>1, <1>3, <1>4, <1>5, <1>6, <1>7 DEF Walk, Routing, Pumping, Errors, Position
<1>9. \A q \in Request \ {r} :
          /\ pc'[q] = pc[q] /\ rest'[q] = rest[q] /\ pool'[q] = pool[q]
          /\ target'[q] = target[q] /\ tried'[q] = tried[q] /\ seen'[q] = seen[q]
  BY <1>1, <1>3 DEF TypeOK
<1>10. RequestInv(r)'
  BY <1>5, <1>8 DEF RequestInv
<1> QED BY <1>4, <1>9, <1>10, Lift

LEMMA StitchKeeps ==
    ASSUME RouterInv, NEW r \in Request, Stitch(r)
    PROVE  RouterInv'
<1> DEFINE p == First(pool[r])
<1>1. TypeOK /\ RequestInv(r) /\ pc[r] = "failover" /\ pool[r] # {}
  BY DEF RouterInv, Stitch, Failover
<1>2. p \in pool[r] /\ p \in Position(r) /\ \A q \in pool[r] : p <= q
  BY <1>1, FirstIsLeast DEF TypeOK
<1>3. /\ pool' = [pool EXCEPT ![r] = @ \ {p}]
      /\ target' = [target EXCEPT ![r] = p]
      /\ tried' = [tried EXCEPT ![r] = Append(tried[r], p)]
      /\ pc' = [pc EXCEPT ![r] = "stitching"]
      /\ UNCHANGED <<open, rest, status, seen, heard>>
  BY DEF Stitch
<1> HIDE DEF p
<1>4. Append(tried[r], p) \in Seq(Position(r))
      /\ DOMAIN tried[r] \subseteq DOMAIN Append(tried[r], p)
  BY <1>1, <1>2, AppendFacts DEF TypeOK
<1>5. TypeOK'
  <2>1. p \in Nat
    BY <1>2, RouteAssumption DEF Position
  <2>2. target' \in [Request -> Nat] /\ target'[r] \in Position(r)
        /\ \A q \in Request : q # r => target'[q] = target[q]
    BY <1>1, <1>2, <1>3, <2>1 DEF TypeOK
  <2>3. \A q \in Request : /\ pool'[q] \subseteq Position(q)
                            /\ tried'[q] \in Seq(Position(q))
                            /\ DOMAIN tried[q] \subseteq DOMAIN tried'[q]
    BY <1>1, <1>3, <1>4 DEF TypeOK
  <2>4. DOMAIN pool' = Request /\ DOMAIN tried' = Request
        /\ pc' \in [Request -> Ended \cup {"checking", "ready", "waiting", "tripping",
                                            "next", "streaming", "failover", "stitching"}]
    BY <1>1, <1>3 DEF TypeOK
  <2> QED BY <1>1, <1>3, <2>2, <2>3, <2>4 DEF TypeOK, Position
<1>6. /\ pc'[r] = "stitching" /\ tried'[r] = Append(tried[r], p)
      /\ pool'[r] = pool[r] \ {p} /\ pool[r] \subseteq Position(r)
  BY <1>1, <1>3 DEF TypeOK
<1>7. r \in Streaming /\ Position(r) \subseteq pool[r] \cup Done(r)
  BY <1>1 DEF RequestInv, Walk, Pumping, Errors
<1>8. \A q \in Position(r) : q < p => q \in Done(r)
  <2> SUFFICES ASSUME NEW q \in Position(r), q < p
               PROVE  q \notin pool[r]
    BY <1>7
  <2>1. q \in Nat /\ p \in Nat
    BY <1>2, RouteAssumption DEF Position
  <2> QED BY <1>2, <2>1
<1>9. /\ Ordered(r)' /\ Once(r)' /\ tried'[r] # << >>
      /\ Done(r)' = Done(r) \cup {p}
  BY <1>1, <1>2, <1>3, <1>6, <1>7, <1>8, Sent
<1>10. Walk(r)'
  BY <1>6, <1>7, <1>9 DEF Walk, Routing, Pumping, Errors, Position
<1>12. \A q \in Request \ {r} :
          /\ pc'[q] = pc[q] /\ rest'[q] = rest[q] /\ pool'[q] = pool[q]
          /\ target'[q] = target[q] /\ tried'[q] = tried[q] /\ seen'[q] = seen[q]
  BY <1>1, <1>3 DEF TypeOK
<1>13. RequestInv(r)'
  BY <1>9, <1>10 DEF RequestInv
<1> QED BY <1>5, <1>12, <1>13, Lift

-----------------------------------------------------------------------------
LEMMA InitHolds == Init => RouterInv
<1> SUFFICES ASSUME Init
             PROVE  RouterInv
  OBVIOUS
<1>1. TypeOK
  BY RouteAssumption DEF Init, TypeOK, Ended, Status, Position
<1>2. \A r \in Request : RequestInv(r)
  BY DEF Init, RequestInv, Walk, Ordered, Once, Routing, Pumping, Errors
<1> QED BY <1>1, <1>2 DEF Init, RouterInv

LEMMA StepKeeps == RouterInv /\ [Next]_vars => RouterInv'
<1> SUFFICES ASSUME RouterInv, [Next]_vars
             PROVE  RouterInv'
  OBVIOUS
<1>1. CASE \E r \in Request : Prep(r)
  BY <1>1, CheckKeeps, PrepareKeeps, EndKeeps DEF Prep
<1>2. CASE \E r \in Request : Execute(r)
  BY <1>2, DispatchKeeps, ReplyKeeps, SkipKeeps, RetryKeeps, EndKeeps DEF Execute
<1>3. CASE \E r \in Request : Pump(r)
  BY <1>3, StitchUnbuildableKeeps, StitchKeeps, EndKeeps DEF Pump
<1>4. CASE \E r \in Request : Relay(r) \/ Leave(r) \/ Drop(r)
  BY <1>4, RelayKeeps, EndKeeps
<1>5. CASE \E k \in open : Expire(k)
  <2>1. UNCHANGED <<pc, requestVars>> /\ open' \subseteq open
    BY <1>5 DEF Expire
  <2>2. TypeOK'
    BY <2>1 DEF RouterInv, TypeOK, requestVars, Position
  <2>3. \A q \in Request : RequestInv(q)'
    <3> SUFFICES ASSUME NEW q \in Request
                 PROVE  RequestInv(q)'
      OBVIOUS
    <3> QED BY <2>1, SameRequest DEF RouterInv, requestVars
  <2> QED BY <2>2, <2>3 DEF RouterInv
<1>6. CASE UNCHANGED vars
  <2>1. TypeOK'
    BY <1>6 DEF RouterInv, TypeOK, vars, requestVars, Position
  <2>2. \A q \in Request : RequestInv(q)'
    <3> SUFFICES ASSUME NEW q \in Request
                 PROVE  RequestInv(q)'
      OBVIOUS
    <3> QED BY <1>6, SameRequest DEF RouterInv, vars, requestVars
  <2> QED BY <2>1, <2>2 DEF RouterInv
<1> QED BY <1>1, <1>2, <1>3, <1>4, <1>5, <1>6 DEF Next

LEMMA RouterInvHolds == Spec => []RouterInv
BY InitHolds, StepKeeps, PTL DEF Spec

(* For every route and every interleaving a request goes through its       *)
(* targets in order of priority.                                           *)
THEOREM PrioritiesAreKept == Spec => []InOrder
<1>1. RouterInv => InOrder
  BY DEF RouterInv, RequestInv, Ordered, InOrder
<1> QED BY <1>1, RouterInvHolds, PTL

(* For every route and every interleaving a request that is not a stream   *)
(* is sent to no target twice, breakers expiring as they may.              *)
THEOREM TargetsAreTriedOnce == Spec => []TriedOnce
<1>1. RouterInv => TriedOnce
  BY DEF RouterInv, RequestInv, Once, TriedOnce
<1> QED BY <1>1, RouterInvHolds, PTL

(* No request, stream or not, that was sent somewhere is given up while a  *)
(* target is left that was neither open, nor impossible to build for, nor  *)
(* tried; one that was not is given up so only when the first target it    *)
(* did not find open has no request built for it.                          *)
THEOREM ErrorsAreEarned == Spec => []ErrorIsEarned
<1>1. RouterInv => ErrorIsEarned
  BY DEF RouterInv, RequestInv, Walk, Done, Errors, ErrorIsEarned, NowhereToGo
<1> QED BY <1>1, RouterInvHolds, PTL

(* Every list of targets, every record of calls and every breaker keeps    *)
(* its type, whatever is open when it is read.                             *)
THEOREM RouterTypes == Spec => []TypeOK
<1>1. RouterInv => TypeOK
  BY DEF RouterInv
<1> QED BY <1>1, RouterInvHolds, PTL

-----------------------------------------------------------------------------
Act(r) == Prep(r) \/ Execute(r) \/ Pump(r) \/ Relay(r) \/ Leave(r) \/ Drop(r)

Same(q) ==
    /\ pc'[q] = pc[q] /\ rest'[q] = rest[q] /\ pool'[q] = pool[q]
    /\ target'[q] = target[q] /\ tried'[q] = tried[q]

(* A step of one request leaves the others where they are.                 *)
LEMMA OthersStay ==
    ASSUME TypeOK, NEW r \in Request, Act(r), NEW q \in Request \ {r}
    PROVE  Same(q)
<1> USE DEF TypeOK, Same
<1>1. CASE Prep(r) \/ Leave(r) \/ Drop(r) \/ Relay(r)
  BY <1>1 DEF Prep, Check, NoActiveKeys, PrimaryUnbuildable, Prepare, Leave, Drop,
      Relay, Ends, requestVars
<1>2. CASE Execute(r)
  BY <1>2 DEF Execute, Dispatch, Accept, Fail, Trip, SkipOpen, SkipUnbuildable,
      Retry, GiveUp, Ends, requestVars
<1>3. CASE Pump(r)
  BY <1>3 DEF Pump, Complete, Break, StitchUnbuildable, Stitch, Stitched,
      StitchFails, Abort, Ends, requestVars
<1> QED  BY <1>1, <1>2, <1>3 DEF Act

(* Who may have opened a breaker: some call of the tenant under that key,  *)
(* one that was not the answer.  Once it is so of a call it stays so.      *)
Blamed(t, a) == \E q \in Request : \E n \in DOMAIN tried[q] :
    TenantOf[q] = t /\ Route[q][tried[q][n]] = a /\ Unanswered(q, n)

Evidence ==
    /\ \A t \in Tenant, a \in Alias : <<t, a>> \in open => Blamed(t, a)
    /\ \A r \in Request : \A p \in seen[r] : Blamed(TenantOf[r], Route[r][p])
    /\ \A r \in Request : pc[r] \in {"waiting", "tripping"} =>
          tried[r] # << >> /\ tried[r][Len(tried[r])] = target[r]

(* What a step can do to the calls of a request: leave them or add one, and *)
(* a call that was not the answer is not made the answer.                   *)
Grows(q) ==
    /\ \A n \in DOMAIN tried[q] :
          n \in DOMAIN tried'[q] /\ tried'[q][n] = tried[q][n]
    /\ \/ Len(tried'[q]) = Len(tried[q])
          /\ (pc[q] \in {"tripping", "next", "failed", "dropped"} =>
              pc'[q] \in {"tripping", "next", "failed", "dropped"})
       \/ Len(tried'[q]) = Len(tried[q]) + 1

LEMMA CallsGrow ==
    ASSUME RouterInv, [Next]_vars, NEW q \in Request
    PROVE  Grows(q)
<1>1. TypeOK /\ RequestInv(q) /\ tried[q] \in Seq(Position(q)) /\ rest[q] \in SUBSET Position(q)
      /\ pool[q] \in SUBSET Position(q)
  BY DEF RouterInv, TypeOK
<1>2. CASE tried'[q] = tried[q] /\ pc'[q] = pc[q]
  BY <1>2 DEF Grows
<1>3. ASSUME NEW p \in Position(q), tried'[q] = Append(tried[q], p)
      PROVE  Grows(q)
  BY <1>1, <1>3 DEF Grows
<1>4. CASE \E k \in open : Expire(k)
  BY <1>2, <1>4 DEF Expire, requestVars
<1>5. CASE UNCHANGED vars
  BY <1>2, <1>5 DEF vars, requestVars
<1>6. ASSUME NEW r \in Request, Act(r)
      PROVE  Grows(q)
  <2>1. CASE r # q
    BY <1>1, <1>2, <2>1, <1>6, OthersStay DEF Same
  <2>2. CASE Dispatch(q)
    <3>1. target[q] \in Position(q)
      BY <1>1, <2>2 DEF RequestInv, Walk, Dispatch
    <3> QED  BY <1>1, <1>3, <2>2, <3>1 DEF Dispatch, TypeOK
  <2>3. CASE Retry(q)
    <3>1. First(rest[q]) \in Position(q)
      BY <1>1, <2>3, FirstIsLeast DEF Retry, Candidate
    <3> QED  BY <1>1, <1>3, <2>3, <3>1 DEF Retry, TypeOK
  <2>4. CASE Stitch(q)
    <3>1. First(pool[q]) \in Position(q)
      BY <1>1, <2>4, FirstIsLeast DEF Stitch, Failover
    <3> QED  BY <1>1, <1>3, <2>4, <3>1 DEF Stitch, TypeOK
  <2>5. CASE Check(q) \/ Prepare(q) \/ SkipOpen(q) \/ SkipUnbuildable(q) \/ Relay(q)
             \/ StitchUnbuildable(q)
    <3>1. tried'[q] = tried[q]
          /\ (pc'[q] = pc[q] \/ pc[q] = "checking")
      BY <1>1, <2>5 DEF Check, Prepare, Checked, SkipOpen, SkipUnbuildable, Relay, StitchUnbuildable
    <3> QED  BY <3>1 DEF Grows
  <2>6. CASE (\E s \in Status : Accept(q, s)) \/ Fail(q) \/ Trip(q) \/ GiveUp(q) \/ Drop(q)
    <3>1. tried'[q] = tried[q]
          /\ (pc[q] \in {"checking", "ready", "waiting"} \/ pc'[q] \in {"next", "failed", "dropped"})
      BY <1>1, <2>6 DEF Accept, Fail, Trip, GiveUp, Drop, Ends, requestVars, TypeOK
    <3> QED  BY <3>1 DEF Grows
  <2>7. CASE NoActiveKeys(q) \/ PrimaryUnbuildable(q) \/ Complete(q) \/ Leave(q) \/ Break(q)
             \/ Stitched(q) \/ StitchFails(q) \/ Abort(q)
    <3>1. tried'[q] = tried[q] /\ pc[q] \notin {"tripping", "next", "failed", "dropped"}
      BY <1>1, <2>7 DEF NoActiveKeys, PrimaryUnbuildable, Complete, Leave, Break, Stitched,
          StitchFails, Abort, Ends, requestVars, Checked, Failover
    <3> QED  BY <3>1 DEF Grows
  <2> QED  BY <1>6, <2>1, <2>2, <2>3, <2>4, <2>5, <2>6, <2>7 DEF Act, Prep, Execute, Pump
<1> QED  BY <1>4, <1>5, <1>6 DEF Next, Act

LEMMA BlameStays ==
    ASSUME RouterInv, [Next]_vars, NEW t, NEW a, Blamed(t, a)
    PROVE  Blamed(t, a)'
<1>1. PICK q \in Request : \E n \in DOMAIN tried[q] :
          TenantOf[q] = t /\ Route[q][tried[q][n]] = a /\ Unanswered(q, n)
  BY DEF Blamed
<1>2. PICK n \in DOMAIN tried[q] :
          TenantOf[q] = t /\ Route[q][tried[q][n]] = a /\ Unanswered(q, n)
  BY <1>1
<1>3. Grows(q) /\ tried[q] \in Seq(Position(q))
  BY CallsGrow DEF RouterInv, TypeOK
<1>4. n \in DOMAIN tried'[q] /\ tried'[q][n] = tried[q][n]
  BY <1>3 DEF Grows
<1>5. n \in Nat /\ n <= Len(tried[q]) /\ Len(tried[q]) \in Nat
  BY <1>3
<1>6. Unanswered(q, n)'
  BY <1>2, <1>3, <1>5 DEF Unanswered, Grows
<1> QED  BY <1>2, <1>4, <1>6 DEF Blamed

LEMMA EvidenceKept == RouterInv /\ Evidence /\ [Next]_vars => Evidence'
<1> SUFFICES ASSUME RouterInv, Evidence, [Next]_vars
             PROVE  Evidence'
  OBVIOUS
<1> USE DEF Evidence
<1>1. TypeOK /\ \A r \in Request : RequestInv(r)
  BY DEF RouterInv
<1>2. \A t \in Tenant, a \in Alias : <<t, a>> \in open => Blamed(t, a)'
  BY BlameStays
<1>3. \A r \in Request : \A p \in seen[r] : Blamed(TenantOf[r], Route[r][p])'
  BY BlameStays
<1>4. ASSUME NEW r \in Request, Trip(r), NEW a, a = Route[r][target[r]]
      PROVE  Blamed(TenantOf[r], a)'
  <2>1. /\ pc[r] = "tripping" /\ tried[r] # << >> /\ tried[r][Len(tried[r])] = target[r]
        /\ tried[r] \in Seq(Position(r))
    BY <1>1, <1>4 DEF Trip, TypeOK
  <2>2. Len(tried[r]) \in DOMAIN tried[r]
    BY <2>1
  <2>3. Blamed(TenantOf[r], a)
    BY <1>4, <2>1, <2>2 DEF Blamed, Unanswered
  <2> QED  BY <2>3, BlameStays
<1>5. ASSUME NEW t \in Tenant, NEW a \in Alias, <<t, a>> \in open'
      PROVE  Blamed(t, a)'
  <2>1. CASE <<t, a>> \in open
    BY <1>2, <2>1
  <2>2. CASE <<t, a>> \notin open
    <3>1. PICK r \in Request : Trip(r)
      <4>1. CASE \E r \in Request : Prep(r) \/ Relay(r) \/ Leave(r) \/ Drop(r)
        BY <4>1, <1>5, <2>2 DEF Prep, Check, NoActiveKeys, PrimaryUnbuildable, Prepare, Leave,
            Drop, Relay, Ends
      <4>2. CASE \E r \in Request : Execute(r)
        BY <4>2, <1>5, <2>2 DEF Execute, Dispatch, Accept, Fail, SkipOpen, SkipUnbuildable,
            Retry, GiveUp, Ends
      <4>3. CASE \E r \in Request : Pump(r)
        BY <4>3, <1>5, <2>2 DEF Pump, Complete, Break, StitchUnbuildable, Stitch, Stitched,
            StitchFails, Abort, Ends
      <4>4. CASE (\E k \in open : Expire(k)) \/ UNCHANGED vars
        BY <4>4, <1>5, <2>2 DEF Expire, vars
      <4> QED  BY <4>1, <4>2, <4>3, <4>4 DEF Next
    <3>2. t = TenantOf[r] /\ a = Route[r][target[r]]
      BY <1>5, <2>2, <3>1 DEF Trip, Key
    <3> QED  BY <3>1, <3>2, <1>4
  <2> QED  BY <2>1, <2>2
<1>6. ASSUME NEW r \in Request, NEW p \in seen'[r]
      PROVE  Blamed(TenantOf[r], Route[r][p])'
  <2>1. CASE p \in seen[r]
    BY <1>3, <2>1
  <2>2. CASE p \notin seen[r]
    <3>1. CASE UNCHANGED seen
      BY <2>2, <3>1, <1>6
    <3>2. CASE \E q \in Request : Check(q) \/ SkipOpen(q)
      <4>1. PICK q \in Request : Check(q) \/ SkipOpen(q)
        BY <3>2
      <4>2. q = r /\ p = First(rest[r]) /\ Key(r, p) \in open /\ rest[r] # {}
        BY <4>1, <2>2, <1>1, <1>6 DEF Check, SkipOpen, Candidate, TypeOK
      <4>3. p \in Position(r)
        BY <4>2, <1>1, FirstIsLeast DEF TypeOK
      <4>4. TenantOf[r] \in Tenant /\ Route[r][p] \in Alias
        BY <4>3, RouteAssumption DEF Position
      <4> QED  BY <1>2, <4>2, <4>4 DEF Key
    <3>3. UNCHANGED seen \/ \E q \in Request : Check(q) \/ SkipOpen(q)
      <4>1. CASE \E q \in Request : Prep(q) \/ Relay(q) \/ Leave(q) \/ Drop(q)
        BY <4>1 DEF Prep, NoActiveKeys, PrimaryUnbuildable, Prepare, Leave,
            Drop, Relay, Ends, requestVars
      <4>2. CASE \E q \in Request : Execute(q)
        BY <4>2 DEF Execute, Dispatch, Accept, Fail, Trip, SkipUnbuildable,
            Retry, GiveUp, Ends, requestVars
      <4>3. CASE \E q \in Request : Pump(q)
        BY <4>3 DEF Pump, Complete, Break, StitchUnbuildable, Stitch, Stitched,
            StitchFails, Abort, Ends, requestVars
      <4>4. CASE (\E k \in open : Expire(k)) \/ UNCHANGED vars
        BY <4>4 DEF Expire, vars, requestVars
      <4> QED  BY <4>1, <4>2, <4>3, <4>4 DEF Next
    <3> QED  BY <3>1, <3>2, <3>3
  <2> QED  BY <2>1, <2>2
<1>7. ASSUME NEW r \in Request, pc'[r] \in {"waiting", "tripping"}
      PROVE  tried'[r] # << >> /\ tried'[r][Len(tried'[r])] = target'[r]
  <2>1. tried[r] \in Seq(Position(r)) /\ rest[r] \in SUBSET Position(r)
    BY <1>1 DEF TypeOK
  <2>2. ASSUME NEW p \in Position(r), tried'[r] = Append(tried[r], p), target'[r] = p
        PROVE  tried'[r] # << >> /\ tried'[r][Len(tried'[r])] = target'[r]
    <3>1. /\ DOMAIN tried'[r] = DOMAIN tried[r] \cup {Len(tried[r]) + 1}
          /\ tried'[r][Len(tried[r]) + 1] = p
      BY <2>1, <2>2, AppendFacts
    <3>2. Len(tried'[r]) = Len(tried[r]) + 1 /\ Len(tried[r]) \in Nat
      BY <2>1, <2>2
    <3> QED  BY <2>2, <3>1, <3>2
  <2>3. CASE Dispatch(r)
    <3>1. target[r] \in Position(r)
      BY <1>1, <2>3 DEF RequestInv, Walk, Dispatch
    <3> QED  BY <1>1, <2>2, <2>3, <3>1 DEF Dispatch, TypeOK
  <2>4. CASE Retry(r)
    <3>1. First(rest[r]) \in Position(r)
      BY <2>1, <2>4, FirstIsLeast DEF Retry, Candidate
    <3> QED  BY <1>1, <2>2, <2>4, <3>1 DEF Retry, TypeOK
  <2>5. CASE Fail(r)
    BY <1>1, <2>5 DEF Fail, requestVars
  <2>6. CASE UNCHANGED <<tried, target, pc>>
    BY <1>7, <2>6
  <2>7. ASSUME NEW q \in Request \ {r}, Act(q)
        PROVE  tried'[r] = tried[r] /\ target'[r] = target[r] /\ pc'[r] = pc[r]
    BY <1>1, <2>7, OthersStay DEF Same
  <2>8. ASSUME Act(r), ~Dispatch(r), ~Retry(r), ~Fail(r)
        PROVE  UNCHANGED <<tried, target, pc>>
    <3>1. CASE Prep(r) \/ Relay(r) \/ Leave(r) \/ Drop(r)
      BY <3>1, <1>1, <1>7 DEF Prep, Check, NoActiveKeys, PrimaryUnbuildable, Prepare, Leave,
          Drop, Relay, Ends, TypeOK
    <3>2. CASE Execute(r)
      BY <3>2, <2>8, <1>1, <1>7 DEF Execute, Accept, Trip, SkipOpen, SkipUnbuildable, Candidate,
          GiveUp, Ends, TypeOK
    <3>3. CASE Pump(r)
      BY <3>3, <1>1, <1>7 DEF Pump, Complete, Break, StitchUnbuildable, Stitch, Stitched,
          StitchFails, Abort, Ends, Failover, TypeOK
    <3> QED  BY <2>8, <3>1, <3>2, <3>3 DEF Act
  <2>9. CASE (\E k \in open : Expire(k)) \/ UNCHANGED vars
    BY <2>6, <2>9 DEF Expire, vars, requestVars
  <2>10. CASE \E q \in Request : Act(q)
    BY <1>7, <2>3, <2>4, <2>5, <2>6, <2>7, <2>8, <2>10
  <2> QED  BY <2>9, <2>10 DEF Next, Act
<1> QED  BY <1>5, <1>6, <1>7

(* For every number of tenants, keys and requests, whoever finds a target  *)
(* open has its own tenant's calls under that key to blame for it.         *)
THEOREM BreakersAreSeparate == Spec => []OpenIsEarned
<1>1. Init => Evidence
  BY DEF Init, Evidence
<1>2. Evidence => OpenIsEarned
  BY DEF Evidence, Blamed, OpenIsEarned
<1> QED  BY <1>1, <1>2, EvidenceKept, RouterInvHolds, PTL DEF Spec

-----------------------------------------------------------------------------
(* What a request may still cost: the calls made and the positions left to *)
(* the loop at hand are at most one per target in the router; the pump     *)
(* comes with one position less than the router has had, and each of its   *)
(* calls takes one from them.                                              *)
Cost(r) ==
    /\ r \notin Streaming => Len(tried[r]) <= Len(Route[r])
    /\ Len(Route[r]) > 0 => Len(tried[r]) <= 2 * Len(Route[r]) - 1
    /\ pc[r] = "ready" =>
          Cardinality(rest[r]) < Len(Route[r]) /\ Cardinality(pool[r]) < Len(Route[r])
    /\ pc[r] \in Routing =>
          /\ Len(tried[r]) + Cardinality(rest[r]) <= Len(Route[r])
          /\ Cardinality(pool[r]) < Len(Route[r])
    /\ pc[r] \in Pumping =>
          Len(tried[r]) + Cardinality(pool[r]) <= 2 * Len(Route[r]) - 1

CostInv == \A r \in Request : Cost(r)

LEMMA PositionsSize ==
    ASSUME NEW r \in Request
    PROVE  /\ IsFiniteSet(Position(r)) /\ Cardinality(Position(r)) = Len(Route[r])
           /\ Len(Route[r]) \in Nat
<1>1. Len(Route[r]) \in Nat
  BY RouteAssumption
<1>2. ASSUME NEW m \in Nat
      PROVE  IsFiniteSet(1..m) /\ Cardinality(1..m) = m
  <2>1. IsFiniteSet(1..m) /\ Cardinality(1..m) = IF 1 > m THEN 0 ELSE m - 1 + 1
    BY FS_Interval, 1 \in Int, m \in Int, Zenon
  <2> QED BY <2>1
<1> QED BY <1>1, <1>2 DEF Position

(* A set of positions, and what is left of it without its first.           *)
LEMMA Sizes ==
    ASSUME NEW r \in Request, NEW S \in SUBSET Position(r)
    PROVE  /\ Cardinality(S) \in Nat /\ Cardinality(S) <= Len(Route[r])
           /\ S # {} => /\ First(S) \in Position(r)
                        /\ Cardinality(S \ {First(S)}) = Cardinality(S) - 1
                        /\ Cardinality(S) > 0
<1>1. IsFiniteSet(Position(r)) /\ Cardinality(Position(r)) = Len(Route[r])
  BY PositionsSize
<1>2. IsFiniteSet(S) /\ Cardinality(S) <= Len(Route[r])
  BY <1>1, FS_Subset
<1>3. Cardinality(S) \in Nat
  BY <1>2, FS_CardinalityType
<1>4. ASSUME S # {}
      PROVE  /\ First(S) \in Position(r) /\ Cardinality(S) > 0
             /\ Cardinality(S \ {First(S)}) = Cardinality(S) - 1
  <2>1. First(S) \in S
    BY <1>4, FirstIsLeast
  <2>2. Cardinality(S) # 0
    BY <1>2, <1>4, FS_EmptySet
  <2>3. Cardinality(S \ {First(S)}) = Cardinality(S) - 1
    BY <2>1, <1>2, FS_RemoveElement, Zenon
  <2> QED BY <2>1, <2>2, <2>3, <1>3
<1> QED BY <1>2, <1>3, <1>4

(* The steps of one request: what each does to the number of calls and to  *)
(* the lists.                                                              *)
LEMMA CostStep ==
    ASSUME RouterInv, NEW r \in Request, Cost(r),
           Prep(r) \/ Execute(r) \/ Pump(r) \/ Relay(r) \/ Leave(r) \/ Drop(r)
    PROVE  Cost(r)'
<1> DEFINE n == Len(Route[r])
           L == Len(tried[r])
<1>1. TypeOK /\ RequestInv(r)
  BY DEF RouterInv
<1>2. /\ n \in Nat /\ tried[r] \in Seq(Position(r)) /\ L \in Nat
      /\ rest[r] \in SUBSET Position(r) /\ pool[r] \in SUBSET Position(r)
  BY <1>1, PositionsSize DEF TypeOK
<1>3. /\ Cardinality(rest[r]) \in Nat /\ Cardinality(pool[r]) \in Nat
      /\ Cardinality(pool[r]) <= n
      /\ rest[r] # {} => /\ Cardinality(rest[r] \ {First(rest[r])}) = Cardinality(rest[r]) - 1
                         /\ Cardinality(rest[r]) > 0
      /\ pool[r] # {} => /\ Cardinality(pool[r] \ {First(pool[r])}) = Cardinality(pool[r]) - 1
                         /\ Cardinality(pool[r]) > 0
  BY <1>2, Sizes
<1>4. ASSUME NEW p \in Position(r)
      PROVE  Len(Append(tried[r], p)) = L + 1
  BY <1>2
<1>5. pc[r] \in {"checking", "ready"} => tried[r] = << >>
  BY <1>1 DEF RequestInv, Walk
<1>6. CASE Check(r) \/ NoActiveKeys(r) \/ PrimaryUnbuildable(r) \/ GiveUp(r) \/ Drop(r)
           \/ Complete(r) \/ Leave(r) \/ Abort(r) \/ Relay(r)
  <2>1. /\ tried' = tried
        /\ \/ pc'[r] \notin {"ready"} \cup Routing \cup Pumping
           \/ pc' = pc /\ rest' = rest /\ pool' = pool
           \/ pc' = pc /\ pc[r] = "checking"
    <3>1. CASE Check(r)
      BY <3>1, <1>1 DEF Check
    <3>2. CASE Relay(r)
      BY <3>2, <1>1 DEF Relay
    <3>3. CASE ~Check(r) /\ ~Relay(r)
      <4>1. PICK v : Ends(r, v) /\ v \in {"noKeys", "unbuilt", "failed", "dropped", "complete",
                                          "left", "aborted"}
        BY <1>6, <3>3 DEF NoActiveKeys, PrimaryUnbuildable, GiveUp, Drop, Complete, Leave, Abort
      <4>2. tried' = tried /\ pc'[r] = v
        BY <4>1, <1>1 DEF Ends, requestVars, TypeOK
      <4> QED BY <4>1, <4>2 DEF Routing, Pumping
    <3> QED BY <3>1, <3>2, <3>3
  <2> QED BY <2>1 DEF Cost, Routing, Pumping
<1>7. CASE Prepare(r)
  <2>1. /\ pool[r] # {} /\ tried' = tried /\ pc'[r] = "ready"
        /\ pool'[r] = pool[r] \ {First(pool[r])} /\ rest'[r] = pool[r] \ {First(pool[r])}
    BY <1>7, <1>1 DEF Prepare, TypeOK
  <2> QED BY <2>1, <1>2, <1>3 DEF Cost, Routing, Pumping
<1>8. CASE Dispatch(r)
  <2>1. /\ pc[r] = "ready" /\ rest' = rest /\ pool' = pool /\ pc'[r] = "waiting"
        /\ tried'[r] = Append(tried[r], target[r]) /\ target[r] \in Position(r)
    BY <1>8, <1>1 DEF Dispatch, TypeOK, RequestInv, Walk
  <2>2. Len(tried'[r]) = 1
    BY <2>1, <1>4, <1>5
  <2> QED BY <2>1, <2>2, <1>2, <1>3 DEF Cost, Routing, Pumping
<1>9. CASE (\E s \in Status : Accept(r, s)) \/ Fail(r) \/ Trip(r)
  <2>1. /\ pc[r] \in Routing /\ rest' = rest /\ pool' = pool /\ tried' = tried
        /\ pc'[r] \in {"streaming", "answered", "tripping", "next"}
    BY <1>9, <1>1 DEF Accept, Fail, Trip, TypeOK, Routing, requestVars
  <2> QED BY <2>1, <1>2, <1>3 DEF Cost, Routing, Pumping
<1>10. CASE SkipOpen(r) \/ SkipUnbuildable(r)
  <2>1. /\ pc[r] = "next" /\ pc' = pc /\ rest[r] # {} /\ tried' = tried /\ pool' = pool
        /\ rest'[r] = rest[r] \ {First(rest[r])}
    BY <1>10, <1>1 DEF SkipOpen, SkipUnbuildable, Candidate, TypeOK
  <2>2. /\ Cardinality(rest'[r]) = Cardinality(rest[r]) - 1
        /\ Cardinality(pool'[r]) = Cardinality(pool[r]) /\ Len(tried'[r]) = L
    BY <2>1, <1>3
  <2> QED BY <2>1, <2>2, <1>2, <1>3 DEF Cost, Routing, Pumping
<1>11. CASE Retry(r)
  <2>1. /\ pc[r] = "next" /\ pc'[r] = "waiting" /\ rest[r] # {} /\ pool' = pool
        /\ rest'[r] = rest[r] \ {First(rest[r])}
        /\ tried'[r] = Append(tried[r], First(rest[r]))
    BY <1>11, <1>1 DEF Retry, Candidate, TypeOK
  <2>2. Len(tried'[r]) = L + 1
    BY <2>1, <1>2, <1>4, Sizes
  <2>3. /\ Cardinality(rest'[r]) = Cardinality(rest[r]) - 1
        /\ Cardinality(pool'[r]) = Cardinality(pool[r])
    BY <2>1, <1>3
  <2> QED BY <2>1, <2>2, <2>3, <1>2, <1>3 DEF Cost, Routing, Pumping
<1>12. CASE Break(r) \/ Stitched(r) \/ StitchFails(r)
  <2>1. /\ pc[r] \in Pumping /\ pc'[r] \in Pumping /\ pool' = pool /\ tried' = tried
    BY <1>12, <1>1 DEF Break, Stitched, StitchFails, Ends, requestVars, TypeOK, Pumping
  <2> QED BY <2>1 DEF Cost, Routing, Pumping
<1>13. CASE StitchUnbuildable(r)
  <2>1. /\ pc[r] = "failover" /\ pc' = pc /\ pool[r] # {} /\ tried' = tried
        /\ pool'[r] = pool[r] \ {First(pool[r])}
    BY <1>13, <1>1 DEF StitchUnbuildable, Failover, TypeOK
  <2> QED BY SMTT(30), <2>1, <1>2, <1>3 DEF Cost, Routing, Pumping
<1>14. CASE Stitch(r)
  <2>1. /\ pc[r] = "failover" /\ pc'[r] = "stitching" /\ pool[r] # {}
        /\ pool'[r] = pool[r] \ {First(pool[r])}
        /\ tried'[r] = Append(tried[r], First(pool[r]))
    BY <1>14, <1>1 DEF Stitch, Failover, TypeOK
  <2>2. Len(tried'[r]) = L + 1
    BY <2>1, <1>2, <1>4, Sizes
  <2>3. r \in Streaming
    BY <2>1, <1>1 DEF RequestInv, Walk, Pumping
  <2>4. Cardinality(pool'[r]) = Cardinality(pool[r]) - 1
    BY <2>1, <1>3
  <2> QED BY <2>1, <2>2, <2>3, <2>4, <1>2, <1>3 DEF Cost, Routing, Pumping
<1> QED
  BY <1>6, <1>7, <1>8, <1>9, <1>10, <1>11, <1>12, <1>13, <1>14 DEF Prep, Execute, Pump

(* The other requests keep what they have. *)
LEMMA CostKept == RouterInv /\ CostInv /\ [Next]_vars => CostInv'
<1> SUFFICES ASSUME RouterInv, CostInv, [Next]_vars, NEW q \in Request
             PROVE  Cost(q)'
  BY DEF CostInv
<1>1. TypeOK /\ Cost(q)
  BY DEF RouterInv, CostInv
<1>2. CASE pc'[q] = pc[q] /\ rest'[q] = rest[q] /\ pool'[q] = pool[q] /\ tried'[q] = tried[q]
  BY <1>1, <1>2 DEF Cost
<1>3. ASSUME NEW r \in Request \ {q},
             Prep(r) \/ Execute(r) \/ Pump(r) \/ Relay(r) \/ Leave(r) \/ Drop(r)
      PROVE  pc'[q] = pc[q] /\ rest'[q] = rest[q] /\ pool'[q] = pool[q] /\ tried'[q] = tried[q]
  <2>1. CASE Prep(r) \/ Leave(r) \/ Drop(r) \/ Relay(r)
    BY <2>1, <1>1 DEF Prep, Check, NoActiveKeys, PrimaryUnbuildable, Prepare, Leave, Drop,
        Relay, Ends, requestVars, TypeOK
  <2>2. CASE Execute(r)
    BY <2>2, <1>1 DEF Execute, Dispatch, Accept, Fail, Trip, SkipOpen, SkipUnbuildable,
        Retry, GiveUp, Ends, requestVars, TypeOK
  <2>3. CASE Pump(r)
    BY <2>3, <1>1 DEF Pump, Complete, Break, StitchUnbuildable, Stitch, Stitched,
        StitchFails, Abort, Ends, requestVars, TypeOK
  <2> QED BY <1>3, <2>1, <2>2, <2>3
<1>4. CASE \E k \in open : Expire(k)
  BY <1>4, <1>2 DEF Expire, requestVars
<1>5. CASE UNCHANGED vars
  BY <1>5, <1>2 DEF vars, requestVars
<1>6. ASSUME NEW r \in Request,
             Prep(r) \/ Execute(r) \/ Pump(r) \/ Relay(r) \/ Leave(r) \/ Drop(r)
      PROVE  Cost(q)'
  <2>1. CASE r = q
    BY <2>1, <1>1, <1>6, CostStep
  <2>2. CASE r # q
    BY <2>2, <1>6, <1>3, <1>2
  <2> QED BY <2>1, <2>2
<1> QED BY <1>4, <1>5, <1>6 DEF Next

(* However often streams break and breakers expire, a request is sent to   *)
(* no more than its targets, and a stream to twice as many less one.       *)
THEOREM CallsAreBounded == Spec => []AttemptsBounded
<1>1. Init => CostInv
  <2> SUFFICES ASSUME Init, NEW r \in Request
               PROVE  Cost(r)
    BY DEF CostInv
  <2>1. Len(Route[r]) \in Nat /\ tried[r] = << >> /\ pc[r] = "checking"
    BY PositionsSize DEF Init
  <2> QED BY <2>1 DEF Cost, Routing, Pumping
<1>2. CostInv => AttemptsBounded
  BY PositionsSize DEF CostInv, Cost, AttemptsBounded
<1> QED BY <1>1, <1>2, CostKept, RouterInvHolds, PTL DEF Spec

-----------------------------------------------------------------------------
(* The router and the stream failover implement RouteWalk. *)

(* What a step of r does to the walk is what it does to the walk of r.     *)
Moves(r, stage, left, later) ==
    /\ Stage' = [Stage EXCEPT ![r] = stage]
    /\ Left' = [Left EXCEPT ![r] = left]
    /\ Later' = [Later EXCEPT ![r] = later]

LEMMA OneMoves ==
    ASSUME TypeOK, NEW r \in Request, Act(r)
    PROVE  Moves(r, StageOf(r)', LeftOf(r)', LaterOf(r)')
<1>1. ASSUME NEW q \in Request \ {r}
      PROVE  StageOf(q)' = StageOf(q) /\ LeftOf(q)' = LeftOf(q) /\ LaterOf(q)' = LaterOf(q)
  <2>1. Same(q)
    BY OthersStay
  <2> QED  BY <2>1 DEF Same, StageOf, LeftOf, LaterOf
<1>2. Stage' = [Stage EXCEPT ![r] = StageOf(r)']
  BY <1>1 DEF Stage
<1>3. Left' = [Left EXCEPT ![r] = LeftOf(r)']
  BY <1>1 DEF Left
<1>4. Later' = [Later EXCEPT ![r] = LaterOf(r)']
  BY <1>1 DEF Later
<1> QED  BY <1>2, <1>3, <1>4 DEF Moves

LEMMA WalksAre ==
    ASSUME NEW r \in Request
    PROVE  Stage[r] = StageOf(r) /\ Left[r] = LeftOf(r) /\ Later[r] = LaterOf(r)
BY DEF Stage, Left, Later

WalkStays == UNCHANGED <<Stage, Left, Later, tried>>

(* The steps of a walk, in the terms of one request.                       *)
LEMMA Stays ==
    ASSUME TypeOK, NEW r \in Request, Act(r), tried' = tried,
           StageOf(r)' = StageOf(r), LeftOf(r)' = LeftOf(r), LaterOf(r)' = LaterOf(r)
    PROVE  WalkStays
<1>1. Moves(r, StageOf(r), LeftOf(r), LaterOf(r))
  BY OneMoves
<1>2. [Stage EXCEPT ![r] = StageOf(r)] = Stage
  BY DEF Stage
<1>3. [Left EXCEPT ![r] = LeftOf(r)] = Left
  BY DEF Left
<1>4. [Later EXCEPT ![r] = LaterOf(r)] = Later
  BY DEF Later
<1> QED  BY <1>1, <1>2, <1>3, <1>4 DEF Moves, WalkStays

LEMMA PassesOver ==
    ASSUME TypeOK, NEW r \in Request, Act(r), NEW p \in LeftOf(r), tried' = tried,
           StageOf(r) \in {"routing", "streaming"}, StageOf(r)' = StageOf(r),
           LeftOf(r)' = LeftOf(r) \ {p}, LaterOf(r)' = LaterOf(r)
    PROVE  Walker!Next
<1>1. Moves(r, StageOf(r), LeftOf(r) \ {p}, LaterOf(r))
  BY OneMoves
<1>2. [Stage EXCEPT ![r] = StageOf(r)] = Stage
  BY DEF Stage
<1>3. [Later EXCEPT ![r] = LaterOf(r)] = Later
  BY DEF Later
<1>4. Left' = [Left EXCEPT ![r] = Left[r] \ {p}] /\ Stage' = Stage /\ Later' = Later
  BY <1>1, <1>2, <1>3, WalksAre DEF Moves
<1>5. Walker!PassOver(r, p)
  BY <1>4, WalksAre DEF Walker!PassOver, Walker!Walking
<1>6. p \in Left[r]
  BY WalksAre
<1> QED  BY <1>5, <1>6 DEF Walker!Next

LEMMA Sends ==
    ASSUME TypeOK, NEW r \in Request, Act(r), NEW p \in LeftOf(r), Builds(r, p),
           \A q \in LeftOf(r) : p <= q, tried' = [tried EXCEPT ![r] = Append(tried[r], p)],
           StageOf(r) \in {"routing", "streaming"}, StageOf(r)' = StageOf(r),
           LeftOf(r)' = LeftOf(r) \ {p},
           LaterOf(r)' = IF r \in Streaming /\ tried[r] = << >>
                           THEN LeftOf(r) \ {p} ELSE LaterOf(r)
    PROVE  Walker!Next
<1>1. Moves(r, StageOf(r), LeftOf(r) \ {p}, LaterOf(r)')
  BY OneMoves
<1>2. [Stage EXCEPT ![r] = StageOf(r)] = Stage
  BY DEF Stage
<1>3. [Later EXCEPT ![r] = LaterOf(r)] = Later
  BY DEF Later
<1>4. Left' = [Left EXCEPT ![r] = Left[r] \ {p}] /\ Stage' = Stage
  BY <1>1, <1>2, WalksAre DEF Moves
<1>5. Later' = IF r \in Streaming /\ tried[r] = << >>
                 THEN [Later EXCEPT ![r] = Left[r] \ {p}] ELSE Later
  BY <1>1, <1>3, WalksAre DEF Moves
<1>6. Walker!Send(r, p)
  BY <1>4, <1>5, WalksAre DEF Walker!Send, Walker!Walking, Unfit
<1>7. p \in Left[r]
  BY WalksAre
<1> QED  BY <1>6, <1>7 DEF Walker!Next

LEMMA WalkEnds ==
    ASSUME TypeOK, NEW r \in Request, Act(r), tried' = tried,
           StageOf(r) \in {"routing", "streaming"}, LeftOf(r)' = {}, LaterOf(r)' = {},
           StageOf(r)' = "over" \/ (StageOf(r)' = "exhausted" /\ LeftOf(r) = {})
    PROVE  Walker!Next
<1>1. Moves(r, StageOf(r)', {}, {})
  BY OneMoves
<1>2. CASE StageOf(r)' = "over"
  <2>1. Walker!Finish(r)
    BY <1>1, <1>2, WalksAre DEF Moves, Walker!Finish, Walker!Walking
  <2> QED  BY <2>1 DEF Walker!Next
<1>3. CASE StageOf(r)' = "exhausted" /\ LeftOf(r) = {}
  <2>1. [Left EXCEPT ![r] = {}] = Left
    BY <1>3 DEF Left
  <2>2. Walker!Exhaust(r)
    BY <1>1, <1>3, <2>1, WalksAre DEF Moves, Walker!Exhaust, Walker!Walking
  <2> QED  BY <2>2 DEF Walker!Next
<1> QED  BY <1>2, <1>3

(* Before a target has answered.                                           *)
LEMMA PrepWalks ==
    ASSUME RouterInv, NEW r \in Request, Prep(r)
    PROVE  Walker!Next \/ WalkStays
<1>1. TypeOK /\ Act(r) /\ pc[r] = "checking"
  BY DEF RouterInv, Act, Prep, Check, NoActiveKeys, PrimaryUnbuildable, Prepare, Checked
<1>2. StageOf(r) = "routing" /\ LeftOf(r) = rest[r] \cup pool[r] /\ LaterOf(r) = {}
  BY <1>1 DEF StageOf, LeftOf, LaterOf, Routing, Pumping, Errors, Ended
<1>3. rest[r] \in SUBSET Position(r) /\ pool[r] \in SUBSET Position(r)
  BY <1>1 DEF TypeOK
<1>4. CASE Check(r)
  <2> DEFINE p == First(rest[r])
  <2>1. /\ rest[r] # {} /\ tried' = tried /\ pc' = pc /\ rest'[r] = rest[r] \ {p}
        /\ pool'[r] = pool[r] \/ pool'[r] = pool[r] \cup {p}
    BY <1>1, <1>4 DEF Check, TypeOK
  <2>2. p \in rest[r]
    BY <1>3, <2>1, FirstIsLeast
  <2> HIDE DEF p
  <2>3. /\ StageOf(r)' = StageOf(r) /\ LaterOf(r)' = LaterOf(r)
        /\ LeftOf(r)' = rest'[r] \cup pool'[r]
    BY <1>1, <1>2, <2>1 DEF StageOf, LeftOf, LaterOf, Routing, Pumping, Errors, Ended
  <2>4. CASE LeftOf(r)' = LeftOf(r)
    BY <1>1, <2>1, <2>3, <2>4, Stays
  <2>5. CASE LeftOf(r)' = LeftOf(r) \ {p}
    BY <1>1, <1>2, <2>1, <2>2, <2>3, <2>5, PassesOver
  <2> QED  BY <1>2, <2>1, <2>2, <2>3, <2>4, <2>5
<1>5. CASE NoActiveKeys(r)
  <2>1. tried' = tried /\ pc'[r] = "noKeys" /\ LeftOf(r) = {}
    BY <1>1, <1>2, <1>5 DEF NoActiveKeys, Checked, Ends, requestVars, TypeOK
  <2>2. LeftOf(r)' = {} /\ LaterOf(r)' = {} /\ StageOf(r)' = "exhausted"
    BY <2>1 DEF StageOf, LeftOf, LaterOf, Routing, Pumping, Errors, Ended
  <2> QED  BY <1>1, <1>2, <2>1, <2>2, WalkEnds
<1>7. CASE PrimaryUnbuildable(r)
  <2> DEFINE p == First(pool[r])
  <2>1. /\ tried' = tried /\ pc'[r] = "unbuilt" /\ LeftOf(r) = pool[r] /\ pool[r] # {}
        /\ ~Builds(r, p)
    BY <1>1, <1>2, <1>7 DEF PrimaryUnbuildable, Checked, Ends, requestVars, TypeOK
  <2>2. p \in pool[r] /\ \A q \in pool[r] : p <= q
    BY <1>3, <2>1, FirstIsLeast
  <2> HIDE DEF p
  <2>3. LeftOf(r)' = {} /\ LaterOf(r)' = {} /\ StageOf(r)' = "refused"
    BY <2>1 DEF StageOf, LeftOf, LaterOf, Routing, Pumping, Errors, Ended
  <2>4. Moves(r, "refused", {}, {})
    BY <1>1, <2>3, OneMoves
  <2>5. tried[r] = << >>
    BY <1>1 DEF RequestInv, RouterInv, Walk
  <2>6. p \in LeftOf(r) \cap Unfit[r] /\ \A q \in LeftOf(r) : p <= q
    BY <1>3, <2>1, <2>2 DEF Unfit
  <2>7. Walker!Refuse(r)
    BY <1>2, <2>1, <2>4, <2>5, <2>6, WalksAre DEF Moves, Walker!Refuse
  <2> QED  BY <2>7 DEF Walker!Next
<1>6. CASE Prepare(r)
  <2> DEFINE p == First(pool[r])
  <2>1. /\ rest[r] = {} /\ pool[r] # {} /\ tried' = tried /\ pc'[r] = "ready"
        /\ rest'[r] = pool[r] \ {p} /\ target'[r] = p
    BY <1>1, <1>6 DEF Prepare, Checked, TypeOK
  <2>2. p \in pool[r]
    BY <1>3, <2>1, FirstIsLeast
  <2> HIDE DEF p
  <2>3. /\ StageOf(r)' = StageOf(r) /\ LaterOf(r)' = LaterOf(r)
        /\ LeftOf(r)' = rest'[r] \cup {target'[r]}
    BY <1>2, <2>1 DEF StageOf, LeftOf, LaterOf, Routing, Pumping, Errors, Ended
  <2>4. LeftOf(r)' = LeftOf(r)
    BY <1>2, <2>1, <2>2, <2>3
  <2> QED  BY <1>1, <2>1, <2>3, <2>4, Stays
<1> QED  BY <1>4, <1>5, <1>6, <1>7 DEF Prep

LEMMA ExecuteWalks ==
    ASSUME RouterInv, NEW r \in Request, Execute(r)
    PROVE  Walker!Next \/ WalkStays
<1>1. TypeOK /\ Act(r) /\ RequestInv(r)
  BY DEF RouterInv, Act
<1>2. rest[r] \in SUBSET Position(r) /\ pool[r] \in SUBSET Position(r) /\ Position(r) \subseteq Nat
  BY <1>1 DEF TypeOK, Position
<1>3. pc[r] \in {"ready"} \cup Routing => StageOf(r) = "routing"
  BY DEF StageOf, Routing, Pumping, Errors, Ended
<1>4. /\ pc[r] \in Routing => LeftOf(r) = rest[r]
      /\ pc'[r] \in Routing => LeftOf(r)' = rest'[r]
  BY DEF LeftOf, Routing, Pumping, Errors, Ended
<1>5. CASE Dispatch(r)
  <2> DEFINE p == target[r]
  <2>1. /\ pc[r] = "ready" /\ pc'[r] = "waiting" /\ rest' = rest /\ pool' = pool
        /\ tried' = [tried EXCEPT ![r] = Append(tried[r], p)]
    BY <1>1, <1>5 DEF Dispatch, TypeOK
  <2>2. /\ tried[r] = << >> /\ p \in Position(r) /\ p \notin pool[r] /\ rest[r] = pool[r]
        /\ \A q \in pool[r] : p < q
    BY <1>1, <2>1 DEF RequestInv, Walk
  <2>8. Builds(r, p)
    BY <1>1, <2>1 DEF RequestInv, Walk
  <2> HIDE DEF p
  <2>3. LeftOf(r) = rest[r] \cup {p} /\ LaterOf(r) = {}
    BY <2>1 DEF LeftOf, LaterOf, Routing, p, Pumping, Errors, Ended
  <2>4. /\ StageOf(r)' = "routing" /\ LeftOf(r)' = rest[r]
        /\ LaterOf(r)' = IF r \in Streaming THEN pool[r] ELSE {}
    BY <2>1 DEF StageOf, LeftOf, LaterOf, Routing, Pumping, Errors, Ended
  <2>5. p \in LeftOf(r) /\ \A q \in LeftOf(r) : p <= q
    BY <1>2, <2>2, <2>3
  <2>6. LeftOf(r) \ {p} = rest[r]
    BY <2>2, <2>3
  <2>7. LaterOf(r)' = IF r \in Streaming /\ tried[r] = << >>
                        THEN LeftOf(r) \ {p} ELSE LaterOf(r)
    BY <2>2, <2>3, <2>4, <2>6
  <2> QED  BY <1>1, <1>3, <2>1, <2>4, <2>5, <2>6, <2>7, <2>8, Sends
<1>6. CASE \E s \in Status : Accept(r, s)
  <2>1. /\ pc[r] = "waiting" /\ tried' = tried /\ pool' = pool
        /\ pc'[r] = IF r \in Streaming THEN "streaming" ELSE "answered"
    BY <1>1, <1>6 DEF Accept, TypeOK
  <2>2. StageOf(r) = "routing" /\ tried[r] # << >>
    BY <1>1, <1>3, <2>1 DEF RequestInv, Walk, Routing
  <2>3. CASE r \in Streaming
    <3>1. /\ StageOf(r)' = "streaming" /\ LeftOf(r)' = pool[r] /\ LaterOf(r)' = {}
          /\ LaterOf(r) = pool[r]
      BY <2>1, <2>3 DEF StageOf, LeftOf, LaterOf, Routing, Pumping, Errors, Ended
    <3>2. Moves(r, "streaming", LaterOf(r), {})
      BY <1>1, <3>1, OneMoves
    <3>3. Walker!Stream(r)
      BY <2>1, <2>2, <2>3, <3>2, WalksAre DEF Moves, Walker!Stream
    <3> QED  BY <3>3 DEF Walker!Next
  <2>4. CASE r \notin Streaming
    <3>1. StageOf(r)' = "over" /\ LeftOf(r)' = {} /\ LaterOf(r)' = {}
      BY <2>1, <2>4 DEF StageOf, LeftOf, LaterOf, Routing, Pumping, Errors, Ended
    <3> QED  BY <1>1, <2>1, <2>2, <3>1, WalkEnds
  <2> QED  BY <2>3, <2>4
<1>7. CASE Fail(r) \/ Trip(r)
  <2>1. /\ pc[r] \in Routing /\ pc'[r] \in Routing /\ UNCHANGED <<rest, pool, tried>>
    BY <1>1, <1>7 DEF Fail, Trip, TypeOK, Routing, requestVars
  <2>2. StageOf(r)' = StageOf(r) /\ LaterOf(r)' = LaterOf(r)
    BY <2>1 DEF StageOf, LaterOf, Routing, Pumping, Errors, Ended
  <2> QED  BY <1>1, <1>4, <2>1, <2>2, Stays
<1>8. CASE SkipOpen(r) \/ SkipUnbuildable(r)
  <2> DEFINE p == First(rest[r])
  <2>1. /\ pc[r] = "next" /\ rest[r] # {} /\ UNCHANGED <<pc, pool, tried>>
        /\ rest'[r] = rest[r] \ {p}
    BY <1>1, <1>8 DEF SkipOpen, SkipUnbuildable, Candidate, TypeOK
  <2>2. p \in rest[r]
    BY <1>2, <2>1, FirstIsLeast
  <2> HIDE DEF p
  <2>3. pc[r] \in Routing /\ pc'[r] \in Routing
    BY <2>1 DEF Routing
  <2>4. StageOf(r)' = StageOf(r) /\ LaterOf(r)' = LaterOf(r)
    BY <2>1 DEF StageOf, LaterOf, Routing, Pumping, Errors, Ended
  <2>5. p \in LeftOf(r) /\ LeftOf(r)' = LeftOf(r) \ {p} /\ StageOf(r) = "routing"
    BY <1>3, <1>4, <2>1, <2>2, <2>3
  <2> QED  BY <1>1, <2>1, <2>4, <2>5, PassesOver
<1>9. CASE Retry(r)
  <2> DEFINE p == First(rest[r])
  <2>1. /\ pc[r] = "next" /\ pc'[r] = "waiting" /\ rest[r] # {} /\ pool' = pool
        /\ rest'[r] = rest[r] \ {p} /\ tried' = [tried EXCEPT ![r] = Append(tried[r], p)]
        /\ Builds(r, p)
    BY <1>1, <1>9 DEF Retry, Candidate, TypeOK
  <2>2. p \in rest[r] /\ \A q \in rest[r] : p <= q
    BY <1>2, <2>1, FirstIsLeast
  <2> HIDE DEF p
  <2>3. pc[r] \in Routing /\ pc'[r] \in Routing /\ tried[r] # << >>
    BY <1>1, <2>1 DEF Routing, RequestInv, Walk
  <2>4. StageOf(r)' = StageOf(r) /\ LaterOf(r)' = LaterOf(r)
    BY <2>1, <2>3 DEF StageOf, LaterOf, Routing, Pumping, Errors, Ended
  <2>5. /\ p \in LeftOf(r) /\ LeftOf(r)' = LeftOf(r) \ {p} /\ StageOf(r) = "routing"
        /\ \A q \in LeftOf(r) : p <= q
    BY <1>3, <1>4, <2>1, <2>2, <2>3
  <2> QED  BY <1>1, <2>1, <2>3, <2>4, <2>5, Sends
<1>10. CASE GiveUp(r)
  <2>1. pc[r] = "next" /\ rest[r] = {} /\ tried' = tried /\ pc'[r] = "failed"
    BY <1>1, <1>10 DEF GiveUp, Ends, requestVars, TypeOK
  <2>2. StageOf(r) = "routing" /\ LeftOf(r) = {}
    BY <1>3, <1>4, <2>1 DEF Routing
  <2>3. StageOf(r)' = "exhausted" /\ LeftOf(r)' = {} /\ LaterOf(r)' = {}
    BY <2>1 DEF StageOf, LeftOf, LaterOf, Routing, Pumping, Errors, Ended
  <2> QED  BY <1>1, <2>1, <2>2, <2>3, WalkEnds
<1> QED  BY <1>5, <1>6, <1>7, <1>8, <1>9, <1>10 DEF Execute

LEMMA PumpWalks ==
    ASSUME RouterInv, NEW r \in Request, Pump(r) \/ Relay(r) \/ Leave(r)
    PROVE  Walker!Next \/ WalkStays
<1>1. TypeOK /\ Act(r) /\ RequestInv(r)
  BY DEF RouterInv, Act
<1>2. pc[r] \in Pumping /\ tried[r] # << >>
  <2>1. pc[r] \in Pumping
    BY DEF Pump, Relay, Leave, Complete, Break, StitchUnbuildable, Stitch, Stitched,
        StitchFails, Abort, Failover, Pumping
  <2> QED  BY <1>1, <2>1 DEF RequestInv, Walk
<1>3. StageOf(r) = "streaming" /\ LeftOf(r) = pool[r] /\ LaterOf(r) = {}
  BY <1>2 DEF StageOf, LeftOf, LaterOf, Pumping, Routing, Errors, Ended
<1>4. pc'[r] \in Pumping => StageOf(r)' = "streaming" /\ LeftOf(r)' = pool'[r] /\ LaterOf(r)' = {}
  BY DEF StageOf, LeftOf, LaterOf, Pumping, Routing, Errors, Ended
<1>5. pool[r] \in SUBSET Position(r)
  BY <1>1 DEF TypeOK
<1>6. CASE Complete(r) \/ Leave(r) \/ Abort(r)
  <2>1. /\ tried' = tried
        /\ pc'[r] \in {"complete", "left"} \/ (pc'[r] = "aborted" /\ pool[r] = {})
    BY <1>1, <1>6 DEF Complete, Leave, Abort, Ends, requestVars, TypeOK
  <2>2. /\ LeftOf(r)' = {} /\ LaterOf(r)' = {}
        /\ StageOf(r)' = "over" \/ (StageOf(r)' = "exhausted" /\ pool[r] = {})
    BY <2>1 DEF StageOf, LeftOf, LaterOf, Routing, Pumping, Errors, Ended
  <2> QED  BY <1>1, <1>3, <2>1, <2>2, WalkEnds
<1>7. CASE Relay(r) \/ Break(r) \/ Stitched(r) \/ StitchFails(r)
  <2>1. pc'[r] \in Pumping /\ pool' = pool /\ tried' = tried
    BY <1>1, <1>2, <1>7 DEF Relay, Break, Stitched, StitchFails, Ends, requestVars, TypeOK, Pumping
  <2> QED  BY <1>1, <1>3, <1>4, <2>1, Stays
<1>8. CASE StitchUnbuildable(r)
  <2> DEFINE p == First(pool[r])
  <2>1. pool[r] # {} /\ pc' = pc /\ tried' = tried /\ pool'[r] = pool[r] \ {p}
    BY <1>1, <1>8 DEF StitchUnbuildable, Failover, TypeOK
  <2>2. p \in pool[r]
    BY <1>5, <2>1, FirstIsLeast
  <2> HIDE DEF p
  <2>3. p \in LeftOf(r) /\ StageOf(r) \in {"routing", "streaming"} /\ StageOf(r)' = StageOf(r)
        /\ LeftOf(r)' = LeftOf(r) \ {p} /\ LaterOf(r)' = LaterOf(r)
    BY <1>2, <1>3, <1>4, <2>1, <2>2
  <2> QED  BY <1>1, <2>1, <2>3, PassesOver
<1>9. CASE Stitch(r)
  <2> DEFINE p == First(pool[r])
  <2>1. /\ pool[r] # {} /\ pc'[r] = "stitching" /\ pool'[r] = pool[r] \ {p}
        /\ tried' = [tried EXCEPT ![r] = Append(tried[r], p)] /\ Builds(r, p)
    BY <1>1, <1>9 DEF Stitch, Failover, TypeOK
  <2>2. p \in pool[r] /\ \A q \in pool[r] : p <= q
    BY <1>5, <2>1, FirstIsLeast
  <2> HIDE DEF p
  <2>3. pc'[r] \in Pumping
    BY <2>1 DEF Pumping
  <2>4. /\ p \in LeftOf(r) /\ \A q \in LeftOf(r) : p <= q
        /\ StageOf(r) \in {"routing", "streaming"} /\ StageOf(r)' = StageOf(r)
        /\ LeftOf(r)' = LeftOf(r) \ {p} /\ LaterOf(r)' = LaterOf(r)
    BY <1>3, <1>4, <2>1, <2>2, <2>3
  <2> QED  BY <1>1, <1>2, <2>1, <2>4, Sends
<1> QED  BY <1>6, <1>7, <1>8, <1>9 DEF Pump

LEMMA DropWalks ==
    ASSUME RouterInv, NEW r \in Request, Drop(r)
    PROVE  Walker!Next
<1>1. TypeOK /\ Act(r)
  BY DEF RouterInv, Act
<1>2. pc[r] \in {"checking", "ready"} \cup Routing /\ tried' = tried /\ pc'[r] = "dropped"
  BY <1>1 DEF Drop, Ends, requestVars, TypeOK, Routing
<1>3. StageOf(r) = "routing"
  BY <1>2 DEF StageOf, Routing, Pumping, Errors, Ended
<1>4. StageOf(r)' = "over" /\ LeftOf(r)' = {} /\ LaterOf(r)' = {}
  BY <1>2 DEF StageOf, LeftOf, LaterOf, Routing, Pumping, Errors, Ended
<1> QED  BY <1>1, <1>2, <1>3, <1>4, WalkEnds

LEMMA StepWalks == RouterInv /\ [Next]_vars => [Walker!Next]_(Walker!vars)
<1> SUFFICES ASSUME RouterInv, [Next]_vars
             PROVE  Walker!Next \/ WalkStays
  BY DEF WalkStays, Walker!vars
<1>1. ASSUME NEW r \in Request, Act(r)
      PROVE  Walker!Next \/ WalkStays
  BY <1>1, PrepWalks, ExecuteWalks, PumpWalks, DropWalks DEF Act
<1>2. CASE UNCHANGED vars \/ \E k \in open : Expire(k)
  <2>1. UNCHANGED <<pc, rest, pool, target, tried>>
    BY <1>2 DEF vars, requestVars, Expire
  <2>2. \A r \in Request :
            StageOf(r)' = StageOf(r) /\ LeftOf(r)' = LeftOf(r) /\ LaterOf(r)' = LaterOf(r)
    BY <2>1 DEF StageOf, LeftOf, LaterOf, Routing, Pumping, Errors, Ended
  <2> QED  BY <2>1, <2>2 DEF WalkStays, Stage, Left, Later
<1> QED  BY <1>1, <1>2 DEF Next, Act

LEMMA InitWalks == Init => Walker!Init
<1> SUFFICES ASSUME Init
             PROVE  Walker!Init
  OBVIOUS
<1>1. ASSUME NEW r \in Request
      PROVE  StageOf(r) = "routing" /\ LeftOf(r) = Positions[r] /\ LaterOf(r) = {}
  <2>1. pc[r] = "checking" /\ rest[r] = Position(r) /\ pool[r] = {}
    BY DEF Init
  <2> QED  BY <2>1 DEF StageOf, LeftOf, LaterOf, Routing, Positions, Pumping, Errors, Ended
<1>2. tried = [r \in Request |-> << >>]
  BY DEF Init
<1> QED  BY <1>1, <1>2 DEF Walker!Init, Stage, Left, Later

(* For every set of requests, every route and every choice of streams,     *)
(* however requests interleave, breakers open and expire and streams       *)
(* break: the loop of the router over its targets and that of the stream   *)
(* failover over its list are, between them, a walk of the route.          *)
THEOREM RouterWalksItsRoute == Spec => WalksItsRoute
<1>1. WalksItsRoute <=> Walker!Init /\ [][Walker!Next]_(Walker!vars)
  BY DEF WalksItsRoute, Walker!Spec
<1> QED  BY <1>1, InitWalks, StepWalks, RouterInvHolds, PTL DEF Spec
====
