---- MODULE AgentGuardian_proofs ----
(* Proofs about AgentGuardian, for every set of requests, sessions and     *)
(* signatures, every limit and every TTL, when a session has one request   *)
(* in flight at a time and the cache stays below its bound.                *)
EXTENDS AgentGuardian, FiniteSetTheorems, TLAPS

(* What is at rest: every recorded call was inserted no later than its     *)
(* entry's last write, and a live entry counts all the recent ones.        *)
LogInv ==
    /\ IsFiniteSet(letBy)
    /\ \A e \in letBy : e.time <= wrote[e.key]

CountInv == \A k \in Key : Live(k) => Cardinality(Recent(k)) <= count[k]

OneInFlight ==
    \A q, r \in Request :
        (SessionOf[q] = SessionOf[r] /\ InFlight(q) /\ InFlight(r)) => q = r

(* What is pending: the number to insert counts the recent calls as well.  *)
PendingInv ==
    \A r \in Request :
        /\ pc[r] = "stormPut" =>
              /\ Cardinality(Recent(StormKey(r))) + Len(CallsOf[r]) <= new[r]
              /\ new[r] <= MaxSession
        /\ pc[r] = "loopPut" =>
              /\ CallsOf[r][i[r]] \in Signature
              /\ Cardinality(Recent(LoopKey(r))) + 1 <= new[r]
              /\ new[r] <= MaxIdentical

GuardInv == TypeOK /\ LogInv /\ CountInv /\ OneInFlight /\ PendingInv

(* No call under an expired entry is recent, so what get returns counts    *)
(* the recent calls in any case.                                           *)
LEMMA GetCounts ==
    ASSUME GuardInv, NEW k \in Key
    PROVE  /\ Get(k) \in Nat
           /\ IsFiniteSet(Recent(k))
           /\ Cardinality(Recent(k)) \in Nat
           /\ Cardinality(Recent(k)) <= Get(k)
<1>1. IsFiniteSet(Recent(k))
  BY FS_Subset DEF GuardInv, LogInv, Recent
<1>2. Cardinality(Recent(k)) \in Nat
  BY <1>1, FS_CardinalityType
<1>3. Get(k) \in Nat
  BY DEF Get, GuardInv, TypeOK
<1>4. CASE Live(k)
  BY <1>1, <1>2, <1>3, <1>4 DEF Get, GuardInv, CountInv
<1>5. CASE ~Live(k)
  <2>1. Recent(k) = {}
    <3> SUFFICES ASSUME NEW e \in Recent(k)
                 PROVE  FALSE
      OBVIOUS
    <3>1. e \in letBy /\ e.key = k /\ now - e.time < TTL /\ e.time <= wrote[k]
      BY DEF Recent, GuardInv, LogInv
    <3>2. e.time \in Nat /\ wrote[k] \in Nat /\ now \in Nat /\ TTL \in Nat
      BY <3>1, GuardianAssumption DEF GuardInv, TypeOK
    <3> QED BY <3>1, <3>2, <1>5 DEF Live
  <2> QED BY <2>1, <1>1, <1>3, <1>5, FS_EmptySet DEF Get
<1> QED BY <1>1, <1>2, <1>3, <1>4, <1>5

LEMMA InitHolds == Init => GuardInv
<1> SUFFICES ASSUME Init
             PROVE  GuardInv
  OBVIOUS
<1>1. TypeOK
  BY GuardianAssumption DEF Init, TypeOK, Verdict, Limit
<1>2. LogInv
  BY FS_EmptySet DEF Init, LogInv
<1>3. CountInv
  BY FS_EmptySet DEF Init, CountInv, Recent
<1>4. OneInFlight
  BY DEF Init, OneInFlight, InFlight
<1>5. PendingInv
  BY DEF Init, PendingInv
<1> QED BY <1>1, <1>2, <1>3, <1>4, <1>5 DEF GuardInv

-----------------------------------------------------------------------------
(* A step that neither inserts nor lets time pass keeps what is at rest.   *)
LEMMA RestKept ==
    ASSUME GuardInv, UNCHANGED <<now, count, wrote, letBy>>
    PROVE  /\ LogInv' /\ CountInv'
           /\ \A k \in Key : Recent(k)' = Recent(k)
BY DEF GuardInv, LogInv, CountInv, Recent, Live

(* An insert under k of a number that counts the recent calls and those it *)
(* records keeps what is at rest, and what is recent under other keys.     *)
LEMMA InsertKeeps ==
    ASSUME GuardInv, NEW k \in Key, NEW n \in Nat, NEW S, IsFiniteSet(S),
           \A e \in S : e.key = k /\ e.time = now,
           Cardinality(Recent(k)) + Cardinality(S) <= n,
           Insert(k, n), now' = now, letBy' = letBy \cup S
    PROVE  /\ LogInv' /\ CountInv'
           /\ \A j \in Key : j # k => Recent(j)' = Recent(j)
<1>1. /\ wrote' = [wrote EXCEPT ![k] = now] /\ wrote \in [Key -> 0..now]
      /\ count' = [count EXCEPT ![k] = n] /\ count \in [Key -> Nat]
      /\ now \in Nat
  BY GuardianAssumption DEF GuardInv, TypeOK, Insert
<1>2. LogInv'
  <2>1. IsFiniteSet(letBy')
    BY FS_Union DEF GuardInv, LogInv
  <2> SUFFICES ASSUME NEW e \in letBy'
               PROVE  e.time <= wrote'[e.key]
    BY <2>1 DEF LogInv
  <2>2. CASE e \in S
    BY <2>2, <1>1
  <2>3. CASE e \in letBy
    <3>1. e.key \in Key /\ e.time \in 0..now /\ e.time <= wrote[e.key]
      BY <2>3 DEF GuardInv, TypeOK, LogInv
    <3> QED BY <3>1, <1>1
  <2> QED BY <2>2, <2>3
<1>3. \A j \in Key : j # k => Recent(j)' = Recent(j)
  BY DEF Recent
<1>4. CountInv'
  <2> SUFFICES ASSUME NEW j \in Key, Live(j)'
               PROVE  Cardinality(Recent(j))' <= count'[j]
    BY DEF CountInv
  <2>1. CASE j = k
    <3>1. IsFiniteSet(Recent(k)) /\ Cardinality(Recent(k)) \in Nat
      BY GetCounts
    <3>2. Recent(k)' \subseteq Recent(k) \cup S
      BY DEF Recent
    <3>3. /\ IsFiniteSet(Recent(k) \cup S)
          /\ Cardinality(Recent(k) \cup S)
               = Cardinality(Recent(k)) + Cardinality(S) - Cardinality(Recent(k) \cap S)
      BY <3>1, FS_Union
    <3>4. Cardinality(S) \in Nat /\ Cardinality(Recent(k) \cap S) \in Nat
      BY <3>1, FS_CardinalityType, FS_Subset
    <3>5. Cardinality(Recent(k)') <= Cardinality(Recent(k) \cup S)
          /\ Cardinality(Recent(k)') \in Nat
      BY <3>2, <3>3, FS_Subset, FS_CardinalityType
    <3>6. count'[k] = n
      BY <1>1
    <3> QED BY <2>1, <3>1, <3>3, <3>4, <3>5, <3>6
  <2>2. CASE j # k
    BY <2>2, <1>1, <1>3 DEF GuardInv, CountInv, Live
  <2> QED BY <2>1, <2>2
<1> QED BY <1>2, <1>3, <1>4

LEMMA KeysTyped ==
    ASSUME NEW r \in Request, TypeOK
    PROVE  /\ StormKey(r) \in Key
           /\ CallsOf[r] \in Seq(Signature \cup {Unreadable})
           /\ (i[r] <= Len(CallsOf[r]) /\ CallsOf[r][i[r]] # Unreadable) =>
                 (CallsOf[r][i[r]] \in Signature /\ LoopKey(r) \in Key)
<1>1. SessionOf[r] \in Session /\ CallsOf[r] \in Seq(Signature \cup {Unreadable})
      /\ i[r] \in Nat \ {0}
  BY GuardianAssumption DEF TypeOK
<1>2. (i[r] <= Len(CallsOf[r])) => CallsOf[r][i[r]] \in Signature \cup {Unreadable}
  BY <1>1
<1> QED BY <1>1, <1>2 DEF StormKey, LoopKey, Key

(* Steps that move one request and touch nothing else. *)
LEMMA QuietKeeps ==
    ASSUME GuardInv, NEW r \in Request,
           Ignore(r) \/ Skip(r) \/ Pass(r) \/ Drop(r)
    PROVE  GuardInv'
<1>1. UNCHANGED <<now, count, wrote, letBy>> /\ new' = new
  BY DEF Ignore, Skip, Pass, Drop
<1>2. \A q \in Request : q # r => pc'[q] = pc[q] /\ i'[q] = i[q]
  BY DEF GuardInv, TypeOK, Ignore, Skip, Pass, Drop
<1>3. pc'[r] \in {"passed", "calls", "dropped"} /\ (InFlight(r)' => InFlight(r))
  BY DEF GuardInv, TypeOK, Ignore, Skip, Pass, Drop, InFlight, Verdict
<1>4. TypeOK'
  <2>1. pc' \in [Request -> Verdict \cup {"new", "stormPut", "calls", "loopPut"}]
    BY DEF GuardInv, TypeOK, Ignore, Skip, Pass, Drop, Verdict
  <2>2. i' \in [Request -> Nat \ {0}]
    <3>1. i' = i \/ i' = [i EXCEPT ![r] = @ + 1]
      BY DEF Ignore, Skip, Pass, Drop
    <3> QED BY <3>1 DEF GuardInv, TypeOK
  <2> QED BY <2>1, <2>2, <1>1 DEF GuardInv, TypeOK, Limit
<1>5. OneInFlight'
  BY <1>2, <1>3 DEF GuardInv, OneInFlight, InFlight
<1>6. PendingInv'
  <2> SUFFICES ASSUME NEW q \in Request, pc'[q] \in {"stormPut", "loopPut"}
               PROVE  /\ pc'[q] = pc[q] /\ i'[q] = i[q] /\ new'[q] = new[q]
                      /\ Recent(StormKey(q))' = Recent(StormKey(q))
                      /\ Recent(LoopKey(q))' = Recent(LoopKey(q))
    BY DEF GuardInv, PendingInv, LoopKey, StormKey
  <2>1. q # r
    BY <1>3
  <2> QED BY <2>1, <1>1, <1>2 DEF Recent, StormKey, LoopKey
<1> QED BY <1>1, <1>4, <1>5, <1>6, RestKept DEF GuardInv

LEMMA StormGetKeeps ==
    ASSUME GuardInv, ~Parallel, NEW r \in Request, StormGet(r)
    PROVE  GuardInv'
<1> DEFINE n == Get(StormKey(r)) + Len(CallsOf[r])
<1>1. UNCHANGED <<now, count, wrote, i, letBy>>
  BY DEF StormGet
<1>2. \A q \in Request : q # r => pc'[q] = pc[q] /\ new'[q] = new[q]
  BY DEF GuardInv, TypeOK, StormGet
<1>3. StormKey(r) \in Key /\ Len(CallsOf[r]) \in Nat
  BY KeysTyped DEF GuardInv
<1>4. \A q \in Request : SessionOf[q] = SessionOf[r] => ~InFlight(q)
  BY DEF StormGet
<1>5. n \in Nat /\ Cardinality(Recent(StormKey(r))) + Len(CallsOf[r]) <= n
  BY <1>3, GetCounts
<1>6. \/ pc'[r] = "storm" /\ new' = new
      \/ pc'[r] = "stormPut" /\ new'[r] = n /\ n <= MaxSession
  BY <1>5, GuardianAssumption DEF GuardInv, TypeOK, StormGet, TooMany
<1>7. TypeOK'
  <2>1. pc' \in [Request -> Verdict \cup {"new", "stormPut", "calls", "loopPut"}]
        /\ new' \in [Request -> Nat]
    BY <1>5 DEF GuardInv, TypeOK, StormGet, Verdict
  <2> QED BY <2>1, <1>1 DEF GuardInv, TypeOK, Limit
<1>8. OneInFlight'
  BY <1>2, <1>4 DEF GuardInv, OneInFlight, InFlight
<1>9. PendingInv'
  <2> SUFFICES ASSUME NEW q \in Request
               PROVE  /\ pc'[q] = "stormPut" =>
                           /\ Cardinality(Recent(StormKey(q)))' + Len(CallsOf[q]) <= new'[q]
                           /\ new'[q] <= MaxSession
                      /\ pc'[q] = "loopPut" =>
                           /\ CallsOf[q][i'[q]] \in Signature
                           /\ Cardinality(Recent(LoopKey(q)))' + 1 <= new'[q]
                           /\ new'[q] <= MaxIdentical
    BY DEF PendingInv
  <2>1. Recent(StormKey(q))' = Recent(StormKey(q)) /\ Recent(LoopKey(q))' = Recent(LoopKey(q))
    BY <1>1 DEF Recent, StormKey, LoopKey
  <2>2. CASE q = r
    BY <2>1, <2>2, <1>1, <1>5, <1>6
  <2>3. CASE q # r
    BY <2>1, <2>3, <1>1, <1>2 DEF GuardInv, PendingInv
  <2> QED BY <2>2, <2>3
<1> QED BY <1>1, <1>7, <1>8, <1>9, RestKept DEF GuardInv

LEMMA LoopGetKeeps ==
    ASSUME GuardInv, NEW r \in Request, LoopGet(r)
    PROVE  GuardInv'
<1> DEFINE n == Get(LoopKey(r)) + 1
<1>1. UNCHANGED <<now, count, wrote, i, letBy>>
  BY DEF LoopGet
<1>2. \A q \in Request : q # r => pc'[q] = pc[q] /\ new'[q] = new[q]
  BY DEF GuardInv, TypeOK, LoopGet
<1>3. LoopKey(r) \in Key /\ CallsOf[r][i[r]] \in Signature
  BY KeysTyped DEF GuardInv, LoopGet
<1>5. n \in Nat /\ Cardinality(Recent(LoopKey(r))) + 1 <= n
  BY <1>3, GetCounts
<1>6. \/ pc'[r] = "loop" /\ new' = new
      \/ pc'[r] = "loopPut" /\ new'[r] = n /\ n <= MaxIdentical
  BY <1>5, GuardianAssumption DEF GuardInv, TypeOK, LoopGet, TooMany
<1>7. TypeOK'
  <2>1. pc' \in [Request -> Verdict \cup {"new", "stormPut", "calls", "loopPut"}]
        /\ new' \in [Request -> Nat]
    BY <1>5 DEF GuardInv, TypeOK, LoopGet, Verdict
  <2> QED BY <2>1, <1>1 DEF GuardInv, TypeOK, Limit
<1>8. OneInFlight'
  <2>1. pc[r] = "calls"
    BY DEF LoopGet
  <2>2. \A q \in Request : InFlight(q)' => InFlight(q)
    BY <2>1, <1>2, <1>6 DEF InFlight, Verdict
  <2> QED BY <2>2 DEF GuardInv, OneInFlight
<1>9. PendingInv'
  <2> SUFFICES ASSUME NEW q \in Request
               PROVE  /\ pc'[q] = "stormPut" =>
                           /\ Cardinality(Recent(StormKey(q)))' + Len(CallsOf[q]) <= new'[q]
                           /\ new'[q] <= MaxSession
                      /\ pc'[q] = "loopPut" =>
                           /\ CallsOf[q][i'[q]] \in Signature
                           /\ Cardinality(Recent(LoopKey(q)))' + 1 <= new'[q]
                           /\ new'[q] <= MaxIdentical
    BY DEF PendingInv
  <2>1. Recent(StormKey(q))' = Recent(StormKey(q)) /\ Recent(LoopKey(q))' = Recent(LoopKey(q))
    BY <1>1 DEF Recent, StormKey, LoopKey
  <2>2. CASE q = r
    BY <2>1, <2>2, <1>1, <1>3, <1>5, <1>6
  <2>3. CASE q # r
    BY <2>1, <2>3, <1>1, <1>2 DEF GuardInv, PendingInv
  <2> QED BY <2>2, <2>3
<1> QED BY <1>1, <1>7, <1>8, <1>9, RestKept DEF GuardInv

(* Other requests in flight are of other sessions and wait for other keys. *)
LEMMA OthersUntouched ==
    ASSUME GuardInv, NEW r \in Request, NEW q \in Request,
           InFlight(r), InFlight(q), q # r
    PROVE  SessionOf[q] # SessionOf[r]
BY DEF GuardInv, OneInFlight

LEMMA StormPutKeeps ==
    ASSUME GuardInv, NEW r \in Request, StormPut(r)
    PROVE  GuardInv'
<1> DEFINE rec(c) == [key |-> StormKey(r), req |-> r, call |-> c, time |-> now]
           S == {rec(c) : c \in 1..Len(CallsOf[r])}
<1>1. /\ pc[r] = "stormPut" /\ Insert(StormKey(r), new[r])
      /\ pc' = [pc EXCEPT ![r] = "calls"]
      /\ letBy' = letBy \cup S
      /\ now' = now /\ i' = i /\ new' = new
  BY DEF StormPut
<1>2. StormKey(r) \in Key /\ Len(CallsOf[r]) \in Nat /\ new[r] \in Nat /\ now \in Nat
  <2>1. StormKey(r) \in Key /\ CallsOf[r] \in Seq(Signature \cup {Unreadable})
    BY KeysTyped DEF GuardInv
  <2>2. Len(CallsOf[r]) \in Nat
    BY <2>1
  <2>3. new[r] \in Nat /\ now \in Nat
    BY GuardianAssumption DEF GuardInv, TypeOK
  <2> QED BY <2>1, <2>2, <2>3
<1>3. IsFiniteSet(S) /\ Cardinality(S) <= Len(CallsOf[r]) /\ Cardinality(S) \in Nat
  <2> DEFINE f == [c \in 1..Len(CallsOf[r]) |-> rec(c)]
  <2>1. f \in Surjection(1..Len(CallsOf[r]), S)
    BY DEF Surjection
  <2>2. IsFiniteSet(1..Len(CallsOf[r])) /\ Cardinality(1..Len(CallsOf[r])) = Len(CallsOf[r])
    <3>1. 1 \in Int /\ Len(CallsOf[r]) \in Int /\ Len(CallsOf[r]) \in Nat
      BY <1>2
    <3>2. IsFiniteSet(1..Len(CallsOf[r])) /\ Cardinality(1..Len(CallsOf[r]))
             = IF 1 > Len(CallsOf[r]) THEN 0 ELSE Len(CallsOf[r]) - 1 + 1
      BY <3>1, FS_Interval
    <3> QED BY <3>1, <3>2
  <2> HIDE DEF f, S
  <2>3. IsFiniteSet(S) /\ Cardinality(S) <= Len(CallsOf[r])
    BY <2>1, <2>2, FS_Surjection
  <2> QED BY <2>3, FS_CardinalityType
<1>4. /\ Cardinality(Recent(StormKey(r))) + Len(CallsOf[r]) <= new[r]
      /\ new[r] <= MaxSession
  BY <1>1 DEF GuardInv, PendingInv
<1>5. Cardinality(Recent(StormKey(r))) + Cardinality(S) <= new[r]
  BY <1>2, <1>3, <1>4, GetCounts
<1>6. /\ LogInv' /\ CountInv'
      /\ \A j \in Key : j # StormKey(r) => Recent(j)' = Recent(j)
  <2>1. \A e \in S : e.key = StormKey(r) /\ e.time = now
    OBVIOUS
  <2> HIDE DEF S
  <2> QED BY <2>1, <1>1, <1>2, <1>3, <1>5, InsertKeeps
<1>7. TypeOK'
  <2>1. S \subseteq [key : Key, req : Request, call : Nat \ {0}, time : 0..now]
    BY <1>2
  <2>2. letBy' \subseteq [key : Key, req : Request, call : Nat \ {0}, time : 0..now']
    BY <2>1, <1>1 DEF GuardInv, TypeOK
  <2> HIDE DEF S
  <2>3. count' \in [Key -> Nat] /\ \A k \in Key : count'[k] <= Limit(k)
    BY <1>1, <1>2, <1>4 DEF GuardInv, TypeOK, Insert, Limit, StormKey
  <2>4. wrote' \in [Key -> 0..now'] /\ now' \in TTL..(TTL + Horizon)
    BY <1>1, <1>2 DEF GuardInv, TypeOK, Insert
  <2>5. /\ pc' \in [Request -> Verdict \cup {"new", "stormPut", "calls", "loopPut"}]
        /\ i' \in [Request -> Nat \ {0}] /\ new' \in [Request -> Nat]
    BY <1>1 DEF GuardInv, TypeOK
  <2>6. \A k \in Key : Limit(k)' = Limit(k)
    BY DEF Limit
  <2> QED BY <2>2, <2>3, <2>4, <2>5, <2>6 DEF TypeOK
<1> HIDE DEF S
<1>8. \A q \in Request : InFlight(q)' => InFlight(q)
  BY <1>1 DEF GuardInv, TypeOK, InFlight, Verdict
<1>9. OneInFlight'
  BY <1>8 DEF GuardInv, OneInFlight
<1>10. PendingInv'
  <2> SUFFICES ASSUME NEW q \in Request, pc'[q] \in {"stormPut", "loopPut"}
               PROVE  /\ pc'[q] = pc[q] /\ i'[q] = i[q] /\ new'[q] = new[q]
                      /\ Recent(StormKey(q))' = Recent(StormKey(q))
                      /\ pc[q] = "loopPut" => Recent(LoopKey(q))' = Recent(LoopKey(q))
    BY DEF GuardInv, PendingInv, LoopKey, StormKey
  <2>1. q # r
    BY <1>1 DEF GuardInv, TypeOK
  <2>2. pc'[q] = pc[q] /\ InFlight(q) /\ InFlight(r)
    BY <1>1, <2>1 DEF GuardInv, TypeOK, InFlight, Verdict
  <2>3. SessionOf[q] # SessionOf[r]
    BY <2>1, <2>2, OthersUntouched
  <2>4. StormKey(q) \in Key /\ StormKey(q) # StormKey(r)
    BY <2>3, KeysTyped DEF GuardInv, StormKey
  <2>5. pc[q] = "loopPut" => (LoopKey(q) \in Key /\ LoopKey(q) # StormKey(r))
    BY <2>3, GuardianAssumption DEF GuardInv, PendingInv, StormKey, LoopKey, Key
  <2>6. LoopKey(q)' = LoopKey(q)
    BY <1>1 DEF LoopKey
  <2> QED BY <2>2, <2>4, <2>5, <2>6, <1>1, <1>6 DEF StormKey, LoopKey
<1> QED BY <1>6, <1>7, <1>9, <1>10 DEF GuardInv

LEMMA LoopPutKeeps ==
    ASSUME GuardInv, NEW r \in Request, LoopPut(r)
    PROVE  GuardInv'
<1> DEFINE e == [key |-> LoopKey(r), req |-> r, call |-> i[r], time |-> now]
<1>1. /\ pc[r] = "loopPut" /\ Insert(LoopKey(r), new[r])
      /\ pc' = [pc EXCEPT ![r] = "calls"]
      /\ i' = [i EXCEPT ![r] = @ + 1]
      /\ letBy' = letBy \cup {e}
      /\ now' = now /\ new' = new
  BY DEF LoopPut
<1>2. /\ CallsOf[r][i[r]] \in Signature
      /\ Cardinality(Recent(LoopKey(r))) + 1 <= new[r]
      /\ new[r] <= MaxIdentical
  BY <1>1 DEF GuardInv, PendingInv
<1>3. LoopKey(r) \in Key /\ new[r] \in Nat /\ now \in Nat
  BY <1>2, GuardianAssumption DEF LoopKey, Key, GuardInv, TypeOK
<1>4. e.key = LoopKey(r) /\ e.time = now
      /\ e \in [key : Key, req : Request, call : Nat \ {0}, time : 0..now]
  BY <1>3 DEF GuardInv, TypeOK
<1> HIDE DEF e
<1>5. IsFiniteSet({e}) /\ Cardinality({e}) = 1
  BY FS_Singleton
<1>6. /\ LogInv' /\ CountInv'
      /\ \A j \in Key : j # LoopKey(r) => Recent(j)' = Recent(j)
  <2>1. \A d \in {e} : d.key = LoopKey(r) /\ d.time = now
    BY <1>4
  <2> QED BY <2>1, <1>1, <1>2, <1>3, <1>5, InsertKeeps
<1>7. TypeOK'
  <2>2. letBy' \subseteq [key : Key, req : Request, call : Nat \ {0}, time : 0..now']
    BY <1>4, <1>1 DEF GuardInv, TypeOK
  <2>3. count' \in [Key -> Nat] /\ \A k \in Key : count'[k] <= Limit(k)
    BY <1>1, <1>2, <1>3, GuardianAssumption DEF GuardInv, TypeOK, Insert, Limit, LoopKey
  <2>4. wrote' \in [Key -> 0..now'] /\ now' \in TTL..(TTL + Horizon)
    BY <1>1, <1>3 DEF GuardInv, TypeOK, Insert
  <2>5. /\ pc' \in [Request -> Verdict \cup {"new", "stormPut", "calls", "loopPut"}]
        /\ i' \in [Request -> Nat \ {0}] /\ new' \in [Request -> Nat]
    BY <1>1 DEF GuardInv, TypeOK
  <2>6. \A k \in Key : Limit(k)' = Limit(k)
    BY DEF Limit
  <2> QED BY <2>2, <2>3, <2>4, <2>5, <2>6 DEF TypeOK
<1>8. \A q \in Request : InFlight(q)' => InFlight(q)
  BY <1>1 DEF GuardInv, TypeOK, InFlight, Verdict
<1>9. OneInFlight'
  BY <1>8 DEF GuardInv, OneInFlight
<1>10. PendingInv'
  <2> SUFFICES ASSUME NEW q \in Request, pc'[q] \in {"stormPut", "loopPut"}
               PROVE  /\ pc'[q] = pc[q] /\ i'[q] = i[q] /\ new'[q] = new[q]
                      /\ Recent(StormKey(q))' = Recent(StormKey(q))
                      /\ pc[q] = "loopPut" => Recent(LoopKey(q))' = Recent(LoopKey(q))
    BY DEF GuardInv, PendingInv, LoopKey, StormKey
  <2>1. q # r
    BY <1>1 DEF GuardInv, TypeOK
  <2>2. pc'[q] = pc[q] /\ i'[q] = i[q] /\ InFlight(q) /\ InFlight(r)
    BY <1>1, <2>1 DEF GuardInv, TypeOK, InFlight, Verdict
  <2>3. SessionOf[q] # SessionOf[r]
    BY <2>1, <2>2, OthersUntouched
  <2>4. StormKey(q) \in Key /\ StormKey(q) # LoopKey(r)
    BY <2>3, KeysTyped DEF GuardInv, StormKey, LoopKey
  <2>5. pc[q] = "loopPut" => (LoopKey(q) \in Key /\ LoopKey(q) # LoopKey(r))
    BY <2>3, GuardianAssumption DEF GuardInv, PendingInv, LoopKey, Key
  <2>6. LoopKey(q)' = LoopKey(q)
    BY <2>2 DEF LoopKey
  <2> QED BY <2>2, <2>4, <2>5, <2>6, <1>1, <1>6 DEF StormKey, LoopKey
<1> QED BY <1>6, <1>7, <1>9, <1>10 DEF GuardInv

(* Time only makes calls old and entries expire. *)
LEMMA AdvanceKeeps ==
    ASSUME GuardInv, Advance
    PROVE  GuardInv'
<1>1. /\ now' = now + 1 /\ now \in Nat /\ TTL \in Nat /\ Horizon \in Nat
      /\ now < TTL + Horizon
      /\ UNCHANGED <<count, wrote, pc, i, new, letBy>>
  BY GuardianAssumption DEF Advance, GuardInv, TypeOK
<1>2. TypeOK'
  <2>1. now' \in TTL..(TTL + Horizon) /\ wrote' \in [Key -> 0..now']
    BY <1>1 DEF GuardInv, TypeOK
  <2>2. letBy' \subseteq [key : Key, req : Request, call : Nat \ {0}, time : 0..now']
    BY <1>1 DEF GuardInv, TypeOK
  <2> QED BY <2>1, <2>2, <1>1 DEF GuardInv, TypeOK, Limit
<1>3. LogInv'
  BY <1>1 DEF GuardInv, LogInv
<1>4. \A k \in Key : /\ Cardinality(Recent(k))' <= Cardinality(Recent(k))
                     /\ Cardinality(Recent(k))' \in Nat
                     /\ Cardinality(Recent(k)) \in Nat
  <2> SUFFICES ASSUME NEW k \in Key
               PROVE  /\ Cardinality(Recent(k)') <= Cardinality(Recent(k))
                      /\ Cardinality(Recent(k)') \in Nat
                      /\ Cardinality(Recent(k)) \in Nat
    OBVIOUS
  <2>1. Recent(k)' \subseteq Recent(k)
    <3> SUFFICES ASSUME NEW e \in letBy, e.key = k, now' - e.time < TTL
                 PROVE  now - e.time < TTL
      BY <1>1 DEF Recent
    <3>1. e.time \in Nat
      BY <1>1 DEF GuardInv, TypeOK
    <3> QED BY <3>1, <1>1
  <2>2. IsFiniteSet(Recent(k))
    BY GetCounts
  <2> QED BY <2>1, <2>2, FS_Subset, FS_CardinalityType
<1>5. CountInv'
  <2> SUFFICES ASSUME NEW k \in Key, Live(k)'
               PROVE  Cardinality(Recent(k))' <= count'[k]
    BY DEF CountInv
  <2>1. Live(k) /\ count[k] \in Nat
    BY <1>1 DEF Live, GuardInv, TypeOK
  <2> QED BY <2>1, <1>1, <1>4 DEF GuardInv, CountInv
<1>6. OneInFlight'
  BY <1>1 DEF GuardInv, OneInFlight, InFlight
<1>7. PendingInv'
  <2> SUFFICES ASSUME NEW q \in Request
               PROVE  /\ pc[q] = "stormPut" =>
                           /\ Cardinality(Recent(StormKey(q)))' + Len(CallsOf[q]) <= new[q]
                           /\ new[q] <= MaxSession
                      /\ pc[q] = "loopPut" =>
                           /\ CallsOf[q][i[q]] \in Signature
                           /\ Cardinality(Recent(LoopKey(q)))' + 1 <= new[q]
                           /\ new[q] <= MaxIdentical
    BY <1>1 DEF PendingInv
  <2>1. StormKey(q) \in Key /\ Len(CallsOf[q]) \in Nat /\ new[q] \in Nat
    <3>1. StormKey(q) \in Key /\ CallsOf[q] \in Seq(Signature \cup {Unreadable})
      BY KeysTyped DEF GuardInv
    <3>2. new[q] \in Nat
      BY DEF GuardInv, TypeOK
    <3> QED BY <3>1, <3>2
  <2>2. Cardinality(Recent(StormKey(q)))' <= Cardinality(Recent(StormKey(q)))
        /\ Cardinality(Recent(StormKey(q)))' \in Nat
        /\ Cardinality(Recent(StormKey(q))) \in Nat
    BY <2>1, <1>4, <1>1 DEF StormKey
  <2>3. CASE pc[q] = "stormPut"
    BY <2>1, <2>2, <2>3 DEF GuardInv, PendingInv
  <2>4. CASE pc[q] = "loopPut"
    <3>1. /\ CallsOf[q][i[q]] \in Signature
          /\ Cardinality(Recent(LoopKey(q))) + 1 <= new[q]
          /\ new[q] <= MaxIdentical
      BY <2>4 DEF GuardInv, PendingInv
    <3>2. LoopKey(q) \in Key /\ LoopKey(q)' = LoopKey(q)
      BY <3>1, <1>1, GuardianAssumption DEF LoopKey, Key
    <3>3. Cardinality(Recent(LoopKey(q)))' <= Cardinality(Recent(LoopKey(q)))
          /\ Cardinality(Recent(LoopKey(q)))' \in Nat
          /\ Cardinality(Recent(LoopKey(q))) \in Nat
      BY <3>2, <1>4
    <3> QED BY <2>4, <3>1, <3>3, <2>1
  <2> QED BY <2>3, <2>4
<1> QED BY <1>2, <1>3, <1>5, <1>6, <1>7 DEF GuardInv

LEMMA StepKeeps == ~Parallel /\ ~Evicts /\ GuardInv /\ [Next]_vars => GuardInv'
<1> SUFFICES ASSUME ~Parallel, ~Evicts, GuardInv, [Next]_vars
             PROVE  GuardInv'
  OBVIOUS
<1>1. ASSUME NEW r \in Request, Ignore(r) \/ Skip(r) \/ Pass(r) \/ Drop(r)
      PROVE  GuardInv'
  BY <1>1, QuietKeeps
<1>2. ASSUME NEW r \in Request, StormGet(r)
      PROVE  GuardInv'
  BY <1>2, StormGetKeeps
<1>3. ASSUME NEW r \in Request, StormPut(r)
      PROVE  GuardInv'
  BY <1>3, StormPutKeeps
<1>4. ASSUME NEW r \in Request, LoopGet(r)
      PROVE  GuardInv'
  BY <1>4, LoopGetKeeps
<1>5. ASSUME NEW r \in Request, LoopPut(r)
      PROVE  GuardInv'
  BY <1>5, LoopPutKeeps
<1>6. CASE Advance
  BY <1>6, AdvanceKeeps
<1>7. CASE UNCHANGED vars
  BY <1>7 DEF vars, GuardInv, TypeOK, LogInv, CountInv, OneInFlight, PendingInv,
      Recent, Live, InFlight, StormKey, LoopKey, Limit
<1>8. ASSUME NEW k \in Key, Evict(k)
      PROVE  GuardInv'
  BY <1>8 DEF Evict
<1> QED BY <1>1, <1>2, <1>3, <1>4, <1>5, <1>6, <1>7, <1>8 DEF Next, Guard

(* One request of a session at a time: whatever expires, whatever is       *)
(* refused and whoever disconnects, no window of TTL lets more than        *)
(* MaxIdentical calls of a signature by.                                   *)
THEOREM SerialLoopsAreStopped == ASSUME ~Parallel, ~Evicts PROVE Spec => []LoopIsStopped
<1>1. GuardInv => LoopIsStopped
  <2> SUFFICES ASSUME GuardInv, NEW k \in Key, k[2] # Storm
               PROVE  Cardinality(Recent(k)) <= MaxIdentical
    BY DEF LoopIsStopped
  <2>1. Cardinality(Recent(k)) <= Get(k) /\ Cardinality(Recent(k)) \in Nat
    BY GetCounts
  <2>2. Get(k) <= MaxIdentical /\ Get(k) \in Nat
    BY GuardianAssumption DEF Get, GuardInv, TypeOK, Limit
  <2> QED BY <2>1, <2>2, GuardianAssumption
<1> QED BY <1>1, InitHolds, StepKeeps, PTL DEF Spec

(* The same for storms: no window of TTL lets more than MaxSession calls   *)
(* of a session by.                                                        *)
THEOREM SerialStormsAreStopped == ASSUME ~Parallel, ~Evicts PROVE Spec => []StormIsStopped
<1>1. GuardInv => StormIsStopped
  <2> SUFFICES ASSUME GuardInv, NEW s \in Session
               PROVE  Cardinality(Recent(<<s, Storm>>)) <= MaxSession
    BY DEF StormIsStopped
  <2> DEFINE k == <<s, Storm>>
  <2>1. k \in Key
    BY DEF Key
  <2>2. Cardinality(Recent(k)) <= Get(k) /\ Cardinality(Recent(k)) \in Nat
    BY <2>1, GetCounts
  <2>3. Get(k) <= MaxSession /\ Get(k) \in Nat
    BY <2>1, GuardianAssumption DEF Get, GuardInv, TypeOK, Limit
  <2> QED BY <2>2, <2>3, GuardianAssumption
<1> QED BY <1>1, InitHolds, StepKeeps, PTL DEF Spec

-----------------------------------------------------------------------------
(* What holds of parallel sessions and of a cache at its bound as well.    *)

(* A number about to be inserted is within its limit, and the call it is   *)
(* about can be read.                                                      *)
PendingTyped ==
    \A r \in Request :
        /\ pc[r] = "stormPut" => new[r] <= MaxSession
        /\ pc[r] = "loopPut" =>
              /\ i[r] <= Len(CallsOf[r])
              /\ CallsOf[r][i[r]] \in Signature
              /\ new[r] <= MaxIdentical

(* The last write under a signature that still counts let a call by.       *)
WritesLetBy ==
    \A s \in Session, sig \in Signature :
        LET k == <<s, sig>> IN
        Live(k) /\ count[k] # 0 => \E e \in letBy : e.key = k /\ e.time = wrote[k]

FreeInv == TypeOK /\ PendingTyped /\ WritesLetBy

LEMMA FreeInit == Init => FreeInv
<1> SUFFICES ASSUME Init
             PROVE  FreeInv
  OBVIOUS
<1>1. TypeOK
  BY GuardianAssumption DEF Init, TypeOK, Verdict, Limit
<1>2. PendingTyped
  BY DEF Init, PendingTyped
<1>3. WritesLetBy
  BY DEF Init, WritesLetBy, Key
<1> QED BY <1>1, <1>2, <1>3 DEF FreeInv

(* What an insert makes of the counters. *)
LEMMA InsertTyped ==
    ASSUME TypeOK, NEW k \in Key, NEW n \in Nat, n <= Limit(k), Insert(k, n), now' = now
    PROVE  /\ count' \in [Key -> Nat] /\ \A j \in Key : count'[j] <= Limit(j)
           /\ wrote' \in [Key -> 0..now']
BY GuardianAssumption DEF TypeOK, Insert

(* A step that neither inserts nor lets time pass keeps the last writes.   *)
LEMMA WritesKept ==
    ASSUME WritesLetBy, UNCHANGED <<now, count, wrote, letBy>>
    PROVE  WritesLetBy'
BY DEF WritesLetBy, Live

LEMMA FreeStep == FreeInv /\ [Next]_vars => FreeInv'
<1> SUFFICES ASSUME TypeOK, PendingTyped, WritesLetBy, [Next]_vars
             PROVE  FreeInv'
  BY DEF FreeInv
<1> USE GuardianAssumption
<1>0. TTL \in Nat /\ now \in Nat
  BY DEF TypeOK
<1>1. CASE UNCHANGED vars
  BY <1>1 DEF vars, FreeInv, TypeOK, PendingTyped, WritesLetBy, Limit, Live
<1>2. ASSUME NEW r \in Request, Ignore(r) \/ Skip(r) \/ Pass(r) \/ Drop(r)
      PROVE  FreeInv'
  <2>1. UNCHANGED <<now, count, wrote, letBy>> /\ new' = new
    BY <1>2 DEF Ignore, Skip, Pass, Drop
  <2>2. /\ pc' \in [Request -> Verdict \cup {"new", "stormPut", "calls", "loopPut"}]
        /\ i' \in [Request -> Nat \ {0}]
    <3>1. i' = i \/ i' = [i EXCEPT ![r] = @ + 1]
      BY <1>2 DEF Ignore, Skip, Pass, Drop
    <3>2. i' \in [Request -> Nat \ {0}]
      <4>1. i \in [Request -> Nat \ {0}] /\ i[r] + 1 \in Nat \ {0}
        BY DEF TypeOK
      <4> QED BY <3>1, <4>1
    <3>3. pc' = pc \/ pc' = [pc EXCEPT ![r] = "passed"] \/ pc' = [pc EXCEPT ![r] = "dropped"]
      BY <1>2 DEF Ignore, Skip, Pass, Drop
    <3> QED BY <3>2, <3>3 DEF TypeOK, Verdict
  <2>3. \A q \in Request : pc'[q] \in {"stormPut", "loopPut"}
                             => pc'[q] = pc[q] /\ i'[q] = i[q]
    BY <1>2 DEF TypeOK, Ignore, Skip, Pass, Drop, Verdict
  <2> QED BY <2>1, <2>2, <2>3, WritesKept DEF FreeInv, TypeOK, PendingTyped, Limit
<1>3. ASSUME NEW r \in Request, StormGet(r)
      PROVE  FreeInv'
  <2> DEFINE n == Get(StormKey(r)) + Len(CallsOf[r])
  <2>1. UNCHANGED <<now, count, wrote, i, letBy>>
    BY <1>3 DEF StormGet
  <2>2. n \in Nat
    <3>1. StormKey(r) \in Key /\ CallsOf[r] \in Seq(Signature \cup {Unreadable})
      BY KeysTyped
    <3>2. Get(StormKey(r)) \in Nat /\ Len(CallsOf[r]) \in Nat
      BY <3>1 DEF TypeOK, Get
    <3> QED BY <3>2
  <2>3. \/ pc' = [pc EXCEPT ![r] = "storm"] /\ new' = new
        \/ pc' = [pc EXCEPT ![r] = "stormPut"] /\ new' = [new EXCEPT ![r] = n] /\ n <= MaxSession
    BY <1>3, <2>2 DEF StormGet, TooMany
  <2> HIDE DEF n
  <2> QED BY <2>1, <2>2, <2>3, WritesKept DEF FreeInv, TypeOK, PendingTyped, Limit, Verdict
<1>4. ASSUME NEW r \in Request, LoopGet(r)
      PROVE  FreeInv'
  <2> DEFINE n == Get(LoopKey(r)) + 1
  <2>1. UNCHANGED <<now, count, wrote, i, letBy>> /\ pc[r] = "calls"
        /\ i[r] <= Len(CallsOf[r]) /\ CallsOf[r][i[r]] # Unreadable
    BY <1>4 DEF LoopGet
  <2>2. CallsOf[r][i[r]] \in Signature /\ n \in Nat
    <3>1. CallsOf[r][i[r]] \in Signature /\ LoopKey(r) \in Key
      BY <2>1, KeysTyped
    <3>2. Get(LoopKey(r)) \in Nat
      BY <3>1 DEF TypeOK, Get
    <3> QED BY <3>1, <3>2
  <2>3. \/ pc' = [pc EXCEPT ![r] = "loop"] /\ new' = new
        \/ pc' = [pc EXCEPT ![r] = "loopPut"] /\ new' = [new EXCEPT ![r] = n] /\ n <= MaxIdentical
    BY <1>4, <2>2 DEF LoopGet, TooMany
  <2> HIDE DEF n
  <2> QED BY <2>1, <2>2, <2>3, WritesKept DEF FreeInv, TypeOK, PendingTyped, Limit, Verdict
<1>5. ASSUME NEW r \in Request, StormPut(r)
      PROVE  FreeInv'
  <2> DEFINE S == {[key |-> StormKey(r), req |-> r, call |-> c, time |-> now] :
                     c \in 1..Len(CallsOf[r])}
  <2>1. /\ pc[r] = "stormPut" /\ pc' = [pc EXCEPT ![r] = "calls"]
        /\ Insert(StormKey(r), new[r]) /\ letBy' = letBy \cup S /\ UNCHANGED <<now, i, new>>
    BY <1>5 DEF StormPut
  <2>2. StormKey(r) \in Key /\ new[r] \in Nat /\ new[r] <= Limit(StormKey(r))
    BY <2>1, KeysTyped DEF TypeOK, PendingTyped, Limit, StormKey
  <2>3. S \subseteq [key : Key, req : Request, call : Nat \ {0}, time : 0..now]
    BY <1>0, <2>2, KeysTyped
  <2> HIDE DEF S
  <2>4. TypeOK'
    BY <2>1, <2>2, <2>3, InsertTyped DEF TypeOK, Limit, Verdict
  <2>5. PendingTyped'
    BY <2>1 DEF TypeOK, PendingTyped
  <2>6. WritesLetBy'
    <3>1. \A s \in Session, sig \in Signature :
             count'[<<s, sig>>] = count[<<s, sig>>] /\ wrote'[<<s, sig>>] = wrote[<<s, sig>>]
      BY <2>1 DEF Insert, StormKey, TypeOK, Key
    <3>2. now' = now /\ letBy \subseteq letBy'
      BY <2>1
    <3> SUFFICES ASSUME NEW s \in Session, NEW sig \in Signature,
                        Live(<<s, sig>>)', count'[<<s, sig>>] # 0
                 PROVE  \E e \in letBy' : e.key = <<s, sig>> /\ e.time = wrote'[<<s, sig>>]
      BY DEF WritesLetBy
    <3>3. Live(<<s, sig>>) /\ count[<<s, sig>>] # 0
      BY <3>1, <3>2 DEF Live
    <3>4. PICK e \in letBy : e.key = <<s, sig>> /\ e.time = wrote[<<s, sig>>]
      BY <3>3 DEF WritesLetBy
    <3> QED BY <3>1, <3>2, <3>4
  <2> QED BY <2>4, <2>5, <2>6 DEF FreeInv
<1>6. ASSUME NEW r \in Request, LoopPut(r)
      PROVE  FreeInv'
  <2> DEFINE x == [key |-> LoopKey(r), req |-> r, call |-> i[r], time |-> now]
  <2>1. /\ pc[r] = "loopPut" /\ pc' = [pc EXCEPT ![r] = "calls"]
        /\ Insert(LoopKey(r), new[r]) /\ letBy' = letBy \cup {x} /\ UNCHANGED <<now, new>>
        /\ i' = [i EXCEPT ![r] = @ + 1]
    BY <1>6 DEF LoopPut
  <2>2. /\ LoopKey(r) \in Key /\ LoopKey(r)[2] # Storm
        /\ new[r] \in Nat /\ new[r] <= Limit(LoopKey(r))
    BY <2>1 DEF TypeOK, PendingTyped, Limit, LoopKey, Key
  <2>3. /\ x \in [key : Key, req : Request, call : Nat \ {0}, time : 0..now]
        /\ x.key = LoopKey(r) /\ x.time = now
    BY <1>0, <2>2 DEF TypeOK
  <2> HIDE DEF x
  <2>4. TypeOK'
    <3>1. i' \in [Request -> Nat \ {0}]
      BY <2>1 DEF TypeOK
    <3> QED BY <2>1, <2>2, <2>3, <3>1, InsertTyped DEF TypeOK, Limit, Verdict
  <2>5. PendingTyped'
    BY <2>1 DEF TypeOK, PendingTyped
  <2>6. WritesLetBy'
    <3> SUFFICES ASSUME NEW s \in Session, NEW sig \in Signature,
                        Live(<<s, sig>>)', count'[<<s, sig>>] # 0
                 PROVE  \E e \in letBy' : e.key = <<s, sig>> /\ e.time = wrote'[<<s, sig>>]
      BY DEF WritesLetBy
    <3> DEFINE k == <<s, sig>>
    <3>0. k \in Key
      BY DEF Key
    <3>1. CASE k = LoopKey(r)
      <4>1. wrote'[k] = now
        BY <2>1, <3>0, <3>1 DEF Insert, TypeOK
      <4> QED BY <2>1, <2>3, <3>1, <4>1
    <3>2. CASE k # LoopKey(r)
      <4>1. count'[k] = count[k] /\ wrote'[k] = wrote[k]
        BY <2>1, <3>0, <3>2 DEF Insert, TypeOK
      <4> QED BY <2>1, <4>1 DEF WritesLetBy, Live
    <3> QED BY <3>1, <3>2
  <2> QED BY <2>4, <2>5, <2>6 DEF FreeInv
<1>7. ASSUME NEW k \in Key, Evict(k)
      PROVE  FreeInv'
  <2>1. /\ count' = [count EXCEPT ![k] = 0] /\ wrote' = [wrote EXCEPT ![k] = 0]
        /\ UNCHANGED <<now, pc, i, new, letBy>>
    BY <1>7 DEF Evict
  <2>2. TypeOK' /\ PendingTyped'
    BY <1>0, <2>1 DEF TypeOK, PendingTyped, Limit
  <2>3. WritesLetBy'
    BY <2>1 DEF TypeOK, WritesLetBy, Live, Key
  <2> QED BY <2>2, <2>3 DEF FreeInv
<1>8. CASE Advance
  <2>1. now' = now + 1 /\ now < TTL + Horizon /\ UNCHANGED <<count, wrote, pc, i, new, letBy>>
    BY <1>8 DEF Advance
  <2>2. now' \in TTL..(TTL + Horizon) /\ \A t \in 0..now : t \in 0..now' /\ now - t <= now' - t
    BY <1>0, <2>1 DEF TypeOK
  <2>3. TypeOK' /\ PendingTyped'
    BY <2>1, <2>2 DEF TypeOK, PendingTyped, Limit
  <2>4. \A k \in Key : Live(k)' => Live(k)
    BY <1>0, <2>1, <2>2 DEF TypeOK, Live
  <2>5. WritesLetBy'
    BY <2>1, <2>4 DEF WritesLetBy, Key
  <2> QED BY <2>3, <2>5 DEF FreeInv
<1> QED BY <1>1, <1>2, <1>3, <1>4, <1>5, <1>6, <1>7, <1>8 DEF Next, Guard

(* The counters stay within their limits and no entry, and no call let by, *)
(* is from after now, for parallel sessions and a full cache as well.      *)
THEOREM GuardianTypes == Spec => []TypeOK
<1>1. FreeInv => TypeOK
  BY DEF FreeInv
<1> QED BY <1>1, FreeInit, FreeStep, PTL DEF Spec

(* Whoever is refused as a loop has had a call let by within the last TTL, *)
(* however requests interleave, leave and lose their entries: the entry a  *)
(* refusal reads is as old as the last call it let by, and not renewed by  *)
(* the refusals since.                                                     *)
THEOREM BansAlwaysEnd == Spec => BansEnd
<1>1. FreeInv /\ [Next]_vars
        => [\A r \in Request : (Refuses(r) /\ MaxIdentical > 0) => Recent(LoopKey(r)) # {}]_vars
  <2> SUFFICES ASSUME TypeOK, WritesLetBy, [Next]_vars,
                      NEW r \in Request, Refuses(r), MaxIdentical > 0
               PROVE  Recent(LoopKey(r)) # {}
    BY DEF FreeInv
  <2>1. LoopGet(r)
    <3>1. ASSUME NEW q \in Request, Guard(q) \/ Drop(q), ~LoopGet(r)
          PROVE  FALSE
      BY <3>1 DEF Guard, Drop, Ignore, StormGet, StormPut, LoopGet, LoopPut, Skip, Pass,
                  Refuses, TypeOK
    <3> QED BY <3>1 DEF Next, Evict, Advance, vars, Refuses
  <2>2. LoopKey(r) \in Key /\ LoopKey(r) = <<SessionOf[r], CallsOf[r][i[r]]>>
        /\ SessionOf[r] \in Session /\ CallsOf[r][i[r]] \in Signature
    BY <2>1, KeysTyped, GuardianAssumption DEF LoopGet, LoopKey
  <2>3. TooMany(Get(LoopKey(r)) + 1, MaxIdentical)
    BY <2>1 DEF LoopGet, Refuses, TypeOK
  <2>4. Live(LoopKey(r)) /\ count[LoopKey(r)] # 0
    BY <2>2, <2>3, GuardianAssumption DEF TooMany, Get, TypeOK
  <2>5. PICK e \in letBy : e.key = LoopKey(r) /\ e.time = wrote[LoopKey(r)]
    BY <2>2, <2>4 DEF WritesLetBy
  <2> QED BY <2>4, <2>5 DEF Recent, Live
<1> QED BY <1>1, FreeInit, FreeStep, PTL DEF Spec, BansEnd
====
