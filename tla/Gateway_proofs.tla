---- MODULE Gateway_proofs ----
(* Proofs about Gateway, for every set of requests, tenants and bodies.    *)
EXTENDS Gateway, WellFoundedInduction, TLAPS

(* A set of numbers that has a member has a least one. *)
LEMMA LeastNat ==
    ASSUME NEW S \in SUBSET Nat, S # {}
    PROVE  \E i \in S : \A j \in S : i <= j
<1> DEFINE Less == {ss \in Nat \X Nat : ss[1] < ss[2]}
<1>1. IsWellFoundedOn(Less, Nat)
  BY NatLessThanWellFounded DEF OpToRel
<1>2. \A p, q \in Nat : <<q, p>> \in Less <=> q < p
  OBVIOUS
<1> HIDE DEF Less
<1>3. PICK p \in S : \A q \in S : <<q, p>> \notin Less
  BY <1>1, WFMin
<1>4. \A q \in S : ~(q < p)
  BY <1>2, <1>3
<1> QED
  BY <1>4


LEMMA FirstStopStops ==
    ASSUME NEW S \in SUBSET Nat, NEW v \in [S -> Verdict], FirstStop(v) = "none"
    PROVE  Stops(v) = {}
<1> SUFFICES ASSUME Stops(v) # {} PROVE FALSE
  OBVIOUS
<1>1. Stops(v) \subseteq Nat
  BY DEF Stops
<1>2. PICK i \in Stops(v) : \A j \in Stops(v) : i <= j
  BY <1>1, LeastNat
<1>3. (CHOOSE n \in Stops(v) : \A j \in Stops(v) : n <= j) \in Stops(v)
  BY <1>2
<1>4. FirstStop(v) \in Verdict
  BY <1>3 DEF FirstStop, Stops
<1> QED
  BY <1>4 DEF Verdict

-----------------------------------------------------------------------------
(* What each stage of the handler has behind it. *)
Stage(r) ==
    /\ pc[r] \in Handling => task[r] = "none" /\ replay[r] = Nobody
    /\ pc[r] = "arrived" => sent[r] = ask[r].body
    /\ pc[r] \in (Handling \ {"arrived", "redacting"}) \cup Pumping \/ task[r] # "none" =>
          sent[r] \notin Sensitive

StageInv == RawStaysInside /\ \A r \in Request : Stage(r)

(* What a cache entry may be: the answer that upstream gave to q.          *)
Keepable(q, k) ==
    /\ k = KeyOf(q, TelemetryPrompt(q))
    /\ Counts200(q) /\ task[q] = "done" /\ replay[q] = Nobody
    /\ ~ask[q].scenario

CacheInv ==
    /\ \A k \in DOMAIN cache : cache[k] # Nobody => Keepable(cache[k], k)
    /\ ReplayIsOwn

From(r) == {results[r][i][1] : i \in DOMAIN results[r]}

Answered(r) == said[r] = "answer" /\ passed[r] = 1..Len(calls[r])

(* The fan-out: what it launched is in flight or has come in, once.        *)
Fan(r) ==
    /\ pc[r] \notin {"sandbox", "fanout", "answered", "gone", "refused"} => ~word[r]
    /\ pc[r] = "sandbox" => said[r] = "answer"
    /\ pc[r] = "fanout" /\ place[r] = "message" /\ Extracted(r) # << >> => Answered(r)
    /\ pc[r] \notin {"fanout", "answered", "gone", "refused"} => todo[r] = 1
    /\ todo[r] > 1 /\ place[r] = "message" => Answered(r)
    /\ todo[r] <= Len(Extracted(r)) + 1
    /\ \A i, j \in DOMAIN results[r] : results[r][i][1] = results[r][j][1] => i = j
    /\ From(r) \cup flying[r] \subseteq 1..(todo[r] - 1)
    /\ From(r) \cap flying[r] = {}
    /\ pc[r] = "fanout" => From(r) \cup flying[r] = 1..(todo[r] - 1)
    /\ pc[r] = "answered" =>
          From(r) = 1..Len(Extracted(r)) /\ (place[r] = "array" => Attached(r) = {})

FanInv == \A r \in Request : Fan(r)

-----------------------------------------------------------------------------

LEMMA EventAt ==
    ASSUME NEW s \in Seq(Event), NEW i \in Nat \ {0}, i <= Len(s)
    PROVE  s[i] \in Event
OBVIOUS

LEMMA TypeStep == TypeOK /\ [Next]_vars => TypeOK'
<1> SUFFICES ASSUME TypeOK, [Next]_vars PROVE TypeOK'
  OBVIOUS
<1> USE GatewayAssumption DEF Handling, Pumping, Over, Goes, Logs,
    taskVars, streamVars, toolVars, handlerVars, messageVars
<1>1. ASSUME NEW r \in Request, Admit(r) PROVE TypeOK'
  <2>2. CASE TurnAway(r)
    BY <2>2 DEF TurnAway, TypeOK
  <2>3. CASE Inspect(r)
    BY <2>3 DEF Inspect, TypeOK
  <2>4. ASSUME NEW b \in Body, Redact(r, b) PROVE TypeOK'
    BY <2>4 DEF Redact, TypeOK
  <2>5. CASE RedactFails(r)
    BY <2>5 DEF RedactFails, TypeOK
  <2>6. CASE Hit(r)
    BY <2>6 DEF Hit, TypeOK, Found, KeyOf, Ask
  <2>7. CASE Miss(r)
    BY <2>7 DEF Miss, TypeOK
  <2> QED
    BY <1>1, <2>2, <2>3, <2>4, <2>5, <2>6, <2>7 DEF Admit
<1>2. ASSUME NEW r \in Request, Forward(r) PROVE TypeOK'
  <2>1. CASE Refuse(r)
    BY <2>1 DEF Refuse, TypeOK
  <2>2. CASE Dispatch(r)
    <3>1. outbound' \subseteq Request \X Body
      BY <2>2 DEF Dispatch, TypeOK
    <3> QED
      BY <2>2, <3>1 DEF Dispatch, TypeOK
  <2>3. CASE UpstreamFails(r)
    BY <2>3 DEF UpstreamFails, TypeOK
  <2>4. ASSUME NEW s \in {"ok", "bad"}, BeginBody(r, s) PROVE TypeOK'
    BY <2>4 DEF BeginBody, TypeOK
  <2>5. ASSUME NEW s \in {"ok", "bad", "swapped"}, BeginStream(r, s) PROVE TypeOK'
    BY <2>5 DEF BeginStream, TypeOK
  <2> QED
    BY <1>2, <2>1, <2>2, <2>3, <2>4, <2>5 DEF Forward
<1>3. ASSUME NEW r \in Request, Buffered(r) PROVE TypeOK'
  <2>1. CASE ReadFails(r)
    BY <2>1 DEF ReadFails, TypeOK
  <2>2. ASSUME NEW f \in Format, NEW a \in Answers[r], Read(r, f, a) PROVE TypeOK'
    <3>1. a \in Reply
      BY <2>2
    <3>2. Unified(f, a) \in Seq(Tool) /\ PlaceIn(f, a) \in Place /\ a.word \in BOOLEAN
      BY <3>1 DEF Unified, PlaceIn, Reply, Place
    <3> HIDE DEF Unified, PlaceIn
    <3> QED
      BY <2>2, <3>2 DEF Read, TypeOK
  <2>3. CASE Ignored(r)
    BY <2>3 DEF Ignored, TypeOK
  <2>4. ASSUME NEW v \in [Questions(r) -> Verdict], Allow(r, v) PROVE TypeOK'
    <3>1. Questions(r) \subseteq Nat
      BY DEF Questions
    <3>2. passed' \in [Request -> SUBSET Nat]
      BY <2>4, <3>1 DEF Allow, Hears, TypeOK
    <3>3. UNCHANGED <<ask, sent, outbound, replay, status, format, toolVars, streamVars, taskVars>>
      BY <2>4 DEF Allow, Hears
    <3> QED
      BY <2>4, <3>1, <3>2, <3>3 DEF Allow, TypeOK
  <2>5. ASSUME NEW v \in [Questions(r) -> Verdict], Intercept(r, v) PROVE TypeOK'
    <3>1. Questions(r) \subseteq Nat
      BY DEF Questions
    <3>2. passed' \in [Request -> SUBSET Nat]
      BY <2>5, <3>1 DEF Intercept, Hears, TypeOK
    <3>3. UNCHANGED <<ask, sent, outbound, replay, status, format, toolVars, streamVars, taskVars>>
      BY <2>5 DEF Intercept, Hears
    <3>4. /\ calls' \in [Request -> Seq(Tool)] /\ word' \in [Request -> BOOLEAN]
         /\ said' \in [Request -> {"nothing", "answer", "denial", "schema"}]
      BY <2>5 DEF Intercept, TypeOK
    <3> QED
      BY <2>5, <3>1, <3>2, <3>3, <3>4 DEF Intercept, TypeOK
  <2>6. ASSUME NEW v \in [Questions(r) -> Verdict], Deny(r, v) PROVE TypeOK'
    <3>1. Questions(r) \subseteq Nat
      BY DEF Questions
    <3>2. passed' \in [Request -> SUBSET Nat]
      BY <2>6, <3>1 DEF Deny, Hears, TypeOK
    <3>3. UNCHANGED <<ask, sent, outbound, replay, status, format, toolVars, streamVars, taskVars>>
      BY <2>6 DEF Deny, Hears
    <3>4. /\ calls' \in [Request -> Seq(Tool)] /\ word' \in [Request -> BOOLEAN]
         /\ said' \in [Request -> {"nothing", "answer", "denial", "schema"}]
      <4>1. \/ UNCHANGED <<calls, word>>
            \/ /\ calls' = [calls EXCEPT ![r] = << >>]
               /\ word' = [word EXCEPT ![r] = FALSE]
        BY <2>6 DEF Deny
      <4>2. said' = [said EXCEPT ![r] = "denial"]
        BY <2>6 DEF Deny
      <4>3. CASE UNCHANGED <<calls, word>>
        BY <4>2, <4>3 DEF TypeOK
      <4>4. CASE /\ calls' = [calls EXCEPT ![r] = << >>]
                 /\ word' = [word EXCEPT ![r] = FALSE]
        <5>1. calls' \in [Request -> Seq(Tool)] /\ word' \in [Request -> BOOLEAN]
          BY <4>4 DEF TypeOK
        <5> QED
          BY <4>2, <5>1 DEF TypeOK
      <4> QED
        BY <4>1, <4>3, <4>4
    <3>5. place' = place /\ pc' = [pc EXCEPT ![r] = "fanout"]
      BY <2>6 DEF Deny
    <3> QED
      BY <3>2, <3>3, <3>4, <3>5 DEF TypeOK
  <2>7. ASSUME NEW v \in [Questions(r) -> Verdict], NoVerdict(r, v) PROVE TypeOK'
    <3>1. Questions(r) \subseteq Nat
      BY DEF Questions
    <3>2. passed' \in [Request -> SUBSET Nat]
      BY <2>7, <3>1 DEF NoVerdict, Hears, TypeOK
    <3>3. UNCHANGED <<ask, sent, outbound, replay, status, format, toolVars, streamVars, taskVars>>
      BY <2>7 DEF NoVerdict, Hears
    <3> QED
      BY <2>7, <3>1, <3>2, <3>3 DEF NoVerdict, TypeOK
  <2>8. CASE Launch(r)
    <3>1. flying' \in [Request -> SUBSET (Nat \ {0})] /\ todo' \in [Request -> Nat \ {0}]
      BY <2>8 DEF Launch, TypeOK
    <3> QED
      BY <2>8, <3>1 DEF Launch, TypeOK, Extracted
  <2>9. ASSUME NEW i \in flying[r], NEW known \in BOOLEAN, Land(r, i, known)
        PROVE  TypeOK'
    <3>1. flying' \in [Request -> SUBSET (Nat \ {0})]
      BY <2>9 DEF Land, TypeOK
    <3>2. <<i, known>> \in (Nat \ {0}) \X BOOLEAN
      BY <2>9 DEF Land, TypeOK
    <3>3. Append(results[r], <<i, known>>) \in Seq((Nat \ {0}) \X BOOLEAN)
      BY <3>2 DEF TypeOK
    <3>4. results' \in [Request -> Seq((Nat \ {0}) \X BOOLEAN)]
      BY <2>9, <3>3 DEF Land, TypeOK
    <3> QED
      BY <2>9, <3>1, <3>2, <3>3, <3>4 DEF Land, TypeOK
  <2>10. CASE Attach(r) \/ AttachFails(r)
    BY <2>10 DEF Attach, AttachFails, TypeOK
  <2> QED
    BY <1>3, <2>1, <2>2, <2>3, <2>4, <2>5, <2>6, <2>7, <2>8, <2>9, <2>10 DEF Buffered
<1>4. ASSUME NEW r \in Request, Client(r) PROVE TypeOK'
  <2>1. CASE Drop(r)
    BY <2>1 DEF Drop, TypeOK
  <2>2. CASE Stall(r)
    BY <2>2 DEF Stall, TypeOK
  <2>3. CASE Leave(r)
    BY <2>3 DEF Leave, TypeOK
  <2> QED
    BY <1>4, <2>1, <2>2, <2>3 DEF Client
<1>5. ASSUME NEW r \in Request, Pump(r) PROVE TypeOK'
  <2>1. CASE Relay(r)
    <3>1. <<rest[r], at[r] + 1>> \in (0..Fallbacks) \X (Nat \ {0})
      BY SMTT(30), <2>1 DEF Relay, TypeOK
    <3>2. Append(queue[r], <<rest[r], at[r] + 1>>) \in Seq((0..Fallbacks) \X (Nat \ {0}))
      BY <3>1 DEF TypeOK
    <3>3. queue' \in [Request -> Seq((0..Fallbacks) \X (Nat \ {0}))]
      BY <2>1, <3>2 DEF Relay, TypeOK
    <3>5. \A q \in Request : queue'[q] \in Seq(Chunk(q))
      <4>1. at[r] \in Nat /\ at[r] < Len(Stream[r][rest[r]])
        BY <2>1 DEF Relay, Events, TypeOK
      <4>4. Len(Stream[r][rest[r]]) \in Nat
        BY DEF TypeOK
      <4>2. <<rest[r], at[r] + 1>> \in Chunk(r)
        BY <4>1, <4>4, <3>1 DEF Chunk
      <4>3. Append(queue[r], <<rest[r], at[r] + 1>>) \in Seq(Chunk(r))
        BY <4>2 DEF TypeOK
      <4> QED
        BY <2>1, <4>3 DEF Relay, TypeOK
    <3>4. at' \in [Request -> Nat] /\ lost' \in [Request -> BOOLEAN]
      BY SMTT(30), <2>1 DEF Relay, TypeOK
    <3> QED
      BY <2>1, <3>1, <3>2, <3>3, <3>4, <3>5 DEF Relay, TypeOK
  <2>2. CASE Complete(r)
    BY <2>2 DEF Complete, TypeOK
  <2>3. CASE Break(r)
    BY <2>3 DEF Break, TypeOK
  <2>4. CASE Stitch(r)
    <3>1. outbound' \subseteq Request \X Body
      BY <2>4 DEF Stitch, TypeOK
    <3>2. rest' \in [Request -> 0..Fallbacks] /\ at' \in [Request -> Nat]
      BY <2>4 DEF Stitch, TypeOK
    <3> QED
      BY <2>4, <3>1, <3>2 DEF Stitch, TypeOK
  <2>5. CASE StitchFails(r)
    <3>1. outbound' \subseteq Request \X Body
      BY <2>5 DEF StitchFails, TypeOK
    <3>2. rest' \in [Request -> 0..Fallbacks]
      BY <2>5 DEF StitchFails, TypeOK
    <3> QED
      BY <2>5, <3>1, <3>2 DEF StitchFails, TypeOK
  <2>6. CASE Abort(r)
    BY <2>6 DEF Abort, TypeOK
  <2> QED
    BY <1>5, <2>1, <2>2, <2>3, <2>4, <2>5, <2>6 DEF Pump
<1>6. ASSUME NEW r \in Request, Collector(r) PROVE TypeOK'
  <2>1. CASE Collect(r)
    <3> DEFINE c == Head(queue[r])
               e == Stream[r][c[1]][c[2]]
               fits == e.kind = "text" /\ held[r] + e.size < Buffer
    <3>1. c \in (0..Fallbacks) \X (Nat \ {0}) /\ c \in Chunk(r)
      BY <2>1 DEF Collect, TypeOK
    <3>2. Tail(queue[r]) \in Seq((0..Fallbacks) \X (Nat \ {0}))
      BY <2>1 DEF Collect, TypeOK
    <3>3. Append(text[r], c) \in Seq((0..Fallbacks) \X (Nat \ {0}))
      BY <3>1 DEF TypeOK
    <3>4. queue' \in [Request -> Seq((0..Fallbacks) \X (Nat \ {0}))]
      BY <2>1, <3>2 DEF Collect, TypeOK
    <3>5. text' \in [Request -> Seq((0..Fallbacks) \X (Nat \ {0}))]
      <4>1. text' = text \/ text' = [text EXCEPT ![r] = Append(@, c)]
        BY <2>1 DEF Collect
      <4> QED
        BY <3>3, <4>1 DEF TypeOK
    <3>6. held' \in [Request -> Nat]
      <4>1. held' = held \/ (fits /\ held' = [held EXCEPT ![r] = @ + e.size])
        BY <2>1 DEF Collect
      <4>2. fits => held[r] + e.size \in Nat
        <5>1. c[1] \in 0..Fallbacks /\ c[2] \in Nat \ {0} /\ c[2] <= Len(Stream[r][c[1]])
          BY <3>1 DEF Chunk
        <5>2. Stream[r][c[1]] \in Seq(Event)
          BY <5>1
        <5> HIDE DEF c
        <5>3. Stream[r][c[1]][c[2]] \in Event
          BY <5>1, <5>2, EventAt
        <5>4. c[1] \in 0..Fallbacks => Stream[r][c[1]][c[2]].size \in Nat /\ held[r] \in Nat
          BY <5>3 DEF Event, TypeOK
        <5>5. e.size \in Nat /\ held[r] \in Nat
          BY <5>1, <5>4
        <5> HIDE DEF e, fits
        <5>6. held[r] + e.size \in Nat
          BY <5>5
        <5> QED
          BY <5>6
      <4> DEFINE h == held[r] + e.size
      <4>3. held' = held \/ (h \in Nat /\ held' = [held EXCEPT ![r] = h])
        BY <4>1, <4>2
      <4> HIDE DEF h
      <4> QED
        BY <4>3 DEF TypeOK
    <3>9. \A q \in Request : queue'[q] \in Seq(Chunk(q))
      <4>1. Tail(queue[r]) \in Seq(Chunk(r))
        BY <2>1 DEF Collect, TypeOK
      <4> QED
        BY <2>1, <4>1 DEF Collect, TypeOK
    <3>7. task' \in [Request -> {"none", "collecting", "due", "done"}]
      <4>1. task' = task \/ task' = [task EXCEPT ![r] = "due"]
        BY <2>1 DEF Collect
      <4> QED
        BY <4>1 DEF TypeOK
    <3>8. UNCHANGED <<pc, handlerVars, toolVars, at, deaf, rest, lost, cache, logged>>
      BY <2>1 DEF Collect
    <3> QED
      BY ZenonT(40), <3>4, <3>5, <3>6, <3>7, <3>8, <3>9 DEF TypeOK
  <2>2. CASE Collected(r)
    BY <2>2 DEF Collected, TypeOK
  <2>3. ASSUME NEW kept \in BOOLEAN, Record(r, kept) PROVE TypeOK'
    <3>1. cache' \in [Tenant \X Body -> Request \cup {Nobody}]
      BY <2>3 DEF Record, TypeOK, KeyOf, Ask
    <3> QED
      BY <2>3, <3>1 DEF Record, TypeOK
  <2> QED
    BY <1>6, <2>1, <2>2, <2>3 DEF Collector
<1>7. ASSUME NEW k \in DOMAIN cache, Expire(k) PROVE TypeOK'
  BY <1>7 DEF Expire, TypeOK
<1>8. CASE UNCHANGED vars
  BY <1>8 DEF vars, TypeOK
<1> QED
  BY <1>1, <1>2, <1>3, <1>4, <1>5, <1>6, <1>7, <1>8 DEF Next, Step

LEMMA InitTypes == Init => TypeOK
<1> SUFFICES ASSUME Init PROVE TypeOK
  OBVIOUS
<1> USE GatewayAssumption
<1>1. /\ cache \in [Tenant \X Body -> Request \cup {Nobody}]
      /\ pc \in [Request -> Handling \cup Pumping \cup Over]
  BY DEF Init, Handling
<1>2. \A r \in Request : ask[r] \in AsksOf[r] /\ AsksOf[r] \in SUBSET Ask
  BY DEF Init
<1>3. ask \in [Request -> Ask]
  <2>1. ask \in [Request -> UNION {AsksOf[r] : r \in Request}]
    BY DEF Init
  <2> QED
    BY <1>2, <2>1
<1>4. sent \in [Request -> Body]
  BY <1>3 DEF Init, Ask
<1>5. /\ outbound \subseteq Request \X Body /\ logged \subseteq Sensitive
      /\ replay \in [Request -> Request \cup {Nobody}]
      /\ status \in [Request -> {"none", "ok", "bad", "swapped"}]
      /\ format \in [Request -> Format \cup {"none"}]
      /\ calls \in [Request -> Seq(Tool)] /\ place \in [Request -> Place]
      /\ word \in [Request -> BOOLEAN]
      /\ said \in [Request -> {"nothing", "answer", "denial", "schema"}]
      /\ passed \in [Request -> SUBSET Nat]
  BY DEF Init, Place
<1>6. /\ todo \in [Request -> Nat \ {0}] /\ flying \in [Request -> SUBSET (Nat \ {0})]
      /\ results \in [Request -> Seq((Nat \ {0}) \X BOOLEAN)]
      /\ at \in [Request -> Nat] /\ deaf \in [Request -> BOOLEAN]
      /\ rest \in [Request -> 0..Fallbacks]
  BY DEF Init
<1>7. /\ queue \in [Request -> Seq((0..Fallbacks) \X (Nat \ {0}))]
      /\ \A r \in Request : queue[r] \in Seq(Chunk(r))
      /\ text \in [Request -> Seq((0..Fallbacks) \X (Nat \ {0}))]
      /\ held \in [Request -> Nat] /\ lost \in [Request -> BOOLEAN]
      /\ task \in [Request -> {"none", "collecting", "due", "done"}]
  BY DEF Init
<1> QED
  BY ZenonT(40), <1>1, <1>3, <1>4, <1>5, <1>6, <1>7 DEF TypeOK

(* The types of Gateway's variables, for every constants that meet its     *)
(* assumption.                                                             *)
THEOREM GatewayTypes == Spec => []TypeOK
<1>1. Init => TypeOK
  BY InitTypes
<1> QED
  BY <1>1, TypeStep, PTL DEF Spec

LEMMA StageStep == StageInv /\ TypeOK /\ [Next]_vars => StageInv'
<1> SUFFICES ASSUME StageInv, TypeOK, [Next]_vars PROVE StageInv'
  OBVIOUS
<1> USE GatewayAssumption DEF Handling, Pumping, Over, Goes, Logs,
    taskVars, streamVars, toolVars, handlerVars, messageVars
<1>1. ASSUME NEW r \in Request, Admit(r) PROVE StageInv'
  <2>2. CASE TurnAway(r)
    BY <2>2 DEF TurnAway, StageInv, RawStaysInside, Stage, TypeOK
  <2>3. CASE Inspect(r)
    BY <2>3 DEF Inspect, StageInv, RawStaysInside, Stage, TypeOK
  <2>4. ASSUME NEW b \in Body, Redact(r, b) PROVE StageInv'
    BY SMTT(30), <2>4 DEF Redact, StageInv, RawStaysInside, Stage, TypeOK
  <2>5. CASE RedactFails(r)
    BY <2>5 DEF RedactFails, StageInv, RawStaysInside, Stage, TypeOK
  <2>6. CASE Hit(r)
    BY <2>6 DEF Hit, StageInv, RawStaysInside, Stage, TypeOK
  <2>7. CASE Miss(r)
    BY <2>7 DEF Miss, StageInv, RawStaysInside, Stage, TypeOK
  <2> QED
    BY <1>1, <2>2, <2>3, <2>4, <2>5, <2>6, <2>7 DEF Admit
<1>2. ASSUME NEW r \in Request, Forward(r) PROVE StageInv'
  <2>1. CASE Refuse(r)
    BY <2>1 DEF Refuse, StageInv, RawStaysInside, Stage, TypeOK
  <2>2. CASE Dispatch(r)
    <3>1. sent[r] \notin Sensitive
      BY <2>2 DEF Dispatch, StageInv, Stage, Goes, Handling
    <3> QED
      BY SMTT(30), <2>2, <3>1 DEF Dispatch, StageInv, RawStaysInside, Stage, TypeOK
  <2>3. CASE UpstreamFails(r)
    BY <2>3 DEF UpstreamFails, StageInv, RawStaysInside, Stage, TypeOK
  <2>4. ASSUME NEW s \in {"ok", "bad"}, BeginBody(r, s) PROVE StageInv'
    BY <2>4 DEF BeginBody, StageInv, RawStaysInside, Stage, TypeOK
  <2>5. ASSUME NEW s \in {"ok", "bad", "swapped"}, BeginStream(r, s) PROVE StageInv'
    BY <2>5 DEF BeginStream, StageInv, RawStaysInside, Stage, TypeOK
  <2> QED
    BY <1>2, <2>1, <2>2, <2>3, <2>4, <2>5 DEF Forward
<1>3. ASSUME NEW r \in Request, Buffered(r) PROVE StageInv'
  <2>1. CASE ReadFails(r)
    BY <2>1 DEF ReadFails, StageInv, RawStaysInside, Stage, TypeOK
  <2>2. ASSUME NEW f \in Format, NEW a \in Answers[r], Read(r, f, a) PROVE StageInv'
    BY <2>2 DEF Read, StageInv, RawStaysInside, Stage, TypeOK
  <2>3. CASE Ignored(r)
    BY <2>3 DEF Ignored, StageInv, RawStaysInside, Stage, TypeOK
  <2>4. ASSUME NEW v \in [Questions(r) -> Verdict], Allow(r, v) PROVE StageInv'
    <3>1. UNCHANGED <<ask, sent, outbound, replay, logged, task>>
      BY <2>4 DEF Allow, Hears, taskVars
    <3>2. pc[r] = "sandbox" /\ pc' \in {[pc EXCEPT ![r] = "fanout"], [pc EXCEPT ![r] = "refused"]}
      BY <2>4 DEF Allow, Hears
    <3> QED
      BY SMTT(30), <3>1, <3>2 DEF StageInv, RawStaysInside, Stage, TypeOK, Handling, Pumping
  <2>5. ASSUME NEW v \in [Questions(r) -> Verdict], Intercept(r, v) PROVE StageInv'
    <3>1. UNCHANGED <<ask, sent, outbound, replay, logged, task>>
      BY <2>5 DEF Intercept, Hears, taskVars
    <3>2. pc[r] = "sandbox" /\ pc' \in {[pc EXCEPT ![r] = "fanout"], [pc EXCEPT ![r] = "refused"]}
      BY <2>5 DEF Intercept, Hears
    <3> QED
      BY SMTT(30), <3>1, <3>2 DEF StageInv, RawStaysInside, Stage, TypeOK, Handling, Pumping
  <2>6. ASSUME NEW v \in [Questions(r) -> Verdict], Deny(r, v) PROVE StageInv'
    <3>1. UNCHANGED <<ask, sent, outbound, replay, logged, task>>
      BY <2>6 DEF Deny, Hears, taskVars
    <3>2. pc[r] = "sandbox" /\ pc' \in {[pc EXCEPT ![r] = "fanout"], [pc EXCEPT ![r] = "refused"]}
      BY <2>6 DEF Deny, Hears
    <3> QED
      BY SMTT(30), <3>1, <3>2 DEF StageInv, RawStaysInside, Stage, TypeOK, Handling, Pumping
  <2>7. ASSUME NEW v \in [Questions(r) -> Verdict], NoVerdict(r, v) PROVE StageInv'
    <3>1. UNCHANGED <<ask, sent, outbound, replay, logged, task>>
      BY <2>7 DEF NoVerdict, Hears, taskVars
    <3>2. pc[r] = "sandbox" /\ pc' \in {[pc EXCEPT ![r] = "fanout"], [pc EXCEPT ![r] = "refused"]}
      BY <2>7 DEF NoVerdict, Hears
    <3> QED
      BY SMTT(30), <3>1, <3>2 DEF StageInv, RawStaysInside, Stage, TypeOK, Handling, Pumping
  <2>8. CASE Launch(r)
    BY <2>8 DEF Launch, StageInv, RawStaysInside, Stage, TypeOK
  <2>9. ASSUME NEW i \in flying[r], NEW known \in BOOLEAN, Land(r, i, known)
        PROVE  StageInv'
    BY <2>9 DEF Land, StageInv, RawStaysInside, Stage, TypeOK
  <2>10. CASE Attach(r) \/ AttachFails(r)
    <3>1. CASE Attach(r)
      BY <3>1 DEF Attach, StageInv, RawStaysInside, Stage, TypeOK
    <3>2. CASE AttachFails(r)
      BY <3>2 DEF AttachFails, StageInv, RawStaysInside, Stage, TypeOK
    <3> QED
      BY <2>10, <3>1, <3>2
  <2> QED
    BY <1>3, <2>1, <2>2, <2>3, <2>4, <2>5, <2>6, <2>7, <2>8, <2>9, <2>10 DEF Buffered
<1>4. ASSUME NEW r \in Request, Client(r) PROVE StageInv'
  <2>1. CASE Drop(r)
    BY <2>1 DEF Drop, StageInv, RawStaysInside, Stage, TypeOK
  <2>2. CASE Stall(r)
    BY <2>2 DEF Stall, StageInv, RawStaysInside, Stage, TypeOK
  <2>3. CASE Leave(r)
    BY <2>3 DEF Leave, Sending, StageInv, RawStaysInside, Stage, TypeOK
  <2> QED
    BY <1>4, <2>1, <2>2, <2>3 DEF Client
<1>5. ASSUME NEW r \in Request, Pump(r) PROVE StageInv'
  <2>1. CASE Relay(r)
    BY <2>1 DEF Relay, StageInv, RawStaysInside, Stage, TypeOK
  <2>2. CASE Complete(r)
    BY <2>2 DEF Complete, StageInv, RawStaysInside, Stage, TypeOK
  <2>3. CASE Break(r)
    BY <2>3 DEF Break, StageInv, RawStaysInside, Stage, TypeOK
  <2>4. CASE Stitch(r)
    BY <2>4 DEF Stitch, StageInv, RawStaysInside, Stage, TypeOK
  <2>5. CASE StitchFails(r)
    BY <2>5 DEF StitchFails, StageInv, RawStaysInside, Stage, TypeOK
  <2>6. CASE Abort(r)
    BY <2>6 DEF Abort, StageInv, RawStaysInside, Stage, TypeOK
  <2> QED
    BY <1>5, <2>1, <2>2, <2>3, <2>4, <2>5, <2>6 DEF Pump
<1>6. ASSUME NEW r \in Request, Collector(r) PROVE StageInv'
  <2>1. CASE Collect(r)
    <3>1. task[r] = "collecting" /\ task' \in {task, [task EXCEPT ![r] = "due"]}
          /\ UNCHANGED <<pc, ask, sent, outbound, replay, logged>>
      BY <2>1 DEF Collect
    <3> QED
      BY SMTT(30), <3>1 DEF StageInv, RawStaysInside, Stage, TypeOK
  <2>2. CASE Collected(r)
    BY <2>2 DEF Collected, StageInv, RawStaysInside, Stage, TypeOK
  <2>3. ASSUME NEW kept \in BOOLEAN, Record(r, kept) PROVE StageInv'
    <3>1. task[r] = "due" /\ task' = [task EXCEPT ![r] = "done"]
          /\ UNCHANGED <<pc, ask, sent, outbound, replay>>
      BY <2>3 DEF Record
    <3>2. TelemetryPrompt(r) \notin Sensitive
      <4>1. sent[r] \in Body \ Sensitive
        BY <3>1 DEF StageInv, Stage, TypeOK
      <4> QED
        BY <4>1 DEF TelemetryPrompt
    <3>3. logged' = {}
      BY <2>3, <3>2 DEF Record, Logs, StageInv, RawStaysInside
    <3> QED
      BY SMTT(30), <3>1, <3>3 DEF StageInv, RawStaysInside, Stage, TypeOK
  <2> QED
    BY <1>6, <2>1, <2>2, <2>3 DEF Collector
<1>7. ASSUME NEW k \in DOMAIN cache, Expire(k) PROVE StageInv'
  BY <1>7 DEF Expire, StageInv, RawStaysInside, Stage, TypeOK
<1>8. CASE UNCHANGED vars
  BY <1>8 DEF vars, StageInv, RawStaysInside, Stage, TypeOK
<1> QED
  BY <1>1, <1>2, <1>3, <1>4, <1>5, <1>6, <1>7, <1>8 DEF Next, Step


(* What Fan(q) is about, but where q is.                                   *)
Kept(q) ==
    /\ calls'[q] = calls[q] /\ place'[q] = place[q] /\ word'[q] = word[q]
    /\ said'[q] = said[q] /\ passed'[q] = passed[q] /\ format'[q] = format[q]
    /\ todo'[q] = todo[q] /\ flying'[q] = flying[q] /\ results'[q] = results[q]

(* What the cache tells about q.                                           *)
Filed(q) ==
    /\ sent'[q] = sent[q] /\ status'[q] = status[q]
    /\ replay'[q] = replay[q] /\ task'[q] = task[q]

LEMMA Others ==
    ASSUME TypeOK, NEW r \in Request, Step(r), NEW q \in Request, q # r
    PROVE  Kept(q) /\ Filed(q) /\ pc'[q] = pc[q]
<1> USE DEF Kept, Filed, TypeOK, Goes, taskVars, streamVars, toolVars, handlerVars, messageVars
<1>1. CASE Admit(r)
  <2>1. CASE Hit(r)
    BY <2>1 DEF Hit
  <2>2. CASE \E b \in Body : Redact(r, b)
    BY <2>2 DEF Redact
  <2> QED
    BY <1>1, <2>1, <2>2 DEF Admit, TurnAway, Inspect, RedactFails, Miss
<1>2. CASE Forward(r)
  BY <1>2 DEF Forward, Refuse, Dispatch, UpstreamFails, BeginBody, BeginStream
<1>3. CASE Buffered(r)
  <2>1. CASE ReadFails(r) \/ Ignored(r) \/ Launch(r) \/ Attach(r) \/ AttachFails(r)
    BY <2>1 DEF ReadFails, Ignored, Launch, Attach, AttachFails
  <2>2. ASSUME NEW f \in Format, NEW a \in Answers[r], Read(r, f, a)
        PROVE  Kept(q) /\ Filed(q) /\ pc'[q] = pc[q]
    BY <2>2 DEF Read
  <2>3. ASSUME NEW v \in [Questions(r) -> Verdict], Allow(r, v)
        PROVE  Kept(q) /\ Filed(q) /\ pc'[q] = pc[q]
    BY <2>3 DEF Allow, Hears
  <2>4. ASSUME NEW v \in [Questions(r) -> Verdict], Intercept(r, v)
        PROVE  Kept(q) /\ Filed(q) /\ pc'[q] = pc[q]
    BY <2>4 DEF Intercept, Hears
  <2>5. ASSUME NEW v \in [Questions(r) -> Verdict], Deny(r, v)
        PROVE  Kept(q) /\ Filed(q) /\ pc'[q] = pc[q]
    BY <2>5 DEF Deny, Hears
  <2>6. ASSUME NEW v \in [Questions(r) -> Verdict], NoVerdict(r, v)
        PROVE  Kept(q) /\ Filed(q) /\ pc'[q] = pc[q]
    BY <2>6 DEF NoVerdict, Hears
  <2>7. ASSUME NEW i \in flying[r], NEW known \in BOOLEAN, Land(r, i, known)
        PROVE  Kept(q) /\ Filed(q) /\ pc'[q] = pc[q]
    BY <2>7 DEF Land
  <2> HIDE DEF Kept, Filed
  <2> QED
    BY <1>3, <2>1, <2>2, <2>3, <2>4, <2>5, <2>6, <2>7 DEF Buffered
<1>4. CASE Client(r)
  BY <1>4 DEF Client, Drop, Stall, Leave
<1>5. CASE Pump(r)
  BY <1>5 DEF Pump, Relay, Complete, Break, Stitch, StitchFails, Abort
<1>6. CASE Collector(r)
  <2>1. CASE Collect(r)
    <3>1. task' \in {task, [task EXCEPT ![r] = "due"]} /\ UNCHANGED <<pc, handlerVars, toolVars>>
      BY <2>1 DEF Collect
    <3> QED
      BY <3>1
  <2>2. CASE Collected(r) \/ \E kept \in BOOLEAN : Record(r, kept)
    BY <2>2 DEF Collected, Record
  <2> QED
    BY <1>6, <2>1, <2>2 DEF Collector
<1> QED
  BY <1>1, <1>2, <1>3, <1>4, <1>5, <1>6 DEF Step


LEMMA Frozen ==
    ASSUME TypeOK, StageInv, NEW r \in Request, Step(r), NEW q \in Request, task[q] = "done"
    PROVE  Filed(q)
<1>1. CASE q # r
  BY <1>1, Others
<1>2. CASE q = r
  <2>1. pc[r] \notin Handling
    BY <1>2 DEF StageInv, Stage
  <2>2. ~Admit(r) /\ ~Forward(r) /\ ~Buffered(r) /\ ~Drop(r)
    BY <2>1 DEF Handling, Admit, TurnAway, Inspect, Redact, RedactFails, Hit,
       Miss,
       Forward, Refuse, Dispatch, UpstreamFails, BeginBody, BeginStream, Buffered, ReadFails,
       Read, Ignored, Allow, Intercept, Deny, NoVerdict, Hears, Launch, Land, Attach, AttachFails,
       Drop, Goes
  <2>3. CASE Pump(r) \/ Stall(r) \/ Leave(r)
    BY <1>2, <2>3 DEF Pump, Relay, Complete, Break, Stitch, StitchFails, Abort, Stall, Leave,
       Filed, TypeOK, taskVars, handlerVars
  <2>4. ~Collector(r)
    BY <1>2 DEF Collector, Collect, Collected, Record
  <2> QED
    BY <2>2, <2>3, <2>4 DEF Step, Client
<1> QED
  BY <1>1, <1>2

(* A step that leaves every finished request alone and neither fills the   *)
(* cache nor replays keeps CacheInv.                                       *)
LEMMA CacheFrame ==
    ASSUME TypeOK, CacheInv, \A q \in Request : task[q] = "done" => Filed(q),
           UNCHANGED <<ask, replay>>,
           DOMAIN cache' = DOMAIN cache,
           \A k \in DOMAIN cache : cache'[k] \in {cache[k], Nobody}
    PROVE  CacheInv'
<1>1. \A k \in DOMAIN cache' : cache'[k] # Nobody => cache'[k] = cache[k] /\ cache[k] \in Request
  BY DEF TypeOK
<1>2. \A q \in Request, k \in DOMAIN cache : Keepable(q, k) => Keepable(q, k)'
  BY DEF Keepable, KeyOf, TelemetryPrompt, Counts200, Filed
<1>3. ASSUME NEW k \in DOMAIN cache', cache'[k] # Nobody PROVE Keepable(cache[k], k)'
  BY <1>1, <1>2, <1>3 DEF CacheInv, Keepable, KeyOf, TelemetryPrompt, Counts200
<1>4. ReplayIsOwn'
  <2>1. \A r \in Request : replay[r] # Nobody => replay[r] \in Request
    BY DEF TypeOK
  <2> QED
    BY <2>1 DEF CacheInv, ReplayIsOwn, TelemetryPrompt, Counts200, Filed
<1> QED
  BY <1>3, <1>4 DEF CacheInv

LEMMA CacheStep == CacheInv /\ TypeOK /\ StageInv /\ [Next]_vars => CacheInv'
<1> SUFFICES ASSUME CacheInv, TypeOK, StageInv, [Next]_vars PROVE CacheInv'
  OBVIOUS
<1> USE GatewayAssumption
<1> DEFINE Prompted(q) == IF ask'[q].body \in Sensitive THEN Prompt[sent'[q]] ELSE ask'[q].body
<1>1. ASSUME NEW r \in Request, Step(r) PROVE CacheInv'
  <2>0. \A q \in Request : task[q] = "done" => Filed(q)
    BY <1>1, Frozen
  <2>1. CASE Hit(r)
    <3> DEFINE key == KeyOf(r, ask[r].body)
    <3>1. /\ task[r] = "none" /\ Found(r) # Nobody /\ ~ask[r].scenario
          /\ Found(r) = cache[key] /\ key \in DOMAIN cache
      BY <2>1 DEF Hit, Goes, StageInv, Stage, Handling, TypeOK, Ask, KeyOf, Found
    <3>2. Keepable(Found(r), key) /\ Found(r) \in Request
      BY <3>1 DEF CacheInv, TypeOK
    <3>3. /\ UNCHANGED <<ask, sent, cache>> /\ replay' = [replay EXCEPT ![r] = Found(r)]
          /\ status' = [status EXCEPT ![r] = "ok"] /\ task' = [task EXCEPT ![r] = "due"]
      BY <2>1 DEF Hit
    <3>4. \A q \in Request : task[q] = "done" =>
             task'[q] = "done" /\ status'[q] = status[q] /\ replay'[q] = replay[q]
      BY <2>0 DEF Filed
    <3>5. ASSUME NEW k \in DOMAIN cache', cache'[k] # Nobody
          PROVE  Keepable(cache[k], k)'
      BY SMTT(30), <3>3, <3>4, <3>5 DEF CacheInv, Keepable, KeyOf, TelemetryPrompt, Counts200, TypeOK
    <3>6. ASSUME NEW p \in Request, replay'[p] # Nobody
          PROVE  LET q == replay'[p] IN
                 /\ ask'[q].tenant = ask'[p].tenant /\ Prompted(q) = ask'[p].body
                 /\ status'[q] \in {"ok", "swapped"} /\ task'[q] = "done" /\ replay'[q] = Nobody
                 /\ ~ask'[q].scenario /\ ~ask'[p].scenario
      <4>1. CASE p = r
        <5>1. replay'[p] = Found(r)
          BY <3>3, <4>1 DEF TypeOK
        <5> QED
          BY <3>1, <3>2, <3>3, <3>4, <4>1, <5>1 DEF Keepable, KeyOf, TelemetryPrompt, Counts200
      <4>2. CASE p # r
        <5>1. replay'[p] = replay[p] /\ replay[p] \in Request
          BY <3>3, <3>6, <4>2 DEF TypeOK
        <5> QED
          BY <3>3, <3>4, <3>6, <5>1 DEF CacheInv, ReplayIsOwn, TelemetryPrompt, Counts200
      <4> QED
        BY <4>1, <4>2
    <3>7. ReplayIsOwn'
      BY <3>6 DEF ReplayIsOwn, TelemetryPrompt, Counts200
    <3> QED
      BY <3>3, <3>5, <3>7 DEF CacheInv
  <2>2. ASSUME NEW kept \in BOOLEAN, Record(r, kept) PROVE CacheInv'
    <3> DEFINE key == KeyOf(r, TelemetryPrompt(r))
    <3>1. /\ task[r] = "due" /\ task' = [task EXCEPT ![r] = "done"]
          /\ UNCHANGED <<ask, sent, status, replay>>
      BY <2>2 DEF Record, handlerVars
    <3>2. cache' = cache \/ (Fills(r) /\ cache' = [cache EXCEPT ![key] = r])
      BY <2>2 DEF Record
    <3>3. \A q \in Request, k \in DOMAIN cache : Keepable(q, k) => Keepable(q, k)'
      BY <3>1 DEF Keepable, KeyOf, TelemetryPrompt, Counts200, TypeOK
    <3>4. Fills(r) => Keepable(r, key)'
      BY <3>1 DEF Keepable, Fills, KeyOf, TelemetryPrompt, Counts200, TypeOK
    <3>5. ReplayIsOwn'
      <4>1. \A p \in Request : replay[p] # Nobody => replay[p] \in Request
        BY DEF TypeOK
      <4>2. \A q \in Request : task[q] = "done" => task'[q] = "done"
        BY <3>1 DEF TypeOK
      <4> QED
        BY <3>1, <4>1, <4>2 DEF CacheInv, ReplayIsOwn, TelemetryPrompt, Counts200
    <3>6. CASE cache' = cache
      BY <3>3, <3>5, <3>6 DEF CacheInv, TypeOK
    <3>7. CASE Fills(r) /\ cache' = [cache EXCEPT ![key] = r]
      <4>1. ASSUME NEW k \in DOMAIN cache', cache'[k] # Nobody
            PROVE  LET q == cache'[k] IN
                   /\ k = <<ask'[q].tenant, Prompted(q)>>
                   /\ status'[q] \in {"ok", "swapped"} /\ task'[q] = "done" /\ replay'[q] = Nobody
                   /\ ~ask'[q].scenario
        <5>0. key \in DOMAIN cache
          BY DEF KeyOf, TelemetryPrompt, TypeOK, Ask
        <5>1. CASE k = key
          <6>1. cache'[k] = r
            BY <5>0, <3>7, <5>1 DEF TypeOK
          <6>2. task'[r] = "done" /\ k = <<ask[r].tenant, TelemetryPrompt(r)>>
            BY <3>1, <5>1 DEF TypeOK, KeyOf
          <6>3. Prompted(r) = TelemetryPrompt(r)
            BY <3>1 DEF TelemetryPrompt
          <6> QED
            BY <3>1, <3>7, <6>1, <6>2, <6>3 DEF Fills, Counts200
        <5>2. CASE k # key
          <6>1. cache'[k] = cache[k] /\ cache[k] \in Request /\ k \in DOMAIN cache
            BY <3>7, <4>1, <5>2 DEF TypeOK
          <6> QED
            BY <3>3, <4>1, <6>1 DEF CacheInv, Keepable, KeyOf, TelemetryPrompt, Counts200
        <5> QED
          BY <5>1, <5>2
      <4> QED
        BY <3>5, <4>1 DEF CacheInv, Keepable, KeyOf, TelemetryPrompt, Counts200
    <3> QED
      BY <3>2, <3>6, <3>7
  <2>3. CASE ~Hit(r) /\ ~(\E kept \in BOOLEAN : Record(r, kept))
    <3>1. UNCHANGED <<ask, replay, cache>>
      BY <1>1, <2>3 DEF Step, Admit, TurnAway, Inspect, Redact, RedactFails,
         Miss,
         Forward, Refuse, Dispatch, UpstreamFails, BeginBody, BeginStream, Buffered, ReadFails,
         Read, Ignored, Allow, Intercept, Deny, NoVerdict, Hears, Launch, Land, Attach, AttachFails,
         Client, Drop, Stall, Leave, Pump, Relay, Complete, Break, Stitch, StitchFails, Abort,
         Collector, Collect, Collected, taskVars, handlerVars
    <3> QED
      BY <2>0, <3>1, CacheFrame
  <2> QED
    BY <2>1, <2>2, <2>3
<1>2. CASE (\E k \in DOMAIN cache : Expire(k)) \/ UNCHANGED vars
  <2>1. /\ UNCHANGED <<ask, sent, status, replay, task>> /\ DOMAIN cache' = DOMAIN cache
        /\ \A k \in DOMAIN cache : cache'[k] \in {cache[k], Nobody}
    BY <1>2 DEF Expire, vars, handlerVars, taskVars, TypeOK
  <2> QED
    BY <2>1, CacheFrame DEF Filed
<1> QED
  BY <1>1, <1>2 DEF Next


LEMMA FanFrame ==
    ASSUME NEW q \in Request, Fan(q), Kept(q), pc'[q] = pc[q]
    PROVE  Fan(q)'
BY DEF Fan, Kept, From, Answered, Extracted, Attached

(* Without calls there is nothing to fan out, wherever the request goes.   *)
LEMMA FanIdle ==
    ASSUME TypeOK, NEW q \in Request, Fan(q), Kept(q), ~word[q], todo[q] = 1,
           pc'[q] # "sandbox"
    PROVE  Fan(q)'
<1>1. Extracted(q) = << >> /\ Extracted(q)' = << >>
  BY DEF Kept, Extracted
<1>2. From(q) \cup flying[q] = {}
  BY DEF Fan
<1>3. From(q)' = From(q)
  BY DEF From, Kept
<1>4. Attached(q)' = {}
  <2>1. Attached(q) = {}
    BY <1>2 DEF Attached, From
  <2> QED
    BY <2>1 DEF Attached, Kept
<1>5. Len(Extracted(q)') = 0 /\ Len(Extracted(q)) = 0
  BY <1>1
<1> QED
  BY <1>1, <1>2, <1>3, <1>4, <1>5 DEF Fan, Kept, Answered

LEMMA FanStep == FanInv /\ TypeOK /\ [Next]_vars => FanInv'
<1> SUFFICES ASSUME FanInv, TypeOK, [Next]_vars PROVE FanInv'
  OBVIOUS
<1> USE GatewayAssumption
<1>1. ASSUME NEW r \in Request, Step(r) PROVE Fan(r)'
  <2>0. Fan(r) /\ TypeOK
    BY DEF FanInv
  <2>1. CASE Admit(r)
    <3>1. Kept(r) /\ pc'[r] # "sandbox" /\ pc[r] \in {"arrived", "redacting", "lookup"}
      BY <2>1 DEF Admit, TurnAway, Inspect, Redact, RedactFails, Hit, Miss,
         Kept, TypeOK, Goes, Logs, streamVars, toolVars, taskVars, handlerVars,
         messageVars
    <3> QED
      BY <2>0, <3>1, FanIdle DEF Fan
  <2>2. CASE Forward(r)
    <3>1. Kept(r) /\ pc'[r] # "sandbox" /\ pc[r] \in {"missed", "waiting"}
      BY <2>2 DEF Forward, Refuse, Dispatch, UpstreamFails, BeginBody, BeginStream, Kept,
         TypeOK, Goes, Logs, streamVars, toolVars, taskVars, handlerVars, messageVars
    <3> QED
      BY <2>0, <3>1, FanIdle DEF Fan
  <2>3. CASE Buffered(r)
    <3>1. CASE ReadFails(r)
      <4>1. Kept(r) /\ pc'[r] # "sandbox" /\ pc[r] = "reading"
        BY <3>1 DEF ReadFails, Kept, TypeOK, Goes, Logs, streamVars, toolVars, taskVars,
           handlerVars, messageVars
      <4> QED
        BY <2>0, <4>1, FanIdle DEF Fan
    <3>2. ASSUME NEW f \in Format, NEW a \in Answers[r], Read(r, f, a) PROVE Fan(r)'
      <4>1. pc[r] = "reading" /\ pc'[r] = "sandbox" /\ said'[r] = "answer"
        BY <3>2 DEF Read, Kept, TypeOK, Goes, Logs, streamVars, toolVars, taskVars,
           handlerVars, messageVars
      <4>2. todo'[r] = 1 /\ results'[r] = results[r] /\ flying'[r] = flying[r]
        BY <3>2, <2>0, <4>1 DEF Read, Fan, toolVars
      <4>3. From(r) \cup flying[r] = {} /\ From(r)' = From(r)
        <5>1. From(r) \cup flying[r] = {}
          BY <2>0, <4>1 DEF Fan
        <5>2. From(r)' = From(r)
          BY <4>2 DEF From
        <5> QED
          BY <5>1, <5>2
      <4>4. Len(Extracted(r)') \in Nat
        BY <3>2, TypeStep DEF Extracted, TypeOK
      <4> QED
        BY <2>0, <4>1, <4>2, <4>3, <4>4 DEF Fan
    <3>3. CASE Ignored(r)
      <4>1. Kept(r) /\ pc'[r] # "sandbox" /\ pc[r] = "sandbox" /\ ~word[r]
        BY <3>3 DEF Ignored, Asked, Kept, TypeOK, Goes, Logs, streamVars, toolVars,
           taskVars, handlerVars, messageVars
      <4> QED
        BY <2>0, <4>1, FanIdle DEF Fan
    <3>4. ASSUME NEW v \in [Questions(r) -> Verdict],
                 Allow(r, v) \/ Intercept(r, v) \/ Deny(r, v) \/ NoVerdict(r, v)
          PROVE  Fan(r)'
      <4>1. pc[r] = "sandbox" /\ todo[r] = 1 /\ said[r] = "answer"
        BY <3>4, <2>0 DEF Allow, Intercept, Deny, NoVerdict, Hears, Fan
      <4>2. todo'[r] = 1 /\ results'[r] = results[r] /\ flying'[r] = flying[r]
        BY <3>4, <4>1 DEF Allow, Intercept, Deny, NoVerdict, Hears, toolVars
      <4>3. From(r) \cup flying[r] = {} /\ From(r)' = From(r)
        <5>1. From(r) \cup flying[r] = {}
          BY <2>0, <4>1 DEF Fan
        <5>2. From(r)' = From(r)
          BY <4>2 DEF From
        <5> QED
          BY <5>1, <5>2
      <4>4. Len(Extracted(r)') \in Nat
        BY <3>4, TypeStep DEF Extracted, TypeOK
      <4>5. pc'[r] \in {"fanout", "refused"}
        BY <3>4 DEF Allow, Intercept, Deny, NoVerdict, Hears, TypeOK
      <4>6. pc'[r] = "fanout" /\ place'[r] = "message" /\ Extracted(r)' # << >> => Answered(r)'
        <5>1. CASE Allow(r, v)
          <6> SUFFICES ASSUME place[r] = "message", calls[r] # << >> PROVE Answered(r)'
            BY <5>1 DEF Allow, Extracted
          <6>1. Questions(r) = 1..Len(calls[r]) /\ Questions(r) \subseteq Nat
            BY DEF Questions, TypeOK
          <6>2. Stops(v) = {}
            BY <5>1, <6>1, FirstStopStops DEF Allow, HasMessage
          <6>3. passed'[r] = 1..Len(calls[r])
            BY <5>1, <6>1, <6>2 DEF Allow, Hears, TypeOK
          <6> QED
            BY <4>1, <5>1, <6>3 DEF Allow, Answered
        <5>2. CASE Intercept(r, v)
          BY <5>2 DEF Intercept, Extracted, TypeOK
        <5>3. CASE Deny(r, v)
          BY <5>3 DEF Deny, Extracted, TypeOK
        <5>4. CASE NoVerdict(r, v)
          BY <5>4 DEF NoVerdict, TypeOK
        <5> QED
          BY <3>4, <5>1, <5>2, <5>3, <5>4
      <4> QED
        BY <2>0, <4>2, <4>3, <4>4, <4>5, <4>6 DEF Fan
    <3>5. CASE Launch(r)
      <4> DEFINE n == todo[r]
      <4>1. pc[r] = "fanout" /\ pc' = pc /\ calls' = calls /\ format' = format
            /\ said' = said /\ passed' = passed /\ results' = results
            /\ place' = place /\ word' = word
        BY <3>5 DEF Launch, handlerVars, messageVars
      <4>2. todo'[r] = n + 1 /\ flying'[r] = flying[r] \cup {n} /\ n \in Nat \ {0}
            /\ n <= Len(Extracted(r)) /\ Len(Extracted(r)) \in Nat
        BY <3>5 DEF Launch, TypeOK, Extracted
      <4>3. From(r)' = From(r) /\ Extracted(r)' = Extracted(r) /\ Answered(r)' = Answered(r)
        BY <4>1 DEF From, Extracted, Answered
      <4>4. place[r] = "message" => Answered(r)
        <5>1. Extracted(r) # << >>
          BY <4>2
        <5> QED
          BY <2>0, <4>1, <5>1 DEF Fan
      <4> QED
        BY <2>0, <4>1, <4>2, <4>3, <4>4 DEF Fan
    <3>6. ASSUME NEW i \in flying[r], NEW known \in BOOLEAN, Land(r, i, known)
          PROVE  Fan(r)'
      <4> DEFINE R == results[r]
      <4>1. pc[r] = "fanout" /\ pc' = pc /\ calls' = calls /\ format' = format
            /\ said' = said /\ passed' = passed /\ todo' = todo
            /\ place' = place /\ word' = word
        BY <3>6 DEF Land, handlerVars, messageVars
      <4>2. flying'[r] = flying[r] \ {i} /\ results'[r] = Append(R, <<i, known>>)
        BY <3>6 DEF Land, TypeOK
      <4>3. R \in Seq((Nat \ {0}) \X BOOLEAN) /\ Len(R) \in Nat /\ DOMAIN R = 1..Len(R)
        BY DEF TypeOK
      <4>4. /\ DOMAIN results'[r] = 1..(Len(R) + 1)
            /\ results'[r][Len(R) + 1] = <<i, known>>
            /\ \A j \in 1..Len(R) : results'[r][j] = R[j]
        BY <4>2, <4>3
      <4>5. From(r)' = From(r) \cup {i}
        <5>1. From(r) = {R[j][1] : j \in 1..Len(R)}
          BY <4>3 DEF From
        <5>2. From(r)' = {results'[r][j][1] : j \in 1..(Len(R) + 1)}
          BY <4>4 DEF From
        <5>3. 1..(Len(R) + 1) = (1..Len(R)) \cup {Len(R) + 1}
          BY <4>3
        <5>4. ASSUME NEW j \in 1..Len(R) PROVE results'[r][j][1] = R[j][1]
          BY <4>4
        <5>5. results'[r][Len(R) + 1][1] = i
          BY <4>4
        <5>6. From(r)' \subseteq From(r) \cup {i}
          <6> SUFFICES ASSUME NEW j \in 1..(Len(R) + 1)
                       PROVE  results'[r][j][1] \in From(r) \cup {i}
            BY <5>2
          <6>1. CASE j \in 1..Len(R)
            BY <5>1, <5>4, <6>1
          <6>2. CASE j = Len(R) + 1
            BY <5>5, <6>2
          <6> QED
            BY <5>3, <6>1, <6>2
        <5>7. From(r) \subseteq From(r)'
          <6> SUFFICES ASSUME NEW j \in 1..Len(R) PROVE R[j][1] \in From(r)'
            BY <5>1
          <6>1. j \in 1..(Len(R) + 1)
            BY <5>3
          <6> QED
            BY <5>2, <5>4, <6>1
        <5>8. i \in From(r)'
          BY <5>2, <5>3, <5>5
        <5> QED
          BY <5>6, <5>7, <5>8
      <4>6. Extracted(r)' = Extracted(r) /\ Answered(r)' = Answered(r)
        BY <4>1 DEF Extracted, Answered
      <4>7. i \notin From(r)
        BY <2>0 DEF Fan
      <4>8. \A j, k \in DOMAIN results'[r] : results'[r][j][1] = results'[r][k][1] => j = k
        <5> SUFFICES ASSUME NEW j \in 1..(Len(R) + 1), NEW k \in 1..(Len(R) + 1),
                            results'[r][j][1] = results'[r][k][1]
                     PROVE  j = k
          BY <4>4
        <5>1. \A n \in 1..Len(R) : R[n][1] # i
          BY <4>3, <4>7 DEF From
        <5>2. \A m, n \in 1..Len(R) : R[m][1] = R[n][1] => m = n
          BY <2>0, <4>3 DEF Fan
        <5>3. \A n \in 1..Len(R) : results'[r][n][1] = R[n][1]
          BY <4>4
        <5>4. results'[r][Len(R) + 1][1] = i
          BY <4>4
        <5>5. \A n \in 1..(Len(R) + 1) : n \in 1..Len(R) \/ n = Len(R) + 1
          BY <4>3
        <5>6. CASE j \in 1..Len(R)
          <6>1. results'[r][j][1] = R[j][1] /\ R[j][1] # i
            BY <5>1, <5>3, <5>6
          <6>2. k # Len(R) + 1
            BY <5>4, <6>1
          <6> QED
            BY <5>2, <5>3, <5>5, <5>6, <6>1, <6>2
        <5>7. CASE j = Len(R) + 1
          <6>1. k \notin 1..Len(R)
            BY <5>1, <5>3, <5>4, <5>7
          <6> QED
            BY <5>5, <5>7, <6>1
        <5> QED
          BY <5>5, <5>6, <5>7
      <4> QED
        BY <2>0, <4>1, <4>2, <4>5, <4>6, <4>7, <4>8 DEF Fan
    <3>7. CASE Attach(r)
      <4>1. Kept(r) /\ pc[r] = "fanout" /\ pc'[r] = "answered" /\ flying[r] = {}
            /\ todo[r] > Len(Extracted(r)) /\ (Attached(r) = {} \/ place[r] # "array")
        BY <3>7 DEF Attach, Kept, TypeOK, Goes, Logs, streamVars, toolVars, taskVars,
           handlerVars, messageVars
      <4>2. From(r)' = From(r) /\ Extracted(r)' = Extracted(r) /\ Answered(r)' = Answered(r)
            /\ Attached(r)' = Attached(r)
        BY <4>1 DEF Kept, From, Extracted, Answered, Attached
      <4>3. Len(Extracted(r)) \in Nat /\ todo[r] \in Nat
        BY DEF Extracted, TypeOK
      <4>4. From(r) = 1..Len(Extracted(r))
        <5>1. From(r) = 1..(todo[r] - 1) /\ todo[r] <= Len(Extracted(r)) + 1
          BY <2>0, <4>1 DEF Fan
        <5>2. todo[r] - 1 = Len(Extracted(r))
          BY <4>1, <4>3, <5>1
        <5> QED
          BY <5>1, <5>2
      <4> QED
        BY <2>0, <4>1, <4>2, <4>3, <4>4 DEF Fan, Kept
    <3>8. CASE AttachFails(r)
      <4>1. Kept(r) /\ pc'[r] = "refused" /\ pc[r] = "fanout"
        BY <3>8 DEF AttachFails, Kept, TypeOK, Goes, toolVars, handlerVars, messageVars
      <4>2. From(r)' = From(r) /\ Extracted(r)' = Extracted(r) /\ Answered(r)' = Answered(r)
        BY <4>1 DEF Kept, From, Extracted, Answered
      <4> QED
        BY <2>0, <4>1, <4>2 DEF Fan, Kept
    <3> QED
      BY <2>3, <3>1, <3>2, <3>3, <3>4, <3>5, <3>6, <3>7, <3>8 DEF Buffered
  <2>4. CASE Drop(r)
    <3>1. calls' = calls /\ said' = said /\ passed' = passed /\ format' = format
          /\ todo' = todo /\ results' = results /\ place' = place /\ word' = word
      BY <2>4 DEF Drop, handlerVars, messageVars
    <3>2. pc'[r] = "gone" /\ flying'[r] = {}
      BY <2>4 DEF Drop, TypeOK
    <3>3. From(r)' = From(r) /\ Extracted(r)' = Extracted(r) /\ Answered(r)' = Answered(r)
      BY <3>1 DEF From, Extracted, Answered
    <3> QED
      BY <2>0, <3>1, <3>2, <3>3 DEF Fan
  <2>5. CASE Pump(r) \/ Stall(r) \/ Leave(r)
    <3>1. Kept(r) /\ pc'[r] # "sandbox" /\ pc[r] \in Pumping
      BY <2>5 DEF Pump, Relay, Complete, Break, Stitch, StitchFails, Abort, Stall, Leave, Sending,
         Pumping, Kept, TypeOK, Goes, Logs, streamVars, toolVars, taskVars, handlerVars,
         messageVars
    <3> QED
      BY <2>0, <3>1, FanIdle DEF Fan, Pumping
  <2>6. CASE Collector(r)
    <3>1. Kept(r) /\ pc'[r] = pc[r]
      BY <2>6 DEF Collector, Collect, Collected, Record, Kept, TypeOK, Goes, Logs,
         streamVars, toolVars, taskVars, handlerVars, messageVars
    <3> QED
      BY <2>0, <3>1, FanFrame
  <2> QED
    BY <1>1, <2>1, <2>2, <2>3, <2>4, <2>5, <2>6 DEF Step, Client
<1>2. ASSUME NEW r \in Request, Step(r) PROVE FanInv'
  BY <1>1, <1>2, Others, FanFrame DEF FanInv
<1>3. CASE (\E k \in DOMAIN cache : Expire(k)) \/ UNCHANGED vars
  <2>1. \A q \in Request : Kept(q) /\ pc'[q] = pc[q]
    BY <1>3 DEF Expire, vars, Kept, toolVars, handlerVars, messageVars
  <2> QED
    BY <2>1, FanFrame DEF FanInv
<1> QED
  BY <1>2, <1>3 DEF Next


-----------------------------------------------------------------------------
LEMMA GatewayInv == Spec => [](TypeOK /\ StageInv /\ CacheInv /\ FanInv)
<1>1. Init => TypeOK
  BY InitTypes
<1>2. Init => StageInv /\ CacheInv
  BY GatewayAssumption DEF Init, StageInv, RawStaysInside, Stage, CacheInv, ReplayIsOwn,
     Handling, Pumping
<1>3. Init => FanInv
  BY DEF Init, FanInv, Fan, From, Extracted, Attached
<1> QED
  BY <1>1, <1>2, <1>3, TypeStep, StageStep, CacheStep, FanStep, PTL DEF Spec

(* For any requests, tenants, redactions and prompts extracted from them,  *)
(* and any interleaving, what a request is given from the cache was        *)
(* answered to its own tenant, outside test scenarios, for a request that  *)
(* came with the very same body, or for one whose redacted body is read as *)
(* what this one came with.                                                *)
THEOREM ReplaysAreOwn == Spec => []ReplayIsOwn
BY GatewayInv, PTL DEF CacheInv

(* No provider is ever sent a body that redaction was to clean, by the     *)
(* router or by the failover of a stream, and none is logged.              *)
THEOREM RawNeverLeaves == Spec => []RawStaysInside
BY GatewayInv, PTL DEF StageInv

(* Whatever the verdicts and their order, a tool that the message of an    *)
(* answer calls runs only after every call of that message was let pass.   *)
THEOREM ToolsAreAllowed == Spec => []AllowedOnly
<1>1. FanInv => AllowedOnly
  BY DEF FanInv, Fan, AllowedOnly, Answered
<1> QED
  BY <1>1, GatewayInv, PTL

(* For any number of calls, any window and any order they end in, an       *)
(* answer goes out when each of its calls has come back, once; what is     *)
(* attached is the result of calls of that answer, and nothing to a body   *)
(* that cannot hold it.                                                    *)
THEOREM ResultsMatchCalls == Spec => []ResultsAreOwn
<1>1. TypeOK /\ FanInv => ResultsAreOwn
  <2> SUFFICES ASSUME TypeOK, FanInv PROVE ResultsAreOwn
    OBVIOUS
  <2>1. ASSUME NEW r \in Request
        PROVE  /\ \A j, k \in DOMAIN results[r] :
                     results[r][j][1] = results[r][k][1] => j = k
               /\ From(r) \subseteq 1..Len(Extracted(r))
               /\ pc[r] = "answered" =>
                     From(r) = 1..Len(Extracted(r)) /\ (place[r] = "array" => Attached(r) = {})
    <3>1. Len(Extracted(r)) \in Nat /\ todo[r] \in Nat
      BY DEF Extracted, TypeOK
    <3> QED
      BY <3>1 DEF FanInv, Fan
  <2>2. \A r \in Request : Attached(r) \subseteq From(r)
    BY DEF Attached, From
  <2>3. ASSUME NEW r \in Request, pc[r] = "answered", NEW i \in 1..Len(Extracted(r))
        PROVE  {j \in DOMAIN results[r] : results[r][j][1] = i} # {}
    BY <2>1, <2>3 DEF From
  <2> QED
    BY <2>1, <2>2, <2>3 DEF ResultsAreOwn
<1> QED
  BY <1>1, GatewayInv, PTL

-----------------------------------------------------------------------------
(* The collector's side of a stream: what it has when it has taken n       *)
(* chunks, if the stream is clean.                                         *)
Adds(sum, s) ==
    /\ sum[0] = 0
    /\ \A i \in DOMAIN s :
          sum[i] = sum[i - 1] + (IF s[i].kind = "text" THEN s[i].size ELSE 0)

Sum(s) == CHOOSE sum \in [0..Len(s) -> 0..(Buffer - 1)] : Adds(sum, s)

Took(t, h, s, n) ==
    /\ \A i, j \in DOMAIN t : i < j => t[i][2] < t[j][2]
    /\ {t[i] : i \in DOMAIN t} = {<<Fallbacks, i>> : i \in {k \in Texts(s) : k <= n}}
    /\ h = Sum(s)[n]

LEMMA CleanSum ==
    ASSUME NEW s \in Seq(Event), Clean(s)
    PROVE  Adds(Sum(s), s) /\ \A i \in 0..Len(s) : Sum(s)[i] \in Nat /\ Sum(s)[i] < Buffer
<1>1. \E sum \in [0..Len(s) -> 0..(Buffer - 1)] : Adds(sum, s)
  BY DEF Clean, Adds
<1>2. Sum(s) \in [0..Len(s) -> 0..(Buffer - 1)] /\ Adds(Sum(s), s)
  BY <1>1 DEF Sum
<1>3. ASSUME NEW i \in 0..Len(s) PROVE Sum(s)[i] \in 0..(Buffer - 1)
  BY <1>2
<1>4. \A k \in 0..(Buffer - 1) : k \in Nat /\ k < Buffer
  BY GatewayAssumption
<1> QED
  BY <1>2, <1>3, <1>4

LEMMA TookNone ==
    ASSUME NEW s \in Seq(Event), Clean(s)
    PROVE  Took(<< >>, 0, s, 0)
<1>1. Sum(s)[0] = 0
  BY CleanSum DEF Adds
<1>2. {k \in Texts(s) : k <= 0} = {}
  BY DEF Texts
<1> QED
  BY <1>1, <1>2 DEF Took

LEMMA TookOther ==
    ASSUME NEW s \in Seq(Event), Clean(s), NEW t, NEW h, NEW n \in Nat, n + 1 <= Len(s),
           Took(t, h, s, n), s[n + 1].kind # "text"
    PROVE  Took(t, h, s, n + 1)
<1>1. Sum(s)[n + 1] = Sum(s)[n]
  <2>1. n + 1 \in DOMAIN s /\ (n + 1) - 1 = n
    OBVIOUS
  <2>2. n \in 0..Len(s)
    BY <2>1
  <2>3. Sum(s)[n] \in Nat
    BY <2>2, CleanSum
  <2>4. Sum(s)[n + 1] = Sum(s)[n] + 0
    BY <2>1, CleanSum DEF Adds
  <2> QED
    BY <2>3, <2>4
<1>2. {k \in Texts(s) : k <= n + 1} = {k \in Texts(s) : k <= n}
  <2>1. \A k \in Texts(s) : k \in Nat /\ k # n + 1
    BY DEF Texts
  <2> QED
    BY <2>1
<1> QED
  BY <1>1, <1>2 DEF Took

LEMMA TookText ==
    ASSUME NEW s \in Seq(Event), Clean(s), NEW n \in Nat, n + 1 <= Len(s),
           NEW t \in Seq((0..Fallbacks) \X (Nat \ {0})), NEW h, Took(t, h, s, n),
           s[n + 1].kind = "text"
    PROVE  /\ h + s[n + 1].size < Buffer
           /\ Took(Append(t, <<Fallbacks, n + 1>>), h + s[n + 1].size, s, n + 1)
<1> DEFINE u == Append(t, <<Fallbacks, n + 1>>)
<1>1. n + 1 \in DOMAIN s /\ (n + 1) - 1 = n
  OBVIOUS
<1>2. Sum(s)[n + 1] = h + s[n + 1].size
  BY <1>1, CleanSum DEF Adds, Took
<1>3. Sum(s)[n + 1] < Buffer
  <2>1. n + 1 \in 0..Len(s)
    BY <1>1
  <2> QED
    BY <2>1, CleanSum
<1>4. /\ Len(t) \in Nat /\ DOMAIN t = 1..Len(t) /\ DOMAIN u = 1..(Len(t) + 1)
      /\ u[Len(t) + 1] = <<Fallbacks, n + 1>>
      /\ \A i \in 1..Len(t) : u[i] = t[i] /\ t[i][2] \in Nat
  OBVIOUS
<1>5. \A i \in 1..(Len(t) + 1) : i \in 1..Len(t) \/ i = Len(t) + 1
  BY <1>4
<1>6. ASSUME NEW i \in 1..Len(t) PROVE t[i][2] <= n
  <2>1. t[i] \in {<<Fallbacks, k>> : k \in {k \in Texts(s) : k <= n}}
    BY <1>4 DEF Took
  <2> QED
    BY <2>1
<1> HIDE DEF u
<1>7. \A i, j \in DOMAIN u : i < j => u[i][2] < u[j][2]
  <2> SUFFICES ASSUME NEW i \in 1..(Len(t) + 1), NEW j \in 1..(Len(t) + 1), i < j
               PROVE  u[i][2] < u[j][2]
    BY <1>4
  <2>1. i \in 1..Len(t)
    BY <1>4
  <2>2. CASE j \in 1..Len(t)
    BY <1>4, <2>1, <2>2 DEF Took
  <2>3. CASE j = Len(t) + 1
    <3>1. u[j][2] = n + 1 /\ u[i][2] \in Nat /\ u[i][2] <= n
      BY <1>4, <1>6, <2>1, <2>3
    <3> QED
      BY <3>1
  <2> QED
    BY <1>5, <2>2, <2>3
<1>8. {u[i] : i \in DOMAIN u} = {t[i] : i \in DOMAIN t} \cup {<<Fallbacks, n + 1>>}
  <2>1. ASSUME NEW i \in 1..(Len(t) + 1)
        PROVE  u[i] \in {t[j] : j \in DOMAIN t} \cup {<<Fallbacks, n + 1>>}
    BY <1>4, <1>5
  <2>2. ASSUME NEW i \in 1..Len(t) PROVE t[i] \in {u[j] : j \in DOMAIN u}
    <3>1. i \in DOMAIN u /\ t[i] = u[i]
      BY <1>4
    <3> QED
      BY <3>1
  <2>3. <<Fallbacks, n + 1>> \in {u[j] : j \in DOMAIN u}
    <3>1. Len(t) + 1 \in DOMAIN u
      BY <1>4
    <3> QED
      BY <1>4, <3>1
  <2> QED
    BY <1>4, <2>1, <2>2, <2>3
<1>9. {k \in Texts(s) : k <= n + 1} = {k \in Texts(s) : k <= n} \cup {n + 1}
  <2>1. \A k \in Texts(s) : k \in Nat
    BY DEF Texts
  <2>2. n + 1 \in Texts(s)
    BY <1>1 DEF Texts
  <2> QED
    BY <2>1, <2>2
<1>10. {u[i] : i \in DOMAIN u} = {<<Fallbacks, i>> : i \in {k \in Texts(s) : k <= n + 1}}
  BY <1>8, <1>9 DEF Took
<1>11. Took(u, h + s[n + 1].size, s, n + 1)
  BY <1>2, <1>7, <1>10 DEF Took
<1> QED
  BY <1>2, <1>3, <1>11 DEF u

Unbroken(r) == rest[r] = Fallbacks /\ ~lost[r]

First(r) == Stream[r][Fallbacks]

(* While it collects, what was relayed is collected or in the channel.     *)
Collecting(r) ==
    LET n == at[r] - Len(queue[r]) IN
    /\ n \in Nat
    /\ \A i \in 1..Len(queue[r]) : queue[r][i] = <<Fallbacks, n + i>>
    /\ Took(text[r], held[r], First(r), n)

Whole(r) ==
    /\ pc[r] \in Handling =>
          at[r] = 0 /\ queue[r] = << >> /\ text[r] = << >> /\ held[r] = 0
    /\ pc[r] \in {"reading", "sandbox", "fanout"} => sent[r] \notin Streaming
    /\ rest[r] = Fallbacks => at[r] <= Len(First(r))
    /\ Clean(First(r)) /\ Unbroken(r) /\ task[r] = "collecting" =>
          Collecting(r) /\ (pc[r] = "answered" => at[r] = Len(First(r)))
    /\ (/\ Clean(First(r)) /\ Unbroken(r) /\ task[r] \in {"due", "done"}
        /\ replay[r] = Nobody /\ sent[r] \in Streaming
        /\ pc[r] \in {"streaming", "answered"})
       => Took(text[r], held[r], First(r), Len(First(r))) /\ at[r] = Len(First(r))

WholeInv == \A r \in Request : Whole(r)

(* A step that leaves the stream of q alone. *)
Untouched(q) ==
    /\ at'[q] = at[q] /\ rest'[q] = rest[q] /\ queue'[q] = queue[q]
    /\ text'[q] = text[q] /\ held'[q] = held[q] /\ lost'[q] = lost[q]

LEMMA StreamFrame ==
    ASSUME NEW q \in Request, Whole(q), Untouched(q), task'[q] = task[q],
           replay'[q] = replay[q], sent'[q] = sent[q],
           pc'[q] \in {pc[q], "broken", "refused", "gone", "aborted"}
    PROVE  Whole(q)'
BY DEF Whole, Unbroken, Collecting, First, Untouched, Handling

(* Where the handler goes, and what it has set up by then.                 *)
LEMMA HandlerStep ==
    ASSUME TypeOK, NEW r \in Request, Admit(r) \/ Forward(r) \/ Buffered(r) \/ Drop(r),
           ~Hit(r), ~Attach(r)
    PROVE  /\ pc'[r] # "answered"
           /\ pc'[r] = "streaming" => task'[r] = "collecting"
           /\ pc'[r] \in {"reading", "sandbox", "fanout"} =>
                 \/ sent'[r] \notin Streaming
                 \/ pc[r] \in {"reading", "sandbox", "fanout"} /\ sent' = sent
<1> USE DEF Goes, handlerVars, TypeOK
<1>1. CASE Admit(r)
  BY <1>1 DEF Admit, TurnAway, Inspect, Redact, RedactFails, Miss
<1>2. CASE Forward(r)
  BY <1>2 DEF Forward, Refuse, Dispatch, UpstreamFails, BeginBody, BeginStream
<1>3. CASE Buffered(r)
  <2>1. CASE ReadFails(r) \/ Ignored(r) \/ Launch(r) \/ AttachFails(r)
    BY <2>1 DEF ReadFails, Ignored, Launch, AttachFails
  <2>2. CASE \E f \in Format, a \in Answers[r] : Read(r, f, a)
    BY <2>2 DEF Read
  <2>3. CASE \E v \in [Questions(r) -> Verdict] :
                Allow(r, v) \/ Intercept(r, v) \/ Deny(r, v) \/ NoVerdict(r, v)
    BY <2>3 DEF Allow, Intercept, Deny, NoVerdict, Hears
  <2>4. CASE \E i \in flying[r], known \in BOOLEAN : Land(r, i, known)
    BY <2>4 DEF Land
  <2> QED
    BY <1>3, <2>1, <2>2, <2>3, <2>4 DEF Buffered
<1>4. CASE Drop(r)
  BY <1>4 DEF Drop
<1> QED
  BY <1>1, <1>2, <1>3, <1>4

LEMMA StreamOthers ==
    ASSUME TypeOK, NEW r \in Request, Step(r), NEW q \in Request, q # r
    PROVE  Untouched(q)
<1> USE DEF Untouched, TypeOK, streamVars
<1>1. CASE Admit(r)
  BY <1>1 DEF Admit, TurnAway, Inspect, Redact, RedactFails, Hit, Miss
<1>2. CASE Forward(r)
  BY <1>2 DEF Forward, Refuse, Dispatch, UpstreamFails, BeginBody, BeginStream
<1>3. CASE Buffered(r) \/ Client(r)
  BY <1>3 DEF Buffered, ReadFails, Read, Ignored, Allow, Intercept, Deny, NoVerdict, Hears,
     Launch, Land, Attach, AttachFails, Client, Drop, Stall, Leave
<1>4. CASE Pump(r)
  <2>1. CASE Relay(r)
    BY <2>1 DEF Relay
  <2>2. CASE Stitch(r) \/ StitchFails(r)
    BY <2>2 DEF Stitch, StitchFails
  <2> QED
    BY <1>4, <2>1, <2>2 DEF Pump, Complete, Break, Abort
<1>5. CASE Collect(r)
  <2>1. queue' = [queue EXCEPT ![r] = Tail(@)] /\ UNCHANGED <<at, rest, lost>>
    BY <1>5 DEF Collect
  <2>2. text'[q] = text[q] /\ held'[q] = held[q]
    <3>1. \/ UNCHANGED <<text, held>>
          \/ \E t, h : text' = [text EXCEPT ![r] = t] /\ held' = [held EXCEPT ![r] = h]
      BY <1>5 DEF Collect
    <3> QED
      BY <3>1
  <2> QED
    BY <2>1, <2>2
<1>6. CASE Collector(r) /\ ~Collect(r)
  BY <1>6 DEF Collector, Collected, Record
<1> QED
  BY <1>1, <1>2, <1>3, <1>4, <1>5, <1>6 DEF Step

LEMMA WholeStep == WholeInv /\ TypeOK /\ [Next]_vars => WholeInv'
<1> SUFFICES ASSUME WholeInv, TypeOK, [Next]_vars PROVE WholeInv'
  OBVIOUS
<1> USE GatewayAssumption
<1>1. ASSUME NEW r \in Request, Step(r) PROVE Whole(r)'
  <2>0. Whole(r)
    BY DEF WholeInv
  <2>s. First(r) \in Seq(Event) /\ First(r)' = First(r) /\ Len(First(r)) \in Nat
    <3>1. Fallbacks \in 0..Fallbacks
      OBVIOUS
    <3>2. Stream[r][Fallbacks] \in Seq(Event)
      BY <3>1
    <3> QED
      BY <3>2 DEF First
  <2>1. CASE Admit(r) \/ Forward(r) \/ Buffered(r) \/ Drop(r)
    <3>1. Untouched(r) /\ pc[r] \in Handling
      BY <2>1 DEF Admit, TurnAway, Inspect, Redact, RedactFails, Hit, Miss,
         Forward, Refuse, Dispatch, UpstreamFails, BeginBody, BeginStream, Buffered, ReadFails,
         Read, Ignored, Allow, Intercept, Deny, NoVerdict, Hears, Launch, Land, Attach,
         AttachFails, Drop, Goes, Handling, Untouched, streamVars
    <3>2. at'[r] = 0 /\ queue'[r] = << >> /\ text'[r] = << >> /\ held'[r] = 0
      BY <2>0, <3>1 DEF Whole, Untouched
    <3>3. at'[r] <= Len(First(r)')
      BY <2>s, <3>2
    <3>4. Clean(First(r)) => Collecting(r)'
      <4>1. Clean(First(r)) => Took(<< >>, 0, First(r), 0)
        BY <2>s, TookNone
      <4>2. Len(queue'[r]) = 0 /\ at'[r] - Len(queue'[r]) = 0
        <5>1. Len(<< >>) = 0
          OBVIOUS
        <5>2. Len(queue'[r]) = 0
          BY <3>2, <5>1
        <5>3. at'[r] = 0
          BY <3>2
        <5> QED
          BY <5>2, <5>3
      <4>3. \A i \in 1..Len(queue'[r]) : FALSE
        BY <4>2
      <4>4. at'[r] - Len(queue'[r]) \in Nat
        BY <4>2
      <4>5. Clean(First(r)) => Took(text'[r], held'[r], First(r)', at'[r] - Len(queue'[r]))
        BY <2>s, <3>2, <4>1, <4>2
      <4> QED
        BY <4>3, <4>4, <4>5 DEF Collecting
    <3>5. CASE Hit(r)
      <4>1. replay'[r] # Nobody /\ pc'[r] = "answered" /\ task'[r] = "due"
        BY <3>5 DEF Hit, Goes, Found, TypeOK
      <4> QED
        BY <3>3, <4>1 DEF Whole, Handling
    <3>6. CASE Attach(r)
      <4>1. sent'[r] \notin Streaming /\ pc'[r] = "answered" /\ task'[r] = "due"
        BY <2>0, <3>6 DEF Attach, Goes, Whole, handlerVars, TypeOK
      <4> QED
        BY <3>3, <4>1 DEF Whole, Handling
    <3>7. CASE ~Hit(r) /\ ~Attach(r)
      <4>1. /\ pc'[r] # "answered"
            /\ pc'[r] = "streaming" => task'[r] = "collecting"
            /\ pc'[r] \in {"reading", "sandbox", "fanout"} =>
                  \/ sent'[r] \notin Streaming
                  \/ pc[r] \in {"reading", "sandbox", "fanout"} /\ sent' = sent
        BY <2>1, <3>7, HandlerStep
      <4> QED
        BY <2>0, <2>s, <3>2, <3>3, <3>4, <4>1 DEF Whole
    <3> QED
      BY <3>5, <3>6, <3>7
  <2>2. CASE Pump(r)
    <3>1. CASE Relay(r)
      <4> DEFINE m == Len(queue[r])
      <4>1. pc'[r] = "streaming" /\ task' = task /\ sent' = sent /\ replay' = replay
            /\ text' = text /\ held' = held /\ rest' = rest /\ at'[r] = at[r] + 1
            /\ pc[r] = "streaming"
        BY <3>1 DEF Relay, TypeOK, handlerVars, taskVars
      <4>2. rest[r] = Fallbacks => at[r] < Len(First(r))
        BY <3>1 DEF Relay, Events, First
      <4>3. at[r] \in Nat /\ m \in Nat
        BY DEF TypeOK
      <4>4. rest'[r] = Fallbacks => at'[r] <= Len(First(r)')
        BY <2>s, <4>1, <4>2, <4>3
      <4>5. ~(Clean(First(r)) /\ Unbroken(r)' /\ task'[r] \in {"due", "done"}
              /\ replay'[r] = Nobody /\ sent'[r] \in Streaming)
        <5>1. CASE task[r] \in {"due", "done"}
          <6>1. lost'[r] = lost[r]
            BY <3>1, <5>1 DEF Relay, TypeOK
          <6> QED
            BY <2>0, <2>s, <4>1, <4>2, <4>3, <6>1 DEF Whole, Unbroken
        <5> QED
          BY <4>1, <5>1
      <4>6. ASSUME Clean(First(r)), Unbroken(r)', task[r] = "collecting"
            PROVE  Collecting(r)'
        <5> DEFINE n == at[r] - m
        <5>1. m < Channel /\ Unbroken(r)
          <6>1. lost'[r] <=> lost[r] \/ m >= Channel
            BY <3>1, <4>6 DEF Relay, TypeOK
          <6> HIDE DEF m
          <6> QED
            BY <4>1, <4>3, <4>6, <6>1 DEF Unbroken
        <5>2. /\ n \in Nat /\ \A i \in 1..m : queue[r][i] = <<Fallbacks, n + i>>
              /\ Took(text[r], held[r], First(r), n)
          BY <2>0, <4>6, <5>1 DEF Whole, Collecting
        <5>3. queue'[r] = Append(queue[r], <<Fallbacks, at[r] + 1>>)
          BY <3>1, <4>6, <5>1 DEF Relay, TypeOK, Unbroken
        <5>4. queue[r] \in Seq((0..Fallbacks) \X (Nat \ {0}))
          BY DEF TypeOK
        <5>5. Len(queue'[r]) = m + 1 /\ queue'[r][m + 1] = <<Fallbacks, at[r] + 1>>
              /\ \A i \in 1..m : queue'[r][i] = queue[r][i]
          BY <5>3, <5>4
        <5> HIDE DEF m
        <5>6. at'[r] - Len(queue'[r]) = n /\ at[r] + 1 = n + (m + 1)
          BY <4>1, <4>3, <5>5
        <5>7. \A i \in 1..(m + 1) : i \in 1..m \/ i = m + 1
          BY <4>3
        <5> HIDE DEF n
        <5>8. \A i \in 1..Len(queue'[r]) : queue'[r][i] = <<Fallbacks, n + i>>
          BY <5>2, <5>5, <5>6, <5>7
        <5> QED
          BY <2>s, <4>1, <5>2, <5>6, <5>8 DEF Collecting
      <4> QED
        BY <2>s, <4>1, <4>4, <4>5, <4>6 DEF Whole, Handling
    <3>2. CASE Complete(r)
      <4>1. pc[r] = "streaming" /\ pc'[r] = "answered" /\ task' = task /\ sent' = sent
            /\ replay' = replay /\ Untouched(r)
        BY <3>2 DEF Complete, Goes, TypeOK, handlerVars, taskVars, streamVars, Untouched
      <4>2. rest[r] = Fallbacks => at[r] = Len(First(r))
        BY <3>2 DEF Complete, Events, First
      <4>3. Collecting(r) => Collecting(r)'
        BY <2>s, <4>1 DEF Collecting, Untouched
      <4> QED
        BY <2>0, <2>s, <4>1, <4>2, <4>3 DEF Whole, Unbroken, Untouched, Handling
    <3>3. CASE Stitch(r) \/ StitchFails(r)
      <4>1. rest'[r] # Fallbacks /\ pc'[r] \in {"broken", "streaming"}
        BY <3>3 DEF Stitch, StitchFails, Goes, TypeOK
      <4> QED
        BY <4>1 DEF Whole, Unbroken, Handling
    <3>4. CASE Break(r) \/ Abort(r)
      <4>1. /\ Untouched(r) /\ task'[r] = task[r] /\ replay'[r] = replay[r]
            /\ sent'[r] = sent[r] /\ pc'[r] \in {"broken", "aborted"}
        BY <3>4 DEF Break, Abort, Goes, TypeOK, handlerVars, taskVars, streamVars, Untouched
      <4> QED
        BY <2>0, <4>1, StreamFrame
    <3> QED
      BY <2>2, <3>1, <3>2, <3>3, <3>4 DEF Pump
  <2>3. CASE Stall(r) \/ Leave(r)
    <3>1. /\ Untouched(r) /\ task'[r] = task[r] /\ replay'[r] = replay[r]
          /\ sent'[r] = sent[r] /\ pc'[r] \in {pc[r], "gone"}
      BY <2>3 DEF Stall, Leave, TypeOK, handlerVars, taskVars, streamVars, Untouched
    <3> QED
      BY <2>0, <3>1, StreamFrame
  <2>4. CASE Collector(r)
    <3>0. pc' = pc /\ sent' = sent /\ replay' = replay /\ rest' = rest /\ lost' = lost
          /\ at' = at
      <4>1. CASE Collect(r)
        BY <4>1 DEF Collect, handlerVars
      <4>2. CASE Collected(r) \/ \E kept \in BOOLEAN : Record(r, kept)
        BY <4>2 DEF Collected, Record, handlerVars, streamVars
      <4> QED
        BY <2>4, <4>1, <4>2 DEF Collector
    <3>1. CASE Collect(r)
      <4> DEFINE c == Head(queue[r])
                 s == First(r)
                 m == Len(queue[r])
                 n == at[r] - m
      <4>1. task[r] = "collecting" /\ queue[r] # << >> /\ queue'[r] = Tail(queue[r])
        BY <3>1 DEF Collect, TypeOK
      <4>2. pc[r] \notin Handling
        BY <2>0, <4>1 DEF Whole
      <4>3. CASE ~(Clean(First(r)) /\ Unbroken(r))
        BY <2>0, <2>s, <3>0, <4>2, <4>3 DEF Whole, Unbroken, Handling
      <4>4. CASE Clean(First(r)) /\ Unbroken(r)
        <5>1. /\ n \in Nat /\ \A i \in 1..m : queue[r][i] = <<Fallbacks, n + i>>
              /\ Took(text[r], held[r], s, n)
              /\ pc[r] = "answered" => at[r] = Len(s)
          BY <2>0, <4>1, <4>4 DEF Whole, Collecting
        <5>2. /\ queue[r] \in Seq((0..Fallbacks) \X (Nat \ {0})) /\ at[r] \in Nat
              /\ text[r] \in Seq((0..Fallbacks) \X (Nat \ {0})) /\ m \in Nat \ {0}
          <6>1. /\ queue[r] \in Seq((0..Fallbacks) \X (Nat \ {0})) /\ at[r] \in Nat
                /\ text[r] \in Seq((0..Fallbacks) \X (Nat \ {0}))
            BY DEF TypeOK
          <6>2. m \in Nat \ {0}
            BY <4>1, <6>1
          <6> QED
            BY <6>1, <6>2
        <5>3. c = <<Fallbacks, n + 1>>
          <6>1. c = queue[r][1]
            BY <4>1, <5>2
          <6>2. 1 \in 1..m
            <7> HIDE DEF m
            <7> QED
              BY <5>2
          <6> HIDE DEF m, n, c
          <6> QED
            BY <5>1, <6>1, <6>2
        <5>4. /\ Len(queue'[r]) = m - 1
              /\ \A i \in 1..(m - 1) : queue'[r][i] = queue[r][i + 1]
          BY <4>1, <5>2
        <5>5. at[r] <= Len(s)
          BY <2>0, <4>4 DEF Whole, Unbroken
        <5>6. n + 1 <= Len(s) /\ at'[r] - Len(queue'[r]) = n + 1
              /\ (n + 1 = Len(s) => at[r] = Len(s))
          <6>1. at' = at /\ Len(s) \in Nat
            BY <2>s, <3>0
          <6> HIDE DEF m, s
          <6> QED
            BY <5>1, <5>2, <5>4, <5>5, <6>1
        <5>7. \A i \in 1..Len(queue'[r]) : queue'[r][i] = <<Fallbacks, (n + 1) + i>>
          <6>1. \A i \in 1..(m - 1) : i + 1 \in 1..m /\ n + (i + 1) = (n + 1) + i
            <7> HIDE DEF m, n
            <7> QED
              BY <5>1, <5>2
          <6> HIDE DEF m, n
          <6> QED
            BY <5>1, <5>4, <6>1
        <5>8. Stream[r][c[1]][c[2]] = s[n + 1]
          BY <5>3 DEF First
        <5>9. s[n + 1] \in Event /\ s[n + 1].kind # "bad" /\ n + 1 \in DOMAIN s
              /\ (s[n + 1].kind = "done" => n + 1 = Len(s))
          <6> HIDE DEF n, s
          <6>1. n + 1 \in DOMAIN s
            BY <2>s, <5>1, <5>6 DEF s
          <6> QED
            BY <2>s, <4>4, <6>1 DEF Clean, s
        <5>a. CASE s[n + 1].kind = "text"
          <6>1. /\ held[r] + s[n + 1].size < Buffer
                /\ Took(Append(text[r], <<Fallbacks, n + 1>>), held[r] + s[n + 1].size, s, n + 1)
            BY <2>s, <4>4, <5>1, <5>2, <5>6, <5>a, TookText
          <6>2. /\ text'[r] = Append(text[r], c)
                /\ held'[r] = held[r] + s[n + 1].size /\ task' = task
            <7> HIDE DEF s, n
            <7> QED
              BY <3>1, <5>8, <5>a, <6>1 DEF Collect, TypeOK
          <6>3. Took(text'[r], held'[r], First(r)', n + 1)
            BY <2>s, <5>3, <6>1, <6>2
          <6>4. Collecting(r)'
            BY <5>1, <5>6, <5>7, <6>3 DEF Collecting
          <6> QED
            BY <2>0, <2>s, <3>0, <4>1, <4>2, <5>1, <6>2, <6>4 DEF Whole, Unbroken
        <5>b. CASE s[n + 1].kind # "text"
          <6>1. Took(text[r], held[r], s, n + 1)
            BY <2>s, <4>4, <5>1, <5>6, <5>b, TookOther
          <6>2. UNCHANGED <<text, held>>
            <7> HIDE DEF s, n
            <7> QED
              BY <3>1, <5>8, <5>b DEF Collect
          <6>3. Took(text'[r], held'[r], First(r)', n + 1)
            BY <2>s, <6>1, <6>2
          <6>4. CASE s[n + 1].kind = "done"
            <7>1. task'[r] = "due"
              <8> HIDE DEF s, n
              <8> QED
                BY <3>1, <5>8, <6>4 DEF Collect, TypeOK
            <7>2. Took(text'[r], held'[r], First(r)', Len(First(r)')) /\ at'[r] = Len(First(r)')
              BY <2>s, <3>0, <5>6, <5>9, <6>3, <6>4
            <7> QED
              BY <2>0, <2>s, <3>0, <4>2, <7>1, <7>2 DEF Whole, Unbroken
          <6>5. CASE s[n + 1].kind # "done"
            <7>1. task' = task
              <8> HIDE DEF s, n
              <8> QED
                BY <3>1, <5>8, <5>9, <6>5 DEF Collect
            <7>2. Collecting(r)'
              BY <5>1, <5>6, <5>7, <6>3 DEF Collecting
            <7> QED
              BY <2>0, <2>s, <3>0, <4>1, <4>2, <5>1, <7>1, <7>2 DEF Whole, Unbroken
          <6> QED
            BY <6>4, <6>5
        <5> QED
          BY <5>a, <5>b
      <4> QED
        BY <4>3, <4>4
    <3>2. CASE Collected(r)
      <4>1. task[r] = "collecting" /\ queue[r] = << >> /\ pc[r] \in Over /\ Untouched(r)
            /\ task'[r] = "due"
        BY <3>2 DEF Collected, TypeOK, Untouched, streamVars
      <4>2. Clean(First(r)) /\ Unbroken(r) /\ pc[r] = "answered" =>
               Took(text[r], held[r], First(r), Len(First(r))) /\ at[r] = Len(First(r))
        <5>1. Len(queue[r]) = 0 /\ at[r] \in Nat
          BY <4>1 DEF TypeOK
        <5>2. at[r] - Len(queue[r]) = at[r]
          BY <5>1
        <5> QED
          BY <2>0, <4>1, <5>2 DEF Whole, Collecting
      <4> QED
        BY <2>0, <2>s, <3>0, <4>1, <4>2 DEF Whole, Unbroken, Untouched, Over, Handling
    <3>3. ASSUME NEW kept \in BOOLEAN, Record(r, kept) PROVE Whole(r)'
      <4>1. task[r] = "due" /\ task'[r] = "done" /\ Untouched(r)
        BY <3>3 DEF Record, TypeOK, Untouched, streamVars
      <4> QED
        BY <2>0, <2>s, <3>0, <4>1 DEF Whole, Unbroken, Untouched
    <3> QED
      BY <2>4, <3>1, <3>2, <3>3 DEF Collector
  <2> QED
    BY <1>1, <2>1, <2>2, <2>3, <2>4 DEF Step, Client
<1>2. ASSUME NEW r \in Request, Step(r), NEW q \in Request \ {r} PROVE Whole(q)'
  <2>1. Untouched(q) /\ task'[q] = task[q] /\ replay'[q] = replay[q] /\ sent'[q] = sent[q]
        /\ pc'[q] = pc[q]
    BY <1>2, Others, StreamOthers DEF Filed
  <2> QED
    BY <2>1, StreamFrame DEF WholeInv
<1>3. CASE (\E k \in DOMAIN cache : Expire(k)) \/ UNCHANGED vars
  <2>1. \A q \in Request :
           /\ Untouched(q) /\ task'[q] = task[q] /\ replay'[q] = replay[q]
           /\ sent'[q] = sent[q] /\ pc'[q] = pc[q]
    BY <1>3 DEF Expire, vars, Untouched, streamVars, taskVars, handlerVars
  <2> QED
    BY <2>1, StreamFrame DEF WholeInv
<1> QED
  BY <1>1, <1>2, <1>3 DEF Next, WholeInv

(* For streams of any length and any channel, buffer and number of         *)
(* fallbacks: of a stream that nothing cut, that the event parser takes to *)
(* its end and whose text stays under the buffer's bound, the collector    *)
(* ends with every text, in order and once.                                *)
THEOREM UncutStreamsAreWhole == Spec => []WholeUnlessCut
<1>1. Init => WholeInv
  <2>1. ASSUME Init, NEW r \in Request PROVE Whole(r)
    <3>1. Fallbacks \in 0..Fallbacks
      BY GatewayAssumption
    <3>2. Stream[r][Fallbacks] \in Seq(Event)
      BY <3>1, GatewayAssumption
    <3>3. Len(First(r)) \in Nat
      BY <3>2 DEF First
    <3> QED
      BY <2>1, <3>3 DEF Init, Whole
  <2> QED
    BY <2>1 DEF WholeInv
<1>2. TypeOK /\ WholeInv => WholeUnlessCut
  <2> SUFFICES ASSUME TypeOK, WholeInv, NEW r \in Request,
                      pc[r] = "answered", sent[r] \in Streaming, replay[r] = Nobody,
                      rest[r] = Fallbacks, ~lost[r], task[r] \in {"due", "done"},
                      Clean(Stream[r][Fallbacks])
               PROVE  /\ \A i, j \in DOMAIN text[r] : i < j => text[r][i][2] < text[r][j][2]
                      /\ {text[r][i] : i \in DOMAIN text[r]}
                            = {<<Fallbacks, i>> : i \in Texts(Stream[r][Fallbacks])}
    BY DEF WholeUnlessCut
  <2>1. Took(text[r], held[r], First(r), Len(First(r)))
    BY DEF WholeInv, Whole, Unbroken, First
  <2>2. {k \in Texts(First(r)) : k <= Len(First(r))} = Texts(First(r))
    <3>1. Fallbacks \in 0..Fallbacks
      BY GatewayAssumption
    <3>2. Stream[r][Fallbacks] \in Seq(Event)
      BY <3>1, GatewayAssumption
    <3> QED
      BY <3>2 DEF Texts, First
  <2> QED
    BY <2>1, <2>2 DEF Took, First
<1> QED
  BY <1>1, <1>2, WholeStep, GatewayTypes, PTL DEF Spec
====
