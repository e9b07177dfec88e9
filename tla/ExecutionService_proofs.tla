------------------------- MODULE ExecutionService_proofs -------------------------
(***************************************************************************)
(* Theorems about ExecutionService, for any set of calls, keys and faults. *)
(***************************************************************************)
EXTENDS ExecutionInvariants, TLAPS

-------------------------------------------------------------------------------
(* The operations on entries *)

\* Every operation of the store makes an entry of an entry.
LEMMA AbsentIsEntry == Absent \in Entry
  BY DEF Absent, Entry, State

LEMMA FirstEntryIsEntry == ASSUME NEW c \in Caller PROVE FirstEntry(c) \in Entry
  BY DEF FirstEntry, Entry, State

LEMMA ReclaimedIsEntry ==
    ASSUME NEW e \in Entry, NEW c \in Caller
    PROVE  Reclaimed(e, c) \in Entry
<1>1. e.version + 1 \in Nat /\ e.content \in BOOLEAN
  BY DEF Entry
<1> QED
  BY <1>1 DEF Reclaimed, Entry, State

LEMMA StampedIsEntry ==
    ASSUME NEW e \in Entry, NEW s \in State
    PROVE  Stamped(e, s) \in Entry
<1> DEFINE b == e.content \/ s = "Succeeded"
<1>1. b \in BOOLEAN
  OBVIOUS
<1>2. Stamped(e, s) = [state |-> s, version |-> e.version, holder |-> e.holder,
                       content |-> b]
  BY DEF Stamped
<1> HIDE DEF b
<1> QED
  BY <1>1, <1>2 DEF Entry

\* The state an attempt records is one the store can hold.
LEMMA OutcomeIsState == \A r : Outcome(r) \in {"Succeeded", "Failed", "Unknown"}
  BY DEF Outcome

-------------------------------------------------------------------------------
(* Type correctness *)

LEMMA TypeInit == Init => TypeOK
  BY AbsentIsEntry, KeyOfAssumption
  DEF Init, TypeOK, HandlerPC, AttemptPC, Answer, Reply, Call, Verdict, State,
      Entry, Absent

\* The helpers that end or redirect a handler keep its variables typed.
LEMMA ProceedTyped ==
    ASSUME TypeOK, NEW c \in Caller, NEW e \in Entry, Proceed(c, e)
    PROVE  /\ pc' \in [Caller -> HandlerPC]
           /\ ver' \in [Caller -> Nat]
           /\ goal' \in [Caller -> State]
           /\ retry' \in SUBSET Caller
           /\ answer' \in [Caller -> Answer]
  BY ZenonT(40) DEF TypeOK, Proceed, BeginMark, Finish, HandlerPC, State, Answer, Entry

LEMMA AfterMarkTyped ==
    ASSUME TypeOK, NEW c \in Caller, AfterMark(c)
    PROVE  /\ pc' \in [Caller -> HandlerPC]
           /\ answer' \in [Caller -> Answer]
  BY DEF TypeOK, AfterMark, Finish, HandlerPC, Answer

LEMMA TypeStep == TypeOK /\ [Next]_vars => TypeOK'
<1> SUFFICES ASSUME TypeOK, [Next]_vars PROVE TypeOK'
  OBVIOUS
<1> USE DEF vars, handlerVars, attemptVars, wireVars
<1>1. CASE UNCHANGED vars
  BY <1>1 DEF TypeOK
<1>2. ASSUME NEW k \in Key, Evict(k) PROVE TypeOK'
  BY <1>2, AbsentIsEntry DEF TypeOK, Evict
<1>3. ASSUME NEW c \in Caller,
             \/ Arrive(c) \/ Handler(c) \/ Disconnect(c)
             \/ Attempt(c) \/ Abort(c) \/ Apply(c) \/ LeaseExpires(c)
      PROVE  TypeOK'
  <2> KeyOf[c] \in Key
    BY KeyOfAssumption
  <2> Absent \in Entry /\ FirstEntry(c) \in Entry
    BY AbsentIsEntry, FirstEntryIsEntry
  <2>1. CASE Arrive(c)
    BY <2>1 DEF TypeOK, Arrive, HandlerPC
  <2>2. CASE ClaimGet(c)
    <3> DEFINE e == store[KeyOf[c]]
    <3> e \in Entry
      BY DEF TypeOK
    <3>1. CASE pc' = [pc EXCEPT ![c] = "init"] /\ UNCHANGED <<saw, ver, goal, retry, answer>>
      BY <2>2, <3>1 DEF TypeOK, ClaimGet, HandlerPC
    <3>2. CASE /\ pc' = [pc EXCEPT ![c] = "put"] /\ saw' = [saw EXCEPT ![c] = e]
               /\ UNCHANGED <<ver, goal, retry, answer>>
      BY <2>2, <3>2 DEF TypeOK, ClaimGet, HandlerPC
    <3>3. CASE Proceed(c, e) /\ UNCHANGED saw
      BY <2>2, <3>3, ProceedTyped DEF TypeOK, ClaimGet
    <3> QED
      BY <2>2, <3>1, <3>2, <3>3 DEF ClaimGet
  <2>3. CASE ClaimPut(c)
    <3> DEFINE e == Reclaimed(saw[c], c)
    <3> e \in Entry
      BY ReclaimedIsEntry DEF TypeOK
    <3>1. Proceed(c, e)
      BY <2>3 DEF ClaimPut
    <3> QED
      BY <2>3, <3>1, ProceedTyped DEF TypeOK, ClaimPut
  <2>4. CASE ClaimInit(c)
    <3> DEFINE old == store[KeyOf[c]]
               e == IF old.state = "Absent" THEN FirstEntry(c) ELSE old
    <3> e \in Entry
      BY DEF TypeOK
    <3>1. Proceed(c, e)
      BY <2>4 DEF ClaimInit
    <3> QED
      BY <2>4, <3>1, ProceedTyped DEF TypeOK, ClaimInit
  <2>5. CASE Reconcile(c)
    BY <2>5 DEF TypeOK, Reconcile, BeginMark, Finish, HandlerPC, State, Answer, Verdict
  <2>6. CASE MarkGet(c)
    <3>1. CASE AfterMark(c) /\ UNCHANGED saw
      BY <2>6, <3>1, AfterMarkTyped DEF TypeOK, MarkGet
    <3>2. CASE ~(AfterMark(c) /\ UNCHANGED saw)
      BY <2>6, <3>2 DEF TypeOK, MarkGet, HandlerPC
    <3> QED
      BY <3>1, <3>2
  <2>7. CASE MarkPut(c)
    <3>1. Stamped(saw[c], goal[c]) \in Entry
      BY StampedIsEntry DEF TypeOK
    <3> QED
      BY <2>7, <3>1, AfterMarkTyped DEF TypeOK, MarkPut
  <2>8. CASE Spawn(c)
    BY <2>8 DEF TypeOK, Spawn, HandlerPC, AttemptPC
  <2>9. CASE Join(c)
    BY <2>9 DEF TypeOK, Join, Finish, HandlerPC, Answer
  <2>10. CASE GiveUp(c)
    BY <2>10 DEF TypeOK, GiveUp, BeginMark, HandlerPC, State
  <2>11. CASE Disconnect(c)
    BY <2>11 DEF TypeOK, Disconnect, HandlerPC
  <2>12. CASE Attempt(c)
    <3> \A r : Outcome(r) \in State
      BY OutcomeIsState DEF State
    <3>1. CASE Unrouted(c)
      BY <2>12, <3>1 DEF TypeOK, Unrouted, Returned, AttemptPC, Reply
    <3>2. CASE Send(c)
      BY <2>12, <3>2 DEF TypeOK, Send, AttemptPC, Call
    <3>3. CASE ReplyOk(c)
      BY <2>12, <3>3 DEF TypeOK, ReplyOk, Returned, AttemptPC, Reply, Call
    <3>4. CASE ReplyError(c)
      BY <2>12, <3>4 DEF TypeOK, ReplyError, Returned, AttemptPC, Reply, Call
    <3>5. CASE ReplyLost(c)
      BY <2>12, <3>5 DEF TypeOK, ReplyLost, Returned, AttemptPC, Reply
    <3>6. CASE AttemptMarkGet(c)
      BY <2>12, <3>6 DEF TypeOK, AttemptMarkGet, AttemptPC
    <3>7. CASE AttemptMarkPut(c)
      <4>1. Stamped(tsaw[c], tgoal[c]) \in Entry
        BY StampedIsEntry DEF TypeOK
      <4> QED
        BY <3>7, <4>1 DEF TypeOK, AttemptMarkPut, AttemptPC
    <3> QED
      BY <2>12, <3>1, <3>2, <3>3, <3>4, <3>5, <3>6, <3>7 DEF Attempt
  <2>13. CASE Abort(c)
    BY <2>13 DEF TypeOK, Abort, AttemptPC
  <2>14. CASE Apply(c)
    BY <2>14 DEF TypeOK, Apply, Call
  <2>15. CASE LeaseExpires(c)
    BY <2>15 DEF TypeOK, LeaseExpires
  <2> QED
    BY <1>3, <2>1, <2>2, <2>3, <2>4, <2>5, <2>6, <2>7, <2>8, <2>9, <2>10, <2>11,
       <2>12, <2>13, <2>14, <2>15 DEF Handler
<1> QED
  BY <1>1, <1>2, <1>3 DEF Next

\* Every variable stays in its range: the store only ever holds the states
\* create_or_claim expects, under any interleaving and any fault.
THEOREM TypeCorrect == Spec => []TypeOK
  BY TypeInit, TypeStep, PTL DEF Spec

-------------------------------------------------------------------------------
(* Records never say more than the server or the reconciler said *)

LEMMA RecordsInit == Init => RecordsInv
  BY KeyOfAssumption
  DEF Init, RecordsInv, AnsweredOnce, RecordsAreBacked, Backed, Entitled, Absent

LEMMA AnsweredOnceStep ==
    ASSUME TypeOK, AnsweredOnce, [Next]_vars
    PROVE  AnsweredOnce'
<1> USE DEF AnsweredOnce, TypeOK, vars, handlerVars, attemptVars, wireVars
<1>1. CASE UNCHANGED vars
  BY <1>1
<1>2. ASSUME NEW k \in Key, Evict(k) PROVE AnsweredOnce'
  BY <1>2 DEF Evict
<1>3. ASSUME NEW c \in Caller, Handler(c) PROVE AnsweredOnce'
  <2>1. CASE ClaimGet(c)
    BY <2>1 DEF ClaimGet, Proceed, BeginMark, Finish
  <2>2. CASE ClaimPut(c)
    BY <2>2 DEF ClaimPut, Proceed, BeginMark, Finish
  <2>3. CASE ClaimInit(c)
    BY <2>3 DEF ClaimInit, Proceed, BeginMark, Finish
  <2>4. CASE Reconcile(c)
    BY <2>4 DEF Reconcile, BeginMark, Finish
  <2>5. CASE MarkGet(c)
    BY <2>5 DEF MarkGet, AfterMark, Finish
  <2>6. CASE MarkPut(c)
    BY <2>6 DEF MarkPut, AfterMark, Finish
  <2>7. CASE Spawn(c)
    BY <2>7 DEF Spawn
  <2>8. CASE Join(c)
    BY <2>8 DEF Join, Finish
  <2>9. CASE GiveUp(c)
    BY <2>9 DEF GiveUp, BeginMark
  <2> QED
    BY <1>3, <2>1, <2>2, <2>3, <2>4, <2>5, <2>6, <2>7, <2>8, <2>9 DEF Handler
<1>4. ASSUME NEW c \in Caller, Attempt(c) PROVE AnsweredOnce'
  BY <1>4 DEF Attempt, Unrouted, Send, ReplyOk, ReplyError, ReplyLost, Returned,
              AttemptMarkGet, AttemptMarkPut
<1>5. ASSUME NEW c \in Caller,
             Arrive(c) \/ Disconnect(c) \/ Abort(c) \/ Apply(c) \/ LeaseExpires(c)
      PROVE  AnsweredOnce'
  BY <1>5 DEF Arrive, Disconnect, Abort, Apply, LeaseExpires, Attempting
<1> QED
  BY <1>1, <1>2, <1>3, <1>4, <1>5 DEF Next

\* An answer stays: a key confirmed or rejected once is so for good.
LEMMA AnswersStay ==
    ASSUME TypeOK, AnsweredOnce, [Next]_vars
    PROVE  /\ Confirmed \subseteq Confirmed'
           /\ Rejected \subseteq Rejected'
<1>1. ASSUME NEW d \in Caller
      PROVE  /\ reply[d] # "none" => reply'[d] = reply[d]
             /\ verdict[d] # "none" => verdict'[d] = verdict[d]
  <2> USE DEF TypeOK, AnsweredOnce, vars, handlerVars, attemptVars, wireVars
  <2>1. CASE UNCHANGED vars
    BY <2>1
  <2>2. ASSUME NEW k \in Key, Evict(k) PROVE UNCHANGED <<reply, verdict>>
    BY <2>2 DEF Evict
  <2>3. ASSUME NEW c \in Caller, Handler(c), ~Reconcile(c)
        PROVE  UNCHANGED <<reply, verdict>>
    BY <2>3 DEF Handler, ClaimGet, ClaimPut, ClaimInit, MarkGet, MarkPut, Spawn,
                Join, GiveUp
  <2>4. ASSUME NEW c \in Caller, Reconcile(c)
        PROVE  /\ UNCHANGED reply
               /\ verdict[d] # "none" => verdict'[d] = verdict[d]
    BY <2>4 DEF Reconcile
  <2>5. ASSUME NEW c \in Caller, Attempt(c)
        PROVE  /\ UNCHANGED verdict
               /\ reply[d] # "none" => reply'[d] = reply[d]
    BY <2>5 DEF Attempt, Unrouted, Send, ReplyOk, ReplyError, ReplyLost, Returned,
                AttemptMarkGet, AttemptMarkPut
  <2>6. ASSUME NEW c \in Caller,
               Arrive(c) \/ Disconnect(c) \/ Abort(c) \/ Apply(c) \/ LeaseExpires(c)
        PROVE  UNCHANGED <<reply, verdict>>
    BY <2>6 DEF Arrive, Disconnect, Abort, Apply, LeaseExpires
  <2> QED
    BY <2>1, <2>2, <2>3, <2>4, <2>5, <2>6 DEF Next
<1> QED
  BY <1>1 DEF Confirmed, Rejected

LEMMA RecordsStep == TypeOK /\ TypeOK' /\ RecordsInv /\ [Next]_vars => RecordsInv'
<1> SUFFICES ASSUME TypeOK, TypeOK', AnsweredOnce, RecordsAreBacked, [Next]_vars
             PROVE  RecordsAreBacked'
  BY AnsweredOnceStep DEF RecordsInv
<1>0. Confirmed \subseteq Confirmed' /\ Rejected \subseteq Rejected'
  BY AnswersStay
<1> USE DEF TypeOK, RecordsAreBacked, Backed, Entitled, vars, handlerVars,
            attemptVars, wireVars
<1>1. CASE UNCHANGED vars
  BY <1>0, <1>1
<1>2. ASSUME NEW k \in Key, Evict(k) PROVE RecordsAreBacked'
  BY <1>0, <1>2 DEF Evict, Absent
<1>3. ASSUME NEW c \in Caller, Handler(c) PROVE RecordsAreBacked'
  <2> KeyOf \in [Caller -> Key] /\ KeyOf[c] \in Key
    BY KeyOfAssumption
  <2>1. CASE ClaimGet(c)
    BY <1>0, <2>1 DEF ClaimGet, Proceed, BeginMark, Finish
  <2>2. CASE ClaimPut(c)
    BY <1>0, <2>2 DEF ClaimPut, Proceed, BeginMark, Finish, Reclaimed, Absent
  <2>3. CASE ClaimInit(c)
    BY <1>0, <2>3 DEF ClaimInit, Proceed, BeginMark, Finish, FirstEntry
  <2>4. CASE Reconcile(c)
    <3>1. verdict'[c] = "succeeded" => KeyOf[c] \in Confirmed'
      BY DEF Confirmed
    <3>2. verdict'[c] = "failed" => KeyOf[c] \in Rejected'
      BY DEF Rejected
    <3> QED
      BY <1>0, <2>4, <3>1, <3>2 DEF Reconcile, BeginMark, Finish
  <2>5. CASE MarkGet(c)
    BY <1>0, <2>5 DEF MarkGet, AfterMark, Finish
  <2>6. CASE MarkPut(c)
    <3>1. Backed(Stamped(saw[c], goal[c]), KeyOf[c])
      BY DEF Stamped
    <3>2. \A k \in Key : Backed(store[k], k)'
      <4> DEFINE e == Stamped(saw[c], goal[c])
      <4>1. store' = [store EXCEPT ![KeyOf[c]] = e]
        BY <2>6 DEF MarkPut
      <4> HIDE DEF e
      <4> QED
        BY <1>0, <3>1, <4>1 DEF e
    <3>3. /\ saw' = [saw EXCEPT ![c] = Absent] /\ AfterMark(c)
          /\ UNCHANGED <<goal, attemptVars>>
      BY <2>6 DEF MarkPut
    <3> QED
      BY <1>0, <3>2, <3>3 DEF AfterMark, Finish, Absent
  <2>7. CASE Spawn(c)
    BY <1>0, <2>7 DEF Spawn
  <2>8. CASE Join(c)
    BY <1>0, <2>8 DEF Join, Finish, Confirmed
  <2>9. CASE GiveUp(c)
    BY <1>0, <2>9 DEF GiveUp, BeginMark
  <2> QED
    BY <1>3, <2>1, <2>2, <2>3, <2>4, <2>5, <2>6, <2>7, <2>8, <2>9 DEF Handler
<1>4. ASSUME NEW c \in Caller, Attempt(c) PROVE RecordsAreBacked'
  <2> KeyOf \in [Caller -> Key] /\ KeyOf[c] \in Key
    BY KeyOfAssumption
  <2>1. ASSUME NEW r \in Reply, Returned(c, r)
        PROVE  Entitled(tgoal[c], KeyOf[c])'
    <3>1. reply'[c] = r /\ tgoal'[c] = Outcome(r)
      BY <2>1 DEF Returned
    <3>2. r \in {"ok", "rpcError"} => KeyOf[c] \in Confirmed'
      BY <3>1 DEF Confirmed
    <3>3. r = "httpError" => KeyOf[c] \in Rejected'
      BY <3>1 DEF Rejected
    <3> QED
      BY <3>1, <3>2, <3>3 DEF Outcome
  <2>2. CASE Unrouted(c) \/ ReplyOk(c) \/ ReplyError(c) \/ ReplyLost(c)
    <3>1. PICK r \in Reply : Returned(c, r)
      BY <2>2 DEF Unrouted, ReplyOk, ReplyError, ReplyLost, Reply
    <3>2. UNCHANGED <<store, handlerVars, tsaw>>
      BY <2>2 DEF Unrouted, ReplyOk, ReplyError, ReplyLost
    <3>3. \A d \in Caller : d # c => tgoal'[d] = tgoal[d]
      BY <3>1 DEF Returned
    <3> QED
      BY <1>0, <2>1, <3>1, <3>2, <3>3
  <2>3. CASE Send(c)
    BY <1>0, <2>3 DEF Send
  <2>4. CASE AttemptMarkGet(c)
    BY <1>0, <2>4 DEF AttemptMarkGet
  <2>5. CASE AttemptMarkPut(c)
    BY ZenonT(40), <1>0, <2>5 DEF AttemptMarkPut, Stamped, Absent
  <2> QED
    BY <1>4, <2>2, <2>3, <2>4, <2>5 DEF Attempt
<1>5. ASSUME NEW c \in Caller,
             Arrive(c) \/ Disconnect(c) \/ Abort(c) \/ Apply(c) \/ LeaseExpires(c)
      PROVE  RecordsAreBacked'
  BY <1>0, <1>5 DEF Arrive, Disconnect, Abort, Apply, LeaseExpires, Absent
<1> QED
  BY <1>1, <1>2, <1>3, <1>4, <1>5 DEF Next

\* Every record goes back to what the server or the reconciler said, under any
\* interleaving and any fault.
THEOREM RecordsAlways == Spec => []RecordsInv
  BY TypeCorrect, TypeInit, RecordsInit, RecordsStep, PTL DEF Spec

\* No interleaving and no fault makes up a success: what a key holds, and what
\* a call answers, goes back to a confirmation by the server or reconciler.
THEOREM SuccessIsAlwaysConfirmed == Spec => []SuccessIsConfirmed
<1>1. RecordsInv => SuccessIsConfirmed
  BY DEF RecordsInv, RecordsAreBacked, Backed, SuccessIsConfirmed
<1> QED
  BY <1>1, RecordsAlways, PTL

\* No interleaving and no fault turns a lost answer into Failed.
THEOREM FailureIsAlwaysConfirmed == Spec => []FailureIsConfirmed
<1>1. RecordsInv => FailureIsConfirmed
  BY DEF RecordsInv, RecordsAreBacked, Backed, FailureIsConfirmed
<1> QED
  BY <1>1, RecordsAlways, PTL

-------------------------------------------------------------------------------
(* Once a guarded key has settled in Unknown, no call on it is tried again *)
(* before the reconciler has said Failed                                   *)

\* A call reaches the server by its attempt only, and a guarded key is never
\* claimed a second time by the same call.
CallsAreNew ==
    \A c \in Caller :
        /\ tpc[c] \in {"none", "start"} => call[c] = "unsent"
        /\ c \in retry => KeyOf[c] \notin Guarded

LEMMA CallsAreNewStep ==
    ASSUME TypeOK, AnsweredOnce, CallsAreNew, [Next]_vars
    PROVE  CallsAreNew'
<1> USE DEF TypeOK, AnsweredOnce, CallsAreNew, vars, handlerVars, attemptVars, wireVars
<1>1. CASE UNCHANGED vars
  BY <1>1
<1>2. ASSUME NEW k \in Key, Evict(k) PROVE CallsAreNew'
  BY <1>2 DEF Evict
<1>3. ASSUME NEW c \in Caller, Handler(c) PROVE CallsAreNew'
  <2>1. /\ UNCHANGED call
        /\ \A d \in Caller : tpc'[d] = tpc[d] \/ tpc[d] = "none"
    BY <1>3 DEF Handler, ClaimGet, ClaimPut, ClaimInit, Reconcile, MarkGet, MarkPut,
                Spawn, Join, GiveUp
  <2>2. ASSUME NEW e, Proceed(c, e) PROVE \A d \in retry' : d \in retry \/ KeyOf[d] \notin Guarded
    BY <2>2 DEF Proceed
  <2>3. \A d \in retry' : d \in retry \/ KeyOf[d] \notin Guarded
    BY <1>3, <2>2 DEF Handler, ClaimGet, ClaimPut, ClaimInit, Reconcile, MarkGet, MarkPut,
                      Spawn, Join, GiveUp
  <2> QED
    BY <2>1, <2>3
<1>4. ASSUME NEW c \in Caller, Attempt(c) PROVE CallsAreNew'
  BY <1>4 DEF Attempt, Unrouted, Send, ReplyOk, ReplyError, ReplyLost, Returned,
              AttemptMarkGet, AttemptMarkPut
<1>5. ASSUME NEW c \in Caller,
             Arrive(c) \/ Disconnect(c) \/ Abort(c) \/ Apply(c) \/ LeaseExpires(c)
      PROVE  CallsAreNew'
  BY <1>5 DEF Arrive, Disconnect, Abort, Apply, LeaseExpires
<1> QED
  BY <1>1, <1>2, <1>3, <1>4, <1>5 DEF Next

\* Nobody is at work on k or can come to work on it: its entry says Unknown or
\* Succeeded, and its handlers are asking, or recording a success.
Stuck(k) ==
    /\ store[k].state \in {"Unknown", "Succeeded"}
    /\ \A d \in Caller : KeyOf[d] = k =>
          /\ ~Attempting(d)
          /\ pc[d] \notin {"put", "init", "spawn", "wait"}
          /\ pc[d] \in {"markGet", "markPut"} => goal[d] = "Succeeded"

SaidFailed(k) == \E d \in Caller : KeyOf[d] = k /\ verdict[d] = "failed"

\* What SettledUnknown leads to and nothing ends.
Blocked(c) == SaidFailed(KeyOf[c]) \/ (Stuck(KeyOf[c]) /\ call[c] = "unsent")

\* The reconciler's word stays.
LEMMA FailedStays ==
    ASSUME TypeOK, TypeOK', RecordsInv, [Next]_vars, NEW k, SaidFailed(k)
    PROVE  SaidFailed(k)'
<1>1. PICK d \in Caller : KeyOf[d] = k /\ verdict[d] = "failed"
  BY DEF SaidFailed
<1> USE DEF TypeOK, RecordsInv, AnsweredOnce, vars, handlerVars, attemptVars, wireVars
<1>2. ASSUME NEW c \in Caller, Handler(c), ~Reconcile(c) PROVE UNCHANGED verdict
  BY <1>2 DEF Handler, ClaimGet, ClaimPut, ClaimInit, MarkGet, MarkPut, Spawn, Join, GiveUp
<1>3. ASSUME NEW c \in Caller, Reconcile(c) PROVE verdict'[d] = verdict[d]
  BY <1>1, <1>3 DEF Reconcile
<1>4. ASSUME NEW c \in Caller, Attempt(c) PROVE UNCHANGED verdict
  BY <1>4 DEF Attempt, Unrouted, Send, ReplyOk, ReplyError, ReplyLost, AttemptMarkGet,
              AttemptMarkPut
<1>5. verdict'[d] = verdict[d]
  BY <1>2, <1>3, <1>4 DEF Next, Arrive, Disconnect, Abort, Apply, LeaseExpires, Evict
<1> QED
  BY <1>1, <1>5 DEF SaidFailed

\* On a guarded key that is stuck nothing is claimed or spawned.
LEMMA StuckStays ==
    ASSUME "evict" \notin Faults, TypeOK, TypeOK', RecordsInv, CallsAreNew, [Next]_vars,
           NEW k \in Guarded, Stuck(k), ~SaidFailed(k)'
    PROVE  Stuck(k)'
<1> USE GuardedAssumption, KeyOfAssumption
    DEF TypeOK, CallsAreNew, Stuck, Attempting, vars, handlerVars, attemptVars, wireVars
<1>1. CASE UNCHANGED vars
  BY <1>1
<1>2. ASSUME NEW c \in Caller, Handler(c) PROVE Stuck(k)'
  <2>1. CASE ClaimGet(c)
    BY <2>1 DEF ClaimGet, Proceed, BeginMark, Finish, Reclaimable
  <2>2. CASE ClaimPut(c)
    BY <2>2 DEF ClaimPut, Proceed, BeginMark, Finish
  <2>3. CASE ClaimInit(c)
    BY <2>3 DEF ClaimInit, Proceed, BeginMark, Finish
  <2>4. CASE Reconcile(c)
    BY <2>4 DEF Reconcile, BeginMark, Finish, SaidFailed
  <2>5. CASE MarkGet(c)
    BY <2>5 DEF MarkGet, AfterMark, Finish
  <2>6. CASE MarkPut(c)
    BY <2>6 DEF MarkPut, AfterMark, Finish, Stamped
  <2>7. CASE Spawn(c)
    BY <2>7 DEF Spawn
  <2>8. CASE Join(c)
    BY <2>8 DEF Join, Finish
  <2>9. CASE GiveUp(c)
    BY <2>9 DEF GiveUp, BeginMark
  <2> QED
    BY <1>2, <2>1, <2>2, <2>3, <2>4, <2>5, <2>6, <2>7, <2>8, <2>9 DEF Handler
<1>3. ASSUME NEW c \in Caller, Attempt(c) PROVE Stuck(k)'
  BY <1>3 DEF Attempt, Unrouted, Send, ReplyOk, ReplyError, ReplyLost, Returned,
              AttemptMarkGet, AttemptMarkPut
<1>4. ASSUME NEW c \in Caller,
             Arrive(c) \/ Disconnect(c) \/ Abort(c) \/ Apply(c) \/ LeaseExpires(c)
      PROVE  Stuck(k)'
  BY <1>4 DEF Arrive, Disconnect, Abort, Apply, LeaseExpires
<1> QED
  BY <1>1, <1>2, <1>3, <1>4 DEF Next, Evict

\* A call is sent by its own attempt.
LEMMA UnsentStays ==
    ASSUME TypeOK, [Next]_vars, NEW c \in Caller, ~Attempting(c), call[c] = "unsent"
    PROVE  call'[c] = "unsent"
<1> USE DEF TypeOK, Attempting, vars, handlerVars, attemptVars, wireVars
<1>1. ASSUME NEW d \in Caller, Handler(d) PROVE UNCHANGED call
  BY <1>1 DEF Handler, ClaimGet, ClaimPut, ClaimInit, Reconcile, MarkGet, MarkPut, Spawn,
              Join, GiveUp
<1>2. ASSUME NEW d \in Caller, Attempt(d) PROVE call'[c] = "unsent"
  BY <1>2 DEF Attempt, Unrouted, Send, ReplyOk, ReplyError, ReplyLost, Returned,
              AttemptMarkGet, AttemptMarkPut
<1>3. ASSUME NEW d \in Caller, Apply(d) PROVE call'[c] = "unsent"
  BY <1>3 DEF Apply
<1> QED
  BY <1>1, <1>2, <1>3 DEF Next, Arrive, Disconnect, Abort, LeaseExpires, Evict

\* As long as the cache keeps what it holds, whatever else happens - calls that
\* overlap, leases that lapse, attempts that die, clients that leave, servers and
\* reconcilers that err - no call that comes after a guarded key has settled in
\* Unknown is sent before the reconciler has said Failed.
THEOREM UnknownKeysStayBlocked ==
    ASSUME "evict" \notin Faults
    PROVE  Spec => UnknownBlocksRetry
<1>1. Init => CallsAreNew
  BY KeyOfAssumption DEF Init, CallsAreNew
<1>2. TypeOK /\ RecordsInv /\ CallsAreNew /\ [Next]_vars => CallsAreNew'
  BY CallsAreNewStep DEF RecordsInv
<1>3. Spec => [](TypeOK /\ RecordsInv /\ CallsAreNew)
  BY <1>1, <1>2, TypeCorrect, RecordsAlways, PTL DEF Spec
<1>4. ASSUME NEW c \in Caller
      PROVE  Spec => []( KeyOf[c] \in Guarded /\ SettledUnknown(KeyOf[c]) /\ pc[c] = "idle"
                         => [](\/ call[c] = "unsent"
                               \/ \E d \in Peers(c) : verdict[d] = "failed"))
  <2> DEFINE Starts == KeyOf[c] \in Guarded /\ SettledUnknown(KeyOf[c]) /\ pc[c] = "idle"
             Keeps == KeyOf[c] \in Guarded /\ Blocked(c)
             Goal == \/ call[c] = "unsent"
                     \/ \E d \in Peers(c) : verdict[d] = "failed"
  <2>1. TypeOK /\ RecordsInv /\ CallsAreNew /\ Starts => Keeps
    BY DEF SettledUnknown, Blocked, Stuck, Handling, RecordsInv, AnsweredOnce, CallsAreNew
  <2>2. TypeOK /\ TypeOK' /\ RecordsInv /\ CallsAreNew /\ [Next]_vars /\ Keeps => Keeps'
    BY FailedStays, StuckStays, UnsentStays DEF Blocked, Stuck
  <2>3. Keeps => Goal
    BY DEF Blocked, SaidFailed, Peers
  <2> HIDE DEF Starts, Keeps, Goal
  <2>4. Spec => [](Starts => []Goal)
    BY <1>3, <2>1, <2>2, <2>3, PTL DEF Spec
  <2> QED
    BY <2>4 DEF Starts, Goal
<1> QED
  BY <1>4 DEF UnknownBlocksRetry

-------------------------------------------------------------------------------
(* What a guarded key is promised when the calls on it come one after the  *)
(* other and nothing but client disconnects, soft errors and definite      *)
(* answers of the reconciler happens, for any number of calls: the service *)
(* implements SingleEffect, and no two attempts carry the same version.    *)

-------------------------------------------------------------------------------
(* How the abstract state of SingleEffect depends on the calls *)

OpenCalls == [k \in Guarded |-> Open(k)]
ActedCalls == [k \in Guarded |-> Applied(k)]


\* A step that moves no call, and no attempt from or to its start, stutters.
LEMMA Stutters ==
    ASSUME UNCHANGED call,
           \A d \in Caller : tpc'[d] = "start" <=> tpc[d] = "start"
    PROVE  UNCHANGED <<OpenCalls, ActedCalls>>
  BY DEF OpenCalls, ActedCalls, Open, Applied

\* A step of c leaves all other calls alone.
OnlyMoves(c) ==
    \A d \in Caller \ {c} : tpc'[d] = tpc[d] /\ call'[d] = call[d]

\* On an unguarded key it stutters.
LEMMA UnguardedStutters ==
    ASSUME NEW c \in Caller, KeyOf[c] \notin Guarded, OnlyMoves(c)
    PROVE  UNCHANGED <<OpenCalls, ActedCalls>>
<1>1. \A k \in Guarded : Open(k)' = Open(k) /\ Applied(k)' = Applied(k)
  BY DEF OnlyMoves, Open, Applied
<1> QED
  BY <1>1 DEF OpenCalls, ActedCalls

\* A step of c on a guarded key replaces the two sets of that key.
LEMMA Moves ==
    ASSUME NEW c \in Caller, KeyOf[c] \in Guarded, OnlyMoves(c)
    PROVE  /\ OpenCalls[KeyOf[c]] = Open(KeyOf[c])
           /\ ActedCalls[KeyOf[c]] = Applied(KeyOf[c])
           /\ OpenCalls' = [OpenCalls EXCEPT ![KeyOf[c]] = Open(KeyOf[c])']
           /\ ActedCalls' = [ActedCalls EXCEPT ![KeyOf[c]] = Applied(KeyOf[c])']
<1>1. \A k \in Guarded : k # KeyOf[c] => Open(k)' = Open(k) /\ Applied(k)' = Applied(k)
  BY DEF OnlyMoves, Open, Applied
<1> QED
  BY <1>1 DEF OpenCalls, ActedCalls

-------------------------------------------------------------------------------
(* The refinement: when one attempt at a time is active, every step is a    *)
(* step of SingleEffect or leaves it alone                                  *)

LEMMA PromiseInit == Init => Promise!Init
  BY DEF Init, Promise!Init, Open, Applied

LEMMA PromiseStep ==
    ASSUME TypeOK, AnsweredOnce, OneAtATime, "abort" \notin Faults, [Next]_vars
    PROVE  Promise!Next \/ UNCHANGED <<OpenCalls, ActedCalls>>
<1> USE DEF TypeOK, handlerVars, attemptVars, wireVars
<1>1. CASE UNCHANGED vars
  BY <1>1, Stutters DEF vars
<1>2. ASSUME NEW k \in Key, Evict(k) PROVE UNCHANGED <<OpenCalls, ActedCalls>>
  BY <1>2, Stutters DEF Evict
<1>3. ASSUME NEW c \in Caller, Handler(c), ~Spawn(c) PROVE UNCHANGED <<OpenCalls, ActedCalls>>
  <2>1. UNCHANGED <<tpc, call>>
    BY <1>3 DEF Handler, ClaimGet, ClaimPut, ClaimInit, Reconcile, MarkGet, MarkPut,
                Join, GiveUp
  <2> QED
    BY <2>1, Stutters
<1>4. ASSUME NEW c \in Caller,
             Arrive(c) \/ Disconnect(c) \/ LeaseExpires(c)
      PROVE  UNCHANGED <<OpenCalls, ActedCalls>>
  <2>1. UNCHANGED <<tpc, call>>
    BY <1>4 DEF Arrive, Disconnect, LeaseExpires
  <2> QED
    BY <2>1, Stutters
<1>5. ASSUME NEW c \in Caller,
             AttemptMarkGet(c) \/ AttemptMarkPut(c) \/ ReplyLost(c)
      PROVE  UNCHANGED <<OpenCalls, ActedCalls>>
  BY <1>5, Stutters DEF AttemptMarkGet, AttemptMarkPut, ReplyLost, Returned
<1>6. ASSUME NEW c \in Caller, Abort(c) PROVE FALSE
  BY <1>6 DEF Abort
<1>7. ASSUME NEW c \in Caller,
             Spawn(c) \/ Unrouted(c) \/ Send(c) \/ ReplyOk(c) \/ ReplyError(c) \/ Apply(c)
      PROVE  Promise!Next \/ UNCHANGED <<OpenCalls, ActedCalls>>
  <2> DEFINE k == KeyOf[c]
  <2>1. OnlyMoves(c)
    BY <1>7 DEF Spawn, Unrouted, Send, ReplyOk, ReplyError, Apply, Returned, OnlyMoves
  <2>2. CASE k \notin Guarded
    BY <2>1, <2>2, UnguardedStutters
  <2>3. CASE k \in Guarded
    <3> USE <2>3
    \* Apart from c nobody is active on the key.
    <3>0. ASSUME Active(c) \/ Quiet(k), NEW d \in Caller \ {c}, KeyOf[d] = k
          PROVE  call[d] # "applied" /\ call[d] # "sent" /\ tpc[d] # "start"
      BY <3>0 DEF OneAtATime, OneActive, Peers, Active, Quiet, Attempting
    <3>1. CASE Spawn(c)
      <4>1. /\ Quiet(k) /\ call[c] = "unsent" /\ tpc[c] = "none"
            /\ tpc'[c] = "start" /\ call' = call
        BY <3>1 DEF Spawn, OneAtATime, Dispatching, CallOrder,
                    AnsweredOnce
      <4>2. Open(k) = {} /\ Applied(k) = {} /\ Open(k)' = {c} /\ Applied(k)' = {}
        BY <2>1, <3>0, <4>1 DEF Open, Applied, OnlyMoves
      <4>3. /\ OpenCalls[k] = {} /\ ActedCalls[k] = {}
            /\ OpenCalls' = [OpenCalls EXCEPT ![k] = {c}]
        BY <2>1, <4>2, Moves
      <4>4. ActedCalls' = ActedCalls
        BY <2>1, <4>2, Moves DEF ActedCalls
      <4> QED
        BY <4>3, <4>4 DEF Promise!Next, Promise!Begin, OpenCalls, ActedCalls
    <3>2. CASE \/ Unrouted(c)
               \/ (ReplyOk(c) \/ ReplyError(c)) /\ call[c] = "sent"
      <4>1. /\ Active(c)
            /\ tpc[c] = "start" \/ call[c] = "sent"
            /\ call[c] # "applied" /\ call'[c] \notin {"sent", "applied"}
            /\ tpc'[c] = "markGet" /\ c \in Open(k)
        BY <3>2 DEF Open, Unrouted, ReplyOk, ReplyError, Returned, OneAtATime, CallOrder,
                    Active, Attempting
      <4>2. Open(k) = {c} /\ Applied(k) = {} /\ Open(k)' = {} /\ Applied(k)' = {}
        <5>1. \A d \in Caller \ {c} : KeyOf[d] = k =>
                 /\ call[d] \notin {"sent", "applied"} /\ tpc[d] # "start"
                 /\ call'[d] \notin {"sent", "applied"} /\ tpc'[d] # "start"
          BY <2>1, <3>0, <4>1 DEF OnlyMoves
        <5>2. Open(k) = {c} /\ Open(k)' = {}
          BY <4>1, <5>1 DEF Open
        <5>3. Applied(k) = {} /\ Applied(k)' = {}
          BY <4>1, <5>1 DEF Applied
        <5> QED
          BY <5>2, <5>3
      <4>3. OpenCalls[k] = {c} /\ OpenCalls' = [OpenCalls EXCEPT ![k] = {}]
        BY <2>1, <4>2, Moves
      <4>4. ActedCalls' = ActedCalls
        BY <2>1, <4>2, Moves DEF ActedCalls
      <4> QED
        BY <4>3, <4>4 DEF Promise!Next, Promise!Withdraw, OpenCalls, ActedCalls
    <3>3. CASE Send(c)
      <4>1. /\ Active(c) /\ tpc[c] = "start" /\ call[c] = "unsent" /\ call'[c] = "sent"
        BY <3>3 DEF Send, Active, Attempting, OneAtATime, CallOrder
      <4>2. Open(k) = {c} /\ Applied(k) = {} /\ Open(k)' = {c} /\ Applied(k)' = {}
        BY <2>1, <3>0, <4>1 DEF Open, Applied, OnlyMoves
      <4> QED
        BY ZenonT(40), <2>1, <4>2, Moves DEF OpenCalls, ActedCalls
    <3>4. CASE (ReplyOk(c) \/ ReplyError(c)) /\ call[c] # "sent"
      <4>1. UNCHANGED call /\ tpc[c] = "sent" /\ tpc'[c] = "markGet"
        BY <3>4 DEF ReplyOk, ReplyError, Returned
      <4> QED
        BY <2>1, <4>1, Stutters DEF OnlyMoves
    <3>5. CASE Apply(c)
      <4>1. Active(c) /\ call[c] = "sent" /\ call'[c] = "applied" /\ tpc' = tpc
        BY <3>5 DEF Apply, Active
      <4>2. tpc[c] # "start"
        BY <4>1 DEF OneAtATime, CallOrder
      <4>3. Open(k) = {c} /\ Applied(k) = {} /\ Open(k)' = {} /\ Applied(k)' = {c}
        BY <2>1, <3>0, <4>1, <4>2 DEF Open, Applied, OnlyMoves
      <4>4. /\ OpenCalls[k] = {c} /\ OpenCalls' = [OpenCalls EXCEPT ![k] = {}]
            /\ ActedCalls' = [ActedCalls EXCEPT ![k] = {c}]
        BY <2>1, <4>3, Moves
      <4> QED
        BY <4>4 DEF Promise!Next, Promise!TakeEffect, OpenCalls, ActedCalls
    <3> QED
      BY <1>7, <3>1, <3>2, <3>3, <3>4, <3>5
  <2> QED
    BY <2>2, <2>3
<1> QED
  BY <1>1, <1>2, <1>3, <1>4, <1>5, <1>6, <1>7 DEF Next, Attempt

-------------------------------------------------------------------------------
(* One lemma for each step that the serial invariant is about *)

\* Without a fault an entry is reclaimed only when it is Failed, and then nobody
\* is at work on the key.
LEMMA SerialClaimGet ==
    ASSUME TypeOK, TypeOK', AnsweredOnce, SerialInv, Serially,
           NEW c \in Caller, ClaimGet(c)
    PROVE  SerialInv'
<1> USE KeyOfAssumption, NobodyAssumption
    DEF TypeOK, SerialInv, OneHandler, OneActive, CallOrder, DispatchIsQuiet,
        EntryIsRight, LeaseOutlives, AnsweredOnce, Serially, Peers, Handling,
        Attempting, handlerVars, attemptVars, wireVars
<1>1. OneHandler'
  BY DEF ClaimGet, Proceed, BeginMark, Finish, Reclaimable
<1>2. OneActive'
  BY DEF ClaimGet, Proceed, BeginMark, Finish, Reclaimable, Active,
     Dispatching, Quiet
<1>3. CallOrder'
  BY DEF ClaimGet, Proceed, BeginMark, Finish, Reclaimable
<1>4. DispatchIsQuiet'
  BY SMTT(30) DEF ClaimGet, Proceed, BeginMark, Finish, Reclaimable, Active,
     Dispatching, Quiet
<1>5. EntryIsRight'
  BY DEF ClaimGet, Proceed, BeginMark, Finish, Reclaimable, Active,
     Dispatching, Quiet
<1>6. LeaseOutlives'
  BY SMTT(60) DEF ClaimGet, Proceed, BeginMark, Finish, Reclaimable,
     Dispatching
<1> QED
  BY <1>1, <1>2, <1>3, <1>4, <1>5, <1>6

\* The reclaimed entry names its caller, which is the only one at work.
LEMMA SerialClaimPut ==
    ASSUME TypeOK, TypeOK', AnsweredOnce, SerialInv, Serially,
           NEW c \in Caller, ClaimPut(c)
    PROVE  SerialInv'
<1> USE KeyOfAssumption, NobodyAssumption
    DEF TypeOK, SerialInv, OneHandler, OneActive, CallOrder, DispatchIsQuiet,
        EntryIsRight, LeaseOutlives, AnsweredOnce, Serially, Peers, Handling,
        Attempting, handlerVars, attemptVars, wireVars
<1>1. OneHandler'
  BY SMTT(60) DEF ClaimPut, Proceed, BeginMark, Finish, Reclaimed, Absent
<1>2. OneActive'
  BY DEF ClaimPut, Proceed, BeginMark, Finish, Reclaimed, Absent, Active,
     Dispatching, Quiet
<1>3. CallOrder'
  BY SMTT(60) DEF ClaimPut, Proceed, BeginMark, Finish, Reclaimed, Absent
<1>4. DispatchIsQuiet'
  BY SMTT(60) DEF ClaimPut, Proceed, BeginMark, Finish, Reclaimed, Absent,
     Active, Dispatching, Quiet
<1>5. EntryIsRight'
  BY DEF ClaimPut, Proceed, BeginMark, Finish, Reclaimed, Absent, Active,
     Dispatching, Quiet
<1>6. LeaseOutlives'
  BY SMTT(30) DEF ClaimPut, Proceed, BeginMark, Finish, Reclaimed, Absent, Dispatching
<1> QED
  BY <1>1, <1>2, <1>3, <1>4, <1>5, <1>6

\* get_with finds the key still absent.
LEMMA SerialClaimInit ==
    ASSUME TypeOK, TypeOK', AnsweredOnce, SerialInv, Serially,
           NEW c \in Caller, ClaimInit(c)
    PROVE  SerialInv'
<1> USE KeyOfAssumption, NobodyAssumption
    DEF TypeOK, SerialInv, OneHandler, OneActive, CallOrder, DispatchIsQuiet,
        EntryIsRight, LeaseOutlives, AnsweredOnce, Serially, Peers, Handling,
        Attempting, handlerVars, attemptVars, wireVars
<1>1. OneHandler'
  BY SMTT(60) DEF ClaimInit, Proceed, BeginMark, Finish, FirstEntry
<1>2. OneActive'
  BY DEF ClaimInit, Proceed, BeginMark, Finish, FirstEntry, Active,
     Dispatching, Quiet
<1>3. CallOrder'
  BY DEF ClaimInit, Proceed, BeginMark, Finish, FirstEntry
<1>4. DispatchIsQuiet'
  BY SMTT(60) DEF ClaimInit, Proceed, BeginMark, Finish, FirstEntry, Active,
     Dispatching, Quiet
<1>5. EntryIsRight'
  BY DEF ClaimInit, Proceed, BeginMark, Finish, FirstEntry, Active,
     Dispatching, Quiet
<1>6. LeaseOutlives'
  BY SMTT(60) DEF ClaimInit, Proceed, BeginMark, Finish, FirstEntry, Dispatching
<1> QED
  BY <1>1, <1>2, <1>3, <1>4, <1>5, <1>6

\* Failed is said only of a quiet key.
LEMMA SerialReconcile ==
    ASSUME TypeOK, TypeOK', AnsweredOnce, SerialInv, Serially,
           NEW c \in Caller, Reconcile(c)
    PROVE  SerialInv'
<1> USE KeyOfAssumption, NobodyAssumption
    DEF TypeOK, SerialInv, OneHandler, OneActive, CallOrder, DispatchIsQuiet,
        EntryIsRight, LeaseOutlives, AnsweredOnce, Serially, Peers, Handling,
        Attempting, handlerVars, attemptVars, wireVars
<1>1. OneHandler'
  BY DEF Reconcile, BeginMark, Finish
<1>2. OneActive'
  BY DEF Reconcile, BeginMark, Finish, Active, Dispatching, Quiet
<1>3. CallOrder'
  BY DEF Reconcile, BeginMark, Finish
<1>4. DispatchIsQuiet'
  <2>1. /\ UNCHANGED <<store, saw, ver, attemptVars, call>>
        /\ \A d \in Caller : d # c => pc'[d] = pc[d] /\ goal'[d] = goal[d]
        /\ \/ pc'[c] = "markGet" /\ goal'[c] = "Succeeded"
           \/ pc'[c] = "markGet" /\ goal'[c] = "Failed" /\ Quiet(KeyOf[c])
           \/ pc'[c] = "done"
    BY SMTT(120) DEF Reconcile, BeginMark, Finish, Active, Quiet
  <2> QED
    BY <2>1 DEF Active, Dispatching, Quiet
<1>5. EntryIsRight'
  BY DEF Reconcile, BeginMark, Finish, Active, Dispatching, Quiet
<1>6. LeaseOutlives'
  BY SMTT(30) DEF Reconcile, BeginMark, Finish, Dispatching
<1> QED
  BY <1>1, <1>2, <1>3, <1>4, <1>5, <1>6

\* A dispatching handler finds its own version.
LEMMA SerialMarkGet ==
    ASSUME TypeOK, TypeOK', AnsweredOnce, SerialInv, Serially,
           NEW c \in Caller, MarkGet(c)
    PROVE  SerialInv'
<1> USE KeyOfAssumption, NobodyAssumption
    DEF TypeOK, SerialInv, OneHandler, OneActive, CallOrder, DispatchIsQuiet,
        EntryIsRight, LeaseOutlives, AnsweredOnce, Serially, Peers, Handling,
        Attempting, handlerVars, attemptVars, wireVars
<1>1. OneHandler'
  BY DEF MarkGet, AfterMark, Finish, Carries
<1>2. OneActive'
  BY DEF MarkGet, AfterMark, Finish, Carries, Active, Dispatching, Quiet
<1>3. CallOrder'
  BY DEF MarkGet, AfterMark, Finish, Carries
<1>4. DispatchIsQuiet'
  BY DEF MarkGet, AfterMark, Finish, Carries, Active, Dispatching, Quiet
<1>5. EntryIsRight'
  BY DEF MarkGet, AfterMark, Finish, Carries, Active, Dispatching, Quiet
<1>6. LeaseOutlives'
  BY SMTT(60) DEF MarkGet, AfterMark, Finish, Carries, Dispatching
<1> QED
  BY <1>1, <1>2, <1>3, <1>4, <1>5, <1>6

\* Running is written over the claim it was read from.
LEMMA SerialMarkPut ==
    ASSUME TypeOK, TypeOK', AnsweredOnce, SerialInv, Serially,
           NEW c \in Caller, MarkPut(c)
    PROVE  SerialInv'
<1> USE KeyOfAssumption, NobodyAssumption
    DEF TypeOK, SerialInv, OneHandler, OneActive, CallOrder, DispatchIsQuiet,
        EntryIsRight, LeaseOutlives, AnsweredOnce, Serially, Peers, Handling,
        Attempting, handlerVars, attemptVars, wireVars
<1>1. OneHandler'
  BY SMTT(30) DEF MarkPut, AfterMark, Finish, Stamped, Absent
<1>2. OneActive'
  BY DEF MarkPut, AfterMark, Finish, Stamped, Absent, Active, Dispatching,
     Quiet
<1>3. CallOrder'
  BY DEF MarkPut, AfterMark, Finish, Stamped, Absent
<1>4. DispatchIsQuiet'
  BY SMTT(60) DEF MarkPut, AfterMark, Finish, Stamped, Absent, Active,
     Dispatching, Quiet
<1>5. EntryIsRight'
  BY SMTT(60) DEF MarkPut, AfterMark, Finish, Stamped, Absent, Active,
     Dispatching, Quiet
<1>6. LeaseOutlives'
  BY SMTT(60) DEF MarkPut, AfterMark, Finish, Stamped, Absent, Dispatching
<1> QED
  BY <1>1, <1>2, <1>3, <1>4, <1>5, <1>6

\* The attempt starts on a quiet key.
LEMMA SerialSpawn ==
    ASSUME TypeOK, TypeOK', AnsweredOnce, SerialInv, Serially,
           NEW c \in Caller, Spawn(c)
    PROVE  SerialInv'
<1> USE KeyOfAssumption, NobodyAssumption
    DEF TypeOK, SerialInv, OneHandler, OneActive, CallOrder, DispatchIsQuiet,
        EntryIsRight, LeaseOutlives, AnsweredOnce, Serially, Peers, Handling,
        Attempting, handlerVars, attemptVars, wireVars
<1>1. OneHandler'
  BY DEF Spawn
<1>2. OneActive'
  BY DEF Spawn, Active, Dispatching, Quiet
<1>3. CallOrder'
  BY DEF Spawn
<1>4. DispatchIsQuiet'
  BY SMTT(30) DEF Spawn, Active, Dispatching, Quiet
<1>5. EntryIsRight'
  BY DEF Spawn, Active, Dispatching, Quiet
<1>6. LeaseOutlives'
  BY DEF Spawn, Dispatching
<1> QED
  BY <1>1, <1>2, <1>3, <1>4, <1>5, <1>6

\* A success, or a soft error.
LEMMA SerialReplyOk ==
    ASSUME TypeOK, TypeOK', AnsweredOnce, SerialInv, Serially,
           NEW c \in Caller, ReplyOk(c)
    PROVE  SerialInv'
<1> USE KeyOfAssumption, NobodyAssumption
    DEF TypeOK, SerialInv, OneHandler, OneActive, CallOrder, DispatchIsQuiet,
        EntryIsRight, LeaseOutlives, AnsweredOnce, Serially, Peers, Handling,
        Attempting, handlerVars, attemptVars, wireVars
<1>1. OneHandler'
  BY DEF ReplyOk, Returned, Outcome
<1>2. OneActive'
  BY DEF ReplyOk, Returned, Outcome, Active, Dispatching, Quiet
<1>3. CallOrder'
  BY DEF ReplyOk, Returned, Outcome
<1>4. DispatchIsQuiet'
  BY SMTT(60) DEF ReplyOk, Returned, Outcome, Active, Dispatching, Quiet
<1>5. EntryIsRight'
  BY DEF ReplyOk, Returned, Outcome, Active, Dispatching, Quiet
<1>6. LeaseOutlives'
  BY DEF ReplyOk, Returned, Outcome, Dispatching
<1> QED
  BY <1>1, <1>2, <1>3, <1>4, <1>5, <1>6

\* Failed goes with a refused call.
LEMMA SerialReplyError ==
    ASSUME TypeOK, TypeOK', AnsweredOnce, SerialInv, Serially,
           NEW c \in Caller, ReplyError(c)
    PROVE  SerialInv'
<1> USE KeyOfAssumption, NobodyAssumption
    DEF TypeOK, SerialInv, OneHandler, OneActive, CallOrder, DispatchIsQuiet,
        EntryIsRight, LeaseOutlives, AnsweredOnce, Serially, Peers, Handling,
        Attempting, handlerVars, attemptVars, wireVars
<1>1. OneHandler'
  BY DEF ReplyError, Returned, Outcome
<1>2. OneActive'
  BY DEF ReplyError, Returned, Outcome, Active, Dispatching, Quiet
<1>3. CallOrder'
  BY SMTT(30) DEF ReplyError, Returned, Outcome
<1>4. DispatchIsQuiet'
  BY DEF ReplyError, Returned, Outcome, Active, Dispatching, Quiet
<1>5. EntryIsRight'
  BY DEF ReplyError, Returned, Outcome, Active, Dispatching, Quiet
<1>6. LeaseOutlives'
  BY DEF ReplyError, Returned, Outcome, Dispatching
<1> QED
  BY <1>1, <1>2, <1>3, <1>4, <1>5, <1>6

\* The attempt finds its own version while the entry says Running.
LEMMA SerialAttemptMarkGet ==
    ASSUME TypeOK, TypeOK', AnsweredOnce, SerialInv, Serially,
           NEW c \in Caller, AttemptMarkGet(c)
    PROVE  SerialInv'
<1> USE KeyOfAssumption, NobodyAssumption
    DEF TypeOK, SerialInv, OneHandler, OneActive, CallOrder, DispatchIsQuiet,
        EntryIsRight, LeaseOutlives, AnsweredOnce, Serially, Peers, Handling,
        Attempting, handlerVars, attemptVars, wireVars
<1>1. OneHandler'
  BY DEF AttemptMarkGet, Carries
<1>2. OneActive'
  BY DEF AttemptMarkGet, Carries, Active, Dispatching, Quiet
<1>3. CallOrder'
  BY DEF AttemptMarkGet, Carries
<1>4. DispatchIsQuiet'
  BY SMTT(30) DEF AttemptMarkGet, Carries, Active, Dispatching, Quiet
<1>5. EntryIsRight'
  BY DEF AttemptMarkGet, Carries, Active, Dispatching, Quiet
<1>6. LeaseOutlives'
  BY SMTT(60) DEF AttemptMarkGet, Carries, Dispatching
<1> QED
  BY <1>1, <1>2, <1>3, <1>4, <1>5, <1>6

\* What an attempt writes takes the entry out of Running.
LEMMA SerialAttemptMarkPut ==
    ASSUME TypeOK, TypeOK', AnsweredOnce, SerialInv, Serially,
           NEW c \in Caller, AttemptMarkPut(c)
    PROVE  SerialInv'
<1> USE KeyOfAssumption, NobodyAssumption
    DEF TypeOK, SerialInv, OneHandler, OneActive, CallOrder, DispatchIsQuiet,
        EntryIsRight, LeaseOutlives, AnsweredOnce, Serially, Peers, Handling,
        Attempting, handlerVars, attemptVars, wireVars
<1>1. OneHandler'
  BY DEF AttemptMarkPut, Stamped, Absent
<1>2. OneActive'
  BY DEF AttemptMarkPut, Stamped, Absent, Active, Dispatching, Quiet
<1>3. CallOrder'
  BY DEF AttemptMarkPut, Stamped, Absent
<1>4. DispatchIsQuiet'
  BY SMTT(30) DEF AttemptMarkPut, Stamped, Absent, Active, Dispatching, Quiet
<1>5. EntryIsRight'
  BY DEF AttemptMarkPut, Stamped, Absent, Active, Dispatching, Quiet
<1>6. LeaseOutlives'
  BY DEF AttemptMarkPut, Stamped, Absent, Dispatching
<1> QED
  BY <1>1, <1>2, <1>3, <1>4, <1>5, <1>6

-------------------------------------------------------------------------------
(* The serial invariant *)

LEMMA SerialInit == Init => SerialInv
<1> SUFFICES ASSUME Init PROVE SerialInv
  OBVIOUS
<1> USE KeyOfAssumption, NobodyAssumption, GuardedAssumption
    DEF Init, Absent, Peers, Handling, Attempting, Active, Dispatching, Quiet
<1>1. OneHandler /\ OneActive
  BY DEF OneHandler, OneActive
<1>2. CallOrder
  BY DEF CallOrder
<1>3. DispatchIsQuiet
  BY DEF DispatchIsQuiet
<1>4. EntryIsRight
  BY DEF EntryIsRight
<1>5. LeaseOutlives
  BY DEF LeaseOutlives
<1> QED
  BY <1>1, <1>2, <1>3, <1>4, <1>5 DEF SerialInv

LEMMA SerialStep ==
    ASSUME TypeOK, TypeOK', AnsweredOnce, SerialInv, Serially, [Next]_vars
    PROVE  SerialInv'
<1> USE KeyOfAssumption, NobodyAssumption
    DEF TypeOK, SerialInv, OneHandler, OneActive, CallOrder, DispatchIsQuiet,
        EntryIsRight, LeaseOutlives, AnsweredOnce, Serially, Peers, Handling,
        Attempting, handlerVars, attemptVars, wireVars
<1>1. CASE UNCHANGED vars
  BY <1>1 DEF vars, Active, Dispatching, Quiet
<1>2. ASSUME NEW k \in Key, Evict(k) PROVE SerialInv'
  BY <1>2 DEF Evict
<1>3. ASSUME NEW c \in Caller, Abort(c) PROVE SerialInv'
  BY <1>3 DEF Abort
<1>4. ASSUME NEW c \in Caller, Arrive(c) PROVE SerialInv'
  BY <1>4, SMTT(60) DEF Arrive, Active, Dispatching, Quiet
<1>5. ASSUME NEW c \in Caller, Join(c) PROVE SerialInv'
  BY <1>5, SMTT(60) DEF Join, Finish, Active, Dispatching, Quiet
<1>6. ASSUME NEW c \in Caller, GiveUp(c) PROVE SerialInv'
  BY <1>6, SMTT(60) DEF GiveUp, BeginMark, Active, Dispatching, Quiet
<1>7. ASSUME NEW c \in Caller, Disconnect(c) PROVE SerialInv'
  BY <1>7, SMTT(60) DEF Disconnect, Absent, Active, Dispatching, Quiet
<1>8. ASSUME NEW c \in Caller, Unrouted(c) PROVE SerialInv'
  BY <1>8, SMTT(60) DEF Unrouted, Returned, Outcome, Active, Dispatching,
     Quiet
<1>9. ASSUME NEW c \in Caller, Send(c) PROVE SerialInv'
  BY <1>9, SMTT(60) DEF Send, Active, Dispatching, Quiet
<1>10. ASSUME NEW c \in Caller, ReplyLost(c) PROVE SerialInv'
  BY <1>10, SMTT(60) DEF ReplyLost, Returned, Outcome, Active, Dispatching,
     Quiet
<1>11. ASSUME NEW c \in Caller, Apply(c) PROVE SerialInv'
  BY <1>11, SMTT(60) DEF Apply, Active, Dispatching, Quiet
<1>12. ASSUME NEW c \in Caller, LeaseExpires(c) PROVE SerialInv'
  BY <1>12, SMTT(60) DEF LeaseExpires, Active, Dispatching, Quiet
<1>13. ASSUME NEW c \in Caller, Handler(c) PROVE SerialInv'
  BY <1>13, <1>5, <1>6, SerialClaimGet, SerialClaimPut, SerialClaimInit,
     SerialReconcile, SerialMarkGet, SerialMarkPut, SerialSpawn DEF Handler
<1>14. ASSUME NEW c \in Caller, Attempt(c) PROVE SerialInv'
  BY <1>14, <1>8, <1>9, <1>10, SerialReplyOk, SerialReplyError,
     SerialAttemptMarkGet, SerialAttemptMarkPut DEF Attempt
<1> QED
  BY <1>1, <1>2, <1>3, <1>4, <1>7, <1>11, <1>12, <1>13, <1>14 DEF Next

\* All three invariants hold together.
LEMMA SerialAlways == ASSUME Serially PROVE Spec => [](TypeOK /\ RecordsInv /\ SerialInv)
<1>1. Init => TypeOK /\ RecordsInv /\ SerialInv
  BY TypeInit, RecordsInit, SerialInit
<1>2. TypeOK /\ RecordsInv /\ SerialInv /\ [Next]_vars
        => (TypeOK /\ RecordsInv /\ SerialInv)'
  BY TypeStep, RecordsStep, SerialStep DEF RecordsInv
<1> QED
  BY <1>1, <1>2, PTL DEF Spec

\* The purpose of the layer: calls on a guarded key that come one after the
\* other act on the target at most once, however many there are, whatever is
\* lost, detached or retried.
THEOREM SerialCallsActOnce == ASSUME Serially PROVE Spec => []AtMostOnce
<1>1. SerialInv => AtMostOnce
  BY DEF SerialInv, OneActive, AtMostOnce, Applied, Active, Peers
<1> QED
  BY <1>1, SerialAlways, PTL

\* What calls in a row on one key have of each other: the inductive invariant
\* that the run es_serial checks holds for any number of callers.
THEOREM SerialInvHolds == ASSUME Serially PROVE Spec => []SerialInv
  BY SerialAlways, PTL

\* Calls on a guarded key that come one after the other keep the promise of
\* SingleEffect, for any number of calls and keys: an attempt starts only when
\* it is certain that the one before did not act and will not.
THEOREM SerialCallsKeepPromise == ASSUME Serially PROVE Spec => KeepsPromise
<1>1. /\ TypeOK /\ RecordsInv /\ SerialInv
      /\ [Next]_vars
      => [Promise!Next]_<<OpenCalls, ActedCalls>>
  BY PromiseStep DEF RecordsInv, SerialInv, OneAtATime, DispatchIsQuiet, Serially
<1> QED
  BY <1>1, PromiseInit, SerialAlways, PTL DEF Spec, KeepsPromise, Promise!Spec, Promise!vars,
                                              OpenCalls, ActedCalls

-------------------------------------------------------------------------------
(* The fence: no two attempts carry the same version *)

LEMMA VersionInit == Init => VersionInv
  BY KeyOfAssumption
  DEF Init, VersionInv, CopiesAreFresh, VersionsGrow, Absent, Attempting, Peers,
      Dispatching

\* The step gives c's key a claim of its own, in the name of a call that has no
\* attempt yet, and leaves every other key and call alone.
ClaimsAfresh(c) ==
    LET k == KeyOf[c] IN
    /\ store'[k].state = "Claimed"
    /\ store'[k].version = ver'[c]
    /\ ver'[c] = store[k].version + 1 \/ store[k].state = "Absent"
    /\ \A j \in Key \ {k} : store'[j] = store[j]
    /\ \A d \in Caller \ {c} : /\ pc'[d] = pc[d] /\ ver'[d] = ver[d]
                               /\ saw'[d] = saw[d] /\ goal'[d] = goal[d]
    /\ pc'[c] = "markGet" /\ goal'[c] = "Running" /\ tpc[c] = "none"
    /\ UNCHANGED attemptVars

\* No other call has an attempt or a write on c's key under way.
Alone(c) ==
    \A d \in Caller \ {c} :
        KeyOf[d] = KeyOf[c] => /\ ~Attempting(d)
                               /\ pc[d] \notin {"put", "markPut"} /\ ~Dispatching(d)

\* Such a claim carries a version above those of all attempts on its key.
LEMMA FreshClaim ==
    ASSUME TypeOK, TypeOK', VersionInv, NEW c \in Caller, KeyOf[c] \in Guarded,
           ClaimsAfresh(c), Alone(c)
    PROVE  VersionInv'
<1> USE KeyOfAssumption, GuardedAssumption
    DEF TypeOK, VersionInv, CopiesAreFresh, VersionsGrow, Peers, Attempting,
        Entry, attemptVars, ClaimsAfresh, Alone
<1> DEFINE k == KeyOf[c]
<1>1. CopiesAreFresh'
  <2> SUFFICES ASSUME NEW d \in Caller, KeyOf[d] \in Guarded
               PROVE  LET v == store'[KeyOf[d]].version IN
                      /\ pc'[d] \in {"put", "markPut"} => saw'[d].version = v
                      /\ Attempting(d)' => ver'[d] = v
                      /\ tpc'[d] = "markPut" => tsaw'[d].version = v
    OBVIOUS
  <2>1. CASE KeyOf[d] # k
    BY <2>1
  <2>2. CASE d = c
    BY <2>2
  <2>3. CASE KeyOf[d] = k /\ d # c
    BY <2>3
  <2> QED
    BY <2>1, <2>2, <2>3
<1>2. VersionsGrow'
  <2> DEFINE v == store[k].version
  <2>0. v \in Nat /\ ver \in [Caller -> Nat] /\ ver' \in [Caller -> Nat]
    OBVIOUS
  <2>1. \A d \in Caller \ {c} : KeyOf[d] = k /\ tpc[d] # "none" => ver[d] < ver'[c]
    BY <1>1, <2>0
  <2>2. ASSUME NEW d \in Caller, KeyOf[d] \in Guarded
        PROVE  /\ tpc'[d] # "none" => ver'[d] <= store'[KeyOf[d]].version
               /\ store'[KeyOf[d]].state = "Absent" => tpc'[d] = "none"
    <3>1. CASE KeyOf[d] # k
      <4>1. /\ store'[KeyOf[d]] = store[KeyOf[d]]
            /\ tpc'[d] = tpc[d] /\ ver'[d] = ver[d]
        BY <3>1
      <4> QED
        BY <2>2, <4>1
    <3>2. CASE d = c
      BY <3>2
    <3>3. CASE KeyOf[d] = k /\ d # c
      BY <2>0, <2>1, <3>3
    <3> QED
      BY <3>1, <3>2, <3>3
  <2>3. ASSUME NEW d \in Caller, KeyOf[d] \in Guarded, NEW b \in Peers(d) \ {d}
        PROVE  /\ (Dispatching(d) /\ pc[d] \notin {"put", "init"} /\ tpc[b] # "none"
                     => ver[b] < ver[d])'
               /\ tpc'[d] # "none" /\ tpc'[b] # "none" => ver'[d] # ver'[b]
    <3>1. CASE d = c
      BY <2>1, <2>3, <3>1
    <3>2. CASE b = c
      BY <2>3, <3>2 DEF Dispatching
    <3>3. CASE b # c /\ d # c
      BY <2>3, <3>3 DEF Dispatching
    <3> QED
      BY <3>1, <3>2, <3>3
  <2> QED
    BY <2>2, <2>3
<1> QED
  BY <1>1, <1>2

\* A claim is alone: put and init are entered on a quiet key.
LEMMA ClaimIsAlone ==
    ASSUME SerialInv, NEW c \in Caller, KeyOf[c] \in Guarded,
           pc[c] \in {"put", "init"}
    PROVE  Alone(c)
<1>1. Handling(c) /\ Quiet(KeyOf[c])
  BY DEF SerialInv, DispatchIsQuiet, Dispatching, Handling
<1>2. \A d \in Caller \ {c} : KeyOf[d] = KeyOf[c] => ~Handling(d)
  BY <1>1 DEF SerialInv, OneHandler, Peers
<1> QED
  BY <1>1, <1>2 DEF Alone, Handling, Dispatching, Quiet, Active

LEMMA VersionStep ==
    ASSUME TypeOK, TypeOK', AnsweredOnce, SerialInv, SerialInv', Serially,
           VersionInv, [Next]_vars
    PROVE  VersionInv'
<1> USE KeyOfAssumption
    DEF TypeOK, VersionInv, CopiesAreFresh, VersionsGrow, Peers, Attempting,
        Entry, handlerVars, attemptVars, wireVars
<1>1. CASE UNCHANGED vars
  BY <1>1 DEF vars, Dispatching
<1>2. ASSUME NEW k \in Key, Evict(k) PROVE VersionInv'
  BY <1>2 DEF Evict, Serially
<1>3. ASSUME NEW c \in Caller, Abort(c) PROVE VersionInv'
  BY <1>3 DEF Abort, Serially
<1>4. ASSUME NEW c \in Caller, Arrive(c) PROVE VersionInv'
  BY <1>4, SMTT(60) DEF Arrive, Dispatching
<1>5. ASSUME NEW c \in Caller, ClaimGet(c) PROVE VersionInv'
  BY <1>5, SMTT(120) DEF ClaimGet, Proceed, BeginMark, Finish, Reclaimable,
     Dispatching, SerialInv, OneHandler, DispatchIsQuiet, EntryIsRight,
     OneActive, Active, Quiet, CallOrder, AnsweredOnce, Handling
<1>6. ASSUME NEW c \in Caller, ClaimPut(c) PROVE VersionInv'
  <2> DEFINE k == KeyOf[c]
  <2>0. CASE k \notin Guarded
    <3>1. \A j \in Guarded : store'[j] = store[j]
      BY <1>6, <2>0, GuardedAssumption DEF ClaimPut
    <3>2. \A d \in Caller : KeyOf[d] \in Guarded =>
             /\ pc'[d] = pc[d] /\ ver'[d] = ver[d] /\ saw'[d] = saw[d]
             /\ goal'[d] = goal[d]
      BY <1>6, <2>0, SMTT(60) DEF ClaimPut, Proceed, BeginMark, Finish
    <3>3. UNCHANGED attemptVars
      BY <1>6 DEF ClaimPut
    <3> QED
      BY <3>1, <3>2, <3>3 DEF Dispatching
  <2>1. CASE k \in Guarded
    <3>1. ClaimsAfresh(c)
      BY <1>6, <2>1, SMTT(60)
      DEF ClaimPut, Proceed, BeginMark, Finish, Reclaimed, Absent, ClaimsAfresh,
          SerialInv, AnsweredOnce, CallOrder, DispatchIsQuiet
    <3>2. Alone(c)
      BY <1>6, <2>1, ClaimIsAlone DEF ClaimPut
    <3> QED
      BY <2>1, <3>1, <3>2, FreshClaim
  <2> QED
    BY <2>0, <2>1
<1>7. ASSUME NEW c \in Caller, ClaimInit(c) PROVE VersionInv'
  <2> DEFINE k == KeyOf[c]
  <2>0. CASE k \notin Guarded
    BY <1>7, <2>0, SMTT(120) DEF ClaimInit, Proceed, BeginMark, Finish, FirstEntry, Dispatching
  <2>1. CASE k \in Guarded
    <3>1. ClaimsAfresh(c)
      BY <1>7, <2>1, SMTT(60)
      DEF ClaimInit, Proceed, BeginMark, Finish, FirstEntry, ClaimsAfresh,
          SerialInv, AnsweredOnce, CallOrder, DispatchIsQuiet
    <3>2. Alone(c)
      BY <1>7, <2>1, ClaimIsAlone DEF ClaimInit
    <3> QED
      BY <2>1, <3>1, <3>2, FreshClaim
  <2> QED
    BY <2>0, <2>1
<1>8. ASSUME NEW c \in Caller, Reconcile(c) PROVE VersionInv'
  BY <1>8, SMTT(60) DEF Reconcile, BeginMark, Finish, Dispatching
<1>9. ASSUME NEW c \in Caller, MarkGet(c) PROVE VersionInv'
  BY <1>9, SMTT(120) DEF MarkGet, AfterMark, Finish, Carries, Dispatching,
     SerialInv, OneHandler, DispatchIsQuiet, EntryIsRight, OneActive, Active,
     Quiet, CallOrder, AnsweredOnce, Handling
<1>10. ASSUME NEW c \in Caller, MarkPut(c) PROVE VersionInv'
  BY <1>10, SMTT(60) DEF MarkPut, AfterMark, Finish, Stamped, Absent,
     Dispatching, SerialInv, OneHandler, DispatchIsQuiet, EntryIsRight,
     OneActive, Active, Quiet, CallOrder, AnsweredOnce, Handling
<1>11. ASSUME NEW c \in Caller, Spawn(c) PROVE VersionInv'
  BY <1>11, SMTT(60) DEF Spawn, Dispatching, SerialInv, OneHandler,
     DispatchIsQuiet, EntryIsRight, OneActive, Active, Quiet, CallOrder,
     AnsweredOnce, Handling
<1>12. ASSUME NEW c \in Caller, Join(c) PROVE VersionInv'
  BY <1>12, SMTT(60) DEF Join, Finish, Dispatching
<1>13. ASSUME NEW c \in Caller, GiveUp(c) PROVE VersionInv'
  BY <1>13, SMTT(60) DEF GiveUp, BeginMark, Dispatching
<1>14. ASSUME NEW c \in Caller, Disconnect(c) PROVE VersionInv'
  BY <1>14, SMTT(60) DEF Disconnect, Absent, Dispatching
<1>15. ASSUME NEW c \in Caller, Unrouted(c) PROVE VersionInv'
  BY <1>15, SMTT(60) DEF Unrouted, Returned, Outcome, Dispatching
<1>16. ASSUME NEW c \in Caller, Send(c) PROVE VersionInv'
  BY <1>16, SMTT(60) DEF Send, Dispatching
<1>17. ASSUME NEW c \in Caller, ReplyOk(c) PROVE VersionInv'
  BY <1>17, SMTT(60) DEF ReplyOk, Returned, Outcome, Dispatching
<1>18. ASSUME NEW c \in Caller, ReplyError(c) PROVE VersionInv'
  BY <1>18, SMTT(60) DEF ReplyError, Returned, Outcome, Dispatching
<1>19. ASSUME NEW c \in Caller, ReplyLost(c) PROVE VersionInv'
  BY <1>19, SMTT(60) DEF ReplyLost, Returned, Outcome, Dispatching
<1>20. ASSUME NEW c \in Caller, AttemptMarkGet(c) PROVE VersionInv'
  BY <1>20, SMTT(120) DEF AttemptMarkGet, Carries, Dispatching, SerialInv,
     OneHandler, DispatchIsQuiet, EntryIsRight, OneActive, Active, Quiet,
     CallOrder, AnsweredOnce, Handling
<1>21. ASSUME NEW c \in Caller, AttemptMarkPut(c) PROVE VersionInv'
  BY <1>21, SMTT(60) DEF AttemptMarkPut, Stamped, Absent, Dispatching,
     SerialInv, OneHandler, DispatchIsQuiet, EntryIsRight, OneActive, Active,
     Quiet, CallOrder, AnsweredOnce, Handling
<1>22. ASSUME NEW c \in Caller, Apply(c) PROVE VersionInv'
  BY <1>22, SMTT(60) DEF Apply, Dispatching
<1>23. ASSUME NEW c \in Caller, LeaseExpires(c) PROVE VersionInv'
  BY <1>23, SMTT(60) DEF LeaseExpires, Dispatching
<1> QED
  BY <1>1, <1>2, <1>3, <1>4, <1>5, <1>6, <1>7, <1>8, <1>9, <1>10, <1>11,
     <1>12, <1>13, <1>14, <1>15, <1>16, <1>17, <1>18, <1>19, <1>20, <1>21,
     <1>22, <1>23 DEF Next, Handler, Attempt

\* The fence tells the attempts on a key apart, for any number of calls, as long
\* as every key is guarded and calls on it come one after the other.
THEOREM SerialVersionsAreExclusive ==
    ASSUME Serially, Guarded = Key
    PROVE  Spec => []VersionsAreExclusive
<1>1. TypeOK /\ VersionInv => VersionsAreExclusive
  BY KeyOfAssumption
  DEF TypeOK, VersionInv, VersionsGrow, VersionsAreExclusive, Peers
<1>2. TypeOK /\ TypeOK' /\ RecordsInv /\ SerialInv /\ SerialInv' /\ VersionInv
      /\ [Next]_vars => VersionInv'
  BY VersionStep DEF RecordsInv
<1> QED
  BY <1>1, <1>2, VersionInit, SerialAlways, PTL DEF Spec

-------------------------------------------------------------------------------
(* What a guarded key is promised when a call may come while the handlers  *)
(* of others on its key still wait for their attempts, and the reconciler  *)
(* says nothing definite, as that of this build does not: the same.        *)
(*                                                                         *)
(* A handler that has waited holds a copy of the entry that may be from    *)
(* before a later claim.  What it writes back is Unknown, under a version  *)
(* that is lower than that of the claim, so nobody takes it for a claim of *)
(* its own, and nothing makes it Failed again.                             *)

\* While a call dispatches or its attempt is at work, no other on its guarded key
\* does either.
LEMMA OthersAreOut ==
    ASSUME AnsweredOnce, StaggeredInv, NEW c \in Caller, NEW d \in Caller \ {c},
           KeyOf[d] = KeyOf[c], KeyOf[c] \in Guarded, Dispatching(c) \/ Attempting(c)
    PROVE  ~Dispatching(d) /\ ~Attempting(d)
<1> USE DEF StaggeredInv
<1>1. \A b \in Caller : Dispatching(b) => Unspawned(b)
  BY DEF AnsweredOnce, OneDispatcher, Dispatching, Unspawned, Handling
<1>2. Dispatching(c) => ~Dispatching(d)
  BY <1>1 DEF OneDispatcher, Peers
<1>3. \A b \in {c, d} : Dispatching(b) => ~Attempting(c) /\ ~Attempting(d)
  BY DEF DispatchIsNewest, DispatchesNewest, Quiet, Active
<1>4. ~(Attempting(c) /\ Attempting(d))
  BY DEF OneActive, Peers, Active
<1> QED
  BY <1>2, <1>3, <1>4

\* Without a verdict of the reconciler an entry is reclaimed only when it is
\* Failed, and then nobody is at work on the key.
LEMMA StaggeredClaimGet ==
    ASSUME TypeOK, TypeOK', AnsweredOnce, StaggeredInv, Staggered,
           NEW c \in Caller, ClaimGet(c)
    PROVE  StaggeredInv'
<1> USE KeyOfAssumption, NobodyAssumption, GuardedAssumption
    DEF TypeOK, StaggeredInv, Staggered, handlerVars, attemptVars, wireVars
<1>0. /\ UNCHANGED <<store, attemptVars, call>> /\ pc[c] = "get" /\ tpc[c] = "none"
      /\ \A b \in Caller \ {c} : /\ pc'[b] = pc[b] /\ goal'[b] = goal[b]
                                 /\ saw'[b] = saw[b] /\ ver'[b] = ver[b]
      /\ KeyOf[c] \in Guarded =>
            LET e == store[KeyOf[c]] IN
            \/ pc'[c] = "init" /\ e.state = "Absent"
            \/ pc'[c] = "put" /\ saw'[c] = e /\ e.state = "Failed"
            \/ pc'[c] \in {"reconcile", "done"}
  <2>1. UNCHANGED <<store, attemptVars, call>> /\ pc[c] = "get" /\ tpc[c] = "none"
    BY DEF ClaimGet, AnsweredOnce
  <2>2. \A b \in Caller \ {c} : /\ pc'[b] = pc[b] /\ goal'[b] = goal[b]
                                /\ saw'[b] = saw[b] /\ ver'[b] = ver[b]
    BY SMTT(30) DEF ClaimGet, Proceed, BeginMark, Finish
  <2>3. ASSUME KeyOf[c] \in Guarded
        PROVE  LET e == store[KeyOf[c]] IN
               \/ pc'[c] = "init" /\ e.state = "Absent"
               \/ pc'[c] = "put" /\ saw'[c] = e /\ e.state = "Failed"
               \/ pc'[c] \in {"reconcile", "done"}
    <3> DEFINE e == store[KeyOf[c]]
    <3>1. c \notin retry
      BY <2>3 DEF CallOrder
    <3>2. e.state \in {"Claimed", "Running"} => e.holder \in Caller /\ KeyOf[e.holder] = KeyOf[c]
      BY <2>3 DEF EntryIsNewest, EntryIsRight
    <3>3. e.state # "Claimed"
      <4> SUFFICES ASSUME e.state = "Claimed" PROVE FALSE
        OBVIOUS
      <4>1. pc[e.holder] \in {"markGet", "markPut"} /\ goal[e.holder] = "Running"
        BY <2>3 DEF EntryIsNewest, EntryIsRight
      <4>2. Unspawned(e.holder) /\ Unspawned(c) /\ e.holder # c
        BY <2>1, <3>2, <4>1 DEF OneDispatcher, Unspawned, Handling
      <4> QED
        BY <3>2, <4>2 DEF OneDispatcher, Peers
    <3>4. e.state = "Running" => e.holder \notin lapsed
      BY SMTT(30), <2>3, <3>2 DEF EntryIsNewest, EntryIsRight, LeaseOutlives
    <3>5. Reclaimable(e, lapsed) => e.state = "Failed"
      BY <3>3, <3>4 DEF Reclaimable
    <3>6. CASE Reclaimable(e, lapsed)
      BY <3>5, <3>6 DEF ClaimGet
    <3>7. CASE e.state = "Absent"
      BY <3>5, <3>7 DEF ClaimGet
    <3>8. CASE ~Reclaimable(e, lapsed) /\ e.state # "Absent"
      <4>1. Proceed(c, e)
        BY <3>8 DEF ClaimGet
      <4>2. e.state # "Failed"
        BY <3>8 DEF Reclaimable
      <4>3. pc' = [pc EXCEPT ![c] = "done"] \/ pc' = [pc EXCEPT ![c] = "reconcile"]
        BY <2>3, <3>1, <3>3, <4>1, <4>2 DEF Proceed, Finish
      <4> QED
        BY <4>3
    <3> QED
      BY <3>6, <3>7, <3>8
  <2> QED
    BY <2>1, <2>2, <2>3
<1>1. OneDispatcher'
  BY SMTT(30) DEF ClaimGet, Proceed, BeginMark, Finish, OneDispatcher, Unspawned,
     AnsweredOnce, Peers, Handling
<1>2. OneActive'
  BY <1>0 DEF OneActive, Active, Peers, Attempting
<1>3. CallOrder'
  BY SMTT(30) DEF ClaimGet, Proceed, BeginMark, Finish, CallOrder, AnsweredOnce
<1>4. DispatchIsNewest'
  <2> SUFFICES ASSUME NEW d \in Caller, KeyOf[d] \in Guarded PROVE DispatchesNewest(d)'
    BY DEF DispatchIsNewest
  <2>1. DispatchesNewest(d)
    BY DEF DispatchIsNewest
  <2>2. CASE d = c
    <3>1. ~Attempting(c)' /\ (Dispatching(c)' => pc'[c] \in {"init", "put"})
      BY <1>0, <2>2 DEF Dispatching, Attempting
    <3>2. store[KeyOf[c]].state \in {"Absent", "Failed"} => Quiet(KeyOf[c])
      BY <2>2 DEF EntryIsNewest, EntryIsRight
    <3>3. Quiet(KeyOf[c])' <=> Quiet(KeyOf[c])
      BY <1>0 DEF Quiet, Active, Attempting
    <3>4. (pc[c] = "put" => AtMostVersion(c, saw[c].version))'
      <4> SUFFICES ASSUME pc'[c] = "put", NEW b \in Peers(c), tpc'[b] # "none"
                   PROVE  ver'[b] <= saw'[c].version
        BY DEF AtMostVersion, Peers
      <4>1. b # c /\ tpc[b] # "none" /\ ver'[b] = ver[b] /\ KeyOf[b] = KeyOf[c]
        BY <1>0 DEF Peers
      <4>2. saw'[c] = store[KeyOf[c]] /\ store[KeyOf[c]].state = "Failed"
        BY <1>0, <2>2
      <4>3. AtMostVersion(c, store[KeyOf[c]].version)
        BY <2>2, <4>2 DEF EntryIsNewest, AtMostVersion, Peers
      <4> QED
        BY <4>1, <4>2, <4>3 DEF AtMostVersion, Peers
    <3> QED
      <4>1. /\ UNCHANGED store
            /\ pc'[c] = "put" => saw'[c] = store[KeyOf[c]] /\ store[KeyOf[c]].state = "Failed"
            /\ pc'[c] = "init" => store[KeyOf[c]].state = "Absent"
            /\ pc'[c] \notin {"spawn", "markGet", "markPut"}
        BY <1>0, <2>2
      <4> HIDE DEF StaggeredInv, TypeOK
      <4> QED
        BY <2>2, <3>1, <3>2, <3>3, <3>4, <4>1 DEF DispatchesNewest, Dispatching
  <2>3. CASE d # c
    <3>1. /\ pc'[d] = pc[d] /\ goal'[d] = goal[d] /\ saw'[d] = saw[d] /\ ver'[d] = ver[d]
          /\ tpc' = tpc /\ store' = store
      BY <1>0, <2>3
    <3>2. Quiet(KeyOf[d])' <=> Quiet(KeyOf[d])
      BY <1>0 DEF Quiet, Active, Attempting
    <3>3. \A b \in Caller : tpc[b] # "none" => ver'[b] = ver[b]
      BY <1>0
    <3>4. (Newest(d)' <=> Newest(d)) /\ \A v : AtMostVersion(d, v)' <=> AtMostVersion(d, v)
      BY <3>1, <3>3 DEF Newest, AtMostVersion, Peers
    <3> HIDE DEF StaggeredInv, TypeOK
    <3> QED
      BY <2>1, <3>1, <3>2, <3>4 DEF DispatchesNewest, Dispatching, Attempting
  <2> QED
    BY <2>2, <2>3
<1>5. CopiesAreOwn'
  BY SMTT(30) DEF ClaimGet, Proceed, BeginMark, Finish, CopiesAreOwn, AnsweredOnce,
     OneDispatcher
<1>6. EntryIsNewest'
  <2>1. EntryIsRight'
    BY <1>0, SMTT(30) DEF EntryIsNewest, EntryIsRight, Quiet, Active, Attempting
  <2>2. \A b \in Caller : tpc[b] # "none" => ver'[b] = ver[b]
    BY <1>0
  <2> QED
    BY <1>0, <2>1, <2>2 DEF EntryIsNewest, AtMostVersion, Peers
<1>7. ExclusiveVersions'
  BY <1>0 DEF ExclusiveVersions, Peers
<1>8. LeaseOutlives'
  BY SMTT(30) DEF ClaimGet, Proceed, BeginMark, Finish, LeaseOutlives, AnsweredOnce,
     Attempting
<1> QED
  BY <1>1, <1>2, <1>3, <1>4, <1>5, <1>6, <1>7, <1>8

\* The reclaimed entry carries a version above all before it.
LEMMA StaggeredClaimPut ==
    ASSUME TypeOK, TypeOK', AnsweredOnce, StaggeredInv, Staggered,
           NEW c \in Caller, ClaimPut(c)
    PROVE  StaggeredInv'
<1> USE KeyOfAssumption, NobodyAssumption, GuardedAssumption
    DEF TypeOK, StaggeredInv, Staggered, handlerVars, attemptVars, wireVars
<1>1. OneDispatcher'
  BY SMTT(30) DEF ClaimPut, Proceed, BeginMark, Finish, Reclaimed, Absent,
     OneDispatcher, Unspawned, AnsweredOnce, Peers, Handling
<1>2. OneActive'
  BY SMTT(30) DEF ClaimPut, Proceed, BeginMark, Finish, Reclaimed, Absent, OneActive,
     DispatchIsNewest, DispatchesNewest, Active, Dispatching, Quiet, Peers, Attempting,
     CallOrder, AnsweredOnce
<1>3. CallOrder'
  BY SMTT(30) DEF ClaimPut, Proceed, BeginMark, Finish, Reclaimed, Absent, CallOrder,
     AnsweredOnce
<1>4. DispatchIsNewest'
  <2>1. /\ UNCHANGED <<attemptVars, call>> /\ pc[c] = "put"
        /\ \A b \in Caller \ {c} : pc'[b] = pc[b] /\ goal'[b] = goal[b] /\ saw'[b] = saw[b] /\ ver'[b] = ver[b]
        /\ store' = [store EXCEPT ![KeyOf[c]] = Reclaimed(saw[c], c)]
        /\ KeyOf[c] \in Guarded =>
              pc'[c] = "markGet" /\ goal'[c] = "Running" /\ ver'[c] = saw[c].version + 1
    BY SMTT(60) DEF ClaimPut, Proceed, BeginMark, Finish, Reclaimed, CallOrder
  <2> SUFFICES ASSUME NEW d \in Caller, KeyOf[d] \in Guarded PROVE DispatchesNewest(d)'
    BY DEF DispatchIsNewest
  <2>2. DispatchesNewest(d)
    BY DEF DispatchIsNewest
  <2>3. CASE KeyOf[d] # KeyOf[c]
    BY <2>1, <2>2, <2>3, SMTT(30) DEF DispatchesNewest, Newest, AtMostVersion, Active,
       Dispatching, Quiet, Peers, Attempting
  <2>4. CASE d = c
    BY <2>1, <2>2, <2>4, SMTT(30) DEF OneDispatcher, Unspawned, OneActive, CallOrder,
       DispatchIsNewest, DispatchesNewest, CopiesAreOwn, EntryIsNewest, EntryIsRight,
       AnsweredOnce, LeaseOutlives, Newest, AtMostVersion, Active, Dispatching, Quiet,
       Peers, Attempting, Handling, Entry, Reclaimed
  <2>5. CASE KeyOf[d] = KeyOf[c] /\ d # c
    <3>1. ~Dispatching(d) /\ ~Attempting(d)
      BY <2>1, <2>5, OthersAreOut DEF Dispatching, Attempting
    <3>2. ~Dispatching(d)' /\ ~Attempting(d)'
      BY <2>1, <2>5, <3>1 DEF Dispatching, Attempting
    <3> QED
      BY <3>2 DEF DispatchesNewest, Dispatching
  <2> QED
    BY <2>3, <2>4, <2>5
<1>5. CopiesAreOwn'
  BY SMTT(30) DEF ClaimPut, Proceed, BeginMark, Finish, Reclaimed, Absent, CopiesAreOwn,
     AnsweredOnce, OneDispatcher
<1>6. EntryIsNewest'
  BY SMTT(60) DEF ClaimPut, Proceed, BeginMark, Finish, Reclaimed, Absent,
     OneDispatcher, Unspawned, OneActive, CallOrder, DispatchIsNewest, DispatchesNewest,
     CopiesAreOwn, EntryIsNewest, EntryIsRight, AnsweredOnce, LeaseOutlives, Newest,
     AtMostVersion, Active, Dispatching, Quiet, Peers, Attempting, Handling, Entry
<1>7. ExclusiveVersions'
  BY SMTT(30) DEF ClaimPut, Proceed, BeginMark, Finish, Reclaimed, Absent,
     ExclusiveVersions, DispatchIsNewest, DispatchesNewest, Newest, Dispatching,
     AnsweredOnce, Peers, Attempting
<1>8. LeaseOutlives'
  BY SMTT(30) DEF ClaimPut, Proceed, BeginMark, Finish, Reclaimed, Absent,
     LeaseOutlives, OneDispatcher, Unspawned, AnsweredOnce, Handling, Attempting
<1> QED
  BY <1>1, <1>2, <1>3, <1>4, <1>5, <1>6, <1>7, <1>8

\* get_with finds the key still absent: nobody has ever written it.
LEMMA StaggeredClaimInit ==
    ASSUME TypeOK, TypeOK', AnsweredOnce, StaggeredInv, Staggered,
           NEW c \in Caller, ClaimInit(c)
    PROVE  StaggeredInv'
<1> USE KeyOfAssumption, NobodyAssumption, GuardedAssumption
    DEF TypeOK, StaggeredInv, Staggered, handlerVars, attemptVars, wireVars
<1>1. OneDispatcher'
  BY SMTT(30) DEF ClaimInit, Proceed, BeginMark, Finish, FirstEntry, OneDispatcher,
     Unspawned, AnsweredOnce, Peers, Handling
<1>2. OneActive'
  BY SMTT(30) DEF ClaimInit, Proceed, BeginMark, Finish, FirstEntry, OneActive,
     DispatchIsNewest, DispatchesNewest, Active, Dispatching, Quiet, Peers, Attempting,
     CallOrder, AnsweredOnce
<1>3. CallOrder'
  BY SMTT(30) DEF ClaimInit, Proceed, BeginMark, Finish, FirstEntry, CallOrder,
     AnsweredOnce
<1>4. DispatchIsNewest'
  <2>1. /\ UNCHANGED <<attemptVars, call>> /\ pc[c] = "init"
        /\ \A b \in Caller \ {c} : pc'[b] = pc[b] /\ goal'[b] = goal[b] /\ saw'[b] = saw[b] /\ ver'[b] = ver[b]
        /\ store' = [store EXCEPT ![KeyOf[c]] = IF @.state = "Absent" THEN FirstEntry(c) ELSE @]
        /\ KeyOf[c] \in Guarded =>
              /\ store[KeyOf[c]].state = "Absent"
              /\ pc'[c] = "markGet" /\ goal'[c] = "Running" /\ ver'[c] = 1
    BY SMTT(60) DEF ClaimInit, Proceed, BeginMark, Finish, FirstEntry, CallOrder,
       DispatchIsNewest, DispatchesNewest, Dispatching
  <2> SUFFICES ASSUME NEW d \in Caller, KeyOf[d] \in Guarded PROVE DispatchesNewest(d)'
    BY DEF DispatchIsNewest
  <2>2. DispatchesNewest(d)
    BY DEF DispatchIsNewest
  <2>3. CASE KeyOf[d] # KeyOf[c]
    BY <2>1, <2>2, <2>3, SMTT(30) DEF DispatchesNewest, Newest, AtMostVersion, Active,
       Dispatching, Quiet, Peers, Attempting
  <2>4. CASE d = c
    BY <2>1, <2>2, <2>4, SMTT(30) DEF OneDispatcher, Unspawned, OneActive, CallOrder,
       DispatchIsNewest, DispatchesNewest, CopiesAreOwn, EntryIsNewest, EntryIsRight,
       AnsweredOnce, LeaseOutlives, Newest, AtMostVersion, Active, Dispatching, Quiet,
       Peers, Attempting, Handling, Entry, FirstEntry
  <2>5. CASE KeyOf[d] = KeyOf[c] /\ d # c
    <3>1. ~Dispatching(d) /\ ~Attempting(d)
      BY <2>1, <2>5, OthersAreOut DEF Dispatching, Attempting
    <3>2. ~Dispatching(d)' /\ ~Attempting(d)'
      BY <2>1, <2>5, <3>1 DEF Dispatching, Attempting
    <3> QED
      BY <3>2 DEF DispatchesNewest, Dispatching
  <2> QED
    BY <2>3, <2>4, <2>5
<1>5. CopiesAreOwn'
  BY SMTT(30) DEF ClaimInit, Proceed, BeginMark, Finish, FirstEntry, CopiesAreOwn,
     AnsweredOnce, OneDispatcher
<1>6. EntryIsNewest'
  <2>1. /\ UNCHANGED <<attemptVars, call>> /\ pc[c] = "init"
        /\ \A b \in Caller \ {c} : pc'[b] = pc[b] /\ goal'[b] = goal[b] /\ ver'[b] = ver[b]
        /\ store' = [store EXCEPT ![KeyOf[c]] = IF @.state = "Absent" THEN FirstEntry(c) ELSE @]
        /\ KeyOf[c] \in Guarded =>
              /\ store[KeyOf[c]].state = "Absent"
              /\ pc'[c] = "markGet" /\ goal'[c] = "Running" /\ ver'[c] = 1
    BY SMTT(60) DEF ClaimInit, Proceed, BeginMark, Finish, FirstEntry, CallOrder,
       DispatchIsNewest, DispatchesNewest, Dispatching
  <2> QED
    BY <2>1, SMTT(60) DEF EntryIsNewest, EntryIsRight, AtMostVersion, Active, Quiet,
       Peers, Attempting, FirstEntry, AnsweredOnce
<1>7. ExclusiveVersions'
  BY SMTT(30) DEF ClaimInit, Proceed, BeginMark, Finish, FirstEntry, ExclusiveVersions,
     DispatchIsNewest, DispatchesNewest, Newest, Dispatching, AnsweredOnce, Peers,
     Attempting
<1>8. LeaseOutlives'
  BY SMTT(30) DEF ClaimInit, Proceed, BeginMark, Finish, FirstEntry, LeaseOutlives,
     OneDispatcher, Unspawned, AnsweredOnce, Handling, Attempting
<1> QED
  BY <1>1, <1>2, <1>3, <1>4, <1>5, <1>6, <1>7, <1>8

\* The reconciler says nothing definite.
LEMMA StaggeredReconcile ==
    ASSUME TypeOK, TypeOK', AnsweredOnce, StaggeredInv, Staggered,
           NEW c \in Caller, Reconcile(c)
    PROVE  StaggeredInv'
<1> USE KeyOfAssumption, NobodyAssumption, GuardedAssumption
    DEF TypeOK, StaggeredInv, Staggered, handlerVars, attemptVars, wireVars
<1>1. OneDispatcher'
  BY SMTT(30) DEF Reconcile, BeginMark, Finish, OneDispatcher, Unspawned, AnsweredOnce,
     Peers, Handling
<1>2. OneActive'
  BY SMTT(30) DEF Reconcile, BeginMark, Finish, OneActive, DispatchIsNewest,
     DispatchesNewest, Active, Dispatching, Quiet, Peers, Attempting, CallOrder,
     AnsweredOnce
<1>3. CallOrder'
  BY SMTT(30) DEF Reconcile, BeginMark, Finish, CallOrder, AnsweredOnce
<1>4. DispatchIsNewest'
  BY SMTT(30) DEF Reconcile, BeginMark, Finish, OneDispatcher, Unspawned, OneActive,
     CallOrder, DispatchIsNewest, DispatchesNewest, CopiesAreOwn, EntryIsNewest,
     EntryIsRight, AnsweredOnce, LeaseOutlives, Newest, AtMostVersion, Active,
     Dispatching, Quiet, Peers, Attempting, Handling, Entry
<1>5. CopiesAreOwn'
  BY SMTT(30) DEF Reconcile, BeginMark, Finish, CopiesAreOwn, AnsweredOnce,
     OneDispatcher
<1>6. EntryIsNewest'
  <2>1. /\ UNCHANGED <<store, ver, attemptVars, call>> /\ pc[c] = "reconcile"
        /\ \A b \in Caller \ {c} : pc'[b] = pc[b] /\ goal'[b] = goal[b]
    BY DEF Reconcile, BeginMark, Finish
  <2> QED
    BY <2>1, SMTT(60) DEF EntryIsNewest, EntryIsRight, AtMostVersion, Active, Quiet,
       Peers, Attempting
<1>7. ExclusiveVersions'
  BY SMTT(30) DEF Reconcile, BeginMark, Finish, ExclusiveVersions, DispatchIsNewest,
     DispatchesNewest, Newest, Dispatching, AnsweredOnce, Peers, Attempting
<1>8. LeaseOutlives'
  BY SMTT(30) DEF Reconcile, BeginMark, Finish, LeaseOutlives, OneDispatcher, Unspawned,
     AnsweredOnce, Handling, Attempting
<1> QED
  BY <1>1, <1>2, <1>3, <1>4, <1>5, <1>6, <1>7, <1>8

\* A dispatching handler takes a copy of its own claim, or of nothing.
LEMMA StaggeredMarkGet ==
    ASSUME TypeOK, TypeOK', AnsweredOnce, StaggeredInv, Staggered,
           NEW c \in Caller, MarkGet(c)
    PROVE  StaggeredInv'
<1> USE KeyOfAssumption, NobodyAssumption, GuardedAssumption
    DEF TypeOK, StaggeredInv, Staggered, handlerVars, attemptVars, wireVars
<1>1. OneDispatcher'
  BY SMTT(30) DEF MarkGet, AfterMark, Finish, Carries, OneDispatcher, Unspawned,
     AnsweredOnce, Peers, Handling
<1>2. OneActive'
  BY SMTT(30) DEF MarkGet, AfterMark, Finish, Carries, OneActive, DispatchIsNewest,
     DispatchesNewest, Active, Dispatching, Quiet, Peers, Attempting, CallOrder,
     AnsweredOnce
<1>3. CallOrder'
  BY SMTT(30) DEF MarkGet, AfterMark, Finish, Carries, CallOrder, AnsweredOnce
<1>4. DispatchIsNewest'
  <2>1. /\ UNCHANGED <<store, attemptVars, call, ver, goal>> /\ pc[c] = "markGet"
        /\ \A b \in Caller \ {c} : pc'[b] = pc[b] /\ saw'[b] = saw[b]
        /\ \/ pc'[c] = "markPut" /\ saw'[c] = store[KeyOf[c]] /\ store[KeyOf[c]].version = ver[c]
           \/ goal[c] = "Running" /\ pc'[c] = "spawn" /\ ~Carries(store[KeyOf[c]], ver[c])
           \/ pc'[c] = "done"
    BY SMTT(60) DEF MarkGet, AfterMark, Finish, Carries
  <2> SUFFICES ASSUME NEW d \in Caller, KeyOf[d] \in Guarded PROVE DispatchesNewest(d)'
    BY DEF DispatchIsNewest
  <2>2. DispatchesNewest(d)
    BY DEF DispatchIsNewest
  <2>3. CASE KeyOf[d] # KeyOf[c]
    BY <2>1, <2>2, <2>3, SMTT(30) DEF DispatchesNewest, Newest, AtMostVersion, Active,
       Dispatching, Quiet, Peers, Attempting
  <2>4. CASE d = c
    BY <2>1, <2>2, <2>4, SMTT(30) DEF OneDispatcher, Unspawned, OneActive, CallOrder,
       DispatchIsNewest, DispatchesNewest, CopiesAreOwn, EntryIsNewest, EntryIsRight,
       AnsweredOnce, LeaseOutlives, Newest, AtMostVersion, Active, Dispatching, Quiet,
       Peers, Attempting, Handling, Entry, Carries
  <2>5. CASE KeyOf[d] = KeyOf[c] /\ d # c
    BY <2>1, <2>2, <2>5, SMTT(30) DEF OneDispatcher, Unspawned, OneActive, CallOrder,
       DispatchIsNewest, DispatchesNewest, CopiesAreOwn, EntryIsNewest, EntryIsRight,
       AnsweredOnce, LeaseOutlives, Newest, AtMostVersion, Active, Dispatching, Quiet,
       Peers, Attempting, Handling, Entry, Carries
  <2> QED
    BY <2>3, <2>4, <2>5
<1>5. CopiesAreOwn'
  BY SMTT(30) DEF MarkGet, AfterMark, Finish, Carries, CopiesAreOwn, AnsweredOnce,
     OneDispatcher
<1>6. EntryIsNewest'
  <2>1. /\ UNCHANGED <<store, ver, goal, attemptVars, call>> /\ pc[c] = "markGet"
        /\ \A b \in Caller \ {c} : pc'[b] = pc[b]
        /\ \/ pc'[c] = "markPut"
           \/ goal[c] = "Running" /\ pc'[c] = "spawn" /\ ~Carries(store[KeyOf[c]], ver[c])
           \/ goal[c] # "Running" /\ pc'[c] = "done"
    BY DEF MarkGet, AfterMark, Finish
  <2> QED
    BY <2>1, SMTT(60) DEF EntryIsNewest, EntryIsRight, AtMostVersion, Active, Quiet,
       Peers, Attempting, Carries, OneDispatcher, AnsweredOnce
<1>7. ExclusiveVersions'
  BY SMTT(30) DEF MarkGet, AfterMark, Finish, Carries, ExclusiveVersions,
     DispatchIsNewest, DispatchesNewest, Newest, Dispatching, AnsweredOnce, Peers,
     Attempting
<1>8. LeaseOutlives'
  <2>1. /\ UNCHANGED <<store, lapsed, attemptVars>> /\ pc[c] = "markGet"
        /\ \A b \in Caller \ {c} : pc'[b] = pc[b] /\ saw'[b] = saw[b]
        /\ pc'[c] \in {"markPut", "spawn", "done"}
        /\ saw'[c] \in {saw[c], store[KeyOf[c]]}
    BY DEF MarkGet, AfterMark, Finish
  <2> QED
    BY <2>1, SMTT(60) DEF LeaseOutlives, Attempting
<1> QED
  BY <1>1, <1>2, <1>3, <1>4, <1>5, <1>6, <1>7, <1>8

\* A dispatching handler writes Running over its own claim, one that has waited
\* writes Unknown.
LEMMA StaggeredMarkPut ==
    ASSUME TypeOK, TypeOK', AnsweredOnce, StaggeredInv, Staggered,
           NEW c \in Caller, MarkPut(c)
    PROVE  StaggeredInv'
<1> USE KeyOfAssumption, NobodyAssumption, GuardedAssumption
    DEF TypeOK, StaggeredInv, Staggered, handlerVars, attemptVars, wireVars
<1>1. OneDispatcher'
  BY SMTT(30) DEF MarkPut, AfterMark, Finish, Stamped, Absent, OneDispatcher, Unspawned,
     AnsweredOnce, Peers, Handling
<1>2. OneActive'
  BY SMTT(30) DEF MarkPut, AfterMark, Finish, Stamped, Absent, OneActive,
     DispatchIsNewest, DispatchesNewest, Active, Dispatching, Quiet, Peers, Attempting,
     CallOrder, AnsweredOnce
<1>3. CallOrder'
  BY SMTT(30) DEF MarkPut, AfterMark, Finish, Stamped, Absent, CallOrder, AnsweredOnce
<1>4. DispatchIsNewest'
  <2>1. /\ UNCHANGED <<attemptVars, call, ver, goal>> /\ pc[c] = "markPut"
        /\ \A b \in Caller \ {c} : pc'[b] = pc[b] /\ saw'[b] = saw[b]
        /\ store' = [store EXCEPT ![KeyOf[c]] = Stamped(saw[c], goal[c])]
        /\ pc'[c] = "done" \/ (goal[c] = "Running" /\ pc'[c] = "spawn")
    BY SMTT(60) DEF MarkPut, AfterMark, Finish
  <2> SUFFICES ASSUME NEW d \in Caller, KeyOf[d] \in Guarded PROVE DispatchesNewest(d)'
    BY DEF DispatchIsNewest
  <2>2. DispatchesNewest(d)
    BY DEF DispatchIsNewest
  <2>3. CASE KeyOf[d] # KeyOf[c]
    BY <2>1, <2>2, <2>3, SMTT(30) DEF DispatchesNewest, Newest, AtMostVersion, Active,
       Dispatching, Quiet, Peers, Attempting
  <2>4. CASE d = c
    BY <2>1, <2>2, <2>4, SMTT(30) DEF OneDispatcher, Unspawned, OneActive, CallOrder,
       DispatchIsNewest, DispatchesNewest, CopiesAreOwn, EntryIsNewest, EntryIsRight,
       AnsweredOnce, LeaseOutlives, Newest, AtMostVersion, Active, Dispatching, Quiet,
       Peers, Attempting, Handling, Entry, Stamped
  <2>5. CASE KeyOf[d] = KeyOf[c] /\ d # c
    <3>1. CASE goal[c] = "Running"
      <4>1. ~Dispatching(d) /\ ~Attempting(d)
        BY <2>1, <2>5, <3>1, OthersAreOut DEF Dispatching
      <4>2. ~Dispatching(d)' /\ ~Attempting(d)'
        BY <2>1, <2>5, <4>1 DEF Dispatching, Attempting
      <4> QED
        BY <4>2 DEF DispatchesNewest, Dispatching
    <3>2. CASE goal[c] # "Running"
      <4>1. /\ goal[c] = "Unknown" /\ tpc[c] # "none" /\ saw[c].version = ver[c]
            /\ store'[KeyOf[d]].state = "Unknown" /\ store'[KeyOf[d]].version = ver[c]
        BY <2>1, <2>5, <3>2 DEF OneDispatcher, CopiesAreOwn, Stamped
      <4>2. pc[d] # "init"
        BY <2>2, <2>5, <4>1 DEF DispatchesNewest, EntryIsNewest
      <4>3. Newest(d) => ver[c] < ver[d]
        BY <2>5, <4>1 DEF Newest, Peers
      <4>4. Quiet(KeyOf[d])' <=> Quiet(KeyOf[d])
        BY <2>1 DEF Quiet, Active, Attempting
      <4>5. /\ pc'[d] = pc[d] /\ goal'[d] = goal[d] /\ saw'[d] = saw[d] /\ ver' = ver /\ tpc' = tpc
            /\ (Dispatching(d)' <=> Dispatching(d)) /\ (Attempting(d)' <=> Attempting(d))
        BY <2>1, <2>5 DEF Dispatching, Attempting
      <4>6. (Newest(d)' <=> Newest(d)) /\ \A v : AtMostVersion(d, v)' <=> AtMostVersion(d, v)
        BY <4>5 DEF Newest, AtMostVersion, Peers
      <4> HIDE DEF StaggeredInv, TypeOK
      <4> QED
        BY <2>2, <4>1, <4>2, <4>3, <4>4, <4>5, <4>6 DEF DispatchesNewest, Dispatching
    <3> QED
      BY <3>1, <3>2
  <2> QED
    BY <2>3, <2>4, <2>5
<1>5. CopiesAreOwn'
  BY SMTT(30) DEF MarkPut, AfterMark, Finish, Stamped, Absent, CopiesAreOwn,
     AnsweredOnce, OneDispatcher
<1>6. EntryIsNewest'
  BY SMTT(60) DEF MarkPut, AfterMark, Finish, Stamped, Absent, OneDispatcher, Unspawned,
     OneActive, CallOrder, DispatchIsNewest, DispatchesNewest, CopiesAreOwn,
     EntryIsNewest, EntryIsRight, AnsweredOnce, LeaseOutlives, Newest, AtMostVersion,
     Active, Dispatching, Quiet, Peers, Attempting, Handling, Entry
<1>7. ExclusiveVersions'
  BY SMTT(30) DEF MarkPut, AfterMark, Finish, Stamped, Absent, ExclusiveVersions,
     DispatchIsNewest, DispatchesNewest, Newest, Dispatching, AnsweredOnce, Peers,
     Attempting
<1>8. LeaseOutlives'
  BY SMTT(30) DEF MarkPut, AfterMark, Finish, Stamped, Absent, LeaseOutlives,
     OneDispatcher, Unspawned, AnsweredOnce, Handling, Attempting
<1> QED
  BY <1>1, <1>2, <1>3, <1>4, <1>5, <1>6, <1>7, <1>8

\* The attempt starts on a quiet key, under a new version.
LEMMA StaggeredSpawn ==
    ASSUME TypeOK, TypeOK', AnsweredOnce, StaggeredInv, Staggered,
           NEW c \in Caller, Spawn(c)
    PROVE  StaggeredInv'
<1> USE KeyOfAssumption, NobodyAssumption, GuardedAssumption
    DEF TypeOK, StaggeredInv, Staggered, handlerVars, attemptVars, wireVars
<1>1. OneDispatcher'
  BY SMTT(30) DEF Spawn, OneDispatcher, Unspawned, AnsweredOnce, Peers, Handling
<1>2. OneActive'
  BY SMTT(30) DEF Spawn, OneActive, DispatchIsNewest, DispatchesNewest, Active,
     Dispatching, Quiet, Peers, Attempting, CallOrder, AnsweredOnce
<1>3. CallOrder'
  BY SMTT(30) DEF Spawn, CallOrder, AnsweredOnce
<1>4. DispatchIsNewest'
  <2>1. /\ UNCHANGED <<store, call, ver, goal, saw>> /\ pc[c] = "spawn" /\ tpc[c] = "none"
        /\ \A b \in Caller \ {c} : pc'[b] = pc[b] /\ tpc'[b] = tpc[b]
        /\ pc'[c] = "wait" /\ tpc'[c] = "start"
    BY SMTT(60) DEF Spawn, AnsweredOnce
  <2> SUFFICES ASSUME NEW d \in Caller, KeyOf[d] \in Guarded PROVE DispatchesNewest(d)'
    BY DEF DispatchIsNewest
  <2>2. DispatchesNewest(d)
    BY DEF DispatchIsNewest
  <2>3. CASE KeyOf[d] # KeyOf[c]
    BY <2>1, <2>2, <2>3, SMTT(30) DEF DispatchesNewest, Newest, AtMostVersion, Active,
       Dispatching, Quiet, Peers, Attempting
  <2>4. CASE d = c
    BY <2>1, <2>2, <2>4, SMTT(30) DEF OneDispatcher, Unspawned, OneActive, CallOrder,
       DispatchIsNewest, DispatchesNewest, CopiesAreOwn, EntryIsNewest, EntryIsRight,
       AnsweredOnce, LeaseOutlives, Newest, AtMostVersion, Active, Dispatching, Quiet,
       Peers, Attempting, Handling, Entry
  <2>5. CASE KeyOf[d] = KeyOf[c] /\ d # c
    <3>1. ~Dispatching(d) /\ ~Attempting(d)
      BY <2>1, <2>5, OthersAreOut DEF Dispatching, Attempting
    <3>2. ~Dispatching(d)' /\ ~Attempting(d)'
      BY <2>1, <2>5, <3>1 DEF Dispatching, Attempting
    <3> QED
      BY <3>2 DEF DispatchesNewest, Dispatching
  <2> QED
    BY <2>3, <2>4, <2>5
<1>5. CopiesAreOwn'
  BY SMTT(30) DEF Spawn, CopiesAreOwn, AnsweredOnce, OneDispatcher
<1>6. EntryIsNewest'
  BY SMTT(30) DEF Spawn, OneDispatcher, Unspawned, OneActive, CallOrder,
     DispatchIsNewest, DispatchesNewest, CopiesAreOwn, EntryIsNewest, EntryIsRight,
     AnsweredOnce, LeaseOutlives, Newest, AtMostVersion, Active, Dispatching, Quiet,
     Peers, Attempting, Handling, Entry
<1>7. ExclusiveVersions'
  BY SMTT(30) DEF Spawn, ExclusiveVersions, DispatchIsNewest, DispatchesNewest, Newest,
     Dispatching, AnsweredOnce, Peers, Attempting
<1>8. LeaseOutlives'
  BY SMTT(30) DEF Spawn, LeaseOutlives, OneDispatcher, Unspawned, AnsweredOnce,
     Handling, Attempting
<1> QED
  BY <1>1, <1>2, <1>3, <1>4, <1>5, <1>6, <1>7, <1>8

\* Nothing is sent.
LEMMA StaggeredUnrouted ==
    ASSUME TypeOK, TypeOK', AnsweredOnce, StaggeredInv, Staggered,
           NEW c \in Caller, Unrouted(c)
    PROVE  StaggeredInv'
<1> USE KeyOfAssumption, NobodyAssumption, GuardedAssumption
    DEF TypeOK, StaggeredInv, Staggered, handlerVars, attemptVars, wireVars
<1>1. OneDispatcher'
  BY SMTT(30) DEF Unrouted, Returned, Outcome, OneDispatcher, Unspawned, AnsweredOnce,
     Peers, Handling
<1>2. OneActive'
  BY SMTT(30) DEF Unrouted, Returned, Outcome, OneActive, DispatchIsNewest,
     DispatchesNewest, Active, Dispatching, Quiet, Peers, Attempting, CallOrder,
     AnsweredOnce
<1>3. CallOrder'
  BY SMTT(30) DEF Unrouted, Returned, Outcome, CallOrder, AnsweredOnce
<1>4. DispatchIsNewest'
  BY SMTT(30) DEF Unrouted, Returned, Outcome, OneDispatcher, Unspawned, OneActive,
     CallOrder, DispatchIsNewest, DispatchesNewest, CopiesAreOwn, EntryIsNewest,
     EntryIsRight, AnsweredOnce, LeaseOutlives, Newest, AtMostVersion, Active,
     Dispatching, Quiet, Peers, Attempting, Handling, Entry
<1>5. CopiesAreOwn'
  BY SMTT(30) DEF Unrouted, Returned, Outcome, CopiesAreOwn, AnsweredOnce, OneDispatcher
<1>6. EntryIsNewest'
  BY SMTT(30) DEF Unrouted, Returned, Outcome, OneDispatcher, Unspawned, OneActive,
     CallOrder, DispatchIsNewest, DispatchesNewest, CopiesAreOwn, EntryIsNewest,
     EntryIsRight, AnsweredOnce, LeaseOutlives, Newest, AtMostVersion, Active,
     Dispatching, Quiet, Peers, Attempting, Handling, Entry
<1>7. ExclusiveVersions'
  BY SMTT(30) DEF Unrouted, Returned, Outcome, ExclusiveVersions, DispatchIsNewest,
     DispatchesNewest, Newest, Dispatching, AnsweredOnce, Peers, Attempting
<1>8. LeaseOutlives'
  BY SMTT(30) DEF Unrouted, Returned, Outcome, LeaseOutlives, OneDispatcher, Unspawned,
     AnsweredOnce, Handling, Attempting
<1> QED
  BY <1>1, <1>2, <1>3, <1>4, <1>5, <1>6, <1>7, <1>8

\* A success, or a soft error.
LEMMA StaggeredReplyOk ==
    ASSUME TypeOK, TypeOK', AnsweredOnce, StaggeredInv, Staggered,
           NEW c \in Caller, ReplyOk(c)
    PROVE  StaggeredInv'
<1> USE KeyOfAssumption, NobodyAssumption, GuardedAssumption
    DEF TypeOK, StaggeredInv, Staggered, handlerVars, attemptVars, wireVars
<1>1. OneDispatcher'
  BY SMTT(30) DEF ReplyOk, Returned, Outcome, OneDispatcher, Unspawned, AnsweredOnce,
     Peers, Handling
<1>2. OneActive'
  BY SMTT(30) DEF ReplyOk, Returned, Outcome, OneActive, DispatchIsNewest,
     DispatchesNewest, Active, Dispatching, Quiet, Peers, Attempting, CallOrder,
     AnsweredOnce
<1>3. CallOrder'
  BY SMTT(30) DEF ReplyOk, Returned, Outcome, CallOrder, AnsweredOnce
<1>4. DispatchIsNewest'
  BY SMTT(30) DEF ReplyOk, Returned, Outcome, OneDispatcher, Unspawned, OneActive,
     CallOrder, DispatchIsNewest, DispatchesNewest, CopiesAreOwn, EntryIsNewest,
     EntryIsRight, AnsweredOnce, LeaseOutlives, Newest, AtMostVersion, Active,
     Dispatching, Quiet, Peers, Attempting, Handling, Entry
<1>5. CopiesAreOwn'
  BY SMTT(30) DEF ReplyOk, Returned, Outcome, CopiesAreOwn, AnsweredOnce, OneDispatcher
<1>6. EntryIsNewest'
  BY SMTT(30) DEF ReplyOk, Returned, Outcome, OneDispatcher, Unspawned, OneActive,
     CallOrder, DispatchIsNewest, DispatchesNewest, CopiesAreOwn, EntryIsNewest,
     EntryIsRight, AnsweredOnce, LeaseOutlives, Newest, AtMostVersion, Active,
     Dispatching, Quiet, Peers, Attempting, Handling, Entry
<1>7. ExclusiveVersions'
  BY SMTT(30) DEF ReplyOk, Returned, Outcome, ExclusiveVersions, DispatchIsNewest,
     DispatchesNewest, Newest, Dispatching, AnsweredOnce, Peers, Attempting
<1>8. LeaseOutlives'
  BY SMTT(30) DEF ReplyOk, Returned, Outcome, LeaseOutlives, OneDispatcher, Unspawned,
     AnsweredOnce, Handling, Attempting
<1> QED
  BY <1>1, <1>2, <1>3, <1>4, <1>5, <1>6, <1>7, <1>8

\* Failed goes with a refused call.
LEMMA StaggeredReplyError ==
    ASSUME TypeOK, TypeOK', AnsweredOnce, StaggeredInv, Staggered,
           NEW c \in Caller, ReplyError(c)
    PROVE  StaggeredInv'
<1> USE KeyOfAssumption, NobodyAssumption, GuardedAssumption
    DEF TypeOK, StaggeredInv, Staggered, handlerVars, attemptVars, wireVars
<1>1. OneDispatcher'
  BY SMTT(30) DEF ReplyError, Returned, Outcome, OneDispatcher, Unspawned, AnsweredOnce,
     Peers, Handling
<1>2. OneActive'
  BY SMTT(30) DEF ReplyError, Returned, Outcome, OneActive, DispatchIsNewest,
     DispatchesNewest, Active, Dispatching, Quiet, Peers, Attempting, CallOrder,
     AnsweredOnce
<1>3. CallOrder'
  BY SMTT(30) DEF ReplyError, Returned, Outcome, CallOrder, AnsweredOnce
<1>4. DispatchIsNewest'
  BY SMTT(30) DEF ReplyError, Returned, Outcome, OneDispatcher, Unspawned, OneActive,
     CallOrder, DispatchIsNewest, DispatchesNewest, CopiesAreOwn, EntryIsNewest,
     EntryIsRight, AnsweredOnce, LeaseOutlives, Newest, AtMostVersion, Active,
     Dispatching, Quiet, Peers, Attempting, Handling, Entry
<1>5. CopiesAreOwn'
  BY SMTT(30) DEF ReplyError, Returned, Outcome, CopiesAreOwn, AnsweredOnce,
     OneDispatcher
<1>6. EntryIsNewest'
  BY SMTT(30) DEF ReplyError, Returned, Outcome, OneDispatcher, Unspawned, OneActive,
     CallOrder, DispatchIsNewest, DispatchesNewest, CopiesAreOwn, EntryIsNewest,
     EntryIsRight, AnsweredOnce, LeaseOutlives, Newest, AtMostVersion, Active,
     Dispatching, Quiet, Peers, Attempting, Handling, Entry
<1>7. ExclusiveVersions'
  BY SMTT(30) DEF ReplyError, Returned, Outcome, ExclusiveVersions, DispatchIsNewest,
     DispatchesNewest, Newest, Dispatching, AnsweredOnce, Peers, Attempting
<1>8. LeaseOutlives'
  BY SMTT(30) DEF ReplyError, Returned, Outcome, LeaseOutlives, OneDispatcher,
     Unspawned, AnsweredOnce, Handling, Attempting
<1> QED
  BY <1>1, <1>2, <1>3, <1>4, <1>5, <1>6, <1>7, <1>8

\* The attempt finds its own version while the entry says Running.
LEMMA StaggeredAttemptMarkGet ==
    ASSUME TypeOK, TypeOK', AnsweredOnce, StaggeredInv, Staggered,
           NEW c \in Caller, AttemptMarkGet(c)
    PROVE  StaggeredInv'
<1> USE KeyOfAssumption, NobodyAssumption, GuardedAssumption
    DEF TypeOK, StaggeredInv, Staggered, handlerVars, attemptVars, wireVars
<1>1. OneDispatcher'
  BY SMTT(30) DEF AttemptMarkGet, Carries, OneDispatcher, Unspawned, AnsweredOnce,
     Peers, Handling
<1>2. OneActive'
  BY SMTT(30) DEF AttemptMarkGet, Carries, OneActive, DispatchIsNewest,
     DispatchesNewest, Active, Dispatching, Quiet, Peers, Attempting, CallOrder,
     AnsweredOnce
<1>3. CallOrder'
  BY SMTT(30) DEF AttemptMarkGet, Carries, CallOrder, AnsweredOnce
<1>4. DispatchIsNewest'
  <2>1. /\ UNCHANGED <<store, call, ver, goal, saw, pc>> /\ tpc[c] = "markGet"
        /\ \A b \in Caller \ {c} : tpc'[b] = tpc[b]
        /\ tpc'[c] \in {"markPut", "done"}
    BY SMTT(60) DEF AttemptMarkGet
  <2> SUFFICES ASSUME NEW d \in Caller, KeyOf[d] \in Guarded PROVE DispatchesNewest(d)'
    BY DEF DispatchIsNewest
  <2>2. DispatchesNewest(d)
    BY DEF DispatchIsNewest
  <2>3. CASE KeyOf[d] # KeyOf[c]
    BY <2>1, <2>2, <2>3, SMTT(30) DEF DispatchesNewest, Newest, AtMostVersion, Active,
       Dispatching, Quiet, Peers, Attempting
  <2>4. CASE d = c
    BY <2>1, <2>2, <2>4, SMTT(30) DEF OneDispatcher, Unspawned, OneActive, CallOrder,
       DispatchIsNewest, DispatchesNewest, CopiesAreOwn, EntryIsNewest, EntryIsRight,
       AnsweredOnce, LeaseOutlives, Newest, AtMostVersion, Active, Dispatching, Quiet,
       Peers, Attempting, Handling, Entry
  <2>5. CASE KeyOf[d] = KeyOf[c] /\ d # c
    BY <2>1, <2>2, <2>5, SMTT(30) DEF OneDispatcher, Unspawned, OneActive, CallOrder,
       DispatchIsNewest, DispatchesNewest, CopiesAreOwn, EntryIsNewest, EntryIsRight,
       AnsweredOnce, LeaseOutlives, Newest, AtMostVersion, Active, Dispatching, Quiet,
       Peers, Attempting, Handling, Entry
  <2> QED
    BY <2>3, <2>4, <2>5
<1>5. CopiesAreOwn'
  BY SMTT(30) DEF AttemptMarkGet, Carries, CopiesAreOwn, AnsweredOnce, OneDispatcher
<1>6. EntryIsNewest'
  BY SMTT(30) DEF AttemptMarkGet, Carries, OneDispatcher, Unspawned, OneActive,
     CallOrder, DispatchIsNewest, DispatchesNewest, CopiesAreOwn, EntryIsNewest,
     EntryIsRight, AnsweredOnce, LeaseOutlives, Newest, AtMostVersion, Active,
     Dispatching, Quiet, Peers, Attempting, Handling, Entry
<1>7. ExclusiveVersions'
  BY SMTT(30) DEF AttemptMarkGet, Carries, ExclusiveVersions, DispatchIsNewest,
     DispatchesNewest, Newest, Dispatching, AnsweredOnce, Peers, Attempting
<1>8. LeaseOutlives'
  BY SMTT(30) DEF AttemptMarkGet, Carries, LeaseOutlives, OneDispatcher, Unspawned,
     AnsweredOnce, Handling, Attempting
<1> QED
  BY <1>1, <1>2, <1>3, <1>4, <1>5, <1>6, <1>7, <1>8

\* What an attempt writes takes the entry out of Running.
LEMMA StaggeredAttemptMarkPut ==
    ASSUME TypeOK, TypeOK', AnsweredOnce, StaggeredInv, Staggered,
           NEW c \in Caller, AttemptMarkPut(c)
    PROVE  StaggeredInv'
<1> USE KeyOfAssumption, NobodyAssumption, GuardedAssumption
    DEF TypeOK, StaggeredInv, Staggered, handlerVars, attemptVars, wireVars
<1>1. OneDispatcher'
  BY SMTT(30) DEF AttemptMarkPut, Stamped, Absent, OneDispatcher, Unspawned,
     AnsweredOnce, Peers, Handling
<1>2. OneActive'
  BY SMTT(30) DEF AttemptMarkPut, Stamped, Absent, OneActive, DispatchIsNewest,
     DispatchesNewest, Active, Dispatching, Quiet, Peers, Attempting, CallOrder,
     AnsweredOnce
<1>3. CallOrder'
  BY SMTT(30) DEF AttemptMarkPut, Stamped, Absent, CallOrder, AnsweredOnce
<1>4. DispatchIsNewest'
  <2>1. /\ UNCHANGED <<call, ver, goal, saw, pc>> /\ tpc[c] = "markPut" /\ tpc'[c] = "done"
        /\ \A b \in Caller \ {c} : tpc'[b] = tpc[b]
        /\ store' = [store EXCEPT ![KeyOf[c]] = Stamped(tsaw[c], tgoal[c])]
    BY SMTT(60) DEF AttemptMarkPut
  <2> SUFFICES ASSUME NEW d \in Caller, KeyOf[d] \in Guarded PROVE DispatchesNewest(d)'
    BY DEF DispatchIsNewest
  <2>2. DispatchesNewest(d)
    BY DEF DispatchIsNewest
  <2>3. CASE KeyOf[d] # KeyOf[c]
    BY <2>1, <2>2, <2>3, SMTT(30) DEF DispatchesNewest, Newest, AtMostVersion, Active,
       Dispatching, Quiet, Peers, Attempting
  <2>4. CASE d = c
    BY <2>1, <2>2, <2>4, SMTT(30) DEF OneDispatcher, Unspawned, OneActive, CallOrder,
       DispatchIsNewest, DispatchesNewest, CopiesAreOwn, EntryIsNewest, EntryIsRight,
       AnsweredOnce, LeaseOutlives, Newest, AtMostVersion, Active, Dispatching, Quiet,
       Peers, Attempting, Handling, Entry, Stamped
  <2>5. CASE KeyOf[d] = KeyOf[c] /\ d # c
    <3>1. ~Dispatching(d) /\ ~Attempting(d)
      BY <2>1, <2>5, OthersAreOut DEF Dispatching, Attempting
    <3>2. ~Dispatching(d)' /\ ~Attempting(d)'
      BY <2>1, <2>5, <3>1 DEF Dispatching, Attempting
    <3> QED
      BY <3>2 DEF DispatchesNewest, Dispatching
  <2> QED
    BY <2>3, <2>4, <2>5
<1>5. CopiesAreOwn'
  BY SMTT(30) DEF AttemptMarkPut, Stamped, Absent, CopiesAreOwn, AnsweredOnce,
     OneDispatcher
<1>6. EntryIsNewest'
  BY SMTT(30) DEF AttemptMarkPut, Stamped, Absent, OneDispatcher, Unspawned, OneActive,
     CallOrder, DispatchIsNewest, DispatchesNewest, CopiesAreOwn, EntryIsNewest,
     EntryIsRight, AnsweredOnce, LeaseOutlives, Newest, AtMostVersion, Active,
     Dispatching, Quiet, Peers, Attempting, Handling, Entry
<1>7. ExclusiveVersions'
  BY SMTT(30) DEF AttemptMarkPut, Stamped, Absent, ExclusiveVersions, DispatchIsNewest,
     DispatchesNewest, Newest, Dispatching, AnsweredOnce, Peers, Attempting
<1>8. LeaseOutlives'
  BY SMTT(30) DEF AttemptMarkPut, Stamped, Absent, LeaseOutlives, OneDispatcher,
     Unspawned, AnsweredOnce, Handling, Attempting
<1> QED
  BY <1>1, <1>2, <1>3, <1>4, <1>5, <1>6, <1>7, <1>8

\* A call that arrives is the only one that has not spawned its attempt.
LEMMA StaggeredArrive ==
    ASSUME TypeOK, TypeOK', AnsweredOnce, StaggeredInv, Staggered,
           NEW c \in Caller, Arrive(c)
    PROVE  StaggeredInv'
<1> USE KeyOfAssumption, NobodyAssumption, GuardedAssumption
    DEF TypeOK, StaggeredInv, Staggered, handlerVars, attemptVars, wireVars
<1>1. OneDispatcher'
  BY SMTT(30) DEF Arrive, OneDispatcher, Unspawned, AnsweredOnce, Peers, Handling
<1>2. OneActive'
  BY SMTT(30) DEF Arrive, OneActive, DispatchIsNewest, DispatchesNewest, Active,
     Dispatching, Quiet, Peers, Attempting, CallOrder, AnsweredOnce
<1>3. CallOrder'
  BY SMTT(30) DEF Arrive, CallOrder, AnsweredOnce
<1>4. DispatchIsNewest'
  BY SMTT(30) DEF Arrive, OneDispatcher, Unspawned, OneActive, CallOrder,
     DispatchIsNewest, DispatchesNewest, CopiesAreOwn, EntryIsNewest, EntryIsRight,
     AnsweredOnce, LeaseOutlives, Newest, AtMostVersion, Active, Dispatching, Quiet,
     Peers, Attempting, Handling, Entry
<1>5. CopiesAreOwn'
  BY SMTT(30) DEF Arrive, CopiesAreOwn, AnsweredOnce, OneDispatcher
<1>6. EntryIsNewest'
  BY SMTT(30) DEF Arrive, OneDispatcher, Unspawned, OneActive, CallOrder,
     DispatchIsNewest, DispatchesNewest, CopiesAreOwn, EntryIsNewest, EntryIsRight,
     AnsweredOnce, LeaseOutlives, Newest, AtMostVersion, Active, Dispatching, Quiet,
     Peers, Attempting, Handling, Entry
<1>7. ExclusiveVersions'
  BY SMTT(30) DEF Arrive, ExclusiveVersions, DispatchIsNewest, DispatchesNewest, Newest,
     Dispatching, AnsweredOnce, Peers, Attempting
<1>8. LeaseOutlives'
  BY SMTT(30) DEF Arrive, LeaseOutlives, OneDispatcher, Unspawned, AnsweredOnce,
     Handling, Attempting
<1> QED
  BY <1>1, <1>2, <1>3, <1>4, <1>5, <1>6, <1>7, <1>8

\* A handler that leaves its wait writes nothing.
LEMMA StaggeredJoin ==
    ASSUME TypeOK, TypeOK', AnsweredOnce, StaggeredInv, Staggered,
           NEW c \in Caller, Join(c)
    PROVE  StaggeredInv'
<1> USE KeyOfAssumption, NobodyAssumption, GuardedAssumption
    DEF TypeOK, StaggeredInv, Staggered, handlerVars, attemptVars, wireVars
<1>1. OneDispatcher'
  BY SMTT(30) DEF Join, Finish, OneDispatcher, Unspawned, AnsweredOnce, Peers, Handling
<1>2. OneActive'
  BY SMTT(30) DEF Join, Finish, OneActive, DispatchIsNewest, DispatchesNewest, Active,
     Dispatching, Quiet, Peers, Attempting, CallOrder, AnsweredOnce
<1>3. CallOrder'
  BY SMTT(30) DEF Join, Finish, CallOrder, AnsweredOnce
<1>4. DispatchIsNewest'
  BY SMTT(30) DEF Join, Finish, OneDispatcher, Unspawned, OneActive, CallOrder,
     DispatchIsNewest, DispatchesNewest, CopiesAreOwn, EntryIsNewest, EntryIsRight,
     AnsweredOnce, LeaseOutlives, Newest, AtMostVersion, Active, Dispatching, Quiet,
     Peers, Attempting, Handling, Entry
<1>5. CopiesAreOwn'
  BY SMTT(30) DEF Join, Finish, CopiesAreOwn, AnsweredOnce, OneDispatcher
<1>6. EntryIsNewest'
  BY SMTT(30) DEF Join, Finish, OneDispatcher, Unspawned, OneActive, CallOrder,
     DispatchIsNewest, DispatchesNewest, CopiesAreOwn, EntryIsNewest, EntryIsRight,
     AnsweredOnce, LeaseOutlives, Newest, AtMostVersion, Active, Dispatching, Quiet,
     Peers, Attempting, Handling, Entry
<1>7. ExclusiveVersions'
  BY SMTT(30) DEF Join, Finish, ExclusiveVersions, DispatchIsNewest, DispatchesNewest,
     Newest, Dispatching, AnsweredOnce, Peers, Attempting
<1>8. LeaseOutlives'
  BY SMTT(30) DEF Join, Finish, LeaseOutlives, OneDispatcher, Unspawned, AnsweredOnce,
     Handling, Attempting
<1> QED
  BY <1>1, <1>2, <1>3, <1>4, <1>5, <1>6, <1>7, <1>8

\* A handler that has waited goes on to write Unknown, and nothing else.
LEMMA StaggeredGiveUp ==
    ASSUME TypeOK, TypeOK', AnsweredOnce, StaggeredInv, Staggered,
           NEW c \in Caller, GiveUp(c)
    PROVE  StaggeredInv'
<1> USE KeyOfAssumption, NobodyAssumption, GuardedAssumption
    DEF TypeOK, StaggeredInv, Staggered, handlerVars, attemptVars, wireVars
<1>1. OneDispatcher'
  BY SMTT(30) DEF GiveUp, BeginMark, OneDispatcher, Unspawned, AnsweredOnce, Peers,
     Handling
<1>2. OneActive'
  BY SMTT(30) DEF GiveUp, BeginMark, OneActive, DispatchIsNewest, DispatchesNewest,
     Active, Dispatching, Quiet, Peers, Attempting, CallOrder, AnsweredOnce
<1>3. CallOrder'
  BY SMTT(30) DEF GiveUp, BeginMark, CallOrder, AnsweredOnce
<1>4. DispatchIsNewest'
  BY SMTT(30) DEF GiveUp, BeginMark, OneDispatcher, Unspawned, OneActive, CallOrder,
     DispatchIsNewest, DispatchesNewest, CopiesAreOwn, EntryIsNewest, EntryIsRight,
     AnsweredOnce, LeaseOutlives, Newest, AtMostVersion, Active, Dispatching, Quiet,
     Peers, Attempting, Handling, Entry
<1>5. CopiesAreOwn'
  BY SMTT(30) DEF GiveUp, BeginMark, CopiesAreOwn, AnsweredOnce, OneDispatcher
<1>6. EntryIsNewest'
  BY SMTT(30) DEF GiveUp, BeginMark, OneDispatcher, Unspawned, OneActive, CallOrder,
     DispatchIsNewest, DispatchesNewest, CopiesAreOwn, EntryIsNewest, EntryIsRight,
     AnsweredOnce, LeaseOutlives, Newest, AtMostVersion, Active, Dispatching, Quiet,
     Peers, Attempting, Handling, Entry
<1>7. ExclusiveVersions'
  BY SMTT(30) DEF GiveUp, BeginMark, ExclusiveVersions, DispatchIsNewest,
     DispatchesNewest, Newest, Dispatching, AnsweredOnce, Peers, Attempting
<1>8. LeaseOutlives'
  BY SMTT(30) DEF GiveUp, BeginMark, LeaseOutlives, OneDispatcher, Unspawned,
     AnsweredOnce, Handling, Attempting
<1> QED
  BY <1>1, <1>2, <1>3, <1>4, <1>5, <1>6, <1>7, <1>8

\* A client that leaves after the spawn leaves its attempt as it is.
LEMMA StaggeredDisconnect ==
    ASSUME TypeOK, TypeOK', AnsweredOnce, StaggeredInv, Staggered,
           NEW c \in Caller, Disconnect(c)
    PROVE  StaggeredInv'
<1> USE KeyOfAssumption, NobodyAssumption, GuardedAssumption
    DEF TypeOK, StaggeredInv, Staggered, handlerVars, attemptVars, wireVars
<1>1. OneDispatcher'
  BY SMTT(30) DEF Disconnect, Absent, OneDispatcher, Unspawned, AnsweredOnce, Peers,
     Handling
<1>2. OneActive'
  BY SMTT(30) DEF Disconnect, Absent, OneActive, DispatchIsNewest, DispatchesNewest,
     Active, Dispatching, Quiet, Peers, Attempting, CallOrder, AnsweredOnce
<1>3. CallOrder'
  BY SMTT(30) DEF Disconnect, Absent, CallOrder, AnsweredOnce
<1>4. DispatchIsNewest'
  BY SMTT(30) DEF Disconnect, Absent, OneDispatcher, Unspawned, OneActive, CallOrder,
     DispatchIsNewest, DispatchesNewest, CopiesAreOwn, EntryIsNewest, EntryIsRight,
     AnsweredOnce, LeaseOutlives, Newest, AtMostVersion, Active, Dispatching, Quiet,
     Peers, Attempting, Handling, Entry
<1>5. CopiesAreOwn'
  BY SMTT(30) DEF Disconnect, Absent, CopiesAreOwn, AnsweredOnce, OneDispatcher
<1>6. EntryIsNewest'
  BY SMTT(30) DEF Disconnect, Absent, OneDispatcher, Unspawned, OneActive, CallOrder,
     DispatchIsNewest, DispatchesNewest, CopiesAreOwn, EntryIsNewest, EntryIsRight,
     AnsweredOnce, LeaseOutlives, Newest, AtMostVersion, Active, Dispatching, Quiet,
     Peers, Attempting, Handling, Entry
<1>7. ExclusiveVersions'
  BY SMTT(30) DEF Disconnect, Absent, ExclusiveVersions, DispatchIsNewest,
     DispatchesNewest, Newest, Dispatching, AnsweredOnce, Peers, Attempting
<1>8. LeaseOutlives'
  BY SMTT(30) DEF Disconnect, Absent, LeaseOutlives, OneDispatcher, Unspawned,
     AnsweredOnce, Handling, Attempting
<1> QED
  BY <1>1, <1>2, <1>3, <1>4, <1>5, <1>6, <1>7, <1>8

\* A call is sent by the attempt that is active.
LEMMA StaggeredSend ==
    ASSUME TypeOK, TypeOK', AnsweredOnce, StaggeredInv, Staggered,
           NEW c \in Caller, Send(c)
    PROVE  StaggeredInv'
<1> USE KeyOfAssumption, NobodyAssumption, GuardedAssumption
    DEF TypeOK, StaggeredInv, Staggered, handlerVars, attemptVars, wireVars
<1>1. OneDispatcher'
  BY SMTT(30) DEF Send, OneDispatcher, Unspawned, AnsweredOnce, Peers, Handling
<1>2. OneActive'
  BY SMTT(30) DEF Send, OneActive, DispatchIsNewest, DispatchesNewest, Active,
     Dispatching, Quiet, Peers, Attempting, CallOrder, AnsweredOnce
<1>3. CallOrder'
  BY SMTT(30) DEF Send, CallOrder, AnsweredOnce
<1>4. DispatchIsNewest'
  BY SMTT(30) DEF Send, OneDispatcher, Unspawned, OneActive, CallOrder,
     DispatchIsNewest, DispatchesNewest, CopiesAreOwn, EntryIsNewest, EntryIsRight,
     AnsweredOnce, LeaseOutlives, Newest, AtMostVersion, Active, Dispatching, Quiet,
     Peers, Attempting, Handling, Entry
<1>5. CopiesAreOwn'
  BY SMTT(30) DEF Send, CopiesAreOwn, AnsweredOnce, OneDispatcher
<1>6. EntryIsNewest'
  <2>1. /\ UNCHANGED <<store, ver, pc, goal>> /\ tpc[c] = "start" /\ tpc'[c] = "sent"
        /\ \A b \in Caller \ {c} : tpc'[b] = tpc[b] /\ call'[b] = call[b]
    BY DEF Send
  <2> QED
    BY <2>1, SMTT(60) DEF EntryIsNewest, EntryIsRight, AtMostVersion, Active, Quiet,
       Peers, Attempting
<1>7. ExclusiveVersions'
  BY SMTT(30) DEF Send, ExclusiveVersions, DispatchIsNewest, DispatchesNewest, Newest,
     Dispatching, AnsweredOnce, Peers, Attempting
<1>8. LeaseOutlives'
  BY SMTT(30) DEF Send, LeaseOutlives, OneDispatcher, Unspawned, AnsweredOnce, Handling,
     Attempting
<1> QED
  BY <1>1, <1>2, <1>3, <1>4, <1>5, <1>6, <1>7, <1>8

\* A lost answer is recorded as Unknown.
LEMMA StaggeredReplyLost ==
    ASSUME TypeOK, TypeOK', AnsweredOnce, StaggeredInv, Staggered,
           NEW c \in Caller, ReplyLost(c)
    PROVE  StaggeredInv'
<1> USE KeyOfAssumption, NobodyAssumption, GuardedAssumption
    DEF TypeOK, StaggeredInv, Staggered, handlerVars, attemptVars, wireVars
<1>1. OneDispatcher'
  BY SMTT(30) DEF ReplyLost, Returned, Outcome, OneDispatcher, Unspawned, AnsweredOnce,
     Peers, Handling
<1>2. OneActive'
  BY SMTT(30) DEF ReplyLost, Returned, Outcome, OneActive, DispatchIsNewest,
     DispatchesNewest, Active, Dispatching, Quiet, Peers, Attempting, CallOrder,
     AnsweredOnce
<1>3. CallOrder'
  BY SMTT(30) DEF ReplyLost, Returned, Outcome, CallOrder, AnsweredOnce
<1>4. DispatchIsNewest'
  BY SMTT(30) DEF ReplyLost, Returned, Outcome, OneDispatcher, Unspawned, OneActive,
     CallOrder, DispatchIsNewest, DispatchesNewest, CopiesAreOwn, EntryIsNewest,
     EntryIsRight, AnsweredOnce, LeaseOutlives, Newest, AtMostVersion, Active,
     Dispatching, Quiet, Peers, Attempting, Handling, Entry
<1>5. CopiesAreOwn'
  BY SMTT(30) DEF ReplyLost, Returned, Outcome, CopiesAreOwn, AnsweredOnce,
     OneDispatcher
<1>6. EntryIsNewest'
  BY SMTT(30) DEF ReplyLost, Returned, Outcome, OneDispatcher, Unspawned, OneActive,
     CallOrder, DispatchIsNewest, DispatchesNewest, CopiesAreOwn, EntryIsNewest,
     EntryIsRight, AnsweredOnce, LeaseOutlives, Newest, AtMostVersion, Active,
     Dispatching, Quiet, Peers, Attempting, Handling, Entry
<1>7. ExclusiveVersions'
  BY SMTT(30) DEF ReplyLost, Returned, Outcome, ExclusiveVersions, DispatchIsNewest,
     DispatchesNewest, Newest, Dispatching, AnsweredOnce, Peers, Attempting
<1>8. LeaseOutlives'
  BY SMTT(30) DEF ReplyLost, Returned, Outcome, LeaseOutlives, OneDispatcher, Unspawned,
     AnsweredOnce, Handling, Attempting
<1> QED
  BY <1>1, <1>2, <1>3, <1>4, <1>5, <1>6, <1>7, <1>8

\* The server acts on a call that is active.
LEMMA StaggeredApply ==
    ASSUME TypeOK, TypeOK', AnsweredOnce, StaggeredInv, Staggered,
           NEW c \in Caller, Apply(c)
    PROVE  StaggeredInv'
<1> USE KeyOfAssumption, NobodyAssumption, GuardedAssumption
    DEF TypeOK, StaggeredInv, Staggered, handlerVars, attemptVars, wireVars
<1>1. OneDispatcher'
  BY SMTT(30) DEF Apply, OneDispatcher, Unspawned, AnsweredOnce, Peers, Handling
<1>2. OneActive'
  BY SMTT(30) DEF Apply, OneActive, DispatchIsNewest, DispatchesNewest, Active,
     Dispatching, Quiet, Peers, Attempting, CallOrder, AnsweredOnce
<1>3. CallOrder'
  BY SMTT(30) DEF Apply, CallOrder, AnsweredOnce
<1>4. DispatchIsNewest'
  BY SMTT(30) DEF Apply, OneDispatcher, Unspawned, OneActive, CallOrder,
     DispatchIsNewest, DispatchesNewest, CopiesAreOwn, EntryIsNewest, EntryIsRight,
     AnsweredOnce, LeaseOutlives, Newest, AtMostVersion, Active, Dispatching, Quiet,
     Peers, Attempting, Handling, Entry
<1>5. CopiesAreOwn'
  BY SMTT(30) DEF Apply, CopiesAreOwn, AnsweredOnce, OneDispatcher
<1>6. EntryIsNewest'
  BY SMTT(30) DEF Apply, OneDispatcher, Unspawned, OneActive, CallOrder,
     DispatchIsNewest, DispatchesNewest, CopiesAreOwn, EntryIsNewest, EntryIsRight,
     AnsweredOnce, LeaseOutlives, Newest, AtMostVersion, Active, Dispatching, Quiet,
     Peers, Attempting, Handling, Entry
<1>7. ExclusiveVersions'
  BY SMTT(30) DEF Apply, ExclusiveVersions, DispatchIsNewest, DispatchesNewest, Newest,
     Dispatching, AnsweredOnce, Peers, Attempting
<1>8. LeaseOutlives'
  BY SMTT(30) DEF Apply, LeaseOutlives, OneDispatcher, Unspawned, AnsweredOnce,
     Handling, Attempting
<1> QED
  BY <1>1, <1>2, <1>3, <1>4, <1>5, <1>6, <1>7, <1>8

\* A lease that runs out is that of a call that has ended.
LEMMA StaggeredLeaseExpires ==
    ASSUME TypeOK, TypeOK', AnsweredOnce, StaggeredInv, Staggered,
           NEW c \in Caller, LeaseExpires(c)
    PROVE  StaggeredInv'
<1> USE KeyOfAssumption, NobodyAssumption, GuardedAssumption
    DEF TypeOK, StaggeredInv, Staggered, handlerVars, attemptVars, wireVars
<1>1. OneDispatcher'
  BY SMTT(30) DEF LeaseExpires, OneDispatcher, Unspawned, AnsweredOnce, Peers, Handling
<1>2. OneActive'
  BY SMTT(30) DEF LeaseExpires, OneActive, DispatchIsNewest, DispatchesNewest, Active,
     Dispatching, Quiet, Peers, Attempting, CallOrder, AnsweredOnce
<1>3. CallOrder'
  BY SMTT(30) DEF LeaseExpires, CallOrder, AnsweredOnce
<1>4. DispatchIsNewest'
  BY SMTT(30) DEF LeaseExpires, OneDispatcher, Unspawned, OneActive, CallOrder,
     DispatchIsNewest, DispatchesNewest, CopiesAreOwn, EntryIsNewest, EntryIsRight,
     AnsweredOnce, LeaseOutlives, Newest, AtMostVersion, Active, Dispatching, Quiet,
     Peers, Attempting, Handling, Entry
<1>5. CopiesAreOwn'
  BY SMTT(30) DEF LeaseExpires, CopiesAreOwn, AnsweredOnce, OneDispatcher
<1>6. EntryIsNewest'
  BY SMTT(30) DEF LeaseExpires, OneDispatcher, Unspawned, OneActive, CallOrder,
     DispatchIsNewest, DispatchesNewest, CopiesAreOwn, EntryIsNewest, EntryIsRight,
     AnsweredOnce, LeaseOutlives, Newest, AtMostVersion, Active, Dispatching, Quiet,
     Peers, Attempting, Handling, Entry
<1>7. ExclusiveVersions'
  BY SMTT(30) DEF LeaseExpires, ExclusiveVersions, DispatchIsNewest, DispatchesNewest,
     Newest, Dispatching, AnsweredOnce, Peers, Attempting
<1>8. LeaseOutlives'
  BY SMTT(30) DEF LeaseExpires, LeaseOutlives, OneDispatcher, Unspawned, AnsweredOnce,
     Handling, Attempting
<1> QED
  BY <1>1, <1>2, <1>3, <1>4, <1>5, <1>6, <1>7, <1>8
-------------------------------------------------------------------------------
(* The invariant, and what it is for *)

LEMMA StaggeredInit == Init => StaggeredInv
<1> SUFFICES ASSUME Init PROVE StaggeredInv
  OBVIOUS
<1> USE KeyOfAssumption, NobodyAssumption, GuardedAssumption
    DEF Init, Absent, Peers, Handling, Attempting, Active, Dispatching, Quiet
<1>1. OneDispatcher /\ OneActive
  BY DEF OneDispatcher, Unspawned, OneActive
<1>2. CallOrder
  BY DEF CallOrder
<1>3. DispatchIsNewest
  BY DEF DispatchIsNewest, DispatchesNewest
<1>4. EntryIsNewest
  BY DEF EntryIsNewest, EntryIsRight
<1>5. CopiesAreOwn /\ ExclusiveVersions
  BY DEF CopiesAreOwn, ExclusiveVersions
<1>6. LeaseOutlives
  BY DEF LeaseOutlives
<1> QED
  BY <1>1, <1>2, <1>3, <1>4, <1>5, <1>6 DEF StaggeredInv

\* What the invariant is about does not change when nothing does.
LEMMA StaggeredStutter ==
    ASSUME StaggeredInv, UNCHANGED vars
    PROVE  StaggeredInv'
<1> USE DEF StaggeredInv, vars, handlerVars, attemptVars, wireVars, Handling, Attempting,
            Active, Quiet
<1>1. OneDispatcher' /\ OneActive' /\ CallOrder'
  BY DEF OneDispatcher, Unspawned, OneActive, CallOrder, Peers
<1>2. DispatchIsNewest'
  BY DEF DispatchIsNewest, DispatchesNewest, Dispatching, Newest, AtMostVersion, Peers
<1>3. EntryIsNewest'
  BY DEF EntryIsNewest, EntryIsRight, AtMostVersion, Peers
<1>4. CopiesAreOwn' /\ ExclusiveVersions' /\ LeaseOutlives'
  BY DEF CopiesAreOwn, ExclusiveVersions, LeaseOutlives, Peers
<1> QED
  BY <1>1, <1>2, <1>3, <1>4

LEMMA StaggeredStep ==
    ASSUME TypeOK, TypeOK', AnsweredOnce, StaggeredInv, Staggered, [Next]_vars
    PROVE  StaggeredInv'
<1>1. CASE UNCHANGED vars
  BY <1>1, StaggeredStutter
<1>2. ASSUME NEW k \in Key, Evict(k) PROVE StaggeredInv'
  BY <1>2 DEF Evict, Staggered
<1>3. ASSUME NEW c \in Caller, Abort(c) PROVE StaggeredInv'
  BY <1>3 DEF Abort, Staggered
<1>4. ASSUME NEW c \in Caller, Handler(c) PROVE StaggeredInv'
  BY <1>4, StaggeredClaimGet, StaggeredClaimPut, StaggeredClaimInit, StaggeredReconcile,
     StaggeredMarkGet, StaggeredMarkPut, StaggeredSpawn, StaggeredJoin, StaggeredGiveUp
     DEF Handler
<1>5. ASSUME NEW c \in Caller, Attempt(c) PROVE StaggeredInv'
  BY <1>5, StaggeredUnrouted, StaggeredSend, StaggeredReplyOk, StaggeredReplyError,
     StaggeredReplyLost, StaggeredAttemptMarkGet, StaggeredAttemptMarkPut DEF Attempt
<1>6. ASSUME NEW c \in Caller,
             Arrive(c) \/ Disconnect(c) \/ Apply(c) \/ LeaseExpires(c)
      PROVE  StaggeredInv'
  BY <1>6, StaggeredArrive, StaggeredDisconnect, StaggeredApply, StaggeredLeaseExpires
<1> QED
  BY <1>1, <1>2, <1>3, <1>4, <1>5, <1>6 DEF Next

LEMMA StaggeredAlways ==
    ASSUME Staggered
    PROVE  Spec => [](TypeOK /\ RecordsInv /\ StaggeredInv)
<1>1. Init => TypeOK /\ RecordsInv /\ StaggeredInv
  BY TypeInit, RecordsInit, StaggeredInit
<1>2. TypeOK /\ RecordsInv /\ StaggeredInv /\ [Next]_vars
        => (TypeOK /\ RecordsInv /\ StaggeredInv)'
  BY TypeStep, RecordsStep, StaggeredStep DEF RecordsInv
<1> QED
  BY <1>1, <1>2, PTL DEF Spec

\* What handlers that still wait leave of a guarded key: the inductive invariant
\* that the run es_staggered checks holds for any number of callers.
THEOREM StaggeredInvHolds == ASSUME Staggered PROVE Spec => []StaggeredInv
  BY StaggeredAlways, PTL

\* With the reconciler of this build a guarded key acts at most once also when
\* its calls come while the handlers of earlier ones wait, leave, and write back
\* what they read long ago.
THEOREM StaggeredCallsActOnce == ASSUME Staggered PROVE Spec => []AtMostOnce
<1>1. StaggeredInv => AtMostOnce
  BY DEF StaggeredInv, OneActive, AtMostOnce, Applied, Active, Peers
<1> QED
  BY <1>1, StaggeredAlways, PTL

\* And it keeps the promise of SingleEffect: an attempt starts only when it is
\* certain that the one before did not act and will not.
THEOREM StaggeredCallsKeepPromise == ASSUME Staggered PROVE Spec => KeepsPromise
<1>1. /\ TypeOK /\ RecordsInv /\ StaggeredInv
      /\ [Next]_vars
      => [Promise!Next]_<<OpenCalls, ActedCalls>>
  <2>1. StaggeredInv => OneAtATime
    BY DEF StaggeredInv, OneAtATime, DispatchIsNewest, DispatchesNewest
  <2> QED
    BY <2>1, PromiseStep DEF RecordsInv, Staggered
<1> QED
  BY <1>1, PromiseInit, StaggeredAlways, PTL
  DEF Spec, KeepsPromise, Promise!Spec, Promise!vars, OpenCalls, ActedCalls

\* The fence still tells the attempts on a key apart, although the version of the
\* entry may go back.
THEOREM StaggeredVersionsAreExclusive ==
    ASSUME Staggered, Guarded = Key
    PROVE  Spec => []VersionsAreExclusive
<1>1. StaggeredInv => VersionsAreExclusive
  BY KeyOfAssumption DEF StaggeredInv, ExclusiveVersions, VersionsAreExclusive, Peers
<1> QED
  BY <1>1, StaggeredAlways, PTL
===============================================================================
