---- MODULE Conversation_proofs ----
(***************************************************************************)
(* Proofs about conversations: what Anthropic is sent alternates and is    *)
(* all of the history, no two requests with different histories are looked *)
(* up by the same words, and all of the user's text is searched for        *)
(* personal data.                                                          *)
(* The loops of the adapters are recursive functions; that they are        *)
(* defined, and what they keep, is shown by least counterexample.          *)
(***************************************************************************)
EXTENDS Conversation, Loops, SequenceTheorems, FiniteSetTheorems, TLAPS

-----------------------------------------------------------------------------
(* What Anthropic is sent. *)

Sides == {"user", "assistant"}

(* All that After can put together of the contents in P. *)
Sent(P) == [role : Sides, parts : P \cup {<<Of("dummy", s)>> : s \in Sides}]

Alternating(P) == {ms \in Seq(Sent(P)) : Alternate(ms)}

LEMMA EmptyAlternates == ASSUME NEW P PROVE << >> \in Alternating(P)
BY EmptySeq DEF Alternating, Alternate

(* One message more goes to the other side, or after a dummy of it.        *)
LEMMA AfterAlternates ==
    ASSUME NEW P, NEW ms \in Alternating(P), NEW m, m.parts \in P
    PROVE  After(ms, m) \in Alternating(P)
<1> DEFINE role == AnthropicRole(m)
           next == [role |-> role, parts |-> m.parts]
           dummy == Dummy(OtherRole(role))
<1>1. ms \in Seq(Sent(P)) /\ Alternate(ms) /\ role \in Sides
  BY DEF Alternating, AnthropicRole, Sides
<1>2. /\ next \in Sent(P) /\ next.role = role
      /\ dummy \in Sent(P) /\ dummy.role \in Sides /\ dummy.role # role
  BY <1>1 DEF Sent, Sides, Dummy, OtherRole
<1> HIDE DEF role, next, dummy
<1>3. CASE ms # << >> /\ Last(ms).role = role
  <2>1. After(ms, m) = ms \o <<dummy, next>>
    BY <1>3 DEF After, role, next, dummy
  <2> DEFINE out == ms \o <<dummy, next>>
  <2>2. /\ out \in Seq(Sent(P)) /\ Len(out) = Len(ms) + 2
        /\ \A i \in 1..Len(ms) : out[i] = ms[i]
        /\ out[Len(ms) + 1] = dummy /\ out[Len(ms) + 2] = next
    BY <1>1, <1>2
  <2>3. Len(ms) \in Nat \ {0} /\ ms[Len(ms)].role = role
    BY <1>1, <1>3, EmptySeq DEF Last
  <2> HIDE DEF out
  <2>4. ASSUME NEW i \in DOMAIN out, i > 1
        PROVE  out[i].role # out[i - 1].role
    <3>1. i \in 1..(Len(ms) + 2)
      BY <2>2, <2>3
    <3>2. CASE i <= Len(ms)
      <4>1. i \in DOMAIN ms /\ out[i] = ms[i] /\ out[i - 1] = ms[i - 1]
        BY <1>1, <2>2, <2>3, <2>4, <3>1, <3>2
      <4> QED  BY <1>1, <2>4, <4>1 DEF Alternate
    <3>3. CASE i = Len(ms) + 1
      <4>1. out[i] = dummy /\ out[i - 1] = ms[Len(ms)]
        BY <2>2, <2>3, <3>3
      <4> QED  BY <1>2, <2>3, <4>1
    <3>4. CASE i = Len(ms) + 2
      <4>1. out[i] = next /\ out[i - 1] = dummy
        BY <2>2, <2>3, <3>4
      <4> QED  BY <1>2, <4>1
    <3> QED  BY <2>3, <3>1, <3>2, <3>3, <3>4
  <2>5. Alternate(out)
    BY <2>4 DEF Alternate
  <2> QED  BY <2>1, <2>2, <2>5 DEF out, Alternating
<1>4. CASE ~(ms # << >> /\ Last(ms).role = role)
  <2>1. After(ms, m) = Append(ms, next)
    BY <1>4 DEF After, role, next
  <2> DEFINE out == Append(ms, next)
  <2>2. /\ out \in Seq(Sent(P)) /\ Len(out) = Len(ms) + 1
        /\ \A i \in 1..Len(ms) : out[i] = ms[i]
        /\ out[Len(ms) + 1] = next /\ Len(ms) \in Nat
    BY <1>1, <1>2
  <2> HIDE DEF out
  <2>3. ASSUME NEW i \in DOMAIN out, i > 1
        PROVE  out[i].role # out[i - 1].role
    <3>1. i \in 1..(Len(ms) + 1)
      BY <2>2
    <3>2. CASE i <= Len(ms)
      <4>1. i \in DOMAIN ms /\ out[i] = ms[i] /\ out[i - 1] = ms[i - 1]
        BY <1>1, <2>2, <2>3, <3>1, <3>2
      <4> QED  BY <1>1, <2>3, <4>1 DEF Alternate
    <3>3. CASE i = Len(ms) + 1
      <4>1. out[i] = next /\ out[i - 1] = ms[Len(ms)] /\ Len(ms) # 0
        BY <2>2, <2>3, <3>3
      <4>2. ms # << >>
        BY <4>1, EmptySeq
      <4>3. ms[Len(ms)].role # role
        BY <1>4, <4>2 DEF Last
      <4> QED  BY <1>2, <4>1, <4>3
    <3> QED  BY <2>2, <3>1, <3>2, <3>3
  <2>4. Alternate(out)
    BY <2>3 DEF Alternate
  <2> QED  BY <2>1, <2>2, <2>4 DEF out, Alternating
<1> QED  BY <1>3, <1>4

(* The loop of from_universal, over any sequence of messages.              *)
LEMMA AnthropicLoop ==
    ASSUME NEW S, NEW u \in Seq(S)
    PROVE  \E f : /\ f[0] = << >> /\ \A i \in 1..Len(u) : f[i] = After(f[i - 1], u[i])
                 /\ Anthropic(u) = f[Len(u)]
<1> DEFINE P == {u[i].parts : i \in DOMAIN u}
           n == Len(u)
           Good == Alternating(P)
           step == [x \in (1..n) \X Good |-> After(x[2], u[x[1]])]
           Loop(f) == f = [i \in 0..n |-> IF i = 0 THEN << >> ELSE After(f[i - 1], u[i])]
           upTo == CHOOSE f : Loop(f)
<1>1. n \in Nat /\ DOMAIN u = 1..n
  OBVIOUS
<1>2. << >> \in Good
  BY EmptyAlternates
<1>3. \A i \in 1..n, ms \in Good : After(ms, u[i]) \in Good
  <2> TAKE i \in 1..n, ms \in Good
  <2>1. u[i].parts \in P
    BY <1>1
  <2> HIDE DEF P
  <2> QED  BY <2>1, AfterAlternates
<1> HIDE DEF Good, P, n
<1>4. step \in [(1..n) \X Good -> Good]
  BY <1>3
<1>5. \A i \in 1..n, ms \in Good : step[<<i, ms>>] = After(ms, u[i])
  OBVIOUS
<1> HIDE DEF step
<1>6. \E f : Loop(f)
  <2> DEFINE b == << >>
  <2>1. b \in Good
    BY <1>2
  <2> HIDE DEF b
  <2>2. PICK f \in [0..n -> Good] : f[0] = b /\ \A i \in 1..n : f[i] = step[<<i, f[i - 1]>>]
    <3>1. Ends(n, Good, b, step)
      BY <1>1, <1>4, <2>1, LoopExists
    <3> QED  BY <3>1 DEF Ends
  <2>3. \A i \in 1..n : f[i] = After(f[i - 1], u[i])
    <3> TAKE i \in 1..n
    <3>1. f[i - 1] \in Good
      BY <1>1
    <3> QED  BY <1>5, <2>2, <3>1
  <2>4. \A i \in 0..n : f[i] = IF i = 0 THEN << >> ELSE After(f[i - 1], u[i])
    BY <1>1, <2>2, <2>3 DEF b
  <2>5. f = [i \in 0..n |-> f[i]]
    OBVIOUS
  <2>6. Loop(f)
    BY <2>4, <2>5
  <2> QED  BY <2>6
<1>7. Loop(upTo)
  BY <1>6
<1>8. Anthropic(u) = upTo[n]
  BY DEF Anthropic, n
<1> HIDE DEF upTo
<1>9. /\ upTo[0] = << >>
      /\ \A i \in 1..n : upTo[i] = After(upTo[i - 1], u[i])
  BY <1>1, <1>7
<1> QED  BY <1>8, <1>9 DEF n

LEMMA AnthropicAlternates ==
    ASSUME NEW S, NEW u \in Seq(S)
    PROVE  Alternate(Anthropic(u))
<1> DEFINE P == {u[i].parts : i \in DOMAIN u}
           n == Len(u)
           Good == Alternating(P)
<1>1. n \in Nat /\ DOMAIN u = 1..n
  OBVIOUS
<1>2. PICK f : /\ f[0] = << >> /\ \A i \in 1..n : f[i] = After(f[i - 1], u[i])
               /\ Anthropic(u) = f[n]
  BY AnthropicLoop
<1> DEFINE T == {i \in 0..n : f[i] \in Good}
<1>3. 0 \in T
  <2>1. f[0] \in Good
    BY <1>2, EmptyAlternates
  <2> HIDE DEF Good
  <2> QED  BY <1>1, <2>1
<1>4. ASSUME NEW i \in 1..n, i - 1 \in T
      PROVE  i \in T
  <2>1. u[i].parts \in P
    BY <1>1
  <2> HIDE DEF P
  <2>2. f[i] \in Good
    BY <1>2, <1>4, <2>1, AfterAlternates
  <2> HIDE DEF Good
  <2> QED  BY <1>1, <2>2
<1>5. n \in T
  <2> HIDE DEF T, n
  <2>1. 0..n \subseteq T
    BY <1>1, <1>3, <1>4, UpTo
  <2> QED  BY <1>1, <2>1
<1> QED  BY <1>2, <1>5 DEF Alternating

-----------------------------------------------------------------------------
(* What the adapters are given. *)

LEMMA SeqOfItsOwn == ASSUME NEW S, NEW s \in Seq(S) PROVE IsSeq(s)
<1>1. s \in [1..Len(s) -> ToSet(s)] /\ Len(s) \in Nat
  BY DEF ToSet
<1> QED  BY <1>1, SeqDef DEF IsSeq

LEMMA MappedIsSeq ==
    ASSUME NEW s, NEW n \in Nat, DOMAIN s = 1..n, s = [i \in DOMAIN s |-> s[i]]
    PROVE  IsSeq(s)
<1>1. s \in [1..n -> ToSet(s)]
  BY DEF ToSet
<1> QED  BY <1>1, SeqDef DEF IsSeq

LEMMA AppendIsSeq ==
    ASSUME NEW s, NEW e, IsSeq(s)
    PROVE  /\ IsSeq(Append(s, e)) /\ Len(Append(s, e)) = Len(s) + 1
           /\ DOMAIN Append(s, e) = 1..(Len(s) + 1)
           /\ Append(s, e)[Len(s) + 1] = e
           /\ \A i \in DOMAIN s : Append(s, e)[i] = s[i]
<1> DEFINE S == ToSet(s) \cup {e}
           t == Append(s, e)
<1>1. s \in Seq(S) /\ e \in S
  BY SeqMonotonic DEF IsSeq
<1> HIDE DEF S
<1>2. /\ t \in Seq(S) /\ Len(t) = Len(s) + 1 /\ DOMAIN t = 1..(Len(s) + 1)
      /\ t[Len(s) + 1] = e /\ \A i \in DOMAIN s : t[i] = s[i]
  BY <1>1
<1> HIDE DEF t
<1>3. IsSeq(t)
  BY <1>2, SeqOfItsOwn
<1> QED  BY <1>2, <1>3 DEF t

(* A loop that takes the items of some indices.                            *)
Takes(f, n, keep, item) ==
    /\ f[0] = << >>
    /\ \A i \in 1..n : f[i] = IF i \in keep THEN Append(f[i - 1], item[i]) ELSE f[i - 1]

Items(n, keep, item) == {item[i] : i \in {k \in 1..n : k \in keep}}

LEMMA TakesExists ==
    ASSUME NEW n \in Nat, NEW keep, NEW item
    PROVE  \E f : DOMAIN f = 0..n /\ f = [i \in 0..n |-> f[i]] /\ Takes(f, n, keep, item)
<1> DEFINE S == Seq(Items(n, keep, item))
           Next1(ms, i) == IF i \in keep THEN Append(ms, item[i]) ELSE ms
           step == [x \in (1..n) \X S |-> Next1(x[2], x[1])]
           b == << >>
<1>1. b \in S
  BY EmptySeq
<1>2. \A i \in 1..n, ms \in S : Next1(ms, i) \in S
  <2> TAKE i \in 1..n, ms \in S
  <2>1. i \in keep => item[i] \in Items(n, keep, item)
    BY DEF Items
  <2> QED  BY <2>1
<1> HIDE DEF S
<1>3. step \in [(1..n) \X S -> S] /\ \A i \in 1..n, ms \in S : step[<<i, ms>>] = Next1(ms, i)
  <2> HIDE DEF Next1
  <2> QED  BY <1>2
<1> HIDE DEF step, b
<1>4. PICK f \in [0..n -> S] : f[0] = b /\ \A i \in 1..n : f[i] = step[<<i, f[i - 1]>>]
  <2>1. Ends(n, S, b, step)
    BY <1>1, <1>3, LoopExists
  <2> QED  BY <2>1 DEF Ends
<1>5. \A i \in 1..n : f[i] = Next1(f[i - 1], i)
  <2> TAKE i \in 1..n
  <2>1. f[i - 1] \in S
    OBVIOUS
  <2> HIDE DEF Next1
  <2> QED  BY <1>3, <1>4, <2>1
<1>6. DOMAIN f = 0..n /\ f = [i \in 0..n |-> f[i]]
  OBVIOUS
<1>7. Takes(f, n, keep, item)
  BY <1>4, <1>5 DEF Takes, b
<1> QED  BY <1>6, <1>7

(* Taken is such a loop.                                                   *)
LEMMA TakenTakes ==
    ASSUME NEW s, Len(s) \in Nat, NEW keep
    PROVE  \E f : Takes(f, Len(s), keep, s) /\ Taken(s, keep) = f[Len(s)]
<1> DEFINE n == Len(s)
           Next1(x, i) == IF i \in keep THEN Append(x, s[i]) ELSE x
           Loop(f) == f = [i \in 0..n |->
                             IF i = 0 THEN << >>
                             ELSE IF i \in keep THEN Append(f[i - 1], s[i])
                             ELSE f[i - 1]]
           Pass(f) == f = [i \in 0..n |-> IF i = 0 THEN << >> ELSE Next1(f[i - 1], i)]
           upTo == CHOOSE f : Loop(f)
<1>1. n \in Nat
  OBVIOUS
<1>2. Taken(s, keep) = upTo[n]
  BY DEF Taken
<1> HIDE DEF n
<1>3. \E f : Loop(f)
  <2>1. PICK f : DOMAIN f = 0..n /\ f = [i \in 0..n |-> f[i]] /\ Takes(f, n, keep, s)
    BY <1>1, TakesExists
  <2>2. \A i \in 1..n : f[i] = Next1(f[i - 1], i)
    BY <2>1 DEF Takes
  <2> HIDE DEF Next1
  <2>3. \A i \in 0..n : f[i] = IF i = 0 THEN << >> ELSE Next1(f[i - 1], i)
    <3>1. f[0] = << >>
      BY <2>1 DEF Takes
    <3>2. \A i \in 0..n : i # 0 => i \in 1..n
      BY <1>1
    <3> QED  BY <2>2, <3>1, <3>2
  <2>4. Pass(f)
    BY <2>1, <2>3
  <2> QED  BY <2>4 DEF Next1
<1>4. Loop(upTo)
  BY <1>3
<1> HIDE DEF upTo
<1>5. Takes(upTo, n, keep, s)
  <2>1. Pass(upTo)
    BY <1>4
  <2>2. upTo[0] = << >> /\ \A i \in 1..n : upTo[i] = Next1(upTo[i - 1], i)
    <3> HIDE DEF Next1
    <3> QED  BY <1>1, <2>1
  <2> QED  BY <2>2 DEF Takes
<1> QED  BY <1>2, <1>5 DEF n

(* It ends with a sequence of items, all that it was to take among them.   *)
LEMMA TakesAll ==
    ASSUME NEW n \in Nat, NEW keep, NEW item, NEW f, Takes(f, n, keep, item)
    PROVE  /\ f[n] \in Seq(Items(n, keep, item))
           /\ \A i \in 1..n : i \in keep => item[i] \in ToSet(f[n])
<1> DEFINE S == Items(n, keep, item)
           T == {j \in 0..n : /\ f[j] \in Seq(S)
                              /\ \A i \in 1..j : i \in keep => item[i] \in ToSet(f[j])}
<1>1. 0 \in T
  <2>1. f[0] \in Seq(S)
    <3>1. f[0] = << >>
      BY DEF Takes
    <3> HIDE DEF S
    <3> QED  BY <3>1, EmptySeq
  <2>2. \A i \in 1..0 : i \in keep => item[i] \in ToSet(f[0])
    OBVIOUS
  <2> HIDE DEF S
  <2> QED  BY <2>1, <2>2
<1>2. ASSUME NEW j \in 1..n, j - 1 \in T
      PROVE  j \in T
  <2>1. j \in keep => item[j] \in S
    BY DEF Items
  <2>2. /\ f[j - 1] \in Seq(S)
        /\ \A i \in 1..(j - 1) : i \in keep => item[i] \in ToSet(f[j - 1])
    BY <1>2
  <2> HIDE DEF S
  <2>3. CASE j \in keep
    <3> DEFINE s == f[j - 1]
               t == Append(s, item[j])
    <3>1. f[j] = t
      BY <2>3 DEF Takes
    <3> HIDE DEF s
    <3>2. s \in Seq(S)
      BY <2>2 DEF s
    <3>3. t \in Seq(S) /\ ToSet(s) \subseteq ToSet(t) /\ item[j] \in ToSet(t)
      <4>1. /\ t \in Seq(S) /\ Len(s) \in Nat
            /\ DOMAIN s = 1..Len(s) /\ DOMAIN t = 1..(Len(s) + 1)
            /\ t[Len(s) + 1] = item[j] /\ \A i \in 1..Len(s) : t[i] = s[i]
        BY <2>1, <2>3, <3>2
      <4> HIDE DEF t
      <4> QED  BY <4>1 DEF ToSet
    <3> HIDE DEF t
    <3>4. \A i \in 1..j : i \in keep => item[i] \in ToSet(t)
      <4> TAKE i \in 1..j
      <4>1. i \in 1..(j - 1) \/ i = j
        OBVIOUS
      <4> QED  BY <2>2, <3>3, <4>1 DEF s
    <3> QED  BY <3>1, <3>3, <3>4
  <2>4. CASE j \notin keep
    <3>1. f[j] = f[j - 1]
      BY <2>4 DEF Takes
    <3>2. \A i \in 1..j : i \in keep => i \in 1..(j - 1)
      BY <2>4
    <3> QED  BY <2>2, <3>1, <3>2
  <2> QED  BY <2>3, <2>4
<1>3. n \in T
  <2> HIDE DEF T
  <2>1. 0..n \subseteq T
    BY <1>1, <1>2, UpTo
  <2> QED  BY <2>1
<1> QED  BY <1>3

(* So Taken is a sequence of what it was to take, and misses none.         *)
LEMMA TakenCovers ==
    ASSUME NEW s, Len(s) \in Nat, NEW keep
    PROVE  /\ Taken(s, keep) \in Seq(Items(Len(s), keep, s))
           /\ \A i \in 1..Len(s) : i \in keep => s[i] \in ToSet(Taken(s, keep))
<1> DEFINE n == Len(s)
<1>1. PICK f : Takes(f, n, keep, s) /\ Taken(s, keep) = f[n]
  BY TakenTakes
<1>2. /\ f[n] \in Seq(Items(n, keep, s))
      /\ \A i \in 1..n : i \in keep => s[i] \in ToSet(f[n])
  BY <1>1, TakesAll
<1> QED  BY <1>1, <1>2

(* to_universal makes a sequence of messages.                              *)
LEMMA UniversalIsSeq ==
    ASSUME NEW h, IsSeq(h)
    PROVE  \E S : Universal(h) \in Seq(S)
<1> DEFINE item == [i \in DOMAIN h |-> UniversalMessage(h[i])]
<1>1. DOMAIN item = 1..Len(h) /\ Len(h) \in Nat
  BY DEF IsSeq
<1>2. Len(item) \in Nat
  <2> HIDE DEF item
  <2> QED  BY <1>1
<1> QED  BY <1>2, TakenCovers DEF Universal

(* Kinds misses nothing either.                                            *)
LEMMA KindsTakesAll ==
    ASSUME NEW ps, IsSeq(ps), NEW ks
    PROVE  /\ IsSeq(Kinds(ps, ks))
           /\ \A p \in ToSet(ps) : p.kind \in ks => p \in ToSet(Kinds(ps, ks))
           /\ \A p \in ToSet(Kinds(ps, ks)) : p.kind \in ks
<1> DEFINE n == Len(ps)
           keep == {i \in DOMAIN ps : ps[i].kind \in ks}
           t == Taken(ps, keep)
<1>1. n \in Nat /\ DOMAIN ps = 1..n
  BY DEF IsSeq
<1>2. /\ t \in Seq(Items(n, keep, ps))
      /\ \A i \in 1..n : i \in keep => ps[i] \in ToSet(t)
  BY <1>1, TakenCovers
<1>3. t = Kinds(ps, ks)
  BY DEF Kinds
<1>4. \A p \in Items(n, keep, ps) : p.kind \in ks
  BY DEF Items
<1> HIDE DEF t
<1>5. IsSeq(t)
  BY <1>2, SeqOfItsOwn
<1>6. \A p \in ToSet(t) : p \in Items(n, keep, ps)
  <2> DEFINE S == Items(n, keep, ps)
  <2>1. t \in Seq(S)
    BY <1>2
  <2> HIDE DEF S
  <2>2. \A p \in ToSet(t) : p \in S
    BY <2>1 DEF ToSet
  <2> QED  BY <2>2 DEF S
<1>7. \A p \in ToSet(ps) : p.kind \in ks => p \in ToSet(t)
  BY <1>1, <1>2 DEF ToSet
<1> QED  BY <1>3, <1>4, <1>5, <1>6, <1>7

(* Grown(r, g, t, j): r is g with the first j of t after it.               *)
Grown(r, g, t, j, S) ==
    /\ r \in Seq(S) /\ Len(r) = Len(g) + j
    /\ \A k \in 1..Len(g) : r[k] = g[k]
    /\ \A k \in 1..j : r[Len(g) + k] = t[k]

LEMMA GrownAppend ==
    ASSUME NEW S, NEW g \in Seq(S), NEW t \in Seq(S), NEW j \in 1..Len(t), NEW r,
           Grown(r, g, t, j - 1, S)
    PROVE  Grown(Append(r, t[j]), g, t, j, S)
<1> DEFINE u == Append(r, t[j])
           l == Len(g)
<1>1. /\ r \in Seq(S) /\ t[j] \in S /\ l \in Nat /\ Len(t) \in Nat /\ j \in Nat
      /\ Len(r) = l + (j - 1)
  BY DEF Grown
<1>2. /\ u \in Seq(S) /\ Len(u) = Len(r) + 1 /\ u[Len(r) + 1] = t[j]
      /\ \A k \in 1..Len(r) : u[k] = r[k]
  BY <1>1
<1>3. /\ \A k \in 1..l : r[k] = g[k]
      /\ \A k \in 1..(j - 1) : r[l + k] = t[k]
  BY DEF Grown
<1> HIDE DEF u, l
<1>4. Len(u) = l + j /\ Len(r) + 1 = l + j
  BY <1>1, <1>2
<1>5. ASSUME NEW k \in 1..l
      PROVE  u[k] = g[k]
  <2>1. k \in 1..Len(r)
    BY <1>1
  <2> QED  BY <1>2, <1>3, <2>1
<1>6. ASSUME NEW k \in 1..j
      PROVE  u[l + k] = t[k]
  <2>1. CASE k = j
    BY <1>2, <1>4, <2>1
  <2>2. CASE k # j
    <3>1. k \in 1..(j - 1) /\ l + k \in 1..Len(r)
      BY <1>1, <2>2
    <3> QED  BY <1>2, <1>3, <3>1
  <2> QED  BY <2>1, <2>2
<1> QED  BY <1>2, <1>4, <1>5, <1>6 DEF Grown, u, l

LEMMA GrownIsConcat ==
    ASSUME NEW S, NEW g \in Seq(S), NEW t \in Seq(S), NEW r, Grown(r, g, t, Len(t), S)
    PROVE  r = g \o t
<1> DEFINE c == g \o t
           l == Len(g)
<1>1. c \in Seq(S) /\ Joined(c, g, t)
  BY ConcatAt
<1>2. r \in Seq(S) /\ Len(r) = l + Len(t) /\ Len(c) = l + Len(t) /\ l \in Nat /\ Len(t) \in Nat
  BY <1>1 DEF Grown, Joined
<1>3. /\ \A k \in 1..l : r[k] = c[k]
      /\ \A k \in 1..Len(t) : r[l + k] = c[l + k]
  BY <1>1 DEF Grown, Joined
<1> HIDE DEF c, l
<1>4. ASSUME NEW k \in 1..Len(r)
      PROVE  r[k] = c[k]
  <2>1. CASE k <= l
    <3>1. k \in 1..l
      BY <1>2, <2>1
    <3> QED  BY <1>3, <3>1
  <2>2. CASE ~(k <= l)
    <3>1. k - l \in 1..Len(t) /\ l + (k - l) = k
      BY <1>2, <2>2
    <3> QED  BY <1>3, <3>1
  <2> QED  BY <2>1, <2>2
<1> QED  BY <1>1, <1>2, <1>4, SeqEqual DEF c

(* What Taken makes of a concatenation whose end it keeps, or drops.       *)
LEMMA TakenConcat ==
    ASSUME NEW S, NEW s \in Seq(S), NEW t \in Seq(S), NEW keep, NEW all,
           \A i \in 1..Len(s) : i \in keep <=> i \in all
    PROVE  /\ (\A j \in 1..Len(t) : Len(s) + j \in all) => Taken(s \o t, all) = Taken(s, keep) \o t
           /\ (\A j \in 1..Len(t) : Len(s) + j \notin all) => Taken(s \o t, all) = Taken(s, keep)
<1> DEFINE c == s \o t
           n == Len(s)
           m == Len(t)
<1>1. /\ n \in Nat /\ m \in Nat /\ c \in Seq(S) /\ Len(c) = n + m
      /\ \A k \in 1..n : c[k] = s[k] /\ s[k] \in S
      /\ \A k \in 1..m : c[n + k] = t[k]
  <2>1. c \in Seq(S) /\ Joined(c, s, t)
    BY ConcatAt
  <2> HIDE DEF c
  <2>2. \A k \in 1..n : s[k] \in S
    OBVIOUS
  <2> QED  BY <2>1, <2>2 DEF Joined
<1> HIDE DEF c
<1>2. PICK f : Takes(f, n + m, all, c) /\ Taken(c, all) = f[n + m]
  <2>1. Len(c) \in Nat /\ Len(c) = n + m
    BY <1>1
  <2>2. \E f : Takes(f, Len(c), all, c) /\ Taken(c, all) = f[Len(c)]
    BY <2>1, TakenTakes
  <2> QED  BY <2>1, <2>2
<1>3. PICK g : Takes(g, n, keep, s) /\ Taken(s, keep) = g[n]
  BY <1>1, TakenTakes
<1> HIDE DEF n, m
<1>4. f[n] = g[n] /\ g[n] \in Seq(S)
  <2> DEFINE T == {j \in 0..n : f[j] = g[j] /\ g[j] \in Seq(S)}
  <2>1. 0 \in T
    <3> DEFINE b == << >>
    <3>1. f[0] = b /\ g[0] = b
      BY <1>2, <1>3 DEF Takes
    <3>2. b \in Seq(S)
      BY EmptySeq
    <3> HIDE DEF b
    <3>3. f[0] = g[0] /\ g[0] \in Seq(S)
      BY <3>1, <3>2
    <3> QED  BY <1>1, <3>3
  <2>2. ASSUME NEW j \in 1..n, j - 1 \in T
        PROVE  j \in T
    <3>1. f[j - 1] = g[j - 1] /\ g[j - 1] \in Seq(S) /\ c[j] = s[j] /\ s[j] \in S
      BY <1>1, <2>2
    <3>2. j \in 1..(n + m) /\ (j \in keep <=> j \in all)
      BY <1>1 DEF n
    <3>3. f[j] = g[j] /\ g[j] \in Seq(S)
      <4>1. CASE j \in keep
        <5>1. f[j] = Append(f[j - 1], c[j]) /\ g[j] = Append(g[j - 1], s[j])
          BY <1>2, <1>3, <3>2, <4>1 DEF Takes
        <5> QED  BY <3>1, <5>1
      <4>2. CASE j \notin keep
        <5>1. f[j] = f[j - 1] /\ g[j] = g[j - 1]
          BY <1>2, <1>3, <3>2, <4>2 DEF Takes
        <5> QED  BY <3>1, <5>1
      <4> QED  BY <4>1, <4>2
    <3> QED  BY <1>1, <3>3
  <2> HIDE DEF T
  <2>3. 0..n \subseteq T
    BY <1>1, <2>1, <2>2, UpTo
  <2>4. n \in T
    BY <1>1, <2>3
  <2> QED  BY <2>4 DEF T
<1>5. ASSUME NEW j \in 1..m
      PROVE  f[n + j] = IF n + j \in all THEN Append(f[n + (j - 1)], t[j]) ELSE f[n + (j - 1)]
  <2> DEFINE i == n + j
  <2>1. i \in 1..(n + m) /\ i - 1 = n + (j - 1) /\ c[i] = t[j]
    BY <1>1
  <2> HIDE DEF i
  <2>2. f[i] = IF i \in all THEN Append(f[i - 1], c[i]) ELSE f[i - 1]
    BY <1>2, <2>1 DEF Takes
  <2>3. f[i] = IF i \in all THEN Append(f[n + (j - 1)], t[j]) ELSE f[n + (j - 1)]
    BY <2>1, <2>2
  <2> QED  BY <2>3 DEF i
<1>6. ASSUME \A j \in 1..m : n + j \in all
      PROVE  f[n + m] = g[n] \o t
  <2> DEFINE T == {j \in 0..m : Grown(f[n + j], g[n], t, j, S)}
  <2>1. 0 \in T
    <3>1. n + 0 = n /\ Len(g[n]) + 0 = Len(g[n]) /\ 1..0 = {} /\ 0 \in 0..m
      BY <1>1, <1>4
    <3> QED  BY <1>4, <3>1 DEF Grown
  <2>2. ASSUME NEW j \in 1..m, j - 1 \in T
        PROVE  j \in T
    <3>1. f[n + j] = Append(f[n + (j - 1)], t[j])
      BY <1>5, <1>6
    <3>2. Grown(f[n + (j - 1)], g[n], t, j - 1, S)
      BY <2>2
    <3>3. Grown(f[n + j], g[n], t, j, S)
      BY <1>4, <3>1, <3>2, GrownAppend DEF m
    <3> QED  BY <1>1, <3>3
  <2> HIDE DEF T
  <2>3. 0..m \subseteq T
    BY <1>1, <2>1, <2>2, UpTo
  <2>4. m \in T
    BY <1>1, <2>3
  <2>5. Grown(f[n + m], g[n], t, m, S)
    BY <2>4 DEF T
  <2> QED  BY <1>4, <2>5, GrownIsConcat DEF m
<1>7. ASSUME \A j \in 1..m : n + j \notin all
      PROVE  f[n + m] = g[n]
  <2> DEFINE T == {j \in 0..m : f[n + j] = g[n]}
  <2>1. 0 \in T
    <3>1. n + 0 = n /\ 0 \in 0..m
      BY <1>1
    <3> QED  BY <1>4, <3>1
  <2>2. ASSUME NEW j \in 1..m, j - 1 \in T
        PROVE  j \in T
    <3>1. f[n + j] = f[n + (j - 1)]
      BY <1>5, <1>7
    <3> QED  BY <1>1, <2>2, <3>1
  <2> HIDE DEF T
  <2>3. 0..m \subseteq T
    BY <1>1, <2>1, <2>2, UpTo
  <2>4. m \in T
    BY <1>1, <2>3
  <2> QED  BY <2>4 DEF T
<1> QED  BY <1>2, <1>3, <1>6, <1>7 DEF c, n, m

-----------------------------------------------------------------------------
(* Nothing is lost between a history and what Anthropic is sent. *)

PartsIn(ms, P) == IsSeq(ms) /\ \A i \in DOMAIN ms : ms[i].parts \in Seq(P)

LEMMA PartsAppend ==
    ASSUME NEW P, NEW ms, PartsIn(ms, P), NEW m, m.parts \in Seq(P)
    PROVE  /\ PartsIn(Append(ms, m), P)
           /\ Parts(ms) \in Seq(P) /\ Parts(Append(ms, m)) = Parts(ms) \o m.parts
<1> DEFINE n == Len(ms)
           ns == Append(ms, m)
           ps == [i \in DOMAIN ms |-> ms[i].parts]
           qs == [i \in DOMAIN ns |-> ns[i].parts]
           x == m.parts
           Q == Seq(P)
<1>1. /\ IsSeq(ns) /\ DOMAIN ns = 1..(n + 1) /\ ns[n + 1] = m
      /\ \A i \in DOMAIN ms : ns[i] = ms[i]
  <2>1. IsSeq(ms)
    BY DEF PartsIn
  <2> QED  BY <2>1, AppendIsSeq
<1>2. n \in Nat /\ DOMAIN ms = 1..n /\ \A i \in 1..n : ms[i].parts \in Q
  BY DEF PartsIn, IsSeq
<1>3. x \in Q
  OBVIOUS
<1> HIDE DEF Q, ns, n
<1>4. \A i \in 1..(n + 1) : i \in 1..n \/ i = n + 1
  BY <1>2
<1>5. \A i \in 1..(n + 1) : ns[i].parts \in Q
  BY <1>1, <1>2, <1>3, <1>4
<1>6. ps \in Seq(Q) /\ Len(ps) = n /\ \A i \in 1..n : ps[i] = ms[i].parts
  <2>1. ps \in [1..n -> Q]
    BY <1>2
  <2> QED  BY <1>2, <2>1, SeqDef
<1>7. qs \in Seq(Q) /\ Len(qs) = n + 1 /\ \A i \in 1..(n + 1) : qs[i] = ns[i].parts
  <2>1. qs \in [1..(n + 1) -> Q] /\ n + 1 \in Nat
    BY <1>1, <1>2, <1>5
  <2> QED  BY <1>1, <2>1, SeqDef
<1>8. Parts(ms) = FlattenSeq(ps) /\ Parts(ns) = FlattenSeq(qs)
  BY DEF Parts
<1> HIDE DEF ps, qs, x
<1>9. Append(ps, x) = qs
  <2> DEFINE t == Append(ps, x)
  <2>1. /\ t \in Seq(Q) /\ Len(t) = n + 1 /\ t[n + 1] = x
        /\ \A i \in 1..n : t[i] = ps[i]
    BY <1>3, <1>6
  <2> HIDE DEF t
  <2>2. \A i \in 1..(n + 1) : t[i] = qs[i]
    BY <1>1, <1>2, <1>4, <1>6, <1>7, <2>1 DEF x
  <2>3. t = qs
    BY <1>7, <2>1, <2>2, SeqEqual
  <2> QED  BY <2>3 DEF t
<1>10. FlattenSeq(ps) \in Seq(P) /\ FlattenSeq(Append(ps, x)) = FlattenSeq(ps) \o x
  <2>1. ps \in Seq(Seq(P)) /\ x \in Seq(P)
    BY <1>3, <1>6 DEF Q
  <2>2. FlattenSeq(ps) \in Seq(P)
    BY <2>1, FlattenCovers
  <2>3. FlattenSeq(Append(ps, x)) = FlattenSeq(ps) \o x
    BY <2>1, FlattenAppend
  <2> QED  BY <2>2, <2>3
<1>11. PartsIn(ns, P)
  BY <1>1, <1>5 DEF PartsIn, Q
<1> QED  BY <1>8, <1>9, <1>10, <1>11 DEF ns, x

LEMMA UndummiedConcat ==
    ASSUME NEW P, NEW ps \in Seq(P), NEW qs \in Seq(P)
    PROVE  /\ (\A j \in 1..Len(qs) : qs[j].kind # "dummy")
                  => Undummied(ps \o qs) = Undummied(ps) \o qs
           /\ (\A j \in 1..Len(qs) : qs[j].kind = "dummy")
                  => Undummied(ps \o qs) = Undummied(ps)
<1> DEFINE c == ps \o qs
           keep == {i \in DOMAIN ps : ps[i].kind # "dummy"}
           all == {i \in DOMAIN c : c[i].kind # "dummy"}
<1>1. /\ c \in Seq(P) /\ Len(ps) \in Nat /\ Len(qs) \in Nat /\ Len(c) = Len(ps) + Len(qs)
      /\ \A k \in 1..Len(ps) : c[k] = ps[k]
      /\ \A k \in 1..Len(qs) : c[Len(ps) + k] = qs[k]
  <2>1. c \in Seq(P) /\ Joined(c, ps, qs)
    BY ConcatAt
  <2> HIDE DEF c
  <2> QED  BY <2>1 DEF Joined
<1>2. Undummied(c) = Taken(c, all) /\ Undummied(ps) = Taken(ps, keep)
  BY DEF Undummied
<1>3. DOMAIN ps = 1..Len(ps) /\ DOMAIN c = 1..(Len(ps) + Len(qs))
  <2> HIDE DEF c
  <2> QED  BY <1>1
<1> DEFINE a == Len(ps)
           b == Len(qs)
<1>4. \A i \in 1..a : i \in keep <=> i \in all
  <2> TAKE i \in 1..a
  <2>1. i \in DOMAIN c /\ i \in DOMAIN ps /\ c[i] = ps[i]
    BY <1>1, <1>3
  <2> HIDE DEF c
  <2> QED  BY <2>1
<1>5. \A j \in 1..b : a + j \in all <=> qs[j].kind # "dummy"
  <2> TAKE j \in 1..b
  <2>1. a + j \in 1..(a + b)
    BY <1>1
  <2>2. a + j \in DOMAIN c /\ c[a + j] = qs[j]
    BY <1>1, <1>3, <2>1
  <2> HIDE DEF c
  <2> QED  BY <2>2
<1> HIDE DEF all, keep, c
<1>6. /\ (\A j \in 1..b : a + j \in all) => Taken(ps \o qs, all) = Taken(ps, keep) \o qs
      /\ (\A j \in 1..b : a + j \notin all) => Taken(ps \o qs, all) = Taken(ps, keep)
  BY <1>4, TakenConcat
<1> QED  BY <1>2, <1>5, <1>6 DEF c

(* Parts that are said, and the dummies.                                   *)
IsSaid(p) == p.kind # "dummy"

AreSaid(ps) == \A k \in 1..Len(ps) : IsSaid(ps[k])

(* After adds a message, and what else it adds is a dummy.                 *)
LEMMA AfterSpeaks ==
    ASSUME NEW P, \A s \in Sides : Of("dummy", s) \in P,
           NEW ms, PartsIn(ms, P), NEW m, m.parts \in Seq(P), AreSaid(m.parts)
    PROVE  /\ PartsIn(After(ms, m), P)
           /\ Undummied(Parts(After(ms, m))) = Undummied(Parts(ms)) \o m.parts
<1> DEFINE role == AnthropicRole(m)
           next == [role |-> role, parts |-> m.parts]
           dummy == Dummy(OtherRole(role))
           ds == dummy.parts
           x == m.parts
<1>1. role \in Sides /\ OtherRole(role) \in Sides
  BY DEF AnthropicRole, OtherRole, Sides
<1>2. ds \in Seq(P) /\ \A j \in 1..Len(ds) : ds[j].kind = "dummy"
  <2> DEFINE d == Of("dummy", OtherRole(role))
  <2>1. d \in P /\ d.kind = "dummy"
    BY <1>1 DEF Of
  <2>2. ds = <<d>>
    BY DEF Dummy
  <2> HIDE DEF d, ds
  <2> QED  BY <2>1, <2>2
<1>3. next.parts = x /\ x \in Seq(P) /\ \A j \in 1..Len(x) : x[j].kind # "dummy"
  BY DEF AreSaid, IsSaid
<1>4. \/ After(ms, m) = Append(ms, next)
      \/ After(ms, m) = ms \o <<dummy, next>>
  BY DEF After
<1>5. ms \o <<dummy, next>> = Append(Append(ms, dummy), next)
  <2> DEFINE S == ToSet(ms) \cup {dummy, next}
  <2>1. ms \in Seq(S)
    BY SeqMonotonic DEF PartsIn, IsSeq
  <2>2. dummy \in S /\ next \in S
    OBVIOUS
  <2> HIDE DEF S, dummy, next
  <2> QED  BY <2>1, <2>2
<1> HIDE DEF next, dummy, x
<1>6. ASSUME NEW ns, PartsIn(ns, P)
      PROVE  /\ PartsIn(Append(ns, next), P)
             /\ Undummied(Parts(Append(ns, next))) = Undummied(Parts(ns)) \o x
  <2>1. /\ PartsIn(Append(ns, next), P) /\ Parts(ns) \in Seq(P)
        /\ Parts(Append(ns, next)) = Parts(ns) \o x
    BY <1>3, <1>6, PartsAppend
  <2> QED  BY <1>3, <2>1, UndummiedConcat
<1>7. /\ PartsIn(Append(ms, dummy), P)
      /\ Undummied(Parts(Append(ms, dummy))) = Undummied(Parts(ms))
  <2>1. /\ PartsIn(Append(ms, dummy), P) /\ Parts(ms) \in Seq(P)
        /\ Parts(Append(ms, dummy)) = Parts(ms) \o ds
    BY <1>2, PartsAppend
  <2> HIDE DEF ds
  <2> QED  BY <1>2, <2>1, UndummiedConcat
<1>8. CASE After(ms, m) = Append(ms, next)
  BY <1>6, <1>8 DEF x
<1>9. CASE After(ms, m) = Append(Append(ms, dummy), next)
  BY <1>6, <1>7, <1>9 DEF x
<1> QED  BY <1>4, <1>5, <1>8, <1>9

LEMMA PartsEmpty ==
    ASSUME NEW P
    PROVE  /\ PartsIn(<< >>, P) /\ Parts(<< >>) = << >> /\ Undummied(<< >>) = << >>
<1> DEFINE e == << >>
           ps == [i \in DOMAIN e |-> e[i].parts]
           Q == Seq(P)
           keep == {i \in DOMAIN e : e[i].kind # "dummy"}
           f == [i \in {0} |-> e]
<1>1. DOMAIN e = {} /\ Len(e) = 0 /\ IsSeq(e) /\ 1..0 = {}
  BY EmptySeq DEF IsSeq
<1>2. ps \in Seq(Q) /\ Len(ps) = 0
  <2>1. ps \in [1..0 -> Q] /\ 0 \in Nat
    BY <1>1
  <2> HIDE DEF ps
  <2>2. ps \in Seq(Q)
    BY <2>1, SeqDef
  <2> QED  BY <2>1, <2>2
<1>3. Parts(e) = FlattenSeq(ps) /\ Undummied(e) = Taken(e, keep)
  BY DEF Parts, Undummied
<1> HIDE DEF ps, keep
<1>4. FlattenSeq(ps) = f[0]
  <2>1. f[0] = << >>
    OBVIOUS
  <2> HIDE DEF f, e
  <2>2. \A i \in 1..Len(ps) : f[i] = f[i - 1] \o ps[i]
    BY <1>1, <1>2
  <2>3. FlattenSeq(ps) = f[Len(ps)]
    BY <1>2, <2>1, <2>2, FlattenIs DEF Q
  <2> QED  BY <1>2, <2>3
<1>5. Taken(e, keep) = e
  <2>1. Len(e) \in Nat
    BY <1>1
  <2>2. \E g : Takes(g, Len(e), keep, e) /\ Taken(e, keep) = g[Len(e)]
    BY <2>1, TakenTakes
  <2> QED  BY <1>1, <2>2 DEF Takes
<1>6. PartsIn(e, P)
  BY <1>1 DEF PartsIn
<1> QED  BY <1>3, <1>4, <1>5, <1>6

LEMMA AnthropicSpeaks ==
    ASSUME NEW P, \A s \in Sides : Of("dummy", s) \in P,
           NEW u, PartsIn(u, P), \A i \in DOMAIN u : AreSaid(u[i].parts)
    PROVE  Undummied(Parts(Anthropic(u))) = Parts(u)
<1> DEFINE n == Len(u)
           ps == [i \in DOMAIN u |-> u[i].parts]
           Q == Seq(P)
<1>1. n \in Nat /\ DOMAIN u = 1..n /\ u \in Seq(ToSet(u)) /\ \A i \in 1..n : u[i].parts \in Q
  BY DEF PartsIn, IsSeq
<1>2. PICK f : /\ f[0] = << >> /\ \A i \in 1..n : f[i] = After(f[i - 1], u[i])
               /\ Anthropic(u) = f[n]
  BY <1>1, AnthropicLoop
<1> HIDE DEF n, Q
<1>3. ps \in Seq(Q) /\ Len(ps) = n /\ \A i \in 1..n : ps[i] = u[i].parts
  <2>1. ps \in [1..n -> Q]
    BY <1>1
  <2> QED  BY <1>1, <2>1, SeqDef
<1>4. Parts(u) = FlattenSeq(ps)
  BY DEF Parts
<1> HIDE DEF ps
<1>5. PICK g : Gathers(ps, P, g) /\ FlattenSeq(ps) = g[n]
  BY <1>3, FlattenGathers DEF Q
<1>6. g[0] = << >> /\ \A i \in 1..n : g[i] = g[i - 1] \o u[i].parts
  BY <1>3, <1>5 DEF Gathers
<1> DEFINE T == {j \in 0..n : PartsIn(f[j], P) /\ Undummied(Parts(f[j])) = g[j]}
<1>7. 0 \in T
  <2>1. PartsIn(f[0], P) /\ Undummied(Parts(f[0])) = << >>
    BY <1>2, PartsEmpty
  <2> QED  BY <1>1, <1>6, <2>1
<1>8. ASSUME NEW j \in 1..n, j - 1 \in T
      PROVE  j \in T
  <2> DEFINE m == u[j]
  <2>1. m.parts \in Seq(P) /\ AreSaid(m.parts)
    BY <1>1 DEF Q
  <2>2. PartsIn(f[j - 1], P) /\ Undummied(Parts(f[j - 1])) = g[j - 1]
    BY <1>8
  <2> HIDE DEF m
  <2>3. /\ PartsIn(After(f[j - 1], m), P)
        /\ Undummied(Parts(After(f[j - 1], m))) = Undummied(Parts(f[j - 1])) \o m.parts
    BY <2>1, <2>2, AfterSpeaks
  <2>4. f[j] = After(f[j - 1], m) /\ g[j] = g[j - 1] \o m.parts
    BY <1>2, <1>6 DEF m
  <2>5. PartsIn(f[j], P) /\ Undummied(Parts(f[j])) = g[j]
    BY <2>2, <2>3, <2>4
  <2> QED  BY <1>1, <2>5
<1>9. n \in T
  <2> HIDE DEF T
  <2>1. 0..n \subseteq T
    BY <1>1, <1>7, <1>8, UpTo
  <2> QED  BY <1>1, <2>1
<1> QED  BY <1>2, <1>4, <1>5, <1>9

(* to_universal leaves out what system messages say and what is empty.     *)
LEMMA UniversalSpeaks ==
    ASSUME NEW P, NEW h, IsSeq(h), \A i \in DOMAIN h : Contents(h[i]) \in Seq(P),
           \A i \in DOMAIN h : AreSaid(Contents(h[i]))
    PROVE  LET u == Universal(h)
           IN /\ PartsIn(u, P) /\ \A i \in DOMAIN u : AreSaid(u[i].parts)
              /\ Parts(u) = Said(h)
<1> DEFINE n == Len(h)
           Q == Seq(P)
           item == [i \in DOMAIN h |-> UniversalMessage(h[i])]
           keep == {i \in DOMAIN h : Kept(h[i])}
           said == [i \in DOMAIN h |-> IF h[i].role = "system" THEN << >> ELSE Contents(h[i])]
           u == Universal(h)
<1>1. n \in Nat /\ DOMAIN h = 1..n
  BY DEF IsSeq
<1>2. Len(item) = n /\ Len(item) \in Nat /\ u = Taken(item, keep)
  <2>1. DOMAIN item = 1..n
    BY <1>1
  <2>2. u = Taken(item, keep)
    BY DEF Universal
  <2> HIDE DEF item, keep, n
  <2> QED  BY <1>1, <2>1, <2>2
<1>3. \A i \in 1..n : /\ item[i].parts = Contents(h[i]) /\ Contents(h[i]) \in Q
                      /\ i \in keep <=> (h[i].role # "system" /\ Contents(h[i]) # << >>)
                      /\ AreSaid(item[i].parts)
  BY <1>1 DEF UniversalMessage, Kept
<1>4. \A i \in 1..n : said[i] = IF i \in keep THEN Contents(h[i]) ELSE << >>
  BY <1>1, <1>3
<1> HIDE DEF item, keep, u, Q
<1>5. PICK f : Takes(f, n, keep, item) /\ u = f[n]
  <2>1. \E f : Takes(f, Len(item), keep, item) /\ Taken(item, keep) = f[Len(item)]
    BY <1>2, TakenTakes
  <2> QED  BY <1>2, <2>1
<1>6. said \in Seq(Q) /\ Len(said) = n /\ Said(h) = FlattenSeq(said)
  <2>1. Said(h) = FlattenSeq(said)
    BY DEF Said
  <2>2. << >> \in Q
    BY EmptySeq DEF Q
  <2>3. DOMAIN said = 1..n
    BY <1>1
  <2>4. \A i \in 1..n : said[i] \in Q
    <3> TAKE i \in 1..n
    <3>1. CASE h[i].role = "system"
      BY <1>1, <2>2, <3>1
    <3>2. CASE h[i].role # "system"
      BY <1>1, <1>3, <3>2
    <3> QED  BY <3>1, <3>2
  <2>5. said \in [1..n -> Q]
    BY <1>1, <2>3, <2>4
  <2> HIDE DEF said, n
  <2>6. said \in Seq(Q)
    BY <1>1, <2>5, SeqDef
  <2>7. Len(said) = n
    BY <1>1, <2>3, <2>6
  <2> QED  BY <2>1, <2>6, <2>7
<1> HIDE DEF said
<1>7. PICK g : Gathers(said, P, g) /\ FlattenSeq(said) = g[n]
  <2>1. said \in Seq(Seq(P))
    BY <1>6 DEF Q
  <2>2. \E g : Gathers(said, P, g) /\ FlattenSeq(said) = g[Len(said)]
    BY <2>1, FlattenGathers
  <2> QED  BY <1>6, <2>2
<1>8. /\ g[0] = << >> /\ \A i \in 1..n : g[i] = g[i - 1] \o said[i]
      /\ \A i \in 0..n : g[i] \in Seq(P)
  BY <1>6, <1>7 DEF Gathers
<1> HIDE DEF n
<1> DEFINE T == {j \in 0..n : PartsIn(f[j], P) /\ Parts(f[j]) = g[j]}
<1>9. 0 \in T
  <2>1. f[0] = << >>
    BY <1>5 DEF Takes
  <2>2. PartsIn(f[0], P) /\ Parts(f[0]) = << >>
    BY <2>1, PartsEmpty
  <2> QED  BY <1>1, <1>8, <2>2
<1>10. ASSUME NEW j \in 1..n, j - 1 \in T
       PROVE  j \in T
  <2>1. PartsIn(f[j - 1], P) /\ Parts(f[j - 1]) = g[j - 1] /\ g[j - 1] \in Seq(P)
    BY <1>1, <1>8, <1>10
  <2>2. CASE j \in keep
    <3> DEFINE m == item[j]
    <3>1. f[j] = Append(f[j - 1], m)
      BY <1>5, <2>2 DEF Takes
    <3>2. m.parts \in Seq(P) /\ said[j] = m.parts
      BY <1>3, <1>4, <2>2 DEF Q
    <3> HIDE DEF m
    <3>3. PartsIn(Append(f[j - 1], m), P) /\ Parts(Append(f[j - 1], m)) = Parts(f[j - 1]) \o m.parts
      BY <2>1, <3>2, PartsAppend
    <3>4. PartsIn(f[j], P) /\ Parts(f[j]) = g[j]
      BY <1>8, <2>1, <3>1, <3>2, <3>3
    <3> QED  BY <1>1, <3>4
  <2>3. CASE j \notin keep
    <3>1. f[j] = f[j - 1]
      BY <1>5, <2>3 DEF Takes
    <3>2. g[j] = g[j - 1] \o << >>
      BY <1>4, <1>8, <2>3
    <3>3. g[j] = g[j - 1]
      BY <2>1, <3>2, ConcatEmptySeq
    <3>4. PartsIn(f[j], P) /\ Parts(f[j]) = g[j]
      BY <2>1, <3>1, <3>3
    <3> QED  BY <1>1, <3>4
  <2> QED  BY <2>2, <2>3
<1>11. n \in T
  <2> HIDE DEF T
  <2>1. 0..n \subseteq T
    BY <1>1, <1>9, <1>10, UpTo
  <2> QED  BY <1>1, <2>1
<1>12. PartsIn(u, P) /\ Parts(u) = Said(h)
  BY <1>5, <1>6, <1>7, <1>11
<1>13. \A i \in DOMAIN u : AreSaid(u[i].parts)
  <2> DEFINE S == Items(n, keep, item)
  <2>1. u \in Seq(S)
    BY <1>1, <1>5, TakesAll
  <2>2. \A m \in S : AreSaid(m.parts)
    BY <1>3 DEF Items
  <2> HIDE DEF S
  <2>3. \A i \in DOMAIN u : u[i] \in S
    BY <2>1
  <2> QED  BY <2>2, <2>3
<1> QED  BY <1>12, <1>13 DEF u

(* A message has sequences of parts and calls.                             *)
Formed(m) == IsSeq(m.parts) /\ IsSeq(m.calls)

LEMMA ContentsAreSaid ==
    ASSUME NEW m, Formed(m)
    PROVE  IsSeq(Contents(m)) /\ AreSaid(Contents(m))
<1>1. CASE m.role \in {"tool", "function"} /\ m.answers # NoCall
  <2> DEFINE p == Of("result", m.answers)
  <2>1. Contents(m) = <<p>>
    BY <1>1 DEF Contents
  <2>2. IsSaid(p)
    BY DEF Of, IsSaid
  <2> HIDE DEF p
  <2>3. Contents(m) \in Seq({p}) /\ Len(Contents(m)) = 1 /\ Contents(m)[1] = p
    BY <2>1
  <2>4. IsSeq(Contents(m))
    BY <2>3, SeqOfItsOwn
  <2> QED  BY <2>2, <2>3, <2>4 DEF AreSaid
<1>2. CASE ~(m.role \in {"tool", "function"} /\ m.answers # NoCall)
  <2> DEFINE ks == Kinds(m.parts, {"text", "image"})
             cs == [i \in DOMAIN m.calls |-> Of("call", m.calls[i].id)]
             S == {p \in ToSet(ks) \cup ToSet(cs) : IsSaid(p)}
  <2>1. Contents(m) = ks \o cs
    BY <1>2 DEF Contents
  <2>2. IsSeq(ks) /\ \A p \in ToSet(ks) : IsSaid(p)
    <3>1. IsSeq(ks) /\ \A p \in ToSet(ks) : p.kind \in {"text", "image"}
      BY KindsTakesAll DEF Formed
    <3> HIDE DEF ks
    <3> QED  BY <3>1 DEF IsSaid
  <2>3. DOMAIN cs = 1..Len(m.calls) /\ Len(m.calls) \in Nat /\ \A i \in DOMAIN cs : IsSaid(cs[i])
    BY DEF Formed, IsSeq, Of, IsSaid
  <2> HIDE DEF ks, cs
  <2>4. ks \in Seq(S)
    <3>1. ToSet(ks) \subseteq S
      BY <2>2
    <3> HIDE DEF S
    <3> QED  BY <2>2, <3>1, SeqMonotonic DEF IsSeq
  <2>5. cs \in Seq(S)
    <3>1. \A i \in DOMAIN cs : cs[i] \in S
      BY <2>3 DEF ToSet
    <3>2. cs = [i \in DOMAIN cs |-> cs[i]]
      BY DEF cs
    <3> HIDE DEF S
    <3>3. cs \in [1..Len(m.calls) -> S]
      BY <2>3, <3>1, <3>2
    <3> QED  BY <2>3, <3>3, SeqDef
  <2>6. \A p \in S : IsSaid(p)
    OBVIOUS
  <2> HIDE DEF S
  <2> DEFINE c == ks \o cs
  <2>7. c \in Seq(S)
    BY <2>4, <2>5, ConcatProperties
  <2> HIDE DEF c
  <2>8. IsSeq(c)
    BY <2>7, SeqOfItsOwn
  <2>9. AreSaid(c)
    <3>1. \A k \in 1..Len(c) : c[k] \in S
      BY <2>7
    <3> QED  BY <2>6, <3>1 DEF AreSaid
  <2> QED  BY <2>1, <2>8, <2>9 DEF c
<1> QED  BY <1>1, <1>2

(* The two loops together.                                                 *)
LEMMA RequestSpeaks ==
    ASSUME NEW h, IsSeq(h), \A i \in DOMAIN h : Formed(h[i])
    PROVE  Undummied(Parts(Anthropic(Universal(h)))) = Said(h)
<1> DEFINE D == {Of("dummy", "user"), Of("dummy", "assistant")}
           C == UNION {ToSet(Contents(h[i])) : i \in DOMAIN h}
           P == C \cup D
           u == Universal(h)
<1>1. \A i \in DOMAIN h : IsSeq(Contents(h[i])) /\ AreSaid(Contents(h[i]))
  BY ContentsAreSaid
<1>2. \A i \in DOMAIN h : Contents(h[i]) \in Seq(P)
  <2> TAKE i \in DOMAIN h
  <2>1. Contents(h[i]) \in Seq(ToSet(Contents(h[i])))
    BY <1>1 DEF IsSeq
  <2>2. ToSet(Contents(h[i])) \subseteq P
    OBVIOUS
  <2> HIDE DEF P
  <2> QED  BY <2>1, <2>2, SeqMonotonic
<1>3. \A s \in Sides : Of("dummy", s) \in P
  <2>1. \A s \in Sides : Of("dummy", s) \in D
    BY DEF Sides
  <2> HIDE DEF C, D
  <2>2. D \subseteq P
    OBVIOUS
  <2> HIDE DEF P
  <2> QED  BY <2>1, <2>2
<1> HIDE DEF P
<1>4. PartsIn(u, P) /\ (\A i \in DOMAIN u : AreSaid(u[i].parts)) /\ Parts(u) = Said(h)
  BY <1>1, <1>2, UniversalSpeaks
<1> HIDE DEF u
<1>5. Undummied(Parts(Anthropic(u))) = Parts(u)
  BY <1>3, <1>4, AnthropicSpeaks
<1> QED  BY <1>4, <1>5 DEF u

-----------------------------------------------------------------------------
(* A request in Anthropic's form is one that went through both loops.      *)
LEMMA RequestTranslates ==
    ASSUME NEW h, NEW f \in Targets, NEW big \in BOOLEAN, Builds(f, h, big),
           Request(f, h, big).shape = "anthropic"
    PROVE  /\ Request(f, h, big).messages = Anthropic(Universal(h))
           /\ Request(f, h, big).length = Len(h)
<1>1. ~big /\ f = "anthropic"
  <2>1. CASE big \/ f = "openai"
    BY <2>1 DEF Request
  <2>2. CASE ~big /\ f = "gemini"
    BY <2>2 DEF Request
  <2>3. CASE ~big /\ f = "cohere"
    BY <2>3 DEF Builds
  <2> QED  BY <2>1, <2>2, <2>3 DEF Targets
<1> QED  BY <1>1 DEF Request

(* In every history, then, Anthropic gets what alternates.                 *)
LEMMA RequestAlternates ==
    ASSUME NEW h, IsSeq(h), NEW f \in Targets, NEW big \in BOOLEAN, Builds(f, h, big),
           Request(f, h, big).shape = "anthropic"
    PROVE  Alternate(Request(f, h, big).messages)
BY RequestTranslates, UniversalIsSeq, AnthropicAlternates

LEMMA RequestNamesItsTarget ==
    ASSUME NEW h, NEW f \in Targets, NEW big \in BOOLEAN, Builds(f, h, big)
    PROVE  Request(f, h, big).target = f
<1>1. CASE big \/ f = "openai"
  BY <1>1 DEF Request
<1>2. CASE ~big /\ f = "anthropic"
  BY <1>2 DEF Request
<1>3. CASE ~big /\ f = "gemini"
  BY <1>3 DEF Request
<1>4. CASE ~big /\ f = "cohere"
  BY <1>4 DEF Builds
<1> QED  BY <1>1, <1>2, <1>3, <1>4 DEF Targets

-----------------------------------------------------------------------------
(* What the cache is asked for. *)

(* When the last message decides, the words are that message's or none.    *)
LEMMA LookedIsLast ==
    ASSUME NEW h, IsSeq(h), h # << >>, Decisive(Last(h))
    PROVE  Looked(h) \in {0, Len(h)}
<1> DEFINE ends == {i \in DOMAIN h : Decisive(h[i])}
           at == CHOOSE i \in ends : \A j \in ends : j <= i
<1>1. Len(h) \in Nat \ {0} /\ DOMAIN h = 1..Len(h)
  BY EmptySeq DEF IsSeq
<1>2. Len(h) \in ends /\ \A j \in ends : j \in Nat /\ j <= Len(h)
  BY <1>1 DEF Last
<1>3. \A i \in ends : (\A j \in ends : j <= i) => i = Len(h)
  <2> HIDE DEF ends
  <2> QED  BY <1>1, <1>2
<1>4. at = Len(h)
  <2> HIDE DEF ends
  <2> QED  BY <1>1, <1>2, <1>3
<1>5. Looked(h) \in {0, at}
  BY DEF Looked
<1> QED  BY <1>4, <1>5

(* A request ends with what decides: a question or a result.               *)
LEMMA AsksDecides == Asks => Decisive(Last(history))
BY DEF Asks, Decisive, Agentic

-----------------------------------------------------------------------------
(* What is searched for personal data. *)

AllFormed(h) == \A i \in DOMAIN h : Formed(h[i])

(* The legible texts of a user's message are all scanned.                  *)
LEMMA ScannedOfCovers ==
    ASSUME NEW m, Formed(m)
    PROVE  /\ IsSeq(ScannedOf(m))
           /\ m.role = "user" =>
                  \A p \in ToSet(m.parts) : Legible(p) => p \in ToSet(ScannedOf(m))
<1>1. CASE m.role = "user"
  <2> DEFINE keep == {i \in DOMAIN m.parts : Legible(m.parts[i])}
             t == Taken(m.parts, keep)
  <2>1. ScannedOf(m) = t
    BY <1>1 DEF ScannedOf
  <2>2. Len(m.parts) \in Nat /\ DOMAIN m.parts = 1..Len(m.parts)
    BY DEF Formed, IsSeq
  <2>3. /\ t \in Seq(Items(Len(m.parts), keep, m.parts))
        /\ \A i \in 1..Len(m.parts) : i \in keep => m.parts[i] \in ToSet(t)
    BY <2>2, TakenCovers
  <2> HIDE DEF t
  <2>4. IsSeq(t)
    BY <2>3, SeqOfItsOwn
  <2>5. \A p \in ToSet(m.parts) : Legible(p) => p \in ToSet(t)
    BY <2>2, <2>3 DEF ToSet
  <2> QED  BY <2>1, <2>4, <2>5
<1>2. CASE m.role # "user"
  <2>1. ScannedOf(m) = << >>
    BY <1>2 DEF ScannedOf
  <2> QED  BY <1>2, <2>1, EmptySeq DEF IsSeq
<1> QED  BY <1>1, <1>2

(* What the first members of a sequence flatten to is where all of it      *)
(* begins.                                                                 *)
BeginsWith(r, s) == Len(s) <= Len(r) /\ \A k \in 1..Len(s) : r[k] = s[k]

LEMMA FlattenPrefix ==
    ASSUME NEW S, NEW ss \in Seq(Seq(S)), NEW tt \in Seq(Seq(S)), Len(tt) <= Len(ss),
           \A j \in 1..Len(tt) : tt[j] = ss[j]
    PROVE  /\ FlattenSeq(ss) \in Seq(S) /\ FlattenSeq(tt) \in Seq(S)
           /\ BeginsWith(FlattenSeq(ss), FlattenSeq(tt))
<1> DEFINE n == Len(ss)
           m == Len(tt)
<1>1. n \in Nat /\ m \in Nat /\ m <= n
  OBVIOUS
<1>2. PICK f : Gathers(ss, S, f) /\ FlattenSeq(ss) = f[n]
  BY FlattenGathers
<1>3. PICK g : Gathers(tt, S, g) /\ FlattenSeq(tt) = g[m]
  BY FlattenGathers
<1>4. /\ f \in [0..n -> Seq(S)] /\ f[0] = << >> /\ g \in [0..m -> Seq(S)] /\ g[0] = << >>
      /\ \A i \in 1..m : g[i] = g[i - 1] \o tt[i] /\ f[i] = f[i - 1] \o tt[i]
  <2>1. \A i \in 1..m : i \in 1..n /\ tt[i] = ss[i]
    BY <1>1
  <2> QED  BY <1>2, <1>3, <2>1 DEF Gathers
<1>5. Steps(ss, S, f)
  BY <1>2, GathersSteps
<1> HIDE DEF n, m
<1>6. f[m] = g[m]
  <2> DEFINE T == {j \in 0..m : f[j] = g[j]}
  <2>1. 0 \in T
    BY <1>1, <1>4
  <2>2. ASSUME NEW j \in 1..m, j - 1 \in T
        PROVE  j \in T
    <3>1. f[j - 1] = g[j - 1] /\ j \in 0..m
      BY <1>1, <2>2
    <3>2. g[j] = g[j - 1] \o tt[j] /\ f[j] = f[j - 1] \o tt[j]
      BY <1>4
    <3>3. f[j] = g[j]
      BY <3>1, <3>2
    <3> QED  BY <3>1, <3>3
  <2> HIDE DEF T
  <2>3. m \in T
    <3>1. 0..m \subseteq T
      BY <1>1, <2>1, <2>2, UpTo
    <3> QED  BY <1>1, <3>1
  <2> QED  BY <2>3 DEF T
<1>7. BeginsWith(f[n], f[m])
  <2> DEFINE T == {j \in 0..n : j >= m => BeginsWith(f[j], f[m])}
  <2>1. f[m] \in Seq(S) /\ Len(f[m]) \in Nat
    BY <1>1, <1>4
  <2>2. 0 \in T
    <3>1. 0 >= m => m = 0
      BY <1>1
    <3>2. BeginsWith(f[m], f[m])
      BY <2>1 DEF BeginsWith
    <3> QED  BY <1>1, <3>1, <3>2
  <2>3. ASSUME NEW j \in 1..n, j - 1 \in T
        PROVE  j \in T
    <3>1. /\ Len(f[j - 1]) \in Nat /\ Len(f[j - 1]) <= Len(f[j])
          /\ \A k \in 1..Len(f[j - 1]) : f[j][k] = f[j - 1][k]
      <4>1. /\ f[j] \in Seq(S) /\ f[j - 1] \in Seq(S)
            /\ Len(f[j - 1]) \in Nat /\ Len(ss[j]) \in Nat
            /\ Len(f[j]) = Len(f[j - 1]) + Len(ss[j])
            /\ \A k \in 1..Len(f[j - 1]) : f[j][k] = f[j - 1][k]
        BY <1>5 DEF Steps, n
      <4>2. Len(f[j - 1]) <= Len(f[j])
        <5> DEFINE x == Len(f[j - 1])
                   y == Len(ss[j])
        <5>1. x \in Nat /\ y \in Nat /\ Len(f[j]) = x + y
          BY <4>1
        <5> HIDE DEF x, y
        <5>2. x <= Len(f[j])
          BY <5>1
        <5> QED  BY <5>2 DEF x
      <4> QED  BY <4>1, <4>2
    <3>2. CASE j = m
      <4>1. BeginsWith(f[m], f[m])
        BY <2>1 DEF BeginsWith
      <4> QED  BY <3>2, <4>1
    <3>3. CASE j # m
      <4>1. j >= m => BeginsWith(f[j - 1], f[m])
        BY <1>1, <2>3, <3>3
      <4>2. BeginsWith(f[j - 1], f[m]) => BeginsWith(f[j], f[m])
        <5> DEFINE a == f[m]
                   b == f[j - 1]
                   c == f[j]
        <5>1. Len(c) \in Nat /\ Len(a) \in Nat /\ Len(b) \in Nat /\ Len(b) <= Len(c)
              /\ \A k \in 1..Len(b) : c[k] = b[k]
          <6>1. f[j] \in Seq(S)
            BY <1>1, <1>4
          <6> QED  BY <2>1, <3>1, <6>1
        <5> HIDE DEF a, b, c
        <5>2. BeginsWith(b, a) => BeginsWith(c, a)
          BY <5>1 DEF BeginsWith
        <5> QED  BY <5>2 DEF a, b, c
      <4> QED  BY <4>1, <4>2
    <3> QED  BY <3>2, <3>3
  <2> HIDE DEF T
  <2>4. n \in T
    <3>1. 0..n \subseteq T
      BY <1>1, <2>2, <2>3, UpTo
    <3> QED  BY <1>1, <3>1
  <2> QED  BY <1>1, <2>4 DEF T
<1>8. f[n] \in Seq(S) /\ g[m] \in Seq(S)
  BY <1>1, <1>4
<1> QED  BY <1>2, <1>3, <1>6, <1>7, <1>8 DEF n, m

LEMMA ConcatBegins ==
    ASSUME NEW S, NEW a \in Seq(S), NEW r \in Seq(S), NEW s \in Seq(S), BeginsWith(r, s)
    PROVE  a \o r \in Seq(S) /\ a \o s \in Seq(S) /\ BeginsWith(a \o r, a \o s)
<1> DEFINE c == a \o r
           d == a \o s
<1>1. c \in Seq(S) /\ Joined(c, a, r) /\ d \in Seq(S) /\ Joined(d, a, s)
  BY ConcatAt
<1>2. Len(s) <= Len(r) /\ \A k \in 1..Len(s) : r[k] = s[k]
  BY DEF BeginsWith
<1> HIDE DEF c, d
<1>3. /\ Len(a) \in Nat /\ Len(r) \in Nat /\ Len(s) \in Nat
      /\ Len(c) = Len(a) + Len(r) /\ Len(d) = Len(a) + Len(s)
      /\ \A k \in 1..Len(a) : c[k] = d[k]
      /\ \A k \in 1..Len(s) : c[Len(a) + k] = d[Len(a) + k]
  BY <1>1, <1>2 DEF Joined
<1>4. ASSUME NEW k \in 1..Len(d)
      PROVE  c[k] = d[k]
  <2>1. CASE k <= Len(a)
    BY <1>3, <2>1
  <2>2. CASE ~(k <= Len(a))
    <3>1. k - Len(a) \in 1..Len(s) /\ Len(a) + (k - Len(a)) = k
      BY <1>3, <2>2
    <3> QED  BY <1>3, <3>1
  <2> QED  BY <2>1, <2>2
<1>5. BeginsWith(c, d)
  BY <1>2, <1>3, <1>4 DEF BeginsWith
<1> QED  BY <1>1, <1>5 DEF c, d

(* What fits into the budget up to its own message is scanned.             *)
LEMMA ScannedCovers ==
    ASSUME NEW h, IsSeq(h), AllFormed(h), NEW i \in DOMAIN h, h[i].role = "user",
           Len(AllScanned(SubSeq(h, 1, i))) <= Budget,
           NEW p \in ToSet(h[i].parts), Legible(p)
    PROVE  p \in ToSet(Scanned(h))
<1> DEFINE u == SubSeq(h, 1, i)
           of == [k \in DOMAIN h |-> ScannedOf(h[k])]
           ofu == [k \in DOMAIN u |-> ScannedOf(u[k])]
           S == UNION {ToSet(of[k]) : k \in DOMAIN h}
           first == ScannedOf(h[1])
           all == AllScanned(h)
           part == AllScanned(u)
           cut == IF Len(all) < Budget THEN Len(all) ELSE Budget
<1>1. Len(h) \in Nat /\ DOMAIN h = 1..Len(h) /\ 1 \in DOMAIN h /\ i \in 1..Len(h) /\ h # << >>
  BY EmptySeq DEF IsSeq
<1>2. \A k \in DOMAIN h : of[k] = ScannedOf(h[k]) /\ of[k] \in Seq(S)
  <2> TAKE k \in DOMAIN h
  <2>1. of[k] = ScannedOf(h[k])
    OBVIOUS
  <2>2. of[k] \in Seq(ToSet(of[k]))
    BY <2>1, ScannedOfCovers DEF AllFormed, IsSeq
  <2>3. ToSet(of[k]) \subseteq S
    OBVIOUS
  <2> HIDE DEF S, of
  <2> QED  BY <2>1, <2>2, <2>3, SeqMonotonic
<1>3. of \in [1..Len(h) -> Seq(S)] /\ of \in Seq(Seq(S)) /\ Len(of) = Len(h)
  <2>1. of \in [1..Len(h) -> Seq(S)]
    BY <1>1, <1>2
  <2> HIDE DEF of, S
  <2>2. of \in Seq(Seq(S)) /\ DOMAIN of = 1..Len(h)
    BY <1>1, <2>1, SeqDef
  <2>3. Len(of) = Len(h)
    BY <1>1, <2>2
  <2> QED  BY <2>1, <2>2, <2>3
<1>4. /\ Len(u) = i /\ DOMAIN u = 1..i /\ \A k \in 1..i : u[k] = h[k]
      /\ u # << >> /\ u[1] = h[1]
  <2>1. h \in Seq(ToSet(h))
    BY DEF IsSeq
  <2>2. Len(u) = i /\ DOMAIN u = 1..i /\ \A k \in 1..i : u[k] = h[k]
    BY <1>1, <2>1
  <2> HIDE DEF u
  <2> QED  BY <1>1, <2>2, EmptySeq
<1> HIDE DEF u
<1>5. ofu \in Seq(Seq(S)) /\ Len(ofu) = i /\ \A k \in 1..i : ofu[k] = of[k]
  <2>1. \A k \in 1..i : ofu[k] = of[k] /\ of[k] \in Seq(S)
    BY <1>1, <1>2, <1>4
  <2>2. ofu \in [1..i -> Seq(S)]
    BY <1>4, <2>1
  <2>3. i \in Nat
    BY <1>1
  <2> HIDE DEF of, ofu, S
  <2> QED  BY <2>1, <2>2, <2>3, SeqDef
<1>6. all = first \o FlattenSeq(of) /\ part = first \o FlattenSeq(ofu)
  BY <1>1, <1>4 DEF AllScanned
<1>7. first \in Seq(S)
  BY <1>1, <1>2
<1>8. p \in ToSet(of[i])
  BY <1>2, ScannedOfCovers DEF AllFormed
<1> HIDE DEF of, ofu, S, first, all, part
<1>9. /\ FlattenSeq(of) \in Seq(S) /\ FlattenSeq(ofu) \in Seq(S)
      /\ BeginsWith(FlattenSeq(of), FlattenSeq(ofu))
  <2>1. Len(ofu) <= Len(of)
    BY <1>1, <1>3, <1>5
  <2>2. \A j \in 1..Len(ofu) : ofu[j] = of[j]
    BY <1>5
  <2> QED  BY <1>3, <1>5, <2>1, <2>2, FlattenPrefix
<1>10. all \in Seq(S) /\ part \in Seq(S) /\ BeginsWith(all, part)
  BY <1>6, <1>7, <1>9, ConcatBegins
<1>11. p \in ToSet(part)
  <2>1. i \in DOMAIN ofu /\ ofu[i] = of[i]
    BY <1>1, <1>5
  <2>2. p \in ToSet(FlattenSeq(ofu))
    BY <1>5, <1>8, <2>1, FlattenCovers
  <2> QED  BY <1>6, <1>7, <1>9, <2>2, ConcatCovers
<1>12. PICK k \in 1..Len(part) : part[k] = p
  BY <1>10, <1>11 DEF ToSet
<1>13. Len(part) <= Budget
  BY DEF part, u
<1>14. cut \in Nat /\ cut <= Len(all) /\ k \in 1..cut /\ all[k] = p
  BY <1>10, <1>12, <1>13, BudgetAssumption DEF BeginsWith
<1>15. Scanned(h) = SubSeq(all, 1, cut)
  BY DEF Scanned, all
<1> HIDE DEF cut
<1>16. k \in DOMAIN SubSeq(all, 1, cut) /\ SubSeq(all, 1, cut)[k] = p
  BY <1>10, <1>14
<1> QED  BY <1>15, <1>16 DEF ToSet

-----------------------------------------------------------------------------
(* The conversation. *)

TurnsInv == \A i \in DOMAIN turns : turns[i].looked \in {0, turns[i].length}

WaitInv == stage = "waiting" => wire.target \in Targets

(* What was sent, the history of then still begins with.                   *)
SentInv == wire.shape = "anthropic" => wire.length \in Nat /\ wire.length <= Len(history)

TalkInv ==
    /\ IsSeq(history) /\ AllFormed(history) /\ WaitInv /\ SentInv
    /\ IsSeq(turns) /\ TurnsInv /\ Alternates /\ NothingIsLost

LEMMA EmptyIsSeq == IsSeq(<< >>)
BY EmptySeq DEF IsSeq

LEMMA TalkInit == Init => TalkInv
<1> SUFFICES ASSUME Init
             PROVE  TalkInv
  OBVIOUS
<1>1. IsSeq(history) /\ AllFormed(history)
  BY PreamblesAssumption DEF Init, AllFormed, Formed, IsSeq
<1>2. IsSeq(turns) /\ TurnsInv
  BY EmptyIsSeq DEF Init, TurnsInv, IsSeq
<1>3. Alternates /\ WaitInv /\ SentInv /\ NothingIsLost
  BY DEF Init, Nothing, Alternates, WaitInv, SentInv, NothingIsLost
<1> QED  BY <1>1, <1>2, <1>3 DEF TalkInv

(* A message more does not change what was sent of.                        *)
LEMMA SaysKeepsSeq ==
    ASSUME IsSeq(history), AllFormed(history), SentInv, NothingIsLost,
           NEW m, Says(m), Formed(m), UNCHANGED wire
    PROVE  IsSeq(history)' /\ AllFormed(history)' /\ SentInv' /\ NothingIsLost'
<1> DEFINE t == Append(history, m)
           n == Len(history)
<1>1. /\ IsSeq(t) /\ Len(t) = n + 1 /\ DOMAIN t = 1..(n + 1) /\ t[n + 1] = m
      /\ \A i \in DOMAIN history : t[i] = history[i]
  BY AppendIsSeq
<1>2. history' = t
  BY DEF Says
<1>3. n \in Nat /\ DOMAIN history = 1..n
  BY DEF IsSeq
<1> HIDE DEF t
<1>4. AllFormed(t)
  <2> SUFFICES ASSUME NEW i \in DOMAIN t
               PROVE  Formed(t[i])
    BY DEF AllFormed
  <2>1. i \in DOMAIN history \/ i = n + 1
    BY <1>1, <1>3
  <2> QED  BY <1>1, <2>1 DEF AllFormed
<1>5. IsSeq(history')
  BY <1>1, <1>2
<1>6. AllFormed(history')
  BY <1>2, <1>4
<1>7. ASSUME wire.shape = "anthropic"
      PROVE  /\ wire.length \in Nat /\ wire.length <= Len(history')
             /\ SubSeq(history', 1, wire.length) = SubSeq(history, 1, wire.length)
  <2> DEFINE l == wire.length
             S == ToSet(history) \cup ToSet(t)
  <2>1. l \in Nat /\ l <= n /\ l <= n + 1
    BY <1>3, <1>7 DEF SentInv
  <2>2. history \in Seq(S) /\ t \in Seq(S)
    <3>1. ToSet(history) \subseteq S /\ ToSet(t) \subseteq S
      OBVIOUS
    <3> HIDE DEF S
    <3> QED  BY <1>1, <3>1, SeqMonotonic DEF IsSeq
  <2> HIDE DEF S, l
  <2>3. \A i \in 1..l : history[i] \in S /\ t[i] \in S /\ t[i] = history[i]
    <3> TAKE i \in 1..l
    <3>1. i \in 1..n /\ i \in 1..(n + 1)
      BY <1>3, <2>1
    <3> QED  BY <1>1, <1>3, <2>2, <3>1
  <2>4. ASSUME NEW w, \A i \in 1..l : w[i] \in S
        PROVE  /\ SubSeq(w, 1, l) \in Seq(S) /\ Len(SubSeq(w, 1, l)) = l
               /\ \A i \in 1..l : SubSeq(w, 1, l)[i] = w[i]
    <3>1. /\ SubSeq(w, 1, l) \in Seq(S)
          /\ Len(SubSeq(w, 1, l)) = IF 1 <= l THEN l - 1 + 1 ELSE 0
          /\ \A i \in 1..(l - 1 + 1) : SubSeq(w, 1, l)[i] = w[1 + i - 1]
      BY <2>1, <2>4, SubSeqProperties
    <3>2. l - 1 + 1 = l /\ \A i \in 1..l : 1 + i - 1 = i
      BY <2>1
    <3>3. Len(SubSeq(w, 1, l)) = l
      BY <2>1, <3>1
    <3> QED  BY <3>1, <3>2, <3>3
  <2>5. /\ SubSeq(history, 1, l) \in Seq(S) /\ Len(SubSeq(history, 1, l)) = l
        /\ \A i \in 1..l : SubSeq(history, 1, l)[i] = history[i]
    BY <2>3, <2>4
  <2>6. /\ SubSeq(t, 1, l) \in Seq(S) /\ Len(SubSeq(t, 1, l)) = l
        /\ \A i \in 1..l : SubSeq(t, 1, l)[i] = t[i]
    BY <2>3, <2>4
  <2>7. SubSeq(t, 1, l) = SubSeq(history, 1, l)
    <3> DEFINE a == SubSeq(t, 1, l)
               b == SubSeq(history, 1, l)
    <3>1. /\ a \in Seq(S) /\ b \in Seq(S) /\ Len(a) = Len(b)
          /\ \A i \in 1..Len(a) : a[i] = b[i]
      BY <2>3, <2>5, <2>6
    <3> HIDE DEF a, b
    <3>2. a = b
      BY <3>1, SeqEqual
    <3> QED  BY <3>2 DEF a, b
  <2> QED  BY <1>1, <1>2, <2>1, <2>7 DEF l
<1>8. SentInv' /\ NothingIsLost'
  BY <1>7 DEF SentInv, NothingIsLost
<1> QED  BY <1>5, <1>6, <1>8 DEF IsSeq, AllFormed, Formed, ToSet

(* What comes back, too, is made of sequences.                             *)
LEMMA RepliesAreFormed ==
    ASSUME NEW f \in Targets, NEW a \in Answers
    PROVE  Formed(Reply(Unify(f, Named(a))))
<1> DEFINE b == Named(a)
           m == Unify(f, b)
<1>1. IsSeq(b)
  <2>1. DOMAIN b = 1..Len(a) /\ Len(a) \in Nat
    BY AnswersAssumption DEF Named, IsSeq
  <2>2. b = [i \in DOMAIN b |-> b[i]]
    BY DEF Named
  <2> HIDE DEF b
  <2> QED  BY <2>1, <2>2, MappedIsSeq
<1> HIDE DEF b
<1>2. \A ks : IsSeq(Kinds(b, ks))
  BY <1>1, KindsTakesAll
<1>3. IsSeq(CallsOf(b)) /\ IsSeq(Valid(CallsOf(b)))
  <2> DEFINE ks == Kinds(b, {"call"})
             cs == [i \in DOMAIN ks |-> ks[i].of]
             keep == {i \in DOMAIN cs : cs[i].valid}
  <2>1. CallsOf(b) = cs /\ Valid(cs) = Taken(cs, keep)
    BY DEF CallsOf, Valid
  <2>2. DOMAIN ks = 1..Len(ks) /\ Len(ks) \in Nat
    BY <1>2 DEF IsSeq
  <2>3. DOMAIN cs = 1..Len(ks) /\ cs = [i \in DOMAIN cs |-> cs[i]]
    BY <2>2
  <2> HIDE DEF cs, ks
  <2>4. IsSeq(cs)
    BY <2>2, <2>3, MappedIsSeq
  <2>5. Len(cs) \in Nat
    BY <2>4 DEF IsSeq
  <2>6. IsSeq(Taken(cs, keep))
    <3>1. Taken(cs, keep) \in Seq(Items(Len(cs), keep, cs))
      BY <2>5, TakenCovers
    <3> QED  BY <3>1, SeqOfItsOwn
  <2> QED  BY <2>1, <2>4, <2>6
<1>4. \A ps : IsSeq(ps) => IsSeq(FirstOf(ps))
  <2> SUFFICES ASSUME NEW ps, IsSeq(ps)
               PROVE  IsSeq(FirstOf(ps))
    OBVIOUS
  <2>1. CASE ps = << >>
    BY <2>1, EmptyIsSeq DEF FirstOf
  <2>2. CASE ps # << >>
    <3> DEFINE x == Head(ps)
    <3>1. FirstOf(ps) = <<x>>
      BY <2>2 DEF FirstOf
    <3> HIDE DEF x
    <3>2. <<x>> \in Seq({x})
      OBVIOUS
    <3> QED  BY <3>1, <3>2, SeqOfItsOwn
  <2> QED  BY <2>1, <2>2
<1>5. Formed(m)
  <2>1. CASE f = "anthropic"
    BY <1>2, <1>3, <1>4, <2>1 DEF Unify, Msg, Formed
  <2>2. CASE f = "gemini"
    <3>1. IsSeq(Kinds(FirstOf(b), {"text"}))
      BY <1>1, <1>4, KindsTakesAll
    <3> QED  BY <2>2, <3>1, EmptyIsSeq DEF Unify, Msg, Formed
  <2>3. CASE f \in {"openai", "cohere"}
    BY <1>2, <1>3, <2>3 DEF Unify, Msg, Formed
  <2> QED  BY <2>1, <2>2, <2>3 DEF Targets
<1> HIDE DEF m
<1>6. CASE Intercepts(m)
  <2> DEFINE p == Of("text", "schema")
             ps == Reply(m).parts
             cs == Reply(m).calls
  <2>1. ps = <<p>> /\ cs = << >>
    BY <1>6 DEF Reply, Msg
  <2> HIDE DEF p, ps, cs
  <2>2. <<p>> \in Seq({p})
    OBVIOUS
  <2>3. IsSeq(<<p>>)
    BY <2>2, SeqOfItsOwn
  <2>4. IsSeq(ps) /\ IsSeq(cs)
    BY <2>1, <2>3, EmptyIsSeq
  <2> QED  BY <2>4 DEF Formed, ps, cs, m, b
<1>7. CASE ~Intercepts(m)
  <2>1. Reply(m) = m
    BY <1>7 DEF Reply
  <2> QED  BY <1>5, <2>1 DEF m, b
<1> QED  BY <1>6, <1>7

LEMMA SendStep == ASSUME TalkInv, Send PROVE IsSeq(turns)' /\ TurnsInv'
<1> DEFINE t == [length |-> Len(history), looked |-> Looked(history)]
<1>1. turns' = Append(turns, t) /\ Asks
  BY DEF Send
<1>2. t.looked \in {0, t.length}
  BY <1>1, AsksDecides, LookedIsLast DEF Asks, TalkInv
<1> HIDE DEF t
<1>3. /\ IsSeq(Append(turns, t)) /\ DOMAIN Append(turns, t) = 1..(Len(turns) + 1)
      /\ Append(turns, t)[Len(turns) + 1] = t
      /\ \A i \in DOMAIN turns : Append(turns, t)[i] = turns[i]
  BY AppendIsSeq DEF TalkInv
<1>4. Len(turns) \in Nat /\ DOMAIN turns = 1..Len(turns)
  BY DEF TalkInv, IsSeq
<1>5. TurnsInv'
  <2> SUFFICES ASSUME NEW i \in DOMAIN turns'
               PROVE  turns'[i].looked \in {0, turns'[i].length}
    BY DEF TurnsInv
  <2>1. i \in DOMAIN turns \/ i = Len(turns) + 1
    BY <1>1, <1>3, <1>4
  <2> QED  BY <1>1, <1>2, <1>3, <2>1 DEF TalkInv, TurnsInv
<1>6. IsSeq(turns)'
  BY <1>1, <1>3 DEF IsSeq, ToSet
<1> QED  BY <1>5, <1>6

LEMMA TalkStep == TalkInv /\ [Next]_vars => TalkInv'
<1> SUFFICES ASSUME TalkInv, [Next]_vars
             PROVE  TalkInv'
  OBVIOUS
<1> USE DEF TalkInv
<1>1. ASSUME UNCHANGED history
      PROVE  IsSeq(history)' /\ AllFormed(history)'
  <2>1. IsSeq(history)'
    BY <1>1 DEF IsSeq, ToSet
  <2>2. AllFormed(history') /\ history' = history
    BY <1>1
  <2>3. AllFormed(history)'
    BY <2>2 DEF AllFormed, Formed, IsSeq, ToSet
  <2> QED  BY <2>1, <2>3
<1>2. ASSUME UNCHANGED turns
      PROVE  IsSeq(turns)' /\ TurnsInv'
  BY <1>2 DEF IsSeq, TurnsInv, ToSet
<1>3. ASSUME UNCHANGED <<history, wire>>
      PROVE  Alternates' /\ SentInv' /\ NothingIsLost'
  BY <1>3 DEF Alternates, SentInv, NothingIsLost
<1>4. CASE UNCHANGED vars
  <2>1. UNCHANGED <<history, turns, stage, wire>>
    BY <1>4 DEF vars
  <2> QED  BY <1>1, <1>2, <1>3, <2>1 DEF WaitInv
<1>5. ASSUME NEW m, Says(m), Formed(m), UNCHANGED <<turns, wire>>, stage' = "agent"
      PROVE  TalkInv'
  <2>1. IsSeq(history)' /\ AllFormed(history)' /\ SentInv' /\ NothingIsLost'
    BY <1>5, SaysKeepsSeq
  <2>2. Alternates' /\ WaitInv'
    BY <1>5 DEF Alternates, WaitInv
  <2> QED  BY <1>2, <1>5, <2>1, <2>2
<1>6. ASSUME NEW parts \in Writings, Write(parts)
      PROVE  TalkInv'
  <2> DEFINE m == Msg("user", parts, << >>, NoCall)
  <2>1. Formed(m)
    BY WritingsAssumption, EmptyIsSeq DEF Msg, Formed
  <2>2. Says(m) /\ UNCHANGED <<turns, wire>> /\ stage' = "agent"
    BY <1>6 DEF Write
  <2> HIDE DEF m, TalkInv
  <2> QED  BY <1>5, <2>1, <2>2
<1>7. ASSUME NEW i \in DOMAIN due, Answer(i)
      PROVE  TalkInv'
  <2> DEFINE p == Of("text", "result")
             m == Msg("tool", <<p>>, << >>, due[i].id)
  <2>1. Formed(m)
    <3>1. m.parts = <<p>> /\ m.calls = << >>
      BY DEF Msg
    <3> HIDE DEF p
    <3>2. <<p>> \in Seq({p})
      OBVIOUS
    <3> HIDE DEF m
    <3>3. IsSeq(<<p>>)
      BY <3>2, SeqOfItsOwn
    <3> QED  BY <3>1, <3>3, EmptyIsSeq DEF Formed
  <2>2. Says(m) /\ UNCHANGED <<turns, wire>> /\ stage' = "agent"
    BY <1>7 DEF Answer
  <2> HIDE DEF m, TalkInv
  <2> QED  BY <1>5, <2>1, <2>2
<1>8. ASSUME NEW a \in Answers, Receive(a)
      PROVE  TalkInv'
  <2> DEFINE m == Reply(Unify(wire.target, Named(a)))
  <2>1. stage = "waiting" /\ Says(m) /\ UNCHANGED <<turns, wire>> /\ stage' = "agent"
    BY <1>8 DEF Receive
  <2>2. Formed(m)
    BY <2>1, RepliesAreFormed DEF WaitInv
  <2> HIDE DEF m, TalkInv
  <2> QED  BY <1>5, <2>1, <2>2
<1>9. CASE Send
  <2>1. IsSeq(turns)' /\ TurnsInv'
    BY <1>9, SendStep
  <2>2. UNCHANGED <<history, wire>> /\ stage' = "routing"
    BY <1>9 DEF Send
  <2> QED  BY <1>1, <1>3, <2>1, <2>2 DEF WaitInv
<1>10. ASSUME NEW f \in Targets, Build(f)
       PROVE  TalkInv'
  <2> DEFINE big == Heavy(history)
  <2>1. big \in BOOLEAN
    BY DEF Heavy
  <2>2. /\ wire' = Request(f, history, big) /\ Builds(f, history, big)
        /\ UNCHANGED <<history, turns>>
    BY <1>10 DEF Build
  <2> HIDE DEF big
  <2>3. Alternates'
    BY <2>1, <2>2, RequestAlternates DEF Alternates
  <2>4. WaitInv'
    BY <2>1, <2>2, RequestNamesItsTarget DEF WaitInv
  <2>5. SentInv' /\ NothingIsLost'
    <3> SUFFICES ASSUME wire'.shape = "anthropic"
                 PROVE  /\ wire'.length \in Nat /\ wire'.length <= Len(history')
                        /\ Undummied(Parts(wire'.messages))
                               = Said(SubSeq(history', 1, wire'.length))
      BY DEF SentInv, NothingIsLost
    <3>1. wire'.messages = Anthropic(Universal(history)) /\ wire'.length = Len(history)
      BY <2>1, <2>2, RequestTranslates
    <3>2. Undummied(Parts(wire'.messages)) = Said(history)
      BY <3>1, RequestSpeaks DEF AllFormed
    <3>3. Len(history) \in Nat /\ SubSeq(history, 1, Len(history)) = history
      BY SubSeqFull DEF IsSeq
    <3>4. history' = history
      BY <2>2
    <3>5. SubSeq(history', 1, wire'.length) = history
      BY <3>1, <3>3, <3>4
    <3>6. wire'.length \in Nat /\ wire'.length <= Len(history')
      BY <3>1, <3>3, <3>4
    <3> QED  BY <3>2, <3>5, <3>6
  <2> QED  BY <1>1, <1>2, <2>2, <2>3, <2>4, <2>5
<1>11. CASE Fail
  <2>1. UNCHANGED <<history, turns, wire>> /\ stage' = "agent"
    BY <1>11 DEF Fail
  <2> QED  BY <1>1, <1>2, <1>3, <2>1 DEF WaitInv
<1> HIDE DEF TalkInv
<1> QED  BY <1>4, <1>6, <1>7, <1>8, <1>9, <1>10, <1>11 DEF Next

-----------------------------------------------------------------------------
(* The tools.  What holds of the schemas less deep holds of all.           *)
LEMMA ByDepth ==
    ASSUME NEW Good,
           \A v \in Schemas :
               (\A w \in Schemas : Depth[w] < Depth[v] => w \in Good) => v \in Good
    PROVE  Schemas \subseteq Good
<1> SUFFICES ASSUME NEW u \in Schemas, u \notin Good
             PROVE  FALSE
  OBVIOUS
<1> DEFINE Bad == {v \in Schemas : v \notin Good}
           depths == {Depth[v] : v \in Bad}
<1>1. \A v \in Schemas : Depth[v] \in Nat
  BY SchemasAssumption
<1>2. PICK n \in depths : \A k \in depths : n <= k
  <2>1. depths \in SUBSET Nat /\ depths # {}
    BY <1>1
  <2> HIDE DEF depths
  <2> QED  BY <2>1, LeastOf
<1>3. PICK v \in Bad : Depth[v] = n
  BY <1>2
<1>4. \A w \in Schemas : Depth[w] < Depth[v] => w \in Good
  BY <1>1, <1>2, <1>3
<1> QED  BY <1>3, <1>4

Below(n) == {v \in Schemas : Depth[v] < n}

LEMMA ChildrenAreBelow ==
    ASSUME NEW n \in 1..(MaxDepth + 1), NEW v \in Below(n)
    PROVE  /\ v.kind = "object" => \A k \in DOMAIN v.fields : v.fields[k] \in Below(n - 1)
           /\ v.kind = "array" => \A i \in DOMAIN v.items : v.items[i] \in Below(n - 1)
<1>1. \A w \in Schemas : Depth[w] \in Nat
  BY SchemasAssumption
<1>2. n \in Nat
  BY DEF MaxDepth
<1>3. \A w \in Schemas : Depth[w] < Depth[v] => Depth[w] < n - 1
  BY <1>1, <1>2 DEF Below
<1>4. v \in Schemas
  BY DEF Below
<1>5. CASE v.kind = "object"
  <2>1. IsObject(v) /\ \A k \in DOMAIN v.fields : Depth[v.fields[k]] < Depth[v]
    BY <1>4, <1>5, SchemasAssumption
  <2>2. \A k \in DOMAIN v.fields : v.fields[k] \in Schemas
    BY <2>1 DEF IsObject
  <2> QED  BY <1>3, <1>5, <2>1, <2>2 DEF Below
<1>6. CASE v.kind = "array"
  <2>1. IsArray(v) /\ \A i \in DOMAIN v.items : Depth[v.items[i]] < Depth[v]
    BY <1>4, <1>6, SchemasAssumption
  <2>2. \A i \in DOMAIN v.items : v.items[i] \in Schemas
    BY <2>1 DEF IsArray
  <2> QED  BY <1>3, <1>6, <2>1, <2>2 DEF Below
<1> QED  BY <1>5, <1>6

(* Stripped is defined on every schema.                                    *)
LEMMA StrippedIs ==
    ASSUME NEW v \in Schemas
    PROVE  /\ v.kind = "object" =>
                  Stripped[v] = Object([k \in DOMAIN v.fields \ Metadata |-> Stripped[v.fields[k]]])
           /\ v.kind = "array" =>
                  Stripped[v] = Array([i \in DOMAIN v.items |-> Stripped[v.items[i]]])
           /\ v.kind = "value" => Stripped[v] = v
<1> DEFINE Body(f, w) ==
               CASE w.kind = "object" ->
                       Object([k \in DOMAIN w.fields \ Metadata |-> f[w.fields[k]]])
                 [] w.kind = "array" -> Array([i \in DOMAIN w.items |-> f[w.items[i]]])
                 [] w.kind = "value" -> w
           Made(f, S) == f = [w \in S |-> Body(f, w)]
           T == {n \in 0..(MaxDepth + 1) : \E f : Made(f, Below(n))}
<1>1. Below(0) = {} /\ Below(MaxDepth + 1) = Schemas
  BY SchemasAssumption DEF Below, MaxDepth
<1>2. 0 \in T
  <2>1. Made([w \in {} |-> w], Below(0))
    BY <1>1
  <2>2. 0 \in 0..(MaxDepth + 1)
    BY DEF MaxDepth
  <2> HIDE DEF Made
  <2> QED  BY <2>1, <2>2
<1>3. ASSUME NEW n \in 1..(MaxDepth + 1), n - 1 \in T
      PROVE  n \in T
  <2>1. PICK f : Made(f, Below(n - 1))
    BY <1>3
  <2> DEFINE g == [w \in Below(n) |-> Body(f, w)]
  <2>2. ASSUME NEW w \in Below(n - 1)
        PROVE  g[w] = f[w]
    <3>1. w \in Below(n)
      BY SchemasAssumption DEF Below, MaxDepth
    <3>2. g[w] = Body(f, w)
      BY <3>1
    <3> HIDE DEF Body
    <3> QED  BY <2>1, <3>2
  <2>3. ASSUME NEW w \in Below(n)
        PROVE  Body(g, w) = Body(f, w)
    <3> HIDE DEF g
    <3>1. CASE w.kind = "object"
      <4>1. \A k \in DOMAIN w.fields : g[w.fields[k]] = f[w.fields[k]]
        BY <2>2, <3>1, ChildrenAreBelow
      <4>2. [k \in DOMAIN w.fields \ Metadata |-> g[w.fields[k]]]
                = [k \in DOMAIN w.fields \ Metadata |-> f[w.fields[k]]]
        BY <4>1
      <4> QED  BY <3>1, <4>2
    <3>2. CASE w.kind = "array"
      <4>1. \A i \in DOMAIN w.items : g[w.items[i]] = f[w.items[i]]
        BY <2>2, <3>2, ChildrenAreBelow
      <4>2. [i \in DOMAIN w.items |-> g[w.items[i]]] = [i \in DOMAIN w.items |-> f[w.items[i]]]
        BY <4>1
      <4> QED  BY <3>2, <4>2
    <3>3. w.kind \in {"object", "array", "value"}
      BY SchemasAssumption DEF Below
    <3> QED  BY <3>1, <3>2, <3>3
  <2>4. Made(g, Below(n))
    <3> HIDE DEF Body
    <3> QED  BY <2>3
  <2> HIDE DEF Made
  <2> QED  BY <1>3, <2>4
<1>4. \E f : Made(f, Schemas)
  <2>1. MaxDepth + 1 \in Nat
    BY DEF MaxDepth
  <2>2. MaxDepth + 1 \in T
    <3> HIDE DEF T
    <3> QED  BY <1>2, <1>3, <2>1, UpTo
  <2> HIDE DEF Made
  <2> QED  BY <1>1, <2>2
<1>5. Stripped = CHOOSE f : Made(f, Schemas)
  BY DEF Stripped
<1>6. Made(Stripped, Schemas)
  <2> HIDE DEF Made
  <2> QED  BY <1>4, <1>5
<1>7. Stripped[v] = Body(Stripped, v)
  <2> HIDE DEF Body
  <2> QED  BY <1>6
<1> QED  BY <1>7

(* And so is Paths.                                                        *)
LEMMA PathsAre ==
    ASSUME NEW v \in Schemas
    PROVE  /\ v.kind = "object" =>
                  Paths[v] = {<< >>} \cup
                      UNION {Under(Of("key", k), Paths[v.fields[k]]) : k \in DOMAIN v.fields}
           /\ v.kind = "array" =>
                  Paths[v] = {<< >>} \cup
                      UNION {Under(Of("index", i), Paths[v.items[i]]) : i \in DOMAIN v.items}
           /\ v.kind = "value" => Paths[v] = {<< >>}
<1> DEFINE Body(f, w) ==
               {<< >>} \cup
               CASE w.kind = "object" ->
                       UNION {Under(Of("key", k), f[w.fields[k]]) : k \in DOMAIN w.fields}
                 [] w.kind = "array" ->
                       UNION {Under(Of("index", i), f[w.items[i]]) : i \in DOMAIN w.items}
                 [] w.kind = "value" -> {}
           Made(f, S) == f = [w \in S |-> Body(f, w)]
           T == {n \in 0..(MaxDepth + 1) : \E f : Made(f, Below(n))}
<1>1. Below(0) = {} /\ Below(MaxDepth + 1) = Schemas
  BY SchemasAssumption DEF Below, MaxDepth
<1>2. 0 \in T
  <2>1. Made([w \in {} |-> w], Below(0))
    BY <1>1
  <2>2. 0 \in 0..(MaxDepth + 1)
    BY DEF MaxDepth
  <2> HIDE DEF Made
  <2> QED  BY <2>1, <2>2
<1>3. ASSUME NEW n \in 1..(MaxDepth + 1), n - 1 \in T
      PROVE  n \in T
  <2>1. PICK f : Made(f, Below(n - 1))
    BY <1>3
  <2> DEFINE g == [w \in Below(n) |-> Body(f, w)]
  <2>2. ASSUME NEW w \in Below(n - 1)
        PROVE  g[w] = f[w]
    <3>1. w \in Below(n)
      BY SchemasAssumption DEF Below, MaxDepth
    <3>2. g[w] = Body(f, w)
      BY <3>1
    <3> HIDE DEF Body
    <3> QED  BY <2>1, <3>2
  <2>3. ASSUME NEW w \in Below(n)
        PROVE  Body(g, w) = Body(f, w)
    <3> HIDE DEF g
    <3>1. CASE w.kind = "object"
      <4>1. \A k \in DOMAIN w.fields : g[w.fields[k]] = f[w.fields[k]]
        BY <2>2, <3>1, ChildrenAreBelow
      <4>2. {Under(Of("key", k), g[w.fields[k]]) : k \in DOMAIN w.fields}
                = {Under(Of("key", k), f[w.fields[k]]) : k \in DOMAIN w.fields}
        BY <4>1
      <4> QED  BY <3>1, <4>2
    <3>2. CASE w.kind = "array"
      <4>1. \A i \in DOMAIN w.items : g[w.items[i]] = f[w.items[i]]
        BY <2>2, <3>2, ChildrenAreBelow
      <4>2. {Under(Of("index", i), g[w.items[i]]) : i \in DOMAIN w.items}
                = {Under(Of("index", i), f[w.items[i]]) : i \in DOMAIN w.items}
        BY <4>1
      <4> QED  BY <3>2, <4>2
    <3>3. w.kind \in {"object", "array", "value"}
      BY SchemasAssumption DEF Below
    <3> QED  BY <3>1, <3>2, <3>3
  <2>4. Made(g, Below(n))
    <3> HIDE DEF Body
    <3> QED  BY <2>3
  <2> HIDE DEF Made
  <2> QED  BY <1>3, <2>4
<1>4. \E f : Made(f, Schemas)
  <2>1. MaxDepth + 1 \in Nat
    BY DEF MaxDepth
  <2>2. MaxDepth + 1 \in T
    <3> HIDE DEF T
    <3> QED  BY <1>2, <1>3, <2>1, UpTo
  <2> HIDE DEF Made
  <2> QED  BY <1>1, <2>2
<1>5. Paths = CHOOSE f : Made(f, Schemas)
  BY DEF Paths
<1>6. Made(Paths, Schemas)
  <2> HIDE DEF Made
  <2> QED  BY <1>4, <1>5
<1>7. Paths[v] = Body(Paths, v)
  <2> HIDE DEF Body
  <2> QED  BY <1>6
<1> QED  BY <1>7

LEMMA ConsIsSeq ==
    ASSUME NEW x, NEW p, IsSeq(p)
    PROVE  /\ IsSeq(<<x>> \o p) /\ DOMAIN (<<x>> \o p) = 1..(Len(p) + 1)
           /\ (<<x>> \o p)[1] = x
           /\ \A i \in 1..Len(p) : (<<x>> \o p)[i + 1] = p[i]
<1> DEFINE S == ToSet(p) \cup {x}
           b == <<x>>
           q == b \o p
<1>1. p \in Seq(S)
  BY SeqMonotonic DEF IsSeq
<1>2. b \in Seq(S) /\ Len(b) = 1 /\ b[1] = x
  OBVIOUS
<1> HIDE DEF S, b
<1>3. /\ q \in Seq(S) /\ DOMAIN q = 1..(Len(p) + 1) /\ q[1] = x
      /\ \A i \in 1..Len(p) : q[i + 1] = p[i]
  <2>1. q \in Seq(S) /\ Joined(q, b, p)
    BY <1>1, <1>2, ConcatAt
  <2> HIDE DEF q
  <2>2. Len(p) \in Nat /\ DOMAIN q = 1..(Len(p) + 1) /\ q[1] = x
    BY <1>1, <1>2, <2>1 DEF Joined
  <2>3. ASSUME NEW i \in 1..Len(p)
        PROVE  q[i + 1] = p[i]
    <3>1. q[1 + i] = p[i] /\ 1 + i = i + 1
      BY <1>2, <2>1 DEF Joined
    <3> QED  BY <3>1
  <2> QED  BY <2>1, <2>2, <2>3
<1> HIDE DEF q
<1>4. IsSeq(q)
  BY <1>3, SeqOfItsOwn
<1> QED  BY <1>3, <1>4 DEF q, b

LEMMA PlainCons ==
    ASSUME NEW x, NEW p, IsSeq(p)
    PROVE  Plain(<<x>> \o p) <=> (x.kind = "key" => x.of \notin Metadata) /\ Plain(p)
<1> DEFINE q == <<x>> \o p
<1>1. /\ DOMAIN q = 1..(Len(p) + 1) /\ q[1] = x
      /\ \A i \in 1..Len(p) : q[i + 1] = p[i]
  BY ConsIsSeq
<1>2. Len(p) \in Nat /\ DOMAIN p = 1..Len(p)
  BY DEF IsSeq
<1> HIDE DEF q
<1>3. ASSUME Plain(q)
      PROVE  (x.kind = "key" => x.of \notin Metadata) /\ Plain(p)
  <2>1. 1 \in DOMAIN q
    BY <1>1, <1>2
  <2>2. \A i \in DOMAIN p : i + 1 \in DOMAIN q /\ q[i + 1] = p[i]
    BY <1>1, <1>2
  <2> QED  BY <1>1, <1>3, <2>1, <2>2 DEF Plain
<1>4. ASSUME x.kind = "key" => x.of \notin Metadata, Plain(p)
      PROVE  Plain(q)
  <2>1. \A j \in DOMAIN q : j = 1 \/ (j - 1 \in DOMAIN p /\ q[j] = p[j - 1])
    <3> TAKE j \in DOMAIN q
    <3> DEFINE i == j - 1
    <3>1. j = 1 \/ (i \in 1..Len(p) /\ j = i + 1)
      BY <1>1, <1>2
    <3> HIDE DEF i
    <3>2. j = 1 \/ (i \in DOMAIN p /\ q[j] = p[i])
      BY <1>1, <1>2, <3>1
    <3> QED  BY <3>2 DEF i
  <2> QED  BY <1>1, <1>4, <2>1 DEF Plain
<1> QED  BY <1>3, <1>4 DEF q

ByKey(v, q) ==
    \E k \in DOMAIN v.fields : \E p \in Paths[v.fields[k]] : q = <<Of("key", k)>> \o p

ByIndex(v, q) ==
    \E i \in DOMAIN v.items : \E p \in Paths[v.items[i]] : q = <<Of("index", i)>> \o p

LEMMA ObjectPaths ==
    ASSUME NEW v \in Schemas, v.kind = "object", NEW q, q # << >>
    PROVE  q \in Paths[v] <=> ByKey(v, q)
<1>1. Paths[v] = {<< >>} \cup
                     UNION {Under(Of("key", k), Paths[v.fields[k]]) : k \in DOMAIN v.fields}
  BY PathsAre
<1>2. q \in Paths[v] <=> \E k \in DOMAIN v.fields : q \in Under(Of("key", k), Paths[v.fields[k]])
  BY <1>1
<1> QED  BY <1>2 DEF Under, ByKey

LEMMA ArrayPaths ==
    ASSUME NEW v \in Schemas, v.kind = "array", NEW q, q # << >>
    PROVE  q \in Paths[v] <=> ByIndex(v, q)
<1>1. Paths[v] = {<< >>} \cup
                     UNION {Under(Of("index", i), Paths[v.items[i]]) : i \in DOMAIN v.items}
  BY PathsAre
<1>2. q \in Paths[v] <=> \E i \in DOMAIN v.items : q \in Under(Of("index", i), Paths[v.items[i]])
  BY <1>1
<1> QED  BY <1>2 DEF Under, ByIndex

LEMMA EmptyPath ==
    ASSUME NEW v \in Schemas
    PROVE  << >> \in Paths[v] /\ (v.kind = "value" => Paths[v] = {<< >>})
<1>1. v.kind \in {"object", "array", "value"}
  BY SchemasAssumption
<1> QED  BY <1>1, PathsAre

(* What is in an object or an array is a schema, and less deep.            *)
LEMMA Children ==
    ASSUME NEW v \in Schemas
    PROVE  /\ v.kind = "object" => /\ v = Object(v.fields)
                                  /\ \A k \in DOMAIN v.fields :
                                        v.fields[k] \in Schemas /\ Depth[v.fields[k]] < Depth[v]
           /\ v.kind = "array" => /\ v = Array(v.items)
                                 /\ \A i \in DOMAIN v.items :
                                       v.items[i] \in Schemas /\ Depth[v.items[i]] < Depth[v]
           /\ v.kind \in {"object", "array", "value"}
<1>1. CASE v.kind = "object"
  <2>1. IsObject(v) /\ \A k \in DOMAIN v.fields : Depth[v.fields[k]] < Depth[v]
    BY <1>1, SchemasAssumption
  <2> QED  BY <1>1, <2>1 DEF IsObject
<1>2. CASE v.kind = "array"
  <2>1. IsArray(v) /\ \A i \in DOMAIN v.items : Depth[v.items[i]] < Depth[v]
    BY <1>2, SchemasAssumption
  <2> QED  BY <1>2, <2>1 DEF IsArray
<1> QED  BY <1>1, <1>2, SchemasAssumption

LEMMA PathsAreSeqs ==
    ASSUME NEW u \in Schemas, NEW r \in Paths[u]
    PROVE  IsSeq(r)
<1> DEFINE Good == {v \in Schemas : \A p \in Paths[v] : IsSeq(p)}
<1>1. ASSUME NEW v \in Schemas, \A w \in Schemas : Depth[w] < Depth[v] => w \in Good
      PROVE  v \in Good
  <2> SUFFICES ASSUME NEW q \in Paths[v], q # << >>
               PROVE  IsSeq(q)
    BY EmptyIsSeq
  <2>1. CASE v.kind = "object"
    <3>0. PICK k \in DOMAIN v.fields : \E p \in Paths[v.fields[k]] : q = <<Of("key", k)>> \o p
      <4>1. ByKey(v, q)
        BY <2>1, ObjectPaths
      <4> QED  BY <4>1 DEF ByKey
    <3>1. PICK p \in Paths[v.fields[k]] : q = <<Of("key", k)>> \o p
      BY <3>0
    <3>2. IsSeq(p)
      BY <1>1, <2>1, Children
    <3> QED  BY <3>1, <3>2, ConsIsSeq
  <2>2. CASE v.kind = "array"
    <3>0. PICK i \in DOMAIN v.items : \E p \in Paths[v.items[i]] : q = <<Of("index", i)>> \o p
      <4>1. ByIndex(v, q)
        BY <2>2, ArrayPaths
      <4> QED  BY <4>1 DEF ByIndex
    <3>1. PICK p \in Paths[v.items[i]] : q = <<Of("index", i)>> \o p
      BY <3>0
    <3>2. IsSeq(p)
      BY <1>1, <2>2, Children
    <3> QED  BY <3>1, <3>2, ConsIsSeq
  <2> QED  BY <2>1, <2>2, Children, EmptyPath
<1>2. Schemas \subseteq Good
  <2> HIDE DEF Good
  <2> QED  BY <1>1, ByDepth
<1> QED  BY <1>2

(* What stripping leaves of a schema: its paths without a key of Metadata. *)
LEMMA StrippedPaths ==
    ASSUME NEW u \in Schemas
    PROVE  Paths[Stripped[u]] = {p \in Paths[u] : Plain(p)}
<1> DEFINE Good == {v \in Schemas : \A p : p \in Paths[Stripped[v]] <=> p \in Paths[v] /\ Plain(p)}
<1>1. ASSUME NEW v \in Schemas, \A w \in Schemas : Depth[w] < Depth[v] => w \in Good
      PROVE  v \in Good
  <2> SUFFICES ASSUME NEW q
               PROVE  q \in Paths[Stripped[v]] <=> q \in Paths[v] /\ Plain(q)
    OBVIOUS
  <2>1. Stripped[v] \in Schemas
    BY SchemasAssumption
  <2>2. CASE q = << >>
    <3>1. Plain(q)
      BY <2>2 DEF Plain
    <3> QED  BY <2>1, <2>2, <3>1, EmptyPath
  <2>3. CASE q # << >> /\ v.kind = "object"
    <3> DEFINE w == Stripped[v]
               keys == DOMAIN v.fields
               kept == [k \in keys \ Metadata |-> Stripped[v.fields[k]]]
    <3>1. w = Object(kept) /\ w \in Schemas
      BY <2>1, <2>3, StrippedIs
    <3> HIDE DEF w
    <3>2. w.kind = "object" /\ w.fields = kept
      BY <3>1 DEF Object
    <3>3. /\ DOMAIN w.fields = keys \ Metadata
          /\ \A k \in keys \ Metadata : w.fields[k] = Stripped[v.fields[k]]
      BY <3>2
    <3> HIDE DEF kept
    <3>4. ASSUME NEW k \in keys, NEW p
          PROVE  p \in Paths[Stripped[v.fields[k]]] <=> p \in Paths[v.fields[k]] /\ Plain(p)
      <4>1. v.fields[k] \in Good
        BY <1>1, <2>3, Children
      <4> QED  BY <4>1
    <3>5. ASSUME NEW k \in keys, NEW p \in Paths[v.fields[k]], q = <<Of("key", k)>> \o p
          PROVE  Plain(q) <=> k \notin Metadata /\ Plain(p)
      <4>1. IsSeq(p)
        BY <2>3, Children, PathsAreSeqs
      <4> DEFINE x == Of("key", k)
      <4>2. x.kind = "key" /\ x.of = k
        BY DEF Of
      <4> HIDE DEF x
      <4>3. Plain(<<x>> \o p) <=> (x.kind = "key" => x.of \notin Metadata) /\ Plain(p)
        BY <4>1, PlainCons
      <4> QED  BY <3>5, <4>2, <4>3 DEF x
    <3>6. q \in Paths[w] <=> \E k \in DOMAIN w.fields : \E p \in Paths[w.fields[k]] :
                                 q = <<Of("key", k)>> \o p
      <4>1. q \in Paths[w] <=> ByKey(w, q)
        BY <2>3, <3>1, <3>2, ObjectPaths
      <4> QED  BY <4>1 DEF ByKey
    <3>7. q \in Paths[v] <=> \E k \in keys : \E p \in Paths[v.fields[k]] :
                                 q = <<Of("key", k)>> \o p
      <4>1. q \in Paths[v] <=> ByKey(v, q)
        BY <2>3, ObjectPaths
      <4> QED  BY <4>1 DEF ByKey
    <3>8. ASSUME q \in Paths[w]
          PROVE  q \in Paths[v] /\ Plain(q)
      <4>0. PICK k \in keys \ Metadata : \E p \in Paths[Stripped[v.fields[k]]] : q = <<Of("key", k)>> \o p
        BY <3>3, <3>6, <3>8
      <4>1. PICK p \in Paths[Stripped[v.fields[k]]] : q = <<Of("key", k)>> \o p
        BY <4>0
      <4>2. p \in Paths[v.fields[k]] /\ Plain(p)
        BY <3>4, <4>1
      <4> QED  BY <3>5, <3>7, <4>1, <4>2
    <3>9. ASSUME q \in Paths[v], Plain(q)
          PROVE  q \in Paths[w]
      <4>0. PICK k \in keys : \E p \in Paths[v.fields[k]] : q = <<Of("key", k)>> \o p
        BY <3>7, <3>9
      <4>1. PICK p \in Paths[v.fields[k]] : q = <<Of("key", k)>> \o p
        BY <4>0
      <4>2. k \notin Metadata /\ Plain(p)
        BY <3>5, <3>9, <4>1
      <4>3. p \in Paths[Stripped[v.fields[k]]]
        BY <3>4, <4>1, <4>2
      <4>4. k \in DOMAIN w.fields /\ p \in Paths[w.fields[k]]
        BY <3>3, <4>1, <4>2, <4>3
      <4> QED  BY <3>6, <4>1, <4>4
    <3> QED  BY <3>8, <3>9 DEF w
  <2>4. CASE q # << >> /\ v.kind = "array"
    <3> DEFINE w == Stripped[v]
               ixs == DOMAIN v.items
               kept == [i \in ixs |-> Stripped[v.items[i]]]
    <3>1. w = Array(kept) /\ w \in Schemas
      BY <2>1, <2>4, StrippedIs
    <3> HIDE DEF w
    <3>2. w.kind = "array" /\ w.items = kept
      BY <3>1 DEF Array
    <3>3. DOMAIN w.items = ixs /\ \A i \in ixs : w.items[i] = Stripped[v.items[i]]
      BY <3>2
    <3> HIDE DEF kept
    <3>4. ASSUME NEW i \in ixs, NEW p
          PROVE  p \in Paths[Stripped[v.items[i]]] <=> p \in Paths[v.items[i]] /\ Plain(p)
      <4>1. v.items[i] \in Good
        BY <1>1, <2>4, Children
      <4> QED  BY <4>1
    <3>5. ASSUME NEW i \in ixs, NEW p \in Paths[v.items[i]], q = <<Of("index", i)>> \o p
          PROVE  Plain(q) <=> Plain(p)
      <4>1. IsSeq(p)
        BY <2>4, Children, PathsAreSeqs
      <4> DEFINE x == Of("index", i)
      <4>2. x.kind = "index"
        BY DEF Of
      <4> HIDE DEF x
      <4>3. Plain(<<x>> \o p) <=> (x.kind = "key" => x.of \notin Metadata) /\ Plain(p)
        BY <4>1, PlainCons
      <4> QED  BY <3>5, <4>2, <4>3 DEF x
    <3>6. q \in Paths[w] <=> \E i \in ixs : \E p \in Paths[Stripped[v.items[i]]] :
                                 q = <<Of("index", i)>> \o p
      <4>1. q \in Paths[w] <=> ByIndex(w, q)
        BY <2>4, <3>1, <3>2, ArrayPaths
      <4> QED  BY <3>3, <4>1 DEF ByIndex
    <3>7. q \in Paths[v] <=> \E i \in ixs : \E p \in Paths[v.items[i]] :
                                 q = <<Of("index", i)>> \o p
      <4>1. q \in Paths[v] <=> ByIndex(v, q)
        BY <2>4, ArrayPaths
      <4> QED  BY <4>1 DEF ByIndex
    <3>8. ASSUME q \in Paths[w]
          PROVE  q \in Paths[v] /\ Plain(q)
      <4>0. PICK i \in ixs : \E p \in Paths[Stripped[v.items[i]]] : q = <<Of("index", i)>> \o p
        BY <3>6, <3>8
      <4>1. PICK p \in Paths[Stripped[v.items[i]]] : q = <<Of("index", i)>> \o p
        BY <4>0
      <4>2. p \in Paths[v.items[i]] /\ Plain(p)
        BY <3>4, <4>1
      <4> QED  BY <3>5, <3>7, <4>1, <4>2
    <3>9. ASSUME q \in Paths[v], Plain(q)
          PROVE  q \in Paths[w]
      <4>0. PICK i \in ixs : \E p \in Paths[v.items[i]] : q = <<Of("index", i)>> \o p
        BY <3>7, <3>9
      <4>1. PICK p \in Paths[v.items[i]] : q = <<Of("index", i)>> \o p
        BY <4>0
      <4>2. p \in Paths[Stripped[v.items[i]]]
        BY <3>4, <3>5, <3>9, <4>1
      <4> QED  BY <3>6, <4>1, <4>2
    <3> QED  BY <3>8, <3>9 DEF w
  <2>5. CASE q # << >> /\ v.kind = "value"
    <3>1. Stripped[v] = v /\ Paths[v] = {<< >>}
      BY <2>5, StrippedIs, EmptyPath
    <3> QED  BY <2>5, <3>1
  <2> QED  BY <2>2, <2>3, <2>4, <2>5, Children
<1>2. Schemas \subseteq Good
  <2> HIDE DEF Good
  <2> QED  BY <1>1, ByDepth
<1> QED  BY <1>2

(* Which tools there are, with what is left of their schemas.              *)
LEMMA LazyIs ==
    ASSUME NEW i \in DOMAIN Tools, NEW wanted
    PROVE  LET t == Tools[i]  o == Lazy(t, wanted) IN
           /\ o.name = t.name
           /\ \/ o.params = t.params
              \/ t.name \in DOMAIN Registry /\ o.params = Registry[t.name]
              \/ o.params = [k \in DOMAIN t.params |-> Strip(t.params[k])]
<1> DEFINE t == Tools[i]
           R == [name : {t.name}, params : Seq(Schemas)]
           bare == [k \in DOMAIN t.params |-> Strip(t.params[k])]
<1>1. t \in R
  BY ToolsAssumption
<1>2. \A x : [t EXCEPT !.params = x].name = t.name /\ [t EXCEPT !.params = x].params = x
  <2> HIDE DEF t
  <2> QED  BY <1>1
<1>3. \/ Lazy(t, wanted) = t
      \/ t.name \in DOMAIN Registry /\ Lazy(t, wanted) = [t EXCEPT !.params = Registry[t.name]]
      \/ Lazy(t, wanted) = [t EXCEPT !.params = t.params]
      \/ Lazy(t, wanted) = [t EXCEPT !.params = bare]
  <2> HIDE DEF t
  <2> QED  BY DEF Lazy
<1> HIDE DEF bare, t
<1> QED  BY <1>2, <1>3 DEF bare, t

LEMMA OfferedIsRight ==
    ASSUME NEW h
    PROVE  IsOffer(Offered(Tools, h))
<1> DEFINE offer == Offered(Tools, h)
           wanted == Wanted(h)
           lazy == [i \in DOMAIN Tools |-> Lazy(Tools[i], wanted)]
           n == Len(Tools)
<1>1. n \in Nat /\ DOMAIN Tools = 1..n
  BY ToolsAssumption DEF IsSeq
<1>2. \/ offer = Tools
      \/ offer = lazy
      \/ /\ \A i \in DOMAIN Tools : Tools[i].name # PhantomTool
         /\ offer = Append(lazy, Phantom)
  BY DEF Offered
<1> HIDE DEF offer, wanted
<1>3. ASSUME NEW i \in DOMAIN Tools
      PROVE  /\ lazy[i].name = Tools[i].name
             /\ \/ lazy[i].params = Tools[i].params
                \/ /\ Tools[i].name \in DOMAIN Registry
                   /\ lazy[i].params = Registry[Tools[i].name]
                \/ \A k \in DOMAIN Tools[i].params :
                      Paths[lazy[i].params[k]] = {p \in Paths[Tools[i].params[k]] : Plain(p)}
  <2> DEFINE t == Tools[i]
             o == Lazy(t, wanted)
  <2>1. lazy[i] = o
    OBVIOUS
  <2>2. /\ o.name = t.name
        /\ \/ o.params = t.params
           \/ t.name \in DOMAIN Registry /\ o.params = Registry[t.name]
           \/ o.params = [k \in DOMAIN t.params |-> Strip(t.params[k])]
    BY LazyIs
  <2> HIDE DEF o, lazy
  <2>3. t.params \in Seq(Schemas)
    BY ToolsAssumption
  <2>4. ASSUME NEW k \in DOMAIN t.params
        PROVE  t.params[k] \in Schemas
    BY <2>3
  <2> HIDE DEF t
  <2>5. ASSUME NEW k \in DOMAIN t.params, o.params = [j \in DOMAIN t.params |-> Strip(t.params[j])]
        PROVE  Paths[o.params[k]] = {p \in Paths[t.params[k]] : Plain(p)}
    <3>1. o.params[k] = Stripped[t.params[k]]
      BY <2>5 DEF Strip
    <3> QED  BY <2>4, <3>1, StrippedPaths
  <2> QED  BY <2>1, <2>2, <2>5 DEF t
<1>4. lazy \in Seq(ToSet(lazy)) /\ Len(lazy) = n
  <2>1. DOMAIN lazy = 1..n /\ lazy = [i \in DOMAIN lazy |-> lazy[i]]
    BY <1>1
  <2> HIDE DEF lazy
  <2>2. IsSeq(lazy)
    BY <1>1, <2>1, MappedIsSeq
  <2> QED  BY <1>1, <2>1, <2>2 DEF IsSeq
<1>5. DOMAIN lazy = 1..n
  BY <1>1
<1> HIDE DEF lazy
<1>6. /\ \A i \in 1..n : offer[i] = Tools[i] \/ offer[i] = lazy[i]
      /\ \/ DOMAIN offer = 1..n
         \/ /\ DOMAIN offer = 1..(n + 1) /\ offer[n + 1] = Phantom
            /\ \A i \in 1..n : Tools[i].name # PhantomTool
  <2>1. CASE offer = Append(lazy, Phantom) /\ \A i \in DOMAIN Tools : Tools[i].name # PhantomTool
    <3>1. /\ Len(offer) = n + 1 /\ DOMAIN offer = 1..(n + 1) /\ offer[n + 1] = Phantom
          /\ \A i \in 1..n : offer[i] = lazy[i]
      BY <1>1, <1>4, <1>5, <2>1, AppendIsSeq DEF IsSeq
    <3> QED  BY <1>1, <2>1, <3>1
  <2> QED  BY <1>1, <1>2, <1>5, <2>1
<1>7. \A i \in 1..n : offer[i].name = Tools[i].name
  BY <1>1, <1>3, <1>6
<1>8. Phantom.name = PhantomTool
  BY DEF Phantom
<1> DEFINE own == {i \in DOMAIN offer : offer[i].name = PhantomTool}
<1>9. Cardinality(own) <= 1
  <2>1. ASSUME NEW i \in own, NEW j \in own
        PROVE  i = j
    <3>1. CASE DOMAIN offer = 1..n
      <4>1. /\ i \in DOMAIN Tools /\ j \in DOMAIN Tools
            /\ Tools[i].name = PhantomTool /\ Tools[j].name = PhantomTool
        BY <1>1, <1>7, <3>1
      <4> QED  BY <4>1, ToolsAssumption
    <3>2. CASE DOMAIN offer = 1..(n + 1) /\ \A k \in 1..n : Tools[k].name # PhantomTool
      <4>1. i = n + 1 /\ j = n + 1
        BY <1>1, <1>7, <3>2
      <4> QED  BY <4>1
    <3> QED  BY <1>6, <3>1, <3>2
  <2>2. own = {} \/ \E x \in own : own = {x}
    BY <2>1
  <2> HIDE DEF own
  <2>3. CASE own = {}
    BY <2>3, FS_EmptySet
  <2>4. ASSUME NEW x \in own, own = {x}
        PROVE  Cardinality(own) <= 1
    <3>1. Cardinality({x}) = 1
      BY FS_Singleton
    <3> QED  BY <2>4, <3>1
  <2> QED  BY <2>2, <2>3, <2>4
<1>10. ASSUME NEW i \in DOMAIN offer, i > Len(Tools)
       PROVE  offer[i].name = PhantomTool
  BY <1>1, <1>6, <1>8, <1>10 DEF n
<1>11. ASSUME NEW i \in DOMAIN Tools
       PROVE  /\ offer[i].name = Tools[i].name
              /\ \/ offer[i].params = Tools[i].params
                 \/ /\ Tools[i].name \in DOMAIN Registry
                    /\ offer[i].params = Registry[Tools[i].name]
                 \/ \A k \in DOMAIN Tools[i].params :
                       Paths[offer[i].params[k]] = {p \in Paths[Tools[i].params[k]] : Plain(p)}
  <2>1. CASE offer[i] = Tools[i]
    BY <2>1
  <2>2. CASE offer[i] = lazy[i]
    BY <1>3, <2>2
  <2> QED  BY <1>1, <1>6, <2>1, <2>2
<1> QED  BY <1>9, <1>10, <1>11 DEF IsOffer, offer

LEMMA TalkAlways == Spec => []TalkInv
BY TalkInit, TalkStep, PTL DEF Spec

(* Whatever is written, answered, retried or routed, and for as long as    *)
(* the conversation lasts, what goes to Anthropic alternates between user  *)
(* and assistant (anthropic.rs, openai.rs).                                *)
THEOREM AlternatesHolds == Spec => []Alternates
<1>1. TalkInv => Alternates
  BY DEF TalkInv
<1> QED  BY <1>1, TalkAlways, PTL

(* Nor is anything of the history lost on the way, added to it or moved:   *)
(* each text, image, call and result that anyone but the system put into   *)
(* it, at whatever length, is there in its order (openai.rs, anthropic.rs).*)
THEOREM NothingIsEverLost == Spec => []NothingIsLost
<1>1. TalkInv => NothingIsLost
  BY DEF TalkInv
<1> QED  BY <1>1, TalkAlways, PTL

(* No two requests of a conversation with histories of different lengths   *)
(* are looked up by the words of the same message (proxy.rs).              *)
THEOREM NoEchoHolds == Spec => []NoEcho
<1>1. TalkInv => NoEcho
  BY DEF TalkInv, TurnsInv, NoEcho
<1> QED  BY <1>1, TalkAlways, PTL

(* Whatever the user wrote as legible text on any turn is searched for     *)
(* personal data on all later ones, if what comes up to it fits into the   *)
(* budget: no message, and no such block of one, is passed over.           *)
THEOREM ScanCoversHolds == Spec => []ScanCovers
<1>1. TalkInv => ScanCovers
  BY ScannedCovers DEF TalkInv, ScanCovers
<1> QED  BY <1>1, TalkAlways, PTL

(* Whatever tools an agent has, and however deep their schemas are nested, *)
(* each goes with the request, in its place, under its name, and with its  *)
(* schema less the descriptions, or all of it when the model asked for it; *)
(* get_tool_details comes once (tool_router.rs).                           *)
THEOREM ToolsAreOfferedHolds == Spec => []ToolsAreOffered
<1>1. Init => ToolsAreOffered
  BY DEF Init, ToolsAreOffered
<1>2. ToolsAreOffered /\ [Next]_vars => ToolsAreOffered'
  <2> SUFFICES ASSUME ToolsAreOffered, [Next]_vars
               PROVE  ToolsAreOffered'
    OBVIOUS
  <2>1. CASE Send
    <3>1. offered' = Offered(Tools, history)
      BY <2>1 DEF Send
    <3>2. IsOffer(offered')
      BY <3>1, OfferedIsRight
    <3> QED  BY <3>2 DEF ToolsAreOffered, IsOffer
  <2>2. CASE UNCHANGED offered
    BY <2>2 DEF ToolsAreOffered
  <2>3. Send \/ UNCHANGED offered
    BY DEF Next, vars, Write, Answer, Build, Fail, Receive
  <2> QED  BY <2>1, <2>2, <2>3
<1> QED  BY <1>1, <1>2, PTL DEF Spec
====
