---- MODULE Loops ----
(***************************************************************************)
(* What the proofs know of loops.  A loop of the code over a sequence is a *)
(* recursive function on 0..n; that there is such a function, and what     *)
(* holds of it up to n, is shown by least counterexample.                  *)
(***************************************************************************)
EXTENDS Naturals, Sequences, SequencesExt, SequenceTheorems, WellFoundedInduction, TLAPS

LEMMA LeastOf ==
    ASSUME NEW T \in SUBSET Nat, T # {}
    PROVE  \E n \in T : \A k \in T : n <= k
<1> DEFINE Less == {ss \in Nat \X Nat : ss[1] < ss[2]}
<1>1. IsWellFoundedOn(Less, Nat)
  BY NatLessThanWellFounded DEF OpToRel
<1>2. PICK n \in T : \A k \in T : ~(<<k, n>> \in Less)
  <2> HIDE DEF Less
  <2> QED  BY <1>1, WFMin
<1>3. ASSUME NEW k \in T
      PROVE  n <= k
  <2>1. n \in Nat /\ k \in Nat
    OBVIOUS
  <2>2. ~(k < n)
    BY <1>2, <2>1
  <2> QED  BY <2>1, <2>2
<1> QED  BY <1>3

LEMMA UpTo ==
    ASSUME NEW n \in Nat, NEW T, 0 \in T, \A i \in 1..n : i - 1 \in T => i \in T
    PROVE  0..n \subseteq T
<1> SUFFICES ASSUME NEW m \in 0..n, m \notin T
             PROVE  FALSE
  OBVIOUS
<1> DEFINE Out == {i \in 0..n : i \notin T}
<1>1. PICK k \in Out : \A j \in Out : k <= j
  <2>1. Out \in SUBSET Nat /\ Out # {}
    OBVIOUS
  <2> HIDE DEF Out
  <2> QED  BY <2>1, LeastOf
<1>2. k \in 1..n /\ k - 1 \notin Out
  BY <1>1
<1> QED  BY <1>1, <1>2

Ends(n, S, b, step) ==
    \E f \in [0..n -> S] : f[0] = b /\ \A i \in 1..n : f[i] = step[<<i, f[i - 1]>>]

(* A loop over 1..n with a state in S ends.                                *)
LEMMA LoopExists ==
    ASSUME NEW n \in Nat, NEW S, NEW b \in S, NEW step \in [(1..n) \X S -> S]
    PROVE  Ends(n, S, b, step)
<1> DEFINE Runs(k) == {f \in [0..k -> S] :
                           f[0] = b /\ \A i \in 1..k : f[i] = step[<<i, f[i - 1]>>]}
           T == {k \in 0..n : Runs(k) # {}}
<1>1. 0 \in T
  <2>1. [i \in 0..0 |-> b] \in Runs(0)
    OBVIOUS
  <2> QED  BY <2>1
<1>2. ASSUME NEW k \in 1..n, k - 1 \in T
      PROVE  k \in T
  <2>1. PICK f : f \in Runs(k - 1)
    BY <1>2
  <2> DEFINE g == [i \in 0..k |-> IF i = k THEN step[<<k, f[k - 1]>>] ELSE f[i]]
  <2>2. /\ f \in [0..(k - 1) -> S] /\ f[0] = b
        /\ \A i \in 1..(k - 1) : f[i] = step[<<i, f[i - 1]>>]
    BY <2>1
  <2>3. g \in [0..k -> S]
    BY <2>2
  <2>4. g[k] = step[<<k, f[k - 1]>>] /\ \A i \in 0..(k - 1) : g[i] = f[i]
    OBVIOUS
  <2> HIDE DEF g
  <2>5. ASSUME NEW i \in 1..k
        PROVE  g[i] = step[<<i, g[i - 1]>>]
    <3>1. CASE i = k
      BY <2>4, <3>1
    <3>2. CASE i # k
      <4>1. i \in 1..(k - 1) /\ i - 1 \in 0..(k - 1) /\ i \in 0..(k - 1)
        BY <3>2
      <4> QED  BY <2>2, <2>4, <4>1
    <3> QED  BY <3>1, <3>2
  <2>6. g \in Runs(k)
    BY <2>2, <2>3, <2>4, <2>5
  <2> HIDE DEF Runs
  <2>7. Runs(k) # {}
    BY <2>6
  <2> QED  BY <2>7
<1>3. n \in T
  <2> HIDE DEF T
  <2>1. 0..n \subseteq T
    BY <1>1, <1>2, UpTo
  <2> QED  BY <2>1
<1> QED  BY <1>3 DEF Ends

-----------------------------------------------------------------------------
(* The loop of FlattenSeq. *)

LEMMA ConcatCovers ==
    ASSUME NEW S, NEW s \in Seq(S), NEW t \in Seq(S)
    PROVE  s \o t \in Seq(S) /\ ToSet(s) \subseteq ToSet(s \o t) /\ ToSet(t) \subseteq ToSet(s \o t)
<1> DEFINE c == s \o t
<1>1. /\ c \in Seq(S) /\ Len(c) = Len(s) + Len(t) /\ DOMAIN c = 1..(Len(s) + Len(t))
      /\ \A i \in 1..(Len(s) + Len(t)) : c[i] = IF i <= Len(s) THEN s[i] ELSE t[i - Len(s)]
  BY ConcatProperties
<1>2. Len(s) \in Nat /\ Len(t) \in Nat /\ DOMAIN s = 1..Len(s) /\ DOMAIN t = 1..Len(t)
  OBVIOUS
<1> HIDE DEF c
<1>3. \A i \in DOMAIN s : i \in DOMAIN c /\ c[i] = s[i]
  BY <1>1, <1>2
<1>4. \A i \in DOMAIN t : Len(s) + i \in DOMAIN c /\ c[Len(s) + i] = t[i]
  BY <1>1, <1>2
<1>5. ToSet(s) \subseteq ToSet(c) /\ ToSet(t) \subseteq ToSet(c)
  BY <1>3, <1>4 DEF ToSet
<1> QED  BY <1>1, <1>5 DEF c

(* Gathers(ss, S, f): f is that loop, with values in S.                    *)
Gathers(ss, S, f) ==
    /\ f \in [0..Len(ss) -> Seq(S)] /\ f[0] = << >>
    /\ \A i \in 1..Len(ss) : f[i] = f[i - 1] \o ss[i]

LEMMA FlattenGathers ==
    ASSUME NEW S, NEW ss \in Seq(Seq(S))
    PROVE  \E f : Gathers(ss, S, f) /\ FlattenSeq(ss) = f[Len(ss)]
<1> DEFINE n == Len(ss)
           Q == Seq(S)
           step == [x \in (1..n) \X Q |-> x[2] \o ss[x[1]]]
           Next1(x, i) == x \o ss[i]
           Loop(f) == f = [i \in 1..n |-> IF i = 1 THEN ss[i] ELSE Next1(f[i - 1], i)]
           flat == CHOOSE f : Loop(f)
           b == << >>
<1>1. n \in Nat /\ DOMAIN ss = 1..n /\ \A i \in 1..n : ss[i] \in Q
  OBVIOUS
<1>2. b \in Q /\ \A i \in 1..n : Next1(b, i) = ss[i]
  BY <1>1, ConcatEmptySeq, EmptySeq
<1>3. \A i \in 1..n, x \in Q : Next1(x, i) \in Q
  BY <1>1, ConcatProperties
<1>b. b = << >>
  OBVIOUS
<1> HIDE DEF Q, b
<1>4. step \in [(1..n) \X Q -> Q] /\ \A i \in 1..n, x \in Q : step[<<i, x>>] = Next1(x, i)
  BY <1>3
<1> HIDE DEF step, Next1, n
<1>5. PICK f \in [0..n -> Q] : f[0] = b /\ \A i \in 1..n : f[i] = step[<<i, f[i - 1]>>]
  <2>1. Ends(n, Q, b, step)
    BY <1>1, <1>2, <1>4, LoopExists
  <2> QED  BY <2>1 DEF Ends
<1>6. \A i \in 1..n : f[i] = Next1(f[i - 1], i)
  <2> TAKE i \in 1..n
  <2>1. f[i - 1] \in Q
    BY <1>1
  <2> QED  BY <1>4, <1>5, <2>1
<1>7. Gathers(ss, S, f)
  BY <1>5, <1>6, <1>b DEF Gathers, Next1, n, Q
<1>8. CASE n = 0
  <2>1. ss = << >>
    BY <1>8, EmptySeq DEF n
  <2> QED  BY <1>5, <1>7, <1>8, <1>b, <2>1 DEF FlattenSeq, n
<1>9. CASE n # 0
  <2>1. FlattenSeq(ss) = flat[n]
    BY <1>9 DEF FlattenSeq, n, Next1
  <2> DEFINE g == [i \in 1..n |-> f[i]]
  <2>2. \A i \in 1..n : g[i] = IF i = 1 THEN ss[i] ELSE Next1(g[i - 1], i)
    <3> TAKE i \in 1..n
    <3>1. CASE i = 1
      <4>1. f[1] = Next1(f[0], 1) /\ f[0] = b
        BY <1>1, <1>5, <1>6, <3>1
      <4> QED  BY <1>2, <3>1, <4>1
    <3>2. CASE i # 1
      <4>1. i - 1 \in 1..n
        BY <1>1, <3>2
      <4> QED  BY <1>6, <3>2, <4>1
    <3> QED  BY <3>1, <3>2
  <2>3. g = [i \in 1..n |-> g[i]] /\ \A i \in 1..n : g[i] = f[i]
    OBVIOUS
  <2> HIDE DEF g
  <2>4. Loop(g)
    BY <2>2, <2>3
  <2>5. Loop(flat)
    BY <2>4
  <2> HIDE DEF flat
  <2>6. flat[1] = ss[1] /\ \A i \in 1..n : i # 1 => flat[i] = Next1(flat[i - 1], i)
    BY <1>1, <1>9, <2>5
  <2> DEFINE T == {0} \cup {i \in 1..n : flat[i] = f[i]}
  <2>7. ASSUME NEW i \in 1..n, i - 1 \in T
        PROVE  i \in T
    <3>1. CASE i = 1
      BY <1>2, <1>5, <1>6, <2>6, <3>1
    <3>2. CASE i # 1
      <4>1. i - 1 \in 1..n /\ flat[i - 1] = f[i - 1]
        BY <1>1, <2>7, <3>2
      <4> QED  BY <1>6, <2>6, <3>2, <4>1
    <3> QED  BY <3>1, <3>2
  <2>8. n \in T
    <3>1. 0 \in T
      OBVIOUS
    <3> HIDE DEF T
    <3>2. 0..n \subseteq T
      BY <1>1, <2>7, <3>1, UpTo
    <3> QED  BY <1>1, <3>2
  <2>9. flat[n] = f[n]
    BY <1>9, <2>8
  <2> QED  BY <1>7, <2>1, <2>9 DEF n
<1> QED  BY <1>8, <1>9

(* What is where in a concatenation.                                       *)
Joined(c, p, m) ==
    /\ Len(p) \in Nat /\ Len(m) \in Nat /\ Len(c) = Len(p) + Len(m)
    /\ \A k \in 1..Len(p) : c[k] = p[k]
    /\ \A k \in 1..Len(m) : c[Len(p) + k] = m[k]

LEMMA ConcatAt ==
    ASSUME NEW S, NEW p \in Seq(S), NEW m \in Seq(S)
    PROVE  p \o m \in Seq(S) /\ Joined(p \o m, p, m)
<1> DEFINE c == p \o m
<1>1. /\ c \in Seq(S) /\ Len(c) = Len(p) + Len(m)
      /\ \A k \in 1..(Len(p) + Len(m)) : c[k] = IF k <= Len(p) THEN p[k] ELSE m[k - Len(p)]
  BY ConcatProperties
<1>2. Len(p) \in Nat /\ Len(m) \in Nat
  OBVIOUS
<1> HIDE DEF c
<1>3. ASSUME NEW k \in 1..Len(p)
      PROVE  c[k] = p[k]
  <2>1. k \in 1..(Len(p) + Len(m)) /\ k <= Len(p)
    BY <1>2
  <2> QED  BY <1>1, <2>1
<1>4. ASSUME NEW k \in 1..Len(m)
      PROVE  c[Len(p) + k] = m[k]
  <2>1. /\ Len(p) + k \in 1..(Len(p) + Len(m)) /\ ~(Len(p) + k <= Len(p))
        /\ (Len(p) + k) - Len(p) = k
    BY <1>2
  <2> QED  BY <1>1, <2>1
<1> QED  BY <1>1, <1>2, <1>3, <1>4 DEF c, Joined

(* What each step of the loop adds.                                        *)
Steps(ss, S, f) ==
    \A i \in 1..Len(ss) :
        /\ f[i - 1] \in Seq(S) /\ f[i] \in Seq(S) /\ ss[i] \in Seq(S)
        /\ f[i] = f[i - 1] \o ss[i]
        /\ Len(f[i - 1]) \in Nat /\ Len(ss[i]) \in Nat
        /\ Len(f[i]) = Len(f[i - 1]) + Len(ss[i])
        /\ \A k \in 1..Len(f[i - 1]) : f[i][k] = f[i - 1][k]
        /\ \A k \in 1..Len(ss[i]) : f[i][Len(f[i - 1]) + k] = ss[i][k]

LEMMA GathersSteps ==
    ASSUME NEW S, NEW ss \in Seq(Seq(S)), NEW f, Gathers(ss, S, f)
    PROVE  Steps(ss, S, f)
<1> SUFFICES ASSUME NEW i \in 1..Len(ss)
             PROVE  /\ f[i - 1] \in Seq(S) /\ f[i] \in Seq(S) /\ ss[i] \in Seq(S)
                    /\ f[i] = f[i - 1] \o ss[i]
                    /\ Len(f[i - 1]) \in Nat /\ Len(ss[i]) \in Nat
                    /\ Len(f[i]) = Len(f[i - 1]) + Len(ss[i])
                    /\ \A k \in 1..Len(f[i - 1]) : f[i][k] = f[i - 1][k]
                    /\ \A k \in 1..Len(ss[i]) : f[i][Len(f[i - 1]) + k] = ss[i][k]
  BY DEF Steps
<1> DEFINE p == f[i - 1]
           m == ss[i]
           c == f[i]
<1>1. Len(ss) \in Nat /\ i \in 0..Len(ss) /\ i - 1 \in 0..Len(ss) /\ m \in Seq(S)
  OBVIOUS
<1>2. p \in Seq(S) /\ c \in Seq(S) /\ c = p \o m
  BY <1>1 DEF Gathers
<1> HIDE DEF p, m, c
<1>3. Joined(c, p, m)
  BY <1>1, <1>2, ConcatAt
<1> QED  BY <1>1, <1>2, <1>3 DEF p, m, c, Joined

(* A flattened sequence has all that was in its members.                   *)
LEMMA FlattenCovers ==
    ASSUME NEW S, NEW ss \in Seq(Seq(S))
    PROVE  /\ FlattenSeq(ss) \in Seq(S)
           /\ \A i \in DOMAIN ss : ToSet(ss[i]) \subseteq ToSet(FlattenSeq(ss))
<1> DEFINE n == Len(ss)
<1>1. PICK f : Gathers(ss, S, f) /\ FlattenSeq(ss) = f[n]
  BY FlattenGathers
<1>2. n \in Nat /\ DOMAIN ss = 1..n /\ \A i \in 1..n : ss[i] \in Seq(S)
  OBVIOUS
<1>s. \A i \in 1..n :
         /\ f[i - 1] \in Seq(S) /\ f[i] \in Seq(S) /\ ss[i] \in Seq(S)
         /\ f[i] = f[i - 1] \o ss[i]
         /\ Len(f[i - 1]) \in Nat /\ Len(ss[i]) \in Nat
         /\ Len(f[i]) = Len(f[i - 1]) + Len(ss[i])
         /\ \A k \in 1..Len(f[i - 1]) : f[i][k] = f[i - 1][k]
         /\ \A k \in 1..Len(ss[i]) : f[i][Len(f[i - 1]) + k] = ss[i][k]
  <2>1. Steps(ss, S, f)
    BY <1>1, GathersSteps
  <2> QED  BY <2>1 DEF Steps
<1> HIDE DEF n
<1> DEFINE T == {j \in 0..n : \A i \in 1..j : ToSet(ss[i]) \subseteq ToSet(f[j])}
<1>3. ASSUME NEW j \in 1..n, j - 1 \in T
      PROVE  j \in T
  <2>1. f[j - 1] \in Seq(S) /\ f[j] = f[j - 1] \o ss[j] /\ ss[j] \in Seq(S)
    BY <1>s
  <2>2. /\ ToSet(f[j - 1]) \subseteq ToSet(f[j]) /\ ToSet(ss[j]) \subseteq ToSet(f[j])
    BY <2>1, ConcatCovers
  <2>3. \A i \in 1..j : i \in 1..(j - 1) \/ i = j
    OBVIOUS
  <2> QED  BY <1>3, <2>2, <2>3
<1>4. n \in T
  <2>1. 0 \in T
    BY <1>2
  <2> HIDE DEF T
  <2>2. 0..n \subseteq T
    BY <1>2, <1>3, <2>1, UpTo
  <2> QED  BY <1>2, <2>2
<1>5. f[n] \in Seq(S)
  <2>1. n \in 0..n
    BY <1>2
  <2> QED  BY <1>1, <2>1 DEF Gathers, n
<1> QED  BY <1>1, <1>2, <1>4, <1>5

(* Whatever goes through the steps of the loop ends as it does.            *)
LEMMA FlattenIs ==
    ASSUME NEW S, NEW ss \in Seq(Seq(S)), NEW f, f[0] = << >>,
           \A i \in 1..Len(ss) : f[i] = f[i - 1] \o ss[i]
    PROVE  FlattenSeq(ss) = f[Len(ss)]
<1> DEFINE n == Len(ss)
<1>1. PICK g : Gathers(ss, S, g) /\ FlattenSeq(ss) = g[n]
  BY FlattenGathers
<1>2. n \in Nat
  OBVIOUS
<1>3. /\ g[0] = << >> /\ \A i \in 1..n : g[i] = g[i - 1] \o ss[i]
      /\ \A i \in 1..n : f[i] = f[i - 1] \o ss[i]
  BY <1>1 DEF Gathers
<1> HIDE DEF n
<1> DEFINE T == {j \in 0..n : f[j] = g[j]}
<1>4. 0 \in T /\ \A i \in 1..n : i - 1 \in T => i \in T
  <2>1. 0 \in T
    BY <1>2, <1>3
  <2>2. ASSUME NEW i \in 1..n, i - 1 \in T
        PROVE  i \in T
    <3>1. f[i - 1] = g[i - 1]
      BY <2>2
    <3>2. g[i] = g[i - 1] \o ss[i] /\ f[i] = f[i - 1] \o ss[i]
      BY <1>3
    <3>3. f[i] = g[i]
      BY <3>1, <3>2
    <3> QED  BY <1>2, <3>3
  <2> QED  BY <2>1, <2>2
<1>5. n \in T
  <2> HIDE DEF T
  <2>1. 0..n \subseteq T
    BY <1>2, <1>4, UpTo
  <2> QED  BY <1>2, <2>1
<1> QED  BY <1>1, <1>5 DEF n

(* With one more member.                                                   *)
LEMMA FlattenAppend ==
    ASSUME NEW S, NEW ss \in Seq(Seq(S)), NEW x \in Seq(S)
    PROVE  FlattenSeq(Append(ss, x)) = FlattenSeq(ss) \o x
<1> DEFINE n == Len(ss)
           t == Append(ss, x)
<1>1. PICK f : Gathers(ss, S, f) /\ FlattenSeq(ss) = f[n]
  BY FlattenGathers
<1>2. n \in Nat
  OBVIOUS
<1>3. /\ t \in Seq(Seq(S)) /\ Len(t) = n + 1 /\ t[n + 1] = x
      /\ \A i \in 1..n : t[i] = ss[i]
  <2> DEFINE Q == Seq(S)
  <2>1. ss \in Seq(Q) /\ x \in Q
    OBVIOUS
  <2> HIDE DEF Q
  <2>2. t \in Seq(Q) /\ Len(t) = n + 1 /\ t[n + 1] = x /\ \A i \in 1..n : t[i] = ss[i]
    BY <2>1
  <2> QED  BY <2>2 DEF Q
<1>4. f[0] = << >> /\ \A i \in 1..n : f[i] = f[i - 1] \o ss[i]
  BY <1>1 DEF Gathers
<1> HIDE DEF n, t
<1> DEFINE last == f[n] \o x
           g == [i \in 0..(n + 1) |-> IF i = n + 1 THEN last ELSE f[i]]
<1>5. g[0] = << >> /\ g[n + 1] = last /\ \A i \in 0..n : g[i] = f[i]
  BY <1>2, <1>4
<1>6. \A i \in 1..(n + 1) : g[i] = g[i - 1] \o t[i]
  <2> TAKE i \in 1..(n + 1)
  <2> HIDE DEF g
  <2>1. CASE i = n + 1
    <3>1. i - 1 = n /\ n \in 0..n
      BY <1>2, <2>1
    <3>2. g[i - 1] = f[n] /\ t[i] = x /\ g[i] = last
      BY <1>3, <1>5, <2>1, <3>1
    <3> QED  BY <3>2
  <2>2. CASE i # n + 1
    <3>1. i \in 1..n /\ i \in 0..n /\ i - 1 \in 0..n
      BY <1>2, <2>2
    <3> QED  BY <1>3, <1>4, <1>5, <3>1
  <2> QED  BY <2>1, <2>2
<1> HIDE DEF g, last
<1>7. FlattenSeq(t) = g[Len(t)]
  BY <1>3, <1>5, <1>6, FlattenIs
<1> QED  BY <1>1, <1>3, <1>5, <1>7 DEF last, t, n

(* What is from a to b in a flattened sequence comes from one member.      *)
OneMember(ss, a, b) ==
    \E i \in DOMAIN ss, o \in Nat :
        /\ o < a /\ b <= o + Len(ss[i])
        /\ \A k \in 1..Len(ss[i]) : FlattenSeq(ss)[o + k] = ss[i][k]

(* If every member ends in a mark, that is so of what has no mark.         *)
LEMMA FlattenWindow ==
    ASSUME NEW S, NEW ss \in Seq(Seq(S)), NEW mark,
           \A i \in DOMAIN ss : Len(ss[i]) > 0 /\ ss[i][Len(ss[i])] = mark,
           NEW a \in Nat, NEW b \in Nat, 0 < a, a <= b, b <= Len(FlattenSeq(ss)),
           \A k \in a..b : FlattenSeq(ss)[k] # mark
    PROVE  OneMember(ss, a, b)
<1> DEFINE n == Len(ss)
<1>1. PICK f : Gathers(ss, S, f) /\ FlattenSeq(ss) = f[n]
  BY FlattenGathers
<1>2. n \in Nat /\ DOMAIN ss = 1..n /\ \A i \in 1..n : ss[i] \in Seq(S)
  OBVIOUS
<1>s. \A i \in 1..n :
         /\ f[i - 1] \in Seq(S) /\ f[i] \in Seq(S) /\ ss[i] \in Seq(S)
         /\ f[i] = f[i - 1] \o ss[i]
         /\ Len(f[i - 1]) \in Nat /\ Len(ss[i]) \in Nat
         /\ Len(f[i]) = Len(f[i - 1]) + Len(ss[i])
         /\ \A k \in 1..Len(f[i - 1]) : f[i][k] = f[i - 1][k]
         /\ \A k \in 1..Len(ss[i]) : f[i][Len(f[i - 1]) + k] = ss[i][k]
  <2>1. Steps(ss, S, f)
    BY <1>1, GathersSteps
  <2> QED  BY <2>1 DEF Steps
<1> HIDE DEF n
<1> DEFINE Within(j, i, o) ==
               /\ o < a /\ b <= o + Len(ss[i]) /\ o + Len(ss[i]) <= Len(f[j])
               /\ \A k \in 1..Len(ss[i]) : f[j][o + k] = ss[i][k]
           Clean(j) == b <= Len(f[j]) /\ \A k \in a..b : f[j][k] # mark
           Found(j) == \E i \in 1..j, o \in Nat : Within(j, i, o)
           T == {j \in 0..n : Clean(j) => Found(j)}
<1>3. Len(f[0]) = 0
  BY <1>1, EmptySeq DEF Gathers
<1>4. \A j \in 1..n : Len(ss[j]) > 0 /\ ss[j][Len(ss[j])] = mark
  BY <1>2
<1>5. ASSUME NEW j \in 1..n, j - 1 \in T
      PROVE  j \in T
  <2> DEFINE l == Len(f[j - 1])
             d == Len(ss[j])
  <2>1. /\ l \in Nat /\ d \in Nat /\ d > 0 /\ Len(f[j]) = l + d
        /\ \A k \in 1..l : f[j][k] = f[j - 1][k]
        /\ \A k \in 1..d : f[j][l + k] = ss[j][k]
    BY <1>4, <1>s
  <2>2. ss[j][d] = mark
    BY <1>4
  <2> HIDE DEF l, d
  <2> HIDE DEF Clean, Found
  <2> SUFFICES ASSUME Clean(j)
               PROVE  Found(j)
    OBVIOUS
  <2> USE DEF Clean
  <2>3. CASE b <= l
    <3>1. \A k \in a..b : f[j - 1][k] # mark
      BY <2>1, <2>3
    <3>2. PICK i \in 1..(j - 1), o \in Nat : Within(j - 1, i, o)
      BY <1>5, <2>3, <3>1 DEF l, Found
    <3>3. Len(ss[i]) \in Nat /\ i \in 1..j
      BY <1>2
    <3>4. \A k \in 1..Len(ss[i]) : o + k \in 1..l
      BY <3>2, <3>3, <2>1 DEF l
    <3>5. \A k \in 1..Len(ss[i]) : f[j][o + k] = ss[i][k]
      BY <2>1, <3>2, <3>4
    <3>6. o + Len(ss[i]) <= Len(f[j])
      BY <2>1, <3>2, <3>3 DEF l
    <3>7. Within(j, i, o)
      BY <3>2, <3>5, <3>6
    <3> HIDE DEF Within
    <3> QED  BY <3>3, <3>7 DEF Found
  <2>4. CASE l < a
    <3>1. Within(j, j, l)
      BY <2>1, <2>4 DEF d
    <3> HIDE DEF Within
    <3>2. j \in 1..j
      OBVIOUS
    <3> QED  BY <2>1, <3>1, <3>2 DEF Found
  <2>5. CASE a <= l /\ l < b
    <3>1. j # 1
      <4>1. j = 1 => l = 0
        BY <1>3 DEF l
      <4> QED  BY <2>5, <4>1
    <3>2. j - 1 \in 1..n
      BY <1>2, <3>1
    <3>3. f[j - 1][l] = mark
      <4> DEFINE e == Len(ss[j - 1])
                 g == Len(f[j - 1 - 1])
      <4>1. l = g + e /\ g \in Nat /\ e \in Nat /\ e > 0 /\ ss[j - 1][e] = mark
            /\ \A k \in 1..e : f[j - 1][g + k] = ss[j - 1][k]
        BY <1>4, <1>s, <3>2 DEF l
      <4> HIDE DEF e, g
      <4> QED  BY <4>1
    <3>4. l \in 1..l /\ l \in a..b
      BY <2>1, <2>5
    <3> QED  BY <2>1, <3>3, <3>4
  <2> QED  BY <2>1, <2>3, <2>4, <2>5
<1>6. n \in T
  <2>1. 0 \in T
    <3>1. ~(b <= Len(f[0]))
      BY <1>3
    <3> QED  BY <1>2, <3>1
  <2> HIDE DEF T
  <2>2. 0..n \subseteq T
    BY <1>2, <1>5, <2>1, UpTo
  <2> QED  BY <1>2, <2>2
<1>7. PICK i \in 1..n, o \in Nat : Within(n, i, o)
  <2>1. Clean(n)
    BY <1>1
  <2> HIDE DEF Clean, Within
  <2> QED  BY <1>6, <2>1
<1> QED  BY <1>1, <1>2, <1>7 DEF OneMember
====
