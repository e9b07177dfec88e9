---- MODULE Ingress_proofs ----
(***************************************************************************)
(* Proofs about the way of a request to the proxy: whichever layers it has *)
(* passed and however requests interleave, it is one tenant's request; the *)
(* name scanner gives names only; and the state of a tool that a tenant is *)
(* shown is of its own making.                                             *)
(***************************************************************************)
EXTENDS Ingress, Loops, TLAPS

(* Every variable that is kept by request is a function on the requests.   *)
Shaped ==
    /\ ask \in [Request -> Arrivals]
    /\ DOMAIN pc = Request /\ DOMAIN header = Request /\ DOMAIN claims = Request
    /\ DOMAIN balance = Request /\ DOMAIN charged = Request
    /\ DOMAIN session = Request /\ DOMAIN scenario = Request
    /\ DOMAIN warming = Request /\ DOMAIN shown = Request

Inside == {"authenticated", "billed", "charged", "proxied", "administering", "shown"}

(* Past authentication the header and the claims are the credential's, in  *)
(* one spelling each, and stay so.                                         *)
Identified(r) ==
    /\ pc[r] \in Inside => header[r] = Id(Owner(r)) /\ claims[r].tenant[1] = Owner(r)
    /\ claims[r] # Nothing => claims[r].tenant[1] = Owner(r)
    /\ balance[r] # Nothing => balance[r] = Id(Owner(r))
    /\ charged[r] # Nothing => charged[r] = Id(Owner(r))

(* A session the client did not name has the tenant in it.                 *)
Separate(r) ==
    session[r] # Nothing /\ ask[r].session = Nothing => session[r][1][1] = Owner(r)

TenantInv == Shaped /\ \A r \in Request : Identified(r) /\ Separate(r)

LEMMA TenantInit == Init => TenantInv
BY DEF Init, TenantInv, Shaped, Identified, Separate, Inside

LEMMA TenantStutter == TenantInv /\ UNCHANGED vars => TenantInv'
BY DEF TenantInv, Shaped, Identified, Separate, Inside, Owner, vars, identity, passage, warmUps

(* Who owns a request is settled by what it arrived with.                  *)
LEMMA OwnerStays == UNCHANGED ask => \A r \in Request : Owner(r)' = Owner(r)
BY DEF Owner

(* The three ways in all lead to the owner.                                *)
LEMMA EntersAsOwner ==
    ASSUME TenantInv, NEW r \in Request, Local(r) \/ WithKey(r) \/ WithJwt(r)
    PROVE  /\ DOMAIN header' = Request /\ DOMAIN claims' = Request
           /\ header'[r] = Id(Owner(r)) /\ claims'[r].tenant[1] = Owner(r)
           /\ \A q \in Request \ {r} : header'[q] = header[q] /\ claims'[q] = claims[q]
<1>1. CASE Local(r)
  BY <1>1 DEF TenantInv, Shaped, Local, Enters, Claims, Canonical, Id, Owner
<1>2. CASE WithKey(r)
  <2>1. ~JwtHolds(ask[r])
    BY <1>2 DEF WithKey, KeyHolds, JwtHolds
  <2>2. Owner(r) = Zero
    BY <2>1 DEF Owner
  <2> QED  BY <1>2, <2>2 DEF TenantInv, Shaped, WithKey, Enters, Claims, Canonical, Id
<1>3. CASE WithJwt(r)
  <2>1. Owner(r) = Token(ask[r]).tenant[1]
    BY <1>3 DEF WithJwt, Owner
  <2> QED  BY <1>3, <2>1 DEF TenantInv, Shaped, WithJwt, JwtClaims, Enters, Claims,
                               Canonical, Id
<1> QED  BY <1>1, <1>2, <1>3

(* What a session that is made for a request begins with.                  *)
LEMMA SessionNamesTenant ==
    ASSUME NEW r \in Request, claims[r].tenant[1] = Owner(r), ask[r].session = Nothing
    PROVE  Session(r)[1][1] = Owner(r)
<1>1. CASE ask[r].idem # Nothing
  BY <1>1 DEF Session
<1>2. CASE ask[r].idem = Nothing
  <2>1. Session(r) = <<claims[r].tenant, ask[r].bearer, second, ask[r].body>>
    BY <1>2 DEF Session
  <2> QED  BY <2>1
<1> QED  BY <1>1, <1>2

LEMMA TenantStep == TenantInv /\ [Next]_vars => TenantInv'
<1> SUFFICES ASSUME TenantInv, [Next]_vars
             PROVE  TenantInv'
  OBVIOUS
<1> USE DEF vars, identity, passage, warmUps
<1>1. CASE UNCHANGED vars
  BY <1>1, TenantStutter
<1>2. CASE Tick
  BY <1>2 DEF Tick, TenantInv, Shaped, Identified, Separate, Inside, Owner
<1>3. ASSUME NEW r \in Request, Layer(r) \/ Warm(r)
      PROVE  TenantInv'
  <2>o. ask' = ask
    BY <1>3 DEF Layer, Warm, Authenticate, Reject, Bill, Malformed, Handle, RequireAdmin,
                Show, Charge, WarmEnds
  <2>w. \A q \in Request : Owner(q)' = Owner(q)
    BY <2>o, OwnerStays
  <2>1. CASE Authenticate(r)
    <3>1. /\ DOMAIN header' = Request /\ DOMAIN claims' = Request
          /\ header'[r] = Id(Owner(r)) /\ claims'[r].tenant[1] = Owner(r)
          /\ \A q \in Request \ {r} : header'[q] = header[q] /\ claims'[q] = claims[q]
      BY <2>1, EntersAsOwner DEF Authenticate
    <3>2. /\ DOMAIN pc' = Request
          /\ \A q \in Request \ {r} : pc'[q] = pc[q]
          /\ UNCHANGED <<passage, warmUps, shown>>
      BY <2>1 DEF Authenticate, Goes, TenantInv, Shaped
    <3> QED  BY <2>o, <2>w, <3>1, <3>2 DEF TenantInv, Shaped, Identified, Separate
  <2>2. CASE Reject(r) \/ Malformed(r) \/ RequireAdmin(r) \/ Show(r) \/ Warm(r)
    <3>1. UNCHANGED <<header, claims, balance, charged, session, scenario>>
      BY <2>2 DEF Reject, Malformed, RequireAdmin, Show, Warm, WarmEnds
    <3>2. /\ DOMAIN pc' = Request /\ DOMAIN warming' = Request /\ DOMAIN shown' = Request
          /\ \A q \in Request : pc'[q] \in Inside => pc[q] \in Inside
      BY <2>2 DEF Reject, Malformed, RequireAdmin, Show, Warm, WarmEnds, Goes, Inside,
                  TenantInv, Shaped
    <3> QED  BY <2>o, <2>w, <3>1, <3>2 DEF TenantInv, Shaped, Identified, Separate
  <2>3. CASE Bill(r) \/ \E full \in BOOLEAN : Charge(r, full)
    <3>1. UNCHANGED <<header, claims, session, scenario, warming, shown>>
      BY <2>3 DEF Bill, Charge
    <3>2. /\ DOMAIN pc' = Request /\ DOMAIN balance' = Request /\ DOMAIN charged' = Request
          /\ pc[r] \in Inside
          /\ \A q \in Request : pc'[q] \in Inside => pc[q] \in Inside
          /\ balance'[r] \in {balance[r], header[r]} /\ charged'[r] \in {charged[r], header[r]}
          /\ \A q \in Request \ {r} : balance'[q] = balance[q] /\ charged'[q] = charged[q]
      BY <2>3 DEF Bill, Charge, Goes, Inside, TenantInv, Shaped
    <3> QED  BY <2>o, <2>w, <3>1, <3>2 DEF TenantInv, Shaped, Identified, Separate
  <2>4. CASE Handle(r)
    <3>1. UNCHANGED <<header, claims, balance, charged, shown>>
      BY <2>4 DEF Handle
    <3>2. /\ DOMAIN pc' = Request /\ DOMAIN session' = Request /\ DOMAIN scenario' = Request
          /\ DOMAIN warming' = Request
          /\ pc[r] \in Inside
          /\ \A q \in Request : pc'[q] \in Inside => pc[q] \in Inside
          /\ session'[r] = Session(r)
          /\ \A q \in Request \ {r} : session'[q] = session[q]
      BY <2>4 DEF Handle, Goes, Inside, TenantInv, Shaped
    <3>3. ask[r].session = Nothing => Session(r)[1][1] = Owner(r)
      BY <3>2, SessionNamesTenant DEF TenantInv, Identified
    <3> QED  BY <2>o, <2>w, <3>1, <3>2, <3>3 DEF TenantInv, Shaped, Identified, Separate
  <2> QED  BY <1>3, <2>1, <2>2, <2>3, <2>4 DEF Layer
<1> QED  BY <1>1, <1>2, <1>3 DEF Next

LEMMA TenantAlways == Spec => []TenantInv
BY TenantInit, TenantStep, PTL DEF Spec

(* For any requests, credentials, headers and spellings of tenant ids:     *)
(* the balance, the bucket and the claims are the credential's tenant's,   *)
(* and two tenants that name no session have none in common (auth.rs,      *)
(* handlers.rs, agentic_tracker.rs).                                       *)
THEOREM OneTenantHolds == Spec => []OneTenant
<1>1. TenantInv => OneTenant
  BY DEF TenantInv, Identified, Separate, OneTenant
<1> QED  BY <1>1, TenantAlways, PTL

-----------------------------------------------------------------------------
(* The scanner, token by token.                                            *)

Scanners(T) ==
    [at : {"idle", "key", "name", "colon", "value", "in", "escape"},
     buf : Seq(T), found : Seq(Seq(T))]

(* In the tokens up to the k-th, a quoted name is followed by nothing but  *)
(* spaces and colons; and a quote opens a value after that.                *)
KeyBefore(ts, k) ==
    \E j \in Nat \ {0} :
        /\ j + 2 <= k
        /\ ts[j] = "quote" /\ ts[j + 1] = "name" /\ ts[j + 2] = "quote"
        /\ \A i \in (j + 3)..k : ts[i] \in {"space", "colon"}

OpensAt(ts, q) == ts[q] = "quote" /\ KeyBefore(ts, q - 1)

(* From after l to k one token is read as t, with or without a backslash.  *)
ReadsOne(ts, l, k, t) ==
    \/ k = l + 1 /\ ts[k] = t /\ t \notin {"quote", "backslash"}
    \/ k = l + 2 /\ ts[l + 1] = "backslash" /\ ts[k] = t

(* From after q to k the tokens are read as b, one after the other; and a  *)
(* comma is read as one.                                                   *)
Spells(ts, q, k, b) ==
    /\ \E p \in [0..Len(b) -> q..k] :
          /\ p[0] = q /\ p[Len(b)] = k
          /\ \A i \in 1..Len(b) : ReadsOne(ts, p[i - 1], p[i], b[i])
    /\ \A j \in (q + 1)..k : ts[j] = "comma" => \E i \in 1..Len(b) : b[i] = "comma"

ValueAt(ts, b) ==
    \E q \in Nat \ {0}, z \in Nat :
        /\ OpensAt(ts, q)
        /\ q < z /\ z <= Len(ts) /\ ts[z] = "quote"
        /\ Spells(ts, q, z - 1, b)

(* What the scanner's state says of the tokens up to the k-th.             *)
Reads(ts, k, s) ==
    /\ s.at = "key" => k > 0 /\ ts[k] = "quote"
    /\ s.at = "name" => k > 1 /\ ts[k] = "name" /\ ts[k - 1] = "quote"
    /\ s.at \in {"colon", "value"} => KeyBefore(ts, k)
    /\ s.at = "in" =>
          \E q \in Nat \ {0} : q <= k /\ OpensAt(ts, q) /\ Spells(ts, q, k, s.buf)
    /\ s.at = "escape" =>
          /\ ts[k] = "backslash"
          /\ \E q \in Nat \ {0} : q < k /\ OpensAt(ts, q) /\ Spells(ts, q, k - 1, s.buf)
    /\ s.found # << >> => s.at = "idle" /\ \A n : s.found = <<n>> => ValueAt(ts, n)

LEMMA SpellsNone ==
    ASSUME NEW ts, NEW q \in Nat
    PROVE  Spells(ts, q, q, << >>)
<1> DEFINE p == [i \in 0..0 |-> q]
<1>1. /\ p \in [0..0 -> q..q] /\ p[0] = q
  OBVIOUS
<1>2. Len(<< >>) = 0 /\ 1..0 = {} /\ (q + 1)..q = {}
  OBVIOUS
<1> HIDE DEF p
<1> QED  BY <1>1, <1>2 DEF Spells

LEMMA SpellsMore ==
    ASSUME NEW T, NEW ts, NEW b \in Seq(T), NEW t \in T,
           NEW q \in Nat, NEW l \in Nat, NEW k \in Nat, q <= l,
           Spells(ts, q, l, b), ReadsOne(ts, l, k, t)
    PROVE  Spells(ts, q, k, Append(b, t))
<1> DEFINE n == Len(b)
           c == Append(b, t)
<1>1. n \in Nat /\ Len(c) = n + 1 /\ c[n + 1] = t /\ \A i \in 1..n : c[i] = b[i]
  OBVIOUS
<1>2. l < k /\ \A j \in (l + 1)..k : ts[j] = "comma" => t = "comma"
  <2>1. CASE k = l + 1 /\ ts[k] = t
    <3>1. \A j \in (l + 1)..k : j = k
      BY <2>1
    <3> QED  BY <2>1, <3>1
  <2>2. CASE k = l + 2 /\ ts[l + 1] = "backslash" /\ ts[k] = t
    <3>1. \A j \in (l + 1)..k : j = l + 1 \/ j = k
      BY <2>2
    <3> QED  BY <2>2, <3>1
  <2> QED  BY <2>1, <2>2 DEF ReadsOne
<1>3. PICK p \in [0..n -> q..l] :
         /\ p[0] = q /\ p[n] = l
         /\ \A i \in 1..n : ReadsOne(ts, p[i - 1], p[i], b[i])
  BY DEF Spells
<1> HIDE DEF n, c
<1> DEFINE g == [i \in 0..(n + 1) |-> IF i = n + 1 THEN k ELSE p[i]]
<1>4. g \in [0..(n + 1) -> q..k]
  <2> SUFFICES ASSUME NEW i \in 0..(n + 1)
               PROVE  (IF i = n + 1 THEN k ELSE p[i]) \in q..k
    OBVIOUS
  <2>1. CASE i = n + 1
    BY <1>2, <2>1
  <2>2. CASE i # n + 1
    <3>1. i \in 0..n
      BY <1>1, <2>2
    <3>2. p[i] \in q..l
      BY <3>1
    <3> QED  BY <1>2, <2>2, <3>2
  <2> QED  BY <2>1, <2>2
<1>5. g[n + 1] = k /\ \A i \in 0..n : g[i] = p[i]
  BY <1>1
<1> HIDE DEF g
<1>6. \A i \in 1..(n + 1) : ReadsOne(ts, g[i - 1], g[i], c[i])
  <2> TAKE i \in 1..(n + 1)
  <2>1. CASE i = n + 1
    <3>1. g[i - 1] = l /\ g[i] = k /\ c[i] = t
      BY <1>1, <1>3, <1>5, <2>1
    <3> QED  BY <3>1
  <2>2. CASE i # n + 1
    <3>1. i \in 1..n /\ i \in 0..n /\ i - 1 \in 0..n
      BY <1>1, <2>2
    <3>2. g[i - 1] = p[i - 1] /\ g[i] = p[i] /\ c[i] = b[i]
      BY <1>1, <1>5, <3>1
    <3> QED  BY <1>3, <3>1, <3>2
  <2> QED  BY <2>1, <2>2
<1>7. ASSUME NEW j \in (q + 1)..k, ts[j] = "comma"
      PROVE  \E i \in 1..(n + 1) : c[i] = "comma"
  <2>1. CASE j <= l
    <3>1. j \in (q + 1)..l
      BY <2>1
    <3>2. PICK i \in 1..n : b[i] = "comma"
      BY <1>7, <3>1 DEF Spells, n
    <3>3. i \in 1..(n + 1) /\ c[i] = b[i]
      BY <1>1
    <3> QED  BY <3>2, <3>3
  <2>2. CASE l < j
    <3>1. t = "comma"
      BY <1>2, <1>7, <2>2
    <3>2. n + 1 \in 1..(n + 1)
      BY <1>1
    <3> QED  BY <1>1, <3>1, <3>2
  <2> QED  BY <2>1, <2>2
<1>8. g[0] = q
  BY <1>1, <1>3, <1>5
<1> QED  BY <1>1, <1>4, <1>5, <1>6, <1>7, <1>8 DEF Spells, c

LEMMA KeyStays ==
    ASSUME NEW ts, NEW k \in Nat \ {0}, KeyBefore(ts, k - 1), ts[k] \in {"space", "colon"}
    PROVE  KeyBefore(ts, k)
<1> PICK j \in Nat \ {0} :
       /\ j + 2 <= k - 1
       /\ ts[j] = "quote" /\ ts[j + 1] = "name" /\ ts[j + 2] = "quote"
       /\ \A i \in (j + 3)..(k - 1) : ts[i] \in {"space", "colon"}
  BY DEF KeyBefore
<1>1. \A i \in (j + 3)..k : i \in (j + 3)..(k - 1) \/ i = k
  OBVIOUS
<1>2. \A i \in (j + 3)..k : ts[i] \in {"space", "colon"}
  BY <1>1
<1>3. j + 2 <= k
  OBVIOUS
<1> QED  BY <1>2, <1>3 DEF KeyBefore

LEMMA KeyEnds ==
    ASSUME NEW ts, NEW k \in Nat, k > 2,
           ts[k] = "quote", ts[k - 1] = "name", ts[k - 2] = "quote"
    PROVE  KeyBefore(ts, k)
<1> DEFINE j == k - 2
<1>1. j \in Nat \ {0} /\ j + 2 <= k /\ j + 1 = k - 1 /\ j + 2 = k /\ (j + 3)..k = {}
  OBVIOUS
<1> QED  BY <1>1 DEF KeyBefore

(* What is in a sequence of one.                                           *)
LEMMA OnlyOne ==
    ASSUME NEW b
    PROVE  <<b>> # << >> /\ \A n : <<b>> = <<n>> => b = n
OBVIOUS

LEMMA ByteStays ==
    ASSUME NEW T, NEW t \in T, NEW s \in Scanners(T)
    PROVE  Byte(s, t) \in Scanners(T)
<1>1. /\ Append(s.buf, t) \in Seq(T) /\ << >> \in Seq(T) /\ <<s.buf>> \in Seq(Seq(T))
      /\ s.at \in {"idle", "key", "name", "colon", "value", "in", "escape"}
  BY DEF Scanners
<1>2. CASE s.at \in {"idle", "key", "name", "colon"}
  <2>1. \E a \in {"idle", "key", "name", "colon", "value"} : Byte(s, t) = [s EXCEPT !.at = a]
    BY <1>2 DEF Byte, Idle, Key, Name, Colon
  <2> QED  BY <2>1 DEF Scanners
<1>3. CASE s.at = "value"
  BY <1>1, <1>3 DEF Byte, Value, Scanners
<1>4. CASE s.at = "in"
  BY <1>1, <1>4 DEF Byte, In, Scanners
<1>5. CASE s.at = "escape"
  BY <1>1, <1>5 DEF Byte, Escape, Scanners
<1> QED  BY <1>1, <1>2, <1>3, <1>4, <1>5

LEMMA ByteReads ==
    ASSUME NEW T, NEW ts \in Seq(T), NEW k \in 1..Len(ts), NEW s \in Scanners(T),
           s.found = << >>, Reads(ts, k - 1, s)
    PROVE  Reads(ts, k, Byte(s, ts[k]))
<1> DEFINE t == ts[k]
<1>0. /\ k \in Nat \ {0} /\ t \in T /\ Len(ts) \in Nat /\ k <= Len(ts)
      /\ s.at \in {"idle", "key", "name", "colon", "value", "in", "escape"}
      /\ s.buf \in Seq(T) /\ s.found \in Seq(Seq(T))
  BY DEF Scanners
<1>a. /\ Append(s.buf, t) \in Seq(T) /\ <<s.buf>> \in Seq(Seq(T)) /\ << >> \in Seq(T)
      /\ <<s.buf>> # << >> /\ \A n : <<s.buf>> = <<n>> => s.buf = n
  BY <1>0, OnlyOne
<1>1. CASE s.at = "idle"
  <2>1. Byte(s, t) = [s EXCEPT !.at = IF t = "quote" THEN "key" ELSE "idle"]
    BY <1>1 DEF Byte, Idle
  <2>2. CASE t = "quote"
    BY <1>0, <2>1, <2>2 DEF Scanners, Reads
  <2>3. CASE t # "quote"
    BY <1>0, <2>1, <2>3 DEF Scanners, Reads
  <2> QED  BY <2>2, <2>3
<1>2. CASE s.at = "key"
  <2>1. CASE t = "quote"
    <3>1. Byte(s, t) = [s EXCEPT !.at = "key"]
      BY <1>2, <2>1 DEF Byte, Key
    <3> QED  BY <1>0, <2>1, <3>1 DEF Scanners, Reads
  <2>2. CASE t = "name"
    <3>1. Byte(s, t) = [s EXCEPT !.at = "name"]
      BY <1>2, <2>2 DEF Byte, Key
    <3>2. k - 1 > 0 /\ ts[k - 1] = "quote"
      BY <1>2 DEF Reads
    <3> QED  BY <1>0, <2>2, <3>1, <3>2 DEF Scanners, Reads
  <2>3. CASE t \notin {"quote", "name"}
    <3>1. Byte(s, t) = [s EXCEPT !.at = "idle"]
      BY <1>2, <2>3 DEF Byte, Key
    <3> QED  BY <1>0, <3>1 DEF Scanners, Reads
  <2> QED  BY <2>1, <2>2, <2>3
<1>3. CASE s.at = "name"
  <2>1. ts[k] = "quote" => KeyBefore(ts, k)
    <3>1. k > 2 /\ ts[k - 1] = "name" /\ ts[k - 2] = "quote"
      BY <1>0, <1>3 DEF Reads
    <3> QED  BY <1>0, <3>1, KeyEnds
  <2> QED  BY <1>0, <1>3, <2>1 DEF Byte, Name, Scanners, Reads
<1>4. CASE s.at \in {"colon", "value"}
  <2>1. KeyBefore(ts, k - 1)
    BY <1>4 DEF Reads
  <2>2. ts[k] \in {"space", "colon"} => KeyBefore(ts, k)
    BY <1>0, <2>1, KeyStays
  <2>3. ts[k] = "quote" => OpensAt(ts, k)
    BY <2>1 DEF OpensAt
  <2>4. CASE s.at = "colon"
    <3>1. Byte(s, t) = [s EXCEPT !.at = CASE t = "colon" -> "value"
                                          [] t = "space" -> "colon"
                                          [] OTHER -> "idle"]
      BY <2>4 DEF Byte, Colon
    <3>2. CASE t \in {"colon", "space"}
      <4>1. \E a \in {"colon", "value"} : Byte(s, t) = [s EXCEPT !.at = a]
        BY <3>1, <3>2
      <4> QED  BY <1>0, <2>2, <3>2, <4>1 DEF Scanners, Reads
    <3>3. CASE t \notin {"colon", "space"}
      <4>1. Byte(s, t) = [s EXCEPT !.at = "idle"]
        BY <3>1, <3>3
      <4> QED  BY <1>0, <4>1 DEF Scanners, Reads
    <3> QED  BY <3>2, <3>3
  <2>5. CASE s.at = "value"
    <3>1. CASE t = "quote"
      <4>1. Byte(s, t) = [s EXCEPT !.at = "in", !.buf = << >>]
        BY <2>5, <3>1 DEF Byte, Value
      <4>2. Byte(s, t) \in Scanners(T)
        BY <1>0, <1>a, <4>1 DEF Scanners
      <4>3. /\ Byte(s, t).at = "in" /\ Byte(s, t).buf = << >> /\ Byte(s, t).found = << >>
        BY <1>0, <4>1 DEF Scanners
      <4>4. Spells(ts, k, k, << >>) /\ k <= k
        BY <1>0, SpellsNone
      <4>5. \E q \in Nat \ {0} : q <= k /\ OpensAt(ts, q) /\ Spells(ts, q, k, << >>)
        BY <1>0, <2>3, <3>1, <4>4
      <4> QED  BY <4>2, <4>3, <4>5 DEF Reads
    <3>2. CASE t = "space"
      BY <1>0, <2>2, <2>5, <3>2 DEF Byte, Value, Scanners, Reads
    <3>3. CASE t \notin {"quote", "space"}
      BY <1>0, <2>5, <3>3 DEF Byte, Value, Scanners, Reads
    <3> QED  BY <3>1, <3>2, <3>3
  <2> QED  BY <1>4, <2>4, <2>5
<1>5. CASE s.at = "in"
  <2>0. PICK q \in Nat \ {0} :
           q <= k - 1 /\ OpensAt(ts, q) /\ Spells(ts, q, k - 1, s.buf)
    BY <1>5 DEF Reads
  <2>k. k - 1 \in Nat /\ q < k /\ q <= k
    BY <1>0, <2>0
  <2>1. CASE t = "quote"
    <3>1. Byte(s, t) = [at |-> "idle", buf |-> << >>, found |-> <<s.buf>>]
      BY <1>5, <2>1 DEF Byte, In
    <3>2. ValueAt(ts, s.buf)
      BY <1>0, <2>0, <2>1, <2>k DEF ValueAt
    <3> QED  BY <1>a, <3>1, <3>2 DEF Reads
  <2>2. CASE t = "backslash"
    <3>1. Byte(s, t) = [s EXCEPT !.at = "escape"]
      BY <1>5, <2>2 DEF Byte, In
    <3>2. /\ Byte(s, t).at = "escape" /\ Byte(s, t).buf = s.buf /\ Byte(s, t).found = << >>
      BY <1>0, <3>1 DEF Scanners
    <3> QED  BY <2>0, <2>2, <2>k, <3>2 DEF Reads
  <2>3. CASE t \notin {"quote", "backslash"}
    <3>1. Byte(s, t) = [s EXCEPT !.buf = Append(s.buf, t)]
      BY <1>5, <2>3 DEF Byte, In
    <3>2. /\ Byte(s, t).at = "in" /\ Byte(s, t).buf = Append(s.buf, t)
          /\ Byte(s, t).found = << >>
      BY <1>0, <1>5, <3>1 DEF Scanners
    <3>3. ReadsOne(ts, k - 1, k, t)
      BY <1>0, <2>3 DEF ReadsOne
    <3>4. Spells(ts, q, k, Append(s.buf, t))
      <4> HIDE DEF t
      <4> QED  BY <1>0, <2>0, <2>k, <3>3, SpellsMore
    <3> QED  BY <2>0, <2>k, <3>2, <3>4 DEF Reads
  <2> QED  BY <2>1, <2>2, <2>3
<1>6. CASE s.at = "escape"
  <2>1. /\ Byte(s, t).at = "in" /\ Byte(s, t).buf = Append(s.buf, t)
        /\ Byte(s, t).found = << >>
    BY <1>0, <1>6 DEF Byte, Escape, Scanners
  <2>2. PICK q \in Nat \ {0} :
           q < k - 1 /\ OpensAt(ts, q) /\ Spells(ts, q, k - 1 - 1, s.buf)
    BY <1>6 DEF Reads
  <2>3. ts[k - 1] = "backslash"
    BY <1>6 DEF Reads
  <2> DEFINE l == k - 1 - 1
  <2>4. l \in Nat /\ q <= l /\ q <= k /\ l + 1 = k - 1 /\ l + 2 = k
    BY <1>0, <2>2
  <2>5. Spells(ts, q, l, s.buf)
    BY <2>2
  <2> HIDE DEF l
  <2>6. ReadsOne(ts, l, k, t)
    BY <2>3, <2>4 DEF ReadsOne
  <2>7. Spells(ts, q, k, Append(s.buf, t))
    <3> HIDE DEF t
    <3> QED  BY <1>0, <2>4, <2>5, <2>6, SpellsMore
  <2> QED  BY <2>1, <2>2, <2>4, <2>7 DEF Reads
<1> QED  BY <1>0, <1>1, <1>2, <1>3, <1>4, <1>5, <1>6

(* Whatever the scanner has found in a body is such a value.               *)
LEMMA ScanReads ==
    ASSUME NEW T, NEW ts \in Seq(T)
    PROVE  /\ DOMAIN Scan(ts) \subseteq Nat
           /\ \A i \in DOMAIN Scan(ts) :
                 Scan(ts)[i] \in Scanners(T) /\ Reads(ts, i, Scan(ts)[i])
<1> DEFINE n == IF Len(ts) < ScanLimit THEN Len(ts) ELSE ScanLimit
           S == Scanners(T)
           Next1(s, i) == Feed(s, ts[i], i)
           step == [x \in (1..n) \X S |-> Next1(x[2], x[1])]
           Loop(f) == f = [i \in 0..n |-> IF i = 0 THEN Start ELSE Next1(f[i - 1], i)]
           scan == CHOOSE f : Loop(f)
<1>1. Scan(ts) = scan
  BY DEF Scan
<1>2. n \in Nat /\ n <= Len(ts)
  BY RegisteredAssumption
<1>3. Start \in S /\ Reads(ts, 0, Start)
  BY DEF Start, Scanners, Reads
<1> HIDE DEF n
<1>4. ASSUME NEW s \in S, NEW i \in 1..n
      PROVE  /\ Next1(s, i) \in S
             /\ Reads(ts, i - 1, s) => Reads(ts, i, Next1(s, i))
  <2>1. i \in 1..Len(ts)
    BY <1>2
  <2>2. CASE s.found # << >> /\ (i - 1) % Chunk # 0
    BY <2>2 DEF Feed, Reads
  <2>3. CASE ~(s.found # << >> /\ (i - 1) % Chunk # 0)
    <3> DEFINE r == [s EXCEPT !.found = << >>]
    <3>1. r \in S /\ r.found = << >> /\ Next1(s, i) = Byte(r, ts[i])
      <4>1. << >> \in Seq(Seq(T))
        OBVIOUS
      <4>2. r \in S /\ r.found = << >>
        BY <4>1 DEF Scanners
      <4>3. Next1(s, i) = Byte(r, ts[i])
        BY <2>3 DEF Feed
      <4> QED  BY <4>2, <4>3
    <3>2. Reads(ts, i - 1, s) => Reads(ts, i - 1, r)
      BY DEF Reads, Scanners
    <3> HIDE DEF r
    <3>3. Next1(s, i) \in S
      BY <2>1, <3>1, ByteStays
    <3> QED  BY <2>1, <3>1, <3>2, <3>3, ByteReads
  <2> QED  BY <2>2, <2>3
<1> HIDE DEF S, Next1
<1>5. step \in [(1..n) \X S -> S] /\ \A i \in 1..n, s \in S : step[<<i, s>>] = Next1(s, i)
  BY <1>4
<1> HIDE DEF step
<1>6. PICK f \in [0..n -> S] : f[0] = Start /\ \A i \in 1..n : f[i] = step[<<i, f[i - 1]>>]
  <2>1. Ends(n, S, Start, step)
    BY <1>2, <1>3, <1>5, LoopExists
  <2> QED  BY <2>1 DEF Ends
<1>7. \A i \in 0..n : f[i] = IF i = 0 THEN Start ELSE Next1(f[i - 1], i)
  <2> TAKE i \in 0..n
  <2>1. CASE i # 0
    <3>1. i \in 1..n /\ i - 1 \in 0..n
      BY <1>2, <2>1
    <3>2. f[i - 1] \in S
      BY <3>1
    <3> QED  BY <1>5, <1>6, <2>1, <3>1, <3>2
  <2> QED  BY <1>6, <2>1
<1>8. Loop(f)
  <2>1. f = [i \in 0..n |-> f[i]]
    OBVIOUS
  <2> QED  BY <1>7, <2>1
<1>9. Loop(scan)
  BY <1>8
<1> HIDE DEF scan
<1>10. DOMAIN scan = 0..n /\ scan[0] = Start /\ \A i \in 1..n : scan[i] = Next1(scan[i - 1], i)
  BY <1>2, <1>9
<1> DEFINE R == {i \in 0..n : scan[i] \in S /\ Reads(ts, i, scan[i])}
<1>11. 0 \in R
  BY <1>2, <1>3, <1>10
<1>12. ASSUME NEW i \in 1..n, i - 1 \in R
       PROVE  i \in R
  BY <1>4, <1>10, <1>12
<1>13. 0..n \subseteq R
  <2> HIDE DEF R
  <2> QED  BY <1>2, <1>11, <1>12, UpTo
<1> QED  BY <1>1, <1>2, <1>10, <1>13 DEF S

(* A hint is a tool that is such a value.                                  *)
LEMMA HintIsValue ==
    ASSUME NEW T, NEW ts \in Seq(T), Hint(ts) # NoHint
    PROVE  Hint(ts) \in Registered /\ Hint(ts) \in Seq(T) /\ ValueAt(ts, Hint(ts))
<1> DEFINE scan == Scan(ts)
           hits == {i \in DOMAIN scan : \E n \in Registered : scan[i].found = <<n>>}
<1>1. /\ DOMAIN scan \subseteq Nat
      /\ \A i \in DOMAIN scan : scan[i] \in Scanners(T) /\ Reads(ts, i, scan[i])
  BY ScanReads
<1> HIDE DEF scan
<1>2. Hint(ts) = IF hits = {} THEN NoHint ELSE scan[Min(hits)].found[1]
  BY DEF Hint, scan
<1>3. hits # {}
  BY <1>2
<1>4. Min(hits) \in hits
  <2>1. PICK i \in hits : \A j \in hits : i <= j
    <3>1. hits \in SUBSET Nat
      BY <1>1
    <3> HIDE DEF hits
    <3> QED  BY <1>3, <3>1, LeastOf
  <2> HIDE DEF hits
  <2> QED  BY <2>1 DEF Min
<1>5. PICK n \in Registered : scan[Min(hits)].found = <<n>>
  BY <1>4
<1>6. Hint(ts) = n
  BY <1>2, <1>3, <1>5
<1>7. Reads(ts, Min(hits), scan[Min(hits)]) /\ scan[Min(hits)] \in Scanners(T)
  BY <1>1, <1>4
<1> HIDE DEF hits
<1>8. scan[Min(hits)].found # << >>
  BY <1>5
<1>9. ValueAt(ts, n)
  BY <1>5, <1>7, <1>8 DEF Reads
<1>10. n \in Seq(T)
  <2>1. <<n>> \in Seq(Seq(T))
    BY <1>5, <1>7 DEF Scanners
  <2>2. <<n>>[1] \in Seq(T)
    BY <2>1
  <2> QED  BY <2>2
<1> QED  BY <1>6, <1>9, <1>10

-----------------------------------------------------------------------------
(* The text of a body.                                                     *)

Marks ==
    {"quote", "backslash", "colon", "space", "brace", "null", "comma"}
    \cup {Letter[t] : t \in DOMAIN Letter}

(* The same tokens in another place are read as the same.                  *)
LEMMA SpellsShift ==
    ASSUME NEW T, NEW b \in Seq(T), NEW x, NEW y, NEW q \in Nat, NEW k \in Nat,
           NEW d \in Int, \A i \in (q + 1)..k : x[i + d] = y[i], Spells(y, q, k, b)
    PROVE  Spells(x, q + d, k + d, b)
<1> DEFINE n == Len(b)
<1>1. n \in Nat
  OBVIOUS
<1>2. PICK p \in [0..n -> q..k] :
         /\ p[0] = q /\ p[n] = k
         /\ \A i \in 1..n : ReadsOne(y, p[i - 1], p[i], b[i])
  BY DEF Spells
<1>3. \A j \in (q + 1)..k : y[j] = "comma" => \E i \in 1..n : b[i] = "comma"
  BY DEF Spells
<1> HIDE DEF n
<1> DEFINE g == [i \in 0..n |-> p[i] + d]
<1>4. \A i \in 0..n : p[i] \in q..k
  OBVIOUS
<1>5. g \in [0..n -> (q + d)..(k + d)] /\ \A i \in 0..n : g[i] = p[i] + d
  <2>1. \A i \in 0..n : p[i] + d \in (q + d)..(k + d)
    BY <1>4
  <2> QED  BY <2>1
<1> HIDE DEF g
<1>6. \A i \in 1..n : ReadsOne(x, g[i - 1], g[i], b[i])
  <2> TAKE i \in 1..n
  <2> DEFINE l == p[i - 1]
             h == p[i]
  <2>1. /\ i \in 0..n /\ i - 1 \in 0..n
    BY <1>1
  <2>2. l \in q..k /\ h \in q..k /\ g[i - 1] = l + d /\ g[i] = h + d
    BY <1>4, <1>5, <2>1
  <2>3. ReadsOne(y, l, h, b[i])
    BY <1>2
  <2> HIDE DEF l, h
  <2>4. CASE h = l + 1 /\ y[h] = b[i] /\ b[i] \notin {"quote", "backslash"}
    <3>1. h \in (q + 1)..k /\ h + d = l + d + 1
      BY <2>2, <2>4
    <3> QED  BY <2>2, <2>4, <3>1 DEF ReadsOne
  <2>5. CASE h = l + 2 /\ y[l + 1] = "backslash" /\ y[h] = b[i]
    <3>1. /\ h \in (q + 1)..k /\ l + 1 \in (q + 1)..k
          /\ h + d = l + d + 2 /\ l + 1 + d = l + d + 1
      BY <2>2, <2>5
    <3>2. x[h + d] = y[h] /\ x[l + 1 + d] = y[l + 1]
      BY <3>1
    <3> QED  BY <2>2, <2>5, <3>1, <3>2 DEF ReadsOne
  <2> QED  BY <2>3, <2>4, <2>5 DEF ReadsOne
<1>7. \A j \in (q + d + 1)..(k + d) : x[j] = "comma" => \E i \in 1..n : b[i] = "comma"
  <2> TAKE j \in (q + d + 1)..(k + d)
  <2> DEFINE i == j - d
  <2>1. i \in (q + 1)..k /\ i + d = j
    OBVIOUS
  <2> HIDE DEF i
  <2> QED  BY <1>3, <2>1
<1>8. g[0] = q + d /\ g[n] = k + d
  BY <1>1, <1>2, <1>5
<1> QED  BY <1>5, <1>6, <1>7, <1>8 DEF Spells, n

LEMMA SpellsStays ==
    ASSUME NEW T, NEW b \in Seq(T), NEW x, NEW y, NEW q \in Nat, NEW k \in Nat,
           \A i \in (q + 1)..k : x[i] = y[i], Spells(y, q, k, b)
    PROVE  Spells(x, q, k, b)
<1> DEFINE d == 0
<1>1. d \in Int /\ q + d = q /\ k + d = k /\ \A i \in (q + 1)..k : i + d = i
  OBVIOUS
<1> HIDE DEF d
<1>2. \A i \in (q + 1)..k : x[i + d] = y[i]
  BY <1>1
<1>3. Spells(x, q + d, k + d, b)
  BY <1>1, <1>2, SpellsShift
<1> QED  BY <1>1, <1>3

(* What is read up to a bare quote is read in one way only.                *)
LEMMA SpellsShorter ==
    ASSUME NEW T, NEW b \in Seq(T), NEW c \in Seq(T), Len(b) <= Len(c),
           NEW x, NEW q \in Nat, NEW k \in Nat, NEW l \in Nat,
           Spells(x, q, k, b), x[k + 1] = "quote", Spells(x, q, l, c)
    PROVE  b = c
<1> DEFINE n == Len(b)
           m == Len(c)
<1>1. n \in Nat /\ m \in Nat /\ n <= m
  OBVIOUS
<1>2. PICK p \in [0..n -> q..k] :
         /\ p[0] = q /\ p[n] = k
         /\ \A i \in 1..n : ReadsOne(x, p[i - 1], p[i], b[i])
  BY DEF Spells
<1>3. PICK g \in [0..m -> q..l] :
         /\ g[0] = q /\ g[m] = l
         /\ \A i \in 1..m : ReadsOne(x, g[i - 1], g[i], c[i])
  BY DEF Spells
<1> HIDE DEF n, m
<1> DEFINE R == {i \in 0..n : p[i] = g[i] /\ (i > 0 => b[i] = c[i])}
<1>5. 0 \in R
  BY <1>1, <1>2, <1>3
<1>6. ASSUME NEW i \in 1..n, i - 1 \in R
      PROVE  i \in R
  <2>1. i \in 0..n /\ i \in 1..m /\ i - 1 \in 0..n /\ p[i - 1] = g[i - 1]
    BY <1>1, <1>6
  <2>2. ReadsOne(x, p[i - 1], p[i], b[i]) /\ ReadsOne(x, p[i - 1], g[i], c[i])
    BY <1>2, <1>3, <2>1
  <2>3. p[i] = g[i] /\ b[i] = c[i]
    BY <2>2 DEF ReadsOne
  <2> QED  BY <2>1, <2>3
<1>7. 0..n \subseteq R
  <2> HIDE DEF R
  <2> QED  BY <1>1, <1>5, <1>6, UpTo
<1>8. p[n] = g[n] /\ \A i \in 1..n : b[i] = c[i]
  <2>1. n \in 0..n /\ \A i \in 1..n : i \in 0..n /\ i > 0
    BY <1>1
  <2> QED  BY <1>7, <2>1
<1>9. n = m
  <2> SUFFICES ASSUME n < m
               PROVE  FALSE
    BY <1>1
  <2> DEFINE i == n + 1
  <2>1. i \in 1..m /\ i - 1 = n
    BY <1>1
  <2> HIDE DEF i
  <2>2. ReadsOne(x, g[i - 1], g[i], c[i])
    BY <1>3, <2>1
  <2>3. g[i - 1] = k
    BY <1>2, <1>8, <2>1
  <2> QED  BY <2>2, <2>3 DEF ReadsOne
<1> QED  BY <1>8, <1>9, SeqEqual DEF n, m

LEMMA SpellsOnce ==
    ASSUME NEW T, NEW b \in Seq(T), NEW c \in Seq(T),
           NEW x, NEW q \in Nat, NEW k \in Nat, NEW l \in Nat,
           Spells(x, q, k, b), x[k + 1] = "quote", Spells(x, q, l, c), x[l + 1] = "quote"
    PROVE  b = c
<1>1. CASE Len(b) <= Len(c)
  BY <1>1, SpellsShorter
<1>2. CASE Len(c) <= Len(b)
  BY <1>2, SpellsShorter
<1>3. Len(b) \in Nat /\ Len(c) \in Nat
  OBVIOUS
<1> QED  BY <1>1, <1>2, <1>3

(* A token with its escape taken for the letter.                           *)
Said(t) == IF t \in DOMAIN Letter THEN Letter[t] ELSE t

LEMMA ReadSays ==
    ASSUME NEW T, Marks \subseteq T, NEW ts \in Seq(T)
    PROVE  /\ Read(ts) \in Seq(T) /\ Len(Read(ts)) = Len(ts)
           /\ \A i \in 1..Len(ts) : Read(ts)[i] = Said(ts[i]) /\ Said(ts[i]) \in T
<1>1. /\ Len(ts) \in Nat /\ DOMAIN ts = 1..Len(ts)
      /\ \A i \in 1..Len(ts) : ts[i] \in T /\ Said(ts[i]) \in T
  BY DEF Said, Marks
<1>2. Read(ts) = [i \in 1..Len(ts) |-> Said(ts[i])]
  BY <1>1 DEF Read, Said
<1> HIDE DEF Said
<1> QED  BY <1>1, <1>2

(* Of a text with its escapes: a quote has a backslash before it; it reads *)
(* as the text says; and its last token, with the one before if the last   *)
(* is no escape, is as it was.                                             *)
EscapeOf(e, ts) ==
    /\ \A i \in 1..Len(e) : e[i] = "quote" => i > 1 /\ e[i - 1] = "backslash"
    /\ Spells(e, 0, Len(e), Read(ts))
    /\ Len(e) > 0 =>
          /\ Len(ts) > 0 /\ e[Len(e)] = Said(ts[Len(ts)])
          /\ ts[Len(ts)] \in DOMAIN Letter => Len(e) > 1 /\ e[Len(e) - 1] = "backslash"
          /\ ts[Len(ts)] \notin DOMAIN Letter =>
                \/ Len(e) = 1 /\ Len(ts) = 1
                \/ /\ Len(e) > 1 /\ Len(ts) > 1
                   /\ e[Len(e) - 1] = Said(ts[Len(ts) - 1])

LEMMA EscapedIsEscape ==
    ASSUME NEW T, Marks \subseteq T, NEW ts \in Seq(T)
    PROVE  Escaped(ts) \in Seq(T) /\ EscapeOf(Escaped(ts), ts)
<1> DEFINE n == Len(ts)
           esc(i) == IF ts[i] \in DOMAIN Letter THEN <<"backslash", Letter[ts[i]]>>
                                                ELSE <<ts[i]>>
           ss == [i \in DOMAIN ts |-> esc(i)]
<1>1. n \in Nat /\ DOMAIN ts = 1..n /\ \A i \in 1..n : ts[i] \in T
  OBVIOUS
<1>2. \A i \in 1..n : esc(i) \in Seq(T)
  <2> TAKE i \in 1..n
  <2>1. CASE ts[i] \in DOMAIN Letter
    <3>1. "backslash" \in T /\ Letter[ts[i]] \in T
      BY <2>1 DEF Marks
    <3> QED  BY <2>1, <3>1
  <2>2. CASE ts[i] \notin DOMAIN Letter
    BY <1>1, <2>2
  <2> QED  BY <2>1, <2>2
<1>3. ss \in Seq(Seq(T)) /\ Len(ss) = n /\ \A i \in 1..n : ss[i] = esc(i)
  <2> HIDE DEF esc
  <2> QED  BY <1>1, <1>2
<1>4. Escaped(ts) = FlattenSeq(ss)
  BY DEF Escaped
<1>e. \A i \in 1..n :
         /\ ts[i] \in DOMAIN Letter => ss[i] = <<"backslash", Said(ts[i])>>
         /\ ts[i] \notin DOMAIN Letter => ss[i] = <<ts[i]>> /\ Said(ts[i]) = ts[i]
  BY <1>3 DEF Said
<1> HIDE DEF ss
<1>5. PICK f : Gathers(ss, T, f) /\ FlattenSeq(ss) = f[n]
  BY <1>3, FlattenGathers
<1>6. Steps(ss, T, f) /\ f[0] = << >> /\ f[n] \in Seq(T)
  <2>1. Steps(ss, T, f)
    BY <1>3, <1>5, GathersSteps
  <2> QED  BY <1>1, <1>3, <1>5, <2>1 DEF Gathers
<1>r. /\ Read(ts) \in Seq(T) /\ Len(Read(ts)) = n
      /\ \A i \in 1..n : Read(ts)[i] = Said(ts[i]) /\ Said(ts[i]) \in T
  BY ReadSays
<1> HIDE DEF n
<1> DEFINE pre(j) == SubSeq(Read(ts), 1, j)
<1>s. ASSUME NEW j \in 1..n
      PROVE  pre(j - 1) \in Seq(T) /\ pre(j) = Append(pre(j - 1), Said(ts[j]))
  <2> DEFINE r == Read(ts)
             a == SubSeq(r, 1, j - 1)
             c == SubSeq(r, 1, j)
  <2>0. r \in Seq(T) /\ j \in 1..Len(r) /\ Len(r) \in Nat /\ r[j] = Said(ts[j])
        /\ r[j] \in T
    BY <1>1, <1>r
  <2> HIDE DEF r
  <2>1. a \in Seq(T) /\ Len(a) = j - 1 /\ \A i \in 1..(j - 1) : a[i] = r[i]
    BY <2>0
  <2>2. c \in Seq(T) /\ Len(c) = j /\ \A i \in 1..j : c[i] = r[i]
    BY <2>0
  <2> HIDE DEF a, c
  <2> DEFINE d == Append(a, r[j])
  <2>3. d \in Seq(T) /\ Len(d) = j /\ d[j] = r[j] /\ \A i \in 1..(j - 1) : d[i] = a[i]
    BY <2>0, <2>1
  <2> HIDE DEF d
  <2>4. \A i \in 1..j : c[i] = d[i]
    <3> TAKE i \in 1..j
    <3>1. CASE i = j
      BY <2>2, <2>3, <3>1
    <3>2. CASE i # j
      <4>1. i \in 1..(j - 1)
        BY <3>2
      <4> QED  BY <2>1, <2>2, <2>3, <4>1
    <3> QED  BY <3>1, <3>2
  <2>5. c = d
    BY <2>2, <2>3, <2>4, SeqEqual
  <2> QED  BY <2>0, <2>1, <2>5 DEF a, c, d, r
<1>t. pre(0) = << >> /\ pre(n) = Read(ts)
  BY <1>1, <1>r
<1> HIDE DEF pre
<1> DEFINE Quotes(e) == \A i \in 1..Len(e) : e[i] = "quote" => i > 1 /\ e[i - 1] = "backslash"
           Says(e, j) == Spells(e, 0, Len(e), pre(j))
           Closing(e, j) ==
               IF j = 0 THEN Len(e) = 0
               ELSE /\ Len(e) > 0 /\ e[Len(e)] = Said(ts[j])
                    /\ ts[j] \in DOMAIN Letter => Len(e) > 1 /\ e[Len(e) - 1] = "backslash"
                    /\ ts[j] \notin DOMAIN Letter =>
                          \/ Len(e) = 1 /\ j = 1
                          \/ Len(e) > 1 /\ j > 1 /\ e[Len(e) - 1] = Said(ts[j - 1])
           R == {j \in 0..n : Quotes(f[j]) /\ Says(f[j], j) /\ Closing(f[j], j)}
<1>7. 0 \in R
  <2>1. Len(f[0]) = 0
    BY <1>6
  <2>2. Says(f[0], 0)
    <3>1. Spells(f[0], 0, 0, << >>)
      BY SpellsNone
    <3> QED  BY <1>t, <2>1, <3>1
  <2> HIDE DEF Says
  <2> QED  BY <1>1, <2>1, <2>2
<1>8. ASSUME NEW j \in 1..n, j - 1 \in R
      PROVE  j \in R
  <2> DEFINE p == f[j - 1]
             c == f[j]
             t == Said(ts[j])
  <2>1. /\ Len(p) \in Nat /\ Len(c) = Len(p) + Len(ss[j])
        /\ \A k \in 1..Len(p) : c[k] = p[k]
        /\ \A k \in 1..Len(ss[j]) : c[Len(p) + k] = ss[j][k]
    BY <1>3, <1>6 DEF Steps
  <2>2. Quotes(p) /\ Says(p, j - 1) /\ Closing(p, j - 1)
    BY <1>8
(* What was read of the text so far is still read, and then one more.      *)
  <2>3. ASSUME ReadsOne(c, Len(p), Len(c), t), Len(c) \in Nat
        PROVE  Says(c, j)
    <3>0. /\ Len(p) \in Nat /\ t \in T /\ 0 <= Len(p) /\ pre(j - 1) \in Seq(T)
          /\ pre(j) = Append(pre(j - 1), t)
      BY <1>r, <1>s, <2>1
    <3>1. Spells(p, 0, Len(p), pre(j - 1))
      BY <2>2
    <3> HIDE DEF p, c, t
    <3>2. \A i \in (0 + 1)..Len(p) : c[i] = p[i]
      BY <2>1
    <3>3. Spells(c, 0, Len(p), pre(j - 1))
      BY <3>0, <3>1, <3>2, SpellsStays
    <3> QED  BY <2>3, <3>0, <3>3, SpellsMore
  <2>c. j - 1 = 0 \/ (j - 1 > 0 /\ Len(p) > 0 /\ p[Len(p)] = Said(ts[j - 1]))
    BY <2>2
  <2>d. j - 1 = 0 => Len(p) = 0
    BY <2>2
  <2>q. \A i \in 1..Len(p) : p[i] = "quote" => i > 1 /\ p[i - 1] = "backslash"
    BY <2>2
  <2> HIDE DEF p, c, Says
  <2>4. CASE ts[j] \in DOMAIN Letter
    <3>1. /\ Len(c) = Len(p) + 2 /\ c[Len(p) + 1] = "backslash" /\ c[Len(p) + 2] = t
      <4>1. ss[j] = <<"backslash", t>>
        BY <1>e, <2>4
      <4>2. Len(ss[j]) = 2 /\ ss[j][1] = "backslash" /\ ss[j][2] = t
        BY <4>1
      <4> QED  BY <2>1, <4>2
    <3>2. Quotes(c)
      <4> SUFFICES ASSUME NEW i \in 1..Len(c), c[i] = "quote"
                   PROVE  i > 1 /\ c[i - 1] = "backslash"
        OBVIOUS
      <4>1. CASE i <= Len(p)
        <5>1. i \in 1..Len(p) /\ c[i] = p[i]
          BY <2>1, <4>1
        <5>2. i > 1 /\ p[i - 1] = "backslash"
          BY <2>q, <5>1
        <5>3. i - 1 \in 1..Len(p)
          BY <2>1, <5>1, <5>2
        <5> QED  BY <2>1, <5>2, <5>3
      <4>2. CASE i = Len(p) + 1
        BY <3>1, <4>2
      <4>3. CASE i = Len(p) + 2
        BY <2>1, <3>1, <4>3
      <4> QED  BY <2>1, <3>1, <4>1, <4>2, <4>3
    <3>3. Says(c, j)
      <4>1. ReadsOne(c, Len(p), Len(c), t) /\ Len(c) \in Nat
        BY <2>1, <3>1 DEF ReadsOne
      <4> QED  BY <2>3, <4>1
    <3>4. Closing(c, j)
      <4> HIDE DEF t
      <4>1. Len(c) > 1 /\ Len(c) - 1 = Len(p) + 1 /\ j # 0
        BY <2>1, <3>1
      <4> QED  BY <2>4, <3>1, <4>1 DEF t
    <3> QED  BY <3>2, <3>3, <3>4 DEF c
  <2>5. CASE ts[j] \notin DOMAIN Letter
    <3>0. t = ts[j] /\ t \notin {"quote", "backslash"}
      BY <1>e, <2>5, LetterAssumption
    <3>1. Len(c) = Len(p) + 1 /\ c[Len(p) + 1] = t
      <4>1. ss[j] = <<t>>
        BY <1>e, <2>5
      <4>2. Len(ss[j]) = 1 /\ ss[j][1] = t
        BY <4>1
      <4> QED  BY <2>1, <4>2
    <3>2. Quotes(c)
      <4> SUFFICES ASSUME NEW i \in 1..Len(c), c[i] = "quote"
                   PROVE  i > 1 /\ c[i - 1] = "backslash"
        OBVIOUS
      <4>1. CASE i <= Len(p)
        <5>1. i \in 1..Len(p) /\ c[i] = p[i]
          BY <2>1, <4>1
        <5>2. i > 1 /\ p[i - 1] = "backslash"
          BY <2>q, <5>1
        <5>3. i - 1 \in 1..Len(p)
          BY <2>1, <5>1, <5>2
        <5> QED  BY <2>1, <5>2, <5>3
      <4>2. CASE i = Len(p) + 1
        BY <3>0, <3>1, <4>2
      <4> QED  BY <2>1, <3>1, <4>1, <4>2
    <3>3. Says(c, j)
      <4>1. ReadsOne(c, Len(p), Len(c), t) /\ Len(c) \in Nat
        BY <2>1, <3>0, <3>1 DEF ReadsOne
      <4> QED  BY <2>3, <4>1
    <3>4. Closing(c, j)
      <4> HIDE DEF t
      <4>1. CASE j = 1
        <5>1. Len(p) = 0
          BY <2>d, <4>1
        <5> QED  BY <2>5, <3>1, <4>1, <5>1 DEF t
      <4>2. CASE j # 1
        <5>1. Len(p) > 0 /\ p[Len(p)] = Said(ts[j - 1]) /\ j > 1
          BY <2>c, <4>2
        <5>2. c[Len(c) - 1] = Said(ts[j - 1]) /\ Len(c) > 1
          BY <2>1, <3>1, <5>1
        <5> QED  BY <2>1, <2>5, <3>1, <5>1, <5>2 DEF t
      <4> QED  BY <4>1, <4>2
    <3> QED  BY <3>2, <3>3, <3>4 DEF c
  <2> QED  BY <2>4, <2>5
<1>9. n \in R
  <2> HIDE DEF R
  <2>1. 0..n \subseteq R
    BY <1>1, <1>7, <1>8, UpTo
  <2> QED  BY <1>1, <2>1
<1>10. Quotes(f[n]) /\ Says(f[n], n) /\ Closing(f[n], n)
  BY <1>9
<1>11. Escaped(ts) = f[n] /\ f[n] \in Seq(T)
  BY <1>4, <1>5, <1>6
<1> DEFINE e == f[n]
<1>12. Len(e) > 0 => n > 0
  BY <1>1, <1>10
<1>13. Spells(e, 0, Len(e), Read(ts))
  BY <1>10, <1>t
<1>14. EscapeOf(e, ts)
  <2> HIDE DEF e, Says
  <2> QED  BY <1>1, <1>10, <1>12, <1>13 DEF EscapeOf, n, e
<1> QED  BY <1>11, <1>14

(* After the o-th token x has e in quotes.                                 *)
Spelled(x, o, e) ==
    /\ o + Len(e) + 2 <= Len(x)
    /\ x[o + 1] = "quote" /\ x[o + Len(e) + 2] = "quote"
    /\ \A i \in 1..Len(e) : x[o + 1 + i] = e[i]

LEMMA SpelledStays ==
    ASSUME NEW T, NEW p \in Seq(T), NEW q \in Seq(T), NEW e \in Seq(T), NEW o \in Nat
    PROVE  /\ Spelled(p, o, e) => Spelled(p \o q, o, e)
           /\ Spelled(q, o, e) => Spelled(p \o q, Len(p) + o, e)
<1> DEFINE c == p \o q
<1>1. /\ Len(p) \in Nat /\ Len(q) \in Nat /\ Len(c) = Len(p) + Len(q) /\ Len(e) \in Nat
      /\ \A k \in 1..Len(p) : c[k] = p[k]
      /\ \A k \in 1..Len(q) : c[Len(p) + k] = q[k]
  <2>1. Joined(c, p, q)
    BY ConcatAt
  <2> QED  BY <2>1 DEF Joined
<1> HIDE DEF c
<1>2. ASSUME Spelled(p, o, e)
      PROVE  Spelled(c, o, e)
  <2>1. o + 1 \in 1..Len(p) /\ o + Len(e) + 2 \in 1..Len(p)
    BY <1>1, <1>2 DEF Spelled
  <2>2. \A i \in 1..Len(e) : o + 1 + i \in 1..Len(p)
    BY <1>1, <1>2 DEF Spelled
  <2> QED  BY <1>1, <1>2, <2>1, <2>2 DEF Spelled
<1>3. ASSUME Spelled(q, o, e)
      PROVE  Spelled(c, Len(p) + o, e)
  <2>1. /\ o + 1 \in 1..Len(q) /\ o + Len(e) + 2 \in 1..Len(q)
        /\ Len(p) + o + 1 = Len(p) + (o + 1)
        /\ Len(p) + o + Len(e) + 2 = Len(p) + (o + Len(e) + 2)
        /\ Len(p) + o + Len(e) + 2 <= Len(c)
    BY <1>1, <1>3 DEF Spelled
  <2>2. \A i \in 1..Len(e) : /\ o + 1 + i \in 1..Len(q)
                             /\ Len(p) + o + 1 + i = Len(p) + (o + 1 + i)
    BY <1>1, <1>3 DEF Spelled
  <2> QED  BY <1>1, <1>3, <2>1, <2>2 DEF Spelled
<1> QED  BY <1>2, <1>3 DEF c

LEMMA QuotedIsSpelled ==
    ASSUME NEW T, Marks \subseteq T, NEW ts \in Seq(T)
    PROVE  /\ Quoted(ts) \in Seq(T) /\ Len(Quoted(ts)) = Len(Escaped(ts)) + 2
           /\ Spelled(Quoted(ts), 0, Escaped(ts))
<1> DEFINE e == Escaped(ts)
           q == <<"quote">>
           x == q \o e
<1>1. e \in Seq(T) /\ q \in Seq(T) /\ Len(q) = 1 /\ q[1] = "quote" /\ Len(e) \in Nat
  BY EscapedIsEscape DEF Marks
<1>2. Quoted(ts) = x \o q
  BY DEF Quoted
<1> HIDE DEF e, q
<1>3. /\ x \in Seq(T) /\ Len(x) = 1 + Len(e) /\ x[1] = "quote"
      /\ \A i \in 1..Len(e) : x[1 + i] = e[i]
  <2>1. x \in Seq(T) /\ Joined(x, q, e)
    BY <1>1, ConcatAt
  <2> HIDE DEF x
  <2> QED  BY <1>1, <2>1 DEF Joined
<1> HIDE DEF x
<1> DEFINE y == x \o q
<1>4. /\ y \in Seq(T) /\ Len(y) = Len(e) + 2 /\ y[1 + Len(e) + 1] = "quote"
      /\ \A k \in 1..(1 + Len(e)) : y[k] = x[k]
  <2>1. y \in Seq(T) /\ Joined(y, x, q)
    BY <1>1, <1>3, ConcatAt
  <2> HIDE DEF y
  <2> QED  BY <1>1, <1>3, <2>1 DEF Joined
<1> HIDE DEF y
<1>5. y[1] = "quote" /\ y[Len(e) + 2] = "quote" /\ \A i \in 1..Len(e) : y[1 + i] = e[i]
  <2>1. \A i \in 1..Len(e) : 1 + i \in 1..(1 + Len(e))
    BY <1>1
  <2>2. 1 \in 1..(1 + Len(e)) /\ 1 + Len(e) + 1 = Len(e) + 2
    BY <1>1
  <2> QED  BY <1>3, <1>4, <2>1, <2>2
<1>6. Spelled(y, 0, e)
  BY <1>1, <1>4, <1>5 DEF Spelled
<1> QED  BY <1>2, <1>4, <1>6 DEF y, e

(* A member's text: the key, then the value, in braces if it is an object. *)
MemberShape(x, m) ==
    LET a == Len(Escaped(m.key))
        b == Len(Escaped(m.value))
    IN /\ Spelled(x, 0, Escaped(m.key)) /\ x[a + 3] = "colon" /\ x[a + 4] = "space"
       /\ x[Len(x)] = "comma"
       /\ IF m.kind = "string"
          THEN Len(x) = a + b + 7 /\ Spelled(x, a + 4, Escaped(m.value))
          ELSE /\ Len(x) = a + b + 11 /\ Spelled(x, a + 5, Escaped(m.value))
               /\ x[a + 5] = "brace" /\ x[a + b + 8] = "colon" /\ x[a + b + 9] = "null"

LEMMA MemberTextShape ==
    ASSUME NEW T, Marks \subseteq T, NEW m, m.key \in Seq(T), m.value \in Seq(T)
    PROVE  MemberText(m) \in Seq(T) /\ MemberShape(MemberText(m), m)
<1> DEFINE e == Escaped(m.key)
           v == Escaped(m.value)
           a == Len(e)
           b == Len(v)
           k == Quoted(m.key)
           w == Quoted(m.value)
           cs == <<"colon", "space">>
           br == <<"brace">>
           end == <<"colon", "null", "brace">>
           cm == <<"comma">>
           val == IF m.kind = "string" THEN w ELSE br \o w \o end
           x == k \o cs
           y == x \o val
           z == y \o cm
<1>1. MemberText(m) = z
  BY DEF MemberText
<1>2. e \in Seq(T) /\ v \in Seq(T) /\ a \in Nat /\ b \in Nat
  BY EscapedIsEscape
<1>3. /\ k \in Seq(T) /\ Len(k) = a + 2 /\ Spelled(k, 0, e)
      /\ w \in Seq(T) /\ Len(w) = b + 2 /\ Spelled(w, 0, v)
  BY QuotedIsSpelled
<1>4. /\ cs \in Seq(T) /\ Len(cs) = 2 /\ cs[1] = "colon" /\ cs[2] = "space"
      /\ br \in Seq(T) /\ Len(br) = 1 /\ br[1] = "brace"
      /\ end \in Seq(T) /\ Len(end) = 3 /\ end[1] = "colon" /\ end[2] = "null"
      /\ cm \in Seq(T) /\ Len(cm) = 1 /\ cm[1] = "comma"
  BY DEF Marks
<1> HIDE DEF a, b, e, v, k, w, cs, br, end, cm
<1>5. /\ x \in Seq(T) /\ Len(x) = a + 4 /\ Spelled(x, 0, e)
      /\ x[a + 3] = "colon" /\ x[a + 4] = "space"
  <2>1. x \in Seq(T) /\ Joined(x, k, cs)
    BY <1>3, <1>4, ConcatAt
  <2>2. Spelled(x, 0, e)
    BY <1>2, <1>3, <1>4, SpelledStays
  <2> HIDE DEF x
  <2>3. x[a + 2 + 1] = cs[1] /\ x[a + 2 + 2] = cs[2]
    BY <1>3, <1>4, <2>1 DEF Joined
  <2>4. a + 2 + 1 = a + 3 /\ a + 2 + 2 = a + 4
    BY <1>2
  <2> QED  BY <1>2, <1>3, <1>4, <2>1, <2>2, <2>3, <2>4 DEF Joined
<1>6. /\ val \in Seq(T)
      /\ m.kind = "string" => Len(val) = b + 2 /\ Spelled(val, 0, v)
      /\ m.kind # "string" => /\ Len(val) = b + 6 /\ Spelled(val, 1, v)
                              /\ val[1] = "brace" /\ val[b + 4] = "colon"
                              /\ val[b + 5] = "null"
  <2>1. CASE m.kind = "string"
    BY <1>3, <2>1
  <2>2. CASE m.kind # "string"
    <3> DEFINE bw == br \o w
               o == bw \o end
    <3>1. /\ bw \in Seq(T) /\ Len(bw) = b + 3 /\ bw[1] = "brace" /\ Spelled(bw, 1, v)
      <4>1. bw \in Seq(T) /\ Joined(bw, br, w)
        BY <1>3, <1>4, ConcatAt
      <4>2. Spelled(bw, Len(br) + 0, v)
        BY <1>2, <1>3, <1>4, SpelledStays
      <4> HIDE DEF bw
      <4> QED  BY <1>2, <1>3, <1>4, <4>1, <4>2 DEF Joined
    <3> HIDE DEF bw
    <3>2. /\ o \in Seq(T) /\ Len(o) = b + 6 /\ o[1] = "brace" /\ Spelled(o, 1, v)
          /\ o[b + 4] = "colon" /\ o[b + 5] = "null"
      <4>1. o \in Seq(T) /\ Joined(o, bw, end)
        BY <1>4, <3>1, ConcatAt
      <4>2. Spelled(o, 1, v)
        BY <1>2, <1>4, <3>1, SpelledStays
      <4> HIDE DEF o
      <4>3. o[b + 3 + 1] = end[1] /\ o[b + 3 + 2] = end[2] /\ o[1] = bw[1]
        BY <1>2, <1>4, <3>1, <4>1 DEF Joined
      <4>4. b + 3 + 1 = b + 4 /\ b + 3 + 2 = b + 5
        BY <1>2
      <4> QED  BY <1>2, <1>4, <3>1, <4>1, <4>2, <4>3, <4>4 DEF Joined
    <3>3. val = o
      BY <2>2 DEF bw
    <3> HIDE DEF o, val
    <3> QED  BY <2>2, <3>2, <3>3
  <2> QED  BY <2>1, <2>2
<1> HIDE DEF x, val
<1>7. /\ y \in Seq(T) /\ Len(y) = a + 4 + Len(val) /\ Spelled(y, 0, e)
      /\ y[a + 3] = "colon" /\ y[a + 4] = "space"
      /\ m.kind = "string" => Spelled(y, a + 4, v)
      /\ m.kind # "string" => /\ Spelled(y, a + 5, v) /\ y[a + 5] = "brace"
                              /\ y[a + b + 8] = "colon" /\ y[a + b + 9] = "null"
  <2>1. y \in Seq(T) /\ Joined(y, x, val)
    BY <1>5, <1>6, ConcatAt
  <2>2. Spelled(y, 0, e)
    BY <1>2, <1>5, <1>6, SpelledStays
  <2>3. m.kind = "string" => Spelled(y, Len(x) + 0, v)
    BY <1>2, <1>5, <1>6, SpelledStays
  <2>4. m.kind # "string" => Spelled(y, Len(x) + 1, v)
    BY <1>2, <1>5, <1>6, SpelledStays
  <2> HIDE DEF y
  <2>5. y[a + 3] = x[a + 3] /\ y[a + 4] = x[a + 4]
    BY <1>2, <1>5, <2>1 DEF Joined
  <2>6. ASSUME m.kind # "string"
        PROVE  /\ y[a + 4 + 1] = val[1] /\ y[a + 4 + (b + 4)] = val[b + 4]
               /\ y[a + 4 + (b + 5)] = val[b + 5]
    <3>1. {1, b + 4, b + 5} \subseteq 1..Len(val)
      BY <1>2, <1>6, <2>6
    <3> QED  BY <1>5, <2>1, <3>1 DEF Joined
  <2>7. /\ a + 4 + 1 = a + 5 /\ a + 4 + (b + 4) = a + b + 8 /\ a + 4 + (b + 5) = a + b + 9
        /\ a + 4 + 0 = a + 4
    BY <1>2
  <2> QED  BY <1>5, <1>6, <2>1, <2>2, <2>3, <2>4, <2>5, <2>6, <2>7 DEF Joined
<1> HIDE DEF y
<1>8. /\ z \in Seq(T) /\ Len(z) = a + 5 + Len(val) /\ Spelled(z, 0, e)
      /\ z[a + 3] = "colon" /\ z[a + 4] = "space" /\ z[Len(z)] = "comma"
      /\ m.kind = "string" => Spelled(z, a + 4, v)
      /\ m.kind # "string" => /\ Spelled(z, a + 5, v) /\ z[a + 5] = "brace"
                              /\ z[a + b + 8] = "colon" /\ z[a + b + 9] = "null"
  <2>1. z \in Seq(T) /\ Joined(z, y, cm)
    BY <1>4, <1>6, <1>7, ConcatAt
  <2>2. Spelled(z, 0, e)
    BY <1>2, <1>4, <1>7, SpelledStays
  <2>3. m.kind = "string" => Spelled(z, a + 4, v)
    BY <1>2, <1>4, <1>7, SpelledStays
  <2>4. m.kind # "string" => Spelled(z, a + 5, v)
    BY <1>2, <1>4, <1>7, SpelledStays
  <2> HIDE DEF z
  <2>5. z[a + 3] = y[a + 3] /\ z[a + 4] = y[a + 4] /\ z[Len(z)] = "comma"
    BY <1>2, <1>4, <1>7, <2>1 DEF Joined
  <2>6. m.kind # "string" => /\ z[a + 5] = y[a + 5] /\ z[a + b + 8] = y[a + b + 8]
                             /\ z[a + b + 9] = y[a + b + 9]
    BY <1>2, <1>6, <1>7, <2>1 DEF Joined
  <2> QED  BY <1>2, <1>4, <1>6, <1>7, <2>1, <2>2, <2>3, <2>4, <2>5, <2>6 DEF Joined
<1> HIDE DEF z
<1>9. ASSUME m.kind = "string"
      PROVE  Len(z) = a + b + 7
  <2>1. Len(val) = b + 2 /\ Len(z) = a + 5 + Len(val)
    BY <1>6, <1>8, <1>9
  <2> QED  BY <1>2, <2>1
<1>10. ASSUME m.kind # "string"
       PROVE  Len(z) = a + b + 11
  <2>1. Len(val) = b + 6 /\ Len(z) = a + 5 + Len(val)
    BY <1>6, <1>8, <1>10
  <2> QED  BY <1>2, <2>1
<1>11. MemberShape(z, m)
  BY <1>8, <1>9, <1>10 DEF MemberShape, a, b, e, v
<1> QED  BY <1>1, <1>8, <1>11

(* A quote within quotes has a backslash before it.                        *)
LEMMA InnerQuote ==
    ASSUME NEW T, NEW e \in Seq(T), NEW ts, EscapeOf(e, ts), NEW x, NEW o \in Nat,
           Spelled(x, o, e), NEW i \in 1..Len(e), x[o + 1 + i] = "quote"
    PROVE  x[o + 1 + i - 1] = "backslash"
<1>1. e[i] = "quote"
  BY DEF Spelled
<1>2. i > 1 /\ e[i - 1] = "backslash"
  BY <1>1 DEF EscapeOf
<1>3. i - 1 \in 1..Len(e) /\ o + 1 + i - 1 = o + 1 + (i - 1) /\ Len(e) \in Nat
  BY <1>2
<1> QED  BY <1>2, <1>3 DEF Spelled

LEMMA LastTwo ==
    ASSUME NEW T, NEW k \in Seq(T), Len(k) > 1,
           k[Len(k) - 1] = "quote", k[Len(k)] = "name"
    PROVE  IsSuffix(<<"quote", "name">>, k)
<1> DEFINE S == {"quote", "name"}
           s == <<"quote", "name">>
           r == Reverse(s)
           t == Reverse(k)
<1>1. Len(s) = 2 /\ s[1] = "quote" /\ s[2] = "name" /\ Len(k) \in Nat
  OBVIOUS
<1>2. Len(r) = 2 /\ r[1] = "name" /\ r[2] = "quote"
  BY <1>1 DEF Reverse
<1>3. Len(t) = Len(k) /\ t[1] = "name" /\ t[2] = "quote"
  <2>1. 1 \in 1..Len(k) /\ 2 \in 1..Len(k) /\ Len(k) - 1 + 1 = Len(k) /\ Len(k) - 2 + 1 = Len(k) - 1
    BY <1>1
  <2>2. t[1] = k[Len(k) - 1 + 1] /\ t[2] = k[Len(k) - 2 + 1] /\ DOMAIN t = 1..Len(k)
    BY <2>1 DEF Reverse
  <2>3. t \in Seq(T)
    BY <1>1 DEF Reverse
  <2>4. Len(t) = Len(k)
    BY <1>1, <2>2, <2>3
  <2> QED  BY <2>1, <2>2, <2>4
<1> HIDE DEF r, t, s
<1>4. ASSUME NEW w, w[1] = "name", w[2] = "quote"
      PROVE  /\ SubSeq(w, 1, 2) \in Seq(S) /\ Len(SubSeq(w, 1, 2)) = 2
             /\ SubSeq(w, 1, 2)[1] = "name" /\ SubSeq(w, 1, 2)[2] = "quote"
  <2>1. \A i \in 1..2 : w[i] \in S
    <3>1. \A i \in 1..2 : i = 1 \/ i = 2
      OBVIOUS
    <3> QED  BY <1>4, <3>1
  <2> HIDE DEF S
  <2>2. /\ SubSeq(w, 1, 2) \in Seq(S)
        /\ Len(SubSeq(w, 1, 2)) = IF 1 <= 2 THEN 2 - 1 + 1 ELSE 0
        /\ \A i \in 1..(2 - 1 + 1) : SubSeq(w, 1, 2)[i] = w[1 + i - 1]
    BY <2>1, SubSeqProperties
  <2>3. SubSeq(w, 1, 2)[1] = w[1] /\ SubSeq(w, 1, 2)[2] = w[2]
    BY <2>2
  <2> QED  BY <1>4, <2>2, <2>3
<1>5. SubSeq(r, 1, 2) = SubSeq(t, 1, 2)
  <2> DEFINE x == SubSeq(r, 1, 2)
             y == SubSeq(t, 1, 2)
  <2>1. x \in Seq(S) /\ y \in Seq(S) /\ Len(x) = 2 /\ Len(y) = 2
        /\ x[1] = y[1] /\ x[2] = y[2]
    BY <1>2, <1>3, <1>4
  <2> HIDE DEF x, y, S
  <2>2. \A i \in 1..Len(x) : x[i] = y[i]
    BY <2>1
  <2>3. x = y
    BY <2>1, <2>2, SeqEqual
  <2> QED  BY <2>3 DEF x, y
<1>6. IsPrefix(r, t)
  BY <1>2, <1>3, <1>5 DEF IsPrefix
<1> QED  BY <1>6 DEF IsSuffix, r, t, s

(* From j on x has a quoted name, at q a quote opens a value, and up to the *)
(* quote at z the value is read as n.                                      *)
ValueFrom(x, j, q, z, n) ==
    /\ j + 2 < q
    /\ x[j] = "quote" /\ x[j + 1] = "name" /\ x[j + 2] = "quote"
    /\ \A i \in (j + 3)..(q - 1) : x[i] \in {"space", "colon"}
    /\ x[q] = "quote"
    /\ q < z /\ z <= Len(x) /\ x[z] = "quote"
    /\ Spells(x, q, z - 1, n)

(* A value that follows a quoted name, within a member's text, is the      *)
(* member's, and the name its key's.                                       *)
LEMMA ValueInMember ==
    ASSUME NEW T, Marks \subseteq T, NEW m, m.key \in Seq(T), m.value \in Seq(T),
           NEW x, MemberShape(x, m),
           NEW j \in Nat \ {0}, NEW q \in Nat, NEW z \in Nat, NEW n \in Seq(T),
           ValueFrom(x, j, q, z, n)
    PROVE  NameKey(m.key) /\ m.kind = "string" /\ Read(m.value) = n
<1> DEFINE e == Escaped(m.key)
           v == Escaped(m.value)
           a == Len(e)
           b == Len(v)
           p == j + 2
<1>1. /\ e \in Seq(T) /\ v \in Seq(T) /\ a \in Nat /\ b \in Nat
      /\ EscapeOf(e, m.key) /\ EscapeOf(v, m.value)
  BY EscapedIsEscape
<1>v. /\ j + 2 < q
      /\ x[j] = "quote" /\ x[j + 1] = "name" /\ x[j + 2] = "quote"
      /\ \A i \in (j + 3)..(q - 1) : x[i] \in {"space", "colon"}
      /\ x[q] = "quote"
      /\ q < z /\ z <= Len(x)
  BY DEF ValueFrom
<1> USE <1>v
<1>2. /\ Spelled(x, 0, e) /\ x[a + 3] = "colon" /\ x[a + 4] = "space" /\ x[Len(x)] = "comma"
      /\ m.kind = "string" => Len(x) = a + b + 7 /\ Spelled(x, a + 4, v)
      /\ m.kind # "string" => /\ Len(x) = a + b + 11 /\ Spelled(x, a + 5, v)
                              /\ x[a + 5] = "brace" /\ x[a + b + 8] = "colon"
                              /\ x[a + b + 9] = "null"
  BY DEF MemberShape
<1> HIDE DEF e, v, a, b
<1>3. /\ p \in Nat /\ p > 2 /\ p < q /\ q < Len(x) /\ x[p] = "quote" /\ x[p - 1] = "name"
      /\ x[p - 2] = "quote"
      /\ \A i \in Nat : p < i /\ i < q => x[i] \in {"space", "colon"}
  <2>1. p \in Nat /\ p > 2 /\ p < q /\ p - 1 = j + 1 /\ p - 2 = j
    OBVIOUS
  <2>2. q < Len(x)
    <3>1. Len(x) \in Nat
      BY <1>1, <1>2
    <3> QED  BY <3>1
  <2>3. \A i \in Nat : p < i /\ i < q => i \in (j + 3)..(q - 1)
    OBVIOUS
  <2> QED  BY <2>1, <2>2, <2>3
<1> HIDE DEF p
<1>n. a \in Nat /\ b \in Nat /\ p \in Nat /\ p > 2 /\ q \in Nat /\ p < q /\ q < Len(x)
  BY <1>1, <1>3
<1>4. ASSUME NEW w \in Seq(T), NEW ts, NEW o \in Nat, EscapeOf(w, ts), Spelled(x, o, w)
      PROVE  ~(o + 2 <= p /\ p <= o + Len(w) + 1)
  <2> SUFFICES ASSUME o + 2 <= p, p <= o + Len(w) + 1
               PROVE  FALSE
    OBVIOUS
  <2> DEFINE i == p - o - 1
  <2>1. i \in 1..Len(w) /\ o + 1 + i = p
    BY <1>n
  <2> HIDE DEF i
  <2>2. x[o + 1 + i] = "quote"
    BY <1>3, <2>1
  <2>3. x[o + 1 + i - 1] = "backslash"
    BY <1>4, <2>1, <2>2, InnerQuote
  <2>4. x[p - 1] = "backslash"
    BY <2>1, <2>3
  <2> QED  BY <1>3, <2>4
(* The quoted name is the end of the key.                                  *)
<1>5. p = a + 2
  <2>1. ~(2 <= p /\ p <= a + 1)
    <3>1. ~(0 + 2 <= p /\ p <= 0 + a + 1)
      BY <1>1, <1>2, <1>4 DEF a
    <3> QED  BY <1>1, <3>1
  <2>2. p # a + 3 /\ p # a + 4
    BY <1>2, <1>3
  <2>3. CASE m.kind = "string"
    <3>1. ~(a + 6 <= p /\ p <= a + 5 + b)
      <4>1. ~(a + 4 + 2 <= p /\ p <= a + 4 + b + 1)
        BY <1>1, <1>2, <1>4, <2>3 DEF b
      <4> QED  BY <1>1, <4>1
    <3>2. p # a + 5
      <4>1. p = a + 5 => x[a + 4] = "name"
        BY <1>1, <1>3
      <4> QED  BY <1>2, <4>1
    <3>3. p # a + b + 6
      <4> SUFFICES ASSUME p = a + b + 6
                   PROVE  FALSE
        OBVIOUS
      <4>1. q = Len(x)
        BY <1>1, <1>2, <1>3, <2>3
      <4> QED  BY <1>3, <4>1
    <3>4. p < a + b + 7
      BY <1>1, <1>2, <1>3, <2>3
    <3> QED  BY <1>n, <2>1, <2>2, <3>1, <3>2, <3>3, <3>4
  <2>4. CASE m.kind # "string"
    <3>1. ~(a + 7 <= p /\ p <= a + 6 + b)
      <4>1. ~(a + 5 + 2 <= p /\ p <= a + 5 + b + 1)
        BY <1>1, <1>2, <1>4, <2>4 DEF b
      <4> QED  BY <1>1, <4>1
    <3>2. p # a + 5 /\ p # a + 6
      <4>1. p = a + 6 => x[a + 5] = "name"
        BY <1>1, <1>3
      <4> QED  BY <1>2, <1>3, <2>4, <4>1
    <3>3. p # a + b + 7
      <4> SUFFICES ASSUME p = a + b + 7
                   PROVE  FALSE
        OBVIOUS
      <4>1. q # a + b + 8 /\ q # a + b + 9
        BY <1>2, <1>3, <2>4
      <4>2. p < a + b + 9 /\ a + b + 9 < q /\ a + b + 9 \in Nat
        BY <1>n, <4>1
      <4>3. x[a + b + 9] \in {"space", "colon"}
        BY <1>3, <4>2
      <4> QED  BY <1>2, <2>4, <4>3
    <3>4. p \notin {a + b + 8, a + b + 9, a + b + 11}
      BY <1>2, <1>3, <2>4
    <3>5. p # a + b + 10
      <4> SUFFICES ASSUME p = a + b + 10
                   PROVE  FALSE
        OBVIOUS
      <4>1. q = Len(x)
        BY <1>1, <1>2, <1>3, <2>4
      <4> QED  BY <1>3, <4>1
    <3>6. p < a + b + 11
      BY <1>1, <1>2, <1>3, <2>4
    <3> QED  BY <1>n, <2>1, <2>2, <3>1, <3>2, <3>3, <3>4, <3>5, <3>6
  <2> QED  BY <2>3, <2>4
<1>6. NameKey(m.key)
  <2>1. a > 0 /\ e[a] = "name"
    <3>1. a > 0 /\ a \in 1..a /\ 0 + 1 + a = p - 1
      BY <1>1, <1>3, <1>5
    <3>2. x[0 + 1 + a] = e[a]
      BY <1>2, <3>1 DEF Spelled, a
    <3> QED  BY <1>3, <3>1, <3>2
(* The quote before the name is no backslash, so the name is no escape.    *)
  <2>p. x[p - 2] = "quote" /\ (a > 1 => e[a - 1] = "quote")
    <3>1. ASSUME a > 1
          PROVE  e[a - 1] = "quote"
      <4>1. a - 1 \in 1..a /\ 0 + 1 + (a - 1) = p - 2
        BY <1>1, <1>5, <3>1
      <4>2. x[0 + 1 + (a - 1)] = e[a - 1]
        BY <1>2, <4>1 DEF Spelled, a
      <4> QED  BY <1>3, <4>1, <4>2
    <3> QED  BY <1>3, <3>1
  <2> DEFINE k == m.key
             h == Len(k)
  <2>k. k \in Seq(T) /\ h \in Nat
    OBVIOUS
  <2>2. /\ h > 0 /\ e[a] = Said(k[h])
        /\ k[h] \in DOMAIN Letter => a > 1 /\ e[a - 1] = "backslash"
        /\ k[h] \notin DOMAIN Letter =>
              \/ a = 1 /\ h = 1
              \/ a > 1 /\ h > 1 /\ e[a - 1] = Said(k[h - 1])
    BY <1>1, <2>1 DEF EscapeOf, a
  <2> HIDE DEF k, h
  <2>3. k[h] \notin DOMAIN Letter /\ k[h] = "name"
    <3>1. k[h] \notin DOMAIN Letter
      BY <2>2, <2>p
    <3> QED  BY <2>1, <2>2, <3>1 DEF Said
  <2>4. CASE a = 1 /\ h = 1
    <3>1. k = <<"name">>
      BY <2>3, <2>4, <2>k DEF h
    <3> QED  BY <3>1 DEF NameKey, k
  <2>5. CASE a > 1 /\ h > 1 /\ e[a - 1] = Said(k[h - 1])
    <3>1. Said(k[h - 1]) = "quote"
      BY <2>5, <2>p
    <3>2. k[h - 1] = "quote"
      BY <3>1, LetterAssumption DEF Said
    <3>3. IsSuffix(<<"quote", "name">>, k)
      BY <2>3, <2>5, <2>k, <3>2, LastTwo DEF h
    <3> QED  BY <3>3 DEF NameKey, k
  <2> QED  BY <2>2, <2>3, <2>4, <2>5
(* The value is a string, and it opens with the quote that was found.      *)
<1>7. m.kind = "string" /\ q = a + 5
  <2>1. q # a + 3 /\ q # a + 4 /\ q > a + 2
    BY <1>2, <1>3, <1>5
  <2>2. q >= a + 5
    BY <1>n, <2>1
  <2>3. x[a + 5] \notin {"space", "colon"} => q = a + 5
    <3>1. a + 5 \in Nat /\ p < a + 5
      BY <1>n, <1>5
    <3>2. a + 5 < q => x[a + 5] \in {"space", "colon"}
      BY <1>3, <3>1
    <3>3. q = a + 5 \/ a + 5 < q
      BY <1>n, <2>2
    <3> QED  BY <3>2, <3>3
  <2>4. CASE m.kind = "string"
    <3>1. x[a + 5] = "quote"
      <4>1. x[a + 4 + 1] = "quote" /\ a + 4 + 1 = a + 5
        BY <1>1, <1>2, <2>4 DEF Spelled
      <4> QED  BY <4>1
    <3> QED  BY <2>3, <2>4, <3>1
  <2>5. CASE m.kind # "string"
    <3>1. x[a + 5] = "brace"
      BY <1>2, <2>5
    <3>2. q = a + 5
      BY <2>3, <3>1
    <3> QED  BY <3>1, <3>2
  <2> QED  BY <2>4, <2>5
<1>8. Read(m.value) = n
  <2>1. /\ Spelled(x, a + 4, v) /\ \A i \in 1..b : x[q + i] = v[i]
        /\ x[q + b + 1] = "quote"
    <3>1. Spelled(x, a + 4, v)
      BY <1>2, <1>7
    <3>2. x[a + 4 + b + 2] = "quote" /\ \A i \in 1..b : x[a + 4 + 1 + i] = v[i]
      BY <3>1 DEF Spelled, b
    <3>3. a + 4 + b + 2 = q + b + 1 /\ \A i \in 1..b : a + 4 + 1 + i = q + i
      BY <1>1, <1>7
    <3> QED  BY <3>1, <3>2, <3>3
  <2> DEFINE r == Read(m.value)
             l == q + b
             y == z - 1
  <2>2. r \in Seq(T) /\ Spells(v, 0, b, r)
    <3>1. r \in Seq(T)
      BY ReadSays
    <3>2. Spells(v, 0, Len(v), Read(m.value))
      BY <1>1 DEF EscapeOf
    <3> QED  BY <3>1, <3>2 DEF b
  <2>3. Spells(x, q, l, r)
    <3> DEFINE o == 0
    <3>0. o \in Nat /\ b \in Nat /\ q \in Int /\ r \in Seq(T) /\ Spells(v, o, b, r)
      BY <1>1, <2>2
    <3>1. \A i \in (o + 1)..b : x[i + q] = v[i]
      <4> TAKE i \in (o + 1)..b
      <4>1. i \in 1..b /\ i + q = q + i
        BY <1>1
      <4> QED  BY <2>1, <4>1
    <3>3. o + q = q /\ b + q = l
      BY <1>1
    <3> HIDE DEF r, o, l
    <3>2. Spells(x, o + q, b + q, r)
      BY <3>0, <3>1, SpellsShift
    <3> QED  BY <3>2, <3>3
  <2>4. Spells(x, q, y, n)
    BY DEF ValueFrom
  <2>5. y \in Nat /\ y + 1 = z /\ l \in Nat /\ l + 1 = q + b + 1 /\ x[z] = "quote"
    BY <1>1 DEF ValueFrom
  <2> HIDE DEF r, l, y
  <2>6. x[y + 1] = "quote" /\ x[l + 1] = "quote"
    BY <2>1, <2>5
  <2>7. r = n
    BY <2>2, <2>3, <2>4, <2>5, <2>6, SpellsOnce
  <2> QED  BY <2>7 DEF r
<1> QED  BY <1>6, <1>7, <1>8

(* For any body, any escapes in it, any tools whose names have no comma,   *)
(* any size of a chunk and any limit: the hint that find_tool_hint gives   *)
(* is the value of a name of the body, as it reads with each escape taken  *)
(* for its letter (mcp_registry.rs).                                       *)
THEOREM HintsAreNames ==
    ASSUME NEW members, IsBody(members)
    PROVE  HintIsNamed(members)
<1> SUFFICES ASSUME Hint(Text(members)) # NoHint
             PROVE  Hint(Text(members)) \in Names(members)
  BY DEF HintIsNamed
<1> DEFINE T == Marks \cup UNION {ToSet(members[i].key) \cup ToSet(members[i].value) :
                                     i \in DOMAIN members}
           ss == [i \in DOMAIN members |-> MemberText(members[i])]
           ts == Text(members)
           n == Hint(ts)
<1>1. \A i \in DOMAIN members : members[i].key \in Seq(T) /\ members[i].value \in Seq(T)
  <2> TAKE i \in DOMAIN members
  <2> DEFINE K == ToSet(members[i].key)
             V == ToSet(members[i].value)
  <2>1. members[i].key \in Seq(K) /\ members[i].value \in Seq(V)
    BY DEF IsBody
  <2>2. K \subseteq T /\ V \subseteq T
    OBVIOUS
  <2> HIDE DEF K, V, T
  <2> QED  BY <2>1, <2>2
<1>2. Marks \subseteq T
  OBVIOUS
<1> HIDE DEF T
<1>3. \A i \in DOMAIN members : ss[i] \in Seq(T) /\ MemberShape(ss[i], members[i])
  BY <1>1, <1>2, MemberTextShape
<1>4. ss \in Seq(Seq(T)) /\ DOMAIN ss = DOMAIN members /\ ts = FlattenSeq(ss)
  <2>1. Len(members) \in Nat /\ DOMAIN members = 1..Len(members)
    BY DEF IsBody
  <2>2. DOMAIN ss = DOMAIN members /\ ts = FlattenSeq(ss)
    BY DEF Text
  <2> HIDE DEF ss
  <2>3. ss \in [1..Len(members) -> Seq(T)]
    BY <1>3, <2>1, <2>2 DEF ss
  <2> QED  BY <2>1, <2>2, <2>3
<1> HIDE DEF ss, ts
<1>5. ts \in Seq(T)
  BY <1>4, FlattenCovers
<1>6. n \in Registered /\ n \in Seq(T) /\ ValueAt(ts, n)
  BY <1>5, HintIsValue DEF ts
<1> HIDE DEF n
<1>7. \A i \in 1..Len(n) : n[i] # "comma"
  <2>1. "comma" \notin {n[i] : i \in DOMAIN n} /\ DOMAIN n = 1..Len(n)
    BY <1>6, RegisteredAssumption DEF ToSet
  <2> QED  BY <2>1
<1>8. PICK q \in Nat \ {0}, z \in Nat :
         /\ OpensAt(ts, q)
         /\ q < z /\ z <= Len(ts) /\ ts[z] = "quote"
         /\ Spells(ts, q, z - 1, n)
  BY <1>6 DEF ValueAt
<1>9. PICK j \in Nat \ {0} :
         /\ j + 2 <= q - 1
         /\ ts[j] = "quote" /\ ts[j + 1] = "name" /\ ts[j + 2] = "quote"
         /\ \A i \in (j + 3)..(q - 1) : ts[i] \in {"space", "colon"}
  BY <1>8 DEF OpensAt, KeyBefore
<1>10. ts[q] = "quote"
  BY <1>8 DEF OpensAt
<1>11. \A k \in (q + 1)..(z - 1) : ts[k] # "comma"
  BY <1>7, <1>8 DEF Spells
(* All of it is in one member, whose text ends in the next comma.          *)
<1>12. \A k \in j..z : ts[k] # "comma"
  <2> TAKE k \in j..z
  <2>1. \/ k \in {j, j + 1, j + 2, q, z}
        \/ k \in (j + 3)..(q - 1)
        \/ k \in (q + 1)..(z - 1)
    BY <1>8, <1>9
  <2> QED  BY <1>8, <1>9, <1>10, <1>11, <2>1
<1>13. \A i \in DOMAIN ss : Len(ss[i]) > 0 /\ ss[i][Len(ss[i])] = "comma"
  <2> TAKE i \in DOMAIN ss
  <2>1. MemberShape(ss[i], members[i]) /\ ss[i] \in Seq(T)
    BY <1>3, <1>4
  <2> QED  BY <2>1 DEF MemberShape, Spelled
<1>14. PICK i \in DOMAIN ss, o \in Nat :
          /\ o < j /\ z <= o + Len(ss[i])
          /\ \A k \in 1..Len(ss[i]) : ts[o + k] = ss[i][k]
  <2>1. j \in Nat /\ z \in Nat /\ 0 < j /\ j <= z /\ z <= Len(FlattenSeq(ss))
    BY <1>4, <1>8, <1>9
  <2>2. \A k \in j..z : FlattenSeq(ss)[k] # "comma"
    BY <1>4, <1>12
  <2>3. OneMember(ss, j, z)
    BY <1>4, <1>13, <2>1, <2>2, FlattenWindow
  <2> QED  BY <1>4, <2>3 DEF OneMember
<1> DEFINE x == ss[i]
           jj == j - o
           qq == q - o
           zz == z - o
<1>15. /\ x \in Seq(T) /\ MemberShape(x, members[i]) /\ Len(x) \in Nat
       /\ i \in DOMAIN members
  BY <1>3, <1>4
<1> HIDE DEF x
<1>16. \A k \in j..z : k - o \in 1..Len(x) /\ ts[k] = x[k - o]
  <2> TAKE k \in j..z
  <2>1. k - o \in 1..Len(x) /\ o + (k - o) = k
    BY <1>8, <1>14, <1>15 DEF x
  <2> QED  BY <1>14, <2>1 DEF x
<1>17. /\ jj \in Nat \ {0} /\ qq \in Nat /\ jj + 2 < qq
       /\ x[jj] = "quote" /\ x[jj + 1] = "name" /\ x[jj + 2] = "quote" /\ x[qq] = "quote"
  <2>1. /\ j \in j..z /\ j + 1 \in j..z /\ j + 2 \in j..z /\ q \in j..z
        /\ j + 1 - o = jj + 1 /\ j + 2 - o = jj + 2
    BY <1>8, <1>9
  <2>2. /\ jj \in Nat \ {0} /\ qq \in Nat /\ jj + 2 < qq
    BY <1>9, <1>14
  <2>3. x[j - o] = "quote" /\ x[j + 1 - o] = "name" /\ x[j + 2 - o] = "quote" /\ x[q - o] = "quote"
    BY <1>9, <1>10, <1>16, <2>1
  <2> QED  BY <2>1, <2>2, <2>3
<1>18. \A k \in (jj + 3)..(qq - 1) : x[k] \in {"space", "colon"}
  <2> TAKE k \in (jj + 3)..(qq - 1)
  <2>1. o + k \in (j + 3)..(q - 1) /\ o + k \in j..z /\ o + k - o = k
    BY <1>8, <1>9
  <2>2. ts[o + k] \in {"space", "colon"}
    BY <1>9, <2>1
  <2> DEFINE l == o + k
  <2>l. l \in j..z
    BY <2>1
  <2>3. ts[o + k] = x[o + k - o]
    <3> HIDE DEF l
    <3>1. ts[l] = x[l - o]
      BY <1>16, <2>l
    <3> QED  BY <3>1 DEF l
  <2> QED  BY <2>1, <2>2, <2>3
<1>19. zz \in Nat /\ qq < zz /\ zz <= Len(x) /\ x[zz] = "quote"
  <2>1. z \in j..z
    BY <1>8, <1>9
  <2>2. zz \in 1..Len(x) /\ ts[z] = x[zz]
    BY <1>16, <2>1
  <2> QED  BY <1>8, <1>15, <2>2
<1>20. Spells(x, qq, zz - 1, n)
  <2> DEFINE d == 0 - o
             y == z - 1
  <2>1. d \in Int /\ q + d = qq /\ y + d = zz - 1 /\ y \in Nat
    BY <1>8, <1>14
  <2>2. ASSUME NEW k \in (q + 1)..y
        PROVE  x[k + d] = ts[k]
    <3>1. k \in j..z /\ k + d = k - o
      BY <1>8, <1>9
    <3> HIDE DEF d
    <3>2. ts[k] = x[k - o]
      BY <1>16, <3>1
    <3> QED  BY <3>1, <3>2
  <2>3. Spells(ts, q, y, n)
    BY <1>8
  <2> HIDE DEF d, y, qq, zz
  <2>4. Spells(x, q + d, y + d, n)
    BY <1>6, <1>8, <2>1, <2>2, <2>3, SpellsShift
  <2> QED  BY <2>1, <2>4
<1> HIDE DEF jj, qq, zz
<1>v. ValueFrom(x, jj, qq, zz, n)
  BY <1>17, <1>18, <1>19, <1>20 DEF ValueFrom
<1>w. NameKey(members[i].key) /\ members[i].kind = "string" /\ Read(members[i].value) = n
  BY <1>1, <1>2, <1>6, <1>15, <1>17, <1>19, <1>v, ValueInMember
<1>21. n \in Names(members)
  BY <1>6, <1>15, <1>w DEF Names
<1> QED  BY <1>21 DEF n, ts

-----------------------------------------------------------------------------
(* What a tenant is shown of a tool.                                       *)

Named(q, key) ==
    /\ claims[q] # Nothing /\ claims[q].tenant = key[1]
    /\ key[2] \in Names(ask[q].body)

(* Claims are there from authentication on; a warm-up runs for a request   *)
(* that has them and named the tool; and each outcome, and whatever was    *)
(* shown of one, goes back to such a request.                              *)
Granted(r) ==
    /\ pc[r] \in Inside => claims[r] # Nothing
    /\ claims[r] # Nothing => pc[r] # "arrived"

Earned(r) ==
    /\ warming[r] # NoHint => claims[r] # Nothing /\ warming[r] \in Names(ask[r].body)
    /\ shown[r] # Nothing =>
          /\ claims[r] # Nothing
          /\ \A n \in Registered : shown[r][n] # "idle" =>
                \E q \in Request : Named(q, <<claims[r].tenant, n>>)

OutcomesAreNamed == \A key \in DOMAIN warmed : \E q \in Request : Named(q, key)

EarnedInv ==
    /\ TenantInv
    /\ \A r \in Request : Granted(r) /\ Earned(r)
    /\ OutcomesAreNamed

LEMMA EarnedInit == Init => EarnedInv
<1> SUFFICES ASSUME Init PROVE EarnedInv
  OBVIOUS
<1>1. DOMAIN warmed = {}
  BY DEF Init
<1> QED  BY <1>1, TenantInit DEF Init, EarnedInv, Granted, Earned, OutcomesAreNamed, Inside

(* What is granted is something.                                           *)
LEMMA EntersWithClaims ==
    ASSUME TenantInv, NEW r \in Request, Local(r) \/ WithKey(r) \/ WithJwt(r)
    PROVE  claims'[r] # Nothing
<1>0. ask[r] \in Arrivals /\ DOMAIN claims = Request
  BY DEF TenantInv, Shaped
<1>1. claims'[r] \in Grants
  <2>1. CASE Local(r)
    BY <1>0, <2>1 DEF Local, Enters, Grants
  <2>2. CASE WithKey(r)
    BY <1>0, <2>2 DEF WithKey, Enters, Grants
  <2>3. CASE WithJwt(r)
    BY <1>0, <2>3 DEF WithJwt, Enters, Grants
  <2> QED  BY <2>1, <2>2, <2>3
<1> QED  BY <1>1, NothingAssumption

(* Who has named a tool has done so for good.                              *)
LEMMA NamedStays ==
    ASSUME TenantInv, \A q \in Request : Granted(q), [Next]_vars,
           NEW q \in Request, NEW key, Named(q, key)
    PROVE  Named(q, key)'
<1> USE DEF vars, identity, passage, warmUps
<1>1. ask'[q] = ask[q]
  BY DEF Next, Tick, Layer, Warm, Authenticate, Reject, Bill, Malformed, Handle,
         RequireAdmin, Show, Charge, WarmEnds
<1>2. claims'[q] = claims[q]
  <2>1. ASSUME NEW r \in Request, Authenticate(r)
        PROVE  claims'[q] = claims[q]
    <3>1. r # q
      BY <2>1 DEF Authenticate, Goes, Granted, Named
    <3> QED  BY <2>1, <3>1, EntersAsOwner DEF Authenticate
  <2> QED  BY <2>1 DEF Next, Tick, Layer, Warm, Reject, Bill, Malformed, Handle,
                       RequireAdmin, Show, Charge, WarmEnds
<1> QED  BY <1>1, <1>2 DEF Named

LEMMA GrantedStep ==
    ASSUME EarnedInv, [Next]_vars, NEW q \in Request
    PROVE  Granted(q)'
<1> USE DEF vars, identity, passage, warmUps
<1>1. ASSUME NEW r \in Request, Authenticate(r)
      PROVE  Granted(q)'
  <2>1. claims'[r] # Nothing /\ \A p \in Request \ {r} : claims'[p] = claims[p]
    BY <1>1, EntersWithClaims, EntersAsOwner DEF Authenticate, EarnedInv
  <2>2. pc'[r] = "authenticated" /\ \A p \in Request \ {r} : pc'[p] = pc[p]
    BY <1>1 DEF Authenticate, Goes, EarnedInv, TenantInv, Shaped
  <2> QED  BY <2>1, <2>2 DEF EarnedInv, Granted
<1>2. CASE \A r \in Request : ~Authenticate(r)
  <2>1. claims' = claims
    BY <1>2 DEF Next, Tick, Layer, Warm, Reject, Bill, Malformed, Handle, RequireAdmin,
                Show, Charge, WarmEnds
  <2>2. (pc'[q] \in Inside => pc[q] \in Inside) /\ (pc'[q] = "arrived" => pc[q] = "arrived")
    <3>1. CASE pc' = pc
      BY <3>1
    <3>2. ASSUME NEW r \in Request, NEW from \in Inside, NEW to \in Inside \cup {"rejected"},
                 Goes(r, from, to)
          PROVE  (pc'[q] \in Inside => pc[q] \in Inside)
                 /\ (pc'[q] = "arrived" => pc[q] = "arrived")
      BY <3>2 DEF Goes, Inside, EarnedInv, TenantInv, Shaped
    <3>3. ASSUME NEW r \in Request, Reject(r)
          PROVE  (pc'[q] \in Inside => pc[q] \in Inside)
                 /\ (pc'[q] = "arrived" => pc[q] = "arrived")
      BY <3>3 DEF Reject, Goes, Inside, EarnedInv, TenantInv, Shaped
    <3>4. \/ pc' = pc
          \/ \E r \in Request : Reject(r)
          \/ \E r \in Request, from \in Inside, to \in Inside \cup {"rejected"} :
                Goes(r, from, to)
      BY <1>2 DEF Next, Tick, Layer, Warm, Bill, Malformed, Handle, RequireAdmin, Show,
                  Charge, WarmEnds, Inside
    <3> QED  BY <3>1, <3>2, <3>3, <3>4
  <2> QED  BY <2>1, <2>2 DEF EarnedInv, Granted
<1> QED  BY <1>1, <1>2

LEMMA EarnedStep == EarnedInv /\ [Next]_vars => EarnedInv'
<1> SUFFICES ASSUME EarnedInv, [Next]_vars
             PROVE  EarnedInv'
  OBVIOUS
<1>1. TenantInv'
  BY TenantStep DEF EarnedInv
<1>2. \A q \in Request : Granted(q)'
  BY GrantedStep
<1>3. ASSUME NEW key, \E q \in Request : Named(q, key)
      PROVE  \E q \in Request : Named(q, key)'
  BY <1>3, NamedStays DEF EarnedInv
(* A request with claims keeps them, and what it arrived with.             *)
<1>4. ASSUME NEW r \in Request, claims[r] # Nothing
      PROVE  claims'[r] = claims[r] /\ ask'[r] = ask[r]
  <2>2. ask' = ask
    BY DEF Next, Tick, Layer, Warm, Authenticate, Reject, Bill, Malformed, Handle,
           RequireAdmin, Show, Charge, WarmEnds, vars
  <2>3. ASSUME NEW q \in Request, Authenticate(q)
        PROVE  claims'[r] = claims[r]
    <3>1. r # q
      BY <1>4, <2>3 DEF Authenticate, Goes, Granted, EarnedInv
    <3> QED  BY <2>3, <3>1, EntersAsOwner DEF Authenticate, EarnedInv
  <2> QED  BY <2>2, <2>3 DEF Next, Tick, Layer, Warm, Reject, Bill, Malformed, Handle,
                       RequireAdmin, Show, Charge, WarmEnds, vars, identity
(* If nothing is warmed or shown, what was earned stays so.                *)
<1>5. ASSUME NEW r \in Request, warming'[r] = warming[r], shown'[r] = shown[r]
      PROVE  Earned(r)'
  <2>1. Earned(r)
    BY DEF EarnedInv
  <2> QED  BY <1>3, <1>4, <1>5, <2>1 DEF Earned
<1>6. ASSUME warmed' = warmed
      PROVE  OutcomesAreNamed'
  BY <1>3, <1>6 DEF EarnedInv, OutcomesAreNamed
<1>s. Shaped
  BY DEF EarnedInv, TenantInv
<1>7. CASE \E r \in Request : Handle(r)
  <2> PICK r \in Request : Handle(r)
    BY <1>7
  <2>1. /\ \A q \in Request \ {r} : warming'[q] = warming[q]
        /\ shown' = shown /\ warmed' = warmed
        /\ warming'[r] \in {warming[r], Hint(Text(ask[r].body))}
    BY <1>s DEF Handle, Shaped
  <2>2. claims[r] # Nothing /\ claims'[r] = claims[r] /\ ask'[r] = ask[r]
    <3>1. pc[r] \in Inside
      BY DEF Handle, Goes, Inside
    <3> QED  BY <1>4, <3>1 DEF EarnedInv, Granted
  <2>3. Hint(Text(ask[r].body)) # NoHint => Hint(Text(ask[r].body)) \in Names(ask[r].body)
    <3>1. IsBody(ask[r].body)
      BY <1>s, ArrivalsAssumption DEF Shaped
    <3>2. HintIsNamed(ask[r].body)
      BY <3>1, HintsAreNames
    <3> QED  BY <3>2 DEF HintIsNamed
  <2>4. Earned(r)'
    <3>1. Earned(r)
      BY DEF EarnedInv
    <3> QED  BY <1>3, <2>1, <2>2, <2>3, <3>1 DEF Earned
  <2> QED  BY <1>1, <1>2, <1>5, <1>6, <2>1, <2>4 DEF EarnedInv
<1>8. CASE \E r \in Request : \E ok \in BOOLEAN : WarmEnds(r, ok)
  <2> PICK r \in Request, ok \in BOOLEAN : WarmEnds(r, ok)
    BY <1>8
  <2>1. /\ DOMAIN warmed' = DOMAIN warmed \cup {<<claims[r].tenant, warming[r]>>}
        /\ warming[r] # NoHint /\ warming'[r] = NoHint /\ shown' = shown
        /\ \A q \in Request \ {r} : warming'[q] = warming[q]
    BY <1>s DEF WarmEnds, Shaped
  <2>2. Named(r, <<claims[r].tenant, warming[r]>>)
    BY <2>1 DEF EarnedInv, Earned, Named
  <2>3. OutcomesAreNamed'
    BY <1>3, <2>1, <2>2 DEF EarnedInv, OutcomesAreNamed
  <2>4. Earned(r)'
    <3>1. Earned(r)
      BY DEF EarnedInv
    <3> QED  BY <1>3, <1>4, <2>1, <3>1 DEF Earned
  <2> QED  BY <1>1, <1>2, <1>5, <2>1, <2>3, <2>4 DEF EarnedInv
<1>9. CASE \E r \in Request : Show(r)
  <2> PICK r \in Request : Show(r)
    BY <1>9
  <2>1. /\ warming' = warming /\ warmed' = warmed
        /\ \A q \in Request \ {r} : shown'[q] = shown[q]
        /\ shown'[r] = [n \in Registered |-> Status(claims[r].tenant, n)]
    BY <1>s DEF Show, Shaped, warmUps
  <2>2. claims[r] # Nothing /\ claims'[r] = claims[r] /\ ask'[r] = ask[r]
    <3>1. pc[r] \in Inside
      BY DEF Show, Goes, Inside
    <3> QED  BY <1>4, <3>1 DEF EarnedInv, Granted
  <2>3. ASSUME NEW n \in Registered, shown'[r][n] # "idle"
        PROVE  \E q \in Request : Named(q, <<claims[r].tenant, n>>)
    <3>1. <<claims[r].tenant, n>> \in DOMAIN warmed
      BY <2>1, <2>3 DEF Status
    <3> QED  BY <3>1 DEF EarnedInv, OutcomesAreNamed
  <2>4. Earned(r)'
    <3>1. Earned(r)
      BY DEF EarnedInv
    <3> QED  BY <1>3, <2>1, <2>2, <2>3, <3>1 DEF Earned
  <2> QED  BY <1>1, <1>2, <1>5, <1>6, <2>1, <2>4 DEF EarnedInv
<1>10. CASE /\ \A r \in Request : ~Handle(r) /\ ~Show(r)
            /\ \A r \in Request : \A ok \in BOOLEAN : ~WarmEnds(r, ok)
  <2>1. UNCHANGED <<warming, shown, warmed>>
    BY <1>10 DEF Next, Tick, Layer, Warm, Authenticate, Reject, Bill, Malformed,
                 RequireAdmin, Charge, vars, warmUps
  <2> QED  BY <1>1, <1>2, <1>5, <1>6, <2>1 DEF EarnedInv
<1> QED  BY <1>7, <1>8, <1>9, <1>10

(* No tenant is shown a state of a tool but through a request of its own   *)
(* whose body has the name as the scanner reads it, an escape taken for    *)
(* its letter, with any number of requests, any bodies, tenants,           *)
(* spellings of their ids and tools, and however warm-ups end              *)
(* (mcp_registry.rs, handlers.rs).                                         *)
THEOREM StatusFollowsNames == Spec => []StatusIsEarned
<1>1. EarnedInv => StatusIsEarned
  BY DEF EarnedInv, TenantInv, Identified, Earned, Named, StatusIsEarned
<1>2. EarnedInv /\ [Next]_vars => EarnedInv'
  BY EarnedStep
<1> QED  BY <1>1, <1>2, EarnedInit, PTL DEF Spec
====
