---- MODULE Ingress ----
(***************************************************************************)
(* The way of a request from the socket to the proxy: trace context,       *)
(* authentication, then for chat the billing guard, the rate limiter and   *)
(* the handler with its session and its warm-up of an MCP server, and the  *)
(* admin and registry routes.  Each layer is a step; requests interleave.  *)
(*                                                                         *)
(* A tenant id is <<tenant, spelling>>: a UUID has more than one, and the  *)
(* one that Uuid prints is canonical.                                      *)
(***************************************************************************)
EXTENDS Naturals, Sequences, NameScanner

CONSTANTS
    Request,
    Zero,           \* the tenant of the open-source build
    Nothing,        \* what is not there: a header, a token, claims
    Arrivals,       \* what a client may send
    Permits,        \* warm-ups in flight at most, 20
    Seconds,        \* bound: seconds that pass
    Production      \* APP_ENV

ASSUME ArrivalsAssumption == \A a \in Arrivals : IsBody(a.body)

Id(t) == <<t, "canonical">>

Canonical(id) == Id(id[1])

VARIABLES
    pc,             \* where a request is: the layer it has passed, or its end
    ask,            \* what it arrived with
    header,         \* x-tenant-id as it is now
    claims,         \* Claims of the request's extensions
    balance,        \* whose balance was looked up
    charged,        \* whose bucket the rate limiter charges
    session,        \* session of an agentic request
    scenario,       \* whether the test scenario reaches the proxy
    warming,        \* the tool a request's warm-up is for
    free,           \* permits of prefetch_sem
    warmed,         \* tenant and tool -> outcome of the last warm-up to end
    shown,          \* what GET /v1/mcp/registry answered
    second

identity == <<header, claims>>
passage == <<balance, charged, session, scenario>>
warmUps == <<warming, free, warmed>>
vars == <<pc, ask, identity, passage, warmUps, shown, second>>

Init ==
    /\ ask \in [Request -> Arrivals]
    /\ pc = [r \in Request |-> "arrived"]
    /\ header = [r \in Request |-> ask[r].header]
    /\ claims = [r \in Request |-> Nothing]
    /\ balance = [r \in Request |-> Nothing]
    /\ charged = [r \in Request |-> Nothing]
    /\ session = [r \in Request |-> Nothing]
    /\ scenario = [r \in Request |-> FALSE]
    /\ warming = [r \in Request |-> NoHint]
    /\ free = Permits
    /\ warmed = << >>
    /\ shown = [r \in Request |-> Nothing]
    /\ second = 0

Goes(r, from, to) == pc[r] = from /\ pc' = [pc EXCEPT ![r] = to]

-----------------------------------------------------------------------------
(* auth_middleware. *)

(* Bearer before x-api-key, which takes no JWT, before the cookie. *)
HasApiKey(a) == a.key # Nothing /\ a.key.kind = "key"

Token(a) ==
    IF a.bearer # Nothing THEN a.bearer ELSE IF HasApiKey(a) THEN a.key ELSE a.cookie

(* A cookie changes state only with x-csrf-token next to it. *)
NeedsCsrf(a) == a.bearer = Nothing /\ ~HasApiKey(a) /\ a.route # "mcp"

(* resolve_api_key and verify_jwt, and what handle_jwt asks of the token.  *)
KeyHolds(a) ==
    LET t == Token(a) IN t # Nothing /\ t.kind = "key" /\ t.good

JwtHolds(a) ==
    LET t == Token(a) IN
    /\ t # Nothing /\ t.kind = "jwt" /\ t.good
    /\ NeedsCsrf(a) => a.csrf
    /\ t.tenant[2] # "no uuid"

Claims(id, admin, alias) == [tenant |-> id, admin |-> admin, alias |-> alias]

JwtClaims(a) ==
    LET t == Token(a)
    IN Claims(t.tenant, t.admin, IF t.alias # Nothing THEN t.alias ELSE a.alias)

(* All that may be granted. *)
Grants ==
    {Claims(Id(Zero), TRUE, Nothing)}
    \cup {Claims(Id(Zero), FALSE, a.alias) : a \in Arrivals}
    \cup {JwtClaims(a) : a \in {b \in Arrivals : JwtHolds(b)}}

ASSUME NothingAssumption == Nothing \notin Grants

EntersAppending(r, c) ==                           \* mutant of Enters
    /\ header' = [header EXCEPT ![r] = IF @ = Nothing THEN Canonical(c.tenant) ELSE @]
    /\ claims' = [claims EXCEPT ![r] = c]

(* The header is the UUID as parsed, the claims are the token's.           *)
Enters(r, c) ==
    /\ header' = [header EXCEPT ![r] = Canonical(c.tenant)]
    /\ claims' = [claims EXCEPT ![r] = c]

Local(r) ==
    /\ ask[r].local
    /\ Enters(r, Claims(Id(Zero), TRUE, Nothing))

(* resolve_api_key knows of one tenant. *)
WithKey(r) ==
    /\ ~ask[r].local /\ KeyHolds(ask[r])
    /\ Enters(r, Claims(Id(Zero), FALSE, ask[r].alias))

WithJwt(r) ==
    /\ ~ask[r].local /\ JwtHolds(ask[r])
    /\ Enters(r, JwtClaims(ask[r]))

Authenticate(r) ==
    /\ Goes(r, "arrived", "authenticated")
    /\ Local(r) \/ WithKey(r) \/ WithJwt(r)
    /\ UNCHANGED <<ask, passage, warmUps, shown, second>>

Reject(r) ==
    /\ Goes(r, "arrived", "rejected")
    /\ ~ask[r].local /\ ~KeyHolds(ask[r]) /\ ~JwtHolds(ask[r])
    /\ UNCHANGED <<ask, identity, passage, warmUps, shown, second>>

-----------------------------------------------------------------------------
(* The layers of a chat route. *)

Bill(r) ==
    /\ ask[r].route = "chat"
    /\ Goes(r, "authenticated", "billed")
    /\ balance' = [balance EXCEPT ![r] = header[r]]
    /\ UNCHANGED <<ask, identity, charged, session, scenario, warmUps, shown, second>>

(* Whether the bucket is full is for RateLimiter to say. *)
Charge(r, full) ==
    /\ Goes(r, "billed", IF full THEN "rejected" ELSE "charged")
    /\ charged' = [charged EXCEPT ![r] = header[r]]
    /\ UNCHANGED <<ask, identity, balance, session, scenario, warmUps, shown, second>>

(* extract_test_scenario *)
MayRehearse(r) ==
    \/ ~Production
    \/ claims[r].admin
    \/ claims[r].alias = "internal_test"

(* resolve_session_id: the client's as it is, the tenant and the           *)
(* idempotency key in one string, or a hash with the second and the head   *)
(* of the body in it.  All are strings, so a client's may be any of them.  *)
Session(r) ==
    LET a == ask[r] IN
    CASE a.session # Nothing -> a.session
      [] a.session = Nothing /\ a.idem # Nothing -> <<claims[r].tenant, a.idem>>
      [] OTHER -> <<claims[r].tenant, a.bearer, second, a.body>>

Malformed(r) ==
    /\ Goes(r, "charged", "rejected")
    /\ UNCHANGED <<ask, identity, passage, warmUps, shown, second>>

(* chat_completions and orchestrate: a warm-up starts if there is a hint   *)
(* and a permit, and is dropped without one.                               *)
Handle(r) ==
    LET tool == Hint(Text(ask[r].body)) IN
    /\ Goes(r, "charged", "proxied")
    /\ session' = [session EXCEPT ![r] = Session(r)]
    /\ scenario' = [scenario EXCEPT ![r] = ask[r].scenario /\ MayRehearse(r)]
    /\ IF tool # NoHint /\ free > 0
         THEN /\ warming' = [warming EXCEPT ![r] = tool]
              /\ free' = free - 1
         ELSE UNCHANGED <<warming, free>>
    /\ UNCHANGED <<ask, identity, balance, charged, warmed, shown, second>>

WarmEndsOnAnswer(r, ok) ==                         \* mutant of WarmEnds
    /\ warming[r] # NoHint
    /\ warmed' = IF ok THEN [k \in DOMAIN warmed \cup {<<claims[r].tenant, warming[r]>>} |->
                                IF k = <<claims[r].tenant, warming[r]>> THEN ok ELSE warmed[k]]
                 ELSE warmed
    /\ free' = free + 1
    /\ warming' = [warming EXCEPT ![r] = NoHint]
    /\ UNCHANGED <<pc, ask, identity, passage, shown, second>>

(* warm_connection, a task of its own: the HEAD is answered, fails or is   *)
(* cut off after 500 ms; the permit goes with the task.                    *)
WarmEnds(r, ok) ==
    LET key == <<claims[r].tenant, warming[r]>> IN
    /\ warming[r] # NoHint
    /\ warmed' = [k \in DOMAIN warmed \cup {key} |-> IF k = key THEN ok ELSE warmed[k]]
    /\ free' = free + 1
    /\ warming' = [warming EXCEPT ![r] = NoHint]
    /\ UNCHANGED <<pc, ask, identity, passage, shown, second>>

-----------------------------------------------------------------------------
(* The other routes. *)

RequireAdmin(r) ==
    /\ ask[r].route = "admin"
    /\ Goes(r, "authenticated", IF claims[r].admin THEN "administering" ELSE "rejected")
    /\ UNCHANGED <<ask, identity, passage, warmUps, shown, second>>

Status(t, n) ==
    IF <<t, n>> \notin DOMAIN warmed THEN "idle" ELSE IF warmed[<<t, n>>] THEN "active" ELSE "error"

(* get_mcp_registry *)
Show(r) ==
    /\ ask[r].route = "mcp"
    /\ Goes(r, "authenticated", "shown")
    /\ shown' = [shown EXCEPT ![r] = [n \in Registered |-> Status(claims[r].tenant, n)]]
    /\ UNCHANGED <<ask, identity, passage, warmUps, second>>

Tick ==
    /\ second < Seconds
    /\ second' = second + 1
    /\ UNCHANGED <<pc, ask, identity, passage, warmUps, shown>>

Layer(r) ==
    \/ Authenticate(r) \/ Reject(r) \/ Bill(r) \/ Malformed(r) \/ Handle(r)
    \/ RequireAdmin(r) \/ Show(r)
    \/ \E full \in BOOLEAN : Charge(r, full)

Warm(r) == \E ok \in BOOLEAN : WarmEnds(r, ok)

Next == Tick \/ \E r \in Request : Layer(r) \/ Warm(r)

Spec == Init /\ [][Next]_vars

(* A warm-up ends: its request has a timeout.                              *)
FairSpec == Spec /\ \A r \in Request : WF_vars(Warm(r))

-----------------------------------------------------------------------------

(* The tenant a request may act for: that of the credential that counts.   *)
Owner(r) ==
    IF ~ask[r].local /\ JwtHolds(ask[r]) THEN Token(ask[r]).tenant[1] ELSE Zero

(* Every layer works for the tenant of the credential that counts, whoever *)
(* the client says it is: the balance that is asked for, the bucket that   *)
(* is charged, the claims the handler goes by; and no two requests of two  *)
(* tenants have one session, if neither client names its own.  Of a        *)
(* session that is named this does not hold (SessionsAreApart), nor have   *)
(* header and claims one spelling of the tenant (OneSpelling).             *)
OneTenant ==
    /\ \A r \in Request :
          /\ balance[r] # Nothing => balance[r] = Id(Owner(r))
          /\ charged[r] # Nothing => charged[r] = Id(Owner(r))
          /\ claims[r] # Nothing => claims[r].tenant[1] = Owner(r)
    /\ \A q, r \in Request :
          /\ ask[q].session = Nothing /\ ask[r].session = Nothing
          /\ session[q] # Nothing /\ session[q] = session[r]
          => Owner(q) = Owner(r)

(* The state a tenant is shown of a tool goes back to a request of its own *)
(* that named the tool, escapes taken for their letters: not to a text     *)
(* that only looks like a name in the bytes, however they are cut, and not *)
(* to another tenant's warm-up.                                            *)
StatusIsEarned ==
    \A r \in Request : shown[r] # Nothing =>
        \A n \in Registered : shown[r][n] # "idle" =>
            \E q \in Request :
                /\ claims[q] # Nothing /\ Owner(q) = Owner(r)
                /\ n \in Names(ask[q].body)

(* Every warm-up comes to its end and leaves its outcome for its tenant,   *)
(* whatever the server does, and in the end all permits are back.          *)
PermitsReturn ==
    /\ <>[](free = Permits)
    /\ \A r \in Request : \A n \in Registered :
          warming[r] = n ~>
              warming[r] = NoHint /\ \E k \in DOMAIN warmed : k[1][1] = Owner(r) /\ k[2] = n

-----------------------------------------------------------------------------
(* What the documentation says, and the code does not do. *)

(* mcp_registry.rs 278: Some when the body contains a registered name.     *)
FindsRegistered ==
    \A r \in Request : Names(ask[r].body) # {} => Hint(Text(ask[r].body)) # NoHint

(* agentic_tracker.rs 89: the same request has the same session.           *)
SessionIsStable ==
    \A q, r \in Request :
        /\ ask[q] = ask[r]
        /\ session[q] # Nothing /\ session[r] # Nothing
        => session[q] = session[r]

-----------------------------------------------------------------------------
(* What a reader may take OneTenant and StatusIsEarned to say, and the     *)
(* code does not do either.                                                *)

(* A session made for a request is no session that another tenant names.   *)
SessionsAreApart ==
    \A q, r \in Request :
        /\ ask[q].session = Nothing
        /\ session[q] # Nothing /\ session[q] = session[r]
        => Owner(q) = Owner(r)

(* Bill, bucket and registry know a tenant by one spelling of its id.      *)
OneSpelling ==
    \A r \in Request : charged[r] # Nothing => charged[r] = claims[r].tenant

(* A warm-up is for a tool by its very name, not by one that reads like it. *)
WarmsByName == \A r \in Request : warming[r] # NoHint => HintIsExact(ask[r].body)
====
