---- MODULE NameScanner ----
(***************************************************************************)
(* NameScanFsm and find_tool_hint: a search for the value of a "name" key  *)
(* in the raw bytes of a body, without a parser.  A body is a sequence of  *)
(* tokens: "quote", "backslash", "colon", "space", the four letters "name" *)
(* in one, and anything else; a character that JSON writes with a          *)
(* backslash is a token of DOMAIN Letter.                                  *)
(***************************************************************************)
EXTENDS Naturals, Sequences, SequencesExt

CONSTANTS
    Registered,     \* the tools of MCP_TOOL_REGISTRY, each a sequence of tokens
    NoHint,         \* None of find_tool_hint
    Letter,         \* what is written after the backslash: b, n or t, u0062
    Chunk,          \* 64 bytes
    ScanLimit       \* 16 KB

(* A tool's name has no comma in it.                                       *)
ASSUME RegisteredAssumption ==
    /\ \A n \in Registered : "comma" \notin ToSet(n)
    /\ Chunk \in Nat \ {0} /\ ScanLimit \in Nat

(* Quote and backslash are always written so, and nothing else as a quote. *)
ASSUME LetterAssumption ==
    /\ {"quote", "backslash"} \subseteq DOMAIN Letter
    /\ \A t \in DOMAIN Letter : Letter[t] = "quote" => t = "quote"

(* The scanner is [at, buf, found]; found is the value that feed returns.  *)
Start == [at |-> "idle", buf |-> << >>, found |-> << >>]

Idle(s, t) == [s EXCEPT !.at = IF t = "quote" THEN "key" ELSE "idle"]

Key(s, t) ==
    [s EXCEPT !.at = CASE t = "quote" -> "key"
                       [] t = "name" -> "name"
                       [] OTHER -> "idle"]

Name(s, t) == [s EXCEPT !.at = IF t = "quote" THEN "colon" ELSE "idle"]

Colon(s, t) ==
    [s EXCEPT !.at = CASE t = "colon" -> "value"
                       [] t = "space" -> "colon"
                       [] OTHER -> "idle"]

ValueSkipping(s, t) ==                             \* mutant of Value
    IF t = "quote" THEN [s EXCEPT !.at = "in", !.buf = << >>] ELSE s

Value(s, t) ==
    CASE t = "quote" -> [s EXCEPT !.at = "in", !.buf = << >>]
      [] t = "space" -> s
      [] OTHER -> [s EXCEPT !.at = "idle"]

(* The end of the value is where feed returns. *)
In(s, t) ==
    CASE t = "quote" -> [at |-> "idle", buf |-> << >>, found |-> <<s.buf>>]
      [] t = "backslash" -> [s EXCEPT !.at = "escape"]
      [] OTHER -> [s EXCEPT !.buf = Append(@, t)]

(* The letter is taken for the character: a backspace is a b.              *)
Escape(s, t) == [s EXCEPT !.at = "in", !.buf = Append(@, t)]

Byte(s, t) ==
    CASE s.at = "idle" -> Idle(s, t)
      [] s.at = "key" -> Key(s, t)
      [] s.at = "name" -> Name(s, t)
      [] s.at = "colon" -> Colon(s, t)
      [] s.at = "value" -> Value(s, t)
      [] s.at = "in" -> In(s, t)
      [] s.at = "escape" -> Escape(s, t)

(* Token t is the i-th of the body, which is fed in chunks.  With a value  *)
(* found, the rest of the chunk is not looked at.                          *)
Feed(s, t, i) ==
    IF s.found # << >> /\ (i - 1) % Chunk # 0 THEN s
    ELSE Byte([s EXCEPT !.found = << >>], t)

(* The scanner as it is after each token.                                  *)
Scan(body) ==
    LET limit == IF Len(body) < ScanLimit THEN Len(body) ELSE ScanLimit
        scan[i \in 0..limit] == IF i = 0 THEN Start ELSE Feed(scan[i - 1], body[i], i)
    IN scan

(* find_tool_hint: the first value that is a tool.                         *)
Hint(body) ==
    LET scan == Scan(body)
        hits == {i \in DOMAIN scan : \E n \in Registered : scan[i].found = <<n>>}
    IN IF hits = {} THEN NoHint ELSE scan[Min(hits)].found[1]

-----------------------------------------------------------------------------
(* What a body is, for reference: members with a key and a value, a string *)
(* or an object, and their text.                                           *)

IsBody(members) ==
    /\ members \in Seq(ToSet(members))
    /\ \A i \in DOMAIN members :
          /\ members[i].key \in Seq(ToSet(members[i].key))
          /\ members[i].value \in Seq(ToSet(members[i].value))

Escaped(ts) ==
    FlattenSeq([i \in DOMAIN ts |->
        IF ts[i] \in DOMAIN Letter THEN <<"backslash", Letter[ts[i]]>> ELSE <<ts[i]>>])

Quoted(ts) == <<"quote">> \o Escaped(ts) \o <<"quote">>

MemberText(m) ==
    Quoted(m.key) \o <<"colon", "space">>
    \o (IF m.kind = "string" THEN Quoted(m.value)
        ELSE <<"brace">> \o Quoted(m.value) \o <<"colon", "null", "brace">>)
    \o <<"comma">>

Text(members) == FlattenSeq([i \in DOMAIN members |-> MemberText(members[i])])

(* What a string says if each escape is taken for its letter.              *)
Read(ts) == [i \in DOMAIN ts |-> IF ts[i] \in DOMAIN Letter THEN Letter[ts[i]] ELSE ts[i]]

(* The tools that a body names: under a key that is name, or that ends in  *)
(* a quote and name, which bytes alone do not tell apart; and by a value   *)
(* that reads as the tool's name.                                          *)
NameKey(key) ==
    \/ key = <<"name">>
    \/ IsSuffix(<<"quote", "name">>, key)

Names(members) ==
    {n \in Registered :
        \E i \in DOMAIN members :
            /\ NameKey(members[i].key)
            /\ members[i].kind = "string" /\ Read(members[i].value) = n}

(* A hint is never of a tool that the body does not name: not of a text or *)
(* a nested key that looks like one, nor of what a cut makes of it.  That  *)
(* the value itself is the name does not hold: HintIsExact.                *)
HintIsNamed(body) == Hint(Text(body)) \in Names(body) \cup {NoHint}

HintIsExact(body) ==
    \/ Hint(Text(body)) = NoHint
    \/ \E i \in DOMAIN body : body[i].key = <<"name">> /\ body[i].value = Hint(Text(body))
====
