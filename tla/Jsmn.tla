-------------------------------- MODULE Jsmn --------------------------------
(* The JSON tokenizer (jsmn.h, built without parent links and without strict      *)
(* mode) that decides which payloads the message callback acts on. One step is one *)
(* character: the loop of jsmn_parse in mode "value", those of jsmn_parse_string    *)
(* and jsmn_parse_primitive in the modes "string", "unicode" and "primitive".       *)
(*                                                                                *)
(* A text is a sequence of characters, of which the tokenizer tells apart:          *)
(* punctuation, "space" (blank, tab, line ends), "quote", "backslash", "u", "0"      *)
(* (a hex digit), "b" (a hex digit that may be escaped), "n" (may be escaped),      *)
(* "x" (any other printable one), "control" (not printable) and "nul".              *)
EXTENDS Integers, FiniteSetsExt, SequencesExt

CONSTANTS Texts,            \* the payloads to parse
          NumTokens         \* length of the caller's token array

ASSUME NumTokensAssumption == NumTokens \in Nat

VARIABLES js,               \* the payload
          mode,
          pos,              \* parser->pos
          start,            \* where the string or primitive being read begins
          hex,              \* digits of the escape being read
          tokens,           \* tokens[0 .. parser->toknext - 1], counted from 1 here
          super,            \* parser->toksuper, 0 for none
          result

vars == <<js, mode, pos, start, hex, tokens, super, result>>

Punctuation == {"{", "}", "[", "]", ":", ","}
Characters == Punctuation \cup
    {"space", "quote", "backslash", "u", "0", "b", "n", "x", "control", "nul"}
ASSUME TextsAssumption == \A text \in Texts : text \in Seq(Characters)

HexDigits == {"0", "b"}
Escapable == {"quote", "backslash", "b", "n"}
EndsPrimitive == {":", ",", "]", "}", "space"}

Containers == {"OBJECT", "ARRAY"}
Unset == -1                 \* the end of a container still open

NOMEM == -1                 \* not enough tokens
INVAL == -2                 \* invalid character or unmatched bracket
PART  == -3                 \* more text expected
Parsing == -4               \* no result yet

TypeOK ==
    /\ js \in Texts
    /\ mode \in {"value", "string", "unicode", "primitive", "done"}
    /\ pos \in 0..Len(js)
    /\ start \in 0..Len(js)
    /\ hex \in 0..4
    /\ tokens \in Seq([type  : Containers \cup {"STRING", "PRIMITIVE"},
                       start : 0..Len(js),
                       end   : (0..Len(js)) \cup {Unset},
                       size  : Nat])
    /\ Len(tokens) <= NumTokens
    /\ super \in 0..Len(tokens)
    /\ result \in {Parsing, NOMEM, INVAL, PART} \cup 0..NumTokens

\* jsmn_init and the call of jsmn_parse.
Init ==
    /\ js \in Texts
    /\ mode = "value" /\ pos = 0 /\ start = 0 /\ hex = 0
    /\ tokens = <<>> /\ super = 0
    /\ result = Parsing

Char == js[pos + 1]

AtEnd == ~(pos < Len(js) /\ Char # "nul")

Advance(n) == pos' = pos + n

Return(r) ==
    /\ mode' = "done" /\ result' = r
    /\ UNCHANGED <<js, pos, start, hex, tokens, super>>

\* An error inside a string or a primitive: the parser stands at its beginning again.
GiveUp(r) ==
    /\ mode' = "done" /\ result' = r /\ pos' = start
    /\ UNCHANGED <<js, start, hex, tokens, super>>

-----------------------------------------------------------------------------
(* The token array.                                                               *)

IsOpen(i) == tokens[i].end = Unset

\* One more child of the superior token, if there is one.
Counted(toks) == IF super = 0 THEN toks ELSE [toks EXCEPT ![super].size = @ + 1]

\* Fault: one token too many.
AddTokenPastEnd(type, from, to) ==
    IF Len(tokens) <= NumTokens
    THEN /\ tokens' = Counted(Append(tokens, [type |-> type, start |-> from,
                                              end |-> to, size |-> 0]))
         /\ mode' = "value"
         /\ UNCHANGED <<js, start, hex, super, result>>
         /\ Advance(IF type = "STRING" THEN 1 ELSE 0)
    ELSE GiveUp(NOMEM)

\* A string or primitive from..to, or an error if the array is full.
AddToken(type, from, to) ==
    IF Len(tokens) < NumTokens
    THEN /\ tokens' = Counted(Append(tokens, [type |-> type, start |-> from,
                                              end |-> to, size |-> 0]))
         /\ mode' = "value"
         /\ UNCHANGED <<js, start, hex, super, result>>
         /\ Advance(IF type = "STRING" THEN 1 ELSE 0)
    ELSE GiveUp(NOMEM)

-----------------------------------------------------------------------------
(* jsmn_parse: one character of mode "value".                                      *)

InValue(chars) == mode = "value" /\ ~AtEnd /\ Char \in chars

ContainerOf(c) == IF c \in {"{", "}"} THEN "OBJECT" ELSE "ARRAY"

Open ==
    /\ InValue({"{", "["})
    /\ IF Len(tokens) < NumTokens
       THEN /\ tokens' = Append(Counted(tokens),
                                [type |-> ContainerOf(Char), start |-> pos,
                                 end |-> Unset, size |-> 0])
            /\ super' = Len(tokens) + 1
            /\ Advance(1)
            /\ UNCHANGED <<js, mode, start, hex, result>>
       ELSE Return(NOMEM)

OpenTokens == {i \in 1..Len(tokens) : IsOpen(i)}

\* Fault: the outermost container is closed first.
CloseOutermost ==
    /\ InValue({"}", "]"})
    /\ IF OpenTokens # {} /\ tokens[Min(OpenTokens)].type = ContainerOf(Char)
       THEN LET outer == Min(OpenTokens) IN
            /\ tokens' = [tokens EXCEPT ![outer].end = pos + 1]
            /\ super' = Max({0} \cup (OpenTokens \ {outer}))
            /\ Advance(1)
            /\ UNCHANGED <<js, mode, start, hex, result>>
       ELSE Return(INVAL)

\* Fault: either bracket closes either container.
CloseAnyType ==
    /\ InValue({"}", "]"})
    /\ IF OpenTokens # {}
       THEN LET inner == Max(OpenTokens) IN
            /\ tokens' = [tokens EXCEPT ![inner].end = pos + 1]
            /\ super' = Max({0} \cup (OpenTokens \ {inner}))
            /\ Advance(1)
            /\ UNCHANGED <<js, mode, start, hex, result>>
       ELSE Return(INVAL)

\* The bracket closes the innermost open container; the one around it is next.
Close ==
    /\ InValue({"}", "]"})
    /\ IF OpenTokens # {} /\ tokens[Max(OpenTokens)].type = ContainerOf(Char)
       THEN LET inner == Max(OpenTokens) IN
            /\ tokens' = [tokens EXCEPT ![inner].end = pos + 1]
            /\ super' = Max({0} \cup (OpenTokens \ {inner}))
            /\ Advance(1)
            /\ UNCHANGED <<js, mode, start, hex, result>>
       ELSE Return(INVAL)

Skip ==
    /\ InValue({"space"})
    /\ Advance(1)
    /\ UNCHANGED <<js, mode, start, hex, tokens, super, result>>

\* What follows a colon belongs to the token before it.
Colon ==
    /\ InValue({":"})
    /\ super' = Len(tokens)
    /\ Advance(1)
    /\ UNCHANGED <<js, mode, start, hex, tokens, result>>

\* After a comma, from the key back to the container around it.
Comma ==
    /\ InValue({","})
    /\ super' = IF super # 0 /\ tokens[super].type \notin Containers /\ OpenTokens # {}
                THEN Max(OpenTokens) ELSE super
    /\ Advance(1)
    /\ UNCHANGED <<js, mode, start, hex, tokens, result>>

BeginString ==
    /\ InValue({"quote"})
    /\ mode' = "string" /\ start' = pos
    /\ Advance(1)
    /\ UNCHANGED <<js, hex, tokens, super, result>>

\* Without strict mode any other character begins a primitive.
BeginPrimitive ==
    /\ InValue(Characters \ (Punctuation \cup {"space", "quote"}))
    /\ mode' = "primitive" /\ start' = pos
    /\ UNCHANGED <<js, pos, hex, tokens, super, result>>

\* Fault: the open containers are not looked for.
FinishAnyhow == mode = "value" /\ AtEnd /\ Return(Len(tokens))

\* A container still open makes the text incomplete.
Finish ==
    /\ mode = "value" /\ AtEnd
    /\ Return(IF OpenTokens # {} THEN PART ELSE Len(tokens))

-----------------------------------------------------------------------------
(* jsmn_parse_primitive, jsmn_parse_string.                                        *)

Primitive ==
    /\ mode = "primitive"
    /\ IF AtEnd \/ Char \in EndsPrimitive THEN AddToken("PRIMITIVE", start, pos)
       ELSE IF Char = "control" THEN GiveUp(INVAL)
       ELSE Advance(1) /\ UNCHANGED <<js, mode, start, hex, tokens, super, result>>

InString == mode = "string" /\ ~AtEnd

StringOpen == mode = "string" /\ AtEnd /\ GiveUp(PART)

StringEnd == InString /\ Char = "quote" /\ AddToken("STRING", start + 1, pos)

\* A backslash that is the last character of the text is taken as any other.
StringChar ==
    /\ InString /\ Char # "quote"
    /\ Char = "backslash" => pos + 1 = Len(js)
    /\ Advance(1)
    /\ UNCHANGED <<js, mode, start, hex, tokens, super, result>>

\* Fault: the escaped character is read again as any other.
EscapeBackslashOnly ==
    /\ InString /\ Char = "backslash" /\ pos + 1 < Len(js)
    /\ Advance(1)
    /\ UNCHANGED <<js, mode, start, hex, tokens, super, result>>

Escape ==
    /\ InString /\ Char = "backslash" /\ pos + 1 < Len(js)
    /\ LET c == js[pos + 2] IN
       IF c \in Escapable \cup {"u"}
       THEN /\ mode' = IF c = "u" THEN "unicode" ELSE "string"
            /\ hex' = 0
            /\ Advance(2)
            /\ UNCHANGED <<js, start, tokens, super, result>>
       ELSE GiveUp(INVAL)

\* Fault: the digits that are missing are waited for.
UnicodeAllFour ==
    /\ mode = "unicode"
    /\ hex # 4 => ~AtEnd
    /\ IF hex = 4
       THEN mode' = "string" /\ UNCHANGED <<js, pos, start, hex, tokens, super, result>>
       ELSE IF Char \in HexDigits
       THEN Advance(1) /\ hex' = hex + 1 /\ UNCHANGED <<js, mode, start, tokens, super, result>>
       ELSE GiveUp(INVAL)

\* Four hex digits; fewer are accepted where the text ends.
Unicode ==
    /\ mode = "unicode"
    /\ IF hex = 4 \/ AtEnd
       THEN mode' = "string" /\ UNCHANGED <<js, pos, start, hex, tokens, super, result>>
       ELSE IF Char \in HexDigits
       THEN Advance(1) /\ hex' = hex + 1 /\ UNCHANGED <<js, mode, start, tokens, super, result>>
       ELSE GiveUp(INVAL)

jsmn_parse ==
    \/ Open \/ Close \/ Skip \/ Colon \/ Comma \/ BeginString \/ BeginPrimitive \/ Finish
    \/ Primitive
    \/ StringOpen \/ StringEnd \/ StringChar \/ Escape \/ Unicode

Next == jsmn_parse

Spec == Init /\ [][Next]_vars /\ WF_vars(Next)

-----------------------------------------------------------------------------
(* The message callback's test of a payload (client_cbs.c).                        *)

Accepted ==
    /\ mode = "done" /\ result = 3
    /\ tokens[1].type = "OBJECT" /\ tokens[2].type = "STRING"

-----------------------------------------------------------------------------
(* Properties.                                                                     *)

Parsed == mode = "done" /\ result >= 0

\* Tokens come in the order of the text, and of two of them the second lies either
\* behind the first or, if that is a container, inside it: no token ends beyond the
\* container that was open when it began (the scan of jsmn_parse for the innermost
\* open token).
TokensNest ==
    \A j \in DOMAIN tokens : \A i \in 1..(j - 1) :
        LET a == tokens[i]  b == tokens[j] IN
        \/ a.end # Unset /\ a.end <= b.start
        \/ /\ a.type \in Containers /\ a.start < b.start
           /\ \/ a.end = Unset
              \/ b.end # Unset /\ b.end < a.end

\* Position p of the text is read as part of a string or a primitive.
InScalar(p) ==
    \E i \in DOMAIN tokens :
        /\ tokens[i].type \notin Containers
        /\ p > tokens[i].start /\ p <= tokens[i].end

TextEnd == IF \E p \in DOMAIN js : js[p] = "nul"
           THEN Min({p \in DOMAIN js : js[p] = "nul"}) - 1 ELSE Len(js)

\* Once a text is accepted, each bracket in it that is no part of a string or a
\* primitive begins or ends exactly one container of its own kind: no bracket is
\* lost, none closes a container of the other kind.
BracketsPaired ==
    Parsed => \A p \in 1..TextEnd :
        (js[p] \in {"{", "[", "}", "]"} /\ ~InScalar(p)) =>
            Cardinality({i \in DOMAIN tokens :
                /\ tokens[i].type \in Containers
                /\ tokens[i].type = ContainerOf(js[p])
                /\ IF js[p] \in {"{", "["} THEN tokens[i].start = p - 1
                                            ELSE tokens[i].end = p}) = 1

(* A command is an object of one pair, {"key": value}, the value a string or a        *)
(* primitive: k is where the key ends, b where the blanks before the value end.       *)

\* E are the backslashes that begin the escapes of a string from quote to quote.
WithEscapes(t, from, to, E) ==
    /\ from < to /\ t[from] = "quote" /\ t[to] = "quote"
    /\ \A p \in E : /\ p + 1 < to /\ p + 1 \notin E
                    /\ \/ t[p + 1] \in Escapable
                       \/ t[p + 1] = "u" /\ p + 5 < to /\ \A d \in 2..5 : t[p + d] \in HexDigits
    /\ \A p \in (from + 1)..(to - 1) :
           t[p] \in {"quote", "backslash", "nul"} => p \in E \/ (p - 1) \in E

Backslashes(t, from, to) == {p \in (from + 1)..(to - 1) : t[p] = "backslash"}

IsString(t, from, to) == \E E \in SUBSET Backslashes(t, from, to) : WithEscapes(t, from, to, E)

IsPrimitive(t, from, to) ==
    /\ from <= to /\ t[from] \notin Punctuation \cup {"space", "quote"}
    /\ \A p \in from..to : t[p] \notin EndsPrimitive \cup {"control", "nul"}

IsCommand(t, k, b) ==
    /\ 2 < k /\ k < b /\ b + 1 < Len(t)
    /\ t[1] = "{" /\ IsString(t, 2, k) /\ t[k + 1] = ":"
    /\ \A p \in (k + 2)..b : t[p] = "space"
    /\ IsString(t, b + 1, Len(t) - 1) \/ IsPrimitive(t, b + 1, Len(t) - 1)
    /\ t[Len(t)] = "}"

Commands == {t \in Texts : \E k, b \in 1..Len(t) : IsCommand(t, k, b)}

CutCommands == UNION {{SubSeq(t, 1, n) : n \in 1..(Len(t) - 1)} : t \in Commands}

\* A command is accepted by the callback's test, and the second and third token are
\* its key and its value, character for character, quotes taken off, escapes and all:
\* this is what the callback compares with "speed", "direction" and "status".
CommandsAccepted ==
    (mode = "done" /\ NumTokens >= 3 /\ js \in Commands) =>
        \A k, b \in 1..Len(js) : IsCommand(js, k, b) =>
            LET quotes == IF js[b + 1] = "quote" THEN 1 ELSE 0 IN
            /\ Accepted
            /\ tokens[2].start = 2 /\ tokens[2].end = k - 1
            /\ tokens[3].start = b + quotes /\ tokens[3].end = Len(js) - 1 - quotes
            /\ [i \in 1..3 |-> tokens[i].size] = <<1, 1, 0>>

\* A command cut short anywhere is reported as incomplete, never as a command: the
\* rover does not act on the first part of a message.
TruncatedIsPartial ==
    (mode = "done" /\ NumTokens >= 3 /\ js \in CutCommands) => result = PART

\* Every payload gets an answer, in whatever character it breaks off.
Terminates == <>(mode = "done")
=============================================================================
