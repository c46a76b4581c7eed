------------------------------- MODULE MCJsmn -------------------------------
(* The tokenizer on every short text over its structural characters, on every       *)
(* short string, and on whole commands with all their prefixes; the walk of           *)
(* parse_string over what comes out.                                                *)
EXTENDS ArmReport

Brackets == {"{", "}", "[", "]", ",", "x"}
Structure == Brackets \cup {"quote", ":"}
InStrings == {"quote", "backslash", "u", "b", "x", "nul"}

MaxBrackets == 5            \* length of a text of brackets, commas and primitives
MaxStructure == 4           \* length of one with strings and colons too
MaxString == 4              \* characters behind the first quote

Words(chars, n) == UNION {[1..m -> chars] : m \in 0..n}

Quoted(word) == <<"quote">> \o word \o <<"quote">>

\* {"k": v} as a broker's client writes it, v a string, a number or an escape.
Keys == {Quoted(<<"x", "n">>), Quoted(<<"backslash", "quote">>)}
Values == {<<"0">>, <<"x", "b">>, Quoted(<<>>), Quoted(<<"x", "u">>), Quoted(<<"}">>),
           Quoted(<<"backslash", "quote", "x">>), Quoted(<<"backslash", "u", "0", "0", "b", "0">>)}
Command(key, gap, value) == <<"{">> \o key \o <<":">> \o gap \o value \o <<"}">>
Gaps == {<<>>, <<"space">>}

Whole == {Command(k, g, v) : k \in Keys, g \in Gaps, v \in Values}
Truncated == UNION {{SubSeq(c, 1, n) : n \in 1..(Len(c) - 1)} : c \in Whole}
Malformed == {<<"control">>, <<"x", "control">>, <<"0", "nul", "x">>, <<"{", "space", "}">>,
              <<"[", "[", "[", "[", "[", "quote", "quote">>}

\* An object of one or two pairs for the arm; "xn" is a key that parse_string knows.
MCArmKeys == {<<"x", "n">>, <<"n">>}
ArmStrings == {Quoted(<<"x", "n">>), Quoted(<<"n">>), Quoted(<<"x">>)}
Pair(key, value) == key \o <<":">> \o value
ArmTexts ==
    {<<"{">> \o Pair(k, v) \o <<",">> \o Pair(l, w) \o <<"}">> :
        k, l \in ArmStrings, v \in ArmStrings \cup {<<"0">>}, w \in ArmStrings \cup {<<"0">>, <<"{", "}">>}}

MCTexts == Words(Brackets, MaxBrackets) \cup Words(Structure, MaxStructure)
           \cup {<<"quote">> \o w : w \in Words(InStrings, MaxString)}
           \cup Whole \cup Truncated \cup Malformed \cup ArmTexts
=============================================================================
