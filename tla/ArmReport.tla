------------------------------ MODULE ArmReport ------------------------------
(* What parse_string (json_parser.c) makes of a payload on                         *)
(* firefighter/arm/do_something: it walks the tokens behind the first and reports   *)
(* either a key it knows with the token behind it, which it then skips, or the      *)
(* token itself as an unexpected key. The first token is looked at, but an answer   *)
(* that it is no object ends nothing.                                               *)
EXTENDS Jsmn

CONSTANT ArmKeys            \* the keys it knows, each a sequence of characters

Slice(token) == SubSeq(js, token.start + 1, token.end)

\* jsoneq against the four names.
IsArmKey(i) == tokens[i].type = "STRING" /\ Slice(tokens[i]) \in ArmKeys

\* Fault: the value of a known key not skipped.
NoSkip(i) == i + 1

\* Where the loop goes on from token i.
After(i) == IF IsArmKey(i) THEN i + 2 ELSE i + 1

\* The token the loop looks at in its n-th round.
VisitedIn == LET at[n \in 1..Len(tokens)] ==
                    IF n = 1 THEN 2
                    ELSE IF at[n - 1] <= Len(tokens) THEN After(at[n - 1]) ELSE at[n - 1]
             IN  at

Visited == {i \in {VisitedIn[n] : n \in 1..Len(tokens)} : i <= Len(tokens)}

ParsedText == mode = "done" /\ result > 0

\* Keys reported with their values: a pair of tokens, the second perhaps not parsed.
ReportedPairs == {<<i, i + 1>> : i \in {j \in Visited : IsArmKey(j)}}
UnexpectedKeys == {i \in Visited : ~IsArmKey(i)}

-----------------------------------------------------------------------------
(* Properties                                                                      *)

\* Tokens that are keys of the outermost object: strings followed by a colon, which
\* lie in no container but that object.
RootKeys ==
    {i \in 2..Len(tokens) :
        /\ tokens[i].type = "STRING" /\ tokens[i].size = 1
        /\ \A c \in 2..Len(tokens) :
               tokens[c].type \in Containers /\ tokens[c].start < tokens[i].start
                    => tokens[c].end <= tokens[i].start}

\* An object of keys with one scalar value each, and nothing behind it.
FlatObject ==
    /\ ParsedText
    /\ tokens[1].type = "OBJECT" /\ Len(tokens) = 1 + 2 * tokens[1].size
    /\ \A i \in 2..Len(tokens) : tokens[i].start < tokens[1].end
    /\ \A i \in 2..Len(tokens) : i \in RootKeys <=> i % 2 = 0

(* Of a flat object whose keys are all known, each key is reported with its own      *)
(* value and nothing else is reported, whatever the values are: a value that reads    *)
(* like a key is not taken for one.                                                  *)
FlatCommandReported ==
    (FlatObject /\ \A i \in RootKeys : IsArmKey(i)) =>
        /\ ReportedPairs = {<<i, i + 1>> : i \in RootKeys}
        /\ UnexpectedKeys = {}

(* The comment in parse_string says that the loop runs over all keys of the root      *)
(* object. It runs over values too: what follows an unknown key is its value, and is   *)
(* looked at as the next key, known or not.                                            *)
OnlyKeysVisited == FlatObject => Visited \subseteq RootKeys
=============================================================================
