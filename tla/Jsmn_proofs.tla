---------------------------- MODULE Jsmn_proofs ----------------------------
(* Safety of the tokenizer for every set of texts and every length of the token   *)
(* array. The inductive invariant, JsmnInv, divides the text at Covered: every     *)
(* token lies before it, and every bracket before it is accounted for, by a         *)
(* container that it begins or ends or by a string or a primitive that contains     *)
(* it. What the tokenizer makes of a command and of its beginnings, the walk of     *)
(* parse_string over the tokens and the steps an answer takes follow at the end.     *)
EXTENDS ArmReport, SequenceTheorems, FiniteSetTheorems, WellFoundedInduction, TLAPS

-----------------------------------------------------------------------------
(* Maxima of bounded sets.                                                        *)

LEMMA LeastOf ==
  ASSUME NEW S, S \subseteq Nat, S # {}
  PROVE  \E x \in S : \A y \in S : x <= y
<1> DEFINE R == OpToRel(<, Nat)
<1>1. IsWellFoundedOn(R, Nat)
  BY NatLessThanWellFounded
<1>2. \A x, y \in Nat : <<y, x>> \in R <=> y < x
  BY DEF OpToRel
<1> HIDE DEF R
<1>3. PICK x \in S : \A y \in S : ~(<<y, x>> \in R)
  BY <1>1, WFMin
<1>4. \A y \in S : x \in Nat /\ y \in Nat /\ ~(y < x)
  BY <1>2, <1>3
<1>5. \A y \in S : x <= y
  BY <1>4
<1>6. QED BY <1>5

LEMMA MaxIn ==
  ASSUME NEW n \in Nat, NEW S, S \subseteq 0..n, S # {}
  PROVE  Max(S) \in S /\ \A y \in S : Max(S) >= y
<1> DEFINE T == {n - x : x \in S}
<1>1. T \subseteq Nat /\ T # {}
  <2>1. \A x \in S : x \in 0..n /\ n - x \in Nat
    OBVIOUS
  <2>2. QED BY <2>1
<1>2. PICK t \in T : \A y \in T : t <= y
  BY <1>1, LeastOf
<1>3. PICK x \in S : t = n - x
  BY <1>2
<1>4. \A y \in S : x >= y
  <2> TAKE y \in S
  <2>1. n - y \in T
    OBVIOUS
  <2>2. n - x <= n - y
    BY <1>2, <1>3, <2>1
  <2>3. x \in Nat /\ y \in Nat
    OBVIOUS
  <2>4. QED BY <2>2, <2>3
<1>5. QED BY <1>3, <1>4 DEF Max
-----------------------------------------------------------------------------
(* The inductive invariant.                                                       *)

Token == [type  : Containers \cup {"STRING", "PRIMITIVE"},
          start : 0..Len(js),
          end   : (0..Len(js)) \cup {Unset},
          size  : Nat]

Opening == {"{", "["}
Closing == {"}", "]"}

\* Where the part of the text ends that the tokens cover.
Covered == IF mode = "value" THEN pos ELSE start

Scanning ==
    /\ mode \in {"string", "unicode"} => start < pos /\ js[start + 1] = "quote"
    /\ mode = "primitive" => start <= pos

\* A container begins and, if it is closed, ends with a bracket of its kind; nothing
\* else is ever open.
Bracketed(token) ==
    IF token.type \in Containers
    THEN /\ js[token.start + 1] \in Opening /\ ContainerOf(js[token.start + 1]) = token.type
         /\ token.end # Unset =>
                /\ token.start < token.end
                /\ js[token.end] \in Closing /\ ContainerOf(js[token.end]) = token.type
    ELSE token.end # Unset

TokensBracketed == \A i \in 1..Len(tokens) : Bracketed(tokens[i])

TokensBehind(n) ==
    \A i \in 1..Len(tokens) :
        /\ tokens[i].type \in Containers => tokens[i].start < n
        /\ tokens[i].end # Unset => tokens[i].end <= n

\* Some container begins or ends with position p of the text.
HasContainer(p) ==
    \E i \in 1..Len(tokens) :
        /\ tokens[i].type \in Containers
        /\ tokens[i].type = ContainerOf(js[p])
        /\ IF js[p] \in Opening THEN tokens[i].start = p - 1 ELSE tokens[i].end = p

AccountedFor(p) == js[p] \in Opening \cup Closing => InScalar(p) \/ HasContainer(p)

Accounted(n) == \A p \in 1..n : AccountedFor(p)

InProgress == mode # "done" => TokensBehind(Covered) /\ Accounted(Covered)

Finished == Parsed => result = Len(tokens) /\ OpenTokens = {} /\ Accounted(TextEnd)

JsmnInv ==
    /\ TypeOK
    /\ Scanning
    /\ TokensBracketed
    /\ TokensNest
    /\ InProgress
    /\ Finished
-----------------------------------------------------------------------------
(* The token array.                                                               *)

\* Two tokens that differ in the number of their children only.
Alike(a, b) == a.type = b.type /\ a.start = b.start /\ a.end = b.end

(* What an assignment to one field of a token does.                               *)
LEMMA TokenFields ==
  ASSUME NEW a \in Token
  PROVE  /\ [a EXCEPT !.size = @ + 1] \in Token /\ Alike([a EXCEPT !.size = @ + 1], a)
         /\ \A e \in 0..Len(js) :
                /\ [a EXCEPT !.end = e] \in Token
                /\ [a EXCEPT !.end = e].type = a.type
                /\ [a EXCEPT !.end = e].start = a.start
                /\ [a EXCEPT !.end = e].end = e
<1> DEFINE A == Containers \cup {"STRING", "PRIMITIVE"}
           B == 0..Len(js)
           C == B \cup {Unset}
<1>1. a \in [type : A, start : B, end : C, size : Nat]
  BY DEF Token
<1>2. \A e \in B : e \in C
  OBVIOUS
<1> HIDE DEF A, B, C
<1>3. a.size + 1 \in Nat
  BY <1>1
<1>4. ASSUME NEW n \in Nat
      PROVE  /\ [a EXCEPT !.size = n] \in [type : A, start : B, end : C, size : Nat]
             /\ [a EXCEPT !.size = n].type = a.type
             /\ [a EXCEPT !.size = n].start = a.start
             /\ [a EXCEPT !.size = n].end = a.end
  BY <1>1
<1>5. ASSUME NEW e \in B
      PROVE  /\ [a EXCEPT !.end = e] \in [type : A, start : B, end : C, size : Nat]
             /\ [a EXCEPT !.end = e].type = a.type
             /\ [a EXCEPT !.end = e].start = a.start
             /\ [a EXCEPT !.end = e].end = e
  BY <1>1, <1>2
<1>6. Token = [type : A, start : B, end : C, size : Nat]
  BY DEF Token, A, B, C
<1>7. [a EXCEPT !.size = @ + 1] \in Token /\ Alike([a EXCEPT !.size = @ + 1], a)
  BY <1>3, <1>4, <1>6 DEF Alike
<1>8. QED BY <1>5, <1>6, <1>7 DEF B

LEMMA CountedFacts ==
  ASSUME NEW toks \in Seq(Token), super \in 0..Len(toks)
  PROVE  /\ Counted(toks) \in Seq(Token) /\ Len(Counted(toks)) = Len(toks)
         /\ \A i \in 1..Len(toks) : Alike(Counted(toks)[i], toks[i])
<1>1. CASE super = 0
  BY <1>1 DEF Counted, Alike
<1>2. CASE super # 0
  <2> DEFINE t == [toks[super] EXCEPT !.size = @ + 1]
  <2>1. super \in 1..Len(toks) /\ toks[super] \in Token
    BY <1>2
  <2>2. t \in Token /\ Alike(t, toks[super])
    BY <2>1, TokenFields
  <2>3. Counted(toks) = [toks EXCEPT ![super] = t]
    BY <1>2 DEF Counted
  <2> HIDE DEF t
  <2>4. /\ Counted(toks) \in Seq(Token) /\ Len(Counted(toks)) = Len(toks)
        /\ \A i \in 1..Len(toks) : Counted(toks)[i] = IF i = super THEN t ELSE toks[i]
    BY <2>1, <2>2, <2>3, ExceptSeq
  <2>5. QED BY <2>2, <2>4 DEF Alike
<1>3. QED BY <1>1, <1>2

LEMMA AppendFacts ==
  ASSUME NEW S, NEW q \in Seq(S), NEW e \in S
  PROVE  /\ Append(q, e) \in Seq(S)
         /\ Len(Append(q, e)) = Len(q) + 1
         /\ \A i \in 1..Len(q) : Append(q, e)[i] = q[i]
         /\ Append(q, e)[Len(q) + 1] = e
  OBVIOUS

LEMMA Types ==
  ASSUME TypeOK
  PROVE  /\ js \in Seq(Characters) /\ Len(js) \in Nat
         /\ tokens \in Seq(Token) /\ Len(tokens) \in Nat /\ DOMAIN tokens = 1..Len(tokens)
         /\ Len(tokens) <= NumTokens
         /\ \A i \in 1..Len(tokens) :
                tokens[i] \in Token /\ tokens[i].start \in Nat /\ tokens[i].end \in Int
         /\ pos \in 0..Len(js) /\ start \in 0..Len(js) /\ super \in 0..Len(tokens)
         /\ Covered \in 0..Len(js)
<1>1. /\ js \in Seq(Characters) /\ Len(js) \in Nat
      /\ tokens \in Seq(Token) /\ Len(tokens) \in Nat /\ DOMAIN tokens = 1..Len(tokens)
      /\ Len(tokens) <= NumTokens
      /\ pos \in 0..Len(js) /\ start \in 0..Len(js) /\ super \in 0..Len(tokens)
  BY TextsAssumption DEF TypeOK, Token
<1>2. \A i \in 1..Len(tokens) : tokens[i] \in Token
  BY <1>1
<1>3. \A t \in Token : t.start \in Nat /\ t.end \in Int
  BY <1>1 DEF Token, Unset
<1>4. QED BY <1>1, <1>2, <1>3 DEF Covered

(* The open tokens, and the innermost of them.                                     *)
LEMMA OpenFacts ==
  ASSUME TypeOK
  PROVE  /\ OpenTokens \subseteq 1..Len(tokens)
         /\ \A T \in SUBSET OpenTokens : Max({0} \cup T) \in 0..Len(tokens)
         /\ OpenTokens # {} => /\ Max(OpenTokens) \in OpenTokens
                               /\ \A i \in OpenTokens : Max(OpenTokens) >= i
<1>1. OpenTokens \subseteq 1..Len(tokens) /\ Len(tokens) \in Nat
  BY Types DEF OpenTokens
<1>2. ASSUME NEW T \in SUBSET OpenTokens PROVE Max({0} \cup T) \in 0..Len(tokens)
  <2>1. {0} \cup T \subseteq 0..Len(tokens) /\ {0} \cup T # {}
    BY <1>1, <1>2
  <2>2. Max({0} \cup T) \in {0} \cup T
    BY <1>1, <2>1, MaxIn
  <2>3. QED BY <2>1, <2>2
<1>3. OpenTokens # {} => /\ Max(OpenTokens) \in OpenTokens
                         /\ \A i \in OpenTokens : Max(OpenTokens) >= i
  <2>1. OpenTokens \subseteq 0..Len(tokens)
    BY <1>1
  <2>2. QED BY <1>1, <2>1, MaxIn
<1>4. QED BY <1>1, <1>2, <1>3
-----------------------------------------------------------------------------
(* Steps that leave the token array alone.                                        *)

Bracket(c) == c \in Opening \cup Closing

(* One more character that is no bracket, or none, is covered.                     *)
LEMMA QuietInvariant ==
  ASSUME JsmnInv, mode # "done", mode' # "done", UNCHANGED <<js, tokens>>,
         Covered' \in {Covered, Covered + 1}, Covered' # Covered => ~Bracket(js[Covered + 1]),
         TypeOK', Scanning'
  PROVE  JsmnInv'
<1> USE DEF JsmnInv
<1>1. Covered \in Nat /\ \A i \in 1..Len(tokens) : tokens[i].start \in Nat /\ tokens[i].end \in Int
  BY Types
<1>2. TokensBracketed' /\ TokensNest'
  BY DEF TokensBracketed, Bracketed, TokensNest
<1>3. TokensBehind(Covered)'
  BY <1>1 DEF InProgress, TokensBehind
<1>4. Accounted(Covered)'
  <2> SUFFICES ASSUME NEW p \in 1..Covered', Bracket(js[p]) PROVE InScalar(p)' \/ HasContainer(p)'
    BY DEF Accounted, AccountedFor, Bracket
  <2>1. p \in 1..Covered
    BY <1>1
  <2>2. InScalar(p) \/ HasContainer(p)
    BY <2>1 DEF InProgress, Accounted, AccountedFor, Bracket
  <2>3. QED BY <2>2 DEF InScalar, HasContainer
<1>5. Finished'
  BY DEF Finished, Parsed
<1>6. QED BY <1>2, <1>3, <1>4, <1>5 DEF InProgress

(* An error leaves the tokens as they are.                                        *)
LEMMA ErrorInvariant ==
  ASSUME JsmnInv, mode' = "done", UNCHANGED <<js, tokens>>, result' \in {NOMEM, INVAL, PART},
         TypeOK'
  PROVE  JsmnInv'
<1>1. TokensBracketed' /\ TokensNest' /\ Scanning'
  BY DEF JsmnInv, TokensBracketed, Bracketed, TokensNest, Scanning
<1>2. InProgress' /\ Finished'
  BY DEF InProgress, Finished, Parsed, NOMEM, INVAL, PART
<1>3. QED BY <1>1, <1>2 DEF JsmnInv

LEMMA GiveUpInvariant ==
  ASSUME JsmnInv, NEW r \in {NOMEM, INVAL, PART}, Return(r) \/ GiveUp(r) PROVE JsmnInv'
<1>1. TypeOK'
  BY DEF JsmnInv, TypeOK, Return, GiveUp
<1>2. QED BY <1>1, ErrorInvariant DEF Return, GiveUp

(* At the end of the text all of it is covered.                                   *)
LEMMA AllCovered == ASSUME TypeOK, AtEnd, mode = "value" PROVE TextEnd \in Int /\ TextEnd <= pos
<1> DEFINE S == {p \in DOMAIN js : js[p] = "nul"}
           n == Len(js)
<1>1. n \in Nat /\ pos \in 0..n /\ DOMAIN js = 1..n
  BY Types
<1>2. TextEnd = IF S # {} THEN Min(S) - 1 ELSE n
  BY DEF TextEnd
<1>3. pos < n => pos + 1 \in S
  <2> SUFFICES ASSUME pos < n PROVE pos + 1 \in DOMAIN js /\ js[pos + 1] = "nul"
    OBVIOUS
  <2>1. pos + 1 \in 1..n
    BY <1>1
  <2>2. QED BY <1>1, <2>1 DEF AtEnd, Char
<1>4. S \subseteq 1..n
  BY <1>1
<1> HIDE DEF S, n
<1>5. CASE S = {}
  BY <1>2, <1>1, <1>5, <1>3
<1>6. CASE S # {}
  <2>1. PICK m \in S : \A p \in S : m <= p
    <3>1. S \subseteq Nat
      BY <1>1, <1>4
    <3>2. QED BY <1>6, <3>1, LeastOf
  <2>2. Min(S) \in S /\ \A p \in S : Min(S) <= p
    BY <2>1 DEF Min
  <2>3. PICK k \in 1..n : k = Min(S)
    BY <1>4, <2>2
  <2>4. k <= pos + 1
    BY <1>1, <1>3, <2>2, <2>3
  <2>5. TextEnd = k - 1
    BY <1>2, <1>6, <2>3
  <2>6. QED BY <1>1, <2>3, <2>4, <2>5
<1>7. QED BY <1>5, <1>6

LEMMA FinishInvariant == ASSUME JsmnInv, Finish PROVE JsmnInv'
<1>1. CASE OpenTokens # {}
  BY <1>1, GiveUpInvariant DEF Finish
<1>2. CASE OpenTokens = {}
  <2>1. /\ mode = "value" /\ AtEnd /\ mode' = "done" /\ result' = Len(tokens)
        /\ UNCHANGED <<js, pos, start, hex, tokens, super>>
    BY <1>2 DEF Finish, Return
  <2>2. TypeOK'
    BY <2>1, NumTokensAssumption DEF JsmnInv, TypeOK
  <2>3. TokensBracketed' /\ TokensNest' /\ Scanning' /\ InProgress'
    BY <2>1 DEF JsmnInv, TokensBracketed, Bracketed, TokensNest, Scanning, InProgress
  <2>4. TextEnd \in Int /\ TextEnd <= pos /\ pos \in Nat /\ Covered = pos
    BY <2>1, AllCovered, Types DEF JsmnInv, Covered
  <2>5. Accounted(TextEnd)
    BY <2>1, <2>4 DEF JsmnInv, InProgress, Accounted
  <2>6. (OpenTokens = {})'
    BY <1>2, <2>1 DEF OpenTokens, IsOpen
  <2>7. Accounted(TextEnd)'
    BY <2>1, <2>5 DEF Accounted, AccountedFor, InScalar, HasContainer, TextEnd
  <2>8. Finished'
    BY <2>1, <2>6, <2>7 DEF Finished
  <2>9. QED BY <2>2, <2>3, <2>8 DEF JsmnInv
<1>3. QED BY <1>1, <1>2
-----------------------------------------------------------------------------
(* Steps that add a token.                                                        *)

\* Position p of the text is in the string or primitive, or begins the container.
Encloses(token, p) ==
    IF token.type \in Containers THEN p = token.start + 1
    ELSE p > token.start /\ p <= token.end

(* A token that covers the text from where it ended to where it ends now.          *)
LEMMA GrowInvariant ==
  ASSUME JsmnInv, mode # "done", mode' # "done", UNCHANGED js, TypeOK', Scanning',
         NEW tok \in Token,
         Len(tokens') = Len(tokens) + 1, tokens'[Len(tokens) + 1] = tok,
         \A i \in 1..Len(tokens) : Alike(tokens'[i], tokens[i]),
         Bracketed(tok), tok.type \in Containers => tok.end = Unset /\ tok.start < Covered',
         tok.end # Unset => tok.end <= Covered',
         Covered <= tok.start, Covered <= Covered',
         \A p \in 1..Covered' : p > Covered /\ Bracket(js[p]) => Encloses(tok, p)
  PROVE  JsmnInv'
<1> USE DEF JsmnInv
<1> DEFINE n == Len(tokens)
<1>1. /\ n \in Nat /\ Covered \in Nat /\ Covered' \in Nat /\ tok.start \in Nat
      /\ \A i \in 1..n : tokens[i].start \in Nat /\ tokens[i].end \in Int
      /\ DOMAIN tokens = 1..n /\ DOMAIN tokens' = 1..(n + 1)
  <2>1. DOMAIN tokens' = 1..Len(tokens')
    BY DEF TypeOK
  <2>2. pos' \in Nat /\ start' \in Nat
    BY Types DEF TypeOK
  <2>3. tok.start \in Nat
    BY DEF Token
  <2>4. QED BY <2>1, <2>2, <2>3, Types DEF Covered
<1>2. \A i \in 1..(n + 1) : i \in 1..n \/ i = n + 1
  BY <1>1
<1>3. TokensBracketed'
  <2>1. ASSUME NEW i \in 1..(n + 1) PROVE Bracketed(tokens[i])'
    <3>1. CASE i \in 1..n
      BY <3>1 DEF TokensBracketed, Bracketed, Alike
    <3>2. CASE i = n + 1
      BY <3>2 DEF Bracketed
    <3>3. QED BY <1>2, <3>1, <3>2
  <2>2. QED BY <1>1, <2>1 DEF TokensBracketed
<1>4. TokensNest'
  <2> SUFFICES ASSUME NEW j \in 1..(n + 1), NEW i \in 1..(j - 1)
               PROVE  LET a == tokens'[i]  b == tokens'[j] IN
                      \/ a.end # Unset /\ a.end <= b.start
                      \/ /\ a.type \in Containers /\ a.start < b.start
                         /\ a.end = Unset \/ (b.end # Unset /\ b.end < a.end)
    BY <1>1 DEF TokensNest
  <2>1. i \in 1..n /\ Alike(tokens'[i], tokens[i])
    BY <1>1
  <2>2. CASE j \in 1..n
    BY <1>1, <2>1, <2>2 DEF TokensNest, Alike
  <2>3. CASE j = n + 1
    <3>1. /\ tokens[i].type \in Containers => tokens[i].start < Covered
          /\ tokens[i].end # Unset => tokens[i].end <= Covered
      BY <2>1 DEF InProgress, TokensBehind
    <3>2. tokens[i].type \in Containers \/ tokens[i].end # Unset
      BY <2>1 DEF TokensBracketed, Bracketed
    <3>3. tokens[i].start \in Nat /\ tokens[i].end \in Int /\ tokens'[j] = tok
      BY <1>1, <2>1, <2>3
    <3>4. QED BY <1>1, <2>1, <3>1, <3>2, <3>3 DEF Alike
  <2>4. QED BY <1>2, <2>2, <2>3
<1>5. TokensBehind(Covered)'
  <2> SUFFICES ASSUME NEW i \in 1..(n + 1)
               PROVE  /\ tokens'[i].type \in Containers => tokens'[i].start < Covered'
                      /\ tokens'[i].end # Unset => tokens'[i].end <= Covered'
    BY <1>1 DEF TokensBehind
  <2>1. CASE i \in 1..n
    BY <1>1, <2>1 DEF InProgress, TokensBehind, Alike
  <2>2. QED BY <1>2, <2>1
<1>6. Accounted(Covered)'
  <2> SUFFICES ASSUME NEW p \in 1..Covered', Bracket(js[p])
               PROVE  InScalar(p)' \/ HasContainer(p)'
    BY DEF Accounted, AccountedFor, Bracket
  <2>1. CASE p <= Covered
    <3>1. InScalar(p) \/ HasContainer(p)
      BY <1>1, <2>1 DEF InProgress, Accounted, AccountedFor, Bracket
    <3>2. ASSUME NEW i \in 1..n, tokens[i].type \notin Containers,
                 p > tokens[i].start /\ p <= tokens[i].end
          PROVE  InScalar(p)'
      <4>1. i \in DOMAIN tokens' /\ Alike(tokens'[i], tokens[i])
        BY <1>1
      <4>2. tokens'[i].type \notin Containers /\ p > tokens'[i].start /\ p <= tokens'[i].end
        BY <3>2, <4>1 DEF Alike
      <4>3. QED BY <4>1, <4>2 DEF InScalar
    <3>3. ASSUME HasContainer(p) PROVE HasContainer(p)'
      <4>1. PICK i \in 1..n :
              /\ tokens[i].type \in Containers
              /\ tokens[i].type = ContainerOf(js[p])
              /\ IF js[p] \in Opening THEN tokens[i].start = p - 1 ELSE tokens[i].end = p
        BY <3>3 DEF HasContainer
      <4>2. i \in 1..Len(tokens') /\ Alike(tokens'[i], tokens[i])
        BY <1>1
      <4>3. QED BY <4>1, <4>2 DEF HasContainer, Alike
    <3>4. QED BY <1>1, <3>1, <3>2, <3>3 DEF InScalar
  <2>2. CASE p > Covered
    <3>1. Encloses(tok, p) /\ n + 1 \in 1..Len(tokens') /\ tokens'[n + 1] = tok
      BY <1>1, <2>2
    <3>2. CASE tok.type \in Containers
      <4>1. p = tok.start + 1
        BY <3>1, <3>2 DEF Encloses
      <4>2. js[p] \in Opening /\ ContainerOf(js[p]) = tok.type /\ tok.start = p - 1
        BY <1>1, <3>2, <4>1 DEF Bracketed
      <4>3. QED BY <3>1, <3>2, <4>2 DEF HasContainer
    <3>3. CASE tok.type \notin Containers
      BY <1>1, <3>1, <3>3 DEF Encloses, InScalar
    <3>4. QED BY <3>2, <3>3
  <2>3. QED BY <1>1, <2>1, <2>2
<1>7. Finished'
  BY DEF Finished, Parsed
<1>8. QED BY <1>3, <1>4, <1>5, <1>6, <1>7 DEF InProgress
LEMMA OpenInvariant == ASSUME JsmnInv, Open PROVE JsmnInv'
<1> DEFINE n == Len(tokens)
           tok == [type |-> ContainerOf(Char), start |-> pos, end |-> Unset, size |-> 0]
<1>1. CASE ~(n < NumTokens)
  BY <1>1, GiveUpInvariant DEF Open
<1>2. CASE n < NumTokens
  <2>1. /\ mode = "value" /\ ~AtEnd /\ Char \in Opening
        /\ tokens' = Append(Counted(tokens), tok)
        /\ super' = n + 1 /\ pos' = pos + 1
        /\ UNCHANGED <<js, mode, start, hex, result>>
    BY <1>2 DEF Open, InValue, Advance, Opening
  <2>2. /\ n \in Nat /\ pos \in 0..Len(js) /\ Len(js) \in Nat
        /\ tokens \in Seq(Token) /\ super \in 0..n
    BY Types DEF JsmnInv
  <2>3. pos < Len(js) /\ Char = js[pos + 1]
    BY <2>1 DEF AtEnd, Char
  <2>4. tok \in Token
    BY <2>2 DEF Token, ContainerOf, Containers
  <2>5. /\ Counted(tokens) \in Seq(Token) /\ Len(Counted(tokens)) = n
        /\ \A i \in 1..n : Alike(Counted(tokens)[i], tokens[i])
    BY <2>2, CountedFacts
  <2> HIDE DEF tok
  <2>6. /\ tokens' \in Seq(Token) /\ Len(tokens') = n + 1 /\ tokens'[n + 1] = tok
        /\ \A i \in 1..n : Alike(tokens'[i], tokens[i])
    BY <2>1, <2>2, <2>4, <2>5, AppendFacts DEF Alike
  <2>7. Covered = pos /\ Covered' = pos + 1
    BY <2>1 DEF Covered
  <2>8. TypeOK'
    BY <1>2, <2>1, <2>2, <2>3, <2>6, NumTokensAssumption DEF JsmnInv, TypeOK, Token
  <2>9. Bracketed(tok) /\ tok.type \in Containers /\ tok.end = Unset /\ tok.start = pos
    BY <2>1, <2>3 DEF tok, Bracketed, ContainerOf, Containers
  <2>10. \A p \in 1..Covered' : p > Covered => Encloses(tok, p)
    BY <2>2, <2>7, <2>9 DEF Encloses
  <2>11. Scanning' /\ mode # "done" /\ mode' # "done"
    BY <2>1 DEF Scanning
  <2>12. tok.start < Covered' /\ Covered <= tok.start /\ Covered <= Covered'
    BY <2>2, <2>7, <2>9
  <2>13. QED
    BY <2>1, <2>4, <2>6, <2>8, <2>9, <2>10, <2>11, <2>12, GrowInvariant
<1>3. QED BY <1>1, <1>2

(* A string or a primitive is read from Covered to the position reached.           *)
LEMMA AddTokenInvariant ==
  ASSUME JsmnInv, mode \in {"string", "primitive"},
         NEW type \in {"STRING", "PRIMITIVE"}, NEW from \in 0..Len(js), AddToken(type, from, pos),
         Covered <= from, Covered <= pos,
         pos + (IF type = "STRING" THEN 1 ELSE 0) <= Len(js),
         \A p \in 1..(pos + (IF type = "STRING" THEN 1 ELSE 0)) :
             p > Covered /\ Bracket(js[p]) => p > from /\ p <= pos
  PROVE  JsmnInv'
<1> DEFINE n == Len(tokens)
           tok == [type |-> type, start |-> from, end |-> pos, size |-> 0]
           next == pos + (IF type = "STRING" THEN 1 ELSE 0)
<1>1. CASE ~(n < NumTokens)
  BY <1>1, GiveUpInvariant DEF AddToken
<1>2. CASE n < NumTokens
  <2>1. /\ tokens' = Counted(Append(tokens, tok))
        /\ mode' = "value" /\ pos' = next
        /\ UNCHANGED <<js, start, hex, super, result>>
    BY <1>2 DEF AddToken, Advance
  <2>2. /\ n \in Nat /\ pos \in 0..Len(js) /\ Len(js) \in Nat
        /\ tokens \in Seq(Token) /\ super \in 0..n
    BY Types DEF JsmnInv
  <2>3. next \in 0..Len(js) /\ pos <= next
    BY <2>2
  <2>4. tok \in Token
    BY <2>2 DEF Token
  <2> HIDE DEF tok, next
  <2>5. /\ Append(tokens, tok) \in Seq(Token) /\ Len(Append(tokens, tok)) = n + 1
        /\ \A i \in 1..n : Append(tokens, tok)[i] = tokens[i]
        /\ Append(tokens, tok)[n + 1] = tok
    BY <2>2, <2>4, AppendFacts
  <2>6. /\ super \in 0..Len(Append(tokens, tok)) /\ super # n + 1
    BY <2>2, <2>5
  <2>7. /\ tokens' \in Seq(Token) /\ Len(tokens') = n + 1
        /\ \A i \in 1..(n + 1) : Alike(tokens'[i], Append(tokens, tok)[i])
    BY <2>1, <2>5, <2>6, CountedFacts
  <2>8. tokens'[n + 1] = tok
    <3>1. CASE super = 0
      BY <2>1, <2>5, <3>1 DEF Counted
    <3>2. CASE super # 0
      <4> DEFINE q == Append(tokens, tok)
      <4>1. tokens' = [q EXCEPT ![super].size = @ + 1]
        BY <2>1, <3>2 DEF Counted
      <4>2. n + 1 \in DOMAIN q
        BY <2>2, <2>5
      <4> HIDE DEF q
      <4>3. tokens'[n + 1] = q[n + 1]
        BY <2>6, <4>1, <4>2
      <4>4. QED BY <2>5, <4>3 DEF q
    <3>3. QED BY <3>1, <3>2
  <2>9. \A i \in 1..n : Alike(tokens'[i], tokens[i])
    <3> TAKE i \in 1..n
    <3>1. i \in 1..(n + 1)
      BY <2>2
    <3>2. QED BY <2>5, <2>7, <3>1
  <2>10. Covered' = next
    BY <2>1 DEF Covered
  <2>11. TypeOK'
    BY <1>2, <2>1, <2>2, <2>3, <2>7, NumTokensAssumption DEF JsmnInv, TypeOK, Token
  <2>12. /\ Bracketed(tok) /\ tok.type \notin Containers
         /\ tok.end = pos /\ tok.start = from
    BY <2>2 DEF tok, Bracketed, Containers, Unset
  <2>13. \A p \in 1..Covered' : p > Covered /\ Bracket(js[p]) => Encloses(tok, p)
    BY <2>10, <2>12 DEF Encloses, next
  <2>14. Scanning' /\ mode # "done" /\ mode' # "done"
    BY <2>1 DEF Scanning
  <2>15. Covered <= Covered' /\ pos <= Covered' /\ Covered <= tok.start
    <3>1. Covered \in Nat
      BY Types DEF JsmnInv
    <3>2. QED BY <2>2, <2>3, <2>10, <2>12, <3>1
  <2>16. QED
    BY <2>1, <2>4, <2>7, <2>8, <2>9, <2>11, <2>12, <2>13, <2>14, <2>15, GrowInvariant
<1>3. QED BY <1>1, <1>2
-----------------------------------------------------------------------------
(* A closing bracket ends the innermost open container.                           *)

LEMMA CloseInvariant == ASSUME JsmnInv, Close PROVE JsmnInv'
<1> USE DEF JsmnInv
<1> DEFINE n == Len(tokens)
           inner == Max(OpenTokens)
           t == [tokens[inner] EXCEPT !.end = pos + 1]
           closes == OpenTokens # {} /\ tokens[inner].type = ContainerOf(Char)
<1>1. CASE ~closes
  BY <1>1, GiveUpInvariant DEF Close
<1>2. CASE closes
  <2>1. /\ mode = "value" /\ ~AtEnd /\ Char \in Closing
        /\ tokens' = [tokens EXCEPT ![inner].end = pos + 1]
        /\ super' = Max({0} \cup (OpenTokens \ {inner})) /\ pos' = pos + 1
        /\ UNCHANGED <<js, mode, start, hex, result>>
    BY <1>2 DEF Close, InValue, Advance, Closing
  <2>2. /\ n \in Nat /\ pos \in 0..Len(js) /\ Len(js) \in Nat
        /\ tokens \in Seq(Token) /\ DOMAIN tokens = 1..n
        /\ \A i \in 1..n : tokens[i] \in Token /\ tokens[i].start \in Nat /\ tokens[i].end \in Int
    BY Types
  <2>3. pos < Len(js) /\ Char = js[pos + 1] /\ pos + 1 \in 0..Len(js)
    BY <2>1, <2>2 DEF AtEnd, Char
  <2>4. /\ inner \in 1..n /\ tokens[inner].end = Unset
        /\ \A i \in 1..n : i > inner => tokens[i].end # Unset
    <3>1. inner \in OpenTokens /\ \A i \in OpenTokens : inner >= i
      BY <1>2, OpenFacts
    <3>2. \A i \in OpenTokens : i \in 1..n /\ tokens[i].end = Unset
      BY DEF OpenTokens, IsOpen
    <3>3. \A i \in 1..n : i > inner => i \notin OpenTokens
      BY <2>2, <3>1, <3>2
    <3>4. QED BY <3>1, <3>2, <3>3 DEF OpenTokens, IsOpen
  <2>5. super' \in 0..n
    BY <2>1, OpenFacts
  <2> HIDE DEF inner
  <2>6. tokens[inner].type \in Containers /\ tokens[inner].type = ContainerOf(Char)
    BY <1>2, <2>4 DEF TokensBracketed, Bracketed
  <2>7. /\ t \in Token /\ t.type = tokens[inner].type /\ t.start = tokens[inner].start
        /\ t.end = pos + 1
    BY <2>2, <2>3, <2>4, TokenFields
  <2>8. tokens' = [tokens EXCEPT ![inner] = t]
    BY <2>1
  <2> HIDE DEF t
  <2>9. /\ tokens' \in Seq(Token) /\ Len(tokens') = n /\ DOMAIN tokens' = 1..n
        /\ \A i \in 1..n : tokens'[i] = IF i = inner THEN t ELSE tokens[i]
    <3>1. /\ tokens' \in Seq(Token) /\ Len(tokens') = n
          /\ \A i \in 1..n : tokens'[i] = IF i = inner THEN t ELSE tokens[i]
      BY <2>2, <2>4, <2>7, <2>8, ExceptSeq
    <3>2. QED BY <3>1
  <2>10. TypeOK'
    BY <2>1, <2>2, <2>3, <2>5, <2>9 DEF TypeOK, Token
  <2>11. Covered = pos /\ Covered' = pos + 1
    BY <2>1 DEF Covered
  <2>12. \A i \in 1..n : /\ tokens[i].type \in Containers => tokens[i].start < pos
                         /\ tokens[i].end # Unset => tokens[i].end <= pos
    BY <2>1, <2>11 DEF InProgress, TokensBehind
  <2>13. Scanning' /\ Finished'
    BY <2>1 DEF Scanning, Finished, Parsed
  <2>14. TokensBracketed'
    <3>1. ASSUME NEW i \in 1..n PROVE Bracketed(tokens[i])'
      <4>1. CASE i = inner
        <5>1. Bracketed(tokens[inner])
          BY <2>4 DEF TokensBracketed
        <5>2. /\ t.type \in Containers /\ js[t.start + 1] \in Opening
              /\ ContainerOf(js[t.start + 1]) = t.type
              /\ t.start < t.end /\ js[t.end] \in Closing /\ ContainerOf(js[t.end]) = t.type
          BY <2>1, <2>2, <2>3, <2>4, <2>6, <2>7, <2>12, <5>1 DEF Bracketed
        <5>3. QED BY <2>1, <2>9, <4>1, <5>2 DEF Bracketed
      <4>2. CASE i # inner
        BY <2>1, <2>9, <4>2 DEF TokensBracketed, Bracketed
      <4>3. QED BY <4>1, <4>2
    <3>2. QED BY <2>9, <3>1 DEF TokensBracketed
  <2>15. TokensNest'
    <3> SUFFICES ASSUME NEW j \in 1..n, NEW i \in 1..(j - 1)
                 PROVE  LET a == tokens'[i]  b == tokens'[j] IN
                        \/ a.end # Unset /\ a.end <= b.start
                        \/ /\ a.type \in Containers /\ a.start < b.start
                           /\ a.end = Unset \/ (b.end # Unset /\ b.end < a.end)
      BY <2>9 DEF TokensNest
    <3>1. i \in 1..n /\ i < j
      BY <2>2
    <3>2. LET a == tokens[i]  b == tokens[j] IN
          \/ a.end # Unset /\ a.end <= b.start
          \/ /\ a.type \in Containers /\ a.start < b.start
             /\ a.end = Unset \/ (b.end # Unset /\ b.end < a.end)
      BY <2>2 DEF TokensNest
    <3>3. CASE i # inner /\ j # inner
      BY <2>9, <3>1, <3>2, <3>3
    <3>4. CASE j = inner
      BY <2>4, <2>7, <2>9, <3>1, <3>2, <3>4
    <3>5. CASE i = inner
      <4>1. tokens[j].end # Unset /\ tokens[j].end <= pos /\ tokens[j].end \in Int
        BY <2>2, <2>4, <2>12, <3>1, <3>5
      <4>2. tokens'[j] = tokens[j] /\ tokens'[i] = t
        BY <2>9, <3>1, <3>5
      <4>3. tokens[j].end < pos + 1
        BY <2>2, <4>1
      <4>4. t.type \in Containers /\ t.start < tokens[j].start
        BY <2>4, <2>6, <2>7, <3>2, <3>5
      <4>5. QED BY <2>7, <4>1, <4>2, <4>3, <4>4
    <3>6. QED BY <3>3, <3>4, <3>5
  <2>16. TokensBehind(Covered)'
    <3> SUFFICES ASSUME NEW i \in 1..n
                 PROVE  /\ tokens'[i].type \in Containers => tokens'[i].start < pos + 1
                        /\ tokens'[i].end # Unset => tokens'[i].end <= pos + 1
      BY <2>9, <2>11 DEF TokensBehind
    <3>1. CASE i = inner
      BY <2>2, <2>4, <2>6, <2>7, <2>9, <2>12, <3>1
    <3>2. CASE i # inner
      BY <2>2, <2>9, <2>12, <3>2
    <3>3. QED BY <3>1, <3>2
  <2>17. Accounted(Covered)'
    <3> SUFFICES ASSUME NEW p \in 1..(pos + 1), Bracket(js[p])
                 PROVE  InScalar(p)' \/ HasContainer(p)'
      BY <2>1, <2>11 DEF Accounted, AccountedFor, Bracket
    <3>1. CASE p \in 1..pos
      <4>1. InScalar(p) \/ HasContainer(p)
        BY <2>1, <2>11, <3>1 DEF InProgress, Accounted, AccountedFor, Bracket
      <4>2. ASSUME InScalar(p) PROVE InScalar(p)'
        <5>1. PICK i \in 1..n : /\ tokens[i].type \notin Containers
                                /\ p > tokens[i].start /\ p <= tokens[i].end
          BY <2>2, <4>2 DEF InScalar
        <5>2. tokens'[i] = tokens[i]
          BY <2>6, <2>9, <5>1
        <5>3. QED BY <2>9, <5>1, <5>2 DEF InScalar
      <4>3. ASSUME HasContainer(p) PROVE HasContainer(p)'
        <5>1. PICK i \in 1..n :
                /\ tokens[i].type \in Containers
                /\ tokens[i].type = ContainerOf(js[p])
                /\ IF js[p] \in Opening THEN tokens[i].start = p - 1 ELSE tokens[i].end = p
          BY <4>3 DEF HasContainer
        <5>2. CASE i = inner
          <6>1. js[p] \in Opening
            BY <2>4, <3>1, <5>1, <5>2 DEF Unset
          <6>2. tokens'[i].type = tokens[i].type /\ tokens'[i].start = tokens[i].start
            BY <2>7, <2>9, <5>2
          <6>3. QED BY <2>1, <2>9, <5>1, <6>1, <6>2 DEF HasContainer
        <5>3. CASE i # inner
          <6>1. tokens'[i] = tokens[i]
            BY <2>9, <5>3
          <6>2. QED BY <2>1, <2>9, <5>1, <6>1 DEF HasContainer
        <5>4. QED BY <5>2, <5>3
      <4>4. QED BY <4>1, <4>2, <4>3
    <3>2. CASE p = pos + 1
      <4>1. /\ js[p] \notin Opening /\ tokens'[inner] = t
            /\ t.type \in Containers /\ t.type = ContainerOf(js[p]) /\ t.end = p
        BY <2>1, <2>3, <2>4, <2>6, <2>7, <2>9, <3>2 DEF Opening, Closing
      <4>2. QED BY <2>1, <2>4, <2>9, <4>1 DEF HasContainer
    <3>3. QED BY <2>2, <3>1, <3>2
  <2>18. QED BY <2>10, <2>13, <2>14, <2>15, <2>16, <2>17 DEF InProgress
<1>3. QED BY <1>1, <1>2
-----------------------------------------------------------------------------
(* Inside strings and primitives.                                                 *)

LEMMA CharInText == ASSUME TypeOK, ~AtEnd PROVE pos < Len(js) /\ Char = js[pos + 1]
  BY DEF AtEnd, Char

LEMMA PrimitiveInvariant == ASSUME JsmnInv, Primitive PROVE JsmnInv'
<1> USE DEF JsmnInv
<1>1. /\ pos \in 0..Len(js) /\ start \in 0..Len(js) /\ Len(js) \in Nat
      /\ mode = "primitive" /\ start <= pos /\ Covered = start
  BY Types DEF Primitive, Scanning, Covered
<1>2. CASE AddToken("PRIMITIVE", start, pos)
  <2>1. pos + (IF "PRIMITIVE" = "STRING" THEN 1 ELSE 0) = pos
    BY <1>1
  <2>2. \A p \in 1..pos : p > Covered => p > start /\ p <= pos
    BY <1>1
  <2>3. QED BY <1>1, <1>2, <2>1, <2>2, AddTokenInvariant
<1>3. CASE GiveUp(INVAL)
  BY <1>3, GiveUpInvariant
<1>4. CASE ~AtEnd /\ Advance(1) /\ UNCHANGED <<js, mode, start, hex, tokens, super, result>>
  <2>1. pos + 1 \in 0..Len(js)
    BY <1>1, <1>4, CharInText
  <2>2. TypeOK'
    BY <1>4, <2>1 DEF TypeOK, Advance
  <2>3. Scanning' /\ Covered' = Covered
    BY <1>1, <1>4 DEF Scanning, Covered, Advance
  <2>4. QED BY <1>1, <1>4, <2>2, <2>3, QuietInvariant
<1>5. QED BY <1>2, <1>3, <1>4 DEF Primitive

LEMMA StringEndInvariant == ASSUME JsmnInv, StringEnd PROVE JsmnInv'
<1> USE DEF JsmnInv
<1>1. /\ pos \in 0..Len(js) /\ start \in 0..Len(js) /\ Len(js) \in Nat
      /\ mode = "string" /\ start < pos /\ Covered = start /\ js[start + 1] = "quote"
      /\ pos < Len(js) /\ js[pos + 1] = "quote" /\ AddToken("STRING", start + 1, pos)
  BY Types, CharInText DEF StringEnd, InString, Scanning, Covered
<1>2. ~Bracket("quote")
  BY DEF Bracket, Opening, Closing
<1>3. ASSUME NEW p \in 1..(pos + 1), p > Covered, Bracket(js[p])
      PROVE  p > start + 1 /\ p <= pos
  <2>1. p # start + 1 /\ p # pos + 1
    BY <1>1, <1>2, <1>3
  <2>2. QED BY <1>1, <1>3, <2>1
<1>4. pos + (IF "STRING" = "STRING" THEN 1 ELSE 0) = pos + 1 /\ start + 1 \in 0..Len(js)
  BY <1>1
<1>5. QED BY <1>1, <1>3, <1>4, AddTokenInvariant

(* The other characters of a string move the parser on.                            *)
LEMMA StringInvariant ==
  ASSUME JsmnInv, StringChar \/ Escape \/ Unicode PROVE JsmnInv'
<1> USE DEF JsmnInv
<1>1. /\ pos \in 0..Len(js) /\ start \in 0..Len(js) /\ Len(js) \in Nat
      /\ mode \in {"string", "unicode"} /\ start < pos /\ js[start + 1] = "quote"
  BY Types DEF StringChar, Escape, Unicode, InString, Scanning
<1>2. CASE GiveUp(INVAL)
  BY <1>2, GiveUpInvariant
<1>3. CASE /\ pos' \in {pos, pos + 1, pos + 2} /\ pos' <= Len(js) /\ hex' \in 0..4
           /\ mode' \in {"string", "unicode"}
           /\ UNCHANGED <<js, start, tokens, super, result>>
  <2>1. TypeOK'
    BY <1>1, <1>3 DEF TypeOK
  <2>2. Scanning' /\ Covered' = Covered
    BY <1>1, <1>3 DEF Scanning, Covered
  <2>3. QED BY <1>1, <1>3, <2>1, <2>2, QuietInvariant
<1>4. hex \in 0..4
  BY DEF TypeOK
<1>5. CASE StringChar
  <2>1. pos < Len(js)
    BY <1>5, CharInText DEF StringChar, InString
  <2>2. QED BY <1>1, <1>3, <1>4, <1>5, <2>1 DEF StringChar, InString, Advance
<1>6. CASE Escape
  BY <1>1, <1>2, <1>3, <1>6 DEF Escape, InString, Advance
<1>7. CASE Unicode
  <2>1. CASE hex = 4 \/ AtEnd
    BY <1>1, <1>3, <1>4, <1>7, <2>1 DEF Unicode
  <2>2. CASE hex # 4 /\ ~AtEnd
    <3>1. pos < Len(js) /\ hex + 1 \in 0..4
      BY <1>4, <2>2, CharInText
    <3>2. QED BY <1>1, <1>2, <1>3, <1>7, <2>2, <3>1 DEF Unicode, Advance
  <2>3. QED BY <2>1, <2>2
<1>8. QED BY <1>5, <1>6, <1>7

-----------------------------------------------------------------------------
(* The invariant holds initially and is preserved.                                *)

LEMMA InitInvariant == Init => JsmnInv
<1> SUFFICES ASSUME Init PROVE JsmnInv
  OBVIOUS
<1>1. js \in Seq(Characters) /\ Len(js) \in Nat
  BY TextsAssumption DEF Init
<1>2. tokens = <<>> /\ Len(tokens) = 0 /\ Covered = 0 /\ mode = "value" /\ result = Parsing
  BY DEF Init, Covered
<1>3. TypeOK
  BY <1>1, <1>2, NumTokensAssumption DEF Init, TypeOK
<1>4. Scanning /\ TokensBracketed /\ InProgress /\ Finished
  BY <1>2 DEF Init, Scanning, TokensBracketed, InProgress, TokensBehind, Accounted, Finished, Parsed
<1>5. TokensNest
  BY <1>2 DEF TokensNest
<1>6. QED BY <1>3, <1>4, <1>5 DEF JsmnInv

(* The characters of mode "value" that add no token and close none.               *)
LEMMA ValueInvariant ==
  ASSUME JsmnInv, Skip \/ Colon \/ Comma \/ BeginString \/ BeginPrimitive PROVE JsmnInv'
<1> USE DEF JsmnInv
<1>1. /\ pos \in 0..Len(js) /\ Len(js) \in Nat /\ mode = "value" /\ Covered = pos
      /\ pos < Len(js) /\ Char = js[pos + 1]
      /\ UNCHANGED <<js, tokens, hex, result>>
  BY Types, CharInText DEF Skip, Colon, Comma, BeginString, BeginPrimitive, InValue, Covered
<1>2. super' \in 0..Len(tokens)
  <2>1. super \in 0..Len(tokens) /\ Len(tokens) \in 0..Len(tokens)
    BY Types
  <2>2. OpenTokens # {} => Max(OpenTokens) \in 0..Len(tokens)
    BY OpenFacts
  <2>3. QED BY <2>1, <2>2 DEF Skip, Colon, Comma, BeginString, BeginPrimitive
<1>3. CASE Skip \/ Colon \/ Comma
  <2>1. /\ mode' = mode /\ start' = start /\ pos' = pos + 1
        /\ Char \in {"space", ":", ","}
    BY <1>3 DEF Skip, Colon, Comma, InValue, Advance
  <2>2. TypeOK'
    <3>1. pos + 1 \in 0..Len(js)
      BY <1>1
    <3>2. QED BY <1>1, <1>2, <2>1, <3>1 DEF TypeOK
  <2>3. Scanning' /\ Covered' = Covered + 1 /\ ~Bracket(js[Covered + 1])
    BY <1>1, <2>1 DEF Scanning, Covered, Bracket, Opening, Closing
  <2>4. QED BY <1>1, <2>1, <2>2, <2>3, QuietInvariant
<1>4. CASE BeginString \/ BeginPrimitive
  <2>1. /\ start' = pos /\ super' = super
        /\ \/ mode' = "string" /\ pos' = pos + 1 /\ Char = "quote"
           \/ mode' = "primitive" /\ pos' = pos
    BY <1>4 DEF BeginString, BeginPrimitive, InValue, Advance
  <2>2. TypeOK'
    <3>1. pos' \in 0..Len(js) /\ start' \in 0..Len(js)
      BY <1>1, <2>1
    <3>2. mode' \in {"value", "string", "unicode", "primitive", "done"}
      BY <2>1
    <3>3. QED BY <1>1, <1>2, <3>1, <3>2 DEF TypeOK
  <2>3. Scanning' /\ Covered' = Covered
    BY <1>1, <2>1 DEF Scanning, Covered
  <2>4. QED BY <1>1, <2>1, <2>2, <2>3, QuietInvariant
<1>5. QED BY <1>3, <1>4

LEMMA InductiveStep == JsmnInv /\ [Next]_vars => JsmnInv'
<1> SUFFICES ASSUME JsmnInv, [Next]_vars PROVE JsmnInv'
  OBVIOUS
<1>1. CASE StringOpen
  BY <1>1, GiveUpInvariant DEF StringOpen
<1>2. CASE UNCHANGED vars
  <2>1. /\ UNCHANGED <<js, mode, pos, start, hex, tokens, super, result>>
        /\ TypeOK /\ Scanning /\ TokensBracketed /\ TokensNest /\ InProgress /\ Finished
    BY <1>2 DEF vars, JsmnInv
  <2>2. TypeOK'
    BY <2>1 DEF TypeOK
  <2>3. Scanning' /\ TokensBracketed' /\ TokensNest'
    BY <2>1 DEF Scanning, TokensBracketed, Bracketed, TokensNest
  <2>4. Covered' = Covered /\ TextEnd' = TextEnd /\ OpenTokens' = OpenTokens
    BY <2>1 DEF Covered, TextEnd, OpenTokens, IsOpen
  <2>5. TokensBehind(Covered)' <=> TokensBehind(Covered)
    BY <2>1, <2>4 DEF TokensBehind
  <2>6. \A p : AccountedFor(p)' <=> AccountedFor(p)
    BY <2>1 DEF AccountedFor, InScalar, HasContainer
  <2>7. InProgress'
    BY <2>1, <2>4, <2>5, <2>6 DEF InProgress, Accounted
  <2>8. Finished'
    BY <2>1, <2>4, <2>6 DEF Finished, Parsed, Accounted
  <2>9. QED BY <2>2, <2>3, <2>7, <2>8 DEF JsmnInv
<1>3. QED
  BY <1>1, <1>2, OpenInvariant, CloseInvariant, ValueInvariant, FinishInvariant,
     PrimitiveInvariant, StringEndInvariant, StringInvariant DEF Next, jsmn_parse

LEMMA Invariance == Spec => []JsmnInv
  BY InitInvariant, InductiveStep, PTL DEF Spec

-----------------------------------------------------------------------------
(* The theorems.                                                                  *)

(* Every variable keeps its type: the parser never reads beyond the text, never     *)
(* writes beyond the caller's token array and never counts a child to a token that   *)
(* is not there, whatever text and whatever length of the array.                     *)
THEOREM TypeCorrect == Spec => []TypeOK
  BY Invariance, PTL DEF JsmnInv

(* Tokens come in the order of the text and lie behind or inside one another.        *)
THEOREM Nesting == Spec => []TokensNest
  BY Invariance, PTL DEF JsmnInv

(* Of two containers that begin or end with the same character none is the other.    *)
LEMMA DistinctContainers ==
  ASSUME JsmnInv, NEW i \in 1..Len(tokens), NEW j \in 1..Len(tokens),
         tokens[i].type \in Containers, tokens[j].type \in Containers,
         \/ tokens[i].start = tokens[j].start
         \/ tokens[i].end = tokens[j].end /\ tokens[i].end # Unset
  PROVE  i = j
<1> USE DEF JsmnInv
<1>1. /\ Len(tokens) \in Nat /\ DOMAIN tokens = 1..Len(tokens)
      /\ \A k \in 1..Len(tokens) : tokens[k].start \in Nat /\ tokens[k].end \in Int
  BY Types
<1>2. ASSUME NEW k \in 1..Len(tokens), NEW l \in 1..Len(tokens), k < l,
             tokens[k].type \in Containers, tokens[l].type \in Containers
      PROVE  /\ tokens[k].start # tokens[l].start
             /\ tokens[k].end = Unset \/ tokens[k].end # tokens[l].end
  <2>1. /\ tokens[k].end # Unset => tokens[k].start < tokens[k].end
        /\ tokens[l].end # Unset => tokens[l].start < tokens[l].end
    BY <1>2 DEF TokensBracketed, Bracketed
  <2>2. k \in 1..(l - 1) /\ l \in DOMAIN tokens
    BY <1>1, <1>2
  <2>3. LET a == tokens[k]  b == tokens[l] IN
        \/ a.end # Unset /\ a.end <= b.start
        \/ /\ a.type \in Containers /\ a.start < b.start
           /\ a.end = Unset \/ (b.end # Unset /\ b.end < a.end)
    BY <2>2 DEF TokensNest
  <2>4. QED BY <1>1, <1>2, <2>1, <2>3
<1>3. i < j \/ j < i \/ i = j
  BY <1>1
<1>4. QED BY <1>2, <1>3

(* Once a text is accepted, each of its brackets outside strings and primitives      *)
(* begins or ends exactly one container of its own kind.                            *)
THEOREM Pairing == Spec => []BracketsPaired
<1>1. JsmnInv => BracketsPaired
  <2> SUFFICES ASSUME JsmnInv, Parsed, NEW p \in 1..TextEnd, Bracket(js[p]), ~InScalar(p)
               PROVE  Cardinality({i \in DOMAIN tokens :
                          /\ tokens[i].type \in Containers
                          /\ tokens[i].type = ContainerOf(js[p])
                          /\ IF js[p] \in {"{", "["} THEN tokens[i].start = p - 1
                                                      ELSE tokens[i].end = p}) = 1
    BY DEF BracketsPaired, Bracket, Opening, Closing
  <2> DEFINE Fits(i) == /\ tokens[i].type \in Containers
                        /\ tokens[i].type = ContainerOf(js[p])
                        /\ IF js[p] \in {"{", "["} THEN tokens[i].start = p - 1
                                                    ELSE tokens[i].end = p
  <2>1. PICK i \in 1..Len(tokens) : Fits(i)
    BY DEF JsmnInv, Finished, Accounted, AccountedFor, Bracket, HasContainer, Opening
  <2>2. DOMAIN tokens = 1..Len(tokens) /\ p # Unset
    BY Types DEF JsmnInv, Unset
  <2>3. ASSUME NEW j \in 1..Len(tokens), Fits(j) PROVE j = i
    BY <2>1, <2>2, <2>3, DistinctContainers
  <2>4. {j \in DOMAIN tokens : Fits(j)} = {i}
    BY <2>1, <2>2, <2>3
  <2>5. QED BY <2>4, FS_Singleton
<1>2. QED BY <1>1, Invariance, PTL

\* What the callback acts on: an object of three tokens that the text has closed.
Closed == Accepted => /\ OpenTokens = {} /\ Len(tokens) = 3
                      /\ tokens[1].end \in 1..Len(js) /\ js[tokens[1].end] = "}"

(* The callback never acts on the first part of a message, whatever the message and  *)
(* wherever it is cut: the object it accepts ends with its own bracket, and no        *)
(* container inside it is open.                                                     *)
THEOREM NeverPartial == Spec => []Closed
<1>1. JsmnInv => Closed
  <2> SUFFICES ASSUME JsmnInv, Accepted
               PROVE  /\ OpenTokens = {} /\ Len(tokens) = 3
                      /\ tokens[1].end \in 1..Len(js) /\ js[tokens[1].end] = "}"
    BY DEF Closed
  <2>1. OpenTokens = {} /\ Len(tokens) = 3
    BY DEF JsmnInv, Finished, Parsed, Accepted
  <2>2. tokens[1].end # Unset /\ tokens[1].type = "OBJECT" /\ tokens[1] \in Token
    BY <2>1, Types DEF OpenTokens, IsOpen, Accepted, JsmnInv
  <2>3. /\ tokens[1].start < tokens[1].end /\ js[tokens[1].end] \in Closing
        /\ ContainerOf(js[tokens[1].end]) = "OBJECT"
    BY <2>1, <2>2 DEF JsmnInv, TokensBracketed, Bracketed, Containers
  <2>4. tokens[1].end \in 1..Len(js)
    BY <2>2, <2>3 DEF Token
  <2>5. js[tokens[1].end] = "}"
    BY <2>3 DEF Closing, ContainerOf
  <2>6. QED BY <2>1, <2>4, <2>5
<1>2. QED BY <1>1, Invariance, PTL

-----------------------------------------------------------------------------
(* Commands and their beginnings.                                                 *)

\* From quote to quote with the escapes E.
StringText(t, from, to, E) == E \subseteq Backslashes(t, from, to) /\ WithEscapes(t, from, to, E)

\* A command t with the escapes E of its key and F of its value.
CommandText(t, k, b, E, F) ==
    /\ {k, b, Len(t)} \subseteq Nat /\ 2 < k /\ k < b /\ b + 1 < Len(t)
    /\ t[1] = "{" /\ StringText(t, 2, k, E) /\ t[k + 1] = ":"
    /\ \A p \in (k + 2)..b : t[p] = "space"
    /\ t[b + 1] = "quote" => StringText(t, b + 1, Len(t) - 1, F)
    /\ t[b + 1] # "quote" => IsPrimitive(t, b + 1, Len(t) - 1)
    /\ t[Len(t)] = "}"

TokenAt(type, from, to, children) ==
    [type |-> type, start |-> from, end |-> to, size |-> children]

ObjectAt(to, children) == TokenAt("OBJECT", 0, to, children)
KeyAt(k, children) == TokenAt("STRING", 2, k - 1, children)
ValueAt(t, b, to) == IF t[b + 1] = "quote" THEN TokenAt("STRING", b + 1, to - 1, 0)
                                           ELSE TokenAt("PRIMITIVE", b, to, 0)

Read(t, k, b) == <<ObjectAt(Len(t), 1), KeyAt(k, 1), ValueAt(t, b, Len(t) - 1)>>

\* The payload is a command t or a beginning of it, its escapes E.
Beginning(t) == /\ Len(t) \in Nat /\ js # <<>> /\ Len(js) <= Len(t)
                /\ \A p \in 1..Len(js) : js[p] = t[p]

\* In a string of the text from quote to quote: behind the escapes that have begun or
\* inside the digits of one.
InsideString(t, from, to, E) ==
    /\ start = from - 1
    /\ \/ /\ mode = "string" /\ pos \in from..(to - 1)
          /\ pos \notin E \/ pos = Len(js)
       \/ /\ mode = "unicode" /\ hex \in 0..4
          /\ \E p \in E : t[p + 1] = "u" /\ pos = p + 1 + hex

\* How far the parser has come.
AtObject == mode = "value" /\ pos = 0 /\ tokens = <<>> /\ super = 0
AtKey == mode = "value" /\ pos = 1 /\ tokens = <<ObjectAt(Unset, 0)>> /\ super = 1
InKey(t, k, E) == InsideString(t, 2, k, E) /\ tokens = <<ObjectAt(Unset, 0)>> /\ super = 1
BehindKey(k) == /\ mode = "value" /\ pos = k /\ super = 1
                /\ tokens = <<ObjectAt(Unset, 1), KeyAt(k, 0)>>
BehindColon(k, b) == /\ mode = "value" /\ pos \in (k + 1)..b /\ super = 2
                     /\ tokens = <<ObjectAt(Unset, 1), KeyAt(k, 0)>>
InStringValue(t, k, b, E) == /\ t[b + 1] = "quote" /\ InsideString(t, b + 1, Len(t) - 1, E)
                             /\ super = 2 /\ tokens = <<ObjectAt(Unset, 1), KeyAt(k, 0)>>
InPrimitiveValue(t, k, b) == /\ t[b + 1] # "quote" /\ mode = "primitive" /\ start = b
                             /\ pos \in b..(Len(t) - 1)
                             /\ super = 2 /\ tokens = <<ObjectAt(Unset, 1), KeyAt(k, 0)>>
\* A primitive ends with the payload, too.
BehindValue(t, k, b) == /\ mode = "value" /\ pos < Len(t)
                        /\ pos = Len(t) - 1 \/ pos = Len(js)
                        /\ tokens = <<ObjectAt(Unset, 1), KeyAt(k, 1), ValueAt(t, b, pos)>>
BehindObject(t, k, b) == mode = "value" /\ pos = Len(t) /\ tokens = Read(t, k, b)
CommandRead(t, k, b) == /\ mode = "done" /\ result = 3 /\ Len(js) = Len(t)
                        /\ tokens = Read(t, k, b)
CutShort(t) == mode = "done" /\ result = PART /\ Len(js) < Len(t)

Reading(t, k, b, E, F) ==
    \/ AtObject \/ AtKey \/ InKey(t, k, E) \/ BehindKey(k) \/ BehindColon(k, b)
    \/ InStringValue(t, k, b, F) \/ InPrimitiveValue(t, k, b)
    \/ BehindValue(t, k, b) \/ BehindObject(t, k, b) \/ CommandRead(t, k, b) \/ CutShort(t)

(* The action a character causes.                                                 *)
LEMMA ActionInValue ==
  ASSUME Next, mode = "value", ~AtEnd
  PROVE  /\ Char \in {"{", "["} => Open
         /\ Char \in {"}", "]"} => Close
         /\ Char = "space" => Skip
         /\ Char = ":" => Colon
         /\ Char = "quote" => BeginString
         /\ Char \notin Punctuation \cup {"space", "quote"} => BeginPrimitive
  BY DEF Next, jsmn_parse, Open, Close, Skip, Colon, Comma, BeginString, BeginPrimitive,
     InValue, Finish, Primitive, StringOpen, StringEnd, StringChar, Escape, InString, Unicode,
     Punctuation

LEMMA ActionInText ==
  ASSUME Next, mode = "string", ~AtEnd
  PROVE  /\ Char = "quote" => StringEnd
         /\ Char = "backslash" /\ pos + 1 < Len(js) => Escape
         /\ Char = "backslash" /\ pos + 1 = Len(js) => StringChar
         /\ Char \notin {"quote", "backslash"} => StringChar
  BY DEF Next, jsmn_parse, Open, Close, Skip, Colon, Comma, BeginString, BeginPrimitive,
     InValue, Finish, Primitive, StringOpen, StringEnd, StringChar, Escape, InString, Unicode

LEMMA ActionAtStringEnd == ASSUME Next, mode = "string", AtEnd PROVE StringOpen
  BY DEF Next, jsmn_parse, Open, Close, Skip, Colon, Comma, BeginString, BeginPrimitive,
     InValue, Finish, Primitive, StringOpen, StringEnd, StringChar, Escape, InString, Unicode

LEMMA ActionInUnicode == ASSUME Next, mode = "unicode" PROVE Unicode
  BY DEF Next, jsmn_parse, Open, Close, Skip, Colon, Comma, BeginString, BeginPrimitive,
     InValue, Finish, Primitive, StringOpen, StringEnd, StringChar, Escape, InString, Unicode

LEMMA ActionInPrimitive == ASSUME Next, mode = "primitive" PROVE Primitive
  BY DEF Next, jsmn_parse, Open, Close, Skip, Colon, Comma, BeginString, BeginPrimitive,
     InValue, Finish, Primitive, StringOpen, StringEnd, StringChar, Escape, InString, Unicode

LEMMA ActionAtEnd == ASSUME Next, mode = "value", AtEnd PROVE Finish
  BY DEF Next, jsmn_parse, Open, Close, Skip, Colon, Comma, BeginString, BeginPrimitive,
     InValue, Finish, Primitive, StringOpen, StringEnd, StringChar, Escape, InString, Unicode

LEMMA TextKept == Next => UNCHANGED js
  BY DEF Next, jsmn_parse, Open, Close, Skip, Colon, Comma, BeginString, BeginPrimitive,
     InValue, Finish, Primitive, StringOpen, StringEnd, StringChar, Escape, InString, Unicode,
     AddToken, Return, GiveUp

(* Token arrays of a command.                                                     *)
LEMMA AppendToPair ==
  ASSUME NEW x, NEW y, NEW z PROVE Append(<<x, y>>, z) = <<x, y, z>>
<1> DEFINE S == {x, y, z}
<1>1. <<x, y>> \in Seq(S) /\ <<x, y, z>> \in Seq(S) /\ Append(<<x, y>>, z) \in Seq(S)
  OBVIOUS
<1>2. Len(Append(<<x, y>>, z)) = 3 /\ Len(<<x, y, z>>) = 3
  OBVIOUS
<1>3. \A i \in 1..3 : Append(<<x, y>>, z)[i] = <<x, y, z>>[i]
  OBVIOUS
<1> HIDE DEF S
<1>4. QED BY <1>1, <1>2, <1>3, SeqEqual

LEMMA ShortArrays ==
  ASSUME NEW x, NEW y, NEW z, NEW v
  PROVE  /\ Append(<<>>, x) = <<x>> /\ Append(<<x>>, y) = <<x, y>>
         /\ Append(<<x, y>>, z) = <<x, y, z>>
         /\ [<<x, y>> EXCEPT ![1] = v] = <<v, y>>
         /\ [<<x, y, z>> EXCEPT ![1] = v] = <<v, y, z>>
         /\ [<<x, y, z>> EXCEPT ![2] = v] = <<x, v, z>>
         /\ Len(<<>>) = 0 /\ Len(<<x>>) = 1 /\ Len(<<x, y>>) = 2 /\ Len(<<x, y, z>>) = 3
<1> DEFINE S == {x, y, z}
<1>1. Append(<<>>, x) = <<x>> /\ Append(<<x>>, y) = <<x, y>>
  <2>1. /\ <<>> \in Seq(S) /\ <<x>> \in Seq(S) /\ <<x, y>> \in Seq(S)
        /\ Append(<<>>, x) \in Seq(S) /\ Append(<<x>>, y) \in Seq(S)
    OBVIOUS
  <2>2. /\ Len(Append(<<>>, x)) = 1 /\ Len(<<x>>) = 1
        /\ Len(Append(<<x>>, y)) = 2 /\ Len(<<x, y>>) = 2
    OBVIOUS
  <2>3. /\ \A i \in 1..1 : Append(<<>>, x)[i] = <<x>>[i]
        /\ \A i \in 1..2 : Append(<<x>>, y)[i] = <<x, y>>[i]
    OBVIOUS
  <2> HIDE DEF S
  <2>4. QED BY <2>1, <2>2, <2>3, SeqEqual
<1>2. Append(<<x, y>>, z) = <<x, y, z>>
  BY AppendToPair
<1>3. [<<x, y>> EXCEPT ![1] = v] = <<v, y>>
  OBVIOUS
<1>4. [<<x, y, z>> EXCEPT ![1] = v] = <<v, y, z>>
  OBVIOUS
<1>5. [<<x, y, z>> EXCEPT ![2] = v] = <<x, v, z>>
  OBVIOUS
<1>6. QED BY <1>1, <1>2, <1>3, <1>4, <1>5

(* A token with room for it is added, and counted to the one it belongs to.        *)
LEMMA AddedToken ==
  ASSUME NEW type \in {"STRING", "PRIMITIVE"}, NEW from, NEW to, Len(tokens) < NumTokens,
         AddToken(type, from, to)
  PROVE  /\ tokens' = Counted(Append(tokens, TokenAt(type, from, to, 0)))
         /\ mode' = "value" /\ UNCHANGED <<js, start, super>>
         /\ pos' = pos + IF type = "STRING" THEN 1 ELSE 0
  BY DEF AddToken, TokenAt, Advance

(* The characters of a string: its escapes, and what lies behind none of them.       *)
LEMMA StringFacts ==
  ASSUME NEW t, NEW from \in Nat, NEW to \in Nat, NEW E, StringText(t, from, to, E)
  PROVE  /\ from < to /\ t[from] = "quote" /\ t[to] = "quote"
         /\ \A p \in E : /\ p \in (from + 1)..(to - 1) /\ t[p] = "backslash"
                         /\ p + 1 < to /\ p + 1 \notin E
                         /\ \/ t[p + 1] \in Escapable
                            \/ /\ t[p + 1] = "u" /\ p + 5 < to
                               /\ \A d \in 2..5 : t[p + d] \in HexDigits
         /\ \A p \in (from + 1)..(to - 1) :
                t[p] \in {"quote", "backslash", "nul"} => p \in E \/ p - 1 \in E
  BY DEF StringText, WithEscapes, Backslashes

LEMMA EndOfText ==
  ASSUME TypeOK
  PROVE  AtEnd <=> (pos = Len(js) \/ Char = "nul")
<1> DEFINE n == Len(js)
<1>1. n \in Nat /\ pos \in 0..n
  BY Types DEF TypeOK, n
<1> HIDE DEF n
<1>2. pos < n <=> pos # n
  BY <1>1
<1>3. QED BY <1>2 DEF AtEnd, n

(* One character of a string of the text: it stays inside, it ends with the quote     *)
(* that ends the string in the text, or the payload ends in it.                        *)
LEMMA StringStep ==
  ASSUME TypeOK, Next, NEW t, Beginning(t), NEW from \in Nat, NEW to \in Nat, NEW E,
         StringText(t, from, to, E), InsideString(t, from, to, E)
  PROVE  \/ InsideString(t, from, to, E)' /\ UNCHANGED <<js, tokens, super>>
         \/ StringEnd /\ pos = to - 1 /\ start = from - 1 /\ mode = "string"
         \/ mode' = "done" /\ result' = PART /\ js' = js /\ Len(js) < to
<1> DEFINE n == Len(js)
<1>1. n \in Nat /\ pos \in 0..n /\ js' = js
  BY Types, TextKept DEF TypeOK, n
<1>2. /\ from < to /\ t[from] = "quote" /\ t[to] = "quote"
      /\ \A p \in E : /\ p \in (from + 1)..(to - 1) /\ t[p] = "backslash"
                      /\ p + 1 < to /\ p + 1 \notin E
                      /\ \/ t[p + 1] \in Escapable
                         \/ /\ t[p + 1] = "u" /\ p + 5 < to
                            /\ \A d \in 2..5 : t[p + d] \in HexDigits
      /\ \A p \in (from + 1)..(to - 1) :
             t[p] \in {"quote", "backslash", "nul"} => p \in E \/ p - 1 \in E
  BY StringFacts
<1>3. \A p \in 1..n : js[p] = t[p]
  BY DEF Beginning, n
<1>4. start = from - 1
  BY DEF InsideString
<1>5. AtEnd <=> (pos = n \/ Char = "nul")
  BY EndOfText DEF n
<1>6. CASE mode = "string"
  <2>1. pos \in from..(to - 1) /\ (pos \notin E \/ pos = n)
    BY <1>6 DEF InsideString
  <2>2. CASE pos = n
    <3>1. StringOpen
      BY <1>5, <1>6, <2>2, ActionAtStringEnd
    <3>2. n < to
      BY <2>1, <2>2
    <3>3. QED BY <1>1, <3>1, <3>2 DEF StringOpen, GiveUp, n
  <2>3. CASE pos # n
    <3>1. pos + 1 \in 1..n /\ pos + 1 \in (from + 1)..to /\ pos + 1 - 1 = pos
      BY <1>1, <2>1, <2>3
    <3>2. Char = t[pos + 1] /\ pos \notin E
      BY <1>3, <2>1, <2>3, <3>1 DEF Char
    <3>3. pos + 1 # to => pos + 1 \in (from + 1)..(to - 1)
      BY <3>1
    <3>4. t[pos + 1] \in {"quote", "backslash", "nul"} /\ pos + 1 # to => pos + 1 \in E
      <4> SUFFICES ASSUME NEW q, q = pos + 1, t[q] \in {"quote", "backslash", "nul"}, q # to
                   PROVE  q \in E
        OBVIOUS
      <4>1. q \in (from + 1)..(to - 1)
        BY <3>3
      <4>2. q \in E \/ q - 1 \in E
        BY <1>2, <4>1
      <4>3. q - 1 = pos
        BY <2>1
      <4>4. QED BY <3>2, <4>2, <4>3
    <3>5. t[pos + 1] # "nul" /\ ~AtEnd
      BY <1>2, <1>5, <2>3, <3>2, <3>4
    <3>6. CASE Char = "quote"
      <4>1. pos + 1 = to
        BY <1>2, <3>2, <3>4, <3>6
      <4>2. pos = to - 1
        BY <2>1, <4>1
      <4>3. QED BY <1>4, <1>6, <3>5, <3>6, <4>2, ActionInText
    <3>7. CASE Char = "backslash"
      <4>1. pos + 1 \in E
        BY <1>2, <3>2, <3>4, <3>7
      <4>2. pos + 1 + 1 < to /\ pos + 1 + 1 \notin E
        BY <1>2, <4>1
      <4>3. CASE pos + 1 = n
        <5>1. StringChar
          BY <1>6, <3>5, <3>7, <4>3, ActionInText DEF n
        <5>2. /\ pos' = pos + 1 /\ UNCHANGED <<js, mode, start, tokens, super>>
          BY <5>1 DEF StringChar, Advance
        <5>3. pos' \in from..(to - 1) /\ pos' = Len(js')
          <6>1. pos + 1 \in from..(to - 1)
            BY <2>1, <4>2
          <6>2. QED BY <4>3, <5>2, <6>1 DEF n
        <5>4. QED BY <1>4, <1>6, <5>2, <5>3 DEF InsideString
      <4>4. CASE pos + 1 # n
        <5>1. pos + 1 < Len(js) /\ pos + 2 \in 1..n /\ pos + 2 = pos + 1 + 1
          <6> HIDE DEF n
          <6>1. pos + 1 < n /\ pos + 2 \in 1..n /\ pos + 2 = pos + 1 + 1
            BY <1>1, <3>1, <4>4
          <6>2. QED BY <6>1 DEF n
        <5>2. Escape
          BY <1>6, <3>5, <3>7, <5>1, ActionInText
        <5>3. js[pos + 2] = t[pos + 1 + 1] /\ t[pos + 1 + 1] \in Escapable \cup {"u"}
          BY <1>2, <1>3, <4>1, <5>1
        <5>4. /\ mode' = IF js[pos + 2] = "u" THEN "unicode" ELSE "string"
              /\ hex' = 0 /\ pos' = pos + 2 /\ UNCHANGED <<js, start, tokens, super>>
          BY <5>2, <5>3 DEF Escape, Advance
        <5>5. CASE js[pos + 2] = "u"
          <6>1. t[pos + 1 + 1] = "u" /\ pos' = pos + 1 + 1 + hex' /\ hex' \in 0..4
            BY <1>1, <5>3, <5>4, <5>5
          <6>2. QED BY <1>4, <4>1, <5>4, <5>5, <6>1 DEF InsideString
        <5>6. CASE js[pos + 2] # "u"
          <6>1. pos + 2 \in from..(to - 1) /\ pos + 2 \notin E
            BY <2>1, <4>2, <5>1
          <6>2. QED BY <1>4, <5>4, <5>6, <6>1 DEF InsideString
        <5>7. QED BY <5>5, <5>6
      <4>5. QED BY <4>3, <4>4
    <3>8. CASE Char \notin {"quote", "backslash"}
      <4>1. StringChar
        BY <1>6, <3>5, <3>8, ActionInText
      <4>2. pos' = pos + 1 /\ UNCHANGED <<js, mode, start, tokens, super>>
        BY <4>1 DEF StringChar, Advance
      <4>3. pos + 1 # to /\ pos + 1 \notin E
        BY <1>2, <3>2, <3>8
      <4>4. pos + 1 \in from..(to - 1)
        BY <2>1, <4>3
      <4>5. QED BY <1>4, <1>6, <4>2, <4>3, <4>4 DEF InsideString
    <3>9. QED BY <3>6, <3>7, <3>8
  <2>4. QED BY <2>2, <2>3
<1>7. CASE mode = "unicode"
  <2>1. PICK p \in E : t[p + 1] = "u" /\ pos = p + 1 + hex /\ hex \in 0..4
    BY <1>7 DEF InsideString
  <2>2. Unicode
    BY <1>7, ActionInUnicode
  <2>3. /\ p \in (from + 1)..(to - 1) /\ p + 5 < to /\ p + 1 < to
        /\ \A d \in 2..5 : t[p + d] \in HexDigits
    BY <1>2, <2>1 DEF Escapable
  <2>4. pos \in from..(to - 1)
    BY <2>1, <2>3
  <2>5. CASE hex = 4
    <3>1. pos = p + 5 /\ pos \in from..(to - 1)
      BY <2>1, <2>3, <2>4, <2>5
    <3>2. t[p + 5] \in HexDigits
      BY <2>3
    <3>3. pos \notin E
      BY <1>2, <3>1, <3>2 DEF HexDigits
    <3>4. mode' = "string" /\ UNCHANGED <<js, pos, start, tokens, super>>
      BY <2>2, <2>5 DEF Unicode
    <3>5. QED BY <1>4, <3>1, <3>3, <3>4 DEF InsideString
  <2>6. CASE hex # 4 /\ pos = n
    <3>1. mode' = "string" /\ UNCHANGED <<js, pos, start, tokens, super>>
      BY <1>5, <2>2, <2>6 DEF Unicode
    <3>2. QED BY <1>4, <2>4, <2>6, <3>1 DEF InsideString
  <2>7. CASE hex # 4 /\ pos # n
    <3>1. pos + 1 \in 1..n /\ hex + 2 \in 2..5 /\ pos + 1 = p + (hex + 2) /\ hex + 1 \in 0..4
          /\ pos + 1 = p + 1 + (hex + 1)
      <4> HIDE DEF n
      <4>1. QED BY <1>1, <2>1, <2>3, <2>7
    <3>2. Char = t[pos + 1] /\ t[pos + 1] \in HexDigits
      <4>1. t[p + (hex + 2)] \in HexDigits
        BY <2>3, <3>1
      <4>2. Char = t[pos + 1]
        BY <1>3, <3>1 DEF Char
      <4>3. QED BY <3>1, <4>1, <4>2
    <3>3. ~AtEnd
      BY <1>5, <2>7, <3>2 DEF HexDigits
    <3>4. pos' = pos + 1 /\ hex' = hex + 1 /\ UNCHANGED <<js, mode, start, tokens, super>>
      BY <2>2, <2>7, <3>2, <3>3 DEF Unicode, Advance
    <3>5. QED BY <1>4, <1>7, <2>1, <3>1, <3>4 DEF InsideString
  <2>8. QED BY <2>5, <2>6, <2>7
<1>8. QED BY <1>6, <1>7 DEF InsideString

LEMMA CountedPair ==
  ASSUME NEW k, super = 1
  PROVE  Counted(<<ObjectAt(Unset, 0), KeyAt(k, 0)>>) = <<ObjectAt(Unset, 1), KeyAt(k, 0)>>
<1>1. Counted(<<ObjectAt(Unset, 0), KeyAt(k, 0)>>) =
          [<<ObjectAt(Unset, 0), KeyAt(k, 0)>> EXCEPT ![1] = [ObjectAt(Unset, 0) EXCEPT !.size = @ + 1]]
  BY DEF Counted
<1>2. [ObjectAt(Unset, 0) EXCEPT !.size = @ + 1] = ObjectAt(Unset, 1)
  BY DEF ObjectAt, TokenAt
<1>3. QED BY <1>1, <1>2, ShortArrays

LEMMA CountedTriple ==
  ASSUME NEW k, NEW v, super = 2
  PROVE  Counted(<<ObjectAt(Unset, 1), KeyAt(k, 0), v>>) = <<ObjectAt(Unset, 1), KeyAt(k, 1), v>>
<1>1. Counted(<<ObjectAt(Unset, 1), KeyAt(k, 0), v>>) =
          [<<ObjectAt(Unset, 1), KeyAt(k, 0), v>> EXCEPT ![2] = [KeyAt(k, 0) EXCEPT !.size = @ + 1]]
  BY DEF Counted
<1>2. [KeyAt(k, 0) EXCEPT !.size = @ + 1] = KeyAt(k, 1)
  BY DEF KeyAt, TokenAt
<1>3. QED BY <1>1, <1>2, ShortArrays

LEMMA CommandIsText ==
  ASSUME NEW t, Len(t) \in Nat, NEW k \in Nat, NEW b \in Nat, IsCommand(t, k, b)
  PROVE  \E E, F : CommandText(t, k, b, E, F)
<1>1. \E E : StringText(t, 2, k, E)
  BY DEF IsCommand, IsString, StringText
<1>2. \E F : t[b + 1] = "quote" => StringText(t, b + 1, Len(t) - 1, F)
  <2>1. t[b + 1] = "quote" => IsString(t, b + 1, Len(t) - 1)
    BY DEF IsCommand, IsPrimitive
  <2>2. QED BY <2>1 DEF IsString, StringText
<1>3. t[b + 1] # "quote" => IsPrimitive(t, b + 1, Len(t) - 1)
  BY DEF IsCommand, IsString, WithEscapes
<1>4. QED BY <1>1, <1>2, <1>3 DEF IsCommand, CommandText

LEMMA CharOf ==
  ASSUME TypeOK, NEW t, Beginning(t), pos # Len(js)
  PROVE  Char = t[pos + 1] /\ (t[pos + 1] # "nul" => ~AtEnd)
<1> DEFINE n == Len(js)
<1>1. n \in Nat /\ pos \in 0..n
  BY Types DEF TypeOK, n
<1>2. pos + 1 \in 1..n
  BY <1>1
<1>3. QED BY <1>2, EndOfText DEF Beginning, Char

(* The text breaks off where an object is open.                                      *)
LEMMA CutStep ==
  ASSUME TypeOK, Next, mode = "value", NEW t, Beginning(t), pos = Len(js), Len(js) < Len(t),
         1 \in 1..Len(tokens), tokens[1].end = Unset
  PROVE  CutShort(t)'
<1>1. AtEnd
  BY EndOfText
<1>2. Finish
  BY <1>1, ActionAtEnd
<1>3. 1 \in OpenTokens
  BY DEF OpenTokens, IsOpen
<1>4. QED BY <1>2, <1>3 DEF Finish, Return, CutShort

(* From the beginning to the value: object, key, colon and blanks.                *)
LEMMA KeyStep ==
  ASSUME TypeOK, NumTokens >= 3, Next, NEW t, NEW k, NEW b, NEW E, NEW F,
         CommandText(t, k, b, E, F), Beginning(t),
         AtObject \/ AtKey \/ InKey(t, k, E) \/ BehindKey(k)
  PROVE  AtKey' \/ InKey(t, k, E)' \/ BehindKey(k)' \/ BehindColon(k, b)' \/ CutShort(t)'
<1> DEFINE e == Len(t)
           n == Len(js)
<1>1. /\ k \in Nat /\ b \in Nat /\ e \in Nat /\ 2 < k /\ k < b /\ b + 1 < e
      /\ n \in Nat /\ n <= e /\ pos \in 0..n
  BY Types DEF CommandText, Beginning, TypeOK
<1>2. NumTokens \in Nat
  BY NumTokensAssumption
<1>3. t[1] = "{" /\ StringText(t, 2, k, E) /\ t[k + 1] = ":"
  BY DEF CommandText
<1>4. t[2] = "quote" /\ 2 \notin E
  <2>1. t[2] = "quote" /\ \A p \in E : p \in (2 + 1)..(k - 1)
    BY <1>3 DEF StringText, WithEscapes, Backslashes
  <2>2. 2 \notin (2 + 1)..(k - 1)
    OBVIOUS
  <2>3. QED BY <2>1, <2>2
<1>5. ObjectAt(Unset, 0).end = Unset /\ ObjectAt(Unset, 1).end = Unset
  BY DEF ObjectAt, TokenAt
<1>6. CASE AtObject
  <2>1. mode = "value" /\ pos = 0 /\ super = 0 /\ tokens = <<>>
    BY <1>6 DEF AtObject
  <2>2. pos # n
    BY <1>1, <2>1, EmptySeq, TypeOK DEF Beginning, TypeOK
  <2>3. Char = "{" /\ ~AtEnd
    <3>1. pos + 1 = 1
      BY <2>1
    <3>2. QED BY <1>3, <2>2, <3>1, CharOf
  <2>4. Open
    BY <2>1, <2>3, ActionInValue
  <2>5. Len(tokens) = 0 /\ Len(tokens) < NumTokens /\ Counted(tokens) = <<>>
    <3>1. Len(tokens) = 0 /\ Counted(tokens) = tokens
      BY <2>1 DEF Counted
    <3>2. QED BY <1>2, <2>1, <3>1
  <2>6. /\ tokens' = Append(<<>>, TokenAt("OBJECT", 0, Unset, 0))
        /\ super' = 1 /\ pos' = 1 /\ mode' = mode
    <3>1. super' = Len(tokens) + 1 /\ pos' = pos + 1 /\ mode' = mode
      BY <2>4, <2>5 DEF Open, Advance
    <3>2. tokens' = Append(Counted(tokens), TokenAt(ContainerOf(Char), pos, Unset, 0))
      BY <2>4, <2>5 DEF Open, TokenAt
    <3>3. ContainerOf(Char) = "OBJECT"
      BY <2>3 DEF ContainerOf
    <3>4. QED BY <2>1, <2>5, <3>1, <3>2, <3>3
  <2>7. QED BY <2>1, <2>6, ShortArrays DEF AtKey, ObjectAt
<1>7. CASE AtKey
  <2>1. mode = "value" /\ pos = 1 /\ super = 1 /\ tokens = <<ObjectAt(Unset, 0)>>
    BY <1>7 DEF AtKey
  <2>2. CASE pos = n
    <3>1. n < e
      <4> HIDE DEF n, e
      <4>1. QED BY <1>1, <2>1, <2>2
    <3>2. QED BY <1>5, <2>1, <2>2, <3>1, CutStep
  <2>3. CASE pos # n
    <3>1. Char = "quote" /\ ~AtEnd
      BY <1>4, <2>1, <2>3, CharOf
    <3>2. BeginString
      BY <2>1, <3>1, ActionInValue
    <3>3. mode' = "string" /\ start' = 1 /\ pos' = 2 /\ UNCHANGED <<tokens, super>>
      BY <2>1, <3>2 DEF BeginString, Advance
    <3>4. 2 \in 2..(k - 1)
      BY <1>1
    <3>5. QED BY <1>4, <2>1, <3>3, <3>4 DEF InKey, InsideString
  <2>4. QED BY <2>2, <2>3
<1>8. CASE InKey(t, k, E)
  <2>1. InsideString(t, 2, k, E) /\ tokens = <<ObjectAt(Unset, 0)>> /\ super = 1
    BY <1>8 DEF InKey
  <2>2. \/ InsideString(t, 2, k, E)' /\ UNCHANGED <<js, tokens, super>>
        \/ StringEnd /\ pos = k - 1 /\ start = 1 /\ mode = "string"
        \/ mode' = "done" /\ result' = PART /\ js' = js /\ Len(js) < k
    <3>1. 2 - 1 = 1 /\ 2 \in Nat
      OBVIOUS
    <3>2. QED BY <1>1, <1>3, <2>1, <3>1, StringStep
  <2>3. CASE InsideString(t, 2, k, E)' /\ UNCHANGED <<js, tokens, super>>
    BY <2>1, <2>3 DEF InKey
  <2>4. CASE StringEnd /\ pos = k - 1 /\ start = 1 /\ mode = "string"
    <3>1. AddToken("STRING", 2, k - 1) /\ Len(tokens) < NumTokens
      BY <1>2, <2>1, <2>4, ShortArrays DEF StringEnd
    <3>2. /\ tokens' = Counted(Append(tokens, TokenAt("STRING", 2, k - 1, 0)))
          /\ mode' = "value" /\ super' = super /\ pos' = k
      <4>1. /\ tokens' = Counted(Append(tokens, TokenAt("STRING", 2, k - 1, 0)))
            /\ mode' = "value" /\ super' = super /\ pos' = pos + 1
        BY <3>1, AddedToken
      <4>2. QED BY <1>1, <2>4, <4>1
    <3>3. Append(tokens, TokenAt("STRING", 2, k - 1, 0)) = <<ObjectAt(Unset, 0), KeyAt(k, 0)>>
      BY <2>1, ShortArrays DEF KeyAt
    <3>4. tokens' = <<ObjectAt(Unset, 1), KeyAt(k, 0)>>
      BY <2>1, <3>2, <3>3, CountedPair
    <3>5. QED BY <2>1, <3>2, <3>4 DEF BehindKey
  <2>5. CASE mode' = "done" /\ result' = PART /\ js' = js /\ n < k
    <3>1. n < e
      BY <1>1, <2>5
    <3>2. QED BY <2>5, <3>1 DEF CutShort
  <2>6. QED BY <2>2, <2>3, <2>4, <2>5
<1>9. CASE BehindKey(k)
  <2>1. mode = "value" /\ pos = k /\ tokens = <<ObjectAt(Unset, 1), KeyAt(k, 0)>>
    BY <1>9 DEF BehindKey
  <2>2. Len(tokens) = 2 /\ tokens[1] = ObjectAt(Unset, 1)
    BY <2>1
  <2>3. CASE pos = n
    <3>1. n < e /\ 1 \in 1..Len(tokens)
      BY <1>1, <2>1, <2>2, <2>3
    <3>2. QED BY <1>5, <2>1, <2>2, <2>3, <3>1, CutStep
  <2>4. CASE pos # n
    <3>1. Char = ":" /\ ~AtEnd
      BY <1>3, <2>1, <2>4, CharOf
    <3>2. Colon
      BY <2>1, <3>1, ActionInValue
    <3>3. super' = Len(tokens) /\ pos' = k + 1 /\ UNCHANGED <<mode, tokens>>
      BY <2>1, <3>2 DEF Colon, Advance
    <3>4. k + 1 \in (k + 1)..b
      BY <1>1
    <3>5. QED BY <2>1, <2>2, <3>3, <3>4 DEF BehindColon
  <2>5. QED BY <2>3, <2>4
<1>10. QED BY <1>6, <1>7, <1>8, <1>9

(* The value, a string or a primitive.                                            *)
LEMMA ValueStep ==
  ASSUME TypeOK, NumTokens >= 3, Next, NEW t, NEW k, NEW b, NEW E, NEW F,
         CommandText(t, k, b, E, F), Beginning(t),
         BehindColon(k, b) \/ InStringValue(t, k, b, F) \/ InPrimitiveValue(t, k, b)
  PROVE  \/ BehindColon(k, b)' \/ InStringValue(t, k, b, F)' \/ InPrimitiveValue(t, k, b)'
         \/ BehindValue(t, k, b)' \/ CutShort(t)'
<1> DEFINE e == Len(t)
           n == Len(js)
<1>1. /\ k \in Nat /\ b \in Nat /\ e \in Nat /\ 2 < k /\ k < b /\ b + 1 < e
      /\ n \in Nat /\ n <= e /\ pos \in 0..n
  BY Types DEF CommandText, Beginning, TypeOK
<1>2. t[e] = "}" /\ \A p \in (k + 2)..b : t[p] = "space"
  BY DEF CommandText
<1>3. t[b + 1] = "quote" =>
          StringText(t, b + 1, e - 1, F) /\ b + 1 < e - 1 /\ \A p \in F : p \in (b + 1 + 1)..(e - 1 - 1)
  BY DEF CommandText, StringText, WithEscapes, Backslashes
<1>4. t[b + 1] # "quote" =>
          /\ t[b + 1] \notin Punctuation \cup {"space", "quote"}
          /\ \A p \in (b + 1)..(e - 1) : t[p] \notin EndsPrimitive \cup {"control", "nul"}
  BY DEF CommandText, IsPrimitive
<1>5. /\ js' = js /\ super = 2 /\ tokens = <<ObjectAt(Unset, 1), KeyAt(k, 0)>>
      /\ Len(tokens) = 2 /\ Len(tokens) < NumTokens
  <2>1. js' = js /\ super = 2 /\ tokens = <<ObjectAt(Unset, 1), KeyAt(k, 0)>>
    BY TextKept DEF BehindColon, InStringValue, InPrimitiveValue
  <2>2. Len(tokens) = 2
    BY <2>1, ShortArrays
  <2>3. QED BY <2>1, <2>2, NumTokensAssumption
<1>6. ASSUME NEW v PROVE Counted(Append(tokens, v)) = <<ObjectAt(Unset, 1), KeyAt(k, 1), v>>
  <2>1. Append(tokens, v) = <<ObjectAt(Unset, 1), KeyAt(k, 0), v>>
    <3> DEFINE x == ObjectAt(Unset, 1)
               y == KeyAt(k, 0)
    <3> HIDE DEF x, y
    <3>1. Append(<<x, y>>, v) = <<x, y, v>>
      BY AppendToPair
    <3>2. tokens = <<x, y>>
      BY <1>5 DEF x, y
    <3>3. QED BY <3>1, <3>2 DEF x, y
  <2>2. QED BY <1>5, <2>1, CountedTriple
<1>7. CASE BehindColon(k, b)
  <2>1. mode = "value" /\ pos \in (k + 1)..b
    BY <1>7 DEF BehindColon
  <2>2. CASE pos = n
    <3>1. n < e
      <4> HIDE DEF n, e
      <4>1. QED BY <1>1, <2>1, <2>2
    <3>2. tokens[1].end = Unset /\ 1 \in 1..Len(tokens)
      BY <1>5 DEF ObjectAt, TokenAt
    <3>3. QED BY <2>1, <2>2, <3>1, <3>2, CutStep
  <2>3. CASE pos # n /\ pos # b
    <3>1. pos + 1 \in (k + 2)..b /\ pos + 1 \in (k + 1)..b
      BY <1>1, <2>1, <2>3
    <3>2. Char = "space" /\ ~AtEnd
      BY <1>2, <2>3, <3>1, CharOf
    <3>3. Skip
      BY <2>1, <3>2, ActionInValue
    <3>4. QED BY <1>7, <3>1, <3>3 DEF BehindColon, Skip, Advance
  <2>4. CASE pos # n /\ pos = b /\ t[b + 1] = "quote"
    <3>1. Char = "quote" /\ ~AtEnd
      BY <2>4, CharOf
    <3>2. BeginString
      BY <2>1, <3>1, ActionInValue
    <3>3. b + 1 \in (b + 1)..(e - 1 - 1) /\ b = (b + 1) - 1
      BY <1>1, <1>3, <2>4
    <3>4. b + 1 \notin F
      <4>1. b + 1 \notin (b + 1 + 1)..(e - 1 - 1)
        BY <1>1
      <4>2. QED BY <1>3, <2>4, <4>1
    <3>5. mode' = "string" /\ start' = b /\ pos' = b + 1 /\ UNCHANGED <<tokens, super>>
      BY <2>4, <3>2 DEF BeginString, Advance
    <3>6. InsideString(t, b + 1, Len(t) - 1, F)'
      <4>1. /\ start' = (b + 1) - 1 /\ mode' = "string" /\ pos' \in (b + 1)..(Len(t) - 1 - 1)
            /\ pos' \notin F
        BY <3>3, <3>4, <3>5
      <4>2. QED BY <1>1, <4>1 DEF InsideString
    <3>7. QED BY <1>5, <2>4, <3>5, <3>6 DEF InStringValue
  <2>5. CASE pos # n /\ pos = b /\ t[b + 1] # "quote"
    <3>1. b + 1 \in (b + 1)..(e - 1) /\ b \in b..(e - 1)
      BY <1>1
    <3>2. t[b + 1] \notin Punctuation \cup {"space", "quote"} /\ t[b + 1] # "nul"
      BY <1>4, <2>5, <3>1
    <3>3. Char \notin Punctuation \cup {"space", "quote"} /\ ~AtEnd
      BY <2>5, <3>2, CharOf
    <3>4. BeginPrimitive
      BY <2>1, <3>3, ActionInValue
    <3>5. QED BY <1>5, <2>5, <3>1, <3>4 DEF InPrimitiveValue, BeginPrimitive
  <2>6. QED BY <2>2, <2>3, <2>4, <2>5
<1>8. CASE InStringValue(t, k, b, F)
  <2>1. InsideString(t, b + 1, Len(t) - 1, F) /\ t[b + 1] = "quote"
    BY <1>8 DEF InStringValue
  <2>2. \/ InsideString(t, b + 1, Len(t) - 1, F)' /\ UNCHANGED <<js, tokens, super>>
        \/ StringEnd /\ pos = e - 1 - 1 /\ start = (b + 1) - 1 /\ mode = "string"
        \/ mode' = "done" /\ result' = PART /\ js' = js /\ n < e - 1
    <3>1. b + 1 \in Nat /\ Len(t) - 1 \in Nat
      BY <1>1
    <3>2. QED BY <1>1, <1>3, <2>1, <3>1, StringStep
  <2>3. CASE InsideString(t, b + 1, Len(t) - 1, F)' /\ UNCHANGED <<js, tokens, super>>
    BY <1>5, <2>1, <2>3 DEF InStringValue
  <2>4. CASE StringEnd /\ pos = e - 1 - 1 /\ start = (b + 1) - 1 /\ mode = "string"
    <3>1. pos = e - 2 /\ pos + 1 = e - 1 /\ start + 1 = b + 1 /\ e - 1 < e
      BY <1>1, <2>4
    <3>2. AddToken("STRING", b + 1, e - 2)
      BY <2>4, <3>1 DEF StringEnd
    <3>3. /\ tokens' = Counted(Append(tokens, TokenAt("STRING", b + 1, e - 2, 0)))
          /\ mode' = "value" /\ pos' = e - 1
      BY <1>5, <3>1, <3>2, AddedToken
    <3>4. ValueAt(t, b, e - 1) = TokenAt("STRING", b + 1, e - 2, 0)
      BY <2>1, <2>4, <3>1 DEF ValueAt
    <3>5. tokens' = <<ObjectAt(Unset, 1), KeyAt(k, 1), ValueAt(t, b, e - 1)>>
      BY <1>6, <3>3, <3>4
    <3>6. QED BY <3>1, <3>3, <3>5 DEF BehindValue
  <2>5. CASE mode' = "done" /\ result' = PART /\ js' = js /\ n < e - 1
    <3>1. n < e
      BY <1>1, <2>5
    <3>2. QED BY <2>5, <3>1 DEF CutShort
  <2>6. QED BY <2>2, <2>3, <2>4, <2>5
<1>9. CASE InPrimitiveValue(t, k, b)
  <2>1. mode = "primitive" /\ pos \in b..(e - 1) /\ t[b + 1] # "quote" /\ start = b /\ Primitive
    BY <1>9, ActionInPrimitive DEF InPrimitiveValue
  <2>2. ASSUME AddToken("PRIMITIVE", b, pos), pos = e - 1 \/ pos = n
        PROVE  BehindValue(t, k, b)'
    <3>1. /\ tokens' = Counted(Append(tokens, TokenAt("PRIMITIVE", b, pos, 0)))
          /\ mode' = "value" /\ pos' = pos
      BY <1>1, <1>5, <2>2, AddedToken
    <3>2. ValueAt(t, b, pos) = TokenAt("PRIMITIVE", b, pos, 0)
      BY <2>1 DEF ValueAt
    <3>3. tokens' = <<ObjectAt(Unset, 1), KeyAt(k, 1), ValueAt(t, b, pos)>>
      BY <1>6, <3>1, <3>2
    <3>4. pos < e
      BY <1>1, <2>1
    <3>5. QED BY <1>5, <2>2, <3>1, <3>3, <3>4 DEF BehindValue
  <2>3. CASE pos = n
    <3>1. AddToken("PRIMITIVE", b, pos)
      BY <2>1, <2>3, EndOfText DEF Primitive
    <3>2. QED BY <2>2, <2>3, <3>1
  <2>4. CASE pos # n /\ pos = e - 1
    <3>1. pos + 1 = e
      BY <1>1, <2>4
    <3>2. Char \in EndsPrimitive
      BY <1>2, <2>4, <3>1, CharOf DEF EndsPrimitive
    <3>3. AddToken("PRIMITIVE", b, pos)
      BY <2>1, <3>2 DEF Primitive
    <3>4. QED BY <2>2, <2>4, <3>3
  <2>5. CASE pos # n /\ pos # e - 1
    <3>1. pos + 1 \in (b + 1)..(e - 1) /\ pos + 1 \in b..(e - 1)
      BY <1>1, <2>1, <2>5
    <3>2. t[pos + 1] \notin EndsPrimitive \cup {"control", "nul"}
      BY <1>4, <2>1, <3>1
    <3>3. Char \notin EndsPrimitive \cup {"control", "nul"} /\ ~AtEnd
      BY <2>5, <3>2, CharOf
    <3>4. pos' = pos + 1 /\ UNCHANGED <<js, mode, start, tokens, super>>
      BY <2>1, <3>3 DEF Primitive, Advance
    <3>5. QED BY <1>5, <2>1, <3>1, <3>4 DEF InPrimitiveValue
  <2>6. QED BY <2>3, <2>4, <2>5
<1>10. QED BY <1>7, <1>8, <1>9

(* The closing bracket and the end of the text.                                   *)
LEMMA EndStep ==
  ASSUME TypeOK, Next, NEW t, NEW k, NEW b, NEW E, NEW F,
         CommandText(t, k, b, E, F), Beginning(t),
         BehindValue(t, k, b) \/ BehindObject(t, k, b)
  PROVE  BehindObject(t, k, b)' \/ CommandRead(t, k, b)' \/ CutShort(t)'
<1> DEFINE e == Len(t)
           n == Len(js)
<1>1. /\ k \in Nat /\ b \in Nat /\ e \in Nat /\ 2 < k /\ k < b /\ b + 1 < e
      /\ n \in Nat /\ n <= e /\ pos \in 0..n
  BY Types DEF CommandText, Beginning, TypeOK
<1>2. t[e] = "}" /\ js' = js
  BY TextKept DEF CommandText
<1>3. /\ KeyAt(k, 1).end # Unset /\ ObjectAt(e, 1).end # Unset
      /\ ObjectAt(Unset, 1).end = Unset /\ ObjectAt(Unset, 1).type = "OBJECT"
  BY <1>1 DEF KeyAt, ObjectAt, TokenAt, Unset
<1>4. ValueAt(t, b, e - 1).end # Unset
  BY <1>1 DEF ValueAt, TokenAt, Unset
<1>5. CASE BehindValue(t, k, b) /\ pos = n
  <2>1. mode = "value" /\ n < e /\ tokens = <<ObjectAt(Unset, 1), KeyAt(k, 1), ValueAt(t, b, pos)>>
    BY <1>5 DEF BehindValue
  <2>2. tokens[1].end = Unset /\ 1 \in 1..Len(tokens)
    BY <1>3, <2>1
  <2>3. QED BY <1>5, <2>1, <2>2, CutStep
<1>6. CASE BehindValue(t, k, b) /\ pos # n
  <2> DEFINE x == ObjectAt(Unset, 1)
             y == KeyAt(k, 1)
             z == ValueAt(t, b, e - 1)
  <2>1. mode = "value" /\ pos = e - 1 /\ tokens = <<x, y, z>>
    BY <1>6 DEF BehindValue
  <2>2. pos + 1 = e
    BY <1>1, <2>1
  <2>3. Char = "}" /\ ~AtEnd
    BY <1>2, <1>6, <2>2, CharOf
  <2>4. Close
    BY <2>1, <2>3, ActionInValue
  <2>5. x.end = Unset /\ y.end # Unset /\ z.end # Unset /\ x.type = "OBJECT"
    BY <1>3, <1>4
  <2> HIDE DEF x, y, z
  <2>6. OpenTokens = {1} /\ tokens[1] = x
    BY <2>1, <2>5 DEF OpenTokens, IsOpen
  <2>7. Max(OpenTokens) = 1
    BY <2>6, OpenFacts
  <2>8. ContainerOf(Char) = "OBJECT"
    BY <2>3 DEF ContainerOf
  <2>9. tokens' = [tokens EXCEPT ![1].end = e] /\ pos' = e /\ mode' = mode
    BY <2>2, <2>4, <2>5, <2>6, <2>7, <2>8 DEF Close, Advance
  <2>10. tokens' = <<[x EXCEPT !.end = e], y, z>>
    <3> DEFINE w == [x EXCEPT !.end = e]
    <3>1. [tokens EXCEPT ![1].end = e] = [tokens EXCEPT ![1] = w]
      BY <2>6
    <3> HIDE DEF w
    <3>2. tokens' = [<<x, y, z>> EXCEPT ![1] = w]
      BY <2>1, <2>9, <3>1
    <3>3. tokens' = <<w, y, z>>
      BY <3>2, ShortArrays
    <3>4. QED BY <3>3 DEF w
  <2>11. [x EXCEPT !.end = e] = ObjectAt(e, 1)
    BY DEF x, ObjectAt, TokenAt
  <2>12. tokens' = Read(t, k, b)
    BY <2>10, <2>11 DEF Read, y, z
  <2>13. QED BY <2>1, <2>9, <2>12 DEF BehindObject
<1>7. CASE BehindObject(t, k, b)
  <2> DEFINE x == ObjectAt(e, 1)
             y == KeyAt(k, 1)
             z == ValueAt(t, b, e - 1)
  <2>1. mode = "value" /\ pos = e /\ tokens = <<x, y, z>>
    BY <1>7 DEF BehindObject, Read
  <2>2. pos = n
    <3> HIDE DEF n, e
    <3>1. QED BY <1>1, <2>1
  <2>3. Finish
    BY <2>1, <2>2, EndOfText, ActionAtEnd
  <2>4. x.end # Unset /\ y.end # Unset /\ z.end # Unset
    BY <1>3, <1>4
  <2>5. tokens = Read(t, k, b) /\ n = e
    BY <1>7, <2>1, <2>2 DEF BehindObject
  <2> HIDE DEF x, y, z
  <2>6. OpenTokens = {} /\ Len(tokens) = 3
    BY <2>1, <2>4 DEF OpenTokens, IsOpen
  <2>7. mode' = "done" /\ result' = 3 /\ tokens' = tokens
    BY <2>3, <2>6 DEF Finish, Return
  <2>8. QED BY <1>2, <2>5, <2>7 DEF CommandRead
<1>8. QED BY <1>5, <1>6, <1>7

\* A command and each of its beginnings are read as what they are, from its first
\* character to the answer.
CommandInv ==
    NumTokens >= 3 =>
        \A t, k, b, E, F : CommandText(t, k, b, E, F) /\ Beginning(t) => Reading(t, k, b, E, F)

LEMMA CommandStep ==
  ASSUME TypeOK, NumTokens >= 3, [Next]_vars, NEW t, NEW k, NEW b, NEW E, NEW F,
         CommandText(t, k, b, E, F), Beginning(t), Reading(t, k, b, E, F)
  PROVE  Reading(t, k, b, E, F)'
<1>1. CASE Next
  <2>1. mode # "done"
    BY <1>1 DEF Next, jsmn_parse, Open, Close, Skip, Colon, Comma, BeginString,
       BeginPrimitive, InValue, Finish, Primitive, StringOpen, StringEnd, StringChar, Escape,
       InString, Unicode
  <2>2. ~CommandRead(t, k, b) /\ ~CutShort(t)
    BY <2>1 DEF CommandRead, CutShort
  <2>3. QED BY <1>1, <2>2, KeyStep, ValueStep, EndStep DEF Reading
<1>2. CASE UNCHANGED vars
  BY <1>2 DEF vars, Reading, AtObject, AtKey, InKey, BehindKey, BehindColon, InStringValue,
     InPrimitiveValue, BehindValue, BehindObject, CommandRead, CutShort, InsideString
<1>3. QED BY <1>1, <1>2

LEMMA CommandInvariance == Spec => []CommandInv
<1>1. Init => CommandInv
  BY DEF Init, CommandInv, Reading, AtObject
<1>2. TypeOK /\ CommandInv /\ [Next]_vars => CommandInv'
  <2> SUFFICES ASSUME TypeOK, CommandInv, [Next]_vars, NumTokens >= 3,
                      NEW t, NEW k, NEW b, NEW E, NEW F,
                      CommandText(t, k, b, E, F), Beginning(t)'
               PROVE  Reading(t, k, b, E, F)'
    BY DEF CommandInv
  <2>1. js' = js
    BY TextKept DEF vars
  <2>2. Beginning(t)
    BY <2>1 DEF Beginning
  <2>3. QED BY <2>2, CommandStep DEF CommandInv
<1>3. QED BY <1>1, <1>2, TypeCorrect, PTL DEF Spec

LEMMA AnswersOnly ==
  ASSUME mode = "done", NEW t, NEW k, NEW b, NEW E, NEW F, Reading(t, k, b, E, F)
  PROVE  CommandRead(t, k, b) \/ CutShort(t)
  BY DEF Reading, AtObject, AtKey, InKey, BehindKey, BehindColon, InStringValue,
     InPrimitiveValue, BehindValue, BehindObject, InsideString

LEMMA CutFacts ==
  ASSUME NEW S, NEW t \in Seq(S), NEW n \in 1..(Len(t) - 1)
  PROVE  /\ SubSeq(t, 1, n) \in Seq(S) /\ Len(SubSeq(t, 1, n)) = n /\ n < Len(t)
         /\ \A p \in 1..n : SubSeq(t, 1, n)[p] = t[p]
         /\ SubSeq(t, 1, n) # <<>>
<1>1. Len(t) \in Nat /\ n \in Nat /\ 1 <= n /\ n < Len(t)
  OBVIOUS
<1>2. \A p \in 1..n : p \in 1..Len(t)
  BY <1>1
<1>3. /\ SubSeq(t, 1, n) \in Seq(S) /\ Len(SubSeq(t, 1, n)) = n
      /\ \A p \in 1..n : SubSeq(t, 1, n)[p] = t[p]
  BY <1>1, <1>2
<1>4. QED BY <1>1, <1>3, EmptySeq

(* Every command, whatever its key and its value are, however long they are, however  *)
(* many blanks lie between them and whatever escapes they contain, passes the            *)
(* callback's test with its key and its value in full, if the caller has three tokens.  *)
THEOREM EveryCommandAccepted == Spec => []CommandsAccepted
<1>1. CommandInv => CommandsAccepted
  <2> SUFFICES ASSUME CommandInv, mode = "done", NumTokens >= 3, js \in Commands,
                      NEW k \in 1..Len(js), NEW b \in 1..Len(js), IsCommand(js, k, b)
               PROVE  LET quotes == IF js[b + 1] = "quote" THEN 1 ELSE 0 IN
                      /\ Accepted
                      /\ tokens[2].start = 2 /\ tokens[2].end = k - 1
                      /\ tokens[3].start = b + quotes /\ tokens[3].end = Len(js) - 1 - quotes
                      /\ [i \in 1..3 |-> tokens[i].size] = <<1, 1, 0>>
    BY DEF CommandsAccepted
  <2>1. js \in Seq(Characters) /\ Len(js) \in Nat
    BY TextsAssumption, LenProperties DEF Commands
  <2>2. k \in Nat /\ b \in Nat
    BY <2>1
  <2>3. PICK E, F : CommandText(js, k, b, E, F)
    BY <2>1, <2>2, CommandIsText
  <2>4. Beginning(js)
    <3>1. Len(js) > 0 /\ Len(js) <= Len(js)
      <4> DEFINE n == Len(js)
      <4>1. b + 1 < n /\ n \in Nat
        BY <2>1 DEF IsCommand
      <4> HIDE DEF n
      <4>2. n > 0 /\ n <= n
        BY <2>2, <4>1
      <4>3. QED BY <4>2 DEF n
    <3>2. js # <<>>
      BY <3>1, EmptySeq
    <3>3. QED BY <2>1, <3>1, <3>2 DEF Beginning
  <2>5. CommandRead(js, k, b)
    <3>1. Reading(js, k, b, E, F)
      BY <2>3, <2>4 DEF CommandInv
    <3>2. ~CutShort(js)
      BY <2>1 DEF CutShort
    <3>3. QED BY <3>1, <3>2, AnswersOnly
  <2>6. /\ result = 3 /\ tokens = Read(js, k, b) /\ Len(tokens) = 3
        /\ tokens[1] = ObjectAt(Len(js), 1)
        /\ tokens[2] = KeyAt(k, 1) /\ tokens[3] = ValueAt(js, b, Len(js) - 1)
    BY <2>5 DEF CommandRead, Read
  <2>7. tokens[1].size = 1 /\ tokens[2].size = 1 /\ tokens[3].size = 0
    BY <2>6 DEF ObjectAt, KeyAt, ValueAt, TokenAt
  <2>8. [i \in 1..3 |-> tokens[i].size] = <<1, 1, 0>>
    BY <2>7
  <2>9. Accepted /\ tokens[2].start = 2 /\ tokens[2].end = k - 1
    BY <2>6 DEF Accepted, ObjectAt, KeyAt, TokenAt
  <2>10. /\ js[b + 1] = "quote" => tokens[3].start = b + 1 /\ tokens[3].end = Len(js) - 1 - 1
         /\ js[b + 1] # "quote" => tokens[3].start = b /\ tokens[3].end = Len(js) - 1
    BY <2>6 DEF ValueAt, TokenAt
  <2>11. b + 0 = b /\ Len(js) - 1 - 0 = Len(js) - 1
    BY <2>1, <2>2
  <2>12. QED BY <2>8, <2>9, <2>10, <2>11
<1>2. QED BY <1>1, CommandInvariance, PTL

(* A command cut short behind any of its characters, inside a name, an escape or a     *)
(* number too, is answered as incomplete, whatever the command.                         *)
THEOREM EveryCutIsPartial == Spec => []TruncatedIsPartial
<1>1. TypeOK /\ CommandInv => TruncatedIsPartial
  <2> SUFFICES ASSUME TypeOK, CommandInv, mode = "done", NumTokens >= 3,
                      NEW t \in Commands, NEW n \in 1..(Len(t) - 1), js = SubSeq(t, 1, n)
               PROVE  result = PART
    BY DEF TruncatedIsPartial, CutCommands
  <2>1. js \in Seq(Characters) /\ t \in Seq(Characters) /\ Len(js) \in Nat /\ Len(t) \in Nat
    BY TextsAssumption, LenProperties DEF Commands, TypeOK
  <2>2. js # <<>> /\ Len(js) < Len(t) /\ \A p \in 1..Len(js) : js[p] = t[p]
    BY <2>1, CutFacts
  <2>3. PICK k \in 1..Len(t), b \in 1..Len(t) : IsCommand(t, k, b)
    BY DEF Commands
  <2>4. k \in Nat /\ b \in Nat
    BY <2>1
  <2>5. PICK E, F : CommandText(t, k, b, E, F)
    BY <2>1, <2>3, <2>4, CommandIsText
  <2>6. Beginning(t)
    BY <2>1, <2>2 DEF Beginning
  <2>7. Reading(t, k, b, E, F)
    BY <2>5, <2>6 DEF CommandInv
  <2>8. ~CommandRead(t, k, b)
    BY <2>1, <2>2 DEF CommandRead
  <2>9. QED BY <2>7, <2>8, AnswersOnly DEF CutShort
<1>2. QED BY <1>1, CommandInvariance, TypeCorrect, PTL
-----------------------------------------------------------------------------
(* The walk over an arm command.                                                  *)

LEMMA FlatFacts ==
  ASSUME JsmnInv, FlatObject
  PROVE  tokens[1].size \in Nat /\ Len(tokens) = 1 + 2 * tokens[1].size
<1>1. Len(tokens) \in Nat /\ Len(tokens) = 1 + 2 * tokens[1].size
  BY Types DEF FlatObject, JsmnInv
<1>2. result > 0 /\ Parsed
  BY NumTokensAssumption DEF FlatObject, ParsedText, Parsed, JsmnInv, TypeOK, Parsing, NOMEM, INVAL, PART
<1>3. Len(tokens) > 0
  BY <1>2 DEF JsmnInv, Finished
<1>4. tokens[1] \in Token
  BY <1>1, <1>3, Types DEF JsmnInv
<1>5. QED BY <1>1, <1>4 DEF Token

(* In a flat object whose keys are all known the walk goes from key to key: the      *)
(* recursive function that counts its rounds has one solution, the even numbers.     *)
LEMMA WalkFromKeyToKey ==
  ASSUME JsmnInv, FlatObject, \A i \in RootKeys : IsArmKey(i)
  PROVE  \A n \in 1..Len(tokens) :
             VisitedIn[n] = IF n <= tokens[1].size THEN 2 * n ELSE Len(tokens) + 1
<1> DEFINE N == Len(tokens)
           k == tokens[1].size
           w == [n \in 1..N |-> IF n <= k THEN 2 * n ELSE N + 1]
           Rounds(f) == [n \in 1..N |-> IF n = 1 THEN 2
                                        ELSE IF f[n - 1] <= N THEN After(f[n - 1]) ELSE f[n - 1]]
<1>1. k \in Nat /\ N = 1 + 2 * k
  BY FlatFacts
<1>2. \A i \in 2..N : i % 2 = 0 => After(i) = i + 2
  BY DEF FlatObject, After
<1>3. VisitedIn = CHOOSE f : f = Rounds(f)
  BY DEF VisitedIn
<1>4. \A f, n : n \in 1..N => Rounds(f)[n] = IF n = 1 THEN 2
                                             ELSE IF f[n - 1] <= N THEN After(f[n - 1]) ELSE f[n - 1]
  OBVIOUS
<1>5. \A n \in 1..N : w[n] = IF n <= k THEN 2 * n ELSE N + 1
  OBVIOUS
<1>6. w = Rounds(w)
  <2>1. ASSUME NEW n \in 1..N PROVE w[n] = Rounds(w)[n]
    <3> HIDE DEF N, k, w, Rounds
    <3>1. CASE n = 1
      BY <1>1, <1>4, <1>5, <3>1
    <3>2. CASE n > 1 /\ n - 1 <= k
      <4>1. n - 1 \in 1..N /\ n - 1 >= 1 /\ n # 1
        BY <1>1, <3>2
      <4>2. w[n - 1] = 2 * (n - 1) /\ 2 * (n - 1) <= N /\ 2 * (n - 1) \in 2..N
        BY <1>1, <1>5, <3>2, <4>1
      <4>3. (2 * (n - 1)) % 2 = 0
        BY <4>1
      <4>4. After(2 * (n - 1)) = 2 * (n - 1) + 2
        BY <1>2, <4>2, <4>3
      <4>5. w[n] = 2 * n
        BY <1>1, <1>5, <3>2
      <4>6. Rounds(w)[n] = After(w[n - 1])
        BY <1>4, <4>1, <4>2
      <4>7. QED BY <1>1, <4>2, <4>4, <4>5, <4>6
    <3>3. CASE n - 1 > k
      <4>1. n - 1 \in 1..N /\ ~(n - 1 <= k) /\ ~(n <= k) /\ n # 1
        BY <1>1, <3>3
      <4>2. w[n - 1] = N + 1 /\ w[n] = N + 1 /\ ~(N + 1 <= N)
        BY <1>1, <1>5, <4>1
      <4>3. QED BY <1>4, <4>1, <4>2
    <3>4. QED BY <1>1, <3>1, <3>2, <3>3
  <2>2. QED BY <2>1
<1>7. ASSUME NEW f, f = Rounds(f) PROVE f = w
  <2> DEFINE S == {n \in 1..N : f[n] # w[n]}
  <2>1. SUFFICES ASSUME S # {} PROVE FALSE
    BY <1>7
  <2>2. PICK m \in S : \A n \in S : m <= n
    <3>1. S \subseteq Nat
      BY <1>1
    <3>2. QED BY <2>1, <3>1, LeastOf
  <2>3. m \in 1..N /\ f[m] # w[m]
    BY <1>1
  <2>4. m # 1 => f[m - 1] = w[m - 1]
    <3>1. SUFFICES ASSUME m # 1 PROVE m - 1 \in 1..N /\ m - 1 \notin S
      OBVIOUS
    <3>2. m - 1 \in 1..N /\ ~(m <= m - 1)
      <4> HIDE DEF N, k, w, Rounds, S
      <4>1. QED BY <1>1, <2>3, <3>1
    <3>3. QED BY <2>2, <3>2
  <2> HIDE DEF N, k, w, Rounds, S
  <2>5. f[m] = Rounds(f)[m] /\ w[m] = Rounds(w)[m]
    BY <1>6, <1>7
  <2>6. QED BY <1>4, <2>3, <2>4, <2>5
<1> HIDE DEF w, Rounds
<1>8. VisitedIn = w
  BY <1>3, <1>6, <1>7
<1>9. QED BY <1>5, <1>8

(* An arm command of known keys is reported key by key, each with the value that     *)
(* follows it, whatever keys the arm knows and whatever the values read like.        *)
THEOREM CommandReported == Spec => []FlatCommandReported
<1>1. JsmnInv => FlatCommandReported
  <2> SUFFICES ASSUME JsmnInv, FlatObject, \A i \in RootKeys : IsArmKey(i)
               PROVE  /\ ReportedPairs = {<<i, i + 1>> : i \in RootKeys}
                      /\ UnexpectedKeys = {}
    BY DEF FlatCommandReported
  <2> DEFINE N == Len(tokens)
             k == tokens[1].size
  <2>1. k \in Nat /\ N = 1 + 2 * k
    BY FlatFacts
  <2>2. \A n \in 1..N : VisitedIn[n] = IF n <= k THEN 2 * n ELSE N + 1
    BY WalkFromKeyToKey
  <2>3. \A i : i \in RootKeys <=> i \in 2..N /\ i % 2 = 0
    BY DEF FlatObject, RootKeys
  <2>4. Visited = {i \in {VisitedIn[n] : n \in 1..N} : i <= N}
    BY DEF Visited
  <2> HIDE DEF N, k
  <2>5. ASSUME NEW i \in Visited PROVE i \in RootKeys
    <3>1. PICK n \in 1..N : i = VisitedIn[n] /\ i <= N
      BY <2>4
    <3>2. n <= k /\ i = 2 * n
      BY <2>1, <2>2, <3>1
    <3>3. i \in 2..N /\ i % 2 = 0
      BY <2>1, <3>1, <3>2
    <3>4. QED BY <2>3, <3>3
  <2>6. ASSUME NEW i \in RootKeys PROVE i \in Visited
    <3>1. i \in 2..N /\ i % 2 = 0
      BY <2>3
    <3>2. PICK n \in Int : i = 2 * n
      BY <3>1
    <3>3. n \in 1..N /\ n <= k /\ i <= N
      BY <2>1, <3>1, <3>2
    <3>4. VisitedIn[n] = i
      BY <2>2, <3>2, <3>3
    <3>5. QED BY <2>4, <3>3, <3>4
  <2>7. Visited = RootKeys
    BY <2>5, <2>6
  <2>8. QED BY <2>7 DEF ReportedPairs, UnexpectedKeys
<1>2. QED BY <1>1, Invariance, PTL
-----------------------------------------------------------------------------
(* Termination: no loop of the tokenizer turns without progress.                  *)

\* A character is begun on in mode "value"; ending an escape or a primitive reads none.
Rank == IF mode = "unicode" \/ (mode = "primitive" /\ pos # start) THEN 3
        ELSE IF mode = "primitive" THEN 1 ELSE 2

\* Steps there are left at most.
StepsLeft == IF mode = "done" THEN 0 ELSE 4 * (Len(js) - pos) + Rank

\* A primitive has a first character.
PrimitiveBegun ==
    mode = "primitive" /\ pos = start => ~AtEnd /\ Char \notin EndsPrimitive

LEMMA PrimitiveBegunStep ==
  ASSUME JsmnInv, PrimitiveBegun, Next
  PROVE  PrimitiveBegun'
<1>1. pos \in Nat /\ js' = js /\ Len(js) \in Nat
  BY Types, TextKept DEF JsmnInv, TypeOK
<1>2. CASE BeginPrimitive
  <2>1. UNCHANGED <<js, pos>> /\ ~AtEnd /\ Char \notin EndsPrimitive
    BY <1>2 DEF BeginPrimitive, InValue, Punctuation, EndsPrimitive
  <2>2. Char' = Char /\ AtEnd' = AtEnd
    BY <2>1 DEF Char, AtEnd
  <2>3. QED BY <2>1, <2>2 DEF PrimitiveBegun
<1>3. CASE Primitive
  <2>1. CASE mode' = "primitive"
    <3>1. start <= pos /\ start \in Nat
      BY <1>3, Types DEF JsmnInv, Scanning, Primitive, TypeOK
    <3>2. pos' = pos + 1 /\ start' = start
      BY <1>3, <2>1 DEF Primitive, AddToken, GiveUp, Advance
    <3>3. pos' # start'
      BY <1>1, <3>1, <3>2
    <3>4. QED BY <3>3 DEF PrimitiveBegun
  <2>2. QED BY <2>1 DEF PrimitiveBegun
<1>4. CASE ~BeginPrimitive /\ ~Primitive
  <2>1. mode' # "primitive"
    BY <1>4 DEF Next, jsmn_parse, Open, Close, Skip, Colon, Comma, BeginString, InValue, Finish,
       StringOpen, StringEnd, StringChar, Escape, InString, Unicode, AddToken, GiveUp, Return
  <2>2. QED BY <2>1 DEF PrimitiveBegun
<1>5. QED BY <1>2, <1>3, <1>4

(* A step reads a character, answers, or ends what it has read.                    *)
LEMMA Progress ==
  ASSUME JsmnInv, PrimitiveBegun, Next
  PROVE  mode # "done" /\ (mode' = "done" \/ pos' > pos \/ (pos' = pos /\ Rank' < Rank))
<1>1. pos \in Nat
  BY DEF JsmnInv, TypeOK
<1>2. pos + 1 > pos /\ pos + 2 > pos
  BY <1>1
<1>3. CASE Open \/ Close \/ Skip \/ Colon \/ Comma \/ BeginString
  BY <1>2, <1>3 DEF Open, Close, Skip, Colon, Comma, BeginString, InValue, Advance, Return
<1>4. CASE BeginPrimitive
  BY <1>4 DEF BeginPrimitive, InValue, Rank
<1>5. CASE Finish \/ StringOpen
  BY <1>5 DEF Finish, StringOpen, Return, GiveUp
<1>6. CASE Primitive
  <2>1. mode = "primitive"
    BY <1>6 DEF Primitive
  <2>2. CASE AtEnd \/ Char \in EndsPrimitive
    <3>1. Rank = 3
      BY <2>1, <2>2 DEF PrimitiveBegun, Rank
    <3>2. mode' = "done" \/ (mode' = "value" /\ pos' = pos + 0)
      BY <1>6, <2>2 DEF Primitive, AddToken, GiveUp, Advance
    <3>3. mode' = "value" => Rank' = 2
      BY DEF Rank
    <3>4. QED BY <1>1, <2>1, <3>1, <3>2, <3>3
  <2>3. CASE ~(AtEnd \/ Char \in EndsPrimitive)
    BY <1>2, <1>6, <2>3 DEF Primitive, GiveUp, Advance
  <2>4. QED BY <2>2, <2>3
<1>7. CASE StringEnd
  BY <1>2, <1>7 DEF StringEnd, InString, AddToken, GiveUp, Advance
<1>8. CASE StringChar \/ Escape
  BY <1>2, <1>8 DEF StringChar, Escape, InString, GiveUp, Advance
<1>9. CASE Unicode
  <2>1. mode = "unicode" /\ Rank = 3
    BY <1>9 DEF Unicode, Rank
  <2>2. mode' = "string" => Rank' = 2
    BY DEF Rank
  <2>3. QED BY <1>2, <1>9, <2>1, <2>2 DEF Unicode, GiveUp, Advance
<1>10. QED BY <1>3, <1>4, <1>5, <1>6, <1>7, <1>8, <1>9 DEF Next, jsmn_parse

LEMMA Lower ==
  ASSUME NEW n \in Nat, NEW p \in 0..n, NEW q \in 0..n, NEW r \in 1..3, NEW s \in 1..3,
         q > p \/ (q = p /\ s < r)
  PROVE  4 * (n - q) + s \in Nat /\ 4 * (n - q) + s < 4 * (n - p) + r
<1>1. /\ n - p \in Nat /\ n - q \in Nat
      /\ (n - q) + 1 <= n - p \/ (n - q = n - p /\ s < r)
  OBVIOUS
<1> DEFINE a == n - q
           c == n - p
<1> HIDE DEF a, c
<1>2. a \in Nat /\ c \in Nat /\ (a + 1 <= c \/ (a = c /\ s < r))
  BY <1>1 DEF a, c
<1>3. 4 * a + s \in Nat /\ 4 * a + s < 4 * c + r
  BY <1>2
<1>4. QED BY <1>3 DEF a, c

(* Whatever text it is given, each step of the tokenizer brings it nearer to an         *)
(* answer: of a text of n characters it takes at most 4 * n + 2. No character, no         *)
(* escape that breaks off and no empty primitive makes one of its loops turn for ever     *)
(* (the part of Terminates that does not depend on the thread being scheduled).           *)
THEOREM EveryStepProgresses ==
    Spec => /\ StepsLeft = 4 * Len(js) + 2
            /\ [][StepsLeft' \in Nat /\ StepsLeft' < StepsLeft]_vars
<1>1. Init => PrimitiveBegun
  BY DEF Init, PrimitiveBegun
<1>2. JsmnInv /\ PrimitiveBegun /\ [Next]_vars => PrimitiveBegun'
  <2> SUFFICES ASSUME JsmnInv, PrimitiveBegun, [Next]_vars PROVE PrimitiveBegun'
    OBVIOUS
  <2>1. CASE UNCHANGED vars
    BY <2>1 DEF vars, PrimitiveBegun, AtEnd, Char
  <2>2. QED BY <2>1, PrimitiveBegunStep
<1>3. JsmnInv /\ JsmnInv' /\ PrimitiveBegun /\ [Next]_vars
          => [StepsLeft' \in Nat /\ StepsLeft' < StepsLeft]_vars
  <2> SUFFICES ASSUME JsmnInv, JsmnInv', PrimitiveBegun, Next
               PROVE  StepsLeft' \in Nat /\ StepsLeft' < StepsLeft
    OBVIOUS
  <2> DEFINE n == Len(js)
  <2>1. n \in Nat /\ pos \in 0..n /\ pos' \in 0..n /\ js' = js
    BY Types, TextKept DEF JsmnInv, TypeOK
  <2>2. mode # "done" /\ (mode' = "done" \/ pos' > pos \/ (pos' = pos /\ Rank' < Rank))
    BY Progress
  <2>3. Rank \in 1..3 /\ Rank' \in 1..3
    BY DEF Rank
  <2>4. StepsLeft = 4 * (n - pos) + Rank
    BY <2>2 DEF StepsLeft
  <2>5. StepsLeft' = IF mode' = "done" THEN 0 ELSE 4 * (n - pos') + Rank'
    BY <2>1 DEF StepsLeft
  <2> HIDE DEF n
  <2>6. CASE mode' = "done"
    <3>1. 0 < 4 * (n - pos) + Rank
      BY <2>1, <2>3
    <3>2. QED BY <2>4, <2>5, <2>6, <3>1
  <2>7. CASE mode' # "done"
    BY <2>1, <2>2, <2>3, <2>4, <2>5, <2>7, Lower
  <2>8. QED BY <2>6, <2>7
<1>4. Init => StepsLeft = 4 * Len(js) + 2
  <2> SUFFICES ASSUME Init PROVE StepsLeft = 4 * Len(js) + 2
    OBVIOUS
  <2>1. Len(js) \in Nat
    BY TextsAssumption, LenProperties DEF Init
  <2>2. mode = "value" /\ pos = 0 /\ Rank = 2
    BY DEF Init, Rank
  <2>3. QED BY <2>1, <2>2 DEF StepsLeft
<1>5. QED BY <1>1, <1>2, <1>3, <1>4, Invariance, PTL DEF Spec
=============================================================================
