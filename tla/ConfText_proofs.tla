--------------------------- MODULE ConfText_proofs ---------------------------
(* What the builder writes for a word, the lexer reads back as that word, but  *)
(* for the fragile ones; this of every word, whatever its length.              *)
EXTENDS ConfText, NaturalsInduction, SequenceTheorems, WellFoundedInduction, TLAPS

-----------------------------------------------------------------------------
(* Sequences and functions over positions *)

\* Induction over the numbers for a set instead of a predicate.
LEMMA SetInduction ==
  ASSUME NEW S, 0 \in S, \A n \in Nat : n \in S => n + 1 \in S
  PROVE  Nat \subseteq S
<1> DEFINE Left == {n \in Nat : n \notin S}
<1>1. SUFFICES ASSUME Left # {} PROVE FALSE
  OBVIOUS
<1>2. \E x \in Left : \A y \in Left : <<y, x>> \notin OpToRel(<, Nat)
  <2>1. Left \subseteq Nat /\ IsWellFoundedOn(OpToRel(<, Nat), Nat)
    BY NatLessThanWellFounded
  <2> HIDE DEF Left
  <2> QED BY <1>1, <2>1, WFMin
<1>3. PICK x \in Left : \A y \in Left : ~(y < x)
  BY <1>2 DEF OpToRel
<1>4. x # 0 /\ x - 1 \in Nat /\ (x - 1) + 1 = x /\ x - 1 < x
  BY <1>3
<1>5. x - 1 \in S
  BY <1>3, <1>4
<1> QED BY <1>3, <1>4, <1>5

LEMMA JoinTwo ==
  ASSUME NEW S, NEW x \in S, NEW y \in S
  PROVE  <<x>> \o <<y>> = <<x, y>>
<1> DEFINE a == <<x>>
           b == <<y>>
           c == <<x, y>>
<1>1. a \in Seq(S) /\ b \in Seq(S) /\ c \in Seq(S)
  OBVIOUS
<1>2. Len(a) = 1 /\ Len(b) = 1 /\ Len(c) = 2 /\ a[1] = x /\ b[1] = y /\ c[1] = x /\ c[2] = y
  OBVIOUS
<1> HIDE DEF a, b, c
<1>3. a \o b \in Seq(S) /\ Len(a \o b) = Len(a) + Len(b)
      /\ \A i \in 1..Len(a) + Len(b) : (a \o b)[i] = IF i <= Len(a) THEN a[i] ELSE b[i - Len(a)]
  BY <1>1, ConcatProperties
<1>4. Len(a \o b) = Len(c) /\ \A i \in 1..Len(a \o b) : (a \o b)[i] = c[i]
  BY <1>2, <1>3
<1>5. a \o b = c
  BY <1>1, <1>3, <1>4, SeqEqual
<1> QED BY <1>5 DEF a, b, c

\* A function over positions that is given by its first value and by a value
\* for each that follows.
Recurs(f, S, first, next, n) ==
  /\ f \in [0..n -> S] /\ f[0] = first
  /\ \A i \in 1..n : f[i] = next[<<i, f[i - 1]>>]

LEMMA Recursion ==
  ASSUME NEW S, NEW first \in S, NEW next \in [Nat \X S -> S], NEW n \in Nat
  PROVE  \E f : Recurs(f, S, first, next, n)
<1> DEFINE Done == {m \in Nat : \E f : Recurs(f, S, first, next, m)}
<1>1. 0 \in Done
  <2>1. Recurs([i \in 0..0 |-> first], S, first, next, 0)
    BY DEF Recurs
  <2> QED BY <2>1
<1>2. ASSUME NEW m \in Nat, m \in Done PROVE m + 1 \in Done
  <2>1. PICK f : Recurs(f, S, first, next, m)
    BY <1>2
  <2> DEFINE g == [i \in 0..m + 1 |-> IF i = m + 1 THEN next[<<m + 1, f[m]>>] ELSE f[i]]
  <2>2. g \in [0..m + 1 -> S]
    <3>1. next[<<m + 1, f[m]>>] \in S
      <4>1. m \in 0..m /\ f[m] \in S /\ <<m + 1, f[m]>> \in Nat \X S
        BY <2>1 DEF Recurs
      <4> QED BY <4>1
    <3>2. \A i \in 0..m + 1 : i # m + 1 => i \in 0..m
      OBVIOUS
    <3> QED BY <2>1, <3>1, <3>2 DEF Recurs
  <2>3. g[0] = first
    BY <2>1 DEF Recurs
  <2>4. ASSUME NEW i \in 1..m + 1 PROVE g[i] = next[<<i, g[i - 1]>>]
    <3>1. i - 1 \in 0..m + 1 /\ i - 1 # m + 1 /\ g[i - 1] = f[i - 1]
      OBVIOUS
    <3>2. CASE i = m + 1
      <4>1. i - 1 = m /\ g[i] = next[<<m + 1, f[m]>>]
        BY <3>2
      <4> HIDE DEF g
      <4> QED BY <3>1, <3>2, <4>1
    <3>3. CASE i # m + 1
      <4>1. i \in 1..m /\ g[i] = f[i]
        BY <3>3
      <4> HIDE DEF g
      <4> QED BY <2>1, <3>1, <4>1 DEF Recurs
    <3> QED BY <3>2, <3>3
  <2> HIDE DEF g
  <2> QED BY <2>2, <2>3, <2>4 DEF Recurs
<1>3. Nat \subseteq Done
  <2> HIDE DEF Done
  <2> QED BY <1>1, <1>2, SetInduction
<1> QED BY <1>3

\* Whatever such a function is, it keeps within the values of its kind.
LEMMA RecursionStays ==
  ASSUME NEW S, NEW n \in Nat, NEW f, f[0] \in S,
         \A i \in 1..n : f[i - 1] \in S => f[i] \in S
  PROVE  \A i \in 0..n : f[i] \in S
<1> DEFINE Done == {i \in Nat : i \in 0..n => f[i] \in S}
<1>1. 0 \in Done
  OBVIOUS
<1>2. ASSUME NEW i \in Nat, i \in Done PROVE i + 1 \in Done
  <2>1. SUFFICES ASSUME i + 1 \in 0..n PROVE f[i + 1] \in S
    OBVIOUS
  <2>2. i \in 0..n /\ i + 1 \in 1..n /\ (i + 1) - 1 = i
    BY <2>1
  <2> QED BY <1>2, <2>2
<1>3. Nat \subseteq Done
  <2> HIDE DEF Done
  <2> QED BY <1>1, <1>2, SetInduction
<1> QED BY <1>3

\* The strings.  That those the lexer names are among them, no prover knows.
Strings == STRING \cup {Blank, "\n", "\\", Quote, "'", "#", LeftBrace, RightBrace, "plain", "comment", "blob"}
Text == Seq(Strings)

LEMMA Characters ==
  /\ \A c \in {"\n", "\\", "'", "#", "plain", "comment", "blob", "escaped"} :
       c # Blank /\ c # Quote /\ c # LeftBrace /\ c # RightBrace
  /\ Blank # Quote /\ Blank # LeftBrace /\ Blank # RightBrace
  /\ Quote # LeftBrace /\ Quote # RightBrace /\ LeftBrace # RightBrace
BY Zenon DEF Blank, Quote, LeftBrace, RightBrace

LEMMA Spaces ==
  \A c \in {Quote, "'", LeftBrace, RightBrace, "#", "\\", "escaped"} : c \notin Space
BY OtherSpaceAssumption, Characters DEF Space
-----------------------------------------------------------------------------
(* Escapes *)

Escapes(e, text) ==
  e = [i \in 1..Len(text) + 1 |-> IF i = 1 THEN FALSE ELSE text[i - 1] = "\\" /\ ~e[i - 1]]

LEMMA EscapesExist == ASSUME NEW text \in Text PROVE \E e : Escapes(e, text)
<1> DEFINE n == Len(text)
           next == [p \in Nat \X BOOLEAN |-> IF text[p[1]] = "\\" /\ ~p[2] THEN TRUE ELSE FALSE]
<1>1. n \in Nat /\ next \in [Nat \X BOOLEAN -> BOOLEAN]
  BY LenProperties DEF Text
<1>2. PICK f : Recurs(f, BOOLEAN, FALSE, next, n)
  <2> DEFINE B == BOOLEAN
             no == FALSE
  <2>1. no \in B /\ next \in [Nat \X B -> B]
    BY <1>1
  <2> HIDE DEF next, n, B, no
  <2>2. \E f : Recurs(f, B, no, next, n)
    BY <1>1, <2>1, Recursion
  <2> QED BY <2>2, Zenon DEF B, no
<1> DEFINE e == [i \in 1..n + 1 |-> f[i - 1]]
<1>3. ASSUME NEW i \in 1..n + 1
      PROVE  e[i] = IF i = 1 THEN FALSE ELSE text[i - 1] = "\\" /\ ~e[i - 1]
  <2>1. CASE i = 1
    BY <1>1, <1>2, <2>1 DEF Recurs
  <2>2. CASE i # 1
    <3>1. i - 1 \in 1..n /\ i - 1 \in 1..n + 1 /\ (i - 1) - 1 = i - 2 /\ i - 2 \in 0..n
      BY <1>1, <2>2
    <3>2. e[i - 1] = f[i - 2] /\ e[i] = f[i - 1] /\ f[i - 2] \in BOOLEAN
      BY <1>2, <3>1 DEF Recurs
    <3>3. e[i] = next[<<i - 1, e[i - 1]>>]
      <4> HIDE DEF e, next
      <4> QED BY <1>2, <3>1, <3>2 DEF Recurs
    <3>4. next[<<i - 1, e[i - 1]>>] = (text[i - 1] = "\\" /\ ~e[i - 1])
      <4>1. <<i - 1, e[i - 1]>> \in Nat \X BOOLEAN
        <5> HIDE DEF e
        <5> QED BY <1>1, <3>1, <3>2
      <4> HIDE DEF e
      <4> QED BY <4>1
    <3> HIDE DEF e, next
    <3> QED BY <2>2, <3>3, <3>4
  <2> QED BY <2>1, <2>2
<1>4. e = [i \in 1..n + 1 |-> IF i = 1 THEN FALSE ELSE text[i - 1] = "\\" /\ ~e[i - 1]]
  <2>1. e = [i \in 1..n + 1 |-> e[i]]
    OBVIOUS
  <2> HIDE DEF e
  <2> QED BY <1>3, <2>1
<1> QED BY <1>4 DEF Escapes

LEMMA EscapedIs ==
  ASSUME NEW text \in Text
  PROVE  /\ Escaped(text) \subseteq 1..Len(text) + 1
         /\ 1 \notin Escaped(text)
         /\ \A i \in 1..Len(text) :
              i + 1 \in Escaped(text) <=> text[i] = "\\" /\ i \notin Escaped(text)
<1> DEFINE e == CHOOSE e : Escapes(e, text)
<1>1. Escapes(e, text)
  BY EscapesExist
<1>2. Escaped(text) = {i \in 1..Len(text) + 1 : e[i]}
  BY DEF Escaped, Escapes
<1> HIDE DEF e
<1>3. Len(text) \in Nat
  BY LenProperties DEF Text
<1>4. \A i \in 1..Len(text) + 1 : e[i] = IF i = 1 THEN FALSE ELSE text[i - 1] = "\\" /\ ~e[i - 1]
  BY <1>1 DEF Escapes
<1>5. ~e[1]
  <2>1. 1 \in 1..Len(text) + 1
    BY <1>3
  <2>2. e[1] = IF 1 = 1 THEN FALSE ELSE text[1 - 1] = "\\" /\ ~e[1 - 1]
    BY <1>4, <2>1, Zenon
  <2> QED BY <2>2, Zenon
<1>6. ASSUME NEW i \in 1..Len(text)
      PROVE  i + 1 \in Escaped(text) <=> text[i] = "\\" /\ i \notin Escaped(text)
  <2>1. i + 1 \in 1..Len(text) + 1 /\ i + 1 # 1 /\ (i + 1) - 1 = i /\ i \in 1..Len(text) + 1
    BY <1>3
  <2>2. e[i + 1] = (text[i] = "\\" /\ ~e[i])
    BY <1>4, <2>1
  <2> QED BY <1>2, <2>1, <2>2
<1> QED BY <1>2, <1>5, <1>6

-----------------------------------------------------------------------------
(* What the lexer keeps, and that it takes no token back *)

Tokens == [text : Text, quoted : BOOLEAN]
States == [mode : Strings, tok : Text, field : Seq(Text), out : Seq(Tokens)]
Grows(s, t) == Len(s) <= Len(t) /\ \A i \in 1..Len(s) : t[i] = s[i]

LEMMA Greatest ==
  ASSUME NEW n \in Nat, NEW K \in SUBSET (0..n), K # {}
  PROVE  \E k \in K : \A l \in K : l <= k
<1> DEFINE Done == {m \in Nat : \A L \in SUBSET (0..m) :
                                  L # {} => \E k \in L : \A l \in L : l <= k}
<1>1. 0 \in Done
  <2>1. SUFFICES ASSUME NEW L \in SUBSET (0..0), L # {}
                 PROVE  \E k \in L : \A l \in L : l <= k
    OBVIOUS
  <2>2. \A l \in 0..0 : l = 0
    OBVIOUS
  <2>3. L = {0}
    BY <2>1, <2>2
  <2> QED BY <2>3
<1>2. ASSUME NEW m \in Nat, m \in Done PROVE m + 1 \in Done
  <2>1. SUFFICES ASSUME NEW L \in SUBSET (0..m + 1), L # {}
                 PROVE  \E k \in L : \A l \in L : l <= k
    OBVIOUS
  <2>2. CASE m + 1 \in L
    BY <2>2
  <2>3. CASE m + 1 \notin L
    <3>1. L \in SUBSET (0..m)
      BY <2>3
    <3> QED BY <1>2, <2>1, <3>1
  <2> QED BY <2>2, <2>3
<1>3. Nat \subseteq Done
  <2> HIDE DEF Done
  <2> QED BY <1>1, <1>2, SetInduction
<1> QED BY <1>3

LEMMA BlobText == ASSUME NEW text \in Text, text # <<>> PROVE DropComments(text) \in Text
<1> DEFINE Stop(k) == text[k + 1] = RightBrace \/ \A i \in 1..k + 1 : text[i] # RightBrace
           cuts == {k \in 0..Len(text) - 1 : Stop(k)}
           EndsInComment(k) ==
             \E i \in 1..k : /\ text[i] = "#"
                             /\ \A j \in i..k : text[j] # "\n"
                             /\ i = k \/ \E j \in 1..i : text[j] = "\n"
           clean == {k \in cuts : ~EndsInComment(k)}
           cut == CHOOSE k \in cuts : /\ ~EndsInComment(k)
                                      /\ \A l \in cuts : l > k => EndsInComment(l)
<1>1. Len(text) \in Nat \ {0} /\ \A k \in 0..Len(text) : SubSeq(text, 1, k) \in Text
  <2>1. Len(text) \in Nat \ {0}
    BY LenProperties, EmptySeq DEF Text
  <2>2. ASSUME NEW k \in 0..Len(text) PROVE SubSeq(text, 1, k) \in Text
    <3>1. \A i \in 1..k : i \in 1..Len(text)
      BY <2>1
    <3> QED BY <2>1, <3>1, SubSeqProperties DEF Text
  <2> QED BY <2>1, <2>2
<1>2. clean # {} /\ clean \in SUBSET (0..Len(text))
  <2>1. 0 \in cuts /\ ~EndsInComment(0)
    <3>1. 0 \in 0..Len(text) - 1
      BY <1>1
    <3>2. Stop(0)
      <4>1. 0 + 1 = 1 /\ \A i \in 1..1 : i = 1
        OBVIOUS
      <4> QED BY <4>1
    <3>3. ~EndsInComment(0)
      OBVIOUS
    <3> HIDE DEF Stop, EndsInComment
    <3> QED BY <3>1, <3>2, <3>3
  <2>2. cuts \subseteq 0..Len(text)
    <3> HIDE DEF Stop
    <3> QED BY <1>1
  <2> HIDE DEF cuts, EndsInComment
  <2> QED BY <2>1, <2>2
<1>3. cut \in cuts
  <2>1. PICK k \in clean : \A l \in clean : l <= k
    <3> HIDE DEF clean
    <3> QED BY <1>1, <1>2, Greatest
  <2>2. k \in cuts /\ ~EndsInComment(k) /\ \A l \in cuts : l > k => EndsInComment(l)
    <3>1. cuts \subseteq Nat
      <4> HIDE DEF Stop
      <4> QED OBVIOUS
    <3> HIDE DEF cuts, EndsInComment
    <3> QED BY <2>1, <3>1
  <2> HIDE DEF cuts, EndsInComment
  <2> QED BY <2>2
<1>4. cut \in 0..Len(text)
  <2> HIDE DEF cut, Stop
  <2> QED BY <1>1, <1>3
<1>5. DropComments(text) = SubSeq(text, 1, cut)
  BY DEF DropComments
<1> HIDE DEF cut
<1> QED BY <1>1, <1>4, <1>5

LEMMA YieldIs ==
  ASSUME NEW s \in States, NEW toks \in Seq(Tokens)
  PROVE  /\ Yield(s, toks) \in States
         /\ Yield(s, toks).mode = "plain" /\ Yield(s, toks).tok = <<>>
         /\ Yield(s, toks).field = s.field /\ Yield(s, toks).out = s.out \o toks
         /\ Grows(s.out, Yield(s, toks).out)
<1>1. s.out \in Seq(Tokens) /\ s.out \o toks \in Seq(Tokens)
  BY ConcatProperties DEF States
<1>2. Grows(s.out, s.out \o toks)
  <2>1. Len(s.out) \in Nat /\ Len(toks) \in Nat
    BY <1>1, LenProperties
  <2> QED BY <1>1, <2>1, ConcatProperties DEF Grows
<1>3. "plain" \in Strings /\ <<>> \in Text
  BY DEF Text, Strings
<1>4. s.mode \in Strings /\ s.tok \in Text /\ s.field \in Seq(Text)
  BY DEF States
<1>5. /\ Yield(s, toks) \in States
      /\ Yield(s, toks).mode = "plain" /\ Yield(s, toks).tok = <<>>
      /\ Yield(s, toks).field = s.field /\ Yield(s, toks).out = s.out \o toks
  BY <1>1, <1>3, <1>4 DEF Yield, States
<1> QED BY <1>2, <1>5

LEMMA Tuples ==
  /\ \A x \in Tokens : <<x>> \in Seq(Tokens)
  /\ \A x, y, z \in Tokens : <<x, y, z>> \in Seq(Tokens)
  /\ \A x \in Strings : <<x>> \in Text
  /\ \A x, y \in Strings : <<x, y>> \in Text
BY DEF Text

LEMMA GrowsFacts ==
  /\ \A s \in Seq(Tokens) : Grows(s, s)
  /\ \A s, t, u \in Seq(Tokens) : Grows(s, t) /\ Grows(t, u) => Grows(s, u)
<1>1. \A s \in Seq(Tokens) : Len(s) \in Nat
  BY LenProperties
<1> QED BY <1>1 DEF Grows

Units == {u \in Text : u # <<>>}

LEMMA TokensAre ==
  /\ \A text \in Text : Token(text, TRUE) \in Tokens /\ Token(text, FALSE) \in Tokens
  /\ Open \in Tokens /\ Close \in Tokens /\ Newline \in Tokens
<1>1. <<LeftBrace>> \in Text /\ <<RightBrace>> \in Text /\ <<"\n">> \in Text
  BY DEF Text, Strings
<1> QED BY <1>1 DEF Token, Tokens, Open, Close, Newline

LEMMA BlobKeeps ==
  ASSUME NEW s \in States, NEW unit \in Units, NEW rest
  PROVE  LexBlob(s, unit, rest) \in States /\ Grows(s.out, LexBlob(s, unit, rest).out)
<1> DEFINE text == s.tok \o unit
           toks == <<Token(DropComments(text), FALSE), Close, Newline>>
<1>1. text \in Text /\ text # <<>>
  <2>1. s.tok \in Text /\ unit \in Text /\ unit # <<>>
    BY DEF States, Units
  <2>2. text \in Text /\ Len(text) = Len(s.tok) + Len(unit) /\ Len(s.tok) \in Nat /\ Len(unit) \in Nat \ {0}
    BY <2>1, ConcatProperties, LenProperties, EmptySeq DEF Text
  <2> QED BY <2>2, EmptySeq DEF Text
<1>2. toks \in Seq(Tokens)
  <2>1. Token(DropComments(text), FALSE) \in Tokens /\ Close \in Tokens /\ Newline \in Tokens
    <3> HIDE DEF text
    <3> QED BY <1>1, BlobText, TokensAre
  <2> HIDE DEF text
  <2> QED BY <2>1, Tuples
<1>3. CASE LexBlob(s, unit, rest) = Yield(s, toks)
  <2> HIDE DEF toks
  <2> QED BY <1>2, <1>3, YieldIs
<1>4. CASE LexBlob(s, unit, rest) = [s EXCEPT !.tok = text]
  <2> HIDE DEF text
  <2> QED BY <1>1, <1>4, GrowsFacts DEF States
<1>5. LexBlob(s, unit, rest) \in {Yield(s, toks), [s EXCEPT !.tok = text]}
  BY DEF LexBlob
<1> QED BY <1>3, <1>4, <1>5

LEMMA CommentKeeps ==
  ASSUME NEW s \in States, NEW unit \in Units
  PROVE  LexComment(s, unit) \in States /\ Grows(s.out, LexComment(s, unit).out)
<1> DEFINE y == Yield(s, <<Token(s.tok, FALSE)>>)
<1>1. s.tok \in Text /\ s.tok \o unit \in Text /\ <<>> \in Seq(Text) /\ s.out \in Seq(Tokens)
  BY ConcatProperties DEF States, Units, Text
<1>2. y \in States /\ Grows(s.out, y.out)
  <2>1. <<Token(s.tok, FALSE)>> \in Seq(Tokens)
    BY <1>1, TokensAre, Tuples
  <2> QED BY <2>1, YieldIs
<1>3. LexComment(s, unit) \in {[y EXCEPT !.field = <<>>], [s EXCEPT !.tok = s.tok \o unit]}
  BY DEF LexComment
<1> HIDE DEF y
<1>4. [y EXCEPT !.field = <<>>] \in States /\ [y EXCEPT !.field = <<>>].out = y.out
  BY <1>1, <1>2 DEF States
<1>5. [s EXCEPT !.tok = s.tok \o unit] \in States /\ [s EXCEPT !.tok = s.tok \o unit].out = s.out
  BY <1>1 DEF States
<1> QED BY <1>1, <1>2, <1>3, <1>4, <1>5, GrowsFacts

LEMMA QuotedKeeps ==
  ASSUME NEW s \in States, NEW unit \in Units
  PROVE  LexQuoted(s, unit) \in States /\ Grows(s.out, LexQuoted(s, unit).out)
<1> DEFINE more == IF unit = <<"\\", s.mode>> THEN <<s.mode>> ELSE unit
           y == Yield(s, <<Token(s.tok, TRUE)>>)
<1>1. s.tok \in Text /\ s.tok \o more \in Text /\ s.out \in Seq(Tokens)
  <2>1. s.mode \in Strings /\ s.tok \in Text /\ unit \in Text /\ s.out \in Seq(Tokens)
    BY DEF States, Units
  <2>2. more \in Text
    <3>1. <<s.mode>> \in Text
      BY <2>1 DEF Text
    <3> QED BY <2>1, <3>1
  <2> HIDE DEF more
  <2> QED BY <2>1, <2>2, ConcatProperties DEF Text
<1>2. y \in States /\ Grows(s.out, y.out)
  <2>1. <<Token(s.tok, TRUE)>> \in Seq(Tokens)
    BY <1>1, TokensAre, Tuples
  <2> QED BY <2>1, YieldIs
<1>3. LexQuoted(s, unit) \in {y, [s EXCEPT !.tok = s.tok \o more]}
  BY DEF LexQuoted
<1> HIDE DEF y, more
<1>4. [s EXCEPT !.tok = s.tok \o more] \in States /\ [s EXCEPT !.tok = s.tok \o more].out = s.out
  BY <1>1 DEF States
<1> QED BY <1>1, <1>2, <1>3, <1>4, GrowsFacts

LEMMA PlainKeeps ==
  ASSUME NEW s \in States, NEW unit \in Units
  PROVE  LexPlain(s, unit) \in States /\ Grows(s.out, LexPlain(s, unit).out)
<1> DEFINE c == IF Len(unit) = 1 THEN unit[1] ELSE "escaped"
           words == s.field \o (IF s.tok = <<>> THEN <<>> ELSE <<s.tok>>)
           atNewline == Yield(s, Pending(s) \o <<Newline>>)
           atSpace == Yield(s, Pending(s))
           atBrace == Yield(s, Pending(s) \o <<Token(unit, FALSE)>>)
           blob == IF c = LeftBrace /\ StartsBlob(s.field) THEN "blob" ELSE "plain"
<1>1. /\ s.mode \in Strings /\ s.tok \in Text /\ s.field \in Seq(Text) /\ s.out \in Seq(Tokens)
      /\ unit \in Text
  BY DEF States, Units
<1>2. words \in Seq(Text) /\ <<>> \in Seq(Text) /\ s.tok \o unit \in Text
  <2>1. <<s.tok>> \in Seq(Text)
    BY <1>1
  <2>2. (IF s.tok = <<>> THEN <<>> ELSE <<s.tok>>) \in Seq(Text)
    BY <2>1
  <2> QED BY <1>1, <2>2, ConcatProperties DEF Text
<1>3. /\ Pending(s) \in Seq(Tokens) /\ Pending(s) \o <<Newline>> \in Seq(Tokens)
      /\ Pending(s) \o <<Token(unit, FALSE)>> \in Seq(Tokens)
  <2>1. Pending(s) \in Seq(Tokens)
    <3>1. <<Token(s.tok, FALSE)>> \in Seq(Tokens)
      BY <1>1, TokensAre, Tuples
    <3>2. Pending(s) \in {<<>>, <<Token(s.tok, FALSE)>>}
      BY DEF Pending
    <3>3. <<>> \in Seq(Tokens)
      OBVIOUS
    <3> QED BY <3>1, <3>2, <3>3
  <2>2. <<Newline>> \in Seq(Tokens) /\ <<Token(unit, FALSE)>> \in Seq(Tokens)
    BY <1>1, TokensAre, Tuples
  <2> QED BY <2>1, <2>2, ConcatProperties
<1>4. /\ atNewline \in States /\ Grows(s.out, atNewline.out)
      /\ atSpace \in States /\ Grows(s.out, atSpace.out)
      /\ atBrace \in States /\ Grows(s.out, atBrace.out)
  BY <1>3, YieldIs
<1>5. \/ LexPlain(s, unit) = [atNewline EXCEPT !.field = <<>>]
      \/ LexPlain(s, unit) = [atSpace EXCEPT !.field = words]
      \/ LexPlain(s, unit) = [s EXCEPT !.mode = "comment", !.tok = unit]
      \/ c \in {Quote, "'"} /\ LexPlain(s, unit) = [s EXCEPT !.mode = c]
      \/ LexPlain(s, unit) = [atBrace EXCEPT !.field = <<>>, !.mode = blob]
      \/ LexPlain(s, unit) = [s EXCEPT !.tok = s.tok \o unit]
  <2> HIDE DEF words, atNewline, atSpace, atBrace, blob
  <2> QED BY DEF LexPlain, words, atNewline, atSpace, atBrace, blob
<1>6. blob \in Strings /\ "comment" \in Strings /\ (c \in {Quote, "'"} => c \in Strings)
  BY DEF Strings
<1> HIDE DEF c, words, atNewline, atSpace, atBrace, blob
<1>7. /\ [atNewline EXCEPT !.field = <<>>] \in States
      /\ [atNewline EXCEPT !.field = <<>>].out = atNewline.out
      /\ [atSpace EXCEPT !.field = words] \in States
      /\ [atSpace EXCEPT !.field = words].out = atSpace.out
      /\ [atBrace EXCEPT !.field = <<>>, !.mode = blob] \in States
      /\ [atBrace EXCEPT !.field = <<>>, !.mode = blob].out = atBrace.out
  BY <1>2, <1>4, <1>6 DEF States
<1>8. /\ [s EXCEPT !.mode = "comment", !.tok = unit] \in States
      /\ [s EXCEPT !.mode = "comment", !.tok = unit].out = s.out
      /\ c \in {Quote, "'"} => [s EXCEPT !.mode = c] \in States
      /\ [s EXCEPT !.mode = c].out = s.out
      /\ [s EXCEPT !.tok = s.tok \o unit] \in States
      /\ [s EXCEPT !.tok = s.tok \o unit].out = s.out
  BY <1>1, <1>2, <1>6 DEF States
<1> QED BY <1>1, <1>4, <1>5, <1>7, <1>8, GrowsFacts

LEMMA UnitKeeps ==
  ASSUME NEW s \in States, NEW unit \in Units, NEW rest
  PROVE  LexUnit(s, unit, rest) \in States /\ Grows(s.out, LexUnit(s, unit, rest).out)
<1>1. LexUnit(s, unit, rest) \in {LexBlob(s, unit, rest), LexComment(s, unit),
                                  LexQuoted(s, unit), LexPlain(s, unit)}
  BY DEF LexUnit
<1> QED BY <1>1, BlobKeeps, CommentKeeps, QuotedKeeps, PlainKeeps

LEMMA UnitText ==
  ASSUME NEW text \in Text, NEW i \in 1..Len(text)
  PROVE  Unit(text, i) \in Units
<1>1. text[i] \in Strings /\ "\\" \in Strings
  BY ElementOfSeq DEF Text, Strings
<1>2. <<text[i]>> \in Text /\ <<"\\", text[i]>> \in Text
  BY <1>1, Tuples
<1>3. <<text[i]>> # <<>> /\ <<"\\", text[i]>> # <<>>
  OBVIOUS
<1> QED BY <1>2, <1>3 DEF Unit, Units

Lexes(g, text) ==
  g = [i \in 0..Len(text) |->
         IF i = 0 THEN LexStart
         ELSE IF i + 1 \in Escaped(text) THEN g[i - 1]
         ELSE LexUnit(g[i - 1], Unit(text, i), SubSeq(text, i + 1, Len(text)))]

LEMMA StartState ==
  /\ LexStart \in States /\ LexStart.mode = "plain"
  /\ LexStart.tok = <<>> /\ LexStart.field = <<>> /\ LexStart.out = <<>>
<1>1. "plain" \in Strings /\ <<>> \in Text /\ <<>> \in Seq(Text) /\ <<>> \in Seq(Tokens)
  BY DEF Strings, Text
<1> QED BY <1>1 DEF LexStart, States

LEMMA LexesExist == ASSUME NEW text \in Text PROVE \E g : Lexes(g, text)
<1> DEFINE n == Len(text)
           After(s, i) == IF i + 1 \in Escaped(text) THEN s
                          ELSE LexUnit(s, Unit(text, i), SubSeq(text, i + 1, Len(text)))
           next == [p \in Nat \X States |-> IF p[1] \in 1..n THEN After(p[2], p[1]) ELSE p[2]]
<1>1. n \in Nat
  BY LenProperties DEF Text
<1>2. next \in [Nat \X States -> States]
  <2>1. ASSUME NEW i \in 1..n, NEW s \in States PROVE After(s, i) \in States
    BY UnitText, UnitKeeps
  <2> HIDE DEF After
  <2> QED BY <2>1
<1>3. PICK f : Recurs(f, States, LexStart, next, n)
  <2> HIDE DEF next, n
  <2> QED BY <1>1, <1>2, StartState, Recursion
<1>4. \A i \in 0..n : f[i] = IF i = 0 THEN LexStart ELSE After(f[i - 1], i)
  <2>1. f \in [0..n -> States] /\ f[0] = LexStart /\ \A i \in 1..n : f[i] = next[<<i, f[i - 1]>>]
    BY <1>3 DEF Recurs
  <2>2. ASSUME NEW i \in 1..n PROVE f[i] = After(f[i - 1], i)
    <3>1. i - 1 \in 0..n /\ i \in Nat
      BY <1>1
    <3>2. <<i, f[i - 1]>> \in Nat \X States
      BY <2>1, <3>1
    <3> HIDE DEF After
    <3> QED BY <2>1, <3>2
  <2> HIDE DEF After, next
  <2> QED BY <1>1, <2>1, <2>2
<1>5. f = [i \in 0..n |-> IF i = 0 THEN LexStart ELSE After(f[i - 1], i)]
  <2>1. f = [i \in 0..n |-> f[i]]
    BY <1>3 DEF Recurs
  <2> HIDE DEF After
  <2> QED BY <1>4, <2>1
<1> QED BY <1>5 DEF Lexes

\* The state behind each character, from the one before.
LEMMA LexIs ==
  ASSUME NEW text \in Text
  PROVE  /\ LexStates(text)[0] = LexStart
         /\ \A i \in 1..Len(text) :
              LexStates(text)[i] =
                IF i + 1 \in Escaped(text) THEN LexStates(text)[i - 1]
                ELSE LexUnit(LexStates(text)[i - 1], Unit(text, i), SubSeq(text, i + 1, Len(text)))
<1> DEFINE g == CHOOSE g : Lexes(g, text)
<1>1. Lexes(g, text)
  BY LexesExist
<1>2. LexStates(text) = g
  BY DEF LexStates, Lexes
<1>3. Len(text) \in Nat
  BY LenProperties DEF Text
<1> HIDE DEF g
<1>4. \A i \in 0..Len(text) : g[i] =
         IF i = 0 THEN LexStart
         ELSE IF i + 1 \in Escaped(text) THEN g[i - 1]
         ELSE LexUnit(g[i - 1], Unit(text, i), SubSeq(text, i + 1, Len(text)))
  BY <1>1 DEF Lexes
<1>5. g[0] = LexStart
  BY <1>3, <1>4
<1>6. ASSUME NEW i \in 1..Len(text)
      PROVE  g[i] = IF i + 1 \in Escaped(text) THEN g[i - 1]
                    ELSE LexUnit(g[i - 1], Unit(text, i), SubSeq(text, i + 1, Len(text)))
  <2>1. i \in 0..Len(text) /\ i # 0
    BY <1>3
  <2> QED BY <1>4, <2>1
<1> QED BY <1>2, <1>5, <1>6

LEMMA LexKeeps ==
  ASSUME NEW text \in Text
  PROVE  /\ \A i \in 0..Len(text) : LexStates(text)[i] \in States
         /\ \A i \in 1..Len(text) : Grows(LexStates(text)[i - 1].out, LexStates(text)[i].out)
<1> DEFINE g == LexStates(text)
<1>1. Len(text) \in Nat
  BY LenProperties DEF Text
<1>2. ASSUME NEW i \in 1..Len(text), g[i - 1] \in States
      PROVE  g[i] \in States /\ Grows(g[i - 1].out, g[i].out)
  <2>1. g[i] = g[i - 1] \/ g[i] = LexUnit(g[i - 1], Unit(text, i), SubSeq(text, i + 1, Len(text)))
    BY LexIs
  <2>2. g[i - 1].out \in Seq(Tokens)
    BY <1>2 DEF States
  <2> HIDE DEF g
  <2> QED BY <1>2, <2>1, <2>2, UnitText, UnitKeeps, GrowsFacts
<1>3. g[0] \in States
  BY LexIs, StartState
<1> HIDE DEF g
<1>4. \A i \in 0..Len(text) : g[i] \in States
  BY <1>1, <1>2, <1>3, RecursionStays
<1>5. \A i \in 1..Len(text) : Grows(g[i - 1].out, g[i].out)
  <2>1. \A i \in 1..Len(text) : i - 1 \in 0..Len(text)
    BY <1>1
  <2> QED BY <1>2, <1>4, <2>1
<1> QED BY <1>4, <1>5 DEF g

\* What the lexer has yielded behind one character, it has yielded.
LEMMA OutKept ==
  ASSUME NEW text \in Text, NEW i \in 0..Len(text)
  PROVE  Grows(LexStates(text)[i].out, Lex(text)) /\ Lex(text) \in Seq(Tokens)
<1> DEFINE g == LexStates(text)
           Done == {k \in Nat : i + k <= Len(text) => Grows(g[i].out, g[i + k].out)}
<1>1. Len(text) \in Nat
  BY LenProperties DEF Text
<1>2. \A j \in 0..Len(text) : g[j].out \in Seq(Tokens)
  BY LexKeeps DEF States
<1>3. 0 \in Done
  <2>1. i + 0 = i
    OBVIOUS
  <2> HIDE DEF g
  <2> QED BY <1>2, <2>1, GrowsFacts
<1>4. ASSUME NEW k \in Nat, k \in Done PROVE k + 1 \in Done
  <2>1. SUFFICES ASSUME i + (k + 1) <= Len(text) PROVE Grows(g[i].out, g[i + (k + 1)].out)
    OBVIOUS
  <2>2. /\ i + (k + 1) \in 1..Len(text) /\ (i + (k + 1)) - 1 = i + k
        /\ i + k \in 0..Len(text) /\ i + (k + 1) \in 0..Len(text)
    BY <1>1, <2>1
  <2>3. Grows(g[i].out, g[i + k].out)
    BY <1>4, <2>2
  <2>4. Grows(g[i + k].out, g[i + (k + 1)].out)
    BY <2>2, LexKeeps
  <2> HIDE DEF g
  <2> QED BY <1>2, <2>2, <2>3, <2>4, GrowsFacts
<1>5. Nat \subseteq Done
  <2> HIDE DEF Done
  <2> QED BY <1>3, <1>4, SetInduction
<1>6. Len(text) - i \in Nat /\ i + (Len(text) - i) = Len(text) /\ Len(text) \in 0..Len(text)
  BY <1>1
<1>7. Grows(g[i].out, g[Len(text)].out)
  BY <1>5, <1>6
<1> QED BY <1>2, <1>6, <1>7 DEF Lex, LexState

LEMMA WordsAreText == ASSUME NEW text \in Text PROVE Words(text) \subseteq Text
<1>1. Len(text) \in 0..Len(text)
  BY LenProperties DEF Text
<1>2. Lex(text) \in Seq(Tokens)
  BY <1>1, OutKept
<1>3. \A t \in ToSet(Lex(text)) : t.text \in Text
  <2>1. \A i \in DOMAIN Lex(text) : Lex(text)[i] \in Tokens
    BY <1>2, ElementOfSeq, LenProperties
  <2>2. ToSet(Lex(text)) = {Lex(text)[i] : i \in DOMAIN Lex(text)}
    BY DEF ToSet
  <2> QED BY <2>1, <2>2 DEF Tokens
<1> QED BY <1>3 DEF Words

-----------------------------------------------------------------------------
(* Single steps of the lexer *)

LEMMA WordGoesOn ==
  ASSUME NEW s \in States, s.mode = "plain", NEW unit \in Units, NEW rest,
         Len(unit) # 1 \/ unit[1] \notin Bare \cup {RightBrace}
  PROVE  LET r == LexUnit(s, unit, rest)
         IN r.mode = "plain" /\ r.tok = s.tok \o unit /\ r.field = s.field /\ r.out = s.out
<1> DEFINE c == IF Len(unit) = 1 THEN unit[1] ELSE "escaped"
<1>1. c \notin {"\n", "#", Quote, "'", LeftBrace, RightBrace} /\ c \notin Space
  BY Characters, Spaces DEF Bare, Space
<1>2. LexPlain(s, unit) = [s EXCEPT !.tok = s.tok \o unit]
  <2> HIDE DEF c
  <2> QED BY <1>1 DEF LexPlain, c
<1>3. LexUnit(s, unit, rest) = LexPlain(s, unit)
  BY Characters DEF LexUnit
<1> QED BY <1>2, <1>3 DEF States

LEMMA PendingIs ==
  ASSUME NEW s \in States, NEW token \in Tokens
  PROVE  Pending(s) \in Seq(Tokens) /\ Pending(s) \o <<token>> \in Seq(Tokens)
<1>1. s.tok \in Text
  BY DEF States
<1>2. <<Token(s.tok, FALSE)>> \in Seq(Tokens) /\ <<token>> \in Seq(Tokens)
  BY <1>1, TokensAre, Tuples
<1>3. <<>> \in Seq(Tokens)
  OBVIOUS
<1>4. Pending(s) \in {<<>>, <<Token(s.tok, FALSE)>>}
  BY DEF Pending
<1> QED BY <1>2, <1>3, <1>4, ConcatProperties

LEMMA LineEnds ==
  ASSUME NEW s \in States, s.mode = "plain", NEW rest
  PROVE  LexUnit(s, <<"\n">>, rest).out = s.out \o (Pending(s) \o <<Newline>>)
<1> DEFINE y == Yield(s, Pending(s) \o <<Newline>>)
<1>1. LexPlain(s, <<"\n">>) = [y EXCEPT !.field = <<>>]
  <2>1. Len(<<"\n">>) = 1 /\ <<"\n">>[1] = "\n"
    OBVIOUS
  <2> QED BY <2>1, Characters, Spaces DEF LexPlain
<1>2. LexUnit(s, <<"\n">>, rest) = LexPlain(s, <<"\n">>)
  BY Characters DEF LexUnit
<1>3. y \in States /\ y.out = s.out \o (Pending(s) \o <<Newline>>)
  BY TokensAre, PendingIs, YieldIs
<1> HIDE DEF y
<1> QED BY <1>1, <1>2, <1>3 DEF States

LEMMA BraceStands ==
  ASSUME NEW s \in States, s.mode = "plain", NEW rest
  PROVE  LexUnit(s, <<RightBrace>>, rest).out = s.out \o (Pending(s) \o <<Close>>)
<1> DEFINE y == Yield(s, Pending(s) \o <<Token(<<RightBrace>>, FALSE)>>)
<1>1. LexPlain(s, <<RightBrace>>) = [y EXCEPT !.field = <<>>, !.mode = "plain"]
  <2>1. Len(<<RightBrace>>) = 1 /\ <<RightBrace>>[1] = RightBrace
    OBVIOUS
  <2> QED BY <2>1, Characters, Spaces DEF LexPlain
<1>2. LexUnit(s, <<RightBrace>>, rest) = LexPlain(s, <<RightBrace>>)
  BY Characters DEF LexUnit
<1>3. y \in States /\ y.out = s.out \o (Pending(s) \o <<Close>>)
  <2>1. Token(<<RightBrace>>, FALSE) = Close /\ Close \in Tokens
    BY TokensAre DEF Close
  <2>2. y = Yield(s, Pending(s) \o <<Close>>)
    BY <2>1
  <2> HIDE DEF y
  <2> QED BY <2>1, <2>2, PendingIs, YieldIs
<1> HIDE DEF y
<1> QED BY <1>1, <1>2, <1>3 DEF States

LEMMA QuoteOpens ==
  ASSUME NEW s \in States, s.mode = "plain", NEW rest
  PROVE  LET r == LexUnit(s, <<Quote>>, rest)
         IN r.mode = Quote /\ r.tok = s.tok /\ r.out = s.out
<1>1. LexPlain(s, <<Quote>>) = [s EXCEPT !.mode = Quote]
  <2>1. Len(<<Quote>>) = 1 /\ <<Quote>>[1] = Quote
    OBVIOUS
  <2> QED BY <2>1, Characters, Spaces DEF LexPlain
<1>2. LexUnit(s, <<Quote>>, rest) = LexPlain(s, <<Quote>>)
  BY Characters DEF LexUnit
<1> QED BY <1>1, <1>2 DEF States

LEMMA QuoteCloses ==
  ASSUME NEW s \in States, s.mode = Quote, NEW rest
  PROVE  LET r == LexUnit(s, <<Quote>>, rest)
         IN r.mode = "plain" /\ r.tok = <<>> /\ r.out = s.out \o <<Token(s.tok, TRUE)>>
<1>1. LexQuoted(s, <<Quote>>) = Yield(s, <<Token(s.tok, TRUE)>>)
  BY DEF LexQuoted
<1>2. LexUnit(s, <<Quote>>, rest) = LexQuoted(s, <<Quote>>)
  BY DEF LexUnit
<1>3. s.tok \in Text
  BY DEF States
<1> DEFINE toks == <<Token(s.tok, TRUE)>>
           y == Yield(s, toks)
<1>4. toks \in Seq(Tokens)
  BY <1>3, TokensAre, Tuples
<1>5. y.mode = "plain" /\ y.tok = <<>> /\ y.out = s.out \o toks
  <2> HIDE DEF toks
  <2> QED BY <1>4, YieldIs
<1>6. LexUnit(s, <<Quote>>, rest) = y
  BY <1>1, <1>2
<1> HIDE DEF y, toks
<1>7. LET r == LexUnit(s, <<Quote>>, rest) IN r.mode = "plain" /\ r.tok = <<>> /\ r.out = s.out \o toks
  BY <1>5, <1>6
<1> QED BY <1>7 DEF toks

LEMMA QuoteGoesOn ==
  ASSUME NEW s \in States, s.mode = Quote, NEW unit \in Units, unit # <<Quote>>, NEW rest
  PROVE  LET r == LexUnit(s, unit, rest)
         IN /\ r.mode = Quote /\ r.out = s.out
            /\ r.tok = s.tok \o IF unit = <<"\\", Quote>> THEN <<Quote>> ELSE unit
<1> DEFINE more == IF unit = <<"\\", Quote>> THEN <<Quote>> ELSE unit
<1>1. LexQuoted(s, unit) = [s EXCEPT !.tok = s.tok \o more]
  BY DEF LexQuoted
<1>2. LexUnit(s, unit, rest) = LexQuoted(s, unit)
  BY DEF LexUnit
<1> HIDE DEF more
<1>3. LET r == LexUnit(s, unit, rest) IN r.mode = Quote /\ r.out = s.out /\ r.tok = s.tok \o more
  BY <1>1, <1>2 DEF States
<1> QED BY <1>3 DEF more

LEMMA HashStands ==
  ASSUME NEW rest, NEW end
  PROVE  LexUnit(LexUnit(LexStart, <<"#">>, rest), <<"\n">>, end).out = <<Token(<<"#">>, FALSE)>>
<1> DEFINE hash == LexUnit(LexStart, <<"#">>, rest)
           y == Yield(hash, <<Token(hash.tok, FALSE)>>)
<1>1. Len(<<"#">>) = 1 /\ <<"#">>[1] = "#" /\ Len(<<"\n">>) = 1 /\ <<"\n">>[1] = "\n"
  OBVIOUS
<1>2. LexPlain(LexStart, <<"#">>) = [LexStart EXCEPT !.mode = "comment", !.tok = <<"#">>]
  BY <1>1, StartState, Characters, Spaces DEF LexPlain
<1>3. hash = LexPlain(LexStart, <<"#">>)
  BY StartState, Characters DEF LexUnit
<1>4. hash.mode = "comment" /\ hash.tok = <<"#">> /\ hash.out = <<>> /\ hash \in States
  <2>1. "comment" \in Strings /\ <<"#">> \in Text
    BY Tuples DEF Strings
  <2> HIDE DEF hash
  <2> QED BY <1>2, <1>3, <2>1, StartState DEF States
<1> HIDE DEF hash
<1>5. LexUnit(hash, <<"\n">>, end) = LexComment(hash, <<"\n">>)
  BY <1>4, Characters DEF LexUnit
<1>6. LexComment(hash, <<"\n">>) = [y EXCEPT !.field = <<>>]
  BY <1>1 DEF LexComment, Last
<1>7. y \in States /\ y.out = <<>> \o <<Token(<<"#">>, FALSE)>>
  <2>1. <<Token(hash.tok, FALSE)>> \in Seq(Tokens)
    <3>1. hash.tok \in Text
      BY <1>4 DEF States
    <3> QED BY <3>1, TokensAre, Tuples
  <2> QED BY <1>4, <2>1, YieldIs
<1> HIDE DEF y
<1>8. [y EXCEPT !.field = <<>>].out = y.out
  BY <1>7 DEF States
<1>9. <<>> \o <<Token(<<"#">>, FALSE)>> = <<Token(<<"#">>, FALSE)>>
  OBVIOUS
<1> QED BY <1>5, <1>6, <1>7, <1>8, <1>9 DEF hash

-----------------------------------------------------------------------------
(* Texts that begin the same *)

LEMMA SameEscapes ==
  ASSUME NEW t \in Text, NEW w \in Text, NEW k \in Nat, k <= Len(t), k <= Len(w),
         \A i \in 1..k : t[i] = w[i]
  PROVE  \A i \in 1..k + 1 : i \in Escaped(t) <=> i \in Escaped(w)
<1> DEFINE Done == {i \in Nat : i \in 1..k + 1 => (i \in Escaped(t) <=> i \in Escaped(w))}
<1>1. Len(t) \in Nat /\ Len(w) \in Nat
  BY LenProperties DEF Text
<1>2. 0 \in Done
  OBVIOUS
<1>3. ASSUME NEW i \in Nat, i \in Done PROVE i + 1 \in Done
  <2>1. SUFFICES ASSUME i + 1 \in 1..k + 1 PROVE i + 1 \in Escaped(t) <=> i + 1 \in Escaped(w)
    OBVIOUS
  <2>2. CASE i = 0
    BY <2>2, EscapedIs
  <2>3. CASE i # 0
    <3>1. i \in 1..k /\ i \in 1..k + 1 /\ i \in 1..Len(t) /\ i \in 1..Len(w)
      BY <1>1, <2>1, <2>3
    <3>2. i \in Escaped(t) <=> i \in Escaped(w)
      BY <1>3, <3>1
    <3> QED BY <3>1, <3>2, EscapedIs
  <2> QED BY <2>2, <2>3
<1>4. Nat \subseteq Done
  <2> HIDE DEF Done
  <2> QED BY <1>2, <1>3, SetInduction
<1> QED BY <1>4

Upto(w, n) == SubSeq(w, 1, n)

LEMMA UptoIs ==
  ASSUME NEW w \in Text, NEW n \in 0..Len(w)
  PROVE  /\ Upto(w, n) \in Text /\ Len(Upto(w, n)) = n
         /\ \A i \in 1..n : Upto(w, n)[i] = w[i]
<1>1. Len(w) \in Nat /\ \A i \in 1..n : i \in 1..Len(w)
  BY LenProperties DEF Text
<1> QED BY <1>1, SubSeqProperties DEF Upto, Text

LEMMA UptoNone == ASSUME NEW w \in Text PROVE Upto(w, 0) = <<>>
<1>1. 0 \in 0..Len(w)
  BY LenProperties DEF Text
<1> QED BY <1>1, UptoIs, EmptySeq DEF Text

LEMMA UptoAll == ASSUME NEW w \in Text PROVE Upto(w, Len(w)) = w
<1>1. Len(w) \in 0..Len(w)
  BY LenProperties DEF Text
<1>2. Upto(w, Len(w)) \in Text /\ Len(Upto(w, Len(w))) = Len(w) /\ \A i \in 1..Len(w) : Upto(w, Len(w))[i] = w[i]
  BY <1>1, UptoIs
<1> QED BY <1>2, SeqEqual DEF Text

LEMMA UptoOne ==
  ASSUME NEW w \in Text, NEW n \in 1..Len(w)
  PROVE  Upto(w, n - 1) \o <<w[n]>> = Upto(w, n)
<1> DEFINE a == Upto(w, n - 1)
           b == <<w[n]>>
<1>1. n - 1 \in 0..Len(w) /\ n \in 0..Len(w) /\ Len(w) \in Nat
  BY LenProperties DEF Text
<1>2. a \in Text /\ Len(a) = n - 1 /\ \A i \in 1..n - 1 : a[i] = w[i]
  BY <1>1, UptoIs
<1>3. b \in Text /\ Len(b) = 1 /\ b[1] = w[n]
  BY ElementOfSeq, Tuples DEF Text
<1> HIDE DEF a, b
<1>4. a \o b \in Text /\ Len(a \o b) = n
      /\ \A i \in 1..n : (a \o b)[i] = IF i <= n - 1 THEN a[i] ELSE b[i - (n - 1)]
  <2>1. Len(a) + Len(b) = n /\ a \in Seq(Strings) /\ b \in Seq(Strings)
    BY <1>1, <1>2, <1>3 DEF Text
  <2>2. /\ a \o b \in Seq(Strings) /\ Len(a \o b) = Len(a) + Len(b)
        /\ \A i \in 1..Len(a) + Len(b) :
             (a \o b)[i] = IF i <= Len(a) THEN a[i] ELSE b[i - Len(a)]
    BY <2>1, ConcatProperties
  <2> QED BY <1>2, <2>1, <2>2 DEF Text
<1>5. \A i \in 1..n : (a \o b)[i] = w[i]
  BY <1>1, <1>2, <1>3, <1>4
<1>6. Upto(w, n) \in Text /\ Len(Upto(w, n)) = n /\ \A i \in 1..n : Upto(w, n)[i] = w[i]
  BY <1>1, UptoIs
<1> QED BY <1>4, <1>5, <1>6, SeqEqual DEF Text, a, b

LEMMA UptoTwo ==
  ASSUME NEW w \in Text, NEW n \in 2..Len(w)
  PROVE  Upto(w, n - 2) \o <<w[n - 1], w[n]>> = Upto(w, n)
<1> DEFINE a == Upto(w, n - 2)
           x == w[n - 1]
           y == w[n]
<1>1. n - 1 \in 1..Len(w) /\ n \in 1..Len(w) /\ n - 2 \in 0..Len(w) /\ (n - 1) - 1 = n - 2
  BY LenProperties DEF Text
<1>2. a \in Text /\ x \in Strings /\ y \in Strings
  BY <1>1, UptoIs, ElementOfSeq DEF Text
<1>3. a \o <<x>> = Upto(w, n - 1) /\ Upto(w, n - 1) \o <<y>> = Upto(w, n)
  BY <1>1, UptoOne
<1> HIDE DEF a, x, y
<1>4. (a \o <<x>>) \o <<y>> = a \o <<x, y>>
  <2>1. <<x>> \in Text /\ <<y>> \in Text
    BY <1>2, Tuples
  <2>2. <<x>> \o <<y>> = <<x, y>>
    BY <1>2, JoinTwo
  <2>3. (a \o <<x>>) \o <<y>> = a \o (<<x>> \o <<y>>)
    BY <1>2, <2>1, ConcatAssociative DEF Text
  <2> QED BY <2>2, <2>3
<1> QED BY <1>3, <1>4 DEF a, x, y

-----------------------------------------------------------------------------
(* A word that is written bare *)

\* A word as the lexer meets it behind a newline or a brace.
Line(word) == Append(word, "\n")

LEMMA LineIs ==
  ASSUME NEW w \in Text
  PROVE  /\ Line(w) \in Text /\ Len(Line(w)) = Len(w) + 1
         /\ \A i \in 1..Len(w) : Line(w)[i] = w[i]
         /\ Line(w)[Len(w) + 1] = "\n"
<1>1. "\n" \in Strings
  BY DEF Strings
<1> QED BY <1>1, AppendProperties DEF Text, Line

\* What is collected behind n characters of a word.
Collected(w, n) == Upto(w, IF n + 1 \in Escaped(w) THEN n - 1 ELSE n)

\* No character but a closing brace ends the word.
Plain(w) ==
  /\ w # <<>> /\ ~Lone(w) /\ w[1] \notin Bare \cup {RightBrace}
  /\ \A i \in 1..Len(w) : i \notin Escaped(w) => w[i] \notin Bare

LEMMA BareIsPlain ==
  ASSUME NEW w \in Text, ~_needs_quotes(w), w # <<"#">>
  PROVE  Plain(w)
<1>1. w # <<>> /\ ~Lone(w) /\ Head(w) \notin Bare \cup {RightBrace}
      /\ \A i \in 2..Len(w) : i \notin Escaped(w) => w[i] \notin Bare
  BY DEF _needs_quotes
<1>2. Head(w) = w[1]
  BY <1>1, HeadTailProperties DEF Text
<1>3. Len(w) \in Nat /\ \A i \in 1..Len(w) : i = 1 \/ i \in 2..Len(w)
  BY LenProperties DEF Text
<1>4. w[1] \notin Bare
  BY <1>1, <1>2
<1>5. \A i \in 1..Len(w) : i \notin Escaped(w) => w[i] \notin Bare
  BY <1>1, <1>3, <1>4
<1> QED BY <1>1, <1>2, <1>5 DEF Plain

Reading(s, w, n) ==
  s.mode = "plain" /\ s.tok = Collected(w, n) /\ s.out = <<>>

LEMMA BareStep ==
  ASSUME NEW w \in Text, Plain(w), NEW n \in 1..Len(w),
         n \notin Escaped(w) => w[n] # RightBrace,
         Reading(LexStates(Line(w))[n - 1], w, n - 1)
  PROVE  Reading(LexStates(Line(w))[n], w, n)
<1> DEFINE t == Line(w)
           s == LexStates(t)[n - 1]
           r == LexStates(t)[n]
           rest == SubSeq(t, n + 1, Len(t))
<1>1. Len(w) \in Nat /\ n \in Nat /\ n - 1 \in Nat /\ (n - 1) + 1 = n
  BY LenProperties DEF Text
<1>2. t \in Text /\ n \in 1..Len(t) /\ n - 1 \in 0..Len(t) /\ t[n] = w[n]
  BY <1>1, LineIs
<1>3. s \in States
  BY <1>2, LexKeeps
<1>4. \A i \in 1..n + 1 : i \in Escaped(t) <=> i \in Escaped(w)
  <2>1. n <= Len(t) /\ n <= Len(w) /\ \A i \in 1..n : t[i] = w[i]
    BY <1>1, <1>2, LineIs
  <2> QED BY <1>1, <1>2, <2>1, SameEscapes
<1>5. n \in 1..n + 1 /\ n + 1 \in 1..n + 1
  BY <1>1
<1>6. r = IF n + 1 \in Escaped(t) THEN s ELSE LexUnit(s, Unit(t, n), rest)
  BY <1>2, LexIs
<1>7. n + 1 \in Escaped(w) <=> w[n] = "\\" /\ n \notin Escaped(w)
  BY EscapedIs
<1>8. s.mode = "plain" /\ s.out = <<>> /\ s.tok = Upto(w, IF n \in Escaped(w) THEN n - 2 ELSE n - 1)
  <2>1. (n - 1) - 1 = n - 2
    BY <1>1
  <2> QED BY <1>1, <2>1 DEF Reading, Collected
<1>9. Unit(t, n) \in Units
  BY <1>2, UnitText
<1> HIDE DEF t, s, r, rest
<1>10. CASE n + 1 \in Escaped(w)
  <2>1. r = s /\ n \notin Escaped(w)
    BY <1>4, <1>5, <1>6, <1>7, <1>10
  <2>2. Collected(w, n) = Upto(w, n - 1)
    BY <1>10 DEF Collected
  <2>3. Reading(r, w, n)
    BY <1>8, <2>1, <2>2 DEF Reading
  <2> QED BY <2>3 DEF r, t
<1>11. CASE n + 1 \notin Escaped(w)
  <2>1. r = LexUnit(s, Unit(t, n), rest) /\ Collected(w, n) = Upto(w, n)
    BY <1>4, <1>5, <1>6, <1>11 DEF Collected
  <2>2. CASE n \in Escaped(w)
    <3>1. Unit(t, n) = <<"\\", w[n]>>
      BY <1>2, <1>4, <1>5, <2>2 DEF Unit
    <3>2. n # 1 /\ n \in 2..Len(w) /\ n - 1 \in 1..Len(w) /\ w[n - 1] = "\\"
      <4>1. n # 1 /\ n \in 2..Len(w) /\ n - 1 \in 1..Len(w)
        BY <1>1, <2>2, EscapedIs
      <4> QED BY <1>1, <2>2, <4>1, EscapedIs
    <3>3. Len(Unit(t, n)) # 1
      BY <3>1
    <3>4. r.mode = "plain" /\ r.tok = s.tok \o Unit(t, n) /\ r.out = s.out
      BY <1>3, <1>8, <1>9, <2>1, <3>3, WordGoesOn
    <3>5. s.tok \o Unit(t, n) = Upto(w, n)
      BY <1>8, <2>2, <3>1, <3>2, UptoTwo
    <3>6. Reading(r, w, n)
      BY <1>8, <2>1, <3>4, <3>5 DEF Reading
    <3> QED BY <3>6 DEF r, t
  <2>3. CASE n \notin Escaped(w)
    <3>1. Unit(t, n) = <<w[n]>>
      BY <1>2, <1>4, <1>5, <2>3 DEF Unit
    <3>2. Unit(t, n)[1] \notin Bare \cup {RightBrace}
      <4>1. w[n] \notin Bare /\ w[n] # RightBrace
        BY <2>3 DEF Plain
      <4> QED BY <3>1, <4>1
    <3>3. r.mode = "plain" /\ r.tok = s.tok \o Unit(t, n) /\ r.out = s.out
      BY <1>3, <1>8, <1>9, <2>1, <3>2, WordGoesOn
    <3>4. s.tok \o Unit(t, n) = Upto(w, n)
      BY <1>8, <2>3, <3>1, UptoOne
    <3>5. Reading(r, w, n)
      BY <1>8, <2>1, <3>3, <3>4 DEF Reading
    <3> QED BY <3>5 DEF r, t
  <2> QED BY <2>2, <2>3
<1> QED BY <1>10, <1>11

\* Up to its first brace, a bare word is collected.
LEMMA BareRead ==
  ASSUME NEW w \in Text, Plain(w), NEW n \in 0..Len(w),
         \A i \in 1..n : i \notin Escaped(w) => w[i] # RightBrace
  PROVE  Reading(LexStates(Line(w))[n], w, n)
<1> DEFINE g == LexStates(Line(w))
           Done == {k \in Nat : k \in 0..n => Reading(g[k], w, k)}
<1>1. Len(w) \in Nat
  BY LenProperties DEF Text
<1>2. 0 \in Done
  <2>1. Collected(w, 0) = <<>>
    <3>1. 0 + 1 \notin Escaped(w)
      BY EscapedIs
    <3> QED BY <3>1, UptoNone DEF Collected
  <2>2. g[0] = LexStart
    BY LineIs, LexIs
  <2> HIDE DEF g
  <2> QED BY <2>1, <2>2, StartState DEF Reading
<1>3. ASSUME NEW k \in Nat, k \in Done PROVE k + 1 \in Done
  <2>1. SUFFICES ASSUME k + 1 \in 0..n PROVE Reading(g[k + 1], w, k + 1)
    OBVIOUS
  <2>2. k \in 0..n /\ k + 1 \in 1..n /\ k + 1 \in 1..Len(w) /\ (k + 1) - 1 = k
    BY <1>1, <2>1
  <2>3. Reading(g[k], w, k) /\ (k + 1 \notin Escaped(w) => w[k + 1] # RightBrace)
    BY <1>3, <2>2
  <2> QED BY <2>2, <2>3, BareStep
<1>4. Nat \subseteq Done
  <2> HIDE DEF Done
  <2> QED BY <1>2, <1>3, SetInduction
<1>5. n \in Nat /\ n \in 0..n
  BY <1>1
<1> QED BY <1>4, <1>5

ReadBack(toks, word) == Len(toks) = 2 /\ toks[1].text = word /\ toks[2] = Newline

LEMMA BareSurvives ==
  ASSUME NEW w \in Text, Plain(w), \A i \in 1..Len(w) : i \notin Escaped(w) => w[i] # RightBrace
  PROVE  ReadBack(Lex(Line(w)), w)
<1> DEFINE t == Line(w)
           m == Len(w)
           s == LexStates(t)[m]
           rest == SubSeq(t, m + 2, Len(t))
<1>1. m \in Nat /\ m \in 0..m /\ m \in 1..m
  <2>1. m \in Nat \ {0}
    BY LenProperties, EmptySeq DEF Text, Plain
  <2> QED BY <2>1
<1>2. t \in Text /\ Len(t) = m + 1 /\ t[m + 1] = "\n" /\ m + 1 \in 1..Len(t) /\ (m + 1) - 1 = m
      /\ m \in 0..Len(t) /\ (m + 1) + 1 = m + 2
  BY <1>1, LineIs
<1>3. s \in States
  BY <1>2, LexKeeps
<1>4. m + 1 \notin Escaped(w)
  BY DEF Plain, Lone
<1>5. s.mode = "plain" /\ s.tok = w /\ s.out = <<>>
  <2>1. Reading(s, w, m)
    BY <1>1, BareRead
  <2> QED BY <1>4, <2>1, UptoAll DEF Reading, Collected
<1>6. m + 1 \notin Escaped(t) /\ m + 2 \notin Escaped(t)
  <2>1. m <= Len(t) /\ m <= Len(w) /\ \A i \in 1..m : t[i] = w[i]
    BY <1>1, <1>2, LineIs
  <2>2. m + 1 \in Escaped(t) <=> m + 1 \in Escaped(w)
    <3>1. m + 1 \in 1..m + 1
      BY <1>1
    <3> QED BY <1>1, <1>2, <2>1, <3>1, SameEscapes
  <2>3. m + 2 \notin Escaped(t)
    <3>1. (m + 1) + 1 \in Escaped(t) <=> t[m + 1] = "\\" /\ m + 1 \notin Escaped(t)
      BY <1>2, EscapedIs
    <3> QED BY <1>2, <3>1
  <2> QED BY <1>4, <2>2, <2>3
<1>7. Unit(t, m + 1) = <<"\n">>
  BY <1>2, <1>6 DEF Unit
<1>8. Lex(t) = LexUnit(s, <<"\n">>, rest).out
  <2>1. LexStates(t)[m + 1] = IF (m + 1) + 1 \in Escaped(t) THEN LexStates(t)[(m + 1) - 1]
          ELSE LexUnit(LexStates(t)[(m + 1) - 1], Unit(t, m + 1), SubSeq(t, (m + 1) + 1, Len(t)))
    BY <1>2, LexIs
  <2> QED BY <1>2, <1>6, <1>7, <2>1 DEF Lex, LexState
<1> HIDE DEF s, t, rest
<1>9. Lex(t) = <<>> \o (<<Token(w, FALSE)>> \o <<Newline>>)
  <2>1. Pending(s) = <<Token(w, FALSE)>>
    BY <1>5 DEF Pending, Plain
  <2> QED BY <1>3, <1>5, <1>8, <2>1, LineEnds
<1>10. ReadBack(Lex(t), w)
  <2> DEFINE a == Token(w, FALSE)
             b == Newline
  <2>1. a \in Tokens /\ b \in Tokens /\ a.text = w
    BY TokensAre DEF Token
  <2> HIDE DEF a, b
  <2>2. <<>> \o (<<a>> \o <<b>>) = <<a, b>>
    <3>1. <<a>> \o <<b>> = <<a, b>> /\ <<a, b>> \in Seq(Tokens)
      BY <2>1, JoinTwo
    <3> QED BY <3>1, ConcatEmptySeq
  <2>3. Len(<<a, b>>) = 2 /\ <<a, b>>[1] = a /\ <<a, b>>[2] = b
    OBVIOUS
  <2> QED BY <1>9, <2>1, <2>2, <2>3 DEF ReadBack, a, b
<1> QED BY <1>10 DEF t

LEMMA Least ==
  ASSUME NEW K \in SUBSET Nat, K # {}
  PROVE  \E k \in K : \A l \in K : k <= l
<1>1. \E k \in K : \A l \in K : <<l, k>> \notin OpToRel(<, Nat)
  BY NatLessThanWellFounded, WFMin
<1>2. PICK k \in K : \A l \in K : ~(l < k)
  BY <1>1 DEF OpToRel
<1> QED BY <1>2

\* A brace ends the word it stands in.
LEMMA BareBreaks ==
  ASSUME NEW w \in Text, Plain(w), NEW i \in 1..Len(w), i \notin Escaped(w), w[i] = RightBrace
  PROVE  ~ReadBack(Lex(Line(w)), w)
<1> DEFINE t == Line(w)
           K == {j \in 1..Len(w) : j \notin Escaped(w) /\ w[j] = RightBrace}
<1>1. PICK j \in K : \A l \in K : j <= l
  <2>1. K \in SUBSET Nat /\ K # {}
    OBVIOUS
  <2> HIDE DEF K
  <2> QED BY <2>1, Least
<1> DEFINE s == LexStates(t)[j - 1]
           rest == SubSeq(t, j + 1, Len(t))
<1>2. Len(w) \in Nat /\ j \in 1..Len(w) /\ j \notin Escaped(w) /\ w[j] = RightBrace /\ j # 1
  BY <1>1, LenProperties DEF Text, Plain
<1>3. j \in Nat /\ j - 1 \in 0..Len(w) /\ j - 1 \in Nat /\ j - 1 # 0 /\ (j - 1) + 1 = j
  BY <1>2
<1>4. t \in Text /\ j \in 1..Len(t) /\ j \in 0..Len(t) /\ j - 1 \in 0..Len(t) /\ t[j] = RightBrace
  BY <1>2, LineIs
<1>5. Reading(s, w, j - 1)
  <2>1. \A l \in 1..j - 1 : l \notin Escaped(w) => w[l] # RightBrace
    BY <1>1, <1>2
  <2> QED BY <1>3, <2>1, BareRead
<1>6. s \in States
  BY <1>4, LexKeeps
<1>7. s.mode = "plain" /\ s.out = <<>> /\ s.tok = Upto(w, j - 1) /\ s.tok # <<>>
  <2>1. s.tok = Upto(w, j - 1)
    BY <1>2, <1>3, <1>5 DEF Reading, Collected
  <2>2. Len(Upto(w, j - 1)) = j - 1 /\ Len(<<>>) = 0
    BY <1>3, UptoIs
  <2> QED BY <1>3, <1>5, <2>1, <2>2 DEF Reading
<1>8. j \notin Escaped(t) /\ j + 1 \notin Escaped(t)
  <2>1. j <= Len(t) /\ j <= Len(w) /\ \A l \in 1..j : t[l] = w[l]
    BY <1>2, <1>4, LineIs
  <2>2. \A l \in 1..j + 1 : l \in Escaped(t) <=> l \in Escaped(w)
    BY <1>3, <1>4, <2>1, SameEscapes
  <2>3. j + 1 \notin Escaped(t)
    BY <1>4, EscapedIs, Characters
  <2> QED BY <1>2, <1>3, <2>2, <2>3
<1>9. LexStates(t)[j] = LexUnit(s, <<RightBrace>>, rest)
  <2>1. Unit(t, j) = <<RightBrace>>
    BY <1>4, <1>8 DEF Unit
  <2> QED BY <1>4, <1>8, <2>1, LexIs
<1>10. LexStates(t)[j].out = <<Token(s.tok, FALSE), Close>>
  <2> DEFINE a == Token(s.tok, FALSE)
  <2>1. Pending(s) = <<a>>
    BY <1>7 DEF Pending
  <2>2. a \in Tokens /\ Close \in Tokens
    <3>1. s.tok \in Text
      BY <1>6 DEF States
    <3> QED BY <3>1, TokensAre
  <2>3. LexStates(t)[j].out = <<>> \o (<<a>> \o <<Close>>)
    <3> HIDE DEF a, s, t
    <3> QED BY <1>6, <1>7, <1>9, <2>1, BraceStands
  <2>4. <<a>> \o <<Close>> = <<a, Close>> /\ <<a, Close>> \in Seq(Tokens)
    <3> HIDE DEF a
    <3> QED BY <2>2, JoinTwo
  <2> HIDE DEF a, s, t
  <2>5. LexStates(t)[j].out = <<a, Close>>
    BY <2>3, <2>4, ConcatEmptySeq
  <2> QED BY <2>5 DEF a
<1>11. Lex(t)[2] = Close
  <2>1. Grows(LexStates(t)[j].out, Lex(t))
    BY <1>4, OutKept
  <2> HIDE DEF s, t
  <2>2. Len(LexStates(t)[j].out) = 2 /\ LexStates(t)[j].out[2] = Close
    BY <1>10
  <2> QED BY <2>1, <2>2 DEF Grows
<1>12. Close # Newline
  <2>1. Close.text[1] = RightBrace /\ Newline.text[1] = "\n"
    BY DEF Close, Newline, Token
  <2> QED BY <2>1, Characters
<1> QED BY <1>11, <1>12 DEF ReadBack

\* A lone # is read as a comment, which takes the newline with it.
LEMMA HashBreaks == ~ReadBack(Lex(Line(<<"#">>)), <<"#">>)
<1> DEFINE w == <<"#">>
           t == Line(w)
<1>1. w \in Text /\ Len(w) = 1 /\ w[1] = "#"
  BY Tuples DEF Strings
<1> HIDE DEF w
<1>2. t \in Text /\ Len(t) = 2 /\ t[1] = "#" /\ t[2] = "\n"
  <2>1. 1 \in 1..Len(w) /\ Len(w) + 1 = 2
    BY <1>1
  <2> QED BY <1>1, <2>1, LineIs
<1> HIDE DEF t
<1>3. 1 \in 1..Len(t) /\ 2 \in 1..Len(t) /\ 2 - 1 = 1 /\ 1 - 1 = 0 /\ 1 + 1 = 2 /\ 2 + 1 = 3
  BY <1>2
<1>4. 1 \notin Escaped(t) /\ 2 \notin Escaped(t) /\ 3 \notin Escaped(t)
  BY <1>2, <1>3, EscapedIs
<1>5. Unit(t, 1) = <<"#">> /\ Unit(t, 2) = <<"\n">>
  BY <1>2, <1>4 DEF Unit
<1>7. LexStates(t)[1] = LexUnit(LexStart, <<"#">>, SubSeq(t, 2, Len(t)))
  <2>1. LexStates(t)[1] = LexUnit(LexStates(t)[1 - 1], Unit(t, 1), SubSeq(t, 1 + 1, Len(t)))
    BY <1>2, <1>3, <1>4, LexIs
  <2> QED BY <1>2, <1>3, <1>5, <2>1, LexIs
<1>8. LexStates(t)[2] = LexUnit(LexStates(t)[1], <<"\n">>, SubSeq(t, 3, Len(t)))
  <2>1. LexStates(t)[2] = LexUnit(LexStates(t)[2 - 1], Unit(t, 2), SubSeq(t, 2 + 1, Len(t)))
    BY <1>2, <1>3, <1>4, LexIs
  <2> QED BY <1>3, <1>5, <2>1
<1>9. Lex(t) = <<Token(<<"#">>, FALSE)>>
  BY <1>2, <1>7, <1>8, HashStands DEF Lex, LexState
<1>10. Len(Lex(t)) = 1
  BY <1>9
<1> QED BY <1>10 DEF ReadBack, t, w

-----------------------------------------------------------------------------
(* A word that is written in quotes *)

Replaces(g, w) ==
  g = [i \in 0..Len(w) |->
         IF i = 0 THEN <<>>
         ELSE g[i - 1] \o IF w[i] = Quote THEN <<"\\", Quote>> ELSE <<w[i]>>]

Piece(w, i) == IF w[i] = Quote THEN <<"\\", Quote>> ELSE <<w[i]>>

LEMMA PieceIs ==
  ASSUME NEW w \in Text, NEW i \in 1..Len(w)
  PROVE  Piece(w, i) \in Text
<1>1. w[i] \in Strings /\ "\\" \in Strings /\ Quote \in Strings
  BY ElementOfSeq DEF Text, Strings
<1> QED BY <1>1, Tuples DEF Piece

LEMMA ReplacesExist == ASSUME NEW w \in Text PROVE \E g : Replaces(g, w)
<1> DEFINE n == Len(w)
           next == [p \in Nat \X Text |-> IF p[1] \in 1..n THEN p[2] \o Piece(w, p[1]) ELSE p[2]]
<1>1. n \in Nat
  BY LenProperties DEF Text
<1>2. next \in [Nat \X Text -> Text]
  <2>1. ASSUME NEW i \in 1..n, NEW s \in Text PROVE s \o Piece(w, i) \in Text
    BY PieceIs, ConcatProperties DEF Text
  <2> QED BY <2>1
<1>3. PICK f : Recurs(f, Text, <<>>, next, n)
  <2>1. <<>> \in Text
    BY DEF Text
  <2> HIDE DEF next, n
  <2> QED BY <1>1, <1>2, <2>1, Recursion
<1>4. \A i \in 0..n : f[i] = IF i = 0 THEN <<>> ELSE f[i - 1] \o Piece(w, i)
  <2>1. f \in [0..n -> Text] /\ f[0] = <<>> /\ \A i \in 1..n : f[i] = next[<<i, f[i - 1]>>]
    BY <1>3 DEF Recurs
  <2>2. ASSUME NEW i \in 1..n PROVE f[i] = f[i - 1] \o Piece(w, i)
    <3>1. i - 1 \in 0..n /\ i \in Nat
      BY <1>1
    <3>2. <<i, f[i - 1]>> \in Nat \X Text
      BY <2>1, <3>1
    <3> QED BY <2>1, <3>2
  <2> HIDE DEF next
  <2> QED BY <1>1, <2>1, <2>2
<1>5. f = [i \in 0..n |-> IF i = 0 THEN <<>> ELSE f[i - 1] \o Piece(w, i)]
  <2>1. f = [i \in 0..n |-> f[i]]
    BY <1>3 DEF Recurs
  <2> QED BY <1>4, <2>1
<1> QED BY <1>5 DEF Replaces, Piece

LEMMA ReplacedIs ==
  ASSUME NEW w \in Text
  PROVE  /\ Replaced(w)[0] = <<>>
         /\ \A i \in 1..Len(w) : Replaced(w)[i] = Replaced(w)[i - 1] \o Piece(w, i)
         /\ \A i \in 0..Len(w) : Replaced(w)[i] \in Text
<1> DEFINE g == CHOOSE g : Replaces(g, w)
<1>1. Replaces(g, w)
  BY ReplacesExist
<1>2. Replaced(w) = g
  BY DEF Replaced, Replaces
<1>3. Len(w) \in Nat
  BY LenProperties DEF Text
<1> HIDE DEF g
<1>4. \A i \in 0..Len(w) : g[i] = IF i = 0 THEN <<>> ELSE g[i - 1] \o Piece(w, i)
  BY <1>1 DEF Replaces, Piece
<1>5. g[0] = <<>>
  BY <1>3, <1>4
<1>6. ASSUME NEW i \in 1..Len(w) PROVE g[i] = g[i - 1] \o Piece(w, i)
  <2>1. i \in 0..Len(w) /\ i # 0
    BY <1>3
  <2> QED BY <1>4, <2>1
<1>7. \A i \in 0..Len(w) : g[i] \in Text
  <2>1. \A i \in 1..Len(w) : g[i - 1] \in Text => g[i] \in Text
    BY <1>6, PieceIs, ConcatProperties DEF Text
  <2>2. g[0] \in Text
    BY <1>5 DEF Text
  <2> QED BY <1>3, <2>1, <2>2, RecursionStays
<1> QED BY <1>2, <1>5, <1>6, <1>7

LEMMA ReplacedKept ==
  ASSUME NEW w \in Text, NEW n \in 0..Len(w)
  PROVE  Grows(Replaced(w)[n], Replaced(w)[Len(w)])
<1> DEFINE g == Replaced(w)
           Done == {k \in Nat : n + k <= Len(w) => Grows(g[n], g[n + k])}
<1>1. Len(w) \in Nat /\ n \in Nat
  BY LenProperties DEF Text
<1>2. \A i \in 0..Len(w) : g[i] \in Text /\ Len(g[i]) \in Nat
  BY ReplacedIs, LenProperties DEF Text
<1>3. ASSUME NEW i \in 1..Len(w) PROVE Grows(g[i - 1], g[i])
  <2>0. g[i] = g[i - 1] \o Piece(w, i)
    BY ReplacedIs
  <2>1. i - 1 \in 0..Len(w) /\ g[i] = g[i - 1] \o Piece(w, i) /\ Piece(w, i) \in Text
    <3> HIDE DEF g
    <3> QED BY <1>1, <2>0, PieceIs
  <2>2. Len(Piece(w, i)) \in Nat
    BY <2>1, LenProperties DEF Text
  <2> HIDE DEF g
  <2> QED BY <1>2, <2>1, <2>2, ConcatProperties DEF Grows, Text
<1> HIDE DEF g
<1>4. 0 \in Done
  <2>1. n + 0 = n
    BY <1>1
  <2> QED BY <1>2, <2>1 DEF Grows
<1>5. ASSUME NEW k \in Nat, k \in Done PROVE k + 1 \in Done
  <2>1. SUFFICES ASSUME n + (k + 1) <= Len(w) PROVE Grows(g[n], g[n + (k + 1)])
    OBVIOUS
  <2>2. /\ n + (k + 1) \in 1..Len(w) /\ (n + (k + 1)) - 1 = n + k
        /\ n + k \in 0..Len(w) /\ n + (k + 1) \in 0..Len(w)
    BY <1>1, <2>1
  <2>3. Grows(g[n], g[n + k])
    BY <1>5, <2>2
  <2>4. Grows(g[n + k], g[n + (k + 1)])
    BY <1>3, <2>2
  <2> QED BY <1>2, <2>2, <2>3, <2>4 DEF Grows
<1>6. Nat \subseteq Done
  <2> HIDE DEF Done
  <2> QED BY <1>4, <1>5, SetInduction
<1>7. Len(w) - n \in Nat /\ n + (Len(w) - n) = Len(w) /\ Len(w) <= Len(w)
  BY <1>1
<1>8. Grows(g[n], g[n + (Len(w) - n)])
  BY <1>6, <1>7
<1> QED BY <1>7, <1>8 DEF g

InQuotes(word) == Line(<<Quote>> \o Replaced(word)[Len(word)] \o <<Quote>>)
\* The position of a character of the word in it.
At(word, n) == Len(Replaced(word)[n]) + 1

LEMMA InQuotesIs ==
  ASSUME NEW w \in Text
  PROVE  /\ InQuotes(w) \in Text /\ InQuotes(w)[1] = Quote /\ At(w, 0) = 1
         /\ \A n \in 0..Len(w) : At(w, n) \in Nat /\ 1 <= At(w, n) /\ At(w, n) <= At(w, Len(w))
         /\ \A n \in 1..Len(w) :
              IF w[n] = Quote
              THEN /\ At(w, n) = At(w, n - 1) + 2
                   /\ InQuotes(w)[At(w, n) - 1] = "\\" /\ InQuotes(w)[At(w, n)] = Quote
              ELSE At(w, n) = At(w, n - 1) + 1 /\ InQuotes(w)[At(w, n)] = w[n]
         /\ Len(InQuotes(w)) = At(w, Len(w)) + 2
         /\ InQuotes(w)[At(w, Len(w)) + 1] = Quote
         /\ InQuotes(w)[At(w, Len(w)) + 2] = "\n"
<1> DEFINE m == Len(w)
           r == Replaced(w)[m]
           q == <<Quote>>
           a == q \o r
           b == a \o q
           t == InQuotes(w)
<1>1. m \in Nat /\ m \in 0..m
  BY LenProperties DEF Text
<1>2. r \in Text /\ Len(r) \in Nat /\ At(w, m) = Len(r) + 1
  BY <1>1, ReplacedIs, LenProperties DEF Text, At
<1>3. q \in Text /\ Len(q) = 1 /\ q[1] = Quote
  <2>1. Quote \in Strings
    BY DEF Strings
  <2> QED BY <2>1, Tuples
<1>4. t = Line(b)
  BY DEF InQuotes
<1> HIDE DEF r, q, t, m
<1>5. /\ a \in Text /\ Len(a) = Len(r) + 1 /\ a[1] = Quote
      /\ \A i \in 1..Len(r) : a[i + 1] = r[i]
  <2>1. /\ q \o r \in Seq(Strings) /\ Len(q \o r) = Len(q) + Len(r)
        /\ \A i \in 1..Len(q) + Len(r) : (q \o r)[i] = IF i <= Len(q) THEN q[i] ELSE r[i - Len(q)]
    BY <1>2, <1>3, ConcatProperties DEF Text
  <2> QED BY <1>2, <1>3, <2>1 DEF Text
<1> HIDE DEF a
<1>6. /\ b \in Text /\ Len(b) = Len(r) + 2 /\ b[Len(r) + 2] = Quote
      /\ \A i \in 1..Len(r) + 1 : b[i] = a[i]
  <2>1. /\ a \o q \in Seq(Strings) /\ Len(a \o q) = Len(a) + Len(q)
        /\ \A i \in 1..Len(a) + Len(q) : (a \o q)[i] = IF i <= Len(a) THEN a[i] ELSE q[i - Len(a)]
    BY <1>3, <1>5, ConcatProperties DEF Text
  <2> QED BY <1>2, <1>3, <1>5, <2>1 DEF Text
<1> HIDE DEF b
<1>7. /\ t \in Text /\ Len(t) = Len(r) + 3 /\ t[Len(r) + 3] = "\n"
      /\ \A i \in 1..Len(r) + 2 : t[i] = b[i]
  BY <1>2, <1>4, <1>6, LineIs
<1>8. /\ t[1] = Quote /\ t[Len(r) + 2] = Quote
      /\ \A i \in 1..Len(r) : t[i + 1] = r[i]
  BY <1>2, <1>5, <1>6, <1>7
<1>9. At(w, 0) = 1
  <2>1. Len(<<>>) = 0
    OBVIOUS
  <2> QED BY <2>1, ReplacedIs DEF At
<1>10. ASSUME NEW n \in 0..m
       PROVE  /\ Len(Replaced(w)[n]) \in Nat /\ Len(Replaced(w)[n]) <= Len(r)
              /\ \A i \in 1..Len(Replaced(w)[n]) : t[i + 1] = Replaced(w)[n][i]
  <2>1. Replaced(w)[n] \in Text /\ Grows(Replaced(w)[n], r)
    BY ReplacedIs, ReplacedKept DEF m, r
  <2>2. Len(Replaced(w)[n]) \in Nat
    BY <2>1, LenProperties DEF Text
  <2> QED BY <1>2, <1>8, <2>1, <2>2 DEF Grows
<1>11. \A n \in 0..m : At(w, n) \in Nat /\ 1 <= At(w, n) /\ At(w, n) <= At(w, m)
  BY <1>2, <1>10 DEF At
<1>12. ASSUME NEW n \in 1..m
       PROVE  IF w[n] = Quote
              THEN At(w, n) = At(w, n - 1) + 2 /\ t[At(w, n) - 1] = "\\" /\ t[At(w, n)] = Quote
              ELSE At(w, n) = At(w, n - 1) + 1 /\ t[At(w, n)] = w[n]
  <2> DEFINE old == Replaced(w)[n - 1]
             new == Replaced(w)[n]
             piece == Piece(w, n)
  <2>1. n - 1 \in 0..m /\ n \in 0..m
    BY <1>1
  <2>2. old \in Text /\ new \in Text /\ piece \in Text /\ new = old \o piece
    BY <2>1, ReplacedIs, PieceIs DEF m
  <2>3. At(w, n - 1) = Len(old) + 1 /\ At(w, n) = Len(new) + 1
    BY DEF At
  <2>4. Len(old) \in Nat /\ Len(new) \in Nat /\ \A i \in 1..Len(new) : t[i + 1] = new[i]
    BY <1>10, <2>1
  <2>5. IF w[n] = Quote THEN piece = <<"\\", Quote>> ELSE piece = <<w[n]>>
    BY DEF Piece
  <2>6. IF w[n] = Quote THEN Len(piece) = 2 /\ piece[1] = "\\" /\ piece[2] = Quote
                        ELSE Len(piece) = 1 /\ piece[1] = w[n]
    <3> HIDE DEF piece
    <3> QED BY <2>5
  <2> HIDE DEF old, new, piece
  <2>7. /\ Len(new) = Len(old) + Len(piece)
        /\ \A i \in 1..Len(old) + Len(piece) : new[i] = IF i <= Len(old) THEN old[i] ELSE piece[i - Len(old)]
    BY <2>2, ConcatProperties DEF Text
  <2>8. CASE w[n] = Quote
    <3>0. /\ Len(old) + 1 \in 1..Len(old) + 2 /\ ~(Len(old) + 1 <= Len(old)) /\ (Len(old) + 1) - Len(old) = 1
          /\ Len(old) + 2 \in 1..Len(old) + 2 /\ ~(Len(old) + 2 <= Len(old)) /\ (Len(old) + 2) - Len(old) = 2
      BY <2>4
    <3>1. Len(new) = Len(old) + 2 /\ new[Len(old) + 1] = "\\" /\ new[Len(old) + 2] = Quote
      <4>1. Len(piece) = 2 /\ piece[1] = "\\" /\ piece[2] = Quote
        BY <2>6, <2>8
      <4> QED BY <2>7, <3>0, <4>1
    <3>2. t[(Len(old) + 1) + 1] = "\\" /\ t[(Len(old) + 2) + 1] = Quote
      BY <2>4, <3>1
    <3>3. At(w, n) = Len(old) + 3 /\ At(w, n - 1) = Len(old) + 1
      BY <2>3, <2>4, <3>1
    <3>4. At(w, n) = At(w, n - 1) + 2 /\ At(w, n) - 1 = (Len(old) + 1) + 1 /\ At(w, n) = (Len(old) + 2) + 1
      BY <2>4, <3>3
    <3> QED BY <2>8, <3>2, <3>4
  <2>9. CASE w[n] # Quote
    <3>0. Len(old) + 1 \in 1..Len(old) + 1 /\ ~(Len(old) + 1 <= Len(old)) /\ (Len(old) + 1) - Len(old) = 1
      BY <2>4
    <3>1. Len(new) = Len(old) + 1 /\ new[Len(old) + 1] = w[n]
      <4>1. Len(piece) = 1 /\ piece[1] = w[n]
        BY <2>6, <2>9
      <4> QED BY <2>7, <3>0, <4>1
    <3>2. t[(Len(old) + 1) + 1] = w[n]
      BY <2>4, <3>1
    <3>3. At(w, n) = At(w, n - 1) + 1 /\ At(w, n) = (Len(old) + 1) + 1
      BY <2>3, <2>4, <3>1
    <3> QED BY <2>9, <3>2, <3>3
  <2> QED BY <2>8, <2>9
<1>13. Len(t) = At(w, m) + 2 /\ t[At(w, m) + 1] = Quote /\ t[At(w, m) + 2] = "\n"
  <2>1. At(w, m) + 1 = Len(r) + 2 /\ At(w, m) + 2 = Len(r) + 3
    BY <1>2
  <2> QED BY <1>7, <1>8, <2>1
<1> QED BY <1>7, <1>8, <1>9, <1>11, <1>12, <1>13 DEF t, m

\* Inside of the quotes: the word is collected, and what is escaped in it is
\* what was.
Inside(w, n) ==
  LET t == InQuotes(w)
      s == LexStates(t)[At(w, n)]
  IN /\ s.mode = Quote /\ s.out = <<>> /\ s.tok = Collected(w, n)
     /\ At(w, n) + 1 \in Escaped(t) <=> n + 1 \in Escaped(w)

\* One step of the lexer, at a position and on a unit that are known.
LEMMA StepAt ==
  ASSUME NEW t \in Text, NEW i \in 1..Len(t), i + 1 \notin Escaped(t)
  PROVE  /\ i \notin Escaped(t) =>
              LexStates(t)[i] = LexUnit(LexStates(t)[i - 1], <<t[i]>>, SubSeq(t, i + 1, Len(t)))
         /\ i \in Escaped(t) =>
              LexStates(t)[i] = LexUnit(LexStates(t)[i - 1], <<"\\", t[i]>>, SubSeq(t, i + 1, Len(t)))
BY LexIs DEF Unit

LEMMA SkipAt ==
  ASSUME NEW t \in Text, NEW i \in 1..Len(t), i + 1 \in Escaped(t)
  PROVE  LexStates(t)[i] = LexStates(t)[i - 1]
BY LexIs

LEMMA InsideStarts == ASSUME NEW w \in Text PROVE Inside(w, 0)
<1> DEFINE t == InQuotes(w)
<1>1. t \in Text /\ t[1] = Quote /\ At(w, 0) = 1 /\ Len(t) \in Nat /\ 1 \in 1..Len(t) /\ 0 \in 0..Len(w)
  <2>1. Len(w) \in Nat
    BY LenProperties DEF Text
  <2>2. 0 \in 0..Len(w)
    BY <2>1
  <2>3. At(w, Len(w)) \in Nat /\ Len(t) = At(w, Len(w)) + 2
    BY <2>1, InQuotesIs
  <2> HIDE DEF t
  <2>4. Len(t) \in Nat /\ 1 \in 1..Len(t)
    BY <2>3
  <2> QED BY <2>2, <2>4, InQuotesIs DEF t
<1> HIDE DEF t
<1>2. 1 \notin Escaped(t) /\ 1 + 1 \notin Escaped(t) /\ 0 + 1 \notin Escaped(w)
  BY <1>1, EscapedIs, Characters
<1>3. LexStates(t)[1] = LexUnit(LexStates(t)[1 - 1], <<Quote>>, SubSeq(t, 1 + 1, Len(t)))
  BY <1>1, <1>2, StepAt
<1>4. LexStates(t)[1 - 1] = LexStart
  <2>1. 1 - 1 = 0
    OBVIOUS
  <2> QED BY <1>1, <2>1, LexIs
<1>5. LexStates(t)[1].mode = Quote /\ LexStates(t)[1].tok = <<>> /\ LexStates(t)[1].out = <<>>
  BY <1>3, <1>4, StartState, QuoteOpens
<1>6. Collected(w, 0) = <<>>
  BY <1>2, UptoNone DEF Collected
<1> QED BY <1>1, <1>2, <1>5, <1>6 DEF Inside, t

LEMMA InsideStep ==
  ASSUME NEW w \in Text, NEW n \in 1..Len(w), Inside(w, n - 1),
         ~(n \in Escaped(w) /\ w[n] = Quote)
  PROVE  Inside(w, n)
<1> DEFINE t == InQuotes(w)
           p == At(w, n - 1)
           q == At(w, n)
           s == LexStates(t)[p]
           r == LexStates(t)[q]
<1>1. /\ Len(w) \in Nat /\ n \in Nat /\ n - 1 \in 0..Len(w) /\ n \in 0..Len(w) /\ (n - 1) + 1 = n
      /\ Len(w) \in 0..Len(w) /\ (n - 1) - 1 = n - 2
  BY LenProperties DEF Text
<1>2. t \in Text /\ p \in Nat /\ q \in Nat /\ 1 <= p /\ 1 <= q /\ q + 2 <= Len(t) /\ Len(t) \in Nat
  <2>1. At(w, Len(w)) \in Nat /\ p \in Nat /\ q \in Nat /\ 1 <= p /\ 1 <= q
        /\ q <= At(w, Len(w)) /\ Len(t) = At(w, Len(w)) + 2 /\ t \in Text
    BY <1>1, InQuotesIs
  <2> HIDE DEF t, p, q
  <2> QED BY <2>1
<1>3. IF w[n] = Quote THEN q = p + 2 /\ t[q - 1] = "\\" /\ t[q] = Quote
                      ELSE q = p + 1 /\ t[q] = w[n]
  BY InQuotesIs
<1>4. /\ s.mode = Quote /\ s.out = <<>> /\ s.tok = Upto(w, IF n \in Escaped(w) THEN n - 2 ELSE n - 1)
      /\ p + 1 \in Escaped(t) <=> n \in Escaped(w)
  BY <1>1 DEF Inside, Collected
<1>5. n + 1 \in Escaped(w) <=> w[n] = "\\" /\ n \notin Escaped(w)
  BY EscapedIs
<1>6. SUFFICES /\ r.mode = Quote /\ r.out = <<>> /\ r.tok = Collected(w, n)
               /\ q + 1 \in Escaped(t) <=> n + 1 \in Escaped(w)
  BY DEF Inside
<1> HIDE DEF t, p, q
<1>7. s \in States /\ q \in 1..Len(t) /\ w[n] \in Strings
  <2>1. p \in 0..Len(t) /\ q \in 1..Len(t)
    BY <1>2, <1>3
  <2> QED BY <1>2, <2>1, LexKeeps, ElementOfSeq DEF Text
<1>8. q + 1 \in Escaped(t) <=> t[q] = "\\" /\ q \notin Escaped(t)
  BY <1>2, <1>7, EscapedIs
<1>9. CASE w[n] = Quote
  <2>1. n \notin Escaped(w) /\ n + 1 \notin Escaped(w) /\ p + 1 \notin Escaped(t)
    BY <1>4, <1>5, <1>9, Characters
  <2>2. q = p + 2 /\ q - 1 = p + 1 /\ p + 1 \in 1..Len(t) /\ (p + 1) + 1 = q /\ (p + 1) - 1 = p
    BY <1>2, <1>3, <1>9
  <2>3. q \in Escaped(t)
    <3>1. t[p + 1] = "\\"
      BY <1>3, <1>9, <2>2
    <3> QED BY <1>2, <2>1, <2>2, <3>1, EscapedIs
  <2>4. q + 1 \notin Escaped(t)
    BY <1>8, <2>3
  <2>5. LexStates(t)[p + 1] = s
    BY <1>2, <2>2, <2>3, SkipAt
  <2> DEFINE unit == <<"\\", Quote>>
             rest == SubSeq(t, q + 1, Len(t))
  <2>6. r = LexUnit(s, unit, rest)
    <3>1. t[q] = Quote
      BY <1>3, <1>9
    <3> QED BY <1>2, <1>7, <2>2, <2>3, <2>4, <2>5, <3>1, StepAt
  <2>7. unit \in Units /\ unit # <<Quote>>
    <3>1. "\\" \in Strings /\ Quote \in Strings
      BY DEF Strings
    <3>2. unit # <<>> /\ unit # <<Quote>>
      OBVIOUS
    <3> QED BY <3>1, <3>2, Tuples DEF Units
  <2> HIDE DEF unit, rest, s, r
  <2>8. r.mode = Quote /\ r.out = s.out /\ r.tok = s.tok \o <<Quote>>
    BY <1>4, <1>7, <2>6, <2>7, QuoteGoesOn DEF unit
  <2>9. s.tok \o <<Quote>> = Collected(w, n)
    BY <1>4, <1>9, <2>1, UptoOne DEF Collected
  <2> QED BY <1>4, <2>1, <2>4, <2>8, <2>9
<1>10. CASE w[n] # Quote
  <2>1. q = p + 1 /\ t[q] = w[n] /\ q - 1 = p
    BY <1>2, <1>3, <1>10
  <2>2. q \in Escaped(t) <=> n \in Escaped(w)
    BY <1>4, <2>1
  <2>3. q + 1 \in Escaped(t) <=> n + 1 \in Escaped(w)
    BY <1>5, <1>8, <2>1, <2>2
  <2>4. CASE n + 1 \in Escaped(w)
    <3>1. r = s
      BY <1>2, <1>7, <2>1, <2>3, <2>4, SkipAt
    <3>2. Collected(w, n) = Upto(w, n - 1) /\ n \notin Escaped(w)
      BY <1>5, <2>4 DEF Collected
    <3> HIDE DEF r, s
    <3> QED BY <1>4, <2>3, <3>1, <3>2
  <2>5. CASE n + 1 \notin Escaped(w)
    <3> DEFINE unit == IF n \in Escaped(w) THEN <<"\\", w[n]>> ELSE <<w[n]>>
               rest == SubSeq(t, q + 1, Len(t))
    <3>1. r = LexUnit(s, unit, rest)
      BY <1>2, <1>7, <2>1, <2>2, <2>3, <2>5, StepAt
    <3>2. unit \in Units /\ unit # <<Quote>> /\ unit # <<"\\", Quote>>
      <4>1. "\\" \in Strings
        BY DEF Strings
      <4>2. <<"\\", w[n]>> # <<"\\", Quote>> /\ <<w[n]>> # <<Quote>>
        BY <1>10
      <4>3. <<"\\", w[n]>> # <<Quote>> /\ <<w[n]>> # <<"\\", Quote>> /\ <<w[n]>> # <<>> /\ <<"\\", w[n]>> # <<>>
        OBVIOUS
      <4> QED BY <1>7, <4>1, <4>2, <4>3, Tuples DEF Units
    <3>3. s.tok \o unit = Upto(w, n) /\ Collected(w, n) = Upto(w, n)
      <4>1. CASE n \in Escaped(w)
        <5>1. n # 1
          BY <4>1, EscapedIs
        <5>2. n \in 2..Len(w) /\ n - 1 \in 1..Len(w)
          BY <1>1, <5>1
        <5>3. w[n - 1] = "\\"
          BY <1>1, <4>1, <5>2, EscapedIs
        <5> QED BY <1>4, <2>5, <4>1, <5>2, <5>3, UptoTwo DEF Collected
      <4>2. CASE n \notin Escaped(w)
        BY <1>4, <2>5, <4>2, UptoOne DEF Collected
      <4> QED BY <4>1, <4>2
    <3> HIDE DEF unit, rest, r, s
    <3>4. r.mode = Quote /\ r.out = s.out /\ r.tok = s.tok \o unit
      BY <1>4, <1>7, <3>1, <3>2, QuoteGoesOn
    <3> QED BY <1>4, <2>3, <3>3, <3>4
  <2> QED BY <2>4, <2>5
<1> QED BY <1>9, <1>10

\* Up to its first escaped quote.
LEMMA InsideRead ==
  ASSUME NEW w \in Text, NEW n \in 0..Len(w),
         \A i \in 1..n : ~(i \in Escaped(w) /\ w[i] = Quote)
  PROVE  Inside(w, n)
<1> DEFINE Done == {k \in Nat : k \in 0..n => Inside(w, k)}
<1>1. Len(w) \in Nat
  BY LenProperties DEF Text
<1>2. 0 \in Done
  BY InsideStarts
<1>3. ASSUME NEW k \in Nat, k \in Done PROVE k + 1 \in Done
  <2>1. SUFFICES ASSUME k + 1 \in 0..n PROVE Inside(w, k + 1)
    OBVIOUS
  <2>2. k \in 0..n /\ k + 1 \in 1..n /\ k + 1 \in 1..Len(w) /\ (k + 1) - 1 = k
    BY <1>1, <2>1
  <2>3. Inside(w, k)
    BY <1>3, <2>2
  <2> QED BY <2>2, <2>3, InsideStep
<1>4. Nat \subseteq Done
  <2> HIDE DEF Done
  <2> QED BY <1>2, <1>3, SetInduction
<1>5. n \in Nat /\ n \in 0..n
  BY <1>1
<1> QED BY <1>4, <1>5

\* Where the word ends: the text of two more characters.
LEMMA AtEnd ==
  ASSUME NEW w \in Text
  PROVE  LET t == InQuotes(w)
             e == At(w, Len(w))
         IN /\ t \in Text /\ e \in Nat /\ Len(t) = e + 2 /\ e + 1 \in 1..Len(t) /\ e + 2 \in 1..Len(t)
            /\ e \in 0..Len(t) /\ (e + 1) - 1 = e /\ (e + 2) - 1 = e + 1 /\ (e + 1) + 1 = e + 2
            /\ t[e + 1] = Quote /\ t[e + 2] = "\n"
            /\ e + 2 \notin Escaped(t) /\ (e + 2) + 1 \notin Escaped(t)
            /\ Lex(t) = LexStates(t)[e + 2].out
<1> DEFINE t == InQuotes(w)
           e == At(w, Len(w))
<1>1. t \in Text /\ e \in Nat /\ Len(t) = e + 2 /\ t[e + 1] = Quote /\ t[e + 2] = "\n"
  <2>1. Len(w) \in 0..Len(w)
    BY LenProperties DEF Text
  <2> QED BY <2>1, InQuotesIs
<1> HIDE DEF t, e
<1>2. /\ e + 1 \in 1..Len(t) /\ e + 2 \in 1..Len(t) /\ e \in 0..Len(t)
      /\ (e + 1) - 1 = e /\ (e + 2) - 1 = e + 1 /\ (e + 1) + 1 = e + 2
  BY <1>1
<1>3. e + 2 \notin Escaped(t) /\ (e + 2) + 1 \notin Escaped(t)
  <2>1. e + 2 \notin Escaped(t)
    <3>1. (e + 1) + 1 \in Escaped(t) <=> t[e + 1] = "\\" /\ e + 1 \notin Escaped(t)
      BY <1>1, <1>2, EscapedIs
    <3> QED BY <1>1, <1>2, <3>1, Characters
  <2>2. (e + 2) + 1 \in Escaped(t) <=> t[e + 2] = "\\" /\ e + 2 \notin Escaped(t)
    BY <1>1, <1>2, EscapedIs
  <2> QED BY <1>1, <2>1, <2>2
<1>4. Lex(t) = LexStates(t)[e + 2].out
  BY <1>1 DEF Lex, LexState
<1> QED BY <1>1, <1>2, <1>3, <1>4 DEF t, e

LEMMA QuotedSurvives ==
  ASSUME NEW w \in Text, ~Lone(w), \A i \in 1..Len(w) : ~(i \in Escaped(w) /\ w[i] = Quote)
  PROVE  ReadBack(Lex(InQuotes(w)), w)
<1> DEFINE t == InQuotes(w)
           e == At(w, Len(w))
           s == LexStates(t)[e]
           r == LexStates(t)[e + 1]
           a == Token(w, TRUE)
           b == Newline
           none == <<>>
<1>1. /\ t \in Text /\ e \in Nat /\ Len(t) = e + 2 /\ e + 1 \in 1..Len(t) /\ e + 2 \in 1..Len(t)
      /\ e \in 0..Len(t) /\ (e + 1) - 1 = e /\ (e + 2) - 1 = e + 1 /\ (e + 1) + 1 = e + 2
      /\ t[e + 1] = Quote /\ t[e + 2] = "\n"
      /\ e + 2 \notin Escaped(t) /\ (e + 2) + 1 \notin Escaped(t)
      /\ Lex(t) = LexStates(t)[e + 2].out
  BY AtEnd
<1>2. s.mode = Quote /\ s.out = none /\ s.tok = w /\ e + 1 \notin Escaped(t)
  <2>1. Len(w) \in 0..Len(w)
    BY LenProperties DEF Text
  <2>2. Inside(w, Len(w))
    BY <2>1, InsideRead
  <2>3. Collected(w, Len(w)) = w
    BY UptoAll DEF Collected, Lone
  <2> QED BY <2>2, <2>3 DEF Inside, Lone
<1> HIDE DEF t, e
<1>3. s \in States /\ r \in States /\ a \in Tokens /\ b \in Tokens /\ a.text = w
  <2>1. e + 1 \in 0..Len(t)
    BY <1>1
  <2> QED BY <1>1, <2>1, LexKeeps, TokensAre DEF Token
<1>4. r = LexUnit(s, <<Quote>>, SubSeq(t, (e + 1) + 1, Len(t)))
  BY <1>1, <1>2, StepAt
<1>5. LexStates(t)[e + 2] = LexUnit(r, <<"\n">>, SubSeq(t, (e + 2) + 1, Len(t)))
  BY <1>1, StepAt
<1> HIDE DEF s, r, a, b, none
<1>6. r.mode = "plain" /\ r.tok = <<>> /\ r.out = none \o <<a>>
  BY <1>2, <1>3, <1>4, QuoteCloses DEF a
<1>7. Pending(r) = none
  BY <1>6 DEF Pending, none
<1>8. Lex(t) = (none \o <<a>>) \o (none \o <<b>>)
  BY <1>1, <1>3, <1>5, <1>6, <1>7, LineEnds DEF b
<1>9. (none \o <<a>>) \o (none \o <<b>>) = <<a, b>>
  <2>1. <<a>> \in Seq(Tokens) /\ <<b>> \in Seq(Tokens)
    BY <1>3, Tuples
  <2>2. none \o <<a>> = <<a>> /\ none \o <<b>> = <<b>>
    BY <2>1, ConcatEmptySeq DEF none
  <2> QED BY <1>3, <2>2, JoinTwo
<1>10. Len(<<a, b>>) = 2 /\ <<a, b>>[1] = a /\ <<a, b>>[2] = b
  OBVIOUS
<1> QED BY <1>3, <1>8, <1>9, <1>10 DEF ReadBack, t, b

\* A lone backslash escapes the closing quote.
LEMMA LoneBreaks ==
  ASSUME NEW w \in Text, Lone(w), \A i \in 1..Len(w) : ~(i \in Escaped(w) /\ w[i] = Quote)
  PROVE  ~ReadBack(Lex(InQuotes(w)), w)
<1> DEFINE t == InQuotes(w)
           e == At(w, Len(w))
           s == LexStates(t)[e]
           r == LexStates(t)[e + 1]
           none == <<>>
           unit == <<"\\", Quote>>
           newline == <<"\n">>
<1>1. /\ t \in Text /\ e \in Nat /\ Len(t) = e + 2 /\ e + 1 \in 1..Len(t) /\ e + 2 \in 1..Len(t)
      /\ e \in 0..Len(t) /\ (e + 1) - 1 = e /\ (e + 2) - 1 = e + 1 /\ (e + 1) + 1 = e + 2
      /\ t[e + 1] = Quote /\ t[e + 2] = "\n"
      /\ e + 2 \notin Escaped(t) /\ (e + 2) + 1 \notin Escaped(t)
      /\ Lex(t) = LexStates(t)[e + 2].out
  BY AtEnd
<1>2. s.mode = Quote /\ s.out = none /\ e + 1 \in Escaped(t)
  <2>1. Len(w) \in 0..Len(w)
    BY LenProperties DEF Text
  <2>2. Inside(w, Len(w))
    BY <2>1, InsideRead
  <2> QED BY <2>2 DEF Inside, Lone
<1> HIDE DEF t, e
<1>3. s \in States /\ r \in States
  <2>1. e + 1 \in 0..Len(t)
    BY <1>1
  <2> QED BY <1>1, <2>1, LexKeeps
<1>4. r = LexUnit(s, unit, SubSeq(t, (e + 1) + 1, Len(t)))
  BY <1>1, <1>2, StepAt
<1>5. LexStates(t)[e + 2] = LexUnit(r, newline, SubSeq(t, (e + 2) + 1, Len(t)))
  BY <1>1, StepAt
<1>6. unit \in Units /\ unit # <<Quote>> /\ newline \in Units /\ newline # <<Quote>>
  <2>1. "\\" \in Strings /\ Quote \in Strings /\ "\n" \in Strings
    BY DEF Strings
  <2>2. unit # <<>> /\ unit # <<Quote>> /\ newline # <<>> /\ newline # <<Quote>>
    BY Characters
  <2> QED BY <2>1, <2>2, Tuples DEF Units
<1> HIDE DEF s, r, none, unit, newline
<1> DEFINE behind == SubSeq(t, (e + 1) + 1, Len(t))
<1> HIDE DEF behind
<1>7. r.mode = Quote /\ r.out = none
  <2>1. LexUnit(s, unit, behind).mode = Quote /\ LexUnit(s, unit, behind).out = s.out
    BY <1>2, <1>3, <1>6, QuoteGoesOn
  <2>2. r = LexUnit(s, unit, behind)
    BY <1>4 DEF behind
  <2> QED BY <1>2, <2>1, <2>2
<1> DEFINE rest == SubSeq(t, (e + 2) + 1, Len(t))
<1> HIDE DEF rest
<1>8. Lex(t) = none
  <2>1. LexUnit(r, newline, rest).out = r.out
    BY <1>3, <1>6, <1>7, QuoteGoesOn
  <2>2. LexStates(t)[e + 2] = LexUnit(r, newline, rest)
    BY <1>5 DEF rest
  <2> QED BY <1>1, <1>7, <2>1, <2>2
<1>9. Len(Lex(t)) = 0
  BY <1>8 DEF none
<1> QED BY <1>9 DEF ReadBack, t

\* An escaped quote is escaped again, which leaves it bare: it closes the quotes.
LEMMA QuoteBreaks ==
  ASSUME NEW w \in Text, NEW i \in 1..Len(w), i \in Escaped(w), w[i] = Quote
  PROVE  ~ReadBack(Lex(InQuotes(w)), w)
<1> DEFINE t == InQuotes(w)
           K == {j \in 1..Len(w) : j \in Escaped(w) /\ w[j] = Quote}
<1>1. PICK n \in K : \A l \in K : n <= l
  <2>1. K \in SUBSET Nat /\ K # {}
    OBVIOUS
  <2> HIDE DEF K
  <2> QED BY <2>1, Least
<1>2. /\ Len(w) \in Nat /\ n \in 1..Len(w) /\ n \in Escaped(w) /\ w[n] = Quote
      /\ n # 1 /\ n \in 2..Len(w) /\ n \in Nat /\ (n - 1) + 1 = n /\ (n - 1) - 1 = n - 2
      /\ n - 1 \in 0..Len(w) /\ n - 2 \in 0..Len(w) /\ n - 1 \in Nat
  <2>1. Len(w) \in Nat /\ n \in 1..Len(w) /\ n \in Escaped(w) /\ w[n] = Quote /\ n # 1
    BY <1>1, LenProperties, EscapedIs DEF Text
  <2> QED BY <2>1
<1> DEFINE p == At(w, n - 1)
           q == At(w, n)
           s == LexStates(t)[p]
           r == LexStates(t)[p + 1]
           unit == <<"\\", "\\">>
           pre == Upto(w, n - 2)
           none == <<>>
<1>3. t \in Text /\ p \in Nat /\ 1 <= p /\ q = p + 2 /\ q \in 1..Len(t) /\ p + 1 \in 1..Len(t) /\ p \in 0..Len(t)
      /\ (p + 1) - 1 = p /\ q - 1 = p + 1 /\ (p + 1) + 1 = q /\ t[p + 1] = "\\" /\ t[q] = Quote
  <2>1. t \in Text /\ p \in Nat /\ 1 <= p /\ q \in Nat /\ q <= At(w, Len(w)) /\ Len(t) = At(w, Len(w)) + 2
        /\ At(w, Len(w)) \in Nat
    <3>1. n \in 0..Len(w) /\ Len(w) \in 0..Len(w)
      BY <1>2
    <3> QED BY <1>2, <3>1, InQuotesIs
  <2>2. q = p + 2 /\ t[q - 1] = "\\" /\ t[q] = Quote
    BY <1>2, InQuotesIs
  <2> HIDE DEF t, p, q
  <2>3. q - 1 = p + 1 /\ q \in 1..Len(t) /\ p + 1 \in 1..Len(t) /\ p \in 0..Len(t)
        /\ (p + 1) - 1 = p /\ (p + 1) + 1 = q
    BY <2>1, <2>2
  <2> QED BY <2>1, <2>2, <2>3
<1>4. s.mode = Quote /\ s.out = none /\ s.tok = pre /\ p + 1 \in Escaped(t)
  <2>1. \A l \in 1..n - 1 : ~(l \in Escaped(w) /\ w[l] = Quote)
    BY <1>1, <1>2
  <2>2. Inside(w, n - 1)
    BY <1>2, <2>1, InsideRead
  <2> QED BY <1>2, <2>2 DEF Inside, Collected
<1> HIDE DEF t, p, q
<1>5. q \notin Escaped(t) /\ q + 1 \notin Escaped(t)
  <2>1. (p + 1) + 1 \in Escaped(t) <=> t[p + 1] = "\\" /\ p + 1 \notin Escaped(t)
    BY <1>3, EscapedIs
  <2>2. q + 1 \in Escaped(t) <=> t[q] = "\\" /\ q \notin Escaped(t)
    BY <1>3, EscapedIs
  <2> QED BY <1>3, <1>4, <2>1, <2>2, Characters
<1>6. s \in States /\ r \in States /\ LexStates(t)[q] \in States
  <2>1. p + 1 \in 0..Len(t) /\ q \in 0..Len(t)
    BY <1>3
  <2> QED BY <1>3, <2>1, LexKeeps
<1>7. r = LexUnit(s, unit, SubSeq(t, (p + 1) + 1, Len(t)))
  BY <1>3, <1>4, <1>5, StepAt
<1>8. LexStates(t)[q] = LexUnit(r, <<Quote>>, SubSeq(t, q + 1, Len(t)))
  BY <1>3, <1>5, StepAt
<1>9. unit \in Units /\ unit # <<Quote>> /\ unit # <<"\\", Quote>>
  <2>1. "\\" \in Strings
    BY DEF Strings
  <2>2. unit # <<>> /\ unit # <<Quote>> /\ unit # <<"\\", Quote>>
    BY Characters
  <2> QED BY <2>1, <2>2, Tuples DEF Units
<1>10. Len(unit) = 2 /\ unit[1] = "\\" /\ unit[2] = "\\" /\ unit \in Text
  BY <1>9 DEF Units
<1>11. pre \in Text /\ Len(pre) = n - 2
  BY <1>2, UptoIs
<1> HIDE DEF s, r, unit, pre, none
<1>12. r.mode = Quote /\ r.out = none /\ r.tok = pre \o unit
  BY <1>4, <1>6, <1>7, <1>9, QuoteGoesOn
<1> DEFINE a == Token(pre \o unit, TRUE)
<1>13. LexStates(t)[q].out = <<a>>
  <2>1. LexStates(t)[q].out = none \o <<a>>
    BY <1>6, <1>8, <1>12, QuoteCloses
  <2>2. pre \o unit \in Text
    BY <1>10, <1>11, ConcatProperties DEF Text
  <2>3. <<a>> \in Seq(Tokens)
    BY <2>2, TokensAre, Tuples
  <2> HIDE DEF a
  <2> QED BY <2>1, <2>3, ConcatEmptySeq DEF none
<1>14. Lex(t)[1] = a
  <2>1. Grows(LexStates(t)[q].out, Lex(t))
    <3>1. q \in 0..Len(t)
      BY <1>3
    <3> QED BY <1>3, <3>1, OutKept
  <2> HIDE DEF a
  <2>2. Len(<<a>>) = 1 /\ <<a>>[1] = a
    OBVIOUS
  <2> QED BY <1>13, <2>1, <2>2 DEF Grows
<1>15. a.text # w
  <2>1. (pre \o unit)[n] = "\\"
    <3>1. \A l \in 1..Len(pre) + Len(unit) :
            (pre \o unit)[l] = IF l <= Len(pre) THEN pre[l] ELSE unit[l - Len(pre)]
      BY <1>10, <1>11, ConcatProperties DEF Text
    <3>2. n \in 1..Len(pre) + Len(unit) /\ ~(n <= Len(pre)) /\ n - Len(pre) = 2
      BY <1>2, <1>10, <1>11
    <3> QED BY <1>10, <3>1, <3>2
  <2>2. a.text = pre \o unit
    BY DEF Token
  <2> HIDE DEF a
  <2> QED BY <1>2, <2>1, <2>2, Characters
<1> HIDE DEF a
<1> QED BY <1>14, <1>15 DEF ReadBack, t

-----------------------------------------------------------------------------
(* A word is read back as it was after the builder has written it, quoted   *)
(* or bare, unless it is fragile; and then it is not: of every word.        *)
THEOREM EveryWord == \A w \in Text : Survives(w) <=> ~Fragile(w)
<1>1. SUFFICES ASSUME NEW w \in Text PROVE Survives(w) <=> ~Fragile(w)
  OBVIOUS
<1>2. Survives(w) <=> ReadBack(Lex(Line(_enquote(w))), w)
  BY DEF Survives, ReadBack, Line
<1>3. CASE _needs_quotes(w)
  <2>1. Line(_enquote(w)) = InQuotes(w)
    BY <1>3 DEF _enquote, InQuotes
  <2>2. Fragile(w) <=> Lone(w) \/ \E i \in 1..Len(w) : i \in Escaped(w) /\ w[i] = Quote
    BY <1>3 DEF Fragile
  <2> QED BY <1>2, <2>1, <2>2, QuotedSurvives, LoneBreaks, QuoteBreaks
<1>4. CASE ~_needs_quotes(w)
  <2>1. _enquote(w) = w
    BY <1>4 DEF _enquote
  <2>2. Fragile(w) <=> w = <<"#">> \/ \E i \in 1..Len(w) : i \notin Escaped(w) /\ w[i] = RightBrace
    BY <1>4 DEF Fragile
  <2>3. CASE w = <<"#">>
    BY <1>2, <2>1, <2>2, <2>3, HashBreaks
  <2>4. CASE w # <<"#">>
    <3>1. Plain(w)
      BY <1>4, <2>4, BareIsPlain
    <3> QED BY <1>2, <2>1, <2>2, <2>4, <3>1, BareSurvives, BareBreaks
  <2> QED BY <2>3, <2>4
<1> QED BY <1>3, <1>4

\* The file, until it is written back, is what was written to it.
FileIsText == alphabet \in Alphabets /\ renders \in Nat /\ (renders = 0 => file \in Text)

LEMMA FileStaysText == Spec => []FileIsText
<1>1. Init => FileIsText
  BY DEF Init, FileIsText, Text
<1>2. FileIsText /\ [Next]_vars => FileIsText'
  <2>1. SUFFICES ASSUME FileIsText, [Next]_vars PROVE FileIsText'
    OBVIOUS
  <2>2. CASE \E piece \in alphabet : Write(piece)
    <3>1. PICK piece \in alphabet : Write(piece)
      BY <2>2
    <3>2. piece \in Text
      <4>1. piece \in Seq(STRING)
        BY <2>1, AlphabetsAssumption DEF FileIsText
      <4>2. STRING \subseteq Strings
        BY DEF Strings
      <4> QED BY <4>1, <4>2, SeqMonotonic DEF Text
    <3>3. file \in Text
      BY <2>1, <3>1 DEF FileIsText, Write
    <3>4. file \o piece \in Text
      BY <3>2, <3>3, ConcatProperties DEF Text
    <3> QED BY <2>1, <3>1, <3>4 DEF FileIsText, Write
  <2>3. CASE Render
    BY <2>1, <2>3 DEF FileIsText, Render
  <2>4. CASE UNCHANGED vars
    BY <2>1, <2>4 DEF FileIsText, vars
  <2> QED BY <2>1, <2>2, <2>3, <2>4 DEF Next
<1> QED BY <1>1, <1>2, PTL DEF Spec

(* Whatever the file in the archive is made of, and whatever the program    *)
(* makes of it: of the words the lexer finds in it, exactly the fragile     *)
(* ones do not survive being written.                                       *)
THEOREM FileWordsSurvive == Spec => []WordsSurvive
<1>1. FileIsText => WordsSurvive
  BY EveryWord, WordsAreText DEF FileIsText, WordsSurvive
<1> QED BY <1>1, FileStaysText, PTL
=============================================================================
