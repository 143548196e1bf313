------------------------------ MODULE ConfText ------------------------------
(***************************************************************************)
(* The text of a configuration file, which the archive holds and the       *)
(* program replaces by what it builds from what it read: how the lexer     *)
(* takes words out of it and how the builder quotes a word.                *)
(* A text is a sequence of characters; letters stand for words (m the name *)
(* of a tmsh module, r with it an iRule), any other letter for the rest.   *)
(* Nothing here is recursive but functions over positions: what is said of *)
(* every word is proved.                                                   *)
(***************************************************************************)
EXTENDS Naturals, Sequences, SequencesExt

CONSTANTS Alphabets,      \* sets of pieces of text, one of which a file is made of
          MaxPieces,      \* bound: pieces a file is made of, by alphabet
          MaxRenders,     \* bound: times a file is written back
          OtherSpace,     \* whitespace (str.isspace) besides blank and newline
          WrittenBack(_)  \* what read_config() and render() make of a text

ASSUME AlphabetsAssumption == \A a \in Alphabets : a \subseteq Seq(STRING)

VARIABLES alphabet,     \* the pieces this file is made of
          original,     \* the file in the archive, as a sequence of pieces
          file,         \* the file in the working tree
          renders,      \* how often it was written back
          failed        \* the builder raised, and with it the command

vars == <<alphabet, original, file, renders, failed>>

\* Characters by name, where what is proved depends on which they are.
Blank == " "
Quote == "\""
LeftBrace == "{"
RightBrace == "}"
ASSUME OtherSpaceAssumption ==
  OtherSpace \cap {Quote, "'", LeftBrace, RightBrace, "#", ";", "|", "\\", "escaped"} = {}
Space == {Blank, "\n"} \cup OtherSpace
Raised == <<"raised">>
-----------------------------------------------------------------------------
(* parser/const.py, cut down to one entry of each table. *)
BLOBTYPES == {<<<<"m">>, <<"r">>>>}
MODULES == {<<"m">>}

Token(text, quoted) == [text |-> text, quoted |-> quoted]
Open == Token(<<LeftBrace>>, FALSE)
Close == Token(<<RightBrace>>, FALSE)
Newline == Token(<<"\n">>, FALSE)

(* The positions behind a backslash: it and the character there are one    *)
(* unit.  With the position behind the text, its last backslash is lone.   *)
Escaped(text) ==
  LET escaped[i \in 1..Len(text) + 1] ==
        IF i = 1 THEN FALSE ELSE text[i - 1] = "\\" /\ ~escaped[i - 1]
  IN {i \in 1..Len(text) + 1 : escaped[i]}
Lone(text) == Len(text) + 1 \in Escaped(text)
\* The unit that ends at a position.
Unit(text, i) == IF i \in Escaped(text) THEN <<"\\", text[i]>> ELSE <<text[i]>>

(* What is read inside of an iRule, without its closing brace: the text is  *)
(* cut at its last brace, and again while a comment ends it, one character  *)
(* at a time where no brace is left.  A text of one line is searched for a  *)
(* comment in its last character: rfind() answers -1.                       *)
DropComments(text) ==
  LET cuts == {k \in 0..Len(text) - 1 :
                 text[k + 1] = RightBrace \/ \A i \in 1..k + 1 : text[i] # RightBrace}
      EndsInComment(k) ==
        \E i \in 1..k : /\ text[i] = "#"
                        /\ \A j \in i..k : text[j] # "\n"
                        /\ i = k \/ \E j \in 1..i : text[j] = "\n"
      cut == CHOOSE k \in cuts : /\ ~EndsInComment(k)
                                 /\ \A l \in cuts : l > k => EndsInComment(l)
  IN SubSeq(text, 1, cut)

StartsBlob(field) ==
  \E b \in BLOBTYPES : Len(b) < Len(field) /\ IsPrefix(b, field)
(* Mutant: an iRule is followed by anything. *)
AtModule_never(rest) == FALSE
AtModule(rest) == \E m \in MODULES : IsPrefix(Append(m, Blank), rest)

(* What the lexer keeps between two units: what it is inside of, the token *)
(* it collects, the words of the statement so far, the tokens it yielded.  *)
LexStart == [mode |-> "plain", tok |-> <<>>, field |-> <<>>, out |-> <<>>]
Yield(s, toks) == [s EXCEPT !.out = @ \o toks, !.tok = <<>>, !.mode = "plain"]
(* Mutant: a word that a brace or newline ends is forgotten. *)
Pending_forgotten(s) == <<>>
Pending(s) == IF s.tok = <<>> THEN <<>> ELSE <<Token(s.tok, FALSE)>>

LexBlob(s, unit, rest) ==
  LET text == s.tok \o unit IN
  IF rest \in {<<>>, <<"\\">>} \/ (unit = <<"\n">> /\ AtModule(rest))
  THEN Yield(s, <<Token(DropComments(text), FALSE), Close, Newline>>)
  ELSE [s EXCEPT !.tok = text]

LexComment(s, unit) ==
  IF Last(unit) = "\n"
  THEN [Yield(s, <<Token(s.tok, FALSE)>>) EXCEPT !.field = <<>>]
  ELSE [s EXCEPT !.tok = @ \o unit]

LexQuoted(s, unit) ==
  IF unit = <<s.mode>> THEN Yield(s, <<Token(s.tok, TRUE)>>)
  ELSE [s EXCEPT !.tok = @ \o IF unit = <<"\\", s.mode>> THEN <<s.mode>> ELSE unit]

LexPlain(s, unit) ==
  LET c == IF Len(unit) = 1 THEN unit[1] ELSE "escaped"
      words == s.field \o (IF s.tok = <<>> THEN <<>> ELSE <<s.tok>>)
  IN
  CASE c = "\n" -> [Yield(s, Pending(s) \o <<Newline>>) EXCEPT !.field = <<>>]
    [] c \in Space \ {"\n"} -> [Yield(s, Pending(s)) EXCEPT !.field = words]
    [] c = "#" /\ s.tok = <<>> -> [s EXCEPT !.mode = "comment", !.tok = unit]
    [] c \in {Quote, "'"} -> [s EXCEPT !.mode = c]
    [] c \in {LeftBrace, RightBrace} ->
         [Yield(s, Pending(s) \o <<Token(unit, FALSE)>>) EXCEPT !.field = <<>>,
            !.mode = IF c = LeftBrace /\ StartsBlob(s.field) THEN "blob" ELSE "plain"]
    [] OTHER -> [s EXCEPT !.tok = @ \o unit]

LexUnit(s, unit, rest) ==
  CASE s.mode = "blob" -> LexBlob(s, unit, rest)
    [] s.mode = "comment" -> LexComment(s, unit)
    [] s.mode \in {Quote, "'"} -> LexQuoted(s, unit)
    [] OTHER -> LexPlain(s, unit)

(* The lexer behind each character.  The generator ends with the text: what *)
(* it was still collecting is lost, like a lone backslash.                  *)
LexStates(text) ==
  LET escaped == Escaped(text)
      state[i \in 0..Len(text)] ==
        IF i = 0 THEN LexStart
        ELSE IF i + 1 \in escaped THEN state[i - 1]
        ELSE LexUnit(state[i - 1], Unit(text, i), SubSeq(text, i + 1, Len(text)))
  IN state
LexState(text) == LexStates(text)[Len(text)]
Lex(text) == LexState(text).out

IsComment(token) == ~token.quoted /\ token.text # <<>> /\ Head(token.text) = "#"
Words(text) ==
  {t.text : t \in {t \in ToSet(Lex(text)) : t \notin {Open, Close, Newline} /\ ~IsComment(t)}}
-----------------------------------------------------------------------------
(* parser/builder.py. *)
\* What a word that is not in quotes cannot have but behind a backslash.
Bare == Space \cup {LeftBrace, Quote, "'", "#", ";", "|"}
(* Mutant: braces are written bare. *)
_needs_quotes_braces(word) ==
  \/ word = <<>> \/ Lone(word)
  \/ /\ word # <<"#">>
     /\ \E i \in 1..Len(word) : i \notin Escaped(word) /\ word[i] \in Bare \ {LeftBrace}
_needs_quotes(word) ==
  /\ word # <<"#">>
  /\ \/ word = <<>> \/ Lone(word)
     \/ Head(word) \in Bare \cup {RightBrace}
     \/ \E i \in 2..Len(word) : i \notin Escaped(word) /\ word[i] \in Bare
     \* behind a backslash that is not the first character
     \/ \E i \in 3..Len(word) : i \in Escaped(word) /\ word[i] \in {LeftBrace, RightBrace}

\* arg.replace('"', '\\"'), up to each position
Replaced(word) ==
  LET replaced[i \in 0..Len(word)] ==
        IF i = 0 THEN <<>>
        ELSE replaced[i - 1] \o IF word[i] = Quote THEN <<"\\", Quote>> ELSE <<word[i]>>
  IN replaced
_enquote(word) ==
  IF ~_needs_quotes(word) THEN word
  ELSE <<Quote>> \o Replaced(word)[Len(word)] \o <<Quote>>
-----------------------------------------------------------------------------
Init ==
  /\ alphabet \in Alphabets
  /\ original = <<>> /\ file = <<>>
  /\ renders = 0 /\ failed = FALSE

(* The archive, written by the BIG-IP and by its administrators.  External. *)
Write(piece) ==
  /\ renders = 0 /\ ~failed /\ Len(original) < MaxPieces[alphabet]
  /\ original' = Append(original, piece)
  /\ file' = file \o piece
  /\ UNCHANGED <<alphabet, renders, failed>>

(* read_config() and render(): of the reformat commit, and of every         *)
(* mitigation branch after it.                                              *)
Render ==
  /\ renders < MaxRenders /\ ~failed
  /\ LET output == WrittenBack(file) IN
     IF output = Raised THEN failed' = TRUE /\ UNCHANGED <<file, renders>>
     ELSE file' = output /\ renders' = renders + 1 /\ UNCHANGED failed
  /\ UNCHANGED <<alphabet, original>>

Next == (\E piece \in alphabet : Write(piece)) \/ Render

Spec == Init /\ [][Next]_vars
-----------------------------------------------------------------------------
Survives(word) ==
  LET toks == Lex(Append(_enquote(word), "\n"))
  IN Len(toks) = 2 /\ toks[1].text = word /\ toks[2] = Newline

\* Written bare although it holds a brace or is a lone #, or written in quotes
\* although it holds an escaped quote or ends in a backslash.
Fragile(word) ==
  IF _needs_quotes(word)
  THEN Lone(word) \/ \E i \in 1..Len(word) : i \in Escaped(word) /\ word[i] = Quote
  ELSE word = <<"#">> \/ \E i \in 1..Len(word) : i \notin Escaped(word) /\ word[i] = RightBrace

(* A word the lexer has found is read back as it was after the builder has  *)
(* written it, quoted or bare, but for exactly the fragile ones.            *)
WordsSurvive == renders = 0 => \A w \in Words(file) : Survives(w) <=> ~Fragile(w)
=============================================================================
