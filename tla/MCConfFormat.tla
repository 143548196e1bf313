---------------------------- MODULE MCConfFormat ----------------------------
(* A configuration for TLC: files of the characters that matter for quoting, *)
(* of words, braces and comments, of lines of iRules and of lines of lists.  *)
EXTENDS ConfFormat

Quoting == {<<"a">>, <<" ">>, <<"\n">>, <<"\"">>, <<"\\">>, <<"}">>, <<"{">>}
Marks == {<<"a">>, <<";">>, <<"|">>, <<"\t">>, <<"\"">>, <<"\\">>, <<"}">>}
Blocks == {<<"a">>, <<"b", " ">>, <<"\n">>, <<"{">>, <<"}">>, <<"#">>}
Rule == <<"m", " ", "r", " ", "a", " ", "{", "\n">>
End == <<"}", "\n">>
Rules == {Rule, End, <<"m", " ", "b", " ", "{", "\n">>, <<"a", " ", "{", "\n">>,
          <<"a", "\n">>, <<"#", "}", "\n">>}
Lists == {<<"m", " ", "{", "\n">>, <<"l", " ", "{">>, <<"a", " ">>, <<"#">>, End, <<"\n">>}
Text(pieces) == FlattenSeq(pieces)

MCAlphabets == {Quoting, Marks, Blocks, Rules, Lists}
MCMaxPieces == [a \in MCAlphabets |-> IF a \in {Quoting, Marks} THEN 5 ELSE 6]
Tab == {"\t"}

\* For the run that looks for a file that is not written back the same.
BareAlphabets == {Quoting \ {<<"\\">>}}
BareMaxPieces == [a \in BareAlphabets |-> 6]
-----------------------------------------------------------------------------
(* The file was read to its end, and is what a BIG-IP may write.            *)
Complete(text) ==
  /\ parse(text).ok
  /\ LET end == LexState(text) IN end.mode = "plain" /\ end.tok = <<>>
  /\ ~Lone(text)

IsBlobType(args) == \E b \in BLOBTYPES : IsPrefix(b, args)
\* Every iRule has one name and is not inside of another statement; every list
\* is on one line, without comments.
RECURSIVE Regular(_, _, _)
Regular(stmts, depth, object) ==
  \A s \in {s \in ToSet(stmts) : s.block # <<>>} :
    IF depth = 0 /\ IsBlobType(s.args)
    THEN Len(s.args) = 3 /\ s.block[1] # <<>> /\ s.block[1][1].comment = <<>>
    ELSE /\ ~IsBlobType(s.args)
         /\ depth > 0 /\ IsList(object, s.args) =>
              Len(s.block[1]) <= 1 /\ \A x \in ToSet(s.block[1]) : x.comment = <<>>
         /\ Regular(s.block[1], depth + 1, IF depth = 0 THEN Join(s.args) ELSE object)

Ordinary(text) ==
  LET stmts == parse(text).stmts IN
  /\ Complete(text) /\ Regular(stmts, 0, <<>>)
  /\ \A w \in Words(text) : Survives(w)
  /\ LET output == build(stmts) IN output # <<>> => Last(output) \notin Space

\* Behind the last brace of an iRule is the next object, or the end.
RulesEnd == \A i \in 1..Len(original) :
  Rule \in ToSet(SubSeq(original, 1, i)) /\ (i = Len(original) \/ Head(original[i + 1]) = "m")
    => original[i] = End
-----------------------------------------------------------------------------
(* What is parsed from a file the program has written is what was parsed    *)
(* from the file it has read: statements, their order, nesting, arguments   *)
(* and comments.                                                            *)
ContentKept ==
  renders = 1 /\ Ordinary(Text(original)) =>
    parse(file) = [parse(Text(original)) EXCEPT !.next = parse(file).next]

(* No word, comment or brace is lost, and none added, whatever the lexer    *)
(* made of the file.                                                        *)
NothingLost ==
  renders = 1 /\ Ordinary(Text(original)) /\ (alphabet = Rules => RulesEnd) =>
    \A c \in {"a", "b", "m", "r", "l", "#", "{", "}"} :
      Len(SelectSeq(file, LAMBDA d : d = c)) = Len(SelectSeq(Text(original), LAMBDA d : d = c))

(* No object is taken for a part of the iRule before it: every line that    *)
(* starts with the name of a module is a statement of its own.              *)
RECURSIVE StatementsOf(_, _)
StatementsOf(module, stmts) ==
  LET Add(n, s) == n + (IF s.args # <<>> /\ IsPrefix(module, s.args) THEN 1 ELSE 0)
                     + (IF s.block = <<>> THEN 0 ELSE StatementsOf(module, s.block[1]))
  IN FoldLeft(Add, 0, stmts)
ObjectsSeen ==
  renders = 0 /\ alphabet = Rules /\ RulesEnd /\ Ordinary(file) =>
    StatementsOf(<<<<"m">>>>, parse(file).stmts)
      = Len(SelectSeq(original, LAMBDA p : Head(p) = "m"))

(* "rebuilding config changes the formatting slightly - do it here so that  *)
(* later diffs are clean" (controller.py:100): a file that was written back *)
(* once is written back the same again.                                     *)
LaterDiffsClean == renders > 1 /\ Complete(Text(original)) => file = build_files(Text(original))
=============================================================================
