----------------------------- MODULE ConfFormat -----------------------------
(***************************************************************************)
(* How a configuration file is read and written back: the parser turns the *)
(* words that the lexer of ConfText finds into statements, the builder     *)
(* turns statements into text.  MC modules give WrittenBack the value      *)
(* build_files.                                                            *)
(***************************************************************************)
EXTENDS ConfText

LISTTYPES == {[object |-> <<"m">>, field |-> <<"l">>]}
-----------------------------------------------------------------------------
(* parser/parser.py.  Braces are counted while the parser pulls tokens; one *)
(* too many or too few makes it drop all it has parsed of the file.         *)
Count(toks, token) == Len(SelectSeq(toks, LAMBDA t : t = token))
_balance_braces(toks) ==
  /\ \A n \in 1..Len(toks) : Count(SubSeq(toks, 1, n), Close) <= Count(SubSeq(toks, 1, n), Open)
  /\ Count(toks, Close) = Count(toks, Open)

\* block and comment are sequences of at most one element: None or the value.
Stmt(args, block) == [args |-> args, block |-> block, comment |-> <<>>]
(* Mutant: the # stays in the comment. *)
CommentStmt_hash(token) ==
  [args |-> <<<<"#">>>>, block |-> <<>>, comment |-> <<token.text>>]
CommentStmt(token) ==
  [args |-> <<<<"#">>>>, block |-> <<>>, comment |-> <<Tail(token.text)>>]

Parsed(stmts, next) == [ok |-> TRUE, stmts |-> stmts, next |-> next]
Unreadable == [ok |-> FALSE, stmts |-> <<>>, next |-> 0]
Prepend(stmts, rest) == IF rest.ok THEN [rest EXCEPT !.stmts = stmts \o @] ELSE Unreadable

(* The statements of a block from token i up to its closing brace.  The     *)
(* arguments of a statement end at the first newline or brace that is not   *)
(* quoted; without one the tokens run out, which ends the whole parse.  A   *)
(* comment swallows its newline, so arguments go on behind it.              *)
RECURSIVE _parse(_, _)
_parse(toks, i) ==
  IF i > Len(toks) \/ toks[i] = Close THEN Parsed(<<>>, i + 1)
  ELSE IF toks[i].text = Newline.text THEN _parse(toks, i + 1)
  ELSE IF IsComment(toks[i]) THEN Prepend(<<CommentStmt(toks[i])>>, _parse(toks, i + 1))
  ELSE
    LET unnamed == toks[i].text = Open.text
        first == IF unnamed THEN i ELSE i + 1
        ends == {j \in first..Len(toks) : toks[j] \in {Open, Close, Newline}}
    IN IF ends = {} THEN Unreadable ELSE
    LET end == CHOOSE j \in ends : \A k \in ends : j <= k
        words == SubSeq(toks, first, end - 1)
        named == IF unnamed THEN <<>> ELSE <<toks[i]>>
        args == [k \in 1..Len(named \o SelectSeq(words, LAMBDA t : ~IsComment(t))) |->
                   (named \o SelectSeq(words, LAMBDA t : ~IsComment(t)))[k].text]
        comments == SelectSeq(words, IsComment)
        inner == IF toks[end] = Open THEN _parse(toks, end + 1) ELSE Parsed(<<>>, end + 1)
        block == IF toks[end] = Open THEN <<inner.stmts>> ELSE <<>>
        stmts == <<Stmt(args, block)>> \o [k \in 1..Len(comments) |-> CommentStmt(comments[k])]
    IN IF ~inner.ok THEN Unreadable
       ELSE Prepend(stmts, IF toks[end] = Close THEN Parsed(<<>>, end + 1)
                           ELSE _parse(toks, inner.next))

(* The errors are put in the payload, which no caller looks at.             *)
parse(text) ==
  LET toks == Lex(text)
  IN IF _balance_braces(toks) THEN _parse(toks, 1) ELSE Unreadable
-----------------------------------------------------------------------------
(* parser/builder.py.  A text that could not be built is Raised. *)
Join(words) == FlattenSeq([i \in 1..Len(words) |->
                             (IF i = 1 THEN <<>> ELSE <<" ">>) \o words[i]])

IsList(object, args) ==
  \E l \in LISTTYPES : IsPrefix(l.object, object) /\ IsPrefix(l.field, FlattenSeq(args))
_build_blob(block) ==
  IF block = <<>> \/ block[1].args = <<>> THEN Raised ELSE block[1].args[1]

RECURSIVE _build_block(_, _, _, _, _)
BuildStmt(stmt, depth, object) ==
  LET args == [i \in 1..Len(stmt.args) |-> _enquote(stmt.args[i])]
      words == Join(args)
      list == depth > 0 /\ IsList(object, args)
      blob == depth = 0 /\ stmt.args # <<>> /\ Front(stmt.args) \in BLOBTYPES
      head == words \o (IF words = <<>> THEN <<"{">> ELSE <<" ", "{">>)
              \o (IF list THEN <<" ">> ELSE <<>>)
      block == stmt.block[1]
      body == IF blob THEN _build_blob(block)
              ELSE _build_block(block, depth + 1, IF depth = 0 THEN words ELSE object, ~list, head)
      tail == IF blob THEN <<>> ELSE IF block = <<>> \/ list THEN <<" ">>
              ELSE <<"\n">> \o [i \in 1..depth |-> " "]
  IN IF args # <<>> /\ args[1] = <<"#">>
     THEN IF stmt.comment = <<>> THEN Raised ELSE <<"#">> \o stmt.comment[1]
     ELSE IF stmt.block = <<>> THEN words
     ELSE IF body = Raised THEN Raised
     ELSE (IF blob THEN head \o body ELSE body) \o tail \o <<"}">>

\* Every statement goes to a line of its own, indented, unless in a list.
_build_block(block, depth, object, newlines, output) ==
  LET margin == <<"\n">> \o [i \in 1..depth |-> " "]
      Add(out, stmt) ==
        LET built == BuildStmt(stmt, depth, object) IN
        IF Raised \in {out, built} THEN Raised
        ELSE out \o (IF out # <<>> /\ newlines THEN margin ELSE <<>>) \o built
  IN FoldLeft(Add, output, block)
build(stmts) == _build_block(stmts, 0, <<>>, TRUE, <<>>)

RECURSIVE RStrip(_)
RStrip(text) == IF text # <<>> /\ Last(text) \in Space THEN RStrip(Front(text)) ELSE text
(* build_files: the file is opened when its text is complete. *)
build_files(text) ==
  LET output == build(parse(text).stmts)
  IN IF output = Raised THEN Raised ELSE RStrip(output) \o <<"\n">>
=============================================================================
