------------------------------ MODULE FieldList -------------------------------
(***************************************************************************)
(* What a configuration promises to the plugins: an ordered list of the    *)
(* statements of all files, that is searched from the top, changed in      *)
(* place and written back file by file, in order.  How the lookups are     *)
(* made fast is the matter of FieldStore, which implements this module.    *)
(***************************************************************************)
EXTENDS Naturals, Sequences, SequencesExt

CONSTANTS Args,         \* the arguments a statement may have, sequences of words
          FileOrder,    \* the files, in the order they are read
          MaxFields     \* bound: statements in all files

VARIABLES list,         \* the statements: arguments and file
          saved,        \* what each file holds, as sequences of statements
          answer        \* what the searches of the last step found

vars == <<list, saved, answer>>

Files == ToSet(FileOrder)
Comment == <<<<"#">>>>
Statement == [args : Args \cup {Comment}, file : Files]
IdOf(args) == FlattenSeq(args)          \* words joined by spaces
Listed == {s.args : s \in ToSet(list)} \ {Comment}
ReadAll(files) == FlattenSeq([i \in 1..Len(FileOrder) |-> files[FileOrder[i]]])
\* "Will only work with the assumption that keys will be unique" (config.py:448)
Unused(args) == IdOf(args) \notin {IdOf(a) : a \in Listed}

Init ==
  /\ saved \in [Files -> Seq(Statement)]
  /\ list = ReadAll(saved)
  /\ answer = <<>>

Insert(i, s) ==
  /\ Len(list) < MaxFields /\ (s.args # Comment => Unused(s.args))
  /\ list' = InsertAt(list, i, s)
  /\ answer' = <<>> /\ UNCHANGED saved

Delete(i) ==
  /\ list' = RemoveAt(list, i)
  /\ answer' = <<>> /\ UNCHANGED saved

Change(i, args) ==
  /\ Unused(args)
  /\ list' = [list EXCEPT ![i].args = args]
  /\ answer' = <<>> /\ UNCHANGED saved

CommentOut(i, n) ==
  /\ Len(list) + n <= MaxFields
  /\ list' = SubSeq(list, 1, i - 1)
             \o [k \in 1..n |-> [args |-> Comment, file |-> list[i].file]]
             \o SubSeq(list, i + 1, Len(list))
  /\ answer' = <<>> /\ UNCHANGED saved

Queries == (UNION {Prefixes(args) : args \in Args}) \ {<<>>}
Search ==
  /\ answer' = [q \in Queries |-> [all |-> {args \in Listed : IsPrefix(q, args)},
                                  one |-> {args \in Listed : IdOf(args) = IdOf(q)}]]
  /\ UNCHANGED <<list, saved>>

\* The statements of a file, in order.
Of(file) ==
  FlattenSeq([i \in 1..Len(list) |-> IF list[i].file = file THEN <<list[i]>> ELSE <<>>])
\* Without a set of files, all are written.
Save(files) ==
  /\ saved' = [f \in Files |-> IF files = {} \/ f \in files
                               THEN Of(f) ELSE saved[f]]
  /\ answer' = <<>> /\ UNCHANGED list

Load ==
  /\ list' = ReadAll(saved)
  /\ answer' = <<>> /\ UNCHANGED saved

Next ==
  \/ \E i \in 1..MaxFields, s \in Statement : i <= Len(list) + 1 /\ Insert(i, s)
  \/ \E i \in 1..Len(list) :
       \/ Delete(i)
       \/ \E args \in Args : Change(i, args)
       \/ \E n \in 1..MaxFields : CommentOut(i, n)
  \/ \E files \in SUBSET Files : Save(files)
  \/ Search \/ Load

Spec == Init /\ [][Next]_vars
===============================================================================
