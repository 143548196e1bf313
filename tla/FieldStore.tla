------------------------------ MODULE FieldStore ------------------------------
(***************************************************************************)
(* The statements of a configuration as the program keeps them: a list of  *)
(* dicts, a tree of their arguments and a map of their ids, which every    *)
(* change of the list has to keep in step.  A dict is a number; the fields *)
(* that refer to it do so by that number.                                  *)
(***************************************************************************)
EXTENDS Naturals, Sequences, SequencesExt, Functions

CONSTANTS Args,         \* arguments of statements, sequences of words
          FileOrder,    \* the files, in the order parse_dir looks for them
          NamedFile,    \* those of them that have "file" in their name
          Disks,        \* what the files the program finds may hold
          Found,        \* the sets of files it may find, some of them empty
          MaxFields,    \* bound: dicts
          None

Files == ToSet(FileOrder)
Comment == <<<<"#">>>>
Dicts == 1..MaxFields
Statement == [args : Args \cup {Comment}, file : Files]
IdOf(args) == FlattenSeq(args)
Queries == (UNION {Prefixes(args) : args \in Args}) \ {<<>>}
_combine_fields(files) == FlattenSeq([i \in 1..Len(FileOrder) |-> files[FileOrder[i]]])

\* "Will only work with the assumption that keys will be unique" (config.py:448)
KeysUnique(statements) ==
  \A i, j \in DOMAIN statements :
    /\ Comment \notin {statements[i].args, statements[j].args}
    /\ IdOf(statements[i].args) = IdOf(statements[j].args)
    => i = j
Readable(files) ==
  Len(_combine_fields(files)) <= MaxFields /\ KeysUnique(_combine_fields(files))

\* Only a comment begins like one, and what is in a file on disk is of that file.
ASSUME FieldAssumption ==
  /\ MaxFields \in Nat /\ None \notin Dicts \cup Statement
  /\ FileOrder \in Seq(Files) /\ NamedFile \subseteq Files /\ Found \subseteq SUBSET Files
  /\ \A args \in Args : args \in Seq(ToSet(args)) \ {<<>>}
  /\ \A query \in Queries : query[1] # Comment[1] /\ IdOf(query) # IdOf(Comment)
  /\ \A d \in Disks :
       /\ d \in [Files -> Seq(Statement)] /\ Readable(d)
       /\ \A f \in Files : d[f] \in Seq({t \in Statement : t.file = f})

VARIABLES store,        \* Config and its FastFieldCollection
          disk,         \* the statements each file holds
          present,      \* the files there are, with or without statements
          answer        \* what the searches of the last step found

vars == <<store, disk, present, answer>>

Extend(f, x, y) == [z \in DOMAIN f \cup {x} |-> IF z = x THEN y ELSE f[z]]
Without(f, S) == Restrict(f, DOMAIN f \ S)
-----------------------------------------------------------------------------
(* FastFieldCollection.  The tree is the function from the paths that have  *)
(* a node to the value of the node.                                         *)
_tree_insert(tree, args, f) ==
  [p \in DOMAIN tree \cup Prefixes(args) |->
     IF p = args THEN f ELSE IF p \in DOMAIN tree THEN tree[p] ELSE None]

\* Mutant: the branch goes without a look at the values of its nodes.
_tree_delete_branch(tree, args) ==
  LET Childless(p) == \A q \in DOMAIN tree : IsPrefix(p, q) => IsPrefix(q, args)
  IN Without([tree EXCEPT ![args] = None], {p \in Prefixes(args) \ {<<>>} : Childless(p)})

\* From the leaf upwards, nodes without value and children go.
_tree_delete(tree, args) ==
  LET cleared == [tree EXCEPT ![args] = None]
      Empty(p) == \A q \in DOMAIN tree :
                    IsPrefix(p, q) => IsPrefix(q, args) /\ cleared[q] = None
  IN Without(cleared, {p \in Prefixes(args) \ {<<>>} : Empty(p)})

get_all(s, prefix) ==
  {s.tree[p] : p \in {p \in DOMAIN s.tree : IsPrefix(prefix, p)}} \ {None}
get(s, id) == IF id \in DOMAIN s.idmap THEN {s.idmap[id]} ELSE {}

\* list.index() compares dicts by content, identity first.
IndexOf(s, f) ==
  SelectInSeq(s.data, LAMBDA g : s.dict[g] = s.dict[f])
NewDict(s) == CHOOSE f \in Dicts : s.dict[f] = None

add_data(s, f, statement, index) ==
  [s EXCEPT !.dict[f] = statement,
            !.data = InsertAt(@, index, f),
            !.tree = _tree_insert(@, statement.args, f),
            !.idmap = Extend(@, IdOf(statement.args), f)]

\* A KeyError of the tree or of the map leaves what was done before it.
remove(s, f) ==
  LET args == s.dict[f].args IN
  IF args \notin DOMAIN s.tree THEN [s EXCEPT !.raised = TRUE]
  ELSE IF IdOf(args) \notin DOMAIN s.idmap
  THEN [s EXCEPT !.tree = _tree_delete(@, args), !.raised = TRUE]
  ELSE [s EXCEPT !.tree = _tree_delete(@, args),
                 !.idmap = Without(@, {IdOf(args)}),
                 !.data = RemoveAt(@, IndexOf(s, f)),
                 !.dict[f] = None]

\* Mutant: the id that leaves the map is the new one.
update_new_id(s, f, args) ==
  LET old == s.dict[f].args
      t == [s EXCEPT !.dict[f].args = args,
                     !.tree = _tree_insert(_tree_delete(@, old), args, f)]
  IN IF IdOf(args) \notin DOMAIN s.idmap THEN [t EXCEPT !.raised = TRUE]
     ELSE [t EXCEPT !.idmap = Extend(Without(@, {IdOf(args)}), IdOf(args), f)]

\* The dict has its new arguments before the lookups are changed.
update(s, f, args) ==
  LET old == s.dict[f].args
      t == [s EXCEPT !.dict[f].args = args]
  IN
  IF old \notin DOMAIN s.tree THEN [t EXCEPT !.raised = TRUE]
  ELSE LET u == [t EXCEPT !.tree = _tree_insert(_tree_delete(@, old), args, f)] IN
    IF IdOf(old) \notin DOMAIN s.idmap THEN [u EXCEPT !.raised = TRUE]
    ELSE [u EXCEPT !.idmap = Extend(Without(@, {IdOf(old)}), IdOf(args), f)]

insert_before(s, f, g, args) ==
  add_data(s, g, [args |-> args, file |-> s.dict[f].file], IndexOf(s, f))
insert_after(s, f, g, args) ==
  add_data(s, g, [args |-> args, file |-> s.dict[f].file], IndexOf(s, f) + 1)

\* One comment for each of the n lines of the text of the field.
convert_to_comments(s, f, n) ==
  LET commented[k \in 0..n] ==
        IF k = 0 THEN s
        ELSE insert_before(commented[k - 1], f, NewDict(commented[k - 1]), Comment)
  IN remove(commented[n], f)
-----------------------------------------------------------------------------
(* Config *)
\* Of two fields with the same arguments the later one is found.
from_dir(files, there) ==
  LET all == _combine_fields(files)
      fields == {f \in 1..Len(all) : all[f].args # Comment}
      With(args) == {f \in fields : all[f].args = args}
      WithId(id) == {f \in fields : IdOf(all[f].args) = id}
  IN [dict   |-> [f \in Dicts |-> IF f <= Len(all) THEN all[f] ELSE None],
      data   |-> [i \in 1..Len(all) |-> i],
      tree   |-> [p \in {<<>>} \cup UNION {Prefixes(all[f].args) : f \in fields} |->
                    IF With(p) = {} THEN None ELSE Max(With(p))],
      idmap  |-> [id \in {IdOf(all[f].args) : f \in fields} |-> Max(WithId(id))],
      files  |-> there,
      raised |-> FALSE]

\* A file that was not read is added, unless the KeyError that tells of it has
\* "file" in it: then the statement is taken for one without a file.
Known(s) == s.files \cup ({s.dict[f].file : f \in ToSet(s.data)} \ NamedFile)
_rebuild_data(s) ==
  [file \in Known(s) |->
     FlattenSeq([i \in 1..Len(s.data) |->
                   LET item == s.dict[s.data[i]]
                   IN IF item.file = file THEN <<item>> ELSE <<>>])]

\* Mutant: a file that has no statement left is not written.
build_nonempty(s, files) ==
  [f \in Files |-> IF f \in Known(s) /\ (files = {} \/ f \in files) /\ _rebuild_data(s)[f] # <<>>
                   THEN _rebuild_data(s)[f] ELSE disk[f]]
ToWrite(s, files) == {f \in Known(s) : files = {} \/ f \in files}
build(s, files) ==
  [f \in Files |-> IF f \in ToWrite(s, files) THEN _rebuild_data(s)[f] ELSE disk[f]]
-----------------------------------------------------------------------------
Init ==
  /\ disk \in Disks /\ present \in Found
  /\ {f \in Files : disk[f] # <<>>} \subseteq present
  /\ store = from_dir(disk, present)
  /\ answer = <<>>

Ready == ~store.raised
Full == Len(store.data) = MaxFields
Fields == {f \in ToSet(store.data) : store.dict[f].args # Comment}
ArgsOf(fields) == {store.dict[f].args : f \in fields}
\* "Will only work with the assumption that keys will be unique" (config.py:448)
New(args) == IdOf(args) \notin {IdOf(a) : a \in ArgsOf(Fields)}
Change(s) == Ready /\ store' = s /\ answer' = <<>> /\ UNCHANGED <<disk, present>>

Add(args, file, index) ==
  ~Full /\ New(args) /\ Change(add_data(store, NewDict(store), [args |-> args, file |-> file], index))
InsertBefore(f, args) ==
  ~Full /\ New(args) /\ Change(insert_before(store, f, NewDict(store), args))
InsertAfter(f, args) ==
  ~Full /\ New(args) /\ Change(insert_after(store, f, NewDict(store), args))
InsertComment(f) == ~Full /\ Change(insert_before(store, f, NewDict(store), Comment))
Delete(f) == Change(remove(store, f))
SetArgs(f, args) == New(args) /\ Change(update(store, f, args))
ConvertToComments(f, n) ==
  Len(store.data) + n <= MaxFields /\ Change(convert_to_comments(store, f, n))
\* The plugins look for types, that is for what the arguments begin with, and
\* for single objects.
Search ==
  /\ Ready
  /\ answer' = [q \in Queries |-> [all |-> ArgsOf(get_all(store, q)),
                                  one |-> ArgsOf(get(store, IdOf(q)))]]
  /\ UNCHANGED <<store, disk, present>>

Build(files) ==
  /\ Ready
  /\ disk' = build(store, files)
  /\ present' = present \cup ToWrite(store, files)
  /\ store' = [store EXCEPT !.files = Known(store)]
  /\ answer' = <<>>
\* A file that was not written may still hold what was moved to another one.
Read == Readable(disk) /\ Change(from_dir(disk, present))

Next ==
  \/ \E args \in Args :
       \/ \E file \in Files, index \in 1..Len(store.data) + 1 : Add(args, file, index)
       \/ \E f \in Fields : InsertBefore(f, args) \/ InsertAfter(f, args) \/ SetArgs(f, args)
  \/ \E f \in Fields :
       \/ InsertComment(f) \/ Delete(f)
       \/ \E n \in 1..MaxFields : ConvertToComments(f, n)
  \/ \E files \in SUBSET Files : Build(files)
  \/ Search \/ Read

Spec == Init /\ [][Next]_vars
-----------------------------------------------------------------------------
(* The tree has a path for every field and no other, the map an id; they    *)
(* lead to the dict of the field.  Comments the program has added share one *)
(* path and one id, those it has read have none.                            *)
IndexExact ==
  LET tree == Without(store.tree, {Comment})
      idmap == Without(store.idmap, {IdOf(Comment)})
  IN /\ DOMAIN tree = {<<>>} \cup UNION {Prefixes(a) : a \in ArgsOf(Fields)}
     /\ \A p \in DOMAIN tree :
          tree[p] = IF p \in ArgsOf(Fields)
                    THEN CHOOSE f \in Fields : store.dict[f].args = p ELSE None
     /\ DOMAIN idmap = {IdOf(a) : a \in ArgsOf(Fields)}
     /\ \A f \in Fields : idmap[IdOf(store.dict[f].args)] = f

(* No lookup that a change has to bring up to date is missing: a field can  *)
(* be deleted, changed and commented out in any order.                      *)
NeverRaises == Ready

(* The collection is the list of statements it promises to be: what the     *)
(* tree and the map find is what a search of the list would find, comments  *)
(* and changes go where they belong, and the files hold what the list does. *)
Listing(s) == [i \in 1..Len(s.data) |-> s.dict[s.data[i]]]
List == INSTANCE FieldList WITH list <- Listing(store), saved <- disk
ImplementsList == List!Spec
===============================================================================
