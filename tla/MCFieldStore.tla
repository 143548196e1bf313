---------------------------- MODULE MCFieldStore -----------------------------
(* Instances for TLC: arguments of which one is the beginning of the other,   *)
(* in two files.                                                              *)
EXTENDS FieldStore, TLC

X == <<<<"x">>>>
XY == <<<<"x">>, <<"y">>>>
MCArgs == {X, XY}
MCFileOrder == <<"bigip", "profile_base">>
In(file, args) == [args |-> args, file |-> file]
MCDisks ==
  {("bigip" :> b) @@ ("profile_base" :> c) :
     b \in {<<>>, <<In("bigip", XY), In("bigip", Comment)>>},
     c \in {<<>>, <<In("profile_base", X)>>}}
\* Of the two files the one with "file" in its name is always found, be it empty.
HasFile == {"profile_base"}
MCFound == {HasFile, ToSet(MCFileOrder)}
===============================================================================
