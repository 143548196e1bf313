------------------------------ MODULE ChangeLog ------------------------------
(***************************************************************************)
(* What a migration promises to its user: a baseline, the changes applied  *)
(* to it, and the one conflict that is being resolved.  Changes are only   *)
(* ever added, unless the user asks to go back to before one of them.  How *)
(* commits, branches, a shelf and a working tree keep that promise is the  *)
(* matter of Migration, which implements this module, crashes included.    *)
(***************************************************************************)
EXTENDS Naturals

CONSTANTS Conflicts,    \* the conflicts there are
          Messages,     \* names a user gives to changes
          Archives,     \* what a migration may start from
          Covers,       \* archive -> what lies in the files that it has
          None          \* no baseline, no conflict

VARIABLES baseline,     \* the reformatted configuration, None until the migration starts
          applied,      \* the applied changes by their number, a later one has a higher
          resolving,    \* the conflict that is being resolved
          request       \* what the user has asked for: "none", "adopt" or "abort"

vars == <<baseline, applied, resolving, request>>

\* A change has a name, the content it leads to, the number of the change it was
\* made on (parent) and the numbers of all it contains, its own included (past).
NoChanges == [id \in {} |-> {}]

\* The applied changes that this one was made on.
MadeOn(change) ==
  IF change.parent \in DOMAIN applied
  THEN DOMAIN applied \cap applied[change.parent].past ELSE {}

\* The content that the applied changes lead to.
Latest ==
  IF applied = NoChanges THEN baseline
  ELSE applied[CHOOSE id \in DOMAIN applied :
                 \A other \in DOMAIN applied : other <= id].content

Init ==
  /\ baseline = None
  /\ applied = NoChanges
  /\ resolving = None
  /\ request = "none"

\* All of an archive, together with what a start that failed has left of others.
Start ==
  /\ baseline = None /\ baseline' # None
  /\ \E archive \in Archives : baseline' \cap Covers[archive] = archive
  /\ baseline' \subseteq UNION Archives
  /\ UNCHANGED <<applied, resolving, request>>

\* All is given up for another archive.
Restart ==
  /\ baseline' = None
  /\ applied' = NoChanges
  /\ resolving' = None
  /\ request' = "none"

\* A change gets a number above all others, and contains all that is applied.  It
\* has the name the user gave it or that of the conflict it resolves, of which it
\* leaves nothing, and was made on all that is applied.
Record(id, change) ==
  /\ baseline # None /\ request = "none"
  /\ \A other \in DOMAIN applied : other < id
  /\ DOMAIN applied \cup {id} \subseteq change.past
  /\ MadeOn(change) = DOMAIN applied
  /\ change.name \in Messages \cup ({resolving} \ {None})
  /\ resolving # None => resolving \notin change.content
  /\ applied' = [i \in DOMAIN applied \cup {id} |-> IF i = id THEN change ELSE applied[i]]
  /\ UNCHANGED <<baseline, resolving, request>>

\* A conflict is taken up when no other is being resolved.
TakeUp(conflict) ==
  /\ resolving = None /\ resolving' = conflict
  /\ baseline # None /\ request = "none"
  /\ UNCHANGED <<baseline, applied, request>>

\* It counts as resolved only when the applied changes leave nothing of it.
Resolved ==
  /\ request = "none" /\ resolving # None
  /\ resolving' = None
  /\ resolving \notin Latest
  /\ UNCHANGED <<baseline, applied, request>>

\* The user chooses a mitigation, or gives the conflict up.
Ask(what) ==
  /\ request = "none" /\ resolving # None
  /\ what \in {"adopt", "abort"} /\ request' = what
  /\ UNCHANGED <<baseline, applied, resolving>>

\* A mitigation of the conflict is applied: nothing that was applied is lost, and
\* the last of what is new contains everything.  It may have been applied before.
Adopt ==
  /\ request = "adopt" /\ request' = "none"
  /\ resolving # None
  /\ \A id \in DOMAIN applied : id \in DOMAIN applied' /\ applied'[id] = applied[id]
  /\ \/ applied' = applied
     \/ \E last \in DOMAIN applied' \ DOMAIN applied :
          DOMAIN applied' \subseteq applied'[last].past
  /\ UNCHANGED <<baseline, resolving>>

\* The conflict is given up; applied changes stay.
Abandon ==
  /\ request = "abort" /\ request' = "none"
  /\ resolving' = None
  /\ UNCHANGED <<baseline, applied>>

\* What was asked for is not done: the command was killed.
Interrupt ==
  /\ request # "none" /\ request' = "none"
  /\ UNCHANGED <<baseline, applied, resolving>>

\* Back to what the oldest change of some name was made on: it, and all that does
\* not lie behind it, is gone ("will also revert all subsequent resolutions").
Undo(oldest) ==
  /\ request = "none"
  /\ \A id \in DOMAIN applied : applied[id].name = applied[oldest].name => oldest <= id
  /\ applied' = [id \in MadeOn(applied[oldest]) |-> applied[id]]
  /\ UNCHANGED <<baseline, resolving, request>>

Next ==
  \/ Start \/ Restart
  \/ \E conflict \in Conflicts : TakeUp(conflict)
  \/ Resolved
  \/ \E what \in {"adopt", "abort"} : Ask(what)
  \/ Adopt \/ Abandon \/ Interrupt
  \/ /\ request = "none" /\ applied' # applied
     /\ \/ \E id \in DOMAIN applied' : Record(id, applied'[id])
        \/ \E oldest \in DOMAIN applied : Undo(oldest)

Spec == Init /\ [][Next]_vars
===============================================================================
