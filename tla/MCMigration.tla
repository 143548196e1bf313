----------------------------- MODULE MCMigration -----------------------------
(* A migration with two conflicts for TLC.  Conflict A is like SPVA: two     *)
(* mitigations, one of which edits a file that is not among the files to     *)
(* render and so does not remove the conflict.  Conflict B is like           *)
(* CompatibilityLevel: `resolve-all` gives its branch another name than      *)
(* `resolve` does.  The user's edit lies in a file that A's mitigations      *)
(* rewrite and B's do not.                                                   *)
EXTENDS Migration

CONSTANTS A, B, a1, a2, b1, b2, e1, m1

MCConflicts == {A, B}
MCEdits == {e1}
MCMessages == {m1}
MCBranches == {a1, a2, b1, b2}
MCArchives == {{A, B}}
\* Every archive has the files of both conflicts.
MCCovers == [archive \in Archives |-> Item]
\* Two archives: each has the files of its own conflicts and of the edit.
TwoArchives == {{A}, {B}}
TwoCovers == [archive \in Archives |-> archive \cup {Mark(c) : c \in archive} \cup Edits]
MCMitigationsOf == [c \in MCConflicts |-> IF c = A THEN <<a1, a2>> ELSE <<b1>>]
MCRecommended == [c \in MCConflicts |-> IF c = A THEN a1 ELSE b2]
\* Resolve-all takes a branch that `resolve` creates too.
SameRecommended == [c \in MCConflicts |-> IF c = A THEN a1 ELSE b1]
MCConflictOf == [b \in MCBranches |-> IF b \in {a1, a2} THEN A ELSE B]
MCRemoves == [b \in MCBranches |->
  CASE b = a1 -> {A} [] b = a2 -> {} [] OTHER -> {B}]
MCRewrites == [c \in MCConflicts |->
  IF c = A THEN {A, Mark(A)} \cup Edits ELSE {B, Mark(B)}]
NoBranches == {}
FaultyBranches == {b1}

MCTouched == {A, B, Mark(A), e1}
TouchedA == {A, Mark(A)}
NoItems == {}

\* For resolve-all: no edits, and any subset of the conflicts in the archive.
NoEdits == {}
NoMessages == {}
AllArchives == SUBSET MCConflicts
==============================================================================
