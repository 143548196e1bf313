--------------------------- MODULE MigrationClaims ---------------------------
(* What the documentation and the messages of the CLI say of the workflow,   *)
(* stated over the migration of module Migration.  A history variable        *)
(* watches the commands: it never takes part in a guard.                     *)
EXTENDS MCMigration

VARIABLE undone   \* the commits that `revert` has taken off master

claims == <<vars, undone>>

InitClaims == Init /\ undone = {}

Watch ==
  undone' = CASE pc' = "restore" -> undone \cup (Past(master) \ Past(master)')
              [] pc' = "unpack"  -> {}
              [] OTHER           -> undone

SpecClaims == InitClaims /\ [][Next /\ Watch]_claims

\* `journey use` refuses while there are local changes ("Local changes
\* detected. Clean it before using one of provided mitigations", journey:345):
\* a merge begins only if the working tree holds no edit that master does not,
\* the comments that `resolve` itself has written left aside.
UseRefusesLocalChanges ==
  [][pc = "idle" /\ pc' = "merge" => worktree \ Marks = Tree(master) \ Marks]_claims

\* `journey revert` undoes a change "along with any subsequent changes"
\* (README.md): `use` puts no reverted change back but the one it is asked for.
RevertedStaysReverted ==
  [][pc = "merge" /\ cmd = "use" =>
       \A i \in undone \cap (Past(master)' \ Past(master)) :
         commits[i].name = Head(todo)]_claims
==============================================================================
