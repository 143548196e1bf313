------------------------------ MODULE Migration ------------------------------
(***************************************************************************)
(* The migration controller (src/journeys/controller.py) together with the *)
(* commands of the CLI that drive it (src/journey).  A migration lives in  *)
(* the directory wip/: a git repository, whose master branch is the list   *)
(* of applied changes, a shelf (a key-value file), and the working tree    *)
(* with the configuration files, which the user edits with any editor.     *)
(*                                                                         *)
(* Every command is a process of its own: it builds a controller, runs a   *)
(* few steps that each write to the repository, the shelf or the working   *)
(* tree, and exits.  One action is one such step, so that a command can be *)
(* killed between any two of them.  The variables after `found` are the    *)
(* memory of the running process and are lost when it ends.                *)
(*                                                                         *)
(* The content of a configuration is the set of the items in it: the       *)
(* conflicts its objects cause, the edits the user has made, and the       *)
(* comments ("marks") that `resolve` inserts at conflicting objects.       *)
(***************************************************************************)
EXTENDS Naturals, Sequences

CONSTANTS
  Conflicts,      \* conflict ids (Plugin.ID)
  Edits,          \* changes a user can make by hand
  Messages,       \* commit messages a user gives
  Branches,       \* names of mitigation branches
  Archives,       \* the sets of conflicts the UCS archives at hand have
  Covers,         \* archive -> items lying in the files it has
  MitigationsOf,  \* conflict -> branches `resolve` creates, in dict order
  Recommended,    \* conflict -> branch `resolve-all` creates
  ConflictOf,     \* branch -> the conflict in its name
  Removes,        \* branch -> conflicts its mitigation function removes
  Rewrites,       \* conflict -> items lying in its files_to_render or BigDB.dat
  Faulty,         \* branches whose mitigation function raises
  Touched,        \* bound: the items the user adds or removes by hand
  None,           \* no conflict, no message, no configuration read yet
  MayCrash,       \* whether a command can be killed (extraction can also fail half way)
  MaxCommits      \* bound: commands begin only if their commits fit in it

\* The comments that comment_objects inserts for conflict c.
Mark(c) == <<"mark", c>>
Marks == {Mark(c) : c \in Conflicts}
Item == Conflicts \cup Edits \cup Marks
Content == SUBSET Item

ASSUME MigrationAssumption ==
  /\ Archives \subseteq SUBSET Conflicts
  /\ Covers \in [Archives -> Content]
  /\ \A archive \in Archives : archive \subseteq Covers[archive]
  /\ MitigationsOf \in [Conflicts -> Seq(Branches)]
  /\ Recommended \in [Conflicts -> Branches]
  /\ ConflictOf \in [Branches -> Conflicts]
  /\ Removes \in [Branches -> SUBSET Conflicts]
  /\ Rewrites \in [Conflicts -> Content]
  /\ Faulty \subseteq Branches
  /\ Touched \subseteq Item
  /\ \A c \in Conflicts :
       /\ ConflictOf[Recommended[c]] = c
       /\ \A i \in 1..Len(MitigationsOf[c]) : ConflictOf[MitigationsOf[c][i]] = c
       /\ Mark(c) \in Rewrites[c]
  /\ None \notin Conflicts /\ None \notin Messages
  /\ \A content \in Content : None # content
  /\ "master" \notin Branches
  /\ MayCrash \in BOOLEAN
  /\ MaxCommits \in Nat

VARIABLES
  commits,   \* the git object store: every commit ever made, oldest first
  master,    \* the commit of head "master", 0 while it is unborn
  initial,   \* the commit of head "initial", 0 until `initialize` creates it
  branches,  \* the commit of every mitigation branch, 0 if there is none
  head,      \* the branch that is checked out
  worktree,  \* the content of the tracked files
  current,   \* shelf["current_conflict"]
  found,     \* shelf["conflicts"]
  pc,        \* the next step of the running command, "idle" if none runs
  cmd,       \* what process() returns to: a loop, an abort or a report
  message,   \* the commit name process() was called with
  config,    \* controller.config: the content it was read from
  todo,      \* the branches the loop of resolve() has still to visit
  outcome    \* how the last command ended

repository == <<commits, master, initial, branches, head>>
shelf == <<current, found>>
memory == <<pc, cmd, message, config, todo, outcome>>
vars == <<commits, master, initial, branches, head, worktree,
          current, found, pc, cmd, message, config, todo, outcome>>

Steps == {"idle", "unpack", "commit_initial", "reformat", "create_initial",
          "search", "commit", "clear", "prune", "forget", "pick", "branch",
          "render", "commit_branch", "merge", "restore"}
Callers == {"none", "resolve", "use", "abort", "resolve_all", "report"}
Outcomes == {"none", "running", "done", "refused", "unresolved",
             "local_changes", "raised", "type_error", "killed"}

-----------------------------------------------------------------------------
(* Content                                                                 *)

\* Mutant: whatever the plugins look at counts as a conflict.
DetectedAnything(content) == content

\* ConflictHandler.get_conflicts on a configuration.
Detected(content) == content \cap Conflicts

\* Config.build(files=files_to_render): only BigDB.dat and the files of conflict c are
\* written, from `source`; what lies in other files stays as it is.
Overlay(content, source, c) ==
  (content \ Rewrites[c]) \cup (source \cap Rewrites[c])

\* The content on disk after ConflictHandler.render with branch b's function.
Rendered(content, source, b) ==
  Overlay(content, source \ Removes[b], ConflictOf[b])

\* git's three-way merge of two contents that change different lines.
Merged(base, ours, theirs) == (ours \ (base \ theirs)) \cup (theirs \ base)

-----------------------------------------------------------------------------
(* The repository                                                          *)

CommitIds == 1..Len(commits)
NewId == Len(commits) + 1
Tree(i) == commits[i].content
Past(i) == IF i = 0 THEN {} ELSE commits[i].past   \* i and its ancestors

\* get_mitigation_branches: all heads but master and initial.
MitigationBranches == {b \in Branches : branches[b] # 0}

HeadCommit == IF head = "master" THEN master ELSE branches[head]

\* Mutant: is_dirty() looks at the index only, where nothing is staged.
IndexClean == FALSE

Dirty == worktree # Tree(HeadCommit)               \* repo.is_dirty()

\* The working tree after repo.heads.master.checkout(): on master already,
\* local changes stay; coming from a branch just committed, it is clean.
MasterTree == IF head = "master" THEN worktree ELSE Tree(master)

\* repo.git.add(u=True); repo.index.commit(name)
Commit(name, parent, past) ==
  commits' = Append(commits, [name    |-> name,
                              parent  |-> parent,
                              past    |-> past \cup {NewId},
                              content |-> worktree])

\* Mutant: git rev-list master, without the exclusion of initial.
WholeHistory == Past(master)

\* history(): the commits of initial...master, a symmetric difference.
History == (Past(master) \ Past(initial)) \cup (Past(initial) \ Past(master))

Greatest(S) == CHOOSE i \in S : \A j \in S : j <= i

Initialized == initial # 0                         \* _is_repo_initialized

-----------------------------------------------------------------------------
(* Command processes                                                       *)

\* What MigrationController.__init__ demands of the repository.
Ready == /\ pc = "idle"
         /\ head = "master"
         /\ Initialized

\* Bound: a command that adds commits begins only if n more fit in the store, and
\* `revert` if one fits, so that what it undoes is not redone for ever.
Room(n) == Len(commits) + n <= MaxCommits

\* The process ends; the controller's memory is gone.
Finish(result) ==
  /\ pc' = "idle"
  /\ cmd' = "none"
  /\ message' = None
  /\ config' = None
  /\ todo' = <<>>
  /\ outcome' = result

Goto(step) ==
  /\ pc' = step
  /\ UNCHANGED <<cmd, message, config, todo, outcome>>

Begin(step, caller) ==
  /\ pc' = step
  /\ cmd' = caller
  /\ outcome' = "running"
  /\ UNCHANGED <<message, config, todo>>

\* The command prints an error and changes nothing on disk.
Refuse ==
  /\ Finish("refused")
  /\ UNCHANGED <<repository, worktree, shelf>>

Init ==
  /\ commits = <<>>
  /\ master = 0
  /\ initial = 0
  /\ branches = [b \in Branches |-> 0]
  /\ head = "master"
  /\ worktree = {}
  /\ current = None
  /\ found = {}
  /\ pc = "idle"
  /\ cmd = "none"
  /\ message = None
  /\ config = None
  /\ todo = <<>>
  /\ outcome = "none"

\* A command other than `start` finds HEAD off master (NotMasterBranchError)
\* or no initial branch (NotInitializedError).
RefuseCommand ==
  /\ pc = "idle"
  /\ head # "master" \/ ~Initialized
  /\ Refuse

-----------------------------------------------------------------------------
(* journey start                                                           *)

\* `start --clear`: wip/ is removed, and a new controller builds it anew.
StartClear ==
  /\ pc = "idle"
  /\ commits' = <<>>
  /\ master' = 0
  /\ initial' = 0
  /\ branches' = [b \in Branches |-> 0]
  /\ head' = "master"
  /\ worktree' = {}
  /\ current' = None
  /\ found' = {}
  /\ Begin("unpack", "report")

\* `start` on an empty directory, or on one whose initialization was killed.
Start ==
  /\ pc = "idle"
  /\ head = "master"
  /\ ~Initialized
  /\ Room(2)
  /\ Begin("unpack", "report")
  /\ UNCHANGED <<repository, worktree, shelf>>

\* AlreadyInitializedError.
StartAgain ==
  /\ pc = "idle"
  /\ head = "master"
  /\ Initialized
  /\ Refuse

\* untar_file() extracts on top of what an earlier `start` has left: a file that the
\* archive does not have stays.
Extracted(archive) == (worktree \ Covers[archive]) \cup archive

\* Extraction that ends early: of the files that the archive has, some are as they
\* were, some are its own, and one may be cut off.
HalfExtracted(archive) ==
  {content \in SUBSET (worktree \cup archive) : worktree \ Covers[archive] \subseteq content}

\* Mutant: after an extraction that ended early `start` goes on.
UnpackUnchecked ==
  /\ pc = "unpack"
  /\ \E archive \in Archives : worktree' \in HalfExtracted(archive)
  /\ Goto("commit_initial")
  /\ UNCHANGED <<repository, shelf>>

\* _handle_ucs_input fails on a missing file or a bad passphrase before it extracts
\* anything, _handle_as3_input on a missing declaration when all is extracted.
Unpack ==
  /\ pc = "unpack"
  /\ \/ Refuse
     \/ /\ \E archive \in Archives : worktree' = Extracted(archive)
        /\ Goto("commit_initial") \/ Finish("refused")
        /\ UNCHANGED <<repository, shelf>>
     \/ /\ MayCrash
        /\ \E archive \in Archives : worktree' \in HalfExtracted(archive)
        /\ Finish("killed")
        /\ UNCHANGED <<repository, shelf>>

\* Mutant: head "initial" is created with the first commit.
CommitInitialHead ==
  /\ pc = "commit_initial"
  /\ Commit("initial", master, Past(master))
  /\ master' = NewId
  /\ initial' = NewId
  /\ Goto("reformat")
  /\ UNCHANGED <<branches, head, worktree, shelf>>

CommitInitial ==
  /\ pc = "commit_initial"
  /\ Commit("initial", master, Past(master))
  /\ master' = NewId
  /\ Goto("reformat")
  /\ UNCHANGED <<initial, branches, head, worktree, shelf>>

\* _reformat_input and its commit.  The configuration stays in memory.
Reformat ==
  /\ pc = "reformat"
  /\ Commit("reformat", master, Past(master))
  /\ master' = NewId
  /\ config' = worktree
  /\ pc' = "create_initial"
  /\ UNCHANGED <<initial, branches, head, worktree, shelf,
                 cmd, message, todo, outcome>>

\* repo.create_head("initial"); then the version of the archive is looked at,
\* and an unsupported one ends the command here.
CreateInitial ==
  /\ pc = "create_initial"
  /\ initial' = master
  /\ Goto("search") \/ Finish("refused")
  /\ UNCHANGED <<commits, master, branches, head, worktree, shelf>>

-----------------------------------------------------------------------------
(* MigrationController.process(), the last part of most commands           *)

\* Mutant: the current conflict is not looked for among those found.
SearchOn ==
  /\ pc = "search"
  /\ LET content == IF config = None THEN worktree ELSE config
     IN found' = Detected(content) /\ config' = content
  /\ pc' = "commit"
  /\ UNCHANGED <<repository, worktree, current, cmd, message, todo, outcome>>

\* The conflicts of the configuration (read now unless it is in memory) go to
\* the shelf; ConflictNotResolvedError if the current one is among them.
Search ==
  /\ pc = "search"
  /\ LET content == IF config = None THEN worktree ELSE config
     IN /\ found' = Detected(content)
        /\ \/ /\ current \in Detected(content)
              /\ Finish("unresolved")
           \/ /\ current \notin Detected(content)
              /\ config' = content
              /\ pc' = "commit"
              /\ UNCHANGED <<cmd, message, todo, outcome>>
  /\ UNCHANGED <<repository, worktree, current>>

\* _commit_local_changes, under the given name or that of the conflict that
\* the changes resolved; without either, LocalChangesDetectedError.
CommitChanges ==
  /\ pc = "commit"
  /\ \/ /\ ~Dirty
        /\ Goto("clear")
        /\ UNCHANGED <<commits, master>>
     \/ /\ Dirty
        /\ current # None \/ message # None
        /\ Commit(IF message # None THEN message ELSE current, master, Past(master))
        /\ master' = NewId
        /\ Goto("clear")
     \/ /\ Dirty
        /\ current = None
        /\ message = None
        /\ Finish("local_changes")
        /\ UNCHANGED <<commits, master>>
  /\ UNCHANGED <<initial, branches, head, worktree, shelf>>

\* Mutant: the current conflict stays in the shelf.
KeepCurrent ==
  /\ pc = "clear"
  /\ Goto("prune")
  /\ UNCHANGED <<repository, worktree, shelf>>

\* The current conflict is gone: forget it.
ClearCurrent ==
  /\ pc = "clear"
  /\ current' = None
  /\ Goto("prune")
  /\ UNCHANGED <<repository, worktree, found>>

\* _remove_mitigations_branches, called by process() and by abort(): one head
\* after the other is deleted.
PruneBranch ==
  /\ pc = "prune"
  /\ \E b \in MitigationBranches : branches' = [branches EXCEPT ![b] = 0]
  /\ UNCHANGED <<commits, master, initial, head, worktree, shelf, memory>>

\* Mutant: process() goes on without removing the branches.
PruneNothing ==
  /\ pc = "prune"
  /\ \/ cmd = "abort" /\ Goto("forget")
     \/ cmd = "resolve_all" /\ Goto("pick")
     \/ cmd = "report" /\ Finish("done")
  /\ UNCHANGED <<repository, worktree, shelf>>

\* No branch is left: process() returns to its caller, or abort() goes on.
PruneDone ==
  /\ pc = "prune"
  /\ MitigationBranches = {}
  /\ \/ cmd = "abort" /\ Goto("forget")
     \/ cmd = "resolve_all" /\ Goto("pick")
     \/ cmd = "report" /\ Finish("done")
  /\ UNCHANGED <<repository, worktree, shelf>>

\* POST /sessions/<id>/changes (SessionChangesViewSet.create), on a controller
\* that has not read the configuration yet: process(commit_name=message).
SaveChanges ==
  /\ Ready
  /\ Room(1)
  /\ message' \in Messages \cup {None}
  /\ pc' = "search"
  /\ cmd' = "report"
  /\ outcome' = "running"
  /\ UNCHANGED <<repository, worktree, shelf, config, todo>>

\* `journey migrate`: migrate(ucs, message) is called without ucs.
MigrateCommand ==
  /\ pc = "idle"
  /\ Finish("type_error")
  /\ UNCHANGED <<repository, worktree, shelf>>

-----------------------------------------------------------------------------
(* journey resolve                                                         *)

\* DifferentConflictError, or UnknownConflictError.
ResolveRefused(c) ==
  /\ Ready
  /\ (current # None /\ current # c) \/ c \notin Detected(worktree)
  /\ Refuse

\* The configuration is read from the working tree, local changes included.
Resolve(c) ==
  /\ Ready
  /\ Room(Len(MitigationsOf[c]))
  /\ current \in {None, c}
  /\ c \in Detected(worktree)
  /\ config' = worktree
  /\ current' = c
  /\ todo' = MitigationsOf[c]
  /\ pc' = "branch"
  /\ cmd' = "resolve"
  /\ outcome' = "running"
  /\ UNCHANGED <<repository, worktree, found, message>>

\* resolve() keeps a branch that exists.
SkipBranch ==
  /\ pc = "branch"
  /\ cmd = "resolve"
  /\ todo # <<>>
  /\ Head(todo) \in MitigationBranches
  /\ todo' = Tail(todo)
  /\ UNCHANGED <<repository, worktree, shelf, pc, cmd, message, config, outcome>>

\* master.checkout(); create_head(branch_name).checkout(): local changes of
\* the working tree are carried over.
BranchOff ==
  /\ pc = "branch"
  /\ todo # <<>>
  /\ Head(todo) \notin MitigationBranches
  /\ branches' = [branches EXCEPT ![Head(todo)] = master]
  /\ head' = Head(todo)
  /\ worktree' = MasterTree
  /\ Goto("render")
  /\ UNCHANGED <<commits, master, initial, shelf>>

\* The mitigation function runs on a copy of the configuration in memory, and
\* the files to render are written; if it raises, the process ends here.
RenderMitigation ==
  /\ pc = "render"
  /\ \/ /\ head \notin Faulty
        /\ worktree' = Rendered(worktree, config, head)
        /\ Goto("commit_branch")
     \/ /\ head \in Faulty
        /\ Finish("raised")
        /\ UNCHANGED worktree
  /\ UNCHANGED <<repository, shelf>>

\* Everything in the working tree goes into the branch's commit.
CommitBranch ==
  /\ pc = "commit_branch"
  /\ Commit(head, branches[head], Past(branches[head]))
  /\ branches' = [branches EXCEPT ![head] = NewId]
  /\ todo' = Tail(todo)
  /\ pc' = IF cmd = "resolve_all" THEN "merge" ELSE "branch"
  /\ UNCHANGED <<master, initial, head, worktree, shelf,
                 cmd, message, config, outcome>>

\* All branches exist: back on master, the objects to look at get a comment.
RenderComments ==
  /\ pc = "branch"
  /\ todo = <<>>
  /\ head' = "master"
  /\ worktree' = Overlay(MasterTree, config \cup {Mark(current)}, current)
  /\ Finish("done")
  /\ UNCHANGED <<commits, master, initial, branches, shelf>>

-----------------------------------------------------------------------------
(* journey use                                                             *)

\* checkout . comes first; then NotResolvingConflictError, and the check for
\* local changes, which finds none; `git merge` fails on an unknown name.
Use(b) ==
  /\ Ready
  /\ worktree' = Tree(master)
  /\ \/ /\ current # None
        /\ b \in MitigationBranches
        /\ todo' = <<b>>
        /\ pc' = "merge"
        /\ cmd' = "use"
        /\ outcome' = "running"
        /\ UNCHANGED <<message, config>>
     \/ /\ current = None \/ b \notin MitigationBranches
        /\ Finish("refused")
  /\ UNCHANGED <<repository, shelf>>

\* Mutant: git reset --hard b instead of a merge.
ResetToBranch(b) ==
  /\ master' = branches[b]
  /\ worktree' = Tree(branches[b])
  /\ UNCHANGED commits

\* repo.git.merge(b) on master: up to date, fast-forward, or a merge commit.
MergeBranch(b) ==
  LET theirs == branches[b]
      base   == Greatest(Past(master) \cap Past(theirs))
  IN \/ /\ theirs \in Past(master)
        /\ worktree' = Tree(master)
        /\ UNCHANGED <<commits, master>>
     \/ /\ theirs \notin Past(master)
        /\ master \in Past(theirs)
        /\ master' = theirs
        /\ worktree' = Tree(theirs)
        /\ UNCHANGED commits
     \/ /\ theirs \notin Past(master)
        /\ master \notin Past(theirs)
        /\ worktree' = Merged(Tree(base), Tree(master), Tree(theirs))
        /\ commits' = Append(commits,
             [name    |-> "merge",
              parent  |-> master,
              past    |-> Past(master) \cup Past(theirs) \cup {NewId},
              content |-> worktree'])
        /\ master' = NewId

\* use: merge, then process() with a configuration yet to be read.
MergeUsed ==
  /\ pc = "merge"
  /\ cmd = "use"
  /\ MergeBranch(Head(todo))
  /\ todo' = <<>>
  /\ pc' = "search"
  /\ cmd' = "report"
  /\ UNCHANGED <<initial, branches, head, shelf, message, config, outcome>>

-----------------------------------------------------------------------------
(* journey resolve-all                                                     *)

ResolveAll ==
  /\ Ready
  /\ Room(1)
  /\ Begin("search", "resolve_all")
  /\ UNCHANGED <<repository, worktree, shelf>>

\* popitem(): one of the conflicts found becomes the current one.
PickConflict(c) ==
  /\ pc = "pick"
  /\ c \in Detected(config)
  /\ current' = c
  /\ todo' = <<Recommended[c]>>
  /\ pc' = "branch"
  /\ UNCHANGED <<repository, worktree, found, cmd, message, config, outcome>>

\* Mutant: the loop of resolve_recommended() goes on with no conflict left.
LoopOn ==
  /\ pc = "pick"
  /\ Detected(config) = {}
  /\ pc' = "search"
  /\ UNCHANGED <<repository, worktree, shelf, cmd, message, config, todo, outcome>>

\* No conflict is left: the command's own process_and_print_output.
AllResolved ==
  /\ pc = "pick"
  /\ Detected(config) = {}
  /\ pc' = "search"
  /\ cmd' = "report"
  /\ UNCHANGED <<repository, worktree, shelf, message, config, todo, outcome>>

\* Mutant: the configuration is not read again after the merge.
MergeUnread ==
  /\ pc = "merge"
  /\ cmd = "resolve_all"
  /\ MergeBranch(head)
  /\ head' = "master"
  /\ pc' = "search"
  /\ UNCHANGED <<initial, branches, shelf, cmd, message, config, todo, outcome>>

\* master.checkout(); checkout .; merge; read_config().
MergeRecommended ==
  /\ pc = "merge"
  /\ cmd = "resolve_all"
  /\ MergeBranch(head)
  /\ head' = "master"
  /\ config' = worktree'
  /\ pc' = "search"
  /\ UNCHANGED <<initial, branches, shelf, cmd, message, todo, outcome>>

-----------------------------------------------------------------------------
(* journey abort, cleanup, revert                                          *)

AbortRefused ==
  /\ Ready
  /\ current = None
  /\ Refuse

\* abort(): checkout ., remove the branches, ...
Abort ==
  /\ Ready
  /\ current # None
  /\ worktree' = Tree(master)
  /\ Begin("prune", "abort")
  /\ UNCHANGED <<repository, shelf>>

\* ... forget the current conflict; then checkout . again and process().
Forget ==
  /\ pc = "forget"
  /\ current' = None
  /\ worktree' = Tree(master)
  /\ pc' = "search"
  /\ cmd' = "report"
  /\ UNCHANGED <<repository, found, message, config, todo, outcome>>

Cleanup ==
  /\ Ready
  /\ worktree' = Tree(master)
  /\ Finish("done")
  /\ UNCHANGED <<repository, shelf>>

StepsNamed(step) == {i \in History : commits[i].name = step}

RevertRefused(step) ==
  /\ Ready
  /\ StepsNamed(step) = {}
  /\ Refuse

\* Mutant: the newest commit with that summary is taken.
RevertNewest(step) ==
  /\ Ready
  /\ Room(1)
  /\ \E newest \in StepsNamed(step) :
       /\ \A i \in StepsNamed(step) : i <= newest
       /\ master' = commits[newest].parent
  /\ Begin("restore", "report")
  /\ UNCHANGED <<commits, initial, branches, head, worktree, shelf>>

\* git reset to the first parent of the oldest commit with that summary.
Revert(step) ==
  /\ Ready
  /\ Room(1)
  /\ \E oldest \in StepsNamed(step) :
       /\ \A i \in StepsNamed(step) : oldest <= i
       /\ master' = commits[oldest].parent
  /\ Begin("restore", "report")
  /\ UNCHANGED <<commits, initial, branches, head, worktree, shelf>>

\* git checkout ., then process().
RestoreTree ==
  /\ pc = "restore"
  /\ worktree' = Tree(master)
  /\ Goto("search")
  /\ UNCHANGED <<repository, shelf>>

-----------------------------------------------------------------------------
(* The user and the host                                                   *)

\* An edit adds or removes one item; comments are only ever removed.
UserEdit ==
  /\ pc = "idle"
  /\ Initialized
  /\ \E i \in Touched :
       \/ i \in worktree /\ worktree' = worktree \ {i}
       \/ i \notin worktree \cup Marks /\ worktree' = worktree \cup {i}
  /\ UNCHANGED <<repository, shelf, memory>>

\* "Please checkout to master branch": git carries local changes over when
\* both branches are at one commit, and is forced to drop them otherwise.
CheckoutMaster ==
  /\ pc = "idle"
  /\ head # "master"
  /\ head' = "master"
  /\ worktree' = IF branches[head] = master THEN worktree ELSE Tree(master)
  /\ UNCHANGED <<commits, master, initial, branches, shelf, memory>>

\* The process is killed between two steps.
Crash ==
  /\ MayCrash
  /\ pc # "idle"
  /\ Finish("killed")
  /\ UNCHANGED <<repository, worktree, shelf>>

-----------------------------------------------------------------------------

\* The summaries that commits have.
StepNames ==
  Branches \cup Conflicts \cup Messages \cup {"initial", "reformat", "merge"}

\* The next step of the command that runs.
ProgramStep ==
  \/ Unpack \/ CommitInitial \/ Reformat \/ CreateInitial
  \/ Search \/ CommitChanges \/ ClearCurrent \/ PruneBranch \/ PruneDone
  \/ SkipBranch \/ BranchOff \/ RenderMitigation \/ CommitBranch \/ RenderComments
  \/ MergeUsed \/ MergeRecommended
  \/ \E c \in Conflicts : PickConflict(c)
  \/ AllResolved \/ Forget \/ RestoreTree

\* The user runs a command.
Command ==
  \/ StartClear \/ Start \/ StartAgain \/ RefuseCommand
  \/ SaveChanges \/ MigrateCommand \/ ResolveAll
  \/ \E c \in Conflicts : Resolve(c) \/ ResolveRefused(c)
  \/ \E b \in Branches : Use(b)
  \/ Abort \/ AbortRefused \/ Cleanup
  \/ \E step \in StepNames : Revert(step) \/ RevertRefused(step)

Next == ProgramStep \/ Command \/ UserEdit \/ CheckoutMaster \/ Crash

Spec == Init /\ [][Next]_vars

\* A command that runs goes on: it is sequential code that waits for nobody.
FairSpec == Spec /\ WF_vars(ProgramStep)

-----------------------------------------------------------------------------
(* Properties                                                              *)

CommitType == [name    : StepNames,
               parent  : Nat,
               past    : SUBSET Nat,
               content : Content]

\* The type of every variable; references point into the object store.
TypeOK ==
  /\ commits \in Seq(CommitType)
  /\ master \in 0..Len(commits)
  /\ initial \in 0..Len(commits)
  /\ branches \in [Branches -> 0..Len(commits)]
  /\ head \in Branches \cup {"master"}
  /\ worktree \in Content
  /\ current \in Conflicts \cup {None}
  /\ found \in SUBSET Conflicts
  /\ pc \in Steps
  /\ cmd \in Callers
  /\ message \in Messages \cup {None}
  /\ config = None \/ config \in Content
  /\ todo \in Seq(Branches)
  /\ outcome \in Outcomes

\* Once the migration has started, the commits of the archive itself are never
\* undone: whatever is reverted, merged or killed, head "initial" is the
\* current master or an ancestor of it, so that initial...master is the
\* history (controller.py history(), journey revert()).
InitialKept == Initialized => initial \in Past(master)

\* As long as no command is killed, every mitigation branch belongs to the
\* conflict being resolved, whatever commands run and however they fail.
\* `resolve` and `use` rely on it: all heads but master and initial are taken
\* for mitigations of the current conflict (get_mitigation_branches).
BranchesBelongToCurrent ==
  pc # "prune" => \A b \in MitigationBranches : ConflictOf[b] = current

\* A command that ends with a verdict (process() returned) leaves a migration
\* where nothing is pending: what it reports is the state of the last commit,
\* the working tree is clean, no branch is left, no conflict is being resolved.
VerdictIsCommitted ==
  [][pc = "prune" /\ cmd = "report" /\ outcome' = "done" =>
       /\ worktree' = Tree(master)'
       /\ found' = Detected(Tree(master))'
       /\ MitigationBranches' = {}
       /\ current' = None]_vars

\* Applied changes leave the history only when the user reverts them or
\* restarts: no merge, no commit and no crash takes a commit away from master.
HistoryOnlyRevertedOnRequest ==
  [][Past(master) \subseteq Past(master)' \/ pc' \in {"restore", "unpack"}]_vars

\* A conflict that is being resolved is dropped only once it is gone from the
\* working tree, by `abort`, or by a restart; no command moves on to another
\* conflict before (DifferentConflictError, ConflictNotResolvedError).
CurrentKeptUntilGone ==
  [][current # None /\ current' # current =>
       \/ current \notin Detected(worktree)
       \/ pc \in {"forget", "idle"} /\ current' = None]_vars

\* An archive, whole, in the files that it has; in others, what earlier ones have left.
FromArchive(content) ==
  /\ \E archive \in Archives : content \cap Covers[archive] = archive
  /\ content \subseteq UNION Archives

\* Whatever `start` is killed or fails at, and however often it is run again over what
\* that has left (initialize() extracts, commits, reformats, commits and only then
\* creates head "initial"): a migration that counts as started has a reformatted
\* baseline, never a part of an archive.  It need not be the archive and no more: files
\* of another archive, left by a start that failed, are committed along with it.
BaselineIsWhole ==
  Initialized => commits[initial].name = "reformat" /\ FromArchive(Tree(initial))

\* The migration as its user knows it: the commits of the history are the applied
\* changes, on top of the content of head "initial".
BaselineContent == IF Initialized THEN Tree(initial) ELSE None
Changes == IF Initialized THEN History ELSE {}
AppliedChanges == [i \in Changes |-> commits[i]]
Request == IF pc = "merge" THEN "adopt" ELSE IF cmd = "abort" THEN "abort" ELSE "none"

\* Whatever is merged, reverted, aborted or killed, the repository and the shelf
\* together are a list of changes to one baseline: each is made on all before it
\* and leaves nothing of the conflict it resolves, a conflict is dropped as
\* resolved only when the last commit is free of it, and reverting a change
\* restores what was applied when it was made, the baseline untouched.
Log == INSTANCE ChangeLog WITH
         baseline <- BaselineContent, applied <- AppliedChanges,
         resolving <- current, request <- Request
ImplementsChangeLog == Log!Spec

\* Every command ends.
CommandEnds == pc # "idle" ~> pc = "idle"

\* `resolve-all` that has found a conflict to resolve ends with a history that
\* has none, if every recommended mitigation removes its conflict: the loop
\* neither stops half way nor goes on for ever (resolve_recommended).
ResolveAllCompletes ==
  pc = "pick" ~> /\ pc = "idle"
                 /\ master # 0
                 /\ Detected(Tree(master)) = {}

==============================================================================
