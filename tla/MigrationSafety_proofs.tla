------------------------- MODULE MigrationSafety_proofs -------------------------
(* The safety properties of module Migration that need to know what its      *)
(* processes have established so far, on top of the invariant Inv.           *)
EXTENDS Migration_proofs

-----------------------------------------------------------------------------
(* History                                                                 *)

\* What a reference descends from is closed under descent.
LEMMA PastClosed ==
  ASSUME TypeOK, Store, Closed, NEW i \in 0..Len(commits), NEW j \in Past(i)
  PROVE  j \in CommitIds /\ commits[j].past \subseteq Past(i)
  <1>1. Len(commits) \in Nat
    BY DEF TypeOK
  <1>2. i \in CommitIds /\ Past(i) = commits[i].past
    BY <1>1 DEF Past, CommitIds
  <1>3. commits[i].past \subseteq 1..i
    BY <1>2 DEF Store
  <1> QED BY <1>1, <1>2, <1>3 DEF Closed, CommitIds

\* A new commit whose past is closed keeps the store closed.
LEMMA ClosedGrows ==
  ASSUME TypeOK, Store, Closed, NEW name, NEW parent, NEW content,
         NEW past \in SUBSET CommitIds,
         \A j \in past : commits[j].past \subseteq past,
         commits' = Append(commits,
           [name |-> name, parent |-> parent, past |-> past \cup {NewId},
            content |-> content])
  PROVE  Closed'
  <1> DEFINE r == [name |-> name, parent |-> parent, past |-> past \cup {NewId},
                   content |-> content]
  <1>1. /\ Len(commits) \in Nat
        /\ Len(commits') = Len(commits) + 1
        /\ \A i \in 1..Len(commits) : commits'[i] = commits[i]
        /\ commits'[Len(commits) + 1] = r
    BY DEF TypeOK
  <1>2. SUFFICES ASSUME NEW i \in 1..Len(commits) + 1, NEW j \in commits'[i].past
                 PROVE  commits'[j].past \subseteq commits'[i].past
    BY <1>1 DEF Closed, CommitIds
  <1>3. CASE i \in 1..Len(commits)
    <2>1. j \in commits[i].past /\ commits[i].past \subseteq 1..i
      BY <1>1, <1>2, <1>3 DEF Store, CommitIds
    <2>2. j \in 1..Len(commits)
      BY <1>1, <1>3, <2>1
    <2>3. commits[j].past \subseteq commits[i].past
      BY <1>3, <2>1 DEF Closed, CommitIds
    <2> QED BY <1>1, <1>3, <2>2, <2>3
  <1>4. CASE i = Len(commits) + 1
    <2>1. commits'[i].past = past \cup {NewId}
      BY <1>1, <1>4
    <2>2. CASE j = NewId
      BY <1>4, <2>1, <2>2 DEF NewId
    <2>3. CASE j \in past
      <3>1. j \in 1..Len(commits)
        BY <2>3 DEF CommitIds
      <3>2. commits'[j].past = commits[j].past
        BY <1>1, <3>1
      <3> QED BY <2>1, <2>3, <3>2
    <2> QED BY <1>2, <2>1, <2>2, <2>3
  <1>5. i \in 1..Len(commits) \/ i = Len(commits) + 1
    <2>1. Len(commits) \in Nat /\ i \in 1..Len(commits) + 1
      BY <1>1
    <2> QED BY ONLY <2>1
  <1> QED BY <1>3, <1>4, <1>5

\* A merge's past is closed.
LEMMA UnionClosed ==
  ASSUME TypeOK, Store, Closed, NEW i \in 0..Len(commits), NEW j \in 0..Len(commits)
  PROVE  /\ Past(i) \cup Past(j) \in SUBSET CommitIds
         /\ \A k \in Past(i) \cup Past(j) : commits[k].past \subseteq Past(i) \cup Past(j)
  <1>1. \A k \in Past(i) : k \in CommitIds /\ commits[k].past \subseteq Past(i)
    BY PastClosed
  <1>2. \A k \in Past(j) : k \in CommitIds /\ commits[k].past \subseteq Past(j)
    BY PastClosed
  <1> QED BY <1>1, <1>2

\* A commit made on top of master keeps all that master descends from.
LEMMA CommitOnMaster ==
  ASSUME TypeOK, NEW name, NEW parent, NEW past, NEW content,
         Past(master) \subseteq past,
         commits' = Append(commits,
           [name |-> name, parent |-> parent, past |-> past \cup {NewId},
            content |-> content]),
         master' = NewId
  PROVE  Past(master) \subseteq Past(master)'
  <1> DEFINE r == [name |-> name, parent |-> parent, past |-> past \cup {NewId},
                   content |-> content]
  <1>1. Len(commits) \in Nat
    BY DEF TypeOK
  <1>2. commits'[Len(commits) + 1] = r
    BY <1>1 DEF TypeOK
  <1>3. Past(master)' = r.past
    BY <1>1, <1>2 DEF Past, NewId
  <1> QED BY <1>3

\* A commit made on top of a reference keeps the store closed.
LEMMA ClosedCommit ==
  ASSUME TypeOK, Store, Closed, NEW name, NEW i \in 0..Len(commits),
         Commit(name, i, Past(i))
  PROVE  Closed'
  <1>1. \A k \in Past(i) : k \in CommitIds /\ commits[k].past \subseteq Past(i)
    BY PastClosed
  <1>2. Past(i) \in SUBSET CommitIds
    BY <1>1
  <1> QED BY <1>1, <1>2, ClosedGrows DEF Commit

\* What a merge does to the history: nothing of master's is lost.
LEMMA MergeKeeps ==
  ASSUME TypeOK, Store, Closed, NEW b \in Branches, MergeBranch(b)
  PROVE  Closed' /\ Past(master) \subseteq Past(master)'
  <1> DEFINE theirs == branches[b]
  <1>0. master \in 0..Len(commits) /\ theirs \in 0..Len(commits)
    BY DEF TypeOK
  <1>1. CASE UNCHANGED <<commits, master>>
    BY <1>1 DEF Closed, CommitIds, Past
  <1>2. CASE master \in Past(theirs) /\ master' = theirs /\ UNCHANGED commits
    <2>1. Past(master)' = Past(theirs)
      BY <1>2 DEF Past
    <2>2. commits[master].past \subseteq Past(theirs)
      BY <1>0, <1>2, PastClosed
    <2>3. Closed'
      BY <1>2 DEF Closed, CommitIds
    <2> QED BY <2>1, <2>2, <2>3 DEF Past
  <1>3. CASE /\ commits' = Append(commits,
                  [name |-> "merge", parent |-> master,
                   past |-> Past(master) \cup Past(theirs) \cup {NewId},
                   content |-> worktree'])
             /\ master' = NewId
    <2> DEFINE past == Past(master) \cup Past(theirs)
    <2>1. past \in SUBSET CommitIds /\ \A k \in past : commits[k].past \subseteq past
      BY <1>0, UnionClosed
    <2> HIDE DEF past
    <2>2. Closed'
      BY <1>3, <2>1, ClosedGrows DEF past
    <2>3. Past(master) \subseteq past
      BY DEF past
    <2>4. Past(master) \subseteq Past(master)'
      BY <1>3, <2>3, CommitOnMaster DEF past
    <2> QED BY <2>2, <2>4
  <1> QED BY <1>1, <1>2, <1>3 DEF MergeBranch

\* The store stays closed, and no step but the first of a restart and that of
\* `revert` takes a commit away from master.
LEMMA HistoryStep ==
  ASSUME Inv, Closed, [Next]_vars
  PROVE  /\ Closed'
         /\ Past(master) \subseteq Past(master)' \/ pc' \in {"restore", "unpack"}
  <1> USE DEF Inv
  <1>0. master \in 0..Len(commits) /\ Len(commits) \in Nat
    BY DEF TypeOK
  <1>1. ASSUME UNCHANGED commits
        PROVE  Closed'
    BY <1>1 DEF Closed, CommitIds
  <1>2. ASSUME UNCHANGED <<commits, master>>
        PROVE  Closed' /\ Past(master) \subseteq Past(master)'
    BY <1>1, <1>2 DEF Past
  <1>3. CASE StartClear
    <2>1. commits' = <<>> /\ pc' = "unpack"
      BY <1>3 DEF StartClear, Begin
    <2> QED BY <2>1 DEF Closed, CommitIds
  <1>4. ASSUME NEW step \in StepNames, Revert(step)
        PROVE  Closed' /\ pc' = "restore"
    BY <1>1, <1>4 DEF Revert, Begin
  <1>5. CASE CommitInitial \/ Reformat \/ CommitChanges
    <2>1. CASE UNCHANGED <<commits, master>>
      BY <1>2, <2>1
    <2>2. CASE ~UNCHANGED <<commits, master>>
      <3>1. PICK name : Commit(name, master, Past(master)) /\ master' = NewId
        BY <1>5, <2>2 DEF CommitInitial, Reformat, CommitChanges
      <3>2. Closed'
        BY <1>0, <3>1, ClosedCommit
      <3>3. Past(master) \subseteq Past(master)'
        BY <3>1, CommitOnMaster DEF Commit
      <3> QED BY <3>2, <3>3
    <2> QED BY <2>1, <2>2
  <1>6. CASE CommitBranch
    <2>1. UNCHANGED master /\ Commit(head, branches[head], Past(branches[head]))
      BY <1>6 DEF CommitBranch
    <2>2. branches[head] \in 0..Len(commits)
      BY <1>6 DEF CommitBranch, Control, TypeOK
    <2>3. Closed'
      BY <2>1, <2>2, ClosedCommit
    <2>4. \A i \in 1..Len(commits) : commits'[i] = commits[i]
      BY <2>1 DEF TypeOK, Commit
    <2>5. Past(master) \subseteq Past(master)'
      BY <1>0, <2>1, <2>4 DEF Past
    <2> QED BY <2>3, <2>5
  <1>7. CASE MergeUsed \/ MergeRecommended
    <2>1. PICK b \in Branches : MergeBranch(b)
      BY <1>7 DEF MergeUsed, MergeRecommended, Control, TypeOK
    <2> QED BY <2>1, MergeKeeps
  <1>8. CASE UNCHANGED vars
    BY <1>2, <1>8 DEF vars
  <1>9. CASE \/ Unpack \/ CreateInitial \/ Search \/ ClearCurrent \/ PruneBranch \/ PruneDone
             \/ SkipBranch \/ BranchOff \/ RenderMitigation \/ RenderComments
             \/ \E c \in Conflicts : PickConflict(c)
             \/ AllResolved \/ Forget \/ RestoreTree
    BY <1>2, <1>9 DEF Unpack, CreateInitial, Search, ClearCurrent, PruneBranch, PruneDone,
         SkipBranch, BranchOff, RenderMitigation, RenderComments, PickConflict,
         AllResolved, Forget, RestoreTree, Refuse, repository
  <1>10. CASE \/ Start \/ StartAgain \/ RefuseCommand
              \/ SaveChanges \/ MigrateCommand \/ ResolveAll
              \/ \E c \in Conflicts : Resolve(c) \/ ResolveRefused(c)
              \/ \E b \in Branches : Use(b)
              \/ Abort \/ AbortRefused \/ Cleanup
              \/ \E step \in StepNames : RevertRefused(step)
              \/ UserEdit \/ CheckoutMaster \/ Crash
    BY <1>2, <1>10 DEF Start, StartAgain, RefuseCommand, SaveChanges,
         MigrateCommand, ResolveAll, Resolve, ResolveRefused, Use, Abort,
         AbortRefused, Cleanup, RevertRefused, Refuse, UserEdit, CheckoutMaster,
         Crash, repository
  <1> QED BY <1>3, <1>4, <1>5, <1>6, <1>7, <1>8, <1>9, <1>10 DEF Next, ProgramStep, Command

\* Applied changes leave the history only on `revert` or `start --clear`: no
\* merge, commit, abort, failed command or crash ever loses one.
THEOREM HistoryKept ==
  Spec => HistoryOnlyRevertedOnRequest
  <1>1. Init => Closed
    BY DEF Init, Closed, CommitIds
  <1>2. Inv /\ Closed /\ [Next]_vars => Closed'
    BY HistoryStep
  <1>3. Inv /\ Closed /\ [Next]_vars =>
          [Past(master) \subseteq Past(master)' \/ pc' \in {"restore", "unpack"}]_vars
    BY HistoryStep
  <1> QED BY <1>1, <1>2, <1>3, Invariance, PTL DEF Spec, HistoryOnlyRevertedOnRequest

-----------------------------------------------------------------------------
(* The baseline that `start` makes                                          *)

\* A commit in the store is never changed, except that a restart empties it.
LEMMA CommitsKept ==
  ASSUME Inv, [Next]_vars, ~StartClear
  PROVE  \A i \in CommitIds : i \in CommitIds' /\ commits'[i] = commits[i]
  <1>1. UNCHANGED commits \/ \E r : commits' = Append(commits, r)
    <2>1. ASSUME NEW b \in Branches, MergeBranch(b)
          PROVE  UNCHANGED commits \/ \E r : commits' = Append(commits, r)
      BY <2>1 DEF MergeBranch
    <2>2. CASE MergeUsed \/ MergeRecommended
      <3>1. PICK b \in Branches : MergeBranch(b)
        BY <2>2 DEF MergeUsed, MergeRecommended, Inv, Control, TypeOK
      <3> QED BY <2>1, <3>1
    <2>3. CASE CommitInitial \/ Reformat \/ CommitChanges \/ CommitBranch
      BY <2>3 DEF CommitInitial, Reformat, CommitChanges, CommitBranch, Commit
    <2>4. CASE UNCHANGED vars
      BY <2>4 DEF vars
    <2>5. CASE \/ Unpack \/ CreateInitial \/ Search \/ ClearCurrent \/ PruneBranch \/ PruneDone
               \/ SkipBranch \/ BranchOff \/ RenderMitigation \/ RenderComments
               \/ \E c \in Conflicts : PickConflict(c)
               \/ AllResolved \/ Forget \/ RestoreTree
      BY <2>5 DEF Unpack, CreateInitial, Search, ClearCurrent, PruneBranch, PruneDone,
           SkipBranch, BranchOff, RenderMitigation, RenderComments, PickConflict,
           AllResolved, Forget, RestoreTree, Refuse, repository
    <2>6. CASE \/ Start \/ StartAgain \/ RefuseCommand
               \/ SaveChanges \/ MigrateCommand \/ ResolveAll
               \/ \E c \in Conflicts : Resolve(c) \/ ResolveRefused(c)
               \/ \E b \in Branches : Use(b)
               \/ Abort \/ AbortRefused \/ Cleanup
               \/ \E step \in StepNames : Revert(step) \/ RevertRefused(step)
               \/ UserEdit \/ CheckoutMaster \/ Crash
      BY <2>6 DEF Start, StartAgain, RefuseCommand, SaveChanges,
           MigrateCommand, ResolveAll, Resolve, ResolveRefused, Use, Abort,
           AbortRefused, Cleanup, Revert, RevertRefused, Refuse, UserEdit,
           CheckoutMaster, Crash, repository
    <2> QED BY <2>2, <2>3, <2>4, <2>5, <2>6 DEF Next, ProgramStep, Command
  <1>2. Len(commits) \in Nat /\ commits \in Seq(CommitType)
    BY DEF Inv, TypeOK
  <1> QED BY <1>1, <1>2 DEF CommitIds

\* What is extracted lies on top of what was left; between that and creating head
\* "initial" nothing else is committed; from then on head "initial" does not move.
LEMMA BaselineStep ==
  ASSUME Inv, Baseline, [Next]_vars
  PROVE  Baseline'
  <1> USE DEF Inv
  <1>0. Len(commits) \in Nat
    BY DEF TypeOK
  <1>1. CASE StartClear
    BY <1>1 DEF StartClear, Begin, Baseline, BaselineIsWhole, Initialized
  <1>2. CASE Unpack
    <2>1. ~Initialized /\ UNCHANGED initial
      BY <1>2 DEF Unpack, Refuse, Control, StartSteps, repository
    <2>2. pc' \in {"idle", "commit_initial"}
      BY <1>2 DEF Unpack, Refuse, Finish, Goto
    <2>3. worktree' \subseteq UNION Archives
      BY <1>2, <2>1 DEF Unpack, Refuse, Baseline, Extracted, HalfExtracted
    <2>4. pc' = "commit_initial" => FromArchive(worktree')
      <3> SUFFICES ASSUME pc' = "commit_initial" PROVE FromArchive(worktree')
        OBVIOUS
      <3>1. PICK archive \in Archives : worktree' = Extracted(archive)
        BY <1>2 DEF Unpack, Refuse, Finish
      <3>2. archive \subseteq Covers[archive]
        BY MigrationAssumption
      <3>3. worktree' \cap Covers[archive] = archive
        BY <3>1, <3>2 DEF Extracted
      <3> QED BY <2>3, <3>3 DEF FromArchive
    <2> QED BY <2>1, <2>2, <2>3, <2>4 DEF Baseline, BaselineIsWhole, Initialized, FromArchive
  <1>3. CASE CommitInitial
    BY <1>3 DEF CommitInitial, Goto, Baseline, BaselineIsWhole, Control, StartSteps,
         Initialized
  <1>4. CASE Reformat
    <2>1. commits'[master'].name = "reformat" /\ commits'[master'].content = worktree
      BY <1>0, <1>4 DEF Reformat, Commit, NewId, TypeOK
    <2> QED BY <1>4, <2>1 DEF Reformat, Baseline, BaselineIsWhole, Control, StartSteps,
              Initialized, Tree
  <1>5. CASE CreateInitial
    <2>1. master # 0 /\ initial' = master /\ UNCHANGED commits
      BY <1>5 DEF CreateInitial, Control
    <2>2. pc' \in {"search", "idle"}
      BY <1>5 DEF CreateInitial, Goto, Finish
    <2>3. commits[master].name = "reformat" /\ FromArchive(Tree(master))
      BY <1>5 DEF CreateInitial, Baseline
    <2> QED BY <2>1, <2>2, <2>3 DEF Baseline, BaselineIsWhole, Initialized, FromArchive, Tree
  <1>6. CASE /\ ~StartClear /\ UNCHANGED initial
             /\ Initialized \/ UNCHANGED worktree
             /\ pc' \notin {"commit_initial", "reformat", "create_initial"}
    <2>1. BaselineIsWhole'
      <3>1. Initialized => initial \in CommitIds
        BY <1>0 DEF TypeOK, Initialized, CommitIds
      <3>2. Initialized => commits'[initial] = commits[initial]
        BY <1>6, <3>1, CommitsKept
      <3> QED BY <1>6, <3>2 DEF Baseline, BaselineIsWhole, Initialized, Tree
    <2> QED BY <1>6, <2>1 DEF Baseline, Initialized
  <1>7. CASE UNCHANGED vars
    BY <1>7 DEF vars, Baseline, BaselineIsWhole, Initialized, Tree
  <1>8. CASE \/ Search \/ CommitChanges \/ ClearCurrent \/ PruneBranch \/ PruneDone
             \/ SkipBranch \/ BranchOff \/ RenderMitigation \/ CommitBranch \/ RenderComments
             \/ MergeUsed \/ MergeRecommended
             \/ \E c \in Conflicts : PickConflict(c)
             \/ AllResolved \/ Forget \/ RestoreTree
    <2>1. UNCHANGED initial /\ pc' \notin {"commit_initial", "reformat", "create_initial"}
      BY <1>8 DEF Search, CommitChanges, ClearCurrent, PruneBranch, PruneDone, SkipBranch,
           BranchOff, RenderMitigation, CommitBranch, RenderComments, MergeUsed,
           MergeRecommended, PickConflict, AllResolved, Forget, RestoreTree, Goto, Finish,
           repository, memory
    <2>2. pc \notin StartSteps \cup {"idle"}
      BY <1>8 DEF Search, CommitChanges, ClearCurrent, PruneBranch, PruneDone, SkipBranch,
           BranchOff, RenderMitigation, CommitBranch, RenderComments, MergeUsed,
           MergeRecommended, PickConflict, AllResolved, Forget, RestoreTree, StartSteps
    <2>3. Initialized /\ ~StartClear
      BY <2>2 DEF Control, StartClear
    <2> QED BY <1>6, <2>1, <2>3
  <1>9. CASE \/ Start \/ StartAgain \/ RefuseCommand
             \/ SaveChanges \/ MigrateCommand \/ ResolveAll
             \/ \E c \in Conflicts : Resolve(c) \/ ResolveRefused(c)
             \/ \E b \in Branches : Use(b)
             \/ Abort \/ AbortRefused \/ Cleanup
             \/ \E step \in StepNames : Revert(step) \/ RevertRefused(step)
             \/ UserEdit \/ CheckoutMaster \/ Crash
    <2>1. UNCHANGED initial /\ pc' \notin {"commit_initial", "reformat", "create_initial"}
      BY <1>9 DEF Start, StartAgain, RefuseCommand, SaveChanges, MigrateCommand, ResolveAll,
           Resolve, ResolveRefused, Use, Abort, AbortRefused, Cleanup, Revert, RevertRefused,
           Refuse, UserEdit, CheckoutMaster, Crash, Begin, Finish, repository, memory
    <2>2. Initialized \/ UNCHANGED worktree
      BY <1>9 DEF Start, StartAgain, RefuseCommand, SaveChanges, MigrateCommand, ResolveAll,
           Resolve, ResolveRefused, Use, Abort, AbortRefused, Cleanup, Revert, RevertRefused,
           Refuse, UserEdit, CheckoutMaster, Crash, Ready, Control
    <2> QED BY <1>1, <1>6, <2>1, <2>2
  <1> QED BY <1>1, <1>2, <1>3, <1>4, <1>5, <1>7, <1>8, <1>9 DEF Next, ProgramStep, Command

\* A migration that counts as started has a reformatted baseline that is a whole
\* archive in the files that the archive has, and comes from archives in the others,
\* wherever `start` was killed, failed half way or begun again over what was left.
THEOREM BaselineWhole ==
  Spec => []BaselineIsWhole
  <1>1. Init => Baseline
    BY DEF Init, Baseline, BaselineIsWhole, Initialized
  <1>2. Inv /\ Baseline /\ [Next]_vars => Baseline'
    BY BaselineStep
  <1>3. Baseline => BaselineIsWhole
    BY DEF Baseline
  <1> QED BY <1>1, <1>2, <1>3, Invariance, PTL DEF Spec

-----------------------------------------------------------------------------
(* What process() reports                                                   *)

\* What a command establishes step by step holds until process() returns.
LEMMA SettledStep ==
  ASSUME Inv, Settled, [Next]_vars
  PROVE  Settled'
  <1> USE DEF Inv
  <1>1. ASSUME pc' = "idle", cmd' = "none", config' = None
        PROVE  Settled'
    BY <1>1 DEF Settled, Concluding
  <1>2. ASSUME NEW result, Finish(result)
        PROVE  Settled'
    BY <1>1, <1>2 DEF Finish
  <1>3. CASE \/ StartAgain \/ RefuseCommand \/ AbortRefused \/ MigrateCommand \/ Cleanup
             \/ (\E c \in Conflicts : ResolveRefused(c))
             \/ (\E step \in StepNames : RevertRefused(step))
             \/ Crash \/ RenderComments
    BY <1>2, <1>3 DEF StartAgain, RefuseCommand, AbortRefused, MigrateCommand, Cleanup,
         ResolveRefused, RevertRefused, Crash, RenderComments, Refuse
  <1>4. CASE UNCHANGED vars
    BY <1>4 DEF vars, Settled, Concluding, Tree
  <1>5. CASE UserEdit \/ CheckoutMaster
    BY <1>5 DEF UserEdit, CheckoutMaster, memory, Settled, Concluding
  <1>6. CASE StartClear \/ Start
    BY <1>6 DEF StartClear, Start, Begin, Settled, Concluding
  <1>17. CASE Unpack \/ CommitInitial
    BY <1>2, <1>17 DEF Unpack, Refuse, CommitInitial, Goto, Settled, Concluding
  <1>18. CASE Reformat \/ CreateInitial
    BY <1>2, <1>18 DEF Reformat, CreateInitial, Goto, Settled, Concluding
  <1>7. CASE Search
    <2>1. CASE Finish("unresolved")
      BY <1>2, <2>1
    <2>2. CASE ~Finish("unresolved")
      BY <1>7, <2>2 DEF Search, repository, Settled, Concluding
    <2> QED BY <2>1, <2>2
  <1>8. CASE CommitChanges
    <2>1. CASE Finish("local_changes")
      BY <1>2, <2>1
    <2>2. CASE ~Dirty /\ Goto("clear") /\ UNCHANGED <<commits, master>>
      <3>1. head = "master"
        BY <1>8 DEF CommitChanges, Control, BranchSteps
      <3>2. worktree = Tree(master)
        BY <2>2, <3>1 DEF Dirty, HeadCommit
      <3> QED BY <1>8, <2>2, <3>2 DEF CommitChanges, shelf, Goto, Settled, Concluding, Tree
    <2>3. CASE /\ Commit(IF message # None THEN message ELSE current, master, Past(master))
               /\ master' = NewId /\ Goto("clear")
      <3>1. commits'[master'].content = worktree
        BY <2>3 DEF Commit, NewId, TypeOK
      <3> QED BY <1>8, <2>3, <3>1 DEF CommitChanges, shelf, Goto, Settled, Concluding, Tree
    <2> QED BY <1>8, <2>1, <2>2, <2>3 DEF CommitChanges
  <1>9. CASE ClearCurrent \/ PruneBranch
    BY <1>9 DEF ClearCurrent, PruneBranch, Goto, Settled, Concluding, Tree, repository, shelf,
         memory
  <1>10. CASE PruneDone
    BY <1>2, <1>10 DEF PruneDone, Goto, Settled, Concluding, repository, shelf
  <1>11. CASE \/ SaveChanges \/ ResolveAll \/ Abort
              \/ \E c \in Conflicts : Resolve(c)
              \/ \E step \in StepNames : Revert(step)
    BY <1>11 DEF SaveChanges, ResolveAll, Abort, Resolve, Revert, Ready, Begin, Settled,
         Concluding
  <1>12. ASSUME NEW b \in Branches, Use(b)
         PROVE  Settled'
    BY <1>2, <1>12 DEF Use, Ready, Settled, Concluding
  <1>13. CASE SkipBranch \/ BranchOff \/ RenderMitigation \/ CommitBranch
    BY <1>2, <1>13 DEF SkipBranch, BranchOff, RenderMitigation, CommitBranch, Goto, Settled,
         Concluding
  <1>14. CASE MergeUsed \/ MergeRecommended
    <2>1. CASE MergeUsed
      BY <2>1 DEF MergeUsed, Settled, Concluding
    <2>2. CASE MergeRecommended
      BY <2>2 DEF MergeRecommended, Settled, Concluding
    <2> QED BY <1>14, <2>1, <2>2
  <1>15. CASE (\E c \in Conflicts : PickConflict(c)) \/ AllResolved
    BY <1>15 DEF PickConflict, AllResolved, Settled, Concluding, repository
  <1>16. CASE Forget \/ RestoreTree
    BY <1>16 DEF Forget, RestoreTree, Goto, Settled, Concluding
  <1> QED BY <1>3, <1>4, <1>5, <1>6, <1>7, <1>8, <1>9, <1>10, <1>11, <1>12, <1>13, <1>14,
             <1>15, <1>16, <1>17, <1>18 DEF Next, ProgramStep, Command

\* Settled is an invariant.
LEMMA SettledInvariance ==
  Spec => []Settled
  <1>1. Init => Settled
    BY DEF Init, Settled, Concluding
  <1>2. Inv /\ Settled /\ [Next]_vars => Settled'
    BY SettledStep
  <1> QED BY <1>1, <1>2, Invariance, PTL DEF Spec

\* process() returns to the command's report only when what it reports is the
\* state of the last commit and nothing is pending.
THEOREM VerdictSound ==
  Spec => VerdictIsCommitted
  <1> DEFINE Verdict ==
        pc = "prune" /\ cmd = "report" /\ outcome' = "done" =>
          /\ worktree' = Tree(master)'
          /\ found' = Detected(Tree(master))'
          /\ MitigationBranches' = {}
          /\ current' = None
  <1>1. ASSUME Inv, Settled, [Next]_vars
        PROVE  [Verdict]_vars
    <2>1. SUFFICES ASSUME Next, pc = "prune", cmd = "report", outcome' = "done"
                   PROVE  Verdict
      BY <1>1
    <2>2. PruneDone
      <3>1. outcome = "running"
        BY <1>1, <2>1 DEF Settled
      <3>2. ~ProgramStep \/ PruneBranch \/ PruneDone
        BY <2>1 DEF ProgramStep, Unpack, CommitInitial, Reformat, CreateInitial, Search,
             CommitChanges, ClearCurrent, SkipBranch, BranchOff, RenderMitigation,
             CommitBranch, RenderComments, MergeUsed, MergeRecommended, PickConflict,
             AllResolved, Forget, RestoreTree
      <3>3. ~Command /\ ~UserEdit /\ ~CheckoutMaster
        BY <2>1 DEF Command, StartClear, Start, StartAgain, RefuseCommand, SaveChanges,
             MigrateCommand, ResolveAll, Resolve, ResolveRefused, Use, Abort, AbortRefused,
             Cleanup, Revert, RevertRefused, Ready, UserEdit, CheckoutMaster
      <3>4. ~PruneBranch /\ ~Crash
        BY <2>1, <3>1 DEF PruneBranch, memory, Crash, Finish
      <3> QED BY <2>1, <3>2, <3>3, <3>4 DEF Next
    <2>3. /\ worktree = Tree(master) /\ found = Detected(worktree) /\ current = None
      BY <1>1, <2>1 DEF Settled, Concluding
    <2> QED BY <2>2, <2>3 DEF PruneDone, MitigationBranches, Tree, Detected, repository, shelf
  <1>2. Inv /\ Settled /\ [Next]_vars => [Verdict]_vars
    BY <1>1
  <1> QED BY <1>2, Invariance, SettledInvariance, PTL DEF Spec, VerdictIsCommitted

\* A conflict being resolved is given up only when it is gone from the working
\* tree, by `abort` or by a restart; `resolve-all` included.
THEOREM CurrentKept ==
  Spec => CurrentKeptUntilGone
  <1> DEFINE Kept ==
        current # None /\ current' # current =>
          \/ current \notin Detected(worktree)
          \/ pc \in {"forget", "idle"} /\ current' = None
  <1>1. ASSUME Inv, Settled, [Next]_vars
        PROVE  [Kept]_vars
    <2>1. CASE UNCHANGED current
      BY <2>1
    <2>2. CASE ClearCurrent
      BY <1>1, <2>2 DEF ClearCurrent, Settled
    <2>3. CASE StartClear \/ Forget
      BY <2>3 DEF StartClear, Forget
    <2>4. ASSUME NEW c \in Conflicts, Resolve(c) \/ PickConflict(c)
          PROVE  Kept
      BY <1>1, <2>4 DEF Resolve, PickConflict, Settled
    <2>5. ~(ClearCurrent \/ StartClear \/ Forget)
          /\ ~(\E c \in Conflicts : Resolve(c) \/ PickConflict(c))
          /\ ProgramStep => UNCHANGED current
      BY DEF ProgramStep, Unpack, Refuse, CommitInitial, Reformat, CreateInitial, Search,
           CommitChanges, PruneBranch, PruneDone, SkipBranch, BranchOff,
           RenderMitigation, CommitBranch, RenderComments, MergeUsed, MergeRecommended,
           AllResolved, RestoreTree, shelf
    <2>6. ~(ClearCurrent \/ StartClear \/ Forget)
          /\ ~(\E c \in Conflicts : Resolve(c) \/ PickConflict(c))
          /\ (Command \/ UserEdit \/ CheckoutMaster \/ Crash) => UNCHANGED current
      BY DEF Command, Start, StartAgain, RefuseCommand, SaveChanges, MigrateCommand,
           ResolveAll, ResolveRefused, Use, Abort, AbortRefused, Cleanup, Revert,
           RevertRefused, Refuse, UserEdit, CheckoutMaster, Crash, shelf
    <2> QED BY <1>1, <2>1, <2>2, <2>3, <2>4, <2>5, <2>6 DEF Next
  <1>2. Inv /\ Settled /\ [Next]_vars => [Kept]_vars
    BY <1>1
  <1> QED BY <1>2, Invariance, SettledInvariance, PTL DEF Spec, CurrentKeptUntilGone

-----------------------------------------------------------------------------
(* Whose branches there are                                                 *)

\* As long as no command is killed, every step leaves only branches of the
\* conflict being resolved, and has only such branches still to make.
LEMMA OwnedStep ==
  ASSUME Inv, Owned, ~MayCrash, [Next]_vars
  PROVE  Owned'
  <1> USE MigrationAssumption DEF Inv
  <1>1. ASSUME UNCHANGED <<branches, current>>, pc # "prune",
               pc' \notin BranchSteps, pc' \notin {"pick", "forget"}
        PROVE  Owned'
    BY <1>1 DEF Owned, BranchesBelongToCurrent, MitigationBranches
  <1>2. CASE \/ StartAgain \/ RefuseCommand \/ AbortRefused \/ MigrateCommand \/ Cleanup
             \/ (\E c \in Conflicts : ResolveRefused(c))
             \/ (\E step \in StepNames : RevertRefused(step))
    BY <1>1, <1>2 DEF StartAgain, RefuseCommand, AbortRefused, MigrateCommand, Cleanup,
         ResolveRefused, RevertRefused, Refuse, Finish, Ready, BranchSteps, repository, shelf
  <1>3. CASE UserEdit \/ CheckoutMaster
    BY <1>1, <1>3 DEF UserEdit, CheckoutMaster, memory, repository, shelf, BranchSteps
  <1>4. CASE UNCHANGED vars
    BY <1>4 DEF vars, Owned, BranchesBelongToCurrent, MitigationBranches
  <1>5. CASE StartClear
    BY <1>5 DEF StartClear, Begin, Owned, BranchesBelongToCurrent, MitigationBranches,
         BranchSteps
  <1>6. CASE Start \/ Unpack \/ CommitInitial \/ Reformat \/ CreateInitial
    BY <1>1, <1>6 DEF Start, Unpack, Refuse, CommitInitial, Reformat, CreateInitial, Begin,
         Goto, Finish, BranchSteps, repository, shelf
  <1>7. CASE Search \/ CommitChanges
    BY <1>1, <1>7 DEF Search, CommitChanges, Goto, Finish, BranchSteps, repository, shelf
  <1>8. CASE ClearCurrent \/ PruneBranch
    BY <1>8 DEF ClearCurrent, PruneBranch, Goto, memory, Owned, BranchesBelongToCurrent,
         BranchSteps
  <1>9. CASE PruneDone
    <2>1. MitigationBranches' = {}
      BY <1>9 DEF PruneDone, MitigationBranches, repository
    <2> QED BY <1>9, <2>1 DEF PruneDone, Goto, Finish, Owned, BranchesBelongToCurrent,
              BranchSteps
  <1>10. CASE \/ SaveChanges \/ ResolveAll
              \/ \E b \in Branches : Use(b)
              \/ \E step \in StepNames : Revert(step)
    BY <1>1, <1>10 DEF SaveChanges, ResolveAll, Use, Revert, Ready, Begin, Finish, BranchSteps,
         repository, shelf
  <1>11. CASE Abort
    BY <1>11 DEF Abort, Begin, Owned, BranchesBelongToCurrent, BranchSteps
  <1>12. ASSUME NEW c \in Conflicts, Resolve(c)
         PROVE  Owned'
    <2>1. \A b \in MitigationBranches : ConflictOf[b] = c
      <3>1. pc = "idle" /\ current \in {None, c}
        BY <1>12 DEF Resolve, Ready
      <3>2. \A b \in MitigationBranches : ConflictOf[b] = current /\ ConflictOf[b] \in Conflicts
        BY <3>1 DEF Owned, BranchesBelongToCurrent, MitigationBranches
      <3> QED BY <3>1, <3>2
    <2>2. \A i \in 1..Len(todo') : ConflictOf[todo'[i]] = c
      BY <1>12 DEF Resolve
    <2> QED BY <1>12, <2>1, <2>2 DEF Resolve, Owned, BranchesBelongToCurrent,
              MitigationBranches, BranchSteps, repository
  <1>13. CASE SkipBranch
    <2>1. \A i \in 1..Len(todo') : todo'[i] = todo[i + 1] /\ i + 1 \in 1..Len(todo)
      BY <1>13 DEF SkipBranch, TypeOK
    <2>2. \A i \in 1..Len(todo') : ConflictOf[todo'[i]] = current
      BY <1>13, <2>1 DEF SkipBranch, Owned, BranchSteps
    <2> QED BY <1>13, <2>2 DEF SkipBranch, Owned, BranchesBelongToCurrent, MitigationBranches,
              BranchSteps, repository, shelf
  <1>14. CASE BranchOff
    <2>1. ConflictOf[Head(todo)] = current
      <3>1. todo \in Seq(Branches) /\ todo # <<>>
        BY <1>14 DEF BranchOff, TypeOK
      <3>2. Head(todo) = todo[1] /\ 1 \in 1..Len(todo)
        BY <3>1
      <3>3. \A i \in 1..Len(todo) : ConflictOf[todo[i]] = current
        BY <1>14 DEF BranchOff, Owned, BranchSteps
      <3> QED BY <3>2, <3>3
    <2>2. \A b \in MitigationBranches' : b \in MitigationBranches \/ b = Head(todo)
      BY <1>14 DEF BranchOff, MitigationBranches, TypeOK
    <2> QED BY <1>14, <2>1, <2>2 DEF BranchOff, Goto, Owned, BranchesBelongToCurrent,
              BranchSteps, shelf
  <1>15. CASE RenderMitigation
    BY <1>15 DEF RenderMitigation, Goto, Finish, Owned, BranchesBelongToCurrent,
         MitigationBranches, BranchSteps, repository, shelf
  <1>16. CASE CommitBranch
    <2>1. \A b \in MitigationBranches' : b \in MitigationBranches
      BY <1>16 DEF CommitBranch, Control, MitigationBranches, TypeOK
    <2>2. \A i \in 1..Len(todo') : todo'[i] = todo[i + 1] /\ i + 1 \in 1..Len(todo)
      BY <1>16 DEF CommitBranch, Control, TypeOK
    <2>3. \A i \in 1..Len(todo') : ConflictOf[todo'[i]] = current
      BY <1>16, <2>2 DEF CommitBranch, Owned, BranchSteps
    <2> QED BY <1>16, <2>1, <2>3 DEF CommitBranch, Owned, BranchesBelongToCurrent,
              BranchSteps, shelf
  <1>17. CASE RenderComments \/ MergeUsed \/ MergeRecommended \/ AllResolved \/ RestoreTree
    BY <1>1, <1>17 DEF RenderComments, MergeUsed, MergeRecommended, AllResolved, RestoreTree,
         Goto, Finish, BranchSteps, repository, shelf
  <1>18. ASSUME NEW c \in Conflicts, PickConflict(c)
         PROVE  Owned'
    <2>1. MitigationBranches' = {}
      BY <1>18 DEF PickConflict, Owned, MitigationBranches, repository
    <2>2. todo' = <<Recommended[c]>> /\ current' = c /\ ConflictOf[Recommended[c]] = c
      BY <1>18 DEF PickConflict
    <2>3. \A i \in 1..Len(todo') : ConflictOf[todo'[i]] = current'
      BY <2>2
    <2> QED BY <1>18, <2>1, <2>3 DEF PickConflict, Owned, BranchesBelongToCurrent
  <1>19. CASE Forget
    <2>1. MitigationBranches' = {}
      BY <1>19 DEF Forget, Owned, MitigationBranches, repository
    <2> QED BY <1>19, <2>1 DEF Forget, Owned, BranchesBelongToCurrent, BranchSteps
  <1>20. CASE Crash
    BY <1>20 DEF Crash
  <1> QED BY <1>2, <1>3, <1>4, <1>5, <1>6, <1>7, <1>8, <1>9, <1>10, <1>11, <1>12, <1>13,
             <1>14, <1>15, <1>16, <1>17, <1>18, <1>19, <1>20 DEF Next, ProgramStep, Command

\* If no command is killed, what `resolve` and `use` take for mitigations of the
\* current conflict are mitigations of the current conflict, whatever fails.
THEOREM BranchesOwned ==
  ~MayCrash => (Spec => []BranchesBelongToCurrent)
  <1> SUFFICES ASSUME ~MayCrash PROVE Spec => []BranchesBelongToCurrent
    OBVIOUS
  <1>1. Init => Owned
    BY DEF Init, Owned, BranchesBelongToCurrent, MitigationBranches, BranchSteps
  <1>2. Inv /\ Owned /\ [Next]_vars => Owned'
    BY OwnedStep
  <1>3. Owned => BranchesBelongToCurrent
    BY DEF Owned
  <1> QED BY <1>1, <1>2, <1>3, Invariance, PTL DEF Spec

-----------------------------------------------------------------------------
(* The list of changes that the migration implements                        *)

\* A new commit made on top of a reference, and of all that this contains, keeps
\* the store rooted.
LEMMA RootedGrows ==
  ASSUME TypeOK, Store, Rooted, NEW name, NEW content,
         NEW parent \in 0..Len(commits), NEW past, Past(parent) \subseteq past,
         commits' = Append(commits,
           [name |-> name, parent |-> parent, past |-> past \cup {NewId},
            content |-> content])
  PROVE  Rooted'
  <1> DEFINE r == [name |-> name, parent |-> parent, past |-> past \cup {NewId},
                   content |-> content]
  <1>1. /\ Len(commits) \in Nat
        /\ Len(commits') = Len(commits) + 1
        /\ \A i \in 1..Len(commits) : commits'[i] = commits[i]
        /\ commits'[Len(commits) + 1] = r
    BY DEF TypeOK
  <1> DEFINE NewPast(k) == IF k = 0 THEN {} ELSE commits'[k].past
  <1>2. \A k \in 0..Len(commits) : NewPast(k) = Past(k)
    BY <1>1 DEF Past
  <1>3. SUFFICES ASSUME NEW i \in 1..Len(commits) + 1
                 PROVE  NewPast(commits'[i].parent) \subseteq commits'[i].past
    BY <1>1 DEF Rooted, CommitIds, Past
  <1> HIDE DEF NewPast
  <1>4. CASE i \in 1..Len(commits)
    <2>1. commits[i].parent \in 0..Len(commits)
      <3>1. commits[i].parent \in Nat /\ commits[i].parent < i
        BY <1>4, CommitFields DEF TypeOK, Store, CommitIds
      <3> QED BY <1>1, <1>4, <3>1
    <2>2. Past(commits[i].parent) \subseteq commits[i].past
      BY <1>4 DEF Rooted, CommitIds
    <2> QED BY <1>1, <1>2, <1>4, <2>1, <2>2
  <1>5. CASE i = Len(commits) + 1
    BY <1>1, <1>2, <1>5
  <1>6. i \in 1..Len(commits) \/ i = Len(commits) + 1
    <2>1. Len(commits) \in Nat /\ i \in 1..Len(commits) + 1
      BY <1>1
    <2> QED BY ONLY <2>1
  <1> QED BY <1>4, <1>5, <1>6

\* Every commit is made on its first parent.
LEMMA RootedStep ==
  ASSUME Inv, Rooted, [Next]_vars
  PROVE  Rooted'
  <1> USE DEF Inv
  <1>0. master \in 0..Len(commits) /\ Len(commits) \in Nat
    BY DEF TypeOK
  <1>1. CASE UNCHANGED commits
    BY <1>1 DEF Rooted, CommitIds, Past
  <1>2. CASE StartClear
    <2>1. commits' = <<>>
      BY <1>2 DEF StartClear
    <2> QED BY <2>1 DEF Rooted, CommitIds
  <1>3. CASE CommitInitial \/ Reformat \/ CommitChanges
    <2>1. CASE ~UNCHANGED commits
      <3>1. PICK name : Commit(name, master, Past(master))
        BY <1>3, <2>1 DEF CommitInitial, Reformat, CommitChanges
      <3> QED BY <1>0, <3>1, RootedGrows DEF Commit
    <2> QED BY <1>1, <2>1
  <1>4. CASE CommitBranch
    <2>1. branches[head] \in 0..Len(commits)
      BY <1>4 DEF CommitBranch, Control, TypeOK
    <2> QED BY <1>4, <2>1, RootedGrows DEF CommitBranch, Commit
  <1>5. CASE MergeUsed \/ MergeRecommended
    <2>1. PICK b \in Branches : MergeBranch(b)
      BY <1>5 DEF MergeUsed, MergeRecommended, Control, TypeOK
    <2>2. CASE ~UNCHANGED commits
      <3>1. commits' = Append(commits,
              [name |-> "merge", parent |-> master,
               past |-> (Past(master) \cup Past(branches[b])) \cup {NewId},
               content |-> worktree'])
        BY <2>1, <2>2 DEF MergeBranch
      <3> QED BY ONLY <1>0, <3>1, RootedGrows, Inv, Rooted DEF Inv
    <2> QED BY <1>1, <2>2
  <1>6. CASE ~(\/ StartClear \/ CommitInitial \/ Reformat \/ CommitChanges \/ CommitBranch
               \/ MergeUsed \/ MergeRecommended)
    <2>1. UNCHANGED commits
      BY <1>6 DEF Next, ProgramStep, Command, vars,
           Unpack, CreateInitial, Search, ClearCurrent, PruneBranch, PruneDone,
           SkipBranch, BranchOff, RenderMitigation, RenderComments, PickConflict,
           AllResolved, Forget, RestoreTree, Refuse, repository,
           Start, StartAgain, RefuseCommand, SaveChanges,
           MigrateCommand, ResolveAll, Resolve, ResolveRefused, Use, Abort,
           AbortRefused, Cleanup, Revert, RevertRefused, UserEdit,
           CheckoutMaster, Crash
    <2> QED BY <1>1, <2>1
  <1> QED BY <1>2, <1>3, <1>4, <1>5, <1>6

\* A mitigation is merged only for a conflict that is being resolved, and one is
\* forgotten only by abort().
LEMMA AskedStep ==
  ASSUME Inv, Asked, [Next]_vars
  PROVE  Asked'
  <1> USE DEF Inv
  <1>1. ASSUME pc' \notin {"merge", "forget"}
        PROVE  Asked'
    BY <1>1 DEF Asked
  <1>2. ASSUME NEW b \in Branches, Use(b)
        PROVE  Asked'
    BY <1>2 DEF Use, Finish, Asked, TypeOK, shelf
  <1>3. CASE CommitBranch \/ PruneDone
    BY <1>3 DEF CommitBranch, PruneDone, Goto, Finish, Asked, Control, BranchSteps, shelf
  <1>4. CASE UNCHANGED vars \/ UserEdit \/ CheckoutMaster
    BY <1>4 DEF vars, UserEdit, CheckoutMaster, memory, shelf, Asked
  <1>5. CASE \/ Unpack \/ CommitInitial \/ Reformat \/ CreateInitial
             \/ Search \/ CommitChanges \/ ClearCurrent \/ PruneBranch
             \/ SkipBranch \/ BranchOff \/ RenderMitigation \/ RenderComments
             \/ MergeUsed \/ MergeRecommended
             \/ \E c \in Conflicts : PickConflict(c)
             \/ AllResolved \/ Forget \/ RestoreTree
    BY <1>1, <1>5 DEF Unpack, CommitInitial, Reformat, CreateInitial, Search, CommitChanges,
         ClearCurrent, PruneBranch, SkipBranch, BranchOff, RenderMitigation, RenderComments,
         MergeUsed, MergeRecommended, PickConflict, AllResolved, Forget, RestoreTree, Refuse,
         Goto, Finish, memory
  <1>6. CASE \/ StartClear \/ Start \/ StartAgain \/ RefuseCommand
             \/ SaveChanges \/ MigrateCommand \/ ResolveAll
             \/ \E c \in Conflicts : Resolve(c) \/ ResolveRefused(c)
             \/ Abort \/ AbortRefused \/ Cleanup
             \/ \E step \in StepNames : Revert(step) \/ RevertRefused(step)
             \/ Crash
    BY <1>1, <1>6 DEF StartClear, Start, StartAgain, RefuseCommand, SaveChanges,
         MigrateCommand, ResolveAll, Resolve, ResolveRefused, Abort, AbortRefused, Cleanup,
         Revert, RevertRefused, Refuse, Crash, Begin, Finish
  <1> QED BY <1>2, <1>3, <1>4, <1>5, <1>6 DEF Next, ProgramStep, Command

\* The applied changes are what master descends from and is newer than head
\* "initial"; master is the last of them.
Newer ==
  /\ Initialized => Changes = {i \in Past(master) : i > initial}
  /\ ~Initialized => Changes = {}
  /\ Changes \subseteq CommitIds
  /\ \A i \in Changes : i <= master
  /\ Initialized /\ master > initial => master \in Changes

\* It follows from what the object store looks like.
LEMMA ChangesAre ==
  ASSUME Inv, Closed
  PROVE  Newer
  <1> USE DEF Inv
  <1>1. /\ Len(commits) \in Nat
        /\ master \in 0..Len(commits) /\ initial \in 0..Len(commits)
    BY DEF TypeOK
  <1>2. CASE ~Initialized
    BY <1>2 DEF Changes, Newer
  <1>3. CASE Initialized
    <2>1. Past(initial) = 1..initial /\ master >= initial
      BY <1>3 DEF Descent
    <2>2. /\ Past(master) \subseteq CommitIds /\ 1..initial \subseteq Past(master)
      BY <1>1, <1>3, <2>1, Reachable
    <2>3. master \in CommitIds
      BY <1>1, <1>3, <2>1 DEF Initialized, CommitIds
    <2>4. master \in Past(master) /\ Past(master) \subseteq 1..master
      BY <1>1, <2>3 DEF Store, Past, CommitIds
    <2>5. Changes = {i \in Past(master) : i > initial}
      <3>1. Changes = Past(master) \ (1..initial)
        BY <1>3, <2>1, <2>2 DEF Changes, History
      <3>2. \A i \in Past(master) : i \in 1..initial <=> ~(i > initial)
        BY <1>1, <2>4
      <3> QED BY <3>1, <3>2
    <2>6. \A i \in Changes : i \in CommitIds /\ i <= master
      BY <1>1, <2>2, <2>4, <2>5
    <2> QED BY <1>3, <2>4, <2>5, <2>6 DEF Newer
  <1> QED BY <1>2, <1>3

\* The same after a step.
LEMMA ChangesThen ==
  Inv' /\ Closed' => Newer'
  <1>1. Inv /\ Closed => Newer
    BY ChangesAre
  <1> QED BY <1>1, PTL

\* Once started, the baseline is a content, which None is not.
LEMMA BaselineIs ==
  ASSUME Inv
  PROVE  /\ Initialized => BaselineContent = Tree(initial) /\ BaselineContent # None
         /\ ~Initialized => BaselineContent = None
  <1>1. Initialized => Tree(initial) \in Content
    BY CommitFields DEF Inv, TypeOK, Initialized, Tree
  <1> QED BY <1>1, MigrationAssumption DEF BaselineContent

\* The applied changes as a function.
LEMMA AppliedAre ==
  /\ DOMAIN AppliedChanges = Changes
  /\ \A i \in Changes : AppliedChanges[i] = commits[i]
  /\ AppliedChanges = Log!NoChanges <=> Changes = {}
  <1>1. DOMAIN AppliedChanges = Changes /\ \A i \in Changes : AppliedChanges[i] = commits[i]
    BY DEF AppliedChanges
  <1>2. DOMAIN Log!NoChanges = {}
    BY DEF Log!NoChanges
  <1>3. Changes = {} => AppliedChanges = Log!NoChanges
    BY DEF AppliedChanges, Log!NoChanges
  <1> QED BY <1>1, <1>2, <1>3

\* The same after a step.
LEMMA AppliedThen ==
  /\ DOMAIN AppliedChanges' = Changes'
  /\ \A i \in Changes' : AppliedChanges'[i] = commits'[i]
  BY DEF AppliedChanges

\* A step that moves neither head leaves baseline and applied changes as they are.
LEMMA HeadsStay ==
  ASSUME Inv, [Next]_vars, ~StartClear, UNCHANGED <<master, initial>>
  PROVE  UNCHANGED <<BaselineContent, AppliedChanges>>
  <1>1. \A i \in CommitIds : commits'[i] = commits[i]
    BY CommitsKept
  <1>2. master \in 0..Len(commits) /\ initial \in 0..Len(commits) /\ Len(commits) \in Nat
    BY DEF Inv, TypeOK
  <1>3. Past(master)' = Past(master) /\ Past(initial)' = Past(initial)
    BY <1>1, <1>2 DEF Past, CommitIds
  <1>4. Changes' = Changes
    BY <1>3 DEF Changes, History, Initialized
  <1>5. \A i \in Changes : i \in CommitIds
    <2>1. Past(master) \subseteq CommitIds /\ Past(initial) \subseteq CommitIds
      BY <1>2, Reachable DEF Inv
    <2> QED BY <2>1 DEF Changes, History
  <1>6. AppliedChanges' = AppliedChanges
    BY <1>1, <1>4, <1>5 DEF AppliedChanges
  <1>7. BaselineContent' = BaselineContent
    BY <1>1, <1>2 DEF BaselineContent, Initialized, Tree, CommitIds
  <1> QED BY <1>6, <1>7

\* The baseline changes only with head "initial".
LEMMA BaselineStays ==
  ASSUME Inv, [Next]_vars, ~StartClear, UNCHANGED initial
  PROVE  UNCHANGED BaselineContent
  <1>1. \A i \in CommitIds : commits'[i] = commits[i]
    BY CommitsKept
  <1>2. initial \in 0..Len(commits) /\ Len(commits) \in Nat
    BY DEF Inv, TypeOK
  <1> QED BY <1>1, <1>2 DEF BaselineContent, Initialized, Tree, CommitIds

\* Steps that leave everything the user knows of as it is.
LEMMA Stutter ==
  ASSUME Inv, [Next]_vars, ~StartClear, UNCHANGED <<master, initial, current, Request>>
  PROVE  UNCHANGED Log!vars
  BY HeadsStay DEF Log!vars

\* The first commit of head "initial" starts the migration.
LEMMA StartsLog ==
  ASSUME Grounds, Grounds', [Next]_vars, CreateInitial
  PROVE  Log!Start
  <1> USE DEF Grounds
  <1>1. ~Initialized /\ master # 0 /\ initial' = master /\ UNCHANGED <<commits, master, current>>
    BY DEF CreateInitial, Inv, Control, StartSteps, shelf
  <1>2. Initialized'
    BY <1>1 DEF Initialized
  <1>3. BaselineContent = None /\ BaselineContent' = Tree(master) /\ FromArchive(Tree(master))
    BY <1>1, <1>2, BaselineIs DEF CreateInitial, Baseline, BaselineContent, Tree
  <1>4. Changes = {} /\ Changes' = {}
    BY <1>1, <1>2 DEF Changes, History, Past
  <1>5. AppliedChanges' = AppliedChanges
    BY <1>4 DEF AppliedChanges
  <1>6. Request = "none" /\ Request' = "none"
    BY DEF CreateInitial, Goto, Finish, Settled, Request
  <1>7. BaselineContent' # None
    <2>1. Tree(master) \in Content
      BY <1>1, CommitFields DEF Inv, TypeOK, Tree
    <2> QED BY <1>3, <2>1, MigrationAssumption
  <1> QED BY <1>1, <1>3, <1>5, <1>6, <1>7 DEF Log!Start, FromArchive

\* `start --clear` gives everything up.
LEMMA RestartsLog ==
  ASSUME StartClear
  PROVE  Log!Restart
  <1>1. ~Initialized' /\ current' = None /\ Request' = "none"
    BY DEF StartClear, Begin, Initialized, Request
  <1>2. Changes' = {}
    BY <1>1 DEF Changes
  <1>3. AppliedChanges' = Log!NoChanges
    BY <1>2 DEF AppliedChanges, Log!NoChanges
  <1> QED BY <1>1, <1>3 DEF Log!Restart, BaselineContent

\* What a commit on master adds to the applied changes, and on what it was made.
LEMMA CommitAdds ==
  ASSUME Grounds, Grounds', [Next]_vars, ~StartClear, Initialized, UNCHANGED initial,
         NEW name, Commit(name, master, Past(master)), master' = NewId
  PROVE  /\ Changes' = Changes \cup {NewId}
         /\ \A i \in Changes : i < NewId /\ commits'[i] = commits[i]
         /\ commits'[NewId] = [name |-> name, parent |-> master,
                               past |-> Past(master) \cup {NewId}, content |-> worktree]
         /\ Changes \subseteq Past(master)
         /\ IF master \in Changes THEN commits[master].past = Past(master) ELSE Changes = {}
  <1> USE DEF Grounds
  <1> DEFINE r == [name |-> name, parent |-> master,
                   past |-> Past(master) \cup {NewId}, content |-> worktree]
  <1>1. /\ Len(commits) \in Nat /\ NewId = Len(commits) + 1
        /\ initial \in 1..Len(commits) /\ master \in 1..Len(commits) /\ master >= initial
    BY DEF NewId, Inv, TypeOK, Initialized, Descent
  <1>2. commits'[NewId] = r
    BY <1>1 DEF Commit, Inv, TypeOK
  <1>3. Initialized' /\ Past(master)' = Past(master) \cup {NewId}
    BY <1>1, <1>2 DEF Initialized, Past
  <1>4. Changes = {i \in Past(master) : i > initial} /\ Changes \subseteq CommitIds
        /\ (\A i \in Changes : i <= master) /\ (master > initial => master \in Changes)
    BY ChangesAre DEF Newer
  <1>5. Changes' = {i \in Past(master)' : i > initial'}
    BY <1>3, ChangesThen DEF Newer
  <1>6. Changes' = Changes \cup {NewId}
    BY <1>1, <1>3, <1>4, <1>5
  <1>7. \A i \in Changes : i < NewId /\ commits'[i] = commits[i]
    <2>1. \A i \in CommitIds : commits'[i] = commits[i]
      BY CommitsKept
    <2> QED BY <1>1, <1>4, <2>1 DEF CommitIds
  <1>8. CASE master \in Changes
    BY <1>1, <1>2, <1>4, <1>6, <1>7, <1>8 DEF Past
  <1>9. CASE master \notin Changes
    <2>1. master = initial
      BY <1>1, <1>4, <1>9
    <2>2. \A i \in Changes : i > initial /\ i <= master
      BY <1>4
    <2>3. \A i \in Changes : i \in 1..Len(commits)
      BY <1>4 DEF CommitIds
    <2>4. Changes = {}
      BY <1>1, <2>1, <2>2, <2>3
    <2> QED BY <1>2, <1>4, <1>6, <1>7, <1>9, <2>4
  <1> QED BY <1>8, <1>9

\* process() records local changes.
LEMMA RecordsLog ==
  ASSUME Grounds, Grounds', [Next]_vars, CommitChanges
  PROVE  UNCHANGED Log!vars \/ \E id \in DOMAIN AppliedChanges' : Log!Record(id, AppliedChanges'[id])
  <1> USE DEF Grounds
  <1>0. ~StartClear /\ UNCHANGED <<initial, current>>
    BY DEF CommitChanges, StartClear, shelf
  <1>1. Request = "none" /\ Request' = "none"
    BY DEF CommitChanges, Goto, Finish, Settled, Request
  <1>2. CASE UNCHANGED <<commits, master>>
    BY <1>0, <1>1, <1>2, Stutter
  <1>3. CASE ~UNCHANGED <<commits, master>>
    <2> DEFINE name == IF message # None THEN message ELSE current
               r == [name |-> name, parent |-> master,
                     past |-> Past(master) \cup {NewId}, content |-> worktree]
    <2>1. /\ Commit(name, master, Past(master)) /\ master' = NewId
          /\ current # None \/ message # None
      BY <1>3 DEF CommitChanges
    <2>2. Initialized
      BY DEF CommitChanges, Inv, Control, StartSteps
    <2>3. name \in Messages \cup ({current} \ {None})
      BY <2>1 DEF Inv, TypeOK
    <2>4. current # None => current \notin worktree
      BY DEF CommitChanges, Settled, Detected, Inv, TypeOK
    <2> HIDE DEF name
    <2>5. /\ Changes' = Changes \cup {NewId}
          /\ \A i \in Changes : i < NewId /\ commits'[i] = commits[i]
          /\ commits'[NewId] = r
          /\ Changes \subseteq Past(master)
          /\ IF master \in Changes THEN commits[master].past = Past(master) ELSE Changes = {}
      BY <1>0, <2>1, <2>2, CommitAdds
    <2>6. /\ NewId \in DOMAIN AppliedChanges' /\ AppliedChanges'[NewId] = r
          /\ AppliedChanges' = [i \in Changes \cup {NewId} |->
                                  IF i = NewId THEN r ELSE AppliedChanges[i]]
      <3>1. AppliedChanges' = [i \in Changes' |-> commits'[i]]
        BY DEF AppliedChanges
      <3>2. \A i \in Changes : AppliedChanges[i] = commits[i]
        BY AppliedAre
      <3> QED BY <2>5, <3>1, <3>2
    <2>7. Log!MadeOn(r) = Changes
      <3>1. r.parent = master
        OBVIOUS
      <3>2. Log!MadeOn(r) = IF master \in Changes THEN Changes \cap AppliedChanges[master].past
                            ELSE {}
        BY <3>1, AppliedAre DEF Log!MadeOn
      <3> QED BY <2>5, <3>2, AppliedAre
    <2>8. BaselineContent # None /\ BaselineContent' = BaselineContent
      BY <1>0, <2>2, BaselineIs, BaselineStays
    <2>9. Log!Record(NewId, r)
      <3>1. DOMAIN AppliedChanges \cup {NewId} \subseteq r.past
        BY <2>5, AppliedAre
      <3>2. \A other \in DOMAIN AppliedChanges : other < NewId
        BY <2>5, AppliedAre
      <3>3. r.name \in Messages \cup ({current} \ {None})
        BY <2>3
      <3>4. current # None => current \notin r.content
        BY <2>4
      <3>5. AppliedChanges' = [i \in DOMAIN AppliedChanges \cup {NewId} |->
                                 IF i = NewId THEN r ELSE AppliedChanges[i]]
        BY <2>6, AppliedAre
      <3> HIDE DEF r
      <3> QED BY <1>0, <1>1, <2>7, <2>8, <3>1, <3>2, <3>3, <3>4, <3>5, AppliedAre DEF Log!Record
    <2> QED BY <2>6, <2>9
  <1> QED BY <1>2, <1>3

\* The applied changes lead to the content of master.
LEMMA LatestIs ==
  ASSUME Inv, Closed, Initialized
  PROVE  Log!Latest = Tree(master)
  <1>1. Newer
    BY ChangesAre
  <1>2. Len(commits) \in Nat /\ initial \in 1..Len(commits) /\ master \in 1..Len(commits)
        /\ master >= initial
    BY DEF Inv, TypeOK, Initialized, Descent
  <1>3. CASE Changes = {}
    <2>1. master = initial
      BY <1>1, <1>2, <1>3 DEF Newer
    <2>2. Log!Latest = BaselineContent
      BY <1>3, AppliedAre DEF Log!Latest
    <2> QED BY <2>1, <2>2, BaselineIs
  <1>4. CASE Changes # {}
    <2>1. PICK i \in Changes : TRUE
      BY <1>4
    <2>2. i > initial /\ i <= master /\ i \in 1..Len(commits)
      BY <1>1, <2>1 DEF Newer, CommitIds
    <2>3. master \in Changes
      BY <1>1, <1>2, <2>2 DEF Newer
    <2> DEFINE last == CHOOSE id \in Changes : \A other \in Changes : other <= id
    <2>4. last \in Changes /\ \A other \in Changes : other <= last
      BY <1>1, <2>3 DEF Newer
    <2>5. last <= master /\ master <= last /\ last \in 1..Len(commits)
      BY <1>1, <2>3, <2>4 DEF Newer, CommitIds
    <2>6. last = master
      BY <1>2, <2>5
    <2>7. Log!Latest = AppliedChanges[last].content
      BY <1>4, AppliedAre DEF Log!Latest
    <2> QED BY <2>3, <2>6, <2>7, AppliedAre DEF Tree
  <1> QED BY <1>3, <1>4

\* process() forgets the current conflict.
LEMMA ResolvesLog ==
  ASSUME Grounds, [Next]_vars, ClearCurrent
  PROVE  UNCHANGED Log!vars \/ Log!Resolved
  <1> USE DEF Grounds
  <1>1. /\ UNCHANGED <<master, initial>> /\ ~StartClear
        /\ Request = "none" /\ Request' = "none" /\ current' = None /\ Initialized
    BY DEF ClearCurrent, StartClear, Goto, Request, Settled, repository, Inv, Control, StartSteps
  <1>2. UNCHANGED <<BaselineContent, AppliedChanges>>
    BY <1>1, HeadsStay
  <1>3. CASE current = None
    BY <1>1, <1>2, <1>3 DEF Log!vars
  <1>4. CASE current # None
    <2>1. current \notin Log!Latest
      BY <1>1, <1>4, LatestIs DEF ClearCurrent, Settled, Detected, Inv, TypeOK
    <2> QED BY <1>1, <1>2, <1>4, <2>1 DEF Log!Resolved
  <1> QED BY <1>3, <1>4

\* `resolve` and `resolve-all` take a conflict up.
LEMMA TakesUpLog ==
  ASSUME Grounds, [Next]_vars, NEW c \in Conflicts, Resolve(c) \/ PickConflict(c)
  PROVE  UNCHANGED Log!vars \/ Log!TakeUp(c)
  <1> USE DEF Grounds
  <1>1. /\ UNCHANGED <<master, initial>> /\ ~StartClear
        /\ Request = "none" /\ Request' = "none" /\ current' = c /\ Initialized
        /\ current \in {None, c}
    BY DEF Resolve, PickConflict, StartClear, Begin, Ready, Request, Settled, repository, Inv, Control,
       StartSteps
  <1>2. UNCHANGED <<BaselineContent, AppliedChanges>>
    BY <1>1, HeadsStay
  <1> QED BY <1>1, <1>2, BaselineIs DEF Log!vars, Log!TakeUp

\* `use` and `resolve-all` come to a merge; `abort` begins.
LEMMA AsksLog ==
  ASSUME Grounds, [Next]_vars,
         CommitBranch \/ Abort \/ \E b \in Branches : Use(b)
  PROVE  UNCHANGED Log!vars \/ \E what \in {"adopt", "abort"} : Log!Ask(what)
  <1> USE DEF Grounds
  <1>1. UNCHANGED <<master, initial, current>> /\ ~StartClear /\ Request = "none"
    BY DEF CommitBranch, Abort, Use, Ready, StartClear, Begin, Finish, Request, Settled, shelf, repository
  <1>2. UNCHANGED <<BaselineContent, AppliedChanges>>
    BY <1>1, HeadsStay
  <1>3. Request' # "none" => current # None
    <2>1. CASE CommitBranch
      BY <2>1, MigrationAssumption DEF CommitBranch, Inv, Control, BranchSteps
    <2>2. CASE Abort
      BY <2>2 DEF Abort
    <2>3. CASE \E b \in Branches : Use(b)
      BY <2>3 DEF Use, Finish, Request
    <2> QED BY <2>1, <2>2, <2>3
  <1>4. Request' \in {"none", "adopt", "abort"}
    BY DEF Request
  <1> QED BY <1>1, <1>2, <1>3, <1>4 DEF Log!vars, Log!Ask

\* The end of abort().
LEMMA AbandonsLog ==
  ASSUME Grounds, [Next]_vars, Forget
  PROVE  Log!Abandon
  <1> USE DEF Grounds
  <1>1. /\ UNCHANGED <<master, initial>> /\ ~StartClear
        /\ Request = "abort" /\ Request' = "none" /\ current' = None
    BY DEF Forget, StartClear, Request, Asked, repository
  <1>2. UNCHANGED <<BaselineContent, AppliedChanges>>
    BY <1>1, HeadsStay
  <1> QED BY <1>1, <1>2 DEF Log!Abandon

\* The command is killed.
LEMMA InterruptsLog ==
  ASSUME Grounds, [Next]_vars, Crash
  PROVE  UNCHANGED Log!vars \/ Log!Interrupt
  <1> USE DEF Grounds
  <1>1. UNCHANGED <<master, initial, current>> /\ ~StartClear /\ Request' = "none"
    BY DEF Crash, Finish, StartClear, Request, repository, shelf
  <1>2. UNCHANGED <<BaselineContent, AppliedChanges>>
    BY <1>1, HeadsStay
  <1> QED BY <1>1, <1>2 DEF Log!vars, Log!Interrupt

\* `revert` goes back to what the oldest change of that name was made on.
LEMMA UndoesLog ==
  ASSUME Grounds, Grounds', [Next]_vars, NEW step \in StepNames, Revert(step)
  PROVE  /\ Request = "none" /\ AppliedChanges' # AppliedChanges
         /\ \E oldest \in DOMAIN AppliedChanges : Log!Undo(oldest)
  <1> USE DEF Grounds
  <1>1. /\ UNCHANGED <<commits, initial, current>> /\ ~StartClear
        /\ Request = "none" /\ Request' = "none" /\ Initialized /\ Initialized'
    BY DEF Revert, Ready, Begin, StartClear, Request, Settled, shelf, Initialized
  <1>2. PICK oldest \in StepsNamed(step) :
          (\A i \in StepsNamed(step) : oldest <= i) /\ master' = commits[oldest].parent
    BY DEF Revert
  <1>3. History = Changes
    BY <1>1 DEF Changes
  <1>4. oldest \in Changes
    BY <1>2, <1>3 DEF StepsNamed
  <1>5. \A id \in Changes : commits[id].name = commits[oldest].name => oldest <= id
    BY <1>2, <1>3 DEF StepsNamed
  <1> DEFINE p == commits[oldest].parent
  <1>6. /\ Len(commits) \in Nat /\ initial \in 1..Len(commits)
        /\ Changes = {i \in Past(master) : i > initial}
        /\ Changes \subseteq 1..Len(commits)
        /\ Changes' = {i \in Past(master)' : i > initial}
    BY <1>1, ChangesAre, ChangesThen DEF Newer, Inv, TypeOK, Initialized, CommitIds
  <1>7. /\ oldest \in 1..Len(commits) /\ oldest > initial /\ oldest \in Past(master)
        /\ p \in Nat /\ p < oldest /\ p >= initial
    <2>1. oldest \in 1..Len(commits) /\ oldest > initial /\ oldest \in Past(master)
      BY <1>4, <1>6
    <2>2. p \in Nat
      BY <2>1, CommitFields DEF Inv, TypeOK
    <2>3. p < oldest /\ p >= initial
      BY <1>1, <2>1 DEF Inv, Store, Descent, CommitIds
    <2> QED BY <2>1, <2>2, <2>3
  <1>8. /\ Past(p) = commits[p].past /\ p \in Past(p) /\ Past(p) \subseteq 1..p
        /\ Past(p) \subseteq Past(master) /\ Past(master)' = Past(p)
    <2>1. p \in CommitIds /\ p # 0
      BY <1>6, <1>7 DEF CommitIds
    <2>2. Past(p) = commits[p].past /\ p \in Past(p) /\ Past(p) \subseteq 1..p
      BY <2>1 DEF Inv, Store, Past
    <2>3. Past(p) \subseteq commits[oldest].past
      BY <1>7 DEF Rooted, CommitIds
    <2>4. commits[oldest].past \subseteq Past(master)
      <3>1. master \in 0..Len(commits)
        BY DEF Inv, TypeOK
      <3> QED BY <1>7, <3>1, PastClosed DEF Inv
    <2>5. Past(master)' = Past(p)
      BY <1>1, <1>2 DEF Past
    <2> QED BY <2>2, <2>3, <2>4, <2>5
  <1> HIDE DEF p
  <1>9. Changes' = {i \in Past(p) : i > initial} /\ Changes' \subseteq Changes
    BY <1>6, <1>8
  <1>10. oldest \notin Changes'
    BY <1>7, <1>8, <1>9
  <1>11. Changes' = IF p \in Changes THEN Changes \cap commits[p].past ELSE {}
    <2>1. CASE p \in Changes
      BY <1>6, <1>8, <1>9, <2>1
    <2>2. CASE p \notin Changes
      <3>1. p = initial
        BY <1>6, <1>7, <1>8, <2>2
      <3>2. \A i \in Past(p) : i \in 1..p
        BY <1>8
      <3> QED BY <1>6, <1>9, <2>2, <3>1, <3>2
    <2> QED BY <2>1, <2>2
  <1>12. Log!MadeOn(AppliedChanges[oldest]) = Changes'
    <2>1. AppliedChanges[oldest].parent = p
      BY <1>4, AppliedAre DEF p
    <2> QED BY <1>11, <2>1, AppliedAre DEF Log!MadeOn
  <1>13. AppliedChanges' = [id \in Log!MadeOn(AppliedChanges[oldest]) |-> AppliedChanges[id]]
    <2>1. AppliedChanges' = [i \in Changes' |-> commits[i]]
      BY <1>1 DEF AppliedChanges
    <2>2. \A i \in Changes' : AppliedChanges[i] = commits[i]
      BY <1>9, AppliedAre
    <2> QED BY <1>12, <2>1, <2>2
  <1>14. UNCHANGED BaselineContent
    BY <1>1, BaselineStays
  <1>15. Log!Undo(oldest)
    BY <1>1, <1>4, <1>5, <1>13, <1>14, AppliedAre DEF Log!Undo
  <1>16. AppliedChanges' # AppliedChanges
    BY <1>4, <1>10, AppliedAre, AppliedThen
  <1> QED BY <1>1, <1>4, <1>15, <1>16, AppliedAre

\* A merge loses no applied change; if it brings any, the last of them contains all.
LEMMA AdoptsLog ==
  ASSUME Grounds, Grounds', [Next]_vars, MergeUsed \/ MergeRecommended
  PROVE  Log!Adopt
  <1> USE DEF Grounds
  <1>1. /\ UNCHANGED <<initial, current>> /\ ~StartClear /\ Initialized /\ Initialized'
        /\ Request = "adopt" /\ Request' = "none" /\ current \in Conflicts
    BY DEF MergeUsed, MergeRecommended, StartClear, Begin, Request, Settled, Asked, shelf,
       Inv, Control, StartSteps, Initialized
  <1>2. current # None
    BY <1>1, MigrationAssumption
  <1>3. UNCHANGED BaselineContent
    BY <1>1, BaselineStays
  <1>4. PICK b \in Branches : MergeBranch(b)
    BY DEF MergeUsed, MergeRecommended, Inv, Control, TypeOK
  <1> DEFINE theirs == branches[b]
  <1>5. /\ Len(commits) \in Nat /\ initial \in 1..Len(commits) /\ master \in 1..Len(commits)
        /\ master >= initial /\ theirs \in 0..Len(commits)
        /\ Changes = {i \in Past(master) : i > initial} /\ Changes \subseteq CommitIds
        /\ Changes' = {i \in Past(master)' : i > initial}
    BY <1>1, ChangesAre, ChangesThen DEF Newer, Inv, TypeOK, Initialized, Descent
  <1>6. \A i \in CommitIds : commits'[i] = commits[i]
    BY <1>1, CommitsKept
  <1>7. Past(master) \subseteq Past(master)'
    BY <1>4, MergeKeeps DEF Inv
  <1>8. \A i \in DOMAIN AppliedChanges :
          i \in DOMAIN AppliedChanges' /\ AppliedChanges'[i] = AppliedChanges[i]
    <2>1. \A i \in Changes : i \in Changes' /\ commits'[i] = commits[i]
      BY <1>5, <1>6, <1>7
    <2> QED BY <2>1, AppliedAre, AppliedThen
  <1>9. \/ AppliedChanges' = AppliedChanges
        \/ \E last \in DOMAIN AppliedChanges' \ DOMAIN AppliedChanges :
             DOMAIN AppliedChanges' \subseteq AppliedChanges'[last].past
    <2>1. CASE UNCHANGED master
      BY <1>1, <2>1, HeadsStay
    <2>2. ASSUME master' \in Changes', master' \notin Changes
          PROVE  \E last \in DOMAIN AppliedChanges' \ DOMAIN AppliedChanges :
                   DOMAIN AppliedChanges' \subseteq AppliedChanges'[last].past
      <3>1. master' # 0
        BY <2>2, <1>5 DEF Past
      <3>2. commits'[master'].past = Past(master)'
        BY <3>1 DEF Past
      <3>3. Changes' \subseteq commits'[master'].past
        BY <1>5, <3>2
      <3> QED BY <2>2, <3>3, AppliedAre, AppliedThen
    <2>3. CASE /\ theirs \notin Past(master) /\ master \in Past(theirs) /\ master' = theirs
               /\ UNCHANGED commits
      <3>1. theirs # 0
        BY <2>3 DEF Past
      <3>2. Past(theirs) = commits[theirs].past /\ theirs \in CommitIds
        BY <1>5, <3>1 DEF Past, CommitIds
      <3>3. theirs \in Past(theirs) /\ Past(theirs) \subseteq 1..theirs
        BY <3>2 DEF Inv, Store
      <3>4. theirs >= master /\ theirs # master
        <4>1. master \in Past(master)
          BY <1>5 DEF Inv, Store, Past, CommitIds
        <4> QED BY <2>3, <3>3, <4>1
      <3>5. Past(master)' = Past(theirs)
        BY <2>3 DEF Past
      <3>6. theirs \in Changes' /\ theirs \notin Changes
        BY <1>5, <2>3, <3>3, <3>4, <3>5
      <3> QED BY <2>2, <2>3, <3>6
    <2>4. CASE /\ commits' = Append(commits,
                    [name |-> "merge", parent |-> master,
                     past |-> Past(master) \cup Past(theirs) \cup {NewId},
                     content |-> worktree'])
               /\ master' = NewId
      <3>1. NewId = Len(commits) + 1 /\ NewId \notin CommitIds /\ NewId > initial
        BY <1>5 DEF NewId, CommitIds
      <3>2. commits'[NewId].past = Past(master) \cup Past(theirs) \cup {NewId}
        BY <2>4, <3>1 DEF Inv, TypeOK
      <3>3. NewId \in Past(master)'
        BY <1>5, <2>4, <3>1, <3>2 DEF Past
      <3>4. NewId \in Changes' /\ NewId \notin Changes
        BY <1>5, <3>1, <3>3
      <3> QED BY <2>2, <2>4, <3>4
    <2> QED BY <1>4, <2>1, <2>3, <2>4 DEF MergeBranch
  <1> QED BY <1>1, <1>2, <1>3, <1>8, <1>9 DEF Log!Adopt

\* Every other step changes nothing that the user knows of.
LEMMA OtherSteps ==
  ASSUME Grounds, Grounds', Next,
         ~(\/ StartClear \/ CreateInitial \/ CommitChanges \/ ClearCurrent \/ CommitBranch
           \/ MergeUsed \/ MergeRecommended \/ Abort \/ Forget \/ Crash),
         ~(\E c \in Conflicts : Resolve(c) \/ PickConflict(c)),
         ~(\E b \in Branches : Use(b)), ~(\E step \in StepNames : Revert(step))
  PROVE  UNCHANGED Log!vars
  <1> USE DEF Grounds
  <1>1. CASE \/ Unpack \/ Search \/ PruneBranch \/ PruneDone \/ SkipBranch \/ BranchOff
             \/ RenderMitigation \/ RenderComments \/ AllResolved \/ RestoreTree
    <2>1. UNCHANGED <<master, initial, current>>
      BY <1>1 DEF Unpack, Search, PruneBranch, PruneDone, SkipBranch, BranchOff,
         RenderMitigation, RenderComments, AllResolved, RestoreTree, Refuse, repository, shelf
    <2>2. UNCHANGED Request
      BY <1>1 DEF Unpack, Search, PruneBranch, PruneDone, SkipBranch, BranchOff,
         RenderMitigation, RenderComments, AllResolved, RestoreTree, Refuse, Goto, Finish,
         memory, Settled, Request
    <2> QED BY <2>1, <2>2, Stutter
  <1>2. CASE \/ Start \/ StartAgain \/ RefuseCommand
             \/ SaveChanges \/ MigrateCommand \/ ResolveAll
             \/ \E c \in Conflicts : ResolveRefused(c)
             \/ AbortRefused \/ Cleanup
             \/ \E step \in StepNames : RevertRefused(step)
             \/ UserEdit \/ CheckoutMaster
    <2>1. UNCHANGED <<master, initial, current>>
      BY <1>2 DEF Start, StartAgain, RefuseCommand, SaveChanges, MigrateCommand, ResolveAll,
         ResolveRefused, AbortRefused, Cleanup, RevertRefused, UserEdit, CheckoutMaster,
         Refuse, repository, shelf
    <2>2. UNCHANGED Request
      BY <1>2 DEF Start, StartAgain, RefuseCommand, SaveChanges, MigrateCommand, ResolveAll,
         ResolveRefused, AbortRefused, Cleanup, RevertRefused, UserEdit, CheckoutMaster,
         Refuse, Ready, Begin, Finish, memory, Settled, Request
    <2> QED BY <2>1, <2>2, Stutter
  <1>3. CASE CommitInitial \/ Reformat
    <2>1. ~Initialized /\ UNCHANGED <<initial, current>> /\ Request = "none" /\ Request' = "none"
      BY <1>3 DEF CommitInitial, Reformat, Goto, shelf, Inv, Control, StartSteps, Settled,
         Request
    <2>2. ~Initialized'
      BY <2>1 DEF Initialized
    <2>3. AppliedChanges' = AppliedChanges /\ BaselineContent' = BaselineContent
      BY <2>1, <2>2 DEF AppliedChanges, Changes, BaselineContent
    <2> QED BY <2>1, <2>3 DEF Log!vars
  <1> QED BY <1>1, <1>2, <1>3 DEF Next, ProgramStep, Command

\* Every step of the migration is a step of the list of changes, or none.
LEMMA LogStep ==
  ASSUME Grounds, Grounds', [Next]_vars
  PROVE  [Log!Next]_(Log!vars)
  <1>1. CASE UNCHANGED vars
    BY <1>1 DEF vars, Log!vars, BaselineContent, AppliedChanges, Changes, History, Past,
       Initialized, Tree, Request
  <1>2. CASE CreateInitial \/ StartClear
    BY <1>2, StartsLog, RestartsLog DEF Log!Next
  <1>3. CASE CommitChanges
    <2>1. CASE UNCHANGED Log!vars
      BY <2>1
    <2>2. ASSUME NEW id \in DOMAIN AppliedChanges', Log!Record(id, AppliedChanges'[id])
          PROVE  Log!Next
      <3>1. Request = "none" /\ id \notin DOMAIN AppliedChanges
        <4>1. \A other \in DOMAIN AppliedChanges : other < id /\ other \in Nat
          BY <2>2, AppliedAre, ChangesAre DEF Log!Record, Grounds, Newer, Inv, TypeOK, CommitIds
        <4> QED BY <2>2, <4>1 DEF Log!Record
      <3>2. AppliedChanges' # AppliedChanges
        BY <2>2, <3>1
      <3> QED BY <2>2, <3>1, <3>2 DEF Log!Next
    <2> QED BY <1>3, <2>1, <2>2, RecordsLog
  <1>4. CASE ClearCurrent
    BY <1>4, ResolvesLog DEF Log!Next
  <1>5. ASSUME NEW c \in Conflicts, Resolve(c) \/ PickConflict(c)
        PROVE  [Log!Next]_(Log!vars)
    BY <1>5, TakesUpLog DEF Log!Next
  <1>6. CASE CommitBranch \/ Abort \/ \E b \in Branches : Use(b)
    BY <1>6, AsksLog DEF Log!Next
  <1>7. CASE MergeUsed \/ MergeRecommended
    BY <1>7, AdoptsLog DEF Log!Next
  <1>8. CASE Forget
    BY <1>8, AbandonsLog DEF Log!Next
  <1>9. CASE Crash
    BY <1>9, InterruptsLog DEF Log!Next
  <1>10. ASSUME NEW step \in StepNames, Revert(step)
         PROVE  Log!Next
    BY <1>10, UndoesLog DEF Log!Next
  <1> QED BY <1>1, <1>2, <1>3, <1>4, <1>5, <1>6, <1>7, <1>8, <1>9, <1>10, OtherSteps

\* The repository, the shelf and the commands together are a list of changes to one
\* baseline, wherever commands fail or are killed: nothing that was applied is lost
\* but by `revert`, which restores what was applied when the change was made, and a
\* conflict counts as resolved only when the last commit leaves nothing of it.
THEOREM MigrationIsChangeLog ==
  Spec => ImplementsChangeLog
  <1>1. Init => Log!Init
    <2> SUFFICES ASSUME Init PROVE Log!Init
      OBVIOUS
    <2>1. ~Initialized /\ Request = "none" /\ current = None
      BY DEF Init, Initialized, Request
    <2>2. Changes = {}
      BY <2>1 DEF Changes
    <2> QED BY <2>1, <2>2, AppliedAre DEF Log!Init, BaselineContent
  <1>2. Init => Closed /\ Rooted /\ Asked /\ Baseline
    BY DEF Init, Closed, Rooted, CommitIds, Asked, Baseline, BaselineIsWhole, Initialized
  <1>3. Inv /\ Closed /\ Rooted /\ Asked /\ Baseline /\ [Next]_vars =>
          Closed' /\ Rooted' /\ Asked' /\ Baseline'
    BY HistoryStep, RootedStep, AskedStep, BaselineStep
  <1>4. Spec => []Grounds
    <2>1. Inv /\ Closed /\ Rooted /\ Asked /\ Baseline /\ Settled <=> Grounds
      BY DEF Grounds
    <2> QED BY <1>2, <1>3, <2>1, Invariance, SettledInvariance, PTL DEF Spec
  <1>5. Grounds /\ Grounds' /\ [Next]_vars => [Log!Next]_(Log!vars)
    BY LogStep
  <1> QED BY <1>1, <1>4, <1>5, PTL DEF Spec, ImplementsChangeLog, Log!Spec

==============================================================================
