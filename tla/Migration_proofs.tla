--------------------------- MODULE Migration_proofs ---------------------------
(* Theorems about module Migration, for every set of conflicts, edits and    *)
(* branches, whatever the mitigations do and however many commits are made.  *)
EXTENDS MigrationInvariant, TLAPS

\* What appending a commit does to the object store.
LEMMA AppendCommit ==
  ASSUME commits \in Seq(CommitType), NEW r \in CommitType,
         commits' = Append(commits, r)
  PROVE  /\ commits' \in Seq(CommitType)
         /\ Len(commits') = Len(commits) + 1
         /\ Len(commits) \in Nat
         /\ \A i \in 1..Len(commits) : commits'[i] = commits[i]
         /\ commits'[Len(commits) + 1] = r
  OBVIOUS

\* A commit whose parent and ancestors are in the store is well-typed.
LEMMA CommitRecord ==
  ASSUME TypeOK, NEW name \in StepNames, NEW parent \in 0..Len(commits),
         NEW past \in SUBSET CommitIds, NEW content \in Content
  PROVE  [name |-> name, parent |-> parent, past |-> past \cup {NewId},
          content |-> content] \in CommitType
  <1>1. Len(commits) \in Nat
    BY DEF TypeOK
  <1>2. past \cup {NewId} \in SUBSET Nat
    <2>1. \A i \in past : i \in Nat
      BY <1>1 DEF CommitIds
    <2>2. NewId \in Nat
      BY <1>1 DEF NewId
    <2> QED BY <2>1, <2>2
  <1>3. parent \in Nat
    BY <1>1
  <1> QED BY <1>2, <1>3 DEF CommitType

\* The three repository invariants depend on the repository alone.
LEMMA RepositoryUnchanged ==
  ASSUME Store, Descent, Beginning,
         UNCHANGED <<commits, master, initial, branches>>
  PROVE  Store' /\ Descent' /\ Beginning'
  BY DEF Store, Descent, Beginning, CommitIds, Past, Initialized, MitigationBranches

\* A new commit keeps the store a graph without cycles.
LEMMA StoreGrows ==
  ASSUME TypeOK, Store, NEW name, NEW content,
         NEW parent \in 0..Len(commits), NEW past \in SUBSET CommitIds,
         [name |-> name, parent |-> parent, past |-> past \cup {NewId},
          content |-> content] \in CommitType,
         commits' = Append(commits,
           [name |-> name, parent |-> parent, past |-> past \cup {NewId},
            content |-> content])
  PROVE  Store'
  <1> DEFINE r == [name |-> name, parent |-> parent, past |-> past \cup {NewId},
                   content |-> content]
  <1>1. /\ Len(commits') = Len(commits) + 1
        /\ Len(commits) \in Nat
        /\ \A i \in 1..Len(commits) : commits'[i] = commits[i]
        /\ commits'[Len(commits) + 1] = r
    BY AppendCommit DEF TypeOK
  <1>2. SUFFICES ASSUME NEW i \in 1..Len(commits) + 1
                 PROVE  /\ commits'[i].parent < i
                        /\ i \in commits'[i].past
                        /\ commits'[i].past \subseteq 1..i
    BY <1>1 DEF Store, CommitIds
  <1>3. CASE i \in 1..Len(commits)
    BY <1>1, <1>3 DEF Store, CommitIds
  <1>4. CASE i = Len(commits) + 1
    <2>1. /\ commits'[i].parent = parent
          /\ commits'[i].past = past \cup {NewId}
      BY <1>1, <1>4
    <2>2. NewId \in Nat /\ i = NewId /\ parent < i
      BY <1>1, <1>4 DEF NewId
    <2>3. \A j \in past : j \in 1..i
      BY <1>1, <1>4 DEF CommitIds
    <2>4. past \cup {NewId} \subseteq 1..i
      BY <2>2, <2>3, <1>1, <1>4
    <2> QED BY <2>1, <2>2, <2>4
  <1> QED BY <1>1, <1>3, <1>4

-----------------------------------------------------------------------------
(* How a step changes the repository                                       *)

\* Every reference, and the ancestors of every commit, are in the store; after
\* `start`, a commit no older than "initial" descends from it.
LEMMA Reachable ==
  ASSUME TypeOK, Store, Descent, NEW i \in 0..Len(commits)
  PROVE  /\ Past(i) \in SUBSET CommitIds
         /\ Initialized /\ i >= initial => initial \in Past(i) /\ 1..initial \subseteq Past(i)
  <1>1. Len(commits) \in Nat /\ initial \in 0..Len(commits)
    BY DEF TypeOK
  <1>2. CASE i = 0
    BY <1>1, <1>2 DEF Past, Initialized
  <1>3. CASE i # 0
    <2>1. i \in CommitIds /\ Past(i) = commits[i].past
      BY <1>1, <1>3 DEF CommitIds, Past
    <2>2. i \in Past(i) /\ Past(i) \subseteq 1..i
      BY <2>1 DEF Store
    <2>3. \A j \in 1..i : j \in CommitIds
      BY <1>1, <2>1 DEF CommitIds
    <2>4. Initialized /\ i > initial => 1..initial \subseteq Past(i)
      BY <2>1 DEF Descent
    <2>5. Initialized /\ i = initial => 1..initial \subseteq Past(i)
      BY DEF Descent
    <2>6. Initialized => initial \in 1..initial
      BY <1>1 DEF Initialized
    <2> QED BY <1>1, <2>2, <2>3, <2>4, <2>5, <2>6
  <1> QED BY <1>2, <1>3

\* A commit made after `start` descends from "initial" if its parent does.
LEMMA GrowsAfterStart ==
  ASSUME TypeOK, Store, Descent, Initialized,
         NEW name \in StepNames, NEW content \in Content,
         NEW parent \in 0..Len(commits), parent >= initial,
         NEW past \in SUBSET CommitIds, 1..initial \subseteq past,
         commits' = Append(commits,
           [name |-> name, parent |-> parent, past |-> past \cup {NewId},
            content |-> content]),
         initial' = initial,
         master' = master \/ master' = NewId,
         \A b \in Branches : branches'[b] \in {branches[b], NewId}
  PROVE  /\ commits' \in Seq(CommitType)
         /\ Len(commits') = Len(commits) + 1
         /\ Store' /\ Descent' /\ Beginning'
  <1> DEFINE r == [name |-> name, parent |-> parent, past |-> past \cup {NewId},
                   content |-> content]
  <1>1. r \in CommitType
    BY CommitRecord
  <1>2. /\ commits' \in Seq(CommitType)
        /\ Len(commits') = Len(commits) + 1
        /\ Len(commits) \in Nat
        /\ \A i \in 1..Len(commits) : commits'[i] = commits[i]
        /\ commits'[Len(commits) + 1] = r
    BY <1>1, AppendCommit DEF TypeOK
  <1>3. Store'
    BY <1>1, StoreGrows
  <1>4. initial \in 1..Len(commits) /\ master \in 1..Len(commits)
    BY <1>2 DEF TypeOK, Initialized, Descent
  <1>5. Past(initial)' = 1..initial'
    BY <1>2, <1>4 DEF Past, Descent, Initialized
  <1>6. ASSUME NEW i \in CommitIds', i > initial'
        PROVE  1..initial' \subseteq commits'[i].past /\ commits'[i].parent >= initial'
    <2>1. CASE i \in 1..Len(commits)
      BY <1>2, <1>6, <2>1 DEF Descent, CommitIds
    <2>2. CASE i = Len(commits) + 1
      BY <1>2, <2>2
    <2> QED BY <1>2, <2>1, <2>2 DEF CommitIds
  <1>7. master' >= initial'
    BY <1>2, <1>4 DEF Descent, NewId
  <1>8. \A b \in MitigationBranches' : branches'[b] >= initial'
    BY <1>2, <1>4 DEF Descent, MitigationBranches, NewId
  <1>9. Descent' /\ Beginning'
    BY <1>5, <1>6, <1>7, <1>8 DEF Descent, Beginning, Initialized
  <1> QED BY <1>2, <1>3, <1>9

\* The commits that `start` makes follow each other.
LEMMA GrowsDuringStart ==
  ASSUME TypeOK, Store, Beginning, ~Initialized,
         NEW name \in StepNames,
         Commit(name, master, Past(master)),
         master' = NewId,
         UNCHANGED <<initial, branches>>
  PROVE  /\ commits' \in Seq(CommitType)
         /\ Len(commits') = Len(commits) + 1
         /\ Store' /\ Descent' /\ Beginning'
  <1> DEFINE r == [name |-> name, parent |-> master,
                   past |-> Past(master) \cup {NewId}, content |-> worktree]
  <1>1. /\ Past(master) \in SUBSET CommitIds
        /\ Past(master) = 1..Len(commits)
        /\ master \in 0..Len(commits)
        /\ worktree \in Content
    BY DEF Beginning, CommitIds, TypeOK
  <1>2. r \in CommitType
    BY <1>1, CommitRecord
  <1>3. commits' = Append(commits, r)
    BY DEF Commit
  <1>4. /\ commits' \in Seq(CommitType)
        /\ Len(commits') = Len(commits) + 1
        /\ Len(commits) \in Nat
        /\ commits'[Len(commits) + 1] = r
    BY <1>2, <1>3, AppendCommit DEF TypeOK
  <1>5. Store'
    BY <1>1, <1>2, <1>3, StoreGrows
  <1>6. Past(master)' = 1..master'
    <2>1. Past(master)' = r.past
      BY <1>4 DEF Past, NewId
    <2>2. r.past = 1..Len(commits) \cup {Len(commits) + 1}
      BY <1>1 DEF NewId
    <2>3. master' = Len(commits) + 1
      BY DEF NewId
    <2>4. 1..Len(commits) \cup {Len(commits) + 1} = 1..Len(commits) + 1
      BY <1>4
    <2> QED BY <2>1, <2>2, <2>3, <2>4
  <1>7. Descent' /\ Beginning'
    BY <1>4, <1>6 DEF Descent, Beginning, Initialized, MitigationBranches, NewId
  <1> QED BY <1>4, <1>5, <1>7

\* After `start`, references may move to any commit no older than "initial".
LEMMA ReferencesMove ==
  ASSUME TypeOK, Store, Descent, Initialized,
         UNCHANGED <<commits, initial>>,
         master' >= initial,
         \A b \in Branches : branches'[b] # 0 =>
           branches'[b] = branches[b] \/ branches'[b] >= initial
  PROVE  Store' /\ Descent' /\ Beginning'
  <1>1. Store'
    BY DEF Store, CommitIds
  <1>2. \A b \in MitigationBranches' : branches'[b] >= initial'
    BY DEF Descent, MitigationBranches
  <1>3. Descent' /\ Beginning'
    BY <1>2 DEF Descent, Beginning, Initialized, Past, CommitIds
  <1> QED BY <1>1, <1>3

-----------------------------------------------------------------------------
(* The repository invariants are inductive                                 *)

\* The part of the invariant that speaks of the repository.
RepositoryOK ==
  /\ commits \in Seq(CommitType)
  /\ master \in 0..Len(commits)
  /\ initial \in 0..Len(commits)
  /\ branches \in [Branches -> 0..Len(commits)]
  /\ Store /\ Descent /\ Beginning

\* Changing one entry of a function, in a range that may have grown.
LEMMA Update ==
  ASSUME NEW S, NEW T, NEW U, NEW f \in [S -> T], T \subseteq U,
         NEW x, NEW v \in U
  PROVE  [f EXCEPT ![x] = v] \in [S -> U]
  OBVIOUS

\* The fields of a commit in the store.
LEMMA CommitFields ==
  ASSUME commits \in Seq(CommitType), NEW i \in 1..Len(commits)
  PROVE  commits[i].content \in Content /\ commits[i].parent \in Nat
  <1>1. commits[i] \in CommitType
    OBVIOUS
  <1> QED BY <1>1 DEF CommitType

\* A merge moves master to a descendant of "initial", which it may create.
LEMMA MergeStep ==
  ASSUME TypeOK, Store, Descent, Initialized, NEW b \in Branches,
         branches[b] # 0, MergeBranch(b), UNCHANGED <<initial, branches>>
  PROVE  RepositoryOK' /\ worktree' \in Content
  <1> DEFINE theirs == branches[b]
             base == Greatest(Past(master) \cap Past(theirs))
             merged == Merged(Tree(base), Tree(master), Tree(theirs))
             past == Past(master) \cup Past(theirs)
  <1>1. /\ Len(commits) \in Nat
        /\ master \in 1..Len(commits) /\ master >= initial
        /\ theirs \in 1..Len(commits) /\ theirs >= initial
        /\ initial \in 1..Len(commits)
    BY DEF TypeOK, Descent, Initialized, MitigationBranches
  <1>2. /\ Past(master) \in SUBSET CommitIds /\ 1..initial \subseteq Past(master)
        /\ Past(theirs) \in SUBSET CommitIds /\ 1..initial \subseteq Past(theirs)
    BY <1>1, Reachable
  <1>3. Tree(master) \in Content /\ Tree(theirs) \in Content
    BY <1>1, CommitFields DEF TypeOK, Tree
  <1>4. CASE UNCHANGED commits
    <2>1. /\ master' = master \/ master' = theirs
          /\ worktree' = Tree(master) \/ worktree' = Tree(theirs)
      BY <1>1, <1>4 DEF MergeBranch, TypeOK
    <2>2. Store' /\ Descent' /\ Beginning'
      BY <1>1, <1>4, <2>1, ReferencesMove
    <2> QED BY <1>1, <1>3, <1>4, <2>1, <2>2 DEF RepositoryOK, TypeOK
  <1>5. CASE /\ worktree' = merged
             /\ commits' = Append(commits,
                  [name |-> "merge", parent |-> master,
                   past |-> past \cup {NewId}, content |-> worktree'])
             /\ master' = NewId
    <2>1. merged \in Content
      BY <1>3 DEF Merged, Content
    <2>2. "merge" \in StepNames /\ past \in SUBSET CommitIds /\ 1..initial \subseteq past
      BY <1>2 DEF StepNames
    <2>3. commits' = Append(commits,
            [name |-> "merge", parent |-> master,
             past |-> past \cup {NewId}, content |-> merged])
      BY <1>5
    <2>4. /\ master \in 0..Len(commits)
          /\ \A c \in Branches : branches'[c] \in {branches[c], NewId}
      BY <1>1
    <2>5. /\ commits' \in Seq(CommitType)
          /\ Len(commits') = Len(commits) + 1
          /\ Store' /\ Descent' /\ Beginning'
      BY <1>1, <1>5, <2>1, <2>2, <2>3, <2>4, GrowsAfterStart
    <2> QED BY <1>1, <1>5, <2>1, <2>5 DEF RepositoryOK, TypeOK, NewId
  <1> QED BY <1>4, <1>5 DEF MergeBranch

LEMMA RepositoryStep ==
  ASSUME Inv, [Next]_vars
  PROVE  RepositoryOK'
  <1> USE DEF Inv
  <1>0. Len(commits) \in Nat
    BY DEF TypeOK
  <1>1. ASSUME UNCHANGED <<commits, master, initial, branches>>
        PROVE  RepositoryOK'
    BY <1>1, RepositoryUnchanged DEF RepositoryOK, TypeOK
  <1>2. CASE StartClear
    <2>1. commits' = <<>> /\ master' = 0 /\ initial' = 0
          /\ branches' = [b \in Branches |-> 0]
      BY <1>2 DEF StartClear
    <2>2. commits' \in Seq(CommitType) /\ Len(commits') = 0
      BY <2>1
    <2>3. Store' /\ Descent' /\ Beginning'
      BY <2>1, <2>2 DEF Store, Descent, Beginning, Initialized, CommitIds, Past,
                       MitigationBranches
    <2> QED BY <2>1, <2>2, <2>3 DEF RepositoryOK
  <1>3. CASE CommitInitial \/ Reformat
    <2>1. PICK name \in {"initial", "reformat"} :
            /\ Commit(name, master, Past(master))
            /\ master' = NewId
            /\ UNCHANGED <<initial, branches>>
      BY <1>3 DEF CommitInitial, Reformat
    <2>2. ~Initialized
      BY <1>3 DEF CommitInitial, Reformat, Control, StartSteps
    <2>3. /\ commits' \in Seq(CommitType)
          /\ Len(commits') = Len(commits) + 1
          /\ Store' /\ Descent' /\ Beginning'
      BY <2>1, <2>2, GrowsDuringStart DEF StepNames
    <2> QED BY <1>0, <2>1, <2>3 DEF RepositoryOK, TypeOK, NewId
  <1>4. CASE CreateInitial
    <2>1. /\ ~Initialized /\ master # 0
          /\ initial' = master
          /\ UNCHANGED <<commits, master, branches>>
      BY <1>4 DEF CreateInitial, Control, StartSteps
    <2>2. MitigationBranches' = {} /\ master = Len(commits)
      BY <2>1 DEF Beginning, MitigationBranches
    <2>3. Past(initial)' = 1..initial'
      BY <2>1 DEF Beginning, Past
    <2>4. Store' /\ Descent' /\ Beginning'
      BY <1>0, <2>1, <2>2, <2>3 DEF Store, Descent, Beginning, Initialized, CommitIds
    <2> QED BY <2>1, <2>4 DEF RepositoryOK, TypeOK
  <1>5. CASE CommitChanges
    <2>1. CASE UNCHANGED <<commits, master>>
      BY <1>1, <1>5, <2>1 DEF CommitChanges
    <2>2. CASE ~UNCHANGED <<commits, master>>
      <3> DEFINE name == IF message # None THEN message ELSE current
      <3>1. /\ Commit(name, master, Past(master))
            /\ master' = NewId
            /\ current # None \/ message # None
            /\ UNCHANGED <<initial, branches>>
        BY <1>5, <2>2 DEF CommitChanges
      <3>2. name \in StepNames /\ worktree \in Content
        BY <3>1 DEF TypeOK, StepNames
      <3>3. Initialized /\ master >= initial /\ master \in 0..Len(commits)
        BY <1>5 DEF CommitChanges, Control, StartSteps, Descent, TypeOK
      <3>4. Past(master) \in SUBSET CommitIds /\ 1..initial \subseteq Past(master)
        BY <3>3, Reachable
      <3>5. \A b \in Branches : branches'[b] \in {branches[b], NewId}
        BY <3>1
      <3>6. /\ commits' \in Seq(CommitType)
            /\ Len(commits') = Len(commits) + 1
            /\ Store' /\ Descent' /\ Beginning'
        BY <3>1, <3>2, <3>3, <3>4, <3>5, GrowsAfterStart DEF Commit
      <3> QED BY <1>0, <3>1, <3>6 DEF RepositoryOK, TypeOK, NewId
    <2> QED BY <2>1, <2>2
  <1>6. CASE PruneBranch
    <2>1. PICK b \in MitigationBranches : branches' = [branches EXCEPT ![b] = 0]
      BY <1>6 DEF PruneBranch
    <2>2. Initialized /\ UNCHANGED <<commits, master, initial>>
      BY <1>6 DEF PruneBranch, Control, StartSteps
    <2>3. Store' /\ Descent' /\ Beginning'
      BY <2>1, <2>2, ReferencesMove DEF TypeOK, Descent
    <2>4. branches' \in [Branches -> 0..Len(commits)]
      <3>1. 0 \in 0..Len(commits) /\ branches \in [Branches -> 0..Len(commits)]
        BY <1>0 DEF TypeOK
      <3> QED BY <2>1, <3>1, Update
    <2> QED BY <2>2, <2>3, <2>4 DEF RepositoryOK, TypeOK
  <1>7. CASE BranchOff
    <2>1. /\ branches' = [branches EXCEPT ![Head(todo)] = master]
          /\ Initialized /\ master >= initial
          /\ UNCHANGED <<commits, master, initial>>
      BY <1>7 DEF BranchOff, Control, StartSteps, Descent
    <2>2. Store' /\ Descent' /\ Beginning'
      BY <2>1, ReferencesMove DEF TypeOK
    <2> QED BY <2>1, <2>2 DEF RepositoryOK, TypeOK
  <1>8. CASE CommitBranch
    <2>1. /\ Commit(head, branches[head], Past(branches[head]))
          /\ branches' = [branches EXCEPT ![head] = NewId]
          /\ UNCHANGED <<master, initial>>
      BY <1>8 DEF CommitBranch
    <2>2. Initialized /\ head \in Branches /\ branches[head] # 0
      BY <1>8 DEF CommitBranch, Control, StartSteps, TypeOK
    <2>3. /\ branches[head] \in 0..Len(commits) /\ branches[head] >= initial
          /\ head \in StepNames /\ worktree \in Content
      BY <2>2 DEF TypeOK, Descent, MitigationBranches, StepNames
    <2>4. /\ Past(branches[head]) \in SUBSET CommitIds
          /\ 1..initial \subseteq Past(branches[head])
      BY <2>2, <2>3, Reachable
    <2>5. \A b \in Branches : branches'[b] \in {branches[b], NewId}
      BY <2>1 DEF TypeOK
    <2>6. /\ commits' \in Seq(CommitType)
          /\ Len(commits') = Len(commits) + 1
          /\ Store' /\ Descent' /\ Beginning'
      BY <2>1, <2>2, <2>3, <2>4, <2>5, GrowsAfterStart DEF Commit
    <2>7. branches' \in [Branches -> 0..Len(commits')]
      <3>1. NewId \in 0..Len(commits') /\ 0..Len(commits) \subseteq 0..Len(commits')
        BY <1>0, <2>6 DEF NewId
      <3> QED BY <2>1, <3>1, Update DEF TypeOK
    <2> QED BY <1>0, <2>1, <2>6, <2>7 DEF RepositoryOK, TypeOK
  <1>9. CASE MergeUsed \/ MergeRecommended
    <2>1. PICK b \in Branches : branches[b] # 0 /\ MergeBranch(b)
      BY <1>9 DEF MergeUsed, MergeRecommended, Control, TypeOK
    <2>2. Initialized /\ UNCHANGED <<initial, branches>>
      BY <1>9 DEF MergeUsed, MergeRecommended, Control, StartSteps
    <2> QED BY <2>1, <2>2, MergeStep
  <1>10. ASSUME NEW step \in StepNames, Revert(step)
         PROVE  RepositoryOK'
    <2>1. PICK i \in History : master' = commits[i].parent
      BY <1>10 DEF Revert, StepsNamed
    <2>2. Initialized /\ UNCHANGED <<commits, initial, branches>>
      BY <1>10 DEF Revert, Ready
    <2>3. i \in CommitIds /\ i > initial
      <3>1. i \in Past(master) /\ i \notin 1..initial
        <4>1. 1..initial \subseteq Past(master) /\ Past(initial) = 1..initial
          BY <2>2, Reachable DEF Descent, TypeOK
        <4> QED BY <2>1, <4>1 DEF History
      <3>2. Past(master) \in SUBSET CommitIds
        BY Reachable DEF TypeOK
      <3> QED BY <1>0, <3>1, <3>2 DEF CommitIds, TypeOK
    <2>4. master' >= initial /\ master' \in 0..Len(commits)
      <3>1. commits[i].parent \in Nat /\ commits[i].parent < i
        BY <2>3, CommitFields DEF TypeOK, Store, CommitIds
      <3> QED BY <1>0, <2>1, <2>2, <2>3, <3>1 DEF Descent, CommitIds
    <2>5. Store' /\ Descent' /\ Beginning'
      BY <2>2, <2>4, ReferencesMove
    <2> QED BY <2>2, <2>4, <2>5 DEF RepositoryOK, TypeOK
  <1>11. CASE UNCHANGED vars
    BY <1>1, <1>11 DEF vars
  <1>12. CASE \/ Unpack \/ Search \/ ClearCurrent \/ PruneDone \/ SkipBranch
              \/ RenderMitigation \/ RenderComments
              \/ \E c \in Conflicts : PickConflict(c)
              \/ AllResolved \/ Forget \/ RestoreTree
    BY <1>1, <1>12 DEF Unpack, Search, ClearCurrent, PruneDone, SkipBranch,
         RenderMitigation, RenderComments, PickConflict, AllResolved, Forget,
         RestoreTree, Refuse, repository
  <1>13. CASE \/ Start \/ StartAgain \/ RefuseCommand
              \/ SaveChanges \/ MigrateCommand \/ ResolveAll
              \/ \E c \in Conflicts : Resolve(c) \/ ResolveRefused(c)
              \/ \E b \in Branches : Use(b)
              \/ Abort \/ AbortRefused \/ Cleanup
              \/ \E step \in StepNames : RevertRefused(step)
    BY <1>1, <1>13 DEF Start, StartAgain, RefuseCommand, SaveChanges,
         MigrateCommand, ResolveAll, Resolve, ResolveRefused, Use, Abort,
         AbortRefused, Cleanup, RevertRefused, Refuse, repository
  <1>14. CASE UserEdit \/ CheckoutMaster \/ Crash
    BY <1>1, <1>14 DEF UserEdit, CheckoutMaster, Crash, repository
  <1> QED BY <1>2, <1>3, <1>4, <1>5, <1>6, <1>7, <1>8, <1>9, <1>10, <1>11, <1>12,
             <1>13, <1>14 DEF Next, ProgramStep, Command

-----------------------------------------------------------------------------
(* The memory of a process, the shelf and the working tree keep their types *)

\* Ending a process, or handing over to another step, keeps the memory typed.
LEMMA Memory ==
  ASSUME TypeOK, NEW step \in Steps, NEW caller \in Callers, NEW result \in Outcomes,
         Finish(result) \/ Goto(step) \/ Begin(step, caller)
  PROVE  /\ pc' \in Steps
         /\ cmd' \in Callers
         /\ message' \in Messages \cup {None}
         /\ config' = None \/ config' \in Content
         /\ todo' \in Seq(Branches)
         /\ outcome' \in Outcomes
  <1>1. CASE Finish(result)
    <2>1. pc' \in Steps /\ cmd' \in Callers
      BY <1>1 DEF Finish, Steps, Callers
    <2> QED BY <1>1, <2>1 DEF Finish
  <1>2. CASE Goto(step)
    BY <1>2 DEF Goto, TypeOK
  <1>3. CASE Begin(step, caller)
    <2>1. outcome' \in Outcomes
      BY <1>3 DEF Begin, Outcomes
    <2> QED BY <1>3, <2>1 DEF Begin, TypeOK
  <1> QED BY <1>1, <1>2, <1>3

\* The content on disk after a rendering, and on master, is well-typed.
LEMMA Contents ==
  ASSUME Inv
  PROVE  /\ Initialized => Tree(master) \in Content /\ MasterTree \in Content
         /\ head # "master" => Tree(branches[head]) \in Content
         /\ \A c \in Conflicts : Mark(c) \in Item
         /\ \A content, source \in Content, c \in Conflicts :
              Overlay(content, source, c) \in Content
         /\ \A content, source \in Content, b \in Branches :
              Rendered(content, source, b) \in Content
  <1> USE DEF Inv
  <1>0. Len(commits) \in Nat /\ worktree \in Content
    BY DEF TypeOK
  <1>1. ASSUME Initialized
        PROVE  Tree(master) \in Content
    <2>1. master \in 1..Len(commits)
      BY <1>0, <1>1 DEF TypeOK, Descent, Initialized
    <2> QED BY <2>1, CommitFields DEF TypeOK, Tree
  <1>2. ASSUME head # "master"
        PROVE  Tree(branches[head]) \in Content
    <2>1. branches[head] \in 1..Len(commits)
      BY <1>0, <1>2 DEF TypeOK, Control
    <2> QED BY <2>1, CommitFields DEF TypeOK, Tree
  <1>3. \A c \in Conflicts : Mark(c) \in Item
    BY DEF Item, Marks
  <1>4. ASSUME NEW content \in Content, NEW source \in Content, NEW c \in Conflicts
        PROVE  Overlay(content, source, c) \in Content
    BY DEF Overlay, Content
  <1>5. ASSUME NEW content \in Content, NEW source \in Content, NEW b \in Branches
        PROVE  Rendered(content, source, b) \in Content
    <2>1. source \ Removes[b] \in Content /\ ConflictOf[b] \in Conflicts
      BY MigrationAssumption DEF Content
    <2> QED BY <1>4, <2>1 DEF Rendered
  <1> QED BY <1>0, <1>1, <1>2, <1>3, <1>4, <1>5 DEF MasterTree

\* The types of what a step changes besides the repository's commits and heads.
WorkOK ==
  /\ head \in Branches \cup {"master"}
  /\ worktree \in Content
  /\ current \in Conflicts \cup {None}
  /\ found \in SUBSET Conflicts

MemoryOK ==
  /\ pc \in Steps
  /\ cmd \in Callers
  /\ message \in Messages \cup {None}
  /\ config = None \/ config \in Content
  /\ todo \in Seq(Branches)
  /\ outcome \in Outcomes

\* Every step keeps every variable in its type.
LEMMA TypeStep ==
  ASSUME Inv, [Next]_vars
  PROVE  TypeOK'
  <1> USE MigrationAssumption DEF Inv
  <1>1. RepositoryOK'
    BY RepositoryStep
  <1>2. SUFFICES WorkOK' /\ MemoryOK'
    BY <1>1 DEF RepositoryOK, WorkOK, MemoryOK, TypeOK
  <1>3. WorkOK /\ MemoryOK
    BY DEF WorkOK, MemoryOK, TypeOK
  <1>4. ASSUME NEW step \in Steps, NEW caller \in Callers, NEW result \in Outcomes,
               Finish(result) \/ Goto(step) \/ Begin(step, caller)
        PROVE  MemoryOK'
    BY <1>4, Memory DEF MemoryOK
  <1>5. /\ Initialized => Tree(master) \in Content /\ MasterTree \in Content
        /\ head # "master" => Tree(branches[head]) \in Content
        /\ {} \in Content
    BY Contents DEF Content
  <1>6. ASSUME UNCHANGED <<head, worktree, current, found>>
        PROVE  WorkOK'
    BY <1>3, <1>6 DEF WorkOK
  <1>7. ASSUME NEW result \in Outcomes, Finish(result),
               UNCHANGED <<head, worktree, current, found>>
        PROVE  WorkOK' /\ MemoryOK'
    <2>1. "idle" \in Steps /\ "none" \in Callers
      BY DEF Steps, Callers
    <2> QED BY <1>4, <1>6, <1>7, <2>1
  <1>8. ASSUME Refuse
        PROVE  WorkOK' /\ MemoryOK'
    BY <1>7, <1>8 DEF Refuse, Outcomes, repository, shelf
  <1>9. CASE StartAgain \/ RefuseCommand \/ AbortRefused
             \/ (\E c \in Conflicts : ResolveRefused(c))
             \/ (\E step \in StepNames : RevertRefused(step))
    BY <1>8, <1>9 DEF StartAgain, RefuseCommand, AbortRefused, ResolveRefused, RevertRefused
  <1>10. CASE MigrateCommand \/ Crash
    BY <1>7, <1>10 DEF MigrateCommand, Crash, Outcomes, repository, shelf
  <1>11. CASE UNCHANGED vars
    BY <1>3, <1>11 DEF vars, WorkOK, MemoryOK
  <1>12. CASE StartClear
    <2>1. MemoryOK'
      BY <1>4, <1>12 DEF StartClear, Steps, Callers, Outcomes
    <2> QED BY <1>5, <1>12, <2>1 DEF StartClear, WorkOK
  <1>13. CASE Start \/ CommitInitial \/ Abort \/ Forget \/ ResolveAll
    <2>1. CASE Start
      <3>1. MemoryOK'
        BY <1>4, <2>1 DEF Start, Steps, Callers, Outcomes
      <3> QED BY <1>6, <2>1, <3>1 DEF Start, repository, shelf
    <2>2. CASE CommitInitial
      <3>1. MemoryOK'
        BY <1>4, <2>2 DEF CommitInitial, Steps, Callers, Outcomes
      <3> QED BY <1>6, <2>2, <3>1 DEF CommitInitial, shelf
    <2>3. CASE Abort
      <3>1. MemoryOK'
        BY <1>4, <2>3 DEF Abort, Steps, Callers, Outcomes
      <3> QED BY <1>3, <1>5, <2>3, <3>1 DEF Abort, Ready, WorkOK, repository, shelf
    <2>4. CASE Forget
      <3>1. Initialized
        BY <2>4 DEF Forget, Control, StartSteps
      <3>2. MemoryOK'
        BY <1>3, <2>4 DEF Forget, MemoryOK, Steps, Callers
      <3> QED BY <1>3, <1>5, <2>4, <3>1, <3>2 DEF Forget, WorkOK, repository
    <2>5. CASE ResolveAll
      <3>1. MemoryOK'
        BY <1>4, <2>5 DEF ResolveAll, Steps, Callers, Outcomes
      <3> QED BY <1>6, <2>5, <3>1 DEF ResolveAll, repository, shelf
    <2> QED BY <1>13, <2>1, <2>2, <2>3, <2>4, <2>5
  <1>14. CASE Unpack
    <2>1. CASE Refuse
      BY <1>8, <2>1
    <2>2. CASE worktree' \subseteq Item /\ UNCHANGED <<repository, shelf>>
               /\ (Goto("commit_initial") \/ \E result \in {"refused", "killed"} : Finish(result))
      <3>1. MemoryOK'
        BY <1>4, <1>5, <2>2 DEF Steps, Callers, Outcomes
      <3> QED BY <1>3, <2>2, <3>1 DEF WorkOK, Content, repository, shelf
    <2>3. Refuse \/ worktree' \subseteq Item
      <3>1. worktree \subseteq Item /\ \A archive \in Archives : archive \subseteq Item
        BY <1>3, MigrationAssumption DEF WorkOK, Content, Item
      <3> QED BY <1>14, <3>1 DEF Unpack, Extracted, HalfExtracted
    <2> QED BY <1>14, <2>1, <2>2, <2>3 DEF Unpack
  <1>15. CASE Reformat
    <2>1. MemoryOK'
      BY <1>3, <1>15 DEF Reformat, MemoryOK, WorkOK, Steps
    <2> QED BY <1>6, <1>15, <2>1 DEF Reformat, shelf
  <1>16. CASE CreateInitial
    <2>1. MemoryOK'
      BY <1>4, <1>16 DEF CreateInitial, Steps, Callers, Outcomes
    <2> QED BY <1>6, <1>16, <2>1 DEF CreateInitial, shelf
  <1>17. CASE Search
    <2> DEFINE content == IF config = None THEN worktree ELSE config
    <2>1. content \in Content
      BY <1>3 DEF WorkOK, MemoryOK
    <2>2. WorkOK'
      <3>1. found' = Detected(content) /\ UNCHANGED <<head, worktree, current>>
        BY <1>17 DEF Search, repository
      <3>2. Detected(content) \in SUBSET Conflicts
        BY DEF Detected
      <3> QED BY <1>3, <3>1, <3>2 DEF WorkOK
    <2>3. MemoryOK'
      <3>1. CASE Finish("unresolved")
        BY <1>4, <3>1 DEF Steps, Callers, Outcomes
      <3>2. CASE config' = content /\ pc' = "commit" /\ UNCHANGED <<cmd, message, todo, outcome>>
        BY <1>3, <2>1, <3>2 DEF MemoryOK, Steps
      <3> QED BY <1>17, <3>1, <3>2 DEF Search
    <2> QED BY <2>2, <2>3
  <1>18. CASE CommitChanges
    <2>1. MemoryOK'
      BY <1>4, <1>18 DEF CommitChanges, Steps, Callers, Outcomes
    <2> QED BY <1>6, <1>18, <2>1 DEF CommitChanges, shelf
  <1>19. CASE ClearCurrent \/ PruneBranch \/ PruneDone
    <2>1. MemoryOK'
      <3>1. CASE ClearCurrent
        BY <1>4, <3>1 DEF ClearCurrent, Steps, Callers, Outcomes
      <3>2. CASE PruneBranch
        BY <1>3, <3>2 DEF PruneBranch, memory, MemoryOK
      <3>3. CASE PruneDone
        BY <1>4, <3>3 DEF PruneDone, Steps, Callers, Outcomes
      <3> QED BY <1>19, <3>1, <3>2, <3>3
    <2>2. WorkOK'
      BY <1>3, <1>19 DEF ClearCurrent, PruneBranch, PruneDone, WorkOK, repository, shelf
    <2> QED BY <2>1, <2>2
  <1>20. CASE SaveChanges
    <2>1. MemoryOK'
      BY <1>3, <1>20 DEF SaveChanges, MemoryOK, Steps, Callers, Outcomes
    <2> QED BY <1>6, <1>20, <2>1 DEF SaveChanges, repository, shelf
  <1>21. ASSUME NEW c \in Conflicts, Resolve(c)
         PROVE  WorkOK' /\ MemoryOK'
    <2>1. MitigationsOf[c] \in Seq(Branches)
      OBVIOUS
    <2>2. MemoryOK'
      BY <1>3, <1>21, <2>1 DEF Resolve, MemoryOK, WorkOK, Steps, Callers, Outcomes
    <2> QED BY <1>3, <1>21, <2>2 DEF Resolve, WorkOK, repository
  <1>22. CASE SkipBranch \/ BranchOff
    <2>1. todo # <<>> => Head(todo) \in Branches /\ Tail(todo) \in Seq(Branches)
      BY <1>3 DEF MemoryOK
    <2>2. CASE SkipBranch
      BY <1>3, <2>1, <2>2 DEF SkipBranch, WorkOK, MemoryOK, repository, shelf
    <2>3. CASE BranchOff
      <3>1. Initialized
        BY <2>3 DEF BranchOff, Control, StartSteps
      <3>2. MemoryOK'
        BY <1>4, <2>3 DEF BranchOff, Steps, Callers, Outcomes
      <3> QED BY <1>3, <1>5, <2>1, <2>3, <3>1, <3>2 DEF BranchOff, WorkOK, shelf
    <2> QED BY <1>22, <2>2, <2>3
  <1>23. CASE RenderMitigation
    <2>1. head \in Branches /\ config \in Content
      BY <1>3, <1>23 DEF RenderMitigation, Control, BranchSteps, WorkOK, MemoryOK
    <2>2. Rendered(worktree, config, head) \in Content
      BY <1>3, <2>1, Contents DEF WorkOK
    <2>3. MemoryOK'
      BY <1>4, <1>23 DEF RenderMitigation, Steps, Callers, Outcomes
    <2> QED BY <1>3, <1>23, <2>2, <2>3 DEF RenderMitigation, WorkOK, repository, shelf
  <1>24. CASE CommitBranch
    <2>1. todo' \in Seq(Branches)
      <3>1. todo # <<>> /\ todo' = Tail(todo)
        BY <1>24 DEF CommitBranch, Control
      <3> QED BY <1>3, <3>1 DEF MemoryOK
    <2>2. MemoryOK'
      BY <1>3, <1>24, <2>1 DEF CommitBranch, MemoryOK, Steps
    <2> QED BY <1>6, <1>24, <2>2 DEF CommitBranch, shelf
  <1>25. CASE RenderComments
    <2>1. /\ Initialized /\ MasterTree \in Content
          /\ current \in Conflicts /\ config \in Content
      BY <1>3, <1>5, <1>25 DEF RenderComments, Control, BranchSteps, StartSteps, MemoryOK
    <2>2. config \cup {Mark(current)} \in Content
      BY <2>1, Contents DEF Content
    <2>3. Overlay(MasterTree, config \cup {Mark(current)}, current) \in Content
      BY <2>1, <2>2, Contents
    <2>4. MemoryOK'
      BY <1>4, <1>25 DEF RenderComments, Steps, Callers, Outcomes
    <2> QED BY <1>3, <1>25, <2>3, <2>4 DEF RenderComments, WorkOK, shelf
  <1>26. ASSUME NEW b \in Branches, Use(b)
         PROVE  WorkOK' /\ MemoryOK'
    <2>1. WorkOK'
      BY <1>3, <1>5, <1>26 DEF Use, Ready, WorkOK, repository, shelf
    <2>2. CASE /\ todo' = <<b>> /\ pc' = "merge" /\ cmd' = "use" /\ outcome' = "running"
               /\ UNCHANGED <<message, config>>
      <3>1. /\ pc' \in Steps /\ cmd' \in Callers /\ outcome' \in Outcomes
            /\ todo' \in Seq(Branches)
        BY <2>2 DEF Steps, Callers, Outcomes
      <3> QED BY <1>3, <2>1, <2>2, <3>1 DEF MemoryOK
    <2>3. CASE Finish("refused")
      BY <1>4, <2>1, <2>3 DEF Steps, Callers, Outcomes
    <2> QED BY <1>26, <2>2, <2>3 DEF Use
  <1>27. CASE MergeUsed \/ MergeRecommended
    <2>1. PICK b \in Branches : branches[b] # 0 /\ MergeBranch(b)
      BY <1>27 DEF MergeUsed, MergeRecommended, Control, TypeOK
    <2>2. Initialized /\ UNCHANGED <<initial, branches>>
      BY <1>27 DEF MergeUsed, MergeRecommended, Control, StartSteps
    <2>3. worktree' \in Content
      BY <2>1, <2>2, MergeStep
    <2>4. CASE MergeUsed
      <3>1. /\ pc' \in Steps /\ cmd' \in Callers /\ todo' \in Seq(Branches)
        BY <2>4 DEF MergeUsed, Steps, Callers
      <3>2. MemoryOK'
        BY <1>3, <2>4, <3>1 DEF MergeUsed, MemoryOK
      <3> QED BY <1>3, <2>3, <2>4, <3>2 DEF MergeUsed, WorkOK, shelf
    <2>5. CASE MergeRecommended
      <3>1. MemoryOK'
        BY <1>3, <2>3, <2>5 DEF MergeRecommended, MemoryOK, Steps
      <3> QED BY <1>3, <2>3, <2>5, <3>1 DEF MergeRecommended, WorkOK, shelf
    <2> QED BY <1>27, <2>4, <2>5
  <1>28. ASSUME NEW c \in Conflicts, PickConflict(c)
         PROVE  WorkOK' /\ MemoryOK'
    <2>1. <<Recommended[c]>> \in Seq(Branches)
      OBVIOUS
    <2>2. MemoryOK'
      BY <1>3, <1>28, <2>1 DEF PickConflict, MemoryOK, Steps
    <2> QED BY <1>3, <1>28, <2>2 DEF PickConflict, WorkOK, repository
  <1>29. CASE AllResolved
    <2>1. MemoryOK'
      BY <1>3, <1>29 DEF AllResolved, MemoryOK, Steps, Callers
    <2> QED BY <1>6, <1>29, <2>1 DEF AllResolved, repository, shelf
  <1>30. CASE Cleanup
    <2>1. MemoryOK'
      BY <1>4, <1>30 DEF Cleanup, Steps, Callers, Outcomes
    <2> QED BY <1>3, <1>5, <1>30, <2>1 DEF Cleanup, Ready, WorkOK, repository, shelf
  <1>31. ASSUME NEW step \in StepNames, Revert(step)
         PROVE  WorkOK' /\ MemoryOK'
    <2>1. MemoryOK'
      BY <1>4, <1>31 DEF Revert, Steps, Callers, Outcomes
    <2> QED BY <1>6, <1>31, <2>1 DEF Revert, shelf
  <1>32. CASE RestoreTree
    <2>1. Initialized
      BY <1>32 DEF RestoreTree, Control, StartSteps
    <2>2. MemoryOK'
      BY <1>4, <1>32 DEF RestoreTree, Steps, Callers, Outcomes
    <2> QED BY <1>3, <1>5, <1>32, <2>1, <2>2 DEF RestoreTree, WorkOK, repository, shelf
  <1>33. CASE UserEdit
    <2>1. PICK i \in Touched : worktree' = worktree \ {i} \/ worktree' = worktree \cup {i}
      BY <1>33 DEF UserEdit
    <2>2. worktree' \in Content
      BY <1>3, <2>1 DEF WorkOK, Content
    <2> QED BY <1>3, <1>33, <2>2 DEF UserEdit, WorkOK, MemoryOK, repository, shelf, memory
  <1>34. CASE CheckoutMaster
    <2>1. Initialized
      BY <1>34 DEF CheckoutMaster, Control
    <2> QED BY <1>3, <1>5, <1>34, <2>1 DEF CheckoutMaster, WorkOK, MemoryOK, shelf, memory
  <1> QED BY <1>9, <1>10, <1>11, <1>12, <1>13, <1>14, <1>15, <1>16, <1>17, <1>18, <1>19,
             <1>20, <1>21, <1>22, <1>23, <1>24, <1>25, <1>26, <1>27, <1>28, <1>29, <1>30,
             <1>31, <1>32, <1>33, <1>34 DEF Next, ProgramStep, Command

-----------------------------------------------------------------------------
(* What the steps of a process rely on is inductive                         *)

\* Every step leads to a step that may rely on what it needs.
LEMMA ControlStep ==
  ASSUME Inv, [Next]_vars
  PROVE  Control'
  <1> USE DEF Inv
  <1>1. ASSUME pc' = "idle", UNCHANGED <<initial, branches, head>>
        PROVE  Control'
    BY <1>1 DEF Control, StartSteps, BranchSteps, Initialized
  <1>2. ASSUME NEW result, Finish(result), UNCHANGED <<initial, branches, head>>
        PROVE  Control'
    BY <1>1, <1>2 DEF Finish
  <1>3. CASE \/ StartAgain \/ RefuseCommand \/ AbortRefused \/ MigrateCommand \/ Cleanup
             \/ (\E c \in Conflicts : ResolveRefused(c))
             \/ (\E step \in StepNames : RevertRefused(step))
             \/ Crash \/ UserEdit
    BY <1>1, <1>2, <1>3 DEF StartAgain, RefuseCommand, AbortRefused, MigrateCommand, Cleanup,
         ResolveRefused, RevertRefused, Crash, UserEdit, Refuse, repository, memory
  <1>4. CASE UNCHANGED vars
    BY <1>4 DEF vars, Control, Initialized
  <1>5. CASE StartClear \/ Start
    BY <1>5 DEF StartClear, Start, Begin, Control, StartSteps, BranchSteps, Initialized,
         repository
  <1>6. CASE Unpack
    BY <1>2, <1>6 DEF Unpack, Refuse, Finish, Goto, Control, StartSteps, BranchSteps, Initialized,
         repository
  <1>7. CASE CommitInitial \/ Reformat
    <2>1. master' = NewId /\ Len(commits) \in Nat
      BY <1>7 DEF CommitInitial, Reformat, TypeOK
    <2> QED BY <1>7, <2>1 DEF CommitInitial, Reformat, NewId, Goto, Control, StartSteps,
              BranchSteps, Initialized
  <1>8. CASE CreateInitial
    BY <1>8 DEF CreateInitial, Goto, Finish, Control, StartSteps, BranchSteps, Initialized
  <1>9. CASE Search
    <2>1. CASE Finish("unresolved")
      BY <1>2, <1>9, <2>1 DEF Search, repository
    <2>2. CASE pc' = "commit" /\ config' # None /\ UNCHANGED cmd
      BY <1>9, <2>2 DEF Search, Control, StartSteps, BranchSteps, Initialized, repository
    <2>3. \A content \in Content : content # None
      BY MigrationAssumption
    <2>4. (IF config = None THEN worktree ELSE config) \in Content
      BY DEF TypeOK
    <2> QED BY <1>9, <2>1, <2>2, <2>3, <2>4 DEF Search
  <1>10. CASE CommitChanges
    BY <1>2, <1>10 DEF CommitChanges, Goto, Control, StartSteps, BranchSteps, Initialized
  <1>11. CASE ClearCurrent
    BY <1>11 DEF ClearCurrent, Goto, Control, StartSteps, BranchSteps, Initialized, repository
  <1>12. CASE PruneBranch
    BY <1>12 DEF PruneBranch, Control, StartSteps, BranchSteps, Initialized, memory
  <1>13. CASE PruneDone
    BY <1>2, <1>13 DEF PruneDone, Goto, Control, StartSteps, BranchSteps, Initialized, repository
  <1>14. CASE SaveChanges \/ ResolveAll \/ Abort \/ (\E step \in StepNames : Revert(step))
    BY <1>14 DEF SaveChanges, ResolveAll, Abort, Revert, Ready, Begin, Control, StartSteps,
         BranchSteps, Initialized, repository
  <1>15. ASSUME NEW c \in Conflicts, Resolve(c)
         PROVE  Control'
    <2>1. worktree # None
      BY MigrationAssumption DEF TypeOK
    <2> QED BY <1>15, <2>1 DEF Resolve, Ready, Control, StartSteps, BranchSteps, Initialized,
              repository
  <1>16. CASE SkipBranch
    BY <1>16 DEF SkipBranch, Control, StartSteps, BranchSteps, Initialized, repository, shelf
  <1>17. CASE BranchOff
    <2>1. Initialized /\ master # 0
      BY <1>17 DEF BranchOff, Control, StartSteps, Descent, TypeOK, Initialized
    <2>2. Head(todo) \in Branches /\ Head(todo) # "master"
      BY <1>17, MigrationAssumption DEF BranchOff, TypeOK
    <2>3. branches'[head'] # 0
      BY <1>17, <2>1, <2>2 DEF BranchOff, TypeOK
    <2> QED BY <1>17, <2>1, <2>2, <2>3 DEF BranchOff, Goto, Control, StartSteps, BranchSteps,
              Initialized, shelf
  <1>18. CASE RenderMitigation
    BY <1>2, <1>18 DEF RenderMitigation, Goto, Control, StartSteps, BranchSteps, Initialized,
         repository, shelf
  <1>19. CASE CommitBranch
    <2>1. branches'[head] # 0
      BY <1>19 DEF CommitBranch, Control, TypeOK, NewId
    <2> QED BY <1>19, <2>1 DEF CommitBranch, Control, StartSteps, BranchSteps, Initialized, shelf
  <1>20. CASE RenderComments
    BY <1>20 DEF RenderComments, Finish, Control, StartSteps, BranchSteps, Initialized
  <1>21. ASSUME NEW b \in Branches, Use(b)
         PROVE  Control'
    <2>1. CASE Finish("refused")
      BY <1>2, <1>21, <2>1 DEF Use, repository
    <2>2. CASE /\ b \in MitigationBranches /\ todo' = <<b>>
               /\ pc' = "merge" /\ cmd' = "use"
      <3>1. todo' # <<>> /\ Head(todo') = b /\ branches'[b] # 0
        BY <1>21, <2>2 DEF Use, MitigationBranches, repository
      <3> QED BY <1>21, <2>2, <3>1 DEF Use, Ready, Control, StartSteps, BranchSteps, Initialized,
                repository
    <2> QED BY <1>21, <2>1, <2>2 DEF Use
  <1>22. CASE MergeUsed
    BY <1>22 DEF MergeUsed, Control, StartSteps, BranchSteps, Initialized
  <1>23. CASE MergeRecommended
    <2>1. worktree' # None
      <3>1. PICK b \in Branches : branches[b] # 0 /\ MergeBranch(b)
        BY <1>23 DEF MergeRecommended, Control, TypeOK
      <3>2. Initialized /\ UNCHANGED <<initial, branches>>
        BY <1>23 DEF MergeRecommended, Control, StartSteps
      <3>3. worktree' \in Content
        BY <3>1, <3>2, MergeStep
      <3> QED BY <3>3, MigrationAssumption
    <2> QED BY <1>23, <2>1 DEF MergeRecommended, Control, StartSteps, BranchSteps, Initialized
  <1>24. ASSUME NEW c \in Conflicts, PickConflict(c)
         PROVE  Control'
    BY <1>24 DEF PickConflict, Control, StartSteps, BranchSteps, Initialized, repository
  <1>25. CASE AllResolved
    BY <1>25 DEF AllResolved, Control, StartSteps, BranchSteps, Initialized, repository
  <1>26. CASE Forget \/ RestoreTree
    BY <1>26 DEF Forget, RestoreTree, Goto, Control, StartSteps, BranchSteps, Initialized,
         repository
  <1>27. CASE CheckoutMaster
    BY <1>27 DEF CheckoutMaster, Control, StartSteps, BranchSteps, Initialized, memory
  <1> QED BY <1>3, <1>4, <1>5, <1>6, <1>7, <1>8, <1>9, <1>10, <1>11, <1>12, <1>13, <1>14,
             <1>15, <1>16, <1>17, <1>18, <1>19, <1>20, <1>21, <1>22, <1>23, <1>24, <1>25,
             <1>26, <1>27 DEF Next, ProgramStep, Command

-----------------------------------------------------------------------------

\* A new controller directory satisfies the invariant.
LEMMA InvInit ==
  Init => Inv
  <1> SUFFICES ASSUME Init PROVE Inv
    OBVIOUS
  <1>1. commits = <<>> /\ Len(commits) = 0 /\ commits \in Seq(CommitType)
    BY DEF Init
  <1>2. TypeOK
    BY <1>1, MigrationAssumption DEF Init, TypeOK, Content, Steps, Callers, Outcomes
  <1>3. Store /\ Descent /\ Beginning
    BY <1>1 DEF Init, Store, Descent, Beginning, Initialized, CommitIds, Past,
         MitigationBranches
  <1>4. Control
    BY DEF Init, Control, StartSteps, BranchSteps, Initialized
  <1> QED BY <1>2, <1>3, <1>4 DEF Inv

\* No step of a command, of the user or of the host breaks the invariant.
LEMMA InvStep ==
  Inv /\ [Next]_vars => Inv'
  BY RepositoryStep, TypeStep, ControlStep DEF Inv, RepositoryOK

\* The invariant holds of every state that commands, edits and crashes reach.
LEMMA Invariance ==
  Spec => []Inv
  BY InvInit, InvStep, PTL DEF Spec

\* Every variable keeps its type, and no reference of the repository ever points
\* outside the object store, in every run of commands that crashes may cut short.
THEOREM TypeCorrect ==
  Spec => []TypeOK
  <1>1. Inv => TypeOK
    BY DEF Inv
  <1> QED BY <1>1, Invariance, PTL

\* The commits that `start` made stay part of master for ever: reverting, merging,
\* aborting, crashing and restarting never make initial...master anything but the
\* list of the changes since (controller.py history(), journey revert()).
THEOREM InitialNeverUndone ==
  Spec => []InitialKept
  <1>1. Inv => InitialKept
    <2> SUFFICES ASSUME Inv, Initialized PROVE initial \in Past(master)
      BY DEF InitialKept
    <2>1. master \in 0..Len(commits) /\ master >= initial
      BY DEF Inv, TypeOK, Descent
    <2> QED BY <2>1, Reachable DEF Inv
  <1> QED BY <1>1, Invariance, PTL

==============================================================================
