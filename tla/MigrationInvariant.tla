-------------------------- MODULE MigrationInvariant --------------------------
(* The inductive invariant behind the theorems of Migration_proofs.          *)
EXTENDS Migration

\* The object store is a graph without cycles: a commit's parent is older, and
\* its ancestors are the commits before it that it lists, itself included.
Store ==
  \A i \in CommitIds :
    /\ commits[i].parent < i
    /\ i \in commits[i].past
    /\ commits[i].past \subseteq 1..i

\* Once head "initial" exists, everything newer descends from all that it does.
Descent ==
  Initialized =>
    /\ Past(initial) = 1..initial
    /\ \A i \in CommitIds : i > initial =>
         1..initial \subseteq commits[i].past /\ commits[i].parent >= initial
    /\ master >= initial
    /\ \A b \in MitigationBranches : branches[b] >= initial

\* Before it exists, the commits are one line that ends at master.
Beginning ==
  ~Initialized =>
    /\ MitigationBranches = {}
    /\ master = Len(commits)
    /\ Past(master) = 1..master

StartSteps == {"unpack", "commit_initial", "reformat", "create_initial"}
BranchSteps == {"branch", "render", "commit_branch"}

\* What a process relies on at each of its steps.
Control ==
  /\ pc \in StartSteps => ~Initialized
  /\ pc \notin StartSteps \cup {"idle"} => Initialized
  /\ pc = "create_initial" => master # 0
  /\ head # "master" => Initialized /\ branches[head] # 0
  /\ pc \notin BranchSteps \cup {"idle", "merge"} => head = "master"
  /\ pc \in BranchSteps => current \in Conflicts /\ config # None
  /\ pc \in {"render", "commit_branch"} => head # "master" /\ todo # <<>>
  /\ pc = "merge" =>
       \/ cmd = "use" /\ head = "master" /\ todo # <<>> /\ branches[Head(todo)] # 0
       \/ cmd = "resolve_all" /\ head # "master"
  /\ pc \in {"commit", "clear", "prune"} /\ cmd = "resolve_all" => config # None
  /\ pc = "pick" => config # None

Inv == TypeOK /\ Store /\ Descent /\ Beginning /\ Control

\* Where the branches of a conflict are made, those still to be made are its
\* own too; where process() or abort() has removed them, there are none.
Owned ==
  /\ BranchesBelongToCurrent
  /\ pc \in BranchSteps => \A i \in 1..Len(todo) : ConflictOf[todo[i]] = current
  /\ pc \in {"pick", "forget"} => MitigationBranches = {}

\* The ancestors of an ancestor are ancestors.
Closed ==
  \A i \in CommitIds : \A j \in commits[i].past : commits[j].past \subseteq commits[i].past

\* A commit contains all that its first parent does.
Rooted ==
  \A i \in CommitIds : Past(commits[i].parent) \subseteq commits[i].past

\* A mitigation is merged for a conflict; forgetting one is a part of abort().
Asked ==
  /\ pc = "merge" => current \in Conflicts
  /\ pc = "forget" => cmd = "abort"

\* Until the migration has started, what lies in the directory comes from archives;
\* what `start` commits is a whole one in the files that it has.
Baseline ==
  /\ ~Initialized => worktree \subseteq UNION Archives
  /\ pc \in {"commit_initial", "reformat"} => FromArchive(worktree)
  /\ pc = "create_initial" =>
       commits[master].name = "reformat" /\ FromArchive(Tree(master))
  /\ BaselineIsWhole

\* process(), and not abort(), is removing the branches.
Concluding == pc = "prune" /\ cmd # "abort"

\* What process() has established after each of its steps, and which commands
\* have read the configuration.
Settled ==
  /\ pc # "idle" => outcome = "running"
  /\ cmd = "use" => pc = "merge"
  /\ cmd = "abort" => pc \in {"prune", "forget"}
  /\ pc \in {"idle", "restore", "forget"} \/ cmd \in {"use", "abort"} => config = None
  /\ pc \in {"create_initial", "search", "commit", "pick"} /\ config # None =>
       config = worktree
  /\ pc \in {"commit", "clear"} => current \notin Detected(worktree)
  /\ pc \in {"commit", "clear"} \/ Concluding =>
       config = worktree /\ found = Detected(worktree)
  /\ pc = "clear" \/ Concluding => worktree = Tree(master)
  /\ pc = "pick" \/ Concluding => current = None

\* What a step of the migration may rely on, whatever steps came before.
Grounds == Inv /\ Closed /\ Rooted /\ Asked /\ Baseline /\ Settled

==============================================================================
