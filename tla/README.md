# A specification of F5 BIG-IP Journeys

Journeys migrates a BIG-IP configuration to the VELOS platform: it unpacks a UCS
archive, looks for *conflicts* (objects the target does not support), offers
*mitigations* for each, records what was applied as commits of a git repository, and
packs and deploys the result. These modules specify that workflow as the code has it,
check it with TLC on small migrations and prove its safety properties for all.

## 1. The system

| Component | Code | State it keeps | Operations |
|---|---|---|---|
| Migration controller | `journeys/controller.py` | directory `wip/`: a git repository (heads `master`, `initial`, one per mitigation), a shelf `.shelf` (`current_conflict`, `conflicts`, ...), the working tree; in memory the parsed configuration | `initialize`, `process`, `resolve`, `resolve_recommended`, `abort`, `generate`, `history` |
| Workflow commands | `journey` | none between commands: each command is a process that builds a controller | `start`, `migrate`, `resolve`, `resolve-all`, `use`, `abort`, `cleanup`, `revert`, `generate`, `deploy`, `backup`, `diagnose`; `show`, `diff`, `history`, `prompt` and the reports only print |
| Conflict handler, plugins | `journeys/modifier/conflict/` | none | detection (`get_conflicts`), rendering with a mitigation function (`render`) |
| Dependency map | `journeys/modifier/dependency.py` | graph of references between objects | traversal, resolutions on deletion |
| Field collection | `journeys/config.py` | an ordered list of statements with a tree of their arguments and a map of their ids; the BigDB | get, add, insert, delete, update, comment out, rebuild, build |
| Parser | `journeys/parser/` | none | lexer, parser, builder: text to nested blocks and back |
| UCS, AS3 | `journeys/utils/ucs_*.py`, `as3_ops.py`, `as3ucs.py` | archive files | tar, gpg, JSON |
| REST backend | `journeys/backend/` | one controller per server process, with the configuration it has read; rows for sessions, conflicts, mitigations, files, changes; a directory per session | create and delete a session, upload an archive, read and write files, save changes, set and reset the current conflict |
| Deployment, SSH | `journeys/validators/deployment.py`, `journeys/utils/device.py` | the device | backup, upload, load, wait for the prompt; retries |
| Log watcher, diagnosis | `journeys/validators/` | saved log offsets, result files | start, stop, collect; a list of checks |
| Reports, versions, Jade | `journeys/reports/`, `journeys/utils/` | none | formatting and parsing |

**How they interact.** The CLI and the REST backend call the controller; the controller
reads the working tree through parser, configuration and handler, and writes it through
`render`. The repository, the shelf and the working tree are shared by all commands and by
the user, who edits the files between commands with any editor. Device operations talk to
hosts that may drop the connection.

**What is hard.** Every command is a sequence of writes to three stores that no
transaction spans, and any of them may be the last: a plugin raises, the archive is bad,
the process is killed. The next command starts from whatever is on disk. Commands may come
in any order with edits between them; branches made by one are used by another much later.
Configuration read into memory is used after the tree has changed. The backend adds a fourth
store, the database, and a controller that outlives requests and sessions; its worker serves
one request at a time (`entrypoint.sh` starts gunicorn with its default, one synchronous
worker), so requests do not interleave, but gunicorn kills a worker that takes too long.

**What makes each part correct.**
Controller: the history is exactly what was applied and was not reverted; the baseline is
never undone; a conflict is not given up before it is gone; a report describes what is
committed; branches belong to the conflict at hand; commands end.
Backend: rows and repository agree. Generation: outputs are what was checked. Deployment:
what the device had is in the backup before anything is loaded, and success is told only of
what was done. Log watcher: findings are those since the deployment. Diagnosis: the last
results can be reported. Parser and builder: what is read back is what was written.
Dependency map: traversal reaches
exactly the transitive dependents; no deletion leaves a dangling reference. Field
collection: the indices agree with the list.

The full list of hazards, each at its line, is in `PROJECT.json`.

## 2. Modules

| Module | Contents |
|---|---|
| `ChangeLog` | what a migration promises: a baseline, the changes applied to it, the conflict being resolved |
| `Migration` | controller and workflow commands; properties; mutants |
| `MCMigration` | a migration with two conflicts for TLC |
| `MigrationClaims` | what documentation and messages say of the workflow, with a history variable |
| `MigrationInvariant` | the inductive invariants |
| `Migration_proofs` | type correctness, `InitialKept` |
| `MigrationSafety_proofs` | the other safety properties; every step is one of `ChangeLog` |
| `Backend` | requests of the REST backend, its database and its worker; properties; mutants |
| `MCBackend` | one session with two conflicts, or two sessions with one |
| `Backend_proofs` | the inductive invariant and the safety properties of the backend |
| `DependencyMap` | the table of references between objects; the graph; what resolutions do |
| `ConflictPlugin` | one plugin: traversal, comments, deletion, files to render; properties; mutants |
| `MCConflictPlugin` | a configuration of 15 objects |
| `ConflictPlugin_proofs` | the inductive invariants of deletions and of traversals, and the safety properties |
| `SettingPlugins`, `MCSettingPlugins` | the plugins about fields and values, which share objects and the database |
| `SettingPlugins_proofs` | its two action properties |
| `ConfText` | a file that is read and written back; the lexer, and how the builder quotes a word |
| `ConfText_proofs` | which words survive being written, of every word |
| `ConfFormat` | parser and builder as functions, on top of `ConfText` |
| `MCConfFormat` | alphabets of pieces of files, what an ordinary file is, and the properties |
| `FieldList` | what a collection of statements promises: an ordered list |
| `FieldStore`, `MCFieldStore` | list, tree and map of `config.py`, and the refinement mapping to `FieldList` |
| `FieldStore_proofs` | lookups that never fail and are exact; every step is one of `FieldList` |
| `Deploy` | generate, backup, deploy, download-ucs; device, connection, kills |
| `Diagnose`, `MCDiagnose` | diagnose and deployment-report on top of `Deploy` |
| `DiagnoseInvariant` | what a command on the device relies on at each step: the inductive invariant |
| `Diagnose_proofs` | the types of both modules; the invariant and the safety properties |

### Migration and the code

*Content.* A configuration is the set of items in it: the conflicts its objects cause, the
user's edits, and the comments `resolve` writes at conflicting objects. Plugins enter as
constants: the branches `resolve` makes for a conflict and in which order
(`MitigationsOf`), the one `resolve-all` makes (`Recommended`; its name is built from
the function's name and not from the key of the mitigation, so it may differ from
`resolve`'s), what a mitigation removes (`Removes`), what lies in the files that are
rendered (`Rewrites`), and which functions raise (`Faulty`). A mitigation that edits a file
which is not rendered - `Spva.py` does - is one that removes nothing.

An archive is the set of conflicts in it, and `Covers` the items that lie in files it has.
`Unpack` extracts it into the directory as that is: what lies in files the archive does not have
stays (`Extracted`). An extraction that breaks off, killed or on a bad archive, has replaced some
of the files (`HalfExtracted`); `start` then ends, and the next one extracts over that.

*Repository.* `commits` is git's object store, append-only: a commit has a name (its
summary), a first parent, its set of ancestors and its content. `master`, `initial` and
`branches` point into it, 0 when there is no such head. `head` is the branch checked out.
`Merged` is git's three-way merge; `MergeBranch` has its three outcomes (up to date,
fast-forward, merge commit).

*Processes.* One command runs at a time. `pc` is its next step, `cmd` what `process()`
returns to, `message`, `config` and `todo` are the controller's memory, lost at `Finish`. Each
write to the repository, the shelf or the tree is an action:

| Code | Actions |
|---|---|
| `start`, `initialize` | `Start` / `StartClear` / `StartAgain`, `Unpack`, `CommitInitial`, `Reformat`, `CreateInitial`, then `process` |
| `process` | `Search`, `CommitChanges`, `ClearCurrent`, `PruneBranch`*, `PruneDone` |
| `resolve` | `Resolve`, (`SkipBranch` or `BranchOff`, `RenderMitigation`, `CommitBranch`)*, `RenderComments` |
| `use` | `Use`, `MergeUsed`, then `process` |
| `resolve-all` | `ResolveAll`, then `process`, `PickConflict`, `BranchOff`, `RenderMitigation`, `CommitBranch`, `MergeRecommended` in a loop; `AllResolved`, then `process` |
| `abort` | `Abort`, `PruneBranch`*, `PruneDone`, `Forget`, then `process` |
| `revert` | `Revert`, `RestoreTree`, then `process` |
| `cleanup`, `migrate`, `POST changes` | `Cleanup`; `MigrateCommand`; `SaveChanges` |
| refusals | `RefuseCommand`, `ResolveRefused`, `AbortRefused`, `RevertRefused`, and the second half of `Use` |

`UserEdit`, `CheckoutMaster` (what the error message tells the user to do when a command
has left HEAD on a branch) and `Crash` complete the environment.

*Abstractions.* Commands do not run concurrently and the user does not edit while one runs.
Files always parse. `git add -u` and the commit are one step; there is no index. Merges
touch different lines and so do not conflict. `use` is given the name of a branch, existing
or not. The AS3 declaration and `initial_conflicts` are left out.

*Refinement.* `Migration` implements `ChangeLog` when `baseline` is the content of head
`initial`, `applied` the commits of initial...master by their number, `resolving` the current
conflict of the shelf, and `request` says that a merge is due or that `abort` is under way.
What the user sees of two stores and a tree is then a short list of things that can happen: a
baseline is made, with all of an archive, and beside it only what other archives have left in
files of their own; a change is recorded under the name the user gave or that of the conflict it resolves, on top of
all others, and leaves nothing of that conflict; a mitigation of the conflict being resolved is
adopted, and loses nothing; the conflict is dropped when the last applied change is free of it,
or by `abort`; `revert` goes back to what the oldest change of that name was made on.
Everything else - branches, comments, edits, failures - is no step of it, and neither is a
crash, unless it interrupts a merge or an abort.

*Bounds.* `MaxCommits` bounds the object store: through `Room`, a command that commits
begins only while there is room. `Touched` bounds what the user edits. Both only restrict
when commands begin; a command that has begun runs to its end.

### Backend and the code

*State.* `sessions`, `current` and the four `...Rows` are the tables, each row reduced to the
columns that refer to something: a conflict is its name, a mitigation <<branch, conflict>>, a
file <<conflict, branch or None>>, a change the commit it was made for. `history`, `tree`,
`shelf` and `branches` are a session's directory, `controller` and `config` the memory of the
worker: for which directory the process-wide controller was built and the configuration it
holds. `step` and the variables after it are the request being served. `Upload` extracts over what
a failed upload has left in the directory (`Leftovers`), and `UploadFails` may leave any part of
both there.

*Requests.* One action is one operation of the controller or one write to the database:

| Code | Actions |
|---|---|
| `POST /sessions`, `DELETE /sessions/<id>` | `CreateSession`; `DeleteSession` |
| `POST .../source` | `Upload` (or `UploadFails`, `UploadRefused`), then `process` |
| `POST .../changes` | `Save`, then `process` |
| `logic.process` | `Process` (or `ProcessRaises`), `AddChange`, `ClearCurrent`, `DeleteFiles`, `DeleteMitigations`, `DeleteConflicts`, `AddConflict`*, `Saved` |
| `POST .../current_conflict` | `SetCurrent` (or `SetRefused`), `SetSession`, `DeleteFiles`, `DeleteMitigations`, `AddFiles`, (`AddMitigation`, `AddMitigationFiles`)*, `CurrentSet` |
| `DELETE .../current_conflict` | `Reset`, `ClearCurrent`, `DeleteFiles`, `DeleteMitigations` |
| files, branches | `ReadFile`, `WriteFile` |
| `DELETE .../changes/<id>` | `DeleteChange`: the row goes, the commit stays |
| a request that finds no migration | `NotStarted` |

`Restart` loses the worker's memory between any two of them.

*Abstractions.* The controller's operations are single steps here and do not fail half-way;
`Migration` has their steps. A conflict lies in one file of its own and has one mitigation
branch. The comments `resolve` writes are left out. File rows of one conflict (or branch) are
written together. Deployments, sources, credentials and listings are left out.

*Bounds.* `MaxCommits` bounds the history of a directory: a save begins only with room for a
commit.

### DependencyMap, ConflictPlugin and the code

*Content.* An object has a type, a name, a file and a set of references <<field, value>>.
`DEFAULT_DEPENDENCIES` is the table of `dependency.py` row by row: which types refer by which
field to which types, by name, address or network, and what is deleted with the object
referred to: the reference, the object that has it, or a collection of references.
`Dependents` and `DependsOn` are `reverse` and `forward`, `DeletesObject` and `Removed` what
the functions in `resolutions` do for a pair of objects.

*Steps.*

| Code | Actions |
|---|---|
| `Plugin.__init__`, `build_dependencies`, `dfs` | `Init`, (`BeginTraversal`, (`Visit` or `Return`)*)* |
| `generate_object_info` | `InfoRaises` where VirtualWire's raises; otherwise part of what follows |
| `comment_objects` | `RenderComments`, traversals as above, `Commented` |
| `delete_objects`, PEM's `adjust_objects`, SPVA's `delete_objects` | `RenderDeletion`, (`DeleteObject`, `ApplyResolution`*, `NextObject`)*, `Deleted` or `LevelMissing` |

The code's sets of strings are walked in an order that differs between processes; the model
takes any element. `Types`, `Whole` and `MayFind` say which objects each plugin may find:
all of a type, those with a field that is a reference, or any of those whose other fields decide.

*Abstractions.* Addresses and networks are relations (`Hosts`, `Networks`). A type stands
for all that its prefix matches. A collection emptied by `nested_with_cleanup` is not told from
one left empty. Fields that are no references and AS3 declarations are left out; mitigations that
only set a field are in `SettingPlugins`.

### SettingPlugins and the code

*State.* `config` is what is on disk after each merge: objects as functions from fields to
values (`None` for one that is not there) and the BigDB, a function from sections to values
in which a section, or the option of one, may be missing. `file` tells in which file each
object lies. `places` is the number of places in `CompatibilityLevel.MSG_TYPE`, an attribute
of the class that one of its mitigations assigns and that lives as long as the process.

*Steps.* `objects` is what each plugin's constructor finds, `mitigate` what its functions do to
the copy of the configuration, `render` which files of it are written: those of the objects
found and always the BigDB. `Mitigate` is one conflict found, one mitigation rendered and
merged; its set of results is empty where the code raises. `Restart` is a new process.

*Abstractions.* One compatibility level, one `ltm global-settings general`, one `sys
global-settings`, as in every configuration. Deleted objects take no others along here; that is
in `ConflictPlugin`. `CoS` has only the base class's behaviour. A configuration without BigDB.dat
(`bigdb` is `None`) is not told from one with none of its sections.

### ConfText, ConfFormat and the code

*Content.* A file is a sequence of characters, built by `Write` from pieces (characters, words,
lines) of one of several alphabets, and then read and written again by `Render`. What that
makes of a text is the constant `WrittenBack` of `ConfText`, which the configurations of TLC give
the value `build_files` of `ConfFormat`: `build_files` of `parse`. `Escaped` holds the positions
behind a backslash that make one unit with it, as `_iterescape` does; `LexStates` is the
lexer's loop, with its modes (plain, quoted, comment, the body of an iRule) behind each character,
`Lex` what it has yielded at the end. `_needs_quotes` and `_enquote` are character by character,
because the properties are about them; `Bare` has what sends a word into quotes, `;` and `|` included. `OtherSpace` is
the whitespace of `str.isspace` besides blank and newline, which the code treats alike. These are functions over positions, without recursive
operators, so `ConfText` can be reasoned about. `ConfFormat` adds what needs recursion: `parse`, the
nesting of blocks with what becomes of unbalanced braces, and `build`, the builder.

*Abstractions.* Line numbers, indentation and the header are left out. The alphabet has one
name of a module, one type of object with a list, and one type with a raw body; the letters
stand for all that the code does not tell apart. A file that does not parse is empty, as in
the code, where the list of statements is assigned only when parsing ends.

*Not ordinary.* `Ordinary` says of which files the properties speak; outside of it the code
behaves as follows, and the model with it. A file with an unbalanced brace or a last
statement without newline loses statements, and no caller reads the parser's `status`. A
comment inside of a list takes the brace behind it along, a list on several lines is
concatenated. A comment as first word of an iRule's body loses the body, an empty body is an
`IndexError`, comments behind it are dropped. `MODULES` lacks `cm`, so an object of that
module behind a raw body is swallowed.

### FieldList, FieldStore and the code

*State.* `store.data` is the list, whose entries are identities of statements; `dict` has their
arguments and files; `tree` is `_arg_tree`, a function from paths to values; `idmap` is
`_id_map`; `files` is what `Config.data` has been given, which includes files that were found without
a statement in them. `disk` is what `build` has written, `present` the files that there are.

*Steps.* `Add`, `Delete`, `SetArgs`, `InsertBefore`, `InsertAfter`, `InsertComment`, `ConvertToComments`,
`Search`, `Build` and `Read` are the calls that `Config`, `Field` and the plugins make; the
operators named after the methods (`add_data`, `update`, `_tree_delete`, ...) change every index
in the code's order, with the exceptions they may raise (`raised`). `from_dir` is written in
closed form: the tree and the map that inserting the fields in order leaves, the later of two
with one key. `Read` and `Init` take configurations whose keys are unique, which the class assumes.

*Refinement.* `FieldStore` implements `FieldList` when `list` is the statements in the order of
`data`: what the indexed collection finds is what a search of the list finds, and what is
built is the list, file by file. *Abstractions.* Collections inside of an object have no
index and are not modelled, nor are searches by regular expression. `NamedFile` holds the
files that `_rebuild_data` cannot add, because it tells a statement without file from one of a
new file by looking for "file" in the message of the `KeyError`: a new `profile_base.conf` is
skipped with all its statements. `Found` says which sets of files `parse_dir` may find. In the run
`profile_base` is one with such a name and is always found, with statements or without, and
`bigip` may be missing and be made by what is added to it. From `start` to `generate` nothing is added
to a file that was not read, and a file that is neither found nor added to is as good as none of
`Files`; only Jade makes new ones.

### Deploy, Diagnose and the code

*State.* `device` is the configuration it runs, its backups by the time in their name, the
archive that was uploaded and the one to download; `logs` its log files, whose lines are
the epochs they were written in; `work` is `WORKDIR`: outputs, the archive in the clear, the
log watcher's offsets, results and the pointer to the last. `proc` is the command that runs,
`pc` its next step; `said` how the last one ended. Files may be `Partial`: truncated before
they are written, or cut off.

*Steps.*

| Code | Actions |
|---|---|
| `generate`, `_check_output_files`, `tar_file` | `Generate`, `Conflicts`, `CheckUcs`, `CheckAs3`, `Tar`, `Encrypt`, `RemovePlain`, `SaveAs3` |
| `backup`, `backup_over_cli` | `Backup`, `save_ucs` |
| `deploy` | `Deploy`, `Connect`, `LogWatcher`, `Stat`*, `Dump` (two steps), `save_ucs` unless `--no-backup`, `Upload`, `load_ucs` |
| `download_ucs` | `Download`, `Version`, `SaveArchive`, `Get`, `delete_file` |
| `diagnose`, `run_diagnose` | `Diagnose`, `Connect`, (`Poll`*, `LoadOffsets`, `Collect`*, `Cleanup`, `Other`)*, `WriteResults`, `ResultsWritten`, `WritePointer` (two steps) |
| `deployment-report` | `deployment_report` |

`Attempt` is one try of a command on the device through `Connector`: it may be carried out
and answered, refused with an exit status, or lose the connection before or after it was
carried out and be tried again, three times in all. An error that `error_handler` knows ends
the block it guards (`Fails`, or in the log watcher's block only that); others end the
program (`Raises`). `Kill` ends it anywhere. `LogEvent` is the device writing, rotating
or removing a log; it happens where the order matters.

*Abstractions.* One device is deployed to. Configurations and archives are members of a small
set. Whether the migration has an AS3 declaration is chosen when `generate` begins
(`proc.as3`); only then is the second output checked and written. A log is watched as lines that all match its patterns. The checks behind the first two
are one step each, with a result or an exception. What `generate` packs is any configuration.

*What the code does and no property forbids.* A log that appeared after the deployment
is a `KeyError` that ends every diagnosis until the next deployment. The log watcher's
offsets are removed before its result is written: a later check that raises, a kill or a
second diagnosis finds none. `--excluded-checks` with all names writes the pointer to a file
that is not there. If gpg fails, the archive in the clear stays beside the output, and the
error is none that the handler knows. `wait_for_prompt_state` counts readings of different
expected states as one stable state and returns the last reading when the time is up.

*Bounds.* `MaxCommands` and `MaxEvents`; `MaxPolls` bounds the readings of the prompt, whose
timeout may come after any of them.

## 3. Runs

| Run | What it asks | Instance |
|---|---|---|
| `migration` | safety over all interleavings of commands and edits | 2 conflicts, 4 branches (one ineffective), an edit, a message, 5 commits |
| `migration_crash` | safety when commands are killed at any step and a mitigation raises | the same without the edit and the message; 2 archives that have different files, extraction that breaks off; 5 commits |
| `resolve_all` | every command ends; `resolve-all` completes | no edits, archives with any subset of the conflicts, 4 commits |
| `backend` | safety of requests that may be killed anywhere, also when sessions share the controller | 1 session with 2 conflicts and 3 commits, or 2 sessions with 1 conflict, 2 commits and rows for commits of one directory; symmetry |
| `conflict_plugin` | a plugin's traversals, comments and deletion in every order | 15 objects, 8 configurations, 8 plugins, any objects they may find |
| `setting_plugins` | whether mitigations of different plugins get in each other's way | 5 objects in 2 files in all ways, values that are conflicts and values that are not, sections of the BigDB missing |
| `conf_format` | whether what is written back is what was read | files of up to 6 pieces (5 of characters that matter for quoting) of 5 alphabets, written back once |
| `field_store` | whether list, tree and map agree after any sequence of operations | 2 arguments one of which begins the other, 2 files, one with "file" in its name and one that may be missing, 4 contents of the disk |
| `deployment` | success, backups, outputs and findings when anything may fail or be killed; whether `Inv` of `DiagnoseInvariant` holds | 3 commands, 2 logs, 1 event, 3 attempts |
| `later_diffs_clean` | what a comment claims of rebuilding a file, and the code does not do | files of up to 6 characters, written back twice |
| `use_local_changes`, `reverted_stays` | what docs and messages claim and the code does not do | `MigrationClaims` |

*Why the bounds are enough.* Two conflicts are needed for a command to meet another
conflict's branches; two mitigations of one conflict for a second `use` after an ineffective
one, which is the shortest way to a merge that is not a fast-forward. Five commits hold the
two of `start` and three more: two mitigations of a conflict and a merge of them, or a
resolved conflict and two branches of the next. The edit lies in a file that one conflict's
mitigations rewrite and the other's do not. Two archives with different files are what it takes
for a start to commit a mixture of what it extracts and what another one left. No symmetry is declared: the two conflicts differ.
For the backend, the constraint `Small` keeps to one conflict once there are two sessions: two conflicts let a request meet the rows and branches of the other one, and
the three commits let two changes be saved. Two sessions are what sharing takes, and
one conflict then shows whose rows a request finds. Sessions are symmetric: nothing names one, and only safety
is checked under symmetry.

For `conflict_plugin`, the configuration has a chain of five references (interface, trunk, vlan,
group, route or self IP), objects reached over several paths, conflicts of up to three
objects that depend on each other, and one or more objects for each kind of resolution that a
deletion can meet; a self IP is in the vlan or the group, a whitelist and a virtual server name the
vlan or do not.

For `conf_format`, six pieces hold an iRule of a header, a body and an end and the object behind
it, or a list within an object; five characters hold a quoted word with an escape in it. For
`field_store`, three statements make a tree with a branch that is kept when another is
pruned. For `deployment`, three commands are two deployments and a diagnosis between or
behind them, one log event is enough to make any log longer, shorter or new between any
two steps that look at logs, and three attempts let a command be carried out up to three times.

*Properties.* `InitialKept`: initial...master (a symmetric difference) stays a list of
changes. `BranchesBelongToCurrent`: every mitigation branch is the current conflict's
unless a command was killed - in the run with crashes it does not hold, since `process()`
clears the current conflict before it deletes the branches. `VerdictIsCommitted`: when
`process()` returns to a report, tree, shelf, branches and master agree.
`HistoryOnlyRevertedOnRequest`: only `revert` and `start --clear` take a change away.
`CurrentKeptUntilGone`: a conflict is not given up silently. `BaselineIsWhole`: the
baseline of a started migration is reformatted and has, of the files of one archive, exactly what
that archive has, however many starts failed before; what it has besides comes from other archives. `ImplementsChangeLog`: the refinement; it says all of
this at once, and relates what the others leave apart: the conflict in the shelf to the content of
the last commit, and `revert` to what was there before. `CommandEnds`, `ResolveAllCompletes`: liveness.
`SessionShowable`: the serializer finds the row of a session's current conflict.
`DeletesNeverRefused`: no request trips over `on_delete=PROTECT`. `SavedIsShown`, `SetIsShown`:
after an answer of success the rows of that session and the controller agree. For a save
that is: the change has the row of its commit, the current conflict and the branches are gone on both sides,
what is in the directory is committed, and the rows of conflicts are those of the configuration the
worker has in memory. After an upload that is what was committed. After a later save it need not
be: the controller does not read the configuration again, and neither do the rows follow the
files then (see below). Nothing of the
kind holds after an answer of failure, a save that commits nothing, or a restart: those
leave rows and directory apart until the next success.

`TraversalExact`: what a plugin finds and comments on is the closure of its objects.
`NeverFails`: no object of a conflict is deleted by the resolution of another.
`OrderIrrelevant`: the result of a deletion is a function of the configuration.
`NothingRefersToDeleted`: no reference to an object of the conflict is left; it does not speak of
objects that a resolution deletes, whose own dependents the code leaves alone.
`ChangedIsRendered`: no change is lost because its file is not written.

`NoneBringsAnother`: conflicts become fewer whatever is chosen, although what one mitigation
writes is what another plugin looks at and part of it may not be rendered.
`RecommendedResolves`: what `resolve-all` does to a conflict removes it from the files.

`WordsSurvive`: exactly which words are not read back as they were. `ContentKept`: the parsed
statements are the same after writing back. `NothingLost`: so are the characters.
`ObjectsSeen`: no object is swallowed by an iRule.

`IndexExact`: tree and map hold exactly the statements of the list. `NeverRaises`: no legal
sequence of operations runs into a missing entry. `ImplementsList`: the refinement.

`BackedUp`: from the moment the configuration may have changed there is a backup of the one
before, however often commands were sent. `SuccessIsTrue`, `NothingOverwritten`,
`OneCopyLeft`: of outputs, uploads and downloads. `LogFindings`: the findings are all lines since the
offsets were saved and none from before the deployment. `LastIsComplete`: the pointer leads to
whole results.

*Fairness.* `FairSpec` assumes weak fairness of `ProgramStep`, the next step of the running
command: it is sequential code that waits for nobody. Nothing is assumed of the user,
of crashes, or of commands being issued. `ResolveAllCompletes` is checked where recommended
mitigations remove their conflicts; one that does not ends the loop with
`ConflictNotResolvedError`, which `migration_crash` covers for termination by safety only.

*Disagreements found.*
- `use` discards local changes before it checks for them.
- A reverted change comes back: `revert` during a resolution leaves the branches made on top
  of what it reverted, and `use` fast-forwards to them.
- A word read from quotes that holds a closing brace behind its first character is written
  without quotes; the next time the file is read the brace ends a block, and the time after
  that the statement is gone.
- `abort` does not bring back the state before `resolve`, as its help says (`journey:260`):
  edits made before are gone, and an ineffective mitigation that was merged stays.
- SPVA's mitigation deletes everything its whitelists depend on, vlans and trunks included
  (`Spva.py:80`; `ConflictPlugin!DeleteSpva` has it so).
- VirtualWire raises when vlans found by their tag are all there is (`VirtualWire.py:83`), and
  no conflict of any plugin is reported; `NeverFails` excepts it.
- The backend rejects a change as unresolved although the files are free of the conflict: its
  controller has read the configuration before and does not read it again (`logic.py:21`). For
  the same reason the rows of conflicts after a save may not be those of what it committed.
- `start` over what a killed or failed `start` of another archive has left commits a mixture of the
  two: `untar_file` extracts into the directory as it is (`ucs_ops.py:32`), and only `--clear`
  empties it. So `BaselineIsWhole` speaks of the files one archive has and not of the whole tree.
- After the mitigation of CompatibilityLevel that only comments, a process that lives on finds
  no conflicts any more (`CompatibilityLvl.py:82`).
- `_rebuild_data` drops the statements of a new file with "file" in its name, against its own
  docstring (`config.py:60`).
- README.md writes `--exclude-checks` and a backup named `auto_backup_*`; the code has
  `--excluded-checks` and names the backup of `deploy` `user_backup_*`.

The first three are runs that TLC refutes; the others are what the modules say of the code.

## 4. Proofs

For every set of conflicts, branches and edits, whatever mitigations do or raise, with any
number of commits and with crashes unless said otherwise; those of `ConflictPlugin` for every
configuration, with the table of dependencies as it is in the code; those of `Deploy` and
`Diagnose` for any logs, archives, retries and number of commands, with kills; those of
`SettingPlugins` for every configuration and every distribution of its objects over files;
those of `FieldStore` for any number of files and of statements, with any arguments; those of
`ConfText` for every word, of any length, and for every file:

| Theorem | States |
|---|---|
| `TypeCorrect` | `Spec => []TypeOK` |
| `InitialNeverUndone` | `Spec => []InitialKept` |
| `HistoryKept` | `Spec => HistoryOnlyRevertedOnRequest` |
| `BaselineWhole` | `Spec => []BaselineIsWhole` |
| `VerdictSound` | `Spec => VerdictIsCommitted` |
| `CurrentKept` | `Spec => CurrentKeptUntilGone` |
| `BranchesOwned` | `~MayCrash => (Spec => []BranchesBelongToCurrent)` |
| `MigrationIsChangeLog` | `Spec => ImplementsChangeLog` |
| `BackendTypeCorrect` | `Spec => []TypeOK` of `Backend` |
| `AlwaysShowable` | `Spec => []SessionShowable` |
| `NeverProtected` | `Spec => []DeletesNeverRefused` |
| `SavedSound` | `Spec => SavedIsShown` |
| `SetSound` | `Spec => SetIsShown` |
| `ConflictPluginTypeCorrect` | `Spec => []TypeOK` of `ConflictPlugin` |
| `DeletionNeverFails` | `Spec => []NeverFails` |
| `DeletionOrderIrrelevant` | `Spec => []OrderIrrelevant` |
| `NoDanglingReference` | `Spec => []NothingRefersToDeleted` |
| `FoundIsExact` | `Spec => []TraversalExact` |
| `ChangesWritten` | `Spec => []ChangedIsRendered` |
| `ConflictsFall` | `Spec => NoneBringsAnother` |
| `RecommendedSettles` | `Spec => RecommendedResolves` |
| `PreparedSteps` | `Spec => []Inv` of `DiagnoseInvariant`, types included |
| `BackupFirst` | `Spec => []BackedUp` |
| `ResultsWhole` | `Spec => []LastIsComplete` |
| `CopyNeverLost` | `Spec => OneCopyLeft` |
| `OutputsKept` | `Spec => NothingOverwritten` |
| `SuccessSound` | `Spec => SuccessIsTrue` |
| `FindingsExact` | `Spec => LogFindings` |
| `LookupsPresent` | `Spec => []NeverRaises` |
| `LookupsExact` | `Spec => []IndexExact` |
| `ListImplemented` | `NamedFound => (Spec => ImplementsList)` |
| `EveryWord` | a word is read back as it was written if and only if it is not `Fragile` |
| `FileWordsSurvive` | `Spec => []WordsSurvive` of `ConfText` |

The only assumptions are `MigrationAssumption`, the types of the constants and that a
conflict's branches carry its name, and `BackendAssumption`, `ObjectAssumption`,
`PluginAssumption`, `DeployAssumption`, `DiagnoseAssumption` and `SettingAssumption`, the types
of the constants and that `None` (and `Partial`) is none of their values, and `FieldAssumption`,
which also says that only comments begin with `#` and that the configurations on disk can be
read with unique keys, `AlphabetsAssumption`, that files are made of strings, and
`OtherSpaceAssumption`, that no whitespace is one of the characters with a meaning of their own;
nothing is assumed of `WrittenBack`. TLC evaluates them in the runs of each module.

*Argument.* `InitialKept` is not inductive: `revert` moves master to a parent, and nothing in
it says that the parent still descends from `initial`. `Inv` adds what is needed. `Store`:
parents are older and ancestors are in the store. `Descent`: every commit made after
`initial` descends from all that `initial` does and its parent is no older; every head is no
older than `initial`. So the parent of a commit in initial...master is `initial` or descends
from it. `Beginning`: until then the commits are one line ending at master. `Control`: at
each step of a command, HEAD is where the step needs it and the configuration has been read.
`RepositoryStep`, `TypeStep` and `ControlStep` show that each action preserves `Inv`.

On top of it `Closed` (ancestry is transitive in the store) gives `HistoryKept`: a
fast-forward moves to a commit that has all of master's past. `Baseline` gives
`BaselineWhole`, `Settled` (what `process()` has established after each step) gives
`VerdictSound` and `CurrentKept`, `Owned` gives `BranchesOwned`.

`MigrationIsChangeLog` needs all of them but `Owned`, and two more: a commit contains all that
its first parent does (`Rooted`), and a merge is made only while a conflict is being resolved
(`Asked`). `Newer` says what the applied changes are: what master descends from and is newer than
`initial`, master being the last; so a commit adds itself alone, on top of all, a merge adds
and never takes, and the parent of an applied change is `initial` or an applied change whose
past is what `revert` leaves. `LatestIs` equates what the applied changes lead to with the tree of
master, which `Settled` says is what `process()` has searched when it forgets the conflict.

In `Backend`, `SessionShowable` depends on the order of the writes: a request may delete the
rows of conflicts only if it has cleared the session's current conflict before. `Control`
says which variables are set at which step of which request, `Deleted` which rows are gone
at each step; with them `Inv` is inductive, and gives `DeletesNeverRefused` as well.
`Processed` (what the controller and the rows are at each step after `process`) and
`BeingSet` (the same after `resolve`) are preserved by every step on top of `Inv`; at the last
step of a request they are the two action properties.

In `ConflictPlugin`, what is left at the end says nothing of the states before it. `Progress`
does: at any point of a deletion, an object is kept unless it has been deleted itself or by
one of the pairs resolved so far (`Resolved`), and its references are those no resolved pair
removes. Each step adds one pair, or, when an object is deleted, the pairs with all that does
not depend on it, which resolve nothing; at the end all pairs with a deleted object are
resolved, and `OrderIrrelevant` is what `Progress` then says. `NeverFails` needs that no pair
of the conflict's own objects deletes one of them. That is a fact about the table and the
types plugins look for (`ObjectRows`): what is deleted with a vlan is a self IP or an entry of
the forwarding database, with a PEM profile a virtual server, with an address list a
whitelist, and no plugin looks for both.

A traversal walks a graph that may have cycles, in any order. `Reached` is the least set that
holds where it began and is closed under the references to its members; nothing else says
what is transitive, so the proofs need no induction over paths. `Search` says that what
is visited and reported lies within `Reached`, that a visited object's children are visited or
wait on the stack, that everything on the stack is visited and that what is reported is what
is visited but for the root. When the stack is empty, what is visited is closed, hence all
of `Reached`, which is `TraversalExact`; `Between` and `Outcome` carry it from one root to the
next. With it, every object that a mitigation changes is one of those whose files
`render_files` takes, and so is `ChangedIsRendered`.

In `SettingPlugins` two facts about the functions are enough. A mitigation only removes objects
or sets fields to values that no plugin looks for, and what it writes back of that is part of
it: whatever a plugin may find in an object was there before (`Tamer`). What excuses a
compatibility level of 1, the DoS settings in the database, is kept, or the level is one that
needs no excuse (`Lowered`); so nothing becomes a conflict that was none. And the values
a mitigation sets leave the plugin's own predicate false of every object it was given.

For `Deploy` and `Diagnose`, nothing can be said of the files before a command or behind a
kill, so `DiagnoseInvariant` says what the running command relies on at each step. `Deployed`:
up to the backup the device is as `deploy` has met it, from then on the backup is there, also
when an upload or a load was sent more than once. `Downloaded`: what may be deleted on the device
lies on disk. `Generated`: the outputs written so far were missing. `Watched`: a saved offset
splits a log that was not rotated into lines from before the deployment and lines since;
epochs tell the two apart, and the offsets that a killed deployment has left belong to an epoch
of the past. `Reported`: the results named last are older than any that is being
written. Each is preserved by the steps of its own command by what the step before has
established, and by those of the others because only one command runs.

In `FieldStore` the invariant is `Good`: the list holds each dict in use once (`Lists`), no two
fields have one id (`Distinct`), and the tree (`Holds`) and the map (`Maps`) have for each
field, and for nothing else, an entry that leads to it. The arguments of one field may begin
those of another, so `_tree_delete` must stop at the first node that still has a value or a
child: `ArgsDeleted` says that what is left is the tree of the other fields. Comments have a
path and an id of their own, which nothing else touches. Beside `Good`, a file with something in
it is one the configuration knows. The refinement follows the list: where `index()` finds a
field is its place, `Inserted` and `Removed` say what becomes of a list element by element,
and `Precedes` does so for the comments put before a field, by induction on their number.
`ListImplemented` assumes `NamedFound`, that the files with "file" in their name are among those
found: `_rebuild_data` adds a file it has
not read when a `KeyError` tells of it, and takes one whose message has "file" in it for that of
a statement without a file, so that what is added to such a file is not written (the two other
theorems do not need this). Concatenation (`FlattenSeq`) and the comments are recursive
functions; `NatSetInduction`, induction over a set of numbers, takes the place of the library's
rule, whose parameter is an operator.

In `ConfText` the argument is an induction over the characters of a word (`SetInduction`) that
follows the lexer through what the builder has written. Of a bare word (`Reading`), the
lexer has behind each character collected the word so far and yielded nothing. Of a word in quotes,
every quote has become two characters, so a position of the word is one further along in the text for each
quote before it (`At`); as long as no escaped quote has come, the text has its escapes where
the word has them, and the lexer is inside of the quotes with the word so far collected
(`Inside`). Then the newline ends the statement and the word is what was read. The other
direction has four cases: an escaped quote is given a second backslash, which leaves the
quote bare, and it closes the word; a lone backslash at the end escapes the closing quote,
and nothing is yielded; a closing brace in a bare word ends a token; and `#` alone is a comment.
So `Fragile` is not an approximation: each of its words is lost or changed. That the words a
lexer finds are texts (`WordsAreText`) carries this over to files. The provers take some of the
strings of one character for punctuation of their own, so these characters have names, and
`Characters` says that they differ.

*Only model-checked.* `ContentKept`, `NothingLost` and `ObjectsSeen` of `ConfFormat`, whose parser
and builder are recursive operators on nested statements; the liveness
properties, which the prover cannot do, and the claims, which are refuted.

## 5. Plan

Left for later: the AS3 declaration in the working tree, which `render` rewrites beside the
configuration.

Not modelled: the rewriting of AS3 declarations, reports, version parsing and the checks that
compare the output of commands, which are sequential data transformations without state
between calls; framework configuration; deployments, sources and credentials of the backend; Jade. `journey migrate` needs no run: its callback is called without an
argument it requires and raises `TypeError` (`journey:223`), which `MigrateCommand` has.
