------------------------------- MODULE Backend -------------------------------
(* The REST backend (src/journeys/backend/).  A worker process serves one    *)
(* request at a time (gunicorn's default, entrypoint.sh).  It keeps one      *)
(* controller, built for the session whose request comes first and never     *)
(* rebuilt, with the configuration that controller has read.  The database   *)
(* and the sessions' directories outlive the worker, which may be restarted  *)
(* at any time, also in the middle of a request.                             *)
(*                                                                           *)
(* One action is one operation of the controller, whose own steps module     *)
(* Migration has, or one write to the database.  The variables after         *)
(* `config` are the memory of the request being served.                      *)
EXTENDS Naturals, Sequences

CONSTANTS
  Sessions,    \* session ids; a session's directory has its name
  Conflicts,   \* conflict ids, each in a file of its own
  Archives,    \* the sets of conflicts that archives to upload have
  None,
  MaxCommits   \* bound: commits in one repository

\* The content of a configuration: the conflicts in it.  The comments that
\* `resolve` writes are left out; they lie in the file of a conflict, and the
\* file that replaces it has none.
Content == SUBSET Conflicts

ASSUME BackendAssumption ==
  /\ Archives \subseteq SUBSET Conflicts
  /\ None \notin Sessions /\ None \notin Conflicts
  /\ \A content \in Content : None # content
  /\ MaxCommits \in Nat

VARIABLES
  sessions,        \* table Session: "unborn", "live" or "deleted"
  current,         \* Session.current_conflict
  conflictRows,    \* table Conflict: names, per session
  mitigationRows,  \* table Mitigation: <<branch, conflict>>, per session
  fileRows,        \* table File: <<conflict, branch or None>>, per session
  changeRows,      \* table Change: <<directory, commit>>, per session
  history,         \* contents of the commits of master, per directory
  tree,            \* the working tree
  shelf,           \* shelf["current_conflict"]
  branches,        \* the conflicts whose mitigation branch exists
  controller,      \* logic._controller: the directory it was built for
  config,          \* controller.config
  step,            \* the next step of the request, "idle" if none is served
  request,         \* its kind
  session,         \* its session
  chosen,          \* the conflict it sets
  named,           \* whether it has a commit message
  found,           \* the conflicts it has found and not yet written
  todo,            \* the branches it has still to write
  answer           \* the answer to the last request

database == <<sessions, current, conflictRows, mitigationRows, fileRows, changeRows>>
directories == <<history, tree, shelf, branches>>
worker == <<controller, config>>
memory == <<step, request, session, chosen, named, found, todo, answer>>
vars == <<sessions, current, conflictRows, mitigationRows, fileRows, changeRows,
          history, tree, shelf, branches, controller, config,
          step, request, session, chosen, named, found, todo, answer>>

Requests == {"none", "upload", "save", "set", "reset"}
Steps == {"idle", "process", "change", "current", "files", "mitigations",
          "conflicts", "add_conflicts", "add_files", "add_mitigations"}
Answers == {"none", "ok", "bad_request", "error", "protected", "killed"}

-----------------------------------------------------------------------------

\* The conflicts that the handler finds in a content.
Detected(content) == content

Started(d) == history[d] # <<>>
Committed(d) == history[d][Len(history[d])]
Dirty(d) == tree[d] # Committed(d)

\* get_controller: the one there is, or a new one on the session's directory.
Directory(s) == IF controller = None THEN s ELSE controller

\* The configuration that the controller on directory d works with.
Seen(d) == IF config = None THEN tree[d] ELSE config

Idle(s) == step = "idle" /\ sessions[s] = "live"

\* Requests that work on a migration: NotInitializedError from a new
\* controller, errors of git from one on a directory without a commit.
Ready(s) == Idle(s) /\ Started(Directory(s))

Answer(result) ==
  /\ step' = "idle"
  /\ request' = "none"
  /\ session' = None
  /\ chosen' = None
  /\ named' = FALSE
  /\ found' = {}
  /\ todo' = {}
  /\ answer' = result

Goto(next) ==
  /\ step' = next
  /\ UNCHANGED <<request, session, chosen, named, found, todo, answer>>

Serve(s, kind, next) ==
  /\ step' = next
  /\ request' = kind
  /\ session' = s
  /\ answer' = "none"
  /\ UNCHANGED found

Init ==
  /\ sessions = [s \in Sessions |-> "unborn"]
  /\ current = [s \in Sessions |-> None]
  /\ conflictRows = [s \in Sessions |-> {}]
  /\ mitigationRows = [s \in Sessions |-> {}]
  /\ fileRows = [s \in Sessions |-> {}]
  /\ changeRows = [s \in Sessions |-> {}]
  /\ history = [s \in Sessions |-> <<>>]
  /\ tree = [s \in Sessions |-> {}]
  /\ shelf = [s \in Sessions |-> None]
  /\ branches = [s \in Sessions |-> {}]
  /\ controller = None
  /\ config = None
  /\ step = "idle"
  /\ request = "none"
  /\ session = None
  /\ chosen = None
  /\ named = FALSE
  /\ found = {}
  /\ todo = {}
  /\ answer = "none"

-----------------------------------------------------------------------------
(* Sessions and files                                                      *)

\* POST /sessions: the row, then a controller on an empty directory.
CreateSession(s) ==
  /\ step = "idle"
  /\ sessions[s] = "unborn"
  /\ sessions' = [sessions EXCEPT ![s] = "live"]
  /\ controller' = Directory(s)
  /\ Answer("ok")
  /\ UNCHANGED <<current, conflictRows, mitigationRows, fileRows, changeRows,
                 directories, config>>

Referenced(s) ==
  \/ conflictRows[s] # {} \/ mitigationRows[s] # {}
  \/ fileRows[s] # {} \/ changeRows[s] # {}

\* DELETE /sessions/<id>: rows that refer to the session protect it.
DeleteSession(s) ==
  /\ Idle(s)
  /\ \/ /\ ~Referenced(s)
        /\ sessions' = [sessions EXCEPT ![s] = "deleted"]
        /\ current' = [current EXCEPT ![s] = None]
        /\ Answer("ok")
     \/ /\ Referenced(s)
        /\ Answer("error")
        /\ UNCHANGED <<sessions, current>>
  /\ UNCHANGED <<conflictRows, mitigationRows, fileRows, changeRows,
                 directories, worker>>

\* A request that needs a migration finds none.
NotStarted(s) ==
  /\ Idle(s)
  /\ ~Started(Directory(s))
  /\ Answer("error")
  /\ UNCHANGED <<database, directories, worker>>

\* GET .../files/<path>, also from a branch: it may build the controller.
ReadFile(s) ==
  /\ Ready(s)
  /\ controller' = Directory(s)
  /\ Answer("ok")
  /\ UNCHANGED <<database, directories, config>>

\* PUT or DELETE .../files/<path>: the file of conflict c, with the conflict
\* or without it.
WriteFile(s, c) ==
  /\ Ready(s)
  /\ \E content \in SUBSET {c} :
       tree' = [tree EXCEPT ![Directory(s)] = (@ \ {c}) \cup content]
  /\ controller' = Directory(s)
  /\ Answer("ok")
  /\ UNCHANGED <<database, history, shelf, branches, config>>

\* DELETE .../changes/<id>: the row and nothing else.
DeleteChange(s) ==
  /\ Idle(s)
  /\ \E row \in changeRows[s] :
       changeRows' = [changeRows EXCEPT ![s] = @ \ {row}]
  /\ Answer("ok")
  /\ UNCHANGED <<sessions, current, conflictRows, mitigationRows, fileRows,
                 directories, worker>>

-----------------------------------------------------------------------------
(* POST .../source                                                         *)

\* A controller built here clears the directory first; one that exists
\* ignores `clear`, and refuses if its directory holds a migration.
MayInitialize(s) == controller # None => ~Started(controller)

\* What the archive is extracted on top of.
Leftovers == IF controller = None THEN {} ELSE tree[controller]

\* The leftovers stay in the files that the archive does not have.
Upload(s) ==
  /\ Idle(s)
  /\ MayInitialize(s)
  /\ \E archive \in Archives : \E left \in SUBSET Leftovers :
       /\ history' = [history EXCEPT ![Directory(s)] = <<archive \cup left>>]
       /\ tree' = [tree EXCEPT ![Directory(s)] = archive \cup left]
       /\ config' = archive \cup left
  /\ shelf' = [shelf EXCEPT ![Directory(s)] = None]
  /\ branches' = [branches EXCEPT ![Directory(s)] = {}]
  /\ controller' = Directory(s)
  /\ Serve(s, "upload", "process")
  /\ UNCHANGED <<database, chosen, named, todo>>

\* The archive cannot be opened, or breaks off, or the AS3 declaration is missing:
\* what was extracted stays, with nothing committed.
UploadFails(s) ==
  /\ Idle(s)
  /\ MayInitialize(s)
  /\ history' = [history EXCEPT ![Directory(s)] = <<>>]
  /\ \E archive \in Archives : \E left \in SUBSET (archive \cup Leftovers) :
       tree' = [tree EXCEPT ![Directory(s)] = left]
  /\ shelf' = [shelf EXCEPT ![Directory(s)] = None]
  /\ branches' = [branches EXCEPT ![Directory(s)] = {}]
  /\ controller' = Directory(s)
  /\ config' = None
  /\ Answer("error")
  /\ UNCHANGED database

UploadRefused(s) ==
  /\ Idle(s)
  /\ ~MayInitialize(s)
  /\ Answer("error")
  /\ UNCHANGED <<database, directories, worker>>

-----------------------------------------------------------------------------
(* POST .../changes, and logic.process                                     *)

\* Bound: it begins only if there is room for a commit.
Save(s) ==
  /\ Ready(s)
  /\ Len(history[Directory(s)]) < MaxCommits
  /\ controller' = Directory(s)
  /\ named' \in BOOLEAN
  /\ Serve(s, "save", "process")
  /\ UNCHANGED <<database, directories, config, chosen, todo>>

\* controller.process raises ConflictNotResolvedError, which the view answers,
\* or LocalChangesDetectedError, which it does not.
ProcessRaises ==
  /\ step = "process"
  /\ config' = Seen(controller)
  /\ \/ /\ shelf[controller] \in Detected(Seen(controller))
        /\ Answer(IF request = "save" THEN "bad_request" ELSE "error")
     \/ /\ shelf[controller] = None
        /\ Dirty(controller)
        /\ ~named
        /\ Answer("error")
  /\ UNCHANGED <<database, directories, controller>>

\* controller.process returns.  Unless it is the first time, a request that
\* has committed nothing ends here.
Process ==
  /\ step = "process"
  /\ shelf[controller] \notin Detected(Seen(controller))
  /\ Dirty(controller) => shelf[controller] # None \/ named
  /\ config' = Seen(controller)
  /\ history' = IF Dirty(controller)
                THEN [history EXCEPT ![controller] = Append(@, tree[controller])]
                ELSE history
  /\ shelf' = [shelf EXCEPT ![controller] = None]
  /\ branches' = [branches EXCEPT ![controller] = {}]
  /\ IF Dirty(controller) \/ request = "upload"
     THEN /\ step' = IF request = "upload" THEN "current" ELSE "change"
          /\ found' = Detected(Seen(controller))
          /\ UNCHANGED <<request, session, chosen, named, todo, answer>>
     ELSE Answer("ok")
  /\ UNCHANGED <<database, tree, controller>>

AddChange ==
  /\ step = "change"
  /\ changeRows' = [changeRows EXCEPT ![session] =
                      @ \cup {<<controller, Len(history[controller])>>}]
  /\ Goto("current")
  /\ UNCHANGED <<sessions, current, conflictRows, mitigationRows, fileRows,
                 directories, worker>>

\* session.current_conflict = None; session.save()
ClearCurrent ==
  /\ step = "current"
  /\ request # "set"
  /\ current' = [current EXCEPT ![session] = None]
  /\ Goto("files")
  /\ UNCHANGED <<sessions, conflictRows, mitigationRows, fileRows, changeRows,
                 directories, worker>>

\* Mutant: the rows of files stay.
KeepFiles ==
  /\ step = "files"
  /\ Goto("mitigations")
  /\ UNCHANGED <<database, directories, worker>>

DeleteFiles ==
  /\ step = "files"
  /\ fileRows' = [fileRows EXCEPT ![session] = {}]
  /\ Goto("mitigations")
  /\ UNCHANGED <<sessions, current, conflictRows, mitigationRows, changeRows,
                 directories, worker>>

\* What follows the deletion of the rows of mitigations.
AfterMitigations ==
  CASE request = "set"   -> Goto("add_files")
    [] request = "reset" -> Answer("ok")
    [] OTHER             -> Goto("conflicts")

\* Rows of files that refer to one would protect it.
DeleteMitigations ==
  /\ step = "mitigations"
  /\ IF \E row \in fileRows[session] : row[2] # None
     THEN /\ Answer("protected")
          /\ UNCHANGED mitigationRows
     ELSE /\ mitigationRows' = [mitigationRows EXCEPT ![session] = {}]
          /\ AfterMitigations
  /\ UNCHANGED <<sessions, current, conflictRows, fileRows, changeRows,
                 directories, worker>>

\* Mutant: the rows of conflicts stay.
KeepConflicts ==
  /\ step = "conflicts"
  /\ Goto("add_conflicts")
  /\ UNCHANGED <<database, directories, worker>>

DeleteConflicts ==
  /\ step = "conflicts"
  /\ IF fileRows[session] # {} \/ mitigationRows[session] # {}
     THEN /\ Answer("protected")
          /\ UNCHANGED conflictRows
     ELSE /\ conflictRows' = [conflictRows EXCEPT ![session] = {}]
          /\ Goto("add_conflicts")
  /\ UNCHANGED <<sessions, current, mitigationRows, fileRows, changeRows,
                 directories, worker>>

AddConflict ==
  /\ step = "add_conflicts"
  /\ \E c \in found :
       /\ conflictRows' = [conflictRows EXCEPT ![session] = @ \cup {c}]
       /\ found' = found \ {c}
  /\ UNCHANGED <<sessions, current, mitigationRows, fileRows, changeRows,
                 directories, worker, step, request, session, chosen, named,
                 todo, answer>>

Saved ==
  /\ step = "add_conflicts"
  /\ found = {}
  /\ Answer("ok")
  /\ UNCHANGED <<database, directories, worker>>

-----------------------------------------------------------------------------
(* POST and DELETE .../current_conflict                                    *)

\* controller.resolve: the branch takes the local changes along if it is new;
\* then the file of c is written on master from the controller's configuration.
SetCurrent(s, c) ==
  /\ Ready(s)
  /\ LET d == Directory(s)
     IN /\ shelf[d] \in {None, c}
        /\ c \in Detected(Seen(d))
        /\ config' = Seen(d)
        /\ shelf' = [shelf EXCEPT ![d] = c]
        /\ branches' = [branches EXCEPT ![d] = @ \cup {c}]
        /\ tree' = [tree EXCEPT ![d] =
             (IF c \in branches[d] THEN @ ELSE Committed(d)) \cup {c}]
        /\ controller' = d
  /\ chosen' = c
  /\ Serve(s, "set", "current")
  /\ UNCHANGED <<database, history, named, todo>>

\* DifferentConflictError before the configuration is read, or
\* UnknownConflictError after it.
SetRefused(s, c) ==
  /\ Ready(s)
  /\ LET d == Directory(s)
     IN /\ \/ shelf[d] \notin {None, c} /\ UNCHANGED config
           \/ shelf[d] \in {None, c} /\ c \notin Detected(Seen(d)) /\ config' = Seen(d)
        /\ controller' = d
  /\ Answer("error")
  /\ UNCHANGED <<database, directories>>

\* Mutant: session.current_conflict is saved without looking for its row.
SetUnknown ==
  /\ step = "current"
  /\ request = "set"
  /\ current' = [current EXCEPT ![session] = chosen]
  /\ Goto("files")
  /\ UNCHANGED <<sessions, conflictRows, mitigationRows, fileRows, changeRows,
                 directories, worker>>

\* Mutant: the session is not saved.
SetUnsaved ==
  /\ step = "current"
  /\ request = "set"
  /\ IF chosen \in conflictRows[session] THEN Goto("files") ELSE Answer("error")
  /\ UNCHANGED <<database, directories, worker>>

\* models.Conflict.objects.get: without a row the request fails here.
SetSession ==
  /\ step = "current"
  /\ request = "set"
  /\ \/ /\ chosen \in conflictRows[session]
        /\ current' = [current EXCEPT ![session] = chosen]
        /\ Goto("files")
     \/ /\ chosen \notin conflictRows[session]
        /\ Answer("error")
        /\ UNCHANGED current
  /\ UNCHANGED <<sessions, conflictRows, mitigationRows, fileRows, changeRows,
                 directories, worker>>

\* Mutant: the columns are swapped.
AddFilesSwapped ==
  /\ step = "add_files"
  /\ fileRows' = [fileRows EXCEPT ![session] = @ \cup {<<None, chosen>>}]
  /\ todo' = branches[controller]
  /\ step' = "add_mitigations"
  /\ UNCHANGED <<sessions, current, conflictRows, mitigationRows, changeRows,
                 directories, worker, request, session, chosen, named, found, answer>>

\* The rows of the files of the conflict itself.
AddFiles ==
  /\ step = "add_files"
  /\ fileRows' = [fileRows EXCEPT ![session] = @ \cup {<<chosen, None>>}]
  /\ todo' = branches[controller]
  /\ step' = "add_mitigations"
  /\ UNCHANGED <<sessions, current, conflictRows, mitigationRows, changeRows,
                 directories, worker, request, session, chosen, named, found, answer>>

\* Every branch that is not master or initial counts as one of the conflict.
AddMitigation ==
  /\ step = "add_mitigations"
  /\ \A b \in todo : <<b, chosen>> \notin mitigationRows[session]
  /\ \E b \in todo :
       mitigationRows' = [mitigationRows EXCEPT ![session] = @ \cup {<<b, chosen>>}]
  /\ UNCHANGED <<sessions, current, conflictRows, fileRows, changeRows,
                 directories, worker, memory>>

AddMitigationFiles ==
  /\ step = "add_mitigations"
  /\ \E b \in todo :
       /\ <<b, chosen>> \in mitigationRows[session]
       /\ fileRows' = [fileRows EXCEPT ![session] = @ \cup {<<chosen, b>>}]
       /\ todo' = todo \ {b}
  /\ UNCHANGED <<sessions, current, conflictRows, mitigationRows, changeRows,
                 directories, worker, step, request, session, chosen, named,
                 found, answer>>

CurrentSet ==
  /\ step = "add_mitigations"
  /\ todo = {}
  /\ Answer("ok")
  /\ UNCHANGED <<database, directories, worker>>

\* controller.abort
Reset(s) ==
  /\ Ready(s)
  /\ LET d == Directory(s)
     IN /\ tree' = [tree EXCEPT ![d] = Committed(d)]
        /\ branches' = [branches EXCEPT ![d] = {}]
        /\ shelf' = [shelf EXCEPT ![d] = None]
        /\ controller' = d
  /\ Serve(s, "reset", "current")
  /\ UNCHANGED <<database, history, config, chosen, named, todo>>

-----------------------------------------------------------------------------

\* The worker is killed (gunicorn's timeout) or the server restarted.
Restart ==
  /\ controller' = None
  /\ config' = None
  /\ Answer("killed")
  /\ UNCHANGED <<database, directories>>

Next ==
  \/ \E s \in Sessions :
       \/ CreateSession(s) \/ DeleteSession(s) \/ NotStarted(s)
       \/ ReadFile(s) \/ DeleteChange(s)
       \/ Upload(s) \/ UploadFails(s) \/ UploadRefused(s)
       \/ Save(s) \/ Reset(s)
       \/ \E c \in Conflicts : WriteFile(s, c) \/ SetCurrent(s, c) \/ SetRefused(s, c)
  \/ ProcessRaises \/ Process \/ AddChange \/ ClearCurrent
  \/ DeleteFiles \/ DeleteMitigations \/ DeleteConflicts \/ AddConflict \/ Saved
  \/ SetSession \/ AddFiles \/ AddMitigation \/ AddMitigationFiles \/ CurrentSet
  \/ Restart

Spec == Init /\ [][Next]_vars

-----------------------------------------------------------------------------
(* Properties                                                              *)

TypeOK ==
  /\ sessions \in [Sessions -> {"unborn", "live", "deleted"}]
  /\ current \in [Sessions -> Conflicts \cup {None}]
  /\ conflictRows \in [Sessions -> SUBSET Conflicts]
  /\ mitigationRows \in [Sessions -> SUBSET (Conflicts \X Conflicts)]
  /\ fileRows \in [Sessions -> SUBSET (Conflicts \X (Conflicts \cup {None}))]
  /\ changeRows \in [Sessions -> SUBSET (Sessions \X Nat)]
  /\ history \in [Sessions -> Seq(Content)]
  /\ tree \in [Sessions -> Content]
  /\ shelf \in [Sessions -> Conflicts \cup {None}]
  /\ branches \in [Sessions -> SUBSET Conflicts]
  /\ controller \in Sessions \cup {None}
  /\ config = None \/ config \in Content
  /\ step \in Steps
  /\ request \in Requests
  /\ session \in Sessions \cup {None}
  /\ chosen \in Conflicts \cup {None}
  /\ named \in BOOLEAN
  /\ found \in SUBSET Conflicts
  /\ todo \in SUBSET Conflicts
  /\ answer \in Answers

\* The details of a session can always be shown: its current conflict, if it
\* has one, has a row.  SessionDetailsSerializer looks that row up and fails
\* without it; the order of the writes keeps it true whenever the worker is
\* killed and whichever session's controller serves the request.
SessionShowable ==
  \A s \in Sessions : current[s] # None => current[s] \in conflictRows[s]

\* No request fails because rows it deletes are protected by rows that refer
\* to them (on_delete=PROTECT): process and set_current_conflict delete files
\* before mitigations before conflicts, also where a killed request left some.
DeletesNeverRefused == answer # "protected"

\* A change that is answered with success is committed, has its row, and leaves the
\* session with no current conflict and no branch, as it leaves the controller.  The
\* rows of conflicts are those of the configuration that the worker has in memory: for
\* the first upload that is what was committed, for a save it may be older than the
\* files that the commit takes (get_controller keeps its controller), so nothing is
\* said there of the conflicts of the commit.
SavedIsShown ==
  [][step = "add_conflicts" /\ step' = "idle" /\ answer' = "ok" =>
       /\ current'[session] = None /\ shelf'[controller] = None
       /\ mitigationRows'[session] = {} /\ fileRows'[session] = {}
       /\ branches'[controller] = {}
       /\ tree'[controller] = Committed(controller)'
       /\ request = "save" =>
            <<controller, Len(history'[controller])>> \in changeRows'[session]
       /\ conflictRows'[session] = Detected(config)
       /\ request = "upload" => conflictRows'[session] = Detected(Committed(controller)')]_vars

\* A conflict that is set with success is the one both sides work on, shown
\* with exactly the branches there are, whatever an earlier request left.
SetIsShown ==
  [][step = "add_mitigations" /\ step' = "idle" /\ answer' = "ok" =>
       /\ current'[session] = chosen /\ shelf'[controller] = chosen
       /\ mitigationRows'[session] = branches'[controller] \X {chosen}
       /\ fileRows'[session] = {chosen} \X (branches'[controller] \cup {None})]_vars

==============================================================================
