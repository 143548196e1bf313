---------------------------- MODULE Backend_proofs ----------------------------
(* Proofs about the REST backend: the type invariant, and what a session's   *)
(* rows are to one another and to the repository.                            *)
EXTENDS Backend, TLAPS

Processes == {"upload", "save"}

\* Which step belongs to which kind of request, and what it works with.
Control ==
  /\ step # "idle" => session \in Sessions /\ controller \in Sessions
  /\ step \in {"process", "change", "conflicts", "add_conflicts"} => request \in Processes
  /\ step \in {"add_files", "add_mitigations"} => request = "set"
  /\ step \in {"current", "files", "mitigations"} => request # "none"
  /\ request = "set" => chosen \in Conflicts

\* What has been deleted when, and that answers are not "protected".
Deleted ==
  /\ step \in {"files", "mitigations", "conflicts", "add_conflicts"} /\ request # "set" =>
       current[session] = None
  /\ step \in {"mitigations", "conflicts", "add_conflicts", "add_files"} =>
       fileRows[session] = {}
  /\ step \in {"conflicts", "add_conflicts", "add_files"} => mitigationRows[session] = {}
  /\ DeletesNeverRefused

\* The inductive invariant for types and rows.
Inv == TypeOK /\ Control /\ Deleted /\ SessionShowable

\* What the controller is left with by process().
Processed ==
  /\ step \in {"change", "current", "files", "mitigations", "conflicts", "add_conflicts"}
     /\ request \in Processes =>
       shelf[controller] = None /\ branches[controller] = {}
  /\ step \in {"change", "current", "files", "mitigations", "conflicts"}
     /\ request \in Processes =>
       found = Detected(config)
  /\ step = "add_conflicts" => conflictRows[session] \cup found = Detected(config)

\* What process() has committed has its row, and the first upload's is what it has read.
Recorded ==
  /\ request = "upload" => /\ Started(controller)
                           /\ tree[controller] = Committed(controller)
                           /\ config = Committed(controller)
  /\ request = "save" /\ step # "process" => tree[controller] = Committed(controller)
  /\ request = "save" /\ step \notin {"process", "change"} =>
       <<controller, Len(history[controller])>> \in changeRows[session]

\* What has been written of a conflict that is being set.
BeingSet ==
  /\ request = "set" => shelf[controller] = chosen
  /\ request = "set" /\ step \in {"files", "mitigations", "add_files", "add_mitigations"} =>
       current[session] = chosen
  /\ step = "add_mitigations" =>
       /\ todo \subseteq branches[controller]
       /\ fileRows[session] = {chosen} \X ((branches[controller] \ todo) \cup {None})
       /\ (branches[controller] \ todo) \X {chosen} \subseteq mitigationRows[session]
       /\ mitigationRows[session] \subseteq branches[controller] \X {chosen}

-----------------------------------------------------------------------------
(* Types *)

LEMMA TypeInit == Init => TypeOK
<1> SUFFICES ASSUME Init PROVE TypeOK
  OBVIOUS
<1>1. /\ sessions \in [Sessions -> {"unborn", "live", "deleted"}]
      /\ current \in [Sessions -> Conflicts \cup {None}]
      /\ conflictRows \in [Sessions -> SUBSET Conflicts]
      /\ mitigationRows \in [Sessions -> SUBSET (Conflicts \X Conflicts)]
      /\ fileRows \in [Sessions -> SUBSET (Conflicts \X (Conflicts \cup {None}))]
      /\ changeRows \in [Sessions -> SUBSET (Sessions \X Nat)]
  BY DEF Init
<1>2. /\ history \in [Sessions -> Seq(Content)]
      /\ tree \in [Sessions -> Content]
      /\ shelf \in [Sessions -> Conflicts \cup {None}]
      /\ branches \in [Sessions -> SUBSET Conflicts]
  BY DEF Init, Content
<1>3. QED
  BY <1>1, <1>2 DEF Init, TypeOK, Steps, Requests, Answers

\* Every step keeps the types.
LEMMA TypeStep ==
  ASSUME TypeOK, Control, [Next]_vars
  PROVE  TypeOK'
<1> USE BackendAssumption DEF TypeOK, Control, Processes, Content, Steps, Requests,
             Answers, Answer, Goto, Serve, database, directories, worker, memory
<1>1. ASSUME NEW s \in Sessions, CreateSession(s) PROVE TypeOK'
  BY <1>1 DEF CreateSession, Directory
<1>2. ASSUME NEW s \in Sessions, DeleteSession(s) PROVE TypeOK'
  BY <1>2 DEF DeleteSession, Idle
<1>3. ASSUME NEW s \in Sessions, NotStarted(s) PROVE TypeOK'
  BY <1>3 DEF NotStarted, Idle
<1>4. ASSUME NEW s \in Sessions, ReadFile(s) PROVE TypeOK'
  BY <1>4 DEF ReadFile, Ready, Idle, Directory
<1>5. ASSUME NEW s \in Sessions, DeleteChange(s) PROVE TypeOK'
  <2>1. changeRows' \in [Sessions -> SUBSET (Sessions \X Nat)]
    BY <1>5 DEF DeleteChange
  <2> QED
    BY <1>5, <2>1 DEF DeleteChange
<1>6. ASSUME NEW s \in Sessions, Upload(s) PROVE TypeOK'
  <2>1. Directory(s) \in Sessions /\ Leftovers \subseteq Conflicts
    BY DEF Directory, Leftovers
  <2>2. PICK archive \in Archives, left \in SUBSET Leftovers :
          /\ history' = [history EXCEPT ![Directory(s)] = <<archive \cup left>>]
          /\ tree' = [tree EXCEPT ![Directory(s)] = archive \cup left]
          /\ config' = archive \cup left
    BY <1>6 DEF Upload
  <2>3. archive \cup left \in Content
    BY <2>1
  <2>4. /\ history' \in [Sessions -> Seq(Content)] /\ tree' \in [Sessions -> Content]
        /\ config' \in Content
    BY <2>1, <2>2, <2>3
  <2>5. /\ shelf' \in [Sessions -> Conflicts \cup {None}]
        /\ branches' \in [Sessions -> SUBSET Conflicts]
    BY <1>6, <2>1 DEF Upload
  <2> QED
    BY <1>6, <2>1, <2>4, <2>5 DEF Upload, Idle
<1>7. ASSUME NEW s \in Sessions, UploadFails(s) PROVE TypeOK'
  <2>1. Directory(s) \in Sessions /\ Leftovers \subseteq Conflicts
    BY DEF Directory, Leftovers
  <2>2. history' \in [Sessions -> Seq(Content)] /\ tree' \in [Sessions -> Content]
    <3>1. PICK left \in Content : tree' = [tree EXCEPT ![Directory(s)] = left]
      BY <1>7, <2>1 DEF UploadFails
    <3>2. history' = [history EXCEPT ![Directory(s)] = <<>>]
      BY <1>7 DEF UploadFails
    <3> QED BY <2>1, <3>1, <3>2
  <2>3. shelf' \in [Sessions -> Conflicts \cup {None}]
        /\ branches' \in [Sessions -> SUBSET Conflicts]
    BY <1>7, <2>1 DEF UploadFails
  <2> QED
    BY <1>7, <2>1, <2>2, <2>3 DEF UploadFails
<1>8. ASSUME NEW s \in Sessions, UploadRefused(s) PROVE TypeOK'
  BY <1>8 DEF UploadRefused, Idle
<1>9. ASSUME NEW s \in Sessions, Save(s) PROVE TypeOK'
  BY <1>9 DEF Save, Ready, Idle, Directory
<1>10. ASSUME NEW s \in Sessions, Reset(s) PROVE TypeOK'
  BY <1>10 DEF Reset, Ready, Idle, Directory, Started, Committed
<1>11. ASSUME NEW s \in Sessions, NEW c \in Conflicts, WriteFile(s, c)
       PROVE TypeOK'
  <2>1. Directory(s) \in Sessions
    BY DEF Directory
  <2>2. tree' \in [Sessions -> Content]
    BY <1>11, <2>1 DEF WriteFile
  <2> QED
    BY <1>11, <2>1, <2>2 DEF WriteFile
<1>12. ASSUME NEW s \in Sessions, NEW c \in Conflicts, SetCurrent(s, c)
       PROVE TypeOK'
  BY <1>12 DEF SetCurrent,
         Ready, Idle, Directory, Started, Seen, Detected, Committed
<1>13. ASSUME NEW s \in Sessions, NEW c \in Conflicts, SetRefused(s, c)
       PROVE TypeOK'
  BY <1>13 DEF SetRefused, Ready, Idle, Directory, Seen
<1>14. CASE ProcessRaises
  BY <1>14 DEF ProcessRaises, Seen
<1>15. CASE Process
  <2>1. controller \in Sessions
    BY <1>15 DEF Process
  <2>2. Seen(controller) \in Content
    BY <2>1 DEF Seen
  <2>3. history' \in [Sessions -> Seq(Content)]
    BY <1>15, <2>1 DEF Process
  <2>4. shelf' \in [Sessions -> Conflicts \cup {None}]
        /\ branches' \in [Sessions -> SUBSET Conflicts]
    BY <1>15, <2>1 DEF Process
  <2>5. /\ step' \in Steps /\ request' \in Requests /\ answer' \in Answers
        /\ found' \in SUBSET Conflicts /\ todo' \in SUBSET Conflicts
        /\ session' \in Sessions \cup {None} /\ chosen' \in Conflicts \cup {None}
        /\ named' \in BOOLEAN
    BY <1>15, <2>2 DEF Process, Detected
  <2> QED
    BY <1>15, <2>2, <2>3, <2>4, <2>5 DEF Process
<1>16. CASE AddChange
  BY <1>16 DEF AddChange
<1>17. CASE ClearCurrent
  BY <1>17 DEF ClearCurrent
<1>18. CASE DeleteFiles
  BY <1>18 DEF DeleteFiles
<1>19. CASE DeleteMitigations
  BY <1>19 DEF DeleteMitigations, AfterMitigations
<1>20. CASE DeleteConflicts
  BY <1>20 DEF DeleteConflicts
<1>21. CASE AddConflict
  BY <1>21 DEF AddConflict
<1>22. CASE Saved
  BY <1>22 DEF Saved
<1>23. CASE SetSession
  <2>1. session \in Sessions /\ chosen \in Conflicts
    BY <1>23 DEF SetSession
  <2>2. current' \in [Sessions -> Conflicts \cup {None}]
    BY <1>23, <2>1 DEF SetSession
  <2>3. CASE chosen \in conflictRows[session]
    BY <1>23, <2>2, <2>3 DEF SetSession
  <2>4. CASE chosen \notin conflictRows[session]
    BY <1>23, <2>2, <2>4 DEF SetSession
  <2> QED
    BY <2>3, <2>4
<1>24. CASE AddFiles
  BY <1>24 DEF AddFiles
<1>25. CASE AddMitigation
  BY <1>25 DEF AddMitigation
<1>26. CASE AddMitigationFiles
  BY <1>26 DEF AddMitigationFiles
<1>27. CASE CurrentSet
  BY <1>27 DEF CurrentSet
<1>28. CASE Restart
  BY <1>28 DEF Restart
<1>29. CASE UNCHANGED vars
  BY <1>29 DEF vars
<1> QED
  BY <1>1, <1>2, <1>3, <1>4, <1>5, <1>6, <1>7, <1>8, <1>9, <1>10, <1>11,
     <1>12, <1>13, <1>14, <1>15, <1>16, <1>17, <1>18, <1>19, <1>20,
     <1>21, <1>22, <1>23, <1>24, <1>25, <1>26, <1>27, <1>28, <1>29 DEF Next

-----------------------------------------------------------------------------
(* Control and rows *)

\* Every step leaves the next one what it needs.
LEMMA ControlStep ==
  ASSUME TypeOK, Control, [Next]_vars
  PROVE  Control'
<1> USE DEF TypeOK, Control, Processes, Steps, Requests, Answer, Goto, Serve,
             database, directories, worker, memory
<1>1. ASSUME NEW s \in Sessions, CreateSession(s) PROVE Control'
  BY <1>1 DEF CreateSession, Directory
<1>2. ASSUME NEW s \in Sessions, DeleteSession(s) PROVE Control'
  BY <1>2 DEF DeleteSession, Idle, Referenced
<1>3. ASSUME NEW s \in Sessions, NotStarted(s) PROVE Control'
  BY <1>3 DEF NotStarted, Idle
<1>4. ASSUME NEW s \in Sessions, ReadFile(s) PROVE Control'
  BY <1>4 DEF ReadFile, Ready, Idle, Directory
<1>5. ASSUME NEW s \in Sessions, DeleteChange(s) PROVE Control'
  BY <1>5 DEF DeleteChange, Idle
<1>6. ASSUME NEW s \in Sessions, Upload(s) PROVE Control'
  BY <1>6 DEF Upload, Idle, Directory
<1>7. ASSUME NEW s \in Sessions, UploadFails(s) PROVE Control'
  BY <1>7 DEF UploadFails, Idle
<1>8. ASSUME NEW s \in Sessions, UploadRefused(s) PROVE Control'
  BY <1>8 DEF UploadRefused, Idle
<1>9. ASSUME NEW s \in Sessions, Save(s) PROVE Control'
  BY <1>9 DEF Save, Ready, Idle, Directory
<1>10. ASSUME NEW s \in Sessions, Reset(s) PROVE Control'
  BY <1>10 DEF Reset, Ready, Idle, Directory
<1>11. ASSUME NEW s \in Sessions, NEW c \in Conflicts, WriteFile(s, c)
       PROVE Control'
  BY <1>11 DEF WriteFile, Ready, Idle, Directory
<1>12. ASSUME NEW s \in Sessions, NEW c \in Conflicts, SetCurrent(s, c)
       PROVE Control'
  BY <1>12 DEF SetCurrent, Ready, Idle, Directory
<1>13. ASSUME NEW s \in Sessions, NEW c \in Conflicts, SetRefused(s, c)
       PROVE Control'
  BY <1>13 DEF SetRefused, Ready, Idle
<1>14. CASE ProcessRaises
  BY <1>14 DEF ProcessRaises
<1>15. CASE Process
  BY <1>15 DEF Process
<1>16. CASE AddChange
  BY <1>16 DEF AddChange
<1>17. CASE ClearCurrent
  BY <1>17 DEF ClearCurrent
<1>18. CASE DeleteFiles
  BY <1>18 DEF DeleteFiles
<1>19. CASE DeleteMitigations
  BY <1>19 DEF DeleteMitigations, AfterMitigations
<1>20. CASE DeleteConflicts
  BY <1>20 DEF DeleteConflicts
<1>21. CASE AddConflict
  BY <1>21 DEF AddConflict
<1>22. CASE Saved
  BY <1>22 DEF Saved
<1>23. CASE SetSession
  BY <1>23 DEF SetSession
<1>24. CASE AddFiles
  BY <1>24 DEF AddFiles
<1>25. CASE AddMitigation
  BY <1>25 DEF AddMitigation
<1>26. CASE AddMitigationFiles
  BY <1>26 DEF AddMitigationFiles
<1>27. CASE CurrentSet
  BY <1>27 DEF CurrentSet
<1>28. CASE Restart
  BY <1>28 DEF Restart
<1>29. CASE UNCHANGED vars
  BY <1>29 DEF vars
<1> QED
  BY <1>1, <1>2, <1>3, <1>4, <1>5, <1>6, <1>7, <1>8, <1>9, <1>10, <1>11,
     <1>12, <1>13, <1>14, <1>15, <1>16, <1>17, <1>18, <1>19, <1>20,
     <1>21, <1>22, <1>23, <1>24, <1>25, <1>26, <1>27, <1>28, <1>29 DEF Next

\* Every step keeps the order in which rows are deleted and written.
LEMMA RowsStep ==
  ASSUME Inv, [Next]_vars
  PROVE  Deleted' /\ SessionShowable'
<1> USE DEF Inv, TypeOK, Control, Processes, Requests, Deleted, DeletesNeverRefused,
             SessionShowable, Answer, Goto, Serve, database, directories, worker, memory
<1>1. ASSUME NEW s \in Sessions, CreateSession(s) PROVE Deleted' /\ SessionShowable'
  BY <1>1 DEF CreateSession, Directory
<1>2. ASSUME NEW s \in Sessions, DeleteSession(s) PROVE Deleted' /\ SessionShowable'
  BY <1>2 DEF DeleteSession, Idle, Referenced
<1>3. ASSUME NEW s \in Sessions, NotStarted(s) PROVE Deleted' /\ SessionShowable'
  BY <1>3 DEF NotStarted, Idle
<1>4. ASSUME NEW s \in Sessions, ReadFile(s) PROVE Deleted' /\ SessionShowable'
  BY <1>4 DEF ReadFile, Ready, Idle, Directory
<1>5. ASSUME NEW s \in Sessions, DeleteChange(s) PROVE Deleted' /\ SessionShowable'
  BY <1>5 DEF DeleteChange, Idle
<1>6. ASSUME NEW s \in Sessions, Upload(s) PROVE Deleted' /\ SessionShowable'
  BY <1>6 DEF Upload, Idle, Directory
<1>7. ASSUME NEW s \in Sessions, UploadFails(s) PROVE Deleted' /\ SessionShowable'
  BY <1>7 DEF UploadFails, Idle
<1>8. ASSUME NEW s \in Sessions, UploadRefused(s) PROVE Deleted' /\ SessionShowable'
  BY <1>8 DEF UploadRefused, Idle
<1>9. ASSUME NEW s \in Sessions, Save(s) PROVE Deleted' /\ SessionShowable'
  BY <1>9 DEF Save, Ready, Idle, Directory
<1>10. ASSUME NEW s \in Sessions, Reset(s) PROVE Deleted' /\ SessionShowable'
  BY <1>10 DEF Reset, Ready, Idle, Directory
<1>11. ASSUME NEW s \in Sessions, NEW c \in Conflicts, WriteFile(s, c)
       PROVE Deleted' /\ SessionShowable'
  BY <1>11 DEF WriteFile, Ready, Idle, Directory
<1>12. ASSUME NEW s \in Sessions, NEW c \in Conflicts, SetCurrent(s, c)
       PROVE Deleted' /\ SessionShowable'
  BY <1>12 DEF SetCurrent, Ready, Idle, Directory
<1>13. ASSUME NEW s \in Sessions, NEW c \in Conflicts, SetRefused(s, c)
       PROVE Deleted' /\ SessionShowable'
  BY <1>13 DEF SetRefused, Ready, Idle
<1>14. CASE ProcessRaises
  BY <1>14 DEF ProcessRaises
<1>15. CASE Process
  BY <1>15 DEF Process
<1>16. CASE AddChange
  BY <1>16 DEF AddChange
<1>17. CASE ClearCurrent
  BY <1>17 DEF ClearCurrent
<1>18. CASE DeleteFiles
  BY <1>18 DEF DeleteFiles
<1>19. CASE DeleteMitigations
  BY <1>19 DEF DeleteMitigations, AfterMitigations
<1>20. CASE DeleteConflicts
  <2>1. /\ fileRows[session] = {} /\ mitigationRows[session] = {}
        /\ current[session] = None /\ session \in Sessions
    BY <1>20 DEF DeleteConflicts
  <2>2. conflictRows' = [conflictRows EXCEPT ![session] = {}] /\ step' = "add_conflicts"
    BY <1>20, <2>1 DEF DeleteConflicts
  <2>3. \A s \in Sessions \ {session} : conflictRows'[s] = conflictRows[s]
    BY <2>2
  <2>4. SessionShowable'
    BY <1>20, <2>1, <2>3 DEF DeleteConflicts
  <2> QED
    BY <1>20, <2>1, <2>2, <2>4 DEF DeleteConflicts
<1>21. CASE AddConflict
  BY <1>21 DEF AddConflict
<1>22. CASE Saved
  BY <1>22 DEF Saved
<1>23. CASE SetSession
  BY <1>23 DEF SetSession
<1>24. CASE AddFiles
  BY <1>24 DEF AddFiles
<1>25. CASE AddMitigation
  BY <1>25 DEF AddMitigation
<1>26. CASE AddMitigationFiles
  BY <1>26 DEF AddMitigationFiles
<1>27. CASE CurrentSet
  BY <1>27 DEF CurrentSet
<1>28. CASE Restart
  BY <1>28 DEF Restart
<1>29. CASE UNCHANGED vars
  BY <1>29 DEF vars
<1> QED
  BY <1>1, <1>2, <1>3, <1>4, <1>5, <1>6, <1>7, <1>8, <1>9, <1>10, <1>11,
     <1>12, <1>13, <1>14, <1>15, <1>16, <1>17, <1>18, <1>19, <1>20,
     <1>21, <1>22, <1>23, <1>24, <1>25, <1>26, <1>27, <1>28, <1>29 DEF Next

LEMMA InvInductive ==
  /\ Init => Inv
  /\ Inv /\ [Next]_vars => Inv'
<1>1. Init => Inv
  BY TypeInit DEF Init, Inv, Control, Deleted, DeletesNeverRefused, SessionShowable
<1>2. ASSUME Inv, [Next]_vars PROVE Inv'
  <2>1. TypeOK /\ Control
    BY <1>2 DEF Inv
  <2> QED
    BY <1>2, <2>1, TypeStep, ControlStep, RowsStep DEF Inv
<1> QED
  BY <1>1, <1>2

LEMMA Invariance == Spec => []Inv
  BY InvInductive, PTL DEF Spec

\* Every variable keeps its type.
THEOREM BackendTypeCorrect == Spec => []TypeOK
<1>1. Inv => TypeOK
  BY DEF Inv
<1> QED
  BY <1>1, Invariance, PTL

\* The current conflict of a session always has the row that its details
\* are read from, whenever the worker is killed.
THEOREM AlwaysShowable == Spec => []SessionShowable
<1>1. Inv => SessionShowable
  BY DEF Inv
<1> QED
  BY <1>1, Invariance, PTL

\* Rows are deleted in an order in which none is protected.
THEOREM NeverProtected == Spec => []DeletesNeverRefused
<1>1. Inv => DeletesNeverRefused
  BY DEF Inv, Deleted
<1> QED
  BY <1>1, Invariance, PTL

-----------------------------------------------------------------------------
(* The rows and the repository *)

\* From process() on, the controller is done with the conflict, and the rows
\* of conflicts become those that it has found.
LEMMA ProcessedStep ==
  ASSUME Inv, Processed, [Next]_vars
  PROVE  Processed'
<1> USE DEF Inv, TypeOK, Control, Processes, Requests, Steps, Processed, Detected, Answer, Goto, Serve,
             database, directories, worker, memory
<1>1. ASSUME NEW s \in Sessions, CreateSession(s) PROVE Processed'
  BY <1>1 DEF CreateSession, Directory
<1>2. ASSUME NEW s \in Sessions, DeleteSession(s) PROVE Processed'
  BY <1>2 DEF DeleteSession, Idle, Referenced
<1>3. ASSUME NEW s \in Sessions, NotStarted(s) PROVE Processed'
  BY <1>3 DEF NotStarted, Idle
<1>4. ASSUME NEW s \in Sessions, ReadFile(s) PROVE Processed'
  BY <1>4 DEF ReadFile, Ready, Idle, Directory
<1>5. ASSUME NEW s \in Sessions, DeleteChange(s) PROVE Processed'
  BY <1>5 DEF DeleteChange, Idle
<1>6. ASSUME NEW s \in Sessions, Upload(s) PROVE Processed'
  BY <1>6 DEF Upload, Idle, Directory
<1>7. ASSUME NEW s \in Sessions, UploadFails(s) PROVE Processed'
  BY <1>7 DEF UploadFails, Idle
<1>8. ASSUME NEW s \in Sessions, UploadRefused(s) PROVE Processed'
  BY <1>8 DEF UploadRefused, Idle
<1>9. ASSUME NEW s \in Sessions, Save(s) PROVE Processed'
  BY <1>9 DEF Save, Ready, Idle, Directory
<1>10. ASSUME NEW s \in Sessions, Reset(s) PROVE Processed'
  BY <1>10 DEF Reset, Ready, Idle, Directory
<1>11. ASSUME NEW s \in Sessions, NEW c \in Conflicts, WriteFile(s, c)
       PROVE Processed'
  BY <1>11 DEF WriteFile, Ready, Idle, Directory
<1>12. ASSUME NEW s \in Sessions, NEW c \in Conflicts, SetCurrent(s, c)
       PROVE Processed'
  BY <1>12 DEF SetCurrent, Ready, Idle, Directory
<1>13. ASSUME NEW s \in Sessions, NEW c \in Conflicts, SetRefused(s, c)
       PROVE Processed'
  BY <1>13 DEF SetRefused, Ready, Idle
<1>14. CASE ProcessRaises
  BY <1>14 DEF ProcessRaises
<1>15. CASE Process
  BY <1>15 DEF Process
<1>16. CASE AddChange
  BY <1>16 DEF AddChange
<1>17. CASE ClearCurrent
  BY <1>17 DEF ClearCurrent
<1>18. CASE DeleteFiles
  BY <1>18 DEF DeleteFiles
<1>19. CASE DeleteMitigations
  BY <1>19 DEF DeleteMitigations, AfterMitigations
<1>20. CASE DeleteConflicts
  BY <1>20 DEF DeleteConflicts
<1>21. CASE AddConflict
  BY <1>21 DEF AddConflict
<1>22. CASE Saved
  BY <1>22 DEF Saved
<1>23. CASE SetSession
  BY <1>23 DEF SetSession
<1>24. CASE AddFiles
  BY <1>24 DEF AddFiles
<1>25. CASE AddMitigation
  BY <1>25 DEF AddMitigation
<1>26. CASE AddMitigationFiles
  BY <1>26 DEF AddMitigationFiles
<1>27. CASE CurrentSet
  BY <1>27 DEF CurrentSet
<1>28. CASE Restart
  BY <1>28 DEF Restart
<1>29. CASE UNCHANGED vars
  BY <1>29 DEF vars
<1> QED
  BY <1>1, <1>2, <1>3, <1>4, <1>5, <1>6, <1>7, <1>8, <1>9, <1>10, <1>11,
     <1>12, <1>13, <1>14, <1>15, <1>16, <1>17, <1>18, <1>19, <1>20,
     <1>21, <1>22, <1>23, <1>24, <1>25, <1>26, <1>27, <1>28, <1>29 DEF Next

\* From process() on, the working tree is what was committed, and that has its row.
LEMMA RecordedStep ==
  ASSUME Inv, Recorded, [Next]_vars
  PROVE  Recorded'
<1> USE DEF Inv, TypeOK, Control, Processes, Requests, Steps, Recorded, Detected, Seen, Dirty, Committed, Started,
             Content, Answer, Goto, Serve,
             database, directories, worker, memory
<1>1. ASSUME NEW s \in Sessions, CreateSession(s) PROVE Recorded'
  BY <1>1 DEF CreateSession, Directory
<1>2. ASSUME NEW s \in Sessions, DeleteSession(s) PROVE Recorded'
  BY <1>2 DEF DeleteSession, Idle, Referenced
<1>3. ASSUME NEW s \in Sessions, NotStarted(s) PROVE Recorded'
  BY <1>3 DEF NotStarted, Idle
<1>4. ASSUME NEW s \in Sessions, ReadFile(s) PROVE Recorded'
  BY <1>4 DEF ReadFile, Ready, Idle, Directory
<1>5. ASSUME NEW s \in Sessions, DeleteChange(s) PROVE Recorded'
  BY <1>5 DEF DeleteChange, Idle
<1>6. ASSUME NEW s \in Sessions, Upload(s) PROVE Recorded'
  BY <1>6 DEF Upload, Idle, Directory
<1>7. ASSUME NEW s \in Sessions, UploadFails(s) PROVE Recorded'
  BY <1>7 DEF UploadFails, Idle
<1>8. ASSUME NEW s \in Sessions, UploadRefused(s) PROVE Recorded'
  BY <1>8 DEF UploadRefused, Idle
<1>9. ASSUME NEW s \in Sessions, Save(s) PROVE Recorded'
  BY <1>9 DEF Save, Ready, Idle, Directory
<1>10. ASSUME NEW s \in Sessions, Reset(s) PROVE Recorded'
  BY <1>10 DEF Reset, Ready, Idle, Directory
<1>11. ASSUME NEW s \in Sessions, NEW c \in Conflicts, WriteFile(s, c)
       PROVE Recorded'
  BY <1>11 DEF WriteFile, Ready, Idle, Directory
<1>12. ASSUME NEW s \in Sessions, NEW c \in Conflicts, SetCurrent(s, c)
       PROVE Recorded'
  BY <1>12 DEF SetCurrent, Ready, Idle, Directory
<1>13. ASSUME NEW s \in Sessions, NEW c \in Conflicts, SetRefused(s, c)
       PROVE Recorded'
  BY <1>13 DEF SetRefused, Ready, Idle
<1>14. CASE ProcessRaises
  BY <1>14 DEF ProcessRaises
<1>15. CASE Process
  BY <1>15 DEF Process
<1>16. CASE AddChange
  BY <1>16 DEF AddChange
<1>17. CASE ClearCurrent
  BY <1>17 DEF ClearCurrent
<1>18. CASE DeleteFiles
  BY <1>18 DEF DeleteFiles
<1>19. CASE DeleteMitigations
  BY <1>19 DEF DeleteMitigations, AfterMitigations
<1>20. CASE DeleteConflicts
  BY <1>20 DEF DeleteConflicts
<1>21. CASE AddConflict
  BY <1>21 DEF AddConflict
<1>22. CASE Saved
  BY <1>22 DEF Saved
<1>23. CASE SetSession
  BY <1>23 DEF SetSession
<1>24. CASE AddFiles
  BY <1>24 DEF AddFiles
<1>25. CASE AddMitigation
  BY <1>25 DEF AddMitigation
<1>26. CASE AddMitigationFiles
  BY <1>26 DEF AddMitigationFiles
<1>27. CASE CurrentSet
  BY <1>27 DEF CurrentSet
<1>28. CASE Restart
  BY <1>28 DEF Restart
<1>29. CASE UNCHANGED vars
  BY <1>29 DEF vars
<1> QED
  BY <1>1, <1>2, <1>3, <1>4, <1>5, <1>6, <1>7, <1>8, <1>9, <1>10, <1>11,
     <1>12, <1>13, <1>14, <1>15, <1>16, <1>17, <1>18, <1>19, <1>20,
     <1>21, <1>22, <1>23, <1>24, <1>25, <1>26, <1>27, <1>28, <1>29 DEF Next

\* What set_current_conflict has written so far matches the branches.
LEMMA BeingSetStep ==
  ASSUME Inv, BeingSet, [Next]_vars
  PROVE  BeingSet'
<1> USE DEF Inv, TypeOK, Control, Processes, Requests, Deleted, BeingSet, Answer, Goto, Serve,
             database, directories, worker, memory
<1>1. ASSUME NEW s \in Sessions, CreateSession(s) PROVE BeingSet'
  BY <1>1 DEF CreateSession, Directory
<1>2. ASSUME NEW s \in Sessions, DeleteSession(s) PROVE BeingSet'
  BY <1>2 DEF DeleteSession, Idle, Referenced
<1>3. ASSUME NEW s \in Sessions, NotStarted(s) PROVE BeingSet'
  BY <1>3 DEF NotStarted, Idle
<1>4. ASSUME NEW s \in Sessions, ReadFile(s) PROVE BeingSet'
  BY <1>4 DEF ReadFile, Ready, Idle, Directory
<1>5. ASSUME NEW s \in Sessions, DeleteChange(s) PROVE BeingSet'
  BY <1>5 DEF DeleteChange, Idle
<1>6. ASSUME NEW s \in Sessions, Upload(s) PROVE BeingSet'
  BY <1>6 DEF Upload, Idle, Directory
<1>7. ASSUME NEW s \in Sessions, UploadFails(s) PROVE BeingSet'
  BY <1>7 DEF UploadFails, Idle
<1>8. ASSUME NEW s \in Sessions, UploadRefused(s) PROVE BeingSet'
  BY <1>8 DEF UploadRefused, Idle
<1>9. ASSUME NEW s \in Sessions, Save(s) PROVE BeingSet'
  BY <1>9 DEF Save, Ready, Idle, Directory
<1>10. ASSUME NEW s \in Sessions, Reset(s) PROVE BeingSet'
  BY <1>10 DEF Reset, Ready, Idle, Directory
<1>11. ASSUME NEW s \in Sessions, NEW c \in Conflicts, WriteFile(s, c)
       PROVE BeingSet'
  BY <1>11 DEF WriteFile, Ready, Idle, Directory
<1>12. ASSUME NEW s \in Sessions, NEW c \in Conflicts, SetCurrent(s, c)
       PROVE BeingSet'
  BY <1>12 DEF SetCurrent, Ready, Idle, Directory
<1>13. ASSUME NEW s \in Sessions, NEW c \in Conflicts, SetRefused(s, c)
       PROVE BeingSet'
  BY <1>13 DEF SetRefused, Ready, Idle
<1>14. CASE ProcessRaises
  BY <1>14 DEF ProcessRaises
<1>15. CASE Process
  BY <1>15 DEF Process
<1>16. CASE AddChange
  BY <1>16 DEF AddChange
<1>17. CASE ClearCurrent
  BY <1>17 DEF ClearCurrent
<1>18. CASE DeleteFiles
  BY <1>18 DEF DeleteFiles
<1>19. CASE DeleteMitigations
  BY <1>19 DEF DeleteMitigations, AfterMitigations
<1>20. CASE DeleteConflicts
  BY <1>20 DEF DeleteConflicts
<1>21. CASE AddConflict
  BY <1>21 DEF AddConflict
<1>22. CASE Saved
  BY <1>22 DEF Saved
<1>23. CASE SetSession
  BY <1>23 DEF SetSession
<1>24. CASE AddFiles
  BY <1>24 DEF AddFiles
<1>25. CASE AddMitigation
  BY <1>25 DEF AddMitigation
<1>26. CASE AddMitigationFiles
  <2>1. PICK b \in todo :
          /\ <<b, chosen>> \in mitigationRows[session]
          /\ fileRows' = [fileRows EXCEPT ![session] =
                            fileRows[session] \cup {<<chosen, b>>}]
          /\ todo' = todo \ {b}
    BY <1>26 DEF AddMitigationFiles
  <2>2. step = "add_mitigations" /\ session \in Sessions /\ request = "set"
        /\ UNCHANGED <<current, mitigationRows, branches, shelf, controller,
                       step, request, session, chosen>>
    BY <1>26 DEF AddMitigationFiles
  <2>3. b \in branches[controller] /\ todo' \subseteq branches[controller]
    BY <2>1, <2>2
  <2>4. fileRows'[session] = fileRows[session] \cup {<<chosen, b>>}
    BY <2>1, <2>2
  <2>5. fileRows'[session] = {chosen} \X ((branches[controller] \ todo') \cup {None})
    BY <2>1, <2>2, <2>3, <2>4
  <2>6. \A x \in branches[controller] \ todo' : <<x, chosen>> \in mitigationRows[session]
    BY <2>1, <2>2
  <2>7. (branches[controller] \ todo') \X {chosen} \subseteq mitigationRows[session]
    BY <2>2, <2>6
  <2> QED
    BY <2>2, <2>3, <2>5, <2>7
<1>27. CASE CurrentSet
  BY <1>27 DEF CurrentSet
<1>28. CASE Restart
  BY <1>28 DEF Restart
<1>29. CASE UNCHANGED vars
  BY <1>29 DEF vars
<1> QED
  BY <1>1, <1>2, <1>3, <1>4, <1>5, <1>6, <1>7, <1>8, <1>9, <1>10, <1>11,
     <1>12, <1>13, <1>14, <1>15, <1>16, <1>17, <1>18, <1>19, <1>20,
     <1>21, <1>22, <1>23, <1>24, <1>25, <1>26, <1>27, <1>28, <1>29 DEF Next

LEMMA Agreement == Spec => [](Inv /\ Processed /\ Recorded /\ BeingSet)
<1>1. Init => Inv /\ Processed /\ Recorded /\ BeingSet
  BY InvInductive DEF Init, Processed, Recorded, BeingSet
<1>2. Inv /\ Processed /\ Recorded /\ BeingSet /\ [Next]_vars =>
        (Inv /\ Processed /\ Recorded /\ BeingSet)'
  BY InvInductive, ProcessedStep, RecordedStep, BeingSetStep
<1> QED
  BY <1>1, <1>2, PTL DEF Spec

\* A saved change is committed and has its row, and both sides are done with the conflict.
THEOREM SavedSound == Spec => SavedIsShown
<1> DEFINE A ==
      step = "add_conflicts" /\ step' = "idle" /\ answer' = "ok" =>
        /\ current'[session] = None /\ shelf'[controller] = None
        /\ mitigationRows'[session] = {} /\ fileRows'[session] = {}
        /\ branches'[controller] = {}
        /\ tree'[controller] = Committed(controller)'
        /\ request = "save" =>
             <<controller, Len(history'[controller])>> \in changeRows'[session]
        /\ conflictRows'[session] = Detected(config)
        /\ request = "upload" => conflictRows'[session] = Detected(Committed(controller)')
<1>1. ASSUME Inv, Processed, Recorded, [Next]_vars PROVE [A]_vars
  <2> SUFFICES ASSUME step = "add_conflicts", step' = "idle", answer' = "ok"
               PROVE  A
    OBVIOUS
  <2>1. Saved
    BY <1>1 DEF Next, vars, Idle, Ready, CreateSession, DeleteSession, NotStarted,
         ReadFile, DeleteChange, Upload, UploadFails, UploadRefused, Save, Reset,
         WriteFile, SetCurrent, SetRefused, ProcessRaises, Process, AddChange,
         ClearCurrent, DeleteFiles, DeleteMitigations, DeleteConflicts, AddConflict,
         SetSession, AddFiles, AddMitigation, AddMitigationFiles, CurrentSet,
         Restart, Answer
  <2>2. /\ request \in Processes /\ session \in Sessions
        /\ current[session] = None /\ fileRows[session] = {}
        /\ mitigationRows[session] = {}
    BY <1>1 DEF Inv, Control, Deleted, Processes
  <2>3. /\ shelf[controller] = None /\ branches[controller] = {}
        /\ conflictRows[session] \cup found = Detected(config)
    BY <1>1, <2>2 DEF Processed
  <2>4. /\ tree[controller] = Committed(controller)
        /\ request = "save" => <<controller, Len(history[controller])>> \in changeRows[session]
        /\ request = "upload" => config = Committed(controller)
    BY <1>1, <2>2 DEF Recorded, Processes
  <2> QED
    BY <2>1, <2>2, <2>3, <2>4 DEF Saved, database, directories, worker, Committed
<1>2. Inv /\ Processed /\ Recorded /\ [Next]_vars => [A]_vars
  BY <1>1
<1> QED
  BY <1>2, Agreement, PTL DEF Spec, SavedIsShown

\* A conflict that is set is shown with the branches there are.
THEOREM SetSound == Spec => SetIsShown
<1> DEFINE A ==
      step = "add_mitigations" /\ step' = "idle" /\ answer' = "ok" =>
        /\ current'[session] = chosen /\ shelf'[controller] = chosen
        /\ mitigationRows'[session] = branches'[controller] \X {chosen}
        /\ fileRows'[session] = {chosen} \X (branches'[controller] \cup {None})
<1>1. ASSUME Inv, BeingSet, [Next]_vars PROVE [A]_vars
  <2> SUFFICES ASSUME step = "add_mitigations", step' = "idle", answer' = "ok"
               PROVE  A
    OBVIOUS
  <2>1. CurrentSet
    BY <1>1 DEF Next, vars, Idle, Ready, CreateSession, DeleteSession, NotStarted,
         ReadFile, DeleteChange, Upload, UploadFails, UploadRefused, Save, Reset,
         WriteFile, SetCurrent, SetRefused, ProcessRaises, Process, AddChange,
         ClearCurrent, DeleteFiles, DeleteMitigations, DeleteConflicts, AddConflict,
         Saved, SetSession, AddFiles, AddMitigation, AddMitigationFiles,
         Restart, Answer, memory
  <2>2. request = "set"
    BY <1>1 DEF Inv, Control
  <2>3. /\ current[session] = chosen /\ shelf[controller] = chosen
        /\ fileRows[session] = {chosen} \X ((branches[controller] \ todo) \cup {None})
        /\ (branches[controller] \ todo) \X {chosen} \subseteq mitigationRows[session]
        /\ mitigationRows[session] \subseteq branches[controller] \X {chosen}
    BY <1>1, <2>2 DEF BeingSet
  <2>4. todo = {} /\ UNCHANGED <<database, directories>>
    BY <2>1 DEF CurrentSet
  <2> QED
    BY <2>3, <2>4 DEF database, directories
<1>2. Inv /\ BeingSet /\ [Next]_vars => [A]_vars
  BY <1>1
<1> QED
  BY <1>2, Agreement, PTL DEF Spec, SetIsShown

==============================================================================
