--------------------------- MODULE Diagnose_proofs ---------------------------
(* No step of a command, no kill and no event takes device, logs, disk, process *)
(* or clock out of their types; Inv is preserved by every step, and what the    *)
(* commands promise follows.                                                    *)
EXTENDS DiagnoseInvariant, TLAPS

-----------------------------------------------------------------------------
(* Types *)

\* Partial functions and what is stored in them.
LEMMA ExtendPartial ==
  ASSUME NEW f, NEW S, NEW T, IsPartial(f, S, T), NEW x \in S, NEW y \in T
  PROVE  IsPartial(Extend(f, x, y), S, T)
BY DEF IsPartial, Extend

LEMMA EmptyPartial == ASSUME NEW S, NEW T PROVE IsPartial(<<>>, S, T)
BY DEF IsPartial

LEMMA IdleFields ==
  /\ DOMAIN Idle = {"cmd", "pc", "n", "flag", "as3", "before",
                     "marks", "found", "left", "ran", "good"}
  /\ Idle.cmd = "idle" /\ Idle.pc = "" /\ Idle.flag = FALSE /\ Idle.as3 = FALSE /\ Idle.before = None
  /\ Idle.n \in Nat \ {0} /\ Idle.good \in Nat
  /\ IsPartial(Idle.marks, Logs, Nat) /\ IsPartial(Idle.found, Logs, {None} \cup Seq(Nat))
  /\ Idle.left = {} /\ Idle.ran = {}
<1>1. IsPartial(Idle.marks, Logs, Nat)
  BY EmptyPartial DEF Idle
<1>2. IsPartial(Idle.found, Logs, {None} \cup Seq(Nat))
  BY EmptyPartial DEF Idle
<1> QED BY <1>1, <1>2 DEF Idle

\* What ends a command, takes it a step further or begins it.
LEMMA EndOK == ASSUME NEW how, End(how) PROVE ProcOK'
<1>1. <<"idle", "">> \in Positions
  BY DEF Positions
<1> QED BY <1>1, IdleFields DEF End, ProcOK

LEMMA GoOK ==
  ASSUME ProcOK, NEW pc, <<proc.cmd, pc>> \in Positions, Go(pc)
  PROVE  ProcOK'
BY DEF Go, ProcOK

LEMMA BeginOK ==
  ASSUME DeviceOK, ClockOK, NEW flag \in BOOLEAN, NEW cmd, NEW pc,
         <<cmd, pc>> \in Positions, Begin(cmd, pc, flag)
  PROVE  ProcOK' /\ ClockOK'
<1>1. ProcOK'
  BY IdleFields DEF DeviceOK, Begin, ProcOK
<1>2. ClockOK'
  BY DeployAssumption DEF Begin, ClockOK
<1> QED BY <1>1, <1>2

\* The steps a command can go to from where it is.
LEMMA StepPositions ==
  /\ {"generate"} \X
       {"conflicts", "check_ucs", "check_as3", "tar", "encrypt", "remove", "as3"} \subseteq Positions
  /\ {"deploy"} \X
       {"connect", "watch", "stat", "dump", "dumped", "backup", "upload", "load"} \subseteq Positions
  /\ {"download"} \X {"version", "save", "get", "delete"} \subseteq Positions
  /\ {"diagnose"} \X
       {"connect", "check", "collect", "cleanup", "results", "point", "pointed"} \subseteq Positions
  /\ <<"backup", "backup">> \in Positions
BY DEF Positions

LEMMA Untouched ==
  ASSUME TypeOK
  PROVE  /\ UNCHANGED device => DeviceOK'
         /\ UNCHANGED logs => LogsOK'
         /\ UNCHANGED work => WorkOK'
         /\ UNCHANGED proc => ProcOK'
         /\ UNCHANGED clock => ClockOK'
BY DEF TypeOK, DeviceOK, LogsOK, WorkOK, ProcOK, ClockOK

\* The steps that may write to device, logs, disk and clock.
LEMMA DeviceFrame ==
  [Next]_vars => \/ UNCHANGED device
                 \/ save_ucs \/ Upload \/ load_ucs \/ SaveArchive \/ delete_file
BY DEF Next, Commands, Step, Steps, vars, Begin, Generate, Deploy, Backup,
     Download, deployment_report, Diagnose, Conflicts, CheckUcs, CheckAs3, Tar,
     Encrypt, RemovePlain, SaveAs3, Connect, LogWatcher, Stat, Dump, Version,
     Get, Poll, LoadOffsets, Collect, Cleanup, Other, WriteResults,
     ResultsWritten, WritePointer, Kill, LogEvent

LEMMA LogsFrame == [Next]_vars => UNCHANGED logs \/ LogWatcher \/ LogEvent
BY DEF Next, Commands, Step, Steps, vars, Begin, Generate, Deploy, Backup,
     Download, deployment_report, Diagnose, Conflicts, CheckUcs, CheckAs3, Tar,
     Encrypt, RemovePlain, SaveAs3, save_ucs, Connect, Stat, Dump, Upload,
     load_ucs, Version, SaveArchive, Get, delete_file, Poll, LoadOffsets,
     Collect, Cleanup, Other, WriteResults, ResultsWritten, WritePointer, Kill

LEMMA WorkFrame ==
  [Next]_vars => \/ UNCHANGED work
                 \/ CheckUcs \/ CheckAs3 \/ Tar \/ Encrypt \/ RemovePlain \/ SaveAs3
                 \/ LogWatcher \/ Dump \/ Get \/ Cleanup
                 \/ WriteResults \/ ResultsWritten \/ WritePointer
BY DEF Next, Commands, Step, Steps, vars, Begin, Generate, Deploy, Backup,
     Download, deployment_report, Diagnose, Conflicts, save_ucs, Connect, Stat,
     Upload, load_ucs, Version, SaveArchive, delete_file, Poll, LoadOffsets,
     Collect, Other, Kill, LogEvent

LEMMA ClockFrame ==
  [Next]_vars => \/ UNCHANGED clock
                 \/ \E flag \in BOOLEAN : Generate(flag)
                 \/ \E flag \in BOOLEAN : Deploy(flag)
                 \/ Backup \/ Download \/ deployment_report
                 \/ \E excluded \in Exclusions : Diagnose(excluded)
                 \/ LogWatcher \/ Dump \/ LogEvent
BY DEF Next, Commands, Step, Steps, vars, Begin, Conflicts, CheckUcs, CheckAs3,
     Tar, Encrypt, RemovePlain, SaveAs3, save_ucs, Connect, Stat, Upload,
     load_ucs, Version, SaveArchive, Get, delete_file, Poll, LoadOffsets,
     Collect, Cleanup, Other, WriteResults, ResultsWritten, WritePointer, Kill

\* A command that runs has its own moment.
LEMMA Now == ASSUME TypeOK, Reported PROVE proc.cmd # "idle" => clock.now \in Times
BY DeployAssumption DEF TypeOK, ClockOK, Times, Reported

LEMMA Ready == ASSUME TypeOK, proc.pc = "backup" PROVE proc.cmd # "idle"
BY DEF TypeOK, ProcOK, Positions

-----------------------------------------------------------------------------
(* Each variable, over all steps *)

LEMMA DeviceStep ==
  ASSUME Inv, [Next]_vars
  PROVE  DeviceOK'
<1> USE DEF Inv, TypeOK, DeviceOK
<1>1. CASE UNCHANGED device
  BY <1>1
<1>2. CASE save_ucs
  <2>1. clock.now \in Times
    BY <1>2, Now, Ready DEF save_ucs
  <2>2. IsPartial(Extend(device.backups, clock.now, device.config), Times, Loaded)
    BY <2>1, ExtendPartial
  <2>3. device' \in {device, [device EXCEPT !.backups = Extend(@, clock.now, device.config)]}
    BY <1>2 DEF save_ucs, Attempt
  <2> QED BY <2>2, <2>3
<1>3. CASE Upload
  BY <1>3 DEF Upload, WorkOK, Content
<1>4. CASE load_ucs
  <2>1. device.upload # None
    BY <1>4 DEF load_ucs, At, Deployed
  <2>2. device' = device \/ \E c \in Loaded : device' = [device EXCEPT !.config = c]
    BY <1>4, <2>1 DEF load_ucs, Attempt, Loaded, Content
  <2> QED BY <2>2
<1>5. CASE SaveArchive
  <2>1. clock.now \in Times
    BY <1>5, Now DEF SaveArchive, At
  <2> QED BY <1>5, <2>1 DEF SaveArchive, Attempt
<1>6. CASE delete_file
  BY <1>6 DEF delete_file, Attempt
<1> QED BY <1>1, <1>2, <1>3, <1>4, <1>5, <1>6, DeviceFrame

LEMMA LogsStep ==
  ASSUME Inv, [Next]_vars
  PROVE  LogsOK'
<1> USE DEF Inv, TypeOK, LogsOK
<1>1. CASE UNCHANGED logs
  BY <1>1
<1>2. CASE LogWatcher
  BY <1>2 DEF LogWatcher
<1>3. CASE LogEvent
  <2> DEFINE New(L) == [there |-> TRUE, rotated |-> logs[L].rotated,
                        lines |-> Append(logs[L].lines, clock.epoch)]
             Emptied(there) == [there |-> there, rotated |-> TRUE, lines |-> <<>>]
  <2>1. PICK L \in Logs : \/ logs' = [logs EXCEPT ![L] = New(L)]
                          \/ \E there \in BOOLEAN : logs' = [logs EXCEPT ![L] = Emptied(there)]
    BY <1>3 DEF LogEvent
  <2>2. Append(logs[L].lines, clock.epoch) \in Seq(Nat)
    BY DEF ClockOK
  <2>3. New(L) \in [there : BOOLEAN, rotated : BOOLEAN, lines : Seq(Nat)]
    BY <2>2
  <2>4. \A there \in BOOLEAN :
          Emptied(there) \in [there : BOOLEAN, rotated : BOOLEAN, lines : Seq(Nat)]
    OBVIOUS
  <2> HIDE DEF New, Emptied
  <2> QED BY <2>1, <2>3, <2>4
<1> QED BY <1>1, <1>2, <1>3, LogsFrame

LEMMA ClockStep ==
  ASSUME Inv, [Next]_vars
  PROVE  ClockOK'
<1> USE DeployAssumption DEF Inv, TypeOK, ClockOK
<1>1. CASE UNCHANGED clock
  BY <1>1
<1>2. ASSUME NEW flag \in BOOLEAN, Generate(flag) PROVE ClockOK'
  BY <1>2 DEF Generate, Begin
<1>3. ASSUME NEW flag \in BOOLEAN, Deploy(flag) PROVE ClockOK'
  BY <1>3 DEF Deploy, Begin
<1>4. CASE Backup
  BY <1>4 DEF Backup, Begin
<1>5. CASE Download
  BY <1>5 DEF Download, Begin
<1>6. CASE deployment_report
  BY <1>6 DEF deployment_report
<1>7. ASSUME NEW excluded \in Exclusions, Diagnose(excluded) PROVE ClockOK'
  BY <1>7 DEF Diagnose
<1>8. CASE LogWatcher
  BY <1>8 DEF LogWatcher
<1>9. CASE Dump
  BY <1>9 DEF Dump
<1>10. CASE LogEvent
  BY <1>10 DEF LogEvent
<1> QED BY <1>1, <1>2, <1>3, <1>4, <1>5, <1>6, <1>7, <1>8, <1>9, <1>10, ClockFrame

LEMMA WorkStep ==
  ASSUME Inv, [Next]_vars
  PROVE  WorkOK'
<1> USE DEF Inv, TypeOK, WorkOK, Content
<1>1. CASE UNCHANGED work
  BY <1>1
<1>2. CASE CheckUcs
  BY <1>2 DEF CheckUcs, CheckOutput
<1>3. CASE CheckAs3
  BY <1>3 DEF CheckAs3, CheckOutput
<1>4. CASE Tar
  BY <1>4 DEF Tar
<1>5. CASE Encrypt
  BY <1>5 DEF Encrypt
<1>6. CASE RemovePlain
  BY <1>6 DEF RemovePlain
<1>7. CASE SaveAs3
  BY <1>7 DEF SaveAs3
<1>8. CASE LogWatcher
  BY <1>8 DEF LogWatcher
<1>9. CASE Dump
  BY <1>9 DEF Dump, ProcOK
<1>10. CASE Get
  BY <1>10 DEF Get, At, DeviceOK, Downloaded
<1>11. CASE Cleanup
  BY <1>11 DEF Cleanup
<1>12. CASE WriteResults
  <2>1. clock.now \in Times
    BY <1>12, Now DEF WriteResults, At
  <2>2. \A results \in {NoChecks, Partial} :
          IsPartial(Extend(work.results, clock.now, results), Times,
                    {Partial} \cup SUBSET Range(Checks))
    BY <2>1, ExtendPartial DEF NoChecks
  <2> QED BY <1>12, <2>2 DEF WriteResults
<1>13. CASE ResultsWritten
  <2>1. proc.ran \in SUBSET Range(Checks)
    BY DEF ProcOK
  <2>2. IsPartial([work.results EXCEPT ![clock.now] = proc.ran], Times,
                  {Partial} \cup SUBSET Range(Checks))
    BY <2>1 DEF IsPartial
  <2> QED BY <1>13, <2>2 DEF ResultsWritten
<1>14. CASE WritePointer
  BY <1>14, Now DEF WritePointer, At
<1> QED BY <1>1, <1>2, <1>3, <1>4, <1>5, <1>6, <1>7, <1>8, <1>9, <1>10, <1>11, <1>12,
   <1>13, <1>14,
       WorkFrame

\* A further attempt, and the result of a check.
LEMMA RetryOK ==
  ASSUME ProcOK, proc' = [proc EXCEPT !.n = @ + 1]
  PROVE  ProcOK'
BY DEF ProcOK

LEMMA ResultOK ==
  ASSUME ProcOK, proc.cmd = "diagnose", Result
  PROVE  ProcOK'
<1>1. PICK i \in Due : proc' = [proc EXCEPT !.left = @ \ {i}, !.ran = @ \cup {Checks[i]},
                                           !.pc = "check", !.n = 1, !.marks = <<>>]
  BY DEF Result
<1>2. Checks[i] \in Range(Checks)
  BY DEF Due, ProcOK, Range
<1>3. <<"diagnose", "check">> \in Positions
  BY DEF Positions
<1>4. IsPartial(proc'.marks, Logs, Nat)
  BY <1>1, EmptyPartial DEF ProcOK
<1> QED BY <1>1, <1>2, <1>3, <1>4 DEF ProcOK

\* While logs are walked through, n is the place of one of them.
LEMMA LogAt ==
  ASSUME Inv, proc.pc \in {"stat", "collect"}
  PROVE  proc.n \in 1..Len(LogOrder) /\ LogOrder[proc.n] \in Logs
<1>1. proc.n \in 1..Len(LogOrder)
  BY DeployAssumption DEF Inv, TypeOK, ProcOK, Watched
<1> QED BY <1>1, DeployAssumption DEF Logs, Range

LEMMA ProcStep ==
  ASSUME Inv, [Next]_vars
  PROVE  ProcOK'
<1> USE EndOK, GoOK, BeginOK, StepPositions DEF Inv, TypeOK, At, Fails, Raises
<1>1. ASSUME NEW flag \in BOOLEAN, Generate(flag) PROVE ProcOK'
  BY <1>1 DEF Generate
<1>2. ASSUME NEW flag \in BOOLEAN, Deploy(flag) PROVE ProcOK'
  BY <1>2, Untouched DEF Deploy
<1>3. CASE Backup
  BY <1>3 DEF Backup
<1>4. CASE Download
  BY <1>4 DEF Download
<1>5. CASE deployment_report
  BY <1>5, Untouched DEF deployment_report
<1>6. ASSUME NEW excluded \in Exclusions, Diagnose(excluded) PROVE ProcOK'
  <2>1. <<"diagnose", "connect">> \in Positions
    BY DEF Positions
  <2> QED BY <1>6, <2>1, IdleFields DEF Diagnose, ProcOK
<1>7. CASE Conflicts
  <2>1. CASE \E as3 \in BOOLEAN : proc' = [proc EXCEPT !.pc = "check_ucs", !.as3 = as3]
    BY <1>7, <2>1 DEF Conflicts, ProcOK
  <2> QED BY <1>7, <2>1 DEF Conflicts
<1>8. CASE CheckUcs
  BY <1>8 DEF CheckUcs, CheckOutput
<1>9. CASE CheckAs3
  BY <1>9 DEF CheckAs3, CheckOutput
<1>10. CASE Tar
  BY <1>10 DEF Tar
<1>11. CASE Encrypt
  BY <1>11 DEF Encrypt
<1>12. CASE RemovePlain
  BY <1>12 DEF RemovePlain
<1>13. CASE SaveAs3
  BY <1>13 DEF SaveAs3
<1>14. CASE save_ucs
  BY <1>14, Ready, RetryOK DEF save_ucs, Attempt, AfterBackup, ProcOK
<1>15. CASE Connect
  BY <1>15 DEF Connect, ProcOK, Positions
<1>16. CASE LogWatcher
  BY <1>16 DEF LogWatcher
<1>17. CASE Stat
  <2> DEFINE L == LogOrder[proc.n]
  <2>1. L \in Logs
    BY <1>17, LogAt DEF Stat
  <2>2. logs[L].lines \in Seq(Nat)
    BY <2>1 DEF LogsOK
  <2>3. IsPartial(proc.marks, Logs, Nat)
    BY DEF ProcOK
  <2>4. IsPartial(Extend(proc.marks, L, Len(logs[L].lines)), Logs, Nat)
    BY <2>1, <2>2, <2>3, ExtendPartial
  <2> HIDE DEF L
  <2>5. ASSUME NEW marks \in {proc.marks, Extend(proc.marks, L, Len(logs[L].lines))},
               proc' = IF proc.n < Len(LogOrder)
                       THEN [proc EXCEPT !.marks = marks, !.n = @ + 1]
                       ELSE [proc EXCEPT !.marks = marks, !.pc = "dump", !.n = 1]
        PROVE  ProcOK'
    BY <1>17, <2>3, <2>4, <2>5 DEF Stat, ProcOK
  <2> QED BY <1>17, <2>5 DEF Stat, AfterWatch, L
<1>18. CASE Dump
  BY <1>18 DEF Dump, AfterWatch
<1>19. CASE Upload
  BY <1>19 DEF Upload
<1>20. CASE load_ucs
  BY <1>20, RetryOK DEF load_ucs, Attempt
<1>21. CASE Version
  BY <1>21 DEF Version
<1>22. CASE SaveArchive
  BY <1>22, RetryOK DEF SaveArchive, Attempt
<1>23. CASE Get
  BY <1>23 DEF Get
<1>24. CASE delete_file
  BY <1>24, RetryOK DEF delete_file, Attempt
<1>25. CASE Poll
  <2>1. ASSUME NEW good \in Nat, proc' = [proc EXCEPT !.good = good, !.n = @ + 1] PROVE ProcOK'
    BY <2>1 DEF ProcOK
  <2>2. \/ \E good \in Nat : proc' = [proc EXCEPT !.good = good, !.n = @ + 1]
        \/ Result \/ End("failed")
    <3>1. \A valid \in BOOLEAN : (IF valid THEN proc.good + 1 ELSE 0) \in Nat
      BY DEF ProcOK
    <3> QED BY <1>25, <3>1 DEF Poll
  <2> QED BY <1>25, <2>1, <2>2, ResultOK DEF Poll, Checking
<1>26. CASE LoadOffsets
  <2>1. CASE work.offsets \notin {None, Partial}
                /\ proc' = [proc EXCEPT !.pc = "collect", !.n = 1, !.marks = work.offsets]
    <3>1. IsPartial(work.offsets, Logs, Nat)
      BY <2>1 DEF WorkOK
    <3>2. <<"diagnose", "collect">> \in Positions
      BY DEF Positions
    <3>3. proc.cmd = "diagnose"
      BY <1>26 DEF LoadOffsets, Checking
    <3> QED BY <2>1, <3>1, <3>2, <3>3 DEF ProcOK
  <2> QED BY <1>26, <2>1, ResultOK DEF LoadOffsets, Checking
<1>27. CASE Collect
  <2> DEFINE L == LogOrder[proc.n]
             lines == SubSeq(logs[L].lines, proc.marks[L] + 1, Len(logs[L].lines))
             New == {proc.found, Extend(proc.found, L, lines), Extend(proc.found, L, None)}
  <2>1. L \in Logs
    BY <1>27, LogAt DEF Collect
  <2>2. L \in DOMAIN proc.marks => lines \in Seq(Nat)
    BY <2>1 DEF LogsOK, ProcOK, IsPartial
  <2>3. IsPartial(proc.found, Logs, {None} \cup Seq(Nat))
    BY DEF ProcOK
  <2>4. L \in DOMAIN proc.marks =>
          IsPartial(Extend(proc.found, L, lines), Logs, {None} \cup Seq(Nat))
    BY <2>1, <2>2, <2>3, ExtendPartial
  <2>5. IsPartial(Extend(proc.found, L, None), Logs, {None} \cup Seq(Nat))
    BY <2>1, <2>3, ExtendPartial
  <2>6. <<"diagnose", "cleanup">> \in Positions
    BY DEF Positions
  <2>7. ASSUME NEW found, IsPartial(found, Logs, {None} \cup Seq(Nat)), Found(found)
        PROVE  ProcOK'
    BY <1>27, <2>6, <2>7 DEF Collect, Found, ProcOK
  <2> QED
    BY <1>27, <2>3, <2>4, <2>5, <2>7 DEF Collect
<1>28. CASE Cleanup
  BY <1>28, ResultOK DEF Cleanup
<1>29. CASE Other
  BY <1>29, ResultOK DEF Other, Checking
<1>30. CASE WriteResults
  BY <1>30 DEF WriteResults
<1>31. CASE ResultsWritten
  BY <1>31 DEF ResultsWritten
<1>32. CASE WritePointer
  BY <1>32 DEF WritePointer
<1>33. CASE Kill
  BY <1>33 DEF Kill
<1>34. CASE LogEvent
  BY <1>34, Untouched DEF LogEvent
<1>35. CASE UNCHANGED vars
  BY <1>35, Untouched DEF vars
<1> QED
  BY <1>1, <1>2, <1>3, <1>4, <1>5, <1>6, <1>7, <1>8, <1>9, <1>10, <1>11, <1>12,
     <1>13, <1>14, <1>15, <1>16, <1>17, <1>18, <1>19, <1>20, <1>21, <1>22, <1>23, <1>24,
     <1>25, <1>26, <1>27, <1>28, <1>29, <1>30, <1>31, <1>32, <1>33, <1>34, <1>35
     DEF Next, Commands, Step, Steps

LEMMA Types ==
  ASSUME Inv, [Next]_vars
  PROVE  TypeOK'
BY DeviceStep, LogsStep, WorkStep, ProcStep, ClockStep DEF TypeOK

-----------------------------------------------------------------------------
(* Which command a step belongs to *)

Generating == \/ \E flag \in BOOLEAN : Generate(flag)
              \/ Conflicts \/ CheckUcs \/ CheckAs3 \/ Tar \/ Encrypt \/ RemovePlain \/ SaveAs3
Deploying == \/ \E flag \in BOOLEAN : Deploy(flag)
             \/ Connect \/ LogWatcher \/ Stat \/ Dump \/ save_ucs \/ Upload \/ load_ucs
Downloading == Download \/ Version \/ SaveArchive \/ Get \/ delete_file
Diagnosing == \/ \E excluded \in Exclusions : Diagnose(excluded)
              \/ Connect \/ Poll \/ LoadOffsets \/ Collect \/ Cleanup \/ Other
              \/ WriteResults \/ ResultsWritten \/ WritePointer

Moment ==
  \/ proc.cmd = "idle" /\ clock'.now = clock.now + 1
  \/ proc'.cmd \in {proc.cmd, "idle"} /\ clock'.now = clock.now
Moves ==
  /\ Moment
  /\ \/ proc'.cmd = "idle"
     \/ UNCHANGED <<device, work, proc>>
     \/ proc'.cmd = "generate" /\ Generating
     \/ proc'.cmd = "deploy" /\ Deploying
     \/ proc'.cmd = "backup"
     \/ proc'.cmd = "download" /\ Downloading
     \/ proc'.cmd = "diagnose" /\ Diagnosing

\* What the ways to go on do to the command and its fields.
LEMMA MoveFields ==
  ASSUME ProcOK, ClockOK
  PROVE  /\ \A pc : Go(pc) => proc'.cmd = proc.cmd
         /\ \A how : End(how) => proc'.cmd = "idle"
         /\ \A cmd, pc, flag : Begin(cmd, pc, flag) =>
              proc.cmd = "idle" /\ proc'.cmd = cmd /\ clock'.now = clock.now + 1
         /\ Result => proc'.cmd = proc.cmd
<1>1. \A pc : Go(pc) => proc'.cmd = proc.cmd
  BY DEF Go, ProcOK
<1>2. \A how : End(how) => proc'.cmd = "idle"
  BY IdleFields DEF End
<1>3. \A cmd, pc, flag : Begin(cmd, pc, flag) =>
        proc.cmd = "idle" /\ proc'.cmd = cmd /\ clock'.now = clock.now + 1
  BY IdleFields DEF Begin, ClockOK
<1>4. Result => proc'.cmd = proc.cmd
  BY DEF Result, ProcOK
<1> QED BY <1>1, <1>2, <1>3, <1>4

\* A command keeps its moment, and only its own steps take it further.
LEMMA NextMoves ==
  ASSUME TypeOK, [Next]_vars
  PROVE  Moves
<1> USE MoveFields DEF TypeOK, At, Fails, Raises, Moves, Moment
<1>1. ASSUME NEW flag \in BOOLEAN, Generate(flag) PROVE Moves
  BY <1>1 DEF Generate, Generating
<1>2. ASSUME NEW flag \in BOOLEAN, Deploy(flag) PROVE Moves
  BY <1>2 DEF Deploy, Deploying, ClockOK
<1>3. CASE Backup
  BY <1>3 DEF Backup
<1>4. CASE Download
  BY <1>4 DEF Download, Downloading
<1>5. CASE deployment_report
  BY <1>5 DEF deployment_report
<1>6. ASSUME NEW excluded \in Exclusions, Diagnose(excluded) PROVE Moves
  BY <1>6, IdleFields DEF Diagnose, Diagnosing, ClockOK
<1>7. CASE Conflicts
  BY <1>7 DEF Conflicts, Generating, ProcOK
<1>8. CASE CheckUcs
  BY <1>8 DEF CheckUcs, Generating, CheckOutput
<1>9. CASE CheckAs3
  BY <1>9 DEF CheckAs3, Generating, CheckOutput
<1>10. CASE Tar
  BY <1>10 DEF Tar, Generating
<1>11. CASE Encrypt
  BY <1>11 DEF Encrypt, Generating
<1>12. CASE RemovePlain
  BY <1>12 DEF RemovePlain, Generating
<1>13. CASE SaveAs3
  BY <1>13 DEF SaveAs3, Generating
<1>14. CASE save_ucs
  BY <1>14 DEF save_ucs, Deploying, Attempt, ProcOK, AfterBackup, Positions
<1>15. CASE Connect
  BY <1>15 DEF Connect, Deploying, Diagnosing, ProcOK, Positions
<1>16. CASE LogWatcher
  BY <1>16 DEF LogWatcher, Deploying
<1>17. CASE Stat
  BY <1>17 DEF Stat, Deploying, ProcOK
<1>18. CASE Dump
  BY <1>18 DEF Dump, Deploying, ClockOK
<1>19. CASE Upload
  BY <1>19 DEF Upload, Deploying
<1>20. CASE load_ucs
  BY <1>20 DEF load_ucs, Deploying, Attempt, ProcOK
<1>21. CASE Version
  BY <1>21 DEF Version, Downloading
<1>22. CASE SaveArchive
  BY <1>22 DEF SaveArchive, Downloading, Attempt, ProcOK
<1>23. CASE Get
  BY <1>23 DEF Get, Downloading
<1>24. CASE delete_file
  BY <1>24 DEF delete_file, Downloading, Attempt, ProcOK
<1>25. CASE Poll
  BY <1>25 DEF Poll, Diagnosing, ProcOK, Checking
<1>26. CASE LoadOffsets
  BY <1>26 DEF LoadOffsets, Diagnosing, ProcOK, Checking
<1>27. CASE Collect
  BY <1>27 DEF Collect, Diagnosing, ProcOK, Found
<1>28. CASE Cleanup
  BY <1>28 DEF Cleanup, Diagnosing
<1>29. CASE Other
  BY <1>29 DEF Other, Diagnosing, ProcOK, Checking
<1>30. CASE WriteResults
  BY <1>30 DEF WriteResults, Diagnosing
<1>31. CASE ResultsWritten
  BY <1>31 DEF ResultsWritten, Diagnosing
<1>32. CASE WritePointer
  BY <1>32 DEF WritePointer, Diagnosing
<1>33. CASE Kill
  BY <1>33 DEF Kill
<1>34. CASE LogEvent
  BY <1>34 DEF LogEvent, ClockOK
<1>35. CASE UNCHANGED vars
  BY <1>35 DEF vars
<1> QED
  BY <1>1, <1>2, <1>3, <1>4, <1>5, <1>6, <1>7, <1>8, <1>9, <1>10, <1>11, <1>12, <1>13,
     <1>14, <1>15, <1>16, <1>17, <1>18, <1>19, <1>20, <1>21, <1>22, <1>23, <1>24,
     <1>25, <1>26, <1>27, <1>28, <1>29, <1>30, <1>31, <1>32, <1>33, <1>34,
     <1>35 DEF Next, Commands, Step, Steps

LEMMA GoFields ==
  ASSUME ProcOK, NEW pc, Go(pc)
  PROVE  /\ proc'.cmd = proc.cmd /\ proc'.pc = pc /\ proc'.flag = proc.flag
         /\ proc'.as3 = proc.as3 /\ proc'.before = proc.before /\ proc'.marks = proc.marks
         /\ proc'.found = proc.found /\ proc'.ran = proc.ran /\ proc'.n = 1
BY DEF ProcOK, Go

LEMMA RetryFields ==
  ASSUME ProcOK, proc' = [proc EXCEPT !.n = @ + 1]
  PROVE  /\ proc'.cmd = proc.cmd /\ proc'.pc = proc.pc /\ proc'.flag = proc.flag
         /\ proc'.before = proc.before
BY DEF ProcOK

LEMMA BeginFields ==
  ASSUME NEW cmd, NEW pc, NEW flag, Begin(cmd, pc, flag)
  PROVE  /\ proc'.cmd = cmd /\ proc'.pc = pc /\ proc'.flag = flag
         /\ cmd = "deploy" => proc'.before = device.config
         /\ DOMAIN proc'.marks = {}
<1>1. DOMAIN Idle.marks = {}
  BY EmptyPartial DEF IsPartial, Idle
<1> QED BY <1>1, IdleFields DEF Begin

-----------------------------------------------------------------------------
(* The parts of the invariant *)

\* generate, download-ucs and deploy know what their own steps have established.
LEMMA GeneratedStep ==
  ASSUME Inv, [Next]_vars
  PROVE  Generated'
<1> USE GoFields, BeginFields, MoveFields DEF Inv, TypeOK, Generated, At, Fails, Raises
<1>1. CASE proc'.cmd # "generate"
  BY <1>1
<1>2. CASE UNCHANGED <<device, work, proc>>
  BY <1>2
<1>3. ASSUME NEW flag \in BOOLEAN, Generate(flag) PROVE Generated'
  BY <1>3 DEF Generate
<1>4. CASE Conflicts
  <2>1. CASE proc'.pc = "check_ucs"
    BY <2>1
  <2>2. proc'.pc = "check_ucs" \/ proc'.cmd = "idle"
    BY <1>4 DEF Conflicts, ProcOK
  <2> QED BY <1>1, <2>1, <2>2
<1>5. CASE CheckUcs
  <2>1. CASE Go(IF proc.as3 THEN "check_as3" ELSE "tar")
    BY <1>5, <2>1 DEF CheckUcs, CheckOutput, WorkOK
  <2> QED BY <1>1, <1>5, <2>1 DEF CheckUcs, CheckOutput
<1>6. CASE CheckAs3
  BY <1>6 DEF CheckAs3, CheckOutput, WorkOK
<1>7. CASE Tar
  BY <1>7 DEF Tar, WorkOK
<1>8. CASE Encrypt
  BY <1>8 DEF Encrypt, WorkOK
<1>9. CASE RemovePlain
  BY <1>9 DEF RemovePlain, WorkOK
<1>10. CASE SaveAs3
  BY <1>10 DEF SaveAs3
<1> QED
  BY <1>1, <1>2, <1>3, <1>4, <1>5, <1>6, <1>7, <1>8, <1>9, <1>10, NextMoves DEF Moves,
     Generating

LEMMA DeployedStep ==
  ASSUME Inv, [Next]_vars
  PROVE  Deployed'
<1> USE GoFields, BeginFields, MoveFields DEF Inv, TypeOK, Deployed, HasBackup, At, Fails, Raises
<1>1. CASE proc'.cmd # "deploy"
  BY <1>1
<1>2. CASE UNCHANGED <<device, work, proc>> /\ clock'.now = clock.now
  BY <1>2
<1>3. ASSUME NEW flag \in BOOLEAN, Deploy(flag), proc'.cmd = "deploy" PROVE Deployed'
  BY <1>3 DEF Deploy
<1>4. CASE Connect /\ proc'.cmd = "deploy"
  BY <1>4 DEF Connect
<1>5. CASE LogWatcher
  BY <1>5 DEF LogWatcher, WorkOK
<1>6. CASE Stat /\ proc'.cmd = "deploy"
  <2>1. UNCHANGED device /\ UNCHANGED work /\ UNCHANGED clock /\ At("deploy", "stat")
    BY <1>6 DEF Stat
  <2>2. \/ proc'.pc \in {"stat", "dump"}
        \/ proc'.pc = "backup"
        \/ proc'.pc = "upload" /\ ~proc.flag
    BY <1>6 DEF Stat, AfterWatch, ProcOK
  <2>3. proc'.flag = proc.flag /\ proc'.before = proc.before
    BY <1>6 DEF Stat, AfterWatch, ProcOK
  <2> QED BY <2>1, <2>2, <2>3
<1>7. CASE Dump
  BY <1>7 DEF Dump, AfterWatch, WorkOK, ClockOK
<1>8. CASE save_ucs /\ proc'.cmd = "deploy"
  <2> DEFINE saved == Extend(device.backups, clock.now, device.config)
  <2>1. clock.now \in DOMAIN saved /\ saved[clock.now] = device.config
    BY DEF Extend
  <2>2. device' = [device EXCEPT !.backups = saved] \/ device' = device
    BY <1>8 DEF save_ucs, Attempt
  <2>3. UNCHANGED <<work, clock>> /\ proc.pc = "backup"
    BY <1>8 DEF save_ucs
  <2> HIDE DEF saved
  <2>4. \/ device' = [device EXCEPT !.backups = saved] /\ Go("upload")
        \/ proc' = [proc EXCEPT !.n = @ + 1]
    BY <1>8 DEF save_ucs, Attempt, AfterBackup, saved
  <2>5. device'.config = device.config
    BY <2>2 DEF DeviceOK
  <2>6. CASE device' = [device EXCEPT !.backups = saved] /\ Go("upload")
    BY <2>1, <2>3, <2>5, <2>6 DEF DeviceOK
  <2>7. CASE proc' = [proc EXCEPT !.n = @ + 1]
    BY <2>3, <2>5, <2>7, RetryFields
  <2> QED BY <2>4, <2>6, <2>7
<1>9. CASE Upload /\ proc'.cmd = "deploy"
  BY <1>9 DEF Upload, DeviceOK
<1>10. CASE load_ucs /\ proc'.cmd = "deploy"
  <2>1. UNCHANGED work /\ UNCHANGED clock /\ At("deploy", "load")
    BY <1>10 DEF load_ucs
  <2>2. device'.upload = device.upload /\ device'.backups = device.backups
    BY <1>10 DEF load_ucs, Attempt, DeviceOK
  <2>3. proc' = [proc EXCEPT !.n = @ + 1]
    BY <1>10 DEF load_ucs, Attempt
  <2> QED BY <2>1, <2>2, <2>3, RetryFields
<1> QED
  BY <1>1, <1>2, <1>3, <1>4, <1>5, <1>6, <1>7, <1>8, <1>9, <1>10, NextMoves DEF Moves,
     Moment, Deploying

LEMMA DownloadedStep ==
  ASSUME Inv, [Next]_vars
  PROVE  Downloaded'
<1> USE GoFields, BeginFields, MoveFields DEF Inv, TypeOK, Downloaded, At, Fails, Raises
<1>1. CASE proc'.cmd # "download"
  BY <1>1
<1>2. CASE UNCHANGED <<device, work, proc>>
  BY <1>2
<1>3. CASE Download
  BY <1>3, IdleFields DEF Download, Begin
<1>4. CASE Version /\ proc'.cmd = "download"
  BY <1>4 DEF Version
<1>5. CASE SaveArchive /\ proc'.cmd = "download"
  BY <1>5, Now DEF SaveArchive, Attempt, DeviceOK, ProcOK
<1>6. CASE Get /\ proc'.cmd = "download"
  BY <1>6 DEF Get, WorkOK
<1>7. CASE delete_file /\ proc'.cmd = "download"
  BY <1>7 DEF delete_file, Attempt, DeviceOK, ProcOK
<1> QED
  BY <1>1, <1>2, <1>3, <1>4, <1>5, <1>6, <1>7, NextMoves DEF Moves, Downloading

\* Where the steps that more than one command takes lead to.
LEMMA ConnectLeads ==
  ASSUME TypeOK, Connect
  PROVE  \/ proc'.cmd = "idle"
         \/ proc.cmd = "deploy" /\ Go("watch")
         \/ proc.cmd = "diagnose" /\ Go("check")
<1>0. proc.pc = "connect" /\ <<proc.cmd, proc.pc>> \in Positions
  BY DEF TypeOK, ProcOK, Connect
<1>1. proc.cmd \in {"deploy", "diagnose"}
  BY <1>0 DEF Positions
<1> QED BY <1>1, MoveFields DEF TypeOK, Connect, Fails, Raises

LEMMA SaveLeads ==
  ASSUME TypeOK, save_ucs
  PROVE  \/ proc'.cmd = "idle"
         \/ proc.cmd = "deploy" /\ Go("upload")
         \/ proc'.cmd = proc.cmd /\ proc'.pc = "backup"
BY MoveFields, RetryFields DEF TypeOK, save_ucs, Attempt, AfterBackup, Fails

LEMMA StatLeads ==
  ASSUME TypeOK, Stat
  PROVE  proc'.cmd = "idle" \/ proc'.pc \in {"stat", "dump", "backup", "upload"}
<1>1. \/ \E marks : proc' = IF proc.n < Len(LogOrder)
                           THEN [proc EXCEPT !.marks = marks, !.n = @ + 1]
                           ELSE [proc EXCEPT !.marks = marks, !.pc = "dump", !.n = 1]
      \/ Go("backup") \/ Go("upload") \/ End("failed")
  BY DEF Stat, AfterWatch, Raises
<1> QED BY <1>1, GoFields, MoveFields DEF TypeOK, ProcOK, Stat, At

\* Only these steps touch the offsets on disk, and the epoch.
LEMMA Offsets ==
  ASSUME TypeOK, [Next]_vars
  PROVE  work'.offsets = work.offsets \/ LogWatcher \/ Dump \/ Cleanup
<1> USE DEF TypeOK, WorkOK
<1>1. CASE UNCHANGED work
  BY <1>1
<1>2. CASE CheckUcs \/ CheckAs3
  BY <1>2 DEF CheckUcs, CheckAs3, CheckOutput
<1>3. CASE Tar \/ Encrypt \/ RemovePlain \/ SaveAs3
  BY <1>3 DEF Tar, Encrypt, RemovePlain, SaveAs3
<1>4. CASE Get
  BY <1>4 DEF Get
<1>5. CASE WriteResults \/ ResultsWritten \/ WritePointer
  BY <1>5 DEF WriteResults, ResultsWritten, WritePointer
<1> QED BY <1>1, <1>2, <1>3, <1>4, <1>5, WorkFrame

LEMMA Epoch ==
  ASSUME TypeOK, [Next]_vars
  PROVE  clock'.epoch = clock.epoch \/ LogWatcher \/ Dump
<1> USE DEF TypeOK, ClockOK
<1>1. CASE UNCHANGED clock
  BY <1>1
<1>2. ASSUME NEW flag \in BOOLEAN, Generate(flag) \/ Deploy(flag)
      PROVE  clock'.epoch = clock.epoch
  BY <1>2 DEF Generate, Deploy, Begin
<1>3. CASE Backup \/ Download
  BY <1>3 DEF Backup, Download, Begin
<1>4. CASE deployment_report \/ LogEvent
  BY <1>4 DEF deployment_report, LogEvent
<1>5. ASSUME NEW excluded \in Exclusions, Diagnose(excluded) PROVE clock'.epoch = clock.epoch
  BY <1>5 DEF Diagnose
<1> QED BY <1>1, <1>2, <1>3, <1>4, <1>5, ClockFrame

\* What the lines of a log are after a step.
LEMMA Lines ==
  ASSUME TypeOK, [Next]_vars, NEW L \in Logs
  PROVE  \/ logs'[L] = logs[L]
         \/ LogWatcher /\ logs'[L].lines = logs[L].lines
         \/ LogEvent /\ logs'[L].rotated = logs[L].rotated
              /\ logs'[L].lines = Append(logs[L].lines, clock.epoch)
         \/ LogEvent /\ logs'[L].rotated /\ logs'[L].lines = <<>>
<1> USE DEF TypeOK, LogsOK
<1>1. CASE UNCHANGED logs
  BY <1>1
<1>2. CASE LogWatcher
  BY <1>2 DEF LogWatcher
<1>3. CASE LogEvent
  <2> DEFINE New(l) == [there |-> TRUE, rotated |-> logs[l].rotated,
                        lines |-> Append(logs[l].lines, clock.epoch)]
             Emptied(there) == [there |-> there, rotated |-> TRUE, lines |-> <<>>]
  <2>1. PICK l \in Logs : \/ logs' = [logs EXCEPT ![l] = New(l)]
                          \/ \E there \in BOOLEAN : logs' = [logs EXCEPT ![l] = Emptied(there)]
    BY <1>3 DEF LogEvent
  <2>2. L # l => logs'[L] = logs[L]
    BY <2>1
  <2>3. logs'[l] = New(l) \/ \E there \in BOOLEAN : logs'[l] = Emptied(there)
    BY <2>1
  <2> HIDE DEF New
  <2>4. CASE L = l /\ logs'[l] = New(l)
    BY <1>3, <2>4 DEF New
  <2>5. CASE L = l /\ \E there \in BOOLEAN : logs'[l] = Emptied(there)
    BY <1>3, <2>5
  <2> QED BY <1>3, <2>2, <2>3, <2>4, <2>5
<1> QED BY <1>1, <1>2, <1>3, LogsFrame

\* No line is from the future.
LEMMA LinesStep ==
  ASSUME Inv, [Next]_vars
  PROVE  \A L \in Logs : \A i \in 1..Len(logs'[L].lines) : logs'[L].lines[i] <= clock'.epoch
<1> USE DEF Inv
<1>1. clock'.epoch >= clock.epoch
  BY Epoch DEF TypeOK, ClockOK, LogWatcher, Dump
<1> SUFFICES ASSUME NEW L \in Logs, NEW i \in 1..Len(logs'[L].lines)
             PROVE  logs'[L].lines[i] <= clock'.epoch
  OBVIOUS
<1>2. logs[L].lines \in Seq(Nat) /\ clock.epoch \in Nat /\ clock'.epoch \in Nat
  BY ClockStep DEF TypeOK, LogsOK, ClockOK
<1>3. CASE logs'[L].lines = logs[L].lines
  BY <1>1, <1>2, <1>3 DEF Watched
<1>4. CASE logs'[L].lines = Append(logs[L].lines, clock.epoch)
  <2>1. \A j \in 1..Len(logs[L].lines) : logs[L].lines[j] <= clock.epoch
    BY DEF Watched
  <2> HIDE DEF Inv
  <2> DEFINE lines == logs[L].lines
  <2>2. Len(lines) \in Nat /\ Len(logs'[L].lines) = Len(lines) + 1
    BY <1>2, <1>4
  <2>3. logs'[L].lines[i] = IF i = Len(lines) + 1 THEN clock.epoch ELSE lines[i]
    BY <1>2, <1>4, <2>2
  <2> QED BY <1>1, <1>2, <2>1, <2>2, <2>3
<1>5. CASE logs'[L].lines = <<>>
  BY <1>5
<1> QED BY <1>3, <1>4, <1>5, Lines DEF Watched

\* A mark goes on to split its log, whatever is appended to it.
LEMMA SplitsStep ==
  ASSUME TypeOK, [Next]_vars, ~LogWatcher, NEW L \in Logs, NEW mark \in Nat,
         NEW before \in Nat, NEW since \in Nat, since <= clock.epoch,
         Splits(logs[L], mark, before, since)
  PROVE  Splits(logs'[L], mark, before, since)
<1> DEFINE lines == logs[L].lines
           next == logs'[L].lines
<1>1. lines \in Seq(Nat) /\ clock.epoch \in Nat
  BY DEF TypeOK, LogsOK, ClockOK
<1>2. CASE logs'[L] = logs[L]
  BY <1>2
<1>3. CASE logs'[L].rotated = logs[L].rotated /\ next = Append(lines, clock.epoch)
  <2>1. Len(next) = Len(lines) + 1 /\ next[Len(lines) + 1] = clock.epoch
    BY <1>1, <1>3
  <2>2. \A i \in 1..Len(lines) : next[i] = lines[i]
    BY <1>1, <1>3
  <2>3. Len(lines) \in Nat
    BY <1>1
  <2> QED BY <1>3, <2>1, <2>2, <2>3 DEF Splits
<1>4. CASE logs'[L].rotated
  BY <1>4 DEF Splits
<1> QED BY <1>2, <1>3, <1>4, Lines

\* Marks are taken at the end of a log and used until the next deployment.
LEMMA WatchedStep ==
  ASSUME Inv, [Next]_vars
  PROVE  Watched'
<1> USE DEF Inv, TypeOK, At, Fails, Raises
<1>0. ProcOK' /\ LogsOK' /\ clock.epoch \in Nat /\ ClockOK'
  BY ProcStep, LogsStep, ClockStep DEF ClockOK
<1>1. (\A L \in Logs : \A i \in 1..Len(logs[L].lines) : logs[L].lines[i] <= clock.epoch)'
  BY LinesStep
<1>2. ASSUME proc'.cmd = "deploy", proc'.pc \in {"connect", "watch"}
      PROVE  DOMAIN proc'.marks = {}
  <2> USE <1>2, GoFields, BeginFields, MoveFields DEF Watched
  <2>1. ASSUME NEW flag \in BOOLEAN, Deploy(flag) PROVE DOMAIN proc'.marks = {}
    BY <2>1 DEF Deploy
  <2>2. CASE Connect
    BY <2>2, ConnectLeads DEF Connect
  <2>3. CASE LogWatcher
    BY <2>3 DEF LogWatcher
  <2>4. CASE Stat
    BY <2>4, StatLeads
  <2>5. CASE Dump
    BY <2>5 DEF Dump, AfterWatch
  <2>6. CASE save_ucs
    BY <2>6, SaveLeads
  <2>7. CASE Upload
    BY <2>7 DEF Upload
  <2>8. CASE load_ucs
    BY <2>8, RetryFields DEF load_ucs, Attempt
  <2> QED BY <2>1, <2>2, <2>3, <2>4, <2>5, <2>6, <2>7, <2>8, NextMoves DEF Moves,
     Deploying
<1>3. ASSUME proc'.cmd = "deploy", proc'.pc \in {"stat", "dump", "dumped"}
      PROVE  LogWatcher \/ Stat \/ Dump \/ UNCHANGED <<device, work, proc>>
  <2> USE <1>3, GoFields, BeginFields, MoveFields DEF Watched
  <2>1. ASSUME NEW flag \in BOOLEAN, Deploy(flag)
        PROVE  UNCHANGED <<device, work, proc>>
    BY <2>1 DEF Deploy
  <2>2. ~Connect
    BY ConnectLeads
  <2>6. ~save_ucs
    BY SaveLeads
  <2>7. ~Upload
    BY DEF Upload
  <2>8. ~load_ucs
    BY RetryFields DEF load_ucs, Attempt
  <2> QED BY <2>1, <2>2, <2>6, <2>7, <2>8, NextMoves DEF Moves, Deploying
<1>4. ASSUME proc'.pc = "collect"
      PROVE  ((LoadOffsets \/ Collect) /\ proc.cmd = "diagnose") \/ UNCHANGED <<work, proc>>
  <2> USE <1>4, GoFields, BeginFields, MoveFields
  <2>1. proc'.cmd = "diagnose"
    BY <1>0, <1>4 DEF ProcOK, Positions
  <2>2. ASSUME NEW excluded \in Exclusions PROVE ~Diagnose(excluded)
    BY IdleFields DEF Diagnose
  <2>3. ~Connect
    BY <2>1, ConnectLeads
  <2>4. ASSUME Result PROVE FALSE
    BY <2>4 DEF Result, ProcOK
  <2>5. ~Poll
    BY <2>1, <2>4 DEF Poll, ProcOK, Checking
  <2>6. ~Cleanup /\ ~Other
    BY <2>1, <2>4 DEF Cleanup, Other
  <2>7. ~WriteResults /\ ~ResultsWritten /\ ~WritePointer
    BY <2>1 DEF WriteResults, ResultsWritten, WritePointer
  <2>8. LoadOffsets \/ Collect => proc.cmd = "diagnose"
    BY DEF LoadOffsets, Collect, Checking
  <2> QED BY <2>1, <2>2, <2>3, <2>5, <2>6, <2>7, <2>8, NextMoves DEF Moves, Diagnosing
<1>5. ASSUME proc'.cmd = "deploy", proc'.pc \in {"stat", "dump", "dumped"},
             NEW L \in DOMAIN proc'.marks
      PROVE  Splits(logs'[L], proc'.marks[L], clock'.epoch, clock'.epoch)
  <2> USE <1>5, GoFields, MoveFields
  <2>1. CASE LogWatcher
    BY <2>1 DEF LogWatcher, Watched
  <2>2. CASE Stat
    <3> DEFINE K == LogOrder[proc.n]
    <3>1. K \in Logs
      BY <2>2, LogAt DEF Stat
    <3>2. UNCHANGED logs /\ UNCHANGED clock
      BY <2>2 DEF Stat
    <3>3. proc'.marks = proc.marks \/ proc'.marks = Extend(proc.marks, K, Len(logs[K].lines))
      BY <2>2 DEF Stat, AfterWatch, ProcOK
    <3>4. Splits(logs[K], Len(logs[K].lines), clock.epoch, clock.epoch)
      BY <3>1 DEF Splits, Watched, LogsOK
    <3>5. \A M \in DOMAIN proc.marks : Splits(logs[M], proc.marks[M], clock.epoch, clock.epoch)
      BY <2>2 DEF Stat, Watched
    <3> HIDE DEF K
    <3> QED BY <3>2, <3>3, <3>4, <3>5 DEF Extend
  <2>3. CASE Dump
    BY <2>3 DEF Dump, AfterWatch, Watched
  <2>4. CASE ~LogWatcher /\ ~Dump /\ UNCHANGED proc
    <3>1. L \in Logs /\ proc.marks[L] \in Nat
      BY <2>4 DEF ProcOK, IsPartial
    <3>2. Splits(logs[L], proc.marks[L], clock.epoch, clock.epoch)
      BY <2>4 DEF Watched
    <3>3. Splits(logs'[L], proc.marks[L], clock.epoch, clock.epoch)
      BY <2>4, <3>1, <3>2, <1>0, SplitsStep
    <3> QED BY <2>4, <3>3, Epoch
  <2> QED BY <1>3, <2>1, <2>2, <2>3, <2>4
<1>6. ASSUME work'.offsets \notin {None, Partial}
      PROVE  /\ clock'.epoch > 0
             /\ \A L \in DOMAIN work'.offsets :
                  Splits(logs'[L], work'.offsets[L], clock'.epoch - 1, clock'.epoch - 1)
  <2>1. CASE LogWatcher \/ Cleanup
    BY <1>6, <2>1 DEF LogWatcher, Cleanup, WorkOK
  <2>2. CASE Dump
    <3>1. /\ At("deploy", "dumped") /\ work' = [work EXCEPT !.offsets = proc.marks]
          /\ clock' = [clock EXCEPT !.epoch = @ + 1] /\ UNCHANGED logs
      BY <1>6, <2>2 DEF Dump, WorkOK
    <3>2. work'.offsets = proc.marks /\ clock'.epoch = clock.epoch + 1
      BY <3>1 DEF WorkOK, ClockOK
    <3>3. clock'.epoch - 1 = clock.epoch /\ clock'.epoch > 0
      BY <1>0, <3>2
    <3> QED BY <3>1, <3>2, <3>3 DEF Watched
  <2>3. CASE ~LogWatcher /\ ~Dump /\ work'.offsets = work.offsets
    <3>1. clock.epoch > 0 /\ clock'.epoch = clock.epoch
      BY <1>6, <2>3, Epoch DEF Watched
    <3>2. SUFFICES ASSUME NEW L \in DOMAIN work.offsets
                   PROVE  Splits(logs'[L], work.offsets[L], clock.epoch - 1, clock.epoch - 1)
      BY <2>3, <3>1
    <3>3. L \in Logs /\ work.offsets[L] \in Nat
      BY <1>6, <2>3 DEF WorkOK, IsPartial
    <3>4. clock.epoch - 1 \in Nat /\ clock.epoch - 1 <= clock.epoch
      BY <1>0, <3>1
    <3>5. Splits(logs[L], work.offsets[L], clock.epoch - 1, clock.epoch - 1)
      BY <1>6, <2>3 DEF Watched
    <3> QED BY <2>3, <3>3, <3>4, <3>5, SplitsStep
  <2> QED BY <2>1, <2>2, <2>3, Offsets
<1>7. ASSUME proc'.pc = "collect"
      PROVE  proc'.marks = work'.offsets /\ work'.offsets \notin {None, Partial}
  <2>1. CASE LoadOffsets
    <3>1. ~Result /\ ~Raises
      BY <1>7, MoveFields, IdleFields DEF Result, End, ProcOK
    <3> QED BY <2>1, <3>1 DEF LoadOffsets, ProcOK
  <2>2. CASE Collect
    <3>1. ~Fails
      BY <1>7, IdleFields DEF End
    <3>2. UNCHANGED work /\ proc'.marks = proc.marks
      BY <2>2, <3>1 DEF Collect, Found, ProcOK
    <3> QED BY <2>2, <3>2 DEF Collect, Watched
  <2>3. CASE UNCHANGED <<work, proc>>
    BY <1>7, <2>3 DEF Watched
  <2> QED BY <1>4, <1>7, <2>1, <2>2, <2>3
<1>8. ASSUME proc'.pc \in {"stat", "collect"}
      PROVE  proc'.n <= Len(LogOrder)
  <2> USE DeployAssumption
  <2>1. 1 <= Len(LogOrder)
    OBVIOUS
  <2>2. CASE LogWatcher \/ Dump \/ LoadOffsets
    BY <1>8, <2>1, <2>2, GoFields, IdleFields DEF LogWatcher, Dump, LoadOffsets,
       AfterWatch, End, Result, ProcOK
  <2>0. Len(LogOrder) \in Nat
    OBVIOUS
  <2>3. CASE Stat \/ Collect
    <3>1. \/ proc.n < Len(LogOrder) /\ proc'.n = proc.n + 1
          \/ proc'.n = 1 \/ proc'.pc \notin {"stat", "collect"}
      <4>1. CASE Stat
        BY <4>1, GoFields, IdleFields DEF Stat, AfterWatch, End, ProcOK
      <4>2. CASE Collect
        BY <4>2, GoFields, IdleFields DEF Collect, Found, End, ProcOK
      <4> QED BY <2>3, <4>1, <4>2
    <3> QED BY <1>8, <2>0, <2>1, <3>1 DEF ProcOK
  <2>4. CASE UNCHANGED proc
    BY <1>8, <2>4 DEF Watched
  <2>5. proc'.pc = "stat" => proc'.cmd = "deploy"
    BY <1>0 DEF ProcOK, Positions
  <2> QED BY <1>3, <1>4, <1>8, <2>2, <2>3, <2>4, <2>5
<1> QED BY <1>1, <1>2, <1>5, <1>6, <1>7, <1>8 DEF Watched

\* What a step may do to the results and to the name of the last of them.
LEMMA Results ==
  ASSUME TypeOK, [Next]_vars
  PROVE  \/ work'.results = work.results /\ work'.last = work.last
         \/ WriteResults \/ ResultsWritten \/ WritePointer
<1> USE DEF TypeOK, WorkOK
<1>1. CASE UNCHANGED work
  BY <1>1
<1>2. CASE CheckUcs \/ CheckAs3
  BY <1>2 DEF CheckUcs, CheckAs3, CheckOutput
<1>3. CASE Tar \/ Encrypt \/ RemovePlain \/ SaveAs3
  BY <1>3 DEF Tar, Encrypt, RemovePlain, SaveAs3
<1>4. CASE Get
  BY <1>4 DEF Get
<1>5. CASE LogWatcher \/ Dump \/ Cleanup
  BY <1>5 DEF LogWatcher, Dump, Cleanup
<1> QED BY <1>1, <1>2, <1>3, <1>4, <1>5, WorkFrame

\* A command writes to the results of its own moment, which is not the last named.
LEMMA ReportedStep ==
  ASSUME Inv, [Next]_vars
  PROVE  Reported'
<1> USE DEF Inv, TypeOK, At
<1>1. clock.now \in Nat /\ clock'.now \in Nat
  BY ClockStep, DeployAssumption DEF ClockOK
<1>2. CASE WriteResults
  <2>1. /\ clock' = clock /\ proc.cmd = "diagnose"
        /\ proc'.cmd = "diagnose" /\ proc'.pc \in {"point", "results"}
    BY <1>2, GoFields DEF WriteResults
  <2> DEFINE file == IF proc.ran = {} THEN NoChecks ELSE Partial
  <2>2. work'.results = Extend(work.results, clock.now, file) /\ work'.last = work.last
    BY <1>2 DEF WriteResults, WorkOK
  <2>3. proc'.pc = "point" => file # Partial
    BY <1>2, GoFields, DiagnoseAssumption DEF WriteResults, NoChecks
  <2> HIDE DEF file
  <2>4. work.last \notin {None, Partial} => work.last \in Nat /\ work.last < clock.now
    BY <2>1 DEF Reported, WorkOK, Times
  <2> QED BY <1>1, <2>1, <2>2, <2>3, <2>4 DEF Reported, Extend
<1>3. CASE ResultsWritten
  <2>1. clock' = clock /\ proc.cmd = "diagnose" /\ proc'.cmd = "diagnose"
    BY <1>3, GoFields DEF ResultsWritten
  <2>2. /\ work'.results = [work.results EXCEPT ![clock.now] = proc.ran]
        /\ work'.last = work.last
    BY <1>3 DEF ResultsWritten, WorkOK
  <2>3. proc.ran # Partial
    BY DiagnoseAssumption DEF ProcOK
  <2> QED BY <1>1, <1>3, <2>1, <2>2, <2>3 DEF Reported, ResultsWritten
<1>4. CASE WritePointer
  <2>1. clock' = clock /\ work'.results = work.results
    BY <1>4 DEF WritePointer, WorkOK
  <2>2. CASE work'.last = Partial /\ At("diagnose", "point") /\ Go("pointed")
    BY <1>1, <2>1, <2>2, GoFields DEF Reported
  <2>3. CASE work'.last = clock.now /\ At("diagnose", "pointed") /\ End("diagnosed")
    BY <1>1, <2>1, <2>3, MoveFields DEF Reported
  <2> QED BY <1>4, <2>2, <2>3 DEF WritePointer, WorkOK
<1>5. CASE work'.results = work.results /\ work'.last = work.last
            /\ ~WriteResults /\ ~ResultsWritten /\ ~WritePointer
  <2>1. proc'.cmd = "diagnose" /\ proc'.pc \in {"results", "point", "pointed"} =>
          UNCHANGED proc
    <3> SUFFICES ASSUME proc'.cmd = "diagnose", proc'.pc \in {"results", "point", "pointed"}
                 PROVE  UNCHANGED proc
      OBVIOUS
    <3> USE GoFields, MoveFields DEF Fails, Raises
    <3>1. ASSUME NEW excluded \in Exclusions PROVE ~Diagnose(excluded)
      BY IdleFields DEF Diagnose
    <3>2. ~Connect
      BY ConnectLeads
    <3>3. ~Result
      BY DEF Result, ProcOK
    <3>4. ~Poll
      BY <3>3 DEF Poll, ProcOK, Checking
    <3>5. ~LoadOffsets
      BY <3>3 DEF LoadOffsets, ProcOK
    <3>6. ~Collect
      BY DEF Collect, Found, ProcOK
    <3>7. ~Cleanup /\ ~Other
      BY <3>3 DEF Cleanup, Other
    <3> QED BY <1>5, <3>1, <3>2, <3>4, <3>5, <3>6, <3>7, NextMoves DEF Moves, Diagnosing
  <2>2. work.last \notin {None, Partial} => work.last \in Nat
    BY DEF WorkOK, Times
  <2> QED BY <1>1, <1>5, <2>1, <2>2, NextMoves DEF Moves, Moment, Reported
<1> QED BY <1>2, <1>3, <1>4, <1>5, Results
-----------------------------------------------------------------------------
(* What follows *)

\* The lines a log may begin with.
LEMMA FirstLines ==
  ASSUME NEW lines \in {<<>>, << 0 >>}
  PROVE  lines \in Seq(Nat) /\ \A i \in 1..Len(lines) : lines[i] <= 0
<1>1. CASE lines = <<>>
  BY <1>1
<1>2. CASE lines = <<0>>
  BY <1>2
<1> QED BY <1>1, <1>2

LEMMA InitInv == Init => Inv
<1> SUFFICES ASSUME Init PROVE Inv
  OBVIOUS
<1> USE DeployAssumption DEF Init
<1>1. proc = Idle /\ DOMAIN proc.marks = {}
  BY EmptyPartial DEF IsPartial, Idle
<1>2. <<"idle", "">> \in Positions
  BY DEF Positions
<1>3. ProcOK
  BY <1>1, <1>2, IdleFields DEF ProcOK
<1>4. DeviceOK
  <2>1. IsPartial(device.backups, Times, Loaded)
    BY EmptyPartial
  <2> QED BY <2>1 DEF DeviceOK, Loaded, Content
<1>5. \A L \in Logs : /\ logs[L].lines \in Seq(Nat) /\ logs[L].rotated = FALSE
                      /\ \A i \in 1..Len(logs[L].lines) : logs[L].lines[i] <= 0
  <2>1. PICK there \in [Logs -> BOOLEAN] :
          logs = [L \in Logs |-> [there |-> there[L], rotated |-> FALSE,
                                  lines |-> IF there[L] THEN <<0>> ELSE <<>>]]
    OBVIOUS
  <2>2. \A L \in Logs : /\ logs[L].lines = <<>> \/ logs[L].lines = <<0>>
                        /\ logs[L].rotated = FALSE
    BY <2>1
  <2>3. ASSUME NEW L \in Logs
        PROVE  /\ logs[L].lines \in Seq(Nat)
               /\ \A i \in 1..Len(logs[L].lines) : logs[L].lines[i] <= 0
    <3>1. logs[L].lines \in {<<>>, <<0>>}
      BY <2>2
    <3> QED BY <3>1, FirstLines
  <2> QED BY <2>2, <2>3
<1>6. LogsOK
  <2>1. PICK there \in [Logs -> BOOLEAN] :
          logs = [L \in Logs |-> [there |-> there[L], rotated |-> FALSE,
                                  lines |-> IF there[L] THEN <<0>> ELSE <<>>]]
    OBVIOUS
  <2>2. \A L \in Logs : (IF there[L] THEN <<0>> ELSE <<>>) \in Seq(Nat)
    OBVIOUS
  <2> QED BY <2>1, <2>2 DEF LogsOK
<1>7. WorkOK
  <2>1. IsPartial(work.results, Times, {Partial} \cup SUBSET Range(Checks))
    BY EmptyPartial
  <2> QED BY <2>1 DEF WorkOK, Content
<1>8. ClockOK
  BY DEF ClockOK
<1>9. proc.cmd = "idle" /\ proc.pc = ""
  BY <1>1, IdleFields
<1>10. Generated /\ Deployed /\ Downloaded
  BY <1>9 DEF Generated, Deployed, Downloaded
<1>11. Watched
  <2>1. work.offsets = None /\ clock.epoch = 0
    OBVIOUS
  <2> QED BY <1>5, <1>9, <2>1 DEF Watched
<1>12. Reported
  <2>1. work.last = None
    OBVIOUS
  <2> QED BY <1>9, <2>1 DEF Reported
<1> QED BY <1>3, <1>4, <1>6, <1>7, <1>8, <1>10, <1>11, <1>12 DEF Inv, TypeOK

LEMMA NextInv == ASSUME Inv, [Next]_vars PROVE Inv'
BY Types, GeneratedStep, DeployedStep, DownloadedStep, WatchedStep, ReportedStep DEF Inv

\* At each step, a command of Deploy or Diagnose has what the code relies on there.
THEOREM PreparedSteps == Spec => []Inv
BY InitInv, NextInv, PTL DEF Spec

\* Device, logs, disk, process and clock keep their types, whatever is killed.
THEOREM DeployTypeCorrect == Spec => []TypeOK
<1>1. Inv => TypeOK
  BY DEF Inv
<1> QED BY <1>1, PreparedSteps, PTL

\* deploy loads nothing before the backup it makes holds what the device had.
THEOREM BackupFirst == Spec => []BackedUp
<1>1. Inv => BackedUp
  BY DEF Inv, Deployed, HasBackup, BackedUp
<1> QED BY <1>1, PreparedSteps, PTL

\* The results that deployment-report is led to are whole.
THEOREM ResultsWhole == Spec => []LastIsComplete
<1>1. Inv => LastIsComplete
  BY DEF Inv, Reported, LastIsComplete
<1> QED BY <1>1, PreparedSteps, PTL

\* download-ucs deletes the archive on the device only once it is on disk.
THEOREM CopyNeverLost == Spec => OneCopyLeft
<1>1. ASSUME Inv, [Next]_vars, device.archive # None, device'.archive = None
      PROVE  work.archive = device.archive
  <2> USE <1>1 DEF Inv, TypeOK, DeviceOK
  <2>1. CASE delete_file
    BY <2>1 DEF delete_file, At, Downloaded
  <2>2. CASE save_ucs \/ load_ucs
    BY <2>2 DEF save_ucs, load_ucs, Attempt
  <2>3. CASE Upload
    BY <2>3 DEF Upload
  <2>4. CASE SaveArchive
    BY <2>4, DeployAssumption DEF SaveArchive, Attempt, ClockOK
  <2> QED BY <2>1, <2>2, <2>3, <2>4, DeviceFrame
<1>2. Inv /\ [Next]_vars =>
        [device.archive # None /\ device'.archive = None => work.archive = device.archive]_device
  BY <1>1
<1> QED BY <1>2, PreparedSteps, PTL DEF Spec, OneCopyLeft

\* generate without --overwrite changes no output that exists.
THEOREM OutputsKept == Spec => NothingOverwritten
<1>1. ASSUME Inv, [Next]_vars, proc.cmd = "generate", ~proc.flag, NEW file \in {"ucs", "as3"},
             work'[file] # work[file]
      PROVE  work[file] = None
  <2> USE <1>1 DEF Inv, TypeOK, At, WorkOK
  <2>1. CASE CheckUcs \/ CheckAs3
    BY <2>1 DEF CheckUcs, CheckAs3, CheckOutput
  <2>2. CASE Tar \/ RemovePlain
    BY <2>2 DEF Tar, RemovePlain
  <2>3. CASE Encrypt
    BY <2>3 DEF Encrypt, Generated
  <2>4. CASE SaveAs3
    BY <2>4 DEF SaveAs3, Generated
  <2> QED BY <2>1, <2>2, <2>3, <2>4, WorkFrame
          DEF LogWatcher, Dump, Get, Cleanup, WriteResults, ResultsWritten, WritePointer
<1>2. Inv /\ [Next]_vars =>
        [proc.cmd = "generate" /\ ~proc.flag =>
           \A file \in {"ucs", "as3"} : work'[file] # work[file] => work[file] = None]_work
  BY <1>1
<1> QED BY <1>2, PreparedSteps, PTL DEF Spec, NothingOverwritten

\* The steps that report success.
LEMMA SaidFrame ==
  [Next]_vars => \/ UNCHANGED said \/ said' \notin {"deployed", "generated", "downloaded"}
                 \/ SaveAs3 \/ load_ucs \/ delete_file
BY DEF Next, Commands, Step, Steps, vars, Begin, Go, End, Fails, Raises, Result,
   Found, Attempt,
     AfterBackup, AfterWatch, Generate, Deploy, Backup,
     Download, deployment_report, Diagnose, Conflicts, CheckUcs, CheckAs3, CheckOutput, Tar,
     Encrypt, RemovePlain, save_ucs, Connect, LogWatcher, Stat, Dump, Upload, Version,
     SaveArchive, Get, Poll, LoadOffsets, Collect, Cleanup, Other, WriteResults,
     ResultsWritten, WritePointer, Kill, LogEvent

\* What deploy, generate and download-ucs report as done has been done.
THEOREM SuccessSound == Spec => SuccessIsTrue
<1>1. ASSUME Inv, [Next]_vars, said' # said
      PROVE  /\ said' = "deployed" => device'.config \in Configs /\ device'.config = work.ucs
             /\ said' = "generated" => /\ work'.ucs \in Configs /\ ~work'.plain
                                       /\ proc.as3 => work'.as3 \in Configs
             /\ said' = "downloaded" => work'.archive \notin {None, Partial}
  <2> USE <1>1 DEF Inv, TypeOK, At, Fails, Raises, End
  <2>1. CASE said' \notin {"deployed", "generated", "downloaded"}
    BY <2>1
  <2>2. CASE SaveAs3
    BY <2>2, DeployAssumption DEF SaveAs3, Generated, WorkOK
  <2>3. CASE load_ucs
    <3>1. CASE said' = "deployed"
      <4>1. \E c \in {device.upload} \ {Partial} : device' = [device EXCEPT !.config = c]
        BY <2>3, <3>1 DEF load_ucs, Attempt
      <4>2. device'.config = device.upload /\ device.upload # Partial
        BY <4>1 DEF DeviceOK
      <4>3. device.upload = work.ucs /\ work.ucs # None
        BY <2>3 DEF load_ucs, Deployed
      <4> QED BY <3>1, <4>2, <4>3 DEF WorkOK, Content
    <3>2. said' \in {"deployed", "failed"}
      BY <2>3 DEF load_ucs, Attempt
    <3> QED BY <3>1, <3>2
  <2>4. CASE delete_file
    <3>1. said' \in {"downloaded", "failed"}
      BY <2>4 DEF delete_file, Attempt
    <3>2. UNCHANGED work /\ work.archive \in Times
      BY <2>4 DEF delete_file, Downloaded
    <3> QED BY <3>1, <3>2, DeployAssumption DEF Times
  <2> QED BY <2>1, <2>2, <2>3, <2>4, SaidFrame
<1>2. Inv /\ [Next]_vars =>
        [ /\ said' = "deployed" => device'.config \in Configs /\ device'.config = work.ucs
          /\ said' = "generated" => /\ work'.ucs \in Configs /\ ~work'.plain
                                    /\ proc.as3 => work'.as3 \in Configs
          /\ said' = "downloaded" => work'.archive \notin {None, Partial}]_said
  BY <1>1
<1> QED BY <1>2, PreparedSteps, PTL DEF Spec, SuccessIsTrue

\* Nothing but Collect adds findings.
LEMMA FoundSteps ==
  ASSUME ProcOK
  PROVE  /\ \A pc : Go(pc) => proc'.found = proc.found
         /\ \A how : End(how) => DOMAIN proc'.found = {}
         /\ \A cmd, pc, flag : Begin(cmd, pc, flag) => DOMAIN proc'.found = {}
         /\ Result => proc'.found = proc.found
         /\ proc' = [proc EXCEPT !.n = @ + 1] => proc'.found = proc.found
<1>0. DOMAIN Idle.found = {}
  BY EmptyPartial DEF IsPartial, Idle
<1>1. \A pc : Go(pc) => proc'.found = proc.found
  BY GoFields
<1>2. \A how : End(how) => DOMAIN proc'.found = {}
  BY <1>0 DEF End
<1>3. \A cmd, pc, flag : Begin(cmd, pc, flag) => DOMAIN proc'.found = {}
  BY <1>0, IdleFields DEF Begin
<1>4. Result => proc'.found = proc.found
  BY DEF Result, ProcOK
<1> QED BY <1>1, <1>2, <1>3, <1>4 DEF ProcOK

LEMMA FoundFrame ==
  ASSUME TypeOK, [Next]_vars
  PROVE  Collect \/ DOMAIN proc'.found = {} \/ proc'.found = proc.found
<1> USE FoundSteps DEF TypeOK, Fails, Raises
<1>1. ASSUME NEW flag \in BOOLEAN, Generate(flag) \/ Deploy(flag)
      PROVE  DOMAIN proc'.found = {} \/ proc'.found = proc.found
  BY <1>1 DEF Generate, Deploy
<1>2. CASE Backup \/ Download \/ deployment_report
  BY <1>2 DEF Backup, Download, deployment_report
<1>3. ASSUME NEW excluded \in Exclusions, Diagnose(excluded) PROVE DOMAIN proc'.found = {}
  <2>1. DOMAIN Idle.found = {}
    BY EmptyPartial DEF IsPartial, Idle
  <2> QED BY <1>3, <2>1, IdleFields DEF Diagnose
<1>4. CASE Conflicts \/ CheckUcs \/ CheckAs3 \/ Tar \/ Encrypt \/ RemovePlain \/ SaveAs3
  BY <1>4 DEF Conflicts, CheckUcs, CheckAs3, CheckOutput, Tar, Encrypt, RemovePlain,
     SaveAs3, ProcOK
<1>5. CASE save_ucs \/ load_ucs \/ SaveArchive \/ delete_file
  BY <1>5 DEF save_ucs, load_ucs, SaveArchive, delete_file, Attempt, AfterBackup
<1>6. CASE Connect \/ LogWatcher \/ Dump \/ Upload
  BY <1>6 DEF Connect, LogWatcher, Dump, Upload
<1>7. CASE Stat
  BY <1>7 DEF Stat, ProcOK
<1>8. CASE Version \/ Get \/ Kill
  BY <1>8 DEF Version, Get, Kill
<1>9. CASE Poll
  BY <1>9 DEF Poll, ProcOK
<1>10. CASE LoadOffsets
  BY <1>10 DEF LoadOffsets, ProcOK
<1>11. CASE Cleanup \/ Other \/ WriteResults \/ ResultsWritten \/ WritePointer
  BY <1>11 DEF Cleanup, Other, WriteResults, ResultsWritten, WritePointer
<1>12. CASE LogEvent \/ UNCHANGED vars
  BY <1>12 DEF LogEvent, vars
<1> QED
  BY <1>1, <1>2, <1>3, <1>4, <1>5, <1>6, <1>7, <1>8, <1>9, <1>10, <1>11, <1>12
     DEF Next, Commands, Step, Steps

\* What is behind an offset.
LEMMA Behind ==
  ASSUME NEW log \in [there : BOOLEAN, rotated : BOOLEAN, lines : Seq(Nat)], ~log.rotated,
         NEW mark \in Nat, NEW epoch \in Nat \ {0}, Splits(log, mark, epoch - 1, epoch - 1)
  PROVE  LET behind == SubSeq(log.lines, mark + 1, Len(log.lines)) IN
         /\ {e \in Range(log.lines) : e = epoch} \subseteq Range(behind)
         /\ \A e \in Range(behind) : e >= epoch - 1
<1> DEFINE lines == log.lines
           behind == SubSeq(lines, mark + 1, Len(lines))
<1>1. lines \in Seq(Nat) /\ Len(lines) \in Nat /\ DOMAIN lines = 1..Len(lines)
  OBVIOUS
<1>2. mark <= Len(lines)
  BY DEF Splits
<1>3. Len(behind) = Len(lines) - mark /\ DOMAIN behind = 1..(Len(lines) - mark)
  BY <1>1, <1>2
<1>4. \A i \in 1..(Len(lines) - mark) : behind[i] = lines[mark + i]
  BY <1>1, <1>2
<1>5. ASSUME NEW i \in 1..Len(lines), lines[i] = epoch PROVE epoch \in Range(behind)
  <2>1. ~(i \in 1..mark)
    BY <1>5 DEF Splits
  <2>2. i - mark \in 1..(Len(lines) - mark) /\ mark + (i - mark) = i
    BY <1>1, <1>2, <2>1
  <2>3. behind[i - mark] = epoch
    BY <1>4, <1>5, <2>2
  <2> QED BY <1>3, <2>2, <2>3 DEF Range
<1>6. ASSUME NEW i \in 1..(Len(lines) - mark) PROVE behind[i] >= epoch - 1
  <2>1. mark + i \in mark + 1..Len(lines)
    BY <1>1, <1>2
  <2> QED BY <1>4, <2>1 DEF Splits
<1> HIDE DEF behind
<1>7. {e \in Range(lines) : e = epoch} \subseteq Range(behind)
  BY <1>1, <1>5 DEF Range
<1>8. \A e \in Range(behind) : e >= epoch - 1
  BY <1>3, <1>6 DEF Range
<1> QED BY <1>7, <1>8 DEF behind

\* The log watcher finds all that came since its offsets and nothing from before.
THEOREM FindingsExact == Spec => LogFindings
<1> DEFINE Findings(L) ==
      logs[L].there /\ ~logs[L].rotated =>
         LET since == clock.epoch
             lines == Range(logs[L].lines)
         IN {e \in lines : e = since} \subseteq Range(proc'.found[L])
            /\ \A e \in Range(proc'.found[L]) : e >= since - 1
<1>1. ASSUME Inv, [Next]_vars, NEW L \in DOMAIN proc'.found \ DOMAIN proc.found
      PROVE  Findings(L)
  <2> SUFFICES ASSUME logs[L].there, ~logs[L].rotated
               PROVE  /\ {e \in Range(logs[L].lines) : e = clock.epoch}
                           \subseteq Range(proc'.found[L])
                      /\ \A e \in Range(proc'.found[L]) : e >= clock.epoch - 1
    OBVIOUS
  <2> USE <1>1 DEF Inv, TypeOK
  <2> DEFINE K == LogOrder[proc.n]
             behind == SubSeq(logs[K].lines, proc.marks[K] + 1, Len(logs[K].lines))
  <2>1. Collect
    BY FoundFrame
  <2>2. K \in Logs
    BY <2>1, LogAt DEF Collect, At
  <2> HIDE DEF K, behind
  <2>3. \/ /\ proc'.found = Extend(proc.found, K, behind)
           /\ logs[K].there /\ K \in DOMAIN proc.marks
        \/ proc'.found = Extend(proc.found, K, None) /\ ~logs[K].there
        \/ proc'.found = proc.found
        \/ DOMAIN proc'.found = {}
    <3>1. \A found : Found(found) => proc'.found = found
      BY DEF Found, ProcOK
    <3> QED BY <2>1, <3>1, FoundSteps DEF Collect, Fails, Raises, K, behind
  <2>4. L = K /\ proc'.found[L] = behind /\ K \in DOMAIN proc.marks
    BY <2>3 DEF Extend
  <2>5. proc.marks[K] \in Nat /\ clock.epoch \in Nat
    BY <2>4 DEF ProcOK, IsPartial, ClockOK
  <2>6. clock.epoch > 0 /\ Splits(logs[K], proc.marks[K], clock.epoch - 1, clock.epoch - 1)
    BY <2>1, <2>4 DEF Watched, Collect, At
  <2>7. logs[K] \in [there : BOOLEAN, rotated : BOOLEAN, lines : Seq(Nat)]
    BY <2>2 DEF LogsOK
  <2> QED BY <2>4, <2>5, <2>6, <2>7, Behind DEF behind
<1>2. Inv /\ [Next]_vars =>
        [\A L \in DOMAIN proc'.found \ DOMAIN proc.found : Findings(L)]_proc
  BY <1>1
<1> QED BY <1>2, PreparedSteps, PTL DEF Spec, LogFindings
================================================================================
