------------------------------- MODULE Diagnose -------------------------------
(***************************************************************************)
(* journey diagnose, the checks it runs on a device after a deployment,    *)
(* and journey deployment-report, which prints the last results.           *)
(***************************************************************************)
EXTENDS Deploy

CONSTANTS Others,       \* the checks that follow the first two
          Exclusions,   \* the checks that may be left out, sets of names
          StableReads,  \* valid_states_required of wait_for_prompt_state
          MaxPolls      \* how often the prompt can be read before the timeout

Checks == <<"Prompt state", "Log watcher">> \o Others
NoChecks == {}          \* "if results": no file is written

ASSUME DiagnoseAssumption ==
  Others \in Seq(STRING) /\ \A checks \in SUBSET Range(Checks) : Partial # checks
-----------------------------------------------------------------------------
Diagnose(excluded) ==
  /\ proc.cmd = "idle" /\ clock.now < MaxCommands
  /\ clock' = [clock EXCEPT !.now = @ + 1]
  /\ proc' = [Idle EXCEPT !.cmd = "diagnose", !.pc = "connect",
                          !.left = {i \in DOMAIN Checks : Checks[i] \notin excluded}]
  /\ said' = "nothing"
  /\ UNCHANGED <<device, logs, work>>

\* The checks that are left are run in their order; what one returns is kept in
\* memory.
Due == {i \in proc.left : \A j \in proc.left : i <= j}
Checking(check) == At("diagnose", "check") /\ \E i \in Due : Checks[i] = check
Result ==
  /\ \E i \in Due : proc' = [proc EXCEPT !.left = @ \ {i}, !.ran = @ \cup {Checks[i]},
                                         !.pc = "check", !.n = 1, !.marks = <<>>]
  /\ UNCHANGED said

\* One reading of wait_for_prompt_state().
Poll ==
  /\ Checking("Prompt state")
  /\ \/ \E valid \in BOOLEAN :
          LET good == IF valid THEN proc.good + 1 ELSE 0 IN
          \/ good = StableReads /\ Result
          \/ /\ good < StableReads /\ proc.n < MaxPolls
             /\ proc' = [proc EXCEPT !.good = good, !.n = @ + 1] /\ UNCHANGED said
          \/ good < StableReads /\ Result      \* the time is up
     \/ Result                                 \* REBOOT REQUIRED
     \/ Fails \/ Raises
  /\ UNCHANGED <<device, logs, work, clock>>

\* LogWatcher.init_from_saved_pointers(); without offsets the check has FAILED.
LoadOffsets ==
  /\ Checking("Log watcher")
  /\ \/ work.offsets = None /\ Result
     \/ work.offsets = Partial /\ Raises
     \/ work.offsets \notin {None, Partial} /\ UNCHANGED said
        /\ proc' = [proc EXCEPT !.pc = "collect", !.n = 1, !.marks = work.offsets]
  /\ UNCHANGED <<device, logs, work, clock>>

Found(found) ==
  /\ UNCHANGED said
  /\ proc' = IF proc.n < Len(LogOrder) THEN [proc EXCEPT !.found = found, !.n = @ + 1]
             ELSE [proc EXCEPT !.found = found, !.pc = "cleanup", !.n = 1]

\* LogWatcher.stop(), one log: what is behind its offset.  A log that had none
\* when the deployment began is a KeyError.
Collect ==
  /\ At("diagnose", "collect")
  /\ LET L == LogOrder[proc.n]
         known == L \in DOMAIN proc.marks
     IN \/ /\ logs[L].there /\ known
           /\ Found(Extend(proc.found, L,
                           SubSeq(logs[L].lines, proc.marks[L] + 1, Len(logs[L].lines))))
        \/ logs[L].there /\ ~known /\ Raises
        \/ ~logs[L].there /\ Found(IF known THEN Extend(proc.found, L, None) ELSE proc.found)
        \/ Found(proc.found)                   \* not to be read
        \/ Fails \/ Raises
  /\ UNCHANGED <<device, logs, work, clock>>

\* The offsets go with the directory, before the result is told.
Cleanup ==
  /\ At("diagnose", "cleanup")
  /\ work' = [work EXCEPT !.offsets = None] /\ Result
  /\ UNCHANGED <<device, logs, clock>>

Other ==
  /\ \E check \in Range(Others) : Checking(check)
  /\ Result \/ Fails \/ Raises
  /\ UNCHANGED <<device, logs, work, clock>>

\* The results of all checks, then the name of their file; both files are empty
\* before they are written.  Without a result there is no file.
\* Mutant: the name is written first.
WriteResults_named ==
  /\ At("diagnose", "check") /\ proc.left = {}
  /\ work' = [work EXCEPT !.results = Extend(@, clock.now, Partial), !.last = clock.now]
  /\ Go("results")
  /\ UNCHANGED <<device, logs, clock>>
WriteResults ==
  /\ At("diagnose", "check") /\ proc.left = {}
  /\ LET file == IF proc.ran = {} THEN NoChecks ELSE Partial
     IN work' = [work EXCEPT !.results = Extend(@, clock.now, file)]
  /\ Go(IF proc.ran = {} THEN "point" ELSE "results")
  /\ UNCHANGED <<device, logs, clock>>
ResultsWritten ==
  /\ At("diagnose", "results")
  /\ work' = [work EXCEPT !.results[clock.now] = proc.ran] /\ Go("point")
  /\ UNCHANGED <<device, logs, clock>>
WritePointer ==
  \/ /\ At("diagnose", "point")
     /\ work' = [work EXCEPT !.last = Partial] /\ Go("pointed")
     /\ UNCHANGED <<device, logs, clock>>
  \/ /\ At("diagnose", "pointed")
     /\ work' = [work EXCEPT !.last = clock.now] /\ End("diagnosed")
     /\ UNCHANGED <<device, logs, clock>>

deployment_report ==
  /\ proc.cmd = "idle" /\ clock.now < MaxCommands
  /\ clock' = [clock EXCEPT !.now = @ + 1]
  /\ LET file == IF work.last \in {None, Partial} THEN work.last ELSE work.results[work.last]
     IN said' = IF file \in {None, NoChecks, Partial} THEN "failed" ELSE "reported"
  /\ UNCHANGED <<device, logs, work, proc>>

Step ==
  \/ Steps
  \/ Poll \/ LoadOffsets \/ Collect \/ Cleanup \/ Other
  \/ WriteResults \/ ResultsWritten \/ WritePointer

Next ==
  \/ Commands \/ deployment_report
  \/ \E excluded \in Exclusions : Diagnose(excluded)
  \/ Step \/ Kill \/ LogEvent

Spec == Init /\ [][Next]_vars
-----------------------------------------------------------------------------
(* What the device, the disk and the command that runs may hold: archives and *)
(* times that there are, marks and findings of logs that are watched, results *)
(* of checks that there are.  A command is only ever at one of its own steps. *)
Times == 1..MaxCommands
Content == Configs \cup {None, Partial}
Loaded == Configs \cup {Factory, Partial}
IsPartial(f, S, T) == DOMAIN f \subseteq S /\ f \in [DOMAIN f -> T]
Positions ==
  {<<"idle", "">>, <<"backup", "backup">>} \cup
  {"generate"} \X
    {"conflicts", "check_ucs", "check_as3", "tar", "encrypt", "remove", "as3"} \cup
  {"deploy"} \X {"connect", "watch", "stat", "dump", "dumped", "backup", "upload", "load"} \cup
  {"download"} \X {"version", "save", "get", "delete"} \cup
  {"diagnose"} \X {"connect", "check", "collect", "cleanup", "results", "point", "pointed"}

DeviceOK ==
  /\ DOMAIN device = {"config", "backups", "upload", "archive"}
  /\ device.config \in Loaded
  /\ IsPartial(device.backups, Times, Loaded)
  /\ device.upload \in Content
  /\ device.archive \in Times \cup {None}
LogsOK == logs \in [Logs -> [there : BOOLEAN, rotated : BOOLEAN, lines : Seq(Nat)]]
WorkOK ==
  /\ DOMAIN work = {"ucs", "as3", "plain", "archive", "offsets", "results", "last"}
  /\ work.ucs \in Content /\ work.as3 \in Content /\ work.plain \in BOOLEAN
  /\ work.archive \in Times \cup {None, Partial}
  /\ work.offsets \in {None, Partial} \/ IsPartial(work.offsets, Logs, Nat)
  /\ IsPartial(work.results, Times, {Partial} \cup SUBSET Range(Checks))
  /\ work.last \in Times \cup {None, Partial}
ProcOK ==
  /\ DOMAIN proc = {"cmd", "pc", "n", "flag", "as3", "before",
                     "marks", "found", "left", "ran", "good"}
  /\ <<proc.cmd, proc.pc>> \in Positions
  /\ proc.n \in Nat \ {0} /\ {proc.flag, proc.as3} \subseteq BOOLEAN /\ proc.before \in Loaded \cup {None}
  /\ IsPartial(proc.marks, Logs, Nat)
  /\ IsPartial(proc.found, Logs, {None} \cup Seq(Nat))
  /\ proc.left \subseteq DOMAIN Checks /\ proc.ran \subseteq Range(Checks) /\ proc.good \in Nat
ClockOK ==
  /\ DOMAIN clock = {"now", "events", "epoch"}
  /\ clock.now \in 0..MaxCommands /\ clock.events \in 0..MaxEvents /\ clock.epoch \in Nat
TypeOK == DeviceOK /\ LogsOK /\ WorkOK /\ ProcOK /\ ClockOK
-----------------------------------------------------------------------------
(* What the log watcher finds in a log that was not rotated is what came    *)
(* since the last deployment that has begun to watch: all lines since its   *)
(* offsets were saved, none from before it began.                           *)
LogFindings ==
  [][\A L \in DOMAIN proc'.found \ DOMAIN proc.found :
       logs[L].there /\ ~logs[L].rotated =>
         LET since == clock.epoch
             lines == Range(logs[L].lines)
         IN {e \in lines : e = since} \subseteq Range(proc'.found[L])
            /\ \A e \in Range(proc'.found[L]) : e >= since - 1
    ]_proc

(* The results that deployment-report is sent to are whole, whenever the    *)
(* diagnosis was killed.                                                    *)
LastIsComplete ==
  work.last \notin {None, Partial} =>
    work.results[work.last] # Partial
===============================================================================
