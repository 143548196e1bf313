-------------------------------- MODULE Deploy --------------------------------
(***************************************************************************)
(* The commands that leave the migration's directory: generate, deploy,    *)
(* backup and download-ucs.  Each is a process that writes to its own disk *)
(* and to a device behind a connection that may break, before or after the *)
(* device has done what it was told; any step may be its last.             *)
(***************************************************************************)
EXTENDS Naturals, Sequences, Functions

CONSTANTS Configs,      \* configurations an archive may hold
          Factory,      \* the configuration the device starts with
          LogOrder,     \* the logs to watch, in the order of default_watchers
          Retries,      \* how often Connector tries
          MaxCommands,  \* bound: commands
          MaxEvents,    \* bound: changes of the device's logs
          None,         \* no such file
          Partial       \* a file or a configuration that was cut off

\* The times of commands tell archives apart, and no sentinel is one of them.
ASSUME DeployAssumption ==
  /\ LogOrder \in Seq(Range(LogOrder)) /\ LogOrder # <<>>
  /\ Retries \in Nat /\ MaxCommands \in Nat /\ MaxEvents \in Nat
  /\ None # Partial /\ {None, Partial} \cap (Configs \cup Nat) = {}

VARIABLES device,       \* [config, backups, upload, archive]
          logs,         \* the device's logs
          work,         \* what is on the disk of the program
          proc,         \* the command that runs
          said,         \* how the last one ended
          clock         \* [now, events, epoch]

vars == <<device, logs, work, proc, said, clock>>

Logs == Range(LogOrder)
Extend(f, x, y) == [z \in DOMAIN f \cup {x} |-> IF z = x THEN y ELSE f[z]]
Idle == [cmd |-> "idle", pc |-> "", n |-> 1, flag |-> FALSE, as3 |-> FALSE, before |-> None,
         marks |-> <<>>, found |-> <<>>, left |-> {}, ran |-> {}, good |-> 0]

Init ==
  /\ device = [config |-> Factory, backups |-> <<>>, upload |-> None, archive |-> None]
  /\ \E there \in [Logs -> BOOLEAN] :
       logs = [L \in Logs |-> [there |-> there[L], rotated |-> FALSE,
                               lines |-> IF there[L] THEN <<0>> ELSE <<>>]]
  /\ \E ucs \in Configs \cup {None} :
       work = [ucs |-> ucs, as3 |-> None, plain |-> FALSE, archive |-> None,
               offsets |-> None, results |-> <<>>, last |-> None]
  /\ proc = Idle
  /\ said = "nothing"
  /\ clock = [now |-> 0, events |-> 0, epoch |-> 0]
-----------------------------------------------------------------------------
(* A command and its steps *)
Begin(cmd, pc, flag) ==
  /\ proc.cmd = "idle" /\ clock.now < MaxCommands
  /\ clock' = [clock EXCEPT !.now = @ + 1]
  /\ proc' = [Idle EXCEPT !.cmd = cmd, !.pc = pc, !.flag = flag,
                          !.before = IF cmd = "deploy" THEN device.config ELSE None]
  /\ said' = "nothing"

At(cmd, pc) == proc.cmd = cmd /\ proc.pc = pc
Go(pc) == proc' = [proc EXCEPT !.pc = pc, !.n = 1] /\ UNCHANGED said
End(how) == proc' = Idle /\ said' = how
\* error_handler() prints the errors it knows, and the command goes on behind it,
\* in most cases to its end; other errors end the program.
Fails == End("failed")
Raises == End("failed")

\* One attempt at a command on the device.  done and refused are what it may
\* leave behind when it was carried out or not; Then is what follows it, Exit
\* what follows a bad exit status.  Bad credentials are not tried again.
Attempt(done, refused, Then, Exit) ==
  \/ device' \in done /\ Then
  \/ device' \in refused /\ (Exit \/ Fails)
  \/ /\ device' \in done \cup refused
     /\ IF proc.n < Retries THEN proc' = [proc EXCEPT !.n = @ + 1] /\ UNCHANGED said ELSE Fails
-----------------------------------------------------------------------------
(* generate *)
Generate(overwrite) ==
  Begin("generate", "conflicts", overwrite) /\ UNCHANGED <<device, logs, work>>

\* The shelf tells whether the migration was started with a declaration.
Conflicts ==
  /\ At("generate", "conflicts")
  /\ \/ \E as3 \in BOOLEAN :
          proc' = [proc EXCEPT !.pc = "check_ucs", !.as3 = as3] /\ UNCHANGED said
     \/ Fails \/ Raises
  /\ UNCHANGED <<device, logs, work, clock>>

\* Mutant: only the first output is looked for.
CheckOutput_ucs(file, next) ==
  \/ proc.flag /\ work' = [work EXCEPT ![file] = None] /\ Go(next)
  \/ ~proc.flag /\ (work[file] = None \/ file = "as3") /\ Go(next) /\ UNCHANGED work
  \/ ~proc.flag /\ work[file] # None /\ file = "ucs" /\ Fails /\ UNCHANGED work
\* _check_output_file of each output, before the first is made
CheckOutput(file, next) ==
  \/ proc.flag /\ work' = [work EXCEPT ![file] = None] /\ Go(next)
  \/ ~proc.flag /\ work[file] = None /\ Go(next) /\ UNCHANGED work
  \/ ~proc.flag /\ work[file] # None /\ Fails /\ UNCHANGED work
CheckUcs ==
  /\ At("generate", "check_ucs")
  /\ CheckOutput("ucs", IF proc.as3 THEN "check_as3" ELSE "tar")
  /\ UNCHANGED <<device, logs, clock>>
CheckAs3 ==
  At("generate", "check_as3") /\ CheckOutput("as3", "tar") /\ UNCHANGED <<device, logs, clock>>

\* tar_file packs in the clear, encrypts and then removes what it has packed.
Tar ==
  /\ At("generate", "tar")
  /\ work' = [work EXCEPT !.plain = TRUE]
  /\ Go("encrypt") \/ Raises
  /\ UNCHANGED <<device, logs, clock>>
Encrypt ==
  /\ At("generate", "encrypt")
  /\ \/ \E c \in Configs : work' = [work EXCEPT !.ucs = c] /\ Go("remove")
     \/ work' \in {work, [work EXCEPT !.ucs = Partial]} /\ Raises
  /\ UNCHANGED <<device, logs, clock>>
RemovePlain ==
  /\ At("generate", "remove")
  /\ work' = [work EXCEPT !.plain = FALSE] /\ Go("as3")
  /\ UNCHANGED <<device, logs, clock>>
\* Without a declaration there is nothing more to write.
SaveAs3 ==
  /\ At("generate", "as3")
  /\ \/ ~proc.as3 /\ UNCHANGED work /\ End("generated")
     \/ proc.as3 /\ \E c \in Configs : work' = [work EXCEPT !.as3 = c] /\ End("generated")
     \/ proc.as3 /\ work' = [work EXCEPT !.as3 = Partial] /\ Raises
  /\ UNCHANGED <<device, logs, clock>>
-----------------------------------------------------------------------------
(* backup, and the backup of deploy.  The name holds the time: a command    *)
(* that is sent again writes the same file.                                 *)
Backup == Begin("backup", "backup", TRUE) /\ UNCHANGED <<device, logs, work>>

AfterBackup == IF proc.cmd = "deploy" THEN Go("upload") ELSE End("backed up")
\* Mutant: a backup that fails does not stop the deployment.
save_ucs_unchecked ==
  /\ proc.pc = "backup"
  /\ Attempt({[device EXCEPT !.backups = Extend(@, clock.now, device.config)]},
             {device}, AfterBackup, AfterBackup)
  /\ UNCHANGED <<logs, work, clock>>
save_ucs ==
  /\ proc.pc = "backup"
  /\ Attempt({[device EXCEPT !.backups = Extend(@, clock.now, device.config)]},
             {device}, AfterBackup, Fails)
  /\ UNCHANGED <<logs, work, clock>>
-----------------------------------------------------------------------------
(* deploy *)
Deploy(no_backup) ==
  \/ work.ucs # None /\ Begin("deploy", "connect", ~no_backup) /\ UNCHANGED <<device, logs, work>>
  \* "Input file does not exists."
  \/ /\ proc.cmd = "idle" /\ clock.now < MaxCommands /\ work.ucs = None
     /\ said' = "failed" /\ clock' = [clock EXCEPT !.now = @ + 1]
     /\ UNCHANGED <<device, logs, work, proc>>

\* Device() logs in to the API.
Connect ==
  /\ proc.pc = "connect"
  /\ Go(IF proc.cmd = "deploy" THEN "watch" ELSE "check") \/ Fails \/ Raises
  /\ UNCHANGED <<device, logs, work, clock>>

AfterWatch == IF proc.flag THEN "backup" ELSE "upload"

\* Mutant: the offsets of an earlier deployment stay.
LogWatcher_keeps ==
  /\ At("deploy", "watch")
  /\ clock' = [clock EXCEPT !.epoch = @ + (IF @ % 2 = 0 THEN 1 ELSE 2)]
  /\ logs' = [L \in Logs |-> [logs[L] EXCEPT !.rotated = FALSE]]
  /\ Go("stat") /\ UNCHANGED <<device, work>>
\* The directory of the offsets is emptied.  From here the epoch is odd, from
\* when the offsets are saved it is even.
LogWatcher ==
  /\ At("deploy", "watch")
  /\ work' = [work EXCEPT !.offsets = None]
  /\ clock' = [clock EXCEPT !.epoch = @ + (IF @ % 2 = 0 THEN 1 ELSE 2)]
  /\ logs' = [L \in Logs |-> [logs[L] EXCEPT !.rotated = FALSE]]
  /\ Go("stat") /\ UNCHANGED device

\* LogWatcher.start(): a log that is missing, or not to be read, has no offset.
\* An error the handler knows ends only the log watcher.
Stat ==
  /\ At("deploy", "stat")
  /\ LET L == LogOrder[proc.n]
         Mark(marks) ==
           /\ UNCHANGED said
           /\ proc' = IF proc.n < Len(LogOrder) THEN [proc EXCEPT !.marks = marks, !.n = @ + 1]
                      ELSE [proc EXCEPT !.marks = marks, !.pc = "dump", !.n = 1]
     IN \/ logs[L].there /\ Mark(Extend(proc.marks, L, Len(logs[L].lines)))
        \/ Mark(proc.marks)
        \/ Go(AfterWatch)
        \/ Raises
  /\ UNCHANGED <<device, logs, work, clock>>

\* dump_pointers_to_file(): the file is empty before it is written.
Dump ==
  \/ /\ At("deploy", "dump")
     /\ work' = [work EXCEPT !.offsets = Partial] /\ Go("dumped")
     /\ UNCHANGED <<device, logs, clock>>
  \/ /\ At("deploy", "dumped")
     /\ work' = [work EXCEPT !.offsets = proc.marks] /\ Go(AfterWatch)
     /\ clock' = [clock EXCEPT !.epoch = @ + 1]
     /\ UNCHANGED <<device, logs>>

\* put_file() opens the session with retries; the transfer itself has none.
Upload ==
  /\ At("deploy", "upload")
  /\ \/ device' = [device EXCEPT !.upload = work.ucs] /\ Go("load")
     \/ UNCHANGED device /\ Fails
     \/ device' \in {device, [device EXCEPT !.upload = Partial]} /\ Raises
  /\ UNCHANGED <<logs, work, clock>>

\* Mutant: the exit status of tmsh is not looked at (run with raise_error=False).
load_ucs_unchecked ==
  /\ At("deploy", "load")
  /\ LET Loads(cs) == {[device EXCEPT !.config = c] : c \in cs}
     IN Attempt(Loads({device.upload} \ {Partial}), Loads({device.config, Partial}),
                End("deployed"), End("deployed"))
  /\ UNCHANGED <<logs, work, clock>>
\* A load that fails may have changed part of the configuration.
load_ucs ==
  /\ At("deploy", "load")
  /\ LET Loads(cs) == {[device EXCEPT !.config = c] : c \in cs}
     IN Attempt(Loads({device.upload} \ {Partial}), Loads({device.config, Partial}),
                End("deployed"), Fails)
  /\ UNCHANGED <<logs, work, clock>>
-----------------------------------------------------------------------------
(* download-ucs *)
Download == Begin("download", "version", FALSE) /\ UNCHANGED <<device, logs, work>>

\* is_velos_supported() decides whether to go on.
Version ==
  /\ At("download", "version")
  /\ Go("save") \/ End("unsupported") \/ Fails \/ Raises
  /\ UNCHANGED <<device, logs, work, clock>>
SaveArchive ==
  /\ At("download", "save")
  /\ Attempt({[device EXCEPT !.archive = clock.now]}, {device}, Go("get"), Fails)
  /\ UNCHANGED <<logs, work, clock>>
\* Mutant: a transfer that breaks off is taken for a whole one.
Get_unchecked ==
  /\ At("download", "get")
  /\ work' \in {[work EXCEPT !.archive = a] : a \in {Partial, device.archive}} /\ Go("delete")
  /\ UNCHANGED <<device, logs, clock>>
Get ==
  /\ At("download", "get")
  /\ \/ work' = [work EXCEPT !.archive = device.archive] /\ Go("delete")
     \/ UNCHANGED work /\ Fails
     \/ work' \in {work, [work EXCEPT !.archive = Partial]} /\ Raises
  /\ UNCHANGED <<device, logs, clock>>
delete_file ==
  /\ At("download", "delete")
  /\ Attempt({[device EXCEPT !.archive = None]}, {device}, End("downloaded"), Raises)
  /\ UNCHANGED <<logs, work, clock>>
-----------------------------------------------------------------------------
(* What happens around the program: its death, and the device's logs.  A    *)
(* line is the epoch it was written in; all lines have the phrases that the  *)
(* log watcher looks for.                                                   *)
Kill ==
  /\ proc.cmd # "idle" /\ End("failed")
  /\ UNCHANGED <<device, logs, work, clock>>

\* The logs are read, and the epoch changes, in these steps only: what happens
\* between them might as well happen just before the next.
Watching == proc.pc \in {"watch", "stat", "dumped", "collect"}
LogEvent ==
  /\ Watching /\ clock.events < MaxEvents /\ clock' = [clock EXCEPT !.events = @ + 1]
  /\ \E L \in Logs :
       \/ logs' = [logs EXCEPT ![L] = [there |-> TRUE, rotated |-> @.rotated,
                                       lines |-> Append(@.lines, clock.epoch)]]
       \/ \E there \in {logs[L].there, FALSE} :
            logs' = [logs EXCEPT ![L] = [there |-> there, rotated |-> TRUE, lines |-> <<>>]]
  /\ UNCHANGED <<device, work, proc, said>>

Commands ==
  \/ \E flag \in BOOLEAN : Generate(flag) \/ Deploy(flag)
  \/ Backup \/ Download

Steps ==
  \/ Conflicts \/ CheckUcs \/ CheckAs3 \/ Tar \/ Encrypt \/ RemovePlain \/ SaveAs3
  \/ save_ucs
  \/ Connect \/ LogWatcher \/ Stat \/ Dump \/ Upload \/ load_ucs
  \/ Version \/ SaveArchive \/ Get \/ delete_file
-----------------------------------------------------------------------------
(* The backup deploy makes holds what the device had: from the moment the   *)
(* configuration may have changed, however often saving and loading were    *)
(* tried, unless the user has asked for none.                               *)
BackedUp ==
  proc.cmd = "deploy" /\ proc.flag /\ device.config # proc.before =>
    /\ clock.now \in DOMAIN device.backups
    /\ device.backups[clock.now] = proc.before

(* A command that reports success has done it all: the device runs the      *)
(* archive that is on disk, whole; the archive generated is whole, and so   *)
(* is the declaration of a migration that has one, and nothing of it is     *)
(* left in the clear; what was downloaded is whole.                         *)
SuccessIsTrue ==
  [][ /\ said' = "deployed" => device'.config \in Configs /\ device'.config = work.ucs
      /\ said' = "generated" => /\ work'.ucs \in Configs /\ ~work'.plain
                                /\ proc.as3 => work'.as3 \in Configs
      /\ said' = "downloaded" => work'.archive \notin {None, Partial}
    ]_said

(* The archive that download-ucs has made is at any time on the device or   *)
(* whole on disk: the device's copy goes only when the other is there.      *)
OneCopyLeft ==
  [][device.archive # None /\ device'.archive = None => work.archive = device.archive]_device

(* generate without --overwrite leaves outputs that exist as they are, the  *)
(* declaration also when there was no archive.                              *)
NothingOverwritten ==
  [][proc.cmd = "generate" /\ ~proc.flag =>
       \A file \in {"ucs", "as3"} : work'[file] # work[file] => work[file] = None]_work
===============================================================================
