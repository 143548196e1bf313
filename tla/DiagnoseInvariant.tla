-------------------------- MODULE DiagnoseInvariant --------------------------
(* What a command of Deploy and Diagnose relies on at each of its steps,       *)
(* wherever another was killed: the inductive invariant behind the theorems of *)
(* Diagnose_proofs.                                                            *)
EXTENDS Diagnose

\* What generate has made of its outputs so far.
Generated ==
  proc.cmd = "generate" =>
    /\ proc.pc \in {"check_as3", "tar", "encrypt"} => work.ucs = None
    /\ proc.pc \in {"remove", "as3"} => work.ucs \in Configs
    /\ proc.pc \in {"tar", "encrypt", "remove", "as3"} /\ proc.as3 => work.as3 = None
    /\ proc.pc = "as3" => ~work.plain

HasBackup == clock.now \in DOMAIN device.backups /\ device.backups[clock.now] = proc.before

\* Up to the backup the device is as deploy has met it, from then on the backup
\* is there; what is loaded is the archive on disk.
Deployed ==
  proc.cmd = "deploy" =>
    /\ work.ucs # None
    /\ proc.flag => IF proc.pc \in {"upload", "load"} THEN HasBackup
                    ELSE device.config = proc.before
    /\ proc.pc = "load" => device.upload = work.ucs

\* The device keeps what was downloaded until it is told to delete it, which may
\* already have happened when the answer was lost.
Downloaded ==
  proc.cmd = "download" =>
    /\ proc.pc = "get" => device.archive \in Times
    /\ proc.pc = "delete" => work.archive \in Times /\ device.archive \in {None, work.archive}

\* A mark splits a log that was not rotated into the lines from before it was
\* made and those that are no older than the epoch since.
Splits(log, mark, before, since) ==
  ~log.rotated =>
    /\ mark <= Len(log.lines)
    /\ \A i \in 1..mark : log.lines[i] <= before
    /\ \A i \in mark + 1..Len(log.lines) : log.lines[i] >= since

\* Marks are made in the epoch that LogWatcher has begun, and used in the next.
Watched ==
  /\ \A L \in Logs : \A i \in 1..Len(logs[L].lines) : logs[L].lines[i] <= clock.epoch
  /\ proc.cmd = "deploy" /\ proc.pc \in {"connect", "watch"} => DOMAIN proc.marks = {}
  /\ proc.cmd = "deploy" /\ proc.pc \in {"stat", "dump", "dumped"} =>
       \A L \in DOMAIN proc.marks : Splits(logs[L], proc.marks[L], clock.epoch, clock.epoch)
  /\ work.offsets \notin {None, Partial} =>
       /\ clock.epoch > 0
       /\ \A L \in DOMAIN work.offsets :
            Splits(logs[L], work.offsets[L], clock.epoch - 1, clock.epoch - 1)
  /\ proc.pc = "collect" => proc.marks = work.offsets /\ work.offsets \notin {None, Partial}
  /\ proc.pc \in {"stat", "collect"} => proc.n <= Len(LogOrder)

\* The file that was named last is whole and older than the one being written.
Reported ==
  /\ work.last \notin {None, Partial} =>
       /\ work.last \in DOMAIN work.results
       /\ work.results[work.last] # Partial
       /\ work.last <= clock.now
       /\ proc.cmd # "idle" => work.last < clock.now
  /\ proc.cmd # "idle" => clock.now > 0
  /\ proc.cmd = "diagnose" /\ proc.pc \in {"results", "point", "pointed"} =>
       clock.now \in DOMAIN work.results
  /\ proc.cmd = "diagnose" /\ proc.pc \in {"point", "pointed"} =>
       work.results[clock.now] # Partial

\* Commands rely on nothing else: not on what another has left on disk or on the
\* device, and not on the logs.
Inv == TypeOK /\ Generated /\ Deployed /\ Downloaded /\ Watched /\ Reported
===============================================================================
