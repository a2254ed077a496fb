----------------------------- MODULE Lifecycle -----------------------------
(***************************************************************************)
(* The instances of one data directory and the commands that start, stop,  *)
(* restart and upgrade them (cmd/llm-switch/main.go, internal/daemon,      *)
(* internal/upgrade).  Instances and commands are processes of their own   *)
(* that meet in four files: the lock, the pid file, the run metadata and   *)
(* the installed binary.  Each system call that another process can see is *)
(* a step; a process may die between any two.                              *)
(*                                                                         *)
(* The kernel's part: a lock goes with the process that holds it, and the  *)
(* pid of a dead process may be given to a program that has nothing to do  *)
(* with this one, a stranger.                                              *)
(***************************************************************************)
EXTENDS Naturals

CONSTANTS
    Pids,            \* process ids
    Commands,        \* shells that run lifecycle commands, one at a time
    Asks,            \* [Commands -> what it may be asked]; a bound
    Args,            \* command lines of an instance
    NoArgs,          \* none saved, or the empty command line
    Nobody           \* no process

ASSUME NobodyAssumption == Nobody \notin Pids \cup Commands /\ Pids \cap Commands = {}

VARIABLES
    inst,            \* [Pids -> the process: where it is, os.Args[1:], listed: its WritePid succeeded]
    lock,            \* holder of the flock
    pidFile,         \* the pid read out of the pid file, Nobody if none
    meta,            \* RunMeta of the metadata file, NoMeta if none
    exe,             \* the installed binary
    tmp,             \* the file a download is written to
    cmd              \* [Commands -> the command that runs and its locals]

files == <<lock, pidFile, meta>>
binary == <<exe, tmp>>
vars == <<inst, files, binary, cmd>>

\* From the lock to its release an instance has the database open.
Open == {"locked", "bound", "pidded", "serving", "draining", "leaving"}
Instance == {"boot"} \cup Open
Process == [at : {"none", "stranger"} \cup Instance, args : Args \cup {NoArgs}, listed : BOOLEAN]
None == [at |-> "none", args |-> NoArgs, listed |-> FALSE]

\* Where a command is; target: the pid that Stop read; saved: the arguments
\* for SpawnArgs; child: what it started; ready: READY came through the pipe.
Command == [at : {"idle", "confirm", "downloading", "downloaded", "probe", "look", "vacant",
                  "signal", "await", "killed", "clear", "spawn", "waiting", "reaping"},
            kind : {"start", "stop", "restart", "upgrade"}, force : BOOLEAN,
            target : Pids \cup {Nobody}, saved : Args \cup {NoArgs},
            child : Pids \cup {Nobody}, ready : BOOLEAN]
Idle == [at |-> "idle", kind |-> "stop", force |-> FALSE, target |-> Nobody,
         saved |-> NoArgs, child |-> Nobody, ready |-> FALSE]

NoMeta == [pid |-> Nobody, args |-> NoArgs]

\* A binary: the command whose download made it (Nobody: the old release),
\* and whether all its bytes are there.
File == [by : Commands \cup {Nobody}, whole : BOOLEAN]
NoFile == [by |-> Nobody, whole |-> FALSE]
OldRelease == [by |-> Nobody, whole |-> TRUE]
IsNew(file) == file.by # Nobody

Init ==
    /\ inst = [p \in Pids |-> None]
    /\ lock = Nobody /\ pidFile = Nobody /\ meta = NoMeta
    /\ exe = OldRelease /\ tmp = NoFile
    /\ cmd = [c \in Commands |-> Idle]
-----------------------------------------------------------------------------
(* The life of an instance.                                                *)

\* Any process of that id: a stranger too.
Alive(p) == p \in Pids /\ inst[p].at # "none"

\* Nothing runs under the id, nor does a parent still wait for what did.
Vacant(p) ==
    /\ inst[p].at = "none"
    /\ \A c \in Commands : cmd[c].at \in {"waiting", "reaping"} => cmd[c].child # p

Dies(p) ==
    /\ inst' = [inst EXCEPT ![p] = None]
    /\ lock' = IF lock = p THEN Nobody ELSE lock

Becomes(p, where) == inst' = [inst EXCEPT ![p].at = where]

\* The new process runs the installed binary.
Launch(p, a) ==
    /\ Vacant(p) /\ exe.whole
    /\ inst' = [inst EXCEPT ![p] = [at |-> "boot", args |-> a, listed |-> FALSE]]

\* `llm-switch` in the foreground, or under a service manager.
Foreground(p) ==
    /\ \E a \in Args : Launch(p, a)
    /\ UNCHANGED <<files, binary, cmd>>

\* daemon.Lock: without it the instance reports the error and exits.
TakeLock(p) ==
    /\ inst[p].at = "boot"
    /\ IF lock = Nobody THEN Becomes(p, "locked") /\ lock' = p ELSE Dies(p)
    /\ UNCHANGED <<pidFile, meta, binary, cmd>>

\* The database does not open or the address is taken: run's early returns.
BootFails(p) ==
    /\ inst[p].at = "locked" /\ Dies(p)
    /\ UNCHANGED <<pidFile, meta, binary, cmd>>

\* net.Listen, then Notify(nil) to a parent that still reads the pipe.
Bind(p) ==
    /\ inst[p].at = "locked" /\ Becomes(p, "bound")
    /\ cmd' = [c \in Commands |->
                  IF cmd[c].at = "waiting" /\ cmd[c].child = p
                  THEN [cmd[c] EXCEPT !.ready = TRUE] ELSE cmd[c]]
    /\ UNCHANGED <<files, binary>>

\* Best effort: os.WriteFile may fail before or after it truncates the file,
\* and then there is no metadata either.
WritePid(p) ==
    /\ inst[p].at = "bound"
    /\ \/ pidFile' = p /\ inst' = [inst EXCEPT ![p].at = "pidded", ![p].listed = TRUE]
       \/ pidFile' \in {pidFile, Nobody} /\ Becomes(p, "serving")
    /\ UNCHANGED <<lock, meta, binary, cmd>>

\* WriteRunMeta, best effort too; then the signal handler is installed.
WriteRunMeta(p) ==
    /\ inst[p].at = "pidded" /\ Becomes(p, "serving")
    /\ meta' \in {[pid |-> p, args |-> inst[p].args], meta, NoMeta}
    /\ UNCHANGED <<lock, pidFile, binary, cmd>>

\* SIGTERM or Ctrl+C.  Only a serving instance has a handler, and only for
\* the first: anything else dies.
Terminated(p) ==
    IF inst[p].at = "serving" THEN Becomes(p, "draining") /\ UNCHANGED lock ELSE Dies(p)

Interrupted(p) ==
    /\ inst[p].at \in Instance /\ Terminated(p)
    /\ UNCHANGED <<pidFile, meta, binary, cmd>>

\* SIGKILL, a panic, a power cut.
Crash(p) ==
    /\ inst[p].at \in Instance /\ Dies(p)
    /\ UNCHANGED <<pidFile, meta, binary, cmd>>

\* Mutant: the lock is released before the pid file is removed.
LeaveUnlocked(p) ==
    /\ \/ /\ inst[p].at \in {"serving", "draining"} /\ Becomes(p, "leaving")
          /\ lock' = Nobody /\ UNCHANGED pidFile
       \/ /\ inst[p].at = "leaving" /\ Dies(p)
          /\ pidFile' = IF inst[p].listed THEN Nobody ELSE pidFile
    /\ UNCHANGED <<meta, binary, cmd>>

\* run returns, drained or because Serve failed: its deferred calls remove the
\* pid file it wrote, whatever is in it, and release the lock last.
Leave(p) ==
    /\ \/ /\ inst[p].at \in {"serving", "draining"} /\ Becomes(p, "leaving")
          /\ pidFile' = IF inst[p].listed THEN Nobody ELSE pidFile
          /\ UNCHANGED lock
       \/ inst[p].at = "leaving" /\ Dies(p) /\ UNCHANGED pidFile
    /\ UNCHANGED <<meta, binary, cmd>>

\* The kernel gives the pid of a dead process to some other program.
Reused(p) ==
    /\ \/ Vacant(p) /\ Becomes(p, "stranger")
       \/ inst[p].at = "stranger" /\ Becomes(p, "none")
    /\ UNCHANGED <<files, binary, cmd>>
-----------------------------------------------------------------------------
(* The commands.  Every error and every success returns to Idle.           *)

Goes(c, to) == cmd' = [cmd EXCEPT ![c].at = to]
Ends(c) == cmd' = [cmd EXCEPT ![c] = Idle]

\* The pid of the metadata wins; the pid file is the fallback.
RunningInstance ==
    IF Alive(meta.pid) THEN meta.pid ELSE IF Alive(pidFile) THEN pidFile ELSE Nobody

\* A binary that is not all there runs no command.
Asked(c, asked, to, a, f) ==
    /\ cmd[c].at = "idle" /\ asked \in Asks[c] /\ exe.whole
    /\ cmd' = [cmd EXCEPT ![c] = [Idle EXCEPT !.kind = asked, !.at = to, !.saved = a, !.force = f]]
    /\ UNCHANGED <<inst, files, binary>>

\* `llm-switch --daemon`.
Start(c) == \E a \in Args : Asked(c, "start", "spawn", a, FALSE)

\* `llm-switch stop`.
Stop(c) == \E f \in BOOLEAN : Asked(c, "stop", "look", NoArgs, f)

\* `llm-switch restart`: with nothing running and no arguments saved it is an
\* error.
Restart(c) ==
    /\ RunningInstance # Nobody \/ meta.args # NoArgs
    /\ \E f \in BOOLEAN :
          Asked(c, "restart", IF RunningInstance # Nobody THEN "look" ELSE "spawn", meta.args, f)

\* `llm-switch upgrade`: the command runs the installed binary and compares its
\* own version with the latest; then it asks for confirmation.
Upgrade(c) == ~IsNew(exe) /\ Asked(c, "upgrade", "confirm", NoArgs, FALSE)

\* The answer is no, the release has no such asset, or the command is
\* interrupted: nothing is cleaned up, but its lock goes with it.
Quit(c) ==
    /\ cmd[c].at # "idle" /\ Ends(c)
    /\ lock' = IF lock = c THEN Nobody ELSE lock
    /\ UNCHANGED <<inst, pidFile, meta, binary>>

\* os.Create truncates a file that is there: one name serves every upgrade.
Create(c) ==
    /\ cmd[c].at = "confirm" /\ Goes(c, "downloading")
    /\ tmp' = [by |-> c, whole |-> FALSE]
    /\ UNCHANGED <<inst, files, exe>>

\* The last byte is written, to the file that was opened, wherever it is now.
\* Only the bytes this command wrote are counted; Chmod needs the name.
Written(c) ==
    /\ cmd[c].at = "downloading"
    /\ tmp' = IF tmp.by = c THEN [tmp EXCEPT !.whole = TRUE] ELSE tmp
    /\ exe' = IF exe.by = c THEN [exe EXCEPT !.whole = TRUE] ELSE exe
    /\ IF tmp = NoFile THEN Ends(c) ELSE Goes(c, "downloaded")
    /\ UNCHANGED <<inst, files>>

\* Mutant: a download that breaks off is taken for a whole one.
DownloadKept(c) ==
    /\ cmd[c].at = "downloading" /\ Goes(c, "downloaded")
    /\ UNCHANGED <<inst, files, binary>>

\* The download breaks off, or has not the size that was announced: the partial
\* file is removed, by its name.
DownloadFails(c) ==
    /\ cmd[c].at = "downloading" /\ Ends(c) /\ tmp' = NoFile
    /\ UNCHANGED <<inst, files, exe>>

\* os.Rename over the installed binary.
Rename(c) ==
    /\ cmd[c].at = "downloaded"
    /\ IF tmp = NoFile
       THEN Ends(c) /\ UNCHANGED binary
       ELSE Goes(c, "probe") /\ exe' = tmp /\ tmp' = NoFile
    /\ UNCHANGED <<inst, files>>

\* restartDaemon: nothing to do when nothing runs.
RestartDaemon(c) ==
    /\ cmd[c].at = "probe"
    /\ IF RunningInstance = Nobody
       THEN Ends(c)
       ELSE cmd' = [cmd EXCEPT ![c].at = "look", ![c].saved = meta.args]
    /\ UNCHANGED <<inst, files, binary>>
-----------------------------------------------------------------------------
(* daemon.Stop.                                                            *)

\* ReadPid, Alive and looksLikeUs: a stranger is not touched.
Look(c) ==
    /\ cmd[c].at = "look"
    /\ CASE ~Alive(pidFile) -> Goes(c, "vacant")
         [] Alive(pidFile) /\ inst[pidFile].at = "stranger" -> Ends(c)
         [] OTHER -> cmd' = [cmd EXCEPT ![c].at = "signal", ![c].target = pidFile]
    /\ UNCHANGED <<inst, files, binary>>

\* Mutant: the leftovers of a dead instance are removed without the lock.
VacatedUnlocked(c) ==
    /\ cmd[c].at = "vacant" /\ Goes(c, "clear")
    /\ UNCHANGED <<inst, files, binary>>

\* Nothing runs, unless the lock is held all the same.
Vacated(c) ==
    /\ cmd[c].at = "vacant"
    /\ IF lock = Nobody THEN Goes(c, "clear") /\ lock' = c ELSE Ends(c) /\ UNCHANGED lock
    /\ UNCHANGED <<inst, pidFile, meta, binary>>

\* Whoever has the pid by now gets the signal.
Signal(c) ==
    /\ cmd[c].at = "signal" /\ Goes(c, "await")
    /\ IF Alive(cmd[c].target) THEN Terminated(cmd[c].target) ELSE UNCHANGED <<inst, lock>>
    /\ UNCHANGED <<pidFile, meta, binary>>

\* acquireWithin.
Acquire(c) ==
    /\ cmd[c].at \in {"await", "killed"} /\ lock = Nobody
    /\ Goes(c, "clear") /\ lock' = c
    /\ UNCHANGED <<inst, pidFile, meta, binary>>

\* The grace is over: an error, or SIGKILL and a second wait.
GraceOver(c) ==
    /\ lock # Nobody
    /\ \/ /\ cmd[c].at = "await" /\ cmd[c].force /\ Goes(c, "killed")
          /\ IF Alive(cmd[c].target) THEN Dies(cmd[c].target) ELSE UNCHANGED <<inst, lock>>
       \/ /\ cmd[c].at = "killed" \/ (cmd[c].at = "await" /\ ~cmd[c].force)
          /\ Ends(c) /\ UNCHANGED <<inst, lock>>
    /\ UNCHANGED <<pidFile, meta, binary>>

\* removeRunFiles; the metadata stays for a later restart.
RemoveRunFiles(c) ==
    /\ cmd[c].at = "clear"
    /\ pidFile' = Nobody
    /\ lock' = IF lock = c THEN Nobody ELSE lock
    /\ IF cmd[c].kind = "stop"
       THEN Ends(c)
       ELSE cmd' = [cmd EXCEPT ![c].at = "spawn", ![c].target = Nobody, ![c].force = FALSE]
    /\ UNCHANGED <<inst, meta, binary>>
-----------------------------------------------------------------------------
(* daemon.SpawnArgs.                                                       *)

Spawn(c) ==
    /\ cmd[c].at = "spawn"
    /\ IF exe.whole
       THEN \E p \in Pids :
               /\ Launch(p, cmd[c].saved)
               /\ cmd' = [cmd EXCEPT ![c].at = "waiting", ![c].child = p, ![c].saved = NoArgs]
       ELSE Ends(c) /\ UNCHANGED inst
    /\ UNCHANGED <<files, binary>>

\* READY; or ERR and end of file, both from a child that has exited.
Reported(c) ==
    /\ cmd[c].at = "waiting" /\ (cmd[c].ready \/ ~Alive(cmd[c].child))
    /\ Ends(c)
    /\ UNCHANGED <<inst, files, binary>>

\* The read deadline passes.  No line was read, and the case for that comes
\* before the one that kills the child: the command waits for the child's end.
DeadlineOver(c) ==
    /\ \/ cmd[c].at = "waiting" /\ ~cmd[c].ready /\ Goes(c, "reaping")
       \/ cmd[c].at = "reaping" /\ ~Alive(cmd[c].child) /\ Ends(c)
    /\ UNCHANGED <<inst, files, binary>>
-----------------------------------------------------------------------------
InstanceStep(p) ==
    \/ Foreground(p) \/ TakeLock(p) \/ BootFails(p) \/ Bind(p) \/ WritePid(p)
    \/ WriteRunMeta(p) \/ Interrupted(p) \/ Crash(p) \/ Leave(p) \/ Reused(p)

CommandStep(c) ==
    \/ Start(c) \/ Stop(c) \/ Restart(c) \/ Upgrade(c) \/ Quit(c)
    \/ Create(c) \/ Written(c) \/ DownloadFails(c) \/ Rename(c) \/ RestartDaemon(c)
    \/ Look(c) \/ Vacated(c) \/ Signal(c) \/ Acquire(c) \/ GraceOver(c) \/ RemoveRunFiles(c)
    \/ Spawn(c) \/ Reported(c) \/ DeadlineOver(c)

Next == (\E p \in Pids : InstanceStep(p)) \/ (\E c \in Commands : CommandStep(c))

Spec == Init /\ [][Next]_vars
-----------------------------------------------------------------------------
(* Type correctness.                                                       *)
TypeOK ==
    /\ inst \in [Pids -> Process]
    /\ lock \in Pids \cup Commands \cup {Nobody}
    /\ pidFile \in Pids \cup {Nobody}
    /\ meta \in [pid : Pids \cup {Nobody}, args : Args \cup {NoArgs}]
    /\ exe \in File /\ tmp \in File
    /\ cmd \in [Commands -> Command]
    /\ \A c \in Commands : cmd[c].at \in {"waiting", "reaping"} => cmd[c].child \in Pids

\* The database has one user at a time (daemon.go:12-14): whoever has it open
\* holds the lock, through crashes, kills and reused pids, and a command that
\* clears up after an instance holds it too, so no instance is left.
OneWriter ==
    /\ \A p \in Pids : inst[p].at \in Open => lock = p
    /\ \A c \in Commands : cmd[c].at = "clear" => lock = c

\* The pid file of a running instance names it: neither a stop that found a
\* dead predecessor, nor one that waited for it to end, nor the predecessor's
\* own exit removes or overwrites it (daemon.go:118-123).
PidFileIsTrue ==
    \A p \in Pids :
        inst[p].at \in {"pidded", "serving", "draining"} /\ inst[p].listed => pidFile = p

\* The asset is downloaded, "verifies its size, and atomically renames it over
\* the running binary" (README.md:128-130): whatever breaks off an upgrade, what
\* the next command or instance runs is all there.  So it is as long as one
\* upgrade runs at a time; two share the name of the temporary file, and the
\* second truncates what the first is about to rename.  It is so for a size that
\* is known: when neither the release nor the answer gives one, it is not
\* verified (upgrade.go:249-264), which is left out.
BinaryIsWhole == exe.whole
=============================================================================
