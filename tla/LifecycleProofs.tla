-------------------------- MODULE LifecycleProofs --------------------------
(***************************************************************************)
(* The database has one user and the pid file is true, for any number of   *)
(* processes and commands.  The two are one induction: nobody touches the  *)
(* pid file but under the lock, and under the lock no other instance is    *)
(* there whose pid the file could hold.  The installed binary is a second  *)
(* induction, over what the upgrade knows of its temporary file.           *)
(***************************************************************************)
EXTENDS Lifecycle, TLAPS

\* An instance is not listed before it has written its pid.
NotYetListed ==
    \A p \in Pids : inst[p].at \in {"boot", "locked", "bound"} => ~inst[p].listed

Inv == TypeOK /\ OneWriter /\ PidFileIsTrue /\ NotYetListed

\* What every step of an instance, and every step of a command, may change.
LEMMA ProcessFacts ==
    /\ None \in Process /\ Idle \in Command /\ NoFile \in File /\ OldRelease \in File
    /\ NoMeta \in [pid : Pids \cup {Nobody}, args : Args \cup {NoArgs}]
  BY DEF None, Process, Idle, Command, NoFile, OldRelease, File, NoMeta, Instance
-----------------------------------------------------------------------------
\* Nothing runs and there is no pid file.
LEMMA InitInv == Init => Inv
<1>1. Init => TypeOK
  BY ProcessFacts DEF Init, TypeOK, Idle
<1>2. Init => OneWriter /\ PidFileIsTrue /\ NotYetListed
  BY DEF Init, OneWriter, PidFileIsTrue, NotYetListed, None, Idle, Open
<1>3. QED
  BY <1>1, <1>2 DEF Inv
-----------------------------------------------------------------------------
\* The commands keep their types, and none begins to clear up.
CommandsKept ==
    /\ cmd' \in [Commands -> Command]
    /\ \A d \in Commands : cmd'[d].at \in {"waiting", "reaping"} => cmd'[d].child \in Pids
    /\ \A d \in Commands : cmd'[d].at = "clear" => cmd[d].at = "clear"

\* A step that touches no command keeps what is true of the commands.
LEMMA SameKept == ASSUME Inv, UNCHANGED cmd PROVE CommandsKept
  BY DEF Inv, TypeOK, CommandsKept

\* The process under a pid ends, and its lock with it: signals, crashes, exits.
LEMMA DiesInv ==
    ASSUME Inv, NEW p \in Pids, Dies(p), UNCHANGED <<pidFile, meta, binary>>, CommandsKept
    PROVE  Inv'
<1> USE NobodyAssumption, ProcessFacts
<1>1. /\ inst' \in [Pids -> Process] /\ inst'[p] = None
      /\ \A q \in Pids : q # p => inst'[q] = inst[q]
  BY DEF Inv, TypeOK, Dies
<1>2. TypeOK'
  BY <1>1 DEF Inv, TypeOK, Dies, binary, CommandsKept
<1>3. OneWriter'
  BY <1>1 DEF Inv, TypeOK, OneWriter, Dies, None, Open, CommandsKept
<1>4. PidFileIsTrue' /\ NotYetListed'
  BY <1>1 DEF Inv, PidFileIsTrue, NotYetListed, None
<1>5. QED
  BY <1>2, <1>3, <1>4 DEF Inv

\* A process moves on without touching the files.
LEMMA MovesInv ==
    ASSUME Inv, NEW p \in Pids, NEW q \in Process, inst' = [inst EXCEPT ![p] = q],
           q.at \in Open => lock = p,
           q.at \in {"pidded", "serving", "draining"} /\ q.listed => pidFile = p,
           q.at \in {"boot", "locked", "bound"} => ~q.listed,
           UNCHANGED <<files, binary>>, TypeOK',
           \A c \in Commands : cmd'[c].at = "clear" => cmd[c].at = "clear"
    PROVE  Inv'
<1>1. /\ inst'[p] = q
      /\ \A r \in Pids : r # p => inst'[r] = inst[r]
  BY DEF Inv, TypeOK
<1>2. OneWriter'
  BY <1>1 DEF Inv, TypeOK, OneWriter, files
<1>3. PidFileIsTrue' /\ NotYetListed'
  BY <1>1 DEF Inv, PidFileIsTrue, NotYetListed, files
<1>4. QED
  BY <1>2, <1>3 DEF Inv

\* A command moves on, at most giving up the lock it holds.
LEMMA CommandMovesInv ==
    ASSUME Inv, NEW c \in Commands, TypeOK', UNCHANGED <<inst, pidFile>>,
           \/ UNCHANGED lock
           \/ lock' = IF lock = c THEN Nobody ELSE lock,
           cmd' \in [Commands -> Command],
           \A d \in Commands : d # c => cmd'[d] = cmd[d],
           cmd'[c].at # "clear"
    PROVE  Inv'
<1>1. \A p \in Pids : lock = p => lock' = p
  BY NobodyAssumption
<1>2. \A d \in Commands : d # c /\ lock = d => lock' = d
  BY NobodyAssumption
<1>3. OneWriter'
  BY <1>1, <1>2 DEF Inv, OneWriter
<1>4. PidFileIsTrue' /\ NotYetListed'
  BY DEF Inv, PidFileIsTrue, NotYetListed
<1>5. QED
  BY <1>3, <1>4 DEF Inv
-----------------------------------------------------------------------------
\* A command's record after one of its steps.
LEMMA GoesType ==
    ASSUME TypeOK, NEW c \in Commands, NEW to, Goes(c, to),
           to \in {"confirm", "downloading", "downloaded", "probe", "look", "vacant",
                   "signal", "await", "killed", "clear", "spawn"}
                \/ (to \in {"waiting", "reaping"} /\ cmd[c].child \in Pids)
    PROVE  /\ cmd' \in [Commands -> Command] /\ cmd'[c].at = to
           /\ \A d \in Commands : d # c => cmd'[d] = cmd[d]
           /\ \A d \in Commands : cmd'[d].at \in {"waiting", "reaping"} => cmd'[d].child \in Pids
<1>1. cmd[c] \in Command
  BY DEF TypeOK
<1>2. [cmd[c] EXCEPT !.at = to] \in Command
  BY <1>1 DEF Command
<1>3. cmd' = [cmd EXCEPT ![c] = [cmd[c] EXCEPT !.at = to]]
  BY DEF Goes
<1>4. [cmd[c] EXCEPT !.at = to].at = to /\ [cmd[c] EXCEPT !.at = to].child = cmd[c].child
  BY <1>1 DEF Command
<1>5. QED
  BY <1>1, <1>2, <1>3, <1>4 DEF TypeOK

\* A command that ends becomes idle; no other changes.
LEMMA EndsType ==
    ASSUME TypeOK, NEW c \in Commands, Ends(c)
    PROVE  /\ cmd' \in [Commands -> Command] /\ cmd'[c] = Idle
           /\ \A d \in Commands : d # c => cmd'[d] = cmd[d]
           /\ \A d \in Commands : cmd'[d].at \in {"waiting", "reaping"} => cmd'[d].child \in Pids
  BY ProcessFacts DEF TypeOK, Ends, Idle
-----------------------------------------------------------------------------
\* A signal that a process need not survive.
LEMMA TerminatedInv ==
    ASSUME Inv, NEW p \in Pids, Terminated(p), UNCHANGED <<pidFile, meta, binary>>, CommandsKept
    PROVE  Inv'
<1>1. CASE inst[p].at = "serving"
  <2> DEFINE q == [inst[p] EXCEPT !.at = "draining"]
  <2>1. q \in Process /\ q.at = "draining" /\ q.listed = inst[p].listed
    BY DEF Inv, TypeOK, Process, Instance, Open
  <2>2. inst' = [inst EXCEPT ![p] = q] /\ UNCHANGED files
    BY <1>1 DEF Terminated, Becomes, files
  <2>3. lock = p /\ (q.listed => pidFile = p)
    BY <1>1, <2>1 DEF Inv, OneWriter, PidFileIsTrue, Open
  <2>4. TypeOK'
    BY <2>1, <2>2 DEF Inv, TypeOK, files, binary, CommandsKept
  <2> HIDE DEF q
  <2>5. QED
    BY <2>1, <2>2, <2>3, <2>4, MovesInv DEF CommandsKept
<1>2. CASE inst[p].at # "serving"
  BY <1>2, DiesInv DEF Terminated
<1>3. QED
  BY <1>1, <1>2
-----------------------------------------------------------------------------
\* The steps of one instance, and of what ends it: main's, a crash, a signal.
LEMMA InstanceKeeps == ASSUME Inv, NEW p \in Pids, InstanceStep(p) PROVE Inv'
<1> USE ProcessFacts
<1>0. inst[p] \in Process /\ inst \in [Pids -> Process] /\ TypeOK
  BY DEF Inv, TypeOK
<1>1. CASE Foreground(p)
  <2>1. PICK a \in Args : Launch(p, a)
    BY <1>1 DEF Foreground
  <2>2. [at |-> "boot", args |-> a, listed |-> FALSE] \in Process
    BY DEF Process, Instance
  <2>3. TypeOK'
    BY <1>0, <1>1, <2>1, <2>2 DEF TypeOK, Foreground, Launch, files, binary
  <2>4. QED
    BY <1>1, <2>1, <2>2, <2>3, MovesInv DEF Foreground, Launch, Open
<1>2. CASE TakeLock(p)
  <2>1. CASE lock = Nobody
    <3>1. [inst[p] EXCEPT !.at = "locked"] \in Process
      BY <1>0 DEF Process, Instance, Open
    <3>2. inst' = [inst EXCEPT ![p] = [inst[p] EXCEPT !.at = "locked"]] /\ lock' = p
      BY <1>2, <2>1 DEF TakeLock, Becomes
    <3>3. /\ inst'[p].at = "locked" /\ inst' \in [Pids -> Process]
          /\ \A q \in Pids : q # p => inst'[q] = inst[q]
      BY <1>0, <3>1, <3>2 DEF Process
    <3>4. TypeOK'
      BY <1>0, <1>2, <3>2, <3>3 DEF TypeOK, TakeLock, binary
    <3>5. /\ \A q \in Pids : inst[q].at \notin Open
          /\ \A c \in Commands : cmd[c].at # "clear"
      BY <2>1, NobodyAssumption DEF Inv, OneWriter
    <3>6. OneWriter'
      BY <1>2, <3>2, <3>3, <3>5 DEF OneWriter, TakeLock
    <3>7. PidFileIsTrue'
      BY <1>2, <3>3, <3>5 DEF PidFileIsTrue, TakeLock, Open
    <3>8. NotYetListed'
      BY <1>0, <1>2, <3>2, <3>3 DEF Inv, NotYetListed, TakeLock, Process
    <3>9. QED
      BY <3>4, <3>6, <3>7, <3>8 DEF Inv
  <2>2. CASE lock # Nobody
    BY <1>2, <2>2, DiesInv, SameKept DEF TakeLock
  <2>3. QED
    BY <2>1, <2>2
<1>3. CASE BootFails(p)
  BY <1>3, DiesInv, SameKept DEF BootFails
<1>4. CASE Bind(p)
  <2> DEFINE q == [inst[p] EXCEPT !.at = "bound"]
  <2>1. q \in Process /\ q.at = "bound"
    BY <1>0 DEF Process, Instance, Open
  <2>2. inst' = [inst EXCEPT ![p] = q]
    BY <1>4 DEF Bind, Becomes
  <2>3. \A c \in Commands :
            cmd'[c] = IF cmd[c].at = "waiting" /\ cmd[c].child = p
                      THEN [cmd[c] EXCEPT !.ready = TRUE] ELSE cmd[c]
    BY <1>4 DEF Bind
  <2>4. \A c \in Commands :
            cmd'[c] \in Command /\ cmd'[c].at = cmd[c].at /\ cmd'[c].child = cmd[c].child
    <3> TAKE c \in Commands
    <3>1. cmd[c] \in Command
      BY <1>0 DEF TypeOK
    <3>2. /\ [cmd[c] EXCEPT !.ready = TRUE] \in Command
          /\ [cmd[c] EXCEPT !.ready = TRUE].at = cmd[c].at
          /\ [cmd[c] EXCEPT !.ready = TRUE].child = cmd[c].child
      BY <3>1 DEF Command
    <3>3. QED
      BY <2>3, <3>1, <3>2
  <2>5. cmd' \in [Commands -> Command]
    BY <1>4, <2>4 DEF Bind
  <2>6. TypeOK'
    BY <1>0, <1>4, <2>1, <2>2, <2>4, <2>5 DEF TypeOK, Bind, files, binary
  <2>7. lock = p /\ ~q.listed
    BY <1>0, <1>4 DEF Inv, OneWriter, NotYetListed, Bind, Open, Process
  <2>8. UNCHANGED <<files, binary>>
    BY <1>4 DEF Bind
  <2> HIDE DEF q
  <2>9. QED
    BY <2>1, <2>2, <2>4, <2>6, <2>7, <2>8, MovesInv
<1>5. CASE WritePid(p)
  <2>1. lock = p /\ lock' = p /\ ~inst[p].listed /\ UNCHANGED cmd
    BY <1>5 DEF Inv, OneWriter, NotYetListed, WritePid, Open
  <2>2. \A q \in Pids : q # p => inst[q].at \notin Open
    BY <2>1 DEF Inv, OneWriter
  <2>3. /\ inst' \in [Pids -> Process] /\ \A q \in Pids : q # p => inst'[q] = inst[q]
        /\ \/ inst'[p].at = "pidded" /\ pidFile' = p
           \/ inst'[p].at = "serving" /\ ~inst'[p].listed /\ pidFile' \in {pidFile, Nobody}
    <3>1. CASE pidFile' = p /\ inst' = [inst EXCEPT ![p].at = "pidded", ![p].listed = TRUE]
      <4>1. [inst[p] EXCEPT !.at = "pidded", !.listed = TRUE] \in Process
        BY <1>0 DEF Process, Instance, Open
      <4>2. QED
        BY <1>0, <3>1, <4>1 DEF Process
    <3>2. CASE pidFile' \in {pidFile, Nobody} /\ Becomes(p, "serving")
      <4>1. [inst[p] EXCEPT !.at = "serving"] \in Process
        BY <1>0 DEF Process, Instance, Open
      <4>2. QED
        BY <1>0, <2>1, <3>2, <4>1 DEF Process, Becomes
    <3>3. QED
      BY <1>5, <3>1, <3>2 DEF WritePid
  <2>4. TypeOK'
    BY <1>0, <1>5, <2>3 DEF TypeOK, WritePid, binary
  <2>5. OneWriter'
    BY <2>1, <2>2, <2>3 DEF Inv, OneWriter
  <2>6. PidFileIsTrue'
    BY <2>2, <2>3 DEF PidFileIsTrue, Open
  <2>7. NotYetListed'
    BY <2>3 DEF Inv, NotYetListed
  <2>8. QED
    BY <2>4, <2>5, <2>6, <2>7 DEF Inv
<1>6. CASE WriteRunMeta(p)
  <2> DEFINE q == [inst[p] EXCEPT !.at = "serving"]
  <2>1. q \in Process /\ q.at = "serving" /\ q.listed = inst[p].listed
    BY <1>0 DEF Process, Instance, Open
  <2>2. inst' = [inst EXCEPT ![p] = q]
    BY <1>6 DEF WriteRunMeta, Becomes
  <2>3. lock = p /\ (q.listed => pidFile = p) /\ UNCHANGED <<lock, pidFile, binary, cmd>>
    BY <1>6, <2>1 DEF Inv, OneWriter, PidFileIsTrue, WriteRunMeta, Open
  <2>4. meta' \in [pid : Pids \cup {Nobody}, args : Args \cup {NoArgs}]
    BY <1>0, <1>6 DEF WriteRunMeta, TypeOK, Process
  <2>5. TypeOK'
    BY <1>0, <2>1, <2>2, <2>3, <2>4 DEF TypeOK, binary
  <2>6. /\ inst'[p] = q
        /\ \A r \in Pids : r # p => inst'[r] = inst[r]
    BY <1>0, <2>2
  <2> HIDE DEF q
  <2>7. OneWriter'
    BY <2>3, <2>6 DEF Inv, OneWriter
  <2>8. PidFileIsTrue' /\ NotYetListed'
    BY <2>1, <2>3, <2>6 DEF Inv, PidFileIsTrue, NotYetListed
  <2>9. QED
    BY <2>5, <2>7, <2>8 DEF Inv
<1>7. CASE Interrupted(p)
  BY <1>7, TerminatedInv, SameKept DEF Interrupted
<1>8. CASE Crash(p)
  BY <1>8, DiesInv, SameKept DEF Crash
<1>9. CASE Leave(p)
  <2>1. CASE inst[p].at = "leaving" /\ Dies(p) /\ UNCHANGED pidFile
    BY <1>9, <2>1, DiesInv, SameKept DEF Leave
  <2>2. CASE /\ inst[p].at \in {"serving", "draining"} /\ Becomes(p, "leaving")
             /\ pidFile' = IF inst[p].listed THEN Nobody ELSE pidFile
             /\ UNCHANGED lock
    <3>1. [inst[p] EXCEPT !.at = "leaving"] \in Process
      BY <1>0 DEF Process, Instance, Open
    <3>2. /\ inst'[p].at = "leaving" /\ inst' \in [Pids -> Process]
          /\ \A q \in Pids : q # p => inst'[q] = inst[q]
      BY <1>0, <2>2, <3>1 DEF Process, Becomes
    <3>3. lock = p
      BY <2>2 DEF Inv, OneWriter, Open
    <3>4. \A q \in Pids : q # p => inst[q].at \notin Open
      BY <3>3 DEF Inv, OneWriter
    <3>5. TypeOK'
      BY <1>0, <1>9, <2>2, <3>2 DEF TypeOK, Leave, binary
    <3>6. OneWriter'
      BY <1>9, <2>2, <3>2, <3>3 DEF Inv, OneWriter, Leave
    <3>7. PidFileIsTrue' /\ NotYetListed'
      BY <3>2, <3>4 DEF Inv, PidFileIsTrue, NotYetListed, Open
    <3>8. QED
      BY <3>5, <3>6, <3>7 DEF Inv
  <2>3. QED
    BY <1>9, <2>1, <2>2 DEF Leave
<1>10. CASE Reused(p)
  <2>1. PICK where \in {"stranger", "none"} : Becomes(p, where)
    BY <1>10 DEF Reused
  <2>2. [inst[p] EXCEPT !.at = where] \in Process /\ [inst[p] EXCEPT !.at = where].at = where
    BY <1>0 DEF Process
  <2>3. TypeOK'
    BY <1>0, <1>10, <2>1, <2>2 DEF TypeOK, Reused, Becomes, files, binary
  <2>4. QED
    BY <1>10, <2>1, <2>2, <2>3, MovesInv DEF Reused, Becomes, Open
<1>11. QED
  BY <1>1, <1>2, <1>3, <1>4, <1>5, <1>6, <1>7, <1>8, <1>9, <1>10 DEF InstanceStep
-----------------------------------------------------------------------------
\* The steps of one command: start, stop, restart and upgrade.
LEMMA CommandKeeps == ASSUME Inv, NEW c \in Commands, CommandStep(c) PROVE Inv'
<1> USE ProcessFacts
<1>0. TypeOK /\ cmd[c] \in Command /\ cmd \in [Commands -> Command]
  BY DEF Inv, TypeOK
<1>1. ASSUME NEW asked \in {"start", "stop", "restart", "upgrade"}, NEW to \in {"spawn", "look", "confirm"},
             NEW a \in Args \cup {NoArgs}, NEW f \in BOOLEAN, Asked(c, asked, to, a, f)
      PROVE  Inv'
  <2>1. [Idle EXCEPT !.kind = asked, !.at = to, !.saved = a, !.force = f] \in Command
    BY DEF Idle, Command
  <2>2. /\ cmd' \in [Commands -> Command] /\ cmd'[c].at = to
        /\ \A d \in Commands : d # c => cmd'[d] = cmd[d]
    BY <1>0, <1>1, <2>1 DEF Asked, Idle
  <2>3. TypeOK'
    BY <1>0, <1>1, <2>2 DEF TypeOK, Asked, files, binary
  <2>4. QED
    BY <1>1, <2>2, <2>3, CommandMovesInv DEF Asked, files
<1>2. CASE Start(c)
  BY <1>1, <1>2 DEF Start
<1>3. CASE Stop(c)
  BY <1>1, <1>3 DEF Stop
<1>4. CASE Restart(c)
  <2>1. meta.args \in Args \cup {NoArgs}
    BY <1>0 DEF TypeOK
  <2>2. QED
    BY <1>1, <1>4, <2>1 DEF Restart
<1>5. CASE Upgrade(c)
  BY <1>1, <1>5 DEF Upgrade
<1>6. CASE Quit(c)
  <2>1. TypeOK'
    BY <1>0, <1>6, EndsType DEF TypeOK, Quit, binary
  <2>2. QED
    BY <1>0, <1>6, <2>1, EndsType, CommandMovesInv DEF Quit, Idle
<1>7. CASE Create(c)
  <2>1. tmp' \in File
    BY <1>7 DEF Create, File
  <2>2. TypeOK'
    BY <1>0, <1>7, <2>1, GoesType DEF TypeOK, Create, files
  <2>3. QED
    BY <1>0, <1>7, <2>2, GoesType, CommandMovesInv DEF Create, files
<1>8. CASE Written(c)
  <2>1. tmp' \in File /\ exe' \in File
    BY <1>0, <1>8 DEF TypeOK, Written, File
  <2>2. /\ cmd' \in [Commands -> Command] /\ cmd'[c].at # "clear"
        /\ \A d \in Commands : d # c => cmd'[d] = cmd[d]
        /\ \A d \in Commands : cmd'[d].at \in {"waiting", "reaping"} => cmd'[d].child \in Pids
    BY <1>0, <1>8, GoesType, EndsType DEF Written, Idle
  <2>3. TypeOK'
    BY <1>0, <1>8, <2>1, <2>2 DEF TypeOK, Written, files
  <2>4. QED
    BY <1>8, <2>2, <2>3, CommandMovesInv DEF Written, files
<1>9. CASE DownloadFails(c)
  <2>1. TypeOK'
    BY <1>0, <1>9, EndsType DEF TypeOK, DownloadFails, files
  <2>2. QED
    BY <1>0, <1>9, <2>1, EndsType, CommandMovesInv DEF DownloadFails, Idle, files
<1>10. CASE Rename(c)
  <2>1. /\ cmd' \in [Commands -> Command] /\ cmd'[c].at # "clear"
        /\ \A d \in Commands : d # c => cmd'[d] = cmd[d]
        /\ \A d \in Commands : cmd'[d].at \in {"waiting", "reaping"} => cmd'[d].child \in Pids
    BY <1>0, <1>10, GoesType, EndsType DEF Rename, Idle
  <2>2. TypeOK'
    BY <1>0, <1>10, <2>1 DEF TypeOK, Rename, files, binary
  <2>3. QED
    BY <1>10, <2>1, <2>2, CommandMovesInv DEF Rename, files
<1>11. CASE RestartDaemon(c)
  <2>1. CASE RunningInstance = Nobody
    <3>1. TypeOK'
      BY <1>0, <1>11, <2>1, EndsType DEF TypeOK, RestartDaemon, files, binary
    <3>2. QED
      BY <1>0, <1>11, <2>1, <3>1, EndsType, CommandMovesInv DEF RestartDaemon, Idle, files
  <2>2. CASE RunningInstance # Nobody
    <3>1. [cmd[c] EXCEPT !.at = "look", !.saved = meta.args] \in Command
      BY <1>0 DEF TypeOK, Command
    <3>2. /\ cmd' \in [Commands -> Command] /\ cmd'[c].at = "look"
          /\ \A d \in Commands : d # c => cmd'[d] = cmd[d]
      BY <1>0, <1>11, <2>2, <3>1 DEF RestartDaemon, Command
    <3>3. TypeOK'
      BY <1>0, <1>11, <3>2 DEF TypeOK, RestartDaemon, files, binary
    <3>4. QED
      BY <1>11, <3>2, <3>3, CommandMovesInv DEF RestartDaemon, files
  <2>3. QED
    BY <2>1, <2>2
<1>12. CASE Look(c)
  <2>1. [cmd[c] EXCEPT !.at = "signal", !.target = pidFile] \in Command
    BY <1>0 DEF TypeOK, Command
  <2>2. cmd' = [cmd EXCEPT ![c].at = "signal", ![c].target = pidFile]
        => /\ cmd' \in [Commands -> Command] /\ cmd'[c].at = "signal"
           /\ \A d \in Commands : d # c => cmd'[d] = cmd[d]
    BY <1>0, <2>1 DEF Command
  <2>3. /\ cmd' \in [Commands -> Command] /\ cmd'[c].at \notin {"clear", "waiting", "reaping"}
        /\ \A d \in Commands : d # c => cmd'[d] = cmd[d]
    BY <1>0, <1>12, <2>2, GoesType, EndsType DEF Look, Idle
  <2>4. TypeOK'
    BY <1>0, <1>12, <2>3 DEF TypeOK, Look, files, binary
  <2>5. QED
    BY <1>12, <2>3, <2>4, CommandMovesInv DEF Look, files
<1>13. ASSUME lock = Nobody, lock' = c, Goes(c, "clear"), UNCHANGED <<inst, pidFile, meta, binary>>
       PROVE  Inv'
  <2>1. TypeOK'
    BY <1>0, <1>13, GoesType DEF TypeOK, binary
  <2>2. /\ \A p \in Pids : inst[p].at \notin Open
        /\ \A d \in Commands : cmd[d].at # "clear"
    BY <1>13, NobodyAssumption DEF Inv, OneWriter
  <2>3. OneWriter'
    BY <1>0, <1>13, <2>2, GoesType DEF OneWriter
  <2>4. QED
    BY <1>13, <2>1, <2>3 DEF Inv, PidFileIsTrue, NotYetListed
<1>14. CASE Vacated(c)
  <2>1. CASE lock = Nobody
    BY <1>13, <1>14, <2>1 DEF Vacated
  <2>2. CASE lock # Nobody
    <3>1. TypeOK'
      BY <1>0, <1>14, <2>2, EndsType DEF TypeOK, Vacated, binary
    <3>2. QED
      BY <1>0, <1>14, <2>2, <3>1, EndsType, CommandMovesInv DEF Vacated, Idle
  <2>3. QED
    BY <2>1, <2>2
<1>15. CASE Acquire(c)
  BY <1>13, <1>15 DEF Acquire
<1>16. ASSUME NEW to \in {"await", "killed"}, Goes(c, to) PROVE CommandsKept
  BY <1>0, <1>16, GoesType DEF CommandsKept
<1>17. ASSUME NEW to \in {"await", "killed"}, Goes(c, to), UNCHANGED <<inst, lock, pidFile, meta, binary>>
       PROVE  Inv'
  <2>1. TypeOK'
    BY <1>0, <1>17, GoesType DEF TypeOK, binary
  <2>2. QED
    BY <1>0, <1>17, <2>1, GoesType, CommandMovesInv
<1>18. CASE Signal(c)
  <2>1. CASE Alive(cmd[c].target)
    BY <1>16, <1>18, <2>1, TerminatedInv DEF Signal, Alive
  <2>2. CASE ~Alive(cmd[c].target)
    BY <1>17, <1>18, <2>2 DEF Signal
  <2>3. QED
    BY <2>1, <2>2
<1>19. CASE GraceOver(c)
  <2>1. CASE /\ Goes(c, "killed")
             /\ IF Alive(cmd[c].target) THEN Dies(cmd[c].target) ELSE UNCHANGED <<inst, lock>>
    <3>1. CASE Alive(cmd[c].target)
      BY <1>16, <1>19, <2>1, <3>1, DiesInv DEF GraceOver, Alive
    <3>2. CASE ~Alive(cmd[c].target)
      BY <1>17, <1>19, <2>1, <3>2 DEF GraceOver
    <3>3. QED
      BY <3>1, <3>2
  <2>2. CASE Ends(c) /\ UNCHANGED <<inst, lock>>
    <3>1. TypeOK'
      BY <1>0, <1>19, <2>2, EndsType DEF TypeOK, GraceOver, binary
    <3>2. QED
      BY <1>0, <1>19, <2>2, <3>1, EndsType, CommandMovesInv DEF GraceOver, Idle
  <2>3. QED
    BY <1>19, <2>1, <2>2 DEF GraceOver
<1>20. CASE RemoveRunFiles(c)
  <2>1. lock = c
    BY <1>20 DEF Inv, OneWriter, RemoveRunFiles
  <2>2. /\ \A p \in Pids : inst[p].at \notin Open
        /\ \A d \in Commands : d # c => cmd[d].at # "clear"
    BY <2>1, NobodyAssumption DEF Inv, OneWriter
  <2>3. [cmd[c] EXCEPT !.at = "spawn", !.target = Nobody, !.force = FALSE] \in Command
    BY <1>0 DEF Command
  <2>4. cmd' = [cmd EXCEPT ![c].at = "spawn", ![c].target = Nobody, ![c].force = FALSE]
        => /\ cmd' \in [Commands -> Command] /\ cmd'[c].at = "spawn"
           /\ \A d \in Commands : d # c => cmd'[d] = cmd[d]
    BY <1>0, <2>3 DEF Command
  <2>5. /\ cmd' \in [Commands -> Command] /\ cmd'[c].at \notin {"clear", "waiting", "reaping"}
        /\ \A d \in Commands : d # c => cmd'[d] = cmd[d]
    BY <1>0, <1>20, <2>4, EndsType DEF RemoveRunFiles, Idle
  <2>6. TypeOK'
    BY <1>0, <1>20, <2>1, <2>5 DEF TypeOK, RemoveRunFiles, binary
  <2>7. OneWriter' /\ PidFileIsTrue' /\ NotYetListed'
    BY <1>20, <2>2, <2>5 DEF Inv, OneWriter, PidFileIsTrue, NotYetListed, RemoveRunFiles, Open
  <2>8. QED
    BY <2>6, <2>7 DEF Inv
<1>21. CASE Spawn(c)
  <2>1. CASE exe.whole
    <3>1. PICK p \in Pids : /\ Launch(p, cmd[c].saved)
                            /\ cmd' = [cmd EXCEPT ![c].at = "waiting", ![c].child = p, ![c].saved = NoArgs]
      BY <1>21, <2>1 DEF Spawn
    <3>2. [cmd[c] EXCEPT !.at = "waiting", !.child = p, !.saved = NoArgs] \in Command
      BY <1>0 DEF Command
    <3>3. /\ cmd' \in [Commands -> Command] /\ cmd'[c].at = "waiting" /\ cmd'[c].child = p
          /\ \A d \in Commands : d # c => cmd'[d] = cmd[d]
      BY <1>0, <3>1, <3>2 DEF Command
    <3> DEFINE q == [at |-> "boot", args |-> cmd[c].saved, listed |-> FALSE]
    <3>4. q \in Process /\ q.at = "boot" /\ ~q.listed
      BY <1>0 DEF Process, Instance, Command
    <3>5. inst' = [inst EXCEPT ![p] = q]
      BY <3>1 DEF Launch
    <3>6. TypeOK'
      BY <1>0, <1>21, <3>3, <3>4, <3>5 DEF TypeOK, Spawn, files, binary
    <3> HIDE DEF q
    <3>7. QED
      BY <1>21, <3>3, <3>4, <3>5, <3>6, MovesInv DEF Spawn, Open
  <2>2. CASE ~exe.whole
    <3>1. TypeOK'
      BY <1>0, <1>21, <2>2, EndsType DEF TypeOK, Spawn, files, binary
    <3>2. QED
      BY <1>0, <1>21, <2>2, <3>1, EndsType, CommandMovesInv DEF Spawn, Idle, files
  <2>3. QED
    BY <2>1, <2>2
<1>22. CASE Reported(c)
  <2>1. TypeOK'
    BY <1>0, <1>22, EndsType DEF TypeOK, Reported, files, binary
  <2>2. QED
    BY <1>0, <1>22, <2>1, EndsType, CommandMovesInv DEF Reported, Idle, files
<1>23. CASE DeadlineOver(c)
  <2>1. cmd[c].at = "waiting" => cmd[c].child \in Pids
    BY <1>0 DEF TypeOK
  <2>2. /\ cmd' \in [Commands -> Command] /\ cmd'[c].at # "clear"
        /\ \A d \in Commands : d # c => cmd'[d] = cmd[d]
        /\ \A d \in Commands : cmd'[d].at \in {"waiting", "reaping"} => cmd'[d].child \in Pids
    BY <1>0, <1>23, <2>1, GoesType, EndsType DEF DeadlineOver, Idle
  <2>3. TypeOK'
    BY <1>0, <1>23, <2>2 DEF TypeOK, DeadlineOver, files, binary
  <2>4. QED
    BY <1>23, <2>2, <2>3, CommandMovesInv DEF DeadlineOver, files
<1>24. QED
  BY <1>2, <1>3, <1>4, <1>5, <1>6, <1>7, <1>8, <1>9, <1>10, <1>11, <1>12, <1>14, <1>15,
     <1>18, <1>19, <1>20, <1>21, <1>22, <1>23 DEF CommandStep
-----------------------------------------------------------------------------
\* The lock, the database and the pid file agree in every reachable state.
LEMMA InvHolds == Spec => []Inv
<1>1. ASSUME Inv, [Next]_vars PROVE Inv'
  <2>1. CASE Next
    BY <1>1, <2>1, InstanceKeeps, CommandKeeps DEF Next
  <2>2. CASE UNCHANGED vars
    BY <1>1, <2>2 DEF Inv, TypeOK, OneWriter, PidFileIsTrue, NotYetListed, vars, files, binary
  <2>3. QED
    BY <1>1, <2>1, <2>2
<1>2. QED
  BY InitInv, <1>1, PTL DEF Spec

\* Processes, files and commands keep their types.
THEOREM TypeCorrect == Spec => []TypeOK
<1>1. Inv => TypeOK
  BY DEF Inv
<1>2. QED
  BY <1>1, InvHolds, PTL

\* The database has one user at a time: an instance that holds the lock, or
\* none while a command clears up after the last.
THEOREM DatabaseHasOneWriter == Spec => []OneWriter
<1>1. Inv => OneWriter
  BY DEF Inv
<1>2. QED
  BY <1>1, InvHolds, PTL

\* The pid file of a running instance names it, whoever stops, crashes and
\* starts around it.
THEOREM PidFileNamesTheInstance == Spec => []PidFileIsTrue
<1>1. Inv => PidFileIsTrue
  BY DEF Inv
<1>2. QED
  BY <1>1, InvHolds, PTL
-----------------------------------------------------------------------------
(* The installed binary, for as long as one shell upgrades.                *)

\* At most one shell is ever asked to upgrade.  Two that upgrade at once name
\* their temporary file alike, and the first can rename what the second has
\* only begun to write: without this the binary need not be whole.
OneUpgrader == \A c, d \in Commands : "upgrade" \in Asks[c] /\ "upgrade" \in Asks[d] => c = d

\* Where the temporary file has a meaning for a command.
Upgrading == {"confirm", "downloading", "downloaded"}

\* What the upgrade that downloads has made of the temporary file, which is
\* nobody else's.
DownloadIsOwn ==
    \A c \in Commands :
        /\ cmd[c].at \in Upgrading => "upgrade" \in Asks[c]
        /\ cmd[c].at \in {"downloading", "downloaded"} => tmp.by = c
        /\ cmd[c].at = "downloaded" => tmp.whole

BinaryInv == TypeOK /\ BinaryIsWhole /\ DownloadIsOwn

\* A step that leaves the files of an upgrade alone, and that no upgrade makes.
LEMMA BinaryKept ==
    ASSUME BinaryInv, UNCHANGED binary,
           \A d \in Commands : cmd'[d].at = cmd[d].at \/ cmd'[d].at \notin Upgrading
    PROVE  BinaryIsWhole' /\ DownloadIsOwn'
  BY DEF BinaryInv, BinaryIsWhole, DownloadIsOwn, binary, Upgrading

\* An instance never touches the binary or the temporary file; of a command it only
\* makes known to one that waits that it is ready.
LEMMA InstanceKeepsBinary ==
    ASSUME BinaryInv, NEW p \in Pids, InstanceStep(p)
    PROVE  BinaryIsWhole' /\ DownloadIsOwn'
<1>1. CASE Bind(p)
  <2>1. \A d \in Commands : cmd[d] \in Command
    BY DEF BinaryInv, TypeOK
  <2>2. \A d \in Commands : cmd'[d] \in {cmd[d], [cmd[d] EXCEPT !.ready = TRUE]}
    BY <1>1 DEF Bind
  <2>3. \A d \in Commands : [cmd[d] EXCEPT !.ready = TRUE].at = cmd[d].at
    BY <2>1 DEF Command
  <2>4. \A d \in Commands : cmd'[d].at = cmd[d].at
    BY <2>2, <2>3
  <2>5. UNCHANGED binary
    BY <1>1 DEF Bind
  <2>6. QED
    BY <2>4, <2>5, BinaryKept
<1>2. CASE ~Bind(p)
  <2>1. UNCHANGED <<binary, cmd>>
    BY <1>2 DEF InstanceStep, Foreground, TakeLock, BootFails, WritePid, WriteRunMeta,
                Interrupted, Crash, Leave, Reused
  <2>2. QED
    BY <2>1, BinaryKept
<1>3. QED
  BY <1>1, <1>2

\* The steps of a command: of all but the upgrades the binary is left alone ...
LEMMA CommandSteps ==
    ASSUME TypeOK, NEW c \in Commands, CommandStep(c)
    PROVE  /\ \A d \in Commands : d # c => cmd'[d] = cmd[d]
           /\ \/ UNCHANGED binary /\ cmd'[c].at \notin Upgrading
              \/ Upgrade(c) \/ Create(c) \/ Written(c) \/ DownloadFails(c) \/ Rename(c)
<1>0. cmd \in [Commands -> Command] /\ Idle.at = "idle"
  BY DEF TypeOK, Idle
<1>1. ASSUME NEW rec, cmd' = [cmd EXCEPT ![c] = rec]
      PROVE  cmd'[c] = rec /\ \A d \in Commands : d # c => cmd'[d] = cmd[d]
  BY <1>0, <1>1
<1>2. ASSUME NEW to, Goes(c, to)
      PROVE  cmd'[c].at = to /\ \A d \in Commands : d # c => cmd'[d] = cmd[d]
  <2>1. cmd' = [cmd EXCEPT ![c] = [cmd[c] EXCEPT !.at = to]]
    BY <1>2 DEF Goes
  <2>2. [cmd[c] EXCEPT !.at = to].at = to
    BY <1>0 DEF Command
  <2>3. QED
    BY <1>1, <2>1, <2>2
<1>3. ASSUME Ends(c)
      PROVE  cmd'[c].at = "idle" /\ \A d \in Commands : d # c => cmd'[d] = cmd[d]
  BY <1>0, <1>1, <1>3 DEF Ends
<1>4. ASSUME NEW asked, NEW to, NEW a, NEW f, Asked(c, asked, to, a, f)
      PROVE  /\ cmd'[c].at = to /\ UNCHANGED binary
             /\ \A d \in Commands : d # c => cmd'[d] = cmd[d]
  <2>1. cmd' = [cmd EXCEPT ![c] = [Idle EXCEPT !.kind = asked, !.at = to, !.saved = a, !.force = f]]
    BY <1>4 DEF Asked
  <2>2. [Idle EXCEPT !.kind = asked, !.at = to, !.saved = a, !.force = f].at = to
    BY DEF Idle
  <2>3. QED
    BY <1>1, <1>4, <2>1, <2>2 DEF Asked
<1>5. CASE Start(c) \/ Stop(c) \/ Restart(c) \/ Upgrade(c)
  <2>1. CASE Start(c) \/ Stop(c) \/ Restart(c)
    <3>1. CASE Start(c)
      <4>1. PICK a \in Args : Asked(c, "start", "spawn", a, FALSE)
        BY <3>1 DEF Start
      <4>2. /\ cmd'[c].at = "spawn" /\ UNCHANGED binary
            /\ \A d \in Commands : d # c => cmd'[d] = cmd[d]
        BY <1>4, <4>1
      <4>3. QED
        BY <4>2 DEF Upgrading
    <3>2. CASE Stop(c)
      <4>1. PICK f \in BOOLEAN : Asked(c, "stop", "look", NoArgs, f)
        BY <3>2 DEF Stop
      <4>2. QED
        BY <1>4, <4>1 DEF Upgrading
    <3>3. CASE Restart(c)
      <4>1. PICK to : to = IF RunningInstance # Nobody THEN "look" ELSE "spawn"
        OBVIOUS
      <4>2. PICK f \in BOOLEAN : Asked(c, "restart", to, meta.args, f)
        BY <3>3, <4>1 DEF Restart
      <4>3. QED
        BY <1>4, <4>1, <4>2 DEF Upgrading
    <3>4. QED
      BY <2>1, <3>1, <3>2, <3>3
  <2>2. CASE Upgrade(c)
    BY <1>4, <2>2 DEF Upgrade
  <2>3. QED
    BY <1>5, <2>1, <2>2
<1>6. CASE Create(c) \/ Written(c) \/ DownloadFails(c) \/ Rename(c)
  BY <1>2, <1>3, <1>6 DEF Create, Written, DownloadFails, Rename
<1>7. CASE Quit(c) \/ Vacated(c) \/ Signal(c) \/ Acquire(c) \/ GraceOver(c) \/ Reported(c) \/ DeadlineOver(c)
  <2>1. UNCHANGED binary
    BY <1>7 DEF Quit, Vacated, Signal, Acquire, GraceOver, Reported, DeadlineOver
  <2>2. Ends(c) \/ \E to \in {"clear", "await", "killed", "reaping"} : Goes(c, to)
    BY <1>7 DEF Quit, Vacated, Signal, Acquire, GraceOver, Reported, DeadlineOver
  <2>3. QED
    BY <1>2, <1>3, <2>1, <2>2 DEF Upgrading
<1>8. CASE RestartDaemon(c) \/ Look(c) \/ RemoveRunFiles(c)
  <2>1. UNCHANGED binary
    BY <1>8 DEF RestartDaemon, Look, RemoveRunFiles
  <2>2. CASE Ends(c)
    BY <1>3, <2>1, <2>2 DEF Upgrading
  <2>3. CASE Goes(c, "vacant")
    BY <1>2, <2>1, <2>3 DEF Upgrading
  <2>4. CASE cmd' = [cmd EXCEPT ![c].at = "look", ![c].saved = meta.args]
    BY <1>0, <2>1, <2>4 DEF Upgrading, Command
  <2>5. CASE cmd' = [cmd EXCEPT ![c].at = "signal", ![c].target = pidFile]
    BY <1>0, <2>1, <2>5 DEF Upgrading, Command
  <2>6. CASE cmd' = [cmd EXCEPT ![c].at = "spawn", ![c].target = Nobody, ![c].force = FALSE]
    BY <1>0, <2>1, <2>6 DEF Upgrading, Command
  <2>7. QED
    BY <1>8, <2>2, <2>3, <2>4, <2>5, <2>6 DEF RestartDaemon, Look, RemoveRunFiles
<1>9. CASE Spawn(c)
  <2>1. UNCHANGED binary
    BY <1>9 DEF Spawn
  <2>2. \/ Ends(c)
        \/ \E p \in Pids : cmd' = [cmd EXCEPT ![c] =
              [cmd[c] EXCEPT !.at = "waiting", !.child = p, !.saved = NoArgs]]
    BY <1>0, <1>9 DEF Spawn
  <2>3. \A p \in Pids : [cmd[c] EXCEPT !.at = "waiting", !.child = p, !.saved = NoArgs].at = "waiting"
    BY <1>0 DEF Command
  <2>4. QED
    BY <1>1, <1>3, <2>1, <2>2, <2>3 DEF Upgrading
<1>10. QED
  BY <1>5, <1>6, <1>7, <1>8, <1>9 DEF CommandStep

\* ... and the upgrade renames what it has downloaded whole.
LEMMA UpgradeKeepsBinary ==
    ASSUME OneUpgrader, BinaryInv, NEW c \in Commands, CommandStep(c)
    PROVE  BinaryIsWhole' /\ DownloadIsOwn'
<1>0. /\ TypeOK /\ cmd \in [Commands -> Command] /\ Idle.at = "idle"
      /\ exe.whole /\ exe \in File /\ tmp \in File
  BY DEF BinaryInv, TypeOK, BinaryIsWhole, Idle
<1>1. \A d \in Commands : d # c => cmd'[d] = cmd[d]
  BY <1>0, CommandSteps
<1>2. CASE UNCHANGED binary /\ cmd'[c].at \notin Upgrading
  BY <1>1, <1>2, BinaryKept
<1>3. CASE Upgrade(c)
  <2>1. "upgrade" \in Asks[c] /\ UNCHANGED binary /\ cmd' = [cmd EXCEPT ![c] =
            [Idle EXCEPT !.kind = "upgrade", !.at = "confirm", !.saved = NoArgs, !.force = FALSE]]
    BY <1>3 DEF Upgrade, Asked
  <2>2. cmd'[c].at = "confirm"
    BY <1>0, <2>1 DEF Idle
  <2>3. QED
    BY <1>1, <2>1, <2>2 DEF BinaryInv, BinaryIsWhole, DownloadIsOwn, binary, Upgrading
<1>4. ASSUME cmd[c].at \in Upgrading
      PROVE  /\ "upgrade" \in Asks[c]
             /\ \A d \in Commands : d # c => cmd'[d].at \notin Upgrading
  BY <1>1, <1>4 DEF OneUpgrader, BinaryInv, DownloadIsOwn
<1>5. ASSUME NEW to, Goes(c, to) PROVE cmd'[c].at = to
  <2>1. cmd' = [cmd EXCEPT ![c] = [cmd[c] EXCEPT !.at = to]]
    BY <1>5 DEF Goes
  <2>2. QED
    BY <1>0, <2>1 DEF Command
<1>6. ASSUME Ends(c) PROVE cmd'[c].at = "idle"
  BY <1>0, <1>6 DEF Ends
<1>7. CASE Create(c)
  <2>1. cmd[c].at = "confirm" /\ cmd'[c].at = "downloading" /\ exe' = exe /\ tmp'.by = c
    BY <1>5, <1>7 DEF Create
  <2>2. QED
    BY <1>0, <1>4, <2>1 DEF BinaryIsWhole, DownloadIsOwn, Upgrading
<1>8. CASE Written(c)
  <2>1. cmd[c].at = "downloading" /\ tmp.by = c
    BY <1>8 DEF Written, BinaryInv, DownloadIsOwn
  <2>2. tmp' = [tmp EXCEPT !.whole = TRUE] /\ exe' \in {exe, [exe EXCEPT !.whole = TRUE]}
    BY <1>8, <2>1 DEF Written
  <2>3. tmp'.whole /\ tmp'.by = c /\ exe'.whole
    BY <1>0, <2>1, <2>2 DEF File
  <2>4. cmd'[c].at \in {"idle", "downloaded"}
    BY <1>5, <1>6, <1>8 DEF Written
  <2>5. QED
    BY <1>4, <2>1, <2>3, <2>4 DEF BinaryIsWhole, DownloadIsOwn, Upgrading
<1>9. CASE DownloadFails(c)
  <2>1. cmd[c].at = "downloading" /\ cmd'[c].at = "idle" /\ exe' = exe
    BY <1>6, <1>9 DEF DownloadFails
  <2>2. QED
    BY <1>0, <1>4, <2>1 DEF BinaryIsWhole, DownloadIsOwn, Upgrading
<1>10. CASE Rename(c)
  <2>1. cmd[c].at = "downloaded" /\ tmp.whole
    BY <1>10 DEF Rename, BinaryInv, DownloadIsOwn
  <2>2. exe' \in {exe, tmp} /\ cmd'[c].at \in {"idle", "probe"}
    BY <1>5, <1>6, <1>10 DEF Rename, binary
  <2>3. QED
    BY <1>0, <1>4, <2>1, <2>2 DEF BinaryIsWhole, DownloadIsOwn, Upgrading
<1>11. QED
  BY <1>0, <1>2, <1>3, <1>7, <1>8, <1>9, <1>10, CommandSteps

\* However an upgrade is broken off, and whatever starts, stops and crashes
\* around it, the installed binary is all there, when at most one shell ever
\* upgrades (upgrade.go writes a temporary file beside the binary and renames
\* it).
THEOREM BinaryStaysWhole ==
    ASSUME OneUpgrader
    PROVE  Spec => []BinaryIsWhole
<1>1. Init => BinaryIsWhole /\ DownloadIsOwn
  BY DEF Init, BinaryIsWhole, DownloadIsOwn, OldRelease, Idle, Upgrading
<1>2. ASSUME TypeOK, BinaryIsWhole /\ DownloadIsOwn, [Next]_vars
      PROVE  (BinaryIsWhole /\ DownloadIsOwn)'
  <2>1. BinaryInv
    BY <1>2 DEF BinaryInv
  <2>2. CASE Next
    BY <2>1, <2>2, InstanceKeepsBinary, UpgradeKeepsBinary DEF Next
  <2>3. CASE UNCHANGED vars
    BY <2>1, <2>3, BinaryKept DEF vars
  <2>4. QED
    BY <1>2, <2>2, <2>3
<1>3. QED
  BY <1>1, <1>2, TypeCorrect, PTL DEF Spec
=============================================================================
