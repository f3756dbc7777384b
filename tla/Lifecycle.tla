----------------------------- MODULE Lifecycle -----------------------------
(***************************************************************************)
(* The processes of main.rs that share one server's state directory: the   *)
(* daemon and the commands that start, restart, stop, signal and query it. *)
(* They meet in two files, the lock file with its flock and the pidfile,   *)
(* and each of their system calls on these is a step of its own.           *)
(***************************************************************************)
EXTENDS Integers, FiniteSets

CONSTANTS
  Pids,         \* process ids
  NoPid,
  Commands,     \* the commands the user and herdr's hooks run: members of AllCommands
  MaxCommands,  \* how many of them
  Late,         \* those of which one may come after that, beside one other at most
  Overlap,      \* FALSE if a command is run only when the one before is done
  MaxKills      \* how many processes are killed from outside

AllCommands == {"start", "run", "restart", "stop", "reload", "reset", "status"}

ASSUME LifecycleAssumption ==
  /\ Pids \subseteq Nat /\ NoPid \notin Pids /\ Commands \subseteq AllCommands
  /\ Late \subseteq Commands /\ MaxCommands \in Nat /\ MaxKills \in Nat

VARIABLES
  pc,        \* where each process is; "none" for an id not in use
  job,       \* what is left of a command to do
  seen,      \* the pid a command has read from the pidfile
  lock,      \* the process that holds the flock
  lockfile,  \* TRUE once triggersd.lock exists; nothing ever removes it
  pidfile,   \* the pid in triggersd.pid, NoPid if it has none
  stopping,  \* the daemons whose STOP is set
  commands,  \* commands run so far
  kills      \* processes killed from outside so far

vars == <<pc, job, seen, lock, lockfile, pidfile, stopping, commands, kills>>

\* A daemon from taking the lock to its death. It has its signal handlers from
\* "run" on; before, and in any other process, a signal kills.
Handling == {"run", "remove", "exit"}
Serving == {"pidfile", "write", "handlers"} \cup Handling

\* A command: about to try the lock, holding it, about to read the pidfile, about
\* to signal, about to fork.
AtWork == {"probe", "probing", "read", "kill", "fork"}

\* "other" is a process that has nothing to do with this program, and "lock" the
\* detached child that has not tried the lock yet.
Points == {"none", "other", "lock"} \cup Serving \cup AtWork

\* "signal" is restart's stop, "wait" its wait for the lock.
Jobs == Commands \cup {"start", "signal", "wait"}

Init ==
  /\ pc = [p \in Pids |-> "none"]
  /\ job = [p \in Pids |-> "start"] /\ seen = [p \in Pids |-> NoPid]
  /\ lock = NoPid /\ lockfile = FALSE /\ pidfile = NoPid
  /\ stopping = {} /\ commands = 0 /\ kills = 0

\* The kernel closes a dead process's files, and with them goes its flock.
Unlocked(p) == IF lock = p THEN NoPid ELSE lock

Dies(p) ==
  /\ pc' = [pc EXCEPT ![p] = "none"]
  /\ lock' = Unlocked(p)
  /\ stopping' = stopping \ {p}
  /\ job' = [job EXCEPT ![p] = "start"] /\ seen' = [seen EXCEPT ![p] = NoPid]

\* The ids written down somewhere, of live processes or of dead ones.
Noted == {pidfile} \cup {seen[p] : p \in Pids}

\* The kernel gives a new process an id not in use: one that is still noted, or
\* one that is not, and these are all alike.
NewPid(p) ==
  /\ pc[p] = "none"
  /\ p \in Noted \/ \A q \in Pids \ Noted : pc[q] = "none" => p <= q

----------------------------------------------------------------------------
(* lock_is_free and running_pid.                                           *)

\* Mutant: the probe's lock is not given back.
GoesLocked(p, point, rest) ==
  /\ pc' = [pc EXCEPT ![p] = point] /\ job' = [job EXCEPT ![p] = rest]
  /\ UNCHANGED <<seen, lock, stopping>>

\* On to the next point; a lock the probe took is given back.
Goes(p, point, rest) ==
  /\ pc' = [pc EXCEPT ![p] = point] /\ job' = [job EXCEPT ![p] = rest]
  /\ lock' = Unlocked(p)
  /\ UNCHANGED <<seen, stopping>>

\* No daemon was found: start launches one, restart goes on to start, and a
\* command that needs a daemon fails.
NoDaemonFound(p) ==
  \/ job[p] = "start" /\ Goes(p, "fork", "start")
  \/ job[p] \in {"restart", "wait"} /\ Goes(p, "probe", "start")
  \/ job[p] \notin {"start", "restart", "wait"} /\ Dies(p)

\* Without a lock file there is nothing to try.
NeverLocked(p) ==
  /\ pc[p] = "probe" /\ ~ lockfile
  /\ NoDaemonFound(p)
  /\ UNCHANGED <<lockfile, pidfile, commands, kills>>

\* The probe takes the lock itself, if only for a moment.
ProbeFree(p) ==
  /\ pc[p] = "probe" /\ lockfile /\ lock = NoPid
  /\ lock' = p /\ pc' = [pc EXCEPT ![p] = "probing"]
  /\ UNCHANGED <<job, seen, lockfile, pidfile, stopping, commands, kills>>

Release(p) ==
  /\ pc[p] = "probing"
  /\ NoDaemonFound(p)
  /\ UNCHANGED <<lockfile, pidfile, commands, kills>>

\* restart tries again until its deadline; everyone else reads the pidfile.
ProbeBusy(p) ==
  /\ pc[p] = "probe" /\ lockfile /\ lock # NoPid
  /\ job[p] # "wait" /\ Goes(p, "read", job[p])
  /\ UNCHANGED <<lockfile, pidfile, commands, kills>>

GiveUp(p) ==
  /\ pc[p] = "probe" /\ lockfile /\ lock # NoPid
  /\ job[p] = "wait" /\ Dies(p)
  /\ UNCHANGED <<lockfile, pidfile, commands, kills>>

\* A pidfile without a pid, absent or half written, counts as no daemon.
ReadNothing(p) ==
  /\ pc[p] = "read" /\ pidfile = NoPid
  /\ NoDaemonFound(p)
  /\ UNCHANGED <<lockfile, pidfile, commands, kills>>

\* A daemon is running, or so it seems.
AlreadyRunning(p) ==
  /\ pc[p] = "read" /\ pidfile # NoPid
  /\ \/ job[p] \in {"start", "status"} /\ Dies(p)
     \/ job[p] = "restart" /\ Goes(p, "probe", "signal")
  /\ UNCHANGED <<lockfile, pidfile, commands, kills>>

\* Mutant: an empty pidfile read as a pid.
ReadAnything(p) ==
  /\ pc[p] = "read" /\ job[p] \in {"stop", "signal", "reload", "reset"}
  /\ pc' = [pc EXCEPT ![p] = "kill"] /\ seen' = [seen EXCEPT ![p] = pidfile]
  /\ UNCHANGED <<job, lock, lockfile, pidfile, stopping, commands, kills>>

ReadPid(p) ==
  /\ pc[p] = "read" /\ pidfile # NoPid
  /\ job[p] \in {"stop", "signal", "reload", "reset"}
  /\ pc' = [pc EXCEPT ![p] = "kill"] /\ seen' = [seen EXCEPT ![p] = pidfile]
  /\ UNCHANGED <<job, lock, lockfile, pidfile, stopping, commands, kills>>

----------------------------------------------------------------------------
(* signal_daemon.                                                          *)

\* The processes gone after p's signal: its target, unless that handles signals,
\* and p itself, unless it has a restart to finish.
Falls(p) ==
  LET d == seen[p]
  IN  (IF pc[d] \in Handling THEN {} ELSE {d})
        \cup (IF job[p] = "signal" /\ pc[d] # "none" THEN {} ELSE {p})

Unheeded(p) == {}   \* mutant: a handler that sets no flag

\* The daemon whose handler sets STOP.
Signalled(p) ==
  IF job[p] \in {"stop", "signal"} /\ pc[seen[p]] \in Handling THEN {seen[p]} ELSE {}

Kill(p) ==
  /\ pc[p] = "kill"
  /\ pc' = [q \in Pids |-> IF q \in Falls(p) THEN "none" ELSE IF q = p THEN "probe" ELSE pc[q]]
  /\ job' = [q \in Pids |-> IF q \in Falls(p) THEN "start" ELSE IF q = p THEN "wait" ELSE job[q]]
  /\ seen' = [q \in Pids |-> IF q \in Falls(p) \cup {p} THEN NoPid ELSE seen[q]]
  /\ lock' = IF lock \in Falls(p) THEN NoPid ELSE lock
  /\ stopping' = (stopping \cup Signalled(p)) \ Falls(p)
  /\ UNCHANGED <<lockfile, pidfile, commands, kills>>

----------------------------------------------------------------------------
(* start's detach and daemon_main.                                         *)

\* The child that will be the daemon gets a pid; the command exits.
Fork(p, d) ==
  /\ pc[p] = "fork" /\ NewPid(d)
  /\ pc' = [pc EXCEPT ![p] = "none", ![d] = "lock"]
  /\ UNCHANGED <<job, seen, lock, lockfile, pidfile, stopping, commands, kills>>

\* Mutant: a lock that does not exclude.
AcquireAnyway(d) ==
  /\ pc[d] = "lock"
  /\ lockfile' = TRUE /\ lock' = d
  /\ pc' = [pc EXCEPT ![d] = "pidfile"]
  /\ UNCHANGED <<job, seen, pidfile, stopping, commands, kills>>

\* Mutant: a daemon that comes too late for the lock removes the pidfile.
AcquireOrRemove(d) ==
  /\ pc[d] = "lock"
  /\ lockfile' = TRUE
  /\ IF lock = NoPid
     THEN lock' = d /\ pc' = [pc EXCEPT ![d] = "pidfile"] /\ UNCHANGED pidfile
     ELSE UNCHANGED lock /\ pc' = [pc EXCEPT ![d] = "none"] /\ pidfile' = NoPid
  /\ UNCHANGED <<job, seen, stopping, commands, kills>>

\* The lock is not waited for: a daemon that does not get it exits.
Acquire(d) ==
  /\ pc[d] = "lock"
  /\ lockfile' = TRUE
  /\ IF lock = NoPid
     THEN lock' = d /\ pc' = [pc EXCEPT ![d] = "pidfile"]
     ELSE UNCHANGED lock /\ pc' = [pc EXCEPT ![d] = "none"]
  /\ UNCHANGED <<job, seen, pidfile, stopping, commands, kills>>

\* write_pidfile truncates the file, then writes to it.
TruncatePidfile(d) ==
  /\ pc[d] = "pidfile"
  /\ pidfile' = NoPid /\ pc' = [pc EXCEPT ![d] = "write"]
  /\ UNCHANGED <<job, seen, lock, lockfile, stopping, commands, kills>>

WritePidfile(d) ==
  /\ pc[d] = "write"
  /\ pidfile' = d /\ pc' = [pc EXCEPT ![d] = "handlers"]
  /\ UNCHANGED <<job, seen, lock, lockfile, stopping, commands, kills>>

InstallHandlers(d) ==
  /\ pc[d] = "handlers"
  /\ pc' = [pc EXCEPT ![d] = "run"]
  /\ UNCHANGED <<job, seen, lock, lockfile, pidfile, stopping, commands, kills>>

\* Mutant: the lock is released before the pidfile is removed.
StopLoopUnlocked(d) ==
  /\ pc[d] = "run" /\ d \in stopping
  /\ pc' = [pc EXCEPT ![d] = "remove"] /\ lock' = NoPid
  /\ UNCHANGED <<job, seen, lockfile, pidfile, stopping, commands, kills>>

\* Engine::run returns.
StopLoop(d) ==
  /\ pc[d] = "run" /\ d \in stopping
  /\ pc' = [pc EXCEPT ![d] = "remove"]
  /\ UNCHANGED <<job, seen, lock, lockfile, pidfile, stopping, commands, kills>>

RemovePidfile(d) ==
  /\ pc[d] = "remove"
  /\ pidfile' = NoPid /\ pc' = [pc EXCEPT ![d] = "exit"]
  /\ UNCHANGED <<job, seen, lock, lockfile, stopping, commands, kills>>

Exit(d) ==
  /\ pc[d] = "exit"
  /\ Dies(d)
  /\ UNCHANGED <<lockfile, pidfile, commands, kills>>

----------------------------------------------------------------------------
(* Outside.                                                                *)

Working == {q \in Pids : pc[q] \in AtWork}

\* The bounds on the commands.
MayRun(c) ==
  \/ commands < MaxCommands /\ (Overlap \/ Working = {})
  \/ commands = MaxCommands /\ c \in Late /\ Cardinality(Working) <= 1

Command(p, c) ==
  /\ NewPid(p) /\ MayRun(c)
  /\ commands' = commands + 1
  /\ pc' = [pc EXCEPT ![p] = IF c = "run" THEN "lock" ELSE "probe"]
  /\ job' = [job EXCEPT ![p] = IF c = "run" THEN "start" ELSE c]
  /\ UNCHANGED <<seen, lock, lockfile, pidfile, stopping, kills>>

\* Some other program gets a pid that this one still has a use for.
Unrelated(p) ==
  /\ pc[p] = "none" /\ p \in Noted
  /\ pc' = [pc EXCEPT ![p] = "other"]
  /\ UNCHANGED <<job, seen, lock, lockfile, pidfile, stopping, commands, kills>>

Killed(p) ==
  /\ pc[p] \notin {"none", "other"} /\ kills < MaxKills
  /\ kills' = kills + 1
  /\ Dies(p)
  /\ UNCHANGED <<lockfile, pidfile, commands>>

----------------------------------------------------------------------------
Step(p) ==
  \/ NeverLocked(p) \/ ProbeFree(p) \/ Release(p) \/ ProbeBusy(p) \/ GiveUp(p)
  \/ ReadNothing(p) \/ AlreadyRunning(p) \/ ReadPid(p) \/ Kill(p)
  \/ \E d \in Pids : Fork(p, d)
  \/ Acquire(p) \/ TruncatePidfile(p) \/ WritePidfile(p) \/ InstallHandlers(p)
  \/ StopLoop(p) \/ RemovePidfile(p) \/ Exit(p)

Outside(p) == (\E c \in Commands : Command(p, c)) \/ Unrelated(p) \/ Killed(p)

Next == \E p \in Pids : Step(p) \/ Outside(p)

Spec == Init /\ [][Next]_vars

\* The scheduler runs every process that can run.
Fairness == \A p \in Pids : WF_vars(Step(p))

FairSpec == Spec /\ Fairness

----------------------------------------------------------------------------
\* The types; in particular a command about to signal has a pid to signal, whatever
\* the pidfile held when it was read.
TypeOK ==
  /\ pc \in [Pids -> Points] /\ job \in [Pids -> Jobs]
  /\ seen \in [Pids -> Pids \cup {NoPid}]
  /\ lock \in Pids \cup {NoPid} /\ lockfile \in BOOLEAN
  /\ pidfile \in Pids \cup {NoPid}
  /\ stopping \subseteq Pids
  /\ commands \in Nat /\ kills \in 0..MaxKills
  /\ \A p \in Pids : pc[p] = "kill" => seen[p] \in Pids

\* Two daemons would each answer every prompt, a password typed twice. However
\* many starts race, whoever is killed and whatever probes the lock, at most one
\* process gets as far as polling herdr.
AtMostOneDaemon ==
  \A d, e \in Pids : pc[d] \in Serving /\ pc[e] \in Serving => d = e

\* A daemon that is up can be found: it holds the lock and the pidfile names it,
\* whichever processes came, went and were killed before.
RunningDaemonIsFound ==
  \A d \in Pids : pc[d] = "run" => lock = d /\ pidfile = d

\* Why: whoever is in the daemon's or the probe's critical section holds the lock,
\* and only the holder touches the pidfile.
LockInv ==
  /\ \A p \in Pids : pc[p] \in Serving \cup {"probing"} => lock = p
  /\ lock # NoPid => pc[lock] \in Serving \cup {"probing"}
  /\ \A d \in Pids : pc[d] \in {"handlers", "run", "remove"} => pidfile = d

\* The daemon as SoleDaemon sees it.
Daemon == IF lock \in Pids /\ pc[lock] \in Serving THEN lock ELSE NoPid

Phase ==
  IF Daemon = NoPid THEN "none"
  ELSE IF pc[lock] \in {"pidfile", "write"} THEN "coming"
  ELSE IF pc[lock] = "exit" THEN "leaving"
  ELSE "announced"

Sole == INSTANCE SoleDaemon WITH daemon <- Daemon, phase <- Phase, announced <- pidfile

\* Daemons follow one another without overlap, and the pidfile is written by the one
\* there is: whichever starts race, whatever probes the lock, whoever is killed, no
\* process that is not the daemon touches what the others are told.
DaemonsTakeTurns == Sole!DaemonSpec

Up == \E d \in Pids : pc[d] = "run"

\* A command is about to signal a stop that is itself about to signal: the pidfile it
\* read named a dead daemon, and the stop now has that pid.
StopsCollide == \E p \in Pids : pc[p] = "kill" /\ pc[seen[p]] = "kill"

\* A stop that has found a daemon that is up brings it down, wherever it is in its
\* loop and whatever other commands do to lock and pidfile meanwhile. A stop killed
\* before it could signal cannot, be it from outside or by another command's signal.
StopIsObeyed ==
  \A n \in 0..MaxKills :
    (/\ \E p \in Pids : pc[p] = "kill" /\ job[p] \in {"stop", "signal"} /\ pc[seen[p]] = "run"
     /\ kills = n)
      ~> (~ Up \/ StopsCollide \/ kills # n)

\* Another command is at work, whose probes take the lock and whose signals kill.
Disturbed == \E p \in Pids : pc[p] \in AtWork /\ job[p] # "start"

Leaving == \E d \in Pids : pc[d] \in {"remove", "exit"}

\* However many starts race, a daemon comes up in the end: the lock a start's
\* daemon may miss is held by another start's probe, which then launches its own.
RacingStartsComeUp ==
  \A n \in 0..MaxKills :
    ((\E p \in Pids : pc[p] = "fork") /\ kills = n)
      ~> (Up \/ Disturbed \/ Leaving \/ kills # n)

\* A restart that launches a daemon has one running in the end, also when it came
\* upon the old one leaving.
RestartComesUp ==
  \A n \in 0..MaxKills :
    ((\E p \in Pids : pc[p] = "fork") /\ kills = n) ~> (Up \/ Disturbed \/ kills # n)

\* A command that finds the lock taken may believe the pidfile: it names a daemon,
\* not what an earlier daemon left behind. start would refuse because of it, and
\* stop would signal whoever has that pid now.
BusyLockVouchesForPidfile ==
  [][\A p \in Pids : ProbeBusy(p) /\ pidfile # NoPid => pc[pidfile] \in Serving]_vars
============================================================================
