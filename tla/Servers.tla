------------------------------ MODULE Servers ------------------------------
(***************************************************************************)
(* Several herdr servers on one machine, each with a daemon, a state       *)
(* directory and a ledger of its own: which server a process means         *)
(* (client.rs, main.rs), the commands that address one server or all, and  *)
(* the ledger's file written step by step (rules.rs), with daemons that    *)
(* come, go and are killed. Once rules must be answered once over all of   *)
(* this. The steps of starting and stopping one daemon are Lifecycle's,    *)
(* and the pass over the panes is TriggerEngine's.                         *)
(***************************************************************************)
EXTENDS Integers, Sequences

CONSTANTS
  Sessions,     \* names of sessions, as sequences of characters
  Plain,        \* the characters a file name may keep
  Default,      \* the default server
  Elsewhere,    \* servers whose sockets herdr did not place
  Lasting,      \* servers that do not end any more once they run: a bound
  Unset,        \* of an environment variable, or an option
  Environments, \* what a process may inherit and be told
  Daemons, Nobody, NoDir,
  Terminals,    \* instances: never reused, and each the prompt of one once rule
  Home,         \* the server each belongs to
  Torn,         \* a file that is absent or cut off, which does not parse
  MaxCommands,  \* how many commands signal daemons
  Faults        \* "crash" and "disk"

\* A server is known by its socket.
Hosts == Sessions \cup {Default} \cup Elsewhere

ASSUME ServersAssumption ==
  /\ Default \notin Sessions
  /\ Home \in [Terminals -> Hosts]
  /\ Environments \subseteq [override : Hosts \cup {Unset}, session : Sessions \cup {Unset},
                             path : Hosts \cup {Unset}]
  /\ Unset \notin Hosts /\ Nobody \notin Daemons /\ MaxCommands \in Nat
  /\ \A entries \in SUBSET Terminals : entries # Torn

----------------------------------------------------------------------------
(* Where a server's state is.                                              *)

Safe(name) == [i \in DOMAIN name |-> IF name[i] \in Plain THEN name[i] ELSE "_"]

\* Mutant: no prefix for sessions.
SessionTagBare(s) == IF s \in Sessions THEN Safe(s) ELSE <<"default">>

\* session_tag, which is a state directory's name; the prefix has a fixed length.
SessionTag(s) == IF s \in Sessions THEN <<"session-", Safe(s)>> ELSE <<"default">>

Dirs == {SessionTag(s) : s \in Hosts}

ASSUME NoDirAssumption == NoDir \notin Dirs

\* No other server is known by a name that makes the same file name.
Alone(s) ==
  IF s \in Sessions THEN \A r \in Sessions \ {s} : Safe(r) # Safe(s)
                    ELSE s = Default /\ Elsewhere = {}

VARIABLES
  live,      \* the servers whose sockets exist
  panes,     \* each terminal: "new", "open" or "gone"
  pc,        \* where a daemon is
  env,       \* its environment and options
  dir,       \* the state directory it found first
  at,        \* the server it polls
  memory,    \* the ledger in its memory
  told,      \* the signals it has yet to heed
  lock,      \* the holder of each directory's lock
  pidfile,   \* the daemon each directory's pidfile names
  ledger,    \* each directory's once-ledger.json
  temp,      \* each directory's once-ledger.tmp, while it is written
  commands,  \* commands given so far
  todo,      \* the signals a command has yet to send, each with its server
  recorded,  \* history: terminals whose answer a daemon of their server put on file
  dropped,   \* history: those an astray daemon has taken out of the file again
  due        \* history: the daemons the command is to reach

serverVars == <<live, panes>>
fileVars   == <<lock, pidfile, ledger, temp>>
orderVars  == <<commands, todo, due>>
historyVars == <<recorded, dropped>>
vars == <<serverVars, pc, env, dir, at, memory, told, fileVars, orderVars, historyVars>>

\* Between two polls, and inside a write of the ledger.
Polling == {"poll", "write", "rename"}

Blank == [override |-> Unset, session |-> Unset, path |-> Unset]

Signals == {"stop", "reset"}

Init ==
  /\ live = {} /\ panes = [t \in Terminals |-> "new"]
  /\ pc = [d \in Daemons |-> "off"] /\ env = [d \in Daemons |-> Blank]
  /\ dir = [d \in Daemons |-> NoDir] /\ at = [d \in Daemons |-> Default]
  /\ memory = [d \in Daemons |-> {}] /\ told = [d \in Daemons |-> {}]
  /\ lock = [g \in Dirs |-> Nobody] /\ pidfile = [g \in Dirs |-> Nobody]
  /\ ledger = [g \in Dirs |-> Torn] /\ temp = [g \in Dirs |-> Torn]
  /\ commands = 0 /\ todo = {} /\ due = {}
  /\ recorded = {} /\ dropped = {}

----------------------------------------------------------------------------
(* Which server a process means. Every call looks again at what is there.  *)

SocketPath(e) ==
  IF e.override # Unset THEN e.override
  ELSE IF e.session # Unset /\ e.session \in live THEN e.session
  ELSE IF e.path # Unset THEN e.path
  ELSE Default

StateDir(d) == SessionTag(SocketPath(env[d]))

\* A daemon that looked again and found another server: it goes by the ledger of
\* the one and polls the other.
Astray(d) == SessionTag(at[d]) # dir[d]

\* The daemons whose pidfile is not theirs any more, once d has written to it.
Hidden(d) == {e \in Daemons \ {d} : dir[e] = StateDir(d)}

----------------------------------------------------------------------------
(* daemon_main                                                             *)

\* A process that ends loses its lock. All that is left of it are files.
Ends(d) ==
  /\ pc' = [pc EXCEPT ![d] = "off"] /\ memory' = [memory EXCEPT ![d] = {}]
  /\ told' = [told EXCEPT ![d] = {}]
  /\ env' = [env EXCEPT ![d] = Blank] /\ dir' = [dir EXCEPT ![d] = NoDir]
  /\ at' = [at EXCEPT ![d] = Default]
  /\ lock' = [g \in Dirs |-> IF lock[g] = d THEN Nobody ELSE lock[g]]
  /\ temp' = [g \in Dirs |-> IF lock[g] = d THEN Torn ELSE temp[g]]

Start(d, e) ==
  /\ pc[d] = "off"
  /\ env' = [env EXCEPT ![d] = e] /\ dir' = [dir EXCEPT ![d] = SessionTag(SocketPath(e))]
  /\ pc' = [pc EXCEPT ![d] = "lock"]
  /\ UNCHANGED <<serverVars, at, memory, told, fileVars, orderVars, historyVars>>

AcquireAnyway(d) ==   \* mutant: a lock that does not exclude
  /\ pc[d] = "lock"
  /\ lock' = [lock EXCEPT ![dir[d]] = d] /\ pc' = [pc EXCEPT ![d] = "pidfile"]
  /\ UNCHANGED <<serverVars, env, dir, at, memory, told, pidfile, ledger, temp, orderVars,
                 historyVars>>

Acquire(d) ==
  /\ pc[d] = "lock"
  /\ IF lock[dir[d]] = Nobody
     THEN /\ lock' = [lock EXCEPT ![dir[d]] = d] /\ pc' = [pc EXCEPT ![d] = "pidfile"]
          /\ UNCHANGED <<env, dir, at, memory, told, temp>>
     ELSE Ends(d)
  /\ UNCHANGED <<serverVars, pidfile, ledger, orderVars, historyVars>>

WritePidfile(d) ==
  /\ pc[d] = "pidfile"
  /\ pidfile' = [pidfile EXCEPT ![StateDir(d)] = d] /\ due' = due \ Hidden(d)
  /\ pc' = [pc EXCEPT ![d] = "attach"]
  /\ UNCHANGED <<serverVars, env, dir, at, memory, told, lock, ledger, temp, commands, todo,
                 historyVars>>

Entries(file) == IF file = Torn THEN {} ELSE file

\* Client::from_env and Engine::new, with Ledger::load.
Attach(d) ==
  /\ pc[d] = "attach"
  /\ at' = [at EXCEPT ![d] = SocketPath(env[d])]
  /\ memory' = [memory EXCEPT ![d] = Entries(ledger[dir[d]])]
  /\ pc' = [pc EXCEPT ![d] = "poll"]
  /\ UNCHANGED <<serverVars, env, dir, told, fileVars, orderVars, historyVars>>

\* Engine::run returns.
Exit(d) ==
  /\ pc[d] = "poll" /\ "stop" \in told[d]
  /\ pidfile' = [pidfile EXCEPT ![StateDir(d)] = Nobody]
  /\ due' = due \ ({d} \cup Hidden(d))
  /\ Ends(d)
  /\ UNCHANGED <<serverVars, ledger, commands, todo, historyVars>>

Crash(d) ==
  /\ "crash" \in Faults /\ pc[d] # "off"
  /\ due' = due \ {d}
  /\ Ends(d)
  /\ UNCHANGED <<serverVars, pidfile, ledger, commands, todo, historyVars>>

----------------------------------------------------------------------------
(* What a pass does to the ledger.                                         *)

\* Every change is persisted at once.
Keeps(d, entries) ==
  /\ memory' = [memory EXCEPT ![d] = entries] /\ pc' = [pc EXCEPT ![d] = "write"]
  /\ UNCHANGED <<serverVars, env, dir, at, fileVars, commands, todo>>

\* retain_panes, if the server answers.
Listed(d) == {t \in Terminals : Home[t] = at[d] /\ panes[t] = "open"}

Prune(d) ==
  /\ pc[d] = "poll" /\ at[d] \in live /\ ~ memory[d] \subseteq Listed(d)
  /\ Keeps(d, memory[d] \cap Listed(d))
  /\ UNCHANGED <<told, due, historyVars>>

\* A once rule fires, and mark_fired.
Answer(d, t) ==
  /\ pc[d] = "poll" /\ at[d] \in live /\ t \in Listed(d) \ memory[d]
  /\ Keeps(d, memory[d] \cup {t})
  /\ UNCHANGED <<told, due, historyVars>>

\* The terminals whose entries belong in d's ledger.
Kept(d) == {t \in Terminals : SessionTag(Home[t]) = dir[d]}

\* reset_ledger.
Rearm(d) ==
  /\ pc[d] = "poll" /\ "reset" \in told[d]
  /\ Keeps(d, {})
  /\ told' = [told EXCEPT ![d] = @ \ {"reset"}]
  /\ recorded' = recorded \ Kept(d) /\ dropped' = dropped \ Kept(d)
  /\ UNCHANGED due

----------------------------------------------------------------------------
(* Ledger::persist                                                         *)

WriteInPlace(d) ==   \* mutant: no temporary file
  /\ pc[d] = "write"
  /\ ledger' = [ledger EXCEPT ![dir[d]] = Torn] /\ temp' = [temp EXCEPT ![dir[d]] = memory[d]]
  /\ pc' = [pc EXCEPT ![d] = "rename"]
  /\ UNCHANGED <<serverVars, env, dir, at, memory, told, lock, pidfile, orderVars, historyVars>>

\* The file is created, or cut off, and then written. What a write that fails or a
\* daemon that dies leaves of it is never read, and not kept here.
WriteTemp(d) ==
  /\ pc[d] = "write"
  /\ temp' = [temp EXCEPT ![dir[d]] = memory[d]] /\ pc' = [pc EXCEPT ![d] = "rename"]
  /\ UNCHANGED <<serverVars, env, dir, at, memory, told, lock, pidfile, ledger, orderVars,
                 historyVars>>

RenameTemp(d) ==
  /\ pc[d] = "rename"
  /\ ledger' = [ledger EXCEPT ![dir[d]] = temp[dir[d]]]
  /\ temp' = [temp EXCEPT ![dir[d]] = Torn] /\ pc' = [pc EXCEPT ![d] = "poll"]
  /\ LET filed == Entries(ledger[dir[d]]) \cap Kept(d)
         kept  == memory[d] \cap Kept(d)
     IN  \/ /\ Astray(d) /\ UNCHANGED recorded
            /\ dropped' = dropped \cup ((recorded \cap filed) \ kept)
         \/ ~ Astray(d) /\ recorded' = recorded \cup kept /\ dropped' = dropped \ kept
  /\ UNCHANGED <<serverVars, env, dir, at, memory, told, lock, pidfile, orderVars>>

PersistFailsUnseen(d) ==   \* mutant: the rename does not ask whether the write worked
  /\ "disk" \in Faults /\ pc[d] = "write"
  /\ temp' = [temp EXCEPT ![dir[d]] = Torn] /\ pc' = [pc EXCEPT ![d] = "rename"]
  /\ UNCHANGED <<serverVars, env, dir, at, memory, told, lock, pidfile, ledger, orderVars,
                 historyVars>>

\* A step that fails ends the write, and nobody is told.
PersistFails(d) ==
  /\ "disk" \in Faults /\ pc[d] \in {"write", "rename"}
  /\ temp' = [temp EXCEPT ![dir[d]] = Torn]
  /\ pc' = [pc EXCEPT ![d] = "poll"]
  /\ UNCHANGED <<serverVars, env, dir, at, memory, told, lock, pidfile, ledger, orderVars,
                 historyVars>>

----------------------------------------------------------------------------
(* Commands that signal, to one server or to all.                          *)

\* discover_servers: what herdr placed where it belongs.
Discovered == live \ Elsewhere

\* parse_target: whatever one server a command inherits or is told, or all.
Targets == {Discovered} \cup {{s} : s \in Hosts}

\* The daemon a command finds for a server: running_pid.
Reached(s) == IF lock[SessionTag(s)] = Nobody THEN Nobody ELSE pidfile[SessionTag(s)]

Command(c, servers) ==
  /\ todo = {} /\ commands < MaxCommands /\ commands' = commands + 1
  /\ todo' = {c} \X servers
  /\ due' = {d \in Daemons : /\ pc[d] \in Polling /\ at[d] \in servers
                             /\ ~ Astray(d) /\ pidfile[dir[d]] = d}
  /\ UNCHANGED <<serverVars, pc, env, dir, at, memory, told, fileVars, historyVars>>

\* Mutant: run_for_every_server ends with the first failure.
RestIfReached(c, s) == IF Reached(s) = Nobody THEN {} ELSE todo \ {<<c, s>>}
Rest(c, s)          == todo \ {<<c, s>>}

NotRunning(c, s) ==
  /\ <<c, s>> \in todo /\ Reached(s) = Nobody
  /\ todo' = Rest(c, s)
  /\ UNCHANGED <<serverVars, pc, env, dir, at, memory, told, fileVars, commands, due,
                 historyVars>>

\* A daemon without its handlers dies of the signal; one that comes up has them
\* installed by then or not. A pid that is gone is not signalled.
Signal(c, s) ==
  /\ <<c, s>> \in todo /\ Reached(s) # Nobody
  /\ todo' = Rest(c, s)
  /\ LET d == Reached(s)
     IN  \/ /\ pc[d] \in Polling \cup {"attach"}
            /\ told' = [told EXCEPT ![d] = @ \cup {c}] /\ due' = due \ {d}
            /\ UNCHANGED <<pc, env, dir, at, memory, lock, temp>>
         \/ pc[d] \in {"lock", "pidfile", "attach"} /\ Ends(d) /\ UNCHANGED due
         \/ pc[d] = "off" /\ UNCHANGED <<pc, env, dir, at, memory, told, lock, temp, due>>
  /\ UNCHANGED <<serverVars, pidfile, ledger, commands, historyVars>>

----------------------------------------------------------------------------
(* herdr                                                                   *)

ServerStarts(s) ==
  /\ s \notin live /\ live' = live \cup {s}
  /\ UNCHANGED <<panes, pc, env, dir, at, memory, told, fileVars, orderVars, historyVars>>

\* Its terminals end with it.
ServerEnds(s) ==
  /\ s \in live \ Lasting /\ live' = live \ {s}
  /\ panes' = [t \in Terminals |-> IF Home[t] = s /\ panes[t] = "open" THEN "gone"
                                   ELSE panes[t]]
  /\ UNCHANGED <<pc, env, dir, at, memory, told, fileVars, orderVars, historyVars>>

PaneOpens(t) ==
  /\ panes[t] = "new" /\ Home[t] \in live
  /\ panes' = [panes EXCEPT ![t] = "open"]
  /\ UNCHANGED <<live, pc, env, dir, at, memory, told, fileVars, orderVars, historyVars>>

PaneCloses(t) ==
  /\ panes[t] = "open"
  /\ panes' = [panes EXCEPT ![t] = "gone"]
  /\ UNCHANGED <<live, pc, env, dir, at, memory, told, fileVars, orderVars, historyVars>>

Persist(d) == WriteTemp(d) \/ RenameTemp(d) \/ PersistFails(d)

Daemon(d) ==
  \/ Acquire(d) \/ WritePidfile(d) \/ Attach(d) \/ Exit(d)
  \/ Prune(d) \/ Rearm(d) \/ Persist(d)

Next ==
  \/ \E d \in Daemons : \/ \E e \in Environments : Start(d, e)
                        \/ \E t \in Terminals : Answer(d, t)
                        \/ Daemon(d) \/ Crash(d)
  \/ \E c \in Signals : \/ \E servers \in Targets \ {{}} : Command(c, servers)
                       \/ \E s \in Hosts : NotRunning(c, s) \/ Signal(c, s)
  \/ \E s \in Hosts : ServerStarts(s) \/ ServerEnds(s)
  \/ \E t \in Terminals : PaneOpens(t) \/ PaneCloses(t)

Spec == Init /\ [][Next]_vars

----------------------------------------------------------------------------
\* The types. A daemon has a directory from its first look on, what it loads is a set
\* of entries, whatever the file looks like, and what it renames is a whole file.
TypeOK ==
  /\ live \subseteq Hosts /\ panes \in [Terminals -> {"new", "open", "gone"}]
  /\ pc \in [Daemons -> {"off", "lock", "pidfile", "attach"} \cup Polling]
  /\ env \in [Daemons -> Environments \cup {Blank}] /\ dir \in [Daemons -> Dirs \cup {NoDir}]
  /\ \A d \in Daemons : pc[d] # "off" => dir[d] \in Dirs
  /\ at \in [Daemons -> Hosts]
  /\ memory \in [Daemons -> SUBSET Terminals] /\ told \in [Daemons -> SUBSET Signals]
  /\ lock \in [Dirs -> Daemons \cup {Nobody}] /\ pidfile \in [Dirs -> Daemons \cup {Nobody}]
  /\ ledger \in [Dirs -> {Torn} \cup SUBSET Terminals]
  /\ temp \in [Dirs -> {Torn} \cup SUBSET Terminals]
  /\ \A d \in Daemons : pc[d] = "rename" => temp[dir[d]] = memory[d]
  /\ commands \in 0..MaxCommands /\ todo \subseteq Signals \X Hosts /\ due \subseteq Daemons
  /\ recorded \subseteq Terminals /\ dropped \subseteq recorded

\* Two daemons on one server would each answer every prompt. No two poll the same
\* server, by whatever option or variable they found it, but for one that is astray:
\* its session's socket came or went between its two looks.
OneDaemonPerServer ==
  \A d, e \in Daemons :
    /\ pc[d] \in Polling /\ pc[e] \in Polling /\ at[d] = at[e]
    /\ ~ Astray(d) /\ ~ Astray(e)
    => d = e

\* Once an answer is on file, no daemon gives it again before a reset: not after
\* crashes in the midst of a write, not by another start, and not because of a daemon
\* that polls another server. It holds of servers whose directories are their own, and
\* up to daemons that are astray: one of them goes by the wrong ledger, and as it takes
\* the entries it finds there for those of terminals that are gone, the daemon that
\* comes after it may answer once more what it dropped, and only that.
OnceAcrossDaemons ==
  [][\A d \in Daemons, t \in Terminals :
       t \in recorded /\ Alone(Home[t]) /\ Answer(d, t) => Astray(d) \/ t \in dropped]_vars

\* A command for all servers gets to the daemon of each, also when others have none
\* or a server goes away while it is at it.
CommandReachesAll == todo = {} => due = {}

\* Why: a daemon past the lock holds it and no one else writes in its directory; while
\* a terminal is open, its entry is in the file, unless dropped, and in the memory of
\* whoever goes by that file; what was never opened is in none; and what a command has
\* yet to reach can be found.
LockInv ==
  \A d \in Daemons : /\ pc[d] \notin {"off", "lock"} => lock[dir[d]] = d
                     /\ pc[d] \notin Polling => memory[d] = {}

RecordInv ==
  \A t \in recorded \ dropped : panes[t] = "open" /\ Alone(Home[t]) =>
    /\ t \in Entries(ledger[SessionTag(Home[t])])
    /\ \A d \in Daemons : pc[d] \in Polling /\ ~ Astray(d) /\ dir[d] = SessionTag(Home[t])
                            => t \in memory[d]

NewInv ==
  \A t \in Terminals : panes[t] = "new" =>
    /\ t \notin recorded /\ \A d \in Daemons : t \notin memory[d]
    /\ \A g \in Dirs : t \notin Entries(ledger[g])

DueInv ==
  \A d \in due : /\ pc[d] \in Polling /\ ~ Astray(d) /\ pidfile[dir[d]] = d
                 /\ \E c \in Signals : <<c, at[d]>> \in todo

\* The ledger's file never shows the inside of a write, and has one writer at a time,
\* whatever the daemons take each other's server for.
Atomic == INSTANCE AtomicLedger WITH
  Items <- Terminals,
  stored <- [g \in Dirs |-> Entries(ledger[g])],
  user <- [d \in Daemons |-> IF pc[d] \in Polling THEN dir[d] ELSE NoDir]

\* Every step on the files is one of AtomicLedger's, or none.
LedgerIsAtomic == Atomic!LedgerSpec
============================================================================
