# herdr-triggers in TLA+

`herdr-triggersd` is a resident daemon that polls herdr (a terminal multiplexer)
over its API socket, matches rules on the screens of its panes and runs a rule's
action when its prompt waits at the tail of a screen: it types a password, shows
a notification, marks a tab, runs a program. Acting twice on one prompt, acting
on text that is not a prompt, and never acting again are what can go wrong. This
directory holds a model of the daemon, checked with TLC on small instances, and
theorems about it proved with TLAPS for all of them.

## The system

| Part | Source | State | Operations |
|---|---|---|---|
| Rules and watch plan | `rules.rs`, `engine.rs` `watched_rules` | none (compiled rules) | last match, live match, scope test, which panes to watch |
| FireGuard | `rules.rs` | last fire per rule and pane, write window per rule | `would_allow`, `record`, `would_allow_write`, `record_write`, `retain_panes` |
| Once ledger | `rules.rs` `Ledger` | fired (rule, terminal) pairs, `once-ledger.json` | `load`, `has_fired`, `mark_fired`, `reset`, `retain_panes`, `persist` |
| Engine | `engine.rs` | rules, settings, `latched`, `known`, `retries`, `retry_after` | `new`, `reload`, `reset_ledger`, the pass of `run`, `evaluate` |
| Actions | `actions.rs` | threads of running coprocesses | `run` for five kinds of action, placeholder expansion |
| Client, servers | `client.rs`, `main.rs` | none (a connection per request; the environment) | `request`, choice of the socket, `discover_servers`, `parse_target`, `run_for_every_server`, `session_tag` |
| Configuration, secrets | `config.rs` | `triggers.toml`, `secrets.toml` | `load_triggers`, `warnings`, `load_secrets` |
| Processes | `main.rs` | `triggersd.lock` and its flock, `triggersd.pid`, signal flags | `start`, `run`, `restart`, `stop`, `reload`, `reset`, `status` |
| Log ring | `log.rs` | `triggersd.log` | `write`, rotation |

The engine is one thread. Once per interval it lists the panes, forgets what
belongs to panes that are gone, reads each watched pane and evaluates its rules
on the text; every one of these is a request of up to ten seconds, during which
panes close, open and redraw, herdr goes away, the user edits files and signals
arrive. Signals only set flags, drained at the top of a pass. The ledger is the
one piece of state that survives the daemon. The processes of the commands share
nothing with the daemon but two files and signals.

What is hard, and for which part which property matters:

- *Engine and ledger.* A delivery and its book-keeping are separate steps; a
  request's answer may be lost although herdr carried it out; crashes, resets and
  reloads fall in between. A `once` rule must nevertheless be delivered once.
- *Engine.* A snapshot does not tell a new prompt from one already answered. The
  latch, the `known` set and the retry state together must neither act on what is
  settled nor leave armed prompts waiting, across reloads, resets, closing panes,
  failing actions, the pane cap and the write cap.
- *Ids.* Public pane ids are reused after a herdr restart, terminal ids are not,
  and part of the state is keyed by each. Two rules may share an id.
- *Processes.* Lock, pidfile and signals are read and written by racing
  processes that may be killed anywhere and whose pids are reused.
- *Coprocesses.* Three threads, a program that may hang or fill a pipe, and what
  it leaves behind: an answer must be whole and in time, or not be typed at all,
  and no thread, pipe or child may be left stuck.
- *Servers.* Several herdr servers run side by side, each with a daemon, a lock
  and a ledger in a directory named after it, and every process works out anew
  which one it means. The ledger's file must survive a kill in a write.

`PROJECT.json` lists 40 hazards with their lines and the properties that cover
them.

## The modules

`Rules` — screens, rules and the watch plan as operators. A line is an element of
`Lines` or `Blank`, a regex the set of lines it matches, a scope the set of panes
it accepts. `LiveLine(rule, text)` is `last_match` followed by `live_match`; the
line itself is the prompt's identity, as `Match::signature` is a hash of the text
alone (hash collisions are abstracted). `WatchSets` is every set of panes
`watched_rules` may choose under the cap, over all orders of `pane.list`.

`WatchPlan` (extends `Rules`) — `watched_rules` itself and the cut `run` makes in
what it returns: the loop over the panes as the recursive function `Rounds`, with
the two lists, the limit and the early exit. `TriggerEngine` needs only `WatchSets`;
that `Watched` picks one of them is the theorem `WatchedIsAWatchSet`, and
`WatchPlanAssumption` has TLC check, for up to four panes, that over all orders it
picks every one of them, so that neither is wider than the other.

`FireGuard` (extends `Rules`) — the guard as a record. Instants become ages;
`Elapse` is one tick of the clock and `AgeCap` the age beyond which none are told
apart. The write window keeps its queue: stale entries are popped by a write and
only counted out by a query.

`TriggerEngine` (extends `FireGuard`) — the daemon and its world.

| Action | Code |
|---|---|
| `Start`, `Exit` | `Engine::new`; the head of `run`'s loop |
| `DrainReload`, `DrainReset` | `drain_control_flags`, `reload`, `reset_ledger` |
| `ListPanes`, `ListFails` | `panes` with its label requests, pruning, `watched_rules` |
| `ReadPane`, `ReadFails`, `EndPass` | the read loop of `run` |
| `LatchFalls`, `StillLatched`, `LatchUnfired`, `HoldBack`, `Attempt` | `evaluate` up to the action, by the way it leaves |
| `RunAction` | `actions::run` |
| `RecordOutcome` | the rest of `evaluate` |
| `OpenPane`, `ClosePane`, `Redraw`, `RestartHerdr`, `SetLink` | herdr |
| `EditFile`, `SetUp`, `Signal`, `Tick`, `Crash` | the user, the clock, faults |

Each of the five leaves of `evaluate` also does the insertion into `known` that
precedes them all. Every rule of a pane is a step, every request is a step, and
the environment may move between any two. `Persist` stands for the whole
write-then-rename: the file is replaced or left alone, and the daemon does not
learn which. Five variables are history (`looked`, `settled`, `rearmed`, `sent`,
`wrote`): no guard reads them, and the properties are about them. A pair of rule and
terminal is *settled* while the prompt waiting there is one that was on screen at the
daemon's first look, or when a rule new on the pane armed, or one the daemon has
acted on. A reload that loads moves the settled pairs of rules the daemon has already
evaluated on the pane to `rearmed`, where they stay while the prompt does: the code
drops their latches, although nothing on the screen has changed. `sent` counts
deliveries of once rules since the last reset. `wrote` has, for each rule, the ages of
the writes of the last second, counted at the action itself and not by the guard.

`OnceSpec` — the promise of `once`: a pair fires at most once between resets.
Nothing else is visible. `TriggerEngine` implements it, mapping `sent` to `sent`.

`Lifecycle` — the processes of `main.rs` around one state directory. Each process
has a program point; the existence test, the flock, its release, the read of the
pidfile, the kill, the fork, truncating and writing the pidfile, installing the
handlers and removing the pidfile are separate steps. Pids are reused, also by
unrelated processes, as long as some file or process still holds them; any
process can be killed. A signal to a process without handlers ends it.

`SoleDaemon` — what the lock and the pidfile promise the commands: one daemon at a
time, the next only when the last is gone; it announces itself once, takes that back
once, and nobody else touches what is announced. `Lifecycle` implements it: `Daemon`
is the lock's holder while it runs `daemon_main`, `Phase` follows from its program
point, and the pidfile is the announcement.

`Coprocess` — the programs of `actions.rs`.

| Action | Code |
|---|---|
| `Launch`, `Reap` | `spawn` and its reaper thread |
| `Start` | `spawn_coprocess` up to its three threads |
| `Feed` | the thread that writes the screen to stdin |
| `Drain`, `DrainEnds` | the thread that reads stdout to its end |
| `Watch`, `Kill` | the loop of `try_wait`, the deadline, `kill` and `wait` |
| `Collect`, `GiveUpDraining`, `Type` | `recv_timeout`, and `pane.send_text` |
| `ChildActs`, `ChildExits`, `GrandchildWrites`, `GrandchildExits` | the programs |
| `Tick`, `Gone` | the clock; the end of the daemon |

A program is a sequence of reads, writes, forks and pauses, each of which may
take any time; text is counted in chunks, and pipes hold `Capacity` of them. The
waiting thread reaps with `try_wait` before it looks at the clock, as the code
does, and `kill` may find a child that has exited meanwhile.

`AnswerSpec` — what a coprocess rule promises the pane: a program writes, then all
it wrote, up to the cap, is typed once, or its answer is dropped for good. `Coprocess`
implements it; `Fate` says what has become of each job's answer.

`Servers` — the daemons of several servers. A server is known by its socket, and
`SocketPath` is evaluated by each step that calls `socket_path` in the code:
`Start` for the state directory and the lock, `WritePidfile` and `Exit` for the
pidfile, `Attach` for the client. `WriteTemp`, `RenameTemp` and `PersistFails` are
`Ledger::persist`; `Prune`, `Answer` and `Rearm` its callers. A command takes its
servers (`Command`) and gets to them one by one (`Signal`, `NotRunning`). The
steps inside a start are coarser than in `Lifecycle`, and a pass is three kinds
of change to the ledger: `Lifecycle` and `TriggerEngine` have them in full. A
daemon that looked twice and found different servers is *astray* (`Astray`): it goes
by the ledger of one and polls the other. `recorded` and `dropped` are history: the
terminals whose answer a daemon of their own server has put on file since the last
reset, and those among them that an astray daemon has taken out of the file again.

`AtomicLedger` — what the file promises: it is replaced whole by its one user,
who started from the whole of it. `Servers` implements it.

`MCTriggerEngine`, `MCCoprocess` and `MCServers` give rules, configurations,
screens, programs, sessions and environments for TLC. `TriggerEngine_proofs`,
`SettledPrompts_proofs`, `WriteCap_proofs`, `Inheritance_proofs`,
`Lifecycle_proofs`, `Coprocess_proofs`, `Servers_proofs` and `Rules_proofs` hold the
theorems. An operator with the comment *mutant*, next to the definition it
could take the place of, is what a plausible bug would make of that definition:
with it the property `PROJECT.json` pairs it with fails, which shows that the
property depends on the code.

## The properties

- `AtMostOncePerTerminal`, `FiresOnceUntilReset` — a once rule is delivered to a
  terminal at most once between resets; the second is the implementation of
  `OnceSpec`. `LedgerIsDurable` — the file is never behind the memory, on a disk that
  works.
- `OnlyReloadsRearm` — no action on a settled prompt: only a reload arms a prompt
  again that has not changed, and not for a rule that is new on the pane.
  `NeverActsOnSettled` — nor on one that a reload has armed again. This holds as long
  as nobody reloads, and fails in `EngineRearm`.
- `InheritsNothing` — under recycled pane ids, a once rule counts as spent on a
  terminal only if it was delivered there.
- `OnlyListedIsKept` — during a pass no latch, known pair, retry, cooldown or ledger
  entry is left of a pane or terminal that the listing did not have.
- `ArmedPromptIsDealtWith` — once herdr answers and the user's repairs are made,
  a prompt that a rule is armed for, on a pane within the cap, does not wait
  forever. `EveryTerminalIsServed` — with `fire_on_existing_text`, neither does a
  prompt of a once rule on a terminal that has not had it.
- `AtMostOneDaemon`, `RunningDaemonIsFound`, `StopIsObeyed`, `RacingStartsComeUp`
  — one daemon at most; the pidfile names it and it holds the lock; a stop that
  finds it ends it, unless the stop is killed first, be it by another stop that read
  a killed daemon's pid which this one now has (`StopsCollide`); after racing starts
  a daemon is up. `DaemonsTakeTurns` — the processes implement `SoleDaemon`.
- `WritesAreCapped` — since the rules were loaded, no second has had more fires of a
  rule that writes than `max_writes_per_second`, over all panes, failed ones and the
  one under way included. A coprocess counts when it is started, as in the code; its
  text comes later, from another thread (`actions.rs:546`), and is not counted here.
- `OnlyWholeAnswers`, `AnswerIsFresh` — a coprocess's answer is typed whole, after
  a program that ended by itself, and not after the deadline and the grace.
  `AnswersOnce` — the implementation of `AnswerSpec`.
  `NeverWedged`, `WaiterEnds`, `ZombiesAreReaped` — pipes do not block for good,
  the waiting thread ends although a grandchild keeps the pipe open, and every
  child that exits is reaped.
- `OneDaemonPerServer`, `CommandReachesAll`, `OnceAcrossDaemons`, `LedgerIsAtomic`
  — one daemon per server, however it was found; a command for all servers gets
  to each daemon; what one daemon has on file no later one answers again, but for
  what an astray daemon has dropped; the file implements `AtomicLedger`.
- `TypeOK` in `TriggerEngine`, `Lifecycle`, `Coprocess` and `Servers`.

## The runs

| Run | Instance | Result |
|---|---|---|
| `EngineOnce` | 2 panes, 2 terminals, one once rule; lost answers, crashes, stop, reset | passes, 506 thousand states (symmetry over panes and terminals) |
| `EngineReload` | 1 pane, three contents of `triggers.toml` (one invalid), rules added, reordered, made repeatable; reload, reset, broken secrets, lost answers, lost labels | passes, 1.48 million states |
| `EngineLive` | 2 panes, cap of 1, a scoped rule that runs a program beside a broad once rule that types; herdr relaunched, ledger writes fail | passes, 119 thousand states, safety and liveness |
| `EngineServed` | 1 pane, `fire_on_existing_text`, no terminal ids, ledger writes fail, secrets break and are repaired, reload, reset | passes, 12 thousand states, safety and liveness |
| `Lifecycle` | 5 pids, any 3 of the 7 commands overlapping and one more stop beside at most one other command, one kill | passes, 156 thousand states, safety and liveness |
| `Coprocess` | one program at a time, of four kinds; fed or not; a grandchild; the daemon ends | passes, 3 thousand states, safety and liveness |
| `Servers` | 2 servers, 2 daemons, a terminal of the default server, one command; kills, failing disk; only the session's server ends | passes, 1.42 million states (symmetry over daemons) |
| `EngineRecycle` | herdr relaunched between two polls | `NeverActsOnSettled` fails |
| `EngineRearm` | a reload that changes nothing, while a prompt waits that was there at the first look | `NeverActsOnSettled` fails |
| `EngineLost` | herdr away while the action is sent | `EveryTerminalIsServed` fails |
| `LifecycleStray` | a killed daemon, then two overlapping commands | `BusyLockVouchesForPidfile` fails |
| `LifecycleRestart` | stop, then restart, one at a time | `RestartComesUp` fails |

The five failing runs are disagreements between the code and its comments or
`README.md`; each is quoted in `PROJECT.json` under `findings`. In the model they
are kept apart from what does hold: `Distinct` excludes the first, `OnlyReloadsRearm`
says what is left of the second, the healthy-again condition of the liveness properties the third, and
`RacingStartsComeUp`, which excuses a start racing a daemon that is leaving, the
fifth. Excluding `EngineLost` is the choice of faults: in `EngineServed` only the
user's set-up and the disk fail.

### Bounds

- *Panes and terminals*: two of each distinguish "this pane" from "another" and
  allow a recycled id; the cap is set to one where it is to bite.
- *Lines*: a prompt that matches and one line that does not, or two prompts of
  two rules; screens of up to three lines, one of them blank where `tail_within`
  counts.
- *Time*: a second is one tick, the cooldown one tick, the back-off one tick and
  at most two, `AgeCap` one: every comparison with a threshold is seen on both
  sides, and no more can be told apart.
- `MaxAttempts` is 2 instead of 2^32 - 1, so that the counter saturates.
- *Lifecycle*: with three commands there is a start, one that interferes and one
  that notices; five pids are one for each of these, one for a daemon and one for
  an unrelated process. A fourth command may come when at most one other is at work,
  and is a stop (`Late`): two daemons can come up one after the other with a stop for
  each, so that the pid of the first may be that of the stop for the second, which is
  the case `StopsCollide` is about. `MaxKills` is 1: kills interact with each other only
  through what they leave behind. The history counters stop at 2.
- *Coprocess*: pipes of one chunk and a screen of two, so that feeding blocks; an
  answer may be longer than the cap of two. The deadline is two ticks and the
  grace one. The programs write before they read, read all, fork, and pause. Jobs
  share nothing but the clock, so one at a time shows what one can do.
- *Servers*: the default server and a session that is called `default` as well,
  whose names would collide without a prefix; one daemon to be in the way of the
  other; a terminal of the default server, whose entry the wrong daemon would prune:
  one that takes the session's directory for it, or one that is astray because it
  started before the session did. The case of an entry that is dropped and answered
  again is reached. `MaxCommands` is 1: a command is through before the next begins.
  `Lasting` is the default server; that a server's terminals go with it is seen by its
  daemon as `PaneCloses` is.
- Nothing bounds passes, reloads, signals, edits, redraws or failures, and the
  state graphs are explored to the end.

### Fairness

`TriggerEngine`: the thread keeps running (weak fairness of `Daemon`; the loop has
no exit but the head's), a daemon told to stop stops, and time passes. Nothing is
assumed of herdr, the user or the faults; instead the liveness properties are
conditioned on everything working from some point on. `Lifecycle`: every process
that can take a step of its program eventually does. No fairness for commands,
unrelated processes or kills. `restart`'s five seconds may end at any time.
`Coprocess`: the threads of the daemon are scheduled and time passes; nothing is
assumed of the programs, which may pause for ever, nor that the daemon stays.

The runs of `Lifecycle` and `Coprocess` do not check for deadlock: all processes
may end, all commands have been given and all programs started. All other runs do.

## The proofs

- `TypeCorrect` (`TriggerEngine_proofs`). `TypeOK` is inductive as it stands:
  besides types it says that a pass only visits panes listed in it and only has
  rules in force left, without which the indices into `cfg.rules` would not be
  safe.
- `OncePerTerminal`, `ImplementsOnceSpec` (`TriggerEngine_proofs`), under
  `Reliable`: no crash falls between action and book-keeping, herdr's pane ids are
  not recycled, and the disk works or the daemon is never restarted. Nothing is
  assumed of herdr's terminal ids: without them the ledger goes by pane id, and a
  terminal is in one pane at most (`OneTerminalEach`), which keeps its id. `AtMostOncePerTerminal` is not
  inductive. `OnceInv` adds that a delivered pair whose terminal is still in a pane
  is booked (`Booked`: in the memory of a running daemon, else in the file), or about
  to be (`InFlight`; pruning is why terminals that are gone are left out); that the
  pane written to is still the one listed (`PanesOK`), so the ledger entry is made
  under the right terminal; and that a rule about to act is not spent.
- `DurableLedger` (`TriggerEngine_proofs`), on a disk that works (`DiskWorks`): the
  file equals the ledger of the running daemon.
- `KeepsOnlyListed` (`TriggerEngine_proofs`), without any assumption: each of the five
  leaves of `evaluate` touches only the key of the pane it is at, which is listed.
- `SettledPrompts`, `OnlyReloads` (`SettledPrompts_proofs`), under `Distinct` (rules of
  a configuration have ids of their own, herdr is not relaunched), the first also
  without reloads, and with every other fault allowed. `SettledInv` says why: a
  settled pair whose rule is known on the pane is latched with exactly the text waiting
  there, one that is not known is caught at first sight; and the text in hand is the
  text on screen for every pair that is settled, although it may be out of date for all
  others. Without reloads no pair is ever in `rearmed` (`NothingRearmed`), which is how
  the first follows from the second.
- `LifecycleTypeCorrect`, `OneDaemon`, `FoundDaemon` (`Lifecycle_proofs`), for any
  number of processes, commands and kills. `LockInv`: whoever is past the flock,
  daemon or probe, is its holder, and only the holder writes the pidfile.
  `ImplementsSoleDaemon` follows from it action by action: a step of the holder is a
  step of `SoleDaemon` or a stutter, a step of anyone else (`AloofSole`) a stutter,
  since all it does to the lock is to probe it, and it never writes the pidfile.
- `CappedWrites` (`WriteCap_proofs`), without any assumption. Two invariants meet.
  `GuardCap`: the guard's own window, with the write under way, stays within the cap. A
  write is let through only below it, a tick only lowers the number of live writes
  (`LiveShrinks`), and a recorded one raises it by one at most, whatever is popped
  (`LiveGrows`, by an injection of the popped window into the old one). `WindowInv`: the
  guard loses none: to each write of the last second in `wrote`, in order, there is an
  entry of the guard's window that is no older (`InWindow`), so that what the guard
  counts is at least what was written (`AllAreCounted`).
- `NothingInherited` (`Inheritance_proofs`), under `Answering`: herdr answers and
  tells terminal ids, and resets do not meet a failing disk. `InheritInv` says that
  what is booked, in memory or on disk, was delivered to its terminal or that
  terminal is behind no pane and, not being spare, never will be.
- `CoprocessTypeCorrect`, `WholeAnswers`, `NoPipeDeadlock`, `FreshAnswers`
  (`Coprocess_proofs`), for any programs, capacities and times. `AnswerInv`: what
  was written is in the pipe or in the buffer, and the buffer is sent only when
  nobody can write any more. `TimeInv`: the clock is looked at before the deadline
  can be passed unseen. `ImplementsAnswerSpec` follows from `AnswerInv`: who can still
  write has not been answered for, and typing finds the whole of it in the buffer.
- `ServersTypeCorrect`, `OneDaemonEach`, `CommandsReachAll`, `OnceAcross`,
  `ImplementsAtomicLedger` (`Servers_proofs`), for any servers, sessions' names,
  environments and numbers of daemons. `LockInv`: past the lock a daemon holds it.
  `RecordInv`: while a terminal is open, its recorded answer, unless dropped, is in the
  file and in the memory of whoever goes by that file. `DueInv`: whom a command has yet to
  reach can still be found. `TagsTellApart` is the lemma that the prefix of
  `session_tag` keeps a session called `default` from the default server.

- `WatchedIsAWatchSet`, `TrailingBlanks`, `TailOfZero` (`Rules_proofs`), about
  operators and for all their arguments. The first is by induction over the rounds of
  the loop. `PlanInv`: the two lists have no pane twice and only panes of their kind,
  the loop is left only with enough panes, and until then no pane a scoped rule wants
  has been passed over. From that at the end of the loop, the length of what
  `watched_rules` returns says whether more panes match than the cap allows.
  The library's induction theorems take a predicate as a parameter, which the provers
  cannot instantiate; `UpTo` states induction for a *set* of numbers, from the
  well-foundedness of strict inclusion among finite sets, and `RoundsDef` uses it to
  show that the recursive function exists.

The assumptions on the constants are the named `ASSUME`s of the modules; TLC
evaluates them in every run. What is particular to the program among them is
`IdAssumption`: equal rule ids mean equal regex and action (no FNV collision).

Model-checked only: all liveness (TLAPS has no rule for fairness and `ENABLED`
here), and that every member of `WatchSets` is picked under some order. Every safety
property of a passing run is stated by a theorem.

## Not modelled

- Expansion of placeholders, the labels of `tab_mark`, the environment of programs,
  TOML and what validation accepts, the framing of a request: conversions of data
  no property here tells apart. `tab_mark` on a tab that has closed fails in the
  code and succeeds in the model; either way the prompt is consumed.
- The log: nothing in the program reads it back, and what can go wrong in its
  rotation is about byte offsets within a character.
- A `try_wait` or a read of the ledger that fails. In the code the first ends the
  waiting thread as a timeout does, the second arms every once rule again.
- A pidfile whose write fails (`main.rs:448`, where the result is ignored), a lock
  file that cannot be opened, a fork that fails. `RunningDaemonIsFound`,
  `DaemonsTakeTurns` and their theorems `FoundDaemon` and `ImplementsSoleDaemon` are
  about daemons whose pidfile could be written: after a failed write the daemon is up
  and no command finds it.
- A machine that does not run the daemon's threads in time. `AnswerIsFresh` and
  `FreshAnswers` rest on the waiting thread being scheduled in every tick, and bound
  the time at which the answer was complete, not the request that types it, which may
  take its ten seconds more.
- The two label requests of a pass fail together. `install_signal_handlers` is one
  step. A pane's rules are evaluated against labels as of the listing.
- The engine and the coprocesses share no state but the pane, so they are modelled
  apart: `RunAction` counts the start of a program, and `Coprocess` says what is
  typed and when. That the pane still shows the prompt, or is still the same
  terminal, is checked by nobody in the code.

What does not hold, and is excluded by name from the properties above:

- A prompt that has not changed is not safe from a reload (`OnlyReloadsRearm`): a rule
  that stays acts on it once more, also if it was there before the daemon was.
- Two rules with one regex and one action have one id (`Distinct`): the first one's
  evaluation makes the pair known, and the second acts on what was on screen when both
  armed.
- A daemon that is astray, because a session's socket came or went between two looks of
  `socket_path` (`Astray`), may poll a server that another daemon polls, answers what
  that one has answered, and prunes entries of the ledger it goes by: what it drops may
  be answered once more (`dropped`).
- Two servers whose directories have the same name, such as sessions `a.b` and `a_b` or
  any two sockets outside `sessions/` (`Alone`), prune each other's entries.
- A stop whose pid was a killed daemon's may be killed by another stop that read that
  pid before (`StopsCollide`); the daemon it was to stop then stays.
- The write cap across reloads, since each starts a new window.

## Plan

Done, in this order: `Rules`, `FireGuard`, `TriggerEngine` with `OnceSpec`,
`Lifecycle`, `Coprocess`, `Servers` with `AtomicLedger`; their runs; the theorems
about them; `SoleDaemon`, `WatchPlan` and `AnswerSpec` with theirs. Worth adding to
it:

1. `RestartComesUp` for a daemon that keeps its pidfile until the lock is gone.
2. A history of fires per rule and pane, as `wrote` is one per rule, for a theorem on
   cooldowns.
3. Rotation of the log and placeholder expansion as operators over bounded inputs.
