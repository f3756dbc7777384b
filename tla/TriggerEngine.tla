--------------------------- MODULE TriggerEngine ---------------------------
(***************************************************************************)
(* The resident daemon of engine.rs: one thread that polls herdr, matches  *)
(* the rules on every watched pane's screen and runs a rule's action when  *)
(* its prompt waits there. Around it: herdr, whose panes open, close and   *)
(* redraw while the daemon is between two requests; the user, who edits    *)
(* the configuration, repairs secrets and signals the daemon; and faults.  *)
(*                                                                         *)
(* pc names the point the thread is at. Every request to herdr, and every  *)
(* decision taken on its answer, is a step of its own, so that anything    *)
(* may happen in between.                                                  *)
(***************************************************************************)
EXTENDS FireGuard

CONSTANTS
  Terminals,            \* terminal instances; herdr never reuses one
  NoTerminal,
  NoPane,
  Texts,                \* the screens a terminal can show
  Files,                \* the contents the user may give triggers.toml
  BadConfig,            \* contents that do not load
  Signals,              \* the signals the user sends
  Faults,               \* what goes wrong: members of AllFaults
  TerminalIdsReported,  \* FALSE for a herdr whose pane.list has no terminal_id
  MaxWatched,           \* MAX_WATCHED_PANES
  RetryBackoff,         \* ticks before the first retry
  MaxRetryBackoff,      \* ticks between two retries, at most
  MaxAttempts           \* u32::MAX, where the attempt counter saturates

\* flaky: herdr's answers get lost; down: herdr cannot be reached; setup: the
\* secrets file or a program is not usable; crash: the daemon is killed;
\* crash_after_act: even between an action and its book-keeping; disk: the
\* ledger cannot be written; recycle: herdr restarts and its pane ids start over.
AllFaults == {"flaky", "down", "setup", "crash", "crash_after_act", "disk", "recycle"}

Config == [rules : Seq(Rule), existing : BOOLEAN, cooldown : Nat, max : Nat]

\* Before the first valid load there is no rule, and no setting is consulted.
NoConfig == [rules |-> << >>, existing |-> FALSE, cooldown |-> 0, max |-> 0]

Configs == Files \ {BadConfig}

ASSUME EngineAssumption ==
  /\ NoTerminal \notin Terminals /\ NoPane \notin PaneIds
  /\ Texts \subseteq Screens /\ << >> \in Texts
  /\ Configs \subseteq Config /\ Files # {}
  /\ Signals \subseteq {"reload", "reset", "stop"}
  /\ Faults \subseteq AllFaults
  /\ TerminalIdsReported \in BOOLEAN
  /\ MaxWatched \in Nat
  /\ RetryBackoff \in Nat /\ MaxRetryBackoff \in Nat
  /\ MaxAttempts \in Nat \ {0}

\* A rule id is the hash of the regex and the action, so rules that share an id
\* agree on both.
ASSUME IdAssumption ==
  \A c, d \in Configs : \A i \in DOMAIN c.rules, j \in DOMAIN d.rules :
    c.rules[i].id = d.rules[j].id =>
      /\ c.rules[i].matches = d.rules[j].matches
      /\ c.rules[i].writes = d.rules[j].writes
      /\ c.rules[i].spawns = d.rules[j].spawns
      /\ c.rules[i].fixable = d.rules[j].fixable

VARIABLES
  (* herdr *)
  link,        \* "up", "flaky" or "down": what becomes of a request
  terminal,    \* the terminal instance behind each public pane id
  issued,      \* public ids given out since herdr was launched
  spare,       \* terminal instances not yet born
  screen,      \* what each terminal shows
  (* the user *)
  file,        \* triggers.toml
  broken,      \* TRUE while the secrets file or a program is not usable
  flags,       \* RELOAD, RESET and STOP, set by the signal handler
  (* the daemon's memory *)
  pc,
  cfg,         \* the rules and settings in force
  latched,     \* per key, the text of the prompt last acted on
  known,       \* every key ever evaluated
  retries,     \* consecutive failures per key
  retryAfter,  \* ticks until the next attempt is allowed
  guard,       \* the FireGuard
  ledger,      \* the once rules that have fired, by terminal
  listed,      \* the terminal behind each pane in this pass's pane.list
  labels,      \* FALSE if the label requests of this pass failed
  todo,        \* watched panes this pass has not read yet
  visit,       \* the pane being looked at, its text and the rules left to evaluate
  outcome,     \* what the action just run returned
  (* its disk *)
  disk,        \* the ledger file
  (* history, which no action's guard reads *)
  looked,      \* terminals this daemon has read
  settled,     \* rule/terminal pairs whose waiting prompt must not be acted on
  rearmed,     \* such pairs that a reload has armed again
  sent,        \* deliveries of a once rule to a terminal since the last reset
  wrote        \* ages of a rule's writes since the rules were loaded, oldest first

herdrVars == <<link, terminal, issued, spare, screen>>
userVars  == <<file, broken>>
passVars  == <<listed, labels, todo, visit, outcome>>
armVars   == <<latched, known, retries, retryAfter>>
histVars  == <<looked, settled, rearmed, sent, wrote>>
vars == <<herdrVars, userVars, flags, pc, cfg, armVars, guard, ledger, passVars,
          disk, histVars>>

Points == {"down", "drain_reload", "drain_reset", "list", "visit", "evaluate",
           "act", "record"}

\* PaneInfo::ledger_id.
PublicId(p, t) == p   \* mutant: the id herdr starts over after a restart

LedgerId(p, t) == IF TerminalIdsReported THEN t ELSE p

LedgerKeys == RuleIds \X (Terminals \cup PaneIds)

NoVisit == [pane |-> NoPane, text |-> << >>, rest |-> {}]

Visits == [pane : PaneIds \cup {NoPane}, text : Texts, rest : SUBSET Nat]

Live(p) == terminal[p] # NoTerminal

NoTerminals == [p \in PaneIds |-> NoTerminal]
NoLatches == [k \in Keys |-> NoLine]
NoCounts  == [k \in Keys |-> 0]
NothingWritten == [r \in RuleIds |-> << >>]

Init ==
  /\ link = "up" /\ screen = [t \in Terminals |-> << >>]
  /\ terminal = NoTerminals /\ issued = {} /\ spare = Terminals
  /\ file \in Files /\ broken = FALSE /\ flags = {}
  /\ pc = "down" /\ cfg = NoConfig
  /\ latched = NoLatches /\ known = {} /\ retries = NoCounts /\ retryAfter = NoCounts
  /\ guard = NewGuard(0, 0) /\ ledger = {} /\ disk = {}
  /\ listed = NoTerminals /\ labels = TRUE /\ todo = {} /\ visit = NoVisit
  /\ outcome = "ok"
  /\ looked = {} /\ settled = {} /\ rearmed = {}
  /\ sent = [e \in RuleIds \X Terminals |-> 0] /\ wrote = NothingWritten

----------------------------------------------------------------------------
(* The history. A rule/terminal pair is settled when its waiting prompt was *)
(* there at the daemon's first look, or has been acted on, and has not      *)
(* changed since.                                                           *)

Waiting(c, i, t) == LiveLine(c.rules[i], screen[t])

\* The first look at a terminal settles what is on it.
Look(t) ==
  /\ looked' = looked \cup {t}
  /\ settled' = IF t \in looked \/ cfg.existing THEN settled
                ELSE settled \cup {<<i, t>> : i \in {j \in DOMAIN cfg.rules :
                                                       Waiting(cfg, j, t) # NoLine}}

\* A prompt that goes or changes is no longer the one that was settled.
Unsettle(t, s) ==
  LET Stays(e) == e[2] # t \/ LiveLine(cfg.rules[e[1]], s) = Waiting(cfg, e[1], t)
  IN  /\ settled' = {e \in settled : Stays(e)}
      /\ rearmed' = {e \in rearmed : Stays(e)}

\* A rule nobody has evaluated on a pane yet arms with the reload: what waits
\* there was on screen when it armed. For a rule that has been, the reload drops
\* the latch: the prompts it had settled are as they were, and armed again, and so
\* is what a rule finds that earlier rules of its id have been evaluated for.
Rearm(c) ==
  LET Waits(e) == Waiting(c, e[1], e[2]) # NoLine
      Known(e) == \E p \in PaneIds :
                    terminal[p] = e[2] /\ <<c.rules[e[1]].id, p>> \in known
      Before(e) == {i \in DOMAIN cfg.rules : cfg.rules[i].id = c.rules[e[1]].id}
      Carried(e) == \E i \in Before(e) : /\ <<i, e[2]>> \in settled \cup rearmed
                                         /\ Waiting(c, e[1], e[2]) = Waiting(cfg, i, e[2])
      pairs == (DOMAIN c.rules) \X Terminals
  IN  /\ settled' = {e \in pairs : e[2] \in looked /\ ~ c.existing /\ Waits(e) /\ ~ Known(e)}
      /\ rearmed' = {e \in pairs \ settled' :
                       \/ Carried(e)
                       \/ e[2] \in looked /\ ~ c.existing /\ Waits(e) /\ Before(e) = {}}

Delivered(i) ==
  LET t == terminal[visit.pane]
      e == <<cfg.rules[i].id, t>>
  IN  sent' = IF t # NoTerminal /\ cfg.rules[i].once
              THEN [sent EXCEPT ![e] = IF @ < 2 THEN @ + 1 ELSE 2]
              ELSE sent

Answered(i, line) ==
  LET t == terminal[visit.pane]
      e == <<i, t>>
  IN  IF t # NoTerminal /\ t = listed[visit.pane] /\ Waiting(cfg, i, t) = line
      THEN settled' = settled \cup {e} /\ rearmed' = rearmed \ {e}
      ELSE UNCHANGED <<settled, rearmed>>

\* A write is counted when it is made, and grows old on a clock of its own.
Wrote(i) ==
  wrote' = IF cfg.rules[i].writes
           THEN [wrote EXCEPT ![cfg.rules[i].id] = Append(@, 0)] ELSE wrote

Recent(ages) ==
  LET older == [n \in 1..Len(ages) |-> Older(ages[n])]
  IN  SubSeq(older, Cardinality({n \in 1..Len(ages) : older[n] >= Second}) + 1, Len(older))

----------------------------------------------------------------------------
(* Starting, and the top of the loop of Engine::run.                       *)

\* Engine::new: the ledger comes from disk, everything else starts empty.
Start ==
  /\ pc = "down"
  /\ pc' = "drain_reload"
  /\ ledger' = disk
  /\ cfg' = IF file = BadConfig THEN NoConfig ELSE file
  /\ guard' = NewGuard(cfg'.cooldown, cfg'.max)
  /\ wrote' = NothingWritten
  /\ UNCHANGED <<herdrVars, userVars, flags, armVars, passVars, disk, looked, settled,
                 rearmed, sent>>

\* The process is gone, and its memory with it.
Gone ==
  /\ pc' = "down" /\ cfg' = NoConfig /\ flags' = {}
  /\ latched' = NoLatches /\ known' = {} /\ retries' = NoCounts /\ retryAfter' = NoCounts
  /\ guard' = NewGuard(0, 0) /\ ledger' = {}
  /\ listed' = NoTerminals /\ labels' = TRUE /\ todo' = {} /\ visit' = NoVisit
  /\ outcome' = "ok"
  /\ looked' = {} /\ settled' = {} /\ rearmed' = {} /\ wrote' = NothingWritten
  /\ UNCHANGED <<herdrVars, userVars, disk, sent>>

\* STOP is looked at here only: a pass that has begun is finished.
Exit ==
  /\ pc = "drain_reload" /\ "stop" \in flags
  /\ Gone

\* A file that does not load keeps the live rules. One that does replaces the
\* rules, the settings and the guard, and drops every latch, keeping known and
\* the retries.
DrainReload ==
  /\ pc = "drain_reload" /\ "stop" \notin flags
  /\ pc' = "drain_reset"
  /\ flags' = flags \ {"reload"}
  /\ IF "reload" \in flags /\ file # BadConfig
     THEN /\ cfg' = file
          /\ guard' = NewGuard(file.cooldown, file.max)
          /\ latched' = NoLatches
          /\ Rearm(file)
          /\ wrote' = NothingWritten
     ELSE UNCHANGED <<cfg, guard, latched, settled, rearmed, wrote>>
  /\ UNCHANGED <<herdrVars, userVars, known, retries, retryAfter, ledger, passVars,
                 disk, looked, sent>>

PersistAdditions == disk' = IF ledger \subseteq ledger' THEN ledger' ELSE disk   \* mutant

\* Persisting is a rename, so the file is replaced whole or, if the disk
\* refuses, not at all; the daemon never learns which.
Persist == disk' = ledger' \/ ("disk" \in Faults /\ disk' = disk)

DrainReset ==
  /\ pc = "drain_reset"
  /\ pc' = IF cfg.rules = << >> THEN "drain_reload" ELSE "list"
  /\ flags' = flags \ {"reset"}
  /\ IF "reset" \in flags
     THEN /\ ledger' = {} /\ Persist
          /\ latched' = NoLatches
          /\ settled' = {} /\ rearmed' = {}
          /\ sent' = [e \in RuleIds \X Terminals |-> 0]
     ELSE UNCHANGED <<ledger, disk, latched, settled, rearmed, sent>>
  /\ UNCHANGED <<herdrVars, userVars, cfg, known, retries, retryAfter, guard, passVars,
                 looked, wrote>>

----------------------------------------------------------------------------
(* One pass: list the panes, drop the state of those that are gone, then   *)
(* read the watched ones and evaluate their rules.                         *)

NeedsLabels == \E i \in DOMAIN cfg.rules : cfg.rules[i].byLabel

ListPanes ==
  /\ pc = "list" /\ link # "down"
  /\ pc' = "visit"
  /\ labels' \in IF link = "flaky" /\ NeedsLabels THEN BOOLEAN ELSE {TRUE}
  /\ LET live == {p \in PaneIds : Live(p)}
         mine == {LedgerId(p, terminal[p]) : p \in live}
         Kept(counts) == [k \in Keys |-> IF k[2] \in live THEN counts[k] ELSE 0]
     IN  /\ todo' \in WatchSets(cfg.rules, live, labels', MaxWatched)
         /\ ledger' = {e \in ledger : e[2] \in mine}
         /\ IF ledger' = ledger THEN disk' = disk ELSE Persist
         /\ guard' = RetainPanes(guard, live)
         /\ latched' = [k \in Keys |-> IF k[2] \in live THEN latched[k] ELSE NoLine]
         /\ known' = {k \in known : k[2] \in live}
         /\ retries' = Kept(retries)
         /\ retryAfter' = Kept(retryAfter)
  /\ listed' = terminal
  /\ UNCHANGED <<herdrVars, userVars, flags, cfg, visit, outcome, histVars>>

\* Nothing is pruned while herdr cannot be reached. The back-off is a sleep.
ListFails ==
  /\ pc = "list" /\ link # "up"
  /\ pc' = "drain_reload"
  /\ UNCHANGED <<herdrVars, userVars, flags, cfg, armVars, guard, ledger, passVars,
                 disk, histVars>>

\* Panes a scoped rule wants are read before the others.
NextPane(p) ==
  LET wanted == Targeted(cfg.rules, todo, labels)
  IN  p \in todo /\ (wanted # {} => p \in wanted)

ReadPane(p) ==
  /\ pc = "visit" /\ NextPane(p)
  /\ link # "down" /\ Live(p)
  /\ pc' = "evaluate"
  /\ todo' = todo \ {p}
  /\ visit' = [pane |-> p, text |-> screen[terminal[p]],
               rest |-> Applicable(cfg.rules, p, labels)]
  /\ Look(terminal[p])
  /\ UNCHANGED <<herdrVars, userVars, flags, cfg, armVars, guard, ledger, listed, labels,
                 outcome, disk, rearmed, sent, wrote>>

\* A pane that cannot be read is skipped: its latches stay as they are.
ReadFails(p) ==
  /\ pc = "visit" /\ NextPane(p)
  /\ link # "up" \/ ~ Live(p)
  /\ todo' = todo \ {p}
  /\ UNCHANGED <<herdrVars, userVars, flags, pc, cfg, armVars, guard, ledger, listed,
                 labels, visit, outcome, disk, histVars>>

EndPass ==
  /\ pc = "visit" /\ todo = {}
  /\ pc' = "drain_reload"
  /\ listed' = NoTerminals /\ labels' = TRUE
  /\ UNCHANGED <<herdrVars, userVars, flags, cfg, armVars, guard, ledger, todo, visit,
                 outcome, disk, histVars>>

----------------------------------------------------------------------------
(* Engine::evaluate: rule i, the next in order, on the text just read.     *)

IsNext(i) == i \in visit.rest /\ \A j \in visit.rest : i <= j

Key(i) == <<cfg.rules[i].id, visit.pane>>

Found(i) == LiveLine(cfg.rules[i], visit.text)

LedgerKey(i) == <<cfg.rules[i].id, LedgerId(visit.pane, listed[visit.pane])>>

\* The last rule of the pane sends the thread to the next pane.
RuleDone(i) ==
  /\ pc' = IF visit.rest = {i} THEN "visit" ELSE "evaluate"
  /\ visit' = IF visit.rest = {i} THEN NoVisit ELSE [visit EXCEPT !.rest = @ \ {i}]

UnlatchedEdge(i) == Found(i) # NoLine   \* mutant: no latch

\* A prompt the rule has not acted on waits at the tail.
Edge(i) == Found(i) # NoLine /\ latched[Key(i)] # Found(i)

NeverThere(i) == FALSE                      \* mutant: text at first sight is a prompt
NotYetKnown(i) == Key(i) \notin known       \* mutant: fire_on_existing_text ignored

AlreadyThere(i) == Key(i) \notin known /\ ~ cfg.existing

SpentOnScreen(i) == cfg.rules[i].once /\ latched[Key(i)] # NoLine   \* mutant: latch for ledger

SpentOnDisk(i) == cfg.rules[i].once /\ LedgerKey(i) \in disk   \* mutant: the file for the memory

Spent(i) == cfg.rules[i].once /\ LedgerKey(i) \in ledger

UntilItFails(i) ==   \* mutant: no second attempt
  /\ WouldAllow(guard, Key(i), Found(i))
  /\ cfg.rules[i].writes => WouldAllowWrite(guard, cfg.rules[i].id)
  /\ retries[Key(i)] = 0

Permitted(i) ==
  /\ WouldAllow(guard, Key(i), Found(i))
  /\ cfg.rules[i].writes => WouldAllowWrite(guard, cfg.rules[i].id)
  /\ retryAfter[Key(i)] = 0

Evaluated(i) == pc = "evaluate" /\ IsNext(i) /\ known' = known \cup {Key(i)}

Unmoved == <<herdrVars, userVars, flags, cfg, retries, retryAfter, guard, ledger, listed,
             labels, todo, outcome, disk, histVars>>

\* Nothing live: the prompt was answered or scrolled away, and the latch falls.
LatchFalls(i) ==
  /\ Evaluated(i) /\ Found(i) = NoLine
  /\ latched' = [latched EXCEPT ![Key(i)] = NoLine]
  /\ RuleDone(i)
  /\ UNCHANGED Unmoved

\* The prompt last acted on still waits.
StillLatched(i) ==
  /\ Evaluated(i) /\ Found(i) # NoLine /\ latched[Key(i)] = Found(i)
  /\ RuleDone(i)
  /\ UNCHANGED <<latched, Unmoved>>

\* Text that was there first, or a once rule that has fired: latched unfired.
LatchUnfired(i) ==
  /\ Evaluated(i) /\ Edge(i) /\ (AlreadyThere(i) \/ Spent(i))
  /\ latched' = [latched EXCEPT ![Key(i)] = Found(i)]
  /\ RuleDone(i)
  /\ UNCHANGED Unmoved

\* Cooldown, write cap or retry back-off: not now, and the rule stays armed.
HoldBack(i) ==
  /\ Evaluated(i) /\ Edge(i) /\ ~ AlreadyThere(i) /\ ~ Spent(i) /\ ~ Permitted(i)
  /\ RuleDone(i)
  /\ UNCHANGED <<latched, Unmoved>>

Attempt(i) ==
  /\ Evaluated(i) /\ Edge(i) /\ ~ AlreadyThere(i) /\ ~ Spent(i) /\ Permitted(i)
  /\ pc' = "act"
  /\ UNCHANGED <<latched, visit, Unmoved>>

----------------------------------------------------------------------------
(* actions::run and what evaluate does with its result.                    *)

\* What the user has to fix fails before anything else happens. A program that
\* starts has been acted with, whatever comes of it. A request may fail although
\* herdr carried it out: the answer is what got lost. A pane is addressed by its
\* public id, whatever terminal is behind that by now.
RunAction(i) ==
  /\ pc = "act" /\ IsNext(i)
  /\ pc' = "record"
  /\ LET rule == cfg.rules[i]
         usable == ~ (rule.fixable /\ broken)
         asks   == usable /\ ~ rule.spawns
         there  == rule.writes => Live(visit.pane)
     IN  \/ /\ ~ usable
            /\ outcome' = "fix" /\ UNCHANGED sent
         \/ /\ usable /\ (rule.spawns \/ (link # "down" /\ there))
            /\ outcome' = "ok" /\ Delivered(i)
         \/ /\ asks /\ (link # "up" \/ ~ there)
            /\ outcome' = "client" /\ UNCHANGED sent
         \/ /\ asks /\ link = "flaky" /\ there
            /\ outcome' = "client" /\ Delivered(i)
  /\ Wrote(i)
  /\ UNCHANGED <<herdrVars, userVars, flags, cfg, armVars, guard, ledger, listed, labels,
                 todo, visit, disk, looked, settled, rearmed>>

First(a, b) == a   \* mutant: nothing saturates

Least(a, b) == IF a <= b THEN a ELSE b

\* Twice as long after each failure, six times at most, and up to a ceiling.
Doubled == <<1, 2, 4, 8, 16, 32, 64>>

RetryWait(attempt) == Least(RetryBackoff * Doubled[Least(attempt, 7)], MaxRetryBackoff)

ConsumesIfDone == outcome = "ok"   \* mutant: an answer that got lost is retried

\* A failure the user must fix leaves the rule armed and paces the retry; any
\* other result consumes the prompt.
Consumes == outcome # "fix"

RecordOutcome(i) ==
  /\ pc = "record" /\ IsNext(i)
  /\ LET rule    == cfg.rules[i]
         k       == Key(i)
         line    == Found(i)
         attempt == Least(retries[k] + 1, MaxAttempts)
         fired   == Record(guard, k, line)
     IN  /\ guard' = IF rule.writes THEN RecordWrite(fired, rule.id) ELSE fired
         /\ retries' = [retries EXCEPT ![k] = IF Consumes THEN 0 ELSE attempt]
         /\ retryAfter' = [retryAfter EXCEPT ![k] = IF Consumes THEN 0 ELSE RetryWait(attempt)]
         /\ IF Consumes
            THEN latched' = [latched EXCEPT ![k] = line] /\ Answered(i, line)
            ELSE UNCHANGED <<latched, settled, rearmed>>
         /\ IF rule.once /\ Consumes
            THEN ledger' = ledger \cup {LedgerKey(i)} /\ Persist
            ELSE UNCHANGED <<ledger, disk>>
  /\ outcome' = "ok"
  /\ RuleDone(i)
  /\ UNCHANGED <<herdrVars, userVars, flags, cfg, known, listed, labels, todo, looked, sent,
                 wrote>>

----------------------------------------------------------------------------
(* herdr and the programs in its panes.                                    *)

\* herdr counts public ids up while it runs and never hands one out twice.
OpenPane(p, t, s) ==
  /\ p \notin issued /\ t \in spare
  /\ terminal' = [terminal EXCEPT ![p] = t]
  /\ issued' = issued \cup {p} /\ spare' = spare \ {t}
  /\ screen' = [screen EXCEPT ![t] = s]
  /\ UNCHANGED <<link, userVars, flags, pc, cfg, armVars, guard, ledger, passVars, disk,
                 histVars>>

ClosePane(p) ==
  /\ Live(p)
  /\ terminal' = [terminal EXCEPT ![p] = NoTerminal]
  /\ screen' = [screen EXCEPT ![terminal[p]] = << >>]
  /\ Unsettle(terminal[p], << >>)
  /\ UNCHANGED <<link, issued, spare, userVars, flags, pc, cfg, armVars, guard, ledger,
                 passVars, disk, looked, sent, wrote>>

Redraw(p, s) ==
  /\ Live(p) /\ s # screen[terminal[p]]
  /\ screen' = [screen EXCEPT ![terminal[p]] = s]
  /\ Unsettle(terminal[p], s)
  /\ UNCHANGED <<link, terminal, issued, spare, userVars, flags, pc, cfg, armVars, guard,
                 ledger, passVars, disk, looked, sent, wrote>>

\* A relaunched herdr counts its public ids from 1 again.
RestartHerdr ==
  /\ "recycle" \in Faults /\ issued # {}
  /\ terminal' = NoTerminals /\ issued' = {}
  /\ screen' = [t \in Terminals |-> << >>]
  /\ settled' = {} /\ rearmed' = {}
  /\ UNCHANGED <<link, spare, userVars, flags, pc, cfg, armVars, guard, ledger, passVars,
                 disk, looked, sent, wrote>>

SetLink(l) ==
  /\ l \in ({"flaky", "down"} \cap Faults) \cup {"up"} /\ l # link
  /\ link' = l
  /\ UNCHANGED <<terminal, issued, spare, screen, userVars, flags, pc, cfg, armVars, guard,
                 ledger, passVars, disk, histVars>>

----------------------------------------------------------------------------
(* The user, the clock and the crash.                                      *)

EditFile(f) ==
  /\ f # file /\ file' = f
  /\ UNCHANGED <<herdrVars, broken, flags, pc, cfg, armVars, guard, ledger, passVars, disk,
                 histVars>>

\* Secrets are read per action, so a repair needs no reload.
SetUp(b) ==
  /\ "setup" \in Faults /\ b # broken /\ broken' = b
  /\ UNCHANGED <<herdrVars, file, flags, pc, cfg, armVars, guard, ledger, passVars, disk,
                 histVars>>

Signal(sig) ==
  /\ pc # "down" /\ sig \in Signals \ flags
  /\ flags' = flags \cup {sig}
  /\ UNCHANGED <<herdrVars, userVars, pc, cfg, armVars, guard, ledger, passVars, disk,
                 histVars>>

Tick ==
  /\ guard' = Elapse(guard)
  /\ retryAfter' = [k \in Keys |-> IF retryAfter[k] > 0 THEN retryAfter[k] - 1 ELSE 0]
  /\ <<guard, retryAfter>>' # <<guard, retryAfter>>
  /\ wrote' = [r \in RuleIds |-> Recent(wrote[r])]
  /\ UNCHANGED <<herdrVars, userVars, flags, pc, cfg, latched, known, retries, ledger,
                 passVars, disk, looked, settled, rearmed, sent>>

Crash ==
  /\ pc # "down"
  /\ IF pc = "record" THEN "crash_after_act" \in Faults ELSE "crash" \in Faults
  /\ Gone

----------------------------------------------------------------------------
Evaluate(i) ==
  \/ LatchFalls(i) \/ StillLatched(i) \/ LatchUnfired(i) \/ HoldBack(i) \/ Attempt(i)

Daemon ==
  \/ DrainReload \/ DrainReset \/ ListPanes \/ ListFails \/ EndPass
  \/ \E p \in PaneIds : ReadPane(p) \/ ReadFails(p)
  \/ \E i \in visit.rest : Evaluate(i) \/ RunAction(i) \/ RecordOutcome(i)

Environment ==
  \/ Start \/ Exit \/ Crash \/ Tick \/ RestartHerdr
  \/ \E p \in PaneIds, t \in Terminals, s \in Texts : OpenPane(p, t, s)
  \/ \E p \in PaneIds : ClosePane(p) \/ \E s \in Texts : Redraw(p, s)
  \/ \E l \in {"up", "flaky", "down"} : SetLink(l)
  \/ \E f \in Files : EditFile(f)
  \/ \E b \in BOOLEAN : SetUp(b)
  \/ \E sig \in Signals : Signal(sig)

Next == Daemon \/ Environment

Spec == Init /\ [][Next]_vars

\* The thread keeps running, a signalled daemon stops, and time passes.
Fairness == WF_vars(Daemon) /\ WF_vars(Exit) /\ WF_vars(Tick)

FairSpec == Spec /\ Fairness

----------------------------------------------------------------------------
\* The types, and what keeps a pass's indices safe while panes come and go: a pass
\* has left only panes its pane.list had and only rules that are in force.
TypeOK ==
  /\ link \in {"up", "flaky", "down"}
  /\ terminal \in [PaneIds -> Terminals \cup {NoTerminal}]
  /\ issued \subseteq PaneIds /\ spare \subseteq Terminals
  /\ screen \in [Terminals -> Texts]
  /\ file \in Files /\ broken \in BOOLEAN /\ flags \subseteq Signals
  /\ pc \in Points /\ cfg \in Configs \cup {NoConfig}
  /\ latched \in [Keys -> Lines \cup {NoLine}] /\ known \subseteq Keys
  /\ retries \in [Keys -> 0..MaxAttempts] /\ retryAfter \in [Keys -> Nat]
  /\ guard \in Guards /\ ledger \subseteq LedgerKeys /\ disk \subseteq LedgerKeys
  /\ listed \in [PaneIds -> Terminals \cup {NoTerminal}] /\ labels \in BOOLEAN
  /\ todo \subseteq PaneIds /\ visit \in Visits
  /\ visit.rest \subseteq DOMAIN cfg.rules
  /\ pc \notin {"evaluate", "act", "record"} => visit.rest = {}
  /\ \A p \in todo : listed[p] # NoTerminal
  /\ visit.rest # {} => visit.pane \in PaneIds /\ listed[visit.pane] # NoTerminal
  /\ outcome \in {"ok", "client", "fix"}
  /\ looked \subseteq Terminals
  /\ settled \subseteq Nat \X Terminals /\ rearmed \subseteq Nat \X Terminals
  /\ sent \in [RuleIds \X Terminals -> 0..2] /\ wrote \in [RuleIds -> Seq(0..AgeCap)]

\* The once ledger of a running daemon is on disk, whatever the daemon did last:
\* a restart re-arms nothing.
LedgerIsDurable == pc # "down" => disk = ledger

\* A once rule is delivered at most once to a terminal between two resets,
\* whatever happens to the configuration, the pane, the network and the daemon.
AtMostOncePerTerminal == \A e \in RuleIds \X Terminals : sent[e] <= 1

\* Why it holds when herdr keeps its pane ids, no crash falls between an action and
\* its book-keeping, and the disk works or the daemon is never restarted. Public ids
\* and terminals are handed out once; so the pane listed is the pane written to, and
\* either will do for the ledger.
PanesOK ==
  \A p \in PaneIds :
    /\ Live(p) => p \in issued /\ terminal[p] \notin spare
    /\ listed[p] # NoTerminal =>
         p \in issued /\ terminal[p] \in {listed[p], NoTerminal}

\* A delivery to e whose book-keeping is still to come.
InFlight(e) ==
  /\ pc = "record" /\ outcome # "fix"
  /\ \E i \in visit.rest : IsNext(i) /\ cfg.rules[i].once /\ LedgerKey(i) = e

\* The ledger that counts: the daemon's, while there is one.
Booked == IF pc = "down" THEN disk ELSE ledger

OneTerminalEach == \A p, q \in PaneIds : Live(p) /\ terminal[p] = terminal[q] => p = q

\* A pair delivered to is in the ledger, under the id its pane has there, or about to
\* be, or its terminal is gone for good.
DeliveriesAreBooked ==
  \A e \in RuleIds \X Terminals :
    sent[e] # 0 =>
      /\ e[2] \notin spare
      /\ \A p \in PaneIds : terminal[p] = e[2] =>
           LET k == <<e[1], LedgerId(p, e[2])>> IN k \in Booked \/ InFlight(k)

OnceInv ==
  /\ PanesOK /\ OneTerminalEach /\ AtMostOncePerTerminal /\ DeliveriesAreBooked
  /\ pc = "act" => \A i \in visit.rest : IsNext(i) => ~ Spent(i)

DiskWorks == "disk" \notin Faults

NeverRestarted == "crash" \notin Faults /\ "stop" \notin Signals

Reliable ==
  /\ Faults \cap {"crash_after_act", "recycle"} = {}
  /\ DiskWorks \/ NeverRestarted

Once == INSTANCE OnceSpec WITH Pairs <- RuleIds \X Terminals

\* The same as an implementation: polls, ledger, file, restarts and retries amount
\* to the promise of once, where a pair fires once until a reset.
FiresOnceUntilReset == Once!Spec

\* A rule that acts now: it is the next one, on the pane being visited.
Acts(e) == pc = "act" /\ \E i \in visit.rest : IsNext(i) /\ e = <<i, listed[visit.pane]>>

\* A prompt that was on screen at the first look, or has been acted on, is not
\* acted on while it stays as it is: a password is not sent twice to one prompt,
\* nor typed because of text an earlier login left behind. A reset, which is there
\* to make rules fire again, ends this.
NeverActsOnSettled == \A e \in settled \cup rearmed : ~ Acts(e)

\* The same, but for the prompts a reload has armed again. It drops every latch and
\* keeps known, so that the prompt on screen when the user reloads is acted on once
\* more by a rule that stays; nothing else arms a prompt that has not changed.
OnlyReloadsRearm == \A e \in settled : ~ Acts(e)

\* Why it holds when rules have ids of their own and herdr keeps its pane ids.
\* A settled pair whose rule has been evaluated on the pane is latched with the
\* text waiting there; one that has not is caught by the first look.
SettledIsLatched ==
  \A i \in DOMAIN cfg.rules, p \in PaneIds :
    LET k == <<cfg.rules[i].id, p>>
    IN  <<i, terminal[p]>> \in settled =>
          IF k \in known THEN latched[k] = Waiting(cfg, i, terminal[p]) ELSE ~ cfg.existing

SettledWaits ==
  \A e \in settled :
    /\ e[1] \in DOMAIN cfg.rules /\ e[2] \notin spare
    /\ Waiting(cfg, e[1], e[2]) # NoLine

\* The text a visit works on is out of date for unsettled pairs only, and a pane
\* that has closed since it was listed has none that are settled.
TextIsCurrent ==
  \A i \in visit.rest :
    LET t == listed[visit.pane]
    IN  /\ <<i, t>> \in settled =>
             terminal[visit.pane] = t /\ Found(i) = Waiting(cfg, i, t)
        /\ Live(visit.pane) => t \in looked

KnownIsLooked ==
  \A k \in known :
    /\ k[2] \in issued
    /\ Live(k[2]) => terminal[k[2]] \in looked

ActsOnAnEdge ==
  pc \in {"act", "record"} =>
    \A i \in visit.rest : IsNext(i) => /\ <<i, listed[visit.pane]>> \notin settled
                                       /\ Key(i) \in known /\ Found(i) # NoLine

SettledInv ==
  /\ PanesOK /\ OneTerminalEach
  /\ SettledIsLatched /\ SettledWaits /\ TextIsCurrent /\ KnownIsLooked /\ ActsOnAnEdge
  /\ pc = "down" => settled = {} /\ known = {} /\ looked = {}
  /\ looked \cap spare = {}

\* Rules in one configuration differ in regex or action, and herdr is not relaunched.
Distinct ==
  /\ "recycle" \notin Faults
  /\ \A c \in Configs : \A i, j \in DOMAIN c.rules :
       c.rules[i].id = c.rules[j].id => i = j

\* A terminal that takes a recycled public id does not inherit what was fired on
\* the terminal that had it before: a rule is spent only where it was delivered.
\* (A herdr that answers, so that no delivery is merely assumed.)
InheritsNothing ==
  pc = "evaluate" => \A i \in visit.rest :
    LET t == listed[visit.pane]
    IN  IsNext(i) /\ Spent(i) /\ terminal[visit.pane] = t => sent[<<cfg.rules[i].id, t>>] # 0

\* Why it holds when herdr answers, tells terminal ids, and no reset is lost on the
\* disk. What is booked was delivered, or its terminal is gone for good.
WasDelivered(e) == /\ e[2] \notin spare
                   /\ sent[e] # 0 \/ \A p \in PaneIds : terminal[p] # e[2]

InheritInv ==
  /\ link = "up" /\ OneTerminalEach
  /\ \A p \in PaneIds : listed[p] \notin spare /\ (Live(p) => terminal[p] \notin spare)
  /\ \A p, q \in PaneIds : listed[p] # NoTerminal /\ terminal[q] = listed[p] => q = p
  /\ \A e \in ledger \cup disk : e \in RuleIds \X Terminals /\ WasDelivered(e)
  /\ \A e \in RuleIds \X Terminals : InFlight(e) => WasDelivered(e)

Answering ==
  /\ Faults \cap {"flaky", "down"} = {} /\ TerminalIdsReported
  /\ "disk" \notin Faults \/ "reset" \notin Signals

\* A rule that keeps finding its prompt cannot flood the panes: since the last
\* reload, which starts the count anew, no rule whose action writes has been fired
\* more often in any second than max_writes_per_second, over all panes, whether the
\* write succeeds or not. For a coprocess rule the start is the fire: its answer is
\* typed later, by a thread that asks no guard.
WritesAreCapped == \A r \in RuleIds : Len(wrote[r]) <= cfg.max

\* Why it holds. The guard allows a write only while its window has room, counting
\* the one that evaluate has let through and not recorded yet.
Writing(r) ==
  pc \in {"act", "record"} /\ \E i \in visit.rest :
    IsNext(i) /\ cfg.rules[i].writes /\ cfg.rules[i].id = r

WritesOf(r) == Cardinality(LiveWrites(guard.writes[r])) + (IF Writing(r) THEN 1 ELSE 0)

GuardCap == \A r \in RuleIds : WritesOf(r) <= guard.max

\* And the window forgets no write too early: the writes of the last second are its
\* newest entries, in their order and no older there, but for the one not recorded yet.
Recorded(r) ==
  IF pc = "record" /\ Writing(r) THEN Len(wrote[r]) - 1 ELSE Len(wrote[r])

InWindow(r) ==
  /\ Recorded(r) <= Len(guard.writes[r])
  /\ \A n \in 1..Recorded(r) :
       guard.writes[r][n + Len(guard.writes[r]) - Recorded(r)] <= wrote[r][n]

InOrder(ages) ==
  /\ \A n \in 1..Len(ages) : ages[n] < Second
  /\ \A m, n \in 1..Len(ages) : m <= n => ages[m] >= ages[n]

WindowInv ==
  /\ guard.max = cfg.max
  /\ \A r \in RuleIds : InWindow(r) /\ InOrder(wrote[r])

\* A pass keeps state for the panes of its list only, all five kinds of it, and for
\* no terminal that is not there: a daemon that runs for months does not grow with the
\* panes that came and went, and a pane that comes back under an old id starts afresh.
Forgotten(p) ==
  \A k \in RuleIds \X {p} :
    /\ latched[k] = NoLine /\ k \notin known
    /\ retries[k] = 0 /\ retryAfter[k] = 0
    /\ guard.last[k] = NeverFired

OnlyListedIsKept ==
  pc \in {"visit", "evaluate", "act", "record"} =>
    /\ \A p \in PaneIds : listed[p] = NoTerminal => Forgotten(p)
    /\ \A e \in ledger : \E p \in PaneIds :
         listed[p] # NoTerminal /\ e[2] = LedgerId(p, listed[p])

\* herdr answers, the user's repairs are made, and the daemon runs.
Healthy == link = "up" /\ ~ broken /\ pc # "down"

WithinCap(p) ==
  \A W \in WatchSets(cfg.rules, {q \in PaneIds : Live(q)}, TRUE, MaxWatched) : p \in W

Armed(i, p, line) ==
  /\ i \in DOMAIN cfg.rules /\ Live(p) /\ WithinCap(p)
  /\ AppliesTo(cfg.rules[i], p, TRUE)
  /\ Waiting(cfg, i, terminal[p]) = line
  /\ latched[<<cfg.rules[i].id, p>>] # line

\* Every rule, pane and prompt some configuration brings together.
Cases == {e \in (UNION {DOMAIN c.rules : c \in Configs}) \X PaneIds \X Lines :
            \E c \in Configs : /\ e[1] \in DOMAIN c.rules
                              /\ e[3] \in c.rules[e[1]].matches
                              /\ AppliesTo(c.rules[e[1]], e[2], TRUE)}

\* Once everything works for good, a prompt a rule is armed for on a pane within
\* the cap does not wait forever: evaluate acts on it, or recognises it as dealt
\* with, or it goes away. No cooldown, write cap, pane cap or retry back-off holds
\* it for good, nor an action that failed until the user repaired it.
ArmedPromptIsDealtWith ==
  <>[]Healthy => \A e \in Cases : Armed(e[1], e[2], e[3]) ~> ~ Armed(e[1], e[2], e[3])

\* A prompt a once rule has not been delivered to although it may fire on it.
Unserved(i, p) ==
  /\ i \in DOMAIN cfg.rules /\ Live(p) /\ cfg.existing /\ WithinCap(p)
  /\ cfg.rules[i].once /\ AppliesTo(cfg.rules[i], p, TRUE)
  /\ Waiting(cfg, i, terminal[p]) # NoLine
  /\ sent[<<cfg.rules[i].id, terminal[p]>>] = 0

\* With fire_on_existing_text, a once rule reaches every terminal: no latch, ledger
\* entry or retry makes a prompt wait forever on a terminal that has not had it.
EveryTerminalIsServed ==
  <>[]Healthy => \A e \in Cases : Unserved(e[1], e[2]) ~> ~ Unserved(e[1], e[2])
============================================================================
