----------------------------- MODULE Coprocess -----------------------------
(***************************************************************************)
(* The programs actions.rs starts for a rule. A `run` is launched and only *)
(* reaped. A `coprocess` is fed the screen on its stdin, and what it wrote *)
(* to its stdout is typed into the pane once it has exited. Three threads  *)
(* of the daemon work on it: one feeds, one drains, one waits, kills at    *)
(* the deadline and types. The program, and a grandchild that inherited    *)
(* its pipes, move in between; pipes hold so much and no more.             *)
(*                                                                         *)
(* Text is counted in chunks. A tick is at least SLOW_REAP_INTERVAL, and a *)
(* waiting thread is scheduled within one.                                 *)
(***************************************************************************)
EXTENDS Integers, Sequences

CONSTANTS
  Jobs,         \* starts of a program
  Programs,     \* what a started program does before it exits
  Feeds,        \* the sizes of screens a coprocess is fed; 0 without feed_screen
  Capacity,     \* of a pipe
  GrandChunks,  \* what a grandchild may write
  MaxAnswer,    \* COPROCESS_FEED_MAX_BYTES, as the cap on what is typed
  Deadline,     \* COPROCESS_DEADLINE
  DrainGrace    \* COPROCESS_DRAIN_GRACE

\* "pause" may take any time, for ever included; "fork" leaves a grandchild.
Ops == {"read", "write", "fork", "pause"}

Scripts == Seq(Ops)

ASSUME CoprocessAssumption ==
  /\ Programs \subseteq Scripts /\ Feeds \subseteq Nat
  /\ Capacity \in Nat \ {0} /\ GrandChunks \in Nat /\ MaxAnswer \in Nat \ {0}
  /\ Deadline \in Nat /\ DrainGrace \in Nat

VARIABLES
  up,          \* FALSE once the daemon, and its threads with it, is gone
  program,     \* what the child has left to do
  child,       \* "none", "alive", "zombie" or "reaped"
  killed,      \* TRUE if a signal ended the child
  grandchild,  \* TRUE while one holds the pipes
  grandLeft,   \* what a grandchild may still write
  toFeed,      \* what the feeder has left; at 0 it has closed stdin
  stdin,       \* chunks in the pipe to the child
  stdout,      \* chunks in the pipe from it
  buffer,      \* what the drain thread has read
  reader,      \* the drain thread: "none", "reading" or "sent"
  waiter,      \* the thread that waits for the child
  age,         \* ticks since the start
  grace,       \* ticks since the child was seen to have exited
  wrote,       \* history: chunks the child and its grandchild ever wrote
  typed        \* history: chunks typed into the pane

childVars == <<program, child, killed, grandchild, grandLeft, wrote>>
pipeVars  == <<toFeed, stdin, stdout, buffer, reader>>
waitVars  == <<waiter, age, grace, typed>>
vars == <<up, childVars, pipeVars, waitVars>>

\* "reap" blocks in wait; "watch" is about to try_wait, "asleep" between two of
\* these; "kill" is past the deadline; "drain" waits for the drain thread.
WaiterPoints == {"none", "reap", "watch", "asleep", "kill", "drain", "type", "done"}

AgeCap == Deadline + DrainGrace + 2

Init ==
  /\ up = TRUE
  /\ program = [j \in Jobs |-> << >>] /\ child = [j \in Jobs |-> "none"]
  /\ killed = [j \in Jobs |-> FALSE]
  /\ grandchild = [j \in Jobs |-> FALSE] /\ grandLeft = [j \in Jobs |-> GrandChunks]
  /\ toFeed = [j \in Jobs |-> 0] /\ stdin = [j \in Jobs |-> 0]
  /\ stdout = [j \in Jobs |-> 0] /\ buffer = [j \in Jobs |-> 0]
  /\ reader = [j \in Jobs |-> "none"] /\ waiter = [j \in Jobs |-> "none"]
  /\ age = [j \in Jobs |-> 0] /\ grace = [j \in Jobs |-> 0]
  /\ wrote = [j \in Jobs |-> 0] /\ typed = [j \in Jobs |-> 0]

----------------------------------------------------------------------------
\* spawn: nothing is fed or drained, all three streams being /dev/null.
Launch(j, p) ==
  /\ up /\ child[j] = "none"
  /\ child' = [child EXCEPT ![j] = "alive"] /\ program' = [program EXCEPT ![j] = p]
  /\ waiter' = [waiter EXCEPT ![j] = "reap"]
  /\ UNCHANGED <<up, killed, grandchild, grandLeft, wrote, pipeVars, age, grace, typed>>

\* spawn_coprocess: the child and its three threads.
Start(j, p, n) ==
  /\ up /\ child[j] = "none"
  /\ child' = [child EXCEPT ![j] = "alive"] /\ program' = [program EXCEPT ![j] = p]
  /\ toFeed' = [toFeed EXCEPT ![j] = n]
  /\ reader' = [reader EXCEPT ![j] = "reading"]
  /\ waiter' = [waiter EXCEPT ![j] = "watch"]
  /\ UNCHANGED <<up, killed, grandchild, grandLeft, wrote, stdin, stdout, buffer, age,
                 grace, typed>>

Piped(j) == reader[j] # "none"

\* Whoever holds the child's ends of the pipes.
Holders(j) == child[j] = "alive" \/ grandchild[j]

----------------------------------------------------------------------------
(* The feeder and the drain thread.                                        *)

FeedsOn(j) == up /\ toFeed[j] > 0   \* mutant: the pipe has no end
CanFeed(j) == up /\ toFeed[j] > 0 /\ (stdin[j] < Capacity \/ ~ Holders(j))

\* write_all blocks while the pipe is full and fails when nobody can read it.
Feed(j) ==
  /\ CanFeed(j)
  /\ IF Holders(j)
     THEN /\ stdin' = [stdin EXCEPT ![j] = @ + 1]
          /\ toFeed' = [toFeed EXCEPT ![j] = @ - 1]
     ELSE toFeed' = [toFeed EXCEPT ![j] = 0] /\ UNCHANGED stdin
  /\ UNCHANGED <<up, childVars, stdout, buffer, reader, waitVars>>

\* Mutant: the answer is read only when the whole screen has been fed.
CanDrainWhenFed(j) == up /\ reader[j] = "reading" /\ stdout[j] > 0 /\ toFeed[j] = 0

CanDrain(j) == up /\ reader[j] = "reading" /\ stdout[j] > 0

Drain(j) ==
  /\ CanDrain(j)
  /\ stdout' = [stdout EXCEPT ![j] = @ - 1] /\ buffer' = [buffer EXCEPT ![j] = @ + 1]
  /\ UNCHANGED <<up, childVars, toFeed, stdin, reader, waitVars>>

\* Mutant: the end of the child taken for the end of its output.
ChildGone(j) == child[j] # "alive"

\* read_to_end returns when EVERY writer has closed the pipe.
Closed(j) == stdout[j] = 0 /\ ~ Holders(j)

DrainEnds(j) ==
  /\ up /\ reader[j] = "reading" /\ Closed(j)
  /\ reader' = [reader EXCEPT ![j] = "sent"]
  /\ UNCHANGED <<up, childVars, toFeed, stdin, stdout, buffer, waitVars>>

----------------------------------------------------------------------------
(* The thread that waits.                                                  *)

OverdueLate(j) == age[j] > Deadline   \* mutant: one look too many
Overdue(j)     == age[j] >= Deadline

\* try_wait, which reaps, and then the look at the clock.
Watch(j) ==
  /\ up /\ waiter[j] = "watch"
  /\ \/ /\ child[j] = "zombie"
        /\ child' = [child EXCEPT ![j] = "reaped"]
        /\ waiter' = [waiter EXCEPT ![j] = "drain"]
     \/ /\ child[j] = "alive" /\ UNCHANGED child
        /\ waiter' = [waiter EXCEPT ![j] = IF Overdue(j) THEN "kill" ELSE "asleep"]
  /\ UNCHANGED <<up, program, killed, grandchild, grandLeft, wrote, pipeVars, age, grace,
                 typed>>

KillDrain(j) == "drain"   \* mutant: what a killed child wrote is kept
KillDone(j)  == "done"

\* kill and wait. The child may have exited since try_wait; the output is
\* discarded all the same.
Kill(j) ==
  /\ up /\ waiter[j] = "kill"
  /\ child' = [child EXCEPT ![j] = "reaped"]
  /\ killed' = [killed EXCEPT ![j] = child[j] = "alive"]
  /\ waiter' = [waiter EXCEPT ![j] = KillDone(j)]
  /\ UNCHANGED <<up, program, grandchild, grandLeft, wrote, pipeVars, age, grace, typed>>

\* recv_timeout. A child that wrote nothing declined.
Collect(j) ==
  /\ up /\ waiter[j] = "drain" /\ reader[j] = "sent"
  /\ waiter' = [waiter EXCEPT ![j] = IF buffer[j] = 0 THEN "done" ELSE "type"]
  /\ UNCHANGED <<up, childVars, pipeVars, age, grace, typed>>

Patient(j)        == FALSE   \* mutant: recv instead of recv_timeout
OutOfPatience(j) == grace[j] >= DrainGrace

GiveUpDraining(j) ==
  /\ up /\ waiter[j] = "drain" /\ reader[j] # "sent" /\ OutOfPatience(j)
  /\ waiter' = [waiter EXCEPT ![j] = "done"]
  /\ UNCHANGED <<up, childVars, pipeVars, age, grace, typed>>

Least(a, b) == IF a <= b THEN a ELSE b

\* pane.send_text of the answer up to the cap; herdr may be out of reach.
Type(j) ==
  /\ up /\ waiter[j] = "type"
  /\ typed' \in {typed, [typed EXCEPT ![j] = Least(buffer[j], MaxAnswer)]}
  /\ waiter' = [waiter EXCEPT ![j] = "done"]
  /\ UNCHANGED <<up, childVars, pipeVars, age, grace>>

\* Mutant: nobody waits for the program.
Abandon(j) ==
  /\ up /\ waiter[j] = "reap"
  /\ waiter' = [waiter EXCEPT ![j] = "done"]
  /\ UNCHANGED <<up, childVars, pipeVars, age, grace, typed>>

\* The reaper thread of a `run` returns from wait.
Reap(j) ==
  /\ up /\ waiter[j] = "reap" /\ child[j] = "zombie"
  /\ child' = [child EXCEPT ![j] = "reaped"] /\ waiter' = [waiter EXCEPT ![j] = "done"]
  /\ UNCHANGED <<up, program, killed, grandchild, grandLeft, wrote, pipeVars, age, grace,
                 typed>>

----------------------------------------------------------------------------
(* The program and its grandchild.                                         *)

CanRead(j) == ~ Piped(j) \/ stdin[j] > 0 \/ toFeed[j] = 0 \/ ~ up
CanWrite(j) == ~ Piped(j) \/ (up /\ stdout[j] < Capacity)

\* A write no one will ever read is the end of the writer. /dev/null takes and
\* gives at once.
Write(j) ==
  IF Piped(j)
  THEN stdout' = [stdout EXCEPT ![j] = @ + 1] /\ wrote' = [wrote EXCEPT ![j] = @ + 1]
  ELSE UNCHANGED <<stdout, wrote>>

NextOp(j) == Head(program[j])

ChildActs(j) ==
  /\ child[j] = "alive" /\ program[j] # << >>
  /\ program' = [program EXCEPT ![j] = Tail(@)]
  /\ \/ /\ NextOp(j) = "read" /\ CanRead(j)
        /\ stdin' = [stdin EXCEPT ![j] = IF @ > 0 THEN @ - 1 ELSE 0]
        /\ UNCHANGED <<stdout, wrote, grandchild>>
     \/ /\ NextOp(j) = "write" /\ CanWrite(j)
        /\ Write(j)
        /\ UNCHANGED <<stdin, grandchild>>
     \/ /\ NextOp(j) = "fork" /\ grandchild' = [grandchild EXCEPT ![j] = TRUE]
        /\ UNCHANGED <<stdin, stdout, wrote>>
     \/ /\ NextOp(j) = "pause"
        /\ UNCHANGED <<stdin, stdout, wrote, grandchild>>
  /\ UNCHANGED <<up, child, killed, grandLeft, toFeed, buffer, reader, waitVars>>

\* A program ends when it is through, or of a write nobody can read any more.
\* Without its parent, init reaps it.
ChildExits(j) ==
  /\ child[j] = "alive"
  /\ program[j] # << >> => ~ up /\ Piped(j) /\ NextOp(j) = "write"
  /\ child' = [child EXCEPT ![j] = IF up THEN "zombie" ELSE "reaped"]
  /\ UNCHANGED <<up, program, killed, grandchild, grandLeft, wrote, pipeVars, waitVars>>

GrandchildWrites(j) ==
  /\ up /\ grandchild[j] /\ grandLeft[j] > 0 /\ CanWrite(j)
  /\ grandLeft' = [grandLeft EXCEPT ![j] = @ - 1]
  /\ Write(j)
  /\ UNCHANGED <<up, program, child, killed, grandchild, toFeed, stdin, buffer, reader,
                 waitVars>>

GrandchildExits(j) ==
  /\ grandchild[j]
  /\ grandchild' = [grandchild EXCEPT ![j] = FALSE]
  /\ UNCHANGED <<up, program, child, killed, grandLeft, wrote, pipeVars, waitVars>>

----------------------------------------------------------------------------
\* A waiting thread with something to do does it before the next tick.
Due(j) ==
  \/ waiter[j] \in {"watch", "kill"}
  \/ waiter[j] = "drain" /\ (reader[j] = "sent" \/ OutOfPatience(j))

Tick ==
  /\ up /\ \A j \in Jobs : ~ Due(j)
  /\ age' = [j \in Jobs |-> IF waiter[j] \in {"none", "reap", "done"} \/ age[j] = AgeCap
                            THEN age[j] ELSE age[j] + 1]
  /\ grace' = [j \in Jobs |-> IF waiter[j] = "drain" /\ grace[j] < DrainGrace
                              THEN grace[j] + 1 ELSE grace[j]]
  /\ waiter' = [j \in Jobs |-> IF waiter[j] = "asleep" THEN "watch" ELSE waiter[j]]
  /\ <<age, grace>>' # <<age, grace>>
  /\ UNCHANGED <<up, childVars, pipeVars, typed>>

\* The daemon stops or dies. Nothing kills its children then.
Gone ==
  /\ up /\ up' = FALSE
  /\ child' = [j \in Jobs |-> IF child[j] = "zombie" THEN "reaped" ELSE child[j]]
  /\ toFeed' = [j \in Jobs |-> 0]
  /\ UNCHANGED <<program, killed, grandchild, grandLeft, wrote, stdin, stdout, buffer,
                 reader, waitVars>>

Feeder(j)  == Feed(j)
Drainer(j) == Drain(j) \/ DrainEnds(j)
Waiter(j)  ==
  Watch(j) \/ Kill(j) \/ Collect(j) \/ GiveUpDraining(j) \/ Type(j) \/ Reap(j)

Next ==
  \/ \E j \in Jobs :
       \/ \E p \in Programs : Launch(j, p) \/ \E n \in Feeds : Start(j, p, n)
       \/ Feeder(j) \/ Drainer(j) \/ Waiter(j)
       \/ ChildActs(j) \/ ChildExits(j) \/ GrandchildWrites(j) \/ GrandchildExits(j)
  \/ Tick \/ Gone

Spec == Init /\ [][Next]_vars

\* The daemon's threads are scheduled and time passes. Nothing is assumed of the
\* programs, nor that the daemon stays.
Fairness ==
  /\ \A j \in Jobs : WF_vars(Feeder(j)) /\ WF_vars(Drainer(j)) /\ WF_vars(Waiter(j))
  /\ WF_vars(Tick)

FairSpec == Spec /\ Fairness

----------------------------------------------------------------------------
\* The types, and the bounds of the pipes and of the time a job may take.
TypeOK ==
  /\ up \in BOOLEAN
  /\ program \in [Jobs -> Scripts]
  /\ child \in [Jobs -> {"none", "alive", "zombie", "reaped"}]
  /\ killed \in [Jobs -> BOOLEAN] /\ grandchild \in [Jobs -> BOOLEAN]
  /\ grandLeft \in [Jobs -> Nat] /\ toFeed \in [Jobs -> Nat]
  /\ stdin \in [Jobs -> 0..Capacity] /\ stdout \in [Jobs -> 0..Capacity]
  /\ buffer \in [Jobs -> Nat] /\ reader \in [Jobs -> {"none", "reading", "sent"}]
  /\ waiter \in [Jobs -> WaiterPoints]
  /\ age \in [Jobs -> 0..AgeCap] /\ grace \in [Jobs -> 0..DrainGrace]
  /\ wrote \in [Jobs -> Nat] /\ typed \in [Jobs -> 0..MaxAnswer]

\* What is typed into a pane is the whole of what the program and whatever it left
\* behind wrote, up to the cap, and the program ended by itself: no part of an
\* answer, and nothing from a program that was killed for being late.
OnlyWholeAnswers ==
  \A j \in Jobs :
    typed[j] # 0 => /\ ~ killed[j] /\ ~ Holders(j)
                    /\ typed[j] = Least(wrote[j], MaxAnswer)

\* Why: what was written is in the pipe or in the buffer, the drain thread has sent
\* the buffer only if nobody can write any more, and the waiter gets to the drain
\* only past a child that exited.
AnswerInv ==
  \A j \in Jobs :
    /\ wrote[j] = stdout[j] + buffer[j]
    /\ reader[j] = "none" => wrote[j] = 0
    /\ reader[j] = "sent" => stdout[j] = 0 /\ ~ Holders(j)
    /\ child[j] = "none" =>
         waiter[j] = "none" /\ reader[j] = "none" /\ ~ grandchild[j]
    /\ reader[j] = "none" => waiter[j] \in {"none", "reap", "done"}
    /\ waiter[j] \in {"drain", "type"} => child[j] = "reaped" /\ ~ killed[j]
    /\ waiter[j] = "type" => reader[j] = "sent"
    /\ killed[j] => waiter[j] = "done" /\ child[j] = "reaped"
    /\ typed[j] # 0 =>
         /\ waiter[j] = "done" /\ reader[j] = "sent" /\ ~ killed[j]
         /\ typed[j] = Least(buffer[j], MaxAnswer)

\* Why an answer is fresh: the waiter looks at the clock once a tick until the
\* deadline, and at the drain thread until the grace is over.
TimeInv ==
  \A j \in Jobs :
    /\ waiter[j] = "none" => age[j] = 0
    /\ waiter[j] \in {"none", "watch", "asleep"} => grace[j] = 0
    /\ waiter[j] = "watch" => age[j] <= Deadline
    /\ waiter[j] = "asleep" => age[j] < Deadline
    /\ waiter[j] = "kill" => grace[j] = 0
    /\ waiter[j] = "drain" => age[j] <= Deadline + grace[j]

\* A program that reads or writes is never stuck for good on a full or empty pipe:
\* a thread of the daemon can move, whatever order it reads and writes in.
NeverWedged ==
  \A j \in Jobs :
    up /\ Piped(j) /\ child[j] = "alive" /\ program[j] # << >> =>
      /\ NextOp(j) = "read"  => CanRead(j) \/ CanFeed(j)
      /\ NextOp(j) = "write" => CanWrite(j) \/ CanDrain(j)

\* An answer that is typed was complete by the deadline and the grace: however slow
\* the program, the pane is not typed into on account of a screen older than that.
AnswerIsFresh ==
  [][\A j \in Jobs :
       waiter[j] # "type" /\ waiter'[j] = "type" => age[j] <= Deadline + DrainGrace]_vars

\* What becomes of a job: its answer is open until the waiting thread, or the daemon,
\* is through with it.
Fate(j) ==
  IF typed[j] # 0 THEN "answered"
  ELSE IF child[j] = "none" THEN "idle"
  ELSE IF up /\ waiter[j] # "done" THEN "open" ELSE "dropped"

Answers == INSTANCE AnswerSpec WITH
             fate <- [j \in Jobs |-> Fate(j)], written <- wrote, answer <- typed

\* The threads and pipes implement what a coprocess rule promises: each program is
\* answered for once or not at all, with all it wrote, and an answer that was dropped,
\* by the deadline, an inherited pipe, a failed request or the end of the daemon, is
\* never typed later; a program whose answer was typed has no more to say.
AnswersOnce == Answers!Spec

\* The waiting thread does not leak: not with a program that hangs, nor with a
\* grandchild that keeps the pipe open.
WaiterEnds == \A j \in Jobs : Piped(j) ~> waiter[j] = "done" \/ ~ up

\* A child that has exited does not stay a zombie, whoever started it.
ZombiesAreReaped == \A j \in Jobs : child[j] = "zombie" ~> child[j] = "reaped"
============================================================================
