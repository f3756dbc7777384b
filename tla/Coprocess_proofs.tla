-------------------------- MODULE Coprocess_proofs --------------------------
(***************************************************************************)
(* Theorems about Coprocess, for any jobs, programs, pipes and deadlines.  *)
(***************************************************************************)
EXTENDS Coprocess, SequenceTheorems, TLAPS

Inv == TypeOK /\ AnswerInv /\ TimeInv

\* At the start there are no jobs, and nothing to be invariant about.
LEMMA InitInv == Init => Inv
  <1>1. << >> \in Scripts
    BY DEF Scripts
  <1> QED  BY <1>1, CoprocessAssumption DEF Init, Inv, TypeOK, AnswerInv, TimeInv, AgeCap, WaiterPoints, Holders

\* What a program has left after a step is still a program.
LEMMA TailOfProgram ==
  ASSUME NEW p \in Scripts, p # << >>
  PROVE  Tail(p) \in Scripts
  BY HeadTailProperties DEF Scripts

\* Starting a program keeps the invariant: a started child has written nothing.
LEMMA LaunchInv ==
  ASSUME Inv, NEW j \in Jobs, NEW p \in Programs,
         Launch(j, p) \/ \E n \in Feeds : Start(j, p, n)
  PROVE  Inv'
  <1> USE CoprocessAssumption DEF Inv
  <1>1. TypeOK'
    BY DEF TypeOK, Launch, Start, WaiterPoints, pipeVars
  <1>2. AnswerInv'
    BY DEF TypeOK, AnswerInv, Launch, Start, Holders, pipeVars
  <1>3. TimeInv'
    BY DEF TypeOK, TimeInv, AnswerInv, Launch, Start, pipeVars
  <1> QED  BY <1>1, <1>2, <1>3

\* Feeding and draining keep it: a chunk drained moves from the pipe to the buffer.
LEMMA PipesInv ==
  ASSUME Inv, NEW j \in Jobs, Feeder(j) \/ Drainer(j)
  PROVE  Inv'
  <1> USE CoprocessAssumption DEF Inv
  <1>1. TypeOK'
    BY DEF TypeOK, Feeder, Drainer, Feed, CanFeed, Drain, CanDrain, DrainEnds, childVars, waitVars
  <1>2. AnswerInv'
    BY DEF TypeOK, AnswerInv, Feeder, Drainer, Feed, CanFeed, Drain, CanDrain, DrainEnds, Closed,
           Holders, childVars, waitVars
  <1>3. TimeInv'
    BY DEF TimeInv, Feeder, Drainer, Feed, Drain, DrainEnds, waitVars
  <1> QED  BY <1>1, <1>2, <1>3

\* So does the waiting thread: it reaches the drain only past a child that exited.
LEMMA WaiterInv ==
  ASSUME Inv, NEW j \in Jobs, Waiter(j)
  PROVE  Inv'
  <1> USE CoprocessAssumption DEF Inv
  <1>1. CASE Watch(j)
    <2>1. TypeOK'
      BY <1>1 DEF TypeOK, Watch, WaiterPoints, pipeVars
    <2>2. AnswerInv'
      BY <1>1 DEF TypeOK, AnswerInv, Watch, Holders, pipeVars
    <2>3. TimeInv'
      BY <1>1 DEF TypeOK, TimeInv, Watch, Overdue
    <2> QED  BY <2>1, <2>2, <2>3
  <1>2. CASE Kill(j)
    <2>1. TypeOK'
      BY <1>2 DEF TypeOK, Kill, KillDone, WaiterPoints, pipeVars
    <2>2. AnswerInv'
      BY <1>2 DEF TypeOK, AnswerInv, Kill, KillDone, Holders, pipeVars
    <2>3. TimeInv'
      BY <1>2 DEF TypeOK, TimeInv, Kill, KillDone
    <2> QED  BY <2>1, <2>2, <2>3
  <1>3. CASE Collect(j) \/ GiveUpDraining(j)
    <2>1. TypeOK'
      BY <1>3 DEF TypeOK, Collect, GiveUpDraining, WaiterPoints, childVars, pipeVars
    <2>2. AnswerInv'
      BY <1>3 DEF TypeOK, AnswerInv, Collect, GiveUpDraining, Holders, childVars, pipeVars
    <2>3. TimeInv'
      BY <1>3 DEF TypeOK, TimeInv, Collect, GiveUpDraining
    <2> QED  BY <2>1, <2>2, <2>3
  <1>4. CASE Type(j)
    <2>1. TypeOK'
      BY <1>4 DEF TypeOK, Type, Least, WaiterPoints, childVars, pipeVars
    <2>2. AnswerInv'
      BY <1>4 DEF TypeOK, AnswerInv, Type, Holders, childVars, pipeVars
    <2>3. TimeInv'
      BY <1>4 DEF TypeOK, TimeInv, Type
    <2> QED  BY <2>1, <2>2, <2>3
  <1>5. CASE Reap(j)
    <2>1. TypeOK'
      BY <1>5 DEF TypeOK, Reap, WaiterPoints, pipeVars
    <2>2. AnswerInv'
      BY <1>5 DEF TypeOK, AnswerInv, Reap, Holders, pipeVars
    <2>3. TimeInv'
      BY <1>5 DEF TypeOK, TimeInv, Reap
    <2> QED  BY <2>1, <2>2, <2>3
  <1> QED  BY <1>1, <1>2, <1>3, <1>4, <1>5 DEF Waiter

\* So do the program and its grandchild: they write only while they hold the pipe.
LEMMA ProgramInv ==
  ASSUME Inv, NEW j \in Jobs,
         ChildActs(j) \/ ChildExits(j) \/ GrandchildWrites(j) \/ GrandchildExits(j)
  PROVE  Inv'
  <1> USE CoprocessAssumption DEF Inv
  <1>1. CASE ChildActs(j)
    <2>1. child[j] = "alive" /\ program[j] # << >> /\ program[j] \in Scripts
      BY <1>1 DEF ChildActs, TypeOK
    <2>2. program' = [program EXCEPT ![j] = Tail(program[j])]
      BY <1>1 DEF ChildActs
    <2>3. /\ up' = up /\ child' = child /\ killed' = killed /\ grandLeft' = grandLeft
          /\ toFeed' = toFeed /\ buffer' = buffer /\ reader' = reader /\ waiter' = waiter
          /\ age' = age /\ grace' = grace /\ typed' = typed
      BY <1>1 DEF ChildActs, waitVars
    <2>4. program' \in [Jobs -> Scripts]
      BY <2>1, <2>2, TailOfProgram DEF TypeOK
    <2>5. ASSUME stdin' = [stdin EXCEPT ![j] = IF stdin[j] > 0 THEN stdin[j] - 1 ELSE 0],
                 stdout' = stdout, wrote' = wrote, grandchild' = grandchild
          PROVE  TypeOK' /\ AnswerInv'
      <3>1. stdin' \in [Jobs -> 0..Capacity]
        BY <2>5 DEF TypeOK
      <3>2. TypeOK'
        BY <2>3, <2>4, <2>5, <3>1 DEF TypeOK
      <3>3. AnswerInv'
        BY <2>3, <2>5 DEF AnswerInv, Holders
      <3> QED  BY <3>2, <3>3
    <2>6. ASSUME CanWrite(j), Write(j), stdin' = stdin, grandchild' = grandchild
          PROVE  TypeOK' /\ AnswerInv'
      <3>1. CASE Piped(j)
        <4>1. stdout' \in [Jobs -> 0..Capacity] /\ wrote' \in [Jobs -> Nat]
          BY <2>6, <3>1 DEF TypeOK, CanWrite, Write
        <4>2. TypeOK'
          BY <2>3, <2>4, <2>6, <4>1 DEF TypeOK
        <4>3. AnswerInv'
          <5>1. \A i \in Jobs : wrote'[i] = stdout'[i] + buffer'[i]
            BY <2>3, <2>6, <3>1 DEF TypeOK, AnswerInv, Write
          <5>2. reader[j] = "reading"
            BY <2>1, <3>1 DEF TypeOK, AnswerInv, Piped, Holders
          <5>3. \A i \in Jobs : i # j => wrote'[i] = wrote[i] /\ stdout'[i] = stdout[i]
            BY <2>6, <3>1 DEF TypeOK, Write
          <5> QED  BY <2>3, <2>6, <5>1, <5>2, <5>3 DEF AnswerInv, Holders
        <4> QED  BY <4>2, <4>3
      <3>2. CASE ~ Piped(j)
        BY <2>3, <2>4, <2>6, <3>2 DEF TypeOK, AnswerInv, Write, Holders
      <3> QED  BY <3>1, <3>2
    <2>7. ASSUME grandchild' \in {grandchild, [grandchild EXCEPT ![j] = TRUE]},
                 stdin' = stdin, stdout' = stdout, wrote' = wrote
          PROVE  TypeOK' /\ AnswerInv'
      <3>1. TypeOK'
        BY <2>3, <2>4, <2>7 DEF TypeOK
      <3>2. AnswerInv'
        BY <2>1, <2>3, <2>7 DEF TypeOK, AnswerInv, Holders
      <3> QED  BY <3>1, <3>2
    <2>8. TypeOK' /\ AnswerInv'
      BY <1>1, <2>5, <2>6, <2>7 DEF ChildActs
    <2>9. TimeInv'
      BY <2>3 DEF TimeInv
    <2> QED  BY <2>8, <2>9
  <1>2. CASE ChildExits(j)
    <2>1. TypeOK'
      BY <1>2 DEF TypeOK, ChildExits, pipeVars, waitVars
    <2>2. AnswerInv'
      BY <1>2 DEF TypeOK, AnswerInv, ChildExits, Holders, pipeVars, waitVars
    <2>3. TimeInv'
      BY <1>2 DEF TimeInv, ChildExits, waitVars
    <2> QED  BY <2>1, <2>2, <2>3
  <1>3. CASE GrandchildWrites(j)
    <2>1. TypeOK'
      BY <1>3 DEF TypeOK, GrandchildWrites, CanWrite, Write, Piped, waitVars
    <2>2. AnswerInv'
      BY <1>3 DEF TypeOK, AnswerInv, GrandchildWrites, Write, Piped, Holders, waitVars
    <2>3. TimeInv'
      BY <1>3 DEF TimeInv, GrandchildWrites, waitVars
    <2> QED  BY <2>1, <2>2, <2>3
  <1>4. CASE GrandchildExits(j)
    <2>1. TypeOK'
      BY <1>4 DEF TypeOK, GrandchildExits, pipeVars, waitVars
    <2>2. AnswerInv'
      BY <1>4 DEF TypeOK, AnswerInv, GrandchildExits, Holders, pipeVars, waitVars
    <2>3. TimeInv'
      BY <1>4 DEF TimeInv, GrandchildExits, waitVars
    <2> QED  BY <2>1, <2>2, <2>3
  <1> QED  BY <1>1, <1>2, <1>3, <1>4

\* So do the clock and the end of the daemon.
LEMMA WorldInv ==
  ASSUME Inv, Tick \/ Gone
  PROVE  Inv'
  <1> USE CoprocessAssumption DEF Inv
  <1>1. CASE Tick
    <2>1. TypeOK'
      BY <1>1 DEF TypeOK, Tick, Due, OutOfPatience, AgeCap, WaiterPoints, childVars, pipeVars
    <2>2. AnswerInv'
      BY <1>1 DEF TypeOK, AnswerInv, Tick, Holders, childVars, pipeVars
    <2>3. TimeInv'
      BY <1>1 DEF TypeOK, TimeInv, Tick, Due, OutOfPatience
    <2> QED  BY <2>1, <2>2, <2>3
  <1>2. CASE Gone
    <2>1. TypeOK'
      BY <1>2 DEF TypeOK, Gone, waitVars
    <2>2. AnswerInv'
      BY <1>2 DEF TypeOK, AnswerInv, Gone, Holders, waitVars
    <2>3. TimeInv'
      BY <1>2 DEF TimeInv, Gone, waitVars
    <2> QED  BY <2>1, <2>2, <2>3
  <1> QED  BY <1>1, <1>2

\* Every step keeps the invariant.
LEMMA StepInv == Inv /\ [Next]_vars => Inv'
  <1> SUFFICES ASSUME Inv, [Next]_vars PROVE Inv'
    OBVIOUS
  <1>1. CASE UNCHANGED vars
    BY <1>1 DEF Inv, TypeOK, AnswerInv, TimeInv, Holders, vars, childVars, pipeVars, waitVars
  <1>2. CASE Next
    BY <1>2, LaunchInv, PipesInv, WaiterInv, ProgramInv, WorldInv DEF Next
  <1> QED  BY <1>1, <1>2

\* The invariant holds throughout.
LEMMA Invariance == Spec => []Inv
  BY InitInv, StepInv, PTL DEF Spec

\* The variables keep their types, and pipes and times their bounds.
THEOREM CoprocessTypeCorrect == Spec => []TypeOK
  BY Invariance, PTL DEF Inv

\* No part of an answer, and nothing of a killed program, is ever typed.
THEOREM WholeAnswers == Spec => []OnlyWholeAnswers
  <1>1. Inv => OnlyWholeAnswers
    BY CoprocessAssumption DEF Inv, TypeOK, AnswerInv, OnlyWholeAnswers
  <1> QED  BY <1>1, Invariance, PTL

\* No pipe deadlock, whatever the program does and however small the pipes are.
THEOREM NoPipeDeadlock == Spec => []NeverWedged
  <1>1. Inv => NeverWedged
    BY CoprocessAssumption DEF Inv, TypeOK, AnswerInv, NeverWedged, CanRead, CanWrite, CanFeed,
                               CanDrain, Piped, Holders
  <1> QED  BY <1>1, Invariance, PTL

\* An answer is decided on within the deadline and the grace.
THEOREM FreshAnswers == Spec => AnswerIsFresh
  <1>1. ASSUME Inv, Next, NEW j \in Jobs, waiter[j] # "type", waiter'[j] = "type"
        PROVE  Collect(j)
    <2>1. ASSUME NEW i \in Jobs, Waiter(i) PROVE Collect(j)
      BY <1>1, <2>1 DEF Waiter, Watch, Kill, KillDone, Collect, GiveUpDraining, Type, Reap,
                        Inv, TypeOK
    <2>2. ASSUME NEW i \in Jobs, NEW p \in Programs,
                 Launch(i, p) \/ \E n \in Feeds : Start(i, p, n)
          PROVE  FALSE
      BY <1>1, <2>2 DEF Launch, Start, Inv, TypeOK
    <2>3. ASSUME NEW i \in Jobs, Feeder(i) \/ Drainer(i)
          PROVE  FALSE
      BY <1>1, <2>3 DEF Feeder, Drainer, Feed, Drain, DrainEnds, waitVars
    <2>4. ASSUME NEW i \in Jobs, ChildActs(i) \/ ChildExits(i) \/ GrandchildWrites(i)
                                   \/ GrandchildExits(i)
          PROVE  FALSE
      BY <1>1, <2>4 DEF ChildActs, ChildExits, GrandchildWrites, GrandchildExits, waitVars
    <2>5. ~ (Tick \/ Gone)
      BY <1>1 DEF Tick, Gone, waitVars, Inv, TypeOK
    <2> QED  BY <1>1, <2>1, <2>2, <2>3, <2>4, <2>5 DEF Next
  <1>2. ASSUME Inv, NEW j \in Jobs, Collect(j)
        PROVE  age[j] <= Deadline + DrainGrace
    BY <1>2, CoprocessAssumption DEF Inv, TypeOK, TimeInv, Collect
  <1>3. Inv /\ [Next]_vars =>
          [\A j \in Jobs : waiter[j] # "type" /\ waiter'[j] = "type"
                             => age[j] <= Deadline + DrainGrace]_vars
    BY <1>1, <1>2
  <1> QED  BY <1>3, Invariance, PTL DEF Spec, AnswerIsFresh
----------------------------------------------------------------------------
(* The threads and pipes implement AnswerSpec. Each lemma takes one kind   *)
(* of step to a step of that, or to a stutter.                             *)

\* No job has been started, so each is idle.
LEMMA InitAnswers == Init => Answers!Init
  BY DEF Init, Answers!Init, Fate

\* A step that neither changes a job's fate nor writes or types shows nothing.
LEMMA Stutters ==
  ASSUME \A j \in Jobs : Fate(j)' = Fate(j), wrote' = wrote, typed' = typed
  PROVE  UNCHANGED Answers!answerVars
  BY DEF Answers!answerVars

\* A step after which no answer is open that was, for some of the jobs.
LEMMA Drops ==
  ASSUME NEW js \in SUBSET Jobs, \A j \in js : Fate(j) = "open",
         \A j \in Jobs : Fate(j)' = IF j \in js THEN "dropped" ELSE Fate(j),
         wrote' = wrote, typed' = typed
  PROVE  Answers!Next
  <1>1. Answers!Drop(js)
    BY DEF Answers!Drop
  <1> QED  BY <1>1 DEF Answers!Next

\* Starting a program opens its answer.
LEMMA LaunchAnswers ==
  ASSUME Inv, NEW j \in Jobs, NEW p \in Programs,
         Launch(j, p) \/ \E n \in Feeds : Start(j, p, n)
  PROVE  Answers!Next
  <1>1. /\ up /\ child[j] = "none" /\ child' = [child EXCEPT ![j] = "alive"]
        /\ waiter' \in {[waiter EXCEPT ![j] = "reap"], [waiter EXCEPT ![j] = "watch"]}
        /\ up' = up /\ wrote' = wrote /\ typed' = typed
    BY DEF Launch, Start, pipeVars
  <1>2. typed[j] = 0
    BY <1>1 DEF Inv, TypeOK, AnswerInv
  <1>3. Fate(j) = "idle" /\ Fate(j)' = "open"
    BY <1>1, <1>2 DEF Fate, Inv, TypeOK
  <1>4. \A i \in Jobs : i # j => Fate(i)' = Fate(i)
    BY <1>1 DEF Fate, Inv, TypeOK
  <1>5. Answers!Start(j)
    BY <1>1, <1>3, <1>4 DEF Answers!Start
  <1> QED  BY <1>5 DEF Answers!Next

\* The waiting thread types, gives up, or does what does not show.
LEMMA WaiterAnswers ==
  ASSUME Inv, NEW j \in Jobs, Waiter(j)
  PROVE  Answers!Next \/ UNCHANGED Answers!answerVars
  <1>1. /\ up /\ up' = up /\ wrote' = wrote
        /\ waiter[j] \notin {"none", "done"}
        /\ child' \in {child, [child EXCEPT ![j] = "reaped"]}
        /\ child[j] # "none"
    BY DEF Waiter, Watch, Kill, Collect, GiveUpDraining, Type, Reap, childVars, pipeVars, Inv,
           TypeOK, AnswerInv
  <1>2. typed[j] = 0
    BY <1>1 DEF Inv, TypeOK, AnswerInv
  <1>3. Fate(j) = "open"
    BY <1>1, <1>2 DEF Fate
  <1>4. PICK w \in WaiterPoints : waiter' = [waiter EXCEPT ![j] = w] /\ w # "none"
    BY DEF Waiter, Watch, Kill, KillDone, Collect, GiveUpDraining, Type, Reap, WaiterPoints
  <1>5. CASE typed' = typed
    <2>1. \A i \in Jobs : i # j => Fate(i)' = Fate(i)
      BY <1>1, <1>4, <1>5 DEF Fate, Inv, TypeOK
    <2>2. Fate(j)' = IF w = "done" THEN "dropped" ELSE "open"
      BY <1>1, <1>2, <1>4, <1>5 DEF Fate, Inv, TypeOK
    <2>3. CASE w = "done"
      <3>1. \A i \in Jobs : Fate(i)' = IF i \in {j} THEN "dropped" ELSE Fate(i)
        BY <2>1, <2>2, <2>3
      <3> QED  BY <1>1, <1>3, <1>5, <3>1, Drops
    <2>4. CASE w # "done"
      BY <1>1, <1>3, <1>5, <2>1, <2>2, <2>4, Stutters
    <2> QED  BY <2>3, <2>4
  <1>6. CASE typed' # typed
    <2>1. Type(j)
      BY <1>6 DEF Waiter, Watch, Kill, Collect, GiveUpDraining, Reap
    <2>2. /\ typed' = [typed EXCEPT ![j] = Least(buffer[j], MaxAnswer)]
          /\ waiter[j] = "type" /\ waiter' = [waiter EXCEPT ![j] = "done"] /\ child' = child
      BY <1>6, <2>1 DEF Type, childVars
    <2>3. buffer[j] = wrote[j]
      BY <2>2 DEF Inv, TypeOK, AnswerInv
    <2>4. typed'[j] # 0
      <3>1. \A i \in Jobs : i # j => typed'[i] = typed[i]
        BY <2>2 DEF Inv, TypeOK
      <3>2. typed = [i \in Jobs |-> typed[i]] /\ typed' = [i \in Jobs |-> typed'[i]]
        BY <2>2 DEF Inv, TypeOK
      <3> QED  BY <1>2, <1>6, <3>1, <3>2
    <2>5. typed'[j] = Least(wrote[j], MaxAnswer) /\ wrote[j] \in Nat
      BY <2>2, <2>3 DEF Inv, TypeOK
    <2>6. wrote[j] > 0
      BY <2>4, <2>5, CoprocessAssumption DEF Least
    <2>7. Fate(j)' = "answered"
      BY <2>4 DEF Fate
    <2>8. \A i \in Jobs : i # j => Fate(i)' = Fate(i)
      BY <1>1, <2>2 DEF Fate, Inv, TypeOK
    <2>9. Answers!Answer(j)
      BY <1>1, <1>3, <2>2, <2>3, <2>6, <2>7, <2>8 DEF Answers!Answer, Least
    <2> QED  BY <2>9 DEF Answers!Next
  <1> QED  BY <1>5, <1>6

\* A program or a grandchild that can write into a pipe has not been answered for.
LEMMA ProgramAnswers ==
  ASSUME Inv, NEW j \in Jobs,
         ChildActs(j) \/ ChildExits(j) \/ GrandchildWrites(j) \/ GrandchildExits(j)
  PROVE  Answers!Next \/ UNCHANGED Answers!answerVars
  <1>1. /\ up' = up /\ typed' = typed /\ waiter' = waiter
        /\ \A i \in Jobs : child'[i] = "none" <=> child[i] = "none"
    BY DEF ChildActs, ChildExits, GrandchildWrites, GrandchildExits, waitVars, Inv, TypeOK
  <1>2. \A i \in Jobs : Fate(i)' = Fate(i)
    BY <1>1 DEF Fate
  <1>3. CASE wrote' = wrote
    BY <1>1, <1>2, <1>3, Stutters
  <1>4. CASE wrote' # wrote
    <2>1. wrote' = [wrote EXCEPT ![j] = @ + 1] /\ Holders(j)
      BY <1>4 DEF ChildActs, ChildExits, GrandchildWrites, GrandchildExits, Write, Holders
    <2>2. typed[j] = 0 /\ child[j] # "none"
      BY <2>1 DEF Inv, TypeOK, AnswerInv, Holders
    <2>3. Fate(j) \in {"open", "dropped"}
      BY <2>2 DEF Fate
    <2>4. Answers!Write(j)
      BY <1>1, <1>2, <2>1, <2>3 DEF Answers!Write
    <2> QED  BY <2>4 DEF Answers!Next
  <1> QED  BY <1>3, <1>4

\* The end of the daemon drops every answer still open.
LEMMA WorldAnswers ==
  ASSUME Inv, Tick \/ Gone
  PROVE  Answers!Next \/ UNCHANGED Answers!answerVars
  <1>1. CASE Tick
    <2>1. /\ up' = up /\ typed' = typed /\ wrote' = wrote /\ child' = child
          /\ \A j \in Jobs : waiter'[j] = "done" <=> waiter[j] = "done"
      BY <1>1 DEF Tick, childVars, pipeVars
    <2>2. \A j \in Jobs : Fate(j)' = Fate(j)
      BY <2>1 DEF Fate
    <2> QED  BY <2>1, <2>2, Stutters
  <1>2. CASE Gone
    <2> DEFINE open == {j \in Jobs : Fate(j) = "open"}
    <2>1. /\ ~ up' /\ typed' = typed /\ wrote' = wrote /\ waiter' = waiter
          /\ \A j \in Jobs : child'[j] = "none" <=> child[j] = "none"
      BY <1>2 DEF Gone, waitVars, Inv, TypeOK
    <2>2. \A j \in Jobs : Fate(j)' = IF j \in open THEN "dropped" ELSE Fate(j)
      BY <2>1 DEF Fate
    <2>3. \A j \in open : Fate(j) = "open"
      OBVIOUS
    <2> HIDE DEF open
    <2>4. open \in SUBSET Jobs
      BY DEF open
    <2> QED  BY <2>1, <2>2, <2>3, <2>4, Drops
  <1> QED  BY <1>1, <1>2

\* Every step of the threads, the programs and the daemon is a step of AnswerSpec.
LEMMA StepAnswers == Inv /\ [Next]_vars => [Answers!Next]_(Answers!answerVars)
  <1> SUFFICES ASSUME Inv, [Next]_vars
               PROVE  Answers!Next \/ UNCHANGED Answers!answerVars
    OBVIOUS
  <1>1. CASE UNCHANGED vars
    <2>1. \A j \in Jobs : Fate(j)' = Fate(j)
      BY <1>1 DEF vars, childVars, waitVars, Fate
    <2> QED  BY <1>1, <2>1, Stutters DEF vars, childVars, waitVars
  <1>2. ASSUME NEW j \in Jobs, Feeder(j) \/ Drainer(j)
        PROVE  UNCHANGED Answers!answerVars
    <2>1. \A i \in Jobs : Fate(i)' = Fate(i)
      BY <1>2 DEF Feeder, Drainer, Feed, Drain, DrainEnds, childVars, waitVars, Fate
    <2>2. wrote' = wrote /\ typed' = typed
      BY <1>2 DEF Feeder, Drainer, Feed, Drain, DrainEnds, childVars, waitVars
    <2> QED  BY <2>1, <2>2, Stutters
  <1>3. CASE Next
    BY <1>2, <1>3, LaunchAnswers, WaiterAnswers, ProgramAnswers, WorldAnswers DEF Next
  <1> QED  BY <1>1, <1>3

\* Each program's answer is typed once and whole, or dropped for good: for any jobs,
\* programs, pipes, cap, deadline and grace.
THEOREM ImplementsAnswerSpec == Spec => AnswersOnce
  <1>1. Init => Answers!Init
    BY InitAnswers
  <1>2. Inv /\ [Next]_vars => [Answers!Next]_(Answers!answerVars)
    BY StepAnswers
  <1> QED  BY <1>1, <1>2, Invariance, PTL DEF Spec, AnswersOnce, Answers!Spec
============================================================================
