----------------------------- MODULE AnswerSpec -----------------------------
(***************************************************************************)
(* What a coprocess rule promises the pane: a program writes, and then its *)
(* answer, all of it up to the cap, is typed once, or nothing of it ever   *)
(* is. Nothing else shows: not the pipes, the threads, the deadline or the *)
(* processes.                                                              *)
(***************************************************************************)
EXTENDS Naturals

CONSTANTS
  Jobs,
  MaxAnswer

VARIABLES
  fate,      \* "idle", "open", "answered" or "dropped"
  written,   \* what the program wrote
  answer     \* what was typed

answerVars == <<fate, written, answer>>

Init ==
  /\ fate = [j \in Jobs |-> "idle"]
  /\ written = [j \in Jobs |-> 0] /\ answer = [j \in Jobs |-> 0]

Start(j) ==
  /\ fate[j] = "idle"
  /\ fate' = [fate EXCEPT ![j] = "open"]
  /\ UNCHANGED <<written, answer>>

\* A program may write on after its answer was dropped, never after it was typed.
Write(j) ==
  /\ fate[j] \in {"open", "dropped"}
  /\ written' = [written EXCEPT ![j] = @ + 1]
  /\ UNCHANGED <<fate, answer>>

Answer(j) ==
  /\ fate[j] = "open" /\ written[j] > 0
  /\ fate' = [fate EXCEPT ![j] = "answered"]
  /\ answer' = [answer EXCEPT ![j] = IF written[j] <= MaxAnswer THEN written[j] ELSE MaxAnswer]
  /\ UNCHANGED written

\* Several at once when the daemon ends.
Drop(js) ==
  /\ \A j \in js : fate[j] = "open"
  /\ fate' = [j \in Jobs |-> IF j \in js THEN "dropped" ELSE fate[j]]
  /\ UNCHANGED <<written, answer>>

Next ==
  \/ \E j \in Jobs : Start(j) \/ Write(j) \/ Answer(j)
  \/ \E js \in SUBSET Jobs : Drop(js)

Spec == Init /\ [][Next]_answerVars
=============================================================================
