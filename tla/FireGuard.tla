----------------------------- MODULE FireGuard -----------------------------
(***************************************************************************)
(* The FireGuard of rules.rs as a value and the operators its methods are: *)
(* a cooldown per (rule, pane) on identical text, and a cap on the writes  *)
(* of one rule in any second. The code keeps instants and compares them    *)
(* with now; the model keeps ages, which Elapse lets grow by one tick up   *)
(* to AgeCap, an age past every threshold.                                 *)
(***************************************************************************)
EXTENDS Rules

CONSTANTS
  Second,     \* ticks in the one-second write window
  AgeCap      \* ages are not told apart beyond this

ASSUME AgeAssumption == Second \in Nat \ {0} /\ AgeCap \in Nat /\ Second <= AgeCap

Keys == RuleIds \X PaneIds

Stamp == [line : Lines \cup {NoLine}, age : 0..AgeCap]

\* A key that never fired carries NoLine, which no matched line equals.
NeverFired == [line |-> NoLine, age |-> AgeCap]

Guards == [cooldown : Nat, max : Nat, last : [Keys -> Stamp],
           writes : [RuleIds -> Seq(0..AgeCap)]]

NewGuard(cooldown, max) ==
  [cooldown |-> cooldown, max |-> max,
   last   |-> [k \in Keys |-> NeverFired],
   writes |-> [r \in RuleIds |-> << >>]]

WouldAllow(g, k, line) ==
  ~ (g.last[k].line = line /\ g.last[k].age < g.cooldown)

Record(g, k, line) ==
  [g EXCEPT !.last[k] = [line |-> line, age |-> 0]]

EveryWrite(window) == DOMAIN window   \* mutant: the window never moves on

LiveWrites(window) == {n \in DOMAIN window : window[n] < Second}

WouldAllowOneMore(g, r) ==   \* mutant: one too many
  Cardinality(LiveWrites(g.writes[r])) <= g.max

WouldAllowWrite(g, r) == Cardinality(LiveWrites(g.writes[r])) < g.max

\* pop_front while the oldest entry is a second old or more, then push_back.
Stale(window) == {n \in 1..Len(window) : \A m \in 1..n : window[m] >= Second}

Popped(window) == SubSeq(window, Cardinality(Stale(window)) + 1, Len(window))

RecordWrite(g, r) ==
  LET window == Append(Popped(g.writes[r]), 0)
  IN  [g EXCEPT !.writes = [g.writes EXCEPT ![r] = window]]

RetainAll(g, live) == g   \* mutant: the guard is not pruned

RetainPanes(g, live) ==
  [g EXCEPT !.last = [k \in Keys |-> IF k[2] \in live THEN g.last[k] ELSE NeverFired]]

----------------------------------------------------------------------------
Older(age) == IF age < AgeCap THEN age + 1 ELSE age

\* One tick of the monotonic clock.
Elapse(g) ==
  [cooldown |-> g.cooldown, max |-> g.max,
   last   |-> [k \in Keys |-> [line |-> g.last[k].line, age |-> Older(g.last[k].age)]],
   writes |-> [r \in RuleIds |->
                 [n \in 1..Len(g.writes[r]) |-> Older(g.writes[r][n])]]]
============================================================================
