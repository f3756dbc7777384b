-------------------------- MODULE MCTriggerEngine --------------------------
(***************************************************************************)
(* Small instances of TriggerEngine for TLC.                               *)
(***************************************************************************)
EXTENDS TriggerEngine, TLC

Symmetric == Permutations(PaneIds) \cup Permutations(Terminals)

\* A rule that types the password at a login prompt on the last line.
Login == [id |-> "login", matches |-> {"login:"}, tail |-> 0, once |-> TRUE,
          writes |-> TRUE, spawns |-> FALSE, fixable |-> TRUE, scoped |-> FALSE,
          scope |-> {}, byLabel |-> FALSE]

Repeat == [Login EXCEPT !.once = FALSE]

\* The same rule for a status line one line further up.
Above == [Repeat EXCEPT !.tail = 1]

\* A second rule, for the panes with a label: it runs a program.
Sudo == [id |-> "sudo", matches |-> {"sudo:"}, tail |-> 0, once |-> FALSE,
         writes |-> FALSE, spawns |-> TRUE, fixable |-> TRUE, scoped |-> TRUE,
         scope |-> {"p1"}, byLabel |-> TRUE]

\* The same as a notification, which nobody has to fix.
Notice == [Sudo EXCEPT !.spawns = FALSE, !.fixable = FALSE]

Default(rules)  == [rules |-> rules, existing |-> FALSE, cooldown |-> 1, max |-> 1]
Existing(rules) == [rules |-> rules, existing |-> TRUE, cooldown |-> 1, max |-> 1]

OnceFiles     == {Default(<<Login>>)}
RepeatFiles   == {Default(<<Repeat>>)}
ExistingFiles == {Existing(<<Login>>)}
EditedFiles   == {Default(<<Login>>), Default(<<Notice, Repeat>>), BadConfig}
MixedFiles    == {Default(<<[Above EXCEPT !.once = TRUE], Sudo>>)}

----------------------------------------------------------------------------
(***************************************************************************)
(* The watch plan of up to four panes: whatever order herdr lists them in, *)
(* what is read is a member of WatchSets, and every member of WatchSets is *)
(* what some order leads to.                                               *)
(***************************************************************************)
FourPanes == 1..4

Plan == INSTANCE WatchPlan WITH PaneIds <- FourPanes

Everywhere == [Login EXCEPT !.byLabel = FALSE]
Only(panes) == [Everywhere EXCEPT !.scoped = TRUE, !.scope = panes]

PlanRules == {<<Everywhere>>, <<Only({3})>>, <<Everywhere, Only({2, 3})>>,
              <<Only({1, 4}), Only({4}), Everywhere>>}

Orders(live) == {o \in [1..Cardinality(live) -> live] : \A p \in live : \E n \in DOMAIN o : o[n] = p}

ASSUME WatchPlanAssumption ==
  \A rules \in PlanRules, live \in SUBSET FourPanes, cap \in 0..3 :
    LET all  == Plan!Watchable(rules, live, TRUE)
        sets == {{w[n] : n \in DOMAIN w} : w \in {Plan!Watched(rules, TRUE, cap, o) : o \in Orders(live)}}
    IN  /\ sets = Plan!WatchSets(rules, live, TRUE, cap)
        /\ \A o \in Orders(live) : Plan!OverCap(rules, TRUE, cap, o) <=> Cardinality(all) > cap

LoginTexts == {<< >>, <<"login:">>, <<"login:", "output">>}
BothTexts  == {<< >>, <<"login:", Blank, "sudo:">>}
TwoTexts   == {<< >>, <<"login:">>, <<"login:", Blank, "sudo:">>}
============================================================================
