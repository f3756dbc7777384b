------------------------------- MODULE Rules -------------------------------
(***************************************************************************)
(* The pure part of rules.rs and of the watch plan of engine.rs: what a    *)
(* compiled rule matches on a screen, which rules apply to which pane, and *)
(* which panes one pass of the daemon looks at.                            *)
(*                                                                         *)
(* A line is a member of Lines, a regex is the set of lines it matches,    *)
(* and a screen is the sequence of the lines pane.read returned, Blank     *)
(* standing for a line of white space.                                     *)
(***************************************************************************)
EXTENDS Integers, Sequences, FiniteSets

CONSTANTS
  PaneIds,      \* public pane ids, the only address herdr's API takes
  RuleIds,      \* hashes of (regex, action)
  Lines,        \* the non-blank lines a screen can show
  Blank,        \* a line of white space
  NoLine,       \* "no match"
  Anywhere      \* tail_within left out of a rule

ASSUME LineAssumption ==
  /\ Blank \notin Lines
  /\ NoLine \notin Lines
  /\ Anywhere \notin Nat

(***************************************************************************)
(* A compiled rule. writes says whether its action counts as a write into  *)
(* the pane; spawns whether it starts a program, where the others send     *)
(* herdr a request; fixable whether it can fail for a reason the user has  *)
(* to fix (it expands a secret or spawns a program). scope, of a scoped    *)
(* rule, is which panes it wants, and byLabel whether it knows them only   *)
(* by a tab or workspace label.                                            *)
(***************************************************************************)
Rule == [id : RuleIds, matches : SUBSET Lines, tail : Nat \cup {Anywhere},
         once : BOOLEAN, writes : BOOLEAN, spawns : BOOLEAN, fixable : BOOLEAN,
         scoped : BOOLEAN, scope : SUBSET PaneIds, byLabel : BOOLEAN]

Screens == Seq(Lines \cup {Blank})

\* The lines matching looks at: the non-blank ones.
Visible(text) == {n \in DOMAIN text : text[n] # Blank}

Hits(rule, text) == {n \in Visible(text) : text[n] \in rule.matches}

\* How many non-blank lines sit under line n.
Below(text, n) == Cardinality({m \in Visible(text) : m > n})

IsLast(rule, text, n) ==
  /\ n \in Hits(rule, text)
  /\ \A m \in Hits(rule, text) : m <= n

\* The LAST matching line counts, and only when it is close enough to the tail.
IsLive(rule, text, n) ==
  /\ IsLast(rule, text, n)
  /\ rule.tail # Anywhere => Below(text, n) <= rule.tail

\* The prompt the rule sees waiting on this screen, or NoLine. Its text is the
\* whole of its identity (Match::signature).
LiveLine(rule, text) ==
  IF \E n \in DOMAIN text : IsLive(rule, text, n)
  THEN text[CHOOSE n \in DOMAIN text : IsLive(rule, text, n)]
  ELSE NoLine

----------------------------------------------------------------------------
\* labels is FALSE in a pass whose tab.list or workspace.list request failed:
\* the panes then carry no labels and a scope on one matches nothing.
AppliesTo(rule, p, labels) ==
  \/ ~ rule.scoped
  \/ p \in rule.scope /\ (rule.byLabel => labels)

Applicable(rules, p, labels) == {i \in DOMAIN rules : AppliesTo(rules[i], p, labels)}

Targeted(rules, live, labels) ==
  {p \in live : \E i \in Applicable(rules, p, labels) : rules[i].scoped}

Watchable(rules, live, labels) == {p \in live : Applicable(rules, p, labels) # {}}

(***************************************************************************)
(* The panes a pass may end up watching when herdr lists the live panes in *)
(* an order of its own: as many as the cap allows, and a pane wanted only  *)
(* by an unscoped rule never in place of one a scoped rule wants.          *)
(***************************************************************************)
WatchSets(rules, live, labels, cap) ==
  LET all    == Watchable(rules, live, labels)
      wanted == Targeted(rules, live, labels)
  IN  {W \in SUBSET all :
         /\ Cardinality(W) = IF Cardinality(all) <= cap THEN Cardinality(all) ELSE cap
         /\ W \subseteq wanted \/ wanted \subseteq W}
============================================================================
