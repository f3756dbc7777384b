----------------------------- MODULE WatchPlan -----------------------------
(***************************************************************************)
(* watched_rules of engine.rs, and the cut Engine::run makes in what it    *)
(* returns: which panes a pass reads, given the order pane.list has them   *)
(* in. TriggerEngine knows no order and takes any of the WatchSets of      *)
(* Rules instead.                                                          *)
(***************************************************************************)
EXTENDS Rules

HasScoped(rules) == \E i \in DOMAIN rules : rules[i].scoped
HasUnscoped(rules) == \E i \in DOMAIN rules : ~ rules[i].scoped

\* A scoped rule wants the pane.
Wanted(rules, p, labels) ==
  \E i \in DOMAIN rules : rules[i].scoped /\ AppliesTo(rules[i], p, labels)

\* targeted are the panes a scoped rule wants, broad those only an unscoped rule
\* applies to; enough is TRUE once the loop has been left.
EmptyPlan == [targeted |-> << >>, broad |-> << >>, enough |-> FALSE]

\* One round, for pane p. limit is one more than the cap, so that a pane too many
\* shows.
Targets(rules, labels, plan, p) ==
  IF Wanted(rules, p, labels) THEN Append(plan.targeted, p) ELSE plan.targeted

Broads(rules, labels, limit, plan, p) ==
  IF ~ Wanted(rules, p, labels) /\ HasUnscoped(rules) /\ Len(plan.broad) < limit
  THEN Append(plan.broad, p) ELSE plan.broad

\* Broad panes alone are enough only if no scoped rule could want a later pane.
Enough(rules, limit, targeted, broad) ==
  Len(targeted) = limit \/ (~ HasScoped(rules) /\ Len(broad) = limit)

Round(rules, labels, limit, plan, p) ==
  LET targeted == Targets(rules, labels, plan, p)
      broad    == Broads(rules, labels, limit, plan, p)
  IN  IF plan.enough THEN plan
      ELSE [targeted |-> targeted, broad |-> broad,
            enough |-> Enough(rules, limit, targeted, broad)]

\* The loop, as the plan it has after each round.
Rounds(rules, labels, limit, order) ==
  LET plan[n \in 0..Len(order)] ==
        IF n = 0 THEN EmptyPlan ELSE Round(rules, labels, limit, plan[n - 1], order[n])
  IN  plan

Take(s, n) == SubSeq(s, 1, IF n <= Len(s) THEN n ELSE Len(s))

\* What watched_rules returns: the targeted panes, then as many broad ones as fit.
WatchedRules(rules, labels, limit, order) ==
  LET plan == Rounds(rules, labels, limit, order)[Len(order)]
  IN  plan.targeted \o Take(plan.broad, limit - Len(plan.targeted))

\* What Engine::run reads of it, and whether it reports that panes are left out.
Watched(rules, labels, cap, order) ==
  Take(WatchedRules(rules, labels, cap + 1, order), cap)

OverCap(rules, labels, cap, order) ==
  Len(WatchedRules(rules, labels, cap + 1, order)) > cap
============================================================================
