------------------------ MODULE SettledPrompts_proofs ------------------------
(***************************************************************************)
(* The daemon never acts on a settled prompt, one that was on screen at    *)
(* its first look or that it has acted on and that still waits, but once   *)
(* more after a reload, which arms such prompts again. Proved for every    *)
(* number of panes, rules and faults, as long as the rules of a            *)
(* configuration have ids of their own and herdr keeps its pane ids.       *)
(***************************************************************************)
EXTENDS TriggerEngine_proofs

USE DEF OneTerminalEach, herdrVars, userVars, passVars, armVars, histVars, Unmoved

\* Nothing waits on an empty screen.
LEMMA NothingOnEmptyScreen ==
  ASSUME NEW rule
  PROVE  LiveLine(rule, << >>) = NoLine
<1>1. DOMAIN << >> = {}
  OBVIOUS
<1>. QED  BY <1>1, Zenon DEF LiveLine

LEMMA DistinctRules ==
  ASSUME Distinct, TypeOK,
         NEW i \in DOMAIN cfg.rules, NEW j \in DOMAIN cfg.rules,
         cfg.rules[i].id = cfg.rules[j].id
  PROVE  i = j
<1>1. CASE cfg \in Configs
  BY <1>1 DEF Distinct
<1>2. CASE cfg = NoConfig
  BY <1>2 DEF NoConfig
<1>. QED  BY <1>1, <1>2 DEF TypeOK

\* The least rule left is one rule.
LEMMA NextRuleUnique ==
  ASSUME TypeOK, NEW i \in visit.rest, NEW j \in visit.rest, IsNext(i), IsNext(j)
  PROVE  i = j
BY ConfigType DEF IsNext, TypeOK

\* A settled pair that a pane shows is on the terminal behind that pane.
LEMMA SettledIsLive ==
  ASSUME TypeOK, NEW i, NEW p \in PaneIds, <<i, terminal[p]>> \in settled
  PROVE  Live(p) /\ terminal[p] \in Terminals
BY EngineAssumption DEF TypeOK, Live

LEMMA InitSettled == Init => SettledInv
BY DEF Init, SettledInv, PanesOK, SettledIsLatched, SettledWaits, TextIsCurrent,
   KnownIsLooked, ActsOnAnEdge, NoTerminals, NoVisit, Live

----------------------------------------------------------------------------
(* herdr and the programs in its panes.                                    *)

\* A change of screens that drops the pairs it disturbs.
LEMMA OpenPaneSettled ==
  ASSUME TypeOK, SettledInv,
         NEW p \in PaneIds, NEW t \in Terminals, NEW s \in Texts, OpenPane(p, t, s)
  PROVE  SettledInv'
<1>1. /\ p \notin issued /\ t \in spare /\ terminal' = [terminal EXCEPT ![p] = t]
      /\ issued' = issued \cup {p} /\ spare' = spare \ {t}
      /\ screen' = [screen EXCEPT ![t] = s]
      /\ UNCHANGED <<pc, cfg, latched, known, listed, visit, looked, settled>>
  BY DEF OpenPane
<1>2. \A e \in settled : Waiting(cfg, e[1], e[2])' = Waiting(cfg, e[1], e[2])
  BY <1>1 DEF SettledInv, SettledWaits, Waiting, TypeOK
<1>3. PanesOK'
  BY <1>1 DEF SettledInv, PanesOK, Live, TypeOK
<1>4. SettledWaits'
  BY <1>1, <1>2 DEF SettledInv, SettledWaits
<1>5. SettledIsLatched'
  <2> SUFFICES ASSUME NEW i \in DOMAIN cfg.rules, NEW q \in PaneIds,
                      <<i, terminal'[q]>> \in settled
               PROVE  LET k == <<cfg.rules[i].id, q>>
                      IN  IF k \in known THEN latched[k] = Waiting(cfg, i, terminal[q])'
                                         ELSE ~ cfg.existing
    BY <1>1 DEF SettledIsLatched
  <2>1. q # p /\ terminal'[q] = terminal[q]
    BY <1>1 DEF SettledInv, SettledWaits, TypeOK
  <2>2. Waiting(cfg, i, terminal[q])' = Waiting(cfg, i, terminal[q])
    BY <1>1, <2>1 DEF SettledInv, SettledWaits, Waiting, TypeOK
  <2>. QED  BY <1>1, <2>1, <2>2 DEF SettledInv, SettledIsLatched
<1>6. TextIsCurrent'
  <2> SUFFICES ASSUME NEW i \in visit.rest
               PROVE  LET u == listed[visit.pane]
                      IN  /\ <<i, u>> \in settled =>
                               /\ terminal'[visit.pane] = u
                               /\ Found(i) = Waiting(cfg, i, u)'
                          /\ Live(visit.pane)' => u \in looked
    BY <1>1 DEF TextIsCurrent, Found
  <2>1. visit.pane \in PaneIds /\ listed[visit.pane] # NoTerminal
    BY DEF TypeOK
  <2>2. visit.pane # p /\ terminal'[visit.pane] = terminal[visit.pane]
    BY <1>1, <2>1 DEF SettledInv, PanesOK, TypeOK
  <2>3. <<i, listed[visit.pane]>> \in settled =>
          Waiting(cfg, i, listed[visit.pane])' = Waiting(cfg, i, listed[visit.pane])
    BY <1>1 DEF SettledInv, SettledWaits, Waiting, TypeOK
  <2>. QED  BY <1>1, <2>2, <2>3 DEF SettledInv, TextIsCurrent, Live
<1>7. KnownIsLooked'
  BY <1>1 DEF SettledInv, KnownIsLooked, Live, TypeOK
<1>8. ActsOnAnEdge'
  BY <1>1 DEF SettledInv, ActsOnAnEdge, IsNext, Key, Found
<1>9. \A q, r \in PaneIds : Live(q)' /\ terminal'[q] = terminal'[r] => q = r
  BY <1>1 DEF SettledInv, PanesOK, Live, TypeOK
<1>. QED  BY <1>1, <1>3, <1>4, <1>5, <1>6, <1>7, <1>8, <1>9 DEF SettledInv

\* A pane that closes or redraws takes the pairs with it whose prompt that changes.
LEMMA ScreenSettled ==
  ASSUME TypeOK, SettledInv,
         NEW p \in PaneIds, ClosePane(p) \/ \E s \in Texts : Redraw(p, s)
  PROVE  SettledInv'
<1>1. /\ UNCHANGED <<issued, spare, pc, cfg, latched, known, listed, visit, looked>>
      /\ settled' \subseteq settled
      /\ terminal[p] \in Terminals
  BY EngineAssumption DEF ClosePane, Redraw, Unsettle, Live, TypeOK
<1>2. \/ terminal' = terminal
      \/ /\ terminal' = [terminal EXCEPT ![p] = NoTerminal]
         /\ \A e \in settled' : e[2] # terminal[p]
  <2>1. CASE ClosePane(p)
    <3>1. \A e \in settled' : e[2] # terminal[p]
      BY <2>1, NothingOnEmptyScreen DEF ClosePane, Unsettle, SettledInv, SettledWaits
    <3>. QED  BY <2>1, <3>1 DEF ClosePane
  <2>2. CASE \E s \in Texts : Redraw(p, s)
    BY <2>2 DEF Redraw
  <2>. QED  BY <2>1, <2>2
<1>3. \A e \in settled' : Waiting(cfg, e[1], e[2])' = Waiting(cfg, e[1], e[2])
  <2> SUFFICES ASSUME NEW e \in settled'
               PROVE  Waiting(cfg, e[1], e[2])' = Waiting(cfg, e[1], e[2])
    OBVIOUS
  <2>1. PICK s : screen' = [screen EXCEPT ![terminal[p]] = s] /\ Unsettle(terminal[p], s)
    BY DEF ClosePane, Redraw
  <2>2. e[2] \in Terminals
    BY <1>1 DEF TypeOK
  <2>3. CASE e[2] # terminal[p]
    BY <1>1, <2>1, <2>2, <2>3 DEF Waiting, TypeOK
  <2>4. CASE e[2] = terminal[p]
    <3>1. LiveLine(cfg.rules[e[1]], s) = Waiting(cfg, e[1], e[2])
      BY <2>1, <2>4 DEF Unsettle
    <3>. QED  BY <1>1, <2>1, <2>2, <2>4, <3>1 DEF Waiting, TypeOK
  <2>. QED  BY <2>3, <2>4
<1>4. PanesOK'
  BY <1>1, <1>2 DEF SettledInv, PanesOK, Live, TypeOK
<1>5. SettledWaits'
  BY <1>1, <1>3 DEF SettledInv, SettledWaits
<1>6. ASSUME NEW i, NEW q \in PaneIds, <<i, terminal'[q]>> \in settled'
      PROVE  /\ terminal'[q] = terminal[q] /\ <<i, terminal[q]>> \in settled
             /\ Waiting(cfg, i, terminal[q])' = Waiting(cfg, i, terminal[q])
  <2>1. terminal'[q] \in Terminals
    BY <1>1, <1>6 DEF TypeOK
  <2>2. terminal'[q] = terminal[q]
    BY <1>2, <2>1, EngineAssumption DEF TypeOK
  <2>. QED  BY <1>1, <1>3, <1>6, <2>2 DEF Waiting
<1>7. SettledIsLatched'
  BY <1>1, <1>6 DEF SettledInv, SettledIsLatched
<1>8. TextIsCurrent'
  <2> SUFFICES ASSUME NEW i \in visit.rest
               PROVE  LET u == listed[visit.pane]
                      IN  /\ <<i, u>> \in settled' =>
                               /\ terminal'[visit.pane] = u
                               /\ Found(i) = Waiting(cfg, i, u)'
                          /\ Live(visit.pane)' => u \in looked
    BY <1>1 DEF TextIsCurrent, Found
  <2>1. visit.pane \in PaneIds
    BY DEF TypeOK
  <2>2. ASSUME <<i, listed[visit.pane]>> \in settled'
        PROVE  /\ terminal'[visit.pane] = listed[visit.pane]
               /\ Found(i) = Waiting(cfg, i, listed[visit.pane])'
    <3>1. /\ terminal[visit.pane] = listed[visit.pane]
          /\ Found(i) = Waiting(cfg, i, listed[visit.pane])
      BY <1>1, <2>2 DEF SettledInv, TextIsCurrent
    <3>2. Waiting(cfg, i, listed[visit.pane])' = Waiting(cfg, i, listed[visit.pane])
      BY <1>1, <1>3, <2>2 DEF Waiting
    <3>3. terminal'[visit.pane] = terminal[visit.pane]
      BY <1>2, <2>1, <2>2, <3>1 DEF TypeOK
    <3>. QED  BY <3>1, <3>2, <3>3
  <2>3. Live(visit.pane)' => Live(visit.pane)
    BY <1>1, <1>2, <2>1 DEF Live, TypeOK
  <2>. QED  BY <2>2, <2>3 DEF SettledInv, TextIsCurrent
<1>9. KnownIsLooked'
  BY <1>1, <1>2 DEF SettledInv, KnownIsLooked, Live, TypeOK
<1>10. ActsOnAnEdge'
  BY <1>1 DEF SettledInv, ActsOnAnEdge, IsNext, Key, Found
<1>11. \A q, r \in PaneIds : Live(q)' /\ terminal'[q] = terminal'[r] => q = r
  <2>1. \A q \in PaneIds : Live(q)' => Live(q) /\ terminal'[q] = terminal[q]
    BY <1>2 DEF Live, TypeOK
  <2>2. \A q, r \in PaneIds : Live(q) /\ terminal[q] = terminal[r] => q = r
    BY DEF SettledInv
  <2>. QED  BY <2>1, <2>2 DEF Live
<1>. QED  BY <1>1, <1>4, <1>5, <1>7, <1>8, <1>9, <1>10, <1>11 DEF SettledInv

\* A step that moves nothing the invariant speaks of.
LEMMA QuietSettled ==
  ASSUME SettledInv, TypeOK,
         UNCHANGED <<terminal, issued, spare, screen, cfg, latched, known, visit,
                     looked, settled>>,
         listed' = listed \/ (listed' = NoTerminals /\ visit.rest = {}),
         pc' = pc \/ pc' \notin {"down", "act", "record"}
  PROVE  SettledInv'
BY DEF SettledInv, PanesOK, SettledIsLatched, SettledWaits, TextIsCurrent, KnownIsLooked,
       ActsOnAnEdge, IsNext, Key, Found, Waiting, Live, NoTerminals

LEMMA EnvironmentSettled ==
  ASSUME Distinct, SettledInv, TypeOK, Environment
  PROVE  SettledInv'
<1>1. CASE Start
  BY <1>1 DEF Start, SettledInv, PanesOK, SettledIsLatched, SettledWaits, TextIsCurrent,
              KnownIsLooked, ActsOnAnEdge, IsNext, Live, TypeOK
<1>2. CASE Exit \/ Crash
  BY <1>2 DEF Exit, Crash, Gone, SettledInv, PanesOK, SettledIsLatched, SettledWaits,
              TextIsCurrent, KnownIsLooked, ActsOnAnEdge, NoTerminals, NoVisit, Live
<1>3. CASE RestartHerdr
  BY <1>3 DEF RestartHerdr, Distinct
<1>4. ASSUME NEW p \in PaneIds, NEW t \in Terminals, NEW s \in Texts, OpenPane(p, t, s)
      PROVE  SettledInv'
  BY <1>4, OpenPaneSettled
<1>5. ASSUME NEW p \in PaneIds, ClosePane(p) \/ \E s \in Texts : Redraw(p, s)
      PROVE  SettledInv'
  BY <1>5, ScreenSettled
<1>6. ASSUME \/ Tick
             \/ \E l \in {"up", "flaky", "down"} : SetLink(l)
             \/ \E f \in Files : EditFile(f)
             \/ \E b \in BOOLEAN : SetUp(b)
             \/ \E sig \in Signals : Signal(sig)
      PROVE  SettledInv'
  BY <1>6, QuietSettled DEF Tick, SetLink, EditFile, SetUp, Signal
<1>. QED  BY <1>1, <1>2, <1>3, <1>4, <1>5, <1>6 DEF Environment

----------------------------------------------------------------------------
(* The daemon.                                                             *)

LEMMA LoopSettled ==
  ASSUME SettledInv, TypeOK,
         DrainReload \/ DrainReset \/ ListPanes \/ ListFails \/ EndPass
  PROVE  SettledInv'
<1>1. visit.rest = {}
  BY DEF TypeOK, DrainReload, DrainReset, ListPanes, ListFails, EndPass
<1>2. CASE DrainReload
  <2>1. CASE "reload" \in flags /\ file # BadConfig
    <3>1. /\ UNCHANGED <<terminal, issued, spare, screen, known, visit, listed, looked>>
          /\ cfg' = file /\ Rearm(file) /\ pc' = "drain_reset"
      BY <1>2, <2>1 DEF DrainReload
    <3>2. SettledIsLatched'
      BY <3>1 DEF SettledIsLatched, Rearm
    <3>3. SettledWaits'
      BY <3>1 DEF SettledInv, SettledWaits, Rearm, Waiting
    <3>. QED  BY <1>1, <3>1, <3>2, <3>3
              DEF SettledInv, PanesOK, TextIsCurrent, KnownIsLooked, ActsOnAnEdge, Live
  <2>2. CASE ~ ("reload" \in flags /\ file # BadConfig)
    BY <1>2, <2>2, QuietSettled DEF DrainReload
  <2>. QED  BY <2>1, <2>2
<1>3. CASE DrainReset
  <2>1. CASE "reset" \in flags
    BY <1>1, <1>3, <2>1
    DEF DrainReset, SettledInv, PanesOK, SettledIsLatched, SettledWaits, TextIsCurrent,
        KnownIsLooked, ActsOnAnEdge, Live
  <2>2. CASE "reset" \notin flags
    BY <1>3, <2>2, QuietSettled DEF DrainReset
  <2>. QED  BY <2>1, <2>2
<1>4. CASE ListPanes
  <2>1. /\ UNCHANGED <<terminal, issued, spare, screen, cfg, visit, looked, settled>>
        /\ listed' = terminal /\ pc' = "visit" /\ known' \subseteq known
        /\ \A k \in Keys : Live(k[2]) => /\ latched'[k] = latched[k]
                                         /\ k \in known' <=> k \in known
    BY <1>4 DEF ListPanes, Keys
  <2>2. SettledIsLatched'
    <3> SUFFICES ASSUME NEW i \in DOMAIN cfg.rules, NEW p \in PaneIds,
                        <<i, terminal[p]>> \in settled
                 PROVE  LET k == <<cfg.rules[i].id, p>>
                        IN  IF k \in known' THEN latched'[k] = Waiting(cfg, i, terminal[p])
                                            ELSE ~ cfg.existing
      BY <2>1 DEF SettledIsLatched, Waiting
    <3>1. Live(p)
      BY SettledIsLive
    <3>2. <<cfg.rules[i].id, p>> \in Keys
      BY ConfigType DEF Keys, Rule
    <3>. QED  BY <2>1, <3>1, <3>2 DEF SettledInv, SettledIsLatched
  <2>3. KnownIsLooked'
    BY <2>1 DEF SettledInv, KnownIsLooked, Live
  <2>4. PanesOK' /\ SettledWaits'
    BY <2>1 DEF SettledInv, PanesOK, SettledWaits, Waiting, Live
  <2>. QED  BY <1>1, <2>1, <2>2, <2>3, <2>4 DEF SettledInv, TextIsCurrent, ActsOnAnEdge, Live
<1>5. CASE ListFails \/ EndPass
  BY <1>1, <1>5, QuietSettled DEF ListFails, EndPass
<1>. QED  BY <1>2, <1>3, <1>4, <1>5

\* The first look finds no rule evaluated on the pane yet.
LEMMA ReadSettled ==
  ASSUME SettledInv, TypeOK, NEW p \in PaneIds, ReadPane(p)
  PROVE  SettledInv'
<1> DEFINE t == terminal[p]
<1>1. /\ UNCHANGED <<terminal, issued, spare, screen, cfg, latched, known, listed>>
      /\ Live(p) /\ Look(t) /\ pc' = "evaluate"
      /\ visit' = [pane |-> p, text |-> screen[t], rest |-> Applicable(cfg.rules, p, labels)]
  BY DEF ReadPane
<1>2. t \in Terminals /\ t \notin spare /\ listed[p] = t
  BY <1>1 DEF ReadPane, NextPane, SettledInv, PanesOK, Live, TypeOK
<1>3. looked' = looked \cup {t}
  BY <1>1 DEF Look
<1>4. ASSUME NEW e \in settled', e \notin settled
      PROVE  /\ e[2] = t /\ e[1] \in DOMAIN cfg.rules
             /\ e = <<e[1], t>> /\ t \notin looked /\ ~ cfg.existing
             /\ Waiting(cfg, e[1], t) # NoLine
  BY <1>1, <1>4 DEF Look
<1>5. SettledIsLatched'
  <2> SUFFICES ASSUME NEW i \in DOMAIN cfg.rules, NEW q \in PaneIds,
                      <<i, terminal[q]>> \in settled'
               PROVE  LET k == <<cfg.rules[i].id, q>>
                      IN  IF k \in known THEN latched[k] = Waiting(cfg, i, terminal[q])
                                         ELSE ~ cfg.existing
    BY <1>1 DEF SettledIsLatched, Waiting
  <2>1. CASE <<i, terminal[q]>> \in settled
    BY <2>1 DEF SettledInv, SettledIsLatched
  <2>2. CASE <<i, terminal[q]>> \notin settled
    <3>1. terminal[q] = t /\ t \notin looked /\ ~ cfg.existing
      BY <1>4, <2>2
    <3>2. Live(q) /\ <<cfg.rules[i].id, q>> \notin known
      BY <1>1, <3>1 DEF Live, SettledInv, KnownIsLooked
    <3>. QED  BY <3>1, <3>2
  <2>. QED  BY <2>1, <2>2
<1>6. SettledWaits'
  <2> SUFFICES ASSUME NEW e \in settled'
               PROVE  /\ e[1] \in DOMAIN cfg.rules /\ e[2] \notin spare
                      /\ Waiting(cfg, e[1], e[2]) # NoLine
    BY <1>1 DEF SettledWaits, Waiting
  <2>. QED  BY <1>2, <1>4 DEF SettledInv, SettledWaits
<1>7. TextIsCurrent'
  BY <1>1, <1>2, <1>3 DEF TextIsCurrent, Found, Waiting, Live
<1>8. KnownIsLooked'
  BY <1>1, <1>3 DEF SettledInv, KnownIsLooked, Live
<1>9. PanesOK' /\ ActsOnAnEdge' /\ looked' \cap spare' = {}
  BY <1>1, <1>2, <1>3 DEF SettledInv, PanesOK, ActsOnAnEdge, Live
<1>. QED  BY <1>1, <1>5, <1>6, <1>7, <1>8, <1>9 DEF SettledInv, Live

\* A settled prompt of the rule being evaluated is the one in the text just read,
\* and it is latched or the daemon has never seen the rule on this pane.
LEMMA SettledIsCaught ==
  ASSUME SettledInv, TypeOK, NEW i \in visit.rest, <<i, listed[visit.pane]>> \in settled
  PROVE  /\ Found(i) = Waiting(cfg, i, listed[visit.pane])
         /\ Found(i) # NoLine
         /\ ~ Edge(i) \/ AlreadyThere(i)
<1>1. /\ terminal[visit.pane] = listed[visit.pane]
      /\ Found(i) = Waiting(cfg, i, listed[visit.pane])
  BY DEF SettledInv, TextIsCurrent
<1>2. Found(i) # NoLine
  BY <1>1 DEF SettledInv, SettledWaits
<1>3. i \in DOMAIN cfg.rules /\ visit.pane \in PaneIds
  BY DEF TypeOK
<1>4. IF Key(i) \in known THEN latched[Key(i)] = Found(i) ELSE ~ cfg.existing
  BY <1>1, <1>3 DEF SettledInv, SettledIsLatched, Key
<1>. QED  BY <1>1, <1>2, <1>4 DEF Edge, AlreadyThere

\* The pair a pane and a rule make is the one being visited only if both are.
LEMMA SameKey ==
  ASSUME Distinct, SettledInv, TypeOK, NEW i \in visit.rest,
         NEW j \in DOMAIN cfg.rules, NEW q \in PaneIds,
         <<cfg.rules[j].id, q>> = Key(i), <<j, terminal[q]>> \in settled
  PROVE  j = i /\ q = visit.pane /\ <<i, listed[visit.pane]>> \in settled
<1>1. j = i /\ q = visit.pane
  BY DistinctRules DEF Key, TypeOK
<1>2. Live(q)
  BY SettledIsLive
<1>3. terminal[q] = listed[q]
  BY <1>1, <1>2 DEF SettledInv, PanesOK, Live, TypeOK
<1>. QED  BY <1>1, <1>3

LEMMA EvaluateSettled ==
  ASSUME Distinct, SettledInv, TypeOK, NEW i \in visit.rest, Evaluate(i)
  PROVE  SettledInv'
<1> DEFINE t == listed[visit.pane]
<1>1. /\ UNCHANGED <<terminal, issued, spare, screen, cfg, listed, looked, settled>>
      /\ pc = "evaluate" /\ IsNext(i) /\ known' = known \cup {Key(i)}
  BY DEF Evaluate, LatchFalls, StillLatched, LatchUnfired, HoldBack, Attempt, Evaluated
<1>2. visit.pane \in PaneIds /\ t # NoTerminal /\ i \in DOMAIN cfg.rules /\ Key(i) \in Keys
  BY NextRuleType DEF TypeOK
<1>3. \A k \in Keys : k # Key(i) => latched'[k] = latched[k]
  BY DEF Evaluate, LatchFalls, StillLatched, LatchUnfired, HoldBack, Attempt, TypeOK
<1>4. ASSUME <<i, t>> \in settled
      PROVE  latched'[Key(i)] = Waiting(cfg, i, t) /\ ~ Attempt(i)
  <2>1. /\ Found(i) = Waiting(cfg, i, t) /\ Found(i) # NoLine
        /\ ~ Edge(i) \/ AlreadyThere(i)
    BY <1>4, SettledIsCaught
  <2>2. StillLatched(i) \/ LatchUnfired(i)
    BY <2>1 DEF Evaluate, LatchFalls, HoldBack, Attempt
  <2>3. latched'[Key(i)] = Found(i)
    BY <1>2, <2>2 DEF StillLatched, LatchUnfired, TypeOK
  <2>4. ~ Attempt(i)
    BY <2>1 DEF Attempt
  <2>. QED  BY <2>1, <2>3, <2>4
<1>5. SettledIsLatched'
  <2> SUFFICES ASSUME NEW j \in DOMAIN cfg.rules, NEW q \in PaneIds,
                      <<j, terminal[q]>> \in settled
               PROVE  LET k == <<cfg.rules[j].id, q>>
                      IN  IF k \in known' THEN latched'[k] = Waiting(cfg, j, terminal[q])
                                          ELSE ~ cfg.existing
    BY <1>1 DEF SettledIsLatched, Waiting
  <2> DEFINE k == <<cfg.rules[j].id, q>>
  <2>1. k \in Keys
    BY ConfigType DEF Keys, Rule
  <2>2. CASE k = Key(i)
    <3>1. j = i /\ q = visit.pane /\ <<i, t>> \in settled
      BY <2>2, SameKey
    <3>2. terminal[q] = t
      BY <3>1, SettledIsLive DEF SettledInv, PanesOK, Live, TypeOK
    <3>. QED  BY <1>1, <1>4, <2>2, <3>1, <3>2
  <2>3. CASE k # Key(i)
    BY <1>1, <1>3, <2>1, <2>3 DEF SettledInv, SettledIsLatched
  <2>. QED  BY <2>2, <2>3
<1>6. /\ visit'.rest \subseteq visit.rest
      /\ visit'.rest # {} => visit'.pane = visit.pane /\ visit'.text = visit.text
  <2>1. UNCHANGED visit \/ RuleDone(i)
    BY DEF Evaluate, LatchFalls, StillLatched, LatchUnfired, HoldBack, Attempt
  <2>. QED  BY <2>1, NoVisitType DEF RuleDone, TypeOK, Visits
<1>7. TextIsCurrent'
  BY <1>1, <1>6 DEF SettledInv, TextIsCurrent, Found, Waiting, Live
<1>8. KnownIsLooked'
  <2>1. Live(visit.pane) => terminal[visit.pane] = t
    BY <1>2 DEF SettledInv, PanesOK, Live, TypeOK
  <2>2. visit.pane \in issued /\ (Live(visit.pane) => terminal[visit.pane] \in looked)
    BY <1>2, <2>1 DEF SettledInv, PanesOK, TextIsCurrent
  <2>. QED  BY <1>1, <2>2 DEF SettledInv, KnownIsLooked, Key, Live
<1>9. ActsOnAnEdge'
  <2>1. CASE Attempt(i)
    <3>1. \A j \in visit.rest : IsNext(j) => j = i
      BY <1>1, NextRuleUnique
    <3>2. <<i, t>> \notin settled /\ Found(i) # NoLine /\ UNCHANGED visit
      BY <1>4, <2>1 DEF Attempt, Edge
    <3>. QED  BY <1>1, <3>1, <3>2 DEF ActsOnAnEdge, IsNext, Key, Found
  <2>2. CASE ~ Attempt(i)
    BY <2>2 DEF Evaluate, LatchFalls, StillLatched, LatchUnfired, HoldBack, RuleDone,
                ActsOnAnEdge
  <2>. QED  BY <2>1, <2>2
<1>10. PanesOK' /\ SettledWaits' /\ pc' # "down"
  BY <1>1 DEF SettledInv, PanesOK, SettledWaits, Waiting, Live, Evaluate, LatchFalls,
              StillLatched, LatchUnfired, HoldBack, Attempt, RuleDone
<1>. QED  BY <1>1, <1>5, <1>7, <1>8, <1>9, <1>10 DEF SettledInv, Live

LEMMA RunActionSettled ==
  ASSUME SettledInv, TypeOK, NEW i \in visit.rest, RunAction(i)
  PROVE  SettledInv'
BY DEF RunAction, SettledInv, PanesOK, SettledIsLatched, SettledWaits, TextIsCurrent,
       KnownIsLooked, ActsOnAnEdge, IsNext, Key, Found, Waiting, Live

\* Acting settles the pair, and latches it in the same step.
LEMMA RecordOutcomeSettled ==
  ASSUME Distinct, SettledInv, TypeOK, NEW i \in visit.rest, RecordOutcome(i)
  PROVE  SettledInv'
<1> DEFINE t == listed[visit.pane]
<1>1. /\ UNCHANGED <<terminal, issued, spare, screen, cfg, known, listed, looked>>
      /\ pc = "record" /\ IsNext(i) /\ RuleDone(i)
  BY DEF RecordOutcome, Consumes
<1>2. visit.pane \in PaneIds /\ t # NoTerminal /\ i \in DOMAIN cfg.rules /\ Key(i) \in Keys
  BY NextRuleType DEF TypeOK
<1>3. <<i, t>> \notin settled /\ Key(i) \in known /\ Found(i) # NoLine
  BY <1>1 DEF SettledInv, ActsOnAnEdge
<1>4. \/ UNCHANGED <<latched, settled>>
      \/ latched' = [latched EXCEPT ![Key(i)] = Found(i)] /\ Answered(i, Found(i))
  BY DEF RecordOutcome, Consumes
<1>5. ASSUME NEW e \in settled', e \notin settled
      PROVE  /\ e = <<i, t>> /\ t = terminal[visit.pane] /\ Live(visit.pane)
             /\ Waiting(cfg, i, t) = Found(i) /\ latched'[Key(i)] = Found(i)
  BY <1>2, <1>4, <1>5 DEF Answered, Live, TypeOK
<1>6. settled \subseteq settled'
  BY <1>4 DEF Answered
<1>7. SettledIsLatched'
  <2> SUFFICES ASSUME NEW j \in DOMAIN cfg.rules, NEW q \in PaneIds,
                      <<j, terminal[q]>> \in settled'
               PROVE  LET k == <<cfg.rules[j].id, q>>
                      IN  IF k \in known THEN latched'[k] = Waiting(cfg, j, terminal[q])
                                         ELSE ~ cfg.existing
    BY <1>1 DEF SettledIsLatched, Waiting
  <2>1. CASE <<j, terminal[q]>> \in settled
    <3>1. <<cfg.rules[j].id, q>> # Key(i)
      BY <1>3, <2>1, SameKey
    <3>2. latched'[<<cfg.rules[j].id, q>>] = latched[<<cfg.rules[j].id, q>>]
      BY <1>4, <3>1, ConfigType DEF Keys, Rule, TypeOK
    <3>. QED  BY <2>1, <3>2 DEF SettledInv, SettledIsLatched
  <2>2. CASE <<j, terminal[q]>> \notin settled
    <3>1. j = i /\ terminal[q] = terminal[visit.pane] /\ Live(visit.pane)
      BY <1>5, <2>2
    <3>2. q = visit.pane
      BY <1>2, <3>1 DEF SettledInv
    <3>. QED  BY <1>3, <1>5, <2>2, <3>1, <3>2 DEF Key
  <2>. QED  BY <2>1, <2>2
<1>8. SettledWaits'
  <2> SUFFICES ASSUME NEW e \in settled'
               PROVE  /\ e[1] \in DOMAIN cfg.rules /\ e[2] \notin spare
                      /\ Waiting(cfg, e[1], e[2]) # NoLine
    BY <1>1 DEF SettledWaits, Waiting
  <2>. QED  BY <1>2, <1>3, <1>5 DEF SettledInv, SettledWaits, PanesOK
<1>9. TextIsCurrent'
  <2> SUFFICES ASSUME NEW j \in visit'.rest
               PROVE  LET u == listed[visit'.pane]
                      IN  /\ <<j, u>> \in settled' =>
                               terminal[visit'.pane] = u /\ Found(j)' = Waiting(cfg, j, u)
                          /\ Live(visit'.pane) => u \in looked
    BY <1>1 DEF TextIsCurrent, Waiting, Live
  <2>1. visit' = [visit EXCEPT !.rest = @ \ {i}]
    BY <1>1 DEF RuleDone, NoVisit
  <2>2. j \in visit.rest /\ j # i /\ visit'.pane = visit.pane /\ Found(j)' = Found(j)
    BY <1>1, <2>1 DEF Found, TypeOK, Visits
  <2>3. <<j, t>> \in settled' => <<j, t>> \in settled
    BY <1>5, <2>2
  <2>. QED  BY <2>2, <2>3 DEF SettledInv, TextIsCurrent
<1>10. KnownIsLooked' /\ PanesOK' /\ pc' \notin {"down", "act", "record"}
  BY <1>1 DEF SettledInv, KnownIsLooked, PanesOK, Live, RuleDone
<1>. QED  BY <1>1, <1>7, <1>8, <1>9, <1>10 DEF SettledInv, ActsOnAnEdge, Live

LEMMA SettledInductive == Distinct /\ TypeOK /\ SettledInv /\ [Next]_vars => SettledInv'
<1> SUFFICES ASSUME Distinct, TypeOK, SettledInv, [Next]_vars PROVE SettledInv'
  OBVIOUS
<1>1. CASE Daemon
  <2>1. ASSUME NEW p \in PaneIds, ReadFails(p)
        PROVE  SettledInv'
    BY <2>1, QuietSettled DEF ReadFails
  <2>. QED
    BY <1>1, <2>1, LoopSettled, ReadSettled, EvaluateSettled, RunActionSettled,
       RecordOutcomeSettled DEF Daemon
<1>2. CASE Environment
  BY <1>2, EnvironmentSettled
<1>3. CASE UNCHANGED vars
  BY <1>3, QuietSettled DEF vars
<1>. QED  BY <1>1, <1>2, <1>3 DEF Next

\* The action never runs for a prompt that was on screen at the first look or that
\* has been acted on and still waits, unless a reload has armed it again: through
\* redraws, closing panes, lost answers, failing disks, reloads, resets, crashes and
\* restarts of the daemon.
THEOREM OnlyReloads == ASSUME Distinct PROVE Spec => []OnlyReloadsRearm
<1>1. TypeOK /\ SettledInv /\ [Next]_vars => SettledInv'
  BY SettledInductive
<1>2. SettledInv => OnlyReloadsRearm
  BY DEF SettledInv, ActsOnAnEdge, OnlyReloadsRearm, Acts
<1>. QED  BY <1>1, <1>2, InitSettled, TypeCorrect, PTL DEF Spec

\* Without a reload no prompt is armed again.
LEMMA NothingRearmed ==
  ASSUME "reload" \notin Signals, TypeOK, rearmed = {}, [Next]_vars
  PROVE  rearmed' = {}
<1>1. CASE DrainReload
  BY <1>1 DEF DrainReload, TypeOK
<1>2. ASSUME NEW p \in PaneIds, ReadPane(p) \/ ReadFails(p)
      PROVE  rearmed' = {}
  BY <1>2 DEF ReadPane, ReadFails
<1>3. ASSUME NEW i \in visit.rest, Evaluate(i)
      PROVE  rearmed' = {}
  BY <1>3 DEF Evaluate, LatchFalls, StillLatched, LatchUnfired, HoldBack, Attempt
<1>4. ASSUME NEW i \in visit.rest, RunAction(i) \/ RecordOutcome(i)
      PROVE  rearmed' = {}
  BY <1>4 DEF RunAction, RecordOutcome, Answered
<1>5. ASSUME NEW p \in PaneIds, ClosePane(p) \/ \E s \in Texts : Redraw(p, s)
      PROVE  rearmed' = {}
  BY <1>5 DEF ClosePane, Redraw, Unsettle
<1>6. CASE Exit \/ Crash \/ RestartHerdr \/ DrainReset
  BY <1>6 DEF Exit, Crash, Gone, RestartHerdr, DrainReset
<1>7. CASE \/ ListPanes \/ ListFails \/ EndPass \/ Start \/ Tick
           \/ \E p \in PaneIds, t \in Terminals, s \in Texts : OpenPane(p, t, s)
           \/ \E l \in {"up", "flaky", "down"} : SetLink(l)
           \/ \E f \in Files : EditFile(f)
           \/ \E b \in BOOLEAN : SetUp(b)
           \/ \E sig \in Signals : Signal(sig)
  BY <1>7 DEF ListPanes, ListFails, EndPass, Start, Tick, OpenPane, SetLink, EditFile,
              SetUp, Signal
<1>. QED
  BY <1>1, <1>2, <1>3, <1>4, <1>5, <1>6, <1>7 DEF Next, Daemon, Environment, vars

\* And so, as long as nobody reloads, no prompt is acted on that was on screen at
\* the first look, or acted on before, and has not changed since.
THEOREM SettledPrompts ==
  ASSUME Distinct, "reload" \notin Signals
  PROVE  Spec => []NeverActsOnSettled
<1>1. Init => rearmed = {}
  BY DEF Init
<1>2. TypeOK /\ rearmed = {} /\ [Next]_vars => (rearmed = {})'
  BY NothingRearmed
<1>3. rearmed = {} /\ OnlyReloadsRearm => NeverActsOnSettled
  BY DEF OnlyReloadsRearm, NeverActsOnSettled
<1>. QED  BY <1>1, <1>2, <1>3, OnlyReloads, TypeCorrect, PTL DEF Spec
=============================================================================
