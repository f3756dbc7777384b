------------------------ MODULE TriggerEngine_proofs ------------------------
(***************************************************************************)
(* Theorems about TriggerEngine, for every set of panes, terminals, rules, *)
(* configurations and faults.                                              *)
(***************************************************************************)
EXTENDS TriggerEngine, SequenceTheorems, FiniteSetTheorems, TLAPS

----------------------------------------------------------------------------
(* What the operators return.                                              *)

LEMMA NoConfigType == NoConfig \in Config
BY DEF NoConfig, Config

\* A prompt found on a screen is one of its non-blank lines.
LEMMA LiveLineType ==
  ASSUME NEW rule \in Rule, NEW text \in Screens
  PROVE  LiveLine(rule, text) \in Lines \cup {NoLine}
<1>1. CASE \E n \in DOMAIN text : IsLive(rule, text, n)
  <2>1. PICK n \in DOMAIN text : /\ IsLive(rule, text, n)
                                 /\ LiveLine(rule, text) = text[n]
    BY <1>1 DEF LiveLine
  <2>2. text[n] \in rule.matches
    BY <2>1 DEF IsLive, IsLast, Hits
  <2>3. rule.matches \subseteq Lines
    BY DEF Rule
  <2>. QED  BY <2>1, <2>2, <2>3
<1>2. CASE ~ \E n \in DOMAIN text : IsLive(rule, text, n)
  BY <1>2 DEF LiveLine
<1>. QED  BY <1>1, <1>2

LEMMA NewGuardType ==
  ASSUME NEW cooldown \in Nat, NEW max \in Nat
  PROVE  NewGuard(cooldown, max) \in Guards
BY AgeAssumption DEF NewGuard, Guards, NeverFired, Stamp

LEMMA RecordType ==
  ASSUME NEW g \in Guards, NEW k \in Keys, NEW line \in Lines \cup {NoLine}
  PROVE  Record(g, k, line) \in Guards
<1> DEFINE stamp == [line |-> line, age |-> 0]
<1>1. stamp \in Stamp
  BY AgeAssumption DEF Stamp
<1>2. [g.last EXCEPT ![k] = stamp] \in [Keys -> Stamp]
  BY <1>1 DEF Guards
<1>3. Record(g, k, line) = [cooldown |-> g.cooldown, max |-> g.max, writes |-> g.writes,
                            last |-> [g.last EXCEPT ![k] = stamp]]
  BY DEF Record, Guards
<1>. QED  BY <1>2, <1>3 DEF Guards

\* A sequence of ages without its first entries.
LEMMA DropType ==
  ASSUME NEW ages \in Seq(0..AgeCap), NEW d \in Nat
  PROVE  /\ SubSeq(ages, d + 1, Len(ages)) \in Seq(0..AgeCap)
         /\ Len(SubSeq(ages, d + 1, Len(ages))) = IF d <= Len(ages) THEN Len(ages) - d ELSE 0
         /\ \A n \in 1..(Len(ages) - d) :
              /\ n + d \in 1..Len(ages)
              /\ SubSeq(ages, d + 1, Len(ages))[n] = ages[n + d]
<1>1. Len(ages) \in Nat
  BY LenProperties
<1>2. \A n \in (d + 1)..Len(ages) : ages[n] \in 0..AgeCap
  <2> TAKE n \in (d + 1)..Len(ages)
  <2>1. n \in 1..Len(ages)
    BY <1>1
  <2>. QED  BY <2>1, ElementOfSeq
<1>3. /\ SubSeq(ages, d + 1, Len(ages)) \in Seq(0..AgeCap)
      /\ Len(SubSeq(ages, d + 1, Len(ages))) =
           IF d + 1 <= Len(ages) THEN Len(ages) - (d + 1) + 1 ELSE 0
      /\ \A n \in 1..(Len(ages) - (d + 1) + 1) :
           SubSeq(ages, d + 1, Len(ages))[n] = ages[(d + 1) + n - 1]
  BY <1>1, <1>2, SubSeqProperties
<1>4. ASSUME NEW n \in 1..(Len(ages) - d)
      PROVE  /\ n + d \in 1..Len(ages) /\ (d + 1) + n - 1 = n + d
             /\ n \in 1..(Len(ages) - (d + 1) + 1)
  BY <1>1
<1>5. Len(SubSeq(ages, d + 1, Len(ages))) = IF d <= Len(ages) THEN Len(ages) - d ELSE 0
  BY <1>1, <1>3
<1>6. \A n \in 1..(Len(ages) - d) :
        /\ n + d \in 1..Len(ages)
        /\ SubSeq(ages, d + 1, Len(ages))[n] = ages[n + d]
  BY <1>3, <1>4
<1>. QED  BY <1>3, <1>5, <1>6

LEMMA PoppedType ==
  ASSUME NEW window \in Seq(0..AgeCap)
  PROVE  Popped(window) \in Seq(0..AgeCap)
<1>1. IsFiniteSet(1..Len(window))
  BY LenProperties, FS_Interval
<1>2. IsFiniteSet(Stale(window))
  BY <1>1, FS_Subset DEF Stale
<1>. QED  BY <1>2, FS_CardinalityType, DropType DEF Popped

LEMMA RecordWriteType ==
  ASSUME NEW g \in Guards, NEW r \in RuleIds
  PROVE  RecordWrite(g, r) \in Guards
<1> DEFINE window == Append(Popped(g.writes[r]), 0)
<1>1. window \in Seq(0..AgeCap)
  BY PoppedType, AgeAssumption, AppendProperties DEF Guards
<1>2. [g.writes EXCEPT ![r] = window] \in [RuleIds -> Seq(0..AgeCap)]
  BY <1>1 DEF Guards
<1> HIDE DEF window
<1>3. [g EXCEPT !.writes = [g.writes EXCEPT ![r] = window]] \in Guards
  BY <1>2 DEF Guards
<1>. QED  BY <1>3 DEF RecordWrite, window

LEMMA RetainPanesType ==
  ASSUME NEW g \in Guards, NEW live
  PROVE  RetainPanes(g, live) \in Guards
<1> DEFINE last == [k \in Keys |-> IF k[2] \in live THEN g.last[k] ELSE NeverFired]
<1>1. NeverFired \in Stamp
  BY AgeAssumption DEF NeverFired, Stamp
<1>2. last \in [Keys -> Stamp]
  BY <1>1 DEF Guards
<1>3. RetainPanes(g, live) = [cooldown |-> g.cooldown, max |-> g.max, last |-> last,
                              writes |-> g.writes]
  BY DEF RetainPanes, Guards
<1>. QED  BY <1>2, <1>3 DEF Guards

LEMMA OlderType ==
  ASSUME NEW age \in 0..AgeCap
  PROVE  Older(age) \in 0..AgeCap
BY AgeAssumption DEF Older

LEMMA ElapseType ==
  ASSUME NEW g \in Guards
  PROVE  Elapse(g) \in Guards
<1> DEFINE last   == [k \in Keys |-> [line |-> g.last[k].line, age |-> Older(g.last[k].age)]]
           window(r) == [n \in 1..Len(g.writes[r]) |-> Older(g.writes[r][n])]
           writes == [r \in RuleIds |-> window(r)]
<1>1. last \in [Keys -> Stamp]
  BY OlderType DEF Guards, Stamp
<1>2. ASSUME NEW r \in RuleIds
      PROVE  window(r) \in Seq(0..AgeCap)
  <2>1. g.writes[r] \in Seq(0..AgeCap)
    BY DEF Guards
  <2>2. \A n \in 1..Len(g.writes[r]) : Older(g.writes[r][n]) \in 0..AgeCap
    BY <2>1, OlderType, ElementOfSeq
  <2>. QED  BY <2>1, <2>2, LenProperties, IsASeq
<1>3. writes \in [RuleIds -> Seq(0..AgeCap)]
  BY <1>2
<1>4. Elapse(g) = [cooldown |-> g.cooldown, max |-> g.max, last |-> last, writes |-> writes]
  BY Zenon DEF Elapse
<1>. QED  BY <1>1, <1>3, <1>4 DEF Guards

\* What is left of the writes of a rule after a tick.
LEMMA RecentType ==
  ASSUME NEW ages \in Seq(0..AgeCap)
  PROVE  Recent(ages) \in Seq(0..AgeCap)
<1> DEFINE older == [n \in 1..Len(ages) |-> Older(ages[n])]
           stale == {n \in 1..Len(ages) : older[n] >= Second}
<1>1. Len(ages) \in Nat
  BY LenProperties
<1>2. \A n \in 1..Len(ages) : Older(ages[n]) \in 0..AgeCap
  BY OlderType, ElementOfSeq
<1>3. older \in Seq(0..AgeCap)
  BY <1>1, <1>2, IsASeq
<1>4. Cardinality(stale) \in Nat
  <2>1. IsFiniteSet(1..Len(ages))
    BY <1>1, FS_Interval
  <2>2. IsFiniteSet(stale)
    BY <2>1, FS_Subset
  <2>. QED  BY <2>2, FS_CardinalityType
<1>5. Recent(ages) = SubSeq(older, Cardinality(stale) + 1, Len(older))
  BY DEF Recent
<1> HIDE DEF older, stale
<1>. QED  BY <1>3, <1>4, <1>5, DropType

LEMMA ConfigType ==
  ASSUME TypeOK
  PROVE  /\ cfg \in Config
         /\ \A i \in DOMAIN cfg.rules : cfg.rules[i] \in Rule
         /\ DOMAIN cfg.rules \subseteq Nat
<1>1. cfg \in Config
  BY NoConfigType, EngineAssumption DEF TypeOK
<1>2. cfg.rules \in Seq(Rule)
  BY <1>1 DEF Config
<1>3. DOMAIN cfg.rules = 1..Len(cfg.rules) /\ Len(cfg.rules) \in Nat
  BY <1>2, LenProperties
<1>. QED  BY <1>1, <1>2, <1>3, ElementOfSeq

LEMMA ApplicableType ==
  ASSUME NEW rules, NEW p, NEW lab
  PROVE  Applicable(rules, p, lab) \subseteq DOMAIN rules
BY DEF Applicable

LEMMA RetryWaitType ==
  ASSUME NEW n \in Nat \ {0}
  PROVE  RetryWait(n) \in Nat
<1>1. Least(n, 7) \in 1..7
  BY DEF Least
<1>2. Doubled[Least(n, 7)] \in Nat
  BY <1>1 DEF Doubled
<1>3. RetryBackoff * Doubled[Least(n, 7)] \in Nat
  BY <1>2, EngineAssumption
<1>. QED  BY <1>3, EngineAssumption DEF RetryWait, Least

LEMMA NoVisitType == NoVisit \in Visits /\ NoVisit.rest = {}
BY LineAssumption, EngineAssumption DEF NoVisit, Visits

----------------------------------------------------------------------------
(* Type correctness.                                                       *)

USE DEF herdrVars, userVars, passVars, armVars, histVars, Unmoved

LEMMA NothingWrittenType == NothingWritten \in [RuleIds -> Seq(0..AgeCap)]
BY DEF NothingWritten

LEMMA InitType == Init => TypeOK
<1> SUFFICES ASSUME Init PROVE TypeOK
  OBVIOUS
<1>1. guard \in Guards
  BY NewGuardType DEF Init
<1>2. visit \in Visits /\ visit.rest = {}
  BY NoVisitType DEF Init
<1>3. screen \in [Terminals -> Texts]
  BY EngineAssumption DEF Init
<1>4. /\ latched \in [Keys -> Lines \cup {NoLine}]
      /\ retries \in [Keys -> 0..MaxAttempts] /\ retryAfter \in [Keys -> Nat]
  BY EngineAssumption DEF Init, NoLatches, NoCounts
<1>5. terminal \in [PaneIds -> Terminals \cup {NoTerminal}] /\ listed = terminal
  BY DEF Init, NoTerminals
<1>6. sent \in [RuleIds \X Terminals -> 0..2] /\ wrote \in [RuleIds -> Seq(0..AgeCap)]
  BY NothingWrittenType DEF Init
<1>. QED
  BY <1>1, <1>2, <1>3, <1>4, <1>5, <1>6 DEF Init, TypeOK, Points

LEMMA StartType == TypeOK /\ Start => TypeOK'
<1> SUFFICES ASSUME TypeOK, Start PROVE TypeOK'
  OBVIOUS
<1>1. cfg' \in Configs \cup {NoConfig}
  BY DEF Start, TypeOK, Configs
<1>2. cfg' \in Config
  BY <1>1, NoConfigType, EngineAssumption
<1>3. guard' \in Guards
  BY <1>2, NewGuardType DEF Start, Config
<1>. QED  BY <1>1, <1>3, NothingWrittenType DEF Start, TypeOK, Points

LEMMA GoneType == TypeOK /\ Gone => TypeOK'
<1> SUFFICES ASSUME TypeOK, Gone PROVE TypeOK'
  OBVIOUS
<1>1. guard' \in Guards
  BY NewGuardType DEF Gone
<1>2. /\ latched' \in [Keys -> Lines \cup {NoLine}]
      /\ retries' \in [Keys -> 0..MaxAttempts] /\ retryAfter' \in [Keys -> Nat]
  BY EngineAssumption DEF Gone, NoLatches, NoCounts
<1>3. listed' \in [PaneIds -> Terminals \cup {NoTerminal}] /\ visit' \in Visits
      /\ visit'.rest = {}
  BY NoVisitType DEF Gone, NoTerminals
<1>. QED  BY <1>1, <1>2, <1>3, NothingWrittenType DEF Gone, TypeOK, Points

LEMMA DrainReloadType == TypeOK /\ DrainReload => TypeOK'
<1> SUFFICES ASSUME TypeOK, DrainReload PROVE TypeOK'
  OBVIOUS
<1>1. CASE "reload" \in flags /\ file # BadConfig
  <2>1. file \in Configs /\ file \in Config
    BY <1>1, EngineAssumption DEF TypeOK, Configs
  <2>2. guard' \in Guards
    BY <1>1, <2>1, NewGuardType DEF DrainReload, Config
  <2>3. latched' \in [Keys -> Lines \cup {NoLine}]
    BY <1>1 DEF DrainReload, NoLatches
  <2>4. DOMAIN file.rules \subseteq Nat
    BY <2>1, LenProperties DEF Config
  <2>5. settled' \subseteq Nat \X Terminals /\ rearmed' \subseteq Nat \X Terminals
    BY <1>1, <2>4 DEF DrainReload, Rearm
  <2>6. wrote' \in [RuleIds -> Seq(0..AgeCap)]
    BY <1>1, NothingWrittenType DEF DrainReload
  <2>. QED  BY <1>1, <2>1, <2>2, <2>3, <2>5, <2>6 DEF DrainReload, TypeOK, Points
<1>2. CASE ~ ("reload" \in flags /\ file # BadConfig)
  BY <1>2 DEF DrainReload, TypeOK, Points
<1>. QED  BY <1>1, <1>2

LEMMA DrainResetType == TypeOK /\ DrainReset => TypeOK'
<1> SUFFICES ASSUME TypeOK, DrainReset PROVE TypeOK'
  OBVIOUS
<1>1. CASE "reset" \in flags
  <2>1. disk' \subseteq LedgerKeys /\ ledger' \subseteq LedgerKeys
    BY <1>1 DEF DrainReset, Persist, TypeOK
  <2>2. latched' \in [Keys -> Lines \cup {NoLine}]
    BY <1>1 DEF DrainReset, NoLatches
  <2>3. sent' \in [RuleIds \X Terminals -> 0..2]
    BY <1>1 DEF DrainReset
  <2>. QED  BY <1>1, <2>1, <2>2, <2>3 DEF DrainReset, TypeOK, Points
<1>2. CASE "reset" \notin flags
  BY <1>2 DEF DrainReset, TypeOK, Points
<1>. QED  BY <1>1, <1>2

LEMMA ListPanesType == TypeOK /\ ListPanes => TypeOK'
<1> SUFFICES ASSUME TypeOK, ListPanes PROVE TypeOK'
  OBVIOUS
<1>1. guard' \in Guards
  BY RetainPanesType DEF ListPanes, TypeOK
<1>2. /\ latched' \in [Keys -> Lines \cup {NoLine}]
      /\ retries' \in [Keys -> 0..MaxAttempts] /\ retryAfter' \in [Keys -> Nat]
      /\ known' \subseteq Keys
  BY EngineAssumption DEF ListPanes, TypeOK
<1>3. ledger' \subseteq LedgerKeys /\ disk' \subseteq LedgerKeys
  BY DEF ListPanes, TypeOK, Persist
<1>4. todo' \subseteq PaneIds /\ \A p \in todo' : listed'[p] # NoTerminal
  BY DEF ListPanes, WatchSets, Watchable, Live
<1>5. labels' \in BOOLEAN
  BY DEF ListPanes
<1>. QED  BY <1>1, <1>2, <1>3, <1>4, <1>5 DEF ListPanes, TypeOK, Points

LEMMA ReadPaneType ==
  ASSUME TypeOK, NEW p \in PaneIds, ReadPane(p)
  PROVE  TypeOK'
<1>1. terminal[p] \in Terminals
  BY DEF ReadPane, Live, TypeOK
<1>2. visit' \in Visits /\ visit'.rest \subseteq DOMAIN cfg.rules
  BY <1>1, ConfigType, ApplicableType DEF ReadPane, Visits, TypeOK
<1>3. looked' \subseteq Terminals /\ settled' \subseteq Nat \X Terminals
  BY <1>1, ConfigType DEF ReadPane, Look, TypeOK
<1>4. visit'.pane = p /\ listed[p] # NoTerminal
  BY DEF ReadPane, NextPane, TypeOK
<1>5. todo' \subseteq todo
  BY DEF ReadPane
<1>. QED  BY <1>2, <1>3, <1>4, <1>5 DEF ReadPane, TypeOK, Points

LEMMA PassType ==
  ASSUME TypeOK,
         ListFails \/ EndPass \/ \E p \in PaneIds : ReadFails(p)
  PROVE  TypeOK'
<1>1. CASE ListFails
  BY <1>1 DEF ListFails, TypeOK, Points
<1>2. CASE EndPass
  BY <1>2 DEF EndPass, TypeOK, Points, NoTerminals
<1>3. CASE \E p \in PaneIds : ReadFails(p)
  BY <1>3 DEF ReadFails, TypeOK
<1>. QED  BY <1>1, <1>2, <1>3

\* What the guards of Engine::evaluate work on.
LEMMA NextRuleType ==
  ASSUME TypeOK, NEW i \in visit.rest
  PROVE  /\ cfg.rules[i] \in Rule
         /\ Key(i) \in Keys
         /\ Found(i) \in Lines \cup {NoLine}
<1>1. cfg.rules[i] \in Rule
  BY ConfigType DEF TypeOK
<1>2. visit.pane \in PaneIds /\ visit.text \in Screens
  BY EngineAssumption DEF TypeOK, Visits
<1>. QED  BY <1>1, <1>2, LiveLineType DEF Key, Keys, Found, Rule

LEMMA RuleDoneType ==
  ASSUME TypeOK, NEW i \in visit.rest, RuleDone(i)
  PROVE  /\ visit' \in Visits /\ pc' \in {"visit", "evaluate"}
         /\ visit'.rest \subseteq visit.rest
         /\ pc' = "visit" => visit'.rest = {}
         /\ visit'.rest # {} => visit'.pane = visit.pane
<1>1. CASE visit.rest = {i}
  BY <1>1, NoVisitType DEF RuleDone
<1>2. CASE visit.rest # {i}
  BY <1>2 DEF RuleDone, TypeOK, Visits
<1>. QED  BY <1>1, <1>2

LEMMA EvaluateType ==
  ASSUME TypeOK, NEW i \in visit.rest, Evaluate(i)
  PROVE  TypeOK'
<1>1. known' \subseteq Keys
  BY NextRuleType
  DEF Evaluate, LatchFalls, StillLatched, LatchUnfired, HoldBack, Attempt, Evaluated, TypeOK
<1>2. CASE LatchFalls(i) \/ StillLatched(i) \/ LatchUnfired(i) \/ HoldBack(i)
  <2>1. latched' \in [Keys -> Lines \cup {NoLine}]
    <3>1. \/ UNCHANGED latched
          \/ \E line \in {NoLine, Found(i)} : latched' = [latched EXCEPT ![Key(i)] = line]
      BY <1>2 DEF LatchFalls, StillLatched, LatchUnfired, HoldBack
    <3>2. latched \in [Keys -> Lines \cup {NoLine}]
      BY DEF TypeOK
    <3>. QED  BY <3>1, <3>2, NextRuleType
  <2>2. RuleDone(i) /\ UNCHANGED Unmoved
    BY <1>2 DEF LatchFalls, StillLatched, LatchUnfired, HoldBack
  <2>. QED  BY <1>1, <2>1, <2>2, RuleDoneType DEF TypeOK, Points
<1>3. CASE Attempt(i)
  BY <1>1, <1>3 DEF Attempt, Evaluated, TypeOK, Points
<1>. QED  BY <1>2, <1>3 DEF Evaluate

LEMMA RunActionType ==
  ASSUME TypeOK, NEW i \in visit.rest, RunAction(i)
  PROVE  TypeOK'
<1>1. sent' \in [RuleIds \X Terminals -> 0..2]
  <2>1. sent' = sent \/ Delivered(i)
    BY DEF RunAction
  <2>2. sent \in [RuleIds \X Terminals -> 0..2]
    BY DEF TypeOK
  <2>3. \A n \in 0..2 : (IF n < 2 THEN n + 1 ELSE 2) \in 0..2
    OBVIOUS
  <2>. QED  BY <2>1, <2>2, <2>3 DEF Delivered
<1>2. wrote' \in [RuleIds -> Seq(0..AgeCap)]
  <2>1. wrote \in [RuleIds -> Seq(0..AgeCap)] /\ Wrote(i)
    BY DEF RunAction, TypeOK
  <2>2. Append(wrote[cfg.rules[i].id], 0) \in Seq(0..AgeCap)
    BY <2>1, NextRuleType, AgeAssumption, AppendProperties DEF Rule
  <2>. QED  BY <2>1, <2>2 DEF Wrote
<1>3. UNCHANGED <<herdrVars, userVars, flags, cfg, armVars, guard, ledger, listed, labels,
                  todo, visit, disk, looked, settled, rearmed>>
      /\ pc' = "record" /\ pc = "act" /\ outcome' \in {"ok", "client", "fix"}
  BY DEF RunAction
<1>. QED  BY <1>1, <1>2, <1>3 DEF TypeOK, Points

LEMMA RecordOutcomeType ==
  ASSUME TypeOK, NEW i \in visit.rest, RecordOutcome(i)
  PROVE  TypeOK'
<1> DEFINE rule    == cfg.rules[i]
           attempt == Least(retries[Key(i)] + 1, MaxAttempts)
           fired   == Record(guard, Key(i), Found(i))
<1>1. attempt \in 1..MaxAttempts
  BY NextRuleType, EngineAssumption DEF Least, TypeOK
<1>2. RetryWait(attempt) \in Nat
  BY <1>1, RetryWaitType
<1>3. retries' \in [Keys -> 0..MaxAttempts] /\ retryAfter' \in [Keys -> Nat]
  BY <1>1, <1>2, NextRuleType, EngineAssumption DEF RecordOutcome, Consumes, TypeOK
<1>4. fired \in Guards /\ RecordWrite(fired, rule.id) \in Guards
  BY RecordType, RecordWriteType, NextRuleType DEF TypeOK, Rule
<1>5. guard' \in Guards
  BY <1>4 DEF RecordOutcome, Consumes
<1>6. latched' \in [Keys -> Lines \cup {NoLine}]
  BY NextRuleType DEF RecordOutcome, Consumes, TypeOK
<1>7. settled' \subseteq Nat \X Terminals /\ rearmed' \subseteq rearmed
  <2>1. i \in Nat /\ settled \subseteq Nat \X Terminals
    BY ConfigType DEF TypeOK
  <2>2. terminal[visit.pane] \in Terminals \cup {NoTerminal}
    BY DEF TypeOK, Visits
  <2>3. settled' = settled \/ settled' = settled \cup {<<i, terminal[visit.pane]>>}
    BY DEF RecordOutcome, Consumes, Answered
  <2>4. settled' # settled => terminal[visit.pane] # NoTerminal
    BY DEF RecordOutcome, Consumes, Answered
  <2>5. rearmed' \subseteq rearmed
    BY DEF RecordOutcome, Consumes, Answered
  <2>. QED  BY <2>1, <2>2, <2>3, <2>4, <2>5
<1>8. RuleDone(i)
  BY DEF RecordOutcome, Consumes
<1>9. ledger' \subseteq LedgerKeys /\ disk' \subseteq LedgerKeys
  <2>1. LedgerKey(i) \in LedgerKeys
    BY NextRuleType DEF LedgerKey, LedgerKeys, LedgerId, TypeOK, Visits, Rule
  <2>2. ledger' \subseteq LedgerKeys
    BY <2>1 DEF RecordOutcome, Consumes, TypeOK
  <2>. QED  BY <2>2 DEF RecordOutcome, Consumes, Persist, TypeOK
<1>. QED
  BY <1>3, <1>5, <1>6, <1>7, <1>8, <1>9, RuleDoneType DEF RecordOutcome, Consumes, TypeOK, Points

LEMMA HerdrType ==
  ASSUME TypeOK,
         \/ \E p \in PaneIds, t \in Terminals, s \in Texts : OpenPane(p, t, s)
         \/ \E p \in PaneIds : ClosePane(p) \/ \E s \in Texts : Redraw(p, s)
         \/ RestartHerdr
         \/ \E l \in {"up", "flaky", "down"} : SetLink(l)
  PROVE  TypeOK'
<1>1. ASSUME NEW p \in PaneIds, NEW t \in Terminals, NEW s \in Texts, OpenPane(p, t, s)
      PROVE  TypeOK'
  BY <1>1 DEF OpenPane, TypeOK
<1>2. ASSUME NEW p \in PaneIds, ClosePane(p)
      PROVE  TypeOK'
  BY <1>2, EngineAssumption DEF ClosePane, Live, Unsettle, TypeOK
<1>3. ASSUME NEW p \in PaneIds, NEW s \in Texts, Redraw(p, s)
      PROVE  TypeOK'
  BY <1>3 DEF Redraw, Live, Unsettle, TypeOK
<1>4. CASE RestartHerdr
  BY <1>4, EngineAssumption DEF RestartHerdr, NoTerminals, TypeOK
<1>5. ASSUME NEW l \in {"up", "flaky", "down"}, SetLink(l)
      PROVE  TypeOK'
  BY <1>5 DEF SetLink, TypeOK
<1>. QED  BY <1>1, <1>2, <1>3, <1>4, <1>5

LEMMA UserAndClockType ==
  ASSUME TypeOK,
         \/ \E f \in Files : EditFile(f)
         \/ \E b \in BOOLEAN : SetUp(b)
         \/ \E sig \in Signals : Signal(sig)
         \/ Tick
  PROVE  TypeOK'
<1>1. CASE \E f \in Files : EditFile(f)
  BY <1>1 DEF EditFile, TypeOK
<1>2. CASE \E b \in BOOLEAN : SetUp(b)
  BY <1>2 DEF SetUp, TypeOK
<1>3. CASE \E sig \in Signals : Signal(sig)
  BY <1>3 DEF Signal, TypeOK
<1>4. CASE Tick
  <2>1. guard' \in Guards
    BY <1>4, ElapseType DEF Tick, TypeOK
  <2>2. retryAfter' \in [Keys -> Nat]
    BY <1>4 DEF Tick, TypeOK
  <2>3. wrote' \in [RuleIds -> Seq(0..AgeCap)]
    BY <1>4, RecentType DEF Tick, TypeOK
  <2>. QED  BY <1>4, <2>1, <2>2, <2>3 DEF Tick, TypeOK
<1>. QED  BY <1>1, <1>2, <1>3, <1>4

\* Every variable keeps its type; in particular what a pass has left to look at
\* was in its pane list, and the rules it has left to evaluate are in force.
THEOREM TypeCorrect == Spec => []TypeOK
<1>1. TypeOK /\ [Next]_vars => TypeOK'
  <2> SUFFICES ASSUME TypeOK, [Next]_vars PROVE TypeOK'
    OBVIOUS
  <2>1. CASE Daemon
    BY <2>1, DrainReloadType, DrainResetType, ListPanesType, PassType, ReadPaneType,
       EvaluateType, RunActionType, RecordOutcomeType DEF Daemon
  <2>2. CASE Environment
    BY <2>2, StartType, GoneType, HerdrType, UserAndClockType DEF Environment, Exit, Crash
  <2>3. CASE UNCHANGED vars
    BY <2>3 DEF vars, TypeOK
  <2>. QED  BY <2>1, <2>2, <2>3 DEF Next
<1>. QED  BY <1>1, InitType, PTL DEF Spec

----------------------------------------------------------------------------
(* The ledger and its file.                                                *)

LEMMA LedgerAndFile == Spec => [](DiskWorks => LedgerIsDurable)
<1>1. Init => LedgerIsDurable
  BY DEF Init, LedgerIsDurable
<1>2. (DiskWorks => LedgerIsDurable) /\ [Next]_vars => (DiskWorks => LedgerIsDurable)'
  <2> SUFFICES ASSUME DiskWorks, LedgerIsDurable, [Next]_vars PROVE LedgerIsDurable'
    BY DEF DiskWorks
  <2> USE DEF LedgerIsDurable
  <2>1. CASE Daemon
    <3>1. CASE DrainReload \/ ListFails \/ EndPass
      BY <3>1 DEF DrainReload, ListFails, EndPass
    <3>2. CASE DrainReset \/ ListPanes
      BY <3>2 DEF DrainReset, ListPanes, Persist, DiskWorks
    <3>3. ASSUME NEW p \in PaneIds, ReadPane(p) \/ ReadFails(p)
          PROVE  LedgerIsDurable'
      BY <3>3 DEF ReadPane, ReadFails
    <3>4. ASSUME NEW i \in visit.rest, Evaluate(i) \/ RunAction(i)
          PROVE  LedgerIsDurable'
      BY <3>4 DEF Evaluate, LatchFalls, StillLatched, LatchUnfired, HoldBack, Attempt,
                  Evaluated, RunAction
    <3>5. ASSUME NEW i \in visit.rest, RecordOutcome(i)
          PROVE  LedgerIsDurable'
      BY <3>5 DEF RecordOutcome, Consumes, Persist, DiskWorks
    <3>. QED  BY <2>1, <3>1, <3>2, <3>3, <3>4, <3>5 DEF Daemon
  <2>2. CASE Start \/ Exit \/ Crash
    BY <2>2 DEF Start, Exit, Crash, Gone
  <2>3. CASE Environment /\ ~ (Start \/ Exit \/ Crash)
    BY <2>3 DEF Environment, Tick, RestartHerdr, OpenPane, ClosePane, Redraw, SetLink,
                EditFile, SetUp, Signal
  <2>4. CASE UNCHANGED vars
    BY <2>4 DEF vars
  <2>. QED  BY <2>1, <2>2, <2>3, <2>4 DEF Next
<1>. QED  BY <1>1, <1>2, PTL DEF Spec

\* On a disk that works the ledger file is never behind the daemon's memory,
\* whatever else fails: a restart finds what the daemon went by.
THEOREM DurableLedger == ASSUME DiskWorks PROVE Spec => []LedgerIsDurable
<1>1. (DiskWorks => LedgerIsDurable) => LedgerIsDurable
  OBVIOUS
<1>. QED  BY <1>1, LedgerAndFile, PTL

----------------------------------------------------------------------------
(* Once per terminal.                                                      *)

LEMMA InitOnce == Init => OnceInv
BY DEF Init, OnceInv, PanesOK, OneTerminalEach, AtMostOncePerTerminal,
   DeliveriesAreBooked, Booked, NoTerminals, Live

\* A step that moves no pane, ledger or delivery and is not at an action keeps it.
LEMMA QuietOnce ==
  ASSUME OnceInv, TypeOK,
         UNCHANGED <<terminal, issued, spare, sent, disk, ledger>>,
         listed' = listed \/ listed' = NoTerminals,
         pc = "down" <=> pc' = "down",
         pc # "record", pc' # "act", pc' # "record"
  PROVE  OnceInv'
BY DEF OnceInv, PanesOK, OneTerminalEach, AtMostOncePerTerminal, DeliveriesAreBooked, Booked,
   InFlight, NoTerminals, Live, TypeOK

LEMMA EnvironmentOnce ==
  ASSUME Reliable, DiskWorks => LedgerIsDurable, OnceInv, TypeOK, Environment
  PROVE  OnceInv'
<1> USE DEF OnceInv, PanesOK, OneTerminalEach, AtMostOncePerTerminal, DeliveriesAreBooked,
            Booked, Live
<1>1. CASE Start
  BY <1>1 DEF Start, InFlight
<1>2. CASE Exit
  <2>1. disk = ledger /\ pc = "drain_reload"
    BY <1>2 DEF Exit, TypeOK, Reliable, NeverRestarted, LedgerIsDurable
  <2>. QED  BY <1>2, <2>1 DEF Exit, Gone, InFlight, NoTerminals
<1>3. CASE Crash
  <2>1. disk = ledger /\ pc \notin {"record", "down"}
    BY <1>3 DEF Crash, Reliable, NeverRestarted, LedgerIsDurable
  <2>. QED  BY <1>3, <2>1 DEF Crash, Gone, InFlight, NoTerminals
<1>4. CASE Tick
  BY <1>4 DEF Tick, InFlight, IsNext, LedgerKey, Spent
<1>5. CASE RestartHerdr
  BY <1>5 DEF RestartHerdr, Reliable
<1>6. ASSUME NEW p \in PaneIds, NEW t \in Terminals, NEW s \in Texts, OpenPane(p, t, s)
      PROVE  OnceInv'
  <2>1. PanesOK' /\ OneTerminalEach'
    BY <1>6, EngineAssumption DEF OpenPane, TypeOK
  <2>2. DeliveriesAreBooked'
    <3>1. /\ p \notin issued /\ t \in spare /\ terminal' = [terminal EXCEPT ![p] = t]
          /\ spare' \subseteq spare
          /\ UNCHANGED <<pc, cfg, visit, listed, outcome, ledger, disk, sent>>
      BY <1>6 DEF OpenPane
    <3>2. \A k : InFlight(k) => InFlight(k)'
      BY <3>1 DEF InFlight, IsNext, LedgerKey
    <3>3. Booked' = Booked
      BY <3>1 DEF Booked
    <3>4. \A e \in RuleIds \X Terminals, q \in PaneIds :
            sent[e] # 0 /\ terminal'[q] = e[2] => q # p /\ terminal[q] = e[2]
      BY <3>1 DEF TypeOK
    <3>. QED  BY <3>1, <3>2, <3>3, <3>4
  <2>. QED  BY <1>6, <2>1, <2>2 DEF OpenPane, IsNext, LedgerKey, Spent
<1>7. ASSUME NEW p \in PaneIds, ClosePane(p)
      PROVE  OnceInv'
  <2>1. PanesOK' /\ OneTerminalEach'
    BY <1>7 DEF ClosePane, TypeOK
  <2>2. DeliveriesAreBooked'
    <3>1. \A q \in PaneIds : terminal'[q] \in Terminals => terminal'[q] = terminal[q]
      BY <1>7, EngineAssumption DEF ClosePane, TypeOK
    <3>2. \A k : InFlight(k) => InFlight(k)'
      BY <1>7 DEF ClosePane, InFlight, IsNext, LedgerKey
    <3>3. UNCHANGED <<sent, spare, Booked>>
      BY <1>7 DEF ClosePane
    <3>. QED  BY <3>1, <3>2, <3>3 DEF LedgerId
  <2>. QED  BY <1>7, <2>1, <2>2 DEF ClosePane, IsNext, LedgerKey, Spent
<1>8. ASSUME NEW p \in PaneIds, NEW s \in Texts, Redraw(p, s)
      PROVE  OnceInv'
  BY <1>8 DEF Redraw, InFlight, IsNext, LedgerKey, Spent
<1>9. ASSUME NEW l \in {"up", "flaky", "down"}, SetLink(l)
      PROVE  OnceInv'
  BY <1>9 DEF SetLink, InFlight, IsNext, LedgerKey, Spent
<1>10. ASSUME NEW f \in Files, EditFile(f)
       PROVE  OnceInv'
  BY <1>10 DEF EditFile, InFlight, IsNext, LedgerKey, Spent
<1>11. ASSUME NEW b \in BOOLEAN, SetUp(b)
       PROVE  OnceInv'
  BY <1>11 DEF SetUp, InFlight, IsNext, LedgerKey, Spent
<1>12. ASSUME NEW sig \in Signals, Signal(sig)
       PROVE  OnceInv'
  BY <1>12 DEF Signal, InFlight, IsNext, LedgerKey, Spent
<1>. QED
  BY <1>1, <1>2, <1>3, <1>4, <1>5, <1>6, <1>7, <1>8, <1>9, <1>10, <1>11, <1>12
  DEF Environment

LEMMA LoopOnce ==
  ASSUME Reliable, OnceInv, TypeOK,
         DrainReload \/ DrainReset \/ ListPanes \/ ListFails \/ EndPass
  PROVE  OnceInv'
<1> USE DEF OnceInv, PanesOK, OneTerminalEach, AtMostOncePerTerminal, DeliveriesAreBooked,
            Booked, Live
<1>1. CASE DrainReload
  BY <1>1, QuietOnce DEF DrainReload
<1>2. CASE DrainReset
  <2>1. CASE "reset" \in flags
    BY <1>2, <2>1 DEF DrainReset
  <2>2. CASE "reset" \notin flags
    BY <1>2, <2>2, QuietOnce DEF DrainReset
  <2>. QED  BY <2>1, <2>2
<1>3. CASE ListPanes
  <2>1. ASSUME NEW e \in RuleIds \X Terminals, NEW p \in PaneIds, terminal[p] = e[2],
               <<e[1], LedgerId(p, e[2])>> \in ledger
        PROVE  <<e[1], LedgerId(p, e[2])>> \in ledger'
    BY <1>3, <2>1, EngineAssumption DEF ListPanes
  <2>2. DeliveriesAreBooked'
    BY <1>3, <2>1 DEF ListPanes, InFlight, LedgerId
  <2>. QED  BY <1>3, <2>2 DEF ListPanes
<1>4. CASE ListFails
  BY <1>4, QuietOnce DEF ListFails
<1>5. CASE EndPass
  BY <1>5, QuietOnce DEF EndPass
<1>. QED  BY <1>1, <1>2, <1>3, <1>4, <1>5

LEMMA PaneOnce ==
  ASSUME OnceInv, TypeOK, NEW p \in PaneIds, ReadPane(p) \/ ReadFails(p)
  PROVE  OnceInv'
BY QuietOnce DEF ReadPane, ReadFails

LEMMA EvaluateOnce ==
  ASSUME OnceInv, TypeOK, NEW i \in visit.rest, Evaluate(i)
  PROVE  OnceInv'
<1>1. CASE Attempt(i)
  <2>1. \A j \in visit.rest : IsNext(j) => j = i
    BY <1>1, ConfigType DEF Attempt, Evaluated, IsNext, TypeOK
  <2>. QED
    BY <1>1, <2>1
    DEF Attempt, Evaluated, OnceInv, PanesOK, OneTerminalEach,
        AtMostOncePerTerminal, DeliveriesAreBooked, Booked, InFlight, IsNext, LedgerKey, Spent, Live
<1>2. CASE LatchFalls(i) \/ StillLatched(i) \/ LatchUnfired(i) \/ HoldBack(i)
  <2>1. RuleDone(i) /\ UNCHANGED Unmoved /\ pc = "evaluate"
    BY <1>2 DEF LatchFalls, StillLatched, LatchUnfired, HoldBack, Evaluated
  <2>2. pc' \in {"visit", "evaluate"}
    BY <2>1 DEF RuleDone
  <2>. QED  BY <2>1, <2>2, QuietOnce
<1>. QED  BY <1>1, <1>2 DEF Evaluate

\* The pane written to is the one listed, and the ledger had no entry for it: so
\* nothing had been delivered to it.
LEMMA RunActionOnce ==
  ASSUME Reliable, OnceInv, TypeOK, NEW i \in visit.rest, RunAction(i)
  PROVE  /\ OnceInv'
         /\ sent' = sent \/ \E e \in RuleIds \X Terminals :
                              sent[e] = 0 /\ sent' = [sent EXCEPT ![e] = 1]
<1> DEFINE t == terminal[visit.pane]
           e == <<cfg.rules[i].id, t>>
<1>1. UNCHANGED <<terminal, issued, spare, disk, ledger, listed, visit, cfg>>
      /\ pc = "act" /\ pc' = "record" /\ IsNext(i)
  BY DEF RunAction
<1>2. PanesOK' /\ OneTerminalEach'
  BY <1>1 DEF OnceInv, PanesOK, OneTerminalEach, Live
<1>3. CASE sent' = sent
  BY <1>1, <1>2, <1>3
  DEF OnceInv, AtMostOncePerTerminal, DeliveriesAreBooked, Booked, InFlight
<1>4. CASE sent' # sent
  <2>1. t # NoTerminal /\ cfg.rules[i].once /\ outcome' # "fix"
        /\ sent' = [sent EXCEPT ![e] = IF @ < 2 THEN @ + 1 ELSE 2]
    BY <1>4 DEF RunAction, Delivered
  <2>2. visit.pane \in PaneIds /\ t \in Terminals /\ e \in RuleIds \X Terminals
    BY <2>1, NextRuleType DEF TypeOK, Visits, Rule
  <2>3. listed[visit.pane] = t /\ t \notin spare
    BY <2>1, <2>2 DEF TypeOK, OnceInv, PanesOK, Live
  <2>4. LedgerKey(i) = <<e[1], LedgerId(visit.pane, e[2])>>
    BY <2>3 DEF LedgerKey
  <2>5. LedgerKey(i) \notin ledger
    BY <1>1, <2>1, <2>4 DEF OnceInv, Spent
  <2>6. sent[e] = 0
    BY <1>1, <2>2, <2>4, <2>5 DEF OnceInv, DeliveriesAreBooked, Booked, InFlight
  <2>7. sent' = [sent EXCEPT ![e] = 1]
    BY <2>1, <2>2, <2>6 DEF TypeOK
  <2>8. AtMostOncePerTerminal'
    BY <2>2, <2>7 DEF OnceInv, AtMostOncePerTerminal, TypeOK
  <2>9. PICK key : key = LedgerKey(i) /\ InFlight(key)'
    BY <1>1, <2>1 DEF InFlight, IsNext, LedgerKey
  <2>10. DeliveriesAreBooked'
    <3> SUFFICES ASSUME NEW f \in RuleIds \X Terminals, sent'[f] # 0
                 PROVE  /\ f[2] \notin spare
                        /\ \A p \in PaneIds : terminal[p] = f[2] =>
                             LET k == <<f[1], LedgerId(p, f[2])>> IN k \in Booked' \/ InFlight(k)'
      BY <1>1, Zenon DEF DeliveriesAreBooked, LedgerId
    <3>1. CASE f = e
      <4>1. \A p \in PaneIds : terminal[p] = f[2] => p = visit.pane
        BY <2>1, <2>2, <3>1 DEF OnceInv, OneTerminalEach, Live
      <4>. QED  BY <2>3, <2>4, <2>9, <3>1, <4>1
    <3>2. CASE f # e
      BY <1>1, <2>2, <2>7, <3>2 DEF OnceInv, DeliveriesAreBooked, Booked, InFlight, TypeOK
    <3>. QED  BY <3>1, <3>2
  <2>11. OnceInv'
    BY <1>1, <1>2, <2>8, <2>10 DEF OnceInv
  <2>. QED  BY <2>2, <2>6, <2>7, <2>11
<1>. QED  BY <1>3, <1>4

LEMMA RecordOutcomeOnce ==
  ASSUME OnceInv, TypeOK, NEW i \in visit.rest, RecordOutcome(i)
  PROVE  OnceInv'
<1>1. /\ UNCHANGED <<terminal, issued, spare, listed, sent>>
      /\ pc = "record" /\ IsNext(i) /\ pc' \in {"visit", "evaluate"}
  BY DEF RecordOutcome, Consumes, RuleDone
<1>2. PanesOK' /\ OneTerminalEach' /\ AtMostOncePerTerminal'
  BY <1>1 DEF OnceInv, PanesOK, OneTerminalEach, AtMostOncePerTerminal, Live
<1>3. ledger \subseteq ledger'
  BY DEF RecordOutcome, Consumes
<1>4. ASSUME NEW e, InFlight(e)
      PROVE  e \in ledger'
  <2>1. PICK j \in visit.rest : IsNext(j) /\ cfg.rules[j].once /\ LedgerKey(j) = e
    BY <1>4 DEF InFlight
  <2>2. i = j
    BY <1>1, <2>1, ConfigType DEF IsNext, TypeOK
  <2>. QED  BY <1>4, <2>1, <2>2 DEF RecordOutcome, Consumes, InFlight
<1>5. DeliveriesAreBooked'
  BY <1>1, <1>3, <1>4 DEF OnceInv, DeliveriesAreBooked, Booked, LedgerId
<1>. QED  BY <1>1, <1>2, <1>5 DEF OnceInv

LEMMA OnceInductive ==
  ASSUME Reliable, DiskWorks => LedgerIsDurable, TypeOK, OnceInv, [Next]_vars
  PROVE  OnceInv'
<1>1. CASE Daemon
  BY <1>1, LoopOnce, PaneOnce, EvaluateOnce, RunActionOnce, RecordOutcomeOnce DEF Daemon
<1>2. CASE Environment
  BY <1>2, EnvironmentOnce
<1>3. CASE UNCHANGED vars
  BY <1>3 DEF vars, OnceInv, PanesOK, OneTerminalEach, AtMostOncePerTerminal,
              DeliveriesAreBooked, Booked, InFlight, IsNext, LedgerKey, Spent, Live
<1>. QED  BY <1>1, <1>2, <1>3 DEF Next

LEMMA OnceInvariant == ASSUME Reliable PROVE Spec => []OnceInv
<1>1. TypeOK /\ (DiskWorks => LedgerIsDurable) /\ OnceInv /\ [Next]_vars => OnceInv'
  BY OnceInductive
<1>. QED  BY <1>1, InitOnce, TypeCorrect, LedgerAndFile, PTL DEF Spec

\* On a reliable machine, a once rule is delivered at most once to a terminal between
\* two resets, through reloads, lost answers and closing panes, and through restarts
\* if the disk works or a disk that fails if there is no restart.
THEOREM OncePerTerminal == ASSUME Reliable PROVE Spec => []AtMostOncePerTerminal
<1>1. OnceInv => AtMostOncePerTerminal
  BY DEF OnceInv
<1>. QED  BY <1>1, OnceInvariant, PTL

\* Under the same conditions the daemon implements OnceSpec: each of its steps is
\* a first delivery, a reset, or nothing the specification sees.
THEOREM ImplementsOnceSpec == ASSUME Reliable PROVE Spec => FiresOnceUntilReset
<1>1. Init => Once!Init
  BY DEF Init, Once!Init
<1>2. TypeOK /\ OnceInv /\ [Next]_vars => [Once!Next]_sent
  <2> SUFFICES ASSUME TypeOK, OnceInv, [Next]_vars PROVE [Once!Next]_sent
    OBVIOUS
  <2> USE DEF Once!Next, Once!Fire, Once!Reset
  <2>1. CASE Daemon
    <3>1. CASE DrainReset
      BY <3>1 DEF DrainReset
    <3>2. ASSUME NEW i \in visit.rest, RunAction(i)
          PROVE  [Once!Next]_sent
      BY <3>2, RunActionOnce
    <3>3. ASSUME NEW i \in visit.rest, Evaluate(i) \/ RecordOutcome(i)
          PROVE  sent' = sent
      BY <3>3 DEF Evaluate, LatchFalls, StillLatched, LatchUnfired, HoldBack, Attempt,
                  RecordOutcome, Consumes
    <3>4. ASSUME NEW p \in PaneIds, ReadPane(p) \/ ReadFails(p)
          PROVE  sent' = sent
      BY <3>4 DEF ReadPane, ReadFails
    <3>5. CASE DrainReload \/ ListPanes \/ ListFails \/ EndPass
      BY <3>5 DEF DrainReload, ListPanes, ListFails, EndPass
    <3>. QED  BY <2>1, <3>1, <3>2, <3>3, <3>4, <3>5 DEF Daemon
  <2>2. CASE Environment
    BY <2>2 DEF Environment, Start, Exit, Crash, Gone, Tick, RestartHerdr, OpenPane,
                ClosePane, Redraw, SetLink, EditFile, SetUp, Signal
  <2>3. CASE UNCHANGED vars
    BY <2>3 DEF vars
  <2>. QED  BY <2>1, <2>2, <2>3 DEF Next
<1>. QED
  BY <1>1, <1>2, TypeCorrect, OnceInvariant, PTL DEF Spec, FiresOnceUntilReset, Once!Spec
----------------------------------------------------------------------------
(* What a pass keeps.                                                      *)

InPass == {"visit", "evaluate", "act", "record"}

LEMMA QuietKept ==
  ASSUME OnlyListedIsKept, UNCHANGED <<latched, known, retries, retryAfter, guard, ledger, listed>>,
         pc' \in InPass => pc \in InPass
  PROVE  OnlyListedIsKept'
BY DEF OnlyListedIsKept, InPass, Forgotten

\* The retain calls of a pass: what is kept is kept for a live pane.
LEMMA ListPanesKept == ASSUME TypeOK, ListPanes PROVE OnlyListedIsKept'
<1> DEFINE live == {p \in PaneIds : Live(p)}
<1>1. listed' = terminal /\ ledger' = {e \in ledger : e[2] \in {LedgerId(p, terminal[p]) : p \in live}}
  BY DEF ListPanes
<1>2. ASSUME NEW p \in PaneIds, listed'[p] = NoTerminal
      PROVE  Forgotten(p)'
  <2> SUFFICES ASSUME NEW k \in RuleIds \X {p}
               PROVE  /\ latched'[k] = NoLine /\ k \notin known'
                      /\ retries'[k] = 0 /\ retryAfter'[k] = 0
                      /\ guard'.last[k] = NeverFired
    BY DEF Forgotten
  <2>1. k \in Keys /\ k[2] = p /\ p \notin live
    BY <1>1, <1>2 DEF Keys, Live
  <2>2. latched'[k] = NoLine /\ k \notin known' /\ retries'[k] = 0 /\ retryAfter'[k] = 0
    BY <2>1 DEF ListPanes
  <2>3. guard' = RetainPanes(guard, live)
    BY DEF ListPanes
  <2>4. guard'.last = [j \in Keys |-> IF j[2] \in live THEN guard.last[j] ELSE NeverFired]
    BY <2>3 DEF RetainPanes, Guards, TypeOK
  <2>. QED  BY <2>1, <2>2, <2>4
<1>3. \A e \in ledger' : \E p \in PaneIds :
        listed'[p] # NoTerminal /\ e[2] = LedgerId(p, listed'[p])
  BY <1>1 DEF Live
<1>. QED  BY <1>2, <1>3 DEF OnlyListedIsKept, LedgerId

\* Evaluating a rule touches the state of the pane visited, which is listed.
LEMMA EvaluateKept ==
  ASSUME TypeOK, OnlyListedIsKept, NEW i \in visit.rest, Evaluate(i)
  PROVE  OnlyListedIsKept'
<1>1. /\ UNCHANGED <<retries, retryAfter, guard, ledger, listed>>
      /\ pc = "evaluate" /\ known' = known \cup {Key(i)}
      /\ latched' = latched \/ \E line : latched' = [latched EXCEPT ![Key(i)] = line]
  BY DEF Evaluate, LatchFalls, StillLatched, LatchUnfired, HoldBack, Attempt, Evaluated
<1>2. visit.pane \in PaneIds /\ listed[visit.pane] # NoTerminal
  BY DEF TypeOK
<1>3. ASSUME NEW p \in PaneIds, listed[p] = NoTerminal
      PROVE  Forgotten(p)'
  <2>1. Forgotten(p) /\ \A k \in RuleIds \X {p} : k \in Keys /\ k # Key(i)
    BY <1>1, <1>2, <1>3 DEF OnlyListedIsKept, Key, Keys
  <2>2. \A k \in RuleIds \X {p} : latched'[k] = latched[k]
    BY <1>1, <2>1 DEF TypeOK
  <2>. QED  BY <1>1, <2>1, <2>2 DEF Forgotten
<1>. QED  BY <1>1, <1>3 DEF OnlyListedIsKept

LEMMA RecordOutcomeKept ==
  ASSUME TypeOK, OnlyListedIsKept, NEW i \in visit.rest, RecordOutcome(i)
  PROVE  OnlyListedIsKept'
<1>1. /\ UNCHANGED <<known, listed>> /\ pc = "record"
      /\ ledger' \in {ledger, ledger \cup {LedgerKey(i)}}
      /\ latched' = latched \/ latched' = [latched EXCEPT ![Key(i)] = Found(i)]
      /\ \E n : retries' = [retries EXCEPT ![Key(i)] = n]
      /\ \E n : retryAfter' = [retryAfter EXCEPT ![Key(i)] = n]
  BY DEF RecordOutcome, Consumes
<1>2. visit.pane \in PaneIds /\ listed[visit.pane] # NoTerminal
  BY DEF TypeOK
<1>3. \A k \in Keys : k # Key(i) => guard'.last[k] = guard.last[k]
  <2>1. \/ guard' = Record(guard, Key(i), Found(i))
        \/ guard' = RecordWrite(Record(guard, Key(i), Found(i)), cfg.rules[i].id)
    BY DEF RecordOutcome, Consumes
  <2>2. ASSUME NEW g \in Guards, NEW r
        PROVE  RecordWrite(g, r).last = g.last
    BY <2>2 DEF RecordWrite, Guards
  <2>3. ASSUME NEW k \in Keys, k # Key(i)
        PROVE  Record(guard, Key(i), Found(i)).last[k] = guard.last[k]
    BY <2>3, NextRuleType DEF Record, Guards, TypeOK
  <2>4. Record(guard, Key(i), Found(i)) \in Guards
    BY NextRuleType, RecordType DEF TypeOK
  <2>. QED  BY <2>1, <2>2, <2>3, <2>4
<1>4. ASSUME NEW p \in PaneIds, listed[p] = NoTerminal
      PROVE  Forgotten(p)'
  <2>1. Forgotten(p) /\ \A k \in RuleIds \X {p} : k \in Keys /\ k # Key(i)
    BY <1>1, <1>2, <1>4 DEF OnlyListedIsKept, Key, Keys
  <2>2. \A k \in RuleIds \X {p} : /\ latched'[k] = latched[k] /\ retries'[k] = retries[k]
                                  /\ retryAfter'[k] = retryAfter[k]
                                  /\ guard'.last[k] = guard.last[k]
    BY <1>1, <1>3, <2>1 DEF TypeOK
  <2>. QED  BY <1>1, <2>1, <2>2 DEF Forgotten
<1>5. \A e \in ledger' : \E p \in PaneIds :
        listed[p] # NoTerminal /\ e[2] = LedgerId(p, listed[p])
  BY <1>1, <1>2 DEF OnlyListedIsKept, LedgerKey
<1>. QED  BY <1>1, <1>4, <1>5 DEF OnlyListedIsKept

LEMMA TickKept == ASSUME TypeOK, OnlyListedIsKept, Tick PROVE OnlyListedIsKept'
<1>1. /\ UNCHANGED <<pc, latched, known, retries, ledger, listed>>
      /\ guard' = Elapse(guard)
      /\ retryAfter' = [k \in Keys |-> IF retryAfter[k] > 0 THEN retryAfter[k] - 1 ELSE 0]
  BY DEF Tick
<1>2. ASSUME NEW k \in Keys, guard.last[k] = NeverFired
      PROVE  guard'.last[k] = NeverFired
  <2>1. guard'.last[k] = [line |-> guard.last[k].line, age |-> Older(guard.last[k].age)]
    BY <1>1 DEF Elapse
  <2>2. guard.last[k].line = NoLine /\ guard.last[k].age = AgeCap
    BY <1>2 DEF NeverFired
  <2>3. Older(AgeCap) = AgeCap
    BY AgeAssumption DEF Older
  <2>. QED  BY <2>1, <2>2, <2>3 DEF NeverFired
<1>3. \A p \in PaneIds : Forgotten(p) => Forgotten(p)'
  BY <1>1, <1>2 DEF Forgotten, Keys
<1>. QED  BY <1>1, <1>3 DEF OnlyListedIsKept

\* Within a pass nothing is remembered of a pane or a terminal that was not in its
\* list, whatever the faults, the signals and the configurations.
THEOREM KeepsOnlyListed == Spec => []OnlyListedIsKept
<1>1. Init => OnlyListedIsKept
  BY DEF Init, OnlyListedIsKept
<1>2. TypeOK /\ OnlyListedIsKept /\ [Next]_vars => OnlyListedIsKept'
  <2> SUFFICES ASSUME TypeOK, OnlyListedIsKept, [Next]_vars PROVE OnlyListedIsKept'
    OBVIOUS
  <2>1. CASE Daemon
    <3>1. CASE DrainReload \/ DrainReset \/ ListFails \/ EndPass
      BY <3>1 DEF DrainReload, DrainReset, ListFails, EndPass, OnlyListedIsKept
    <3>2. ASSUME NEW p \in PaneIds, ReadPane(p) \/ ReadFails(p)
          PROVE  OnlyListedIsKept'
      BY <3>2, QuietKept DEF ReadPane, ReadFails, InPass
    <3>3. ASSUME NEW i \in visit.rest, RunAction(i)
          PROVE  OnlyListedIsKept'
      BY <3>3, QuietKept DEF RunAction, InPass
    <3>. QED  BY <2>1, <3>1, <3>2, <3>3, ListPanesKept, EvaluateKept, RecordOutcomeKept DEF Daemon
  <2>2. CASE Start \/ Exit \/ Crash
    BY <2>2 DEF Start, Exit, Crash, Gone, OnlyListedIsKept
  <2>3. CASE Environment /\ ~ (Start \/ Exit \/ Crash \/ Tick)
    BY <2>3, QuietKept DEF Environment, RestartHerdr, OpenPane, ClosePane, Redraw, SetLink,
                           EditFile, SetUp, Signal
  <2>4. CASE UNCHANGED vars
    BY <2>4, QuietKept DEF vars
  <2>. QED  BY <2>1, <2>2, <2>3, <2>4, TickKept DEF Next, Environment
<1>. QED  BY <1>1, <1>2, TypeCorrect, PTL DEF Spec
=============================================================================
