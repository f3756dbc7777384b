------------------------ MODULE Inheritance_proofs ------------------------
(***************************************************************************)
(* A terminal that takes over a public pane id takes over nothing else:    *)
(* what its daemon believes to have fired there was delivered there.       *)
(***************************************************************************)
EXTENDS TriggerEngine_proofs

USE DEF OneTerminalEach

\* Terminals never come back, so what was delivered or gone stays so.
LEMMA StillDelivered ==
  ASSUME NEW e \in RuleIds \X Terminals, WasDelivered(e), spare' \subseteq spare,
         \A p \in PaneIds : terminal'[p] \in {terminal[p], NoTerminal} \cup spare,
         sent[e] # 0 => sent'[e] # 0
  PROVE  WasDelivered(e)'
<1>1. e[2] \in Terminals /\ e[2] # NoTerminal /\ e[2] \notin spare'
  BY EngineAssumption DEF WasDelivered
<1>2. CASE sent[e] # 0
  BY <1>1, <1>2 DEF WasDelivered
<1>3. CASE \A p \in PaneIds : terminal[p] # e[2]
  BY <1>1, <1>3 DEF WasDelivered
<1>. QED  BY <1>2, <1>3 DEF WasDelivered

LEMMA InitInherit == Answering /\ Init => InheritInv
BY EngineAssumption
DEF Init, InheritInv, NoTerminals, Live, InFlight

\* A step that opens no pane, books nothing and delivers nothing keeps it.
LEMMA QuietInherit ==
  ASSUME TypeOK, InheritInv, link' = link, spare' = spare, sent' = sent,
         listed' = listed \/ listed' = NoTerminals,
         \A p \in PaneIds : terminal'[p] \in {terminal[p], NoTerminal},
         ledger' \cup disk' \subseteq ledger \cup disk,
         \A e \in RuleIds \X Terminals : InFlight(e)' => InFlight(e)
  PROVE  InheritInv'
<1>1. ASSUME NEW e \in RuleIds \X Terminals, WasDelivered(e)
      PROVE  WasDelivered(e)'
  BY <1>1, StillDelivered
<1>2. NoTerminal \notin spare
  BY EngineAssumption DEF TypeOK
<1>3. \A p \in PaneIds : listed'[p] \in {listed[p], NoTerminal}
  BY DEF NoTerminals
<1>4. (link = "up")'
  BY DEF InheritInv
<1>5. \A p \in PaneIds : listed'[p] \notin spare' /\ (Live(p)' => terminal'[p] \notin spare')
  BY <1>2, <1>3 DEF InheritInv, Live
<1>6. \A p, q \in PaneIds : Live(p)' /\ terminal'[p] = terminal'[q] => p = q
  BY DEF InheritInv, Live
<1>7. \A p, q \in PaneIds :
        listed'[p] # NoTerminal /\ terminal'[q] = listed'[p] => q = p
  BY <1>3 DEF InheritInv
<1>8. \A e \in ledger' \cup disk' : e \in RuleIds \X Terminals /\ WasDelivered(e)'
  BY <1>1 DEF InheritInv
<1>9. \A e \in RuleIds \X Terminals : InFlight(e)' => WasDelivered(e)'
  BY <1>1 DEF InheritInv
<1>. QED  BY <1>4, <1>5, <1>6, <1>7, <1>8, <1>9 DEF InheritInv

LEMMA GoneInherit ==
  ASSUME TypeOK, InheritInv, Gone
  PROVE  InheritInv'
<1>1. UNCHANGED <<link, terminal, spare, disk, sent>> /\ ledger' = {} /\ pc' = "down"
      /\ listed' = NoTerminals
  BY DEF Gone, herdrVars
<1>. QED  BY <1>1, QuietInherit DEF InFlight

LEMMA OpenPaneInherit ==
  ASSUME TypeOK, InheritInv,
         NEW p \in PaneIds, NEW t \in Terminals, NEW s \in Texts, OpenPane(p, t, s)
  PROVE  InheritInv'
<1>1. /\ UNCHANGED <<link, listed, ledger, disk, sent, pc, visit, outcome, cfg>>
      /\ t \in spare /\ spare' = spare \ {t} /\ terminal' = [terminal EXCEPT ![p] = t]
  BY DEF OpenPane, passVars, histVars
<1>2. \A q \in PaneIds : terminal'[q] = IF q = p THEN t ELSE terminal[q]
  BY <1>1 DEF TypeOK
<1>3. ASSUME NEW e \in RuleIds \X Terminals, WasDelivered(e)
      PROVE  WasDelivered(e)'
  BY <1>1, <1>2, <1>3, StillDelivered
<1>4. \A q \in PaneIds : listed'[q] \notin spare' /\ (Live(q)' => terminal'[q] \notin spare')
  BY <1>1, <1>2 DEF InheritInv, Live
<1>5. \A q, r \in PaneIds : Live(q)' /\ terminal'[q] = terminal'[r] => q = r
  BY <1>1, <1>2 DEF InheritInv, Live
<1>6. \A q, r \in PaneIds : listed'[q] # NoTerminal /\ terminal'[r] = listed'[q] => r = q
  BY <1>1, <1>2 DEF InheritInv
<1>7. \A e \in ledger' \cup disk' : e \in RuleIds \X Terminals /\ WasDelivered(e)'
  BY <1>1, <1>3 DEF InheritInv
<1>8. \A e \in RuleIds \X Terminals : InFlight(e)' => WasDelivered(e)'
  BY <1>1, <1>3 DEF InheritInv, InFlight, IsNext, LedgerKey
<1>. QED  BY <1>1, <1>4, <1>5, <1>6, <1>7, <1>8 DEF InheritInv

LEMMA EnvironmentInherit ==
  ASSUME Answering, TypeOK, InheritInv, Environment
  PROVE  InheritInv'
<1>1. CASE Start
  <2>1. UNCHANGED <<link, terminal, spare, disk, sent, listed>> /\ ledger' = disk
        /\ pc' = "drain_reload"
    BY <1>1 DEF Start, herdrVars, passVars, histVars
  <2>. QED  BY <2>1, QuietInherit DEF InFlight
<1>2. CASE Exit \/ Crash
  BY <1>2, GoneInherit DEF Exit, Crash
<1>3. CASE \E p \in PaneIds, t \in Terminals, s \in Texts : OpenPane(p, t, s)
  BY <1>3, OpenPaneInherit
<1>4. CASE RestartHerdr
  <2>1. /\ UNCHANGED <<link, spare, disk, sent, listed, ledger, pc, cfg, visit, outcome>>
        /\ terminal' = NoTerminals
    BY <1>4 DEF RestartHerdr, passVars
  <2>. QED  BY <2>1, QuietInherit DEF NoTerminals, InFlight, IsNext, LedgerKey
<1>5. CASE \E p \in PaneIds : ClosePane(p)
  <2>1. PICK p \in PaneIds : ClosePane(p)
    BY <1>5
  <2>2. /\ UNCHANGED <<link, spare, disk, sent, listed, ledger, pc, cfg, visit, outcome>>
        /\ terminal' = [terminal EXCEPT ![p] = NoTerminal]
    BY <2>1 DEF ClosePane, passVars
  <2>3. \A q \in PaneIds : terminal'[q] \in {terminal[q], NoTerminal}
    BY <2>2 DEF TypeOK
  <2>. QED  BY <2>2, <2>3, QuietInherit DEF InFlight, IsNext, LedgerKey
<1>6. CASE \E l \in {"up", "flaky", "down"} : SetLink(l)
  BY <1>6 DEF SetLink, Answering, InheritInv
<1>7. CASE \/ Tick
           \/ \E p \in PaneIds, s \in Texts : Redraw(p, s)
           \/ \E f \in Files : EditFile(f)
           \/ \E b \in BOOLEAN : SetUp(b)
           \/ \E sig \in Signals : Signal(sig)
  <2>1. UNCHANGED <<link, terminal, spare, disk, sent, listed, ledger, pc, cfg, visit,
                    outcome>>
    BY <1>7 DEF Tick, Redraw, EditFile, SetUp, Signal, herdrVars, passVars, histVars
  <2>. QED  BY <2>1, QuietInherit DEF InFlight, IsNext, LedgerKey
<1>. QED  BY Zenon, <1>1, <1>2, <1>3, <1>4, <1>5, <1>6, <1>7 DEF Environment

LEMMA LoopInherit ==
  ASSUME Answering, TypeOK, InheritInv,
         \/ DrainReload \/ DrainReset \/ ListPanes \/ ListFails \/ EndPass
         \/ \E p \in PaneIds : ReadPane(p) \/ ReadFails(p)
  PROVE  InheritInv'
<1>1. CASE DrainReset /\ "reset" \in flags
  <2>1. "disk" \notin Faults
    BY <1>1 DEF Answering, TypeOK
  <2>2. /\ UNCHANGED <<link, terminal, spare, listed>>
        /\ ledger' = {} /\ disk' = {} /\ pc' \in {"drain_reload", "list"}
    BY <1>1, <2>1 DEF DrainReset, Persist, herdrVars, passVars
  <2>3. \A e \in RuleIds \X Terminals : ~ InFlight(e)'
    BY <2>2 DEF InFlight
  <2>4. \A e \in ledger' \cup disk' : e \in RuleIds \X Terminals /\ WasDelivered(e)'
    BY <2>2
  <2>. QED  BY <2>2, <2>3, <2>4 DEF InheritInv, Live
<1>2. CASE ListPanes
  <2>1. /\ UNCHANGED <<link, terminal, spare, sent>> /\ pc' = "visit"
        /\ listed' = terminal /\ ledger' \subseteq ledger
        /\ disk' = ledger' \/ disk' = disk
    BY <1>2 DEF ListPanes, Persist, herdrVars, histVars
  <2>2. ledger' \cup disk' \subseteq ledger \cup disk
    BY <2>1
  <2>3. ASSUME NEW e \in RuleIds \X Terminals, WasDelivered(e)
        PROVE  WasDelivered(e)'
    BY <2>1, <2>3 DEF WasDelivered
  <2>4. \A p \in PaneIds : terminal[p] \notin spare
    BY EngineAssumption DEF InheritInv, Live, TypeOK
  <2>5. \A e \in ledger' \cup disk' : e \in RuleIds \X Terminals /\ WasDelivered(e)'
    BY <2>2, <2>3 DEF InheritInv
  <2>. QED  BY <2>1, <2>4, <2>5 DEF InheritInv, InFlight, Live
<1>3. CASE ~ ListPanes /\ ~ (DrainReset /\ "reset" \in flags)
  <2>1. /\ UNCHANGED <<link, terminal, spare, disk, sent, ledger>>
        /\ listed' = listed \/ listed' = NoTerminals
        /\ pc' # "record"
    BY <1>3 DEF DrainReload, DrainReset, ListFails, EndPass, ReadPane, ReadFails,
                herdrVars, passVars, histVars
  <2>. QED  BY <2>1, QuietInherit DEF InFlight
<1>. QED  BY <1>1, <1>2, <1>3

LEMMA EvaluateInherit ==
  ASSUME TypeOK, InheritInv, NEW i \in visit.rest, Evaluate(i)
  PROVE  InheritInv'
<1>1. UNCHANGED <<link, terminal, spare, disk, sent, ledger, listed>>
  BY DEF Evaluate, LatchFalls, StillLatched, LatchUnfired, HoldBack, Attempt, Unmoved,
         herdrVars, histVars
<1>2. pc' # "record"
  BY DEF Evaluate, LatchFalls, StillLatched, LatchUnfired, HoldBack, Attempt, RuleDone
<1>. QED  BY <1>1, <1>2, QuietInherit DEF InFlight

\* herdr answers: unless there is something to fix, the terminal listed gets the
\* delivery, or it is behind no pane any more.
LEMMA RunActionInherit ==
  ASSUME Answering, TypeOK, InheritInv, NEW i \in visit.rest, RunAction(i)
  PROVE  InheritInv'
<1> DEFINE t == terminal[visit.pane]
           k == <<cfg.rules[i].id, t>>
<1>1. /\ UNCHANGED <<link, terminal, spare, disk, ledger, listed, visit, cfg>>
      /\ pc = "act" /\ IsNext(i) /\ link = "up"
      /\ sent' = sent \/ Delivered(i)
  BY DEF RunAction, herdrVars, InheritInv
<1>2. /\ visit.pane \in PaneIds /\ listed[visit.pane] \in Terminals
      /\ cfg.rules[i] \in Rule
  BY NextRuleType DEF TypeOK, Visits
<1>3. ASSUME NEW e \in RuleIds \X Terminals, sent[e] # 0
      PROVE  sent'[e] # 0
  <2>1. sent[e] \in 1..2
    BY <1>3 DEF TypeOK
  <2>2. CASE sent' = sent
    BY <1>3, <2>2
  <2>3. CASE sent' # sent
    <3>1. sent' = [sent EXCEPT ![k] = IF @ < 2 THEN @ + 1 ELSE 2]
      BY <1>1, <2>3 DEF Delivered
    <3>2. sent'[e] \in {sent[e], IF sent[e] < 2 THEN sent[e] + 1 ELSE 2}
      BY <3>1 DEF TypeOK
    <3>. QED  BY <2>1, <3>2
  <2>. QED  BY <2>2, <2>3
<1>4. ASSUME NEW e \in RuleIds \X Terminals, WasDelivered(e)
      PROVE  WasDelivered(e)'
  BY <1>1, <1>3, <1>4, StillDelivered
<1>5. ASSUME NEW e \in RuleIds \X Terminals, InFlight(e)'
      PROVE  WasDelivered(e)'
  <2>1. PICK j \in visit.rest : IsNext(j) /\ cfg.rules[j].once /\ LedgerKey(j) = e
    BY <1>1, <1>5 DEF InFlight, IsNext, LedgerKey
  <2>2. i = j
    BY <1>1, <2>1, ConfigType DEF IsNext, TypeOK
  <2>3. outcome' # "fix" /\ cfg.rules[i].once
    BY <1>5, <2>1, <2>2 DEF InFlight
  <2>4. e = <<cfg.rules[i].id, listed[visit.pane]>>
    BY <2>1, <2>2 DEF LedgerKey, LedgerId, Answering
  <2>5. e[2] \notin spare'
    BY <1>1, <1>2, <2>4 DEF InheritInv
  <2>6. CASE t # listed[visit.pane]
    <3>1. \A p \in PaneIds : terminal[p] # listed[visit.pane]
      BY <1>2, <2>6, EngineAssumption DEF InheritInv
    <3>. QED  BY <1>1, <2>4, <2>5, <3>1 DEF WasDelivered
  <2>7. CASE t = listed[visit.pane]
    <3>1. t \in Terminals /\ t # NoTerminal /\ Live(visit.pane)
      BY <1>2, <2>7, EngineAssumption DEF Live
    <3>2. Delivered(i)
      BY <1>1, <2>3, <3>1 DEF RunAction
    <3>3. sent' = [sent EXCEPT ![k] = IF @ < 2 THEN @ + 1 ELSE 2] /\ e = k
      BY <2>3, <2>4, <2>7, <3>1, <3>2 DEF Delivered
    <3>4. sent[e] \in 0..2 /\ sent' = [sent EXCEPT ![e] = IF sent[e] < 2 THEN sent[e] + 1 ELSE 2]
      BY <3>3 DEF TypeOK
    <3>5. sent'[e] # 0
      BY <3>4 DEF TypeOK
    <3>. QED  BY <2>5, <3>5 DEF WasDelivered
  <2>. QED  BY <2>6, <2>7
<1>6. \A e \in ledger' \cup disk' : e \in RuleIds \X Terminals /\ WasDelivered(e)'
  BY <1>1, <1>4 DEF InheritInv
<1>. QED  BY <1>1, <1>5, <1>6 DEF InheritInv, Live

\* What is booked now was in flight.
LEMMA RecordOutcomeInherit ==
  ASSUME Answering, TypeOK, InheritInv, NEW i \in visit.rest, RecordOutcome(i)
  PROVE  InheritInv'
<1>1. /\ UNCHANGED <<link, terminal, spare, sent, listed>>
      /\ pc = "record" /\ IsNext(i) /\ pc' \in {"visit", "evaluate"}
  BY DEF RecordOutcome, RuleDone, herdrVars
<1>2. ASSUME NEW e \in RuleIds \X Terminals, WasDelivered(e)
      PROVE  WasDelivered(e)'
  BY <1>1, <1>2 DEF WasDelivered
<1>3. ASSUME NEW e \in ledger' \cup disk'
      PROVE  e \in RuleIds \X Terminals /\ WasDelivered(e)'
  <2>1. CASE e \in ledger \cup disk
    BY <1>2, <2>1 DEF InheritInv
  <2>2. CASE e \notin ledger \cup disk
    <3>1. cfg.rules[i].once /\ Consumes /\ ledger' = ledger \cup {LedgerKey(i)}
          /\ (disk' = ledger' \/ disk' = disk)
      BY <1>3, <2>2 DEF RecordOutcome, Persist
    <3>2. e = LedgerKey(i)
      BY <1>3, <2>2, <3>1
    <3>3. e \in RuleIds \X Terminals
      <4>1. visit.pane \in PaneIds /\ listed[visit.pane] \in Terminals
        BY DEF TypeOK, Visits
      <4>2. cfg.rules[i].id \in RuleIds
        BY NextRuleType DEF Rule
      <4>. QED  BY <3>2, <4>1, <4>2 DEF LedgerKey, LedgerId, Answering
    <3>4. InFlight(e)
      BY <1>1, <3>1, <3>2 DEF InFlight, Consumes
    <3>. QED  BY <1>2, <3>3, <3>4 DEF InheritInv
  <2>. QED  BY <2>1, <2>2
<1>4. \A e \in RuleIds \X Terminals : ~ InFlight(e)'
  BY <1>1 DEF InFlight
<1>. QED  BY <1>1, <1>3, <1>4 DEF InheritInv, Live

LEMMA InheritInductive == Answering /\ TypeOK /\ InheritInv /\ [Next]_vars => InheritInv'
<1> SUFFICES ASSUME Answering, TypeOK, InheritInv, [Next]_vars PROVE InheritInv'
  OBVIOUS
<1>1. CASE Daemon
  BY <1>1, LoopInherit, EvaluateInherit, RunActionInherit, RecordOutcomeInherit DEF Daemon
<1>2. CASE Environment
  BY <1>2, EnvironmentInherit
<1>3. CASE UNCHANGED vars
  <2>1. UNCHANGED <<link, terminal, spare, disk, sent, listed, ledger, pc, cfg, visit,
                    outcome>>
    BY <1>3 DEF vars, herdrVars, passVars, histVars
  <2>. QED  BY <2>1, QuietInherit DEF InFlight, IsNext, LedgerKey
<1>. QED  BY <1>1, <1>2, <1>3 DEF Next

\* A rule is spent only on a terminal it was delivered to, however often herdr is
\* relaunched and its pane ids start over: the ledger goes by terminal ids. It takes
\* a herdr that answers, and a disk that works if there are resets.
THEOREM NothingInherited == ASSUME Answering PROVE Spec => []InheritsNothing
<1>1. TypeOK /\ InheritInv => InheritsNothing
  <2> SUFFICES ASSUME TypeOK, InheritInv, NEW i \in visit.rest, Spent(i),
                      terminal[visit.pane] = listed[visit.pane]
               PROVE  sent[<<cfg.rules[i].id, listed[visit.pane]>>] # 0
    BY DEF InheritsNothing
  <2>1. LedgerKey(i) = <<cfg.rules[i].id, listed[visit.pane]>> /\ LedgerKey(i) \in ledger
    BY DEF Spent, LedgerKey, LedgerId, Answering
  <2>2. visit.pane \in PaneIds
    BY DEF TypeOK, Visits
  <2>. QED  BY <2>1, <2>2 DEF InheritInv, WasDelivered
<1>2. Init => InheritInv
  BY InitInherit
<1>3. TypeOK /\ InheritInv /\ [Next]_vars => InheritInv'
  BY InheritInductive
<1>. QED  BY <1>1, <1>2, <1>3, TypeCorrect, PTL DEF Spec
============================================================================
