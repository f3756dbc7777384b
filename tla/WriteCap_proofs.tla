-------------------------- MODULE WriteCap_proofs --------------------------
(***************************************************************************)
(* No rule that writes is fired more often in a second than the            *)
(* configuration allows, whatever the rules, the faults and the panes.     *)
(***************************************************************************)
EXTENDS TriggerEngine_proofs, FunctionTheorems

----------------------------------------------------------------------------
(* What the guard's methods do to the writes of the last second.           *)

LEMMA LiveFinite ==
  ASSUME NEW window \in Seq(0..AgeCap)
  PROVE  /\ LiveWrites(window) \subseteq 1..Len(window)
         /\ IsFiniteSet(LiveWrites(window)) /\ Cardinality(LiveWrites(window)) \in Nat
<1>1. DOMAIN window = 1..Len(window) /\ Len(window) \in Nat
  BY LenProperties
<1>2. LiveWrites(window) \in SUBSET (1..Len(window))
  BY <1>1 DEF LiveWrites
<1>3. IsFiniteSet(1..Len(window))
  BY <1>1, FS_Interval
<1>4. IsFiniteSet(LiveWrites(window))
  BY <1>2, <1>3, FS_Subset
<1>. QED  BY <1>2, <1>4, FS_CardinalityType

\* A set that contains 1..n has n elements at least; one within 1..n, n at most.
LEMMA IntervalCounts ==
  ASSUME NEW S, IsFiniteSet(S), NEW n \in Nat, \A m \in 1..n : m \in S
  PROVE  n <= Cardinality(S)
<1>1. Cardinality(1..n) = n
  <2>1. Cardinality(1..n) = IF 1 > n THEN 0 ELSE n - 1 + 1
    BY FS_Interval, SMT
  <2>. QED  BY <2>1
<1>. QED  BY <1>1, FS_Subset

LEMMA SubInterval ==
  ASSUME NEW n \in Nat, NEW S, S \subseteq 1..n
  PROVE  IsFiniteSet(S) /\ Cardinality(S) \in 0..n
<1>1. IsFiniteSet(1..n) /\ Cardinality(1..n) = IF 1 > n THEN 0 ELSE n - 1 + 1
  BY FS_Interval, SMT
<1>2. IsFiniteSet(S) /\ Cardinality(S) <= Cardinality(1..n)
  BY <1>1, FS_Subset
<1>. QED  BY <1>1, <1>2, FS_CardinalityType

\* Nothing is live in an empty window.
LEMMA NothingLive == Cardinality(LiveWrites(<< >>)) = 0
<1>1. LiveWrites(<< >>) = {}
  BY DEF LiveWrites
<1>. QED  BY <1>1, FS_EmptySet

\* A window grows old: what is live after a tick was live before.
LEMMA LiveShrinks ==
  ASSUME NEW g \in Guards, NEW r \in RuleIds
  PROVE  Cardinality(LiveWrites(Elapse(g).writes[r])) <= Cardinality(LiveWrites(g.writes[r]))
<1> DEFINE w == g.writes[r]
           v == Elapse(g).writes[r]
<1>1. w \in Seq(0..AgeCap)
  BY DEF Guards
<1>2. DOMAIN w = 1..Len(w) /\ v = [n \in 1..Len(w) |-> Older(w[n])]
  BY <1>1, LenProperties DEF Elapse
<1>3. ASSUME NEW n \in 1..Len(w), Older(w[n]) < Second
      PROVE  w[n] < Second
  <2>1. w[n] \in 0..AgeCap
    BY <1>1, ElementOfSeq
  <2>. QED  BY <2>1, <1>3, AgeAssumption DEF Older
<1>4. LiveWrites(v) \in SUBSET LiveWrites(w)
  BY <1>2, <1>3 DEF LiveWrites
<1>. QED  BY <1>1, <1>4, LiveFinite, FS_Subset

\* What is popped is not counted, and the write just recorded counts one.
LEMMA LiveGrows ==
  ASSUME NEW g \in Guards, NEW r \in RuleIds
  PROVE  Cardinality(LiveWrites(RecordWrite(g, r).writes[r])) <=
           Cardinality(LiveWrites(g.writes[r])) + 1
<1> DEFINE w == g.writes[r]
           s == Cardinality(Stale(w))
           u == Popped(w)
           v == Append(u, 0)
           m == Len(u)
<1>1. w \in Seq(0..AgeCap)
  BY DEF Guards
<1>2. RecordWrite(g, r).writes[r] = v
  BY DEF RecordWrite, Guards
<1>3. u \in Seq(0..AgeCap)
  BY <1>1, PoppedType
<1>4. Len(w) \in Nat /\ DOMAIN w = 1..Len(w) /\ m \in Nat
  BY <1>1, <1>3, LenProperties
<1>5. s \in Nat
  <2>1. IsFiniteSet(1..Len(w))
    <3>1. 1 \in Int /\ Len(w) \in Int
      BY <1>4
    <3> HIDE DEF w
    <3>. QED  BY <3>1, FS_Interval
  <2>2. Stale(w) \in SUBSET (1..Len(w))
    BY DEF Stale
  <2>3. IsFiniteSet(Stale(w))
    BY <2>1, <2>2, FS_Subset
  <2>. QED  BY <2>3, FS_CardinalityType
<1>6. \A n \in 1..m : n + s \in 1..Len(w) /\ u[n] = w[n + s]
  <2>1. ASSUME NEW n \in (s + 1)..Len(w)
        PROVE  w[n] \in 0..AgeCap
    <3>1. n \in 1..Len(w)
      BY <1>4, <1>5
    <3>. QED  BY <1>1, <3>1, ElementOfSeq
  <2>2. s + 1 \in Int /\ Len(w) \in Int
    BY <1>4, <1>5
  <2>3. /\ m = IF s + 1 <= Len(w) THEN Len(w) - (s + 1) + 1 ELSE 0
        /\ \A n \in 1..(Len(w) - (s + 1) + 1) : u[n] = w[(s + 1) + n - 1]
    BY <2>1, <2>2, SubSeqProperties DEF Popped
  <2> SUFFICES ASSUME NEW n \in 1..m PROVE n + s \in 1..Len(w) /\ u[n] = w[n + s]
    OBVIOUS
  <2>4. n \in 1..(Len(w) - (s + 1) + 1) /\ (s + 1) + n - 1 = n + s
    BY <1>4, <1>5, <2>3
  <2>5. u[n] = w[(s + 1) + n - 1]
    BY <2>3, <2>4
  <2>. QED  BY <1>4, <1>5, <2>4, <2>5
<1>7. LiveWrites(v) \subseteq LiveWrites(u) \cup {m + 1}
  <2>1. Len(v) = m + 1 /\ (\A n \in 1..m : v[n] = u[n]) /\ DOMAIN v = 1..(m + 1)
    BY <1>3, <1>4, AgeAssumption, AppendProperties, LenProperties
  <2>2. DOMAIN u = 1..m
    BY <1>3, LenProperties
  <2>. QED  BY <1>4, <2>1, <2>2 DEF LiveWrites
<1>8. Cardinality(LiveWrites(u)) <= Cardinality(LiveWrites(w))
  <2> DEFINE f == [n \in LiveWrites(u) |-> n + s]
  <2>1. LiveWrites(u) \subseteq 1..m
    BY <1>3, LiveFinite
  <2>2. \A n \in LiveWrites(u) : n + s \in LiveWrites(w)
    BY <1>4, <1>6, <2>1 DEF LiveWrites
  <2>3. \A a, b \in LiveWrites(u) : a + s = b + s => a = b
    BY <1>4, <1>5, <2>1
  <2>4. f \in Injection(LiveWrites(u), LiveWrites(w))
    BY <2>2, <2>3 DEF Injection, IsInjective
  <2>. QED  BY <1>1, <2>4, LiveFinite, FS_Injection
<1>9. IsFiniteSet(LiveWrites(u) \cup {m + 1})
      /\ Cardinality(LiveWrites(u) \cup {m + 1}) <= Cardinality(LiveWrites(u)) + 1
  <2>1. IsFiniteSet(LiveWrites(u)) /\ Cardinality(LiveWrites(u)) \in Nat
    BY <1>3, LiveFinite
  <2>2. /\ IsFiniteSet(LiveWrites(u) \cup {m + 1})
        /\ Cardinality(LiveWrites(u) \cup {m + 1}) =
             IF m + 1 \in LiveWrites(u) THEN Cardinality(LiveWrites(u))
                                       ELSE Cardinality(LiveWrites(u)) + 1
    BY <2>1, FS_AddElement
  <2>3. CASE m + 1 \in LiveWrites(u)
    BY <2>1, <2>2, <2>3
  <2>4. CASE m + 1 \notin LiveWrites(u)
    BY <2>1, <2>2, <2>4
  <2>. QED  BY <2>3, <2>4
<1>10. Cardinality(LiveWrites(v)) <= Cardinality(LiveWrites(u) \cup {m + 1})
  BY <1>7, <1>9, FS_Subset
<1>11. /\ Cardinality(LiveWrites(w)) \in Nat /\ Cardinality(LiveWrites(u)) \in Nat
       /\ Cardinality(LiveWrites(u) \cup {m + 1}) \in Nat
       /\ Cardinality(LiveWrites(v)) \in Nat
  <2>1. v \in Seq(0..AgeCap)
    BY <1>3, AgeAssumption, AppendProperties
  <2>. QED  BY <1>1, <1>3, <1>9, <2>1, LiveFinite, FS_CardinalityType
<1>. QED  BY <1>2, <1>8, <1>9, <1>10, <1>11

----------------------------------------------------------------------------
(* The cap, step by step.                                                  *)

LEMMA CapType ==
  ASSUME TypeOK, NEW r \in RuleIds
  PROVE  guard.max \in Nat /\ Cardinality(LiveWrites(guard.writes[r])) \in Nat
<1>1. guard.max \in Nat /\ guard.writes[r] \in Seq(0..AgeCap)
  BY DEF TypeOK, Guards
<1>. QED  BY <1>1, LiveFinite

\* A new guard counts nothing.
LEMMA NewGuardCap ==
  ASSUME NEW max \in Nat, NEW cooldown, guard' = NewGuard(cooldown, max),
         pc' \notin {"act", "record"}
  PROVE  GuardCap'
<1> SUFFICES ASSUME NEW r \in RuleIds PROVE (WritesOf(r) <= guard.max)'
  BY DEF GuardCap
<1>1. guard'.writes[r] = << >> /\ guard'.max = max
  BY DEF NewGuard
<1>2. ~ Writing(r)'
  BY DEF Writing
<1>. QED  BY <1>1, <1>2, NothingLive DEF WritesOf

\* A step that records no write and lets none through keeps it.
LEMMA QuietCap ==
  ASSUME TypeOK, GuardCap, guard'.writes = guard.writes, guard'.max = guard.max,
         \A r \in RuleIds : Writing(r)' => Writing(r)
  PROVE  GuardCap'
<1> SUFFICES ASSUME NEW r \in RuleIds PROVE (WritesOf(r) <= guard.max)'
  BY DEF GuardCap
<1>1. WritesOf(r) <= guard.max
  BY DEF GuardCap
<1>2. guard.max \in Nat /\ Cardinality(LiveWrites(guard.writes[r])) \in Nat
  BY CapType
<1>3. CASE Writing(r)'
  BY <1>1, <1>3 DEF WritesOf
<1>4. CASE ~ Writing(r)'
  BY <1>1, <1>2, <1>4 DEF WritesOf
<1>. QED  BY <1>3, <1>4

LEMMA InitCap == Init => GuardCap
<1> SUFFICES ASSUME Init, NEW r \in RuleIds PROVE WritesOf(r) <= guard.max
  BY DEF GuardCap
<1>1. guard.writes[r] = << >> /\ guard.max = 0 /\ ~ Writing(r)
  BY DEF Init, NewGuard, Writing
<1>. QED  BY <1>1, NothingLive DEF WritesOf

LEMMA TickCap ==
  ASSUME TypeOK, GuardCap, Tick
  PROVE  GuardCap'
<1> SUFFICES ASSUME NEW r \in RuleIds PROVE (WritesOf(r) <= guard.max)'
  BY DEF GuardCap
<1>1. guard' = Elapse(guard) /\ guard \in Guards
  BY DEF Tick, TypeOK
<1>2. guard'.max = guard.max
  BY <1>1 DEF Elapse
<1>3. Cardinality(LiveWrites(guard'.writes[r])) <= Cardinality(LiveWrites(guard.writes[r]))
  BY <1>1, LiveShrinks
<1>4. guard.max \in Nat /\ Cardinality(LiveWrites(guard.writes[r])) \in Nat
  BY CapType
<1>5. guard' \in Guards
  BY <1>1, ElapseType
<1>6. Cardinality(LiveWrites(guard'.writes[r])) \in Nat
  <2>1. guard'.writes[r] \in Seq(0..AgeCap)
    BY <1>5 DEF Guards
  <2>. QED  BY <2>1, LiveFinite
<1>7. Writing(r)' <=> Writing(r)
  <2>1. UNCHANGED <<pc, cfg, visit>>
    BY DEF Tick, passVars
  <2>. QED  BY <2>1 DEF Writing, IsNext
<1>8. WritesOf(r) <= guard.max
  BY DEF GuardCap
<1>9. CASE Writing(r)
  BY <1>2, <1>3, <1>4, <1>6, <1>7, <1>8, <1>9 DEF WritesOf
<1>10. CASE ~ Writing(r)
  BY <1>2, <1>3, <1>4, <1>6, <1>7, <1>8, <1>10 DEF WritesOf
<1>. QED  BY <1>9, <1>10

LEMMA EnvironmentCap ==
  ASSUME TypeOK, GuardCap, Environment
  PROVE  GuardCap'
<1>1. CASE Start
  <2>1. cfg' \in Config
    BY <1>1, NoConfigType, EngineAssumption DEF Start, TypeOK, Configs
  <2>2. guard' = NewGuard(cfg'.cooldown, cfg'.max) /\ pc' = "drain_reload"
    BY <1>1 DEF Start
  <2>. QED  BY <2>1, <2>2, NewGuardCap DEF Config
<1>2. CASE Exit \/ Crash
  <2>1. guard' = NewGuard(0, 0) /\ pc' = "down"
    BY <1>2 DEF Exit, Crash, Gone
  <2>. QED  BY <2>1, NewGuardCap
<1>3. CASE Tick
  BY <1>3, TickCap
<1>4. CASE ~ (Start \/ Exit \/ Crash \/ Tick)
  <2>1. UNCHANGED <<guard, pc, cfg, visit>>
    BY <1>4 DEF Environment, RestartHerdr, OpenPane, ClosePane, Redraw, SetLink, EditFile,
                SetUp, Signal, passVars
  <2>. QED  BY <2>1, QuietCap DEF Writing, IsNext
<1>. QED  BY <1>1, <1>2, <1>3, <1>4

LEMMA LoopCap ==
  ASSUME TypeOK, GuardCap,
         \/ DrainReload \/ DrainReset \/ ListPanes \/ ListFails \/ EndPass
         \/ \E p \in PaneIds : ReadPane(p) \/ ReadFails(p)
  PROVE  GuardCap'
<1>1. CASE DrainReload /\ "reload" \in flags /\ file # BadConfig
  <2>1. file \in Config
    BY <1>1, EngineAssumption DEF TypeOK, Configs
  <2>2. guard' = NewGuard(file.cooldown, file.max) /\ pc' = "drain_reset"
    BY <1>1 DEF DrainReload
  <2>. QED  BY <2>1, <2>2, NewGuardCap DEF Config
<1>2. CASE ListPanes
  <2>1. guard'.writes = guard.writes /\ guard'.max = guard.max
    BY <1>2 DEF ListPanes, RetainPanes, TypeOK, Guards
  <2>2. pc' = "visit"
    BY <1>2 DEF ListPanes
  <2>. QED  BY <2>1, <2>2, QuietCap DEF Writing
<1>3. CASE /\ ~ ListPanes
           /\ ~ (DrainReload /\ "reload" \in flags /\ file # BadConfig)
  <2>1. guard' = guard
    BY <1>3 DEF DrainReload, DrainReset, ListFails, EndPass, ReadPane, ReadFails
  <2>2. pc' \notin {"act", "record"}
    BY <1>3 DEF DrainReload, DrainReset, ListFails, EndPass, ReadPane, ReadFails
  <2>. QED  BY <2>1, <2>2, QuietCap DEF Writing
<1>. QED  BY <1>1, <1>2, <1>3

\* Only Attempt lets a write through, and it asks first.
LEMMA EvaluateCap ==
  ASSUME TypeOK, GuardCap, NEW i \in visit.rest, Evaluate(i)
  PROVE  GuardCap'
<1>1. CASE Attempt(i)
  <2> SUFFICES ASSUME NEW r \in RuleIds PROVE (WritesOf(r) <= guard.max)'
    BY DEF GuardCap
  <2>1. UNCHANGED <<guard, visit, cfg>> /\ pc = "evaluate" /\ IsNext(i) /\ Permitted(i)
    BY <1>1 DEF Attempt, Evaluated, Unmoved
  <2>2. guard.max \in Nat /\ Cardinality(LiveWrites(guard.writes[r])) \in Nat
    BY CapType
  <2>3. WritesOf(r) <= guard.max
    BY DEF GuardCap
  <2>4. CASE Writing(r)'
    <3>1. PICK j \in visit.rest : IsNext(j) /\ cfg.rules[j].writes /\ cfg.rules[j].id = r
      BY <2>1, <2>4 DEF Writing, IsNext
    <3>2. i = j
      BY <2>1, <3>1, ConfigType DEF IsNext, TypeOK
    <3>3. WouldAllowWrite(guard, r)
      BY <2>1, <3>1, <3>2 DEF Permitted
    <3>4. Cardinality(LiveWrites(guard.writes[r])) < guard.max
      BY <3>3 DEF WouldAllowWrite
    <3>5. WritesOf(r)' = Cardinality(LiveWrites(guard.writes[r])) + 1
      BY <2>1, <2>4 DEF WritesOf
    <3>. QED  BY <2>1, <2>2, <3>4, <3>5
  <2>5. CASE ~ Writing(r)'
    <3>1. WritesOf(r)' = Cardinality(LiveWrites(guard.writes[r])) + 0
      BY <2>1, <2>5 DEF WritesOf
    <3>2. WritesOf(r) >= Cardinality(LiveWrites(guard.writes[r]))
      BY <2>2 DEF WritesOf
    <3>3. WritesOf(r) \in Nat
      BY <2>2 DEF WritesOf
    <3>. QED  BY <2>1, <2>2, <2>3, <3>1, <3>2, <3>3
  <2>. QED  BY <2>4, <2>5
<1>2. CASE LatchFalls(i) \/ StillLatched(i) \/ LatchUnfired(i) \/ HoldBack(i)
  <2>1. RuleDone(i) /\ guard' = guard
    BY <1>2 DEF LatchFalls, StillLatched, LatchUnfired, HoldBack, Evaluated, Unmoved
  <2>2. pc' \notin {"act", "record"}
    BY <2>1 DEF RuleDone
  <2>. QED  BY <2>1, <2>2, QuietCap DEF Writing
<1>. QED  BY <1>1, <1>2 DEF Evaluate

LEMMA RunActionCap ==
  ASSUME TypeOK, GuardCap, NEW i \in visit.rest, RunAction(i)
  PROVE  GuardCap'
<1>1. UNCHANGED <<guard, visit, cfg>> /\ pc = "act"
  BY DEF RunAction
<1>. QED  BY <1>1, QuietCap DEF Writing, IsNext

\* The write under way becomes a write recorded.
LEMMA RecordOutcomeCap ==
  ASSUME TypeOK, GuardCap, NEW i \in visit.rest, RecordOutcome(i)
  PROVE  GuardCap'
<1> DEFINE rule == cfg.rules[i]
           fired == Record(guard, Key(i), Found(i))
<1>1. pc = "record" /\ IsNext(i) /\ pc' \notin {"act", "record"}
      /\ guard' = IF rule.writes THEN RecordWrite(fired, rule.id) ELSE fired
  BY DEF RecordOutcome, RuleDone
<1>2. /\ rule.id \in RuleIds
      /\ fired.writes = guard.writes /\ fired.max = guard.max /\ fired \in Guards
  <2>1. guard \in Guards
    BY DEF TypeOK
  <2>2. rule \in Rule /\ Key(i) \in Keys /\ Found(i) \in Lines \cup {NoLine}
    BY NextRuleType
  <2>3. fired \in Guards
    BY <2>1, <2>2, RecordType
  <2>. QED  BY <2>1, <2>2, <2>3 DEF Record, Guards, Rule
<1> HIDE DEF fired
<1>3. CASE ~ rule.writes
  <2>1. guard'.writes = guard.writes /\ guard'.max = guard.max
    BY <1>1, <1>2, <1>3
  <2>. QED  BY <1>1, <2>1, QuietCap DEF Writing
<1>4. CASE rule.writes
  <2> SUFFICES ASSUME NEW r \in RuleIds PROVE (WritesOf(r) <= guard.max)'
    BY DEF GuardCap
  <2>1. guard' = RecordWrite(fired, rule.id) /\ guard'.max = guard.max
    BY <1>1, <1>2, <1>4 DEF RecordWrite, Guards
  <2>2. guard.max \in Nat /\ Cardinality(LiveWrites(guard.writes[r])) \in Nat
    BY CapType
  <2>3. WritesOf(r)' = Cardinality(LiveWrites(guard'.writes[r])) + 0
    BY <1>1 DEF WritesOf, Writing
  <2>4. guard' \in Guards
    BY <1>2, <2>1, RecordWriteType
  <2>5. Cardinality(LiveWrites(guard'.writes[r])) \in Nat
    <3>1. guard'.writes[r] \in Seq(0..AgeCap)
      BY <2>4 DEF Guards
    <3>. QED  BY <3>1, LiveFinite
  <2>6. WritesOf(r) <= guard.max
    BY DEF GuardCap
  <2>7. CASE r = rule.id
    <3>1. Writing(r)
      BY <1>1, <1>4, <2>7 DEF Writing
    <3>2. WritesOf(r) = Cardinality(LiveWrites(guard.writes[r])) + 1
      BY <3>1 DEF WritesOf
    <3>3. Cardinality(LiveWrites(guard'.writes[r])) <=
            Cardinality(LiveWrites(guard.writes[r])) + 1
      BY <1>2, <2>1, <2>7, LiveGrows
    <3>. QED  BY <2>1, <2>2, <2>3, <2>5, <2>6, <3>2, <3>3
  <2>8. CASE r # rule.id
    <3>1. guard'.writes[r] = guard.writes[r]
      BY <1>2, <2>1, <2>8 DEF RecordWrite, Guards
    <3>2. Cardinality(LiveWrites(guard.writes[r])) <= guard.max
      BY <2>2, <2>6 DEF WritesOf
    <3>. QED  BY <2>1, <2>2, <2>3, <3>1, <3>2
  <2>. QED  BY <2>7, <2>8
<1>. QED  BY <1>3, <1>4

LEMMA GuardCapInductive == TypeOK /\ GuardCap /\ [Next]_vars => GuardCap'
<1> SUFFICES ASSUME TypeOK, GuardCap, [Next]_vars PROVE GuardCap'
  OBVIOUS
<1>1. CASE Daemon
  BY <1>1, LoopCap, EvaluateCap, RunActionCap, RecordOutcomeCap DEF Daemon
<1>2. CASE Environment
  BY <1>2, EnvironmentCap
<1>3. CASE UNCHANGED vars
  <2>1. UNCHANGED <<guard, pc, cfg, visit>>
    BY <1>3 DEF vars, passVars
  <2>. QED  BY <2>1, QuietCap DEF Writing, IsNext
<1>. QED  BY <1>1, <1>2, <1>3 DEF Next

----------------------------------------------------------------------------
(* The window holds the writes that were made.                             *)

\* A tick drops the oldest writes of a rule, those a second old, and no other.
LEMMA RecentAges ==
  ASSUME NEW ages \in Seq(0..AgeCap), InOrder(ages)
  PROVE  /\ InOrder(Recent(ages))
         /\ \E d \in 0..Len(ages) :
              /\ Len(Recent(ages)) = Len(ages) - d
              /\ \A n \in 1..(Len(ages) - d) :
                   n + d \in 1..Len(ages) /\ Recent(ages)[n] = Older(ages[n + d])
<1> DEFINE older == [n \in 1..Len(ages) |-> Older(ages[n])]
           stale == {n \in 1..Len(ages) : older[n] >= Second}
           d == Cardinality(stale)
<1>1. Len(ages) \in Nat /\ \A n \in 1..Len(ages) : ages[n] \in 0..AgeCap
  BY LenProperties, ElementOfSeq
<1>2. older \in Seq(0..AgeCap) /\ Len(older) = Len(ages)
  BY <1>1, OlderType, IsASeq, LenProperties
<1>3. Recent(ages) = SubSeq(older, d + 1, Len(older))
  BY DEF Recent
<1>4. \A m, n \in 1..Len(ages) : m <= n => older[m] >= older[n]
  <2> SUFFICES ASSUME NEW m \in 1..Len(ages), NEW n \in 1..Len(ages), m <= n
               PROVE  Older(ages[m]) >= Older(ages[n])
    OBVIOUS
  <2>1. ages[m] >= ages[n] /\ ages[m] \in 0..AgeCap /\ ages[n] \in 0..AgeCap
    BY <1>1 DEF InOrder
  <2>. QED  BY <2>1, AgeAssumption DEF Older
<1>5. \A n \in 1..Len(ages) : older[n] \in 0..AgeCap
  BY <1>1, OlderType
<1> HIDE DEF older
<1>6. IsFiniteSet(stale) /\ d \in 0..Len(ages)
  <2>1. stale \subseteq 1..Len(ages)
    OBVIOUS
  <2> HIDE DEF stale
  <2>. QED  BY <1>1, <2>1, SubInterval
<1>7. \A n \in 1..Len(ages) : n \in stale => n <= d
  <2> SUFFICES ASSUME NEW n \in 1..Len(ages), n \in stale
               PROVE  n <= d
    OBVIOUS
  <2>1. \A m \in 1..n : m \in stale
    <3> SUFFICES ASSUME NEW m \in 1..n PROVE m \in 1..Len(ages) /\ older[m] >= Second
      OBVIOUS
    <3>1. m \in 1..Len(ages) /\ m <= n
      BY <1>1
    <3>2. older[m] >= older[n] /\ older[n] >= Second
      BY <1>4, <3>1
    <3>. QED  BY <1>5, <3>1, <3>2, AgeAssumption
  <2>2. n \in Nat
    BY <1>1
  <2> HIDE DEF stale
  <2>. QED  BY <1>6, <2>1, <2>2, IntervalCounts
<1> HIDE DEF d
<1>8. /\ Len(Recent(ages)) = Len(ages) - d
      /\ \A n \in 1..(Len(ages) - d) :
           n + d \in 1..Len(ages) /\ Recent(ages)[n] = older[n + d]
  <2>1. d \in Nat /\ d <= Len(ages)
    BY <1>1, <1>6
  <2> DEFINE rest == SubSeq(older, d + 1, Len(older))
  <2>2. /\ Len(rest) = IF d <= Len(older) THEN Len(older) - d ELSE 0
        /\ \A n \in 1..(Len(older) - d) :
             n + d \in 1..Len(older) /\ rest[n] = older[n + d]
    BY <1>2, <2>1, DropType
  <2>3. Recent(ages) = rest
    BY <1>3
  <2> HIDE DEF rest
  <2>. QED  BY <1>2, <2>1, <2>2, <2>3
<1>9. \A n \in 1..(Len(ages) - d) : older[n + d] < Second
  <2> SUFFICES ASSUME NEW n \in 1..(Len(ages) - d) PROVE older[n + d] < Second
    OBVIOUS
  <2>1. n + d \in 1..Len(ages) /\ ~ (n + d <= d)
    BY <1>1, <1>6
  <2>2. n + d \notin stale
    BY <1>7, <2>1
  <2>. QED  BY <1>5, <2>1, <2>2, AgeAssumption
<1>10. InOrder(Recent(ages))
  <2>1. \A m, n \in 1..(Len(ages) - d) : m <= n => m + d <= n + d
    BY <1>1, <1>6
  <2>. QED  BY <1>4, <1>8, <1>9, <2>1 DEF InOrder
<1>. QED  BY <1>6, <1>8, <1>10 DEF older

\* Recording a write pops no entry the window's newest m writes stand for.
LEMMA WindowGrows ==
  ASSUME NEW g \in Guards, NEW r \in RuleIds, NEW ages \in Seq(0..AgeCap), InOrder(ages),
         NEW m \in Int, m <= Len(g.writes[r]), m <= Len(ages),
         \A n \in 1..m : g.writes[r][n + Len(g.writes[r]) - m] <= ages[n]
  PROVE  LET v == RecordWrite(g, r).writes[r]
         IN  /\ m + 1 <= Len(v)
             /\ \A n \in 1..m : v[n + Len(v) - (m + 1)] <= ages[n]
             /\ v[Len(v)] = 0
<1> DEFINE w == g.writes[r]
           s == Cardinality(Stale(w))
           u == Popped(w)
           v == Append(u, 0)
<1>1. w \in Seq(0..AgeCap) /\ Len(w) \in Nat /\ Len(ages) \in Nat
  <2>1. w \in Seq(0..AgeCap)
    BY DEF Guards
  <2>. QED  BY <2>1, LenProperties
<1>2. RecordWrite(g, r).writes[r] = v
  BY DEF RecordWrite, Guards
<1>3. m <= Len(w) /\ \A n \in 1..m : w[n + Len(w) - m] <= ages[n]
  OBVIOUS
<1>4. \A n \in 1..Len(w) : w[n] \in 0..AgeCap
  BY <1>1, ElementOfSeq
<1>5. \A n \in 1..m : ages[n] \in 0..AgeCap /\ ages[n] < Second
  <2> TAKE n \in 1..m
  <2>1. n \in 1..Len(ages)
    BY <1>1
  <2>. QED  BY <2>1, ElementOfSeq DEF InOrder
<1>6. s \in Nat /\ s <= Len(w) /\ (m >= 0 => s <= Len(w) - m)
  <2>1. \A n \in Stale(w) : n \in 1..Len(w) /\ \A k \in 1..n : w[k] >= Second
    BY DEF Stale
  <2> HIDE DEF w
  <2>2. s \in 0..Len(w)
    <3>1. Stale(w) \subseteq 1..Len(w)
      BY <2>1
    <3>. QED  BY <1>1, <3>1, SubInterval
  <2>3. ASSUME m >= 1 PROVE s <= Len(w) - m
    <3>1. 1 \in 1..m /\ 1 + Len(w) - m \in 1..Len(w)
      BY <1>1, <1>3, <2>3
    <3>2. w[1 + Len(w) - m] < Second
      <4>1. w[1 + Len(w) - m] <= ages[1] /\ ages[1] < Second /\ ages[1] \in 0..AgeCap
        BY <1>3, <1>5, <3>1
      <4>2. w[1 + Len(w) - m] \in 0..AgeCap
        BY <1>4, <3>1
      <4>. QED  BY <4>1, <4>2, AgeAssumption
    <3>3. \A n \in Stale(w) : n \in 1..(Len(w) - m)
      <4> SUFFICES ASSUME NEW n \in Stale(w) PROVE n \in 1..(Len(w) - m)
        OBVIOUS
      <4>1. n \in 1..Len(w) /\ ~ (1 + Len(w) - m \in 1..n)
        <5>1. 1 + Len(w) - m \in 1..n => w[1 + Len(w) - m] >= Second
          BY <2>1
        <5>2. w[1 + Len(w) - m] \in 0..AgeCap
          BY <1>4, <3>1
        <5>. QED  BY <2>1, <3>2, <5>1, <5>2, AgeAssumption
      <4>. QED  BY <1>1, <1>3, <4>1
    <3>4. Len(w) - m \in Nat /\ Stale(w) \subseteq 1..(Len(w) - m)
      BY <1>1, <1>3, <3>3
    <3>5. s \in 0..(Len(w) - m)
      BY <3>4, SubInterval
    <3>. QED  BY <1>1, <3>4, <3>5
  <2>. QED  BY <1>1, <2>2, <2>3
<1> HIDE DEF s
<1>7. /\ u \in Seq(0..AgeCap) /\ Len(u) = Len(w) - s
      /\ \A n \in 1..(Len(w) - s) : n + s \in 1..Len(w) /\ u[n] = w[n + s]
  <2>1. u = SubSeq(w, s + 1, Len(w))
    BY DEF Popped, s
  <2> HIDE DEF w, u
  <2>2. /\ u \in Seq(0..AgeCap) /\ Len(u) = IF s <= Len(w) THEN Len(w) - s ELSE 0
        /\ \A n \in 1..(Len(w) - s) : n + s \in 1..Len(w) /\ u[n] = w[n + s]
    BY <1>1, <1>6, <2>1, DropType
  <2>. QED  BY <1>6, <2>2
<1> HIDE DEF w, u
<1>8. /\ Len(v) = Len(w) - s + 1 /\ v[Len(v)] = 0
      /\ \A n \in 1..(Len(w) - s) : v[n] = w[n + s]
  BY <1>1, <1>6, <1>7, AgeAssumption, AppendProperties
<1> HIDE DEF v
<1>9. ASSUME NEW n \in 1..m
      PROVE  v[n + Len(v) - (m + 1)] <= ages[n]
  <2>1. /\ n + Len(v) - (m + 1) \in 1..(Len(w) - s)
        /\ n + Len(v) - (m + 1) + s = n + Len(w) - m
    BY <1>1, <1>6, <1>8
  <2>2. v[n + Len(v) - (m + 1)] = w[n + Len(w) - m]
    BY <1>8, <2>1
  <2>. QED  BY <1>3, <2>2
<1>10. m + 1 <= Len(v)
  BY <1>1, <1>6, <1>8
<1>. QED  BY <1>2, <1>8, <1>9, <1>10

LEMMA WindowTypes ==
  ASSUME TypeOK, NEW r \in RuleIds
  PROVE  /\ wrote[r] \in Seq(0..AgeCap) /\ guard.writes[r] \in Seq(0..AgeCap)
         /\ Len(wrote[r]) \in Nat /\ Len(guard.writes[r]) \in Nat
         /\ Recorded(r) \in Int /\ Recorded(r) <= Len(wrote[r])
<1>1. wrote[r] \in Seq(0..AgeCap) /\ guard.writes[r] \in Seq(0..AgeCap)
  BY DEF TypeOK, Guards
<1>2. Len(wrote[r]) \in Nat /\ Len(guard.writes[r]) \in Nat
  BY <1>1, LenProperties
<1>3. Recorded(r) = Len(wrote[r]) \/ Recorded(r) = Len(wrote[r]) - 1
  <2>1. CASE pc = "record" /\ Writing(r)
    BY <1>2, <2>1 DEF Recorded
  <2>2. CASE ~ (pc = "record" /\ Writing(r))
    BY <1>2, <2>2 DEF Recorded
  <2>. QED  BY <2>1, <2>2
<1>. QED  BY <1>1, <1>2, <1>3

\* New windows are empty, and nothing has been written.
LEMMA NewWindow ==
  ASSUME NEW max, NEW cooldown, guard' = NewGuard(cooldown, max), cfg'.max = max,
         wrote' = NothingWritten, pc' # "record"
  PROVE  WindowInv'
<1> SUFFICES ASSUME NEW r \in RuleIds PROVE InWindow(r)' /\ InOrder(wrote[r])'
  BY DEF WindowInv, NewGuard
<1>1. wrote'[r] = << >> /\ guard'.writes[r] = << >> /\ Len(<< >>) = 0
  BY DEF NothingWritten, NewGuard
<1>2. Recorded(r)' = 0
  BY <1>1 DEF Recorded
<1>. QED  BY <1>1, <1>2 DEF InWindow, InOrder

LEMMA InitWindow == Init => WindowInv
<1> SUFFICES ASSUME Init PROVE WindowInv
  OBVIOUS
<1>0. guard.max = cfg.max
  BY DEF Init, NewGuard, NoConfig
<1> SUFFICES ASSUME NEW r \in RuleIds PROVE InWindow(r) /\ InOrder(wrote[r])
  BY <1>0 DEF WindowInv
<1>1. wrote[r] = << >> /\ guard.writes[r] = << >> /\ Len(<< >>) = 0 /\ pc = "down"
  BY DEF Init, NothingWritten, NewGuard
<1>2. Recorded(r) = 0
  BY <1>1 DEF Recorded
<1>. QED  BY <1>1, <1>2 DEF InWindow, InOrder

\* A step that writes nothing, records nothing and lets no time pass.
LEMMA QuietWindow ==
  ASSUME WindowInv, wrote' = wrote, guard'.writes = guard.writes,
         guard'.max = guard.max, cfg' = cfg,
         \A r \in RuleIds : (pc = "record" /\ Writing(r))' <=> pc = "record" /\ Writing(r)
  PROVE  WindowInv'
<1>1. guard'.max = cfg'.max
  BY DEF WindowInv
<1>2. ASSUME NEW r \in RuleIds PROVE InWindow(r)' /\ InOrder(wrote[r])'
  <2>1. Recorded(r)' = Recorded(r)
    BY DEF Recorded
  <2>2. InWindow(r) /\ InOrder(wrote[r])
    BY DEF WindowInv
  <2>. QED  BY <2>1, <2>2 DEF InWindow
<1>. QED  BY <1>1, <1>2 DEF WindowInv

\* Both clocks run alike.
LEMMA TickWindow ==
  ASSUME TypeOK, WindowInv, Tick
  PROVE  WindowInv'
<1>1. /\ guard \in Guards /\ guard' = Elapse(guard) /\ UNCHANGED <<pc, cfg, visit>>
      /\ wrote' = [r \in RuleIds |-> Recent(wrote[r])]
  BY DEF Tick, TypeOK, passVars
<1>2. guard'.max = cfg'.max
  BY <1>1 DEF WindowInv, Elapse
<1>3. ASSUME NEW r \in RuleIds PROVE InWindow(r)' /\ InOrder(wrote[r])'
  <2> DEFINE w == wrote[r]
             g == guard.writes[r]
             m == Recorded(r)
  <2>1. /\ w \in Seq(0..AgeCap) /\ g \in Seq(0..AgeCap) /\ Len(w) \in Nat /\ Len(g) \in Nat
        /\ m \in Int /\ m <= Len(w)
    BY WindowTypes
  <2>2. \E f \in 0..1 : m = Len(w) - f /\ Recorded(r)' = Len(wrote'[r]) - f
    <3>1. Writing(r)' <=> Writing(r)
      BY <1>1 DEF Writing, IsNext
    <3>2. wrote'[r] \in Seq(0..AgeCap)
      BY <1>1, <2>1, RecentType
    <3>3. Len(wrote'[r]) \in Nat
      BY <3>2, LenProperties
    <3>4. \A n \in Nat : n = n - 0
      OBVIOUS
    <3>5. CASE pc = "record" /\ Writing(r)
      <4>1. m = Len(w) - 1 /\ Recorded(r)' = Len(wrote'[r]) - 1
        BY <1>1, <3>1, <3>5 DEF Recorded
      <4>. QED  BY <4>1
    <3>6. CASE ~ (pc = "record" /\ Writing(r))
      <4>1. m = Len(w) - 0 /\ Recorded(r)' = Len(wrote'[r]) - 0
        BY <1>1, <2>1, <3>1, <3>3, <3>4, <3>6 DEF Recorded
      <4>. QED  BY <4>1
    <3>. QED  BY <3>5, <3>6
  <2>3. wrote'[r] = Recent(w) /\ guard'.writes[r] = [n \in 1..Len(g) |-> Older(g[n])]
    BY <1>1 DEF Elapse
  <2>4. InOrder(w) /\ m <= Len(g) /\ \A n \in 1..m : g[n + Len(g) - m] <= w[n]
    BY DEF WindowInv, InWindow
  <2>5. Len(guard'.writes[r]) = Len(g)
    BY <2>1, <2>3
  <2> HIDE DEF w, g, m
  <2>6. PICK d \in 0..Len(w) :
          /\ Len(Recent(w)) = Len(w) - d
          /\ \A n \in 1..(Len(w) - d) : n + d \in 1..Len(w) /\ Recent(w)[n] = Older(w[n + d])
    BY <2>1, <2>4, RecentAges
  <2>7. Recorded(r)' = m - d
    BY <2>1, <2>2, <2>3, <2>6
  <2>8. ASSUME NEW n \in 1..(m - d)
        PROVE  guard'.writes[r][n + Len(g) - (m - d)] <= Recent(w)[n]
    <3>1. /\ n \in 1..(Len(w) - d) /\ n + d \in 1..m
          /\ n + Len(g) - (m - d) = (n + d) + Len(g) - m
          /\ (n + d) + Len(g) - m \in 1..Len(g)
      BY <2>1, <2>4, <2>6
    <3>2. g[(n + d) + Len(g) - m] <= w[n + d]
      BY <2>4, <3>1
    <3>3. g[(n + d) + Len(g) - m] \in 0..AgeCap /\ w[n + d] \in 0..AgeCap
      <4>1. n + d \in 1..Len(w)
        BY <2>6, <3>1
      <4>. QED  BY <2>1, <3>1, <4>1, ElementOfSeq
    <3>4. Older(g[(n + d) + Len(g) - m]) <= Older(w[n + d])
      BY <3>2, <3>3, AgeAssumption DEF Older
    <3>5. guard'.writes[r][n + Len(g) - (m - d)] = Older(g[(n + d) + Len(g) - m])
      BY <2>3, <3>1
    <3>. QED  BY <2>6, <3>1, <3>4, <3>5
  <2>9. m - d <= Len(g)
    BY <2>1, <2>4, <2>6
  <2>10. InOrder(Recent(w))
    BY <2>1, <2>4, RecentAges
  <2>. QED  BY <2>3, <2>5, <2>7, <2>8, <2>9, <2>10 DEF InWindow
<1>. QED  BY <1>2, <1>3 DEF WindowInv

\* A write just made is the newest, and the one whose recording is due.
LEMMA RunActionWindow ==
  ASSUME TypeOK, WindowInv, NEW i \in visit.rest, RunAction(i)
  PROVE  WindowInv'
<1>1. /\ UNCHANGED <<guard, visit, cfg>> /\ pc = "act" /\ pc' = "record" /\ IsNext(i)
      /\ Wrote(i)
  BY DEF RunAction
<1>2. guard'.max = cfg'.max
  BY <1>1 DEF WindowInv
<1>3. ASSUME NEW r \in RuleIds PROVE InWindow(r)' /\ InOrder(wrote[r])'
  <2>1. /\ wrote[r] \in Seq(0..AgeCap) /\ Len(wrote[r]) \in Nat
        /\ wrote \in [RuleIds -> Seq(0..AgeCap)]
    BY WindowTypes DEF TypeOK
  <2>2. InWindow(r) /\ InOrder(wrote[r]) /\ Recorded(r) = Len(wrote[r])
    BY <1>1, <2>1 DEF WindowInv, Recorded
  <2>3. CASE Writing(r)'
    <3>1. cfg.rules[i].writes /\ cfg.rules[i].id = r
      <4>1. PICK j \in visit.rest : IsNext(j) /\ cfg.rules[j].writes /\ cfg.rules[j].id = r
        BY <1>1, <2>3 DEF Writing, IsNext
      <4>2. i = j
        BY <1>1, <4>1, ConfigType DEF IsNext, TypeOK
      <4>. QED  BY <4>1, <4>2
    <3>2. wrote'[r] = Append(wrote[r], 0)
      BY <1>1, <2>1, <3>1 DEF Wrote
    <3>3. /\ Len(wrote'[r]) = Len(wrote[r]) + 1 /\ wrote'[r][Len(wrote[r]) + 1] = 0
          /\ \A n \in 1..Len(wrote[r]) : wrote'[r][n] = wrote[r][n]
      BY <2>1, <3>2, AgeAssumption, AppendProperties
    <3>4. Recorded(r)' = Recorded(r)
      BY <1>1, <2>1, <2>2, <2>3, <3>3 DEF Recorded
    <3>5. InWindow(r)'
      BY <1>1, <2>2, <3>3, <3>4 DEF InWindow
    <3>6. \A n \in 1..Len(wrote[r]) : wrote[r][n] \in 0..AgeCap
      BY <2>1, ElementOfSeq
    <3>7. InOrder(wrote'[r])
      <4>1. \A n \in 1..Len(wrote'[r]) :
              \/ n \in 1..Len(wrote[r]) /\ wrote'[r][n] = wrote[r][n]
              \/ n = Len(wrote[r]) + 1 /\ wrote'[r][n] = 0
        BY <2>1, <3>3
      <4>2. \A n \in 1..Len(wrote'[r]) : wrote'[r][n] < Second
        BY <2>2, <4>1, AgeAssumption DEF InOrder
      <4>3. ASSUME NEW m \in 1..Len(wrote'[r]), NEW n \in 1..Len(wrote'[r]), m <= n
            PROVE  wrote'[r][m] >= wrote'[r][n]
        <5>1. CASE n \in 1..Len(wrote[r])
          <6>1. m \in 1..Len(wrote[r])
            BY <2>1, <4>3, <5>1
          <6>. QED  BY <2>2, <3>3, <4>3, <5>1, <6>1 DEF InOrder
        <5>2. CASE n \notin 1..Len(wrote[r])
          <6>1. wrote'[r][n] = 0
            BY <4>1, <5>2
          <6>2. wrote'[r][m] = 0 \/ wrote'[r][m] \in 0..AgeCap
            BY <3>6, <4>1
          <6>. QED  BY <6>1, <6>2, AgeAssumption
        <5>. QED  BY <5>1, <5>2
      <4>. QED  BY <4>2, <4>3 DEF InOrder
    <3>. QED  BY <3>5, <3>7
  <2>4. CASE ~ Writing(r)'
    <3>1. ~ (cfg.rules[i].writes /\ cfg.rules[i].id = r)
      BY <1>1, <2>4 DEF Writing, IsNext
    <3>2. wrote'[r] = wrote[r]
      BY <1>1, <2>1, <3>1 DEF Wrote
    <3>3. Recorded(r)' = Recorded(r)
      BY <2>1, <2>2, <2>4, <3>2 DEF Recorded
    <3>. QED  BY <1>1, <2>2, <3>2, <3>3 DEF InWindow
  <2>. QED  BY <2>3, <2>4
<1>. QED  BY <1>2, <1>3 DEF WindowInv

\* The write whose recording was due is the newest of the window.
LEMMA RecordOutcomeWindow ==
  ASSUME TypeOK, WindowInv, NEW i \in visit.rest, RecordOutcome(i)
  PROVE  WindowInv'
<1> DEFINE rule == cfg.rules[i]
           fired == Record(guard, Key(i), Found(i))
<1>1. /\ pc = "record" /\ IsNext(i) /\ pc' # "record" /\ UNCHANGED <<cfg, wrote>>
      /\ guard' = IF rule.writes THEN RecordWrite(fired, rule.id) ELSE fired
  BY DEF RecordOutcome, RuleDone
<1>2. /\ rule.id \in RuleIds
      /\ fired.writes = guard.writes /\ fired.max = guard.max /\ fired \in Guards
  <2>1. guard \in Guards
    BY DEF TypeOK
  <2>2. rule \in Rule /\ Key(i) \in Keys /\ Found(i) \in Lines \cup {NoLine}
    BY NextRuleType
  <2>3. fired \in Guards
    BY <2>1, <2>2, RecordType
  <2>. QED  BY <2>1, <2>2, <2>3 DEF Record, Guards, Rule
<1> HIDE DEF fired
<1>3. guard'.max = cfg'.max
  <2>1. guard'.max = fired.max
    BY <1>1, <1>2 DEF RecordWrite, Guards
  <2>. QED  BY <1>1, <1>2, <2>1 DEF WindowInv
<1>4. ASSUME NEW r \in RuleIds PROVE InWindow(r)' /\ InOrder(wrote[r])'
  <2> DEFINE m == Recorded(r)
  <2>1. /\ wrote[r] \in Seq(0..AgeCap) /\ Len(wrote[r]) \in Nat
        /\ m \in Int /\ m <= Len(wrote[r])
    BY WindowTypes
  <2>2. InWindow(r) /\ InOrder(wrote[r]) /\ Recorded(r)' = Len(wrote[r])
    BY <1>1, <2>1 DEF WindowInv, Recorded
  <2>3. CASE rule.writes /\ rule.id = r
    <3>1. m = Len(wrote[r]) - 1
      BY <1>1, <2>1, <2>3 DEF Recorded, Writing
    <3>2. guard' = RecordWrite(fired, r)
      BY <1>1, <2>3
    <3>3. m <= Len(fired.writes[r]) /\
          \A n \in 1..m : fired.writes[r][n + Len(fired.writes[r]) - m] <= wrote[r][n]
      BY <1>2, <2>2 DEF InWindow
    <3> HIDE DEF m
    <3>4. /\ m + 1 <= Len(guard'.writes[r])
          /\ \A n \in 1..m : guard'.writes[r][n + Len(guard'.writes[r]) - (m + 1)] <= wrote[r][n]
          /\ guard'.writes[r][Len(guard'.writes[r])] = 0
      BY <1>2, <2>1, <2>2, <3>2, <3>3, WindowGrows
    <3>5. Len(guard'.writes[r]) \in Nat
      <4>1. guard' \in Guards
        BY <1>2, <3>2, RecordWriteType
      <4>2. guard'.writes[r] \in Seq(0..AgeCap)
        BY <4>1 DEF Guards
      <4>. QED  BY <4>2, LenProperties
    <3>6. ASSUME NEW n \in 1..(m + 1)
          PROVE  guard'.writes[r][n + Len(guard'.writes[r]) - (m + 1)] <= wrote[r][n]
      <4>1. CASE n \in 1..m
        BY <3>4, <4>1
      <4>2. CASE n = m + 1
        <5>1. n + Len(guard'.writes[r]) - (m + 1) = Len(guard'.writes[r])
          <6>1. \A a \in Int, b \in Nat : a + 1 + b - (a + 1) = b
            OBVIOUS
          <6>2. (m + 1) + Len(guard'.writes[r]) - (m + 1) = Len(guard'.writes[r])
            BY <2>1, <3>5, <6>1
          <6>. QED  BY <4>2, <6>2
        <5>2. wrote[r][n] \in 0..AgeCap
          <6>1. n \in 1..Len(wrote[r])
            BY <2>1, <3>1, <4>2
          <6>. QED  BY <2>1, <6>1, ElementOfSeq
        <5>. QED  BY <3>4, <5>1, <5>2
      <4>. QED  BY <2>1, <4>1, <4>2
    <3>7. Recorded(r)' = m + 1
      BY <2>1, <2>2, <3>1
    <3>. QED  BY <1>1, <2>2, <3>4, <3>6, <3>7 DEF InWindow
  <2>4. CASE ~ (rule.writes /\ rule.id = r)
    <3>1. guard'.writes[r] = guard.writes[r]
      BY <1>1, <1>2, <2>4 DEF RecordWrite, Guards
    <3>2. m = Len(wrote[r])
      <4>1. ~ Writing(r)
        <5>1. ASSUME NEW j \in visit.rest, IsNext(j) PROVE j = i
          BY <1>1, <5>1, ConfigType DEF IsNext, TypeOK
        <5>. QED  BY <2>4, <5>1 DEF Writing
      <4>. QED  BY <2>1, <4>1 DEF Recorded
    <3>. QED  BY <1>1, <2>1, <2>2, <3>1, <3>2 DEF InWindow
  <2>. QED  BY <2>3, <2>4
<1>. QED  BY <1>3, <1>4 DEF WindowInv

LEMMA WindowInductive == TypeOK /\ WindowInv /\ [Next]_vars => WindowInv'
<1> SUFFICES ASSUME TypeOK, WindowInv, [Next]_vars PROVE WindowInv'
  OBVIOUS
<1>1. CASE Start
  <2>1. /\ pc = "down" /\ pc' = "drain_reload" /\ wrote' = NothingWritten
        /\ guard' = NewGuard(cfg'.cooldown, cfg'.max)
    BY <1>1 DEF Start
  <2>. QED  BY <2>1, NewWindow
<1>2. CASE Exit \/ Crash
  <2>1. guard' = NewGuard(0, 0) /\ pc' = "down" /\ wrote' = NothingWritten /\ cfg' = NoConfig
    BY <1>2 DEF Exit, Crash, Gone
  <2>. QED  BY <2>1, NewWindow DEF NoConfig
<1>3. CASE Tick
  BY <1>3, TickWindow
<1>4. CASE DrainReload /\ "reload" \in flags /\ file # BadConfig
  BY <1>4, NewWindow DEF DrainReload
<1>5. ASSUME NEW i \in visit.rest, RunAction(i) \/ RecordOutcome(i)
      PROVE  WindowInv'
  BY <1>5, RunActionWindow, RecordOutcomeWindow
<1>6. CASE ListPanes
  <2>1. /\ pc = "list" /\ pc' = "visit" /\ UNCHANGED <<cfg, wrote>>
        /\ guard'.writes = guard.writes /\ guard'.max = guard.max
    BY <1>6 DEF ListPanes, RetainPanes, TypeOK, Guards, histVars
  <2>. QED  BY <2>1, QuietWindow
<1>7. ASSUME \/ DrainReset \/ ListFails \/ EndPass
             \/ DrainReload /\ ~ ("reload" \in flags /\ file # BadConfig)
             \/ \E p \in PaneIds : ReadPane(p) \/ ReadFails(p)
      PROVE  WindowInv'
  <2>1. pc # "record" /\ pc' # "record" /\ UNCHANGED <<cfg, guard, wrote>>
    BY <1>7 DEF DrainReset, ListFails, EndPass, DrainReload, ReadPane, ReadFails, histVars
  <2>. QED  BY <2>1, QuietWindow
<1>8. ASSUME NEW i \in visit.rest, Evaluate(i)
      PROVE  WindowInv'
  <2>1. pc # "record" /\ pc' # "record" /\ UNCHANGED <<cfg, guard, wrote>>
    BY <1>8 DEF Evaluate, LatchFalls, StillLatched, LatchUnfired, HoldBack, Attempt,
                Evaluated, RuleDone, Unmoved, histVars
  <2>. QED  BY <2>1, QuietWindow
<1>9. ASSUME \/ RestartHerdr
             \/ \E p \in PaneIds, t \in Terminals, s \in Texts : OpenPane(p, t, s)
             \/ \E p \in PaneIds : ClosePane(p) \/ \E s \in Texts : Redraw(p, s)
             \/ \E l \in {"up", "flaky", "down"} : SetLink(l)
             \/ \E f \in Files : EditFile(f)
             \/ \E b \in BOOLEAN : SetUp(b)
             \/ \E sig \in Signals : Signal(sig)
             \/ UNCHANGED vars
      PROVE  WindowInv'
  <2>1. UNCHANGED <<guard, pc, cfg, visit, wrote>>
    BY <1>9 DEF RestartHerdr, OpenPane, ClosePane, Redraw, SetLink, EditFile, SetUp, Signal,
                vars, passVars, histVars
  <2>2. \A r \in RuleIds : Writing(r)' <=> Writing(r)
    BY <2>1 DEF Writing, IsNext
  <2>. QED  BY <2>1, <2>2, QuietWindow
<1>. QED
  BY <1>1, <1>2, <1>3, <1>4, <1>5, <1>6, <1>7, <1>8, <1>9 DEF Next, Daemon, Environment

\* Each write made in the last second but the one to be recorded has an entry in
\* the window, less than a second old: the guard has counted it.
LEMMA AllAreCounted ==
  ASSUME TypeOK, WindowInv, NEW r \in RuleIds
  PROVE  Recorded(r) <= Cardinality(LiveWrites(guard.writes[r]))
<1> DEFINE w == wrote[r]
           g == guard.writes[r]
           m == Recorded(r)
           entry == [n \in 1..m |-> n + Len(g) - m]
<1>1. /\ w \in Seq(0..AgeCap) /\ g \in Seq(0..AgeCap) /\ Len(w) \in Nat /\ Len(g) \in Nat
      /\ m \in Int /\ m <= Len(w)
  BY WindowTypes
<1>2. InOrder(w) /\ m <= Len(g) /\ \A n \in 1..m : g[n + Len(g) - m] <= w[n]
  BY DEF WindowInv, InWindow
<1>3. IsFiniteSet(LiveWrites(g)) /\ Cardinality(LiveWrites(g)) \in Nat
  BY <1>1, LiveFinite
<1> SUFFICES m <= Cardinality(LiveWrites(g))
  OBVIOUS
<1> HIDE DEF w, g, m
<1>4. CASE m <= 0
  BY <1>1, <1>3, <1>4
<1>5. CASE m > 0
  <2>1. \A n \in 1..m : n + Len(g) - m \in LiveWrites(g)
    <3> SUFFICES ASSUME NEW n \in 1..m PROVE n + Len(g) - m \in LiveWrites(g)
      OBVIOUS
    <3>1. n \in 1..Len(w) /\ n + Len(g) - m \in 1..Len(g)
      BY <1>1, <1>2
    <3>2. w[n] < Second /\ w[n] \in 0..AgeCap /\ g[n + Len(g) - m] \in 0..AgeCap
      BY <1>1, <1>2, <3>1, ElementOfSeq DEF InOrder
    <3>3. g[n + Len(g) - m] < Second
      BY <1>2, <3>2, AgeAssumption
    <3>4. DOMAIN g = 1..Len(g)
      BY <1>1, LenProperties
    <3>. QED  BY <3>1, <3>3, <3>4 DEF LiveWrites
  <2>2. \A a, b \in 1..m : a + Len(g) - m = b + Len(g) - m => a = b
    BY <1>1
  <2>3. entry \in Injection(1..m, LiveWrites(g))
    BY <2>1, <2>2 DEF Injection, IsInjective
  <2>4. m \in Nat /\ IsFiniteSet(1..m) /\ Cardinality(1..m) = m
    <3>1. m \in Nat
      BY <1>1, <1>5
    <3>2. IsFiniteSet(1..m) /\ Cardinality(1..m) = IF 1 > m THEN 0 ELSE m - 1 + 1
      BY <3>1, FS_Interval, SMT
    <3>. QED  BY <1>5, <3>1, <3>2
  <2>5. Cardinality(1..m) <= Cardinality(LiveWrites(g))
    BY <1>3, <2>3, FS_Injection
  <2>. QED  BY <2>4, <2>5
<1>. QED  BY <1>1, <1>4, <1>5

LEMMA CountedAreCapped ==
  ASSUME TypeOK, GuardCap, WindowInv
  PROVE  WritesAreCapped
<1> SUFFICES ASSUME NEW r \in RuleIds PROVE Len(wrote[r]) <= cfg.max
  BY DEF WritesAreCapped
<1>1. WritesOf(r) <= guard.max /\ guard.max = cfg.max
  BY DEF GuardCap, WindowInv
<1>2. Recorded(r) <= Cardinality(LiveWrites(guard.writes[r]))
  BY AllAreCounted
<1>3. guard.max \in Nat /\ Cardinality(LiveWrites(guard.writes[r])) \in Nat
  BY CapType
<1>4. Len(wrote[r]) \in Nat
  BY WindowTypes
<1>5. CASE pc = "record" /\ Writing(r)
  <2>1. /\ Recorded(r) = Len(wrote[r]) - 1
        /\ WritesOf(r) = Cardinality(LiveWrites(guard.writes[r])) + 1
    BY <1>5 DEF Recorded, WritesOf
  <2>. QED  BY <1>1, <1>2, <1>3, <1>4, <2>1
<1>6. CASE ~ (pc = "record" /\ Writing(r))
  <2>1. /\ Recorded(r) = Len(wrote[r])
        /\ Cardinality(LiveWrites(guard.writes[r])) <= WritesOf(r)
        /\ WritesOf(r) \in Nat
    <3>1. Recorded(r) = Len(wrote[r])
      BY <1>4, <1>6 DEF Recorded
    <3>2. \/ WritesOf(r) = Cardinality(LiveWrites(guard.writes[r])) + 1
          \/ WritesOf(r) = Cardinality(LiveWrites(guard.writes[r])) + 0
      BY Zenon DEF WritesOf
    <3>. QED  BY <1>3, <3>1, <3>2
  <2>. QED  BY <1>1, <1>2, <1>3, <1>4, <2>1
<1>. QED  BY <1>5, <1>6

\* Since the last reload no rule that writes has been fired more often in any second
\* than the configuration in force allows, however the passes, the clock and the
\* failures interleave: the guard counts every such fire, the one under way before
\* it is recorded, and forgets none before it is a second old.
THEOREM CappedWrites == Spec => []WritesAreCapped
<1>1. Init => GuardCap /\ WindowInv
  BY InitCap, InitWindow
<1>2. TypeOK /\ GuardCap /\ WindowInv /\ [Next]_vars => GuardCap' /\ WindowInv'
  BY GuardCapInductive, WindowInductive
<1>3. TypeOK /\ GuardCap /\ WindowInv => WritesAreCapped
  BY CountedAreCapped
<1>. QED  BY <1>1, <1>2, <1>3, TypeCorrect, PTL DEF Spec
============================================================================
