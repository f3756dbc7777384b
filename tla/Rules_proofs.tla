---------------------------- MODULE Rules_proofs ----------------------------
(***************************************************************************)
(* Theorems about the operators of Rules and WatchPlan.                    *)
(***************************************************************************)
EXTENDS WatchPlan, SequenceTheorems, FiniteSetTheorems, WellFoundedInduction, TLAPS

\* Induction up to N, for a set of numbers rather than a predicate.
LEMMA UpTo ==
  ASSUME NEW N \in Nat, NEW X, 0 \in X, \A n \in 0..N : n \in X /\ n < N => n + 1 \in X
  PROVE  0..N \subseteq X
<1> SUFFICES ASSUME NEW bad \in 0..N, bad \notin X PROVE FALSE
  OBVIOUS
<1> DEFINE T == {0..n : n \in (0..N) \ X}
<1>1. IsFiniteSet(0..N)
  BY FS_Interval
<1>2. T \subseteq FiniteSubsetsOf(0..N) /\ T # {}
  <2>1. FiniteSubsetsOf(0..N) = SUBSET (0..N)
    BY <1>1, FS_FiniteSubsetsOfFinite
  <2>2. \A n \in 0..N : 0..n \subseteq 0..N
    OBVIOUS
  <2>. QED  BY <2>1, <2>2
<1>3. \E s \in T : \A t \in T : ~ (<<t, s>> \in StrictSubsetOrdering(0..N))
  <2> HIDE DEF T
  <2>. QED  BY <1>2, FS_StrictSubsetOrderingWellFounded, WFMin
<1>4. PICK n \in (0..N) \ X :
        \A m \in (0..N) \ X : ~ (<<0..m, 0..n>> \in StrictSubsetOrdering(0..N))
  BY <1>3
<1>5. n # 0 /\ n - 1 \in 0..N
  BY <1>4
<1>6. n - 1 \notin X
  BY <1>4, <1>5
<1>7. 0..(n - 1) \subseteq 0..n /\ 0..(n - 1) # 0..n /\ 0..n \subseteq 0..N
  <2>1. n \in 0..n /\ n \notin 0..(n - 1)
    BY <1>4
  <2>. QED  BY <1>4, <2>1
<1>8. <<0..(n - 1), 0..n>> \in StrictSubsetOrdering(0..N)
  BY <1>7 DEF StrictSubsetOrdering
<1>. QED  BY <1>4, <1>5, <1>6, <1>8
----------------------------------------------------------------------------
(* The tail of a screen.                                                   *)

\* At most one line is live, so the CHOOSE of LiveLine has no choice.
LEMMA OneLiveLine ==
  ASSUME NEW rule, NEW text \in Screens, NEW n, IsLive(rule, text, n)
  PROVE  n \in Visible(text) /\ LiveLine(rule, text) = text[n]
<1>1. DOMAIN text = 1..Len(text) /\ Len(text) \in Nat
  BY LenProperties DEF Screens
<1>2. n \in DOMAIN text /\ n \in Visible(text)
  BY DEF IsLive, IsLast, Hits, Visible
<1>3. ASSUME NEW m, IsLive(rule, text, m)
      PROVE  m = n
  <2>1. m \in DOMAIN text /\ m <= n /\ n <= m
    BY <1>3 DEF IsLive, IsLast, Hits, Visible
  <2>. QED  BY <1>1, <1>2, <2>1
<1>4. n = CHOOSE m \in DOMAIN text : IsLive(rule, text, m)
  BY <1>2, <1>3
<1>. QED  BY <1>2, <1>4 DEF LiveLine

\* Without a live line there is no prompt.
LEMMA NoLiveLine ==
  ASSUME NEW rule, NEW text \in Screens, \A n \in DOMAIN text : ~ IsLive(rule, text, n)
  PROVE  LiveLine(rule, text) = NoLine
BY DEF LiveLine

\* The blank lines herdr pads a screen with below the prompt change nothing, whatever
\* tail the rule has.
THEOREM TrailingBlanks ==
  ASSUME NEW rule \in Rule, NEW text \in Screens
  PROVE  LiveLine(rule, Append(text, Blank)) = LiveLine(rule, text)
<1> DEFINE more == Append(text, Blank)
<1>1. /\ DOMAIN text = 1..Len(text) /\ Len(text) \in Nat
      /\ more \in Screens /\ Len(more) = Len(text) + 1
      /\ \A n \in 1..Len(text) : more[n] = text[n]
      /\ more[Len(text) + 1] = Blank
  <2>1. text \in Seq(Lines \cup {Blank}) /\ Blank \in Lines \cup {Blank}
    BY DEF Screens
  <2>. QED  BY <2>1, LenProperties, AppendProperties DEF Screens
<1> HIDE DEF more
<1>2. DOMAIN more = (DOMAIN text) \cup {Len(text) + 1} /\ Len(text) + 1 \notin DOMAIN text
  <2>1. DOMAIN more = 1..(Len(text) + 1)
    BY <1>1, LenProperties DEF Screens
  <2>. QED  BY <1>1, <2>1
<1>3. Visible(more) = Visible(text)
  BY <1>1, <1>2 DEF Visible
<1>4. Hits(rule, more) = Hits(rule, text)
  BY <1>1, <1>3 DEF Hits, Visible
<1>5. \A n : IsLive(rule, more, n) <=> IsLive(rule, text, n)
  BY <1>3, <1>4 DEF IsLive, IsLast, Below
<1>6. CASE \E n \in DOMAIN text : IsLive(rule, text, n)
  <2>1. PICK n \in DOMAIN text : IsLive(rule, text, n)
    BY <1>6
  <2>2. LiveLine(rule, text) = text[n] /\ LiveLine(rule, more) = more[n]
    BY <1>1, <1>5, <2>1, OneLiveLine
  <2>. QED  BY <1>1, <2>1, <2>2 DEF more
<1>7. CASE \A n \in DOMAIN text : ~ IsLive(rule, text, n)
  <2>1. \A n \in DOMAIN more : ~ IsLive(rule, more, n)
    BY <1>5, <1>7 DEF IsLive, IsLast, Hits, Visible
  <2>2. LiveLine(rule, text) = NoLine /\ LiveLine(rule, more) = NoLine
    BY <1>1, <1>7, <2>1, NoLiveLine
  <2>. QED  BY <2>2 DEF more
<1>. QED  BY <1>6, <1>7

\* tail_within = 0 means the last line that is not blank: the rule sees a prompt exactly
\* when that line matches.
THEOREM TailOfZero ==
  ASSUME NEW rule \in Rule, rule.tail = 0, NEW text \in Screens
  PROVE  LiveLine(rule, text) # NoLine
           <=> \E n \in Visible(text) :
                 text[n] \in rule.matches /\ \A m \in Visible(text) : m <= n
<1>1. /\ DOMAIN text = 1..Len(text) /\ Len(text) \in Nat
      /\ \A n \in DOMAIN text : text[n] \in Lines \cup {Blank}
  BY LenProperties DEF Screens
<1>2. IsFiniteSet(Visible(text)) /\ Visible(text) \subseteq 1..Len(text)
  <2>1. Visible(text) \subseteq 1..Len(text)
    BY <1>1 DEF Visible
  <2>2. IsFiniteSet(1..Len(text))
    BY <1>1, FS_Interval
  <2>. QED  BY <2>1, <2>2, FS_Subset
<1>3. ASSUME NEW n
      PROVE  /\ IsFiniteSet({m \in Visible(text) : m > n}) /\ Below(text, n) \in Nat
             /\ Below(text, n) = 0 <=> {m \in Visible(text) : m > n} = {}
  <2>1. IsFiniteSet({m \in Visible(text) : m > n})
    BY <1>2, FS_Subset
  <2>. QED  BY <2>1, FS_CardinalityType, FS_EmptySet DEF Below
<1>4. 0 \in Nat /\ rule.tail # Anywhere
  BY LineAssumption
<1>5. \A n : IsLive(rule, text, n)
        <=> IsLast(rule, text, n) /\ {m \in Visible(text) : m > n} = {}
  <2> SUFFICES ASSUME NEW n
               PROVE  IsLive(rule, text, n)
                        <=> IsLast(rule, text, n) /\ {m \in Visible(text) : m > n} = {}
    OBVIOUS
  <2>1. Below(text, n) <= 0 <=> Below(text, n) = 0
    <3>1. \A k \in Nat : k <= 0 <=> k = 0
      OBVIOUS
    <3>. QED  BY <1>3, <3>1
  <2>. QED  BY <1>3, <1>4, <2>1 DEF IsLive
<1>6. \A n : IsLive(rule, text, n)
        <=> n \in Visible(text) /\ text[n] \in rule.matches /\ \A m \in Visible(text) : m <= n
  <2> SUFFICES ASSUME NEW n \in Visible(text)
               PROVE  IsLive(rule, text, n)
                        <=> text[n] \in rule.matches /\ \A m \in Visible(text) : m <= n
    BY <1>5 DEF IsLast, Hits
  <2>1. {m \in Visible(text) : m > n} = {} <=> \A m \in Visible(text) : m <= n
    BY <1>2
  <2>. QED  BY <1>5, <2>1 DEF IsLast, Hits
<1>7. ASSUME NEW n, IsLive(rule, text, n)
      PROVE  LiveLine(rule, text) # NoLine
  <2>1. n \in Visible(text) /\ LiveLine(rule, text) = text[n]
    BY <1>7, OneLiveLine
  <2>2. text[n] \in Lines
    BY <1>1, <2>1 DEF Visible
  <2>. QED  BY <2>1, <2>2, LineAssumption
<1>8. LiveLine(rule, text) # NoLine => \E n : IsLive(rule, text, n)
  BY NoLiveLine
<1>. QED  BY <1>6, <1>7, <1>8

----------------------------------------------------------------------------
(* The watch plan.                                                         *)

\* Rounds is a function of the number of rounds, and what its definition says.
LEMMA RoundsDef ==
  ASSUME NEW rules, NEW labels, NEW limit, NEW order, Len(order) \in Nat
  PROVE  LET plan == Rounds(rules, labels, limit, order)
         IN  /\ plan[0] = EmptyPlan
             /\ \A n \in 1..Len(order) :
                  plan[n] = Round(rules, labels, limit, plan[n - 1], order[n])
<1> DEFINE N == Len(order)
           After(f, n) == IF n = 0 THEN EmptyPlan
                          ELSE Round(rules, labels, limit, f[n - 1], order[n])
           X == {n \in 0..N : \E f : f = [m \in 0..n |-> After(f, m)]}
<1>1. 0 \in X
  <2> DEFINE f == [m \in 0..0 |-> EmptyPlan]
  <2>1. f = [m \in 0..0 |-> After(f, m)]
    OBVIOUS
  <2>2. 0 \in 0..N
    OBVIOUS
  <2> HIDE DEF f, After
  <2>. QED  BY <2>1, <2>2
<1>2. ASSUME NEW n \in 0..N, n \in X, n < N
      PROVE  n + 1 \in X
  <2>1. PICK f : f = [m \in 0..n |-> After(f, m)]
    BY <1>2
  <2> DEFINE g == [m \in 0..(n + 1) |-> IF m <= n THEN f[m] ELSE After(f, n + 1)]
  <2>2. ASSUME NEW m \in 0..(n + 1)
        PROVE  g[m] = After(g, m)
    <3>1. m # 0 => m - 1 \in 0..n /\ g[m - 1] = f[m - 1]
      OBVIOUS
    <3>2. CASE m <= n
      <4>1. g[m] = After(f, m)
        BY <2>1, <3>2
      <4>. QED  BY <3>1, <4>1
    <3>3. CASE m = n + 1
      BY <3>1, <3>3
    <3>. QED  BY <3>2, <3>3
  <2>3. g = [m \in 0..(n + 1) |-> After(g, m)]
    <3> HIDE DEF After
    <3>. QED  BY <2>2
  <2>4. n + 1 \in 0..N
    BY <1>2
  <2>. QED  BY <2>3, <2>4
<1>3. 0..N \subseteq X
  <2> HIDE DEF X
  <2>. QED  BY <1>1, <1>2, UpTo
<1>4. \E f : f = [n \in 0..N |-> After(f, n)]
  BY <1>3
<1>5. Rounds(rules, labels, limit, order) = CHOOSE f : f = [n \in 0..N |-> After(f, n)]
  BY DEF Rounds
<1>6. Rounds(rules, labels, limit, order)
        = [n \in 0..N |-> After(Rounds(rules, labels, limit, order), n)]
  BY <1>4, <1>5, Zenon
<1>. QED  BY <1>6

\* The loop looks at distinct panes and keeps each it takes apart from the others.
PlanType(plan) ==
  /\ plan = [targeted |-> plan.targeted, broad |-> plan.broad, enough |-> plan.enough]
  /\ plan.targeted \in Seq(PaneIds) /\ plan.broad \in Seq(PaneIds)
  /\ IsInjective(plan.targeted) /\ IsInjective(plan.broad)

\* What the plan is after rounds that have seen a set of panes: the loop is left with
\* enough panes only, and until then no targeted pane has been passed over.
PlanInv(rules, labels, limit, seen, plan) ==
  LET wanted == {p \in seen : Wanted(rules, p, labels)}
      others == {p \in seen : ~ Wanted(rules, p, labels) /\ HasUnscoped(rules)}
  IN  /\ PlanType(plan)
      /\ Range(plan.targeted) \subseteq wanted /\ Range(plan.broad) \subseteq others
      /\ Len(plan.targeted) <= limit /\ Len(plan.broad) <= limit
      /\ plan.enough => Enough(rules, limit, plan.targeted, plan.broad)
      /\ ~ plan.enough => /\ Len(plan.targeted) < limit
                          /\ wanted \subseteq Range(plan.targeted)
                          /\ Len(plan.broad) = limit \/ others \subseteq Range(plan.broad)

\* Appending a new element adds it to the range and keeps a sequence injective.
LEMMA AppendRange ==
  ASSUME NEW S, NEW s \in Seq(S), NEW e \in S
  PROVE  /\ Append(s, e) \in Seq(S) /\ Len(Append(s, e)) = Len(s) + 1
         /\ Range(Append(s, e)) = Range(s) \cup {e}
         /\ IsInjective(s) /\ e \notin Range(s) => IsInjective(Append(s, e))
<1> DEFINE t == Append(s, e)
<1>1. /\ t \in Seq(S) /\ Len(t) = Len(s) + 1 /\ Len(s) \in Nat
      /\ \A i \in 1..Len(s) : t[i] = s[i]
      /\ t[Len(s) + 1] = e
  BY AppendProperties, LenProperties
<1>2. /\ Range(s) = {s[i] : i \in 1..Len(s)} /\ DOMAIN s = 1..Len(s)
      /\ Range(t) = {t[i] : i \in 1..Len(t)} /\ DOMAIN t = 1..Len(t)
  BY <1>1, RangeEquality, LenProperties
<1> HIDE DEF t
<1>3. 1..Len(t) = (1..Len(s)) \cup {Len(s) + 1}
  BY <1>1
<1>4. Range(t) = Range(s) \cup {e}
  BY <1>1, <1>2, <1>3
<1>5. ASSUME IsInjective(s), e \notin Range(s)
      PROVE  IsInjective(t)
  <2> SUFFICES ASSUME NEW i \in 1..Len(t), NEW j \in 1..Len(t), t[i] = t[j] PROVE i = j
    BY <1>2 DEF IsInjective
  <2>1. CASE i \in 1..Len(s) /\ j \in 1..Len(s)
    BY <1>1, <1>2, <1>5, <2>1 DEF IsInjective
  <2>2. CASE i = Len(s) + 1 \/ j = Len(s) + 1
    BY <1>1, <1>2, <1>3, <1>5, <2>2
  <2>. QED  BY <1>3, <2>1, <2>2
<1>. QED  BY <1>1, <1>4, <1>5 DEF t

\* One round, for a pane not seen before, keeps the invariant of the loop.
LEMMA RoundKeepsPlanInv ==
  ASSUME NEW rules, NEW labels, NEW limit \in Nat, NEW seen \in SUBSET PaneIds, NEW plan,
         PlanInv(rules, labels, limit, seen, plan), NEW p \in PaneIds \ seen
  PROVE  PlanInv(rules, labels, limit, seen \cup {p}, Round(rules, labels, limit, plan, p))
<1> DEFINE t == Targets(rules, labels, plan, p)
           b == Broads(rules, labels, limit, plan, p)
           q == Round(rules, labels, limit, plan, p)
           wanted == {r \in seen : Wanted(rules, r, labels)}
           others == {r \in seen : ~ Wanted(rules, r, labels) /\ HasUnscoped(rules)}
           wantedNow == {r \in seen \cup {p} : Wanted(rules, r, labels)}
           othersNow == {r \in seen \cup {p} : ~ Wanted(rules, r, labels) /\ HasUnscoped(rules)}
<1>1. CASE plan.enough
  <2>1. q = plan
    BY <1>1 DEF Round
  <2>. QED  BY <1>1, <2>1 DEF PlanInv
<1>2. CASE ~ plan.enough
  <2>1. /\ q = [targeted |-> t, broad |-> b, enough |-> Enough(rules, limit, t, b)]
        /\ q.targeted = t /\ q.broad = b /\ q.enough = Enough(rules, limit, t, b)
    <3>1. q = [targeted |-> t, broad |-> b, enough |-> Enough(rules, limit, t, b)]
      BY <1>2 DEF Round
    <3> HIDE DEF q, t, b
    <3>. QED  BY <3>1
  <2>2. /\ plan.targeted \in Seq(PaneIds) /\ plan.broad \in Seq(PaneIds)
        /\ IsInjective(plan.targeted) /\ IsInjective(plan.broad)
    BY DEF PlanInv, PlanType
  <2>3. /\ Range(plan.targeted) \subseteq wanted /\ Range(plan.broad) \subseteq others
        /\ Len(plan.targeted) < limit /\ Len(plan.broad) <= limit
        /\ wanted \subseteq Range(plan.targeted)
        /\ Len(plan.broad) = limit \/ others \subseteq Range(plan.broad)
    BY <1>2 DEF PlanInv
  <2>4. /\ Len(plan.targeted) \in Nat /\ Len(plan.broad) \in Nat
        /\ p \notin Range(plan.targeted) /\ p \notin Range(plan.broad)
    BY <2>2, <2>3, LenProperties
  <2> SUFFICES PlanInv(rules, labels, limit, seen \cup {p}, q)
    OBVIOUS
  <2> HIDE DEF q
  <2>5. ASSUME /\ t \in Seq(PaneIds) /\ b \in Seq(PaneIds) /\ IsInjective(t) /\ IsInjective(b)
               /\ Range(t) \subseteq wantedNow /\ Range(b) \subseteq othersNow
               /\ Len(t) <= limit /\ Len(b) <= limit
               /\ wantedNow \subseteq Range(t)
               /\ Len(b) = limit \/ othersNow \subseteq Range(b)
        PROVE  PlanInv(rules, labels, limit, seen \cup {p}, q)
    <3> HIDE DEF t, b
    <3>1. PlanType(q)
      BY <2>1, <2>5 DEF PlanType
    <3>2. ~ q.enough => Len(t) < limit
      <4>1. Len(t) \in Nat
        BY <2>5, LenProperties
      <4>2. q.enough \/ Len(t) # limit
        BY <2>1 DEF Enough
      <4>. QED  BY <2>5, <4>1, <4>2
    <3>. QED  BY <2>1, <2>5, <3>1, <3>2 DEF PlanInv
  <2>6. CASE Wanted(rules, p, labels)
    <3>1. /\ t \in Seq(PaneIds) /\ IsInjective(t) /\ Len(t) = Len(plan.targeted) + 1
          /\ Range(t) = Range(plan.targeted) \cup {p}
      BY <2>2, <2>4, <2>6, AppendRange DEF Targets
    <3>2. b = plan.broad
      BY <2>6 DEF Broads
    <3>3. wantedNow = wanted \cup {p} /\ othersNow = others
      BY <2>6
    <3> HIDE DEF t, b, wanted, others, wantedNow, othersNow
    <3>. QED  BY <2>2, <2>3, <2>4, <2>5, <3>1, <3>2, <3>3
  <2>7. CASE ~ Wanted(rules, p, labels)
    <3>1. t = plan.targeted
      BY <2>7 DEF Targets
    <3>2. CASE HasUnscoped(rules) /\ Len(plan.broad) < limit
      <4>1. /\ b \in Seq(PaneIds) /\ IsInjective(b) /\ Len(b) = Len(plan.broad) + 1
            /\ Range(b) = Range(plan.broad) \cup {p}
        BY <2>2, <2>4, <2>7, <3>2, AppendRange DEF Broads
      <4>2. wantedNow = wanted /\ othersNow = others \cup {p}
        BY <2>7, <3>2
      <4> HIDE DEF t, b, wanted, others, wantedNow, othersNow
      <4>. QED  BY <2>2, <2>3, <2>4, <2>5, <3>1, <3>2, <4>1, <4>2
    <3>3. CASE ~ (HasUnscoped(rules) /\ Len(plan.broad) < limit)
      <4>1. b = plan.broad
        BY <3>3 DEF Broads
      <4>2. wantedNow = wanted /\ others \subseteq othersNow
        BY <2>7
      <4>3. Len(b) = limit \/ othersNow \subseteq Range(b)
        BY <2>3, <2>4, <3>3, <4>1
      <4> HIDE DEF t, b, wanted, others, wantedNow, othersNow
      <4>. QED  BY <2>2, <2>3, <2>4, <2>5, <3>1, <4>1, <4>2, <4>3
    <3>. QED  BY <3>2, <3>3
  <2>. QED  BY <2>6, <2>7
<1>. QED  BY <1>1, <1>2

Seen(order, n) == {order[m] : m \in 1..n}

\* So it holds after the last round, for all panes of the list.
LEMMA RoundsKeepPlanInv ==
  ASSUME NEW rules, NEW labels, NEW limit \in Nat \ {0}, NEW order \in Seq(PaneIds),
         IsInjective(order)
  PROVE  PlanInv(rules, labels, limit, Range(order), Rounds(rules, labels, limit, order)[Len(order)])
<1> DEFINE N == Len(order)
           plan == Rounds(rules, labels, limit, order)
           X == {n \in 0..N : PlanInv(rules, labels, limit, Seen(order, n), plan[n])}
<1>1. N \in Nat /\ DOMAIN order = 1..N /\ \A n \in 1..N : order[n] \in PaneIds
  BY LenProperties
<1>2. /\ plan[0] = EmptyPlan
      /\ \A n \in 1..N : plan[n] = Round(rules, labels, limit, plan[n - 1], order[n])
  BY <1>1, RoundsDef
<1> HIDE DEF plan
<1>3. 0 \in X
  <2>1. Seen(order, 0) = {}
    BY DEF Seen
  <2>2. /\ plan[0].targeted = << >> /\ plan[0].broad = << >> /\ plan[0].enough = FALSE
        /\ plan[0] = [targeted |-> << >>, broad |-> << >>, enough |-> FALSE]
    BY <1>2 DEF EmptyPlan
  <2>3. << >> \in Seq(PaneIds) /\ Len(<< >>) = 0
    BY EmptySeq
  <2>4. Range(<< >>) = {} /\ IsInjective(<< >>)
    <3>1. DOMAIN << >> = {}
      BY <2>3, LenProperties
    <3>. QED  BY <3>1 DEF Range, IsInjective
  <2>5. PlanType(plan[0])
    BY <2>2, <2>3, <2>4 DEF PlanType
  <2>. QED  BY <1>1, <2>1, <2>2, <2>3, <2>4, <2>5 DEF PlanInv
<1>4. ASSUME NEW n \in 0..N, n \in X, n < N
      PROVE  n + 1 \in X
  <2>1. n + 1 \in 1..N /\ n + 1 \in 0..N /\ (n + 1) - 1 = n
    BY <1>1, <1>4
  <2>2. plan[n + 1] = Round(rules, labels, limit, plan[n], order[n + 1])
    BY <1>2, <2>1
  <2>3. Seen(order, n) \in SUBSET PaneIds /\ Seen(order, n + 1) = Seen(order, n) \cup {order[n + 1]}
    BY <1>1, <2>1 DEF Seen
  <2>4. order[n + 1] \in PaneIds \ Seen(order, n)
    BY <1>1, <2>1 DEF Seen, IsInjective
  <2>5. PlanInv(rules, labels, limit, Seen(order, n), plan[n])
    BY <1>4
  <2>6. PlanInv(rules, labels, limit, Seen(order, n + 1), plan[n + 1])
    BY <2>2, <2>3, <2>4, <2>5, RoundKeepsPlanInv
  <2>. QED  BY <2>1, <2>6
<1>5. 0..N \subseteq X
  <2> HIDE DEF X
  <2>. QED  BY <1>1, <1>3, <1>4, UpTo
<1>6. Seen(order, N) = Range(order)
  BY <1>1, RangeEquality DEF Seen
<1>. QED  BY <1>1, <1>5, <1>6 DEF plan

\* The panes a scoped rule wants are all in the plan, or it is full of them.
LEMMA PlanAtTheEnd ==
  ASSUME NEW rules, NEW labels, NEW limit \in Nat \ {0}, NEW order \in Seq(PaneIds),
         IsInjective(order)
  PROVE  LET plan   == Rounds(rules, labels, limit, order)[Len(order)]
             t      == plan.targeted
             b      == plan.broad
             all    == Watchable(rules, Range(order), labels)
             wanted == Targeted(rules, Range(order), labels)
         IN  /\ t \in Seq(PaneIds) /\ b \in Seq(PaneIds) /\ IsInjective(t) /\ IsInjective(b)
             /\ Range(t) \subseteq wanted /\ Range(b) \subseteq all \ wanted
             /\ wanted \subseteq all /\ Len(t) <= limit /\ Len(b) <= limit
             /\ \/ Len(t) = limit
                \/ Range(t) = wanted /\ (Len(b) = limit \/ Range(b) = all \ wanted)
<1> DEFINE plan == Rounds(rules, labels, limit, order)[Len(order)]
           live == Range(order)
           wanted == {p \in live : Wanted(rules, p, labels)}
           others == {p \in live : ~ Wanted(rules, p, labels) /\ HasUnscoped(rules)}
<1>1. PlanInv(rules, labels, limit, live, plan)
  BY RoundsKeepPlanInv
<1>2. wanted = Targeted(rules, live, labels)
  BY DEF Wanted, Targeted, Applicable
<1>3. wanted \subseteq Watchable(rules, live, labels)
  BY DEF Wanted, Watchable, Applicable
<1>4. others = Watchable(rules, live, labels) \ wanted
  BY DEF Wanted, HasUnscoped, Watchable, Applicable, AppliesTo
<1>5. ~ HasScoped(rules) => wanted = {}
  BY DEF Wanted, HasScoped
<1> HIDE DEF plan, live
<1>6. /\ plan.targeted \in Seq(PaneIds) /\ plan.broad \in Seq(PaneIds)
      /\ IsInjective(plan.targeted) /\ IsInjective(plan.broad)
      /\ Range(plan.targeted) \subseteq wanted /\ Range(plan.broad) \subseteq others
      /\ Len(plan.targeted) <= limit /\ Len(plan.broad) <= limit
  BY <1>1 DEF PlanInv, PlanType
<1>7. \/ Len(plan.targeted) = limit
      \/ Range(plan.targeted) = wanted /\ (Len(plan.broad) = limit \/ Range(plan.broad) = others)
  <2>1. CASE plan.enough
    <3>1. Len(plan.targeted) = limit \/ (~ HasScoped(rules) /\ Len(plan.broad) = limit)
      BY <1>1, <2>1 DEF PlanInv, Enough
    <3> HIDE DEF wanted, others
    <3>. QED  BY <1>5, <1>6, <3>1
  <2>2. CASE ~ plan.enough
    <3>1. /\ wanted \subseteq Range(plan.targeted)
          /\ Len(plan.broad) = limit \/ others \subseteq Range(plan.broad)
      BY <1>1, <2>2 DEF PlanInv
    <3> HIDE DEF wanted, others
    <3>. QED  BY <1>6, <3>1
  <2>. QED  BY <2>1, <2>2
<1> HIDE DEF wanted, others
<1>. QED  BY <1>2, <1>3, <1>4, <1>6, <1>7 DEF plan, live

\* A prefix has the elements of the sequence, all of them if it is long enough.
LEMMA TakeProperties ==
  ASSUME NEW S, NEW s \in Seq(S), NEW n \in Nat
  PROVE  LET r == Take(s, n)
         IN  /\ r \in Seq(S) /\ Len(r) = (IF n <= Len(s) THEN n ELSE Len(s))
             /\ \A i \in 1..Len(r) : r[i] = s[i]
             /\ Range(r) \subseteq Range(s)
             /\ Len(s) <= n => Range(r) = Range(s)
             /\ IsInjective(s) => IsInjective(r)
<1> DEFINE r == Take(s, n)
           m == IF n <= Len(s) THEN n ELSE Len(s)
<1>1. Len(s) \in Nat /\ m \in Nat /\ m <= Len(s) /\ DOMAIN s = 1..Len(s)
      /\ \A i \in 1..m : s[i] \in S
  BY LenProperties
<1>2. r = SubSeq(s, 1, m)
  BY DEF Take
<1>6. Len(s) <= n => m = Len(s)
  <2>1. \A k \in Nat : k <= n => (IF n <= k THEN n ELSE k) = k
    OBVIOUS
  <2>. QED  BY <1>1, <2>1
<1> HIDE DEF r, m
<1>3. r \in Seq(S) /\ Len(r) = m /\ \A i \in 1..m : r[i] = s[i]
  BY <1>1, <1>2, SubSeqProperties
<1>4. /\ DOMAIN r = 1..m /\ Range(r) = {r[i] : i \in 1..m}
      /\ Range(s) = {s[i] : i \in 1..Len(s)}
  BY <1>3, LenProperties, RangeEquality
<1>5. Range(r) \subseteq Range(s)
  BY <1>1, <1>3, <1>4
<1>7. Len(s) <= n => Range(r) = Range(s)
  BY <1>3, <1>4, <1>6
<1>8. IsInjective(s) => IsInjective(r)
  BY <1>1, <1>3, <1>4 DEF IsInjective
<1>. QED  BY <1>3, <1>5, <1>7, <1>8 DEF r, m

\* Two injective sequences without an element in common make one.
LEMMA ConcatInjective ==
  ASSUME NEW S, NEW s \in Seq(S), NEW r \in Seq(S), IsInjective(s), IsInjective(r),
         Range(s) \cap Range(r) = {}
  PROVE  IsInjective(s \o r)
<1> DEFINE c == s \o r
<1>1. /\ Len(s) \in Nat /\ Len(r) \in Nat /\ DOMAIN s = 1..Len(s) /\ DOMAIN r = 1..Len(r)
      /\ Range(s) = {s[i] : i \in 1..Len(s)} /\ Range(r) = {r[i] : i \in 1..Len(r)}
  BY LenProperties, RangeEquality
<1>2. /\ c \in Seq(S) /\ Len(c) = Len(s) + Len(r)
      /\ \A i \in 1..Len(s) + Len(r) : c[i] = IF i <= Len(s) THEN s[i] ELSE r[i - Len(s)]
  BY ConcatProperties
<1>3. DOMAIN c = 1..Len(s) + Len(r)
  BY <1>2, LenProperties
<1> HIDE DEF c
<1> SUFFICES ASSUME NEW i \in 1..Len(s) + Len(r), NEW j \in 1..Len(s) + Len(r), c[i] = c[j]
             PROVE  i = j
  BY <1>3 DEF IsInjective, c
<1>4. ASSUME NEW k \in 1..Len(s) + Len(r)
      PROVE  \/ k \in 1..Len(s) /\ c[k] = s[k] /\ c[k] \in Range(s)
             \/ k - Len(s) \in 1..Len(r) /\ c[k] = r[k - Len(s)] /\ c[k] \in Range(r)
  <2>1. CASE k <= Len(s)
    BY <1>1, <1>2, <2>1
  <2>2. CASE ~ k <= Len(s)
    BY <1>1, <1>2, <2>2
  <2>. QED  BY <2>1, <2>2
<1>5. CASE i \in 1..Len(s) /\ j \in 1..Len(s) /\ c[i] = s[i] /\ c[j] = s[j]
  BY <1>1, <1>5 DEF IsInjective
<1>6. CASE /\ i - Len(s) \in 1..Len(r) /\ c[i] = r[i - Len(s)]
           /\ j - Len(s) \in 1..Len(r) /\ c[j] = r[j - Len(s)]
  <2>1. i - Len(s) = j - Len(s)
    BY <1>1, <1>6 DEF IsInjective
  <2>. QED  BY <1>1, <2>1
<1>. QED  BY <1>4, <1>5, <1>6

\* An injective sequence is as long as its range is large.
LEMMA InjectiveCardinality ==
  ASSUME NEW S, NEW s \in Seq(S), IsInjective(s)
  PROVE  IsFiniteSet(Range(s)) /\ Cardinality(Range(s)) = Len(s)
<1>1. /\ Len(s) \in Nat /\ DOMAIN s = 1..Len(s) /\ s \in [1..Len(s) -> S]
      /\ Range(s) = {s[i] : i \in 1..Len(s)}
  BY LenProperties, RangeEquality
<1>2. s \in [1..Len(s) -> Range(s)]
  BY <1>1
<1>3. s \in Surjection(1..Len(s), Range(s))
  BY <1>1, <1>2 DEF Surjection
<1>4. s \in Injection(1..Len(s), Range(s))
  BY <1>1, <1>2 DEF Injection, IsInjective
<1>5. IsFiniteSet(1..Len(s)) /\ Cardinality(1..Len(s)) = Len(s)
  BY <1>1, FS_Interval
<1>. QED  BY <1>3, <1>4, <1>5, FS_Surjection

\* watched_rules and the cut of Engine::run, for every list of rules, every order
\* herdr lists the panes in and every cap: what is read is one of the WatchSets the
\* model of the engine picks from, without a pane read twice; it fits under the cap,
\* and panes are reported as left out exactly when some are.
THEOREM WatchedIsAWatchSet ==
  ASSUME NEW rules, NEW labels, NEW cap \in Nat, NEW order \in Seq(PaneIds), IsInjective(order)
  PROVE  LET live    == Range(order)
             watched == Watched(rules, labels, cap, order)
         IN  /\ Range(watched) \in WatchSets(rules, live, labels, cap)
             /\ IsInjective(watched) /\ Len(watched) <= cap
             /\ OverCap(rules, labels, cap, order)
                  <=> Range(watched) # Watchable(rules, live, labels)
<1> DEFINE limit == cap + 1
           plan == Rounds(rules, labels, limit, order)[Len(order)]
           t == plan.targeted
           b == plan.broad
           rest == Take(b, limit - Len(t))
           r == WatchedRules(rules, labels, limit, order)
           w == Watched(rules, labels, cap, order)
           all == Watchable(rules, Range(order), labels)
           wanted == Targeted(rules, Range(order), labels)
<1>1. limit \in Nat \ {0}
  OBVIOUS
<1>2. /\ t \in Seq(PaneIds) /\ b \in Seq(PaneIds) /\ IsInjective(t) /\ IsInjective(b)
      /\ Range(t) \subseteq wanted /\ Range(b) \subseteq all \ wanted
      /\ wanted \subseteq all /\ Len(t) <= limit /\ Len(b) <= limit
      /\ \/ Len(t) = limit
         \/ Range(t) = wanted /\ (Len(b) = limit \/ Range(b) = all \ wanted)
  <2> HIDE DEF limit
  <2>. QED  BY <1>1, PlanAtTheEnd
<1>3. r = t \o rest
  BY DEF WatchedRules
<1>4. w = Take(r, cap)
  BY DEF Watched
<1>5. OverCap(rules, labels, cap, order) <=> Len(r) > cap
  BY DEF OverCap
<1>6. IsFiniteSet(all)
  <2>1. IsFiniteSet(Range(order))
    BY InjectiveCardinality
  <2>2. all \subseteq Range(order)
    BY DEF Watchable
  <2>. QED  BY <2>1, <2>2, FS_Subset
<1> HIDE DEF plan, r, w, all, wanted
<1>7. Len(t) \in Nat /\ Len(b) \in Nat /\ limit - Len(t) \in Nat
  BY <1>1, <1>2, LenProperties
<1> HIDE DEF limit
<1>8. /\ rest \in Seq(PaneIds) /\ IsInjective(rest) /\ Range(rest) \subseteq Range(b)
      /\ Len(rest) = (IF limit - Len(t) <= Len(b) THEN limit - Len(t) ELSE Len(b))
      /\ Len(b) <= limit - Len(t) => Range(rest) = Range(b)
  BY <1>2, <1>7, TakeProperties
<1> HIDE DEF rest, t, b
<1>9. /\ r \in Seq(PaneIds) /\ Len(r) = Len(t) + Len(rest) /\ Len(r) \in Nat
      /\ \A i \in 1..Len(t) : r[i] = t[i]
      /\ Range(r) = Range(t) \cup Range(rest)
  <2>1. /\ r \in Seq(PaneIds) /\ Len(r) = Len(t) + Len(rest)
        /\ \A i \in 1..Len(t) + Len(rest) : r[i] = IF i <= Len(t) THEN t[i] ELSE rest[i - Len(t)]
    <3> HIDE DEF t, b
    <3>1. t \in Seq(PaneIds) /\ rest \in Seq(PaneIds)
      BY <1>2, <1>8
    <3>. QED  BY <1>3, <3>1, ConcatProperties
  <2>2. Range(r) = Range(t) \cup Range(rest)
    BY <1>2, <1>3, <1>8, RangeConcatenation
  <2>3. Len(rest) \in Nat
    BY <1>8, LenProperties
  <2>. QED  BY <1>7, <2>1, <2>2, <2>3
<1>10. IsInjective(r)
  <2>1. Range(t) \cap Range(rest) = {}
    BY <1>2, <1>8
  <2>. QED  BY <1>2, <1>3, <1>8, <2>1, ConcatInjective
<1>11. Range(r) \subseteq all
  BY <1>2, <1>8, <1>9
<1>12. Len(r) = limit \/ (Len(r) <= limit /\ Range(r) = all)
  <2>1. CASE limit - Len(t) <= Len(b)
    <3>1. Len(rest) = limit - Len(t)
      BY <1>8, <2>1
    <3>. QED  BY <1>1, <1>7, <1>9, <3>1
  <2>2. CASE ~ limit - Len(t) <= Len(b)
    <3>1. Len(rest) = Len(b) /\ Len(r) <= limit /\ Range(rest) = Range(b)
      <4>1. Len(rest) = Len(b)
        BY <1>8, <2>2
      <4>2. Len(b) <= limit - Len(t)
        BY <1>1, <1>7, <2>2
      <4>3. Len(r) <= limit
        BY <1>1, <1>7, <1>9, <4>1, <4>2
      <4>. QED  BY <1>8, <4>1, <4>2, <4>3
    <3>2. Len(t) # limit /\ Len(b) # limit
      BY <1>1, <1>7, <2>2
    <3>3. Range(r) = all
      BY <1>2, <1>9, <3>1, <3>2
    <3>. QED  BY <3>1, <3>3
  <2>. QED  BY <2>1, <2>2
<1>13. /\ w \in Seq(PaneIds) /\ IsInjective(w) /\ Range(w) \subseteq Range(r)
       /\ Len(w) = (IF cap <= Len(r) THEN cap ELSE Len(r))
       /\ \A i \in 1..Len(w) : w[i] = r[i]
       /\ Len(r) <= cap => Range(w) = Range(r)
  BY <1>4, <1>9, <1>10, TakeProperties
<1>14. Cardinality(Range(w)) = Len(w) /\ Cardinality(Range(r)) = Len(r)
  BY <1>9, <1>10, <1>13, InjectiveCardinality
<1>15. Cardinality(all) \in Nat /\ Len(r) <= Cardinality(all)
  BY <1>6, <1>11, <1>14, FS_Subset, FS_CardinalityType
<1>16. /\ Len(r) > cap <=> Cardinality(all) > cap
       /\ Len(r) <= cap => Range(w) = all /\ Len(r) = Cardinality(all)
  <2>1. CASE Len(r) = limit
    BY <1>15, <2>1 DEF limit
  <2>2. CASE Len(r) <= limit /\ Range(r) = all
    BY <1>13, <1>14, <1>15, <2>2
  <2>. QED  BY <1>12, <2>1, <2>2
<1>17. Cardinality(Range(w)) = IF Cardinality(all) <= cap THEN Cardinality(all) ELSE cap
  BY <1>9, <1>13, <1>14, <1>15, <1>16
<1>18. Range(w) \subseteq wanted \/ wanted \subseteq Range(w)
  <2>1. /\ Range(w) = {w[i] : i \in 1..Len(w)} /\ Range(t) = {t[i] : i \in 1..Len(t)}
    BY <1>2, <1>13, RangeEquality
  <2>2. CASE cap <= Len(t)
    <3>1. Len(w) <= Len(t)
      BY <1>7, <1>9, <1>13, <2>2, LenProperties
    <3>2. \A i \in 1..Len(w) : w[i] = t[i] /\ i \in 1..Len(t)
      BY <1>7, <1>9, <1>13, <3>1
    <3>. QED  BY <1>2, <2>1, <3>2
  <2>3. CASE Len(t) < cap
    <3>1. Range(t) = wanted
      BY <1>2, <1>7, <2>3 DEF limit
    <3>2. Len(t) <= Len(w)
      BY <1>7, <1>9, <1>13, <2>3, <1>8, LenProperties
    <3>3. \A i \in 1..Len(t) : t[i] = w[i] /\ i \in 1..Len(w)
      BY <1>7, <1>9, <1>13, <3>2
    <3>. QED  BY <2>1, <3>1, <3>3
  <2>. QED  BY <1>7, <2>2, <2>3
<1>19. Range(w) \in WatchSets(rules, Range(order), labels, cap)
  <2>1. Range(w) \subseteq all
    BY <1>11, <1>13
  <2>. QED  BY <1>17, <1>18, <2>1 DEF WatchSets, all, wanted
<1>20. Len(w) <= cap
  BY <1>9, <1>13
<1>21. Len(r) > cap <=> Range(w) # all
  <2>1. Range(w) = all => ~ (Len(r) > cap)
    BY <1>9, <1>14, <1>15, <1>16, <1>20
  <2>2. ~ (Len(r) > cap) => Range(w) = all
    BY <1>9, <1>16
  <2>. QED  BY <2>1, <2>2
<1>. QED  BY <1>5, <1>13, <1>19, <1>20, <1>21 DEF w, all
=============================================================================
