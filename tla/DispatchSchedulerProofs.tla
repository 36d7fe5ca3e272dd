----------------------- MODULE DispatchSchedulerProofs -----------------------
(***************************************************************************)
(* Proofs about DispatchScheduler, for any fleet, efficiency, number of    *)
(* hours and prices.                                                       *)
(*                                                                         *)
(* About the optimizer: one Step keeps a battery within its rating and     *)
(* bounds; so does every hour of DayOf, whose recursion over the hours is  *)
(* followed by a least counterexample; hours filled with the mean of the   *)
(* others are neutral, which takes some lemmas about sums over finite      *)
(* sets.                                                                   *)
(*                                                                         *)
(* About the loops: what each of them holds while it waits stays a         *)
(* schedule with the hour it is at work on, whatever the others store or   *)
(* patch meanwhile, because a schedule in the dictionary only goes on to   *)
(* one with the same hours or more; and a step changes at most one         *)
(* schedule, to one that is as feasible as the one before.                 *)
(***************************************************************************)
EXTENDS DispatchScheduler, FiniteSetTheorems, TLAPS

-----------------------------------------------------------------------------
\* One hour of one battery.

LEMMA Quotient ==
    ASSUME NEW a \in Nat, NEW n \in Nat \ {0}
    PROVE  /\ a \div n \in Nat
           /\ n * (a \div n) <= a
           /\ a < n * (a \div n) + n
  OBVIOUS

LEMMA QuotientAtLeast ==
    ASSUME NEW a \in Nat, NEW n \in Nat \ {0}, NEW k \in Nat, n * k <= a
    PROVE  a \div n >= k
<1> DEFINE q == a \div n
<1>1. q \in Nat /\ a < n * q + n
  BY Quotient
<1>2. n * k < n * q + n
  BY <1>1
<1>3. SUFFICES ASSUME q < k PROVE FALSE
  BY <1>1
<1>4. n * (q + 1) <= n * k
  <2> HIDE DEF q
  <2>1. PICK d \in Nat : k = q + 1 + d
    <3>1. k - (q + 1) \in Nat
      BY <1>1, <1>3
    <3>. QED BY <3>1, <1>1
  <2>2. n * k = n * (q + 1) + n * d
    BY <1>1, <2>1
  <2>3. n * d \in Nat /\ n * (q + 1) \in Nat
    BY <1>1
  <2>. QED  BY <2>2, <2>3
<1> HIDE DEF q
<1>5. n * (q + 1) = n * q + n
  BY <1>1
<1>6. n * q \in Nat /\ n * k \in Nat
  BY <1>1
<1>. QED  BY <1>2, <1>4, <1>5, <1>6

LEMMA Inflated ==
    ASSUME NEW a \in Nat
    PROVE  (a * EtaDen) \div EtaNum \in Nat /\ (a * EtaDen) \div EtaNum >= a
<1>1. a * EtaDen \in Nat /\ EtaNum * a <= a * EtaDen
  <2>1. PICK d \in Nat : EtaDen = EtaNum + d
    <3>1. EtaDen - EtaNum \in Nat
      BY OptimizerAssumption
    <3>. QED BY <3>1, OptimizerAssumption
  <2>2. a * EtaDen = EtaNum * a + a * d /\ a * d \in Nat
    BY <2>1, OptimizerAssumption
  <2>. QED BY <2>2, OptimizerAssumption
<1>. QED  BY <1>1, OptimizerAssumption, Quotient, QuotientAtLeast

LEMMA Deflated ==
    ASSUME NEW a \in Nat
    PROVE  /\ (a * EtaNum) \div EtaDen \in Nat
           /\ a >= 10 => (a * EtaNum) \div EtaDen >= 1
           /\ (a * EtaNum) \div EtaDen >= 1 => a >= 1
<1>1. a * EtaNum \in Nat
  BY OptimizerAssumption
<1>2. ASSUME a >= 10 PROVE EtaDen * 1 <= a * EtaNum
  <2>1. PICK d \in Nat : a = 10 + d
    <3>1. a - 10 \in Nat
      BY <1>2
    <3>. QED BY <3>1
  <2>2. a * EtaNum = 10 * EtaNum + d * EtaNum /\ d * EtaNum \in Nat
    BY <2>1, OptimizerAssumption
  <2>. QED BY <2>2, OptimizerAssumption
<1>3. a = 0 => (a * EtaNum) \div EtaDen = 0
  BY OptimizerAssumption
<1>. QED  BY <1>1, <1>2, <1>3, OptimizerAssumption, Quotient, QuotientAtLeast

LEMMA ChargeOK ==
    ASSUME NEW spec \in Ratings, NEW e \in Int
    PROVE  \E p \in 0..spec.maxPower, x \in Int :
              /\ Charge(spec, e) = <<p, x>>
              /\ p = 0 => x = e
              /\ p > 0 => x > e /\ x <= spec.max
<1>1. spec.maxPower \in Nat /\ spec.max \in Nat
  BY DEF Ratings
<1> DEFINE most == (spec.maxPower * EtaNum) \div EtaDen
           stored == Smaller(spec.max - e, most)
           power == (stored * EtaDen) \div EtaNum
<1>2. most \in Nat /\ (most >= 1 => spec.maxPower >= 1)
  BY <1>1, Deflated
<1>3. CASE stored < 10
  <2>1. Charge(spec, e) = <<0, e>>
    BY <1>3 DEF Charge
  <2>. QED BY <1>1, <2>1
<1>4. CASE ~(stored < 10)
  <2>1. stored \in Nat /\ stored >= 10 /\ stored <= most /\ stored <= spec.max - e
    <3> HIDE DEF most
    <3>. QED BY <1>1, <1>2, <1>4 DEF Smaller
  <2>2. power \in Nat /\ power >= stored
    <3> HIDE DEF stored
    <3>. QED  BY <2>1, Inflated
  <2>3. Charge(spec, e) = <<Smaller(power, spec.maxPower), e + stored>>
    BY <1>4 DEF Charge
  <2> HIDE DEF power, stored, most
  <2>4. Smaller(power, spec.maxPower) \in 1..spec.maxPower
    BY <1>1, <1>2, <2>1, <2>2 DEF Smaller
  <2>5. e + stored \in Int /\ e + stored > e /\ e + stored <= spec.max
    BY <1>1, <2>1
  <2>. QED BY <1>1, <2>3, <2>4, <2>5
<1>. QED BY <1>3, <1>4

LEMMA DischargeOK ==
    ASSUME NEW spec \in Ratings, NEW e \in Int
    PROVE  \E p \in -spec.maxPower..0, x \in Int :
              /\ Discharge(spec, e) = <<p, x>>
              /\ p = 0 => x = e
              /\ p < 0 => x < e /\ x >= spec.min
<1>1. spec.maxPower \in Nat /\ spec.min \in Nat
  BY DEF Ratings
<1> DEFINE most == (spec.maxPower * EtaDen) \div EtaNum
           taken == Smaller(e - spec.min, most)
           power == (taken * EtaNum) \div EtaDen
<1>2. most \in Nat /\ (spec.maxPower = 0 => most = 0)
  <2>1. spec.maxPower = 0 => most = 0
    BY OptimizerAssumption
  <2>. QED  BY <1>1, <2>1, Inflated
<1>3. CASE taken < 10
  <2>1. Discharge(spec, e) = <<0, e>>
    BY <1>3 DEF Discharge
  <2>. QED BY <1>1, <2>1
<1>4. CASE ~(taken < 10)
  <2>1. taken \in Nat /\ taken >= 10 /\ taken <= most /\ taken <= e - spec.min
    <3> HIDE DEF most
    <3>. QED BY <1>1, <1>2, <1>4 DEF Smaller
  <2>2. power \in Nat /\ power >= 1
    <3> HIDE DEF taken
    <3>. QED  BY <2>1, Deflated
  <2>3. Discharge(spec, e) = <<-Smaller(power, spec.maxPower), e - taken>>
    BY <1>4 DEF Discharge
  <2> HIDE DEF power, taken, most
  <2>4. -Smaller(power, spec.maxPower) \in -spec.maxPower..-1
    BY <1>1, <1>2, <2>1, <2>2 DEF Smaller
  <2>5. e - taken \in Int /\ e - taken < e /\ e - taken >= spec.min
    BY <1>1, <2>1
  <2>. QED BY <1>1, <2>3, <2>4, <2>5
<1>. QED BY <1>3, <1>4


LEMMA StepFeasible ==
    ASSUME NEW spec \in Ratings, NEW e \in Int, NEW type, NEW h, NEW last
    PROVE  /\ Step(spec, type, h, e, last) \in Action
           /\ Step(spec, type, h, e, last).before = e
           /\ Feasible(spec, Step(spec, type, h, e, last))
<1> DEFINE wish == Desired(spec, type, e, h, last)
           result == CASE wish = "charge"    -> Charge(spec, e)
                       [] wish = "discharge" -> Discharge(spec, e)
                       [] OTHER              -> <<0, e>>
<1>1. wish \in Types
  BY DEF Desired, Types
<1>2. PICK p \in Int, x \in Int :
         /\ result = <<p, x>>
         /\ wish = "charge" => p \in 0..spec.maxPower
         /\ wish = "discharge" => p \in -spec.maxPower..0
         /\ wish = "stop" => p = 0
         /\ p = 0 => x = e
         /\ p > 0 => x > e /\ x <= spec.max
         /\ p < 0 => x < e /\ x >= spec.min
  <2> HIDE DEF wish
  <2>0. spec.maxPower \in Nat
    BY DEF Ratings
  <2>1. CASE wish = "charge"
    <3>1. result = Charge(spec, e)
      BY <2>1
    <3> HIDE DEF result
    <3>. QED  BY <2>0, <2>1, <3>1, ChargeOK
  <2>2. CASE wish = "discharge"
    <3>1. result = Discharge(spec, e)
      BY <2>2
    <3> HIDE DEF result
    <3>. QED  BY <2>0, <2>2, <3>1, DischargeOK
  <2>3. CASE wish = "stop"
    BY <2>3
  <2>. QED  BY <1>1, <2>1, <2>2, <2>3 DEF Types
<1>3. Step(spec, type, h, e, last) =
        [type |-> IF p = 0 THEN "stop" ELSE wish, power |-> p, before |-> e, after |-> x]
  <2>1. Step(spec, type, h, e, last) =
        [type |-> IF result[1] = 0 THEN "stop" ELSE wish, power |-> result[1], before |-> e, after |-> result[2]]
    BY DEF Step
  <2> HIDE DEF wish, result
  <2>. QED  BY <1>2, <2>1
<1> HIDE DEF wish, result
<1>4. spec.maxPower \in Nat /\ spec.max \in Nat /\ spec.min \in Nat
  BY DEF Ratings
<1> DEFINE t == IF p = 0 THEN "stop" ELSE wish
<1>5. /\ t \in Types
      /\ t = "charge" <=> p > 0
      /\ t = "discharge" <=> p < 0
      /\ p \in -spec.maxPower..spec.maxPower
  BY <1>1, <1>2, <1>4 DEF Types
<1>6. (x - e) * p >= 0
  <2>1. CASE p = 0
    BY <2>1
  <2>2. CASE p > 0
    BY <1>2, <2>2
  <2>3. CASE p < 0
    BY <1>2, <2>3
  <2>. QED  BY <2>1, <2>2, <2>3
<1> HIDE DEF t
<1>7. PICK a \in Action : a = [type |-> t, power |-> p, before |-> e, after |-> x]
  BY <1>5 DEF Action
<1>8. a.type = t /\ a.power = p /\ a.before = e /\ a.after = x
  BY <1>7
<1>9. Step(spec, type, h, e, last) = a
  BY <1>3, <1>7 DEF t
<1>10. x >= Smaller(e, spec.min) /\ (x <= spec.max \/ x <= e)
  BY <1>2, <1>4 DEF Smaller
<1>. QED  BY <1>2, <1>4, <1>5, <1>6, <1>8, <1>9, <1>10 DEF Feasible

\* A neutral hour moves no energy.
LEMMA StepNeutral ==
    ASSUME NEW spec, NEW e, NEW h, NEW last
    PROVE  Step(spec, "neutral", h, e, last).after = e
<1>1. Desired(spec, "neutral", e, h, last) = "stop"
  BY DEF Desired
<1>2. Step(spec, "neutral", h, e, last) = [type |-> "stop", power |-> 0, before |-> e, after |-> e]
  BY <1>1 DEF Step
<1>. QED  BY <1>2

-----------------------------------------------------------------------------
\* The day of a battery is a recursive function of the hour.  That there is one, and
\* what holds of every hour, is shown by a least counterexample.

LEMMA LeastNumber ==
    ASSUME NEW T \in SUBSET Nat, T # {}
    PROVE  \E n \in T : \A m \in T : n <= m
<1>1. PICK t \in T : TRUE
  OBVIOUS
<1> DEFINE Below(k) == 0..k
           Sets == {Below(k) : k \in {j \in T : j <= t}}
<1>2. IsFiniteSet(0..t)
  BY FS_Interval
<1>3. Sets \subseteq SUBSET (0..t) /\ Sets # {}
  OBVIOUS
<1>4. IsWellFoundedOn(StrictSubsetOrdering(0..t), SUBSET (0..t))
  BY <1>2, FS_StrictSubsetOrderingWellFounded, FS_FiniteSubsetsOfFinite
<1>5. PICK x \in Sets : \A y \in Sets : ~(<<y, x>> \in StrictSubsetOrdering(0..t))
  <2> HIDE DEF Sets
  <2>. QED BY <1>3, <1>4, WFMin, Zenon
<1>6. PICK n \in T : n <= t /\ x = Below(n)
  OBVIOUS
<1>7. ASSUME NEW m \in T, ~(n <= m) PROVE FALSE
  <2>1. Below(m) \in Sets
    BY <1>6, <1>7
  <2>2. Below(m) \subseteq Below(n) /\ Below(m) # Below(n) /\ Below(n) \subseteq 0..t /\ Below(m) \subseteq 0..t
    <3>1. n \in Below(n) /\ n \notin Below(m)
      BY <1>7
    <3>. QED BY <3>1, <1>6, <1>7
  <2>3. <<Below(m), Below(n)>> \in StrictSubsetOrdering(0..t)
    BY <2>2 DEF StrictSubsetOrdering
  <2>. QED BY <1>5, <1>6, <2>1, <2>3
<1>. QED BY <1>6, <1>7

\* The hour h of a walk whose earlier hours are those of w.
NoAction == [type |-> "stop", hour |-> 0]

Before(initial, w, h) == IF h = 0 THEN [action |-> [after |-> initial], last |-> NoAction] ELSE w[h - 1]

ActionIn(spec, initial, types, w, h) ==
    Step(spec, types[h], h, Before(initial, w, h).action.after, Before(initial, w, h).last)

HourOf(spec, initial, types, w, h) ==
    [action |-> ActionIn(spec, initial, types, w, h),
     last |-> IF ActionIn(spec, initial, types, w, h).power = 0 THEN Before(initial, w, h).last
              ELSE [type |-> ActionIn(spec, initial, types, w, h).type, hour |-> h]]

WalkTo(spec, initial, types, n, w) == w = [h \in 0..n |-> HourOf(spec, initial, types, w, h)]

LEMMA DayIs ==
    ASSUME NEW spec, NEW initial, NEW prices
    PROVE  DayOf(spec, initial, prices) =
             [h \in Hours |->
                (CHOOSE v : WalkTo(spec, initial, Classified(prices), HoursPerDay - 1, v))[h].action]
  BY Zenon DEF DayOf, WalkTo, HourOf, ActionIn, Before, NoAction, Hours

LEMMA WalksExist ==
    ASSUME NEW spec, NEW initial, NEW types, NEW n \in Nat
    PROVE  \E w : WalkTo(spec, initial, types, n, w)
<1> DEFINE Missing == {m \in Nat : ~\E w : WalkTo(spec, initial, types, m, w)}
<1>1. SUFFICES ASSUME Missing # {} PROVE FALSE
  OBVIOUS
<1>2. PICK k \in Missing : \A m \in Missing : k <= m
  <2> HIDE DEF Missing
  <2>1. Missing \in SUBSET Nat
    BY DEF Missing
  <2>. QED  BY <1>1, <2>1, LeastNumber
<1>3. PICK g : k > 0 => WalkTo(spec, initial, types, k - 1, g)
  <2>1. k > 0 => k - 1 \in Nat /\ k - 1 \notin Missing
    BY <1>2
  <2>. QED  BY <2>1
<1> DEFINE w == [h \in 0..k |-> HourOf(spec, initial, types, g, h)]
<1>4. ASSUME NEW h \in 0..k PROVE Before(initial, w, h) = Before(initial, g, h)
  <2>1. CASE h = 0
    BY <2>1 DEF Before
  <2>2. CASE h # 0
    <3>1. k > 0 /\ h - 1 \in 0..k /\ h - 1 \in 0..(k - 1)
      BY <1>2, <2>2
    <3>2. w[h - 1] = HourOf(spec, initial, types, g, h - 1)
      BY <3>1
    <3>3. g[h - 1] = HourOf(spec, initial, types, g, h - 1)
      BY <1>3, <3>1 DEF WalkTo
    <3> HIDE DEF w
    <3>. QED  BY <2>2, <3>2, <3>3 DEF Before
  <2>. QED  BY <2>1, <2>2
<1>5. \A h \in 0..k : w[h] = HourOf(spec, initial, types, w, h)
  <2>1. \A h \in 0..k : w[h] = HourOf(spec, initial, types, g, h)
    OBVIOUS
  <2> HIDE DEF w
  <2>. QED  BY <1>4, <2>1 DEF HourOf, ActionIn
<1>6. w = [h \in 0..k |-> w[h]]
  OBVIOUS
<1>7. WalkTo(spec, initial, types, k, w)
  <2> HIDE DEF w
  <2>. QED  BY <1>5, <1>6 DEF WalkTo
<1>. QED  BY <1>2, <1>7

\* optimize_day() for one battery: every hour is within the rating and the bounds, and
\* goes on from where the hour before it ended.
LEMMA DayFeasible ==
    ASSUME NEW spec \in Ratings, NEW initial \in Int, NEW prices
    PROVE  /\ DayOf(spec, initial, prices) \in [Hours -> Action]
           /\ \A h \in Hours : Feasible(spec, DayOf(spec, initial, prices)[h])
           /\ DayOf(spec, initial, prices)[0].before = initial
           /\ Connected(DayOf(spec, initial, prices), 0)
           /\ \A h \in Hours : Classified(prices)[h] = "neutral" =>
                 DayOf(spec, initial, prices)[h].after = DayOf(spec, initial, prices)[h].before
<1> DEFINE n == HoursPerDay - 1
           types == Classified(prices)
<1>0. n \in Nat /\ Hours = 0..n
  BY OptimizerAssumption DEF Hours
<1>1. PICK w : /\ WalkTo(spec, initial, types, n, w)
               /\ DayOf(spec, initial, prices) = [h \in Hours |-> w[h].action]
  <2> HIDE DEF n, types
  <2>1. \E v : WalkTo(spec, initial, types, n, v)
    BY <1>0, WalksExist
  <2>2. WalkTo(spec, initial, types, n, CHOOSE v : WalkTo(spec, initial, types, n, v))
    BY <2>1
  <2>. QED  BY <2>2, DayIs DEF n, types
<1> HIDE DEF n, types
<1>2. ASSUME NEW h \in Hours PROVE w[h].action = ActionIn(spec, initial, types, w, h)
  BY <1>0, <1>1 DEF WalkTo, HourOf
<1>3. ASSUME NEW h \in Hours, Before(initial, w, h).action.after \in Int
      PROVE  /\ w[h].action \in Action
             /\ w[h].action.before = Before(initial, w, h).action.after
             /\ Feasible(spec, w[h].action)
  BY <1>2, <1>3, StepFeasible DEF ActionIn
<1> DEFINE Bad == {h \in Hours : Before(initial, w, h).action.after \notin Int}
<1>4. Bad = {}
  <2>1. SUFFICES ASSUME Bad # {} PROVE FALSE
    OBVIOUS
  <2>2. PICK k \in Bad : \A m \in Bad : k <= m
    <3>1. Bad \in SUBSET Nat
      BY <1>0
    <3> HIDE DEF Bad
    <3>. QED  BY <2>1, <3>1, LeastNumber
  <2>3. k # 0
    BY DEF Before
  <2>4. k - 1 \in Hours /\ k - 1 \notin Bad
    BY <1>0, <2>2, <2>3
  <2>5. w[k - 1].action \in Action
    BY <1>3, <2>4
  <2>6. w[k - 1].action.after \in Int
    BY <2>5 DEF Action
  <2>. QED  BY <2>2, <2>3, <2>6 DEF Before
<1>5. \A h \in Hours : /\ w[h].action \in Action
                       /\ w[h].action.before = Before(initial, w, h).action.after
                       /\ Feasible(spec, w[h].action)
  BY <1>3, <1>4
<1> HIDE DEF Bad
<1>6. w[0].action.before = initial /\ 0 \in Hours
  BY <1>0, <1>5 DEF Before
<1>7. ASSUME NEW k \in 0 + 1..HoursPerDay - 1
      PROVE  w[k].action.before = w[k - 1].action.after /\ k \in Hours /\ k - 1 \in Hours
  BY <1>0, <1>5 DEF Before, n
<1>8. ASSUME NEW h \in Hours, types[h] = "neutral" PROVE w[h].action.after = w[h].action.before
  BY <1>2, <1>5, <1>8, StepNeutral DEF ActionIn
<1>9. \A h \in Hours : Classified(prices)[h] = "neutral" => w[h].action.after = w[h].action.before
  BY <1>8 DEF types
<1>. QED  BY <1>1, <1>5, <1>6, <1>7, <1>9 DEF Connected

\* Hours at the beginning of the day that are neutral leave the battery as it was.
LEMMA NothingMovedBefore ==
    ASSUME NEW spec \in Ratings, NEW initial \in Int, NEW prices, NEW first \in Hours,
           \A h \in Hours : h < first => Classified(prices)[h] = "neutral"
    PROVE  DayOf(spec, initial, prices)[first].before = initial
<1>1. PICK w : w = DayOf(spec, initial, prices)
  OBVIOUS
<1>2. /\ w[0].before = initial
      /\ \A h \in Hours : h < first => w[h].after = w[h].before
      /\ \A k \in 1..HoursPerDay - 1 : w[k].before = w[k - 1].after
  <2>1. /\ w[0].before = initial
        /\ Connected(w, 0)
        /\ \A h \in Hours : Classified(prices)[h] = "neutral" => w[h].after = w[h].before
    BY <1>1, DayFeasible
  <2>2. \A k \in 0 + 1..HoursPerDay - 1 : w[k].before = w[k - 1].after
    BY <2>1 DEF Connected
  <2>. QED  BY <2>1, <2>2
<1>3. HoursPerDay \in Nat \ {0} /\ first \in Nat /\ first <= HoursPerDay - 1
  BY OptimizerAssumption DEF Hours
<1> DEFINE Bad == {h \in 0..first : w[h].before # initial}
<1>4. SUFFICES ASSUME Bad # {} PROVE FALSE
  BY <1>1, <1>3
<1>5. PICK k \in Bad : \A m \in Bad : k <= m
  <2>1. Bad \in SUBSET Nat
    OBVIOUS
  <2> HIDE DEF Bad
  <2>. QED  BY <1>4, <2>1, LeastNumber
<1>6. k # 0 /\ k \in 1..HoursPerDay - 1
  BY <1>2, <1>3
<1>7. k - 1 \in 0..first /\ k - 1 < first /\ k - 1 \in Hours /\ k - 1 \notin Bad
  BY <1>3, <1>5, <1>6 DEF Hours
<1>8. w[k].before = w[k - 1].after /\ w[k - 1].after = w[k - 1].before /\ w[k - 1].before = initial
  BY <1>2, <1>6, <1>7
<1>. QED  BY <1>8

-----------------------------------------------------------------------------
\* Sums over finite sets.

Pick(s) == CHOOSE x \in s : TRUE
Sums(f, S, g) == g = [s \in SUBSET S |-> IF s = {} THEN 0 ELSE f[Pick(s)] + g[s \ {Pick(s)}]]

LEMMA SumIs ==
  ASSUME NEW f, NEW S
  PROVE \E g : g = (CHOOSE h : Sums(f, S, h)) /\ SumFunctionOnSet(f, S) = g[S]
  BY DEF SumFunctionOnSet, FoldFunctionOnSet, MapThenFoldSet, Sums, Pick

Few(S, n) == {s \in SUBSET S : Cardinality(s) <= n}
SumsUpTo(f, S, n, g) == g = [s \in Few(S, n) |-> IF s = {} THEN 0 ELSE f[Pick(s)] + g[s \ {Pick(s)}]]

LEMMA Removed ==
    ASSUME NEW S, IsFiniteSet(S), NEW s \in SUBSET S, s # {}
    PROVE  /\ Pick(s) \in s
           /\ s \ {Pick(s)} \in SUBSET S
           /\ Cardinality(s) \in Nat \ {0}
           /\ Cardinality(s \ {Pick(s)}) = Cardinality(s) - 1
<1>1. Pick(s) \in s
  BY DEF Pick
<1>2. IsFiniteSet(s)
  BY FS_Subset
<1>3. Cardinality(s) \in Nat /\ Cardinality(s) # 0
  BY <1>2, FS_CardinalityType, FS_EmptySet
<1>. QED  BY <1>1, <1>2, <1>3, FS_RemoveElement

LEMMA PartialSums ==
    ASSUME NEW f, NEW S, IsFiniteSet(S), NEW n \in Nat
    PROVE  \E g : SumsUpTo(f, S, n, g)
<1> DEFINE Missing == {m \in Nat : ~\E g : SumsUpTo(f, S, m, g)}
<1>1. SUFFICES ASSUME Missing # {} PROVE FALSE
  OBVIOUS
<1>2. PICK k \in Missing : \A m \in Missing : k <= m
  <2> HIDE DEF Missing
  <2>1. Missing \in SUBSET Nat
    BY DEF Missing
  <2>. QED  BY <1>1, <2>1, LeastNumber
<1>3. CASE k = 0
  <2> DEFINE g == [s \in Few(S, 0) |-> 0]
  <2>1. \A s \in Few(S, 0) : s = {}
    <3> SUFFICES ASSUME NEW s \in Few(S, 0), s # {} PROVE FALSE
      OBVIOUS
    <3>1. s \in SUBSET S /\ Cardinality(s) <= 0
      BY DEF Few
    <3>2. Cardinality(s) \in Nat \ {0}
      BY <3>1, Removed
    <3>. QED  BY <3>1, <3>2
  <2>2. SumsUpTo(f, S, 0, g)
    BY <2>1 DEF SumsUpTo
  <2>. QED  BY <1>3, <2>2
<1>4. CASE k > 0
  <2>1. PICK g : SumsUpTo(f, S, k - 1, g)
    <3>1. k - 1 \in Nat /\ k - 1 \notin Missing
      BY <1>2, <1>4
    <3>. QED  BY <3>1
  <2> DEFINE h == [s \in Few(S, k) |-> IF s = {} THEN 0 ELSE f[Pick(s)] + g[s \ {Pick(s)}]]
  <2>2. ASSUME NEW s \in Few(S, k), s # {} PROVE h[s \ {Pick(s)}] = g[s \ {Pick(s)}]
    <3> DEFINE t == s \ {Pick(s)}
    <3>1. t \in Few(S, k - 1) /\ t \in Few(S, k)
      <4>1. s \in SUBSET S /\ Cardinality(s) <= k
        BY DEF Few
      <4>2. t \in SUBSET S /\ Cardinality(t) = Cardinality(s) - 1 /\ Cardinality(s) \in Nat
        BY <2>2, <4>1, Removed
      <4> HIDE DEF t
      <4>. QED  BY <4>1, <4>2 DEF Few
    <3> HIDE DEF t
    <3>2. h[t] = IF t = {} THEN 0 ELSE f[Pick(t)] + g[t \ {Pick(t)}]
      BY <3>1
    <3>3. g[t] = IF t = {} THEN 0 ELSE f[Pick(t)] + g[t \ {Pick(t)}]
      BY <2>1, <3>1 DEF SumsUpTo
    <3>. QED  BY <3>2, <3>3 DEF t
  <2>3. SumsUpTo(f, S, k, h)
    <3>1. h = [s \in Few(S, k) |-> IF s = {} THEN 0 ELSE f[Pick(s)] + h[s \ {Pick(s)}]]
      <4>1. \A s \in Few(S, k) : h[s] = IF s = {} THEN 0 ELSE f[Pick(s)] + g[s \ {Pick(s)}]
        OBVIOUS
      <4>2. \A s \in Few(S, k) : h[s] = IF s = {} THEN 0 ELSE f[Pick(s)] + h[s \ {Pick(s)}]
        <5> HIDE DEF h
        <5>. QED  BY <2>2, <4>1
      <4>3. h = [s \in Few(S, k) |-> h[s]]
        OBVIOUS
      <4> HIDE DEF h
      <4>. QED  BY <4>2, <4>3
    <3> HIDE DEF h
    <3>. QED  BY <3>1 DEF SumsUpTo
  <2>. QED  BY <2>3, <1>2
<1>. QED  BY <1>2, <1>3, <1>4

\* Among some subsets of a finite set there is one without a smaller one.
LEMMA LeastSet ==
    ASSUME NEW S, IsFiniteSet(S), NEW T \in SUBSET (SUBSET S), T # {}
    PROVE  \E s \in T : \A t \in T : t \subseteq s => t = s
<1>1. IsWellFoundedOn(StrictSubsetOrdering(S), SUBSET S)
  BY FS_StrictSubsetOrderingWellFounded, FS_FiniteSubsetsOfFinite
<1>2. PICK s \in T : \A t \in T : <<t, s>> \notin StrictSubsetOrdering(S)
  BY <1>1, WFMin, Zenon
<1>3. ASSUME NEW t \in T, t \subseteq s, t # s PROVE FALSE
  <2>1. <<t, s>> \in StrictSubsetOrdering(S)
    BY <1>3 DEF StrictSubsetOrdering
  <2>. QED  BY <1>2, <2>1
<1>. QED  BY <1>3

LEMMA SumExists ==
    ASSUME NEW f, NEW S, IsFiniteSet(S)
    PROVE  \E g : Sums(f, S, g) /\ SumFunctionOnSet(f, S) = g[S]
<1>1. \E g : Sums(f, S, g)
  <2>1. Cardinality(S) \in Nat /\ Few(S, Cardinality(S)) = SUBSET S
    BY FS_CardinalityType, FS_Subset DEF Few
  <2>2. PICK g : SumsUpTo(f, S, Cardinality(S), g)
    BY <2>1, PartialSums
  <2>. QED  BY <2>1, <2>2 DEF Sums, SumsUpTo
<1>2. Sums(f, S, CHOOSE h : Sums(f, S, h))
  BY <1>1
<1>. QED  BY <1>2, SumIs

\* A sum is the sum without the element picked first, and that element.
LEMMA SumStep ==
    ASSUME NEW f, NEW S, IsFiniteSet(S)
    PROVE  SumFunctionOnSet(f, S) =
             IF S = {} THEN 0 ELSE f[Pick(S)] + SumFunctionOnSet(f, S \ {Pick(S)})
<1>1. PICK g : Sums(f, S, g) /\ SumFunctionOnSet(f, S) = g[S]
  BY SumExists
<1>2. g[S] = IF S = {} THEN 0 ELSE f[Pick(S)] + g[S \ {Pick(S)}]
  BY <1>1 DEF Sums
<1>3. PICK R : R = S \ {Pick(S)}
  OBVIOUS
<1>4. PICK h : Sums(f, R, h) /\ SumFunctionOnSet(f, R) = h[R]
  <2>1. IsFiniteSet(R)
    BY <1>3, FS_Subset
  <2>. QED  BY <2>1, SumExists
<1> DEFINE Bad == {s \in SUBSET R : g[s] # h[s]}
<1>5. Bad = {}
  <2>1. SUFFICES ASSUME Bad # {} PROVE FALSE
    OBVIOUS
  <2>2. Bad \in SUBSET (SUBSET S)
    BY <1>3
  <2>3. PICK s \in Bad : \A t \in Bad : t \subseteq s => t = s
    <3> HIDE DEF Bad
    <3>. QED  BY <2>1, <2>2, LeastSet
  <2>4. s \in SUBSET R /\ s \in SUBSET S
    BY <2>2
  <2>5. /\ g[s] = IF s = {} THEN 0 ELSE f[Pick(s)] + g[s \ {Pick(s)}]
        /\ h[s] = IF s = {} THEN 0 ELSE f[Pick(s)] + h[s \ {Pick(s)}]
    BY <1>1, <1>4, <2>4 DEF Sums
  <2>6. s # {}
    BY <2>5
  <2>7. PICK t : t = s \ {Pick(s)}
    OBVIOUS
  <2>8. t \subseteq s /\ t # s /\ t \in SUBSET R
    BY <2>4, <2>6, <2>7, Removed
  <2>9. g[t] = h[t]
    BY <2>3, <2>8
  <2>. QED  BY <2>5, <2>7, <2>9
<1>6. g[R] = h[R]
  BY <1>5
<1>. QED  BY <1>1, <1>2, <1>3, <1>4, <1>6

LEMMA SumIsNatural ==
    ASSUME NEW f, NEW S, IsFiniteSet(S), \A x \in S : f[x] \in Nat
    PROVE  SumFunctionOnSet(f, S) \in Nat
<1> DEFINE Bad == {s \in SUBSET S : SumFunctionOnSet(f, s) \notin Nat}
<1>1. SUFFICES ASSUME Bad # {} PROVE FALSE
  OBVIOUS
<1>2. PICK s \in Bad : \A t \in Bad : t \subseteq s => t = s
  <2>1. Bad \in SUBSET (SUBSET S)
    OBVIOUS
  <2> HIDE DEF Bad
  <2>. QED  BY <1>1, <2>1, LeastSet
<1>3. IsFiniteSet(s)
  BY FS_Subset
<1>4. s # {}
  <2>1. s = {} => SumFunctionOnSet(f, s) = 0
    BY <1>3, SumStep
  <2>. QED  BY <2>1
<1>5. Pick(s) \in s /\ s \ {Pick(s)} \in SUBSET S
  BY <1>4, Removed
<1>6. SumFunctionOnSet(f, s \ {Pick(s)}) \in Nat
  BY <1>2, <1>5
<1>. QED  BY <1>3, <1>4, <1>5, <1>6, SumStep

\* A sum may begin with any of its elements.
LEMMA SumWithout ==
    ASSUME NEW f, NEW S, IsFiniteSet(S), \A x \in S : f[x] \in Nat, NEW y \in S
    PROVE  SumFunctionOnSet(f, S) = f[y] + SumFunctionOnSet(f, S \ {y})
<1> DEFINE Sum(s) == SumFunctionOnSet(f, s)
           Bad == {s \in SUBSET S : \E x \in s : Sum(s) # f[x] + Sum(s \ {x})}
<1>1. SUFFICES ASSUME Bad # {} PROVE FALSE
  OBVIOUS
<1>2. PICK s \in Bad : \A t \in Bad : t \subseteq s => t = s
  <2>1. Bad \in SUBSET (SUBSET S)
    OBVIOUS
  <2> HIDE DEF Bad
  <2>. QED  BY <1>1, <2>1, LeastSet
<1>3. PICK x \in s : Sum(s) # f[x] + Sum(s \ {x})
  OBVIOUS
<1>4. PICK p : p = Pick(s) /\ p \in s /\ Sum(s) = f[p] + Sum(s \ {p})
  <2>1. IsFiniteSet(s) /\ s # {}
    BY FS_Subset
  <2>2. Sum(s) = f[Pick(s)] + Sum(s \ {Pick(s)})
    BY <2>1, SumStep
  <2>3. Pick(s) \in s
    BY <2>1 DEF Pick
  <2> HIDE DEF Sum
  <2>. QED  BY <2>2, <2>3
<1>5. x # p
  BY <1>3, <1>4
<1>6. ASSUME NEW u \in s, NEW v \in s, u # v PROVE Sum(s \ {u}) = f[v] + Sum(s \ {u, v})
  <2>1. PICK t : t = s \ {u}
    OBVIOUS
  <2>2. t \in SUBSET S /\ t \subseteq s /\ t # s /\ v \in t /\ t \ {v} = s \ {u, v}
    BY <1>6, <2>1
  <2>3. Sum(t) = f[v] + Sum(t \ {v})
    BY <1>2, <2>2
  <2>. QED  BY <2>1, <2>2, <2>3
<1>7. Sum(s \ {p}) = f[x] + Sum(s \ {p, x}) /\ Sum(s \ {x}) = f[p] + Sum(s \ {p, x})
  <2>1. s \ {p, x} = s \ {x, p}
    OBVIOUS
  <2> HIDE DEF Sum
  <2>. QED  BY <1>4, <1>5, <1>6, <2>1
<1>8. f[x] \in Nat /\ f[p] \in Nat /\ Sum(s \ {p, x}) \in Nat
  <2>1. IsFiniteSet(s \ {p, x}) /\ \A z \in s \ {p, x} : f[z] \in Nat
    BY FS_Subset
  <2>. QED  BY <1>4, <2>1, SumIsNatural
<1> HIDE DEF Sum
<1>. QED  BY <1>3, <1>4, <1>7, <1>8

\* It depends on the values it adds only.
LEMMA SumOfSame ==
    ASSUME NEW f, NEW g, NEW S, IsFiniteSet(S), \A x \in S : f[x] = g[x]
    PROVE  SumFunctionOnSet(f, S) = SumFunctionOnSet(g, S)
<1> DEFINE Bad == {s \in SUBSET S : SumFunctionOnSet(f, s) # SumFunctionOnSet(g, s)}
<1>1. SUFFICES ASSUME Bad # {} PROVE FALSE
  OBVIOUS
<1>2. PICK s \in Bad : \A t \in Bad : t \subseteq s => t = s
  <2>1. Bad \in SUBSET (SUBSET S)
    OBVIOUS
  <2> HIDE DEF Bad
  <2>. QED  BY <1>1, <2>1, LeastSet
<1>3. IsFiniteSet(s)
  BY FS_Subset
<1>4. s # {}
  BY <1>3, SumStep
<1>5. PICK t : t = s \ {Pick(s)}
  OBVIOUS
<1>6. Pick(s) \in s /\ t \in SUBSET S /\ t # s /\ t \subseteq s
  BY <1>4, <1>5, Removed
<1>7. SumFunctionOnSet(f, t) = SumFunctionOnSet(g, t)
  BY <1>2, <1>6
<1>. QED  BY <1>3, <1>4, <1>5, <1>6, <1>7, SumStep

\* Elements of one value add that value times their number.
LEMMA SumWithConstant ==
    ASSUME NEW f, NEW S, IsFiniteSet(S), NEW K \in SUBSET S, NEW m \in Nat,
           \A x \in S : f[x] \in Nat, \A x \in S \ K : f[x] = m
    PROVE  SumFunctionOnSet(f, S) = SumFunctionOnSet(f, K) + m * Cardinality(S \ K)
<1> DEFINE Sum(s) == SumFunctionOnSet(f, s)
           Bad == {s \in SUBSET S : K \subseteq s /\ Sum(s) # Sum(K) + m * Cardinality(s \ K)}
<1>1. SUFFICES ASSUME Bad # {} PROVE FALSE
  OBVIOUS
<1>2. PICK s \in Bad : \A t \in Bad : t \subseteq s => t = s
  <2>1. Bad \in SUBSET (SUBSET S)
    OBVIOUS
  <2> HIDE DEF Bad
  <2>. QED  BY <1>1, <2>1, LeastSet
<1>3. ASSUME NEW s2 \in SUBSET S PROVE IsFiniteSet(s2) /\ Sum(s2) \in Nat /\ Cardinality(s2) \in Nat
  <2>1. IsFiniteSet(s2)
    BY FS_Subset
  <2>. QED  BY <2>1, SumIsNatural, FS_CardinalityType
<1>4. s # K
  <2>1. K \ K = {} /\ Cardinality({}) = 0 /\ Sum(K) \in Nat
    BY <1>3, FS_EmptySet
  <2>2. Sum(K) = Sum(K) + m * 0
    <3> HIDE DEF Sum
    <3>. QED  BY <2>1
  <2> HIDE DEF Sum
  <2>. QED  BY <1>2, <2>1, <2>2
<1>5. PICK x \in s : x \notin K
  BY <1>2, <1>4
<1>6. PICK t : t = s \ {x}
  OBVIOUS
<1>7. t \in SUBSET S /\ K \subseteq t /\ t \subseteq s /\ t # s
  BY <1>2, <1>5, <1>6
<1>8. Sum(t) = Sum(K) + m * Cardinality(t \ K)
  BY <1>2, <1>7
<1>9. Sum(s) = m + Sum(t)
  <2>1. IsFiniteSet(s) /\ f[x] = m /\ \A y \in s : f[y] \in Nat
    BY <1>3, <1>5
  <2>2. Sum(s) = f[x] + Sum(s \ {x})
    BY <2>1, SumWithout
  <2>. QED  BY <1>6, <2>1, <2>2
<1>10. Cardinality(s \ K) = Cardinality(t \ K) + 1 /\ Cardinality(t \ K) \in Nat
  <2>1. t \ K = (s \ K) \ {x} /\ x \in s \ K /\ s \ K \in SUBSET S /\ t \ K \in SUBSET S
    BY <1>5, <1>6
  <2>2. IsFiniteSet(s \ K) /\ Cardinality(s \ K) \in Nat /\ Cardinality(t \ K) \in Nat
    BY <1>3, <2>1
  <2>3. Cardinality((s \ K) \ {x}) = Cardinality(s \ K) - 1
    BY <2>1, <2>2, FS_RemoveElement
  <2>4. Cardinality(t \ K) = Cardinality(s \ K) - 1
    BY <2>1, <2>3
  <2>. QED  BY <2>2, <2>4
<1>11. PICK c, a : c = Cardinality(t \ K) /\ a = Sum(K)
  OBVIOUS
<1>12. c \in Nat /\ a \in Nat /\ m * (c + 1) = m * c + m /\ m * c \in Nat
  BY <1>3, <1>10, <1>11
<1>13. Sum(s) = a + m * (c + 1)
  <2> HIDE DEF Sum
  <2>. QED  BY <1>8, <1>9, <1>11, <1>12
<1>. QED  BY <1>2, <1>10, <1>11, <1>13

\* Hours without a price get a price.
LEMMA FullPricesTyped ==
    ASSUME NEW prices, DOMAIN prices \subseteq Hours, \A h \in DOMAIN prices : prices[h] \in Nat
    PROVE  FullPrices(prices) \in [Hours -> Nat]
<1> DEFINE known == DOMAIN prices
           mean == IF known = {} THEN DefaultPrice ELSE Total(prices, known) \div Cardinality(known)
<1>1. IsFiniteSet(Hours)
  BY OptimizerAssumption, FS_Interval DEF Hours
<1>2. IsFiniteSet(known)
  BY <1>1, FS_Subset
<1>3. Total(prices, known) \in Nat
  BY <1>2, SumIsNatural DEF Total
<1>4. known # {} => Cardinality(known) \in Nat \ {0}
  BY <1>2, FS_CardinalityType, FS_EmptySet
<1>5. mean \in Nat
  <2>1. ASSUME known # {} PROVE Total(prices, known) \div Cardinality(known) \in Nat
    <3> DEFINE t == Total(prices, known)
               c == Cardinality(known)
    <3>1. t \in Nat /\ c \in Nat \ {0}
      BY <1>3, <1>4, <2>1
    <3> HIDE DEF t, c
    <3>2. t \div c \in Nat
      BY <3>1, Quotient
    <3>. QED  BY <3>2 DEF t, c
  <2>. QED  BY <2>1, OptimizerAssumption
<1>6. FullPrices(prices) = [h \in Hours |-> IF h \in known THEN prices[h] ELSE mean]
  BY DEF FullPrices
<1> HIDE DEF mean
<1>. QED  BY <1>5, <1>6

\* Hours filled with the mean of the others are at the mean of the day, so neutral.
LEMMA FilledIsNeutral ==
    ASSUME NEW s \in [Hours -> Nat], NEW first \in Hours, ExactMean(s, first), NEW h \in Hours, h < first
    PROVE  Classified(FullPrices([k \in RestFrom(first) |-> s[k]]))[h] = "neutral"
<1>1. PICK R, p : R = RestFrom(first) /\ p = [k \in R |-> s[k]]
  OBVIOUS
<1>2. PICK n, c : n = HoursPerDay /\ c = HoursPerDay - first
  OBVIOUS
<1>3. n \in Nat \ {0} /\ first \in Nat /\ c \in Nat \ {0} /\ first <= n - 1
  BY <1>2, OptimizerAssumption DEF Hours
<1>4. R = first..n - 1 /\ R \subseteq Hours /\ first \in R /\ h \notin R
  BY <1>1, <1>2, <1>3 DEF RestFrom, Hours
<1>5. IsFiniteSet(Hours) /\ Cardinality(Hours) = n /\ IsFiniteSet(R) /\ Cardinality(R) = c
  BY <1>2, <1>3, <1>4, FS_Interval DEF Hours
<1>6. Total(p, R) = Total(s, R)
  BY <1>1, <1>5, SumOfSame DEF Total
<1>7. Total(p, R) \in Nat
  <2>1. \A k \in R : p[k] \in Nat
    BY <1>1, <1>4
  <2>. QED  BY <1>5, <2>1, SumIsNatural DEF Total
<1>8. PICK m : m = Total(p, R) \div c
  OBVIOUS
<1>9. m \in Nat /\ c * m = Total(p, R)
  <2>1. m \in Nat
    BY <1>3, <1>7, <1>8, Quotient
  <2>2. c * (Total(s, R) \div c) = Total(s, R)
    BY <1>1, <1>2 DEF ExactMean
  <2>. QED  BY <1>6, <1>8, <2>1, <2>2
<1>10. PICK full : full = FullPrices(p)
  OBVIOUS
<1>11. /\ \A k \in Hours : full[k] = IF k \in R THEN s[k] ELSE m
       /\ \A k \in Hours : full[k] \in Nat
  <2>1. DOMAIN p = R /\ R # {}
    BY <1>1, <1>4
  <2>2. FullPrices(p) = [k \in Hours |-> IF k \in R THEN p[k] ELSE m]
    BY <1>5, <1>8, <2>1 DEF FullPrices
  <2>. QED  BY <1>1, <1>9, <1>10, <2>2
<1>12. Total(full, Hours) = n * m
  <2>1. Total(full, Hours) = Total(full, R) + m * Cardinality(Hours \ R)
    <3>1. \A k \in Hours \ R : full[k] = m
      BY <1>11
    <3>2. R \in SUBSET Hours /\ \A k \in Hours : full[k] \in Nat
      BY <1>4, <1>11
    <3>3. SumFunctionOnSet(full, Hours) = SumFunctionOnSet(full, R) + m * Cardinality(Hours \ R)
      BY <1>5, <1>9, <3>1, <3>2, SumWithConstant
    <3>. QED  BY <3>3 DEF Total
  <2>2. Total(full, R) = c * m
    <3>1. \A k \in R : full[k] = p[k]
      BY <1>1, <1>4, <1>11
    <3>2. Total(full, R) = Total(p, R)
      BY <1>5, <3>1, SumOfSame DEF Total
    <3>. QED  BY <1>9, <3>2
  <2>3. Cardinality(Hours \ R) = first
    <3>1. Hours \ R = 0..first - 1
      BY <1>2, <1>3, <1>4 DEF Hours
    <3>2. PICK j \in Int : j = first - 1 /\ 0 <= j
      BY <1>3, <1>4 DEF Hours
    <3>3. Cardinality(0..j) = j - 0 + 1
      BY <3>2, FS_Interval
    <3>4. Hours \ R = 0..j
      BY <3>1, <3>2
    <3>5. Cardinality(Hours \ R) = Cardinality(0..j)
      BY <3>4, Zenon
    <3>. QED  BY <1>3, <3>2, <3>3, <3>5
  <2>4. n * m = c * m + m * first
    <3>1. n = c + first
      BY <1>2, <1>3
    <3>. QED  BY <1>3, <1>9, <3>1
  <2>. QED  BY <2>1, <2>2, <2>3, <2>4
<1> DEFINE gap(k) == HoursPerDay * full[k] - Total(full, Hours)
           squares == [k \in Hours |-> gap(k) * gap(k)]
           spread == Total(squares, Hours)
           far(k) == 4 * (HoursPerDay - 1) * gap(k) * gap(k) >= spread
<1>13. Classified(full)[h] = IF spread = 0 \/ ~far(h) THEN "neutral"
                             ELSE IF gap(h) >= 0 THEN "peak" ELSE "off_peak"
  BY DEF Classified
<1>14. gap(h) = 0
  BY <1>2, <1>3, <1>4, <1>9, <1>11, <1>12
<1>15. \A k \in Hours : gap(k) \in Int
  <2>1. n * m \in Int
    BY <1>3, <1>9
  <2>2. \A k \in Hours : n * full[k] \in Int
    BY <1>3, <1>11
  <2>. QED  BY <1>2, <1>12, <2>1, <2>2
<1> HIDE DEF gap
<1>16. \A k \in Hours : squares[k] \in Nat
  <2>1. ASSUME NEW x \in Int PROVE x * x \in Nat
    <3>1. CASE x >= 0
      BY <3>1
    <3>2. CASE x < 0
      <4>1. PICK y \in Nat : y = 0 - x
        BY <3>2
      <4>2. x * x = y * y /\ y * y \in Nat
        BY <4>1
      <4>. QED  BY <4>2
    <3>. QED  BY <3>1, <3>2
  <2>. QED  BY <1>15, <2>1
<1>17. spread \in Nat
  BY <1>5, <1>16, SumIsNatural DEF Total
<1>18. spread # 0 => ~far(h)
  <2>1. 4 * (HoursPerDay - 1) * gap(h) * gap(h) = 0
    BY <1>14, OptimizerAssumption
  <2> HIDE DEF spread
  <2>. QED  BY <1>17, <2>1
<1> HIDE DEF spread, far
<1>. QED  BY <1>1, <1>10, <1>13, <1>18

-----------------------------------------------------------------------------
\* The schedules.

Index == 1..Len(Fleet)
Status == {"planned", "executing", "overridden"}

LEMMA Constants ==
    /\ Index \subseteq Nat /\ \A i \in Index : Fleet[i] \in Batteries
    /\ Len(Fleet) \in Nat
    /\ \A b \in Batteries : Specs[b] \in Ratings /\ Specs[b].initial \in Int /\ Readings[b] \subseteq Int
    /\ HoursPerDay \in Nat \ {0} /\ Hours \subseteq Nat /\ 0 \in Hours
    /\ 0..LastDay \subseteq Days /\ Days \subseteq Nat /\ AskedDays \subseteq Days
  BY SchedulerAssumption, OptimizerAssumption DEF Index, Hours, Days, Ratings

\* A schedule is no missing one.
LEMMA ScheduleIsOne ==
    ASSUME NEW s, ScheduleOK(s)
    PROVE  s # None
<1>1. \A h \in DOMAIN s.actions : s.actions[h] \in UNION {[bs -> Action] : bs \in SUBSET Batteries}
  BY DEF ScheduleOK, HourOK
<1>2. s.actions \in AnyActions
  <2> DEFINE V == UNION {[bs -> Action] : bs \in SUBSET Batteries}
  <2>1. s.actions \in [DOMAIN s.actions -> V]
    <3> HIDE DEF V
    <3>1. \A h \in DOMAIN s.actions : s.actions[h] \in V
      BY <1>1 DEF V
    <3>. QED BY <3>1 DEF ScheduleOK
  <2>2. DOMAIN s.actions \in SUBSET Hours
    BY DEF ScheduleOK
  <2> HIDE DEF V
  <2>3. s.actions \in UNION {[hs -> V] : hs \in SUBSET Hours}
    BY <2>1, <2>2
  <2>. QED  BY <2>3 DEF AnyActions, V
<1>3. s \in [prices : [Hours -> Nat], actions : AnyActions, status : Status]
  <2>1. /\ s = [prices |-> s.prices, actions |-> s.actions, status |-> s.status]
        /\ s.prices \in [Hours -> Nat] /\ s.status \in Status
    BY DEF ScheduleOK, Status
  <2>. QED  BY <1>2, <2>1
<1>. QED  BY <1>3, SchedulerAssumption DEF Status

\* Another status, or other actions, and it still is a schedule.
LEMMA WithStatus ==
    ASSUME NEW s, ScheduleOK(s), NEW x \in Status
    PROVE  /\ ScheduleOK([s EXCEPT !.status = x])
           /\ [s EXCEPT !.status = x].actions = s.actions
           /\ [s EXCEPT !.status = x].prices = s.prices
<1>1. [s EXCEPT !.status = x] = [prices |-> s.prices, actions |-> s.actions, status |-> x]
  BY DEF ScheduleOK
<1>2. PICK t : t = [prices |-> s.prices, actions |-> s.actions, status |-> x]
  OBVIOUS
<1>3. t.prices = s.prices /\ t.actions = s.actions /\ t.status = x
  BY <1>2
<1>4. t = [prices |-> t.prices, actions |-> t.actions, status |-> t.status]
  BY <1>2, <1>3
<1>5. ScheduleOK(t)
  BY <1>3, <1>4 DEF ScheduleOK, Status
<1>. QED  BY <1>1, <1>2, <1>3, <1>5

LEMMA WithActions ==
    ASSUME NEW s, ScheduleOK(s), NEW acts, DOMAIN acts \subseteq Hours,
           acts = [h \in DOMAIN acts |-> acts[h]], \A h \in DOMAIN acts : HourOK(acts[h])
    PROVE  /\ ScheduleOK([s EXCEPT !.actions = acts])
           /\ [s EXCEPT !.actions = acts].actions = acts
           /\ [s EXCEPT !.actions = acts].prices = s.prices
<1>1. [s EXCEPT !.actions = acts] = [prices |-> s.prices, actions |-> acts, status |-> s.status]
  BY DEF ScheduleOK
<1>2. PICK t : t = [prices |-> s.prices, actions |-> acts, status |-> s.status]
  OBVIOUS
<1>3. t.prices = s.prices /\ t.actions = acts /\ t.status = s.status
  BY <1>2
<1>4. t = [prices |-> t.prices, actions |-> t.actions, status |-> t.status]
  BY <1>2, <1>3
<1>5. ScheduleOK(t)
  BY <1>3, <1>4 DEF ScheduleOK
<1>. QED  BY <1>1, <1>2, <1>3, <1>5

\* The optimizer makes a plan of some of the batteries.
LEMMA OptimizedDay ==
    ASSUME NEW prices, NEW bs \in SUBSET Batteries, NEW initial \in [bs -> Int]
    PROVE  LET acts == OptimizeDay(prices, initial).actions
           IN  /\ DOMAIN acts = Hours /\ acts = [h \in Hours |-> acts[h]]
               /\ \A h \in Hours : acts[h] \in [bs -> Action]
               /\ \A h \in Hours, b \in bs :
                     acts[h][b] = DayOf(Specs[b], initial[b], FullPrices(prices))[h]
               /\ \A h \in Hours, b \in bs : Feasible(Specs[b], acts[h][b])
<1> DEFINE full == FullPrices(prices)
           day_(b) == DayOf(Specs[b], initial[b], full)
<1>1. \A b \in bs : day_(b) \in [Hours -> Action] /\ \A h \in Hours : Feasible(Specs[b], day_(b)[h])
  <2> SUFFICES ASSUME NEW b \in bs
               PROVE  day_(b) \in [Hours -> Action] /\ \A h \in Hours : Feasible(Specs[b], day_(b)[h])
    OBVIOUS
  <2>1. Specs[b] \in Ratings /\ initial[b] \in Int
    BY Constants
  <2> HIDE DEF full
  <2>. QED  BY <2>1, DayFeasible
<1>2. OptimizeDay(prices, initial).actions = [h \in Hours |-> [b \in bs |-> day_(b)[h]]]
  BY DEF OptimizeDay
<1>3. \A b \in bs : day_(b) = DayOf(Specs[b], initial[b], FullPrices(prices))
  OBVIOUS
<1> HIDE DEF full, day_
<1>4. PICK acts : acts = [h \in Hours |-> [b \in bs |-> day_(b)[h]]]
  OBVIOUS
<1>5. \A h \in Hours, b \in bs : acts[h][b] = day_(b)[h]
  BY <1>4
<1>6. \A h \in Hours : acts[h] \in [bs -> Action]
  BY <1>1, <1>4
<1>7. DOMAIN acts = Hours /\ acts = [h \in Hours |-> acts[h]]
  BY <1>4
<1>8. OptimizeDay(prices, initial).actions = acts
  BY <1>2, <1>4
<1>. QED  BY <1>1, <1>3, <1>5, <1>6, <1>7, <1>8

LEMMA PlannedOK ==
    ASSUME NEW prices \in Market
    PROVE  /\ ScheduleOK(Planned(prices)) /\ AllFeasible(Planned(prices))
           /\ Planned(prices).prices = FullPrices(prices)
<1> DEFINE initial == [b \in Batteries |-> Specs[b].initial]
           plan == OptimizeDay(prices, initial)
<1>1. initial \in [Batteries -> Int]
  BY Constants
<1>2. /\ DOMAIN plan.actions = Hours /\ plan.actions = [h \in Hours |-> plan.actions[h]]
      /\ \A h \in Hours : plan.actions[h] \in [Batteries -> Action]
      /\ \A h \in Hours, b \in Batteries : Feasible(Specs[b], plan.actions[h][b])
  <2> HIDE DEF initial
  <2>. QED  BY <1>1, OptimizedDay
<1>3. plan.prices \in [Hours -> Nat] /\ plan.prices = FullPrices(prices)
  <2>1. FullPrices(prices) \in [Hours -> Nat]
    BY SchedulerAssumption, FullPricesTyped
  <2>2. plan.prices = FullPrices(prices)
    BY DEF OptimizeDay
  <2>. QED  BY <2>1, <2>2
<1>4. Planned(prices) = [prices |-> plan.prices, actions |-> plan.actions, status |-> "planned"]
  BY DEF Planned
<1> HIDE DEF plan, initial
<1>5. PICK t : t = [prices |-> plan.prices, actions |-> plan.actions, status |-> "planned"]
  OBVIOUS
<1>6. t.prices = plan.prices /\ t.actions = plan.actions /\ t.status = "planned"
  BY <1>5
<1>7. t = [prices |-> t.prices, actions |-> t.actions, status |-> t.status]
  BY <1>5, <1>6
<1>8. \A h \in Hours : HourOK(plan.actions[h]) /\ DOMAIN plan.actions[h] = Batteries
  BY <1>2 DEF HourOK
<1>9. ScheduleOK(t)
  BY <1>2, <1>3, <1>6, <1>7, <1>8 DEF ScheduleOK
<1>10. AllFeasible(t)
  BY <1>2, <1>6, <1>8 DEF AllFeasible
<1>. QED  BY <1>3, <1>4, <1>5, <1>6, <1>9, <1>10

-----------------------------------------------------------------------------
\* The loops.

\* The schedule a loop goes on with, in a dictionary of schedules.
HeldIn(loop, table) == IF loop.old # None THEN loop.old ELSE table[loop.slot[1]]

HoldsOne(loop, table) == HeldIn(loop, table) # None /\ ScheduleOK(HeldIn(loop, table))

Busy == {"sent", "stopping"}

\* At work, the hourly loop has a battery and an action of the hour it executes, which
\* its schedule has; between two hours it is at no battery.
HourlyOK(loop, table) ==
    /\ loop = [pc |-> loop.pc, slot |-> loop.slot, slept |-> loop.slept, old |-> loop.old,
               keys |-> loop.keys, i |-> loop.i, act |-> loop.act]
    /\ loop.pc \in {"down", "asleep"} => loop.i = 0
    /\ loop.pc \in Busy =>
          /\ loop.slot \in Days \X Hours
          /\ loop.i \in Index
          /\ loop.act \in [slot : {loop.slot}, type : Types]
          /\ HoldsOne(loop, table)
          /\ loop.slot[2] \in DOMAIN HeldIn(loop, table).actions

WatchOK(loop, table) ==
    /\ loop = [pc |-> loop.pc, slot |-> loop.slot, old |-> loop.old, i |-> loop.i, before |-> loop.before]
    /\ loop.pc = "asking" =>
          /\ loop.slot \in Days \X Hours
          /\ loop.i \in Index
          /\ HoldsOne(loop, table)

IInv == TypeOK /\ HourlyOK(hr, schedules) /\ WatchOK(wd, schedules)

TableOK(table) ==
    /\ table = [d \in Days |-> table[d]]
    /\ \A d \in Days : table[d] # None => ScheduleOK(table[d])

\* Every schedule of a dictionary goes on being one, for the same hours or more.
Follows(table, new) ==
    \A d \in Days : table[d] # None =>
        /\ new[d] # None
        /\ ScheduleOK(new[d])
        /\ DOMAIN table[d].actions \subseteq DOMAIN new[d].actions

LEMMA HeldFollows ==
    ASSUME NEW table, NEW new, TableOK(table), Follows(table, new), NEW loop,
           loop.slot \in Days \X Hours, HoldsOne(loop, table)
    PROVE  /\ HoldsOne(loop, new)
           /\ DOMAIN HeldIn(loop, table).actions \subseteq DOMAIN HeldIn(loop, new).actions
<1>1. loop.slot[1] \in Days
  OBVIOUS
<1>. QED  BY <1>1 DEF HoldsOne, HeldIn, Follows

LEMMA LoopsFollow ==
    ASSUME NEW table, NEW new, TableOK(table), Follows(table, new)
    PROVE  /\ \A loop : HourlyOK(loop, table) => HourlyOK(loop, new)
           /\ \A loop : WatchOK(loop, table) => WatchOK(loop, new)
<1>1. ASSUME NEW loop, HourlyOK(loop, table) PROVE HourlyOK(loop, new)
  <2>1. ASSUME loop.pc \in Busy
        PROVE  HoldsOne(loop, new) /\ loop.slot[2] \in DOMAIN HeldIn(loop, new).actions
    BY <1>1, <2>1, HeldFollows DEF HourlyOK
  <2>. QED  BY <1>1, <2>1 DEF HourlyOK
<1>2. ASSUME NEW loop, WatchOK(loop, table) PROVE WatchOK(loop, new)
  <2>1. ASSUME loop.pc = "asking" PROVE HoldsOne(loop, new)
    BY <1>2, <2>1, HeldFollows DEF WatchOK
  <2>. QED  BY <1>2, <2>1 DEF WatchOK
<1>. QED  BY <1>1, <1>2

\* A schedule of one day is replaced by another, or is the first.
With(table, d, s) == [table EXCEPT ![d] = s]

LEMMA OneSchedule ==
    ASSUME NEW table, TableOK(table), NEW d \in Days, NEW s, ScheduleOK(s)
    PROVE  /\ TableOK(With(table, d, s))
           /\ With(table, d, s)[d] = s
           /\ \A e \in Days : e # d => With(table, d, s)[e] = table[e]
<1>1. PICK new : new = With(table, d, s)
  OBVIOUS
<1>2. new[d] = s /\ \A e \in Days : e # d => new[e] = table[e]
  BY <1>1 DEF TableOK, With
<1>3. new = [e \in Days |-> new[e]]
  BY <1>1 DEF TableOK, With
<1>4. TableOK(new)
  BY <1>2, <1>3 DEF TableOK
<1>. QED  BY <1>1, <1>2, <1>4, Zenon

\* A plan stored over another: a loop at work on the old one keeps it.
LEMMA Stores ==
    ASSUME IInv, NEW d \in Days, NEW s, ScheduleOK(s), Store(d, s)
    PROVE  /\ TableOK(schedules')
           /\ schedules' = [schedules EXCEPT ![d] = s]
           /\ HourlyOK(hr', schedules') /\ WatchOK(wd', schedules')
           /\ hr'.pc = hr.pc /\ hr'.i = hr.i /\ wd'.pc = wd.pc /\ wd'.i = wd.i
<1>0. TableOK(schedules)
  BY DEF IInv, TypeOK, TableOK
<1>1. schedules' = [schedules EXCEPT ![d] = s]
  BY DEF Store
<1>2. TableOK(schedules') /\ schedules'[d] = s /\ \A e \in Days : e # d => schedules'[e] = schedules[e]
  <2>1. schedules' = With(schedules, d, s)
    BY <1>1 DEF With
  <2>2. /\ TableOK(With(schedules, d, s)) /\ With(schedules, d, s)[d] = s
        /\ \A e \in Days : e # d => With(schedules, d, s)[e] = schedules[e]
    BY <1>0, OneSchedule
  <2>. QED  BY <2>1, <2>2, Zenon
<1>3. s # None
  BY ScheduleIsOne
<1> DEFINE Replaced(loop) == loop.pc \notin {"down", "asleep"} /\ loop.slot[1] = d /\ loop.old = None
<1>4. /\ hr' = IF Replaced(hr) THEN [hr EXCEPT !.old = schedules[d]] ELSE hr
      /\ wd' = IF Replaced(wd) THEN [wd EXCEPT !.old = schedules[d]] ELSE wd
  BY DEF Store
<1>5. HourlyOK(hr', schedules') /\ hr'.pc = hr.pc /\ hr'.i = hr.i
  <2>0. HourlyOK(hr, schedules) /\ hr.pc \in {"down", "asleep"} \cup Busy
    BY DEF IInv, TypeOK, Busy
  <2>1. CASE Replaced(hr)
    <3>1. PICK h : h = [pc |-> hr.pc, slot |-> hr.slot, slept |-> hr.slept, old |-> schedules[d],
                        keys |-> hr.keys, i |-> hr.i, act |-> hr.act]
      OBVIOUS
    <3>2. hr' = h
      BY <1>4, <2>0, <2>1, <3>1 DEF HourlyOK
    <3>3. /\ h.pc = hr.pc /\ h.slot = hr.slot /\ h.slept = hr.slept /\ h.old = schedules[d]
          /\ h.keys = hr.keys /\ h.i = hr.i /\ h.act = hr.act
      BY <3>1
    <3>4. hr.pc \in Busy
      BY <2>0, <2>1
    <3>5. HeldIn(hr, schedules) = schedules[d] /\ schedules[d] # None
      BY <2>0, <2>1, <3>4 DEF HeldIn, HourlyOK, HoldsOne
    <3>6. HeldIn(h, schedules') = schedules[d]
      BY <3>3, <3>5 DEF HeldIn
    <3>7. h = [pc |-> h.pc, slot |-> h.slot, slept |-> h.slept, old |-> h.old,
               keys |-> h.keys, i |-> h.i, act |-> h.act]
      BY <3>1, <3>3
    <3>8. HourlyOK(h, schedules')
      BY <2>0, <3>3, <3>4, <3>5, <3>6, <3>7 DEF HourlyOK, HoldsOne
    <3>. QED  BY <3>2, <3>3, <3>8
  <2>2. CASE ~Replaced(hr)
    <3>1. hr' = hr
      BY <1>4, <2>2
    <3>2. hr.pc \in Busy => HeldIn(hr, schedules') = HeldIn(hr, schedules)
      <4>1. hr.pc \in Busy => hr.slot[1] \in Days
        BY <2>0 DEF HourlyOK
      <4>. QED  BY <1>2, <2>2, <4>1 DEF HeldIn, Busy
    <3>3. HourlyOK(hr, schedules')
      BY <2>0, <3>2 DEF HourlyOK, HoldsOne
    <3>. QED  BY <3>1, <3>3
  <2>. QED  BY <2>1, <2>2
<1>6. WatchOK(wd', schedules') /\ wd'.pc = wd.pc /\ wd'.i = wd.i
  <2>0. WatchOK(wd, schedules) /\ wd.pc \in {"down", "asleep", "asking"}
    BY DEF IInv, TypeOK
  <2>1. CASE Replaced(wd)
    <3>1. PICK h : h = [pc |-> wd.pc, slot |-> wd.slot, old |-> schedules[d], i |-> wd.i, before |-> wd.before]
      OBVIOUS
    <3>2. wd' = h
      BY <1>4, <2>0, <2>1, <3>1 DEF WatchOK
    <3>3. /\ h.pc = wd.pc /\ h.slot = wd.slot /\ h.old = schedules[d] /\ h.i = wd.i /\ h.before = wd.before
      BY <3>1
    <3>4. wd.pc = "asking"
      BY <2>0, <2>1
    <3>5. HeldIn(wd, schedules) = schedules[d] /\ schedules[d] # None
      BY <2>0, <2>1, <3>4 DEF HeldIn, WatchOK, HoldsOne
    <3>6. HeldIn(h, schedules') = schedules[d]
      BY <3>3, <3>5 DEF HeldIn
    <3>7. h = [pc |-> h.pc, slot |-> h.slot, old |-> h.old, i |-> h.i, before |-> h.before]
      BY <3>1, <3>3
    <3>8. WatchOK(h, schedules')
      BY <2>0, <3>3, <3>4, <3>5, <3>6, <3>7 DEF WatchOK, HoldsOne
    <3>. QED  BY <3>2, <3>3, <3>8
  <2>2. CASE ~Replaced(wd)
    <3>1. wd' = wd
      BY <1>4, <2>2
    <3>2. wd.pc = "asking" => HeldIn(wd, schedules') = HeldIn(wd, schedules)
      <4>1. wd.pc = "asking" => wd.slot[1] \in Days
        BY <2>0 DEF WatchOK
      <4>. QED  BY <1>2, <2>2, <4>1 DEF HeldIn
    <3>3. WatchOK(wd, schedules')
      BY <2>0, <3>2 DEF WatchOK, HoldsOne
    <3>. QED  BY <3>1, <3>3
  <2>. QED  BY <2>1, <2>2
<1>. QED  BY <1>1, <1>2, <1>5, <1>6

-----------------------------------------------------------------------------
\* The hourly loop goes on to a battery, with its action, or falls asleep.

LEMMA LeastIndex ==
    ASSUME NEW S \in SUBSET Index, S # {}
    PROVE  Min(S) \in S
<1>1. S \in SUBSET Nat
  BY Constants
<1>2. \E x \in S : \A y \in S : x <= y
  BY <1>1, LeastNumber
<1>. QED  BY <1>2 DEF Min

Asleep(loop) == \E slot, slept : loop = HourlyIdle("asleep", slot, slept)

AtBattery(loop, from, j) ==
    \E pc \in Busy, act \in [slot : {from.slot}, type : Types] :
        loop = [pc |-> pc, slot |-> from.slot, slept |-> from.slept, old |-> from.old,
                keys |-> from.keys, i |-> j, act |-> act]

LEMMA GoesOn ==
    ASSUME NEW loop, NEW i \in Nat, NEW tasks \in SUBSET Batteries, GoOn(loop, i, tasks),
           loop = [pc |-> loop.pc, slot |-> loop.slot, slept |-> loop.slept, old |-> loop.old,
                   keys |-> loop.keys, i |-> loop.i, act |-> loop.act],
           HoldsOne(loop, schedules), loop.slot[2] \in DOMAIN HeldIn(loop, schedules).actions
    PROVE  /\ pending' \in SUBSET Batteries
           /\ Asleep(hr') \/ \E j \in Index : AtBattery(hr', loop, j)
<1> DEFINE acts == Held(loop).actions[loop.slot[2]]
           left == {j \in i + 1..Len(Fleet) : Fleet[j] \in loop.keys}
           j == Min(left)
           b == Fleet[j]
           refused == acts[b].type # "stop" /\ b \in tasks
<1>1. HourOK(acts)
  <2>1. Held(loop) = HeldIn(loop, schedules)
    BY DEF Held, HeldIn
  <2>. QED  BY <2>1 DEF HoldsOne, ScheduleOK
<1>2. CASE DOMAIN acts # loop.keys \/ left = {}
  <2>1. hr' = HourlyIdle("asleep", loop.slot, Now) /\ pending' = tasks
    BY <1>2 DEF GoOn
  <2>. QED  BY <2>1 DEF Asleep
<1>3. CASE ~(DOMAIN acts # loop.keys \/ left = {})
  <2>1. left \in SUBSET Index /\ left # {} /\ DOMAIN acts = loop.keys
    BY <1>3, Constants DEF Index
  <2>2. j \in left
    <3> HIDE DEF left
    <3>. QED  BY <2>1, LeastIndex
  <2>3. j \in Index /\ b \in DOMAIN acts
    BY <2>1, <2>2
  <2>4. acts[b].type \in Types
    <3> HIDE DEF acts, b
    <3>. QED  BY <1>1, <2>3 DEF HourOK, Action
  <2> DEFINE act == [slot |-> loop.slot, type |-> acts[b].type]
             pc == IF refused THEN "stopping" ELSE "sent"
  <2>5. act \in [slot : {loop.slot}, type : Types] /\ pc \in Busy
    <3> HIDE DEF acts, b, refused
    <3>. QED  BY <2>4 DEF Busy
  <2>6. hr' = [loop EXCEPT !.pc = pc, !.i = j, !.act = act] /\ pending' = tasks \ {b}
    BY <1>3 DEF GoOn
  <2> HIDE DEF act, pc, j, b, acts, left, refused
  <2>7. hr' = [pc |-> pc, slot |-> loop.slot, slept |-> loop.slept, old |-> loop.old,
               keys |-> loop.keys, i |-> j, act |-> act]
    BY <2>6
  <2>8. AtBattery(hr', loop, j)
    BY <2>5, <2>7 DEF AtBattery
  <2>. QED  BY <2>3, <2>6, <2>8
<1>. QED  BY <1>2, <1>3

LEMMA AsleepOK ==
    ASSUME NEW loop, Asleep(loop), NEW table
    PROVE  HourlyOK(loop, table) /\ loop.pc = "asleep"
<1>1. PICK slot, slept : loop = HourlyIdle("asleep", slot, slept)
  BY DEF Asleep
<1>. QED  BY <1>1 DEF HourlyIdle, HourlyOK, Busy

LEMMA AtBatteryOK ==
    ASSUME NEW loop, NEW from, NEW j \in Index, AtBattery(loop, from, j), NEW table,
           from.slot \in Days \X Hours,
           HoldsOne(from, table), from.slot[2] \in DOMAIN HeldIn(from, table).actions
    PROVE  HourlyOK(loop, table) /\ loop.pc \in Busy
<1>1. PICK pc \in Busy, act \in [slot : {from.slot}, type : Types] :
          loop = [pc |-> pc, slot |-> from.slot, slept |-> from.slept, old |-> from.old,
                  keys |-> from.keys, i |-> j, act |-> act]
  BY DEF AtBattery
<1>2. /\ loop.pc = pc /\ loop.slot = from.slot /\ loop.old = from.old /\ loop.i = j /\ loop.act = act
      /\ loop.slept = from.slept /\ loop.keys = from.keys
  BY <1>1
<1>3. HeldIn(loop, table) = HeldIn(from, table)
  BY <1>2 DEF HeldIn
<1>4. loop = [pc |-> loop.pc, slot |-> loop.slot, slept |-> loop.slept, old |-> loop.old,
              keys |-> loop.keys, i |-> loop.i, act |-> loop.act]
  BY <1>1, <1>2
<1>. QED  BY <1>2, <1>3, <1>4 DEF HourlyOK, HoldsOne, Busy

\* What the hourly loop does next is sound in whatever the schedules have become.
LEMMA HourlyStep ==
    ASSUME NEW loop, NEW i \in Nat, NEW tasks \in SUBSET Batteries, GoOn(loop, i, tasks),
           loop = [pc |-> loop.pc, slot |-> loop.slot, slept |-> loop.slept, old |-> loop.old,
                   keys |-> loop.keys, i |-> loop.i, act |-> loop.act],
           loop.slot \in Days \X Hours,
           HoldsOne(loop, schedules), loop.slot[2] \in DOMAIN HeldIn(loop, schedules).actions,
           TableOK(schedules), Follows(schedules, schedules')
    PROVE  /\ pending' \in SUBSET Batteries
           /\ HourlyOK(hr', schedules')
           /\ hr'.pc \in {"asleep"} \cup Busy
<1>1. /\ pending' \in SUBSET Batteries
      /\ Asleep(hr') \/ \E j \in Index : AtBattery(hr', loop, j)
  BY GoesOn
<1>2. HoldsOne(loop, schedules') /\ loop.slot[2] \in DOMAIN HeldIn(loop, schedules').actions
  BY HeldFollows
<1>. QED  BY <1>1, <1>2, AsleepOK, AtBatteryOK

\* The watchdog goes on to a battery, or falls asleep.
LEMMA WatchStep ==
    ASSUME NEW loop, NEW i \in Nat, Check(loop, i),
           loop = [pc |-> loop.pc, slot |-> loop.slot, old |-> loop.old, i |-> loop.i, before |-> loop.before],
           loop.pc = "asking", loop.slot \in Days \X Hours,
           HoldsOne(loop, schedules), TableOK(schedules), Follows(schedules, schedules')
    PROVE  WatchOK(wd', schedules') /\ wd'.pc \in {"asleep", "asking"}
<1> DEFINE acts == Held(loop).actions
           h == loop.slot[2]
           left == {j \in i + 1..Len(Fleet) : h \in DOMAIN acts /\ Fleet[j] \in DOMAIN acts[h]}
<1>1. CASE left = {}
  <2>1. wd' = WatchdogIdle("asleep")
    BY <1>1 DEF Check
  <2>. QED  BY <2>1 DEF WatchdogIdle, WatchOK
<1>2. CASE left # {}
  <2>1. PICK k, x : k = Min(left) /\ x = acts[h][Fleet[Min(left)]].before
    OBVIOUS
  <2>2. wd' = [loop EXCEPT !.pc = "asking", !.i = k, !.before = x]
    BY <1>2, <2>1 DEF Check
  <2>3. left \in SUBSET Index
    BY Constants DEF Index
  <2> HIDE DEF left, acts
  <2>4. k \in Index
    BY <1>2, <2>1, <2>3, LeastIndex
  <2>5. wd' = [pc |-> "asking", slot |-> loop.slot, old |-> loop.old, i |-> k, before |-> x]
    BY <2>2
  <2>6. /\ wd'.pc = "asking" /\ wd'.slot = loop.slot /\ wd'.old = loop.old /\ wd'.i = k
        /\ wd'.before = x
    BY <2>5
  <2>7. HeldIn(wd', schedules') = HeldIn(loop, schedules')
    BY <2>6 DEF HeldIn
  <2>8. HoldsOne(loop, schedules')
    BY HeldFollows
  <2>9. HoldsOne(wd', schedules')
    BY <2>7, <2>8 DEF HoldsOne
  <2>10. wd' = [pc |-> wd'.pc, slot |-> wd'.slot, old |-> wd'.old, i |-> wd'.i, before |-> wd'.before]
    BY <2>5, <2>6
  <2>. QED  BY <2>4, <2>6, <2>9, <2>10 DEF WatchOK
<1>. QED  BY <1>1, <1>2

-----------------------------------------------------------------------------
\* What becomes of the schedules.

LEMMA FollowsItself == TableOK(schedules) => Follows(schedules, schedules)
  BY DEF TableOK, Follows

LEMMA Improves ==
    ASSUME NEW table, TableOK(table), NEW d \in Days, table[d] # None, NEW s, ScheduleOK(s),
           DOMAIN table[d].actions \subseteq DOMAIN s.actions
    PROVE  TableOK(With(table, d, s)) /\ Follows(table, With(table, d, s))
<1>1. PICK new : new = With(table, d, s)
  OBVIOUS
<1>2. TableOK(new) /\ new[d] = s /\ \A e \in Days : e # d => new[e] = table[e]
  BY <1>1, OneSchedule
<1>3. s # None
  BY ScheduleIsOne
<1>4. Follows(table, new)
  BY <1>2, <1>3 DEF Follows, TableOK
<1>. QED  BY <1>1, <1>2, <1>4, Zenon

LEMMA PatchedOK ==
    ASSUME NEW s, ScheduleOK(s), NEW b \in Batteries, NEW soc \in Int,
           NEW acts, acts = Patched(s, b, soc)
    PROVE  /\ DOMAIN acts = DOMAIN s.actions /\ acts = [h \in DOMAIN acts |-> acts[h]]
           /\ \A h \in DOMAIN acts : HourOK(acts[h])
           /\ AllFeasible(s) => \A h \in DOMAIN acts : \A x \in DOMAIN acts[h] : Feasible(Specs[x], acts[h][x])
           /\ \A h \in DOMAIN acts : h \in Rest =>
                 acts[h][b] = DayOf(Specs[b], soc, FullPrices([k \in Rest |-> s.prices[k]]))[h]
<1>1. PICK prices, initial : /\ prices = [h \in Rest |-> s.prices[h]]
                             /\ initial = [x \in {b} |-> soc]
  OBVIOUS
<1>2. PICK plan : plan = OptimizeDay(prices, initial)
  OBVIOUS
<1>3. acts = [h \in DOMAIN s.actions |->
                 IF h \in Rest THEN [x \in DOMAIN s.actions[h] \cup {b} |->
                                        IF x = b THEN plan.actions[h][b] ELSE s.actions[h][x]]
                 ELSE s.actions[h]]
  BY <1>1, <1>2, Zenon DEF Patched
<1>4. /\ \A h \in Hours : plan.actions[h] \in [{b} -> Action]
      /\ \A h \in Hours : Feasible(Specs[b], plan.actions[h][b])
      /\ \A h \in Hours : plan.actions[h][b] = DayOf(Specs[b], soc, FullPrices(prices))[h]
  <2>1. {b} \in SUBSET Batteries /\ initial \in [{b} -> Int]
    BY <1>1
  <2>2. LET a == OptimizeDay(prices, initial).actions
        IN  /\ \A h \in Hours : a[h] \in [{b} -> Action]
            /\ \A h \in Hours, x \in {b} : Feasible(Specs[x], a[h][x])
            /\ \A h \in Hours, x \in {b} :
                  a[h][x] = DayOf(Specs[x], initial[x], FullPrices(prices))[h]
    BY <2>1, OptimizedDay
  <2>3. initial[b] = soc
    BY <1>1
  <2>. QED  BY <1>2, <2>2, <2>3
<1>5. DOMAIN s.actions \subseteq Hours /\ \A h \in DOMAIN s.actions : HourOK(s.actions[h])
  BY DEF ScheduleOK
<1>6. DOMAIN acts = DOMAIN s.actions /\ acts = [h \in DOMAIN acts |-> acts[h]]
  BY <1>3
<1>7. ASSUME NEW h \in DOMAIN acts
      PROVE  /\ HourOK(acts[h])
             /\ AllFeasible(s) => \A x \in DOMAIN acts[h] : Feasible(Specs[x], acts[h][x])
             /\ h \in Rest => acts[h][b] = DayOf(Specs[b], soc, FullPrices(prices))[h]
  <2>0. h \in Hours /\ h \in DOMAIN s.actions /\ HourOK(s.actions[h])
    BY <1>5, <1>6
  <2>1. CASE h \in Rest
    <3>1. acts[h] = [x \in DOMAIN s.actions[h] \cup {b} |->
                        IF x = b THEN plan.actions[h][b] ELSE s.actions[h][x]]
      BY <1>3, <1>6, <2>1
    <3>2. plan.actions[h][b] \in Action /\ Feasible(Specs[b], plan.actions[h][b])
      BY <1>4, <2>0
    <3>3. HourOK(acts[h])
      BY <2>0, <3>1, <3>2 DEF HourOK
    <3>4. AllFeasible(s) => \A x \in DOMAIN s.actions[h] : Feasible(Specs[x], s.actions[h][x])
      BY <2>0 DEF AllFeasible
    <3>5. acts[h][b] = DayOf(Specs[b], soc, FullPrices(prices))[h]
      BY <1>4, <2>0, <3>1
    <3>. QED  BY <3>1, <3>2, <3>3, <3>4, <3>5
  <2>2. CASE h \notin Rest
    <3>1. acts[h] = s.actions[h]
      BY <1>3, <1>6, <2>2
    <3>. QED  BY <2>0, <2>2, <3>1 DEF AllFeasible
  <2>. QED  BY <2>1, <2>2
<1>. QED  BY <1>1, <1>6, <1>7

\* A schedule is replaced by one that is as feasible as the one before, at the same
\* prices or at prices just published.
Better(table, d, s) ==
    /\ HandMade /\ (table[d] # None => AllFeasible(table[d])) => AllFeasible(s)
    /\ s.prices \in Curves \/ (table[d] # None /\ s.prices = table[d].prices)

\* At most one schedule changes in a step.
Reschedules ==
    \/ schedules' = schedules
    \/ \E d \in Days : \E s : /\ schedules' = [schedules EXCEPT ![d] = s]
                              /\ Better(schedules, d, s)

CurvesKnown == \A d \in Days : schedules[d] # None => schedules[d].prices \in Curves

LEMMA KeepsBetter ==
    ASSUME TableOK(schedules), Reschedules
    PROVE  /\ HandMade /\ PlansFeasible => PlansFeasible'
           /\ CurvesKnown => CurvesKnown'
<1>1. CASE schedules' = schedules
  BY <1>1 DEF PlansFeasible, CurvesKnown
<1>2. CASE schedules' # schedules
  <2>1. PICK d \in Days : \E s : /\ schedules' = [schedules EXCEPT ![d] = s]
                                 /\ Better(schedules, d, s)
    BY <1>2 DEF Reschedules
  <2>2. PICK s : schedules' = [schedules EXCEPT ![d] = s] /\ Better(schedules, d, s)
    BY <2>1
  <2>3. schedules'[d] = s /\ \A e \in Days : e # d => schedules'[e] = schedules[e]
    BY <2>2 DEF TableOK
  <2>4. ASSUME HandMade, PlansFeasible PROVE PlansFeasible'
    <3>1. \A e \in Days : schedules[e] # None => AllFeasible(schedules[e])
      BY <2>4 DEF PlansFeasible, AllFeasible
    <3>2. AllFeasible(s)
      BY <2>2, <2>4, <3>1 DEF Better
    <3>3. \A e \in Days : schedules'[e] # None => AllFeasible(schedules'[e])
      BY <2>3, <3>1, <3>2
    <3>. QED  BY <3>3 DEF PlansFeasible, AllFeasible
  <2>5. ASSUME CurvesKnown PROVE CurvesKnown'
    <3>1. s.prices \in Curves
      BY <2>2, <2>5 DEF Better, CurvesKnown
    <3>. QED  BY <2>3, <2>5, <3>1 DEF CurvesKnown
  <2>. QED  BY <2>4, <2>5
<1>. QED  BY <1>1, <1>2

-----------------------------------------------------------------------------
\* The steps.

LEMMA InitIInv == Init => IInv
<1> SUFFICES ASSUME Init PROVE IInv
  OBVIOUS
<1>1. /\ hr = [pc |-> "down", slot |-> NoSlot, slept |-> NoSlot, old |-> None, keys |-> {}, i |-> 0, act |-> None]
      /\ wd = [pc |-> "down", slot |-> NoSlot, old |-> None, i |-> 0, before |-> None]
  BY DEF Init, HourlyIdle, WatchdogIdle
<1>2. hr.pc = "down" /\ wd.pc = "down"
  BY <1>1
<1>3. schedules = [d \in Days |-> schedules[d]] /\ \A d \in Days : schedules[d] = None
  BY DEF Init
<1>4. setpoint \in [Batteries -> [slot : {NoSlot} \cup (Days \X Hours), type : Types]]
  BY DEF Init, Stopped, Types
<1>5. TypeOK
  <2>1. day \in 0..LastDay /\ hour \in Hours /\ fetched \in -1..LastDay /\ calls \in 0..MaxCalls
    BY SchedulerAssumption DEF Init
  <2>2. \A d \in Days : schedules[d] # None => ScheduleOK(schedules[d])
    BY <1>3
  <2>3. /\ running \in BOOLEAN /\ ~running
        /\ fetching \subseteq {"loop", "api"} \X Days
        /\ pending \subseteq Batteries /\ unstopped \subseteq Batteries
    BY DEF Init
  <2>. QED  BY <1>2, <1>3, <1>4, <2>1, <2>2, <2>3 DEF TypeOK
<1>6. HourlyOK(hr, schedules) /\ WatchOK(wd, schedules)
  BY <1>1, <1>2 DEF HourlyOK, WatchOK, Busy
<1>. QED  BY <1>5, <1>6 DEF IInv

LEMMA Idle ==
    \A slot, slept, table, pc :
        /\ pc \in {"down", "asleep"} =>
              HourlyOK(HourlyIdle(pc, slot, slept), table) /\ HourlyIdle(pc, slot, slept).pc = pc
        /\ pc \in {"down", "asleep"} => WatchOK(WatchdogIdle(pc), table) /\ WatchdogIdle(pc).pc = pc
  BY DEF HourlyIdle, WatchdogIdle, HourlyOK, WatchOK, Busy

LEMMA TickOK ==
    ASSUME IInv, Tick
    PROVE  IInv' /\ Reschedules
<1>1. /\ UNCHANGED <<running, schedules, fetching, fetched, hr, wd, pending, setpoint, unstopped, calls>>
      /\ day' \in 0..LastDay /\ hour' \in Hours
  <2>1. day \in 0..LastDay /\ hour \in 0..HoursPerDay - 1 /\ LastDay \in Nat /\ HoursPerDay \in Nat \ {0}
    BY Constants, SchedulerAssumption DEF IInv, TypeOK, Hours
  <2>2. IF hour < HoursPerDay - 1 THEN hour' = hour + 1 /\ day' = day
        ELSE day < LastDay /\ hour' = 0 /\ day' = day + 1
    BY DEF Tick
  <2>3. day' \in 0..LastDay /\ hour' \in 0..HoursPerDay - 1
    BY <2>1, <2>2
  <2>. QED  BY <2>3 DEF Tick, fetchVars, plantVars, Hours
<1>. QED  BY <1>1 DEF IInv, TypeOK, Reschedules

LEMMA StartOK ==
    ASSUME IInv, Start
    PROVE  IInv' /\ Reschedules
<1>1. /\ UNCHANGED <<day, hour, schedules, fetching, pending, setpoint, unstopped, calls>>
      /\ running' = TRUE
      /\ hr' = HourlyIdle("asleep", NoSlot, Now) /\ wd' = WatchdogIdle("asleep")
      /\ fetched' \in -1..LastDay
  BY SchedulerAssumption DEF Start, IInv, TypeOK, clockVars, plantVars
<1>2. HourlyOK(hr', schedules') /\ WatchOK(wd', schedules') /\ hr'.pc = "asleep" /\ wd'.pc = "asleep"
  BY <1>1, Idle
<1>. QED  BY <1>1, <1>2 DEF IInv, TypeOK, Reschedules

LEMMA StopOK ==
    ASSUME IInv, NEW arrives \in BOOLEAN, Stop(arrives)
    PROVE  IInv' /\ Reschedules
<1>1. /\ UNCHANGED <<day, hour, schedules, fetched, pending, unstopped>>
      /\ running' = FALSE /\ fetching' \subseteq fetching
      /\ hr' = HourlyIdle("down", NoSlot, NoSlot) /\ wd' = WatchdogIdle("down")
      /\ calls' \in 0..MaxCalls
  BY SchedulerAssumption DEF Stop, IInv, TypeOK, clockVars
<1>2. HourlyOK(hr', schedules') /\ WatchOK(wd', schedules') /\ hr'.pc = "down" /\ wd'.pc = "down"
  BY <1>1, Idle
<1>3. setpoint' \in [Batteries -> [slot : {NoSlot} \cup (Days \X Hours), type : Types]]
  <2>1. hr.pc = "sent" => hr.act \in [slot : {NoSlot} \cup (Days \X Hours), type : Types]
    BY DEF IInv, HourlyOK, Busy
  <2>2. Stopped \in [slot : {NoSlot} \cup (Days \X Hours), type : Types]
    BY DEF Stopped, Types
  <2>3. setpoint \in [Batteries -> [slot : {NoSlot} \cup (Days \X Hours), type : Types]]
    BY DEF IInv, TypeOK
  <2>4. \/ setpoint' = setpoint
        \/ hr.pc = "sent" /\ setpoint' = [setpoint EXCEPT ![Fleet[hr.i]] = hr.act]
        \/ setpoint' = [setpoint EXCEPT ![Fleet[hr.i]] = Stopped]
    BY DEF Stop
  <2>. QED  BY <2>1, <2>2, <2>3, <2>4
<1>. QED  BY <1>1, <1>2, <1>3 DEF IInv, TypeOK, Reschedules

LEMMA FetchOK ==
    ASSUME IInv,
           \/ Fetch
           \/ \E d \in AskedDays : Trigger(d)
           \/ \E f \in fetching : FetchFails(f)
    PROVE  IInv' /\ Reschedules
<1> DEFINE Kept == /\ UNCHANGED <<day, hour, running, schedules, hr, wd, pending, setpoint, unstopped>>
                   /\ fetching' \subseteq {"loop", "api"} \X Days
                   /\ fetched' \in -1..LastDay
                   /\ calls' \in 0..MaxCalls
<1>1. Kept
  <2>1. CASE Fetch
    <3>1. day + 1 \in Days
      BY SchedulerAssumption DEF IInv, TypeOK, Days
    <3>. QED  BY <2>1, <3>1 DEF Fetch, IInv, TypeOK, clockVars, plantVars
  <2>2. ASSUME NEW d \in AskedDays, Trigger(d)
        PROVE  Kept
    BY <2>2, Constants, SchedulerAssumption DEF Trigger, IInv, TypeOK, clockVars, plantVars
  <2>3. ASSUME NEW f \in fetching, FetchFails(f)
        PROVE  Kept
    BY <2>3 DEF FetchFails, IInv, TypeOK, clockVars, plantVars
  <2>. QED  BY <2>1, <2>2, <2>3
<1>. QED  BY <1>1 DEF IInv, TypeOK, Reschedules

\* A new plan, of the optimizer or by hand.
LEMMA StoreOK ==
    ASSUME IInv, NEW d \in Days, NEW s, ScheduleOK(s), HandMade => AllFeasible(s), s.prices \in Curves,
           Store(d, s),
           UNCHANGED <<day, hour, running, fetched, pending, setpoint, unstopped>>,
           fetching' \subseteq fetching, calls' \in 0..MaxCalls
    PROVE  IInv' /\ Reschedules
<1>1. /\ TableOK(schedules')
      /\ schedules' = [schedules EXCEPT ![d] = s]
      /\ HourlyOK(hr', schedules') /\ WatchOK(wd', schedules')
      /\ hr'.pc = hr.pc /\ wd'.pc = wd.pc
  BY Stores
<1>2. Reschedules
  <2>1. Better(schedules, d, s)
    BY DEF Better
  <2>. QED  BY <1>1, <2>1, Zenon DEF Reschedules
<1>3. TypeOK'
  BY <1>1 DEF IInv, TypeOK, TableOK
<1>. QED  BY <1>1, <1>2, <1>3 DEF IInv

LEMMA PlansOK ==
    ASSUME IInv, NEW f \in fetching, NEW p \in Market, PricesArrive(f, p)
    PROVE  IInv' /\ Reschedules
<1>1. f[2] \in Days /\ calls \in 0..MaxCalls
  BY DEF IInv, TypeOK
<1>2. PICK d, s : d = f[2] /\ s = Planned(p)
  OBVIOUS
<1>3. d \in Days /\ ScheduleOK(s) /\ AllFeasible(s) /\ s.prices \in Curves
  BY <1>1, <1>2, PlannedOK DEF Curves
<1>4. Store(d, s)
  BY <1>2 DEF PricesArrive
<1>5. /\ UNCHANGED <<day, hour, running, fetched, pending, setpoint, unstopped>>
      /\ fetching' \subseteq fetching /\ calls' \in 0..MaxCalls
  BY <1>1 DEF PricesArrive, clockVars, plantVars
<1>. QED  BY <1>3, <1>4, <1>5, StoreOK

LEMMA ForceOK ==
    ASSUME IInv, NEW d \in AskedDays, NEW x \in Forced, ForceSchedule(d, x)
    PROVE  IInv' /\ Reschedules
<1>1. PICK s : s = [x EXCEPT !.status = "overridden"]
  OBVIOUS
<1>2. ScheduleOK(x)
  BY SchedulerAssumption
<1>3. /\ ScheduleOK([x EXCEPT !.status = "overridden"])
      /\ [x EXCEPT !.status = "overridden"].actions = x.actions
      /\ [x EXCEPT !.status = "overridden"].prices = x.prices
  BY <1>2, WithStatus DEF Status
<1>4. ScheduleOK(s) /\ s.actions = x.actions /\ s.prices = x.prices
  BY <1>1, <1>3, Zenon
<1>5. (HandMade => AllFeasible(s)) /\ s.prices \in Curves
  BY <1>4 DEF HandMade, AllFeasible, Curves
<1>6. d \in Days
  BY Constants
<1>7. Store(d, s)
  BY <1>1 DEF ForceSchedule
<1>8. /\ UNCHANGED <<day, hour, running, fetched, pending, setpoint, unstopped>>
      /\ fetching' \subseteq fetching /\ calls' \in 0..MaxCalls
  BY SchedulerAssumption DEF ForceSchedule, IInv, TypeOK, clockVars, fetchVars, plantVars
<1>. QED  BY <1>4, <1>5, <1>6, <1>7, <1>8, StoreOK

-----------------------------------------------------------------------------
\* The steps of the hourly loop and of the watchdog.

\* What the hourly loop has in hand while it waits for a battery.
LEMMA InHand ==
    ASSUME IInv, hr.pc \in Busy
    PROVE  /\ hr = [pc |-> hr.pc, slot |-> hr.slot, slept |-> hr.slept, old |-> hr.old,
                    keys |-> hr.keys, i |-> hr.i, act |-> hr.act]
           /\ hr.slot \in Days \X Hours
           /\ hr.i \in Index /\ hr.i \in Nat /\ Fleet[hr.i] \in Batteries
           /\ hr.act \in [slot : {hr.slot}, type : Types]
           /\ hr.act \in [slot : {NoSlot} \cup (Days \X Hours), type : Types]
           /\ HoldsOne(hr, schedules) /\ hr.slot[2] \in DOMAIN HeldIn(hr, schedules).actions
           /\ running
  BY Constants DEF IInv, TypeOK, HourlyOK, Busy

\* The loop at the top of the hour.
FirstStep(s) == [HourlyIdle("sent", Now, Now) EXCEPT !.keys = DOMAIN s.actions[hour]]

LEMMA HourBeginOK ==
    ASSUME IInv, HourBegin
    PROVE  IInv' /\ Reschedules
<1>0. /\ TableOK(schedules) /\ day \in Days /\ hour \in Hours /\ pending \in SUBSET Batteries
      /\ hr.pc = "asleep" /\ running
  BY Constants DEF IInv, TypeOK, TableOK, HourBegin, HourlyDue
<1>1. PICK s : s = schedules[day]
  OBVIOUS
<1>2. UNCHANGED <<day, hour, running, fetching, fetched, wd, setpoint, unstopped, calls>>
  BY DEF HourBegin, clockVars, fetchVars
<1>3. CASE s # None /\ hour \in DOMAIN s.actions
  <2>1. /\ schedules' = [schedules EXCEPT ![day].status = "executing"]
        /\ GoOn(FirstStep(s), 0, pending)
    BY <1>1, <1>3 DEF HourBegin, FirstStep
  <2>2. ScheduleOK(s)
    BY <1>0, <1>1, <1>3 DEF TableOK
  <2>3. PICK t : t = [s EXCEPT !.status = "executing"]
    OBVIOUS
  <2>4. ScheduleOK(t) /\ t.actions = s.actions /\ t.prices = s.prices
    <3>1. /\ ScheduleOK([s EXCEPT !.status = "executing"])
          /\ [s EXCEPT !.status = "executing"].actions = s.actions
          /\ [s EXCEPT !.status = "executing"].prices = s.prices
      BY <2>2, WithStatus DEF Status
    <3>. QED  BY <2>3, <3>1, Zenon
  <2>5. schedules' = With(schedules, day, t)
    BY <1>1, <2>1, <2>3 DEF With
  <2>6. TableOK(With(schedules, day, t)) /\ Follows(schedules, With(schedules, day, t))
    BY <1>0, <1>1, <1>3, <2>4, Improves
  <2>7. TableOK(schedules') /\ Follows(schedules, schedules')
    BY <2>5, <2>6, Zenon
  <2>8. PICK loop : loop = FirstStep(s)
    OBVIOUS
  <2>9. loop = [pc |-> "sent", slot |-> Now, slept |-> Now, old |-> None,
                keys |-> DOMAIN s.actions[hour], i |-> 0, act |-> None]
    BY <2>8 DEF FirstStep, HourlyIdle
  <2>10. /\ loop.pc = "sent" /\ loop.slot = Now /\ loop.slept = Now /\ loop.old = None
         /\ loop.keys = DOMAIN s.actions[hour] /\ loop.i = 0 /\ loop.act = None
    BY <2>9
  <2>11. loop = [pc |-> loop.pc, slot |-> loop.slot, slept |-> loop.slept, old |-> loop.old,
                 keys |-> loop.keys, i |-> loop.i, act |-> loop.act]
    BY <2>9, <2>10
  <2>12. loop.slot \in Days \X Hours /\ loop.slot[1] = day /\ loop.slot[2] = hour
    BY <1>0, <2>10 DEF Now
  <2>13. HeldIn(loop, schedules) = s
    BY <1>1, <2>10, <2>12 DEF HeldIn
  <2>14. HoldsOne(loop, schedules) /\ loop.slot[2] \in DOMAIN HeldIn(loop, schedules).actions
    BY <1>3, <2>2, <2>12, <2>13 DEF HoldsOne
  <2>15. GoOn(loop, 0, pending)
    BY <2>1, <2>8
  <2>16. /\ pending' \in SUBSET Batteries
         /\ HourlyOK(hr', schedules')
         /\ hr'.pc \in {"asleep"} \cup Busy
    BY <1>0, <2>7, <2>11, <2>12, <2>14, <2>15, HourlyStep
  <2>17. WatchOK(wd', schedules')
    BY <1>0, <1>2, <2>7, LoopsFollow DEF IInv
  <2>18. Reschedules
    <3>1. AllFeasible(s) => AllFeasible(t)
      BY <2>4 DEF AllFeasible
    <3>2. schedules' = [schedules EXCEPT ![day] = t]
      BY <2>5 DEF With
    <3>3. Better(schedules, day, t)
      BY <1>1, <1>3, <2>4, <3>1 DEF Better
    <3>. QED  BY <1>0, <3>2, <3>3 DEF Reschedules
  <2>19. TypeOK'
    BY <1>0, <1>2, <2>7, <2>16 DEF IInv, TypeOK, TableOK, Busy
  <2>. QED  BY <2>16, <2>17, <2>18, <2>19 DEF IInv
<1>4. CASE ~(s # None /\ hour \in DOMAIN s.actions)
  <2>1. hr' = HourlyIdle("asleep", hr.slot, Now) /\ UNCHANGED <<schedules, pending>>
    BY <1>1, <1>4 DEF HourBegin
  <2>2. HourlyOK(hr', schedules') /\ hr'.pc = "asleep"
    BY <2>1, Idle
  <2>. QED  BY <1>0, <1>2, <2>1, <2>2 DEF IInv, TypeOK, Reschedules
<1>. QED  BY <1>3, <1>4

\* The loop goes on from the battery in hand.
LEMMA WentOn ==
    ASSUME IInv, hr.pc \in Busy, NEW tasks \in SUBSET Batteries, GoOn(hr, hr.i, tasks),
           setpoint' \in [Batteries -> [slot : {NoSlot} \cup (Days \X Hours), type : Types]],
           unstopped' \in SUBSET Batteries,
           UNCHANGED <<day, hour, running, schedules, fetching, fetched, wd, calls>>
    PROVE  IInv'
<1>1. TableOK(schedules) /\ Follows(schedules, schedules)
  BY FollowsItself DEF IInv, TypeOK, TableOK
<1>2. TableOK(schedules) /\ Follows(schedules, schedules')
  BY <1>1
<1>3. /\ pending' \in SUBSET Batteries
      /\ HourlyOK(hr', schedules')
      /\ hr'.pc \in {"asleep"} \cup Busy
  BY <1>2, InHand, HourlyStep
<1>4. running
  BY InHand
<1>. QED  BY <1>3, <1>4 DEF IInv, TypeOK, Busy

LEMMA AnswerOK ==
    ASSUME IInv, NEW outcome, Answer(outcome)
    PROVE  IInv' /\ Reschedules
<1>1. PICK b : b = Fleet[hr.i]
  OBVIOUS
<1>2. hr.pc = "sent" /\ hr.pc \in Busy
  BY DEF Answer, Busy
<1>3. /\ UNCHANGED <<day, hour, running, schedules, fetching, fetched, wd, calls>>
      /\ setpoint' = setpoint \/ setpoint' = [setpoint EXCEPT ![b] = hr.act]
      /\ \/ /\ GoOn(hr, hr.i, IF hr.act.type = "stop" THEN pending ELSE pending \cup {b})
            /\ unstopped' = unstopped \ {b}
         \/ /\ hr' = [hr EXCEPT !.pc = "stopping"]
            /\ pending' = pending \ {b}
            /\ unstopped' = unstopped
  BY <1>1 DEF Answer, clockVars, fetchVars
<1>4. /\ b \in Batteries /\ pending \in SUBSET Batteries /\ unstopped \in SUBSET Batteries
      /\ setpoint \in [Batteries -> [slot : {NoSlot} \cup (Days \X Hours), type : Types]]
      /\ hr.act \in [slot : {NoSlot} \cup (Days \X Hours), type : Types]
  BY <1>1, <1>2, InHand DEF IInv, TypeOK
<1>5. /\ setpoint' \in [Batteries -> [slot : {NoSlot} \cup (Days \X Hours), type : Types]]
      /\ unstopped' \in SUBSET Batteries
  BY <1>3, <1>4
<1>6. CASE GoOn(hr, hr.i, IF hr.act.type = "stop" THEN pending ELSE pending \cup {b})
  <2>1. PICK tasks : tasks = IF hr.act.type = "stop" THEN pending ELSE pending \cup {b}
    OBVIOUS
  <2>2. tasks \in SUBSET Batteries
    BY <1>4, <2>1
  <2>3. GoOn(hr, hr.i, tasks)
    BY <1>6, <2>1
  <2>4. IInv'
    BY <1>2, <1>3, <1>5, <2>2, <2>3, WentOn
  <2>. QED  BY <1>3, <2>4 DEF Reschedules
<1>7. CASE hr' = [hr EXCEPT !.pc = "stopping"] /\ pending' = pending \ {b}
  <2>1. hr' = [pc |-> "stopping", slot |-> hr.slot, slept |-> hr.slept, old |-> hr.old,
               keys |-> hr.keys, i |-> hr.i, act |-> hr.act]
    BY <1>2, <1>7, InHand
  <2>2. /\ hr'.pc = "stopping" /\ hr'.slot = hr.slot /\ hr'.slept = hr.slept /\ hr'.old = hr.old
        /\ hr'.keys = hr.keys /\ hr'.i = hr.i /\ hr'.act = hr.act
    BY <2>1
  <2>3. HeldIn(hr', schedules') = HeldIn(hr, schedules)
    BY <1>3, <2>2 DEF HeldIn
  <2>4. HoldsOne(hr', schedules') /\ hr'.slot[2] \in DOMAIN HeldIn(hr', schedules').actions
    BY <1>2, <2>2, <2>3, InHand DEF HoldsOne
  <2>5. HourlyOK(hr', schedules')
    BY <1>2, <2>1, <2>2, <2>4, InHand DEF HourlyOK, Busy
  <2>6. TypeOK'
    BY <1>2, <1>3, <1>4, <1>5, <1>7, <2>2, InHand DEF IInv, TypeOK
  <2>. QED  BY <1>3, <2>5, <2>6 DEF IInv, Reschedules
<1>. QED  BY <1>3, <1>6, <1>7

LEMMA FailSafeOK ==
    ASSUME IInv, NEW outcome, FailSafe(outcome)
    PROVE  IInv' /\ Reschedules
<1>1. PICK b : b = Fleet[hr.i]
  OBVIOUS
<1>2. hr.pc \in Busy
  BY DEF FailSafe, Busy
<1>3. /\ UNCHANGED <<day, hour, running, schedules, fetching, fetched, wd, calls>>
      /\ GoOn(hr, hr.i, pending)
      /\ setpoint' = setpoint \/ setpoint' = [setpoint EXCEPT ![b] = Stopped]
      /\ unstopped' = unstopped \ {b} \/ unstopped' = unstopped \cup {b}
  BY <1>1 DEF FailSafe, clockVars, fetchVars
<1>4. /\ b \in Batteries /\ pending \in SUBSET Batteries /\ unstopped \in SUBSET Batteries
      /\ setpoint \in [Batteries -> [slot : {NoSlot} \cup (Days \X Hours), type : Types]]
      /\ Stopped \in [slot : {NoSlot} \cup (Days \X Hours), type : Types]
  BY <1>1, <1>2, InHand DEF IInv, TypeOK, Stopped, Types
<1>5. /\ setpoint' \in [Batteries -> [slot : {NoSlot} \cup (Days \X Hours), type : Types]]
      /\ unstopped' \in SUBSET Batteries
  BY <1>3, <1>4
<1>6. IInv'
  BY <1>2, <1>3, <1>4, <1>5, WentOn
<1>. QED  BY <1>3, <1>6 DEF Reschedules

\* The watchdog's round begins.
LEMMA WatchBeginOK ==
    ASSUME IInv, WatchBegin
    PROVE  IInv' /\ Reschedules
<1>0. /\ TableOK(schedules) /\ Follows(schedules, schedules) /\ day \in Days /\ hour \in Hours
      /\ schedules[day] # None /\ running
  BY FollowsItself, Constants DEF IInv, TypeOK, TableOK, WatchBegin
<1>1. PICK loop : loop = [WatchdogIdle("asking") EXCEPT !.slot = Now]
  OBVIOUS
<1>2. loop = [pc |-> "asking", slot |-> Now, old |-> None, i |-> 0, before |-> None]
  BY <1>1 DEF WatchdogIdle
<1>3. loop.pc = "asking" /\ loop.slot = Now /\ loop.old = None /\ loop.i = 0 /\ loop.before = None
  BY <1>2
<1>4. loop = [pc |-> loop.pc, slot |-> loop.slot, old |-> loop.old, i |-> loop.i, before |-> loop.before]
  BY <1>2, <1>3
<1>5. loop.slot \in Days \X Hours /\ loop.slot[1] = day
  BY <1>0, <1>3 DEF Now
<1>6. HoldsOne(loop, schedules)
  BY <1>0, <1>3, <1>5 DEF HoldsOne, HeldIn, TableOK
<1>7. /\ Check(loop, 0)
      /\ UNCHANGED <<day, hour, running, schedules, fetching, fetched, hr, pending, setpoint, unstopped, calls>>
  BY <1>1 DEF WatchBegin, clockVars, fetchVars, plantVars
<1>8. Follows(schedules, schedules')
  BY <1>0, <1>7
<1>9. WatchOK(wd', schedules') /\ wd'.pc \in {"asleep", "asking"}
  BY <1>0, <1>3, <1>4, <1>5, <1>6, <1>7, <1>8, WatchStep
<1>. QED  BY <1>0, <1>7, <1>9 DEF IInv, TypeOK, Reschedules

\* And goes on from the battery it has asked, whatever was planned again meanwhile.
LEMMA WatchWentOn ==
    ASSUME IInv, wd.pc = "asking",
           Check(wd, wd.i) \/ wd' = WatchdogIdle("asleep"),
           TableOK(schedules'), Follows(schedules, schedules'),
           UNCHANGED <<day, hour, running, fetching, fetched, hr, pending, setpoint, unstopped, calls>>
    PROVE  IInv'
<1>0. TableOK(schedules) /\ running /\ HourlyOK(hr, schedules) /\ WatchOK(wd, schedules)
  BY DEF IInv, TypeOK, TableOK
<1>1. HourlyOK(hr', schedules')
  BY <1>0, LoopsFollow
<1>2. WatchOK(wd', schedules') /\ wd'.pc \in {"asleep", "asking"}
  <2>1. CASE Check(wd, wd.i)
    <3>1. /\ wd = [pc |-> wd.pc, slot |-> wd.slot, old |-> wd.old, i |-> wd.i, before |-> wd.before]
          /\ wd.slot \in Days \X Hours /\ wd.i \in Nat /\ HoldsOne(wd, schedules)
      BY <1>0, Constants DEF WatchOK
    <3>. QED  BY <1>0, <2>1, <3>1, WatchStep
  <2>2. CASE wd' = WatchdogIdle("asleep")
    BY <2>2, Idle
  <2>. QED  BY <2>1, <2>2
<1>. QED  BY <1>0, <1>1, <1>2 DEF IInv, TypeOK, TableOK

LEMMA WatchFailsOK ==
    ASSUME IInv, WatchFails
    PROVE  IInv' /\ Reschedules
<1>1. TableOK(schedules) /\ Follows(schedules, schedules)
  BY FollowsItself DEF IInv, TypeOK, TableOK
<1>2. /\ wd.pc = "asking" /\ Check(wd, wd.i)
      /\ UNCHANGED <<day, hour, running, schedules, fetching, fetched, hr, pending, setpoint, unstopped, calls>>
  BY DEF WatchFails, clockVars, fetchVars, plantVars
<1>3. TableOK(schedules') /\ Follows(schedules, schedules')
  BY <1>1, <1>2
<1>4. IInv'
  BY <1>2, <1>3, WatchWentOn
<1>. QED  BY <1>2, <1>4 DEF Reschedules

\* The rest of the day is planned again, in the schedule that is current now.
LEMMA ReplanOK ==
    ASSUME IInv, wd.pc = "asking", NEW b \in Batteries, NEW soc \in Int, Replan(b, soc),
           UNCHANGED <<day, hour, running, fetching, fetched, hr, pending, setpoint, unstopped, calls>>
    PROVE  IInv' /\ Reschedules
<1>0. TableOK(schedules) /\ Follows(schedules, schedules) /\ wd.slot[1] \in Days
  BY FollowsItself DEF IInv, TypeOK, TableOK, WatchOK
<1>1. PICK d, s, acts : d = wd.slot[1] /\ s = schedules[d] /\ acts = Patched(s, b, soc)
  OBVIOUS
<1>2. CASE s # None /\ Rest \subseteq DOMAIN s.actions
  <2>1. Check(wd, wd.i) /\ schedules' = [schedules EXCEPT ![d].actions = acts]
    BY <1>1, <1>2 DEF Replan
  <2>2. ScheduleOK(s)
    BY <1>0, <1>1, <1>2 DEF TableOK
  <2>3. /\ DOMAIN acts = DOMAIN s.actions /\ acts = [h \in DOMAIN acts |-> acts[h]]
        /\ \A h \in DOMAIN acts : HourOK(acts[h])
        /\ AllFeasible(s) => \A h \in DOMAIN acts : \A x \in DOMAIN acts[h] : Feasible(Specs[x], acts[h][x])
    BY <1>1, <2>2, PatchedOK
  <2>4. DOMAIN acts \subseteq Hours
    BY <2>2, <2>3 DEF ScheduleOK
  <2>5. PICK t : t = [s EXCEPT !.actions = acts]
    OBVIOUS
  <2>6. ScheduleOK(t) /\ t.actions = acts /\ t.prices = s.prices
    <3>1. /\ ScheduleOK([s EXCEPT !.actions = acts]) /\ [s EXCEPT !.actions = acts].actions = acts
          /\ [s EXCEPT !.actions = acts].prices = s.prices
      BY <2>2, <2>3, <2>4, WithActions
    <3>. QED  BY <2>5, <3>1, Zenon
  <2>7. schedules' = With(schedules, d, t)
    BY <1>1, <2>1, <2>5 DEF With
  <2>8. TableOK(With(schedules, d, t)) /\ Follows(schedules, With(schedules, d, t))
    BY <1>0, <1>1, <1>2, <2>3, <2>6, Improves
  <2>9. TableOK(schedules') /\ Follows(schedules, schedules')
    BY <2>7, <2>8, Zenon
  <2>10. IInv'
    BY <2>1, <2>9, WatchWentOn
  <2>11. AllFeasible(s) => AllFeasible(t)
    BY <2>3, <2>6 DEF AllFeasible
  <2>12. schedules' = [schedules EXCEPT ![d] = t]
    BY <2>7 DEF With
  <2>13. Better(schedules, d, t)
    BY <1>1, <1>2, <2>6, <2>11 DEF Better
  <2>. QED  BY <1>0, <1>1, <2>10, <2>12, <2>13 DEF Reschedules
<1>3. CASE ~(s # None /\ Rest \subseteq DOMAIN s.actions)
  <2>1. wd' = WatchdogIdle("asleep") /\ schedules' = schedules
    BY <1>1, <1>3 DEF Replan
  <2>2. TableOK(schedules') /\ Follows(schedules, schedules')
    BY <1>0, <2>1
  <2>3. IInv'
    BY <2>1, <2>2, WatchWentOn
  <2>. QED  BY <2>1, <2>3 DEF Reschedules
<1>. QED  BY <1>2, <1>3

LEMMA WatchAnswerOK ==
    ASSUME IInv, NEW soc, WatchAnswer(soc)
    PROVE  IInv' /\ Reschedules
<1>1. PICK b : b = Fleet[wd.i]
  OBVIOUS
<1>2. /\ wd.pc = "asking" /\ soc \in Readings[b]
      /\ UNCHANGED <<day, hour, running, fetching, fetched, hr, pending, setpoint, unstopped, calls>>
      /\ Replan(b, soc) \/ (Check(wd, wd.i) /\ schedules' = schedules)
  BY <1>1 DEF WatchAnswer, clockVars, fetchVars, plantVars
<1>3. b \in Batteries /\ soc \in Int
  BY <1>1, <1>2, Constants DEF IInv, WatchOK
<1>4. CASE Replan(b, soc)
  BY <1>2, <1>3, <1>4, ReplanOK
<1>5. CASE Check(wd, wd.i) /\ schedules' = schedules
  <2>1. TableOK(schedules) /\ Follows(schedules, schedules)
    BY FollowsItself DEF IInv, TypeOK, TableOK
  <2>2. TableOK(schedules') /\ Follows(schedules, schedules')
    BY <1>5, <2>1
  <2>3. IInv'
    BY <1>2, <1>5, <2>2, WatchWentOn
  <2>. QED  BY <1>5, <2>3 DEF Reschedules
<1>. QED  BY <1>2, <1>4, <1>5

LEMMA NextIInv ==
    ASSUME IInv, [Next]_vars
    PROVE  IInv' /\ Reschedules
<1>1. CASE UNCHANGED vars
  BY <1>1 DEF vars, clockVars, fetchVars, plantVars, IInv, TypeOK, Reschedules
<1>2. CASE Tick
  BY <1>2, TickOK
<1>3. CASE Start
  BY <1>3, StartOK
<1>4. ASSUME NEW arrives \in BOOLEAN, Stop(arrives)
      PROVE  IInv' /\ Reschedules
  BY <1>4, StopOK
<1>5. CASE Fetch \/ (\E d \in AskedDays : Trigger(d)) \/ (\E f \in fetching : FetchFails(f))
  BY <1>5, FetchOK
<1>6. ASSUME NEW d \in AskedDays, NEW s \in Forced, ForceSchedule(d, s)
      PROVE  IInv' /\ Reschedules
  BY <1>6, ForceOK
<1>7. ASSUME NEW f \in fetching, NEW p \in Market, PricesArrive(f, p)
      PROVE  IInv' /\ Reschedules
  BY <1>7, PlansOK
<1>8. CASE Hourly
  BY <1>8, HourBeginOK, AnswerOK, FailSafeOK DEF Hourly
<1>9. CASE WatchBegin
  BY <1>9, WatchBeginOK
<1>10. CASE Watchdog
  BY <1>10, WatchFailsOK, WatchAnswerOK DEF Watchdog
<1>. QED  BY <1>1, <1>2, <1>3, <1>4, <1>5, <1>6, <1>7, <1>8, <1>9, <1>10 DEF Next

LEMMA Invariance == Spec => []IInv
<1>1. IInv /\ [Next]_vars => IInv'
  BY NextIInv
<1>. QED  BY <1>1, InitIInv, PTL DEF Spec

-----------------------------------------------------------------------------
\* The theorems.

\* Every variable of the three loops stays in its domain, for any fleet, prices and
\* schedules made by hand; the plans of the optimizer and of its re-plans are schedules.
THEOREM TypeCorrect == Spec => []TypeOK
<1>1. IInv => TypeOK
  BY DEF IInv
<1>. QED  BY <1>1, Invariance, PTL

\* The optimizer and the re-plan of the watchdog never ask a battery for more than
\* its rating, nor for energy beyond its bounds, if nobody does so by hand.
THEOREM PlansStayFeasible ==
    ASSUME HandMade
    PROVE  Spec => []PlansFeasible
<1>1. Init => PlansFeasible
  BY DEF Init, PlansFeasible
<1>2. IInv /\ PlansFeasible /\ [Next]_vars => PlansFeasible'
  <2> SUFFICES ASSUME IInv, PlansFeasible, [Next]_vars
               PROVE  PlansFeasible'
    OBVIOUS
  <2>1. Reschedules
    BY NextIInv
  <2>2. TableOK(schedules)
    BY DEF IInv, TypeOK, TableOK
  <2>. QED  BY HandMade, <2>1, <2>2, KeepsBetter
<1>. QED  BY <1>1, <1>2, Invariance, PTL DEF Spec

\* A plan stored by somebody else moves no loop.
LEMMA StoringMovesNoLoop ==
    ASSUME IInv, \/ \E d \in AskedDays, s \in Forced : ForceSchedule(d, s)
                 \/ \E f \in fetching, p \in Market : PricesArrive(f, p)
    PROVE  hr'.i = hr.i /\ wd'.pc = wd.pc /\ wd'.i = wd.i
<1>1. PICK d \in Days : \E s : ScheduleOK(s) /\ Store(d, s)
  <2>1. ASSUME NEW d \in AskedDays, NEW s \in Forced, ForceSchedule(d, s)
        PROVE  d \in Days /\ \E t : ScheduleOK(t) /\ Store(d, t)
    <3>1. PICK t : t = [s EXCEPT !.status = "overridden"]
      OBVIOUS
    <3>2. ScheduleOK([s EXCEPT !.status = "overridden"])
      BY WithStatus, SchedulerAssumption DEF Status
    <3>3. ScheduleOK(t)
      BY <3>1, <3>2, Zenon
    <3>4. Store(d, t)
      BY <2>1, <3>1 DEF ForceSchedule
    <3>. QED  BY <3>3, <3>4, Constants
  <2>2. ASSUME NEW f \in fetching, NEW p \in Market, PricesArrive(f, p)
        PROVE  f[2] \in Days /\ \E t : ScheduleOK(t) /\ Store(f[2], t)
    <3>1. f[2] \in Days
      BY DEF IInv, TypeOK
    <3>2. ScheduleOK(Planned(p))
      BY PlannedOK
    <3>3. Store(f[2], Planned(p))
      BY <2>2 DEF PricesArrive
    <3>4. PICK t : t = Planned(p)
      OBVIOUS
    <3>. QED  BY <3>1, <3>2, <3>3, <3>4, Zenon
  <2>. QED  BY <2>1, <2>2
<1>. QED  BY <1>1, Stores

\* Only the loop itself goes on from a battery; a stop of the scheduler ends it.
LEMMA OnlyHourlyLeaves ==
    ASSUME IInv, Next, hr.pc \in Busy, hr'.i # hr.i, hr'.pc # "down"
    PROVE  Hourly
<1>1. ~Tick /\ ~Fetch /\ ~WatchBegin /\ ~WatchFails
  BY DEF Tick, Fetch, WatchBegin, WatchFails
<1>2. ~Start
  BY InHand DEF Start
<1>3. \A soc : ~WatchAnswer(soc)
  BY DEF WatchAnswer
<1>4. \A arrives \in BOOLEAN : ~Stop(arrives)
  BY Idle DEF Stop
<1>5. \A d : ~Trigger(d)
  BY DEF Trigger
<1>6. \A f : ~FetchFails(f)
  BY DEF FetchFails
<1>7. /\ \A d \in AskedDays, x \in Forced : ~ForceSchedule(d, x)
      /\ \A f \in fetching, p \in Market : ~PricesArrive(f, p)
  BY StoringMovesNoLoop
<1>. QED  BY <1>1, <1>2, <1>3, <1>4, <1>5, <1>6, <1>7 DEF Next, Watchdog

\* _execute_hour() goes on from the battery in hand only when that follows the
\* command of the hour, stands still, or is known not to have confirmed its stop.
THEOREM TurnsEndOldCommands == Spec => TurnEndsOldCommand
<1> DEFINE A == \A i \in 1..Len(Fleet) : (hr.i = i /\ hr'.i # i /\ hr'.pc # "down") =>
                    \/ setpoint'[Fleet[i]] = Stopped
                    \/ setpoint'[Fleet[i]].slot = hr.slot
                    \/ Fleet[i] \in unstopped'
<1>1. ASSUME IInv, [Next]_vars PROVE A
  <2> SUFFICES ASSUME NEW i \in 1..Len(Fleet), hr.i = i, hr'.i # i, hr'.pc # "down",
                      NEW b, b = Fleet[i]
               PROVE  setpoint'[b] = Stopped \/ setpoint'[b].slot = hr.slot \/ b \in unstopped'
    OBVIOUS
  <2>0. IInv /\ Next
    BY <1>1 DEF vars
  <2>1. hr.pc \in Busy /\ i \in Index
    BY <2>0, Constants DEF IInv, TypeOK, HourlyOK, Index, Busy
  <2>2. Hourly
    BY <2>0, <2>1, OnlyHourlyLeaves
  <2>3. b \in Batteries /\ b = Fleet[hr.i] /\ hr.act.slot = hr.slot
    BY <2>0, <2>1, InHand
  <2>4. setpoint \in [Batteries -> [slot : {NoSlot} \cup (Days \X Hours), type : Types]]
    BY <2>0 DEF IInv, TypeOK
  <2>5. ASSUME NEW outcome, Answer(outcome)
        PROVE  setpoint'[b].slot = hr.slot
    <3>1. outcome = "ok"
      <4>1. hr' = [hr EXCEPT !.pc = "stopping"] => hr'.i = hr.i
        BY <2>0, <2>1, InHand
      <4>. QED  BY <2>5, <4>1 DEF Answer
    <3>2. setpoint' = [setpoint EXCEPT ![b] = hr.act]
      BY <2>3, <2>5, <3>1 DEF Answer
    <3>. QED  BY <2>3, <2>4, <3>2
  <2>6. ASSUME NEW outcome, FailSafe(outcome)
        PROVE  setpoint'[b] = Stopped \/ b \in unstopped'
    BY <2>3, <2>4, <2>6 DEF FailSafe
  <2>7. ~HourBegin
    BY <2>1 DEF HourBegin, HourlyDue, Busy
  <2>. QED  BY <2>2, <2>5, <2>6, <2>7 DEF Hourly
<1>2. Spec => [][A]_vars
  BY <1>1, Invariance, PTL DEF Spec
<1>. QED  BY <1>2 DEF TurnEndsOldCommand

\* A schedule that changes while the watchdog goes on from a battery is one it has
\* planned again.
LEMMA OnlyWatchdogReplans ==
    ASSUME IInv, Next, schedules' # schedules, <<wd'.pc, wd'.i>> # <<wd.pc, wd.i>>
    PROVE  \E soc : WatchAnswer(soc)
<1>1. ~Tick /\ ~Start /\ ~Fetch /\ ~WatchBegin /\ ~WatchFails
  BY DEF Tick, Start, Fetch, WatchBegin, WatchFails
<1>2. \A outcome : ~Answer(outcome) /\ ~FailSafe(outcome)
  BY DEF Answer, FailSafe
<1>3. ~HourBegin
  BY DEF HourBegin
<1>4. \A arrives : ~Stop(arrives)
  BY DEF Stop
<1>5. \A d : ~Trigger(d)
  BY DEF Trigger
<1>6. \A f : ~FetchFails(f)
  BY DEF FetchFails
<1>7. /\ \A d \in AskedDays, x \in Forced : ~ForceSchedule(d, x)
      /\ \A f \in fetching, p \in Market : ~PricesArrive(f, p)
  BY StoringMovesNoLoop
<1>. QED  BY <1>1, <1>2, <1>3, <1>4, <1>5, <1>6, <1>7 DEF Next, Hourly, Watchdog

\* _replan_remaining() plans the rest of the day as one trajectory from the state of charge
\* it has read, though the optimizer it calls plans whole days: the hours that are over
\* get the mean price and stay idle.
THEOREM ReplanStartsAtReading ==
    ASSUME ExactMeans
    PROVE  Spec => ReplansFromReading
<1> DEFINE A == \A d \in Days, b \in Batteries :
                    (<<wd'.pc, wd'.i>> # <<wd.pc, wd.i>> /\ wd.pc = "asking" /\ b = Fleet[wd.i]
                       /\ schedules'[d] # schedules[d]) =>
                    /\ schedules'[d].actions[wd.slot[2]][b].before \in Readings[b]
                    /\ Connected([h \in Hours |-> schedules'[d].actions[h][b]], wd.slot[2])
<1>1. ASSUME IInv, CurvesKnown, [Next]_vars PROVE A
  <2> SUFFICES ASSUME NEW d \in Days, <<wd'.pc, wd'.i>> # <<wd.pc, wd.i>>, wd.pc = "asking",
                      schedules'[d] # schedules[d],
                      NEW b \in Batteries, b = Fleet[wd.i],
                      NEW new, new = [h \in Hours |-> schedules'[d].actions[h][b]]
               PROVE  /\ schedules'[d].actions[wd.slot[2]][b].before \in Readings[b]
                      /\ Connected(new, wd.slot[2])
    OBVIOUS
  <2>0. IInv /\ CurvesKnown /\ Next
    BY <1>1 DEF vars
  <2>1. PICK soc : WatchAnswer(soc)
    BY <2>0, OnlyWatchdogReplans
  <2>2. PICK first : first = wd.slot[2]
    OBVIOUS
  <2>3. /\ TableOK(schedules) /\ wd.slot[1] \in Days /\ first \in Hours
        /\ b \in Batteries /\ soc \in Readings[b] /\ soc \in Int /\ Specs[b] \in Ratings
    BY <2>0, <2>1, <2>2, Constants DEF IInv, TypeOK, TableOK, WatchOK, WatchAnswer
  <2>4. PICK s, acts : s = schedules[wd.slot[1]] /\ acts = Patched(s, b, soc)
    OBVIOUS
  <2>5. /\ s # None /\ Rest \subseteq DOMAIN s.actions
        /\ schedules' = [schedules EXCEPT ![wd.slot[1]].actions = acts]
    BY <2>1, <2>4 DEF WatchAnswer, Replan
  <2>6. ScheduleOK(s) /\ s.prices \in Curves
    BY <2>0, <2>3, <2>4, <2>5 DEF TableOK, CurvesKnown
  <2>7. schedules'[d].actions = acts
    <3>1. d = wd.slot[1]
      BY <2>3, <2>5 DEF TableOK
    <3>2. schedules'[d] = [s EXCEPT !.actions = acts]
      BY <2>4, <2>5, <3>1 DEF TableOK
    <3>3. s = [prices |-> s.prices, actions |-> s.actions, status |-> s.status]
      BY <2>6 DEF ScheduleOK
    <3>4. [s EXCEPT !.actions = acts].actions = acts
      BY <3>3
    <3>. QED  BY <3>2, <3>4
  <2>8. PICK full, w : /\ full = FullPrices([k \in RestFrom(first) |-> s.prices[k]])
                       /\ w = DayOf(Specs[b], soc, full)
    OBVIOUS
  <2>9. Rest = RestFrom(first) /\ RestFrom(first) = first..HoursPerDay - 1
    BY <2>2 DEF Rest, RestFrom
  <2>10. \A h \in Rest : new[h] = w[h]
    <3>1. /\ DOMAIN acts = DOMAIN s.actions
          /\ \A h \in DOMAIN acts : h \in Rest =>
                acts[h][b] = DayOf(Specs[b], soc, FullPrices([k \in Rest |-> s.prices[k]]))[h]
      BY <2>3, <2>4, <2>6, PatchedOK
    <3>2. \A h \in Rest : h \in Hours /\ new[h] = acts[h][b]
      BY <2>5, <2>6, <2>7 DEF ScheduleOK
    <3>. QED  BY <2>5, <2>8, <2>9, <3>1, <3>2
  <2>11. \A h \in Hours : h < first => Classified(full)[h] = "neutral"
    <3>1. s.prices \in [Hours -> Nat] /\ ExactMean(s.prices, first)
      BY <2>3, <2>6, ExactMeans DEF ScheduleOK, ExactMeans
    <3>. QED  BY <2>3, <2>8, <3>1, FilledIsNeutral
  <2>12. w[first].before = soc
    BY <2>3, <2>8, <2>11, NothingMovedBefore
  <2>13. Connected(w, 0)
    BY <2>3, <2>8, DayFeasible
  <2>14. HoursPerDay \in Nat \ {0} /\ first \in Nat /\ first <= HoursPerDay - 1
    BY <2>3, OptimizerAssumption DEF Hours
  <2>15. new[first].before \in Readings[b]
    <3>1. first \in Rest
      BY <2>9, <2>14
    <3>. QED  BY <2>3, <2>10, <2>12, <3>1
  <2>16. Connected(new, first)
    <3>1. ASSUME NEW k \in first + 1..HoursPerDay - 1
          PROVE  new[k].before = new[k - 1].after
      <4>1. k \in Rest /\ k - 1 \in Rest /\ k \in 0 + 1..HoursPerDay - 1
        BY <2>9, <2>14
      <4>2. w[k].before = w[k - 1].after
        BY <2>13, <4>1 DEF Connected
      <4>. QED  BY <2>10, <4>1, <4>2
    <3>. QED  BY <3>1 DEF Connected
  <2>. QED  BY <2>2, <2>3, <2>15, <2>16
<1>2. Init => CurvesKnown
  BY DEF Init, CurvesKnown
<1>3. IInv /\ CurvesKnown /\ [Next]_vars => CurvesKnown'
  <2> SUFFICES ASSUME IInv, CurvesKnown, [Next]_vars
               PROVE  CurvesKnown'
    OBVIOUS
  <2>1. Reschedules
    BY NextIInv
  <2>2. TableOK(schedules)
    BY DEF IInv, TypeOK, TableOK
  <2>. QED  BY <2>1, <2>2, KeepsBetter
<1>4. Spec => [][A]_vars
  BY <1>1, <1>2, <1>3, Invariance, PTL DEF Spec
<1>. QED  BY <1>4, PTL DEF ReplansFromReading
=============================================================================
