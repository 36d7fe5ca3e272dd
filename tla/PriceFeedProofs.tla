-------------------------- MODULE PriceFeedProofs --------------------------
(***************************************************************************)
(* Proofs about PriceFeed for any number of workers, zones, hours and days *)
(* and any feed: what a day's rows can be, that a stored price is one of   *)
(* them, that a stored curve only grows, and that the backfill repairs.    *)
(* The sum of the prices is a recursive function; what it computes is      *)
(* proved by a least counterexample, from the library's fact that the      *)
(* subsets of a finite set are well founded.                               *)
(***************************************************************************)
EXTENDS PriceFeed, FiniteSetTheorems, TLAPS

-----------------------------------------------------------------------------
\* Sums over finite sets.

Pick(s) == CHOOSE x \in s : TRUE
Sums(f, S, g) == g = [s \in SUBSET S |-> IF s = {} THEN 0 ELSE f[Pick(s)] + g[s \ {Pick(s)}]]

LEMMA SumIs ==
  ASSUME NEW f, NEW S
  PROVE \E g : g = (CHOOSE h : Sums(f, S, h)) /\ SumFunctionOnSet(f, S) = g[S]
  BY DEF SumFunctionOnSet, FoldFunctionOnSet, MapThenFoldSet, Sums, Pick

LEMMA LeastNumber ==
    ASSUME NEW T \in SUBSET Nat, T # {}
    PROVE  \E n \in T : \A m \in T : n <= m
<1>1. PICK t \in T : TRUE
  OBVIOUS
<1> DEFINE Below(k) == 0..k
           Sets == {Below(k) : k \in {j \in T : j <= t}}
<1>2. IsFiniteSet(0..t)
  BY FS_Interval
<1>3. Sets \subseteq SUBSET (0..t) /\ Sets # {}
  OBVIOUS
<1>4. IsWellFoundedOn(StrictSubsetOrdering(0..t), SUBSET (0..t))
  BY <1>2, FS_StrictSubsetOrderingWellFounded, FS_FiniteSubsetsOfFinite
<1>5. PICK x \in Sets : \A y \in Sets : ~(<<y, x>> \in StrictSubsetOrdering(0..t))
  <2> HIDE DEF Sets
  <2>. QED BY <1>3, <1>4, WFMin, Zenon
<1>6. PICK n \in T : n <= t /\ x = Below(n)
  OBVIOUS
<1>7. ASSUME NEW m \in T, m < n PROVE FALSE
  <2>1. Below(m) \in Sets
    BY <1>6, <1>7
  <2>2. Below(m) \subseteq Below(n) /\ Below(m) # Below(n) /\ Below(n) \subseteq 0..t /\ Below(m) \subseteq 0..t
    <3>1. n \in Below(n) /\ n \notin Below(m)
      BY <1>7
    <3>. QED BY <3>1, <1>6, <1>7
  <2>3. <<Below(m), Below(n)>> \in StrictSubsetOrdering(0..t)
    BY <2>2 DEF StrictSubsetOrdering
  <2>. QED BY <1>5, <1>6, <2>1, <2>3
<1>. QED BY <1>6, <1>7

Few(S, n) == {s \in SUBSET S : Cardinality(s) <= n}
SumsUpTo(f, S, n, g) == g = [s \in Few(S, n) |-> IF s = {} THEN 0 ELSE f[Pick(s)] + g[s \ {Pick(s)}]]

LEMMA Rest ==
    ASSUME NEW S, IsFiniteSet(S), NEW s \in SUBSET S, s # {}
    PROVE  /\ Pick(s) \in s
           /\ s \ {Pick(s)} \in SUBSET S
           /\ Cardinality(s) \in Nat \ {0}
           /\ Cardinality(s \ {Pick(s)}) = Cardinality(s) - 1
<1>1. Pick(s) \in s
  BY DEF Pick
<1>2. IsFiniteSet(s)
  BY FS_Subset
<1>3. Cardinality(s) \in Nat /\ Cardinality(s) # 0
  BY <1>2, FS_CardinalityType, FS_EmptySet
<1>. QED  BY <1>1, <1>2, <1>3, FS_RemoveElement

LEMMA PartialSums ==
    ASSUME NEW f, NEW S, IsFiniteSet(S), NEW n \in Nat
    PROVE  \E g : SumsUpTo(f, S, n, g)
<1> DEFINE Missing == {m \in Nat : ~\E g : SumsUpTo(f, S, m, g)}
<1>1. SUFFICES ASSUME Missing # {} PROVE FALSE
  OBVIOUS
<1>2. PICK k \in Missing : \A m \in Missing : k <= m
  <2> HIDE DEF Missing
  <2>1. Missing \in SUBSET Nat
    BY DEF Missing
  <2>. QED  BY <1>1, <2>1, LeastNumber
<1>3. CASE k = 0
  <2> DEFINE g == [s \in Few(S, 0) |-> 0]
  <2>1. \A s \in Few(S, 0) : s = {}
    <3> SUFFICES ASSUME NEW s \in Few(S, 0), s # {} PROVE FALSE
      OBVIOUS
    <3>1. s \in SUBSET S /\ Cardinality(s) <= 0
      BY DEF Few
    <3>2. Cardinality(s) \in Nat \ {0}
      BY <3>1, Rest
    <3>. QED  BY <3>1, <3>2
  <2>2. SumsUpTo(f, S, 0, g)
    BY <2>1 DEF SumsUpTo
  <2>. QED  BY <1>3, <2>2
<1>4. CASE k > 0
  <2>1. PICK g : SumsUpTo(f, S, k - 1, g)
    <3>1. k - 1 \in Nat /\ k - 1 \notin Missing
      BY <1>2, <1>4
    <3>. QED  BY <3>1
  <2> DEFINE h == [s \in Few(S, k) |-> IF s = {} THEN 0 ELSE f[Pick(s)] + g[s \ {Pick(s)}]]
  <2>2. ASSUME NEW s \in Few(S, k), s # {} PROVE h[s \ {Pick(s)}] = g[s \ {Pick(s)}]
    <3> DEFINE t == s \ {Pick(s)}
    <3>1. t \in Few(S, k - 1) /\ t \in Few(S, k)
      <4>1. s \in SUBSET S /\ Cardinality(s) <= k
        BY DEF Few
      <4>2. t \in SUBSET S /\ Cardinality(t) = Cardinality(s) - 1 /\ Cardinality(s) \in Nat
        BY <2>2, <4>1, Rest
      <4> HIDE DEF t
      <4>. QED  BY <4>1, <4>2 DEF Few
    <3> HIDE DEF t
    <3>2. h[t] = IF t = {} THEN 0 ELSE f[Pick(t)] + g[t \ {Pick(t)}]
      BY <3>1
    <3>3. g[t] = IF t = {} THEN 0 ELSE f[Pick(t)] + g[t \ {Pick(t)}]
      BY <2>1, <3>1 DEF SumsUpTo
    <3>. QED  BY <3>2, <3>3 DEF t
  <2>3. SumsUpTo(f, S, k, h)
    <3>1. h = [s \in Few(S, k) |-> IF s = {} THEN 0 ELSE f[Pick(s)] + h[s \ {Pick(s)}]]
      <4>1. \A s \in Few(S, k) : h[s] = IF s = {} THEN 0 ELSE f[Pick(s)] + g[s \ {Pick(s)}]
        OBVIOUS
      <4>2. \A s \in Few(S, k) : h[s] = IF s = {} THEN 0 ELSE f[Pick(s)] + h[s \ {Pick(s)}]
        <5> HIDE DEF h
        <5>. QED  BY <2>2, <4>1
      <4>3. h = [s \in Few(S, k) |-> h[s]]
        OBVIOUS
      <4> HIDE DEF h
      <4>. QED  BY <4>2, <4>3
    <3> HIDE DEF h
    <3>. QED  BY <3>1 DEF SumsUpTo
  <2>. QED  BY <2>3, <1>2
<1>. QED  BY <1>2, <1>3, <1>4

LEMMA SumIsNatural ==
    ASSUME NEW f, NEW S, IsFiniteSet(S), \A x \in S : f[x] \in Nat
    PROVE  SumFunctionOnSet(f, S) \in Nat
<1>1. \E g : Sums(f, S, g)
  <2>1. Cardinality(S) \in Nat /\ Few(S, Cardinality(S)) = SUBSET S
    BY FS_CardinalityType, FS_Subset DEF Few
  <2>2. PICK g : SumsUpTo(f, S, Cardinality(S), g)
    BY <2>1, PartialSums
  <2>. QED  BY <2>1, <2>2 DEF Sums, SumsUpTo
<1>2. PICK g : Sums(f, S, g) /\ SumFunctionOnSet(f, S) = g[S]
  <2>1. Sums(f, S, CHOOSE h : Sums(f, S, h))
    BY <1>1
  <2>. QED  BY <2>1, SumIs
<1> DEFINE Bad == {s \in SUBSET S : g[s] \notin Nat}
<1>3. SUFFICES ASSUME Bad # {} PROVE FALSE
  BY <1>2
<1>4. IsWellFoundedOn(StrictSubsetOrdering(S), SUBSET S)
  BY FS_StrictSubsetOrderingWellFounded, FS_FiniteSubsetsOfFinite
<1>5. PICK s \in Bad : \A t \in Bad : <<t, s>> \notin StrictSubsetOrdering(S)
  <2>1. Bad \subseteq SUBSET S
    OBVIOUS
  <2> HIDE DEF Bad
  <2>. QED  BY <1>3, <1>4, <2>1, WFMin, Zenon
<1>6. g[s] = IF s = {} THEN 0 ELSE f[Pick(s)] + g[s \ {Pick(s)}]
  BY <1>2 DEF Sums
<1>7. s # {}
  BY <1>6
<1>8. Pick(s) \in s /\ s \ {Pick(s)} \in SUBSET S
  BY <1>7, Rest
<1>9. s \ {Pick(s)} \notin Bad
  <2>1. <<s \ {Pick(s)}, s>> \in StrictSubsetOrdering(S)
    BY <1>8 DEF StrictSubsetOrdering
  <2>. QED  BY <1>5, <2>1
<1>. QED  BY <1>6, <1>7, <1>8, <1>9

-----------------------------------------------------------------------------
\* The rows of a day.

Given == {"prices", "nothing", "error"}

\* What NothingInvented allows as a price of zone z.
GoodPrice(d, z, h, x) ==
    \/ x = Estimate
    \/ \E i \in DOMAIN Feed[d] :
          /\ Feed[d][i].ora \in {h + 1, h + 1 + HoursPerDay}
          /\ x = IF Feed[d][i].price[z] \in {None, 0} THEN Feed[d][i].price[Pun] ELSE Feed[d][i].price[z]

LEMMA Constants ==
    /\ Pun \in AllZones /\ Zones \subseteq AllZones /\ Nord \in Zones /\ Pun \notin Zones
    /\ 0 \in Hours /\ IsFiniteSet(Hours)
  BY FeedAssumption, FS_Interval DEF AllZones, Hours

LEMMA EntryFacts ==
    ASSUME NEW e \in Entries, NEW z \in AllZones, PriceOf(e, z) # None
    PROVE  /\ HourOf(e) \in Hours
           /\ e.ora \in {HourOf(e) + 1, HourOf(e) + 1 + HoursPerDay}
           /\ PriceOf(e, z) \in Nat
           /\ PriceOf(e, z) = IF e.price[z] \in {None, 0} THEN e.price[Pun] ELSE e.price[z]
<1>1. e.ora \in 1..HoursPerDay + 1 /\ e.price \in [AllZones -> Nat \cup {None}]
  BY DEF Entries
<1>2. HoursPerDay \in Nat \ {0}
  BY FeedAssumption
<1>3. HourOf(e) \in 0..HoursPerDay - 1
  BY <1>1, <1>2 DEF HourOf
<1>4. e.ora \in {HourOf(e) + 1, HourOf(e) + 1 + HoursPerDay}
  BY <1>1, <1>2 DEF HourOf
<1>5. e.price[z] \in Nat \cup {None} /\ e.price[Pun] \in Nat \cup {None}
  BY <1>1, Constants
<1>6. /\ PriceOf(e, z) \in Nat
      /\ PriceOf(e, z) = IF e.price[z] \in {None, 0} THEN e.price[Pun] ELSE e.price[z]
  BY <1>5 DEF PriceOf
<1>. QED  BY <1>3, <1>4, <1>6 DEF Hours

\* A set of positions of a sequence has a last one.
LEMMA LastPosition ==
    ASSUME NEW n \in Nat, NEW T \in SUBSET (1..n), T # {}
    PROVE  \E i \in T : \A j \in T : j <= i
<1> DEFINE Left == {n - i : i \in T}
<1>1. Left \in SUBSET Nat /\ Left # {}
  <2>1. \A i \in T : n - i \in Nat
    OBVIOUS
  <2>. QED  BY <2>1
<1>2. PICK k \in Left : \A m \in Left : k <= m
  <2> HIDE DEF Left
  <2>. QED  BY <1>1, LeastNumber
<1>3. PICK i \in T : k = n - i
  OBVIOUS
<1>4. ASSUME NEW j \in T PROVE j <= i
  <2>1. n - j \in Left
    OBVIOUS
  <2>2. k <= n - j
    BY <1>2, <2>1
  <2>. QED  BY <1>3, <2>2
<1>. QED  BY <1>4

\* _parse_raw_prices() gives numbers, each the price of an entry of its hour.
LEMMA ParsedRows ==
    ASSUME NEW d \in Dates, NEW z \in AllZones
    PROVE  /\ IsCurve(Parsed(Feed[d], z))
           /\ \A h \in DOMAIN Parsed(Feed[d], z) : GoodPrice(d, z, h, Parsed(Feed[d], z)[h])
<1> DEFINE raw == Feed[d]
           At(h) == {i \in DOMAIN raw : HourOf(raw[i]) = h /\ PriceOf(raw[i], z) # None}
           Final(h) == CHOOSE i \in At(h) : \A j \in At(h) : j <= i
           Listed == {x \in Hours : At(x) # {}}
<1>1. Parsed(raw, z) = [h \in Listed |-> PriceOf(raw[Final(h)], z)]
  BY DEF Parsed
<1>2. raw \in Seq(Entries)
  BY FeedAssumption
<1>3. ASSUME NEW h \in Listed
      PROVE  PriceOf(raw[Final(h)], z) \in Nat /\ GoodPrice(d, z, h, PriceOf(raw[Final(h)], z))
  <2>1. Len(raw) \in Nat /\ DOMAIN raw = 1..Len(raw)
    BY <1>2
  <2>2. At(h) \in SUBSET (1..Len(raw)) /\ At(h) # {}
    BY <2>1
  <2>3. \E i \in At(h) : \A j \in At(h) : j <= i
    <3> HIDE DEF At
    <3>. QED  BY <2>1, <2>2, LastPosition
  <2>4. Final(h) \in At(h)
    <3> HIDE DEF At
    <3>. QED  BY <2>3
  <2> HIDE DEF Final
  <2>5. PICK i \in DOMAIN raw : i = Final(h) /\ HourOf(raw[i]) = h /\ PriceOf(raw[i], z) # None
    BY <2>4
  <2>6. raw[i] \in Entries
    BY <1>2, <2>1, <2>5
  <2>7. /\ raw[i].ora \in {h + 1, h + 1 + HoursPerDay}
        /\ PriceOf(raw[i], z) \in Nat
        /\ PriceOf(raw[i], z) = IF raw[i].price[z] \in {None, 0} THEN raw[i].price[Pun] ELSE raw[i].price[z]
    BY <2>5, <2>6, EntryFacts
  <2>. QED  BY <2>5, <2>7 DEF GoodPrice
<1>4. Listed \subseteq Hours
  OBVIOUS
<1> HIDE DEF raw, Listed, Final
<1>5. IsCurve(Parsed(raw, z))
  BY <1>1, <1>3, <1>4 DEF IsCurve
<1>6. \A h \in DOMAIN Parsed(raw, z) : GoodPrice(d, z, h, Parsed(raw, z)[h])
  BY <1>1, <1>3
<1>. QED  BY <1>5, <1>6 DEF raw

LEMMA ZoneRows ==
    ASSUME NEW d \in Dates, NEW z \in AllZones, NEW answer \in Given
    PROVE  /\ IsCurve(GetMgpPrices(answer, d, z))
           /\ \A h \in DOMAIN GetMgpPrices(answer, d, z) : GoodPrice(d, z, h, GetMgpPrices(answer, d, z)[h])
<1>1. CASE answer = "prices"
  BY <1>1, ParsedRows DEF GetMgpPrices
<1>2. CASE answer = "nothing"
  BY <1>2 DEF GetMgpPrices, IsCurve
<1>3. CASE answer = "error"
  BY <1>3, FeedAssumption DEF GetMgpPrices, IsCurve, Flat, GoodPrice
<1>. QED  BY <1>1, <1>2, <1>3 DEF Given

\* The mean of the prices is a number.
LEMMA IndexIsNatural ==
    ASSUME NEW d \in Dates, NEW answer \in Given
    PROVE  GetPunIndex(answer, d) \in Nat
<1>1. PICK prices : prices = GetMgpPrices(answer, d, Nord)
  OBVIOUS
<1>2. DOMAIN prices \subseteq Hours /\ \A h \in DOMAIN prices : prices[h] \in Nat
  BY <1>1, ZoneRows, Constants DEF IsCurve
<1>3. IsFiniteSet(DOMAIN prices)
  BY <1>2, Constants, FS_Subset
<1>4. SumFunction(prices) \in Nat
  BY <1>2, <1>3, SumIsNatural DEF SumFunction
<1>5. CASE DOMAIN prices = {}
  BY <1>1, <1>5 DEF GetPunIndex
<1>6. CASE DOMAIN prices # {}
  <2>1. Cardinality(DOMAIN prices) \in Nat \ {0}
    BY <1>3, <1>6, FS_CardinalityType, FS_EmptySet
  <2>2. SumFunction(prices) \div Cardinality(DOMAIN prices) \in Nat
    BY <1>4, <2>1
  <2>. QED  BY <1>1, <1>6, <2>2 DEF GetPunIndex
<1>. QED  BY <1>5, <1>6

\* Rows of a zone are prices it may have; those of the index one number for all hours.
LEMMA RowsAre ==
    ASSUME NEW d \in Dates, NEW z \in AllZones, NEW answer \in Given
    PROVE  /\ IsCurve(Rows[d][z][answer])
           /\ z # Pun => \A h \in DOMAIN Rows[d][z][answer] : GoodPrice(d, z, h, Rows[d][z][answer][h])
           /\ z = Pun => DOMAIN Rows[d][z][answer] = {} \/ \E p \in Nat : Rows[d][z][answer] = [h \in Hours |-> p]
<1>1. Rows[d][z][answer] = IF z # Pun THEN GetMgpPrices(answer, d, z)
                           ELSE IF GetPunIndex(answer, d) > 0 THEN [h \in Hours |-> GetPunIndex(answer, d)]
                           ELSE <<>>
  BY DEF Rows, Given
<1>2. CASE z # Pun
  BY <1>1, <1>2, ZoneRows
<1>3. CASE z = Pun
  <2>1. PICK p \in Nat : p = GetPunIndex(answer, d)
    BY IndexIsNatural
  <2>2. CASE p > 0
    <3>1. Rows[d][z][answer] = [h \in Hours |-> p]
      BY <1>1, <1>3, <2>1, <2>2
    <3>. QED  BY <1>3, <3>1 DEF IsCurve
  <2>3. CASE ~(p > 0)
    <3>1. Rows[d][z][answer] = <<>>
      BY <1>1, <1>3, <2>1, <2>3
    <3>. QED  BY <1>3, <3>1 DEF IsCurve
  <2>. QED  BY <2>2, <2>3
<1>. QED  BY <1>2, <1>3

-----------------------------------------------------------------------------
\* The processes.

\* What holds of the job j that process p has on this day: only workers wait, rows are
\* read and stored once every zone has been answered, the keys read hold the national
\* price of all hours or of none, and the script is at one of the days it was asked for.
JobOK(p, j, today) ==
    /\ j.pc = "wait" => p \in Workers /\ j.due \in Int
    /\ j.pc \in {"select", "commit"} => \A z \in AllZones : j.got[z] \in Given
    /\ j.pc = "commit" => \A g, h \in Hours : <<Pun, g>> \in j.keys => <<Pun, h>> \in j.keys
    /\ (p = Script /\ j.pc \in Busy) => j.due = today - BackfillDays /\ j.target \in j.due..today - 1

JobsOK == \A p \in Processes : JobOK(p, proc[p], day)

IInv == TypeOK /\ JobsOK /\ NothingInvented

LEMMA Days ==
    ASSUME TypeOK
    PROVE  /\ day \in Int /\ BackfillDays \in Nat \ {0} /\ HoursPerDay \in Nat
           /\ Dates \subseteq Int
           /\ day + 1 \in Dates
           /\ \A k \in 1..BackfillDays : day - k \in Dates
           /\ \A d \in Int : day - BackfillDays <= d /\ d <= day => d \in Dates
  BY FeedAssumption DEF TypeOK, Dates

\* A process that gets a job it may have.
LEMMA OneJob ==
    ASSUME TypeOK, JobsOK, NEW p \in Processes, NEW j \in Jobs, JobOK(p, j, day),
           j.pc \in Busy => j.target \in Dates,
           proc' = [proc EXCEPT ![p] = j], day' = day
    PROVE  /\ proc' \in [Processes -> Jobs]
           /\ \A q \in Processes : proc'[q].pc \in Busy => proc'[q].target \in Dates
           /\ JobsOK'
<1>1. proc \in [Processes -> Jobs] /\ \A q \in Processes : proc[q].pc \in Busy => proc[q].target \in Dates
  BY DEF TypeOK
<1>2. \A q \in Processes : proc'[q] = IF q = p THEN j ELSE proc[q]
  BY <1>1
<1>3. proc' \in [Processes -> Jobs]
  BY <1>1
<1>4. \A q \in Processes : JobOK(q, proc'[q], day)
  BY <1>2 DEF JobsOK
<1>. QED  BY <1>1, <1>2, <1>3, <1>4 DEF JobsOK

LEMMA WaitingOK ==
    ASSUME TypeOK
    PROVE  /\ Waiting \in Jobs /\ Waiting.pc \notin Busy
           /\ \A w \in Workers : JobOK(w, Waiting, day)
  BY Days DEF Waiting, Jobs, Busy, JobOK, NoAnswers

LEMMA FetchingOK ==
    ASSUME TypeOK, NEW date \in Dates
    PROVE  /\ Fetching(date) \in Jobs /\ Fetching(date).target \in Dates
           /\ \A w \in Workers : JobOK(w, Fetching(date), day)
  BY FeedAssumption DEF Fetching, Jobs, Busy, JobOK, NoAnswers

\* The script at a day it was asked for.
LEMMA BackfillingOK ==
    ASSUME TypeOK, NEW date \in day - BackfillDays..day - 1
    PROVE  LET j == [Fetching(date) EXCEPT !.due = day - BackfillDays]
           IN  /\ j \in Jobs /\ j.target \in Dates
               /\ JobOK(Script, j, day)
<1>1. date \in Dates /\ day - BackfillDays \in Int
  BY Days
<1>2. PICK j : j = [pc |-> "fetch", due |-> day - BackfillDays, target |-> date, got |-> NoAnswers, keys |-> {}]
  OBVIOUS
<1>3. [Fetching(date) EXCEPT !.due = day - BackfillDays] = j
  <2>1. \A due : [Fetching(date) EXCEPT !.due = due] =
                  [pc |-> "fetch", due |-> due, target |-> date, got |-> NoAnswers, keys |-> {}]
    BY DEF Fetching
  <2>. QED  BY <1>2, <2>1
<1>4. j \in Jobs /\ j.target \in Dates
  BY <1>1, <1>2 DEF Jobs, Busy, NoAnswers
<1>5. JobOK(Script, j, day)
  BY <1>2, Days DEF JobOK
<1>. QED  BY <1>3, <1>4, <1>5

\* What a process does when a day is over.
LEMMA AfterOK ==
    ASSUME TypeOK, JobsOK, NEW p \in Processes, proc[p].pc \in Busy, NEW failed
    PROVE  LET j == After(p, failed)
           IN  /\ j \in Jobs
               /\ j.pc \in Busy => j.target \in Dates
               /\ JobOK(p, j, day)
<1>1. CASE p \in Workers
  BY <1>1, WaitingOK DEF After
<1>2. CASE p \notin Workers
  <2>1. p = Script /\ JobOK(p, proc[p], day) /\ proc[p] \in Jobs
    BY <1>2 DEF Processes, JobsOK, TypeOK
  <2>2. proc[p].due = day - BackfillDays /\ proc[p].target \in day - BackfillDays..day - 1
    BY <2>1 DEF JobOK
  <2>3. CASE BackfillTarget(p) >= OldestDate(p)
    <3>1. BackfillTarget(p) \in day - BackfillDays..day - 1
      BY <2>2, <2>3, Days DEF BackfillTarget, OldestDate
    <3>2. After(p, failed) = [Fetching(BackfillTarget(p)) EXCEPT !.due = day - BackfillDays]
      BY <1>2, <2>2, <2>3 DEF After, OldestDate
    <3>. QED  BY <2>1, <3>1, <3>2, BackfillingOK
  <2>4. CASE ~(BackfillTarget(p) >= OldestDate(p))
    <3>1. PICK j : j = [proc[p] EXCEPT !.pc = "done"]
      OBVIOUS
    <3>2. After(p, failed) = j
      BY <1>2, <2>4, <3>1 DEF After
    <3>3. j \in Jobs /\ j.pc = "done"
      BY <2>1, <3>1 DEF Jobs
    <3>4. JobOK(p, j, day)
      BY <3>3 DEF JobOK, Busy
    <3>. QED  BY <3>2, <3>3, <3>4 DEF Busy
  <2>. QED  BY <2>3, <2>4
<1>. QED  BY <1>1, <1>2

LEMMA EndsOK ==
    ASSUME TypeOK, JobsOK, NEW p \in Processes, proc[p].pc \in Busy, NEW failed, Ends(p, failed), day' = day
    PROVE  /\ proc' \in [Processes -> Jobs]
           /\ \A q \in Processes : proc'[q].pc \in Busy => proc'[q].target \in Dates
           /\ JobsOK'
<1>1. PICK j : j = After(p, failed)
  OBVIOUS
<1>2. j \in Jobs /\ (j.pc \in Busy => j.target \in Dates) /\ JobOK(p, j, day)
  BY <1>1, AfterOK
<1>3. proc' = [proc EXCEPT ![p] = j]
  BY <1>1 DEF Ends
<1>. QED  BY <1>2, <1>3, OneJob

-----------------------------------------------------------------------------
\* The table.

WholeDay(c) == DOMAIN c # {} => \E v \in Range(c) : c = [h \in Hours |-> v]

LEMMA TableSound ==
    NothingInvented <=>
        \A d \in Dates :
            /\ \A z \in Zones : \A h \in DOMAIN table[d][z] : GoodPrice(d, z, h, table[d][z][h])
            /\ WholeDay(table[d][Pun])
  BY DEF NothingInvented, GoodPrice, WholeDay

\* The rows that are added: rows of the answers whose hours were not among the keys.
LEMMA NewRowsAre ==
    ASSUME TypeOK, JobsOK, NEW p \in Processes, proc[p].pc \in {"select", "commit"}, NEW z \in AllZones
    PROVE  LET new == NewRows(p)[z]
               rows == Rows[proc[p].target][z][proc[p].got[z]]
           IN  /\ proc[p].target \in Dates /\ proc[p].got[z] \in Given
               /\ DOMAIN new = {h \in DOMAIN rows : <<z, h>> \notin proc[p].keys}
               /\ \A h \in DOMAIN new : new[h] = rows[h]
               /\ IsCurve(new) /\ IsCurve(rows)
<1>1. proc[p].target \in Dates /\ proc[p].got[z] \in Given
  BY DEF TypeOK, Busy, JobsOK, JobOK
<1>2. PICK rows : rows = Rows[proc[p].target][z][proc[p].got[z]]
  OBVIOUS
<1>3. NewRows(p)[z] = [h \in {x \in DOMAIN rows : <<z, x>> \notin proc[p].keys} |-> rows[h]]
  BY <1>2 DEF NewRows, Fetched, Restrict
<1>4. IsCurve(rows)
  BY <1>1, <1>2, RowsAre
<1>5. IsCurve(NewRows(p)[z])
  BY <1>3, <1>4 DEF IsCurve
<1>. QED  BY <1>1, <1>2, <1>3, <1>4, <1>5

\* What a zone has after the commit: all it had, with the same prices, and more.
LEMMA StoredIs ==
    ASSUME TypeOK, JobsOK, NothingInvented, NEW p \in Processes, proc[p].pc = "commit", NEW z \in AllZones
    PROVE  LET old == table[proc[p].target][z]
               new == Stored(p)[z]
           IN  /\ DOMAIN new = DOMAIN old \cup DOMAIN NewRows(p)[z]
               /\ \A h \in DOMAIN old : new[h] = old[h]
               /\ \A h \in DOMAIN new \ DOMAIN old : new[h] = NewRows(p)[z][h]
               /\ IsCurve(new)
               /\ z # Pun => \A h \in DOMAIN new : GoodPrice(proc[p].target, z, h, new[h])
               /\ z = Pun /\ ~Clash(p) => WholeDay(new)
<1>1. PICK d \in Dates : d = proc[p].target
  BY NewRowsAre
<1>2. PICK rows : rows = Rows[d][z][proc[p].got[z]]
  OBVIOUS
<1>3. PICK old : old = table[d][z]
  OBVIOUS
<1>4. PICK add : add = NewRows(p)[z]
  OBVIOUS
<1>5. PICK new : new = Stored(p)[z]
  OBVIOUS
<1>6. /\ proc[p].got[z] \in Given
      /\ DOMAIN add = {h \in DOMAIN rows : <<z, h>> \notin proc[p].keys}
      /\ \A h \in DOMAIN add : add[h] = rows[h]
      /\ IsCurve(add) /\ IsCurve(rows)
  BY <1>1, <1>2, <1>4, NewRowsAre
<1>7. IsCurve(old)
  BY <1>1, <1>3 DEF TypeOK
<1>8. new = [h \in DOMAIN old \cup DOMAIN add |-> IF h \in DOMAIN old THEN old[h] ELSE add[h]]
  BY <1>1, <1>3, <1>4, <1>5 DEF Stored, Completed
<1>9. IsCurve(new)
  BY <1>6, <1>7, <1>8 DEF IsCurve
<1>10. CASE z # Pun
  <2>1. z \in Zones
    BY <1>10 DEF AllZones
  <2>2. \A h \in DOMAIN old : GoodPrice(d, z, h, old[h])
    BY <1>1, <1>3, <2>1, TableSound
  <2>3. \A h \in DOMAIN rows : GoodPrice(d, z, h, rows[h])
    BY <1>1, <1>2, <1>6, <1>10, RowsAre
  <2>4. \A h \in DOMAIN new : GoodPrice(d, z, h, new[h])
    BY <1>6, <1>8, <2>2, <2>3
  <2>. QED  BY <1>1, <1>3, <1>4, <1>5, <1>8, <1>9, <1>10, <2>4
<1>11. CASE z = Pun
  <2>1. SUFFICES ASSUME ~Clash(p) PROVE WholeDay(new)
    BY <1>1, <1>3, <1>4, <1>5, <1>8, <1>9, <1>11
  <2>2. WholeDay(old)
    BY <1>1, <1>3, <1>11, TableSound
  <2>3. \/ DOMAIN rows = {}
        \/ \E v \in Nat : rows = [h \in Hours |-> v]
    <3>1. PICK answer \in Given : answer = proc[p].got[z]
      BY <1>6
    <3>2. \/ DOMAIN Rows[d][z][answer] = {}
          \/ \E v \in Nat : Rows[d][z][answer] = [h \in Hours |-> v]
      BY <1>11, RowsAre, Zenon
    <3>. QED  BY <1>2, <3>1, <3>2, Zenon
  <2>4. \A g, h \in Hours : <<Pun, g>> \in proc[p].keys => <<Pun, h>> \in proc[p].keys
    BY DEF JobsOK, JobOK
  <2>5. DOMAIN add \in {{}, Hours}
    BY <1>6, <1>11, <2>3, <2>4
  <2>6. CASE DOMAIN add = {}
    <3>1. new = old
      BY <1>7, <1>8, <2>6 DEF IsCurve
    <3>. QED  BY <2>2, <3>1
  <2>7. CASE DOMAIN add = Hours
    <3>1. DOMAIN old = {}
      <4>1. SUFFICES ASSUME NEW h \in DOMAIN old PROVE FALSE
        OBVIOUS
      <4>2. <<Pun, h>> \in AllZones \X Hours /\ h \in Hours
        BY <1>7, <4>1, Constants DEF IsCurve
      <4>3. <<Pun, h>> \in KeysOf(table[proc[p].target])
        BY <1>1, <1>3, <1>11, <4>1, <4>2 DEF KeysOf
      <4>4. <<Pun, h>> \in KeysOf(NewRows(p))
        BY <1>4, <1>11, <2>7, <4>2 DEF KeysOf
      <4>. QED  BY <2>1, <4>3, <4>4 DEF Clash
    <3>2. PICK v \in Nat : rows = [h \in Hours |-> v]
      BY <1>6, <2>3, <2>7, Constants
    <3>3. new = [h \in Hours |-> v]
      BY <1>6, <1>8, <2>7, <3>1, <3>2
    <3>4. v \in Range(new)
      BY <3>3, Constants DEF Range
    <3>. QED  BY <3>3, <3>4 DEF WholeDay
  <2>. QED  BY <2>5, <2>6, <2>7
<1>. QED  BY <1>10, <1>11

\* A commit: the rows are well-formed and allowed, and none of before is lost or changed.
Grows ==
    \A d \in Dates, z \in AllZones : \A h \in DOMAIN table[d][z] :
        h \in DOMAIN table'[d][z] /\ table'[d][z][h] = table[d][z][h]

TableOK(t) ==
    /\ t = [d \in Dates |-> [z \in AllZones |-> t[d][z]]]
    /\ \A d \in Dates, z \in AllZones : IsCurve(t[d][z])

LEMMA CommitStores ==
    ASSUME TypeOK, JobsOK, NothingInvented, NEW p \in Processes, proc[p].pc = "commit",
           \/ UNCHANGED table
           \/ ~Clash(p) /\ table' = [table EXCEPT ![proc[p].target] = Stored(p)]
    PROVE  TableOK(table') /\ NothingInvented' /\ Grows
<1>1. TableOK(table)
  BY DEF TypeOK, TableOK
<1>2. CASE UNCHANGED table
  BY <1>1, <1>2 DEF NothingInvented, Grows
<1>3. CASE ~Clash(p) /\ table' = [table EXCEPT ![proc[p].target] = Stored(p)]
  <2>1. PICK d \in Dates : d = proc[p].target
    BY NewRowsAre, Constants
  <2>2. PICK new : new = Stored(p)
    OBVIOUS
  <2>3. new = [z \in AllZones |-> new[z]]
    BY <2>2 DEF Stored
  <2>4. ASSUME NEW z \in AllZones
        PROVE  /\ DOMAIN table[d][z] \subseteq DOMAIN new[z]
               /\ \A h \in DOMAIN table[d][z] : new[z][h] = table[d][z][h]
               /\ IsCurve(new[z])
               /\ z # Pun => \A h \in DOMAIN new[z] : GoodPrice(d, z, h, new[z][h])
               /\ z = Pun => WholeDay(new[z])
    BY <1>3, <2>1, <2>2, StoredIs
  <2>5. table' = [table EXCEPT ![d] = new]
    BY <1>3, <2>1, <2>2
  <2>6. table' = [c \in Dates |-> IF c = d THEN new ELSE table[c]]
    BY <1>1, <2>5 DEF TableOK
  <2>7. \A c \in Dates : table'[c] = IF c = d THEN new ELSE table[c]
    BY <2>6
  <2>8. TableOK(table')
    BY <1>1, <2>3, <2>4, <2>6, <2>7 DEF TableOK
  <2>9. Grows
    BY <2>4, <2>7 DEF Grows
  <2>10. NothingInvented'
    <3>1. \A c \in Dates :
              /\ \A z \in Zones : \A h \in DOMAIN table'[c][z] : GoodPrice(c, z, h, table'[c][z][h])
              /\ WholeDay(table'[c][Pun])
      BY <2>4, <2>7, TableSound, Constants
    <3>. QED  BY <3>1 DEF NothingInvented, GoodPrice, WholeDay
  <2>. QED  BY <2>8, <2>9, <2>10
<1>. QED  BY <1>2, <1>3

LEMMA CommitInvariant ==
    ASSUME IInv, NEW p \in Processes, CommitRows(p)
    PROVE  IInv' /\ Grows
<1>1. TypeOK /\ JobsOK /\ NothingInvented /\ proc[p].pc = "commit" /\ UNCHANGED <<day, published, restarts>>
  BY DEF IInv, CommitRows
<1>2. PICK failed : Ends(p, failed)
  BY DEF CommitRows
<1>3. \/ UNCHANGED table
      \/ ~Clash(p) /\ table' = [table EXCEPT ![proc[p].target] = Stored(p)]
  BY DEF CommitRows
<1>4. TableOK(table') /\ NothingInvented' /\ Grows
  BY <1>1, <1>3, CommitStores
<1>5. /\ proc' \in [Processes -> Jobs]
      /\ \A q \in Processes : proc'[q].pc \in Busy => proc'[q].target \in Dates
      /\ JobsOK'
  BY <1>1, <1>2, EndsOK DEF Busy
<1>6. broken' \in BOOLEAN
  <2>1. \/ Ends(p, FALSE)
        \/ Ends(p, TRUE)
        \/ \E outcome \in CommitOutcomes : Ends(p, outcome # "ok")
    BY DEF CommitRows
  <2>. QED  BY <1>1, <2>1 DEF Ends, TypeOK
<1>7. TypeOK'
  BY <1>1, <1>4, <1>5, <1>6 DEF TypeOK, TableOK
<1>. QED  BY <1>4, <1>5, <1>7 DEF IInv

\* Once every call has been answered, every zone and the index have an answer.
LEMMA AllAnswered ==
    ASSUME NEW z \in AllZones
    PROVE  /\ \E i \in DOMAIN Calls : Calls[i] = z
           /\ DOMAIN Calls = 1..Len(Calls) /\ Len(Calls) \in Nat
           /\ \A i \in DOMAIN Calls : Calls[i] \in AllZones
<1>1. ZoneList \in Seq(Zones) /\ Zones = Range(ZoneList)
  BY FeedAssumption DEF Zones
<1>2. /\ Len(Calls) = Len(ZoneList) + 1 /\ Len(ZoneList) \in Nat
      /\ DOMAIN Calls = 1..Len(Calls) /\ DOMAIN ZoneList = 1..Len(ZoneList)
      /\ \A i \in 1..Len(ZoneList) : Calls[i] = ZoneList[i]
      /\ Calls[Len(ZoneList) + 1] = Pun
  BY <1>1 DEF Calls
<1>3. \A i \in DOMAIN Calls : Calls[i] \in AllZones
  BY <1>1, <1>2 DEF AllZones
<1>4. \E i \in DOMAIN Calls : Calls[i] = z
  <2>1. CASE z = Pun
    BY <1>2, <2>1
  <2>2. CASE z \in Zones
    <3>1. PICK i \in DOMAIN ZoneList : ZoneList[i] = z
      BY <1>1, <2>2 DEF Range
    <3>. QED  BY <1>2, <3>1
  <2>. QED  BY <2>1, <2>2 DEF AllZones
<1>. QED  BY <1>2, <1>3, <1>4

LEMMA FetchZoneInvariant ==
    ASSUME TypeOK, JobsOK, NEW p \in Processes, FetchZone(p)
    PROVE  /\ proc' \in [Processes -> Jobs]
           /\ \A q \in Processes : proc'[q].pc \in Busy => proc'[q].target \in Dates
           /\ JobsOK'
<1>1. PICK i \in DOMAIN Calls, answer \in Given :
          /\ answer \in Answers(proc[p].target)
          /\ \A k \in DOMAIN Calls : (proc[p].got[Calls[k]] # None) <=> k < i
          /\ proc' = [proc EXCEPT ![p].got[Calls[i]] = answer,
                                  ![p].pc = IF i = Len(Calls) THEN "select" ELSE "fetch"]
  BY DEF FetchZone, Answers, Given
<1>2. PICK z \in AllZones : z = Calls[i]
  BY AllAnswered, Constants
<1>3. PICK pc \in {"select", "fetch"} : pc = IF i = Len(Calls) THEN "select" ELSE "fetch"
  OBVIOUS
<1>4. proc[p] \in Jobs /\ JobOK(p, proc[p], day) /\ proc[p].pc = "fetch" /\ proc[p].target \in Dates
  BY DEF TypeOK, JobsOK, FetchZone, Busy
<1>5. PICK got : got = [proc[p].got EXCEPT ![z] = answer]
  OBVIOUS
<1>6. got \in [AllZones -> Given \cup {None}]
  BY <1>4, <1>5 DEF Jobs, Given
<1>7. PICK j : j = [pc |-> pc, due |-> proc[p].due, target |-> proc[p].target, got |-> got, keys |-> proc[p].keys]
  OBVIOUS
<1>8. [[proc[p] EXCEPT !.got = got] EXCEPT !.pc = pc] = j
  <2>1. PICK r : r = proc[p] /\ r \in Jobs
    BY <1>4
  <2>2. r = [pc |-> r.pc, due |-> r.due, target |-> r.target, got |-> r.got, keys |-> r.keys]
    BY <2>1 DEF Jobs
  <2>3. PICK h : h = [pc |-> r.pc, due |-> r.due, target |-> r.target, got |-> got, keys |-> r.keys]
    OBVIOUS
  <2>4. [r EXCEPT !.got = got] = h
    BY <2>2, <2>3
  <2>5. [h EXCEPT !.pc = pc] = j
    BY <1>7, <2>1, <2>3
  <2>. QED  BY <2>1, <2>4, <2>5
<1>9. proc' = [proc EXCEPT ![p] = j]
  <2>1. proc \in [Processes -> Jobs]
    BY DEF TypeOK
  <2>2. proc' = [[proc EXCEPT ![p] = [proc[p] EXCEPT !.got = got]] EXCEPT ![p].pc = pc]
    BY <1>1, <1>2, <1>3, <1>5
  <2>3. PICK h : h = [proc[p] EXCEPT !.got = got]
    OBVIOUS
  <2>4. proc' = [[proc EXCEPT ![p] = h] EXCEPT ![p] = [h EXCEPT !.pc = pc]]
    BY <2>1, <2>2, <2>3
  <2>5. [h EXCEPT !.pc = pc] = j
    BY <1>8, <2>3
  <2>. QED  BY <2>1, <2>4, <2>5
<1>10. j \in Jobs /\ (j.pc \in Busy => j.target \in Dates)
  BY <1>4, <1>6, <1>7 DEF Jobs, Busy, Given
<1>11. JobOK(p, j, day)
  <2>1. ASSUME pc = "select", NEW y \in AllZones PROVE got[y] \in Given
    <3>1. PICK k \in DOMAIN Calls : Calls[k] = y
      BY AllAnswered
    <3>2. i = Len(Calls) /\ k \in 1..i
      BY <1>3, <2>1, <3>1, AllAnswered
    <3>3. CASE k = i
      BY <1>2, <1>4, <1>5, <3>1, <3>3 DEF Jobs
    <3>4. CASE k < i
      <4>1. proc[p].got[y] # None /\ proc[p].got[y] \in Given \cup {None}
        BY <1>1, <1>4, <3>1, <3>4 DEF Jobs, Given
      <4>. QED  BY <1>4, <1>5, <4>1 DEF Jobs
    <3>. QED  BY <3>2, <3>3, <3>4
  <2>2. p = Script => j.due = day - BackfillDays /\ j.target \in j.due..day - 1
    BY <1>4, <1>7 DEF JobOK, Busy
  <2>. QED  BY <1>7, <2>1, <2>2 DEF JobOK
<1>12. day' = day
  BY DEF FetchZone
<1>. QED  BY <1>9, <1>10, <1>11, <1>12, OneJob

LEMMA SelectKeysInvariant ==
    ASSUME TypeOK, JobsOK, NothingInvented, NEW p \in Processes, SelectKeys(p)
    PROVE  /\ proc' \in [Processes -> Jobs]
           /\ \A q \in Processes : proc'[q].pc \in Busy => proc'[q].target \in Dates
           /\ JobsOK' /\ broken' \in BOOLEAN
<1>1. proc[p].pc = "select" /\ day' = day /\ proc[p].pc \in Busy /\ broken \in BOOLEAN
  BY DEF SelectKeys, Busy, TypeOK
<1>2. CASE \E failed \in BOOLEAN : Ends(p, failed)
  BY <1>1, <1>2, EndsOK DEF Ends
<1>3. CASE /\ proc' = [proc EXCEPT ![p].pc = "commit", ![p].keys = KeysOf(table[proc[p].target])]
           /\ UNCHANGED broken
  <2>1. PICK r : r = proc[p]
    OBVIOUS
  <2>2. /\ r \in Jobs /\ JobOK(p, r, day) /\ r.pc = "select" /\ r.target \in Dates
        /\ proc \in [Processes -> Jobs]
    BY <1>1, <2>1 DEF TypeOK, JobsOK
  <2>3. PICK keys : keys = KeysOf(table[r.target])
    OBVIOUS
  <2>4. PICK h : h = [pc |-> "commit", due |-> r.due, target |-> r.target, got |-> r.got, keys |-> r.keys]
    OBVIOUS
  <2>5. PICK j : j = [pc |-> "commit", due |-> r.due, target |-> r.target, got |-> r.got, keys |-> keys]
    OBVIOUS
  <2>6. proc' = [proc EXCEPT ![p] = j]
    <3>1. r = [pc |-> r.pc, due |-> r.due, target |-> r.target, got |-> r.got, keys |-> r.keys]
      BY <2>2 DEF Jobs
    <3>2. [r EXCEPT !.pc = "commit"] = h
      BY <2>4, <3>1
    <3>3. [h EXCEPT !.keys = keys] = j
      BY <2>4, <2>5
    <3>4. proc' = [[proc EXCEPT ![p] = h] EXCEPT ![p] = [h EXCEPT !.keys = keys]]
      BY <1>3, <2>1, <2>2, <2>3, <3>2
    <3>. QED  BY <2>2, <3>3, <3>4
  <2>7. keys \in SUBSET (AllZones \X Hours)
    BY <2>3 DEF KeysOf
  <2>8. j \in Jobs /\ j.target \in Dates
    BY <2>2, <2>5, <2>7 DEF Jobs, Busy
  <2>9. JobOK(p, j, day)
    <3>1. ASSUME NEW g \in Hours, NEW h1 \in Hours, <<Pun, g>> \in keys PROVE <<Pun, h1>> \in keys
      <4>1. g \in DOMAIN table[r.target][Pun]
        BY <2>3, <3>1 DEF KeysOf
      <4>2. WholeDay(table[r.target][Pun])
        BY <2>2, TableSound
      <4>3. h1 \in DOMAIN table[r.target][Pun]
        BY <4>1, <4>2 DEF WholeDay
      <4>4. <<Pun, h1>> \in AllZones \X Hours
        BY Constants
      <4>. QED  BY <2>3, <4>3, <4>4 DEF KeysOf
    <3>2. p = Script => j.due = day - BackfillDays /\ j.target \in j.due..day - 1
      BY <2>2, <2>5 DEF JobOK, Busy
    <3>3. \A z \in AllZones : j.got[z] \in Given
      BY <2>2, <2>5 DEF JobOK
    <3>. QED  BY <2>5, <3>1, <3>2, <3>3 DEF JobOK
  <2>. QED  BY <1>1, <1>3, <2>6, <2>8, <2>9, OneJob
<1>. QED  BY <1>2, <1>3 DEF SelectKeys

-----------------------------------------------------------------------------
\* The invariant.

\* Steps that store nothing.
LEMMA Unstored ==
    ASSUME IInv, UNCHANGED <<table, restarts>>, day' \in FirstDay..LastDay, published' \in {day', day' + 1},
           proc' \in [Processes -> Jobs], \A q \in Processes : proc'[q].pc \in Busy => proc'[q].target \in Dates,
           JobsOK', broken' \in BOOLEAN
    PROVE  IInv'
<1>1. TypeOK'
  BY DEF IInv, TypeOK
<1>2. NothingInvented'
  BY DEF IInv, NothingInvented
<1>. QED  BY <1>1, <1>2 DEF IInv

LEMMA TriggerInvariant ==
    ASSUME IInv, NEW w \in Workers, Trigger(w)
    PROVE  IInv'
<1>1. TypeOK /\ JobsOK /\ w \in Processes /\ day + 1 \in Dates
  BY Days DEF IInv, Processes
<1>2. PICK j : j = Fetching(day + 1)
  OBVIOUS
<1>3. j \in Jobs /\ j.target \in Dates /\ JobOK(w, j, day)
  BY <1>1, <1>2, FetchingOK
<1>4. /\ proc' \in [Processes -> Jobs]
      /\ \A q \in Processes : proc'[q].pc \in Busy => proc'[q].target \in Dates
      /\ JobsOK'
  BY <1>1, <1>2, <1>3, OneJob DEF Trigger
<1>. QED  BY <1>4, Unstored DEF Trigger, IInv, TypeOK

LEMMA RestartInvariant ==
    ASSUME IInv, NEW w \in Workers, Restart(w)
    PROVE  IInv'
<1>1. TypeOK /\ JobsOK /\ w \in Processes
  BY DEF IInv, Processes
<1>2. PICK j : j = Waiting
  OBVIOUS
<1>3. j \in Jobs /\ j.pc \notin Busy /\ JobOK(w, j, day)
  BY <1>1, <1>2, WaitingOK
<1>4. /\ proc' \in [Processes -> Jobs]
      /\ \A q \in Processes : proc'[q].pc \in Busy => proc'[q].target \in Dates
      /\ JobsOK'
  BY <1>1, <1>2, <1>3, OneJob DEF Restart
<1>5. restarts' \in 0..MaxRestarts
  BY <1>1, FeedAssumption DEF Restart, TypeOK
<1>6. TypeOK'
  BY <1>1, <1>4, <1>5 DEF TypeOK, Restart
<1>7. NothingInvented'
  BY DEF IInv, NothingInvented, Restart
<1>. QED  BY <1>4, <1>6, <1>7 DEF IInv

LEMMA BackfillInvariant ==
    ASSUME IInv, Backfill
    PROVE  IInv'
<1>1. TypeOK /\ JobsOK /\ Script \in Processes /\ day - 1 \in day - BackfillDays..day - 1
  BY Days DEF IInv, Processes
<1>2. PICK j : j = [Fetching(day - 1) EXCEPT !.due = day - BackfillDays]
  OBVIOUS
<1>3. j \in Jobs /\ j.target \in Dates /\ JobOK(Script, j, day)
  BY <1>1, <1>2, BackfillingOK
<1>4. /\ proc' \in [Processes -> Jobs]
      /\ \A q \in Processes : proc'[q].pc \in Busy => proc'[q].target \in Dates
      /\ JobsOK'
  BY <1>1, <1>2, <1>3, OneJob DEF Backfill
<1>. QED  BY <1>4, Unstored DEF Backfill, IInv, TypeOK

LEMMA NextDayInvariant ==
    ASSUME IInv, NextDay
    PROVE  IInv'
<1>1. /\ day' = day + 1 /\ day' \in FirstDay..LastDay /\ published' = day'
      /\ UNCHANGED <<table, proc, broken, restarts>>
  BY FeedAssumption DEF IInv, TypeOK, NextDay
<1>2. JobsOK'
  <2>1. ASSUME NEW p \in Processes PROVE JobOK(p, proc[p], day')
    <3>1. JobOK(p, proc[p], day)
      BY DEF IInv, JobsOK
    <3>2. p = Script => proc[p].pc \notin Busy
      BY DEF NextDay, Busy
    <3>. QED  BY <3>1, <3>2 DEF JobOK
  <2>. QED  BY <1>1, <2>1 DEF JobsOK
<1>. QED  BY <1>1, <1>2, Unstored DEF IInv, TypeOK

LEMMA PublishInvariant ==
    ASSUME IInv, Publish
    PROVE  IInv'
  BY Unstored DEF Publish, IInv, TypeOK, JobsOK

LEMMA InitInvariant == Init => IInv
<1> SUFFICES ASSUME Init PROVE IInv
  OBVIOUS
<1>1. day = FirstDay /\ published = FirstDay /\ day \in FirstDay..LastDay /\ restarts \in 0..MaxRestarts /\ broken \in BOOLEAN
  <2>1. day = FirstDay /\ published = FirstDay /\ restarts = 0 /\ broken = FALSE
    BY DEF Init
  <2>2. FirstDay \in FirstDay..LastDay /\ 0 \in 0..MaxRestarts
    BY FeedAssumption
  <2>3. broken \in BOOLEAN
    BY <2>1
  <2>. QED  BY <2>1, <2>2, <2>3
<1>2. PICK yesterday : yesterday = FirstDay - 1 /\ yesterday \in Dates
  BY FeedAssumption DEF Dates
<1>3. PICK rows : table = [d \in Dates |-> IF d = yesterday THEN rows ELSE NoRows]
                  /\ rows \in {NoRows} \cup {[z \in AllZones |-> Rows[yesterday][z][answer]] : answer \in {"prices", "error"}}
  BY <1>2 DEF Init
<1>4. ASSUME NEW z \in AllZones
      PROVE  /\ IsCurve(rows[z])
             /\ z # Pun => \A h \in DOMAIN rows[z] : GoodPrice(yesterday, z, h, rows[z][h])
             /\ z = Pun => WholeDay(rows[z])
  <2>1. CASE rows = NoRows
    BY <2>1 DEF NoRows, IsCurve, WholeDay
  <2>2. CASE \E answer \in {"prices", "error"} : rows = [y \in AllZones |-> Rows[yesterday][y][answer]]
    <3>1. PICK answer \in Given : rows = [y \in AllZones |-> Rows[yesterday][y][answer]]
      BY <2>2 DEF Given
    <3>2. PICK curve : curve = Rows[yesterday][z][answer]
      OBVIOUS
    <3>5. rows[z] = curve
      BY <3>1, <3>2
    <3>3. /\ IsCurve(curve)
          /\ z # Pun => \A h \in DOMAIN curve : GoodPrice(yesterday, z, h, curve[h])
          /\ z = Pun => DOMAIN curve = {} \/ \E p \in Nat : curve = [h \in Hours |-> p]
      <4>1. /\ IsCurve(Rows[yesterday][z][answer])
            /\ z # Pun => \A h \in DOMAIN Rows[yesterday][z][answer] : GoodPrice(yesterday, z, h, Rows[yesterday][z][answer][h])
            /\ z = Pun => DOMAIN Rows[yesterday][z][answer] = {} \/ \E p \in Nat : Rows[yesterday][z][answer] = [h \in Hours |-> p]
        BY <1>2, RowsAre
      <4>. QED  BY <3>2, <4>1, Zenon
    <3>4. z = Pun => WholeDay(curve)
      BY <3>3, Constants DEF WholeDay, Range
    <3>. QED  BY <3>5, <3>3, <3>4
  <2>. QED  BY <1>3, <2>1, <2>2
<1>5. rows = [z \in AllZones |-> rows[z]]
  BY <1>3 DEF NoRows
<1>6. TableOK(table)
  BY <1>3, <1>4, <1>5 DEF TableOK, NoRows, IsCurve
<1>7. NothingInvented
  <2>1. \A d \in Dates, z \in AllZones : table[d][z] = IF d = yesterday THEN rows[z] ELSE <<>>
    BY <1>3 DEF NoRows
  <2>. QED  BY <1>4, <2>1, Constants, TableSound DEF WholeDay
<1>8. proc \in [Processes -> Jobs] /\ \A p \in Processes : proc[p].pc \notin Busy /\ JobOK(p, proc[p], day)
  <2>1. PICK idle : idle = [pc |-> "idle", due |-> day + 1, target |-> None, got |-> NoAnswers, keys |-> {}]
    OBVIOUS
  <2>2. [Waiting EXCEPT !.pc = "idle"] = idle
    BY <2>1 DEF Waiting
  <2>3. proc = [p \in Processes |-> IF p \in Workers THEN Waiting ELSE idle]
    BY <2>2 DEF Init
  <2>4. day \in Int
    BY <1>1, FeedAssumption
  <2>5. Waiting \in Jobs /\ Waiting.pc \notin Busy /\ \A w \in Workers : JobOK(w, Waiting, day)
    BY <2>4 DEF Waiting, Jobs, Busy, JobOK, NoAnswers
  <2>6. idle \in Jobs /\ idle.pc \notin Busy /\ \A p : JobOK(p, idle, day)
    BY <2>1, <2>4 DEF Jobs, Busy, JobOK, NoAnswers
  <2>. QED  BY <2>3, <2>5, <2>6
<1>9. TypeOK
  BY <1>1, <1>6, <1>8 DEF TypeOK, TableOK
<1>. QED  BY <1>7, <1>8, <1>9 DEF IInv, JobsOK

\* The invariant is inductive, and whatever is stored stays.
LEMMA NextInvariant ==
    ASSUME IInv, [Next]_vars
    PROVE  IInv' /\ Grows
<1>1. ASSUME NEW p \in Processes, FetchZone(p) PROVE IInv'
  BY <1>1, FetchZoneInvariant, Unstored DEF IInv, FetchZone, TypeOK
<1>2. ASSUME NEW p \in Processes, SelectKeys(p) PROVE IInv'
  BY <1>2, SelectKeysInvariant, Unstored DEF IInv, SelectKeys, TypeOK
<1>3. ASSUME NEW p \in Processes, CommitRows(p) PROVE IInv' /\ Grows
  BY <1>3, CommitInvariant
<1>4. CASE UNCHANGED vars
  BY <1>4, Unstored DEF vars, IInv, TypeOK, JobsOK, Grows
<1>5. UNCHANGED table => Grows
  BY DEF Grows
<1>6. CASE NextDay \/ Publish \/ Backfill
  BY <1>5, <1>6, NextDayInvariant, PublishInvariant, BackfillInvariant DEF NextDay, Publish, Backfill
<1>7. CASE \E w \in Workers : Trigger(w) \/ Restart(w)
  BY <1>5, <1>7, TriggerInvariant, RestartInvariant DEF Trigger, Restart
<1>8. CASE \E p \in Processes : FetchZone(p) \/ SelectKeys(p)
  BY <1>1, <1>2, <1>5, <1>8 DEF FetchZone, SelectKeys
<1>. QED  BY <1>3, <1>4, <1>6, <1>7, <1>8 DEF Next, Step

LEMMA Invariance == Spec => []IInv
  BY InitInvariant, NextInvariant, PTL DEF Spec

\* The table holds numbers of hours of the day, and jobs are well-formed.
THEOREM TypeCorrect == Spec => []TypeOK
<1>1. IInv => TypeOK
  BY DEF IInv
<1>. QED  BY <1>1, Invariance, PTL

\* _parse_raw_prices() and _upsert_rows(): whichever processes store a day at the
\* same time, its prices are of the feed, or the estimate, and its index is one value.
THEOREM PricesAreTrue == Spec => []NothingInvented
<1>1. IInv => NothingInvented
  BY DEF IInv
<1>. QED  BY <1>1, Invariance, PTL

\* No step of any process takes back or changes a price that is stored.
THEOREM PricesStay == Spec => CurveIsFinal
<1>1. IInv /\ [Next]_vars =>
        [\A d \in Dates, z \in AllZones :
            /\ \A h \in DOMAIN table[d][z] : h \in DOMAIN table'[d][z] /\ table'[d][z][h] = table[d][z][h]
            /\ Source(d, z) = "gme-db" => Source(d, z)' = "gme-db"]_vars
  BY NextInvariant DEF Grows, Source
<1>. QED  BY <1>1, Invariance, PTL DEF Spec, CurveIsFinal

-----------------------------------------------------------------------------
\* The backfill, when GME has a price of every zone, or a national one, for every day.

Complete == \A d \in Dates, z \in Zones : DOMAIN Parsed(Feed[d], z) # {}

Filled(t, first, last) == \A d \in first..last, z \in Zones : DOMAIN t[d][z] # {}

\* What holds of the script at a day: it is answered with prices or an error, what it
\* has read is still stored, and the later days are filled if its session never failed.
RepairOK(j, t, today, failed) ==
    j.pc \in Busy =>
        /\ \A z \in AllZones : j.got[z] # "nothing"
        /\ j.pc = "commit" => j.keys \subseteq KeysOf(t[j.target])
        /\ ~failed => Filled(t, j.target + 1, today - 1)

RepairsOK == RepairOK(proc[Script], table, day, broken)

Repaired ==
    (proc[Script].pc # "done" /\ proc'[Script].pc = "done" /\ ~broken') =>
        \A k \in 1..BackfillDays : \A z \in Zones : DOMAIN table'[day - k][z] # {}

\* Each zone gets a row from an answer that is not empty.
LEMMA RowsFill ==
    ASSUME Complete, NEW d \in Dates, NEW z \in Zones, NEW answer \in {"prices", "error"}
    PROVE  DOMAIN Rows[d][z][answer] # {}
<1>1. z # Pun /\ z \in AllZones
  BY Constants DEF AllZones
<1>2. Rows[d][z][answer] = GetMgpPrices(answer, d, z)
  BY <1>1 DEF Rows
<1>3. CASE answer = "prices"
  BY <1>2, <1>3 DEF GetMgpPrices, Complete
<1>4. CASE answer = "error"
  BY <1>2, <1>4, Constants DEF GetMgpPrices, Flat
<1>. QED  BY <1>3, <1>4

LEMMA GrownKeepsFilled ==
    ASSUME IInv, Grows, NEW first \in Int, first >= day - BackfillDays, Filled(table, first, day - 1)
    PROVE  Filled(table', first, day - 1)
<1>1. ASSUME NEW d \in first..day - 1, NEW z \in Zones PROVE DOMAIN table'[d][z] # {}
  <2>1. d \in Dates /\ z \in AllZones
    BY Days, Constants DEF IInv
  <2>. QED  BY <2>1 DEF Filled, Grows
<1>. QED  BY <1>1 DEF Filled

\* The script is over with its day, which is filled unless its session has failed.
LEMMA ScriptEnds ==
    ASSUME IInv, Grows, RepairsOK, proc[Script].pc \in Busy, NEW failed, Ends(Script, failed), day' = day,
           ~broken' => \A z \in Zones : DOMAIN table'[proc[Script].target][z] # {}
    PROVE  RepairsOK' /\ Repaired
<1>1. /\ TypeOK /\ JobOK(Script, proc[Script], day) /\ Script \in Processes /\ Script \notin Workers
      /\ proc \in [Processes -> Jobs]
  BY FeedAssumption DEF IInv, JobsOK, Processes, TypeOK
<1>2. PICK target \in Int : target = proc[Script].target
  BY <1>1, Days DEF TypeOK
<1>3. proc[Script].due = day - BackfillDays /\ target \in day - BackfillDays..day - 1 /\ day \in Int /\ BackfillDays \in Nat
  BY <1>1, <1>2, Days DEF JobOK
<1>4. ~broken' => Filled(table', target, day - 1)
  <2>1. SUFFICES ASSUME ~broken' PROVE Filled(table', target, day - 1)
    OBVIOUS
  <2>2. ~broken
    BY <2>1 DEF Ends
  <2>3. Filled(table, target + 1, day - 1)
    BY <1>2, <2>2 DEF RepairsOK, RepairOK
  <2>4. Filled(table', target + 1, day - 1)
    BY <1>3, <2>3, GrownKeepsFilled
  <2>5. \A d \in target..day - 1 : d = target \/ d \in target + 1..day - 1
    BY <1>3
  <2>. QED  BY <1>2, <2>1, <2>4, <2>5 DEF Filled
<1>5. proc'[Script] = After(Script, failed)
  BY <1>1 DEF Ends
<1>6. CASE target - 1 >= day - BackfillDays
  <2>1. After(Script, failed) = [Fetching(target - 1) EXCEPT !.due = day - BackfillDays]
    BY <1>1, <1>2, <1>3, <1>6 DEF After, BackfillTarget, OldestDate
  <2>2. proc'[Script].pc = "fetch" /\ proc'[Script].target = target - 1 /\ proc'[Script].got = NoAnswers
    BY <1>5, <2>1 DEF Fetching
  <2>3. ~broken' => Filled(table', (target - 1) + 1, day' - 1)
    <3>1. (target - 1) + 1 = target
      OBVIOUS
    <3>. QED  BY <1>4, <3>1
  <2>. QED  BY <2>2, <2>3, FeedAssumption DEF RepairsOK, RepairOK, Repaired, NoAnswers
<1>7. CASE ~(target - 1 >= day - BackfillDays)
  <2>1. After(Script, failed) = [proc[Script] EXCEPT !.pc = "done"]
    BY <1>1, <1>2, <1>3, <1>7 DEF After, BackfillTarget, OldestDate
  <2>2. proc'[Script].pc = "done"
    BY <1>1, <1>5, <2>1 DEF Jobs
  <2>3. target = day - BackfillDays
    BY <1>3, <1>7
  <2>4. ~broken' => \A k \in 1..BackfillDays : \A z \in Zones : DOMAIN table'[day - k][z] # {}
    BY <1>3, <1>4, <2>3 DEF Filled
  <2>. QED  BY <2>2, <2>4 DEF RepairsOK, RepairOK, Repaired, Busy
<1>. QED  BY <1>3, <1>6, <1>7

LEMMA ScriptCommits ==
    ASSUME Complete, IInv, Grows, RepairsOK, CommitRows(Script)
    PROVE  RepairsOK' /\ Repaired
<1>1. proc[Script].pc = "commit" /\ proc[Script].pc \in Busy /\ day' = day
  BY DEF CommitRows, Busy
<1>2. TypeOK /\ JobsOK /\ NothingInvented /\ Script \in Processes
  BY DEF IInv, Processes
<1>3. proc[Script].keys \subseteq KeysOf(table[proc[Script].target])
  BY <1>1 DEF RepairsOK, RepairOK
<1>4. PICK d \in Dates : d = proc[Script].target
  BY <1>1, <1>2, NewRowsAre, Constants
<1>5. ASSUME NEW z \in Zones, (KeysOf(NewRows(Script)) = {} /\ UNCHANGED table) \/ table' = [table EXCEPT ![d] = Stored(Script)]
      PROVE  DOMAIN table'[d][z] # {}
  <2>1. z \in AllZones
    BY Constants
  <2>2. proc[Script].got[z] \in {"prices", "error"}
    BY <1>1, <1>2, <2>1, NewRowsAre DEF RepairsOK, RepairOK, Given
  <2>3. PICK h : h \in DOMAIN Rows[d][z][proc[Script].got[z]]
    BY <2>2, RowsFill
  <2>4. <<z, h>> \in AllZones \X Hours
    BY <1>1, <1>2, <1>4, <2>1, <2>3, NewRowsAre DEF IsCurve
  <2>5. CASE <<z, h>> \in proc[Script].keys
    <3>1. h \in DOMAIN table[d][z]
      BY <1>3, <1>4, <2>5 DEF KeysOf
    <3>. QED  BY <1>4, <2>1, <3>1 DEF Grows
  <2>6. CASE <<z, h>> \notin proc[Script].keys
    <3>1. h \in DOMAIN NewRows(Script)[z]
      BY <1>1, <1>2, <1>4, <2>1, <2>3, <2>6, NewRowsAre
    <3>2. <<z, h>> \in KeysOf(NewRows(Script))
      BY <2>4, <3>1 DEF KeysOf
    <3>3. table' = [table EXCEPT ![d] = Stored(Script)]
      BY <1>5, <3>2
    <3>4. table'[d] = Stored(Script)
      BY <1>2, <3>3 DEF TypeOK
    <3>5. h \in DOMAIN Stored(Script)[z]
      BY <1>1, <1>2, <2>1, <3>1, StoredIs
    <3>. QED  BY <3>4, <3>5
  <2>. QED  BY <2>5, <2>6
<1>6. CASE \E failed : Ends(Script, failed) /\ broken'
  BY <1>1, <1>6, ScriptEnds
<1>7. CASE KeysOf(NewRows(Script)) = {} /\ Ends(Script, FALSE) /\ UNCHANGED table
  BY <1>1, <1>4, <1>5, <1>7, ScriptEnds
<1>8. CASE Clash(Script) /\ Ends(Script, TRUE)
  BY <1>6, <1>8 DEF Ends
<1>9. CASE \E outcome \in CommitOutcomes :
              /\ table' = IF outcome = "lost" THEN table ELSE [table EXCEPT ![proc[Script].target] = Stored(Script)]
              /\ Ends(Script, outcome # "ok")
  <2>1. PICK outcome \in CommitOutcomes :
              /\ table' = IF outcome = "lost" THEN table ELSE [table EXCEPT ![proc[Script].target] = Stored(Script)]
              /\ Ends(Script, outcome # "ok")
    BY <1>9
  <2>2. CASE outcome = "ok"
    BY <1>1, <1>4, <1>5, <2>1, <2>2, ScriptEnds
  <2>3. CASE outcome # "ok"
    BY <1>6, <2>1, <2>3 DEF Ends
  <2>. QED  BY <2>2, <2>3
<1>. QED  BY <1>7, <1>8, <1>9 DEF CommitRows

LEMMA ScriptSelects ==
    ASSUME Complete, IInv, Grows, RepairsOK, SelectKeys(Script)
    PROVE  RepairsOK' /\ Repaired
<1>1. proc[Script].pc = "select" /\ proc[Script].pc \in Busy /\ day' = day /\ table' = table
  BY DEF SelectKeys, Busy
<1>2. TypeOK /\ JobsOK /\ Script \in Processes /\ proc \in [Processes -> Jobs]
  BY DEF IInv, Processes, TypeOK
<1>3. KeysOf(Fetched(Script)) # {}
  <2>1. Nord \in Zones /\ Nord \in AllZones
    BY Constants
  <2>2. proc[Script].target \in Dates /\ proc[Script].got[Nord] \in {"prices", "error"}
    BY <1>1, <1>2, <2>1, NewRowsAre DEF RepairsOK, RepairOK, Given
  <2>3. PICK h : h \in DOMAIN Rows[proc[Script].target][Nord][proc[Script].got[Nord]]
    BY <2>1, <2>2, RowsFill
  <2>4. h \in Hours
    BY <1>1, <1>2, <2>1, <2>3, NewRowsAre DEF IsCurve
  <2>5. <<Nord, h>> \in AllZones \X Hours
    BY <2>1, <2>4
  <2>6. h \in DOMAIN Fetched(Script)[Nord]
    BY <2>1, <2>3 DEF Fetched
  <2>7. <<Nord, h>> \in KeysOf(Fetched(Script))
    BY <2>5, <2>6 DEF KeysOf
  <2>. QED  BY <2>7
<1>4. CASE Ends(Script, TRUE)
  BY <1>1, <1>4, ScriptEnds DEF Ends
<1>5. CASE /\ proc' = [proc EXCEPT ![Script].pc = "commit", ![Script].keys = KeysOf(table[proc[Script].target])]
           /\ UNCHANGED broken
  <2>1. PICK keys : keys = KeysOf(table[proc[Script].target])
    OBVIOUS
  <2>2. PICK r : r = proc[Script] /\ r \in Jobs
    BY <1>2
  <2>3. PICK h : h = [pc |-> "commit", due |-> r.due, target |-> r.target, got |-> r.got, keys |-> r.keys]
    OBVIOUS
  <2>4. [r EXCEPT !.pc = "commit"] = h
    BY <2>2, <2>3 DEF Jobs
  <2>5. proc' = [[proc EXCEPT ![Script] = h] EXCEPT ![Script] = [h EXCEPT !.keys = keys]]
    BY <1>2, <1>5, <2>1, <2>2, <2>4
  <2>6. proc'[Script] = [h EXCEPT !.keys = keys]
    BY <1>2, <2>5
  <2>7. /\ proc'[Script].pc = "commit" /\ proc'[Script].target = proc[Script].target
        /\ proc'[Script].got = proc[Script].got /\ proc'[Script].keys = keys
    BY <2>2, <2>3, <2>6
  <2>. QED  BY <1>1, <1>5, <2>1, <2>7 DEF RepairsOK, RepairOK, Repaired
<1>. QED  BY <1>3, <1>4, <1>5 DEF SelectKeys

LEMMA ScriptFetches ==
    ASSUME IInv, RepairsOK, FetchZone(Script)
    PROVE  RepairsOK' /\ Repaired
<1>1. PICK i \in DOMAIN Calls, answer \in Answers(proc[Script].target) :
          proc' = [proc EXCEPT ![Script].got[Calls[i]] = answer,
                               ![Script].pc = IF i = Len(Calls) THEN "select" ELSE "fetch"]
  BY DEF FetchZone
<1>2. /\ proc[Script].pc = "fetch" /\ Script \in Processes /\ proc \in [Processes -> Jobs] /\ day \in Int
      /\ UNCHANGED <<day, table, broken>> /\ JobOK(Script, proc[Script], day) /\ published \in {day, day + 1}
  BY Days DEF FetchZone, IInv, TypeOK, Processes, JobsOK
<1>3. answer \in {"prices", "error"}
  <2>1. proc[Script].target \in Int /\ proc[Script].target <= published
    BY <1>2, Days DEF JobOK, Busy, IInv
  <2>. QED  BY <1>1, <2>1 DEF Answers
<1>4. PICK z \in AllZones : z = Calls[i]
  BY AllAnswered, Constants
<1>5. PICK pc \in {"select", "fetch"} : pc = IF i = Len(Calls) THEN "select" ELSE "fetch"
  OBVIOUS
<1>6. PICK r : r = proc[Script] /\ r \in Jobs
  BY <1>2
<1>7. PICK got : got = [r.got EXCEPT ![z] = answer]
  OBVIOUS
<1>8. PICK h : h = [pc |-> r.pc, due |-> r.due, target |-> r.target, got |-> got, keys |-> r.keys]
  OBVIOUS
<1>9. [r EXCEPT !.got = got] = h
  BY <1>6, <1>8 DEF Jobs
<1>10. proc' = [[proc EXCEPT ![Script] = h] EXCEPT ![Script] = [h EXCEPT !.pc = pc]]
  BY <1>1, <1>2, <1>4, <1>5, <1>6, <1>7, <1>9
<1>11. proc'[Script] = [h EXCEPT !.pc = pc]
  BY <1>2, <1>10
<1>12. proc'[Script].pc = pc /\ proc'[Script].target = r.target /\ proc'[Script].got = got
  BY <1>8, <1>11
<1>13. \A y \in AllZones : got[y] # "nothing"
  BY <1>2, <1>3, <1>6, <1>7 DEF RepairsOK, RepairOK, Busy, Jobs
<1>14. ~broken => Filled(table, r.target + 1, day - 1)
  BY <1>2, <1>6 DEF RepairsOK, RepairOK, Busy
<1>. QED  BY <1>2, <1>12, <1>13, <1>14 DEF RepairsOK, RepairOK, Repaired

\* Steps of others leave the script where it is.
LEMMA OthersStep ==
    ASSUME IInv, Grows, RepairsOK, proc'[Script] = proc[Script], UNCHANGED <<day, broken>>
    PROVE  RepairsOK' /\ Repaired
<1>1. CASE proc[Script].pc \in Busy
  <2>1. /\ proc[Script].target \in Dates /\ proc[Script].target + 1 \in Int
        /\ proc[Script].target + 1 >= day - BackfillDays
    <3>1. TypeOK /\ JobOK(Script, proc[Script], day)
      BY DEF IInv, JobsOK, Processes
    <3>. QED  BY <1>1, <3>1, Days DEF JobOK, TypeOK, Processes
  <2>2. KeysOf(table[proc[Script].target]) \subseteq KeysOf(table'[proc[Script].target])
    BY <2>1 DEF KeysOf, Grows
  <2>3. ~broken => Filled(table', proc[Script].target + 1, day - 1)
    BY <1>1, <2>1, GrownKeepsFilled DEF RepairsOK, RepairOK
  <2>. QED  BY <1>1, <2>2, <2>3 DEF RepairsOK, RepairOK, Repaired
<1>2. CASE proc[Script].pc \notin Busy
  BY <1>2 DEF RepairsOK, RepairOK, Repaired
<1>. QED  BY <1>1, <1>2

LEMMA NextRepairs ==
    ASSUME Complete, IInv, RepairsOK, [Next]_vars
    PROVE  RepairsOK' /\ Repaired
<1>1. Grows /\ TypeOK /\ Script \in Processes /\ Script \notin Workers /\ proc \in [Processes -> Jobs]
  BY NextInvariant, FeedAssumption DEF IInv, Processes, TypeOK
<1>2. CASE NextDay
  <2>1. proc[Script].pc \notin Busy /\ proc' = proc
    BY <1>2 DEF NextDay, Busy
  <2>. QED  BY <2>1 DEF RepairsOK, RepairOK, Repaired
<1>3. CASE Backfill
  <2>1. /\ proc'[Script] = [Fetching(day - 1) EXCEPT !.due = day - BackfillDays]
        /\ day' = day
    BY <1>1, <1>3 DEF Backfill
  <2>2. proc'[Script].pc = "fetch" /\ proc'[Script].target = day - 1 /\ proc'[Script].got = NoAnswers
    BY <2>1 DEF Fetching
  <2>3. Filled(table', (day - 1) + 1, day - 1)
    BY <1>1, Days DEF Filled
  <2>. QED  BY <2>1, <2>2, <2>3, FeedAssumption DEF RepairsOK, RepairOK, Repaired, NoAnswers
<1>4. CASE \E w \in Workers : Trigger(w) \/ Restart(w)
  BY <1>1, <1>4, OthersStep DEF Trigger, Restart
<1>5. CASE Publish \/ UNCHANGED vars
  BY <1>1, <1>5, OthersStep DEF Publish, vars
<1>6. ASSUME NEW p \in Processes, FetchZone(p) \/ SelectKeys(p) \/ CommitRows(p)
      PROVE  RepairsOK' /\ Repaired
  <2>1. CASE p = Script
    BY <1>1, <1>6, <2>1, ScriptFetches, ScriptSelects, ScriptCommits
  <2>2. CASE p # Script
    <3>1. proc'[Script] = proc[Script] /\ day' = day
      BY <1>1, <1>6, <2>2 DEF FetchZone, SelectKeys, CommitRows, Ends
    <3>2. broken' = broken
      BY <1>1, <1>6, <2>2 DEF FetchZone, SelectKeys, CommitRows, Ends, TypeOK
    <3>. QED  BY <1>1, <3>1, <3>2, OthersStep
  <2>. QED  BY <2>1, <2>2
<1>. QED  BY <1>2, <1>3, <1>4, <1>5, <1>6 DEF Next, Step

LEMMA InitRepairs == Init => RepairsOK
<1> SUFFICES ASSUME Init PROVE RepairsOK
  OBVIOUS
<1>1. proc = [p \in Processes |-> IF p \in Workers THEN Waiting ELSE [Waiting EXCEPT !.pc = "idle"]]
  BY DEF Init
<1>2. proc[Script].pc = "idle"
  BY <1>1, FeedAssumption DEF Processes, Waiting
<1>. QED  BY <1>2 DEF RepairsOK, RepairOK, Busy

\* backfill(): for any number of zones, days and workers, a run of the script whose
\* session never failed has filled each of its days for every zone.
THEOREM BackfillFills ==
    ASSUME Complete
    PROVE  Spec => BackfillRepairs
<1>1. IInv /\ RepairsOK /\ [Next]_vars => RepairsOK'
  BY NextRepairs
<1>2. IInv /\ RepairsOK /\ [Next]_vars =>
        [(proc[Script].pc # "done" /\ proc'[Script].pc = "done" /\ ~broken') =>
            \A k \in 1..BackfillDays : \A z \in Zones : DOMAIN table'[day - k][z] # {}]_vars
  BY NextRepairs DEF Repaired
<1>. QED  BY <1>1, <1>2, InitRepairs, Invariance, PTL DEF Spec, BackfillRepairs
=============================================================================
