------------------------ MODULE ApplyRequestsProofs ------------------------
(***************************************************************************)
(* For any number of requests, batteries, sites, dates and schedules: each *)
(* application of a plan is one atomic replacement of a day, no day is put *)
(* together from two of them, and none overwrites a row it has not seen.   *)
(***************************************************************************)
EXTENDS ApplyRequests, FiniteSetTheorems, TLAPS

\* The two views of a row: its power and who inserted it.
RowsHaveOrigin == \A k \in Slots : plans[k] = NoRow <=> origin[k] = NoRow

\* What an open request has in hand.
RequestSound(r) ==
    phase[r] \in Open => /\ bats[r] # {}
                         /\ date[r] \in Store!PastDates
                         /\ row[r] \in DividedRows

RequestsSound == \A r \in Requests : RequestSound(r)

\* What a request has inserted can be committed whatever the others do: the
\* constraints checked row by row still hold when the transaction ends.
StaysAdmissible == \A r \in Requests : \A k \in inserted[r] : Admissible(r, k)

\* Two requests never keep the same slot.
Apart == \A r1, r2 \in Requests : r1 # r2 => Held(r1) \cap Held(r2) = {}

IInv ==
    /\ TypeOK
    /\ RowsHaveOrigin
    /\ OneRequestPerDay
    /\ RequestsSound
    /\ StaysAdmissible
    /\ Apart

-----------------------------------------------------------------------------

LEMMA InitIInv == Init => IInv
<1> SUFFICES ASSUME Init PROVE IInv
  OBVIOUS
<1> USE RequestAssumption DEF Init, Store!StoreInit
<1>1. TypeOK
  BY DEF TypeOK, Store!StoreTypeOK, Store!Statuses, Phases, Open, Ended
<1>2. RowsHaveOrigin /\ OneRequestPerDay
  BY DEF RowsHaveOrigin, OneRequestPerDay, Slots, Store!Slots
<1>3. RequestsSound /\ StaysAdmissible /\ Apart
  BY DEF RequestsSound, RequestSound, Open, StaysAdmissible, Apart, Held
<1>. QED  BY <1>1, <1>2, <1>3 DEF IInv

\* The site's power divided by the number of its active batteries is a power.
LEMMA ShareIsPower ==
    ASSUME NEW p \in Int, NEW n \in Nat \ {0}
    PROVE  Share(p, n) \in Int
  BY DEF Share

LEMMA DividedPowers ==
    ASSUME NEW d \in DividedRows, NEW q \in QHs
    PROVE  d \in [QHs -> Int] /\ d[q] \in UNION {{x[i] : i \in QHs} : x \in DividedRows}
<1>1. PICK s \in Schedules, n \in 1..Cardinality(Batteries) : d = [i \in QHs |-> Share(s[i], n)]
  BY DEF DividedRows
<1>2. Cardinality(Batteries) \in Nat
  BY RequestAssumption, FS_CardinalityType
<1>3. n \in Nat \ {0} /\ s \in [QHs -> Int]
  BY <1>2, RequestAssumption
<1>4. \A i \in QHs : Share(s[i], n) \in Int
  BY <1>3, ShareIsPower
<1>. QED  BY <1>1, <1>4

LEMMA DividedRow ==
    ASSUME NEW bs \in SUBSET Batteries, bs # {}, NEW s \in Schedules
    PROVE  [q \in QHs |-> Share(s[q], Cardinality(bs))] \in DividedRows
<1>1. /\ IsFiniteSet(bs)
      /\ Cardinality(bs) <= Cardinality(Batteries)
      /\ Cardinality(Batteries) \in Nat
  BY RequestAssumption, FS_Subset, FS_CardinalityType
<1>2. Cardinality(bs) \in Nat /\ Cardinality(bs) # 0
  BY <1>1, FS_CardinalityType, FS_EmptySet
<1>3. Cardinality(bs) \in 1..Cardinality(Batteries)
  BY <1>1, <1>2
<1>. QED  BY <1>3 DEF DividedRows

\* What a request in hand can go on with is a slot.
LEMMA InsertsAreSlots ==
    ASSUME TypeOK, NEW r \in Requests, RequestSound(r), phase[r] \in Open
    PROVE  Inserts(r) \subseteq Slots
<1>1. date[r] \in Dates
  BY RequestAssumption DEF RequestSound, Store!PastDates, TypeOK, Store!StoreTypeOK
<1>. QED  BY <1>1 DEF Inserts, Slots, Store!Slots, TypeOK

LEMMA UpcomingTyped ==
    ASSUME NEW left \in SUBSET Slots
    PROVE  Upcoming(left) \subseteq Slots \cup {NoRow}
  BY DEF Upcoming

LEMMA NextInsertsTyped ==
    ASSUME TypeOK, NEW r \in Requests, RequestSound(r), phase[r] \in Open, NEW done
    PROVE  NextInserts(r, done) \subseteq Slots \cup {NoRow}
<1> DEFINE left == Inserts(r) \ done
           begun == {k \in left : \E j \in done : j[3] = k[3]}
<1>1. left \in SUBSET Slots /\ begun \in SUBSET Slots
  BY InsertsAreSlots
<1>2. NextInserts(r, done) = Upcoming(IF begun = {} THEN left ELSE begun)
  BY DEF NextInserts
<1> HIDE DEF left, begun
<1>. QED  BY <1>1, <1>2, UpcomingTyped

\* A step of one request that touches no row, keeps nothing that another keeps
\* and inserts only what is admissible.
LEMMA RequestStep ==
    ASSUME IInv, NEW r \in Requests,
           UNCHANGED <<now, status, plans, origin>>,
           TypeOK', RequestSound(r)',
           \A k \in inserted'[r] : Admissible(r, k)',
           Held(r)' \cap HeldByOthers(r) = {},
           \A x \in Requests \ {r} : /\ phase'[x] = phase[x] /\ bats'[x] = bats[x]
                                     /\ date'[x] = date[x] /\ row'[x] = row[x]
                                     /\ deleted'[x] = deleted[x]
                                     /\ inserted'[x] = inserted[x]
    PROVE  IInv'
<1>1. RowsHaveOrigin' /\ OneRequestPerDay'
  BY DEF IInv, RowsHaveOrigin, OneRequestPerDay
<1>2. RequestsSound'
  BY DEF IInv, RequestsSound, RequestSound, Store!PastDates
<1>3. \A x \in Requests \ {r} : Held(x)' = Held(x)
  BY DEF Held
<1>4. StaysAdmissible'
  <2> SUFFICES ASSUME NEW x \in Requests, NEW k \in inserted'[x] PROVE Admissible(x, k)'
    BY DEF StaysAdmissible
  <2>1. CASE x = r
    BY <2>1
  <2>2. CASE x # r
    BY <2>2 DEF IInv, StaysAdmissible, Admissible, Store!Live
  <2>. QED  BY <2>1, <2>2
<1>5. \A x \in Requests \ {r} : Held(r)' \cap Held(x) = {}
  BY DEF HeldByOthers
<1>6. Apart'
  BY <1>3, <1>5 DEF IInv, Apart
<1>. QED  BY <1>1, <1>2, <1>4, <1>6 DEF IInv

\* A request that keeps what it has kept keeps nothing of the others.
LEMMA KeepsApart ==
    ASSUME IInv, NEW r \in Requests
    PROVE  /\ Held(r) \cap HeldByOthers(r) = {}
           /\ \A k \in inserted[r] : Admissible(r, k)
  BY DEF IInv, Apart, HeldByOthers, StaysAdmissible

LEMMA BeginInv ==
    ASSUME IInv, NEW r \in Requests, NEW site \in Sites, NEW s \in Schedules, Begin(r, site, s)
    PROVE  IInv'
<1> DEFINE active == {b \in Batteries : SiteOf[b] = site /\ status[b] = "active"}
           divided == [q \in QHs |-> Share(s[q], Cardinality(active))]
<1>0. TypeOK /\ active \in SUBSET Batteries
  BY DEF IInv
<1>1. /\ phase[r] = "new" /\ active # {}
      /\ phase' = [phase EXCEPT ![r] = "began"]
      /\ bats' = [bats EXCEPT ![r] = active]
      /\ date' = [date EXCEPT ![r] = Store!Today]
      /\ row' = [row EXCEPT ![r] = divided]
      /\ UNCHANGED <<now, status, plans, origin, victims, deleted, inserted, want>>
  BY DEF Begin, lockVars
<1>2. divided \in DividedRows
  BY <1>0, <1>1, DividedRow
<1>3. Store!Today \in Dates /\ Store!Today \in Store!PastDates
  BY <1>0, RequestAssumption DEF TypeOK, Store!StoreTypeOK, Store!Today, Store!PastDates
<1> HIDE DEF active, divided
<1>4. TypeOK'
  BY <1>0, <1>1, <1>2, <1>3 DEF TypeOK, Store!StoreTypeOK, Phases, Open, Slots
<1>5. RequestSound(r)'
  BY <1>0, <1>1, <1>2, <1>3 DEF TypeOK, RequestSound, Store!PastDates
<1>6. Held(r)' = Held(r) /\ \A k \in inserted[r] : Admissible(r, k)'
  BY <1>1, KeepsApart DEF Held, Admissible, Store!Live
<1>. QED  BY <1>0, <1>1, <1>4, <1>5, <1>6, KeepsApart, RequestStep DEF TypeOK

LEMMA WipeInv ==
    ASSUME IInv, NEW r \in Requests, WipeStart(r) \/ WipeEnd(r)
    PROVE  IInv'
<1>0. TypeOK /\ RequestSound(r)
  BY DEF IInv, RequestsSound
<1>1. CASE WipeStart(r)
  <2> DEFINE seen == {k \in Inserts(r) : plans[k] # NoRow}
             rows == {<<k, origin[k]>> : k \in seen}
  <2>1. seen \in SUBSET Slots
    BY <1>0, <1>1, InsertsAreSlots DEF WipeStart, Open
  <2>2. rows \in SUBSET (Slots \X (Requests \cup {Manual}))
    BY <1>0, <2>1 DEF IInv, RowsHaveOrigin, TypeOK
  <2>3. PICK n \in Upcoming(seen) : want' = [want EXCEPT ![r] = n]
    BY <1>1 DEF WipeStart
  <2>4. n \in Slots \cup {NoRow}
    BY <2>1, UpcomingTyped
  <2>5. /\ phase[r] = "began" /\ phase' = [phase EXCEPT ![r] = "wiping"]
        /\ victims' = [victims EXCEPT ![r] = rows]
        /\ UNCHANGED <<now, status, plans, origin, bats, date, row, deleted, inserted>>
    BY <1>1 DEF WipeStart
  <2> HIDE DEF seen, rows
  <2>6. TypeOK'
    BY <1>0, <2>2, <2>3, <2>4, <2>5 DEF TypeOK, Store!StoreTypeOK, Phases, Open
  <2>7. RequestSound(r)'
    BY <1>0, <2>5 DEF TypeOK, RequestSound, Store!PastDates, Open
  <2>8. Held(r)' = Held(r) /\ \A k \in inserted[r] : Admissible(r, k)'
    BY <2>5, KeepsApart DEF Held, Admissible, Store!Live
  <2>. QED  BY <1>0, <2>5, <2>6, <2>7, <2>8, KeepsApart, RequestStep DEF TypeOK
<1>2. CASE WipeEnd(r)
  <2>1. PICK n \in NextInserts(r, {}) : want' = [want EXCEPT ![r] = n]
    BY <1>2 DEF WipeEnd
  <2>2. n \in Slots \cup {NoRow}
    BY <1>0, <1>2, NextInsertsTyped DEF WipeEnd, Open
  <2>3. /\ phase[r] = "wiping" /\ phase' = [phase EXCEPT ![r] = "inserting"]
        /\ UNCHANGED <<now, status, plans, origin, bats, date, row, victims, deleted, inserted>>
    BY <1>2 DEF WipeEnd
  <2>4. TypeOK'
    BY <1>0, <2>1, <2>2, <2>3 DEF TypeOK, Store!StoreTypeOK, Phases, Open
  <2>5. RequestSound(r)'
    BY <1>0, <2>3 DEF TypeOK, RequestSound, Store!PastDates, Open
  <2>6. Held(r)' = Held(r) /\ \A k \in inserted[r] : Admissible(r, k)'
    BY <2>3, KeepsApart DEF Held, Admissible, Store!Live
  <2>. QED  BY <1>0, <2>3, <2>4, <2>5, <2>6, KeepsApart, RequestStep DEF TypeOK
<1>. QED  BY <1>1, <1>2

\* The DELETE takes a row nobody else keeps; what was admissible stays so.
LEMMA WipeRowInv ==
    ASSUME IInv, NEW r \in Requests, NEW k \in Slots, WipeRow(r, k)
    PROVE  IInv'
<1> DEFINE left == {v \in victims[r] : v[1] # k}
           gone == IF <<k, origin[k]>> \in victims[r] THEN deleted[r] \cup {k} ELSE deleted[r]
<1>0. TypeOK /\ RequestSound(r)
  BY DEF IInv, RequestsSound
<1>1. PICK n \in Upcoming({v[1] : v \in left}) : want' = [want EXCEPT ![r] = n]
  BY DEF WipeRow
<1>2. left \in SUBSET (Slots \X (Requests \cup {Manual})) /\ {v[1] : v \in left} \in SUBSET Slots
  BY <1>0 DEF TypeOK
<1>3. n \in Slots \cup {NoRow}
  BY <1>1, <1>2, UpcomingTyped
<1>4. /\ phase[r] = "wiping" /\ k \notin HeldByOthers(r)
      /\ victims' = [victims EXCEPT ![r] = left]
      /\ deleted' = [deleted EXCEPT ![r] = gone]
      /\ UNCHANGED <<now, status, plans, origin, phase, bats, date, row, inserted>>
  BY DEF WipeRow
<1>5. gone \in SUBSET Slots /\ deleted[r] \subseteq gone /\ gone \subseteq deleted[r] \cup {k}
  BY <1>0 DEF TypeOK
<1> HIDE DEF left, gone
<1>6. TypeOK'
  BY <1>0, <1>1, <1>2, <1>3, <1>4, <1>5 DEF TypeOK, Store!StoreTypeOK
<1>7. RequestSound(r)'
  BY <1>0, <1>4 DEF RequestSound, Store!PastDates
<1>8. deleted'[r] = gone
  BY <1>0, <1>4 DEF TypeOK
<1>9. \A i \in inserted[r] : Admissible(r, i)'
  BY <1>4, <1>5, <1>8, KeepsApart DEF Admissible, Store!Live
<1>10. Held(r)' \cap HeldByOthers(r) = {}
  BY <1>4, <1>5, <1>8, KeepsApart DEF Held
<1>. QED  BY <1>0, <1>4, <1>6, <1>7, <1>9, <1>10, RequestStep DEF TypeOK

LEMMA EndInv ==
    ASSUME IInv, NEW r \in Requests, NEW how \in Ended, End(r, how),
           UNCHANGED <<now, status, plans, origin>>
    PROVE  IInv'
<1>0. TypeOK
  BY DEF IInv
<1>1. TypeOK'
  BY <1>0 DEF End, TypeOK, Store!StoreTypeOK, Phases
<1>2. RequestSound(r)'
  BY <1>0 DEF End, TypeOK, RequestSound, Open, Ended
<1>3. Held(r)' = {} /\ inserted'[r] = {}
  BY <1>0 DEF End, TypeOK, Held
<1>. QED  BY <1>0, <1>1, <1>2, <1>3, RequestStep DEF End, TypeOK

\* A row is inserted next to those of other requests only where it waited for none.
LEMMA InsertRowInv ==
    ASSUME IInv, NEW r \in Requests, NEW k \in Slots, InsertRow(r, k)
    PROVE  IInv'
<1>0. TypeOK /\ RequestSound(r)
  BY DEF IInv, RequestsSound
<1>1. CASE ~Admissible(r, k)
  BY <1>1, EndInv DEF InsertRow, Ended
<1>2. CASE Admissible(r, k)
  <2>1. PICK n \in NextInserts(r, inserted[r] \cup {k}) : want' = [want EXCEPT ![r] = n]
    BY <1>2 DEF InsertRow
  <2>2. n \in Slots \cup {NoRow}
    BY <1>0, NextInsertsTyped DEF InsertRow, Open
  <2>3. /\ phase[r] = "inserting" /\ k \notin HeldByOthers(r)
        /\ inserted' = [inserted EXCEPT ![r] = inserted[r] \cup {k}]
        /\ UNCHANGED <<now, status, plans, origin, phase, bats, date, row, victims, deleted>>
    BY <1>2 DEF InsertRow
  <2>4. TypeOK'
    BY <1>0, <2>1, <2>2, <2>3 DEF TypeOK, Store!StoreTypeOK
  <2>5. RequestSound(r)'
    BY <1>0, <2>3 DEF RequestSound, Store!PastDates
  <2>6. inserted'[r] = inserted[r] \cup {k}
    BY <1>0, <2>3 DEF TypeOK
  <2>7. \A i \in inserted'[r] : Admissible(r, i)'
    BY <1>2, <2>3, <2>6, KeepsApart DEF Admissible, Store!Live
  <2>8. Held(r)' \cap HeldByOthers(r) = {}
    BY <2>3, <2>6, KeepsApart DEF Held
  <2>. QED  BY <1>0, <2>3, <2>4, <2>5, <2>7, <2>8, RequestStep DEF TypeOK
<1>. QED  BY <1>1, <1>2

\* A slot belongs to what a request inserts together with its whole day.
LEMMA InsertsWholeDays ==
    ASSUME TypeOK, NEW r \in Requests, NEW k \in Slots, NEW q \in QHs
    PROVE  /\ <<k[1], k[2], q>> \in Slots
           /\ k \in Inserts(r) <=> k[1] \in bats[r] /\ k[2] = date[r]
           /\ <<k[1], k[2], q>> \in Inserts(r) <=> k \in Inserts(r)
  BY DEF TypeOK, Inserts, Slots, Store!Slots

\* The commit touches only slots that no other request keeps.
LEMMA CommitInv ==
    ASSUME IInv, NEW r \in Requests, Commit(r)
    PROVE  IInv'
<1>0. TypeOK /\ RequestSound(r)
  BY DEF IInv, RequestsSound
<1>1. /\ phase[r] = "inserting" /\ inserted[r] = Inserts(r)
      /\ phase' = [phase EXCEPT ![r] = "committed"]
      /\ bats' = [bats EXCEPT ![r] = {}]
      /\ date' = [date EXCEPT ![r] = NoRow]
      /\ row' = [row EXCEPT ![r] = NoRow]
      /\ victims' = [victims EXCEPT ![r] = {}]
      /\ deleted' = [deleted EXCEPT ![r] = {}]
      /\ inserted' = [inserted EXCEPT ![r] = {}]
      /\ want' = [want EXCEPT ![r] = NoRow]
      /\ plans' = [k \in Slots |-> IF k \in Inserts(r) THEN row[r][k[3]] ELSE plans[k]]
      /\ origin' = [k \in Slots |-> IF k \in Inserts(r) THEN r ELSE origin[k]]
      /\ UNCHANGED <<now, status>>
  BY DEF Commit, End
<1>2. \A x \in Requests \ {r} : /\ phase'[x] = phase[x] /\ bats'[x] = bats[x]
                                /\ date'[x] = date[x] /\ row'[x] = row[x]
                                /\ deleted'[x] = deleted[x] /\ inserted'[x] = inserted[x]
  BY <1>0, <1>1 DEF TypeOK
<1>3. phase'[r] = "committed" /\ deleted'[r] = {} /\ inserted'[r] = {}
  BY <1>0, <1>1 DEF TypeOK
<1>4. row[r] \in DividedRows
  BY <1>0, <1>1 DEF RequestSound, Open
<1>5. \A k \in Inserts(r) : /\ row[r][k[3]] \in Int
                            /\ row[r][k[3]] \in UNION {{x[q] : q \in QHs} : x \in DividedRows}
  BY <1>4, DividedPowers DEF Inserts
<1>6. TypeOK'
  <2> DEFINE Divided == UNION {{x[q] : q \in QHs} : x \in DividedRows}
  <2>0. /\ plans \in [Slots -> ManualPowers \cup Divided \cup {NoRow}]
        /\ now \in 0..Horizon /\ status \in [Batteries -> Store!Statuses]
        /\ \A k \in Inserts(r) : row[r][k[3]] \in Divided
    BY <1>0, <1>5 DEF TypeOK, Store!StoreTypeOK, Slots
  <2> HIDE DEF Divided
  <2>1. plans' \in [Slots -> ManualPowers \cup Divided \cup {NoRow}]
    BY <1>1, <2>0
  <2>2. origin' \in [Slots -> Requests \cup {Manual, NoRow}]
    BY <1>0, <1>1 DEF TypeOK
  <2>3. Store!StoreTypeOK'
    BY <1>1, <2>0, <2>1 DEF Divided, Store!StoreTypeOK, Slots
  <2>. QED  BY <1>0, <1>1, <2>2, <2>3 DEF TypeOK, Phases, Open, Ended
<1>7. RowsHaveOrigin'
  BY <1>1, <1>5, RequestAssumption DEF IInv, RowsHaveOrigin
<1>8. OneRequestPerDay'
  BY <1>0, <1>1, InsertsWholeDays DEF IInv, OneRequestPerDay
<1>9. RequestsSound'
  BY <1>1, <1>2, <1>3 DEF IInv, RequestsSound, RequestSound, Open, Store!PastDates
<1>10. StaysAdmissible'
  <2> SUFFICES ASSUME NEW x \in Requests, NEW k \in inserted'[x] PROVE Admissible(x, k)'
    BY DEF StaysAdmissible
  <2>1. x # r /\ k \in inserted[x] /\ k \in Slots
    BY <1>0, <1>2, <1>3 DEF TypeOK
  <2>2. Admissible(x, k) /\ k \notin Inserts(r)
    BY <1>1, <2>1 DEF IInv, StaysAdmissible, Apart, Held
  <2>3. plans'[k] = plans[k]
    BY <1>1, <2>1, <2>2
  <2>. QED  BY <1>1, <1>2, <2>1, <2>2, <2>3 DEF Admissible, Store!Live
<1>11. \A x \in Requests : Held(x)' = IF x = r THEN {} ELSE Held(x)
  BY <1>2, <1>3 DEF Held
<1>12. Apart'
  BY <1>11 DEF IInv, Apart
<1>. QED  BY <1>6, <1>7, <1>8, <1>9, <1>10, <1>12 DEF IInv

\* A row created by hand goes to a free slot, so its day is no request's.
LEMMA CreatePlanInv ==
    ASSUME IInv, NEW s \in ManualSlots, NEW p \in ManualPowers, CreatePlan(s, p)
    PROVE  IInv'
<1>0. TypeOK /\ s \in Slots
  BY RequestAssumption DEF IInv, Slots, Store!Slots
<1>1. /\ s \notin HeldByAny /\ plans[s] = NoRow
      /\ plans' = [plans EXCEPT ![s] = p] /\ origin' = [origin EXCEPT ![s] = Manual]
      /\ UNCHANGED <<now, status, phase, bats, date, row, victims, deleted, inserted, want>>
  <2>1. <<s[1], s[2], s[3]>> = s
    BY <1>0 DEF Slots, Store!Slots
  <2>. QED  BY <2>1 DEF CreatePlan, Store!CreatePlan, txnVars, lockVars
<1>2. origin[s] = NoRow
  BY <1>0, <1>1 DEF IInv, RowsHaveOrigin
<1>3. \A k \in Slots : /\ plans'[k] = IF k = s THEN p ELSE plans[k]
                       /\ origin'[k] = IF k = s THEN Manual ELSE origin[k]
  BY <1>0, <1>1 DEF TypeOK, Store!StoreTypeOK, Slots
<1>4. TypeOK'
  BY <1>0, <1>1 DEF TypeOK, Store!StoreTypeOK, Slots
<1>5. RowsHaveOrigin'
  BY <1>3, RequestAssumption DEF IInv, RowsHaveOrigin
<1>6. OneRequestPerDay'
  <2> SUFFICES ASSUME NEW k \in Slots, NEW i \in QHs, origin'[k] \in Requests
               PROVE  origin'[<<k[1], k[2], i>>] = origin'[k]
    BY DEF OneRequestPerDay
  <2>1. k # s /\ origin'[k] = origin[k]
    BY <1>3, RequestAssumption
  <2>2. origin[<<k[1], k[2], i>>] = origin[k] /\ <<k[1], k[2], i>> \in Slots
    BY <2>1 DEF IInv, OneRequestPerDay, Slots, Store!Slots
  <2>3. <<k[1], k[2], i>> # s
    BY <1>2, <2>1, <2>2, RequestAssumption
  <2>. QED  BY <1>3, <2>1, <2>2, <2>3
<1>7. RequestsSound'
  BY <1>1 DEF IInv, RequestsSound, RequestSound, Store!PastDates
<1>8. StaysAdmissible'
  <2> SUFFICES ASSUME NEW x \in Requests, NEW k \in inserted[x] PROVE Admissible(x, k)'
    BY <1>1 DEF StaysAdmissible
  <2>1. k # s /\ k \in Slots /\ Admissible(x, k)
    BY <1>0, <1>1 DEF HeldByAny, Held, TypeOK, IInv, StaysAdmissible
  <2>. QED  BY <1>1, <1>3, <2>1 DEF Admissible, Store!Live
<1>9. Apart'
  BY <1>1 DEF IInv, Apart, Held
<1>. QED  BY <1>4, <1>5, <1>6, <1>7, <1>8, <1>9 DEF IInv

\* A battery is not deleted while a request has inserted rows for it.
LEMMA DeleteBatteryInv ==
    ASSUME IInv, NEW b \in Batteries, DeleteBattery(b)
    PROVE  IInv'
<1>0. TypeOK
  BY DEF IInv
<1>1. /\ \A k \in HeldByAny : k[1] # b
      /\ status' = [status EXCEPT ![b] = "deleted"]
      /\ plans' = [k \in Slots |-> IF k[1] = b THEN NoRow ELSE plans[k]]
      /\ origin' = [k \in Slots |-> IF k[1] = b THEN NoRow ELSE origin[k]]
      /\ UNCHANGED <<now, phase, bats, date, row, victims, deleted, inserted, want>>
  BY DEF DeleteBattery, Store!DeleteRow, txnVars, lockVars, Slots
<1>2. TypeOK'
  BY <1>0, <1>1 DEF TypeOK, Store!StoreTypeOK, Slots, Store!Statuses
<1>3. RowsHaveOrigin'
  BY <1>1 DEF IInv, RowsHaveOrigin
<1>4. OneRequestPerDay'
  <2> SUFFICES ASSUME NEW k \in Slots, NEW i \in QHs, origin'[k] \in Requests
               PROVE  origin'[<<k[1], k[2], i>>] = origin'[k]
    BY DEF OneRequestPerDay
  <2>1. <<k[1], k[2], i>> \in Slots
    BY DEF Slots, Store!Slots
  <2>2. k[1] # b /\ origin'[k] = origin[k]
    BY <1>1, RequestAssumption
  <2>3. origin[<<k[1], k[2], i>>] = origin[k]
    BY <2>2 DEF IInv, OneRequestPerDay
  <2>. QED  BY <1>1, <2>1, <2>2, <2>3
<1>5. RequestsSound'
  BY <1>1 DEF IInv, RequestsSound, RequestSound, Store!PastDates
<1>6. StaysAdmissible'
  <2> SUFFICES ASSUME NEW x \in Requests, NEW k \in inserted[x] PROVE Admissible(x, k)'
    BY <1>1 DEF StaysAdmissible
  <2>1. k[1] # b /\ k \in Slots /\ k[1] \in Batteries /\ Admissible(x, k)
    BY <1>0, <1>1 DEF HeldByAny, Held, TypeOK, IInv, StaysAdmissible, Slots, Store!Slots
  <2>2. plans'[k] = plans[k]
    BY <1>1, <2>1
  <2>3. status'[k[1]] = status[k[1]]
    BY <1>0, <1>1, <2>1 DEF TypeOK, Store!StoreTypeOK
  <2>. QED  BY <1>1, <2>1, <2>2, <2>3 DEF Admissible, Store!Live
<1>7. Apart'
  BY <1>1 DEF IInv, Apart, Held
<1>. QED  BY <1>2, <1>3, <1>4, <1>5, <1>6, <1>7 DEF IInv

\* The clock, new batteries and their activation disturb no request.
LEMMA ElsewhereInv ==
    ASSUME IInv, Elsewhere
    PROVE  IInv'
<1>0. TypeOK /\ UNCHANGED <<plans, origin, phase, bats, date, row, victims, deleted, inserted, want>>
  BY DEF IInv, Elsewhere, txnVars, lockVars, Store!AdvanceClock, Store!CreateRow, Store!SetActive
<1>1. /\ now' \in 0..Horizon /\ now <= now'
      /\ status' \in [Batteries -> Store!Statuses]
      /\ \A b \in Batteries : Store!Live(b) => Store!Live(b)'
  <2>1. now \in 0..Horizon /\ status \in [Batteries -> Store!Statuses]
    BY <1>0 DEF TypeOK, Store!StoreTypeOK
  <2>2. CASE Store!AdvanceClock
    BY <2>1, <2>2, RequestAssumption DEF Store!AdvanceClock, Store!Live
  <2>3. CASE \E b \in Batteries : Store!CreateRow(b)
    BY <2>1, <2>3 DEF Store!CreateRow, Store!Live, Store!Statuses
  <2>4. CASE \E bs \in SUBSET Batteries, flag \in BOOLEAN : Store!SetActive(bs, flag)
    BY <2>1, <2>4 DEF Store!SetActive, Store!Live, Store!Statuses
  <2>. QED  BY <2>2, <2>3, <2>4 DEF Elsewhere
<1>2. TypeOK'
  BY <1>0, <1>1 DEF TypeOK, Store!StoreTypeOK
<1>3. RowsHaveOrigin' /\ OneRequestPerDay'
  BY <1>0 DEF IInv, RowsHaveOrigin, OneRequestPerDay
<1>4. Store!PastDates \subseteq Store!PastDates'
  BY <1>0, <1>1 DEF Store!PastDates, TypeOK, Store!StoreTypeOK
<1>5. RequestsSound'
  BY <1>0, <1>4 DEF IInv, RequestsSound, RequestSound
<1>6. StaysAdmissible'
  <2> SUFFICES ASSUME NEW x \in Requests, NEW k \in inserted[x] PROVE Admissible(x, k)'
    BY <1>0 DEF StaysAdmissible
  <2>1. k[1] \in Batteries /\ Admissible(x, k)
    BY <1>0 DEF TypeOK, Slots, Store!Slots, IInv, StaysAdmissible
  <2>. QED  BY <1>0, <1>1, <2>1 DEF Admissible
<1>7. Apart'
  BY <1>0 DEF IInv, Apart, Held
<1>. QED  BY <1>2, <1>3, <1>5, <1>6, <1>7 DEF IInv

LEMMA NextIInv == IInv /\ [Next]_vars => IInv'
<1> SUFFICES ASSUME IInv, [Next]_vars PROVE IInv'
  OBVIOUS
<1>1. CASE \E r \in Requests, site \in Sites, s \in Schedules : Begin(r, site, s)
  BY <1>1, BeginInv
<1>2. ASSUME NEW r \in Requests, Work(r) PROVE IInv'
  <2>1. CASE WipeStart(r) \/ WipeEnd(r)
    BY <2>1, WipeInv
  <2>2. CASE \E k \in Slots : WipeRow(r, k) \/ InsertRow(r, k)
    BY <2>2, WipeRowInv, InsertRowInv
  <2>3. CASE Commit(r)
    BY <2>3, CommitInv
  <2>4. CASE BreakRing(r)
    BY <2>4, EndInv DEF BreakRing, Ended
  <2>. QED  BY <1>2, <2>1, <2>2, <2>3, <2>4 DEF Work
<1>3. ASSUME NEW r \in Requests, Abort(r) PROVE IInv'
  BY <1>3, EndInv DEF Abort, Ended
<1>4. CASE \E k \in ManualSlots, p \in ManualPowers : CreatePlan(k, p)
  BY <1>4, CreatePlanInv
<1>5. CASE \E b \in Batteries : DeleteBattery(b)
  BY <1>5, DeleteBatteryInv
<1>6. CASE Elsewhere
  BY <1>6, ElsewhereInv
<1>7. CASE UNCHANGED vars
  <2>1. UNCHANGED <<now, status, plans, origin, phase, bats, date, row, victims, deleted, inserted, want>>
    BY <1>7 DEF vars, txnVars, lockVars
  <2>. QED  BY <2>1 DEF IInv, TypeOK, Store!StoreTypeOK, RowsHaveOrigin, OneRequestPerDay,
            RequestsSound, RequestSound, Store!PastDates, StaysAdmissible, Admissible, Store!Live,
            Apart, Held
<1>. QED  BY <1>1, <1>2, <1>3, <1>4, <1>5, <1>6, <1>7 DEF Next

LEMMA Invariance == Spec => []IInv
  BY InitIInv, NextIInv, PTL DEF Spec

-----------------------------------------------------------------------------
\* Every variable of the plan table and of the open transactions of POST
\* /dispatch/apply keeps its type; a divided power is one a schedule can give.
THEOREM TypeCorrect == Spec => []TypeOK
<1>1. IInv => TypeOK
  BY DEF IInv
<1>. QED  BY <1>1, Invariance, PTL

\* However many requests race each other, rows created by hand and deletions: a
\* day of a battery holds the rows of one request, or none of any.
THEOREM NoDayOfTwoRequests == Spec => []OneRequestPerDay
<1>1. IInv => OneRequestPerDay
  BY DEF IInv
<1>. QED  BY <1>1, Invariance, PTL

\* What each row of apply_dispatch_plan() was checked for stays true until get_db()
\* commits, while the request still inserts others and waits for them: its
\* battery exists and its slot is free or freed by the request, so a commit
\* replaces no row the request has not deleted.
THEOREM CommitsWhatItChecked == Spec => []StaysAdmissible
<1>1. IInv => StaysAdmissible
  BY DEF IInv
<1>. QED  BY <1>1, Invariance, PTL

-----------------------------------------------------------------------------
LEMMA InitRefines == Init => Store!StoreInit
  BY DEF Init

LEMMA CommitReplacesDay ==
    ASSUME IInv, NEW r \in Requests, Commit(r)
    PROVE  Store!StoreNext
<1>0. TypeOK /\ RequestSound(r) /\ phase[r] = "inserting" /\ inserted[r] = Inserts(r)
  BY DEF IInv, RequestsSound, Commit
<1>1. bats[r] \in SUBSET Batteries /\ bats[r] # {} /\ date[r] \in Store!PastDates /\ row[r] \in DividedRows
  BY <1>0 DEF RequestSound, Open, TypeOK
<1>2. ASSUME NEW b \in bats[r] PROVE Store!Live(b)
  <2>1. PICK q \in QHs : TRUE
    BY RequestAssumption, <1>0 DEF TypeOK, Store!StoreTypeOK
  <2>2. <<b, date[r], q>> \in inserted[r]
    BY <1>0 DEF Inserts
  <2>3. Admissible(r, <<b, date[r], q>>)
    BY <2>2 DEF IInv, StaysAdmissible
  <2>. QED  BY <2>3 DEF Admissible
<1>3. \A k \in Slots : k \in Inserts(r) <=> k[1] \in bats[r] /\ k[2] = date[r]
  BY <1>0 DEF Inserts, Slots, Store!Slots
<1>4. plans' = [k \in Slots |-> IF k[1] \in bats[r] /\ k[2] = date[r] THEN row[r][k[3]] ELSE plans[k]]
  BY <1>3 DEF Commit
<1>5. Store!ReplaceDay(bats[r], date[r], row[r])
  BY <1>1, <1>2, <1>4 DEF Commit, Store!ReplaceDay, Slots
<1>. QED  BY <1>1, <1>5 DEF Store!StoreNext

LEMMA NextRefines ==
    ASSUME IInv, [Next]_vars
    PROVE  [Store!StoreNext]_(Store!storeVars)
<1> USE DEF Store!storeVars
<1>1. CASE \E r \in Requests, site \in Sites, s \in Schedules : Begin(r, site, s)
  BY <1>1 DEF Begin
<1>2. ASSUME NEW r \in Requests, Work(r) PROVE [Store!StoreNext]_(Store!storeVars)
  BY <1>2, CommitReplacesDay DEF Work, WipeStart, WipeEnd, WipeRow, InsertRow, BreakRing
<1>3. CASE \E r \in Requests : Abort(r)
  BY <1>3 DEF Abort
<1>4. CASE \E k \in ManualSlots, p \in ManualPowers : CreatePlan(k, p)
  BY <1>4, RequestAssumption DEF CreatePlan, Store!StoreNext
<1>5. CASE \E b \in Batteries : DeleteBattery(b)
  BY <1>5 DEF DeleteBattery, Store!StoreNext
<1>6. CASE Elsewhere
  BY <1>6 DEF Elsewhere, Store!StoreNext
<1>7. CASE UNCHANGED vars
  BY <1>7 DEF vars
<1>. QED  BY <1>1, <1>2, <1>3, <1>4, <1>5, <1>6, <1>7 DEF Next

\* The transactions of the routes implement the atomic plan table: a request takes
\* effect at its commit, as one ReplaceDay on batteries that exist, or not at all.
THEOREM RequestsImplementStore == Spec => ImplementsStore
<1>1. IInv /\ IInv' /\ [Next]_vars => [Store!StoreNext]_(Store!storeVars)
  BY NextRefines
<1>2. Spec => Store!StoreSpec
  BY <1>1, Invariance, InitRefines, PTL DEF Spec, Store!StoreSpec
<1>. QED  BY <1>2 DEF ImplementsStore
=============================================================================
