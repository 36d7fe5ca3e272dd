----------------------- MODULE DispatchApplierProofs -----------------------
(***************************************************************************)
(* The dispatch appliers keep their ledgers for any number of processes    *)
(* and any fleet, calendar and set of schedules.  The argument is one      *)
(* inductive invariant, IInv: the types and, for each worker, the two      *)
(* safety invariants the runs check, strengthened by what its control      *)
(* state says of the row in hand and by the fact that the slot of its      *)
(* current cycle has been shown by the clock.                              *)
(***************************************************************************)
EXTENDS DispatchApplier, TLAPS

Sending == {"mode", "command", "ok", "error"}

\* What the control state of a worker says of its row, its tick and its markers.
RowTyped(w) == pc[w] \in Sending => cur[w] \in Rows

TickShown(w) == \E t \in 0..now : Calendar[t] = tick[w]

MarkersOfTick(w) == \A m \in applied[w] : m[2] = tick[w][1]

RowIsNew(w) ==
    pc[w] \in {"mode", "command", "ok"} =>
        /\ Marker(w, cur[w]) \notin applied[w]
        /\ pc[w] = "ok" => lastPush[w][cur[w][1]] = <<tick[w][1], tick[w][2], cur[w][2]>>

Sound(w) == RowTyped(w) /\ TickShown(w) /\ MarkersOfTick(w) /\ RowIsNew(w)

IInv == TypeOK /\ \A w \in Workers : Sound(w)

-----------------------------------------------------------------------------
\* The operations of the plan store keep the store well typed.
LEMMA StoreStepTyped ==
    ASSUME StoreTypeOK, StoreNext
    PROVE  StoreTypeOK'
<1> USE StoreAssumption DEF StoreTypeOK, Slots, Statuses
<1>1. ASSUME AdvanceClock PROVE StoreTypeOK'
  BY <1>1 DEF AdvanceClock
<1>2. ASSUME NEW b \in Batteries, CreateRow(b) PROVE StoreTypeOK'
  BY <1>2 DEF CreateRow
<1>3. ASSUME NEW b \in Batteries, DeleteRow(b) PROVE StoreTypeOK'
  BY <1>3 DEF DeleteRow
<1>4. ASSUME NEW bs \in SUBSET Batteries, NEW flag \in BOOLEAN, SetActive(bs, flag)
      PROVE  StoreTypeOK'
  BY <1>4 DEF SetActive
<1>5. ASSUME NEW b \in Batteries, NEW d \in Dates, NEW q \in QHs, NEW p \in RowPowers,
             CreatePlan(b, d, q, p)
      PROVE  StoreTypeOK'
  BY <1>5 DEF CreatePlan
<1>6. ASSUME NEW bs \in SUBSET Batteries, NEW d \in PastDates, NEW row \in DayRows,
             ReplaceDay(bs, d, row)
      PROVE  StoreTypeOK'
  <2>1. \A q \in QHs : row[q] \in Powers
    OBVIOUS
  <2>2. \A k \in Slots : k[3] \in QHs
    OBVIOUS
  <2>. QED  BY <1>6, <2>1, <2>2 DEF ReplaceDay
<1>. QED  BY <1>1, <1>2, <1>3, <1>4, <1>5, <1>6 DEF StoreNext

\* A planning step is a step of the plan store that leaves the clock alone or
\* moves it on.
LEMMA PlanningIsStoreStep ==
    ASSUME StoreTypeOK, Planning
    PROVE  /\ StoreTypeOK'
           /\ now' \in {now, now + 1}
           /\ UNCHANGED <<plantVars, workerVars>>
<1>1. StoreNext
  BY DEF Planning, StoreNext
<1>2. now' \in {now, now + 1}
  BY DEF Planning, AdvanceClock, SetActive, CreatePlan, ReplaceDay
<1>. QED  BY <1>1, <1>2, StoreStepTyped DEF Planning

-----------------------------------------------------------------------------
(***************************************************************************)
(* A worker writes only what is its own, besides the plants: the others    *)
(* stay sound because nothing that is said of them changes but the clock.  *)
(***************************************************************************)

Untouched(w) ==
    /\ pc'[w] = pc[w]
    /\ tick'[w] = tick[w]
    /\ cur'[w] = cur[w]
    /\ applied'[w] = applied[w]
    /\ lastPush'[w] = lastPush[w]

\* The steps of a worker.
Step(w) ==
    \/ Work(w)
    \/ Crash(w)
    \/ ReadFails(w)
    \/ \E b \in Batteries, answered \in BOOLEAN : Accept(w, b, answered)

\* What was shown by the clock stays shown.
LEMMA TickStaysShown ==
    ASSUME StoreTypeOK, NEW w \in Workers, TickShown(w), now' \in {now, now + 1},
           tick'[w] = tick[w]
    PROVE  TickShown(w)'
<1>1. now \in Nat /\ now' \in Nat /\ now <= now'
  BY StoreAssumption DEF StoreTypeOK
<1>2. PICK t \in 0..now : Calendar[t] = tick[w]
  BY DEF TickShown
<1>3. t \in 0..now'
  BY <1>1
<1>. QED  BY <1>2, <1>3 DEF TickShown

LEMMA UntouchedStaysSound ==
    ASSUME StoreTypeOK, NEW w \in Workers, Sound(w), Untouched(w), now' \in {now, now + 1}
    PROVE  Sound(w)'
<1>1. TickShown(w)'
  BY TickStaysShown DEF Sound, Untouched
<1>2. RowTyped(w)' /\ MarkersOfTick(w)'
  BY DEF Sound, Untouched, RowTyped, MarkersOfTick, Rows
<1>3. RowIsNew(w)'
  BY DEF Sound, Untouched, RowIsNew, Marker
<1>. QED  BY <1>1, <1>2, <1>3 DEF Sound

\* A step of one worker does not touch the others, nor the plan store.
LEMMA OthersUntouched ==
    ASSUME TypeOK, NEW v \in Workers, Step(v)
    PROVE  /\ UNCHANGED storeVars
           /\ \A w \in Workers \ {v} : Untouched(w)
<1> USE DEF TypeOK, Untouched
<1>1. CASE Start(v) \/ Crash(v) \/ BeginCycle(v) \/ ReadPlans(v) \/ ReadFails(v) \/ EndCycle(v)
           \/ Refuse(v) \/ RowDone(v)
  BY <1>1 DEF Start, Crash, BeginCycle, ReadPlans, ReadFails, EndCycle, Refuse, RowDone, plantVars
<1>2. ASSUME NEW r \in Rows, NextRow(v, r)
      PROVE  UNCHANGED storeVars /\ \A w \in Workers \ {v} : Untouched(w)
  BY <1>2 DEF NextRow, plantVars
<1>3. ASSUME NEW b \in Batteries, NEW works \in BOOLEAN, SetMode(v, b, works)
      PROVE  UNCHANGED storeVars /\ \A w \in Workers \ {v} : Untouched(w)
  BY <1>3 DEF SetMode
<1>4. ASSUME NEW b \in Batteries, NEW answered \in BOOLEAN, Accept(v, b, answered)
      PROVE  UNCHANGED storeVars /\ \A w \in Workers \ {v} : Untouched(w)
  BY <1>4 DEF Accept
<1>. QED  BY <1>1, <1>2, <1>3, <1>4 DEF Step, Work

\* The row a worker sends and its tick.
LEMMA SendingTyped ==
    ASSUME IInv, NEW v \in Workers, pc[v] \in Sending
    PROVE  /\ cur[v] \in Rows
           /\ cur[v][2] \in Powers
           /\ tick[v] \in Dates \X QHs
           /\ <<tick[v][1], tick[v][2], cur[v][2]>> \in Dates \X QHs \X Powers
<1>1. cur[v] \in Rows /\ tick[v] \in Dates \X QHs
  BY DEF IInv, Sound, RowTyped, TypeOK
<1>. QED  BY <1>1 DEF Rows

\* What Accept writes for its own worker and for the plant.
LEMMA AcceptWrites ==
    ASSUME IInv, NEW v \in Workers, NEW b \in Batteries, NEW answered \in BOOLEAN,
           Accept(v, b, answered)
    PROVE  /\ lastPush'[v][b] = <<tick[v][1], tick[v][2], cur[v][2]>>
           /\ \A x \in Batteries : x # b => lastPush'[v][x] = lastPush[v][x]
           /\ \A w \in Workers : w # v => lastPush'[w] = lastPush[w]
           /\ lastPush' \in [Workers -> [Batteries -> (Dates \X QHs \X Powers) \cup {NoPush}]]
<1> DEFINE push == <<tick[v][1], tick[v][2], cur[v][2]>>
           Pushes == [Batteries -> (Dates \X QHs \X Powers) \cup {NoPush}]
<1>3. push \in Dates \X QHs \X Powers
  BY SendingTyped DEF Accept, Sending
<1>4. lastPush' = [lastPush EXCEPT ![v] = [@ EXCEPT ![b] = push]]
  BY DEF Accept
<1>5. lastPush \in [Workers -> Pushes]
  BY DEF IInv, TypeOK
<1> HIDE DEF push
<1>6. lastPush'[v] = [lastPush[v] EXCEPT ![b] = push] /\ \A w \in Workers : w # v => lastPush'[w] = lastPush[w]
  BY <1>4, <1>5
<1>7. lastPush[v] \in Pushes
  BY <1>5
<1>8. [lastPush[v] EXCEPT ![b] = push] \in Pushes
  BY <1>3, <1>7
<1>9. lastPush' \in [Workers -> Pushes]
  BY <1>4, <1>5, <1>8
<1>10. lastPush'[v][b] = push /\ \A x \in Batteries : x # b => lastPush'[v][x] = lastPush[v][x]
  BY <1>6, <1>7
<1>. QED  BY <1>6, <1>9, <1>10 DEF push

\* The invariant holds before the processes start.
LEMMA InitIInv == Init => IInv
<1> SUFFICES ASSUME Init PROVE IInv
  OBVIOUS
<1> USE StoreAssumption, ApplierAssumption DEF Init, StoreInit
<1>1. StoreTypeOK
  BY DEF StoreTypeOK, Slots, Statuses
<1>2. TypeOK
  BY <1>1 DEF TypeOK, Steps, Commands, NoRowInHand, Rows, Slots
<1>3. ASSUME NEW w \in Workers PROVE Sound(w)
  <2>1. pc[w] = "down" /\ applied[w] = {} /\ tick[w] = Calendar[0] /\ 0 \in 0..now
    OBVIOUS
  <2>. QED  BY <2>1 DEF Sound, RowTyped, Sending, TickShown, MarkersOfTick, RowIsNew
<1>. QED  BY <1>2, <1>3 DEF IInv

\* Every step of a worker keeps what is said of that worker, and the types.
LEMMA StepSound ==
    ASSUME IInv, NEW v \in Workers, Step(v)
    PROVE  TypeOK' /\ Sound(v)'
<1> USE StoreAssumption, ApplierAssumption
<1>0. /\ TypeOK /\ StoreTypeOK
      /\ Sound(v) /\ RowTyped(v) /\ TickShown(v) /\ MarkersOfTick(v) /\ RowIsNew(v)
  BY DEF IInv, TypeOK, Sound
<1>a. UNCHANGED storeVars
  BY <1>0, OthersUntouched
<1>b. StoreTypeOK' /\ now' = now /\ now' \in {now, now + 1}
  BY <1>0, <1>a DEF storeVars, StoreTypeOK
<1>c. ASSUME tick'[v] = tick[v] PROVE TickShown(v)'
  BY <1>0, <1>b, <1>c, TickStaysShown
<1>1. CASE Start(v)
  <2>1. pc'[v] = "asleep" /\ tick'[v] = tick[v] /\ applied'[v] = applied[v]
    BY <1>0, <1>1 DEF Start, TypeOK
  <2>2. Sound(v)'
    BY <1>0, <1>c, <2>1 DEF Sound, RowTyped, MarkersOfTick, RowIsNew, Sending
  <2>. QED  BY <1>0, <1>1, <1>b, <2>2 DEF Start, TypeOK, Steps, plantVars
<1>2. CASE Crash(v)
  <2>1. pc'[v] = "down" /\ tick'[v] = tick[v] /\ applied'[v] = {}
    BY <1>0, <1>2 DEF Crash, TypeOK
  <2>2. Sound(v)'
    BY <1>c, <2>1 DEF Sound, RowTyped, MarkersOfTick, RowIsNew, Sending
  <2>. QED  BY <1>0, <1>2, <1>b, <2>2 DEF Crash, TypeOK, Steps, plantVars
<1>3. CASE BeginCycle(v)
  <2>1. /\ pc'[v] = "reading" /\ tick'[v] = Calendar[now]
        /\ applied'[v] = {m \in applied[v] : m[2] = Calendar[now][1]}
    BY <1>0, <1>3 DEF BeginCycle, TypeOK, Today
  <2>2. Calendar[now] \in Dates \X QHs /\ now \in 0..now
    BY <1>0 DEF StoreTypeOK
  <2>3. TickShown(v)'
    BY <1>b, <2>1, <2>2 DEF TickShown
  <2>4. Sound(v)'
    BY <2>1, <2>3 DEF Sound, RowTyped, MarkersOfTick, RowIsNew, Sending
  <2>. QED  BY <1>0, <1>3, <1>b, <2>1, <2>2, <2>4 DEF BeginCycle, TypeOK, Steps, plantVars
<1>4. CASE ReadPlans(v)
  <2>1. pc'[v] = "rows" /\ tick'[v] = tick[v] /\ applied'[v] = applied[v]
    BY <1>0, <1>4 DEF ReadPlans, TypeOK
  <2>2. Sound(v)'
    BY <1>0, <1>c, <2>1 DEF Sound, RowTyped, MarkersOfTick, RowIsNew, Sending
  <2>3. DueRows(v) \in SUBSET Rows
    BY DEF DueRows
  <2>. QED  BY <1>0, <1>4, <1>b, <2>2, <2>3 DEF ReadPlans, TypeOK, Steps, plantVars
<1>5. CASE ReadFails(v)
  <2>1. pc'[v] = "asleep" /\ tick'[v] = tick[v] /\ applied'[v] = applied[v]
    BY <1>0, <1>5 DEF ReadFails, TypeOK
  <2>2. Sound(v)'
    BY <1>0, <1>c, <2>1 DEF Sound, RowTyped, MarkersOfTick, RowIsNew, Sending
  <2>. QED  BY <1>0, <1>5, <1>b, <2>2 DEF ReadFails, TypeOK, Steps, plantVars
<1>6. ASSUME NEW r \in Rows, NextRow(v, r) PROVE TypeOK' /\ Sound(v)'
  <2>1. tick'[v] = tick[v] /\ applied'[v] = applied[v]
    BY <1>6 DEF NextRow
  <2>2. CASE Skipped(v, r)
    <3>1. pc'[v] = pc[v] /\ pc[v] = "rows"
      BY <1>6, <2>2 DEF NextRow
    <3>2. Sound(v)'
      BY <1>0, <1>c, <2>1, <3>1 DEF Sound, RowTyped, MarkersOfTick, RowIsNew, Sending
    <3>. QED  BY <1>0, <1>6, <1>b, <2>2, <3>2 DEF NextRow, TypeOK, plantVars
  <2>3. CASE ~Skipped(v, r)
    <3>1. pc'[v] = "mode" /\ cur'[v] = r /\ Marker(v, r) \notin applied[v]
      BY <1>0, <1>6, <2>3 DEF NextRow, Skipped, TypeOK
    <3>2. RowIsNew(v)'
      BY <2>1, <3>1 DEF RowIsNew, Marker
    <3>3. Sound(v)'
      BY <1>0, <1>c, <2>1, <3>1, <3>2 DEF Sound, RowTyped, MarkersOfTick, Rows
    <3>4. TypeOK'
      <4>1. /\ pc' = [pc EXCEPT ![v] = "mode"]
            /\ cur' = [cur EXCEPT ![v] = r]
            /\ queue' = [queue EXCEPT ![v] = @ \ {r}]
            /\ UNCHANGED <<plantVars, tick, applied>>
        BY <1>6, <2>3 DEF NextRow
      <4>. QED  BY <1>0, <1>b, <4>1 DEF TypeOK, Steps, plantVars
    <3>. QED  BY <3>3, <3>4
  <2>. QED  BY <2>2, <2>3
<1>7. CASE EndCycle(v)
  <2>1. pc'[v] = "asleep" /\ tick'[v] = tick[v] /\ applied'[v] = applied[v]
    BY <1>0, <1>7 DEF EndCycle, TypeOK
  <2>2. Sound(v)'
    BY <1>0, <1>c, <2>1 DEF Sound, RowTyped, MarkersOfTick, RowIsNew, Sending
  <2>. QED  BY <1>0, <1>7, <1>b, <2>2 DEF EndCycle, TypeOK, Steps, plantVars
<1>8. ASSUME NEW b \in Batteries, NEW works \in BOOLEAN, SetMode(v, b, works)
      PROVE  TypeOK' /\ Sound(v)'
  <2>1. /\ pc[v] = "mode" /\ pc'[v] = "command" /\ cur'[v] = cur[v]
        /\ tick'[v] = tick[v] /\ applied'[v] = applied[v]
    BY <1>0, <1>8 DEF SetMode, TypeOK
  <2>2. RowIsNew(v)'
    BY <1>0, <2>1 DEF RowIsNew, Marker
  <2>3. Sound(v)'
    BY <1>0, <1>c, <2>1, <2>2 DEF Sound, RowTyped, MarkersOfTick, Sending, Rows
  <2>. QED  BY <1>0, <1>8, <1>b, <2>3 DEF SetMode, TypeOK, Steps
<1>9. ASSUME NEW b \in Batteries, NEW answered \in BOOLEAN, Accept(v, b, answered)
      PROVE  TypeOK' /\ Sound(v)'
  <2>1. /\ cur[v] \in Rows /\ cur[v][1] = b /\ cur[v][2] \in Powers /\ tick[v] \in Dates \X QHs
    BY <1>9, SendingTyped DEF Accept, Sending
  <2>1a. /\ lastPush'[v][b] = <<tick[v][1], tick[v][2], cur[v][2]>>
         /\ lastPush' \in [Workers -> [Batteries -> (Dates \X QHs \X Powers) \cup {NoPush}]]
    BY <1>9, AcceptWrites
  <2>2. /\ pc[v] = "command" /\ pc'[v] \in {"ok", "error"} /\ cur'[v] = cur[v]
        /\ tick'[v] = tick[v] /\ applied'[v] = applied[v]
    BY <1>0, <1>9 DEF Accept, TypeOK
  <2>3. RowIsNew(v)'
    BY <1>0, <2>1, <2>1a, <2>2 DEF RowIsNew, Marker
  <2>4. Sound(v)'
    BY <1>0, <1>c, <2>1, <2>2, <2>3 DEF Sound, RowTyped, MarkersOfTick, Rows
  <2>5. CommandOf(cur[v][2]) \in Commands
    BY <2>1 DEF Commands
  <2>6. setpoint' \in [Batteries -> Commands]
    BY <1>0, <1>9, <2>5 DEF Accept, TypeOK
  <2>7. latest' \in [Batteries -> (Dates \X QHs) \cup {NoPush}]
    BY <1>0, <1>9, <2>1 DEF Accept, TypeOK
  <2>8. pc' \in [Workers -> Steps]
    BY <1>0, <1>9 DEF Accept, TypeOK, Steps
  <2>9. UNCHANGED <<plantMode, tick, queue, cur, applied>>
    BY <1>9 DEF Accept
  <2>10. TypeOK'
    BY <1>0, <1>b, <2>1a, <2>6, <2>7, <2>8, <2>9 DEF TypeOK
  <2>. QED  BY <2>4, <2>10
<1>10. CASE Refuse(v)
  <2>1. /\ pc'[v] = "error" /\ pc[v] = "command" /\ cur'[v] = cur[v]
        /\ tick'[v] = tick[v] /\ applied'[v] = applied[v]
    BY <1>0, <1>10 DEF Refuse, TypeOK
  <2>2. Sound(v)'
    BY <1>0, <1>c, <2>1 DEF Sound, RowTyped, MarkersOfTick, RowIsNew, Sending, Rows
  <2>. QED  BY <1>0, <1>10, <1>b, <2>2 DEF Refuse, TypeOK, Steps, plantVars
<1>11. CASE RowDone(v)
  <2>1. cur[v] \in Rows /\ tick[v] \in Dates \X QHs
    BY <1>0, <1>11 DEF RowDone, RowTyped, Sending, TypeOK
  <2>2. Marker(v, cur[v]) \in Slots /\ Marker(v, cur[v])[2] = tick[v][1]
    BY <2>1 DEF Marker, Rows, Slots
  <2>3. /\ pc'[v] = "rows" /\ tick'[v] = tick[v]
        /\ applied'[v] \in {applied[v], applied[v] \cup {Marker(v, cur[v])}}
    BY <1>0, <1>11 DEF RowDone, TypeOK
  <2>4. Sound(v)'
    BY <1>0, <1>c, <2>2, <2>3 DEF Sound, RowTyped, MarkersOfTick, RowIsNew, Sending
  <2>5. applied' \in [Workers -> SUBSET Slots]
    BY <1>0, <1>11, <2>2 DEF RowDone, TypeOK
  <2>. QED  BY <1>0, <1>11, <1>b, <2>4, <2>5 DEF RowDone, TypeOK, Steps, plantVars
<1>. QED
  BY <1>1, <1>2, <1>3, <1>4, <1>5, <1>6, <1>7, <1>8, <1>9, <1>10, <1>11 DEF Step, Work

\* A step that leaves the workers alone and keeps the types keeps the invariant.
LEMMA OutsideStep ==
    ASSUME IInv, TypeOK', now' \in {now, now + 1}, UNCHANGED <<lastPush, workerVars>>
    PROVE  IInv'
<1>1. ASSUME NEW w \in Workers PROVE Sound(w)'
  <2>1. Untouched(w)
    BY DEF Untouched, workerVars
  <2>. QED  BY <2>1, UntouchedStaysSound DEF IInv, TypeOK
<1>. QED  BY <1>1 DEF IInv

\* Every step of the workers, the plants, the operator and the planner keeps it.
LEMMA NextIInv == IInv /\ [Next]_vars => IInv'
<1> SUFFICES ASSUME IInv, [Next]_vars PROVE IInv'
  OBVIOUS
<1>0. StoreTypeOK /\ TypeOK
  BY DEF IInv, TypeOK
<1>1. ASSUME NEW v \in Workers, Step(v) PROVE IInv'
  <2>1. TypeOK' /\ Sound(v)'
    BY <1>1, StepSound
  <2>2. now' \in {now, now + 1} /\ \A w \in Workers \ {v} : Untouched(w)
    BY <1>0, <1>1, OthersUntouched DEF storeVars
  <2>3. ASSUME NEW w \in Workers \ {v} PROVE Sound(w)'
    BY <1>0, <2>2, UntouchedStaysSound DEF IInv
  <2>. QED  BY <2>1, <2>3 DEF IInv
<1>2. ASSUME NEW b \in Batteries, NEW c \in ManualCommands, ManualDispatch(b, c) PROVE IInv'
  <2>1. StoreTypeOK' /\ now' = now
    BY <1>0, <1>2 DEF ManualDispatch, storeVars, StoreTypeOK
  <2>2. c \in Commands
    BY DEF Commands
  <2>3. TypeOK'
    BY <1>0, <1>2, <2>1, <2>2 DEF ManualDispatch, TypeOK, workerVars
  <2>. QED  BY <1>2, <2>1, <2>3, OutsideStep DEF ManualDispatch
<1>3. ASSUME NEW b \in Batteries, NEW ok \in BOOLEAN, CreateBattery(b, ok) \/ DeleteBattery(b, ok)
      PROVE  IInv'
  <2>1. StoreNext /\ now' = now
    BY <1>3 DEF CreateBattery, DeleteBattery, StoreNext, CreateRow, DeleteRow
  <2>2. StoreTypeOK'
    BY <1>0, <2>1, StoreStepTyped
  <2>3. TypeOK'
    BY <1>0, <1>3, <2>2 DEF CreateBattery, DeleteBattery, TypeOK, workerVars
  <2>. QED  BY <1>3, <2>1, <2>3, OutsideStep DEF CreateBattery, DeleteBattery
<1>4. CASE Planning
  <2>1. /\ StoreTypeOK'
        /\ now' \in {now, now + 1}
        /\ UNCHANGED <<plantVars, workerVars>>
    BY <1>0, <1>4, PlanningIsStoreStep
  <2>2. TypeOK'
    BY <1>0, <2>1 DEF TypeOK, plantVars, workerVars
  <2>. QED  BY <2>1, <2>2, OutsideStep DEF plantVars
<1>5. CASE UNCHANGED vars
  <2>1. TypeOK' /\ now' = now
    BY <1>0, <1>5 DEF vars, storeVars, plantVars, workerVars, TypeOK, StoreTypeOK
  <2>. QED  BY <1>5, <2>1, OutsideStep DEF vars, plantVars
<1>. QED  BY <1>1, <1>2, <1>3, <1>4, <1>5 DEF Next, Step

\* Whatever happens, every variable of the appliers stays in its domain.
THEOREM TypeCorrect == Spec => []TypeOK
<1>1. IInv => TypeOK
  BY DEF IInv
<1>. QED  BY <1>1, InitIInv, NextIInv, PTL DEF Spec

\* The markers are of one day, for every fleet and every calendar: the set each
\* process keeps in memory never outgrows batteries x quarter-hours of a day.
THEOREM MarkersOfOneDay == Spec => []OneDayOfMarkers
<1>1. IInv => OneDayOfMarkers
  BY DEF IInv, Sound, MarkersOfTick, OneDayOfMarkers
<1>. QED  BY <1>1, InitIInv, NextIInv, PTL DEF Spec

\* A worker only sends rows whose slot it has not had acknowledged, and an answer
\* it holds is about a command the plant did take.
THEOREM RowInHandNeverPushed == Spec => []RowInHandIsNew
<1>1. IInv => RowInHandIsNew
  BY DEF IInv, Sound, RowIsNew, RowInHandIsNew
<1>. QED  BY <1>1, InitIInv, NextIInv, PTL DEF Spec

-----------------------------------------------------------------------------
(***************************************************************************)
(* The refinement: each step of a worker is a step of its ledger or leaves *)
(* the ledgers alone.  IInv is what makes a push in the detailed system a  *)
(* push the ledger allows.                                                 *)
(***************************************************************************)

Running == [w \in Workers |-> pc[w] # "down"]

LastSlots == [w \in Workers |-> [b \in Batteries |-> SlotOf(lastPush[w][b])]]

LEMMA InitRefines == Init => Ledger!Init
<1> SUFFICES ASSUME Init PROVE Ledger!Init
  OBVIOUS
<1>1. Running = [w \in Workers |-> FALSE]
  BY DEF Init, Running
<1>2. LastSlots = [w \in Workers |-> [b \in Batteries |-> NoPush]]
  BY DEF Init, LastSlots, SlotOf
<1>3. setpoint \in [Batteries -> Commands]
  BY DEF Init, Commands
<1>. QED
  BY <1>1, <1>2, <1>3 DEF Init, StoreInit, Running, LastSlots, Ledger!Init

\* A step that leaves the ledger's five variables as they are is a stutter.
LEMMA SilentStep ==
    ASSUME UNCHANGED <<now, applied, setpoint, lastPush>>, Running' = Running
    PROVE  [Ledger!Next]_(Ledger!vars)
<1>1. LastSlots' = LastSlots
  BY DEF LastSlots, SlotOf
<1>. QED  BY <1>1 DEF Ledger!vars, LastSlots, Running

\* A worker that runs before and after a step leaves every process running as it was.
LEMMA StillRunning ==
    ASSUME TypeOK, NEW v \in Workers, Step(v), pc[v] # "down", pc'[v] # "down"
    PROVE  Running' = Running
<1>1. ASSUME NEW w \in Workers PROVE (pc'[w] # "down") = (pc[w] # "down")
  <2>1. CASE w = v
    BY <2>1
  <2>2. CASE w # v
    <3>1. pc'[w] = pc[w]
      BY <2>2, OthersUntouched DEF Untouched
    <3>. QED  BY <3>1
  <2>. QED  BY <2>1, <2>2
<1>. QED  BY <1>1 DEF Running

LEMMA SlotsUnchanged ==
    ASSUME lastPush' = lastPush
    PROVE  LastSlots' = LastSlots
BY DEF LastSlots, SlotOf

LEMMA StepRefines ==
    ASSUME IInv, NEW v \in Workers, Step(v)
    PROVE  [Ledger!Next]_(Ledger!vars)
<1> USE StoreAssumption, ApplierAssumption
<1>0. /\ TypeOK
      /\ RowTyped(v) /\ TickShown(v) /\ RowIsNew(v)
      /\ UNCHANGED storeVars /\ now' = now
  BY OthersUntouched DEF IInv, TypeOK, Sound, storeVars
<1>p. pc \in [Workers -> Steps] /\ applied \in [Workers -> SUBSET Slots]
  BY <1>0 DEF TypeOK
<1>1. CASE Start(v)
  <2>1. /\ UNCHANGED <<now, setpoint, applied, lastPush>> /\ pc[v] = "down"
        /\ pc' = [pc EXCEPT ![v] = "asleep"]
    BY <1>0, <1>1 DEF Start, plantVars
  <2>2. Running' = [Running EXCEPT ![v] = TRUE] /\ ~Running[v]
    BY <1>p, <2>1 DEF Running
  <2>3. LastSlots' = LastSlots
    BY <2>1, SlotsUnchanged
  <2>4. Ledger!Start(v)
    BY <2>1, <2>2, <2>3 DEF Ledger!Start, Running, LastSlots
  <2>. QED  BY <2>4 DEF Ledger!Next
<1>2. CASE Crash(v)
  <2>1. /\ UNCHANGED <<now, setpoint, lastPush>> /\ pc[v] # "down"
        /\ pc' = [pc EXCEPT ![v] = "down"]
        /\ applied' = [applied EXCEPT ![v] = {}]
    BY <1>0, <1>2 DEF Crash, plantVars
  <2>2. Running' = [Running EXCEPT ![v] = FALSE] /\ Running[v]
    BY <1>p, <2>1 DEF Running
  <2>3. LastSlots' = LastSlots
    BY <2>1, SlotsUnchanged
  <2>4. Ledger!Die(v)
    BY <2>1, <2>2, <2>3 DEF Ledger!Die, Running, LastSlots
  <2>. QED  BY <2>4 DEF Ledger!Next
<1>3. CASE BeginCycle(v)
  <2>1. /\ UNCHANGED <<now, setpoint, lastPush>> /\ pc[v] # "down" /\ pc'[v] # "down"
        /\ applied' = [applied EXCEPT ![v] = {m \in @ : m[2] = Calendar[now][1]}]
    BY <1>0, <1>3, <1>p DEF BeginCycle, plantVars, Today
  <2>2. Running' = Running /\ Running[v]
    BY <1>0, <2>1, StillRunning DEF Running
  <2>3. LastSlots' = LastSlots
    BY <2>1, SlotsUnchanged
  <2>4. Ledger!Forget(v)
    BY <2>1, <2>2, <2>3 DEF Ledger!Forget, Running, LastSlots
  <2>. QED  BY <2>4 DEF Ledger!Next
<1>4. CASE ReadPlans(v) \/ ReadFails(v) \/ EndCycle(v) \/ Refuse(v)
  <2>1. pc[v] # "down" /\ pc'[v] # "down" /\ UNCHANGED <<applied, setpoint, lastPush>>
    BY <1>4, <1>p DEF ReadPlans, ReadFails, EndCycle, Refuse, plantVars
  <2>. QED  BY <1>0, <2>1, StillRunning, SilentStep
<1>5. ASSUME NEW r \in Rows, NextRow(v, r) PROVE [Ledger!Next]_(Ledger!vars)
  <2>1. pc[v] # "down" /\ pc'[v] # "down" /\ UNCHANGED <<applied, setpoint, lastPush>>
    BY <1>5, <1>p DEF NextRow, plantVars
  <2>. QED  BY <1>0, <2>1, StillRunning, SilentStep
<1>6. ASSUME NEW b \in Batteries, NEW works \in BOOLEAN, SetMode(v, b, works)
      PROVE  [Ledger!Next]_(Ledger!vars)
  <2>1. pc[v] # "down" /\ pc'[v] # "down" /\ UNCHANGED <<applied, setpoint, lastPush>>
    BY <1>6, <1>p DEF SetMode
  <2>. QED  BY <1>0, <2>1, StillRunning, SilentStep
<1>7. ASSUME NEW b \in Batteries, NEW answered \in BOOLEAN, Accept(v, b, answered)
      PROVE  [Ledger!Next]_(Ledger!vars)
  <2>1. cur[v] \in Rows /\ cur[v][1] = b /\ tick[v] \in Dates \X QHs
    BY <1>7, SendingTyped DEF Accept, Sending
  <2> DEFINE s == Marker(v, cur[v])
             c == CommandOf(cur[v][2])
             push == <<tick[v][1], tick[v][2], cur[v][2]>>
  <2>2. s \in Batteries \X Dates \X QHs /\ s[1] = b /\ <<s[2], s[3]>> = tick[v]
    BY <2>1 DEF Marker, Rows
  <2>3. c \in Commands
    BY <2>1 DEF Commands, Rows
  <2>4. s \notin applied[v]
    BY <1>0, <1>7 DEF Accept, RowIsNew
  <2>5. \E t \in 0..now : Calendar[t] = <<s[2], s[3]>>
    BY <1>0, <2>2 DEF TickShown
  <2>6. /\ applied' = applied /\ pc[v] # "down" /\ pc'[v] # "down"
        /\ setpoint' = [setpoint EXCEPT ![b] = c]
    BY <1>7, <1>p DEF Accept
  <2>7. /\ lastPush'[v][b] = push
        /\ \A x \in Batteries : x # b => lastPush'[v][x] = lastPush[v][x]
        /\ \A w \in Workers : w # v => lastPush'[w] = lastPush[w]
    BY <1>7, AcceptWrites
  <2>8. push \in Dates \X QHs \X Powers
    BY <2>1 DEF Rows
  <2>9. SlotOf(lastPush'[v][b]) = <<s[2], s[3]>>
    BY <2>7, <2>8 DEF SlotOf, Marker
  <2>10. LastSlots' = [LastSlots EXCEPT ![v] = [@ EXCEPT ![b] = <<s[2], s[3]>>]]
    <3> DEFINE slot == <<s[2], s[3]>>
    <3>1. [x \in Batteries |-> SlotOf(lastPush'[v][x])] = [LastSlots[v] EXCEPT ![b] = slot]
      BY <2>7, <2>9 DEF LastSlots
    <3>2. \A w \in Workers : w # v =>
              [x \in Batteries |-> SlotOf(lastPush'[w][x])] = LastSlots[w]
      BY <2>7 DEF LastSlots
    <3>3. LastSlots' = [w \in Workers |-> [x \in Batteries |-> SlotOf(lastPush'[w][x])]]
      BY DEF LastSlots, SlotOf
    <3>4. \A w \in Workers :
              LastSlots'[w] = IF w = v THEN [LastSlots[v] EXCEPT ![b] = slot] ELSE LastSlots[w]
      BY <3>1, <3>2, <3>3
    <3>5. /\ LastSlots = [w \in Workers |-> LastSlots[w]]
          /\ LastSlots' = [w \in Workers |-> LastSlots'[w]]
      BY <3>3 DEF LastSlots
    <3>6. \A f, g, y :
              (/\ f = [w \in Workers |-> f[w]]
               /\ g = [w \in Workers |-> g[w]]
               /\ \A w \in Workers : g[w] = IF w = v THEN y ELSE f[w])
              => g = [f EXCEPT ![v] = y]
      OBVIOUS
    <3> HIDE DEF slot
    <3>7. LastSlots' = [LastSlots EXCEPT ![v] = [LastSlots[v] EXCEPT ![b] = slot]]
      BY <3>4, <3>5, <3>6, Zenon
    <3>. QED  BY <3>7 DEF slot
  <2>11. Running' = Running /\ Running[v]
    BY <1>0, <2>6, StillRunning DEF Running
  <2> HIDE DEF s, c
  <2>12. Ledger!Push(v, s, c)
    BY <1>0, <2>2, <2>4, <2>5, <2>6, <2>10, <2>11 DEF Ledger!Push, LastSlots, Running
  <2>. QED  BY <2>2, <2>3, <2>12 DEF Ledger!Next, Ledger!Slot
<1>8. CASE RowDone(v)
  <2>0. /\ pc[v] # "down" /\ pc'[v] # "down" /\ UNCHANGED <<setpoint, lastPush>>
        /\ pc[v] \in {"ok", "error"}
    BY <1>8, <1>p DEF RowDone, plantVars
  <2>1. CASE pc[v] = "error"
    <3>1. applied' = applied
      BY <1>8, <1>p, <2>1 DEF RowDone
    <3>. QED  BY <1>0, <2>0, <3>1, StillRunning, SilentStep
  <2>2. CASE pc[v] = "ok"
    <3> DEFINE s == Marker(v, cur[v])
    <3>1. cur[v] \in Rows /\ tick[v] \in Dates \X QHs
          /\ lastPush[v][cur[v][1]] = <<tick[v][1], tick[v][2], cur[v][2]>>
      BY <1>0, <2>2, SendingTyped DEF RowIsNew, Sending
    <3>2. s \in Batteries \X Dates \X QHs /\ s[1] = cur[v][1] /\ s[2] = tick[v][1] /\ s[3] = tick[v][2]
      BY <3>1 DEF Marker, Rows
    <3>3. lastPush[v][cur[v][1]] \in Dates \X QHs \X Powers
      BY <3>1 DEF Rows
    <3>4. LastSlots[v][s[1]] = <<s[2], s[3]>>
      <4>1. SlotOf(lastPush[v][cur[v][1]]) = <<tick[v][1], tick[v][2]>>
        BY <3>1, <3>3 DEF SlotOf
      <4>2. cur[v][1] \in Batteries
        BY <3>1 DEF Rows
      <4>3. LastSlots[v][cur[v][1]] = SlotOf(lastPush[v][cur[v][1]])
        BY <4>2 DEF LastSlots
      <4>. QED  BY <3>2, <4>1, <4>3
    <3>5. LastSlots' = LastSlots
      BY <2>0, SlotsUnchanged
    <3>6. Running' = Running /\ Running[v]
      BY <1>0, <2>0, StillRunning DEF Running
    <3>7. applied' = [applied EXCEPT ![v] = @ \cup {s}]
      BY <1>8, <2>2 DEF RowDone
    <3> HIDE DEF s
    <3>8. Ledger!Acknowledge(v, s)
      BY <1>0, <2>0, <3>4, <3>5, <3>6, <3>7 DEF Ledger!Acknowledge, LastSlots, Running
    <3>. QED  BY <3>2, <3>8 DEF Ledger!Next, Ledger!Slot
  <2>. QED  BY <2>0, <2>1, <2>2
<1>. QED
  BY <1>1, <1>2, <1>3, <1>4, <1>5, <1>6, <1>7, <1>8 DEF Step, Work

LEMMA NextRefines == IInv /\ [Next]_vars => [Ledger!Next]_(Ledger!vars)
<1> SUFFICES ASSUME IInv, [Next]_vars PROVE [Ledger!Next]_(Ledger!vars)
  OBVIOUS
<1>0. StoreTypeOK /\ TypeOK
  BY DEF IInv, TypeOK
<1>1. ASSUME NEW v \in Workers, Step(v) PROVE [Ledger!Next]_(Ledger!vars)
  BY <1>1, StepRefines
<1>2. ASSUME NEW b \in Batteries, NEW c \in ManualCommands, ManualDispatch(b, c)
      PROVE  [Ledger!Next]_(Ledger!vars)
  <2>1. LastSlots' = LastSlots /\ Running' = Running
    BY <1>2, SlotsUnchanged DEF ManualDispatch, workerVars, Running
  <2>2. Ledger!Override(b, c)
    BY <1>2, <2>1 DEF ManualDispatch, storeVars, workerVars, Ledger!Override, LastSlots, Running
  <2>. QED  BY <2>2 DEF Ledger!Next, Commands
<1>3. ASSUME NEW b \in Batteries, NEW ok \in BOOLEAN, CreateBattery(b, ok) \/ DeleteBattery(b, ok)
      PROVE  [Ledger!Next]_(Ledger!vars)
  <2>1. UNCHANGED <<now, applied, setpoint, lastPush>> /\ Running' = Running
    BY <1>3 DEF CreateBattery, DeleteBattery, CreateRow, DeleteRow, workerVars, Running
  <2>. QED  BY <2>1, SilentStep
<1>4. CASE Planning
  <2>1. LastSlots' = LastSlots /\ Running' = Running
    BY <1>4, SlotsUnchanged DEF Planning, plantVars, workerVars, Running
  <2>2. CASE AdvanceClock
    <3>1. Ledger!Tick
      BY <1>4, <2>1, <2>2 DEF Planning, AdvanceClock, plantVars, workerVars, Ledger!Tick,
         LastSlots, Running
    <3>. QED  BY <3>1 DEF Ledger!Next
  <2>3. CASE ~AdvanceClock
    <3>1. UNCHANGED <<now, plantVars, workerVars>>
      BY <1>4, <2>3 DEF Planning, SetActive, CreatePlan, ReplaceDay
    <3>. QED  BY <2>1, <3>1, SilentStep DEF plantVars, workerVars
  <2>. QED  BY <2>2, <2>3
<1>5. CASE UNCHANGED vars
  <2>1. UNCHANGED <<now, applied, setpoint, lastPush>> /\ Running' = Running
    BY <1>5 DEF vars, storeVars, plantVars, workerVars, Running
  <2>. QED  BY <2>1, SilentStep
<1>. QED  BY <1>1, <1>2, <1>3, <1>4, <1>5 DEF Next, Step

\* The workers implement their ledgers for every number of them and every fleet,
\* calendar, horizon and set of schedules: at least one accepted push before a
\* worker marks a slot, and none of its own after it until the day changes or its
\* process restarts.
THEOREM ApplierImplementsLedger == Spec => ImplementsLedger
<1>1. Spec => []IInv
  BY InitIInv, NextIInv, PTL DEF Spec
<1>2. Spec => Ledger!Spec
  BY <1>1, NextRefines, InitRefines, PTL DEF Spec, Ledger!Spec
<1>. QED  BY <1>2 DEF ImplementsLedger

-----------------------------------------------------------------------------
(***************************************************************************)
(* The order of the slots a worker gives a plant.  A cycle may outlast its *)
(* quarter-hour, so the tick can be behind the clock; what holds through a *)
(* cycle is that the slot of each plant's last push by this worker was     *)
(* shown no later than the tick was.                                       *)
(***************************************************************************)

InCycle(w) == pc[w] \in {"reading", "rows"} \cup Sending

PushesShown(w) ==
    \A b \in Batteries : lastPush[w][b] # NoPush =>
        \E t \in 0..now : Calendar[t] = SlotOf(lastPush[w][b])

PushesBeforeTick(w) ==
    InCycle(w) => \A b \in Batteries : lastPush[w][b] # NoPush =>
        ShownInOrder(SlotOf(lastPush[w][b]), tick[w])

InOrder(w) == PushesShown(w) /\ PushesBeforeTick(w)

OrderInv == \A w \in Workers : InOrder(w)

\* Time that passes takes nothing back, and a step in which a worker pushes nothing
\* and keeps the tick of a cycle under way keeps its order.
LEMMA OrderKept ==
    ASSUME StoreTypeOK, NEW w \in Workers, InOrder(w), now' \in {now, now + 1},
           lastPush'[w] = lastPush[w], InCycle(w)' => InCycle(w) /\ tick'[w] = tick[w]
    PROVE  InOrder(w)'
<1>1. now \in Nat /\ now' \in Nat /\ now <= now'
  BY StoreAssumption DEF StoreTypeOK
<1>2. \A t \in 0..now : t \in 0..now' /\ t..now \subseteq t..now'
  BY <1>1
<1>3. PushesShown(w)'
  BY <1>2 DEF InOrder, PushesShown, SlotOf
<1>4. ASSUME InCycle(w)' PROVE PushesBeforeTick(w)'
  <2>1. \A b \in Batteries : lastPush[w][b] # NoPush =>
            ShownInOrder(SlotOf(lastPush[w][b]), tick[w])
    BY <1>4 DEF InOrder, PushesBeforeTick
  <2>2. SUFFICES ASSUME NEW b \in Batteries, lastPush[w][b] # NoPush
                 PROVE  ShownInOrder(SlotOf(lastPush[w][b]), tick[w])'
    BY DEF PushesBeforeTick
  <2>3. PICK t1 \in 0..now : \E t2 \in t1..now :
            Calendar[t1] = SlotOf(lastPush[w][b]) /\ Calendar[t2] = tick[w]
    BY <2>1, <2>2 DEF ShownInOrder
  <2>4. t1 \in 0..now' /\ t1..now \subseteq t1..now'
    BY <1>2
  <2>5. SlotOf(lastPush[w][b])' = SlotOf(lastPush[w][b]) /\ tick'[w] = tick[w]
    BY <1>4 DEF SlotOf
  <2>. QED  BY <2>3, <2>4, <2>5 DEF ShownInOrder
<1>. QED  BY <1>3, <1>4 DEF InOrder, PushesBeforeTick

\* What a push is filed under is the tick of its cycle.
LEMMA PushIsTick ==
    ASSUME IInv, NEW v \in Workers, NEW b \in Batteries, NEW answered \in BOOLEAN,
           Accept(v, b, answered)
    PROVE  /\ lastPush'[v][b] # NoPush /\ SlotOf(lastPush'[v][b]) = tick'[v]
           /\ tick'[v] = tick[v]
           /\ \A x \in Batteries : x # b => lastPush'[v][x] = lastPush[v][x]
           /\ \A w \in Workers : w # v => lastPush'[w] = lastPush[w]
<1> DEFINE push == <<tick[v][1], tick[v][2], cur[v][2]>>
<1>1. push \in Dates \X QHs \X Powers /\ tick[v] \in Dates \X QHs
  BY SendingTyped DEF Accept, Sending
<1>2. push # NoPush /\ <<push[1], push[2]>> = tick[v]
  BY <1>1, ApplierAssumption
<1>3. tick'[v] = tick[v]
  BY DEF Accept
<1> HIDE DEF push
<1>4. /\ lastPush'[v][b] = push
      /\ \A x \in Batteries : x # b => lastPush'[v][x] = lastPush[v][x]
      /\ \A w \in Workers : w # v => lastPush'[w] = lastPush[w]
  BY AcceptWrites DEF push
<1>. QED  BY <1>2, <1>3, <1>4 DEF SlotOf

LEMMA InitOrder == Init => OrderInv
  BY DEF Init, OrderInv, InOrder, PushesShown, PushesBeforeTick, InCycle, Sending

\* A step of a worker that does not push keeps its own order.
LEMMA StepKeepsOrder ==
    ASSUME IInv, OrderInv, NEW v \in Workers, Step(v)
    PROVE  InOrder(v)'
<1>0. /\ StoreTypeOK /\ TypeOK /\ TickShown(v) /\ now \in Nat /\ now' = now
      /\ InOrder(v) /\ PushesShown(v) /\ PushesBeforeTick(v)
  BY OthersUntouched DEF IInv, TypeOK, StoreTypeOK, Sound, storeVars, OrderInv, InOrder
<1>t. pc \in [Workers -> Steps] /\ tick \in [Workers -> Dates \X QHs]
  BY <1>0 DEF TypeOK
<1>1. CASE Start(v) \/ Crash(v)
  <2>1. lastPush'[v] = lastPush[v] /\ ~InCycle(v)'
    BY <1>t, <1>1 DEF Start, Crash, plantVars, InCycle, Sending
  <2>. QED  BY <1>0, <2>1, OrderKept
<1>2. CASE BeginCycle(v)
  <2>1. lastPush'[v] = lastPush[v] /\ tick'[v] = Calendar[now]
    BY <1>t, <1>2 DEF BeginCycle, plantVars
  <2>2. PushesShown(v)'
    BY <1>0, <2>1 DEF PushesShown, SlotOf
  <2>3. ASSUME NEW b \in Batteries, lastPush[v][b] # NoPush
        PROVE  ShownInOrder(SlotOf(lastPush[v][b]), tick[v])'
    <3>1. PICK t \in 0..now : Calendar[t] = SlotOf(lastPush[v][b])
      BY <1>0, <2>3 DEF PushesShown
    <3>2. t \in 0..now' /\ now \in t..now'
      BY <1>0
    <3>3. SlotOf(lastPush[v][b])' = SlotOf(lastPush[v][b])
      BY <2>1 DEF SlotOf
    <3>. QED  BY <2>1, <3>1, <3>2, <3>3 DEF ShownInOrder
  <2>. QED  BY <2>1, <2>2, <2>3 DEF InOrder, PushesBeforeTick
<1>3. CASE ReadPlans(v) \/ ReadFails(v) \/ EndCycle(v) \/ Refuse(v) \/ RowDone(v)
  <2>1. lastPush'[v] = lastPush[v] /\ tick'[v] = tick[v] /\ InCycle(v)
    BY <1>3 DEF ReadPlans, ReadFails, EndCycle, Refuse, RowDone, plantVars, InCycle, Sending
  <2>. QED  BY <1>0, <2>1, OrderKept
<1>4. ASSUME NEW r \in Rows, NextRow(v, r) PROVE InOrder(v)'
  <2>1. lastPush'[v] = lastPush[v] /\ tick'[v] = tick[v] /\ InCycle(v)
    BY <1>4 DEF NextRow, plantVars, InCycle
  <2>. QED  BY <1>0, <2>1, OrderKept
<1>5. ASSUME NEW b \in Batteries, NEW works \in BOOLEAN, SetMode(v, b, works) PROVE InOrder(v)'
  <2>1. lastPush'[v] = lastPush[v] /\ tick'[v] = tick[v] /\ InCycle(v)
    BY <1>5 DEF SetMode, InCycle, Sending
  <2>. QED  BY <1>0, <2>1, OrderKept
<1>6. ASSUME NEW b \in Batteries, NEW answered \in BOOLEAN, Accept(v, b, answered)
      PROVE  InOrder(v)'
  <2>1. /\ tick'[v] = tick[v]
        /\ lastPush'[v][b] # NoPush /\ SlotOf(lastPush'[v][b]) = tick'[v]
        /\ \A x \in Batteries : x # b => lastPush'[v][x] = lastPush[v][x]
    BY <1>6, PushIsTick
  <2>2. InCycle(v)
    BY <1>6 DEF Accept, InCycle, Sending
  <2>3. PICK t \in 0..now : Calendar[t] = tick[v]
    BY <1>0 DEF TickShown
  <2>4. t \in t..now
    BY <1>0
  <2>5. ASSUME NEW x \in Batteries, lastPush'[v][x] # NoPush
        PROVE  /\ \E s \in 0..now' : Calendar[s] = SlotOf(lastPush'[v][x])
               /\ ShownInOrder(SlotOf(lastPush[v][x]), tick[v])'
    <3>1. CASE x = b
      BY <1>0, <2>1, <2>3, <2>4, <3>1 DEF ShownInOrder, SlotOf
    <3>2. CASE x # b
      <4>1. lastPush'[v][x] = lastPush[v][x]
        BY <2>1, <3>2
      <4>2. /\ \E s \in 0..now : Calendar[s] = SlotOf(lastPush[v][x])
            /\ ShownInOrder(SlotOf(lastPush[v][x]), tick[v])
        BY <1>0, <2>2, <2>5, <4>1 DEF PushesShown, PushesBeforeTick
      <4>3. SlotOf(lastPush[v][x])' = SlotOf(lastPush[v][x])
        BY <4>1 DEF SlotOf
      <4>. QED  BY <1>0, <2>1, <4>1, <4>2, <4>3 DEF ShownInOrder, SlotOf
    <3>. QED  BY <3>1, <3>2
  <2>. QED  BY <2>5 DEF InOrder, PushesShown, PushesBeforeTick, SlotOf
<1>. QED  BY <1>1, <1>2, <1>3, <1>4, <1>5, <1>6 DEF Step, Work

LEMMA NextOrder == IInv /\ OrderInv /\ [Next]_vars => OrderInv'
<1> SUFFICES ASSUME IInv, OrderInv, [Next]_vars PROVE OrderInv'
  OBVIOUS
<1>0. StoreTypeOK /\ TypeOK
  BY DEF IInv, TypeOK
<1>1. ASSUME NEW v \in Workers, Step(v) PROVE OrderInv'
  <2>1. InOrder(v)'
    BY <1>1, StepKeepsOrder
  <2>2. now' \in {now, now + 1} /\ \A w \in Workers \ {v} : Untouched(w)
    BY <1>0, <1>1, OthersUntouched DEF storeVars
  <2>3. ASSUME NEW w \in Workers \ {v} PROVE InOrder(w)'
    BY <1>0, <2>2, OrderKept DEF OrderInv, Untouched, InCycle
  <2>. QED  BY <2>1, <2>3 DEF OrderInv
<1>2. ASSUME now' \in {now, now + 1}, UNCHANGED <<lastPush, workerVars>> PROVE OrderInv'
  <2>1. ASSUME NEW w \in Workers PROVE InOrder(w)'
    BY <1>0, <1>2, OrderKept DEF OrderInv, InCycle, workerVars
  <2>. QED  BY <2>1 DEF OrderInv
<1>3. ASSUME NEW b \in Batteries, NEW c \in ManualCommands, ManualDispatch(b, c) PROVE OrderInv'
  BY <1>2, <1>3 DEF ManualDispatch, storeVars
<1>4. ASSUME NEW b \in Batteries, NEW ok \in BOOLEAN, CreateBattery(b, ok) \/ DeleteBattery(b, ok)
      PROVE  OrderInv'
  BY <1>2, <1>4 DEF CreateBattery, DeleteBattery, CreateRow, DeleteRow
<1>5. CASE Planning
  BY <1>0, <1>2, <1>5, PlanningIsStoreStep DEF plantVars
<1>6. CASE UNCHANGED vars
  BY <1>2, <1>6 DEF vars, storeVars, plantVars
<1>. QED  BY <1>1, <1>3, <1>4, <1>5, <1>6 DEF Next, Step

\* Only an accepted push changes what a plant last took from a worker.
LEMMA OnlyAcceptPushes ==
    ASSUME [Next]_vars
    PROVE  \/ lastPush' = lastPush
           \/ \E v \in Workers, b \in Batteries, answered \in BOOLEAN : Accept(v, b, answered)
<1>1. ASSUME NEW v \in Workers, Work(v) PROVE lastPush' = lastPush
  BY <1>1 DEF Work, Start, BeginCycle, ReadPlans, EndCycle, RowDone, NextRow, SetMode, Refuse,
     plantVars
<1>2. ASSUME NEW v \in Workers, Crash(v) \/ ReadFails(v) PROVE lastPush' = lastPush
  BY <1>2 DEF Crash, ReadFails, plantVars
<1>3. ASSUME NEW b \in Batteries, NEW c \in ManualCommands, ManualDispatch(b, c)
      PROVE  lastPush' = lastPush
  BY <1>3 DEF ManualDispatch
<1>4. ASSUME NEW b \in Batteries, NEW ok \in BOOLEAN, CreateBattery(b, ok) \/ DeleteBattery(b, ok)
      PROVE  lastPush' = lastPush
  BY <1>4 DEF CreateBattery, DeleteBattery
<1>5. ASSUME Planning \/ UNCHANGED vars PROVE lastPush' = lastPush
  BY <1>5 DEF Planning, vars, plantVars
<1>. QED  BY <1>1, <1>2, <1>3, <1>4, <1>5 DEF Next

\* However long a cycle takes and whatever the calendar shows, one worker never
\* gives a plant the power of an earlier quarter-hour after that of a later one.
\* Nothing of the kind holds of two workers together.
THEOREM WorkerNeverGoesBack == Spec => SlotsInOrder
<1> DEFINE A == \A w \in Workers, b \in Batteries :
                  (lastPush[w][b] # NoPush /\ lastPush'[w][b] # lastPush[w][b]) =>
                      ShownInOrder(SlotOf(lastPush[w][b]), SlotOf(lastPush'[w][b]))
<1>1. ASSUME IInv, OrderInv, [Next]_vars PROVE A
  <2>1. SUFFICES ASSUME NEW w \in Workers, NEW b \in Batteries,
                        lastPush[w][b] # NoPush, lastPush'[w][b] # lastPush[w][b]
                 PROVE  ShownInOrder(SlotOf(lastPush[w][b]), SlotOf(lastPush'[w][b]))
    OBVIOUS
  <2>2. PICK v \in Workers, x \in Batteries, answered \in BOOLEAN : Accept(v, x, answered)
    BY <1>1, <2>1, OnlyAcceptPushes
  <2>3. /\ SlotOf(lastPush'[v][x]) = tick'[v]
        /\ tick'[v] = tick[v]
        /\ \A y \in Batteries : y # x => lastPush'[v][y] = lastPush[v][y]
        /\ \A u \in Workers : u # v => lastPush'[u] = lastPush[u]
    BY <1>1, <2>2, PushIsTick
  <2>4. w = v /\ x = b
    BY <2>1, <2>3
  <2>5. InCycle(v)
    BY <2>2 DEF Accept, InCycle, Sending
  <2>6. ShownInOrder(SlotOf(lastPush[w][b]), tick[w])
    BY <1>1, <2>1, <2>4, <2>5 DEF OrderInv, InOrder, PushesBeforeTick
  <2>. QED  BY <2>3, <2>4, <2>6
<1>2. Spec => [](IInv /\ OrderInv)
  BY InitIInv, NextIInv, InitOrder, NextOrder, PTL DEF Spec
<1>3. Spec => [][A]_vars
  BY <1>1, <1>2, PTL DEF Spec
<1>. QED  BY <1>3 DEF SlotsInOrder
=============================================================================
