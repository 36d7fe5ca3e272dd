-------------------------- MODULE DispatchApplier --------------------------
(***************************************************************************)
(* core/dispatch_applier.py: the workers that turn rows of dispatch_plans  *)
(* into charge, discharge and stop commands, one in each process of the    *)
(* server, with the plan table they read (PlanStore), the plants they      *)
(* command and the operator who overrides them.  A cycle of a worker is    *)
(* split at its awaits: the quarter-hour is read from the clock, then the  *)
(* rows are read, then each row is sent; clock, plans, flags, plants and   *)
(* what the other workers sent may change in between.                      *)
(***************************************************************************)
EXTENDS PlanStore

CONSTANTS
    Workers,        \* processes of the server, each with its applier
    Huawei,         \* batteries with protocol REST and the FusionSolar subtype
    MaxPower,       \* battery -> power its plant accepts, hundredths of kW
    ManualCommands, \* commands operators send by hand
    NoPush          \* the applier has not pushed to the battery

ASSUME ApplierAssumption ==
    /\ Huawei \subseteq Batteries
    /\ MaxPower \in [Batteries -> Nat]
    /\ NoPush \notin (Dates \X QHs \X Powers) \cup (Dates \X QHs)

VARIABLES
    plantMode,  \* battery -> "gone", "local", or "dispatch" once commands are accepted
    setpoint,   \* battery -> the command its plant follows
    latest,     \* battery -> <<date, quarter-hour>> its plant last took from any worker
    lastPush,   \* worker -> battery -> <<date, quarter-hour, power>> it last took from that one
    \* and for each worker:
    pc,         \* where its task is
    tick,       \* <<date, quarter-hour>> of the current cycle
    queue,      \* <<battery, power>> rows of the cycle not yet sent
    cur,        \* the row being sent
    applied     \* markers of the slots pushed: self._applied

plantVars == <<plantMode, setpoint, latest, lastPush>>
workerVars == <<pc, tick, queue, cur, applied>>
vars == <<storeVars, plantVars, workerVars>>

\* A row, read as a command: positive charges, negative discharges, and at
\* most 0.1 kW either way stops.
CommandOf(p) ==
    IF p > 10 THEN <<"charge", p>>
    ELSE IF p < -10 THEN <<"discharge", -p>>
    ELSE <<"stop", 0>>

Commands == {CommandOf(p) : p \in Powers} \cup ManualCommands \cup {<<"stop", 0>>}

Rows == Batteries \X Powers

NoRowInHand == <<>>

Marker(w, r) == <<r[1], tick[w][1], tick[w][2]>>

Steps == {"down", "asleep", "reading", "rows", "mode", "command", "ok", "error"}

TypeOK ==
    /\ StoreTypeOK
    /\ plantMode \in [Batteries -> {"gone", "local", "dispatch"}]
    /\ setpoint \in [Batteries -> Commands]
    /\ latest \in [Batteries -> (Dates \X QHs) \cup {NoPush}]
    /\ lastPush \in [Workers -> [Batteries -> (Dates \X QHs \X Powers) \cup {NoPush}]]
    /\ pc \in [Workers -> Steps]
    /\ tick \in [Workers -> Dates \X QHs]
    /\ queue \in [Workers -> SUBSET Rows]
    /\ cur \in [Workers -> Rows \cup {NoRowInHand}]
    /\ applied \in [Workers -> SUBSET Slots]

Init ==
    /\ StoreInit
    /\ plantMode = [b \in Batteries |-> IF status[b] = "absent" THEN "gone" ELSE "local"]
    /\ setpoint = [b \in Batteries |-> <<"stop", 0>>]
    /\ latest = [b \in Batteries |-> NoPush]
    /\ lastPush = [w \in Workers |-> [b \in Batteries |-> NoPush]]
    /\ pc = [w \in Workers |-> "down"]
    /\ tick = [w \in Workers |-> Calendar[0]]
    /\ queue = [w \in Workers |-> {}]
    /\ cur = [w \in Workers |-> NoRowInHand]
    /\ applied = [w \in Workers |-> {}]

-----------------------------------------------------------------------------
\* The workers.

\* start(): one task at most.
Start(w) ==
    /\ pc[w] = "down"
    /\ pc' = [pc EXCEPT ![w] = "asleep"]
    /\ UNCHANGED <<storeVars, plantVars, tick, queue, cur, applied>>

\* The process stops or dies at any await; its markers are only in memory.
Crash(w) ==
    /\ pc[w] # "down"
    /\ pc' = [pc EXCEPT ![w] = "down"]
    /\ queue' = [queue EXCEPT ![w] = {}]
    /\ cur' = [cur EXCEPT ![w] = NoRowInHand]
    /\ applied' = [applied EXCEPT ![w] = {}]
    /\ UNCHANGED <<storeVars, plantVars, tick>>

\* Definitions named Bug... are wrong versions of the definition after them, for
\* mutation testing; no specification uses them.

\* (Never forgets a marker.)
BugKeepMarkers(w) ==
    /\ pc[w] = "asleep"
    /\ pc' = [pc EXCEPT ![w] = "reading"]
    /\ tick' = [tick EXCEPT ![w] = Calendar[now]]
    /\ UNCHANGED <<storeVars, plantVars, queue, cur, applied>>

\* (Catches up with quarter-hours that are over.)
BugCatchUp(w) ==
    /\ pc[w] = "asleep"
    /\ pc' = [pc EXCEPT ![w] = "reading"]
    /\ \E t \in 0..now :
          /\ tick' = [tick EXCEPT ![w] = Calendar[t]]
          /\ applied' = [applied EXCEPT ![w] = {m \in @ : m[2] = Calendar[t][1]}]
    /\ UNCHANGED <<storeVars, plantVars, queue, cur>>

\* A cycle takes the quarter-hour and forgets the markers of other days.
BeginCycle(w) ==
    /\ pc[w] = "asleep"
    /\ pc' = [pc EXCEPT ![w] = "reading"]
    /\ tick' = [tick EXCEPT ![w] = Calendar[now]]
    /\ applied' = [applied EXCEPT ![w] = {m \in @ : m[2] = Today}]
    /\ UNCHANGED <<storeVars, plantVars, queue, cur>>

\* The rows of the tick's slot joined with the active batteries.
DueRows(w) == {r \in Rows : status[r[1]] = "active" /\ plans[Marker(w, r)] = r[2]}

ReadPlans(w) ==
    /\ pc[w] = "reading"
    /\ pc' = [pc EXCEPT ![w] = "rows"]
    /\ queue' = [queue EXCEPT ![w] = DueRows(w)]
    /\ UNCHANGED <<storeVars, plantVars, tick, cur, applied>>

\* The database does not answer: the loop logs and sleeps.
ReadFails(w) ==
    /\ pc[w] = "reading"
    /\ pc' = [pc EXCEPT ![w] = "asleep"]
    /\ UNCHANGED <<storeVars, plantVars, tick, queue, cur, applied>>

\* (Pushes every cycle.)
BugNoMarker(w, r) == r[1] \notin Huawei

\* Already pushed, or not a FusionSolar battery.
Skipped(w, r) == Marker(w, r) \in applied[w] \/ r[1] \notin Huawei

NextRow(w, r) ==
    /\ pc[w] = "rows"
    /\ r \in queue[w]
    /\ queue' = [queue EXCEPT ![w] = @ \ {r}]
    /\ \/ Skipped(w, r) /\ UNCHANGED <<pc, cur>>
       \/ /\ ~Skipped(w, r)
          /\ pc' = [pc EXCEPT ![w] = "mode"]
          /\ cur' = [cur EXCEPT ![w] = r]
    /\ UNCHANGED <<storeVars, plantVars, tick, applied>>

EndCycle(w) ==
    /\ pc[w] = "rows"
    /\ queue[w] = {}
    /\ pc' = [pc EXCEPT ![w] = "asleep"]
    /\ UNCHANGED <<storeVars, plantVars, tick, queue, cur, applied>>

\* set_dispatch_mode, its exceptions suppressed.
SetMode(w, b, works) ==
    /\ pc[w] = "mode"
    /\ cur[w][1] = b
    /\ works => plantMode[b] # "gone"
    /\ pc' = [pc EXCEPT ![w] = "command"]
    /\ plantMode' = [plantMode EXCEPT ![b] = IF works THEN "dispatch" ELSE @]
    /\ UNCHANGED <<storeVars, setpoint, latest, lastPush, tick, queue, cur, applied>>

\* (Sends the signed power of the row as a charge.)
BugUnsigned(w, b, answered) ==
    /\ pc[w] = "command"
    /\ cur[w][1] = b
    /\ plantMode[b] = "dispatch"
    /\ cur[w][2] \in -MaxPower[b]..MaxPower[b]
    /\ pc' = [pc EXCEPT ![w] = IF answered THEN "ok" ELSE "error"]
    /\ setpoint' = [setpoint EXCEPT ![b] = <<"charge", cur[w][2]>>]
    /\ latest' = [latest EXCEPT ![b] = tick[w]]
    /\ lastPush' = [lastPush EXCEPT ![w] = [@ EXCEPT ![b] = <<tick[w][1], tick[w][2], cur[w][2]>>]]
    /\ UNCHANGED <<storeVars, plantMode, tick, queue, cur, applied>>

\* The plant takes the command of the row in hand; its answer may be lost.
Accept(w, b, answered) ==
    /\ pc[w] = "command"
    /\ cur[w][1] = b
    /\ plantMode[b] = "dispatch"
    /\ cur[w][2] \in -MaxPower[b]..MaxPower[b]
    /\ pc' = [pc EXCEPT ![w] = IF answered THEN "ok" ELSE "error"]
    /\ setpoint' = [setpoint EXCEPT ![b] = CommandOf(cur[w][2])]
    /\ latest' = [latest EXCEPT ![b] = tick[w]]
    /\ lastPush' = [lastPush EXCEPT ![w] = [@ EXCEPT ![b] = <<tick[w][1], tick[w][2], cur[w][2]>>]]
    /\ UNCHANGED <<storeVars, plantMode, tick, queue, cur, applied>>

\* The command does not arrive, or the plant refuses it.
Refuse(w) ==
    /\ pc[w] = "command"
    /\ pc' = [pc EXCEPT ![w] = "error"]
    /\ UNCHANGED <<storeVars, plantVars, tick, queue, cur, applied>>

\* (Marks the row whether or not the push succeeded.)
BugMarkAlways(w) ==
    /\ pc[w] \in {"ok", "error"}
    /\ pc' = [pc EXCEPT ![w] = "rows"]
    /\ cur' = [cur EXCEPT ![w] = NoRowInHand]
    /\ applied' = [applied EXCEPT ![w] = @ \cup {Marker(w, cur[w])}]
    /\ UNCHANGED <<storeVars, plantVars, tick, queue>>

\* Only a push that succeeded is marked; the others are tried next cycle.
RowDone(w) ==
    /\ pc[w] \in {"ok", "error"}
    /\ pc' = [pc EXCEPT ![w] = "rows"]
    /\ cur' = [cur EXCEPT ![w] = NoRowInHand]
    /\ applied' = [applied EXCEPT ![w] =
            IF pc[w] = "ok" THEN @ \cup {Marker(w, cur[w])} ELSE @]
    /\ UNCHANGED <<storeVars, plantVars, tick, queue>>

-----------------------------------------------------------------------------
\* The plants and the operator.

\* POST /batteries/{id}/dispatch: the route sets the mode and commands.
ManualDispatch(b, c) ==
    /\ Live(b)
    /\ b \in Huawei
    /\ plantMode[b] # "gone"
    /\ plantMode' = [plantMode EXCEPT ![b] = "dispatch"]
    /\ setpoint' = [setpoint EXCEPT ![b] = c]
    /\ UNCHANGED <<storeVars, latest, lastPush, workerVars>>

\* The route tries to create the plant in the simulator; a plant of the
\* vendor's cloud is there already.
CreateBattery(b, made) ==
    /\ CreateRow(b)
    /\ plantMode' = [plantMode EXCEPT ![b] = IF made THEN "local" ELSE @]
    /\ UNCHANGED <<setpoint, latest, lastPush, workerVars>>

\* The plant is removed first, best effort, then the rows.
DeleteBattery(b, removed) ==
    /\ DeleteRow(b)
    /\ plantMode' = [plantMode EXCEPT ![b] = IF removed THEN "gone" ELSE @]
    /\ UNCHANGED <<setpoint, latest, lastPush, workerVars>>

\* Clock, activation and planning, which touch neither plants nor workers.
Planning ==
    /\ \/ AdvanceClock
       \/ \E bs \in SUBSET Batteries, flag \in BOOLEAN : SetActive(bs, flag)
       \/ \E b \in Batteries, d \in Dates, q \in QHs, p \in RowPowers : CreatePlan(b, d, q, p)
       \/ \E bs \in SUBSET Batteries, d \in PastDates, row \in DayRows : ReplaceDay(bs, d, row)
    /\ UNCHANGED <<plantVars, workerVars>>

Work(w) ==
    \/ Start(w) \/ BeginCycle(w) \/ ReadPlans(w) \/ EndCycle(w) \/ RowDone(w)
    \/ \E r \in Rows : NextRow(w, r)
    \/ \E b \in Batteries, works \in BOOLEAN : SetMode(w, b, works)
    \/ Refuse(w)

Next ==
    \/ \E w \in Workers :
          \/ Work(w)
          \/ Crash(w)
          \/ ReadFails(w)
          \/ \E b \in Batteries, answered \in BOOLEAN : Accept(w, b, answered)
    \/ \E b \in Batteries, c \in ManualCommands : ManualDispatch(b, c)
    \/ \E b \in Batteries, ok \in BOOLEAN : CreateBattery(b, ok) \/ DeleteBattery(b, ok)
    \/ Planning

Spec == Init /\ [][Next]_vars

\* The event loop keeps running the worker, and a database and a plant that
\* are asked again and again answer at last.
FairWorker(w) ==
    /\ WF_vars(Work(w))
    /\ SF_vars(ReadPlans(w))
    /\ \A b \in Batteries : SF_vars(SetMode(w, b, TRUE)) /\ SF_vars(Accept(w, b, TRUE))

FairSpec == Spec /\ \A w \in Workers : FairWorker(w)

-----------------------------------------------------------------------------
\* The markers are those of the day of the last cycle: they neither pile up over
\* the days nor hide a slot of another day.
OneDayOfMarkers == \A w \in Workers : \A m \in applied[w] : m[2] = tick[w][1]

\* The row in hand has not been pushed before by this process, and an answer in
\* hand is about a command the plant did take.
RowInHandIsNew ==
    \A w \in Workers : pc[w] \in {"mode", "command", "ok"} =>
        /\ Marker(w, cur[w]) \notin applied[w]
        /\ pc[w] = "ok" => lastPush[w][cur[w][1]] = <<tick[w][1], tick[w][2], cur[w][2]>>

SlotOf(push) == IF push = NoPush THEN NoPush ELSE <<push[1], push[2]>>

\* The clock has shown slot x, and then y, or both at one instant.
ShownInOrder(x, y) ==
    \E t1 \in 0..now : \E t2 \in t1..now : Calendar[t1] = x /\ Calendar[t2] = y

\* However slow its cycles are, a worker never gives a plant the setpoint of an
\* earlier quarter-hour after that of a later one.  (Of two workers, one in a slow
\* cycle can: what a plant is left with then is DueGetsPushed.)
SlotsInOrder ==
    [][\A w \in Workers, b \in Batteries :
          (lastPush[w][b] # NoPush /\ lastPush'[w][b] # lastPush[w][b]) =>
              ShownInOrder(SlotOf(lastPush[w][b]), SlotOf(lastPush'[w][b]))]_vars

Ledger == INSTANCE SetpointLedger
            WITH up <- [w \in Workers |-> pc[w] # "down"], ledger <- applied,
                 lastSlot <- [w \in Workers |-> [b \in Batteries |-> SlotOf(lastPush[w][b])]]

\* Each worker keeps its ledger: retried until acknowledged, then never again in
\* the day by that process, whatever fails, restarts, is overridden or is pushed
\* by the others.
ImplementsLedger == Ledger!Spec

Slot(b) == <<b, Calendar[now][1], Calendar[now][2]>>

\* The battery is managed, the processes run, and there is a row its plant can
\* follow now.
Due(b) ==
    /\ \A w \in Workers : pc[w] # "down"
    /\ status[b] = "active"
    /\ plantMode[b] # "gone"
    /\ plans[Slot(b)] # NoRow
    /\ plans[Slot(b)] \in -MaxPower[b]..MaxPower[b]

\* core/dispatch_applier.py:15: "the VPP keeps pushing the correct setpoint every
\* QH".  A battery that stays due ends with the setpoint of the current
\* quarter-hour as the last one pushed to it, also when one worker, in a slow
\* cycle, pushed an older one after the others were done: that worker comes to
\* the current one, too.  It holds as long as the wall clock never shows a
\* quarter-hour twice.
DueGetsPushed ==
    \A b \in Huawei : <>[]Due(b) => <>[](latest[b] = Calendar[now])
=============================================================================
