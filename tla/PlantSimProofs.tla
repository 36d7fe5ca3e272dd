--------------------------- MODULE PlantSimProofs ---------------------------
(***************************************************************************)
(* For any number of plants, tasks and callers, any rating and any bound   *)
(* of time: what a simulated plant shows agrees with what its battery      *)
(* does, a plant that is not there has no mode, pending task or limit of   *)
(* the server, a charge moves within the rating, and the client's own      *)
(* limit keeps to that of the server.                                      *)
(***************************************************************************)
EXTENDS PlantSim, TLAPS

\* A battery as TypeOK and SwitchTellsPower want it.
Sound(b) ==
    /\ b \in Battery
    /\ b.soc \in SocMin..SocMax
    /\ b.power \in -MaxPower..MaxPower
    /\ b.updated <= now
    /\ b.switch = "charge" <=> b.power > 0
    /\ b.switch = "discharge" <=> b.power < 0

BatteriesSound ==
    /\ battery \in [Plants -> Battery \cup {None}]
    /\ \A p \in Plants : Present(p) => Sound(battery[p])

\* What TypeOK says beside that.
RestTyped ==
    /\ use \in Uses
    /\ now \in Times
    /\ mode \subseteq Plants
    /\ tasks \in [Tasks -> Task \cup {None}]
    /\ \A r \in Tasks : tasks[r] # None => tasks[r].created <= now
    /\ pending \in [Plants -> Tasks \cup {None}]
    /\ \A p \in Plants : pending[p] # None => tasks[pending[p]] # None /\ tasks[pending[p]].plant = p
    /\ lastSim \in [Plants -> (0..now) \cup {None}]
    /\ lastKpi \in [Plants -> (0..now) \cup {None}]
    /\ lastCall \in [Plants -> (0..now) \cup {None}]
    /\ asking \in [Callers -> Call \cup {None}]

IInv == BatteriesSound /\ RestTyped /\ AbsentPlantIsClear

-----------------------------------------------------------------------------
\* What each of the three operations on a battery gives.

LEMMA NewSound ==
    ASSUME RestTyped, NEW soc \in Int
    PROVE  Sound(New(soc))
  BY SimAssumption DEF Sound, New, Battery, Switches, Larger, Smaller, RestTyped, Times

LEMMA DivMonotone ==
    ASSUME NEW m \in Int, NEW n \in Int, m <= n, NEW d \in Nat \ {0}
    PROVE  /\ m \div d \in Int
           /\ m \div d <= n \div d
           /\ m >= 0 => m \div d >= 0
  OBVIOUS

LEMMA TimesMonotone ==
    ASSUME NEW m \in Int, NEW n \in Int, m <= n, NEW d \in Nat
    PROVE  /\ m * d \in Int
           /\ m * d <= n * d
           /\ m >= 0 => m * d >= 0
  OBVIOUS

\* More power, more energy; no power, none.
LEMMA GainMonotone ==
    ASSUME NEW x \in Int, NEW y \in Int, x <= y
    PROVE  /\ Gain(x) \in Int
           /\ Gain(x) <= Gain(y)
           /\ Gain(0) = 0
<1>5. Gain(0) = 0
  <2>1. (-0 * EffDen) \div EffNum = 0
    BY SimAssumption
  <2>. QED  BY <2>1 DEF Gain
<1>1. ASSUME NEW z \in Int
      PROVE  /\ Gain(z) \in Int
             /\ z > 0 => Gain(z) >= 0
             /\ z <= 0 => Gain(z) <= 0
  <2>1. CASE z > 0
    <3>1. z * EffNum \in Int /\ z * EffNum >= 0
      BY <2>1, SimAssumption, TimesMonotone
    <3>. QED  BY <2>1, <3>1, SimAssumption, DivMonotone DEF Gain
  <2>2. CASE z <= 0
    <3>1. (-z) * EffDen \in Int /\ (-z) * EffDen >= 0
      BY <2>2, SimAssumption, TimesMonotone
    <3>2. (-z * EffDen) \div EffNum \in Int /\ (-z * EffDen) \div EffNum >= 0
      BY <3>1, SimAssumption, DivMonotone
    <3>. QED  BY <2>2, <3>2 DEF Gain
  <2>. QED  BY <2>1, <2>2
<1>2. CASE x > 0 /\ y > 0
  <2>1. /\ x * EffNum \in Int /\ y * EffNum \in Int
        /\ x * EffNum <= y * EffNum
    BY SimAssumption, TimesMonotone
  <2>. QED  BY <1>1, <1>2, <1>5, <2>1, SimAssumption, DivMonotone DEF Gain
<1>3. CASE x <= 0 /\ y <= 0
  <2>1. /\ (-x) * EffDen \in Int /\ (-y) * EffDen \in Int
        /\ (-y) * EffDen <= (-x) * EffDen
    BY SimAssumption, TimesMonotone
  <2>2. (-y * EffDen) \div EffNum <= (-x * EffDen) \div EffNum
    BY <2>1, SimAssumption, DivMonotone
  <2>3. /\ (-x * EffDen) \div EffNum \in Int
        /\ (-y * EffDen) \div EffNum \in Int
        /\ Gain(x) = -((-x * EffDen) \div EffNum)
        /\ Gain(y) = -((-y * EffDen) \div EffNum)
    BY <1>3, <2>1, SimAssumption, DivMonotone DEF Gain
  <2>. QED  BY <1>5, <2>2, <2>3
<1>4. CASE x <= 0 /\ y > 0
  <2>1. Gain(x) \in Int /\ Gain(y) \in Int /\ Gain(x) <= 0 /\ Gain(y) >= 0
    BY <1>1, <1>4
  <2>. QED  BY <1>5, <2>1
<1>. QED  BY <1>2, <1>3, <1>4

LEMMA Clamped ==
    ASSUME NEW soc \in Int
    PROVE  Larger(SocMin, Smaller(SocMax, soc)) \in SocMin..SocMax
  BY SimAssumption DEF Larger, Smaller

LEMMA AdvancedSound ==
    ASSUME RestTyped, NEW b, Sound(b)
    PROVE  Sound(Advanced(b))
<1>1. /\ b.power \in Int /\ b.soc \in Int /\ now \in Nat /\ now - b.updated \in Nat
      /\ Gain(b.power) \in Int
  <2>1. b.power \in Int /\ b.soc \in Int /\ b.updated \in Nat /\ b.updated <= now /\ now \in Nat
    BY SimAssumption DEF Sound, Battery, RestTyped, Times
  <2>. QED  BY <2>1, GainMonotone
<1>2. b.soc + Gain(b.power) * (now - b.updated) \in Int
  BY <1>1
<1>3. PICK soc \in SocMin..SocMax :
          soc = Larger(SocMin, Smaller(SocMax, b.soc + Gain(b.power) * (now - b.updated)))
  BY <1>2, Clamped
<1> DEFINE ends == (b.power > 0 /\ soc = SocMax) \/ (b.power < 0 /\ soc = SocMin)
<1>4. Advanced(b) = [soc |-> soc, updated |-> now,
                     power |-> IF ends THEN 0 ELSE b.power,
                     switch |-> IF ends THEN "stop" ELSE b.switch]
  BY <1>3 DEF Advanced
<1>5. CASE ends
  BY <1>1, <1>4, <1>5, SimAssumption DEF Sound, Battery, Switches
<1>6. CASE ~ends
  BY <1>1, <1>4, <1>6, SimAssumption DEF Sound, Battery, Switches
<1>. QED  BY <1>5, <1>6

LEMMA CommandedSound ==
    ASSUME NEW b, Sound(b), NEW switch \in Switches, NEW power \in Int,
           switch # "stop" => power > 0
    PROVE  Sound(Commanded(b, switch, power))
<1> DEFINE x == CASE switch = "charge"    -> Smaller(power, MaxPower)
                  [] switch = "discharge" -> -Smaller(power, MaxPower)
                  [] OTHER                -> 0
<1>1. /\ x \in -MaxPower..MaxPower
      /\ switch = "charge" <=> x > 0
      /\ switch = "discharge" <=> x < 0
  BY SimAssumption DEF Smaller, Switches
<1>2. b = [soc |-> b.soc, power |-> b.power, switch |-> b.switch, updated |-> b.updated]
  BY DEF Sound, Battery
<1>3. Commanded(b, switch, power) = [b EXCEPT !.switch = switch, !.power = x]
  BY DEF Commanded
<1> HIDE DEF x
<1>4. Commanded(b, switch, power)
         = [soc |-> b.soc, power |-> x, switch |-> switch, updated |-> b.updated]
  BY <1>2, <1>3
<1>. QED  BY <1>1, <1>4, SimAssumption DEF Sound, Battery

-----------------------------------------------------------------------------
\* One battery changes.
LEMMA BatteryStep ==
    ASSUME BatteriesSound, NEW p \in Plants, NEW b, b = None \/ Sound(b),
           battery' = [battery EXCEPT ![p] = b], now' = now
    PROVE  /\ BatteriesSound'
           /\ \A q \in Plants : battery'[q] = IF q = p THEN b ELSE battery[q]
<1>1. \A q \in Plants : battery'[q] = IF q = p THEN b ELSE battery[q]
  BY DEF BatteriesSound
<1>2. battery' \in [Plants -> Battery \cup {None}]
  BY DEF BatteriesSound, Sound
<1>3. ASSUME NEW q \in Plants, Present(q)'
      PROVE  Sound(battery[q])'
  <2>1. Sound(battery'[q])
    BY <1>1, <1>3 DEF BatteriesSound, Present
  <2>. QED  BY <2>1 DEF Sound
<1>. QED  BY <1>1, <1>2, <1>3 DEF BatteriesSound

\* A look at a battery is the step of one that is there, or none.
LEMMA LookStep ==
    ASSUME BatteriesSound, RestTyped, NEW p \in Plants, LookAt(p), now' = now
    PROVE  /\ BatteriesSound'
           /\ \A q \in Plants : Present(q)' <=> Present(q)
<1> DEFINE b == IF battery[p] = None THEN None ELSE Advanced(battery[p])
<1>1. battery' = [battery EXCEPT ![p] = b]
  BY DEF LookAt
<1>2. battery[p] # None => Sound(b) /\ b # None
  <2> SUFFICES ASSUME battery[p] # None PROVE Sound(b) /\ b # None
    OBVIOUS
  <2>1. Sound(battery[p])
    BY DEF BatteriesSound, Present
  <2>2. Sound(b)
    BY <2>1, AdvancedSound
  <2>. QED  BY <2>2, SimAssumption DEF Sound
<1>3. b = None \/ Sound(b)
  BY <1>2
<1>4. battery[p] = None => b = None
  OBVIOUS
<1> HIDE DEF b
<1>5. /\ BatteriesSound'
      /\ \A q \in Plants : battery'[q] = IF q = p THEN b ELSE battery[q]
  BY <1>1, <1>3, BatteryStep
<1>. QED  BY <1>2, <1>4, <1>5 DEF Present

LEMMA CommandStep ==
    ASSUME BatteriesSound, NEW p \in Plants, Present(p), now' = now,
           NEW switch \in Switches, NEW power \in Int, switch # "stop" => power > 0,
           battery' = [battery EXCEPT ![p] = Commanded(@, switch, power)]
    PROVE  /\ BatteriesSound'
           /\ \A q \in Plants : Present(q)' <=> Present(q)
<1> DEFINE b == Commanded(battery[p], switch, power)
<1>1. battery' = [battery EXCEPT ![p] = b]
  OBVIOUS
<1>2. Sound(b)
  BY CommandedSound DEF BatteriesSound, Present
<1> HIDE DEF b
<1>3. b # None
  BY <1>2, SimAssumption DEF Sound
<1>4. /\ BatteriesSound'
      /\ \A q \in Plants : battery'[q] = IF q = p THEN b ELSE battery[q]
  BY <1>1, <1>2, BatteryStep
<1>. QED  BY <1>3, <1>4 DEF Present

\* A task is recorded.
LEMMA RecordStep ==
    ASSUME RestTyped, NEW r \in Tasks, NEW p \in Plants, NEW switch \in Switches,
           Record(r, p, switch, FALSE) \/ Record(r, p, switch, TRUE), now' = now
    PROVE  /\ tasks' \in [Tasks -> Task \cup {None}]
           /\ tasks'[r] # None /\ tasks'[r].plant = p
           /\ \A s \in Tasks : tasks'[s] # None => tasks'[s].created <= now'
           /\ \A s \in Tasks : tasks[s] # None => tasks'[s] = tasks[s]
<1>1. PICK t \in Task : /\ t.plant = p /\ t.created = now
                          /\ tasks' = [tasks EXCEPT ![r] = t]
  <2>1. now \in Nat
    BY DEF RestTyped, Times
  <2>2. ASSUME NEW complete \in BOOLEAN
        PROVE  [plant |-> p, switch |-> switch, complete |-> complete, created |-> now] \in Task
    BY <2>1 DEF Task
  <2>. QED  BY <2>2 DEF Record
<1>2. tasks[r] = None /\ t # None
  BY SimAssumption DEF Record
<1>. QED  BY <1>1, <1>2, SimAssumption DEF RestTyped, Times

-----------------------------------------------------------------------------
\* One lemma per group of actions.

LEMMA FleetIInv ==
    ASSUME IInv, NEW p \in Plants, Fleet(p)
    PROVE  IInv'
<1> USE DEF IInv
<1>1. CASE DeleteBattery(p)
  <2>1. /\ BatteriesSound'
        /\ \A q \in Plants : battery'[q] = IF q = p THEN None ELSE battery[q]
    BY <1>1, BatteryStep DEF DeleteBattery
  <2>2. RestTyped'
    BY <1>1 DEF DeleteBattery, RestTyped, client
  <2>3. AbsentPlantIsClear'
    BY <1>1, <2>1 DEF DeleteBattery, RestTyped, AbsentPlantIsClear, Present
  <2>. QED  BY <2>1, <2>2, <2>3
<1>2. CASE InjectFault(p)
  <2>1. /\ BatteriesSound'
        /\ \A q \in Plants : Present(q)' <=> Present(q)
    <3>1. /\ Present(p) /\ now' = now /\ "stop" \in Switches /\ 0 \in Int
          /\ battery' = [battery EXCEPT ![p] = Commanded(@, "stop", 0)]
      BY <1>2 DEF InjectFault, Switches
    <3>. QED  BY <3>1, CommandStep
  <2>2. RestTyped' /\ AbsentPlantIsClear'
    BY <1>2, <2>1 DEF InjectFault, RestTyped, AbsentPlantIsClear, client
  <2>. QED  BY <2>1, <2>2
<1>3. ASSUME NEW soc \in InitialSocs, AddBattery(p, soc)
      PROVE  IInv'
  <2>1. Sound(New(soc))
    BY SimAssumption, NewSound
  <2>2. New(soc) # None
    BY <2>1, SimAssumption DEF Sound
  <2>3. /\ BatteriesSound'
        /\ \A q \in Plants : battery'[q] = IF q = p THEN New(soc) ELSE battery[q]
    BY <1>3, <2>1, BatteryStep DEF AddBattery
  <2>4. RestTyped' /\ AbsentPlantIsClear'
    BY <1>3, <2>2, <2>3 DEF AddBattery, RestTyped, AbsentPlantIsClear, Present, client
  <2>. QED  BY <2>3, <2>4
<1>. QED  BY <1>1, <1>2, <1>3 DEF Fleet

LEMMA DispatchIInv ==
    ASSUME IInv, NEW r \in Tasks, NEW p \in Plants, NEW switch \in Switches, NEW power \in Int,
           switch # "stop" => power > 0,
           Dispatch(r, p, switch, power)
    PROVE  IInv'
<1> USE DEF IInv
<1>1. /\ Present(p) /\ now' = now
      /\ battery' = [battery EXCEPT ![p] = Commanded(@, switch, power)]
      /\ Record(r, p, switch, FALSE)
      /\ UNCHANGED <<use, mode, pending, lastSim, lastKpi, lastCall, asking>>
  BY DEF Dispatch, client
<1>2. /\ BatteriesSound'
      /\ \A q \in Plants : Present(q)' <=> Present(q)
  BY <1>1, CommandStep
<1>3. RestTyped'
  <2>1. /\ tasks' \in [Tasks -> Task \cup {None}]
        /\ tasks'[r] # None /\ tasks'[r].plant = p
        /\ \A s \in Tasks : tasks'[s] # None => tasks'[s].created <= now'
        /\ \A s \in Tasks : tasks[s] # None => tasks'[s] = tasks[s]
    BY <1>1, RecordStep
  <2>. QED  BY <1>1, <2>1 DEF RestTyped
<1>4. AbsentPlantIsClear'
  BY <1>1, <1>2 DEF AbsentPlantIsClear
<1>. QED  BY <1>2, <1>3, <1>4

\* A stop of a plant in dispatch mode finds it, although nobody looks for it.
LEMMA StopDispatchIInv ==
    ASSUME IInv, NEW r \in Tasks, NEW p \in Plants, StopDispatch(r, p)
    PROVE  IInv'
<1> USE DEF IInv
<1>1. /\ Present(p) /\ now' = now /\ "stop" \in Switches /\ 0 \in Int
      /\ battery' = [battery EXCEPT ![p] = Commanded(@, "stop", 0)]
      /\ UNCHANGED <<use, mode, pending, lastSim, lastKpi, lastCall, asking>>
  BY DEF StopDispatch, InDispatchMode, AbsentPlantIsClear, client, Switches
<1>5. Record(r, p, "stop", TRUE)
  BY Zenon DEF StopDispatch
<1>2. /\ BatteriesSound'
      /\ \A q \in Plants : Present(q)' <=> Present(q)
  BY <1>1, CommandStep
<1>3. RestTyped'
  <2>1. /\ tasks' \in [Tasks -> Task \cup {None}]
        /\ tasks'[r] # None /\ tasks'[r].plant = p
        /\ \A s \in Tasks : tasks'[s] # None => tasks'[s].created <= now'
        /\ \A s \in Tasks : tasks[s] # None => tasks'[s] = tasks[s]
    BY <1>1, <1>5, RecordStep
  <2>. QED  BY <1>1, <2>1 DEF RestTyped
<1>4. AbsentPlantIsClear'
  BY <1>1, <1>2 DEF AbsentPlantIsClear
<1>. QED  BY <1>2, <1>3, <1>4

LEMMA OrderIInv ==
    ASSUME IInv, NEW r \in Tasks, NEW p \in Plants, NEW switch \in Switches, NEW power \in Int,
           switch # "stop" => power > 0,
           Order(r, p, switch, power)
    PROVE  IInv'
<1> USE DEF IInv
<1>1. /\ Present(p) /\ now' = now
      /\ battery' = [battery EXCEPT ![p] = Commanded(@, switch, power)]
      /\ Record(r, p, switch, FALSE)
      /\ pending' = [pending EXCEPT ![p] = r]
      /\ UNCHANGED <<use, mode, lastSim, lastKpi, lastCall, asking>>
  BY DEF Order, client
<1>2. /\ BatteriesSound'
      /\ \A q \in Plants : Present(q)' <=> Present(q)
  BY <1>1, CommandStep
<1>3. RestTyped'
  <2>1. /\ tasks' \in [Tasks -> Task \cup {None}]
        /\ tasks'[r] # None /\ tasks'[r].plant = p
        /\ \A s \in Tasks : tasks'[s] # None => tasks'[s].created <= now'
        /\ \A s \in Tasks : tasks[s] # None => tasks'[s] = tasks[s]
    BY <1>1, RecordStep
  <2>. QED  BY <1>1, <2>1 DEF RestTyped
<1>4. AbsentPlantIsClear'
  BY <1>1, <1>2 DEF AbsentPlantIsClear, RestTyped
<1>. QED  BY <1>2, <1>3, <1>4

LEMMA HaltIInv ==
    ASSUME IInv, NEW r \in Tasks, NEW p \in Plants, Halt(r, p)
    PROVE  IInv'
<1> USE DEF IInv
<1>1. /\ now' = now /\ "stop" \in Switches /\ 0 \in Int
      /\ pending' = [pending EXCEPT ![p] = None]
      /\ UNCHANGED <<use, mode, lastSim, lastKpi, lastCall, asking>>
  BY DEF Halt, client, Switches
<1>5. Record(r, p, "stop", TRUE)
  BY Zenon DEF Halt
<1>2. /\ BatteriesSound'
      /\ \A q \in Plants : Present(q)' <=> Present(q)
  <2>1. CASE Present(p)
    <3>1. battery' = [battery EXCEPT ![p] = Commanded(@, "stop", 0)]
      BY <2>1 DEF Halt, Present
    <3>. QED  BY <1>1, <2>1, <3>1, CommandStep
  <2>2. CASE ~Present(p)
    <3>1. battery' = battery
      BY <2>2 DEF Halt, Present, BatteriesSound
    <3>. QED  BY <1>1, <3>1 DEF BatteriesSound, Present, Sound
  <2>. QED  BY <2>1, <2>2
<1>3. RestTyped'
  <2>1. /\ tasks' \in [Tasks -> Task \cup {None}]
        /\ tasks'[r] # None /\ tasks'[r].plant = p
        /\ \A s \in Tasks : tasks'[s] # None => tasks'[s].created <= now'
        /\ \A s \in Tasks : tasks[s] # None => tasks'[s] = tasks[s]
    BY <1>1, <1>5, RecordStep
  <2>. QED  BY <1>1, <2>1 DEF RestTyped
<1>4. AbsentPlantIsClear'
  BY <1>1, <1>2 DEF AbsentPlantIsClear, RestTyped
<1>. QED  BY <1>2, <1>3, <1>4

LEMMA TaskIInv ==
    ASSUME IInv, NEW r \in Tasks, NEW p \in Plants, GetTaskStatus(r) \/ WaitForTask(r, p)
    PROVE  IInv'
<1> USE DEF IInv
<1>1. /\ tasks[r] # None /\ tasks' = [tasks EXCEPT ![r].complete = TRUE]
      /\ UNCHANGED <<use, now, battery, mode, lastSim, lastKpi, lastCall, asking>>
      /\ pending' = pending \/ pending' = [pending EXCEPT ![p] = None]
  BY DEF GetTaskStatus, WaitForTask, client
<1>2. tasks[r] \in Task
  BY <1>1 DEF RestTyped
<1>3. PICK t \in Task : /\ t.plant = tasks[r].plant /\ t.created = tasks[r].created
                          /\ tasks' = [tasks EXCEPT ![r] = t]
  <2>1. [tasks[r] EXCEPT !.complete = TRUE] \in Task
    BY <1>2 DEF Task
  <2>2. /\ [tasks[r] EXCEPT !.complete = TRUE].plant = tasks[r].plant
        /\ [tasks[r] EXCEPT !.complete = TRUE].created = tasks[r].created
    BY <1>2 DEF Task
  <2>. QED  BY <1>1, <2>1, <2>2
<1>6. t # None
  BY SimAssumption
<1>7. /\ tasks' \in [Tasks -> Task \cup {None}]
      /\ \A s \in Tasks : tasks'[s] # None => tasks'[s].created <= now
      /\ \A s \in Tasks : tasks[s] # None => tasks'[s] # None /\ tasks'[s].plant = tasks[s].plant
  BY <1>1, <1>3, <1>6 DEF RestTyped
<1>4. RestTyped'
  BY <1>1, <1>7 DEF RestTyped
<1>5. BatteriesSound' /\ AbsentPlantIsClear'
  BY <1>1 DEF BatteriesSound, Present, Sound, AbsentPlantIsClear, RestTyped
<1>. QED  BY <1>4, <1>5

LEMMA ReadIInv ==
    ASSUME IInv, NEW p \in Plants,
           GetBatteryStatus(p) \/ GetBatteryRealtime(p) \/ GetDevRealKpi(p)
    PROVE  IInv'
<1> USE DEF IInv
<1>1. /\ LookAt(p) /\ now' = now
      /\ UNCHANGED <<use, mode, tasks, pending, lastCall, asking>>
      /\ lastSim' = lastSim \/ lastSim' = [lastSim EXCEPT ![p] = now]
      /\ lastKpi' = lastKpi \/ (Present(p) /\ lastKpi' = [lastKpi EXCEPT ![p] = now])
  BY DEF GetBatteryStatus, GetBatteryRealtime, GetDevRealKpi, client
<1>2. /\ BatteriesSound'
      /\ \A q \in Plants : Present(q)' <=> Present(q)
  BY <1>1, LookStep
<1>3. RestTyped'
  BY <1>1, SimAssumption DEF RestTyped, Times
<1>4. AbsentPlantIsClear'
  BY <1>1, <1>2 DEF AbsentPlantIsClear, RestTyped
<1>. QED  BY <1>2, <1>3, <1>4

LEMMA ClientIInv ==
    ASSUME IInv, NEW c \in Callers, Client(c)
    PROVE  IInv'
<1> USE DEF IInv
<1>0. /\ now' = now /\ now \in 0..now
      /\ UNCHANGED <<use, mode, tasks, pending, lastSim>>
  BY SimAssumption DEF Client, CheckRateLimit, Arrive, RecordCall, Lose, RestTyped, Times
<1>3. CASE Lose(c)
  <2>1. /\ UNCHANGED <<battery, lastKpi, lastCall>>
        /\ asking' \in [Callers -> Call \cup {None}]
    BY <1>3 DEF Lose, RestTyped
  <2>. QED  BY <1>0, <2>1 DEF RestTyped, BatteriesSound, Present, Sound, AbsentPlantIsClear
<1>1. ASSUME NEW p \in Plants, CheckRateLimit(c, p) \/ RecordCall(c, p)
      PROVE  IInv'
  <2>1. /\ UNCHANGED <<battery, lastKpi>>
        /\ lastCall' = lastCall \/ lastCall' = [lastCall EXCEPT ![p] = now]
        /\ asking' \in [Callers -> Call \cup {None}]
    BY <1>1 DEF CheckRateLimit, RecordCall, RestTyped, Call
  <2>. QED  BY <1>0, <2>1 DEF RestTyped, BatteriesSound, Present, Sound, AbsentPlantIsClear
<1>2. ASSUME NEW p \in Plants, Arrive(c, p)
      PROVE  IInv'
  <2>1. /\ lastCall' = lastCall
        /\ asking' \in [Callers -> Call \cup {None}]
        /\ lastKpi' = lastKpi \/ (Present(p) /\ lastKpi' = [lastKpi EXCEPT ![p] = now])
    BY <1>2 DEF Arrive, Sent, RestTyped, Call
  <2>2. /\ BatteriesSound'
        /\ \A q \in Plants : Present(q)' <=> Present(q)
    <3>1. CASE battery' = battery
      BY <1>0, <3>1 DEF BatteriesSound, Present, Sound
    <3>2. CASE LookAt(p)
      BY <1>0, <3>2, LookStep
    <3>. QED  BY <1>2, <3>1, <3>2 DEF Arrive
  <2>3. RestTyped'
    BY <1>0, <2>1 DEF RestTyped
  <2>4. AbsentPlantIsClear'
    BY <1>0, <2>1, <2>2 DEF AbsentPlantIsClear, RestTyped
  <2>. QED  BY <2>2, <2>3, <2>4
<1>. QED  BY <1>1, <1>2, <1>3 DEF Client

LEMMA PlantIInv ==
    ASSUME IInv, NEW p \in Plants, Server(p) \/ Mirror(p)
    PROVE  IInv'
<1>0. \A power \in Powers : power \in Int /\ power > 0
  BY SimAssumption
<1>1. CASE Server(p)
  <2>1. CASE SetDispatchMode(p)
    BY <2>1 DEF SetDispatchMode, IInv, RestTyped, BatteriesSound, Present, Sound, AbsentPlantIsClear, client
  <2>2. CASE GetDevRealKpi(p)
    BY <2>2, ReadIInv
  <2>3. ASSUME NEW r \in Tasks, Dispatch(r, p, "stop", 0)
        PROVE  IInv'
    <3>1. "stop" \in Switches /\ 0 \in Int
      BY DEF Switches
    <3>. QED  BY <2>3, <3>1, DispatchIInv
  <2>4. ASSUME NEW r \in Tasks, NEW switch \in {"charge", "discharge"}, NEW power \in Powers,
               Dispatch(r, p, switch, power)
        PROVE  IInv'
    <3>1. switch \in Switches /\ power \in Int /\ power > 0
      BY <1>0 DEF Switches
    <3>. QED  BY <2>4, <3>1, DispatchIInv
  <2>. QED  BY <1>1, <2>1, <2>2, <2>3, <2>4 DEF Server
<1>2. CASE Mirror(p)
  <2>1. CASE GetBatteryStatus(p) \/ GetBatteryRealtime(p)
    BY <2>1, ReadIInv
  <2>2. ASSUME NEW r \in Tasks,
               StopDispatch(r, p) \/ Halt(r, p) \/ GetTaskStatus(r) \/ WaitForTask(r, p)
        PROVE  IInv'
    BY <2>2, StopDispatchIInv, HaltIInv, TaskIInv
  <2>3. ASSUME NEW r \in Tasks, NEW switch \in {"charge", "discharge"}, NEW power \in Powers,
               Order(r, p, switch, power)
        PROVE  IInv'
    <3>1. switch \in Switches /\ power \in Int /\ power > 0
      BY <1>0 DEF Switches
    <3>. QED  BY <2>3, <3>1, OrderIInv
  <2>. QED  BY <1>2, <2>1, <2>2, <2>3 DEF Mirror
<1>. QED  BY <1>1, <1>2

LEMMA InitIInv == Init => IInv
<1> SUFFICES ASSUME Init PROVE IInv
  OBVIOUS
<1>1. /\ use \in Uses /\ now = 0 /\ mode = {}
      /\ tasks = [r \in Tasks |-> None] /\ pending = [p \in Plants |-> None]
      /\ lastSim = [p \in Plants |-> None] /\ lastKpi = [p \in Plants |-> None]
      /\ lastCall = [p \in Plants |-> None] /\ asking = [c \in Callers |-> None]
      /\ battery \in [Plants -> {None, New((SocMin + SocMax) \div 2)}]
  BY DEF Init
<1>2. RestTyped
  BY <1>1, SimAssumption DEF RestTyped, Times
<1>3. (SocMin + SocMax) \div 2 \in Int
  BY SimAssumption
<1>4. Sound(New((SocMin + SocMax) \div 2))
  BY <1>2, <1>3, NewSound
<1>5. BatteriesSound
  BY <1>1, <1>4 DEF BatteriesSound, Present, Sound
<1>6. AbsentPlantIsClear
  BY <1>1 DEF AbsentPlantIsClear
<1>. QED  BY <1>2, <1>5, <1>6 DEF IInv

LEMMA NextIInv == IInv /\ [Next]_vars => IInv'
<1> SUFFICES ASSUME IInv, [Next]_vars PROVE IInv'
  OBVIOUS
<1>1. CASE Tick
  <2>1. now \in Nat /\ now' = now + 1 /\ now < Horizon
    BY <1>1 DEF Tick, IInv, RestTyped, Times
  <2>2. RestTyped'
    BY <1>1, <2>1, SimAssumption DEF Tick, client, IInv, RestTyped, Times, Task
  <2>3. BatteriesSound' /\ AbsentPlantIsClear'
    BY <1>1, <2>1 DEF Tick, client, IInv, BatteriesSound, Present, Sound, Battery, AbsentPlantIsClear
  <2>. QED  BY <2>2, <2>3 DEF IInv
<1>2. CASE \E p \in Plants : Fleet(p) \/ Server(p) \/ Mirror(p)
  BY <1>2, FleetIInv, PlantIInv
<1>3. CASE \E c \in Callers : Client(c)
  BY <1>3, ClientIInv
<1>4. CASE UNCHANGED vars
  BY <1>4 DEF vars, IInv, RestTyped, BatteriesSound, Present, Sound, AbsentPlantIsClear
<1>. QED  BY <1>1, <1>2, <1>3, <1>4 DEF Next

LEMMA Invariance == Spec => []IInv
  BY InitIInv, NextIInv, PTL DEF Spec

-----------------------------------------------------------------------------
\* Plants, tasks and the marks of both limits keep their types: no charge leaves
\* its bounds, no power the rating, and nothing is dated later than now.
THEOREM TypeCorrect == Spec => []TypeOK
<1>1. IInv => TypeOK
  BY DEF IInv, BatteriesSound, Sound, RestTyped, TypeOK
<1>. QED  BY <1>1, Invariance, PTL

\* The switch shown says what the battery does, for every order of commands, stops
\* and looks of _BatteryState.advance().
THEOREM SwitchAlwaysTellsPower == Spec => []SwitchTellsPower
<1>1. IInv => SwitchTellsPower
  BY DEF IInv, BatteriesSound, Sound, SwitchTellsPower
<1>. QED  BY <1>1, Invariance, PTL

\* sim_delete_battery() leaves no dispatch mode, no pending task and no rate limit of
\* the server to a plant of the same code, and none of them comes to a plant that is
\* not there: no command, task or reading puts one back.
THEOREM AbsentPlantsStayClear == Spec => []AbsentPlantIsClear
<1>1. IInv => AbsentPlantIsClear
  BY DEF IInv
<1>. QED  BY <1>1, Invariance, PTL

-----------------------------------------------------------------------------
\* The limit of a client that has the plants to itself.

Answered(c, p) == asking[c] = [plant |-> p, pc |-> "answered"]

\* Its callers come one at a time, and each waits its limit.
OneByOne == \A c, d \in Callers : (asking[c] # None /\ asking[d] # None) => c = d

Waited ==
    \A c \in Callers, p \in Plants :
        (Sent(c, p) /\ lastCall[p] # None) => now - lastCall[p] >= RateLimit

\* What the server has counted the client has recorded, no earlier, or is about to.
Counted ==
    \A p \in Plants : lastKpi[p] # None =>
        \/ lastCall[p] # None /\ lastKpi[p] <= lastCall[p]
        \/ \E c \in Callers : Answered(c, p)

ClientInv == use = "alone" => OneByOne /\ Waited /\ Counted

LEMMA CallsDiffer ==
    \A p, q \in Plants :
        /\ [plant |-> p, pc |-> "sent"] # None
        /\ [plant |-> p, pc |-> "answered"] # None
        /\ [plant |-> p, pc |-> "sent"] # [plant |-> q, pc |-> "answered"]
        /\ p # q => [plant |-> p, pc |-> "sent"] # [plant |-> q, pc |-> "sent"]
        /\ p # q => [plant |-> p, pc |-> "answered"] # [plant |-> q, pc |-> "answered"]
<1> SUFFICES ASSUME NEW p \in Plants, NEW q \in Plants
             PROVE  /\ [plant |-> p, pc |-> "sent"] # None
                    /\ [plant |-> p, pc |-> "answered"] # None
                    /\ [plant |-> p, pc |-> "sent"] # [plant |-> q, pc |-> "answered"]
                    /\ p # q => [plant |-> p, pc |-> "sent"] # [plant |-> q, pc |-> "sent"]
                    /\ p # q => [plant |-> p, pc |-> "answered"] # [plant |-> q, pc |-> "answered"]
  OBVIOUS
<1>1. [plant |-> p, pc |-> "sent"] \in Call /\ [plant |-> p, pc |-> "answered"] \in Call
  BY DEF Call
<1>2. /\ [plant |-> p, pc |-> "sent"].pc = "sent" /\ [plant |-> q, pc |-> "answered"].pc = "answered"
      /\ [plant |-> p, pc |-> "sent"].plant = p /\ [plant |-> q, pc |-> "sent"].plant = q
      /\ [plant |-> p, pc |-> "answered"].plant = p /\ [plant |-> q, pc |-> "answered"].plant = q
  OBVIOUS
<1>. QED  BY <1>1, <1>2, SimAssumption

LEMMA InitClientInv == Init => ClientInv
  BY SimAssumption DEF Init, ClientInv, OneByOne, Waited, Counted, Sent, Call

\* Only Arrive and RecordCall of a client that is alone touch both limits.
LEMMA ClientStep ==
    ASSUME IInv, ClientInv, use = "alone", NEW c \in Callers, Client(c)
    PROVE  ClientInv'
<1>0. /\ now \in Nat /\ now' = now /\ RateLimit \in Nat
      /\ OneByOne /\ Waited /\ Counted
      /\ asking \in [Callers -> Call \cup {None}]
      /\ lastCall \in [Plants -> (0..now) \cup {None}]
      /\ lastKpi \in [Plants -> (0..now) \cup {None}]
  BY SimAssumption DEF IInv, RestTyped, Times, ClientInv, Client, CheckRateLimit, Arrive, RecordCall, Lose
<1>1. ASSUME NEW p \in Plants, CheckRateLimit(c, p)
      PROVE  OneByOne' /\ Waited' /\ Counted'
  <2>1. /\ \A d \in Callers : asking[d] = None
        /\ lastCall[p] # None => now - lastCall[p] >= RateLimit
        /\ asking' = [asking EXCEPT ![c] = [plant |-> p, pc |-> "sent"]]
        /\ UNCHANGED <<lastCall, lastKpi>>
    BY <1>1 DEF CheckRateLimit
  <2>2. \A d \in Callers, q \in Plants : Sent(d, q)' => d = c /\ q = p
    BY <1>0, <2>1, CallsDiffer DEF Sent
  <2>3. OneByOne' /\ Waited'
    BY <1>0, <2>1, <2>2 DEF OneByOne, Waited
  <2>4. Counted'
    BY <1>0, <2>1, CallsDiffer DEF Counted, Answered
  <2>. QED  BY <2>3, <2>4
<1>2. ASSUME NEW p \in Plants, Arrive(c, p)
      PROVE  OneByOne' /\ Waited' /\ Counted'
  <2>1. /\ asking[c] = [plant |-> p, pc |-> "sent"] /\ asking[c] # None
        /\ \A d \in Callers : d # c => asking[d] = None
        /\ lastCall' = lastCall
    BY <1>0, <1>2, CallsDiffer DEF Arrive, Sent, OneByOne
  <2>2. CASE asking' = [asking EXCEPT ![c] = None] /\ lastKpi' = lastKpi
    <3>1. \A q \in Plants : ~Answered(c, q)
      BY <2>1, CallsDiffer DEF Answered
    <3>2. \A d \in Callers, q \in Plants : ~Sent(d, q)' /\ ~Answered(d, q)
      BY <1>0, <2>1, <2>2, <3>1, CallsDiffer DEF Sent, Answered
    <3>3. Counted'
      BY <1>0, <2>1, <2>2, <3>2 DEF Counted
    <3>. QED  BY <1>0, <2>1, <2>2, <3>2, <3>3 DEF OneByOne, Waited
  <2>3. CASE /\ asking' = [asking EXCEPT ![c].pc = "answered"]
             /\ lastKpi' = IF Present(p) THEN [lastKpi EXCEPT ![p] = now] ELSE lastKpi
    <3>1. asking' = [asking EXCEPT ![c] = [plant |-> p, pc |-> "answered"]]
      <4>1. [asking[c] EXCEPT !.pc = "answered"] = [plant |-> p, pc |-> "answered"]
        BY <2>1
      <4>. QED  BY <2>3, <4>1
    <3>2. OneByOne' /\ Waited'
      BY <1>0, <2>1, <3>1, CallsDiffer DEF OneByOne, Waited, Sent
    <3>3. Answered(c, p)'
      BY <1>0, <3>1 DEF Answered
    <3>4. \A q \in Plants : q # p => lastKpi'[q] = lastKpi[q]
      BY <1>0, <2>3
    <3>5. \A q \in Plants, d \in Callers : q # p => ~Answered(d, q)
      BY <1>0, <2>1, CallsDiffer DEF Answered
    <3>6. Counted'
      BY <1>0, <2>1, <3>3, <3>4, <3>5 DEF Counted
    <3>. QED  BY <3>2, <3>6
  <2>. QED  BY <1>2, <2>2, <2>3 DEF Arrive
<1>3. ASSUME NEW p \in Plants, RecordCall(c, p)
      PROVE  OneByOne' /\ Waited' /\ Counted'
  <2>1. /\ Answered(c, p) /\ asking[c] # None
        /\ \A d \in Callers : d # c => asking[d] = None
        /\ asking' = [asking EXCEPT ![c] = None]
        /\ lastCall' = [lastCall EXCEPT ![p] = now]
        /\ lastKpi' = lastKpi
    BY <1>0, <1>3, CallsDiffer DEF RecordCall, Answered, OneByOne
  <2>2. \A d \in Callers : asking'[d] = None
    BY <1>0, <2>1
  <2>3. OneByOne' /\ Waited'
    BY <2>2, CallsDiffer DEF OneByOne, Waited, Sent
  <2>4. \A q \in Plants, d \in Callers : q # p => ~Answered(d, q)
    BY <1>0, <2>1, CallsDiffer DEF Answered
  <2>5. Counted'
    BY <1>0, <2>1, <2>4, SimAssumption DEF Counted
  <2>. QED  BY <2>3, <2>5
<1>4. use' = use /\ ~Lose(c)
  BY DEF Client, CheckRateLimit, Arrive, RecordCall, Lose
<1>. QED  BY <1>1, <1>2, <1>3, <1>4 DEF Client, ClientInv

LEMMA NextClientInv == IInv /\ ClientInv /\ [Next]_vars => ClientInv'
<1> SUFFICES ASSUME IInv, ClientInv, [Next]_vars, use' = "alone" PROVE ClientInv'
  BY DEF ClientInv
<1>0. use' = use /\ use = "alone"
  BY DEF Next, vars, Tick, Fleet, DeleteBattery, InjectFault, AddBattery, Server, SetDispatchMode,
         GetDevRealKpi, Dispatch, Mirror, GetBatteryStatus, GetBatteryRealtime, StopDispatch, Halt,
         GetTaskStatus, WaitForTask, Order, Client, CheckRateLimit, Arrive, RecordCall, Lose
<1>1. CASE \E c \in Callers : Client(c)
  BY <1>0, <1>1, ClientStep
<1>2. CASE \E p \in Plants : DeleteBattery(p)
  <2>1. /\ UNCHANGED <<now, lastCall, asking>>
        /\ \A p \in Plants : lastKpi'[p] \in {lastKpi[p], None}
    BY <1>2 DEF DeleteBattery, client, IInv, RestTyped
  <2>. QED  BY <1>0, <2>1 DEF ClientInv, OneByOne, Waited, Counted, Sent, Answered
<1>3. CASE Tick
  <2>1. now \in Nat /\ now' = now + 1 /\ UNCHANGED <<lastCall, lastKpi, asking>>
    BY <1>3 DEF Tick, client, IInv, RestTyped, Times
  <2>2. \A p \in Plants : lastCall[p] # None => lastCall[p] \in Nat
    BY <2>1 DEF IInv, RestTyped
  <2>3. RateLimit \in Nat
    BY SimAssumption
  <2>. QED  BY <1>0, <2>1, <2>2, <2>3 DEF ClientInv, OneByOne, Waited, Counted, Sent, Answered
<1>4. CASE UNCHANGED <<now, lastCall, lastKpi, asking>>
  BY <1>0, <1>4 DEF ClientInv, OneByOne, Waited, Counted, Sent, Answered
<1>5. ASSUME NEW p \in Plants, Fleet(p) \/ Server(p), ~DeleteBattery(p)
      PROVE  UNCHANGED <<now, lastCall, lastKpi, asking>>
  BY <1>0, <1>5 DEF Fleet, InjectFault, AddBattery, Server, SetDispatchMode, GetDevRealKpi, Dispatch, client
<1>6. CASE UNCHANGED vars
  BY <1>4, <1>6 DEF vars
<1>. QED  BY <1>0, <1>1, <1>2, <1>3, <1>4, <1>5, <1>6 DEF Next, Mirror

\* The limits of client.py and sim_server.py agree: a client that has the plants to
\* itself, whose callers come one at a time and whose answers arrive, is never
\* refused for its rate after the first call, for any limit and any delay.
THEOREM ClientNeverRefused == Spec => []ClientKeepsLimit
<1>1. IInv /\ ClientInv => ClientKeepsLimit
  <2> SUFFICES ASSUME IInv, ClientInv, use = "alone", NEW c \in Callers, NEW p \in Plants,
                      Sent(c, p), lastCall[p] # None
               PROVE  Due(p)
    BY DEF ClientKeepsLimit
  <2>1. /\ now \in Nat /\ RateLimit \in Nat /\ lastCall[p] \in Nat
        /\ lastKpi[p] # None => lastKpi[p] \in Nat
        /\ now - lastCall[p] >= RateLimit
    BY SimAssumption DEF IInv, RestTyped, Times, ClientInv, Waited
  <2>2. \A d \in Callers : ~Answered(d, p)
    <3>1. asking[c] # None
      BY CallsDiffer DEF Sent
    <3>. QED  BY <3>1, CallsDiffer DEF ClientInv, OneByOne, Sent, Answered
  <2>3. lastKpi[p] # None => lastKpi[p] <= lastCall[p]
    BY <2>2 DEF ClientInv, Counted
  <2>. QED  BY <2>1, <2>3 DEF Due
<1>2. Init => IInv /\ ClientInv
  BY InitIInv, InitClientInv
<1>3. IInv /\ ClientInv /\ [Next]_vars => (IInv /\ ClientInv)'
  BY NextIInv, NextClientInv
<1>. QED  BY <1>1, <1>2, <1>3, PTL DEF Spec

-----------------------------------------------------------------------------
\* Energy.

\* What advance() adds lies within what the rating gives in the time accounted for:
\* clamping a charge to its bounds only brings it nearer.
LEMMA AdvancedWithinRating ==
    ASSUME RestTyped, NEW b, Sound(b), NEW time, time = now - b.updated
    PROVE  /\ Advanced(b).updated = now
           /\ Advanced(b).soc - b.soc \in Gain(-MaxPower) * time..Gain(MaxPower) * time
<1>1. /\ b.power \in Int /\ b.soc \in SocMin..SocMax /\ time \in Nat /\ MaxPower \in Nat
      /\ -MaxPower <= b.power /\ b.power <= MaxPower
      /\ SocMin \in Nat /\ SocMax \in Nat
  BY SimAssumption DEF Sound, Battery, RestTyped, Times
<1>2. /\ Gain(b.power) \in Int /\ Gain(MaxPower) \in Int /\ Gain(-MaxPower) \in Int
      /\ Gain(-MaxPower) <= Gain(b.power) /\ Gain(b.power) <= Gain(MaxPower)
      /\ Gain(-MaxPower) <= 0 /\ 0 <= Gain(MaxPower)
  BY <1>1, GainMonotone
<1>3. PICK low \in Int : low = Gain(-MaxPower) * time
  BY <1>1, <1>2
<1>4. PICK high \in Int : high = Gain(MaxPower) * time
  BY <1>1, <1>2
<1>5. PICK gain \in Int : gain = Gain(b.power) * time
  BY <1>1, <1>2
<1>6. low <= gain /\ gain <= high /\ low <= 0 /\ 0 <= high
  BY <1>1, <1>2, <1>3, <1>4, <1>5, TimesMonotone
<1>7. /\ Advanced(b).updated = now
      /\ Advanced(b).soc = Larger(SocMin, Smaller(SocMax, b.soc + gain))
  BY <1>5 DEF Advanced
<1>8. Larger(SocMin, Smaller(SocMax, b.soc + gain)) - b.soc \in low..high
  BY <1>1, <1>6 DEF Larger, Smaller
<1>. QED  BY <1>3, <1>4, <1>7, <1>8

\* A charge moves only by advance().
LEMMA OnlyLooksMove ==
    ASSUME IInv, Next, NEW p \in Plants, Present(p), battery'[p] # None,
           battery'[p].soc # battery[p].soc
    PROVE  battery'[p] = Advanced(battery[p])
<1>1. battery \in [Plants -> Battery \cup {None}] /\ battery[p] \in Battery
  BY DEF IInv, BatteriesSound, Present
<1>2. \A q \in Plants : LookAt(q) => battery'[p] \in {battery[p], Advanced(battery[p])}
  BY <1>1 DEF LookAt, Present
<1>3. ASSUME NEW q \in Plants, NEW switch, NEW power,
             battery' = [battery EXCEPT ![q] = Commanded(@, switch, power)]
      PROVE  FALSE
  <2>1. Commanded(battery[p], switch, power).soc = battery[p].soc
    BY <1>1 DEF Commanded, Battery
  <2>2. battery'[p] = battery[p] \/ battery'[p] = Commanded(battery[p], switch, power)
    BY <1>1, <1>3
  <2>. QED  BY <2>1, <2>2
<1>4. battery' # battery
  OBVIOUS
<1>5. ASSUME NEW q \in Plants, Fleet(q)
      PROVE  FALSE
  <2>1. CASE InjectFault(q)
    BY <1>3, <2>1 DEF InjectFault
  <2>2. CASE DeleteBattery(q)
    BY <1>1, <2>2 DEF DeleteBattery
  <2>3. ASSUME NEW soc \in InitialSocs, AddBattery(q, soc)
        PROVE  FALSE
    BY <1>1, <2>3 DEF AddBattery, Present
  <2>. QED  BY <1>5, <2>1, <2>2, <2>3 DEF Fleet
<1>6. ASSUME NEW q \in Plants, Server(q) \/ Mirror(q)
      PROVE  battery'[p] = Advanced(battery[p])
  <2>1. CASE LookAt(q)
    BY <1>2, <2>1
  <2>2. CASE \E r \in Tasks : Halt(r, q)
    <3>1. battery'[p] = battery[p] \/ battery'[p] = Commanded(battery[p], "stop", 0)
      BY <1>1, <2>2, Zenon DEF Halt
    <3>2. Commanded(battery[p], "stop", 0).soc = battery[p].soc
      BY <1>1 DEF Commanded, Battery
    <3>. QED  BY <3>1, <3>2
  <2>3. CASE \E switch, power : battery' = [battery EXCEPT ![q] = Commanded(@, switch, power)]
    BY <1>3, <2>3
  <2>. QED  BY <1>4, <1>6, <2>1, <2>2, <2>3
       DEF Server, Mirror, SetDispatchMode, GetDevRealKpi, Dispatch, GetBatteryStatus,
           GetBatteryRealtime, StopDispatch, GetTaskStatus, WaitForTask, Order
<1>7. ASSUME NEW c \in Callers, Client(c)
      PROVE  battery'[p] = Advanced(battery[p])
  BY <1>2, <1>4, <1>7 DEF Client, CheckRateLimit, Arrive, RecordCall, Lose
<1>. QED  BY <1>4, <1>5, <1>6, <1>7 DEF Next, Tick

\* For every rating, efficiency and bounds, and whatever is commanded: a charge moves
\* only when its time is accounted for, and by no more than the rating gives.
THEOREM ChargeWithinRating == Spec => SocWithinRating
<1> DEFINE Within ==
      \A p \in Plants : (Present(p) /\ battery'[p] # None /\ battery'[p].soc # battery[p].soc) =>
          LET time == battery'[p].updated - battery[p].updated
          IN  /\ battery'[p].updated = now
              /\ battery'[p].soc - battery[p].soc \in Gain(-MaxPower) * time..Gain(MaxPower) * time
<1>1. IInv /\ Next => Within
  <2> SUFFICES ASSUME IInv, Next, NEW p \in Plants, Present(p), battery'[p] # None,
                      battery'[p].soc # battery[p].soc
               PROVE  LET time == battery'[p].updated - battery[p].updated
                      IN  /\ battery'[p].updated = now
                          /\ battery'[p].soc - battery[p].soc
                                \in Gain(-MaxPower) * time..Gain(MaxPower) * time
    OBVIOUS
  <2>1. battery'[p] = Advanced(battery[p])
    BY OnlyLooksMove
  <2>2. RestTyped /\ Sound(battery[p])
    BY DEF IInv, BatteriesSound
  <2>. QED  BY <2>1, <2>2, AdvancedWithinRating
<1> HIDE DEF Within
<1>2. IInv /\ [Next]_vars => [Within]_vars
  BY <1>1
<1>. QED  BY <1>2, Invariance, PTL DEF Spec, SocWithinRating, Within
=============================================================================
