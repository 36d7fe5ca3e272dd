------------------------------ MODULE PlantSim ------------------------------
(***************************************************************************)
(* connectors/huawei/simulator.py and sim_server.py: the simulated plants, *)
(* each with one battery, behind two interfaces: the methods that mirror   *)
(* the client (charge, discharge, stop, wait_for_task, with their guard)   *)
(* and the HTTP server (dispatch, real-time values, adding and removing    *)
(* plants).  Every call sleeps first and then runs without an await, so it *)
(* is one step.  A state of charge only moves when it is looked at.        *)
(* set_soc, which prepares tests, is left out.                             *)
(*                                                                         *)
(* A client (connectors/huawei/client.py) that several callers share keeps *)
(* to the server's rate limit by a limit of its own, with an await between *)
(* the check and the record of a call.                                     *)
(***************************************************************************)
EXTENDS Integers, FiniteSets

CONSTANTS
    Plants,        \* plant codes
    Callers,       \* of the client
    Tasks,         \* request identifiers: 1..n, bounds the number of commands
    MaxPower,      \* rating of a battery
    Powers,        \* powers that callers ask for
    SocMin, SocMax,
    EffNum, EffDen,  \* EFFICIENCY
    InitialSocs,   \* states of charge given for new batteries
    RateLimit,     \* between two real-time calls of a plant, of client and server
    Horizon,       \* bound of the clock
    None

Switches == {"charge", "discharge", "stop"}

\* What is kept of a battery, of a task and of a call of the client.
Battery == [soc : Int, power : Int, switch : Switches, updated : Nat]
Task == [plant : Plants, switch : Switches, complete : BOOLEAN, created : Nat]
Call == [plant : Plants, pc : {"sent", "answered"}]

ASSUME SimAssumption ==
    /\ IsFiniteSet(Tasks) /\ Tasks = 1..Cardinality(Tasks)
    /\ InitialSocs \subseteq Int
    /\ None \notin Nat /\ None \notin Battery /\ None \notin Task /\ None \notin Call
    /\ Powers \subseteq Nat \ {0} /\ MaxPower \in Nat \ {0}
    /\ SocMin \in Nat /\ SocMax \in Nat /\ SocMin < SocMax
    /\ EffNum \in Nat \ {0} /\ EffDen \in Nat \ {0}
    /\ RateLimit \in Nat /\ Horizon \in Nat

VARIABLES
    use,       \* who is served, see Uses; never changes
    now,       \* time.monotonic() since the host booted
    battery,   \* plant -> None, or [soc, power, switch, updated]
    mode,      \* plants in dispatch mode: simulator._dispatch_mode
    tasks,     \* request -> None, or [plant, switch, complete, created]
    pending,   \* plant -> request or None: simulator._pending_tasks
    lastSim,   \* plant -> time or None: simulator._last_realtime
    lastKpi,   \* plant -> time or None: sim_server._last_realtime_call
    lastCall,  \* plant -> time or None: client._last_realtime_call
    asking     \* caller -> None, or the [plant, pc] of his call of the client

\* Anybody by both interfaces; clients over HTTP, one of them shared by callers; or
\* that one alone, for one caller at a time, with no answer lost.
Uses == {"both", "clients", "alone"}

client == <<lastCall, asking>>

vars == <<use, now, battery, mode, tasks, pending, lastSim, lastKpi, lastCall, asking>>

Smaller(a, b) == IF a < b THEN a ELSE b
Larger(a, b) == IF a > b THEN a ELSE b
Present(p) == battery[p] # None

New(soc) == [soc |-> Larger(SocMin, Smaller(SocMax, soc)), power |-> 0, switch |-> "stop", updated |-> now]

Init ==
    /\ now = 0
    /\ battery \in [Plants -> {None, New((SocMin + SocMax) \div 2)}]
    /\ mode = {}
    /\ tasks = [r \in Tasks |-> None]
    /\ pending = [p \in Plants |-> None]
    /\ lastSim = [p \in Plants |-> None]
    /\ lastKpi = [p \in Plants |-> None]
    /\ use \in Uses
    /\ lastCall = [p \in Plants |-> None]
    /\ asking = [c \in Callers |-> None]

Times == 0..Horizon

TypeOK ==
    /\ use \in Uses
    /\ now \in Times
    /\ battery \in [Plants -> Battery \cup {None}]
    /\ \A p \in Plants : Present(p) =>
          /\ battery[p].soc \in SocMin..SocMax
          /\ battery[p].power \in -MaxPower..MaxPower
          /\ battery[p].updated <= now
    /\ mode \subseteq Plants
    /\ tasks \in [Tasks -> Task \cup {None}]
    /\ \A r \in Tasks : tasks[r] # None => tasks[r].created <= now
    /\ pending \in [Plants -> Tasks \cup {None}]
    /\ \A p \in Plants : pending[p] # None => tasks[pending[p]] # None /\ tasks[pending[p]].plant = p
    /\ lastSim \in [Plants -> (0..now) \cup {None}]
    /\ lastKpi \in [Plants -> (0..now) \cup {None}]
    /\ lastCall \in [Plants -> (0..now) \cup {None}]
    /\ asking \in [Callers -> Call \cup {None}]

-----------------------------------------------------------------------------
\* Definitions named Bug... are wrong versions of the definition after them, for
\* mutation testing; no specification uses them.

\* Energy gained in a unit of time.
Gain(power) ==
    IF power > 0 THEN (power * EffNum) \div EffDen
    ELSE -((-power * EffDen) \div EffNum)

\* (At a bound only the power is reset.)
BugAdvanced(b) ==
    LET soc == Larger(SocMin, Smaller(SocMax, b.soc + Gain(b.power) * (now - b.updated)))
    IN  [b EXCEPT !.soc = soc, !.updated = now,
                  !.power = IF soc \in {SocMin, SocMax} THEN 0 ELSE b.power]

\* advance(): the whole time since the last look at the power of now; a battery
\* that reaches a bound stops.
Advanced(b) ==
    LET soc == Larger(SocMin, Smaller(SocMax, b.soc + Gain(b.power) * (now - b.updated)))
        ends == (b.power > 0 /\ soc = SocMax) \/ (b.power < 0 /\ soc = SocMin)
    IN  [soc |-> soc, updated |-> now,
         power |-> IF ends THEN 0 ELSE b.power,
         switch |-> IF ends THEN "stop" ELSE b.switch]

LookAt(p) == battery' = [battery EXCEPT ![p] = IF @ = None THEN None ELSE Advanced(@)]

\* (The power is not cut to the rating.)
BugCommanded(b, switch, power) ==
    [b EXCEPT !.switch = switch, !.power = IF switch = "charge" THEN power ELSE -power]

\* A command sets the power and leaves the account of time alone.
Commanded(b, switch, power) ==
    [b EXCEPT !.switch = switch,
              !.power = CASE switch = "charge"    -> Smaller(power, MaxPower)
                          [] switch = "discharge" -> -Smaller(power, MaxPower)
                          [] OTHER                -> 0]

Record(r, p, switch, complete) ==
    /\ tasks[r] = None /\ \A s \in Tasks : s < r => tasks[s] # None
    /\ tasks' = [tasks EXCEPT ![r] =
                    [plant |-> p, switch |-> switch, complete |-> complete, created |-> now]]

\* _require_dispatch_mode()
InDispatchMode(p) == p \in mode

Tick == now < Horizon /\ now' = now + 1 /\ UNCHANGED <<use, battery, mode, tasks, pending, lastSim, lastKpi, client>>

-----------------------------------------------------------------------------
\* The fleet.  Whoever adds a plant that is there gets 409.

AddBattery(p, soc) ==
    /\ ~Present(p)
    /\ battery' = [battery EXCEPT ![p] = New(soc)]
    /\ UNCHANGED <<use, now, mode, tasks, pending, lastSim, lastKpi, client>>

\* (The dispatch mode is forgotten, the pending task is not.)
BugDeleteBattery(p) ==
    /\ Present(p)
    /\ battery' = [battery EXCEPT ![p] = None]
    /\ mode' = mode \ {p}
    /\ lastKpi' = [lastKpi EXCEPT ![p] = None]
    /\ UNCHANGED <<use, now, tasks, pending, lastSim, client>>

\* The tasks and the simulator's own rate limit are left as they are.
DeleteBattery(p) ==
    /\ Present(p)
    /\ battery' = [battery EXCEPT ![p] = None]
    /\ mode' = mode \ {p}
    /\ pending' = [pending EXCEPT ![p] = None]
    /\ lastKpi' = [lastKpi EXCEPT ![p] = None]
    /\ UNCHANGED <<use, now, tasks, lastSim, client>>

\* inject_fault(): the battery stops, whatever it was told.
InjectFault(p) ==
    /\ Present(p)
    /\ battery' = [battery EXCEPT ![p] = Commanded(@, "stop", 0)]
    /\ UNCHANGED <<use, now, mode, tasks, pending, lastSim, lastKpi, client>>

SetDispatchMode(p) ==
    /\ Present(p)
    /\ mode' = mode \cup {p}
    /\ UNCHANGED <<use, now, battery, tasks, pending, lastSim, lastKpi, client>>

-----------------------------------------------------------------------------
\* Commands.

\* dispatch(), by HTTP: no guard against a task under way; a power above the
\* rating of the plant is refused.  A stop is a task like the others.
Dispatch(r, p, switch, power) ==
    /\ InDispatchMode(p)
    /\ Present(p)
    /\ power <= MaxPower
    /\ Record(r, p, switch, FALSE)
    /\ battery' = [battery EXCEPT ![p] = Commanded(@, switch, power)]
    /\ UNCHANGED <<use, now, mode, pending, lastSim, lastKpi, client>>

StopDispatch(r, p) ==
    /\ InDispatchMode(p)
    /\ Record(r, p, "stop", TRUE)
    /\ battery' = [battery EXCEPT ![p] = Commanded(@, "stop", 0)]
    /\ UNCHANGED <<use, now, mode, pending, lastSim, lastKpi, client>>

\* charge() and discharge(), of the mirror of the client: a power above the
\* rating is cut to it.
Order(r, p, switch, power) ==
    /\ InDispatchMode(p)
    /\ pending[p] = None
    /\ Present(p)
    /\ Record(r, p, switch, FALSE)
    /\ battery' = [battery EXCEPT ![p] = Commanded(@, switch, power)]
    /\ pending' = [pending EXCEPT ![p] = r]
    /\ UNCHANGED <<use, now, mode, lastSim, lastKpi, client>>

\* stop(): in any mode, and for plants nobody knows.
Halt(r, p) ==
    /\ Record(r, p, "stop", TRUE)
    /\ battery' = [battery EXCEPT ![p] = IF @ = None THEN None ELSE Commanded(@, "stop", 0)]
    /\ pending' = [pending EXCEPT ![p] = None]
    /\ UNCHANGED <<use, now, mode, lastSim, lastKpi, client>>

-----------------------------------------------------------------------------
\* Tasks.  Neither of these asks whether the task is the one that is pending.

GetTaskStatus(r) ==
    /\ tasks[r] # None
    /\ now > tasks[r].created
    /\ tasks' = [tasks EXCEPT ![r].complete = TRUE]
    /\ UNCHANGED <<use, now, battery, mode, pending, lastSim, lastKpi, client>>

WaitForTask(r, p) ==
    /\ tasks[r] # None
    /\ tasks' = [tasks EXCEPT ![r].complete = TRUE]
    /\ pending' = [pending EXCEPT ![p] = None]
    /\ UNCHANGED <<use, now, battery, mode, lastSim, lastKpi, client>>

-----------------------------------------------------------------------------
\* Reading.

GetBatteryStatus(p) ==
    /\ Present(p)
    /\ LookAt(p)
    /\ UNCHANGED <<use, now, mode, tasks, pending, lastSim, lastKpi, client>>

\* get_battery_realtime(): also counts calls for plants nobody knows.
GetBatteryRealtime(p) ==
    /\ lastSim[p] # None => now - lastSim[p] >= RateLimit
    /\ lastSim' = [lastSim EXCEPT ![p] = now]
    /\ LookAt(p)
    /\ UNCHANGED <<use, now, mode, tasks, pending, lastKpi, client>>

\* get_dev_real_kpi(): a plant never read counts as read when the host booted.
Due(p) == now - (IF lastKpi[p] = None THEN 0 ELSE lastKpi[p]) >= RateLimit

\* A call of another client.
GetDevRealKpi(p) ==
    /\ use # "alone"
    /\ Present(p) /\ Due(p)
    /\ lastKpi' = [lastKpi EXCEPT ![p] = now]
    /\ LookAt(p)
    /\ UNCHANGED <<use, now, mode, tasks, pending, lastSim, client>>

-----------------------------------------------------------------------------
\* get_battery_realtime() and get_plant_realtime() of the client.

\* (The call is recorded when it is sent.)
BugCheckRateLimit(c, p) ==
    /\ use # "both" /\ asking[c] = None
    /\ use = "alone" => \A d \in Callers : asking[d] = None
    /\ lastCall[p] # None => now - lastCall[p] >= RateLimit
    /\ asking' = [asking EXCEPT ![c] = [plant |-> p, pc |-> "sent"]]
    /\ lastCall' = [lastCall EXCEPT ![p] = now]
    /\ UNCHANGED <<use, now, battery, mode, tasks, pending, lastSim, lastKpi>>

CheckRateLimit(c, p) ==
    /\ use # "both" /\ asking[c] = None
    /\ use = "alone" => \A d \in Callers : asking[d] = None
    /\ lastCall[p] # None => now - lastCall[p] >= RateLimit
    /\ asking' = [asking EXCEPT ![c] = [plant |-> p, pc |-> "sent"]]
    /\ UNCHANGED <<use, now, battery, mode, tasks, pending, lastSim, lastKpi, lastCall>>

Sent(c, p) == asking[c] = [plant |-> p, pc |-> "sent"]

\* The server: it refuses the call if it comes too early, and knows nothing of a
\* plant that is gone, whose call succeeds with no values.
Arrive(c, p) ==
    /\ Sent(c, p)
    /\ IF Present(p) /\ ~Due(p)
       THEN asking' = [asking EXCEPT ![c] = None] /\ UNCHANGED <<battery, lastKpi>>
       ELSE /\ asking' = [asking EXCEPT ![c].pc = "answered"]
            /\ LookAt(p)
            /\ lastKpi' = IF Present(p) THEN [lastKpi EXCEPT ![p] = now] ELSE lastKpi
    /\ UNCHANGED <<use, now, mode, tasks, pending, lastSim, lastCall>>

RecordCall(c, p) ==
    /\ asking[c] = [plant |-> p, pc |-> "answered"]
    /\ asking' = [asking EXCEPT ![c] = None]
    /\ lastCall' = [lastCall EXCEPT ![p] = now]
    /\ UNCHANGED <<use, now, battery, mode, tasks, pending, lastSim, lastKpi>>

\* The call or its answer is lost: it is not recorded.
Lose(c) ==
    /\ use = "clients" /\ asking[c] # None
    /\ asking' = [asking EXCEPT ![c] = None]
    /\ UNCHANGED <<use, now, battery, mode, tasks, pending, lastSim, lastKpi, lastCall>>

-----------------------------------------------------------------------------
Fleet(p) ==
    DeleteBattery(p) \/ InjectFault(p) \/ \E soc \in InitialSocs : AddBattery(p, soc)

Server(p) ==
    \/ SetDispatchMode(p) \/ GetDevRealKpi(p)
    \/ \E r \in Tasks :
         \/ Dispatch(r, p, "stop", 0)
         \/ \E switch \in {"charge", "discharge"}, power \in Powers : Dispatch(r, p, switch, power)

\* The methods only those who hold the simulator itself can call.
Mirror(p) ==
    /\ use = "both"
    /\ \/ GetBatteryStatus(p) \/ GetBatteryRealtime(p)
       \/ \E r \in Tasks :
            \/ StopDispatch(r, p) \/ Halt(r, p) \/ GetTaskStatus(r) \/ WaitForTask(r, p)
            \/ \E switch \in {"charge", "discharge"}, power \in Powers : Order(r, p, switch, power)

Client(c) ==
    \/ \E p \in Plants : CheckRateLimit(c, p) \/ Arrive(c, p) \/ RecordCall(c, p)
    \/ Lose(c)

Next ==
    \/ Tick
    \/ \E p \in Plants : Fleet(p) \/ Server(p) \/ Mirror(p)
    \/ \E c \in Callers : Client(c)

Spec == Init /\ [][Next]_vars

-----------------------------------------------------------------------------
\* The switch a plant shows says what its battery does, through commands, both
\* kinds of stop and batteries that get full or empty.
SwitchTellsPower ==
    \A p \in Plants : Present(p) =>
        /\ battery[p].switch = "charge" <=> battery[p].power > 0
        /\ battery[p].switch = "discharge" <=> battery[p].power < 0

\* A plant that is not there has no right to be commanded, no task in its way and
\* no rate limit of the server, so one that is added with the code of a plant that
\* was removed inherits none of these.  (It does inherit the limit of the mirror,
\* lastSim, and the records of the tasks stay: DeleteBattery clears neither.)
AbsentPlantIsClear ==
    \A p \in Plants : ~Present(p) => p \notin mode /\ pending[p] = None /\ lastKpi[p] = None

\* A state of charge moves only when its time is accounted for, and never by more
\* than the rating gives in that time, whatever was commanded in between.
SocWithinRating ==
    [][\A p \in Plants : (Present(p) /\ battery'[p] # None /\ battery'[p].soc # battery[p].soc) =>
          LET time == battery'[p].updated - battery[p].updated
          IN  /\ battery'[p].updated = now
              /\ battery'[p].soc - battery[p].soc \in Gain(-MaxPower) * time..Gain(MaxPower) * time]_vars

\* A client that waits its own limit between two calls is not refused for the
\* server's, however long calls and answers take: it counts from the answer, the
\* server from the arrival before it.  Only its first call of a plant may come too
\* early after the host booted.  This is so for callers one at a time, while no
\* answer is lost and nobody else reads the plant.
ClientKeepsLimit ==
    use = "alone" => \A c \in Callers, p \in Plants :
        (Sent(c, p) /\ Present(p) /\ lastCall[p] # None) => Due(p)
=============================================================================
