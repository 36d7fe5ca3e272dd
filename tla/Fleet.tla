------------------------------- MODULE Fleet -------------------------------
(***************************************************************************)
(* The batteries table and everybody who writes it: the routes of          *)
(* api/routes/batteries.py and admin_aggregates.py, one transaction each,  *)
(* and the poller of core/battery_polling.py, one in every worker process. *)
(* A handler reads rows, waits for a plant, and commits the columns it     *)
(* changed; nobody locks a row while he waits.  The plants (PlantSim has   *)
(* them in full), PostgreSQL under READ COMMITTED and the network are      *)
(* external.                                                               *)
(***************************************************************************)
EXTENDS Naturals, FiniteSets

CONSTANTS
    Batteries,    \* by asset_id; all are FusionSolar batteries
    Aggregates,   \* aggregate_ids
    Pollers,      \* worker processes
    Requests,     \* calls of the API, each made once, numbered as they come
    Fleets,       \* bound: the sets of batteries that may be there at first
    Commands,     \* switches an operator may command
    None

States == {"offline", "idle", "charging", "discharging"}

Row == [id : Nat, active : BOOLEAN, state : States, agg : Aggregates \cup {None}]

ASSUME FleetAssumption ==
    /\ Fleets \subseteq SUBSET Batteries
    /\ Commands \subseteq {"charge", "discharge", "stop"}
    /\ Requests \subseteq Nat
    /\ None \notin Row

VARIABLES
    row,      \* battery -> [id, active, state, agg] or None
    made,     \* battery -> rows made for it so far, which is the last battery_id
    history,  \* batteries with rows in battery_readings or dispatch_plans
    aggs,     \* the aggregates that exist
    plant,    \* battery -> the switch of its plant, or None
    poll,     \* poller -> battery -> [pc, id, have, seen], see Asleep
    req       \* request -> [kind, pc, on, arg, seen], see NotMade

vars == <<row, made, history, aggs, plant, poll, req>>

\* A poll of a battery: the battery_id it is about, the state the plant was found
\* in, and the row loaded to store it.
Asleep == [pc |-> "asleep", id |-> 0, have |-> None, seen |-> None]

\* The same in a process that has not polled yet.
Fresh == [Asleep EXCEPT !.pc = "fresh"]

\* A request: what it is about, the batteries, an argument, and the rows loaded by
\* one that changes some of their columns.
NotMade == [kind |-> "none", pc |-> "new", on |-> {}, arg |-> None, seen |-> [b \in Batteries |-> None]]

Done == [NotMade EXCEPT !.pc = "done"]

Updates == {"command", "active", "assign"}

Poller == [pc : {"fresh", "asleep", "ask", "load", "commit"}, id : Nat,
           have : States \cup {None}, seen : Row \cup {None}]

\* What requests of each kind go through after their first step, and their argument.
Steps(kind) ==
    CASE kind = "none"    -> {"new", "done"}
      [] kind = "command" -> {"send", "read back", "commit"}
      [] kind = "delete"  -> {"remove", "wipe", "wiped", "doomed"}
      [] kind = "create"  -> {"push", "insert"}
      [] kind = "import"  -> {"insert"}
      [] kind = "active"  -> {"commit"}
      [] kind = "assign"  -> {"commit", "doomed"}

Args(kind, pc) ==
    CASE kind = "command" -> IF pc = "commit" THEN States ELSE Commands
      [] kind = "delete"  -> Nat
      [] kind = "active"  -> BOOLEAN
      [] kind = "assign"  -> Aggregates \cup {None}
      [] OTHER            -> {None}

Request(kind, pc) ==
    [kind : {kind}, pc : {pc}, on : SUBSET Batteries, arg : Args(kind, pc),
     seen : [Batteries -> Row \cup {None}]]

Kinds == {"none", "command", "delete", "create", "import", "active", "assign"}

PollOK(p) ==
    /\ p \in Poller
    /\ p.pc \in {"load", "commit"} => p.have \in States
    /\ p.pc = "commit" => p.seen \in Row

RequestOK(q) ==
    /\ q.kind \in Kinds /\ q.pc \in Steps(q.kind)
    /\ q \in Request(q.kind, q.pc)
    /\ q.kind = "none" => q \in {NotMade, Done}
    /\ q.kind \in Updates => \A b \in q.on : q.seen[b] \in Row
    /\ q.kind = "assign" /\ q.pc = "commit" => q.arg \in aggs \cup {None}

TypeOK ==
    /\ row \in [Batteries -> Row \cup {None}]
    /\ made \in [Batteries -> Nat]
    /\ \A b \in Batteries : row[b] # None => row[b].id = made[b] /\ row[b].agg \in aggs \cup {None}
    /\ history \subseteq Batteries /\ \A b \in history : row[b] # None
    /\ aggs \subseteq Aggregates
    /\ plant \in [Batteries -> {"charge", "discharge", "stop", None}]
    /\ poll \in [Pollers -> [Batteries -> Poller]]
    /\ \A w \in Pollers, b \in Batteries : PollOK(poll[w][b])
    /\ DOMAIN req = Requests
    /\ \A r \in Requests : RequestOK(req[r])

Init ==
    /\ \E fleet \in Fleets : row = [b \in Batteries |->
          IF b \in fleet THEN [id |-> 1, active |-> TRUE, state |-> "offline", agg |-> None] ELSE None]
    /\ made = [b \in Batteries |-> IF row[b] = None THEN 0 ELSE 1]
    /\ history = {b \in Batteries : row[b] # None}
    /\ aggs = Aggregates
    /\ plant = [b \in Batteries |-> IF row[b] = None THEN None ELSE "stop"]
    /\ poll = [w \in Pollers |-> [b \in Batteries |-> Fresh]]
    /\ req = [r \in Requests |-> NotMade]

-----------------------------------------------------------------------------
\* Definitions named Bug... are wrong versions of the definition after them, for
\* mutation testing; no specification uses them.

\* (The switch is stored as it is.)
BugStateOf(switch) == switch

\* The state shown for a battery by the power of its plant; "offline" for a plant
\* that gives no answer.
StateOf(switch) ==
    CASE switch = "charge"    -> "charging"
      [] switch = "discharge" -> "discharging"
      [] switch = "stop"      -> "idle"
      [] OTHER                -> "offline"

\* (Every column is written.)
BugWritten(b, seen, new) == new

\* A session writes the columns whose value it changed, compared with what it
\* had loaded, over whatever the row holds by now.
Written(b, seen, new) ==
    [f \in DOMAIN row[b] |-> IF new[f] # seen[f] THEN new[f] ELSE row[b][f]]

\* The row a session loaded is still there, under its battery_id.
Still(b, id) == row[b] # None /\ row[b].id = id

\* A reading of b is committed: a deletion of b that has wiped the readings
\* already is refused by the foreign key.
AddReading(b) ==
    /\ history' = history \cup {b}
    /\ req' = [r \in Requests |-> IF req[r].pc = "wiped" /\ req[r].on = {b}
                                  THEN [req[r] EXCEPT !.pc = "doomed"] ELSE req[r]]

-----------------------------------------------------------------------------
\* The poller.

\* (A battery that is offline is given up.)
BugPolled(b) == row[b] # None /\ row[b].active /\ (row[b].state = "offline" => b \notin history)

Polled(b) == row[b] # None /\ row[b].active

\* _poll_all(): one poll for each active battery, when those before are over.
BeginCycle(w) ==
    /\ \A b \in Batteries : poll[w][b].pc \in {"fresh", "asleep"}
    /\ \E b \in Batteries : Polled(b)
    /\ poll' = [poll EXCEPT ![w] = [b \in Batteries |->
                  IF Polled(b) THEN [Asleep EXCEPT !.pc = "ask", !.id = row[b].id] ELSE Asleep]]
    /\ UNCHANGED <<row, made, history, aggs, plant, req>>

\* _poll_one(): a new client asks the plant.  It knows of no earlier reading, so the
\* limit that the client keeps does not hold it back; a plant that was read too
\* short a time before, by this worker, another one or a command, refuses (407), and
\* no answer and a failed call look the same.  Nothing bounds how often.
Ask(w, b) ==
    /\ poll[w][b].pc = "ask"
    /\ \E have \in {StateOf(plant[b]), "offline"} :
          poll' = [poll EXCEPT ![w][b] = [@ EXCEPT !.pc = "load", !.have = have]]
    /\ UNCHANGED <<row, made, history, aggs, plant, req>>

\* session.get() of _persist_reading() and of _update_state(), which leaves alone a
\* battery that is offline already.
Load(w, b) ==
    /\ poll[w][b].pc = "load"
    /\ poll' = [poll EXCEPT ![w][b] =
                  IF Still(b, @.id) /\ (@.have = "offline" => row[b].state # "offline")
                  THEN [@ EXCEPT !.pc = "commit", !.seen = row[b]] ELSE Asleep]
    /\ UNCHANGED <<row, made, history, aggs, plant, req>>

\* Their commit.  An answer leaves a reading; no answer, the state only.
Store(w, b) ==
    LET p == poll[w][b] IN
    /\ p.pc = "commit"
    /\ poll' = [poll EXCEPT ![w][b] = Asleep]
    /\ IF Still(b, p.id)
       THEN row' = [row EXCEPT ![b] = Written(b, p.seen, [p.seen EXCEPT !.state = p.have])]
       ELSE UNCHANGED row
    /\ IF Still(b, p.id) /\ p.have # "offline" THEN AddReading(b) ELSE UNCHANGED <<history, req>>
    /\ UNCHANGED <<made, aggs, plant>>

\* The process ends, and another one starts with nothing under way.
Restart(w) ==
    /\ \E b \in Batteries : poll[w][b] # Fresh
    /\ poll' = [poll EXCEPT ![w] = [b \in Batteries |-> Fresh]]
    /\ UNCHANGED <<row, made, history, aggs, plant, req>>

-----------------------------------------------------------------------------
\* The requests: the first step of each, and the steps after its awaits.

Comes(r) == req[r] = NotMade /\ \A q \in Requests : q < r => req[q] # NotMade

Begin(r, kind, pc, on, arg) ==
    /\ Comes(r)
    /\ req' = [req EXCEPT ![r] = [kind |-> kind, pc |-> pc, on |-> on, arg |-> arg,
                                  seen |-> [b \in Batteries |-> IF b \in on /\ kind \in Updates THEN row[b] ELSE None]]]
    /\ UNCHANGED <<row, made, history, aggs, plant, poll>>

At(r, pc) == req[r].pc = pc

GoesTo(r, pc) == req' = [req EXCEPT ![r].pc = pc]
Ends(r) == req' = [req EXCEPT ![r] = Done]

Exists(b) == row[b] # None

SendDispatchCommand(r, b, switch) == Exists(b) /\ Begin(r, "command", "send", {b}, switch)

DeleteBattery(r, b) == Exists(b) /\ Begin(r, "delete", "remove", {b}, row[b].id)

CreateBattery(r, b) == Begin(r, "create", "push", {b}, None)

\* bulk_import_batteries() skips the batteries that exist.
BulkImport(r, on) == Begin(r, "import", "insert", {b \in on : ~Exists(b)}, None)

\* bulk_set_active() leaves out batteries that do not exist; activate_battery()
\* and deactivate_battery() are about one.
SetActive(r, on, flag) == (\A b \in on : Exists(b)) /\ Begin(r, "active", "commit", on, flag)

\* update_battery(): the other columns it may set are not told apart here.
UpdateBattery(r, b, flag) == Exists(b) /\ Begin(r, "active", "commit", {b}, flag)

AssignBattery(r, b, a) ==
    /\ Exists(b) /\ row[b].active
    /\ Begin(r, "assign", "commit", {b}, a)

\* create_aggregate()
CreateAggregate(r, a) ==
    /\ Comes(r) /\ a \notin aggs
    /\ aggs' = aggs \cup {a}
    /\ Ends(r)
    /\ UNCHANGED <<row, made, history, plant, poll>>

\* delete_aggregate(): its batteries become unassigned, and an assignment to it
\* that is under way is refused by the foreign key.
DeleteAggregate(r, a) ==
    /\ Comes(r) /\ a \in aggs
    /\ aggs' = aggs \ {a}
    /\ row' = [b \in Batteries |-> IF Exists(b) /\ row[b].agg = a THEN [row[b] EXCEPT !.agg = None] ELSE row[b]]
    /\ req' = [q \in Requests |->
                 IF q = r THEN Done
                 ELSE IF At(q, "commit") /\ req[q].kind = "assign" /\ req[q].arg = a
                 THEN [req[q] EXCEPT !.pc = "doomed"] ELSE req[q]]
    /\ UNCHANGED <<made, history, plant, poll>>

-----------------------------------------------------------------------------
\* send_dispatch_command(), after the row is read.

\* A command that fails, on its way there or back, is a 502 and stores nothing.
Send(r, b) ==
    /\ At(r, "send") /\ req[r].on = {b}
    /\ \/ /\ plant[b] # None /\ plant' = [plant EXCEPT ![b] = req[r].arg]
          /\ GoesTo(r, "read back") \/ Ends(r)
       \/ UNCHANGED plant /\ Ends(r)
    /\ UNCHANGED <<row, made, history, aggs, poll>>

\* Without an answer, or with a refusal, nothing is stored: "next poller cycle will
\* fix things anyway" (batteries.py:570).
ReadBack(r, b) ==
    /\ At(r, "read back") /\ req[r].on = {b}
    /\ \/ Ends(r)
       \/ /\ plant[b] # None
          /\ req' = [req EXCEPT ![r] = [@ EXCEPT !.pc = "commit", !.arg = StateOf(plant[b])]]
    /\ UNCHANGED <<row, made, history, aggs, plant, poll>>

StoreState(r, b) ==
    /\ At(r, "commit") /\ req[r].kind = "command" /\ req[r].on = {b}
    /\ LET seen == req[r].seen[b] IN
       IF Still(b, seen.id)
       THEN /\ row' = [row EXCEPT ![b] = Written(b, seen, [seen EXCEPT !.state = req[r].arg])]
            /\ history' = history \cup {b}
            /\ req' = [q \in Requests |->
                         IF q = r THEN Done
                         ELSE IF At(q, "wiped") /\ req[q].on = {b} THEN [req[q] EXCEPT !.pc = "doomed"]
                         ELSE req[q]]
       ELSE Ends(r) /\ UNCHANGED <<row, history>>
    /\ UNCHANGED <<made, aggs, plant, poll>>

-----------------------------------------------------------------------------
\* delete_battery(), after the row is read.

\* _delete_from_simulator(): best effort.
Remove(r, b) ==
    /\ At(r, "remove") /\ req[r].on = {b}
    /\ GoesTo(r, "wipe")
    /\ \/ plant' = [plant EXCEPT ![b] = None]
       \/ UNCHANGED plant
    /\ UNCHANGED <<row, made, history, aggs, poll>>

\* (The readings and plans are wiped in a transaction of their own.)
BugWipe(r, b) ==
    /\ At(r, "wipe") /\ req[r].on = {b}
    /\ GoesTo(r, "wiped")
    /\ history' = IF Still(b, req[r].arg) THEN history \ {b} ELSE history
    /\ UNCHANGED <<row, made, aggs, plant, poll>>

\* The readings and plans committed so far are to be deleted with the row.
Wipe(r, b) ==
    /\ At(r, "wipe") /\ req[r].on = {b}
    /\ GoesTo(r, "wiped")
    /\ UNCHANGED <<row, made, history, aggs, plant, poll>>

EndDelete(r, b) ==
    /\ At(r, "wiped") /\ req[r].on = {b}
    /\ Ends(r)
    /\ IF Still(b, req[r].arg)
       THEN row' = [row EXCEPT ![b] = None] /\ history' = history \ {b}
       ELSE UNCHANGED <<row, history>>
    /\ UNCHANGED <<made, aggs, plant, poll>>

\* A transaction that a foreign key refuses stores nothing.
Refuse(r) ==
    /\ At(r, "doomed")
    /\ Ends(r)
    /\ UNCHANGED <<row, made, history, aggs, plant, poll>>

-----------------------------------------------------------------------------
\* create_battery() and bulk_import_batteries().

\* _push_to_simulator(): a plant that is there already stays as it is; a failure
\* is logged.
Push(r, b) ==
    /\ At(r, "push") /\ req[r].on = {b}
    /\ GoesTo(r, "insert")
    /\ \/ plant' = [plant EXCEPT ![b] = IF @ = None THEN "stop" ELSE @]
       \/ UNCHANGED plant
    /\ UNCHANGED <<row, made, history, aggs, poll>>

InsertRows(bs) ==
    /\ made' = [b \in Batteries |-> IF b \in bs THEN made[b] + 1 ELSE made[b]]
    /\ row' = [b \in Batteries |-> IF b \in bs
                 THEN [id |-> made'[b], active |-> FALSE, state |-> "offline", agg |-> None] ELSE row[b]]

\* asset_id is unique: one battery that exists by now refuses them all.
Insert(r) ==
    /\ At(r, "insert")
    /\ IF \E b \in req[r].on : Exists(b) THEN UNCHANGED <<row, made>> ELSE InsertRows(req[r].on)
    /\ Ends(r)
    /\ UNCHANGED <<history, aggs, plant, poll>>

-----------------------------------------------------------------------------
\* The commit of the routes that change columns: all of their rows, or none if one
\* is gone.
Commit(r) ==
    /\ At(r, "commit") /\ req[r].kind \in {"active", "assign"}
    /\ LET q == req[r]
           new(b) == IF q.kind = "active" THEN [q.seen[b] EXCEPT !.active = q.arg]
                     ELSE [q.seen[b] EXCEPT !.agg = q.arg]
       IN  IF \A b \in q.on : Still(b, q.seen[b].id)
           THEN row' = [b \in Batteries |-> IF b \in q.on THEN Written(b, q.seen[b], new(b)) ELSE row[b]]
           ELSE UNCHANGED row
    /\ Ends(r)
    /\ UNCHANGED <<made, history, aggs, plant, poll>>

\* A plant stops by itself when its battery is full or empty.
PlantStops(b) ==
    /\ plant[b] \in {"charge", "discharge"}
    /\ plant' = [plant EXCEPT ![b] = "stop"]
    /\ UNCHANGED <<row, made, history, aggs, poll, req>>

-----------------------------------------------------------------------------
Call(r) ==
    \/ \E b \in Batteries :
          \/ DeleteBattery(r, b) \/ CreateBattery(r, b)
          \/ \E switch \in Commands : SendDispatchCommand(r, b, switch)
          \/ \E a \in aggs \cup {None} : AssignBattery(r, b, a)
          \/ \E flag \in BOOLEAN : UpdateBattery(r, b, flag)
    \/ \E on \in SUBSET Batteries \ {{}} : BulkImport(r, on) \/ \E flag \in BOOLEAN : SetActive(r, on, flag)
    \/ \E a \in Aggregates : CreateAggregate(r, a) \/ DeleteAggregate(r, a)

Continue(r) ==
    \/ \E b \in Batteries :
          \/ Send(r, b) \/ ReadBack(r, b) \/ StoreState(r, b)
          \/ Remove(r, b) \/ Wipe(r, b) \/ EndDelete(r, b) \/ Push(r, b)
    \/ Refuse(r) \/ Insert(r) \/ Commit(r)

Poll(w) == BeginCycle(w) \/ \E b \in Batteries : Ask(w, b) \/ Load(w, b) \/ Store(w, b)

Next ==
    \/ \E r \in Requests : Call(r) \/ Continue(r)
    \/ \E w \in Pollers : Poll(w) \/ Restart(w)
    \/ \E b \in Batteries : PlantStops(b)

Spec == Init /\ [][Next]_vars

\* The event loop runs the task of the poller, and every call of a plant and of
\* the database has a timeout.
FairSpec == Spec /\ \A w \in Pollers : WF_vars(Poll(w))

-----------------------------------------------------------------------------
Config(b) == IF row[b] = None THEN None ELSE [row[b] EXCEPT !.state = None]

\* A battery appears, disappears, is activated or changes its aggregate only when a
\* request about it ends: what pollers and commands store late, about rows they
\* loaded before, undoes nothing of it.  An import adds all the batteries that were
\* missing or none, whatever other imports, creations and deletions do meanwhile.
FleetIsOperators ==
    [][/\ \A b \in Batteries : Config(b)' # Config(b) =>
             \E r \in Requests : /\ req[r] # Done /\ req'[r] = Done
                                 /\ req[r].kind # "command"
                                 /\ b \in req[r].on \/ req[r] = NotMade
       /\ \A r \in Requests : (req[r].kind = "import" /\ req'[r] # req[r] /\ ~UNCHANGED row) =>
             \A b \in req[r].on : row[b] = None /\ row'[b] # None]_vars

\* Readings and plans go only with their battery, also when its deletion is
\* refused in the end; and those of a battery that is deleted do not stay.
HistoryGoesWithBattery ==
    [][\A b \in Batteries :
          /\ (b \in history /\ b \notin history') => row'[b] = None
          /\ (row[b] # None /\ row'[b] = None) => b \notin history']_vars

\* A poll was given no state by a plant that is there: it was refused, or failed.
Refused(b) == \E w \in Pollers : poll[w][b].have = "offline" /\ plant[b] # None

\* What the table says of an active battery is what its plant does.
Shown(b) == row[b] # None /\ row[b].active => row[b].state = StateOf(plant[b])

\* When operators, plants and restarts come to rest, the state shown for an active
\* battery is that of its plant or "offline" from some time on, however late the
\* answers were that pollers and commands had in hand, and however many reads are
\* refused: no old state is shown for ever.  If reads of its plant are no longer
\* refused, it is that of its plant.
OldStateGoes ==
    <>[][\A w \in Pollers : ~Restart(w)]_vars =>
       /\ <>[](\A b \in Batteries : Shown(b) \/ (row[b].active => row[b].state = "offline"))
       /\ \A b \in Batteries : <>[]~Refused(b) => <>[]Shown(b)
=============================================================================
