--------------------------- MODULE ApplyRequests ---------------------------
(***************************************************************************)
(* POST /dispatch/apply as concurrent database transactions.  One request  *)
(* reads the active batteries of its site, wipes their rows of today and   *)
(* inserts the new day, in one transaction that commits when the handler   *)
(* returns (api/dependencies.py, get_db).  Transactions are PostgreSQL's   *)
(* READ COMMITTED: a DELETE works on the rows committed when it starts,    *)
(* waits for a row another transaction has deleted, and never sees a row   *)
(* inserted meanwhile; an INSERT waits for the unfinished transaction that *)
(* holds the same unique key, and fails when a committed row has it.  Rows *)
(* are deleted and inserted one by one, in any order, each kept until the  *)
(* transaction ends; of requests that wait for each other in a ring,       *)
(* PostgreSQL rolls one back.                                              *)
(*                                                                         *)
(* The module implements PlanStore: each committed request is one          *)
(* ReplaceDay.                                                             *)
(***************************************************************************)
EXTENDS Integers, FiniteSets

CONSTANTS
    Batteries, Dates, QHs, Horizon, Calendar, NoRow,
    Sites,
    SiteOf,       \* battery -> site_id
    Schedules,    \* site day schedules submitted: quarter-hour -> hundredths of kW
    ManualSlots,  \* slots POST /dispatch/plans is asked to fill: bounds the rows made by hand
    ManualPowers, \* powers it gives them
    Requests,     \* requests in flight: one transaction each
    Manual        \* origin of a row of POST /dispatch/plans

ASSUME RequestAssumption ==
    /\ IsFiniteSet(Batteries)
    /\ Horizon \in Nat /\ Calendar \in [0..Horizon -> Dates \X QHs]
    /\ SiteOf \in [Batteries -> Sites]
    /\ Schedules \subseteq [QHs -> Int]
    /\ ManualSlots \subseteq Batteries \X Dates \X QHs
    /\ ManualPowers \subseteq Int
    /\ {Manual, NoRow} \cap Requests = {}
    /\ Manual # NoRow /\ NoRow \notin Int

VARIABLES
    now, status, plans,  \* as in PlanStore
    origin,   \* slot -> the request that inserted its row, Manual, or NoRow
    phase,    \* request -> how far its transaction is
    bats,     \* request -> the active batteries it read
    date,     \* request -> its delivery date
    row,      \* request -> power per quarter-hour of each of its batteries
    victims,  \* request -> rows its DELETE saw and has not reached yet
    deleted,  \* request -> slots whose row it has deleted
    inserted, \* request -> slots it has inserted a row for
    want      \* request -> the slot it deletes or inserts next, or NoRow

lockVars == <<victims, deleted, inserted, want>>
txnVars == <<phase, bats, date, row, lockVars>>
vars == <<now, status, plans, origin, txnVars>>

\* round(power_kw / n, 2); a tie goes away from zero (the binary floats of
\* the code may take either neighbour then).
Share(p, n) == IF p >= 0 THEN (2 * p + n) \div (2 * n)
                         ELSE -((n - 2 * p) \div (2 * n))

DividedRows == {[q \in QHs |-> Share(s[q], n)] : s \in Schedules, n \in 1..Cardinality(Batteries)}

Store == INSTANCE PlanStore
            WITH Powers  <- ManualPowers \cup UNION {{r[q] : q \in QHs} : r \in DividedRows},
                 DayRows <- DividedRows,
                 RowPowers <- ManualPowers

Slots == Store!Slots

Open == {"began", "wiping", "inserting"}
Ended == {"committed", "aborted"}
Phases == {"new"} \cup Open \cup Ended

TypeOK ==
    /\ Store!StoreTypeOK
    /\ origin \in [Slots -> Requests \cup {Manual, NoRow}]
    /\ phase \in [Requests -> Phases]
    /\ bats \in [Requests -> SUBSET Batteries]
    /\ date \in [Requests -> Dates \cup {NoRow}]
    /\ row \in [Requests -> DividedRows \cup {NoRow}]
    /\ victims \in [Requests -> SUBSET (Slots \X (Requests \cup {Manual}))]
    /\ deleted \in [Requests -> SUBSET Slots]
    /\ inserted \in [Requests -> SUBSET Slots]
    /\ want \in [Requests -> Slots \cup {NoRow}]

Init ==
    /\ Store!StoreInit
    /\ origin = [k \in Slots |-> NoRow]
    /\ phase = [r \in Requests |-> "new"]
    /\ bats = [r \in Requests |-> {}]
    /\ date = [r \in Requests |-> NoRow]
    /\ row = [r \in Requests |-> NoRow]
    /\ victims = [r \in Requests |-> {}]
    /\ deleted = [r \in Requests |-> {}]
    /\ inserted = [r \in Requests |-> {}]
    /\ want = [r \in Requests |-> NoRow]

-----------------------------------------------------------------------------
\* Definitions named Bug... are wrong versions of the definition after them, for
\* mutation testing; no specification uses them.

\* (Expands an hour to three quarter-hours.)
BugShortHour(r) == bats[r] \X {date[r]} \X (QHs \ {CHOOSE q \in QHs : TRUE})

\* The slots the request inserts: its batteries, its day, every quarter-hour.
Inserts(r) == bats[r] \X {date[r]} \X QHs

\* Slots the request keeps others waiting for until it ends.
Held(r) == deleted[r] \cup inserted[r]

HeldByOthers(r) == UNION {Held(x) : x \in Requests \ {r}}
HeldByAny == UNION {Held(r) : r \in Requests}

\* The slots a statement can go on with, out of those it has left.
Upcoming(left) == IF left = {} THEN {NoRow} ELSE left

\* The rows to insert after those done: a quarter-hour for all batteries, then
\* another.  The batteries come in the order of a SELECT that has none, the
\* hours in the order the client sends them in.
NextInserts(r, done) ==
    LET left == Inserts(r) \ done
        begun == {k \in left : \E j \in done : j[3] = k[3]}
    IN  Upcoming(IF begun = {} THEN left ELSE begun)

\* (Gives each battery the power of the whole site.)
BugUndivided(r, site, s) ==
    LET active == {b \in Batteries : SiteOf[b] = site /\ status[b] = "active"}
    IN  /\ phase[r] = "new"
        /\ active # {}
        /\ phase' = [phase EXCEPT ![r] = "began"]
        /\ bats' = [bats EXCEPT ![r] = active]
        /\ date' = [date EXCEPT ![r] = Store!Today]
        /\ row' = [row EXCEPT ![r] = [q \in QHs |-> s[q] * Cardinality(active)]]
        /\ UNCHANGED <<now, status, plans, origin, lockVars>>

\* Select the active batteries of the site, take today's date and divide the
\* site's power.  No active battery: 404, nothing happens.
Begin(r, site, s) ==
    LET active == {b \in Batteries : SiteOf[b] = site /\ status[b] = "active"}
    IN  /\ phase[r] = "new"
        /\ active # {}
        /\ phase' = [phase EXCEPT ![r] = "began"]
        /\ bats' = [bats EXCEPT ![r] = active]
        /\ date' = [date EXCEPT ![r] = Store!Today]
        /\ row' = [row EXCEPT ![r] = [q \in QHs |-> Share(s[q], Cardinality(active))]]
        /\ UNCHANGED <<now, status, plans, origin, lockVars>>

\* The DELETE takes its snapshot ...
WipeStart(r) ==
    LET seen == {k \in Inserts(r) : plans[k] # NoRow}
    IN  /\ phase[r] = "began"
        /\ phase' = [phase EXCEPT ![r] = "wiping"]
        /\ victims' = [victims EXCEPT ![r] = {<<k, origin[k]>> : k \in seen}]
        /\ \E k \in Upcoming(seen) : want' = [want EXCEPT ![r] = k]
        /\ UNCHANGED <<now, status, plans, origin, bats, date, row, deleted, inserted>>

\* ... deletes the next row of it, when that is still there once nobody else
\* holds it ...
WipeRow(r, k) ==
    LET left == {v \in victims[r] : v[1] # k}
    IN  /\ phase[r] = "wiping"
        /\ want[r] = k
        /\ k \notin HeldByOthers(r)
        /\ victims' = [victims EXCEPT ![r] = left]
        /\ deleted' = [deleted EXCEPT ![r] =
                IF <<k, origin[k]>> \in victims[r] THEN @ \cup {k} ELSE @]
        /\ \E n \in Upcoming({v[1] : v \in left}) : want' = [want EXCEPT ![r] = n]
        /\ UNCHANGED <<now, status, plans, origin, phase, bats, date, row, inserted>>

\* ... and is done with it.
WipeEnd(r) ==
    /\ phase[r] = "wiping"
    /\ victims[r] = {}
    /\ phase' = [phase EXCEPT ![r] = "inserting"]
    /\ \E k \in NextInserts(r, {}) : want' = [want EXCEPT ![r] = k]
    /\ UNCHANGED <<now, status, plans, origin, bats, date, row, victims, deleted, inserted>>

\* (No foreign key on the battery.)
BugNoForeignKey(r, k) == plans[k] # NoRow => k \in deleted[r]

\* The row breaks no constraint: the battery exists, and the slot is free or has
\* been freed by this transaction.
Admissible(r, k) ==
    /\ Store!Live(k[1])
    /\ plans[k] # NoRow => k \in deleted[r]

\* (A handler that fails leaves its transaction open.)
BugNoRollback(r, how) ==
    /\ phase' = [phase EXCEPT ![r] = how]
    /\ bats' = [bats EXCEPT ![r] = {}]
    /\ date' = [date EXCEPT ![r] = NoRow]
    /\ row' = [row EXCEPT ![r] = NoRow]
    /\ want' = [want EXCEPT ![r] = NoRow]
    /\ UNCHANGED <<victims, deleted, inserted>>

\* The transaction ends; its locks and what the handler held in its locals are gone.
End(r, how) ==
    /\ phase' = [phase EXCEPT ![r] = how]
    /\ bats' = [bats EXCEPT ![r] = {}]
    /\ date' = [date EXCEPT ![r] = NoRow]
    /\ row' = [row EXCEPT ![r] = NoRow]
    /\ victims' = [victims EXCEPT ![r] = {}]
    /\ deleted' = [deleted EXCEPT ![r] = {}]
    /\ inserted' = [inserted EXCEPT ![r] = {}]
    /\ want' = [want EXCEPT ![r] = NoRow]

\* The flush at the end of the handler, row by row.
InsertRow(r, k) ==
    /\ phase[r] = "inserting"
    /\ want[r] = k
    /\ k \notin HeldByOthers(r)
    /\ \/ /\ Admissible(r, k)
          /\ inserted' = [inserted EXCEPT ![r] = @ \cup {k}]
          /\ \E n \in NextInserts(r, inserted[r] \cup {k}) : want' = [want EXCEPT ![r] = n]
          /\ UNCHANGED <<phase, bats, date, row, victims, deleted>>
       \/ ~Admissible(r, k) /\ End(r, "aborted")
    /\ UNCHANGED <<now, status, plans, origin>>

Commit(r) ==
    /\ phase[r] = "inserting"
    /\ inserted[r] = Inserts(r)
    /\ End(r, "committed")
    /\ plans' = [k \in Slots |-> IF k \in Inserts(r) THEN row[r][k[3]] ELSE plans[k]]
    /\ origin' = [k \in Slots |-> IF k \in Inserts(r) THEN r ELSE origin[k]]
    /\ UNCHANGED <<now, status>>

WaitsFor(r, x) == x # r /\ want[r] \in Held(x)

\* The request and some others wait for each other in a ring.
InRing(r) ==
    \E ring \in SUBSET Requests :
        /\ r \in ring
        /\ \A x \in ring : (\E y \in ring : WaitsFor(x, y)) /\ \E y \in ring : WaitsFor(y, x)

\* PostgreSQL looks for rings after deadlock_timeout and rolls one request back.
BreakRing(r) ==
    /\ InRing(r)
    /\ End(r, "aborted")
    /\ UNCHANGED <<now, status, plans, origin>>

\* The client goes away, the connection is lost, the schedule repeats an hour
\* (two rows for one slot): get_db rolls back.
Abort(r) ==
    /\ phase[r] \in Open
    /\ End(r, "aborted")
    /\ UNCHANGED <<now, status, plans, origin>>

-----------------------------------------------------------------------------
\* The other writers, whose transactions are single steps: they wait, too, for
\* the slots a request holds.

CreatePlan(k, p) ==
    /\ k \notin HeldByAny
    /\ Store!CreatePlan(k[1], k[2], k[3], p)
    /\ origin' = [origin EXCEPT ![k] = Manual]
    /\ UNCHANGED txnVars

DeleteBattery(b) ==
    /\ \A k \in HeldByAny : k[1] # b
    /\ Store!DeleteRow(b)
    /\ origin' = [k \in Slots |-> IF k[1] = b THEN NoRow ELSE origin[k]]
    /\ UNCHANGED txnVars

\* Steps that no transaction of a request waits for or delays.
Elsewhere ==
    /\ \/ Store!AdvanceClock
       \/ \E b \in Batteries : Store!CreateRow(b)
       \/ \E bs \in SUBSET Batteries, flag \in BOOLEAN : Store!SetActive(bs, flag)
    /\ UNCHANGED <<origin, txnVars>>

Work(r) ==
    \/ WipeStart(r) \/ WipeEnd(r) \/ Commit(r) \/ BreakRing(r)
    \/ \E k \in Slots : WipeRow(r, k) \/ InsertRow(r, k)

Next ==
    \/ \E r \in Requests, site \in Sites, s \in Schedules : Begin(r, site, s)
    \/ \E r \in Requests : Work(r) \/ Abort(r)
    \/ \E k \in ManualSlots, p \in ManualPowers : CreatePlan(k, p)
    \/ \E b \in Batteries : DeleteBattery(b)
    \/ Elsewhere

\* The server runs every handler it has started; nothing makes a client call.
Spec == Init /\ [][Next]_vars
FairSpec == Spec /\ \A r \in Requests : WF_vars(Work(r))

-----------------------------------------------------------------------------
\* Requests racing each other, a manual row or a deletion never leave a day
\* put together from two of them: if one row of a battery's day comes from a
\* request, all of them do.
OneRequestPerDay ==
    \A k \in Slots, q \in QHs :
        origin[k] \in Requests => origin[<<k[1], k[2], q>>] = origin[k]

\* Each step of the transactions is a step of the atomic plan table: a request
\* takes effect at its commit, entirely or not at all, on batteries that exist.
ImplementsStore == Store!StoreSpec

\* However the requests lock rows and unique keys before each other, each that
\* begins comes to an end: none waits for one that has ended, and a ring of them
\* loses a member.
RequestsEnd == \A r \in Requests : phase[r] = "began" ~> phase[r] \in Ended

\* api/routes/dispatch.py:336 says of POST /dispatch/apply: "Existing plans for
\* the same (site, today) are wiped first so each call is idempotent --
\* re-applying the same optimisation replaces the previous one".  When a request
\* commits, no row of an earlier request is left for its day at its site.
SiteDayReplaced ==
    [][\A r \in Requests : Commit(r) =>
          \A k \in Slots :
              (k[2] = date[r] /\ \E b \in bats[r] : SiteOf[b] = SiteOf[k[1]])
                  => origin'[k] \in {r, Manual, NoRow}]_vars
=============================================================================
