----------------------------- MODULE PlanStore -----------------------------
(***************************************************************************)
(* The dispatch plan table and the battery flags it is read with, seen as  *)
(* atomic operations: what data/models.py (DispatchPlan, Battery) and the  *)
(* plan and activation routes promise to everything that reads them.  A    *)
(* plan is at most one power per (battery, delivery date, quarter-hour).   *)
(* ApplyRequests shows that the concurrent transactions of the routes      *)
(* implement this module; DispatchApplier extends it with the worker that  *)
(* reads the table.                                                        *)
(*                                                                         *)
(* Time is the index of an instant; Calendar names the (date,              *)
(* quarter-hour) the wall clock of Europe/Rome shows then, so a day on     *)
(* which the clock is set back is a Calendar that repeats a name.          *)
(***************************************************************************)
EXTENDS Integers

CONSTANTS
    Batteries,  \* identities a row of the batteries table can get
    Dates,      \* delivery dates
    QHs,        \* quarter-hours of a day
    Horizon,    \* last instant modelled: bounds the clock
    Calendar,   \* instant -> <<date, quarter-hour>> shown in Europe/Rome
    Powers,     \* power_kw of a row, in hundredths of kW
    DayRows,    \* the per-battery day schedules requests store
    RowPowers,  \* the powers of rows created one by one
    NoRow       \* no row for this (battery, date, quarter-hour)

ASSUME StoreAssumption ==
    /\ Horizon \in Nat
    /\ Calendar \in [0..Horizon -> Dates \X QHs]
    /\ Powers \subseteq Int
    /\ DayRows \subseteq [QHs -> Powers]
    /\ RowPowers \subseteq Powers
    /\ NoRow \notin Powers

VARIABLES
    now,     \* index of the current instant
    status,  \* battery -> life of its row in the batteries table
    plans    \* (battery, date, quarter-hour) -> power of the row, or NoRow

storeVars == <<now, status, plans>>

Statuses == {"absent", "portfolio", "active", "deleted"}

Slots == Batteries \X Dates \X QHs

Today == Calendar[now][1]

\* The battery has a row in the batteries table.
Live(b) == status[b] \in {"portfolio", "active"}

StoreTypeOK ==
    /\ now \in 0..Horizon
    /\ status \in [Batteries -> Statuses]
    /\ plans \in [Slots -> Powers \cup {NoRow}]

StoreInit ==
    /\ now = 0
    /\ status \in [Batteries -> {"absent", "active"}]
    /\ plans = [k \in Slots |-> NoRow]

-----------------------------------------------------------------------------

AdvanceClock ==
    /\ now < Horizon
    /\ now' = now + 1
    /\ UNCHANGED <<status, plans>>

\* A new battery lands in the portfolio, inactive.
CreateRow(b) ==
    /\ status[b] = "absent"
    /\ status' = [status EXCEPT ![b] = "portfolio"]
    /\ UNCHANGED <<now, plans>>

\* One or several batteries at once; the plans are not looked at.
SetActive(bs, flag) ==
    /\ \A b \in bs : Live(b)
    /\ status' = [b \in Batteries |-> IF b \notin bs THEN status[b]
                                      ELSE IF flag THEN "active" ELSE "portfolio"]
    /\ UNCHANGED <<now, plans>>

\* The battery's plans go with it: the foreign key has no cascade.  An
\* identity is a fresh UUID, so a deleted battery never comes back.
DeleteRow(b) ==
    /\ Live(b)
    /\ status' = [status EXCEPT ![b] = "deleted"]
    /\ plans' = [k \in Slots |-> IF k[1] = b THEN NoRow ELSE plans[k]]
    /\ UNCHANGED now

\* One row for any slot that has none: a second one breaks the unique
\* constraint and its transaction is rolled back.
CreatePlan(b, d, q, p) ==
    /\ Live(b)
    /\ plans[<<b, d, q>>] = NoRow
    /\ plans' = [plans EXCEPT ![<<b, d, q>>] = p]
    /\ UNCHANGED <<now, status>>

\* A day schedule replaces everything the batteries had for that date.
ReplaceDay(bs, d, row) ==
    /\ bs # {}
    /\ \A b \in bs : Live(b)
    /\ plans' = [k \in Slots |-> IF k[1] \in bs /\ k[2] = d THEN row[k[3]] ELSE plans[k]]
    /\ UNCHANGED <<now, status>>

\* A date the clock has shown: a request takes its date when it starts and
\* may commit later.
PastDates == {Calendar[t][1] : t \in 0..now}

StoreNext ==
    \/ AdvanceClock
    \/ \E b \in Batteries : CreateRow(b) \/ DeleteRow(b)
    \/ \E bs \in SUBSET Batteries, flag \in BOOLEAN : SetActive(bs, flag)
    \/ \E b \in Batteries, d \in Dates, q \in QHs, p \in RowPowers : CreatePlan(b, d, q, p)
    \/ \E bs \in SUBSET Batteries, d \in PastDates, row \in DayRows : ReplaceDay(bs, d, row)

StoreSpec == StoreInit /\ [][StoreNext]_storeVars
=============================================================================
