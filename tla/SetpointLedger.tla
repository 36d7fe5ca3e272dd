--------------------------- MODULE SetpointLedger ---------------------------
(***************************************************************************)
(* What the appliers promise to the plants and to the operator: each of    *)
(* them pushes the setpoint of a (battery, date, quarter-hour) slot until  *)
(* one push is acknowledged to it, and from then on does not push it again *)
(* until the day changes or its process restarts; an acknowledged push is  *)
(* one the plant did accept.                                               *)
(***************************************************************************)
EXTENDS Naturals

CONSTANTS Workers, Batteries, Dates, QHs, Horizon, Calendar, Commands, NoPush

VARIABLES
    now,       \* index of the current instant
    setpoint,  \* battery -> the command its plant follows
    up,        \* worker -> its process runs
    ledger,    \* worker -> slots whose push has been acknowledged to it
    lastSlot   \* worker -> battery -> <<date, quarter-hour>> it pushed last

vars == <<now, setpoint, up, ledger, lastSlot>>

Slot == Batteries \X Dates \X QHs

Init ==
    /\ now = 0
    /\ setpoint \in [Batteries -> Commands]
    /\ up = [w \in Workers |-> FALSE]
    /\ ledger = [w \in Workers |-> {}]
    /\ lastSlot = [w \in Workers |-> [b \in Batteries |-> NoPush]]

Tick == now < Horizon /\ now' = now + 1 /\ UNCHANGED <<setpoint, up, ledger, lastSlot>>

Start(w) ==
    /\ ~up[w]
    /\ up' = [up EXCEPT ![w] = TRUE]
    /\ UNCHANGED <<now, setpoint, ledger, lastSlot>>

Die(w) ==
    /\ up[w]
    /\ up' = [up EXCEPT ![w] = FALSE]
    /\ ledger' = [ledger EXCEPT ![w] = {}]
    /\ UNCHANGED <<now, setpoint, lastSlot>>

\* A plant accepts the command of a slot the wall clock has shown.
Push(w, s, c) ==
    /\ up[w]
    /\ s \notin ledger[w]
    /\ \E t \in 0..now : Calendar[t] = <<s[2], s[3]>>
    /\ setpoint' = [setpoint EXCEPT ![s[1]] = c]
    /\ lastSlot' = [lastSlot EXCEPT ![w] = [@ EXCEPT ![s[1]] = <<s[2], s[3]>>]]
    /\ UNCHANGED <<now, up, ledger>>

Acknowledge(w, s) ==
    /\ up[w]
    /\ lastSlot[w][s[1]] = <<s[2], s[3]>>
    /\ ledger' = [ledger EXCEPT ![w] = @ \cup {s}]
    /\ UNCHANGED <<now, setpoint, up, lastSlot>>

\* The ledger is of one day.
Forget(w) ==
    /\ up[w]
    /\ ledger' = [ledger EXCEPT ![w] = {s \in @ : s[2] = Calendar[now][1]}]
    /\ UNCHANGED <<now, setpoint, up, lastSlot>>

\* Somebody else commands the plant.
Override(b, c) ==
    /\ setpoint' = [setpoint EXCEPT ![b] = c]
    /\ UNCHANGED <<now, up, ledger, lastSlot>>

Next ==
    \/ Tick
    \/ \E w \in Workers :
          \/ Start(w) \/ Die(w) \/ Forget(w)
          \/ \E s \in Slot : Acknowledge(w, s) \/ \E c \in Commands : Push(w, s, c)
    \/ \E b \in Batteries, c \in Commands : Override(b, c)

Spec == Init /\ [][Next]_vars
=============================================================================
