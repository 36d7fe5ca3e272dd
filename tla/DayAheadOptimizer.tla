------------------------- MODULE DayAheadOptimizer -------------------------
(***************************************************************************)
(* core/dispatch/optimizer.py: the greedy plan of one day.  Hours are      *)
(* classified by their price, then every battery is walked through the     *)
(* day.  A state of charge is the energy stored, in hundredths of kWh, and *)
(* a power the energy of one hour, so percentages and their rounding go    *)
(* away; the one-way efficiency is EtaNum / EtaDen.  The ramp rate of a     *)
(* battery is not read by the code.                                        *)
(***************************************************************************)
EXTENDS Integers, FiniteSets, FiniteSetsExt, Functions

CONSTANTS
    HoursPerDay,      \* 24 in the code
    EtaNum, EtaDen,   \* square root of the round-trip efficiency
    Specs,            \* battery -> [cap, maxPower, min, max, initial], the tighter bounds
    DefaultPrice      \* the price of every hour when none is known

Hours == 0..HoursPerDay - 1

ASSUME OptimizerAssumption ==
    /\ HoursPerDay \in Nat \ {0} /\ DefaultPrice \in Nat
    /\ EtaNum \in Nat \ {0} /\ EtaDen \in Nat \ {0} /\ EtaNum <= EtaDen
    /\ EtaDen <= 10 * EtaNum  \* the least energy worth a command has power

\* The data of a battery, and the action of one hour.
Ratings == [cap : Nat, maxPower : Nat, min : Nat, max : Nat, initial : Nat]
Types == {"charge", "discharge", "stop"}
Action == [type : Types, power : Int, before : Int, after : Int]

Smaller(a, b) == IF a < b THEN a ELSE b

Total(f, S) == SumFunctionOnSet(f, S)

-----------------------------------------------------------------------------
\* Prices.  Definitions named Bug... are wrong versions of the definition after
\* them, for mutation testing; no specification uses them.

\* (Hours without a price are free.)
BugZeroPrices(prices) == [h \in Hours |-> IF h \in DOMAIN prices THEN prices[h] ELSE 0]

\* Hours without a price get the mean of the others.
FullPrices(prices) ==
    LET known == DOMAIN prices
        mean  == IF known = {} THEN DefaultPrice ELSE Total(prices, known) \div Cardinality(known)
    IN  [h \in Hours |-> IF h \in known THEN prices[h] ELSE mean]

\* Peak and off-peak hours are those half a standard deviation or more away
\* from the mean m: |p - m| >= s / 2, with s^2 = (sum of (p - m)^2) / (n - 1),
\* multiplied out.
Classified(prices) ==
    LET n      == HoursPerDay
        sum    == Total(prices, Hours)
        gap(h) == n * prices[h] - sum
        spread == Total([h \in Hours |-> gap(h) * gap(h)], Hours)
        far(h) == 4 * (n - 1) * gap(h) * gap(h) >= spread
    IN  [h \in Hours |->
            IF spread = 0 \/ ~far(h) THEN "neutral"
            ELSE IF gap(h) >= 0 THEN "peak" ELSE "off_peak"]

-----------------------------------------------------------------------------
\* One hour of one battery: <<power, energy stored at its end>>.  Less than
\* 0.1 kWh is not worth a command.

\* (Forgets the head room.)
BugCharge(spec, e) ==
    LET stored == (spec.maxPower * EtaNum) \div EtaDen
    IN  <<Smaller((stored * EtaDen) \div EtaNum, spec.maxPower), e + stored>>

Charge(spec, e) ==
    LET stored == Smaller(spec.max - e, (spec.maxPower * EtaNum) \div EtaDen)
    IN  IF stored < 10 THEN <<0, e>>
        ELSE <<Smaller((stored * EtaDen) \div EtaNum, spec.maxPower), e + stored>>

Discharge(spec, e) ==
    LET taken == Smaller(e - spec.min, (spec.maxPower * EtaDen) \div EtaNum)
    IN  IF taken < 10 THEN <<0, e>>
        ELSE <<-Smaller((taken * EtaNum) \div EtaDen, spec.maxPower), e - taken>>

\* What the hour calls for, a percent away from the bounds; a battery does not
\* turn round within half an hour, which hourly slots never ask of it.
Desired(spec, type, e, h, last) ==
    LET wish == IF type = "off_peak" /\ 100 * (spec.max - e) > spec.cap THEN "charge"
                ELSE IF type = "peak" /\ 100 * (e - spec.min) > spec.cap THEN "discharge"
                ELSE "stop"
    IN  IF last.type \notin {"stop", wish} /\ h - last.hour < 1 THEN "stop" ELSE wish

Step(spec, type, h, e, last) ==
    LET wish   == Desired(spec, type, e, h, last)
        result == CASE wish = "charge"    -> Charge(spec, e)
                    [] wish = "discharge" -> Discharge(spec, e)
                    [] OTHER              -> <<0, e>>
    IN  [type |-> IF result[1] = 0 THEN "stop" ELSE wish,
         power |-> result[1], before |-> e, after |-> result[2]]

\* The day of a battery: hour -> action.
DayOf(spec, initial, prices) ==
    LET types == Classified(prices)
        NoAction == [type |-> "stop", hour |-> 0]
        walk[h \in Hours] ==
            LET previous == IF h = 0 THEN [action |-> [after |-> initial], last |-> NoAction]
                            ELSE walk[h - 1]
                action == Step(spec, types[h], h, previous.action.after, previous.last)
            IN  [action |-> action,
                 last |-> IF action.power = 0 THEN previous.last
                          ELSE [type |-> action.type, hour |-> h]]
    IN  [h \in Hours |-> walk[h].action]

\* optimize_day: the plan of several batteries, hour -> battery -> action.
OptimizeDay(prices, initial) ==
    LET full == FullPrices(prices)
        days == [b \in DOMAIN initial |-> DayOf(Specs[b], initial[b], full)]
    IN  [prices |-> full, actions |-> [h \in Hours |-> [b \in DOMAIN initial |-> days[b][h]]]]

-----------------------------------------------------------------------------
\* What a plan promises: power within the rating, and a state of charge that
\* leaves its bounds in no hour (it may start outside them).
Feasible(spec, a) ==
    /\ a.power \in -spec.maxPower..spec.maxPower
    /\ a.after >= Smaller(a.before, spec.min)
    /\ a.after <= spec.max \/ a.after <= a.before
    /\ a.type = "charge" <=> a.power > 0
    /\ a.type = "discharge" <=> a.power < 0
    /\ (a.after - a.before) * a.power >= 0
    /\ a.power = 0 => a.after = a.before

\* The actions from hour h on are one trajectory.
Connected(day, h) == \A k \in h + 1..HoursPerDay - 1 : day[k].before = day[k - 1].after

\* The mean of the prices from hour h on is a whole number.  (The prices of this
\* model are whole, those of the code are not.)
RestFrom(h) == h..HoursPerDay - 1

ExactMean(prices, h) ==
    LET sum == Total(prices, RestFrom(h))
    IN  (HoursPerDay - h) * (sum \div (HoursPerDay - h)) = sum
=============================================================================
