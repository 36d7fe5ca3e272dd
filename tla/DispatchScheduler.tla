------------------------- MODULE DispatchScheduler -------------------------
(***************************************************************************)
(* core/dispatch/scheduler.py: three loops on one set of schedules.  One   *)
(* fetches prices at a fixed hour and plans the next day, one sends every  *)
(* battery the command of the hour, one compares the state of charge with  *)
(* the plan and plans the rest of the day again.  A schedule is a shared   *)
(* mutable object: a loop that waits for a battery goes on with the object *)
(* it took, which a re-plan may have patched or a new plan displaced.      *)
(***************************************************************************)
EXTENDS DayAheadOptimizer, Sequences

CONSTANTS
    Fleet,      \* the batteries, in the order of self._batteries
    FirstHour,  \* bound: the hour of day 0 the clock starts at
    LastDay,    \* bound: the last day of the clock
    AskedDays,  \* bound: the days for which somebody plans by hand
    FetchHour,  \* the hour of PRICE_FETCH_TIME
    Market,     \* the price vectors the market may publish
    Forced,     \* schedules built by hand
    MaxCalls,   \* bound: calls of trigger_now, force_schedule and stop
    Readings,   \* battery -> states of charge it may report
    Outcomes,   \* what may happen to a command: "ok", "lost" (its answer), "unsent"
    StopOutcomes,  \* and to the stop after a command that failed
    None

Batteries == Range(Fleet)
Days == 0..LastDay + 1

\* A DailySchedule: prices of every hour, and for some hours the actions of some
\* batteries.
HourOK(acts) == DOMAIN acts \subseteq Batteries /\ acts \in [DOMAIN acts -> Action]

ScheduleOK(s) ==
    /\ s = [prices |-> s.prices, actions |-> s.actions, status |-> s.status]
    /\ s.prices \in [Hours -> Nat]
    /\ DOMAIN s.actions \subseteq Hours
    /\ s.actions = [h \in DOMAIN s.actions |-> s.actions[h]]
    /\ \A h \in DOMAIN s.actions : HourOK(s.actions[h])
    /\ s.status \in {"planned", "executing", "overridden"}

AnyActions == UNION {[hs -> UNION {[bs -> Action] : bs \in SUBSET Batteries}] : hs \in SUBSET Hours}

ASSUME SchedulerAssumption ==
    /\ Fleet \in Seq(Batteries) /\ Specs \in [Batteries -> Ratings]
    /\ LastDay \in Nat /\ FirstHour \in Hours /\ AskedDays \subseteq Days
    /\ \A p \in Market : DOMAIN p \subseteq Hours /\ \A h \in DOMAIN p : p[h] \in Nat
    /\ \A s \in Forced : ScheduleOK(s)
    /\ MaxCalls \in Nat /\ Readings \in [Batteries -> SUBSET Nat]
    /\ None \notin [prices : [Hours -> Nat], actions : AnyActions,
                    status : {"planned", "executing", "overridden"}]

VARIABLES
    day, hour,   \* the wall clock of Europe/Rome
    running,     \* self._running
    schedules,   \* day -> [prices, actions, status]: self._schedules
    fetching,    \* <<who, day>> of the price requests under way
    fetched,     \* the day the fetch loop last woke up
    hr,          \* the hourly loop
    wd,          \* the watchdog
    pending,     \* batteries with a pending task in the client
    setpoint,    \* battery -> [slot, type] of the command its plant follows
    unstopped,   \* batteries whose fail-safe stop was not confirmed
    calls        \* calls counted against MaxCalls

clockVars == <<day, hour>>
fetchVars == <<fetching, fetched>>
plantVars == <<pending, setpoint, unstopped>>
vars == <<clockVars, running, schedules, fetchVars, hr, wd, plantVars, calls>>

Now == <<day, hour>>
NoSlot == <<0, -1>>
Stopped == [slot |-> NoSlot, type |-> "stop"]

\* The hourly loop: the slot it last executed, when it fell asleep, the keys of
\* the hour it iterates over, the index and the action in hand.  A loop goes on
\* with the schedule it took, kept in "old" once another one is in its place.
HourlyIdle(pc, slot, slept) ==
    [pc |-> pc, slot |-> slot, slept |-> slept, old |-> None, keys |-> {}, i |-> 0, act |-> None]

\* The watchdog: the slot it checks, the index, and the state of charge planned
\* for the battery it asks.
WatchdogIdle(pc) == [pc |-> pc, slot |-> NoSlot, old |-> None, i |-> 0, before |-> None]

Init ==
    /\ day = 0 /\ hour = FirstHour
    /\ running = FALSE
    /\ schedules = [d \in Days |-> None]
    /\ fetching = {}
    /\ fetched = -1
    /\ hr = HourlyIdle("down", NoSlot, NoSlot)
    /\ wd = WatchdogIdle("down")
    /\ pending = {}
    /\ setpoint = [b \in Batteries |-> Stopped]
    /\ unstopped = {}
    /\ calls = 0

TypeOK ==
    /\ day \in 0..LastDay /\ hour \in Hours
    /\ running \in BOOLEAN
    /\ schedules = [d \in Days |-> schedules[d]]
    /\ \A d \in Days : schedules[d] # None => ScheduleOK(schedules[d])
    /\ fetching \subseteq {"loop", "api"} \X Days
    /\ fetched \in -1..LastDay
    /\ hr.pc \in {"down", "asleep", "sent", "stopping"}
    /\ wd.pc \in {"down", "asleep", "asking"}
    /\ hr.pc = "down" <=> ~running
    /\ wd.pc = "down" <=> ~running
    /\ calls \in 0..MaxCalls
    /\ pending \subseteq Batteries /\ unstopped \subseteq Batteries
    /\ setpoint \in [Batteries -> [slot : {NoSlot} \cup (Days \X Hours), type : Types]]

-----------------------------------------------------------------------------
\* Schedules are shared.

Held(loop) == IF loop.old # None THEN loop.old ELSE schedules[loop.slot[1]]

Store(d, schedule) ==
    LET Keep(loop) == IF loop.pc \notin {"down", "asleep"} /\ loop.slot[1] = d /\ loop.old = None
                      THEN [loop EXCEPT !.old = schedules[d]] ELSE loop
    IN  /\ schedules' = [schedules EXCEPT ![d] = schedule]
        /\ hr' = Keep(hr)
        /\ wd' = Keep(wd)

-----------------------------------------------------------------------------
\* Time and life cycle.  A timer fires before the hour it is set for is over.

HourlyDue == hr.pc = "asleep" /\ hr.slept # Now
FetchDue == running /\ hour = FetchHour /\ fetched # day /\ \A d \in Days : <<"loop", d>> \notin fetching

Tick ==
    /\ ~HourlyDue /\ ~FetchDue
    /\ IF hour < HoursPerDay - 1 THEN hour' = hour + 1 /\ day' = day
       ELSE day < LastDay /\ hour' = 0 /\ day' = day + 1
    /\ UNCHANGED <<running, schedules, fetchVars, hr, wd, plantVars, calls>>

Start ==
    /\ ~running
    /\ running' = TRUE
    /\ fetched' \in {d \in {day - 1, day} : (hour < FetchHour => d < day) /\ (hour > FetchHour => d = day)}
    /\ hr' = HourlyIdle("asleep", NoSlot, Now)
    /\ wd' = WatchdogIdle("asleep")
    /\ UNCHANGED <<clockVars, schedules, fetching, plantVars, calls>>

\* (Only the flag is cleared.)
BugStop(arrives) ==
    /\ running
    /\ running' = FALSE
    /\ calls < MaxCalls /\ calls' = calls + 1
    /\ UNCHANGED <<clockVars, schedules, fetchVars, hr, wd, plantVars>>

\* stop() cancels the tasks; the request in hand may still reach the plant.
Stop(arrives) ==
    /\ running
    /\ running' = FALSE
    /\ fetching' = {f \in fetching : f[1] = "api"}
    /\ hr' = HourlyIdle("down", NoSlot, NoSlot)
    /\ wd' = WatchdogIdle("down")
    /\ setpoint' = CASE arrives /\ hr.pc = "sent"     -> [setpoint EXCEPT ![Fleet[hr.i]] = hr.act]
                     [] arrives /\ hr.pc = "stopping" -> [setpoint EXCEPT ![Fleet[hr.i]] = Stopped]
                     [] OTHER                         -> setpoint
    /\ calls < MaxCalls /\ calls' = calls + 1
    /\ UNCHANGED <<clockVars, schedules, fetched, pending, unstopped>>

-----------------------------------------------------------------------------
\* Planning.

\* 13:30: the prices of tomorrow are asked for.
Fetch ==
    /\ FetchDue
    /\ fetched' = day
    /\ fetching' = fetching \cup {<<"loop", day + 1>>}
    /\ UNCHANGED <<clockVars, running, schedules, hr, wd, plantVars, calls>>

\* trigger_now()
Trigger(d) ==
    /\ <<"api", d>> \notin fetching
    /\ fetching' = fetching \cup {<<"api", d>>}
    /\ calls < MaxCalls /\ calls' = calls + 1
    /\ UNCHANGED <<clockVars, running, schedules, fetched, hr, wd, plantVars>>

Planned(prices) ==
    LET plan == OptimizeDay(prices, [b \in Batteries |-> Specs[b].initial])
    IN  [prices |-> plan.prices, actions |-> plan.actions, status |-> "planned"]

PricesArrive(f, prices) ==
    /\ f \in fetching
    /\ fetching' = fetching \ {f}
    /\ Store(f[2], Planned(prices))
    /\ UNCHANGED <<clockVars, running, fetched, plantVars, calls>>

\* The loop logs the error and sleeps until the next day.
FetchFails(f) ==
    /\ f \in fetching
    /\ fetching' = fetching \ {f}
    /\ UNCHANGED <<clockVars, running, schedules, fetched, hr, wd, plantVars, calls>>

ForceSchedule(d, schedule) ==
    /\ Store(d, [schedule EXCEPT !.status = "overridden"])
    /\ calls < MaxCalls /\ calls' = calls + 1
    /\ UNCHANGED <<clockVars, running, fetchVars, plantVars>>

-----------------------------------------------------------------------------
\* The commands of the hour.

\* On to the battery after index i.  The iteration reads the dictionary of the
\* hour again, and breaks off when a re-plan has added a battery to it.  The
\* client refuses a charge or a discharge while it holds a pending task of the
\* battery; a stop, also that of the fail-safe, forgets the task first.
GoOn(loop, i, tasks) ==
    LET acts == Held(loop).actions[loop.slot[2]]
        left == {j \in i + 1..Len(Fleet) : Fleet[j] \in loop.keys}
        j == Min(left)
        b == Fleet[j]
        refused == acts[b].type # "stop" /\ b \in tasks
    IN  IF DOMAIN acts # loop.keys \/ left = {}
        THEN hr' = HourlyIdle("asleep", loop.slot, Now) /\ pending' = tasks
        ELSE /\ hr' = [loop EXCEPT !.pc = IF refused THEN "stopping" ELSE "sent", !.i = j,
                                   !.act = [slot |-> loop.slot, type |-> acts[b].type]]
             /\ pending' = tasks \ {b}

HourBegin ==
    /\ HourlyDue
    /\ LET s == schedules[day] IN
       IF s # None /\ hour \in DOMAIN s.actions
       THEN /\ schedules' = [schedules EXCEPT ![day].status = "executing"]
            /\ GoOn([HourlyIdle("sent", Now, Now) EXCEPT !.keys = DOMAIN s.actions[hour]], 0, pending)
       ELSE hr' = HourlyIdle("asleep", hr.slot, Now) /\ UNCHANGED <<schedules, pending>>
    /\ UNCHANGED <<clockVars, running, fetchVars, wd, setpoint, unstopped, calls>>

\* A lost answer, or a request that is not sent, is an exception: the battery is
\* to be stopped.
Answer(outcome) ==
    /\ hr.pc = "sent"
    /\ LET b == Fleet[hr.i] IN
       /\ setpoint' = IF outcome = "unsent" THEN setpoint ELSE [setpoint EXCEPT ![b] = hr.act]
       /\ IF outcome = "ok"
          THEN /\ GoOn(hr, hr.i, IF hr.act.type = "stop" THEN pending ELSE pending \cup {b})
               /\ unstopped' = unstopped \ {b}
          ELSE /\ hr' = [hr EXCEPT !.pc = "stopping"]
               /\ pending' = pending \ {b}
               /\ UNCHANGED unstopped
    /\ UNCHANGED <<clockVars, running, schedules, fetchVars, wd, calls>>

\* (A failed command is only logged.)
BugNoFailSafe(outcome) ==
    /\ hr.pc = "stopping"
    /\ GoOn(hr, hr.i, pending)
    /\ UNCHANGED <<clockVars, running, schedules, fetchVars, wd, setpoint, unstopped, calls>>

FailSafe(outcome) ==
    /\ hr.pc = "stopping"
    /\ LET b == Fleet[hr.i] IN
       /\ GoOn(hr, hr.i, pending)
       /\ setpoint' = IF outcome = "unsent" THEN setpoint
                      ELSE [setpoint EXCEPT ![b] = Stopped]
       /\ unstopped' = IF outcome = "ok" THEN unstopped \ {b} ELSE unstopped \cup {b}
    /\ UNCHANGED <<clockVars, running, schedules, fetchVars, wd, calls>>

-----------------------------------------------------------------------------
\* The watchdog.

\* On to the battery after index i that has an action in the hour.
Check(loop, i) ==
    LET acts == Held(loop).actions
        h == loop.slot[2]
        left == {j \in i + 1..Len(Fleet) : h \in DOMAIN acts /\ Fleet[j] \in DOMAIN acts[h]}
    IN  wd' = IF left = {} THEN WatchdogIdle("asleep")
              ELSE [loop EXCEPT !.pc = "asking", !.i = Min(left),
                                !.before = acts[h][Fleet[Min(left)]].before]

WatchBegin ==
    /\ wd.pc = "asleep"
    /\ schedules[day] # None
    /\ Check([WatchdogIdle("asking") EXCEPT !.slot = Now], 0)
    /\ UNCHANGED <<clockVars, running, schedules, fetchVars, hr, plantVars, calls>>

Deviates(b, soc) ==
    LET gap == IF soc > wd.before THEN soc - wd.before ELSE wd.before - soc
    IN  100 * gap > 5 * Specs[b].cap

\* The rest of the day, from the hour the watchdog saw, in the schedule that is
\* current now: from the state of charge read and for the prices of that schedule.
Rest == wd.slot[2]..HoursPerDay - 1

Patched(s, b, soc) ==
    LET plan == OptimizeDay([h \in Rest |-> s.prices[h]], [x \in {b} |-> soc])
        New(h) == [x \in DOMAIN s.actions[h] \cup {b} |->
                      IF x = b THEN plan.actions[h][b] ELSE s.actions[h][x]]
    IN  [h \in DOMAIN s.actions |-> IF h \in Rest THEN New(h) ELSE s.actions[h]]

\* (An exception of the re-plan ends the loop.)
BugReplan(b, soc) ==
    LET d == wd.slot[1]
        s == schedules[d]
    IN  IF s # None /\ Rest \subseteq DOMAIN s.actions
        THEN Check(wd, wd.i) /\ schedules' = [schedules EXCEPT ![d].actions = Patched(s, b, soc)]
        ELSE wd' = [WatchdogIdle("asking") EXCEPT !.i = Len(Fleet) + 1] /\ UNCHANGED schedules

\* A schedule that lacks one of these hours ends the round: the batteries after
\* this one are not checked.
Replan(b, soc) ==
    LET d == wd.slot[1]
        s == schedules[d]
    IN  IF s # None /\ Rest \subseteq DOMAIN s.actions
        THEN Check(wd, wd.i) /\ schedules' = [schedules EXCEPT ![d].actions = Patched(s, b, soc)]
        ELSE wd' = WatchdogIdle("asleep") /\ UNCHANGED schedules

WatchAnswer(soc) ==
    /\ wd.pc = "asking" /\ wd.i <= Len(Fleet)
    /\ soc \in Readings[Fleet[wd.i]]
    /\ IF Deviates(Fleet[wd.i], soc) THEN Replan(Fleet[wd.i], soc)
       ELSE Check(wd, wd.i) /\ UNCHANGED schedules
    /\ UNCHANGED <<clockVars, running, fetchVars, hr, plantVars, calls>>

\* A battery that does not answer is skipped.
WatchFails ==
    /\ wd.pc = "asking" /\ wd.i <= Len(Fleet)
    /\ Check(wd, wd.i)
    /\ UNCHANGED <<clockVars, running, schedules, fetchVars, hr, plantVars, calls>>

Hourly ==
    \/ HourBegin
    \/ \E outcome \in Outcomes : Answer(outcome)
    \/ \E outcome \in StopOutcomes : FailSafe(outcome)

Watchdog == WatchFails \/ \E soc \in UNION Range(Readings) : WatchAnswer(soc)

Next ==
    \/ Tick \/ Start \/ Fetch \/ Hourly \/ WatchBegin \/ Watchdog
    \/ \E arrives \in BOOLEAN : Stop(arrives)
    \/ \E d \in AskedDays : Trigger(d) \/ \E s \in Forced : ForceSchedule(d, s)
    \/ \E f \in fetching : FetchFails(f) \/ \E p \in Market : PricesArrive(f, p)

Spec == Init /\ [][Next]_vars

\* Every request has a timeout, so each await of a loop comes to an end.
FairSpec == Spec /\ WF_vars(Hourly) /\ WF_vars(Watchdog)

-----------------------------------------------------------------------------
\* Once the hourly loop has had a battery in hand and moves on, the battery follows
\* the command of this hour or stands still, through refusals, lost answers and
\* re-plans, unless its fail-safe stop failed too.  Only of the battery in hand: one
\* whose hour has no schedule, is missing from it or from whose hour the battery is
\* missing, and those after the cut of an iteration, keep the command they follow.
TurnEndsOldCommand ==
    [][\A i \in 1..Len(Fleet) : (hr.i = i /\ hr'.i # i /\ hr'.pc # "down") =>
          \/ setpoint'[Fleet[i]] = Stopped
          \/ setpoint'[Fleet[i]].slot = hr.slot
          \/ Fleet[i] \in unstopped']_vars

\* Every plan the optimizer made, patched or not, stays within the ratings and
\* bounds of its battery.
AllFeasible(s) ==
    \A h \in DOMAIN s.actions : \A b \in DOMAIN s.actions[h] : Feasible(Specs[b], s.actions[h][b])

PlansFeasible == \A d \in Days : schedules[d] # None => AllFeasible(schedules[d])

\* A re-plan goes on from the state of charge that was read: the hours that are
\* over, filled with the mean price, move no energy.
ReplansFromReading ==
    [][\A d \in Days, b \in Batteries :
          (<<wd'.pc, wd'.i>> # <<wd.pc, wd.i>> /\ wd.pc = "asking" /\ b = Fleet[wd.i]
             /\ schedules'[d] # schedules[d]) =>
          /\ schedules'[d].actions[wd.slot[2]][b].before \in Readings[b]
          /\ Connected([h \in Hours |-> schedules'[d].actions[h][b]], wd.slot[2])]_vars

\* Whatever fails, both loops fall asleep again as long as the scheduler runs.
LoopsGoOn ==
    /\ []<>(~running \/ hr.pc = "asleep")
    /\ []<>(~running \/ wd.pc = "asleep")

\* core/dispatch/scheduler.py:4: "At the top of each hour it sends the
\* corresponding dispatch commands to all batteries".
SendsEveryCommand ==
    [][\A i \in 1..Len(Fleet) : (hr.i = i /\ hr'.i # i /\ hr'.pc # "down") =>
          setpoint'[Fleet[i]] = hr.act]_vars

-----------------------------------------------------------------------------
\* What the properties need of the data: the schedules built by hand are feasible
\* (PlansFeasible), and the mean of any rest of a day is exact (ReplansFromReading).
HandMade == \A s \in Forced : AllFeasible(s)

Curves == {FullPrices(p) : p \in Market} \cup {s.prices : s \in Forced}

ExactMeans == \A p \in Curves : \A h \in Hours : ExactMean(p, h)
=============================================================================
