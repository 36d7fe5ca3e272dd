----------------------------- MODULE PriceFeed -----------------------------
(***************************************************************************)
(* core/market: the day-ahead prices that GME publishes, fetched zone by   *)
(* zone (gme_client.py), stored for a day at once (mgp_service.py), by a   *)
(* scheduler in every worker process of the API (mgp_scheduler.py) and by  *)
(* the backfill script.  A day begins when its price fetch is due, at      *)
(* 12:05; the fetch of that day is for the next one.  Prices are whole     *)
(* numbers; a client lives for one fetch and is given no session, so its   *)
(* two caches are empty.  The library, the database and the clock are      *)
(* external.                                                               *)
(***************************************************************************)
EXTENDS Integers, FiniteSets, Sequences, Functions

CONSTANTS
    Workers,       \* processes that run the scheduler
    Script,        \* the process that runs the backfill
    FirstDay, LastDay,  \* bounds of the clock
    BackfillDays,  \* argument of the backfill
    BackfillOn,    \* bound: the days on which somebody may start it
    ZoneList,      \* _ZONES, a sequence
    Nord,          \* the zone that the national price is computed from
    Pun,           \* the national price
    HoursPerDay,
    Feed,          \* delivery day -> what GME publishes for it
    Estimate,      \* the flat price of a client that has no other, 80
    CommitOutcomes,  \* "ok", "lost", "unseen" (done, and reported as failed)
    MaxRestarts,   \* bounds the restarts of workers
    None

Zones == Range(ZoneList)
AllZones == Zones \cup {Pun}
Dates == FirstDay - BackfillDays..LastDay + 1
Hours == 0..HoursPerDay - 1
Processes == Workers \cup {Script}

\* What GME publishes for an hour; the hours are numbered from 1, and a long day has
\* one more than HoursPerDay.
Entries == [ora : 1..HoursPerDay + 1, price : [AllZones -> Nat \cup {None}]]

ASSUME FeedAssumption ==
    /\ FirstDay \in Nat /\ LastDay \in Nat /\ FirstDay <= LastDay /\ BackfillDays \in Nat \ {0}
    /\ ZoneList \in Seq(Zones) /\ Nord \in Zones /\ Pun \notin Zones /\ Script \notin Workers
    /\ HoursPerDay \in Nat \ {0} /\ Estimate \in Nat \ {0} /\ MaxRestarts \in Nat
    /\ CommitOutcomes \subseteq {"ok", "lost", "unseen"}
    /\ \A d \in Dates : Feed[d] \in Seq(Entries)
    /\ None \notin {"prices", "nothing", "error"}

VARIABLES
    day,        \* the last day whose 12:05 has passed
    published,  \* the delivery days up to here are published by GME
    table,      \* mgp_prices: delivery day -> zone -> hour -> price, for stored hours
    proc,       \* process -> [pc, due, target, got, keys]; got: zone -> answer or None
    broken,     \* the session of the backfill is left in a failed transaction
    restarts    \* restarts of workers so far

vars == <<day, published, table, proc, broken, restarts>>

NoRows == [z \in AllZones |-> <<>>]
NoAnswers == [z \in AllZones |-> None]

\* _wait_until_next_trigger(): the next 12:05 to come.
Waiting == [pc |-> "wait", due |-> day + 1, target |-> None, got |-> NoAnswers, keys |-> {}]
Fetching(date) == [pc |-> "fetch", due |-> None, target |-> date, got |-> NoAnswers, keys |-> {}]

\* The prices of some of the hours of a day.
IsCurve(c) == DOMAIN c \subseteq Hours /\ c \in [DOMAIN c -> Nat]

Busy == {"fetch", "select", "commit"}
Jobs == [pc : Busy \cup {"wait", "idle", "done"}, due : Int \cup {None}, target : Dates \cup {None},
         got : [AllZones -> {"prices", "nothing", "error", None}], keys : SUBSET (AllZones \X Hours)]

TypeOK ==
    /\ day \in FirstDay..LastDay
    /\ published \in {day, day + 1}
    /\ table = [d \in Dates |-> [z \in AllZones |-> table[d][z]]]
    /\ \A d \in Dates, z \in AllZones : IsCurve(table[d][z])
    /\ proc \in [Processes -> Jobs]
    /\ \A p \in Processes : proc[p].pc \in Busy => proc[p].target \in Dates
    /\ broken \in BOOLEAN
    /\ restarts \in 0..MaxRestarts

-----------------------------------------------------------------------------
\* Definitions named Bug... are wrong versions of the definition after them, for
\* mutation testing; no specification uses them.

BugHourOf(e) == e.ora % HoursPerDay

HourOf(e) == (e.ora - 1) % HoursPerDay

\* The chain of "or": no price and a price of zero both give way to the national
\* price.
PriceOf(e, z) ==
    IF e.price[z] \notin {None, 0} THEN e.price[z]
    ELSE IF e.price[Pun] \notin {None, 0} THEN e.price[Pun]
    ELSE None

\* _parse_raw_prices(): entries without a price are left out, and the last entry
\* of an hour stays (the sort is stable).
Parsed(raw, z) ==
    LET at(h) == {i \in DOMAIN raw : HourOf(raw[i]) = h /\ PriceOf(raw[i], z) # None}
        last(h) == CHOOSE i \in at(h) : \A j \in at(h) : j <= i
    IN  [h \in {x \in Hours : at(x) # {}} |-> PriceOf(raw[last(h)], z)]

\* (Hours counted from 1.)
BugFlat == [h \in 1..HoursPerDay |-> Estimate]

\* _fallback_prices(), for a client whose cache is empty.
Flat == [h \in Hours |-> Estimate]

\* get_mgp_prices(): what a call gives when the library answers, has nothing to
\* give, or fails.
Answers(date) == {"error", IF date <= published THEN "prices" ELSE "nothing"}

GetMgpPrices(answer, date, z) ==
    CASE answer = "prices"  -> Parsed(Feed[date], z)
      [] answer = "nothing" -> <<>>
      [] answer = "error"   -> Flat

\* get_pun_index(): the mean of the prices of Nord.
GetPunIndex(answer, date) ==
    LET prices == GetMgpPrices(answer, date, Nord)
    IN  IF DOMAIN prices = {} THEN 0
        ELSE SumFunction(prices) \div Cardinality(DOMAIN prices)

\* The rows that an answer gives: for the national price one value for every hour,
\* or none if it is not positive.
Rows == [d \in Dates |-> [z \in AllZones |-> [answer \in {"prices", "nothing", "error"} |->
            IF z # Pun THEN GetMgpPrices(answer, d, z)
            ELSE IF GetPunIndex(answer, d) > 0 THEN [h \in Hours |-> GetPunIndex(answer, d)]
            ELSE <<>>]]]

\* Rows of yesterday may be there, from a fetch that failed or did not.
Init ==
    /\ day = FirstDay
    /\ published = FirstDay
    /\ table \in {[d \in Dates |-> IF d = FirstDay - 1 THEN rows ELSE NoRows] : rows \in
                     {NoRows} \cup {[z \in AllZones |-> Rows[FirstDay - 1][z][answer]] : answer \in {"prices", "error"}}}
    /\ proc = [p \in Processes |-> IF p \in Workers THEN Waiting ELSE [Waiting EXCEPT !.pc = "idle"]]
    /\ broken = FALSE
    /\ restarts = 0

-----------------------------------------------------------------------------
\* The clock of the market: GME publishes a delivery day on the day before it,
\* and may be late for the fetch.  A fetch takes less than a day.

NextDay ==
    /\ day < LastDay /\ published > day
    /\ \A w \in Workers : proc[w].pc = "wait" /\ proc[w].due > day
    /\ proc[Script].pc \in {"idle", "done"}
    /\ day' = day + 1
    /\ UNCHANGED <<published, table, proc, broken, restarts>>

Publish ==
    /\ published = day
    /\ published' = day + 1
    /\ UNCHANGED <<day, table, proc, broken, restarts>>

-----------------------------------------------------------------------------
\* What the two kinds of processes do when a day is over.

BackfillTarget(p) == proc[p].target - 1
OldestDate(p) == proc[p].due

\* (A day that failed ends the loop.)
BugAfter(p, failed) ==
    IF p \in Workers THEN IF failed THEN [Waiting EXCEPT !.pc = "done"] ELSE Waiting
    ELSE IF BackfillTarget(p) >= OldestDate(p)
         THEN [Fetching(BackfillTarget(p)) EXCEPT !.due = OldestDate(p)]
         ELSE [proc[p] EXCEPT !.pc = "done"]

\* _loop(), and the loop of backfill(): both go on whether the fetch failed or not.
After(p, failed) ==
    IF p \in Workers THEN Waiting
    ELSE IF BackfillTarget(p) >= OldestDate(p)
         THEN [Fetching(BackfillTarget(p)) EXCEPT !.due = OldestDate(p)]
         ELSE [proc[p] EXCEPT !.pc = "done"]

\* An exception of the session: the scheduler opens another the next time; the
\* backfill goes on with the same one, which nobody rolls back.
Ends(p, failed) ==
    /\ proc' = [proc EXCEPT ![p] = After(p, failed)]
    /\ broken' = (broken \/ (failed /\ p = Script))

-----------------------------------------------------------------------------
\* mgp_scheduler.py and backfill().

Trigger(w) ==
    /\ proc[w].pc = "wait" /\ proc[w].due <= day
    /\ proc' = [proc EXCEPT ![w] = Fetching(day + 1)]
    /\ UNCHANGED <<day, published, table, broken, restarts>>

Restart(w) ==
    /\ restarts < MaxRestarts
    /\ restarts' = restarts + 1
    /\ proc' = [proc EXCEPT ![w] = Waiting]
    /\ UNCHANGED <<day, published, table, broken>>

\* (Today and no day too far back; the day before yesterday is the first.)
BugBackfill ==
    /\ proc[Script].pc = "idle" /\ day \in BackfillOn
    /\ proc' = [proc EXCEPT ![Script] = [Fetching(day) EXCEPT !.due = day - BackfillDays + 1]]
    /\ UNCHANGED <<day, published, table, broken, restarts>>

\* The days before today, the latest first; due holds the earliest of them.
Backfill ==
    /\ proc[Script].pc = "idle" /\ day \in BackfillOn
    /\ proc' = [proc EXCEPT ![Script] = [Fetching(day - 1) EXCEPT !.due = day - BackfillDays]]
    /\ UNCHANGED <<day, published, table, broken, restarts>>

-----------------------------------------------------------------------------
\* fetch_and_store(): one call for each zone, one more for the national price.

Calls == Append(ZoneList, Pun)

FetchZone(p) ==
    /\ proc[p].pc = "fetch"
    /\ \E i \in DOMAIN Calls, answer \in Answers(proc[p].target) :
          /\ \A j \in DOMAIN Calls : (proc[p].got[Calls[j]] # None) <=> j < i
          /\ proc' = [proc EXCEPT ![p].got[Calls[i]] = answer,
                                  ![p].pc = IF i = Len(Calls) THEN "select" ELSE "fetch"]
    /\ UNCHANGED <<day, published, table, broken, restarts>>

\* _upsert_rows(): reads the keys of the day, adds the others, commits.
KeysOf(rows) == {k \in AllZones \X Hours : k[2] \in DOMAIN rows[k[1]]}

Fetched(p) == [z \in AllZones |-> Rows[proc[p].target][z][proc[p].got[z]]]

NewRows(p) ==
    LET rows == Fetched(p)
    IN  [z \in AllZones |-> Restrict(rows[z], {h \in DOMAIN rows[z] : <<z, h>> \notin proc[p].keys})]

SelectKeys(p) ==
    /\ proc[p].pc = "select"
    /\ UNCHANGED <<day, published, table, restarts>>
    /\ \/ KeysOf(Fetched(p)) = {} /\ Ends(p, FALSE)
       \/ /\ KeysOf(Fetched(p)) # {} /\ ~(p = Script /\ broken)
          /\ proc' = [proc EXCEPT ![p].pc = "commit", ![p].keys = KeysOf(table[proc[p].target])]
          /\ UNCHANGED broken
       \/ KeysOf(Fetched(p)) # {} /\ (p = Script /\ broken) /\ Ends(p, TRUE)

\* A curve and the prices of another for the hours it lacks.
Completed(c, new) == [h \in DOMAIN c \cup DOMAIN new |-> IF h \in DOMAIN c THEN c[h] ELSE new[h]]

Stored(p) == [z \in AllZones |-> Completed(table[proc[p].target][z], NewRows(p)[z])]

\* The unique constraint refuses the whole transaction if another process has
\* stored one of its rows since.
Clash(p) == KeysOf(NewRows(p)) \cap KeysOf(table[proc[p].target]) # {}

\* (Rows that are there now are overwritten.)
BugCommitRows(p) ==
    /\ proc[p].pc = "commit"
    /\ UNCHANGED <<day, published, restarts>>
    /\ table' = [table EXCEPT ![proc[p].target] = [z \in AllZones |-> Completed(NewRows(p)[z], table[proc[p].target][z])]]
    /\ Ends(p, FALSE)

CommitRows(p) ==
    /\ proc[p].pc = "commit"
    /\ UNCHANGED <<day, published, restarts>>
    /\ \/ KeysOf(NewRows(p)) = {} /\ Ends(p, FALSE) /\ UNCHANGED table
       \/ Clash(p) /\ Ends(p, TRUE) /\ UNCHANGED table
       \/ /\ KeysOf(NewRows(p)) # {} /\ ~Clash(p)
          /\ \E outcome \in CommitOutcomes :
                /\ table' = IF outcome = "lost" THEN table ELSE [table EXCEPT ![proc[p].target] = Stored(p)]
                /\ Ends(p, outcome # "ok")

\* routes/markets.py: a day with any row is shown from the table, one without as
\* a fixed curve.
Source(d, z) == IF DOMAIN table[d][z] # {} THEN "gme-db" ELSE "mock-no-data"

-----------------------------------------------------------------------------
Step(p) == (p \in Workers /\ Trigger(p)) \/ FetchZone(p) \/ SelectKeys(p) \/ CommitRows(p)

Next ==
    \/ NextDay \/ Publish
    \/ \E w \in Workers : Restart(w)
    \/ Backfill
    \/ \E p \in Processes : Step(p)

Spec == Init /\ [][Next]_vars

\* Time passes, GME publishes every day in the end, and the tasks of the event
\* loops run; a call of the library answers or fails.  Nobody has to run the
\* script.
FairSpec ==
    /\ Spec
    /\ WF_vars(NextDay) /\ WF_vars(Publish)
    /\ \A p \in Processes : WF_vars(Step(p))

-----------------------------------------------------------------------------
\* Every stored price is the one GME published for that zone and hour, the
\* national one of that hour where the zone has none or zero, or the estimate of a
\* fetch that failed; an hour past the last of a long day counts as the first.  The
\* national price of a day is one value for all its hours, whichever processes
\* fetched the day at the same time, and with which answers.
NothingInvented ==
    \A d \in Dates :
        /\ \A z \in Zones : \A h \in DOMAIN table[d][z] :
              \/ table[d][z][h] = Estimate
              \/ \E i \in DOMAIN Feed[d] :
                    /\ Feed[d][i].ora \in {h + 1, h + 1 + HoursPerDay}
                    /\ table[d][z][h] = IF Feed[d][i].price[z] \in {None, 0}
                                        THEN Feed[d][i].price[Pun] ELSE Feed[d][i].price[z]
        /\ DOMAIN table[d][Pun] # {} =>
              \E p \in Range(table[d][Pun]) : table[d][Pun] = [h \in Hours |-> p]

\* A curve that was shown from the table is completed at most: whatever two
\* workers, the script, restarts and commits of unknown outcome do, no price that
\* was shown changes, and no day goes back to the fixed curve.
CurveIsFinal ==
    [][\A d \in Dates, z \in AllZones :
          /\ \A h \in DOMAIN table[d][z] : h \in DOMAIN table'[d][z] /\ table'[d][z][h] = table[d][z][h]
          /\ Source(d, z) = "gme-db" => Source(d, z)' = "gme-db"]_vars

\* When the script ends and its session never failed, each of its days has prices
\* for every zone, whatever had been stored or had failed before.
BackfillRepairs ==
    [][(proc[Script].pc # "done" /\ proc'[Script].pc = "done" /\ ~broken') =>
          \A k \in 1..BackfillDays : \A z \in Zones :
              DOMAIN table'[day - k][z] # {}]_vars

\* A worker comes to wait for a day to come again and again, although answers,
\* commits and the worker itself fail; a backfill that was started ends.
FetchersGoOn ==
    \A p \in Processes :
        []<>(IF p = Script THEN proc[p].pc \in {"idle", "done"}
             ELSE proc[p].pc = "wait" /\ proc[p].due > day)
=============================================================================
