---------------------------- MODULE FleetProofs ----------------------------
(***************************************************************************)
(* For any number of batteries, aggregates, workers and requests: the rows *)
(* that handlers loaded before they waited undo nothing of what operators  *)
(* did meanwhile, and readings and plans go with their battery.            *)
(***************************************************************************)
EXTENDS Fleet, TLAPS

\* What a session leaves of a row that is there: each column that it changed, and
\* the others as they are by now.
LEMMA WrittenRow ==
    ASSUME NEW b \in Batteries, row[b] \in Row, NEW seen \in Row, NEW new \in Row
    PROVE  Written(b, seen, new) =
              [id     |-> IF new.id # seen.id THEN new.id ELSE row[b].id,
               active |-> IF new.active # seen.active THEN new.active ELSE row[b].active,
               state  |-> IF new.state # seen.state THEN new.state ELSE row[b].state,
               agg    |-> IF new.agg # seen.agg THEN new.agg ELSE row[b].agg]
<1>1. DOMAIN row[b] = {"id", "active", "state", "agg"}
  BY DEF Row
<1>. QED  BY <1>1 DEF Written

LEMMA WrittenState ==
    ASSUME NEW b \in Batteries, row[b] \in Row, NEW seen \in Row, NEW st \in States
    PROVE  LET w == Written(b, seen, [seen EXCEPT !.state = st])
           IN  /\ w \in Row
               /\ \E x \in States : w = [row[b] EXCEPT !.state = x]
<1> DEFINE new == [seen EXCEPT !.state = st]
<1>1. /\ new \in Row /\ new.state = st
      /\ new.id = seen.id /\ new.active = seen.active /\ new.agg = seen.agg
  BY DEF Row
<1> HIDE DEF new
<1>2. Written(b, seen, new) = [id |-> row[b].id, active |-> row[b].active,
                               state |-> IF new.state # seen.state THEN new.state ELSE row[b].state,
                               agg |-> row[b].agg]
  BY <1>1, WrittenRow
<1>3. PICK x \in States : Written(b, seen, new) =
                            [id |-> row[b].id, active |-> row[b].active, state |-> x, agg |-> row[b].agg]
  BY <1>1, <1>2 DEF Row
<1>4. Written(b, seen, new) \in Row /\ Written(b, seen, new) = [row[b] EXCEPT !.state = x]
  BY <1>3 DEF Row
<1>. QED  BY <1>4 DEF new

LEMMA WrittenActive ==
    ASSUME NEW b \in Batteries, row[b] \in Row, NEW seen \in Row, NEW flag \in BOOLEAN
    PROVE  LET w == Written(b, seen, [seen EXCEPT !.active = flag])
           IN  w \in Row /\ w.id = row[b].id /\ w.agg = row[b].agg
<1> DEFINE new == [seen EXCEPT !.active = flag]
<1>1. /\ new \in Row /\ new.active = flag
      /\ new.id = seen.id /\ new.state = seen.state /\ new.agg = seen.agg
  BY DEF Row
<1> HIDE DEF new
<1>2. Written(b, seen, new) = [id |-> row[b].id,
                               active |-> IF new.active # seen.active THEN new.active ELSE row[b].active,
                               state |-> row[b].state, agg |-> row[b].agg]
  BY <1>1, WrittenRow
<1>. QED  BY <1>1, <1>2 DEF Row, new

LEMMA WrittenAgg ==
    ASSUME NEW b \in Batteries, row[b] \in Row, NEW seen \in Row, NEW a \in Aggregates \cup {None}
    PROVE  LET w == Written(b, seen, [seen EXCEPT !.agg = a])
           IN  w \in Row /\ w.id = row[b].id /\ (w.agg = row[b].agg \/ w.agg = a)
<1> DEFINE new == [seen EXCEPT !.agg = a]
<1>1. /\ new \in Row /\ new.agg = a
      /\ new.id = seen.id /\ new.state = seen.state /\ new.active = seen.active
  BY DEF Row
<1> HIDE DEF new
<1>2. Written(b, seen, new) = [id |-> row[b].id, active |-> row[b].active, state |-> row[b].state,
                               agg |-> IF new.agg # seen.agg THEN new.agg ELSE row[b].agg]
  BY <1>1, WrittenRow
<1>. QED  BY <1>1, <1>2 DEF Row, new

-----------------------------------------------------------------------------
\* What becomes of a request.

LEMMA DoneOK == RequestOK(Done) /\ RequestOK(NotMade)
<1>1. Done = [kind |-> "none", pc |-> "done", on |-> {}, arg |-> None, seen |-> [b \in Batteries |-> None]]
  BY DEF Done, NotMade
<1>. QED  BY <1>1 DEF NotMade, RequestOK, Kinds, Steps, Args, Request

LEMMA GoesOn ==
    ASSUME NEW q, RequestOK(q), q.kind # "none", 
           NEW pc \in Steps(q.kind), pc # "commit", q.pc = "commit" => q.kind # "command"
    PROVE  RequestOK([q EXCEPT !.pc = pc])
<1> DEFINE x == [kind |-> q.kind, pc |-> pc, on |-> q.on, arg |-> q.arg, seen |-> q.seen]
<1>1. q \in Request(q.kind, q.pc)
  BY DEF RequestOK
<1>2. [q EXCEPT !.pc = pc] = x
  BY <1>1 DEF Request
<1>3. Args(q.kind, pc) = Args(q.kind, q.pc)
  BY DEF Args, RequestOK, Steps
<1>4. x \in Request(q.kind, pc)
  BY <1>1, <1>3 DEF Request
<1>5. RequestOK(x)
  BY <1>4 DEF RequestOK
<1>. QED  BY <1>2, <1>5

\* A step after which the rows are as they were.
LEMMA RequestStep ==
    ASSUME TypeOK, UNCHANGED <<row, made, history, aggs, poll>>,
           plant' \in [Batteries -> {"charge", "discharge", "stop", None}],
           DOMAIN req' = Requests,
           \A r \in Requests : req'[r] = req[r] \/ RequestOK(req'[r])
    PROVE  TypeOK'
<1>1. \A r \in Requests : RequestOK(req[r])'
  BY DEF TypeOK, RequestOK
<1>. QED  BY <1>1 DEF TypeOK, PollOK

LEMMA PollStep ==
    ASSUME TypeOK, UNCHANGED <<row, made, history, aggs, plant, req>>,
           poll' \in [Pollers -> [Batteries -> Poller]],
           \A w \in Pollers, b \in Batteries : poll'[w][b] = poll[w][b] \/ PollOK(poll'[w][b])
    PROVE  TypeOK'
<1>1. \A w \in Pollers, b \in Batteries : PollOK(poll[w][b])'
  BY DEF TypeOK, PollOK
<1>. QED  BY <1>1 DEF TypeOK, RequestOK

LEMMA InitTypeOK == Init => TypeOK
<1> SUFFICES ASSUME Init PROVE TypeOK
  OBVIOUS
<1>1. /\ row \in [Batteries -> Row \cup {None}]
      /\ \A b \in Batteries : row[b] # None => row[b].id = 1 /\ row[b].agg = None
  BY DEF Init, Row, States
<1>2. poll \in [Pollers -> [Batteries -> Poller]] /\ \A w \in Pollers, b \in Batteries : PollOK(poll[w][b])
  BY DEF Init, Asleep, Fresh, Poller, PollOK
<1>3. DOMAIN req = Requests /\ \A r \in Requests : RequestOK(req[r])
  BY DoneOK DEF Init
<1>4. /\ made = [b \in Batteries |-> IF row[b] = None THEN 0 ELSE 1]
      /\ history = {b \in Batteries : row[b] # None}
      /\ aggs = Aggregates
      /\ plant = [b \in Batteries |-> IF row[b] = None THEN None ELSE "stop"]
  BY DEF Init
<1>5. /\ made \in [Batteries -> Nat]
      /\ \A b \in Batteries : row[b] # None => row[b].id = made[b] /\ row[b].agg \in aggs \cup {None}
  BY <1>1, <1>4
<1>6. plant \in [Batteries -> {"charge", "discharge", "stop", None}]
  BY <1>4
<1>. QED  BY <1>1, <1>2, <1>3, <1>4, <1>5, <1>6 DEF TypeOK

-----------------------------------------------------------------------------
\* The steps that touch no row.

LEMMA AnsweredPoll ==
    ASSUME NEW p \in Poller, NEW st
    PROVE  [p EXCEPT !.pc = "load", !.have = st] = [pc |-> "load", id |-> p.id, have |-> st, seen |-> p.seen]
<1> DEFINE x == [pc |-> "load", id |-> p.id, have |-> p.have, seen |-> p.seen]
<1>1. [p EXCEPT !.pc = "load"] = x
  BY DEF Poller
<1>2. [x EXCEPT !.have = st] = [pc |-> "load", id |-> p.id, have |-> st, seen |-> p.seen]
  OBVIOUS
<1>. QED  BY <1>1, <1>2

LEMMA OnePoll ==
    ASSUME TypeOK, NEW w \in Pollers, NEW b \in Batteries, NEW p \in Poller,
           PollOK(p), poll' = [poll EXCEPT ![w][b] = p]
    PROVE  /\ poll' \in [Pollers -> [Batteries -> Poller]]
           /\ \A v \in Pollers, c \in Batteries : poll'[v][c] = poll[v][c] \/ PollOK(poll'[v][c])
<1>1. poll \in [Pollers -> [Batteries -> Poller]]
  BY DEF TypeOK
<1>2. poll' = [poll EXCEPT ![w] = [poll[w] EXCEPT ![b] = p]]
  OBVIOUS
<1>. QED  BY <1>1, <1>2

LEMMA PollerSteps ==
    ASSUME TypeOK, NEW w \in Pollers,
           BeginCycle(w) \/ Restart(w) \/ \E b \in Batteries : Ask(w, b) \/ Load(w, b)
    PROVE  TypeOK'
<1>0. /\ poll \in [Pollers -> [Batteries -> Poller]]
      /\ \A v \in Pollers, c \in Batteries : PollOK(poll[v][c])
      /\ row \in [Batteries -> Row \cup {None}]
      /\ plant \in [Batteries -> {"charge", "discharge", "stop", None}]
  BY DEF TypeOK
<1>1. /\ Asleep \in Poller /\ PollOK(Asleep)
      /\ Fresh \in Poller /\ PollOK(Fresh)
  BY DEF Asleep, Fresh, Poller, PollOK
<1>2. CASE BeginCycle(w)
  <2> DEFINE p(c) == IF Polled(c) THEN [Asleep EXCEPT !.pc = "ask", !.id = row[c].id] ELSE Asleep
  <2>1. \A c \in Batteries : p(c) \in Poller /\ PollOK(p(c))
    <3> SUFFICES ASSUME NEW c \in Batteries, Polled(c) PROVE p(c) \in Poller /\ PollOK(p(c))
      BY <1>1
    <3>1. row[c].id \in Nat
      BY <1>0 DEF Polled, Row
    <3>2. p(c) = [pc |-> "ask", id |-> row[c].id, have |-> None, seen |-> None]
      BY DEF Asleep
    <3>. QED  BY <3>1, <3>2 DEF Poller, PollOK
  <2> HIDE DEF p
  <2>2. poll' = [poll EXCEPT ![w] = [c \in Batteries |-> p(c)]]
    BY <1>2 DEF BeginCycle, p
  <2>3. /\ poll' \in [Pollers -> [Batteries -> Poller]]
        /\ \A v \in Pollers, c \in Batteries : poll'[v][c] = poll[v][c] \/ PollOK(poll'[v][c])
    BY <1>0, <2>1, <2>2
  <2>. QED  BY <1>0, <1>2, <2>2, <2>3, PollStep DEF BeginCycle
<1>3. ASSUME NEW b \in Batteries, Ask(w, b) PROVE TypeOK'
  <2>1. PICK have \in {StateOf(plant[b]), "offline"} :
             poll' = [poll EXCEPT ![w][b] = [@ EXCEPT !.pc = "load", !.have = have]]
    BY <1>3 DEF Ask
  <2>2. have \in States
    BY DEF StateOf, States
  <2> DEFINE p == [poll[w][b] EXCEPT !.pc = "load", !.have = have]
  <2>3. p = [pc |-> "load", id |-> poll[w][b].id, have |-> have, seen |-> poll[w][b].seen]
    <3>1. poll[w][b] \in Poller
      BY <1>0
    <3>. QED  BY <3>1, AnsweredPoll
  <2>4. p \in Poller /\ PollOK(p)
    BY <1>0, <2>2, <2>3 DEF Poller, PollOK
  <2>5. poll' = [poll EXCEPT ![w][b] = p]
    BY <2>1
  <2> HIDE DEF p
  <2>. QED  BY <1>0, <1>3, <2>4, <2>5, OnePoll, PollStep DEF Ask
<1>4. ASSUME NEW b \in Batteries, Load(w, b) PROVE TypeOK'
  <2> DEFINE stores == Still(b, poll[w][b].id) /\ (poll[w][b].have = "offline" => row[b].state # "offline")
             p == IF stores THEN [poll[w][b] EXCEPT !.pc = "commit", !.seen = row[b]] ELSE Asleep
  <2>1. p \in Poller /\ PollOK(p)
    <3> SUFFICES ASSUME stores PROVE p \in Poller /\ PollOK(p)
      BY <1>1
    <3>1. row[b] \in Row /\ poll[w][b].have \in States
      BY <1>0, <1>4 DEF Still, Load, PollOK
    <3>2. poll[w][b] \in Poller
      BY <1>0
    <3>3. p = [pc |-> "commit", id |-> poll[w][b].id, have |-> poll[w][b].have, seen |-> row[b]]
      BY <3>2 DEF Poller
    <3>. QED  BY <3>1, <3>2, <3>3 DEF Poller, PollOK
  <2>2. poll' = [poll EXCEPT ![w][b] = p]
    BY <1>4 DEF Load
  <2> HIDE DEF p
  <2>3. /\ poll' \in [Pollers -> [Batteries -> Poller]]
        /\ \A v \in Pollers, c \in Batteries : poll'[v][c] = poll[v][c] \/ PollOK(poll'[v][c])
    BY <2>1, <2>2, OnePoll
  <2>. QED  BY <1>0, <1>4, <2>3, PollStep DEF Load
<1>5. CASE Restart(w)
  <2>1. /\ poll' \in [Pollers -> [Batteries -> Poller]]
        /\ \A v \in Pollers, c \in Batteries : poll'[v][c] = poll[v][c] \/ PollOK(poll'[v][c])
    BY <1>0, <1>1, <1>5 DEF Restart
  <2>. QED  BY <1>5, <2>1, PollStep DEF Restart
<1>. QED  BY <1>2, <1>3, <1>4, <1>5

\* The first step of a request that waits for something.
LEMMA BeginTyped ==
    ASSUME TypeOK, NEW r \in Requests, NEW kind \in Kinds \ {"none"}, NEW pc \in Steps(kind),
           NEW on \in SUBSET Batteries, NEW arg \in Args(kind, pc), Begin(r, kind, pc, on, arg),
           kind \in Updates => \A b \in on : Exists(b),
           kind = "assign" => arg \in aggs \cup {None}
    PROVE  TypeOK'
<1> DEFINE seen == [b \in Batteries |-> IF b \in on /\ kind \in Updates THEN row[b] ELSE None]
           q == [kind |-> kind, pc |-> pc, on |-> on, arg |-> arg, seen |-> seen]
<1>0. row \in [Batteries -> Row \cup {None}] /\ DOMAIN req = Requests
  BY DEF TypeOK
<1>1. seen \in [Batteries -> Row \cup {None}]
  BY <1>0
<1>2. kind \in Updates => \A b \in on : seen[b] \in Row
  BY <1>0 DEF Exists
<1>3. req' = [req EXCEPT ![r] = q] /\ UNCHANGED <<row, made, history, aggs, plant, poll>>
  BY DEF Begin
<1> HIDE DEF seen
<1>4. RequestOK(q)
  BY <1>1, <1>2 DEF RequestOK, Request
<1> HIDE DEF q
<1>5. DOMAIN req' = Requests /\ \A x \in Requests : req'[x] = req[x] \/ RequestOK(req'[x])
  BY <1>0, <1>3, <1>4
<1>. QED  BY <1>3, <1>5, RequestStep DEF TypeOK

LEMMA Begins ==
    ASSUME TypeOK, NEW r \in Requests, Call(r)
    PROVE  \/ TypeOK'
           \/ \E a \in Aggregates : CreateAggregate(r, a) \/ DeleteAggregate(r, a)
<1> USE DEF Kinds, Steps, Args, Updates
<1>0. row \in [Batteries -> Row \cup {None}]
  BY DEF TypeOK
<1>1. ASSUME NEW b \in Batteries, DeleteBattery(r, b) PROVE TypeOK'
  <2>1. row[b].id \in Nat
    BY <1>0, <1>1 DEF DeleteBattery, Exists, Row
  <2>. QED  BY <1>1, <2>1, BeginTyped DEF DeleteBattery
<1>2. ASSUME NEW b \in Batteries, CreateBattery(r, b) PROVE TypeOK'
  BY <1>2, BeginTyped DEF CreateBattery
<1>3. ASSUME NEW b \in Batteries, NEW switch \in Commands, SendDispatchCommand(r, b, switch) PROVE TypeOK'
  BY <1>3, BeginTyped DEF SendDispatchCommand
<1>4. ASSUME NEW b \in Batteries, NEW a \in aggs \cup {None}, AssignBattery(r, b, a) PROVE TypeOK'
  <2>1. a \in Aggregates \cup {None}
    BY DEF TypeOK
  <2>. QED  BY <1>4, <2>1, BeginTyped DEF AssignBattery
<1>5. ASSUME NEW b \in Batteries, NEW flag \in BOOLEAN, UpdateBattery(r, b, flag) PROVE TypeOK'
  BY <1>5, BeginTyped DEF UpdateBattery
<1>6. ASSUME NEW on \in SUBSET Batteries \ {{}}, BulkImport(r, on) PROVE TypeOK'
  <2>1. {b \in on : ~Exists(b)} \in SUBSET Batteries
    OBVIOUS
  <2>. QED  BY <1>6, <2>1, BeginTyped DEF BulkImport
<1>7. ASSUME NEW on \in SUBSET Batteries \ {{}}, NEW flag \in BOOLEAN, SetActive(r, on, flag) PROVE TypeOK'
  BY <1>7, BeginTyped DEF SetActive
<1>. QED  BY <1>1, <1>2, <1>3, <1>4, <1>5, <1>6, <1>7 DEF Call

\* The later steps of a request, and of a plant, that change no row.
LEMMA ReadBackRequest ==
    ASSUME NEW kind, NEW pc, NEW q \in Request(kind, pc), NEW st
    PROVE  [q EXCEPT !.pc = "commit", !.arg = st] =
              [kind |-> q.kind, pc |-> "commit", on |-> q.on, arg |-> st, seen |-> q.seen]
<1> DEFINE x == [kind |-> q.kind, pc |-> "commit", on |-> q.on, arg |-> q.arg, seen |-> q.seen]
<1>1. [q EXCEPT !.pc = "commit"] = x
  BY DEF Request
<1>2. [x EXCEPT !.arg = st] = [kind |-> q.kind, pc |-> "commit", on |-> q.on, arg |-> st, seen |-> q.seen]
  OBVIOUS
<1>. QED  BY <1>1, <1>2

LEMMA RequestSteps ==
    ASSUME TypeOK, NEW r \in Requests,
           \/ \E b \in Batteries : Send(r, b) \/ ReadBack(r, b) \/ Remove(r, b) \/ Wipe(r, b) \/ Push(r, b)
           \/ Refuse(r)
    PROVE  TypeOK'
<1> DEFINE switches == {"charge", "discharge", "stop", None}
<1>0. /\ DOMAIN req = Requests /\ RequestOK(req[r]) /\ req[r] \in Request(req[r].kind, req[r].pc)
      /\ req[r].kind \in Kinds /\ req[r].pc \in Steps(req[r].kind)
      /\ plant \in [Batteries -> switches]
  BY DEF TypeOK, RequestOK
<1>1. ASSUME NEW q, req' = [req EXCEPT ![r] = q], RequestOK(q)
      PROVE  DOMAIN req' = Requests /\ \A x \in Requests : req'[x] = req[x] \/ RequestOK(req'[x])
  BY <1>0, <1>1
<1>2. Ends(r) => DOMAIN req' = Requests /\ \A x \in Requests : req'[x] = req[x] \/ RequestOK(req'[x])
  BY <1>1, DoneOK DEF Ends
<1>3. ASSUME NEW pc \in Steps(req[r].kind) \ {"commit"}, req[r].kind # "none", req[r].pc # "commit", GoesTo(r, pc)
      PROVE  DOMAIN req' = Requests /\ \A x \in Requests : req'[x] = req[x] \/ RequestOK(req'[x])
  <2>1. req' = [req EXCEPT ![r] = [req[r] EXCEPT !.pc = pc]]
    BY <1>3 DEF GoesTo
  <2>2. RequestOK([req[r] EXCEPT !.pc = pc])
    BY <1>0, <1>3, GoesOn
  <2>. QED  BY <1>1, <2>1, <2>2
<1>4. ASSUME NEW b \in Batteries, Send(r, b) PROVE TypeOK'
  <2>1. req[r].kind = "command" /\ req[r].pc = "send"
    BY <1>0, <1>4 DEF Send, At, Kinds, Steps
  <2>2. req[r].arg \in switches
    BY <1>0, <2>1, FleetAssumption DEF Request, Args
  <2>3. DOMAIN req' = Requests /\ \A x \in Requests : req'[x] = req[x] \/ RequestOK(req'[x])
    <3>1. CASE Ends(r)
      BY <3>1, <1>2
    <3>2. CASE GoesTo(r, "read back")
      BY <3>2, <1>3, <2>1 DEF Steps
    <3>. QED  BY <1>4, <3>1, <3>2 DEF Send
  <2>4. plant' \in [Batteries -> switches]
    BY <1>0, <1>4, <2>2 DEF Send
  <2>. QED  BY <1>0, <1>4, <2>3, <2>4, RequestStep DEF Send
<1>5. ASSUME NEW b \in Batteries, ReadBack(r, b) PROVE TypeOK'
  <2>1. CASE Ends(r)
    BY <1>0, <1>2, <1>5, <2>1, RequestStep DEF ReadBack
  <2>2. CASE ~Ends(r)
    <3> DEFINE st == StateOf(plant[b])
               q == [req[r] EXCEPT !.pc = "commit", !.arg = st]
    <3>1. req[r].kind = "command" /\ st \in States
      BY <1>0, <1>5 DEF ReadBack, At, Kinds, Steps, StateOf, States
    <3> HIDE DEF st
    <3>2. q = [kind |-> req[r].kind, pc |-> "commit", on |-> req[r].on, arg |-> st, seen |-> req[r].seen]
      BY <1>0, ReadBackRequest
    <3>3. /\ req[r].on \in SUBSET Batteries /\ req[r].seen \in [Batteries -> Row \cup {None}]
          /\ \A c \in req[r].on : req[r].seen[c] \in Row
      BY <1>0, <3>1 DEF Request, RequestOK, Updates
    <3>4. RequestOK(q)
      BY <3>1, <3>2, <3>3 DEF RequestOK, Request, Kinds, Steps, Args
    <3>5. req' = [req EXCEPT ![r] = q]
      BY <1>5, <2>2 DEF ReadBack, st
    <3> HIDE DEF q
    <3>6. DOMAIN req' = Requests /\ \A x \in Requests : req'[x] = req[x] \/ RequestOK(req'[x])
      BY <1>1, <3>4, <3>5
    <3>. QED  BY <1>0, <1>5, <3>6, RequestStep DEF ReadBack
  <2>. QED  BY <2>1, <2>2
<1>6. ASSUME NEW b \in Batteries, Remove(r, b) PROVE TypeOK'
  <2>1. req[r].kind = "delete" /\ req[r].pc = "remove"
    BY <1>0, <1>6 DEF Remove, At, Kinds, Steps
  <2>2. DOMAIN req' = Requests /\ \A x \in Requests : req'[x] = req[x] \/ RequestOK(req'[x])
    BY <1>3, <1>6, <2>1 DEF Remove, Steps
  <2>3. plant' \in [Batteries -> switches]
    BY <1>0, <1>6 DEF Remove
  <2>. QED  BY <1>0, <1>6, <2>2, <2>3, RequestStep DEF Remove
<1>7. ASSUME NEW b \in Batteries, Wipe(r, b) PROVE TypeOK'
  <2>1. req[r].kind = "delete" /\ req[r].pc = "wipe"
    BY <1>0, <1>7 DEF Wipe, At, Kinds, Steps
  <2>2. DOMAIN req' = Requests /\ \A x \in Requests : req'[x] = req[x] \/ RequestOK(req'[x])
    BY <1>3, <1>7, <2>1 DEF Wipe, Steps
  <2>. QED  BY <1>0, <1>7, <2>2, RequestStep DEF Wipe
<1>8. ASSUME NEW b \in Batteries, Push(r, b) PROVE TypeOK'
  <2>1. req[r].kind = "create" /\ req[r].pc = "push"
    BY <1>0, <1>8 DEF Push, At, Kinds, Steps
  <2>2. DOMAIN req' = Requests /\ \A x \in Requests : req'[x] = req[x] \/ RequestOK(req'[x])
    BY <1>3, <1>8, <2>1 DEF Push, Steps
  <2>3. plant' \in [Batteries -> switches]
    BY <1>0, <1>8 DEF Push
  <2>. QED  BY <1>0, <1>8, <2>2, <2>3, RequestStep DEF Push
<1>9. CASE Refuse(r)
  BY <1>0, <1>2, <1>9, RequestStep DEF Refuse
<1>. QED  BY <1>4, <1>5, <1>6, <1>7, <1>8, <1>9

-----------------------------------------------------------------------------
\* The steps that change rows.

LEMMA Doom ==
    ASSUME NEW q, RequestOK(q), q.pc = "wiped"
    PROVE  RequestOK([q EXCEPT !.pc = "doomed"])
<1>1. q.kind = "delete"
  BY DEF RequestOK, Kinds, Steps
<1>. QED  BY <1>1, GoesOn DEF Steps

LEMMA RowStep ==
    ASSUME TypeOK, UNCHANGED <<aggs, plant>>,
           row' \in [Batteries -> Row \cup {None}], made' \in [Batteries -> Nat],
           \A b \in Batteries : row'[b] # None => row'[b].id = made'[b] /\ row'[b].agg \in aggs \cup {None},
           history' \subseteq Batteries, \A b \in history' : row'[b] # None,
           poll' \in [Pollers -> [Batteries -> Poller]],
           \A w \in Pollers, b \in Batteries : poll'[w][b] = poll[w][b] \/ PollOK(poll'[w][b]),
           DOMAIN req' = Requests,
           \A r \in Requests : req'[r] = req[r] \/ RequestOK(req'[r])
    PROVE  TypeOK'
<1>1. \A r \in Requests : RequestOK(req[r])'
  BY DEF TypeOK, RequestOK
<1>2. \A w \in Pollers, b \in Batteries : PollOK(poll[w][b])'
  BY DEF TypeOK, PollOK
<1>. QED  BY <1>1, <1>2 DEF TypeOK

\* One row, whose state is stored: what it is configured to do stays.
LEMMA OneState ==
    ASSUME TypeOK, NEW b \in Batteries, row[b] # None, NEW seen \in Row, NEW st \in States,
           row' = [row EXCEPT ![b] = Written(b, seen, [seen EXCEPT !.state = st])]
    PROVE  /\ row' \in [Batteries -> Row \cup {None}]
           /\ \A c \in Batteries : row'[c] = None <=> row[c] = None
           /\ \A c \in Batteries : row'[c] # None => row'[c].id = row[c].id /\ row'[c].agg = row[c].agg
           /\ \A c \in Batteries : Config(c)' = Config(c)
<1> DEFINE w == Written(b, seen, [seen EXCEPT !.state = st])
<1>0. row \in [Batteries -> Row \cup {None}] /\ row[b] \in Row
  BY DEF TypeOK
<1>1. w \in Row /\ \E x \in States : w = [row[b] EXCEPT !.state = x]
  BY <1>0, WrittenState
<1>2. w # None
  BY <1>1, FleetAssumption
<1> HIDE DEF w
<1>3. row' = [row EXCEPT ![b] = w]
  BY DEF w
<1>4. PICK x \in States : w = [row[b] EXCEPT !.state = x]
  BY <1>1
<1>5. w = [id |-> row[b].id, active |-> row[b].active, state |-> x, agg |-> row[b].agg]
  BY <1>0, <1>4 DEF Row
<1>6. w.id = row[b].id /\ w.agg = row[b].agg
  BY <1>5
<1>7. [w EXCEPT !.state = None] = [row[b] EXCEPT !.state = None]
  <2>1. [row[b] EXCEPT !.state = None] = [id |-> row[b].id, active |-> row[b].active, state |-> None, agg |-> row[b].agg]
    BY <1>0 DEF Row
  <2>2. [w EXCEPT !.state = None] = [id |-> row[b].id, active |-> row[b].active, state |-> None, agg |-> row[b].agg]
    BY <1>5
  <2>. QED  BY <2>1, <2>2
<1>8. \A c \in Batteries : row'[c] = IF c = b THEN w ELSE row[c]
  BY <1>0, <1>3
<1>9. \A c \in Batteries : Config(c)' = Config(c)
  <2> SUFFICES ASSUME NEW c \in Batteries PROVE Config(c)' = Config(c)
    OBVIOUS
  <2>1. CASE c = b
    <3>1. row'[b] = w
      BY <1>8
    <3>2. Config(b)' = [w EXCEPT !.state = None]
      BY <1>2, <3>1 DEF Config
    <3>3. Config(b) = [row[b] EXCEPT !.state = None]
      BY DEF Config
    <3>. QED  BY <1>7, <2>1, <3>2, <3>3
  <2>2. CASE c # b
    <3>1. row'[c] = row[c]
      BY <1>8, <2>2
    <3>. QED  BY <3>1 DEF Config
  <2>. QED  BY <2>1, <2>2
<1>. QED  BY <1>0, <1>1, <1>2, <1>3, <1>6, <1>8, <1>9

LEMMA StoreTyped ==
    ASSUME TypeOK, NEW w \in Pollers, NEW b \in Batteries, Store(w, b)
    PROVE  /\ TypeOK'
           /\ \A c \in Batteries : (row'[c] = None <=> row[c] = None) /\ Config(c)' = Config(c)
<1> DEFINE p == poll[w][b]
<1>0. /\ poll \in [Pollers -> [Batteries -> Poller]] /\ p \in Poller /\ PollOK(p) /\ p.pc = "commit"
      /\ DOMAIN req = Requests /\ row \in [Batteries -> Row \cup {None}]
      /\ history \subseteq Batteries /\ \A c \in history : row[c] # None
      /\ made \in [Batteries -> Nat]
      /\ \A c \in Batteries : row[c] # None => row[c].id = made[c] /\ row[c].agg \in aggs \cup {None}
  BY DEF TypeOK, Store
<1>1. p.seen \in Row /\ p.have \in States
  BY <1>0 DEF PollOK
<1>2. /\ poll' \in [Pollers -> [Batteries -> Poller]]
      /\ \A v \in Pollers, c \in Batteries : poll'[v][c] = poll[v][c] \/ PollOK(poll'[v][c])
  <2>1. Asleep \in Poller /\ PollOK(Asleep)
    BY DEF Asleep, Poller, PollOK
  <2>. QED  BY <2>1, OnePoll DEF Store
<1>3. /\ row' \in [Batteries -> Row \cup {None}]
      /\ \A c \in Batteries : row'[c] = None <=> row[c] = None
      /\ \A c \in Batteries : row'[c] # None => row'[c].id = row[c].id /\ row'[c].agg = row[c].agg
      /\ \A c \in Batteries : Config(c)' = Config(c)
  <2>1. CASE Still(b, p.id)
    <3>1. row' = [row EXCEPT ![b] = Written(b, p.seen, [p.seen EXCEPT !.state = p.have])]
      BY <2>1 DEF Store
    <3>. QED  BY <1>1, <2>1, <3>1, OneState DEF Still
  <2>2. CASE ~Still(b, p.id)
    BY <1>0, <2>2 DEF Store, Config
  <2>. QED  BY <2>1, <2>2
<1>4. /\ history' \subseteq Batteries /\ \A c \in history' : row'[c] # None
      /\ DOMAIN req' = Requests /\ \A r \in Requests : req'[r] = req[r] \/ RequestOK(req'[r])
  <2>1. CASE AddReading(b) /\ Still(b, p.id)
    <3>1. row[b] # None /\ history' = history \cup {b}
      BY <2>1 DEF Still, AddReading
    <3>2. req' = [r \in Requests |-> IF req[r].pc = "wiped" /\ req[r].on = {b}
                                     THEN [req[r] EXCEPT !.pc = "doomed"] ELSE req[r]]
      BY <2>1 DEF AddReading
    <3>3. \A r \in Requests : RequestOK(req[r])
      BY DEF TypeOK
    <3>4. \A r \in Requests : req[r].pc = "wiped" => RequestOK([req[r] EXCEPT !.pc = "doomed"])
      BY <3>3, Doom
    <3>. QED  BY <1>0, <1>3, <3>1, <3>2, <3>4
  <2>2. CASE UNCHANGED <<history, req>>
    BY <1>0, <1>3, <2>2
  <2>. QED  BY <2>1, <2>2 DEF Store
<1>5. UNCHANGED <<made, aggs, plant>>
  BY DEF Store
<1>. QED  BY <1>0, <1>2, <1>3, <1>4, <1>5, RowStep

LEMMA StoreStateTyped ==
    ASSUME TypeOK, NEW r \in Requests, NEW b \in Batteries, StoreState(r, b)
    PROVE  /\ TypeOK'
           /\ \A c \in Batteries : (row'[c] = None <=> row[c] = None) /\ Config(c)' = Config(c)
<1> DEFINE seen == req[r].seen[b]
           st == req[r].arg
<1>0. /\ DOMAIN req = Requests /\ RequestOK(req[r]) /\ row \in [Batteries -> Row \cup {None}]
      /\ \A x \in Requests : RequestOK(req[x])
      /\ history \subseteq Batteries /\ \A c \in history : row[c] # None
      /\ made \in [Batteries -> Nat] /\ poll \in [Pollers -> [Batteries -> Poller]]
      /\ \A c \in Batteries : row[c] # None => row[c].id = made[c] /\ row[c].agg \in aggs \cup {None}
  BY DEF TypeOK
<1>1. req[r].kind = "command" /\ req[r].pc = "commit" /\ req[r].on = {b}
  BY DEF StoreState, At
<1>2. seen \in Row /\ st \in States
  BY <1>0, <1>1 DEF RequestOK, Updates, Request, Args
<1> HIDE DEF seen, st
<1>3. CASE ~Still(b, seen.id)
  <2>1. Ends(r) /\ UNCHANGED <<row, made, history, aggs, plant, poll>>
    BY <1>3 DEF StoreState, seen
  <2>2. DOMAIN req' = Requests /\ \A x \in Requests : req'[x] = req[x] \/ RequestOK(req'[x])
    BY <1>0, <2>1, DoneOK DEF Ends
  <2>3. TypeOK'
    BY <2>1, <2>2, RequestStep DEF TypeOK
  <2>. QED  BY <2>1, <2>3 DEF Config
<1>4. CASE Still(b, seen.id)
  <2>1. /\ row' = [row EXCEPT ![b] = Written(b, seen, [seen EXCEPT !.state = st])]
        /\ history' = history \cup {b}
        /\ UNCHANGED <<made, aggs, plant, poll>>
    BY <1>4 DEF StoreState, seen, st
  <2>2. req' = [q \in Requests |-> IF q = r THEN Done
                                   ELSE IF At(q, "wiped") /\ req[q].on = {b}
                                   THEN [req[q] EXCEPT !.pc = "doomed"] ELSE req[q]]
    BY <1>4 DEF StoreState, seen
  <2>3. /\ row' \in [Batteries -> Row \cup {None}]
        /\ \A c \in Batteries : row'[c] = None <=> row[c] = None
        /\ \A c \in Batteries : row'[c] # None => row'[c].id = row[c].id /\ row'[c].agg = row[c].agg
        /\ \A c \in Batteries : Config(c)' = Config(c)
    BY <1>2, <1>4, <2>1, OneState DEF Still
  <2>4. \A q \in Requests : At(q, "wiped") => RequestOK([req[q] EXCEPT !.pc = "doomed"])
    BY <1>0, Doom DEF At
  <2>5. DOMAIN req' = Requests /\ \A x \in Requests : req'[x] = req[x] \/ RequestOK(req'[x])
    BY <1>0, <2>2, <2>4, DoneOK
  <2>6. history' \subseteq Batteries /\ \A c \in history' : row'[c] # None
    BY <1>0, <1>4, <2>1, <2>3 DEF Still
  <2>7. TypeOK'
    BY <1>0, <2>1, <2>3, <2>5, <2>6, RowStep
  <2>. QED  BY <2>3, <2>7
<1>. QED  BY <1>3, <1>4

LEMMA EndDeleteTyped ==
    ASSUME TypeOK, NEW r \in Requests, NEW b \in Batteries, EndDelete(r, b)
    PROVE  TypeOK'
<1>0. /\ DOMAIN req = Requests /\ row \in [Batteries -> Row \cup {None}]
      /\ history \subseteq Batteries /\ \A c \in history : row[c] # None
      /\ made \in [Batteries -> Nat] /\ poll \in [Pollers -> [Batteries -> Poller]]
      /\ \A c \in Batteries : row[c] # None => row[c].id = made[c] /\ row[c].agg \in aggs \cup {None}
  BY DEF TypeOK
<1>1. DOMAIN req' = Requests /\ \A x \in Requests : req'[x] = req[x] \/ RequestOK(req'[x])
  BY <1>0, DoneOK DEF EndDelete, Ends
<1>2. /\ row' \in [Batteries -> Row \cup {None}]
      /\ \A c \in Batteries : row'[c] # None => row'[c] = row[c]
      /\ history' \subseteq Batteries /\ \A c \in history' : row'[c] # None
  BY <1>0 DEF EndDelete
<1>. QED  BY <1>0, <1>1, <1>2, RowStep DEF EndDelete

LEMMA NewRows ==
    ASSUME TypeOK, NEW bs, InsertRows(bs), NEW b \in Batteries, b \in bs
    PROVE  row'[b] \in Row /\ row'[b] # None
<1>1. /\ row'[b] = [id |-> made'[b], active |-> FALSE, state |-> "offline", agg |-> None]
      /\ made'[b] = made[b] + 1 /\ made[b] \in Nat
  BY DEF InsertRows, TypeOK
<1>2. row'[b] \in Row
  BY <1>1 DEF Row, States
<1>. QED  BY <1>2, FleetAssumption

LEMMA InsertTyped ==
    ASSUME TypeOK, NEW r \in Requests, Insert(r)
    PROVE  TypeOK'
<1>0. /\ DOMAIN req = Requests /\ row \in [Batteries -> Row \cup {None}]
      /\ history \subseteq Batteries /\ \A c \in history : row[c] # None
      /\ made \in [Batteries -> Nat] /\ poll \in [Pollers -> [Batteries -> Poller]]
      /\ \A c \in Batteries : row[c] # None => row[c].id = made[c] /\ row[c].agg \in aggs \cup {None}
  BY DEF TypeOK
<1>1. DOMAIN req' = Requests /\ \A x \in Requests : req'[x] = req[x] \/ RequestOK(req'[x])
  BY <1>0, DoneOK DEF Insert, Ends
<1>2. CASE UNCHANGED <<row, made>>
  BY <1>0, <1>1, <1>2, RowStep DEF Insert
<1>3. CASE InsertRows(req[r].on)
  <2> DEFINE new(c) == [id |-> made'[c], active |-> FALSE, state |-> "offline", agg |-> None]
  <2>1. /\ made' = [c \in Batteries |-> IF c \in req[r].on THEN made[c] + 1 ELSE made[c]]
        /\ row' = [c \in Batteries |-> IF c \in req[r].on THEN new(c) ELSE row[c]]
    BY <1>3 DEF InsertRows
  <2>2. made' \in [Batteries -> Nat]
    BY <1>0, <2>1
  <2>3. \A c \in Batteries : new(c) \in Row /\ new(c) # None /\ new(c).id = made'[c] /\ new(c).agg = None
    <3> SUFFICES ASSUME NEW c \in Batteries
                 PROVE  new(c) \in Row /\ new(c) # None /\ new(c).id = made'[c] /\ new(c).agg = None
      OBVIOUS
    <3>1. made'[c] \in Nat
      BY <2>2
    <3>2. new(c) \in Row
      BY <3>1 DEF Row, States
    <3>. QED  BY <3>2, FleetAssumption
  <2> HIDE DEF new
  <2>4. row' \in [Batteries -> Row \cup {None}]
    BY <1>0, <2>1, <2>3
  <2>5. \A c \in Batteries : row'[c] # None => row'[c].id = made'[c] /\ row'[c].agg \in aggs \cup {None}
    BY <1>0, <2>1, <2>3
  <2>6. \A c \in history : row'[c] # None
    BY <1>0, <2>1, <2>3
  <2>7. UNCHANGED <<history, aggs, plant, poll>>
    BY DEF Insert
  <2>. QED  BY <1>0, <1>1, <2>2, <2>4, <2>5, <2>6, <2>7, RowStep
<1>. QED  BY <1>2, <1>3 DEF Insert

LEMMA CommitTyped ==
    ASSUME TypeOK, NEW r \in Requests, Commit(r)
    PROVE  /\ TypeOK'
           /\ \A b \in Batteries : row'[b] = None <=> row[b] = None
           /\ \A b \in Batteries \ req[r].on : row'[b] = row[b]
<1> DEFINE q == req[r]
           new(b) == IF q.kind = "active" THEN [q.seen[b] EXCEPT !.active = q.arg]
                     ELSE [q.seen[b] EXCEPT !.agg = q.arg]
<1>0. /\ DOMAIN req = Requests /\ RequestOK(q) /\ row \in [Batteries -> Row \cup {None}]
      /\ history \subseteq Batteries /\ \A c \in history : row[c] # None
      /\ made \in [Batteries -> Nat] /\ poll \in [Pollers -> [Batteries -> Poller]]
      /\ \A c \in Batteries : row[c] # None => row[c].id = made[c] /\ row[c].agg \in aggs \cup {None}
      /\ aggs \subseteq Aggregates
  BY DEF TypeOK
<1>1. DOMAIN req' = Requests /\ \A x \in Requests : req'[x] = req[x] \/ RequestOK(req'[x])
  BY <1>0, DoneOK DEF Commit, Ends
<1>2. q.pc = "commit" /\ q.kind \in {"active", "assign"} /\ UNCHANGED <<made, history, aggs, plant, poll>>
  BY DEF Commit, At
<1>3. /\ \A b \in q.on : q.seen[b] \in Row
      /\ q.on \subseteq Batteries
      /\ q.kind = "active" => q.arg \in BOOLEAN
      /\ q.kind = "assign" => q.arg \in aggs \cup {None}
  BY <1>0, <1>2 DEF RequestOK, Updates, Request, Args
<1>4. CASE UNCHANGED row
  BY <1>0, <1>1, <1>2, <1>4, RowStep
<1>5. CASE /\ \A b \in q.on : Still(b, q.seen[b].id)
           /\ row' = [b \in Batteries |-> IF b \in q.on THEN Written(b, q.seen[b], new(b)) ELSE row[b]]
  <2>1. ASSUME NEW b \in q.on
        PROVE  LET w == Written(b, q.seen[b], new(b))
               IN  w \in Row /\ w.id = row[b].id /\ w.agg \in aggs \cup {None}
    <3>1. b \in Batteries /\ row[b] \in Row /\ row[b].agg \in aggs \cup {None} /\ q.seen[b] \in Row
      BY <1>0, <1>3, <1>5 DEF Still
    <3> HIDE DEF q
    <3>2. CASE q.kind = "active"
      <4>1. new(b) = [q.seen[b] EXCEPT !.active = q.arg]
        BY <3>2
      <4>. QED  BY <1>3, <3>1, <3>2, <4>1, WrittenActive
    <3>3. CASE q.kind = "assign"
      <4>1. new(b) = [q.seen[b] EXCEPT !.agg = q.arg]
        BY <3>3
      <4>2. q.arg \in Aggregates \cup {None}
        BY <1>0, <1>3, <3>3
      <4>. QED  BY <1>3, <3>1, <3>3, <4>1, <4>2, WrittenAgg
    <3>. QED  BY <1>2, <3>2, <3>3
  <2>2. \A b \in q.on : row[b] # None
    BY <1>5 DEF Still
  <2> DEFINE w(b) == Written(b, q.seen[b], new(b))
  <2>3. \A b \in q.on : w(b) \in Row /\ w(b) # None /\ w(b).id = row[b].id /\ w(b).agg \in aggs \cup {None}
    BY <2>1, FleetAssumption
  <2>4. row' = [b \in Batteries |-> IF b \in q.on THEN w(b) ELSE row[b]]
    BY <1>5
  <2> HIDE DEF w, q, new
  <2>5. row' \in [Batteries -> Row \cup {None}]
    BY <1>0, <2>3, <2>4
  <2>6. /\ \A b \in Batteries : row'[b] = None <=> row[b] = None
        /\ \A b \in Batteries \ q.on : row'[b] = row[b]
    BY <1>3, <2>2, <2>3, <2>4
  <2>7. \A b \in Batteries : row'[b] # None => row'[b].id = made[b] /\ row'[b].agg \in aggs \cup {None}
    BY <1>0, <1>3, <2>2, <2>3, <2>4
  <2>8. \A c \in history : row'[c] # None
    BY <1>0, <2>6
  <2>9. TypeOK'
    BY <1>0, <1>1, <1>2, <2>5, <2>7, <2>8, RowStep
  <2>. QED  BY <2>6, <2>9 DEF q
<1>. QED  BY <1>4, <1>5 DEF Commit

LEMMA CreateAggregateTyped ==
    ASSUME TypeOK, NEW r \in Requests, NEW a \in Aggregates, CreateAggregate(r, a)
    PROVE  TypeOK'
<1>0. DOMAIN req = Requests /\ \A x \in Requests : RequestOK(req[x])
  BY DEF TypeOK
<1>1. /\ aggs' = aggs \cup {a} /\ req' = [req EXCEPT ![r] = Done]
      /\ UNCHANGED <<row, made, history, plant, poll>>
  BY DEF CreateAggregate, Ends
<1>2. \A x \in Requests : RequestOK(req'[x])
  BY <1>0, <1>1, DoneOK
<1>3. \A x \in Requests : RequestOK(req[x])'
  BY <1>1, <1>2 DEF RequestOK
<1>4. DOMAIN req' = Requests
  BY <1>0, <1>1
<1>. QED  BY <1>1, <1>3, <1>4 DEF TypeOK, PollOK

\* An assignment under way to the aggregate that goes is refused, so no battery
\* comes to be in an aggregate that is not there.
LEMMA DeleteAggregateTyped ==
    ASSUME TypeOK, NEW r \in Requests, NEW a \in Aggregates, DeleteAggregate(r, a)
    PROVE  TypeOK' /\ \A b \in Batteries : row'[b] = None <=> row[b] = None
<1>0. /\ DOMAIN req = Requests /\ \A x \in Requests : RequestOK(req[x])
      /\ row \in [Batteries -> Row \cup {None}]
      /\ \A c \in Batteries : row[c] # None => row[c].id = made[c] /\ row[c].agg \in aggs \cup {None}
  BY DEF TypeOK
<1>1. /\ aggs' = aggs \ {a}
      /\ row' = [b \in Batteries |-> IF Exists(b) /\ row[b].agg = a
                                     THEN [row[b] EXCEPT !.agg = None] ELSE row[b]]
      /\ UNCHANGED <<made, history, plant, poll>>
  BY DEF DeleteAggregate
<1>2. req' = [q \in Requests |->
                IF q = r THEN Done
                ELSE IF At(q, "commit") /\ req[q].kind = "assign" /\ req[q].arg = a
                THEN [req[q] EXCEPT !.pc = "doomed"] ELSE req[q]]
  BY DEF DeleteAggregate
<1>3. \A x \in Requests : RequestOK(req[x])'
  <2> SUFFICES ASSUME NEW x \in Requests PROVE RequestOK(req[x])'
    OBVIOUS
  <2>1. CASE x = r
    <3>1. req'[x] = Done
      BY <1>2, <2>1
    <3>2. Done.kind = "none"
      BY DEF Done, NotMade
    <3>. QED  BY <3>1, <3>2, DoneOK DEF RequestOK
  <2>2. CASE x # r /\ At(x, "commit") /\ req[x].kind = "assign" /\ req[x].arg = a
    <3>1. req'[x] = [req[x] EXCEPT !.pc = "doomed"]
      BY <1>2, <2>2
    <3>2. RequestOK(req'[x])
      BY <1>0, <2>2, <3>1, GoesOn DEF Steps
    <3>3. req'[x].pc = "doomed"
      BY <1>0, <3>1 DEF RequestOK, Request
    <3>. QED  BY <3>2, <3>3 DEF RequestOK
  <2>3. CASE x # r /\ ~(At(x, "commit") /\ req[x].kind = "assign" /\ req[x].arg = a)
    <3>1. req'[x] = req[x] /\ RequestOK(req[x])
      BY <1>0, <1>2, <2>3
    <3>. QED  BY <1>1, <2>3, <3>1 DEF RequestOK, At
  <2>. QED  BY <2>1, <2>2, <2>3
<1>4. ASSUME NEW b \in Batteries
      PROVE  /\ row'[b] \in Row \cup {None}
             /\ row'[b] = None <=> row[b] = None
             /\ row'[b] # None => row'[b].id = made[b] /\ row'[b].agg \in aggs' \cup {None}
  <2>1. CASE Exists(b) /\ row[b].agg = a
    <3>1. row[b] \in Row
      BY <1>0, <2>1 DEF Exists
    <3>2. row'[b] = [id |-> row[b].id, active |-> row[b].active, state |-> row[b].state, agg |-> None]
      BY <1>1, <2>1, <3>1 DEF Row
    <3>3. row'[b] \in Row
      BY <3>1, <3>2 DEF Row
    <3>. QED  BY <1>0, <2>1, <3>2, <3>3, FleetAssumption DEF Exists
  <2>2. CASE ~(Exists(b) /\ row[b].agg = a)
    BY <1>0, <1>1, <2>2 DEF Exists
  <2>. QED  BY <2>1, <2>2
<1>5. row' \in [Batteries -> Row \cup {None}]
  BY <1>1, <1>4
<1>6. DOMAIN req' = Requests
  BY <1>2
<1>. QED  BY <1>1, <1>3, <1>4, <1>5, <1>6 DEF TypeOK, PollOK

LEMMA PlantStopsTyped ==
    ASSUME TypeOK, NEW b \in Batteries, PlantStops(b)
    PROVE  TypeOK'
<1>1. plant' \in [Batteries -> {"charge", "discharge", "stop", None}]
  BY DEF TypeOK, PlantStops
<1>. QED  BY <1>1, RequestStep DEF PlantStops, TypeOK

LEMMA NextTypeOK == TypeOK /\ [Next]_vars => TypeOK'
<1> SUFFICES ASSUME TypeOK, [Next]_vars PROVE TypeOK'
  OBVIOUS
<1>1. ASSUME NEW r \in Requests, Call(r) PROVE TypeOK'
  BY <1>1, Begins, CreateAggregateTyped, DeleteAggregateTyped
<1>2. ASSUME NEW r \in Requests, Continue(r) PROVE TypeOK'
  BY <1>2, RequestSteps, StoreStateTyped, EndDeleteTyped, InsertTyped, CommitTyped DEF Continue
<1>3. ASSUME NEW w \in Pollers, Poll(w) \/ Restart(w) PROVE TypeOK'
  BY <1>3, PollerSteps, StoreTyped DEF Poll
<1>4. ASSUME NEW b \in Batteries, PlantStops(b) PROVE TypeOK'
  BY <1>4, PlantStopsTyped
<1>5. CASE UNCHANGED vars
  BY <1>5 DEF vars, TypeOK, RequestOK, PollOK
<1>. QED  BY <1>1, <1>2, <1>3, <1>4, <1>5 DEF Next

\* Every row, poll and request keeps its type; a battery in an aggregate is in one
\* that exists, a row keeps its battery_id, and readings and plans have a battery.
THEOREM TypeCorrect == Spec => []TypeOK
  BY InitTypeOK, NextTypeOK, PTL DEF Spec

-----------------------------------------------------------------------------
\* The history of a battery goes in the step that deletes its row, and only then.
DeletedTogether ==
    \A b \in Batteries :
        /\ (b \in history /\ b \notin history') => row'[b] = None
        /\ (row[b] # None /\ row'[b] = None) => b \notin history'

\* The steps that neither lose a battery nor its history.
LEMMA NothingLost ==
    ASSUME history \subseteq history', \A b \in Batteries : row'[b] = None => row[b] = None
    PROVE  DeletedTogether
  BY DEF DeletedTogether

LEMMA EndDeleteTogether ==
    ASSUME TypeOK, NEW r \in Requests, NEW b \in Batteries, EndDelete(r, b)
    PROVE  DeletedTogether
<1>1. row \in [Batteries -> Row \cup {None}]
  BY DEF TypeOK
<1>. QED  BY <1>1 DEF EndDelete, DeletedTogether

LEMMA NextTogether == TypeOK /\ [Next]_vars => [DeletedTogether]_vars
<1> SUFFICES ASSUME TypeOK, [Next]_vars PROVE [DeletedTogether]_vars
  OBVIOUS
<1>1. ASSUME NEW r \in Requests, Call(r) PROVE DeletedTogether
  <2>1. ASSUME NEW a \in Aggregates, DeleteAggregate(r, a) PROVE DeletedTogether
    BY <2>1, DeleteAggregateTyped, NothingLost DEF DeleteAggregate
  <2>2. CASE UNCHANGED <<row, history>>
    BY <2>2, NothingLost
  <2>. QED  BY <1>1, <2>1, <2>2 DEF Call, DeleteBattery, CreateBattery, SendDispatchCommand, AssignBattery,
            UpdateBattery, BulkImport, SetActive, CreateAggregate, Begin
<1>2. ASSUME NEW r \in Requests, Continue(r) PROVE DeletedTogether
  <2>1. ASSUME NEW b \in Batteries, StoreState(r, b) PROVE DeletedTogether
    BY <2>1, StoreStateTyped, NothingLost DEF StoreState
  <2>2. ASSUME NEW b \in Batteries, EndDelete(r, b) PROVE DeletedTogether
    BY <2>2, EndDeleteTogether
  <2>3. CASE Insert(r)
    <3>1. \A b \in Batteries : row'[b] = None => row[b] = None
      BY <2>3, FleetAssumption DEF Insert, InsertRows, Exists
    <3>. QED  BY <2>3, <3>1, NothingLost DEF Insert
  <2>4. CASE Commit(r)
    BY <2>4, CommitTyped, NothingLost DEF Commit
  <2>5. CASE UNCHANGED <<row, history>>
    BY <2>5, NothingLost
  <2>. QED  BY <1>2, <2>1, <2>2, <2>3, <2>4, <2>5
            DEF Continue, Send, ReadBack, Remove, Wipe, Push, Refuse
<1>3. ASSUME NEW w \in Pollers, Poll(w) \/ Restart(w) PROVE DeletedTogether
  <2>1. ASSUME NEW b \in Batteries, Store(w, b) PROVE DeletedTogether
    BY <2>1, StoreTyped, NothingLost DEF Store, AddReading
  <2>2. CASE UNCHANGED <<row, history>>
    BY <2>2, NothingLost
  <2>. QED  BY <1>3, <2>1, <2>2 DEF Poll, BeginCycle, Ask, Load, Restart
<1>4. ASSUME NEW b \in Batteries, PlantStops(b) PROVE DeletedTogether
  BY <1>4, NothingLost DEF PlantStops
<1>. QED  BY <1>1, <1>2, <1>3, <1>4 DEF Next

\* delete_battery() against pollers, commands and other deletions, however many:
\* readings and plans go in the same step as their battery, a deletion that is
\* refused takes none of them, and one that succeeds leaves none behind.
THEOREM HistoryNeverOrphaned == Spec => HistoryGoesWithBattery
<1>1. Spec => [][DeletedTogether]_vars
  BY InitTypeOK, NextTypeOK, NextTogether, PTL DEF Spec
<1>. QED  BY <1>1 DEF HistoryGoesWithBattery, DeletedTogether

-----------------------------------------------------------------------------
\* Who changed the configuration of a battery.
ByOperators ==
    \A b \in Batteries : Config(b)' # Config(b) =>
        \E r \in Requests : /\ req[r] # Done /\ req'[r] = Done
                            /\ req[r].kind # "command"
                            /\ b \in req[r].on \/ req[r] = NotMade

ImportsWhole ==
    \A r \in Requests : (req[r].kind = "import" /\ req'[r] # req[r] /\ ~UNCHANGED row) =>
        \A b \in req[r].on : row[b] = None /\ row'[b] # None

LEMMA RowsStay == UNCHANGED row => ByOperators /\ ImportsWhole
  BY DEF ByOperators, ImportsWhole, Config

\* Requests in other phases are not Done.
LEMMA UnderWay ==
    ASSUME NEW r \in Requests, req[r].pc # "done"
    PROVE  req[r] # Done
<1>1. Done.pc = "done"
  BY DEF Done, NotMade
<1>. QED  BY <1>1

LEMMA StoresByOperators ==
    ASSUME TypeOK, \A b \in Batteries : Config(b)' = Config(b),
           \A r \in Requests : req'[r] # req[r] => req[r].kind # "import"
    PROVE  ByOperators /\ ImportsWhole
  BY DEF ByOperators, ImportsWhole

LEMMA WipedIsDelete ==
    ASSUME TypeOK, NEW r \in Requests, req[r].pc = "wiped"
    PROVE  req[r].kind = "delete"
  BY DEF TypeOK, RequestOK, Kinds, Steps

\* The end of a request that changes rows of its own only.
LEMMA EndsByOperators ==
    ASSUME TypeOK, NEW r \in Requests, Ends(r), req[r].pc # "done", req[r].kind # "command",
           \A b \in Batteries \ req[r].on : row'[b] = row[b],
           req[r].kind = "import" /\ ~UNCHANGED row => \A b \in req[r].on : row[b] = None /\ row'[b] # None
    PROVE  ByOperators /\ ImportsWhole
<1>1. DOMAIN req = Requests
  BY DEF TypeOK
<1>2. req'[r] = Done /\ \A x \in Requests \ {r} : req'[x] = req[x]
  BY <1>1 DEF Ends
<1>3. ByOperators
  BY <1>2, UnderWay DEF ByOperators, Config
<1>. QED  BY <1>2, <1>3 DEF ImportsWhole

LEMMA DeleteAggregateByOperators ==
    ASSUME TypeOK, NEW r \in Requests, NEW a \in Aggregates, DeleteAggregate(r, a)
    PROVE  ByOperators /\ ImportsWhole
<1>1. /\ req[r] = NotMade /\ req'[r] = Done
      /\ \A x \in Requests \ {r} : req'[x] # req[x] => req[x].kind = "assign"
  BY DEF DeleteAggregate, Comes
<1>2. NotMade.kind = "none" /\ NotMade.pc = "new"
  BY DEF NotMade
<1>3. req[r] # Done
  BY <1>1, <1>2, UnderWay
<1>4. ByOperators
  BY <1>1, <1>2, <1>3 DEF ByOperators
<1>5. \A x \in Requests : req'[x] # req[x] => req[x].kind # "import"
  BY <1>1, <1>2
<1>. QED  BY <1>4, <1>5 DEF ImportsWhole

LEMMA NextByOperators ==
    ASSUME TypeOK, [Next]_vars
    PROVE  [/\ ByOperators
            /\ ImportsWhole]_vars
<1>1. ASSUME NEW r \in Requests, Call(r) PROVE ByOperators /\ ImportsWhole
  <2>1. CASE UNCHANGED row
    BY <2>1, RowsStay
  <2>. QED  BY <1>1, <2>1, DeleteAggregateByOperators DEF Call, DeleteBattery, CreateBattery,
            SendDispatchCommand, AssignBattery, UpdateBattery, BulkImport, SetActive, CreateAggregate, Begin
<1>2. ASSUME NEW r \in Requests, Continue(r) PROVE ByOperators /\ ImportsWhole
  <2>1. ASSUME NEW b \in Batteries, StoreState(r, b) PROVE ByOperators /\ ImportsWhole
    <3>1. \A x \in Requests : req'[x] # req[x] => req[x].kind # "import"
      <4>1. req[r].kind = "command" /\ \A x \in Requests \ {r} : req'[x] # req[x] => req[x].pc = "wiped"
        BY <2>1 DEF StoreState, At, Ends, TypeOK
      <4>. QED  BY <4>1, WipedIsDelete
    <3>. QED  BY <2>1, <3>1, StoreStateTyped, StoresByOperators
  <2>2. ASSUME NEW b \in Batteries, EndDelete(r, b) PROVE ByOperators /\ ImportsWhole
    <3>1. Ends(r) /\ req[r].on = {b} /\ req[r].pc = "wiped"
      BY <2>2 DEF EndDelete, At
    <3>2. req[r].kind = "delete"
      BY <3>1, WipedIsDelete
    <3>3. \A c \in Batteries \ req[r].on : row'[c] = row[c]
      BY <2>2, <3>1 DEF EndDelete, TypeOK
    <3>. QED  BY <3>1, <3>2, <3>3, EndsByOperators
  <2>3. CASE Insert(r)
    <3>1. Ends(r) /\ req[r].pc = "insert"
      BY <2>3 DEF Insert, At
    <3>2. req[r].kind \in {"create", "import"}
      BY <3>1 DEF TypeOK, RequestOK, Kinds, Steps
    <3>3. req[r].on \subseteq Batteries
      BY DEF TypeOK, RequestOK, Request
    <3>4. \/ UNCHANGED row
          \/ /\ \A c \in Batteries \ req[r].on : row'[c] = row[c]
             /\ \A c \in req[r].on : row[c] = None /\ row'[c] # None
      <4>1. CASE InsertRows(req[r].on)
        BY <2>3, <3>3, <4>1, NewRows DEF Insert, InsertRows, Exists
      <4>. QED  BY <2>3, <4>1 DEF Insert
    <3>. QED  BY <3>1, <3>2, <3>4, EndsByOperators, RowsStay
  <2>4. CASE Commit(r)
    <3>1. Ends(r) /\ req[r].pc = "commit" /\ req[r].kind \in {"active", "assign"}
      BY <2>4 DEF Commit, At
    <3>. QED  BY <2>4, <3>1, CommitTyped, EndsByOperators
  <2>5. CASE UNCHANGED row
    BY <2>5, RowsStay
  <2>. QED  BY <1>2, <2>1, <2>2, <2>3, <2>4, <2>5
            DEF Continue, Send, ReadBack, Remove, Wipe, Push, Refuse
<1>3. ASSUME NEW w \in Pollers, Poll(w) \/ Restart(w) PROVE ByOperators /\ ImportsWhole
  <2>1. ASSUME NEW b \in Batteries, Store(w, b) PROVE ByOperators /\ ImportsWhole
    <3>1. \A x \in Requests : req'[x] # req[x] => req[x].pc = "wiped"
      BY <2>1 DEF Store, AddReading
    <3>. QED  BY <2>1, <3>1, WipedIsDelete, StoreTyped, StoresByOperators
  <2>2. CASE UNCHANGED row
    BY <2>2, RowsStay
  <2>. QED  BY <1>3, <2>1, <2>2 DEF Poll, BeginCycle, Ask, Load, Restart
<1>4. ASSUME NEW b \in Batteries, PlantStops(b) PROVE ByOperators /\ ImportsWhole
  BY <1>4, RowsStay DEF PlantStops
<1>. QED  BY <1>1, <1>2, <1>3, <1>4 DEF Next

\* What workers and commands store late, about rows they loaded before they waited,
\* never undoes what operators did meanwhile; an import adds all of the missing
\* batteries or none.  (SQLAlchemy writes the columns that changed, and no others.)
THEOREM OnlyOperatorsConfigure == Spec => FleetIsOperators
<1>1. TypeOK /\ [Next]_vars => [/\ ByOperators
                                /\ ImportsWhole]_vars
  BY NextByOperators
<1>2. Spec => [][/\ ByOperators
                 /\ ImportsWhole]_vars
  BY <1>1, InitTypeOK, NextTypeOK, PTL DEF Spec
<1>. QED  BY <1>2 DEF FleetIsOperators, ByOperators, ImportsWhole
=============================================================================
