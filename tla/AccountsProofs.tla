--------------------------- MODULE AccountsProofs ---------------------------
(***************************************************************************)
(* For any users, handlers and number of requests.  What holds while       *)
(* requests do not overlap rests on what the one handler under way has in  *)
(* hand: it is still true when he commits.                                 *)
(***************************************************************************)
EXTENDS Accounts, TLAPS

\* What a handler changes of a row it loaded, whether requests overlap or not: a
\* login knows of no lock in force, and an update leaves the lock alone.
ChangeOK(h) ==
    /\ h.pc = "verify" => h.seen.locked # "future"
    /\ h.pc \in {"count", "update"} /\ h.arg # None =>
          h.arg.fails = h.seen.fails /\ h.arg.locked = h.seen.locked /\ h.arg.password = h.seen.password

ActiveAdmin(u) == Exists(u) /\ user[u].role = "admin" /\ user[u].active

\* The row is as the handler loaded it, but for a lock that may have ended.
AsSeen(h) ==
    /\ Exists(h.who)
    /\ user[h.who].role = h.seen.role /\ user[h.who].active = h.seen.active
    /\ user[h.who].fails = h.seen.fails
    /\ user[h.who].locked = "none" <=> h.seen.locked = "none"

NoSuccessor(t) == \A m \in DOMAIN sessions : sessions[m].from # t

\* What a handler that is alone has in hand.
AloneOK(h) ==
    /\ h.pc \in {"verify", "confirm"} => AsSeen(h)
    /\ h.pc \in {"count", "update"} /\ h.arg # None => AsSeen(h)
    /\ h.pc = "update" /\ ActiveAdmin(h.who) /\ ~(h.arg.role = "admin" /\ h.arg.active) => Others(h.who) # {}
    /\ h.pc = "delete" /\ ActiveAdmin(h.who) => Others(h.who) # {}
    /\ h.pc \in {"user", "rotate", "session"} /\ h.token # 0 => NoSuccessor(h.token)
    /\ h.pc = "session" /\ h.token # 0 => ~sessions[h.token].live
    /\ h.pc \in {"get", "confirm"} => links[h.token].state # "used"

OneAtATime == \A c, d \in Handlers : call[c] # Idle /\ call[d] # Idle => c = d

LocksMatch ==
    \A u \in Users : Exists(u) => (user[u].fails >= MaxAttempts <=> user[u].locked # "none")

LiveAreLast == \A t \in DOMAIN sessions : sessions[t].live => NoSuccessor(t)

TypeInv == TypeOK /\ \A c \in Handlers : ChangeOK(call[c])

AloneInv ==
    careful => /\ OneAtATime
               /\ LocksMatch
               /\ \E u \in Users : ActiveAdmin(u)
               /\ LiveAreLast
               /\ \A c \in Handlers : AloneOK(call[c])

-----------------------------------------------------------------------------
\* Rows.

LEMMA WelcomedRow ==
    ASSUME NEW w \in Row
    PROVE  /\ Welcomed(w) \in Row
           /\ Welcomed(w) = [role |-> w.role, active |-> w.active, password |-> w.password,
                             fails |-> 0, locked |-> "none"]
<1>1. Welcomed(w) = [role |-> w.role, active |-> w.active, password |-> w.password,
                     fails |-> 0, locked |-> "none"]
  <2> DEFINE x == [role |-> w.role, active |-> w.active, password |-> w.password,
                   fails |-> 0, locked |-> w.locked]
  <2>1. [w EXCEPT !.fails = 0] = x
    BY DEF Row
  <2>2. [x EXCEPT !.locked = "none"] = [role |-> w.role, active |-> w.active, password |-> w.password,
                                        fails |-> 0, locked |-> "none"]
    OBVIOUS
  <2>. QED  BY <2>1, <2>2 DEF Welcomed
<1>. QED  BY <1>1 DEF Row

LEMMA RefusedRow ==
    ASSUME NEW w \in Row
    PROVE  /\ Refused(w) \in Row
           /\ Refused(w) = [role |-> w.role, active |-> w.active, password |-> w.password, fails |-> w.fails + 1,
                            locked |-> IF w.fails + 1 >= MaxAttempts THEN "future" ELSE w.locked]
<1> DEFINE l == IF w.fails + 1 >= MaxAttempts THEN "future" ELSE w.locked
           x == [role |-> w.role, active |-> w.active, password |-> w.password,
                 fails |-> w.fails + 1, locked |-> w.locked]
<1>1. [w EXCEPT !.fails = @ + 1] = x
  BY DEF Row
<1>2. Refused(w) = [x EXCEPT !.locked = l]
  BY <1>1 DEF Refused
<1>3. l \in {"none", "past", "future"} /\ w.fails + 1 \in Nat
  BY DEF Row
<1> HIDE DEF l
<1>4. Refused(w) = [role |-> w.role, active |-> w.active, password |-> w.password, fails |-> w.fails + 1, locked |-> l]
  BY <1>2
<1>. QED  BY <1>3, <1>4 DEF Row, l

LEMMA SetRow ==
    ASSUME NEW w \in Row, NEW role \in Roles, NEW active \in BOOLEAN
    PROVE  /\ [w EXCEPT !.role = role, !.active = active] \in Row
           /\ [w EXCEPT !.role = role, !.active = active] =
                 [role |-> role, active |-> active, password |-> w.password, fails |-> w.fails, locked |-> w.locked]
<1> DEFINE x == [role |-> role, active |-> w.active, password |-> w.password, fails |-> w.fails, locked |-> w.locked]
           y == [role |-> role, active |-> active, password |-> w.password, fails |-> w.fails, locked |-> w.locked]
<1>1. [w EXCEPT !.role = role] = x
  BY DEF Row
<1>2. [x EXCEPT !.active = active] = y
  OBVIOUS
<1>3. [w EXCEPT !.role = role, !.active = active] = y
  BY <1>1, <1>2
<1>4. y \in Row
  BY DEF Row
<1>. QED  BY <1>3, <1>4

LEMMA SetTwo ==
    ASSUME NEW w \in Row, NEW yes \in BOOLEAN
    PROVE  LET x == [Welcomed(w) EXCEPT !.password = yes, !.active = yes]
           IN  /\ x \in Row
               /\ x = [role |-> w.role, active |-> yes, password |-> yes, fails |-> 0, locked |-> "none"]
<1> DEFINE x == [role |-> w.role, active |-> w.active, password |-> w.password, fails |-> 0, locked |-> "none"]
           y == [role |-> w.role, active |-> w.active, password |-> yes, fails |-> 0, locked |-> "none"]
           z == [role |-> w.role, active |-> yes, password |-> yes, fails |-> 0, locked |-> "none"]
<1>1. Welcomed(w) = x
  BY WelcomedRow
<1>2. [x EXCEPT !.password = yes] = y
  OBVIOUS
<1>3. [y EXCEPT !.active = yes] = z
  OBVIOUS
<1>4. z \in Row
  BY DEF Row
<1>. QED  BY <1>1, <1>2, <1>3, <1>4

LEMMA ConfirmedRow ==
    ASSUME NEW w \in Row
    PROVE  LET x == [Welcomed(w) EXCEPT !.password = TRUE, !.active = TRUE]
           IN  /\ x \in Row
               /\ x = [role |-> w.role, active |-> TRUE, password |-> TRUE, fails |-> 0, locked |-> "none"]
  BY SetTwo, TRUE \in BOOLEAN, Zenon

\* What a commit leaves of a row that is there.
LEMMA WriteEffect ==
    ASSUME TypeOK, NEW c \in Handlers, NEW u \in Users, u = call[c].who, Exists(u),
           NEW seen \in Row, seen = call[c].seen, NEW new \in Row, Write(c, new)
    PROVE  /\ user' \in [Users -> Row \cup {None, Gone}]
           /\ \A v \in Users \ {u} : user'[v] = user[v]
           /\ user[u] \in Row /\ user'[u] \in Row
           /\ user'[u].role = IF new.role # seen.role THEN new.role ELSE user[u].role
           /\ user'[u].active = IF new.active # seen.active THEN new.active ELSE user[u].active
           /\ user'[u].password = IF new.password # seen.password THEN new.password ELSE user[u].password
           /\ user'[u].fails = IF new.fails # seen.fails THEN new.fails ELSE user[u].fails
           /\ user'[u].locked = IF new.locked # seen.locked THEN new.locked ELSE user[u].locked
<1> DEFINE w == [f \in DOMAIN seen |-> IF new[f] # seen[f] THEN new[f] ELSE user[u][f]]
           x == [role |-> IF new.role # seen.role THEN new.role ELSE user[u].role,
                 active |-> IF new.active # seen.active THEN new.active ELSE user[u].active,
                 password |-> IF new.password # seen.password THEN new.password ELSE user[u].password,
                 fails |-> IF new.fails # seen.fails THEN new.fails ELSE user[u].fails,
                 locked |-> IF new.locked # seen.locked THEN new.locked ELSE user[u].locked]
<1>1. user \in [Users -> Row \cup {None, Gone}] /\ user[u] \in Row
  BY DEF TypeOK, Exists
<1>2. user' = [user EXCEPT ![u] = w]
  BY DEF Write
<1>3. DOMAIN seen = {"role", "active", "password", "fails", "locked"}
  BY DEF Row
<1>4. w = x
  BY <1>3
<1>5. x \in Row
  BY <1>1 DEF Row
<1> HIDE DEF w
<1>6. user'[u] = x
  BY <1>1, <1>2, <1>4
<1>. QED  BY <1>1, <1>2, <1>4, <1>5, <1>6

-----------------------------------------------------------------------------
\* Types, whether requests overlap or not.

LEMMA TypedStep ==
    ASSUME TypeInv, UNCHANGED careful, calls' \in 0..MaxCalls,
           user' \in [Users -> Row \cup {None, Gone}], \A u \in Users : user[u] # None => user'[u] # None,
           sessions' \in Seq(Session), Len(sessions) <= Len(sessions'),
           \A t \in DOMAIN sessions' : sessions'[t].from < t /\ user'[sessions'[t].of] # None,
           links' \in Seq(Link), Len(links) <= Len(links'),
           \A l \in DOMAIN links' : user'[links'[l].of] # None,
           DOMAIN call' = Handlers,
           \A c \in Handlers : call'[c] = call[c] \/ (HandlerOK(call'[c]) /\ ChangeOK(call'[c]))
    PROVE  TypeInv'
<1>1. /\ sessions \in Seq(Session) /\ links \in Seq(Link)
      /\ \A c \in Handlers : HandlerOK(call[c]) /\ ChangeOK(call[c])
  BY DEF TypeInv, TypeOK
<1>2. DOMAIN sessions \subseteq DOMAIN sessions' /\ DOMAIN links \subseteq DOMAIN links'
  BY <1>1
<1>3. \A c \in Handlers : HandlerOK(call'[c]) /\ ChangeOK(call'[c])
  BY <1>1
<1>4. \A c \in Handlers : HandlerOK(call[c])'
  BY <1>1, <1>2, <1>3 DEF HandlerOK
<1>5. \A c \in Handlers : ChangeOK(call[c])'
  BY <1>3 DEF ChangeOK
<1>. QED  BY <1>4, <1>5 DEF TypeInv, TypeOK

\* A handler goes on and changes no user.
LEMMA HandlerStep ==
    ASSUME TypeInv, NEW c \in Handlers, NEW h, call' = [call EXCEPT ![c] = h],
           HandlerOK(h), ChangeOK(h), UNCHANGED <<careful, user, sessions, links>>, calls' \in 0..MaxCalls
    PROVE  TypeInv'
<1>1. DOMAIN call = Handlers
  BY DEF TypeInv, TypeOK
<1>2. DOMAIN call' = Handlers /\ \A d \in Handlers : call'[d] = call[d] \/ (HandlerOK(call'[d]) /\ ChangeOK(call'[d]))
  BY <1>1
<1>. QED  BY <1>2, TypedStep DEF TypeInv, TypeOK

LEMMA UserStep ==
    ASSUME TypeInv, NEW c \in Handlers, NEW h, call' = [call EXCEPT ![c] = h],
           HandlerOK(h), ChangeOK(h), UNCHANGED <<careful, sessions, links, calls>>,
           user' \in [Users -> Row \cup {None, Gone}], \A u \in Users : user[u] # None => user'[u] # None
    PROVE  TypeInv'
<1>1. /\ DOMAIN call = Handlers /\ sessions \in Seq(Session) /\ links \in Seq(Link)
      /\ \A t \in DOMAIN sessions : sessions[t].from < t /\ user[sessions[t].of] # None
      /\ \A l \in DOMAIN links : user[links[l].of] # None
      /\ calls \in 0..MaxCalls
  BY DEF TypeInv, TypeOK
<1>2. DOMAIN call' = Handlers /\ \A d \in Handlers : call'[d] = call[d] \/ (HandlerOK(call'[d]) /\ ChangeOK(call'[d]))
  BY <1>1
<1>3. /\ \A t \in DOMAIN sessions : sessions[t].of \in Users
      /\ \A l \in DOMAIN links : links[l].of \in Users
  <2>1. /\ \A t \in DOMAIN sessions : sessions[t] \in Session
        /\ \A l \in DOMAIN links : links[l] \in Link
    BY <1>1
  <2>. QED  BY <2>1 DEF Session, Link
<1>. QED  BY <1>1, <1>2, <1>3, TypedStep

LEMMA IdleOK == HandlerOK(Idle) /\ ChangeOK(Idle)
  BY DEF Idle, HandlerOK, ChangeOK, Pcs

LEMMA CalledOK ==
    ASSUME TypeInv, NEW c \in Handlers
    PROVE  /\ HandlerOK(call[c]) /\ ChangeOK(call[c])
           /\ call[c].pc # "idle" => call[c] \in Held(call[c].pc)
  BY DEF TypeInv, TypeOK, HandlerOK

\* What follows a session of the handler for the same user.
LEMMA NextFor ==
    ASSUME NEW u \in Users, NEW pc \in {"session", "link"}
    PROVE  LET h == [Idle EXCEPT !.pc = pc, !.who = u]
           IN  /\ h = [pc |-> pc, who |-> u, token |-> 0, arg |-> None, seen |-> None]
               /\ ChangeOK(h)
               /\ sessions \in Seq(Session) => HandlerOK(h)
<1> DEFINE h == [pc |-> pc, who |-> u, token |-> 0, arg |-> None, seen |-> None]
<1>1. [Idle EXCEPT !.pc = pc, !.who = u] = h
  <2>1. [Idle EXCEPT !.pc = pc] = [pc |-> pc, who |-> None, token |-> 0, arg |-> None, seen |-> None]
    BY DEF Idle
  <2>2. [[pc |-> pc, who |-> None, token |-> 0, arg |-> None, seen |-> None] EXCEPT !.who = u] = h
    OBVIOUS
  <2>. QED  BY <2>1, <2>2
<1>2. h \in Held(pc) /\ h.pc = pc
  BY DEF Held, Args
<1>3. ChangeOK(h)
  BY DEF ChangeOK
<1>4. ASSUME sessions \in Seq(Session) PROVE 0 \in 0..Len(sessions)
  BY <1>4
<1>5. sessions \in Seq(Session) => HandlerOK(h)
  BY <1>2, <1>4 DEF HandlerOK, Pcs
<1>. QED  BY <1>1, <1>3, <1>5

LEMMA InitTypeInv == Init => TypeInv
<1> SUFFICES ASSUME Init PROVE TypeInv
  OBVIOUS
<1>1. user \in [Users -> Row \cup {None, Gone}]
  BY AccountsAssumption DEF Init
<1>2. PICK u \in Users : Exists(u) /\ links = <<[of |-> u, state |-> "open"]>>
  BY DEF Init
<1>3. PICK v \in Users : Exists(v) /\ sessions = <<[of |-> v, from |-> 0, live |-> TRUE]>>
  BY DEF Init
<1>4. links \in Seq(Link) /\ \A l \in DOMAIN links : user[links[l].of] # None
  BY <1>2 DEF Link, Exists
<1>5. [of |-> v, from |-> 0, live |-> TRUE] \in Session
  BY DEF Session
<1>6. sessions \in Seq(Session) /\ \A t \in DOMAIN sessions : sessions[t].from < t /\ user[sessions[t].of] # None
  BY <1>3, <1>5 DEF Exists
<1>7. DOMAIN call = Handlers /\ \A c \in Handlers : HandlerOK(call[c]) /\ ChangeOK(call[c])
  BY IdleOK DEF Init
<1>. QED  BY <1>1, <1>4, <1>6, <1>7, AccountsAssumption DEF Init, TypeInv, TypeOK

\* The first step of a request.
LEMMA Begun ==
    ASSUME TypeInv, NEW c \in Handlers, NEW h, Begin(c, h), HandlerOK(h), ChangeOK(h)
    PROVE  TypeInv'
<1>1. calls' \in 0..MaxCalls
  BY AccountsAssumption DEF Begin, TypeInv, TypeOK
<1>. QED  BY <1>1, HandlerStep DEF Begin

\* The forms of the records that begin a request.
LEMMA AskedFor ==
    ASSUME NEW pc, NEW u
    PROVE  [Idle EXCEPT !.pc = pc, !.who = u] = [pc |-> pc, who |-> u, token |-> 0, arg |-> None, seen |-> None]
<1> DEFINE x == [pc |-> pc, who |-> None, token |-> 0, arg |-> None, seen |-> None]
<1>1. [Idle EXCEPT !.pc = pc] = x
  BY DEF Idle
<1>2. [x EXCEPT !.who = u] = [pc |-> pc, who |-> u, token |-> 0, arg |-> None, seen |-> None]
  OBVIOUS
<1>. QED  BY <1>1, <1>2

LEMMA AskedSeen ==
    ASSUME NEW pc, NEW u, NEW seen
    PROVE  [Idle EXCEPT !.pc = pc, !.who = u, !.seen = seen] =
              [pc |-> pc, who |-> u, token |-> 0, arg |-> None, seen |-> seen]
<1> DEFINE x == [pc |-> pc, who |-> u, token |-> 0, arg |-> None, seen |-> None]
<1>1. [x EXCEPT !.seen = seen] = [pc |-> pc, who |-> u, token |-> 0, arg |-> None, seen |-> seen]
  OBVIOUS
<1>. QED  BY <1>1, AskedFor

LEMMA AskedArg ==
    ASSUME NEW pc, NEW u, NEW a
    PROVE  [Idle EXCEPT !.pc = pc, !.who = u, !.arg = a] =
              [pc |-> pc, who |-> u, token |-> 0, arg |-> a, seen |-> None]
<1> DEFINE x == [pc |-> pc, who |-> u, token |-> 0, arg |-> None, seen |-> None]
<1>1. [x EXCEPT !.arg = a] = [pc |-> pc, who |-> u, token |-> 0, arg |-> a, seen |-> None]
  OBVIOUS
<1>. QED  BY <1>1, AskedFor

LEMMA AskedToken ==
    ASSUME NEW pc, NEW u, NEW t
    PROVE  [Idle EXCEPT !.pc = pc, !.who = u, !.token = t] =
              [pc |-> pc, who |-> u, token |-> t, arg |-> None, seen |-> None]
<1> DEFINE x == [pc |-> pc, who |-> u, token |-> 0, arg |-> None, seen |-> None]
<1>1. [x EXCEPT !.token = t] = [pc |-> pc, who |-> u, token |-> t, arg |-> None, seen |-> None]
  OBVIOUS
<1>. QED  BY <1>1, AskedFor

LEMMA AskedBoth ==
    ASSUME NEW pc, NEW u, NEW a, NEW seen
    PROVE  [Idle EXCEPT !.pc = pc, !.who = u, !.arg = a, !.seen = seen] =
              [pc |-> pc, who |-> u, token |-> 0, arg |-> a, seen |-> seen]
<1> DEFINE x == [pc |-> pc, who |-> u, token |-> 0, arg |-> a, seen |-> None]
<1>1. [x EXCEPT !.seen = seen] = [pc |-> pc, who |-> u, token |-> 0, arg |-> a, seen |-> seen]
  OBVIOUS
<1>2. [Idle EXCEPT !.pc = pc, !.who = u, !.arg = a] = x
  BY AskedArg
<1> HIDE DEF x
<1>. QED  BY <1>1, <1>2

LEMMA CallTyped ==
    ASSUME TypeInv, NEW c \in Handlers, Call(c)
    PROVE  TypeInv'
<1>0. /\ \A u \in Users : Exists(u) => user[u] \in Row
      /\ sessions \in Seq(Session) /\ links \in Seq(Link)
  BY DEF TypeInv, TypeOK, Exists
<1>1. ASSUME NEW u \in Users, Login(c, u) PROVE TypeInv'
  <2>1. user[u] \in Row /\ user[u].locked # "future"
    BY <1>0, <1>1 DEF Login
  <2> DEFINE h == [pc |-> "verify", who |-> u, token |-> 0, arg |-> None, seen |-> user[u]]
  <2>2. [Idle EXCEPT !.pc = "verify", !.who = u, !.seen = user[u]] = h
    BY AskedSeen
  <2>3. Begin(c, h)
    BY <1>1, <2>2 DEF Login
  <2>4. HandlerOK(h) /\ ChangeOK(h)
    BY <2>1 DEF HandlerOK, ChangeOK, Held, Args, Pcs
  <2> HIDE DEF h
  <2>. QED  BY <2>3, <2>4, Begun
<1>2. ASSUME NEW u \in Users, RequestReset(c, u) \/ ResendInvite(c, u) PROVE TypeInv'
  <2>1. Begin(c, [Idle EXCEPT !.pc = "link", !.who = u])
    BY <1>2 DEF RequestReset, ResendInvite
  <2>2. ChangeOK([Idle EXCEPT !.pc = "link", !.who = u]) /\ HandlerOK([Idle EXCEPT !.pc = "link", !.who = u])
    BY <1>0, NextFor
  <2>. QED  BY <2>1, <2>2, Begun
<1>3. ASSUME NEW u \in Users, NEW role \in Roles, InviteUser(c, u, role) PROVE TypeInv'
  <2> DEFINE h == [pc |-> "invite", who |-> u, token |-> 0, arg |-> role, seen |-> None]
  <2>1. [Idle EXCEPT !.pc = "invite", !.who = u, !.arg = role] = h
    BY AskedArg
  <2>2. Begin(c, h)
    BY <1>3, <2>1 DEF InviteUser
  <2>3. HandlerOK(h) /\ ChangeOK(h)
    BY DEF HandlerOK, ChangeOK, Held, Args, Pcs
  <2> HIDE DEF h
  <2>. QED  BY <2>2, <2>3, Begun
<1>4. ASSUME NEW u \in Users, NEW a \in Users, DeleteUser(c, a, u) PROVE TypeInv'
  <2>1. PICK pc \in {"count", "delete"} : Begin(c, [Idle EXCEPT !.pc = pc, !.who = u, !.seen = user[u]])
    BY <1>4 DEF DeleteUser
  <2> DEFINE h == [pc |-> pc, who |-> u, token |-> 0, arg |-> None, seen |-> user[u]]
  <2>2. [Idle EXCEPT !.pc = pc, !.who = u, !.seen = user[u]] = h
    BY AskedSeen
  <2>3. Begin(c, h)
    BY <2>1, <2>2
  <2>4. user[u] \in Row
    BY <1>0, <1>4 DEF DeleteUser
  <2>5. HandlerOK(h) /\ ChangeOK(h)
    BY <2>4 DEF HandlerOK, ChangeOK, Held, Args, Pcs
  <2> HIDE DEF h
  <2>. QED  BY <2>3, <2>5, Begun
<1>5. ASSUME NEW u \in Users, NEW a \in Users, NEW role \in Roles, NEW active \in BOOLEAN, UpdateUser(c, a, u, role, active)
      PROVE  TypeInv'
  <2>1. user[u] \in Row
    BY <1>0, <1>5 DEF UpdateUser
  <2>2. PICK new : new = [user[u] EXCEPT !.role = role, !.active = active]
    OBVIOUS
  <2>3. new = [role |-> role, active |-> active, password |-> user[u].password,
               fails |-> user[u].fails, locked |-> user[u].locked] /\ new \in Row
    BY <2>1, <2>2, SetRow
  <2>4. PICK pc \in {"count", "update"} : Begin(c, [Idle EXCEPT !.pc = pc, !.who = u, !.arg = new, !.seen = user[u]])
    BY <1>5, <2>2 DEF UpdateUser
  <2> DEFINE h == [pc |-> pc, who |-> u, token |-> 0, arg |-> new, seen |-> user[u]]
  <2>5. [Idle EXCEPT !.pc = pc, !.who = u, !.arg = new, !.seen = user[u]] = h
    BY AskedBoth
  <2>6. Begin(c, h)
    BY <2>4, <2>5
  <2>7. new.fails = user[u].fails /\ new.locked = user[u].locked /\ new.password = user[u].password
    BY <2>3
  <2>8. HandlerOK(h) /\ ChangeOK(h)
    BY <2>1, <2>3, <2>7 DEF HandlerOK, ChangeOK, Held, Args, Pcs
  <2> HIDE DEF h
  <2>. QED  BY <2>6, <2>8, Begun
<1>6. ASSUME NEW t \in DOMAIN sessions, Refresh(c, t) PROVE TypeInv'
  <2>1. sessions[t] \in Session /\ t \in Nat
    BY <1>0
  <2>2. sessions[t].of \in Users
    BY <2>1 DEF Session
  <2> DEFINE h == [pc |-> "user", who |-> sessions[t].of, token |-> t, arg |-> None, seen |-> None]
  <2>3. [Idle EXCEPT !.pc = "user", !.who = sessions[t].of, !.token = t] = h
    BY AskedToken
  <2>4. Begin(c, h)
    BY <1>6, <2>3 DEF Refresh
  <2>5. HandlerOK(h) /\ ChangeOK(h)
    BY <2>1, <2>2 DEF HandlerOK, ChangeOK, Held, Args, Pcs
  <2> HIDE DEF h
  <2>. QED  BY <2>4, <2>5, Begun
<1>7. ASSUME NEW l \in DOMAIN links, ConfirmReset(c, l) PROVE TypeInv'
  <2>1. links[l] \in Link /\ l \in Nat
    BY <1>0
  <2>2. links[l].of \in Users
    BY <2>1 DEF Link
  <2> DEFINE h == [pc |-> "get", who |-> links[l].of, token |-> l, arg |-> None, seen |-> None]
  <2>3. [Idle EXCEPT !.pc = "get", !.who = links[l].of, !.token = l] = h
    BY AskedToken
  <2>4. Begin(c, h)
    BY <1>7, <2>3 DEF ConfirmReset
  <2>5. HandlerOK(h) /\ ChangeOK(h)
    BY <2>1, <2>2 DEF HandlerOK, ChangeOK, Held, Args, Pcs
  <2> HIDE DEF h
  <2>. QED  BY <2>4, <2>5, Begun
<1>. QED  BY <1>1, <1>2, <1>3, <1>4, <1>5, <1>6, <1>7 DEF Call

\* What a handler at work holds.
LEMMA InHand ==
    ASSUME TypeInv, NEW c \in Handlers, call[c] # Idle
    PROVE  /\ call[c] \in Held(call[c].pc) /\ call[c].pc \in Pcs \ {"idle"}
           /\ call[c].who \in Users /\ call[c].token \in Nat
           /\ call[c].pc \in {"verify", "confirm", "count", "update"} => call[c].seen \in Row
           /\ call[c].pc = "update" => call[c].arg \in Row
           /\ call[c].pc = "count" => call[c].arg \in Row \cup {None}
           /\ call[c].pc = "invite" => call[c].arg \in Roles
           /\ call[c] = [pc |-> call[c].pc, who |-> call[c].who, token |-> call[c].token, arg |-> call[c].arg,
                         seen |-> call[c].seen]
<1>1. HandlerOK(call[c])
  BY CalledOK
<1>2. call[c].pc \in Pcs \ {"idle"} /\ call[c] \in Held(call[c].pc)
  BY <1>1 DEF HandlerOK
<1>3. /\ call[c].who \in Users /\ call[c].token \in Nat /\ call[c].arg \in Args(call[c].pc)
      /\ call[c] = [pc |-> call[c].pc, who |-> call[c].who, token |-> call[c].token, arg |-> call[c].arg,
                    seen |-> call[c].seen]
  BY <1>2 DEF Held
<1>. QED  BY <1>1, <1>2, <1>3 DEF HandlerOK, Args

LEMMA AtWork ==
    ASSUME NEW c, NEW pc, pc # "idle", At(c, pc)
    PROVE  call[c] # Idle /\ call[c].pc = pc
  BY DEF At, Idle

LEMMA GoneOn ==
    ASSUME TypeInv, NEW c \in Handlers, call[c] # Idle, NEW pc, GoesTo(c, pc)
    PROVE  call' = [call EXCEPT ![c] = [pc |-> pc, who |-> call[c].who, token |-> call[c].token,
                                        arg |-> call[c].arg, seen |-> call[c].seen]]
<1>1. PICK q, u, t, a, seen : call[c] = [pc |-> q, who |-> u, token |-> t, arg |-> a, seen |-> seen]
  BY InHand
<1>2. [call[c] EXCEPT !.pc = pc] = [pc |-> pc, who |-> u, token |-> t, arg |-> a, seen |-> seen]
  BY <1>1
<1>3. call' = [call EXCEPT ![c] = [call[c] EXCEPT !.pc = pc]]
  BY DEF GoesTo
<1>. QED  BY <1>1, <1>2, <1>3

\* A commit to a row that is there leaves a row.
LEMMA Written ==
    ASSUME TypeInv, NEW c \in Handlers, call[c] # Idle, Exists(call[c].who), call[c].seen \in Row,
           NEW new \in Row, Write(c, new)
    PROVE  /\ user' \in [Users -> Row \cup {None, Gone}]
           /\ \A u \in Users : user[u] # None => user'[u] # None
<1>1. call[c].who \in Users
  BY InHand
<1>2. TypeOK
  BY DEF TypeInv
<1>3. /\ user' \in [Users -> Row \cup {None, Gone}] /\ \A v \in Users \ {call[c].who} : user'[v] = user[v]
      /\ user'[call[c].who] \in Row
  BY <1>1, <1>2, WriteEffect
<1>. QED  BY <1>3, AccountsAssumption

LEMMA VerifyTyped ==
    ASSUME TypeInv, NEW c \in Handlers, Verify(c)
    PROVE  TypeInv'
<1>1. call[c] # Idle /\ call[c].pc = "verify"
  BY AtWork DEF Verify
<1>2. call[c].who \in Users /\ call[c].seen \in Row
  BY <1>1, InHand
<1>3. UNCHANGED <<careful, sessions, links, calls>>
  BY DEF Verify
<1>4. CASE Exists(call[c].who) /\ Write(c, Welcomed(call[c].seen))
           /\ call' = [call EXCEPT ![c] = [Idle EXCEPT !.pc = "session", !.who = call[c].who]]
  <2> DEFINE h == [Idle EXCEPT !.pc = "session", !.who = call[c].who]
  <2>1. sessions \in Seq(Session)
    BY DEF TypeInv, TypeOK
  <2>2. HandlerOK(h) /\ ChangeOK(h)
    BY <1>2, <2>1, NextFor
  <2> HIDE DEF h
  <2>3. Welcomed(call[c].seen) \in Row
    BY <1>2, WelcomedRow
  <2>. QED  BY <1>1, <1>2, <1>3, <1>4, <2>2, <2>3, Written, UserStep DEF h
<1>5. CASE Exists(call[c].who) /\ Write(c, Refused(call[c].seen)) /\ Ends(c)
  <2>1. Refused(call[c].seen) \in Row
    BY <1>2, RefusedRow
  <2>. QED  BY <1>1, <1>2, <1>3, <1>5, <2>1, Written, UserStep, IdleOK DEF Ends
<1>6. CASE UNCHANGED user /\ Ends(c)
  <2>1. user \in [Users -> Row \cup {None, Gone}]
    BY DEF TypeInv, TypeOK
  <2>. QED  BY <1>3, <1>6, <2>1, UserStep, IdleOK DEF Ends
<1>. QED  BY <1>4, <1>5, <1>6 DEF Verify

\* The handler is done, or goes on, with what he has appended or marked.
LEMMA ListStep ==
    ASSUME TypeInv, NEW c \in Handlers, NEW h, call' = [call EXCEPT ![c] = h], HandlerOK(h), ChangeOK(h),
           UNCHANGED <<careful, user, calls>>,
           sessions' \in Seq(Session), Len(sessions) <= Len(sessions'),
           \A t \in DOMAIN sessions' : sessions'[t].from < t /\ user[sessions'[t].of] # None,
           links' \in Seq(Link), Len(links) <= Len(links'),
           \A l \in DOMAIN links' : user[links'[l].of] # None
    PROVE  TypeInv'
<1>1. DOMAIN call = Handlers /\ user \in [Users -> Row \cup {None, Gone}] /\ calls \in 0..MaxCalls
  BY DEF TypeInv, TypeOK
<1>2. DOMAIN call' = Handlers /\ \A d \in Handlers : call'[d] = call[d] \/ (HandlerOK(call'[d]) /\ ChangeOK(call'[d]))
  BY <1>1
<1>. QED  BY <1>1, <1>2, TypedStep

LEMMA IssueSessionTyped ==
    ASSUME TypeInv, NEW c \in Handlers, IssueSession(c)
    PROVE  TypeInv'
<1>0. call' = [call EXCEPT ![c] = Idle] /\ UNCHANGED <<careful, user, links, calls>>
  BY DEF IssueSession, Ends
<1>1. call[c] # Idle /\ call[c].pc = "session"
  BY AtWork DEF IssueSession
<1>2. call[c].who \in Users /\ call[c].token \in 0..Len(sessions)
  BY <1>1, InHand, CalledOK DEF HandlerOK
<1>3. /\ sessions \in Seq(Session) /\ links \in Seq(Link)
      /\ \A t \in DOMAIN sessions : sessions[t].from < t /\ user[sessions[t].of] # None
      /\ \A l \in DOMAIN links : user[links[l].of] # None
  BY DEF TypeInv, TypeOK
<1>4. CASE Exists(call[c].who)
  <2> DEFINE s == [of |-> call[c].who, from |-> call[c].token, live |-> TRUE]
  <2>1. s \in Session /\ s.from \in 0..Len(sessions) /\ user[s.of] # None
    BY <1>2, <1>4 DEF Session, Exists
  <2> HIDE DEF s
  <2>2. sessions' = Append(sessions, s)
    BY <1>4 DEF IssueSession, s
  <2>3. /\ sessions' \in Seq(Session) /\ Len(sessions') = Len(sessions) + 1
        /\ \A t \in DOMAIN sessions' : sessions'[t] = IF t = Len(sessions) + 1 THEN s ELSE sessions[t]
        /\ DOMAIN sessions' = 1..(Len(sessions) + 1) /\ DOMAIN sessions = 1..Len(sessions) /\ Len(sessions) \in Nat
    BY <1>3, <2>1, <2>2
  <2>4. \A t \in DOMAIN sessions' : sessions'[t].from < t /\ user[sessions'[t].of] # None
    BY <1>3, <2>1, <2>3
  <2>5. Len(sessions) <= Len(sessions') /\ Len(links) <= Len(links') /\ links' \in Seq(Link)
    BY <1>0, <1>3, <2>3
  <2>6. \A l \in DOMAIN links' : user[links'[l].of] # None
    BY <1>0, <1>3
  <2>. QED  BY <1>0, <2>3, <2>4, <2>5, <2>6, ListStep, IdleOK
<1>5. CASE ~Exists(call[c].who)
  <2>1. sessions' = sessions /\ Len(sessions) <= Len(sessions) /\ Len(links) <= Len(links)
    BY <1>3, <1>5 DEF IssueSession
  <2>. QED  BY <1>0, <1>3, <2>1, ListStep, IdleOK
<1>. QED  BY <1>4, <1>5

LEMMA CheckUserTyped ==
    ASSUME TypeInv, NEW c \in Handlers, CheckUser(c)
    PROVE  TypeInv'
<1>1. call[c] # Idle /\ call[c].pc = "user"
  BY AtWork DEF CheckUser
<1>2. calls' \in 0..MaxCalls /\ UNCHANGED <<careful, user, sessions, links>>
  BY DEF CheckUser, TypeInv, TypeOK
<1>3. CASE GoesTo(c, "rotate")
  <2> DEFINE h == [pc |-> "rotate", who |-> call[c].who, token |-> call[c].token, arg |-> call[c].arg,
                   seen |-> call[c].seen]
  <2>1. call[c].token \in DOMAIN sessions /\ call[c] \in Held("user")
    BY <1>1, InHand, CalledOK DEF HandlerOK
  <2>2. HandlerOK(h) /\ ChangeOK(h)
    BY <2>1 DEF HandlerOK, ChangeOK, Held, Args, Pcs
  <2>3. call' = [call EXCEPT ![c] = h]
    BY <1>1, <1>3, GoneOn
  <2> HIDE DEF h
  <2>. QED  BY <1>2, <2>2, <2>3, HandlerStep
<1>4. CASE Ends(c)
  BY <1>2, <1>4, HandlerStep, IdleOK DEF Ends
<1>. QED  BY <1>3, <1>4 DEF CheckUser

\* Sequences in which one member is marked.
LEMMA SessionForm ==
    ASSUME NEW s \in Session, NEW live \in BOOLEAN
    PROVE  [s EXCEPT !.live = live] = [of |-> s.of, from |-> s.from, live |-> live]
  BY DEF Session

LEMMA SessionEnds ==
    ASSUME NEW s \in Session
    PROVE  [s EXCEPT !.live = FALSE] = [of |-> s.of, from |-> s.from, live |-> FALSE]
  BY SessionForm, FALSE \in BOOLEAN, Zenon

LEMMA SessionMarked ==
    ASSUME NEW s \in Seq(Session), NEW t \in DOMAIN s, NEW live \in BOOLEAN
    PROVE  LET n == [s EXCEPT ![t].live = live]
           IN  /\ n \in Seq(Session) /\ DOMAIN n = DOMAIN s /\ Len(n) = Len(s)
               /\ \A m \in DOMAIN s : n[m].of = s[m].of /\ n[m].from = s[m].from
                                      /\ n[m].live = IF m = t THEN live ELSE s[m].live
<1>1. s[t] \in Session
  OBVIOUS
<1>2. [s[t] EXCEPT !.live = live] = [of |-> s[t].of, from |-> s[t].from, live |-> live]
  BY <1>1, SessionForm
<1>3. PICK x : x = [of |-> s[t].of, from |-> s[t].from, live |-> live]
  OBVIOUS
<1>4. x \in Session /\ x.of = s[t].of /\ x.from = s[t].from /\ x.live = live
  BY <1>1, <1>3 DEF Session
<1>5. [s EXCEPT ![t].live = live] = [s EXCEPT ![t] = x]
  BY <1>2, <1>3
<1>. QED  BY <1>4, <1>5

LEMMA SessionOver ==
    ASSUME NEW s \in Seq(Session), NEW t \in DOMAIN s
    PROVE  LET n == [s EXCEPT ![t].live = FALSE]
           IN  /\ n \in Seq(Session) /\ DOMAIN n = DOMAIN s /\ Len(n) = Len(s)
               /\ \A m \in DOMAIN s : n[m].of = s[m].of /\ n[m].from = s[m].from
                                      /\ n[m].live = IF m = t THEN FALSE ELSE s[m].live
  BY SessionMarked, FALSE \in BOOLEAN, Zenon

LEMMA Revoked ==
    ASSUME TypeInv, NEW t \in DOMAIN sessions, sessions' = [sessions EXCEPT ![t].live = FALSE]
    PROVE  /\ sessions' \in Seq(Session) /\ DOMAIN sessions' = DOMAIN sessions /\ Len(sessions') = Len(sessions)
           /\ Len(sessions) <= Len(sessions')
           /\ \A m \in DOMAIN sessions :
                 /\ sessions'[m].of = sessions[m].of /\ sessions'[m].from = sessions[m].from
                 /\ sessions'[m].live = IF m = t THEN FALSE ELSE sessions[m].live
           /\ \A m \in DOMAIN sessions' : sessions'[m].from < m /\ user[sessions'[m].of] # None
<1>1. sessions \in Seq(Session) /\ \A m \in DOMAIN sessions : sessions[m].from < m /\ user[sessions[m].of] # None
  BY DEF TypeInv, TypeOK
<1> DEFINE n == [sessions EXCEPT ![t].live = FALSE]
<1>2. /\ n \in Seq(Session) /\ DOMAIN n = DOMAIN sessions /\ Len(n) = Len(sessions)
      /\ \A m \in DOMAIN sessions : n[m].of = sessions[m].of /\ n[m].from = sessions[m].from
                                    /\ n[m].live = IF m = t THEN FALSE ELSE sessions[m].live
  BY <1>1, SessionOver
<1>3. sessions' = n
  OBVIOUS
<1> HIDE DEF n
<1>4. \A m \in DOMAIN sessions :
         /\ sessions'[m].of = sessions[m].of /\ sessions'[m].from = sessions[m].from
         /\ sessions'[m].live = IF m = t THEN FALSE ELSE sessions[m].live
  BY <1>2, <1>3, Zenon
<1>5. /\ sessions' \in Seq(Session) /\ DOMAIN sessions' = DOMAIN sessions /\ Len(sessions') = Len(sessions)
  BY <1>2, <1>3, Zenon
<1>6. /\ \A m \in DOMAIN sessions : sessions'[m].of = sessions[m].of /\ sessions'[m].from = sessions[m].from
      /\ Len(sessions) \in Nat
  BY <1>1, <1>4
<1>7. \A m \in DOMAIN sessions' : sessions'[m].from < m /\ user[sessions'[m].of] # None
  BY <1>1, <1>5, <1>6
<1>8. Len(sessions) <= Len(sessions')
  BY <1>5, <1>6
<1>. QED  BY <1>4, <1>5, <1>7, <1>8

LEMMA LinkMarked ==
    ASSUME NEW s \in Seq(Link), NEW l \in DOMAIN s, NEW mark \in {"expired", "used"}
    PROVE  LET n == [s EXCEPT ![l].state = mark]
           IN  /\ n \in Seq(Link) /\ DOMAIN n = DOMAIN s /\ Len(n) = Len(s)
               /\ \A m \in DOMAIN s : n[m].of = s[m].of /\ n[m].state = IF m = l THEN mark ELSE s[m].state
<1>1. s[l] \in Link
  OBVIOUS
<1>2. [s[l] EXCEPT !.state = mark] = [of |-> s[l].of, state |-> mark]
  BY <1>1 DEF Link
<1>3. PICK x : x = [of |-> s[l].of, state |-> mark]
  OBVIOUS
<1>4. x \in Link /\ x.of = s[l].of /\ x.state = mark
  BY <1>1, <1>3 DEF Link
<1>5. [s EXCEPT ![l].state = mark] = [s EXCEPT ![l] = x]
  BY <1>2, <1>3
<1>. QED  BY <1>4, <1>5

\* What goes with a user.
SessionsLeft(s, u) == [t \in DOMAIN s |-> IF s[t].of = u THEN [s[t] EXCEPT !.live = FALSE] ELSE s[t]]

LinksLeft(s, u) == [l \in DOMAIN s |-> IF s[l].of = u THEN [s[l] EXCEPT !.state = "expired"] ELSE s[l]]

LEMMA SessionsOver ==
    ASSUME NEW s \in Seq(Session), NEW u
    PROVE  /\ SessionsLeft(s, u) \in Seq(Session) /\ DOMAIN SessionsLeft(s, u) = DOMAIN s
           /\ Len(s) <= Len(SessionsLeft(s, u))
           /\ \A t \in DOMAIN s : /\ SessionsLeft(s, u)[t].of = s[t].of /\ SessionsLeft(s, u)[t].from = s[t].from
                                  /\ SessionsLeft(s, u)[t].live => s[t].live
<1> DEFINE n == [t \in DOMAIN s |-> IF s[t].of = u THEN [s[t] EXCEPT !.live = FALSE] ELSE s[t]]
<1>0. SessionsLeft(s, u) = n
  BY DEF SessionsLeft
<1>1. \A t \in DOMAIN s : n[t] \in Session /\ n[t].of = s[t].of /\ n[t].from = s[t].from /\ (n[t].live => s[t].live)
  <2> SUFFICES ASSUME NEW t \in DOMAIN s
               PROVE  n[t] \in Session /\ n[t].of = s[t].of /\ n[t].from = s[t].from /\ (n[t].live => s[t].live)
    OBVIOUS
  <2>1. s[t] \in Session
    OBVIOUS
  <2>2. n[t] = s[t] \/ n[t] = [s[t] EXCEPT !.live = FALSE]
    OBVIOUS
  <2> HIDE DEF n
  <2>3. CASE n[t] = [s[t] EXCEPT !.live = FALSE]
    <3> DEFINE x == [of |-> s[t].of, from |-> s[t].from, live |-> FALSE]
    <3>1. [s[t] EXCEPT !.live = FALSE] = x
      BY <2>1, SessionEnds, Zenon
    <3>2. x \in Session /\ x.of = s[t].of /\ x.from = s[t].from /\ ~x.live
      BY <2>1 DEF Session
    <3> HIDE DEF x
    <3>. QED  BY <2>3, <3>1, <3>2
  <2>. QED  BY <2>1, <2>2, <2>3
<1>2. DOMAIN n = DOMAIN s /\ DOMAIN s = 1..Len(s) /\ Len(s) \in Nat
  OBVIOUS
<1> HIDE DEF n
<1>3. n = [t \in 1..Len(s) |-> n[t]]
  BY <1>2 DEF n
<1>4. n \in Seq(Session) /\ Len(n) = Len(s)
  BY <1>1, <1>2, <1>3
<1>5. Len(s) <= Len(n)
  BY <1>2, <1>4
<1>. QED  BY <1>0, <1>1, <1>2, <1>4, <1>5

LEMMA LinksOver ==
    ASSUME NEW s \in Seq(Link), NEW u
    PROVE  /\ LinksLeft(s, u) \in Seq(Link) /\ DOMAIN LinksLeft(s, u) = DOMAIN s /\ Len(s) <= Len(LinksLeft(s, u))
           /\ \A l \in DOMAIN s : LinksLeft(s, u)[l].of = s[l].of
<1> DEFINE n == [l \in DOMAIN s |-> IF s[l].of = u THEN [s[l] EXCEPT !.state = "expired"] ELSE s[l]]
<1>0. LinksLeft(s, u) = n
  BY DEF LinksLeft
<1>1. \A l \in DOMAIN s : n[l] \in Link /\ n[l].of = s[l].of
  <2> SUFFICES ASSUME NEW l \in DOMAIN s PROVE n[l] \in Link /\ n[l].of = s[l].of
    OBVIOUS
  <2>1. s[l] \in Link
    OBVIOUS
  <2>2. [s[l] EXCEPT !.state = "expired"] = [of |-> s[l].of, state |-> "expired"]
    BY <2>1 DEF Link
  <2>3. n[l] = s[l] \/ n[l] = [of |-> s[l].of, state |-> "expired"]
    BY <2>2
  <2> HIDE DEF n
  <2>. QED  BY <2>1, <2>3 DEF Link
<1>2. DOMAIN n = DOMAIN s /\ DOMAIN s = 1..Len(s) /\ Len(s) \in Nat
  OBVIOUS
<1> HIDE DEF n
<1>3. n = [l \in 1..Len(s) |-> n[l]]
  BY <1>2 DEF n
<1>4. n \in Seq(Link) /\ Len(n) = Len(s)
  BY <1>1, <1>2, <1>3
<1>5. Len(s) <= Len(n)
  BY <1>2, <1>4
<1>. QED  BY <1>0, <1>1, <1>2, <1>4, <1>5

LEMMA RotateTyped ==
    ASSUME TypeInv, NEW c \in Handlers, Rotate(c)
    PROVE  TypeInv'
<1>1. call[c] # Idle /\ call[c].pc = "rotate"
  BY AtWork DEF Rotate
<1>2. call[c].token \in DOMAIN sessions /\ call[c] \in Held("rotate")
  BY <1>1, InHand, CalledOK DEF HandlerOK
<1>3. /\ sessions \in Seq(Session) /\ links \in Seq(Link) /\ Len(links) <= Len(links)
      /\ \A t \in DOMAIN sessions : sessions[t].from < t /\ user[sessions[t].of] # None
      /\ \A l \in DOMAIN links : user[links[l].of] # None
  BY DEF TypeInv, TypeOK
<1>4. sessions' = [sessions EXCEPT ![call[c].token].live = FALSE] /\ UNCHANGED <<careful, user, links, calls>>
  BY DEF Rotate, Revoke
<1>5. /\ sessions' \in Seq(Session) /\ Len(sessions) <= Len(sessions')
      /\ \A t \in DOMAIN sessions' : sessions'[t].from < t /\ user[sessions'[t].of] # None
  BY <1>2, <1>4, Revoked
<1> DEFINE h == [pc |-> "session", who |-> call[c].who, token |-> call[c].token, arg |-> call[c].arg,
                 seen |-> call[c].seen]
<1>7. call' = [call EXCEPT ![c] = h]
  BY <1>1, GoneOn DEF Rotate
<1>8. call[c].token \in 0..Len(sessions)
  BY <1>2, <1>3
<1>9. HandlerOK(h) /\ ChangeOK(h)
  BY <1>2, <1>8 DEF HandlerOK, ChangeOK, Held, Args, Pcs
<1> HIDE DEF h
<1>10. links' \in Seq(Link) /\ Len(links) <= Len(links') /\ \A l \in DOMAIN links' : user[links'[l].of] # None
  BY <1>3, <1>4
<1>. QED  BY <1>4, <1>5, <1>7, <1>9, <1>10, ListStep

LEMMA InsertUserTyped ==
    ASSUME TypeInv, NEW c \in Handlers, InsertUser(c)
    PROVE  TypeInv'
<1>1. call[c] # Idle /\ call[c].pc = "invite"
  BY AtWork DEF InsertUser
<1>2. call[c].who \in Users /\ call[c].arg \in Roles
  BY <1>1, InHand
<1>3. user \in [Users -> Row \cup {None, Gone}] /\ sessions \in Seq(Session)
  BY DEF TypeInv, TypeOK
<1>4. CASE user[call[c].who] = None
  <2> DEFINE row == [role |-> call[c].arg, active |-> FALSE, password |-> FALSE, fails |-> 0, locked |-> "none"]
             h == [Idle EXCEPT !.pc = "link", !.who = call[c].who]
  <2>1. HandlerOK(h) /\ ChangeOK(h)
    BY <1>2, <1>3, NextFor
  <2>2. row \in Row
    BY <1>2 DEF Row
  <2> HIDE DEF h, row
  <2>3. user' = [user EXCEPT ![call[c].who] = row] /\ call' = [call EXCEPT ![c] = h]
    BY <1>4 DEF InsertUser, row, h
  <2>4. user' \in [Users -> Row \cup {None, Gone}] /\ \A u \in Users : user[u] # None => user'[u] # None
    BY <1>2, <1>3, <1>4, <2>2, <2>3
  <2>5. UNCHANGED <<careful, sessions, links, calls>>
    BY DEF InsertUser
  <2>. QED  BY <2>1, <2>3, <2>4, <2>5, UserStep
<1>5. CASE UNCHANGED user /\ Ends(c)
  <2>1. UNCHANGED <<careful, sessions, links, calls>> /\ call' = [call EXCEPT ![c] = Idle]
    BY <1>5 DEF InsertUser, Ends
  <2>. QED  BY <1>3, <1>5, <2>1, UserStep, IdleOK
<1>. QED  BY <1>4, <1>5 DEF InsertUser

LEMMA IssueLinkTyped ==
    ASSUME TypeInv, NEW c \in Handlers, IssueLink(c)
    PROVE  TypeInv'
<1>0. call' = [call EXCEPT ![c] = Idle] /\ UNCHANGED <<careful, user, sessions, calls>>
  BY DEF IssueLink, Ends
<1>1. call[c].who \in Users
  BY AtWork, InHand DEF IssueLink
<1>2. /\ sessions \in Seq(Session) /\ links \in Seq(Link)
      /\ \A t \in DOMAIN sessions : sessions[t].from < t /\ user[sessions[t].of] # None
      /\ \A l \in DOMAIN links : user[links[l].of] # None
  BY DEF TypeInv, TypeOK
<1>3. /\ sessions' \in Seq(Session) /\ Len(sessions) <= Len(sessions')
      /\ \A t \in DOMAIN sessions' : sessions'[t].from < t /\ user[sessions'[t].of] # None
  BY <1>0, <1>2
<1>4. CASE Exists(call[c].who)
  <2> DEFINE s == [of |-> call[c].who, state |-> "open"]
  <2>1. s \in Link /\ user[s.of] # None
    BY <1>1, <1>4 DEF Link, Exists
  <2> HIDE DEF s
  <2>2. links' = Append(links, s)
    BY <1>4 DEF IssueLink, s
  <2>3. /\ links' \in Seq(Link) /\ Len(links') = Len(links) + 1
        /\ \A l \in DOMAIN links' : links'[l] = IF l = Len(links) + 1 THEN s ELSE links[l]
        /\ DOMAIN links' = 1..(Len(links) + 1) /\ DOMAIN links = 1..Len(links) /\ Len(links) \in Nat
    BY <1>2, <2>1, <2>2
  <2>4. Len(links) <= Len(links') /\ \A l \in DOMAIN links' : user[links'[l].of] # None
    BY <1>2, <2>1, <2>3
  <2>. QED  BY <1>0, <1>3, <2>3, <2>4, ListStep, IdleOK
<1>5. CASE ~Exists(call[c].who)
  <2>1. links' = links
    BY <1>5 DEF IssueLink
  <2>2. links' \in Seq(Link) /\ Len(links) <= Len(links') /\ \A l \in DOMAIN links' : user[links'[l].of] # None
    BY <1>2, <2>1
  <2>. QED  BY <1>0, <1>3, <2>2, ListStep, IdleOK
<1>. QED  BY <1>4, <1>5

LEMMA GetUserTyped ==
    ASSUME TypeInv, NEW c \in Handlers, GetUser(c)
    PROVE  TypeInv'
<1>1. call[c] # Idle /\ call[c].pc = "get"
  BY AtWork DEF GetUser
<1>2. calls' \in 0..MaxCalls /\ UNCHANGED <<careful, user, sessions, links>>
  BY DEF GetUser, TypeInv, TypeOK
<1>3. CASE Exists(call[c].who) /\ call' = [call EXCEPT ![c] = [@ EXCEPT !.pc = "confirm", !.seen = user[call[c].who]]]
  <2>1. PICK u, t, a, seen : call[c] = [pc |-> "get", who |-> u, token |-> t, arg |-> a, seen |-> seen]
    BY <1>1, InHand
  <2>2. call[c].who \in Users /\ call[c].token \in DOMAIN links /\ call[c] \in Held("get")
    BY <1>1, InHand, CalledOK DEF HandlerOK
  <2>3. user[u] \in Row /\ u \in Users /\ t \in DOMAIN links /\ t \in Nat /\ a = None
    BY <1>3, <2>1, <2>2 DEF Exists, TypeInv, TypeOK, Held, Args
  <2> DEFINE y == [pc |-> "confirm", who |-> u, token |-> t, arg |-> a, seen |-> seen]
             h == [pc |-> "confirm", who |-> u, token |-> t, arg |-> a, seen |-> user[u]]
  <2>4. [call[c] EXCEPT !.pc = "confirm"] = y
    BY <2>1
  <2>5. [y EXCEPT !.seen = user[u]] = h
    OBVIOUS
  <2>6. HandlerOK(h) /\ ChangeOK(h)
    BY <2>3 DEF HandlerOK, ChangeOK, Held, Args, Pcs
  <2>7. call[c].who = u
    BY <2>1
  <2> HIDE DEF y, h
  <2>8. call' = [call EXCEPT ![c] = h]
    BY <1>3, <2>4, <2>5, <2>7
  <2>. QED  BY <1>2, <2>6, <2>8, HandlerStep
<1>4. CASE Ends(c)
  BY <1>2, <1>4, HandlerStep, IdleOK DEF Ends
<1>. QED  BY <1>3, <1>4 DEF GetUser

LEMMA ConfirmTyped ==
    ASSUME TypeInv, NEW c \in Handlers, Confirm(c)
    PROVE  TypeInv'
<1>1. call[c] # Idle /\ call[c].pc = "confirm"
  BY AtWork DEF Confirm
<1>2. call[c].who \in Users /\ call[c].seen \in Row /\ call[c].token \in DOMAIN links
  BY <1>1, InHand, CalledOK DEF HandlerOK
<1>3. /\ DOMAIN call = Handlers /\ user \in [Users -> Row \cup {None, Gone}] /\ calls \in 0..MaxCalls
      /\ sessions \in Seq(Session) /\ links \in Seq(Link)
      /\ \A t \in DOMAIN sessions : sessions[t] \in Session /\ sessions[t].from < t /\ user[sessions[t].of] # None
      /\ \A l \in DOMAIN links : links[l] \in Link /\ user[links[l].of] # None
  BY DEF TypeInv, TypeOK
<1>4. UNCHANGED <<careful, sessions, calls>> /\ call' = [call EXCEPT ![c] = Idle]
  BY DEF Confirm, Ends
<1>5. DOMAIN call' = Handlers /\ \A d \in Handlers : call'[d] = call[d] \/ (HandlerOK(call'[d]) /\ ChangeOK(call'[d]))
  BY <1>3, <1>4, IdleOK
<1>6. /\ \A t \in DOMAIN sessions : sessions[t].of \in Users
      /\ \A l \in DOMAIN links : links[l].of \in Users
  BY <1>3 DEF Session, Link
<1>7. CASE Exists(call[c].who)
  <2> DEFINE new == [Welcomed(call[c].seen) EXCEPT !.password = TRUE, !.active = TRUE]
  <2>1. new \in Row
    BY <1>2, ConfirmedRow
  <2>2. Write(c, new)
    BY <1>7 DEF Confirm
  <2> HIDE DEF new
  <2>3. user' \in [Users -> Row \cup {None, Gone}] /\ \A u \in Users : user[u] # None => user'[u] # None
    BY <1>1, <1>2, <1>7, <2>1, <2>2, Written
  <2>4. links' = [links EXCEPT ![call[c].token].state = "used"]
    BY <1>7 DEF Confirm, Used
  <2>5. /\ links' \in Seq(Link) /\ DOMAIN links' = DOMAIN links /\ Len(links') = Len(links)
        /\ \A l \in DOMAIN links : links'[l].of = links[l].of
    BY <1>2, <1>3, <2>4, LinkMarked
  <2>6. /\ Len(sessions) <= Len(sessions') /\ Len(links) <= Len(links') /\ sessions' \in Seq(Session)
        /\ calls' \in 0..MaxCalls
    BY <1>3, <1>4, <2>5
  <2>7. /\ \A t \in DOMAIN sessions' : sessions'[t].from < t /\ user'[sessions'[t].of] # None
        /\ \A l \in DOMAIN links' : user'[links'[l].of] # None
    BY <1>3, <1>4, <1>6, <2>3, <2>5
  <2>. QED  BY <1>4, <1>5, <2>3, <2>5, <2>6, <2>7, TypedStep
<1>8. CASE ~Exists(call[c].who)
  <2>1. UNCHANGED <<user, links>>
    BY <1>8 DEF Confirm
  <2>. QED  BY <1>3, <1>4, <2>1, UserStep, IdleOK
<1>. QED  BY <1>7, <1>8

LEMMA CountTyped ==
    ASSUME TypeInv, NEW c \in Handlers, Count(c)
    PROVE  TypeInv'
<1>1. call[c] # Idle /\ call[c].pc = "count"
  BY AtWork DEF Count
<1>2. calls' \in 0..MaxCalls /\ UNCHANGED <<careful, user, sessions, links>>
  BY DEF Count, TypeInv, TypeOK
<1>3. CASE Ends(c)
  BY <1>2, <1>3, HandlerStep, IdleOK DEF Ends
<1>4. CASE GoesTo(c, IF call[c].arg = None THEN "delete" ELSE "update")
  <2>1. PICK pc \in {"delete", "update"} : GoesTo(c, pc) /\ (pc = "delete" <=> call[c].arg = None)
    BY <1>4
  <2>2. /\ call[c].who \in Users /\ call[c].token \in Nat /\ call[c].seen \in Row
        /\ call[c].arg \in Row \cup {None} /\ ChangeOK(call[c])
    BY <1>1, InHand, CalledOK
  <2> DEFINE h == [pc |-> pc, who |-> call[c].who, token |-> call[c].token, arg |-> call[c].arg, seen |-> call[c].seen]
  <2>3. call' = [call EXCEPT ![c] = h]
    BY <1>1, <2>1, GoneOn
  <2>4. HandlerOK(h)
    BY <2>1, <2>2 DEF HandlerOK, Held, Args, Pcs
  <2>5. ChangeOK(h)
    BY <1>1, <2>2 DEF ChangeOK
  <2> HIDE DEF h
  <2>. QED  BY <1>2, <2>3, <2>4, <2>5, HandlerStep
<1>. QED  BY <1>3, <1>4 DEF Count

LEMMA UpdateTyped ==
    ASSUME TypeInv, NEW c \in Handlers, Update(c)
    PROVE  TypeInv'
<1>1. call[c] # Idle /\ call[c].pc = "update"
  BY AtWork DEF Update
<1>2. call[c].seen \in Row /\ call[c].arg \in Row
  BY <1>1, InHand
<1>3. UNCHANGED <<careful, sessions, links, calls>> /\ call' = [call EXCEPT ![c] = Idle]
  BY DEF Update, Ends
<1>4. user' \in [Users -> Row \cup {None, Gone}] /\ \A u \in Users : user[u] # None => user'[u] # None
  <2>1. CASE Exists(call[c].who)
    BY <1>1, <1>2, <2>1, Written DEF Update
  <2>2. CASE UNCHANGED user
    BY <2>2 DEF TypeInv, TypeOK
  <2>. QED  BY <2>1, <2>2 DEF Update
<1>. QED  BY <1>3, <1>4, UserStep, IdleOK

LEMMA DeleteTyped ==
    ASSUME TypeInv, NEW c \in Handlers, Delete(c)
    PROVE  TypeInv'
<1>1. call[c] # Idle /\ call[c].who \in Users
  BY AtWork, InHand DEF Delete
<1>2. /\ DOMAIN call = Handlers /\ user \in [Users -> Row \cup {None, Gone}] /\ calls \in 0..MaxCalls
      /\ sessions \in Seq(Session) /\ links \in Seq(Link)
      /\ \A t \in DOMAIN sessions : sessions[t] \in Session /\ sessions[t].from < t /\ user[sessions[t].of] # None
      /\ \A l \in DOMAIN links : links[l] \in Link /\ user[links[l].of] # None
  BY DEF TypeInv, TypeOK
<1>3. /\ UNCHANGED <<careful, calls>> /\ call' = [call EXCEPT ![c] = Idle]
      /\ user' = [user EXCEPT ![call[c].who] = Gone]
  BY DEF Delete, Ends
<1>4. DOMAIN call' = Handlers /\ \A d \in Handlers : call'[d] = call[d] \/ (HandlerOK(call'[d]) /\ ChangeOK(call'[d]))
  BY <1>2, <1>3, IdleOK
<1>5. user' \in [Users -> Row \cup {None, Gone}] /\ \A u \in Users : user[u] # None => user'[u] # None
  BY <1>1, <1>2, <1>3, AccountsAssumption
<1>6. sessions' = SessionsLeft(sessions, call[c].who) /\ links' = LinksLeft(links, call[c].who)
  BY DEF Delete, SessionsLeft, LinksLeft
<1>7. /\ sessions' \in Seq(Session) /\ DOMAIN sessions' = DOMAIN sessions /\ Len(sessions) <= Len(sessions')
      /\ \A t \in DOMAIN sessions : sessions'[t].of = sessions[t].of /\ sessions'[t].from = sessions[t].from
      /\ links' \in Seq(Link) /\ DOMAIN links' = DOMAIN links /\ Len(links) <= Len(links')
      /\ \A l \in DOMAIN links : links'[l].of = links[l].of
  BY <1>2, <1>6, SessionsOver, LinksOver
<1>8. /\ \A t \in DOMAIN sessions : sessions[t].of \in Users
      /\ \A l \in DOMAIN links : links[l].of \in Users
  BY <1>2 DEF Session, Link
<1>9. /\ \A t \in DOMAIN sessions' : sessions'[t].from < t /\ user'[sessions'[t].of] # None
      /\ \A l \in DOMAIN links' : user'[links'[l].of] # None
  BY <1>2, <1>5, <1>7, <1>8
<1>10. calls' \in 0..MaxCalls
  BY <1>2, <1>3
<1>. QED  BY <1>3, <1>4, <1>5, <1>7, <1>9, <1>10, TypedStep

LEMMA AbortTyped ==
    ASSUME TypeInv, NEW c \in Handlers, Abort(c)
    PROVE  TypeInv'
<1>1. UNCHANGED <<careful, user, sessions, links, calls>> /\ call' = [call EXCEPT ![c] = Idle]
  BY DEF Abort, Ends
<1>2. calls' \in 0..MaxCalls
  BY <1>1 DEF TypeInv, TypeOK
<1>. QED  BY <1>1, <1>2, HandlerStep, IdleOK

LEMMA SessionsTyped ==
    ASSUME TypeInv, NEW t \in DOMAIN sessions, sessions' = [sessions EXCEPT ![t].live = FALSE],
           UNCHANGED <<careful, user, links, call>>, calls' \in 0..MaxCalls
    PROVE  TypeInv'
<1>1. /\ links \in Seq(Link) /\ user \in [Users -> Row \cup {None, Gone}] /\ DOMAIN call = Handlers
      /\ \A l \in DOMAIN links : user[links[l].of] # None
  BY DEF TypeInv, TypeOK
<1>2. /\ sessions' \in Seq(Session) /\ Len(sessions) <= Len(sessions')
      /\ \A m \in DOMAIN sessions' : sessions'[m].from < m /\ user[sessions'[m].of] # None
  BY Revoked
<1>3. Len(links) <= Len(links)
  BY <1>1
<1>. QED  BY <1>1, <1>2, <1>3, TypedStep

LEMMA LinksTyped ==
    ASSUME TypeInv, NEW l \in DOMAIN links, ExpireLink(l)
    PROVE  TypeInv'
<1>1. /\ links \in Seq(Link) /\ sessions \in Seq(Session) /\ user \in [Users -> Row \cup {None, Gone}]
      /\ DOMAIN call = Handlers /\ calls \in 0..MaxCalls
      /\ \A m \in DOMAIN links : user[links[m].of] # None
      /\ \A t \in DOMAIN sessions : sessions[t].from < t /\ user[sessions[t].of] # None
  BY DEF TypeInv, TypeOK
<1>2. links' = [links EXCEPT ![l].state = "expired"] /\ UNCHANGED <<careful, user, sessions, call, calls>>
  BY DEF ExpireLink
<1>3. /\ links' \in Seq(Link) /\ DOMAIN links' = DOMAIN links /\ Len(links') = Len(links)
      /\ \A m \in DOMAIN links : links'[m].of = links[m].of
  <2> DEFINE n == [links EXCEPT ![l].state = "expired"]
  <2>1. links \in Seq(Link) /\ l \in DOMAIN links
    BY <1>1
  <2>2. /\ n \in Seq(Link) /\ DOMAIN n = DOMAIN links /\ Len(n) = Len(links)
        /\ \A m \in DOMAIN links : n[m].of = links[m].of
    BY <2>1, LinkMarked
  <2>3. links' = n
    BY <1>2
  <2> HIDE DEF n
  <2>. QED  BY <2>2, <2>3
<1>4. Len(links) <= Len(links') /\ Len(sessions) <= Len(sessions) /\ \A m \in DOMAIN links' : user[links'[m].of] # None
  BY <1>1, <1>3
<1>. QED  BY <1>1, <1>2, <1>3, <1>4, TypedStep

LEMMA PastRow ==
    ASSUME NEW w \in Row
    PROVE  [w EXCEPT !.locked = "past"] = [role |-> w.role, active |-> w.active, password |-> w.password,
                                           fails |-> w.fails, locked |-> "past"]
           /\ [w EXCEPT !.locked = "past"] \in Row
<1>1. [w EXCEPT !.locked = "past"] = [role |-> w.role, active |-> w.active, password |-> w.password,
                                      fails |-> w.fails, locked |-> "past"]
  BY DEF Row
<1>. QED  BY <1>1 DEF Row

LEMMA UnlockEffect ==
    ASSUME TypeInv, NEW u \in Users, Unlock(u)
    PROVE  /\ user' \in [Users -> Row \cup {None, Gone}]
           /\ \A v \in Users \ {u} : user'[v] = user[v]
           /\ user[u] \in Row /\ user'[u] \in Row
           /\ user'[u].role = user[u].role /\ user'[u].active = user[u].active /\ user'[u].fails = user[u].fails
           /\ user[u].locked = "future" /\ user'[u].locked = "past"
<1>1. user \in [Users -> Row \cup {None, Gone}] /\ user[u] \in Row /\ user[u].locked = "future"
  BY DEF TypeInv, TypeOK, Unlock, Exists
<1>2. PICK new : new = [role |-> user[u].role, active |-> user[u].active, password |-> user[u].password,
                        fails |-> user[u].fails, locked |-> "past"]
  OBVIOUS
<1>3. [user[u] EXCEPT !.locked = "past"] = new
  BY <1>1, <1>2, PastRow
<1>4. user' = [user EXCEPT ![u] = new]
  BY <1>3 DEF Unlock
<1>5. new \in Row
  BY <1>1, <1>2 DEF Row
<1>6. user'[u] = new
  BY <1>1, <1>4
<1>. QED  BY <1>1, <1>2, <1>4, <1>5, <1>6

LEMMA UnlockTyped ==
    ASSUME TypeInv, NEW u \in Users, Unlock(u)
    PROVE  TypeInv'
<1>1. /\ links \in Seq(Link) /\ sessions \in Seq(Session) /\ DOMAIN call = Handlers /\ calls \in 0..MaxCalls
      /\ \A m \in DOMAIN links : links[m] \in Link /\ user[links[m].of] # None
      /\ \A t \in DOMAIN sessions : sessions[t] \in Session /\ sessions[t].from < t /\ user[sessions[t].of] # None
  BY DEF TypeInv, TypeOK
<1>2. user' \in [Users -> Row \cup {None, Gone}] /\ \A v \in Users : user[v] # None => user'[v] # None
  BY UnlockEffect, AccountsAssumption
<1>3. UNCHANGED <<careful, sessions, links, call, calls>>
  BY DEF Unlock
<1>4. /\ \A t \in DOMAIN sessions : sessions[t].of \in Users
      /\ \A l \in DOMAIN links : links[l].of \in Users
  BY <1>1 DEF Session, Link
<1>5. /\ \A t \in DOMAIN sessions' : sessions'[t].from < t /\ user'[sessions'[t].of] # None
      /\ \A l \in DOMAIN links' : user'[links'[l].of] # None
  BY <1>1, <1>2, <1>3, <1>4
<1>6. Len(sessions) <= Len(sessions') /\ Len(links) <= Len(links')
  BY <1>1, <1>3
<1>. QED  BY <1>1, <1>2, <1>3, <1>5, <1>6, TypedStep

LEMMA NextTypeInv == TypeInv /\ [Next]_vars => TypeInv'
<1> SUFFICES ASSUME TypeInv, [Next]_vars PROVE TypeInv'
  OBVIOUS
<1>1. ASSUME NEW c \in Handlers, Call(c) PROVE TypeInv'
  BY <1>1, CallTyped
<1>2. ASSUME NEW c \in Handlers, Continue(c) PROVE TypeInv'
  BY <1>2, VerifyTyped, IssueSessionTyped, CheckUserTyped, RotateTyped, InsertUserTyped, IssueLinkTyped,
     GetUserTyped, ConfirmTyped, CountTyped, UpdateTyped, DeleteTyped DEF Continue
<1>3. ASSUME NEW c \in Handlers, Abort(c) PROVE TypeInv'
  BY <1>3, AbortTyped
<1>4. ASSUME NEW t \in DOMAIN sessions, Logout(t) PROVE TypeInv'
  <2>1. sessions' = [sessions EXCEPT ![t].live = FALSE] /\ UNCHANGED <<careful, user, links, call>>
    BY <1>4 DEF Logout, Revoke
  <2>2. calls' \in 0..MaxCalls
    BY <1>4, AccountsAssumption DEF Logout, TypeInv, TypeOK
  <2>. QED  BY <2>1, <2>2, SessionsTyped
<1>5. ASSUME NEW t \in DOMAIN sessions, ExpireSession(t) PROVE TypeInv'
  <2>1. sessions' = [sessions EXCEPT ![t].live = FALSE] /\ UNCHANGED <<careful, user, links, call>>
    BY <1>5 DEF ExpireSession
  <2>2. calls' \in 0..MaxCalls
    BY <1>5 DEF ExpireSession, TypeInv, TypeOK
  <2>. QED  BY <2>1, <2>2, SessionsTyped
<1>6. ASSUME NEW l \in DOMAIN links, ExpireLink(l) PROVE TypeInv'
  BY <1>6, LinksTyped
<1>7. ASSUME NEW u \in Users, Unlock(u) PROVE TypeInv'
  BY <1>7, UnlockTyped
<1>8. CASE UNCHANGED vars
  BY <1>8 DEF vars, TypeInv, TypeOK, HandlerOK, ChangeOK
<1>. QED  BY <1>1, <1>2, <1>3, <1>4, <1>5, <1>6, <1>7, <1>8 DEF Next

\* The tables hold what they are declared to, a refresh token comes from an older
\* one, and every handler holds what the code after its await reads.
THEOREM TypeCorrect == Spec => []TypeOK
<1>1. TypeInv => TypeOK
  BY DEF TypeInv
<1>. QED  BY InitTypeInv, NextTypeInv, <1>1, PTL DEF Spec

-----------------------------------------------------------------------------
\* What a commit does to the columns of a lock.

\* A success, and a password that is set, clear them; if a row changed since it was
\* loaded, only the column that differs from what was loaded.
LEMMA CountFalls ==
    ASSUME TypeInv, NEW c \in Handlers, call[c] # Idle, Exists(call[c].who), call[c].seen \in Row,
           NEW new \in Row, new.fails = 0 \/ new.fails = call[c].seen.fails, Write(c, new)
    PROVE  \A u \in Users : Exists(u) => user'[u] = user[u] \/ (user'[u] \in Row /\ user'[u].fails <= user[u].fails)
<1>1. call[c].who \in Users /\ TypeOK
  BY InHand DEF TypeInv
<1>2. /\ \A v \in Users \ {call[c].who} : user'[v] = user[v]
      /\ user'[call[c].who] \in Row /\ user[call[c].who] \in Row
      /\ user'[call[c].who].fails = IF new.fails # call[c].seen.fails THEN new.fails ELSE user[call[c].who].fails
  BY <1>1, WriteEffect
<1>3. user'[call[c].who].fails \in Nat /\ user[call[c].who].fails \in Nat
  BY <1>2 DEF Row
<1>. QED  BY <1>2, <1>3

FailureLocks ==
    \A u \in Users :
       (Exists(u) /\ user'[u] \in Row /\ user'[u].fails > user[u].fails /\ user'[u].fails >= MaxAttempts)
          => user'[u].locked = "future"

LEMMA CountKept ==
    ASSUME TypeInv,
           \A u \in Users : Exists(u) =>
              user'[u] = user[u] \/ user'[u] \notin Row \/ (user'[u] \in Row /\ user'[u].fails <= user[u].fails)
    PROVE  FailureLocks
<1> SUFFICES ASSUME NEW u \in Users, Exists(u), user'[u] \in Row, user'[u].fails > user[u].fails PROVE FALSE
  BY DEF FailureLocks
<1>1. user[u] \in Row
  BY DEF TypeInv, TypeOK, Exists
<1>2. user[u].fails \in Nat /\ user'[u].fails \in Nat
  BY <1>1 DEF Row
<1>. QED  BY <1>2

LEMMA LockStep == TypeInv /\ [Next]_vars => FailureLocks
<1> SUFFICES ASSUME TypeInv, [Next]_vars PROVE FailureLocks
  OBVIOUS
<1>1. CASE UNCHANGED user
  BY <1>1, CountKept
<1>2. ASSUME NEW c \in Handlers, Verify(c) PROVE FailureLocks
  <2>1. call[c] # Idle /\ call[c].pc = "verify"
    BY <1>2, AtWork DEF Verify
  <2>2. call[c].who \in Users /\ call[c].seen \in Row /\ call[c].seen.locked # "future" /\ TypeOK
    BY <2>1, InHand, CalledOK DEF ChangeOK, TypeInv
  <2>3. CASE Exists(call[c].who) /\ Write(c, Welcomed(call[c].seen))
    <3>1. PICK new \in Row : new = Welcomed(call[c].seen) /\ new.fails = 0
      BY <2>2, WelcomedRow
    <3>. QED  BY <2>1, <2>2, <2>3, <3>1, CountFalls, CountKept
  <2>4. CASE Exists(call[c].who) /\ Write(c, Refused(call[c].seen))
    <3>1. PICK new \in Row : /\ new = Refused(call[c].seen) /\ new.fails = call[c].seen.fails + 1
                             /\ new.fails >= MaxAttempts => new.locked = "future"
      BY <2>2, RefusedRow
    <3>2. /\ \A v \in Users \ {call[c].who} : user'[v] = user[v]
          /\ user'[call[c].who] \in Row
          /\ user'[call[c].who].fails = IF new.fails # call[c].seen.fails THEN new.fails ELSE user[call[c].who].fails
          /\ user'[call[c].who].locked = IF new.locked # call[c].seen.locked THEN new.locked ELSE user[call[c].who].locked
      BY <2>2, <2>4, <3>1, WriteEffect
    <3>3. call[c].seen.fails \in Nat
      BY <2>2 DEF Row
    <3>4. user'[call[c].who].fails >= MaxAttempts => user'[call[c].who].locked = "future"
      BY <2>2, <3>1, <3>2, <3>3
    <3>5. \A v \in Users : user[v].fails \in Nat \/ ~Exists(v)
      <4>1. \A v \in Users : Exists(v) => user[v] \in Row
        BY <2>2 DEF TypeOK, Exists
      <4>. QED  BY <4>1 DEF Row
    <3>. QED  BY <3>2, <3>4, <3>5 DEF FailureLocks
  <2>. QED  BY <1>1, <1>2, <2>3, <2>4 DEF Verify
<1>3. ASSUME NEW c \in Handlers, InsertUser(c) PROVE FailureLocks
  <2>1. call[c].who \in Users /\ user \in [Users -> Row \cup {None, Gone}]
    BY <1>3, AtWork, InHand DEF InsertUser, TypeInv, TypeOK
  <2>2. \A u \in Users : Exists(u) => user'[u] = user[u]
    BY <1>3, <2>1 DEF InsertUser, Exists
  <2>. QED  BY <2>2, CountKept
<1>4. ASSUME NEW c \in Handlers, Confirm(c) PROVE FailureLocks
  <2>1. call[c] # Idle /\ call[c].pc = "confirm"
    BY <1>4, AtWork DEF Confirm
  <2>2. call[c].who \in Users /\ call[c].seen \in Row
    BY <2>1, InHand
  <2> DEFINE new == [Welcomed(call[c].seen) EXCEPT !.password = TRUE, !.active = TRUE]
  <2>3. new \in Row /\ new.fails = 0
    BY <2>2, ConfirmedRow
  <2>4. UNCHANGED user \/ (Exists(call[c].who) /\ Write(c, new))
    BY <1>4 DEF Confirm
  <2> HIDE DEF new
  <2>. QED  BY <1>1, <2>1, <2>2, <2>3, <2>4, CountFalls, CountKept
<1>5. ASSUME NEW c \in Handlers, Update(c) PROVE FailureLocks
  <2>1. call[c] # Idle /\ call[c].pc = "update"
    BY <1>5, AtWork DEF Update
  <2>2. call[c].who \in Users /\ call[c].seen \in Row /\ call[c].arg \in Row /\ ChangeOK(call[c])
    BY <2>1, InHand, CalledOK
  <2>3. call[c].arg.fails = call[c].seen.fails
    BY <2>1, <2>2, AccountsAssumption DEF ChangeOK
  <2>. QED  BY <1>1, <1>5, <2>1, <2>2, <2>3, CountFalls, CountKept DEF Update
<1>6. ASSUME NEW c \in Handlers, Delete(c) PROVE FailureLocks
  <2>1. call[c].who \in Users /\ user \in [Users -> Row \cup {None, Gone}]
    BY <1>6, AtWork, InHand DEF Delete, TypeInv, TypeOK
  <2>2. \A u \in Users : user'[u] = user[u] \/ user'[u] \notin Row
    BY <1>6, <2>1, AccountsAssumption DEF Delete
  <2>. QED  BY <2>2, CountKept
<1>7. ASSUME NEW u \in Users, Unlock(u) PROVE FailureLocks
  <2>1. user[u].fails \in Nat
    BY <1>7, UnlockEffect DEF Row
  <2>2. user'[u].fails <= user[u].fails /\ user'[u] \in Row /\ \A v \in Users \ {u} : user'[v] = user[v]
    BY <1>7, <2>1, UnlockEffect
  <2>. QED  BY <2>2, CountKept
<1>8. ASSUME NEW c \in Handlers, Call(c) \/ Abort(c) PROVE UNCHANGED user
  BY <1>8 DEF Call, Begin, Login, RequestReset, ResendInvite, InviteUser, DeleteUser, UpdateUser, Refresh, ConfirmReset, Abort
<1>9. ASSUME NEW c \in Handlers, Continue(c) PROVE FailureLocks
  BY <1>1, <1>2, <1>3, <1>4, <1>5, <1>6, <1>9
     DEF Continue, IssueSession, CheckUser, Rotate, IssueLink, GetUser, Count
<1>10. ASSUME NEW t \in DOMAIN sessions, Logout(t) \/ ExpireSession(t) PROVE UNCHANGED user
  BY <1>10 DEF Logout, ExpireSession
<1>11. ASSUME NEW l \in DOMAIN links, ExpireLink(l) PROVE UNCHANGED user
  BY <1>11 DEF ExpireLink
<1>. QED  BY <1>1, <1>7, <1>8, <1>9, <1>10, <1>11 DEF Next, vars

-----------------------------------------------------------------------------
\* While requests do not overlap.

LEMMA IdleAlone == AloneOK(Idle) /\ AloneOK(Idle)'
  BY DEF AloneOK, Idle

Together ==
    /\ LocksMatch
    /\ \E u \in Users : ActiveAdmin(u)
    /\ LiveAreLast

\* A step of the only handler at work, or the first step of one.
LEMMA AloneStep ==
    ASSUME TypeInv, AloneInv, NEW c \in Handlers, NEW h, call' = [call EXCEPT ![c] = h], UNCHANGED careful,
           careful => \A d \in Handlers \ {c} : call[d] = Idle,
           careful => Together' /\ (AloneOK(h)' \/ h = Idle)
    PROVE  AloneInv'
<1>1. DOMAIN call = Handlers
  BY DEF TypeInv, TypeOK
<1> SUFFICES ASSUME careful PROVE AloneInv'
  BY DEF AloneInv
<1>2. call'[c] = h /\ \A d \in Handlers \ {c} : call'[d] = Idle
  BY <1>1
<1>3. OneAtATime'
  BY <1>2 DEF OneAtATime
<1>4. \A d \in Handlers : AloneOK(call[d])'
  <2>1. \A d \in Handlers \ {c} : AloneOK(call[d])'
    BY <1>2, IdleAlone DEF AloneOK
  <2>2. AloneOK(call[c])'
    BY <1>2, IdleAlone DEF AloneOK
  <2>. QED  BY <2>1, <2>2
<1>. QED  BY <1>3, <1>4 DEF AloneInv, Together

\* Nothing but the handler changes.
LEMMA HandlerAlone ==
    ASSUME TypeInv, AloneInv, NEW c \in Handlers, NEW h, call' = [call EXCEPT ![c] = h],
           UNCHANGED <<careful, user, sessions>>,
           careful => \A d \in Handlers \ {c} : call[d] = Idle,
           h = Idle \/ (UNCHANGED links /\ (careful => AloneOK(h)))
    PROVE  AloneInv'
<1>1. careful => Together'
  BY DEF AloneInv, Together, LocksMatch, ActiveAdmin, Exists, LiveAreLast, NoSuccessor
<1>2. careful /\ h # Idle => AloneOK(h)'
  BY DEF AloneOK, AsSeen, Exists, ActiveAdmin, Others, NoSuccessor
<1>. QED  BY <1>1, <1>2, AloneStep

LEMMA BegunAlone ==
    ASSUME TypeInv, AloneInv, NEW c \in Handlers, NEW h, Begin(c, h), careful => AloneOK(h)
    PROVE  AloneInv'
<1>1. /\ call' = [call EXCEPT ![c] = h] /\ UNCHANGED <<careful, user, sessions, links>>
      /\ careful => \A d \in Handlers \ {c} : call[d] = Idle
  BY DEF Begin
<1>. QED  BY <1>1, HandlerAlone

LEMMA OthersIdle ==
    ASSUME TypeInv, AloneInv, NEW c \in Handlers, call[c] # Idle, careful
    PROVE  /\ \A d \in Handlers \ {c} : call[d] = Idle
           /\ AloneOK(call[c]) /\ Together
  BY DEF AloneInv, OneAtATime, Together

LEMMA CallAlone ==
    ASSUME TypeInv, AloneInv, NEW c \in Handlers, Call(c)
    PROVE  AloneInv'
<1>0. /\ \A u \in Users : Exists(u) => user[u] \in Row
      /\ sessions \in Seq(Session) /\ links \in Seq(Link)
  BY DEF TypeInv, TypeOK, Exists
<1>1. ASSUME NEW u \in Users, Login(c, u) PROVE AloneInv'
  <2>1. PICK h : h = [pc |-> "verify", who |-> u, token |-> 0, arg |-> None, seen |-> user[u]]
    OBVIOUS
  <2>2. [Idle EXCEPT !.pc = "verify", !.who = u, !.seen = user[u]] = h
    BY <2>1, AskedSeen
  <2>3. Begin(c, h) /\ Exists(u)
    BY <1>1, <2>2 DEF Login
  <2>4. AloneOK(h)
    BY <2>1, <2>3 DEF AloneOK, AsSeen
  <2>. QED  BY <2>3, <2>4, BegunAlone
<1>2. ASSUME NEW u \in Users, RequestReset(c, u) \/ ResendInvite(c, u) PROVE AloneInv'
  <2>1. PICK h : h = [pc |-> "link", who |-> u, token |-> 0, arg |-> None, seen |-> None]
    OBVIOUS
  <2>2. [Idle EXCEPT !.pc = "link", !.who = u] = h
    BY <2>1, AskedFor
  <2>3. Begin(c, h)
    BY <1>2, <2>2 DEF RequestReset, ResendInvite
  <2>4. AloneOK(h)
    BY <2>1 DEF AloneOK
  <2>. QED  BY <2>3, <2>4, BegunAlone
<1>3. ASSUME NEW u \in Users, NEW role \in Roles, InviteUser(c, u, role) PROVE AloneInv'
  <2>1. PICK h : h = [pc |-> "invite", who |-> u, token |-> 0, arg |-> role, seen |-> None]
    OBVIOUS
  <2>2. [Idle EXCEPT !.pc = "invite", !.who = u, !.arg = role] = h
    BY <2>1, AskedArg
  <2>3. Begin(c, h)
    BY <1>3, <2>2 DEF InviteUser
  <2>4. AloneOK(h)
    BY <2>1 DEF AloneOK
  <2>. QED  BY <2>3, <2>4, BegunAlone
<1>4. ASSUME NEW u \in Users, NEW a \in Users, DeleteUser(c, a, u) PROVE AloneInv'
  <2>1. PICK pc : pc = IF user[u].role = "admin" /\ user[u].active THEN "count" ELSE "delete"
    OBVIOUS
  <2>2. PICK h : h = [pc |-> pc, who |-> u, token |-> 0, arg |-> None, seen |-> user[u]]
    OBVIOUS
  <2>3. [Idle EXCEPT !.pc = pc, !.who = u, !.seen = user[u]] = h
    BY <2>2, AskedSeen
  <2>4. Begin(c, h)
    BY <1>4, <2>1, <2>3 DEF DeleteUser
  <2>5. AloneOK(h)
    BY <2>1, <2>2 DEF AloneOK, ActiveAdmin
  <2>. QED  BY <2>4, <2>5, BegunAlone
<1>5. ASSUME NEW u \in Users, NEW a \in Users, NEW role \in Roles, NEW active \in BOOLEAN, UpdateUser(c, a, u, role, active)
      PROVE  AloneInv'
  <2>1. user[u] \in Row /\ Exists(u)
    BY <1>0, <1>5 DEF UpdateUser
  <2>2. PICK new : new = [user[u] EXCEPT !.role = role, !.active = active]
    OBVIOUS
  <2>3. new = [role |-> role, active |-> active, password |-> user[u].password,
               fails |-> user[u].fails, locked |-> user[u].locked] /\ new \in Row
    BY <2>1, <2>2, SetRow
  <2> DEFINE demotes == user[u].role = "admin" /\ role # "admin"
             deactivates == user[u].active /\ ~active
  <2>4. PICK pc : pc = IF demotes \/ (role = "admin" /\ deactivates) THEN "count" ELSE "update"
    OBVIOUS
  <2>5. PICK h : h = [pc |-> pc, who |-> u, token |-> 0, arg |-> new, seen |-> user[u]]
    OBVIOUS
  <2>6. [Idle EXCEPT !.pc = pc, !.who = u, !.arg = new, !.seen = user[u]] = h
    BY <2>5, AskedBoth
  <2>7. Begin(c, h)
    BY <1>5, <2>2, <2>4, <2>6 DEF UpdateUser
  <2>8. new.role = role /\ (new.active <=> active)
    BY <2>3
  <2>9. pc = "update" /\ ActiveAdmin(u) => new.role = "admin" /\ new.active
    BY <2>4, <2>8 DEF ActiveAdmin
  <2>10. pc \in {"count", "update"}
    BY <2>4
  <2>11. AloneOK(h)
    BY <2>1, <2>5, <2>9, <2>10 DEF AloneOK, AsSeen
  <2>. QED  BY <2>7, <2>11, BegunAlone
<1>6. ASSUME NEW t \in DOMAIN sessions, Refresh(c, t) PROVE AloneInv'
  <2>1. PICK h : h = [pc |-> "user", who |-> sessions[t].of, token |-> t, arg |-> None, seen |-> None]
    OBVIOUS
  <2>2. [Idle EXCEPT !.pc = "user", !.who = sessions[t].of, !.token = t] = h
    BY <2>1, AskedToken
  <2>3. Begin(c, h) /\ sessions[t].live
    BY <1>6, <2>2 DEF Refresh
  <2>4. careful => NoSuccessor(t)
    BY <2>3 DEF AloneInv, LiveAreLast
  <2>5. careful => AloneOK(h)
    BY <2>1, <2>4 DEF AloneOK
  <2>. QED  BY <2>3, <2>5, BegunAlone
<1>7. ASSUME NEW l \in DOMAIN links, ConfirmReset(c, l) PROVE AloneInv'
  <2>1. PICK h : h = [pc |-> "get", who |-> links[l].of, token |-> l, arg |-> None, seen |-> None]
    OBVIOUS
  <2>2. [Idle EXCEPT !.pc = "get", !.who = links[l].of, !.token = l] = h
    BY <2>1, AskedToken
  <2>3. Begin(c, h) /\ links[l].state = "open"
    BY <1>7, <2>2 DEF ConfirmReset
  <2>4. AloneOK(h)
    BY <2>1, <2>3 DEF AloneOK
  <2>. QED  BY <2>3, <2>4, BegunAlone
<1>. QED  BY <1>1, <1>2, <1>3, <1>4, <1>5, <1>6, <1>7 DEF Call

\* A handler changes one user, who keeps his lock in order, and an active admin is left.
LEMMA UserAlone ==
    ASSUME TypeInv, AloneInv, NEW c \in Handlers, call[c] # Idle, NEW h, call' = [call EXCEPT ![c] = h],
           UNCHANGED <<careful, sessions>>, NEW u \in Users, \A v \in Users \ {u} : user'[v] = user[v],
           user' \in [Users -> Row \cup {None, Gone}],
           careful /\ user'[u] \in Row => (user'[u].fails >= MaxAttempts <=> user'[u].locked # "none"),
           careful /\ ActiveAdmin(u) => ActiveAdmin(u)' \/ Others(u) # {},
           h = Idle \/ (careful => AloneOK(h)')
    PROVE  AloneInv'
<1>1. ASSUME careful PROVE Together'
  <2>1. LocksMatch'
    BY <1>1 DEF LocksMatch, AloneInv, Exists
  <2>2. (\E v \in Users : ActiveAdmin(v))'
    <3>1. PICK v \in Users : ActiveAdmin(v)
      BY <1>1 DEF AloneInv
    <3>2. \A w \in Users \ {u} : ActiveAdmin(w) => ActiveAdmin(w)'
      BY DEF ActiveAdmin, Exists
    <3>3. Others(u) # {} => \E w \in Users \ {u} : ActiveAdmin(w)
      BY DEF Others, ActiveAdmin
    <3>. QED  BY <1>1, <3>1, <3>2, <3>3
  <2>3. LiveAreLast'
    BY <1>1 DEF AloneInv, LiveAreLast, NoSuccessor
  <2>. QED  BY <2>1, <2>2, <2>3 DEF Together
<1>2. careful => \A d \in Handlers \ {c} : call[d] = Idle
  BY OthersIdle
<1>. QED  BY <1>1, <1>2, AloneStep

LEMMA VerifyAlone ==
    ASSUME TypeInv, AloneInv, NEW c \in Handlers, Verify(c)
    PROVE  AloneInv'
<1>1. call[c] # Idle /\ call[c].pc = "verify"
  BY AtWork DEF Verify
<1>2. call[c].who \in Users /\ call[c].seen \in Row /\ TypeOK
  BY <1>1, InHand DEF TypeInv
<1>3. UNCHANGED <<careful, sessions>> /\ (careful => \A d \in Handlers \ {c} : call[d] = Idle)
  BY <1>1, OthersIdle DEF Verify
<1>4. careful => AsSeen(call[c]) /\ LocksMatch
  BY <1>1, OthersIdle DEF AloneOK, Together
<1>5. PICK u \in Users : u = call[c].who
  BY <1>2
<1>6. PICK seen \in Row : seen = call[c].seen
  BY <1>2
<1>7. seen.fails \in Nat /\ MaxAttempts \in Nat \ {0}
  BY AccountsAssumption DEF Row
<1>8. careful => /\ user[u].fails = seen.fails /\ (user[u].locked = "none" <=> seen.locked = "none")
                 /\ (seen.fails >= MaxAttempts <=> seen.locked # "none")
  BY <1>4, <1>5, <1>6 DEF AsSeen, LocksMatch
<1>9. CASE Exists(u) /\ Write(c, Welcomed(seen)) /\ call' = [call EXCEPT ![c] = [Idle EXCEPT !.pc = "session", !.who = u]]
  <2>1. PICK h : h = [pc |-> "session", who |-> u, token |-> 0, arg |-> None, seen |-> None]
    OBVIOUS
  <2>2. call' = [call EXCEPT ![c] = h]
    BY <1>9, <2>1, AskedFor
  <2>3. PICK new \in Row : /\ new = Welcomed(seen) /\ new.fails = 0 /\ new.locked = "none"
                           /\ new.role = seen.role /\ new.active = seen.active
    BY WelcomedRow
  <2>4. /\ user' \in [Users -> Row \cup {None, Gone}] /\ \A v \in Users \ {u} : user'[v] = user[v]
        /\ user[u] \in Row /\ user'[u] \in Row /\ user'[u].role = user[u].role /\ user'[u].active = user[u].active
        /\ user'[u].fails = IF new.fails # seen.fails THEN new.fails ELSE user[u].fails
        /\ user'[u].locked = IF new.locked # seen.locked THEN new.locked ELSE user[u].locked
    BY <1>2, <1>5, <1>6, <1>9, <2>3, WriteEffect
  <2>5. careful => user'[u].fails = 0 /\ user'[u].locked = "none"
    BY <1>8, <2>3, <2>4
  <2>6. ActiveAdmin(u) => ActiveAdmin(u)'
    BY <2>4, AccountsAssumption DEF ActiveAdmin, Exists
  <2>7. careful => AloneOK(h)'
    BY <2>1 DEF AloneOK
  <2>8. careful /\ user'[u] \in Row => (user'[u].fails >= MaxAttempts <=> user'[u].locked # "none")
    BY <1>7, <2>5
  <2>9. careful /\ ActiveAdmin(u) => ActiveAdmin(u)' \/ Others(u) # {}
    BY <2>6
  <2>. QED  BY <1>1, <1>3, <2>2, <2>4, <2>7, <2>8, <2>9, UserAlone
<1>10. CASE Exists(u) /\ Write(c, Refused(seen)) /\ Ends(c)
  <2>1. PICK new \in Row : /\ new = Refused(seen) /\ new.fails = seen.fails + 1
                           /\ new.locked = IF seen.fails + 1 >= MaxAttempts THEN "future" ELSE seen.locked
                           /\ new.role = seen.role /\ new.active = seen.active
    BY RefusedRow
  <2>2. /\ user' \in [Users -> Row \cup {None, Gone}] /\ \A v \in Users \ {u} : user'[v] = user[v]
        /\ user[u] \in Row /\ user'[u] \in Row /\ user'[u].role = user[u].role /\ user'[u].active = user[u].active
        /\ user'[u].fails = IF new.fails # seen.fails THEN new.fails ELSE user[u].fails
        /\ user'[u].locked = IF new.locked # seen.locked THEN new.locked ELSE user[u].locked
    BY <1>2, <1>5, <1>6, <1>10, <2>1, WriteEffect
  <2>3. user'[u].fails = seen.fails + 1
    BY <1>7, <2>1, <2>2
  <2>4. CASE seen.fails + 1 >= MaxAttempts
    <3>1. new.locked = "future"
      BY <2>1, <2>4
    <3>2. careful => user'[u].locked # "none"
      BY <1>8, <2>2, <3>1
    <3>3. ActiveAdmin(u) => ActiveAdmin(u)'
      BY <2>2, AccountsAssumption DEF ActiveAdmin, Exists
    <3>. QED  BY <1>1, <1>3, <1>10, <2>2, <2>3, <2>4, <3>2, <3>3, UserAlone DEF Ends
  <2>5. CASE ~(seen.fails + 1 >= MaxAttempts)
    <3>1. new.locked = seen.locked /\ ~(seen.fails >= MaxAttempts)
      BY <1>7, <2>1, <2>5
    <3>2. careful => user'[u].locked = "none"
      BY <1>8, <2>2, <3>1
    <3>3. ActiveAdmin(u) => ActiveAdmin(u)'
      BY <2>2, AccountsAssumption DEF ActiveAdmin, Exists
    <3>. QED  BY <1>1, <1>3, <1>10, <2>2, <2>3, <2>5, <3>2, <3>3, UserAlone DEF Ends
  <2>. QED  BY <2>4, <2>5
<1>11. CASE UNCHANGED user /\ Ends(c)
  BY <1>3, <1>11, HandlerAlone DEF Ends
<1>. QED  BY <1>5, <1>6, <1>9, <1>10, <1>11 DEF Verify

LEMMA IssueSessionAlone ==
    ASSUME TypeInv, AloneInv, NEW c \in Handlers, IssueSession(c)
    PROVE  AloneInv'
<1>0. call' = [call EXCEPT ![c] = Idle] /\ UNCHANGED <<careful, user, links, calls>>
  BY DEF IssueSession, Ends
<1>1. call[c] # Idle /\ call[c].pc = "session"
  BY AtWork DEF IssueSession
<1>2. call[c].who \in Users /\ call[c].token \in 0..Len(sessions)
  BY <1>1, InHand, CalledOK DEF HandlerOK
<1>3. sessions \in Seq(Session) /\ \A t \in DOMAIN sessions : sessions[t].from < t /\ sessions[t] \in Session
  BY DEF TypeInv, TypeOK
<1>4. CASE Exists(call[c].who)
  <2> DEFINE s == [of |-> call[c].who, from |-> call[c].token, live |-> TRUE]
  <2>1. s.from = call[c].token
    OBVIOUS
  <2> HIDE DEF s
  <2>2. sessions' = Append(sessions, s)
    BY <1>4 DEF IssueSession, s
  <2>3. /\ \A t \in DOMAIN sessions' : sessions'[t] = IF t = Len(sessions) + 1 THEN s ELSE sessions[t]
        /\ DOMAIN sessions' = 1..(Len(sessions) + 1) /\ DOMAIN sessions = 1..Len(sessions) /\ Len(sessions) \in Nat
    BY <1>3, <2>2
  <2>4. ASSUME careful PROVE LiveAreLast'
    <3>1. call[c].token # 0 => NoSuccessor(call[c].token) /\ ~sessions[call[c].token].live
      BY <1>1, <2>4, OthersIdle DEF AloneOK
    <3> SUFFICES ASSUME NEW t \in DOMAIN sessions', sessions'[t].live, NEW m \in DOMAIN sessions' PROVE sessions'[m].from # t
      BY DEF LiveAreLast, NoSuccessor
    <3>2. sessions'[m].from < m
      <4>1. CASE m = Len(sessions) + 1
        <5>1. sessions'[m].from = call[c].token
          BY <2>1, <2>3, <4>1
        <5>. QED  BY <1>2, <2>3, <4>1, <5>1
      <4>2. CASE m # Len(sessions) + 1
        BY <1>3, <2>3, <4>2
      <4>. QED  BY <4>1, <4>2
    <3>3. m \in Nat /\ t \in Nat /\ sessions'[m].from \in Nat
      <4>1. \A k \in DOMAIN sessions : sessions[k].from \in Nat
        BY <1>3 DEF Session
      <4>. QED  BY <1>2, <2>1, <2>3, <4>1
    <3>4. CASE t = Len(sessions) + 1
      BY <2>3, <3>2, <3>3, <3>4
    <3>5. CASE t # Len(sessions) + 1
      <4>1. t \in DOMAIN sessions /\ sessions[t].live
        BY <2>3, <3>5
      <4>2. \A k \in DOMAIN sessions : sessions[k].from # t
        BY <2>4, <4>1 DEF AloneInv, LiveAreLast, NoSuccessor
      <4>3. call[c].token # t
        BY <2>3, <3>1, <4>1
      <4>. QED  BY <2>1, <2>3, <4>2, <4>3
    <3>. QED  BY <3>4, <3>5
  <2>5. careful => Together'
    BY <1>0, <2>4 DEF AloneInv, Together, LocksMatch, ActiveAdmin, Exists
  <2>. QED  BY <1>0, <1>1, <2>5, AloneStep, OthersIdle
<1>5. CASE ~Exists(call[c].who)
  <2>1. UNCHANGED sessions
    BY <1>5 DEF IssueSession
  <2>. QED  BY <1>0, <1>1, <2>1, HandlerAlone, OthersIdle
<1>. QED  BY <1>4, <1>5

LEMMA CheckUserAlone ==
    ASSUME TypeInv, AloneInv, NEW c \in Handlers, CheckUser(c)
    PROVE  AloneInv'
<1>1. call[c] # Idle /\ call[c].pc = "user"
  BY AtWork DEF CheckUser
<1>2. UNCHANGED <<careful, user, sessions, links>> /\ (careful => \A d \in Handlers \ {c} : call[d] = Idle)
  BY <1>1, OthersIdle DEF CheckUser
<1>3. CASE GoesTo(c, "rotate")
  <2>1. PICK h : h = [pc |-> "rotate", who |-> call[c].who, token |-> call[c].token, arg |-> call[c].arg,
                      seen |-> call[c].seen]
    OBVIOUS
  <2>2. call' = [call EXCEPT ![c] = h]
    BY <1>1, <1>3, <2>1, GoneOn
  <2>3. careful => AloneOK(h)
    BY <1>1, <2>1, OthersIdle DEF AloneOK
  <2>. QED  BY <1>2, <2>2, <2>3, HandlerAlone
<1>4. CASE Ends(c)
  BY <1>2, <1>4, HandlerAlone DEF Ends
<1>. QED  BY <1>3, <1>4 DEF CheckUser

\* One session ends.
LEMMA LiveLess ==
    ASSUME TypeInv, NEW t \in DOMAIN sessions, sessions' = [sessions EXCEPT ![t].live = FALSE]
    PROVE  /\ LiveAreLast => LiveAreLast'
           /\ \A n \in Nat : NoSuccessor(n) => NoSuccessor(n)'
           /\ ~sessions'[t].live
           /\ \A m \in DOMAIN sessions : sessions'[m].live => sessions[m].live
<1>1. DOMAIN sessions' = DOMAIN sessions /\ \A m \in DOMAIN sessions : sessions'[m].from = sessions[m].from
  BY Revoked
<1>2. ~sessions'[t].live /\ \A m \in DOMAIN sessions : sessions'[m].live => sessions[m].live
  BY Revoked, Zenon
<1>. QED  BY <1>1, <1>2 DEF LiveAreLast, NoSuccessor

LEMMA RotateAlone ==
    ASSUME TypeInv, AloneInv, NEW c \in Handlers, Rotate(c)
    PROVE  AloneInv'
<1>1. call[c] # Idle /\ call[c].pc = "rotate"
  BY AtWork DEF Rotate
<1>2. call[c].token \in DOMAIN sessions
  BY <1>1, CalledOK DEF HandlerOK
<1>3. sessions' = [sessions EXCEPT ![call[c].token].live = FALSE] /\ UNCHANGED <<careful, user, links, calls>>
  BY DEF Rotate, Revoke
<1>4. PICK t : t = call[c].token
  OBVIOUS
<1>8. t \in Nat \ {0}
  BY <1>2, <1>4 DEF TypeInv, TypeOK
<1>5. PICK h : h = [pc |-> "session", who |-> call[c].who, token |-> t, arg |-> call[c].arg, seen |-> call[c].seen]
  OBVIOUS
<1>6. call' = [call EXCEPT ![c] = h]
  BY <1>1, <1>4, <1>5, GoneOn DEF Rotate
<1>7. /\ LiveAreLast => LiveAreLast'
      /\ NoSuccessor(t) => NoSuccessor(t)'
      /\ ~sessions'[t].live
  BY <1>2, <1>3, <1>4, <1>8, LiveLess
<1>9. careful => NoSuccessor(t)
  BY <1>1, <1>4, <1>8, OthersIdle DEF AloneOK
<1>10. careful => AloneOK(h)'
  BY <1>5, <1>7, <1>9 DEF AloneOK
<1>11. careful => Together'
  BY <1>3, <1>7 DEF AloneInv, Together, LocksMatch, ActiveAdmin, Exists
<1>. QED  BY <1>1, <1>3, <1>6, <1>10, <1>11, AloneStep, OthersIdle

LEMMA InsertUserAlone ==
    ASSUME TypeInv, AloneInv, NEW c \in Handlers, InsertUser(c)
    PROVE  AloneInv'
<1>1. call[c] # Idle /\ call[c].pc = "invite"
  BY AtWork DEF InsertUser
<1>2. call[c].who \in Users /\ call[c].arg \in Roles /\ user \in [Users -> Row \cup {None, Gone}]
  BY <1>1, InHand DEF TypeInv, TypeOK
<1>3. PICK u \in Users : u = call[c].who
  BY <1>2
<1>4. CASE user[u] = None
  <2>1. PICK h : h = [pc |-> "link", who |-> u, token |-> 0, arg |-> None, seen |-> None]
    OBVIOUS
  <2>2. [Idle EXCEPT !.pc = "link", !.who = u] = h
    BY <2>1, AskedFor
  <2> DEFINE row == [role |-> call[c].arg, active |-> FALSE, password |-> FALSE, fails |-> 0, locked |-> "none"]
  <2>3. row \in Row /\ row.fails = 0 /\ row.locked = "none"
    BY <1>2 DEF Row
  <2> HIDE DEF row
  <2>4. user' = [user EXCEPT ![u] = row] /\ call' = [call EXCEPT ![c] = h] /\ UNCHANGED <<careful, sessions>>
    BY <1>3, <1>4, <2>2 DEF InsertUser, row
  <2>5. /\ user' \in [Users -> Row \cup {None, Gone}] /\ \A v \in Users \ {u} : user'[v] = user[v]
        /\ user'[u].fails = 0 /\ user'[u].locked = "none"
    BY <1>2, <2>3, <2>4
  <2>6. user'[u].fails >= MaxAttempts <=> user'[u].locked # "none"
    BY <2>5, AccountsAssumption
  <2>7. ~ActiveAdmin(u)
    BY <1>4 DEF ActiveAdmin, Exists
  <2>8. careful => AloneOK(h)'
    BY <2>1 DEF AloneOK
  <2>. QED  BY <1>1, <2>4, <2>5, <2>6, <2>7, <2>8, UserAlone
<1>5. CASE UNCHANGED user /\ Ends(c)
  BY <1>1, <1>5, HandlerAlone, OthersIdle DEF InsertUser, Ends
<1>. QED  BY <1>3, <1>4, <1>5 DEF InsertUser

LEMMA IssueLinkAlone ==
    ASSUME TypeInv, AloneInv, NEW c \in Handlers, IssueLink(c)
    PROVE  AloneInv'
<1>1. call[c] # Idle
  BY AtWork DEF IssueLink
<1>2. call' = [call EXCEPT ![c] = Idle] /\ UNCHANGED <<careful, user, sessions, calls>>
  BY DEF IssueLink, Ends
<1>. QED  BY <1>1, <1>2, HandlerAlone, OthersIdle

LEMMA GetUserAlone ==
    ASSUME TypeInv, AloneInv, NEW c \in Handlers, GetUser(c)
    PROVE  AloneInv'
<1>1. call[c] # Idle /\ call[c].pc = "get"
  BY AtWork DEF GetUser
<1>2. UNCHANGED <<careful, user, sessions, links>> /\ (careful => \A d \in Handlers \ {c} : call[d] = Idle)
  BY <1>1, OthersIdle DEF GetUser
<1>3. CASE Exists(call[c].who) /\ call' = [call EXCEPT ![c] = [@ EXCEPT !.pc = "confirm", !.seen = user[call[c].who]]]
  <2>1. PICK u, t, a, seen : call[c] = [pc |-> "get", who |-> u, token |-> t, arg |-> a, seen |-> seen]
    BY <1>1, InHand
  <2>2. PICK row : row = user[u]
    OBVIOUS
  <2>3. PICK h : h = [pc |-> "confirm", who |-> u, token |-> t, arg |-> a, seen |-> row]
    OBVIOUS
  <2> DEFINE y == [pc |-> "confirm", who |-> u, token |-> t, arg |-> a, seen |-> seen]
  <2>4. [call[c] EXCEPT !.pc = "confirm"] = y
    BY <2>1
  <2>5. [y EXCEPT !.seen = row] = h
    BY <2>3
  <2>6. call[c].who = u /\ call[c].token = t
    BY <2>1
  <2> HIDE DEF y
  <2>7. call' = [call EXCEPT ![c] = h]
    BY <1>3, <2>2, <2>4, <2>5, <2>6
  <2>8. careful => links[t].state # "used"
    BY <1>1, <2>6, OthersIdle DEF AloneOK
  <2>9. careful => AloneOK(h)
    BY <1>3, <2>2, <2>3, <2>6, <2>8 DEF AloneOK, AsSeen
  <2>. QED  BY <1>2, <2>7, <2>9, HandlerAlone
<1>4. CASE Ends(c)
  BY <1>2, <1>4, HandlerAlone DEF Ends
<1>. QED  BY <1>3, <1>4 DEF GetUser

LEMMA ConfirmAlone ==
    ASSUME TypeInv, AloneInv, NEW c \in Handlers, Confirm(c)
    PROVE  AloneInv'
<1>1. call[c] # Idle /\ call[c].pc = "confirm"
  BY AtWork DEF Confirm
<1>2. call[c].who \in Users /\ call[c].seen \in Row /\ TypeOK
  BY <1>1, InHand DEF TypeInv
<1>3. UNCHANGED <<careful, sessions>> /\ call' = [call EXCEPT ![c] = Idle]
  BY DEF Confirm, Ends
<1>4. PICK u \in Users : u = call[c].who
  BY <1>2
<1>5. PICK seen \in Row : seen = call[c].seen
  BY <1>2
<1>6. careful => /\ user[u].fails = seen.fails /\ (user[u].locked = "none" <=> seen.locked = "none")
                 /\ (seen.fails >= MaxAttempts <=> seen.locked # "none")
  <2>1. careful => AsSeen(call[c]) /\ LocksMatch
    BY <1>1, OthersIdle DEF AloneOK, Together
  <2>. QED  BY <1>4, <1>5, <2>1 DEF AsSeen, LocksMatch
<1>7. CASE Exists(u)
  <2>1. PICK new : new = [role |-> seen.role, active |-> TRUE, password |-> TRUE, fails |-> 0, locked |-> "none"]
    OBVIOUS
  <2>2. new \in Row
    BY <2>1 DEF Row
  <2>3. new.fails = 0 /\ new.locked = "none" /\ new.role = seen.role /\ new.active
    BY <2>1
  <2>4. Write(c, new)
    <3>1. new = [Welcomed(seen) EXCEPT !.password = TRUE, !.active = TRUE]
      BY <2>1, ConfirmedRow, Zenon
    <3>2. Write(c, [Welcomed(seen) EXCEPT !.password = TRUE, !.active = TRUE])
      BY <1>4, <1>5, <1>7 DEF Confirm
    <3>. QED  BY <3>1, <3>2
  <2>5. /\ user' \in [Users -> Row \cup {None, Gone}] /\ \A v \in Users \ {u} : user'[v] = user[v]
        /\ user[u] \in Row /\ user'[u] \in Row
        /\ user'[u].role = IF new.role # seen.role THEN new.role ELSE user[u].role
        /\ user'[u].active = IF new.active # seen.active THEN new.active ELSE user[u].active
        /\ user'[u].fails = IF new.fails # seen.fails THEN new.fails ELSE user[u].fails
        /\ user'[u].locked = IF new.locked # seen.locked THEN new.locked ELSE user[u].locked
    BY <1>2, <1>4, <1>5, <1>7, <2>2, <2>4, WriteEffect
  <2>6. careful => user'[u].fails = 0 /\ user'[u].locked = "none"
    BY <1>6, <2>3, <2>5
  <2>7. user'[u].role = user[u].role /\ (user[u].active => user'[u].active)
    BY <2>3, <2>5
  <2>8. ActiveAdmin(u) => ActiveAdmin(u)'
    BY <2>5, <2>7, AccountsAssumption DEF ActiveAdmin, Exists
  <2>9. careful /\ user'[u] \in Row => (user'[u].fails >= MaxAttempts <=> user'[u].locked # "none")
    BY <2>6, AccountsAssumption
  <2>. QED  BY <1>1, <1>3, <2>5, <2>8, <2>9, UserAlone
<1>8. CASE ~Exists(u)
  <2>1. UNCHANGED user
    BY <1>4, <1>8 DEF Confirm
  <2>. QED  BY <1>1, <1>3, <2>1, HandlerAlone, OthersIdle
<1>. QED  BY <1>7, <1>8

LEMMA CountAlone ==
    ASSUME TypeInv, AloneInv, NEW c \in Handlers, Count(c)
    PROVE  AloneInv'
<1>1. call[c] # Idle /\ call[c].pc = "count"
  BY AtWork DEF Count
<1>2. UNCHANGED <<careful, user, sessions, links>> /\ (careful => \A d \in Handlers \ {c} : call[d] = Idle)
  BY <1>1, OthersIdle DEF Count
<1>3. CASE Ends(c)
  BY <1>2, <1>3, HandlerAlone DEF Ends
<1>4. CASE Others(call[c].who) # {} /\ GoesTo(c, IF call[c].arg = None THEN "delete" ELSE "update")
  <2>1. PICK pc : pc = IF call[c].arg = None THEN "delete" ELSE "update"
    OBVIOUS
  <2>2. PICK h : h = [pc |-> pc, who |-> call[c].who, token |-> call[c].token, arg |-> call[c].arg, seen |-> call[c].seen]
    OBVIOUS
  <2>3. call' = [call EXCEPT ![c] = h]
    BY <1>1, <1>4, <2>1, <2>2, GoneOn
  <2>4. careful => (call[c].arg # None => AsSeen(call[c]))
    BY <1>1, OthersIdle DEF AloneOK
  <2>5. careful => AloneOK(h)
    BY <1>4, <2>1, <2>2, <2>4 DEF AloneOK, AsSeen
  <2>. QED  BY <1>2, <2>3, <2>5, HandlerAlone
<1>. QED  BY <1>3, <1>4 DEF Count

LEMMA UpdateAlone ==
    ASSUME TypeInv, AloneInv, NEW c \in Handlers, Update(c)
    PROVE  AloneInv'
<1>1. call[c] # Idle /\ call[c].pc = "update"
  BY AtWork DEF Update
<1>2. call[c].who \in Users /\ call[c].seen \in Row /\ call[c].arg \in Row /\ call[c].arg # None /\ TypeOK
  BY <1>1, InHand, AccountsAssumption DEF TypeInv
<1>3. UNCHANGED <<careful, sessions, links>> /\ call' = [call EXCEPT ![c] = Idle]
  BY DEF Update, Ends
<1>4. PICK u \in Users : u = call[c].who
  BY <1>2
<1>5. PICK seen \in Row : seen = call[c].seen
  BY <1>2
<1>6. PICK new \in Row : new = call[c].arg
  BY <1>2
<1>7. new.fails = seen.fails /\ new.locked = seen.locked
  BY <1>1, <1>2, <1>5, <1>6, CalledOK DEF ChangeOK
<1>8. CASE Exists(u)
  <2>1. Write(c, new)
    BY <1>4, <1>6, <1>8 DEF Update
  <2>2. /\ user' \in [Users -> Row \cup {None, Gone}] /\ \A v \in Users \ {u} : user'[v] = user[v]
        /\ user[u] \in Row /\ user'[u] \in Row
        /\ user'[u].role = IF new.role # seen.role THEN new.role ELSE user[u].role
        /\ user'[u].active = IF new.active # seen.active THEN new.active ELSE user[u].active
        /\ user'[u].fails = IF new.fails # seen.fails THEN new.fails ELSE user[u].fails
        /\ user'[u].locked = IF new.locked # seen.locked THEN new.locked ELSE user[u].locked
    BY <1>2, <1>4, <1>5, <1>8, <2>1, WriteEffect
  <2>3. user'[u].fails = user[u].fails /\ user'[u].locked = user[u].locked
    BY <1>7, <2>2
  <2>4. careful /\ user'[u] \in Row => (user'[u].fails >= MaxAttempts <=> user'[u].locked # "none")
    BY <1>8, <2>3 DEF AloneInv, LocksMatch
  <2>5. careful => /\ user[u].role = seen.role /\ user[u].active = seen.active
                   /\ ActiveAdmin(u) /\ ~(new.role = "admin" /\ new.active) => Others(u) # {}
    BY <1>1, <1>2, <1>4, <1>5, <1>6, OthersIdle DEF AloneOK, AsSeen
  <2>6. careful => user'[u].role = new.role /\ user'[u].active = new.active
    BY <2>2, <2>5
  <2>7. careful /\ ActiveAdmin(u) => ActiveAdmin(u)' \/ Others(u) # {}
    BY <2>2, <2>5, <2>6, AccountsAssumption DEF ActiveAdmin, Exists
  <2>. QED  BY <1>1, <1>3, <2>2, <2>4, <2>7, UserAlone
<1>9. CASE ~Exists(u)
  <2>1. UNCHANGED user
    BY <1>4, <1>9 DEF Update
  <2>. QED  BY <1>1, <1>3, <2>1, HandlerAlone, OthersIdle
<1>. QED  BY <1>8, <1>9

LEMMA DeleteAlone ==
    ASSUME TypeInv, AloneInv, NEW c \in Handlers, Delete(c)
    PROVE  AloneInv'
<1>1. call[c] # Idle /\ call[c].pc = "delete" /\ call[c].who \in Users
  BY AtWork, InHand DEF Delete
<1>2. UNCHANGED careful /\ call' = [call EXCEPT ![c] = Idle] /\ user' = [user EXCEPT ![call[c].who] = Gone]
  BY DEF Delete, Ends
<1>3. PICK u \in Users : u = call[c].who
  BY <1>1
<1>4. user'[u] = Gone /\ \A v \in Users \ {u} : user'[v] = user[v]
  BY <1>2, <1>3 DEF TypeInv, TypeOK
<1>5. DOMAIN sessions' = DOMAIN sessions
      /\ \A t \in DOMAIN sessions : sessions'[t].from = sessions[t].from /\ (sessions'[t].live => sessions[t].live)
  <2>1. sessions \in Seq(Session)
    BY DEF TypeInv, TypeOK
  <2>2. sessions' = SessionsLeft(sessions, call[c].who)
    BY DEF Delete, SessionsLeft
  <2>. QED  BY <2>1, <2>2, SessionsOver
<1>6. ASSUME careful PROVE Together'
  <2>1. LocksMatch'
    BY <1>4, <1>6 DEF LocksMatch, AloneInv, Exists
  <2>2. LiveAreLast'
    BY <1>5, <1>6 DEF AloneInv, LiveAreLast, NoSuccessor
  <2>3. \E v \in Users \ {u} : ActiveAdmin(v)
    <3>1. PICK v \in Users : ActiveAdmin(v)
      BY <1>6 DEF AloneInv
    <3>2. ActiveAdmin(u) => Others(u) # {}
      BY <1>1, <1>3, <1>6, OthersIdle DEF AloneOK
    <3>. QED  BY <3>1, <3>2 DEF Others, ActiveAdmin
  <2>4. (\E v \in Users : ActiveAdmin(v))'
    BY <1>4, <2>3 DEF ActiveAdmin, Exists
  <2>. QED  BY <2>1, <2>2, <2>4 DEF Together
<1>7. careful => \A d \in Handlers \ {c} : call[d] = Idle
  BY <1>1, OthersIdle
<1>. QED  BY <1>2, <1>6, <1>7, AloneStep

LEMMA LogoutAlone ==
    ASSUME TypeInv, AloneInv, NEW t \in DOMAIN sessions, Logout(t)
    PROVE  AloneInv'
<1>1. /\ sessions' = [sessions EXCEPT ![t].live = FALSE] /\ UNCHANGED <<careful, user, links, call>>
      /\ careful => \A d \in Handlers : call[d] = Idle
  BY DEF Logout, Revoke
<1>2. LiveAreLast => LiveAreLast'
  BY <1>1, LiveLess
<1> SUFFICES ASSUME careful PROVE AloneInv'
  BY <1>1 DEF AloneInv
<1>3. Together'
  BY <1>1, <1>2 DEF AloneInv, Together, LocksMatch, ActiveAdmin, Exists
<1>4. \A d \in Handlers : AloneOK(call[d])'
  BY <1>1, IdleAlone DEF AloneOK
<1>5. OneAtATime'
  BY <1>1 DEF OneAtATime, AloneInv
<1>. QED  BY <1>3, <1>4, <1>5 DEF AloneInv, Together

LEMMA ExpireSessionAlone ==
    ASSUME TypeInv, AloneInv, NEW t \in DOMAIN sessions, ExpireSession(t)
    PROVE  AloneInv'
<1>1. sessions' = [sessions EXCEPT ![t].live = FALSE] /\ UNCHANGED <<careful, user, links, call>>
  BY DEF ExpireSession
<1>2. /\ LiveAreLast => LiveAreLast'
      /\ \A n \in Nat : NoSuccessor(n) => NoSuccessor(n)'
      /\ \A m \in DOMAIN sessions : sessions'[m].live => sessions[m].live
  BY <1>1, LiveLess
<1> SUFFICES ASSUME careful PROVE AloneInv'
  BY <1>1 DEF AloneInv
<1>3. Together'
  BY <1>1, <1>2 DEF AloneInv, Together, LocksMatch, ActiveAdmin, Exists
<1>4. ASSUME NEW d \in Handlers PROVE AloneOK(call[d])'
  <2>1. PICK h : h = call[d]
    OBVIOUS
  <2>2. AloneOK(h) /\ call'[d] = h
    BY <1>1, <2>1 DEF AloneInv
  <2>3. h = Idle \/ h.token \in Nat
    BY <2>1, InHand
  <2>4. h.pc = "session" /\ h.token # 0 => h.token \in DOMAIN sessions
    <3>1. h.pc = "session" => h.token \in 0..Len(sessions)
      BY <2>1, CalledOK DEF HandlerOK
    <3>2. sessions \in Seq(Session)
      BY DEF TypeInv, TypeOK
    <3>. QED  BY <3>1, <3>2
  <2>5. CASE h = Idle
    BY <2>2, <2>5, IdleAlone DEF AloneOK
  <2>6. CASE h # Idle
    <3>1. h.pc \in {"user", "rotate", "session"} /\ h.token # 0 => NoSuccessor(h.token)'
      BY <1>2, <2>2, <2>3, <2>6 DEF AloneOK
    <3>2. h.pc = "session" /\ h.token # 0 => ~sessions'[h.token].live
      BY <1>2, <2>2, <2>4 DEF AloneOK
    <3>. QED  BY <1>1, <2>2, <3>1, <3>2 DEF AloneOK, AsSeen, Exists, ActiveAdmin, Others
  <2>. QED  BY <2>5, <2>6
<1>5. OneAtATime'
  BY <1>1 DEF OneAtATime, AloneInv
<1>. QED  BY <1>3, <1>4, <1>5 DEF AloneInv, Together

LEMMA ExpireLinkAlone ==
    ASSUME TypeInv, AloneInv, NEW l \in DOMAIN links, ExpireLink(l)
    PROVE  AloneInv'
<1>1. links' = [links EXCEPT ![l].state = "expired"] /\ UNCHANGED <<careful, user, sessions, call>>
  BY DEF ExpireLink
<1>2. \A m \in DOMAIN links : links'[m].state = "used" => links[m].state = "used"
  <2> DEFINE n == [links EXCEPT ![l].state = "expired"]
  <2>1. links \in Seq(Link) /\ l \in DOMAIN links
    BY DEF TypeInv, TypeOK
  <2>2. \A m \in DOMAIN links : n[m].state = IF m = l THEN "expired" ELSE links[m].state
    BY <2>1, LinkMarked
  <2>3. links' = n
    BY <1>1
  <2> HIDE DEF n
  <2>. QED  BY <2>2, <2>3
<1> SUFFICES ASSUME careful PROVE AloneInv'
  BY <1>1 DEF AloneInv
<1>3. Together'
  BY <1>1 DEF AloneInv, Together, LocksMatch, ActiveAdmin, Exists, LiveAreLast, NoSuccessor
<1>4. ASSUME NEW d \in Handlers PROVE AloneOK(call[d])'
  <2>1. PICK h : h = call[d]
    OBVIOUS
  <2>2. AloneOK(h) /\ call'[d] = h
    BY <1>1, <2>1 DEF AloneInv
  <2>3. h.pc \in {"get", "confirm"} => h.token \in DOMAIN links
    BY <2>1, CalledOK DEF HandlerOK
  <2>4. h.pc \in {"get", "confirm"} => links'[h.token].state # "used"
    BY <1>2, <2>2, <2>3 DEF AloneOK
  <2>. QED  BY <1>1, <2>2, <2>4 DEF AloneOK, AsSeen, Exists, ActiveAdmin, Others, NoSuccessor
<1>5. OneAtATime'
  BY <1>1 DEF OneAtATime, AloneInv
<1>. QED  BY <1>3, <1>4, <1>5 DEF AloneInv, Together

LEMMA UnlockAlone ==
    ASSUME TypeInv, AloneInv, NEW u \in Users, Unlock(u)
    PROVE  AloneInv'
<1>1. UNCHANGED <<careful, sessions, links, call>> /\ Exists(u)
  BY DEF Unlock
<1>2. /\ \A v \in Users \ {u} : user'[v] = user[v]
      /\ user[u] \in Row /\ user'[u] \in Row
      /\ user'[u].role = user[u].role /\ user'[u].active = user[u].active /\ user'[u].fails = user[u].fails
      /\ user[u].locked = "future" /\ user'[u].locked = "past"
  BY UnlockEffect
<1>3. Exists(u)'
  BY <1>2, AccountsAssumption DEF Exists
<1>4. \A v \in Users : (Exists(v) <=> Exists(v)')
  BY <1>1, <1>2, <1>3 DEF Exists
<1>5. \A v \in Users : (ActiveAdmin(v) <=> ActiveAdmin(v)')
  BY <1>1, <1>2, <1>3, <1>4 DEF ActiveAdmin, Exists
<1>6. \A v \in Users : Others(v) # {} => Others(v)' # {}
  BY <1>5 DEF Others, ActiveAdmin
<1>7. \A v \in Users : Exists(v) => /\ user'[v].role = user[v].role /\ user'[v].active = user[v].active
                                    /\ user'[v].fails = user[v].fails
                                    /\ user'[v].locked = "none" <=> user[v].locked = "none"
  BY <1>2
<1> SUFFICES ASSUME careful PROVE AloneInv'
  BY <1>1 DEF AloneInv
<1>8. Together'
  <2>1. LocksMatch'
    BY <1>4, <1>7 DEF AloneInv, LocksMatch
  <2>2. (\E v \in Users : ActiveAdmin(v))'
    BY <1>5 DEF AloneInv
  <2>3. LiveAreLast'
    BY <1>1 DEF AloneInv, LiveAreLast, NoSuccessor
  <2>. QED  BY <2>1, <2>2, <2>3 DEF Together
<1>9. ASSUME NEW d \in Handlers PROVE AloneOK(call[d])'
  <2>1. PICK h : h = call[d]
    OBVIOUS
  <2>2. AloneOK(h) /\ call'[d] = h
    BY <1>1, <2>1 DEF AloneInv
  <2>3. h.pc # "idle" => h.who \in Users
    <3>1. h.pc # "idle" => h # Idle
      BY DEF Idle
    <3>. QED  BY <2>1, <3>1, InHand
  <2>4. h.pc # "idle" /\ AsSeen(h) => AsSeen(h)'
    BY <1>4, <1>7, <2>3 DEF AsSeen
  <2>5. h.pc \in {"update", "delete"} => /\ ActiveAdmin(h.who)' => ActiveAdmin(h.who)
                                         /\ Others(h.who) # {} => Others(h.who)' # {}
    BY <1>5, <1>6, <2>3
  <2>. QED  BY <1>1, <2>2, <2>4, <2>5 DEF AloneOK, NoSuccessor
<1>10. OneAtATime'
  BY <1>1 DEF OneAtATime, AloneInv
<1>. QED  BY <1>8, <1>9, <1>10 DEF AloneInv, Together

LEMMA InitAloneInv == Init => AloneInv
<1> SUFFICES ASSUME Init PROVE AloneInv
  OBVIOUS
<1>1. OneAtATime /\ \A c \in Handlers : AloneOK(call[c])
  BY IdleAlone DEF Init, OneAtATime
<1>2. LocksMatch /\ \E u \in Users : ActiveAdmin(u)
  <2>1. user \in FirstUsers
    BY DEF Init
  <2>2. PICK u \in Users : user[u] # None /\ user[u].role = "admin" /\ user[u].active
    BY <2>1, AccountsAssumption
  <2>3. user \in [Users -> Row \cup {None}]
    BY <2>1, AccountsAssumption
  <2>4. \A v \in Users : Exists(v) <=> user[v] # None
    BY <2>3, AccountsAssumption DEF Exists
  <2>. QED  BY <2>1, <2>2, <2>4, AccountsAssumption DEF LocksMatch, ActiveAdmin
<1>3. LiveAreLast
  <2>1. PICK s : sessions = <<s>> /\ s.from = 0
    BY DEF Init
  <2>2. DOMAIN sessions = {1} /\ sessions[1] = s
    BY <2>1
  <2>. QED  BY <2>1, <2>2 DEF LiveAreLast, NoSuccessor
<1>. QED  BY <1>1, <1>2, <1>3 DEF AloneInv

LEMMA NextAloneInv == TypeInv /\ AloneInv /\ [Next]_vars => AloneInv'
<1> SUFFICES ASSUME TypeInv, AloneInv, [Next]_vars PROVE AloneInv'
  OBVIOUS
<1>1. ASSUME NEW c \in Handlers, Continue(c) PROVE AloneInv'
  BY <1>1, VerifyAlone, IssueSessionAlone, CheckUserAlone, RotateAlone, InsertUserAlone, IssueLinkAlone,
     GetUserAlone, ConfirmAlone, CountAlone, UpdateAlone, DeleteAlone DEF Continue
<1>2. ASSUME NEW c \in Handlers, Abort(c) PROVE AloneInv'
  BY <1>2, HandlerAlone, OthersIdle DEF Abort, Ends
<1>3. CASE UNCHANGED vars
  BY <1>3 DEF vars, AloneInv, OneAtATime, LocksMatch, ActiveAdmin, Exists, LiveAreLast, NoSuccessor, AloneOK, AsSeen, Others
<1>. QED  BY <1>1, <1>2, <1>3, CallAlone, LogoutAlone, ExpireSessionAlone, ExpireLinkAlone, UnlockAlone DEF Next

LEMMA BothInv == Spec => [](TypeInv /\ AloneInv)
<1>1. Init => TypeInv /\ AloneInv
  BY InitTypeInv, InitAloneInv
<1>2. TypeInv /\ AloneInv /\ [Next]_vars => (TypeInv /\ AloneInv)'
  BY NextTypeInv, NextAloneInv
<1>. QED  BY <1>1, <1>2, PTL DEF Spec

\* "At least one active admin is required" is kept by update_user() and delete_user()
\* if requests do not overlap: what they counted still is so when they commit.
THEOREM AnAdminRemains == Spec => []AdminRemains
<1>1. AloneInv => AdminRemains
  BY DEF AloneInv, AdminRemains, ActiveAdmin
<1>. QED  BY <1>1, BothInv, PTL

\* The columns of a lock agree if requests do not overlap, and login() locks the account
\* at the failure that reaches LOGIN_MAX_FAILED_ATTEMPTS, whether they do or not.
THEOREM LocksAreRight == Spec => LockMatchesCount
<1>1. AloneInv => (careful => \A u \in Users : Exists(u) => (user[u].fails >= MaxAttempts <=> user[u].locked # "none"))
  BY DEF AloneInv, LocksMatch
<1>2. TypeInv /\ [Next]_vars =>
        [\A u \in Users :
           (Exists(u) /\ user'[u] \in Row /\ user'[u].fails > user[u].fails /\ user'[u].fails >= MaxAttempts)
              => user'[u].locked = "future"]_vars
  BY LockStep DEF FailureLocks
<1>. QED  BY <1>1, <1>2, BothInv, PTL DEF Spec, LockMatchesCount

\* Only _issue_refresh_token() adds to the sessions.
LEMMA NewSession ==
    ASSUME TypeInv, AloneInv, careful, [Next]_vars, NEW t \in DOMAIN sessions, NEW n \in DOMAIN sessions',
           n > Len(sessions), sessions'[n].from = t
    PROVE  NoSuccessor(t)
<1>1. sessions \in Seq(Session) /\ DOMAIN sessions = 1..Len(sessions) /\ Len(sessions) \in Nat
  BY DEF TypeInv, TypeOK
<1>2. n \notin DOMAIN sessions
  BY <1>1
<1>3. ASSUME NEW c \in Handlers, IssueSession(c) PROVE NoSuccessor(t)
  <2>1. call[c] # Idle /\ call[c].pc = "session"
    BY <1>3, AtWork DEF IssueSession
  <2>2. sessions' = Append(sessions, [of |-> call[c].who, from |-> call[c].token, live |-> TRUE])
    BY <1>2, <1>3 DEF IssueSession
  <2> DEFINE s == [of |-> call[c].who, from |-> call[c].token, live |-> TRUE]
  <2>3. s.from = call[c].token
    OBVIOUS
  <2> HIDE DEF s
  <2>4. sessions' = Append(sessions, s)
    BY <2>2 DEF s
  <2>5. sessions'[n] = s
    BY <1>1, <1>2, <2>4
  <2>6. call[c].token = t /\ t # 0
    BY <1>1, <2>3, <2>5
  <2>. QED  BY <2>1, <2>6, OthersIdle DEF AloneOK
<1>4. ASSUME NEW m \in DOMAIN sessions, sessions' = [sessions EXCEPT ![m].live = FALSE] PROVE FALSE
  <2>1. DOMAIN sessions' = DOMAIN sessions
    BY <1>4, Revoked
  <2>. QED  BY <1>2, <2>1
<1>5. ASSUME NEW c \in Handlers, Rotate(c) PROVE FALSE
  <2>1. call[c].token \in DOMAIN sessions
    BY <1>5, AtWork, CalledOK DEF Rotate, HandlerOK
  <2>. QED  BY <1>4, <1>5, <2>1 DEF Rotate, Revoke
<1>6. ASSUME NEW c \in Handlers, Delete(c) PROVE FALSE
  <2>1. sessions' = SessionsLeft(sessions, call[c].who)
    BY <1>6 DEF Delete, SessionsLeft
  <2>2. DOMAIN sessions' = DOMAIN sessions
    BY <1>1, <2>1, SessionsOver
  <2>. QED  BY <1>2, <2>2
<1>7. ASSUME NEW c \in Handlers, Call(c) \/ Abort(c) PROVE UNCHANGED sessions
  BY <1>7 DEF Call, Begin, Login, RequestReset, ResendInvite, InviteUser, DeleteUser, UpdateUser, Refresh, ConfirmReset, Abort
<1>8. ASSUME NEW c \in Handlers, Continue(c) PROVE NoSuccessor(t)
  BY <1>2, <1>3, <1>5, <1>6, <1>8
     DEF Continue, Verify, CheckUser, InsertUser, IssueLink, GetUser, Confirm, Count, Update
<1>9. ASSUME NEW m \in DOMAIN sessions, Logout(m) \/ ExpireSession(m) PROVE FALSE
  BY <1>4, <1>9 DEF Logout, Revoke, ExpireSession
<1>10. ASSUME NEW l \in DOMAIN links, ExpireLink(l) PROVE UNCHANGED sessions
  BY <1>10 DEF ExpireLink
<1>11. ASSUME NEW u \in Users, Unlock(u) PROVE UNCHANGED sessions
  BY <1>11 DEF Unlock
<1>12. CASE UNCHANGED sessions
  BY <1>2, <1>12
<1>. QED  BY <1>7, <1>8, <1>9, <1>10, <1>11, <1>12 DEF Next, vars

\* Refresh tokens and links are for one use if requests do not overlap: refresh() rotates
\* a session that has no successor yet, and confirm_password_reset() sets a password by
\* a link that has set none.
THEOREM TokensUsedOnce == Spec => UsedOnce
<1>1. TypeInv /\ AloneInv /\ [Next]_vars =>
        [careful =>
          /\ \A t \in DOMAIN sessions, n \in DOMAIN sessions' :
                (n > Len(sessions) /\ sessions'[n].from = t) =>
                    \A m \in DOMAIN sessions : sessions[m].from # t
          /\ \A c \in Handlers : (At(c, "confirm") /\ user' # user) => links[call[c].token].state # "used"]_vars
  <2> SUFFICES ASSUME TypeInv, AloneInv, [Next]_vars, careful
               PROVE  /\ \A t \in DOMAIN sessions, n \in DOMAIN sessions' :
                            (n > Len(sessions) /\ sessions'[n].from = t) =>
                                \A m \in DOMAIN sessions : sessions[m].from # t
                      /\ \A c \in Handlers :
                            (At(c, "confirm") /\ user' # user) => links[call[c].token].state # "used"
    OBVIOUS
  <2>1. ASSUME NEW t \in DOMAIN sessions, NEW n \in DOMAIN sessions', n > Len(sessions), sessions'[n].from = t
        PROVE  \A m \in DOMAIN sessions : sessions[m].from # t
    BY <2>1, NewSession DEF NoSuccessor
  <2>2. ASSUME NEW c \in Handlers, At(c, "confirm") PROVE links[call[c].token].state # "used"
    BY <2>2, AtWork, OthersIdle DEF AloneOK
  <2>. QED  BY <2>1, <2>2
<1>. QED  BY <1>1, BothInv, PTL DEF Spec, UsedOnce
=============================================================================
