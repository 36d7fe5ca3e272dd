------------------------------ MODULE Accounts ------------------------------
(***************************************************************************)
(* Users, their sessions and the links mailed to them: api/routes/auth.py  *)
(* and api/routes/admin_users.py.  A handler reads, awaits the database,   *)
(* and commits the columns it changed; only the commits are atomic, and a  *)
(* process may end between two of them.  Passwords, hashes and mails are   *)
(* abstracted, so change_password() and a mail that fails change nothing   *)
(* here.  PostgreSQL and the time at which things expire are external.     *)
(***************************************************************************)
EXTENDS Naturals, Sequences, FiniteSets

CONSTANTS
    Users,        \* by user_id; one that is deleted does not come back
    Callers,      \* users who hold an access token with the role admin
    Handlers,     \* requests that may be under way at the same time
    MaxCalls,     \* bounds the requests
    MaxAttempts,  \* LOGIN_MAX_FAILED_ATTEMPTS
    FirstUsers,   \* bound: the tables of users to begin with
    None, Gone

Roles == {"admin", "operator"}

\* locked_until: none, over or still to come.
Row == [role : Roles, active : BOOLEAN, password : BOOLEAN, fails : Nat, locked : {"none", "past", "future"}]

\* A row with an active administrator is there before anybody can ask for one.
ASSUME AccountsAssumption ==
    /\ Callers \subseteq Users
    /\ MaxCalls \in Nat /\ MaxAttempts \in Nat \ {0}
    /\ {None, Gone} \cap Row = {} /\ None # Gone
    /\ \A table \in FirstUsers :
          /\ table \in [Users -> Row \cup {None}]
          /\ \E u \in Users : table[u] # None /\ table[u].role = "admin" /\ table[u].active
          /\ \A u \in Users : table[u] # None => (table[u].fails >= MaxAttempts <=> table[u].locked # "none")

VARIABLES
    careful,   \* whether requests come one at a time; never changes
    user,      \* user -> [role, active, password, fails, locked], None or Gone
    sessions,  \* refresh tokens: [of, from, live], from the token it replaced
    links,     \* invitation and reset links: [of, state]
    call,      \* handler -> [pc, who, token, arg, seen], see Idle
    calls      \* requests so far

vars == <<careful, user, sessions, links, call, calls>>

\* What a handler holds: the user and the token it is about, an argument, and the
\* row it loaded.
Idle == [pc |-> "idle", who |-> None, token |-> 0, arg |-> None, seen |-> None]

Session == [of : Users, from : Nat, live : BOOLEAN]

Link == [of : Users, state : {"open", "expired", "used"}]

Pcs == {"idle", "verify", "session", "user", "rotate", "link", "invite", "get", "confirm", "count",
        "update", "delete"}

Args(pc) ==
    CASE pc = "invite" -> Roles
      [] pc = "update" -> Row
      [] pc = "count"  -> Row \cup {None}
      [] OTHER         -> {None}

Held(pc) == [pc : {pc}, who : Users, token : Nat, arg : Args(pc), seen : Row \cup {None}]

HandlerOK(h) ==
    /\ h.pc \in Pcs
    /\ IF h.pc = "idle" THEN h = Idle ELSE h \in Held(h.pc)
    /\ h.pc \in {"verify", "confirm", "count", "update"} => h.seen \in Row
    /\ h.pc \in {"user", "rotate"} => h.token \in DOMAIN sessions
    /\ h.pc = "session" => h.token \in 0..Len(sessions)
    /\ h.pc \in {"get", "confirm"} => h.token \in DOMAIN links

TypeOK ==
    /\ careful \in BOOLEAN
    /\ user \in [Users -> Row \cup {None, Gone}]
    /\ sessions \in Seq(Session) /\ links \in Seq(Link)
    /\ \A t \in DOMAIN sessions : sessions[t].from < t /\ user[sessions[t].of] # None
    /\ \A l \in DOMAIN links : user[links[l].of] # None
    /\ DOMAIN call = Handlers /\ \A c \in Handlers : HandlerOK(call[c])
    /\ calls \in 0..MaxCalls

Exists(u) == user[u] \notin {None, Gone}

\* A user with a password has a session, and a link has been sent.
Init ==
    /\ careful \in BOOLEAN
    /\ user \in FirstUsers
    /\ \E u \in {v \in Users : Exists(v)} : links = <<[of |-> u, state |-> "open"]>>
    /\ \E u \in {v \in Users : Exists(v)} :
          user[u].password /\ sessions = <<[of |-> u, from |-> 0, live |-> TRUE]>>
    /\ call = [c \in Handlers |-> Idle]
    /\ calls = 0

-----------------------------------------------------------------------------
\* Handlers.

Begin(c, held) ==
    /\ call[c] = Idle /\ calls < MaxCalls
    /\ careful => \A d \in Handlers : call[d] = Idle
    /\ calls' = calls + 1
    /\ call' = [call EXCEPT ![c] = held]
    /\ UNCHANGED <<careful, user, sessions, links>>

At(c, pc) == call[c].pc = pc

GoesTo(c, pc) == call' = [call EXCEPT ![c].pc = pc]
Ends(c) == call' = [call EXCEPT ![c] = Idle]

\* The client goes away, or the process ends: what was not committed is not done.
Abort(c) ==
    /\ call[c] # Idle
    /\ Ends(c)
    /\ UNCHANGED <<careful, user, sessions, links, calls>>

\* A session writes the columns it changed, compared with what it had loaded; if
\* the row is gone its transaction fails.
Write(c, new) ==
    LET u == call[c].who
        seen == call[c].seen
    IN  user' = [user EXCEPT ![u] = [f \in DOMAIN seen |-> IF new[f] # seen[f] THEN new[f] ELSE @[f]]]

-----------------------------------------------------------------------------
\* login()

Login(c, u) ==
    /\ Exists(u) /\ user[u].active /\ user[u].locked # "future"
    /\ Begin(c, [Idle EXCEPT !.pc = "verify", !.who = u, !.seen = user[u]])

\* Definitions named Bug... are wrong versions of the definition after them, for
\* mutation testing; no specification uses them.

\* (The time of the lock is left when it is over.)
BugWelcomed(row) == [row EXCEPT !.fails = 0]

Welcomed(row) == [row EXCEPT !.fails = 0, !.locked = "none"]

Refused(row) ==
    [row EXCEPT !.fails = @ + 1, !.locked = IF row.fails + 1 >= MaxAttempts THEN "future" ELSE @]

Verify(c) ==
    LET u == call[c].who
        seen == call[c].seen
    IN  /\ At(c, "verify")
        /\ IF Exists(u)
           THEN \/ seen.password /\ Write(c, Welcomed(seen)) /\ call' = [call EXCEPT ![c] = [Idle EXCEPT !.pc = "session", !.who = u]]
                \/ Write(c, Refused(seen)) /\ Ends(c)
           ELSE UNCHANGED user /\ Ends(c)
        /\ UNCHANGED <<careful, sessions, links, calls>>

\* _issue_refresh_token(), also at the end of refresh(); a foreign key wants the
\* user.
IssueSession(c) ==
    /\ At(c, "session")
    /\ sessions' = IF Exists(call[c].who)
                   THEN Append(sessions, [of |-> call[c].who, from |-> call[c].token, live |-> TRUE]) ELSE sessions
    /\ Ends(c)
    /\ UNCHANGED <<careful, user, links, calls>>

\* locked_until passes, a refresh token or a link expires.
Unlock(u) ==
    /\ Exists(u) /\ user[u].locked = "future"
    /\ user' = [user EXCEPT ![u].locked = "past"]
    /\ UNCHANGED <<careful, sessions, links, call, calls>>

ExpireSession(t) ==
    /\ sessions[t].live
    /\ sessions' = [sessions EXCEPT ![t].live = FALSE]
    /\ UNCHANGED <<careful, user, links, call, calls>>

ExpireLink(l) ==
    /\ links[l].state = "open"
    /\ links' = [links EXCEPT ![l].state = "expired"]
    /\ UNCHANGED <<careful, user, sessions, call, calls>>

-----------------------------------------------------------------------------
\* refresh() and logout()

Refresh(c, t) ==
    /\ sessions[t].live
    /\ Begin(c, [Idle EXCEPT !.pc = "user", !.who = sessions[t].of, !.token = t])

CheckUser(c) ==
    /\ At(c, "user")
    /\ IF Exists(call[c].who) /\ user[call[c].who].active THEN GoesTo(c, "rotate") ELSE Ends(c)
    /\ UNCHANGED <<careful, user, sessions, links, calls>>

\* (The old token is left as it is.)
BugRevoke(t) == UNCHANGED sessions

\* _revoke_refresh_token(), whoever has revoked it before.
Revoke(t) == sessions' = [sessions EXCEPT ![t].live = FALSE]

Rotate(c) ==
    /\ At(c, "rotate")
    /\ Revoke(call[c].token)
    /\ GoesTo(c, "session")
    /\ UNCHANGED <<careful, user, links, calls>>

Logout(t) ==
    /\ calls < MaxCalls /\ calls' = calls + 1
    /\ careful => \A d \in Handlers : call[d] = Idle
    /\ sessions[t].live /\ Revoke(t)
    /\ UNCHANGED <<careful, user, links, call>>

-----------------------------------------------------------------------------
\* Invitations and resets.

RequestReset(c, u) ==
    /\ Exists(u) /\ user[u].active
    /\ Begin(c, [Idle EXCEPT !.pc = "link", !.who = u])

ResendInvite(c, u) ==
    /\ Exists(u) /\ ~(user[u].active /\ user[u].password)
    /\ Begin(c, [Idle EXCEPT !.pc = "link", !.who = u])

InviteUser(c, u, role) ==
    /\ user[u] = None
    /\ Begin(c, [Idle EXCEPT !.pc = "invite", !.who = u, !.arg = role])

\* The address is unique: of two invitations one is refused.
InsertUser(c) ==
    LET u == call[c].who IN
    /\ At(c, "invite")
    /\ IF user[u] = None
       THEN /\ user' = [user EXCEPT ![u] = [role |-> call[c].arg, active |-> FALSE, password |-> FALSE,
                                            fails |-> 0, locked |-> "none"]]
            /\ call' = [call EXCEPT ![c] = [Idle EXCEPT !.pc = "link", !.who = u]]
       ELSE UNCHANGED user /\ Ends(c)
    /\ UNCHANGED <<careful, sessions, links, calls>>

IssueLink(c) ==
    /\ At(c, "link")
    /\ links' = IF Exists(call[c].who) THEN Append(links, [of |-> call[c].who, state |-> "open"]) ELSE links
    /\ Ends(c)
    /\ UNCHANGED <<careful, user, sessions, calls>>

\* confirm_password_reset()
ConfirmReset(c, l) ==
    /\ links[l].state = "open"
    /\ Begin(c, [Idle EXCEPT !.pc = "get", !.who = links[l].of, !.token = l])

\* (A user who is gone is not noticed.)
BugGetUser(c) ==
    /\ At(c, "get")
    /\ call' = [call EXCEPT ![c] = [@ EXCEPT !.pc = "confirm", !.seen = user[call[c].who]]]
    /\ UNCHANGED <<careful, user, sessions, links, calls>>

GetUser(c) ==
    /\ At(c, "get")
    /\ IF Exists(call[c].who)
       THEN call' = [call EXCEPT ![c] = [@ EXCEPT !.pc = "confirm", !.seen = user[call[c].who]]] ELSE Ends(c)
    /\ UNCHANGED <<careful, user, sessions, links, calls>>

Used(l) == [links EXCEPT ![l].state = "used"]

Confirm(c) ==
    /\ At(c, "confirm")
    /\ Ends(c)
    /\ IF Exists(call[c].who)
       THEN /\ Write(c, [Welcomed(call[c].seen) EXCEPT !.password = TRUE, !.active = TRUE])
            /\ links' = Used(call[c].token)
       ELSE UNCHANGED <<user, links>>
    /\ UNCHANGED <<careful, sessions, calls>>

-----------------------------------------------------------------------------
\* update_user() and delete_user(), by the caller a.

\* get_current_user() and require_role() believe the token; nobody looks whether
\* the caller still is an admin, or there at all.
TakenForAdmin(a) == a \in Callers

\* (Inactive ones count.)
BugOthers(u) == {v \in Users \ {u} : Exists(v) /\ user[v].role = "admin"}

\* _count_active_admins() counts these.
Others(u) == {v \in Users \ {u} : Exists(v) /\ user[v].role = "admin" /\ user[v].active}

\* A caller does not demote or deactivate himself; who takes an active admin away
\* has the others counted first.
UpdateUser(c, a, u, role, active) ==
    /\ TakenForAdmin(a) /\ Exists(u)
    /\ LET row == user[u]
           demotes == row.role = "admin" /\ role # "admin"
           deactivates == row.active /\ ~active
       IN  /\ ~(a = u /\ (demotes \/ deactivates))
           /\ Begin(c, [Idle EXCEPT !.pc = IF demotes \/ (role = "admin" /\ deactivates) THEN "count" ELSE "update",
                                    !.who = u, !.arg = [row EXCEPT !.role = role, !.active = active], !.seen = row])

DeleteUser(c, a, u) ==
    /\ TakenForAdmin(a) /\ Exists(u) /\ a # u
    /\ Begin(c, [Idle EXCEPT !.pc = IF user[u].role = "admin" /\ user[u].active THEN "count" ELSE "delete",
                             !.who = u, !.seen = user[u]])

Count(c) ==
    /\ At(c, "count")
    /\ IF Others(call[c].who) = {} THEN Ends(c)
       ELSE GoesTo(c, IF call[c].arg = None THEN "delete" ELSE "update")
    /\ UNCHANGED <<careful, user, sessions, links, calls>>

Update(c) ==
    /\ At(c, "update")
    /\ IF Exists(call[c].who) THEN Write(c, call[c].arg) ELSE UNCHANGED user
    /\ Ends(c)
    /\ UNCHANGED <<careful, sessions, links, calls>>

\* The sessions and links go with the user.
Delete(c) ==
    /\ At(c, "delete")
    /\ user' = [user EXCEPT ![call[c].who] = Gone]
    /\ sessions' = [t \in DOMAIN sessions |->
                     IF sessions[t].of = call[c].who THEN [sessions[t] EXCEPT !.live = FALSE] ELSE sessions[t]]
    /\ links' = [l \in DOMAIN links |->
                  IF links[l].of = call[c].who THEN [links[l] EXCEPT !.state = "expired"] ELSE links[l]]
    /\ Ends(c)
    /\ UNCHANGED <<careful, calls>>

-----------------------------------------------------------------------------
Call(c) ==
    \/ \E u \in Users :
          \/ Login(c, u) \/ RequestReset(c, u) \/ ResendInvite(c, u)
          \/ \E role \in Roles : InviteUser(c, u, role)
          \/ \E a \in Users :
                \/ DeleteUser(c, a, u)
                \/ \E role \in Roles, active \in BOOLEAN : UpdateUser(c, a, u, role, active)
    \/ \E t \in DOMAIN sessions : Refresh(c, t)
    \/ \E l \in DOMAIN links : ConfirmReset(c, l)

Continue(c) ==
    \/ Verify(c) \/ IssueSession(c) \/ CheckUser(c) \/ Rotate(c)
    \/ InsertUser(c) \/ IssueLink(c) \/ GetUser(c) \/ Confirm(c)
    \/ Count(c) \/ Update(c) \/ Delete(c)

Next ==
    \/ \E c \in Handlers : Call(c) \/ Continue(c) \/ Abort(c)
    \/ \E t \in DOMAIN sessions : Logout(t) \/ ExpireSession(t)
    \/ \E l \in DOMAIN links : ExpireLink(l)
    \/ \E u \in Users : Unlock(u)

Spec == Init /\ [][Next]_vars

-----------------------------------------------------------------------------
\* admin_users.py: "At least one active admin is required".  It holds through
\* demotions, deactivations and deletions, also by callers who are no admins any
\* more, as long as requests do not overlap.
AdminRemains == careful => \E u \in Users : Exists(u) /\ user[u].role = "admin" /\ user[u].active

\* The two columns of a lock agree if requests do not overlap: there is a time of the
\* lock when MaxAttempts failures are counted, and only then.  If they overlap, a
\* success may clear one column of a row another request has changed; but the failure
\* that reaches MaxAttempts locks the account, however many requests are under way.
LockMatchesCount ==
    /\ [](careful => \A u \in Users :
            Exists(u) => (user[u].fails >= MaxAttempts <=> user[u].locked # "none"))
    /\ [][\A u \in Users :
            (Exists(u) /\ user'[u] \in Row /\ user'[u].fails > user[u].fails /\ user'[u].fails >= MaxAttempts)
                => user'[u].locked = "future"]_vars

\* Tokens are for one use if requests do not overlap: a session has one successor,
\* and a link that has set a password sets no other, whatever ends half-way.
UsedOnce ==
    [][careful =>
          /\ \A t \in DOMAIN sessions, n \in DOMAIN sessions' :
                (n > Len(sessions) /\ sessions'[n].from = t) =>
                    \A m \in DOMAIN sessions : sessions[m].from # t
          /\ \A c \in Handlers : (At(c, "confirm") /\ user' # user) => links[call[c].token].state # "used"]_vars
=============================================================================
