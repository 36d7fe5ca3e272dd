------------------------- MODULE HuaweiClientProofs -------------------------
(***************************************************************************)
(* The two promises of the Huawei client, for coroutines that share one.   *)
(*                                                                         *)
(* Its token cache: for every number of callers and tokens and all times   *)
(* with 2 * Latency <= Margin and 2 * Latency <= TTL, a token reaches the  *)
(* server before it is too old, and nobody fetches a token while the cache *)
(* holds a valid one.  The argument follows a token from the server to the *)
(* cache and back: an answer under way was issued no earlier than it was   *)
(* sent, so the cache expires at most Latency after the server's token;    *)
(* a request sent while the cache was valid has Latency left.              *)
(*                                                                         *)
(* Its pending tasks: with one caller at a time, nothing lost and no       *)
(* question about a task known to have ended, no command is sent to a      *)
(* plant that is at work, for any number of callers, plants and tasks.     *)
(***************************************************************************)
EXTENDS TokenCache, DispatchTasks, TLAPS

-----------------------------------------------------------------------------
\* The token cache.


\* The holder of the lock is the one who fetches.
LockHeld == \A c \in Coroutines : step[c] \in {"fetching", "granted"} <=> holder = c

\* A message carries a token, for Latency at most.
OnTheWay ==
    \A c \in Coroutines :
        step[c] \in {"granted", "posting"} =>
            /\ token[c] \in Tokens
            /\ since[c] <= now
            /\ now <= since[c] + Latency

\* The ages of a token in an answer, in the cache and in a request.
GrantedAge ==
    \A c \in Coroutines :
        (step[c] = "granted" /\ Known(token[c])) => since[c] <= issued[token[c]]

CachedAge ==
    (cached # NoToken /\ Known(cached)) => expires <= issued[cached] + TTL + Latency

PostedAge ==
    \A c \in Coroutines :
        (step[c] = "posting" /\ Known(token[c])) => since[c] + Latency <= issued[token[c]] + TTL

CacheIInv ==
    /\ CacheTypeOK
    /\ LockHeld
    /\ OnTheWay
    /\ GrantedAge
    /\ CachedAge
    /\ PostedAge
    /\ FetchesOnlyWhenNeeded

-----------------------------------------------------------------------------
\* The client starts with an empty cache, and nothing is under way.
LEMMA InitCacheIInv == CacheInit => CacheIInv
  BY TokenAssumption
  DEF CacheInit, CacheIInv, CacheTypeOK, Steps, LockHeld, OnTheWay, GrantedAge, CachedAge, PostedAge,
      FetchesOnlyWhenNeeded

\* Time passes: what is valid may become stale, and no message gets too old.
LEMMA TickIInv ==
    ASSUME CacheIInv, Tick
    PROVE  CacheIInv'
<1> USE TokenAssumption DEF CacheIInv, Tick, cacheVars, callerVars
<1>1. CacheTypeOK' /\ now' = now + 1 /\ now \in Nat
  BY DEF CacheTypeOK
<1>2. LockHeld' /\ GrantedAge' /\ CachedAge' /\ PostedAge'
  BY DEF LockHeld, GrantedAge, CachedAge, PostedAge, Known
<1>3. OnTheWay'
  BY DEF OnTheWay, CacheTypeOK
<1>4. FetchesOnlyWhenNeeded'
  <2>1. expires \in Nat
    BY DEF CacheTypeOK
  <2>2. Valid' => Valid
    BY <1>1, <2>1 DEF Valid
  <2>. QED  BY <2>2 DEF FetchesOnlyWhenNeeded
<1>. QED  BY <1>1, <1>2, <1>3, <1>4

\* A server that forgets its tokens makes no claim about any of them.
LEMMA SessionsLostIInv ==
    ASSUME CacheIInv, SessionsLost
    PROVE  CacheIInv'
<1> USE TokenAssumption DEF CacheIInv, SessionsLost, cacheVars, callerVars
<1>1. CacheTypeOK'
  BY DEF CacheTypeOK
<1>2. LockHeld' /\ OnTheWay' /\ FetchesOnlyWhenNeeded'
  BY DEF LockHeld, OnTheWay, FetchesOnlyWhenNeeded, Valid
<1>3. \A t \in Tokens : ~Known(t)'
  BY DEF Known
<1>4. GrantedAge' /\ CachedAge' /\ PostedAge'
  BY <1>2, <1>3 DEF OnTheWay, GrantedAge, CachedAge, PostedAge, CacheTypeOK
<1>. QED  BY <1>1, <1>2, <1>4

\* A caller waits for the lock, then finds a valid token or starts to fetch.
LEMMA EnterIInv ==
    ASSUME CacheIInv, NEW c \in Coroutines, Enter(c)
    PROVE  CacheIInv'
  BY TokenAssumption
  DEF CacheIInv, Enter, cacheVars, CacheTypeOK, Steps, LockHeld, OnTheWay, GrantedAge, CachedAge,
      PostedAge, FetchesOnlyWhenNeeded, Valid, Known

LEMMA AcquireIInv ==
    ASSUME CacheIInv, NEW c \in Coroutines, Acquire(c)
    PROVE  CacheIInv'
<1> USE TokenAssumption DEF CacheIInv, Acquire
<1>0. step[c] = "locking" /\ holder = NoCaller
  OBVIOUS
<1>t. /\ now \in Nat /\ expires \in Nat
      /\ \A t \in Tokens : Known(t) => issued[t] \in Nat
  BY DEF CacheTypeOK, Known
<1>1. CacheTypeOK'
  BY DEF CacheTypeOK, Steps
<1>2. CASE Valid /\ c \notin Refreshers
  <2>1. LockHeld'
    BY <1>0, <1>2 DEF LockHeld, CacheTypeOK
  <2>2. cached \in Tokens
    BY <1>2 DEF Valid, CacheTypeOK
  <2>3. OnTheWay'
    BY <1>2, <1>t, <2>2 DEF OnTheWay, CacheTypeOK
  <2>4. GrantedAge' /\ CachedAge'
    BY <1>2 DEF GrantedAge, CachedAge, Known, CacheTypeOK
  <2>5. PostedAge'
    <3>1. Known(cached) => now + Latency <= issued[cached] + TTL
      BY <1>2, <1>t, <2>2 DEF CachedAge, Valid
    <3>. QED  BY <1>2, <3>1 DEF PostedAge, Known, CacheTypeOK
  <2>6. FetchesOnlyWhenNeeded'
    BY <1>0, <1>2 DEF FetchesOnlyWhenNeeded, LockHeld, CacheTypeOK
  <2>. QED  BY <1>1, <2>1, <2>3, <2>4, <2>5, <2>6
<1>3. CASE ~(Valid /\ c \notin Refreshers)
  <2>1. LockHeld'
    BY <1>0, <1>3 DEF LockHeld, CacheTypeOK
  <2>2. OnTheWay' /\ GrantedAge' /\ CachedAge' /\ PostedAge'
    BY <1>3 DEF OnTheWay, GrantedAge, CachedAge, PostedAge, Known, CacheTypeOK
  <2>3. ~Valid'
    BY <1>3 DEF Valid
  <2>. QED  BY <1>1, <2>1, <2>2, <2>3 DEF FetchesOnlyWhenNeeded
<1>. QED  BY <1>2, <1>3

\* The server issues a token that is nowhere else.
LEMMA AuthServeIInv ==
    ASSUME CacheIInv, NEW c \in Coroutines, AuthServe(c)
    PROVE  CacheIInv'
<1> USE TokenAssumption DEF CacheIInv, cacheVars
<1>1. PICK t \in Tokens :
          /\ Unheld(t)
          /\ issued' = [u \in Tokens |-> IF u = t THEN now
                                         ELSE IF Unheld(u) THEN Unknown ELSE issued[u]]
          /\ token' = [token EXCEPT ![c] = t]
  BY DEF AuthServe
<1>2. /\ step[c] = "fetching"
      /\ step' = [step EXCEPT ![c] = "granted"]
      /\ since' = [since EXCEPT ![c] = now]
      /\ UNCHANGED <<now, cached, expires, holder>>
  BY DEF AuthServe
<1>3. CacheTypeOK'
  BY <1>1, <1>2 DEF CacheTypeOK, Steps
<1>4. now \in Nat /\ now + Latency \in Nat /\ now <= now + Latency
  BY DEF CacheTypeOK
<1>5. LockHeld' /\ FetchesOnlyWhenNeeded'
  BY <1>2 DEF LockHeld, FetchesOnlyWhenNeeded, Valid, CacheTypeOK
<1>6. OnTheWay'
  BY <1>1, <1>2, <1>4 DEF OnTheWay, CacheTypeOK
<1>9. \A u \in Tokens : (u # t /\ Known(u)') => Known(u) /\ issued'[u] = issued[u]
  BY <1>1 DEF Known, Unheld
<1>7. GrantedAge' /\ PostedAge'
  <2> SUFFICES ASSUME NEW d \in Coroutines, step'[d] \in {"granted", "posting"}, Known(token[d])'
               PROVE  /\ step'[d] = "granted" => since'[d] <= issued'[token'[d]]
                      /\ step'[d] = "posting" => since'[d] + Latency <= issued'[token'[d]] + TTL
    BY DEF GrantedAge, PostedAge
  <2>1. CASE d = c
    BY <1>1, <1>2, <1>4, <2>1 DEF CacheTypeOK
  <2>2. CASE d # c
    <3>1. token'[d] = token[d] /\ step'[d] = step[d] /\ since'[d] = since[d] /\ token[d] \in Tokens
      BY <1>1, <1>2, <2>2 DEF OnTheWay, CacheTypeOK
    <3>2. token[d] # t
      BY <1>1 DEF Unheld
    <3>. QED  BY <1>9, <3>1, <3>2 DEF GrantedAge, PostedAge
  <2>. QED  BY <2>1, <2>2
<1>8. CachedAge'
  BY <1>1, <1>2, <1>9 DEF CachedAge, Known, Unheld, CacheTypeOK
<1>. QED  BY <1>3, <1>5, <1>6, <1>7, <1>8

\* The cache expires at most Latency after the server's token.
LEMMA AuthReceiveIInv ==
    ASSUME CacheIInv, NEW c \in Coroutines, AuthReceive(c)
    PROVE  CacheIInv'
<1> USE TokenAssumption DEF CacheIInv, AuthReceive, Leave
<1>t. /\ now \in Nat /\ since[c] \in Nat
      /\ \A t \in Tokens : Known(t) => issued[t] \in Nat
  BY DEF CacheTypeOK, Known
<1>1. CacheTypeOK'
  <2>1. now + TTL \in 0..(Horizon + TTL)
    BY DEF CacheTypeOK
  <2>2. token[c] \in Tokens \cup {NoToken}
    BY DEF CacheTypeOK
  <2>. QED  BY <2>1, <2>2 DEF CacheTypeOK, Steps
<1>2. /\ token[c] \in Tokens
      /\ now <= since[c] + Latency
      /\ holder = c
  BY DEF OnTheWay, LockHeld
<1>3. Known(token[c]) => now <= issued[token[c]] + Latency
  BY <1>t, <1>2 DEF GrantedAge
<1>4. LockHeld'
  BY <1>2 DEF LockHeld, CacheTypeOK
<1>5. OnTheWay' /\ GrantedAge'
  BY <1>t, <1>2 DEF OnTheWay, GrantedAge, Known, CacheTypeOK
<1>6. CachedAge'
  BY <1>t, <1>2, <1>3 DEF CachedAge, Known
<1>7. PostedAge'
  <2>1. Known(token[c]) => now + Latency <= issued[token[c]] + TTL
    BY <1>t, <1>2, <1>3
  <2>. QED  BY <2>1 DEF PostedAge, Known, CacheTypeOK
<1>8. FetchesOnlyWhenNeeded'
  BY <1>4 DEF LockHeld, FetchesOnlyWhenNeeded
<1>. QED  BY <1>1, <1>4, <1>5, <1>6, <1>7, <1>8

\* A failed fetch gives the lock back and leaves the stale cache.
LEMMA AuthFailIInv ==
    ASSUME CacheIInv, NEW c \in Coroutines, AuthFail(c)
    PROVE  CacheIInv'
<1> USE TokenAssumption DEF CacheIInv, AuthFail, Leave, cacheVars
<1>1. CacheTypeOK'
  BY DEF CacheTypeOK, Steps
<1>2. LockHeld'
  BY DEF LockHeld, CacheTypeOK
<1>3. OnTheWay' /\ GrantedAge' /\ CachedAge' /\ PostedAge'
  BY DEF OnTheWay, GrantedAge, CachedAge, PostedAge, Known, CacheTypeOK
<1>4. FetchesOnlyWhenNeeded'
  BY DEF FetchesOnlyWhenNeeded, Valid, CacheTypeOK
<1>. QED  BY <1>1, <1>2, <1>3, <1>4

\* The server accepts, or rejects and forgets.
LEMMA VerifyIInv ==
    ASSUME CacheIInv, NEW c \in Coroutines, Verify(c)
    PROVE  CacheIInv'
<1> USE TokenAssumption DEF CacheIInv, Verify, cacheVars
<1>1. CacheTypeOK'
  BY DEF CacheTypeOK, Steps
<1>2. LockHeld' /\ FetchesOnlyWhenNeeded' /\ OnTheWay'
  BY DEF LockHeld, FetchesOnlyWhenNeeded, Valid, OnTheWay, CacheTypeOK
<1>3. \A t \in Tokens : Known(t)' => Known(t) /\ issued'[t] = issued[t]
  BY DEF Known, CacheTypeOK
<1>4. GrantedAge' /\ CachedAge' /\ PostedAge'
  BY <1>3 DEF GrantedAge, CachedAge, PostedAge, OnTheWay, CacheTypeOK
<1>. QED  BY <1>1, <1>2, <1>4

\* A caller ends, and a rejected one empties the cache.
LEMMA LeaveIInv ==
    ASSUME CacheIInv, NEW c \in Coroutines, Answered(c) \/ Rejected(c) \/ Lost(c)
    PROVE  CacheIInv'
<1> USE TokenAssumption DEF CacheIInv, Answered, Rejected, Lost, Leave, cacheVars
<1>1. CacheTypeOK'
  BY DEF CacheTypeOK, Steps
<1>2. LockHeld'
  BY DEF LockHeld, CacheTypeOK
<1>3. OnTheWay' /\ GrantedAge' /\ CachedAge' /\ PostedAge'
  BY DEF OnTheWay, GrantedAge, CachedAge, PostedAge, Known, CacheTypeOK
<1>4. FetchesOnlyWhenNeeded'
  BY DEF FetchesOnlyWhenNeeded, Valid, CacheTypeOK
<1>. QED  BY <1>1, <1>2, <1>3, <1>4

LEMMA NextCacheIInv == CacheIInv /\ [CacheNext]_tokenVars => CacheIInv'
<1> SUFFICES ASSUME CacheIInv, [CacheNext]_tokenVars PROVE CacheIInv'
  OBVIOUS
<1>1. CASE Tick
  BY <1>1, TickIInv
<1>2. CASE SessionsLost
  BY <1>2, SessionsLostIInv
<1>3. CASE \E c \in Coroutines : Enter(c) \/ Acquire(c)
  BY <1>3, EnterIInv, AcquireIInv
<1>4. CASE \E c \in Coroutines : AuthServe(c) \/ AuthReceive(c) \/ AuthFail(c)
  BY <1>4, AuthServeIInv, AuthReceiveIInv, AuthFailIInv
<1>5. CASE \E c \in Coroutines : Verify(c) \/ Answered(c) \/ Rejected(c) \/ Lost(c)
  BY <1>5, VerifyIInv, LeaveIInv
<1>6. CASE UNCHANGED tokenVars
  BY <1>6 DEF tokenVars, cacheVars, callerVars, CacheIInv, CacheTypeOK, LockHeld, OnTheWay, GrantedAge,
     CachedAge, PostedAge, FetchesOnlyWhenNeeded, Valid, Known
<1>. QED  BY <1>1, <1>2, <1>3, <1>4, <1>5, <1>6 DEF CacheNext

LEMMA CacheInvariance == CacheSpec => []CacheIInv
<1>. QED  BY InitCacheIInv, NextCacheIInv, PTL DEF CacheSpec

-----------------------------------------------------------------------------
\* Every variable of the client and of the server's registry stays in its domain
\* (auth.py, sim_server.py).
THEOREM CacheTypeCorrect == CacheSpec => []CacheTypeOK
<1>1. CacheIInv => CacheTypeOK
  BY DEF CacheIInv
<1>. QED  BY <1>1, CacheInvariance, PTL

\* The 60 s margin of _is_valid is enough: no request arrives with a token that
\* is too old for the server.
THEOREM NeverTooOld == CacheSpec => []ArrivesUnexpired
<1>1. CacheIInv => ArrivesUnexpired
  <2> SUFFICES ASSUME CacheIInv, NEW c \in Coroutines, step[c] = "posting", Known(token[c])
               PROVE  now <= issued[token[c]] + TTL
    BY DEF ArrivesUnexpired
  <2>1. /\ token[c] \in Tokens
        /\ now <= since[c] + Latency
        /\ since[c] + Latency <= issued[token[c]] + TTL
    BY DEF CacheIInv, OnTheWay, PostedAge
  <2>2. now \in Nat /\ since[c] \in Nat /\ issued[token[c]] \in Nat
    BY <2>1 DEF CacheIInv, CacheTypeOK, Known
  <2>. QED  BY <2>1, <2>2, TokenAssumption
<1>. QED  BY <1>1, CacheInvariance, PTL

\* get_token() fetches once for all the callers that find the cache stale.
THEOREM OneFetchForAll == CacheSpec => []FetchesOnlyWhenNeeded
<1>1. CacheIInv => FetchesOnlyWhenNeeded
  BY DEF CacheIInv
<1>. QED  BY <1>1, CacheInvariance, PTL

-----------------------------------------------------------------------------
\* The pending tasks.


\* One call at a time.
InTurn == \A c, d \in Callers : (pc[c] # "idle" /\ pc[d] # "idle") => c = d

\* Nothing is on its way but the caller's own request, and nothing is kept.
NothingElse == late = {} /\ \A p \in Plants : kept[p] = {}

\* A question is about the pending task, and is not answered too early.
AskedPending ==
    \A c \in Callers :
        (pc[c] # "idle" /\ op[c] = "status") =>
            /\ id[c] \in Ids
            /\ at[c] \in Plants
            /\ id[c] = pending[at[c]]
            /\ ended[c] => task[id[c]] # "running"

Answering(c, p) == pc[c] = "served" /\ op[c] = "command" /\ at[c] = p /\ id[c] = follow[p]

Stopping(c, p) == pc[c] = "sent" /\ op[c] = "stop" /\ at[c] = p

\* A plant at work is at work on the pending task, on the one the caller is
\* about to learn of, or about to be stopped.
WorkIsKnown ==
    \A p \in Plants :
        InProgress(p) =>
            \/ pending[p] = follow[p]
            \/ \E c \in Callers : Answering(c, p) \/ Stopping(c, p)

\* What an answer says is still so when it is handled.
AnswerIsCurrent ==
    \A c \in Callers :
        /\ pc[c] # "idle" => at[c] \in Plants
        /\ (pc[c] = "served" /\ op[c] = "command") => id[c] \in Ids /\ id[c] = follow[at[c]]
        /\ pc[c] # "served" => ~ended[c]

IInv == TypeOK /\ InTurn /\ NothingElse /\ AnswerIsCurrent /\ AskedPending /\ WorkIsKnown

-----------------------------------------------------------------------------
LEMMA InitIInv == Init => IInv
  BY TaskAssumption
  DEF Init, IInv, TypeOK, InTurn, Orders, NothingElse, AnswerIsCurrent, AskedPending, WorkIsKnown, InProgress

\* A call only begins when no other is under way.
LEMMA StaysInTurn ==
    ASSUME careful, InTurn, pc \in [Callers -> {"idle", "sent", "served"}], NEW c \in Callers,
           \/ pc' = pc
           \/ pc' = [pc EXCEPT ![c] = "idle"]
           \/ pc[c] = "sent" /\ pc' = [pc EXCEPT ![c] = "served"]
           \/ (\A d \in Callers : pc[d] = "idle") /\ pc' = [pc EXCEPT ![c] = "sent"]
    PROVE  InTurn'
  BY DEF InTurn

\* A call begins: the one caller was idle, so a plant at work is at work on the
\* pending task.
LEMMA CallIInv ==
    ASSUME careful, IInv, NEW c \in Callers, NEW p \in Plants,
           Command(c, p) \/ Stop(c, p) \/ Ask(c, p)
    PROVE  IInv'
<1> USE TaskAssumption DEF IInv
<1>1. PICK what \in Orders \cup {"status"}, i \in Ids \cup {NoId} :
          /\ Send(c, p, what, i)
          /\ what = "status" => i \in Ids /\ i = pending[p]
          /\ pending' = IF what = "stop" THEN [pending EXCEPT ![p] = NoId] ELSE pending
  <2>1. CASE Command(c, p)
    BY <2>1 DEF Command, Orders
  <2>2. CASE Stop(c, p)
    BY <2>2 DEF Stop, Orders
  <2>3. CASE Ask(c, p)
    BY <2>3 DEF Ask, NothingElse, TypeOK
  <2>. QED  BY <2>1, <2>2, <2>3
<1>0. \A d \in Callers : pc[d] = "idle"
  BY <1>1 DEF Send
<1>2. TypeOK' /\ NothingElse' /\ InTurn'
  BY <1>1, <1>0, StaysInTurn DEF Send, TypeOK, NothingElse, plantVars, Orders
<1>3. AnswerIsCurrent'
  <2>1. ~ended[c]
    BY <1>1 DEF Send, AnswerIsCurrent, TypeOK
  <2>. QED  BY <1>1, <2>1 DEF Send, AnswerIsCurrent, TypeOK
<1>4. AskedPending'
  <2> SUFFICES ASSUME NEW d \in Callers, pc'[d] # "idle", op'[d] = "status"
               PROVE  /\ id'[d] \in Ids
                      /\ at'[d] \in Plants
                      /\ id'[d] = pending'[at'[d]]
                      /\ ended'[d] => task'[id'[d]] # "running"
    BY DEF AskedPending
  <2>1. d = c
    BY <1>0, <1>1 DEF Send, TypeOK
  <2>2. what = "status" /\ id'[d] = i /\ at'[d] = p /\ pc'[d] = "sent"
    BY <1>1, <2>1 DEF Send, TypeOK
  <2>. QED  BY <1>1, <1>3, <2>2 DEF AnswerIsCurrent, Orders
<1>5. WorkIsKnown'
  <2> SUFFICES ASSUME NEW q \in Plants, InProgress(q)'
               PROVE  \/ pending'[q] = follow'[q]
                      \/ \E d \in Callers : (Answering(d, q) \/ Stopping(d, q))'
    BY DEF WorkIsKnown
  <2>1. pending[q] = follow[q]
    BY <1>0, <1>1 DEF Send, plantVars, InProgress, WorkIsKnown, Answering, Stopping
  <2>2. CASE what = "stop" /\ q = p
    <3>1. Stopping(c, q)'
      BY <1>1, <2>2 DEF Send, Stopping, TypeOK
    <3>. QED  BY <3>1
  <2>3. CASE ~(what = "stop" /\ q = p)
    BY <1>1, <2>1, <2>3 DEF Send, plantVars, TypeOK
  <2>. QED  BY <2>2, <2>3
<1>. QED  BY <1>2, <1>3, <1>4, <1>5

\* A plant obeys: its new task is the one in the answer, or it stands still.
LEMMA ServeIInv ==
    ASSUME careful, IInv, NEW c \in Callers, Serve(c)
    PROVE  IInv'
<1> USE TaskAssumption DEF IInv
<1>0. /\ pc[c] = "sent"
      /\ pc' = [pc EXCEPT ![c] = "served"]
      /\ at[c] \in Plants
      /\ ~ended[c]
      /\ UNCHANGED <<careful, pending, kept, op, at, late>>
  BY DEF Serve, AnswerIsCurrent
<1>4. \A d \in Callers : d # c => pc[d] = "idle"
  BY <1>0 DEF InTurn
<1>5. InTurn'
  BY <1>0, StaysInTurn DEF TypeOK
<1>1. CASE op[c] = "status"
  <2>1. /\ ended' = [ended EXCEPT ![c] = task[id[c]] \in {"complete", "timeout"}]
        /\ UNCHANGED <<id, task, follow>>
    BY <1>1 DEF Serve
  <2>2. TypeOK' /\ NothingElse' /\ AnswerIsCurrent' /\ AskedPending'
    BY <1>0, <1>4, <1>1, <2>1 DEF TypeOK, NothingElse, AnswerIsCurrent, AskedPending
  <2>3. WorkIsKnown'
    BY <1>0, <1>4, <1>1, <2>1 DEF TypeOK, WorkIsKnown, InProgress, Answering, Stopping, Orders
  <2>. QED  BY <1>5, <2>2, <2>3
<1>2. CASE op[c] = "command"
  <2>1. PICK i \in Ids :
            /\ Free(i)
            /\ task' = [task EXCEPT ![i] = "running"]
            /\ follow' = [follow EXCEPT ![at[c]] = i]
            /\ id' = [id EXCEPT ![c] = i]
            /\ ended' = ended
    BY <1>2 DEF Serve, Obey
  <2>2. TypeOK' /\ NothingElse' /\ AnswerIsCurrent'
    BY <1>0, <1>4, <1>2, <2>1 DEF TypeOK, NothingElse, AnswerIsCurrent
  <2>3. AskedPending'
    BY <1>0, <1>4, <1>2, <2>1 DEF TypeOK, AskedPending
  <2>4. WorkIsKnown'
    <3> SUFFICES ASSUME NEW q \in Plants, InProgress(q)'
                 PROVE  \/ pending'[q] = follow'[q]
                        \/ \E d \in Callers : (Answering(d, q) \/ Stopping(d, q))'
      BY DEF WorkIsKnown
    <3>1. CASE q = at[c]
      <4>1. Answering(c, q)'
        BY <1>0, <1>4, <1>2, <2>1, <3>1 DEF Answering, TypeOK
      <4>. QED  BY <4>1
    <3>2. CASE q # at[c]
      <4>1. InProgress(q)
        BY <2>1, <3>2 DEF InProgress, TypeOK, Free
      <4>2. pending[q] = follow[q]
        BY <1>0, <1>4, <3>2, <4>1 DEF WorkIsKnown, Answering, Stopping
      <4>. QED  BY <1>0, <1>4, <2>1, <3>2, <4>2 DEF TypeOK
    <3>. QED  BY <3>1, <3>2
  <2>. QED  BY <1>5, <2>2, <2>3, <2>4
<1>3. CASE op[c] \notin {"status", "command"}
  <2>1. /\ follow' = [follow EXCEPT ![at[c]] = NoId]
        /\ id' = [id EXCEPT ![c] = StopId]
        /\ UNCHANGED <<task, ended>>
    BY <1>3 DEF Serve, Obey
  <2>2. TypeOK' /\ NothingElse' /\ AnswerIsCurrent'
    BY <1>0, <1>4, <1>3, <2>1 DEF TypeOK, NothingElse, AnswerIsCurrent
  <2>3. AskedPending'
    BY <1>0, <1>4, <1>3, <2>1 DEF TypeOK, AskedPending
  <2>4. WorkIsKnown'
    <3> SUFFICES ASSUME NEW q \in Plants, InProgress(q)'
                 PROVE  pending'[q] = follow'[q]
      BY DEF WorkIsKnown
    <3>1. q # at[c] /\ InProgress(q)
      BY <2>1 DEF InProgress, TypeOK
    <3>2. pending[q] = follow[q]
      BY <1>0, <1>4, <3>1 DEF WorkIsKnown, Answering, Stopping
    <3>. QED  BY <1>0, <1>4, <2>1, <3>1, <3>2 DEF TypeOK
  <2>. QED  BY <1>5, <2>2, <2>3, <2>4
<1>. QED  BY <1>1, <1>2, <1>3

\* An answer to an order is handled: the new task is the pending one.
LEMMA OrderedIInv ==
    ASSUME careful, IInv, NEW c \in Callers, Ordered(c)
    PROVE  IInv'
<1> USE TaskAssumption DEF IInv, Ordered, Finished, plantVars
<1>0. /\ pc[c] = "served" /\ at[c] \in Plants
      /\ op[c] = "command" => id[c] \in Ids /\ id[c] = follow[at[c]]
  BY DEF AnswerIsCurrent
<1>4. \A d \in Callers : d # c => pc[d] = "idle"
  BY <1>0 DEF InTurn
<1>5. InTurn'
  BY StaysInTurn DEF TypeOK
<1>1. TypeOK' /\ NothingElse' /\ AnswerIsCurrent'
  BY <1>0, <1>4 DEF TypeOK, NothingElse, AnswerIsCurrent, Orders
<1>2. AskedPending'
  BY <1>0, <1>4 DEF TypeOK, AskedPending, Orders
<1>3. WorkIsKnown'
  <2> SUFFICES ASSUME NEW q \in Plants, InProgress(q)'
               PROVE  pending'[q] = follow'[q]
    BY DEF WorkIsKnown
  <2>1. InProgress(q) /\ follow' = follow
    BY DEF InProgress
  <2>2. CASE op[c] = "command" /\ q = at[c]
    BY <1>0, <1>4, <2>1, <2>2 DEF TypeOK
  <2>3. CASE ~(op[c] = "command" /\ q = at[c])
    <3>1. pending[q] = follow[q]
      BY <1>0, <1>4, <2>1, <2>3 DEF WorkIsKnown, Answering, Stopping
    <3>. QED  BY <1>0, <1>4, <2>1, <2>3, <3>1 DEF TypeOK
  <2>. QED  BY <2>2, <2>3
<1>. QED  BY <1>1, <1>2, <1>3, <1>5

\* An answer to a question is handled: a task that has ended is the pending one,
\* and the plant is not at work on it.
LEMMA ToldIInv ==
    ASSUME careful, IInv, NEW c \in Callers, Told(c)
    PROVE  IInv'
<1> USE TaskAssumption DEF IInv, Told, Finished, plantVars
<1>0. /\ pc[c] = "served" /\ op[c] = "status" /\ at[c] \in Plants
      /\ id[c] = pending[at[c]]
      /\ ended[c] => task[id[c]] # "running"
      /\ kept' = kept
  BY DEF AskedPending, TypeOK
<1>4. \A d \in Callers : d # c => pc[d] = "idle"
  BY <1>0 DEF InTurn
<1>5. InTurn'
  BY StaysInTurn DEF TypeOK
<1>1. TypeOK' /\ NothingElse' /\ AnswerIsCurrent'
  BY <1>0, <1>4 DEF TypeOK, NothingElse, AnswerIsCurrent
<1>2. AskedPending'
  BY <1>0, <1>4 DEF TypeOK, AskedPending
<1>3. WorkIsKnown'
  <2> SUFFICES ASSUME NEW q \in Plants, InProgress(q)'
               PROVE  pending'[q] = follow'[q]
    BY DEF WorkIsKnown
  <2>1. InProgress(q) /\ follow' = follow
    BY DEF InProgress
  <2>2. pending[q] = follow[q]
    BY <1>0, <1>4, <2>1 DEF WorkIsKnown, Answering, Stopping
  <2>3. ~(ended[c] /\ q = at[c])
    BY <1>0, <1>4, <2>1, <2>2 DEF InProgress
  <2>. QED  BY <1>0, <1>4, <2>1, <2>2, <2>3 DEF TypeOK
<1>. QED  BY <1>1, <1>2, <1>3, <1>5

\* A task ends.
LEMMA TaskEndsIInv ==
    ASSUME careful, IInv, NEW i \in Ids, NEW how \in {"complete", "timeout"}, TaskEnds(i, how)
    PROVE  IInv'
<1> USE TaskAssumption DEF IInv, TaskEnds, clientVars, callVars
<1>1. TypeOK' /\ InTurn' /\ NothingElse' /\ AnswerIsCurrent'
  BY DEF TypeOK, InTurn, NothingElse, AnswerIsCurrent
<1>2. AskedPending'
  BY DEF TypeOK, AskedPending
<1>3. \A p \in Plants : InProgress(p)' => InProgress(p)
  BY DEF InProgress, TypeOK
<1>4. WorkIsKnown'
  BY <1>3 DEF WorkIsKnown, Answering, Stopping
<1>. QED  BY <1>1, <1>2, <1>4

LEMMA NextIInv ==
    ASSUME careful, IInv, [Next]_vars
    PROVE  IInv' /\ careful'
<1>0. careful'
  BY DEF Next, vars, Command, Stop, Ask, Send, Serve, Ordered, Told, Fail, GiveUp, ServeLate, TaskEnds
<1>1. CASE \E c \in Callers, p \in Plants : Command(c, p) \/ Stop(c, p) \/ Ask(c, p)
  BY <1>0, <1>1, CallIInv
<1>2. CASE \E c \in Callers : Serve(c) \/ Ordered(c) \/ Told(c)
  BY <1>0, <1>2, ServeIInv, OrderedIInv, ToldIInv
<1>3. CASE \E c \in Callers : Fail(c) \/ GiveUp(c)
  BY <1>3 DEF Fail, GiveUp
<1>4. CASE \E p \in Plants, order \in Orders : ServeLate(p, order)
  BY <1>4 DEF ServeLate, IInv, NothingElse
<1>5. CASE \E i \in Ids, how \in {"complete", "timeout"} : TaskEnds(i, how)
  BY <1>0, <1>5, TaskEndsIInv
<1>6. CASE UNCHANGED vars
  BY <1>6 DEF vars, clientVars, callVars, plantVars, IInv, TypeOK, InTurn, NothingElse,
     AnswerIsCurrent, AskedPending, WorkIsKnown, InProgress, Answering, Stopping
<1>. QED  BY <1>1, <1>2, <1>3, <1>4, <1>5, <1>6 DEF Next

-----------------------------------------------------------------------------
\* The promise of charge() and discharge() (client.py:248): as long as callers are
\* careful, no command is sent to a plant that is at work on another.
THEOREM CarefulIsGuarded == Spec => InProgressRefused
<1> DEFINE Careful == careful => IInv
           Refused == careful => \A c \in Callers, p \in Plants : Command(c, p) => ~InProgress(p)
<1>1. Init => Careful
  BY InitIInv
<1>2. Careful /\ [Next]_vars => Careful'
  <2>1. careful' => careful \/ ~[Next]_vars
    BY DEF Next, vars, Command, Stop, Ask, Send, Serve, Ordered, Told, Fail, GiveUp, ServeLate, TaskEnds
  <2>. QED  BY <2>1, NextIInv
<1>3. Careful => Refused
  <2> SUFFICES ASSUME careful, IInv, NEW c \in Callers, NEW p \in Plants,
                      Command(c, p), InProgress(p)
               PROVE  FALSE
    OBVIOUS
  <2>1. pending[p] = NoId /\ \A d \in Callers : pc[d] = "idle"
    BY DEF Command, Send
  <2>2. follow[p] # NoId
    BY DEF InProgress
  <2>. QED  BY <2>1, <2>2 DEF IInv, WorkIsKnown, Answering, Stopping
<1> HIDE DEF Careful
<1>4. Careful /\ [Next]_vars => [Refused]_vars
  BY <1>3
<1>. QED  BY <1>1, <1>2, <1>4, PTL DEF Spec, InProgressRefused

-----------------------------------------------------------------------------
\* Careful or not, a caller at work is at a plant, asks about a task, and is told of
\* one in answer to a command.
CallsOK ==
    \A c \in Callers :
        pc[c] # "idle" =>
            /\ at[c] \in Plants /\ op[c] \in Orders \cup {"status"}
            /\ op[c] = "status" => id[c] \in Ids
            /\ pc[c] = "served" /\ op[c] = "command" => id[c] \in Ids

LEMMA SendTyped ==
    ASSUME TypeOK, CallsOK, NEW c \in Callers, NEW p \in Plants, NEW what \in Orders \cup {"status"}, NEW i \in Ids \cup {NoId},
           Send(c, p, what, i), what = "status" => i \in Ids, pending' \in [Plants -> Ids \cup {NoId}]
    PROVE  (TypeOK /\ CallsOK)'
<1>1. TypeOK'
  BY DEF TypeOK, Send, plantVars, Orders
<1>2. CallsOK'
  BY DEF TypeOK, CallsOK, Send, plantVars, Orders
<1>. QED  BY <1>1, <1>2

LEMMA FinishedTyped ==
    ASSUME TypeOK, CallsOK, NEW c \in Callers, Finished(c), UNCHANGED <<careful, task, follow>>,
           pending' \in [Plants -> Ids \cup {NoId}], kept' \in [Plants -> SUBSET Ids], late' \in SUBSET (Plants \X Orders)
    PROVE  (TypeOK /\ CallsOK)'
<1>1. TypeOK'
  BY DEF TypeOK, Finished
<1>2. CallsOK'
  BY DEF TypeOK, CallsOK, Finished
<1>. QED  BY <1>1, <1>2

LEMMA ObeyTyped ==
    ASSUME TypeOK, NEW p \in Plants, NEW order \in Orders, NEW i, Obey(p, order, i)
    PROVE  /\ task' \in [Ids -> {"unused", "running", "complete", "timeout"}]
           /\ follow' \in [Plants -> Ids \cup {NoId}]
           /\ order = "command" => i \in Ids
           /\ i \in Ids \cup {StopId}
  BY DEF Obey, TypeOK, Orders

LEMMA ServeTyped ==
    ASSUME TypeOK, CallsOK, NEW c \in Callers, Serve(c)
    PROVE  (TypeOK /\ CallsOK)'
<1>1. CASE op[c] = "status"
  <2>0. PICK known \in BOOLEAN : ended' = [ended EXCEPT ![c] = known]
    <3>1. ended' = [ended EXCEPT ![c] = task[id[c]] \in {"complete", "timeout"}]
      BY <1>1 DEF Serve
    <3>2. (task[id[c]] \in {"complete", "timeout"}) \in BOOLEAN
      OBVIOUS
    <3>. QED  BY <3>1, <3>2, Zenon
  <2>1. TypeOK'
    <3>1. ended \in [Callers -> BOOLEAN]
      BY DEF TypeOK
    <3>2. ended' \in [Callers -> BOOLEAN]
      BY <2>0, <3>1, Zenon
    <3>3. /\ pc' = [pc EXCEPT ![c] = "served"]
          /\ UNCHANGED <<careful, pending, kept, op, at, id, task, follow, late>>
      BY <1>1 DEF Serve
    <3>. QED  BY <3>2, <3>3 DEF TypeOK
  <2>2. CallsOK'
    BY <1>1 DEF TypeOK, CallsOK, Serve
  <2>. QED  BY <2>1, <2>2
<1>2. CASE op[c] # "status"
  <2>1. PICK i \in Ids \cup {StopId} : Obey(at[c], op[c], i) /\ id' = [id EXCEPT ![c] = i] /\ ended' = ended
    BY <1>2 DEF Serve
  <2>2. op[c] \in Orders /\ at[c] \in Plants
    BY <1>2 DEF CallsOK, Serve
  <2>3. /\ task' \in [Ids -> {"unused", "running", "complete", "timeout"}]
        /\ follow' \in [Plants -> Ids \cup {NoId}]
        /\ op[c] = "command" => i \in Ids
    BY <2>1, <2>2, ObeyTyped
  <2>4. TypeOK'
    BY <2>1, <2>3 DEF TypeOK, Serve
  <2>5. CallsOK'
    BY <1>2, <2>1, <2>2, <2>3 DEF TypeOK, CallsOK, Serve
  <2>. QED  BY <2>4, <2>5
<1>. QED  BY <1>1, <1>2

LEMMA NextTyped == TypeOK /\ CallsOK /\ [Next]_vars => (TypeOK /\ CallsOK)'
<1> SUFFICES ASSUME TypeOK, CallsOK, [Next]_vars PROVE (TypeOK /\ CallsOK)'
  OBVIOUS
<1>1. ASSUME NEW c \in Callers, NEW p \in Plants, Command(c, p) \/ Stop(c, p) \/ Ask(c, p) PROVE (TypeOK /\ CallsOK)'
  <2>1. PICK what \in Orders \cup {"status"}, i \in Ids \cup {NoId} :
            Send(c, p, what, i) /\ (what = "status" => i \in Ids) /\ pending' \in [Plants -> Ids \cup {NoId}]
    <3>1. CASE Command(c, p)
      BY <3>1 DEF Command, Orders, TypeOK
    <3>2. CASE Stop(c, p)
      BY <3>2 DEF Stop, Orders, TypeOK
    <3>3. CASE Ask(c, p)
      BY <3>3 DEF Ask, TypeOK
    <3>. QED  BY <1>1, <3>1, <3>2, <3>3
  <2>. QED  BY <2>1, SendTyped
<1>2. ASSUME NEW c \in Callers, Serve(c) PROVE (TypeOK /\ CallsOK)'
  BY <1>2, ServeTyped
<1>3. ASSUME NEW c \in Callers, Ordered(c) PROVE (TypeOK /\ CallsOK)'
  <2>1. pending' \in [Plants -> Ids \cup {NoId}]
    BY <1>3 DEF Ordered, TypeOK, CallsOK
  <2>. QED  BY <1>3, <2>1, FinishedTyped DEF Ordered, plantVars, TypeOK
<1>4. ASSUME NEW c \in Callers, Told(c) PROVE (TypeOK /\ CallsOK)'
  <2>1. pending' \in [Plants -> Ids \cup {NoId}] /\ kept' \in [Plants -> SUBSET Ids]
    BY <1>4 DEF Told, TypeOK, CallsOK
  <2>. QED  BY <1>4, <2>1, FinishedTyped DEF Told, plantVars, TypeOK
<1>5. ASSUME NEW c \in Callers, Fail(c) PROVE (TypeOK /\ CallsOK)'
  BY <1>5, FinishedTyped DEF Fail, plantVars, TypeOK
<1>6. ASSUME NEW c \in Callers, GiveUp(c) PROVE (TypeOK /\ CallsOK)'
  <2>1. late' \in SUBSET (Plants \X Orders)
    BY <1>6 DEF GiveUp, TypeOK, CallsOK
  <2>. QED  BY <1>6, <2>1, FinishedTyped DEF GiveUp, TypeOK
<1>7. ASSUME NEW p \in Plants, NEW order \in Orders, ServeLate(p, order) PROVE (TypeOK /\ CallsOK)'
  <2>1. PICK i \in Ids \cup {StopId} : Obey(p, order, i)
    BY <1>7 DEF ServeLate
  <2>2. /\ task' \in [Ids -> {"unused", "running", "complete", "timeout"}]
        /\ follow' \in [Plants -> Ids \cup {NoId}]
    BY <2>1, ObeyTyped
  <2>. QED  BY <1>7, <2>2 DEF ServeLate, clientVars, callVars, TypeOK, CallsOK
<1>8. ASSUME NEW i \in Ids, NEW how \in {"complete", "timeout"}, TaskEnds(i, how) PROVE (TypeOK /\ CallsOK)'
  BY <1>8 DEF TaskEnds, clientVars, callVars, TypeOK, CallsOK
<1>9. CASE UNCHANGED vars
  BY <1>9 DEF vars, clientVars, callVars, plantVars, TypeOK, CallsOK
<1>. QED  BY <1>1, <1>2, <1>3, <1>4, <1>5, <1>6, <1>7, <1>8, <1>9 DEF Next

\* Whether callers are careful or not, with messages lost, late or refused, the client
\* only ever takes a task of a plant to be pending, never a stop, and asks about tasks.
THEOREM TypeCorrect == Spec => []TypeOK
<1>1. Init => TypeOK /\ CallsOK
  BY DEF Init, TypeOK, CallsOK
<1>. QED  BY <1>1, NextTyped, PTL DEF Spec
=============================================================================
