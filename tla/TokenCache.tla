----------------------------- MODULE TokenCache -----------------------------
(***************************************************************************)
(* connectors/huawei/auth.py with its use in connectors/huawei/client.py   *)
(* and the token registry of connectors/huawei/sim_server.py.  Coroutines  *)
(* that share a HuaweiAuthClient get a token under its lock, from the      *)
(* cache or from the server, and post a request with it; the server        *)
(* rejects a token it does not know or that is too old, and the client     *)
(* then empties the cache, whatever it holds by then.                      *)
(*                                                                         *)
(* Client and server count time from different origins but at one rate:    *)
(* now is the time of both.  Latency bounds the way of a token from the    *)
(* server to the client and the way of a request from the client to the    *)
(* server; an exchange that takes longer fails (the 30 s timeout of the    *)
(* HTTP client), and 60 s of margin are twice that.                        *)
(***************************************************************************)
EXTENDS Naturals

CONSTANTS
    Coroutines, \* those that use the client
    Refreshers, \* those of them that only call refresh_token()
    Tokens,   \* token values; one nobody holds is issued again as a new one
    TTL,      \* life of a token at the server
    Margin,   \* a cached token is not used this long before its expiry
    Latency,  \* longest way of a message
    Horizon,  \* bound of the clock
    NoToken, NoCaller, Unknown

ASSUME TokenAssumption ==
    /\ {TTL, Margin, Latency, Horizon} \subseteq Nat
    /\ 2 * Latency <= Margin
    /\ 2 * Latency <= TTL
    /\ Refreshers \subseteq Coroutines
    /\ NoToken \notin Tokens
    /\ NoCaller \notin Coroutines
    /\ Unknown \notin Nat

VARIABLES
    now,      \* seconds, of the client and of the server
    cached,   \* the client's token: _cache.access_token, or NoToken
    expires,  \* _cache.expires_at
    holder,   \* the caller inside the lock, or NoCaller
    step,     \* caller -> where it is
    token,    \* caller -> the token it was given, or NoToken
    since,    \* caller -> when the message now on its way was sent
    issued    \* the server's tokens: when each was issued, or Unknown

cacheVars == <<cached, expires>>
callerVars == <<step, token, since>>
tokenVars == <<now, cacheVars, holder, callerVars, issued>>

Steps == {"idle", "locking", "fetching", "granted", "posting", "accepted", "rejected"}

CacheTypeOK ==
    /\ now \in 0..Horizon
    /\ cached \in Tokens \cup {NoToken}
    /\ expires \in 0..(Horizon + TTL)
    /\ holder \in Coroutines \cup {NoCaller}
    /\ step \in [Coroutines -> Steps]
    /\ token \in [Coroutines -> Tokens \cup {NoToken}]
    /\ since \in [Coroutines -> 0..Horizon]
    /\ issued \in [Tokens -> (0..Horizon) \cup {Unknown}]

CacheInit ==
    /\ now = 0
    /\ cached = NoToken
    /\ expires = 0
    /\ holder = NoCaller
    /\ step = [c \in Coroutines |-> "idle"]
    /\ token = [c \in Coroutines |-> NoToken]
    /\ since = [c \in Coroutines |-> 0]
    /\ issued = [t \in Tokens |-> Unknown]

-----------------------------------------------------------------------------

\* No message is on its way for longer than Latency.
Tick ==
    /\ now < Horizon
    /\ \A c \in Coroutines : step[c] \in {"granted", "posting"} => now < since[c] + Latency
    /\ now' = now + 1
    /\ UNCHANGED <<cacheVars, holder, callerVars, issued>>

\* get_token() or refresh_token(): wait for the lock.
Enter(c) ==
    /\ step[c] = "idle"
    /\ step' = [step EXCEPT ![c] = "locking"]
    /\ UNCHANGED <<now, cacheVars, holder, token, since, issued>>

\* Definitions named Bug... are wrong versions of the definition after them, for
\* mutation testing; no specification uses them.

\* (No margin.)
BugNoMargin == cached # NoToken /\ now < expires

Valid == cached # NoToken /\ now + Margin < expires

\* (Decided to fetch before it had the lock.)
BugNoRecheck(c) ==
    /\ step[c] = "locking"
    /\ holder = NoCaller
    /\ step' = [step EXCEPT ![c] = "fetching"]
    /\ holder' = c
    /\ cached' = IF c \in Refreshers THEN NoToken ELSE cached
    /\ UNCHANGED <<now, expires, token, since, issued>>

\* Inside the lock: a valid token is posted at once, and the lock released;
\* otherwise a new one is asked for, with the lock held.
Acquire(c) ==
    /\ step[c] = "locking"
    /\ holder = NoCaller
    /\ IF Valid /\ c \notin Refreshers
       THEN /\ step' = [step EXCEPT ![c] = "posting"]
            /\ token' = [token EXCEPT ![c] = cached]
            /\ since' = [since EXCEPT ![c] = now]
            /\ UNCHANGED <<holder, cached>>
       ELSE /\ step' = [step EXCEPT ![c] = "fetching"]
            /\ holder' = c
            /\ cached' = IF c \in Refreshers THEN NoToken ELSE cached
            /\ UNCHANGED <<token, since>>
    /\ UNCHANGED <<now, expires, issued>>

Unheld(t) == t # cached /\ \A c \in Coroutines : token[c] # t

\* The server issues a new token.  Which one makes no difference, nor does what
\* it remembers of tokens nobody holds.
AuthServe(c) ==
    /\ step[c] = "fetching"
    /\ \E t \in Tokens :
        /\ Unheld(t)
        /\ t = CHOOSE u \in Tokens : Unheld(u)
        /\ issued' = [u \in Tokens |-> IF u = t THEN now
                                       ELSE IF Unheld(u) THEN Unknown ELSE issued[u]]
        /\ token' = [token EXCEPT ![c] = t]
    /\ step' = [step EXCEPT ![c] = "granted"]
    /\ since' = [since EXCEPT ![c] = now]
    /\ UNCHANGED <<now, cacheVars, holder>>

\* The caller returns; it holds nothing any more.
Leave(c) ==
    /\ step' = [step EXCEPT ![c] = "idle"]
    /\ token' = [token EXCEPT ![c] = NoToken]
    /\ since' = [since EXCEPT ![c] = 0]

\* (Adds the margin instead of taking it off.)
BugLateExpiry(c) ==
    /\ step[c] = "granted"
    /\ cached' = token[c]
    /\ expires' = now + TTL + Margin
    /\ holder' = NoCaller
    /\ IF c \in Refreshers
       THEN Leave(c)
       ELSE /\ step' = [step EXCEPT ![c] = "posting"]
            /\ since' = [since EXCEPT ![c] = now]
            /\ UNCHANGED token
    /\ UNCHANGED <<now, issued>>

\* The token is cached from its arrival on, and posted if the caller came for
\* a request.
AuthReceive(c) ==
    /\ step[c] = "granted"
    /\ cached' = token[c]
    /\ expires' = now + TTL
    /\ holder' = NoCaller
    /\ IF c \in Refreshers
       THEN Leave(c)
       ELSE /\ step' = [step EXCEPT ![c] = "posting"]
            /\ since' = [since EXCEPT ![c] = now]
            /\ UNCHANGED token
    /\ UNCHANGED <<now, issued>>

\* No token comes back: the caller gets the error, the cache stays.
AuthFail(c) ==
    /\ step[c] \in {"fetching", "granted"}
    /\ holder' = NoCaller
    /\ Leave(c)
    /\ UNCHANGED <<now, cacheVars, issued>>

Known(t) == issued[t] # Unknown

\* The request arrives.  A token found to be too old is forgotten.
Verify(c) ==
    /\ step[c] = "posting"
    /\ IF Known(token[c]) /\ now <= issued[token[c]] + TTL
       THEN step' = [step EXCEPT ![c] = "accepted"] /\ UNCHANGED issued
       ELSE /\ step' = [step EXCEPT ![c] = "rejected"]
            /\ issued' = [issued EXCEPT ![token[c]] = Unknown]
    /\ UNCHANGED <<now, cacheVars, holder, token, since>>

Answered(c) ==
    /\ step[c] = "accepted"
    /\ Leave(c)
    /\ UNCHANGED <<now, cacheVars, holder, issued>>

\* (Keeps the token.)
BugKeepRejected(c) ==
    /\ step[c] = "rejected"
    /\ Leave(c)
    /\ UNCHANGED <<now, cacheVars, holder, issued>>

\* HTTP 401 or failCode 305: invalidate(), without the lock, and an error.
Rejected(c) ==
    /\ step[c] = "rejected"
    /\ Leave(c)
    /\ cached' = NoToken
    /\ UNCHANGED <<now, expires, holder, issued>>

\* A request or its answer is lost, or late.
Lost(c) ==
    /\ step[c] \in {"posting", "accepted", "rejected"}
    /\ Leave(c)
    /\ UNCHANGED <<now, cacheVars, holder, issued>>

\* The server restarts: its tokens are in memory only.
SessionsLost ==
    /\ issued' = [t \in Tokens |-> Unknown]
    /\ UNCHANGED <<now, cacheVars, holder, callerVars>>

CacheNext ==
    \/ Tick
    \/ SessionsLost
    \/ \E c \in Coroutines :
        \/ Enter(c) \/ Acquire(c)
        \/ AuthServe(c) \/ AuthReceive(c) \/ AuthFail(c)
        \/ Verify(c) \/ Answered(c) \/ Rejected(c) \/ Lost(c)

CacheSpec == CacheInit /\ [][CacheNext]_tokenVars

\* Callers come back with requests (the loops that use the client do; nobody needs
\* to call refresh_token() again), the lock is first come first served, and a server
\* that is asked again and again answers at last.
FairCacheSpec ==
    /\ CacheSpec
    /\ \A c \in Coroutines \ Refreshers : WF_tokenVars(Enter(c))
    /\ \A c \in Coroutines :
        /\ SF_tokenVars(Acquire(c))
        /\ SF_tokenVars(AuthServe(c)) /\ SF_tokenVars(AuthReceive(c))
        /\ SF_tokenVars(Verify(c)) /\ SF_tokenVars(Rejected(c)) /\ WF_tokenVars(Answered(c))

-----------------------------------------------------------------------------
\* However long the lock, the fetch and the request take, a token reaches the
\* server before it is too old: a request is only ever rejected because the
\* server has lost the session.  The expiry the client computes from the arrival
\* of the token is later than the server's, and the margin makes up for it.
ArrivesUnexpired ==
    \A c \in Coroutines :
        (step[c] = "posting" /\ Known(token[c])) => now <= issued[token[c]] + TTL

\* connectors/huawei/auth.py:34: "an asyncio.Lock ensures only one coroutine
\* fetches a new token at a time, even under concurrent requests".  Of callers
\* that find the cache stale together one fetches and the others use what it got:
\* nobody is fetching while the cache holds a valid token.
FetchesOnlyWhenNeeded ==
    \A c \in Coroutines : step[c] \in {"fetching", "granted"} => ~Valid

\* A client whose server stops losing sessions is served again and again: no
\* rejected token stays in the cache, and late rejections of old tokens cannot
\* empty it for ever.
ServedAgain ==
    <>[][~SessionsLost]_tokenVars => \A c \in Coroutines \ Refreshers : []<>(step[c] = "accepted")
=============================================================================
