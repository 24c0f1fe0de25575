----------------------------- MODULE RateLimit -----------------------------
(***************************************************************************)
(* The rate limit of GET /recommendations for one user: check_rate_limit   *)
(* on one key of Redis.                                                    *)
(*                                                                         *)
(* INCR, EXPIRE and TTL are three commands, each atomic in Redis, with an  *)
(* await between them: any other request, the clock, or the end of the     *)
(* process may come in between.  Time is counted in ticks, and the time to *)
(* live of the key decreases with it.  The counter is compared with 1 and  *)
(* with the limit only; every value above the limit is the same here.      *)
(***************************************************************************)
EXTENDS Naturals

CONSTANTS
    Requests,  \* slots for requests of the user that are processed at once
    Limit,     \* recommendations_rate_limit_per_minute
    Window     \* window_seconds, in ticks

ASSUME LimitAssumption == Limit \in Nat \ {0}
ASSUME WindowAssumption == Window \in Nat \ {0}

VARIABLES
    count,     \* value of the key, 0 if it does not exist
    ttl,       \* ticks until the key expires, 0 if it never does
    request,   \* request[r]: how far the request in slot r has come
    orphaned,  \* history: INCR made the key and EXPIRE never came
    age,       \* history: ticks since INCR made the key, up to Window
    granted    \* history: requests let through since INCR made the key

vars == <<count, ttl, request, orphaned, age, granted>>

\* A request has made the key and has to give it an expiry, or it is over
\* the limit and has to ask how long.
Progress == {"idle", "first", "over"}

Counts == 0 .. (Limit + 1)

TypeOK ==
    /\ count \in Counts
    /\ ttl \in 0 .. Window
    /\ request \in [Requests -> Progress]
    /\ orphaned \in BOOLEAN
    /\ age \in 0 .. Window
    /\ granted \in Nat

Init ==
    /\ count = 0
    /\ ttl = 0
    /\ request = [r \in Requests |-> "idle"]
    /\ orphaned = FALSE
    /\ age = 0
    /\ granted = 0

-----------------------------------------------------------------------------
\* The counter after INCR.
Incremented == IF count > Limit THEN count ELSE count + 1

\* What becomes of r after INCR: one that neither made the key nor is over
\* the limit is let through.
Proceed(r, next) ==
    /\ request' = [request EXCEPT ![r] = next]
    /\ granted' = IF next = "idle" THEN granted + 1 ELSE granted

\* Mutant of Incr: the request that makes the key is let through at once.
IncrNoExpiry(r) ==
    /\ request[r] = "idle"
    /\ count' = Incremented
    /\ Proceed(r, IF count' > Limit THEN "over" ELSE "idle")
    /\ UNCHANGED <<ttl, orphaned, age>>

\* Mutant of Incr: the limit is compared with the counter before INCR.
IncrBefore(r) ==
    /\ request[r] = "idle"
    /\ count' = Incremented
    /\ Proceed(r, CASE count' = 1 -> "first"
                    [] count > Limit -> "over"
                    [] OTHER -> "idle")
    /\ UNCHANGED <<ttl, orphaned, age>>

\* current = await redis.incr(key), and the comparisons.
Incr(r) ==
    /\ request[r] = "idle"
    /\ count' = Incremented
    /\ Proceed(r, CASE count' = 1 -> "first"
                    [] count' > Limit -> "over"
                    [] OTHER -> "idle")
    /\ UNCHANGED <<ttl, orphaned, age>>

\* EXPIRE does nothing to a key that does not exist.
SetExpiry == ttl' = IF count > 0 THEN Window ELSE ttl

\* await redis.expire(key, window_seconds), and the request is let through.
Expire(r) ==
    /\ request[r] = "first"
    /\ SetExpiry
    /\ Proceed(r, "idle")
    /\ UNCHANGED <<count, orphaned, age>>

\* Mutant of Refuse: a refused request starts the window afresh.
RefuseExtends(r) ==
    /\ request[r] = "over"
    /\ request' = [request EXCEPT ![r] = "idle"]
    /\ ttl' = IF ttl > 0 THEN Window ELSE ttl
    /\ UNCHANGED <<count, orphaned, age, granted>>

\* await redis.ttl(key) and the answer 429.  The key may have expired since
\* INCR, or have no expiry yet; Retry-After is 1 then, and the answer is the
\* same.
Refuse(r) ==
    /\ request[r] = "over"
    /\ request' = [request EXCEPT ![r] = "idle"]
    /\ UNCHANGED <<count, ttl, orphaned, age, granted>>

\* INCR was carried out, but its answer does not come, or the process stops.
Lose(r) ==
    /\ request[r] = "idle"
    /\ count' = Incremented
    /\ orphaned' = (orphaned \/ count' = 1)
    /\ UNCHANGED <<ttl, request, age, granted>>

\* The same later: EXPIRE may have been carried out or not.
Fail(r) ==
    /\ request[r] # "idle"
    /\ request' = [request EXCEPT ![r] = "idle"]
    /\ \/ orphaned' = (orphaned \/ request[r] = "first") /\ UNCHANGED ttl
       \/ request[r] = "first" /\ SetExpiry /\ UNCHANGED orphaned
    /\ UNCHANGED <<count, age, granted>>

Aged == IF age < Window THEN age + 1 ELSE age

\* One tick passes while the key exists; at the last one the key expires.
Tick ==
    /\ count > 0
    /\ IF ttl = 1
       THEN count' = 0 /\ ttl' = 0 /\ age' = 0 /\ granted' = 0
       ELSE /\ ttl' = (IF ttl = 0 THEN 0 ELSE ttl - 1)
            /\ age' = Aged
            /\ UNCHANGED <<count, granted>>
    /\ UNCHANGED <<request, orphaned>>

Next ==
    \/ \E r \in Requests : Incr(r) \/ Expire(r) \/ Refuse(r) \/ Lose(r) \/ Fail(r)
    \/ Tick

Spec == Init /\ [][Next]_vars

\* Time passes, and a request that waits for Redis is answered or fails.
\* Nothing makes users send requests, or stop sending them.
Fairness ==
    /\ WF_vars(Tick)
    /\ \A r \in Requests : WF_vars(Expire(r) \/ Refuse(r))

FairSpec == Spec /\ Fairness

-----------------------------------------------------------------------------
\* A key without expiry locks the user out.  There is one only while the
\* request that made it is still about to send EXPIRE, or after that request
\* was lost between INCR and EXPIRE.
KeysExpire ==
    count > 0 /\ ttl = 0 =>
        orphaned \/ \E r \in Requests : request[r] = "first"

\* A user over the limit is let in again, however often he tries meanwhile:
\* attempts must not extend the window.  The exception is a lost EXPIRE.
RefusalsEnd == count > Limit ~> count = 0 \/ orphaned

\* Whatever happens between the three commands, no more requests are let
\* through in the life of a key than the limit, and no key lives for less
\* than a window.
Promise == INSTANCE Quota WITH
    Limit <- Limit,
    Window <- Window,
    open <- count > 0,
    used <- granted,
    age <- age

ImplementsQuota == Promise!Spec
=============================================================================
