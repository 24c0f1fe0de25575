-------------------------- MODULE Recommendations --------------------------
(***************************************************************************)
(* GET /recommendations for one topic: a read-through cache in Redis, with *)
(* one entry for each viewer, before a search in PostgreSQL, while mentors *)
(* are disabled, enabled, banned and deleted.                              *)
(*                                                                         *)
(* The search is four statements with an await between them: the closest   *)
(* candidates, the filter, the open reports, and the profiles to show.     *)
(* Only the filter looks at who may be shown.  Nothing removes an entry of *)
(* the cache but its expiry.  Similarity, reports and ratings decide which *)
(* mentors are closest and best; here any of them may be.                  *)
(***************************************************************************)
EXTENDS Naturals, FiniteSets

CONSTANTS
    Viewers,        \* users who ask for recommendations
    Mentors,        \* users with a profile; they may be viewers, too
    Blocks,         \* pairs <<blocker, blocked>>; no code creates any
    Handlers,       \* requests that are processed at the same time
    Limits,         \* values of the query parameter limit
    MaxCandidates,  \* 100 in recommend_mentors
    CacheTTL        \* recommendations_cache_ttl_seconds, in ticks

ASSUME SizesAssumption ==
    /\ Limits \subseteq Nat
    /\ MaxCandidates \in Nat
    /\ CacheTTL \in Nat \ {0}
ASSUME MentorsAssumption == IsFiniteSet(Mentors)

VARIABLES
    enabled,  \* mentors whose profile is enabled
    gone,     \* mentors who are banned or deleted, which is for ever
    cache,    \* cache[v]: the entry of viewer v and the ticks it has left
    handler   \* handler[h]: the request h works on and its list so far

vars == <<enabled, gone, cache, handler>>

Entry == [list : SUBSET Mentors, left : 0 .. CacheTTL]

NoEntry == [list |-> {}, left |-> 0]

\* The cache has no entry; the candidates are known; they are filtered; the
\* list to show is cut to the limit; the answer is on its way.
Progress == {"missed", "searched", "filtered", "ranked", "answering"}

Request == [viewer : Viewers, pc : Progress, list : SUBSET Mentors]

Idle == [pc |-> "idle", list |-> {}]

TypeOK ==
    /\ enabled \subseteq Mentors
    /\ gone \subseteq Mentors
    /\ cache \in [Viewers -> Entry]
    /\ handler \in [Handlers -> Request \cup {Idle}]

Init ==
    /\ enabled \in SUBSET Mentors
    /\ gone = {}
    /\ cache = [v \in Viewers |-> NoEntry]
    /\ handler = [h \in Handlers |-> Idle]

-----------------------------------------------------------------------------
At(h, pc) == handler[h].pc = pc

Advance(h, pc, list) ==
    handler' = [handler EXCEPT ![h] =
        [viewer |-> handler[h].viewer, pc |-> pc, list |-> list]]

\* Users whom v may not see, because one of them has blocked the other.
Blocked(v) == {u \in Mentors : <<v, u>> \in Blocks \/ <<u, v>> \in Blocks}

\* Mutant of Eligible: who is gone is taken to be disabled.
EligibleEnabled(v) == enabled \ ({v} \cup Blocked(v))

\* The WHERE clause of the profiles query.
Eligible(v) == (enabled \ gone) \ ({v} \cup Blocked(v))

\* Mutant of Key: the entries of all viewers of a topic are one.
KeyOfTopic(v) == CHOOSE w \in Viewers : TRUE

\* The key of the entry, which does not contain the limit.
Key(v) == v

\* Mutant of Lookup: an entry that is used is kept for another TTL.
LookupRenews(h, v) ==
    /\ At(h, "idle")
    /\ handler' = [handler EXCEPT ![h] =
           IF cache[Key(v)].left > 0
           THEN [viewer |-> v, pc |-> "answering", list |-> cache[Key(v)].list]
           ELSE [viewer |-> v, pc |-> "missed", list |-> {}]]
    /\ cache' = [cache EXCEPT ![Key(v)].left = IF @ > 0 THEN CacheTTL ELSE 0]
    /\ UNCHANGED <<enabled, gone>>

\* redis.get: an entry is the answer, whatever limit the request has.
Lookup(h, v) ==
    /\ At(h, "idle")
    /\ handler' = [handler EXCEPT ![h] =
           IF cache[Key(v)].left > 0
           THEN [viewer |-> v, pc |-> "answering", list |-> cache[Key(v)].list]
           ELSE [viewer |-> v, pc |-> "missed", list |-> {}]]
    /\ UNCHANGED <<enabled, gone, cache>>

\* The mentors closest to the topic, none if the topic has no vector.  They
\* are cut to MaxCandidates before anybody looks whether they may be shown.
Search(h) ==
    /\ At(h, "missed")
    /\ \E C \in SUBSET Mentors :
           /\ Cardinality(C) <= MaxCandidates
           /\ Advance(h, "searched", C)
    /\ UNCHANGED <<enabled, gone, cache>>

Filter(h) ==
    /\ At(h, "searched")
    /\ Advance(h, "filtered", handler[h].list \cap Eligible(handler[h].viewer))
    /\ UNCHANGED <<enabled, gone, cache>>

\* The best of the list, as many as the limit allows.  The profiles of all
\* of them are then read without another filter.
Rank(h) ==
    /\ At(h, "filtered")
    /\ \E limit \in Limits, L \in SUBSET handler[h].list :
           /\ \/ L = handler[h].list /\ Cardinality(L) <= limit
              \/ L # handler[h].list /\ Cardinality(L) = limit
           /\ Advance(h, "ranked", L)
    /\ UNCHANGED <<enabled, gone, cache>>

\* redis.setex, also of an empty list; it replaces an entry that another
\* request has made meanwhile, whichever of them is older.
Store(h) ==
    /\ At(h, "ranked")
    /\ cache' = [cache EXCEPT ![Key(handler[h].viewer)] =
           [list |-> handler[h].list, left |-> CacheTTL]]
    /\ Advance(h, "answering", handler[h].list)
    /\ UNCHANGED <<enabled, gone>>

Answer(h) ==
    /\ At(h, "answering")
    /\ handler' = [handler EXCEPT ![h] = Idle]
    /\ UNCHANGED <<enabled, gone, cache>>

\* The process stops, or PostgreSQL or Redis does not answer.
Fail(h) ==
    /\ ~At(h, "idle")
    /\ handler' = [handler EXCEPT ![h] = Idle]
    /\ UNCHANGED <<enabled, gone, cache>>

\* One tick passes; entries that have none left expire.
Tick ==
    /\ \E v \in Viewers : cache[v].left > 0
    /\ cache' = [v \in Viewers |->
           IF cache[v].left <= 1 THEN NoEntry
           ELSE [cache[v] EXCEPT !.left = @ - 1]]
    /\ UNCHANGED <<enabled, gone, handler>>

(* What happens to mentors meanwhile, see Moderation.                      *)

Toggle(m) ==
    /\ enabled' = IF m \in enabled THEN enabled \ {m} ELSE enabled \cup {m}
    /\ UNCHANGED <<gone, cache, handler>>

\* A ban or a deletion may leave the profile enabled.
Leave(m) ==
    /\ m \notin gone
    /\ gone' = gone \cup {m}
    /\ enabled' \in {enabled, enabled \ {m}}
    /\ UNCHANGED <<cache, handler>>

Work(h) == Search(h) \/ Filter(h) \/ Rank(h) \/ Store(h) \/ Answer(h)

Next ==
    \/ \E h \in Handlers :
           (\E v \in Viewers : Lookup(h, v)) \/ Work(h) \/ Fail(h)
    \/ \E m \in Mentors : Toggle(m) \/ Leave(m)
    \/ Tick

Spec == Init /\ [][Next]_vars

\* Time passes and requests go on.  Nothing makes users ask, or stop asking.
Fairness == WF_vars(Tick) /\ \A h \in Handlers : WF_vars(Work(h))

FairSpec == Spec /\ Fairness

-----------------------------------------------------------------------------
\* Lists that a request of v may still show or store, or that are stored.
Lists(v) ==
    {cache[v].list} \cup
    {handler[h].list : h \in {g \in Handlers :
        /\ handler[g].pc \in {"filtered", "ranked", "answering"}
        /\ handler[g].viewer = v}}

\* Nobody is recommended to himself, or to somebody who blocked him or whom
\* he blocked, also not through the cache and whoever else asks.
OnlyOthersAreShown ==
    \A v \in Viewers, m \in Mentors :
        m = v \/ m \in Blocked(v) => \A L \in Lists(v) : m \notin L

\* No list that v may be shown contains m.
Hidden(m, v) == \A L \in Lists(v) : m \notin L

\* A mentor who is gone never comes back to a viewer: once he is in none of
\* the lists for that viewer, no cache entry, no request that has been under
\* way for long and no step of another viewer brings him back.
GoneStayHidden ==
    [][\A m \in gone, v \in Viewers : Hidden(m, v) => Hidden(m, v)']_vars

\* A mentor who was banned or deleted disappears from every answer for good,
\* although nothing removes him from the cache and the lists of requests
\* that filtered him before are stored after it.
GoneMentorsVanish ==
    \A m \in Mentors :
        m \in gone ~> [](\A v \in Viewers : Hidden(m, v))
=============================================================================
