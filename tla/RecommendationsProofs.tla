----------------------- MODULE RecommendationsProofs -----------------------
(***************************************************************************)
(* Proofs about Recommendations, for all sets of viewers, mentors, blocks  *)
(* and requests.                                                           *)
(*                                                                         *)
(* Whom a viewer must not see depends on the viewer alone, and not on the  *)
(* time: a list that was filtered for him stays clean however long it is   *)
(* cached, as long as it is shown to nobody else.  That is why the owner   *)
(* of each list is part of the invariant.                                  *)
(***************************************************************************)
EXTENDS Recommendations, TLAPS

\* v may see everybody in L.
Clean(v, L) == \A m \in L : m # v /\ m \notin Blocked(v)

Filtered == {"filtered", "ranked", "answering"}

CacheIsClean == \A v \in Viewers : Clean(v, cache[v].list)

HandlersAreClean ==
    \A h \in Handlers :
        handler[h].pc \in Filtered => Clean(handler[h].viewer, handler[h].list)

IInv == TypeOK /\ CacheIsClean /\ HandlersAreClean

\* The invariant holds before the first request.
LEMMA InitInvariant == Init => IInv
<1> SUFFICES ASSUME Init PROVE IInv
    OBVIOUS
<1>1. TypeOK
  BY SizesAssumption DEF Init, TypeOK, SizesAssumption, Entry, NoEntry, Idle
<1>2. CacheIsClean /\ HandlersAreClean
  BY DEF Init, CacheIsClean, HandlersAreClean, NoEntry, Idle, Clean, Filtered
<1>3. QED
  BY <1>1, <1>2 DEF IInv

\* A step of one request that leaves the cache alone.
LEMMA RequestStep ==
    ASSUME IInv, NEW h \in Handlers, NEW r \in Request \cup {Idle},
           handler' = [handler EXCEPT ![h] = r],
           r.pc \in Filtered => Clean(r.viewer, r.list),
           UNCHANGED <<enabled, gone, cache>>
    PROVE  IInv'
<1>1. TypeOK'
  BY DEF IInv, TypeOK
<1>2. HandlersAreClean'
  BY DEF IInv, TypeOK, HandlersAreClean, Clean
<1>3. CacheIsClean'
  BY DEF IInv, CacheIsClean
<1>4. QED
  BY <1>1, <1>2, <1>3 DEF IInv

\* A request that has begun goes on with a record of the same viewer.
LEMMA Advances ==
    ASSUME IInv, NEW h \in Handlers, handler[h].pc # "idle",
           NEW pc \in Progress, NEW L \in SUBSET Mentors, Advance(h, pc, L)
    PROVE  LET r == [viewer |-> handler[h].viewer, pc |-> pc, list |-> L] IN
           /\ handler[h] \in Request
           /\ r \in Request
           /\ handler' = [handler EXCEPT ![h] = r]
<1>1. handler[h] \in Request
  BY DEF IInv, TypeOK, Idle
<1>2. QED
  BY <1>1 DEF Advance, Request

\* Every step keeps the invariant.
LEMMA StepInvariant == IInv /\ [Next]_vars => IInv'
<1> SUFFICES ASSUME IInv, [Next]_vars PROVE IInv'
    OBVIOUS
<1>1. ASSUME NEW h \in Handlers, NEW v \in Viewers, Lookup(h, v) PROVE IInv'
  <2>1. cache[v] \in Entry /\ Clean(v, cache[v].list)
    BY DEF IInv, TypeOK, CacheIsClean
  <2> DEFINE hit == [viewer |-> v, pc |-> "answering", list |-> cache[v].list]
             miss == [viewer |-> v, pc |-> "missed", list |-> {}]
  <2>2. hit \in Request /\ miss \in Request
    BY <2>1 DEF Request, Progress, Entry
  <2>3. hit.pc \in Filtered => Clean(hit.viewer, hit.list)
    BY <2>1
  <2>4. miss.pc \in Filtered => Clean(miss.viewer, miss.list)
    BY DEF Clean
  <2>5. CASE cache[v].left > 0
    <3>1. handler' = [handler EXCEPT ![h] = hit]
      BY <1>1, <2>5 DEF Lookup, Key
    <3> HIDE DEF hit
    <3>2. QED
      BY <1>1, <2>2, <2>3, <3>1, RequestStep DEF Lookup
  <2>6. CASE ~(cache[v].left > 0)
    <3>1. handler' = [handler EXCEPT ![h] = miss]
      BY <1>1, <2>6 DEF Lookup, Key
    <3> HIDE DEF miss
    <3>2. QED
      BY <1>1, <2>2, <2>4, <3>1, RequestStep DEF Lookup
  <2>7. QED
    BY <2>5, <2>6
<1>2. ASSUME NEW h \in Handlers, Search(h) PROVE IInv'
  <2>1. PICK C \in SUBSET Mentors : Advance(h, "searched", C)
    BY <1>2 DEF Search
  <2> DEFINE r == [viewer |-> handler[h].viewer, pc |-> "searched",
                   list |-> C]
  <2>2. r \in Request /\ handler' = [handler EXCEPT ![h] = r]
    BY <1>2, <2>1, Advances DEF Search, At, Progress
  <2>3. r.pc \notin Filtered
    BY DEF Filtered
  <2> HIDE DEF r
  <2>4. QED
    BY <1>2, <2>2, <2>3, RequestStep DEF Search
<1>3. ASSUME NEW h \in Handlers, Filter(h) PROVE IInv'
  <2> DEFINE v == handler[h].viewer
             L == handler[h].list \cap Eligible(v)
             r == [viewer |-> v, pc |-> "filtered", list |-> L]
  <2>1. L \in SUBSET Mentors
    BY DEF IInv, TypeOK, Eligible
  <2>2. r \in Request /\ handler' = [handler EXCEPT ![h] = r]
    BY <1>3, <2>1, Advances DEF Filter, At, Progress
  <2>3. Clean(r.viewer, r.list)
    BY DEF Clean, Eligible
  <2> HIDE DEF r
  <2>4. QED
    BY <1>3, <2>2, <2>3, RequestStep DEF Filter
<1>4. ASSUME NEW h \in Handlers, Rank(h) PROVE IInv'
  <2>1. PICK L \in SUBSET handler[h].list : Advance(h, "ranked", L)
    BY <1>4 DEF Rank
  <2>2. handler[h] \in Request
    BY <1>4 DEF Rank, At, IInv, TypeOK, Idle
  <2>3. L \in SUBSET Mentors
    BY <2>2 DEF Request
  <2> DEFINE r == [viewer |-> handler[h].viewer, pc |-> "ranked", list |-> L]
  <2>4. r \in Request /\ handler' = [handler EXCEPT ![h] = r]
    BY <1>4, <2>1, <2>3, Advances DEF Rank, At, Progress
  <2>5. Clean(handler[h].viewer, handler[h].list)
    BY <1>4 DEF Rank, At, IInv, HandlersAreClean, Filtered
  <2>6. Clean(r.viewer, r.list)
    BY <2>5 DEF Clean
  <2> HIDE DEF r
  <2>7. QED
    BY <1>4, <2>4, <2>6, RequestStep DEF Rank
<1>5. ASSUME NEW h \in Handlers, Store(h) PROVE IInv'
  <2> DEFINE v == handler[h].viewer
             L == handler[h].list
             r == [viewer |-> v, pc |-> "answering", list |-> L]
  <2>1. handler[h] \in Request
    BY <1>5 DEF Store, At, IInv, TypeOK, Idle
  <2>2. v \in Viewers /\ L \in SUBSET Mentors
    BY <2>1 DEF Request
  <2>3. r \in Request /\ handler' = [handler EXCEPT ![h] = r]
    BY <1>5, <2>2, Advances DEF Store, At, Progress
  <2>4. Clean(v, L)
    BY <1>5 DEF Store, At, IInv, HandlersAreClean, Filtered
  <2>5. [list |-> L, left |-> CacheTTL] \in Entry
    BY <2>2, SizesAssumption DEF SizesAssumption, Entry
  <2>6. cache' = [cache EXCEPT ![v] = [list |-> L, left |-> CacheTTL]]
    BY <1>5 DEF Store, Key
  <2>7. TypeOK'
    BY <1>5, <2>2, <2>3, <2>5, <2>6 DEF Store, IInv, TypeOK
  <2>8. CacheIsClean'
    BY <2>2, <2>4, <2>6 DEF IInv, TypeOK, CacheIsClean, Clean
  <2>9. HandlersAreClean'
    BY <2>3, <2>4 DEF IInv, TypeOK, HandlersAreClean, Clean
  <2>10. QED
    BY <2>7, <2>8, <2>9 DEF IInv
<1>6. ASSUME NEW h \in Handlers, Answer(h) \/ Fail(h) PROVE IInv'
  <2>1. Idle.pc \notin Filtered
    BY DEF Idle, Filtered
  <2>2. /\ handler' = [handler EXCEPT ![h] = Idle]
        /\ UNCHANGED <<enabled, gone, cache>>
    BY <1>6 DEF Answer, Fail
  <2>3. QED
    BY <2>1, <2>2, RequestStep
<1>7. ASSUME Tick PROVE IInv'
  <2>1. \A v \in Viewers : cache[v] \in Entry
    BY DEF IInv, TypeOK
  <2>2. ASSUME NEW v \in Viewers
        PROVE  cache'[v] \in Entry /\ Clean(v, cache'[v].list)
    <3>1. CASE cache[v].left <= 1
      BY <1>7, <3>1, SizesAssumption
      DEF Tick, NoEntry, Entry, Clean, SizesAssumption
    <3>2. CASE ~(cache[v].left <= 1)
      <4>1. cache'[v] = [cache[v] EXCEPT !.left = @ - 1]
        BY <1>7, <3>2 DEF Tick
      <4>2. cache'[v].list = cache[v].list
        BY <2>1, <4>1 DEF Entry
      <4>3. cache'[v] \in Entry
        BY <2>1, <3>2, <4>1, SizesAssumption DEF Entry, SizesAssumption
      <4>4. QED
        BY <4>2, <4>3 DEF IInv, CacheIsClean
    <3>3. QED
      BY <3>1, <3>2
  <2>3. TypeOK'
    BY <1>7, <2>2 DEF Tick, IInv, TypeOK
  <2>4. CacheIsClean'
    BY <2>2 DEF CacheIsClean, Clean
  <2>5. HandlersAreClean'
    BY <1>7 DEF Tick, IInv, HandlersAreClean
  <2>6. QED
    BY <2>3, <2>4, <2>5 DEF IInv
<1>8. ASSUME NEW m \in Mentors, Toggle(m) \/ Leave(m) PROVE IInv'
  <2>1. enabled' \subseteq Mentors /\ gone' \subseteq Mentors
    BY <1>8 DEF Toggle, Leave, IInv, TypeOK
  <2>2. QED
    BY <1>8, <2>1
    DEF Toggle, Leave, IInv, TypeOK, CacheIsClean, HandlersAreClean
<1>9. ASSUME UNCHANGED vars PROVE IInv'
  BY <1>9 DEF vars, IInv, TypeOK, CacheIsClean, HandlersAreClean
<1>10. QED
  BY <1>1, <1>2, <1>3, <1>4, <1>5, <1>6, <1>7, <1>8, <1>9 DEF Next, Work

\* The invariant holds in every behaviour.
THEOREM Invariance == Spec => []IInv
BY InitInvariant, StepInvariant, PTL DEF Spec

\* Profiles, entries and requests keep their types.
THEOREM TypeCorrect == Spec => []TypeOK
<1>1. IInv => TypeOK
  BY DEF IInv
<1>2. QED
  BY <1>1, Invariance, PTL

\* Nobody is recommended himself or a user on the other side of a block, from
\* the cache or not.
THEOREM OthersOnly == Spec => []OnlyOthersAreShown
<1>1. IInv => OnlyOthersAreShown
  <2> SUFFICES ASSUME IInv, NEW v \in Viewers, NEW m \in Mentors,
                      m = v \/ m \in Blocked(v), NEW L \in Lists(v)
               PROVE  m \notin L
    BY DEF OnlyOthersAreShown
  <2>1. Clean(v, L)
    BY DEF IInv, CacheIsClean, HandlersAreClean, Lists, Filtered
  <2>2. QED
    BY <2>1 DEF Clean
<1>2. QED
  BY <1>1, Invariance, PTL
-----------------------------------------------------------------------------
(* Mentors who are gone.                                                   *)

\* What Hidden says of the cache and of every request.
LEMMA HiddenMeans ==
    ASSUME NEW m, NEW v \in Viewers
    PROVE  Hidden(m, v) <=>
               /\ m \notin cache[v].list
               /\ \A h \in Handlers :
                      handler[h].pc \in Filtered /\ handler[h].viewer = v =>
                          m \notin handler[h].list
  BY DEF Hidden, Lists, Filtered

\* A step of one request that leaves the cache alone brings nobody back whom
\* the request does not bring back.
LEMMA HiddenFromRequest ==
    ASSUME IInv, NEW m, NEW v \in Viewers, Hidden(m, v),
           NEW h \in Handlers, NEW r,
           handler' = [handler EXCEPT ![h] = r],
           r.pc \in Filtered /\ r.viewer = v => m \notin r.list,
           UNCHANGED cache
    PROVE  Hidden(m, v)'
<1>1. ASSUME NEW g \in Handlers,
             handler'[g].pc \in Filtered /\ handler'[g].viewer = v
      PROVE  m \notin handler'[g].list
  BY <1>1, HiddenMeans DEF IInv, TypeOK
<1>2. m \notin cache'[v].list
  BY HiddenMeans
<1> QED
  BY <1>1, <1>2 DEF Hidden, Lists, Filtered

\* Nothing brings back a mentor who is gone.
LEMMA HiddenStep ==
    ASSUME IInv, [Next]_vars,
           NEW m \in gone, NEW v \in Viewers, Hidden(m, v)
    PROVE  Hidden(m, v)'
<1>1. ASSUME NEW h \in Handlers, NEW w \in Viewers, Lookup(h, w)
      PROVE  Hidden(m, v)'
  <2> DEFINE r == IF cache[Key(w)].left > 0
                  THEN [viewer |-> w, pc |-> "answering",
                        list |-> cache[Key(w)].list]
                  ELSE [viewer |-> w, pc |-> "missed", list |-> {}]
  <2>1. r.viewer = v => m \notin r.list
    BY HiddenMeans DEF Key
  <2>2. handler' = [handler EXCEPT ![h] = r] /\ UNCHANGED cache
    BY <1>1 DEF Lookup
  <2> HIDE DEF r
  <2> QED
    BY <2>1, <2>2, HiddenFromRequest
<1>2. ASSUME NEW h \in Handlers, Search(h) PROVE Hidden(m, v)'
  <2>1. PICK C \in SUBSET Mentors : Advance(h, "searched", C)
    BY <1>2 DEF Search
  <2> QED
    BY <1>2, <2>1, HiddenFromRequest DEF Search, Advance, Filtered
<1>3. ASSUME NEW h \in Handlers, Filter(h) PROVE Hidden(m, v)'
  <2>1. m \notin handler[h].list \cap Eligible(handler[h].viewer)
    BY DEF Eligible
  <2> QED
    BY <1>3, <2>1, HiddenFromRequest DEF Filter, Advance
<1>4. ASSUME NEW h \in Handlers, Rank(h) PROVE Hidden(m, v)'
  <2>1. PICK L \in SUBSET handler[h].list : Advance(h, "ranked", L)
    BY <1>4 DEF Rank
  <2>2. handler[h].viewer = v => m \notin L
    BY <1>4, HiddenMeans DEF Rank, At, Filtered
  <2> QED
    BY <1>4, <2>1, <2>2, HiddenFromRequest DEF Rank, Advance
<1>5. ASSUME NEW h \in Handlers, Store(h) PROVE Hidden(m, v)'
  <2> DEFINE w == handler[h].viewer
             L == handler[h].list
             r == [viewer |-> w, pc |-> "answering", list |-> L]
  <2>1. w = v => m \notin L
    BY <1>5, HiddenMeans DEF Store, At, Filtered
  <2>2. /\ handler' = [handler EXCEPT ![h] = r]
        /\ cache' = [cache EXCEPT ![w] = [list |-> L, left |-> CacheTTL]]
    BY <1>5 DEF Store, Advance, Key
  <2>3. m \notin cache'[v].list
    BY <2>1, <2>2, HiddenMeans DEF IInv, TypeOK
  <2>4. ASSUME NEW g \in Handlers,
               handler'[g].pc \in Filtered /\ handler'[g].viewer = v
        PROVE  m \notin handler'[g].list
    BY <2>1, <2>2, <2>4, HiddenMeans DEF IInv, TypeOK
  <2> QED
    BY <2>3, <2>4 DEF Hidden, Lists, Filtered
<1>6. ASSUME NEW h \in Handlers, Answer(h) \/ Fail(h) PROVE Hidden(m, v)'
  <2>1. Idle.pc \notin Filtered
    BY DEF Idle, Filtered
  <2>2. handler' = [handler EXCEPT ![h] = Idle] /\ UNCHANGED cache
    BY <1>6 DEF Answer, Fail
  <2> QED
    BY <2>1, <2>2, HiddenFromRequest
<1>7. ASSUME Tick PROVE Hidden(m, v)'
  <2>1. m \notin cache'[v].list
    <3>1. CASE cache[v].left <= 1
      BY <1>7, <3>1 DEF Tick, NoEntry
    <3>2. CASE ~(cache[v].left <= 1)
      <4>1. cache'[v] = [cache[v] EXCEPT !.left = @ - 1]
        BY <1>7, <3>2 DEF Tick
      <4>2. cache'[v].list = cache[v].list
        BY <4>1 DEF IInv, TypeOK, Entry
      <4> QED
        BY <4>2, HiddenMeans
    <3> QED
      BY <3>1, <3>2
  <2>2. UNCHANGED handler
    BY <1>7 DEF Tick
  <2> QED
    BY <2>1, <2>2, HiddenMeans DEF Hidden, Lists, Filtered
<1>8. ASSUME UNCHANGED <<cache, handler>> PROVE Hidden(m, v)'
  BY <1>8 DEF Hidden, Lists
<1> QED
  BY <1>1, <1>2, <1>3, <1>4, <1>5, <1>6, <1>7, <1>8
  DEF Next, Work, vars, Toggle, Leave

\* Users who were banned or deleted stay so.
LEMMA GoneStep == ASSUME [Next]_vars, NEW m \in gone PROVE m \in gone'
  BY DEF Next, Work, vars, Lookup, Search, Filter, Rank, Store, Answer, Fail,
     Tick, Toggle, Leave

\* No cache entry, no old request and no other viewer brings a mentor who is
\* gone back to a viewer whose lists do not contain him any more.
THEOREM GoneAreHidden == Spec => GoneStayHidden
<1>1. IInv /\ [Next]_vars =>
          [\A m \in gone, v \in Viewers : Hidden(m, v) => Hidden(m, v)']_vars
  BY HiddenStep
<1> QED
  BY <1>1, Invariance, PTL DEF Spec, GoneStayHidden

\* What GoneMentorsVanish rests on: if the lists of all viewers are ever free
\* of a mentor who is gone, they are free of him for good.
THEOREM GoneForGood ==
    ASSUME NEW m \in Mentors
    PROVE  Spec => [](/\ m \in gone
                      /\ \A v \in Viewers : Hidden(m, v)
                      => [](\A v \in Viewers : Hidden(m, v)))
<1> DEFINE Out == m \in gone /\ \A v \in Viewers : Hidden(m, v)
<1>1. IInv /\ [Next]_vars => (Out => Out')
  BY HiddenStep, GoneStep
<1>2. Out => \A v \in Viewers : Hidden(m, v)
  OBVIOUS
<1> HIDE DEF Out
<1>3. Spec => [](Out => []Out)
  BY <1>1, Invariance, PTL DEF Spec
<1> QED
  BY <1>2, <1>3, PTL DEF Out

=============================================================================
