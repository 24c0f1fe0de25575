----------------------- MODULE MentorProfilesProofs -----------------------
(***************************************************************************)
(* Proofs about MentorProfiles, for all sets of texts, topics and          *)
(* requests.                                                               *)
(*                                                                         *)
(* A handler that nobody has overtaken holds what the rows say: the text   *)
(* from the step on that reads the profile, the topics from the step on    *)
(* that reads them.  Each commit that changes a row makes all the others   *)
(* stale that hold something, so that what remains to be looked at is the  *)
(* handler that commits.                                                   *)
(***************************************************************************)
EXTENDS MentorProfiles, TLAPS

Holding == {"replace", "rows_read", "deleted", "described", "encoded", "ready"}

\* What w holds is what the rows say if these are text and S.
Fresh(w, text, S) ==
    /\ w.pc \in Holding => w.text = text
    /\ w.pc \in {"encoded", "ready"} => w.seen = S

FreshUnlessStale ==
    \A h \in Handlers \ stale : Fresh(handler[h], profile, topics)

\* There is work for an existing profile only, and profiles are for ever.
WorkNeedsProfile == \A h \in Handlers : handler[h] # Idle => profile # NoText

IInv ==
    /\ TypeOK
    /\ WorkNeedsProfile
    /\ FreshUnlessStale
    /\ CurrentUnlessOvertaken

States == Work \cup {Idle}

\* Where a handler is tells what it carries.
LEMMA Shapes ==
    ASSUME TypeOK, NEW h \in Handlers
    PROVE  /\ handler[h] \in States
           /\ At(h, "edit") => handler[h] \in Edit
           /\ At(h, "replace") \/ At(h, "rows_read") \/ At(h, "deleted") =>
                  handler[h] \in Replacement
           /\ \/ At(h, "committed") \/ At(h, "described")
              \/ At(h, "encoded") \/ At(h, "ready")
              => handler[h] \in Generation
           /\ ~At(h, "idle") <=> handler[h] # Idle
BY DEF TypeOK, States, Work, Idle, At, Edit, Replacement, Generation

\* A request begins to make a vector with a record of the right type.
LEMMA Generations ==
    ASSUME NEW pc \in {"committed", "described"}, NEW text \in Texts,
           NEW first \in BOOLEAN
    PROVE  /\ Generate(pc, text, first) \in Generation
           /\ Generate(pc, text, first).pc = pc
           /\ Generate(pc, text, first).text = text
           /\ Generate(pc, text, first) # Idle
BY DEF Generate, Generation, Idle

\* The invariant holds before there is a profile.
LEMMA InitInvariant == Init => IInv
<1> SUFFICES ASSUME Init PROVE IInv
    OBVIOUS
<1>1. TypeOK
  BY DEF Init, TypeOK
<1>2. WorkNeedsProfile /\ FreshUnlessStale /\ CurrentUnlessOvertaken
  BY DEF Init, WorkNeedsProfile, FreshUnlessStale, CurrentUnlessOvertaken,
     Idle, Fresh, Holding
<1>3. QED
  BY <1>1, <1>2 DEF IInv

\* A step that changes no row but perhaps the vector.
LEMMA Moves ==
    ASSUME IInv, NEW h \in Handlers, NEW w \in States,
           handler' = [handler EXCEPT ![h] = w],
           w # Idle => profile # NoText,
           UNCHANGED <<profile, topics>>,
           \/ stale' = stale
           \/ stale' = stale \ {h} /\ w = Idle,
           vector' \in Vector \cup {NoVector},
           current' \in BOOLEAN, halfDone' \in BOOLEAN,
           current' => vector' = [text |-> profile, topics |-> topics],
           h \notin stale => Fresh(w, profile, topics)
    PROVE  IInv'
<1>1. TypeOK'
  BY DEF IInv, TypeOK, States
<1>2. WorkNeedsProfile'
  BY DEF IInv, TypeOK, WorkNeedsProfile
<1>3. FreshUnlessStale'
  <2>1. Fresh(Idle, profile, topics)
    BY DEF Fresh, Holding, Idle
  <2>2. QED
    BY <2>1 DEF IInv, TypeOK, FreshUnlessStale
<1>4. CurrentUnlessOvertaken'
  BY DEF CurrentUnlessOvertaken
<1>5. QED
  BY <1>1, <1>2, <1>3, <1>4 DEF IInv

\* A step in which h commits a change of the profile or its topics.
LEMMA Overtakes ==
    ASSUME IInv, NEW h \in Handlers,
           handler' \in [Handlers -> States],
           \A g \in Handlers \ {h} : handler'[g].pc = handler[g].pc,
           profile' \in Texts, topics' \subseteq Topics,
           UNCHANGED <<vector, halfDone>>,
           current' = FALSE,
           stale' \subseteq Handlers,
           \A g \in Handlers \ {h} : Holds(g) => g \in stale',
           h \notin stale' => Fresh(handler'[h], profile', topics')
    PROVE  IInv'
<1>1. TypeOK'
  BY DEF IInv, TypeOK, States
<1>2. WorkNeedsProfile'
  BY TextsAssumption DEF WorkNeedsProfile, TextsAssumption
<1>3. FreshUnlessStale'
  <2>1. ASSUME NEW g \in Handlers \ {h}, g \notin stale'
        PROVE  Fresh(handler'[g], profile', topics')
    BY <2>1 DEF Holds, Fresh, Holding
  <2>2. QED
    BY <2>1 DEF FreshUnlessStale
<1>4. CurrentUnlessOvertaken'
  BY DEF CurrentUnlessOvertaken
<1>5. QED
  BY <1>1, <1>2, <1>3, <1>4 DEF IInv

\* CommitRows changes where h is, and nobody else.
LEMMA RowsCommitted ==
    ASSUME TypeOK, NEW h \in Handlers, NEW w \in States, CommitRows(h, w)
    PROVE  /\ handler' \in [Handlers -> States]
           /\ handler'[h] = w
           /\ \A g \in Handlers \ {h} : handler'[g].pc = handler[g].pc
<1>1. ASSUME NEW g \in Handlers \ {h}
      PROVE  handler'[g] \in States /\ handler'[g].pc = handler[g].pc
  <2>1. CASE handler[g].pc \in {"rows_read", "deleted"}
    <3>1. handler[g] \in Replacement
      BY <2>1, Shapes DEF At
    <3> DEFINE left == handler[g].rows \ handler[h].rows
    <3>2. left \in SUBSET Topics
      BY <3>1 DEF Replacement
    <3>3. handler'[g] = [handler[g] EXCEPT !.rows = left]
      BY <2>1 DEF CommitRows
    <3> HIDE DEF left
    <3>4. [handler[g] EXCEPT !.rows = left] \in Replacement
      BY <3>1, <3>2 DEF Replacement
    <3>5. [handler[g] EXCEPT !.rows = left].pc = handler[g].pc
      BY <3>1 DEF Replacement
    <3>6. QED
      BY <3>3, <3>4, <3>5 DEF States, Work
  <2>2. CASE handler[g].pc \notin {"rows_read", "deleted"}
    <3>1. handler'[g] = handler[g]
      BY <2>2 DEF CommitRows
    <3>2. QED
      BY <3>1, Shapes
  <2>3. QED
    BY <2>1, <2>2
<1>2. handler'[h] = w
  BY DEF CommitRows
<1>3. handler' = [g \in Handlers |-> handler'[g]]
  BY DEF CommitRows
<1>4. QED
  BY <1>1, <1>2, <1>3

\* Every step keeps the invariant.
LEMMA StepInvariant == IInv /\ [Next]_vars => IInv'
<1> SUFFICES ASSUME IInv, [Next]_vars PROVE IInv'
    OBVIOUS
<1>0. /\ handler \in [Handlers -> States]
      /\ profile \in Texts \cup {NoText}
      /\ topics \subseteq Topics
      /\ stale \subseteq Handlers
      /\ vector \in Vector \cup {NoVector}
      /\ current \in BOOLEAN /\ halfDone \in BOOLEAN
      /\ current => vector = [text |-> profile, topics |-> topics]
      /\ Idle \in States /\ Fresh(Idle, profile, topics)
  BY DEF IInv, TypeOK, States, CurrentUnlessOvertaken, Fresh, Holding, Idle
<1>1. ASSUME NEW h \in Handlers, NEW t \in Texts, Create(h, t) PROVE IInv'
  <2> DEFINE w == Generate("committed", t, TRUE)
  <2>1. w \in States /\ w.pc = "committed"
    BY Generations DEF States, Work
  <2> HIDE DEF w
  <2>2. handler' = [handler EXCEPT ![h] = w]
    BY <1>1 DEF Create, Go, w
  <2>3. Fresh(handler'[h], profile', topics')
    BY <1>0, <2>1, <2>2 DEF Fresh, Holding
  <2>4. QED
    BY <1>0, <1>1, <2>1, <2>2, <2>3, Overtakes DEF Create, Overtake
<1>2. ASSUME NEW h \in Handlers, NEW t \in Texts, LoadUpdate(h, t)
      PROVE  IInv'
  <2> DEFINE w == [pc |-> "edit", text |-> profile, new |-> t]
  <2>1. w \in States /\ w.pc = "edit" /\ profile # NoText
    BY <1>0, <1>2 DEF LoadUpdate, States, Work, Edit
  <2> HIDE DEF w
  <2>2. handler' = [handler EXCEPT ![h] = w]
    BY <1>2 DEF LoadUpdate, Go, w
  <2>3. Fresh(w, profile, topics)
    BY <2>1 DEF Fresh, Holding
  <2>4. QED
    BY <1>0, <1>2, <2>1, <2>2, <2>3, Moves DEF LoadUpdate, history
<1>3. ASSUME NEW h \in Handlers, CommitUpdate(h) PROVE IInv'
  <2>1. handler[h] \in Edit /\ handler[h] # Idle
    BY <1>3, Shapes DEF CommitUpdate, IInv, At, Idle
  <2>2. profile \in Texts /\ handler[h].new \in Texts
    BY <1>0, <2>1 DEF IInv, WorkNeedsProfile, Edit
  <2> DEFINE w == Generate("committed", handler[h].new, FALSE)
  <2>3. w \in States /\ w.pc = "committed"
    BY <2>2, Generations DEF States, Work
  <2> HIDE DEF w
  <2>4. handler' = [handler EXCEPT ![h] = w]
    BY <1>3 DEF CommitUpdate, Go, w
  <2>5. Fresh(handler'[h], profile', topics')
    BY <1>0, <2>3, <2>4 DEF Fresh, Holding
  <2>6. QED
    BY <1>0, <1>3, <2>2, <2>3, <2>4, <2>5, Overtakes
    DEF CommitUpdate, Overtake
<1>4. ASSUME NEW h \in Handlers, NEW S \in SUBSET Topics,
             NEW clear \in BOOLEAN, LoadReplace(h, S, clear)
      PROVE  IInv'
  <2> DEFINE w == [pc |-> "replace", text |-> profile, wanted |-> S,
                   rows |-> {}, clear |-> clear]
  <2>1. w \in States /\ profile # NoText
    BY <1>0, <1>4 DEF LoadReplace, States, Work, Replacement
  <2>2. Fresh(w, profile, topics)
    BY DEF Fresh, Holding
  <2> HIDE DEF w
  <2>3. handler' = [handler EXCEPT ![h] = w]
    BY <1>4 DEF LoadReplace, Go, w
  <2>4. QED
    BY <1>0, <1>4, <2>1, <2>2, <2>3, Moves DEF LoadReplace, history
<1>5. ASSUME NEW h \in Handlers, ReadRows(h) PROVE IInv'
  <2>1. handler[h] \in Replacement /\ handler[h] # Idle
    BY <1>5, Shapes DEF ReadRows, IInv, At, Idle
  <2> DEFINE w == [handler[h] EXCEPT !.pc = "rows_read", !.rows = topics]
  <2>2. w \in Replacement
    BY <1>0, <2>1 DEF Replacement
  <2>3. w.pc = "rows_read" /\ w.text = handler[h].text
    BY <2>1 DEF Replacement
  <2>4. handler' = [handler EXCEPT ![h] = w]
    BY <1>0, <1>5 DEF ReadRows
  <2> HIDE DEF w
  <2>5. h \notin stale => Fresh(w, profile, topics)
    BY <1>5, <2>3 DEF ReadRows, At, IInv, FreshUnlessStale, Fresh, Holding
  <2>6. QED
    BY <1>0, <1>5, <2>1, <2>2, <2>4, <2>5, Moves
    DEF ReadRows, history, States, Work, IInv, WorkNeedsProfile
<1>6. ASSUME NEW h \in Handlers, CommitClear(h) PROVE IInv'
  <2>1. handler[h] # Idle
    BY <1>6 DEF CommitClear, At, Idle
  <2>2. profile \in Texts
    BY <1>0, <2>1 DEF IInv, WorkNeedsProfile
  <2>3. CommitRows(h, Idle)
    BY <1>6 DEF CommitClear
  <2>4. /\ handler' \in [Handlers -> States]
        /\ handler'[h] = Idle
        /\ \A g \in Handlers \ {h} : handler'[g].pc = handler[g].pc
    BY <1>0, <2>3, RowsCommitted DEF IInv
  <2>5. Fresh(handler'[h], profile', topics')
    BY <2>4 DEF Fresh, Holding, Idle
  <2>6. QED
    BY <1>0, <1>6, <2>2, <2>4, <2>5, Overtakes DEF CommitClear
<1>7. ASSUME NEW h \in Handlers, DeleteRows(h) PROVE IInv'
  <2>1. handler[h] \in Replacement /\ handler[h] # Idle
    BY <1>7, Shapes DEF DeleteRows, IInv, At, Idle
  <2> DEFINE w == [handler[h] EXCEPT !.pc = "deleted"]
  <2>2. w \in Replacement
    BY <2>1 DEF Replacement
  <2>3. w.pc = "deleted" /\ w.text = handler[h].text
    BY <2>1 DEF Replacement
  <2>4. handler' = [handler EXCEPT ![h] = w]
    BY <1>0, <1>7 DEF DeleteRows
  <2> HIDE DEF w
  <2>5. h \notin stale => Fresh(w, profile, topics)
    BY <1>7, <2>3 DEF DeleteRows, At, IInv, FreshUnlessStale, Fresh, Holding
  <2>6. QED
    BY <1>0, <1>7, <2>1, <2>2, <2>4, <2>5, Moves
    DEF DeleteRows, history, States, Work, IInv, WorkNeedsProfile
<1>8. ASSUME NEW h \in Handlers, CommitTopics(h) PROVE IInv'
  <2>1. handler[h] \in Replacement /\ handler[h] # Idle
    BY <1>8, Shapes DEF CommitTopics, IInv, At, Idle
  <2>2. /\ profile \in Texts /\ handler[h].text \in Texts
        /\ handler[h].wanted \subseteq Topics
    BY <1>0, <2>1 DEF IInv, WorkNeedsProfile, Replacement
  <2> DEFINE w == Generate("described", handler[h].text, FALSE)
  <2>3. w \in States /\ w.pc = "described" /\ w.text = handler[h].text
    BY <2>2, Generations DEF States, Work
  <2> HIDE DEF w
  <2>4. CommitRows(h, w)
    BY <1>8 DEF CommitTopics, w
  <2>5. /\ handler' \in [Handlers -> States]
        /\ handler'[h] = w
        /\ \A g \in Handlers \ {h} : handler'[g].pc = handler[g].pc
    BY <2>3, <2>4, RowsCommitted DEF IInv
  <2>6. /\ profile' = profile
        /\ stale' = stale \cup {g \in Handlers \ {h} : Holds(g)}
        /\ topics' \subseteq Topics
        /\ current' = FALSE
        /\ UNCHANGED <<vector, halfDone>>
    BY <1>0, <1>8, <2>2 DEF CommitTopics, Overtake
  <2>7. h \notin stale' => handler[h].text = profile
    BY <1>8, <2>6
    DEF CommitTopics, At, IInv, FreshUnlessStale, Fresh, Holding
  <2>8. h \notin stale' => Fresh(handler'[h], profile', topics')
    BY <2>3, <2>5, <2>6, <2>7 DEF Fresh
  <2>9. QED
    BY <1>0, <2>2, <2>5, <2>6, <2>8, Overtakes
<1>9. ASSUME NEW h \in Handlers, Backfill(h) PROVE IInv'
  <2>1. profile \in Texts /\ profile # NoText
    BY <1>0, <1>9 DEF Backfill
  <2> DEFINE w == Generate("described", profile, FALSE)
  <2>2. w \in States /\ w.pc = "described" /\ w.text = profile
    BY <2>1, Generations DEF States, Work
  <2> HIDE DEF w
  <2>3. handler' = [handler EXCEPT ![h] = w]
    BY <1>9 DEF Backfill, Go, w
  <2>4. Fresh(w, profile, topics)
    BY <2>2 DEF Fresh
  <2>5. QED
    BY <1>0, <1>9, <2>1, <2>2, <2>3, <2>4, Moves DEF Backfill, history
<1>10. ASSUME NEW h \in Handlers, Refresh(h) PROVE IInv'
  <2>1. handler[h] \in Generation /\ handler[h] # Idle
    BY <1>10, Shapes DEF Refresh, IInv, At, Idle
  <2>2. profile \in Texts /\ profile # NoText
    BY <1>0, <2>1 DEF IInv, WorkNeedsProfile
  <2> DEFINE w == [handler[h] EXCEPT !.pc = "described", !.text = profile]
  <2>3. w \in Generation
    BY <2>1, <2>2 DEF Generation
  <2>4. w.pc = "described" /\ w.text = profile
    BY <2>1 DEF Generation
  <2>5. handler' = [handler EXCEPT ![h] = w]
    BY <1>0, <1>10 DEF Refresh
  <2> HIDE DEF w
  <2>6. Fresh(w, profile, topics)
    BY <2>4 DEF Fresh
  <2>7. QED
    BY <1>0, <1>10, <2>2, <2>3, <2>5, <2>6, Moves
    DEF Refresh, history, States, Work
<1>11. ASSUME NEW h \in Handlers, ReadTopics(h) PROVE IInv'
  <2>1. handler[h] \in Generation /\ handler[h] # Idle
    BY <1>11, Shapes DEF ReadTopics, IInv, At, Idle
  <2> DEFINE w == [handler[h] EXCEPT !.pc = "encoded", !.seen = topics]
  <2>2. w \in Generation
    BY <1>0, <2>1 DEF Generation
  <2>3. w.text = handler[h].text /\ w.seen = topics
    BY <2>1 DEF Generation
  <2>4. handler' = [handler EXCEPT ![h] = w]
    BY <1>0, <1>11 DEF ReadTopics
  <2> HIDE DEF w
  <2>5. h \notin stale => Fresh(w, profile, topics)
    BY <1>11, <2>3 DEF ReadTopics, At, IInv, FreshUnlessStale, Fresh, Holding
  <2>6. QED
    BY <1>0, <1>11, <2>1, <2>2, <2>4, <2>5, Moves
    DEF ReadTopics, history, States, Work, IInv, WorkNeedsProfile
<1>12. ASSUME NEW h \in Handlers, FindVector(h) PROVE IInv'
  <2>1. handler[h] \in Generation /\ handler[h] # Idle
    BY <1>12, Shapes DEF FindVector, IInv, At, Idle
  <2> DEFINE found == vector # NoVector
             w == [handler[h] EXCEPT !.pc = "ready", !.found = found]
  <2>2. found \in BOOLEAN
    OBVIOUS
  <2>3. handler' = [handler EXCEPT ![h] = w]
    BY <1>0, <1>12 DEF FindVector
  <2> HIDE DEF found
  <2>4. w \in Generation
    BY <2>1, <2>2 DEF Generation
  <2>5. w.text = handler[h].text /\ w.seen = handler[h].seen
    BY <2>1 DEF Generation
  <2> HIDE DEF w
  <2>6. h \notin stale => Fresh(w, profile, topics)
    BY <1>12, <2>5 DEF FindVector, At, IInv, FreshUnlessStale, Fresh, Holding
  <2>7. QED
    BY <1>0, <1>12, <2>1, <2>3, <2>4, <2>6, Moves
    DEF FindVector, history, States, Work, IInv, WorkNeedsProfile
<1>13. ASSUME NEW h \in Handlers, CommitVector(h) PROVE IInv'
  <2>1. handler[h] \in Generation
    BY <1>13, Shapes DEF CommitVector, IInv, At
  <2>2. vector' = [text |-> handler[h].text, topics |-> handler[h].seen]
    BY <1>13 DEF CommitVector
  <2>3. vector' \in Vector
    BY <2>1, <2>2 DEF Generation, Vector
  <2>4. h \notin stale => handler[h].text = profile /\ handler[h].seen = topics
    BY <1>13 DEF CommitVector, At, IInv, FreshUnlessStale, Fresh, Holding
  <2>5. current' = (h \notin stale)
    BY <1>13 DEF CommitVector
  <2>6. /\ current' \in BOOLEAN
        /\ current' => vector' = [text |-> profile, topics |-> topics]
    BY <2>2, <2>4, <2>5
  <2>7. /\ handler' = [handler EXCEPT ![h] = Idle]
        /\ stale' = stale \ {h}
        /\ UNCHANGED <<profile, topics, halfDone>>
    BY <1>13 DEF CommitVector, Finish, Go
  <2>8. QED
    BY <1>0, <2>3, <2>6, <2>7, Moves
<1>14. ASSUME NEW h \in Handlers, Conflict(h) \/ Fail(h) PROVE IInv'
  <2>1. /\ handler' = [handler EXCEPT ![h] = Idle]
        /\ stale' = stale \ {h}
        /\ UNCHANGED <<profile, topics, vector, current>>
    BY <1>14 DEF Conflict, Fail, Finish, Go
  <2>2. halfDone' \in BOOLEAN
    BY <1>0, <1>14 DEF Conflict, Fail
  <2>3. QED
    BY <1>0, <2>1, <2>2, Moves
<1>15. ASSUME UNCHANGED vars PROVE IInv'
  BY <1>15 DEF vars, IInv, TypeOK, WorkNeedsProfile, FreshUnlessStale,
     CurrentUnlessOvertaken
<1>16. QED
  BY <1>1, <1>2, <1>3, <1>4, <1>5, <1>6, <1>7, <1>8, <1>9, <1>10, <1>11,
     <1>12, <1>13, <1>14, <1>15
  DEF Next, Begin, Continue

\* The invariant holds in every behaviour.
THEOREM Invariance == Spec => []IInv
BY InitInvariant, StepInvariant, PTL DEF Spec

\* Profile, topics, vector and requests keep their types.
THEOREM TypeCorrect == Spec => []TypeOK
<1>1. IInv => TypeOK
  BY DEF IInv
<1>2. QED
  BY <1>1, Invariance, PTL

\* A vector written by a handler that nobody has overtaken says what the rows
\* say, until the next commit that changes a row.
THEOREM VectorIsCurrent == Spec => []CurrentUnlessOvertaken
<1>1. IInv => CurrentUnlessOvertaken
  BY DEF IInv
<1>2. QED
  BY <1>1, Invariance, PTL

-----------------------------------------------------------------------------
\* What a handler commits is a vector.
LEMMA VectorsAreReal ==
    ASSUME IInv, NEW h \in Handlers, CommitVector(h)
    PROVE  vector' # NoVector
<1>1. handler[h] \in Generation
  BY Shapes DEF CommitVector, IInv, At
<1>2. vector'.text = handler[h].text
  BY DEF CommitVector
<1>3. QED
  BY <1>1, <1>2, TextsAssumption DEF Generation, TextsAssumption, NoVector

\* Only the end of the request that created the profile, and a vector, can
\* end the work on it.
LEMMA ComingStep ==
    IInv /\ VectorIsComing /\ [Next]_vars => VectorIsComing'
<1> SUFFICES ASSUME IInv, VectorIsComing, [Next]_vars, profile' # NoText,
                    vector' = NoVector, ~halfDone'
             PROVE  (\E h \in Handlers : Creating(h))'
    BY DEF VectorIsComing
<1>0. handler \in [Handlers -> States]
  BY DEF IInv, TypeOK, States
<1>1. ASSUME NEW h \in Handlers, NEW t \in Texts, Create(h, t)
      PROVE  Creating(h)'
  <2>1. handler'[h] = Generate("committed", t, TRUE)
    BY <1>0, <1>1 DEF Create, Go
  <2>2. QED
    BY <2>1 DEF Creating, Generate
<1>2. ASSUME profile # NoText, vector = NoVector, ~halfDone
      PROVE  (\E h \in Handlers : Creating(h))'
  <2>1. PICK c \in Handlers : Creating(c)
    BY <1>2 DEF VectorIsComing
  <2>2. handler[c] \in Generation
    BY <2>1, Shapes DEF IInv, At, Creating
  <2>3. ASSUME handler'[c] = handler[c] PROVE Creating(c)'
    BY <2>1, <2>3 DEF Creating
  <2>4. ASSUME NEW h \in Handlers, h # c,
               NEW w, handler' = [handler EXCEPT ![h] = w]
        PROVE  Creating(c)'
    BY <1>0, <2>3, <2>4
  <2>5. ASSUME NEW h \in Handlers, NEW w, CommitRows(h, w), h # c
        PROVE  Creating(c)'
    <3>1. handler'[c] = handler[c]
      BY <2>1, <2>5 DEF CommitRows, Creating
    <3>2. QED
      BY <2>3, <3>1
  <2>6. ASSUME NEW h \in Handlers, Begin(h) PROVE Creating(c)'
    <3>1. h # c
      BY <2>1, <2>6
      DEF Begin, Create, LoadUpdate, LoadReplace, Backfill, At, Creating
    <3>2. QED
      BY <2>4, <2>6, <3>1
      DEF Begin, Create, LoadUpdate, LoadReplace, Backfill, Go
  <2>7. ASSUME NEW h \in Handlers,
               CommitUpdate(h) \/ ReadRows(h) \/ DeleteRows(h)
        PROVE  Creating(c)'
    <3>1. h # c
      BY <2>1, <2>7 DEF CommitUpdate, ReadRows, DeleteRows, At, Creating
    <3>2. QED
      BY <1>0, <2>3, <2>7, <3>1 DEF CommitUpdate, ReadRows, DeleteRows, Go
  <2>8. ASSUME NEW h \in Handlers, CommitClear(h) \/ CommitTopics(h)
        PROVE  Creating(c)'
    <3>1. h # c
      BY <2>1, <2>8 DEF CommitClear, CommitTopics, At, Creating
    <3>2. QED
      BY <2>5, <2>8, <3>1 DEF CommitClear, CommitTopics
  <2>9. ASSUME NEW h \in Handlers, Refresh(h) \/ ReadTopics(h) \/ FindVector(h)
        PROVE  Creating(c)'
    <3>1. CASE h = c
      <4>1. /\ handler'[c].pc \in {"described", "encoded", "ready"}
            /\ handler'[c].first = handler[c].first
        BY <1>0, <2>2, <2>9, <3>1
        DEF Refresh, ReadTopics, FindVector, Generation
      <4>2. QED
        BY <2>1, <4>1 DEF Creating
    <3>2. CASE h # c
      BY <1>0, <2>3, <2>9, <3>2 DEF Refresh, ReadTopics, FindVector
    <3>3. QED
      BY <3>1, <3>2
  <2>10. ASSUME NEW h \in Handlers, CommitVector(h) PROVE FALSE
    BY <2>10, VectorsAreReal
  <2>11. ASSUME NEW h \in Handlers, Conflict(h) \/ Fail(h) PROVE Creating(c)'
    <3>1. h # c
      BY <1>2, <2>1, <2>11 DEF Conflict, Fail, At, Creating
    <3>2. QED
      BY <2>4, <2>11, <3>1 DEF Conflict, Fail, Finish, Go
  <2>12. ASSUME UNCHANGED vars PROVE Creating(c)'
    BY <2>3, <2>12 DEF vars
  <2>13. QED
    BY <2>6, <2>7, <2>8, <2>9, <2>10, <2>11, <2>12 DEF Next, Continue
<1>3. CASE profile = NoText
  <2>1. \A h \in Handlers : handler[h] = Idle
    BY <1>3 DEF IInv, WorkNeedsProfile
  <2>2. ASSUME NEW h \in Handlers, Continue(h) \/ Fail(h) PROVE FALSE
    <3>1. handler[h].pc = "idle"
      BY <2>1 DEF Idle
    <3>2. QED
      BY <2>2, <3>1
      DEF Continue, Fail, CommitUpdate, ReadRows, CommitClear, DeleteRows,
          CommitTopics, Refresh, ReadTopics, FindVector, CommitVector,
          Conflict, At
  <2>3. PICK h \in Handlers : Begin(h)
    BY <1>3, <2>2 DEF Next, vars
  <2>4. PICK t \in Texts : Create(h, t)
    BY <1>3, <2>3 DEF Begin, LoadUpdate, LoadReplace, Backfill
  <2>5. QED
    BY <1>1, <2>4
<1>4. CASE vector # NoVector
  <2>1. UNCHANGED vector \/ \E h \in Handlers : CommitVector(h)
    BY DEF Next, Begin, Continue, vars, Create, LoadUpdate, LoadReplace,
       Backfill, CommitUpdate, ReadRows, CommitClear, DeleteRows,
       CommitTopics, Refresh, ReadTopics, FindVector, Conflict, Fail
  <2>2. QED
    BY <1>4, <2>1, VectorsAreReal
<1>5. CASE halfDone
  BY <1>5 DEF Next, Begin, Continue, vars, Create, LoadUpdate, LoadReplace,
     Backfill, CommitUpdate, ReadRows, CommitClear, DeleteRows, CommitTopics,
     Refresh, ReadTopics, FindVector, CommitVector, Conflict, Fail, history
<1>6. QED
  BY <1>2, <1>3, <1>4, <1>5

\* No profile stays without a vector but for a failed creation: the safety
\* half of ProfilesAreFound.
THEOREM VectorsCome == Spec => []VectorIsComing
<1>1. Init => VectorIsComing
  BY DEF Init, VectorIsComing
<1>2. QED
  BY <1>1, ComingStep, Invariance, PTL DEF Spec
=============================================================================
