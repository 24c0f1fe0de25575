------------------------ MODULE AuthenticationProofs ------------------------
(***************************************************************************)
(* Proofs about Authentication, for every number of keys, users and        *)
(* requests.                                                               *)
(*                                                                         *)
(* A token is signed with a key that has been published at some time, and  *)
(* a key that is withdrawn does not come back.  So an answer that lacks    *)
(* the key of a token, however late it comes, says that the key has been   *)
(* withdrawn by then, and the refusal cannot become wrong afterwards.      *)
(***************************************************************************)
EXTENDS Authentication, TLAPS

\* A request that looks for its key looks for one there has been.  The answer
\* it has got may be old, but does not lack the key if it is published.
SearchesAreFair ==
    \A r \in Requests :
        /\ request[r] \in KeySearch \cup Answered =>
               request[r].kid \in published \cup withdrawn
        /\ request[r] \in Answered =>
               /\ request[r].answer \subseteq published \cup withdrawn
               /\ request[r].kid \in published =>
                      request[r].kid \in request[r].answer

IInv ==
    /\ TypeOK
    /\ SearchesAreFair
    /\ PublishedKeysAreKnown

States == KeySearch \cup Answered \cup Known \cup {Verified, Idle}

\* Where a request is tells what it carries.
LEMMA Shapes ==
    ASSUME TypeOK, NEW r \in Requests
    PROVE  /\ request[r] \in States
           /\ At(r, "stale") \/ At(r, "missing") \/ At(r, "refused") =>
                  request[r] \in KeySearch
           /\ At(r, "stale_answered") \/ At(r, "missing_answered") =>
                  request[r] \in Answered
           /\ At(r, "unknown") \/ At(r, "returned") => request[r] \in Known
BY DEF TypeOK, States, At, KeySearch, Answered, Known, Verified, Idle

\* Only the request that takes a step changes where it is.
LEMMA OneMoves ==
    ASSUME TypeOK, NEW r \in Requests, NEW next \in States, Go(r, next)
    PROVE  /\ request' \in [Requests -> States]
           /\ request'[r] = next
           /\ \A q \in Requests \ {r} : request'[q] = request[q]
BY DEF TypeOK, States, Go

\* A request that has tried to create a row returns the user or fails.
LEMMA CreateUserGoes ==
    ASSUME NEW r \in Requests, request[r] \in Known, CreateUser(r)
    PROVE  \E next \in Known \cup {Idle} :
               Go(r, next) /\ next.pc # "refused"
<1>1. [request[r] EXCEPT !.pc = "returned"] \in Known
  BY DEF Known
<1>2. Idle.pc # "refused" /\ [request[r] EXCEPT !.pc = "returned"].pc # "refused"
  BY DEF Idle, Known
<1>3. \/ Go(r, Idle)
      \/ Go(r, [request[r] EXCEPT !.pc = "returned"])
  BY DEF CreateUser
<1> QED
  BY <1>1, <1>2, <1>3

\* The invariant holds before the first request.
LEMMA InitInvariant == Init => IInv
<1> SUFFICES ASSUME Init PROVE IInv
    OBVIOUS
<1>1. TypeOK
  BY RefreshAssumption DEF Init, TypeOK, RefreshAssumption, Idle
<1>2. SearchesAreFair /\ PublishedKeysAreKnown
  BY DEF Init, SearchesAreFair, PublishedKeysAreKnown, At, Idle, KeySearch,
         Answered
<1>3. QED
  BY <1>1, <1>2 DEF IInv

\* A request that looks for its key goes on looking for one there has been.
LEMMA SearchStep ==
    ASSUME IInv, NEW r \in Requests, NEW next \in States, Go(r, next),
           UNCHANGED provider, UNCHANGED row,
           keys' \subseteq published \cup withdrawn,
           age' \in 0 .. (Refresh + 1),
           next \in KeySearch \cup Answered =>
               next.kid \in published \cup withdrawn,
           next \in Answered =>
               /\ next.answer \subseteq published \cup withdrawn
               /\ next.kid \in published => next.kid \in next.answer,
           next.pc = "refused" => next.kid \notin published
    PROVE  IInv'
<1>1. /\ request' \in [Requests -> States]
      /\ request'[r] = next
      /\ \A q \in Requests \ {r} : request'[q] = request[q]
  BY OneMoves DEF IInv
<1>2. TypeOK'
  BY <1>1 DEF IInv, TypeOK, provider, States
<1>3. SearchesAreFair'
  BY <1>1 DEF IInv, SearchesAreFair, provider
<1>4. PublishedKeysAreKnown'
  BY <1>1 DEF IInv, PublishedKeysAreKnown, At, provider
<1>5. QED
  BY <1>2, <1>3, <1>4 DEF IInv

\* Every step of a request and of everything around it keeps the invariant.
LEMMA StepInvariant == IInv /\ [Next]_vars => IInv'
<1> SUFFICES ASSUME IInv, [Next]_vars PROVE IInv'
    OBVIOUS
<1>0. /\ keys \subseteq published \cup withdrawn
      /\ age \in 0 .. (Refresh + 1)
      /\ Refresh \in Nat
  BY RefreshAssumption DEF IInv, TypeOK, RefreshAssumption
<1>1. ASSUME NEW r \in Requests, NEW k \in Keys, Arrive(r, k) PROVE IInv'
  <2>1. PICK next \in {[pc |-> "stale", kid |-> k], Verified,
                       [pc |-> "missing", kid |-> k]} : Go(r, next)
    BY <1>1 DEF Arrive
  <2>2. next \in States /\ next \notin Answered
    BY <2>1 DEF States, KeySearch, Verified, Answered
  <2>3. next \in KeySearch => next.kid = k
    BY <2>1 DEF KeySearch, Verified
  <2>4. next.pc # "refused"
    BY <2>1 DEF Verified
  <2>5. QED
    BY <1>0, <1>1, <2>1, <2>2, <2>3, <2>4, SearchStep DEF Arrive
<1>2. ASSUME NEW r \in Requests, Fetch(r) PROVE IInv'
  <2>1. request[r] \in KeySearch
    BY <1>2, Shapes DEF IInv, Fetch
  <2>2. PICK pc \in {"stale_answered", "missing_answered"} :
            Go(r, [pc |-> pc, kid |-> request[r].kid, answer |-> published])
    BY <1>2 DEF Fetch
  <2> DEFINE next ==
          [pc |-> pc, kid |-> request[r].kid, answer |-> published]
  <2>3. next \in Answered /\ next \in States
    BY <2>1 DEF IInv, TypeOK, States, Answered, KeySearch
  <2>4. next.kid \in published \cup withdrawn
    BY <2>1 DEF IInv, SearchesAreFair
  <2>5. next.answer = published /\ next.pc # "refused"
    OBVIOUS
  <2>6. QED
    BY <1>0, <1>2, <2>2, <2>3, <2>4, <2>5, SearchStep DEF Fetch
<1>3. ASSUME NEW r \in Requests, Deliver(r) PROVE IInv'
  <2>1. request[r] \in Answered
    BY <1>3, Shapes DEF IInv, Deliver
  <2>2. /\ request[r].kid \in Keys
        /\ request[r].kid \in published \cup withdrawn
        /\ request[r].answer \subseteq published \cup withdrawn
        /\ request[r].kid \in published =>
               request[r].kid \in request[r].answer
    BY <2>1 DEF IInv, SearchesAreFair, Answered
  <2>3. keys' = request[r].answer /\ age' = 0
    BY <1>3 DEF Deliver, Refreshed
  <2>4. PICK next \in {Verified, [pc |-> "missing", kid |-> request[r].kid],
                       [pc |-> "refused", kid |-> request[r].kid]} :
            /\ Go(r, next)
            /\ next.pc = "refused" => request[r].kid \notin request[r].answer
    BY <1>3, <2>3 DEF Deliver, Verified
  <2>5. next \in States /\ next \notin Answered
    BY <2>2, <2>4 DEF States, KeySearch, Verified, Answered
  <2>6. next \in KeySearch => next.kid = request[r].kid
    BY <2>4 DEF KeySearch, Verified
  <2>7. next.pc = "refused" => next.kid \notin published
    BY <2>2, <2>4, <2>6 DEF Verified
  <2>8. age' \in 0 .. (Refresh + 1)
    BY <1>0, <2>3
  <2>9. QED
    BY <1>3, <2>2, <2>3, <2>4, <2>5, <2>6, <2>7, <2>8, SearchStep
    DEF Deliver
<1>4. ASSUME NEW r \in Requests, NEW t \in Tokens, LookupUser(r, t)
      PROVE  IInv'
  <2>1. PICK pc \in {"returned", "unknown"} :
            Go(r, [pc |-> pc, sub |-> t[1], email |-> t[2]])
    BY <1>4 DEF LookupUser
  <2> DEFINE next == [pc |-> pc, sub |-> t[1], email |-> t[2]]
  <2>2. next \in States /\ next \notin KeySearch \cup Answered
    BY <2>1, TokensAssumption
    DEF TokensAssumption, States, Known, KeySearch, Answered
  <2>3. next.pc # "refused"
    OBVIOUS
  <2>4. QED
    BY <1>0, <1>4, <2>1, <2>2, <2>3, SearchStep DEF LookupUser
<1>5. ASSUME NEW r \in Requests, CreateUser(r) PROVE IInv'
  <2>1. request[r] \in Known
    BY <1>5, Shapes DEF IInv, CreateUser
  <2>2. row' \in [Subs -> Row \cup {NoRow}]
    BY <1>5, <2>1 DEF CreateUser, IInv, TypeOK, Row, Known
  <2>3. PICK next \in Known \cup {Idle} : Go(r, next) /\ next.pc # "refused"
    BY <1>5, <2>1, CreateUserGoes
  <2>4. /\ request' \in [Requests -> States]
        /\ request'[r] = next
        /\ \A q \in Requests \ {r} : request'[q] = request[q]
    BY <2>3, OneMoves DEF IInv, States
  <2>5. TypeOK' /\ SearchesAreFair' /\ PublishedKeysAreKnown'
    <3>1. TypeOK'
      BY <1>5, <2>2, <2>4 DEF CreateUser, IInv, TypeOK, provider, States
    <3>2. next \notin KeySearch \cup Answered
      BY <2>3 DEF Known, Idle, KeySearch, Answered
    <3> QED
      BY <1>5, <2>3, <2>4, <3>1, <3>2 DEF CreateUser, IInv, SearchesAreFair,
         At, PublishedKeysAreKnown, provider
  <2>6. QED
    BY <2>5 DEF IInv
<1>6. ASSUME NEW r \in Requests, Leave(r) PROVE IInv'
  <2>1. Idle \in States /\ Idle \notin KeySearch \cup Answered
    BY DEF States, Idle, KeySearch, Answered
  <2>2. QED
    BY <1>0, <1>6, <2>1, SearchStep DEF Leave, Idle
<1>7. ASSUME NEW s \in Subs, DeleteUser(s) PROVE IInv'
  <2>1. row[s] \in Row
    BY <1>7 DEF DeleteUser, Active, IInv, TypeOK
  <2>2. row' \in [Subs -> Row \cup {NoRow}]
    BY <1>7, <2>1 DEF DeleteUser, IInv, TypeOK, Row
  <2>3. QED
    BY <1>7, <2>2 DEF DeleteUser, IInv, TypeOK, SearchesAreFair,
       PublishedKeysAreKnown, At, provider
<1>8. ASSUME Rotate PROVE IInv'
  <2>1. CASE \E k \in Keys \ (published \cup withdrawn) :
                 published' = published \cup {k} /\ UNCHANGED withdrawn
    <3>1. PICK k \in Keys \ (published \cup withdrawn) :
              published' = published \cup {k} /\ UNCHANGED withdrawn
      BY <2>1
    <3>2. TypeOK'
      BY <1>8, <3>1 DEF Rotate, IInv, TypeOK
    <3>3. SearchesAreFair'
      BY <1>8, <3>1 DEF Rotate, IInv, SearchesAreFair
    <3>4. PublishedKeysAreKnown'
      <4>1. ASSUME NEW r \in Requests, At(r, "refused")
            PROVE  request[r].kid \notin published \cup {k}
        <5>1. request[r] \in KeySearch
          BY <4>1, Shapes DEF IInv
        <5>2. request[r].kid \in published \cup withdrawn
          BY <5>1 DEF IInv, SearchesAreFair
        <5>3. QED
          BY <3>1, <4>1, <5>2 DEF IInv, PublishedKeysAreKnown
      <4>2. QED
        BY <1>8, <3>1, <4>1 DEF Rotate, PublishedKeysAreKnown, At
    <3>5. QED
      BY <3>2, <3>3, <3>4 DEF IInv
  <2>2. CASE \E k \in published :
                 /\ published' = published \ {k}
                 /\ withdrawn' = withdrawn \cup {k}
    BY <1>8, <2>2 DEF Rotate, IInv, TypeOK, SearchesAreFair,
       PublishedKeysAreKnown, At
  <2>3. QED
    BY <1>8, <2>1, <2>2 DEF Rotate
<1>9. ASSUME Tick PROVE IInv'
  <2>1. age' \in 0 .. (Refresh + 1)
    BY <1>0, <1>9 DEF Tick, Stale
  <2>2. QED
    BY <1>9, <2>1 DEF Tick, IInv, TypeOK, SearchesAreFair,
       PublishedKeysAreKnown, At, provider
<1>10. ASSUME Restart PROVE IInv'
  <2>1. \A r \in Requests : request'[r] = Idle
    BY <1>10 DEF Restart
  <2>2. age' \in 0 .. (Refresh + 1)
    BY <1>0, <1>10 DEF Restart
  <2>3. TypeOK'
    BY <1>10, <2>2 DEF Restart, IInv, TypeOK, provider
  <2>4. SearchesAreFair' /\ PublishedKeysAreKnown'
    BY <2>1 DEF SearchesAreFair, PublishedKeysAreKnown, At, Idle, KeySearch,
       Answered
  <2>5. QED
    BY <2>3, <2>4 DEF IInv
<1>11. ASSUME UNCHANGED vars PROVE IInv'
  BY <1>11 DEF vars, provider, IInv, TypeOK, SearchesAreFair,
     PublishedKeysAreKnown, At
<1>12. QED
  BY <1>1, <1>2, <1>3, <1>4, <1>5, <1>6, <1>7, <1>8, <1>9, <1>10, <1>11
  DEF Next, Continue

\* The invariant holds in every behaviour.
THEOREM Invariance == Spec => []IInv
BY InitInvariant, StepInvariant, PTL DEF Spec

\* The cache holds nothing but keys of the provider, and rows and requests
\* keep their types.
THEOREM TypeCorrect == Spec => []TypeOK
<1>1. IInv => TypeOK
  BY DEF IInv
<1>2. QED
  BY <1>1, Invariance, PTL

\* No token of a published key is refused, whatever overlaps with what.
THEOREM NoFalseRefusal == Spec => []PublishedKeysAreKnown
<1>1. IInv => PublishedKeysAreKnown
  BY DEF IInv
<1>2. QED
  BY <1>1, Invariance, PTL

\* A row of a user is never replaced, and its deletion never undone.
THEOREM RowsRemain == Spec => RowsStay
<1>1. ASSUME TypeOK, [Next]_vars, NEW s \in Subs, row[s] # NoRow
      PROVE  /\ row'[s] # NoRow
             /\ row[s].deleted => row'[s].deleted
  <2>1. CASE UNCHANGED row
    BY <1>1, <2>1
  <2>2. ASSUME NEW r \in Requests, CreateUser(r) PROVE row'[s] = row[s]
    BY <1>1, <2>2 DEF CreateUser, TypeOK
  <2>3. ASSUME NEW u \in Subs, DeleteUser(u)
        PROVE  /\ row'[s] # NoRow
               /\ row[s].deleted => row'[s].deleted
    <3>1. row[s] \in Row
      BY <1>1 DEF TypeOK
    <3>2. row'[s] \in Row /\ (row[s].deleted => row'[s].deleted)
      BY <1>1, <2>3, <3>1 DEF DeleteUser, TypeOK, Row
    <3>3. NoRow \notin Row
      BY EmailsAssumption DEF NoRow, Row
    <3>4. QED
      BY <3>2, <3>3
  <2>4. QED
    BY <1>1, <2>1, <2>2, <2>3
    DEF Next, vars, Continue, Arrive, Fetch, Deliver, LookupUser, Leave,
        Rotate, Tick, Restart
<1>2. TypeOK /\ [Next]_vars =>
          [\A s \in Subs : row[s] # NoRow =>
               /\ row'[s] # NoRow
               /\ row[s].deleted => row'[s].deleted]_vars
  BY <1>1
<1>3. QED
  BY <1>2, TypeCorrect, PTL DEF Spec, RowsStay
-----------------------------------------------------------------------------
(* Withdrawn keys.                                                         *)

\* A step of one request whose next answer, if it has one, does not name k.
LEMMA ForgottenByRequest ==
    ASSUME TypeOK, NEW k, NEW r \in Requests, NEW next \in States,
           Go(r, next), Forgotten(k), k \notin keys',
           next \in Answered => k \notin next.answer
    PROVE  Forgotten(k)'
<1>1. /\ request'[r] = next
      /\ \A q \in Requests \ {r} : request'[q] = request[q]
  BY OneMoves
<1>2. next.pc \in {"stale_answered", "missing_answered"} => next \in Answered
  BY DEF States, KeySearch, Answered, Known, Verified, Idle
<1> QED
  BY <1>1, <1>2 DEF Forgotten, At

\* A withdrawn key stays forgotten.
LEMMA ForgottenStep ==
    ASSUME IInv, [Next]_vars, NEW k \in withdrawn, Forgotten(k)
    PROVE  Forgotten(k)'
<1>0. TypeOK /\ k \notin published /\ k \notin keys
  BY DEF IInv, TypeOK, Forgotten
<1>1. ASSUME NEW r \in Requests, NEW j \in Keys, Arrive(r, j)
      PROVE  Forgotten(k)'
  <2>1. PICK next \in {[pc |-> "stale", kid |-> j], Verified,
                       [pc |-> "missing", kid |-> j]} : Go(r, next)
    BY <1>1 DEF Arrive
  <2>2. next \in States /\ next \notin Answered
    BY <2>1 DEF States, KeySearch, Verified, Answered
  <2> QED
    BY <1>0, <1>1, <2>1, <2>2, ForgottenByRequest DEF Arrive
<1>2. ASSUME NEW r \in Requests, Fetch(r) PROVE Forgotten(k)'
  <2>1. request[r] \in KeySearch
    BY <1>0, <1>2, Shapes DEF Fetch
  <2>2. PICK pc \in {"stale_answered", "missing_answered"} :
            Go(r, [pc |-> pc, kid |-> request[r].kid, answer |-> published])
    BY <1>2 DEF Fetch
  <2> DEFINE next ==
          [pc |-> pc, kid |-> request[r].kid, answer |-> published]
  <2>3. next \in States
    BY <1>0, <2>1 DEF TypeOK, States, Answered, KeySearch
  <2> QED
    BY <1>0, <1>2, <2>2, <2>3, ForgottenByRequest DEF Fetch
<1>3. ASSUME NEW r \in Requests, Deliver(r) PROVE Forgotten(k)'
  <2>1. request[r] \in Answered
    BY <1>0, <1>3, Shapes DEF Deliver
  <2>2. PICK next \in {Verified, [pc |-> "missing", kid |-> request[r].kid],
                       [pc |-> "refused", kid |-> request[r].kid]} :
            Go(r, next)
    BY <1>3 DEF Deliver
  <2>3. next \in States /\ next \notin Answered
    BY <2>1, <2>2 DEF States, KeySearch, Verified, Answered
  <2>4. k \notin keys'
    BY <1>3 DEF Deliver, Refreshed, Forgotten
  <2> QED
    BY <1>0, <2>2, <2>3, <2>4, ForgottenByRequest
<1>4. ASSUME NEW r \in Requests, NEW t \in Tokens, LookupUser(r, t)
      PROVE  Forgotten(k)'
  <2>1. PICK pc \in {"returned", "unknown"} :
            Go(r, [pc |-> pc, sub |-> t[1], email |-> t[2]])
    BY <1>4 DEF LookupUser
  <2> DEFINE next == [pc |-> pc, sub |-> t[1], email |-> t[2]]
  <2>2. next \in States /\ next \notin Answered
    BY <2>1, TokensAssumption
    DEF TokensAssumption, States, Known, Answered
  <2> QED
    BY <1>0, <1>4, <2>1, <2>2, ForgottenByRequest DEF LookupUser
<1>5. ASSUME NEW r \in Requests, CreateUser(r) \/ Leave(r)
      PROVE  Forgotten(k)'
  <2>1. PICK next \in Known \cup {Idle} : Go(r, next)
    <3>1. CASE CreateUser(r)
      BY <1>0, <3>1, Shapes, CreateUserGoes DEF CreateUser
    <3>2. CASE Leave(r)
      BY <3>2 DEF Leave
    <3> QED
      BY <1>5, <3>1, <3>2
  <2>2. next \in States /\ next \notin Answered
    BY DEF States, Known, Idle, Answered
  <2>3. keys' = keys
    BY <1>5 DEF CreateUser, Leave
  <2> QED
    BY <1>0, <2>1, <2>2, <2>3, ForgottenByRequest
<1>6. CASE Restart
  BY <1>6 DEF Restart, Forgotten, At, Idle
<1>7. CASE UNCHANGED <<keys, request>>
  BY <1>7 DEF Forgotten, At
<1> QED
  BY <1>1, <1>2, <1>3, <1>4, <1>5, <1>6, <1>7
  DEF Next, Continue, vars, DeleteUser, Rotate, Tick

\* A key that is withdrawn stays so.
LEMMA WithdrawnStep ==
    ASSUME [Next]_vars, NEW k \in withdrawn PROVE k \in withdrawn'
  BY DEF Next, Continue, vars, provider, Arrive, Fetch, Deliver, LookupUser,
     CreateUser, Leave, DeleteUser, Rotate, Tick, Restart

\* No late answer and no token brings back a withdrawn key that the cache and
\* all answers on their way have lost.
THEOREM WithdrawnAreForgotten == Spec => WithdrawnStayForgotten
<1>1. IInv /\ [Next]_vars =>
          [\A k \in withdrawn : Forgotten(k) => Forgotten(k)']_vars
  BY ForgottenStep
<1> QED
  BY <1>1, Invariance, PTL DEF Spec, WithdrawnStayForgotten

\* The part of WithdrawnKeysExpire that lasts: a withdrawn key once forgotten
\* is missing from the cache for good.
THEOREM ForgottenForGood ==
    ASSUME NEW k \in Keys
    PROVE  Spec => [](k \in withdrawn /\ Forgotten(k) => [](k \notin keys))
<1> DEFINE Out == k \in withdrawn /\ Forgotten(k)
<1>1. IInv /\ [Next]_vars => (Out => Out')
  BY ForgottenStep, WithdrawnStep
<1>2. Out => k \notin keys
  BY DEF Forgotten
<1> HIDE DEF Out
<1>3. Spec => [](Out => []Out)
  BY <1>1, Invariance, PTL DEF Spec
<1> QED
  BY <1>2, <1>3, PTL DEF Out

=============================================================================
