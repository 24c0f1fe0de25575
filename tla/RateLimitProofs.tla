-------------------------- MODULE RateLimitProofs --------------------------
(***************************************************************************)
(* Proofs about RateLimit, for every limit, window and number of requests. *)
(*                                                                         *)
(* The invariant says who owns the missing expiry: as long as the key has  *)
(* none, the one request that made it is still between INCR and EXPIRE, or *)
(* was lost there.  Once EXPIRE has come, the age of the key and the time  *)
(* it has left add up to a window at least, so that a key that expires is  *)
(* one window old.                                                         *)
(***************************************************************************)
EXTENDS RateLimit, TLAPS

\* Only the request that made the key is about to send EXPIRE.
MakerIsAlone ==
    /\ \A r \in Requests : request[r] = "first" => count > 0 /\ ttl = 0
    /\ \A r, s \in Requests : request[r] = "first" /\ request[s] = "first"
                                  => r = s

\* Nothing is left of a key that has expired.
NoKeyNoAge == count = 0 => ttl = 0 /\ age = 0

\* A key that will expire reaches the age of a window.
AgeIsEnough == ttl > 0 => ttl + age >= Window

\* Every request let through has been counted, and the limit is kept by those
\* let through and the one that is about to send EXPIRE.
GrantsAreCounted ==
    /\ granted <= count /\ granted <= Limit
    /\ \A r \in Requests :
           request[r] = "first" => granted < count /\ granted < Limit

IInv ==
    /\ TypeOK
    /\ MakerIsAlone
    /\ KeysExpire
    /\ NoKeyNoAge
    /\ AgeIsEnough
    /\ GrantsAreCounted

USE LimitAssumption, WindowAssumption DEF LimitAssumption, WindowAssumption

\* No request has come: the invariant holds of the initial state.
LEMMA InitInvariant == Init => IInv
<1> SUFFICES ASSUME Init PROVE IInv
    OBVIOUS
<1>1. TypeOK
  <2>1. count \in Counts /\ ttl \in 0 .. Window /\ age \in 0 .. Window
      /\ granted \in Nat
    BY DEF Init, Counts
  <2>2. request \in [Requests -> Progress] /\ orphaned \in BOOLEAN
    BY DEF Init, Progress
  <2>3. QED
    BY <2>1, <2>2 DEF TypeOK
<1>2. \A r \in Requests : request[r] # "first"
  BY DEF Init
<1>3. MakerIsAlone /\ KeysExpire /\ NoKeyNoAge /\ AgeIsEnough
      /\ GrantsAreCounted
  BY <1>2 DEF Init, MakerIsAlone, KeysExpire, NoKeyNoAge, AgeIsEnough,
     GrantsAreCounted
<1>4. QED
  BY <1>1, <1>3 DEF IInv

\* Every command, every failure and every tick keeps the invariant.
LEMMA StepInvariant == IInv /\ [Next]_vars => IInv'
<1> SUFFICES ASSUME IInv, [Next]_vars PROVE IInv'
    OBVIOUS
<1> USE DEF IInv, TypeOK, MakerIsAlone, KeysExpire, NoKeyNoAge, AgeIsEnough,
            GrantsAreCounted, Counts, Progress
<1>1. ASSUME NEW r \in Requests, Incr(r) PROVE IInv'
  <2>1. CASE count = 0
    BY <1>1, <2>1 DEF Incr, Incremented, Proceed
  <2>2. CASE count > 0 /\ count < Limit
    BY <1>1, <2>2 DEF Incr, Incremented, Proceed
  <2>3. CASE count >= Limit
    BY <1>1, <2>3 DEF Incr, Incremented, Proceed
  <2>4. QED
    BY <2>1, <2>2, <2>3
<1>2. ASSUME NEW r \in Requests, Expire(r) PROVE IInv'
  BY <1>2 DEF Expire, SetExpiry, Proceed
<1>3. ASSUME NEW r \in Requests, Refuse(r) PROVE IInv'
  BY <1>3 DEF Refuse
<1>4. ASSUME NEW r \in Requests, Fail(r) PROVE IInv'
  <2>1. request[r] # "idle" /\ request' = [request EXCEPT ![r] = "idle"]
    BY <1>4 DEF Fail
  <2>2. CASE orphaned' = (orphaned \/ request[r] = "first") /\ UNCHANGED ttl
    BY <1>4, <2>2 DEF Fail
  <2>3. CASE request[r] = "first" /\ SetExpiry /\ UNCHANGED orphaned
    <3>1. ttl' = Window
      BY <2>3 DEF SetExpiry
    <3>2. \A q \in Requests : request'[q] # "first"
      BY <2>1, <2>3
    <3>3. request' \in [Requests -> Progress]
      BY <2>1
    <3>4. QED
      BY <1>4, <2>1, <2>3, <3>1, <3>2, <3>3 DEF Fail
  <2>4. QED
    BY <1>4, <2>2, <2>3 DEF Fail
<1>5. ASSUME NEW r \in Requests, Lose(r) PROVE IInv'
  <2>1. UNCHANGED <<ttl, request, age, granted>>
    BY <1>5 DEF Lose
  <2>2. CASE count = 0
    <3>1. count' = 1
      BY <1>5, <2>2 DEF Lose, Incremented
    <3>2. orphaned' = TRUE
      BY <1>5, <3>1, Zenon DEF Lose
    <3>3. QED
      BY <2>1, <2>2, <3>1, <3>2
  <2>3. CASE count > 0
    <3>1. count' \in Counts /\ count' >= count /\ count' # 1
      BY <1>5, <2>3 DEF Lose, Incremented
    <3>2. orphaned' = orphaned
      BY <1>5, <3>1 DEF Lose
    <3>3. QED
      BY <2>1, <2>3, <3>1, <3>2
  <2>4. QED
    BY <2>2, <2>3
<1>6. ASSUME Tick PROVE IInv'
  BY <1>6 DEF Tick, Aged
<1>7. ASSUME UNCHANGED vars PROVE IInv'
  BY <1>7 DEF vars
<1>8. QED
  BY <1>1, <1>2, <1>3, <1>4, <1>5, <1>6, <1>7 DEF Next

\* The invariant holds in every behaviour.
THEOREM Invariance == Spec => []IInv
BY InitInvariant, StepInvariant, PTL DEF Spec

\* The counter, the expiry and the requests keep their types.
THEOREM TypeCorrect == Spec => []TypeOK
<1>1. IInv => TypeOK
  BY DEF IInv
<1>2. QED
  BY <1>1, Invariance, PTL

\* A key without expiry is about to get one, unless EXPIRE was lost.
THEOREM KeysDoExpire == Spec => []KeysExpire
<1>1. IInv => KeysExpire
  BY DEF IInv
<1>2. QED
  BY <1>1, Invariance, PTL

\* Every step of the limiter is a step of the quota or leaves it alone.
LEMMA StepRefines == IInv /\ [Next]_vars => [Promise!Next]_(Promise!vars)
<1> SUFFICES ASSUME IInv, [Next]_vars PROVE [Promise!Next]_(Promise!vars)
    OBVIOUS
<1> USE DEF IInv, TypeOK, Counts, Promise!vars
<1>1. ASSUME NEW r \in Requests, Incr(r) PROVE [Promise!Next]_(Promise!vars)
  <2>1. CASE count = 0
    BY <1>1, <2>1 DEF Incr, Incremented, Proceed, Promise!Next, Promise!Open
  <2>2. CASE count > 0 /\ count < Limit
    <3>1. granted < Limit /\ count' > 0 /\ granted' = granted + 1
      BY <1>1, <2>2 DEF Incr, Incremented, Proceed, GrantsAreCounted
    <3>2. Promise!Grant
      BY <1>1, <2>2, <3>1 DEF Incr, Promise!Grant
    <3>3. QED
      BY <3>2 DEF Promise!Next
  <2>3. CASE count >= Limit /\ count > 0
    BY <1>1, <2>3 DEF Incr, Incremented, Proceed
  <2>4. QED
    BY <2>1, <2>2, <2>3
<1>2. ASSUME NEW r \in Requests, Expire(r) PROVE [Promise!Next]_(Promise!vars)
  BY <1>2 DEF Expire, Proceed, MakerIsAlone, GrantsAreCounted, Promise!Next,
     Promise!Grant
<1>3. ASSUME NEW r \in Requests, Lose(r) PROVE [Promise!Next]_(Promise!vars)
  <2>1. CASE count = 0
    BY <1>3, <2>1 DEF Lose, Incremented, Promise!Next, Promise!Open
  <2>2. CASE count > 0
    BY <1>3, <2>2 DEF Lose, Incremented
  <2>3. QED
    BY <2>1, <2>2
<1>4. ASSUME NEW r \in Requests, Refuse(r) \/ Fail(r)
      PROVE  [Promise!Next]_(Promise!vars)
  BY <1>4 DEF Refuse, Fail
<1>5. ASSUME Tick PROVE [Promise!Next]_(Promise!vars)
  <2>1. CASE ttl = 1
    BY <1>5, <2>1 DEF Tick, AgeIsEnough, Promise!Next, Promise!Close
  <2>2. CASE ttl # 1
    BY <1>5, <2>2 DEF Tick, Aged, Promise!Next, Promise!Tick
  <2>3. QED
    BY <2>1, <2>2
<1>6. ASSUME UNCHANGED vars PROVE [Promise!Next]_(Promise!vars)
  BY <1>6 DEF vars
<1>7. QED
  BY <1>1, <1>2, <1>3, <1>4, <1>5, <1>6 DEF Next

\* The limiter implements the quota: at most Limit requests are let through in
\* a window, counted where the code lets them through, and no window is
\* shorter than promised, whatever is interleaved, late or lost.
THEOREM Refinement == Spec => ImplementsQuota
<1>1. Init => Promise!Init
  BY DEF Init, Promise!Init
<1>2. QED
  BY <1>1, StepRefines, Invariance, PTL DEF Spec, ImplementsQuota, Promise!Spec

-----------------------------------------------------------------------------
\* A key that has an expiry never gets a later one.
LockoutsShrink == [][ttl > 0 => ttl' <= ttl]_vars

\* The safety core of RefusalsEnd: neither refused requests nor a late EXPIRE
\* of the request that made the key extend a lockout that has begun to run.
THEOREM LockoutsNeverGrow == Spec => LockoutsShrink
<1>1. ASSUME IInv, [Next]_vars, ttl > 0 PROVE ttl' <= ttl
  <2>1. ttl \in Nat
    BY <1>1 DEF IInv, TypeOK
  <2>2. ASSUME NEW r \in Requests, request[r] = "first" PROVE FALSE
    BY <1>1, <2>2 DEF IInv, MakerIsAlone
  <2>3. CASE UNCHANGED ttl
    BY <2>1, <2>3
  <2>4. CASE Tick
    BY <1>1, <2>1, <2>4 DEF Tick
  <2> QED
    BY <1>1, <2>2, <2>3, <2>4 DEF Next, Incr, Expire, Lose, Refuse, Fail, vars
<1>2. IInv /\ [Next]_vars => [ttl > 0 => ttl' <= ttl]_vars
  BY <1>1
<1> QED
  BY <1>2, Invariance, PTL DEF Spec, LockoutsShrink
=============================================================================
