--------------------------- MODULE Authentication ---------------------------
(***************************************************************************)
(* What every request with a token goes through: get_current_user finds    *)
(* the key that signed the token in the cache of the process, which it     *)
(* refreshes from the identity provider, and get_or_create_user finds the  *)
(* user's row or makes one.                                                *)
(*                                                                         *)
(* The cache is one object for all requests.  A refresh sends a request,   *)
(* waits, and then replaces the whole cache by what the provider had       *)
(* answered: refreshes overlap, and their answers may come in any order.   *)
(* The provider rotates keys meanwhile.  Signatures are checked by a       *)
(* library; a token of a known key is taken to be a valid one.             *)
(***************************************************************************)
EXTENDS Naturals

CONSTANTS
    Keys,      \* signing keys of the provider, in no order
    Subs,      \* identities, the sub of their tokens
    Emails,    \* addresses
    Tokens,    \* pairs <<sub, e-mail>> that tokens carry at some time
    Requests,  \* slots for requests that are processed at the same time
    Refresh    \* refresh_interval of the cache, in ticks

ASSUME TokensAssumption == Tokens \subseteq Subs \X Emails
ASSUME RefreshAssumption == Refresh \in Nat

VARIABLES
    published,  \* keys the provider publishes
    withdrawn,  \* keys it does not publish any more
    keys,       \* the cache
    age,        \* ticks since it was refreshed, Refresh + 1 if it is stale
    row,        \* row[s]: the row with cognito_sub = s
    request     \* request[r]: how far the request in slot r has come

vars == <<published, withdrawn, keys, age, row, request>>
provider == <<published, withdrawn>>

NoRow == [email |-> "none", deleted |-> FALSE]

ASSUME EmailsAssumption == "none" \notin Emails

Row == [email : Emails, deleted : BOOLEAN]

\* A request looks for its key: it has found the cache stale, or the key
\* missing, and has asked the provider, or has got an answer.  It was refused
\* because the provider does not know the key.
KeySearch == [pc : {"stale", "missing", "refused"}, kid : Keys]
Answered == [pc : {"stale_answered", "missing_answered"}, kid : Keys,
             answer : SUBSET Keys]

\* The key was found; no row of the user was, or the user is returned to the
\* endpoint.
Verified == [pc |-> "verified"]
Known == [pc : {"unknown", "returned"}, sub : Subs, email : Emails]

Idle == [pc |-> "idle"]

TypeOK ==
    /\ published \subseteq Keys
    /\ withdrawn \subseteq Keys \ published
    /\ keys \subseteq published \cup withdrawn
    /\ age \in 0 .. (Refresh + 1)
    /\ row \in [Subs -> Row \cup {NoRow}]
    /\ request \in [Requests ->
           KeySearch \cup Answered \cup Known \cup {Verified, Idle}]

Init ==
    /\ \E k \in Keys : published = {k}
    /\ withdrawn = {}
    /\ keys = {}
    /\ age = Refresh + 1
    /\ row = [s \in Subs |-> NoRow]
    /\ request = [r \in Requests |-> Idle]

-----------------------------------------------------------------------------
At(r, pc) == request[r].pc = pc

Go(r, next) == request' = [request EXCEPT ![r] = next]

Stale == age > Refresh

Active(s) == row[s] # NoRow /\ ~row[s].deleted

(* get_current_user, and get_key of the cache.                             *)

\* Mutant of Arrive: a cache that has just been refreshed is final.
ArriveCooldown(r, k) ==
    /\ At(r, "idle")
    /\ k \in published \cup withdrawn
    /\ Go(r, CASE Stale -> [pc |-> "stale", kid |-> k]
               [] ~Stale /\ k \in keys -> Verified
               [] ~Stale /\ k \notin keys /\ age = 0 ->
                      [pc |-> "refused", kid |-> k]
               [] OTHER -> [pc |-> "missing", kid |-> k])
    /\ UNCHANGED <<provider, keys, age, row>>

\* A request arrives with a token that was signed with k.  A stale cache is
\* refreshed before it is looked at.
Arrive(r, k) ==
    /\ At(r, "idle")
    /\ k \in published \cup withdrawn
    /\ Go(r, CASE Stale -> [pc |-> "stale", kid |-> k]
               [] ~Stale /\ k \in keys -> Verified
               [] OTHER -> [pc |-> "missing", kid |-> k])
    /\ UNCHANGED <<provider, keys, age, row>>

\* The provider answers a refresh; the answer is on its way.
Fetch(r) ==
    /\ \/ /\ At(r, "stale")
          /\ Go(r, [pc |-> "stale_answered", kid |-> request[r].kid,
                    answer |-> published])
       \/ /\ At(r, "missing")
          /\ Go(r, [pc |-> "missing_answered", kid |-> request[r].kid,
                    answer |-> published])
    /\ UNCHANGED <<provider, keys, age, row>>

\* Mutant of Refreshed: the answer is added to the keys there are.
RefreshedMore(r) == keys \cup request[r].answer

\* Mutant of Refreshed: the key that the token names is taken for known.
RefreshedNamed(r) == request[r].answer \cup {request[r].kid}

\* The cache after the answer to r has come.
Refreshed(r) == request[r].answer

\* The answer has come: the cache is replaced and looked at in one step.  A
\* key that is still missing is asked for once more, but only once.
Deliver(r) ==
    /\ At(r, "stale_answered") \/ At(r, "missing_answered")
    /\ keys' = Refreshed(r)
    /\ age' = 0
    /\ Go(r, CASE request[r].kid \in keys' -> Verified
               [] request[r].kid \notin keys' /\ At(r, "stale_answered") ->
                      [pc |-> "missing", kid |-> request[r].kid]
               [] OTHER -> [pc |-> "refused", kid |-> request[r].kid])
    /\ UNCHANGED <<provider, row>>

(* get_or_create_user.                                                     *)

\* The row is found and returned, or the insertion has to be tried.  If the
\* token has another e-mail address than the row, an empty transaction is
\* committed and the row is read again.
LookupUser(r, t) ==
    /\ At(r, "verified")
    /\ Go(r, [pc |-> IF Active(t[1]) THEN "returned" ELSE "unknown",
              sub |-> t[1], email |-> t[2]])
    /\ UNCHANGED <<provider, keys, age, row>>

\* Mutant of CreateUser: INSERT ... ON CONFLICT (cognito_sub) DO UPDATE.
CreateOrRenew(r) ==
    LET s == request[r].sub
        refused == \E u \in Subs \ {s} :
                       Active(u) /\ row[u].email = request[r].email
    IN
    /\ At(r, "unknown")
    /\ row' = IF refused THEN row
              ELSE [row EXCEPT ![s] =
                        [email |-> request[r].email, deleted |-> FALSE]]
    /\ Go(r, IF refused THEN Idle ELSE [request[r] EXCEPT !.pc = "returned"])
    /\ UNCHANGED <<provider, keys, age>>

\* The insertion fails if there is a row of this identity by now, or a
\* deleted one, or if another active row has the address.
CreateUser(r) ==
    LET s == request[r].sub
        refused == \/ row[s] # NoRow
                   \/ \E u \in Subs :
                          Active(u) /\ row[u].email = request[r].email
    IN
    /\ At(r, "unknown")
    /\ row' = IF refused THEN row
              ELSE [row EXCEPT ![s] =
                        [email |-> request[r].email, deleted |-> FALSE]]
    /\ Go(r, IF refused THEN Idle ELSE [request[r] EXCEPT !.pc = "returned"])
    /\ UNCHANGED <<provider, keys, age>>

\* The answer 401, or no answer as the provider or the database fails, or
\* the endpoint goes on with the user.
Leave(r) ==
    /\ ~At(r, "idle")
    /\ Go(r, Idle)
    /\ UNCHANGED <<provider, keys, age, row>>

-----------------------------------------------------------------------------
(* What happens meanwhile.                                                 *)

\* The provider publishes a new key, or withdraws one of several for good.
Rotate ==
    /\ \/ \E k \in Keys \ (published \cup withdrawn) :
              published' = published \cup {k} /\ UNCHANGED withdrawn
       \/ \E k \in published :
              /\ published # {k}
              /\ published' = published \ {k}
              /\ withdrawn' = withdrawn \cup {k}
    /\ UNCHANGED <<keys, age, row, request>>

\* A user is deleted or banned: deleted_at is set, see Moderation.
DeleteUser(s) ==
    /\ Active(s)
    /\ row' = [row EXCEPT ![s].deleted = TRUE]
    /\ UNCHANGED <<provider, keys, age, request>>

Tick ==
    /\ ~Stale
    /\ age' = age + 1
    /\ UNCHANGED <<provider, keys, row, request>>

\* The process stops and starts again, with an empty cache.
Restart ==
    /\ keys' = {}
    /\ age' = Refresh + 1
    /\ request' = [r \in Requests |-> Idle]
    /\ UNCHANGED <<provider, row>>

Continue(r) ==
    \/ Fetch(r) \/ Deliver(r)
    \/ \E t \in Tokens : LookupUser(r, t)
    \/ CreateUser(r)
    \/ (At(r, "refused") \/ At(r, "returned")) /\ Leave(r)

Next ==
    \/ \E r \in Requests :
           (\E k \in Keys : Arrive(r, k)) \/ Continue(r) \/ Leave(r)
    \/ \E s \in Subs : DeleteUser(s)
    \/ Rotate \/ Tick \/ Restart

Spec == Init /\ [][Next]_vars

\* Time passes, and requests are answered in the end.
Fairness == WF_vars(Tick) /\ \A r \in Requests : WF_vars(Continue(r))

FairSpec == Spec /\ Fairness

-----------------------------------------------------------------------------
\* No token is refused as signed with an unknown key while the provider
\* publishes that key, however many refreshes overlap and whichever answer
\* comes last.
PublishedKeysAreKnown ==
    \A r \in Requests :
        At(r, "refused") => request[r].kid \notin published

\* A key that the provider withdraws is accepted for a while, as the cache
\* may hold it and late answers may bring it back, but not for ever.
WithdrawnKeysExpire ==
    \A k \in Keys : k \in withdrawn ~> [](k \notin keys \/ Stale)

\* k is neither in the cache nor in an answer of the provider on its way.
Forgotten(k) ==
    /\ k \notin keys
    /\ \A r \in Requests :
           At(r, "stale_answered") \/ At(r, "missing_answered") =>
               k \notin request[r].answer

\* Once the cache and the last answer that names it have gone, a withdrawn
\* key does not return, whoever still signs tokens with it.
WithdrawnStayForgotten ==
    [][\A k \in withdrawn : Forgotten(k) => Forgotten(k)']_vars

\* A deleted or banned user does not come back with a new token, and nobody
\* else gets his row: rows stay, and so do deletions.
RowsStay ==
    [][\A s \in Subs : row[s] # NoRow =>
           /\ row'[s] # NoRow
           /\ row[s].deleted => row'[s].deleted]_vars

-----------------------------------------------------------------------------
(* What documentation says.                                                *)

\* get_or_create_user, user_service.py line 50: "Also updates email if it
\* changed".  The row has the address of the token when a user is returned.
EmailIsUpdated ==
    [][\A r \in Requests :
           ~At(r, "returned") /\ At(r, "returned")'
           => row'[request'[r].sub].email = request'[r].email]_vars
=============================================================================
