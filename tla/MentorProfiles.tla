--------------------------- MODULE MentorProfiles ---------------------------
(***************************************************************************)
(* The profile of one mentor, its topics, and the vector that stands for   *)
(* both in the similarity search: POST and PATCH /mentors/me, POST         *)
(* /mentors/me/topics, and the backfill script.                            *)
(*                                                                         *)
(* Each operation commits the profile or its topics first and the vector   *)
(* in a second transaction.  In between it reads what the vector is made   *)
(* of, one SELECT after the other.  Objects keep their attributes after a  *)
(* commit (expire_on_commit=False): only db.refresh reads the profile row  *)
(* anew.  The vector is represented by what it was computed from.          *)
(***************************************************************************)
EXTENDS Naturals

CONSTANTS
    Texts,    \* what bio and headline say; an update replaces it
    Topics,
    Handlers  \* requests and scripts that work on the profile at once

NoText == "no profile"
NoVector == [text |-> NoText, topics |-> {}]

ASSUME TextsAssumption == NoText \notin Texts

VARIABLES
    profile,  \* the profile row, NoText if there is none
    topics,   \* topics of the profile's mentor_topic rows
    vector,   \* the mentor_embedding row, NoVector if there is none
    handler,  \* handler[h]: what h is doing and what it has read
    stale,    \* history: handlers that have read the text, and the profile
              \* or its topics have changed since
    current,  \* history: the vector was written by a handler that was not
              \* stale, and nothing has changed since
    halfDone  \* history: creating the profile failed after its first commit

vars == <<profile, topics, vector, handler, stale, current, halfDone>>
history == <<stale, current, halfDone>>

Vector == [text : Texts, topics : SUBSET Topics]

\* PATCH /mentors/me has loaded the profile and is going to write text new.
Edit == [pc : {"edit"}, text : Texts, new : Texts]

\* POST /mentors/me/topics has loaded the profile, has read the rows that it
\* is going to delete, or has deleted them without committing.  rows: these
\* rows, as far as nobody else has deleted them; wanted: the topics found for
\* the ids of the request; clear: there were no ids.
Replacement == [pc : {"replace", "rows_read", "deleted"}, text : Texts,
                wanted : SUBSET Topics, rows : SUBSET Topics, clear : BOOLEAN]

\* generate_mentor_embedding: the change is committed, the text of the
\* profile is known, so are its topics, and so is whether there is a vector.
\* first: the request created the profile.
Generation == [pc : {"committed", "described", "encoded", "ready"},
               text : Texts, seen : SUBSET Topics, found : BOOLEAN,
               first : BOOLEAN]

Work == Edit \cup Replacement \cup Generation

Idle == [pc |-> "idle"]

TypeOK ==
    /\ profile \in Texts \cup {NoText}
    /\ topics \subseteq Topics
    /\ vector \in Vector \cup {NoVector}
    /\ handler \in [Handlers -> Work \cup {Idle}]
    /\ stale \subseteq Handlers
    /\ current \in BOOLEAN
    /\ halfDone \in BOOLEAN

Init ==
    /\ profile = NoText
    /\ topics = {}
    /\ vector = NoVector
    /\ handler = [h \in Handlers |-> Idle]
    /\ stale = {}
    /\ current = FALSE
    /\ halfDone = FALSE

-----------------------------------------------------------------------------
At(h, pc) == handler[h].pc = pc

Go(h, work) == handler' = [handler EXCEPT ![h] = work]

Generate(pc, text, first) ==
    [pc |-> pc, text |-> text, seen |-> {}, found |-> FALSE, first |-> first]

\* The request is answered or has failed; whatever was not committed is gone.
Finish(h) ==
    /\ Go(h, Idle)
    /\ stale' = stale \ {h}

\* h holds the text it will make the vector of.
Holds(h) == handler[h].pc \in
    {"replace", "rows_read", "deleted", "described", "encoded", "ready"}

\* h has created the profile and has not committed a vector.
Creating(h) ==
    /\ handler[h].pc \in {"committed", "described", "encoded", "ready"}
    /\ handler[h].first

\* h commits a change of the profile or its topics.
Overtake(h) ==
    /\ stale' = stale \cup {g \in Handlers \ {h} : Holds(g)}
    /\ current' = FALSE

\* h commits its deletions and goes on with work: the rows are gone for the
\* others who have read them.
CommitRows(h, work) ==
    handler' = [g \in Handlers |->
        CASE g = h -> work
          [] g # h /\ handler[g].pc \in {"rows_read", "deleted"} ->
                 [handler[g] EXCEPT !.rows = @ \ handler[h].rows]
          [] OTHER -> handler[g]]

\* The DELETE of h does not have to wait for somebody else's.
Unlocked(h) ==
    \A g \in Handlers \ {h} :
        At(g, "deleted") => handler[g].rows \cap handler[h].rows = {}

-----------------------------------------------------------------------------
(* POST /mentors/me                                                        *)

\* Mutant of Create: the vector is left to the backfill script.
CreateOnly(h, t) ==
    /\ At(h, "idle")
    /\ profile = NoText
    /\ profile' = t
    /\ Overtake(h)
    /\ UNCHANGED <<topics, vector, handler, halfDone>>

\* INSERT and commit; the unique user_id refuses a second profile.
Create(h, t) ==
    /\ At(h, "idle")
    /\ profile = NoText
    /\ profile' = t
    /\ Go(h, Generate("committed", t, TRUE))
    /\ Overtake(h)
    /\ UNCHANGED <<topics, vector, halfDone>>

(* PATCH /mentors/me                                                       *)

LoadUpdate(h, t) ==
    /\ At(h, "idle")
    /\ profile # NoText
    /\ Go(h, [pc |-> "edit", text |-> profile, new |-> t])
    /\ UNCHANGED <<profile, topics, vector, history>>

\* Only an attribute that differs from what was loaded is written.
CommitUpdate(h) ==
    /\ At(h, "edit")
    /\ profile' = IF handler[h].new = handler[h].text
                  THEN profile ELSE handler[h].new
    /\ Go(h, Generate("committed", handler[h].new, FALSE))
    /\ Overtake(h)
    /\ UNCHANGED <<topics, vector, halfDone>>

(* POST /mentors/me/topics                                                 *)

\* The profile is read here, and not again before the vector is made.  An
\* empty list of ids is a case of its own; ids that are not found are
\* ignored.
LoadReplace(h, S, clear) ==
    /\ At(h, "idle")
    /\ profile # NoText
    /\ clear => S = {}
    /\ Go(h, [pc |-> "replace", text |-> profile, wanted |-> S, rows |-> {},
              clear |-> clear])
    /\ UNCHANGED <<profile, topics, vector, history>>

ReadRows(h) ==
    /\ At(h, "replace")
    /\ handler' = [handler EXCEPT ![h].pc = "rows_read", ![h].rows = topics]
    /\ UNCHANGED <<profile, topics, vector, history>>

\* Without ids the deletion is committed and the request is answered.
CommitClear(h) ==
    /\ At(h, "rows_read") /\ handler[h].clear
    /\ Unlocked(h)
    /\ topics' = topics \ handler[h].rows
    /\ CommitRows(h, Idle)
    /\ stale' = (stale \cup {g \in Handlers : Holds(g)}) \ {h}
    /\ current' = FALSE
    /\ UNCHANGED <<profile, vector, halfDone>>

\* The SELECT of the wanted topics flushes the DELETEs, which lock the rows.
DeleteRows(h) ==
    /\ At(h, "rows_read") /\ ~handler[h].clear
    /\ Unlocked(h)
    /\ handler' = [handler EXCEPT ![h].pc = "deleted"]
    /\ UNCHANGED <<profile, topics, vector, history>>

\* A wanted topic that somebody else has inserted meanwhile violates the
\* unique constraint.
CommitTopics(h) ==
    LET kept == topics \ handler[h].rows IN
    /\ At(h, "deleted")
    /\ handler[h].wanted \cap kept = {}
    /\ topics' = kept \cup handler[h].wanted
    /\ CommitRows(h, Generate("described", handler[h].text, FALSE))
    /\ Overtake(h)
    /\ UNCHANGED <<profile, vector, halfDone>>

(* scripts/backfill_embeddings.py                                          *)

Backfill(h) ==
    /\ At(h, "idle")
    /\ profile # NoText
    /\ Go(h, Generate("described", profile, FALSE))
    /\ UNCHANGED <<profile, topics, vector, history>>

-----------------------------------------------------------------------------
(* generate_mentor_embedding, and the second commit.                       *)

\* Mutant of Refresh: the vector is made of the text that was written.
RefreshNothing(h) ==
    /\ At(h, "committed")
    /\ handler' = [handler EXCEPT ![h].pc = "described"]
    /\ UNCHANGED <<profile, topics, vector, history>>

\* db.refresh: only create and update read the profile again.
Refresh(h) ==
    /\ At(h, "committed")
    /\ handler' = [handler EXCEPT ![h].pc = "described", ![h].text = profile]
    /\ UNCHANGED <<profile, topics, vector, history>>

ReadTopics(h) ==
    /\ At(h, "described")
    /\ handler' = [handler EXCEPT ![h].pc = "encoded", ![h].seen = topics]
    /\ UNCHANGED <<profile, topics, vector, history>>

FindVector(h) ==
    /\ At(h, "encoded")
    /\ handler' = [handler EXCEPT ![h].pc = "ready",
                                  ![h].found = (vector # NoVector)]
    /\ UNCHANGED <<profile, topics, vector, history>>

\* Mutant of CommitVector: a row that is not there is not inserted.
CommitVectorFound(h) ==
    /\ At(h, "ready")
    /\ handler[h].found \/ vector = NoVector
    /\ vector' = IF handler[h].found
                 THEN [text |-> handler[h].text, topics |-> handler[h].seen]
                 ELSE vector
    /\ current' = (IF handler[h].found THEN h \notin stale ELSE current)
    /\ Finish(h)
    /\ UNCHANGED <<profile, topics, halfDone>>

\* The row is updated, or inserted if none was found.
CommitVector(h) ==
    /\ At(h, "ready")
    /\ handler[h].found \/ vector = NoVector
    /\ vector' = [text |-> handler[h].text, topics |-> handler[h].seen]
    /\ current' = (h \notin stale)
    /\ Finish(h)
    /\ UNCHANGED <<profile, topics, halfDone>>

\* An insertion that the unique constraint refuses is rolled back: topics
\* that somebody else has inserted, or a vector.
Conflict(h) ==
    /\ \/ /\ At(h, "deleted")
          /\ handler[h].wanted \cap (topics \ handler[h].rows) # {}
       \/ /\ At(h, "ready")
          /\ ~handler[h].found /\ vector # NoVector
    /\ Finish(h)
    /\ UNCHANGED <<profile, topics, vector, current, halfDone>>

\* The process stops, the model cannot be loaded, or the database fails.
Fail(h) ==
    /\ ~At(h, "idle")
    /\ halfDone' = (halfDone \/ Creating(h))
    /\ Finish(h)
    /\ UNCHANGED <<profile, topics, vector, current>>

Begin(h) ==
    \/ \E t \in Texts : Create(h, t) \/ LoadUpdate(h, t)
    \/ \E S \in SUBSET Topics, clear \in BOOLEAN : LoadReplace(h, S, clear)
    \/ Backfill(h)

Continue(h) ==
    \/ CommitUpdate(h) \/ ReadRows(h) \/ CommitClear(h) \/ DeleteRows(h)
    \/ CommitTopics(h) \/ Refresh(h) \/ ReadTopics(h) \/ FindVector(h)
    \/ CommitVector(h) \/ Conflict(h)

Next == \E h \in Handlers : Begin(h) \/ Continue(h) \/ Fail(h)

Spec == Init /\ [][Next]_vars

\* A request that the database does not hold up goes on.  Nothing makes users
\* send requests, and nothing makes them fail.
Fairness == \A h \in Handlers : WF_vars(Continue(h))

FairSpec == Spec /\ Fairness

-----------------------------------------------------------------------------
\* The vector says what the profile and its topics say whenever the handler
\* that wrote it was not overtaken between its reads and its commit and
\* nothing has changed since.  An empty list of topics does not count as
\* such a handler: it leaves the vector as it is.
CurrentUnlessOvertaken ==
    current => vector = [text |-> profile, topics |-> topics]

\* A profile without a vector has the request that created it still at work
\* on the vector, unless that has failed: whoever else works on the profile,
\* fails or conflicts with it meanwhile, cannot leave it without one.
VectorIsComing ==
    profile # NoText /\ vector = NoVector =>
        halfDone \/ \E h \in Handlers : Creating(h)

\* Every profile gets a vector, without which the search cannot find it,
\* unless the request that created it failed after its first commit.
ProfilesAreFound == profile # NoText ~> vector # NoVector \/ halfDone
=============================================================================
