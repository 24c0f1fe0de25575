--------------------------- MODULE MessagePaging ---------------------------
(***************************************************************************)
(* Reading a message thread in pages, newest first: list_messages of the   *)
(* message service, and the endpoint GET /mentorships/{id}/messages.       *)
(*                                                                         *)
(* A message is identified by its time and its id, which order the thread. *)
(* created_at is the start of the transaction that sent it, so that a      *)
(* message may appear behind others that are newer, and several may have   *)
(* the same time.  A cursor is the last message of a page.  The service    *)
(* writes it as "time|id"; the endpoint was written for a plain time.      *)
(***************************************************************************)
EXTENDS Naturals, FiniteSets

CONSTANTS
    Times,   \* values of created_at
    Ids,     \* the order of UUIDs
    Limits   \* values of the query parameter limit

ASSUME OrderAssumption == Times \subseteq Nat /\ Ids \subseteq Nat
ASSUME LimitsAssumption == Limits \subseteq Nat \ {0}

VARIABLES
    thread,    \* messages of the thread that are committed
    walk,      \* a reader of all pages: where it is and what it has got
    began,     \* history: messages that were there when it began
    twice,     \* history: the reader has got some message twice
    answer     \* what the endpoint was asked for last, and its answer

pagingVars == <<thread, walk, began, twice, answer>>

Message == Times \X Ids

\* No cursor: the newest page.  There is no message with time 0 and id 0.
Top == <<0, 0>>

ASSUME TopAssumption == Top \notin Message

Newer(a, b) == a[1] > b[1] \/ (a[1] = b[1] /\ a[2] > b[2])

\* The endpoint is asked for the newest page, for the one behind a cursor
\* that the service has returned, or for the one before a plain time.
Answers == [asked : {"newest", "next", "time"},
            got : {"page", "bad request", "server error"}]

NoAnswer == [asked |-> "nothing", got |-> "nothing"]

PagingTypeOK ==
    /\ thread \subseteq Message
    /\ walk \in [pc : {"idle", "reading", "done"}, got : SUBSET Message,
                 cursor : Message \cup {Top}]
    /\ began \subseteq Message
    /\ twice \in BOOLEAN
    /\ answer \in Answers \cup {NoAnswer}

PagingInit ==
    /\ thread = {}
    /\ walk = [pc |-> "idle", got |-> {}, cursor |-> Top]
    /\ began = {}
    /\ twice = FALSE
    /\ answer = NoAnswer

-----------------------------------------------------------------------------
\* Mutant of Older: messages are compared by their times only.
OlderTime(cursor) ==
    {m \in thread : cursor = Top \/ m[1] < cursor[1]}

\* The WHERE clause of list_messages.
Older(cursor) == {m \in thread : cursor = Top \/ Newer(cursor, m)}

\* ORDER BY ... LIMIT: P is the page of the newest messages of S.
IsPage(P, S, limit) ==
    /\ P \subseteq S
    /\ \A a \in P, b \in S \ P : Newer(a, b)
    /\ \/ P = S /\ Cardinality(S) <= limit
       \/ P # S /\ Cardinality(P) = limit

\* The query asks for one message more than the page has room for.
HasMore(S, limit) == Cardinality(S) > limit

Oldest(P) == CHOOSE m \in P : \A a \in P \ {m} : Newer(a, m)

\* A message is committed, wherever its time puts it.
Send(m) ==
    /\ m \in Message \ thread
    /\ thread' = thread \cup {m}
    /\ UNCHANGED <<walk, began, twice, answer>>

\* A reader asks for the newest page.
Begin ==
    /\ walk.pc = "idle"
    /\ walk' = [walk EXCEPT !.pc = "reading"]
    /\ began' = thread
    /\ UNCHANGED <<thread, twice, answer>>

\* The service answers with a page and the cursor of the next one, if there
\* is one.
Read(limit) ==
    LET S == Older(walk.cursor) IN
    /\ walk.pc = "reading"
    /\ \E P \in SUBSET S :
           /\ IsPage(P, S, limit)
           /\ walk' = IF HasMore(S, limit)
                      THEN [pc |-> "reading", got |-> walk.got \cup P,
                            cursor |-> Oldest(P)]
                      ELSE [pc |-> "done", got |-> walk.got \cup P,
                            cursor |-> Top]
           /\ twice' = (twice \/ P \cap walk.got # {})
    /\ UNCHANGED <<thread, began, answer>>

\* The reader has what it wanted, and may begin again.
Close ==
    /\ walk.pc = "done"
    /\ walk' = [pc |-> "idle", got |-> {}, cursor |-> Top]
    /\ began' = {}
    /\ UNCHANGED <<thread, twice, answer>>

\* The endpoint calls isoformat on the cursor that the service returns if
\* there is a next page, which is a string.
GetNewest(limit) ==
    /\ answer' = [asked |-> "newest",
                  got |-> IF HasMore(Older(Top), limit) THEN "server error"
                          ELSE "page"]
    /\ UNCHANGED <<thread, walk, began, twice>>

\* It hands the cursor it is given to fromisoformat, which refuses one that
\* the service has made,
GetNext ==
    /\ walk.cursor # Top
    /\ answer' = [asked |-> "next", got |-> "bad request"]
    /\ UNCHANGED <<thread, walk, began, twice>>

\* and makes a datetime of a plain time, which the service cannot split.
GetBefore ==
    /\ answer' = [asked |-> "time", got |-> "server error"]
    /\ UNCHANGED <<thread, walk, began, twice>>

PagingNext ==
    \/ \E m \in Message : Send(m)
    \/ Begin \/ Close
    \/ \E limit \in Limits : Read(limit) \/ GetNewest(limit)
    \/ GetNext \/ GetBefore

PagingSpec == PagingInit /\ [][PagingNext]_pagingVars

-----------------------------------------------------------------------------
\* A reader that follows the cursors of the service to the end gets every
\* message that was there when it began, and none of them twice, although
\* messages are sent meanwhile, may appear anywhere in the thread and may
\* have the same time.
EveryMessageOnce ==
    /\ ~twice
    /\ walk.pc = "done" => began \subseteq walk.got

-----------------------------------------------------------------------------
\* get_messages, mentorships.py line 471: "Use the next_cursor from the
\* response to fetch older messages."  The newest page comes with a cursor
\* if there are older messages, and that cursor gets them.
OlderMessagesAreFetched ==
    answer.asked \in {"newest", "next"} => answer.got = "page"
=============================================================================
