------------------------ MODULE MentorshipLifecycle ------------------------
(***************************************************************************)
(* What the mentorship component promises, one indivisible step per        *)
(* operation: the state machine of app/db/models/mentorship.py, lines      *)
(* 1-8, 30-36 (REQUESTED -> ACTIVE -> ENDED, or DECLINED), the renewal of  *)
(* a declined or ended mentorship that create_mentorship performs, and the *)
(* message thread that belongs to every mentorship, in which the parties   *)
(* write while the mentorship is ACTIVE.                                   *)
(*                                                                         *)
(* Module Mentorship describes the handlers that are meant to implement    *)
(* it; ImplementsLifecycle there says under which condition they do.       *)
(***************************************************************************)
EXTENDS Sequences

CONSTANTS Pairs    \* pairs <<mentor, mentee>> of users

VARIABLES status,  \* status[p]: the mentorship of p, "none" without a row
          messages \* messages[p]: the thread of p, oldest message first

vars == <<status, messages>>

Mentor(p) == p[1]
Mentee(p) == p[2]

\* The mentor and the mentee of a pair, who may write in its thread.
Parties(p) == {Mentor(p), Mentee(p)}

Init ==
    /\ status = [p \in Pairs |-> "none"]
    /\ messages = [p \in Pairs |-> << >>]

Move(p, from, to) ==
    /\ status[p] \in from
    /\ status' = [status EXCEPT ![p] = to]

Post(p, m) == messages' = [messages EXCEPT ![p] = Append(@, m)]

\* The first request creates the mentorship, its thread and a notice in it.
Request(p) ==
    /\ Mentor(p) # Mentee(p)
    /\ Move(p, {"none"}, "requested")
    /\ Post(p, "created")

\* A later request reopens a mentorship that was declined or has ended.
Renew(p) ==
    /\ Move(p, {"declined", "ended"}, "requested")
    /\ Post(p, "renewed")

Accept(p) == Move(p, {"requested"}, "active") /\ UNCHANGED messages

Decline(p) == Move(p, {"requested"}, "declined") /\ UNCHANGED messages

End(p) == Move(p, {"active"}, "ended") /\ UNCHANGED messages

\* A party of an active mentorship writes a message.
Write(p, u) ==
    /\ status[p] = "active"
    /\ u \in Parties(p)
    /\ Post(p, u)
    /\ UNCHANGED status

Next ==
    \E p \in Pairs :
        \/ Request(p)
        \/ Renew(p)
        \/ Accept(p)
        \/ Decline(p)
        \/ End(p)
        \/ \E u \in Parties(p) : Write(p, u)

Spec == Init /\ [][Next]_vars
=============================================================================
