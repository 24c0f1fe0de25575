------------------------------- MODULE Quota -------------------------------
(***************************************************************************)
(* What a rate limit promises one user: requests are let through in        *)
(* windows, at most Limit of them in one window.  A window opens with a    *)
(* request, whether that is let through or lost, and closes no sooner than *)
(* Window ticks later.  Windows follow each other without a pause, so that *)
(* two of them may grant 2 * Limit requests in a short time, but never     *)
(* more.  A window may last longer than promised.                          *)
(***************************************************************************)
EXTENDS Naturals

CONSTANTS
    Limit,   \* requests let through in one window
    Window   \* ticks a window lasts at least

VARIABLES
    open,    \* there is a window
    used,    \* requests let through in this window
    age      \* ticks since it opened, counted up to Window

vars == <<open, used, age>>

Init == open = FALSE /\ used = 0 /\ age = 0

\* A request comes when there is no window.
Open ==
    /\ ~open
    /\ open' = TRUE
    /\ UNCHANGED <<used, age>>

\* A request is let through.
Grant ==
    /\ open
    /\ used < Limit
    /\ used' = used + 1
    /\ UNCHANGED <<open, age>>

\* Time passes in a window.
Tick ==
    /\ open
    /\ age < Window
    /\ age' = age + 1
    /\ UNCHANGED <<open, used>>

\* The next tick ends the window.
Close ==
    /\ open
    /\ age + 1 >= Window
    /\ open' = FALSE
    /\ used' = 0
    /\ age' = 0

Next == Open \/ Grant \/ Tick \/ Close

Spec == Init /\ [][Next]_vars
=============================================================================
