---------------------------- MODULE MCRateLimit ----------------------------
(***************************************************************************)
(* Instances of RateLimit.  Three requests of one user at once: one makes  *)
(* the key, one uses up the limit of two, one is refused; a window of four *)
(* ticks leaves room for a late EXPIRE and for a window after this one.    *)
(***************************************************************************)
EXTENDS RateLimit
=============================================================================
