-------------------------- MODULE MCAuthentication --------------------------
(***************************************************************************)
(* Instances of Authentication.  The address of ann becomes the address of *)
(* bob when she has got another one.                                       *)
(***************************************************************************)
EXTENDS Authentication

CONSTANTS ann, bob

AddressMoves == {<<ann, "x">>, <<ann, "y">>, <<bob, "x">>}
=============================================================================
