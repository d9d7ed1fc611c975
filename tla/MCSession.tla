------------------------------- MODULE MCSession -------------------------------
(* One user, and two requests that overlap. *)
EXTENDS Session
=============================================================================
