---------------------------- MODULE MCSessionLimit ----------------------------
(* TLC instance of SessionLimit: two server processes race for one slot, and *)
(* three users ask for it.                                                   *)
EXTENDS SessionLimit
===============================================================================
