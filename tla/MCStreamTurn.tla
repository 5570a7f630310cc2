---------------------------- MODULE MCStreamTurn ----------------------------
(* TLC instance of StreamTurn: two statuses, which may repeat, and answers   *)
(* of three pieces, so that a stream can stop at its start, in its middle    *)
(* and at its end.                                                           *)
EXTENDS StreamTurn
=============================================================================
