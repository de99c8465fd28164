--------------------------- MODULE MCBlockingClient ---------------------------
(***************************************************************************)
(* BlockingClient for TLC: two clients of one ask.                         *)
(***************************************************************************)
EXTENDS BlockingClient

CONSTANTS k1, k2
=============================================================================
