--------------------------- MODULE MCGenerations ---------------------------
(* Two generations, one of them with a webhook, polled one row at a time. *)
EXTENDS Generations

CONSTANTS g1, g2
============================================================================
