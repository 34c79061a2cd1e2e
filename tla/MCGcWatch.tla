------------------------------ MODULE MCGcWatch ------------------------------
(* TLC instance of GcWatch: a base entry and two entries below it.            *)
EXTENDS GcWatch
=============================================================================
