------------------------------ MODULE MCRidPool ------------------------------
(* TLC instance of RidPool: a counter of three RIDs that wraps, and processes *)
(* that call allocate_rid as often as they like.                             *)
EXTENDS RidPool
=============================================================================
