----------------------------- MODULE MCBootstrap -----------------------------
(* TLC instance of Bootstrap and Catalog: members and administrators at once. *)
EXTENDS Bootstrap
=============================================================================
