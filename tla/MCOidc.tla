------------------------------- MODULE MCOidc -------------------------------
(***************************************************************************)
(* Two requests at a time, two relying parties, one login, an account that *)
(* is changed, deleted and created anew while codes and tokens are out.    *)
(***************************************************************************)
EXTENDS Oidc, TLC

CONSTANTS c1, c2, u1, u2

MCClients == {c1, c2}
MCUris == {u1, u2}
MCRedirectOf == [cl \in MCClients |-> IF cl = c1 THEN u1 ELSE u2]

Symmetry == Permutations(Reqs) \cup Permutations(Dns)
=============================================================================
