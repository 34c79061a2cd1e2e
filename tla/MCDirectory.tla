----------------------------- MODULE MCDirectory -----------------------------
(* TLC instance of Directory: a container and an entry under it.            *)
EXTENDS Directory, TLC

CONSTANTS l1, l2, k1, r1, c1, top, leaf

Symmetry == Permutations(Casings) \cup Permutations(Ldap)
MCBelow == (top :> {leaf}) @@ (leaf :> {})
MCWritten == {<<"cn", leaf>>, <<"sam", top>>, <<"sam", leaf>>, <<"princ", top>>, <<"sid", 1>>}
MCValues == Names \cup (1..MaxRids)

\* iron_kdc::index_spec for all but iron-rpcd and iron-rpc-ctl.
MCSpecOf == [p \in Procs |-> IF p \in Rpc THEN {"cn"} ELSE {"cn", "sam", "princ"}]
=============================================================================
