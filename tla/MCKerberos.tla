----------------------------- MODULE MCKerberos -----------------------------
(* TLC instance of Kerberos: a parent and a child realm.                     *)
EXTENDS Kerberos, TLC

CONSTANTS child, parent, alice, bob

MCNeighbours == (child :> {parent}) @@ (parent :> {child})
MCClients == {<<alice, child>>}
MCWanted == {<<bob, child>>, <<ChangePw, child>>, <<ChangePw, parent>>}
MCManaged == {<<alice, child>>, <<child, child>>}
MCTrusts == {<<parent, child>>}
=============================================================================
