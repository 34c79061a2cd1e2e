------------------------------- MODULE MCJoin -------------------------------
(* Two joins, of one iron-simulate for two names or of two for the same,    *)
(* and one other RPC client, which may bind another interface to its        *)
(* context, one nobody serves, or two contexts at once.                     *)
EXTENDS Join, TLC

CONSTANTS m1, m2, n1, n2

MCPlans == {(m1 :> n1) @@ (m2 :> n1), (m1 :> n1) @@ (m2 :> n2)}
MCBindings == { << <<0, "netlogon">>, <<1, "other">> >>, << <<0, "lsarpc">>, <<1, "netlogon">> >> }
=============================================================================
