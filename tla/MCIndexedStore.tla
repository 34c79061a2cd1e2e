--------------------------- MODULE MCIndexedStore ---------------------------
(* TLC instances of IndexedStore: writers with their own IndexSpec.        *)
EXTENDS IndexedStore, TLC

CONSTANTS p1, p2, cn, sam

\* iron-ldapd (p1) indexes both attributes, iron-rpcd (p2) only the first.
MCSpecOf == (p1 :> {cn, sam}) @@ (p2 :> {cn})

\* Both writers are iron-ldapd replicas.
MCSameSpec == [p \in Procs |-> Attrs]
=============================================================================
