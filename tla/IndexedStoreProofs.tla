------------------------- MODULE IndexedStoreProofs -------------------------
(***************************************************************************)
(* For any processes, names, spellings, attributes, values and index       *)
(* specs: the store's calls keep the types, a lookup never misses a live   *)
(* entry, and the rows of an entry with a sole writer mirror it exactly.   *)
(***************************************************************************)
EXTENDS IndexedStore, TLAPS

USE StoreAssumption

\* index_keys_for yields well-formed rows, all filed under its own Dn.
LEMMA KeysAreRows ==
    ASSUME NEW dn \in Dn, NEW e \in Entry \cup {Absent}, NEW spec \in SUBSET Attrs
    PROVE  /\ OldKeysFor(dn, e, spec) \subseteq Row
           /\ \A r \in OldKeysFor(dn, e, spec) : r.dn = dn
BY DEF OldKeysFor, IndexKeysFor

\* Every store call keeps tree, idx, call and writers in their types.
THEOREM TypeCorrect == Spec => []TypeOK
<1>1. Init => TypeOK
  BY DEF Init, TypeOK
<1>2. TypeOK /\ [Next]_vars => TypeOK'
  <2> SUFFICES ASSUME TypeOK, [Next]_vars PROVE TypeOK'
    OBVIOUS
  <2>1. CASE UNCHANGED vars
    BY <2>1 DEF TypeOK, vars
  <2>2. ASSUME NEW p \in Procs, NEW dn \in Dn, NEW e \in Entry, PutRead(p, dn, e)
        PROVE  TypeOK'
    <3>1. tree[dn.name] \in Entry \cup {Absent}
      BY DEF TypeOK, Dn
    <3>2. [op |-> "put", dn |-> dn, entry |-> e, old |-> tree[dn.name]] \in Call
      BY <3>1 DEF Call
    <3> QED
      BY <2>2, <3>2 DEF TypeOK, PutRead
  <2>3. ASSUME NEW p \in Procs, NEW dn \in Dn, NEW e \in Entry, CreateTxn(p, dn, e)
        PROVE  TypeOK'
    <3>1. IndexKeysFor(dn, e, SpecOf[p]) \subseteq Row
      BY DEF IndexKeysFor
    <3> QED
      BY <2>3, <3>1 DEF TypeOK, CreateTxn, Wrote, Dn
  <2>4. ASSUME NEW p \in Procs, NEW dn \in Dn, DeleteRead(p, dn)
        PROVE  TypeOK'
    <3>1. tree[dn.name] \in Entry
      BY <2>4 DEF TypeOK, Dn, DeleteRead
    <3>2. [op |-> "delete", dn |-> dn, old |-> tree[dn.name]] \in Call
      BY <3>1 DEF Call
    <3> QED
      BY <2>4, <3>2 DEF TypeOK, DeleteRead
  <2>5. ASSUME NEW p \in Procs, PutTxn(p) PROVE TypeOK'
    <3>1. /\ call[p].dn \in Dn /\ call[p].entry \in Entry
      BY <2>5 DEF TypeOK, PutTxn, Call, Idle
    <3>2. IndexKeysFor(call[p].dn, call[p].entry, SpecOf[p]) \subseteq Row
      BY DEF IndexKeysFor
    <3> QED
      BY <2>5, <3>1, <3>2 DEF TypeOK, PutTxn, Wrote, Dn, RowsAfterPut
  <2>6. ASSUME NEW p \in Procs, DeleteTxn(p) PROVE TypeOK'
    <3>1. call[p].dn \in Dn
      BY <2>6 DEF TypeOK, DeleteTxn, Call, Idle
    <3> QED
      BY <2>6, <3>1 DEF TypeOK, DeleteTxn, Wrote, Dn
  <2>7. ASSUME NEW p \in Procs, Fail(p) PROVE TypeOK'
    BY <2>7 DEF TypeOK, Fail
  <2> QED
    BY <2>1, <2>2, <2>3, <2>4, <2>5, <2>6, <2>7 DEF Next
<1> QED
  BY <1>1, <1>2, PTL DEF Spec

\* The state function LookupNeverMisses asks about, row by row.
LEMMA MissesByRow ==
    LookupNeverMisses <=>
        \A n \in Names, a \in CommonAttrs : tree[n] # Absent =>
            \A v \in tree[n][a] : \E r \in idx : r.attr = a /\ r.value = v /\ r.dn.name = n
BY DEF LookupNeverMisses, LookupByIndex

\* A lookup of a commonly indexed attribute finds every live entry that has
\* the value, for any number of processes crashing and interleaving.  The
\* argument: a Txn deletes rows of the one name it writes only, and writes
\* every row of the value it leaves there.
THEOREM LookupComplete == Spec => []LookupNeverMisses
<1> DEFINE Filed(n) == tree[n] # Absent =>
              \A a \in CommonAttrs : \A v \in tree[n][a] :
                 \E r \in idx : r.attr = a /\ r.value = v /\ r.dn.name = n
<1>1. Init => LookupNeverMisses
  BY DEF Init, LookupNeverMisses
<1>2. TypeOK /\ LookupNeverMisses /\ [Next]_vars => LookupNeverMisses'
  <2> SUFFICES ASSUME TypeOK, LookupNeverMisses, [Next]_vars,
                      NEW n \in Names
               PROVE  Filed(n)'
    BY DEF LookupNeverMisses, LookupByIndex
  <2>0. Filed(n)
    BY MissesByRow
  <2> HIDE DEF Filed
  <2>1. ASSUME UNCHANGED <<tree, idx>> PROVE Filed(n)'
    BY <2>0, <2>1 DEF Filed
  <2>2. ASSUME NEW p \in Procs, NEW dn \in Dn, NEW e \in Entry, NEW gone,
               tree' = [tree EXCEPT ![dn.name] = e],
               idx' = (idx \ gone) \cup IndexKeysFor(dn, e, SpecOf[p]),
               \A r \in gone : r.dn = dn
        PROVE  Filed(n)'
    <3>1. CASE n = dn.name
      <4> SUFFICES ASSUME NEW a \in CommonAttrs, NEW v \in e[a]
                   PROVE  \E r \in idx' : r.attr = a /\ r.value = v /\ r.dn.name = n
        BY <2>2, <3>1 DEF Filed, TypeOK
      <4> DEFINE row == [attr |-> a, value |-> v, dn |-> dn]
      <4>1. a \in Attrs /\ a \in SpecOf[p] /\ v \in Values
        BY DEF CommonAttrs, Entry
      <4>2. row \in IndexKeysFor(dn, e, SpecOf[p])
        BY <4>1 DEF IndexKeysFor, Row
      <4> QED
        BY <4>2, <2>2, <3>1
    <3>2. CASE n # dn.name
      <4>1. tree'[n] = tree[n]
        BY <2>2, <3>2 DEF TypeOK
      <4>2. \A r \in idx : r.dn.name = n => r \in idx'
        BY <2>2, <3>2
      <4> QED
        BY <4>1, <4>2, <2>0 DEF Filed
    <3> QED
      BY <3>1, <3>2
  <2>3. ASSUME NEW p \in Procs, NEW dn \in Dn, NEW e \in Entry,
               CreateTxn(p, dn, e)
        PROVE  Filed(n)'
    <3>1. CASE tree[dn.name] = Absent
      <4> DEFINE gone == {}
      <4>1. /\ tree' = [tree EXCEPT ![dn.name] = e]
            /\ idx' = (idx \ gone) \cup IndexKeysFor(dn, e, SpecOf[p])
        BY <2>3, <3>1 DEF CreateTxn
      <4>2. \A r \in gone : r.dn = dn
        OBVIOUS
      <4> HIDE DEF gone
      <4> QED
        BY Zenon, <4>1, <4>2, <2>2
    <3>2. CASE tree[dn.name] # Absent
      BY <2>1, <2>3, <3>2 DEF CreateTxn
    <3> QED
      BY <3>1, <3>2
  <2>4. ASSUME NEW p \in Procs, PutTxn(p) PROVE Filed(n)'
    <3> DEFINE c == call[p]
               gone == OldKeysFor(c.dn, c.old, SpecOf[p]) \ IndexKeysFor(c.dn, c.entry, SpecOf[p])
    <3>1. c.dn \in Dn /\ c.entry \in Entry /\ c.old \in Entry \cup {Absent}
      BY <2>4 DEF TypeOK, PutTxn, Call, Idle
    <3>2. \A r \in gone : r.dn = c.dn
      BY <3>1, KeysAreRows
    <3>3. /\ tree' = [tree EXCEPT ![c.dn.name] = c.entry]
          /\ idx' = (idx \ gone) \cup IndexKeysFor(c.dn, c.entry, SpecOf[p])
      BY <2>4 DEF PutTxn, RowsAfterPut
    <3> HIDE DEF c, gone
    <3> QED
      BY Zenon, <3>1, <3>2, <3>3, <2>2
  <2>5. ASSUME NEW p \in Procs, DeleteTxn(p) PROVE Filed(n)'
    <3> DEFINE c == call[p]
    <3>1. c.dn \in Dn /\ c.old \in Entry
      BY <2>5 DEF TypeOK, DeleteTxn, Call, Idle
    <3>2. \A r \in OldKeysFor(c.dn, c.old, SpecOf[p]) : r.dn = c.dn
      BY <3>1, KeysAreRows
    <3>3. CASE n = c.dn.name
      BY <2>5, <3>3 DEF DeleteTxn, Filed, TypeOK
    <3>4. CASE n # c.dn.name
      <4>1. tree'[n] = tree[n]
        BY <2>5, <3>4 DEF DeleteTxn, TypeOK
      <4>2. \A r \in idx : r.dn.name = n => r \in idx'
        BY <2>5, <3>2, <3>4 DEF DeleteTxn
      <4> QED
        BY <4>1, <4>2, <2>0 DEF Filed
    <3> QED
      BY <3>3, <3>4
  <2> QED
    BY <2>1, <2>3, <2>4, <2>5 DEF Next, vars, PutRead, DeleteRead, Fail
<1> QED
  BY <1>1, <1>2, TypeCorrect, PTL DEF Spec

-----------------------------------------------------------------------------
\* The inductive form of SoleWriterMirrored.  While p, spelling c, is the
\* only writer of n, the rows of n are exactly those of its entry, and what p
\* read at the start of a call on n is still what the tree holds: nobody else
\* has written n since.
SoleWriterInv ==
    \A n \in Names, p \in Procs, c \in Casings :
        writers[n] \subseteq {<<p, c>>} =>
            /\ RowsNaming(n) = OldKeysFor([name |-> n, case |-> c], tree[n], SpecOf[p])
            /\ call[p] # Idle /\ call[p].dn.name = n => call[p].old = tree[n]

\* The rows of an entry written by one process under one spelling mirror the
\* entry exactly, through crashes and whatever else runs (index.rs:1-3).
THEOREM SoleWriterMirroredThm == Spec => []SoleWriterMirrored
<1> DEFINE D(n, c) == [name |-> n, case |-> c]
           Sole(n, p, c) == writers[n] \subseteq {<<p, c>>}
           Rows(n, p, c) == RowsNaming(n) = OldKeysFor(D(n, c), tree[n], SpecOf[p])
           Fresh(n, p) == call[p] # Idle /\ call[p].dn.name = n => call[p].old = tree[n]
<1>1. Init => SoleWriterInv
  BY DEF Init, SoleWriterInv, RowsNaming, OldKeysFor
<1>2. TypeOK /\ SoleWriterInv /\ [Next]_vars => SoleWriterInv'
  <2> SUFFICES ASSUME TypeOK, SoleWriterInv, [Next]_vars,
                      NEW n \in Names, NEW p \in Procs, NEW c \in Casings,
                      Sole(n, p, c)'
               PROVE  Rows(n, p, c)' /\ Fresh(n, p)'
    BY DEF SoleWriterInv
  <2>d. D(n, c) \in Dn
    BY DEF Dn
  \* Steps that write nothing: only p's own read can touch call[p].
  <2>1. ASSUME UNCHANGED <<tree, idx, writers>>,
               \/ UNCHANGED call
               \/ \E q \in Procs : call' = [call EXCEPT ![q] = Idle]
               \/ \E q \in Procs, dn \in Dn, e \in Entry : PutRead(q, dn, e)
               \/ \E q \in Procs, dn \in Dn : DeleteRead(q, dn)
        PROVE  Rows(n, p, c)' /\ Fresh(n, p)'
    <3>1. Rows(n, p, c) /\ Fresh(n, p)
      BY <2>1 DEF SoleWriterInv
    <3>2. Rows(n, p, c)'
      BY <3>1, <2>1 DEF RowsNaming
    <3>3. Fresh(n, p)'
      BY <3>1, <2>1 DEF PutRead, DeleteRead, TypeOK, Idle
    <3> QED
      BY <3>2, <3>3
  \* A Txn of q at dn that leaves e there and removes rows of dn only.
  <2>2. ASSUME NEW q \in Procs, NEW dn \in Dn, NEW e \in Entry \cup {Absent},
               NEW gone,
               tree' = [tree EXCEPT ![dn.name] = e],
               idx' = (idx \ gone) \cup OldKeysFor(dn, e, SpecOf[q]),
               gone \subseteq OldKeysFor(dn, tree[dn.name], SpecOf[q])
                 \/ ~ (writers[dn.name] \subseteq {<<q, dn.case>>}),
               \A r \in gone : r.dn = dn,
               OldKeysFor(dn, tree[dn.name], SpecOf[q])
                  \subseteq gone \cup OldKeysFor(dn, e, SpecOf[q])
                 \/ ~ (writers[dn.name] \subseteq {<<q, dn.case>>}),
               Wrote(q, dn),
               call'[q] = Idle,
               \A x \in Procs : x # q => call'[x] = call[x]
        PROVE  Rows(n, p, c)' /\ Fresh(n, p)'
    <3>1. CASE n = dn.name
      <4>1. writers'[n] = writers[n] \cup {<<q, dn.case>>}
        BY <2>2, <3>1 DEF Wrote, TypeOK
      <4>2. q = p /\ dn.case = c /\ Sole(n, p, c)
        <5>1. writers'[n] \subseteq {<<p, c>>}
          OBVIOUS
        <5>2. <<q, dn.case>> \in {<<p, c>>} /\ writers[n] \subseteq {<<p, c>>}
          BY Zenon, <4>1, <5>1
        <5> QED
          BY <5>2
      <4>3. dn = D(n, c)
        BY <4>2, <3>1 DEF Dn
      <4>4. Rows(n, p, c) /\ tree'[n] = e
        BY <4>2, <2>2, <3>1 DEF SoleWriterInv, TypeOK
      <4>5. \A r \in OldKeysFor(dn, e, SpecOf[q]) : r.dn = dn
        BY KeysAreRows
      <4>6. RowsNaming(n)' = OldKeysFor(dn, e, SpecOf[q])
        BY <2>2, <3>1, <4>2, <4>3, <4>4, <4>5 DEF RowsNaming
      <4>7. Rows(n, p, c)'
        BY <4>2, <4>3, <4>4, <4>6
      <4> QED
        BY <4>7, <4>2, <2>2
    <3>2. CASE n # dn.name
      <4>1. writers'[n] = writers[n] /\ tree'[n] = tree[n]
        BY <2>2, <3>2 DEF Wrote, TypeOK
      <4>2. Rows(n, p, c) /\ Fresh(n, p)
        BY <4>1 DEF SoleWriterInv
      <4>3. \A r \in OldKeysFor(dn, e, SpecOf[q]) : r.dn = dn
        BY KeysAreRows
      <4>4. RowsNaming(n)' = RowsNaming(n)
        BY <2>2, <3>2, <4>3 DEF RowsNaming
      <4> QED
        BY <4>1, <4>2, <4>4, <2>2
    <3> QED
      BY <3>1, <3>2
  <2> HIDE DEF D, Sole, Rows, Fresh
  <2>3. ASSUME NEW q \in Procs, NEW dn \in Dn, NEW e \in Entry,
               CreateTxn(q, dn, e), tree[dn.name] = Absent
        PROVE  Rows(n, p, c)' /\ Fresh(n, p)'
    <3> DEFINE gone == {}
    <3>1. /\ tree' = [tree EXCEPT ![dn.name] = e]
          /\ idx' = (idx \ gone) \cup OldKeysFor(dn, e, SpecOf[q])
          /\ Wrote(q, dn)
          /\ call'[q] = Idle
          /\ \A x \in Procs : x # q => call'[x] = call[x]
      BY <2>3 DEF CreateTxn, OldKeysFor
    <3>2. OldKeysFor(dn, tree[dn.name], SpecOf[q]) = {}
      BY <2>3 DEF OldKeysFor
    <3>3. \A r \in gone : r.dn = dn
      OBVIOUS
    <3>4. gone \subseteq OldKeysFor(dn, tree[dn.name], SpecOf[q])
      OBVIOUS
    <3> HIDE DEF gone
    <3> QED
      BY Zenon, <2>2, <3>1, <3>2, <3>3, <3>4
  <2>4. ASSUME NEW q \in Procs, PutTxn(q) PROVE Rows(n, p, c)' /\ Fresh(n, p)'
    <3> DEFINE k == call[q]
               gone == OldKeysFor(k.dn, k.old, SpecOf[q]) \ OldKeysFor(k.dn, k.entry, SpecOf[q])
    <3>1. k.dn \in Dn /\ k.entry \in Entry /\ k.old \in Entry \cup {Absent} /\ k # Idle
      BY <2>4 DEF TypeOK, PutTxn, Call, Idle
    <3>2. /\ tree' = [tree EXCEPT ![k.dn.name] = k.entry]
          /\ idx' = (idx \ gone) \cup OldKeysFor(k.dn, k.entry, SpecOf[q])
          /\ Wrote(q, k.dn)
          /\ call'[q] = Idle
          /\ \A x \in Procs : x # q => call'[x] = call[x]
      <4>1. k.entry # Absent
        BY <3>1
      <4> QED
        BY <2>4, <4>1 DEF PutTxn, RowsAfterPut, OldKeysFor, TypeOK
    <3>3. \A r \in gone : r.dn = k.dn
      BY <3>1, KeysAreRows
    <3>4. writers[k.dn.name] \subseteq {<<q, k.dn.case>>} => k.old = tree[k.dn.name]
      BY <3>1 DEF SoleWriterInv, Dn
    <3> HIDE DEF k
    <3>5. \/ ~ (writers[k.dn.name] \subseteq {<<q, k.dn.case>>})
          \/ /\ gone \subseteq OldKeysFor(k.dn, tree[k.dn.name], SpecOf[q])
             /\ OldKeysFor(k.dn, tree[k.dn.name], SpecOf[q])
                  \subseteq gone \cup OldKeysFor(k.dn, k.entry, SpecOf[q])
      BY <3>4
    <3> HIDE DEF gone
    <3> QED
      BY ZenonT(40), <2>2, <3>1, <3>2, <3>3, <3>5
  <2>5. ASSUME NEW q \in Procs, DeleteTxn(q) PROVE Rows(n, p, c)' /\ Fresh(n, p)'
    <3> DEFINE k == call[q]
               gone == OldKeysFor(k.dn, k.old, SpecOf[q])
    <3>1. k.dn \in Dn /\ k.old \in Entry /\ k # Idle
      BY <2>5 DEF TypeOK, DeleteTxn, Call, Idle
    <3>2. /\ tree' = [tree EXCEPT ![k.dn.name] = Absent]
          /\ idx' = (idx \ gone) \cup OldKeysFor(k.dn, Absent, SpecOf[q])
          /\ Wrote(q, k.dn)
          /\ call'[q] = Idle
          /\ \A x \in Procs : x # q => call'[x] = call[x]
      BY <2>5 DEF DeleteTxn, OldKeysFor, TypeOK
    <3>3. \A r \in gone : r.dn = k.dn
      BY <3>1, KeysAreRows
    <3>4. writers[k.dn.name] \subseteq {<<q, k.dn.case>>} => k.old = tree[k.dn.name]
      BY <3>1 DEF SoleWriterInv, Dn
    <3> HIDE DEF k
    <3>5. \/ ~ (writers[k.dn.name] \subseteq {<<q, k.dn.case>>})
          \/ gone = OldKeysFor(k.dn, tree[k.dn.name], SpecOf[q])
      BY <3>4
    <3> HIDE DEF gone
    <3> QED
      BY Zenon, <2>2, <3>1, <3>2, <3>3, <3>5
  <2> QED
    BY <2>1, <2>3, <2>4, <2>5 DEF Next, vars, PutRead, DeleteRead, CreateTxn, Fail
<1>3. SoleWriterInv => SoleWriterMirrored
  BY DEF SoleWriterInv, SoleWriterMirrored
<1> QED
  BY <1>1, <1>2, <1>3, TypeCorrect, PTL DEF Spec
=============================================================================
