---------------------------- MODULE IndexedStore ----------------------------
(***************************************************************************)
(* One partition of iron-store: the entries under /iron/<pid>/tree/ and    *)
(* the secondary-index rows under /iron/<pid>/idx/ of one fastetcd         *)
(* cluster, and the processes (iron-ldapd replicas, iron-kdcd, iron-rpcd,  *)
(* iron-bootstrap, the ctl tools) that write them through Store.           *)
(*                                                                         *)
(* A Store sits behind one tokio Mutex per process, so a process runs one  *)
(* store call at a time; nothing serialises two processes.  A put or a     *)
(* delete is a linearizable read of the old entry followed by one Txn      *)
(* built from what was read; a create is one guarded Txn.                  *)
(***************************************************************************)
EXTENDS Naturals, FiniteSets

CONSTANTS
    Procs,      \* processes that hold a Store on this partition
    Names,      \* DNs as the entry tree compares them (normalised)
    Casings,    \* the spellings a client can give one name (display form)
    Attrs,      \* attribute types
    Values,     \* attribute values
    SpecOf,     \* SpecOf[p]: the IndexSpec process p passes to every call
    Absent      \* no entry under the key

VARIABLES
    tree,       \* name -> the entry stored there, or Absent
    idx,        \* the index rows: /idx/<attr>/<value>/<dn>, value dn
    call,       \* call[p]: the put or delete p is inside of, after its read
    writers     \* history: who committed a write of each name, and how spelt

vars == <<tree, idx, call, writers>>

\* A parsed Dn: equality and the entry key use the normalised name, while
\* to_string(), and with it the index key and value, keeps the spelling.
Dn == [name : Names, case : Casings]

Entry == [Attrs -> SUBSET Values]
Row == [attr : Attrs, value : Values, dn : Dn]

ASSUME StoreAssumption ==
    /\ SpecOf \in [Procs -> SUBSET Attrs]
    /\ Absent \notin Entry

Idle == [op |-> "idle"]
Call == [op : {"put"}, dn : Dn, entry : Entry, old : Entry \cup {Absent}]
        \cup [op : {"delete"}, dn : Dn, old : Entry]

TypeOK ==
    /\ tree \in [Names -> Entry \cup {Absent}]
    /\ idx \subseteq Row
    /\ call \in [Procs -> Call \cup {Idle}]
    /\ writers \in [Names -> SUBSET (Procs \X Casings)]

Init ==
    /\ tree = [n \in Names |-> Absent]
    /\ idx = {}
    /\ call = [p \in Procs |-> Idle]
    /\ writers = [n \in Names |-> {}]

-----------------------------------------------------------------------------
\* index_keys_for: one key per value of each attribute in the spec; the
\* key carries the Dn as this caller spelt it.
IndexKeysFor(dn, e, spec) ==
    {r \in Row : r.dn = dn /\ r.attr \in spec /\ r.value \in e[r.attr]}

\* Mutant: the rows left over from the prior value are not deleted.
OldKeysForgotten(dn, e, spec) == {}

\* The keys of a prior value, `unwrap_or_default` when there was none.
OldKeysFor(dn, e, spec) ==
    IF e = Absent THEN {} ELSE IndexKeysFor(dn, e, spec)

\* Mutant: the delete set is not filtered by the keys about to be written,
\* and the deletes are applied last.
RowsDeletedLast(dn, e, old, spec, rows) ==
    (rows \cup IndexKeysFor(dn, e, spec)) \ OldKeysFor(dn, old, spec)

\* The index rows after put_entry_indexed's Txn.
RowsAfterPut(dn, e, old, spec, rows) ==
    LET new == IndexKeysFor(dn, e, spec)
    IN  (rows \ (OldKeysFor(dn, old, spec) \ new)) \cup new

\* lookup_by_index: every Dn filed under (attr, value).
LookupByIndex(a, v) == {r.dn : r \in {s \in idx : s.attr = a /\ s.value = v}}

-----------------------------------------------------------------------------
\* Process p's Txn writes the entry at dn (history only).
Wrote(p, dn) ==
    writers' = [writers EXCEPT ![dn.name] = @ \cup {<<p, dn.case>>}]

\* put_entry_indexed, first half: read the old entry (a linearizable get).
PutRead(p, dn, e) ==
    /\ call[p] = Idle
    /\ call' = [call EXCEPT ![p] =
                    [op |-> "put", dn |-> dn, entry |-> e, old |-> tree[dn.name]]]
    /\ UNCHANGED <<tree, idx, writers>>

\* put_entry_indexed, second half: the Txn has no `when` clause, so it
\* commits whatever happened to the entry since the read.
PutTxn(p) ==
    /\ call[p].op = "put"
    /\ LET c == call[p] IN
        /\ tree' = [tree EXCEPT ![c.dn.name] = c.entry]
        /\ idx' = RowsAfterPut(c.dn, c.entry, c.old, SpecOf[p], idx)
        /\ Wrote(p, c.dn)
    /\ call' = [call EXCEPT ![p] = Idle]

\* create_entry_indexed: one Txn guarded on the entry key's version being 0.
CreateTxn(p, dn, e) ==
    /\ call[p] = Idle
    /\ IF tree[dn.name] = Absent
       THEN /\ tree' = [tree EXCEPT ![dn.name] = e]
            /\ idx' = idx \cup IndexKeysFor(dn, e, SpecOf[p])
            /\ Wrote(p, dn)
       ELSE UNCHANGED <<tree, idx, writers>>
    /\ UNCHANGED call

\* delete_entry_indexed, first half; deleting nothing is Ok at once.
DeleteRead(p, dn) ==
    /\ call[p] = Idle
    /\ tree[dn.name] # Absent
    /\ call' = [call EXCEPT ![p] =
                    [op |-> "delete", dn |-> dn, old |-> tree[dn.name]]]
    /\ UNCHANGED <<tree, idx, writers>>

\* delete_entry_indexed, second half: the entry and the rows it was read
\* with go in one unconditional Txn.
DeleteTxn(p) ==
    /\ call[p].op = "delete"
    /\ LET c == call[p] IN
        /\ tree' = [tree EXCEPT ![c.dn.name] = Absent]
        /\ idx' = idx \ OldKeysFor(c.dn, c.old, SpecOf[p])
        /\ Wrote(p, c.dn)
    /\ call' = [call EXCEPT ![p] = Idle]

\* The call ends without its Txn: the process crashes, or the read or the
\* Txn fails.  A Txn that commits and whose answer is lost is PutTxn or
\* DeleteTxn: the caller only sees an error.
Fail(p) ==
    /\ call[p] # Idle
    /\ call' = [call EXCEPT ![p] = Idle]
    /\ UNCHANGED <<tree, idx, writers>>

Next ==
    \E p \in Procs :
        \/ \E dn \in Dn, e \in Entry : PutRead(p, dn, e) \/ CreateTxn(p, dn, e)
        \/ \E dn \in Dn : DeleteRead(p, dn)
        \/ PutTxn(p)
        \/ DeleteTxn(p)
        \/ Fail(p)

Spec == Init /\ [][Next]_vars

-----------------------------------------------------------------------------
\* The attributes every writer of the partition indexes.
CommonAttrs == {a \in Attrs : \A p \in Procs : a \in SpecOf[p]}

\* A lookup never misses: whatever processes interleave or die, each value
\* of a commonly indexed attribute of a live entry has a row under some
\* spelling of its DN.  (put and create write every row of the new entry in
\* the Txn that writes the entry.)
LookupNeverMisses ==
    \A n \in Names : tree[n] # Absent =>
        \A a \in CommonAttrs : \A v \in tree[n][a] :
            \E dn \in LookupByIndex(a, v) : dn.name = n

\* The rows that name n, under any spelling.
RowsNaming(n) == {r \in idx : r.dn.name = n}

\* An entry that one process keeps writing under one spelling is mirrored
\* exactly by its rows, whatever the other processes do to other names and
\* wherever the writer dies: no deleted entry, former value or duplicate is
\* ever returned for it (index.rs:1-3, 45-46, 98-99).
SoleWriterMirrored ==
    \A n \in Names, p \in Procs, c \in Casings :
        writers[n] \subseteq {<<p, c>>} =>
            RowsNaming(n) = OldKeysFor([name |-> n, case |-> c], tree[n], SpecOf[p])

\* The index mirrors the entries: each row names an entry that has the
\* value, and an entry has one row per indexed value.  This is what the
\* documentation promises of every write (index.rs:1-3, ARCHITECTURE.md D2).
IndexMirrorsEntries ==
    /\ \A r \in idx :
        /\ tree[r.dn.name] # Absent
        /\ r.value \in tree[r.dn.name][r.attr]
    /\ \A r, s \in idx :
        r.attr = s.attr /\ r.value = s.value /\ r.dn.name = s.dn.name => r = s
=============================================================================
