------------------------------- MODULE GcWatch -------------------------------
(***************************************************************************)
(* The Global Catalog's partial replica of one domain partition: the       *)
(* watcher task of iron-gcd (gc/src/watch.rs), the Aggregate it feeds      *)
(* (gc/src/aggregate.rs) and the subtree scan and watch of the store       *)
(* (store/src/entry.rs), against a directory that keeps changing.          *)
(*                                                                         *)
(* An entry is the revision that wrote it and the attributes it has; the   *)
(* watchers of several partitions share nothing but the ready count.       *)
(***************************************************************************)
EXTENDS Naturals, Sequences, SequencesExt

CONSTANTS
    Base,           \* the partition's base DN
    Names,          \* the DNs below it
    Attrs, Whitelist,
    Absent,
    MaxWrites,      \* bound: changes to the directory
    MaxDrops,       \* bound: streams lost, connections refused, restarts
    MaxBatch        \* events the server may put in one watch response

ASSUME GcAssumption ==
    /\ Base \notin Names /\ Whitelist \subseteq Attrs
    /\ MaxWrites \in Nat /\ MaxDrops \in Nat /\ MaxBatch \in Nat \ {0}

VARIABLES
    tree, rev,      \* the partition's entries in fastetcd, its revision
    pc,             \* where watch_once is; "down" while run sleeps
    stream,         \* watch responses not yet taken, each a batch of events
    rows,           \* what the scan has read so far
    agg, ready,     \* Aggregate.entries; this partition is in Aggregate.ready
    drops,          \* history: failures so far
    seen,           \* history: revision of the change last applied per DN
    subRev,         \* history: revision at which the stream was opened
    loaded,         \* history: the same of the last stream a scan completed under
    gone,           \* history: DNs deleted with no event that will tell
    skipped         \* history: DNs written with no event that will tell

vars == <<tree, rev, pc, stream, rows, agg, ready, drops, seen, subRev, loaded, gone, skipped>>
ghosts == <<seen, subRev, loaded, gone, skipped>>

Dns == Names \cup {Base}
Entry == [rev : 1..MaxWrites, attrs : SUBSET Attrs]
Projected == [rev : 1..MaxWrites, attrs : SUBSET Whitelist]
Event == [dn : Names, rev : 1..MaxWrites, put : Entry \cup {Absent}]

TypeOK ==
    /\ tree \in [Dns -> Entry \cup {Absent}] /\ rev \in 0..MaxWrites
    /\ pc \in {"down", "connected", "subscribed", "scanned", "up"}
    /\ stream \in Seq(Seq(Event))
    /\ rows \in [Dns -> Entry \cup {Absent}]
    /\ agg \in [Dns -> Projected \cup {Absent}] /\ ready \in BOOLEAN
    /\ drops \in 0..MaxDrops /\ seen \in [Dns -> 0..MaxWrites]
    /\ subRev \in 0..MaxWrites /\ loaded \in 0..MaxWrites
    /\ gone \subseteq Dns /\ skipped \subseteq Dns

Nothing == [n \in Dns |-> Absent]

Init ==
    /\ tree = Nothing /\ rev = 0
    /\ pc = "down" /\ stream = <<>> /\ rows = Nothing
    /\ agg = Nothing /\ ready = FALSE
    /\ drops = 0 /\ seen = [n \in Dns |-> 0] /\ subRev = 0 /\ loaded = 0
    /\ gone = {} /\ skipped = {}

-----------------------------------------------------------------------------
(* The directory: one change, and what the server sends of it.              *)

Watched == pc \in {"subscribed", "scanned", "up"}

\* The watch is on the prefix `<base>/`, which the base entry's key does not
\* have: its changes send nothing.  Another change may travel in the response
\* of the one before it.
Deliver(n, e) ==
    LET ev == [dn |-> n, rev |-> rev + 1, put |-> e]
    IN  IF Watched /\ n # Base
        THEN \/ stream' = Append(stream, <<ev>>)
             \/ /\ stream # <<>> /\ Len(Last(stream)) < MaxBatch
                /\ stream' = [stream EXCEPT ![Len(stream)] = Append(@, ev)]
        ELSE stream' = stream

Write(n, as) ==
    /\ rev < MaxWrites
    /\ LET e == [rev |-> rev + 1, attrs |-> as]
       IN  tree' = [tree EXCEPT ![n] = e] /\ Deliver(n, e)
    /\ rev' = rev + 1
    /\ gone' = gone \ {n}
    /\ skipped' = IF n = Base THEN skipped \cup {Base} ELSE skipped
    /\ UNCHANGED <<pc, rows, agg, ready, drops, seen, subRev, loaded>>

Delete(n) ==
    /\ rev < MaxWrites /\ tree[n] # Absent
    /\ tree' = [tree EXCEPT ![n] = Absent] /\ Deliver(n, Absent)
    /\ rev' = rev + 1
    /\ gone' = IF Watched /\ n # Base THEN gone ELSE gone \cup {n}
    /\ UNCHANGED <<pc, rows, agg, ready, drops, seen, subRev, loaded, skipped>>

-----------------------------------------------------------------------------
(* watch_once.                                                              *)

Project(e) == [e EXCEPT !.attrs = @ \cap Whitelist]
View(e) == IF e = Absent THEN Absent ELSE Project(e)

Connect ==
    /\ pc = "down" /\ pc' = "connected"
    /\ UNCHANGED <<tree, rev, stream, rows, agg, ready, drops, ghosts>>

\* watch_subtree, before the scan.
Subscribe ==
    /\ pc = "connected" /\ pc' = "subscribed"
    /\ stream' = <<>> /\ subRev' = rev
    /\ UNCHANGED <<tree, rev, rows, agg, ready, drops, seen, loaded, gone, skipped>>

\* scan_subtree's first read: everything below the base.
ScanPrefix ==
    /\ pc = "subscribed" /\ pc' = "scanned"
    /\ rows' = [tree EXCEPT ![Base] = Absent]
    /\ UNCHANGED <<tree, rev, stream, agg, ready, drops, ghosts>>

\* Mutant: the scan fills in what is missing and updates nothing.
ScannedOver(all) == [n \in Dns |-> IF agg[n] = Absent THEN View(all[n]) ELSE agg[n]]

\* apply_put for every row: entries the scan lacks stay in the aggregate.
Scanned(all) == [n \in Dns |-> IF all[n] = Absent THEN agg[n] ELSE View(all[n])]

\* Its second read, of the base; then the rows are applied and the partition
\* marked ready.
ScanBase ==
    /\ pc = "scanned" /\ pc' = "up"
    /\ LET all == [rows EXCEPT ![Base] = tree[Base]]
       IN  /\ agg' = Scanned(all)
           /\ seen' = [n \in Dns |-> IF all[n] = Absent THEN seen[n] ELSE all[n].rev]
           /\ skipped' = {n \in skipped : all[n] = Absent}
           /\ gone' = {n \in gone : agg'[n] # Absent}
    /\ rows' = Nothing
    /\ ready' = TRUE /\ loaded' = subRev
    /\ UNCHANGED <<tree, rev, stream, drops, subRev>>

\* Mutant: a Delete event is ignored.
DeletesIgnored(ev) == IF ev.put = Absent THEN agg ELSE [agg EXCEPT ![ev.dn] = View(ev.put)]

\* apply_entry and Aggregate::remove.
Applied(ev) == [agg EXCEPT ![ev.dn] = View(ev.put)]

\* next_subtree_event takes the first event of the response and no other.
NextChange ==
    /\ pc = "up" /\ stream # <<>>
    /\ LET batch == Head(stream)
           ev == Head(batch)
       IN  /\ agg' = Applied(ev)
           /\ seen' = [seen EXCEPT ![ev.dn] = ev.rev]
           /\ skipped' = (skipped \ {ev.dn}) \cup {e.dn : e \in Range(Tail(batch))}
           /\ gone' = gone \ {ev.dn}
    /\ stream' = Tail(stream)
    /\ UNCHANGED <<tree, rev, pc, rows, ready, drops, subRev, loaded>>

\* The DNs a lost stream still had changes for, which are absent now.
Unseen == {n \in Names : tree[n] = Absent /\ \E b \in Range(stream) : \E e \in Range(b) : e.dn = n}

\* Mutant: what the lost stream had brought is dropped.
StreamLostClears ==
    /\ pc # "down" /\ drops < MaxDrops
    /\ pc' = "down" /\ stream' = <<>> /\ rows' = Nothing /\ agg' = Nothing
    /\ gone' = gone \cup Unseen
    /\ drops' = drops + 1
    /\ UNCHANGED <<tree, rev, ready, seen, subRev, loaded, skipped>>

\* Any error of watch_once: run sleeps and starts over.  The aggregate and the
\* ready mark stay.
StreamLost ==
    /\ pc # "down" /\ drops < MaxDrops
    /\ pc' = "down" /\ stream' = <<>> /\ rows' = Nothing
    /\ gone' = gone \cup Unseen
    /\ drops' = drops + 1
    /\ UNCHANGED <<tree, rev, agg, ready, seen, subRev, loaded, skipped>>

\* iron-gcd itself restarts with an empty aggregate.
Restart ==
    /\ drops < MaxDrops
    /\ pc' = "down" /\ stream' = <<>> /\ rows' = Nothing
    /\ agg' = Nothing /\ ready' = FALSE
    /\ seen' = [n \in Dns |-> 0] /\ loaded' = 0 /\ gone' = {} /\ skipped' = {}
    /\ drops' = drops + 1
    /\ UNCHANGED <<tree, rev, subRev>>

Watcher == Connect \/ Subscribe \/ ScanPrefix \/ ScanBase \/ NextChange
Next == (\E n \in Dns, as \in SUBSET Attrs : Write(n, as)) \/ (\E n \in Dns : Delete(n))
        \/ Connect \/ Subscribe \/ ScanPrefix \/ ScanBase \/ NextChange \/ StreamLost \/ Restart

Spec == Init /\ [][Next]_vars

\* run retries every five seconds and never returns; the task is scheduled.
FairSpec == Spec /\ WF_vars(Watcher)

-----------------------------------------------------------------------------
\* With the watch up and every response taken, the replica differs from the
\* partition in three ways at most: an entry deleted while no watch was open,
\* which no scan removes (watch.rs:42-47); an entry whose last change came
\* behind another in one response (entry.rs:104); and the base entry, changed
\* since the scan, whose key the watched prefix does not match (entry.rs:91).
\* Subscribing before scanning leaves no other gap (watch.rs:6-13).
CaughtUp ==
    pc = "up" /\ stream = <<>> =>
        \A n \in Dns : \/ agg[n] = View(tree[n])
                       \/ n \in gone /\ tree[n] = Absent
                       \/ n \in skipped

\* Replaying the stream over the scan takes a DN back to an older revision,
\* but never to one from before the stream was opened.
ReplayBounded ==
    [][\A n \in Dns : seen'[n] < seen[n] /\ seen'[n] # 0 => seen'[n] > subRev]_vars

\* The health check goes on counting a partition whose watcher is down, being
\* reloaded or behind (lib.rs:103-108).  All the while the replica holds, as
\* it is, every entry that has stood unchanged since before the last load was
\* subscribed: losing the stream and replaying over a scan cost none of them.
ReadyMeansLoaded ==
    ready => \A n \in Dns : tree[n] # Absent /\ tree[n].rev <= loaded =>
                 agg[n] = View(tree[n])

\* Once the directory and the network settle, every entry of the partition is
\* in the replica as it was last written, but for writes no event tells of:
\* those behind another in one response, and those of the base entry.  What
\* was missed while the watch was down, or between subscribe and scan, is not
\* among them (watch.rs:25-27).
PutsArrive ==
    \A n \in Dns : <>[](tree[n] # Absent => agg[n] = View(tree[n]) \/ n \in skipped)

\* The replica ends up equal to the partition below its base ("Eventual
\* (staleness OK)", ARCHITECTURE.md:183).
EventuallyConsistent == <>[](\A n \in Names : agg[n] = View(tree[n]))

\* The same of entries that exist, whatever the server puts in one response.
BatchesArrive == <>[](\A n \in Names : tree[n] # Absent => agg[n] = View(tree[n]))

\* The same of the base entry: "Watches every key change under the subtree
\* rooted at `dn` (inclusive)" (entry.rs:81).
BaseFollowed == <>[](tree[Base] # Absent => agg[Base] = View(tree[Base]))
=============================================================================
