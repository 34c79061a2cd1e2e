------------------------------ MODULE Bootstrap ------------------------------
(***************************************************************************)
(* iron-bootstrap (bootstrap/src/lib.rs): every member of a new directory  *)
(* provisions the registry and the domain's first entries, at the same     *)
(* time as the others and as an administrator's commands (Catalog).  A     *)
(* member that dies or exits with an error is started again.               *)
(***************************************************************************)
EXTENDS Catalog

CONSTANT Members    \* pods running iron-bootstrap

VARIABLES
    entries,        \* the domain SID in the base, krbtgt and admin entries
    member,         \* where each member's provision() is
    legacy,         \* history: the store is from before #17
    overrun         \* history: a member's fill replaced the root's SID

catalog == <<records, naming, minted, job, runs, linked, stale, rewritten>>
ghosts == <<legacy, overrun>>
vars == <<catalog, entries, member, ghosts>>

Entries == {"base", "krbtgt", "admin"}

\* `own`: the domain SID in hand; `loaded`: the root record to fill in.
Step == {"config", "schema", "root", "load", "fill", "base",
         "krbtgt", "krbtgtNew", "admin", "adminNew", "done"}
Member == [st : Step, own : Sids \cup {Absent}, loaded : Record \cup {Absent}]
NotStarted == [st |-> "config", own |-> Absent, loaded |-> Absent]

TypeOK ==
    /\ CatalogTypeOK
    /\ entries \in [Entries -> Sids \cup {Absent}]
    /\ member \in [Members -> Member]
    /\ legacy \in BOOLEAN /\ overrun \in BOOLEAN

\* A new store, or one from before #17: no schema record yet, and a root
\* record without a SID or a NetBIOS name.
Init ==
    /\ \/ legacy = FALSE /\ records = NoRecords /\ naming = {}
       \/ /\ legacy = TRUE /\ records = [NoRecords EXCEPT ![Root] = Domain("own")]
          /\ naming = {"config"}
    /\ overrun = FALSE /\ minted = 0
    /\ job = [a \in Admins |-> Idle] /\ runs = 0
    /\ linked = {} /\ stale = FALSE /\ rewritten = FALSE
    /\ entries = [e \in Entries |-> Absent]
    /\ member = [m \in Members |-> NotStarted]

-----------------------------------------------------------------------------
Goto(m, st) == member' = [member EXCEPT ![m].st = st]

\* create_partition of the configuration, then of the schema record.
CreateConfig(m) ==
    /\ member[m].st = "config" /\ Goto(m, "schema")
    /\ naming' = naming \cup {"config"}
    /\ UNCHANGED <<records, minted, job, runs, linked, stale, rewritten, entries, ghosts>>

\* Mutant: a create whose request failed counts as done.
CreateSchemaUnchecked(m) ==
    /\ member[m].st = "schema" /\ Goto(m, "root")
    /\ naming' \in {naming, naming \cup {"schema"}}
    /\ UNCHANGED <<records, minted, job, runs, linked, stale, rewritten, entries, ghosts>>

CreateSchema(m) ==
    /\ member[m].st = "schema" /\ Goto(m, "root")
    /\ naming' = naming \cup {"schema"}
    /\ UNCHANGED <<records, minted, job, runs, linked, stale, rewritten, entries, ghosts>>

\* Mutant: the last writer wins.
PutAnyway(old, new) == new

\* A create: one transaction guarded on the key not existing.
Create(old, new) == IF old = Absent THEN new ELSE old

\* create_partition of the root domain's record.
CreateRoot(m) ==
    /\ member[m].st = "root" /\ Goto(m, "load")
    /\ LET p == Create(records[Root], [Domain("own") EXCEPT !.sid = minted + 1, !.netbios = TRUE])
       IN  /\ p.sid \in Sids \cup {Absent}
           /\ records' = [records EXCEPT ![Root] = p]
           /\ minted' = IF p.sid \in Sids /\ p.sid > minted THEN p.sid ELSE minted
    /\ UNCHANGED <<naming, job, runs, linked, stale, rewritten, entries, ghosts>>

\* load_registry and check_matches: the record decides from here on.
LoadRecord(m) ==
    /\ member[m].st = "load"
    /\ LET r == records[Root]
       IN  member' = [member EXCEPT ![m] =
             IF r = Absent \/ r.realm # "own" THEN NotStarted
             ELSE IF r.sid = Absent \/ ~r.netbios
             THEN [st |-> "fill", own |-> r.sid, loaded |-> r]
             ELSE [st |-> "base", own |-> r.sid, loaded |-> Absent]]
    /\ UNCHANGED <<records, naming, minted, job, runs, linked, stale, rewritten, entries, ghosts>>

\* The fields an older record lacks are filled in and the copy put back.
Fill(m) ==
    /\ member[m].st = "fill"
    /\ LET r == member[m].loaded
           s == IF r.sid = Absent THEN minted + 1 ELSE r.sid
           p == [r EXCEPT !.sid = s, !.netbios = TRUE]
       IN  /\ s \in Sids /\ minted' = IF r.sid = Absent THEN minted + 1 ELSE minted
           /\ records' = [records EXCEPT ![Root] = p]
           /\ stale' = (stale \/ records[Root] # r)
           /\ overrun' = (overrun \/ ReplacesSid(p))
           /\ member' = [member EXCEPT ![m] = [st |-> "base", own |-> s, loaded |-> Absent]]
    /\ UNCHANGED <<naming, job, runs, linked, rewritten, entries, legacy>>

\* create_entry of e under the domain SID in hand.
CreateEntry(m, e) == entries' = [entries EXCEPT ![e] = Create(@, member[m].own)]

CreateBase(m) ==
    /\ member[m].st = "base" /\ Goto(m, "krbtgt") /\ CreateEntry(m, "base")
    /\ UNCHANGED <<catalog, ghosts>>

\* principal_exists, and only then a create.
LookupKrbtgt(m) ==
    /\ member[m].st = "krbtgt"
    /\ Goto(m, IF entries["krbtgt"] = Absent THEN "krbtgtNew" ELSE "admin")
    /\ UNCHANGED <<catalog, entries, ghosts>>

CreateKrbtgt(m) ==
    /\ member[m].st = "krbtgtNew" /\ Goto(m, "admin") /\ CreateEntry(m, "krbtgt")
    /\ UNCHANGED <<catalog, ghosts>>

\* Mutant: an administrator that exists already is an error.
LookupAdminStrict(m) ==
    /\ member[m].st = "admin"
    /\ member' = [member EXCEPT ![m] = IF entries["admin"] = Absent THEN [@ EXCEPT !.st = "adminNew"]
                                      ELSE NotStarted]
    /\ UNCHANGED <<catalog, entries, ghosts>>

LookupAdmin(m) ==
    /\ member[m].st = "admin"
    /\ Goto(m, IF entries["admin"] = Absent THEN "adminNew" ELSE "done")
    /\ UNCHANGED <<catalog, entries, ghosts>>

CreateAdmin(m) ==
    /\ member[m].st = "adminNew" /\ Goto(m, "done") /\ CreateEntry(m, "admin")
    /\ UNCHANGED <<catalog, ghosts>>

\* A failed request, a deleted pod or a golden swap; the pod restarts.
Crash(m) ==
    /\ member[m] # NotStarted /\ runs < MaxRuns
    /\ member' = [member EXCEPT ![m] = NotStarted]
    /\ runs' = runs + 1
    /\ UNCHANGED <<records, naming, minted, job, linked, stale, rewritten, entries, ghosts>>

Provision(m) == CreateConfig(m) \/ CreateSchema(m) \/ CreateRoot(m) \/ LoadRecord(m)
                \/ Fill(m) \/ CreateBase(m) \/ LookupKrbtgt(m) \/ CreateKrbtgt(m)
                \/ LookupAdmin(m) \/ CreateAdmin(m)
Administer(a) == Command(a) /\ UNCHANGED <<entries, member, ghosts>>

Next == \/ \E m \in Members : Provision(m) \/ Crash(m)
        \/ \E a \in Admins : Administer(a)

Spec == Init /\ [][Next]_vars

\* restartPolicy Always: a member that is not done keeps being run.
FairSpec == Spec /\ \A m \in Members : WF_vars(Provision(m))

-----------------------------------------------------------------------------
\* The root record, and every entry written under it, carry one domain SID.
Agreed ==
    /\ \A e \in Entries : entries[e] # Absent =>
            records[Root] # Absent /\ entries[e] = records[Root].sid
    /\ \A m \in Members : member[m].st = "done" => member[m].own = records[Root].sid

\* Members that provision a new directory at the same time, and are restarted
\* at any point, "agree on one domain SID instead of the last writer winning"
\* (lib.rs:17-22), until a command replaces it.  On a store from before SIDs
\* they do so too, unless two of them fill the record in at once: those puts
\* are not guarded (lib.rs:173-181), and the last writer does win.
OneSid == ~rewritten /\ (legacy => ~overrun) => Agreed

\* Whoever finds the root's record finds the configuration's and the
\* schema's, wherever a member or a command has stopped (lib.rs:163-167,
\* iron-config-ctl.rs:259-287).  The root of a store from before the schema
\* record is found without it, until a member has filled that root in.
RootLast ==
    records[Root] # Absent /\ (legacy => records[Root].netbios) => naming = {"config", "schema"}

\* The root's SID, once set, changes only through set-domain-sid:
\* "re-running init-forest never regenerates or overwrites an existing domain
\* SID" (iron-config-ctl.rs:27-29).
SidPermanent ==
    [][records[Root] # Absent /\ records[Root].sid # Absent =>
          \/ records'[Root].sid = records[Root].sid
          \/ \E a \in Admins : SetDomainSid(a)]_vars

\* Every member gets through provisioning, and the domain is complete, unless
\* the record keeps a realm that is not the members' (check_matches).
Provisioned ==
    \/ []<>(records[Root] # Absent /\ records[Root].realm = "other")
    \/ <>[](\A m \in Members : member[m].st = "done" /\ \A e \in Entries : entries[e] # Absent)
=============================================================================
