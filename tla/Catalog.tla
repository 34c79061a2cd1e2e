------------------------------- MODULE Catalog -------------------------------
(***************************************************************************)
(* The forest's partition registry, kept as one record per naming context  *)
(* in the configuration partition (config/src/lib.rs), and the commands of *)
(* iron-config-ctl that load it, change a copy and put the copy back.      *)
(* Administrators may run commands at the same time, and a command may die *)
(* between any two of its requests.                                        *)
(***************************************************************************)
EXTENDS Naturals, FiniteSets

CONSTANTS
    Admins,         \* running copies of iron-config-ctl
    Children,       \* ids of the child domains
    Root,           \* id of the forest's root domain
    Absent,
    Targets,        \* bound: the domains the set-* commands are run on
    MaxSids,        \* bound: SIDs generated
    MaxRuns         \* bound: commands started, and members lost (Bootstrap)

VARIABLES
    records,        \* domain records by id
    naming,         \* which of the configuration and schema records exist
    minted,         \* SIDs generated so far; the next one is minted + 1
    job,            \* what each administrator's command is about to do
    runs,           \* history: commands started and members lost
    linked,         \* history: children some command finished linking
    stale,          \* history: a put replaced a root record it was not made from
    rewritten       \* history: a command replaced the root's SID by another

Ids == Children \cup {Root}
Sids == 1..MaxSids
\* The fields the properties tell apart; the URLs, the cluster and the base
\* DN travel with them.
Record == [sid : Sids \cup {Absent}, netbios : BOOLEAN, realm : {"own", "other"},
           superior : {Root, Absent}, subs : SUBSET Children]

ASSUME CatalogAssumption ==
    /\ Root \notin Children /\ Targets \subseteq Ids
    /\ MaxSids \in Nat /\ MaxRuns \in Nat
    /\ Absent \notin Nat /\ Absent \notin Record

Registry == [Ids -> Record \cup {Absent}]

\* Partition::domain: nothing but the realm, which the base DN gives.
Domain(r) == [sid |-> Absent, netbios |-> FALSE, realm |-> r, superior |-> Absent, subs |-> {}]

Commands == [cmd : {"setUrl", "setSid"}, id : Targets]
            \cup [cmd : {"addSubordinate"}, child : Children]
            \cup [cmd : {"createChild"}, child : Children]
            \cup [cmd : {"initForest"}, realm : {"own", "other"}]

\* `snap`: the registry the command loaded.
Idle == [st |-> "idle"]
Jobs == {Idle} \cup [st : {"loaded", "config", "schema", "parent"}, do : Commands,
                     snap : Registry]

CatalogTypeOK ==
    /\ records \in Registry
    /\ naming \subseteq {"config", "schema"}
    /\ minted \in 0..MaxSids /\ runs \in 0..MaxRuns
    /\ job \in [Admins -> Jobs]
    /\ linked \subseteq Children /\ stale \in BOOLEAN /\ rewritten \in BOOLEAN

NoRecords == [i \in Ids |-> Absent]

-----------------------------------------------------------------------------
(* put_partition, and the history every root put leaves.                    *)

\* A put of p over the root replaces the SID of the record that is there.
ReplacesSid(p) == records[Root] # Absent /\ records[Root].sid \notin {Absent, p.sid}

\* A put of p over the root by a command whose copy of the record is `copy`.
RootPut(p, copy) ==
    /\ stale' = (stale \/ records[Root] # copy)
    /\ rewritten' = (rewritten \/ ReplacesSid(p))

\* put_partition(p) at id i by administrator a, whose job becomes `next`.
PutPartition(a, i, p, next) ==
    /\ records' = [records EXCEPT ![i] = p]
    /\ job' = [job EXCEPT ![a] = next]
    /\ IF i = Root THEN RootPut(p, job[a].snap[Root]) ELSE UNCHANGED <<stale, rewritten>>

-----------------------------------------------------------------------------
(* Commands.                                                                *)

\* connect_and_load; only init-forest goes on, with nothing, when it fails.
Load(a, c, ok) ==
    /\ job[a] = Idle /\ runs < MaxRuns
    /\ ok \/ c.cmd = "initForest"
    /\ job' = [job EXCEPT ![a] = [st |-> "loaded", do |-> c,
                                  snap |-> IF ok THEN records ELSE NoRecords]]
    /\ runs' = runs + 1
    /\ UNCHANGED <<records, naming, minted, linked, stale, rewritten>>

Loaded(a, c) == job[a].st = "loaded" /\ job[a].do.cmd = c

\* A missing partition, or one that exists already, ends the command; so
\* does any failed request, or the operator.
Abort(a) ==
    /\ job[a] # Idle
    /\ job' = [job EXCEPT ![a] = Idle]
    /\ UNCHANGED <<records, naming, minted, runs, linked, stale, rewritten>>

\* set_ldap_url and set_kdc_url: the copy goes back with another URL.
SetUrl(a) ==
    /\ Loaded(a, "setUrl")
    /\ LET i == job[a].do.id
           p == job[a].snap[i]
       IN  p # Absent /\ PutPartition(a, i, p, Idle)
    /\ UNCHANGED <<naming, minted, runs, linked>>

\* set_domain_sid: the operator names a SID.
SetDomainSid(a) ==
    /\ Loaded(a, "setSid") /\ minted < MaxSids
    /\ LET i == job[a].do.id
           p == job[a].snap[i]
       IN  p # Absent /\ PutPartition(a, i, [p EXCEPT !.sid = minted + 1], Idle)
    /\ minted' = minted + 1
    /\ UNCHANGED <<naming, runs, linked>>

\* add_subordinate, whose parent is the root here.
AddSubordinate(a) ==
    /\ Loaded(a, "addSubordinate")
    /\ LET c == job[a].do.child
           parent == job[a].snap[Root]
       IN  /\ job[a].snap[c] # Absent /\ parent # Absent /\ c \notin parent.subs
           /\ PutPartition(a, Root, [parent EXCEPT !.subs = @ \cup {c}], Idle)
           /\ linked' = linked \cup {c}
    /\ UNCHANGED <<naming, minted, runs>>

\* Mutant: the parent is linked first and the child written after it.
CreateParentFirst(a) ==
    /\ Loaded(a, "createChild") /\ minted < MaxSids
    /\ LET c == job[a].do.child
       IN  /\ job[a].snap[Root] # Absent /\ job[a].snap[c] = Absent
           /\ PutPartition(a, Root, [job[a].snap[Root] EXCEPT !.subs = @ \cup {c}],
                           [job[a] EXCEPT !.st = "parent"])
    /\ minted' = minted + 1
    /\ UNCHANGED <<naming, runs, linked>>

\* create_child, first put: the child's record.
CreateChild(a) ==
    /\ Loaded(a, "createChild") /\ minted < MaxSids
    /\ LET c == job[a].do.child
       IN  /\ job[a].snap[Root] # Absent /\ job[a].snap[c] = Absent
           /\ PutPartition(a, c, [Domain("own") EXCEPT !.superior = Root, !.sid = minted + 1],
                           [job[a] EXCEPT !.st = "parent"])
    /\ minted' = minted + 1
    /\ UNCHANGED <<naming, runs, linked>>

\* create_child, second put: the parent as it was loaded, with the child.
LinkParent(a) ==
    /\ job[a].st = "parent"
    /\ LET c == job[a].do.child
       IN  /\ PutPartition(a, Root, [job[a].snap[Root] EXCEPT !.subs = @ \cup {c}], Idle)
           /\ linked' = linked \cup {c}
    /\ UNCHANGED <<naming, minted, runs>>

\* init_forest: the configuration's own record, then the schema's.
InitConfig(a) ==
    /\ Loaded(a, "initForest")
    /\ naming' = naming \cup {"config"}
    /\ job' = [job EXCEPT ![a].st = "config"]
    /\ UNCHANGED <<records, minted, runs, linked, stale, rewritten>>

InitSchema(a) ==
    /\ job[a].st = "config"
    /\ naming' = naming \cup {"schema"}
    /\ job' = [job EXCEPT ![a].st = "schema"]
    /\ UNCHANGED <<records, minted, runs, linked, stale, rewritten>>

\* Mutant: the root record is built afresh, as init_forest once did.
RootAnew(prior, r, s) == [Domain(r) EXCEPT !.sid = IF prior = Absent \/ prior.sid = Absent
                                                   THEN s ELSE prior.sid]

\* The root record init_forest builds over the `prior` one: it keeps the
\* subordinates and the SID, and nothing else.
RootOver(prior, r, s) ==
    IF prior = Absent THEN [Domain(r) EXCEPT !.sid = s]
    ELSE [Domain(r) EXCEPT !.subs = prior.subs, !.sid = IF prior.sid = Absent THEN s ELSE prior.sid]

InitRoot(a) ==
    /\ job[a].st = "schema"
    /\ LET p == RootOver(job[a].snap[Root], job[a].do.realm, minted + 1)
       IN  /\ p.sid \in Sids /\ minted' = IF p.sid > minted THEN p.sid ELSE minted
           /\ PutPartition(a, Root, p, Idle)
    /\ UNCHANGED <<naming, runs, linked>>

Command(a) == Abort(a) \/ SetUrl(a) \/ SetDomainSid(a) \/ AddSubordinate(a) \/ CreateChild(a)
              \/ LinkParent(a) \/ InitConfig(a) \/ InitSchema(a) \/ InitRoot(a)
              \/ \E c \in Commands, ok \in BOOLEAN : Load(a, c, ok)

-----------------------------------------------------------------------------
\* A record lists only children that have records: create-child writes the
\* child before its parent, and nothing deletes a record (iron-config-ctl.rs:
\* 327-331).
SubordinatesExist ==
    \A i \in Ids : records[i] # Absent =>
        \A c \in records[i].subs : records[c] # Absent

\* A link a command has made stays: re-running init-forest "can't silently
\* wipe out subordinates" (iron-config-ctl.rs:248-254), unless some put was
\* made from a copy of the root older than the record it replaced.
LinksKept ==
    ~stale /\ linked # {} => records[Root] # Absent /\ linked \subseteq records[Root].subs
=============================================================================
