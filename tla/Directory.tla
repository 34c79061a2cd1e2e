------------------------------ MODULE Directory ------------------------------
(***************************************************************************)
(* The operations that write accounts, over one partition's store          *)
(* (IndexedStore): iron-ldapd's add, delete, modify, ModifyDN and password *)
(* modify, iron-kdcd's kpasswd, iron-rpcd's SamrCreateUser2InDomain, and   *)
(* the set-password and set-computer-secret commands of the ctl tools.     *)
(*                                                                         *)
(* A process holds its Store for a whole operation, so it runs one at a    *)
(* time; every request of it may interleave with other processes' and it   *)
(* may die between any two.  Refusals that come before the first write     *)
(* (a DN that does not parse, a referral, the schema, FIPS) leave no trace.*)
(***************************************************************************)
EXTENDS IndexedStore

CONSTANTS
    Ldap, Kdc, Rpc, Ctl,    \* the processes, by program
    Below,                  \* Below[n]: the names under n in the tree
    Written,                \* the <<attribute, value>> pairs LDAP clients write
    MaxRids, MaxOps         \* bounds: RIDs drawn, operations begun

VARIABLES
    job,        \* the operation each process is in
    pool,       \* RIDs drawn so far (RidPool hands out each one once)
    ops,        \* history: operations begun
    stored,     \* history: SIDs some transaction has stored
    dropped,    \* history: SIDs whose entry was deleted, or replaced by a put
    moved,      \* history: SIDs a ModifyDN has written under their new name
    claimed,    \* history: SIDs a client wrote itself, as any other attribute
    cut,        \* history: SIDs whose ModifyDN ended without deleting
    late,       \* history: processes whose ModifyDN read an entry written since
    swept,      \* history: SIDs the closing delete of a late ModifyDN removed
    raced       \* history: a write of an entry changed since it was read

history == <<ops, stored, dropped, moved, claimed, cut, late, swept, raced>>
dirVars == <<vars, job, pool, history>>

Accounts == {"cn", "sam", "princ", "sid"}
ASSUME DirectoryAssumption ==
    /\ Procs = Ldap \cup Kdc \cup Rpc \cup Ctl
    /\ Attrs = Accounts /\ Values = Names \cup (1..MaxRids)
    /\ Below \in [Names -> SUBSET Names]
    /\ Written \subseteq (Attrs \X Values)

\* `dn` is what the operation reads, `to` where it writes, `base` the entry as
\* it was read, `new` what it will put; "missed" and "found" come before that.
NoJob == [st |-> "none"]
Finders == {"kpasswd", "secret", "ctl", "moddn"}
Ops == Finders \cup {"add", "delete", "modify", "passwd"}
Jobs == {NoJob}
        \cup [st : {"missed"}, op : {"kpasswd"}, target : Names]
        \cup [st : {"found"}, op : Finders, dn : Dn, target : Names]
        \cup [st : {"read"}, op : Ops, dn : Dn, to : Dn, base : Entry, new : Entry]
        \cup [st : {"put", "moved", "delete"}, op : Ops, dn : Dn, to : Dn,
              base : Entry \cup {Absent}]

DirTypeOK ==
    /\ TypeOK
    /\ job \in [Procs -> Jobs]
    /\ pool \in 0..MaxRids /\ ops \in 0..MaxOps
    /\ \A sids \in {stored, dropped, moved, claimed, cut, swept} : sids \subseteq 1..MaxRids
    /\ late \subseteq Procs /\ raced \in BOOLEAN

DirInit ==
    /\ Init
    /\ job = [p \in Procs |-> NoJob] /\ pool = 0
    /\ ops = 0 /\ stored = {} /\ dropped = {} /\ moved = {} /\ claimed = {}
    /\ cut = {} /\ late = {} /\ swept = {} /\ raced = FALSE

Sid(e) == IF e = Absent THEN {} ELSE e["sid"]
Sids == UNION {Sid(tree[n]) : n \in Names}
Begin(p) ==
    /\ job[p] = NoJob /\ call[p] = Idle /\ ops < MaxOps
    /\ ops' = ops + 1 /\ UNCHANGED <<dropped, moved, cut, swept, raced>>
TopNames == {n \in Names : \A m \in Names : n \notin Below[m]}
Become(p, j) == job' = [job EXCEPT ![p] = j]

-----------------------------------------------------------------------------
(* What the operations write.                                               *)

\* An entry with the SID stamp_security_principal sets on a user, computer or
\* group, or with those a client sent for any other entry.
Added(n, sids) == [a \in Attrs |-> IF a = "sid" THEN sids ELSE IF a = "princ" THEN {} ELSE {n}]

\* Mutant: it does, though iron-rpcd does not index it.
SamrUserWithSam(n, sids) == Added(n, sids)

\* create_user2_in_domain sets no sAMAccountName.
SamrUser(n, sids) == [Added(n, sids) EXCEPT !["sam"] = {}]

\* The entry iron-kdc-ctl makes up when no entry has the principal.
CtlEntry(n) == [a \in Attrs |-> IF a = "cn" THEN {n} ELSE {}]

\* set_password under the principal name the entry has, else one of `names`.
Keyed(e, names) == {[e EXCEPT !["princ"] = {v}] : v \in IF e["princ"] # {} THEN e["princ"] ELSE names}

\* principal_fqn_for: the sAMAccountName, else the cn.
FallbackNames(e) == IF e["sam"] # {} THEN e["sam"] ELSE e["cn"]

\* handle_moddn: the new RDN's value joins the entry, the old one's leaves it
\* if deleteoldrdn is set and the new RDN does not have it.
Renamed(e, old, new, deleteOld) ==
    [e EXCEPT !["cn"] = (@ \cup {new}) \ (IF deleteOld /\ old # new THEN {old} ELSE {})]

\* The values of attribute a that clients write.
Offered(a) == {w[2] : w \in {x \in Written : x[1] = a}}

\* handle_modify: values added to, deleted from or put in place of those of
\* any one attribute, objectSid like the rest.
Modified(e, a) ==
    {[e EXCEPT ![a] = vs] :
        vs \in {{}} \cup UNION {{e[a] \cup {v}, e[a] \ {v}, {v}} : v \in Offered(a)}}

-----------------------------------------------------------------------------
(* store.put_entry and store.delete_entry, as the operations call them.     *)

\* put_entry(to, e): its read, after the operation read `base` at dn.
Put(p, op, dn, base, to, e) ==
    /\ PutRead(p, to, e)
    /\ Become(p, [st |-> "put", op |-> op, dn |-> dn, to |-> to, base |-> base])

\* The operation has its entry (get_entry at dn) and the one it will put.
Got(p, op, dn, to, e) ==
    /\ tree[dn.name] # Absent
    /\ Become(p, [st |-> "read", op |-> op, dn |-> dn, to |-> to, base |-> tree[dn.name], new |-> e])
    /\ UNCHANGED vars

Write(p) ==
    /\ job[p].st = "read"
    /\ LET j == job[p] IN Put(p, j.op, j.dn, j.base, j.to, j.new)
    /\ UNCHANGED <<pool, history>>

\* delete_entry(dn): its read.
Remove(p, j) == DeleteRead(p, j.dn) /\ Become(p, [j EXCEPT !.st = "delete"])

\* What p is about to write at n, or read before it, has changed since (history).
Stale(p, n) == \/ tree[n] # call[p].old
               \/ job[p].base \notin {Absent, tree[job[p].dn.name]}

\* The processes late once p has written n: a ModifyDN of n read it before.
Late(p, n) ==
    {q \in Procs : /\ job'[q] # NoJob
                   /\ \/ q \in late
                      \/ /\ q # p /\ job[q].st \in {"read", "put", "moved", "delete"}
                         /\ job[q].op = "moddn" /\ job[q].dn.name = n}

\* Mutant: the old DN is left alone.
AfterPutDone(j) == NoJob

\* A ModifyDN that changed the name goes on to delete.
AfterPut(j) ==
    IF j.op = "moddn" /\ j.dn.name # j.to.name THEN [j EXCEPT !.st = "moved"] ELSE NoJob

\* put_entry's transaction.
Commit(p) ==
    /\ job[p].st = "put" /\ PutTxn(p)
    /\ LET j == job[p]
           n == j.to.name
       IN  /\ Become(p, AfterPut(j))
           /\ stored' = stored \cup Sid(call[p].entry)
           /\ dropped' = dropped \cup (Sid(tree[n]) \ Sid(call[p].entry))
           /\ moved' = IF j.op = "moddn" THEN moved \cup Sid(call[p].entry) ELSE moved
           /\ late' = Late(p, n)
           /\ raced' = (raced \/ Stale(p, n))
    /\ UNCHANGED <<pool, ops, claimed, cut, swept>>

\* delete_entry's transaction, for handle_delete or the end of a ModifyDN.
CommitDelete(p) ==
    /\ job[p].st = "delete" /\ DeleteTxn(p)
    /\ Become(p, NoJob)
    /\ LET n == job[p].dn.name
       IN  /\ dropped' = IF job[p].op = "delete" THEN dropped \cup Sid(tree[n]) ELSE dropped
           /\ swept' = IF p \in late THEN swept \cup Sid(tree[n]) ELSE swept
           /\ late' = Late(p, n)
           /\ raced' = (raced \/ Stale(p, n))
    /\ UNCHANGED <<pool, ops, stored, moved, claimed, cut>>

\* The operation ends here: a failed request, a lookup that is not unique, an
\* entry that is gone, or the process dies.
Abort(p) ==
    /\ job[p] # NoJob
    /\ IF call[p] = Idle THEN UNCHANGED vars ELSE Fail(p)
    /\ Become(p, NoJob)
    /\ cut' = IF job[p].st \in {"moved", "delete"} /\ job[p].op = "moddn"
              THEN cut \cup Sid(job[p].base) ELSE cut
    /\ late' = late \ {p}
    /\ UNCHANGED <<pool, ops, stored, dropped, moved, claimed, swept, raced>>

-----------------------------------------------------------------------------
(* The operations, each from its first request to the store.                *)

\* allocate_rid: the next RID, which no other call gets (RidPool).
Rid == pool + 1

\* Mutant: the pool is not advanced.
AllocateRidStuck == pool < MaxRids /\ pool' = pool

AllocateRid == pool < MaxRids /\ pool' = pool + 1

\* handle_add puts the entry whether or not one is there: a security principal
\* with a new RID, any other entry with what the client sent.
HandleAdd(p, dn, sids) ==
    /\ p \in Ldap /\ Begin(p)
    /\ \/ /\ AllocateRid /\ Put(p, "add", dn, Absent, dn, Added(dn.name, {Rid}))
          /\ UNCHANGED claimed
       \/ /\ Put(p, "add", dn, Absent, dn, Added(dn.name, sids)) /\ UNCHANGED pool
          /\ claimed' = claimed \cup sids
    /\ UNCHANGED <<stored, late>>

\* create_user2_in_domain: one guarded transaction; a RID is spent either way.
CreateUser2(p, dn) ==
    /\ p \in Rpc /\ Begin(p) /\ dn.name \in TopNames
    /\ AllocateRid /\ CreateTxn(p, dn, SamrUser(dn.name, {Rid}))
    /\ UNCHANGED <<job, claimed>>
    /\ IF tree[dn.name] = Absent
       THEN stored' = stored \cup {Rid} /\ late' = Late(p, dn.name)
       ELSE UNCHANGED <<stored, late>>

HandleDelete(p, dn) ==
    /\ p \in Ldap /\ Begin(p)
    /\ Remove(p, [st |-> "none", op |-> "delete", dn |-> dn, to |-> dn, base |-> Absent])
    /\ UNCHANGED <<pool, stored, claimed, late>>

\* handle_modify.
HandleModify(p, dn, a) ==
    /\ p \in Ldap /\ Begin(p) /\ tree[dn.name] # Absent
    /\ \E e \in Modified(tree[dn.name], a) :
        /\ Got(p, "modify", dn, dn, e)
        /\ claimed' = claimed \cup (Sid(e) \ Sid(tree[dn.name]))
    /\ UNCHANGED <<pool, stored, late>>

\* handle_password_modify.
HandlePasswordModify(p, dn) ==
    /\ p \in Ldap /\ Begin(p) /\ tree[dn.name] # Absent
    /\ \E e \in Keyed(tree[dn.name], FallbackNames(tree[dn.name])) : Got(p, "passwd", dn, dn, e)
    /\ UNCHANGED <<pool, stored, claimed, late>>

\* handle_moddn: the scan that refuses a non-leaf, ...
ModDnScan(p, dn) ==
    /\ p \in Ldap /\ Begin(p)
    /\ Cardinality({n \in {dn.name} \cup Below[dn.name] : tree[n] # Absent}) <= 1
    /\ Become(p, [st |-> "found", op |-> "moddn", dn |-> dn, target |-> dn.name])
    /\ UNCHANGED <<vars, pool, stored, claimed, late>>

\* ... the read of the entry and its new RDN, ...
ModDnGet(p, to, deleteOld) ==
    /\ job[p].st = "found" /\ job[p].op = "moddn"
    /\ LET dn == job[p].dn
       IN  Got(p, "moddn", dn, to, Renamed(tree[dn.name], dn.name, to.name, deleteOld))
    /\ UNCHANGED <<pool, history>>

\* Mutant: the old DN may be deleted before the new one is put.
ModDnDeleteFirst(p) ==
    /\ job[p].st \in {"read", "moved"} /\ job[p].op = "moddn"
    /\ LET j == job[p] IN
        Remove(p, [st |-> "none", op |-> "moddn", dn |-> j.dn, to |-> j.to, base |-> j.base])
    /\ UNCHANGED <<pool, history>>

\* ... and, after the put, the delete of the old DN if it is another; there
\* may be nothing to delete any more.
ModDnDelete(p) ==
    /\ job[p].st = "moved"
    /\ \/ Remove(p, job[p]) /\ UNCHANGED <<cut, late>>
       \/ /\ tree[job[p].dn.name] = Absent /\ Become(p, NoJob) /\ UNCHANGED vars
          /\ cut' = cut \cup Sid(job[p].base) /\ late' = late \ {p}
    /\ UNCHANGED <<pool, ops, stored, dropped, moved, claimed, swept, raced>>

\* find_target: the principal's row if it is the only one; with no row,
\* kpasswd goes on to the sAMAccountName.  More rows than one is an error.
Find(p, op, attr, t) ==
    LET dns == LookupByIndex(attr, t)
    IN  \/ \E dn \in dns : dns = {dn} /\ Become(p, [st |-> "found", op |-> op, dn |-> dn, target |-> t])
        \/ op = "kpasswd" /\ attr = "princ" /\ dns = {}
           /\ Become(p, [st |-> "missed", op |-> op, target |-> t])

Kpasswd(p, t) ==
    /\ p \in Kdc /\ Begin(p) /\ Find(p, "kpasswd", "princ", t)
    /\ UNCHANGED <<vars, pool, stored, claimed, late>>

KpasswdBySam(p) ==
    /\ job[p].st = "missed" /\ Find(p, "kpasswd", "sam", job[p].target)
    /\ UNCHANGED <<vars, pool, history>>

\* iron-rpc-ctl set-computer-secret.
SetComputerSecret(p, t) ==
    /\ p \in Rpc /\ Begin(p) /\ Find(p, "secret", "cn", t)
    /\ UNCHANGED <<vars, pool, stored, claimed, late>>

\* iron-kdc-ctl set-password: with no row, a made-up entry is put.
SetPassword(p, t, c) ==
    /\ p \in Ctl /\ Begin(p) /\ t \in TopNames
    /\ \/ Find(p, "ctl", "princ", t) /\ UNCHANGED vars
       \/ /\ LookupByIndex("princ", t) = {}
          /\ LET dn == [name |-> t, case |-> c]
             IN  Put(p, "ctl", dn, Absent, dn, [CtlEntry(t) EXCEPT !["princ"] = {t}])
    /\ UNCHANGED <<pool, stored, claimed, late>>

\* Those three, having found the DN: get_entry, then what they set.
FoundGet(p) ==
    /\ job[p].st = "found" /\ job[p].op # "moddn"
    /\ LET j == job[p]
           old == tree[j.dn.name]
       IN  /\ old # Absent
           /\ \E e \in IF j.op = "secret" THEN {old}
                       ELSE IF j.op = "ctl" THEN {[old EXCEPT !["princ"] = {j.target}]}
                       ELSE Keyed(old, {j.target}) : Got(p, j.op, j.dn, j.dn, e)
    /\ UNCHANGED <<pool, history>>

DirNext ==
    \E p \in Procs :
        \/ \E dn \in Dn : HandleDelete(p, dn) \/ HandlePasswordModify(p, dn)
                        \/ ModDnScan(p, dn) \/ CreateUser2(p, dn)
        \/ \E dn \in Dn, sids \in {{}} \cup {{v} : v \in Offered("sid")} : HandleAdd(p, dn, sids)
        \/ \E dn \in Dn, a \in Attrs : HandleModify(p, dn, a)
        \/ \E to \in Dn, deleteOld \in BOOLEAN : ModDnGet(p, to, deleteOld)
        \/ \E t \in Names : Kpasswd(p, t) \/ SetComputerSecret(p, t)
        \/ \E t \in Names, c \in Casings : SetPassword(p, t, c)
        \/ KpasswdBySam(p) \/ FoundGet(p) \/ Write(p) \/ Commit(p)
        \/ ModDnDelete(p) \/ CommitDelete(p) \/ Abort(p)

DirSpec == DirInit /\ [][DirNext]_dirVars

-----------------------------------------------------------------------------
\* SIDs between the put and the delete of a ModifyDN.
Moving == UNION {Sid(job[p].base) : p \in {q \in Procs : job[q].st \in {"moved", "delete"}}}

\* Whatever interleaves or dies, with several iron-ldapd as with one, an account
\* leaves the directory only by a client's delete, by a put over its name, or by
\* the closing delete of a ModifyDN whose old name was written after it was
\* read.  So a crash of a ModifyDN at any point, which puts at the new DN before
\* it deletes the old one (session.rs:1049-1053), and one beside a kpasswd or a
\* password modify that still had the old entry in hand, lose no account.
NothingLost == stored \subseteq Sids \cup dropped \cup swept

\* That last way loses an account nobody deleted or overwrote: an add at the
\* old DN, or a ModifyDN back to it, that another iron-ldapd was told succeeded.
NoneSwept == swept \subseteq Sids \cup dropped

\* Two entries share an objectSid only where a ModifyDN carried it or a client
\* wrote it itself, which add (security.rs:65-67) and modify let it do: one the
\* directory assigned is on one entry, since RIDs are drawn once and no other
\* operation writes an entry under a second name.
SidOnlyByMove ==
    \A m, n \in Names : m # n => Sid(tree[m]) \cap Sid(tree[n]) \subseteq moved \cup claimed

\* While no write has hit an entry that changed after it was read, an
\* account that was deleted or replaced stays gone, except as the second copy
\* a ModifyDN made and did not delete, or as a SID a client wrote itself.
GoneForGood == ~raced => Sids \cap dropped \subseteq cut \cup Moving \cup claimed

\* While no write has hit an entry that changed after it was read, the index
\* is what the KDC, kpasswd and the ctl tools need: every name an account has
\* is found, although iron-rpcd and iron-rpc-ctl index only the cn.
AccountsFindable ==
    ~raced => \A n \in Names : tree[n] # Absent =>
        \A a \in {"cn", "sam", "princ"} : \A v \in tree[n][a] :
            \E dn \in LookupByIndex(a, v) : dn.name = n

\* In the same case, if moreover no name was spelt in two ways, the index holds
\* nothing else: crashes and operations of programs with different IndexSpecs
\* leave no row of a deleted entry, a former value or a former name.
IndexExact ==
    ~raced /\ (\A n \in Names : Cardinality({w[2] : w \in writers[n]}) <= 1)
        => IndexMirrorsEntries

\* iron-kdc-ctl set-password creates the entry if it does not exist, or
\* updates its keys in place if it does (iron-kdc-ctl.rs:9-12).
SetPasswordInPlace ==
    [][\A p \in Ctl : \A n \in Names :
        Commit(p) /\ job[p].to.name = n /\ tree[n] # Absent => Sid(tree'[n]) = Sid(tree[n])]_dirVars
=============================================================================
