-------------------------- MODULE BootstrapProofs --------------------------
(***************************************************************************)
(* For any number of members, administrators, child domains and commands,  *)
(* on a new store and on one from before domain SIDs: when the members     *)
(* agree on one domain SID, when the root's record comes after the         *)
(* configuration's and the schema's, and that no record lists a child that *)
(* has none.                                                               *)
(***************************************************************************)
EXTENDS Bootstrap, TLAPS

USE CatalogAssumption

\* What the arguments of a command are, by its name.
LEMMA CommandFacts ==
    ASSUME NEW c \in Commands
    PROVE  /\ c.cmd \in {"setUrl", "setSid"} => c.id \in Ids
           /\ c.cmd \in {"addSubordinate", "createChild"} => c.child \in Children
           /\ c.cmd = "initForest" => c.realm \in {"own", "other"}
BY Zenon DEF Commands, Ids

\* A command keeps its name as it moves from put to put.
JobShape ==
    \A a \in Admins :
        /\ job[a].st = "parent" => job[a].do.cmd = "createChild" /\ job[a].snap[Root] # Absent
        /\ job[a].st \in {"config", "schema"} => job[a].do.cmd = "initForest"

\* What a member holds when it is about to fill in the root record.
FillShape == \A m \in Members : member[m].st = "fill" => member[m].loaded # Absent

TypeInv == TypeOK /\ JobShape /\ FillShape

\* A command that is not over has its arguments and the registry it loaded.
LEMMA JobFacts ==
    ASSUME TypeInv, NEW a \in Admins, job[a].st # "idle"
    PROVE  /\ job[a] \in [st : {"loaded", "config", "schema", "parent"}, do : Commands,
                          snap : Registry]
           /\ job[a].do \in Commands
           /\ \A i \in Ids : job[a].snap[i] \in Record \cup {Absent}
           /\ job[a].snap[Root] \in Record \cup {Absent}
<1>1. job[a] \in Jobs /\ job[a] # Idle
  BY DEF TypeInv, TypeOK, CatalogTypeOK, Idle
<1>2. job[a] \in [st : {"loaded", "config", "schema", "parent"}, do : Commands, snap : Registry]
  BY <1>1, Zenon DEF Jobs
<1> QED
  BY <1>2, Zenon DEF Registry, Ids

\* What each kind of record update gives: a record again.
LEMMA SidSet ==
    ASSUME NEW p \in Record, NEW s \in Sids, NEW q, q = [p EXCEPT !.sid = s]
    PROVE  q \in Record /\ q.sid = s /\ q.subs = p.subs /\ q.netbios = p.netbios
BY Zenon DEF Record

LEMMA SubAdded ==
    ASSUME NEW p \in Record, NEW c \in Children, NEW q, q = [p EXCEPT !.subs = @ \cup {c}]
    PROVE  q \in Record /\ q.subs = p.subs \cup {c} /\ q.sid = p.sid /\ q.netbios = p.netbios
BY Zenon DEF Record

LEMMA RecordFacts ==
    /\ \A r \in {"own", "other"} : Domain(r) \in Record /\ Domain(r).subs = {}
    /\ \A s \in Sids :
          LET q == [Domain("own") EXCEPT !.superior = Root, !.sid = s]
          IN  q \in Record /\ q.sid = s /\ q.subs = {}
BY Zenon DEF Record, Domain

\* The record init_forest builds.
LEMMA RootOverFacts ==
    ASSUME NEW prior \in Record \cup {Absent}, NEW r \in {"own", "other"}, NEW s \in Nat,
           RootOver(prior, r, s).sid \in Sids
    PROVE  /\ RootOver(prior, r, s) \in Record
           /\ prior = Absent => RootOver(prior, r, s).subs = {}
           /\ prior # Absent => RootOver(prior, r, s).subs = prior.subs
BY Zenon DEF RootOver, Record, Domain

-----------------------------------------------------------------------------
\* A put by a command keeps the types.
LEMMA PutType ==
    ASSUME TypeInv, NEW a \in Admins, NEW i \in Ids, NEW p \in Record,
           NEW next \in Jobs, PutPartition(a, i, p, next)
    PROVE  /\ records' \in Registry /\ job' \in [Admins -> Jobs]
           /\ stale' \in BOOLEAN /\ rewritten' \in BOOLEAN
<1>1. records' \in Registry /\ job' \in [Admins -> Jobs]
  BY Zenon DEF TypeInv, TypeOK, CatalogTypeOK, PutPartition, Registry
<1>2. stale' \in BOOLEAN /\ rewritten' \in BOOLEAN
  <2>1. CASE i = Root
    <3>1. RootPut(p, job[a].snap[Root])
      BY <2>1, Zenon DEF PutPartition
    <3> QED
      BY <3>1, Zenon DEF RootPut, TypeInv, TypeOK, CatalogTypeOK
  <2>2. CASE i # Root
    BY <2>2, Zenon DEF TypeInv, TypeOK, CatalogTypeOK, PutPartition
  <2> QED
    BY <2>1, <2>2, Zenon
<1> QED
  BY <1>1, <1>2, Zenon

\* What the put at the end of a command writes, and where.
Writes(a, i, p) ==
    /\ i \in Ids /\ p \in Record
    /\ \/ PutPartition(a, i, p, Idle)
       \/ /\ job[a].st = "loaded" /\ job[a].do.cmd = "createChild" /\ job[a].snap[Root] # Absent
          /\ i = job[a].do.child
          /\ PutPartition(a, i, p, [job[a] EXCEPT !.st = "parent"])
    /\ minted' \in 0..MaxSids /\ linked' \subseteq Children
    /\ UNCHANGED <<naming, runs>>
    /\ p.sid \in Sids \/ (job[a].snap[i] # Absent /\ p.sid = job[a].snap[i].sid)
    /\ i = Root => \/ job[a].st = "schema"
                   \/ job[a].snap[Root] # Absent /\ p.netbios = job[a].snap[Root].netbios
    /\ \/ job[a].snap[i] # Absent /\ p.subs = job[a].snap[i].subs
       \/ p.subs = {} /\ (i = Root => job[a].st = "schema")
       \/ /\ job[a].snap[Root] # Absent /\ i = Root
          /\ \E c \in Children :
                /\ p.subs = job[a].snap[Root].subs \cup {c}
                /\ job[a].snap[c] # Absent \/ (job[a].st = "parent" /\ c = job[a].do.child)

\* Each command's put, in those terms.
LEMMA CommandPuts ==
    ASSUME TypeInv, NEW a \in Admins,
           SetUrl(a) \/ SetDomainSid(a) \/ AddSubordinate(a) \/ CreateChild(a)
           \/ LinkParent(a) \/ InitRoot(a)
    PROVE  job[a].st # "idle" /\ \E i, p : Writes(a, i, p)
<1>1. job[a].st # "idle"
  BY Zenon DEF SetUrl, SetDomainSid, AddSubordinate, CreateChild, LinkParent, InitRoot, Loaded
<1>2. /\ job[a].do \in Commands
      /\ \A i \in Ids : job[a].snap[i] \in Record \cup {Absent}
      /\ job[a].snap[Root] \in Record \cup {Absent}
  BY <1>1, JobFacts, Zenon
<1>3. minted \in 0..MaxSids /\ linked \subseteq Children
  BY Zenon DEF TypeInv, TypeOK, CatalogTypeOK
<1>4. /\ job[a].do.cmd \in {"setUrl", "setSid"} => job[a].do.id \in Ids
      /\ job[a].do.cmd \in {"addSubordinate", "createChild"} => job[a].do.child \in Children
      /\ job[a].do.cmd = "initForest" => job[a].do.realm \in {"own", "other"}
  BY <1>2, CommandFacts, Zenon
<1>5. Root \in Ids /\ \A c \in Children : c \in Ids
  BY Zenon DEF Ids
<1>6. CASE SetUrl(a)
  <2>1. Writes(a, job[a].do.id, job[a].snap[job[a].do.id])
    BY <1>2, <1>3, <1>4, <1>6, Zenon DEF SetUrl, Loaded, Writes
  <2> QED
    BY SMTT(30), <1>1, <2>1
<1>7. CASE SetDomainSid(a)
  <2> DEFINE p == [job[a].snap[job[a].do.id] EXCEPT !.sid = minted + 1]
  <2>1. /\ job[a].do.id \in Ids /\ job[a].snap[job[a].do.id] \in Record
        /\ job[a].snap[job[a].do.id] # Absent
    BY <1>2, <1>4, <1>7, Zenon DEF SetDomainSid, Loaded
  <2>2. minted + 1 \in Sids
    BY SMTT(30), <1>3, <1>7 DEF SetDomainSid, Sids
  <2>3. /\ p \in Record /\ p.subs = job[a].snap[job[a].do.id].subs
        /\ p.sid = minted + 1 /\ p.netbios = job[a].snap[job[a].do.id].netbios
    <3>1. p = [job[a].snap[job[a].do.id] EXCEPT !.sid = minted + 1]
      BY Zenon
    <3> HIDE DEF p
    <3> QED
      BY <2>1, <2>2, <3>1, SidSet
  <2>4. /\ PutPartition(a, job[a].do.id, p, Idle)
        /\ minted' = minted + 1 /\ UNCHANGED <<naming, runs, linked>>
    BY SMTT(30), <1>7 DEF SetDomainSid
  <2>5. Writes(a, job[a].do.id, p)
    <3> HIDE DEF p
    <3>1. minted' \in 0..MaxSids
      BY <2>2, <2>4 DEF Sids
    <3>2. p.sid \in Sids
      BY <2>2, <2>3, Zenon
    <3> QED
      BY Zenon, <1>3, <2>1, <2>3, <2>4, <3>1, <3>2 DEF Writes
  <2> QED
    BY <1>1, <2>5, Zenon
<1>8. CASE AddSubordinate(a)
  <2> DEFINE c == job[a].do.child
             p == [job[a].snap[Root] EXCEPT !.subs = @ \cup {c}]
  <2>1. c \in Children /\ job[a].snap[Root] \in Record /\ job[a].snap[c] # Absent
        /\ job[a].snap[Root] # Absent
    BY <1>2, <1>4, <1>8, Zenon DEF AddSubordinate, Loaded
  <2>2. /\ p \in Record /\ p.subs = job[a].snap[Root].subs \cup {c}
        /\ p.sid = job[a].snap[Root].sid /\ p.netbios = job[a].snap[Root].netbios
    <3>1. p = [job[a].snap[Root] EXCEPT !.subs = @ \cup {c}]
      BY Zenon
    <3> HIDE DEF p, c
    <3> QED
      BY <2>1, <3>1, SubAdded
  <2>3. PutPartition(a, Root, p, Idle) /\ linked' = linked \cup {c} /\ UNCHANGED <<naming, minted, runs>>
    BY <1>8, Zenon DEF AddSubordinate
  <2>4. Writes(a, Root, p)
    <3> HIDE DEF p, c
    <3> QED
      BY <1>3, <1>5, <2>1, <2>2, <2>3, Zenon DEF Writes
  <2> QED
    BY <1>1, <2>4, Zenon
<1>9. CASE CreateChild(a)
  <2> DEFINE c == job[a].do.child
             p == [Domain("own") EXCEPT !.superior = Root, !.sid = minted + 1]
  <2>1. c \in Children /\ minted + 1 \in Sids /\ c # Root
    BY SMTT(30), <1>2, <1>3, <1>4, <1>9 DEF CreateChild, Loaded, Sids
  <2>2. p \in Record /\ p.subs = {} /\ p.sid = minted + 1
    BY Zenon, <2>1, RecordFacts
  <2>3. /\ PutPartition(a, c, p, [job[a] EXCEPT !.st = "parent"]) /\ minted' = minted + 1
        /\ job[a].st = "loaded" /\ job[a].do.cmd = "createChild" /\ job[a].snap[Root] # Absent
        /\ UNCHANGED <<naming, runs, linked>>
    BY <1>9, Zenon DEF CreateChild, Loaded
  <2>4. Writes(a, c, p)
    <3> HIDE DEF p
    <3> QED
      BY <1>3, <1>5, <2>1, <2>2, <2>3 DEF Writes, Sids
  <2> QED
    BY <1>1, <2>4, Zenon
<1>10. CASE LinkParent(a)
  <2> DEFINE c == job[a].do.child
             p == [job[a].snap[Root] EXCEPT !.subs = @ \cup {c}]
  <2>1. c \in Children /\ job[a].snap[Root] \in Record /\ job[a].st = "parent"
        /\ job[a].snap[Root] # Absent
    BY <1>2, <1>4, <1>10, Zenon DEF LinkParent, TypeInv, JobShape
  <2>2. /\ p \in Record /\ p.subs = job[a].snap[Root].subs \cup {c}
        /\ p.sid = job[a].snap[Root].sid /\ p.netbios = job[a].snap[Root].netbios
    <3>1. p = [job[a].snap[Root] EXCEPT !.subs = @ \cup {c}]
      BY Zenon
    <3> HIDE DEF p, c
    <3> QED
      BY <2>1, <3>1, SubAdded
  <2>3. PutPartition(a, Root, p, Idle) /\ linked' = linked \cup {c} /\ UNCHANGED <<naming, minted, runs>>
    BY <1>10, Zenon DEF LinkParent
  <2>4. \E d \in Children :
            /\ p.subs = job[a].snap[Root].subs \cup {d}
            /\ job[a].st = "parent" /\ d = job[a].do.child
    BY <2>1, <2>2, Zenon
  <2>5. Writes(a, Root, p)
    <3> HIDE DEF p, c
    <3> QED
      BY <1>3, <1>5, <2>1, <2>2, <2>3, <2>4, Zenon DEF Writes
  <2> QED
    BY <1>1, <2>5, Zenon
<1>11. CASE InitRoot(a)
  <2> DEFINE p == RootOver(job[a].snap[Root], job[a].do.realm, minted + 1)
  <2>1. job[a].st = "schema" /\ job[a].do.realm \in {"own", "other"}
    BY <1>4, <1>11, Zenon DEF InitRoot, TypeInv, JobShape
  <2>2. /\ p.sid \in Sids /\ minted' = (IF p.sid > minted THEN p.sid ELSE minted)
        /\ PutPartition(a, Root, p, Idle) /\ UNCHANGED <<naming, runs, linked>>
    BY <1>11, Zenon DEF InitRoot
  <2>3. /\ p \in Record
        /\ job[a].snap[Root] = Absent => p.subs = {}
        /\ job[a].snap[Root] # Absent => p.subs = job[a].snap[Root].subs
    BY <1>2, <1>3, <2>1, <2>2, RootOverFacts
  <2>4. Writes(a, Root, p)
    <3> HIDE DEF p
    <3>1. minted' \in 0..MaxSids
      BY <1>3, <2>2 DEF Sids
    <3> QED
      BY <1>3, <1>5, <2>1, <2>2, <2>3, <3>1, Zenon DEF Writes
  <2> QED
    BY <1>1, <2>4, Zenon
<1> QED
  BY <1>6, <1>7, <1>8, <1>9, <1>10, <1>11, Zenon

\* A command that puts a record keeps the types.
LEMMA WritesType ==
    ASSUME TypeInv, NEW a \in Admins, job[a].st # "idle", NEW i, NEW p, Writes(a, i, p),
           UNCHANGED <<entries, member, ghosts>>
    PROVE  TypeInv'
<1>1. PICK next : /\ PutPartition(a, i, p, next)
                  /\ \/ next = Idle
                     \/ /\ next = [job[a] EXCEPT !.st = "parent"]
                        /\ job[a].do.cmd = "createChild" /\ job[a].snap[Root] # Absent
  BY Zenon DEF Writes
<1>2. next \in Jobs
  BY <1>1, JobFacts, Zenon DEF Jobs
<1>3. /\ next.st = "parent" => next.do.cmd = "createChild" /\ next.snap[Root] # Absent
      /\ next.st \notin {"config", "schema"}
  BY <1>1, JobFacts DEF Idle
<1>4. job' = [job EXCEPT ![a] = next]
  BY <1>1, Zenon DEF PutPartition
<1>5. JobShape'
  BY <1>3, <1>4, Zenon DEF JobShape, TypeInv, TypeOK, CatalogTypeOK
<1>6. TypeOK'
  <2>1. /\ records' \in Registry /\ job' \in [Admins -> Jobs]
        /\ stale' \in BOOLEAN /\ rewritten' \in BOOLEAN
    BY <1>1, <1>2, PutType, Zenon DEF Writes
  <2> QED
    BY <2>1, Zenon DEF TypeInv, TypeOK, CatalogTypeOK, Writes, ghosts
<1>7. FillShape'
  BY Zenon DEF TypeInv, FillShape
<1> QED
  BY <1>5, <1>6, <1>7, Zenon DEF TypeInv

\* A command's other steps keep the types: they only move the job on.
LEMMA JobMoveType ==
    ASSUME TypeInv, NEW a \in Admins,
           Abort(a) \/ InitConfig(a) \/ InitSchema(a)
           \/ \E c \in Commands, ok \in BOOLEAN : Load(a, c, ok),
           UNCHANGED <<entries, member, ghosts>>
    PROVE  TypeInv'
<1>1. /\ FillShape'
      /\ minted' = minted /\ linked' = linked /\ stale' = stale /\ rewritten' = rewritten
      /\ records' = records
  BY Zenon DEF TypeInv, FillShape, Abort, InitConfig, InitSchema, Load
<1>2. runs' \in 0..MaxRuns /\ naming' \subseteq {"config", "schema"}
  BY DEF TypeInv, TypeOK, CatalogTypeOK, Abort, InitConfig, InitSchema, Load
<1>3. job' \in [Admins -> Jobs] /\ JobShape'
  <2>1. CASE Abort(a)
    BY <2>1, Zenon DEF Abort, TypeInv, TypeOK, CatalogTypeOK, Jobs, JobShape, Idle
  <2>2. CASE InitConfig(a) \/ InitSchema(a)
    <3>1. job[a].st # "idle" /\ job[a].do.cmd = "initForest"
      BY <2>2, Zenon DEF InitConfig, InitSchema, Loaded, TypeInv, JobShape
    <3>2. PICK st \in {"config", "schema"} : job' = [job EXCEPT ![a] = [job[a] EXCEPT !.st = st]]
      BY <2>2, Zenon DEF InitConfig, InitSchema
    <3>3. /\ [job[a] EXCEPT !.st = st] \in Jobs
          /\ [job[a] EXCEPT !.st = st].do.cmd = "initForest"
          /\ [job[a] EXCEPT !.st = st].st = st
      BY <3>1, JobFacts, Zenon DEF Jobs
    <3> QED
      BY <3>2, <3>3, Zenon DEF TypeInv, TypeOK, CatalogTypeOK, JobShape
  <2>3. CASE \E c \in Commands, ok \in BOOLEAN : Load(a, c, ok)
    <3>1. PICK c \in Commands, ok \in BOOLEAN : Load(a, c, ok)
      BY <2>3, Zenon
    <3> DEFINE next == [st |-> "loaded", do |-> c, snap |-> IF ok THEN records ELSE NoRecords]
    <3>2. next \in Jobs /\ next.st = "loaded"
      BY Zenon DEF TypeInv, TypeOK, CatalogTypeOK, Jobs, NoRecords, Registry
    <3>3. job' = [job EXCEPT ![a] = next]
      BY <3>1, Zenon DEF Load
    <3> HIDE DEF next
    <3> QED
      BY <3>2, <3>3, Zenon DEF TypeInv, TypeOK, CatalogTypeOK, JobShape
  <2> QED
    BY <2>1, <2>2, <2>3, Zenon
<1> QED
  BY <1>1, <1>2, <1>3, Zenon DEF TypeInv, TypeOK, CatalogTypeOK, ghosts

\* A member moves from step to step holding the same SID and record.
LEMMA GotoType ==
    ASSUME TypeInv, NEW m \in Members, NEW st \in Step, Goto(m, st), st # "fill"
    PROVE  member' \in [Members -> Member] /\ FillShape'
<1>1. member' \in [Members -> Member]
  BY DEF TypeInv, TypeOK, Goto, Member
<1>2. ASSUME NEW n \in Members, member'[n].st = "fill" PROVE member'[n].loaded # Absent
  BY <1>2 DEF Goto, TypeInv, TypeOK, Member, FillShape
<1> QED
  BY <1>1, <1>2, Zenon DEF FillShape

\* A member's step that touches only the entries keeps the types.
LEMMA EntryType ==
    ASSUME TypeInv, NEW m \in Members, NEW e \in Entries, CreateEntry(m, e)
    PROVE  entries' \in [Entries -> Sids \cup {Absent}]
BY Zenon DEF TypeInv, TypeOK, CreateEntry, Create, Member

\* The record create_partition leaves at the root: the one that was there,
\* or the member's own.
LEMMA CreateRootFacts ==
    ASSUME TypeInv, NEW m \in Members, CreateRoot(m)
    PROVE  \E p \in Record :
             /\ records' = [records EXCEPT ![Root] = p]
             /\ minted' \in 0..MaxSids
             /\ records[Root] # Absent => p = records[Root]
             /\ records[Root] = Absent => p.subs = {} /\ p.sid \in Sids
<1> DEFINE new == [Domain("own") EXCEPT !.sid = minted + 1, !.netbios = TRUE]
           p == Create(records[Root], new)
<1>1. minted \in Nat /\ minted \in 0..MaxSids /\ records[Root] \in Record \cup {Absent}
  BY DEF TypeInv, TypeOK, CatalogTypeOK, Registry, Ids
<1>2. /\ p.sid \in Sids \cup {Absent} /\ records' = [records EXCEPT ![Root] = p]
      /\ minted' = IF p.sid \in Sids /\ p.sid > minted THEN p.sid ELSE minted
  BY Zenon DEF CreateRoot
<1>3. CASE records[Root] = Absent
  <2>1. p = new /\ new.sid = minted + 1
    BY <1>3, Zenon DEF Create, Domain
  <2>2. minted + 1 \in Sids
    <3> HIDE DEF p, new
    <3>1. p.sid = minted + 1 /\ minted + 1 \in Nat
      BY <1>1, <2>1
    <3> QED
      BY <1>2, <3>1, Zenon
  <2>3. new \in Record /\ new.subs = {}
    BY Zenon, <2>2 DEF Record, Domain
  <2>4. minted' \in 0..MaxSids
    <3> HIDE DEF p, new
    <3> QED
      BY <1>1, <1>2, <2>1, <2>2 DEF Sids
  <2> QED
    BY Zenon, <1>2, <1>3, <2>1, <2>2, <2>3, <2>4
<1>4. CASE records[Root] # Absent
  <2>1. p = records[Root] /\ p \in Record
    BY <1>1, <1>4, Zenon DEF Create
  <2>2. minted' \in 0..MaxSids
    <3> HIDE DEF p, new
    <3> QED
      BY <1>1, <1>2 DEF Sids
  <2> QED
    BY Zenon, <1>2, <1>4, <2>1, <2>2
<1> QED
  BY <1>3, <1>4, Zenon

\* The record a member fills in and puts back.
LEMMA FillFacts ==
    ASSUME TypeInv, NEW m \in Members, Fill(m)
    PROVE  \E p \in Record, s \in Sids :
             /\ records' = [records EXCEPT ![Root] = p]
             /\ records'[Root] = p /\ p # Absent /\ s # Absent
             /\ overrun' = (overrun \/ ReplacesSid(p))
             /\ minted' \in 0..MaxSids /\ p.sid = s /\ p.subs = member[m].loaded.subs
             /\ member[m].loaded.sid # Absent => s = member[m].loaded.sid
             /\ member' = [member EXCEPT ![m] = [st |-> "base", own |-> s, loaded |-> Absent]]
<1> DEFINE r == member[m].loaded
           s == IF r.sid = Absent THEN minted + 1 ELSE r.sid
           p == [r EXCEPT !.sid = s, !.netbios = TRUE]
<1>1. r \in Record /\ minted \in 0..MaxSids
  BY Zenon DEF Fill, TypeInv, TypeOK, CatalogTypeOK, FillShape, Member
<1>2. /\ s \in Sids /\ minted' = (IF r.sid = Absent THEN minted + 1 ELSE minted)
      /\ records' = [records EXCEPT ![Root] = p] /\ overrun' = (overrun \/ ReplacesSid(p))
      /\ r.sid # Absent => s = r.sid
      /\ member' = [member EXCEPT ![m] = [st |-> "base", own |-> s, loaded |-> Absent]]
  BY Zenon DEF Fill
<1>3. p \in Record /\ p.sid = s /\ p.subs = r.subs
  <2>1. s \in Sids
    BY <1>2, Zenon
  <2> HIDE DEF r, s
  <2> QED
    BY Zenon, <1>1, <2>1 DEF Record
<1>4. minted' \in 0..MaxSids
  BY <1>1, <1>2 DEF Sids
<1> HIDE DEF p, s
<1>5. records'[Root] = p /\ p # Absent /\ s # Absent
  BY <1>2, <1>3 DEF TypeInv, TypeOK, CatalogTypeOK, Registry, Ids, Sids
<1> QED
  BY Zenon, <1>2, <1>3, <1>4, <1>5

\* The member after load_registry and check_matches.
LEMMA LoadFacts ==
    ASSUME TypeInv, NEW m \in Members, LoadRecord(m)
    PROVE  \E x \in Member :
             /\ member' = [member EXCEPT ![m] = x]
             /\ \/ x = NotStarted
                \/ x.st = "fill" /\ records[Root] # Absent /\ x.loaded = records[Root]
                \/ /\ x.st = "base" /\ records[Root] # Absent
                   /\ records[Root].sid # Absent /\ x.own = records[Root].sid
<1> DEFINE r == records[Root]
           x == IF r = Absent \/ r.realm # "own" THEN NotStarted
                ELSE IF r.sid = Absent \/ ~r.netbios
                THEN [st |-> "fill", own |-> r.sid, loaded |-> r]
                ELSE [st |-> "base", own |-> r.sid, loaded |-> Absent]
<1>1. r \in Record \cup {Absent}
  BY Zenon DEF TypeInv, TypeOK, CatalogTypeOK, Registry, Ids
<1>2. x \in Member
  <2>1. NotStarted \in Member
    BY Zenon DEF Member, NotStarted, Step
  <2>2. ASSUME r # Absent
        PROVE  /\ [st |-> "fill", own |-> r.sid, loaded |-> r] \in Member
               /\ [st |-> "base", own |-> r.sid, loaded |-> Absent] \in Member
    <3>1. r \in Record
      BY <1>1, <2>2, Zenon
    <3> HIDE DEF r
    <3>2. r.sid \in Sids \cup {Absent}
      BY <3>1, Zenon DEF Record
    <3> QED
      BY <3>1, <3>2, Zenon DEF Member, Step
  <2> QED
    BY <2>1, <2>2, Zenon
<1>3. member' = [member EXCEPT ![m] = x]
  BY Zenon DEF LoadRecord
<1>4. \/ x = NotStarted
      \/ x.st = "fill" /\ r # Absent /\ x.loaded = r
      \/ x.st = "base" /\ r # Absent /\ r.sid # Absent /\ x.own = r.sid
  BY Zenon
<1> HIDE DEF x
<1> QED
  BY Zenon, <1>2, <1>3, <1>4

\* The steps of provision() that leave the catalog alone, and where they go.
LEMMA EntrySteps ==
    ASSUME NEW m,
           CreateBase(m) \/ LookupKrbtgt(m) \/ CreateKrbtgt(m) \/ LookupAdmin(m) \/ CreateAdmin(m)
    PROVE  /\ UNCHANGED <<catalog, ghosts>>
           /\ UNCHANGED entries \/ \E e \in Entries : CreateEntry(m, e)
           /\ \E st \in {"krbtgt", "krbtgtNew", "admin", "adminNew", "done"} : Goto(m, st)
           /\ member[m].st \in {"base", "krbtgt", "krbtgtNew", "admin", "adminNew"}
BY Zenon DEF CreateBase, LookupKrbtgt, CreateKrbtgt, LookupAdmin, CreateAdmin, Entries

\* A member's step keeps the types.
LEMMA MemberType ==
    ASSUME TypeInv, NEW m \in Members, Provision(m) \/ Crash(m)
    PROVE  TypeInv'
<1> USE DEF TypeInv, TypeOK, CatalogTypeOK, ghosts
<1>1. CASE CreateConfig(m) \/ CreateSchema(m)
  <2>1. \E st \in Step : st # "fill" /\ Goto(m, st)
    BY <1>1, Zenon DEF CreateConfig, CreateSchema, Step
  <2>2. member' \in [Members -> Member] /\ FillShape'
    BY <2>1, GotoType, Zenon
  <2> QED
    BY Zenon, <1>1, <2>2 DEF CreateConfig, CreateSchema, JobShape
<1>2. CASE CreateRoot(m)
  <2>1. "load" \in Step /\ Goto(m, "load")
    BY <1>2, Zenon DEF CreateRoot, Step
  <2>2. member' \in [Members -> Member] /\ FillShape'
    BY <2>1, GotoType, Zenon
  <2>3. records' \in Registry /\ minted' \in 0..MaxSids
    BY <1>2, CreateRootFacts DEF Registry, Ids
  <2> QED
    BY <1>2, <2>2, <2>3, Zenon DEF CreateRoot, JobShape
<1>3. CASE LoadRecord(m)
  <2>1. member' \in [Members -> Member] /\ FillShape'
    BY <1>3, LoadFacts DEF FillShape, NotStarted
  <2> QED
    BY <1>3, <2>1, Zenon DEF LoadRecord, JobShape
<1>4. CASE Fill(m)
  <2>1. PICK p \in Record, s \in Sids :
             /\ records' = [records EXCEPT ![Root] = p]
             /\ minted' \in 0..MaxSids
             /\ member' = [member EXCEPT ![m] = [st |-> "base", own |-> s, loaded |-> Absent]]
    BY <1>4, FillFacts
  <2>2. records' \in Registry
    BY <2>1, Zenon DEF Registry, Ids
  <2>3. member' \in [Members -> Member] /\ FillShape'
    BY <2>1, Zenon DEF Member, Step, FillShape
  <2>4. stale' \in BOOLEAN /\ overrun' \in BOOLEAN
    BY <1>4, Zenon DEF Fill
  <2> QED
    BY <1>4, <2>1, <2>2, <2>3, <2>4, Zenon DEF Fill, JobShape
<1>5. CASE CreateBase(m) \/ LookupKrbtgt(m) \/ CreateKrbtgt(m) \/ LookupAdmin(m) \/ CreateAdmin(m)
  <2>1. \E st \in Step : st # "fill" /\ Goto(m, st)
    BY <1>5, EntrySteps DEF Step
  <2>2. member' \in [Members -> Member] /\ FillShape'
    BY <2>1, GotoType, Zenon
  <2>3. entries' \in [Entries -> Sids \cup {Absent}]
    BY <1>5, EntrySteps, EntryType, Zenon
  <2> QED
    BY Zenon, <1>5, <2>2, <2>3, EntrySteps DEF catalog, JobShape
<1>6. CASE Crash(m)
  <2>1. member' \in [Members -> Member] /\ FillShape'
    BY <1>6, Zenon DEF Crash, NotStarted, Member, Step, FillShape
  <2>2. runs' \in 0..MaxRuns
    BY <1>6 DEF Crash
  <2> QED
    BY <1>6, <2>1, <2>2, Zenon DEF Crash, JobShape
<1> QED
  BY <1>1, <1>2, <1>3, <1>4, <1>5, <1>6, Zenon DEF Provision

-----------------------------------------------------------------------------
\* A step keeps the types.
LEMMA TypeStep ==
    ASSUME TypeInv, [Next]_vars
    PROVE  TypeInv'
<1>1. CASE UNCHANGED vars
  BY <1>1, Zenon DEF vars, catalog, ghosts, TypeInv, TypeOK, CatalogTypeOK, JobShape, FillShape
<1>2. ASSUME NEW a \in Admins, Administer(a) PROVE TypeInv'
  <2>1. Command(a) /\ UNCHANGED <<entries, member, ghosts>>
    BY <1>2, Zenon DEF Administer
  <2>2. CASE SetUrl(a) \/ SetDomainSid(a) \/ AddSubordinate(a) \/ CreateChild(a)
             \/ LinkParent(a) \/ InitRoot(a)
    BY <2>1, <2>2, CommandPuts, WritesType, Zenon
  <2>3. CASE Abort(a) \/ InitConfig(a) \/ InitSchema(a)
             \/ \E c \in Commands, ok \in BOOLEAN : Load(a, c, ok)
    BY <2>1, <2>3, JobMoveType
  <2> QED
    BY <2>1, <2>2, <2>3, Zenon DEF Command
<1>3. ASSUME NEW m \in Members, Provision(m) \/ Crash(m) PROVE TypeInv'
  BY <1>3, MemberType, Zenon
<1> QED
  BY <1>1, <1>2, <1>3, Zenon DEF Next

\* The initial registries have their type.
LEMMA TypeInit == Init => TypeInv
<1> SUFFICES ASSUME Init PROVE TypeInv
  BY Zenon
<1>1. NoRecords \in Registry /\ [NoRecords EXCEPT ![Root] = Domain("own")] \in Registry
  BY Zenon DEF NoRecords, Registry, Domain, Record, Ids
<1>2. records \in Registry /\ naming \subseteq {"config", "schema"} /\ minted = 0
  BY <1>1, Zenon DEF Init
<1>3. job \in [Admins -> Jobs] /\ JobShape
  BY Zenon DEF Init, Jobs, JobShape, Idle
<1>4. member \in [Members -> Member] /\ FillShape
  BY Zenon DEF Init, Member, NotStarted, Step, FillShape
<1>5. /\ minted \in 0..MaxSids /\ runs \in 0..MaxRuns
      /\ entries \in [Entries -> Sids \cup {Absent}]
  BY <1>2 DEF Init
<1>6. /\ linked \subseteq Children /\ stale \in BOOLEAN /\ rewritten \in BOOLEAN
      /\ legacy \in BOOLEAN /\ overrun \in BOOLEAN
  BY Zenon DEF Init
<1> QED
  BY <1>2, <1>3, <1>4, <1>5, <1>6, Zenon DEF TypeInv, TypeOK, CatalogTypeOK

\* Every step of bootstrap and of the commands keeps the types.
THEOREM BootstrapTypeCorrect == Spec => []TypeOK
<1>1. Init => TypeInv
  BY TypeInit, Zenon
<1>2. TypeInv /\ [Next]_vars => TypeInv'
  BY TypeStep, Zenon
<1>3. TypeInv => TypeOK
  BY Zenon DEF TypeInv
<1> QED
  BY <1>1, <1>2, <1>3, PTL DEF Spec

-----------------------------------------------------------------------------
(* No record lists a child that has none.                                   *)

AllExist(ids) == \A c \in ids : records[c] # Absent

\* SubordinatesExist in inductive form: the copies that commands and members
\* hold, and will put back, list only children that exist as well.
LinkInv ==
    /\ SubordinatesExist
    /\ \A a \in Admins : job[a].st # "idle" =>
          \A i \in Ids : job[a].snap[i] # Absent =>
              records[i] # Absent /\ AllExist(job[a].snap[i].subs)
    /\ \A a \in Admins : job[a].st = "parent" => records[job[a].do.child] # Absent
    /\ \A m \in Members : member[m].st = "fill" => AllExist(member[m].loaded.subs)

\* A put of a record whose subordinates exist takes no record away.
LEMMA PutGrows ==
    ASSUME TypeInv, LinkInv, NEW i \in Ids, NEW p \in Record, AllExist(p.subs),
           records' = [records EXCEPT ![i] = p]
    PROVE  /\ \A j \in Ids : records[j] # Absent => records'[j] # Absent
           /\ records'[i] # Absent
           /\ \A ids \in SUBSET Ids : AllExist(ids) => \A c \in ids : records'[c] # Absent
           /\ SubordinatesExist'
<1>1. records \in [Ids -> Record \cup {Absent}]
  BY Zenon DEF TypeInv, TypeOK, CatalogTypeOK, Registry
<1>2. \A q \in Record : q.subs \subseteq Ids
  BY Zenon DEF Record, Ids
<1>3. \A j \in Ids : records[j] # Absent => records'[j] # Absent
  BY <1>1, Zenon
<1>4. records'[i] # Absent
  BY <1>1, Zenon
<1>5. \A ids \in SUBSET Ids : AllExist(ids) => \A c \in ids : records'[c] # Absent
  BY <1>3, Zenon DEF AllExist
<1>6. SubordinatesExist'
  <2> SUFFICES ASSUME NEW j \in Ids, records'[j] # Absent, NEW c \in records'[j].subs
               PROVE  records'[c] # Absent
    BY Zenon DEF SubordinatesExist
  <2>1. CASE j = i
    <3>1. c \in p.subs /\ c \in Ids
      BY <1>1, <1>2, <2>1, Zenon
    <3> QED
      BY <1>3, <3>1, Zenon DEF AllExist
  <2>2. CASE j # i
    <3>1. records'[j] = records[j] /\ records[j] \in Record
      BY <1>1, <2>2, Zenon
    <3>2. c \in Ids /\ records[c] # Absent
      BY <1>2, <3>1, Zenon DEF LinkInv, SubordinatesExist
    <3> QED
      BY <1>3, <3>2, Zenon
  <2> QED
    BY <2>1, <2>2, Zenon
<1> QED
  BY <1>3, <1>4, <1>5, <1>6, Zenon

\* The subordinates of the record a command puts exist.
LEMMA WritesExist ==
    ASSUME TypeInv, LinkInv, NEW a \in Admins, job[a].st # "idle", NEW i, NEW p, Writes(a, i, p)
    PROVE  AllExist(p.subs)
<1>1. \A j \in Ids : job[a].snap[j] # Absent => records[j] # Absent /\ AllExist(job[a].snap[j].subs)
  BY Zenon DEF LinkInv
<1>2. job[a].st = "parent" => records[job[a].do.child] # Absent
  BY Zenon DEF LinkInv
<1>3. Root \in Ids /\ \A c \in Children : c \in Ids
  BY Zenon DEF Ids
<1> QED
  BY <1>1, <1>2, <1>3 DEF Writes, AllExist

\* A command's put keeps LinkInv.
LEMMA WritesLink ==
    ASSUME TypeInv, LinkInv, NEW a \in Admins, job[a].st # "idle", NEW i, NEW p, Writes(a, i, p),
           UNCHANGED <<entries, member, ghosts>>
    PROVE  LinkInv'
<1>1. i \in Ids /\ p \in Record /\ records' = [records EXCEPT ![i] = p]
  BY Zenon DEF Writes, PutPartition
<1>2. AllExist(p.subs)
  BY WritesExist, Zenon
<1>3. /\ \A j \in Ids : records[j] # Absent => records'[j] # Absent
      /\ records'[i] # Absent
      /\ \A ids \in SUBSET Ids : AllExist(ids) => \A c \in ids : records'[c] # Absent
      /\ SubordinatesExist'
  BY Zenon, <1>1, <1>2, PutGrows
<1>4. PICK next : /\ PutPartition(a, i, p, next)
                  /\ \/ next = Idle
                     \/ /\ next = [job[a] EXCEPT !.st = "parent"]
                        /\ i = job[a].do.child
  BY Zenon DEF Writes
<1>5. job' = [job EXCEPT ![a] = next]
  BY <1>4, Zenon DEF PutPartition
<1>6. /\ next.st # "idle" => next.snap = job[a].snap /\ job[a].st # "idle"
      /\ next.st = "parent" => next.do.child = i
  BY <1>4, JobFacts DEF Idle
<1>7. ASSUME NEW b \in Admins, job'[b].st # "idle", NEW j \in Ids, job'[b].snap[j] # Absent
      PROVE  records'[j] # Absent /\ \A c \in job'[b].snap[j].subs : records'[c] # Absent
  <2>1. job'[b].snap = job[b].snap /\ job[b].st # "idle"
    BY <1>5, <1>6, <1>7, Zenon DEF TypeInv, TypeOK, CatalogTypeOK
  <2>2. job[b].snap[j] \in Record
    BY <1>7, <2>1, JobFacts
  <2>3. records[j] # Absent /\ AllExist(job[b].snap[j].subs) /\ job[b].snap[j].subs \in SUBSET Ids
    BY <1>7, <2>1, <2>2, Zenon DEF LinkInv, Record, Ids
  <2> QED
    BY <1>3, <2>1, <2>3
<1>8. ASSUME NEW b \in Admins, job'[b].st = "parent" PROVE records'[job'[b].do.child] # Absent
  <2>1. CASE b = a
    BY <1>3, <1>5, <1>6, <1>8, <2>1 DEF TypeInv, TypeOK, CatalogTypeOK
  <2>2. CASE b # a
    <3>1. job'[b] = job[b] /\ job[b].st = "parent"
      BY <1>5, <1>8, <2>2, Zenon DEF TypeInv, TypeOK, CatalogTypeOK
    <3>2. job[b].do \in Commands /\ job[b].do.cmd = "createChild"
      BY <3>1, JobFacts DEF TypeInv, JobShape
    <3>3. job[b].do.child \in Ids
      BY <3>2, CommandFacts, Zenon DEF Ids
    <3> QED
      BY <1>3, <3>1, <3>3, Zenon DEF LinkInv
  <2> QED
    BY <2>1, <2>2, Zenon
<1>9. ASSUME NEW m \in Members, member'[m].st = "fill" 
      PROVE  \A c \in member'[m].loaded.subs : records'[c] # Absent
  <2>1. member'[m] = member[m] /\ member[m].loaded \in Record
    BY <1>9, Zenon DEF TypeInv, TypeOK, FillShape, Member
  <2>2. member[m].loaded.subs \in SUBSET Ids /\ AllExist(member[m].loaded.subs)
    BY <1>9, <2>1, Zenon DEF LinkInv, Record, Ids
  <2> QED
    BY <1>3, <2>1, <2>2, Zenon
<1> QED
  BY <1>3, <1>7, <1>8, <1>9, Zenon DEF LinkInv, AllExist

\* A command's other steps keep LinkInv: a registry loaded now is the current
\* one.
LEMMA JobMoveLink ==
    ASSUME TypeInv, LinkInv, NEW a \in Admins,
           Abort(a) \/ InitConfig(a) \/ InitSchema(a)
           \/ \E c \in Commands, ok \in BOOLEAN : Load(a, c, ok),
           UNCHANGED <<entries, member, ghosts>>
    PROVE  LinkInv'
<1>1. records' = records
  BY Zenon DEF Abort, InitConfig, InitSchema, Load
<1> DEFINE Moved(next) ==
      /\ job' = [job EXCEPT ![a] = next] /\ next.st # "parent"
      /\ next.st # "idle" => \/ job[a].st # "idle" /\ next.snap = job[a].snap
                             \/ next.snap \in {records, NoRecords}
<1>2. PICK next : Moved(next)
  <2>1. ASSUME Abort(a) PROVE Moved(Idle)
    BY <2>1, Zenon DEF Abort, Idle
  <2>2. ASSUME InitConfig(a) \/ InitSchema(a)
        PROVE  \E st \in {"config", "schema"} : Moved([job[a] EXCEPT !.st = st])
    <3>1. job[a].st # "idle"
      BY <2>2, Zenon DEF InitConfig, InitSchema, Loaded
    <3>2. PICK st \in {"config", "schema"} : job' = [job EXCEPT ![a] = [job[a] EXCEPT !.st = st]]
      BY <2>2, Zenon DEF InitConfig, InitSchema
    <3>3. /\ [job[a] EXCEPT !.st = st].st = st
          /\ [job[a] EXCEPT !.st = st].snap = job[a].snap
      BY <3>1, JobFacts, Zenon
    <3>4. Moved([job[a] EXCEPT !.st = st])
      BY <3>1, <3>2, <3>3, Zenon
    <3> QED
      BY Zenon, <3>4
  <2>3. ASSUME NEW c \in Commands, NEW ok \in BOOLEAN, Load(a, c, ok)
        PROVE  Moved([st |-> "loaded", do |-> c, snap |-> IF ok THEN records ELSE NoRecords])
    BY <2>3 DEF Load
  <2> HIDE DEF Moved
  <2> QED
    BY Zenon, <2>1, <2>2, <2>3
<1>3. ASSUME NEW b \in Admins, job'[b].st # "idle", NEW j \in Ids, job'[b].snap[j] # Absent
      PROVE  records[j] # Absent /\ AllExist(job'[b].snap[j].subs)
  <2>1. job'[b] = IF b = a THEN next ELSE job[b]
    BY <1>2, Zenon DEF TypeInv, TypeOK, CatalogTypeOK
  <2>2. CASE job[b].st # "idle" /\ job'[b].snap = job[b].snap
    BY <1>3, <2>2 DEF LinkInv
  <2>3. CASE job'[b].snap \in {records, NoRecords}
    BY <1>3, <2>3, Zenon DEF LinkInv, SubordinatesExist, AllExist, NoRecords
  <2> QED
    BY <1>2, <1>3, <2>1, <2>2, <2>3, Zenon
<1>4. ASSUME NEW b \in Admins, job'[b].st = "parent" PROVE records[job'[b].do.child] # Absent
  BY <1>2, <1>4 DEF LinkInv, TypeInv, TypeOK, CatalogTypeOK
<1> QED
  BY <1>1, <1>3, <1>4 DEF LinkInv, SubordinatesExist, AllExist

\* A member's put of the root record keeps LinkInv.
LEMMA RootPutLink ==
    ASSUME TypeInv, LinkInv, NEW p \in Record, AllExist(p.subs),
           records' = [records EXCEPT ![Root] = p], UNCHANGED job,
           \A m \in Members : member'[m].st = "fill" => member'[m] = member[m]
    PROVE  LinkInv'
<1>1. /\ \A j \in Ids : records[j] # Absent => records'[j] # Absent
      /\ \A ids \in SUBSET Ids : AllExist(ids) => \A c \in ids : records'[c] # Absent
      /\ SubordinatesExist'
  BY ZenonT(40), PutGrows DEF Ids
<1>2. ASSUME NEW b \in Admins, job[b].st # "idle", NEW j \in Ids, job[b].snap[j] # Absent
      PROVE  records'[j] # Absent /\ \A c \in job[b].snap[j].subs : records'[c] # Absent
  <2>1. job[b].snap[j] \in Record
    BY <1>2, JobFacts
  <2>2. records[j] # Absent /\ AllExist(job[b].snap[j].subs) /\ job[b].snap[j].subs \in SUBSET Ids
    BY <1>2, <2>1 DEF LinkInv, Record, Ids
  <2> QED
    BY <1>1, <2>2, Zenon
<1>3. ASSUME NEW b \in Admins, job[b].st = "parent" PROVE records'[job[b].do.child] # Absent
  <2>1. job[b].do \in Commands /\ job[b].do.cmd = "createChild"
    BY <1>3, JobFacts, Zenon DEF TypeInv, JobShape
  <2>2. job[b].do.child \in Ids
    BY <2>1, CommandFacts, Zenon DEF Ids
  <2> QED
    BY <1>1, <1>3, <2>2, Zenon DEF LinkInv
<1>4. ASSUME NEW m \in Members, member'[m].st = "fill"
      PROVE  \A c \in member'[m].loaded.subs : records'[c] # Absent
  <2>1. member'[m] = member[m] /\ member[m].loaded \in Record
    BY <1>4, Zenon DEF TypeInv, TypeOK, FillShape, Member
  <2>2. member[m].loaded.subs \in SUBSET Ids /\ AllExist(member[m].loaded.subs)
    BY <1>4, <2>1, Zenon DEF LinkInv, Record, Ids
  <2> QED
    BY <1>1, <2>1, <2>2
<1> QED
  BY <1>1, <1>2, <1>3, <1>4 DEF LinkInv, AllExist

\* A member's step keeps LinkInv.
LEMMA MemberLink ==
    ASSUME TypeInv, LinkInv, NEW m \in Members, Provision(m) \/ Crash(m)
    PROVE  LinkInv'
<1>1. member \in [Members -> Member]
  BY Zenon DEF TypeInv, TypeOK
<1>2. ASSUME records' = records, job' = job,
             \A n \in Members : member'[n].st = "fill" =>
                 member'[n] = member[n] \/ AllExist(member'[n].loaded.subs)
      PROVE  LinkInv'
  BY <1>2 DEF LinkInv, SubordinatesExist, AllExist
<1>3. \A st : Goto(m, st) /\ st # "fill" =>
         \A n \in Members : member'[n].st = "fill" => member'[n] = member[n]
  BY SMTT(30), <1>1 DEF Goto, Member
<1>4. CASE CreateConfig(m) \/ CreateSchema(m)
  BY <1>2, <1>3, <1>4, Zenon DEF CreateConfig, CreateSchema
<1>5. CASE CreateRoot(m)
  <2>1. PICK p \in Record : /\ records' = [records EXCEPT ![Root] = p]
                            /\ records[Root] # Absent => p = records[Root]
                            /\ records[Root] = Absent => p.subs = {}
    BY <1>5, CreateRootFacts, Zenon
  <2>2. AllExist(p.subs)
    BY <2>1, Zenon DEF LinkInv, SubordinatesExist, AllExist, Ids
  <2>3. UNCHANGED job /\ Goto(m, "load")
    BY <1>5, Zenon DEF CreateRoot
  <2>4. \A n \in Members : member'[n].st = "fill" => member'[n] = member[n]
    BY <1>3, <2>3
  <2> QED
    BY ZenonT(40), <2>1, <2>2, <2>3, <2>4, RootPutLink
<1>6. CASE LoadRecord(m)
  <2>1. PICK x \in Member :
             /\ member' = [member EXCEPT ![m] = x]
             /\ x.st = "fill" => records[Root] # Absent /\ x.loaded = records[Root]
    BY <1>6, LoadFacts DEF NotStarted
  <2>2. x.st = "fill" => AllExist(x.loaded.subs)
    BY <2>1, Zenon DEF LinkInv, SubordinatesExist, AllExist, Ids
  <2> QED
    BY <1>1, <1>2, <1>6, <2>1, <2>2, Zenon DEF LoadRecord
<1>7. CASE Fill(m)
  <2>1. PICK p \in Record, s \in Sids :
             /\ records' = [records EXCEPT ![Root] = p] /\ p.subs = member[m].loaded.subs
             /\ member' = [member EXCEPT ![m] = [st |-> "base", own |-> s, loaded |-> Absent]]
    BY <1>7, FillFacts
  <2>2. AllExist(p.subs)
    BY <1>7, <2>1, Zenon DEF Fill, LinkInv
  <2>3. UNCHANGED job /\ \A n \in Members : member'[n].st = "fill" => member'[n] = member[n]
    BY <1>1, <1>7, <2>1 DEF Fill
  <2> QED
    BY Zenon, <2>1, <2>2, <2>3, RootPutLink
<1>8. CASE CreateBase(m) \/ LookupKrbtgt(m) \/ CreateKrbtgt(m) \/ LookupAdmin(m) \/ CreateAdmin(m)
  BY <1>2, <1>3, <1>8, EntrySteps, Zenon DEF catalog
<1>9. CASE Crash(m)
  BY <1>1, <1>2, <1>9, Zenon DEF Crash, NotStarted
<1> QED
  BY <1>4, <1>5, <1>6, <1>7, <1>8, <1>9 DEF Provision

\* Nothing is linked, held or written before it exists.
LEMMA LinkInvariant == Spec => [](TypeInv /\ LinkInv)
<1>1. Init => TypeInv /\ LinkInv
  <2> SUFFICES ASSUME Init PROVE LinkInv
    BY TypeInit, Zenon
  <2>1. /\ \A a \in Admins : job[a].st = "idle"
        /\ \A m \in Members : member[m].st = "config"
    BY Zenon DEF Init, Idle, NotStarted
  <2>2. SubordinatesExist
    BY DEF Init, SubordinatesExist, NoRecords, Domain, Ids
  <2> QED
    BY <2>1, <2>2, Zenon DEF LinkInv
<1>2. TypeInv /\ LinkInv /\ [Next]_vars => (TypeInv /\ LinkInv)'
  <2> SUFFICES ASSUME TypeInv, LinkInv, [Next]_vars PROVE LinkInv'
    BY TypeStep, Zenon
  <2>1. CASE UNCHANGED vars
    BY <2>1 DEF vars, catalog, LinkInv, SubordinatesExist, AllExist
  <2>2. ASSUME NEW a \in Admins, Administer(a) PROVE LinkInv'
    <3>1. Command(a) /\ UNCHANGED <<entries, member, ghosts>>
      BY <2>2, Zenon DEF Administer
    <3>2. CASE SetUrl(a) \/ SetDomainSid(a) \/ AddSubordinate(a) \/ CreateChild(a)
               \/ LinkParent(a) \/ InitRoot(a)
      BY <3>1, <3>2, CommandPuts, WritesLink, Zenon
    <3>3. CASE Abort(a) \/ InitConfig(a) \/ InitSchema(a)
               \/ \E c \in Commands, ok \in BOOLEAN : Load(a, c, ok)
      BY <3>1, <3>3, JobMoveLink
    <3> QED
      BY <3>1, <3>2, <3>3, Zenon DEF Command
  <2>3. ASSUME NEW m \in Members, Provision(m) \/ Crash(m) PROVE LinkInv'
    BY <2>3, MemberLink, Zenon
  <2> QED
    BY <2>1, <2>2, <2>3, Zenon DEF Next
<1> QED
  BY <1>1, <1>2, PTL DEF Spec

\* However commands interleave and wherever they stop, a record lists only
\* child domains whose own record was written first.
THEOREM SubordinatesExistThm == Spec => []SubordinatesExist
<1>1. TypeInv /\ LinkInv => SubordinatesExist
  BY DEF LinkInv
<1> QED
  BY <1>1, LinkInvariant, PTL

-----------------------------------------------------------------------------
(* The root's record comes last.                                            *)

Full == {"config", "schema"}

\* RootLast in inductive form: what has been written by the time a member or
\* an init-forest reaches each of its steps.
NamingInv ==
    /\ RootLast
    /\ \A a \in Admins :
          /\ job[a].st = "config" => "config" \in naming
          /\ job[a].st = "schema" => naming = Full
          /\ job[a].st # "idle" /\ job[a].snap[Root] # Absent /\ (legacy => job[a].snap[Root].netbios)
                => naming = Full
    /\ \A m \in Members : /\ member[m].st = "schema" => "config" \in naming
                          /\ member[m].st \notin {"config", "schema"} => naming = Full

\* Every step keeps NamingInv.
LEMMA NamingStep ==
    ASSUME TypeInv, LinkInv, NamingInv, [Next]_vars
    PROVE  NamingInv'
<1> USE DEF Full
<1>1. /\ naming \subseteq Full /\ job \in [Admins -> Jobs] /\ member \in [Members -> Member]
      /\ records \in [Ids -> Record \cup {Absent}] /\ Root \in Ids
  BY Zenon DEF TypeInv, TypeOK, CatalogTypeOK, Registry, Ids
<1>2. CASE UNCHANGED vars
  BY <1>2 DEF vars, catalog, ghosts, NamingInv, RootLast
<1>3. ASSUME NEW a \in Admins, Administer(a) PROVE NamingInv'
  <2>1. Command(a) /\ UNCHANGED <<entries, member, ghosts>>
    BY <1>3 DEF Administer
  <2>2. CASE SetUrl(a) \/ SetDomainSid(a) \/ AddSubordinate(a) \/ CreateChild(a)
             \/ LinkParent(a) \/ InitRoot(a)
    <3>1. job[a].st # "idle"
      BY <2>2, CommandPuts, Zenon
    <3>2. PICK i, p : Writes(a, i, p)
      BY <2>2, CommandPuts, Zenon
    <3>3. naming' = naming /\ i \in Ids /\ records' = [records EXCEPT ![i] = p]
      BY <3>2, Zenon DEF Writes, PutPartition
    <3>4. i = Root /\ (legacy => p.netbios) => naming = Full
      <4>1. i = Root => \/ job[a].st = "schema"
                        \/ job[a].snap[Root] # Absent /\ p.netbios = job[a].snap[Root].netbios
        BY Zenon, <3>2 DEF Writes
      <4> QED
        BY <3>1, <4>1 DEF NamingInv
    <3>5. RootLast'
      BY <1>1, <2>1, <3>3, <3>4, Zenon DEF NamingInv, RootLast, ghosts
    <3>6. \A b \in Admins : \/ job'[b] = job[b] \/ job'[b].st = "idle"
                            \/ /\ job'[b].st = "parent" /\ job'[b].snap = job[b].snap
                               /\ job[b].st # "idle"
      BY <1>1, <3>1, <3>2, JobFacts DEF Writes, PutPartition, Idle
    <3> QED
      BY <2>1, <3>3, <3>5, <3>6 DEF NamingInv, ghosts
  <2>3. CASE Abort(a) \/ \E c \in Commands, ok \in BOOLEAN : Load(a, c, ok)
    <3>1. records' = records /\ naming' = naming
      BY <2>3, Zenon DEF Abort, Load
    <3>2. \A b \in Admins : \/ job'[b] = job[b] \/ job'[b].st = "idle"
                            \/ job'[b].st = "loaded" /\ job'[b].snap[Root] \in {records[Root], Absent}
      BY <1>1, <2>3 DEF Abort, Load, Idle, NoRecords
    <3> QED
      BY <2>1, <3>1, <3>2 DEF NamingInv, RootLast, ghosts
  <2>4. CASE InitConfig(a)
    <3>1. records' = records /\ naming' = naming \cup {"config"} /\ job[a].st # "idle"
      BY <2>4, Zenon DEF InitConfig, Loaded
    <3>2. \A b \in Admins : \/ job'[b] = job[b]
                            \/ /\ job'[b].st = "config" /\ job'[b].snap = job[b].snap
                               /\ job[b].st # "idle"
      BY <1>1, <2>4, <3>1, JobFacts DEF InitConfig
    <3> QED
      BY <1>1, <2>1, <3>1, <3>2 DEF NamingInv, RootLast, ghosts
  <2>5. CASE InitSchema(a)
    <3>1. records' = records /\ naming' = naming \cup {"schema"} /\ job[a].st = "config"
      BY <2>5, Zenon DEF InitSchema
    <3>2. naming' = Full
      BY Zenon, <1>1, <3>1 DEF NamingInv
    <3> QED
      BY <3>2, Zenon DEF NamingInv, RootLast
  <2> QED
    BY <2>1, <2>2, <2>3, <2>4, <2>5 DEF Command
<1>4. ASSUME NEW m \in Members, Provision(m) \/ Crash(m) PROVE NamingInv'
  <2>1. CASE CreateConfig(m)
    <3>1. \A n \in Members : member'[n] = member[n] \/ member'[n].st = "schema"
      BY <1>1, <2>1 DEF CreateConfig, Goto, Member
    <3> QED
      BY <1>1, <2>1, <3>1 DEF CreateConfig, NamingInv, RootLast, ghosts
  <2>2. CASE CreateSchema(m)
    <3>1. naming' = Full
      BY Zenon, <1>1, <2>2 DEF CreateSchema, NamingInv
    <3> QED
      BY <3>1, Zenon DEF NamingInv, RootLast
  <2>3. CASE member[m].st \notin {"config", "schema"} /\ naming' = naming /\ job' = job
    <3>1. naming' = Full
      BY <2>3, Zenon DEF NamingInv
    <3> QED
      BY <3>1, Zenon DEF NamingInv, RootLast
  <2>4. CASE Crash(m)
    <3>1. \A n \in Members : member'[n] = member[n] \/ member'[n].st = "config"
      BY <1>1, <2>4, Zenon DEF Crash, NotStarted
    <3> QED
      BY <2>4, <3>1 DEF Crash, NamingInv, RootLast, ghosts
  <2> QED
    BY <1>4, <2>1, <2>2, <2>3, <2>4, EntrySteps
    DEF Provision, CreateRoot, LoadRecord, Fill, catalog
<1> QED
  BY <1>2, <1>3, <1>4, Zenon DEF Next

\* Whoever finds the root's record finds the configuration's and the
\* schema's, whatever members and commands run, and wherever they stop; on a
\* store from before the schema record, once the root has been filled in.
THEOREM RootLastThm == Spec => []RootLast
<1>1. Init => NamingInv
  BY DEF Init, NamingInv, RootLast, NoRecords, Domain, Ids, Idle, NotStarted, Full
<1>2. TypeInv /\ LinkInv /\ NamingInv /\ [Next]_vars => NamingInv'
  BY NamingStep, Zenon
<1>3. NamingInv => RootLast
  BY Zenon DEF NamingInv
<1> QED
  BY <1>1, <1>2, <1>3, LinkInvariant, PTL DEF Spec

-----------------------------------------------------------------------------
(* One domain SID.                                                          *)

Late == {"base", "krbtgt", "krbtgtNew", "admin", "adminNew", "done"}

\* No put has replaced the root's SID, a command's or a member's.
Kept == ~rewritten /\ ~overrun

\* OneSid in inductive form, while no put has replaced the SID: a member past
\* the registry holds the SID of the stored record, and not only a member
\* that is done.
SidInv ==
    Kept =>
        /\ \A e \in Entries : entries[e] # Absent =>
              records[Root] # Absent /\ entries[e] = records[Root].sid
        /\ \A m \in Members : member[m].st \in Late =>
              /\ records[Root] # Absent /\ records[Root].sid # Absent
              /\ member[m].own = records[Root].sid

\* A put that is not a rewrite leaves the SID the record had.
LEMMA RootPutSid ==
    ASSUME NEW p, NEW copy, RootPut(p, copy), ~rewritten'
    PROVE  /\ ~rewritten
           /\ records[Root] # Absent /\ records[Root].sid # Absent => p.sid = records[Root].sid
BY Zenon DEF RootPut, ReplacesSid

\* A step that leaves the SID of the root's record, the entries and the
\* members past the registry alone keeps SidInv.
LEMMA SidKept ==
    ASSUME SidInv,
           Kept' => Kept,
           Kept' /\ records[Root] # Absent /\ records[Root].sid # Absent =>
               records'[Root] # Absent /\ records'[Root].sid = records[Root].sid,
           entries' = entries,
           \A m \in Members : member'[m].st \in Late => member'[m] = member[m]
    PROVE  SidInv'
BY DEF SidInv

\* Every step keeps SidInv.
LEMMA SidStep ==
    ASSUME TypeInv, SidInv, [Next]_vars
    PROVE  SidInv'
<1>1. /\ member \in [Members -> Member] /\ entries \in [Entries -> Sids \cup {Absent}]
      /\ records \in [Ids -> Record \cup {Absent}] /\ Root \in Ids
  BY SMTT(30) DEF TypeInv, TypeOK, CatalogTypeOK, Registry, Ids
<1>2. CASE UNCHANGED vars
  BY <1>2, Zenon DEF vars, catalog, ghosts, SidInv, Kept
<1>3. ASSUME NEW a \in Admins, Administer(a) PROVE SidInv'
  <2>1. Command(a) /\ UNCHANGED <<entries, member, ghosts>>
    BY <1>3, Zenon DEF Administer
  <2>2. CASE SetUrl(a) \/ SetDomainSid(a) \/ AddSubordinate(a) \/ CreateChild(a)
             \/ LinkParent(a) \/ InitRoot(a)
    <3>1. PICK i, p : Writes(a, i, p)
      BY <2>2, CommandPuts
    <3>2. /\ i \in Ids /\ p \in Record /\ records' = [records EXCEPT ![i] = p]
          /\ i = Root => RootPut(p, job[a].snap[Root])
          /\ i # Root => rewritten' = rewritten
      BY <3>1, Zenon DEF Writes, PutPartition
    <3>3. CASE i = Root
      <4>1. /\ ~rewritten' => ~rewritten
            /\ ~rewritten' /\ records[Root] # Absent /\ records[Root].sid # Absent =>
                   p.sid = records[Root].sid
        BY <3>2, <3>3, RootPutSid
      <4>2. records'[Root] = p /\ p # Absent
        BY <1>1, <3>2, <3>3, Zenon
      <4> QED
        BY <2>1, <4>1, <4>2, SidKept, Zenon DEF Kept, ghosts
    <3>4. CASE i # Root
      <4>1. records'[Root] = records[Root]
        BY <1>1, <3>2, <3>4, Zenon
      <4> QED
        BY <2>1, <3>2, <3>4, <4>1, SidKept DEF Kept, ghosts
    <3> QED
      BY SMTT(30), <3>3, <3>4
  <2>3. CASE Abort(a) \/ InitConfig(a) \/ InitSchema(a)
             \/ \E c \in Commands, ok \in BOOLEAN : Load(a, c, ok)
    <3>1. records' = records /\ rewritten' = rewritten
      BY <2>3, Zenon DEF Abort, InitConfig, InitSchema, Load
    <3> QED
      BY <2>1, <3>1, SidKept DEF Kept, ghosts
  <2> QED
    BY <2>1, <2>2, <2>3, Zenon DEF Command
<1>4. ASSUME NEW m \in Members, Provision(m) \/ Crash(m) PROVE SidInv'
  <2>1. CASE CreateConfig(m) \/ CreateSchema(m) \/ Crash(m)
    <3>1. records' = records /\ Kept' = Kept /\ entries' = entries
      BY <2>1 DEF CreateConfig, CreateSchema, Crash, Kept, ghosts
    <3>2. \A n \in Members : member'[n].st \in Late => member'[n] = member[n]
      BY <1>1, <2>1 DEF CreateConfig, CreateSchema, Crash, Goto, NotStarted, Member, Late
    <3> QED
      BY <3>1, <3>2, SidKept, Zenon
  <2>2. CASE CreateRoot(m)
    <3>1. PICK p \in Record : /\ records' = [records EXCEPT ![Root] = p]
                              /\ records[Root] # Absent => p = records[Root]
      BY <2>2, CreateRootFacts
    <3>2. Kept' = Kept /\ entries' = entries
      BY <2>2, Zenon DEF CreateRoot, Kept, ghosts
    <3>3. \A n \in Members : member'[n].st \in Late => member'[n] = member[n]
      BY <1>1, <2>2 DEF CreateRoot, Goto, Member, Late
    <3>4. records[Root] # Absent => records'[Root] = records[Root]
      BY <1>1, <3>1
    <3> QED
      BY <3>2, <3>3, <3>4, SidKept, Zenon
  <2>3. CASE LoadRecord(m)
    <3>1. PICK x \in Member :
             /\ member' = [member EXCEPT ![m] = x]
             /\ x.st \in Late => /\ records[Root] # Absent /\ records[Root].sid # Absent
                                 /\ x.own = records[Root].sid
      BY <2>3, LoadFacts DEF NotStarted, Late
    <3>2. records' = records /\ Kept' = Kept /\ entries' = entries
      BY <2>3, Zenon DEF LoadRecord, Kept, ghosts
    <3> QED
      BY <1>1, <3>1, <3>2 DEF SidInv
  <2>4. CASE Fill(m)
    <3>1. PICK p \in Record, s \in Sids :
             /\ records' = [records EXCEPT ![Root] = p]
             /\ records'[Root] = p /\ p # Absent /\ s # Absent
             /\ overrun' = (overrun \/ ReplacesSid(p))
             /\ minted' \in 0..MaxSids /\ p.sid = s /\ p.subs = member[m].loaded.subs
             /\ member[m].loaded.sid # Absent => s = member[m].loaded.sid
             /\ member' = [member EXCEPT ![m] = [st |-> "base", own |-> s, loaded |-> Absent]]
      BY Zenon, <2>4, FillFacts
    <3>2. entries' = entries /\ rewritten' = rewritten
      BY <2>4, Zenon DEF Fill
    <3>3. records'[Root] = p /\ p # Absent /\ s # Absent
      BY Zenon, <3>1
    <3>4. /\ Kept' => Kept
          /\ Kept' /\ records[Root] # Absent /\ records[Root].sid # Absent =>
                 p.sid = records[Root].sid
      BY Zenon, <3>1, <3>2 DEF Kept, ReplacesSid
    <3>5. \A n \in Members : IF n = m THEN member'[n].own = s ELSE member'[n] = member[n]
      BY <1>1, <3>1, Zenon
    <3> QED
      BY SMTT(30), <3>1, <3>2, <3>3, <3>4, <3>5 DEF SidInv
  <2>5. CASE CreateBase(m) \/ LookupKrbtgt(m) \/ CreateKrbtgt(m) \/ LookupAdmin(m) \/ CreateAdmin(m)
    <3>1. /\ records' = records /\ Kept' = Kept
          /\ member[m].st \in Late
      BY <2>5, EntrySteps DEF catalog, ghosts, Kept, Late
    <3>2. \A n \in Members : /\ member'[n].own = member[n].own
                             /\ member'[n].st \in Late => member[n].st \in Late
      BY <1>1, <2>5, <3>1, EntrySteps DEF Goto, Member
    <3>3. \A e \in Entries : entries'[e] = entries[e] \/ entries'[e] = member[m].own
      BY <1>1, <2>5, EntrySteps DEF CreateEntry, Create
    <3> QED
      BY SMTT(30), <3>1, <3>2, <3>3 DEF SidInv
  <2> QED
    BY <1>4, <2>1, <2>2, <2>3, <2>4, <2>5 DEF Provision
<1> QED
  BY <1>2, <1>3, <1>4, Zenon DEF Next

-----------------------------------------------------------------------------
(* A new store: no fill ever replaces a SID.                                *)

\* Why a member that fills in a new store's record never replaces its SID:
\* the record, and every copy of it, carries one, and the copy a member is
\* about to put back carries the stored one.
FreshInv ==
    ~legacy /\ ~rewritten =>
        /\ ~overrun
        /\ records[Root] # Absent => records[Root].sid # Absent
        /\ \A a \in Admins : job[a].st # "idle" /\ job[a].snap[Root] # Absent =>
              job[a].snap[Root].sid # Absent
        /\ \A m \in Members : member[m].st = "fill" =>
              records[Root] # Absent /\ member[m].loaded.sid = records[Root].sid

\* The jobs after a step still hold what they held, or what is stored now.
CopiesKept ==
    \A a \in Admins : job'[a].st # "idle" =>
        \/ job[a].st # "idle" /\ job'[a].snap = job[a].snap
        \/ job'[a].snap[Root] \in {records[Root], Absent}

\* A step that keeps the SID of the root's record, and the copies, keeps
\* FreshInv.
LEMMA FreshKept ==
    ASSUME FreshInv, UNCHANGED legacy, CopiesKept,
           ~rewritten' => ~rewritten,
           ~legacy /\ ~rewritten' => ~overrun',
           ~legacy /\ ~rewritten' /\ records'[Root] # Absent => records'[Root].sid # Absent,
           ~legacy /\ ~rewritten' /\ records[Root] # Absent =>
               records'[Root] # Absent /\ records'[Root].sid = records[Root].sid,
           \A m \in Members : member'[m].st = "fill" =>
               \/ member'[m] = member[m]
               \/ records[Root] # Absent /\ member'[m].loaded = records[Root]
    PROVE  FreshInv'
<1> SUFFICES ASSUME ~legacy, ~rewritten' PROVE FreshInv'
  BY Zenon DEF FreshInv
<1>1. /\ records[Root] # Absent => records[Root].sid # Absent
      /\ \A a \in Admins : job[a].st # "idle" /\ job[a].snap[Root] # Absent =>
            job[a].snap[Root].sid # Absent
      /\ \A m \in Members : member[m].st = "fill" =>
            records[Root] # Absent /\ member[m].loaded.sid = records[Root].sid
  BY Zenon DEF FreshInv
<1>2. \A a \in Admins : job'[a].st # "idle" /\ job'[a].snap[Root] # Absent =>
         job'[a].snap[Root].sid # Absent
  BY <1>1, Zenon DEF CopiesKept
<1>3. \A m \in Members : member'[m].st = "fill" =>
         records'[Root] # Absent /\ member'[m].loaded.sid = records'[Root].sid
  BY <1>1, Zenon
<1> QED
  BY Zenon, <1>2, <1>3 DEF FreshInv

\* Every step keeps FreshInv.
LEMMA FreshStep ==
    ASSUME TypeInv, FreshInv, [Next]_vars
    PROVE  FreshInv'
<1>1. /\ member \in [Members -> Member] /\ job \in [Admins -> Jobs]
      /\ records \in [Ids -> Record \cup {Absent}] /\ Root \in Ids
  BY DEF TypeInv, TypeOK, CatalogTypeOK, Registry, Ids
<1>2. CASE UNCHANGED vars
  BY <1>2, Zenon DEF vars, catalog, ghosts, FreshInv
<1>3. ASSUME NEW a \in Admins, Administer(a) PROVE FreshInv'
  <2>1. Command(a) /\ UNCHANGED <<member, legacy, overrun>>
    BY <1>3 DEF Administer, ghosts
  <2>2. CASE SetUrl(a) \/ SetDomainSid(a) \/ AddSubordinate(a) \/ CreateChild(a)
             \/ LinkParent(a) \/ InitRoot(a)
    <3>1. job[a].st # "idle"
      BY <2>2, CommandPuts
    <3>2. PICK i, p : Writes(a, i, p)
      BY <2>2, CommandPuts, Zenon
    <3>3. /\ i \in Ids /\ p \in Record /\ records' = [records EXCEPT ![i] = p]
          /\ i = Root => RootPut(p, job[a].snap[Root])
          /\ i # Root => rewritten' = rewritten
      BY <3>2, Zenon DEF Writes, PutPartition
    <3>4. CopiesKept
      BY <1>1, <3>1, <3>2, JobFacts DEF Writes, PutPartition, Idle, CopiesKept
    <3>5. /\ ~rewritten' => ~rewritten
          /\ i = Root /\ ~rewritten' /\ records[Root] # Absent /\ records[Root].sid # Absent =>
                 p.sid = records[Root].sid
      BY <3>3, RootPutSid
    <3>6. ASSUME ~legacy, ~rewritten', i = Root PROVE p.sid # Absent
      <4>1. p.sid \in Sids \/ (job[a].snap[i] # Absent /\ p.sid = job[a].snap[i].sid)
        BY Zenon, <3>2 DEF Writes
      <4>2. \A n \in Sids : n # Absent
        BY DEF Sids
      <4> QED
        BY <3>1, <3>5, <3>6, <4>1, <4>2 DEF FreshInv
    <3>7. records'[Root] = IF i = Root THEN p ELSE records[Root]
      BY <1>1, <3>3, Zenon
    <3>8. /\ ~legacy /\ ~rewritten' => ~overrun'
          /\ ~legacy /\ ~rewritten' /\ records'[Root] # Absent => records'[Root].sid # Absent
          /\ ~legacy /\ ~rewritten' /\ records[Root] # Absent =>
                 records'[Root] # Absent /\ records'[Root].sid = records[Root].sid
      BY <2>1, <3>3, <3>5, <3>6, <3>7 DEF FreshInv
    <3> QED
      BY Zenon, <2>1, <3>4, <3>5, <3>8, FreshKept
  <2>3. CASE Abort(a) \/ InitConfig(a) \/ InitSchema(a)
             \/ \E c \in Commands, ok \in BOOLEAN : Load(a, c, ok)
    <3>1. records' = records /\ rewritten' = rewritten
      BY <2>3, Zenon DEF Abort, InitConfig, InitSchema, Load
    <3>2. CASE Abort(a) \/ \E c \in Commands, ok \in BOOLEAN : Load(a, c, ok)
      <4>1. \A b \in Admins : b # a => job'[b] = job[b]
        BY <1>1, <3>2, Zenon DEF Abort, Load
      <4>2. job'[a].st # "idle" => job'[a].snap \in {records, NoRecords}
        BY <1>1, <3>2 DEF Abort, Load, Idle
      <4>3. NoRecords[Root] = Absent
        BY <1>1 DEF NoRecords
      <4>4. CopiesKept
        BY <4>1, <4>2, <4>3 DEF CopiesKept
      <4> QED
        BY <2>1, <3>1, <4>4, FreshKept DEF FreshInv
    <3>3. CASE InitConfig(a) \/ InitSchema(a)
      <4>1. job[a].st # "idle"
        BY <3>3 DEF InitConfig, InitSchema, Loaded
      <4>2. CopiesKept
        BY <1>1, <3>3, <4>1, JobFacts DEF InitConfig, InitSchema, CopiesKept
      <4> QED
        BY <2>1, <3>1, <4>2, FreshKept, Zenon DEF FreshInv
    <3> QED
      BY Zenon, <2>3, <3>2, <3>3
  <2> QED
    BY <2>1, <2>2, <2>3 DEF Command
<1>4. ASSUME NEW m \in Members, Provision(m) \/ Crash(m) PROVE FreshInv'
  <2>1. CASE CreateConfig(m) \/ CreateSchema(m) \/ Crash(m)
    <3>1. records' = records /\ rewritten' = rewritten /\ job' = job /\ UNCHANGED <<legacy, overrun>>
      BY <2>1, Zenon DEF CreateConfig, CreateSchema, Crash, ghosts
    <3>2. \A n \in Members : member'[n].st = "fill" => member'[n] = member[n]
      BY <1>1, <2>1 DEF CreateConfig, CreateSchema, Crash, Goto, NotStarted, Member
    <3> QED
      BY <3>1, <3>2, FreshKept DEF FreshInv, CopiesKept
  <2>2. CASE CreateRoot(m)
    <3>1. PICK p \in Record : /\ records' = [records EXCEPT ![Root] = p]
                              /\ records[Root] # Absent => p = records[Root]
                              /\ records[Root] = Absent => p.sid \in Sids
      BY <2>2, CreateRootFacts
    <3>2. rewritten' = rewritten /\ job' = job /\ UNCHANGED <<legacy, overrun>>
      BY <2>2 DEF CreateRoot, ghosts
    <3>3. \A n \in Members : member'[n].st = "fill" => member'[n] = member[n]
      BY <1>1, <2>2 DEF CreateRoot, Goto, Member
    <3>4. /\ records[Root] # Absent => records'[Root] = records[Root]
          /\ records[Root] = Absent => records'[Root].sid # Absent
      BY <1>1, <3>1 DEF Sids
    <3> QED
      BY <3>2, <3>3, <3>4, FreshKept, Zenon DEF FreshInv, CopiesKept
  <2>3. CASE LoadRecord(m)
    <3>1. PICK x \in Member :
             /\ member' = [member EXCEPT ![m] = x]
             /\ x.st = "fill" => records[Root] # Absent /\ x.loaded = records[Root]
      BY <2>3, LoadFacts DEF NotStarted
    <3>2. records' = records /\ rewritten' = rewritten /\ job' = job /\ UNCHANGED <<legacy, overrun>>
      BY <2>3, Zenon DEF LoadRecord, ghosts
    <3>3. \A n \in Members : member'[n].st = "fill" =>
             \/ member'[n] = member[n]
             \/ records[Root] # Absent /\ member'[n].loaded = records[Root]
      BY <1>1, <3>1
    <3> QED
      BY <3>2, <3>3, FreshKept, Zenon DEF FreshInv, CopiesKept
  <2>4. CASE Fill(m)
    <3>1. PICK p \in Record, s \in Sids :
             /\ records' = [records EXCEPT ![Root] = p]
             /\ records'[Root] = p /\ p # Absent /\ s # Absent
             /\ overrun' = (overrun \/ ReplacesSid(p))
             /\ minted' \in 0..MaxSids /\ p.sid = s /\ p.subs = member[m].loaded.subs
             /\ member[m].loaded.sid # Absent => s = member[m].loaded.sid
             /\ member' = [member EXCEPT ![m] = [st |-> "base", own |-> s, loaded |-> Absent]]
      BY Zenon, <2>4, FillFacts
    <3>2. rewritten' = rewritten /\ job' = job /\ UNCHANGED legacy /\ member[m].st = "fill"
      BY <2>4 DEF Fill
    <3>3. records'[Root] = p /\ p # Absent /\ s # Absent
      BY Zenon, <3>1
    <3>4. ~legacy /\ ~rewritten => /\ p.sid = records[Root].sid /\ records[Root] # Absent
                                   /\ ~overrun
      BY <3>1, <3>2, Zenon DEF FreshInv
    <3>5. ~legacy /\ ~rewritten' => ~overrun'
      BY Zenon, <3>1, <3>2, <3>4 DEF ReplacesSid
    <3>6. \A n \in Members : member'[n].st = "fill" => member'[n] = member[n]
      BY <1>1, <3>1, Zenon
    <3> QED
      BY <3>1, <3>2, <3>3, <3>4, <3>5, <3>6, FreshKept DEF CopiesKept
  <2>5. CASE CreateBase(m) \/ LookupKrbtgt(m) \/ CreateKrbtgt(m) \/ LookupAdmin(m) \/ CreateAdmin(m)
    <3>1. records' = records /\ rewritten' = rewritten /\ job' = job /\ UNCHANGED <<legacy, overrun>>
      BY <2>5, EntrySteps, Zenon DEF catalog, ghosts
    <3>2. \A n \in Members : member'[n].st = "fill" => member'[n] = member[n]
      BY <1>1, <2>5, EntrySteps DEF Goto, Member
    <3> QED
      BY <3>1, <3>2, FreshKept, Zenon DEF FreshInv, CopiesKept
  <2> QED
    BY <1>4, <2>1, <2>2, <2>3, <2>4, <2>5, Zenon DEF Provision
<1> QED
  BY <1>2, <1>3, <1>4, Zenon DEF Next

\* Any number of members, started together and restarted at will, write one
\* domain SID into a new store's record and into every entry, until a command
\* replaces it; on a store from before SIDs, until one member's fill replaces
\* the SID another's has written.
THEOREM OneSidThm == Spec => []OneSid
<1>1. Init => SidInv /\ FreshInv
  <2>1. Init => SidInv
    BY DEF Init, SidInv, NotStarted, Late
  <2>2. ASSUME Init PROVE FreshInv
    <3>1. ~legacy => records[Root] = Absent
      BY <2>2 DEF Init, NoRecords, Ids
    <3>2. /\ \A a \in Admins : job[a].st = "idle"
          /\ \A m \in Members : member[m].st # "fill"
      BY <2>2, Zenon DEF Init, Idle, NotStarted
    <3>3. ~overrun
      BY Zenon, <2>2 DEF Init
    <3> QED
      BY Zenon, <3>1, <3>2, <3>3 DEF FreshInv
  <2> QED
    BY <2>1, <2>2
<1>2. Init => TypeInv
  BY TypeInit, Zenon
<1>3. TypeInv /\ SidInv /\ FreshInv /\ [Next]_vars => TypeInv' /\ SidInv' /\ FreshInv'
  BY TypeStep, SidStep, FreshStep
<1>4. SidInv /\ FreshInv => OneSid
  <2> SUFFICES ASSUME SidInv, FreshInv, ~rewritten, legacy => ~overrun PROVE Agreed
    BY Zenon DEF OneSid
  <2>1. Kept
    BY Zenon DEF FreshInv, Kept
  <2> QED
    BY <2>1, Zenon DEF SidInv, Agreed, Late
<1> QED
  BY <1>1, <1>2, <1>3, <1>4, PTL DEF Spec
=============================================================================
