--------------------------- MODULE KerberosProofs ---------------------------
(***************************************************************************)
(* For any realms, users, services, trusts and lifetimes: types, and that  *)
(* a ticket goes back to a password and outlives it no longer than the     *)
(* clock readings allow.                                                   *)
(***************************************************************************)
EXTENDS Kerberos, TLAPS

USE KrbAssumption

-----------------------------------------------------------------------------
(* Types.                                                                   *)

\* The clock and the count of changes are numbers, and a ticket's times too.
LEMMA Clocks ==
    ASSUME KrbTypeOK
    PROVE  now \in Nat /\ edits \in Nat
<1>1. now \in 0..MaxTime /\ edits \in 0..MaxEdits
  BY Zenon DEF KrbTypeOK
<1> QED
  BY <1>1

LEMMA TicketTimes ==
    ASSUME NEW t \in Tickets
    PROVE  t.end \in Int /\ t.auth \in Nat /\ t.slack \in Nat
BY Zenon DEF Tickets

\* What lookup_by_index and keys return is an entry with keys.
LEMMA FoundFacts ==
    ASSUME KrbTypeOK, NEW r \in Realms, NEW p, Found(r, p)
    PROVE  p \in Principals /\ dit[r][p] \in Entries /\ KeyOf(r, p) \in Keys
BY DEF KrbTypeOK, Directories, Found, KeyOf, Entries

\* gather_context returns a PAC or none.
LEMMA PacFacts ==
    ASSUME NEW r, NEW p, NEW sid \in Nat
    PROVE  Pac(r, p, sid) \in Pacs \cup {NoPac}
<1> DEFINE member == p \in admins[r]
<1>1. member \in BOOLEAN
  OBVIOUS
<1>2. Pac(r, p, sid) = IF sid = 0 THEN NoPac ELSE [sid |-> sid, admin |-> member]
  BY DEF Pac
<1> HIDE DEF member
<1> QED
  BY <1>1, <1>2 DEF Pacs

\* A change of the directory keeps the types of what it changes.
LEMMA WriteType ==
    ASSUME KrbTypeOK, NEW d \in Directories, NEW a \in Groups, Write(d, a)
    PROVE  /\ dit' \in Directories /\ admins' \in Groups
           /\ edits' \in 0..MaxEdits
           /\ past' \in [0..MaxEdits -> [dit : Directories, admins : Groups]]
<1>1. dit' = d /\ admins' = a /\ edits' \in 0..MaxEdits
  BY DEF Write, KrbTypeOK
<1> DEFINE rec == [dit |-> d, admins |-> a]
<1>2. rec \in [dit : Directories, admins : Groups]
  OBVIOUS
<1>3. past' = [past EXCEPT ![edits + 1] = rec]
  BY DEF Write
<1> HIDE DEF rec
<1> QED
  BY Zenon, <1>1, <1>2, <1>3 DEF KrbTypeOK

\* A written entry leaves a directory of entries.
LEMMA EditType ==
    ASSUME KrbTypeOK, NEW r \in Realms, NEW p \in Principals,
           NEW e \in Entries \cup {Absent}, Edit(r, p, e)
    PROVE  /\ dit' \in Directories /\ admins' \in Groups
           /\ edits' \in 0..MaxEdits
           /\ past' \in [0..MaxEdits -> [dit : Directories, admins : Groups]]
<1> DEFINE d == [dit EXCEPT ![r][p] = e]
<1>1. d \in Directories
  BY DEF KrbTypeOK, Directories
<1>2. Write(d, admins) /\ admins \in Groups
  BY DEF Edit, KrbTypeOK
<1> HIDE DEF d
<1> QED
  BY <1>1, <1>2, WriteType

\* The values set_password and set_shared_key write are keys.
LEMMA KeyFacts ==
    /\ \A n \in Nat, s \in Passwords : PasswordKey(n, s) \in Keys
    /\ \A s \in Secrets : SharedKey(s) \in Keys
    /\ \A k \in Keys \cup {NoKey}, s \in Nat : Entry(k, s) \in Entries
    /\ \A e \in Entries, k \in Keys : Rekeyed(e, k) \in Entries
BY DEF PasswordKey, SharedKey, Keys, Entry, Rekeyed, Entries

\* What a request in progress has been given and has read.
LEMMA ReqFacts ==
    ASSUME KrbTypeOK, NEW req \in serving
    PROVE  /\ req \in Requests /\ req.realm \in Realms
           /\ req.kind = "as" =>
                /\ req.client \in Users /\ req.sname \in Realms \cup {ChangePw}
                /\ req.sid \in Nat /\ req.since \in Nat
                /\ req.st = "groups" => req.key \in Keys
                /\ req.st = "key" => req \in AsRequests({"key"}, {NoKey})
           /\ req.kind = "tgs" =>
                /\ req.tgt \in Tickets /\ req.sname \in Names \cup {ChangePw}
                /\ req.srealm \in Realms /\ req.sid \in Nat /\ req.since \in Nat
                /\ req.st \in {"client", "groups"} =>
                     /\ req.key \in Keys
                     /\ req \in TgsRequests({"client", "groups"}, Keys)
                /\ req.st = "key" => req \in TgsRequests({"key"}, {NoKey})
           /\ req.kind = "kpasswd" =>
                /\ req.ticket \in Tickets /\ req.target \in Users /\ req.at \in Nat
<1> req \in Requests
  BY DEF KrbTypeOK
<1>1. CASE req \in AsRequests({"key"}, {NoKey})
  BY <1>1 DEF AsRequests
<1>2. CASE req \in AsRequests({"groups"}, Keys)
  BY <1>2 DEF AsRequests
<1>3. CASE req \in TgsRequests({"key"}, {NoKey})
  BY <1>3 DEF TgsRequests
<1>4. CASE req \in TgsRequests({"client", "groups"}, Keys)
  BY <1>4 DEF TgsRequests
<1>5. CASE req \in [kind : {"kpasswd"}, realm : Realms, ticket : Tickets,
                    target : Users, at : Nat]
  BY <1>5
<1> QED
  BY Zenon, <1>1, <1>2, <1>3, <1>4, <1>5 DEF Requests

\* The request after a read: what it read is recorded in it.
LEMMA NextFacts ==
    ASSUME KrbTypeOK, NEW req \in serving, NEW key \in Keys, NEW sid \in Nat
    PROVE  /\ req.kind = "as" /\ req.st = "key" =>
                [req EXCEPT !.st = "groups", !.key = key] \in Requests
           /\ req.kind = "tgs" /\ req.st = "key" =>
                [req EXCEPT !.st = "client", !.key = key] \in Requests
           /\ req.kind = "tgs" /\ req.st = "client" =>
                [req EXCEPT !.st = "groups", !.sid = sid] \in Requests
<1>1. ASSUME req.kind = "as", req.st = "key"
      PROVE  [req EXCEPT !.st = "groups", !.key = key] \in AsRequests({"groups"}, Keys)
  <2>1. req \in AsRequests({"key"}, {NoKey})
    BY Zenon, <1>1, ReqFacts
  <2> QED
    BY Zenon, <2>1 DEF AsRequests
<1>2. ASSUME req.kind = "tgs", req.st = "key"
      PROVE  [req EXCEPT !.st = "client", !.key = key]
               \in TgsRequests({"client", "groups"}, Keys)
  <2>1. req \in TgsRequests({"key"}, {NoKey})
    BY Zenon, <1>2, ReqFacts
  <2> QED
    BY Zenon, <2>1 DEF TgsRequests
<1>3. ASSUME req.kind = "tgs", req.st = "client"
      PROVE  [req EXCEPT !.st = "groups", !.sid = sid]
               \in TgsRequests({"client", "groups"}, Keys)
  <2>1. req \in TgsRequests({"client", "groups"}, Keys)
    BY <1>3, ReqFacts
  <2> QED
    BY Zenon, <2>1 DEF TgsRequests
<1> QED
  BY Zenon, <1>1, <1>2, <1>3 DEF Requests

\* A new ticket, request or refusal keeps the types.
LEMMA ServeTypes ==
    ASSUME KrbTypeOK, NEW req
    PROVE  /\ req \in Requests /\ Begin(req) => KrbTypeOK'
           /\ \A next \in Requests : Advance(req, next) => KrbTypeOK'
           /\ \A t \in Tickets : Issue(req, t) => KrbTypeOK'
           /\ Refuse(req) => KrbTypeOK'
<1>1. ASSUME req \in Requests, Begin(req) PROVE KrbTypeOK'
  BY <1>1 DEF KrbTypeOK, Begin
<1>2. ASSUME NEW t \in Tickets, Issue(req, t) PROVE KrbTypeOK'
  BY <1>2 DEF KrbTypeOK, Issue, Done
<1>3. ASSUME Refuse(req) PROVE KrbTypeOK'
  BY Zenon, <1>3 DEF KrbTypeOK, Refuse, Done
<1>4. ASSUME NEW next \in Requests, Advance(req, next) PROVE KrbTypeOK'
  BY <1>4 DEF KrbTypeOK, Advance
<1> QED
  BY <1>1, <1>2, <1>3, <1>4

\* A derived ticket is a ticket.
LEMMA DerivedType ==
    ASSUME KrbTypeOK, NEW tgt \in Tickets,
           NEW sname \in Names \cup {ChangePw}, NEW realm \in Realms, NEW key \in Keys,
           NEW pac \in Pacs \cup {NoPac}, NEW drift \in 0..MaxDrift
    PROVE  Derived(tgt, sname, realm, key, pac, drift) \in Tickets
<1>1. TgsEnd(tgt, drift) \in Int /\ AuthTime(tgt) \in Nat
  <2>1. now \in Nat /\ tgt.end \in Int /\ tgt.auth \in Nat
    BY Zenon, Clocks, TicketTimes
  <2>2. Lifetime \in Nat /\ drift \in Nat
    OBVIOUS
  <2> HIDE KrbAssumption
  <2> QED
    BY <2>1, <2>2 DEF TgsEnd, Least, AuthTime
<1> QED
  BY <1>1 DEF Derived, Tickets

\* Every step of an administrator keeps the types.
LEMMA AdminTypes ==
    ASSUME KrbTypeOK, NEW r \in Realms
    PROVE  /\ \A n \in Users \cup {r} :
                HandleDelete(r, n) \/ (\E s \in Passwords : SetPassword(r, n, s)) => KrbTypeOK'
           /\ \A to, from \in Realms, s \in Secrets :
                SetCrossRealmKey(r, to, from, s) => KrbTypeOK'
           /\ \A u \in Users :
                HandleAdd(r, u) \/ HandleModifyMember(r, u) => KrbTypeOK'
<1>1. ASSUME NEW n \in Users \cup {r}, NEW s \in Passwords, SetPassword(r, n, s)
      PROVE  KrbTypeOK'
  <2> DEFINE p == <<n, r>>
             key == PasswordKey(edits + 1, s)
             e == IF Found(r, p) THEN Rekeyed(dit[r][p], key) ELSE Entry(key, 0)
  <2>1. p \in Principals /\ edits + 1 \in Nat
    BY DEF Principals, Names, KrbTypeOK
  <2>2. key \in Keys /\ Entry(key, 0) \in Entries
    BY Zenon, <2>1, KeyFacts
  <2>3. e \in Entries
    <3>1. CASE Found(r, p)
      BY Zenon, <3>1, <2>1, <2>2, FoundFacts, KeyFacts
    <3>2. CASE ~Found(r, p)
      BY <3>2, <2>2
    <3> QED
      BY <3>1, <3>2
  <2>4. Edit(r, p, e)
    BY <1>1 DEF SetPassword
  <2> HIDE DEF e
  <2> QED
    BY Zenon, <1>1, <2>1, <2>3, <2>4, EditType DEF SetPassword, KrbTypeOK
<1>2. ASSUME NEW to \in Realms, NEW from \in Realms, NEW s \in Secrets,
             SetCrossRealmKey(r, to, from, s)
      PROVE  KrbTypeOK'
  <2>1. <<to, from>> \in Principals
    BY DEF Principals, Names
  <2>2. Entry(SharedKey(s), 0) \in Entries
    BY KeyFacts
  <2>3. Edit(r, <<to, from>>, Entry(SharedKey(s), 0))
    BY <1>2 DEF SetCrossRealmKey
  <2>4. given' \in [Principals -> SUBSET Secrets]
    BY Zenon, <1>2, <2>1 DEF SetCrossRealmKey, KrbTypeOK
  <2> QED
    BY Zenon, <1>2, <2>1, <2>2, <2>3, <2>4, EditType DEF SetCrossRealmKey, KrbTypeOK
<1>3. ASSUME NEW n \in Users \cup {r}, HandleDelete(r, n) PROVE KrbTypeOK'
  <2>1. <<n, r>> \in Principals
    BY DEF Principals, Names
  <2>2. Edit(r, <<n, r>>, Absent) /\ Absent \in Entries \cup {Absent}
    BY <1>3 DEF HandleDelete
  <2> QED
    BY Zenon, <1>3, <2>1, <2>2, EditType DEF HandleDelete, KrbTypeOK
<1>4. ASSUME NEW u \in Users, HandleAdd(r, u) PROVE KrbTypeOK'
  <2>1. <<u, r>> \in Principals /\ edits + 3 \in Nat
    BY DEF Principals, Names, KrbTypeOK
  <2>2. Entry(NoKey, edits + 3) \in Entries
    BY Zenon, <2>1, KeyFacts
  <2>3. Edit(r, <<u, r>>, Entry(NoKey, edits + 3))
    BY <1>4 DEF HandleAdd
  <2> QED
    BY Zenon, <1>4, <2>1, <2>2, <2>3, EditType DEF HandleAdd, KrbTypeOK
<1>5. ASSUME NEW u \in Users, HandleModifyMember(r, u) PROVE KrbTypeOK'
  <2>1. <<u, r>> \in Principals
    BY DEF Principals, Names
  <2> DEFINE a == [admins EXCEPT ![r] = IF <<u, r>> \in @ THEN @ \ {<<u, r>>}
                                        ELSE @ \cup {<<u, r>>}]
  <2>2. a \in Groups /\ dit \in Directories
    BY Zenon, <2>1 DEF KrbTypeOK, Groups
  <2>3. Write(dit, a)
    BY Zenon, <1>5 DEF HandleModifyMember
  <2> HIDE DEF a
  <2> QED
    BY Zenon, <1>5, <2>2, <2>3, WriteType DEF HandleModifyMember, KrbTypeOK
<1> QED
  BY <1>1, <1>2, <1>3, <1>4, <1>5

\* Every step of a KDC keeps the types.
LEMMA VerifyTypes ==
    ASSUME KrbTypeOK, NEW r \in Realms
    PROVE  /\ \A u \in Users, s \in {r, ChangePw}, c \in Times :
                AsVerify(r, u, s, c) => KrbTypeOK'
           /\ \A t \in tickets, w \in Wanted, c \in Times :
                TgsVerify(r, t, w[1], w[2], c) => KrbTypeOK'
           /\ \A t \in tickets, u \in Users, c \in Times :
                VerifyApReq(r, t, u, c) => KrbTypeOK'
<1>1. ASSUME NEW u \in Users, NEW s \in {r, ChangePw}, NEW c \in Times,
             AsVerify(r, u, s, c)
      PROVE  KrbTypeOK'
  <2> DEFINE req == [kind |-> "as", st |-> "key", realm |-> r, client |-> u,
                     sname |-> s, sid |-> dit[r][<<u, r>>].sid, key |-> NoKey,
                     since |-> edits]
  <2>1. req \in Requests
    <3>1. dit[r][<<u, r>>].sid \in Nat
      BY <1>1, FoundFacts DEF AsVerify, Entries
    <3>2. req \in AsRequests({"key"}, {NoKey})
      BY <3>1 DEF AsRequests, KrbTypeOK
    <3> QED
      BY Zenon, <3>2 DEF Requests
  <2>2. Begin(req)
    BY <1>1 DEF AsVerify
  <2> HIDE DEF req
  <2> QED
    BY <2>1, <2>2, ServeTypes
<1>2. ASSUME NEW t \in tickets, NEW w \in Wanted, NEW c \in Times,
             TgsVerify(r, t, w[1], w[2], c)
      PROVE  KrbTypeOK'
  <2> DEFINE req == [kind |-> "tgs", st |-> "key", realm |-> r, tgt |-> t,
                     sname |-> w[1], srealm |-> w[2], sid |-> 0, key |-> NoKey,
                     since |-> edits]
  <2>0. req \in TgsRequests({"key"}, {NoKey})
    BY DEF TgsRequests, KrbTypeOK
  <2>1. req \in Requests
    BY Zenon, <2>0 DEF Requests
  <2>2. Begin(req)
    BY <1>2 DEF TgsVerify
  <2> HIDE DEF req
  <2> QED
    BY <2>1, <2>2, ServeTypes
<1>3. ASSUME NEW t \in tickets, NEW u \in Users, NEW c \in Times,
             VerifyApReq(r, t, u, c)
      PROVE  KrbTypeOK'
  <2> DEFINE req == [kind |-> "kpasswd", realm |-> r, ticket |-> t, target |-> u,
                     at |-> now]
  <2>1. req \in Requests
    BY DEF Requests, KrbTypeOK
  <2>2. Begin(req)
    BY <1>3 DEF VerifyApReq
  <2> HIDE DEF req
  <2> QED
    BY <2>1, <2>2, ServeTypes
<1> QED
  BY <1>1, <1>2, <1>3

\* The reads of an exchange keep the types.
LEMMA ReadTypes ==
    ASSUME KrbTypeOK, NEW req \in serving
    PROVE  AsKey(req) \/ TgsKey(req) \/ TgsClient(req) => KrbTypeOK'
<1> DEFINE r == req.realm
<1> r \in Realms
  BY ReqFacts
<1>1. ASSUME NEW next \in Requests, Advance(req, next) PROVE KrbTypeOK'
  BY Zenon, <1>1, ServeTypes
<1>2. ASSUME Refuse(req) PROVE KrbTypeOK'
  BY Zenon, <1>2, ServeTypes
<1>3. ASSUME AsKey(req) PROVE KrbTypeOK'
  <2> DEFINE tgs == <<r, r>>
             next == [req EXCEPT !.st = "groups", !.key = KeyOf(r, tgs)]
  <2>1. CASE Found(r, tgs)
    <3>1. Advance(req, next) /\ req.kind = "as" /\ req.st = "key"
      BY Zenon, <1>3, <2>1 DEF AsKey
    <3>2. KeyOf(r, tgs) \in Keys
      BY Zenon, <2>1, FoundFacts
    <3>3. next \in Requests
      BY Zenon, <3>1, <3>2, NextFacts
    <3> QED
      BY Zenon, <1>1, <3>1, <3>3
  <2>2. CASE ~Found(r, tgs)
    BY Zenon, <1>2, <1>3, <2>2 DEF AsKey
  <2> QED
    BY <2>1, <2>2
<1>4. ASSUME TgsKey(req) PROVE KrbTypeOK'
  <2> DEFINE sealer == Sealer(req.sname, req.srealm)
             next == [req EXCEPT !.st = "client", !.key = KeyOf(r, sealer)]
  <2>1. CASE Found(r, sealer)
    <3>1. Advance(req, next) /\ req.kind = "tgs" /\ req.st = "key"
      BY Zenon, <1>4, <2>1 DEF TgsKey
    <3>2. KeyOf(r, sealer) \in Keys
      BY Zenon, <2>1, FoundFacts
    <3>3. next \in Requests
      BY Zenon, <3>1, <3>2, NextFacts
    <3> QED
      BY Zenon, <1>1, <3>1, <3>3
  <2>2. CASE ~Found(r, sealer)
    BY Zenon, <1>2, <1>4, <2>2 DEF TgsKey
  <2> QED
    BY <2>1, <2>2
<1>5. ASSUME TgsClient(req) PROVE KrbTypeOK'
  <2> DEFINE p == <<req.tgt.client, req.tgt.crealm>>
             sid == IF Found(r, p) THEN dit[r][p].sid ELSE 0
             next == [req EXCEPT !.st = "groups", !.sid = sid]
  <2>1. Advance(req, next) /\ req.kind = "tgs" /\ req.st = "client"
    BY Zenon, <1>5 DEF TgsClient
  <2>2. sid \in Nat
    BY FoundFacts DEF Entries
  <2> HIDE DEF sid
  <2>0. req.key \in Keys
    BY Zenon, <2>1, ReqFacts
  <2>3. next \in Requests
    BY Zenon, <2>0, <2>1, <2>2, NextFacts
  <2> QED
    BY Zenon, <1>1, <2>1, <2>3
<1> QED
  BY Zenon, <1>3, <1>4, <1>5

\* The last step of an exchange keeps the types.
LEMMA KdcTypes ==
    ASSUME KrbTypeOK, NEW req \in serving
    PROVE  /\ \A d \in 0..MaxDrift : AsIssue(req, d) => KrbTypeOK'
           /\ \A d \in 0..MaxDrift : TgsRefer(req, d) => KrbTypeOK'
           /\ \A d \in 0..MaxDrift : TgsIssue(req, d) => KrbTypeOK'
           /\ \A secret \in Passwords : Change(req, secret) => KrbTypeOK'
<1> DEFINE r == req.realm
<1> req \in Requests /\ r \in Realms
  BY ReqFacts
<1>0. ASSUME NEW t \in Tickets, Issue(req, t) PROVE KrbTypeOK'
  BY Zenon, <1>0, ServeTypes
<1>1. ASSUME NEW d \in 0..MaxDrift, AsIssue(req, d) PROVE KrbTypeOK'
  <2> DEFINE pac == Pac(r, <<req.client, r>>, req.sid)
             t == [client |-> req.client, crealm |-> r, sname |-> req.sname,
                   realm |-> r, key |-> req.key, initial |-> TRUE,
                   auth |-> now, end |-> now + d + AsLife(req.sname),
                   pac |-> pac, slack |-> 0]
  <2>1. /\ req.client \in Users /\ req.sid \in Nat /\ req.key \in Keys
        /\ req.sname \in Names \cup {ChangePw}
    BY <1>1, ReqFacts DEF AsIssue, Names
  <2>2. pac \in Pacs \cup {NoPac}
    BY <2>1, PacFacts
  <2>3. now \in Nat /\ now + d + AsLife(req.sname) \in Int
    BY Clocks DEF AsLife
  <2>4. Issue(req, t)
    BY Zenon, <1>1 DEF AsIssue
  <2>5. t \in Tickets
    <3> HIDE DEF pac
    <3> QED
      BY <2>1, <2>2, <2>3 DEF Tickets
  <2> QED
    BY Zenon, <1>0, <2>4, <2>5
<1>2. ASSUME NEW d \in 0..MaxDrift, TgsRefer(req, d) PROVE KrbTypeOK'
  <2> DEFINE key == KeyOf(r, <<req.srealm, r>>)
             t == Derived(req.tgt, req.srealm, r, key, NoPac, d)
  <2>1. req.tgt \in Tickets /\ req.srealm \in Names \cup {ChangePw}
    BY <1>2, ReqFacts DEF TgsRefer, Names
  <2>2. key \in Keys
    BY Zenon, <1>2, FoundFacts DEF TgsRefer, Refers
  <2>3. Issue(req, t)
    BY Zenon, <1>2 DEF TgsRefer
  <2> HIDE DEF key
  <2>4. t \in Tickets
    BY Zenon, <2>1, <2>2, DerivedType
  <2> QED
    BY Zenon, <1>0, <2>3, <2>4
<1>3. ASSUME NEW d \in 0..MaxDrift, TgsIssue(req, d) PROVE KrbTypeOK'
  <2> DEFINE pac == Pac(r, <<req.tgt.client, req.tgt.crealm>>, req.sid)
             t == Derived(req.tgt, req.sname, req.srealm, req.key, pac, d)
  <2>1. /\ req.tgt \in Tickets /\ req.sname \in Names \cup {ChangePw}
        /\ req.srealm \in Realms /\ req.key \in Keys /\ req.sid \in Nat
    BY <1>3, ReqFacts DEF TgsIssue
  <2>2. pac \in Pacs \cup {NoPac}
    BY <2>1, PacFacts
  <2>3. Issue(req, t)
    BY Zenon, <1>3 DEF TgsIssue
  <2> HIDE DEF pac
  <2>4. t \in Tickets
    BY <2>1, <2>2, DerivedType
  <2> QED
    BY Zenon, <1>0, <2>3, <2>4
<1>4. ASSUME NEW secret \in Passwords, Change(req, secret) PROVE KrbTypeOK'
  <2> DEFINE p == <<req.target, r>>
             key == PasswordKey(edits + 1, secret)
             e == Rekeyed(dit[r][p], key)
             c == [ticket |-> req.ticket, target |-> req.target, realm |-> r,
                   at |-> req.at]
  <2>1. req.ticket \in Tickets /\ req.target \in Users /\ req.at \in Nat
    BY <1>4, ReqFacts DEF Change
  <2>2. p \in Principals /\ edits + 1 \in Nat
    BY <2>1, Clocks DEF Principals, Names
  <2>3. CASE MayChange(r, req.ticket, req.target) /\ dit[r][p] # Absent
    <3>1. /\ Edit(r, p, e) /\ Done(req)
          /\ changes' = changes \cup {c}
          /\ UNCHANGED <<now, tickets, given>>
      BY Zenon, <1>4, <2>3 DEF Change
    <3>2. e \in Entries
      <4>1. dit[r][p] \in Entries
        <5> HIDE DEF p
        <5> QED
          BY <2>2, <2>3 DEF KrbTypeOK, Directories
      <4> QED
        BY Zenon, <2>2, <4>1, KeyFacts
    <3> HIDE DEF e
    <3>4. /\ dit' \in Directories /\ admins' \in Groups
          /\ edits' \in 0..MaxEdits
          /\ past' \in [0..MaxEdits -> [dit : Directories, admins : Groups]]
      BY Zenon, <2>2, <3>1, <3>2, EditType
    <3>5. serving' \subseteq Requests
      BY <3>1 DEF KrbTypeOK, Done
    <3>6. c \in [ticket : Tickets, target : Users, realm : Realms, at : Nat]
      BY <2>1
    <3> HIDE DEF c
    <3> QED
      BY Zenon, <3>1, <3>4, <3>5, <3>6 DEF KrbTypeOK
  <2>4. CASE ~(MayChange(r, req.ticket, req.target) /\ dit[r][p] # Absent)
    BY Zenon, <1>4, <2>4, ServeTypes DEF Change
  <2> QED
    BY Zenon, <2>3, <2>4
<1> QED
  BY Zenon, <1>1, <1>2, <1>3, <1>4

\* Every step of the KDCs and the administrators keeps the types.
THEOREM KrbTypeCorrect == KrbSpec => []KrbTypeOK
<1>1. KrbInit => KrbTypeOK
  <2> SUFFICES ASSUME KrbInit PROVE KrbTypeOK
    OBVIOUS
  <2>1. /\ \A s \in Nat : Entry(PasswordKey(0, 0), s) \in Entries
        /\ Entry(SharedKey(0), 0) \in Entries
    BY KeyFacts
  <2>2. dit \in Directories
    BY <2>1 DEF KrbInit, AdminRid, Directories
  <2>3. given \in [Principals -> SUBSET Secrets]
    BY <2>1 DEF KrbInit
  <2>4. admins \in Groups
    BY DEF KrbInit, Groups
  <2>5. past \in [0..MaxEdits -> [dit : Directories, admins : Groups]]
    BY Zenon, <2>2, <2>4 DEF KrbInit
  <2>6. now \in 0..MaxTime /\ edits \in 0..MaxEdits
    BY DEF KrbInit
  <2>7. serving = {} /\ tickets = {} /\ changes = {}
    BY DEF KrbInit
  <2> QED
    BY Zenon, <2>2, <2>3, <2>4, <2>5, <2>6, <2>7 DEF KrbTypeOK
<1>2. KrbTypeOK /\ [KrbNext]_vars => KrbTypeOK'
  <2> SUFFICES ASSUME KrbTypeOK, [KrbNext]_vars PROVE KrbTypeOK'
    OBVIOUS
  <2>1. CASE UNCHANGED vars
    BY Zenon, <2>1 DEF vars, KrbTypeOK
  <2>2. CASE Tick
    <3>1. now' \in 0..MaxTime
      BY <2>2, Clocks DEF Tick
    <3> QED
      BY Zenon, <2>2, <3>1 DEF Tick, KrbTypeOK
  <2>3. CASE AdminStep
    BY Zenon, <2>3, AdminTypes DEF AdminStep
  <2>4. CASE KdcStep
    BY ZenonT(40), <2>4, VerifyTypes, ReadTypes, KdcTypes DEF KdcStep
  <2> QED
    BY <2>1, <2>2, <2>3, <2>4 DEF KrbNext
<1> QED
  BY <1>1, <1>2, PTL DEF KrbSpec

-----------------------------------------------------------------------------
(* The inductive invariants.                                                *)

\* An AS request in progress is for the realm's own TGS or for kadmin/changepw,
\* a TGS request rests on a ticket that was issued, a kpasswd request on a
\* kadmin/changepw ticket that had not expired when it was verified.
Pending ==
    \A req \in serving :
      /\ req.kind = "as" => req.sname \in {req.realm, ChangePw}
      /\ req.kind = "tgs" => req.tgt \in tickets /\ req.tgt.sname # ChangePw
      /\ req.kind = "kpasswd" => /\ req.ticket \in tickets
                                 /\ req.ticket.sname = ChangePw
                                 /\ req.at <= req.ticket.end

\* A ticket from an AS exchange lives as long as its service is allowed.
AsEnds ==
    \A t \in tickets :
      t.initial => t.end <= t.auth + AsLife(t.sname) + MaxDrift

\* A directory holds the accounts of its own realm only.
LocalAccounts ==
    \A r, q \in Realms, u \in Users : q # r => dit[r][<<u, q>>] = Absent

-----------------------------------------------------------------------------
(* What a step may add to the tickets.                                      *)

\* A KDC's step starts a request or finishes one.
LEMMA KdcCases ==
    ASSUME KdcStep
    PROVE  \/ \E req \in serving, d \in 0..MaxDrift :
                AsIssue(req, d) \/ TgsRefer(req, d) \/ TgsIssue(req, d)
           \/ \E req : Begin(req)
           \/ \E req \in serving : AsKey(req) \/ TgsKey(req) \/ TgsClient(req)
           \/ \E req \in serving, s \in Passwords : Change(req, s)
BY ZenonT(90) DEF KdcStep, AsVerify, TgsVerify, VerifyApReq

\* The steps of a request that change nothing but the request: its start and
\* its reads.
LEMMA ReadSteps ==
    ASSUME NEW req, Begin(req) \/ AsKey(req) \/ TgsKey(req) \/ TgsClient(req)
    PROVE  UNCHANGED <<now, dit, admins, tickets, edits, past, given, changes>>
BY Zenon DEF Begin, AsKey, TgsKey, TgsClient, Advance, Refuse

\* The steps that issue a ticket change only the tickets and the requests.
LEMMA IssueSteps ==
    ASSUME NEW req, NEW d, AsIssue(req, d) \/ TgsRefer(req, d) \/ TgsIssue(req, d)
    PROVE  /\ UNCHANGED <<now, dit, admins, edits, past, given, changes>>
           /\ Done(req)
BY Zenon DEF AsIssue, TgsRefer, TgsIssue, Issue

\* The steps that touch neither requests nor tickets nor password changes.
LEMMA AdminSteps ==
    ASSUME Tick \/ AdminStep
    PROVE  UNCHANGED <<serving, tickets, changes>>
<1>1. ASSUME NEW r, NEW n, NEW s, SetPassword(r, n, s)
      PROVE  UNCHANGED <<serving, tickets, changes>>
  BY Zenon, <1>1 DEF SetPassword
<1>2. ASSUME NEW r, NEW to, NEW from, NEW s, SetCrossRealmKey(r, to, from, s)
      PROVE  UNCHANGED <<serving, tickets, changes>>
  BY Zenon, <1>2 DEF SetCrossRealmKey
<1>3. ASSUME NEW r, NEW n, HandleDelete(r, n) \/ HandleAdd(r, n) \/ HandleModifyMember(r, n)
      PROVE  UNCHANGED <<serving, tickets, changes>>
  BY Zenon, <1>3 DEF HandleDelete, HandleAdd, HandleModifyMember
<1>4. CASE Tick
  BY Zenon, <1>4 DEF Tick
<1> QED
  BY Zenon, <1>1, <1>2, <1>3, <1>4 DEF AdminStep

\* What the AS exchange issues.
FromPassword(t) ==
    /\ t.initial /\ t.realm = t.crealm /\ t.auth = now /\ t.slack = 0
    /\ t.end <= now + AsLife(t.sname) + MaxDrift

\* What the TGS exchange issues on the strength of tgt.
FromTgt(t, tgt) ==
    /\ ~t.initial /\ t.client = tgt.client /\ t.crealm = tgt.crealm
    /\ t.auth = tgt.auth
    /\ t.end - t.slack <= tgt.end - tgt.slack

\* A derived ticket ends no later than the one it is derived from, but for the
\* clock's movement.
LEMMA DerivedFacts ==
    ASSUME KrbTypeOK, NEW tgt \in Tickets, NEW sname, NEW realm, NEW key, NEW pac,
           NEW drift \in 0..MaxDrift
    PROVE  FromTgt(Derived(tgt, sname, realm, key, pac, drift), tgt)
<1>0. /\ now \in Nat /\ drift \in Nat /\ tgt.end \in Int /\ tgt.slack \in Nat
      /\ Lifetime \in Nat
  BY Clocks, TicketTimes
<1>1. TgsEnd(tgt, drift) - (tgt.slack + drift) <= tgt.end - tgt.slack
  BY <1>0 DEF TgsEnd, Least
<1> QED
  BY <1>1 DEF Derived, FromTgt, AuthTime

\* A step issues no ticket, one for a password or one for a TGT.
LEMMA TicketStep ==
    ASSUME KrbTypeOK, Pending, [KrbNext]_vars
    PROVE  \/ tickets' = tickets
           \/ \E t \in Tickets : tickets' = tickets \cup {t} /\ FromPassword(t)
           \/ \E t \in Tickets, tgt \in tickets :
                /\ tickets' = tickets \cup {t} /\ FromTgt(t, tgt)
                /\ tgt.sname # ChangePw
<1>1. ASSUME NEW req \in serving, NEW d \in 0..MaxDrift, AsIssue(req, d)
      PROVE  \E t \in Tickets : tickets' = tickets \cup {t} /\ FromPassword(t)
  <2> DEFINE r == req.realm
             t == [client |-> req.client, crealm |-> r, sname |-> req.sname,
                   realm |-> r, key |-> req.key, initial |-> TRUE,
                   auth |-> now, end |-> now + d + AsLife(req.sname),
                   pac |-> Pac(r, <<req.client, r>>, req.sid), slack |-> 0]
  <2>1. KrbTypeOK'
    BY Zenon, <1>1, KdcTypes
  <2>2. tickets' = tickets \cup {t}
    BY Zenon, <1>1 DEF AsIssue, Issue
  <2>3. /\ t.initial /\ t.realm = t.crealm /\ t.auth = now /\ t.slack = 0
        /\ t.end = now + d + AsLife(t.sname)
    BY ZenonT(40)
  <2> HIDE DEF t
  <2>4. t \in Tickets
    BY Zenon, <2>1, <2>2 DEF KrbTypeOK
  <2>5. t.end <= now + AsLife(t.sname) + MaxDrift
    BY <2>3, Clocks DEF AsLife
  <2> QED
    BY Zenon, <2>2, <2>3, <2>4, <2>5 DEF FromPassword
<1>2. ASSUME NEW req \in serving, NEW d \in 0..MaxDrift,
             TgsRefer(req, d) \/ TgsIssue(req, d)
      PROVE  \E t \in Tickets, tgt \in tickets :
                /\ tickets' = tickets \cup {t} /\ FromTgt(t, tgt)
                /\ tgt.sname # ChangePw
  <2> DEFINE tgt == req.tgt
  <2>1. KrbTypeOK'
    BY Zenon, <1>2, KdcTypes
  <2>2. tgt \in tickets /\ tgt.sname # ChangePw
    BY Zenon, <1>2 DEF TgsRefer, TgsIssue, Pending
  <2>3. tgt \in Tickets
    BY Zenon, <2>2 DEF KrbTypeOK
  <2>4. \E sname, realm, key, pac :
          tickets' = tickets \cup {Derived(tgt, sname, realm, key, pac, d)}
    BY Zenon, <1>2 DEF TgsRefer, TgsIssue, Issue
  <2> HIDE DEF tgt
  <2>5. PICK t : tickets' = tickets \cup {t} /\ FromTgt(t, tgt)
    BY Zenon, <2>3, <2>4, DerivedFacts
  <2>6. t \in Tickets
    BY Zenon, <2>1, <2>5 DEF KrbTypeOK
  <2> QED
    BY Zenon, <2>2, <2>5, <2>6
<1>3. CASE UNCHANGED vars
  BY Zenon, <1>3 DEF vars
<1>4. CASE Tick \/ AdminStep
  BY Zenon, <1>4, AdminSteps
<1>5. CASE KdcStep
  <2>1. ASSUME NEW req, Begin(req) \/ AsKey(req) \/ TgsKey(req) \/ TgsClient(req)
        PROVE  tickets' = tickets
    BY Zenon, <2>1, ReadSteps
  <2>2. ASSUME NEW req, NEW s, Change(req, s) PROVE tickets' = tickets
    BY Zenon, <2>2 DEF Change, Refuse
  <2> QED
    BY Zenon, <1>1, <1>2, <1>5, <2>1, <2>2, KdcCases
<1> QED
  BY Zenon, <1>3, <1>4, <1>5 DEF KrbNext

\* Issued tickets are never withdrawn, and a ticket that is new came from the
\* password or from a TGT: AsEnds is kept.
LEMMA AsEndsStep ==
    ASSUME KrbTypeOK, Pending, AsEnds, [KrbNext]_vars
    PROVE  AsEnds'
<1>1. CASE tickets' = tickets
  BY <1>1 DEF AsEnds, AsLife
<1>2. CASE \E t \in Tickets : tickets' = tickets \cup {t} /\ FromPassword(t)
  BY <1>2 DEF AsEnds, AsLife, FromPassword
<1>3. CASE \E t \in Tickets, tgt \in tickets :
             tickets' = tickets \cup {t} /\ FromTgt(t, tgt)
  BY <1>3 DEF AsEnds, AsLife, FromTgt
<1> QED
  BY Zenon, <1>1, <1>2, <1>3, TicketStep

\* A chain of exchanges stays tied to the TGT it started from.
LEMMA DescendsStep ==
    ASSUME KrbTypeOK, Pending, Descends, [KrbNext]_vars
    PROVE  Descends'
<1> DEFINE Root(s, t) ==
             /\ s.initial
             /\ s.client = t.client /\ s.crealm = t.crealm /\ s.realm = s.crealm
             /\ s.auth = t.auth
             /\ s.sname = ChangePw => s = t
             /\ t.end <= s.end + t.slack
<1>0. (\A t \in tickets : \E s \in tickets : Root(s, t)) /\
      ((\A t \in tickets' : \E s \in tickets' : Root(s, t)) => Descends')
  BY DEF Descends
<1>1. CASE tickets' = tickets
  <2> HIDE DEF Root
  <2> QED
    BY <1>0, <1>1
<1>2. ASSUME NEW t \in Tickets, tickets' = tickets \cup {t}, FromPassword(t)
      PROVE  Descends'
  <2>1. Root(t, t)
    <3>1. t.end <= t.end + t.slack
      BY <1>2 DEF FromPassword, Tickets
    <3> QED
      BY <1>2, <3>1 DEF FromPassword
  <2> HIDE DEF Root
  <2> QED
    BY <1>0, <1>2, <2>1
<1>3. ASSUME NEW t \in Tickets, NEW tgt \in tickets, tickets' = tickets \cup {t},
             FromTgt(t, tgt), tgt.sname # ChangePw
      PROVE  Descends'
  <2>1. PICK s \in tickets : Root(s, tgt)
    BY <1>0
  <2>2. s.sname # ChangePw
    BY <1>3, <2>1
  <2>3. t.end <= s.end + t.slack
    <3>1. /\ tgt.end \in Int /\ s.end \in Int /\ t.end \in Int
          /\ tgt.slack \in Nat /\ t.slack \in Nat
      BY Zenon, TicketTimes DEF KrbTypeOK
    <3>2. tgt.end <= s.end + tgt.slack /\ t.end - t.slack <= tgt.end - tgt.slack
      BY <1>3, <2>1 DEF FromTgt
    <3> QED
      BY <3>1, <3>2
  <2>4. Root(s, t)
    BY <1>3, <2>1, <2>2, <2>3 DEF FromTgt
  <2> HIDE DEF Root
  <2> QED
    BY <1>0, <1>3, <2>4
<1> QED
  BY <1>1, <1>2, <1>3, TicketStep

\* The tickets a request in progress rests on stay issued.
LEMMA PendingStep ==
    ASSUME KrbTypeOK, Pending, [KrbNext]_vars
    PROVE  Pending'
<1> DEFINE Sound(req, T) ==
             /\ req.kind = "as" => req.sname \in {req.realm, ChangePw}
             /\ req.kind = "tgs" => req.tgt \in T /\ req.tgt.sname # ChangePw
             /\ req.kind = "kpasswd" => /\ req.ticket \in T
                                        /\ req.ticket.sname = ChangePw
                                        /\ req.at <= req.ticket.end
<1>0. /\ \A req \in serving : Sound(req, tickets)
      /\ (\A req \in serving' : Sound(req, tickets')) => Pending'
  BY DEF Pending
<1>1. tickets \subseteq tickets'
  BY TicketStep
<1>2. \A req \in serving : Sound(req, tickets')
  BY <1>0, <1>1
<1>3. CASE serving' \subseteq serving
  <2> HIDE DEF Sound
  <2> QED
    BY <1>0, <1>2, <1>3
<1>4. ASSUME NEW req, Done(req) PROVE Pending'
  BY <1>3, <1>4 DEF Done
<1>5. ASSUME NEW req, Begin(req), Sound(req, tickets) PROVE Pending'
  <2>1. tickets' = tickets /\ serving' = serving \cup {req}
    BY <1>5 DEF Begin
  <2> HIDE DEF Sound
  <2> QED
    BY <1>0, <1>5, <2>1
<1>9. ASSUME NEW req \in Requests, NEW st, NEW v, Sound(req, tickets)
      PROVE  /\ Sound([req EXCEPT !.st = st, !.key = v], tickets)
             /\ Sound([req EXCEPT !.st = st, !.sid = v], tickets)
  <2>1. ASSUME NEW q, q.kind = req.kind, q.realm = req.realm,
               req.kind = "as" => q.sname = req.sname,
               req.kind = "tgs" => q.tgt = req.tgt,
               req.kind = "kpasswd" => q.ticket = req.ticket /\ q.at = req.at
        PROVE  Sound(q, tickets)
    BY <1>9, <2>1
  <2> HIDE DEF Sound
  <2>2. Sound([req EXCEPT !.st = st, !.key = v], tickets)
    BY Zenon, <2>1 DEF Requests, AsRequests, TgsRequests
  <2>3. Sound([req EXCEPT !.st = st, !.sid = v], tickets)
    BY Zenon, <2>1 DEF Requests, AsRequests, TgsRequests
  <2> QED
    BY <2>2, <2>3
<1>6. CASE UNCHANGED vars
  BY <1>3, <1>6 DEF vars
<1>7. CASE Tick \/ AdminStep
  <2>1. serving' = serving
    BY Zenon, <1>7, AdminSteps
  <2> QED
    BY <1>3, <2>1
<1>8. CASE KdcStep
  <2>1. ASSUME NEW req \in serving, NEW d \in 0..MaxDrift,
               AsIssue(req, d) \/ TgsRefer(req, d) \/ TgsIssue(req, d)
        PROVE  Pending'
    <3>1. Done(req)
      BY Zenon, <2>1, IssueSteps
    <3> QED
      BY Zenon, <1>4, <3>1
  <2>2. ASSUME NEW req \in serving, NEW s \in Passwords, Change(req, s) PROVE Pending'
    <3>1. Done(req)
      BY Zenon, <2>2 DEF Change, Refuse
    <3> QED
      BY Zenon, <1>4, <3>1
  <2>6. ASSUME NEW req \in serving, AsKey(req) \/ TgsKey(req) \/ TgsClient(req)
        PROVE  Pending'
    <3>1. Done(req) \/ \E next : Advance(req, next) /\ Sound(next, tickets)
      <4>0. req \in Requests /\ Sound(req, tickets)
        BY Zenon, <1>0, ReqFacts
      <4> HIDE DEF Sound
      <4>1. CASE AsKey(req)
        <5> DEFINE tgs == <<req.realm, req.realm>>
                   next == [req EXCEPT !.st = "groups", !.key = KeyOf(req.realm, tgs)]
        <5>1. Refuse(req) \/ Advance(req, next)
          BY Zenon, <4>1 DEF AsKey
        <5>2. Sound(next, tickets)
          BY Zenon, <4>0, <1>9
        <5> QED
          BY Zenon, <5>1, <5>2 DEF Refuse
      <4>2. CASE TgsKey(req)
        <5> DEFINE sealer == Sealer(req.sname, req.srealm)
                   next == [req EXCEPT !.st = "client", !.key = KeyOf(req.realm, sealer)]
        <5>1. Refuse(req) \/ Advance(req, next)
          BY Zenon, <4>2 DEF TgsKey
        <5>2. Sound(next, tickets)
          BY Zenon, <4>0, <1>9
        <5> QED
          BY Zenon, <5>1, <5>2 DEF Refuse
      <4>3. CASE TgsClient(req)
        <5> DEFINE p == <<req.tgt.client, req.tgt.crealm>>
                   next == [req EXCEPT !.st = "groups",
                              !.sid = IF Found(req.realm, p) THEN dit[req.realm][p].sid ELSE 0]
        <5>1. Advance(req, next)
          BY Zenon, <4>3 DEF TgsClient
        <5>2. Sound(next, tickets)
          BY Zenon, <4>0, <1>9
        <5> QED
          BY Zenon, <5>1, <5>2
      <4> QED
        BY Zenon, <2>6, <4>1, <4>2, <4>3
    <3>2. tickets' = tickets
      BY Zenon, <2>6, ReadSteps
    <3>3. CASE Done(req)
      BY Zenon, <1>4, <3>3
    <3>4. ASSUME NEW next, Advance(req, next), Sound(next, tickets) PROVE Pending'
      <4> HIDE DEF Sound
      <4>1. serving' = (serving \ {req}) \cup {next}
        BY Zenon, <3>4 DEF Advance
      <4> QED
        BY Zenon, <1>0, <3>2, <3>4, <4>1
    <3> QED
      BY Zenon, <3>1, <3>3, <3>4
  <2>3. ASSUME NEW r \in Realms, NEW u \in Users, NEW s \in {r, ChangePw},
               NEW c \in Times, AsVerify(r, u, s, c)
        PROVE  Pending'
    <3> DEFINE req == [kind |-> "as", st |-> "key", realm |-> r, client |-> u,
                       sname |-> s, sid |-> dit[r][<<u, r>>].sid, key |-> NoKey,
                       since |-> edits]
    <3>1. Begin(req) /\ Sound(req, tickets)
      BY <2>3 DEF AsVerify
    <3> HIDE DEF req, Sound
    <3> QED
      BY Zenon, <1>5, <3>1
  <2>4. ASSUME NEW r \in Realms, NEW t \in tickets, NEW w \in Wanted,
               NEW c \in Times, TgsVerify(r, t, w[1], w[2], c)
        PROVE  Pending'
    <3> DEFINE req == [kind |-> "tgs", st |-> "key", realm |-> r, tgt |-> t,
                       sname |-> w[1], srealm |-> w[2], sid |-> 0, key |-> NoKey,
                       since |-> edits]
    <3>1. Begin(req) /\ Sound(req, tickets)
      BY <2>4 DEF TgsVerify, Found, Issuer, Principals
    <3> HIDE DEF req, Sound
    <3> QED
      BY Zenon, <1>5, <3>1
  <2>5. ASSUME NEW r \in Realms, NEW t \in tickets, NEW u \in Users,
               NEW c \in Times, VerifyApReq(r, t, u, c)
        PROVE  Pending'
    <3> DEFINE req == [kind |-> "kpasswd", realm |-> r, ticket |-> t, target |-> u,
                       at |-> now]
    <3>1. Begin(req) /\ Sound(req, tickets)
      BY <2>5 DEF VerifyApReq
    <3> HIDE DEF req, Sound
    <3> QED
      BY Zenon, <1>5, <3>1
  <2> QED
    BY ZenonT(40), <1>8, <2>1, <2>2, <2>3, <2>4, <2>5, <2>6 DEF KdcStep
<1> QED
  BY <1>6, <1>7, <1>8 DEF KrbNext

\* Pending and AsEnds hold throughout.
LEMMA PendingThm == KrbSpec => [](Pending /\ AsEnds)
<1>1. KrbInit => Pending /\ AsEnds
  BY Zenon DEF KrbInit, Pending, AsEnds
<1>2. KrbTypeOK /\ Pending /\ AsEnds /\ [KrbNext]_vars => (Pending /\ AsEnds)'
  BY PendingStep, AsEndsStep
<1> QED
  BY <1>1, <1>2, KrbTypeCorrect, PTL DEF KrbSpec

\* Every ticket goes back to a TGT obtained with the client's password, and no
\* chain of TGS exchanges and referrals stretches its life by more than the
\* clock readings of its hops (as_exchange.rs, tgs_exchange.rs).
THEOREM DescendsThm == KrbSpec => []Descends
<1>1. KrbInit => Descends
  BY DEF KrbInit, Descends
<1>2. KrbTypeOK /\ Pending /\ Descends /\ [KrbNext]_vars => Descends'
  BY DescendsStep
<1> QED
  BY <1>1, <1>2, KrbTypeCorrect, PendingThm, PTL DEF KrbSpec
=============================================================================
