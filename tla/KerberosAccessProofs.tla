------------------------ MODULE KerberosAccessProofs ------------------------
(***************************************************************************)
(* What tickets give access to, for the same constants as KerberosProofs:  *)
(* the own password is changed only with a fresh one, clients of another   *)
(* realm change none, a PAC tells what was so during the request, and a    *)
(* referral ticket opens where it is for.                                  *)
(***************************************************************************)
EXTENDS KerberosProofs

USE KrbAssumption

-----------------------------------------------------------------------------
(* Password changes.                                                        *)

\* What a step may add to the password changes.
LEMMA ChangeStep ==
    ASSUME KrbTypeOK, Pending, [KrbNext]_vars
    PROVE  \/ changes' = changes
           \/ \E r \in Realms, t \in tickets, target \in Users, at \in Nat :
                /\ changes' = changes \cup {[ticket |-> t, target |-> target,
                                             realm |-> r, at |-> at]}
                /\ MayChange(r, t, target)
                /\ t.sname = ChangePw /\ at <= t.end
<1>1. ASSUME NEW req \in serving, NEW s \in Passwords, Change(req, s), changes' # changes
      PROVE  \E r \in Realms, t \in tickets, target \in Users, at \in Nat :
                /\ changes' = changes \cup {[ticket |-> t, target |-> target,
                                             realm |-> r, at |-> at]}
                /\ MayChange(r, t, target)
                /\ t.sname = ChangePw /\ at <= t.end
  <2> DEFINE r == req.realm
  <2>0. r \in Realms
    BY ReqFacts
  <2>1. req.kind = "kpasswd"
    BY <1>1 DEF Change
  <2>2. req.target \in Users /\ req.at \in Nat
    BY <2>1, ReqFacts
  <2>3. req.ticket \in tickets /\ req.ticket.sname = ChangePw /\ req.at <= req.ticket.end
    BY <2>1 DEF Pending
  <2>4. /\ changes' = changes \cup {[ticket |-> req.ticket, target |-> req.target,
                                     realm |-> r, at |-> req.at]}
        /\ MayChange(r, req.ticket, req.target)
    BY Zenon, <1>1 DEF Change, Refuse
  <2> HIDE DEF r
  <2> QED
    BY <2>0, <2>2, <2>3, <2>4
<1>2. CASE UNCHANGED vars
  BY <1>2 DEF vars
<1>3. CASE Tick \/ AdminStep
  BY Zenon, <1>3, AdminSteps
<1>4. CASE KdcStep
  <2>1. ASSUME NEW req, NEW d, AsIssue(req, d) \/ TgsRefer(req, d) \/ TgsIssue(req, d)
        PROVE  changes' = changes
    BY Zenon, <2>1, IssueSteps
  <2>2. ASSUME NEW req, Begin(req) \/ AsKey(req) \/ TgsKey(req) \/ TgsClient(req)
        PROVE  changes' = changes
    BY Zenon, <2>2, ReadSteps
  <2> QED
    BY Zenon, <1>1, <1>4, <2>1, <2>2, KdcCases
<1> QED
  BY <1>2, <1>3, <1>4 DEF KrbNext

\* A user who changes the own password has typed the old one no longer ago
\* than a kadmin/changepw ticket lives (kpasswd.rs change).
THEOREM OwnPasswordFreshThm == KrbSpec => []OwnPasswordFresh
<1> DEFINE Fresh(c) == (c.target = c.ticket.client /\ c.realm = c.ticket.crealm)
                         => c.at <= c.ticket.auth + ChangePwLife + MaxDrift
<1>1. KrbInit => OwnPasswordFresh
  BY DEF KrbInit, OwnPasswordFresh
<1>2. ASSUME KrbTypeOK, Pending, AsEnds, OwnPasswordFresh, [KrbNext]_vars
      PROVE  OwnPasswordFresh'
  <2>0. /\ \A c \in changes : Fresh(c)
        /\ (\A c \in changes' : Fresh(c)) => OwnPasswordFresh'
    BY <1>2 DEF OwnPasswordFresh
  <2>1. CASE changes' = changes
    <3> HIDE DEF Fresh
    <3> QED
      BY <2>0, <2>1
  <2>2. ASSUME NEW r \in Realms, NEW t \in tickets, NEW target \in Users,
               NEW at \in Nat,
               changes' = changes \cup {[ticket |-> t, target |-> target,
                                         realm |-> r, at |-> at]},
               MayChange(r, t, target), t.sname = ChangePw, at <= t.end
        PROVE  OwnPasswordFresh'
    <3> DEFINE c == [ticket |-> t, target |-> target, realm |-> r, at |-> at]
    <3>1. t \in Tickets
      BY <1>2 DEF KrbTypeOK
    <3>2. (target = t.client /\ r = t.crealm) => t.initial
      BY <2>2 DEF MayChange
    <3>3. t.initial => t.end <= t.auth + ChangePwLife + MaxDrift
      BY <1>2, <2>2 DEF AsEnds, AsLife
    <3>4. Fresh(c)
      BY <2>2, <3>1, <3>2, <3>3 DEF Tickets
    <3> HIDE DEF Fresh, c
    <3> QED
      BY <2>0, <2>2, <3>4 DEF c
  <2> QED
    BY <1>2, <2>1, <2>2, ChangeStep
<1> QED
  BY <1>1, <1>2, KrbTypeCorrect, PendingThm, PTL DEF KrbSpec

\* What a change of one entry leaves alone, and what it writes.
LEMMA EditFacts ==
    ASSUME KrbTypeOK, NEW q \in Realms, NEW n \in Principals, NEW e, Edit(q, n, e)
    PROVE  /\ dit'[q][n] = e
           /\ \A r \in Realms, p \in Principals :
                r # q \/ p # n => dit'[r][p] = dit[r][p]
<1>1. dit' = [dit EXCEPT ![q][n] = e]
  BY Zenon DEF Edit, Write
<1> QED
  BY <1>1 DEF KrbTypeOK, Directories

\* Only iron-ldapd and kpasswd touch accounts, and both in their own realm.
LEMMA LocalStep ==
    ASSUME KrbTypeOK, LocalAccounts, [KrbNext]_vars
    PROVE  LocalAccounts'
<1>1. CASE dit' = dit
  BY <1>1 DEF LocalAccounts
<1>2. ASSUME NEW r \in Realms, NEW n \in Names, NEW e, Edit(r, <<n, r>>, e)
      PROVE  LocalAccounts'
  <2>1. \A p \in Realms, q \in Principals :
          dit'[p][q] # dit[p][q] => p = r /\ q = <<n, r>>
    BY <1>2, EditFacts DEF Principals
  <2> QED
    BY <2>1 DEF LocalAccounts, Principals, Names
<1>3. ASSUME NEW r \in Realms, NEW to \in Realms, NEW from \in Realms, NEW e,
             Edit(r, <<to, from>>, e)
      PROVE  LocalAccounts'
  <2>1. \A p \in Realms, q \in Principals :
          dit'[p][q] # dit[p][q] => q = <<to, from>>
    BY <1>3, EditFacts DEF Principals, Names
  <2> QED
    BY <2>1 DEF LocalAccounts, Principals, Names
<1>4. CASE UNCHANGED vars \/ Tick
  BY <1>1, <1>4 DEF vars, Tick
<1>5. CASE AdminStep
  <2>1. ASSUME NEW r \in Realms, NEW n \in Users \cup {r}, NEW s,
               SetPassword(r, n, s) \/ HandleDelete(r, n)
        PROVE  LocalAccounts'
    <3>1. n \in Names /\ \E e : Edit(r, <<n, r>>, e)
      BY Zenon, <2>1 DEF SetPassword, HandleDelete, Names
    <3> QED
      BY Zenon, <1>2, <3>1
  <2>2. ASSUME NEW r \in Realms, NEW to \in Realms, NEW from \in Realms,
               NEW s \in Secrets, SetCrossRealmKey(r, to, from, s)
        PROVE  LocalAccounts'
    BY <1>3, <2>2 DEF SetCrossRealmKey
  <2>3. ASSUME NEW r \in Realms, NEW u \in Users, HandleAdd(r, u)
        PROVE  LocalAccounts'
    BY <1>2, <2>3 DEF HandleAdd, Names
  <2>4. ASSUME NEW r \in Realms, NEW u \in Users, HandleModifyMember(r, u)
        PROVE  LocalAccounts'
    BY Zenon, <1>1, <2>4 DEF HandleModifyMember, Write
  <2> QED
    BY Zenon, <1>5, <2>1, <2>2, <2>3, <2>4 DEF AdminStep
<1>6. CASE KdcStep
  <2>1. ASSUME NEW req, NEW d, AsIssue(req, d) \/ TgsRefer(req, d) \/ TgsIssue(req, d)
        PROVE  dit' = dit
    BY Zenon, <2>1, IssueSteps
  <2>2. ASSUME NEW req, Begin(req) \/ AsKey(req) \/ TgsKey(req) \/ TgsClient(req)
        PROVE  dit' = dit
    BY Zenon, <2>2, ReadSteps
  <2>4. ASSUME NEW req \in serving, NEW s, Change(req, s) PROVE LocalAccounts'
    <3>1. req.realm \in Realms /\ req.target \in Names
      BY <2>4, ReqFacts DEF Change, Names
    <3>2. dit' = dit \/ \E e : Edit(req.realm, <<req.target, req.realm>>, e)
      BY Zenon, <2>4 DEF Change, Refuse
    <3> QED
      BY Zenon, <1>1, <1>2, <3>1, <3>2
  <2> QED
    BY Zenon, <1>1, <1>6, <2>1, <2>2, <2>4, KdcCases
<1> QED
  BY <1>4, <1>5, <1>6 DEF KrbNext

\* No password is changed by a client of another realm, however it reaches
\* this KDC (kpasswd.rs change, is_domain_admin).
THEOREM ForeignersThm == KrbSpec => []ForeignersChangeNothing
<1>1. KrbInit => LocalAccounts /\ ForeignersChangeNothing
  <2> SUFFICES ASSUME KrbInit PROVE LocalAccounts
    BY Zenon DEF KrbInit, ForeignersChangeNothing
  <2> SUFFICES ASSUME NEW r \in Realms, NEW q \in Realms, NEW u \in Users, q # r
               PROVE  dit[r][<<u, q>>] = Absent
    BY DEF LocalAccounts
  <2>1. <<u, q>> \in Principals /\ <<u, q>> \notin Trusts /\ u \notin Realms
    BY DEF Principals, Names
  <2> QED
    BY <2>1 DEF KrbInit
<1>2. ASSUME KrbTypeOK, Pending, LocalAccounts, ForeignersChangeNothing, [KrbNext]_vars
      PROVE  (LocalAccounts /\ ForeignersChangeNothing)'
  <2>1. LocalAccounts'
    BY <1>2, LocalStep
  <2>2. ASSUME NEW r \in Realms, NEW t \in tickets, NEW target \in Users,
               MayChange(r, t, target)
        PROVE  r = t.crealm
    <3>1. t.client \in Users /\ t.crealm \in Realms
      BY Zenon, <1>2 DEF KrbTypeOK, Tickets
    <3> QED
      BY <1>2, <2>2, <3>1 DEF MayChange, IsDomainAdmin, Requester, Found, LocalAccounts
  <2>3. ForeignersChangeNothing'
    <3>1. CASE changes' = changes
      BY <1>2, <3>1 DEF ForeignersChangeNothing
    <3>2. ASSUME NEW r \in Realms, NEW t \in tickets, NEW target \in Users,
                 NEW at \in Nat,
                 changes' = changes \cup {[ticket |-> t, target |-> target,
                                           realm |-> r, at |-> at]},
                 MayChange(r, t, target)
          PROVE  ForeignersChangeNothing'
      <4>1. r = t.crealm
        BY <2>2, <3>2
      <4> QED
        BY <1>2, <3>2, <4>1 DEF ForeignersChangeNothing
    <3> QED
      BY <1>2, <3>1, <3>2, ChangeStep
  <2> QED
    BY <2>1, <2>3
<1> QED
  BY <1>1, <1>2, KrbTypeCorrect, PendingThm, PTL DEF KrbSpec

-----------------------------------------------------------------------------
(* The PACs.                                                                *)

\* The principal a request is made for.
Owner(req) ==
    IF req.kind = "as" THEN <<req.client, req.realm>>
                       ELSE <<req.tgt.client, req.tgt.crealm>>

\* The objectSid a KDC holds is one the entry had in directory d.
HadSid(d, req) ==
    /\ d[req.realm][Owner(req)] # Absent
    /\ d[req.realm][Owner(req)].sid = req.sid

\* What a request has read, it read since it was taken.
ReadSince(req, P, n) ==
    req.kind \in {"as", "tgs"} =>
      /\ req.since \in 0..n
      /\ req.sid # 0 => \E i \in req.since..n : HadSid(P[i].dit, req)

\* The history ends in the present, and every request was served from it.
Recorded ==
    /\ past[edits].dit = dit /\ past[edits].admins = admins
    /\ \A req \in serving : ReadSince(req, past, edits)

\* A change of the directory lengthens the history and alters none of it.
LEMMA WriteHistory ==
    ASSUME KrbTypeOK, Recorded, NEW d, NEW a, Write(d, a)
    PROVE  /\ past'[edits'].dit = dit' /\ past'[edits'].admins = admins'
           /\ \A req \in serving : ReadSince(req, past', edits')
<1>1. /\ edits' = edits + 1 /\ edits + 1 \in 0..MaxEdits /\ edits \in Nat
      /\ dit' = d /\ admins' = a
  BY DEF Write, KrbTypeOK
<1> DEFINE rec == [dit |-> d, admins |-> a]
<1>2. rec.dit = d /\ rec.admins = a
  OBVIOUS
<1>3. past' = [past EXCEPT ![edits + 1] = rec]
  BY Zenon DEF Write
<1> HIDE DEF rec
<1>4. past'[edits + 1] = rec /\ \A i \in 0..edits : past'[i] = past[i]
  BY <1>1, <1>3 DEF KrbTypeOK
<1>5. ASSUME NEW req \in serving PROVE ReadSince(req, past', edits')
  <2> SUFFICES ASSUME req.kind \in {"as", "tgs"}
               PROVE  /\ req.since \in 0..edits'
                      /\ req.sid # 0 => \E i \in req.since..edits' : HadSid(past'[i].dit, req)
    BY Zenon DEF ReadSince
  <2>1. /\ req.since \in 0..edits
        /\ req.sid # 0 => \E i \in req.since..edits : HadSid(past[i].dit, req)
    BY Zenon DEF Recorded, ReadSince
  <2>2. /\ req.since \in 0..edits'
        /\ \A i \in req.since..edits : i \in req.since..edits' /\ i \in 0..edits
    BY <1>1, <2>1
  <2> QED
    BY Zenon, <1>4, <2>1, <2>2
<1> QED
  BY Zenon, <1>1, <1>2, <1>4, <1>5

\* A step that leaves the history alone keeps Recorded for the requests it keeps.
LEMMA QuietHistory ==
    ASSUME Recorded, UNCHANGED <<dit, admins, edits, past>>,
           \A req \in serving' : req \in serving \/ ReadSince(req, past, edits)
    PROVE  Recorded'
<1>1. \A req \in serving' : ReadSince(req, past, edits)
  BY Zenon DEF Recorded
<1>2. \A req \in serving' : ReadSince(req, past', edits')
  BY Zenon, <1>1
<1>3. past'[edits'].dit = dit' /\ past'[edits'].admins = admins'
  BY Zenon DEF Recorded
<1> QED
  BY Zenon, <1>2, <1>3 DEF Recorded, ReadSince, HadSid, Owner

\* A read of the client's entry finds what the history ends with.
LEMMA PresentSid ==
    ASSUME KrbTypeOK, Recorded, NEW req, req.since \in 0..edits,
           req.sid # 0 => HadSid(dit, req)
    PROVE  ReadSince(req, past, edits)
<1>1. edits \in req.since..edits /\ past[edits].dit = dit
  BY DEF Recorded, KrbTypeOK
<1> QED
  BY Zenon, <1>1 DEF ReadSince

\* A request that has the owner's data of another was served as it was.
LEMMA SameOwner ==
    ASSUME NEW req, NEW next, ReadSince(req, past, edits),
           next.kind = req.kind, next.realm = req.realm, next.sid = req.sid,
           next.since = req.since, Owner(next) = Owner(req)
    PROVE  ReadSince(next, past, edits)
BY Zenon DEF ReadSince, HadSid

\* The reads of the exchanges are of the present directory.
LEMMA ReadRecorded ==
    ASSUME KrbTypeOK, Recorded, NEW req \in serving,
           AsKey(req) \/ TgsKey(req) \/ TgsClient(req)
    PROVE  Recorded'
<1> DEFINE r == req.realm
<1>1. UNCHANGED <<dit, admins, edits, past>>
  BY Zenon, ReadSteps
<1>2. ASSUME NEW next, Advance(req, next), ReadSince(next, past, edits) PROVE Recorded'
  BY Zenon, <1>1, <1>2, QuietHistory DEF Advance
<1>3. ASSUME Refuse(req) PROVE Recorded'
  BY Zenon, <1>1, <1>3, QuietHistory DEF Refuse, Done
<1>4. req \in Requests /\ ReadSince(req, past, edits)
  BY Zenon, ReqFacts DEF Recorded
<1>5. CASE AsKey(req)
  <2> DEFINE next == [req EXCEPT !.st = "groups", !.key = KeyOf(r, <<r, r>>)]
  <2>1. Refuse(req) \/ Advance(req, next)
    BY Zenon, <1>5 DEF AsKey
  <2>2. ReadSince(next, past, edits)
    <3>1. req \in AsRequests({"key"}, {NoKey})
      BY Zenon, <1>5, ReqFacts DEF AsKey
    <3>2. /\ next.kind = "as" /\ req.kind = "as" /\ next.realm = r
          /\ next.client = req.client /\ next.sid = req.sid /\ next.since = req.since
      BY <3>1 DEF AsRequests
    <3> HIDE DEF next
    <3>3. Owner(next) = Owner(req)
      BY Zenon, <3>2 DEF Owner
    <3> QED
      BY Zenon, <1>4, <3>2, <3>3, SameOwner
  <2> QED
    BY Zenon, <1>2, <1>3, <2>1, <2>2
<1>6. CASE TgsKey(req)
  <2> DEFINE sealer == Sealer(req.sname, req.srealm)
             next == [req EXCEPT !.st = "client", !.key = KeyOf(r, sealer)]
  <2>1. Refuse(req) \/ Advance(req, next)
    BY Zenon, <1>6 DEF TgsKey
  <2>2. ReadSince(next, past, edits)
    <3>1. req \in TgsRequests({"key"}, {NoKey})
      BY Zenon, <1>6, ReqFacts DEF TgsKey
    <3>2. /\ next.kind = "tgs" /\ req.kind = "tgs" /\ next.realm = r
          /\ next.tgt = req.tgt /\ next.sid = req.sid /\ next.since = req.since
      BY <3>1 DEF TgsRequests
    <3> HIDE DEF next
    <3>3. Owner(next) = Owner(req)
      BY Zenon, <3>2 DEF Owner
    <3> QED
      BY Zenon, <1>4, <3>2, <3>3, SameOwner
  <2> QED
    BY Zenon, <1>2, <1>3, <2>1, <2>2
<1>7. CASE TgsClient(req)
  <2> DEFINE p == <<req.tgt.client, req.tgt.crealm>>
             sid == IF Found(r, p) THEN dit[r][p].sid ELSE 0
             next == [req EXCEPT !.st = "groups", !.sid = sid]
  <2>1. Advance(req, next) /\ req.kind = "tgs" /\ req.st = "client"
    BY Zenon, <1>7 DEF TgsClient
  <2>2. req \in TgsRequests({"client", "groups"}, Keys)
    BY Zenon, <2>1, ReqFacts
  <2>3. sid # 0 => dit[r][p] # Absent /\ dit[r][p].sid = sid
    BY Zenon DEF Found
  <2> HIDE DEF sid
  <2>4. /\ next.kind = "tgs" /\ next.realm = r /\ next.sid = sid
        /\ next.since = req.since /\ next.tgt = req.tgt
    BY <2>2 DEF TgsRequests
  <2> HIDE DEF next
  <2>5. Owner(next) = p
    BY Zenon, <2>4 DEF Owner
  <2>6. req.since \in 0..edits
    BY Zenon, <1>4, <2>1 DEF ReadSince
  <2>7. ReadSince(next, past, edits)
    BY Zenon, <2>3, <2>4, <2>5, <2>6, PresentSid DEF HadSid
  <2> QED
    BY Zenon, <1>2, <2>1, <2>7
<1> QED
  BY Zenon, <1>5, <1>6, <1>7

\* A request starts with what its KDC has just read, or with nothing.
LEMMA BeginRecorded ==
    ASSUME KrbTypeOK, Recorded, NEW r \in Realms
    PROVE  /\ \A u \in Users, s \in {r, ChangePw}, c \in Times :
                AsVerify(r, u, s, c) => Recorded'
           /\ \A t \in tickets, w \in Wanted, c \in Times :
                TgsVerify(r, t, w[1], w[2], c) => Recorded'
           /\ \A t \in tickets, u \in Users, c \in Times :
                VerifyApReq(r, t, u, c) => Recorded'
<1>0. edits \in 0..edits
  BY DEF KrbTypeOK
<1>1. ASSUME NEW req, Begin(req), ReadSince(req, past, edits) PROVE Recorded'
  BY Zenon, <1>1, QuietHistory DEF Begin
<1>2. ASSUME NEW u \in Users, NEW s \in {r, ChangePw}, NEW c \in Times, AsVerify(r, u, s, c)
      PROVE  Recorded'
  <2> DEFINE p == <<u, r>>
             req == [kind |-> "as", st |-> "key", realm |-> r, client |-> u,
                     sname |-> s, sid |-> dit[r][p].sid, key |-> NoKey,
                     since |-> edits]
  <2>1. Begin(req) /\ dit[r][p] # Absent
    BY Zenon, <1>2 DEF AsVerify, Found
  <2>2. /\ req.kind = "as" /\ req.realm = r /\ req.client = u
        /\ req.sid = dit[r][p].sid /\ req.since = edits
    OBVIOUS
  <2> HIDE DEF req
  <2>3. HadSid(dit, req)
    BY Zenon, <2>1, <2>2 DEF HadSid, Owner
  <2> QED
    BY Zenon, <1>0, <1>1, <2>1, <2>2, <2>3, PresentSid
<1>3. ASSUME NEW t \in tickets, NEW w \in Wanted, NEW c \in Times,
             TgsVerify(r, t, w[1], w[2], c)
      PROVE  Recorded'
  <2> DEFINE req == [kind |-> "tgs", st |-> "key", realm |-> r, tgt |-> t,
                     sname |-> w[1], srealm |-> w[2], sid |-> 0, key |-> NoKey,
                     since |-> edits]
  <2>1. Begin(req) /\ req.sid = 0 /\ req.since = edits
    BY Zenon, <1>3 DEF TgsVerify
  <2> HIDE DEF req
  <2> QED
    BY Zenon, <1>0, <1>1, <2>1, PresentSid
<1>4. ASSUME NEW t \in tickets, NEW u \in Users, NEW c \in Times, VerifyApReq(r, t, u, c)
      PROVE  Recorded'
  <2> DEFINE req == [kind |-> "kpasswd", realm |-> r, ticket |-> t, target |-> u,
                     at |-> now]
  <2>1. Begin(req) /\ req.kind \notin {"as", "tgs"}
    BY <1>4 DEF VerifyApReq
  <2> HIDE DEF req
  <2> QED
    BY Zenon, <1>1, <2>1 DEF ReadSince
<1> QED
  BY Zenon, <1>2, <1>3, <1>4

\* The history stays complete and the requests served from it.
LEMMA RecordedStep ==
    ASSUME KrbTypeOK, Recorded, [KrbNext]_vars
    PROVE  Recorded'
<1>1. ASSUME NEW d, NEW a, Write(d, a), serving' \subseteq serving PROVE Recorded'
  <2>1. /\ past'[edits'].dit = dit' /\ past'[edits'].admins = admins'
        /\ \A req \in serving : ReadSince(req, past', edits')
    BY Zenon, <1>1, WriteHistory
  <2> QED
    BY Zenon, <1>1, <2>1 DEF Recorded, ReadSince, HadSid, Owner
<1>2. ASSUME NEW r, NEW p, NEW e, Edit(r, p, e), serving' \subseteq serving PROVE Recorded'
  BY Zenon, <1>1, <1>2 DEF Edit
<1>3. ASSUME UNCHANGED <<dit, admins, edits, past>>, serving' \subseteq serving
      PROVE  Recorded'
  BY Zenon, <1>3, QuietHistory
<1>4. CASE UNCHANGED vars \/ Tick
  BY Zenon, <1>3, <1>4 DEF vars, Tick
<1>5. CASE AdminStep
  <2>0. serving' \subseteq serving
    BY Zenon, <1>5, AdminSteps
  <2>1. ASSUME NEW r, NEW n, NEW s, SetPassword(r, n, s) PROVE Recorded'
    BY Zenon, <1>2, <2>0, <2>1 DEF SetPassword
  <2>2. ASSUME NEW r, NEW to, NEW from, NEW s, SetCrossRealmKey(r, to, from, s)
        PROVE  Recorded'
    BY Zenon, <1>2, <2>0, <2>2 DEF SetCrossRealmKey
  <2>3. ASSUME NEW r, NEW n, HandleDelete(r, n) PROVE Recorded'
    BY Zenon, <1>2, <2>0, <2>3 DEF HandleDelete
  <2>4. ASSUME NEW r, NEW u, HandleAdd(r, u) PROVE Recorded'
    BY Zenon, <1>2, <2>0, <2>4 DEF HandleAdd
  <2>5. ASSUME NEW r, NEW u, HandleModifyMember(r, u) PROVE Recorded'
    BY Zenon, <1>1, <2>0, <2>5 DEF HandleModifyMember
  <2> QED
    BY Zenon, <1>5, <2>1, <2>2, <2>3, <2>4, <2>5 DEF AdminStep
<1>6. CASE KdcStep
  <2>1. ASSUME NEW req, NEW d, AsIssue(req, d) \/ TgsRefer(req, d) \/ TgsIssue(req, d)
        PROVE  Recorded'
    BY Zenon, <1>3, <2>1, IssueSteps DEF Done
  <2>2. ASSUME NEW req, NEW s, Change(req, s) PROVE Recorded'
    <3>1. serving' \subseteq serving
      BY Zenon, <2>2 DEF Change, Refuse, Done
    <3>2. CASE Refuse(req)
      BY Zenon, <1>3, <3>1, <3>2 DEF Refuse
    <3>3. CASE \E r, p, e : Edit(r, p, e)
      BY Zenon, <1>2, <3>1, <3>3
    <3> QED
      BY Zenon, <2>2, <3>2, <3>3 DEF Change
  <2> QED
    BY ZenonT(40), <1>6, <2>1, <2>2, BeginRecorded, ReadRecorded DEF KdcStep
<1> QED
  BY Zenon, <1>4, <1>5, <1>6 DEF KrbNext

\* The last step of an exchange puts the groups of now beside the objectSid
\* that was read, for the owner of the request.
LEMMA PacStep ==
    ASSUME KrbTypeOK, NEW req \in serving, NEW d \in 0..MaxDrift,
           AsIssue(req, d) \/ TgsRefer(req, d) \/ TgsIssue(req, d)
    PROVE  \E t : /\ tickets' = tickets \cup {t}
                  /\ t.pac # NoPac =>
                       /\ req.kind \in {"as", "tgs"} /\ req.sid # 0
                       /\ <<t.client, t.crealm>> = Owner(req)
                       /\ t.pac.sid = req.sid
                       /\ t.pac.admin = (Owner(req) \in admins[req.realm])
<1> DEFINE r == req.realm
           Shown(t) == t.pac # NoPac =>
                         /\ req.kind \in {"as", "tgs"} /\ req.sid # 0
                         /\ <<t.client, t.crealm>> = Owner(req)
                         /\ t.pac.sid = req.sid
                         /\ t.pac.admin = (Owner(req) \in admins[r])
<1>1. ASSUME NEW p, NEW t, p = Owner(req), t.pac = Pac(r, p, req.sid),
             <<t.client, t.crealm>> = p, req.kind \in {"as", "tgs"}
      PROVE  Shown(t)
  <2>1. CASE req.sid = 0
    BY Zenon, <1>1, <2>1 DEF Pac
  <2>2. CASE req.sid # 0
    <3> DEFINE member == p \in admins[r]
               pac == [sid |-> req.sid, admin |-> member]
    <3>1. t.pac = pac
      BY Zenon, <1>1, <2>2 DEF Pac
    <3>2. pac.sid = req.sid /\ pac.admin = member
      BY Zenon
    <3> HIDE DEF pac
    <3> QED
      BY Zenon, <1>1, <2>2, <3>1, <3>2
  <2> QED
    BY Zenon, <2>1, <2>2
<1>2. CASE AsIssue(req, d)
  <2> DEFINE p == <<req.client, r>>
             t == [client |-> req.client, crealm |-> r, sname |-> req.sname,
                   realm |-> r, key |-> req.key, initial |-> TRUE,
                   auth |-> now, end |-> now + d + AsLife(req.sname),
                   pac |-> Pac(r, p, req.sid), slack |-> 0]
  <2>1. tickets' = tickets \cup {t} /\ req.kind = "as"
    BY Zenon, <1>2 DEF AsIssue, Issue
  <2>2. t.client = req.client /\ t.crealm = r /\ t.pac = Pac(r, p, req.sid)
    BY Zenon
  <2>3. p = Owner(req)
    BY Zenon, <2>1 DEF Owner
  <2> HIDE DEF t
  <2>4. Shown(t)
    BY Zenon, <1>1, <2>1, <2>2, <2>3
  <2> QED
    BY Zenon, <2>1, <2>4
<1>3. CASE TgsRefer(req, d)
  <2> DEFINE t == Derived(req.tgt, req.srealm, r, KeyOf(r, <<req.srealm, r>>), NoPac, d)
  <2>1. tickets' = tickets \cup {t}
    BY Zenon, <1>3 DEF TgsRefer, Issue
  <2>2. t.pac = NoPac
    BY Zenon DEF Derived
  <2> HIDE DEF t
  <2> QED
    BY Zenon, <2>1, <2>2
<1>4. CASE TgsIssue(req, d)
  <2> DEFINE p == <<req.tgt.client, req.tgt.crealm>>
             t == Derived(req.tgt, req.sname, req.srealm, req.key, Pac(r, p, req.sid), d)
  <2>1. tickets' = tickets \cup {t} /\ req.kind = "tgs"
    BY Zenon, <1>4 DEF TgsIssue, Issue
  <2>2. /\ t.client = req.tgt.client /\ t.crealm = req.tgt.crealm
        /\ t.pac = Pac(r, p, req.sid)
    BY Zenon DEF Derived
  <2>3. p = Owner(req)
    BY <2>1 DEF Owner
  <2> HIDE DEF t
  <2>4. Shown(t)
    BY Zenon, <1>1, <2>1, <2>2, <2>3
  <2> QED
    BY Zenon, <2>1, <2>4
<1> QED
  BY Zenon, <1>2, <1>3, <1>4

\* Each part of a PAC is what the directory held at some moment since the KDC
\* took the request, not what it held when the client logged in
\* (tgs_exchange.rs, pac.rs gather_context).
THEOREM PacOfRequestThm == KrbSpec => PacOfRequest
<1> DEFINE Fits(req, p, pac) ==
             \E i, j \in req.since..edits :
               /\ past[i].dit[req.realm][p] # Absent
               /\ pac.sid = past[i].dit[req.realm][p].sid
               /\ pac.admin = (p \in past[j].admins[req.realm])
           Told == \A t \in tickets' \ tickets : t.pac # NoPac =>
                     \E req \in serving \ serving' : Fits(req, <<t.client, t.crealm>>, t.pac)
<1>1. KrbInit => Recorded
  <2> SUFFICES ASSUME KrbInit PROVE Recorded
    OBVIOUS
  <2> DEFINE rec == [dit |-> dit, admins |-> admins]
  <2>1. rec.dit = dit /\ rec.admins = admins
    OBVIOUS
  <2>2. past = [n \in 0..MaxEdits |-> rec] /\ edits = 0 /\ serving = {}
    BY Zenon DEF KrbInit
  <2> HIDE DEF rec
  <2>3. 0 \in 0..MaxEdits
    OBVIOUS
  <2>4. past[edits] = rec
    BY Zenon, <2>2, <2>3
  <2> QED
    BY Zenon, <2>1, <2>2, <2>4 DEF Recorded
<1>2. ASSUME KrbTypeOK, Recorded, [KrbNext]_vars PROVE Told
  <2>1. CASE tickets' = tickets
    BY Zenon, <2>1
  <2>2. ASSUME NEW req \in serving, NEW d \in 0..MaxDrift,
               AsIssue(req, d) \/ TgsRefer(req, d) \/ TgsIssue(req, d)
        PROVE  Told
    <3>1. PICK n : /\ tickets' = tickets \cup {n}
                   /\ n.pac # NoPac =>
                        /\ req.kind \in {"as", "tgs"} /\ req.sid # 0
                        /\ <<n.client, n.crealm>> = Owner(req)
                        /\ n.pac.sid = req.sid
                        /\ n.pac.admin = (Owner(req) \in admins[req.realm])
      BY Zenon, <1>2, <2>2, PacStep
    <3>2. req \in serving \ serving'
      <4>1. Done(req)
        BY Zenon, <2>2, IssueSteps
      <4> QED
        BY <4>1 DEF Done
    <3> SUFFICES ASSUME n.pac # NoPac PROVE Fits(req, Owner(req), n.pac)
      <4> HIDE DEF Fits
      <4> QED
        BY Zenon, <3>1, <3>2
    <3>3. req.since \in 0..edits /\ \E i \in req.since..edits : HadSid(past[i].dit, req)
      BY Zenon, <1>2, <3>1 DEF Recorded, ReadSince
    <3>4. PICK i \in req.since..edits : HadSid(past[i].dit, req)
      BY Zenon, <3>3
    <3>5. edits \in req.since..edits
      BY <1>2, <3>3 DEF KrbTypeOK
    <3>6. past[edits].admins = admins
      BY Zenon, <1>2 DEF Recorded
    <3> QED
      BY Zenon, <3>1, <3>4, <3>5, <3>6 DEF HadSid
  <2> HIDE DEF Told
  <2>3. CASE UNCHANGED vars
    BY Zenon, <2>1, <2>3 DEF vars
  <2>4. CASE Tick \/ AdminStep
    BY Zenon, <2>1, <2>4, AdminSteps
  <2>5. CASE KdcStep
    <3>1. ASSUME NEW req, Begin(req) \/ AsKey(req) \/ TgsKey(req) \/ TgsClient(req)
          PROVE  Told
      BY Zenon, <2>1, <3>1, ReadSteps
    <3>2. ASSUME NEW req, NEW s, Change(req, s) PROVE Told
      BY Zenon, <2>1, <3>2 DEF Change, Refuse
    <3> QED
      BY Zenon, <2>2, <2>5, <3>1, <3>2, KdcCases
  <2> QED
    BY Zenon, <1>2, <2>3, <2>4, <2>5 DEF KrbNext
<1>3. KrbTypeOK /\ Recorded /\ [KrbNext]_vars => Recorded'
  BY Zenon, RecordedStep
<1>4. KrbTypeOK /\ Recorded /\ [KrbNext]_vars => [Told]_vars
  BY Zenon, <1>2
<1> HIDE DEF Told
<1>5. KrbSpec => [][Told]_vars
  BY <1>1, <1>3, <1>4, KrbTypeCorrect, PTL DEF KrbSpec
<1> QED
  BY <1>5 DEF PacOfRequest, Told

-----------------------------------------------------------------------------
(* The keys of the trusts.                                                  *)

\* The principals two realms share a key through.
Pairs == {p \in Realms \X Realms : p[1] # p[2]}

\* The key was derived from a secret the trust was given.
FromGiven(p, key, g) == \E s \in g[p] : key = SharedKey(s)

\* The keys of trusts, in the directories, in the tickets sealed with them and
\* in the requests that have read them, were derived from secrets they were
\* given at one end or the other.
KeysGiven ==
    /\ \A r \in Realms, p \in Pairs : Found(r, p) => FromGiven(p, KeyOf(r, p), given)
    /\ \A t \in tickets :
         t.sname \in Realms \ {t.realm} => FromGiven(Issuer(t), t.key, given)
    /\ \A req \in serving :
         (req.kind = "tgs" /\ req.st # "key" /\ req.sname \in Realms \ {req.srealm}) =>
           FromGiven(<<req.sname, req.srealm>>, req.key, given)

\* The secrets a trust was given are only added to.
LEMMA GivenGrows ==
    ASSUME KrbTypeOK, [KrbNext]_vars
    PROVE  \A p \in Principals : given[p] \subseteq given'[p]
<1>1. CASE given' = given
  BY Zenon, <1>1
<1>2. ASSUME NEW r, NEW to \in Realms, NEW from \in Realms, NEW s,
             SetCrossRealmKey(r, to, from, s)
      PROVE  \A p \in Principals : given[p] \subseteq given'[p]
  <2>1. given' = [given EXCEPT ![<<to, from>>] = @ \cup {s}]
    BY Zenon, <1>2 DEF SetCrossRealmKey
  <2> QED
    BY ZenonT(40), <2>1 DEF KrbTypeOK
<1>3. CASE UNCHANGED vars \/ Tick
  BY Zenon, <1>1, <1>3 DEF vars, Tick
<1>4. CASE AdminStep
  <2>1. ASSUME NEW r, NEW n, NEW s, SetPassword(r, n, s) PROVE given' = given
    BY Zenon, <2>1 DEF SetPassword
  <2>2. ASSUME NEW r, NEW n, HandleDelete(r, n) \/ HandleAdd(r, n) \/ HandleModifyMember(r, n)
        PROVE  given' = given
    BY Zenon, <2>2 DEF HandleDelete, HandleAdd, HandleModifyMember
  <2> QED
    BY Zenon, <1>1, <1>2, <1>4, <2>1, <2>2 DEF AdminStep
<1>5. CASE KdcStep
  <2>1. ASSUME NEW req, NEW s, Change(req, s) PROVE given' = given
    BY Zenon, <2>1 DEF Change, Refuse
  <2> QED
    BY Zenon, <1>1, <1>5, <2>1, IssueSteps, ReadSteps, KdcCases
<1> QED
  BY Zenon, <1>3, <1>4, <1>5 DEF KrbNext

\* A change of the directory keeps the keys of the trusts or derives one from
\* a secret that is given with it.
LEMMA DirectoryGiven ==
    ASSUME KrbTypeOK, KeysGiven, [KrbNext]_vars
    PROVE  \A r \in Realms, p \in Pairs :
             Found(r, p)' => FromGiven(p, KeyOf(r, p)', given')
<1> DEFINE Kept == \A r \in Realms, p \in Pairs :
                     Found(r, p)' => FromGiven(p, KeyOf(r, p)', given')
<1> SUFFICES Kept
  OBVIOUS
<1>0. Pairs \subseteq Principals
  BY DEF Pairs, Principals, Names
<1>1. ASSUME NEW r \in Realms, NEW p \in Pairs, dit'[r][p] = dit[r][p], Found(r, p)'
      PROVE  FromGiven(p, KeyOf(r, p)', given')
  <2>1. Found(r, p) /\ KeyOf(r, p)' = KeyOf(r, p)
    BY Zenon, <1>1 DEF Found, KeyOf
  <2>2. PICK s \in given[p] : KeyOf(r, p) = SharedKey(s)
    BY Zenon, <2>1 DEF KeysGiven, FromGiven
  <2>3. s \in given'[p]
    BY Zenon, <1>0, GivenGrows
  <2> QED
    BY Zenon, <2>1, <2>2, <2>3 DEF FromGiven
<1>2. CASE dit' = dit
  BY Zenon, <1>1, <1>2
<1>3. ASSUME NEW q \in Realms, NEW n \in Principals, NEW e, Edit(q, n, e), n \notin Pairs
      PROVE  Kept
  <2>1. \A r \in Realms, p \in Pairs : dit'[r][p] = dit[r][p]
    BY <1>0, <1>3, EditFacts
  <2> QED
    BY Zenon, <1>1, <2>1
<1>4. ASSUME NEW q \in Realms, NEW to \in Realms, NEW from \in Realms,
             NEW s \in Secrets, SetCrossRealmKey(q, to, from, s)
      PROVE  Kept
  <2> DEFINE n == <<to, from>>
             e == Entry(SharedKey(s), 0)
  <2>1. n \in Principals /\ Edit(q, n, e)
    BY Zenon, <1>4 DEF SetCrossRealmKey, Principals, Names
  <2>2. given' = [given EXCEPT ![n] = @ \cup {s}]
    BY Zenon, <1>4 DEF SetCrossRealmKey
  <2>3. e.key = SharedKey(s)
    BY DEF Entry
  <2> HIDE DEF n, e
  <2>4. s \in given'[n]
    BY ZenonT(40), <2>1, <2>2 DEF KrbTypeOK
  <2>5. ASSUME NEW r \in Realms, NEW p \in Pairs, Found(r, p)'
        PROVE  FromGiven(p, KeyOf(r, p)', given')
    <3>1. CASE r = q /\ p = n
      <4>1. dit'[r][p] = e
        BY <1>0, <2>1, <3>1, EditFacts
      <4> QED
        BY Zenon, <2>3, <2>4, <3>1, <4>1 DEF KeyOf, FromGiven
    <3>2. CASE ~(r = q /\ p = n)
      <4>1. dit'[r][p] = dit[r][p]
        BY <1>0, <2>1, <3>2, EditFacts
      <4> QED
        BY Zenon, <1>1, <2>5, <4>1
    <3> QED
      BY Zenon, <3>1, <3>2
  <2> QED
    BY Zenon, <2>5
<1> HIDE DEF Kept
<1>5. ASSUME NEW r \in Realms, NEW n \in Users \cup {r}, NEW e, Edit(r, <<n, r>>, e)
      PROVE  Kept
  <2>1. <<n, r>> \in Principals /\ <<n, r>> \notin Pairs
    BY DEF Principals, Names, Pairs
  <2> QED
    BY Zenon, <1>3, <1>5, <2>1
<1>6. CASE UNCHANGED vars \/ Tick
  BY Zenon, <1>2, <1>6 DEF vars, Tick
<1>7. CASE AdminStep
  <2>1. ASSUME NEW r \in Realms, NEW n \in Users \cup {r}, NEW s,
               SetPassword(r, n, s) \/ HandleDelete(r, n)
        PROVE  Kept
    BY Zenon, <1>5, <2>1 DEF SetPassword, HandleDelete
  <2>2. ASSUME NEW r \in Realms, NEW u \in Users, HandleAdd(r, u) PROVE Kept
    BY Zenon, <1>5, <2>2 DEF HandleAdd
  <2>3. ASSUME NEW r \in Realms, NEW u \in Users, HandleModifyMember(r, u) PROVE Kept
    BY Zenon, <1>2, <2>3 DEF HandleModifyMember, Write
  <2> QED
    BY Zenon, <1>4, <1>7, <2>1, <2>2, <2>3 DEF AdminStep
<1>8. CASE KdcStep
  <2>1. ASSUME NEW req \in serving, NEW s, Change(req, s) PROVE Kept
    <3>1. req.realm \in Realms /\ req.target \in Users
      BY Zenon, <2>1, ReqFacts DEF Change
    <3>2. CASE Refuse(req)
      BY Zenon, <1>2, <3>2 DEF Refuse
    <3>3. CASE \E e : Edit(req.realm, <<req.target, req.realm>>, e)
      BY Zenon, <1>5, <3>1, <3>3
    <3> QED
      BY Zenon, <2>1, <3>2, <3>3 DEF Change
  <2> QED
    BY Zenon, <1>2, <1>8, <2>1, IssueSteps, ReadSteps, KdcCases
<1> QED
  BY Zenon, <1>6, <1>7, <1>8 DEF KrbNext

\* A request that reads a trust's key, or already has it, has one that was
\* derived from a given secret.
LEMMA RequestGiven ==
    ASSUME KrbTypeOK, KeysGiven, [KrbNext]_vars
    PROVE  \A req \in serving' :
             (req.kind = "tgs" /\ req.st # "key" /\ req.sname \in Realms \ {req.srealm}) =>
               FromGiven(<<req.sname, req.srealm>>, req.key, given)
<1> DEFINE Holds(req) ==
             (req.kind = "tgs" /\ req.st # "key" /\ req.sname \in Realms \ {req.srealm}) =>
               FromGiven(<<req.sname, req.srealm>>, req.key, given)
           Goal == \A req \in serving' : Holds(req)
<1> SUFFICES Goal
  OBVIOUS
<1>0. \A req \in serving : Holds(req)
  BY Zenon DEF KeysGiven
<1>1. ASSUME NEW req, Begin(req), Holds(req) PROVE Goal
  <2>1. serving' = serving \cup {req}
    BY Zenon, <1>1 DEF Begin
  <2> HIDE DEF Holds
  <2> QED
    BY Zenon, <1>0, <1>1, <2>1
<1>2. ASSUME NEW req, NEW next, Advance(req, next), Holds(next) PROVE Goal
  <2>1. serving' = (serving \ {req}) \cup {next}
    BY Zenon, <1>2 DEF Advance
  <2> HIDE DEF Holds
  <2> QED
    BY Zenon, <1>0, <1>2, <2>1
<1>3. CASE serving' \subseteq serving
  <2> HIDE DEF Holds
  <2> QED
    BY Zenon, <1>0, <1>3
<1>4. ASSUME NEW req, Done(req) PROVE Goal
  <2> HIDE DEF Goal
  <2> QED
    BY Zenon, <1>3, <1>4 DEF Done
<1> HIDE DEF Goal
<1>5. ASSUME NEW r \in Realms PROVE
        /\ \A u \in Users, s \in {r, ChangePw}, c \in Times : AsVerify(r, u, s, c) => Goal
        /\ \A t \in tickets, w \in Wanted, c \in Times : TgsVerify(r, t, w[1], w[2], c) => Goal
        /\ \A t \in tickets, u \in Users, c \in Times : VerifyApReq(r, t, u, c) => Goal
  <2>1. ASSUME NEW u, NEW s, NEW c, AsVerify(r, u, s, c) PROVE Goal
    <3> DEFINE req == [kind |-> "as", st |-> "key", realm |-> r, client |-> u,
                       sname |-> s, sid |-> dit[r][<<u, r>>].sid, key |-> NoKey,
                       since |-> edits]
    <3>1. Begin(req) /\ req.st = "key"
      BY Zenon, <2>1 DEF AsVerify
    <3> HIDE DEF req
    <3> QED
      BY Zenon, <1>1, <3>1
  <2>2. ASSUME NEW t, NEW n, NEW q, NEW c, TgsVerify(r, t, n, q, c) PROVE Goal
    <3> DEFINE req == [kind |-> "tgs", st |-> "key", realm |-> r, tgt |-> t,
                       sname |-> n, srealm |-> q, sid |-> 0, key |-> NoKey,
                       since |-> edits]
    <3>1. Begin(req) /\ req.st = "key"
      BY Zenon, <2>2 DEF TgsVerify
    <3> HIDE DEF req
    <3> QED
      BY Zenon, <1>1, <3>1
  <2>3. ASSUME NEW t, NEW u, NEW c, VerifyApReq(r, t, u, c) PROVE Goal
    <3> DEFINE req == [kind |-> "kpasswd", realm |-> r, ticket |-> t, target |-> u,
                       at |-> now]
    <3>1. Begin(req) /\ req.kind # "tgs"
      BY <2>3 DEF VerifyApReq
    <3> HIDE DEF req
    <3> QED
      BY Zenon, <1>1, <3>1
  <2> QED
    BY Zenon, <2>1, <2>2, <2>3
<1>6. ASSUME NEW req \in serving, AsKey(req) PROVE Goal
  <2> DEFINE r == req.realm
             next == [req EXCEPT !.st = "groups", !.key = KeyOf(r, <<r, r>>)]
  <2>1. Refuse(req) \/ Advance(req, next)
    BY Zenon, <1>6 DEF AsKey
  <2>2. req \in AsRequests({"key"}, {NoKey})
    BY Zenon, <1>6, ReqFacts DEF AsKey
  <2>3. next.kind # "tgs"
    BY <2>2 DEF AsRequests
  <2> HIDE DEF next
  <2> QED
    BY Zenon, <1>2, <1>4, <2>1, <2>3 DEF Refuse
<1>7. ASSUME NEW req \in serving, TgsKey(req) PROVE Goal
  <2> DEFINE r == req.realm
             sealer == Sealer(req.sname, req.srealm)
             next == [req EXCEPT !.st = "client", !.key = KeyOf(r, sealer)]
  <2>0. r \in Realms
    BY Zenon, ReqFacts
  <2>1. Refuse(req) \/ (Advance(req, next) /\ Found(r, sealer))
    BY Zenon, <1>7 DEF TgsKey
  <2>2. req \in TgsRequests({"key"}, {NoKey}) /\ req.srealm \in Realms
    BY Zenon, <1>7, ReqFacts DEF TgsKey
  <2>3. /\ next.sname = req.sname /\ next.srealm = req.srealm
        /\ next.key = KeyOf(r, sealer)
    BY <2>2 DEF TgsRequests
  <2> HIDE DEF next
  <2>4. ASSUME Found(r, sealer) PROVE Holds(next)
    <3> SUFFICES ASSUME req.sname \in Realms \ {req.srealm}
                 PROVE  FromGiven(<<req.sname, req.srealm>>, KeyOf(r, sealer), given)
      BY Zenon, <2>3
    <3>1. sealer = <<req.sname, req.srealm>> /\ sealer \in Pairs
      BY <2>2 DEF Sealer, Pairs, Names
    <3> HIDE DEF sealer
    <3> QED
      BY Zenon, <2>0, <2>4, <3>1 DEF KeysGiven
  <2> HIDE DEF Holds
  <2> QED
    BY Zenon, <1>2, <1>4, <2>1, <2>4 DEF Refuse
<1>8. ASSUME NEW req \in serving, TgsClient(req) PROVE Goal
  <2> DEFINE p == <<req.tgt.client, req.tgt.crealm>>
             sid == IF Found(req.realm, p) THEN dit[req.realm][p].sid ELSE 0
             next == [req EXCEPT !.st = "groups", !.sid = sid]
  <2>1. Advance(req, next) /\ req.kind = "tgs" /\ req.st = "client"
    BY Zenon, <1>8 DEF TgsClient
  <2>2. req \in TgsRequests({"client", "groups"}, Keys)
    BY Zenon, <2>1, ReqFacts
  <2> HIDE DEF sid
  <2>3. next.sname = req.sname /\ next.srealm = req.srealm /\ next.key = req.key
    BY <2>2 DEF TgsRequests
  <2> HIDE DEF next
  <2>4. req.st # "key"
    BY <2>1
  <2>5. Holds(next)
    BY Zenon, <1>0, <2>1, <2>3, <2>4
  <2> HIDE DEF Holds
  <2> QED
    BY Zenon, <1>2, <2>1, <2>5
<1>9. CASE KdcStep
  <2>1. ASSUME NEW req, NEW s, Change(req, s) PROVE Goal
    BY Zenon, <1>4, <2>1 DEF Change, Refuse
  <2>2. ASSUME NEW req, NEW d, AsIssue(req, d) \/ TgsRefer(req, d) \/ TgsIssue(req, d)
        PROVE  Goal
    BY Zenon, <1>4, <2>2, IssueSteps
  <2> QED
    BY ZenonT(40), <1>5, <1>6, <1>7, <1>8, <1>9, <2>1, <2>2 DEF KdcStep
<1>10. CASE Tick \/ AdminStep
  BY Zenon, <1>3, <1>10, AdminSteps
<1>11. CASE UNCHANGED vars
  BY Zenon, <1>3, <1>11 DEF vars
<1> QED
  BY Zenon, <1>9, <1>10, <1>11 DEF KrbNext

\* A ticket sealed for another realm is sealed with a key of the trust.
LEMMA TicketGiven ==
    ASSUME KrbTypeOK, Pending, KeysGiven, [KrbNext]_vars
    PROVE  \A t \in tickets' :
             t.sname \in Realms \ {t.realm} => FromGiven(Issuer(t), t.key, given)
<1> DEFINE Sealed(t) == t.sname \in Realms \ {t.realm} => FromGiven(Issuer(t), t.key, given)
           Goal == \A t \in tickets' : Sealed(t)
<1> SUFFICES Goal
  OBVIOUS
<1>0. \A t \in tickets : Sealed(t)
  BY Zenon DEF KeysGiven
<1>1. CASE tickets' = tickets
  <2> HIDE DEF Sealed
  <2> QED
    BY Zenon, <1>0, <1>1
<1>2. ASSUME NEW req, NEW t, Issue(req, t), Sealed(t) PROVE Goal
  <2>1. tickets' = tickets \cup {t}
    BY Zenon, <1>2 DEF Issue
  <2> HIDE DEF Sealed
  <2> QED
    BY Zenon, <1>0, <1>2, <2>1
<1> HIDE DEF Goal
<1>3. ASSUME NEW req \in serving, NEW d, AsIssue(req, d) PROVE Goal
  <2> DEFINE r == req.realm
             t == [client |-> req.client, crealm |-> r, sname |-> req.sname,
                   realm |-> r, key |-> req.key, initial |-> TRUE,
                   auth |-> now, end |-> now + d + AsLife(req.sname),
                   pac |-> Pac(r, <<req.client, r>>, req.sid), slack |-> 0]
  <2>1. Issue(req, t) /\ t.sname = req.sname /\ t.realm = r
    BY Zenon, <1>3 DEF AsIssue
  <2>2. req.sname \in {r, ChangePw}
    BY Zenon, <1>3 DEF AsIssue, Pending
  <2>3. req.sname \notin Realms \ {r}
    BY <2>2 DEF Names
  <2> HIDE DEF t
  <2> QED
    BY Zenon, <1>2, <2>1, <2>3
<1>4. ASSUME NEW req \in serving, NEW d, TgsRefer(req, d) PROVE Goal
  <2> DEFINE r == req.realm
             p == <<req.srealm, r>>
             t == Derived(req.tgt, req.srealm, r, KeyOf(r, p), NoPac, d)
  <2>1. Issue(req, t) /\ Found(r, p) /\ req.srealm # r
    BY Zenon, <1>4 DEF TgsRefer, Refers
  <2>2. t.sname = req.srealm /\ t.realm = r /\ t.key = KeyOf(r, p)
    BY Zenon DEF Derived
  <2>3. r \in Realms /\ req.srealm \in Realms
    BY Zenon, <1>4, ReqFacts DEF TgsRefer
  <2>4. p \in Pairs
    BY <2>1, <2>3 DEF Pairs
  <2> HIDE DEF t
  <2>5. Issuer(t) = p
    BY Zenon, <2>2, <2>3 DEF Issuer
  <2> HIDE DEF p
  <2>6. FromGiven(p, KeyOf(r, p), given)
    BY Zenon, <2>1, <2>3, <2>4 DEF KeysGiven
  <2>7. Sealed(t)
    BY Zenon, <2>2, <2>5, <2>6
  <2> HIDE DEF Sealed
  <2> QED
    BY Zenon, <1>2, <2>1, <2>7
<1>5. ASSUME NEW req \in serving, NEW d, TgsIssue(req, d) PROVE Goal
  <2> DEFINE pac == Pac(req.realm, <<req.tgt.client, req.tgt.crealm>>, req.sid)
             t == Derived(req.tgt, req.sname, req.srealm, req.key, pac, d)
  <2>1. Issue(req, t) /\ req.kind = "tgs" /\ req.st = "groups"
    BY Zenon, <1>5 DEF TgsIssue
  <2>2. t.sname = req.sname /\ t.realm = req.srealm /\ t.key = req.key
    BY Zenon DEF Derived
  <2>3. req.st # "key"
    BY <2>1
  <2> HIDE DEF t
  <2>4. ASSUME req.sname \in Realms \ {req.srealm}
        PROVE  FromGiven(<<req.sname, req.srealm>>, req.key, given)
    BY Zenon, <2>1, <2>3, <2>4 DEF KeysGiven
  <2>5. req.sname \in Realms => Issuer(t) = <<req.sname, req.srealm>>
    BY <2>2 DEF Issuer, Names
  <2>6. Sealed(t)
    BY Zenon, <2>2, <2>4, <2>5
  <2> HIDE DEF Sealed
  <2> QED
    BY Zenon, <1>2, <2>1, <2>6
<1>6. CASE KdcStep
  <2>1. ASSUME NEW req, NEW s, Change(req, s) PROVE tickets' = tickets
    BY Zenon, <2>1 DEF Change, Refuse
  <2> QED
    BY Zenon, <1>1, <1>3, <1>4, <1>5, <1>6, <2>1, ReadSteps, KdcCases
<1>7. CASE Tick \/ AdminStep
  BY Zenon, <1>1, <1>7, AdminSteps
<1>8. CASE UNCHANGED vars
  BY Zenon, <1>1, <1>8 DEF vars
<1> QED
  BY Zenon, <1>6, <1>7, <1>8 DEF KrbNext

\* The three parts of KeysGiven together.
LEMMA KeysGivenStep ==
    ASSUME KrbTypeOK, KrbTypeOK', Pending, KeysGiven, [KrbNext]_vars
    PROVE  KeysGiven'
<1>1. ASSUME NEW p \in Principals, NEW key, FromGiven(p, key, given)
      PROVE  FromGiven(p, key, given')
  BY Zenon, <1>1, GivenGrows DEF FromGiven
<1>2. \A t \in tickets' :
        t.sname \in Realms \ {t.realm} => FromGiven(Issuer(t), t.key, given')
  <2> SUFFICES ASSUME NEW t \in tickets', t.sname \in Realms \ {t.realm}
               PROVE  FromGiven(Issuer(t), t.key, given')
    BY Zenon
  <2>1. Issuer(t) \in Principals
    BY Zenon DEF Issuer, Principals, Names, KrbTypeOK, Tickets
  <2> QED
    BY Zenon, <1>1, <2>1, TicketGiven
<1>3. \A req \in serving' :
        (req.kind = "tgs" /\ req.st # "key" /\ req.sname \in Realms \ {req.srealm}) =>
          FromGiven(<<req.sname, req.srealm>>, req.key, given')
  <2> SUFFICES ASSUME NEW req \in serving', req.kind = "tgs", req.st # "key",
                      req.sname \in Realms \ {req.srealm}
               PROVE  FromGiven(<<req.sname, req.srealm>>, req.key, given')
    BY Zenon
  <2>1. req \in Requests
    BY Zenon DEF KrbTypeOK
  <2>2. <<req.sname, req.srealm>> \in Principals
    BY <2>1 DEF Requests, AsRequests, TgsRequests, Principals, Names
  <2> QED
    BY Zenon, <1>1, <2>2, RequestGiven
<1>4. \A r \in Realms, p \in Pairs :
        Found(r, p)' => FromGiven(p, KeyOf(r, p)', given')
  BY Zenon, DirectoryGiven
<1> QED
  BY Zenon, <1>2, <1>3, <1>4 DEF KeysGiven, FromGiven, Issuer, Pairs, SharedKey

\* A referral ticket opens at the realm it is for unless the two ends of the
\* trust were given different secrets (principal.rs set_shared_key).
THEOREM ReferralsOpenThm == KrbSpec => []ReferralsOpen
<1>1. KrbInit => KeysGiven
  <2> SUFFICES ASSUME KrbInit, NEW r \in Realms, NEW p \in Pairs, Found(r, p)
               PROVE  FromGiven(p, KeyOf(r, p), given)
    BY Zenon DEF KrbInit, KeysGiven
  <2>1. /\ p \in Principals /\ p[1] \notin Users /\ p[1] # p[2]
        /\ p[1] \in Realms /\ p[2] \in Realms
    BY DEF Pairs, Principals, Names
  <2>2. ~(p[2] = r /\ p[1] \in Users \cup {r})
    BY <2>1
  <2>3. dit[r][p] = IF p \in Trusted /\ r \in {p[1], p[2]} THEN Entry(SharedKey(0), 0)
                    ELSE Absent
    BY <2>1, <2>2 DEF KrbInit
  <2>4. p \in Trusted /\ KeyOf(r, p) = SharedKey(0)
    <3>1. dit[r][p] = Entry(SharedKey(0), 0) /\ p \in Trusted
      BY Zenon, <2>3 DEF Found
    <3> QED
      BY <3>1 DEF KeyOf, Entry
  <2>5. 0 \in given[p]
    BY <2>1, <2>4 DEF KrbInit
  <2> QED
    BY Zenon, <2>4, <2>5 DEF FromGiven
<1>2. KrbTypeOK /\ KrbTypeOK' /\ Pending /\ KeysGiven /\ [KrbNext]_vars => KeysGiven'
  BY Zenon, KeysGivenStep
<1>3. KrbTypeOK /\ KeysGiven => ReferralsOpen
  <2> SUFFICES ASSUME KrbTypeOK, KeysGiven, NEW t \in tickets,
                      t.sname \in Realms \ {t.realm},
                      Found(t.sname, Issuer(t)), ~Opens(t.sname, t)
               PROVE  \E a, b \in given[Issuer(t)] : a # b
    BY Zenon DEF ReferralsOpen
  <2>1. Issuer(t) \in Pairs /\ t.sname \in Realms
    BY DEF Issuer, KrbTypeOK, Tickets, Pairs, Names
  <2>2. PICK a \in given[Issuer(t)] : KeyOf(t.sname, Issuer(t)) = SharedKey(a)
    BY Zenon, <2>1 DEF KeysGiven, FromGiven
  <2>3. PICK b \in given[Issuer(t)] : t.key = SharedKey(b)
    BY Zenon DEF KeysGiven, FromGiven
  <2>4. a # b
    BY Zenon, <2>2, <2>3 DEF Opens
  <2> QED
    BY Zenon, <2>4
<1> QED
  BY <1>1, <1>2, <1>3, KrbTypeCorrect, PendingThm, PTL DEF KrbSpec
=============================================================================
