------------------------------ MODULE Kerberos ------------------------------
(***************************************************************************)
(* iron-kdc: the AS, TGS and kpasswd exchanges of the KDCs of several      *)
(* realms, each over the directory of its own partition, with the          *)
(* administrator (iron-kdc-ctl) and iron-ldapd changing those directories  *)
(* between the steps of a request.                                         *)
(*                                                                         *)
(* A principal is a pair <<name, realm>>.  The name r of a realm stands    *)
(* for krbtgt/r, so <<r, r>> is r's own ticket-granting service and        *)
(* <<to, from>> the key two realms share.  Clients present the tickets     *)
(* they were issued, as they were issued.                                  *)
(***************************************************************************)
EXTENDS Integers, FiniteSets

CONSTANTS
    Realms,         \* the realms, one KDC each
    Users,          \* account names, of people and of services (every realm
                    \* may have each of them)
    Administrator,  \* the one that has RID 500 in every realm
    ChangePw,       \* kadmin/changepw, which has no entry of its own
    Clients,        \* the principals that log in
    Managed,        \* the principals administrators work on
    Wanted,         \* pairs <<name, realm>> clients ask a TGS for
    Neighbours,     \* Neighbours[r]: realms of the superior and subordinates
    Trusts,         \* pairs <<to, from>> an operator may set up a key for
    Trusted,        \* the trusts set up from the start, with the secret 0
    Passwords,      \* the passwords people type
    Secrets,        \* the inter-realm secrets operators type
    Lifetime,       \* TICKET_LIFETIME_SECS
    ChangePwLife,   \* the 300 s of a kadmin/changepw ticket
    Skew,           \* CLOCK_SKEW_SECS
    MaxDrift,       \* how far the clock moves between the two reads of it
                    \* that compute an end time
    MaxTime,        \* bound: the clock
    MaxLogins,      \* bound: AS exchanges
    MaxTickets,     \* bound: tickets issued
    MaxEdits,       \* bound: changes of a directory
    MaxServing,     \* bound: requests in progress at once
    Absent, NoKey, NoPac,
    NameSalt        \* the salt set_shared_key makes of the principal's name

Names == Users \cup Realms
Principals == Names \X Realms

ASSUME KrbAssumption ==
    /\ ChangePw \notin Names /\ Users \cap Realms = {}
    /\ Clients \subseteq Users \X Realms /\ Managed \subseteq Names \X Realms
    /\ Wanted \subseteq (Names \cup {ChangePw}) \X Realms
    /\ Neighbours \in [Realms -> SUBSET Realms]
    /\ Trusts \subseteq {q \in Realms \X Realms : q[1] # q[2]}
    /\ Trusted \subseteq Trusts
    /\ Secrets \subseteq Nat /\ Passwords \subseteq Nat
    /\ 0 \in Secrets /\ 0 \in Passwords
    /\ {Lifetime, ChangePwLife, Skew, MaxDrift} \subseteq Nat
    /\ {MaxTime, MaxLogins, MaxTickets, MaxEdits, MaxServing} \subseteq Nat

VARIABLES
    now,        \* the clock the KDCs share
    dit,        \* dit[r][p]: the entry of principal p in r's directory
    admins,     \* admins[r]: the members r's group Domain Admins lists
    serving,    \* the requests KDCs are in the middle of
    tickets,    \* the tickets issued
    edits,      \* history: directory changes, also the source of fresh values
    past,       \* history: past[n], the directories after n changes
    given,      \* history: given[p], the secrets trust p was given at any end
    changes     \* history: the password changes kpasswd made

vars == <<now, dit, admins, serving, tickets, edits, past, given, changes>>

\* A key is known by the salt and the secret it was derived from.
Keys == [salt : Nat \cup {NameSalt}, secret : Secrets \cup Passwords]
Entries == [key : Keys \cup {NoKey}, sid : Nat]
Pacs == [sid : Nat, admin : BOOLEAN]

\* slack is history: how far the clock moved, in the TGS exchanges a ticket is
\* away from the password, between the two readings that make an end time.
Tickets == [client : Users, crealm : Realms, sname : Names \cup {ChangePw},
            realm : Realms, key : Keys, initial : BOOLEAN, auth : Nat,
            end : Int, pac : Pacs \cup {NoPac}, slack : Nat]

\* The requests of the two exchanges.  `st` says what the KDC reads next,
\* `key` and `sid` are what it has read; `since` is history: the number of
\* changes made before the request was taken.
AsRequests(sts, keys) ==
    [kind : {"as"}, st : sts, realm : Realms, client : Users,
     sname : Realms \cup {ChangePw}, sid : Nat, key : keys, since : Nat]
TgsRequests(sts, keys) ==
    [kind : {"tgs"}, st : sts, realm : Realms, tgt : Tickets,
     sname : Names \cup {ChangePw}, srealm : Realms, sid : Nat, key : keys,
     since : Nat]
Requests ==
    AsRequests({"key"}, {NoKey}) \cup AsRequests({"groups"}, Keys)
      \cup TgsRequests({"key"}, {NoKey}) \cup TgsRequests({"client", "groups"}, Keys)
      \cup [kind : {"kpasswd"}, realm : Realms, ticket : Tickets,
            target : Users, at : Nat]

Directories == [Realms -> [Principals -> Entries \cup {Absent}]]
Groups == [Realms -> SUBSET Principals]

\* Every entry, ticket, request and recorded change has its shape.
KrbTypeOK ==
    /\ now \in 0..MaxTime
    /\ dit \in Directories
    /\ admins \in Groups
    /\ serving \subseteq Requests
    /\ tickets \subseteq Tickets
    /\ edits \in 0..MaxEdits
    /\ past \in [0..MaxEdits -> [dit : Directories, admins : Groups]]
    /\ given \in [Principals -> SUBSET Secrets]
    /\ changes \subseteq [ticket : Tickets, target : Users, realm : Realms,
                          at : Nat]

-----------------------------------------------------------------------------
(* The directory: entries, keys and what the administrator does to them.    *)

Entry(key, sid) == [key |-> key, sid |-> sid]
Rekeyed(e, key) == Entry(key, e.sid)

\* objectSids are told apart by their RIDs: 0 stands for no objectSid at all
\* and 1 for RID 500, the Administrator's.
AdminRid == 1

\* set_password: the caller's secret under a random salt, so the same secret
\* given again makes another key.
PasswordKey(salt, secret) == [salt |-> salt, secret |-> secret]

\* Mutant: the shared key is salted at random, as set_password's is.
SharedKeyRandom(secret) == [salt |-> edits, secret |-> secret]

\* set_shared_key: the salt is the principal's name, so both ends of a trust
\* derive the same key from the same secret.
SharedKey(secret) == [salt |-> NameSalt, secret |-> secret]

\* lookup_by_index on krbprincipalname followed by keys: the entries that
\* have been given a principal name and its keys.
Found(r, p) ==
    /\ p \in Principals
    /\ dit[r][p] # Absent
    /\ dit[r][p].key # NoKey

KeyOf(r, p) == dit[r][p].key

KrbInit ==
    /\ now = 0 /\ edits = 0
    /\ dit = [r \in Realms |-> [p \in Principals |->
           IF p[2] = r /\ p[1] \in Users \cup {r}
             THEN Entry(PasswordKey(0, 0), IF p[1] = Administrator THEN AdminRid ELSE 2)
           ELSE IF p \in Trusted /\ r \in {p[1], p[2]} THEN Entry(SharedKey(0), 0)
           ELSE Absent]]
    /\ given = [p \in Principals |-> IF p \in Trusted THEN {0} ELSE {}]
    /\ admins = [r \in Realms |-> {}]
    /\ past = [n \in 0..MaxEdits |-> [dit |-> dit, admins |-> admins]]
    /\ serving = {}
    /\ tickets = {}
    /\ changes = {}

\* One change of a directory, to d and a.
Write(d, a) ==
    /\ edits < MaxEdits
    /\ edits' = edits + 1
    /\ dit' = d /\ admins' = a
    /\ past' = [past EXCEPT ![edits + 1] = [dit |-> d, admins |-> a]]

\* The change of r's directory that gives principal p the entry e.
Edit(r, p, e) == Write([dit EXCEPT ![r][p] = e], admins)

\* iron-kdc-ctl set-password: updates the keys of the entry it finds, or puts
\* a bare entry without objectSid at the principal's DN (where it replaces an
\* account that has no principal name yet).
SetPassword(r, n, secret) ==
    LET p == <<n, r>>
        key == PasswordKey(edits + 1, secret) IN
    /\ Edit(r, p, IF Found(r, p) THEN Rekeyed(dit[r][p], key)
                                 ELSE Entry(key, 0))
    /\ UNCHANGED <<now, serving, tickets, given, changes>>

\* iron-kdc-ctl set-cross-realm-key, run against one of the two realms.
SetCrossRealmKey(r, to, from, s) ==
    /\ <<to, from>> \in Trusts /\ r \in {to, from}
    /\ Edit(r, <<to, from>>, Entry(SharedKey(s), 0))
    /\ given' = [given EXCEPT ![<<to, from>>] = @ \cup {s}]
    /\ UNCHANGED <<now, serving, tickets, changes>>

\* iron-ldapd adds an account: a fresh objectSid, no Kerberos keys yet.
HandleAdd(r, u) ==
    /\ dit[r][<<u, r>>] = Absent
    /\ Edit(r, <<u, r>>, Entry(NoKey, edits + 3))
    /\ UNCHANGED <<now, serving, tickets, given, changes>>

\* iron-ldapd deletes an entry, which leaves its name in the groups that list
\* it as a member.
HandleDelete(r, n) ==
    /\ dit[r][<<n, r>>] # Absent
    /\ Edit(r, <<n, r>>, Absent)
    /\ UNCHANGED <<now, serving, tickets, given, changes>>

\* iron-ldapd adds a member to Domain Admins or takes it out.
HandleModifyMember(r, u) ==
    /\ Write(dit, [admins EXCEPT ![r] = IF <<u, r>> \in @ THEN @ \ {<<u, r>>}
                                        ELSE @ \cup {<<u, r>>}])
    /\ UNCHANGED <<now, serving, tickets, given, changes>>

Tick ==
    /\ now < MaxTime
    /\ now' = now + 1
    /\ UNCHANGED <<dit, admins, serving, tickets, edits, past, given, changes>>

-----------------------------------------------------------------------------
(* Issuing.  A KDC answers in several requests to the store: it verifies    *)
(* the client, reads the key it seals with, then the client's entry (in the *)
(* AS exchange that came first) and the groups; it computes the times last. *)
(* Several KDC processes may serve a realm, so any requests may be under    *)
(* way.  A lookup, by index and then of the entry found, is one step.       *)

Begin(req) ==
    /\ Cardinality(serving) < MaxServing
    /\ serving' = serving \cup {req}
    /\ UNCHANGED <<now, dit, admins, tickets, edits, past, given, changes>>

\* The request goes on as `next`.
Advance(req, next) ==
    /\ serving' = (serving \ {req}) \cup {next}
    /\ UNCHANGED <<now, dit, admins, tickets, edits, past, given, changes>>

Done(req) == serving' = serving \ {req}

Issue(req, t) ==
    /\ tickets' = tickets \cup {t}
    /\ Done(req)
    /\ UNCHANGED <<now, dit, admins, edits, past, given, changes>>

\* An error reply.
Refuse(req) ==
    /\ Done(req)
    /\ UNCHANGED <<now, dit, admins, tickets, edits, past, given, changes>>

Within(ctime) == ctime - now \in (-Skew)..Skew

\* gather_context with the objectSid that was read: the groups, read now.
Pac(r, p, sid) == IF sid = 0 THEN NoPac ELSE [sid |-> sid, admin |-> p \in admins[r]]

\* as_exchange::handle up to the skew check: the client's entry is read and
\* its encrypted timestamp opens under the key found there.
AsVerify(r, u, sname, ctime) ==
    /\ <<u, r>> \in Clients
    /\ Cardinality(tickets) < MaxTickets
    /\ Cardinality({t \in tickets : t.initial}) < MaxLogins
    /\ Found(r, <<u, r>>)
    /\ Within(ctime)
    /\ Begin([kind |-> "as", st |-> "key", realm |-> r, client |-> u,
              sname |-> sname, sid |-> dit[r][<<u, r>>].sid, key |-> NoKey,
              since |-> edits])

\* The krbtgt's key.
AsKey(req) ==
    LET tgs == <<req.realm, req.realm>> IN
    /\ req.kind = "as" /\ req.st = "key"
    /\ IF Found(req.realm, tgs)
         THEN Advance(req, [req EXCEPT !.st = "groups", !.key = KeyOf(req.realm, tgs)])
         ELSE Refuse(req)

\* The lifetime an AS ticket gets.
AsLife(sname) == IF sname = ChangePw THEN ChangePwLife ELSE Lifetime

\* as_exchange::handle from gather_context on.
AsIssue(req, drift) ==
    LET r == req.realm IN
    /\ req.kind = "as" /\ req.st = "groups"
    /\ Issue(req, [client |-> req.client, crealm |-> r, sname |-> req.sname,
                   realm |-> r, key |-> req.key, initial |-> TRUE,
                   auth |-> now, end |-> now + drift + AsLife(req.sname),
                   pac |-> Pac(r, <<req.client, r>>, req.sid), slack |-> 0])

-----------------------------------------------------------------------------
\* The principal whose key a ticket is decrypted with, from the names the
\* ticket carries.
Issuer(t) == <<t.sname, t.realm>>

\* The ticket decrypts; if not, the KDC answers KRB_AP_ERR_BAD_INTEGRITY.
Opens(r, t) == KeyOf(r, Issuer(t)) = t.key

\* tgs_exchange::handle up to the authenticator's checks.  Any ticket serves
\* whose names lead to a principal with keys.
TgsVerify(r, t, sname, srealm, ctime) ==
    /\ Cardinality(tickets) < MaxTickets
    /\ t \in tickets
    /\ Found(r, Issuer(t))
    /\ Opens(r, t)
    /\ now <= t.end
    /\ Within(ctime)
    /\ Begin([kind |-> "tgs", st |-> "key", realm |-> r, tgt |-> t,
              sname |-> sname, srealm |-> srealm, sid |-> 0, key |-> NoKey,
              since |-> edits])

\* The lesser of two numbers.
Least(a, b) == IF a <= b THEN a ELSE b

\* Mutant: a full lifetime at every hop.
TgsEndFull(tgt, drift) == now + drift + Lifetime

\* The end time of a ticket issued on the strength of tgt: what is left of
\* tgt's own life, counted from a second reading of the clock.
TgsEnd(tgt, drift) == now + drift + Least(Lifetime, tgt.end - now)

\* The authentication time is the TGT's.
AuthTime(tgt) == tgt.auth

\* A ticket issued from tgt under `key`.
Derived(tgt, sname, realm, key, pac, drift) ==
    [client |-> tgt.client, crealm |-> tgt.crealm, sname |-> sname,
     realm |-> realm, key |-> key, initial |-> FALSE,
     auth |-> AuthTime(tgt), end |-> TgsEnd(tgt, drift), pac |-> pac,
     slack |-> tgt.slack + drift]

\* referral_tgs_rep applies: another realm, one hop away, with a shared key.
Refers(r, srealm) ==
    /\ srealm # r
    /\ srealm \in Neighbours[r]
    /\ Found(r, <<srealm, r>>)

\* referral_tgs_rep: a TGT for the other realm, without a PAC.
TgsRefer(req, drift) ==
    LET r == req.realm IN
    /\ req.kind = "tgs" /\ req.st = "key" /\ Refers(r, req.srealm)
    /\ Issue(req, Derived(req.tgt, req.srealm, r, KeyOf(r, <<req.srealm, r>>), NoPac, drift))

\* kadmin/changepw is sealed with the krbtgt key.
Sealer(sname, srealm) ==
    IF sname = ChangePw THEN <<srealm, srealm>> ELSE <<sname, srealm>>

\* tgs_exchange::handle after the referral check: the service's key.
TgsKey(req) ==
    LET r == req.realm
        sealer == Sealer(req.sname, req.srealm) IN
    /\ req.kind = "tgs" /\ req.st = "key" /\ ~Refers(r, req.srealm)
    /\ IF Found(r, sealer)
         THEN Advance(req, [req EXCEPT !.st = "client", !.key = KeyOf(r, sealer)])
         ELSE Refuse(req)

\* Mutant: the PAC of the TGT is carried forward.
TgsClientOld(req) ==
    /\ req.kind = "tgs" /\ req.st = "client"
    /\ Advance(req, [req EXCEPT !.st = "groups",
                                !.sid = IF req.tgt.pac = NoPac THEN 0 ELSE req.tgt.pac.sid])

\* The client's own entry, if this realm has one.
TgsClient(req) ==
    LET r == req.realm
        p == <<req.tgt.client, req.tgt.crealm>> IN
    /\ req.kind = "tgs" /\ req.st = "client"
    /\ Advance(req, [req EXCEPT !.st = "groups",
                                !.sid = IF Found(r, p) THEN dit[r][p].sid ELSE 0])

\* tgs_exchange::handle from group_rids on.
TgsIssue(req, drift) ==
    /\ req.kind = "tgs" /\ req.st = "groups"
    /\ Issue(req, Derived(req.tgt, req.sname, req.srealm, req.key,
                          Pac(req.realm, <<req.tgt.client, req.tgt.crealm>>, req.sid), drift))

-----------------------------------------------------------------------------
\* kpasswd's verify_ap_req: the kadmin/changepw ticket of this realm opens
\* under the krbtgt key and has not expired.
VerifyApReq(r, t, target, ctime) ==
    /\ edits < MaxEdits
    /\ t \in tickets /\ t.sname = ChangePw /\ t.realm = r
    /\ Found(r, <<r, r>>)
    /\ KeyOf(r, <<r, r>>) = t.key
    /\ now <= t.end
    /\ Within(ctime)
    /\ Begin([kind |-> "kpasswd", realm |-> r, ticket |-> t,
              target |-> target, at |-> now])

\* Mutant: the requester is looked up by name in this realm.
RequesterByName(r, t) == <<t.client, r>>

\* The principal whose groups is_domain_admin consults.
Requester(r, t) == <<t.client, t.crealm>>

\* RID 500, or a member of Domain Admins.
IsDomainAdmin(r, p) ==
    /\ Found(r, p)
    /\ dit[r][p].sid = AdminRid \/ p \in admins[r]

\* Mutant: a ticket for changing the own password need not be INITIAL.
MayChangeAny(r, t, target) ==
    \/ t.client = target /\ t.crealm = r
    \/ IsDomainAdmin(r, Requester(r, t))

\* change: oneself with an INITIAL ticket, others as a Domain Admin.
MayChange(r, t, target) ==
    IF t.client = target /\ t.crealm = r
      THEN t.initial
      ELSE IsDomainAdmin(r, Requester(r, t))

\* change: the target's entry, found by principal or by account name, gets
\* the principal name and fresh keys.
Change(req, secret) ==
    LET r == req.realm
        p == <<req.target, r>> IN
    /\ req.kind = "kpasswd"
    /\ IF MayChange(r, req.ticket, req.target) /\ dit[r][p] # Absent
         THEN /\ Edit(r, p, Rekeyed(dit[r][p], PasswordKey(edits + 1, secret)))
              /\ changes' = changes \cup {[ticket |-> req.ticket,
                    target |-> req.target, realm |-> r, at |-> req.at]}
              /\ Done(req)
              /\ UNCHANGED <<now, tickets, given>>
         ELSE Refuse(req)

-----------------------------------------------------------------------------
Times == 0..(MaxTime + Skew)

AdminStep ==
    \E r \in Realms :
      \/ \E n \in Users \cup {r} :
           /\ <<n, r>> \in Managed
           /\ HandleDelete(r, n) \/ \E s \in Passwords : SetPassword(r, n, s)
      \/ \E u \in Users :
           /\ <<u, r>> \in Managed
           /\ HandleAdd(r, u) \/ HandleModifyMember(r, u)
      \/ \E to, from \in Realms, s \in Secrets : SetCrossRealmKey(r, to, from, s)

KdcStep ==
    \/ \E r \in Realms :
         \/ \E u \in Users, s \in {r, ChangePw}, c \in Times : AsVerify(r, u, s, c)
         \/ \E t \in tickets, c \in Times :
              \/ \E w \in Wanted : TgsVerify(r, t, w[1], w[2], c)
              \/ \E u \in Users : VerifyApReq(r, t, u, c)
    \/ \E req \in serving :
         \/ AsKey(req) \/ TgsKey(req) \/ TgsClient(req)
         \/ \E d \in 0..MaxDrift : AsIssue(req, d) \/ TgsRefer(req, d) \/ TgsIssue(req, d)
         \/ \E s \in Passwords : Change(req, s)

KrbNext == Tick \/ AdminStep \/ KdcStep

KrbSpec == KrbInit /\ [][KrbNext]_vars

-----------------------------------------------------------------------------
\* Every ticket goes back to a TGT its client obtained with its password, in
\* its own realm and at the authentication time the ticket names, and no
\* chain of TGS exchanges and referrals outlives that TGT by more than the
\* clock moved between the two readings of it in those exchanges
\* (as_exchange.rs, tgs_exchange.rs).
Descends ==
    \A t \in tickets : \E s \in tickets :
      /\ s.initial
      /\ s.client = t.client /\ s.crealm = t.crealm /\ s.realm = s.crealm
      /\ s.auth = t.auth
      /\ s.sname = ChangePw => s = t
      /\ t.end <= s.end + t.slack

\* A user who changes the own password has typed the old one no longer ago
\* than a kadmin/changepw ticket lives, whatever other tickets the user holds
\* (kpasswd.rs change; as_exchange.rs: "lives five minutes").
OwnPasswordFresh ==
    \A c \in changes :
      (c.target = c.ticket.client /\ c.realm = c.ticket.crealm) =>
        c.at <= c.ticket.auth + ChangePwLife + MaxDrift

\* No password is changed by a client of another realm, even one that shares
\* the name of an administrator here and reaches this KDC over a trust
\* (kpasswd.rs change, is_domain_admin).
ForeignersChangeNothing ==
    \A c \in changes : c.realm = c.ticket.crealm

\* A referral ticket is refused by the realm it is for only when the two
\* ends of the trust were given different secrets, whichever end was set
\* first, set again or set while the ticket was being made
\* (principal.rs set_shared_key; the names in a referral ticket lead to the
\* same principal at both ends).  A krbtgt of its own realm has no such
\* promise: given its secret again, it refuses the tickets issued before.
ReferralsOpen ==
    \A t \in tickets :
      (t.sname \in Realms \ {t.realm} /\ Found(t.sname, Issuer(t)) /\ ~Opens(t.sname, t)) =>
        \E a, b \in given[Issuer(t)] : a # b

\* What a PAC says was so while the KDC served the request: each part of it,
\* the objectSid and the groups, is what the directory held at some moment
\* since the request was taken, never what it held when the client logged in
\* (tgs_exchange.rs: the PAC is derived "from the client's *current* directory
\* state at every hop").  The two parts may be of different moments.
PacOfRequest ==
    [][\A t \in tickets' \ tickets : t.pac # NoPac =>
         \E req \in serving \ serving' : \E i, j \in req.since..edits :
           LET p == <<t.client, t.crealm>> IN
           /\ past[i].dit[req.realm][p] # Absent
           /\ t.pac.sid = past[i].dit[req.realm][p].sid
           /\ t.pac.admin = (p \in past[j].admins[req.realm])]_vars
=============================================================================
