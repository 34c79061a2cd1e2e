-------------------------------- MODULE Join --------------------------------
(***************************************************************************)
(* Joining a machine to the domain, end to end: iron-rpcd's connections    *)
(* and its LSARPC, SAMR and NETLOGON calls (crate iron-rpc), driven by the *)
(* joining machines of iron-simulate and by other RPC clients, while the   *)
(* directory's other writers change the same accounts.                     *)
(*                                                                         *)
(* A connection belongs to one client and has one request on it at a time, *)
(* so a call that reads nothing but its connection is one step with the    *)
(* sending of its request.  The calls that use the directory are split at  *)
(* each request to the store.  Machines talk to the KDC too; what it does  *)
(* is Kerberos.tla's subject and only its reads of keys are kept here.     *)
(***************************************************************************)
EXTENDS Integers, Sequences, FiniteSets

CONSTANTS
    Machines,       \* joins in progress (simulate_join tasks)
    Visitors,       \* other clients: rpcclient, net rpc
    Names,          \* computer names; a name also stands for the password
                    \* iron-simulate derives for it
    Other,          \* a secret that is none of these passwords
    Absent, None,
    Plans,          \* what the joins may be for: functions from Machines to Names
    Contested,      \* the names that visitors and the other writers use
    Bindings,       \* the lists of <<context id, interface>> a visitor binds
    MaxEvents       \* bound: starts of iron-simulate, requests of visitors, cut
                    \* connections and changes by other writers, together

Clients == Machines \cup Visitors
Interfaces == {"lsarpc", "samr", "netlogon"}

ASSUME JoinAssumption ==
    /\ Machines \cap Visitors = {} /\ Other \notin Names
    /\ Plans \subseteq [Machines -> Names] /\ Contested \subseteq Names
    /\ \A b \in Bindings : \A i \in 1 .. Len(b) : Len(b[i]) = 2
    /\ MaxEvents \in Nat

VARIABLES
    name,       \* [Machines -> Names]: the computer each join is for
    acct,       \* [Names -> account or Absent]: the entries cn=<name>,<base>
    shared,     \* names the cn index has a second row for
    rids,       \* RIDs drawn so far
    svc,        \* the key of the service principal: its number, 0 for none
    salts,      \* random salts drawn so far
    bound,      \* [Clients -> handle_connection's `bound`]
    chal,       \* [Clients -> Session::challenges]
    call,       \* [Clients -> the call a server task is in the middle of]
    reply,      \* [Clients -> the reply the client has not read yet]
    accepted,   \* [Clients -> what the bind_acks the client got accepted]
    pc,         \* [Machines -> how many operations of Script it has begun]
    mem,        \* [Machines -> what simulate_join's locals hold]
    events,     \* how many of the events MaxEvents bounds have happened
    crossed,    \* history: joins that something outside them could upset
    edited      \* history: what other tools did: <<name, "deleted" or "changed">>

server == <<bound, chal, call, reply, accepted>>
store == <<acct, shared, rids, svc, salts>>
vars == <<name, store, server, pc, mem, events, crossed, edited>>

Secrets == Names \cup {Other}
Keys == [salt : Nat, secret : Secrets]
Account == [rid : Nat, ntowf : Secrets \cup {None}, key : Keys \cup {None}]

\* simulate_join's operations. "lsarpc" is the whole of its business with that
\* interface, "samr" everything there before CreateUser2 (the connection, its
\* bind, and calls that touch nothing but the connection); "get_entry" begins
\* with the three CloseHandle calls.
Script == << "lsarpc", "samr", "CreateUser2", "get_entry", "put_entry",
             "netlogon", "ReqChallenge", "Authenticate3",
             "as_preauth", "as_exchange", "tgs_exchange", "fetch_service_key" >>

Failed == -1
Done == Len(Script)
At(op) == CHOOSE i \in 1 .. Len(Script) : Script[i] = op

NoMem == [rid |-> 0, read |-> Absent, sc |-> 0, salt |-> 0, ticket |-> None]

JoinTypeOK ==
    /\ name \in [Machines -> Names]
    /\ acct \in [Names -> Account \cup {Absent}]
    /\ shared \subseteq Names /\ rids \in Nat /\ svc \in Nat /\ salts \in Nat
    /\ \A c \in Clients : bound[c] = None \/ bound[c][2] \in Interfaces
    /\ pc \in [Machines -> Failed .. Done]
    /\ crossed \subseteq Machines /\ edited \subseteq Names \X {"deleted", "changed"}

\* No account yet and no iron-simulate started; the visitors have connected and
\* bound SAMR.
Init ==
    /\ name \in Plans
    /\ acct = [n \in Names |-> Absent] /\ shared = {}
    /\ rids = 0 /\ svc = 0 /\ salts = 0
    /\ bound = [c \in Clients |-> IF c \in Visitors THEN <<0, "samr">> ELSE None]
    /\ chal = [c \in Clients |-> None]
    /\ call = [c \in Clients |-> None]
    /\ reply = [c \in Clients |-> None]
    /\ accepted = [c \in Clients |-> IF c \in Visitors THEN [x \in {0} |-> "samr"] ELSE << >>]
    /\ pc = [m \in Machines |-> 0]
    /\ mem = [m \in Machines |-> NoMem]
    /\ events = 0
    /\ crossed = {} /\ edited = {}

\* Someone other than the join of client c writes the account of name n.
Crossing(n, c) == {m \in Machines \ {c} : name[m] = n}

-----------------------------------------------------------------------------
(* NETLOGON's arithmetic. A hash or a cipher is known by its arguments.     *)

\* The server's challenge is the client's with one byte flipped.
Flip(cc) == -cc

compute_session_key_aes(ntowf, cc, sc) == <<ntowf, cc, sc>>
compute_credential(key, challenge) == <<key, challenge>>

-----------------------------------------------------------------------------
(* handle_connection: binds and the dispatch of requests.                   *)

\* The opnums each interface dispatches.
LsarpcOps == {"OpenPolicy2", "LsarClose", "QueryInformationPolicy2"}
SamrOps == {"Connect5", "LookupDomain", "OpenDomain", "CloseHandle", "OpenUser",
            "QueryInformationUser2", "LookupNames", "CreateUser2"}
NetlogonOps == {"ReqChallenge", "Authenticate3"}

OpsOf(iface) ==
    CASE iface = "lsarpc" -> LsarpcOps [] iface = "samr" -> SamrOps [] iface = "netlogon" -> NetlogonOps

\* A reply: the context it is about, the interface that answered, if one did,
\* the status or fault, and what the client takes from it.
Reply(ctx, iface, status, value) == [ctx |-> ctx, iface |-> iface, status |-> status, value |-> value]

\* What is kept of a reply: nothing if the client has gone, and of a visitor's
\* only which interface answered which context.
Delivered(c, r) ==
    IF c \in Machines THEN IF pc[c] = Failed THEN None ELSE r
    ELSE IF r.iface = None THEN None ELSE Reply(r.ctx, r.iface, "ok", None)

\* Mutant: the first accepted context stays bound.
BindFirst(old, items) ==
    LET ok == SelectSeq(items, LAMBDA item : item[2] \in Interfaces)
    IN IF old # None \/ ok = << >> THEN old ELSE ok[1]

\* A bind rebinds the connection to the last context it accepts, and to none
\* if it accepts none: then what was bound stays bound.
Bind(old, items) ==
    LET ok == SelectSeq(items, LAMBDA item : item[2] \in Interfaces)
    IN IF ok = << >> THEN old ELSE ok[Len(ok)]

\* What the client knows: per context, the interface last accepted for it.
Accept(old, items) ==
    LET ok == {i \in 1 .. Len(items) : items[i][2] \in Interfaces}
        ctxs == {items[i][1] : i \in ok}
        last(x) == CHOOSE i \in ok : items[i][1] = x /\ \A j \in ok : items[j][1] = x => j <= i
    IN [x \in ctxs \cup DOMAIN old |-> IF x \in ctxs THEN items[last(x)][2] ELSE old[x]]

\* A connection's bind PDU; fresh when the client has just connected.
HandleBind(c, items, fresh) ==
    /\ bound' = [bound EXCEPT ![c] = Bind(IF fresh THEN None ELSE bound[c], items)]
    /\ accepted' = [accepted EXCEPT ![c] = Accept(IF fresh THEN << >> ELSE accepted[c], items)]
    /\ chal' = IF fresh THEN [chal EXCEPT ![c] = None] ELSE chal
    /\ reply' = [reply EXCEPT ![c] = Delivered(c, Reply(None, None,
           IF \A i \in 1 .. Len(items) : items[i][2] \in Interfaces THEN "ok" ELSE "rejected", None))]
    /\ UNCHANGED call

Answer(c, r) ==
    /\ reply' = [reply EXCEPT ![c] = Delivered(c, r)]
    /\ UNCHANGED <<bound, call, accepted>>

\* Mutant: one Session for all connections.
KeepChallengesShared(c, cc) == chal' = [d \in Clients |-> [cc |-> cc, sc |-> Flip(cc)]]

\* server_req_challenge keeps both challenges for this connection.
KeepChallenges(c, cc) == chal' = [chal EXCEPT ![c] = [cc |-> cc, sc |-> Flip(cc)]]

\* open_user makes a handle of any RID, and any handle made so has the group
\* Domain Users; of the policy, one level is served. None is a malformed stub.
user_handle(rid) == [kind |-> "user", rid |-> rid]
query_information_user2(handle) == IF handle.kind = "user" THEN 513 ELSE None
query_information_policy2(level) == IF level = "DnsDomain" THEN "domain" ELSE None

Stateless(op, arg) ==
    CASE op = "OpenUser" -> user_handle(arg)
      [] op = "QueryInformationUser2" -> query_information_user2(arg)
      [] op = "QueryInformationPolicy2" -> query_information_policy2(arg)
      [] OTHER -> op

AtOnce(op) == op \notin {"ReqChallenge", "CreateUser2", "LookupNames", "Authenticate3"}

\* A request on context ctx: refused, answered at once, or begun.
Request(c, ctx, op, arg) ==
    LET iface == bound[c][2] IN
    IF bound[c] = None \/ bound[c][1] # ctx
      THEN Answer(c, Reply(ctx, None, "FAULT_UNK_IF", None)) /\ UNCHANGED chal
    ELSE IF op \notin OpsOf(iface)
      THEN Answer(c, Reply(ctx, None, "FAULT_OP_RNG_ERROR", None)) /\ UNCHANGED chal
    ELSE IF arg = None \/ (AtOnce(op) /\ Stateless(op, arg) = None)
      THEN Answer(c, Reply(ctx, None, "FAULT_NDR", None)) /\ UNCHANGED chal
    ELSE IF op = "ReqChallenge"
      THEN KeepChallenges(c, arg) /\ Answer(c, Reply(ctx, iface, "ok", Flip(arg)))
    ELSE IF op = "Authenticate3" /\ chal[c] = None
      THEN Answer(c, Reply(ctx, iface, "ACCESS_DENIED", None)) /\ UNCHANGED chal
    ELSE IF AtOnce(op)
      THEN Answer(c, Reply(ctx, iface, "ok", Stateless(op, arg))) /\ UNCHANGED chal
    ELSE /\ call' = [call EXCEPT ![c] = [op |-> op, ctx |-> ctx, arg |-> arg, rid |-> 0]]
         /\ reply' = [reply EXCEPT ![c] = None]
         /\ UNCHANGED <<bound, chal, accepted>>

\* A call in progress is answered, if the client is still there.
Return(c, iface, status, value) ==
    /\ call' = [call EXCEPT ![c] = None]
    /\ reply' = [reply EXCEPT ![c] = Delivered(c, Reply(call[c].ctx, iface, status, value))]
    /\ UNCHANGED <<bound, chal, accepted>>

\* The call has its first answer from the store: the RID drawn for it or, for
\* Authenticate3, that the index has the account (1).
Proceed(c, n) ==
    /\ call' = [call EXCEPT ![c] = [op |-> @.op, ctx |-> @.ctx, arg |-> @.arg, rid |-> n]]
    /\ UNCHANGED <<bound, chal, reply, accepted>>

-----------------------------------------------------------------------------
(* The calls that use the directory. SAMR's handlers hold one mutex from    *)
(* their first request to the store to their last, NETLOGON's another.      *)

client == <<name, pc, mem, events>>

Serving(c, op) == call[c] # None /\ call[c].op = op

\* Mutant: a call that only waits for the mutex keeps the others out.
SamrFreeOfWaiters(c) == \A d \in Clients \ {c} : ~Serving(d, "CreateUser2")

SamrFree(c) == \A d \in Clients \ {c} : ~(Serving(d, "CreateUser2") /\ call[d].rid # 0)
NetlogonFree(c) == \A d \in Clients \ {c} : ~(Serving(d, "Authenticate3") /\ call[d].rid # 0)

\* lookup_names_in_domain, of one name; 0 for a name that is not mapped.
LookupNames(c) ==
    /\ Serving(c, "LookupNames") /\ SamrFree(c)
    /\ LET a == acct[call[c].arg] IN Return(c, "samr", "ok", IF a = Absent THEN 0 ELSE a.rid)
    /\ UNCHANGED <<store, client, crossed, edited>>

\* create_user2_in_domain: a RID is drawn (RidPool), ...
CreateUser2Draw(c) ==
    /\ Serving(c, "CreateUser2") /\ call[c].rid = 0 /\ SamrFree(c)
    /\ rids' = rids + 1
    /\ Proceed(c, rids + 1)
    /\ UNCHANGED <<acct, shared, svc, salts, client, crossed, edited>>

Created(n, rid) == [acct EXCEPT ![n] = [rid |-> rid, ntowf |-> None, key |-> None]]

\* Mutant: the entry is put over one that is there.
CreateUser2EntryPut(c) ==
    LET n == call[c].arg IN
    /\ Serving(c, "CreateUser2") /\ call[c].rid # 0
    /\ acct' = Created(n, call[c].rid)
    /\ crossed' = crossed \cup Crossing(n, c)
    /\ Return(c, "samr", "ok", call[c].rid)
    /\ UNCHANGED <<shared, rids, svc, salts, client, edited>>

\* ... and create_entry makes the account unless the name is taken.
CreateUser2Entry(c) ==
    LET n == call[c].arg IN
    /\ Serving(c, "CreateUser2") /\ call[c].rid # 0
    /\ IF acct[n] = Absent
       THEN /\ acct' = Created(n, call[c].rid)
            /\ crossed' = crossed \cup Crossing(n, c)
            /\ Return(c, "samr", "ok", call[c].rid)
       ELSE Return(c, "samr", "USER_EXISTS", 0) /\ UNCHANGED <<acct, crossed>>
    /\ UNCHANGED <<shared, rids, svc, salts, client, edited>>

\* authenticate: the account is looked up by its cn, which no entry or several
\* entries may have (nor does one elsewhere in the tree have a secret), ...
AuthLookup(c) ==
    /\ Serving(c, "Authenticate3") /\ call[c].rid = 0 /\ NetlogonFree(c)
    /\ IF acct[call[c].arg.name] = Absent \/ call[c].arg.name \in shared
       THEN Return(c, "netlogon", "ACCESS_DENIED", None)
       ELSE Proceed(c, 1)
    /\ UNCHANGED <<store, client, crossed, edited>>

\* ... its entry is read, and the client's credential compared with the one the
\* stored secret and this connection's challenges give.
AuthCheck(c) ==
    LET a == acct[call[c].arg.name]
        key == compute_session_key_aes(a.ntowf, chal[c].cc, chal[c].sc) IN
    /\ Serving(c, "Authenticate3") /\ call[c].rid # 0
    /\ IF a # Absent /\ a.ntowf # None /\ compute_credential(key, chal[c].cc) = call[c].arg.cred
       THEN Return(c, "netlogon", "ok", compute_credential(key, chal[c].sc))
       ELSE Return(c, "netlogon", "ACCESS_DENIED", None)
    /\ UNCHANGED <<store, client, crossed, edited>>

\* A request to the store fails, which for a create may be after it took
\* effect. Lookups report the name as not mapped, the others an error.
StoreFails(c) ==
    /\ call[c] # None
    /\ call[c].rid = 0 => IF call[c].op = "Authenticate3" THEN NetlogonFree(c) ELSE SamrFree(c)
    /\ Return(c, None, IF call[c].op = "LookupNames" THEN "ok" ELSE "error", 0)
    /\ \/ UNCHANGED acct /\ crossed' = crossed \cup ({c} \cap Machines)
       \/ /\ call[c].op = "CreateUser2" /\ call[c].rid # 0
          /\ acct[call[c].arg] = Absent
          /\ acct' = Created(call[c].arg, call[c].rid)
          /\ crossed' = crossed \cup Crossing(call[c].arg, c) \cup ({c} \cap Machines)
    /\ UNCHANGED <<shared, rids, svc, salts, client, edited>>

ServerNext(c) ==
    \/ LookupNames(c) \/ CreateUser2Draw(c) \/ CreateUser2Entry(c)
    \/ AuthLookup(c) \/ AuthCheck(c) \/ StoreFails(c)

-----------------------------------------------------------------------------
(* simulate_join. A step reads the reply to the operation before, if there  *)
(* is one, and does the next; any error ends the join.                      *)

Pwd(m) == name[m]
MyChallenge == 1

\* The key authenticate3 computes on the client's side.
MyKey(m, sc) == compute_session_key_aes(Pwd(m), MyChallenge, sc)

\* Mutant: the status of CreateUser2 is not looked at.
ReplyGoodAnyStatus(m) ==
    reply[m] # None /\ Script[pc[m]] # "CreateUser2" =>
       /\ reply[m].status = "ok"
       /\ Script[pc[m]] = "Authenticate3" =>
            reply[m].value = compute_credential(MyKey(m, mem[m].sc), mem[m].sc)

\* A status of success and, from Authenticate3, the credential expected.
ReplyGood(m) ==
    reply[m] # None =>
       /\ reply[m].status = "ok"
       /\ Script[pc[m]] = "Authenticate3" =>
            reply[m].value = compute_credential(MyKey(m, mem[m].sc), mem[m].sc)

\* What the join keeps of the reply.
Kept(m) ==
    IF reply[m] = None THEN mem[m]
    ELSE IF Script[pc[m]] = "CreateUser2" THEN [mem[m] EXCEPT !.rid = reply[m].value]
    ELSE IF Script[pc[m]] = "ReqChallenge" THEN [mem[m] EXCEPT !.sc = reply[m].value]
    ELSE mem[m]

Argument(m, op) ==
    CASE op = "CreateUser2" -> name[m]
      [] op = "ReqChallenge" -> MyChallenge
      [] op = "Authenticate3" -> [name |-> name[m],
                                  cred |-> compute_credential(MyKey(m, Kept(m).sc), MyChallenge)]
      [] OTHER -> op

Running(m) == pc[m] \in 0 .. Done - 1 /\ call[m] = None /\ svc # 0
Next1(m) == Script[pc[m] + 1]

\* The join goes on to its next operation, keeping what `kept` holds.
Goes(m, kept) ==
    /\ pc' = [pc EXCEPT ![m] = @ + 1]
    /\ mem' = [mem EXCEPT ![m] = kept]

\* The machine's connection is closed, if it has one, and with it goes what
\* the server kept for it; not so a call that is still being served.
Closes(m) ==
    /\ reply' = [reply EXCEPT ![m] = None]
    /\ bound' = [bound EXCEPT ![m] = None]
    /\ accepted' = [accepted EXCEPT ![m] = << >>]
    /\ chal' = IF call[m] = None THEN [chal EXCEPT ![m] = None] ELSE chal
    /\ UNCHANGED call

Ends(m) ==
    /\ pc' = [pc EXCEPT ![m] = Failed]
    /\ mem' = [mem EXCEPT ![m] = NoMem]
    /\ Closes(m)

rest == <<name, events, edited>>
Event == events < MaxEvents /\ events' = events + 1

\* An error reply ends the join.
JoinRefused(m) ==
    /\ Running(m) /\ ~ReplyGood(m)
    /\ Ends(m)
    /\ UNCHANGED <<store, crossed, rest>>

\* RpcClient::connect and RpcClient::call.
JoinRpc(m) ==
    /\ Running(m) /\ ReplyGood(m)
    /\ \/ Next1(m) \in Interfaces /\ HandleBind(m, << <<0, Next1(m)>> >>, TRUE)
       \/ /\ Next1(m) \in UNION {OpsOf(i) : i \in Interfaces}
          /\ Request(m, 0, Next1(m), Argument(m, Next1(m)))
    /\ Goes(m, Kept(m))
    /\ UNCHANGED <<store, crossed, rest>>

\* The account's secrets are provisioned straight into the store: a read, ...
JoinGetEntry(m) ==
    /\ Running(m) /\ Next1(m) = "get_entry" /\ ReplyGood(m)
    /\ IF acct[name[m]] = Absent
       THEN Ends(m)
       ELSE Goes(m, [Kept(m) EXCEPT !.read = acct[name[m]]]) /\ Closes(m)
    /\ UNCHANGED <<store, crossed, rest>>

\* ... both secrets set in what was read, the Kerberos key under a fresh salt, ...
Provisioned(m, salt) ==
    [rid |-> mem[m].read.rid, ntowf |-> Pwd(m), key |-> [salt |-> salt, secret |-> Pwd(m)]]

\* ... and a put of the whole entry.
JoinPutEntry(m) ==
    /\ Running(m) /\ Next1(m) = "put_entry"
    /\ salts' = salts + 1
    /\ acct' = [acct EXCEPT ![name[m]] = Provisioned(m, salts + 1)]
    /\ crossed' = crossed \cup Crossing(name[m], m)
    /\ Goes(m, [mem[m] EXCEPT !.read = Absent])
    /\ UNCHANGED <<shared, rids, svc, server, rest>>

Principal(n) == acct[n] # Absent /\ acct[n].key # None

\* krb_client::as_exchange: the first request is answered with the salt, ...
JoinAsPreauth(m) ==
    /\ Running(m) /\ Next1(m) = "as_preauth" /\ ReplyGood(m)
    /\ IF Principal(name[m])
       THEN Goes(m, [mem[m] EXCEPT !.sc = 0, !.salt = acct[name[m]].key.salt]) /\ Closes(m)
       ELSE Ends(m)
    /\ UNCHANGED <<store, crossed, rest>>

\* ... the second carries a timestamp under the key made with it.
JoinAsExchange(m) ==
    /\ Running(m) /\ Next1(m) = "as_exchange"
    /\ IF /\ Principal(name[m])
          /\ acct[name[m]].key = [salt |-> mem[m].salt, secret |-> Pwd(m)]
       THEN Goes(m, mem[m]) /\ UNCHANGED server
       ELSE Ends(m)
    /\ UNCHANGED <<store, crossed, rest>>

\* tgs_exchange: a ticket under the service's key, with a PAC if the client
\* still is a principal of the directory and has an objectSid.
JoinTgsExchange(m) ==
    /\ Running(m) /\ Next1(m) = "tgs_exchange"
    /\ Goes(m, [mem[m] EXCEPT !.salt = 0, !.ticket = [key |-> svc, pac |-> Principal(name[m]) /\ acct[name[m]].rid # 0]])
    /\ UNCHANGED <<store, server, crossed, rest>>

\* fetch_service_key, decrypt_ticket, extract_pac.
JoinInspect(m) ==
    /\ Running(m) /\ Next1(m) = "fetch_service_key"
    /\ IF mem[m].ticket.key = svc /\ mem[m].ticket.pac
       THEN Goes(m, [mem[m] EXCEPT !.ticket = None]) /\ UNCHANGED server
       ELSE Ends(m)
    /\ UNCHANGED <<store, crossed, rest>>

\* The connection to iron-rpcd, the store or the KDC breaks. A call that is
\* being served goes on: only the write of its reply fails.
JoinCut(m) ==
    /\ pc[m] \in 0 .. Done - 1 /\ svc # 0
    /\ Event
    /\ Ends(m)
    /\ crossed' = crossed \cup {m}
    /\ UNCHANGED <<store, name, edited>>

MachineNext(m) ==
    \/ JoinRefused(m) \/ JoinRpc(m) \/ JoinGetEntry(m) \/ JoinPutEntry(m)
    \/ JoinAsPreauth(m) \/ JoinAsExchange(m) \/ JoinTgsExchange(m) \/ JoinInspect(m)

-----------------------------------------------------------------------------
(* iron-simulate's main, the other RPC clients, the other writers.          *)

\* ensure_service_principal, before the joins: a new key under a fresh salt,
\* whether or not the principal was there. A ticket that a join of another
\* iron-simulate is about to open is sealed with the old one.
ResetServiceKey ==
    /\ Event
    /\ salts' = salts + 1
    /\ svc' = salts + 1
    /\ crossed' = crossed \cup {m \in Machines : pc[m] = At("tgs_exchange")}
    /\ UNCHANGED <<acct, shared, rids, server, name, mem, edited>>

SimulateJoins == ResetServiceKey /\ UNCHANGED pc

\* simulate_login, as a computer that has joined: the Kerberos part again.
SimulateLogin(m) ==
    /\ pc[m] = Done
    /\ ResetServiceKey
    /\ pc' = [pc EXCEPT ![m] = At("as_preauth") - 1]

VisitorTurn(v) ==
    /\ call[v] = None
    /\ Event
    /\ UNCHANGED <<name, store, pc, mem, crossed, edited>>

VisitorBind(v, items) == VisitorTurn(v) /\ HandleBind(v, items, FALSE)

\* The calls a visitor makes, with their arguments; None stands for a stub that
\* does not decode.
VisitorCalls(v) ==
    {<<op, n>> : op \in {"CreateUser2", "LookupNames"}, n \in Contested}
      \cup {<<"OpenUser", rids>>, <<"ReqChallenge", 2>>, <<"Authenticate3", None>>}
      \cup {<<"QueryInformationUser2", [kind |-> k, rid |-> rids]>> : k \in {"user", "domain"}}
      \cup {<<"QueryInformationPolicy2", l>> : l \in {"DnsDomain", "Account"}}
      \cup (IF chal[v] = None THEN {}
            ELSE {<<"Authenticate3", [name |-> n, cred |->
                     compute_credential(compute_session_key_aes(s, chal[v].cc, chal[v].sc), chal[v].cc)]>> :
                  n \in Contested, s \in Contested \cup {Other}})

VisitorCall(v, ctx, op, arg) == VisitorTurn(v) /\ Request(v, ctx, op, arg)

\* iron-ldapd deletes the account; iron-rpc-ctl or iron-kdc-ctl gives it another
\* secret.
EditAccount(n, a) ==
    /\ Event
    /\ acct[n] # Absent
    /\ acct' = [acct EXCEPT ![n] = a]
    /\ crossed' = crossed \cup Crossing(n, None)
    /\ edited' = edited \cup {<<n, IF a = Absent THEN "deleted" ELSE "changed">>}
    /\ UNCHANGED <<shared, rids, svc, server, name, pc, mem>>

DeleteAccount(n) == EditAccount(n, Absent) /\ UNCHANGED salts
SetComputerSecret(n) ==
    n \notin shared /\ EditAccount(n, [acct[n] EXCEPT !.ntowf = Other]) /\ UNCHANGED salts
SetPassword(n) ==
    /\ EditAccount(n, [acct[n] EXCEPT !.key = [salt |-> salts + 1, secret |-> Other]])
    /\ salts' = salts + 1

\* An LDAP client gives an entry elsewhere in the tree the same cn (handle_add).
ShareName(n) ==
    /\ Event
    /\ shared' = shared \cup {n}
    /\ crossed' = crossed \cup Crossing(n, None)
    /\ UNCHANGED <<acct, rids, svc, salts, server, name, pc, mem, edited>>

Next ==
    \/ \E m \in Machines : MachineNext(m) \/ JoinCut(m) \/ SimulateLogin(m)
    \/ \E c \in Clients : ServerNext(c)
    \/ \E v \in Visitors, items \in Bindings : VisitorBind(v, items)
    \/ \E v \in Visitors, ctx \in {0, 1} : \E k \in VisitorCalls(v) : VisitorCall(v, ctx, k[1], k[2])
    \/ \E n \in Contested : DeleteAccount(n) \/ SetComputerSecret(n) \/ SetPassword(n) \/ ShareName(n)
    \/ SimulateJoins

\* The runtime does not idle while a task can run: as long as a machine or a
\* server task can go on, one of them does.
Progress == (\E m \in Machines : MachineNext(m)) \/ (\E c \in Clients : ServerNext(c))

Spec == Init /\ [][Next]_vars /\ WF_vars(Progress)

-----------------------------------------------------------------------------
(* Properties *)

\* A call is answered by the interface the client's last accepted bind of that
\* context id named, however often and with whatever lists of contexts the
\* connection was bound again.
AnsweredByAccepted ==
    \A c \in Clients : reply[c] # None =>
        (reply[c].iface # None =>
            reply[c].ctx \in DOMAIN accepted[c] /\ accepted[c][reply[c].ctx] = reply[c].iface)

\* A join fails only for a reason outside it: its connection broke or the
\* store failed, someone else wrote the account of its name or gave a second
\* entry that name (netlogon.rs:201-205), or another iron-simulate gave the
\* service a new key while the join held a ticket sealed with the old one. In
\* particular the handshakes and creates of other clients and of the joins
\* beside it, whose challenges and RIDs differ, never upset it.
NoSpuriousFailure == \A m \in Machines : pc[m] = Failed => m \in crossed

Holds(m) == pc[m] > At("CreateUser2")

\* Two joins for one name both get the account only after it was deleted in
\* between, and no two accounts get one RID.
OneJoinPerAccount ==
    \A m, k \in Machines : m # k /\ Holds(m) /\ Holds(k) =>
        /\ mem[m].rid # mem[k].rid
        /\ name[m] = name[k] => <<name[m], "deleted">> \in edited

\* A join that succeeds reports what the directory holds, as long as no other
\* tool edits the account: it has the RID that was reported, and its NETLOGON
\* secret and its Kerberos key come from the one password the machine has,
\* whatever other joins and clients try with that name.
JoinedAsReported ==
    \A m \in Machines : pc[m] = Done /\ (\A e \in edited : e[1] # name[m]) =>
        LET a == acct[name[m]]
        IN a # Absent /\ a.rid = mem[m].rid /\ a.ntowf = Pwd(m) /\ a.key.secret = Pwd(m)

\* Every join that has begun ends: no call is left without a reply and no mutex
\* is kept, whichever requests fail and whatever the other clients do.
EveryJoinEnds == []<>(\A m \in Machines : pc[m] \in {0, Failed, Done})
=============================================================================
