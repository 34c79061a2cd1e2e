----------------------------- MODULE LdapSession -----------------------------
(***************************************************************************)
(* One LDAP connection of iron-ldapd (session.rs): the request loop of     *)
(* handle_connection, simple and SASL/GSSAPI binds with their security     *)
(* layers, StartTLS, and the client at the other end, which may pipeline.  *)
(* Requests that touch the directory are one kind here, "other": they      *)
(* get one answer and leave the session state alone (see Directory).       *)
(***************************************************************************)
EXTENDS Naturals, Sequences

CONSTANTS
    Users,          \* Kerberos principals and bind DNs
    MaxRequests,    \* bound: requests the client sends
    MaxInFlight     \* bound: requests and responses under way at once

ASSUME SessionAssumption == MaxRequests \in Nat /\ MaxInFlight \in Nat

VARIABLES
    fips, tlsReady, \* app.fips is Some; tls_acceptor is Some
    conn,           \* Conn: "plain" or "tls"; "closed" once the loop returns
    sasl,           \* sasl_state
    identity,       \* bound_identity
    net, buf,       \* requests in the socket; requests read into buf
    wire,           \* responses on their way to the client
    cTls, cLayer,   \* the client's view: TLS is up, a security layer is on
    sent,           \* history: requests sent
    exchange,       \* history: whose GSSAPI exchange is under way, unbroken
    seqs,           \* history: SND_SEQs used in the current GSS context
    rebound         \* history: a BindRequest arrived through an active layer

config == <<fips, tlsReady>>
client == <<cTls, cLayer, sent>>
ghosts == <<exchange, seqs, rebound>>
vars == <<config, conn, sasl, identity, net, buf, wire, client, ghosts>>

Nobody == [by |-> "nobody"]
Dn(u) == [by |-> "dn", user |-> u]          \* "dn:<name>"
Princ(u) == [by |-> "u", user |-> u]        \* "u:<principal>"
Identities == {Nobody} \cup {Dn(u) : u \in Users} \cup {Princ(u) : u \in Users}

\* SaslState.  `key` stands for the session key of the accepted AP-REQ.
None == [st |-> "none"]
AwaitingApRepAck(u) == [st |-> "apRepAck", key |-> u]
AwaitingSecurityLayerAck(u) == [st |-> "layerAck", key |-> u]
SecurityLayerActive(u, n) == [st |-> "active", key |-> u, sendSeq |-> n]
SaslStates == {None} \cup [st : {"apRepAck", "layerAck"}, key : Users]
              \cup [st : {"active"}, key : Users, sendSeq : Nat]

\* SASL credentials: none, an AP-REQ (asking for mutual authentication or
\* not), a wrapped layer choice under a session key, or anything else.
Creds == {[tok |-> "absent"], [tok |-> "junk"]}
         \cup [tok : {"apReq"}, user : Users, mutual : BOOLEAN]
         \cup [tok : {"layer"}, key : Users, choice : {"none", "protect", "bad"}]

\* "reject" stands for a version other than 3, an unknown authentication
\* choice and a SASL mechanism other than GSSAPI.
Binds == {[op |-> "bind", auth |-> "reject"], [op |-> "bind", auth |-> "anonymous"]}
         \cup [op : {"bind"}, auth : {"simple"}, user : Users, good : BOOLEAN]
         \cup [op : {"bind"}, auth : {"gssapi"}, creds : Creds]
Requests == Binds \cup [op : {"startTls", "other", "abandon", "unbind"}]
Messages == [req : Requests, via : {"plain", "tls"}, wrapped : BOOLEAN]
Responses == [wrapped : BOOLEAN, says : {"layerOn", "tlsOn", "answer"}]

TypeOK ==
    /\ fips \in BOOLEAN /\ tlsReady \in BOOLEAN
    /\ conn \in {"plain", "tls", "closed"}
    /\ sasl \in SaslStates
    /\ identity \in Identities
    /\ net \in Seq(Messages) /\ buf \in Seq(Messages) /\ wire \in Seq(Responses)
    /\ cTls \in BOOLEAN /\ cLayer \in BOOLEAN /\ sent \in 0..MaxRequests
    /\ exchange \in {Nobody} \cup {Princ(u) : u \in Users}
    /\ seqs \in Seq(Nat)
    /\ rebound \in BOOLEAN

Init ==
    /\ fips \in BOOLEAN /\ tlsReady \in BOOLEAN
    /\ conn = "plain" /\ sasl = None /\ identity = Nobody
    /\ net = <<>> /\ buf = <<>> /\ wire = <<>>
    /\ cTls = FALSE /\ cLayer = FALSE /\ sent = 0
    /\ exchange = Nobody /\ seqs = <<>> /\ rebound = FALSE

-----------------------------------------------------------------------------
(* handle_bind and handle_sasl_bind: the next sasl_state, the identity the  *)
(* bind establishes, and whether the exchange goes on.  `challenge` marks   *)
(* an answer that carries security_layer_challenge's Wrap token, which is   *)
(* built unless the crypto provider fails (~ok).                            *)
Ends(state, who) == [sasl |-> state, id |-> who, more |-> FALSE, challenge |-> FALSE]
Continues(state, wraps) == [sasl |-> state, id |-> Nobody, more |-> TRUE, challenge |-> wraps]

GssChallenge(key, ok) ==
    IF ok THEN Continues(AwaitingSecurityLayerAck(key), TRUE) ELSE Ends(None, Nobody)

\* sasl_state None: gssapi::accept on the initial token.
GssAccept(c, ok) ==
    IF c.tok # "apReq" THEN Ends(None, Nobody)
    ELSE IF c.mutual THEN Continues(AwaitingApRepAck(c.user), FALSE)
    ELSE GssChallenge(c.user, ok)

\* AwaitingSecurityLayerAck: unwrap the client's choice of layer.
GssChooseLayer(key, c) ==
    IF c.tok # "layer" \/ (c.tok = "layer" /\ c.key # key) THEN Ends(None, Nobody)
    ELSE IF c.choice = "none" THEN Ends(None, Princ(key))
    ELSE IF c.choice = "protect" THEN Ends(SecurityLayerActive(key, 1), Princ(key))
    ELSE Ends(None, Nobody)

\* handle_sasl_bind for mechanism GSSAPI.
HandleSaslBind(state, c, ok) ==
    IF ~fips THEN Ends(None, Nobody)
    ELSE IF state.st = "none" THEN GssAccept(c, ok)
    ELSE IF state.st = "apRepAck" THEN GssChallenge(state.key, ok)
    ELSE IF state.st = "layerAck" THEN GssChooseLayer(state.key, c)
    ELSE Ends(state, Nobody)

\* Mutant: a bind of another kind leaves a GSSAPI exchange under way alone.
HandleBindKeepsSasl(state, b, ok) ==
    IF b.auth = "gssapi" THEN HandleSaslBind(state, b.creds, ok)
    ELSE Ends(state, IF b.auth = "simple" /\ b.good /\ fips THEN Dn(b.user) ELSE Nobody)

\* handle_bind: every choice but GSSAPI resets sasl_state; authenticate_simple
\* needs the crypto provider.
HandleBind(state, b, ok) ==
    IF b.auth = "gssapi" THEN HandleSaslBind(state, b.creds, ok)
    ELSE Ends(None, IF b.auth = "simple" /\ b.good /\ fips THEN Dn(b.user) ELSE Nobody)

Active(state) == state.st = "active"

\* Mutant: SND_SEQ is taken from the counter but the counter is not advanced.
CounterStuck(state) == state

\* send_response's fetch_add on the counter of the state it is given.
Advance(state) == IF Active(state) THEN [state EXCEPT !.sendSeq = @ + 1] ELSE state

Respond(state, says) == wire' = Append(wire, [wrapped |-> Active(state), says |-> says])
UsedSeq(state) == IF Active(state) THEN <<state.sendSeq>> ELSE <<>>

-----------------------------------------------------------------------------
(* The server's loop.                                                       *)

\* Conn::read: what arrives outside TLS on a TLS connection fails it.
Receive ==
    /\ conn # "closed" /\ net # <<>>
    /\ IF Head(net).via = conn
       THEN /\ net' = Tail(net)
            /\ buf' = Append(buf, Head(net))
            /\ UNCHANGED conn
       ELSE /\ conn' = "closed"
            /\ UNCHANGED <<net, buf>>
    /\ UNCHANGED <<config, sasl, identity, wire, client, ghosts>>

\* read_next_message got a framing or unwrap error: wrapped bytes where
\* plain BER is expected, or the reverse.
BadFraming ==
    /\ conn # "closed" /\ buf # <<>>
    /\ Head(buf).wrapped # Active(sasl)
    /\ conn' = "closed"
    /\ UNCHANGED <<config, sasl, identity, net, buf, wire, client, ghosts>>

\* The next request of kind `op` is read and decoded.
ReadNextMessage(op) ==
    /\ conn # "closed" /\ buf # <<>>
    /\ Head(buf).wrapped = Active(sasl)
    /\ Head(buf).req.op = op

\* Mutant: the answer to a bind is sent under the state the bind leaves.
BindAnswerState(before, after) == after

\* The state send_response is given for a BindResponse: send_state, cloned
\* from sasl_state before handle_bind.
BindSendState(before, after) == before

Bind ==
    /\ ReadNextMessage("bind")
    /\ \E ok \in BOOLEAN :
       LET b == Head(buf).req
           r == HandleBind(sasl, b, ok)
           send == BindSendState(sasl, r.sasl)
           accepted == sasl.st = "none" /\ r.more
       IN  /\ sasl' = r.sasl
           /\ identity' = IF r.more THEN identity ELSE r.id
           /\ Respond(send, IF Active(r.sasl) /\ ~Active(sasl) THEN "layerOn" ELSE "answer")
           /\ seqs' = (IF accepted THEN <<>> ELSE seqs)
                        \o (IF r.challenge THEN <<0>> ELSE <<>>) \o UsedSeq(send)
           /\ exchange' = IF accepted THEN Princ(b.creds.user)
                          ELSE IF r.more THEN exchange ELSE Nobody
           /\ rebound' = (rebound \/ Active(sasl))
    /\ buf' = Tail(buf)
    /\ UNCHANGED <<config, conn, net, client>>

\* Search, Add, Modify, WhoAmI, Password Modify, unknown extended requests:
\* one answer under the current state.
Other ==
    /\ ReadNextMessage("other")
    /\ Respond(sasl, "answer")
    /\ seqs' = seqs \o UsedSeq(sasl)
    /\ sasl' = Advance(sasl)
    /\ buf' = Tail(buf)
    /\ UNCHANGED <<config, conn, identity, net, client, exchange, rebound>>

\* Mutant: bytes read before the handshake stay buffered.
BufferKept(rest) == rest

\* buf.clear() once the handshake is done.
BufferAfterTls(rest) == <<>>

\* StartTLS: refused over TLS or without a certificate; else answered, and
\* the handshake done (or failed) before the next request is read.
StartTls ==
    /\ ReadNextMessage("startTls")
    /\ seqs' = seqs \o UsedSeq(sasl)
    /\ sasl' = Advance(sasl)
    /\ IF conn = "plain" /\ tlsReady
       THEN /\ Respond(sasl, "tlsOn")
            /\ conn' \in {"tls", "closed"}
            /\ buf' = BufferAfterTls(Tail(buf))
       ELSE /\ Respond(sasl, "answer")
            /\ buf' = Tail(buf)
            /\ UNCHANGED conn
    /\ UNCHANGED <<config, identity, net, client, exchange, rebound>>

\* Abandon and unknown operations have no answer.
Abandon ==
    /\ ReadNextMessage("abandon")
    /\ buf' = Tail(buf)
    /\ UNCHANGED <<config, conn, sasl, identity, net, wire, client, ghosts>>

Unbind ==
    /\ ReadNextMessage("unbind")
    /\ conn' = "closed"
    /\ UNCHANGED <<config, sasl, identity, net, buf, wire, client, ghosts>>

\* The peer closed (read_next_message gives None), or a read or write failed.
Disconnect ==
    /\ conn # "closed"
    /\ conn' = "closed"
    /\ UNCHANGED <<config, sasl, identity, net, buf, wire, client, ghosts>>

-----------------------------------------------------------------------------
(* The client.                                                              *)

ClientSend(r) ==
    /\ conn # "closed" /\ sent < MaxRequests
    /\ Len(net) + Len(buf) + Len(wire) < MaxInFlight
    /\ net' = Append(net, [req |-> r, via |-> IF cTls THEN "tls" ELSE "plain",
                           wrapped |-> cLayer])
    /\ sent' = sent + 1
    /\ UNCHANGED <<config, conn, sasl, identity, buf, wire, cTls, cLayer, ghosts>>

\* A response turns the layer or TLS on for the client.
ClientReceive ==
    /\ wire # <<>>
    /\ wire' = Tail(wire)
    /\ cLayer' = (cLayer \/ Head(wire).says = "layerOn")
    /\ cTls' = (cTls \/ Head(wire).says = "tlsOn")
    /\ UNCHANGED <<config, conn, sasl, identity, net, buf, sent, ghosts>>

Next == (\E r \in Requests : ClientSend(r)) \/ ClientReceive \/ Receive \/ BadFraming
        \/ Bind \/ Other \/ StartTls \/ Abandon \/ Unbind \/ Disconnect

Spec == Init /\ [][Next]_vars

-----------------------------------------------------------------------------
\* A response is wrapped exactly when the client has its layer on by the
\* time it reads it; the answer that completes a handshake is in the clear
\* (session.rs:219-229).  Binds through an active layer are set apart.
ResponsesReadable ==
    ~rebound /\ wire # <<>> => Head(wire).wrapped = cLayer

\* The Wrap tokens of one GSS context carry SND_SEQ 0, 1, 2, ... without a
\* gap or a repeat (wrap.rs:53-55).
SndSeqAdvances == \A i \in 1..Len(seqs) : seqs[i] = i - 1

\* The same, on connections whose active layer sees no BindRequest.
SndSeqAdvancesUnlessRebound == ~rebound => SndSeqAdvances

\* A GSSAPI identity comes from one unbroken exchange: a bind of another
\* kind, or a failed step, in the middle of it discards what was accepted
\* (handle_bind's resets, the mem::take in handle_sasl_bind).
ExchangeUnbroken ==
    [][\A u \in Users : identity' = Princ(u) /\ identity # Princ(u)
                            => exchange = Princ(u)]_vars

\* No request that was sent in the clear is executed once TLS is up
\* (session.rs:316).
NoPlaintextAfterTls == conn = "tls" => \A i \in 1..Len(buf) : buf[i].via = "tls"
=============================================================================
