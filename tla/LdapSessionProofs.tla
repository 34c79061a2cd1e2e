-------------------------- MODULE LdapSessionProofs --------------------------
(***************************************************************************)
(* Proofs about LdapSession for any users, any number of requests and any  *)
(* amount of pipelining.                                                   *)
(***************************************************************************)
EXTENDS LdapSession, TLAPS

Outcomes == [sasl : SaslStates, id : Identities, more : BOOLEAN, challenge : BOOLEAN]

\* What handle_bind can do to the session, from each SASL state: only an
\* accepted AP-REQ starts an exchange, only its owner's last step ends in a
\* principal's identity, and only that step activates a layer.
LEMMA BindFacts ==
    ASSUME NEW state \in SaslStates, NEW b \in Binds, NEW ok \in BOOLEAN,
           NEW r, r = HandleBind(state, b, ok)
    PROVE  /\ r \in Outcomes
           /\ r.more /\ state.st = "none" =>
                /\ b.creds.user \in Users
                /\ r.sasl.st \in {"apRepAck", "layerAck"} /\ r.sasl.key = b.creds.user
                /\ r.challenge <=> r.sasl.st = "layerAck"
           /\ r.more /\ state.st # "none" =>
                /\ state.st = "apRepAck" /\ r.challenge
                /\ r.sasl.st = "layerAck" /\ r.sasl.key = state.key
           /\ ~r.more =>
                /\ ~r.challenge
                /\ r.sasl.st \in {"none", "active"}
                /\ r.sasl.st = "active" => \/ state.st = "active" /\ r.sasl = state
                                           \/ state.st = "layerAck" /\ r.sasl.sendSeq = 1
                /\ \A u \in Users : r.id = Princ(u) => state.st = "layerAck" /\ state.key = u
<1> USE DEF Outcomes, SaslStates, Identities, Nobody, Ends, Continues, None, Princ, Dn
<1>1. CASE b.auth # "gssapi"
  <2>1. b.auth \in {"reject", "anonymous", "simple"} /\ (b.auth = "simple" => b.user \in Users)
    BY <1>1 DEF Binds
  <2> QED  BY <1>1, <2>1 DEF HandleBind
<1>2. CASE b.auth = "gssapi"
  <2>1. b.creds \in Creds
    BY <1>2 DEF Binds
  <2>2. r = HandleSaslBind(state, b.creds, ok)
    BY <1>2 DEF HandleBind
  <2>3. CASE ~fips
    BY <2>2, <2>3 DEF HandleSaslBind
  <2>4. CASE fips /\ state.st = "none"
    <3>1. r = GssAccept(b.creds, ok)
      BY <2>2, <2>4 DEF HandleSaslBind
    <3>2. b.creds.tok = "apReq" => b.creds.user \in Users /\ b.creds.mutual \in BOOLEAN
      BY <2>1 DEF Creds
    <3> QED  BY <3>1, <3>2, <2>4
               DEF GssAccept, GssChallenge, AwaitingApRepAck, AwaitingSecurityLayerAck
  <2>5. CASE fips /\ state.st = "apRepAck"
    <3>1. state.key \in Users
      BY <2>5
    <3> QED  BY <2>2, <2>5, <3>1 DEF HandleSaslBind, GssChallenge, AwaitingSecurityLayerAck
  <2>6. CASE fips /\ state.st = "layerAck"
    <3>1. state.key \in Users
      BY <2>6
    <3>2. r = GssChooseLayer(state.key, b.creds)
      BY <2>2, <2>6 DEF HandleSaslBind
    <3>3. b.creds.tok = "layer" => b.creds.choice \in {"none", "protect", "bad"}
      BY <2>1 DEF Creds
    <3> QED  BY <3>1, <3>2, <3>3, <2>6 DEF GssChooseLayer, SecurityLayerActive
  <2>7. CASE fips /\ state.st = "active"
    BY <2>2, <2>7 DEF HandleSaslBind
  <2> QED  BY <2>3, <2>4, <2>5, <2>6, <2>7
<1> QED  BY <1>1, <1>2

-----------------------------------------------------------------------------
\* send_response's counter keeps the SASL state well typed.
LEMMA AdvanceType ==
    ASSUME NEW state \in SaslStates
    PROVE  /\ Advance(state) \in SaslStates
           /\ UsedSeq(state) \in Seq(Nat)
           /\ Advance(state).st = state.st
           /\ state.st # "none" => Advance(state).key = state.key
<1>1. CASE Active(state)
  <2>1. state \in [st : {"active"}, key : Users, sendSeq : Nat]
    BY <1>1 DEF Active, SaslStates, None
  <2> QED  BY <1>1, <2>1 DEF Advance, UsedSeq, SaslStates, Active
<1>2. CASE ~Active(state)
  BY <1>2 DEF Advance, UsedSeq
<1> QED  BY <1>1, <1>2

\* Appending the number in hand to a gapless run of SND_SEQs leaves it gapless.
LEMMA SeqFacts ==
    ASSUME NEW S, NEW q \in Seq(S)
    PROVE  /\ q # <<>> => Head(q) \in S /\ Tail(q) \in Seq(S)
           /\ \A x \in S : Append(q, x) \in Seq(S)
           /\ \A p \in Seq(S) : q \o p \in Seq(S)
  OBVIOUS

\* What Other and StartTls have in common: one answer under the current state.
LEMMA AnswerFacts ==
    ASSUME TypeOK, Other \/ StartTls
    PROVE  /\ sasl' = Advance(sasl) /\ seqs' = seqs \o UsedSeq(sasl)
           /\ buf # <<>>
           /\ buf' = Tail(buf) \/ buf' = <<>>
           /\ \E says \in {"tlsOn", "answer"} :
                wire' = Append(wire, [wrapped |-> Active(sasl), says |-> says])
<1>1. CASE Other
  BY <1>1 DEF Other, Respond, ReadNextMessage
<1>2. CASE StartTls
  BY <1>2 DEF StartTls, Respond, ReadNextMessage, BufferAfterTls
<1> QED  BY <1>1, <1>2

\* What a BindRequest at the head of the buffer is.
LEMMA ReadBind ==
    ASSUME TypeOK, ReadNextMessage("bind")
    PROVE  Head(buf) \in Messages /\ Head(buf).req \in Binds /\ Tail(buf) \in Seq(Messages)
<1>1. Head(buf) \in Messages /\ Tail(buf) \in Seq(Messages)
  BY DEF TypeOK, ReadNextMessage
<1>2. Head(buf).req \in Requests /\ Head(buf).req.op = "bind"
  BY <1>1 DEF ReadNextMessage, Messages
<1> QED  BY <1>1, <1>2 DEF Requests

\* TypeOK is an invariant of the session.
THEOREM SessionTypeCorrect == Spec => []TypeOK
<1>1. Init => TypeOK
  <2> SUFFICES ASSUME Init
               PROVE  TypeOK
    OBVIOUS
  <2>1. None \in SaslStates /\ Nobody \in Identities /\ 0 \in 0..MaxRequests
    BY SessionAssumption DEF SaslStates, Identities
  <2>2. <<>> \in Seq(Messages) /\ <<>> \in Seq(Responses) /\ <<>> \in Seq(Nat)
    OBVIOUS
  <2>3. net = <<>> /\ buf = <<>> /\ wire = <<>> /\ seqs = <<>> /\ sasl = None /\ identity = Nobody
    BY DEF Init
  <2>4. /\ fips \in BOOLEAN /\ tlsReady \in BOOLEAN /\ conn \in {"plain", "tls", "closed"}
        /\ cTls \in BOOLEAN /\ cLayer \in BOOLEAN /\ sent = 0 /\ rebound \in BOOLEAN
        /\ exchange \in {Nobody} \cup {Princ(u) : u \in Users}
    BY Zenon DEF Init
  <2> QED  BY <2>1, <2>2, <2>3, <2>4 DEF TypeOK
<1>2. TypeOK /\ [Next]_vars => TypeOK'
  <2> SUFFICES ASSUME TypeOK, [Next]_vars
               PROVE  TypeOK'
    OBVIOUS
  <2>2. ASSUME NEW r \in Requests, ClientSend(r)
        PROVE  TypeOK'
    <3>1. [req |-> r, via |-> IF cTls THEN "tls" ELSE "plain", wrapped |-> cLayer] \in Messages
      BY DEF TypeOK, Messages
    <3>2. net' \in Seq(Messages)
      BY <2>2, <3>1 DEF ClientSend, TypeOK
    <3>3. sent' \in 0..MaxRequests
      BY <2>2, SessionAssumption DEF ClientSend, TypeOK
    <3> QED  BY <2>2, <3>2, <3>3 DEF ClientSend, TypeOK, config, ghosts
  <2>3. CASE ClientReceive
    <3>1. wire' \in Seq(Responses)
      BY <2>3 DEF ClientReceive, TypeOK
    <3> QED  BY <2>3, <3>1 DEF ClientReceive, TypeOK, config, ghosts
  <2>4. CASE Receive
    <3>1. net' \in Seq(Messages) /\ buf' \in Seq(Messages)
      <4>1. Head(net) \in Messages /\ Tail(net) \in Seq(Messages)
        BY <2>4, SeqFacts DEF Receive, TypeOK
      <4>2. Append(buf, Head(net)) \in Seq(Messages)
        BY <4>1 DEF TypeOK
      <4> QED  BY Zenon, <2>4, <4>1, <4>2 DEF Receive, TypeOK
    <3> QED  BY <2>4, <3>1 DEF Receive, TypeOK, config, client, ghosts
  <2>5. CASE BadFraming \/ Unbind \/ Disconnect
    BY <2>5 DEF BadFraming, Unbind, Disconnect, TypeOK, config, client, ghosts
  <2>6. CASE Bind
    <3> DEFINE b == Head(buf).req
    <3>1. PICK ok \in BOOLEAN :
            LET r == HandleBind(sasl, b, ok)
                send == BindSendState(sasl, r.sasl)
                accepted == sasl.st = "none" /\ r.more
            IN  /\ sasl' = r.sasl
                /\ identity' = IF r.more THEN identity ELSE r.id
                /\ Respond(send, IF Active(r.sasl) /\ ~Active(sasl) THEN "layerOn" ELSE "answer")
                /\ seqs' = (IF accepted THEN <<>> ELSE seqs)
                             \o (IF r.challenge THEN <<0>> ELSE <<>>) \o UsedSeq(send)
                /\ exchange' = IF accepted THEN Princ(b.creds.user)
                               ELSE IF r.more THEN exchange ELSE Nobody
                /\ rebound' = (rebound \/ Active(sasl))
      BY ZenonT(40), <2>6 DEF Bind
    <3> DEFINE r == HandleBind(sasl, b, ok)
    <3>2. b \in Binds /\ Tail(buf) \in Seq(Messages) /\ sasl \in SaslStates
      BY Zenon, <2>6, ReadBind DEF Bind, TypeOK
    <3>3. /\ r \in Outcomes
          /\ r.more /\ sasl.st = "none" => b.creds.user \in Users
      BY <3>2, BindFacts
    <3>4. UsedSeq(sasl) \in Seq(Nat)
      BY <3>2, AdvanceType
    <3> HIDE DEF r, b
    <3>5. sasl' \in SaslStates /\ identity' \in Identities /\ rebound' \in BOOLEAN
      BY <3>1, <3>3 DEF r, Outcomes, TypeOK
    <3>6. wire' \in Seq(Responses)
      BY <3>1 DEF Respond, Responses, TypeOK, Active
    <3>7. seqs' \in Seq(Nat)
      BY <3>1, <3>4 DEF BindSendState, TypeOK
    <3>8. exchange' \in {Nobody} \cup {Princ(u) : u \in Users}
      BY SMTT(30), <3>1, <3>3 DEF r, TypeOK
    <3>9. buf' \in Seq(Messages)
      BY Zenon, <2>6, <3>2 DEF Bind
    <3> QED  BY ZenonT(40), <2>6, <3>5, <3>6, <3>7, <3>8, <3>9 DEF Bind, TypeOK, config, client
  <2>7. CASE Other \/ StartTls
    <3>1. sasl' \in SaslStates /\ seqs' \in Seq(Nat)
      <4>1. Advance(sasl) \in SaslStates /\ UsedSeq(sasl) \in Seq(Nat)
        BY AdvanceType DEF TypeOK
      <4>2. seqs \o UsedSeq(sasl) \in Seq(Nat)
        BY <4>1, SeqFacts DEF TypeOK
      <4> QED  BY Zenon, <2>7, <4>1, <4>2, AnswerFacts
    <3>2. wire' \in Seq(Responses)
      <4>1. \A says \in {"tlsOn", "answer"} :
              [wrapped |-> Active(sasl), says |-> says] \in Responses
        BY DEF Responses, Active
      <4>2. PICK says \in {"tlsOn", "answer"} :
              wire' = Append(wire, [wrapped |-> Active(sasl), says |-> says])
        BY <2>7, AnswerFacts
      <4> QED  BY <4>1, <4>2, SeqFacts DEF TypeOK
    <3>3. buf' \in Seq(Messages)
      <4>1. buf # <<>> => Tail(buf) \in Seq(Messages)
        BY SeqFacts DEF TypeOK
      <4>2. <<>> \in Seq(Messages)
        OBVIOUS
      <4> QED  BY Zenon, <2>7, <4>1, <4>2, AnswerFacts
    <3>4. conn' \in {"plain", "tls", "closed"}
      BY <2>7 DEF Other, StartTls, TypeOK
    <3> QED  BY <2>7, <3>1, <3>2, <3>3, <3>4 DEF Other, StartTls, TypeOK, config, client
  <2>8. CASE Abandon
    BY <2>8 DEF Abandon, ReadNextMessage, TypeOK, config, client, ghosts
  <2>9. CASE UNCHANGED vars
    BY <2>9 DEF vars, TypeOK, config, client, ghosts
  <2> QED  BY <2>2, <2>3, <2>4, <2>5, <2>6, <2>7, <2>8, <2>9 DEF Next
<1> QED  BY <1>1, <1>2, PTL DEF Spec

-----------------------------------------------------------------------------
(* One inductive invariant for the three session theorems: how far the GSS  *)
(* context's tokens have got in each SASL state, whose exchange it is, and  *)
(* what may sit in the read buffer.                                         *)
SeqInv ==
    /\ SndSeqAdvances
    /\ sasl.st = "apRepAck" => seqs = <<>>
    /\ sasl.st = "layerAck" => Len(seqs) = 1
    /\ sasl.st = "active" => Len(seqs) = sasl.sendSeq

OwnerInv == sasl.st \in {"apRepAck", "layerAck"} => exchange = Princ(sasl.key)

BufInv == conn # "closed" => \A i \in 1..Len(buf) : buf[i].via = conn

SessionInv == (~rebound => SeqInv) /\ OwnerInv /\ BufInv

\* Adding the next number keeps a run of SND_SEQs a run.
LEMMA NextSeq ==
    ASSUME NEW q \in Seq(Nat), \A i \in 1..Len(q) : q[i] = i - 1
    PROVE  /\ q \o <<>> = q
           /\ Len(q \o <<Len(q)>>) = Len(q) + 1
           /\ \A i \in 1..Len(q \o <<Len(q)>>) : (q \o <<Len(q)>>)[i] = i - 1
  OBVIOUS

\* A bind keeps the sequence numbers, the exchange and the identity in step.
LEMMA BindStep ==
    ASSUME TypeOK, SessionInv, Bind
    PROVE  /\ (~rebound => SeqInv)' /\ OwnerInv'
           /\ \A u \in Users : identity' = Princ(u) /\ identity # Princ(u) => exchange = Princ(u)
<1> DEFINE b == Head(buf).req
<1>1. PICK ok \in BOOLEAN :
        LET r == HandleBind(sasl, b, ok)
            send == BindSendState(sasl, r.sasl)
            accepted == sasl.st = "none" /\ r.more
        IN  /\ sasl' = r.sasl
            /\ identity' = IF r.more THEN identity ELSE r.id
            /\ Respond(send, IF Active(r.sasl) /\ ~Active(sasl) THEN "layerOn" ELSE "answer")
            /\ seqs' = (IF accepted THEN <<>> ELSE seqs)
                         \o (IF r.challenge THEN <<0>> ELSE <<>>) \o UsedSeq(send)
            /\ exchange' = IF accepted THEN Princ(b.creds.user)
                           ELSE IF r.more THEN exchange ELSE Nobody
            /\ rebound' = (rebound \/ Active(sasl))
  BY ZenonT(40) DEF Bind
<1> DEFINE r == HandleBind(sasl, b, ok)
<1>2. b \in Binds /\ sasl \in SaslStates
  BY ZenonT(40), ReadBind DEF Bind, TypeOK
<1>3. /\ r \in Outcomes
      /\ r.more /\ sasl.st = "none" =>
           /\ b.creds.user \in Users
           /\ r.sasl.st \in {"apRepAck", "layerAck"} /\ r.sasl.key = b.creds.user
           /\ r.challenge <=> r.sasl.st = "layerAck"
      /\ r.more /\ sasl.st # "none" =>
           /\ sasl.st = "apRepAck" /\ r.challenge
           /\ r.sasl.st = "layerAck" /\ r.sasl.key = sasl.key
      /\ ~r.more =>
           /\ ~r.challenge
           /\ r.sasl.st \in {"none", "active"}
           /\ r.sasl.st = "active" => \/ sasl.st = "active" /\ r.sasl = sasl
                                      \/ sasl.st = "layerAck" /\ r.sasl.sendSeq = 1
           /\ \A u \in Users : r.id = Princ(u) => sasl.st = "layerAck" /\ sasl.key = u
  BY <1>2, BindFacts
<1> HIDE DEF r, b
<1>4. OwnerInv'
  BY <1>1, <1>3 DEF r, OwnerInv, SessionInv
<1>5. \A u \in Users : identity' = Princ(u) /\ identity # Princ(u) => exchange = Princ(u)
  BY <1>1, <1>3 DEF r, OwnerInv, SessionInv
<1>6. ASSUME ~rebound'
      PROVE  SeqInv'
  <2>1. ~rebound /\ sasl.st # "active" /\ SeqInv
    BY Zenon, <1>1, <1>6 DEF Active, SessionInv
  <2>2. seqs' = (IF sasl.st = "none" /\ r.more THEN <<>> ELSE seqs)
                  \o (IF r.challenge THEN <<0>> ELSE <<>>)
    <3> DEFINE was == IF sasl.st = "none" /\ r.more THEN <<>> ELSE seqs
               chal == IF r.challenge THEN <<0>> ELSE <<>>
    <3>1. UsedSeq(BindSendState(sasl, r.sasl)) = <<>>
      BY <2>1 DEF BindSendState, UsedSeq, Active
    <3>2. was \in Seq(Nat) /\ chal \in Seq(Nat)
      BY DEF TypeOK
    <3>3. seqs' = was \o chal \o <<>>
      BY <1>1, <3>1 DEF r
    <3> HIDE DEF was, chal
    <3>4. was \o chal \o <<>> = was \o chal
      BY <3>2
    <3> QED  BY <3>3, <3>4 DEF was, chal
  <2>3. sasl' = r.sasl /\ seqs \in Seq(Nat)
    BY <1>1 DEF r, TypeOK
  <2>4. CASE r.more /\ sasl.st = "none"
    BY <2>2, <2>3, <2>4, <1>3 DEF SeqInv, SndSeqAdvances
  <2>5. CASE r.more /\ sasl.st # "none"
    <3>1. seqs = <<>>
      BY <2>1, <2>5, <1>3 DEF SeqInv
    <3> QED  BY <2>2, <2>3, <2>5, <1>3, <3>1 DEF SeqInv, SndSeqAdvances
  <2>6. CASE ~r.more
    <3>1. seqs' = seqs
      BY <2>2, <2>3, <2>6, <1>3
    <3> QED  BY <2>1, <2>3, <2>6, <1>3, <3>1 DEF SeqInv, SndSeqAdvances
  <2> QED  BY <2>4, <2>5, <2>6
<1> QED  BY SMTT(30), <1>4, <1>5, <1>6

\* So does the answer to any other request.
LEMMA AnswerStep ==
    ASSUME TypeOK, SessionInv, Other \/ StartTls
    PROVE  (~rebound => SeqInv)' /\ OwnerInv'
<1>1. /\ sasl' = Advance(sasl) /\ seqs' = seqs \o UsedSeq(sasl)
      /\ rebound' = rebound /\ exchange' = exchange /\ sasl \in SaslStates /\ seqs \in Seq(Nat)
  BY AnswerFacts DEF Other, StartTls, TypeOK
<1>2. Advance(sasl).st = sasl.st /\ (sasl.st # "none" => Advance(sasl).key = sasl.key)
  BY <1>1, AdvanceType
<1>3. OwnerInv'
  BY <1>1, <1>2 DEF SessionInv, OwnerInv
<1>4. ASSUME ~rebound
      PROVE  SeqInv'
  <2>1. SeqInv
    BY <1>4 DEF SessionInv
  <2>2. CASE Active(sasl)
    <3>1. sasl \in [st : {"active"}, key : Users, sendSeq : Nat]
      BY <1>1, <2>2 DEF Active, SaslStates, None
    <3>2. Advance(sasl).sendSeq = sasl.sendSeq + 1 /\ UsedSeq(sasl) = <<Len(seqs)>>
      BY <2>1, <2>2, <3>1 DEF Advance, UsedSeq, SeqInv, Active
    <3>3. Len(seqs') = Len(seqs) + 1 /\ \A i \in 1..Len(seqs') : seqs'[i] = i - 1
      BY <1>1, <2>1, <3>2, NextSeq DEF SeqInv, SndSeqAdvances
    <3> QED  BY <1>1, <1>2, <2>1, <2>2, <3>2, <3>3 DEF SeqInv, SndSeqAdvances, Active
  <2>3. CASE ~Active(sasl)
    <3>1. sasl' = sasl /\ seqs' = seqs
      BY <1>1, <2>3 DEF Advance, UsedSeq
    <3> QED  BY <2>1, <3>1 DEF SeqInv, SndSeqAdvances
  <2> QED  BY <2>2, <2>3
<1> QED  BY <1>1, <1>3, <1>4

\* No step of the loop puts plaintext into the buffer of a TLS connection.
LEMMA BufStep ==
    ASSUME TypeOK, BufInv, Next
    PROVE  BufInv'
<1>1. ASSUME buf # <<>>, buf' = Tail(buf), conn' = conn
      PROVE  BufInv'
  BY <1>1 DEF TypeOK, BufInv
<1>2. CASE Receive
  <2>1. CASE Head(net).via = conn
    <3>1. buf' = Append(buf, Head(net)) /\ conn' = conn /\ buf \in Seq(Messages)
      BY <1>2, <2>1 DEF Receive, TypeOK
    <3> QED  BY <2>1, <3>1 DEF BufInv
  <2>2. CASE Head(net).via # conn
    BY SMTT(30), <1>2, <2>2 DEF Receive, BufInv
  <2> QED  BY <2>1, <2>2
<1>3. CASE Bind \/ Other \/ Abandon
  BY Zenon, <1>1, <1>3 DEF Bind, Other, Abandon, ReadNextMessage
<1>4. CASE StartTls
  <2>1. CASE conn = "plain" /\ tlsReady
    BY <1>4, <2>1 DEF StartTls, BufferAfterTls, BufInv
  <2>2. CASE ~(conn = "plain" /\ tlsReady)
    BY <1>1, <1>4, <2>2 DEF StartTls, ReadNextMessage
  <2> QED  BY <2>1, <2>2
<1>5. CASE BadFraming \/ Unbind \/ Disconnect
  BY <1>5 DEF BadFraming, Unbind, Disconnect, BufInv
<1>6. CASE ClientReceive \/ \E r \in Requests : ClientSend(r)
  BY Zenon, <1>6 DEF ClientReceive, ClientSend, BufInv
<1> QED  BY <1>2, <1>3, <1>4, <1>5, <1>6 DEF Next

\* Every step preserves the session's inductive invariant.
LEMMA SessionInvStep == TypeOK /\ SessionInv /\ [Next]_vars => SessionInv'
<1> SUFFICES ASSUME TypeOK, SessionInv, [Next]_vars
             PROVE  SessionInv'
  OBVIOUS
<1>1. CASE Bind
  BY <1>1, BindStep, BufStep DEF SessionInv, Next
<1>2. CASE Other \/ StartTls
  BY <1>2, AnswerStep, BufStep DEF SessionInv, Next
<1>3. ASSUME UNCHANGED <<sasl, ghosts>>
      PROVE  (~rebound => SeqInv)' /\ OwnerInv'
  BY <1>3 DEF ghosts, SessionInv, SeqInv, SndSeqAdvances, OwnerInv
<1>4. CASE Receive \/ BadFraming \/ Abandon \/ Unbind \/ Disconnect \/ ClientReceive
             \/ \E r \in Requests : ClientSend(r)
  <2>1. UNCHANGED <<sasl, ghosts>>
    BY Zenon, <1>4 DEF Receive, BadFraming, Abandon, Unbind, Disconnect, ClientReceive, ClientSend
  <2> QED  BY <1>3, <1>4, <2>1, BufStep DEF SessionInv, Next
<1>5. CASE UNCHANGED vars
  BY <1>3, <1>5 DEF vars, SessionInv, BufInv
<1> QED  BY <1>1, <1>2, <1>4, <1>5 DEF Next

\* The inductive invariant holds throughout.
LEMMA SessionInvariant == Spec => [](TypeOK /\ SessionInv)
<1>1. Init => SessionInv
  BY DEF Init, SessionInv, SeqInv, SndSeqAdvances, OwnerInv, BufInv, None
<1> QED  BY <1>1, SessionTypeCorrect, SessionInvStep, PTL DEF Spec

\* Every Wrap token the server sends on a GSS context carries the next
\* SND_SEQ, as long as no BindRequest arrives through the active layer.
THEOREM SndSeqThm == Spec => []SndSeqAdvancesUnlessRebound
<1>1. SessionInv => SndSeqAdvancesUnlessRebound
  BY DEF SessionInv, SeqInv, SndSeqAdvancesUnlessRebound
<1> QED  BY <1>1, SessionInvariant, PTL

\* A request that was read before StartTLS completed is never executed after.
THEOREM NoPlaintextThm == Spec => []NoPlaintextAfterTls
<1>1. SessionInv => NoPlaintextAfterTls
  BY DEF SessionInv, BufInv, NoPlaintextAfterTls
<1> QED  BY <1>1, SessionInvariant, PTL

\* A principal's identity is only ever set by the last step of that
\* principal's own unbroken GSSAPI exchange.
THEOREM ExchangeThm == Spec => ExchangeUnbroken
<1> DEFINE Step == \A u \in Users : identity' = Princ(u) /\ identity # Princ(u)
                                        => exchange = Princ(u)
<1>1. TypeOK /\ SessionInv /\ [Next]_vars => [Step]_vars
  <2> SUFFICES ASSUME TypeOK, SessionInv, Next
               PROVE  Step
    OBVIOUS
  <2>1. CASE Bind
    BY <2>1, BindStep
  <2>2. CASE ~Bind
    <3>1. identity' = identity
      BY Zenon, <2>2 DEF Next, Receive, BadFraming, Other, StartTls, Abandon, Unbind, Disconnect,
                  ClientReceive, ClientSend
    <3> QED  BY <3>1
  <2> QED  BY <2>1, <2>2
<1> QED  BY <1>1, SessionInvariant, PTL DEF Spec, ExchangeUnbroken
=============================================================================
