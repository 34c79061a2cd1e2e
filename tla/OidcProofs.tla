----------------------------- MODULE OidcProofs -----------------------------
(***************************************************************************)
(* For any number of concurrent requests, clients, codes, accounts and     *)
(* restarts: the code store implements the one-shot Grant, and no code is  *)
(* honoured late or by a later run of the process.                         *)
(***************************************************************************)
EXTENDS Oidc, TLAPS

USE OidcAssumption

\* A request nobody touches stays well typed while codes are only added.
LEMMA JobStays ==
    ASSUME NEW q \in Reqs, JobOK(q), pc'[q] = pc[q], job'[q] = job[q],
           Len(issued) \in Nat, Len(issued') \in Nat, Len(issued) <= Len(issued')
    PROVE  JobOK(q)'
<1>1. 1 .. Len(issued) \subseteq 1 .. Len(issued')
  OBVIOUS
<1>2. Consumed \subseteq Consumed' /\ Read \subseteq Read'
  BY <1>1 DEF Consumed, Read
<1> QED
  BY <1>2 DEF JobOK, Found, Verified, Bearer

JobsTyped == pc \in [Reqs -> Steps] /\ DOMAIN job = Reqs /\ \A q \in Reqs : JobOK(q)

\* A request that finishes, or moves on with a well typed job, stays well typed,
\* and so do all the others.
LEMMA JobsAfter ==
    ASSUME TypeOK, NEW r \in Reqs, Len(issued') \in Nat, Len(issued) <= Len(issued'),
           NEW step, NEW j,
           \/ Finish(r)
           \/ /\ Advance(r, step, j)
              /\ \/ step = "found" /\ j \in Found
                 \/ step = "verified" /\ j \in Verified
                 \/ step = "consumed" /\ j \in Consumed'
                 \/ step = "read" /\ j \in Read'
                 \/ step = "bearer" /\ j \in Bearer
    PROVE  JobsTyped'
<1>1. pc' \in [Reqs -> Steps] /\ DOMAIN job' = Reqs
  BY DEF TypeOK, Finish, Advance, Steps
<1>2. JobOK(r)'
  BY DEF TypeOK, Finish, Advance, JobOK, Found, Verified, Bearer
<1>3. ASSUME NEW q \in Reqs, q # r PROVE JobOK(q)'
  <2>1. pc'[q] = pc[q] /\ job'[q] = job[q]
    BY <1>3 DEF TypeOK, Finish, Advance
  <2>2. JobOK(q) /\ Len(issued) \in Nat
    BY DEF TypeOK
  <2> QED
    BY <2>1, <2>2, JobStays
<1> QED
  BY <1>1, <1>2, <1>3 DEF JobsTyped

\* JobsAfter for a request that finishes.
LEMMA JobsFinish ==
    ASSUME TypeOK, NEW r \in Reqs, Len(issued') \in Nat, Len(issued) <= Len(issued'), Finish(r)
    PROVE  JobsTyped'
BY JobsAfter

\* A step that touches no request and no code keeps the jobs well typed.
LEMMA JobsUnchanged ==
    ASSUME TypeOK, UNCHANGED <<pc, job, issued>>
    PROVE  JobsTyped'
<1>1. \A q \in Reqs : JobOK(q)'
  BY JobStays DEF TypeOK
<1> QED
  BY <1>1 DEF TypeOK, JobsTyped

\* Every handler step keeps the types of what requests carry and of what is
\* issued and signed.
THEOREM OidcTypeCorrect == Spec => []TypeOK
<1>1. Init => TypeOK
  <2> SUFFICES ASSUME Init PROVE TypeOK
    OBVIOUS
  <2>1. now \in Nat /\ epoch \in Nat
    BY DEF Init
  <2>2. dir \in [Dns -> Entry \cup {NoEntry}] /\ writes \in Seq(Dns)
    BY DEF Init
  <2>3. issued \in Seq(Issued) /\ Len(issued) <= MaxCodes /\ codes \subseteq 1 .. Len(issued)
    BY DEF Init
  <2>4. tokens \in [Codes -> Seq(Token)]
    BY DEF Init
  <2>5. pc \in [Reqs -> Steps] /\ DOMAIN job = Reqs
    BY DEF Init, Steps
  <2>6. \A r \in Reqs : JobOK(r)
    BY Zenon DEF Init, JobOK
  <2> QED
    BY <2>1, <2>2, <2>3, <2>4, <2>5, <2>6 DEF TypeOK
<1>2. TypeOK /\ [Next]_vars => TypeOK'
  <2> SUFFICES ASSUME TypeOK, [Next]_vars PROVE TypeOK'
    OBVIOUS
  <2> DEFINE Rest == <<now, dir, writes, epoch, codes, issued, tokens>>
  <2>0. ASSUME JobsTyped', UNCHANGED Rest PROVE TypeOK'
    BY <2>0 DEF TypeOK, JobsTyped
  <2>1. CASE UNCHANGED vars
    BY <2>0, <2>1, JobsUnchanged DEF vars
  <2>2. ASSUME NEW r \in Reqs, NEW cl \in Clients, NEW uri \in Uris, NEW name \in Names,
               NEW p \in Passwords, SubmitLogin(r, cl, uri, name, p)
        PROVE  TypeOK'
    <3>1. PICK d \in Dns : Advance(r, "found", [client |-> cl, dn |-> d, pwd |-> p])
      BY <2>2 DEF SubmitLogin
    <3>2. UNCHANGED Rest
      BY <2>2 DEF SubmitLogin, dirvars
    <3>3. [client |-> cl, dn |-> d, pwd |-> p] \in Found
      BY DEF Found
    <3> QED
      BY <2>0, <3>1, <3>2, <3>3, JobsAfter DEF TypeOK
  <2>3. ASSUME NEW r \in Reqs, CheckPassword(r) PROVE TypeOK'
    <3> DEFINE e == dir[job[r].dn]
               j == [client |-> job[r].client, dn |-> job[r].dn, entry |-> e]
    <3>1. job[r] \in Found /\ UNCHANGED Rest
      BY <2>3 DEF CheckPassword, TypeOK, JobOK, dirvars
    <3>2. Finish(r) \/ (e # NoEntry /\ Advance(r, "verified", j))
      BY <2>3 DEF CheckPassword
    <3>3. e # NoEntry => j \in Verified
      BY <3>1 DEF TypeOK, Found, Verified
    <3> HIDE DEF e, j
    <3>4. Len(issued') \in Nat /\ Len(issued) <= Len(issued')
      BY <3>1 DEF TypeOK
    <3>5. JobsTyped'
      BY <3>2, <3>3, <3>4, JobsFinish, JobsAfter
    <3> QED
      BY <2>0, <3>1, <3>5
  <2>4. ASSUME NEW r \in Reqs, IssueCode(r) PROVE TypeOK'
    <3>1. job[r] \in Verified /\ Finish(r) /\ UNCHANGED <<now, dir, writes, epoch, tokens>>
      BY <2>4, Zenon DEF IssueCode, TypeOK, JobOK, dirvars
    <3> DEFINE new == [client |-> job[r].client, sub |-> job[r].dn, expires |-> now + CodeTtl,
                       at |-> now, key |-> epoch, entry |-> job[r].entry]
    <3>2. new \in Issued
      BY <3>1 DEF TypeOK, Issued, Verified
    <3>3. issued' = Append(issued, new) /\ Len(issued) < MaxCodes /\ codes' = codes \cup {Len(issued) + 1}
      BY <2>4 DEF IssueCode
    <3> HIDE DEF new
    <3>4. issued' \in Seq(Issued) /\ Len(issued') = Len(issued) + 1 /\ Len(issued) \in Nat
      BY <3>2, <3>3 DEF TypeOK
    <3>5. JobsTyped'
      BY <3>1, <3>4, JobsFinish
    <3>6. codes' \subseteq 1 .. Len(issued') /\ Len(issued') <= MaxCodes
      <4>1. codes \subseteq 1 .. Len(issued)
        BY DEF TypeOK
      <4>2. \A n \in Nat : 1 .. n \subseteq 1 .. (n + 1) /\ n + 1 \in 1 .. (n + 1)
        OBVIOUS
      <4>3. codes' \subseteq 1 .. (Len(issued) + 1)
        BY <3>3, <3>4, <4>1, <4>2, Zenon
      <4>4. Len(issued) + 1 <= MaxCodes
        BY <3>3, <3>4
      <4> QED
        BY <3>4, <4>3, <4>4
    <3> QED
      BY <3>1, <3>4, <3>5, <3>6 DEF TypeOK, JobsTyped
  <2>5. ASSUME NEW r \in Reqs, NEW cl \in Clients, NEW uri \in Uris, NEW c \in codes,
               PresentCode(r, cl, uri, c)
        PROVE  TypeOK'
    <3> DEFINE j == [client |-> cl, code |-> c, at |-> now, rev |-> Rev]
    <3>1. /\ UNCHANGED <<now, dir, writes, epoch, issued, tokens>>
          /\ codes' = codes \ {c}
          /\ Finish(r) \/ Advance(r, "consumed", j)
      BY <2>5 DEF PresentCode, consume, dirvars
    <3>2. j \in Consumed'
      BY <3>1 DEF TypeOK, Consumed, Rev
    <3> HIDE DEF j
    <3>3. JobsTyped'
      BY <3>1, <3>2, JobsAfter DEF TypeOK
    <3> QED
      BY <3>1, <3>3 DEF TypeOK, JobsTyped
  <2>6. ASSUME NEW r \in Reqs, ReadSubject(r) PROVE TypeOK'
    <3>1. job[r] \in Consumed /\ UNCHANGED Rest
      BY <2>6 DEF ReadSubject, TypeOK, JobOK, dirvars
    <3> DEFINE e == dir[issued[job[r].code].sub]
    <3>2. issued[job[r].code] \in Issued
      BY <3>1 DEF TypeOK, Consumed
    <3>3. e \in Entry \cup {NoEntry}
      BY <3>2 DEF TypeOK, Issued
    <3>4. Finish(r) \/ (e # NoEntry /\ Advance(r, "read", WithEntry(job[r], e)))
      BY <2>6 DEF ReadSubject
    <3> HIDE DEF e
    <3>5. e # NoEntry => WithEntry(job[r], e) \in Read'
      BY <3>1, <3>3 DEF WithEntry, Consumed, Read
    <3>6. Len(issued') \in Nat /\ Len(issued) <= Len(issued')
      BY <3>1 DEF TypeOK
    <3>7. JobsTyped'
      BY <3>4, <3>5, <3>6, JobsFinish, JobsAfter
    <3> QED
      BY <2>0, <3>1, <3>7
  <2>7. ASSUME NEW r \in Reqs, Sign(r) PROVE TypeOK'
    <3>1. job[r] \in Read /\ UNCHANGED <<now, dir, writes, epoch, codes, issued>> /\ Finish(r)
      BY <2>7, Zenon DEF Sign, TypeOK, JobOK, dirvars
    <3> DEFINE t == [client |-> job[r].client, key |-> epoch, exp |-> now + TokenTtl,
                     entry |-> job[r].entry, presented |-> job[r].at, since |-> job[r].rev]
    <3>2. t \in Token
      BY <3>1 DEF TypeOK, Read, Token
    <3>3. tokens' = [tokens EXCEPT ![job[r].code] = Append(@, t)]
      BY <2>7 DEF Sign
    <3> HIDE DEF t
    <3>4. tokens' \in [Codes -> Seq(Token)]
      <4>1. tokens \in [Codes -> Seq(Token)]
        BY DEF TypeOK
      <4>2. \A c \in Codes : Append(tokens[c], t) \in Seq(Token)
        BY <3>2, <4>1
      <4> QED
        BY <3>3, <4>1, <4>2, Zenon
    <3>5. JobsTyped'
      BY <3>1, JobsFinish DEF TypeOK
    <3> QED
      BY <3>1, <3>4, <3>5 DEF TypeOK, JobsTyped
  <2>8. ASSUME NEW r \in Reqs, NEW c \in Codes, NEW i \in 1 .. Len(tokens[c]), PresentToken(r, c, i)
        PROVE  TypeOK'
    <3> DEFINE j == [code |-> c, tok |-> i, at |-> now, rev |-> Rev]
    <3>1. UNCHANGED Rest /\ Advance(r, "bearer", j)
      BY <2>8 DEF PresentToken, dirvars
    <3>2. j \in Bearer
      BY DEF TypeOK, Bearer, Rev
    <3> HIDE DEF j
    <3> QED
      BY <2>0, <3>1, <3>2, JobsAfter DEF TypeOK
  <2>9. ASSUME NEW r \in Reqs, AnswerUserinfo(r) \/ RequestFails(r) PROVE TypeOK'
    <3>1. Finish(r) /\ UNCHANGED Rest
      BY <2>9 DEF AnswerUserinfo, RequestFails, dirvars
    <3> QED
      BY <2>0, <3>1, JobsFinish DEF TypeOK
  <2>10. ASSUME NEW d \in Dns, NEW new, new \in Entry \cup {NoEntry}, WriteDirectory(d, new)
         PROVE  TypeOK'
    <3>1. UNCHANGED <<now, epoch, pc, job, codes, issued, tokens>>
      BY <2>10 DEF WriteDirectory, reqvars
    <3>2. JobsTyped'
      BY <3>1, JobsUnchanged
    <3>3. dir' \in [Dns -> Entry \cup {NoEntry}] /\ writes' \in Seq(Dns)
      BY <2>10 DEF WriteDirectory, TypeOK
    <3> QED
      BY <3>1, <3>2, <3>3 DEF TypeOK, JobsTyped
  <2>11. ASSUME NEW d \in Dns, NEW name \in Names, NEW p \in Passwords, PutEntry(d, name, p)
         PROVE  TypeOK'
    <3> DEFINE new == [born |-> IF dir[d] = NoEntry THEN Rev + 1 ELSE dir[d].born,
                       rev |-> Rev + 1, uid |-> name, pwd |-> p]
    <3>1. Rev + 1 \in 1 .. MaxRev
      BY <2>11 DEF PutEntry, WriteDirectory, Rev, TypeOK
    <3>2. new \in Entry
      BY <3>1 DEF Entry, TypeOK
    <3>3. WriteDirectory(d, new)
      BY <2>11 DEF PutEntry
    <3> HIDE DEF new
    <3> QED
      BY <2>10, <3>2, <3>3
  <2>12. CASE Restart
    <3>1. JobsTyped'
      BY <2>12, ZenonT(40) DEF Restart, JobsTyped, JobOK, Steps
    <3> QED
      BY <2>12, <3>1 DEF Restart, TypeOK, JobsTyped, dirvars
  <2>13. CASE Tick
    <3>1. JobsTyped'
      BY <2>13, JobsUnchanged DEF Tick, reqvars
    <3> QED
      BY <2>13, <3>1 DEF Tick, TypeOK, JobsTyped, dirvars
  <2> QED
    BY <2>1, <2>2, <2>3, <2>4, <2>5, <2>6, <2>7, <2>8, <2>9, <2>10, <2>11, <2>12, <2>13 DEF Next
<1> QED
  BY <1>1, <1>2, PTL DEF Spec

-----------------------------------------------------------------------------
\* What makes the grant one-shot: a code in the store has paid nothing, a code
\* being redeemed is out of the store, has paid nothing, belongs to the client
\* redeeming it, and no other request is redeeming it.
OneShot ==
    /\ \A c \in Codes : tokens[c] # << >> => c <= Len(issued)
    /\ \A c \in codes : tokens[c] = << >>
    /\ \A r \in Reqs : Redeeming(r) =>
          /\ job[r].code \in 1 .. Len(issued)
          /\ job[r].code \notin codes
          /\ tokens[job[r].code] = << >>
          /\ job[r].client = issued[job[r].code].client
    /\ \A r, q \in Reqs : Redeeming(r) /\ Redeeming(q) /\ job[r].code = job[q].code => r = q

\* Requests that are redeeming after the step were doing so before it, with the
\* same code.
NoneNew ==
    \A q \in Reqs : Redeeming(q)' =>
        /\ Redeeming(q)
        /\ job'[q].code = job[q].code /\ job'[q].client = job[q].client /\ job'[q].at = job[q].at

\* A request that finishes starts no redemption, and touches no other request.
LEMMA NoneNewAfterFinish ==
    ASSUME TypeOK, NEW r \in Reqs, Finish(r)
    PROVE  NoneNew /\ ~Redeeming(r)' /\ \A q \in Reqs \ {r} : pc'[q] = pc[q] /\ job'[q] = job[q]
BY DEF TypeOK, Finish, NoneNew, Redeeming

\* Nor does one that moves on in another flow than a redemption.
LEMMA NoneNewElsewhere ==
    ASSUME TypeOK, NEW r \in Reqs, NEW step, NEW j, Advance(r, step, j), step \in {"found", "verified", "bearer"}
    PROVE  NoneNew
BY DEF TypeOK, Advance, NoneNew, Redeeming

\* Nor does reading the subject, which keeps the redemption under way.
LEMMA NoneNewOnRead ==
    ASSUME TypeOK, NEW r \in Reqs, NEW e, pc[r] = "consumed", Advance(r, "read", WithEntry(job[r], e))
    PROVE  NoneNew
<1>1. \A q \in Reqs : q # r => pc'[q] = pc[q] /\ job'[q] = job[q]
  BY DEF TypeOK, Advance
<1>2. Redeeming(r) /\ job'[r] = WithEntry(job[r], e)
  BY DEF TypeOK, Advance, Redeeming
<1>3. /\ WithEntry(job[r], e).code = job[r].code /\ WithEntry(job[r], e).client = job[r].client
      /\ WithEntry(job[r], e).at = job[r].at
  BY DEF WithEntry
<1> QED
  BY <1>1, <1>2, <1>3 DEF NoneNew, Redeeming

\* Every step but IssueCode, PresentCode, Sign and Restart leaves codes, tokens
\* and the key alone and starts no redemption.
LEMMA QuietSteps ==
    ASSUME TypeOK, [Next]_vars
    PROVE  \/ /\ UNCHANGED <<epoch, codes, issued, tokens>> /\ NoneNew
              /\ now' \in Nat /\ now <= now'
           \/ \E r \in Reqs : IssueCode(r) \/ Sign(r)
           \/ \E r \in Reqs, cl \in Clients, uri \in Uris, c \in codes : PresentCode(r, cl, uri, c)
           \/ Restart
<1> DEFINE Quiet == UNCHANGED <<epoch, codes, issued, tokens>> /\ NoneNew /\ now' \in Nat /\ now <= now'
<1>0. now \in Nat
  BY DEF TypeOK
<1>1. CASE UNCHANGED vars
  BY <1>0, <1>1 DEF vars, NoneNew, Redeeming
<1>2. ASSUME NEW r \in Reqs, NEW cl \in Clients, NEW uri \in Uris, NEW name \in Names,
             NEW p \in Passwords, SubmitLogin(r, cl, uri, name, p)
      PROVE  Quiet
  <2>1. PICK d \in Dns : Advance(r, "found", [client |-> cl, dn |-> d, pwd |-> p])
    BY <1>2 DEF SubmitLogin
  <2> QED
    BY <1>0, <1>2, <2>1, NoneNewElsewhere DEF SubmitLogin
<1>3. ASSUME NEW r \in Reqs, CheckPassword(r) PROVE Quiet
  <2>1. NoneNew
    BY <1>3, NoneNewElsewhere, NoneNewAfterFinish DEF CheckPassword
  <2> QED
    BY <1>0, <1>3, <2>1 DEF CheckPassword
<1>4. ASSUME NEW r \in Reqs, ReadSubject(r) PROVE Quiet
  <2>1. NoneNew
    BY <1>4, NoneNewOnRead, NoneNewAfterFinish DEF ReadSubject
  <2> QED
    BY <1>0, <1>4, <2>1 DEF ReadSubject
<1>5. ASSUME NEW r \in Reqs, NEW c \in Codes, NEW i \in 1 .. Len(tokens[c]), PresentToken(r, c, i)
      PROVE  Quiet
  BY <1>0, <1>5, NoneNewElsewhere DEF PresentToken
<1>6. ASSUME NEW r \in Reqs, AnswerUserinfo(r) \/ RequestFails(r) PROVE Quiet
  BY <1>0, <1>6, NoneNewAfterFinish DEF AnswerUserinfo, RequestFails
<1>7. ASSUME NEW d \in Dns, NEW new, WriteDirectory(d, new) PROVE Quiet
  BY <1>0, <1>7 DEF WriteDirectory, reqvars, NoneNew, Redeeming
<1>8. ASSUME NEW d \in Dns, NEW name \in Names, NEW p \in Passwords, PutEntry(d, name, p) PROVE Quiet
  BY <1>7, <1>8 DEF PutEntry
<1>9. CASE Tick
  BY <1>0, <1>9 DEF Tick, reqvars, NoneNew, Redeeming
<1> HIDE DEF Quiet
<1>10. Quiet \/ (\E r \in Reqs : IssueCode(r) \/ Sign(r)) \/ Restart
       \/ (\E r \in Reqs, cl \in Clients, uri \in Uris, c \in codes : PresentCode(r, cl, uri, c))
  BY <1>1, <1>2, <1>3, <1>4, <1>5, <1>6, <1>7, <1>8, <1>9 DEF Next, Quiet
<1> QED
  BY <1>10 DEF Quiet

\* A code leaves the store for good when it is presented, and the request that
\* took it is the only one that can pay for it.
LEMMA OneShotStep ==
    ASSUME TypeOK, OneShot, [Next]_vars
    PROVE  OneShot'
<1>1. CASE UNCHANGED <<codes, issued, tokens>> /\ NoneNew
  BY <1>1 DEF OneShot, NoneNew, Redeeming
<1>2. ASSUME NEW r \in Reqs, IssueCode(r) PROVE OneShot'
  <2> DEFINE n == Len(issued) + 1
  <2>1. /\ Len(issued) \in Nat /\ n \in Codes
        /\ Len(issued') = n /\ codes' = codes \cup {n} /\ tokens' = tokens
        /\ \A c \in 1 .. Len(issued) : issued'[c] = issued[c]
    BY <1>2 DEF IssueCode, TypeOK, Codes
  <2>2. NoneNew
    BY <1>2, NoneNewAfterFinish DEF IssueCode
  <2>3. tokens[n] = << >> /\ n \notin 1 .. Len(issued)
    BY <2>1 DEF OneShot
  <2> HIDE DEF n
  <2>4. \A c \in Codes : tokens'[c] # << >> => c <= Len(issued')
    BY <2>1 DEF OneShot, n, Codes
  <2>5. \A c \in codes' : tokens'[c] = << >>
    BY <2>1, <2>3 DEF OneShot
  <2>6. ASSUME NEW q \in Reqs, Redeeming(q)'
        PROVE  /\ job'[q].code \in 1 .. Len(issued') /\ job'[q].code \notin codes'
               /\ tokens'[job'[q].code] = << >>
               /\ job'[q].client = issued'[job'[q].code].client
    <3>1. /\ job[q].code \in 1 .. Len(issued) /\ job[q].code \notin codes
          /\ tokens[job[q].code] = << >> /\ job[q].client = issued[job[q].code].client
          /\ job'[q].code = job[q].code /\ job'[q].client = job[q].client
      BY <2>2, <2>6 DEF OneShot, NoneNew
    <3>2. job[q].code \in 1 .. Len(issued')
      BY <2>1, <3>1 DEF n
    <3> QED
      BY <2>1, <2>3, <3>1, <3>2
  <2>7. \A q, s \in Reqs : Redeeming(q)' /\ Redeeming(s)' /\ job'[q].code = job'[s].code => q = s
    BY <2>2 DEF OneShot, NoneNew
  <2> QED
    BY <2>4, <2>5, <2>6, <2>7 DEF OneShot
<1>3. ASSUME NEW r \in Reqs, NEW cl \in Clients, NEW uri \in Uris, NEW c \in codes,
             PresentCode(r, cl, uri, c)
      PROVE  OneShot'
  <2>1. codes' = codes \ {c} /\ UNCHANGED <<issued, tokens>> /\ c \in 1 .. Len(issued)
    BY <1>3 DEF PresentCode, consume, TypeOK
  <2>2. tokens[c] = << >> /\ \A q \in Reqs : Redeeming(q) => job[q].code # c
    BY DEF OneShot
  <2>3. CASE Finish(r)
    BY <2>1, <2>3, NoneNewAfterFinish DEF OneShot, NoneNew
  <2>4. CASE issued[c].client = cl /\ Advance(r, "consumed", [client |-> cl, code |-> c, at |-> now, rev |-> Rev])
    <3>1. /\ pc'[r] = "consumed" /\ job'[r].code = c /\ job'[r].client = issued[c].client
          /\ \A q \in Reqs \ {r} : pc'[q] = pc[q] /\ job'[q] = job[q]
      BY <2>4 DEF Advance, TypeOK
    <3>2. \A q \in Reqs \ {r} : Redeeming(q)' = Redeeming(q)
      BY <3>1 DEF Redeeming
    <3> QED
      BY <2>1, <2>2, <3>1, <3>2 DEF OneShot
  <2> QED
    BY <1>3, <2>3, <2>4 DEF PresentCode
<1>4. ASSUME NEW r \in Reqs, Sign(r) PROVE OneShot'
  <2>1. Redeeming(r) /\ Finish(r) /\ UNCHANGED <<codes, issued>>
    BY <1>4 DEF Sign, Redeeming
  <2>2. /\ job[r].code \in 1 .. Len(issued) /\ job[r].code \notin codes
        /\ \A q \in Reqs \ {r} : Redeeming(q) => job[q].code # job[r].code
    BY <2>1 DEF OneShot
  <2>3. \A c \in Codes \ {job[r].code} : tokens'[c] = tokens[c]
    BY <1>4 DEF Sign, TypeOK
  <2>4. NoneNew /\ ~Redeeming(r)'
    BY <2>1, NoneNewAfterFinish
  <2>5. codes \subseteq Codes /\ 1 .. Len(issued) \subseteq Codes
    BY DEF TypeOK, Codes
  <2>6. \A c \in Codes : tokens'[c] # << >> => c <= Len(issued')
    BY <2>1, <2>2, <2>3 DEF OneShot
  <2>7. \A c \in codes' : tokens'[c] = << >>
    BY Zenon, <2>1, <2>2, <2>3, <2>5 DEF OneShot
  <2>8. ASSUME NEW q \in Reqs, Redeeming(q)'
        PROVE  /\ job'[q].code \in 1 .. Len(issued') /\ job'[q].code \notin codes'
               /\ tokens'[job'[q].code] = << >>
               /\ job'[q].client = issued'[job'[q].code].client
    BY <2>1, <2>2, <2>3, <2>4, <2>5, <2>8 DEF OneShot, NoneNew
  <2>9. \A q, s \in Reqs : Redeeming(q)' /\ Redeeming(s)' /\ job'[q].code = job'[s].code => q = s
    BY <2>4 DEF OneShot, NoneNew
  <2> QED
    BY <2>6, <2>7, <2>8, <2>9 DEF OneShot
<1>5. CASE Restart
  <2>1. \A q \in Reqs : ~Redeeming(q)'
    BY <1>5 DEF Restart, Redeeming
  <2> QED
    BY <1>5, <2>1 DEF Restart, OneShot
<1> QED
  BY <1>1, <1>2, <1>3, <1>4, <1>5, QuietSteps

\* Nothing is issued at the start.
LEMMA OneShotInit == Init => OneShot
BY DEF Init, OneShot, Redeeming, Codes

-----------------------------------------------------------------------------
\* A step that issues and signs nothing can only end grants.
LEMMA LapseStep ==
    ASSUME UNCHANGED <<issued, tokens>>, \A c \in Codes : Live(c)' => Live(c)
    PROVE  [Abstract!Next]_(Abstract!gvars)
<1> DEFINE St == [c \in Codes |-> GrantStatus(c)]
           S == {c \in Codes : St[c] = "live" /\ St'[c] # "live"}
<1>1. \A c \in Codes : St'[c] = IF c \in S THEN "void" ELSE St[c]
  BY DEF GrantStatus
<1>2. St' = [c \in Codes |-> IF c \in S THEN "void" ELSE St[c]]
  BY <1>1
<1>3. /\ UNCHANGED [c \in Codes |-> IF c <= Len(issued) THEN issued[c].client ELSE Nobody]
      /\ UNCHANGED [c \in Codes |-> [i \in 1 .. Len(tokens[c]) |-> tokens[c][i].client]]
  OBVIOUS
<1>4. \A c \in S : St[c] = "live"
  OBVIOUS
<1>5. S \in SUBSET Codes
  OBVIOUS
<1>6. CASE S = {}
  <2>1. St' = St
    BY <1>2, <1>6, Zenon
  <2> QED
    BY <1>3, <2>1 DEF Abstract!gvars
<1>7. CASE S # {}
  <2>1. Abstract!Lapse(S)
    BY <1>2, <1>3, <1>4, <1>7, Zenon DEF Abstract!Lapse
  <2> QED
    BY <1>5, <2>1, Zenon DEF Abstract!Next
<1> QED
  BY <1>6, <1>7

\* IssueCode is Give, to the client that asked for the login.
LEMMA GiveStep ==
    ASSUME TypeOK, OneShot, NEW r \in Reqs, IssueCode(r)
    PROVE  Abstract!Next
<1>a. Len(issued) + 1 \in Codes /\ job[r] \in Verified
  <2>1. Len(issued) \in Nat /\ Len(issued) < MaxCodes
    BY DEF IssueCode, TypeOK
  <2>2. job[r] \in Verified
    BY Zenon DEF IssueCode, TypeOK, JobOK
  <2> QED
    BY <2>1, <2>2 DEF Codes
<1>b. PICK n \in Codes : n = Len(issued) + 1
  BY <1>a
<1>c. PICK cl \in Clients : cl = job[r].client
  BY <1>a DEF Verified
<1> DEFINE St == [c \in Codes |-> GrantStatus(c)]
           Ho == [c \in Codes |-> IF c <= Len(issued) THEN issued[c].client ELSE Nobody]
           new == [client |-> job[r].client, sub |-> job[r].dn, expires |-> now + CodeTtl,
                   at |-> now, key |-> epoch, entry |-> job[r].entry]
<1>0. issued' = Append(issued, new) /\ new.client = cl
  BY <1>c DEF IssueCode
<1>1. /\ Len(issued) \in Nat /\ n = Len(issued) + 1
      /\ Len(issued') = n /\ codes' = codes \cup {n} /\ tokens' = tokens
      /\ issued'[n].client = cl
      /\ \A c \in 1 .. Len(issued) : issued'[c] = issued[c]
  <2> HIDE DEF new
  <2>1. issued \in Seq(Issued) /\ Len(issued) < MaxCodes
    BY DEF TypeOK, IssueCode
  <2>2. /\ Len(issued) \in Nat /\ Len(issued') = n /\ issued'[n] = new
        /\ \A c \in 1 .. Len(issued) : issued'[c] = issued[c]
    BY <1>0, <1>b, <2>1
  <2> QED
    BY <1>0, <1>b, <2>2 DEF IssueCode
<1>2. tokens[n] = << >>
  BY <1>1 DEF OneShot
<1>3. \A c \in Codes : InFlight(c)' = InFlight(c)
  <2>1. \A q \in Reqs : Redeeming(q)' = Redeeming(q) /\ (Redeeming(q) => job'[q] = job[q])
    BY DEF IssueCode, Finish, TypeOK, Redeeming
  <2> QED
    BY <2>1 DEF InFlight
<1>4. \A c \in Codes : Live(c)' = (c = n \/ Live(c))
  BY <1>1, <1>3 DEF Live
<1>5. \A c \in Codes : c # n => (c > n <=> c > Len(issued)) /\ (c <= Len(issued) => c \in 1 .. Len(issued))
  BY <1>1 DEF Codes
<1>6. \A c \in Codes : GrantStatus(c)' = IF c = n THEN "live" ELSE GrantStatus(c)
  <2>1. ~(n > n) /\ n > Len(issued)
    BY <1>1
  <2>2. GrantStatus(n)' = "live"
    BY <1>1, <1>2, <1>4, <2>1, Zenon DEF GrantStatus
  <2>3. ASSUME NEW c \in Codes, c # n PROVE GrantStatus(c)' = GrantStatus(c)
    BY <1>1, <1>4, <1>5, <2>3, Zenon DEF GrantStatus
  <2> QED
    BY <2>2, <2>3
<1>7. St[n] = "none" /\ St' = [St EXCEPT ![n] = "live"]
  <2>1. n > Len(issued)
    BY <1>1
  <2>2. GrantStatus(n) = "none"
    BY <2>1 DEF GrantStatus
  <2> QED
    BY <1>1, <1>6, <2>2, Zenon
<1>8. \A c \in Codes : Ho'[c] = IF c = n THEN cl ELSE Ho[c]
  BY <1>1, <1>5 DEF Codes
<1>9. Ho' = [Ho EXCEPT ![n] = cl]
  BY <1>1, <1>8, Zenon
<1>10. Abstract!Give(n, cl)
  BY <1>1, <1>7, <1>9 DEF Abstract!Give
<1>11. \E c \in Codes, k \in Clients : Abstract!Give(c, k)
  BY <1>10, Zenon
<1> QED
  BY <1>11, Zenon DEF Abstract!Next

\* Sign is Redeem: it pays the holder of the grant, and pays it first.
LEMMA RedeemStep ==
    ASSUME TypeOK, OneShot, NEW r \in Reqs, Sign(r)
    PROVE  Abstract!Next
<1>a. job[r].code \in Codes
  <2>1. job[r] \in Read
    BY Zenon DEF Sign, TypeOK, JobOK
  <2>2. Len(issued) \in Nat /\ Len(issued) <= MaxCodes
    BY DEF TypeOK
  <2> QED
    BY <2>1, <2>2 DEF Read, Codes
<1>b. PICK k \in Codes : k = job[r].code
  BY <1>a
<1> DEFINE St == [c \in Codes |-> GrantStatus(c)]
           Ho == [c \in Codes |-> IF c <= Len(issued) THEN issued[c].client ELSE Nobody]
           Pa == [c \in Codes |-> [i \in 1 .. Len(tokens[c]) |-> tokens[c][i].client]]
           t == [client |-> job[r].client, key |-> epoch, exp |-> now + TokenTtl,
                 entry |-> job[r].entry, presented |-> job[r].at, since |-> job[r].rev]
<1>1. /\ Redeeming(r) /\ Finish(r) /\ UNCHANGED <<codes, issued>>
      /\ tokens' = [tokens EXCEPT ![k] = Append(@, t)]
  BY <1>b DEF Sign, Redeeming
<1>2. /\ k \in 1 .. Len(issued) /\ tokens[k] = << >> /\ job[r].client = issued[k].client
  BY <1>1, <1>b DEF OneShot
<1>3. Len(issued) \in Nat /\ k \in Nat
  BY <1>2, SMTT(40) DEF TypeOK, Codes
<1>4. t.client = issued[k].client
  BY <1>2
<1> HIDE DEF t
<1>5. tokens'[k] = <<t>> /\ \A c \in Codes \ {k} : tokens'[c] = tokens[c]
  BY <1>1, <1>2, <1>3, SMTT(40) DEF TypeOK
<1>6. \A c \in Codes \ {k} : Live(c)' = Live(c)
  <2>1. ~Redeeming(r)' /\ \A q \in Reqs \ {r} : Redeeming(q)' = Redeeming(q) /\ job'[q] = job[q]
    BY <1>1, NoneNewAfterFinish DEF Redeeming
  <2> QED
    BY <1>1, <1>b, <2>1 DEF Live, InFlight
<1>7. Live(k)
  BY <1>1, <1>b DEF Live, InFlight
<1>8. \A c \in Codes : GrantStatus(c)' = IF c = k THEN "spent" ELSE GrantStatus(c)
  <2>1. <<t>> # << >> /\ ~(k > Len(issued))
    BY <1>2, <1>3
  <2> QED
    BY <1>1, <1>5, <1>6, <2>1, Zenon DEF GrantStatus
<1>9. St[k] = "live" /\ St' = [St EXCEPT ![k] = "spent"]
  <2>1. ~(k > Len(issued))
    BY <1>2, <1>3
  <2>2. St[k] = "live"
    BY <1>2, <1>3, <1>7, <2>1 DEF GrantStatus
  <2> QED
    BY <1>3, <1>8, <2>2, Zenon
<1>10. Ho' = Ho /\ Ho[k] = issued[k].client
  BY <1>1, <1>2, <1>3
<1>11. Pa' = [Pa EXCEPT ![k] = Append(@, Ho[k])]
  <2>1. Pa[k] = << >>
    BY <1>2, <1>3
  <2>2. Pa'[k] = <<issued[k].client>>
    <3>1. Pa'[k] = [i \in 1 .. Len(tokens'[k]) |-> tokens'[k][i].client]
      BY <1>3
    <3>2. Len(<<t>>) = 1 /\ <<t>>[1] = t
      OBVIOUS
    <3>3. Pa'[k] = [i \in 1 .. 1 |-> t.client]
      BY <1>5, <3>1, <3>2
    <3> QED
      BY <1>4, <3>3
  <2>3. \A c \in Codes \ {k} : Pa'[c] = Pa[c]
    BY <1>5
  <2> HIDE DEF Pa
  <2>4. Append(Pa[k], Ho[k]) = <<issued[k].client>>
    BY <1>10, <2>1
  <2>5. Pa' = [c \in Codes |-> IF c = k THEN <<issued[k].client>> ELSE Pa[c]]
    BY <2>2, <2>3, Zenon DEF Pa
  <2>6. DOMAIN Pa = Codes
    BY Zenon DEF Pa
  <2> QED
    BY <1>3, <2>4, <2>5, <2>6, Zenon DEF Pa
<1>12. Abstract!Redeem(k)
  BY <1>9, <1>10, <1>11 DEF Abstract!Redeem
<1>13. \E c \in Codes : Abstract!Redeem(c)
  BY <1>3, <1>12, Zenon
<1> QED
  BY <1>13, Zenon DEF Abstract!Next

\* iron-oidcd implements the one-shot grant: whatever requests interleave, fail or
\* are cut off by a restart, a login pays out at most once and to its own client.
THEOREM OidcImplementsGrant == Spec => ImplementsGrant
<1>1. Init => Abstract!Init
  BY DEF Init, Abstract!Init, GrantStatus, Codes
<1>2. TypeOK /\ OneShot /\ [Next]_vars => [Abstract!Next]_(Abstract!gvars)
  <2> SUFFICES ASSUME TypeOK, OneShot, [Next]_vars PROVE [Abstract!Next]_(Abstract!gvars)
    OBVIOUS
  <2>1. CASE UNCHANGED <<codes, issued, tokens>> /\ NoneNew
    <3>1. \A c \in Codes : Live(c)' => Live(c)
      BY <2>1 DEF Live, InFlight, NoneNew
    <3> QED
      BY <2>1, <3>1, LapseStep
  <2>2. ASSUME NEW r \in Reqs, IssueCode(r) \/ Sign(r) PROVE Abstract!Next
    BY <2>2, GiveStep, RedeemStep
  <2>3. ASSUME NEW r \in Reqs, NEW cl \in Clients, NEW uri \in Uris, NEW c \in codes,
               PresentCode(r, cl, uri, c)
        PROVE  [Abstract!Next]_(Abstract!gvars)
    <3>1. codes' = codes \ {c} /\ UNCHANGED <<issued, tokens>>
      BY <2>3, SMTT(40) DEF PresentCode, consume
    <3>2. \A q \in Reqs : Redeeming(q)' => job'[q].code = c \/ (Redeeming(q) /\ job'[q] = job[q])
      BY <2>3, SMTT(40) DEF PresentCode, Finish, Advance, TypeOK, Redeeming
    <3>3. \A d \in Codes : Live(d)' => Live(d)
      BY <3>1, <3>2 DEF Live, InFlight
    <3> QED
      BY <3>1, <3>3, LapseStep, SMTT(40)
  <2>4. CASE Restart
    <3>1. \A d \in Codes : Live(d)' => Live(d)
      BY <2>4 DEF Restart, Live, InFlight, Redeeming
    <3> QED
      BY <2>4, <3>1, LapseStep DEF Restart
  <2> QED
    BY <2>1, <2>2, <2>3, <2>4, QuietSteps
<1>3. TypeOK /\ OneShot /\ [Next]_vars => OneShot'
  BY Zenon, OneShotStep
<1> QED
  BY <1>1, <1>2, <1>3, OidcTypeCorrect, OneShotInit, PTL DEF Spec, ImplementsGrant, Abstract!Spec

-----------------------------------------------------------------------------
(* HonouredInTime, from what is known of a code while the store has it, and *)
(* while a request redeems it.                                              *)

\* A code is stamped when it is issued and lives for CodeTtl.
Stamped == \A c \in 1 .. Len(issued) : issued[c].expires = issued[c].at + CodeTtl /\ issued[c].at <= now

\* The store holds codes of this run only.
ThisRun == \A c \in codes : issued[c].key = epoch

\* A redemption under way took its code in time, in this run.
InTime(r) ==
    /\ job[r].at \in issued[job[r].code].at .. issued[job[r].code].at + CodeTtl
    /\ issued[job[r].code].key = epoch

Paying == \A r \in Reqs : Redeeming(r) => InTime(r)

Timely == Stamped /\ ThisRun /\ Paying /\ HonouredInTime

\* A step that starts no redemption and keeps the codes' stamps keeps Paying.
LEMMA PayingKept ==
    ASSUME Paying, NoneNew, epoch' = epoch,
           \A q \in Reqs : Redeeming(q) => issued'[job[q].code] = issued[job[q].code]
    PROVE  Paying'
<1> SUFFICES ASSUME NEW q \in Reqs, Redeeming(q)' PROVE InTime(q)'
  BY Zenon DEF Paying
<1>1. Redeeming(q) /\ job'[q].code = job[q].code /\ job'[q].at = job[q].at
  BY Zenon DEF NoneNew
<1>2. issued'[job'[q].code] = issued[job[q].code]
  <2>1. issued'[job[q].code] = issued[job[q].code]
    BY <1>1, Zenon
  <2> QED
    BY <1>1, <2>1
<1>3. InTime(q)
  BY <1>1, Zenon DEF Paying
<1> DEFINE old == issued[job[q].code]
<1>4. job[q].at \in old.at .. old.at + CodeTtl /\ old.key = epoch
  BY <1>3, Zenon DEF InTime
<1>5. issued'[job'[q].code] = old
  BY <1>2
<1> HIDE DEF old
<1> QED
  BY <1>1, <1>4, <1>5 DEF InTime

\* A code that is issued gets its stamp, and changes no other.
LEMMA TimelyIssue ==
    ASSUME TypeOK, OneShot, Timely, NEW r \in Reqs, IssueCode(r)
    PROVE  Timely'
<1> DEFINE n == Len(issued) + 1
           new == [client |-> job[r].client, sub |-> job[r].dn, expires |-> now + CodeTtl,
                   at |-> now, key |-> epoch, entry |-> job[r].entry]
<1>1. issued' = Append(issued, new) /\ new.expires = now + CodeTtl /\ new.at = now /\ new.key = epoch
  BY DEF IssueCode
<1> HIDE DEF new
<1>2. issued \in Seq(Issued) /\ codes \subseteq 1 .. Len(issued) /\ now \in Nat
  BY Zenon DEF TypeOK
<1>3. /\ Len(issued) \in Nat /\ Len(issued') = n /\ issued'[n] = new
      /\ \A c \in 1 .. Len(issued) : issued'[c] = issued[c]
  BY <1>1, <1>2
<1>4. codes' = codes \cup {n} /\ UNCHANGED <<now, epoch, tokens>> /\ Finish(r)
  BY Zenon DEF IssueCode
<1>5. 1 .. n = 1 .. Len(issued) \cup {n}
  BY <1>3
<1> HIDE DEF n
<1>6. Stamped'
  <2>1. Stamped /\ now <= now'
    BY <1>2, <1>4 DEF Timely
  <2>2. ASSUME NEW c \in 1 .. Len(issued)
        PROVE  issued'[c].expires = issued'[c].at + CodeTtl /\ issued'[c].at <= now'
    BY <1>3, <1>4, <2>1, Zenon DEF Stamped
  <2>3. issued'[n].expires = issued'[n].at + CodeTtl /\ issued'[n].at <= now'
    BY <1>1, <1>3, <1>4, <2>1
  <2> QED
    BY <1>3, <1>5, <2>2, <2>3, Zenon DEF Stamped
<1>7. ThisRun'
  BY <1>1, <1>2, <1>3, <1>4, Zenon DEF Timely, ThisRun
<1>8. Paying'
  <2>1. NoneNew
    BY <1>4, NoneNewAfterFinish
  <2>2. \A q \in Reqs : Redeeming(q) => issued'[job[q].code] = issued[job[q].code]
    BY <1>3, Zenon DEF OneShot
  <2> QED
    BY <1>4, <2>1, <2>2, PayingKept, Zenon DEF Timely
<1>9. HonouredInTime'
  <2> SUFFICES ASSUME NEW c \in Codes, NEW i \in 1 .. Len(tokens[c])
               PROVE  /\ tokens[c][i].presented \in issued'[c].at .. issued'[c].at + CodeTtl
                      /\ tokens[c][i].key = issued'[c].key
    BY <1>4, Zenon DEF HonouredInTime
  <2>1. tokens[c] # << >>
    OBVIOUS
  <2>2. c <= Len(issued) /\ c \in 1 .. MaxCodes
    BY <2>1, Zenon DEF OneShot, Codes
  <2>3. c \in 1 .. Len(issued)
    BY <1>3, <2>2
  <2> QED
    BY <1>3, <2>3, Zenon DEF Timely, HonouredInTime
<1> QED
  BY <1>6, <1>7, <1>8, <1>9, ZenonT(40) DEF Timely

\* A code that is presented is taken in time or not at all.
LEMMA TimelyPresent ==
    ASSUME TypeOK, OneShot, Timely, NEW r \in Reqs, NEW cl \in Clients, NEW uri \in Uris, NEW c \in codes,
           PresentCode(r, cl, uri, c)
    PROVE  Timely'
<1> DEFINE j == [client |-> cl, code |-> c, at |-> now, rev |-> Rev]
<1>1. codes' = codes \ {c} /\ UNCHANGED <<now, epoch, issued, tokens>>
  BY Zenon DEF PresentCode, consume
<1>2. Stamped' /\ ThisRun' /\ HonouredInTime'
  BY <1>1, Zenon DEF Timely, Stamped, ThisRun, HonouredInTime
<1>3. \A q \in Reqs : Redeeming(q) => issued'[job[q].code] = issued[job[q].code]
  BY <1>1, Zenon
<1>4. Finish(r) \/ (consume(c).ok /\ Advance(r, "consumed", j))
  BY Zenon DEF PresentCode
<1>5. CASE Finish(r)
  <2>1. NoneNew
    BY <1>5, NoneNewAfterFinish
  <2> QED
    BY <1>1, <1>2, <1>3, <2>1, PayingKept, ZenonT(40) DEF Timely
<1>6. CASE consume(c).ok /\ Advance(r, "consumed", j)
  <2>1. pc \in [Reqs -> Steps] /\ DOMAIN job = Reqs /\ now \in Nat /\ c \in 1 .. Len(issued) /\ issued \in Seq(Issued)
    BY Zenon DEF TypeOK
  <2>2. /\ job'[r].code = c /\ job'[r].at = now
        /\ \A q \in Reqs \ {r} : pc'[q] = pc[q] /\ job'[q] = job[q]
    BY <1>6, <2>1 DEF Advance
  <2>3. ~(issued[c].expires < now) /\ issued[c].expires = issued[c].at + CodeTtl /\ issued[c].at <= now
    BY <1>6, <2>1, Zenon DEF consume, Timely, Stamped
  <2>4. issued[c] \in Issued /\ CodeTtl \in Nat
    BY <2>1
  <2>5. issued[c].at \in Nat
    BY <2>4 DEF Issued
  <2>6. now \in issued[c].at .. issued[c].at + CodeTtl
    BY <2>1, <2>3, <2>4, <2>5
  <2>7. issued[c].key = epoch
    BY Zenon DEF Timely, ThisRun
  <2>8. ASSUME NEW q \in Reqs, Redeeming(q)' PROVE InTime(q)'
    <3>1. CASE q = r
      BY <1>1, <2>2, <2>6, <2>7, <3>1, Zenon DEF InTime
    <3>2. CASE q # r
      <4>1. pc'[q] = pc[q] /\ job'[q] = job[q]
        BY <2>2, <3>2, Zenon
      <4>2. Redeeming(q)
        BY <2>8, <4>1, Zenon DEF Redeeming
      <4>3. InTime(q)
        BY <4>2, Zenon DEF Timely, Paying
      <4> QED
        BY <1>1, <4>1, <4>3, Zenon DEF InTime
    <3> QED
      BY <3>1, <3>2
  <2> QED
    BY <1>2, <2>8, Zenon DEF Timely, Paying
<1> QED
  BY Zenon, <1>4, <1>5, <1>6

\* A token is signed for a code that was taken in time, in this run.
LEMMA TimelySign ==
    ASSUME TypeOK, OneShot, Timely, NEW r \in Reqs, Sign(r)
    PROVE  Timely'
<1> DEFINE t == [client |-> job[r].client, key |-> epoch, exp |-> now + TokenTtl,
                 entry |-> job[r].entry, presented |-> job[r].at, since |-> job[r].rev]
           k == job[r].code
<1>1. /\ Finish(r) /\ UNCHANGED <<now, epoch, codes, issued>>
      /\ tokens' = [tokens EXCEPT ![k] = Append(@, t)]
  BY Zenon DEF Sign
<1>2. t.presented = job[r].at /\ t.key = epoch
  OBVIOUS
<1>3. Redeeming(r)
  BY Zenon DEF Sign, Redeeming
<1> HIDE DEF t
<1>4. tokens[k] = << >> /\ InTime(r)
  BY <1>3, Zenon DEF OneShot, Timely, Paying
<1>5. t.presented \in issued[k].at .. issued[k].at + CodeTtl /\ t.key = issued[k].key
  BY <1>2, <1>4, Zenon DEF InTime
<1>6. \A c \in Codes : tokens'[c] = IF c = k THEN <<t>> ELSE tokens[c]
  <2>1. DOMAIN tokens = Codes
    BY DEF TypeOK
  <2>2. ASSUME NEW c \in Codes, c # k PROVE tokens'[c] = tokens[c]
    BY <1>1, <2>1, <2>2, Zenon
  <2>3. ASSUME k \in Codes PROVE tokens'[k] = Append(tokens[k], t)
    BY <1>1, <2>1, <2>3, Zenon
  <2>4. Append(<< >>, t) = <<t>>
    OBVIOUS
  <2> QED
    BY <1>4, <2>2, <2>3, <2>4, Zenon
<1>7. Len(<<t>>) = 1 /\ <<t>>[1] = t
  OBVIOUS
<1> HIDE DEF k
<1>8. HonouredInTime'
  <2> SUFFICES ASSUME NEW c \in Codes, NEW i \in 1 .. Len(tokens'[c])
               PROVE  /\ tokens'[c][i].presented \in issued[c].at .. issued[c].at + CodeTtl
                      /\ tokens'[c][i].key = issued[c].key
    BY <1>1, Zenon DEF HonouredInTime
  <2>1. CASE c = k
    <3>1. tokens'[c] = <<t>>
      BY <1>6, <2>1, Zenon
    <3>2. i = 1
      BY <1>7, <3>1
    <3> QED
      BY <1>5, <1>7, <2>1, <3>1, <3>2, Zenon
  <2>2. CASE c # k
    <3>1. tokens'[c] = tokens[c]
      BY <1>6, <2>2, Zenon
    <3> QED
      BY <3>1, Zenon DEF Timely, HonouredInTime
  <2> QED
    BY <2>1, <2>2
<1>9. Paying'
  <2>1. NoneNew
    BY <1>1, NoneNewAfterFinish
  <2> QED
    BY <1>1, <2>1, PayingKept, Zenon DEF Timely
<1> QED
  BY <1>1, <1>8, <1>9, Zenon DEF Timely, Stamped, ThisRun

\* Every step keeps the time stamps, and what was honoured stays in time.
LEMMA TimelyStep ==
    ASSUME TypeOK, OneShot, Timely, [Next]_vars
    PROVE  Timely'
<1>1. CASE UNCHANGED <<epoch, codes, issued, tokens>> /\ NoneNew /\ now' \in Nat /\ now <= now'
  <2>1. HonouredInTime' /\ ThisRun'
    BY <1>1, Zenon DEF Timely, HonouredInTime, ThisRun
  <2>2. Paying'
    BY <1>1, PayingKept, Zenon DEF Timely
  <2>3. Stamped'
    <3>1. Stamped /\ issued \in Seq(Issued) /\ now \in Nat
      BY Zenon DEF Timely, TypeOK
    <3>2. \A c \in 1 .. Len(issued) : issued[c] \in Issued
      BY <3>1
    <3>3. \A n \in Issued : n.at \in Nat
      BY DEF Issued
    <3>4. \A c \in 1 .. Len(issued) : issued[c].at \in Nat
      BY <3>2, <3>3
    <3> QED
      BY <1>1, <3>1, <3>4 DEF Stamped
  <2> QED
    BY <2>1, <2>2, <2>3, Zenon DEF Timely
<1>2. CASE Restart
  <2>1. \A q \in Reqs : ~Redeeming(q)'
    BY <1>2 DEF Restart, Redeeming
  <2>2. codes' = {} /\ UNCHANGED <<now, issued, tokens>>
    BY <1>2, Zenon DEF Restart
  <2> QED
    BY <2>1, <2>2 DEF Timely, Stamped, ThisRun, Paying, HonouredInTime
<1> QED
  BY <1>1, <1>2, TimelyIssue, TimelyPresent, TimelySign, QuietSteps

\* No code buys tokens later than CodeTtl after the login it came from, or from a
\* later run of iron-oidcd, however its redemption is delayed or interrupted.
THEOREM OidcHonouredInTime == Spec => []HonouredInTime
<1>1. Init => Timely
  BY DEF Init, Timely, Stamped, ThisRun, Paying, HonouredInTime, Redeeming, Codes
<1>2. TypeOK /\ OneShot /\ [Next]_vars => OneShot'
  BY OneShotStep
<1>3. TypeOK /\ OneShot /\ Timely /\ [Next]_vars => Timely'
  BY TimelyStep
<1>4. Timely => HonouredInTime
  BY DEF Timely
<1> QED
  BY <1>1, <1>2, <1>3, <1>4, OidcTypeCorrect, OneShotInit, PTL DEF Spec
=============================================================================
