-------------------------------- MODULE Oidc --------------------------------
(***************************************************************************)
(* iron-oidcd: the authorization code flow over HTTP (crate iron-oidc).    *)
(*                                                                         *)
(* Requests run concurrently, one task each, and share three things: the   *)
(* directory connection behind one mutex (AppState::store), the in-memory  *)
(* code store and the signing key.  A request is split exactly where the   *)
(* code lets another task or another process of the deployment in between: *)
(* before each directory read, and before the code store and the key.      *)
(*                                                                         *)
(*   POST /authorize  SubmitLogin -> CheckPassword -> IssueCode            *)
(*   POST /token      PresentCode -> ReadSubject -> Sign                   *)
(*   GET  /userinfo   PresentToken -> AnswerUserinfo                       *)
(*                                                                         *)
(* The directory itself is written by other processes (iron-ldapd): an     *)
(* entry is created, changed or deleted between any two of these steps.    *)
(* A code is a number, the order of issue: 32 random bytes never repeat.   *)
(***************************************************************************)
EXTENDS Integers, Sequences

CONSTANTS
    Reqs,           \* request slots: how many requests are in flight at once
    Clients,        \* registered client ids
    Uris,           \* redirect URIs a request may name
    RedirectOf,     \* [Clients -> Uris]: IRON_OIDC_CLIENTS
    Dns,            \* places in the directory
    Names,          \* values of the login attribute
    Passwords,
    CodeTtl,        \* IRON_OIDC_CODE_TTL_SECS
    TokenTtl,       \* IRON_OIDC_TOKEN_TTL_SECS
    Nobody,         \* no request holds the store mutex; no client
    NoEntry,        \* nothing is stored at a DN
    MaxCodes, MaxTime, MaxRev, MaxEpoch       \* bounds

ASSUME OidcAssumption ==
    /\ RedirectOf \in [Clients -> Uris]
    /\ CodeTtl \in Nat /\ TokenTtl \in Nat /\ MaxCodes \in Nat
    /\ MaxTime \in Nat /\ MaxRev \in Nat /\ MaxEpoch \in Nat
    /\ Nobody \notin Reqs /\ Nobody \notin Clients

VARIABLES
    now,        \* the clock both Instant::now and now_secs read
    dir,        \* [Dns -> entry or NoEntry]: what get_entry would return
    writes,     \* ghost: writes[k] is the DN the k-th directory write touched
    epoch,      \* which signing key this process generated at start
    lock,       \* holder of AppState::store, or Nobody
    codes,      \* the codes in CodeStore's map
    issued,     \* issued[c]: what code c was issued with
    tokens,     \* [Codes -> Seq]: the token pairs signed for a code
    answer,     \* the last answer /userinfo gave, or Nobody
    pc,         \* [Reqs -> step reached]
    job         \* [Reqs -> what the request carries between its steps]

reqvars == <<lock, pc, job>>
dirvars == <<dir, writes>>
vars == <<now, dir, writes, epoch, lock, codes, issued, tokens, answer, pc, job>>

Codes == 1 .. MaxCodes
Rev == Len(writes)

\* born tells one account from the next one created at the same DN; rev is the
\* write that left the entry as it is.
Entry == [born : 1 .. MaxRev, rev : 1 .. MaxRev, uid : Names, pwd : Passwords]

\* IssuedCode, and what is signed for it. `at`, `key`, `entry`, `presented` and
\* `since` are ghosts: when, by which run and for which account the code was
\* issued; when, and after how many directory writes, it was presented.
Issued == [client : Clients, sub : Dns, expires : Nat, at : Nat, key : Nat, entry : Entry]
Token == [client : Clients, key : Nat, exp : Nat, entry : Entry, presented : Nat, since : Nat]

\* What a request carries from one of its steps to the next.
Found == [client : Clients, dn : Dns, pwd : Passwords]
Verified == [client : Clients, dn : Dns, entry : Entry]
Consumed == [client : Clients, code : 1 .. Len(issued), at : Nat, rev : Nat]
Read == [client : Clients, code : 1 .. Len(issued), at : Nat, rev : Nat, entry : Entry]
Bearer == [code : Codes, tok : Nat, at : Nat, rev : Nat]

Steps == {"idle", "found", "verified", "consumed", "read", "bearer"}

JobOK(r) ==
    \/ pc[r] = "idle"
    \/ pc[r] = "found" /\ job[r] \in Found
    \/ pc[r] = "verified" /\ job[r] \in Verified
    \/ pc[r] = "consumed" /\ job[r] \in Consumed
    \/ pc[r] = "read" /\ job[r] \in Read
    \/ pc[r] = "bearer" /\ job[r] \in Bearer

TypeOK ==
    /\ now \in Nat /\ epoch \in Nat
    /\ dir \in [Dns -> Entry \cup {NoEntry}] /\ writes \in Seq(Dns)
    /\ issued \in Seq(Issued) /\ Len(issued) <= MaxCodes
    /\ codes \subseteq 1 .. Len(issued)
    /\ tokens \in [Codes -> Seq(Token)]
    /\ pc \in [Reqs -> Steps] /\ DOMAIN job = Reqs
    /\ \A r \in Reqs : JobOK(r)

Init ==
    /\ now = 0 /\ epoch = 1
    /\ dir = [d \in Dns |-> NoEntry] /\ writes = << >>
    /\ lock = Nobody
    /\ codes = {} /\ issued = << >>
    /\ tokens = [c \in Codes |-> << >>]
    /\ answer = Nobody
    /\ pc = [r \in Reqs |-> "idle"]
    /\ job = [r \in Reqs |-> Nobody]

Finish(r) ==
    /\ pc' = [pc EXCEPT ![r] = "idle"]
    /\ job' = [job EXCEPT ![r] = Nobody]

Advance(r, step, j) ==
    /\ pc' = [pc EXCEPT ![r] = step]
    /\ job' = [job EXCEPT ![r] = j]

-----------------------------------------------------------------------------
(* POST /authorize *)

\* A client and the redirect URI registered for that same client.
validate_client(cl, uri) == uri = RedirectOf[cl]

\* The login attribute's index: the DNs of the entries that carry the name.
lookup_by_index(name) == {d \in Dns : dir[d] # NoEntry /\ dir[d].uid = name}

\* submit_login up to resolve_user's first read, which takes the mutex. No hit,
\* or more than one, shows the form again.
SubmitLogin(r, cl, uri, name, p) ==
    /\ pc[r] = "idle"
    /\ Len(issued) < MaxCodes
    /\ validate_client(cl, uri)
    /\ lock = Nobody
    /\ \E d \in Dns :
         /\ lookup_by_index(name) = {d}
         /\ Advance(r, "found", [client |-> cl, dn |-> d, pwd |-> p])
    /\ lock' = r
    /\ UNCHANGED <<now, dirvars, epoch, codes, issued, tokens, answer>>

\* resolve_user's second read, the password check, and the mutex is dropped.
CheckPassword(r) ==
    LET e == dir[job[r].dn] IN
    /\ pc[r] = "found"
    /\ lock' = Nobody
    /\ IF e # NoEntry /\ e.pwd = job[r].pwd
       THEN Advance(r, "verified", [client |-> job[r].client, dn |-> job[r].dn, entry |-> e])
       ELSE Finish(r)
    /\ UNCHANGED <<now, dirvars, epoch, codes, issued, tokens, answer>>

\* CodeStore::issue: a fresh code, good until CodeTtl from now.
IssueCode(r) ==
    /\ pc[r] = "verified"
    /\ Len(issued) < MaxCodes
    /\ issued' = Append(issued, [client |-> job[r].client, sub |-> job[r].dn, expires |-> now + CodeTtl,
                                 at |-> now, key |-> epoch, entry |-> job[r].entry])
    /\ codes' = codes \cup {Len(issued) + 1}
    /\ Finish(r)
    /\ UNCHANGED <<now, dirvars, epoch, lock, tokens, answer>>

-----------------------------------------------------------------------------
(* POST /token *)

\* Mutants: the code is looked up but not removed; it is refused a second late.
consumeKeeps(c) == [codes |-> codes, ok |-> c \in codes /\ ~(issued[c].expires < now)]
consumeLate(c) == [codes |-> codes \ {c}, ok |-> c \in codes /\ ~(issued[c].expires + 1 < now)]

\* CodeStore::consume: what is left of the map, and whether the code was good.
consume(c) == [codes |-> codes \ {c}, ok |-> c \in codes /\ ~(issued[c].expires < now)]

\* token, for an authenticated client, up to the directory read. The code is
\* gone from the store whatever the checks after it decide.
PresentCode(r, cl, uri, c) ==
    /\ pc[r] = "idle"
    /\ c \in codes
    /\ codes' = consume(c).codes
    /\ IF consume(c).ok /\ issued[c].client = cl /\ RedirectOf[issued[c].client] = uri
       THEN Advance(r, "consumed", [client |-> cl, code |-> c, at |-> now, rev |-> Rev])
       ELSE Finish(r)
    /\ UNCHANGED <<now, dirvars, epoch, lock, issued, tokens, answer>>

\* The subject's entry has been read.
WithEntry(j, e) == [client |-> j.client, code |-> j.code, at |-> j.at, rev |-> j.rev, entry |-> e]

\* Mutants: claims cached at login; the subject looked up again by login name.
ReadSubjectCached(r) ==
    /\ pc[r] = "consumed"
    /\ Advance(r, "read", WithEntry(job[r], issued[job[r].code].entry))
    /\ UNCHANGED <<now, dirvars, epoch, lock, codes, issued, tokens, answer>>

ReadSubjectByName(r) ==
    /\ pc[r] = "consumed"
    /\ \E d \in lookup_by_index(issued[job[r].code].entry.uid) :
         Advance(r, "read", WithEntry(job[r], dir[d]))
    /\ UNCHANGED <<now, dirvars, epoch, lock, codes, issued, tokens, answer>>

\* The subject's entry is read afresh, under the mutex.
ReadSubject(r) ==
    LET e == dir[issued[job[r].code].sub] IN
    /\ pc[r] = "consumed"
    /\ lock = Nobody
    /\ IF e # NoEntry
       THEN Advance(r, "read", WithEntry(job[r], e))
       ELSE Finish(r)
    /\ UNCHANGED <<now, dirvars, epoch, lock, codes, issued, tokens, answer>>

\* Claims are stamped with the time and both tokens signed under the key's mutex.
Sign(r) ==
    /\ pc[r] = "read"
    /\ tokens' = [tokens EXCEPT ![job[r].code] = Append(@,
           [client |-> job[r].client, key |-> epoch, exp |-> now + TokenTtl, entry |-> job[r].entry,
            presented |-> job[r].at, since |-> job[r].rev])]
    /\ Finish(r)
    /\ UNCHANGED <<now, dirvars, epoch, lock, codes, issued, answer>>

-----------------------------------------------------------------------------
(* GET /userinfo *)

\* Mutant: a token of any earlier run's key is honoured.
PresentTokenAnyKey(r, c, i) ==
    /\ pc[r] = "idle"
    /\ ~(tokens[c][i].exp < now)
    /\ Advance(r, "bearer", [code |-> c, tok |-> i, at |-> now, rev |-> Rev])
    /\ UNCHANGED <<now, dirvars, epoch, lock, codes, issued, tokens, answer>>

\* jwt::verify with this process's key, then the expiry. An ID token carries no
\* scope claim and does not decode as an access token.
PresentToken(r, c, i) ==
    /\ pc[r] = "idle"
    /\ tokens[c][i].key = epoch
    /\ ~(tokens[c][i].exp < now)
    /\ Advance(r, "bearer", [code |-> c, tok |-> i, at |-> now, rev |-> Rev])
    /\ UNCHANGED <<now, dirvars, epoch, lock, codes, issued, tokens, answer>>

AnswerUserinfo(r) ==
    LET c == job[r].code
        e == dir[issued[c].sub] IN
    /\ pc[r] = "bearer"
    /\ lock = Nobody
    /\ answer' = IF e = NoEntry THEN answer
                 ELSE [code |-> c, tok |-> job[r].tok, at |-> job[r].at, since |-> job[r].rev, entry |-> e]
    /\ Finish(r)
    /\ UNCHANGED <<now, dirvars, epoch, lock, codes, issued, tokens>>

-----------------------------------------------------------------------------
(* Errors, restart, time, and the directory's other writers *)

\* A directory read or a crypto call fails: the handler answers an error from
\* where it stands, and what it did before stays done.
RequestFails(r) ==
    /\ pc[r] # "idle"
    /\ lock' = IF lock = r THEN Nobody ELSE lock
    /\ Finish(r)
    /\ UNCHANGED <<now, dirvars, epoch, codes, issued, tokens, answer>>

\* main: a new key pair, an empty CodeStore, no request in flight.
Restart ==
    /\ epoch < MaxEpoch
    /\ epoch' = epoch + 1
    /\ codes' = {}
    /\ lock' = Nobody
    /\ pc' = [r \in Reqs |-> "idle"]
    /\ job' = [r \in Reqs |-> Nobody]
    /\ UNCHANGED <<now, dirvars, issued, tokens, answer>>

Tick ==
    /\ now < MaxTime
    /\ now' = now + 1
    /\ UNCHANGED <<dirvars, epoch, reqvars, codes, issued, tokens, answer>>

\* iron-ldapd puts an entry at d, a new one or a change to the one there, or
\* deletes it.
WriteDirectory(d, new) ==
    /\ Rev < MaxRev
    /\ dir[d] # new
    /\ dir' = [dir EXCEPT ![d] = new]
    /\ writes' = Append(writes, d)
    /\ UNCHANGED <<now, epoch, reqvars, codes, issued, tokens, answer>>

PutEntry(d, name, p) ==
    WriteDirectory(d, [born |-> IF dir[d] = NoEntry THEN Rev + 1 ELSE dir[d].born,
                       rev |-> Rev + 1, uid |-> name, pwd |-> p])

-----------------------------------------------------------------------------
Next ==
    \/ \E r \in Reqs, cl \in Clients, uri \in Uris, name \in Names, p \in Passwords :
         SubmitLogin(r, cl, uri, name, p)
    \/ \E r \in Reqs : CheckPassword(r) \/ IssueCode(r)
    \/ \E r \in Reqs, cl \in Clients, uri \in Uris, c \in codes : PresentCode(r, cl, uri, c)
    \/ \E r \in Reqs : ReadSubject(r) \/ Sign(r)
    \/ \E r \in Reqs, c \in Codes : \E i \in 1 .. Len(tokens[c]) : PresentToken(r, c, i)
    \/ \E r \in Reqs : AnswerUserinfo(r) \/ RequestFails(r)
    \/ \E d \in Dns, name \in Names, p \in Passwords : PutEntry(d, name, p)
    \/ \E d \in Dns : WriteDirectory(d, NoEntry)
    \/ Restart
    \/ Tick

Spec == Init /\ [][Next]_vars

-----------------------------------------------------------------------------
(* Properties *)

\* What the abstract grant looks like in this state. A code is live while the
\* store has it, or a request that presented it in order is still being served.
Redeeming(r) == pc[r] \in {"consumed", "read"}
InFlight(c) == \E r \in Reqs : Redeeming(r) /\ job[r].code = c

Live(c) == c \in codes \/ InFlight(c)

GrantStatus(c) ==
    IF c > Len(issued) THEN "none"
    ELSE IF tokens[c] # << >> THEN "spent"
    ELSE IF Live(c) THEN "live"
    ELSE "void"

Abstract == INSTANCE Grant WITH
    status <- [c \in Codes |-> GrantStatus(c)],
    holder <- [c \in Codes |-> IF c <= Len(issued) THEN issued[c].client ELSE Nobody],
    paid   <- [c \in Codes |-> [i \in 1 .. Len(tokens[c]) |-> tokens[c][i].client]]

\* The code store, the client checks and the concurrent /token requests together
\* implement Grant: a login pays out at most once, to the client it was for,
\* however often, by whomever and in whatever interleaving its code is presented
\* (codes.rs: "redeemed exactly once").
ImplementsGrant == Abstract!Spec

\* A code is honoured no later than CodeTtl after the login, the last instant
\* included, and never by a later run of the process: the tokens it buys carry
\* the key of the run the login went to.
HonouredInTime ==
    \A c \in Codes : \A i \in 1 .. Len(tokens[c]) :
        /\ tokens[c][i].presented \in issued[c].at .. issued[c].at + CodeTtl
        /\ tokens[c][i].key = issued[c].key

\* No write to d after e was current had happened by write number k.
Current(e, d, k) == \A j \in e.rev + 1 .. k : writes[j] # d

\* The claims in a token, and those /userinfo answers, are not older than the
\* request they answer: a change made before the code or the token was presented
\* is in them (codes.rs: never "a source of stale claims"; userinfo.rs: "re-read
\* live").
ClaimsFresh ==
    /\ \A c \in Codes : \A i \in 1 .. Len(tokens[c]) :
         Current(tokens[c][i].entry, issued[c].sub, tokens[c][i].since)
    /\ answer # Nobody => Current(answer.entry, issued[answer.code].sub, answer.since)

\* Tokens and answers describe the account that logged in, as long as that
\* account is where it was: a different one answers to the subject DN only after
\* the first was deleted (the DN is all a token says of its subject).
SubjectIsWhoLoggedIn ==
    LET Stays(c) == /\ dir[issued[c].sub] # NoEntry
                    /\ dir[issued[c].sub].born = issued[c].entry.born
    IN /\ \A c \in Codes : \A i \in 1 .. Len(tokens[c]) :
            Stays(c) => tokens[c][i].entry.born = issued[c].entry.born
       /\ answer # Nobody /\ Stays(answer.code) => answer.entry.born = issued[answer.code].entry.born

\* /userinfo answers only for a token of the running process's own key that had
\* not expired when it was presented, restarts in between included.
OnlyLiveTokensAnswered ==
    [][answer' # answer =>
          LET t == tokens[answer'.code][answer'.tok]
          IN t.key = epoch /\ answer'.at <= t.exp]_vars
=============================================================================
