--------------------------- MODULE ReferralProofs ---------------------------
(***************************************************************************)
(* For any forest, any readings of its records and any static referrals: a *)
(* walk over referrals goes down the tree, and servers with current        *)
(* readings bring it to the owner of the name.                             *)
(***************************************************************************)
EXTENDS Referral, WellFoundedInduction, TLAPS

-----------------------------------------------------------------------------
(* What resolve and the other choices of a server return. *)

\* A set of naturals that is not empty has a least member.
LEMMA LeastNat ==
    ASSUME NEW T, T \subseteq Nat, T # {}
    PROVE  \E x \in T : \A y \in T : x <= y
<1> DEFINE LT == {ss \in Nat \X Nat : ss[1] < ss[2]}
<1>1. IsWellFoundedOn(LT, Nat)
  BY NatLessThanWellFounded DEF OpToRel
<1> HIDE DEF LT
<1>2. PICK x \in T : \A y \in T : ~(<<y, x>> \in LT)
  BY <1>1, WFMin, Zenon
<1>3. ASSUME NEW y \in T PROVE x <= y
  <2>1. x \in Nat /\ y \in Nat
    OBVIOUS
  <2>2. ASSUME y < x PROVE <<y, x>> \in LT
    BY <2>1, <2>2 DEF LT
  <2> QED
    BY <1>2, <2>1, <2>2
<1> QED
  BY <1>3

\* Bases of equal length above one name are one base, so one partition
\* (Dn::is_within compares the tail of the name).
LEMMA SameDepth ==
    ASSUME NEW p \in Partitions, NEW q \in Partitions, NEW name \in Seq(Rdns),
           is_within(name, Base[p]), is_within(name, Base[q]), Len(Base[p]) = Len(Base[q])
    PROVE  p = q
BY ReferralAssumption, Zenon DEF is_within

\* PartitionRegistry::resolve returns a partition above the name, and none
\* above it has a longer base.
LEMMA ResolveDeepest ==
    ASSUME NEW records, NEW name \in Seq(Rdns), Over(records, name) # {}
    PROVE  /\ resolve(records, name) \in Over(records, name)
           /\ \A q \in Over(records, name) : Len(Base[q]) <= Len(Base[resolve(records, name)])
<1> DEFINE O == Over(records, name)
           T == {Len(name) - Len(Base[p]) : p \in O}
<1>1. \A p \in O : Len(Base[p]) \in Nat /\ Len(Base[p]) <= Len(name)
  BY ReferralAssumption DEF Over, is_within
<1>2. Len(name) \in Nat
  OBVIOUS
<1> HIDE DEF O
<1>3. \A p \in O : Len(name) - Len(Base[p]) \in Nat
  BY <1>1, <1>2
<1>4. PICK x \in T : \A y \in T : x <= y
  <2>1. T \subseteq Nat
    BY <1>3
  <2>2. T # {}
    BY Zenon DEF O
  <2> QED
    BY <2>1, <2>2, LeastNat, Zenon
<1>5. PICK p \in O : x = Len(name) - Len(Base[p])
  BY <1>4
<1>6. ASSUME NEW q \in O PROVE Len(Base[q]) <= Len(Base[p])
  <2>1. Len(name) - Len(Base[p]) <= Len(name) - Len(Base[q])
    BY <1>4, <1>5, Zenon
  <2> QED
    BY <2>1, <1>1, <1>2
<1>7. resolve(records, name) = CHOOSE r \in O : \A q \in O : Len(Base[q]) <= Len(Base[r])
  BY DEF resolve, O
<1> QED
  BY <1>5, <1>6, <1>7 DEF O

\* resolve finds nobody exactly when no partition of the records is above the name.
LEMMA ResolveNowhere ==
    ASSUME NEW records, NEW name \in Seq(Rdns)
    PROVE  /\ resolve(records, name) = Nowhere <=> Over(records, name) = {}
           /\ resolve(records, name) \in Partitions \cup {Nowhere}
<1>1. Over(records, name) \subseteq Partitions /\ Nowhere \notin Partitions
  BY ReferralAssumption DEF Over
<1>2. CASE Over(records, name) = {}
  BY <1>2 DEF resolve
<1>3. CASE Over(records, name) # {}
  BY <1>1, <1>3, ResolveDeepest
<1> QED
  BY <1>2, <1>3

\* proactive_referral names the owner in the server's reading, never the server itself.
LEMMA ProactiveIsOwner ==
    ASSUME NEW s \in Partitions, NEW name \in Seq(Rdns), proactive_referral(s, name) # Nowhere
    PROVE  /\ topology[s] # Nowhere
           /\ proactive_referral(s, name) = resolve(topology[s], name)
           /\ proactive_referral(s, name) # s
           /\ proactive_referral(s, name) \in Over(topology[s], name)
<1>1. /\ topology[s] # Nowhere
      /\ proactive_referral(s, name) = resolve(topology[s], name)
      /\ proactive_referral(s, name) # s
  BY DEF proactive_referral
<1>2. Over(topology[s], name) # {}
  BY <1>1, ResolveNowhere
<1> QED
  BY <1>1, <1>2, ResolveDeepest

\* The static entry referral_for picks names a server for a base above the name.
LEMMA StaticAbove ==
    ASSUME NEW s \in Partitions, NEW name \in Seq(Rdns), StaticOver(s, name) # {}
    PROVE  LET to == Static[s][CHOOSE i \in StaticOver(s, name) : \A j \in StaticOver(s, name) : i <= j].to
           IN  to \in Partitions /\ is_within(name, Base[to])
<1> DEFINE R == [base : Seq(Rdns), to : Partitions]
<1>1. Static[s] \in Seq(R)
  BY ReferralAssumption, Zenon
<1>2. StaticOver(s, name) \subseteq DOMAIN Static[s] /\ DOMAIN Static[s] \subseteq Nat
  BY <1>1 DEF StaticOver
<1>3. \E i \in StaticOver(s, name) : \A j \in StaticOver(s, name) : i <= j
  BY <1>2, LeastNat
<1>4. PICK i \in StaticOver(s, name) :
        i = CHOOSE k \in StaticOver(s, name) : \A j \in StaticOver(s, name) : k <= j
  BY <1>3
<1>5. i \in DOMAIN Static[s] /\ is_within(name, Static[s][i].base)
  BY DEF StaticOver
<1>6. Static[s][i] \in R
  <2> HIDE DEF R
  <2> QED
    BY <1>1, <1>5
<1>7. Static[s][i].to \in Partitions
  BY <1>6
<1>8. Static[s][i].base = Base[Static[s][i].to]
  BY <1>5, ReferralAssumption, Zenon
<1> QED
  BY <1>4, <1>5, <1>7, <1>8

\* A client is only sent to a server whose partition is above the name.
LEMMA TargetAbove ==
    ASSUME NEW s \in Partitions, NEW name \in Seq(Rdns), Target(s, name) \notin {s, Nowhere}
    PROVE  Target(s, name) \in Partitions /\ is_within(name, Base[Target(s, name)])
<1>1. CASE proactive_referral(s, name) # Nowhere
  <2>1. Target(s, name) = proactive_referral(s, name)
    BY <1>1 DEF Target
  <2> QED
    BY <1>1, <2>1, ProactiveIsOwner DEF Over
<1>2. CASE proactive_referral(s, name) = Nowhere
  <2>1. Target(s, name) = referral_for(s, name)
    BY <1>2 DEF Target
  <2>2. CASE /\ topology[s] # Nowhere /\ resolve(topology[s], name) # Nowhere
             /\ topology[s][resolve(topology[s], name)] = "url"
    <3>1. Target(s, name) = resolve(topology[s], name)
      BY <2>1, <2>2 DEF referral_for
    <3>2. Over(topology[s], name) # {}
      BY <2>2, ResolveNowhere
    <3> QED
      BY <3>1, <3>2, ResolveDeepest DEF Over
  <2>3. CASE ~(/\ topology[s] # Nowhere /\ resolve(topology[s], name) # Nowhere
               /\ topology[s][resolve(topology[s], name)] = "url")
    <3>1. /\ StaticOver(s, name) # {}
          /\ Target(s, name) = Static[s][CHOOSE i \in StaticOver(s, name) : \A j \in StaticOver(s, name) : i <= j].to
      BY <2>1, <2>3 DEF referral_for
    <3> QED
      BY <3>1, StaticAbove, Zenon
  <2> QED
    BY <2>2, <2>3
<1> QED
  BY <1>1, <1>2

\* A server sends a name of its own away only because its reading names a deeper owner.
LEMMA LocalTarget ==
    ASSUME NEW s \in Partitions, NEW name \in Seq(Rdns), is_within(name, Base[s]), Target(s, name) # s
    PROVE  /\ topology[s] # Nowhere
           /\ Target(s, name) = resolve(topology[s], name)
           /\ Target(s, name) \in Over(topology[s], name)
<1>1. proactive_referral(s, name) # Nowhere /\ Target(s, name) = proactive_referral(s, name)
  BY DEF Target, Local
<1> QED
  BY <1>1, ProactiveIsOwner

\* With a current reading and addresses for all, the next server is the owner.
LEMMA CurrentTarget ==
    ASSUME NEW s \in Partitions, NEW name \in Seq(Rdns), config \in [Partitions -> Status],
           topology[s] = config, Addressed, Over(config, name) # {}
    PROVE  Target(s, name) = resolve(config, name)
<1> DEFINE o == resolve(config, name)
<1>1. o \in Over(config, name) /\ o \in Partitions /\ o # Nowhere
  BY ResolveDeepest, ResolveNowhere DEF Over
<1>2. config[o] = "url" /\ is_within(name, Base[o])
  BY <1>1 DEF Over, Addressed, Status
<1>3. topology[s] # Nowhere
  BY ReferralAssumption
<1> HIDE DEF o
<1>4. CASE o = s
  BY <1>2, <1>3, <1>4 DEF Target, proactive_referral, Local, o
<1>5. CASE o # s
  BY <1>1, <1>2, <1>3, <1>5 DEF Target, proactive_referral, o
<1> QED
  BY <1>4, <1>5 DEF o

-----------------------------------------------------------------------------
(* The inductive invariant. *)

\* Every server with the settings has a reading.
Read == \A s \in Configured : topology[s] # Nowhere

\* After a referral the client is at a server above the name; after two that
\* were up to date it is at the owner.
Walk ==
  phase = "asking" =>
    /\ hops > 0 => is_within(sought, Base[at])
    /\ fresh /\ Addressed =>
         /\ hops <= 2
         /\ hops = 2 => /\ at \in Over(config, sought)
                        /\ \A p \in Over(config, sought) : Len(Base[p]) <= Len(Base[at])

Inv == ReferralTypeOK /\ Read /\ Walk /\ OwnerAnswers

\* The initial states satisfy the invariant.
LEMMA InvInit ==
    ASSUME ReferralInit
    PROVE  Inv
<1>1. config \in [Partitions -> Status]
  BY DEF ReferralInit, Status
<1>2. topology \in [Partitions -> [Partitions -> Status] \cup {Nowhere}]
  BY <1>1 DEF ReferralInit, load_topology
<1>3. ReferralTypeOK
  BY <1>1, <1>2, ReferralAssumption, Zenon DEF ReferralTypeOK, ReferralInit
<1>4. config # Nowhere
  BY <1>1, ReferralAssumption
<1>5. Read
  BY <1>4, ReferralAssumption DEF Read, ReferralInit, load_topology
<1> QED
  BY <1>3, <1>5 DEF Inv, Walk, OwnerAnswers, ReferralInit

\* The types are kept by every step.
LEMMA TypeStep ==
    ASSUME ReferralTypeOK, Read, [ReferralNext]_rvars
    PROVE  ReferralTypeOK' /\ Read'
<1> USE DEF ReferralTypeOK
<1>0. sought \in Seq(Rdns) /\ config # Nowhere
  BY ReferralAssumption
<1>1. ASSUME NEW s \in Partitions, NEW name \in Dns, Ask(s, name) PROVE ReferralTypeOK' /\ Read'
  BY <1>1 DEF Ask, Read
<1>2. CASE Refer
  <2>1. at' \in Partitions
    BY <1>0, <1>2, TargetAbove DEF Refer
  <2> QED
    BY <1>2, <2>1 DEF Refer, UpToDate, Read
<1>3. CASE GiveUp
  BY <1>3 DEF GiveUp, UpToDate, Read
<1>4. CASE Answer
  BY <1>4 DEF Answer, UpToDate, Read
<1>5. CASE Refuse
  BY <1>5 DEF Refuse, UpToDate, Read
<1>6. CASE Close
  BY <1>6, ReferralAssumption, Zenon DEF Close, Read
<1>7. ASSUME NEW p \in Partitions, NEW u \in {"nourl", "url"}, create_child(p, u) PROVE ReferralTypeOK' /\ Read'
  BY <1>7, Zenon DEF create_child, Read, Status
<1>8. ASSUME NEW p \in Partitions, set_ldap_url(p) PROVE ReferralTypeOK' /\ Read'
  BY <1>8, Zenon DEF set_ldap_url, Read, Status
<1>9. ASSUME NEW s \in Partitions, Restart(s) PROVE ReferralTypeOK' /\ Read'
  <2>1. load_topology(s) \in [Partitions -> Status] \cup {Nowhere}
    BY DEF load_topology
  <2>2. s \in Configured => load_topology(s) # Nowhere
    BY <1>0 DEF load_topology
  <2> QED
    BY <1>9, <2>1, <2>2, ReferralAssumption, SMTT(40) DEF Restart, Read
<1>10. CASE UNCHANGED rvars
  BY <1>10 DEF rvars, Read
<1> QED
  BY <1>1, <1>2, <1>3, <1>4, <1>5, <1>6, <1>7, <1>8, <1>9, <1>10, SMTT(40) DEF ReferralNext

\* A client after two up-to-date referrals is not sent any further.
LEMMA OwnerKeeps ==
    ASSUME ReferralTypeOK, Walk, phase = "asking", fresh, Addressed, hops = 2,
           topology[at] \in {config, Nowhere}
    PROVE  Target(at, sought) = at
<1>1. at \in Partitions /\ sought \in Seq(Rdns) /\ config \in [Partitions -> Status]
  BY ReferralAssumption DEF ReferralTypeOK
<1>2. /\ is_within(sought, Base[at])
      /\ at \in Over(config, sought)
      /\ \A p \in Over(config, sought) : Len(Base[p]) <= Len(Base[at])
  BY DEF Walk
<1>3. CASE topology[at] = Nowhere
  BY <1>1, <1>2, <1>3, LocalTarget
<1>4. CASE topology[at] = config
  <2> DEFINE o == resolve(config, sought)
  <2>1. Target(at, sought) = o
    BY <1>1, <1>2, <1>4, CurrentTarget
  <2>2. o \in Over(config, sought) /\ Len(Base[at]) <= Len(Base[o])
    BY <1>1, <1>2, ResolveDeepest
  <2>3. o \in Partitions /\ is_within(sought, Base[o])
    BY <2>2 DEF Over
  <2> HIDE DEF o
  <2>4. Base[at] \in Seq(Rdns) /\ Base[o] \in Seq(Rdns)
    BY <1>1, <2>3, ReferralAssumption
  <2>5. Len(Base[o]) = Len(Base[at])
    BY <1>2, <2>2, <2>4
  <2> QED
    BY <1>1, <1>2, <2>1, <2>3, <2>5, SameDepth, SMTT(40)
<1> QED
  BY <1>3, <1>4

\* The walk's part of the invariant.
LEMMA WalkStep ==
    ASSUME ReferralTypeOK, Walk, [ReferralNext]_rvars
    PROVE  Walk'
<1>0. at \in Partitions /\ sought \in Seq(Rdns) /\ hops \in Nat
  BY ReferralAssumption DEF ReferralTypeOK
<1>1. ASSUME NEW s \in Partitions, NEW name \in Dns, Ask(s, name) PROVE Walk'
  BY <1>1 DEF Ask, Walk
<1>2. CASE Refer
  <2>1. /\ phase = "asking" /\ Target(at, sought) \notin {at, Nowhere}
        /\ at' = Target(at, sought) /\ hops' = hops + 1 /\ sought' = sought /\ config' = config
        /\ fresh' = (fresh /\ topology[at] \in {config, Nowhere})
    BY <1>2 DEF Refer, UpToDate
  <2>2. is_within(sought', Base[at'])
    BY <1>0, <2>1, TargetAbove
  <2>3. ASSUME fresh', Addressed'
        PROVE  /\ hops' <= 2
               /\ hops' = 2 => /\ at' \in Over(config, sought)'
                               /\ \A p \in Over(config, sought)' : Len(Base[p]) <= Len(Base[at'])
    <3>1. Addressed /\ fresh /\ topology[at] \in {config, Nowhere}
      BY <2>1, <2>3, Zenon DEF Addressed
    <3>2. hops # 2
      BY <2>1, <3>1, OwnerKeeps
    <3>3. hops <= 1
      BY <1>0, <2>1, <3>1, <3>2, SMTT(40) DEF Walk
    <3>4. ASSUME hops = 1
          PROVE  /\ at' \in Over(config, sought)
                 /\ \A p \in Over(config, sought) : Len(Base[p]) <= Len(Base[at'])
      <4>1. is_within(sought, Base[at])
        BY <2>1, <3>4 DEF Walk
      <4>2. topology[at] # Nowhere /\ at' = resolve(topology[at], sought) /\ at' \in Over(topology[at], sought)
        BY <1>0, <2>1, <4>1, LocalTarget
      <4>3. topology[at] = config
        BY <3>1, <4>2
      <4> QED
        BY <1>0, <4>2, <4>3, ResolveDeepest, SMTT(40)
    <3>5. Over(config, sought)' = Over(config, sought)
      BY <2>1 DEF Over
    <3> QED
      BY <1>0, <2>1, <3>3, <3>4, <3>5, SMTT(40)
  <2> QED
    BY <2>2, <2>3 DEF Walk
<1>3. CASE GiveUp \/ Answer \/ Refuse \/ Close
  BY <1>3 DEF GiveUp, Answer, Refuse, Close, Walk
<1>4. ASSUME NEW p \in Partitions, NEW u \in {"nourl", "url"}, create_child(p, u) PROVE Walk'
  BY <1>4 DEF create_child, Walk
<1>5. ASSUME NEW p \in Partitions, set_ldap_url(p) PROVE Walk'
  BY <1>5 DEF set_ldap_url, Walk
<1>6. ASSUME NEW s \in Partitions, Restart(s) PROVE Walk'
  BY <1>6 DEF Restart, Walk, Addressed, Over
<1>7. CASE UNCHANGED rvars
  BY <1>7 DEF rvars, Walk, Addressed, Over
<1> QED
  BY <1>1, <1>2, <1>3, <1>4, <1>5, <1>6, <1>7, SMTT(40) DEF ReferralNext

\* The owner's part: what a walk that ends has found.
LEMMA OwnerStep ==
    ASSUME Inv, [ReferralNext]_rvars
    PROVE  OwnerAnswers'
<1>0. /\ at \in Partitions /\ sought \in Seq(Rdns) /\ hops \in Nat /\ config \in [Partitions -> Status]
      /\ ReferralTypeOK /\ Walk /\ OwnerAnswers /\ Read
  BY ReferralAssumption DEF ReferralTypeOK, Inv
<1>1. ASSUME NEW s \in Partitions, NEW name \in Dns, Ask(s, name) PROVE OwnerAnswers'
  BY <1>1 DEF Ask, OwnerAnswers
<1>2. CASE Refer
  BY <1>2 DEF Refer, OwnerAnswers
<1>3. ASSUME phase = "asking", UpToDate, UNCHANGED <<config, topology, at, sought, hops>>,
             fresh', at \in Configured, Addressed
      PROVE  /\ hops <= 2
             /\ topology[at] = config
             /\ Over(config, sought) # {} => Target(at, sought) = resolve(config, sought)
  <2>1. fresh /\ topology[at] \in {config, Nowhere}
    BY <1>3, Zenon DEF UpToDate
  <2>2. topology[at] = config
    BY <1>0, <1>3, <2>1 DEF Read
  <2>3. hops <= 2
    BY <1>0, <1>3, <2>1 DEF Walk
  <2> QED
    BY <1>0, <1>3, <2>2, <2>3, CurrentTarget
<1>4. CASE GiveUp
  <2> SUFFICES ASSUME fresh', (at \in Configured)', Addressed' PROVE FALSE
    BY DEF OwnerAnswers
  <2>1. phase = "asking" /\ hops <= 2 /\ topology[at] = config /\ fresh /\ Addressed /\ hops = MaxHops
    BY <1>3, <1>4, Zenon DEF GiveUp, Addressed, UpToDate
  <2>2. hops = 2
    BY <1>0, <2>1, ReferralAssumption
  <2> QED
    BY <1>0, <1>4, <2>1, <2>2, OwnerKeeps DEF GiveUp
<1>5. CASE Answer \/ Refuse
  <2> SUFFICES ASSUME fresh', (at \in Configured)', Addressed', NEW p \in Over(config, sought)'
               PROVE  (hops <= 2 /\ phase = "answered" /\ Len(Base[p]) <= Len(Base[at]))'
    <3>1. ASSUME fresh', (at \in Configured)', Addressed' PROVE hops' <= 2
      BY <1>3, <1>5, <3>1 DEF Answer, Refuse, Addressed
    <3> QED
      BY <3>1 DEF OwnerAnswers
  <2>1. /\ hops' = hops /\ hops <= 2 /\ at' = at /\ p \in Over(config, sought)
        /\ Over(config, sought) # {} => Target(at, sought) = resolve(config, sought)
    BY <1>3, <1>5 DEF Answer, Refuse, Addressed, Over
  <2>2. resolve(config, sought) # Nowhere /\ Len(Base[p]) <= Len(Base[resolve(config, sought)])
    BY <1>0, <2>1, ResolveDeepest, ResolveNowhere
  <2>3. Answer /\ resolve(config, sought) = at
    BY <1>5, <2>1, <2>2 DEF Answer, Refuse
  <2> QED
    BY <2>1, <2>2, <2>3 DEF Answer
<1>6. CASE Close
  BY <1>6 DEF Close, OwnerAnswers
<1>7. ASSUME NEW p \in Partitions, NEW u \in {"nourl", "url"}, create_child(p, u) PROVE OwnerAnswers'
  BY <1>7 DEF create_child, OwnerAnswers
<1>8. ASSUME NEW p \in Partitions, set_ldap_url(p) PROVE OwnerAnswers'
  BY <1>8 DEF set_ldap_url, OwnerAnswers
<1>9. ASSUME NEW s \in Partitions, Restart(s) PROVE OwnerAnswers'
  BY <1>0, <1>9 DEF Restart, OwnerAnswers, Addressed, Over
<1>10. CASE UNCHANGED rvars
  BY <1>0, <1>10 DEF rvars, OwnerAnswers, Addressed, Over
<1> QED
  BY <1>1, <1>2, <1>4, <1>5, <1>6, <1>7, <1>8, <1>9, <1>10, SMTT(40) DEF ReferralNext

-----------------------------------------------------------------------------
(* The theorems. *)

\* The invariant holds for ever.
LEMMA InvAlways == ReferralSpec => []Inv
<1>1. ReferralInit => Inv
  BY InvInit
<1>2. Inv /\ [ReferralNext]_rvars => Inv'
  BY TypeStep, WalkStep, OwnerStep DEF Inv
<1> QED
  BY <1>1, <1>2, PTL DEF ReferralSpec

\* The walk's state is well typed, Target's answers included: at is always a
\* server (Referral.tla's actions over session.rs and iron-config-ctl).
THEOREM ReferralTypeCorrect == ReferralSpec => []ReferralTypeOK
<1>1. Inv => ReferralTypeOK
  BY DEF Inv
<1> QED
  BY <1>1, InvAlways, PTL

\* With current readings and addresses the client ends at the owner of the
\* name, after two referrals at most (proactive_referral, store_error_result).
THEOREM ReferralOwnerAnswers == ReferralSpec => []OwnerAnswers
<1>1. Inv => OwnerAnswers
  BY DEF Inv
<1> QED
  BY <1>1, InvAlways, PTL

\* However old the readings, a server that knows its own partition sends a
\* client that was referred to it only further down (proactive_referral and
\* PartitionRegistry::resolve), so no walk over such servers is a circle.
THEOREM ReferralGoesDown == ReferralSpec => ReferralsDescend
<1>1. ASSUME Inv, [ReferralNext]_rvars, hops > 0, hops' = hops + 1, KnowsItself(at)
      PROVE  Len(Base[at']) > Len(Base[at])
  <2>0. at \in Partitions /\ sought \in Seq(Rdns) /\ hops \in Nat /\ Walk
    BY <1>1, ReferralAssumption DEF ReferralTypeOK, Inv
  <2>1. Refer
    <3>1. hops' # hops /\ hops' # 0
      BY <1>1, <2>0
    <3>2. ~UNCHANGED rvars /\ ReferralNext
      BY <1>1, <3>1 DEF rvars
    <3>3. ~Close /\ \A s \in Partitions, name \in Dns : ~Ask(s, name)
      BY <3>1 DEF Ask, Close
    <3>4. ~GiveUp /\ ~Answer /\ ~Refuse
      BY <3>1 DEF GiveUp, Answer, Refuse
    <3>5. \A p \in Partitions : /\ ~set_ldap_url(p) /\ ~Restart(p)
                                /\ \A u \in {"nourl", "url"} : ~create_child(p, u)
      BY <3>1 DEF create_child, set_ldap_url, Restart
    <3> QED
      BY <3>2, <3>3, <3>4, <3>5 DEF ReferralNext
  <2>2. phase = "asking" /\ Target(at, sought) \notin {at, Nowhere} /\ at' = Target(at, sought)
    BY <2>1 DEF Refer
  <2>3. is_within(sought, Base[at])
    BY <1>1, <2>0, <2>2 DEF Walk
  <2>4. topology[at] # Nowhere /\ at' = resolve(topology[at], sought) /\ at' \in Over(topology[at], sought)
    BY <2>0, <2>2, <2>3, LocalTarget
  <2>5. at \in Over(topology[at], sought)
    BY <1>1, <2>0, <2>3, <2>4 DEF KnowsItself, Over
  <2>6. Len(Base[at]) <= Len(Base[at'])
    BY <2>0, <2>4, <2>5, ResolveDeepest
  <2>7. at' \in Partitions /\ is_within(sought, Base[at'])
    BY <2>4 DEF Over
  <2>8. Len(Base[at]) # Len(Base[at'])
    BY <2>0, <2>2, <2>3, <2>7, SameDepth
  <2>9. Len(Base[at]) \in Nat /\ Len(Base[at']) \in Nat
    BY <2>0, <2>7, ReferralAssumption
  <2> QED
    BY <2>6, <2>8, <2>9
<1>2. Inv /\ [ReferralNext]_rvars
      => [hops > 0 /\ hops' = hops + 1 /\ KnowsItself(at) => Len(Base[at']) > Len(Base[at])]_rvars
  BY <1>1
<1> QED
  BY <1>2, InvAlways, PTL DEF ReferralSpec, ReferralsDescend
=============================================================================
