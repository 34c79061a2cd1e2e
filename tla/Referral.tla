------------------------------ MODULE Referral ------------------------------
(***************************************************************************)
(* Which server answers for a name.  Each domain partition has one         *)
(* iron-ldapd.  A server reads the forest's partition records once, when   *)
(* it starts, and sends a client elsewhere when those records say another  *)
(* partition owns the name; iron-config-ctl changes the records while old  *)
(* readings are in use.  A client follows referrals from server to server. *)
(*                                                                         *)
(* An LDAP URL is the partition whose server it reaches: an address is     *)
(* right, or not set.  The configuration and schema partitions have no     *)
(* server and no names a client asks for here.                             *)
(***************************************************************************)
EXTENDS Naming

CONSTANTS
  Partitions,    \* domain partitions; each stands for its server too
  Root,          \* the forest root, registered by init-forest
  Rdns,          \* what names are made of, normalized
  Base,          \* the base DN of each partition
  Configured,    \* servers given the IRON_LDAP_CONFIG_* settings
  Static,        \* each server's IRON_LDAP_REFERRALS: a sequence of [base, to]
  Dns,           \* the names clients ask about
  MaxHops,       \* bound: referrals a client follows before it gives up
  Nowhere        \* no partition, no server, no topology

Status == {"absent", "nourl", "url"}

\* Base DNs differ, and a static referral sends a name to a server for it.
ASSUME ReferralAssumption ==
  /\ Root \in Partitions
  /\ Configured \subseteq Partitions
  /\ Nowhere \notin Partitions \cup [Partitions -> Status]
  /\ Dns \subseteq Seq(Rdns) /\ Base[Root] \in Dns
  /\ Base \in [Partitions -> Seq(Rdns)]
  /\ \A p, q \in Partitions : Base[p] = Base[q] => p = q
  /\ Static \in [Partitions -> Seq([base : Seq(Rdns), to : Partitions])]
  /\ \A p \in Partitions : \A i \in DOMAIN Static[p] : Static[p][i].base = Base[Static[p][i].to]
  /\ MaxHops \in Nat /\ MaxHops >= 2

VARIABLES
  config,        \* config[p]: p's record in the configuration partition
  topology,      \* topology[s]: the records server s read when it started
  phase,         \* the client: "idle", "asking", "answered" or "failed"
  at,            \* the server it is at
  sought,        \* the name it asks for
  hops,          \* referrals followed
  fresh          \* history: no server on the way had an old reading of the records

rvars == <<config, topology, phase, at, sought, hops, fresh>>
client == <<phase, at, sought, hops, fresh>>

ReferralTypeOK ==
  /\ config \in [Partitions -> Status]
  /\ topology \in [Partitions -> [Partitions -> Status] \cup {Nowhere}]
  /\ phase \in {"idle", "asking", "answered", "failed"}
  /\ at \in Partitions
  /\ sought \in Dns
  /\ hops \in Nat
  /\ fresh \in BOOLEAN

\* load_topology: the records as they are now, or none without the settings.
load_topology(s) == IF s \in Configured THEN config ELSE Nowhere

ReferralInit ==
  /\ config \in {[p \in Partitions |-> IF p = Root THEN u ELSE "absent"] : u \in {"nourl", "url"}}
  /\ topology = [s \in Partitions |-> load_topology(s)]
  /\ phase = "idle" /\ at = Root /\ sought = Base[Root] /\ hops = 0 /\ fresh = FALSE

-----------------------------------------------------------------------------
(* What a server makes of a name. *)

\* The partitions of some records at or below whose base a name lies.
Over(records, name) == {p \in Partitions : records[p] # "absent" /\ is_within(name, Base[p])}

\* Mutant: the shortest base wins.
resolveShortest(records, name) ==
  IF Over(records, name) = {} THEN Nowhere
  ELSE CHOOSE p \in Over(records, name) : \A q \in Over(records, name) : Len(Base[p]) <= Len(Base[q])

\* PartitionRegistry::resolve: the partition with the longest base above the name.
resolve(records, name) ==
  IF Over(records, name) = {} THEN Nowhere
  ELSE CHOOSE p \in Over(records, name) : \A q \in Over(records, name) : Len(Base[q]) <= Len(Base[p])

\* proactive_referral: somebody else's name, if the records say so and where.
proactive_referral(s, name) ==
  LET owner == IF topology[s] = Nowhere THEN Nowhere ELSE resolve(topology[s], name)
  IN  IF owner \notin {Nowhere, s} /\ topology[s][owner] = "url" THEN owner ELSE Nowhere

\* The static referrals of a server above a name.
StaticOver(s, name) == {i \in DOMAIN Static[s] : is_within(name, Static[s][i].base)}

\* referral_for: the topology's owner, else the first static entry above the name.
referral_for(s, name) ==
  LET owner == IF topology[s] = Nowhere THEN Nowhere ELSE resolve(topology[s], name)
  IN  IF owner # Nowhere /\ topology[s][owner] = "url" THEN owner
      ELSE IF StaticOver(s, name) = {} THEN Nowhere
      ELSE Static[s][CHOOSE i \in StaticOver(s, name) : \A j \in StaticOver(s, name) : i <= j].to

\* A server's own Store holds one partition: resolve there is containment.
Local(s, name) == is_within(name, Base[s])

\* Mutant: the static referrals come before the server's own partition.
TargetStaticFirst(s, name) ==
  IF proactive_referral(s, name) # Nowhere THEN proactive_referral(s, name)
  ELSE IF StaticOver(s, name) # {} THEN Static[s][CHOOSE i \in StaticOver(s, name) : TRUE].to
  ELSE IF Local(s, name) THEN s
  ELSE Nowhere

\* Where a request for a name goes next: a handler asks proactive_referral
\* first, then its store, and turns NoPartitionFor into a referral.
Target(s, name) ==
  IF proactive_referral(s, name) # Nowhere THEN proactive_referral(s, name)
  ELSE IF Local(s, name) THEN s
  ELSE referral_for(s, name)

-----------------------------------------------------------------------------
(* The client. *)

\* The server the client is at, if it has read the records, read them as they are.
UpToDate == fresh' = (fresh /\ topology[at] \in {config, Nowhere})

Ask(s, name) ==
  /\ phase = "idle"
  /\ phase' = "asking" /\ at' = s /\ sought' = name /\ hops' = 0 /\ fresh' = TRUE
  /\ UNCHANGED <<config, topology>>

Refer ==
  /\ phase = "asking" /\ Target(at, sought) \notin {at, Nowhere} /\ hops < MaxHops
  /\ at' = Target(at, sought) /\ hops' = hops + 1
  /\ UpToDate
  /\ UNCHANGED <<config, topology, phase, sought>>

GiveUp ==
  /\ phase = "asking" /\ Target(at, sought) \notin {at, Nowhere} /\ hops = MaxHops
  /\ phase' = "failed" /\ UpToDate
  /\ UNCHANGED <<config, topology, at, sought, hops>>

\* The server looks the name up itself.
Answer ==
  /\ phase = "asking" /\ Target(at, sought) = at
  /\ phase' = "answered" /\ UpToDate
  /\ UNCHANGED <<config, topology, at, sought, hops>>

\* operationsError: not its own name, and nowhere to send the client.
Refuse ==
  /\ phase = "asking" /\ Target(at, sought) = Nowhere
  /\ phase' = "failed" /\ UpToDate
  /\ UNCHANGED <<config, topology, at, sought, hops>>

\* The client has read the reply.
Close ==
  /\ phase \in {"answered", "failed"}
  /\ phase' = "idle" /\ at' = Root /\ sought' = Base[Root] /\ hops' = 0 /\ fresh' = FALSE
  /\ UNCHANGED <<config, topology>>

-----------------------------------------------------------------------------
(* The operator. *)

\* create_child: a new partition's record, with its address or without.
create_child(p, u) ==
  /\ config[p] = "absent"
  /\ config' = [config EXCEPT ![p] = u]
  /\ fresh' = FALSE
  /\ UNCHANGED <<topology, phase, at, sought, hops>>

set_ldap_url(p) ==
  /\ config[p] = "nourl"
  /\ config' = [config EXCEPT ![p] = "url"]
  /\ fresh' = FALSE
  /\ UNCHANGED <<topology, phase, at, sought, hops>>

\* A server started again reads the records as they are.
Restart(s) ==
  /\ topology[s] # load_topology(s)
  /\ topology' = [topology EXCEPT ![s] = load_topology(s)]
  /\ UNCHANGED <<config, phase, at, sought, hops, fresh>>

ReferralNext ==
  \/ \E s \in Partitions, name \in Dns : Ask(s, name)
  \/ Refer \/ GiveUp \/ Answer \/ Refuse \/ Close
  \/ \E p \in Partitions, u \in {"nourl", "url"} : create_child(p, u)
  \/ \E p \in Partitions : set_ldap_url(p)
  \/ \E s \in Partitions : Restart(s)

ReferralSpec == ReferralInit /\ [][ReferralNext]_rvars

-----------------------------------------------------------------------------
(* Properties. *)

\* A server has read its own record, or works without records.
KnowsItself(s) == topology[s] = Nowhere \/ topology[s][s] # "absent"

\* A client is never sent round in a circle, however old the readings of the
\* servers it meets: from the second referral on, a server that knows its own
\* partition sends it strictly further down the tree (proactive_referral,
\* referral_for and PartitionRegistry::resolve over different snapshots).
ReferralsDescend ==
  [][/\ hops > 0 /\ hops' = hops + 1 /\ KnowsItself(at)
     => Len(Base[at']) > Len(Base[at])]_rvars

Addressed == \A p \in Partitions : config[p] # "nourl"

\* When no server on the way had an old reading and every record has an
\* address, the client ends up with the server whose partition owns the name,
\* after two referrals at most and wherever it began: no server with readings
\* answers "no such object" for an entry of a child domain, and none refuses a
\* name the forest holds (proactive_referral, resolve, store_error_result).
OwnerAnswers ==
  phase \in {"answered", "failed"} /\ fresh /\ at \in Configured /\ Addressed
  => /\ hops <= 2
     /\ \A p \in Over(config, sought) : phase = "answered" /\ Len(Base[p]) <= Len(Base[at])
=============================================================================
