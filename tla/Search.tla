------------------------------- MODULE Search -------------------------------
(***************************************************************************)
(* Search and compare, from the client's text to the entries it gets: the  *)
(* referral walk of Referral.tla, the LDAP server that ends it with a      *)
(* lookup or a range scan of its partition's keys (iron-ldap's session.rs, *)
(* iron-store's entry.rs), and the Global Catalog, which answers from its  *)
(* copy of every partition (iron-gc).                                      *)
(*                                                                         *)
(* A request names a base (a text), a scope, a filter, a size limit and    *)
(* the attributes wanted; a compare is the scope "compare" with an         *)
(* equality filter.  Rows are read in some fixed order.  What a row holds  *)
(* depends on its name only: Content.  Writers act between requests and    *)
(* between the two reads of a scan; elsewhere in a request they make no    *)
(* difference to it.                                                       *)
(***************************************************************************)
EXTENDS Referral, Filter, FiniteSets

CONSTANTS
  Stored,        \* Stored[p]: the names that are written to p's tree
  Content,       \* the entry that is written for a name
  Requests,      \* Requests[s]: what clients send to server s
  GcRequests,    \* and to the Global Catalog
  Children,      \* partitions create-child may register
  Whitelist,     \* IRON_GC_ATTRIBUTES
  MaxChanges,    \* bound: entries and records changed, servers started again
  NoReply

ASSUME SearchAssumption == MaxChanges \in Nat /\ DOMAIN Stored = Partitions

Sent == GcRequests \cup UNION {Requests[s] : s \in Partitions}

\* Tables, so that TLC works a text out once: Dn::parse of each request's base
\* and its normalized form, the key of a name, the name a key is read back as.
Table(f) == f @@ <<>>
BaseOf == Table([r \in Sent |-> parse(r.base)])
NormOf == Table([r \in Sent |-> IF BaseOf[r] = Invalid THEN Invalid ELSE normalized(BaseOf[r])])
Written == UNION {Stored[p] : p \in Partitions}
KeyOf == Table([n \in Written |-> entry_key(n)])
NameOf == Table([k \in {entry_key(n) : n \in Written} |-> dn_from_tree_key(k)])

VARIABLES
  tree,          \* tree[p]: the rows of p's tree, key to entry
  live,          \* live[p]: history, the names that were written and not deleted
  clean,         \* clean[p]: history, every name written came back from its key
  catalog,       \* the Global Catalog's aggregate: shown name to [dn, entry]
  asked,         \* the request under way
  held,          \* what the first read of its scan returned
  seen,          \* history: live[at] at that read
  reply,         \* what the client got for the request
  changes

svars == <<tree, live, clean, catalog, asked, held, seen, reply, changes>>
vars == <<rvars, svars>>

Reply(code, found) == [code |-> code, found |-> found]
Nothing(code) == Reply(code, {})

Drop(f, x) == [k \in DOMAIN f \ {x} |-> f[k]]
With(f, x, v) == [k \in DOMAIN f \cup {x} |-> IF k = x THEN v ELSE f[k]]

\* Aggregate's project: the attributes on the whitelist, at ingest.
project(entry) == [a \in DOMAIN entry \cap Whitelist |-> entry[a]]

\* apply_entry, and the removal for a delete event: the row's key as a name;
\* an unreadable key is logged and left out.
Ingest(cat, rows, key) ==
  LET name == NameOf[key]
  IN  IF name = Invalid THEN cat
      ELSE IF key \in DOMAIN rows
      THEN With(cat, to_string(name), [dn |-> name, entry |-> project(rows[key])])
      ELSE Drop(cat, to_string(name))

\* A name that is the same after a trip through its storage key.
KeySafe(n) == dn_from_tree_key(entry_key(n)) = normalized(n)

Rows(names) == [k \in {KeyOf[n] : n \in names} |-> Content[CHOOSE n \in names : KeyOf[n] = k]]

\* The catalog has loaded what is there (GcWatch.tla is about how it gets so far).
Init ==
  /\ ReferralInit
  /\ live = [p \in Partitions |-> {n \in Stored[p] : KeySafe(n)}]
  /\ tree = [p \in Partitions |-> Rows(live[p])]
  /\ clean = [p \in Partitions |-> TRUE]
  /\ catalog = LET rows == UNION {{<<p, k>> : k \in DOMAIN tree[p]} : p \in Partitions}
               IN  FoldSet(LAMBDA r, cat : Ingest(cat, tree[r[1]], r[2]), <<>>, rows)
  /\ asked = NoReply /\ held = NoReply /\ seen = {} /\ reply = NoReply
  /\ changes = 0

-----------------------------------------------------------------------------
(* The LDAP server's handlers, once the name is its own. *)

\* Mutant: the limit cuts what is looked at, not what is sent.
PageCut(rows, f, limit) ==
  Reply("success", {rows[i] : i \in {j \in DOMAIN rows : (limit = 0 \/ j <= limit) /\ matches(rows[j].entry, f)}})

\* The loop over the candidates: those the filter is TRUE for, until one more
\* than the limit allows turns up.
Page(rows, f, limit) ==
  LET step(acc, row) ==
        IF acc.code # "success" \/ ~matches(row.entry, f) THEN acc
        ELSE IF limit # 0 /\ Cardinality(acc.found) = limit THEN [acc EXCEPT !.code = "sizeLimitExceeded"]
        ELSE [acc EXCEPT !.found = @ \cup {row}]
  IN  FoldLeft(step, Nothing("success"), rows)

\* project_attributes: userPassword only for those who name it.
project_attributes(entry, wanted) ==
  {a \in DOMAIN entry : a \in wanted \/ (a # "userPassword" /\ (wanted = {} \/ "*" \in wanted))}

Shown(page, attrs(_)) ==
  [page EXCEPT !.found = {[dn |-> normalized(row.dn), attrs |-> attrs(row.entry)] : row \in @}]

Row(p, key) == [dn |-> NameOf[key], entry |-> tree[p][key]]

\* scan_subtree reads the rows whose keys continue the base's, ...
ScanBelow(p, name) == {Row(p, k) : k \in {x \in DOMAIN tree[p] : IsPrefix(subtree_prefix(name), x)}}

\* ... and then, in a second request, the base's own.
scan_subtree(p, name, below) ==
  below \cup {Row(p, k) : k \in {entry_key(name)} \cap DOMAIN tree[p]}

handle_search(p, r, below) ==
  LET name == BaseOf[r]
      key  == entry_key(name)
      rows == scan_subtree(p, name, below)
      near == {x \in rows : r.scope = "sub" \/ Len(x.dn) = Len(name) + 1}
      attrs(entry) == project_attributes(entry, r.attrs)
  IN  IF r.scope = "base"
      THEN IF key \in DOMAIN tree[p]
           THEN Shown(Page(<<[dn |-> name, entry |-> tree[p][key]]>>, r.filter, r.limit), attrs)
           ELSE Nothing("noSuchObject")
      ELSE IF \E x \in rows : x.dn = Invalid THEN Nothing("operationsError")
      ELSE Shown(Page(SetToSeq(near), r.filter, r.limit), attrs)

handle_compare(p, r) ==
  LET key == entry_key(BaseOf[r])
  IN  IF key \notin DOMAIN tree[p] THEN Nothing("noSuchObject")
      ELSE IF \E v \in ToSet(Values(tree[p][key], r.filter.attr)) : lowercase(v) = lowercase(r.filter.value)
      THEN Nothing("compareTrue")
      ELSE Nothing("compareFalse")

\* rootdse::build: the naming contexts, and the domain if there is just one.
build(known) ==
  [contexts |-> {Base[p] : p \in known},
   default |-> IF Cardinality(known) = 1 THEN {Base[p] : p \in known} ELSE {}]

-----------------------------------------------------------------------------
(* The client and the server it is at. *)

idle == phase = "idle" /\ reply = NoReply
stays == <<tree, live, clean, catalog, changes>>

IsRootDse(r) == BaseOf[r] = <<>> /\ r.scope = "base"

\* Replies that need no owner: a text that is no name, and the rootDSE.
AnswerAtOnce(s, r) ==
  /\ idle
  /\ asked' = r
  /\ reply' = IF BaseOf[r] = Invalid THEN Nothing("invalidDnSyntax")
              ELSE Reply("success", {build(IF topology[s] = Nowhere THEN {s}
                                           ELSE {p \in Partitions : topology[s][p] # "absent"})})
  /\ BaseOf[r] = Invalid \/ IsRootDse(r)
  /\ UNCHANGED <<rvars, held, seen, stays>>

Begin(s, r) ==
  /\ idle /\ BaseOf[r] # Invalid /\ ~IsRootDse(r)
  /\ Ask(s, NormOf[r])
  /\ asked' = r
  /\ UNCHANGED <<held, seen, reply, stays>>

Scans == asked.scope \in {"one", "sub"}

\* The name is the server's own, and a scan makes its first read.
BeginScan ==
  /\ phase = "asking" /\ Target(at, sought) = at /\ Scans /\ held = NoReply
  /\ held' = ScanBelow(at, BaseOf[asked]) /\ seen' = live[at]
  /\ UNCHANGED <<rvars, asked, reply, stays>>

\* The handler sends the client on, looks the name up, or has no answer.
Handle ==
  \/ Refer /\ UNCHANGED svars
  \/ /\ Answer /\ (Scans => held # NoReply)
     /\ reply' = IF asked.scope = "compare" THEN handle_compare(at, asked)
                 ELSE handle_search(at, asked, IF Scans THEN held ELSE {})
     /\ held' = NoReply /\ seen' = {}
     /\ UNCHANGED <<asked, stays>>
  \/ Refuse /\ reply' = Nothing("operationsError") /\ UNCHANGED <<asked, held, seen, stays>>
  \/ GiveUp /\ reply' = Nothing("referral") /\ UNCHANGED <<asked, held, seen, stays>>

Finish ==
  /\ reply # NoReply /\ asked' = NoReply /\ reply' = NoReply
  /\ IF phase = "idle" THEN UNCHANGED rvars ELSE Close
  /\ UNCHANGED <<held, seen, stays>>

-----------------------------------------------------------------------------
(* The Global Catalog. *)

\* handle_search of iron-gc: a base is looked up by the name as the client
\* spells it, a subtree by containment.
gc_handle_search(r) ==
  LET name == BaseOf[r]
      key  == to_string(name)
      rows == {catalog[k] : k \in DOMAIN catalog}
      near == {x \in rows : /\ is_within(normalized(x.dn), normalized(name))
                            /\ r.scope = "sub" \/ Len(x.dn) = Len(name) + 1}
      attrs(entry) == {a \in DOMAIN entry : r.attrs = {} \/ "*" \in r.attrs \/ a \in r.attrs}
  IN  IF name = Invalid THEN Nothing("invalidDnSyntax")
      ELSE IF IsRootDse(r) THEN Reply("success", {build(Partitions)})
      ELSE IF r.scope = "base"
      THEN IF key \in DOMAIN catalog
           THEN Shown(Page(<<[dn |-> name, entry |-> catalog[key].entry]>>, r.filter, r.limit), attrs)
           ELSE Nothing("noSuchObject")
      ELSE Shown(Page(SetToSeq(near), r.filter, r.limit), attrs)

GcSearch(r) ==
  /\ idle /\ r.scope # "compare"
  /\ asked' = r /\ reply' = gc_handle_search(r)
  /\ UNCHANGED <<rvars, held, seen, stays>>

-----------------------------------------------------------------------------
(* Everybody else: writers, the catalog's watch streams, the operator. *)

Change(p) ==
  /\ changes < MaxChanges /\ changes' = changes + 1
  /\ idle \/ (held # NoReply /\ p = at)
  /\ UNCHANGED <<rvars, catalog, asked, held, seen, reply>>

put_entry(p, name) ==
  /\ Change(p)
  /\ live' = [live EXCEPT ![p] = @ \cup {name}]
  /\ tree' = [tree EXCEPT ![p] = With(@, KeyOf[name], Content[name])]
  /\ clean' = [clean EXCEPT ![p] = @ /\ KeySafe(name)]

delete_entry(p, name) ==
  /\ Change(p) /\ name \in live[p]
  /\ live' = [live EXCEPT ![p] = @ \ {name}]
  /\ tree' = [tree EXCEPT ![p] = Drop(@, KeyOf[name])]
  /\ UNCHANGED clean

\* The keys watch_subtree asks for: not that of the partition's base entry.
Watched(p, key) == IsPrefix(subtree_prefix(Base[p]), key)

CatalogApplies(p, key) ==
  /\ idle /\ Watched(p, key) /\ catalog # Ingest(catalog, tree[p], key)
  /\ catalog' = Ingest(catalog, tree[p], key)
  /\ UNCHANGED <<rvars, tree, live, clean, asked, held, seen, reply, changes>>

\* A server that is started again drops the request it was in the middle of.
Operate ==
  /\ changes < MaxChanges /\ changes' = changes + 1
  /\ \/ (\E p \in Children, u \in {"nourl", "url"} : create_child(p, u)) /\ UNCHANGED <<held, seen>>
     \/ (\E p \in Partitions : set_ldap_url(p)) /\ UNCHANGED <<held, seen>>
     \/ \E s \in Partitions :
          /\ Restart(s)
          /\ IF s = at THEN held' = NoReply /\ seen' = {} ELSE UNCHANGED <<held, seen>>
  /\ UNCHANGED <<tree, live, clean, catalog, asked, reply>>

Next ==
  \/ \E s \in Partitions : \E r \in Requests[s] : AnswerAtOnce(s, r) \/ Begin(s, r)
  \/ BeginScan
  \/ Handle
  \/ Finish
  \/ \E r \in GcRequests : GcSearch(r)
  \/ \E p \in Partitions : \E name \in Stored[p] :
       put_entry(p, name) \/ delete_entry(p, name) \/ CatalogApplies(p, KeyOf[name])
  \/ Operate

Spec == Init /\ [][Next]_vars

-----------------------------------------------------------------------------
(* Properties. *)

\* What the writers have put under these names, whatever the keys look like.
Truth(names) == {[dn |-> normalized(n), entry |-> Content[n]] : n \in names}

\* The reply is what RFC 4511 asks for over a set of entries of which those in
\* `surely` are known to be there and those in `possibly` may be.
Right(rep, r, surely, possibly) ==
  LET base == NormOf[r]
      hits(entries) == {x.dn : x \in {y \in entries :
                 /\ is_within(y.dn, base)
                 /\ r.scope = "base" => y.dn = base
                 /\ r.scope = "one" => Len(y.dn) = Len(base) + 1
                 /\ Decided(y.entry, r.filter, TRUE)}}
      sent == {x.dn : x \in rep.found}
  IN  /\ sent \subseteq hits(possibly)
      /\ CASE rep.code = "success" -> hits(surely) \subseteq sent
           [] rep.code = "sizeLimitExceeded" ->
                Cardinality(sent) = r.limit /\ r.limit < Cardinality(hits(possibly))
           [] rep.code = "noSuchObject" -> r.scope = "base" /\ \A x \in surely : x.dn # base
           [] OTHER -> FALSE

Exact ==
  LET before == IF Scans THEN seen ELSE live[at] IN
  IF asked.scope = "compare"
  THEN reply'.code = "compareTrue" =>
         \E x \in Truth(live[at]) : x.dn = sought /\ Decided(x.entry, asked.filter, TRUE)
  ELSE Right(reply', asked, Truth(before \cap live[at]), Truth(before \cup live[at]))

\* A server answers a search with the entries of its partition that lie in the
\* scope and that the filter is true of: all that are there at both reads of a
\* scan, none that is there at neither, no more than the limit, and it says so
\* when there are more; compareTrue only where the equality filter agrees.  So
\* with no writer between the reads the answer is exact (handle_search,
\* handle_compare, scan_subtree, the keys and filter.rs).  For names their keys
\* give back: see SearchFindsAll.
SearchExact ==
  [][phase = "asking" /\ phase' = "answered" /\ clean[at] /\ KeySafe(BaseOf[asked]) => Exact]_vars

\* The same with no condition on the names: the key layout promises that a
\* range scan over a subtree's prefix returns the subtree (key.rs:5-6).
SearchFindsAll == [][phase = "asking" /\ phase' = "answered" => Exact]_vars

\* The entries of all partitions as the catalog projects them, but for their
\* base entries, of which no event tells it (entry.rs:91).
Followed == UNION {{[x EXCEPT !.entry = project(@)] : x \in Truth(live[p] \ {Base[p]})} : p \in Partitions}
Bases == {[x EXCEPT !.entry = project(@)] : x \in Truth({Base[p] : p \in Partitions})}

=============================================================================
