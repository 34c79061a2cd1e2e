------------------------------ MODULE MCSearch ------------------------------
(***************************************************************************)
(* A forest root with a child domain, and a server outside the forest that *)
(* knows the root by a static referral.  Names and values are chosen so    *)
(* that scopes differ, components of a substring filter can overlap, and   *)
(* two names do not survive their keys.                                    *)
(***************************************************************************)
EXTENDS Search, TLC

CONSTANTS rootSrv, childSrv, otherSrv

MCLower == "A" :> "a"
MCDigit == "1" :> 1 @@ "2" :> 2 @@ "3" :> 3
MCCode == " " :> 0 @@ "1" :> 1 @@ "2" :> 2 @@ "3" :> 3 @@ "a" :> 4 @@ "b" :> 5

Cn(v) == <<<<"cn">>, v>>
Dc(v) == <<<<"dc">>, <<v>>>>
RootDn == <<Dc("p")>>
ChildDn == <<Dc("c"), Dc("p")>>
OtherDn == <<Dc("s")>>
Alpha == <<Cn(<<"a">>)>> \o RootDn
Below == <<Cn(<<"b">>)>> \o Alpha
Comma == <<Cn(<<"a", ",", "b">>)>> \o RootDn
Slash == <<Cn(<<"a", "/", "cn", "=", "b">>)>> \o RootDn
Guest == <<Cn(<<"A">>)>> \o ChildDn

MCBase == rootSrv :> RootDn @@ childSrv :> ChildDn @@ otherSrv :> OtherDn
MCStatic == rootSrv :> <<>> @@ childSrv :> <<[base |-> RootDn, to |-> rootSrv]>> @@ otherSrv :> <<[base |-> RootDn, to |-> rootSrv]>>
MCStored == rootSrv :> {RootDn, Alpha, Below, Comma, Slash} @@ childSrv :> {ChildDn, Guest} @@ otherSrv :> {OtherDn}
Names == {RootDn, Alpha, Below, Comma, Slash, ChildDn, Guest, OtherDn}
MCRdns == UNION {{normalized(n)[i] : i \in DOMAIN n} : n \in Names}
MCDns == {normalized(n) : n \in Names} \cup {<<>>}

Entry(text, uac) == [desc |-> <<text>>, uac |-> <<uac>>, userPassword |-> <<<<"a">>>>]
MCContent ==
  RootDn :> Entry(<<"a", "b">>, <<"1">>) @@ Alpha :> Entry(<<"A", "b", " ", " ", "a">>, <<"2">>) @@
  Below :> Entry(<<"a", "a", "b">>, <<"3">>) @@ Comma :> Entry(<<"b">>, <<"a">>) @@
  Slash :> Entry(<<"a">>, <<"1">>) @@ ChildDn :> Entry(<<"a", "b", "a">>, <<"1", "1">>) @@
  Guest :> Entry(<<"b", "a">>, <<"2">>) @@ OtherDn :> [desc |-> <<>>]

-----------------------------------------------------------------------------
(* Filters: one per kind of item, some that are undefined, and compounds. *)

Equal(a, v) == [op |-> "equal", attr |-> a, value |-> v]
Present == [op |-> "present", attr |-> "desc"]
Part(k, t) == [kind |-> k, text |-> t]
Texts == {<<"a">>, <<"a", "b">>}
Sub(parts) == [op |-> "substrings", attr |-> "desc", parts |-> parts]
Subs == {Sub(<<Part("any", x), Part("any", y)>>) : x, y \in Texts} \cup
        {Sub(<<Part("initial", x), Part("final", y)>>) : x, y \in Texts} \cup
        {Sub(<<Part("initial", <<"a">>), Part("any", x), Part("final", y)>>) : x, y \in Texts}
Misplaced == Sub(<<Part("any", <<"a">>), Part("initial", <<"a">>)>>)
Ext(rl, a, v) == [op |-> "extensible", rule |-> rl, attr |-> a, value |-> v]
AtLeast == [op |-> "ge", attr |-> "uac", value |-> <<"2">>]
AtMost == [op |-> "le", attr |-> "desc", value |-> <<"b">>]
Both(f, g) == [op |-> "and", of |-> <<f, g>>]
Either(f, g) == [op |-> "or", of |-> <<f, g>>]
No(f) == [op |-> "not", of |-> f]

\* Each kind of item under connectives that turn on its third value.
Negated == {No(Misplaced), No(Both(Equal("desc", <<"a", "b">>), Misplaced)),
            No(Either(Ext("integerMatch", "uac", <<"1">>), Ext("bit_or", NoAttr, <<"1">>))),
            Both(No(AtLeast), Either(Ext("inChain", "uac", <<"1">>), AtMost)),
            No(Both(Ext("bit_and", "uac", <<"2">>), Ext("caseIgnoreMatch", "desc", <<"b">>))),
            No(Both(Ext("caseExactMatch", "desc", <<"b">>), Ext("objectIdentifierMatch", "uac", <<"a">>)))}
           \cup {Either(No(Sub(<<Part("any", x), Part("any", x)>>)), Ext(NoRule, NoAttr, x)) : x \in Texts}

Find(n, scope, limit) ==
  [base |-> to_string(n), scope |-> scope, filter |-> Present, limit |-> limit, attrs |-> {}]
Odd == {[Find(<<>>, scope, 0) EXCEPT !.base = b] :
          scope \in {"base", "one"}, b \in {<<>>, <<"a">>, <<"cn", "=", "A", ",", "dc", "=", "p">>}}
Finds == {Find(n, "base", 0) : n \in Names \ {Slash}} \cup {Find(Alpha, "one", 0), Find(ChildDn, "sub", 0)}
          \cup {Find(RootDn, scope, limit) : scope \in {"one", "sub"}, limit \in {0, 1, 2}}
Probing(filters) == {[Find(RootDn, "sub", 0) EXCEPT !.filter = f] : f \in filters}
Compares == {[Find(Alpha, "compare", 0) EXCEPT !.filter = Equal("desc", v)] :
               v \in {<<"a", "b", " ", " ", "a">>, <<"b">>}}

MCRequests == rootSrv :> Finds \cup Odd \cup Probing(Negated) \cup Compares
              @@ childSrv :> {Find(n, "base", 0) : n \in {RootDn, Alpha, ChildDn, Guest, OtherDn}}
              @@ otherSrv :> {Find(n, "base", 0) : n \in {RootDn, Guest}} \cup Odd
MCGcRequests == Finds \cup Odd \cup Probing(Subs)
=============================================================================
