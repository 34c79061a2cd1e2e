------------------------------- MODULE Filter -------------------------------
(***************************************************************************)
(* Search filters (iron-ldap's filter.rs) against one entry, with their    *)
(* three truth values, and what RFC 4511 says they mean.                   *)
(*                                                                         *)
(* An entry maps an attribute to the sequence of its values; an absent     *)
(* attribute has none.  A value is a sequence of characters, " " the only  *)
(* blank; Digit gives the digits their numbers and Code orders characters. *)
(* A filter is a record: "and" and "or" hold a sequence of filters, "not"  *)
(* one, the others name an attribute and what they assert of it.  Values   *)
(* that do not fit the machine's integers are left out.                    *)
(***************************************************************************)
EXTENDS Naming, Bitwise

CONSTANTS Digit, Code, NoAttr, NoRule

True == "true"
False == "false"
Undefined == "undefined"
Tri(b) == IF b THEN True ELSE False

Values(entry, attr) == IF attr \in DOMAIN entry THEN entry[attr] ELSE <<>>

-----------------------------------------------------------------------------
(* Preparing and comparing values. *)

\* Lower case, each run of blanks one blank, edges kept.
fold_component(text) ==
  LET step(out, c) == IF c = " " /\ out # <<>> /\ Last(out) = " " THEN out ELSE Append(out, c)
  IN  FoldLeft(step, <<>>, lowercase(text))

trim(text) ==
  IF ToSet(text) \subseteq {" "} THEN <<>>
  ELSE SubSeq(text, SelectInSeq(text, LAMBDA c : c # " "), SelectLastInSeq(text, LAMBDA c : c # " "))

\* caseIgnoreMatch's preparation: fold_component with the edges trimmed.
fold(text) == trim(fold_component(text))

\* str::parse on a trimmed text: a number, if all of it is digits.
IsInt(text) == fold(text) # <<>> /\ ToSet(fold(text)) \subseteq DOMAIN Digit
int(text) == FoldLeft(LAMBDA n, c : 10 * n + Digit[c], 0, fold(text))

\* The order of strings, by the first character that differs.
Before(x, y) ==
  \E n \in 0 .. Len(x) :
    /\ IsPrefix(SubSeq(x, 1, n), y) /\ n < Len(y)
    /\ n = Len(x) \/ Code[x[n + 1]] < Code[y[n + 1]]

\* order(value, assertion) = Less: as numbers if both are, else as folded text.
Less(value, assertion) ==
  IF IsInt(value) /\ IsInt(assertion) THEN int(value) < int(assertion)
  ELSE Before(fold(value), fold(assertion))

-----------------------------------------------------------------------------
(* The items. *)

any_value(entry, attr, test(_)) == Tri(\E v \in ToSet(Values(entry, attr)) : test(v))


\* Each "any" component is taken at its first place in what is left of the
\* value; what is left after the last one ends with "final".  An absent
\* initial or final is the empty text.
substring_match(value, initial, any, final) ==
  LET Drop(s, n) == SubSeq(s, n + 1, Len(s))
      places(rest, a) == {j \in 0 .. Len(rest) : IsPrefix(a, Drop(rest, j))}
      first(S) == CHOOSE j \in S : \A k \in S : j <= k
      take(acc, a) ==
        IF ~acc.ok \/ places(acc.rest, a) = {} THEN [acc EXCEPT !.ok = FALSE]
        ELSE [acc EXCEPT !.rest = Drop(@, first(places(@, a)) + Len(a))]
      end == FoldLeft(take, [ok |-> IsPrefix(initial, value), rest |-> Drop(value, Len(initial))], any)
  IN  end.ok /\ IsSuffix(final, end.rest)

\* An initial component may only come first and a final one only last.
InPlace(parts) ==
  \A i \in DOMAIN parts : /\ parts[i].kind = "initial" => i = 1
                          /\ parts[i].kind = "final" => i = Len(parts)

Component(parts, kind) ==
  SelectSeq(parts, LAMBDA p : p.kind = kind)

substrings(entry, f) ==
  LET texts(kind) == LET c == Component(f.parts, kind) IN [i \in DOMAIN c |-> fold_component(c[i].text)]
      one(s) == IF s = <<>> THEN <<>> ELSE s[1]
  IN  IF ~InPlace(f.parts) THEN Undefined
      ELSE any_value(entry, f.attr,
             LAMBDA v : substring_match(fold(v), one(texts("initial")), texts("any"), one(texts("final"))))

\* rule: what a matching rule says of one value; Undefined for one it cannot read.
rule(name, v, a) ==
  CASE name \in {NoRule, "caseIgnoreMatch"} -> Tri(fold(v) = fold(a))
    [] name = "caseExactMatch" -> Tri(v = a)
    [] name = "objectIdentifierMatch" -> Tri(trim(lowercase(v)) = trim(lowercase(a)))
    [] ~IsInt(v) \/ ~IsInt(a) -> Undefined
    [] name = "integerMatch" -> Tri(int(v) = int(a))
    [] name = "bit_and" -> Tri((int(v) & int(a)) = int(a))
    [] name = "bit_or" -> Tri((int(v) & int(a)) # 0)

KnownRules == {NoRule, "caseIgnoreMatch", "caseExactMatch", "objectIdentifierMatch",
               "integerMatch", "bit_and", "bit_or"}

\* An item without a type looks at every attribute; values that its rule
\* cannot read only count when the attribute was named.
extensible(entry, f) ==
  LET attrs == IF f.attr = NoAttr THEN DOMAIN entry ELSE {f.attr}
      says  == {rule(f.rule, v, f.value) : v \in UNION {ToSet(Values(entry, a)) : a \in attrs}}
  IN  IF f.rule \notin KnownRules \/ (f.attr = NoAttr /\ f.rule = NoRule) THEN Undefined
      ELSE IF True \in says THEN True
      ELSE IF f.attr # NoAttr /\ Undefined \in says THEN Undefined
      ELSE False

Item(entry, f) ==
  CASE f.op = "present" -> Tri(Values(entry, f.attr) # <<>>)
    [] f.op = "equal" -> any_value(entry, f.attr, LAMBDA v : fold(v) = fold(f.value))
    [] f.op = "ge" -> any_value(entry, f.attr, LAMBDA v : ~Less(v, f.value))
    [] f.op = "le" -> any_value(entry, f.attr, LAMBDA v : ~Less(f.value, v))
    [] f.op = "substrings" -> substrings(entry, f)
    [] f.op = "extensible" -> extensible(entry, f)

-----------------------------------------------------------------------------
(* Whole filters. *)

RECURSIVE evaluate(_, _)

\* The loops over a set of filters end at the first one that decides.
evaluate(entry, f) ==
  LET loop(decides, start) ==
        FoldLeft(LAMBDA result, g : IF result = decides \/ evaluate(entry, g) = decides THEN decides
                                    ELSE IF evaluate(entry, g) = Undefined THEN Undefined
                                    ELSE result,
                 start, f.of)
      inner == evaluate(entry, f.of)
  IN  CASE f.op = "and" -> loop(False, True)
        [] f.op = "or"  -> loop(True, False)
        [] f.op = "not" -> IF inner = True THEN False ELSE IF inner = False THEN True ELSE inner
        [] OTHER -> Item(entry, f)

matches(entry, f) == evaluate(entry, f) = True

-----------------------------------------------------------------------------
(* What RFC 4511 says a filter means, without its three values. *)

\* The components occur in the value one after the other, no two overlapping,
\* an initial one at its start and a final one at its end.
Spans(value, parts) ==
  LET text(i) == fold_component(parts[i].text)
      end(at, i) == at[i] + Len(text(i))
  IN  \E at \in [DOMAIN parts -> 0 .. Len(value)] : \A i \in DOMAIN parts :
        /\ end(at, i) <= Len(value) /\ SubSeq(value, at[i] + 1, end(at, i)) = text(i)
        /\ i > 1 => end(at, i - 1) <= at[i]
        /\ parts[i].kind = "initial" => at[i] = 0
        /\ parts[i].kind = "final" => end(at, i) = Len(value)

RECURSIVE Decided(_, _, _)

\* The filter is known to be true (b) or known to be false (~b) of the entry.
Decided(entry, f, b) ==
  LET all(c) == \A i \in DOMAIN f.of : Decided(entry, f.of[i], c)
      some(c) == \E i \in DOMAIN f.of : Decided(entry, f.of[i], c)
  IN  CASE f.op = "and" -> IF b THEN all(TRUE) ELSE some(FALSE)
        [] f.op = "or"  -> IF b THEN some(TRUE) ELSE all(FALSE)
        [] f.op = "not" -> Decided(entry, f.of, ~b)
        [] f.op = "substrings" ->
             /\ InPlace(f.parts)
             /\ b = (\E v \in ToSet(Values(entry, f.attr)) : Spans(fold(v), f.parts))
        [] OTHER -> Item(entry, f) = Tri(b)
=============================================================================
