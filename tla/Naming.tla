------------------------------- MODULE Naming -------------------------------
(***************************************************************************)
(* Distinguished names (iron-partition's dn.rs and key.rs): the text form  *)
(* a client sends, the normalized form that names are compared by, the key *)
(* an entry is stored under, and the name read back from a key.            *)
(*                                                                         *)
(* A text is a sequence of tokens: a word, or one of the characters with a *)
(* meaning here, "," "=" "/" and the backslash.  A DN is a sequence of     *)
(* <<attribute, value>> pairs, most specific first, the value as spelt; an *)
(* RDN has one pair, values have no blanks at their edges and no hex       *)
(* escapes.  The tree root of a partition's keys is left out of a key:     *)
(* every key here is looked up under one partition.                        *)
(***************************************************************************)
EXTENDS Naturals, Sequences, SequencesExt

CONSTANT Lower       \* the lower-case form of each token that has another one
CONSTANT Invalid     \* what Dn::parse answers for a text that is no DN

lowercase(text) == [i \in DOMAIN text |-> IF text[i] \in DOMAIN Lower THEN Lower[text[i]] ELSE text[i]]

-----------------------------------------------------------------------------
(* From text to name and back. *)

\* The parts of a text between the delimiters no backslash escapes.
split_unescaped(text, delim) ==
  LET step(acc, c) ==
        IF acc.escaped THEN [acc EXCEPT !.cur = @ \o <<"\\", c>>, !.escaped = FALSE]
        ELSE IF c = "\\" THEN [acc EXCEPT !.escaped = TRUE]
        ELSE IF c = delim THEN [acc EXCEPT !.parts = Append(@, acc.cur), !.cur = <<>>]
        ELSE [acc EXCEPT !.cur = Append(@, c)]
      end == FoldLeft(step, [parts |-> <<>>, cur |-> <<>>, escaped |-> FALSE], text)
  IN  Append(end.parts, IF end.escaped THEN Append(end.cur, "\\") ELSE end.cur)

unescape(text) ==
  LET step(acc, c) ==
        IF ~acc.escaped /\ c = "\\" THEN [acc EXCEPT !.escaped = TRUE]
        ELSE [out |-> Append(acc.out, c), escaped |-> FALSE]
      end == FoldLeft(step, [out |-> <<>>, escaped |-> FALSE], text)
  IN  IF end.escaped THEN Append(end.out, "\\") ELSE end.out

escape_value(value) ==
  FoldLeft(LAMBDA out, c : out \o (IF c \in {"\\", ",", "="} THEN <<"\\", c>> ELSE <<c>>), <<>>, value)

\* An AVA is cut at its first unescaped "="; the type before it may not be empty.
IsAva(text) == LET parts == split_unescaped(text, "=") IN Len(parts) > 1 /\ Head(parts) # <<>>

parse_ava(text) ==
  LET type == Head(split_unescaped(text, "="))
  IN  <<lowercase(type), unescape(SubSeq(text, Len(type) + 2, Len(text)))>>

\* Dn::parse
parse(text) ==
  LET parts == split_unescaped(text, ",")
  IN  IF text = <<>> THEN <<>>
      ELSE IF \A i \in DOMAIN parts : IsAva(parts[i])
      THEN [i \in DOMAIN parts |-> parse_ava(parts[i])]
      ELSE Invalid

\* Joins texts with a separator (slice::join).
Join(texts, sep) ==
  FoldLeft(LAMBDA out, i : IF i = 1 THEN texts[1] ELSE out \o <<sep>> \o texts[i],
           <<>>, [i \in 1 .. Len(texts) |-> i])

\* Display for Dn: the values as spelt, escaped.
to_string(dn) == Join([i \in DOMAIN dn |-> dn[i][1] \o <<"=">> \o escape_value(dn[i][2])], ",")

\* The form that equality and containment are decided by.
normalized(dn) == [i \in DOMAIN dn |-> <<dn[i][1], lowercase(dn[i][2])>>]

-----------------------------------------------------------------------------
(* Containment, and the keys that stand for it. *)

\* `dn` is at or below `base`; both are normalized.
is_within(dn, base) ==
  /\ Len(base) <= Len(dn)
  /\ SubSeq(dn, Len(dn) - Len(base) + 1, Len(dn)) = base

reversed_components(dn) ==
  Reverse([i \in DOMAIN dn |-> dn[i][1] \o <<"=">> \o lowercase(dn[i][2])])

entry_key(dn) == Join(reversed_components(dn), "/")

subtree_prefix(dn) == Append(entry_key(dn), "/")

\* The name a key is read back as: cut at the slashes, turned round, joined
\* with commas and parsed again.
dn_from_tree_key(key) ==
  LET step(acc, c) == IF c = "/" THEN [done |-> Append(acc.done, acc.cur), cur |-> <<>>]
                      ELSE [acc EXCEPT !.cur = Append(@, c)]
      end == FoldLeft(step, [done |-> <<>>, cur |-> <<>>], key)
  IN  parse(Join(Reverse(Append(end.done, end.cur)), ","))
=============================================================================
