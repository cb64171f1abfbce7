------------------------------ MODULE ManifestTree ------------------------------
(***************************************************************************)
(* What a manifest is once it is loaded: a tree of nodes [tag, text, kids] *)
(*    "str" "int" "bool" "null"   text is the value, kids is empty         *)
(*    "map" "list"                kids is a sequence of [key, node]        *)
(* A text is a sequence of lexemes: the punctuation the parser looks at,   *)
(* the blank, digits and words.                                            *)
(***************************************************************************)
EXTENDS Integers, Sequences, FiniteSetsExt, SequencesExt

Blank  == " "
Digits == {"0", "2", "3", "9"}

Node(tag, text, kids) == [tag |-> tag, text |-> text, kids |-> kids]
Null   == Node("null", <<>>, <<>>)
Str(t) == Node("str", t, <<>>)

Entry(key, node) == [key |-> key, node |-> node]

\* out[key] = node: a repeated key keeps its place and takes the new value.
SetKey(kids, key, node) ==
  LET same == {i \in DOMAIN kids : kids[i].key = key}
  IN IF same = {} THEN Append(kids, Entry(key, node))
                  ELSE [kids EXCEPT ![Min(same)].node = node]

Strip(s) ==
  LET ink == {i \in DOMAIN s : s[i] # Blank}
  IN IF ink = {} THEN <<>> ELSE SubSeq(s, Min(ink), Max(ink))
=============================================================================
