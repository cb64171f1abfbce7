------------------------------ MODULE ManifestYaml ------------------------------
(***************************************************************************)
(* The YAML-subset parser of platform_core/manifest_loader.py.             *)
(*                                                                         *)
(* A document is a sequence of lines [indent, text], a text a sequence of  *)
(* lexemes, and what it parses into a tree of ManifestTree.  Floats,       *)
(* signs, tabs and escapes are not among the lexemes.  parse_yaml keeps no *)
(* state, so this module declares no variable.                             *)
(***************************************************************************)
EXTENDS ManifestTree

Quotes == {"'", "\""}

StartsWith(s, lexemes) == s # <<>> /\ s[1] \in lexemes

\* str.partition(":"); found is false when there is no colon.
Partition(s) ==
  LET colons == {i \in DOMAIN s : s[i] = ":"}
      at     == IF colons = {} THEN Len(s) + 1 ELSE Min(colons)
  IN [found |-> colons # {},
      key   |-> Strip(SubSeq(s, 1, at - 1)),
      rest  |-> Strip(SubSeq(s, at + 1, Len(s)))]

\* The quote that is open behind each lexeme (in_s, in_d); Blank for none.
OpenQuote(s) ==
  LET q[i \in 0 .. Len(s)] ==
        IF i = 0 THEN Blank
        ELSE IF s[i] \notin Quotes THEN q[i - 1]
        ELSE IF q[i - 1] = Blank THEN s[i]
        ELSE IF q[i - 1] = s[i] THEN Blank ELSE q[i - 1]
  IN q

StripComment(s) ==
  LET hashes == {i \in DOMAIN s : /\ s[i] = "#" /\ OpenQuote(s)[i] = Blank
                                  /\ i = 1 \/ s[i - 1] = Blank}
  IN IF hashes = {} THEN s ELSE SubSeq(s, 1, Min(hashes) - 1)

CoerceScalar(tok) ==
  LET t       == Strip(tok)
      cleaned == SelectSeq(t, LAMBDA x : x # "_")
  IN CASE t \in {<<>>, <<"~">>, <<"null">>}  -> Null
       [] t \in {<<"true">>, <<"false">>}    -> Node("bool", t, <<>>)
       [] StartsWith(t, Quotes) /\ Last(t) = t[1]
                                             -> Str(SubSeq(t, 2, Len(t) - 1))
       [] cleaned # <<>> /\ ToSet(cleaned) \subseteq Digits
                                             -> Node("int", cleaned, <<>>)
       [] OTHER                              -> Str(t)

\* Commas outside quotes and brackets part; a blank last part is dropped.
SplitTop(s) ==
  LET q      == OpenQuote(s)
      count(i, lexemes) ==
        Cardinality({j \in 1 .. i : q[j] = Blank /\ s[j] \in lexemes})
      commas == {i \in DOMAIN s : /\ s[i] = "," /\ q[i] = Blank
                                  /\ count(i, {"[", "{"}) = count(i, {"]", "}"})}
      ends   == <<0>> \o SetToSortSeq(commas, <) \o <<Len(s) + 1>>
      parts  == [k \in 1 .. Len(ends) - 1 |->
                   Strip(SubSeq(s, ends[k] + 1, ends[k + 1] - 1))]
  IN IF Last(parts) = <<>> THEN Front(parts) ELSE parts

\* A flow collection holds scalars only: what is nested in it stays a string.
ParseFlow(t) ==
  LET inner == Strip(SubSeq(t, 2, Len(t) - 1))
      parts == IF inner = <<>> THEN <<>> ELSE SplitTop(inner)
      put(kids, part) == LET kv == Partition(part)
                         IN SetKey(kids, kv.key, CoerceScalar(kv.rest))
  IN CASE t[1] = "[" /\ Last(t) = "]" ->
            Node("list", <<>>,
                 [k \in DOMAIN parts |-> Entry(<<>>, CoerceScalar(parts[k]))])
       [] t[1] = "{" /\ Last(t) = "}" ->
            Node("map", <<>>, FoldLeft(put, <<>>, parts))
       [] OTHER -> CoerceScalar(t)

ValueOrFlow(tok) ==
  IF StartsWith(Strip(tok), {"[", "{"}) THEN ParseFlow(Strip(tok))
                                        ELSE CoerceScalar(tok)

Tokenize(doc) ==
  LET bare == [i \in DOMAIN doc |->
                 [doc[i] EXCEPT !.text = Strip(StripComment(doc[i].text))]]
  IN SelectSeq(bare, LAMBDA line : line.text # <<>>)

\* The first line from idx on that is not indented deeper than the parent.
EndOfBlock(lines, idx, parent) ==
  Min({j \in idx .. Len(lines) : lines[j].indent <= parent} \cup {Len(lines) + 1})

\* _parse_block_scalar, for every indicator: chunks joined by one blank.
BlockScalar(lines, idx, parent) ==
  LET end  == EndOfBlock(lines, idx, parent)
      join(all, line) == IF all = <<>> THEN line.text ELSE all \o <<Blank>> \o line.text
  IN [node |-> Str(FoldLeft(join, <<>>, SubSeq(lines, idx, end - 1))), next |-> end]

RECURSIVE ParseMap(_, _, _, _), ParseList(_, _, _, _)

ParseBlock(lines, idx) ==
  LET first == lines[idx].text
  IN IF StartsWith(first, {"-"}) /\ Len(first) > 1 /\ first[2] = Blank
       THEN ParseList(lines, idx, lines[idx].indent, <<>>)
       ELSE ParseMap(lines, idx, lines[idx].indent, <<>>)

ParseMap(lines, idx, indent, out) ==
  IF idx > Len(lines) THEN [node |-> Node("map", <<>>, out), next |-> idx]
  ELSE
    LET kv     == Partition(lines[idx].text)
        parsed == IF kv.rest \in {<<"|">>, <<">">>}
                    THEN BlockScalar(lines, idx + 1, indent)
                  ELSE IF kv.rest # <<>>
                    THEN [node |-> ValueOrFlow(kv.rest), next |-> idx + 1]
                  ELSE IF idx < Len(lines) /\ lines[idx + 1].indent > indent
                    THEN ParseBlock(lines, idx + 1)
                  ELSE [node |-> Null, next |-> idx + 1]
    IN IF lines[idx].indent # indent \/ ~kv.found
         THEN [node |-> Node("map", <<>>, out), next |-> idx]
         ELSE ParseMap(lines, parsed.next, indent, SetKey(out, kv.key, parsed.node))

\* Variant: the lines of an item are looked for one column too far left.
ItemIndent_Short(line) == line.indent + 1

\* Where the keys of a mapping that starts on a "- " line are expected.
ItemIndent(line) == line.indent + 2

ParseList(lines, idx, indent, out) ==
  IF idx > Len(lines) \/ lines[idx].indent < indent \/ lines[idx].text[1] # "-"
    THEN [node |-> Node("list", <<>>, out), next |-> idx]
  ELSE
    LET line  == lines[idx]
        item  == Strip(SubSeq(line.text, 3, Len(line.text)))
        end   == EndOfBlock(lines, idx + 1, line.indent)
        inner == <<[indent |-> ItemIndent(line), text |-> item]>>
                   \o SubSeq(lines, idx + 1, end - 1)
    IN IF Partition(item).found /\ ~StartsWith(item, {"[", "{"})
         THEN ParseList(lines, end, indent, Append(out,
                Entry(<<>>, ParseMap(inner, 1, ItemIndent(line), <<>>).node)))
         ELSE ParseList(lines, idx + 1, indent,
                Append(out, Entry(<<>>, ValueOrFlow(item))))

ParseYaml(doc) ==
  LET lines == Tokenize(doc)
  IN IF lines = <<>> THEN Node("map", <<>>, <<>>) ELSE ParseBlock(lines, 1).node

\* load_manifest: a sibling .json is preferred over the .yaml that is asked for.
LoadManifest(yaml, json) == IF json.exists THEN json.tree ELSE ParseYaml(yaml)
=============================================================================
