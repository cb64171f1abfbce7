--------------------------------- MODULE Library ---------------------------------
(***************************************************************************)
(* The governance library: besides its rulings, how it loads a manifest.   *)
(* A manifest is compared with the tree it was written from, and a masked  *)
(* text with the fragments it was put together from.                       *)
(***************************************************************************)
EXTENDS ManifestYaml, Rulings

CONSTANT Documents    \* [tree, layout, hasJson]: a manifest, how it is written, a .json copy

-----------------------------------------------------------------------------
(***************************************************************************)
(* How people write the manifests of this repository: the reference the    *)
(* parser is compared with.  A tree is a node of ManifestTree; a layout is *)
(*    step       columns a nested block is indented by                     *)
(*    flow       collections of scalars are written inline                 *)
(*    comments   every line has a comment, and some lines are nothing else *)
(*    folded     strings of several words are written as block scalars     *)
(***************************************************************************)
RECURSIVE Plain(_), RenderEntries(_, _, _)

IsScalar(node) == node.tag \notin {"map", "list"}

Joined(seqs, glue) ==
  FoldLeft(LAMBDA all, s : IF all = <<>> THEN s ELSE all \o glue \o s, <<>>, seqs)

Quoted(text) == <<"\"">> \o text \o <<"\"">>

NeedsQuotes(text) ==
  \/ text = <<>>
  \/ \E i \in DOMAIN text : text[i] \in {",", "#", ":", "[", "]", "null", "true"}
  \/ ToSet(text) \subseteq Digits

\* A node on one line.
Plain(node) ==
  CASE node.tag = "str"  -> IF NeedsQuotes(node.text) THEN Quoted(node.text) ELSE node.text
    [] node.tag = "int"  -> Joined([i \in DOMAIN node.text |-> <<node.text[i]>>], <<"_">>)
    [] node.tag = "bool" -> node.text
    [] node.tag = "null" -> <<"null">>
    [] node.tag = "list" ->
         <<"[">> \o Joined([i \in DOMAIN node.kids |-> Plain(node.kids[i].node)], <<",", Blank>>)
           \o <<"]">>
    [] node.tag = "map"  ->
         <<"{">> \o Joined([i \in DOMAIN node.kids |->
                              node.kids[i].key \o <<":", Blank>> \o Plain(node.kids[i].node)],
                           <<",", Blank>>) \o <<"}">>

IsInline(node, layout) ==
  \/ IsScalar(node) \/ node.kids = <<>>
  \/ layout.flow /\ \A i \in DOMAIN node.kids : IsScalar(node.kids[i].node)

IsFolded(node, layout) ==
  /\ layout.folded /\ node.tag = "str"
  /\ Blank \in ToSet(node.text) /\ ~NeedsQuotes(node.text)

TextLine(at, text, layout) ==
  <<[indent |-> at, text |-> IF layout.comments THEN text \o <<Blank, "#", "note">> ELSE text]>>

RenderEntry(kv, at, layout) ==
  LET deeper == at + layout.step
      head   == kv.key \o <<":">>
      item(node) ==
        IF IsScalar(node) \/ IsInline(node, layout)
          THEN TextLine(deeper, <<"-", Blank>> \o Plain(node), layout)
          ELSE LET body == RenderEntries(node.kids, deeper + 2, layout)
               IN <<[indent |-> deeper, text |-> <<"-", Blank>> \o body[1].text]>> \o Tail(body)
  IN IF IsFolded(kv.node, layout)
       THEN <<[indent |-> at, text |-> head \o <<Blank, "|">>]>>
              \o FlattenSeq([i \in DOMAIN kv.node.text |->
                   IF kv.node.text[i] = Blank THEN <<>>
                   ELSE <<[indent |-> deeper, text |-> <<kv.node.text[i]>>]>>])
     ELSE IF IsInline(kv.node, layout)
       THEN TextLine(at, head \o <<Blank>> \o Plain(kv.node), layout)
     ELSE TextLine(at, head, layout)
            \o IF kv.node.tag = "map" THEN RenderEntries(kv.node.kids, deeper, layout)
               ELSE FlattenSeq([i \in DOMAIN kv.node.kids |-> item(kv.node.kids[i].node)])

RenderEntries(kids, at, layout) ==
  FlattenSeq([i \in DOMAIN kids |-> RenderEntry(kids[i], at, layout)])

Written(tree, layout) ==
  (IF layout.comments THEN <<[indent |-> 3, text |-> <<"#", "note">>]>> ELSE <<>>)
    \o RenderEntries(tree.kids, 0, layout)

-----------------------------------------------------------------------------
LoadInit == answer = <<>> /\ \E case \in Documents : Ask("load", case)

Init == RulingInit \/ LoadInit

Load ==
  LET case == asked.case
  IN Reply("load", LoadManifest(Written(case.tree, case.layout),
                                [exists |-> case.hasJson, tree |-> case.tree]))

Next == Rule \/ Load

Spec == Init /\ [][Next]_libraryVars

-----------------------------------------------------------------------------
(***************************************************************************)
(* Texts are put together from fragments with a word between any two: an   *)
(* entity each, or a number that looks like one.                           *)
(***************************************************************************)
Pan   == <<4, 1, 1, 1, 1, 1, 1, 1, 1, 1, 1, 1, 1, 1, 1, 1>>
Pan13 == <<4, 2, 2, 2, 2, 2, 2, 2, 2, 2, 2, 2, 2>>

Grouped(pan) == [g \in 1 .. 4 |-> Number(" ", SubSeq(pan, 4 * g - 3, 4 * g))]

FragmentTokens(f) ==
  CASE f.kind = "card"    -> Grouped(Pan)
    [] f.kind = "card13"  -> <<Number(" ", Pan13)>>
    [] f.kind = "mistyped" -> Grouped([Pan EXCEPT ![f.at] = (@ + f.by) % 10])
    [] f.kind = "ssn"     -> <<Number(" ", <<1, 2, 3>>), Number("-", <<4, 5>>),
                               Number("-", <<6, 7, 8, 9>>)>>
    [] f.kind = "phone"   -> <<Number(" ", <<1>>), Number("-", <<5, 5, 5>>),
                               Number("-", <<2, 3, 4>>), Number("-", <<9, 8, 7, 6>>)>>
    [] f.kind = "phone11" -> <<Number(" ", <<1, 5, 5, 5>>), Number("-", <<2, 3, 4>>),
                               Number("-", <<9, 8, 7, 6>>)>>
    [] f.kind = "mrn"     -> <<Word(" ", "MRN"), Number(" ", <<1, 2>>),
                               Number("-", <<3, 4, 5, 6, 7>>)>>
    [] f.kind = "sid"     -> <<Word(" ", "SID"), Number("-", <<5, 5, 5>>)>>
    [] f.kind = "mail"    -> <<Word(" ", "mail")>>
    [] f.kind = "name"    -> <<Word(" ", "Ann")>>

\* What each fragment is, and what a reader who knows finds in its place.
EntityOf(f) ==
  CASE f.kind \in {"card", "card13"} -> "CREDIT_CARD"
    [] f.kind = "ssn"   -> "SSN"
    [] f.kind \in {"phone", "phone11"} -> "PHONE"
    [] f.kind = "mrn"   -> "MEDICAL_ID"
    [] f.kind = "sid"   -> "STUDENT_ID"
    [] f.kind = "mail"  -> "EMAIL"
    [] OTHER            -> "none"

Apart(tokens) == Joined(tokens, <<Word(" ", "note")>>)

\* A text: the fragments one by one, or with a word in between.
TextOf(fragments, apart) ==
  LET tokens == [i \in DOMAIN fragments |-> FragmentTokens(fragments[i])]
  IN IF apart THEN Apart(tokens) ELSE FlattenSeq(tokens)

-----------------------------------------------------------------------------
\* A manifest is loaded as the tree its author wrote down, whatever the layout:
\* nesting, lists of mappings, inline collections, quoted commas, colons and
\* hashes, comments, grouped digits (manifest_loader.py:29-224).
ParsedAsWritten == Answered("load") => answer[1] = asked.case.tree

\* Of fragments with a word between any two: masking refuses whenever it cannot
\* be complete, and otherwise redacts each entity of an active class, leaves every
\* other fragment alone (a mistyped card number is not a card number) and counts
\* what it redacted; with an engine no name is left (masker.py:210-274).
MaskedAsMeant ==
  Answered("mask") /\ asked.case.apart =>
    LET case == asked.case
        Hit(f) == \/ EntityOf(f) # "none" /\ EntityClasses[EntityOf(f)] \cap case.classes # {}
                  \/ f.kind = "name" /\ case.engine = "works"
        Meant(f) == IF ~Hit(f) THEN FragmentTokens(f)
                    ELSE <<Word(" ", IF f.kind = "name" THEN "NAME" ELSE EntityOf(f))>>
        \* What is read, whatever became of the blanks.
        Read(tokens) == [i \in DOMAIN tokens |-> [tokens[i] EXCEPT !.glue = Blank]]
    IN /\ answer[1].raised <=> \/ ~case.text.isString \/ case.engine = "faults"
                               \/ case.real /\ case.engine = "none"
       /\ ~answer[1].raised =>
            /\ Read(answer[1].text)
                 = Read(Apart([i \in DOMAIN case.fragments |-> Meant(case.fragments[i])]))
            /\ answer[1].count = Cardinality({i \in DOMAIN case.fragments : Hit(case.fragments[i])})
=============================================================================
