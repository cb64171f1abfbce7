-------------------------------- MODULE MCLibrary --------------------------------
(***************************************************************************)
(* The questions TLC asks Library.  Each set has the cases that differ to  *)
(* the code and as many combinations of them as run in minutes.            *)
(***************************************************************************)
EXTENDS Library

Pairs(S) == {<<x, y>> : x \in S, y \in S}
UpToTwo(S) == {<<x>> : x \in S} \cup Pairs(S)

Map(pairs)  == Node("map", <<>>, pairs)
ListOf(seq) == Node("list", <<>>, [i \in DOMAIN seq |-> Entry(<<>>, seq[i])])
Num(digits) == Node("int", digits, <<>>)

TwoWords == Str(<<"word", Blank, "other">>)
Scalars ==
  {Str(<<"word">>), TwoWords, Num(<<"2", "0">>), Node("bool", <<"true">>, <<>>), Null,
   Str(<<"word", Blank, "#", "word">>), Str(<<"word", ",", "word">>), Str(<<"0">>)}

\* Only a value in a mapping may have a colon: see the README on list items.
Colon == Str(<<"word", ":", Blank, "'">>)

SmallMaps == {Map(<<Entry(<<"a">>, x)>>) : x \in Scalars}
               \cup {Map(<<Entry(<<"a">>, x), Entry(<<"b">>, y)>>) : x \in Scalars, y \in Scalars}
Lists == {ListOf(s) : s \in UpToTwo(Scalars)} \cup {ListOf(<<>>), Map(<<>>)}

Tools == {Map(<<Entry(<<"id">>, Str(<<"word">>)), Entry(<<"classes">>, l), Entry(<<"scope">>, x)>>)
            : l \in {ListOf(<<Str(<<"word">>)>>), ListOf(<<TwoWords, Null>>), ListOf(<<>>), Null},
              x \in {Str(<<"other">>), Map(<<Entry(<<"a">>, Null)>>)}}

Values == Scalars \cup {Colon} \cup SmallMaps \cup Lists
            \cup {ListOf(s) : s \in UpToTwo(Tools)}
            \cup {Map(<<Entry(<<"a">>, l), Entry(<<"b">>, x)>>) :
                    l \in Lists, x \in {Null, TwoWords}}

Layouts == [step : {2, 3}, flow : BOOLEAN, comments : BOOLEAN, folded : BOOLEAN]

MCDocuments ==
  {[tree |-> Map(<<Entry(<<"k">>, v), Entry(<<"tail">>, x)>>), layout |-> l, hasJson |-> FALSE]
     : v \in Values, x \in {Str(<<"word">>), Null}, l \in Layouts}
  \cup {[tree |-> Map(<<Entry(<<"k">>, v)>>), hasJson |-> TRUE,
         layout |-> [step |-> 2, flow |-> TRUE, comments |-> FALSE, folded |-> FALSE]]
          : v \in Scalars}

-----------------------------------------------------------------------------
Signed == Map(<<Entry(<<"publisher">>, Str(<<"word">>)), Entry(<<"signature">>, Str(<<"word">>))>>)

Clean == Map(<<Entry(<<"agent">>, Map(<<Entry(<<"slug">>, Str(<<"word">>))>>)),
               Entry(<<"audit">>, Map(<<Entry(<<"retention_days">>, Num(<<"9", "0">>))>>)),
               Entry(<<"signing">>, Signed)>>)

Put(key, node) ==
  [clean |-> Clean, key |-> key, node |-> node, hasPlaceholder |-> FALSE, mode |-> "COMPLIANCE",
   days |-> 90, signing |-> "signed"]

Nest(node) == {node, Map(<<Entry(<<"a">>, node)>>), ListOf(<<Null, node>>)}
Deep(node) == UNION {Nest(x) : x \in UNION {Nest(y) : y \in Nest(node)}}

Retention(n) == CASE n = 0 -> Null [] n = 29 -> Num(<<"2", "9">>) [] n = 30 -> Num(<<"3", "0">>)
                  [] n = 300 -> Str(<<Blank, "3", "0", "0">>)

Audit(mode, n) ==
  Map((IF mode = "unset" THEN <<>> ELSE <<Entry(<<"object_lock_mode">>, Str(<<mode>>))>>)
        \o <<Entry(<<"retention_days">>, Retention(n))>>)

\* What passes for a signature.
Signatures == {Str(<<"word">>), Num(<<"2", "0">>), ListOf(<<Null>>)}

MCDeliveries ==
  {[Put(<<"identity">>, x) EXCEPT !.hasPlaceholder = TRUE] :
     x \in Deep(Str(<<"changeme">>)) \cup Deep(Str(<<"word", Blank, "changeme">>))}
  \cup {Put(<<"identity">>, x) : x \in Deep(TwoWords) \cup Deep(Null)}
  \cup {[Put(<<"audit">>, Audit(mode, n)) EXCEPT !.mode = mode, !.days = n] :
          mode \in {"COMPLIANCE", "GOVERNANCE", "unset"}, n \in {0, 29, 30, 300}}
  \cup {[Put(<<"signing">>, Map(<<Entry(<<"publisher">>, Null), Entry(<<"signature">>, s)>>))
           EXCEPT !.signing = IF s \in Signatures THEN "signed" ELSE "unsigned"] :
          s \in Signatures \cup {Null, Str(<<>>), Str(<<Blank>>), Num(<<"0">>), Map(<<>>),
                                Node("bool", <<"false">>, <<>>)}}
  \cup {[Put(key, x) EXCEPT !.mode = "hollow", !.days = 0, !.signing = "hollow"] :
          key \in {<<"audit">>, <<"signing">>}, x \in {Null, Map(<<>>), TwoWords}}

-----------------------------------------------------------------------------
Fragments ==
  [kind : {"card", "card13", "ssn", "phone", "phone11", "mrn", "sid", "mail", "name"}, at : {1}, by : {0}]
    \cup [kind : {"mistyped"}, at : 1 .. 16, by : 1 .. 9]

Neighbours == {x \in Fragments : x.at \in {1, 8} /\ x.by \in {0, 4}}

\* The questions about a text.
About(fragments, apart, isString, classes, real, engines) ==
  LET text(s) == [isString |-> s, tokens |-> TextOf(fragments, apart)]
  IN [text : {text(s) : s \in isString}, fragments : {fragments}, apart : {apart},
      classes : classes, real : real, engine : engines]

All == {"card", "pii", "phi", "edu"}

MCTexts ==
  UNION {About(<<f, g>>, TRUE, {TRUE}, {{}, {"card"}, {"pii"}, {"phi", "edu"}, All}, {FALSE},
               {"none", "works"}) : f \in Fragments, g \in Neighbours}
  \cup UNION {About(<<f, g, h>>, FALSE, {TRUE}, {{"pii"}, All}, {FALSE}, {"works"}) :
               f \in Neighbours, g \in Neighbours, h \in Neighbours}
  \cup UNION {About(<<f>>, TRUE, BOOLEAN, {{"pii"}, {"card", "phi"}}, BOOLEAN, Engines) :
               f \in {x \in Fragments : x.by = 0}}

-----------------------------------------------------------------------------
Good ==
  [header |-> TRUE, shape |-> [s \in Sections |-> "map"], leaf |-> [l \in Leaves |-> "ok"],
   classification |-> {"pii"},
   tools |-> <<[id |-> "search", scope |-> "read", classes |-> {}]>>,
   consequential |-> {"submit"}, cap |-> 1]

ToolEntries == [id : {"search", "submit", "Bad Id"}, scope : {"read", "admin", "root"},
                classes : {{}, {"pii"}, {"edu"}}]

MCManifests ==
  {[manifest |-> m, fault |-> f] : f \in {"none", "schema", "manifest"}, m \in
     {[Good EXCEPT !.tools = t, !.consequential = c, !.classification = k] :
        t \in UpToTwo(ToolEntries) \cup {<<>>}, c \in SUBSET {"search", "submit"},
        k \in {{"pii"}, {"pii", "edu"}, {"secret"}}}}
  \cup {[manifest |-> m, fault |-> "none"] : m \in
     {[Good EXCEPT !.shape[s] = a, !.shape[r] = b] :
        s \in Sections, r \in Sections, a \in {"map", "scalar", "null", "absent"},
        b \in {"map", "scalar", "null", "absent"}}
     \cup {[Good EXCEPT !.leaf[l] = v, !.cap = n, !.header = h] :
        l \in Leaves, v \in {"ok", "bad", "absent"}, n \in {0, 1}, h \in BOOLEAN}}

MCContexts ==
  [authenticated : {TRUE}, tool : {"search", "submit"}, scope : {"read", "admin"},
   entitlements : {{}, {"search", "submit"}}, purpose : {"triage", "mischief"},
   classes : {{"pii"}, {"edu"}}, consent : BOOLEAN, region : {"gov"},
   budget_ok : {TRUE}, approval_valid : BOOLEAN, clearance : {{}, {"pii"}},
   registered : [dataClass : {"pii"}, allowedPurposes : {{"triage"}, {"triage", "mischief"}}]]

-----------------------------------------------------------------------------
SignedManifests ==
  [claim : {"v1", "v2"},
   signing : [shape : {"map", "scalar", "absent"}, publisher : {"dept", "isv", "unnamed"},
              signature : {"none", "s1"}]]

MCSignings ==
  [signed : SignedManifests, presented : SignedManifests, signer : {"publisher", "other"},
   trusted : {"publisher"}, fault : BOOLEAN]

-----------------------------------------------------------------------------
Sources == {{"login", "portal"}, {"street", "permit", "fees", "refund"}, {}}

MCPrompts ==
  {[allowlist |-> [intake |-> Registration(p, pins)], request |-> r] :
     p \in {{}, {"haiku"}, {"sonnet"}},
     pins \in {<<>>, [v1 |-> "h1"]},
     r \in [agent : {"intake", "stranger"}, task : {"classify", "draft"},
            prompt : SUBSET {"access", "streets"}, sources : SUBSET Sources,
            version : {"v1", "v2"}, hash : {"none", "h1", "h2"}, threshold : {0, 55, 99},
            schema : {[required |-> {}, enum |-> {}], [required |-> {"category"}, enum |-> {}],
                      [required |-> {}, enum |-> {"access", "general"}]}]}

Events == [tag : {"clerk", "parks"}, tokens_in : {1, 4}, tokens_out : {0, 2}, cost : {0, 1, 2}]

MCUsages == {<<>>} \cup UpToTwo(Events) \cup
  {<<x, y, z>> : x \in Events, y \in {e \in Events : e.tokens_in = 4},
                   z \in {e \in Events : e.tokens_out = 2}}
=============================================================================
