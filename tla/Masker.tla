--------------------------------- MODULE Masker ---------------------------------
(***************************************************************************)
(* platform_core/masker.py: the Safe Harbor passes over a text, in their   *)
(* order, and the NER pass behind them.                                    *)
(*                                                                         *)
(* A text is a sequence of tokens [glue, word, digits]: a run of digits    *)
(* (word "") or a word (digits <<>>), with the blank or the hyphen in       *)
(* front of it, "" if that was redacted too.  Every boundary \b is an      *)
(* edge of a token.  "MRN" and "SID" are the prefixes of the identifiers,  *)
(* "Ann" a bare name only an NER engine finds, "mail" a whole address, and *)
(* the name of an entity is its redaction, brackets and all.  Dots,        *)
(* parentheses, colons and "+" are left out.                               *)
(***************************************************************************)
EXTENDS Integers, Sequences, FiniteSetsExt, SequencesExt

Entities == {"CREDIT_CARD", "SSN", "EMAIL", "PHONE", "MEDICAL_ID", "STUDENT_ID"}

\* "note" is any other word, "NAME" the redaction of a name.
Words == Entities \cup {"", "MRN", "SID", "Ann", "mail", "note", "NAME"}

Token == [glue : {"", " ", "-"}, word : Words, digits : Seq(0 .. 9)]

Number(glue, digits) == [glue |-> glue, word |-> "", digits |-> digits]
Word(glue, word)     == [glue |-> glue, word |-> word, digits |-> <<>>]

Chars(token) ==
  CASE token.word = ""                      -> Len(token.digits)
    [] token.word \in {"MRN", "SID", "Ann"} -> 3
    [] OTHER                                -> 4

IsNumber(token)   == token.word = ""
IsRedacted(token) == token.word \in Entities \cup {"NAME"}

\* Variant: a doubled digit above nine is not reduced.
LuhnOk_Unreduced(digits) ==
  LET n     == Len(digits)
      value == [i \in 1 .. n |-> IF (i - 1) % 2 = n % 2 THEN 2 * digits[i] ELSE digits[i]]
  IN n \in 13 .. 19 /\ SumFunction(value) % 10 = 0

LuhnOk(digits) ==
  LET n          == Len(digits)
      doubled(d) == IF 2 * d > 9 THEN 2 * d - 9 ELSE 2 * d
      value      == [i \in 1 .. n |->
                       IF (i - 1) % 2 = n % 2 THEN doubled(digits[i]) ELSE digits[i]]
  IN n \in 13 .. 19 /\ SumFunction(value) % 10 = 0

-----------------------------------------------------------------------------
(***************************************************************************)
(* The end of the match of a pattern that starts at token i: the last      *)
(* token of the longest one, 0 when there is none.                         *)
(***************************************************************************)
LongestOf(ends) == IF ends = {} THEN 0 ELSE Max(ends)

Run(text, i, j) == FlattenSeq([k \in 1 .. j - i + 1 |-> text[i + k - 1].digits])

Shape(text, i, lengths, glues) ==
  /\ i + Len(lengths) - 1 <= Len(text)
  /\ \A k \in DOMAIN lengths :
       /\ IsNumber(text[i + k - 1]) /\ Len(text[i + k - 1].digits) = lengths[k]
       /\ k > 1 => text[i + k - 1].glue \in glues

CardEnd(text, i) ==
  LongestOf({j \in i .. Len(text) :
    /\ \A k \in i .. j : IsNumber(text[k])
    /\ Len(Run(text, i, j)) \in 13 .. 19})

SsnEnd(text, i) == IF Shape(text, i, <<3, 2, 4>>, {"-"}) THEN i + 2 ELSE 0

ShapeFromOne(text, i, lengths, glues) ==
  Shape(text, i, lengths, glues) /\ text[i].digits[1] = 1

\* The leading 1 may stand apart or not, or be missing.
PhoneEnd(text, i) ==
  IF ShapeFromOne(text, i, <<1, 3, 3, 4>>, {" ", "-"}) THEN i + 3
  ELSE IF \/ ShapeFromOne(text, i, <<4, 3, 4>>, {" ", "-"})
          \/ Shape(text, i, <<3, 3, 4>>, {" ", "-"})
    THEN i + 2 ELSE 0

EmailEnd(text, i) == IF text[i].word = "mail" THEN i ELSE 0

Width(token) == Chars(token) + (IF token.glue = "-" THEN 1 ELSE 0)

CharsAfter(text, i, j) == SumFunction([k \in 1 .. j - i |-> Width(text[i + k])])

\* A hyphen behind the match may be its last character, unless the bracket of a
\* redaction follows.
TakesHyphen(text, i, j) ==
  /\ j < Len(text) /\ text[j + 1].glue = "-" /\ ~IsRedacted(text[j + 1])
  /\ CharsAfter(text, i, j) + 1 \in 4 .. 12

\* A prefix, then four to twelve letters, digits and hyphens.
PrefixedEnd(text, i, prefix) ==
  IF text[i].word # prefix THEN 0
  ELSE LongestOf({j \in i + 1 .. Len(text) :
         /\ \A k \in i + 1 .. j : ~IsRedacted(text[k])
         /\ \A k \in i + 2 .. j : text[k].glue = "-"
         /\ CharsAfter(text, i, j) \in 4 .. 12 \/ TakesHyphen(text, i, j)})

MatchEnd(entity, text, i) ==
  CASE entity = "CREDIT_CARD" -> CardEnd(text, i)
    [] entity = "SSN"         -> SsnEnd(text, i)
    [] entity = "EMAIL"       -> EmailEnd(text, i)
    [] entity = "PHONE"       -> PhoneEnd(text, i)
    [] entity = "MEDICAL_ID"  -> PrefixedEnd(text, i, "MRN")
    [] entity = "STUDENT_ID"  -> PrefixedEnd(text, i, "SID")

\* A candidate that is no card number stays, and is not looked into again.
IsKept(entity, text, i, j) == entity = "CREDIT_CARD" /\ ~LuhnOk(Run(text, i, j))

\* A card number is matched with the blank or hyphen behind it.
TakesGlue(entity, text, i, j) ==
  \/ entity = "CREDIT_CARD"
  \/ entity \in {"MEDICAL_ID", "STUDENT_ID"} /\ TakesHyphen(text, i, j)

WithoutGlue(text) == IF text = <<>> THEN text ELSE [text EXCEPT ![1].glue = ""]

\* What becomes of the tokens from i on, and how many redactions it takes, given
\* what becomes of the tokens behind the match at i.
ScanFrom(entity, text, i, from) ==
  IF i > Len(text) THEN [text |-> <<>>, count |-> 0]
  ELSE LET j    == MatchEnd(entity, text, i)
           last == IF j = 0 THEN i ELSE j
           rest == from[last + 1]
       IN IF j = 0 \/ IsKept(entity, text, i, j)
            THEN [text |-> SubSeq(text, i, last) \o rest.text, count |-> rest.count]
            ELSE [text  |-> <<Word(text[i].glue, entity)>> \o
                              IF TakesGlue(entity, text, i, j)
                                THEN WithoutGlue(rest.text) ELSE rest.text,
                  count |-> rest.count + 1]

\* pattern.sub over the text.
Pass(entity, text) ==
  LET from[i \in 1 .. Len(text) + 1] == ScanFrom(entity, text, i, from)
  IN from[1]

EntityClasses ==
  [CREDIT_CARD |-> {"card"}, SSN |-> {"pii", "fti"}, EMAIL |-> {"pii"},
   PHONE |-> {"pii"}, MEDICAL_ID |-> {"phi"}, STUDENT_ID |-> {"edu"}]

IsActive(entity, classes) == EntityClasses[entity] \cap classes # {}

\* What a pass leaves, with its redactions added to those before it.
Added(so, step) == [text |-> step.text, count |-> so.count + step.count]

\* Variant: an entity is looked for if all its classes are asked for.
Then_IfAll(so, entity, classes) ==
  IF EntityClasses[entity] \subseteq classes THEN Added(so, Pass(entity, so.text)) ELSE so

\* The pass for an entity, if it is active, over what the earlier ones left.
Then(so, entity, classes) ==
  IF IsActive(entity, classes) THEN Added(so, Pass(entity, so.text)) ELSE so

\* The Safe Harbor passes, in the order of _active_entities.
SafeHarbor(tokens, classes) ==
  LET Numbers(so)     == Then(Then(so, "CREDIT_CARD", classes), "SSN", classes)
      Contacts(so)    == Then(Then(so, "EMAIL", classes), "PHONE", classes)
      Identifiers(so) == Then(Then(so, "MEDICAL_ID", classes), "STUDENT_ID", classes)
  IN Identifiers(Contacts(Numbers([text |-> tokens, count |-> 0])))

\* An engine, as _apply_ner sees it: none, one that redacts names, or one that
\* raises or returns what cannot be used.
Engines == {"none", "works", "faults"}

Redacted(text) ==
  [i \in DOMAIN text |-> IF text[i].word = "Ann" THEN Word(text[i].glue, "NAME") ELSE text[i]]

Fault == [raised |-> TRUE, text |-> <<>>, count |-> 0]

\* mask_report raises MaskingError, and mask MaskingFailClosed.
Refuses(text, real, engine) ==
  \/ ~text.isString
  \/ real /\ engine = "none"
  \/ engine = "faults"

\* The NER pass over what the others left, if there is an engine; see Refuses for
\* one that faults.
ApplyNer(harbor, engine) ==
  LET names == {i \in DOMAIN harbor.text : harbor.text[i].word = "Ann"}
  IN IF engine = "works"
       THEN [raised |-> FALSE, text |-> Redacted(harbor.text),
             count |-> harbor.count + Cardinality(names)]
       ELSE [raised |-> FALSE, text |-> harbor.text, count |-> harbor.count]

MaskReport(text, classes, real, engine) ==
  IF Refuses(text, real, engine) THEN Fault
  ELSE ApplyNer(SafeHarbor(text.tokens, classes), engine)
=============================================================================
