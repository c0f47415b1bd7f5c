---------------------------- MODULE ResourceText ----------------------------
(***************************************************************************)
(* What a resource (resources/resource.c, mutate.c, templates.c) holds and *)
(* how it is turned into text and back: the checks on names and values,    *)
(* the type written as text, the lines of a status file, the variables of  *)
(* an environment.                                                         *)
(*                                                                         *)
(* A text is a sequence of pieces.  A piece is a character the code looks  *)
(* for, or a run of characters it never looks into: a letter or a word,    *)
(* a type name, the end of a character entity.  NULL is the null pointer,  *)
(* which the code tells apart from the empty text.                         *)
(***************************************************************************)
EXTENDS Integers, Sequences, FiniteSets, SequencesExt, ListPlaces, TLC

CONSTANT NULL

Types == {"string", "integer", "boolean", "list", "publish", "subscribe"}

Letters == {"a", "b", "c", "yes", "no"} \cup Types

Digits == {"0", "7"}

WordPieces == Letters \cup Digits \cup {"_"}

Blanks == {" ", "LF", "CR"}

(* The ends of the character entities that stand for the unsafe pieces.    *)
Unsafe == {"CR", "LF", "&"}

EntityEnd == [ p \in Unsafe |-> CASE p = "CR" -> "#xD;" [] p = "LF" -> "#xA;" [] p = "&" -> "#x26;" ]

Entities == [ e \in {"#xD;", "#xA;", "#x26;", "amp;"} |->
                CASE e = "#xD;" -> "CR" [] e = "#xA;" -> "LF" [] OTHER -> "&" ]

IsEmpty(text) == text = NULL \/ text = << >>

OrEmpty(text) == IF text = NULL THEN << >> ELSE text

(* strchr: the first place of a piece, 0 when there is none.               *)
FirstOf(text, piece) == SelectInSeq(text, LAMBDA p : p = piece)

LastOf(text, piece) == SelectLastInSeq(text, LAMBDA p : p = piece)

From(text, i) == SubSeq(text, i, Len(text))

Before(text, i) == SubSeq(text, 1, i - 1)

Skipped(text, pieces) ==
  LET i == SelectInSeq(text, LAMBDA p : p \notin pieces)
  IN  IF i = 0 THEN << >> ELSE From(text, i)

(* Where the words of a text that blanks separate start and end.           *)
WordStarts(text) ==
  { i \in DOMAIN text : text[i] \notin Blanks /\ (i = 1 \/ text[i - 1] \in Blanks) }

WordEnd(text, i) ==
  LET after == SelectInSubSeq(text, i, Len(text), LAMBDA p : p \in Blanks)
  IN  IF after = 0 THEN Len(text) ELSE after - 1

(* strtok_r over blanks.                                                   *)
Words(text) ==
  AtPlaces([ i \in DOMAIN text |-> SubSeq(text, i, WordEnd(text, i)) ], WordStarts(text))
-----------------------------------------------------------------------------
(* The checks on the parts of a resource.                                  *)

ValidName(text) ==
  /\ ~IsEmpty(text)
  /\ text[1] \in Letters
  /\ \A i \in DOMAIN text : text[i] \in WordPieces

ValidBoolean(text) == text \in {<< >>, <<"yes">>}

ValidInteger(text) ==
  LET number == IF text # << >> /\ Head(text) = "-" THEN Tail(text) ELSE text
  IN  /\ number # << >>
      /\ Head(number) = "0" => number = <<"0">>
      /\ \A i \in DOMAIN number : number[i] \in Digits

ValidList(text) == \A i \in DOMAIN text : text[i] \in WordPieces \cup {" "}

ValidValueForType(type, text) ==
  /\ text # NULL
  /\ type = "integer" => ValidInteger(text)
  /\ type = "boolean" => ValidBoolean(text)
  /\ type = "list" => ValidList(text)

(* The words that mean true or false become "yes" or the empty text.       *)
CanonBoolean(text) ==
  CASE text = NULL -> << >>
    [] text \in {<< >>, <<"yes">>} -> text
    [] text \in {<<"no">>, <<"0">>} -> << >>
    [] OTHER -> NULL

MaxDepth == 5

Places(tmpl) == { i \in DOMAIN tmpl : tmpl[i] = "$" }

ValidTemplate(tmpl) ==
  /\ tmpl # << >> /\ tmpl[1] \in Letters
  /\ \A i \in DOMAIN tmpl : tmpl[i] \in WordPieces \cup {"$"}
  /\ \E i \in Places(tmpl) : tmpl[i - 1] = "_"
  /\ Cardinality(Places(tmpl)) <= MaxDepth
-----------------------------------------------------------------------------
(* The resource and its setters.  A setter answers whether it succeeded    *)
(* and the resource afterwards; one that fails half way keeps what it did. *)

NewResource ==
  [ name |-> NULL, value |-> NULL, type |-> "string", template |-> NULL,
    context |-> NULL, derivation |-> {}, comment |-> NULL, priority |-> 0 ]

Granted(res) == [ ok |-> TRUE, res |-> res ]

Refused(res) == [ ok |-> FALSE, res |-> res ]

Then(outcome, Setter(_)) == IF outcome.ok THEN Setter(outcome.res) ELSE outcome

SetName(res, text) ==
  IF ValidName(text) THEN Granted([ res EXCEPT !.name = text ]) ELSE Refused(res)

HasValue(res) == ~IsEmpty(res.value)

SetValue(res, text) ==
  IF ValidValueForType(res.type, text) THEN Granted([ res EXCEPT !.value = text ]) ELSE Refused(res)

UnsetValue(res) == Granted([ res EXCEPT !.value = NULL ])

HasComment(res) == ~IsEmpty(res.comment)

SetComment(res, text) == Granted([ res EXCEPT !.comment = text ])

(* Variant: the value is not checked against the new type.                 *)
SetTypeUnchecked(res, type) == Granted([ res EXCEPT !.type = type ])

SetType(res, type) ==
  IF \/ res.type = type
     \/ res.value = NULL
     \/ ValidValueForType(type, res.value)
  THEN Granted([ res EXCEPT !.type = type ])
  ELSE Refused(res)

SetTypeDefault(res) ==
  IF res.type = "string"
  THEN Granted(res)
  ELSE Then(SetType(res, "string"),
            LAMBDA r : Granted([ r EXCEPT !.template = NULL, !.comment = NULL ]))

(* lcfgtemplate_from_string: one template for every word, all of them good *)
SetTemplateAsString(res, text) ==
  LET tmpls == Words(text)
  IN  CASE text = NULL -> Refused(res)
        [] text = << >> -> Granted([ res EXCEPT !.template = NULL ])
        [] ~IsEmpty(text) /\ tmpls # << >> /\ \A k \in DOMAIN tmpls : ValidTemplate(tmpls[k]) ->
             Granted([ res EXCEPT !.template = tmpls ])
        [] OTHER -> Refused(res)

(* Words with a blank between each and the next.                           *)
Spaced(words) == FlattenSeq([ k \in DOMAIN words |-> IF k = 1 THEN words[k] ELSE <<" ">> \o words[k] ])

TemplateAsString(template) == IF template = NULL THEN << >> ELSE Spaced(template)

(* lcfgresource_set_type_as_string reads type(comment): templates.  The    *)
(* comment ends at the first bracket that closes, templates are read for a *)
(* list only, and what was set before a failure stays set.                 *)
TypeName(spec) == IF spec = << >> THEN "string" ELSE Head(spec)

CommentEnd(spec) ==
  IF FirstOf(spec, "(") = 0
  THEN 0
  ELSE SelectInSubSeq(spec, FirstOf(spec, "("), Len(spec), LAMBDA p : p = ")")

CommentOf(spec) == SubSeq(spec, FirstOf(spec, "(") + 1, CommentEnd(spec) - 1)

TemplatesOf(rest) ==
  IF FirstOf(rest, ": ") = 0 THEN << >> ELSE Skipped(From(rest, FirstOf(rest, ": ") + 1), Blanks)

Commented(res, comment) == IF comment = << >> THEN res ELSE [ res EXCEPT !.comment = comment ]

Templated(res, tmpl) == IF tmpl = << >> THEN Granted(res) ELSE SetTemplateAsString(res, tmpl)

SetTypeSpec(res, spec) ==
  CASE TypeName(spec) \notin Types -> Refused(res)
    [] TypeName(spec) = "list" ->
         Then(SetType(res, "list"),
              LAMBDA r : Templated(Commented(r, CommentOf(spec)), TemplatesOf(From(spec, CommentEnd(spec) + 1))))
    [] OTHER -> Then(SetType(res, TypeName(spec)), LAMBDA r : Granted(Commented(r, CommentOf(spec))))

SetTypeAsString(res, text) ==
  LET spec == Skipped(text, Blanks)
  IN  SetTypeSpec(res, IF spec # << >> /\ Head(spec) = "%" THEN Tail(spec) ELSE spec)

TypeAsString(res) ==
  <<res.type>>
    \o (IF HasComment(res) THEN <<"(">> \o res.comment \o <<")">> ELSE << >>)
    \o (IF res.type = "list" THEN <<": ">> \o TemplateAsString(res.template) ELSE << >>)

(* The type is worth a line or a variable of its own.                      *)
HasMeta(res) == res.type # "string" \/ HasComment(res)

(* External (the parser of expressions): what it accepts.                  *)
ValidContext(text) == text \in { <<"a", "=", "b">>, <<"c">>, << >> } \/ FirstOf(text, " & ") > 0

Bracketed(text) == IF text = << >> \/ Head(text) = "(" THEN text ELSE <<"(">> \o text \o <<")">>

(* The order is that of the call unless strcmp answers exactly -1, which   *)
(* it does not for these texts.                                            *)
CombineExpressions(text1, text2) ==
  IF text1 = text2 THEN text1 ELSE Bracketed(text2) \o <<" & ">> \o Bracketed(text1)

HasContext(res) == ~IsEmpty(res.context)

SetContext(res, text) ==
  IF text = NULL \/ ValidContext(text) THEN Granted([ res EXCEPT !.context = text ]) ELSE Refused(res)

AddContext(res, text) ==
  CASE IsEmpty(text) -> Granted(res)
    [] ~IsEmpty(text) /\ ~HasContext(res) -> SetContext(res, text)
    [] OTHER -> SetContext(res, CombineExpressions(res.context, text))

(* lcfgctxlist_eval_expression gives the priority of a context.            *)
EvalPriority(res, evaluated) ==
  Granted([ res EXCEPT !.priority = IF HasContext(res) THEN evaluated ELSE 0 ])

(* The derivation is copied before more files are merged into it, so the   *)
(* list other resources share is left alone: a set of files here.          *)
AddDerivation(res, files) == Granted([ res EXCEPT !.derivation = @ \cup files ])

SetDerivation(res, files) == Granted([ res EXCEPT !.derivation = files ])

Copied(text) == IF IsEmpty(text) THEN NULL ELSE text

(* lcfgresource_clone: every part goes through its setter again.           *)
Clone(res) ==
  LET typed == [ NewResource EXCEPT !.type = res.type, !.priority = res.priority ]
      Name(r) == IF IsEmpty(res.name) THEN Granted(r) ELSE SetName(r, res.name)
      Value(r) == IF IsEmpty(res.value) THEN Granted(r) ELSE SetValue(r, res.value)
      Template(r) == IF res.template = NULL THEN Granted(r)
                     ELSE SetTemplateAsString(r, TemplateAsString(res.template))
      Rest(r) == Then(SetContext([ r EXCEPT !.comment = Copied(res.comment) ], Copied(res.context)),
                      LAMBDA q : SetDerivation(q, res.derivation))
  IN  Then(Then(Then(Name(typed), Value), Template), Rest)
-----------------------------------------------------------------------------
(* Values in status files: what would break a line is written as a         *)
(* character entity, and every entity is decoded on the way back.          *)

EncValue(text) ==
  FlattenSeq([ i \in DOMAIN text |->
    IF text[i] \in Unsafe THEN <<"&", EntityEnd[text[i]]>> ELSE <<text[i]>> ])

DecodeEntities(text) ==
  LET opens(i) == i \in 1..(Len(text) - 1) /\ text[i] = "&" /\ text[i + 1] \in DOMAIN Entities
  IN  FlattenSeq([ i \in DOMAIN text |->
        CASE opens(i) -> <<Entities[text[i + 1]]>>
          [] opens(i - 1) -> << >>
          [] OTHER -> <<text[i]>> ])

Symbols == {"#", "%", "^"}

(* lcfgresource_insert_key: symbol, component and name of a line.          *)
Key(symbol, compname, name) ==
  (IF symbol = NULL THEN << >> ELSE <<symbol>>)
    \o (IF IsEmpty(compname) THEN << >> ELSE compname \o <<".">>) \o name

ToSpec(res, compname) ==
  Key(NULL, compname, res.name)
    \o (IF HasContext(res) THEN <<"[">> \o res.context \o <<"]">> ELSE << >>)
    \o <<"=">> \o EncValue(OrEmpty(res.value))

(* The files of a derivation, separated by blanks (the order is no         *)
(* matter here, see Derivation).                                           *)
DerivationText(files) == Spaced(SetToSeq(files))

(* The block of a resource in a status file, "LF" ends a line.             *)
ToStatus(res, compname, meta) ==
  ToSpec(res, compname) \o <<"LF">>
    \o (IF HasMeta(res)
        THEN Key("%", compname, res.name) \o <<"=">> \o TypeAsString(res) \o <<"LF">>
        ELSE << >>)
    \o (IF meta /\ res.derivation # {}
        THEN Key("#", compname, res.name) \o <<"=">> \o DerivationText(res.derivation) \o <<"LF">>
        ELSE << >>)

(* lcfgresource_parse_key: the last period ends the component, the one     *)
(* before it the host.  A period must not end what it splits.              *)
LastPart(path) == From(path, LastOf(path, ".") + 1)

ParsePath(symbol, path, owner) ==
  [ ok |-> LastPart(path) # << >> /\ (owner # << >> => LastPart(owner) # << >>),
    symbol |-> symbol,
    name |-> LastPart(path),
    compname |-> IF LastOf(path, ".") = 0 THEN NULL ELSE LastPart(owner) ]

ParseKey(key) ==
  LET symbol == IF key # << >> /\ Head(key) \in Symbols THEN Head(key) ELSE NULL
      path == IF symbol = NULL THEN key ELSE Tail(key)
  IN  ParsePath(symbol, path, Before(path, LastOf(path, ".")))

(* lcfgresource_parse_spec: the first = ends the key.                      *)
ParseSpec(line) ==
  LET spec == Skipped(line, Blanks)
      sep == FirstOf(spec, "=")
      key == ParseKey(Before(spec, sep))
  IN  [ ok |-> key.ok, symbol |-> key.symbol, name |-> key.name, compname |-> key.compname,
        value |-> From(spec, sep + 1), found |-> sep > 0 ]

GoodSpec(spec) == spec.found /\ spec.ok /\ ValidName(spec.name)

NumberOf(text) ==
  LET digit(p) == IF p = "7" THEN 7 ELSE 0
  IN  IF Head(text) = "-"
      THEN -FoldLeft(LAMBDA n, p : 10 * n + digit(p), 0, Tail(text))
      ELSE FoldLeft(LAMBDA n, p : 10 * n + digit(p), 0, text)

(* lcfgresource_set_attribute; derivation lines name files, left out here. *)
SetAttribute(res, symbol, text) ==
  CASE symbol = "#" -> SetDerivation(res, ToSet(Words(text)))
    [] symbol = "%" -> IF text = << >> THEN SetTypeDefault(res) ELSE SetTypeAsString(res, text)
    [] symbol = "=" -> SetContext(res, Copied(text))
    [] symbol = "^" /\ text = << >> -> Granted([ res EXCEPT !.priority = 0 ])
    [] symbol = "^" /\ text # << >> ->
         IF ValidInteger(text) THEN Granted([ res EXCEPT !.priority = NumberOf(text) ]) ELSE Refused(res)
    [] OTHER -> SetValue(res, DecodeEntities(text))

(* lcfgresource_from_spec.                                                 *)
FromSpec(spec) ==
  IF GoodSpec(spec)
  THEN Then(SetName(NewResource, spec.name), LAMBDA r : SetAttribute(r, spec.symbol, spec.value))
  ELSE Refused(NewResource)

(* getline and lcfgutils_string_chomp: the lines, without their ends.      *)
LineStarts(text) == { i \in DOMAIN text : i = 1 \/ text[i - 1] = "LF" }

Chomped(line) ==
  LET keep == SelectLastInSeq(line, LAMBDA p : p \notin {"CR", "LF"})
  IN  IF line = << >> THEN line ELSE SubSeq(line, 1, IF keep = 0 THEN 1 ELSE keep)

Lines(text) ==
  LET end(i) == LET lf == SelectInSubSeq(text, i, Len(text), LAMBDA p : p = "LF")
                IN  IF lf = 0 THEN Len(text) ELSE lf
  IN  AtPlaces([ i \in DOMAIN text |-> Chomped(SubSeq(text, i, end(i))) ], LineStarts(text))
-----------------------------------------------------------------------------
(* Shell text: single quotes around the value, a quote in it is closed,    *)
(* written between double quotes and opened again.                         *)

Quoted(text) ==
  <<"'">>
    \o FlattenSeq([ i \in DOMAIN text |->
         IF text[i] = "'" THEN <<"'", "dq", "'", "dq", "'">> ELSE <<text[i]>> ])
    \o <<"'">>

(* External (the shell): what it makes of a quoted word.                   *)
ShellRead(text) ==
  FoldLeft(LAMBDA s, p :
             CASE p \in {"'", "dq"} /\ s.quote = NULL -> [ s EXCEPT !.quote = p ]
               [] p = s.quote -> [ s EXCEPT !.quote = NULL ]
               [] OTHER -> [ s EXCEPT !.text = Append(@, p) ],
           [ quote |-> NULL, text |-> << >> ], text)
=============================================================================
