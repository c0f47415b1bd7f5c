--------------------------- MODULE ResourceFormat ---------------------------
(***************************************************************************)
(* The formats of a resource and the sizes of their buffers                *)
(* (resources/resource.c, templates.c).  Every function that writes a      *)
(* resource first adds up the length of the result, makes room for it, and *)
(* then writes with no further check; it ends with an assertion that the   *)
(* two agree.  The sums are the code's, the texts are what it writes.      *)
(***************************************************************************)
EXTENDS ResourceText

(* Characters of a piece: a few pieces have names of their own.            *)
Width(piece) == IF piece \in {"CR", "LF", "dq"} THEN 1 ELSE Len(piece)

Size(text) == FoldLeft(LAMBDA n, piece : n + Width(piece), 0, text)

Occurrences(text, piece) == Cardinality({ i \in DOMAIN text : text[i] = piece })

LengthOf(text) == IF IsEmpty(text) THEN 0 ELSE Size(text)

(* lcfgresource_enc_value: "&#xD;" and "&#xA;" are five characters long,   *)
(* "&#x26;" is six.                                                        *)
EncLength(text) ==
  Size(text) + 4 * Occurrences(text, "CR") + 4 * Occurrences(text, "LF") + 5 * Occurrences(text, "&")

KeyLength(symbol, compname, name) ==
  (IF symbol = NULL THEN 0 ELSE 1)
    + (IF IsEmpty(compname) THEN 0 ELSE Size(compname) + 1) + Size(name)

(* lcfgtemplate_to_string.                                                 *)
TemplateLength(template) ==
  FoldLeft(LAMBDA n, tmpl : n + 1 + Size(tmpl), Size(Head(template)), Tail(template))

TypeLength(res) ==
  Width(res.type)
    + (IF HasComment(res) THEN Size(res.comment) + 2 ELSE 0)
    + (IF res.type = "list" THEN 2 + (IF res.template = NULL THEN 0 ELSE TemplateLength(res.template)) ELSE 0)

SpecLength(res, compname) ==
  KeyLength(NULL, compname, res.name)
    + 1 + (IF res.value = NULL THEN 0 ELSE EncLength(res.value))
    + (IF HasContext(res) THEN 2 + Size(res.context) ELSE 0)

(* Variant: the line end of the type line has no room.                     *)
StatusLengthNoEnd(res, compname, meta) ==
  SpecLength(res, compname) + 1
    + (IF HasMeta(res) THEN KeyLength("%", compname, res.name) + TypeLength(res) + 1 ELSE 0)
    + (IF meta /\ res.derivation # {}
       THEN KeyLength("#", compname, res.name) + Size(DerivationText(res.derivation)) + 2 ELSE 0)

StatusLength(res, compname, meta) ==
  SpecLength(res, compname) + 1
    + (IF HasMeta(res) THEN KeyLength("%", compname, res.name) + TypeLength(res) + 2 ELSE 0)
    + (IF meta /\ res.derivation # {}
       THEN KeyLength("#", compname, res.name) + Size(DerivationText(res.derivation)) + 2 ELSE 0)

(* lcfgresource_build_env_var with a prefix that names the component.      *)
EnvVar(prefix, name) == <<prefix>> \o name

ExportLine(prefix, name, text) == <<"export", " ">> \o EnvVar(prefix, name) \o <<"=">> \o Quoted(text) \o <<"LF">>

ToExport(res, meta) ==
  (IF meta /\ HasMeta(res) THEN ExportLine("LCFGTYPE_c_", res.name, TypeAsString(res)) ELSE << >>)
    \o ExportLine("LCFG_c_", res.name, OrEmpty(res.value))

(* Each quote grows from one character to five.                            *)
ExportLineLength(prefix, name, text) ==
  Len("export") + Size(EnvVar(prefix, name)) + Size(text) + 4 * Occurrences(text, "'") + 5

ExportLength(res, meta) ==
  ExportLineLength("LCFG_c_", res.name, OrEmpty(res.value))
    + (IF meta /\ HasMeta(res) THEN ExportLineLength("LCFGTYPE_c_", res.name, TypeAsString(res)) ELSE 0)

(* A line of the summary: a label padded to seven characters and a text.   *)
SummaryLine(label, text) == <<" ", label, "=">> \o text \o <<"LF">>

ToSummary(res, compname, meta) ==
  Key(NULL, compname, res.name) \o <<":", "LF">>
    \o SummaryLine("  value", OrEmpty(res.value))
    \o SummaryLine("   type", IF HasMeta(res) THEN TypeAsString(res) ELSE <<"default">>)
    \o (IF meta /\ res.derivation # {} THEN SummaryLine(" derive", DerivationText(res.derivation)) ELSE << >>)
    \o (IF meta /\ HasContext(res) THEN SummaryLine("context", res.context) ELSE << >>)

SummaryLength(res, compname, meta) ==
  KeyLength(NULL, compname, res.name) + 2
    + 10 + LengthOf(res.value)
    + 10 + (IF HasMeta(res) THEN TypeLength(res) ELSE Len("default"))
    + (IF meta /\ res.derivation # {} THEN 10 + Size(DerivationText(res.derivation)) ELSE 0)
    + (IF meta /\ HasContext(res) THEN 10 + Size(res.context) ELSE 0)

(* lcfgresource_to_value with encoding and a line end.                     *)
ToValue(res) == EncValue(OrEmpty(res.value)) \o <<"LF">>

ValueLength(res) == (IF res.value = NULL THEN 0 ELSE EncLength(res.value)) + 1
=============================================================================
