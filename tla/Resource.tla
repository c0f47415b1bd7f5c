------------------------------ MODULE Resource ------------------------------
(***************************************************************************)
(* The resources of one component while they are edited, cloned, saved to  *)
(* a status file, exported to the environment and loaded again             *)
(* (resources/resource.c, mutate.c, components/component.c, reslist.c).    *)
(*                                                                         *)
(* comp files one resource under each name.  The file and the environment  *)
(* outlive the component that was written to them, so that a later load    *)
(* may meet what an earlier one left behind.                               *)
(***************************************************************************)
EXTENDS ResourceMutate, ResourceFormat, ResourceStore

CONSTANTS
  ResNames,       (* Names of resources and                               *)
  NameRank,       (* the place of each in the order of strcasecmp.        *)
  CompName,       (* Name of the component.                               *)
  ValueTexts,     (* Values that callers set.                             *)
  TypeTexts,      (* Types that callers set as text.                      *)
  TemplateTexts,
  CommentTexts,
  ContextTexts,
  TagTexts,       (* Tags and pieces of values used by the mutators.      *)
  SpecRests,      (* What may follow a name in a line of text.            *)
  MaxOps          (* Bound on the number of calls.                        *)

ASSUME NamesAssumption ==
  /\ \A name \in ResNames \cup {CompName} : name \in Seq(WordPieces) /\ ValidName(name)
  /\ IsFiniteSet(ResNames)
  /\ NameRank \in [ResNames -> Nat]
ASSUME SpecsAssumption ==
  \A rest \in SpecRests : /\ rest \in Seq(STRING)
                           /\ (rest \in {<< >>, <<".", "=">>} \/ rest[1] = "=")
ASSUME TextsAssumption ==
  /\ UNION { ValueTexts, TypeTexts, TemplateTexts, CommentTexts, ContextTexts, TagTexts } \subseteq Seq(STRING)
  /\ MaxOps \in Nat

VARIABLES
  comp,      (* the resource filed under each name, NULL for none         *)
  file,      (* the status file                                           *)
  env,       (* the variables of the environment                          *)
  sent,      (* history: the component and options of the last export     *)
  ops        (* number of calls so far                                    *)

lifeVars == << comp, file, env, sent, ops >>

Unset == [ name \in ResNames |-> NULL ]

Named(name) == SetName(NewResource, name).res

LifeInit ==
  /\ comp = [ name \in ResNames |-> Named(name) ]
  /\ file = << >>
  /\ env = [ value |-> Unset, type |-> Unset, list |-> {} ]
  /\ sent = NULL
  /\ ops = 0

Present(resources) == { name \in ResNames : resources[name] # NULL }

(* lcfgreslist_print and lcfgcomponent_to_env pass over resources that     *)
(* have no value unless all are asked for.                                 *)
Shown(resources, all) == { name \in Present(resources) : all \/ HasValue(resources[name]) }

(* Entries are printed in the order of their names.                        *)
SortedEntries(names) ==
  LET order == SetToSeq(names)
  IN  SortedByKey([ k \in DOMAIN order |-> NameRank[order[k]] ], order)

StatusFile(resources, all, meta) ==
  LET order == SortedEntries(Shown(resources, all))
  IN  FlattenSeq([ k \in DOMAIN order |-> ToStatus(resources[order[k]], CompName, meta) ])

(* lcfgcomponent_from_status_file: a resource is created by the first line *)
(* that names it; the first bad line ends the load.  Without meta data the *)
(* lines of derivations and priorities are passed over.                    *)
LoadSpec(outcome, spec, meta) ==
  LET res == IF outcome.comp[spec.name] = NULL THEN Named(spec.name) ELSE outcome.comp[spec.name]
      Entered(set) == [ ok |-> set.ok, meta |-> meta, comp |-> [ outcome.comp EXCEPT ![spec.name] = set.res ] ]
  IN  CASE outcome.ok /\ GoodSpec(spec) /\ ~meta /\ spec.symbol \in {"#", "^"} -> outcome
        [] /\ outcome.ok /\ GoodSpec(spec) /\ (meta \/ spec.symbol \notin {"#", "^"})
           /\ spec.compname \in {NULL, CompName}
           /\ spec.name \in ResNames -> Entered(SetAttribute(res, spec.symbol, spec.value))
        [] OTHER -> [ outcome EXCEPT !.ok = FALSE ]

LoadLine(outcome, line) == LoadSpec(outcome, ParseSpec(line), outcome.meta)

LoadLines(lines, meta) ==
  LET upTo[k \in 0 .. Len(lines)] ==
        IF k = 0 THEN [ ok |-> TRUE, meta |-> meta, comp |-> Unset ]
        ELSE LoadLine(upTo[k - 1], lines[k])
  IN  upTo[Len(lines)]

FromStatusFile(text, meta) == LoadLines(Lines(text), meta)

(* lcfgresource_from_env.                                                  *)
FromVariables(name, type, value) ==
  LET named == SetName(NewResource, name)
      typed == IF IsEmpty(type) THEN named ELSE Then(named, LAMBDA res : SetTypeAsString(res, type))
  IN  IF value = NULL THEN Refused(NewResource) ELSE Then(typed, LAMBDA res : SetValue(res, value))

FromEnv(variables, name) == FromVariables(name, variables.type[name], variables.value[name])
-----------------------------------------------------------------------------
(* One action for each way of changing a resource.                         *)

Change(name, outcome) ==
  /\ comp' = [ comp EXCEPT ![name] = outcome.res ]
  /\ UNCHANGED << file, env, sent >>

SettingValue(name) == \E text \in ValueTexts : Change(name, SetValue(comp[name], text))

SettingBoolean(name) == \E text \in ValueTexts : Change(name, SetValue(comp[name], CanonBoolean(text)))

UnsettingValue(name) == Change(name, UnsetValue(comp[name]))

SettingType(name) == \E type \in {"string", "integer", "boolean", "list"} : Change(name, SetType(comp[name], type))

SettingTypeText(name) == \E text \in TypeTexts : Change(name, SetTypeAsString(comp[name], text))

SettingTypeDefault(name) == Change(name, SetTypeDefault(comp[name]))

SettingTemplate(name) == \E text \in TemplateTexts : Change(name, SetTemplateAsString(comp[name], text))

SettingComment(name) == \E text \in CommentTexts \cup {NULL} : Change(name, SetComment(comp[name], text))

SettingContext(name) ==
  \E text \in ContextTexts :
    \/ Change(name, SetContext(comp[name], text))
    \/ Change(name, AddContext(comp[name], text))

SettingPriority(name) == \E evaluated \in {-7, 7} : Change(name, EvalPriority(comp[name], evaluated))

AddingDerivation(name) == Change(name, AddDerivation(comp[name], {<<"c">>}))

Mutating(name) ==
  \E tag \in TagTexts :
    \/ Change(name, Append_value(comp[name], tag))
    \/ Change(name, Prepend_value(comp[name], tag))
    \/ Change(name, AppendTag(comp[name], tag))
    \/ Change(name, PrependTag(comp[name], tag))
    \/ Change(name, AddTags(comp[name], tag))

Replacing(name) ==
  \E old \in TagTexts, new \in TagTexts \cup {<< >>} :
    \/ Change(name, ReplaceTag(comp[name], old, new))
    \/ Change(name, Replace(comp[name], old, new))

Copying(name) ==
  /\ Clone(comp[name]).ok
  /\ Change(name, Clone(comp[name]))

SettingAttribute(name) ==
  \E symbol \in {"^", "%", NULL}, text \in {<< >>, <<"7">>, <<"&", "#xA;">>} :
    Change(name, SetAttribute(comp[name], symbol, text))

(* lcfgcomponent_to_env: type variables are set when meta data is wanted   *)
(* and there is some; no variable is ever removed.                         *)
ToEnv(all, meta) ==
  LET shown == Shown(comp, all)
  IN  /\ shown # {} \/ Present(comp) # {}
      /\ env' = [ value |-> [ n \in ResNames |-> IF n \in shown THEN OrEmpty(comp[n].value) ELSE env.value[n] ],
                  type |-> [ n \in ResNames |-> IF n \in shown /\ meta /\ HasMeta(comp[n])
                                             THEN TypeAsString(comp[n]) ELSE env.type[n] ],
                  list |-> shown ]
      /\ sent' = [ comp |-> comp, names |-> shown, meta |-> meta,
                   clean |-> { n \in shown : env.type[n] = NULL \/ (meta /\ HasMeta(comp[n])) } ]
      /\ UNCHANGED << comp, file >>

(* lcfgcomponent_from_env: the variable with the list of names decides     *)
(* what is loaded, one resource that cannot be loaded fails the call.      *)
LoadEnv ==
  /\ env.list # {}
  /\ \E loaded \in { [ name \in env.list |-> FromEnv(env, name) ] } :
       /\ \A name \in env.list : loaded[name].ok
       /\ comp' = [ name \in ResNames |-> IF name \in env.list THEN loaded[name].res ELSE NULL ]
  /\ UNCHANGED << file, env, sent >>

SaveStatus(all, meta) ==
  /\ file' = StatusFile(comp, all, meta)
  /\ UNCHANGED << comp, env, sent >>

LoadStatus(meta) ==
  /\ \E loaded \in {FromStatusFile(file, meta)} : loaded.ok /\ comp' = loaded.comp
  /\ UNCHANGED << file, env, sent >>

(* lcfgcomponent_find_or_create_resource, or lcfgresource_from_spec with a *)
(* line for the name.                                                      *)
Create(name) ==
  /\ comp[name] = NULL
  /\ \/ Change(name, Granted(Named(name)))
     \/ \E rest \in SpecRests : \E made \in {FromSpec(ParseSpec(name \o rest))} :
          made.ok /\ Change(name, made)

Edit(name) ==
  \/ SettingValue(name) \/ SettingBoolean(name) \/ UnsettingValue(name)
  \/ SettingType(name) \/ SettingTypeText(name) \/ SettingTypeDefault(name)
  \/ SettingTemplate(name) \/ SettingComment(name) \/ SettingContext(name)
  \/ SettingPriority(name) \/ AddingDerivation(name) \/ SettingAttribute(name)
  \/ Mutating(name) \/ Replacing(name) \/ Copying(name)

LifeNext ==
  /\ ops < MaxOps
  /\ ops' = ops + 1
  /\ \/ \E name \in Present(comp) : Edit(name)
     \/ \E name \in ResNames : Create(name)
     \/ \E all, meta \in BOOLEAN : ToEnv(all, meta)
     \/ \E all, meta \in BOOLEAN : SaveStatus(all, meta)
     \/ LoadEnv
     \/ \E meta \in BOOLEAN : LoadStatus(meta)

LifeSpec == LifeInit /\ [][LifeNext]_lifeVars
-----------------------------------------------------------------------------
Texts == { res.value : res \in { comp[name] : name \in Present(comp) } } \ {NULL}

ResourcesTyped ==
  /\ \A name \in Present(comp) :
       /\ DOMAIN comp[name] = DOMAIN NewResource
       /\ comp[name].name = name
       /\ comp[name].type \in Types
       /\ comp[name].template # NULL => \A k \in DOMAIN comp[name].template : ValidTemplate(comp[name].template[k])
  /\ env.list \subseteq ResNames
  /\ ops \in 0..MaxOps

(* Whatever calls set, retype, edit, copy or load a resource, its value is *)
(* one its type allows: resource.c checks the value when it is set and     *)
(* again when the type changes, and the mutators end in a setter.          *)
ValueFitsType ==
  \A name \in Present(comp) :
    comp[name].value # NULL => ValidValueForType(comp[name].type, comp[name].value)

(* lcfgresource_clone sends every part through its setter again and must   *)
(* not lose one on the way: the copy differs only in empty texts, which    *)
(* become NULL.                                                            *)
CloneFaithful ==
  \A name \in Present(comp) :
    LET res == comp[name]
    IN  Clone(res) = Granted([ res EXCEPT !.value = Copied(@), !.comment = Copied(@), !.context = Copied(@) ])

(* What a value and a type in text say of a resource: a comment ends at    *)
(* its first closing bracket, and only a list has its templates.           *)
ShownComment(res) ==
  LET text == OrEmpty(res.comment)
  IN  Copied(IF FirstOf(text, ")") = 0 THEN text ELSE Before(text, FirstOf(text, ")")))

AsWritten(res) ==
  [ NewResource EXCEPT !.name = res.name, !.value = OrEmpty(res.value), !.type = res.type,
                       !.comment = ShownComment(res),
                       !.template = IF res.type = "list" THEN res.template ELSE NULL ]

(* An integer without a value comes back as an empty text, which is none.  *)
LacksNumber(res) == res.type = "integer" /\ res.value = NULL

(* What lcfgresource_to_status writes and lcfgresource_parse_key cannot    *)
(* read: a context, name[context]=, and the rest of a comment behind the   *)
(* end of the line.                                                        *)
Unreadable(res) ==
  HasContext(res) \/ LacksNumber(res) \/ (HasComment(res) /\ FirstOf(res.comment, "LF") > 0)

(* A status file that lcfgcomponent_to_status_file has written is loaded   *)
(* by lcfgcomponent_from_status_file with the same values, types, comments *)
(* templates and, if they are wanted, derivations, but without priorities; *)
(* all of it is refused if it has one resource that cannot be read.  It    *)
(* has the inactive resources too: lcfgreslist_print prints the first of   *)
(* each list whatever its priority, though the comments in component.c say *)
(* that inactive resources are passed over.                                *)
StatusRoundTrip ==
  \A all, meta \in BOOLEAN :
    \E loaded \in {FromStatusFile(StatusFile(comp, all, TRUE), meta)} :
      IF \E name \in Shown(comp, all) : Unreadable(comp[name])
      THEN ~loaded.ok
      ELSE /\ loaded.ok
           /\ Present(loaded.comp) = Shown(comp, all)
           /\ \A name \in Shown(comp, all) :
                loaded.comp[name] =
                  [ AsWritten(comp[name]) EXCEPT !.derivation = IF meta THEN comp[name].derivation ELSE {} ]

(* What lcfgcomponent_to_bdb stores is what lcfgbdb_process_component      *)
(* reads: the names, and for each the value and type, and with meta data   *)
(* the context, the derivation and a priority above the default.  A value  *)
(* that looks like it holds an entity comes back decoded, though it was    *)
(* not encoded, and an integer without a value ends the load.              *)
BdbRoundTrip ==
  \E db \in {ToBdb({ comp[name] : name \in Present(comp) }, CompName)} :
    /\ db[CompName] = Present(comp)
    /\ \A name \in Present(comp), meta \in BOOLEAN :
         LET res    == comp[name]
             loaded == FromBdb(db, name, CompName, meta)
         IN  IF LacksNumber(res)
             THEN ~loaded.ok
             ELSE loaded = Granted([ AsWritten(res) EXCEPT
                    !.value = DecodeEntities(@),
                    !.context = IF meta THEN Copied(res.context) ELSE NULL,
                    !.derivation = IF meta THEN res.derivation ELSE {},
                    !.priority = IF meta /\ res.priority > 0 THEN res.priority ELSE 0 ])

(* What lcfgcomponent_to_env exported last is what lcfgresource_from_env   *)
(* reads, also after exports of other states of the component, unless the  *)
(* type variable of an earlier export was left standing.  Without meta     *)
(* data it is the value alone; an integer without a value is refused.      *)
EnvRoundTrip ==
  sent # NULL =>
    \A name \in sent.clean :
      /\ name \in env.list
      /\ LET res    == sent.comp[name]
             loaded == FromEnv(env, name)
         IN  CASE sent.meta /\ LacksNumber(res) -> ~loaded.ok
               [] sent.meta /\ ~LacksNumber(res) -> loaded = Granted(AsWritten(res))
               [] OTHER -> loaded = SetValue(Named(name), OrEmpty(res.value))

(* A shell that reads the line lcfgresource_to_export prints gets the      *)
(* value, whatever quotes it holds.                                        *)
ExportRoundTrip ==
  \A text \in Texts : ShellRead(Quoted(text)) = [ quote |-> NULL, text |-> text ]

(* The assertion at the end of every function that formats a resource:     *)
(* the length it added up to make room is that of the text it wrote.       *)
LengthsAgree ==
  \A name \in Present(comp), meta \in BOOLEAN :
    LET res == comp[name]
    IN  /\ StatusLength(res, CompName, meta) = Size(ToStatus(res, CompName, meta))
        /\ SummaryLength(res, CompName, meta) = Size(ToSummary(res, CompName, meta))
        /\ ExportLength(res, meta) = Size(ToExport(res, meta))
        /\ ValueLength(res) = Size(ToValue(res))

ReplacedWord(words, old, new) ==
  LET at == SelectInSeq(words, LAMBDA w : w = old)
  IN  Before(words, at) \o Words(new) \o From(words, at + 1)

(* The tag operations of mutate.c edit the text of the value, and do to    *)
(* the sequence of its words what their names say: no word is split,       *)
(* joined to its neighbour or lost.  A tag is one word, as a tag list has  *)
(* it; what a search for a text with blanks passes over is in Tried.       *)
TagsEdited ==
  \A name \in Present(comp), tag \in TagTexts :
    LET res == comp[name]
        words == Words(OrEmpty(res.value))
        known == \E k \in DOMAIN words : words[k] = tag
        after(outcome) == Words(OrEmpty(outcome.res.value))
    IN  Editable(res) /\ Words(tag) = <<tag>> =>
          /\ HasTag(res, tag) <=> known
          /\ AppendTag(res, tag).ok => after(AppendTag(res, tag)) = Append(words, tag)
          /\ PrependTag(res, tag).ok => after(PrependTag(res, tag)) = <<tag>> \o words
          /\ AddTags(res, tag).ok => after(AddTags(res, tag)) = IF known THEN words ELSE Append(words, tag)
          /\ \A new \in TagTexts \cup {<< >>} :
               known /\ ReplaceTag(res, tag, new).ok /\ tag # new =>
                 after(ReplaceTag(res, tag, new)) = ReplacedWord(words, tag, new)

(* The resources are well typed, their values among them.                  *)
ResourcesSound == ResourcesTyped /\ ValueFitsType

(* A component leaves by four ways, the status file, the environment, the  *)
(* database and the lines a shell reads.  Whatever has been done to its    *)
(* resources, what comes back has exactly the parts each way carries, and  *)
(* what cannot come back (a context in a status file, an integer without a *)
(* value) is refused, never taken for something else.  The one change is   *)
(* that of entities in the database.                                       *)
RoundTrips == StatusRoundTrip /\ EnvRoundTrip /\ BdbRoundTrip /\ ExportRoundTrip

(* A copy (lcfgresource_clone) loses nothing, and an edit (mutate.c)       *)
(* changes the words it names and no others.                               *)
EditsFaithful == CloneFaithful /\ TagsEdited
=============================================================================
