---------------------------- MODULE PackageFiles ----------------------------
(***************************************************************************)
(* Packages that are read, edited, written to files and loaded again: the  *)
(* files for updaterpms (packages/rpm.c), the loader of files for cpp and  *)
(* of Debian indexes (packages/container.c) and the lists they fill.       *)
(*                                                                         *)
(* A file is a sequence of lines.  cpp, the shape of an index and libxml   *)
(* are external; a line of cpp that says where the next line comes from is *)
(* a record, every other line a text.                                      *)
(***************************************************************************)
EXTENDS PackageText

CONSTANTS
  DefArch,       (* the default architecture                               *)
  Specs,         (* specs that are read                                    *)
  Texts,         (* a set of texts for every part that is set              *)
  ExtraFlags,    (* flags and                                              *)
  ExtraContexts, (* contexts that are added                                *)
  Sources,       (* texts of derivations that are added, and               *)
  FilesAdded,    (* names of files that are added without a line           *)
  FileNames,     (* names of an rpmcfg file and of the file it includes,   *)
                 (* and if it does so before its packages                  *)
  IncludedLines, (* the lines of the latter                                *)
  MaxPackages,   (* bounds on the packages read and                        *)
  MaxEdits       (* on the edits of them                                   *)

VARIABLES
  pkgs,   (* the packages, of which the last one is edited *)
  edits

vars == << pkgs, edits >>
-----------------------------------------------------------------------------
(* Lists as the loaders fill them: lcfgpkglist_merge_package, for lists    *)
(* that squash what is equal and may keep all, with names and              *)
(* architectures as the primary key.                                       *)

SameKey(p, q) == p.name = q.name /\ R!OrEmpty(p.arch) = R!OrEmpty(q.arch)

Merged(list, keepAll, pkg) ==
  LET With(at) ==
        CASE at = 0 -> R!Granted(Append(list, pkg))
          [] at > 0 /\ Equals(list[at], pkg) -> R!Granted(Append(RemoveAt(list, at), pkg))
          [] OTHER -> IF keepAll THEN R!Granted(Append(list, pkg)) ELSE R!Refused(list)
  IN  With(SelectInSeq(list, LAMBDA p : SameKey(p, pkg)))

(* A loader that fails gives no list.                                      *)
AllOrNothing(outcome) == IF outcome.ok THEN R!Granted(outcome.res) ELSE R!Refused(<< >>)

MergedAll(list, keepAll) ==
  AllOrNothing(FoldLeft(LAMBDA outcome, pkg : R!Then(outcome, LAMBDA l : Merged(l, keepAll, pkg)), R!Granted(<< >>), list))
-----------------------------------------------------------------------------
(* lcfgpkglist_to_rpmcfg: the active packages, and in a block of their own *)
(* those for other contexts.                                               *)

BlockLines(list) == FlattenSeq([ i \in DOMAIN list |-> CppLines(list[i], DefArch) ])

Usable(list) == SelectSeq(list, IsValid)

Include(name) == <<"#include", " ", "dq">> \o name \o <<"dq">>

Layout(blocks, rpminc) ==
  blocks[1]
    \o << <<"#ifdef", " ", "ALL_CONTEXTS">> >>
    \o blocks[2]
    \o << <<"#endif">>, << >> >>
    \o (IF rpminc = NULL THEN << >> ELSE << Include(rpminc) >>)

RpmcfgLines(lists, rpminc) == Layout([ i \in 1..2 |-> BlockLines(Usable(Sorted(lists[i]))) ], rpminc)

Text(line) == [ text |-> line, line |-> 0, file |-> NULL ]

Marker(line, file) == [ text |-> << >>, line |-> line, file |-> file ]

(* External (cpp): what a conditional leaves out is an empty line, a file  *)
(* that is included starts and ends with a line that says so.              *)
CppLine(s, line, defined, names) ==
  LET emit(items) == [ s EXCEPT !.out = @ \o items, !.count = @ + 1 ]
      nothing == emit(<< Text(<< >>) >>)
      shown == \A i \in DOMAIN s.open : s.open[i]
  IN  CASE line # << >> /\ Head(line) = "#ifdef" ->
             [ nothing EXCEPT !.open = Append(@, Last(line) \in defined) ]
        [] line # << >> /\ Head(line) = "#endif" -> [ nothing EXCEPT !.open = Front(@) ]
        [] line # << >> /\ Head(line) = "#include" ->
             emit(<< Marker(1, names.included) >>
                    \o [ i \in DOMAIN IncludedLines |-> Text(IncludedLines[i]) ]
                    \o << Marker(s.count + 2, names.file) >>)
        [] OTHER -> IF shown THEN emit(<< Text(line) >>) ELSE nothing

Cpp(lines, defined, names) ==
  FoldLeft(LAMBDA s, line : CppLine(s, line, defined, names),
           [ out |-> << Marker(1, names.file) >>, open |-> << >>, count |-> 0 ], lines).out

Place(file, line) == file \o <<":", ToString(line)>>

(* lcfgpackages_from_cpp.  The name of the file is only replaced by one    *)
(* that is no beginning of it (lcfgutils_parse_cpp_derivation).            *)
AtMarker(s, marker) ==
  [ s EXCEPT !.line = marker.line - 1,
             !.file = IF IsPrefix(marker.file, s.file) THEN s.file ELSE marker.file ]

AtPragma(s, meta, line) ==
  LET With(pragma) ==
        IF meta /\ pragma # NULL /\ pragma.value # << >>
        THEN [ s EXCEPT ![pragma.key] = pragma.value ]
        ELSE s
  IN  With(ParsePragma(line))

(* The architecture, the derivation, the context and the category a spec   *)
(* gets from around it.  A derivation that cannot be read ends the load.   *)
Completed(pkg, s, meta) ==
  LET housed == [ pkg EXCEPT !.arch = IF @ = NULL THEN DefArch ELSE @ ]
      placed == IF meta /\ s.derive # NULL
                THEN SetDerivation(housed, s.derive)
                ELSE R!Granted(AddFileLine(housed, Place(s.file, s.line)))
      Labelled(p) == R!Then(SetGiven(p, "context", s.context), LAMBDA q : SetGiven(q, "category", s.category))
  IN  IF meta THEN R!Then(placed, Labelled) ELSE placed

(* Variant: the context stays for the packages that follow.                *)
WithContextKept(s, list) == [ s EXCEPT !.res = list ]

(* A context is for the next package only.                                 *)
WithPackage(s, list) == [ s EXCEPT !.res = list, !.context = NULL ]

AtSpec(s, meta, keepAll, line) ==
  LET With(merged) == IF merged.ok THEN WithPackage(s, merged.res) ELSE [ s EXCEPT !.ok = FALSE ]
  IN  With(R!Then(R!Then(FromSpec(line), LAMBDA p : Completed(p, s, meta)),
                  LAMBDA p : Merged(s.res, keepAll, p)))

AtText(s, meta, keepAll, line) ==
  CASE line = << >> -> s
    [] line # << >> /\ Head(line) = "#pragma LCFG" -> AtPragma(s, meta, line)
    [] OTHER -> AtSpec(s, meta, keepAll, line)

AtLine(s, meta, keepAll, item) ==
  CASE ~s.ok -> s
    [] s.ok /\ item.file # NULL -> AtMarker(s, item)
    [] OTHER -> AtText([ s EXCEPT !.line = @ + 1 ], meta, keepAll, Trimmed(item.text))

FromCpp(items, meta, keepAll) ==
  FoldLeft(LAMBDA s, item : AtLine(s, meta, keepAll, item),
           [ ok |-> TRUE, res |-> << >>, derive |-> NULL, context |-> NULL, category |-> NULL,
             file |-> << >>, line |-> 0 ], items)

(* lcfgpkglist_from_rpmcfg.                                                *)
FromRpmcfg(lines, names, meta, all) ==
  LET defined == (IF meta THEN {"INCLUDE_META"} ELSE {}) \cup (IF all THEN {"ALL_CONTEXTS"} ELSE {})
  IN  AllOrNothing(FromCpp(Cpp(lines, defined, names), meta, all))
-----------------------------------------------------------------------------
(* lcfgpkglist_to_rpmlist and lcfgpkglist_from_rpmlist.  One package that  *)
(* has no name for an RPM file fails the whole file; a name that cannot be *)
(* read is passed over.                                                    *)

RpmlistLines(list) ==
  LET Names(sorted) == [ i \in DOMAIN sorted |-> ToRpm(sorted[i], DefArch) ]
      Written(names) == IF NULL \in Range(names) THEN R!Refused(<< >>) ELSE R!Granted(names)
  IN  Written(Names(Sorted(Usable(list))))

FromRpmlist(lines) ==
  LET Read == [ i \in DOMAIN lines |-> FromRpm(Trimmed(lines[i])) ]
      Packages(good) == [ i \in DOMAIN good |-> good[i].res ]
  IN  MergedAll(Packages(SelectSeq(Read, LAMBDA outcome : outcome.ok)), TRUE)
-----------------------------------------------------------------------------
(* External: a Debian index, with an empty line between its packages.      *)

Field(key, text) == [ key |-> key, text |-> text ]

Stanza(pkg) ==
  << Field("Package", pkg.name) >>
    \o (IF R!IsEmpty(pkg.arch) THEN << >> ELSE << Field("Architecture", pkg.arch) >>)
    \o (IF R!IsEmpty(pkg.version) THEN << >>
        ELSE << Field("Version", pkg.version \o Marked("-", pkg.release)), Field("Priority", <<"a">>) >>)
    \o (IF pkg.derivation = {} THEN << >> ELSE << Field("Filename", R!DerivationText(pkg.derivation)) >>)

IndexLines(list) ==
  FlattenSeq([ i \in DOMAIN list |-> IF i = 1 THEN Stanza(list[i]) ELSE << Field("", << >>) >> \o Stanza(list[i]) ])

(* lcfgpackages_from_debian_index.  A version that is bad is no error if a *)
(* release follows.                                                        *)
SetField(pkg, line) ==
  CASE line.key = "Package" -> SetPart(pkg, "name", line.text)
    [] line.key = "Architecture" -> SetPart(pkg, "arch", line.text)
    [] line.key = "Version" ->
         LET at == R!LastOf(line.text, "-")
         IN  IF at = 0
             THEN SetPart(pkg, "version", line.text)
             ELSE SetPart(SetPart(pkg, "version", R!Before(line.text, at)).res, "release", R!From(line.text, at + 1))
    [] line.key = "Filename" -> SetDerivation(pkg, line.text)
    [] OTHER -> R!Granted(pkg)

EndStanza(s) ==
  IF s.pkg = NULL
  THEN s
  ELSE LET With(merged) == [ s EXCEPT !.ok = merged.ok, !.res = merged.res, !.pkg = NULL ]
       IN  With(Merged(s.res, TRUE, s.pkg))

AtField(s, line) ==
  LET With(set) == [ s EXCEPT !.ok = set.ok, !.pkg = IF set.ok THEN set.res ELSE NULL ]
  IN  With(SetField(IF s.pkg = NULL THEN NewPackage ELSE s.pkg, line))

FromIndex(lines) ==
  AllOrNothing(EndStanza(
    FoldLeft(LAMBDA s, line :
               CASE ~s.ok -> s
                 [] s.ok /\ line.key = "" -> EndStanza(s)
                 [] OTHER -> AtField(s, line),
             [ ok |-> TRUE, res |-> << >>, pkg |-> NULL ], lines)))
-----------------------------------------------------------------------------
(* The caller.                                                             *)

Init ==
  /\ pkgs = << >>
  /\ edits = 0

Add(outcome) ==
  /\ outcome.ok
  /\ Len(pkgs) < MaxPackages
  /\ pkgs' = Append(pkgs, outcome.res)
  /\ UNCHANGED edits

(* A setter that refuses leaves the package alone.                         *)
Edit(Setter(_)) ==
  /\ pkgs # << >>
  /\ edits < MaxEdits
  /\ \E outcome \in {Setter(Last(pkgs))} :
       /\ outcome.ok
       /\ pkgs' = [ pkgs EXCEPT ![Len(pkgs)] = outcome.res ]
  /\ edits' = edits + 1

ReadSpec == \E line \in Specs : Add(FromSpec(line))

Duplicate == pkgs # << >> /\ Add(Clone(Last(pkgs)))

Set == \E part \in DOMAIN Texts : \E text \in Texts[part] : Edit(LAMBDA p : SetPart(p, part, text))

ClearFlags == Edit(LAMBDA p : R!Granted([ p EXCEPT !.flags = NULL ]))

Mark == Edit(LAMBDA p : SetPrefix(p, "!"))

ClearPrefix == Edit(LAMBDA p : R!Granted([ p EXCEPT !.prefix = NULL ]))

MoreFlags == \E flags \in ExtraFlags : Edit(LAMBDA p : AddFlags(p, flags))

MoreContext == \E context \in ExtraContexts : Edit(LAMBDA p : R!AddContext(p, context))

MoreDerivation == \E text \in Sources : Edit(LAMBDA p : AddDerivation(p, text))

MoreFiles == \E file \in FilesAdded : Edit(LAMBDA p : R!Granted(AddFileLine(p, file)))

Evaluate == \E priority \in {-1, 1} : Edit(LAMBDA p : R!EvalPriority(p, priority))

Next ==
  \/ ReadSpec \/ Duplicate
  \/ Set \/ ClearFlags \/ Mark \/ ClearPrefix
  \/ MoreFlags \/ MoreContext \/ MoreDerivation \/ MoreFiles \/ Evaluate

Spec == Init /\ [][Next]_vars
-----------------------------------------------------------------------------
TypeOK ==
  /\ edits \in 0..MaxEdits
  /\ \A i \in DOMAIN pkgs :
       /\ DOMAIN pkgs[i] = DOMAIN NewPackage
       /\ \A part \in DOMAIN Permitted \cup {"context", "category"} :
            pkgs[i][part] # NULL => Valid(part, pkgs[i][part])
       /\ pkgs[i].prefix \in PrefixMarks \cup {NULL}

Hyphened(text) == R!FirstOf(R!OrEmpty(text), "-") > 0

Styles == { {}, {"NEW"}, {"COMPAT"}, {"NEW", "NOPREFIX"}, {"NOCONTEXT", "NOPREFIX"} }

(* What a spec can say: no hyphen in an architecture that is written, and  *)
(* one in a version only in the style and with the release that set it     *)
(* apart.                                                                  *)
SpecCanSay(p, options) ==
  /\ ~Hyphened(ShownArch(p, DefArch))
  /\ Hyphened(p.version) => "NEW" \in options /\ ShownRelease(p, options) # NULL

AsSaid(p, options) ==
  [ NewPackage EXCEPT
      !.name = p.name, !.arch = ShownArch(p, DefArch), !.version = OrWild(p.version),
      !.release = ShownRelease(p, options), !.flags = p.flags,
      !.context = IF "NOCONTEXT" \in options THEN NULL ELSE R!Copied(p.context),
      !.prefix = IF "NOPREFIX" \in options THEN NULL ELSE p.prefix ]

RpmCanSay(p) == ToRpm(p, DefArch) # NULL /\ ~Hyphened(p.version) /\ WithoutEpoch(p.version) # << >>

OrDefArch(p) == IF p.arch = NULL THEN DefArch ELSE p.arch

AsRpm(p) ==
  [ NewPackage EXCEPT !.name = p.name, !.arch = OrDefArch(p),
                      !.version = WithoutEpoch(p.version), !.release = p.release ]

(* A package that is written is read back as what the text can say of it:  *)
(* from a spec of every style (lcfgpackage_to_spec, lcfgpackage_from_spec),*)
(* from the name of an RPM file and from an XML profile, there with the    *)
(* context and derivation of the profile added and with its architecture   *)
(* in front of the name or behind the release.  A package whose derivation *)
(* has a file with a colon in its name and no line is refused there.  What *)
(* a copy or flags that are added leave out would be a text that says less.*)
(* The comment of lcfgpackage_to_spec (a wildcard for a missing release,   *)
(* never an architecture in front) is not true of the new and of the       *)
(* compatible style.                                                       *)
SpecsReadBack(p) ==
  \A options \in Styles :
    SpecCanSay(p, options) => FromSpec(ToSpec(p, DefArch, options)) = R!Granted(AsSaid(p, options))

RpmReadBack(p) == RpmCanSay(p) => FromRpm(ToRpm(p, DefArch)) = R!Granted(AsRpm(p))

(* The nodes in which the architecture of a package can stand.             *)
XmlNodes(p) ==
  LET node == ToXml(p, DefArch)
      arch == ShownArch(p, DefArch)
  IN  {node} \cup
        (IF R!IsEmpty(arch) THEN {}
         ELSE { [ node EXCEPT !.name = other \o <<"/">> \o @ ] : other \in Texts["arch"] }
                \cup { [ node EXCEPT !.name = arch \o <<"/">> \o @, !.r = OrWild(p.release) ] })

Readable(p) == \A place \in p.derivation : ValidDerivation(place)

XmlReadBack(p) ==
  WellFormedXml(ToXml(p, DefArch)) =>
    \A node \in XmlNodes(p), context \in ExtraContexts, place \in Sources :
      LET read == FromXml(node, context, place)
      IN  IF Readable(p)
          THEN read =
                 R!Granted([ AsSaid(p, {}) EXCEPT
                   !.derivation = p.derivation \cup {place}, !.prefix = NULL,
                   !.context = IF R!IsEmpty(p.context) THEN context ELSE R!CombineExpressions(p.context, context) ])
          ELSE ~read.ok

CopyComplete(p) == Clone(p) = R!Granted([ p EXCEPT !.context = R!Copied(@) ])

(* Flags given twice can hide one that is added (lcfgpackage_add_flags).   *)
FlagsComplete(p) ==
  IsInjective(R!OrEmpty(p.flags)) =>
    \A flags \in ExtraFlags :
      LET merged == AddFlags(p, flags).res.flags
      IN  ToSet(merged) = ToSet(R!OrEmpty(p.flags)) \cup ToSet(flags) /\ IsInjective(merged)

TextsFaithful ==
  /\ TypeOK
  /\ \A i \in DOMAIN pkgs :
       /\ SpecsReadBack(pkgs[i])
       /\ RpmReadBack(pkgs[i])
       /\ XmlReadBack(pkgs[i])
       /\ CopyComplete(pkgs[i])
       /\ FlagsComplete(pkgs[i])
-----------------------------------------------------------------------------
(* The active packages, and those for other contexts.                      *)
Lists == << SelectSeq(pkgs, LAMBDA p : p.priority >= 0), SelectSeq(pkgs, LAMBDA p : p.priority < 0) >>

CfgCanSay == \A i \in DOMAIN pkgs : SpecCanSay(pkgs[i], {})

(* What is in the file, as the packages themselves say it.                 *)
Expected(list, meta) ==
  [ i \in DOMAIN list |->
      [ AsSaid(list[i], {"NOPREFIX", "NOCONTEXT"}) EXCEPT
          !.arch = OrDefArch(list[i]),
          !.context = IF meta THEN R!Copied(list[i].context) ELSE NULL,
          !.derivation = IF meta THEN list[i].derivation ELSE {} ] ]

(* The numbers of the lines with specs.                                    *)
SpecLines(lines) ==
  SetToSortSeq({ n \in DOMAIN lines :
                   lines[n] # << >> /\ Head(lines[n]) \notin {"#ifdef", "#endif", "#include", "#pragma LCFG"} },
               LAMBDA m, n : m < n)

(* A package without a derivation is given that of the nearest one before  *)
(* it that has one, the line it stands on if there is none.                *)
Inherited(list, file, lines) ==
  [ i \in DOMAIN list |->
      LET derived == { j \in 1..i : list[j].derivation # {} }
      IN  [ list[i] EXCEPT
              !.derivation = IF derived = {} THEN {Place(file, lines[i])} ELSE list[Max(derived)].derivation ] ]

InOrder(all) == FlattenSeq([ i \in 1..(IF all THEN 2 ELSE 1) |-> Sorted(Lists[i]) ])

(* The rpmcfg file loads as the packages it was written for, the active    *)
(* ones alone or all of them, each with its own context.  It has its own   *)
(* derivation if it has one; if it has none it takes that of a package     *)
(* before it, as the pragma for an empty derivation is passed over and the *)
(* last one stays.  One derivation that cannot be read ends the load.      *)
CfgLoadsBack ==
  \A all \in BOOLEAN :
    \E lines \in {RpmcfgLines(Lists, NULL)}, list \in {InOrder(all)},
       names \in {CHOOSE n \in FileNames : TRUE} :
      \E expected \in {Inherited(Expected(list, TRUE), names.file, SpecLines(lines))} :
        LET loaded == FromRpmcfg(lines, names, TRUE, all)
        IN  IF \A i \in DOMAIN list : Readable(list[i])
            THEN loaded = MergedAll(expected, all)
            ELSE ~loaded.ok

(* Without the metadata every package is given the line it stands on, and  *)
(* the file it stands in, unless that name is a beginning of the other     *)
(* one, which then stays: the included packages are given the file that    *)
(* includes them, or the packages behind the include the included file.    *)
InIncluded(names) == IF IsPrefix(names.included, names.file) THEN names.file ELSE names.included

BehindInclude(names) ==
  IF IsPrefix(names.file, InIncluded(names)) THEN InIncluded(names) ELSE names.file

Located(list, file, lines) ==
  [ i \in DOMAIN list |-> [ list[i] EXCEPT !.derivation = {Place(file, lines[i])} ] ]

Included ==
  LET lines == SpecLines(IncludedLines)
      Housed(p) == [ p EXCEPT !.arch = OrDefArch(p) ]
  IN  [ i \in DOMAIN lines |-> Housed(FromSpec(IncludedLines[lines[i]]).res) ]

FileLines(names) ==
  IF names.first THEN << Include(names.included) >> \o RpmcfgLines(Lists, NULL)
  ELSE RpmcfgLines(Lists, names.included)

PlacesRight ==
  \E listed \in {Expected(InOrder(TRUE), FALSE)} :
    \A names \in FileNames :
      \E lines \in {FileLines(names)} :
        LET own    == Located(listed, IF names.first THEN BehindInclude(names) ELSE names.file, SpecLines(lines))
            others == Located(Included, InIncluded(names), SpecLines(IncludedLines))
        IN  \E all \in {IF names.first THEN others \o own ELSE own \o others} :
              FromRpmcfg(lines, names, FALSE, TRUE) = MergedAll(all, TRUE)

(* A list of RPM files loads as the packages, or is not written.           *)
RpmlistLoadsBack ==
  LET Same(written, list) ==
        written.ok => FromRpmlist(written.res) = MergedAll([ i \in DOMAIN list |-> AsRpm(list[i]) ], TRUE)
  IN  (\A i \in DOMAIN pkgs : RpmCanSay(pkgs[i])) => Same(RpmlistLines(pkgs), Sorted(pkgs))

IndexCanSay(p) ==
  /\ R!IsEmpty(p.version) => R!IsEmpty(p.release)
  /\ Hyphened(p.version) => ~R!IsEmpty(p.release)

(* A file name that cannot be read as a derivation ends the load.          *)
IndexLoadsBack ==
  (\A i \in DOMAIN pkgs : IndexCanSay(pkgs[i])) =>
    IF \E i \in DOMAIN pkgs : ~Readable(pkgs[i])
    THEN ~FromIndex(IndexLines(pkgs)).ok
    ELSE FromIndex(IndexLines(pkgs)) =
      MergedAll([ i \in DOMAIN pkgs |->
                    [ NewPackage EXCEPT !.name = pkgs[i].name, !.arch = pkgs[i].arch, !.version = pkgs[i].version,
                                        !.release = pkgs[i].release, !.derivation = pkgs[i].derivation ] ], TRUE)

(* The files for updaterpms and an index load as the packages that were    *)
(* written, none with the context, version or line of its neighbour.  The  *)
(* derivation of a neighbour is what a package without one is given, and   *)
(* the file of another is what it is given when one name is a beginning of *)
(* the other: both are stated exactly, as is which derivations end a load  *)
(* (lcfgpackages_from_cpp, lcfgutils_parse_cpp_derivation,                 *)
(* lcfgpkglist_from_rpmlist, lcfgpackages_from_debian_index).              *)
FilesFaithful ==
  /\ CfgCanSay => CfgLoadsBack /\ PlacesRight
  /\ RpmlistLoadsBack
  /\ IndexLoadsBack
-----------------------------------------------------------------------------
(* The order of versions as Debian defines it: the text as numbers, a      *)
(* weight for each character that is no digit, an end, the number that     *)
(* follows, and so on, with zeros behind the last.                         *)
VersionKey(text) ==
  LET step(s, i) ==
        IF text[i] \in Digit
        THEN [ s EXCEPT !.number = 10 * @ + DigitValue[text[i]], !.counts = TRUE ]
        ELSE [ key |-> s.key \o (IF s.counts THEN <<0, s.number>> ELSE << >>) \o <<Order(text, i)>>,
               number |-> 0, counts |-> FALSE ]
      read == FoldLeft(step, [ key |-> << >>, number |-> 0, counts |-> FALSE ], [ i \in DOMAIN text |-> i ])
  IN  read.key \o <<0, read.number>>

TextKey(text) == IF Kind(text) = 2 THEN <<2>> \o VersionKey(text) ELSE <<Kind(text)>>

OrderKeys(p) ==
  << LowerCase(p.name), Codes(p.arch), <<Epoch(p.version).number>>,
     TextKey(Epoch(p.version).rest), TextKey(p.release) >>

KeyOrder(p, q) ==
  LET k == OrderKeys(p)
      l == OrderKeys(q)
  IN  FirstOther([ i \in DOMAIN k |-> FirstDifference(k[i], l[i]) ])

(* Packages are compared as their keys are, so that they are in one order  *)
(* whichever is asked about first (lcfgpackage_compare, debvercmp), and a  *)
(* file is the same in whichever order they come, unless two of them are   *)
(* equal in that order and yet different: these keep the order they had    *)
(* (lcfgpkglist_sort).                                                     *)
OrderSound ==
  /\ \A i, j \in DOMAIN pkgs : Compare(pkgs[i], pkgs[j]) = KeyOrder(pkgs[i], pkgs[j])
  /\ (\A i, j \in DOMAIN pkgs : Compare(pkgs[i], pkgs[j]) = 0 => pkgs[i] = pkgs[j]) =>
       RpmcfgLines(<< pkgs, << >> >>, NULL) = RpmcfgLines(<< Reverse(pkgs), << >> >>, NULL)
=============================================================================
