----------------------------- MODULE PackageText -----------------------------
(***************************************************************************)
(* What a package (packages/package.c) holds, how it is written and read:  *)
(* specs in their three styles, names of RPM files (packages/rpm.c), nodes *)
(* of an XML profile (xml/packages.c), blocks for cpp; and how packages    *)
(* are compared.                                                           *)
(*                                                                         *)
(* A text is a sequence of pieces as in ResourceText: a character the code *)
(* looks for, or a word it never looks into.                               *)
(***************************************************************************)
EXTENDS Integers, Sequences, FiniteSets, SequencesExt, TLC

CONSTANT NULL

R == INSTANCE ResourceText

(* The ASCII code of a piece, of its first character if it is a word.      *)
Ascii ==
  [ p \in {"0", "1", "7", "a", "b", "B", "i386", "noarch", "_", "-", ".", "+", "~", ":", "*", "?"} |->
      CASE p = "*" -> 42 [] p = "+" -> 43 [] p = "-" -> 45 [] p = "." -> 46
        [] p = "0" -> 48 [] p = "1" -> 49 [] p = "7" -> 55 [] p = ":" -> 58
        [] p = "?" -> 63 [] p = "B" -> 66 [] p = "_" -> 95 [] p = "a" -> 97
        [] p = "b" -> 98 [] p = "i386" -> 105 [] p = "noarch" -> 110
        [] p = "~" -> 126 ]

Alpha == {"a", "b", "B", "i386", "noarch"}

Digit == {"0", "1", "7"}

Word == Alpha \cup Digit \cup {"_"}

PrefixMarks == {"+", "-", "?", "!", "~", ">"}

NewPackage ==
  [ name |-> NULL, arch |-> NULL, version |-> NULL, release |-> NULL, flags |-> NULL,
    context |-> NULL, category |-> NULL, derivation |-> {}, prefix |-> NULL, priority |-> 0 ]
-----------------------------------------------------------------------------
(* The parts and their setters, which answer whether they succeeded.       *)

Permitted ==
  [ name    |-> Word \cup {"-", ".", "+"},
    arch    |-> Word \cup {"-"},
    version |-> Word \cup {".", "~", "+", "-", ":", "*", "?"},
    release |-> Word \cup {".", "~", "+", "*", "?"},
    flags   |-> Alpha \cup Digit ]

Valid(part, text) ==
  /\ ~R!IsEmpty(text)
  /\ CASE part = "context" -> R!ValidContext(text)
       [] part = "category" -> ToSet(text) \cap R!Blanks = {}
       [] OTHER -> ToSet(text) \subseteq Permitted[part]
  /\ part = "name" => Head(text) \in Alpha \cup Digit

SetPart(pkg, part, text) ==
  IF Valid(part, text) THEN R!Granted([ pkg EXCEPT ![part] = text ]) ELSE R!Refused(pkg)

SetPrefix(pkg, prefix) ==
  IF prefix \in PrefixMarks THEN R!Granted([ pkg EXCEPT !.prefix = prefix ]) ELSE R!Refused(pkg)

(* lcfgpackage_add_flags: one of each, sorted.  Flags are as many as there *)
(* were if nothing is new (or if some were there twice).                   *)
AddFlags(pkg, extra) ==
  LET flags == ToSet(R!OrEmpty(pkg.flags)) \cup ToSet(extra)
  IN  CASE extra = << >> -> R!Granted(pkg)
        [] extra # << >> /\ ~Valid("flags", extra) -> R!Refused(pkg)
        [] Cardinality(flags) = Len(R!OrEmpty(pkg.flags)) -> R!Granted(pkg)
        [] OTHER -> SetPart(pkg, "flags", SetToSortSeq(flags, LAMBDA p, q : Ascii[p] < Ascii[q]))

(* lcfgpackage_clone: every part that is not empty goes through its setter.*)
Clone(pkg) ==
  FoldLeft(LAMBDA outcome, part :
             IF R!IsEmpty(pkg[part])
             THEN outcome
             ELSE R!Then(outcome, LAMBDA p : SetPart(p, part, pkg[part])),
           R!Granted([ NewPackage EXCEPT !.derivation = pkg.derivation, !.prefix = pkg.prefix, !.priority = pkg.priority ]),
           << "name", "arch", "version", "release", "flags", "context", "category" >>)

(* A derivation as it is read: in each word a file, and behind the last    *)
(* colon, if there is one, numbers with commas between them                *)
(* (lcfgderivlist_from_string, lcfgderivation_from_string).  Numbers for   *)
(* one file come in one word here, and as the code writes them.            *)
LineNumbers(text) ==
  \A i \in DOMAIN text :
    \/ text[i] \in Digit \cup {","}
    \/ text[i] \in {"+", "-"} /\ i < Len(text) /\ text[i + 1] \in Digit

ValidDerivation(text) ==
  LET words == R!Words(text)
      Colon(i) == R!LastOf(words[i], ":")
  IN  /\ words # << >>
      /\ \A i \in DOMAIN words :
           Colon(i) # 1 /\ (Colon(i) > 1 => LineNumbers(R!From(words[i], Colon(i) + 1)))

SetDerivation(pkg, text) ==
  IF ValidDerivation(text)
  THEN R!Granted([ pkg EXCEPT !.derivation = ToSet(R!Words(text)) ])
  ELSE R!Refused(pkg)

(* lcfgpackage_add_derivation_string: a text that cannot be read adds      *)
(* nothing, and that is no error.                                          *)
AddDerivation(pkg, text) ==
  R!Granted(IF ValidDerivation(text)
            THEN [ pkg EXCEPT !.derivation = @ \cup ToSet(R!Words(text)) ]
            ELSE pkg)

(* lcfgpackage_add_derivation_file_line, with a file that is not there yet.*)
AddFileLine(pkg, place) == [ pkg EXCEPT !.derivation = @ \cup {place} ]

IsValid(pkg) == ~R!IsEmpty(pkg.name)

OrWild(text) == IF R!IsEmpty(text) THEN <<"*">> ELSE text

Given(text) == IF text = << >> THEN NULL ELSE text

HasEpoch(pkg) == R!FirstOf(R!OrEmpty(pkg.version), ":") > 0

(* The architecture is left out if it is the default one.                  *)
ShownArch(pkg, defarch) == IF pkg.arch = defarch THEN NULL ELSE pkg.arch
-----------------------------------------------------------------------------
(* Specs: lcfgpackage_to_spec and lcfgpackage_from_spec.                   *)

(* Variant: the new style leaves an empty release out of any version.      *)
ReleaseUnlessNew(pkg, options) ==
  IF R!IsEmpty(pkg.release) /\ "NEW" \notin options THEN <<"*">> ELSE pkg.release

(* A release is written if there is one, before the style that can do      *)
(* without, and to keep an epoch apart from flags.                         *)
ShownRelease(pkg, options) ==
  IF R!IsEmpty(pkg.release) /\ (HasEpoch(pkg) \/ "NEW" \notin options) THEN <<"*">> ELSE pkg.release

Marked(mark, text) == IF R!IsEmpty(text) THEN << >> ELSE <<mark>> \o text

ToSpec(pkg, defarch, options) ==
  LET arch  == R!OrEmpty(ShownArch(pkg, defarch))
      first == "COMPAT" \in options /\ "NEW" \notin options /\ arch # << >> /\ arch # <<"noarch">>
  IN  (IF pkg.prefix = NULL \/ "NOPREFIX" \in options THEN << >> ELSE <<pkg.prefix>>)
        \o (IF first THEN arch \o <<"/">> ELSE << >>)
        \o pkg.name \o Marked(IF "NEW" \in options THEN "=" ELSE "-", OrWild(pkg.version))
        \o Marked("-", ShownRelease(pkg, options))
        \o (IF first THEN << >> ELSE Marked("/", arch))
        \o Marked(":", pkg.flags)
        \o (IF "NOCONTEXT" \in options THEN << >>
            ELSE Marked("[", pkg.context) \o (IF R!IsEmpty(pkg.context) THEN << >> ELSE <<"]">>))

TrimmedRight(text) == SubSeq(text, 1, SelectLastInSeq(text, LAMBDA p : p \notin R!Blanks))

Trimmed(text) == TrimmedRight(R!Skipped(text, R!Blanks))

(* walk_forwards_until: the field before the separator, unless one of the  *)
(* stops comes first.                                                      *)
WalkForward(text, separator, stops) ==
  LET start == R!Skipped(text, R!Blanks)
      end   == SelectInSeq(start, LAMBDA p : p \in stops \cup {separator})
  IN  IF end > 0 /\ start[end] = separator
      THEN [ found |-> TRUE, field |-> Given(TrimmedRight(R!Before(start, end))), rest |-> R!From(start, end + 1) ]
      ELSE [ found |-> FALSE, field |-> NULL, rest |-> text ]

(* walk_backwards_until: the field behind the separator.                   *)
WalkBack(text, separator, stops) ==
  LET whole == TrimmedRight(text)
      at    == SelectLastInSeq(whole, LAMBDA p : p \in stops \cup {separator})
  IN  IF at > 0 /\ whole[at] = separator
      THEN [ found |-> TRUE, field |-> Given(R!Skipped(R!From(whole, at + 1), R!Blanks)), rest |-> R!Before(whole, at) ]
      ELSE [ found |-> FALSE, field |-> NULL, rest |-> text ]

FlagStops == {"/", "-", "=", ".", "~", "_", "+", "*", "?"}

(* Context, flags, architecture and release are taken off the end one by   *)
(* one; an architecture at the start counts more than one at the end.      *)
ContextOf(text) ==
  LET inside == WalkBack(Front(text), "[", {})
  IN  IF text # << >> /\ Last(text) = "]" /\ inside.found
      THEN inside
      ELSE [ found |-> FALSE, field |-> NULL, rest |-> text ]

(* What follows = is a version, up to the last hyphen, and a release.      *)
VersionAndRelease(text) ==
  LET at == R!LastOf(text, "-")
  IN  [ version |-> Given(IF at = 0 THEN text ELSE R!Before(text, at)),
        release |-> IF at = 0 THEN NULL ELSE Given(R!From(text, at + 1)) ]

TakeOff(s, walk, part) ==
  [ s EXCEPT !.rest = walk.rest, ![part] = IF @ = NULL THEN walk.field ELSE @ ]

Cut(s, part, separator, stops) == TakeOff(s, WalkBack(s.rest, separator, stops), part)

Fields(text, arch) ==
  Cut(Cut(Cut(TakeOff([ rest |-> text, arch |-> arch, context |-> NULL, flags |-> NULL,
                        version |-> NULL, release |-> NULL ], ContextOf(text), "context"),
              "flags", ":", FlagStops),
          "arch", "/", {"-", "="}),
      "version", "=", {})

(* The older style has its hyphens in place of =.                          *)
SpecParts(arch1) ==
  LET Modern(s) == VersionAndRelease(s.version) @@ [ complete |-> TRUE, name |-> s.rest ] @@ s
      Older(s)  == [ complete |-> s.version # NULL /\ s.release # NULL, name |-> s.rest ] @@ s
      Both(s)   == IF s.version # NULL
                   THEN Modern(s)
                   ELSE Older(Cut(Cut(s, "release", "-", {}), "version", "-", {}))
  IN  Both(Fields(TrimmedRight(arch1.rest), arch1.field))

FromParts(parts, prefix) ==
  IF /\ prefix \in PrefixMarks \cup {NULL}
     /\ parts.complete
     /\ Valid("name", parts.name)
     /\ \A part \in {"arch", "version", "release", "flags", "context"} :
          parts[part] # NULL => Valid(part, parts[part])
  THEN R!Granted([ part \in DOMAIN NewPackage |->
         CASE part = "prefix" -> prefix
           [] part \in DOMAIN parts -> parts[part]
           [] OTHER -> NewPackage[part] ])
  ELSE R!Refused(NewPackage)

Parsed(text, prefix) == FromParts(SpecParts(WalkForward(text, "/", {"-", "="})), prefix)

(* A first character that is no letter or digit is a prefix.               *)
FromSpec(line) ==
  LET With(spec, prefix) == Parsed(IF prefix = NULL THEN spec ELSE Tail(spec), prefix)
      Split(spec) ==
        IF spec = << >>
        THEN R!Refused(NewPackage)
        ELSE With(spec, IF Head(spec) \in Word THEN NULL ELSE Head(spec))
  IN  Split(R!Skipped(line, R!Blanks))
-----------------------------------------------------------------------------
(* The names of RPM files: lcfgpackage_to_rpm_filename (NULL if a part is  *)
(* missing) and lcfgpackage_from_rpm_filename.  An epoch is not written.   *)

WithoutEpoch(version) == R!From(version, R!FirstOf(version, ":") + 1)

ToRpm(pkg, defarch) ==
  IF R!IsEmpty(pkg.version) \/ R!IsEmpty(pkg.release)
  THEN NULL
  ELSE pkg.name \o <<"-">> \o WithoutEpoch(pkg.version) \o <<"-">> \o pkg.release
         \o <<".">> \o (IF pkg.arch = NULL THEN defarch ELSE pkg.arch) \o <<".rpm">>

(* The last separator that has something behind it, and in front.          *)
SplitLast(text, separator) ==
  LET at == IF text = << >> THEN 0 ELSE R!LastOf(Front(text), separator)
  IN  [ found |-> at > 0, before |-> R!Before(text, at), after |-> R!From(text, at + 1) ]

FromRpm(text) ==
  LET SplitOff(s, part, split) ==
        [ s EXCEPT !.complete = @ /\ split.found, !.name = split.before, ![part] = split.after ]
      Parts(filename) ==
        [ NewPackage EXCEPT !.name = R!Before(filename, Len(filename)) ]
          @@ [ complete |-> Len(filename) > 1 /\ Last(filename) = ".rpm" ]
      WithArch(s)    == SplitOff(s, "arch", SplitLast(s.name, "."))
      WithRelease(s) == SplitOff(s, "release", SplitLast(s.name, "-"))
      WithVersion(s) == SplitOff(s, "version", SplitLast(s.name, "-"))
  IN  FromParts(WithVersion(WithRelease(WithArch(Parts(R!From(text, R!LastOf(text, "/") + 1))))), NULL)
-----------------------------------------------------------------------------
(* Nodes of an XML profile: lcfgpackage_to_xml, lcfgxml_process_package.   *)

ToXml(pkg, defarch) ==
  [ name |-> pkg.name, v |-> OrWild(pkg.version),
    r |-> OrWild(pkg.release) \o Marked("/", ShownArch(pkg, defarch)),
    options |-> pkg.flags, context |-> pkg.context,
    derivation |-> R!DerivationText(pkg.derivation) ]

(* External (libxml): a context that was combined holds a bare &, and the  *)
(* document is refused.                                                    *)
WellFormedXml(node) == R!FirstOf(R!OrEmpty(node.context), " & ") = 0

SetGiven(pkg, part, text) == IF R!IsEmpty(text) THEN R!Granted(pkg) ELSE SetPart(pkg, part, text)

(* The derivation comes first, then the name, which may have an            *)
(* architecture in front of it, and an architecture behind the release,    *)
(* which counts more.                                                      *)
FromXml(node, baseContext, baseDerivation) ==
  LET slash == R!LastOf(node.r, "/")
      front == R!LastOf(node.name, "/")
      Derived == IF R!IsEmpty(node.derivation) THEN R!Granted(NewPackage) ELSE SetDerivation(NewPackage, node.derivation)
      Name(p) == IF front = 0
                 THEN SetPart(p, "name", node.name)
                 ELSE R!Then(SetPart(p, "name", R!From(node.name, front + 1)),
                             LAMBDA q : SetPart(q, "arch", R!Before(node.name, front)))
      Release(p) == R!Then(SetGiven(p, "arch", IF slash = 0 THEN << >> ELSE R!From(node.r, slash + 1)),
                           LAMBDA q : SetPart(q, "release", IF slash = 0 THEN node.r ELSE R!Before(node.r, slash)))
      Body(p)  == R!Then(R!Then(R!Then(Name(p), LAMBDA q : SetPart(q, "version", node.v)),
                                Release),
                         LAMBDA q : SetGiven(q, "flags", node.options))
      Around(p) == R!Then(R!Then(SetGiven(p, "context", node.context),
                                 LAMBDA q : R!AddContext(q, baseContext)),
                          LAMBDA q : AddDerivation(q, baseDerivation))
  IN  IF WellFormedXml(node)
      THEN R!Then(R!Then(Derived, Around), Body)
      ELSE R!Refused(NewPackage)
-----------------------------------------------------------------------------
(* Blocks for cpp: lcfgpackage_build_pragma, _parse_pragma and _to_cpp.    *)

Pragma(key, text) == <<"#pragma LCFG", " ", key, " ", "dq">> \o text \o <<"dq">>

(* What follows #pragma LCFG: a key and a value between quotes.            *)
ParsePragma(line) ==
  LET Between(key, value, end) ==
        IF /\ key \in {"category", "context", "derive"}
           /\ value # << >> /\ Head(value) = "dq" /\ end > 1
        THEN [ key |-> key, value |-> SubSeq(value, 2, end - 1) ]
        ELSE NULL
      Value(key, value) == Between(key, value, R!LastOf(value, "dq"))
      KeyAndValue(rest) ==
        IF rest = << >> THEN NULL ELSE Value(Head(rest), R!Skipped(Tail(rest), R!Blanks))
  IN  KeyAndValue(R!Skipped(Tail(line), R!Blanks))

CppLines(pkg, defarch) ==
  << <<"#ifdef", " ", "INCLUDE_META">>, Pragma("derive", R!DerivationText(pkg.derivation)) >>
    \o (IF R!IsEmpty(pkg.context) THEN << >> ELSE << Pragma("context", pkg.context) >>)
    \o << <<"#endif">>, ToSpec(pkg, defarch, {"NOCONTEXT", "NOPREFIX"}) >>
-----------------------------------------------------------------------------
(* Comparisons.  They answer -1, 0 or 1.                                   *)

Sign(n) == CASE n < 0 -> -1 [] n = 0 -> 0 [] n > 0 -> 1

(* The first that is not 0, of comparisons in the order they count.        *)
FirstOther(signs) ==
  LET at == SelectInSeq(signs, LAMBDA n : n # 0) IN IF at = 0 THEN 0 ELSE signs[at]

(* The sign of the first difference of two sequences of numbers, which end *)
(* in zeros.                                                               *)
FirstDifference(s, t) ==
  LET At(u, i) == IF i \in DOMAIN u THEN u[i] ELSE 0
      differs  == { i \in DOMAIN s \cup DOMAIN t : At(s, i) # At(t, i) }
  IN  IF differs = {} THEN 0 ELSE Sign(At(s, Min(differs)) - At(t, Min(differs)))

Codes(text) == [ i \in DOMAIN R!OrEmpty(text) |-> Ascii[text[i]] ]

LowerCase(text) == [ i \in DOMAIN R!OrEmpty(text) |-> IF text[i] = "B" THEN Ascii["b"] ELSE Ascii[text[i]] ]

CompareNames(p, q) == FirstDifference(LowerCase(p.name), LowerCase(q.name))

CompareArchs(p, q) == FirstDifference(Codes(p.arch), Codes(q.arch))

(* The weight of a character: letters sort before the other characters,    *)
(* and a tilde before the end of the text, which weighs nothing.           *)
Order(text, i) ==
  CASE i \notin DOMAIN text -> 0
    [] i \in DOMAIN text /\ text[i] \in Digit -> 0
    [] i \in DOMAIN text /\ text[i] \in Alpha -> Ascii[text[i]]
    [] i \in DOMAIN text /\ text[i] = "~" -> -1
    [] OTHER -> Ascii[text[i]] + 256

Leading(text, pieces) == SelectInSeq(Append(text, NULL), LAMBDA p : p \notin pieces) - 1

NonDigits == DOMAIN Ascii \ Digit

(* Variant: the zeros in front count.                                      *)
WithZeros(text) == text

WithoutZeros(text) == R!Skipped(text, {"0"})

(* One round of debvercmp: what is no digit piece by piece, the numbers    *)
(* without the zeros in front by their length and first different digit.   *)
Numbers(x, y, k, l) ==
  [ a |-> R!From(x, k + 1), b |-> R!From(y, l + 1),
    sign |-> FirstOther(<< Sign(k - l), FirstDifference(Codes(SubSeq(x, 1, k)), Codes(SubSeq(y, 1, l))) >>) ]

Digits(x, y) == Numbers(x, y, Leading(x, Digit), Leading(y, Digit))

Weights(text, n) == [ i \in 1..n |-> Order(text, i) ]

Round(s, n) ==
  CASE s.sign # 0 -> s
    [] s.sign = 0 /\ Weights(s.a, n) # Weights(s.b, n) ->
         [ s EXCEPT !.sign = FirstDifference(Weights(s.a, n), Weights(s.b, n)) ]
    [] OTHER -> Digits(WithoutZeros(R!From(s.a, n + 1)), WithoutZeros(R!From(s.b, n + 1)))

(* Each round takes off a piece at least, or both texts are at their end.  *)
DebVerCmp(a, b) ==
  FoldLeft(LAMBDA s, p : Round(s, Max({Leading(s.a, NonDigits), Leading(s.b, NonDigits)})),
           [ a |-> a, b |-> b, sign |-> 0 ], a \o b).sign

(* Nothing is less than a wildcard, a wildcard less than a version.        *)
Kind(text) == CASE R!IsEmpty(text) -> 0 [] text = <<"*">> -> 1 [] OTHER -> 2

CompareTexts(v, w) ==
  CASE Kind(v) # Kind(w) -> Sign(Kind(v) - Kind(w))
    [] Kind(v) = Kind(w) /\ Kind(v) = 2 -> DebVerCmp(v, w)
    [] OTHER -> 0

DigitValue == [ d \in Digit |-> Ascii[d] - Ascii["0"] ]

Value(text) == FoldLeft(LAMBDA n, d : 10 * n + DigitValue[d], 0, text)

(* Stands for 2^64, which is more than any epoch that is read here.        *)
ULong == 2^30

(* extract_epoch: the number before a colon, as strtoul reads it, which    *)
(* takes a sign and wraps a negative number around.                        *)
Epoch(version) ==
  LET text   == R!OrEmpty(version)
      signed == IF text # << >> /\ Head(text) \in {"+", "-"} THEN 1 ELSE 0
      n      == Leading(R!From(text, signed + 1), Digit)
      number == Value(SubSeq(text, signed + 1, signed + n))
  IN  IF n > 0 /\ signed + n < Len(text) /\ text[signed + n + 1] = ":"
      THEN [ number |-> IF signed = 1 /\ Head(text) = "-" THEN (ULong - number) % ULong ELSE number,
             rest |-> R!From(text, signed + n + 2) ]
      ELSE [ number |-> 0, rest |-> version ]

CompareVersions(p, q) ==
  LET With(e, f) ==
        FirstOther(<< Sign(e.number - f.number) >>
                     \o [ i \in 1..2 |-> CompareTexts(<<e.rest, p.release>>[i], <<f.rest, q.release>>[i]) ])
  IN  With(Epoch(p.version), Epoch(q.version))

Compare(p, q) == FirstOther(<< CompareNames(p, q), CompareArchs(p, q), CompareVersions(p, q) >>)

Equals(p, q) ==
  /\ Compare(p, q) = 0
  /\ R!OrEmpty(p.flags) = R!OrEmpty(q.flags)
  /\ R!OrEmpty(p.context) = R!OrEmpty(q.context)

(* lcfgpkglist_sort: a bubble sort, which keeps equal packages in order.   *)
Sorted(list) ==
  LET Behind(i, j) == LET sign == Compare(list[j], list[i]) IN sign < 0 \/ (sign = 0 /\ j < i)
      rank(i) == 1 + Cardinality({ j \in DOMAIN list \ {i} : Behind(i, j) })
  IN  [ k \in DOMAIN list |-> list[CHOOSE i \in DOMAIN list : rank(i) = k] ]
=============================================================================
