--------------------------- MODULE MCPackageFiles ---------------------------
(* Packages with versions that are spelled or ordered in unusual ways.     *)
EXTENDS PackageFiles

MCDefArch == <<"i386">>

MCSpecs ==
  { <<" ", "+", "a", "=", "7", ":", "0", "1", "-", "*", "/", "noarch", ":", "b", "[", "a", "=", "b", " ", "]">>,
    <<"B", "=", "1", "~">>,
    <<"noarch", "/", "b", "-", "a", "-", "1", ".", "0", "-", "_", "/", "i386", " ">> }

MCTexts ==
  [ name |-> { <<"B", "+">>, <<"-">> },
    arch |-> { <<"i386", "-", "b">> },
    version |-> { <<"7", ":">>, <<"1", "-", "b">>, <<"~", "1">> },
    release |-> { <<"0", "1">>, <<"1">> },
    flags |-> { <<"b", "b">> },
    context |-> { <<"c">>, <<"&">> },
    category |-> { <<"a">>, <<"a", " ">> } ]

MCExtraFlags == { <<"b", "7">> }

MCExtraContexts == { <<"a", "=", "b">> }

MCSources == { <<"a", ":", "7">> }

MCFilesAdded == { <<"a", ":", "b">> }

MCFileNames ==
  { [ file |-> <<"a">>, included |-> <<"b">>, first |-> FALSE ],
    [ file |-> <<"a">>, included |-> <<"a", "b">>, first |-> TRUE ],
    [ file |-> <<"a", "b">>, included |-> <<"a">>, first |-> FALSE ] }

MCIncludedLines == << << >>, <<"a", "+", "a", "-", "1", "-", "1", "/", "noarch">> >>
=============================================================================
