----------------------------- MODULE MCResource -----------------------------
(* Two resources of one component.                                         *)
EXTENDS Resource

MCNames == { <<"a">>, <<"b">> }

MCNameRank == [ name \in MCNames |-> IF name = <<"a">> THEN 1 ELSE 2 ]

MCCompName == <<"c">>

MCValueTexts ==
  { << >>, <<"yes">>, <<"no">>, <<"0", "7">>, <<"-", "7">>, <<"a", " ", "a", "b">>,
    <<"&", "#xA;">>, <<"LF", "'">> }

MCTypeTexts ==
  { <<"%", "integer">>, <<"list", ": ", "a", "_", "$", " ", "b", "_", "$">>,
    <<"list", "(", "a", ")", ": ", "b">>, <<"a">> }

MCTemplateTexts == { << >>, <<"b", "_", "$">>, <<"b", "_", "$", " ", "b">> }

MCCommentTexts == { <<"a", ": ", "b">>, <<"a", ")">>, <<"a", "LF">> }

MCContextTexts == { <<"a", "=", "b">>, <<"&">> }

MCSpecRests == { <<"=", "a", "&", "amp;">>, <<".", "=">>, << >> }

MCTagTexts == { <<"a">>, <<"a", "b">> }
=============================================================================
