--------------------------- MODULE MCDifferences ---------------------------
(***************************************************************************)
(* Values for the constants of Differences when TLC checks it.             *)
(***************************************************************************)
EXTENDS Differences

Comps == << <<"a">>, <<"b">> >>
Resources == << <<"a">>, <<"b">>, <<"c">> >>
ProdName == <<"c">>
TwoOrders == { Resources, << <<"b">>, <<"c">>, <<"a">> >> }

Res(type, value) == [ type |-> type, value |-> value ]

(* Unset, empty and encoded texts; numbers that are the same under two     *)
(* spellings or as no text; a boolean that is unset; one with a second     *)
(* resource for another context.                                           *)
OfA == { <<Res("string", NULL)>>, <<Res("string", << >>)>>, <<Res("string", <<"LF", "&">>)>>,
         <<Res("integer", <<"7">>), Res("integer", <<"0">>)>> }
OfB == { <<Res("integer", <<"7">>)>>, <<Res("integer", <<"0", "7">>)>>, <<Res("boolean", NULL)>> }
OfProd == { <<Res("string", <<"7">>)>>, <<Res("string", << >>)>> }

Or(values) == { [ n \in {} |-> NULL ] } \union values
With(name, lists) == { name :> list : list \in lists }
ComponentsA == { a @@ b @@ c : a \in Or(With(<<"a">>, OfA)), b \in Or(With(<<"b">>, OfB)),
                               c \in Or(With(<<"c">>, OfProd)) }
ComponentsB == { [ n \in {} |-> NULL ], <<"a">> :> << Res("string", <<"a">>) >> }
SomeProfiles == { p @@ q : p \in Or(With(<<"a">>, ComponentsA)), q \in Or(With(<<"b">>, ComponentsB)) }
=============================================================================
