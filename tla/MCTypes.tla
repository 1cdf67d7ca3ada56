------------------------------ MODULE MCTypes ------------------------------
(***************************************************************************)
(* Instances of TypeCalls for TLC: texts of up to three tokens after a name *)
(* for int, and shorter ones for the others; an unsigned int of four bits; *)
(* numbers of two digits that are too large for an unsigned long.          *)
(***************************************************************************)
EXTENDS TypeCalls

CONSTANT dynamic

MCDigit == ("0" :> 0) @@ ("2" :> 2) @@ ("3" :> 3)
MCNumber == (<<"0">> :> 0) @@ (<<"2">> :> 2) @@ (<<"3">> :> 3) @@ (<<"4">> :> 4) @@ (<<"9">> :> 9)
            @@ (<<"02">> :> 2) @@ (<<"0.0">> :> 0)
MCBasics == (<<"int">> :> ((<<"2">> :> 2) @@ (<<"02">> :> 2) @@ (<<"0">> :> 0)))
            @@ (<<"double">> :> ((<<"2">> :> 2) @@ (<<"02">> :> 2) @@ (<<"0">> :> 0) @@ (<<"0.0">> :> 0)))
            @@ (<<"char">> :> ((<<"2">> :> "2") @@ (<<"A">> :> "A")))
MCStrings == {<<"string">>}
MCEigens == (<<"VectorXd">> :> <<dynamic, 1>>) @@ (<<"MatrixXd">> :> <<dynamic, dynamic>>)
            @@ (<<"Vector2d">> :> <<2, 1>>) @@ (<<"Matrix2d">> :> <<2, 2>>)
MCMatrices == {MCEigens[name] : name \in DOMAIN MCEigens} \cup {<<2, dynamic>>, <<dynamic, 3>>}
MCZeros == (<<"int">> :> <<"0">>) @@ (<<"double">> :> <<"0.0">>) @@ (<<"char">> :> <<"A">>)
MCZeroNumber == <<"0.0">>
MCZeroString == <<"whatever">>
MCSizeNumber == (2 :> <<"2">>) @@ (3 :> <<"3">>)

SuffixesOf(n) == UNION {[1..k -> {"[", "]", "0", "2", "x"}] : k \in 0..n}
FewSuffixes == {<< >>, <<"x">>, <<"[", "]">>, <<"[", "2", "]">>, <<"[", "0", "]">>, <<"[", "2", "2", "]">>,
                <<"[", "]", "x">>, <<"[", "x", "]">>, <<"[">>, <<"]", "[">>,
                <<"[", "2", "]", "[", "]">>, <<"[", "]", "[", "2", "]">>, <<"[", "]", "[", "x", "]">>,
                <<"[", "3", "]", "[", "2", "]">>, <<"[", "[", "2", "]", "]">>, <<"[", "2", "x", "]">>,
                <<"[", "2", "0", "]">>, <<"[", "0", "2", "]">>, <<"[", "]", "]", "[">>, <<"[", "2", "]", "]">>}
BriefSuffixes == {<< >>, <<"[", "]">>, <<"[", "2", "]">>, <<"[", "x", "]">>, <<"[", "]", "[", "]">>, <<"x">>}
MCTypes_ == {<<"int">> \o suffix : suffix \in SuffixesOf(3)}
            \cup {name \o suffix : name \in {<<"int">>, <<"string">>, <<"derived">>, <<"MatrixXd">>}, suffix \in FewSuffixes}
            \cup {name \o suffix : name \in {<<"double">>, <<"char">>, <<"Other">>, << >>} \cup DOMAIN MCEigens,
                                   suffix \in BriefSuffixes}
MCBases == {<<"Base">>}

Two == Scalar(<<"2">>)
Letter == Scalar(<<"A">>)
Derived(text) == Map("type" :> Scalar(text))
Sized_(r, c, values) == Seq_(<<Seq_(<<Scalar(<<r>>), Scalar(<<c>>)>>), Seq_(values)>>)
MCNodes ==
  {Null, Two, Scalar(<<"02">>), Letter, Seq_(<< >>), Seq_(<<Two, Two>>), Seq_(<<Scalar(<<"02">>), Two>>),
   Seq_(<<Two, Letter>>), Seq_(<<Letter, Two>>), Seq_(<<Null, Two>>), Seq_(<<Two, Two, Two>>), Seq_(<<Seq_(<< >>)>>),
   Seq_(<<Seq_(<<Two>>), Seq_(<<Two, Two>>)>>), Seq_(<<Seq_(<<Two, Two>>), Seq_(<<Two, Two>>)>>),
   Seq_(<<Scalar(<<"0">>), Two, Scalar(<<"3">>), Two>>),
   Sized_("2", "2", <<Scalar(<<"0">>), Two, Scalar(<<"3">>), Two>>), Sized_("2", "0", << >>),
   Sized_("4", "4", << >>), Sized_("3", "9", << >>),
   Map(("0" :> Two) @@ ("1" :> Two)), Map("1" :> Two),
   Map(("0" :> Scalar(<<"0">>)) @@ ("1" :> Two) @@ ("2" :> Two) @@ ("3" :> Two)),
   Seq_(<<Scalar(<<"0.0">>), Two>>), Derived(<<"int">>), Derived(<<"int", "[", "x", "]">>), Seq_(<<Derived(<<"int">>), Derived(<<"Other", "[">>)>>)}
MCOthers == {Two, Seq_(<<Scalar(<<"0">>), Two>>), Scalar(<<"02">>), Seq_(<<Scalar(<<"2">>), Scalar(<<"2">>)>>), Seq_(<<Null, Two>>), Seq_(<<Seq_(<<Two, Two>>), Seq_(<<Two, Two>>)>>),
             Seq_(<<Scalar(<<"0">>), Two, Scalar(<<"3">>), Two>>), Null}

=============================================================================
