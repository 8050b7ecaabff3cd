------------------------------ MODULE MCLanguage -----------------------------
(***************************************************************************)
(* Files of up to a few fragments behind "a =", with every kind of bracket *)
(* and of opening; strings cut off anywhere; and a file whose expressions  *)
(* are built from atoms and one operator each.                             *)
(***************************************************************************)
EXTENDS Language

MCDigits == {"0", "1"}
MCLetters == {"a", "u", "E", "l", "local", "locals", "var", "variable", "default", "resource",
              "lifecycle", "prevent_destroy", "true", "null", "for", "in", "if"}

MCNumberOf(digits) == FoldLeft(LAMBDA n, d : 10 * n + (IF d = "1" THEN 1 ELSE 0), 0, digits)

Fragments == {<<Quote>>, <<"$", "{">>, <<"%", "{">>, <<"}">>, <<"{">>, <<"(">>, <<")">>,
              <<"[">>, <<Line>>, <<"u">>, <<"1">>, <<",">>, <<"=">>, <<"?">>, <<"!">>,
              <<".">>, <<"*">>, <<"#">>, <<"<", "<", "E", Line>>}

Strings == {<<Quote>>, <<"$", "{">>, <<"%", "{">>, <<"}">>, <<Line>>, <<"u">>, <<"$", "$", "{">>,
            <<"<", "<", "-", "E", Line>>, <<Blank, "E">>, <<Back, "n">>, <<Back, "u", "1">>,
            <<Back, "U", "FFFFFFFF">>}

Sentences(S, n) == {FlattenSeq(s) : s \in UNION {[1 .. k -> S] : k \in 0 .. n}}

Argument1 == <<"a", Blank, "=", Blank>>

Atoms == {<<"1">>, <<Quote, "a", Quote>>, <<"true">>, <<"null">>, <<"u">>, <<"local", ".", "l">>,
          <<Quote, "%", "{", "u", "}", "a", Quote>>}

Expressions ==
    Atoms
    \cup {<<op>> \o x : op \in {"!", "-"}, x \in Atoms}
    \cup {x \o op \o y : x \in Atoms, y \in Atoms,
                         op \in {<<"=", "=">>, <<"+">>, <<"&", "&">>, <<"<">>}}
    \cup {x \o <<"?">> \o y \o <<":", "1">> : x \in Atoms, y \in Atoms}
    \cup {<<"[", "1", ",">> \o x \o <<"]">> \o y : x \in Atoms, y \in {<<"[", "1", "]">>, <<".", "0">>, <<>>}}
    \cup {<<"{", "a", "=">> \o x \o <<"}">> \o y : x \in Atoms, y \in {<<".", "a">>, <<".", "u">>, <<>>}}
    \cup {<<"{", "(">> \o x \o <<")", "=", "1", "}">> : x \in Atoms}
    \cup {<<Quote>> \o p \o <<"$", "{">> \o x \o <<"}", Quote>> : p \in {<<>>, <<"a">>}, x \in Atoms}
    \cup {<<"a", "(">> \o x \o <<")">> : x \in Atoms}
    \cup {<<"[", "for", Blank, "a", Blank, "in", Blank>> \o x \o <<":", "a", "]">> : x \in Atoms}

InBlock(type, body) == type \o <<"{", Line>> \o body \o <<Line, "}", Line>>

Files == {InBlock(<<"locals">>, <<"l", "=">> \o l)
             \o InBlock(<<"resource", Quote, "a", Quote, "u">>, <<"a", "=">> \o e) :
             l \in {<<"1">>, <<"true">>, <<"u">>}, e \in Expressions}
         \cup {InBlock(<<"variable", Quote, "l", Quote>>, <<"default", "=">> \o x)
                \o InBlock(<<"resource", Quote, "a", Quote, "u">>,
                           <<"a", "=", "var", ".", "l", Line>>
                               \o InBlock(<<"lifecycle">>, <<"prevent_destroy", "=", "var", ".", "l">>)) :
                 x \in Atoms}

MCTexts == {Argument1 \o s : s \in Sentences(Fragments, 3) \cup Sentences(Strings, 3)} \cup Files

MCOutcomes == {BoolVal(TRUE), BoolVal(FALSE), NumberVal(0), StringVal(<<"a">>), NullVal,
               TupleVal(<<NumberVal(0)>>)}
=============================================================================
