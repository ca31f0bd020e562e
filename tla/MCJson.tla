------------------------------- MODULE MCJson -------------------------------
(* The values and arguments of the run json: all scalars, every array and  *)
(* object of up to two of them, and one of those within another one.       *)
EXTENDS Json2

Chars == <<"plain", "quote", "U+2028">>
Nests == Nested(<<"plain">>, Array(<<Number(1)>>))
Scalars == {Undefined, Null, Number(1), NaN, String(Chars), Dated(<<"plain">>), Faulty, Nests,
            Nested(<<"plain">>, Array(<<Nests, Number(1)>>)), Nested(<<"plain">>, Faulty)}
Few == {Undefined, Number(1), Nests, Faulty}

Keys2 == <<<<"a">>, <<"U+2028">>>>

Pairs == {<<>>} \cup {<<x>> : x \in Scalars} \cup {<<x, y>> : x \in Scalars, y \in Scalars}
Both(parts) == {Array(parts), Object([n \in DOMAIN parts |-> Member(Keys2[n], parts[n])])}
Flat == UNION {Both(parts) : parts \in Pairs}
Plain == UNION {Both(<<x>>) \cup Both(<<x, y>>) : x \in Few, y \in Few} \cup Both(<<>>)
Deep == UNION {Both(<<x, y>>) \cup Both(<<y, x>>) : x \in Plain, y \in Few}
MCValues == Scalars \cup Flat \cup Deep

MCReplacers == {NoReplacer, HideNumbers, BadReplacer, Select(<<Keys2[2]>>), Select(<<<<"b">>, Keys2[1]>>)}
=============================================================================
