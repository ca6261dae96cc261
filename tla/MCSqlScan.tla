------------------------------ MODULE MCSqlScan ------------------------------
(* Every statement of up to four fragments: each way a literal begins and   *)
(* ends, references, casts and placeholders.                                *)
EXTENDS SqlScan

MCCharacter == IDENTIFIER_PART \cup {"'", "q", "$", ":", "-", "/", "*", "\\", "n"}

MCNumeral ==
    <<<<"1">>, <<"2">>, <<"3">>, <<"4">>, <<"5">>, <<"6">>, <<"7">>, <<"8">>, <<"9">>,
      <<"1", "0">>, <<"1", "1">>, <<"1", "2">>>>

Fragments ==
    {<<"-", "-">>, <<"n">>, <<"/", "*">>, <<"*", "/">>, <<"'">>, <<"E", "'">>, <<"\\">>,
     <<"q">>, <<"$", "$">>, <<"$", "a", "$">>, <<":", "a">>, <<":", ":">>, <<":">>, <<"a">>, <<"$", "1">>, <<"*">>}

(* And the fragments for which it takes five to nest them.                  *)
Nesting == {<<"/", "*">>, <<"*", "/">>, <<"'">>, <<"E", "'">>, <<"\\">>, <<"$", "$">>, <<":", "a">>, <<"$", "1">>}

MCStatements ==
    {FlattenSeq(f) : f \in UNION ({[1 .. n -> Fragments] : n \in 0 .. 4} \cup {[1 .. 5 -> Nesting]})}
=============================================================================
