---------------------------- MODULE MCTokenTable ----------------------------
\* Six texts, one the beginning of another, one a scope; names of one to four
\* levels with three levels compared, so that the last level of one is ignored.
EXTENDS TokenTable

MCText == {"a", "ab", "b", "@g", "+", "#"}
MCPrefix == {<<t, t>> : t \in MCText} \cup {<<"a", "ab">>}
MCNames == { <<"a", "b">>, <<"ab", "b", "a">>, <<"a", "+", "b">>,
             <<"a", "b", "b">>, <<"a", "#">>, <<"@g", "b">>, <<"b", "a", "ab", "b">>,
             <<"+", "b">> }
=============================================================================
