----------------------------- MODULE MCMQBroker -----------------------------
EXTENDS MQBroker, TLC

MCText == {"a", "b", "+", "#"}
MCPrefix == {<<s, s>> : s \in MCText}

Anything == [s \in Subs |-> Names]
Nothing == [s \in Subs |-> {}]

Permuted == Permutations(Threads) \cup Permutations(Subs)

(* A filter with a wildcard and a name that it means.                      *)
MCNames == {<<"a", "b">>, <<"a", "+">>}

(* A subscriber of a plain name whose callback publishes, and a            *)
(* subscriber of a filter, as MQSerialBridge is, whose callback subscribes *)
(* it to a name that the filter means.                                     *)
ShortNames == {<<"a">>, <<"b">>, <<"a", "#">>}
MCSubs == {"relay", "bridge"}
MCInterests == [s \in MCSubs |-> IF s = "relay" THEN {<<"b">>} ELSE {<<"a", "#">>}]
MCRepublish == [s \in MCSubs |-> IF s = "relay" THEN {<<"a">>, <<"b">>} ELSE {}]
MCResubscribe == [s \in MCSubs |-> IF s = "bridge" THEN {<<"a">>} ELSE {}]
=============================================================================
