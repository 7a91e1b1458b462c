----------------------------- MODULE MCStatements -----------------------------
EXTENDS Statements

CONSTANTS k1, k2

MCBatches == {<<"bad">>, <<"fine", "named", "fine">>, <<"named", "flaky", "bad">>}
MCRows ==
    LET R(bare, form, key) == [bare |-> bare, form |-> form, key |-> key]
    IN {<<R(FALSE, "text", k1)>>,
        <<R(FALSE, "number", k1), R(FALSE, "text", k2)>>,
        <<R(FALSE, "number", k1), R(FALSE, "text", k1)>>,
        <<R(FALSE, "text", k1), R(FALSE, "text", k1)>>,
        <<R(FALSE, "pair", k1), R(FALSE, "pair", k1)>>,
        <<R(FALSE, "pair", k1), R(TRUE, "pair", k2)>>}
=============================================================================
