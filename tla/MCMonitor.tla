------------------------------- MODULE MCMonitor -------------------------------
\* A small instance of Monitor for TLC: watches that alert differently, alone or two in a
\* pass.
EXTENDS Monitor

CONSTANTS w1, w2, x

W(kind, digest, quiet, every) == [kind |-> kind, digest |-> digest, quiet |-> quiet, every |-> every]
Setup(list, u, v) == [order |-> list, watch |-> [s \in Sub |-> IF s = w1 THEN u ELSE v]]
One(u) == Setup(<<w1>>, u, u)

AllSetups ==
    {Setup(<<w1, w2>>, W("steam", 0, FALSE, 2), W("line_move", 0, TRUE, 2)),
     One(W("value", 0, FALSE, 0)), One(W("racing_value", 0, FALSE, 0)),
     One(W("arb", 2, FALSE, 0)), One(W("inplay_arb", 0, FALSE, 0))}
=============================================================================
