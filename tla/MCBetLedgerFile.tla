--------------------------- MODULE MCBetLedgerFile ---------------------------
(* Two intents, two days, and the statuses the sums tell apart. *)
EXTENDS BetLedgerFile

MCRows ==
    [id : Id, day : Day, status : {"placed"}, stake : {1, 2}]
    \union [id : Id, day : {0}, status : {"asked", "rejected"}, stake : {1}]
=============================================================================
