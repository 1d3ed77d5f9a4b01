----------------------------- MODULE MCRacingBoard -----------------------------
(* Small instances of RacingBoard for TLC. *)
EXTENDS RacingBoard

CONSTANTS r1, r2, sportsbet_book, tab_book

Quiet == [carried |-> [r \in Race |-> {}], phase |-> [r \in Race |-> "near"], last |-> "near",
          moves |-> [r \in Race |-> 1], faults |-> 0, kills |-> 0, delays |-> FALSE,
          time |-> {}, datalog |-> FALSE]
Both == [Quiet EXCEPT !.carried[r1] = {sportsbet_book, tab_book}]
NoTab == [Quiet EXCEPT !.carried[r1] = {sportsbet_book}]
TabOnly == [Quiet EXCEPT !.carried[r1] = {tab_book}]

MCSetups == {
    \* A price that moves and answers that are repeated, from far to near, and in a
    \* query of two races.
    [Both EXCEPT !.phase[r1] = "far", !.moves[r1] = 2, !.time = {"memo"}],
    [NoTab EXCEPT !.carried[r2] = {sportsbet_book}, !.moves[r1] = 2, !.time = {"memo"}],
    \* A session flagged or a call that fails.
    [Both EXCEPT !.moves[r1] = 2, !.faults = 1, !.time = {"session", "index"}],
    \* A card that is read in vain while discovery goes on.
    [NoTab EXCEPT !.moves[r1] = 2, !.faults = 1, !.time = {"discovery", "index"}],
    [Both EXCEPT !.faults = 1, !.time = {"discovery"}],
    \* A start put back.
    [NoTab EXCEPT !.moves[r1] = 2, !.delays = TRUE, !.time = {"discovery"}],
    \* Past the jump and off the board.
    [NoTab EXCEPT !.last = "gone", !.moves[r1] = 2, !.time = {"discovery"}],
    \* To the results, with a call that fails, or a restart.
    [TabOnly EXCEPT !.last = "gone", !.faults = 1, !.datalog = TRUE],
    [TabOnly EXCEPT !.last = "gone", !.kills = 1, !.datalog = TRUE] }
=============================================================================
