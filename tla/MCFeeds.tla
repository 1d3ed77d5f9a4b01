-------------------------------- MODULE MCFeeds --------------------------------
(* A small instance of IngestWorker for TLC: a fast feed and a full-book feed at a
   time, over all the fetchers. *)
EXTENDS IngestWorker

CONSTANTS hot, books, g1, g2, g3, g4, g5, e1, e2, e3, e4, e5, e6, e7, e8

Intervals == [f \in Feed |-> IF f = hot THEN 3 ELSE 4]
PinnedBooks == [f \in {books} |-> 4]
Two == {hot, books}

Pair(a, b) == [f \in Feed |-> IF f = hot THEN a ELSE b]
Setup(who, db, floor, pairs) ==
    {[driver |-> who, backend |-> db, pace |-> floor, fetcher |-> p] : p \in pairs}
Setups1 ==
    Setup("cron", "sqlite", 0,
        {Pair("sportsbet_all", "sportsbet_books"), Pair("tab_all", "tab_books"),
         Pair("unibet_all", "unibet_books"), Pair("entain_all", "entain_books"),
         Pair("pinnacle_all", "pinnacle_books"), Pair("pointsbet_all", "pointsbet_books")})
Setups2 ==
    Setup("cron", "postgres", 1,
        {Pair("betr_all", "betr_books"), Pair("fanduel_us", "kalshi_all"),
         Pair("betfair_all", "polymarket_all"), Pair("dabble_all", "dabble_all")})
Setups3 ==
    Setup("loop", "sqlite", 0,
        {Pair("tab_racing", "tab_racing_futures"), Pair("sportsbet_racing", "sportsbet_racing_futures"),
         Pair("pointsbet_racing", "pointsbet_racing_futures"),
         Pair("unibet_racing", "unibet_racing_futures"), Pair("entain_racing", "betr_racing"),
         Pair("inplay_state", "entain_books")})
AllSetups == Setups1 \union Setups2 \union Setups3

Event(id, sport, lane, start, open) ==
    [id |-> id, sport |-> sport, lane |-> lane, start |-> start, open |-> open]
Group(id, sport, lane, covered, shipped, nested, events) ==
    [id |-> id, sport |-> sport, lane |-> lane, covered |-> covered, shipped |-> shipped,
     nested |-> nested, events |-> events]

\* A sport with a pile-up of early fixtures, one the operator does not cover, a later
\* one with tournaments, and racing.
Busy ==
    <<Group(g1, 1, "main", TRUE, TRUE, FALSE,
            <<Event(e1, 1, "main", 1, TRUE), Event(e2, 1, "main", 2, TRUE),
              Event(e3, 1, "main", 3, TRUE)>>),
      Group(g2, 2, "main", TRUE, TRUE, TRUE,
            <<Event(e4, 2, "main", 6, TRUE), Event(e5, 2, "main", 7, FALSE)>>),
      Group(g3, 3, "side", TRUE, FALSE, FALSE, <<Event(e6, 3, "side", 5, TRUE)>>),
      Group(g4, 2, "main", FALSE, TRUE, FALSE, <<Event(e7, 2, "main", 4, TRUE)>>),
      Group(g5, 3, "side", TRUE, TRUE, FALSE, <<Event(e8, 3, "side", 8, TRUE)>>)>>

SomeOutages ==
    {{}, {Discovery}, {SecondCall}, {g1, Highlights}, {2, g3, e1}}
=============================================================================
