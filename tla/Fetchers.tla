------------------------------- MODULE Fetchers -------------------------------
(***************************************************************************)
(* What each feed asks its book for (operations/ingestion/fetchers.py).    *)
(*                                                                         *)
(* A board is what the book lists: groups (competitions, sports, meetings, *)
(* series) of events, in the book's order.  A fetcher turns the board, the *)
(* rotation epoch and the calls that fail into the events it returns with  *)
(* prices.  A call is named by what it asks for: Discovery for the board,  *)
(* a group for its listing, an event for its detail, SecondCall for the    *)
(* second page of a walk or the second batch of a list.                    *)
(***************************************************************************)
EXTENDS Rotation, FiniteSets, SequencesExt

CONSTANTS
    Discovery, SecondCall, Highlights,  \* calls that are not about one group or event
    ListCap,      \* groups a rotating fetcher lists in one cycle (40, 20, 10, 25, 18, 8, 6)
    DetailCap,    \* events it asks in detail (ROTATE_CAP, BOOKS_PER_CYCLE, 120, 20)
    RaceCap,      \* RACES_PER_CYCLE, FUTURES_PER_CYCLE
    PageCap,      \* events of a page, a tournament or a batch: 12, 8, 20, 100, 25
    Soon, Late    \* pointsbet_books: slots for the first and the last events listed

ASSUME FetchersAssumption ==
    \A n \in {ListCap, DetailCap, RaceCap, PageCap, Soon, Late} : n \in Nat \ {0}

First(list, n) == SubSeq(list, 1, IF Len(list) < n THEN Len(list) ELSE n)
Final(list, n) == SubSeq(list, IF Len(list) < n THEN 1 ELSE Len(list) - n + 1, Len(list))

\* Each call is made in a try of its own: the ones that fail are left out.
UpOrNothing(list, down) == IF \E i \in DOMAIN list : list[i].id \in down THEN <<>> ELSE list  \* mutant
Up(list, down) == SelectSeq(list, LAMBDA x : x.id \notin down)
EventsOf(groups) == FlattenSeq([i \in DOMAIN groups |-> groups[i].events])
Listed(groups, down) == EventsOf(Up(groups, down))
Open(events) == SelectSeq(events, LAMBDA x : x.open)
Covered(groups) == SelectSeq(groups, LAMBDA g : g.covered)
InLane(list, lane) == SelectSeq(list, LAMBDA x : x.lane = lane)

Soonest(events) == SortSeq(events, LAMBDA a, b : a.start < b.start)

\* The soonest of each sport, then the second of each, ...: no sport's pile-up
\* takes the places of the others (_spread_by_sport and the picks of *_books).
RankIn(events, x) ==
    Cardinality({i \in DOMAIN events : events[i].sport = x.sport /\ events[i].start < x.start})
SoonestFirst(events, cap) == First(Soonest(events), cap)   \* mutant
FairShare(events, cap) ==
    First(SortSeq(events, LAMBDA a, b :
              \/ RankIn(events, a) < RankIn(events, b)
              \/ RankIn(events, a) = RankIn(events, b) /\ a.sport < b.sport), cap)

\* Discovery, or the list shipped with the code when it fails.
Discovered(board, down) ==
    IF Discovery \in down THEN SelectSeq(board, LAMBDA g : g.shipped) ELSE board

(***************************************************************************)
(* The hot tier: everything listed                                         *)
(***************************************************************************)

UnibetAll(board, epoch, down) == Listed(board, down)
EntainAll(board, epoch, down) == Listed(Discovered(board, down), down)
BetrAll(board, epoch, down) == Listed(board, down)
SportsbetAll(board, epoch, down) == Listed(Rotating(board, ListCap, epoch), down)
PointsbetAll(board, epoch, down) == Listed(Rotating(board, ListCap, epoch), down)

\* A sport whose page fails takes its competitions out of the list that rotates;
\* a competition of tournaments is asked page by page.
TabSports(board, down) == SelectSeq(board, LAMBDA g : g.sport \notin down)
TabPages(groups, down) ==
    FlattenSeq([i \in DOMAIN groups |->
        IF groups[i].nested THEN Up(First(groups[i].events, PageCap), down) ELSE groups[i].events])
TabAll(board, epoch, down) ==
    TabPages(Up(Rotating(TabSports(board, down), ListCap, epoch), down), down)

FanduelPages(board, epoch, down) ==
    LET pages == Up(Discovered(board, down), down)
    IN  Up(FlattenSeq([i \in DOMAIN pages |-> First(pages[i].events, PageCap)]), down)

\* The full list of a sport or, when that is refused, the highlighted one.
PinnaclePool(board, down) ==
    FlattenSeq([i \in DOMAIN board |->
        IF board[i].id \notin down THEN board[i].events
        ELSE IF Highlights \notin down THEN First(board[i].events, 1) ELSE <<>>])
PinnacleAll(board, epoch, down) == Up(FairShare(Open(PinnaclePool(board, down)), DetailCap), down)

(***************************************************************************)
(* The full-book tier: the whole market list of a fixture, within a budget *)
(***************************************************************************)

SportsbetBooks(board, epoch, down) ==
    Up(First(Soonest(Open(Listed(Rotating(Covered(board), ListCap, epoch), down))), DetailCap), down)
TabBooks(board, epoch, down) ==
    Up(First(Listed(Rotating(Covered(TabSports(board, down)), ListCap, epoch), down), DetailCap), down)
BetrBooks(board, epoch, down) ==
    Up(First(Soonest(Open(Listed(Rotating(Covered(board), ListCap, epoch), down))), DetailCap), down)
EntainBooks(board, epoch, down) ==
    Up(FairShare(Open(Listed(Rotating(Covered(Discovered(board, down)), ListCap, epoch), down)),
                 DetailCap), down)
UnibetBooks(board, epoch, down) == Up(FairShare(Listed(Covered(board), down), DetailCap), down)
PinnacleBooks(board, epoch, down) == Up(Rotating(PinnaclePool(board, down), DetailCap, epoch), down)

\* The first of the list and, so that outrights come up too, the last of it.
PointsbetBooks(board, epoch, down) ==
    LET events == Open(Listed(Rotating(Covered(board), ListCap, epoch), down))
    IN  Up(IF Len(events) > Soon + Late THEN First(events, Soon) \o Final(events, Late) ELSE events,
           down)

(***************************************************************************)
(* Racing: the next to jump                                                *)
(***************************************************************************)

\* Batches of PageCap, each one call.
Batched(events, down) ==
    SelectSeq(events, LAMBDA x :
        SecondCall \in down => \E i \in DOMAIN events :
            events[i] = x /\ (i <= PageCap \/ i > 2 * PageCap))

TabRaces(board, epoch, down) == Up(First(EventsOf(board), RaceCap), down)
BetrRaces(board, epoch, down) == Up(First(EventsOf(board), RaceCap), down)
EntainRaces(board, epoch, down) == Up(First(Soonest(Open(EventsOf(board))), RaceCap), down)
PointsbetRaces(board, epoch, down) == Up(First(Soonest(Open(EventsOf(board))), RaceCap), down)
DomesticFirst(events) ==
    SortSeq(events, LAMBDA a, b :
        \/ a.lane = "main" /\ b.lane # "main"
        \/ a.lane = b.lane /\ a.start < b.start)
SportsbetRaces(board, epoch, down) ==
    Batched(First(DomesticFirst(Open(EventsOf(board))), RaceCap), down)
\* Whether a race is priced is only known from its card.
UnibetRaces(board, epoch, down) ==
    First(Open(Up(First(EventsOf(board), 3 * RaceCap), down)), RaceCap)

TabRacingFutures(board, epoch, down) == Up(Rotating(EventsOf(board), RaceCap, epoch), down)
SportsbetRacingFutures(board, epoch, down) ==
    Up(Rotating(Open(EventsOf(board)), RaceCap, epoch), down)
PointsbetRacingFutures(board, epoch, down) == Up(Rotating(EventsOf(board), RaceCap, epoch), down)
UnibetRacingFutures(board, epoch, down) ==
    Up(Rotating(Open(EventsOf(board)), RaceCap, epoch), down)

(***************************************************************************)
(* Exchanges, prediction markets and Dabble                                *)
(***************************************************************************)

\* Pages are walked in order, and a page that fails ends the walk.
Walked(events, down) ==
    IF Discovery \in down THEN <<>>
    ELSE First(events, IF SecondCall \in down THEN PageCap ELSE 3 * PageCap)
PolymarketAll(board, epoch, down) == Walked(EventsOf(board), down)

\* The board is walked from the top, and two windows rotate over the series: game
\* lines and the long tail.
KalshiAll(board, epoch, down) ==
    Walked(EventsOf(board), down)
    \o (IF Highlights \in down THEN <<>>
        ELSE Listed(Rotating(InLane(board, "main"), ListCap, epoch)
                    \o Rotating(InLane(board, "side"), ListCap, epoch), down))

\* One budget of details for ball sports and one for racing: a detail that fails
\* costs nothing.  Every sports competition is asked, from a start that rotates.
DabbleSportsStart(groups, epoch) ==
    IF groups = <<>> THEN <<>>
    ELSE LET at == Rotating([i \in DOMAIN groups |-> i], 1, epoch)[1]
         IN  Final(groups, Len(groups) - at + 1) \o First(groups, at - 1)
LaneBudgets(sports, races, down) ==
    First(Up(Open(Listed(sports, down)), down), DetailCap)
    \o First(Up(Open(Listed(races, down)), down), DetailCap)
DabbleAll(board, epoch, down) ==
    LaneBudgets(DabbleSportsStart(Covered(InLane(board, "main")), epoch),
                Rotating(InLane(board, "side"), ListCap, epoch), down)

\* Racing rides every cycle, the other event types rotate; the soonest markets first.
BetfairAll(board, epoch, down) ==
    LET types == InLane(board, "side") \o Rotating(InLane(board, "main"), ListCap, epoch)
    IN  Batched(First(Soonest(Listed(types, down)), DetailCap), down)

(***************************************************************************)
(* Every fetcher                                                           *)
(***************************************************************************)

\* Fetchers whose discovery is in a try of its own.
SurvivesDiscovery ==
    {"entain_all", "entain_books", "fanduel_us", "kalshi_all", "polymarket_all", "betfair_all"}

Delivered(f, board, epoch, down) ==
    CASE f = "unibet_all"       -> UnibetAll(board, epoch, down)
      [] f = "entain_all"       -> EntainAll(board, epoch, down)
      [] f = "betr_all"         -> BetrAll(board, epoch, down)
      [] f = "sportsbet_all"    -> SportsbetAll(board, epoch, down)
      [] f = "pointsbet_all"    -> PointsbetAll(board, epoch, down)
      [] f = "tab_all"          -> TabAll(board, epoch, down)
      [] f = "fanduel_us"       -> FanduelPages(board, epoch, down)
      [] f = "pinnacle_all"     -> PinnacleAll(board, epoch, down)
      [] f = "sportsbet_books"  -> SportsbetBooks(board, epoch, down)
      [] f = "tab_books"        -> TabBooks(board, epoch, down)
      [] f = "betr_books"       -> BetrBooks(board, epoch, down)
      [] f = "entain_books"     -> EntainBooks(board, epoch, down)
      [] f = "unibet_books"     -> UnibetBooks(board, epoch, down)
      [] f = "pinnacle_books"   -> PinnacleBooks(board, epoch, down)
      [] f = "pointsbet_books"  -> PointsbetBooks(board, epoch, down)
      [] f = "tab_racing"       -> TabRaces(board, epoch, down)
      [] f = "betr_racing"      -> BetrRaces(board, epoch, down)
      [] f = "entain_racing"    -> EntainRaces(board, epoch, down)
      [] f = "pointsbet_racing" -> PointsbetRaces(board, epoch, down)
      [] f = "sportsbet_racing" -> SportsbetRaces(board, epoch, down)
      [] f = "unibet_racing"    -> UnibetRaces(board, epoch, down)
      [] f = "tab_racing_futures"       -> TabRacingFutures(board, epoch, down)
      [] f = "sportsbet_racing_futures" -> SportsbetRacingFutures(board, epoch, down)
      [] f = "pointsbet_racing_futures" -> PointsbetRacingFutures(board, epoch, down)
      [] f = "unibet_racing_futures"    -> UnibetRacingFutures(board, epoch, down)
      [] f = "polymarket_all"   -> PolymarketAll(board, epoch, down)
      [] f = "kalshi_all"       -> KalshiAll(board, epoch, down)
      [] f = "dabble_all"       -> DabbleAll(board, epoch, down)
      [] f = "betfair_all"      -> BetfairAll(board, epoch, down)
      [] f = "inplay_state"     -> <<>>

\* The fetch raises, and with it the feed's run.
Raises(f, down) == Discovery \in down /\ f \notin SurvivesDiscovery
Fetched(f, board, epoch, down) ==
    LET events == Delivered(f, board, epoch, down) IN {events[i].id : i \in DOMAIN events}
=============================================================================
