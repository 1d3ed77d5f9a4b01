------------------------------ MODULE RacingBoard ------------------------------
(***************************************************************************)
(* The racing board (interfaces/racingboard/): three loops of one event    *)
(* loop over the races it shows.  Discovery indexes the books' cards and   *)
(* decides which races are on the board; the price loop builds a snapshot  *)
(* of each race, source after source; the fast loop writes Sportsbet's     *)
(* newest prices onto the snapshot that stands.  A step is what one of     *)
(* them does between two awaits.                                           *)
(*                                                                         *)
(* A price is the number of moves the market had made when it was read,    *)
(* so a quote is current or it is old; one runner stands for a field.  A   *)
(* stamp is the number of moves made when it was set.  Of the exchange     *)
(* only its awaits are kept.  The races fit one chunk of the fast loop,    *)
(* and the books give one start for a race at a time.                      *)
(***************************************************************************)
EXTENDS Integers, FiniteSets, SequencesExt

CONSTANTS
    Race,
    Book, Sportsbet, Tab,
    Setups      \* what the books carry, the phase each race starts in and goes to, the
                \* moves of its market, whether starts are put back, whether the training
                \* store is on, what else the passing of time brings (discovery again, a
                \* session or an index too old, answers repeated), and bounds of failed
                \* calls and of kills

Phases == <<"far", "near", "run", "resulted", "gone">>   \* gone: past_grace_seconds after the jump

ASSUME BoardAssumption ==
    /\ IsFiniteSet(Race) /\ IsFiniteSet(Book) /\ {Sportsbet, Tab} \subseteq Book /\ Sportsbet # Tab
    /\ \A s \in Setups : /\ s.carried \in [Race -> SUBSET Book]
                         /\ s.phase \in [Race -> Range(Phases)]

VARIABLES
    setup,
    phase,      \* where each race is
    late,       \* races whose start was put back by more than start_tolerance_seconds
    tide,       \* tide[r]: the moves of its market so far
    index,      \* index[b]: the races on b's card as read, each put back or not
    board,      \* Store.races
    active,     \* _active_keys
    primed,     \* start() has discovered once
    cache,      \* CorporateSource._cache: the last price of each book
    poll,       \* poll[r]: _poll_race
    fast,       \* _refresh_fast
    disc,       \* _discover_once
    session,    \* _sb_engine: flagged by the book or not, older than 300 s or not
    indexDue,   \* 900 s since the fast loop rebuilt Sportsbet's index
    memo,       \* the answers of the last 60 s that the session repeats
    captured,   \* races with snapshot rows
    labelled,   \* races with outcomes
    dark,       \* books whose card was last read in vain
    mishaps

world == <<setup, phase, late, tide>>
records == <<captured, labelled>>
sportsbet == <<session, indexDue, memo>>
vars == <<world, index, board, active, primed, cache, poll, fast, disc, sportsbet, records,
          dark, mishaps>>

Open(r) == phase[r] \in {"far", "near"}

NoPrice == 0
NoPrices == [b \in Book |-> NoPrice]

\* A snapshot.  repeated, overtaken: the stamp was set for an answer the session
\* repeated, or carried over from a snapshot with a newer price.
Blank == [seen |-> FALSE, corp |-> NoPrices, stamp |-> NoPrice, resulted |-> FALSE,
          repeated |-> FALSE, overtaken |-> FALSE]
Off == [on |-> FALSE, late |-> FALSE, tab |-> FALSE, latest |-> Blank]
NoPoll == [step |-> "idle", late |-> FALSE, asked |-> {}, again |-> FALSE, corp |-> NoPrices,
           resulted |-> FALSE, overtaken |-> FALSE]
Resting == [step |-> "idle", races |-> {}]
NoDiscovery == [step |-> "idle", pending |-> {}, keep |-> {}, dark |-> {}]

\* What a process knows when it starts.
NoIndex == [b \in Book |-> {}]
NoRaces == [r \in Race |-> Off]
NewSession == [flagged |-> FALSE, old |-> FALSE]

Init ==
    /\ setup \in Setups
    /\ phase = setup.phase /\ late = {} /\ tide = [r \in Race |-> 1]
    /\ index = NoIndex /\ dark = Book /\ board = NoRaces /\ active = {} /\ primed = FALSE
    /\ cache = [r \in Race |-> NoPrices] /\ poll = [r \in Race |-> NoPoll]
    /\ fast = Resting /\ disc = NoDiscovery
    /\ session = NewSession /\ indexDue = TRUE /\ memo = {}
    /\ captured = {} /\ labelled = {}
    /\ mishaps = [faults |-> 0, kills |-> 0]

Fail(n) ==
    /\ mishaps.faults + n <= setup.faults
    /\ mishaps' = [mishaps EXCEPT !.faults = @ + n]

(***************************************************************************)
(* Discovery.                                                              *)
(***************************************************************************)
Card(b) == {<<r, r \in late>> : r \in {x \in Race : b \in setup.carried[x]}}

\* A book's build_index: a call that fails is swallowed by try_call, and leaves no races.
Indexed(b, ok) ==
    /\ index' = [index EXCEPT ![b] = IF ok THEN Card(b) ELSE {}]
    /\ dark' = IF ok THEN dark \ {b} ELSE dark \union {b}

\* A book has a handle for a race by the start the race was found with (handle_for).
Handles(b, r, start) == <<r, start>> \in index[b]

BeginDiscovery ==
    /\ disc.step = "idle" /\ (primed => "discovery" \in setup.time)
    /\ disc' = [NoDiscovery EXCEPT !.step = "index", !.pending = Book]
    /\ UNCHANGED <<world, index, board, active, primed, cache, poll, fast, sportsbet, records,
                   dark, mishaps>>

BookIndexed(b) ==
    /\ b \in disc.pending
    /\ disc' = [disc EXCEPT !.pending = @ \ {b}]
    /\ \E ok \in BOOLEAN : Indexed(b, ok) /\ Fail(IF ok THEN 0 ELSE 1)
    /\ UNCHANGED <<world, board, active, primed, cache, poll, fast, sportsbet, records>>

InWindowToTheJump(r) == Open(r)     \* mutant
\* From the horizon to the end of past_grace_seconds.
InWindow(r) == phase[r] # "gone"
Starts(r) == {start \in BOOLEAN : \E b \in Book : Handles(b, r, start)}
Found == {r \in Race : InWindow(r) /\ Starts(r) # {}}

\* The spine is the union of the cards, and upsert_ref keeps the reference it has.
Entry(r) ==
    LET start == FALSE \notin Starts(r)
    IN [Off EXCEPT !.on = TRUE, !.late = start, !.tab = Handles(Tab, r, start)]

Assemble ==
    /\ disc.step = "index" /\ disc.pending = {}
    /\ board' = [r \in Race |-> IF r \in Found /\ ~board[r].on THEN Entry(r) ELSE board[r]]
    /\ active' = Found
    /\ disc' = [disc EXCEPT !.step = "exchange", !.keep = Found, !.dark = dark]
    /\ UNCHANGED <<world, index, primed, cache, poll, fast, sportsbet, records, dark, mishaps>>

\* The exchange's index is built in between; then what was not found is pruned.
EndDiscovery ==
    /\ disc.step = "exchange"
    /\ board' = [r \in Race |-> IF r \in disc.keep THEN board[r] ELSE Off]
    /\ cache' = [r \in Race |-> IF r \in disc.keep THEN cache[r] ELSE NoPrices]
    /\ primed' = TRUE /\ disc' = NoDiscovery
    /\ UNCHANGED <<world, index, active, poll, fast, sportsbet, records, dark, mishaps>>

(***************************************************************************)
(* The price loop.                                                         *)
(***************************************************************************)
Become(r, new) == poll' = [poll EXCEPT ![r] = new]
Asked(r, start, books) == {b \in books : Handles(b, r, start)}

\* What books answer: the price of the moment, or nothing when a call fails.  Once
\* the market is closed there may be nothing to answer.
Answer(r, books, got) ==
    /\ got \in [Book -> {NoPrice, tide[r]}]
    /\ \A b \in Book \ books : got[b] = NoPrice
    /\ Fail(IF Open(r) THEN Cardinality({b \in books : got[b] = NoPrice}) ELSE 0)

TabDueByChance(r) == BOOLEAN     \* mutant
\* _tab_due: always where the race was never seen or has jumped; every few cycles far
\* from the jump, and in the last minutes before it always again.
TabDue(r) == IF ~board[r].latest.seen \/ ~Open(r) THEN {TRUE} ELSE BOOLEAN

\* _book_snapshot asks every book, and again where TAB carries a race that is shown.
AskBooks(r, p) == [p EXCEPT !.step = "books", !.asked = Asked(r, p.late, Book),
                            !.again = board[r].tab /\ board[r].latest.seen]
Polled(r, askTab) ==
    LET new == [NoPoll EXCEPT !.late = board[r].late]
    IN  IF board[r].tab /\ askTab THEN [new EXCEPT !.step = "tab"] ELSE AskBooks(r, new)

\* _poll_active takes the races due this cycle, and waits for all of them.
BeginCycle(due) ==
    /\ primed /\ due # {} /\ due \subseteq active
    /\ \A r \in Race : poll[r].step = "idle"
    /\ \E askTab \in [Race -> BOOLEAN] :
        /\ \A r \in due : askTab[r] \in TabDue(r)
        /\ \A r \in Race \ due : ~askTab[r]
        /\ poll' = [r \in Race |-> IF r \in due /\ board[r].on THEN Polled(r, askTab[r]) ELSE poll[r]]
    /\ UNCHANGED <<world, index, board, active, primed, cache, fast, disc, sportsbet, records,
                   dark, mishaps>>

Unmoved == UNCHANGED <<world, index, active, primed, fast, disc, sportsbet, dark>>

TabAnswers(r) ==
    /\ poll[r].step = "tab"
    /\ \/ /\ Become(r, [poll[r] EXCEPT !.step = "exchange", !.resulted = phase[r] \in {"resulted", "gone"}])
          /\ Fail(0)
       \/ Become(r, AskBooks(r, poll[r])) /\ Fail(1)
    /\ UNCHANGED <<board, cache, records>> /\ Unmoved

BooksAnswer(r) ==
    /\ poll[r].step = "books"
    /\ \E got \in [Book -> {NoPrice, tide[r]}] :
        /\ Answer(r, poll[r].asked, got)
        /\ Become(r, IF got # NoPrices THEN [poll[r] EXCEPT !.step = "exchange", !.corp = got]
                     ELSE IF poll[r].again THEN [AskBooks(r, poll[r]) EXCEPT !.again = FALSE]
                     ELSE NoPoll)
    /\ UNCHANGED <<board, cache, records>> /\ Unmoved

Others == Book \ {Sportsbet}

\* The cached prices go onto the snapshot, if there are any.
Merged(p, prices) == [p EXCEPT !.step = "engine", !.asked = {},
                               !.corp = IF prices = NoPrices THEN @ ELSE prices]

\* enrich: the other books are asked when their last prices are old, or there are none.
ExchangeAnswers(r) ==
    /\ poll[r].step = "exchange"
    /\ \E due \in BOOLEAN :
        /\ (\A b \in Others : cache[r][b] = NoPrice) => due
        /\ Become(r, IF due THEN [poll[r] EXCEPT !.step = "corp", !.asked = Asked(r, poll[r].late, Others)]
                     ELSE Merged(poll[r], cache[r]))
    /\ UNCHANGED <<board, cache, records, mishaps>> /\ Unmoved

\* Their answers replace the race's prices; Sportsbet's is carried over.
CorpAnswers(r) ==
    /\ poll[r].step = "corp"
    /\ \E got \in [Book -> {NoPrice, tide[r]}] :
        /\ Answer(r, poll[r].asked, got)
        /\ cache' = IF got = NoPrices THEN cache
                    ELSE [cache EXCEPT ![r] = [got EXCEPT ![Sportsbet] = cache[r][Sportsbet]]]
    /\ Become(r, Merged(poll[r], cache'[r]))
    /\ UNCHANGED <<board, records>> /\ Unmoved

\* The training store: rows near the marks before the jump, the last of which lets the
\* race have run a minute; outcomes with the results.
CanCapture(r) == setup.datalog /\ phase[r] \in {"far", "near", "run"}
Observe(r, resulted) ==
    IF resulted
    THEN /\ labelled' = IF r \in captured THEN labelled \union {r} ELSE labelled
         /\ UNCHANGED captured
    ELSE /\ captured' \in {captured, captured \union {x \in {r} : CanCapture(r)}}
         /\ UNCHANGED labelled

\* RaceState.add carries the stamp of the snapshot it replaces.
Add(r) ==
    /\ poll[r].step = "engine"
    /\ IF board[r].on
       THEN /\ board' = [board EXCEPT ![r].latest =
                    [@ EXCEPT !.seen = TRUE, !.corp = poll[r].corp, !.resulted = poll[r].resulted,
                              !.overtaken = poll[r].overtaken]]
            /\ Observe(r, poll[r].resulted)
       ELSE UNCHANGED <<board, records>>
    /\ Become(r, NoPoll)
    /\ UNCHANGED <<cache, mishaps>> /\ Unmoved

PollStep(r) ==
    TabAnswers(r) \/ BooksAnswer(r) \/ ExchangeAnswers(r) \/ CorpAnswers(r) \/ Add(r)

(***************************************************************************)
(* The fast loop.                                                          *)
(***************************************************************************)
NeverTooOld == FALSE     \* mutant
\* A session is replaced when it is 300 s old, and never for its failures: try_call
\* swallows what one_chunk would count.
TooOld == session.old

\* On the board with a snapshot.
Shown(r) == board[r].on /\ board[r].latest.seen
\* The races of one batched call: those Sportsbet has a handle for.
Targets(races, card) == {r \in races : Shown(r) /\ <<r, board[r].late>> \in card}
Ask(races, card) ==
    LET targets == Targets(races, card)
    IN  fast' = IF targets = {} THEN Resting ELSE [step |-> "ask", races |-> targets]

\* Near races every cycle, the others every tenth.
BeginFast(withFar) ==
    LET races == {r \in active : Shown(r) /\ (phase[r] # "far" \/ withFar)}
    IN  /\ primed /\ fast.step = "idle"
        /\ session' = IF TooOld THEN NewSession ELSE session
        /\ memo' = IF TooOld THEN {} ELSE memo
        /\ IF indexDue THEN fast' = [step |-> "index", races |-> races]
                       ELSE Ask(races, index[Sportsbet])
        /\ UNCHANGED <<world, index, board, active, primed, cache, poll, disc, indexDue, records,
                       dark, mishaps>>

FastIndexed ==
    /\ fast.step = "index"
    /\ \E ok \in BOOLEAN :
        /\ ok => ~session.flagged
        /\ Indexed(Sportsbet, ok) /\ Fail(IF ok \/ session.flagged THEN 0 ELSE 1)
    /\ Ask(fast.races, index'[Sportsbet])
    /\ indexDue' = FALSE
    /\ UNCHANGED <<world, board, active, primed, cache, poll, disc, session, memo, records>>

AppliedThoughEmpty(said) == {r \in DOMAIN said : Shown(r)}     \* mutant
\* apply_book and the poller both pass over an answer without prices.
Applied(said) == {r \in DOMAIN said : Shown(r) /\ said[r] # NoPrice}

\* The price goes into the cache and onto the snapshot, with a stamp.
Apply(said) ==
    LET to == Applied(said)
        Prices(r) == [cache[r] EXCEPT ![Sportsbet] = IF said[r] = NoPrice THEN @ ELSE said[r]]
    IN  /\ cache' = [r \in Race |-> IF r \in to THEN Prices(r) ELSE cache[r]]
        /\ board' = [r \in Race |-> IF r \in to
               THEN [board[r] EXCEPT !.latest = [@ EXCEPT
                         !.corp = Prices(r), !.stamp = tide[r], !.overtaken = FALSE,
                         !.repeated = said[r] \notin {NoPrice, tide[r]}]]
               ELSE board[r]]
        /\ poll' = [r \in Race |-> IF r \in to /\ poll[r].step = "engine"
                                   THEN [poll[r] EXCEPT !.overtaken = TRUE] ELSE poll[r]]

\* The ids are shuffled, and the session repeats what it was told for the same query.
SportsbetAnswers ==
    /\ fast.step = "ask" /\ fast' = Resting
    /\ \E query \in SetToSeqs(fast.races) :
        LET told == {m \in memo : m.query = query}
        IN  \/ told # {} /\ Fail(0) /\ UNCHANGED memo
               /\ \E m \in told : Apply(m.said)
            \/ told = {} /\ ~session.flagged /\ Fail(0)
               /\ \E priced \in SUBSET fast.races :
                   LET answer == [r \in fast.races |-> IF r \in priced THEN tide[r] ELSE NoPrice]
                   IN  /\ \A r \in fast.races \ priced : ~Open(r)
                       /\ memo' = IF "memo" \in setup.time
                                   THEN memo \union {[query |-> query, said |-> answer]} ELSE memo
                       /\ Apply(answer)
            \/ told = {} /\ Fail(IF session.flagged THEN 0 ELSE 1)
               /\ UNCHANGED <<memo, cache, board, poll>>
    /\ UNCHANGED <<world, index, active, primed, disc, session, indexDue, records, dark>>

FastStep == FastIndexed \/ SportsbetAnswers

(***************************************************************************)
(* The environment.                                                        *)
(***************************************************************************)
Elsewhere == UNCHANGED <<index, board, active, primed, cache, poll, fast, disc, records, dark>>

Move(r) ==
    /\ Open(r) /\ tide[r] < setup.moves[r]
    /\ tide' = [tide EXCEPT ![r] = @ + 1]
    /\ UNCHANGED <<setup, phase, late, sportsbet, mishaps>> /\ Elsewhere

Advance(r) ==
    /\ phase[r] # setup.last
    /\ \E i \in 1..(Len(Phases) - 1) : Phases[i] = phase[r] /\ phase' = [phase EXCEPT ![r] = Phases[i + 1]]
    /\ UNCHANGED <<setup, late, tide, sportsbet, mishaps>> /\ Elsewhere

PutBack(r) ==
    /\ setup.delays /\ Open(r) /\ r \notin late
    /\ late' = late \union {r}
    /\ UNCHANGED <<setup, phase, tide, sportsbet, mishaps>> /\ Elsewhere

Flag ==
    /\ "session" \in setup.time /\ ~session.flagged /\ Fail(1)
    /\ session' = [session EXCEPT !.flagged = TRUE]
    /\ UNCHANGED <<world, indexDue, memo>> /\ Elsewhere

SessionAges ==
    /\ "session" \in setup.time
    /\ session' = [session EXCEPT !.old = TRUE]
    /\ UNCHANGED <<world, indexDue, memo, mishaps>> /\ Elsewhere
IndexAges ==
    /\ "index" \in setup.time
    /\ indexDue' = TRUE
    /\ UNCHANGED <<world, session, memo, mishaps>> /\ Elsewhere
Expire ==
    /\ \E m \in memo : memo' = memo \ {m}
    /\ UNCHANGED <<world, session, indexDue, mishaps>> /\ Elsewhere

\* The process is killed and started again; the training store is on disk.
Restart ==
    /\ mishaps.kills < setup.kills
    /\ mishaps' = [mishaps EXCEPT !.kills = @ + 1]
    /\ index' = NoIndex /\ dark' = Book /\ board' = NoRaces /\ active' = {} /\ primed' = FALSE
    /\ cache' = [r \in Race |-> NoPrices] /\ poll' = [r \in Race |-> NoPoll]
    /\ fast' = Resting /\ disc' = NoDiscovery
    /\ session' = NewSession /\ indexDue' = TRUE /\ memo' = {}
    /\ UNCHANGED <<world, records>>

Next ==
    \/ BeginDiscovery \/ Assemble \/ EndDiscovery \/ \E b \in Book : BookIndexed(b)
    \/ \E due \in SUBSET Race : BeginCycle(due)
    \/ \E r \in Race : PollStep(r) \/ Move(r) \/ Advance(r) \/ PutBack(r)
    \/ \E withFar \in BOOLEAN : BeginFast(withFar)
    \/ FastStep \/ Flag \/ SessionAges \/ IndexAges \/ Expire \/ Restart

\* Every call is answered or times out, the three loops go on, each race is due again
\* within band_far_divisor cycles, and time passes.
Spec ==
    /\ Init /\ [][Next]_vars
    /\ WF_vars(BeginDiscovery \/ Assemble \/ EndDiscovery \/ \E b \in Book : BookIndexed(b))
    /\ \A r \in Race : WF_vars(PollStep(r))
    /\ \A r \in Race : SF_vars(\E due \in SUBSET Race : r \in due /\ BeginCycle(due))
    /\ WF_vars(FastStep) /\ SF_vars(BeginFast(TRUE))
    /\ WF_vars(SessionAges) /\ WF_vars(IndexAges) /\ WF_vars(Expire)

(***************************************************************************)
(* Properties.                                                             *)
(***************************************************************************)
Quotes == [Book -> Nat]
Snapshots == [seen : BOOLEAN, corp : Quotes, stamp : Nat, resulted : BOOLEAN,
              repeated : BOOLEAN, overtaken : BOOLEAN]
Entries == [on : BOOLEAN, late : BOOLEAN, tab : BOOLEAN, latest : Snapshots]
Polls == [step : {"idle", "tab", "books", "exchange", "corp", "engine"}, late : BOOLEAN,
          asked : SUBSET Book, again : BOOLEAN, corp : Quotes, resulted : BOOLEAN,
          overtaken : BOOLEAN]
Batches == [step : {"idle", "index", "ask"}, races : SUBSET Race]
Discoveries == [step : {"idle", "index", "exchange"}, pending : SUBSET Book,
                keep : SUBSET Race, dark : SUBSET Book]

TypeOK ==
    /\ setup \in Setups /\ phase \in [Race -> Range(Phases)] /\ late \subseteq Race
    /\ tide \in [Race -> Nat] /\ index \in [Book -> SUBSET (Race \X BOOLEAN)]
    /\ active \subseteq Race /\ dark \subseteq Book /\ cache \in [Race -> Quotes]
    /\ board \in [Race -> Entries] /\ \A r \in Race : ~board[r].on => board[r] = Off
    /\ poll \in [Race -> Polls] /\ fast \in Batches /\ disc \in Discoveries
    /\ \A m \in memo : DOMAIN m.said \subseteq Race /\ \A r \in DOMAIN m.said : m.said[r] \in Nat

\* What the board shows of Sportsbet is at least as new as the stamp it shows with it
\* (RaceState.add, apply_book), which the placer trusts.  Two cases are excepted: the
\* session repeated an answer, and a poll that had read the cache wrote over a newer
\* quote and kept its stamp.
StampIsHonest ==
    /\ TypeOK
    /\ \A r \in Race :
        LET snap == board[r].latest
        IN  snap.stamp # NoPrice /\ ~snap.repeated /\ ~snap.overtaken
              => snap.corp[Sportsbet] >= snap.stamp

\* A race that Sportsbet carries does not keep an old quote for ever, whatever failed,
\* was flagged or was repeated: the fast loop gets it the newest one, unless the race
\* leaves the board, jumps, or was put back since it was first seen.
NoQuoteFreezes ==
    \A r \in Race :
        board[r].on /\ Sportsbet \in setup.carried[r]
          ~> \/ board[r].latest.corp[Sportsbet] = tide[r]
             \/ ~board[r].on \/ ~Open(r) \/ board[r].late # (r \in late)

\* A race stays on the board past its jump, until past_grace_seconds are over, and
\* leaves it only then, with a restart, or when every book that carries it was dark.
RacesStayThroughTheJump ==
    [][\A r \in Race : board[r].on /\ ~board'[r].on =>
          \/ phase[r] = "gone"
          \/ mishaps'.kills # mishaps.kills
          \/ setup.carried[r] \subseteq disc.dark]_vars

\* A race in the training store whose results TAB has posted gets its outcomes, if the
\* board came to know it with TAB's name for it and still has it.
ResultsAreLabelled ==
    \A r \in Race :
        r \in captured /\ phase[r] = "resulted" /\ board[r].on /\ board[r].tab
          ~> r \in labelled \/ phase[r] = "gone" \/ ~board[r].on \/ ~board[r].tab
=============================================================================
