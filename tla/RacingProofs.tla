------------------------------ MODULE RacingProofs ------------------------------
(***************************************************************************)
(* Theorems about RacingBoard for any races, books, failures and restarts: *)
(* its types, that the stamp shown with a quote is honest, and that a race *)
(* stays on the board through its jump.                                    *)
(***************************************************************************)
EXTENDS RacingBoard, TLAPS

(***************************************************************************)
(* The invariants                                                          *)
(***************************************************************************)

Told == \A m \in memo : DOMAIN m.said \subseteq Race /\ \A r \in DOMAIN m.said : m.said[r] \in Nat
OffBoard == \A r \in Race : ~board[r].on => board[r] = Off
WorldOK ==
    /\ setup \in Setups /\ phase \in [Race -> Range(Phases)] /\ late \subseteq Race
    /\ tide \in [Race -> Nat]
CardsOK == index \in [Book -> SUBSET (Race \X BOOLEAN)] /\ dark \subseteq Book
PricesOK == board \in [Race -> Entries] /\ OffBoard /\ cache \in [Race -> Quotes] /\ poll \in [Race -> Polls]
LoopsOK == active \subseteq Race /\ fast \in Batches /\ disc \in Discoveries
TypeInv == WorldOK /\ CardsOK /\ PricesOK /\ LoopsOK /\ Told

\* An honest stamp, and what keeps it so: the cache is as new as the stamp, and so is what
\* a poll took from it unless the fast loop has told the poll otherwise.
Honest(r) ==
    LET snap == board[r].latest
    IN  snap.stamp # NoPrice /\ ~snap.repeated =>
          /\ cache[r][Sportsbet] >= snap.stamp
          /\ ~snap.overtaken => snap.corp[Sportsbet] >= snap.stamp
          /\ poll[r].step = "engine" /\ ~poll[r].overtaken => poll[r].corp[Sportsbet] >= snap.stamp
HonestInv == \A r \in Race : Honest(r)

\* A book that is not dark has every race it carries on its card; what a discovery does not
\* keep is over, or only dark books carry it.
Carded == \A b \in Book \ dark : \A r \in Race : b \in setup.carried[r] => \E s \in BOOLEAN : Handles(b, r, s)
Dropped(r) == phase[r] = "gone" \/ setup.carried[r] \subseteq disc.dark
KeptInv == disc.step = "exchange" => \A r \in Race \ disc.keep : Dropped(r)
BoardInv == Carded /\ KeptInv /\ mishaps.kills \in Nat /\ mishaps = [faults |-> mishaps.faults, kills |-> mishaps.kills]

(***************************************************************************)
(* Types                                                                   *)
(***************************************************************************)

LEMMA Values ==
    /\ NoPrice = 0 /\ NoPrices \in Quotes /\ Sportsbet \in Book /\ \A b \in Book : NoPrices[b] = 0
    /\ Blank \in Snapshots /\ Blank.stamp = 0 /\ Off \in Entries /\ ~Off.on /\ Off.latest = Blank
    /\ NoPoll \in Polls /\ NoPoll.step = "idle" /\ ~NoPoll.overtaken
    /\ Resting \in Batches /\ NoDiscovery \in Discoveries
<1>1. NoPrice = 0 /\ NoPrices \in Quotes /\ Sportsbet \in Book /\ \A b \in Book : NoPrices[b] = 0
  BY BoardAssumption DEF NoPrice, NoPrices, Quotes
<1>2. Blank \in Snapshots /\ Blank.stamp = 0
  BY <1>1 DEF Blank, Snapshots
<1>3. Off \in Entries /\ ~Off.on /\ Off.latest = Blank
  BY <1>2 DEF Off, Entries
<1>4. NoPoll \in Polls /\ NoPoll.step = "idle" /\ ~NoPoll.overtaken
  BY <1>1 DEF NoPoll, Polls
<1>5. Resting \in Batches /\ NoDiscovery \in Discoveries
  BY DEF Resting, Batches, NoDiscovery, Discoveries
<1> QED BY <1>1, <1>2, <1>3, <1>4, <1>5

\* What one step of the races' loops does to their prices: only race `r` moves.
Only(r) == \A x \in Race \ {r} : board'[x] = board[x] /\ cache'[x] = cache[x] /\ poll'[x] = poll[x]

LEMMA Becomes ==
    ASSUME TypeInv, NEW r \in Race, NEW new \in Polls, Become(r, new)
    PROVE  poll' \in [Race -> Polls] /\ poll'[r] = new /\ \A x \in Race \ {r} : poll'[x] = poll[x]
  BY DEF Become, TypeInv, PricesOK

LEMMA AskTyped ==
    ASSUME TypeInv, NEW r \in Race, NEW p \in Polls
    PROVE  AskBooks(r, p) \in Polls /\ AskBooks(r, p).step = "books"
<1>1. board[r].tab \in BOOLEAN /\ board[r].latest.seen \in BOOLEAN
  BY DEF TypeInv, PricesOK, Entries, Snapshots
<1>2. Asked(r, p.late, Book) \in SUBSET Book
  BY DEF Asked
<1>3. (board[r].tab /\ board[r].latest.seen) \in BOOLEAN
  BY <1>1
<1> DEFINE again == board[r].tab /\ board[r].latest.seen
<1>4. AskBooks(r, p) = [p EXCEPT !.step = "books", !.asked = Asked(r, p.late, Book), !.again = again]
  BY DEF AskBooks
<1> HIDE DEF again
<1>5. again \in BOOLEAN
  BY <1>3 DEF again
<1> QED BY <1>2, <1>4, <1>5 DEF Polls

LEMMA MergedTyped ==
    ASSUME NEW p \in Polls, NEW prices \in Quotes
    PROVE  /\ Merged(p, prices) \in Polls /\ Merged(p, prices).step = "engine"
           /\ Merged(p, prices).corp = IF prices = NoPrices THEN p.corp ELSE prices
<1>1. p.corp \in Quotes
  BY DEF Polls
<1> DEFINE corp == IF prices = NoPrices THEN p.corp ELSE prices
<1>2. Merged(p, prices) = [p EXCEPT !.step = "engine", !.asked = {}, !.corp = corp]
  BY DEF Merged
<1>3. corp \in Quotes
  BY <1>1
<1>4. Merged(p, prices) = [p EXCEPT !.step = "engine", !.asked = {}, !.corp = corp] /\ corp \in Quotes
  BY <1>2, <1>3
<1> HIDE DEF corp
<1>5. Merged(p, prices) \in Polls /\ Merged(p, prices).step = "engine" /\ Merged(p, prices).corp = corp
  BY <1>4 DEF Polls
<1> QED BY <1>5 DEF corp

LEMMA PolledTyped ==
    ASSUME TypeInv, NEW r \in Race, NEW ask \in BOOLEAN
    PROVE  Polled(r, ask) \in Polls /\ Polled(r, ask).step # "engine"
<1> DEFINE new == [NoPoll EXCEPT !.late = board[r].late]
<1>1. board[r].late \in BOOLEAN
  BY DEF TypeInv, PricesOK, Entries
<1>2. new \in Polls
  BY <1>1, Values DEF Polls
<1>3. [new EXCEPT !.step = "tab"] \in Polls /\ [new EXCEPT !.step = "tab"].step = "tab"
  <2> HIDE DEF new
  <2> QED BY <1>2 DEF Polls
<1>4. AskBooks(r, new) \in Polls /\ AskBooks(r, new).step = "books"
  BY <1>2, AskTyped
<1>5. Polled(r, ask) \in {[new EXCEPT !.step = "tab"], AskBooks(r, new)}
  BY DEF Polled
<1> QED BY <1>3, <1>4, <1>5

LEMMA CardTyped ==
    ASSUME TypeInv, NEW b \in Book, NEW ok \in BOOLEAN, Indexed(b, ok)
    PROVE  CardsOK'
<1>1. Card(b) \in SUBSET (Race \X BOOLEAN)
  <2>1. ASSUME NEW r \in Race PROVE <<r, r \in late>> \in Race \X BOOLEAN
    <3> DEFINE put == r \in late
    <3>1. put \in BOOLEAN
      OBVIOUS
    <3> HIDE DEF put
    <3>2. <<r, put>> \in Race \X BOOLEAN
      BY <3>1
    <3> QED BY <3>2 DEF put
  <2> QED BY <2>1 DEF Card
<1>2. index \in [Book -> SUBSET (Race \X BOOLEAN)] /\ dark \in SUBSET Book
  BY DEF TypeInv, CardsOK
<1>3. index' \in [Book -> SUBSET (Race \X BOOLEAN)]
  BY <1>1, <1>2 DEF Indexed
<1>4. dark' \in SUBSET Book
  BY <1>2 DEF Indexed
<1> QED BY <1>3, <1>4 DEF CardsOK

\* The records and the session are in no type but the answers the session repeats.
LEMMA TypeStays ==
    ASSUME TypeInv, UNCHANGED <<world, index, board, active, cache, poll, fast, disc, memo, dark>>
    PROVE  TypeInv'
  BY DEF TypeInv, world, WorldOK, CardsOK, PricesOK, OffBoard, LoopsOK, Told

LEMMA EntryTyped ==
    ASSUME NEW r \in Race
    PROVE  Entry(r) \in Entries /\ Entry(r).on /\ Entry(r).latest = Blank
<1> DEFINE start == FALSE \notin Starts(r)
           tab == Handles(Tab, r, start)
<1>1. start \in BOOLEAN /\ tab \in BOOLEAN
  BY DEF Handles
<1>2. Entry(r) = [Off EXCEPT !.on = TRUE, !.late = start, !.tab = tab]
  BY DEF Entry
<1> HIDE DEF start, tab
<1> QED BY <1>1, <1>2, Values DEF Entries

LEMMA DiscoveryTyped ==
    ASSUME TypeInv, BeginDiscovery \/ Assemble \/ EndDiscovery \/ \E b \in Book : BookIndexed(b)
    PROVE  TypeInv'
<1>1. CASE BeginDiscovery
  <2>1. disc' = [NoDiscovery EXCEPT !.step = "index", !.pending = Book]
        /\ UNCHANGED <<world, index, board, active, cache, poll, fast, memo, dark>>
    BY <1>1 DEF BeginDiscovery, sportsbet
  <2>2. disc' \in Discoveries
    BY <2>1, Values DEF Discoveries
  <2> QED BY <2>1, <2>2 DEF TypeInv, world, WorldOK, CardsOK, PricesOK, OffBoard, LoopsOK, Told
<1>2. CASE Assemble
  <2>1. /\ board' = [r \in Race |-> IF r \in Found /\ ~board[r].on THEN Entry(r) ELSE board[r]]
        /\ active' = Found /\ disc' = [disc EXCEPT !.step = "exchange", !.keep = Found, !.dark = dark]
        /\ UNCHANGED <<world, index, cache, poll, fast, memo, dark>>
    BY <1>2 DEF Assemble, sportsbet
  <2>2. Found \subseteq Race
    BY DEF Found
  <2>3. \A r \in Race : Entry(r) \in Entries /\ Entry(r).on
    BY EntryTyped
  <2>4. disc' \in Discoveries
    <3>1. disc \in Discoveries /\ dark \subseteq Book
      BY DEF TypeInv, LoopsOK, CardsOK
    <3> QED BY <2>1, <2>2, <3>1 DEF Discoveries
  <2>5. board' \in [Race -> Entries] /\ OffBoard'
    BY <2>1, <2>3 DEF TypeInv, PricesOK, OffBoard
  <2> QED BY <2>1, <2>2, <2>4, <2>5 DEF TypeInv, world, WorldOK, CardsOK, PricesOK, LoopsOK, Told
<1>3. CASE EndDiscovery
  <2>1. /\ board' = [r \in Race |-> IF r \in disc.keep THEN board[r] ELSE Off]
        /\ cache' = [r \in Race |-> IF r \in disc.keep THEN cache[r] ELSE NoPrices]
        /\ disc' = NoDiscovery /\ UNCHANGED <<world, index, active, poll, fast, memo, dark>>
    BY <1>3 DEF EndDiscovery, sportsbet
  <2>2. board' \in [Race -> Entries] /\ OffBoard' /\ cache' \in [Race -> Quotes]
    BY <2>1, Values DEF TypeInv, PricesOK, OffBoard
  <2> QED BY <2>1, <2>2, Values DEF TypeInv, world, WorldOK, CardsOK, PricesOK, LoopsOK, Told
<1>4. ASSUME NEW b \in Book, BookIndexed(b) PROVE TypeInv'
  <2>1. PICK ok \in BOOLEAN : Indexed(b, ok)
    BY <1>4 DEF BookIndexed
  <2>2. disc' = [disc EXCEPT !.pending = @ \ {b}]
        /\ UNCHANGED <<world, board, active, cache, poll, fast, memo>>
    BY <1>4 DEF BookIndexed, sportsbet
  <2>3. disc' \in Discoveries
    <3>1. disc \in Discoveries
      BY DEF TypeInv, LoopsOK
    <3> QED BY <2>2, <3>1 DEF Discoveries
  <2> QED BY <2>1, <2>2, <2>3, CardTyped DEF TypeInv, world, WorldOK, PricesOK, OffBoard, LoopsOK, Told
<1> QED BY <1>1, <1>2, <1>3, <1>4

\* The steps of a poll: where they leave it, and what they leave alone.
LEMMA PollTyped ==
    ASSUME TypeInv, NEW r \in Race, NEW new \in Polls, Become(r, new), Unmoved, board' = board,
           cache' \in [Race -> Quotes]
    PROVE  TypeInv'
<1>1. poll' \in [Race -> Polls]
  BY Becomes
<1>2. UNCHANGED <<world, index, active, fast, disc, memo, dark>>
  BY DEF Unmoved, sportsbet
<1> QED BY <1>1, <1>2 DEF TypeInv, world, WorldOK, CardsOK, PricesOK, OffBoard, LoopsOK, Told

LEMMA PollFacts ==
    ASSUME TypeInv, NEW r \in Race
    PROVE  /\ poll[r] \in Polls /\ cache[r] \in Quotes /\ board[r] \in Entries /\ tide[r] \in Nat
           /\ phase[r] \in Range(Phases)
  BY DEF TypeInv, PricesOK, WorldOK

LEMMA GotTyped ==
    ASSUME TypeInv, NEW r \in Race, NEW got \in [Book -> {NoPrice, tide[r]}]
    PROVE  got \in Quotes
<1>1. tide[r] \in Nat /\ NoPrice \in Nat
  BY Values DEF TypeInv, WorldOK
<1> QED BY <1>1 DEF Quotes

\* A step of the poll of `r` leaves the board alone until the last one; the poll comes to
\* "engine" with the cache of then.
Steps(r) ==
    /\ board' = board /\ \A x \in Race \ {r} : cache'[x] = cache[x] /\ poll'[x] = poll[x]
    /\ cache'[r][Sportsbet] = cache[r][Sportsbet]
    /\ \/ poll'[r].step # "engine"
       \/ /\ cache'[r] # NoPrices => poll'[r].corp = cache'[r]
          /\ cache'[r] \in Quotes

LEMMA TabAnswersTyped ==
    ASSUME TypeInv, NEW r \in Race, TabAnswers(r)
    PROVE  TypeInv' /\ Steps(r)
<1>1. UNCHANGED <<board, cache>> /\ Unmoved
  BY DEF TabAnswers
<1>2. poll[r] \in Polls /\ cache \in [Race -> Quotes]
  BY PollFacts DEF TypeInv, PricesOK
<1>3. PICK new \in Polls : Become(r, new) /\ new.step # "engine"
  <2>1. CASE Become(r, AskBooks(r, poll[r]))
    BY <1>2, <2>1, AskTyped
  <2>2. CASE Become(r, [poll[r] EXCEPT !.step = "exchange", !.resulted = phase[r] \in {"resulted", "gone"}])
    <3> DEFINE resulted == phase[r] \in {"resulted", "gone"}
               new == [poll[r] EXCEPT !.step = "exchange", !.resulted = resulted]
    <3>1. resulted \in BOOLEAN /\ Become(r, new)
      BY <2>2
    <3>2. new \in Polls /\ new.step = "exchange"
      <4> HIDE DEF resulted
      <4> QED BY <1>2, <3>1 DEF Polls
    <3> QED BY <3>1, <3>2
  <2> QED BY <2>1, <2>2 DEF TabAnswers
<1>4. TypeInv'
  BY <1>1, <1>2, <1>3, PollTyped
<1>5. poll'[r] = new /\ \A x \in Race \ {r} : poll'[x] = poll[x]
  BY <1>3, Becomes
<1> QED BY <1>1, <1>3, <1>4, <1>5 DEF Steps

LEMMA BooksAnswerTyped ==
    ASSUME TypeInv, NEW r \in Race, BooksAnswer(r)
    PROVE  TypeInv' /\ Steps(r)
<1>1. UNCHANGED <<board, cache>> /\ Unmoved
  BY DEF BooksAnswer
<1>2. poll[r] \in Polls /\ cache \in [Race -> Quotes]
  BY PollFacts DEF TypeInv, PricesOK
<1>3. PICK got \in [Book -> {NoPrice, tide[r]}] :
        Become(r, IF got # NoPrices THEN [poll[r] EXCEPT !.step = "exchange", !.corp = got]
                  ELSE IF poll[r].again THEN [AskBooks(r, poll[r]) EXCEPT !.again = FALSE]
                  ELSE NoPoll)
  BY DEF BooksAnswer
<1>4. PICK new \in Polls : Become(r, new) /\ new.step # "engine"
  <2>1. CASE Become(r, [poll[r] EXCEPT !.step = "exchange", !.corp = got])
    <3>1. got \in Quotes
      BY GotTyped
    <3>2. /\ [poll[r] EXCEPT !.step = "exchange", !.corp = got] \in Polls
          /\ [poll[r] EXCEPT !.step = "exchange", !.corp = got].step = "exchange"
      BY <1>2, <3>1 DEF Polls
    <3> QED BY <2>1, <3>2
  <2>2. CASE Become(r, [AskBooks(r, poll[r]) EXCEPT !.again = FALSE])
    <3>1. AskBooks(r, poll[r]) \in Polls /\ AskBooks(r, poll[r]).step = "books"
      BY <1>2, AskTyped
    <3>2. /\ [AskBooks(r, poll[r]) EXCEPT !.again = FALSE] \in Polls
          /\ [AskBooks(r, poll[r]) EXCEPT !.again = FALSE].step = "books"
      BY <3>1 DEF Polls
    <3> QED BY <2>2, <3>2
  <2>3. CASE Become(r, NoPoll)
    BY <2>3, Values
  <2> QED BY <1>3, <2>1, <2>2, <2>3
<1>5. TypeInv'
  BY <1>1, <1>2, <1>4, PollTyped
<1>6. poll'[r] = new /\ \A x \in Race \ {r} : poll'[x] = poll[x]
  BY <1>4, Becomes
<1> QED BY <1>1, <1>4, <1>5, <1>6 DEF Steps

LEMMA ExchangeAnswersTyped ==
    ASSUME TypeInv, NEW r \in Race, ExchangeAnswers(r)
    PROVE  TypeInv' /\ Steps(r)
<1>1. UNCHANGED <<board, cache>> /\ Unmoved
  BY DEF ExchangeAnswers
<1>2. poll[r] \in Polls /\ cache \in [Race -> Quotes] /\ cache[r] \in Quotes
  BY PollFacts DEF TypeInv, PricesOK
<1>3. PICK due \in BOOLEAN :
        Become(r, IF due THEN [poll[r] EXCEPT !.step = "corp", !.asked = Asked(r, poll[r].late, Others)]
                  ELSE Merged(poll[r], cache[r]))
  BY DEF ExchangeAnswers
<1>4. PICK new \in Polls : /\ Become(r, new)
                           /\ new.step # "engine" \/ (cache[r] # NoPrices => new.corp = cache[r])
  <2>1. CASE due
    <3>1. Asked(r, poll[r].late, Others) \subseteq Book
      BY DEF Asked, Others
    <3> DEFINE new == [poll[r] EXCEPT !.step = "corp", !.asked = Asked(r, poll[r].late, Others)]
    <3>2. new \in Polls /\ new.step = "corp"
      BY <1>2, <3>1 DEF Polls
    <3>3. Become(r, new)
      BY <1>3, <2>1
    <3> QED BY <3>2, <3>3
  <2>2. CASE ~due
    BY <1>2, <1>3, <2>2, MergedTyped
  <2> QED BY <2>1, <2>2
<1>5. TypeInv'
  BY <1>1, <1>2, <1>4, PollTyped
<1>6. poll'[r] = new /\ \A x \in Race \ {r} : poll'[x] = poll[x]
  BY <1>4, Becomes
<1> QED BY <1>1, <1>2, <1>4, <1>5, <1>6 DEF Steps

LEMMA CorpAnswersTyped ==
    ASSUME TypeInv, NEW r \in Race, CorpAnswers(r)
    PROVE  TypeInv' /\ Steps(r)
<1>1. board' = board /\ Unmoved /\ Become(r, Merged(poll[r], cache'[r]))
  BY DEF CorpAnswers
<1>2. poll[r] \in Polls /\ cache \in [Race -> Quotes] /\ cache[r] \in Quotes
  BY PollFacts DEF TypeInv, PricesOK
<1>3. PICK got \in [Book -> {NoPrice, tide[r]}] :
        cache' = IF got = NoPrices THEN cache
                 ELSE [cache EXCEPT ![r] = [got EXCEPT ![Sportsbet] = cache[r][Sportsbet]]]
  BY DEF CorpAnswers
<1> DEFINE prices == [got EXCEPT ![Sportsbet] = cache[r][Sportsbet]]
<1>4. prices \in Quotes /\ prices[Sportsbet] = cache[r][Sportsbet]
  <2>1. got \in Quotes
    BY GotTyped
  <2> QED BY <1>2, <2>1, Values DEF Quotes
<1> HIDE DEF prices
<1>5. /\ cache' \in [Race -> Quotes] /\ cache'[r][Sportsbet] = cache[r][Sportsbet]
      /\ \A x \in Race \ {r} : cache'[x] = cache[x]
  BY <1>2, <1>3, <1>4 DEF prices
<1> DEFINE new == Merged(poll[r], cache'[r])
<1>6. new \in Polls /\ (cache'[r] # NoPrices => new.corp = cache'[r]) /\ Become(r, new)
  BY <1>1, <1>2, <1>5, MergedTyped
<1> HIDE DEF new
<1>7. TypeInv'
  BY <1>1, <1>5, <1>6, PollTyped
<1>8. poll'[r] = new /\ \A x \in Race \ {r} : poll'[x] = poll[x]
  BY <1>6, Becomes
<1> QED BY <1>1, <1>5, <1>6, <1>7, <1>8 DEF Steps

\* The last step of a poll: only the prices of the snapshot change, and its stamp stays.
LEMMA AddFacts ==
    ASSUME TypeInv, NEW r \in Race, Add(r)
    PROVE  /\ TypeInv' /\ cache' = cache /\ poll'[r] = NoPoll
           /\ \A x \in Race \ {r} : board'[x] = board[x] /\ poll'[x] = poll[x]
           /\ poll[r].step = "engine" /\ board'[r].on = board[r].on
           /\ ~board[r].on => board'[r] = board[r]
           /\ board[r].on => /\ board'[r].latest.stamp = board[r].latest.stamp
                             /\ board'[r].latest.repeated = board[r].latest.repeated
                             /\ board'[r].latest.corp = poll[r].corp
                             /\ board'[r].latest.overtaken = poll[r].overtaken
<1>1. Become(r, NoPoll) /\ cache' = cache /\ Unmoved /\ poll[r].step = "engine"
  BY DEF Add
<1>2. poll' \in [Race -> Polls] /\ poll'[r] = NoPoll /\ \A x \in Race \ {r} : poll'[x] = poll[x]
  BY <1>1, Becomes, Values
<1>3. poll[r] \in Polls /\ board[r] \in Entries /\ board \in [Race -> Entries] /\ cache \in [Race -> Quotes]
  BY PollFacts DEF TypeInv, PricesOK
<1>4. UNCHANGED <<world, index, active, fast, disc, memo, dark>>
  BY <1>1 DEF Unmoved, sportsbet
<1> DEFINE snap == [board[r].latest EXCEPT !.seen = TRUE, !.corp = poll[r].corp,
                        !.resulted = poll[r].resulted, !.overtaken = poll[r].overtaken]
<1>5. /\ snap \in Snapshots /\ snap.stamp = board[r].latest.stamp
      /\ snap.repeated = board[r].latest.repeated /\ snap.corp = poll[r].corp
      /\ snap.overtaken = poll[r].overtaken
  BY <1>3 DEF Entries, Snapshots, Polls
<1>6. board[r].on => board' = [board EXCEPT ![r].latest = snap]
  BY DEF Add
<1>7. ~board[r].on => board' = board
  BY DEF Add
<1> HIDE DEF snap
<1> DEFINE entry == [board[r] EXCEPT !.latest = snap]
<1>8. entry \in Entries /\ entry.on = board[r].on /\ entry.latest = snap
  BY <1>3, <1>5 DEF Entries
<1>9. board[r].on => board' = [board EXCEPT ![r] = entry]
  BY <1>3, <1>6
<1> HIDE DEF entry
<1>10. board' \in [Race -> Entries] /\ \A x \in Race \ {r} : board'[x] = board[x]
  BY <1>3, <1>7, <1>8, <1>9
<1>11. board[r].on => board'[r] = entry
  BY <1>3, <1>9
<1>12. OffBoard'
  BY <1>3, <1>7, <1>8, <1>10, <1>11 DEF OffBoard, TypeInv, PricesOK
<1>13. TypeInv'
  BY <1>1, <1>2, <1>3, <1>4, <1>10, <1>12
     DEF TypeInv, world, WorldOK, CardsOK, PricesOK, LoopsOK, Told
<1> QED BY <1>1, <1>2, <1>5, <1>7, <1>8, <1>10, <1>11, <1>13

LEMMA CycleTyped ==
    ASSUME TypeInv, NEW due \in SUBSET Race, BeginCycle(due)
    PROVE  /\ TypeInv' /\ board' = board /\ cache' = cache
           /\ \A r \in Race : poll'[r] = poll[r] \/ poll'[r].step # "engine"
<1>1. PICK askTab \in [Race -> BOOLEAN] :
        poll' = [r \in Race |-> IF r \in due /\ board[r].on THEN Polled(r, askTab[r]) ELSE poll[r]]
  BY DEF BeginCycle
<1>2. UNCHANGED <<world, index, board, active, cache, fast, disc, memo, dark>>
  BY DEF BeginCycle, sportsbet
<1>3. \A r \in Race : Polled(r, askTab[r]) \in Polls /\ Polled(r, askTab[r]).step # "engine"
  BY PolledTyped
<1>4. poll' \in [Race -> Polls]
  BY <1>1, <1>3 DEF TypeInv, PricesOK
<1> QED BY <1>1, <1>2, <1>3, <1>4
           DEF TypeInv, world, WorldOK, CardsOK, PricesOK, OffBoard, LoopsOK, Told

\* The fast loop: what it asks for, and what it writes.
LEMMA AskedTyped ==
    ASSUME NEW races \in SUBSET Race, NEW card, Ask(races, card)
    PROVE  fast' \in Batches
  BY Values DEF Ask, Targets, Batches

LEMMA FastBegins ==
    ASSUME TypeInv, NEW withFar \in BOOLEAN, BeginFast(withFar)
    PROVE  TypeInv' /\ UNCHANGED <<board, cache, poll>>
<1> DEFINE races == {r \in active : Shown(r) /\ (phase[r] # "far" \/ withFar)}
<1>1. races \in SUBSET Race
  BY DEF TypeInv, LoopsOK
<1>2. /\ memo' = IF TooOld THEN {} ELSE memo
      /\ IF indexDue THEN fast' = [step |-> "index", races |-> races] ELSE Ask(races, index[Sportsbet])
      /\ UNCHANGED <<world, index, board, active, cache, poll, disc, dark>>
  BY DEF BeginFast
<1> HIDE DEF races
<1>3. fast' \in Batches
  <2>1. CASE indexDue
    BY <1>1, <1>2, <2>1 DEF Batches
  <2>2. CASE ~indexDue
    BY <1>1, <1>2, <2>2, AskedTyped
  <2> QED BY <2>1, <2>2
<1>4. Told'
  BY <1>2 DEF TypeInv, Told
<1> QED BY <1>2, <1>3, <1>4 DEF TypeInv, world, WorldOK, CardsOK, PricesOK, OffBoard, LoopsOK

LEMMA FastIndexedTyped ==
    ASSUME TypeInv, FastIndexed
    PROVE  TypeInv' /\ UNCHANGED <<board, cache, poll>>
<1>1. PICK ok \in BOOLEAN : Indexed(Sportsbet, ok)
  BY DEF FastIndexed
<1>2. Ask(fast.races, index'[Sportsbet]) /\ UNCHANGED <<world, board, active, cache, poll, disc, memo>>
  BY DEF FastIndexed
<1>3. fast.races \in SUBSET Race
  BY DEF TypeInv, LoopsOK, Batches
<1>4. fast' \in Batches
  BY <1>2, <1>3, AskedTyped
<1>5. CardsOK'
  BY <1>1, CardTyped, Values
<1> QED BY <1>2, <1>4, <1>5 DEF TypeInv, world, WorldOK, PricesOK, OffBoard, LoopsOK, Told

\* An answer that is written gives its race a stamp, a price to show and one to carry over,
\* the same one, and overtakes the poll that has read the price before it.
LEMMA ApplyFacts ==
    ASSUME TypeInv, NEW said, \A r \in DOMAIN said : said[r] \in Nat, DOMAIN said \subseteq Race, Apply(said)
    PROVE  /\ PricesOK'
           /\ \A r \in Race \ Applied(said) : board'[r] = board[r] /\ cache'[r] = cache[r] /\ poll'[r] = poll[r]
           /\ \A r \in Applied(said) :
                /\ board[r].on /\ board'[r].on
                /\ cache'[r][Sportsbet] = said[r] /\ board'[r].latest.corp[Sportsbet] = said[r]
                /\ board'[r].latest.stamp = tide[r] /\ ~board'[r].latest.overtaken
                /\ board'[r].latest.repeated <=> said[r] # tide[r]
                /\ poll'[r].step = poll[r].step /\ (poll'[r].step = "engine" => poll'[r].overtaken)
<1> DEFINE to == Applied(said)
           New(r) == [cache[r] EXCEPT ![Sportsbet] = IF said[r] = NoPrice THEN @ ELSE said[r]]
           old(r) == said[r] \notin {NoPrice, tide[r]}
           Snap(r) == [board[r].latest EXCEPT !.corp = New(r), !.stamp = tide[r], !.overtaken = FALSE,
                                              !.repeated = old(r)]
<1>1. /\ cache' = [r \in Race |-> IF r \in to THEN New(r) ELSE cache[r]]
      /\ board' = [r \in Race |-> IF r \in to THEN [board[r] EXCEPT !.latest = Snap(r)] ELSE board[r]]
      /\ poll' = [r \in Race |-> IF r \in to /\ poll[r].step = "engine"
                                 THEN [poll[r] EXCEPT !.overtaken = TRUE] ELSE poll[r]]
  BY DEF Apply
<1>2. to \subseteq Race /\ \A r \in to : Shown(r) /\ said[r] # 0 /\ said[r] \in Nat
  BY Values DEF Applied
<1>3. ASSUME NEW r \in Race
      PROVE  poll[r] \in Polls /\ cache[r] \in Quotes /\ board[r] \in Entries /\ tide[r] \in Nat
  BY PollFacts
<1>4. ASSUME NEW r \in to
      PROVE  New(r) \in Quotes /\ New(r)[Sportsbet] = said[r]
  BY <1>2, <1>3, Values DEF Quotes
<1>5. ASSUME NEW r \in to
      PROVE  old(r) \in BOOLEAN /\ (old(r) <=> said[r] # tide[r])
  BY <1>2, Values
<1> HIDE DEF New, old
<1>6. ASSUME NEW r \in to
      PROVE  /\ Snap(r) \in Snapshots /\ Snap(r).corp = New(r) /\ Snap(r).stamp = tide[r]
             /\ Snap(r).overtaken = FALSE /\ Snap(r).repeated = old(r)
  <2>1. board[r].latest \in Snapshots /\ tide[r] \in Nat
    BY <1>2, <1>3 DEF Entries
  <2>2. New(r) \in Quotes /\ old(r) \in BOOLEAN
    BY <1>4, <1>5
  <2> QED BY <2>1, <2>2 DEF Snapshots
<1> HIDE DEF Snap
<1>7. ASSUME NEW r \in to
      PROVE  LET new == [board[r] EXCEPT !.latest = Snap(r)]
             IN  new \in Entries /\ new.on = board[r].on /\ new.latest = Snap(r)
  BY <1>2, <1>3, <1>6 DEF Entries
<1>8. ASSUME NEW r \in Race, poll[r].step = "engine"
      PROVE  LET new == [poll[r] EXCEPT !.overtaken = TRUE]
             IN  new \in Polls /\ new.step = poll[r].step /\ new.overtaken
  BY <1>3 DEF Polls
<1> HIDE DEF to
<1>9. PricesOK'
  <2>1. board' \in [Race -> Entries] /\ cache' \in [Race -> Quotes] /\ poll' \in [Race -> Polls]
    BY <1>1, <1>2, <1>3, <1>4, <1>7, <1>8
  <2>2. OffBoard'
    <3>1. \A r \in to : board[r].on
      BY <1>2 DEF Shown
    <3> QED BY <1>1, <1>7, <3>1 DEF OffBoard, TypeInv, PricesOK
  <2> QED BY <2>1, <2>2 DEF PricesOK
<1>10. ASSUME NEW r \in Race \ to PROVE board'[r] = board[r] /\ cache'[r] = cache[r] /\ poll'[r] = poll[r]
  BY <1>1
<1>11. ASSUME NEW r \in to
       PROVE  /\ board[r].on /\ board'[r].on
              /\ cache'[r][Sportsbet] = said[r] /\ board'[r].latest.corp[Sportsbet] = said[r]
              /\ board'[r].latest.stamp = tide[r] /\ ~board'[r].latest.overtaken
              /\ board'[r].latest.repeated <=> said[r] # tide[r]
              /\ poll'[r].step = poll[r].step /\ (poll'[r].step = "engine" => poll'[r].overtaken)
  <2>1. r \in Race /\ board[r].on
    BY <1>2 DEF Shown
  <2>2. cache'[r] = New(r) /\ board'[r] = [board[r] EXCEPT !.latest = Snap(r)]
    BY <1>1, <2>1
  <2>3. poll'[r] = IF poll[r].step = "engine" THEN [poll[r] EXCEPT !.overtaken = TRUE] ELSE poll[r]
    BY <1>1, <2>1
  <2>4. board'[r].on = board[r].on /\ board'[r].latest = Snap(r)
    BY <1>7, <2>2
  <2>5. poll'[r].step = poll[r].step /\ (poll'[r].step = "engine" => poll'[r].overtaken)
    BY <1>8, <2>1, <2>3
  <2>6. board'[r].latest.repeated = old(r) /\ (old(r) <=> said[r] # tide[r])
    BY <1>5, <1>6, <2>4
  <2>7. board'[r].latest.repeated <=> said[r] # tide[r]
    BY <2>6
  <2>8. cache'[r][Sportsbet] = said[r]
    BY <1>4, <2>2
  <2>9. board'[r].latest.corp[Sportsbet] = said[r]
    BY <1>4, <1>6, <2>4
  <2>10. board'[r].latest.stamp = tide[r]
    BY <1>6, <2>4
  <2>11. ~board'[r].latest.overtaken
    BY <1>6, <2>4
  <2> QED BY <2>1, <2>4, <2>5, <2>7, <2>8, <2>9, <2>10, <2>11
<1> QED BY <1>9, <1>10, <1>11 DEF to

LEMMA AnswersFacts ==
    ASSUME TypeInv, SportsbetAnswers
    PROVE  /\ TypeInv'
           /\ \/ UNCHANGED <<board, cache, poll>>
              \/ \E said : /\ DOMAIN said \subseteq Race /\ \A r \in DOMAIN said : said[r] \in Nat
                           /\ Apply(said)
<1>1. fast' = Resting /\ UNCHANGED <<world, index, active, disc, dark>>
  BY DEF SportsbetAnswers
<1>2. fast.races \subseteq Race /\ NoPrice \in Nat /\ \A r \in Race : tide[r] \in Nat
  BY Values DEF TypeInv, WorldOK, LoopsOK, Batches
<1>3. ASSUME NEW said, DOMAIN said \subseteq Race, \A r \in DOMAIN said : said[r] \in Nat, Apply(said), Told'
      PROVE  TypeInv'
  <2>1. PricesOK'
    BY <1>3, ApplyFacts
  <2> QED BY <1>1, <1>3, <2>1, Values DEF TypeInv, world, WorldOK, CardsOK, LoopsOK
<1>4. PICK query \in SetToSeqs(fast.races) :
        LET told == {m \in memo : m.query = query}
        IN  \/ told # {} /\ Fail(0) /\ UNCHANGED memo
               /\ \E m \in told : Apply(m.said)
            \/ told = {} /\ ~session.flagged /\ Fail(0)
               /\ \E priced \in SUBSET fast.races :
                   LET answer == [r \in fast.races |-> IF r \in priced THEN tide[r] ELSE NoPrice]
                   IN  /\ \A r \in fast.races \ priced : ~Open(r)
                       /\ memo' = IF "memo" \in setup.time
                                   THEN memo \union {[query |-> query, said |-> answer]} ELSE memo
                       /\ Apply(answer)
            \/ told = {} /\ Fail(IF session.flagged THEN 0 ELSE 1)
               /\ UNCHANGED <<memo, cache, board, poll>>
  BY DEF SportsbetAnswers
<1> DEFINE told == {m \in memo : m.query = query}
<1>5. CASE UNCHANGED memo /\ \E m \in told : Apply(m.said)
  <2>1. PICK m \in memo : Apply(m.said)
    BY <1>5
  <2>2. DOMAIN m.said \subseteq Race /\ \A r \in DOMAIN m.said : m.said[r] \in Nat
    BY DEF TypeInv, Told
  <2>3. Told'
    BY <1>5 DEF TypeInv, Told
  <2> QED BY <1>3, <2>1, <2>2, <2>3
<1>6. ASSUME NEW priced \in SUBSET fast.races,
             LET answer == [r \in fast.races |-> IF r \in priced THEN tide[r] ELSE NoPrice]
             IN  /\ memo' = IF "memo" \in setup.time
                             THEN memo \union {[query |-> query, said |-> answer]} ELSE memo
                 /\ Apply(answer)
      PROVE  TypeInv' /\ \E said : /\ DOMAIN said \subseteq Race
                                   /\ \A r \in DOMAIN said : said[r] \in Nat
                                   /\ Apply(said)
  <2> DEFINE answer == [r \in fast.races |-> IF r \in priced THEN tide[r] ELSE NoPrice]
  <2>1. DOMAIN answer \subseteq Race /\ \A r \in DOMAIN answer : answer[r] \in Nat
    BY <1>2
  <2>2. /\ memo' \in {memo, memo \union {[query |-> query, said |-> answer]}}
        /\ Apply(answer)
    BY <1>6
  <2> HIDE DEF answer
  <2>3. Told'
    BY <2>1, <2>2 DEF TypeInv, Told
  <2> QED BY <1>3, <2>1, <2>2, <2>3
<1>7. CASE UNCHANGED <<memo, cache, board, poll>>
  BY <1>1, <1>7, Values DEF TypeInv, world, WorldOK, CardsOK, PricesOK, OffBoard, LoopsOK, Told
<1>8. \/ UNCHANGED memo /\ \E m \in told : Apply(m.said)
      \/ \E priced \in SUBSET fast.races :
            LET answer == [r \in fast.races |-> IF r \in priced THEN tide[r] ELSE NoPrice]
            IN  /\ memo' = IF "memo" \in setup.time
                            THEN memo \union {[query |-> query, said |-> answer]} ELSE memo
                /\ Apply(answer)
      \/ UNCHANGED <<memo, cache, board, poll>>
  BY <1>4
<1> QED BY <1>5, <1>6, <1>7, <1>8

\* What the world does to the board's knowledge: nothing.
Outside == (\E r \in Race : Move(r) \/ Advance(r) \/ PutBack(r)) \/ Flag \/ SessionAges \/ IndexAges \/ Expire

LEMMA OutsideFacts ==
    ASSUME TypeInv, Outside
    PROVE  /\ TypeInv' /\ UNCHANGED <<setup, index, board, cache, poll, disc, dark>>
           /\ \A r \in Race : phase[r] = "gone" => phase'[r] = "gone"
<1>1. Elsewhere /\ setup' = setup
  BY DEF Outside, Move, Advance, PutBack, Flag, SessionAges, IndexAges, Expire, world
<1>2. UNCHANGED <<index, board, active, cache, poll, fast, disc, dark>>
  BY <1>1 DEF Elsewhere
<1>3. Told' /\ WorldOK' /\ \A r \in Race : phase[r] = "gone" => phase'[r] = "gone"
  <2>1. ASSUME NEW r \in Race, Move(r)
        PROVE  Told' /\ WorldOK' /\ phase' = phase
    BY <2>1 DEF Move, TypeInv, Told, WorldOK, sportsbet
  <2>2. ASSUME NEW r \in Race, Advance(r)
        PROVE  Told' /\ WorldOK' /\ \A x \in Race : phase[x] = "gone" => phase'[x] = "gone"
    <3>1. PICK i \in 1..(Len(Phases) - 1) : Phases[i] = phase[r] /\ phase' = [phase EXCEPT ![r] = Phases[i + 1]]
      BY <2>2 DEF Advance
    <3>2. i + 1 \in DOMAIN Phases /\ Phases[i] # "gone"
      BY <3>1 DEF Phases
    <3>3. Phases[i + 1] \in Range(Phases)
      BY <3>2 DEF Range
    <3>4. UNCHANGED <<setup, late, tide, memo>>
      BY <2>2 DEF Advance, sportsbet
    <3> QED BY <3>1, <3>2, <3>3, <3>4 DEF TypeInv, Told, WorldOK
  <2>3. ASSUME NEW r \in Race, PutBack(r)
        PROVE  Told' /\ WorldOK' /\ phase' = phase
    BY <2>3 DEF PutBack, TypeInv, Told, WorldOK, sportsbet
  <2>4. CASE Flag \/ SessionAges \/ IndexAges
    BY <2>4 DEF Flag, SessionAges, IndexAges, TypeInv, Told, WorldOK, world
  <2>5. CASE Expire
    BY <2>5 DEF Expire, TypeInv, Told, WorldOK, world
  <2> QED BY <2>1, <2>2, <2>3, <2>4, <2>5 DEF Outside
<1> QED BY <1>1, <1>2, <1>3 DEF TypeInv, CardsOK, PricesOK, OffBoard, LoopsOK

LEMMA RestartTyped ==
    ASSUME TypeInv, Restart
    PROVE  TypeInv'
<1>1. /\ index' = NoIndex /\ dark' = Book /\ board' = NoRaces /\ active' = {}
      /\ cache' = [r \in Race |-> NoPrices] /\ poll' = [r \in Race |-> NoPoll]
      /\ fast' = Resting /\ disc' = NoDiscovery /\ memo' = {} /\ UNCHANGED world
  BY DEF Restart
<1>2. CardsOK' /\ PricesOK'
  BY <1>1, Values DEF CardsOK, PricesOK, OffBoard, NoIndex, NoRaces
<1> QED BY <1>1, <1>2, Values DEF TypeInv, world, WorldOK, LoopsOK, Told

\* The steps by what they do to the races' prices.
LEMMA StepKinds ==
    ASSUME Next
    PROVE  \/ BeginDiscovery \/ \E b \in Book : BookIndexed(b)
           \/ Assemble \/ EndDiscovery \/ \E due \in SUBSET Race : BeginCycle(due)
           \/ \E r \in Race : TabAnswers(r) \/ BooksAnswer(r) \/ ExchangeAnswers(r) \/ CorpAnswers(r)
           \/ \E r \in Race : Add(r)
           \/ \E withFar \in BOOLEAN : BeginFast(withFar)
           \/ FastIndexed \/ SportsbetAnswers \/ Outside \/ Restart
  BY DEF Next, PollStep, FastStep, Outside

LEMMA TypeStep ==
    ASSUME TypeInv, [Next]_vars
    PROVE  TypeInv'
<1>1. CASE UNCHANGED vars
  BY <1>1, TypeStays DEF vars, sportsbet
<1>2. CASE Next
  <2>1. CASE BeginDiscovery \/ Assemble \/ EndDiscovery \/ \E b \in Book : BookIndexed(b)
    BY <2>1, DiscoveryTyped
  <2>2. CASE \E due \in SUBSET Race : BeginCycle(due)
    BY <2>2, CycleTyped
  <2>3. ASSUME NEW r \in Race, TabAnswers(r) \/ BooksAnswer(r) \/ ExchangeAnswers(r) \/ CorpAnswers(r) \/ Add(r)
        PROVE  TypeInv'
    BY <2>3, TabAnswersTyped, BooksAnswerTyped, ExchangeAnswersTyped, CorpAnswersTyped, AddFacts
  <2>4. CASE \E withFar \in BOOLEAN : BeginFast(withFar)
    BY <2>4, FastBegins
  <2>5. CASE FastIndexed \/ SportsbetAnswers
    BY <2>5, FastIndexedTyped, AnswersFacts
  <2>6. CASE Outside \/ Restart
    BY <2>6, OutsideFacts, RestartTyped
  <2> QED BY <1>2, <2>1, <2>2, <2>3, <2>4, <2>5, <2>6, StepKinds
<1> QED BY <1>1, <1>2

LEMMA TypeInit ==
    ASSUME Init
    PROVE  TypeInv
<1>1. /\ setup \in Setups /\ phase = setup.phase /\ late = {} /\ tide = [r \in Race |-> 1]
      /\ index = NoIndex /\ dark = Book /\ board = NoRaces /\ active = {}
      /\ cache = [r \in Race |-> NoPrices] /\ poll = [r \in Race |-> NoPoll]
      /\ fast = Resting /\ disc = NoDiscovery /\ memo = {}
  BY DEF Init
<1>2. WorldOK
  BY <1>1, BoardAssumption DEF WorldOK
<1>3. CardsOK /\ PricesOK
  BY <1>1, Values DEF CardsOK, PricesOK, OffBoard, NoIndex, NoRaces
<1> QED BY <1>1, <1>2, <1>3, Values DEF TypeInv, LoopsOK, Told

\* The type of every variable, in every reachable state.
THEOREM BoardTyped == Spec => []TypeOK
<1>1. TypeInv => TypeOK
  BY DEF TypeInv, TypeOK, WorldOK, CardsOK, PricesOK, OffBoard, LoopsOK, Told
<1> QED BY <1>1, TypeInit, TypeStep, PTL DEF Spec

(***************************************************************************)
(* The stamp is honest                                                     *)
(***************************************************************************)

LEMMA HonestStays ==
    ASSUME TypeInv, NEW r \in Race, Honest(r), board'[r] = board[r],
           cache'[r][Sportsbet] = cache[r][Sportsbet],
           \/ poll'[r] = poll[r]
           \/ poll'[r].step # "engine"
           \/ cache'[r] # NoPrices => poll'[r].corp = cache'[r]
    PROVE  Honest(r)'
<1>1. board[r].latest.stamp \in Nat /\ cache[r] \in Quotes /\ cache[r][Sportsbet] \in Nat
  BY PollFacts, Values DEF Entries, Snapshots, Quotes
<1>2. CASE board[r].latest.stamp # NoPrice /\ ~board[r].latest.repeated
  <2>1. /\ cache[r][Sportsbet] >= board[r].latest.stamp
        /\ ~board[r].latest.overtaken => board[r].latest.corp[Sportsbet] >= board[r].latest.stamp
        /\ poll[r].step = "engine" /\ ~poll[r].overtaken => poll[r].corp[Sportsbet] >= board[r].latest.stamp
    BY <1>2 DEF Honest
  <2>2. cache'[r][Sportsbet] > 0
    BY <1>1, <1>2, <2>1, Values
  <2>3. cache'[r] # NoPrices
    BY <2>2, Values
  <2> QED BY <2>1, <2>3 DEF Honest
<1>3. CASE ~(board[r].latest.stamp # NoPrice /\ ~board[r].latest.repeated)
  BY <1>3 DEF Honest
<1> QED BY <1>2, <1>3

LEMMA HonestUnstamped ==
    ASSUME NEW r \in Race, board'[r].latest = Blank
    PROVE  Honest(r)'
  BY Values DEF Honest

LEMMA HonestPolling ==
    ASSUME TypeInv, HonestInv, NEW r \in Race, Steps(r)
    PROVE  HonestInv'
<1>1. ASSUME NEW x \in Race PROVE Honest(x)'
  <2>1. Honest(x) /\ board'[x] = board[x]
    BY DEF HonestInv, Steps
  <2>2. cache'[x][Sportsbet] = cache[x][Sportsbet]
    BY DEF Steps
  <2>3. \/ poll'[x] = poll[x]
        \/ poll'[x].step # "engine"
        \/ cache'[x] # NoPrices => poll'[x].corp = cache'[x]
    BY DEF Steps
  <2> QED BY <2>1, <2>2, <2>3, HonestStays
<1> QED BY <1>1 DEF HonestInv

LEMMA HonestStep ==
    ASSUME TypeInv, HonestInv, [Next]_vars
    PROVE  HonestInv'
<1>1. ASSUME UNCHANGED <<board, cache, poll>> PROVE HonestInv'
  BY <1>1 DEF HonestInv, Honest
<1>2. CASE UNCHANGED vars
  BY <1>1, <1>2 DEF vars
<1>3. CASE BeginDiscovery \/ \E b \in Book : BookIndexed(b)
  BY <1>1, <1>3 DEF BeginDiscovery, BookIndexed
<1>4. CASE Assemble
  <2>1. ASSUME NEW r \in Race PROVE Honest(r)'
    <3>1. UNCHANGED <<cache, poll>> /\ board'[r] \in {board[r], Entry(r)}
      BY <1>4 DEF Assemble
    <3>2. CASE board'[r] = Entry(r)
      BY <3>2, EntryTyped, HonestUnstamped
    <3>3. CASE board'[r] = board[r]
      BY <3>1, <3>3, HonestStays DEF HonestInv
    <3> QED BY <3>1, <3>2, <3>3
  <2> QED BY <2>1 DEF HonestInv
<1>5. CASE EndDiscovery
  <2>1. ASSUME NEW r \in Race PROVE Honest(r)'
    <3>1. /\ board'[r] = IF r \in disc.keep THEN board[r] ELSE Off
          /\ cache'[r] = IF r \in disc.keep THEN cache[r] ELSE NoPrices
          /\ poll' = poll
      BY <1>5 DEF EndDiscovery
    <3>2. CASE r \in disc.keep
      BY <3>1, <3>2, HonestStays DEF HonestInv
    <3>3. CASE r \notin disc.keep
      BY <3>1, <3>3, Values, HonestUnstamped
    <3> QED BY <3>2, <3>3
  <2> QED BY <2>1 DEF HonestInv
<1>6. ASSUME NEW due \in SUBSET Race, BeginCycle(due) PROVE HonestInv'
  <2>1. board' = board /\ cache' = cache /\ \A r \in Race : poll'[r] = poll[r] \/ poll'[r].step # "engine"
    BY <1>6, CycleTyped
  <2> QED BY <2>1, HonestStays DEF HonestInv
<1>7. ASSUME NEW r \in Race, TabAnswers(r) \/ BooksAnswer(r) \/ ExchangeAnswers(r) \/ CorpAnswers(r)
      PROVE  HonestInv'
  BY <1>7, TabAnswersTyped, BooksAnswerTyped, ExchangeAnswersTyped, CorpAnswersTyped, HonestPolling
<1>8. ASSUME NEW r \in Race, Add(r) PROVE HonestInv'
  <2>1. /\ cache' = cache /\ poll'[r] = NoPoll
        /\ \A x \in Race \ {r} : board'[x] = board[x] /\ poll'[x] = poll[x]
        /\ poll[r].step = "engine" /\ ~board[r].on => board'[r] = board[r]
        /\ board[r].on => /\ board'[r].latest.stamp = board[r].latest.stamp
                          /\ board'[r].latest.repeated = board[r].latest.repeated
                          /\ board'[r].latest.corp = poll[r].corp
                          /\ board'[r].latest.overtaken = poll[r].overtaken
    BY <1>8, AddFacts
  <2>2. ASSUME NEW x \in Race \ {r} PROVE Honest(x)'
    BY <2>1, HonestStays DEF HonestInv
  <2>3. poll[r].step = "engine" /\ poll'[r].step = "idle"
    BY <1>8, AddFacts, Values
  <2>4. Honest(r)'
    <3>1. CASE board[r].on
      BY <2>1, <2>3, <3>1 DEF HonestInv, Honest
    <3>2. CASE ~board[r].on
      <4>1. board'[r] = board[r] /\ poll'[r].step # "engine"
        BY <2>1, <2>3, <3>2
      <4> QED BY <2>1, <4>1, HonestStays DEF HonestInv
    <3> QED BY <3>1, <3>2
  <2> QED BY <2>2, <2>4 DEF HonestInv
<1>9. CASE (\E withFar \in BOOLEAN : BeginFast(withFar)) \/ FastIndexed
  BY <1>1, <1>9, FastBegins, FastIndexedTyped
<1>10. CASE SportsbetAnswers
  <2>1. ASSUME NEW said, DOMAIN said \subseteq Race, \A r \in DOMAIN said : said[r] \in Nat, Apply(said)
        PROVE  HonestInv'
    <3>1. ASSUME NEW r \in Race \ Applied(said) PROVE Honest(r)'
      BY <2>1, <3>1, ApplyFacts, HonestStays DEF HonestInv
    <3>2. ASSUME NEW r \in Race, r \in Applied(said) PROVE Honest(r)'
      <4>1. /\ cache'[r][Sportsbet] = said[r] /\ board'[r].latest.corp[Sportsbet] = said[r]
            /\ board'[r].latest.stamp = tide[r] /\ ~board'[r].latest.overtaken
            /\ board'[r].latest.repeated <=> said[r] # tide[r]
            /\ poll'[r].step = "engine" => poll'[r].overtaken
        BY <2>1, <3>2, ApplyFacts
      <4>2. tide[r] \in Nat
        BY PollFacts
      <4> QED BY <4>1, <4>2 DEF Honest
    <3> QED BY <3>1, <3>2 DEF HonestInv
  <2> QED BY <1>1, <1>10, <2>1, AnswersFacts
<1>11. CASE Outside
  BY <1>1, <1>11, OutsideFacts
<1>12. CASE Restart
  <2>1. \A r \in Race : board'[r].latest = Blank
    BY <1>12, Values DEF Restart, NoRaces
  <2> QED BY <2>1, HonestUnstamped DEF HonestInv
<1> QED BY <1>2, <1>3, <1>4, <1>5, <1>6, <1>7, <1>8, <1>9, <1>10, <1>11, <1>12, StepKinds

THEOREM BoardInvariant == Spec => [](TypeInv /\ HonestInv)
<1>1. Init => HonestInv
  BY Values DEF Init, NoRaces, HonestInv, Honest
<1>2. TypeInv /\ HonestInv /\ [Next]_vars => TypeInv' /\ HonestInv'
  BY TypeStep, HonestStep
<1> QED BY <1>1, <1>2, TypeInit, PTL DEF Spec

\* For any races, books, failed calls, repeated answers and restarts: a stamp that was not
\* set for a repeated answer, on a snapshot no poll has overwritten with an older price,
\* is never newer than the Sportsbet quote shown with it.
THEOREM StampsAreHonest == Spec => []StampIsHonest
<1>1. TypeInv /\ HonestInv => StampIsHonest
  BY DEF TypeInv, TypeOK, WorldOK, CardsOK, PricesOK, OffBoard, LoopsOK, Told,
         HonestInv, Honest, StampIsHonest
<1> QED BY <1>1, BoardInvariant, PTL

(***************************************************************************)
(* Races stay through the jump                                             *)
(***************************************************************************)

LEMMA CardsKept ==
    ASSUME TypeInv, Carded, NEW b \in Book, NEW ok \in BOOLEAN, Indexed(b, ok), setup' = setup
    PROVE  Carded'
<1>1. /\ index' = [index EXCEPT ![b] = IF ok THEN Card(b) ELSE {}]
      /\ dark' = IF ok THEN dark \ {b} ELSE dark \union {b}
      /\ index \in [Book -> SUBSET (Race \X BOOLEAN)]
  BY DEF Indexed, TypeInv, CardsOK
<1>2. ASSUME NEW c \in Book \ dark', NEW r \in Race, c \in setup.carried[r]
      PROVE  \E s \in BOOLEAN : <<r, s>> \in index'[c]
  <2>1. CASE c = b
    <3>1. ok /\ index'[b] = Card(b)
      BY <1>1, <2>1
    <3>2. <<r, r \in late>> \in Card(b) /\ (r \in late) \in BOOLEAN
      BY <1>2, <2>1 DEF Card
    <3> QED BY <2>1, <3>1, <3>2
  <2>2. CASE c # b
    <3>1. c \in Book \ dark /\ index'[c] = index[c]
      BY <1>1, <2>2
    <3> QED BY <1>2, <3>1 DEF Carded, Handles
  <2> QED BY <2>1, <2>2
<1> QED BY <1>2 DEF Carded, Handles

LEMMA KeptStays ==
    ASSUME BoardInv, UNCHANGED <<setup, index, dark, disc>>,
           \A r \in Race : phase[r] = "gone" => phase'[r] = "gone"
    PROVE  Carded' /\ KeptInv'
  BY DEF BoardInv, Carded, Handles, KeptInv, Dropped

\* A call that fails is not a kill.
Spared ==
    /\ mishaps'.kills = mishaps.kills
    /\ mishaps' = [faults |-> mishaps'.faults, kills |-> mishaps'.kills]

LEMMA SparedStep ==
    ASSUME BoardInv, [Next]_vars, ~Restart
    PROVE  Spared
<1>1. mishaps = [faults |-> mishaps.faults, kills |-> mishaps.kills]
  BY DEF BoardInv
<1>2. CASE mishaps' = mishaps
  BY <1>1, <1>2 DEF Spared
<1>3. ASSUME NEW n, Fail(n) PROVE Spared
  <2> DEFINE f == mishaps.faults + n
             k == mishaps.kills
  <2>1. mishaps' = [mishaps EXCEPT !.faults = f]
    BY <1>3 DEF Fail
  <2>2. mishaps' = [faults |-> f, kills |-> k]
    BY <1>1, <2>1
  <2> HIDE DEF f
  <2> QED BY <2>2 DEF Spared
<1>4. CASE UNCHANGED vars
  BY <1>2, <1>4 DEF vars
<1>5. CASE Next
  <2>1. CASE \/ BeginDiscovery \/ Assemble \/ EndDiscovery \/ \E due \in SUBSET Race : BeginCycle(due)
             \/ \E withFar \in BOOLEAN : BeginFast(withFar)
    BY <1>2, <2>1 DEF BeginDiscovery, Assemble, EndDiscovery, BeginCycle, BeginFast
  <2>2. CASE \/ (\E b \in Book : BookIndexed(b)) \/ FastIndexed \/ SportsbetAnswers
    BY <1>3, <2>2 DEF BookIndexed, FastIndexed, SportsbetAnswers
  <2>3. ASSUME NEW r \in Race, TabAnswers(r) \/ BooksAnswer(r) \/ CorpAnswers(r)
        PROVE  Spared
    BY <1>3, <2>3 DEF TabAnswers, BooksAnswer, CorpAnswers, Answer
  <2>4. ASSUME NEW r \in Race, ExchangeAnswers(r) \/ Add(r)
        PROVE  Spared
    BY <1>2, <2>4 DEF ExchangeAnswers, Add
  <2>5. CASE Outside
    BY <1>2, <1>3, <2>5 DEF Outside, Move, Advance, PutBack, Flag, SessionAges, IndexAges, Expire
  <2> QED BY <1>5, <2>1, <2>2, <2>3, <2>4, <2>5, StepKinds
<1> QED BY <1>4, <1>5

\* A race that a step takes off the board, and may.
Leaves(r) ==
    board[r].on /\ ~board'[r].on =>
        phase[r] = "gone" \/ mishaps'.kills # mishaps.kills \/ setup.carried[r] \subseteq disc.dark

LEMMA CardsStep ==
    ASSUME TypeInv, BoardInv, Next, ~Restart
    PROVE  /\ Carded' /\ KeptInv' /\ \A r \in Race : Leaves(r)
<1>1. ASSUME UNCHANGED <<setup, phase, index, dark, disc>>, \A r \in Race : board[r].on => board'[r].on
      PROVE  Carded' /\ KeptInv' /\ \A r \in Race : Leaves(r)
  BY <1>1, KeptStays DEF Leaves
<1>2. ASSUME UNCHANGED <<setup, phase, board>>, Carded', KeptInv'
      PROVE  Carded' /\ KeptInv' /\ \A r \in Race : Leaves(r)
  BY <1>2 DEF Leaves
<1>3. CASE BeginDiscovery
  <2>1. disc'.step = "index" /\ UNCHANGED <<setup, phase, board, index, dark>>
    BY <1>3 DEF BeginDiscovery, NoDiscovery, world
  <2> QED BY <1>2, <2>1 DEF BoardInv, Carded, Handles, KeptInv
<1>4. ASSUME NEW b \in Book, BookIndexed(b)
      PROVE  Carded' /\ KeptInv' /\ \A r \in Race : Leaves(r)
  <2>1. PICK ok \in BOOLEAN : Indexed(b, ok)
    BY <1>4 DEF BookIndexed
  <2>2. UNCHANGED <<setup, phase, board>> /\ disc' = [disc EXCEPT !.pending = @ \ {b}]
    BY <1>4 DEF BookIndexed, world
  <2>3. disc \in Discoveries
    BY DEF TypeInv, LoopsOK
  <2>4. disc'.step = disc.step /\ disc'.keep = disc.keep /\ disc'.dark = disc.dark
    BY <2>2, <2>3 DEF Discoveries
  <2>5. KeptInv'
    BY <2>2, <2>4 DEF BoardInv, KeptInv, Dropped
  <2>6. Carded'
    BY <2>1, <2>2, CardsKept DEF BoardInv
  <2> QED BY <1>2, <2>2, <2>5, <2>6
<1>5. CASE Assemble
  <2>1. /\ board' = [r \in Race |-> IF r \in Found /\ ~board[r].on THEN Entry(r) ELSE board[r]]
        /\ disc' = [disc EXCEPT !.step = "exchange", !.keep = Found, !.dark = dark]
        /\ UNCHANGED <<setup, phase, index, dark>>
    BY <1>5 DEF Assemble, world
  <2>2. disc \in Discoveries
    BY DEF TypeInv, LoopsOK
  <2>3. disc'.keep = Found /\ disc'.dark = dark
    BY <2>1, <2>2 DEF Discoveries
  <2>4. ASSUME NEW r \in Race \ Found, phase[r] # "gone" PROVE setup.carried[r] \subseteq dark
    <3>1. Starts(r) = {}
      BY <2>4 DEF Found, InWindow
    <3>2. ASSUME NEW b \in Book \ dark, b \in setup.carried[r] PROVE FALSE
      <4>1. PICK s \in BOOLEAN : Handles(b, r, s)
        BY <3>2 DEF BoardInv, Carded
      <4> QED BY <3>1, <4>1 DEF Starts
    <3>3. setup.carried[r] \subseteq Book
      BY BoardAssumption DEF TypeInv, WorldOK
    <3> QED BY <3>2, <3>3
  <2>5. KeptInv'
    BY <2>1, <2>3, <2>4 DEF KeptInv, Dropped
  <2>6. Carded'
    BY <2>1 DEF BoardInv, Carded, Handles
  <2>7. \A r \in Race : board[r].on => board'[r].on
    BY <2>1
  <2> QED BY <2>5, <2>6, <2>7 DEF Leaves
<1>6. CASE EndDiscovery
  <2>1. /\ disc.step = "exchange" /\ disc' = NoDiscovery /\ UNCHANGED <<setup, phase, index, dark>>
        /\ board' = [r \in Race |-> IF r \in disc.keep THEN board[r] ELSE Off]
    BY <1>6 DEF EndDiscovery, world
  <2>2. Carded' /\ KeptInv'
    BY <2>1 DEF BoardInv, Carded, Handles, KeptInv, NoDiscovery
  <2>3. ASSUME NEW r \in Race PROVE Leaves(r)
    <3>1. CASE r \in disc.keep
      BY <2>1, <3>1 DEF Leaves
    <3>2. CASE r \notin disc.keep
      BY <2>1, <3>2 DEF BoardInv, KeptInv, Dropped, Leaves
    <3> QED BY <3>1, <3>2
  <2> QED BY <2>2, <2>3
<1>7. ASSUME NEW due \in SUBSET Race, BeginCycle(due)
      PROVE  Carded' /\ KeptInv' /\ \A r \in Race : Leaves(r)
  <2>1. UNCHANGED <<setup, phase, index, dark, disc, board>>
    BY <1>7 DEF BeginCycle, world
  <2> QED BY <1>1, <2>1
<1>8. ASSUME NEW r \in Race, TabAnswers(r) \/ BooksAnswer(r) \/ ExchangeAnswers(r) \/ CorpAnswers(r)
      PROVE  Carded' /\ KeptInv' /\ \A x \in Race : Leaves(x)
  <2>1. Unmoved /\ board' = board
    BY <1>8 DEF TabAnswers, BooksAnswer, ExchangeAnswers, CorpAnswers
  <2>2. UNCHANGED <<setup, phase, index, dark, disc>>
    BY <2>1 DEF Unmoved, world
  <2> QED BY <1>1, <2>1, <2>2
<1>9. ASSUME NEW r \in Race, Add(r)
      PROVE  Carded' /\ KeptInv' /\ \A x \in Race : Leaves(x)
  <2>1. UNCHANGED <<setup, phase, index, dark, disc>>
    BY <1>9 DEF Add, Unmoved, world
  <2>2. \A x \in Race : board[x].on => board'[x].on
    BY <1>9, AddFacts
  <2> QED BY <1>1, <2>1, <2>2
<1>10. ASSUME NEW withFar \in BOOLEAN, BeginFast(withFar)
       PROVE  Carded' /\ KeptInv' /\ \A r \in Race : Leaves(r)
  <2>1. UNCHANGED <<setup, phase, index, dark, disc, board>>
    BY <1>10 DEF BeginFast, world
  <2> QED BY <1>1, <2>1
<1>11. CASE FastIndexed
  <2>1. PICK ok \in BOOLEAN : Indexed(Sportsbet, ok)
    BY <1>11 DEF FastIndexed
  <2>2. UNCHANGED <<setup, phase, board, disc>>
    BY <1>11 DEF FastIndexed, world
  <2>3. Carded'
    BY <2>1, <2>2, CardsKept, Values DEF BoardInv
  <2>4. KeptInv'
    BY <2>2 DEF BoardInv, KeptInv, Dropped
  <2> QED BY <1>2, <2>2, <2>3, <2>4
<1>12. CASE SportsbetAnswers
  <2>1. UNCHANGED <<setup, phase, index, dark, disc>>
    BY <1>12 DEF SportsbetAnswers, world
  <2>2. \A r \in Race : board[r].on => board'[r].on
    BY <1>12, AnswersFacts, ApplyFacts
  <2> QED BY <1>1, <2>1, <2>2
<1>13. CASE Outside
  <2>1. /\ UNCHANGED <<setup, index, board, disc, dark>>
        /\ \A r \in Race : phase[r] = "gone" => phase'[r] = "gone"
    BY <1>13, OutsideFacts
  <2> QED BY <2>1, KeptStays DEF Leaves
<1> QED BY <1>3, <1>4, <1>5, <1>6, <1>7, <1>8, <1>9, <1>10, <1>11, <1>12, <1>13, StepKinds

LEMMA BoardStep ==
    ASSUME TypeInv, BoardInv, [Next]_vars
    PROVE  BoardInv' /\ \A r \in Race : Leaves(r)
<1>1. CASE UNCHANGED vars
  BY <1>1, KeptStays, SparedStep
     DEF vars, world, BoardInv, Leaves
<1>2. CASE Restart
  <2>1. /\ index' = NoIndex /\ dark' = Book /\ disc' = NoDiscovery
        /\ mishaps' = [mishaps EXCEPT !.kills = @ + 1]
    BY <1>2 DEF Restart
  <2>2. Carded' /\ KeptInv'
    BY <2>1 DEF Carded, KeptInv, NoDiscovery
  <2>3. mishaps.kills \in Nat /\ mishaps = [faults |-> mishaps.faults, kills |-> mishaps.kills]
    BY DEF BoardInv
  <2> DEFINE f == mishaps.faults
             k == mishaps.kills + 1
  <2>4. mishaps' = [faults |-> f, kills |-> k]
    BY <2>1, <2>3
  <2>5. k \in Nat /\ k # mishaps.kills
    BY <2>3
  <2> HIDE DEF k
  <2>6. mishaps'.kills = k /\ mishaps' = [faults |-> mishaps'.faults, kills |-> mishaps'.kills]
    BY <2>4
  <2> QED BY <2>2, <2>5, <2>6 DEF BoardInv, Leaves
<1>3. CASE Next /\ ~Restart
  <2>1. Carded' /\ KeptInv' /\ \A r \in Race : Leaves(r)
    BY <1>3, CardsStep
  <2>2. Spared
    BY <1>3, SparedStep
  <2> QED BY <2>1, <2>2 DEF BoardInv, Spared
<1> QED BY <1>1, <1>2, <1>3

\* For any cards that come and go, any failed call and any restart: a race leaves the board
\* only when past_grace_seconds are over, when the process is killed, or when every book
\* that carries it was dark when the discovery that drops it looked.
THEOREM RacesStay == Spec => RacesStayThroughTheJump
<1>1. Init => BoardInv
  BY DEF Init, BoardInv, Carded, KeptInv, NoDiscovery
<1>2. TypeInv /\ BoardInv /\ [Next]_vars => BoardInv'
  BY BoardStep
<1>3. TypeInv /\ BoardInv /\ [Next]_vars =>
        [\A r \in Race : board[r].on /\ ~board'[r].on =>
            \/ phase[r] = "gone"
            \/ mishaps'.kills # mishaps.kills
            \/ setup.carried[r] \subseteq disc.dark]_vars
  BY BoardStep DEF Leaves
<1> QED BY <1>1, <1>2, <1>3, BoardInvariant, PTL DEF Spec, RacesStayThroughTheJump
================================================================================
