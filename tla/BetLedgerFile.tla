---------------------------- MODULE BetLedgerFile ----------------------------
(***************************************************************************)
(* The ledger file itself: lines appended one at a time, read back whole,  *)
(* with the sums of betting/ledger.py taken over the lines that parse.     *)
(* The tally is the ledger value BettingPlane computes with; here it is    *)
(* moved by the same appends and compared with what the readers return.    *)
(***************************************************************************)
EXTENDS BetLedger, Totals, FiniteSetsExt

CONSTANTS Rows,      \* rows that may be appended
          MaxLines,  \* bound: lines in the file
          MaxTears   \* bound: appends cut short by a crash or a full disk

ASSUME RowAssumption == Rows \subseteq Row /\ MaxLines \in Nat /\ MaxTears \in Nat

VARIABLES
    lines,    \* the file: each line a row, or text that does not parse
    newline,  \* the file ends with a newline
    tally,    \* the ledger after the appends that completed
    appended, \* how many those are
    tears

fileVars == <<lines, newline, tally, appended, tears>>

Lines == [row : Rows, parses : BOOLEAN]

\* The file is lines of rows, torn or not, and the sums kept beside it are never
\* negative but for the exposure.
FileTypeOK ==
    /\ lines \in Seq(Lines) /\ Len(lines) <= MaxLines
    /\ newline \in BOOLEAN
    /\ tally \in Ledgers
    /\ appended \in Nat /\ tears \in 0..MaxTears

FileInit ==
    /\ lines = <<>> /\ newline = TRUE
    /\ tally = EmptyLedger
    /\ appended = 0 /\ tears = 0

\* Text written in append mode lands after whatever the file ends with: behind an
\* unfinished line it becomes part of that line.
Written(row, parses) ==
    IF newline
    THEN Append(lines, [row |-> row, parses |-> parses])
    ELSE [lines EXCEPT ![Len(lines)].parses = FALSE]

Record(row) ==
    /\ Len(lines) < MaxLines
    /\ lines' = Written(row, TRUE)
    /\ newline' = TRUE
    /\ tally' = AppendRow(tally, row)
    /\ appended' = appended + 1
    /\ UNCHANGED tears

\* The writer dies inside the write: part of the line is there, perhaps all of it
\* but the newline.
Tear(row, parses) ==
    /\ Len(lines) < MaxLines /\ tears < MaxTears
    /\ lines' = Written(row, parses)
    /\ newline' = FALSE
    /\ tears' = tears + 1
    /\ UNCHANGED <<tally, appended>>

FileNext == \E row \in Rows : Record(row) \/ \E parses \in BOOLEAN : Tear(row, parses)

FileSpec == FileInit /\ [][FileNext]_fileVars

(***************************************************************************)
(* The readers                                                             *)
(***************************************************************************)

\* __iter__: lines that do not parse are passed over.
Readable == {n \in DOMAIN lines : lines[n].parses}
PlacedLines == {n \in Readable : lines[n].row.status = "placed"}
PlacedOnDay(d) == {n \in PlacedLines : lines[n].row.day = d}

\* The stakes of some of the lines, in the order of the file.
StakesOf(some) == [n \in DOMAIN lines |-> IF n \in some THEN lines[n].row.stake ELSE 0]

StakedOn(d) == Total(StakesOf(PlacedOnDay(d)))
BetsOn(d) == Cardinality(PlacedOnDay(d))

\* No receipt says "settled" when the bet is placed, so only a "rejected" row
\* takes a bet out of the exposure.
Closed == {lines[n].row.id : n \in {m \in Readable : lines[m].row.status = "rejected"}}
AtRisk == {n \in PlacedLines : lines[n].row.id \notin Closed}
ExposureRead == Total(StakesOf(AtRisk))

LatestOf(i) ==
    LET of == {n \in Readable : lines[n].row.id = i}
    IN  IF of = {} THEN "none" ELSE lines[Max(of)].row.status

(***************************************************************************)
(* Properties                                                              *)
(***************************************************************************)

\* While no append has been cut short, the ledger value the plane is modelled with
\* is what the readers return; and a torn line costs the arithmetic at most one row whose
\* append completed.
TallyMatchesFile ==
    /\ FileTypeOK
    /\ appended <= Cardinality(Readable) + tears
    /\ tears = 0 =>
           /\ \A d \in Day : StakedOn(d) = tally.staked[d] /\ BetsOn(d) = tally.bets[d]
           /\ ExposureRead = tally.open
           /\ \A i \in Id : LatestOf(i) = tally.latest[i]
=============================================================================
