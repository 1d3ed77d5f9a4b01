\* One race in several setups.
SPECIFICATION Spec
CONSTANTS
    r1 = r1
    r2 = r2
    sportsbet_book = sportsbet_book
    tab_book = tab_book
    Race = {r1, r2}
    Book = {sportsbet_book, tab_book}
    Sportsbet = sportsbet_book
    Tab = tab_book
    Setups <- MCSetups
INVARIANTS
    StampIsHonest
PROPERTIES
    
    NoQuoteFreezes
    ResultsAreLabelled
