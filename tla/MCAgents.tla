------------------------------- MODULE MCAgents -------------------------------
\* A small instance of AgentPlane for TLC: one team and its providers; two runs of one
\* process beside each other over a midnight; two processes, one of which may be killed.
EXTENDS AgentPlane

CONSTANTS p1, p2, r1, r2, book, racing

Call(sig, kind, provider) == [sig |-> sig, kind |-> kind, provider |-> provider]
Odds(k) == Call(k, "data", book)
Racing == Call(3, "data", racing)
Found == Call(4, "found", racing)
Native(k) == Call(k, "native", book)
Ask == Call(9, "delegate", book)

Says(flaws) == [calls |-> <<>>, flaws |-> flaws]
Final == Says({})
Wants(batch) == [calls |-> batch, flaws |-> {}]
Quiet(answers) == [root |-> answers, delegate |-> {Final}]

\* Answers of every kind; requests of the root and of its delegate; one provider is denied.
Team ==
    [cap |-> 9, home |-> [r \in Run |-> p1], deny |-> [r \in Run |-> {racing}],
     answers |-> [root |-> {Final, Says({"full"}), Says({"form"}),
                            Says({"facts"}), Wants(<<Odds(1), Ask>>), Wants(<<Odds(1), Racing, Found>>)},
                  delegate |-> {Final, Wants(<<Odds(2), Odds(1)>>)}],
     dear |-> 1, runs |-> {r1}, until |-> 0, kills |-> 0, faults |-> 1]
\* A dear delegate: the ceiling, and calls of unequal cost.
Dear == [Team EXCEPT !.answers = [root |-> {Final, Wants(<<Ask>>), Wants(<<Native(1)>>)},
                                  delegate |-> {Final, Wants(<<Native(2)>>)}],
                     !.dear = 2]
\* Two runs of one process, and the period turns.
Beside == [Team EXCEPT !.cap = 2, !.runs = {r1, r2}, !.until = 1, !.answers = Quiet({Final, Wants(<<Native(1)>>)})]
\* Two processes: rows are read, lost, and late.
Apart == [Beside EXCEPT !.home = [r \in Run |-> IF r = r1 THEN p1 ELSE p2], !.kills = 1, !.faults = 2]
AllSetups == {Team, Dear, Beside, Apart}
=============================================================================
