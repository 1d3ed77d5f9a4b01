------------------------------- MODULE MCFantasy -------------------------------
\* A small instance of FantasyPlane for TLC: two transfers and two line-ups, one after the
\* other with losses and kills, or overlapping; and the watch on its own.
EXTENDS FantasyPlane

CONSTANTS a, b, c

Swap(x, y, chip) == [action |-> "transfer", out |-> x, in |-> y, chip |-> chip]
Line(k, chip) == [action |-> "lineup", order |-> k, players |-> {}, chip |-> chip]

Pol(platform, lineup, transfers, hit, quiet) ==
    [platform |-> platform, lineup |-> lineup, transfers |-> transfers, chips |-> "ask",
     max_hit |-> hit, act_within |-> 2, quiet |-> quiet]

Setup(policy, intents, commands, n, until) ==
    [policy |-> policy, intents |-> intents, commands |-> commands, acts |-> n, until |-> until,
     serial |-> TRUE, kills |-> 0, faults |-> 0, dark |-> FALSE]

Ask(platform) == Pol(platform, "ask", "ask", 0, {})
Both == {Swap(a, b, FALSE), Swap(b, c, FALSE)}

\* The owner approves, rejects, or lets lapse; a command may be killed.
Refusals == [Setup(Ask("fpl"), {Swap(a, b, FALSE)}, {"tick", "approve", "reject"}, 2, 2) EXCEPT !.kills = 1]
\* Two transfers that depend on each other; a read or an answer may be lost.
Losses == [Setup(Ask("fpl"), Both, {"tick", "approve"}, 2, 2) EXCEPT !.faults = 1]
\* The policy acts on its own, outside its quiet hours and when it costs nothing.
Unattended ==
    [Setup(Pol("fpl", "auto", "auto_if_free", 0, {1}), Both \union {Line(2, FALSE), Line(2, TRUE)},
           {"tick", "approve"}, 2, 2) EXCEPT !.faults = 1]
\* Commands and ticks beside each other.
Beside == [Setup(Ask("fpl"), Both, {"tick", "approve", "reject"}, 2, 0) EXCEPT !.serial = FALSE]
\* The watch: sessions that expire, checks that fail, ticks that are killed.
Watching == [Setup(Ask("fpl"), {}, {"tick"}, 0, 3) EXCEPT !.dark = TRUE, !.kills = 1, !.faults = 3]
\* The platform that verifies by membership only.
Members == Setup(Ask("mfl"), {Swap(a, b, FALSE), Line(2, FALSE)}, {"tick", "approve"}, 2, 2)
\* The platform with a rolling deadline, and an agent run by hand beside the tick.
Rolling == [Setup(Pol("espn", "ask", "auto", 0, {}), {Swap(a, b, FALSE), Line(2, FALSE)},
                  {"agent", "approve", "tick"}, 2, 1) EXCEPT !.serial = FALSE]
AllSetups == {Refusals, Losses, Unattended, Beside, Watching, Members, Rolling}

MCLadder == <<[within |-> 1, cool |-> 1], [within |-> 3, cool |-> 2], [within |-> 4, cool |-> 4]>>
=============================================================================
