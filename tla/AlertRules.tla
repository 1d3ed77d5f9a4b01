------------------------------ MODULE AlertRules ------------------------------
(***************************************************************************)
(* What makes two alerts the same, and when a watch tells of something     *)
(* again (operations/monitoring.py).                                       *)
(*                                                                         *)
(* A candidate is what a scan found: a story (an event and market), of a   *)
(* race or match under that name, with a tag (the direction of a move, an  *)
(* edge, an edge gone) and the band its size falls in.  An alert is a row  *)
(* of the alerts table.                                                    *)
(***************************************************************************)
EXTENDS Integers, Sequences, SequencesExt

CONSTANTS
    Window,     \* params.window_minutes: no second alert with one key
    Cooldown    \* _cooled_down: how long a growing edge waits

\* The kinds that differ in how they alert; back_lay, exchange_value and stat_value
\* are as arb, scratching and prediction_value as line_move.
Kinds == {"line_move", "steam", "arb", "inplay_arb", "racing_value", "bsp_value",
          "model_value", "value"}
MoveKinds == {"line_move", "steam"}

\* Kinds that look at the last alert of the story, however old, and those that also wait.
Ratchets == {"racing_value", "bsp_value", "model_value", "value"}
Cooled == {"model_value", "value"}

\* Races go by venue and number, with no date; every other story is one event.
Story(kind, c) == <<c.story, IF kind = "racing_value" THEN 0 ELSE c.race>>

AnyBand == 0
BandOf(kind, c) == IF kind = "line_move" \/ c.tag = "gone" THEN AnyBand ELSE c.band
Key(kind, c) == <<Story(kind, c), c.tag, BandOf(kind, c)>>

\* The last alert of the story, if there is one.
LastTold(alerts, s, kind, c) ==
    LET last == SelectLastInSeq(alerts, LAMBDA a :
                    /\ a.sub = s /\ Story(kind, a) = Story(kind, c)
                    /\ a.tag \in {"edge", "gone"})
    IN {alerts[i] : i \in {last} \ {0}}

GrewOrWaited(kind, prior, c, at) ==  \* mutant
    c.band > prior.band \/ at - prior.at >= Cooldown
Grown(kind, prior, c, at) ==
    /\ c.band > prior.band
    /\ kind \in Cooled => at - prior.at >= Cooldown

\* The watch's own test: an edge that did not grow is not news, and an edge is gone
\* only if it was told of.
IsNews(alerts, s, kind, c, at) ==
    IF c.tag = "gone" THEN \E a \in LastTold(alerts, s, kind, c) : a.tag = "edge"
    ELSE kind \in Ratchets =>
            \A a \in LastTold(alerts, s, kind, c) : a.tag = "gone" \/ Grown(kind, a, c, at)

\* _fire: the same key inside the window.
SameStory(alerts, s, kind, c, at) ==  \* mutant
    \E i \in DOMAIN alerts :
        /\ alerts[i].sub = s /\ Story(kind, alerts[i]) = Story(kind, c)
        /\ alerts[i].at >= at - Window
Pushed(alerts, s, kind, c, at) ==  \* mutant
    \E i \in DOMAIN alerts :
        /\ alerts[i].sub = s /\ alerts[i].pushed /\ Key(kind, alerts[i]) = Key(kind, c)
        /\ alerts[i].at >= at - Window
IsRepeat(alerts, s, kind, c, at) ==
    \E i \in DOMAIN alerts :
        /\ alerts[i].sub = s /\ Key(kind, alerts[i]) = Key(kind, c)
        /\ alerts[i].at >= at - Window
=============================================================================
