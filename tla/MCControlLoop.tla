---------------------------- MODULE MCControlLoop ----------------------------
(* Instances of ControlLoop.  Each run varies the parts of a window its      *)
(* question is about and keeps the rest at a calm rendering window.          *)
EXTENDS ControlLoop

Calmly == [session |-> "game", heat |-> "cool", near |-> FALSE, ready |-> TRUE,
           frames |-> TRUE, bench |-> FALSE, mode |-> "learn", usable |-> TRUE,
           steady |-> TRUE, trim |-> FALSE, open |-> Axis, span |-> 6, slept |-> 0]

\* One app; two apps, and a third beside which a conflicting tuner runs.
OneApp == [s \in {"game"} |-> "game"]
ThreeApps == [s \in {"game", "chat", "rival"} |-> s]

OneTop == [a \in {"cpu"} |-> 1]
BothTop == [a \in {"cpu", "pelt"} |-> IF a = "cpu" THEN 1 ELSE 2]

\* Pairs: what breaks one (an unusable window, another cadence, a sleep, a trim)
\* in either app; heat, the charge, the screen and the mode one at a time.
CreditScenes ==
    UNION {{[Calmly EXCEPT !.session = s], [Calmly EXCEPT !.session = s, !.steady = FALSE],
            [Calmly EXCEPT !.session = s, !.trim = TRUE],
            [Calmly EXCEPT !.session = s, !.usable = FALSE],
            [Calmly EXCEPT !.session = s, !.slept = 6]} : s \in {"game", "chat"}}
    \cup {[Calmly EXCEPT !.heat = h] : h \in {"warm", "hot", "blind"}}
    \cup {[Calmly EXCEPT !.mode = m] : m \in {"frozen", "observe"}}
    \cup {[Calmly EXCEPT !.near = TRUE], [Calmly EXCEPT !.ready = FALSE],
          [Calmly EXCEPT !.frames = FALSE], [Calmly EXCEPT !.bench = TRUE],
          [Calmly EXCEPT !.session = "rival"]}

\* Heat only.
HeatScenes == {[Calmly EXCEPT !.heat = h, !.span = 9] : h \in {"cool", "warm", "hot"}}

\* The configuration closes the PELT axis (adaptive_pelt=0) or leaves it open.
ToggleScenes == {[Calmly EXCEPT !.open = o] : o \in {{"cpu"}, {"cpu", "pelt"}}}
=============================================================================
