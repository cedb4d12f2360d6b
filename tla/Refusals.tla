------------------------------ MODULE Refusals ------------------------------
(***************************************************************************)
(* The back-off of refused axes (module/engine/platform.cpp, RefusalState). *)
(* The code keeps instants and compares them with the current tick; here a  *)
(* record keeps the seconds left until `blockedUntil` and the seconds since *)
(* `lastChange`, which Elapse moves on together with the clock.             *)
(***************************************************************************)
EXTENDS Integers

CONSTANTS
    Axis,           \* tuning axes (4 in the code)
    MaxRefusals,    \* refusals that hold an axis off (5)
    BackoffSec,     \* seconds one refusal blocks the axis (120)
    DecaySec        \* quiet seconds until one refusal is forgotten (900)

ASSUME RefusalsAssumption ==
    /\ MaxRefusals \in Nat \ {0} /\ BackoffSec \in Nat \ {0} /\ DecaySec \in Nat
    /\ BackoffSec < DecaySec

RefusalState ==
    [Axis -> [count : 0 .. MaxRefusals, blocked : 0 .. BackoffSec, quiet : 0 .. DecaySec]]

NoRefusals == [a \in Axis |-> [count |-> 0, blocked |-> 0, quiet |-> 0]]

\* Seconds saturate where no comparison can tell them apart any more.
Elapsed(seconds, dt, cap) == IF seconds + dt >= cap THEN cap ELSE seconds + dt

Elapse(r, dt) ==
    [a \in Axis |-> [r[a] EXCEPT !.blocked = IF @ > dt THEN @ - dt ELSE 0,
                                 !.quiet = Elapsed(@, dt, DecaySec)]]

\* MUTANT of AxisAvailable: the count of refusals is not consulted.
AvailableAfterBackoff(r, a) == r[a].blocked = 0

AxisAvailable(r, a) == r[a].count < MaxRefusals /\ r[a].blocked = 0

AxisRejected(r, a) ==
    [r EXCEPT ![a] = [count |-> @.count + 1, blocked |-> BackoffSec, quiet |-> 0]]

\* MUTANT of DecayRefusals: refusals are never forgotten.
DecayNothing(r) == r

\* One refusal is forgotten after DecaySec; the next needs as long again.
DecayRefusals(r) ==
    [a \in Axis |->
        IF r[a].count > 0 /\ r[a].quiet = DecaySec
        THEN [count |-> r[a].count - 1, quiet |-> 0,
              blocked |-> IF r[a].count = 1 THEN 0 ELSE r[a].blocked]
        ELSE r[a]]

=============================================================================
