------------------------------- MODULE Cadence -------------------------------
(***************************************************************************)
(* The cadence FrameTracker::finish attributes to an app: the rate each    *)
(* valid window proposes, and when a faster or a slower one is believed.   *)
(* Which rate a stream of intervals proposes is left out (an input).       *)
(***************************************************************************)
EXTENDS Naturals, Sequences, FiniteSets

CONSTANTS
    Rates,       \* rates, 1..Rates, slowest first
    RaiseAfter,  \* faster windows before a raise (3)
    LowerAfter,  \* slower windows before it is lowered (10)
    MaxCompared  \* bound: windows compared with one cadence

ASSUME CadenceBounds == {Rates, RaiseAfter, LowerAfter, MaxCompared} \subseteq Nat \ {0}

VARIABLES
    cadence,  \* FrameTracker::cadence, 0 when the app is new
    faster,   \* FrameTracker::faster
    slower,   \* FrameTracker::slower
    cap,      \* adaptive_target_fps of the window
    log       \* ghost: what each window said of the cadence since it was adopted

cadenceVars == <<cadence, faster, slower, cap, log>>

CadenceInit ==
    cadence = 0 /\ faster = 0 /\ slower = 0 /\ cap \in 1..Rates /\ log = <<>>

\* A window is compared with a cadence the user's cap still allows; otherwise
\* what it proposes is the cadence, and the counts stay as they are.
Compared == cadence \in 1..cap

Adopt(best) == cadence' = best /\ faster' = 0 /\ slower' = 0 /\ log' = <<>>

Say(word) == Len(log) < MaxCompared /\ log' = Append(log, word)

Uncompared(best) ==
    /\ ~Compared /\ best <= cap
    /\ cadence' = best
    /\ UNCHANGED <<faster, slower, cap, log>>

Same ==
    /\ Compared
    /\ faster' = 0 /\ slower' = 0 /\ Say("same")
    /\ UNCHANGED <<cadence, cap>>

\* MUTANT of Believed: the window that makes the count is not waited for.
BelievedEarly(count, needed) == count + 2 >= needed

Believed(count, needed) == count + 1 >= needed

Faster(best) ==
    /\ Compared /\ best \in cadence + 1..cap
    /\ IF Believed(faster, RaiseAfter) THEN Adopt(best)
       ELSE faster' = faster + 1 /\ Say("faster") /\ UNCHANGED <<cadence, slower>>
    /\ UNCHANGED cap

\* A slower window counts unless a share of it (.05) still ran at the cadence.
Counts(held) == ~held

Slower(best, held) ==
    /\ Compared /\ best < cadence
    /\ faster' = 0
    /\ IF Counts(held) /\ Believed(slower, LowerAfter)
       THEN cadence' = best /\ slower' = 0 /\ log' = <<>>
       ELSE /\ slower' = IF Counts(held) THEN slower + 1 ELSE slower
            /\ Say(IF held THEN "held" ELSE "slower")
            /\ UNCHANGED cadence
    /\ UNCHANGED cap

\* FrameTracker::reset, on another app or layer.
Reset ==
    /\ cadence' = 0 /\ faster' = 0 /\ slower' = 0 /\ log' = <<>>
    /\ UNCHANGED cap

\* The user edits the cap between two windows.
Recap ==
    /\ cap' \in 1..Rates
    /\ UNCHANGED <<cadence, faster, slower, log>>

CadenceNext ==
    \/ Same \/ Reset \/ Recap
    \/ \E best \in 1..Rates : Uncompared(best) \/ Faster(best)
    \/ \E best \in 1..Rates : \E held \in BOOLEAN : Slower(best, held)

CadenceSpec == CadenceInit /\ [][CadenceNext]_cadenceVars

-----------------------------------------------------------------------------
(* Properties *)

\* The windows since the last one at the cadence itself.
SinceSame ==
    LET same == {i \in DOMAIN log : log[i] = "same"}
    IN  {i \in DOMAIN log : \A j \in same : j < i}

\* "raising waits three": a faster rate is adopted over one the cap allows only
\* when the two windows compared before it, too, were faster. "One bad scene
\* cannot redefine intent": a slower one only after nine windows compared before
\* it did not reach the cadence at all, none since running at it as its own rate.
ChangeEarned ==
    [][Compared =>
         /\ cadence' > cadence =>
               /\ Len(log) >= RaiseAfter - 1
               /\ \A i \in Len(log) - RaiseAfter + 2..Len(log) : log[i] = "faster"
         /\ cadence' \in 1..cadence - 1 =>
               Cardinality({i \in SinceSame : log[i] = "slower"}) >= LowerAfter - 1
      ]_cadenceVars

=============================================================================
