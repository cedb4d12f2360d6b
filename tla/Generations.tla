----------------------------- MODULE Generations -----------------------------
(***************************************************************************)
(* adaptive_history.csv and its three older generations: rows appended     *)
(* every window, a header each new file starts with, and rotateGenerations *)
(* (an unlink and a chain of renames) that SIGKILL may cut anywhere.       *)
(***************************************************************************)
EXTENDS Naturals, FiniteSets

CONSTANTS
    Keep,      \* generations kept (3)
    MaxFiles,  \* bound: history files begun
    MaxCuts    \* bound: kills

ASSUME GenerationBounds ==
    Keep \in Nat \ {0} /\ MaxFiles \in Nat /\ MaxCuts \in Nat

VARIABLES
    gens,     \* 0 the live file, 1..Keep the older ones: its serial, 0 if absent
    state,    \* of the live file: "bare" before its header, "rows", "full"
    at,       \* where the daemon stands in them: Idle, Header, Drop, or the rename left
    begun,    \* serial of the last file begun
    whole,    \* ghost: serials of the files that ever held rows
    cuts      \* kills so far

Idle == 0
Drop == Keep + 1
Header == Keep + 2

generationVars == <<gens, state, at, begun, whole, cuts>>

GenerationInit ==
    /\ gens = [i \in 0..Keep |-> 0] /\ state = "bare" /\ at = Idle
    /\ begun = 0 /\ whole = {} /\ cuts = 0

\* openHistory and the row the daemon writes: a file that exists, is not over
\* its limit and starts with this build's header is appended to.
AppendRow ==
    /\ at = Idle /\ gens[0] # 0 /\ state = "rows"
    /\ \E s \in {"rows", "full"} : state' = s
    /\ UNCHANGED <<gens, at, begun, whole, cuts>>

\* A new file, opened: the header and the first row are still in the stream.
Begin ==
    /\ at = Idle /\ gens[0] = 0 /\ begun < MaxFiles
    /\ gens' = [gens EXCEPT ![0] = begun + 1]
    /\ begun' = begun + 1 /\ state' = "bare" /\ at' = Header
    /\ UNCHANGED <<whole, cuts>>

\* ... and closed at the end of the window.
Flush ==
    /\ at = Header
    /\ at' = Idle /\ state' = "rows" /\ whole' = whole \cup {gens[0]}
    /\ UNCHANGED <<gens, begun, cuts>>

\* Over the limit, or without this build's header: what is there is rotated.
Outgrown == state \in {"full", "bare"}

RotateStart ==
    /\ at = Idle /\ gens[0] # 0 /\ Outgrown
    /\ at' = Drop
    /\ UNCHANGED <<gens, state, begun, whole, cuts>>

\* unlink of the oldest.
RotateDrop ==
    /\ at = Drop
    /\ gens' = [gens EXCEPT ![Keep] = 0]
    /\ at' = Keep
    /\ UNCHANGED <<state, begun, whole, cuts>>

\* rename(i - 1, i); one that is absent leaves i as it is.
Shifted(i) ==
    IF gens[i - 1] = 0 THEN gens
    ELSE [gens EXCEPT ![i] = gens[i - 1], ![i - 1] = 0]

\* MUTANT of Following: the chain of renames runs upwards.
FollowingUp(i) == IF i = Keep THEN 1 ELSE Idle

\* From the oldest down, the live file last.
Following(i) == IF i = 1 THEN Idle ELSE i - 1

RotateShift ==
    /\ at \in 1..Keep
    /\ gens' = Shifted(at) /\ at' = Following(at)
    /\ UNCHANGED <<state, begun, whole, cuts>>

\* SIGKILL: what was not flushed is gone, the renames that were made stay.
Cut ==
    /\ cuts < MaxCuts /\ cuts' = cuts + 1
    /\ at' = Idle
    /\ UNCHANGED <<gens, state, begun, whole>>

GenerationNext ==
    \/ AppendRow \/ Begin \/ Flush \/ RotateStart \/ RotateDrop \/ RotateShift \/ Cut

GenerationSpec == GenerationInit /\ [][GenerationNext]_generationVars

-----------------------------------------------------------------------------
(* Properties *)

Held == {gens[i] : i \in 0..Keep} \ {0}

\* "a long session keeps enough evidence to investigate": the newest files that
\* held rows are there, Keep of them, less one for each kill (the file it leaves
\* without a header pushes another out; what a cut rotation dropped it had to).
NewestKept ==
    \A f \in whole \ Held :
        Cardinality({g \in whole : g > f}) + cuts >= Keep

=============================================================================
