---------------------------- MODULE FloorTarget ----------------------------
(***************************************************************************)
(* The arithmetic of Actuator::apply (module/engine/platform.cpp): which    *)
(* value a level of an axis asks a node to hold.  A frequency table is the  *)
(* strictly increasing sequence frequencyTable() returns; the values are    *)
(* whatever unit the node uses.                                             *)
(***************************************************************************)
EXTENDS Naturals, Sequences, FiniteSets

\* Levels of an axis: 0 is "released", Levels - 1 the strongest request.
Levels == 5
Level == 0 .. Levels - 1

\* What frequencyTable() guarantees: positive, sorted, without repetition.
IsTable(table) ==
    /\ table \in Seq(Nat \ {0})
    /\ \A i, j \in 1 .. Len(table) : i < j => table[i] < table[j]

Lower(a, b) == IF a <= b THEN a ELSE b
Higher(a, b) == IF a >= b THEN a ELSE b

\* How many entries of the table the current ceiling leaves reachable: the
\* loop copies every x <= cap.  The table is sorted, so they are its first.
Reach(table, cap) == Cardinality({i \in 1 .. Len(table) : table[i] <= cap})

\* table[fraction * (size - 1)] with fraction = level / (Levels - 1): the
\* levels span the whole reachable prefix.
LevelFrequency(table, reach, level) ==
    table[1 + (level * (reach - 1)) \div (Levels - 1)]

\* MUTANT of FloorFor: the floor may reach the ceiling.
FloorUncapped(table, cap, original, level, step) ==
    IF level = 0 THEN Lower(original, cap)
    ELSE Lower(cap, Higher(original, LevelFrequency(table, Reach(table, cap), step)))

\* The floor a level asks for, bounded by the ceiling in force.  `step` is the
\* level the fraction is taken from (0 for the GPU under the powersave tier).
FloorFor(table, cap, original, level, step) ==
    LET reach == Reach(table, cap)
        raised == Higher(original, LevelFrequency(table, reach, step))
    IN  IF level = 0 THEN Lower(original, cap)
        ELSE IF raised < cap THEN raised
        ELSE IF reach > 1 THEN table[reach - 1]
        ELSE table[1]

\* The PELT multiplier: baseline 2 (or what the device already runs), 4 from
\* level 2 up.
PeltFor(original, level) ==
    IF level >= 2 THEN 4 ELSE Higher(original, 2)

\* The GPU ceiling the powersave tier explores: one of the three top entries.
CeilingFor(table, maxOriginal, level) ==
    Lower(maxOriginal, table[Len(table) - 2 + Lower(2, level)])
=============================================================================
