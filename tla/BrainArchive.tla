---------------------------- MODULE BrainArchive ----------------------------
(***************************************************************************)
(* What BrainStore promises to whoever reads the brain directory: lessons  *)
(* that are kept, lessons in the mind of the running engine, and no step   *)
(* that takes a kept lesson away unless the engine has warned that a brain *)
(* it rejected could not be moved.                                         *)
(***************************************************************************)
CONSTANT Lessons
VARIABLES kept, mind, up, warned

vars == <<kept, mind, up, warned>>

Init == kept \subseteq Lessons /\ mind = {} /\ up = FALSE /\ warned = FALSE

\* The engine starts from some of what is kept, or from nothing; only a start
\* from nothing may carry the warning.
Wake ==
    /\ ~up /\ up' = TRUE
    /\ mind' \subseteq kept
    /\ warned' = warned \/ (mind' = {} /\ warned' = TRUE)
    /\ UNCHANGED kept

Learn ==
    /\ up
    /\ \E l \in Lessons : mind' = mind \cup {l}
    /\ UNCHANGED <<kept, up, warned>>

\* A save keeps the whole mind, and once warned may cost other lessons.
Save ==
    /\ up
    /\ mind \subseteq kept' /\ kept' \subseteq kept \cup mind
    /\ warned \/ kept \subseteq kept'
    /\ UNCHANGED <<mind, up, warned>>

Sleep == up /\ up' = FALSE /\ mind' = {} /\ UNCHANGED <<kept, warned>>

Next == Wake \/ Learn \/ Save \/ Sleep

Spec == Init /\ [][Next]_vars

=============================================================================
