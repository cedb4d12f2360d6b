---------------------------- MODULE ResidualModel ----------------------------
(***************************************************************************)
(* Model, the table of measured residuals: which cells it holds, with how  *)
(* much evidence, what a full table evicts, what a surprise takes back,    *)
(* and what a save, a restart and an upgrade that retires a configuration  *)
(* key make of it. The residuals themselves (means, variances) are left    *)
(* out; whether a measurement fails the prediction is an input.            *)
(***************************************************************************)
EXTENDS Naturals, FiniteSets, FiniteSetsExt, Functions

CONSTANTS
    Configs,        \* configuration identities, of the old build and of the new
    Live,           \* of those, the ones the new build computes
    Retired,        \* identity -> the old ones legacyIdentities() offers for it;
                    \* an old one may be offered for none
    Fines,          \* fine buckets of a context (temperature, load), from 1
    Edges,          \* from/to pairs of actions
    MaxEntries,     \* Model::MaxEntries (3072)
    FinePromotion,  \* Model::FinePromotion (4)
    SurpriseAt,     \* observations before a failure is a surprise (8)
    MaxCount,       \* the cap of a cell's count (128)
    HalfLife,       \* EvidenceHalfLife (1024), in samples
    MaxSamples,     \* bound: learned windows
    MaxRestarts     \* bound: restarts of the daemon

ASSUME ModelBounds ==
    /\ IsFiniteSet(Configs) /\ Live \subseteq Configs
    /\ Retired \in [Configs -> SUBSET (Configs \ Live)]
    /\ \A c \in Configs \ Live : Retired[c] = {}
    /\ Fines \subseteq Nat \ {0}
    /\ {MaxEntries, FinePromotion, SurpriseAt, MaxCount, HalfLife} \subseteq Nat \ {0}
    /\ {MaxSamples, MaxRestarts} \subseteq Nat

VARIABLES
    cells,      \* Model::cells: id -> count and last touch
    samples,    \* Model::samples
    boot,       \* the identity of the configuration the daemon started under
    saved,      \* the last brain saved
    restarts,   \* bound
    measured    \* ghost: id -> learned windows behind it

modelVars == <<cells, samples, boot, saved, restarts, measured>>

-----------------------------------------------------------------------------
(* Keys: <coarse>[|fine]/<from>/<to>; fine 0 is the coarse parent. *)

Ids == [config : Configs, fine : {0} \cup Fines, edge : Edges]
Parent(id) == [id EXCEPT !.fine = 0]

\* The identities the running build computes, as the configuration changes: those
\* the retired key told apart, or those it is rehomed onto.
InUse == IF boot \in Live THEN Live ELSE Configs \ Live

\* rehomeKey(), in a daemon started under c: an identity that is not in the map
\* stays as it was stored, also where it is another surface's.
Rehomed(id, c) == IF id.config \in Retired[c] THEN [id EXCEPT !.config = c] ELSE id

Power(x, n) == FoldFunction( *, 1, [k \in 1..n |-> x])

\* freshEvidence at sample s is count * 2^(-(s - touched)/HalfLife): raised to
\* HalfLife and times 2^s, the same for all cells, it is a natural number.
Weight(e) == Power(e.count, HalfLife) * Power(2, e.touched)

\* The order of std::min_element: evidence, then touch, then the map's order
\* ('/' sorts before '|', so a parent comes before its fine cells).
Before(table, i, j) ==
    \/ Weight(table[i]) < Weight(table[j])
    \/ /\ Weight(table[i]) = Weight(table[j])
       /\ \/ table[i].touched < table[j].touched
          \/ table[i].touched = table[j].touched /\ i.fine < j.fine

Weakest(table) ==
    CHOOSE i \in DOMAIN table : \A j \in DOMAIN table : ~Before(table, j, i)

Without(table, id) == [i \in DOMAIN table \ {id} |-> table[i]]

\* One scope of Model::observe: room, then one more observation in the cell.
Recorded(table, id, s) ==
    LET full == id \notin DOMAIN table /\ Cardinality(DOMAIN table) >= MaxEntries
        room == IF full THEN Without(table, Weakest(table)) ELSE table
        had  == IF id \in DOMAIN room THEN room[id].count ELSE 0
    IN  [i \in DOMAIN room \cup {id} |->
            IF i = id THEN [count |-> Min({MaxCount, had + 1}), touched |-> s]
            ELSE room[i]]

\* A fine cell opens only when its parent has something to refine.
Opens(table, id) ==
    \/ id \in DOMAIN table
    \/ /\ Parent(id) \in DOMAIN table
       /\ table[Parent(id)].count >= FinePromotion

\* MUTANT of Surprised: the surprise counts its windows again.
SurprisedTwice(table, id) ==
    [i \in DOMAIN table |->
        IF i.config = id.config THEN [table[i] EXCEPT !.count = @ + 1] ELSE table[i]]

\* A prediction failure reopens the whole context: means kept, authority gone.
Surprised(table, id) ==
    [i \in DOMAIN table |->
        IF i.config = id.config THEN [table[i] EXCEPT !.count = Min({@, 1})]
        ELSE table[i]]

MaySurprise(id) ==
    Parent(id) \in DOMAIN cells /\ cells[Parent(id)].count >= SurpriseAt

\* Model::observe on a learnable pair: surprise, fine scope, coarse scope.
Observe(id, failed) ==
    LET s    == samples + 1
        base == IF failed THEN Surprised(cells, id) ELSE cells
        fine == IF Opens(base, id) THEN Recorded(base, id, s) ELSE base
    IN  /\ id.config \in InUse /\ id.fine # 0 /\ samples < MaxSamples
        /\ failed => MaySurprise(id)
        /\ samples' = s
        /\ cells' = Recorded(fine, Parent(id), s)
        /\ measured' = [i \in Ids |-> measured[i] + IF i \in {id, Parent(id)} THEN 1 ELSE 0]
        /\ UNCHANGED <<boot, saved, restarts>>

\* Brain::serialize, of the table.
Save ==
    /\ saved' = [cells |-> cells, samples |-> samples, measured |-> measured]
    /\ UNCHANGED <<cells, samples, boot, restarts, measured>>

\* MUTANT of Folded: a repeated key is overwritten.
FoldedLast(table, c) ==
    [i \in {Rehomed(j, c) : j \in DOMAIN table} |->
        table[CHOOSE j \in DOMAIN table : Rehomed(j, c) = i]]

\* Brain::deserialize in a daemon started under c: keys that differed only by the
\* retired one meet, and pool their counts.
Folded(table, c) ==
    [i \in {Rehomed(j, c) : j \in DOMAIN table} |->
        LET pool == {j \in DOMAIN table : Rehomed(j, c) = i}
        IN  [count |-> Min({MaxCount, SumFunction([j \in pool |-> table[j].count])}),
             touched |-> Max({table[j].touched : j \in pool})]]

\* The daemon starts again from the last save, under configuration c of this
\* build or of the next.
Restart(c) ==
    /\ restarts < MaxRestarts /\ restarts' = restarts + 1
    /\ boot \in Live => c \in Live
    /\ boot' = c
    /\ samples' = saved.samples
    /\ cells' = Folded(saved.cells, c)
    /\ measured' = [i \in Ids |->
           SumFunctionOnSet(saved.measured, {j \in Ids : Rehomed(j, c) = i})]
    /\ UNCHANGED saved

ModelInit ==
    /\ cells = <<>> /\ samples = 0 /\ boot \in Configs /\ restarts = 0
    /\ measured = [i \in Ids |-> 0]
    /\ saved = [cells |-> <<>>, samples |-> 0, measured |-> measured]

ModelNext ==
    \/ \E id \in Ids : \E failed \in BOOLEAN : Observe(id, failed)
    \/ Save
    \/ \E c \in Configs : Restart(c)

ModelSpec == ModelInit /\ [][ModelNext]_modelVars

-----------------------------------------------------------------------------
(* Properties *)

\* What Brain::deserialize asks of a table before it takes a brain: one range
\* it fails costs every window the device has learned.
Acceptable(table, total) ==
    /\ DOMAIN table \subseteq Ids /\ Cardinality(DOMAIN table) <= MaxEntries
    /\ \A i \in DOMAIN table : /\ table[i].count \in 1..MaxCount
                               /\ table[i].touched \in 0..total

\* "no imagined sample is introduced here", "identical keys must not be counted
\* twice": over evictions, surprises, restarts and folds no cell claims more
\* observations than windows were measured on its edge; and every table the
\* engine can save, or make of a save, is one deserialize takes.
EvidenceMeasured ==
    /\ \A i \in DOMAIN cells : cells[i].count <= measured[i]
    /\ Acceptable(cells, samples) /\ Acceptable(saved.cells, saved.samples)

\* A restart loses no evidence, and finds what it can: what was measured under the
\* identity the daemon starts under, or under one legacyIdentities() offers for it,
\* is where its lookups are, and of two identities that meet there neither loses any
\* to the other.  A cell of any other identity is left as it was saved: none is
\* folded in under a label it did not earn, none is dropped.
FoldKeeps ==
    [][restarts' # restarts =>
         /\ \A i \in DOMAIN saved.cells :
               LET j == Rehomed(i, boot')
               IN  j \in DOMAIN cells' /\ cells'[j].count >= saved.cells[i].count
         /\ \A i \in DOMAIN cells' :
               /\ i.config \notin Retired[boot']
               /\ i.config # boot' => i \in DOMAIN saved.cells /\ cells'[i] = saved.cells[i]
      ]_modelVars

=============================================================================
