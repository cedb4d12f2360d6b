------------------------------- MODULE Learning -------------------------------
(***************************************************************************)
(* What one credited pair of windows does to the rest of the brain: the    *)
(* critic's update count, the policy cells, the replay buffer, and the     *)
(* pending returns Accuracy scores predictions with. Weights, features and *)
(* rewards are left out: the properties are about which window each of     *)
(* them has counted. Which pair is credited is module ControlLoop's.       *)
(***************************************************************************)
EXTENDS Naturals, Sequences, FiniteSets, FiniteSetsExt, Functions

CONSTANTS
    Policies,     \* policy keys: <tier>:<coarse>
    Folds,        \* for each configuration a daemon may start under, the keys of
                  \* older builds it rehomes, and onto which: functions on subsets
    MaxContexts,  \* Prior::MaxContexts (512)
    Capacity,     \* Replay::Capacity (256)
    Lookahead,    \* Accuracy::Lookahead (20)
    MaxWindows,   \* bound: credited pairs
    MaxStarts     \* bound: restarts

ASSUME LearningBounds ==
    /\ {MaxContexts, Capacity, Lookahead} \subseteq Nat \ {0}
    /\ {MaxWindows, MaxStarts} \subseteq Nat
    /\ \A fold \in Folds :
          /\ DOMAIN fold \subseteq Policies
          /\ \A k \in DOMAIN fold : fold[k] \in Policies \ DOMAIN fold

VARIABLES
    brain,     \* what a save holds: see Empty
    pending,   \* Accuracy::pending: the pair each prediction was made at, its steps
    scored,    \* the pairs whose predictions have been scored, in order
    chain,     \* ghost: the first pair of the unbroken chain in progress
    pairs,     \* ghost: pairs of this process
    stored,    \* the last brain saved
    starts     \* bound

learningVars == <<brain, pending, scored, chain, pairs, stored, starts>>

\* updates: Critic::updates; windows: Brain::windows; contexts and policies:
\* Prior::contexts (key -> touched) and Prior::updates; seen and samples:
\* Replay, a sample being the window it was taken from.
Empty == [updates |-> 0, windows |-> 0, contexts |-> <<>>, policies |-> 0,
          seen |-> 0, samples |-> <<>>]

LearningInit ==
    /\ brain = Empty /\ stored = Empty
    /\ pending = <<>> /\ scored = <<>> /\ chain = 1 /\ pairs = 0 /\ starts = 0

-----------------------------------------------------------------------------

\* MUTANT of Chained: a broken chain keeps the returns being accumulated.
ChainedAlways(linked) == pending

\* Accuracy::observe drops them.
Chained(linked) == IF linked THEN pending ELSE <<>>

Due(p) == p.steps >= Lookahead

\* How many returns the loop takes off the front: it stops at one not due.
DueInFront(returns) ==
    CHOOSE n \in 0..Len(returns) :
        /\ \A i \in 1..n : Due(returns[i])
        /\ n < Len(returns) => ~Due(returns[n + 1])

\* Accuracy::observe: the new prediction joins, every return takes the pair in,
\* and those that have their Lookahead pairs are scored from the front.
Score(linked) ==
    LET all == Append(Chained(linked), [from |-> pairs + 1, steps |-> 0])
        aged == [i \in DOMAIN all |-> [all[i] EXCEPT !.steps = @ + 1]]
        n == DueInFront(aged)
    IN  /\ pending' = SubSeq(aged, n + 1, Len(aged))
        /\ scored' = scored \o SubSeq(aged, 1, n)
        /\ pairs' = pairs + 1
        /\ chain' = IF linked THEN chain ELSE pairs + 1

\* Replay::add: append until full, then a slot at random or the next in turn.
Kept(samples, w) ==
    IF Len(samples) < Capacity THEN {Append(samples, w)}
    ELSE {[samples EXCEPT ![i] = w] : i \in 1..Capacity}

\* Prior::reinforce on a full map: the least recently touched goes.
Evicted(contexts) ==
    LET gone == CHOOSE k \in DOMAIN contexts :
                    \A l \in DOMAIN contexts : contexts[k] <= contexts[l]
    IN  [k \in DOMAIN contexts \ {gone} |-> contexts[k]]

Reinforced(contexts, key, at) ==
    LET room == IF key \notin DOMAIN contexts /\ Cardinality(DOMAIN contexts) >= MaxContexts
                THEN Evicted(contexts) ELSE contexts
    IN  [k \in DOMAIN room \cup {key} |-> IF k = key THEN at ELSE room[k]]

\* MUTANT of Learned: every learning step is counted.
LearnedAlways(updates, whole) == updates + 1

\* Critic::learn counts an update only at the whole rate.
Learned(updates, whole) == IF whole THEN updates + 1 ELSE updates

\* The credited pair of main: critic, accuracy, replay and windows always; the
\* preference only when the same app, an active arming and a move among the
\* armed options are behind it (then key is its policy key, else "none").
Credited(linked, key) ==
    LET w == brain.windows + 1
        touch == brain.policies + 1
    IN  /\ w <= MaxWindows
        /\ linked => pairs > 0
        /\ Score(linked)
        /\ \E samples \in Kept(brain.samples, w) :
              brain' = [updates |-> Learned(brain.updates, TRUE), windows |-> w,
                        contexts |-> IF key = "none" THEN brain.contexts
                                     ELSE Reinforced(brain.contexts, key, touch),
                        policies |-> IF key = "none" THEN brain.policies ELSE touch,
                        seen |-> brain.seen + 1, samples |-> samples]
        /\ UNCHANGED <<stored, starts>>

\* Replay::rehearse while the engine may not act: the critic re-learns stored
\* windows, at a rate below one.
Rehearse ==
    /\ brain.samples # <<>>
    /\ brain' = [brain EXCEPT !.updates = Learned(@, FALSE)]
    /\ UNCHANGED <<pending, scored, chain, pairs, stored, starts>>

SaveBrain ==
    /\ stored' = brain
    /\ UNCHANGED <<brain, pending, scored, chain, pairs, starts>>

\* rehomeKey(): a key the map does not name stays as stored.
Refold(key, fold) == IF key \in DOMAIN fold THEN fold[key] ELSE key

\* Brain::deserialize: of two policies that meet the one touched last stays.
FoldedContexts(contexts, fold) ==
    [k \in {Refold(j, fold) : j \in DOMAIN contexts} |->
        Max({contexts[j] : j \in {l \in DOMAIN contexts : Refold(l, fold) = k}})]

\* A new process: the saved brain, folded by this build for the configuration it
\* starts under, and no predictions.
Start ==
    /\ starts < MaxStarts /\ starts' = starts + 1
    /\ \E fold \in Folds :
          brain' = [stored EXCEPT
            !.contexts = FoldedContexts(stored.contexts, fold),
            !.seen = IF stored.samples = <<>> THEN 0 ELSE stored.seen]
    /\ pending' = <<>> /\ scored' = <<>> /\ chain' = 1 /\ pairs' = 0
    /\ UNCHANGED stored

LearningNext ==
    \/ \E linked \in BOOLEAN : \E key \in Policies \cup {"none"} : Credited(linked, key)
    \/ Rehearse \/ SaveBrain \/ Start

LearningSpec == LearningInit /\ [][LearningNext]_learningVars

-----------------------------------------------------------------------------
(* Properties *)

\* What the counts of a brain say of each other, in memory and on disk: one
\* critic update and one replay entry a credited window, never one for a
\* rehearsal, no policy touched later than the last policy update; and "the
\* current workload stays represented": the buffer holds measured windows, none
\* twice, the newest among them. For its sizes and touches deserialize would
\* refuse the whole brain.
CountsAgree ==
    \A b \in {brain, stored} :
        /\ b.updates = b.windows /\ b.seen = b.windows
        /\ b.policies <= b.windows
        /\ \A k \in DOMAIN b.contexts : b.contexts[k] \in 1..b.policies
        /\ Cardinality(DOMAIN b.contexts) <= MaxContexts
        /\ Len(b.samples) = Min({Capacity, b.windows}) /\ IsInjective(b.samples)
        /\ Range(b.samples) \subseteq 1..b.windows
        /\ b.windows > 0 => b.windows \in Range(b.samples)

\* Accuracy: a prediction is scored against the Lookahead pairs that followed
\* it without a break, once each, and every one that has had them is scored.
ScoresUnbroken ==
    /\ \A i \in DOMAIN pending : pending[i].from = pairs + 1 - pending[i].steps
    /\ {pending[i].from : i \in DOMAIN pending} =
           {p \in chain..pairs : p > pairs + 1 - Lookahead}
    /\ IsInjective(scored)
    /\ {scored[i].from : i \in DOMAIN scored} \cap (chain..pairs) =
           {p \in chain..pairs : p <= pairs + 1 - Lookahead}
    /\ \A i \in DOMAIN scored : scored[i].steps = Lookahead

=============================================================================
