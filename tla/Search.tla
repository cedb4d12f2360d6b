-------------------------------- MODULE Search --------------------------------
(***************************************************************************)
(* safe(), candidates(), moveIndex() and Planner::search: the tree one     *)
(* decision grows, simulation by simulation, until its iterations or its   *)
(* deadline are spent. What a prediction, a score, a rollout or the        *)
(* critic's tail is worth is left out: which child PUCT descends to and    *)
(* whether a predicted state is too hot are choices, so the lists of       *)
(* moves and of children, which are searched by prior and by score, are    *)
(* sets here.                                                              *)
(***************************************************************************)
EXTENDS Naturals, Integers, Sequences, FiniteSets, FiniteSetsExt, Functions

CONSTANTS
    SearchAxes,  \* number of axes (Axes, 4)
    SearchTop,   \* highest level (Levels - 1, 4)
    Scenes,      \* the measured states and held actions a search starts from
    PeltTop,     \* the last axis stops at this level (2)
    Horizon,     \* depth of the tree (4)
    Iterations   \* bound: simulations of one search (128)

VARIABLES
    scene,    \* what safe() reads of the measured state, and the held action
    tree,     \* the nodes, root first
    spent,    \* simulations done (Decision::simulations)
    decision  \* what search() returned: action and move

searchVars == <<scene, tree, spent, decision>>

-----------------------------------------------------------------------------
(* Actions and moves *)

AxisNo == 1..SearchAxes
Levelled == [AxisNo -> 0..SearchTop]
Free == [a \in AxisNo |-> 0]
Effort(action) == FoldFunction(+, 0, action)

\* Stay is 0, one level down or up on axis a is 2a-1 or 2a, Release is last.
StayMove == 0
ReleaseMove == 2 * SearchAxes + 1

\* A state as safe() reads it: FALSE for a reason to release everything; close
\* to the limit; the allowance's ceiling; the open axes.
View == [ok : BOOLEAN, near : BOOLEAN, ceiling : 0..SearchTop, open : SUBSET AxisNo]

ASSUME SearchBounds ==
    /\ {SearchAxes, SearchTop, PeltTop, Horizon, Iterations} \subseteq Nat \ {0}
    /\ Scenes \subseteq [view : View, held : Levelled]

Capped(view, a) ==
    Min({IF a = SearchAxes THEN PeltTop ELSE SearchTop,
         IF view.near THEN Min({1, view.ceiling}) ELSE view.ceiling})

\* safe(): not a filter but the nearest action that may be held.
SafeAction(action, view) ==
    [a \in AxisNo |->
        IF ~view.ok \/ a \notin view.open THEN 0
        ELSE Min({Max({action[a], 0}), Capped(view, a)})]

\* The action one move away, before safe() (it may leave the range).
Moved(action, move) ==
    [action EXCEPT ![(move + 1) \div 2] = @ + IF move % 2 = 1 THEN -1 ELSE 1]

\* What candidates() tries, in this order: to stay, each step, to release.
Tried(action, view, move) ==
    LET stay == SafeAction(action, view)
    IN  IF move = StayMove THEN stay
        ELSE IF move = ReleaseMove THEN Free
        ELSE SafeAction(Moved(stay, move), view)

\* MUTANT of Offered: a step whose action is known is offered again.
OfferedAgain(action, view) ==
    {[move |-> m, action |-> Tried(action, view, m)] : m \in 0..ReleaseMove}

\* candidates(): of what is tried, what no earlier move reaches.
Offered(action, view) ==
    {[move |-> m, action |-> Tried(action, view, m)] :
        m \in {n \in 0..ReleaseMove :
                 \A k \in 0..n - 1 : Tried(action, view, k) # Tried(action, view, n)}}

\* moveIndex(): the first move of a candidate with that action, or -1.
MoveIndex(from, to, view) ==
    LET found == {choice.move : choice \in {c \in Offered(from, view) : c.action = to}}
    IN  IF found = {} THEN -1 ELSE Min(found)

-----------------------------------------------------------------------------
(* The tree *)

Node(action, view, move, parent, depth) ==
    [action |-> action, move |-> move, parent |-> parent, depth |-> depth,
     visits |-> 0, children |-> {}, pending |-> Offered(action, view)]

NoDecision == [action |-> Free, move |-> -1]

SearchInit ==
    /\ scene \in Scenes
    /\ tree = <<Node(SafeAction(scene.held, scene.view), scene.view, StayMove, 0, 0)>>
    /\ spent = 0 /\ decision = NoDecision

\* Node n and its ancestors.
Line ==
    LET line[n \in DOMAIN tree] ==
            IF n = 1 THEN {1} ELSE {n} \cup line[tree[n].parent]
    IN  line

\* PUCT selection descends while a node is above the horizon and fully expanded
\* with children; it may stop at any node it reaches that is not.
Descends(n) ==
    tree[n].depth < Horizon /\ tree[n].pending = {} /\ tree[n].children # {}

Selectable == {n \in DOMAIN tree : ~Descends(n) /\ \A m \in Line[n] \ {n} : Descends(m)}

\* Backpropagation: one more visit from the simulated node up.
Backed(nodes, line) ==
    [n \in DOMAIN nodes |->
        IF n \in line THEN [nodes[n] EXCEPT !.visits = @ + 1] ELSE nodes[n]]

\* Expansion takes a pending move of n; a costlier one the model predicts past
\* the limit is pruned and gets no node.
Pruned(n, choice) == [tree EXCEPT ![n].pending = @ \ {choice}]

Expanded(n, choice, view) ==
    Append([Pruned(n, choice) EXCEPT ![n].children = @ \cup {Len(tree) + 1}],
           Node(choice.action, view, choice.move, n, tree[n].depth + 1))

Risky(n, choice) == Effort(choice.action) > Effort(tree[n].action)

\* What the model may predict of a state: its heat, and only its heat, moves.
Predicted == {v \in View : v.ceiling = scene.view.ceiling /\ v.open = scene.view.open}

Searching == decision = NoDecision /\ spent < Iterations /\ spent' = spent + 1
             /\ UNCHANGED <<scene, decision>>

SimulateGrow ==
    /\ Searching
    /\ \E n \in Selectable : \E choice \in tree[n].pending : \E view \in Predicted :
          /\ tree[n].depth < Horizon
          /\ tree' = Backed(Expanded(n, choice, view), Line[n] \cup {Len(tree) + 1})

SimulatePrune ==
    /\ Searching
    /\ \E n \in Selectable : \E choice \in tree[n].pending :
          /\ tree[n].depth < Horizon /\ Risky(n, choice)
          /\ tree' = Backed(Pruned(n, choice), Line[n])

SimulateTail ==
    /\ Searching
    /\ \E n \in Selectable :
          /\ tree[n].depth = Horizon \/ tree[n].pending = {}
          /\ tree' = Backed(tree, Line[n])

\* The root's most visited child; ties go by mean value, which is any of them.
Answered(n) ==
    /\ n \in tree[1].children
    /\ \A m \in tree[1].children : tree[m].visits <= tree[n].visits

\* The deadline may fall before the first simulation: then it stays.
Answer ==
    /\ decision = NoDecision
    /\ \/ /\ tree[1].children = {}
          /\ decision' = [action |-> tree[1].action, move |-> StayMove]
       \/ \E n \in DOMAIN tree :
             /\ Answered(n)
             /\ decision' = [action |-> SafeAction(tree[n].action, scene.view),
                             move |-> tree[n].move]
    /\ UNCHANGED <<scene, tree, spent>>

SearchNext == SimulateGrow \/ SimulatePrune \/ SimulateTail \/ Answer

SearchSpec == SearchInit /\ [][SearchNext]_searchVars

-----------------------------------------------------------------------------
(* Properties *)

\* What main makes of a decision: the action may be held in the state that was
\* measured, its effort within the allowance, and moveIndex() finds for it the
\* move the search explored, which is the move the policy is credited with.
AnswerHolds ==
    decision # NoDecision =>
        /\ decision.action = SafeAction(decision.action, scene.view)
        /\ \A a \in AxisNo : decision.action[a] <= scene.view.ceiling
        /\ MoveIndex(scene.held, decision.action, scene.view) = decision.move

=============================================================================
