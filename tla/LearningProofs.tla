--------------------------- MODULE LearningProofs ---------------------------
(****************************************************************************)
(* What the engine decides and learns: the answer of a search, the counts and *)
(* scores of a brain, the table of residuals, each for any values of its   *)
(* constants.                                                              *)
(****************************************************************************)
EXTENDS Learning, Search, ResidualModel, Integers, FiniteSetTheorems, TLAPS

-----------------------------------------------------------------------------
(* Numbers. The induction lemmas of the library take a predicate, which no    *)
(* installed prover can instantiate; these take a set.                        *)

LEMMA LeastOfNat ==
    ASSUME NEW S \in SUBSET Nat, S # {}
    PROVE  \E x \in S : \A y \in S : x <= y
<1>1. PICK x \in S : \A y \in S : ~ (<<y, x>> \in OpToRel(<, Nat))
  BY NatLessThanWellFounded, WFMin
<1>2. \A y \in S : y < x => <<y, x>> \in OpToRel(<, Nat)
  BY DEF OpToRel
<1>3. \A y \in S : ~(y < x)
  BY <1>1, <1>2, Zenon
<1>4. \A y \in S : x <= y
  BY <1>3
<1> QED
  BY <1>4

LEMMA NumberInduction ==
    ASSUME NEW A, 0 \in A, \A n \in Nat : n \in A => n + 1 \in A
    PROVE  \A n \in Nat : n \in A
<1> SUFFICES ASSUME Nat \ A # {} PROVE FALSE
  OBVIOUS
<1>1. PICK n \in Nat \ A : \A m \in Nat \ A : n <= m
  BY LeastOfNat, Nat \ A \in SUBSET Nat
<1>2. n # 0 /\ n - 1 \in Nat /\ ~(n <= n - 1)
  BY <1>1
<1>3. n - 1 \in A
  BY <1>1, <1>2
<1>4. n - 1 + 1 = n
  BY <1>1
<1> QED
  BY <1>1, <1>2, <1>3, <1>4

\* What holds of every finite set of elements of S that it holds of all its
\* subsets one smaller of.
LEMMA SubsetInduction ==
    ASSUME NEW S, IsFiniteSet(S), NEW Q,
           \A T \in SUBSET S : (\A x \in T : T \ {x} \in Q) => T \in Q
    PROVE  \A T \in SUBSET S : T \in Q
<1> SUFFICES ASSUME (SUBSET S) \ Q # {} PROVE FALSE
  OBVIOUS
<1> DEFINE R == StrictSubsetOrdering(S)
           Left == (SUBSET S) \ Q
<1>0. FiniteSubsetsOf(S) = SUBSET S
  BY FS_FiniteSubsetsOfFinite
<1>0a. IsWellFoundedOn(R, FiniteSubsetsOf(S))
  BY FS_StrictSubsetOrderingWellFounded
<1>1. IsWellFoundedOn(R, SUBSET S)
  BY <1>0, <1>0a
<1>2. PICK T \in Left : \A U \in Left : ~(<<U, T>> \in R)
  BY <1>1, WFMin, Left \subseteq SUBSET S, Left # {}
<1>3. ASSUME NEW x \in T PROVE T \ {x} \in Q
  <2>1. T \ {x} \in SUBSET S /\ T \in SUBSET S /\ T \ {x} \subseteq T /\ T \ {x} # T
    OBVIOUS
  <2>2. <<T \ {x}, T>> \in R
    BY <2>1 DEF StrictSubsetOrdering
  <2> QED
    BY <1>2, <2>1, <2>2
<1> QED
  BY <1>3

LEMMA MinOfPair ==
    ASSUME NEW a \in Int, NEW b \in Int
    PROVE  Min({a, b}) = IF a <= b THEN a ELSE b
  BY DEF Min

LEMMA MaxOfBounded ==
    ASSUME NEW S \in SUBSET Nat, S # {}, NEW n \in Nat, \A x \in S : x <= n
    PROVE  Max(S) \in S /\ \A y \in S : y <= Max(S)
<1> DEFINE T == {n - x : x \in S}
<1>1. T \in SUBSET Nat /\ T # {}
  <2>1. \A x \in S : n - x \in Nat
    OBVIOUS
  <2> QED
    BY <2>1
<1>2. PICK t \in T : \A u \in T : t <= u
  BY <1>1, LeastOfNat
<1>3. PICK x \in S : t = n - x
  OBVIOUS
<1>4. \A y \in S : x >= y
  <2> TAKE y \in S
  <2>1. n - y \in T
    OBVIOUS
  <2>2. n - x <= n - y
    BY <1>2, <1>3, <2>1
  <2> QED
    BY <2>2
<1>5. \E z \in S : \A y \in S : z >= y
  BY <1>4
<1>6. Max(S) \in S /\ \A y \in S : Max(S) >= y
  BY <1>5 DEF Max
<1> QED
  BY <1>6

-----------------------------------------------------------------------------
(****************************************************************************)
(* Search.                                                                 *)
(* Every child of the root stands for a move the root offered, and what the *)
(* root offers is safe in the measured state and found again by moveIndex(). *)
(****************************************************************************)

LEMMA MaxOfTwo ==
    ASSUME NEW a \in Int, NEW b \in Int
    PROVE  Max({a, b}) = IF a >= b THEN a ELSE b
  BY DEF Max

\* The levels of an action after one move, possibly out of range.
Steps == [AxisNo -> Int]

LEMMA CapRange ==
    ASSUME NEW view \in View, NEW a \in AxisNo
    PROVE  /\ Capped(view, a) \in 0..SearchTop \/ Capped(view, a) \in 0..PeltTop
           /\ Capped(view, a) \in Nat
           /\ Capped(view, a) <= view.ceiling
<1>1. /\ view.ceiling \in Nat /\ SearchTop \in Nat /\ PeltTop \in Nat
      /\ view.ceiling <= SearchTop /\ view.near \in BOOLEAN
  BY SearchBounds DEF View
<1> DEFINE most == IF a = SearchAxes THEN PeltTop ELSE SearchTop
           lim  == IF view.near THEN Min({1, view.ceiling}) ELSE view.ceiling
<1>2. most \in Nat
  BY <1>1
<1>3. lim \in Nat /\ lim <= view.ceiling
  BY <1>1, MinOfPair
<1>4. Min({most, lim}) = IF most <= lim THEN most ELSE lim
  BY <1>2, <1>3, MinOfPair
<1>5. Capped(view, a) = Min({most, lim})
  BY DEF Capped
<1> QED
  BY <1>1, <1>2, <1>3, <1>4, <1>5

LEMMA SafeLevel ==
    ASSUME NEW action \in Steps, NEW view \in View, NEW a \in AxisNo
    PROVE  /\ SafeAction(action, view)[a] =
                IF ~view.ok \/ a \notin view.open \/ action[a] <= 0 THEN 0
                ELSE IF action[a] <= Capped(view, a) THEN action[a] ELSE Capped(view, a)
           /\ SafeAction(action, view)[a] \in Nat
           /\ SafeAction(action, view)[a] <= Capped(view, a)
<1>1. Capped(view, a) \in Nat
  BY CapRange
<1>2. action[a] \in Int
  BY DEF Steps
<1>3. Max({action[a], 0}) = IF action[a] >= 0 THEN action[a] ELSE 0
  BY <1>2, MaxOfTwo
<1> DEFINE up == Max({action[a], 0})
<1>4. up \in Int /\ up >= 0
  BY <1>2, <1>3
<1>6. SafeAction(action, view)[a] =
          IF ~view.ok \/ a \notin view.open THEN 0 ELSE Min({up, Capped(view, a)})
  BY DEF SafeAction
<1> HIDE DEF up
<1>5. Min({up, Capped(view, a)}) = IF up <= Capped(view, a) THEN up ELSE Capped(view, a)
  BY <1>1, <1>4, MinOfPair
<1>7. up = IF action[a] >= 0 THEN action[a] ELSE 0
  BY <1>3 DEF up
<1> QED
  BY <1>1, <1>2, <1>4, <1>5, <1>6, <1>7

LEMMA SafeFunction ==
    ASSUME NEW action \in Steps, NEW view \in View
    PROVE  SafeAction(action, view) \in [AxisNo -> Nat]
<1>1. \A a \in AxisNo : SafeAction(action, view)[a] \in Nat
  BY SafeLevel
<1>2. SafeAction(action, view) = [a \in AxisNo |-> SafeAction(action, view)[a]]
  BY DEF SafeAction
<1> QED
  BY <1>1, <1>2

LEMMA SafeTwice ==
    ASSUME NEW action \in Steps, NEW view \in View
    PROVE  SafeAction(SafeAction(action, view), view) = SafeAction(action, view)
<1> DEFINE once == SafeAction(action, view)
<1>1. once \in [AxisNo -> Nat]
  BY SafeFunction
<1>2. once \in Steps
  BY <1>1 DEF Steps
<1>3. \A a \in AxisNo : SafeAction(once, view)[a] = once[a]
  <2> TAKE a \in AxisNo
  <2>1. /\ once[a] = IF ~view.ok \/ a \notin view.open \/ action[a] <= 0 THEN 0
                     ELSE IF action[a] <= Capped(view, a) THEN action[a] ELSE Capped(view, a)
        /\ once[a] \in Nat /\ once[a] <= Capped(view, a)
    BY SafeLevel
  <2> HIDE DEF once
  <2>2. SafeAction(once, view)[a] =
           IF ~view.ok \/ a \notin view.open \/ once[a] <= 0 THEN 0
           ELSE IF once[a] <= Capped(view, a) THEN once[a] ELSE Capped(view, a)
    BY <1>2, SafeLevel
  <2> QED
    BY <2>1, <2>2
<1>4. SafeAction(once, view) \in [AxisNo -> Nat]
  BY <1>2, SafeFunction
<1> QED
  BY <1>1, <1>3, <1>4

LEMMA FreeSafe ==
    ASSUME NEW view \in View
    PROVE  /\ Free \in [AxisNo -> Nat]
           /\ SafeAction(Free, view) = Free
<1>1. Free \in [AxisNo -> Nat] /\ \A a \in AxisNo : Free[a] = 0
  BY DEF Free
<1>2. Free \in Steps
  BY <1>1 DEF Steps
<1>3. \A a \in AxisNo : SafeAction(Free, view)[a] = 0
  BY <1>1, <1>2, SafeLevel
<1>4. SafeAction(Free, view) \in [AxisNo -> Nat]
  BY <1>2, SafeFunction
<1> QED
  BY <1>1, <1>3, <1>4

LEMMA MovedSteps ==
    ASSUME NEW action \in Steps, NEW m
    PROVE  Moved(action, m) \in Steps
<1> DEFINE by == IF m % 2 = 1 THEN -1 ELSE 1
           axis == (m + 1) \div 2
<1>1. by \in Int
  OBVIOUS
<1>2. Moved(action, m) = [action EXCEPT ![axis] = @ + by]
  BY DEF Moved
<1> HIDE DEF by, axis
<1>3. action \in [AxisNo -> Int] /\ \A a \in AxisNo : action[a] \in Int
  BY DEF Steps
<1>4. Moved(action, m) = [a \in AxisNo |-> IF a = axis THEN action[a] + by ELSE action[a]]
  BY <1>2, <1>3
<1>5. \A a \in AxisNo : (IF a = axis THEN action[a] + by ELSE action[a]) \in Int
  BY <1>1, <1>3
<1> QED
  BY <1>4, <1>5 DEF Steps

\* Whatever candidates() tries may be held in the state it is asked for.
LEMMA TriedSafe ==
    ASSUME NEW action \in Steps, NEW view \in View, NEW m \in 0..ReleaseMove
    PROVE  /\ Tried(action, view, m) \in [AxisNo -> Nat]
           /\ SafeAction(Tried(action, view, m), view) = Tried(action, view, m)
<1> DEFINE stay == SafeAction(action, view)
<1>1. stay \in [AxisNo -> Nat] /\ stay \in Steps
  BY SafeFunction DEF Steps
<1>2. Moved(stay, m) \in Steps
  BY <1>1, MovedSteps
<1>3. CASE m = StayMove
  BY <1>1, <1>3, SafeTwice DEF Tried
<1>4. CASE m # StayMove /\ m = ReleaseMove
  BY <1>4, FreeSafe DEF Tried
<1>5. CASE m # StayMove /\ m # ReleaseMove
  BY <1>2, <1>5, SafeTwice, SafeFunction DEF Tried
<1> QED
  BY <1>3, <1>4, <1>5

LEMMA OfferedSafe ==
    ASSUME NEW action \in Steps, NEW view \in View, NEW c \in Offered(action, view)
    PROVE  /\ c = [move |-> c.move, action |-> c.action]
           /\ c.move \in 0..ReleaseMove /\ c.action = Tried(action, view, c.move)
           /\ c.action \in [AxisNo -> Nat]
           /\ SafeAction(c.action, view) = c.action
<1>1. PICK m \in 0..ReleaseMove : c = [move |-> m, action |-> Tried(action, view, m)]
  BY DEF Offered
<1> QED
  BY <1>1, TriedSafe

\* candidates() asks safe() itself, so an action made safe is offered the same.
LEMMA OfferedOfSafe ==
    ASSUME NEW action \in Steps, NEW view \in View
    PROVE  Offered(SafeAction(action, view), view) = Offered(action, view)
<1>1. \A m : Tried(SafeAction(action, view), view, m) = Tried(action, view, m)
  BY SafeTwice DEF Tried
<1> QED
  BY <1>1 DEF Offered

\* Of two candidates with one action the later is not offered: moveIndex() finds
\* the move an offered action came from.
LEMMA MoveFound ==
    ASSUME NEW action \in Steps, NEW view \in View, NEW c \in Offered(action, view)
    PROVE  MoveIndex(action, c.action, view) = c.move
<1>0. ReleaseMove \in Nat
  BY SearchBounds DEF ReleaseMove
<1>1. c.move \in 0..ReleaseMove /\ c.move \in Int /\ c.action = Tried(action, view, c.move)
  BY <1>0, OfferedSafe
<1>2. \A k \in 0..c.move - 1 : Tried(action, view, k) # Tried(action, view, c.move)
  BY DEF Offered
<1>3. ASSUME NEW d \in Offered(action, view), d.action = c.action
      PROVE  d.move = c.move
  <2>1. d.move \in 0..ReleaseMove /\ d.action = Tried(action, view, d.move)
    BY OfferedSafe
  <2>2. \A k \in 0..d.move - 1 : Tried(action, view, k) # Tried(action, view, d.move)
    BY DEF Offered
  <2>3. ~(c.move < d.move)
    <3>1. c.move < d.move => c.move \in 0..d.move - 1
      BY <1>0, <1>1, <2>1
    <3> QED
      BY <1>1, <1>3, <2>1, <2>2, <3>1
  <2>4. ~(d.move < c.move)
    BY <1>0, <1>1, <1>2, <1>3, <2>1
  <2> QED
    BY <1>0, <1>1, <2>1, <2>3, <2>4
<1> DEFINE found == {choice.move : choice \in {d \in Offered(action, view) : d.action = c.action}}
<1>4. found = {c.move}
  BY <1>3
<1>5. Min({c.move}) = c.move
  BY <1>1 DEF Min
<1>6. MoveIndex(action, c.action, view) = IF found = {} THEN -1 ELSE Min(found)
  BY DEF MoveIndex
<1> HIDE DEF found
<1> QED
  BY <1>4, <1>5, <1>6

LEMMA StayOffered ==
    ASSUME NEW action \in Steps, NEW view \in View
    PROVE  [move |-> StayMove, action |-> SafeAction(action, view)] \in Offered(action, view)
<1>1. ReleaseMove \in Nat /\ 0 \in 0..ReleaseMove /\ 0..0 - 1 = {}
  BY SearchBounds DEF ReleaseMove
<1>2. Tried(action, view, 0) = SafeAction(action, view)
  BY DEF Tried, StayMove
<1> QED
  BY <1>1, <1>2 DEF Offered, StayMove

-----------------------------------------------------------------------------
(* The tree *)

Choice == [move : Int, action : Steps]

Nodes == [action : Steps, move : Int, parent : Nat, depth : Nat, visits : Nat,
          children : SUBSET Nat, pending : SUBSET Choice]

\* What the root of a tree and its children have to do with the scene.
Rooted(nodes) ==
    LET offered == Offered(scene.held, scene.view)
    IN  /\ nodes[1].action = SafeAction(scene.held, scene.view)
        /\ nodes[1].pending \subseteq offered
        /\ \A c \in nodes[1].children :
              /\ c \in DOMAIN nodes
              /\ [move |-> nodes[c].move, action |-> nodes[c].action] \in offered

SearchInv ==
    /\ scene \in Scenes
    /\ tree \in Seq(Nodes) /\ Len(tree) > 0
    /\ Rooted(tree)
    /\ AnswerHolds

LEMMA SceneTypes ==
    ASSUME scene \in Scenes
    PROVE  /\ scene.view \in View /\ scene.held \in Steps
           /\ SafeAction(scene.held, scene.view) \in Steps
<1>1. scene.view \in View /\ scene.held \in Levelled
  BY SearchBounds
<1>2. 0..SearchTop \subseteq Int
  BY SearchBounds
<1>3. scene.held \in Steps
  BY <1>1, <1>2 DEF Levelled, Steps
<1>4. SafeAction(scene.held, scene.view) \in [AxisNo -> Nat]
  BY <1>1, <1>3, SafeFunction
<1> QED
  BY <1>1, <1>3, <1>4 DEF Steps

LEMMA OfferedChoice ==
    ASSUME NEW action \in Steps, NEW view \in View
    PROVE  Offered(action, view) \subseteq Choice
<1>0. ReleaseMove \in Nat
  BY SearchBounds DEF ReleaseMove
<1>1. ASSUME NEW c \in Offered(action, view) PROVE c \in Choice
  <2>1. /\ c = [move |-> c.move, action |-> c.action]
        /\ c.move \in 0..ReleaseMove /\ c.action \in [AxisNo -> Nat]
    BY OfferedSafe
  <2>2. c.move \in Int /\ c.action \in Steps
    BY <1>0, <2>1 DEF Steps
  <2> QED
    BY <2>1, <2>2 DEF Choice
<1> QED
  BY <1>1

LEMMA NodeType ==
    ASSUME NEW action \in Steps, NEW view \in View, NEW move \in Int, NEW parent \in Nat,
           NEW depth \in Nat
    PROVE  Node(action, view, move, parent, depth) \in Nodes
<1>1. Offered(action, view) \subseteq Choice
  BY OfferedChoice
<1> QED
  BY <1>1 DEF Node, Nodes

LEMMA Revisited ==
    ASSUME NEW node \in Nodes
    PROVE  LET new == [node EXCEPT !.visits = node.visits + 1]
           IN  /\ new \in Nodes /\ new.action = node.action /\ new.move = node.move
               /\ new.pending = node.pending /\ new.children = node.children
<1>1. node.visits + 1 \in Nat
  BY DEF Nodes
<1> QED
  BY <1>1 DEF Nodes

LEMMA Parented ==
    ASSUME NEW node \in Nodes, NEW k \in Nat
    PROVE  LET new == [node EXCEPT !.children = node.children \cup {k}]
           IN  /\ new \in Nodes /\ new.action = node.action /\ new.move = node.move
               /\ new.pending = node.pending /\ new.children = node.children \cup {k}
<1>1. node.children \cup {k} \in SUBSET Nat
  BY DEF Nodes
<1> QED
  BY <1>1 DEF Nodes

\* Backpropagation moves visits and nothing else.
LEMMA BackedSame ==
    ASSUME NEW nodes \in Seq(Nodes), NEW line, Len(nodes) > 0, Rooted(nodes)
    PROVE  /\ Backed(nodes, line) \in Seq(Nodes) /\ Len(Backed(nodes, line)) > 0
           /\ Rooted(Backed(nodes, line))
<1> DEFINE back == Backed(nodes, line)
<1>1. Len(nodes) \in Nat /\ DOMAIN nodes = 1..Len(nodes) /\ 1 \in DOMAIN nodes
  OBVIOUS
<1>2. \A k \in DOMAIN nodes :
         back[k] = IF k \in line THEN [nodes[k] EXCEPT !.visits = @ + 1] ELSE nodes[k]
  BY DEF Backed
<1>3. DOMAIN back = 1..Len(nodes)
  BY <1>1 DEF Backed
<1>4. \A k \in DOMAIN nodes : nodes[k] \in Nodes
  OBVIOUS
<1>5. back = [k \in 1..Len(nodes) |-> back[k]]
  BY <1>1 DEF Backed
<1> HIDE DEF back
<1>6. ASSUME NEW k \in DOMAIN nodes
      PROVE  /\ back[k] \in Nodes /\ back[k].action = nodes[k].action
             /\ back[k].move = nodes[k].move /\ back[k].pending = nodes[k].pending
             /\ back[k].children = nodes[k].children
  <2>1. CASE k \in line
    <3>1. back[k] = [nodes[k] EXCEPT !.visits = nodes[k].visits + 1]
      BY <1>2, <2>1
    <3> QED
      BY <1>4, <3>1, Revisited
  <2>2. CASE k \notin line
    BY <1>2, <1>4, <2>2
  <2> QED
    BY <2>1, <2>2
<1>7. back \in Seq(Nodes) /\ Len(back) = Len(nodes)
  BY <1>1, <1>3, <1>5, <1>6
<1>8. Rooted(back)
  BY <1>1, <1>3, <1>6 DEF Rooted
<1> QED
  BY <1>7, <1>8 DEF back

LEMMA PrunedSame ==
    ASSUME SearchInv, NEW n \in DOMAIN tree, NEW choice
    PROVE  /\ Pruned(n, choice) \in Seq(Nodes) /\ Len(Pruned(n, choice)) = Len(tree)
           /\ \A k \in DOMAIN tree :
                 /\ Pruned(n, choice)[k].action = tree[k].action
                 /\ Pruned(n, choice)[k].move = tree[k].move
                 /\ Pruned(n, choice)[k].children = tree[k].children
                 /\ Pruned(n, choice)[k].pending \subseteq tree[k].pending
           /\ Rooted(Pruned(n, choice))
<1> DEFINE cut == Pruned(n, choice)
<1>1. Len(tree) \in Nat /\ DOMAIN tree = 1..Len(tree) /\ 1 \in DOMAIN tree
  BY DEF SearchInv
<1>2. \A k \in DOMAIN tree : tree[k] \in Nodes
  BY DEF SearchInv
<1>3. [tree[n] EXCEPT !.pending = @ \ {choice}] \in Nodes
  BY <1>2 DEF Nodes
<1>4. cut = [tree EXCEPT ![n] = [tree[n] EXCEPT !.pending = tree[n].pending \ {choice}]]
  BY DEF Pruned
<1> HIDE DEF cut
<1>5. cut \in Seq(Nodes) /\ Len(cut) = Len(tree)
  BY <1>3, <1>4 DEF SearchInv
<1>6. ASSUME NEW k \in DOMAIN tree
      PROVE  /\ cut[k].action = tree[k].action /\ cut[k].move = tree[k].move
             /\ cut[k].children = tree[k].children
             /\ cut[k].pending \subseteq tree[k].pending
  BY <1>2, <1>4 DEF SearchInv, Nodes
<1>7. DOMAIN cut = DOMAIN tree
  BY <1>4
<1>8. Rooted(cut)
  BY <1>1, <1>6, <1>7 DEF Rooted, SearchInv
<1> QED
  BY <1>5, <1>6, <1>8 DEF cut

\* A child of the root is one of the candidates moveIndex() looks among.
LEMMA ExpandedSame ==
    ASSUME SearchInv, NEW n \in DOMAIN tree, NEW choice \in tree[n].pending,
           NEW view \in View
    PROVE  /\ Expanded(n, choice, view) \in Seq(Nodes)
           /\ Len(Expanded(n, choice, view)) > 0 /\ Rooted(Expanded(n, choice, view))
<1> DEFINE cut == Pruned(n, choice)
           leaf == Node(choice.action, view, choice.move, n, tree[n].depth + 1)
           grown == [cut EXCEPT ![n].children = @ \cup {Len(tree) + 1}]
<1>1. /\ Len(tree) \in Nat /\ DOMAIN tree = 1..Len(tree) /\ 1 \in DOMAIN tree
      /\ n \in Nat /\ n \in 1..Len(tree)
  BY DEF SearchInv
<1>2. tree[n] \in Nodes
  BY DEF SearchInv
<1>3. choice \in Choice
  BY <1>2 DEF Nodes
<1>4. choice.action \in Steps /\ choice.move \in Int /\ tree[n].depth + 1 \in Nat
      /\ choice = [move |-> choice.move, action |-> choice.action]
  BY <1>2, <1>3 DEF Choice, Nodes
<1>5. leaf \in Nodes
  BY <1>1, <1>4, NodeType
<1>6. leaf.action = choice.action /\ leaf.move = choice.move
  BY DEF Node
<1>7. /\ cut \in Seq(Nodes) /\ Len(cut) = Len(tree) /\ Rooted(cut)
      /\ \A k \in DOMAIN tree :
            /\ cut[k].action = tree[k].action /\ cut[k].move = tree[k].move
            /\ cut[k].children = tree[k].children
            /\ cut[k].pending \subseteq tree[k].pending
  BY PrunedSame
<1> HIDE DEF cut, leaf
<1>8. grown = [cut EXCEPT ![n] = [cut[n] EXCEPT !.children = cut[n].children \cup {Len(tree) + 1}]]
  OBVIOUS
<1> DEFINE new == [cut[n] EXCEPT !.children = cut[n].children \cup {Len(tree) + 1}]
<1>9. /\ new \in Nodes /\ new.action = cut[n].action /\ new.move = cut[n].move
      /\ new.pending = cut[n].pending /\ new.children = cut[n].children \cup {Len(tree) + 1}
  <2>1. cut[n] \in Nodes /\ Len(tree) + 1 \in Nat
    BY <1>1, <1>7
  <2> QED
    BY <2>1, Parented
<1>8a. grown = [cut EXCEPT ![n] = new]
  BY <1>8
<1> HIDE DEF new
<1>10. grown \in Seq(Nodes) /\ Len(grown) = Len(tree)
  <2>1. [cut EXCEPT ![n] = new] \in Seq(Nodes) /\ Len([cut EXCEPT ![n] = new]) = Len(cut)
    BY <1>1, <1>7, <1>9
  <2> QED
    BY <1>7, <1>8a, <2>1
<1>11. ASSUME NEW k \in DOMAIN tree
       PROVE  /\ grown[k].action = tree[k].action /\ grown[k].move = tree[k].move
              /\ grown[k].pending \subseteq tree[k].pending
              /\ grown[k].children =
                   IF k = n THEN tree[k].children \cup {Len(tree) + 1} ELSE tree[k].children
  <2>1. k \in DOMAIN cut
    BY <1>1, <1>7
  <2>2. grown[k] = IF k = n THEN new ELSE cut[k]
    BY <1>7, <1>8a, <2>1
  <2> QED
    BY <1>1, <1>7, <1>9, <2>2
<1> HIDE DEF grown
<1> DEFINE all == Append(grown, leaf)
<1>12. /\ all \in Seq(Nodes) /\ Len(all) = Len(tree) + 1 /\ DOMAIN all = 1..Len(tree) + 1
       /\ \A k \in 1..Len(tree) : all[k] = grown[k]
       /\ all[Len(tree) + 1] = leaf
  BY <1>1, <1>5, <1>10
<1> HIDE DEF all
<1>13. Rooted(all)
  <2> DEFINE offered == Offered(scene.held, scene.view)
  <2>1. /\ tree[1].action = SafeAction(scene.held, scene.view)
        /\ tree[1].pending \subseteq offered
        /\ \A c \in tree[1].children :
              /\ c \in DOMAIN tree
              /\ [move |-> tree[c].move, action |-> tree[c].action] \in offered
    BY DEF SearchInv, Rooted
  <2> HIDE DEF offered
  <2>2. all[1].action = tree[1].action /\ all[1].pending \subseteq tree[1].pending
    BY <1>1, <1>11, <1>12
  <2>3. ASSUME NEW c \in all[1].children
        PROVE  c \in DOMAIN all /\ [move |-> all[c].move, action |-> all[c].action] \in offered
    <3>1. CASE c \in tree[1].children
      <4>1. c \in 1..Len(tree)
        BY <1>1, <2>1, <3>1
      <4>2. c \in DOMAIN all /\ all[c] = grown[c]
        BY <1>1, <1>12, <4>1
      <4>3. all[c].move = tree[c].move /\ all[c].action = tree[c].action
        BY <1>1, <1>11, <4>1, <4>2
      <4> QED
        BY <2>1, <3>1, <4>2, <4>3
    <3>2. CASE c \notin tree[1].children
      <4>0. all[1].children = grown[1].children
        BY <1>1, <1>12
      <4>1. n = 1 /\ c = Len(tree) + 1
        BY <1>1, <1>11, <2>3, <3>2, <4>0
      <4>2. all[c] = leaf /\ c \in DOMAIN all
        BY <1>1, <1>12, <4>1
      <4>3. choice \in offered
        BY <2>1, <4>1
      <4> QED
        BY <1>4, <1>6, <4>2, <4>3
    <3> QED
      BY <3>1, <3>2
  <2> QED
    BY <2>1, <2>2, <2>3 DEF Rooted, offered
<1>14. Expanded(n, choice, view) = all
  BY DEF Expanded, all, grown, cut, leaf, new
<1> QED
  BY <1>1, <1>12, <1>13, <1>14

-----------------------------------------------------------------------------
(* The search *)

LEMMA SearchInvInit == SearchInit => SearchInv
<1> SUFFICES ASSUME SearchInit PROVE SearchInv
  OBVIOUS
<1> DEFINE root == Node(SafeAction(scene.held, scene.view), scene.view, StayMove, 0, 0)
<1>1. scene \in Scenes /\ tree = <<root>> /\ decision = NoDecision
  BY DEF SearchInit
<1>2. /\ scene.view \in View /\ scene.held \in Steps
      /\ SafeAction(scene.held, scene.view) \in Steps
  BY <1>1, SceneTypes
<1>3. root \in Nodes
  BY <1>2, NodeType DEF StayMove
<1>4. /\ root.action = SafeAction(scene.held, scene.view) /\ root.children = {}
      /\ root.pending = Offered(scene.held, scene.view)
  BY <1>2, OfferedOfSafe DEF Node
<1> HIDE DEF root
<1>5. tree \in Seq(Nodes) /\ Len(tree) = 1 /\ tree[1] = root
  BY <1>1, <1>3
<1>6. Rooted(tree)
  BY <1>4, <1>5 DEF Rooted
<1> QED
  BY <1>1, <1>5, <1>6 DEF SearchInv, AnswerHolds

LEMMA AnswerSound == SearchInv /\ Answer => SearchInv'
<1> SUFFICES ASSUME SearchInv, Answer PROVE SearchInv'
  OBVIOUS
<1> DEFINE offered == Offered(scene.held, scene.view)
<1>1. /\ scene.view \in View /\ scene.held \in Steps
      /\ UNCHANGED <<scene, tree>> /\ scene \in Scenes
  BY SceneTypes DEF SearchInv, Answer
<1>2. /\ tree[1].action = SafeAction(scene.held, scene.view)
      /\ \A c \in tree[1].children :
            [move |-> tree[c].move, action |-> tree[c].action] \in offered
  BY DEF SearchInv, Rooted
<1>3. decision' \in offered
  <2>1. CASE tree[1].children = {} /\
             decision' = [action |-> tree[1].action, move |-> StayMove]
    <3>1. decision' = [move |-> StayMove, action |-> SafeAction(scene.held, scene.view)]
      BY <1>2, <2>1
    <3> QED
      BY <1>1, <3>1, StayOffered
  <2>2. ASSUME NEW n \in DOMAIN tree, Answered(n),
               decision' = [action |-> SafeAction(tree[n].action, scene.view),
                            move |-> tree[n].move]
        PROVE  decision' \in offered
    <3>1. [move |-> tree[n].move, action |-> tree[n].action] \in offered
      BY <1>2, <2>2 DEF Answered
    <3>2. SafeAction(tree[n].action, scene.view) = tree[n].action
      BY <1>1, <3>1, OfferedSafe
    <3>3. decision' = [move |-> tree[n].move, action |-> tree[n].action]
      BY <2>2, <3>2
    <3> QED
      BY <3>1, <3>3
  <2> QED
    BY <2>1, <2>2 DEF Answer
<1>4. /\ decision'.action = SafeAction(decision'.action, scene.view)
      /\ decision'.action \in [AxisNo -> Nat]
  BY <1>1, <1>3, OfferedSafe
<1>5. MoveIndex(scene.held, decision'.action, scene.view) = decision'.move
  BY <1>1, <1>3, MoveFound
<1>6. ASSUME NEW a \in AxisNo PROVE decision'.action[a] <= scene.view.ceiling
  <2>1. decision'.action \in Steps
    BY <1>4 DEF Steps
  <2>2. decision'.action[a] \in Nat /\ decision'.action[a] <= Capped(scene.view, a)
    BY <1>1, <1>4, <2>1, SafeLevel
  <2>3. /\ Capped(scene.view, a) \in Nat
        /\ Capped(scene.view, a) <= scene.view.ceiling
    BY <1>1, CapRange
  <2>4. scene.view.ceiling \in Int
    BY <1>1, SearchBounds DEF View
  <2> QED
    BY <2>2, <2>3, <2>4
<1>7. AnswerHolds'
  BY <1>1, <1>4, <1>5, <1>6 DEF AnswerHolds
<1>8. Rooted(tree)'
  BY <1>1 DEF SearchInv, Rooted
<1> QED
  BY <1>1, <1>7, <1>8 DEF SearchInv

LEMMA SimulationSound ==
    SearchInv /\ (SimulateGrow \/ SimulatePrune \/ SimulateTail) => SearchInv'
<1> SUFFICES ASSUME SearchInv, SimulateGrow \/ SimulatePrune \/ SimulateTail
             PROVE  SearchInv'
  OBVIOUS
<1>1. UNCHANGED <<scene, decision>> /\ scene \in Scenes /\ scene.view \in View
  BY SceneTypes DEF SearchInv, SimulateGrow, SimulatePrune, SimulateTail, Searching
<1>2. tree' \in Seq(Nodes) /\ Len(tree') > 0 /\ Rooted(tree')
  <2>1. CASE SimulateGrow
    <3>0. PICK n \in Selectable :
             \E choice \in tree[n].pending : \E view \in Predicted :
                tree' = Backed(Expanded(n, choice, view), Line[n] \cup {Len(tree) + 1})
      BY <2>1 DEF SimulateGrow
    <3>1. PICK choice \in tree[n].pending, view \in Predicted :
             tree' = Backed(Expanded(n, choice, view), Line[n] \cup {Len(tree) + 1})
      BY <3>0
    <3>2a. n \in DOMAIN tree
      BY DEF Selectable
    <3>2c. view \in View
      BY DEF Predicted
    <3>2. n \in DOMAIN tree /\ view \in View
      BY <3>2a, <3>2c
    <3>3. /\ Expanded(n, choice, view) \in Seq(Nodes)
          /\ Len(Expanded(n, choice, view)) > 0 /\ Rooted(Expanded(n, choice, view))
      BY <3>2, ExpandedSame
    <3> QED
      BY <3>1, <3>3, BackedSame
  <2>2. CASE SimulatePrune
    <3>0. PICK n \in Selectable :
             \E choice \in tree[n].pending : tree' = Backed(Pruned(n, choice), Line[n])
      BY <2>2 DEF SimulatePrune
    <3>1. PICK choice \in tree[n].pending : tree' = Backed(Pruned(n, choice), Line[n])
      BY <3>0
    <3>2. n \in DOMAIN tree
      BY DEF Selectable
    <3>3. /\ Pruned(n, choice) \in Seq(Nodes)
          /\ Len(Pruned(n, choice)) > 0 /\ Rooted(Pruned(n, choice))
      BY <3>2, PrunedSame DEF SearchInv
    <3> QED
      BY <3>1, <3>3, BackedSame
  <2>3. CASE SimulateTail
    <3>1. PICK n \in Selectable : tree' = Backed(tree, Line[n])
      BY <2>3 DEF SimulateTail
    <3> QED
      BY <3>1, BackedSame DEF SearchInv
  <2> QED
    BY <2>1, <2>2, <2>3
<1>3. Rooted(tree)'
  BY <1>1, <1>2 DEF Rooted
<1>4. AnswerHolds'
  BY <1>1 DEF SearchInv, AnswerHolds
<1> QED
  BY <1>1, <1>2, <1>3, <1>4 DEF SearchInv

LEMMA SearchInvNext == SearchInv /\ [SearchNext]_searchVars => SearchInv'
<1> SUFFICES ASSUME SearchInv, [SearchNext]_searchVars PROVE SearchInv'
  OBVIOUS
<1>1. CASE Answer
  BY <1>1, AnswerSound
<1>2. CASE SimulateGrow \/ SimulatePrune \/ SimulateTail
  BY <1>2, SimulationSound
<1>3. CASE UNCHANGED searchVars
  <2>1. scene' = scene /\ tree' = tree /\ decision' = decision
    BY <1>3 DEF searchVars
  <2>2. Rooted(tree)' /\ AnswerHolds'
    BY <2>1 DEF SearchInv, Rooted, AnswerHolds
  <2> QED
    BY <2>1, <2>2 DEF SearchInv
<1> QED
  BY <1>1, <1>2, <1>3 DEF SearchNext

\* For any axes, levels, measured states, depth and number of simulations: what
\* Planner::search returns, at whatever simulation the deadline cuts it, may be
\* held in the state that was measured, keeps to the allowance, and moveIndex()
\* finds the move main credits the policy with.
THEOREM AnswersHold == SearchSpec => []AnswerHolds
<1>1. SearchInv => AnswerHolds
  BY DEF SearchInv
<1> QED
  BY <1>1, SearchInvInit, SearchInvNext, PTL DEF SearchSpec

-----------------------------------------------------------------------------
(****************************************************************************)
(* Learning.                                                               *)
(* The returns in progress are the last pairs of the chain, oldest first, each *)
(* with the pairs it has; the counts of a brain, in memory and on disk, agree *)
(* as soon as they agree in what a start makes of the disk.                *)
(****************************************************************************)

Returns == [from : Int, steps : Int]

LEMMA ReturnFields ==
    ASSUME NEW a, NEW b, NEW r, r = [from |-> a, steps |-> b]
    PROVE  r.from = a /\ r.steps = b
  OBVIOUS

LEMMA ReturnType ==
    ASSUME NEW a \in Int, NEW b \in Int
    PROVE  [from |-> a, steps |-> b] \in Returns
  BY DEF Returns

\* The returns in progress are the last pairs of the chain, oldest first, each
\* with the pairs it has seen; the scored ones are further back, in order.
ScoreInv ==
    /\ pairs \in Nat /\ chain \in 1..pairs + 1
    /\ pending \in Seq(Returns)
    /\ Len(pending) = IF pairs + 1 - chain < Lookahead - 1 THEN pairs + 1 - chain
                      ELSE Lookahead - 1
    /\ \A i \in 1..Len(pending) :
          pending[i] = [from |-> pairs - Len(pending) + i, steps |-> Len(pending) + 1 - i]
    /\ scored \in Seq(Returns)
    /\ \A i \in 1..Len(scored) :
          /\ scored[i].steps = Lookahead
          /\ scored[i].from <= pairs + 1 - Lookahead
    /\ \A i, j \in 1..Len(scored) : i < j => scored[i].from < scored[j].from
    /\ \A p \in chain..pairs :
          p <= pairs + 1 - Lookahead => \E i \in 1..Len(scored) : scored[i].from = p

LEMMA LookaheadType == Lookahead \in Nat /\ Lookahead > 0
  BY LearningBounds

LEMMA ScoreInvSuffices == ScoreInv => ScoresUnbroken
<1> SUFFICES ASSUME ScoreInv PROVE ScoresUnbroken
  OBVIOUS
<1>0. Lookahead \in Nat /\ Lookahead > 0
  BY LookaheadType
<1> DEFINE L == Len(pending)
<1>1. /\ pairs \in Nat /\ chain \in 1..pairs + 1 /\ L \in Nat /\ Len(scored) \in Nat
      /\ DOMAIN pending = 1..L /\ DOMAIN scored = 1..Len(scored)
      /\ L = IF pairs + 1 - chain < Lookahead - 1 THEN pairs + 1 - chain ELSE Lookahead - 1
  BY DEF ScoreInv
<1>2a. \A i \in 1..L : pending[i] = [from |-> pairs - L + i, steps |-> L + 1 - i]
  BY DEF ScoreInv
<1> HIDE DEF L
<1>2. \A i \in 1..L : pending[i].from = pairs - L + i /\ pending[i].steps = L + 1 - i
  <2> TAKE i \in 1..L
  <2>1. pending[i] = [from |-> pairs - L + i, steps |-> L + 1 - i]
    BY <1>2a
  <2> QED
    BY <2>1, ReturnFields
<1>3. \A i \in DOMAIN pending : pending[i].from = pairs + 1 - pending[i].steps
  BY <1>1, <1>2
<1>4. {pending[i].from : i \in DOMAIN pending} = {p \in chain..pairs : p > pairs + 1 - Lookahead}
  <2>1. ASSUME NEW i \in DOMAIN pending
        PROVE  /\ pending[i].from \in chain..pairs
               /\ pending[i].from > pairs + 1 - Lookahead
    BY <1>0, <1>1, <1>2
  <2>2. ASSUME NEW p \in chain..pairs, p > pairs + 1 - Lookahead
        PROVE  \E i \in DOMAIN pending : pending[i].from = p
    <3> DEFINE i == p - pairs + L
    <3>1. i \in 1..L /\ pairs - L + i = p
      BY <1>0, <1>1, <2>2
    <3> HIDE DEF i
    <3>2. pending[i].from = p
      BY <1>2, <3>1
    <3> QED
      BY <1>1, <3>1, <3>2
  <2> QED
    BY <2>1, <2>2
<1>5. /\ \A i \in DOMAIN scored : scored[i].steps = Lookahead
      /\ \A i \in DOMAIN scored : scored[i].from <= pairs + 1 - Lookahead
      /\ \A i, j \in DOMAIN scored : i < j => scored[i].from < scored[j].from
      /\ \A i \in DOMAIN scored : scored[i].from \in Int
  <2>0. scored \in Seq(Returns)
    BY DEF ScoreInv
  <2>1. \A i \in DOMAIN scored : scored[i] \in Returns
    BY <2>0
  <2>2. \A i \in DOMAIN scored : scored[i].from \in Int
    BY <2>1 DEF Returns
  <2> QED
    BY <1>1, <2>2 DEF ScoreInv
<1>6. IsInjective(scored)
  <2> SUFFICES ASSUME NEW i \in DOMAIN scored, NEW j \in DOMAIN scored, scored[i] = scored[j]
               PROVE  i = j
    BY DEF IsInjective
  <2>1. ~(i < j) /\ ~(j < i)
    BY <1>5
  <2> QED
    BY <1>1, <2>1
<1>7. {scored[i].from : i \in DOMAIN scored} \cap (chain..pairs) =
          {p \in chain..pairs : p <= pairs + 1 - Lookahead}
  <2>1. \A p \in chain..pairs :
           p <= pairs + 1 - Lookahead => \E i \in DOMAIN scored : scored[i].from = p
    BY <1>1 DEF ScoreInv
  <2> QED
    BY <1>5, <2>1
<1> QED
  BY <1>3, <1>4, <1>5, <1>6, <1>7 DEF ScoresUnbroken

\* Of returns each one pair younger than the one before it at most the first is
\* due, and only when it has just had its last pair.
LEMMA FrontDue ==
    ASSUME NEW returns \in Seq(Returns), NEW n \in Nat, n > 0,
           Len(returns) = n, n <= Lookahead,
           \A i \in 1..n : returns[i].steps = n + 1 - i
    PROVE  DueInFront(returns) = IF n = Lookahead THEN 1 ELSE 0
<1>0. Lookahead \in Nat /\ Lookahead > 0
  BY LookaheadType
<1> DEFINE P(k) == /\ \A i \in 1..k : Due(returns[i])
                   /\ k < Len(returns) => ~Due(returns[k + 1])
           at == IF n = Lookahead THEN 1 ELSE 0
<1>1. \A i \in 1..n : Due(returns[i]) <=> (n = Lookahead /\ i = 1)
  BY <1>0 DEF Due
<1>2. at \in 0..n /\ P(at)
  BY <1>0, <1>1
<1>3. ASSUME NEW k \in 0..n, P(k) PROVE k = at
  <2>0. \A i \in 1..k : Due(returns[i])
    BY <1>3
  <2>1. CASE n = Lookahead
    <3>1. k # 0
      BY <1>1, <1>3, <2>1
    <3>2. ~(k >= 2)
      <4>1. k >= 2 => 2 \in 1..k /\ 2 \in 1..n
        OBVIOUS
      <4>2. k >= 2 => Due(returns[2])
        BY <2>0, <4>1
      <4>3. k >= 2 => ~Due(returns[2])
        BY <1>1, <4>1
      <4> QED
        BY <4>2, <4>3
    <3> QED
      BY <2>1, <3>1, <3>2
  <2>2. CASE n # Lookahead
    <3>1. k # 0 => 1 \in 1..k /\ 1 \in 1..n
      OBVIOUS
    <3> QED
      BY <1>1, <1>3, <2>2, <3>1
  <2> QED
    BY <2>1, <2>2
<1>4. DueInFront(returns) = CHOOSE k \in 0..n : P(k)
  BY DEF DueInFront
<1> HIDE DEF P, at
<1>5. (CHOOSE k \in 0..n : P(k)) = at
  BY <1>2, <1>3
<1> QED
  BY <1>4, <1>5 DEF at

LEMMA ScoreKeeps ==
    ASSUME ScoreInv, NEW linked \in BOOLEAN, linked => pairs > 0, Score(linked)
    PROVE  ScoreInv'
<1>0. Lookahead \in Nat /\ Lookahead > 0
  BY LookaheadType
<1> DEFINE old == Chained(linked)
           M == Len(old)
           all == Append(old, [from |-> pairs + 1, steps |-> 0])
           aged == [i \in DOMAIN all |-> [all[i] EXCEPT !.steps = @ + 1]]
           n == DueInFront(aged)
<1>1. /\ pairs \in Nat /\ chain \in 1..pairs + 1 /\ chain \in Int
      /\ pending \in Seq(Returns) /\ Len(pending) \in Nat
      /\ Len(pending) = IF pairs + 1 - chain < Lookahead - 1 THEN pairs + 1 - chain
                        ELSE Lookahead - 1
  BY DEF ScoreInv
<1>2. \A i \in 1..Len(pending) :
         pending[i] = [from |-> pairs - Len(pending) + i, steps |-> Len(pending) + 1 - i]
  BY DEF ScoreInv
<1>3. /\ pending' = SubSeq(aged, n + 1, Len(aged))
      /\ scored' = scored \o SubSeq(aged, 1, n)
      /\ pairs' = pairs + 1
      /\ chain' = IF linked THEN chain ELSE pairs + 1
  BY DEF Score
<1>3a. pairs' = pairs + 1 /\ chain' = IF linked THEN chain ELSE pairs + 1
  BY <1>3
\* The returns that go on, with the new one and all a pair older.
<1>4. /\ old \in Seq(Returns) /\ M \in Nat /\ M < Lookahead
      /\ M = IF pairs' - chain' < Lookahead - 1 THEN pairs' - chain' ELSE Lookahead - 1
      /\ \A i \in 1..M : old[i] = [from |-> pairs - M + i, steps |-> M + 1 - i]
  <2>1. CASE linked
    <3>1. old = pending
      BY <2>1 DEF Chained
    <3>2. M = IF pairs' - chain' < Lookahead - 1 THEN pairs' - chain' ELSE Lookahead - 1
      <4>1. pairs' - chain' = pairs + 1 - chain
        BY <1>1, <1>3a, <2>1
      <4>2. M = Len(pending)
        BY <3>1
      <4> QED
        BY <1>1, <4>1, <4>2
    <3>3. M \in Nat /\ M < Lookahead
      BY <1>0, <1>1, <3>1
    <3> QED
      BY <1>1, <1>2, <3>1, <3>2, <3>3
  <2>2. CASE ~linked
    <3>1. old = <<>>
      BY <2>2 DEF Chained
    <3>2. old \in Seq(Returns) /\ M = 0
      BY <3>1
    <3> QED
      BY <1>0, <1>1, <1>3, <2>2, <3>2
  <2> QED
    BY <2>1, <2>2
<1>4a. /\ M \in Nat /\ M < Lookahead
       /\ M = IF pairs' - chain' < Lookahead - 1 THEN pairs' - chain' ELSE Lookahead - 1
  BY <1>4
<1> HIDE DEF old, M
<1>5. /\ all \in Seq(Returns) /\ Len(all) = M + 1 /\ DOMAIN all = 1..M + 1
      /\ \A i \in 1..M : all[i] = old[i]
      /\ all[M + 1] = [from |-> pairs + 1, steps |-> 0]
  <2>1. [from |-> pairs + 1, steps |-> 0] \in Returns
    <3>1. pairs + 1 \in Int /\ 0 \in Int
      BY <1>1
    <3> QED
      BY <3>1, ReturnType
  <2> QED
    BY <1>4, <2>1 DEF M
<1> HIDE DEF all
<1>6. \A i \in 1..M + 1 : all[i] = [from |-> pairs - M + i, steps |-> M + 1 - i]
  <2> TAKE i \in 1..M + 1
  <2>1. CASE i = M + 1
    BY <1>1, <1>4, <1>5, <2>1
  <2>2. CASE i # M + 1
    <3>1. i \in 1..M
      BY <1>4, <2>2
    <3> QED
      BY <1>4, <1>5, <3>1
  <2> QED
    BY <2>1, <2>2
<1>7. \A i \in 1..M + 1 : aged[i] = [from |-> pairs - M + i, steps |-> M + 2 - i]
  <2> TAKE i \in 1..M + 1
  <2>1. aged[i] = [all[i] EXCEPT !.steps = all[i].steps + 1]
    BY <1>5
  <2>2. all[i] = [from |-> pairs - M + i, steps |-> M + 1 - i]
    BY <1>6
  <2>3. M + 1 - i + 1 = M + 2 - i
    BY <1>4
  <2> QED
    BY <1>1, <1>4, <2>1, <2>2, <2>3
<1>8. aged \in Seq(Returns) /\ Len(aged) = M + 1 /\ DOMAIN aged = 1..M + 1
  <2>1. aged = [i \in 1..M + 1 |-> aged[i]] /\ DOMAIN aged = 1..M + 1
    BY <1>5
  <2> HIDE DEF aged
  <2>2. ASSUME NEW i \in 1..M + 1 PROVE aged[i] \in Returns
    <3>1. aged[i] = [from |-> pairs - M + i, steps |-> M + 2 - i]
      BY <1>7
    <3>2. pairs - M + i \in Int /\ M + 2 - i \in Int
      BY <1>1, <1>4
    <3> QED
      BY <3>1, <3>2, ReturnType
  <2>3. M + 1 \in Nat
    BY <1>4
  <2> QED
    BY <2>1, <2>2, <2>3
<1> HIDE DEF aged
<1>9. n = IF M + 1 = Lookahead THEN 1 ELSE 0
  <2>1. /\ M + 1 \in Nat /\ M + 1 > 0 /\ M + 1 <= Lookahead
        /\ \A i \in 1..M + 1 : aged[i].steps = M + 1 + 1 - i
    <3>1. M + 1 \in Nat /\ M + 1 > 0 /\ M + 1 <= Lookahead
      BY <1>0, <1>4
    <3>2. ASSUME NEW i \in 1..M + 1 PROVE aged[i].steps = M + 1 + 1 - i
      <4>1. aged[i] = [from |-> pairs - M + i, steps |-> M + 2 - i]
        BY <1>7
      <4>2. aged[i].steps = M + 2 - i
        BY <4>1, ReturnFields
      <4> QED
        BY <1>4, <4>2
    <3> QED
      BY <3>1, <3>2
  <2> QED
    BY <1>8, <2>1, FrontDue
<1> HIDE DEF n
<1>10. n \in {0, 1} /\ n <= M + 1
  BY <1>4, <1>9
<1> DEFINE left == SubSeq(aged, n + 1, Len(aged))
           due == SubSeq(aged, 1, n)
           K == M + 1 - n
<1>11. /\ left \in Seq(Returns) /\ Len(left) = K /\ K \in Nat
       /\ \A i \in 1..K : left[i] = aged[n + i]
  BY <1>4, <1>8, <1>10
<1>12. /\ due \in Seq(Returns) /\ Len(due) = n
       /\ n = 1 => due[1] = aged[1]
  BY <1>4, <1>8, <1>10
<1> HIDE DEF left, due
<1>13. K = IF pairs' + 1 - chain' < Lookahead - 1 THEN pairs' + 1 - chain' ELSE Lookahead - 1
  BY <1>0, <1>1, <1>3a, <1>4, <1>9
<1>14. pairs' \in Nat /\ chain' \in 1..pairs' + 1
  BY <1>1, <1>3a
<1>15. ASSUME NEW i \in 1..K
       PROVE  left[i] = [from |-> pairs' - K + i, steps |-> K + 1 - i]
  <2>1. n + i \in 1..M + 1
    BY <1>4, <1>10
  <2>2. aged[n + i] = [from |-> pairs - M + (n + i), steps |-> M + 2 - (n + i)]
    BY <1>7, <2>1
  <2>3. pairs - M + (n + i) = pairs' - K + i /\ M + 2 - (n + i) = K + 1 - i
    <3>1. M \in Int /\ pairs \in Int /\ pairs' = pairs + 1 /\ i \in Int
      BY <1>1, <1>3a, <1>4a, <1>10
    <3>2. CASE n = 0
      BY <3>1, <3>2
    <3>3. CASE n = 1
      BY <3>1, <3>3
    <3> QED
      BY <1>10, <3>2, <3>3
  <2> QED
    BY <1>11, <2>2, <2>3
<1> HIDE DEF K
\* What is scored: the first, if it has had its Lookahead pairs.
<1>16. n = 1 => due[1].from = pairs' + 1 - Lookahead /\ due[1].steps = Lookahead
  <2> SUFFICES ASSUME n = 1
               PROVE  due[1].from = pairs' + 1 - Lookahead /\ due[1].steps = Lookahead
    OBVIOUS
  <2>1. M + 1 = Lookahead /\ 1 \in 1..M + 1
    BY <1>4, <1>9
  <2>2. due[1] = [from |-> pairs - M + 1, steps |-> M + 2 - 1]
    BY <1>7, <1>12, <2>1
  <2>3. due[1].from = pairs - M + 1 /\ due[1].steps = M + 2 - 1
    BY <2>2, ReturnFields
  <2> QED
    BY <1>0, <1>1, <1>3a, <1>4, <2>1, <2>3
<1> DEFINE N == Len(scored)
<1>17. /\ scored \in Seq(Returns) /\ N \in Nat
       /\ \A i \in 1..N : /\ scored[i].steps = Lookahead
                           /\ scored[i].from <= pairs + 1 - Lookahead
       /\ \A i, j \in 1..N : i < j => scored[i].from < scored[j].from
       /\ \A p \in chain..pairs :
             p <= pairs + 1 - Lookahead => \E i \in 1..N : scored[i].from = p
  BY DEF ScoreInv
<1>18. \A i \in 1..N : scored[i].from \in Int
  <2>1. \A i \in 1..N : scored[i] \in Returns
    BY <1>17
  <2> QED
    BY <2>1 DEF Returns
<1>19. /\ scored' \in Seq(Returns) /\ Len(scored') = N + n
       /\ \A i \in 1..N : scored'[i] = scored[i]
       /\ n = 1 => scored'[N + 1] = due[1]
  <2>1. scored' = scored \o due
    BY <1>3 DEF due
  <2> QED
    BY <1>10, <1>12, <1>17, <2>1
<1> HIDE DEF N
<1>20. ASSUME NEW i \in 1..N + n
       PROVE  /\ scored'[i].steps = Lookahead
              /\ scored'[i].from <= pairs' + 1 - Lookahead
              /\ \/ i \in 1..N /\ scored'[i] = scored[i]
                 \/ i = N + 1 /\ n = 1 /\ scored'[i] = due[1]
  <2>1. CASE i \in 1..N
    <3>1. scored'[i] = scored[i]
      BY <1>19, <2>1
    <3> QED
      <4>1. scored[i].steps = Lookahead /\ scored[i].from <= pairs + 1 - Lookahead
        BY <1>17, <2>1
      <4>2. scored[i].from <= pairs' + 1 - Lookahead
        BY <1>0, <1>1, <1>3a, <1>18, <2>1, <4>1
      <4> QED
        BY <2>1, <3>1, <4>1, <4>2
  <2>2. CASE i \notin 1..N
    <3>1. i = N + 1 /\ n = 1
      BY <1>10, <1>17, <2>2
    <3> QED
      BY <1>0, <1>14, <1>16, <1>19, <3>1
  <2> QED
    BY <2>1, <2>2
<1>21. ASSUME NEW i \in 1..N + n, NEW j \in 1..N + n, i < j
       PROVE  scored'[i].from < scored'[j].from
  <2>1. i \in 1..N /\ scored'[i] = scored[i]
    BY <1>10, <1>17, <1>20, <1>21
  <2>2. CASE j \in 1..N
    <3>1. scored'[j] = scored[j]
      BY <1>19, <2>2
    <3> QED
      BY <1>17, <1>21, <2>1, <2>2, <3>1
  <2>3. CASE j \notin 1..N
    <3>1. n = 1 /\ scored'[j] = due[1]
      BY <1>20, <2>3
    <3> QED
      BY <1>0, <1>1, <1>3a, <1>16, <1>17, <1>18, <2>1, <3>1
  <2> QED
    BY <2>2, <2>3
<1>21a. chain' <= pairs' + 1 - Lookahead => M + 1 = Lookahead
  <2>1. pairs' \in Int /\ chain' \in Int
    BY <1>14
  <2>2. PICK p \in Int, c \in Int : p = pairs' /\ c = chain'
    BY <2>1
  <2>3. c <= p + 1 - Lookahead => ~(p - c < Lookahead - 1)
    BY <1>0
  <2> QED
    BY <1>0, <1>4a, <2>2, <2>3
<1>22. ASSUME NEW p \in chain'..pairs', p <= pairs' + 1 - Lookahead
       PROVE  \E i \in 1..N + n : scored'[i].from = p
  <2>1. CASE p = pairs' + 1 - Lookahead
    <3>1. M + 1 = Lookahead
      <4>1. chain' <= pairs' + 1 - Lookahead
        BY <1>14, <1>22, <2>1
      <4> QED
        BY <1>21a, <4>1
    <3>2. n = 1 /\ N + 1 \in 1..N + n
      BY <1>9, <1>17, <3>1
    <3> QED
      BY <1>16, <1>19, <2>1, <3>2
  <2>2. CASE p # pairs' + 1 - Lookahead
    <3>1. linked
      BY <1>0, <1>1, <1>3a, <1>22, <2>2
    <3>2. p \in chain..pairs /\ p <= pairs + 1 - Lookahead
      BY <1>0, <1>1, <1>3a, <1>22, <2>2, <3>1
    <3>3. PICK i \in 1..N : scored[i].from = p
      BY <1>17, <3>2
    <3>4. i \in 1..N + n /\ scored'[i] = scored[i]
      BY <1>10, <1>17, <1>19
    <3> QED
      BY <3>3, <3>4
  <2> QED
    BY <2>1, <2>2
<1>23. pending' = left
  BY <1>3 DEF left
<1>24. /\ pending' \in Seq(Returns)
       /\ Len(pending') = IF pairs' + 1 - chain' < Lookahead - 1 THEN pairs' + 1 - chain'
                          ELSE Lookahead - 1
       /\ \A i \in 1..Len(pending') :
             pending'[i] = [from |-> pairs' - Len(pending') + i, steps |-> Len(pending') + 1 - i]
  <2> HIDE DEF K
  <2> QED
    BY <1>11, <1>13, <1>15, <1>23
<1>25. /\ scored' \in Seq(Returns)
       /\ \A i \in 1..Len(scored') :
             /\ scored'[i].steps = Lookahead
             /\ scored'[i].from <= pairs' + 1 - Lookahead
       /\ \A i, j \in 1..Len(scored') : i < j => scored'[i].from < scored'[j].from
       /\ \A p \in chain'..pairs' :
             p <= pairs' + 1 - Lookahead => \E i \in 1..Len(scored') : scored'[i].from = p
  BY <1>19, <1>20, <1>21, <1>22
<1> QED
  BY <1>14, <1>24, <1>25 DEF ScoreInv

-----------------------------------------------------------------------------
(* The counts of a brain *)

Contexts == UNION {[D -> Nat] : D \in SUBSET Policies}

Brains == [updates : Nat, windows : Nat, contexts : Contexts, policies : Nat,
           seen : Nat, samples : Seq(Nat)]

\* A policy map deserialize takes: as many keys, touched as late, as it may be.
Mapped(contexts, policies) ==
    /\ contexts \in Contexts
    /\ IsFiniteSet(DOMAIN contexts) /\ Cardinality(DOMAIN contexts) <= MaxContexts
    /\ \A k \in DOMAIN contexts : contexts[k] \in 1..policies

\* A replay buffer after w windows.
Buffered(buffer, w) ==
    /\ buffer \in Seq(Nat)
    /\ Len(buffer) = IF Capacity <= w THEN Capacity ELSE w
    /\ \A i \in 1..Len(buffer) : buffer[i] \in 1..w
    /\ \A i, j \in 1..Len(buffer) : buffer[i] = buffer[j] => i = j
    /\ w > 0 => \E i \in 1..Len(buffer) : buffer[i] = w

Sound(b) ==
    /\ b \in Brains
    /\ b.updates = b.windows /\ b.seen = b.windows /\ b.policies <= b.windows
    /\ Mapped(b.contexts, b.policies)
    /\ Buffered(b.samples, b.windows)

CountInv == Sound(brain) /\ Sound(stored)

LEMMA Sizes == Capacity \in Nat /\ Capacity > 0 /\ MaxContexts \in Nat /\ MaxContexts > 0
  BY LearningBounds

LEMMA CountInvSuffices == CountInv => CountsAgree
<1> SUFFICES ASSUME CountInv, NEW b \in {brain, stored}
             PROVE  /\ b.updates = b.windows /\ b.seen = b.windows
                    /\ b.policies <= b.windows
                    /\ \A k \in DOMAIN b.contexts : b.contexts[k] \in 1..b.policies
                    /\ Cardinality(DOMAIN b.contexts) <= MaxContexts
                    /\ Len(b.samples) = Min({Capacity, b.windows}) /\ IsInjective(b.samples)
                    /\ Range(b.samples) \subseteq 1..b.windows
                    /\ b.windows > 0 => b.windows \in Range(b.samples)
  BY DEF CountsAgree
<1>1. Sound(b)
  BY DEF CountInv
<1>2. b.windows \in Nat
  BY <1>1 DEF Sound, Brains
<1>3. /\ b.samples \in Seq(Nat)
      /\ Len(b.samples) = IF Capacity <= b.windows THEN Capacity ELSE b.windows
      /\ \A i \in 1..Len(b.samples) : b.samples[i] \in 1..b.windows
      /\ \A i, j \in 1..Len(b.samples) : b.samples[i] = b.samples[j] => i = j
      /\ b.windows > 0 => \E i \in 1..Len(b.samples) : b.samples[i] = b.windows
  BY <1>1 DEF Sound, Buffered
<1>4. DOMAIN b.samples = 1..Len(b.samples)
  BY <1>3
<1>5. Len(b.samples) = Min({Capacity, b.windows})
  BY <1>2, <1>3, Sizes, MinOfPair
<1>6. IsInjective(b.samples)
  BY <1>3, <1>4 DEF IsInjective
<1>7. Range(b.samples) = {b.samples[i] : i \in 1..Len(b.samples)}
  BY <1>4 DEF Range
<1> QED
  BY <1>1, <1>3, <1>5, <1>6, <1>7 DEF Sound, Mapped

\* Replay::add keeps the newest window and never holds one twice.
LEMMA BufferKept ==
    ASSUME NEW buffer, NEW w \in Nat, Buffered(buffer, w), NEW new \in Kept(buffer, w + 1)
    PROVE  Buffered(new, w + 1)
<1>1. /\ buffer \in Seq(Nat) /\ Len(buffer) \in Nat
      /\ Len(buffer) = IF Capacity <= w THEN Capacity ELSE w
      /\ \A i \in 1..Len(buffer) : buffer[i] \in 1..w
      /\ \A i, j \in 1..Len(buffer) : buffer[i] = buffer[j] => i = j
  BY DEF Buffered
<1> DEFINE n == Len(buffer)
<1>2. CASE n < Capacity
  <2>1. n = w /\ w + 1 <= Capacity
    BY <1>1, <1>2, Sizes
  <2>2. new = Append(buffer, w + 1)
    BY <1>2 DEF Kept
  <2>3. /\ new \in Seq(Nat) /\ Len(new) = w + 1 /\ new[w + 1] = w + 1
        /\ \A i \in 1..w : new[i] = buffer[i]
    BY <1>1, <2>1, <2>2
  <2>4. ASSUME NEW i \in 1..w + 1 PROVE new[i] \in 1..w + 1 /\ (i # w + 1 => new[i] \in 1..w)
    <3>1. CASE i = w + 1
      BY <2>3, <3>1
    <3>2. CASE i # w + 1
      <4>1. i \in 1..w
        BY <3>2
      <4> QED
        BY <1>1, <2>1, <2>3, <4>1
    <3> QED
      BY <3>1, <3>2
  <2>5. ASSUME NEW i \in 1..w + 1, NEW j \in 1..w + 1, new[i] = new[j] PROVE i = j
    <3>1. CASE i = w + 1 \/ j = w + 1
      BY <2>3, <2>4, <2>5, <3>1
    <3>2. CASE i # w + 1 /\ j # w + 1
      <4>1. i \in 1..w /\ j \in 1..w
        BY <3>2
      <4> QED
        BY <1>1, <2>1, <2>3, <2>5, <4>1
    <3> QED
      BY <3>1, <3>2
  <2>6. Len(new) = IF Capacity <= w + 1 THEN Capacity ELSE w + 1
    BY <2>1, <2>3, Sizes
  <2> QED
    BY <2>3, <2>4, <2>5, <2>6 DEF Buffered
<1>3. CASE ~(n < Capacity)
  <2>1. n = Capacity /\ Capacity <= w
    BY <1>1, <1>3, Sizes
  <2>2. PICK at \in 1..n : new = [buffer EXCEPT ![at] = w + 1]
    <3>1. new \in {[buffer EXCEPT ![i] = w + 1] : i \in 1..Capacity}
      BY <1>3 DEF Kept
    <3> QED
      BY <2>1, <3>1
  <2>3. /\ new \in Seq(Nat) /\ Len(new) = n
        /\ \A i \in 1..n : new[i] = IF i = at THEN w + 1 ELSE buffer[i]
    BY <1>1, <2>2
  <2>4. \A i \in 1..n : new[i] \in 1..w + 1 /\ (i # at => new[i] \in 1..w)
    BY <1>1, <2>3
  <2>5. ASSUME NEW i \in 1..n, NEW j \in 1..n, new[i] = new[j] PROVE i = j
    <3>1. CASE i = at \/ j = at
      BY <2>3, <2>4, <2>5, <3>1
    <3>2. CASE i # at /\ j # at
      BY <1>1, <2>3, <2>5, <3>2
    <3> QED
      BY <3>1, <3>2
  <2>6. Len(new) = IF Capacity <= w + 1 THEN Capacity ELSE w + 1
    BY <2>1, <2>3, Sizes
  <2>7. new[at] = w + 1
    BY <2>3
  <2> QED
    BY <2>3, <2>4, <2>5, <2>6, <2>7 DEF Buffered
<1> QED
  BY <1>2, <1>3

LEMMA EvictedMapped ==
    ASSUME NEW contexts, NEW policies \in Nat, Mapped(contexts, policies),
           Cardinality(DOMAIN contexts) >= MaxContexts
    PROVE  /\ Mapped(Evicted(contexts), policies)
           /\ DOMAIN Evicted(contexts) \subseteq DOMAIN contexts
           /\ Cardinality(DOMAIN Evicted(contexts)) < MaxContexts
<1> DEFINE D == DOMAIN contexts
           S == {contexts[k] : k \in D}
           gone == CHOOSE k \in D : \A l \in D : contexts[k] <= contexts[l]
<1>1. /\ IsFiniteSet(D) /\ Cardinality(D) = MaxContexts /\ D \in SUBSET Policies
      /\ contexts \in [D -> Nat] /\ \A k \in D : contexts[k] \in 1..policies
  <2>1. /\ contexts \in Contexts /\ IsFiniteSet(D) /\ Cardinality(D) <= MaxContexts
        /\ \A k \in D : contexts[k] \in 1..policies
    BY DEF Mapped
  <2>2. Cardinality(D) \in Nat
    BY <2>1, FS_CardinalityType
  <2> QED
    BY <2>1, <2>2, Sizes DEF Contexts
<1>2. D # {}
  BY <1>1, FS_EmptySet, Sizes
<1>3. S \in SUBSET Nat /\ S # {}
  BY <1>1, <1>2
<1>4. PICK x \in S : \A y \in S : x <= y
  BY <1>3, LeastOfNat
<1>5. \E k \in D : \A l \in D : contexts[k] <= contexts[l]
  BY <1>4
<1>6. gone \in D
  BY <1>5
<1>7. Evicted(contexts) = [k \in D \ {gone} |-> contexts[k]]
  BY DEF Evicted
<1> HIDE DEF gone, D
<1>8. DOMAIN Evicted(contexts) = D \ {gone}
  BY <1>7
<1>9. IsFiniteSet(D \ {gone}) /\ Cardinality(D \ {gone}) = MaxContexts - 1
  BY <1>1, <1>6, FS_RemoveElement
<1>10. Evicted(contexts) \in [D \ {gone} -> Nat] /\ D \ {gone} \in SUBSET Policies
  BY <1>1, <1>7
<1>11. Evicted(contexts) \in Contexts
  BY <1>10 DEF Contexts
<1>12. \A k \in D \ {gone} : Evicted(contexts)[k] \in 1..policies
  BY <1>1, <1>7
<1> QED
  BY <1>8, <1>9, <1>11, <1>12, Sizes DEF Mapped, D

LEMMA ReinforcedMapped ==
    ASSUME NEW contexts, NEW policies \in Nat, Mapped(contexts, policies), NEW key \in Policies
    PROVE  Mapped(Reinforced(contexts, key, policies + 1), policies + 1)
<1> DEFINE full == key \notin DOMAIN contexts /\ Cardinality(DOMAIN contexts) >= MaxContexts
           room == IF full THEN Evicted(contexts) ELSE contexts
           D == DOMAIN room
           new == Reinforced(contexts, key, policies + 1)
<1>1. /\ Mapped(room, policies)
      /\ key \notin D => Cardinality(D) < MaxContexts
  <2>1. CASE full
    BY <2>1, EvictedMapped
  <2>2. CASE ~full
    <3>1. IsFiniteSet(DOMAIN contexts)
      BY DEF Mapped
    <3>2. Cardinality(DOMAIN contexts) \in Nat
      BY <3>1, FS_CardinalityType
    <3>3. key \notin DOMAIN contexts => Cardinality(DOMAIN contexts) < MaxContexts
      BY <2>2, <3>2, Sizes
    <3> QED
      BY <2>2, <3>3
  <2> QED
    BY <2>1, <2>2
<1>2. new = [k \in D \cup {key} |-> IF k = key THEN policies + 1 ELSE room[k]]
  BY DEF Reinforced
<1> HIDE DEF room
<1>3. /\ IsFiniteSet(D) /\ D \in SUBSET Policies /\ room \in [D -> Nat]
      /\ Cardinality(D) <= MaxContexts /\ \A k \in D : room[k] \in 1..policies
  BY <1>1 DEF Mapped, Contexts
<1> HIDE DEF new, D
<1>4. /\ IsFiniteSet(D \cup {key})
      /\ Cardinality(D \cup {key}) = IF key \in D THEN Cardinality(D) ELSE Cardinality(D) + 1
      /\ Cardinality(D) \in Nat
  BY <1>3, FS_AddElement, FS_CardinalityType
<1>5. Cardinality(D \cup {key}) <= MaxContexts
  BY <1>1, <1>3, <1>4, Sizes
<1>6. /\ DOMAIN new = D \cup {key} /\ new \in [D \cup {key} -> Nat]
      /\ \A k \in D \cup {key} : new[k] \in 1..policies + 1
  BY <1>2, <1>3
<1>7. new \in Contexts
  BY <1>3, <1>6 DEF Contexts
<1> QED
  BY <1>4, <1>5, <1>6, <1>7 DEF Mapped, new

\* deserialize folds keys onto keys: never more of them, never touched later.
LEMMA FoldedMapped ==
    ASSUME NEW contexts, NEW fold \in Folds, NEW policies \in Nat, Mapped(contexts, policies)
    PROVE  Mapped(FoldedContexts(contexts, fold), policies)
<1> DEFINE D == DOMAIN contexts
           T == {Refold(j, fold) : j \in D}
           Met(k) == {contexts[j] : j \in {l \in D : Refold(l, fold) = k}}
           f == [j \in D |-> Refold(j, fold)]
           new == FoldedContexts(contexts, fold)
<1>1. /\ IsFiniteSet(D) /\ Cardinality(D) <= MaxContexts /\ D \in SUBSET Policies
      /\ \A k \in D : contexts[k] \in 1..policies
  BY DEF Mapped, Contexts
<1>2. new = [k \in T |-> Max(Met(k))]
  BY DEF FoldedContexts
<1> HIDE DEF D, new
<1>3. f \in Surjection(D, T)
  BY DEF Surjection
<1> HIDE DEF f
<1>4. /\ IsFiniteSet(T) /\ Cardinality(T) <= Cardinality(D)
  BY <1>1, <1>3, FS_Surjection
<1>5. Cardinality(T) \in Nat /\ Cardinality(D) \in Nat
  BY <1>1, <1>4, FS_CardinalityType
<1>6. Cardinality(T) <= MaxContexts
  BY <1>1, <1>4, <1>5, Sizes
<1>7. T \in SUBSET Policies
  BY <1>1, LearningBounds DEF Refold
<1>8. ASSUME NEW k \in T PROVE Max(Met(k)) \in 1..policies
  <2>1. Met(k) \in SUBSET Nat /\ Met(k) # {} /\ \A x \in Met(k) : x <= policies /\ x \in 1..policies
    BY <1>1
  <2>2. Max(Met(k)) \in Met(k)
    BY <2>1, MaxOfBounded
  <2> QED
    BY <2>1, <2>2
<1> HIDE DEF Met, T
<1>9. DOMAIN new = T /\ new \in [T -> Nat] /\ \A k \in T : new[k] \in 1..policies
  BY <1>2, <1>8
<1>10. new \in Contexts
  BY <1>7, <1>9 DEF Contexts
<1> QED
  BY <1>4, <1>6, <1>9, <1>10 DEF Mapped, new

-----------------------------------------------------------------------------
(* The brain *)

LearningInv == ScoreInv /\ CountInv

LEMMA LearningInvInit == LearningInit => LearningInv
<1> SUFFICES ASSUME LearningInit PROVE LearningInv
  OBVIOUS
<1>1. /\ brain = Empty /\ stored = Empty
      /\ pending = <<>> /\ scored = <<>> /\ chain = 1 /\ pairs = 0
  BY DEF LearningInit
<1>2. ScoreInv
  BY <1>1, LookaheadType DEF ScoreInv
<1>3. Sound(Empty)
  <2>1. <<>> \in [{} -> Nat] /\ DOMAIN <<>> = {}
    OBVIOUS
  <2>2. <<>> \in Contexts
    BY <2>1 DEF Contexts
  <2>3. Mapped(<<>>, 0)
    BY <2>1, <2>2, FS_EmptySet, Sizes DEF Mapped
  <2>4. Buffered(<<>>, 0)
    BY Sizes DEF Buffered
  <2>5. Empty \in Brains
    BY <2>2 DEF Empty, Brains
  <2> QED
    BY <2>3, <2>4, <2>5 DEF Empty, Sound
<1> QED
  BY <1>1, <1>2, <1>3 DEF LearningInv, CountInv

LEMMA CreditedSound ==
    ASSUME LearningInv, NEW linked \in BOOLEAN, NEW key \in Policies \cup {"none"},
           Credited(linked, key)
    PROVE  LearningInv'
<1>1. ScoreInv'
  <2>1. ScoreInv /\ (linked => pairs > 0) /\ Score(linked)
    BY DEF LearningInv, Credited
  <2> QED
    BY <2>1, ScoreKeeps
<1> DEFINE w == brain.windows + 1
           touch == brain.policies + 1
           none == key = "none"
           contexts == IF none THEN brain.contexts ELSE Reinforced(brain.contexts, key, touch)
           policies == IF none THEN brain.policies ELSE touch
<1>2. PICK buffer \in Kept(brain.samples, w) :
         brain' = [updates |-> Learned(brain.updates, TRUE), windows |-> w,
                   contexts |-> contexts, policies |-> policies,
                   seen |-> brain.seen + 1, samples |-> buffer]
  BY DEF Credited
<1>3. Sound(brain) /\ Sound(stored) /\ stored' = stored
  BY DEF LearningInv, CountInv, Credited
<1>4. /\ brain.windows \in Nat /\ brain.policies \in Nat /\ brain.updates = brain.windows
      /\ brain.seen = brain.windows /\ brain.policies <= brain.windows
  BY <1>3 DEF Sound, Brains
<1>5. Mapped(contexts, policies) /\ policies \in Nat /\ policies <= w
  <2>1. CASE none
    BY <1>3, <1>4, <2>1 DEF Sound
  <2>2. CASE ~none
    <3>1. key \in Policies
      BY <2>2
    <3>2. Mapped(brain.contexts, brain.policies)
      BY <1>3 DEF Sound
    <3>3. Mapped(Reinforced(brain.contexts, key, brain.policies + 1), brain.policies + 1)
      BY <1>4, <3>1, <3>2, ReinforcedMapped
    <3> QED
      BY <1>4, <2>2, <3>3
  <2> QED
    BY <2>1, <2>2
<1>6. Buffered(buffer, w)
  <2>1. Buffered(brain.samples, brain.windows)
    BY <1>3 DEF Sound
  <2> QED
    BY <1>4, <2>1, BufferKept
<1>7. Learned(brain.updates, TRUE) = w /\ brain.seen + 1 = w /\ w \in Nat
  BY <1>4 DEF Learned
<1> HIDE DEF contexts, policies, w
<1>8. /\ contexts \in Contexts /\ buffer \in Seq(Nat)
  BY <1>5, <1>6 DEF Mapped, Buffered
<1>9. /\ brain'.updates = w /\ brain'.windows = w /\ brain'.seen = w
      /\ brain'.contexts = contexts /\ brain'.policies = policies /\ brain'.samples = buffer
  BY <1>2, <1>7
<1>10. brain' \in Brains
  BY <1>2, <1>5, <1>7, <1>8 DEF Brains
<1>11. Sound(brain')
  BY <1>5, <1>6, <1>9, <1>10 DEF Sound
<1> QED
  BY <1>1, <1>3, <1>11 DEF LearningInv, CountInv

LEMMA StartSound == LearningInv /\ Start => LearningInv'
<1> SUFFICES ASSUME LearningInv, Start PROVE LearningInv'
  OBVIOUS
<1>0. PICK fold \in Folds :
          brain' = [stored EXCEPT !.contexts = FoldedContexts(stored.contexts, fold),
                                  !.seen = IF stored.samples = <<>> THEN 0 ELSE stored.seen]
  BY DEF Start
<1>1. /\ brain' = [stored EXCEPT !.contexts = FoldedContexts(stored.contexts, fold),
                                 !.seen = IF stored.samples = <<>> THEN 0 ELSE stored.seen]
      /\ pending' = <<>> /\ scored' = <<>> /\ chain' = 1 /\ pairs' = 0 /\ stored' = stored
  BY <1>0 DEF Start
<1>2. ScoreInv'
  BY <1>1, LookaheadType DEF ScoreInv
<1>3. Sound(stored)
  BY DEF LearningInv, CountInv
<1>4. /\ stored \in Brains /\ stored.windows \in Nat /\ stored.policies \in Nat
      /\ stored.updates = stored.windows
      /\ stored.seen = stored.windows /\ stored.policies <= stored.windows
      /\ Mapped(stored.contexts, stored.policies) /\ Buffered(stored.samples, stored.windows)
  BY <1>3 DEF Sound, Brains
<1>5. (IF stored.samples = <<>> THEN 0 ELSE stored.seen) = stored.windows
  <2>1. stored.samples = <<>> => Len(stored.samples) = 0
    OBVIOUS
  <2>2. stored.samples = <<>> => stored.windows = 0
    BY <1>4, <2>1, Sizes DEF Buffered
  <2> QED
    BY <1>4, <2>2
<1>6. Mapped(FoldedContexts(stored.contexts, fold), stored.policies)
  BY <1>4, FoldedMapped
<1> DEFINE contexts == FoldedContexts(stored.contexts, fold)
           seen == IF stored.samples = <<>> THEN 0 ELSE stored.seen
<1>7. contexts \in Contexts
  BY <1>6 DEF Mapped
<1>8. brain' = [stored EXCEPT !.contexts = contexts, !.seen = seen] /\ seen = stored.windows
  BY <1>1, <1>5
<1> HIDE DEF contexts, seen
<1>9. /\ brain'.updates = stored.updates /\ brain'.windows = stored.windows
      /\ brain'.seen = stored.windows /\ brain'.contexts = contexts
      /\ brain'.policies = stored.policies /\ brain'.samples = stored.samples
      /\ brain' \in Brains
  BY <1>4, <1>7, <1>8 DEF Brains
<1>10. Sound(brain')
  BY <1>4, <1>6, <1>9 DEF Sound, contexts
<1> QED
  BY <1>1, <1>2, <1>3, <1>10 DEF LearningInv, CountInv

LEMMA LearningInvNext == LearningInv /\ [LearningNext]_learningVars => LearningInv'
<1> SUFFICES ASSUME LearningInv, [LearningNext]_learningVars PROVE LearningInv'
  OBVIOUS
<1>1. ASSUME NEW linked \in BOOLEAN, NEW key \in Policies \cup {"none"}, Credited(linked, key)
      PROVE  LearningInv'
  BY <1>1, CreditedSound
<1>2. CASE Start
  BY <1>2, StartSound
<1>3. CASE Rehearse
  <2>1. Sound(brain)
    BY DEF LearningInv, CountInv
  <2>2. brain' = brain
    <3>1. brain' = [brain EXCEPT !.updates = brain.updates]
      BY <1>3 DEF Rehearse, Learned
    <3> QED
      BY <2>1, <3>1 DEF Sound, Brains
  <2> QED
    BY <1>3, <2>2 DEF Rehearse, LearningInv, CountInv, ScoreInv
<1>4. CASE SaveBrain
  BY <1>4 DEF SaveBrain, LearningInv, CountInv, ScoreInv
<1>5. CASE UNCHANGED learningVars
  BY <1>5 DEF learningVars, LearningInv, CountInv, ScoreInv
<1> QED
  BY <1>1, <1>2, <1>3, <1>4, <1>5 DEF LearningNext

\* For any capacities and any number of credited windows, rehearsals, saves and
\* restarts that fold policies: every count of the brain, in memory and on disk,
\* says of the windows behind it what the others say, the policy map stays within
\* its size, and the replay buffer holds distinct windows with the newest there.
THEOREM BrainCounts == LearningSpec => []CountsAgree
<1>1. LearningInv => CountsAgree
  BY CountInvSuffices DEF LearningInv
<1> QED
  BY <1>1, LearningInvInit, LearningInvNext, PTL DEF LearningSpec

\* For any Lookahead: a prediction is scored once, against exactly the Lookahead
\* pairs that followed it without a break, and none that has them is left out.
THEOREM ScoresWhole == LearningSpec => []ScoresUnbroken
<1>1. LearningInv => ScoresUnbroken
  BY ScoreInvSuffices DEF LearningInv
<1> QED
  BY <1>1, LearningInvInit, LearningInvNext, PTL DEF LearningSpec

-----------------------------------------------------------------------------
(****************************************************************************)
(* ResidualModel.                                                          *)
(* A table holds at most what is measured on each key: a record adds one   *)
(* observation and one window, a surprise adds nothing, and a fold adds up *)
(* counts exactly where it adds up the windows behind them.                *)
(****************************************************************************)

-----------------------------------------------------------------------------
(* Folds over finite sets of numbers *)

Some(T) == CHOOSE x \in T : TRUE

\* The operation is a function, which a lemma can take.
Operations == [Nat -> [Nat -> Nat]]

FoldStep(op, base, f, g, T) ==
    IF T = {} THEN base ELSE op[f[Some(T)]][g[T \ {Some(T)}]]

\* g holds the folds over the subsets of S.
FoldsOf(op, base, f, S, g) ==
    /\ g \in [SUBSET S -> Nat]
    /\ \A T \in SUBSET S : g[T] = FoldStep(op, base, f, g, T)

LEMMA FoldExists ==
    ASSUME NEW S, IsFiniteSet(S), NEW f, \A x \in S : f[x] \in Nat,
           NEW base \in Nat, NEW op \in Operations
    PROVE  \E g : FoldsOf(op, base, f, S, g)
<1> DEFINE Upto(g, n) == /\ g \in [SUBSET S -> Nat]
                         /\ \A T \in SUBSET S : Cardinality(T) <= n => g[T] = FoldStep(op, base, f, g, T)
           A == {n \in Nat : \E g : Upto(g, n)}
<1>1. \A T \in SUBSET S : IsFiniteSet(T) /\ Cardinality(T) \in Nat
  BY FS_Subset, FS_CardinalityType
<1>2. ASSUME NEW T \in SUBSET S, T # {}
      PROVE  /\ Some(T) \in T /\ Some(T) \in S /\ T \ {Some(T)} \in SUBSET S
             /\ Cardinality(T \ {Some(T)}) = Cardinality(T) - 1
  <2>1. Some(T) \in T
    BY <1>2 DEF Some
  <2> QED
    BY <1>1, <2>1, FS_RemoveElement
<1>3. 0 \in A
  <2> DEFINE g == [T \in SUBSET S |-> base]
  <2>1. \A T \in SUBSET S : Cardinality(T) <= 0 => T = {}
    BY <1>1, FS_EmptySet
  <2>2. Upto(g, 0)
    BY <2>1 DEF FoldStep
  <2> QED
    BY <2>2
<1>4. ASSUME NEW n \in Nat, n \in A PROVE n + 1 \in A
  <2>1. PICK g : Upto(g, n)
    BY <1>4
  <2> DEFINE h == [T \in SUBSET S |-> IF Cardinality(T) = n + 1 THEN FoldStep(op, base, f, g, T) ELSE g[T]]
  <2>2. ASSUME NEW T \in SUBSET S, Cardinality(T) = n + 1
        PROVE  FoldStep(op, base, f, g, T) \in Nat
    <3>1. T # {}
      BY <2>2, FS_EmptySet
    <3>2. f[Some(T)] \in Nat /\ g[T \ {Some(T)}] \in Nat
      BY <1>2, <2>1, <3>1
    <3> QED
      BY <3>1, <3>2 DEF FoldStep, Operations
  <2>3. h \in [SUBSET S -> Nat]
    BY <2>1, <2>2
  <2>4. ASSUME NEW T \in SUBSET S, Cardinality(T) <= n + 1
        PROVE  h[T] = FoldStep(op, base, f, h, T)
    <3>1. FoldStep(op, base, f, h, T) = FoldStep(op, base, f, g, T)
      <4>1. CASE T = {}
        BY <4>1 DEF FoldStep
      <4>2. CASE T # {}
        <5>1. /\ T \ {Some(T)} \in SUBSET S
              /\ Cardinality(T \ {Some(T)}) = Cardinality(T) - 1
              /\ Cardinality(T) \in Nat
          BY <1>1, <1>2, <4>2
        <5>2. Cardinality(T \ {Some(T)}) # n + 1
          BY <2>4, <5>1
        <5>3. h[T \ {Some(T)}] = g[T \ {Some(T)}]
          BY <5>1, <5>2
        <5> QED
          BY <4>2, <5>3 DEF FoldStep
      <4> QED
        BY <4>1, <4>2
    <3>2. CASE Cardinality(T) = n + 1
      BY <3>1, <3>2
    <3>3. CASE Cardinality(T) # n + 1
      <4>1. Cardinality(T) <= n
        BY <1>1, <2>4, <3>3
      <4>2. h[T] = g[T] /\ g[T] = FoldStep(op, base, f, g, T)
        BY <2>1, <3>3, <4>1
      <4> QED
        BY <3>1, <4>2
    <3> QED
      BY <3>2, <3>3
  <2>5. Upto(h, n + 1)
    BY <2>3, <2>4
  <2> HIDE DEF h, Upto
  <2> QED
    BY <2>5
<1>5. Cardinality(S) \in Nat /\ \A T \in SUBSET S : Cardinality(T) <= Cardinality(S)
  BY FS_Subset, FS_CardinalityType
<1>6. Cardinality(S) \in A
  <2> HIDE DEF A
  <2> QED
    BY <1>3, <1>4, <1>5, NumberInduction
<1>7. PICK g : Upto(g, Cardinality(S))
  BY <1>6
<1> QED
  BY <1>5, <1>7 DEF FoldsOf

-----------------------------------------------------------------------------
(* Sums and products *)

SumStep(f, g, T) == IF T = {} THEN 0 ELSE f[Some(T)] + g[T \ {Some(T)}]

\* The sums over the subsets of S.
Sums(f, S) == CHOOSE g : g = [T \in SUBSET S |-> SumStep(f, g, T)]

LEMMA SumUnfolded ==
    ASSUME NEW f, NEW S
    PROVE  SumFunctionOnSet(f, S) = Sums(f, S)[S]
  BY DEF SumFunctionOnSet, FoldFunctionOnSet, MapThenFoldSet, Sums, SumStep, Some

ProductStep(f, g, T) == IF T = {} THEN 1 ELSE f[Some(T)] * g[T \ {Some(T)}]

Products(f, S) == CHOOSE g : g = [T \in SUBSET S |-> ProductStep(f, g, T)]

LEMMA ProductUnfolded ==
    ASSUME NEW f
    PROVE  FoldFunction( *, 1, f) = Products(f, DOMAIN f)[DOMAIN f]
  BY DEF FoldFunction, FoldFunctionOnSet, MapThenFoldSet, Products, ProductStep, Some

LEMMA SumsDefined ==
    ASSUME NEW S, IsFiniteSet(S), NEW f, \A x \in S : f[x] \in Nat
    PROVE  Sums(f, S) = [T \in SUBSET S |-> SumStep(f, Sums(f, S), T)]
<1> DEFINE op == [a \in Nat |-> [b \in Nat |-> a + b]]
<1>1. op \in Operations /\ \A a, b \in Nat : op[a][b] = a + b
  BY DEF Operations
<1> HIDE DEF op
<1>1a. PICK base \in Nat : base = 0
  OBVIOUS
<1>2. PICK g : FoldsOf(op, base, f, S, g)
  BY <1>1, <1>1a, FoldExists
<1>2a. g \in [SUBSET S -> Nat] /\ \A T \in SUBSET S : g[T] = FoldStep(op, base, f, g, T)
  BY <1>2 DEF FoldsOf
<1>3. ASSUME NEW T \in SUBSET S PROVE g[T] = SumStep(f, g, T)
  <2>1. T # {} => f[Some(T)] \in Nat /\ g[T \ {Some(T)}] \in Nat
    BY <1>2a DEF Some
  <2> QED
    BY <1>1, <1>1a, <1>2a, <2>1 DEF FoldStep, SumStep
<1>4. g = [T \in SUBSET S |-> SumStep(f, g, T)]
  BY <1>2a, <1>3
<1>5. \E k : k = [T \in SUBSET S |-> SumStep(f, k, T)]
  BY <1>4
<1> QED
  BY <1>5, Zenon DEF Sums

LEMMA ProductsDefined ==
    ASSUME NEW S, IsFiniteSet(S), NEW f, \A x \in S : f[x] \in Nat
    PROVE  Products(f, S) = [T \in SUBSET S |-> ProductStep(f, Products(f, S), T)]
<1> DEFINE op == [a \in Nat |-> [b \in Nat |-> a * b]]
<1>1. op \in Operations /\ \A a, b \in Nat : op[a][b] = a * b
  BY DEF Operations
<1> HIDE DEF op
<1>1a. PICK base \in Nat : base = 1
  OBVIOUS
<1>2. PICK g : FoldsOf(op, base, f, S, g)
  BY <1>1, <1>1a, FoldExists
<1>2a. g \in [SUBSET S -> Nat] /\ \A T \in SUBSET S : g[T] = FoldStep(op, base, f, g, T)
  BY <1>2 DEF FoldsOf
<1>3. ASSUME NEW T \in SUBSET S PROVE g[T] = ProductStep(f, g, T)
  <2>1. T # {} => f[Some(T)] \in Nat /\ g[T \ {Some(T)}] \in Nat
    BY <1>2a DEF Some
  <2> QED
    BY <1>1, <1>1a, <1>2a, <2>1 DEF FoldStep, ProductStep
<1>4. g = [T \in SUBSET S |-> ProductStep(f, g, T)]
  BY <1>2a, <1>3
<1>5. \E k : k = [T \in SUBSET S |-> ProductStep(f, k, T)]
  BY <1>4
<1> QED
  BY <1>5, Zenon DEF Products

LEMMA ProductsType ==
    ASSUME NEW S, IsFiniteSet(S), NEW f, \A x \in S : f[x] \in Nat
    PROVE  \A T \in SUBSET S : Products(f, S)[T] \in Nat
<1> DEFINE s == Products(f, S)
           Q == {T \in SUBSET S : s[T] \in Nat}
<1>1. s = [T \in SUBSET S |-> ProductStep(f, s, T)]
  BY ProductsDefined
<1> HIDE DEF s
<1>2. ASSUME NEW T \in SUBSET S, \A x \in T : T \ {x} \in Q
      PROVE  T \in Q
  <2>1. s[T] = ProductStep(f, s, T)
    BY <1>1
  <2>2. CASE T = {}
    BY <2>1, <2>2 DEF ProductStep
  <2>3. CASE T # {}
    <3>1. Some(T) \in T
      BY <2>3 DEF Some
    <3>2. f[Some(T)] \in Nat /\ s[T \ {Some(T)}] \in Nat
      BY <1>2, <3>1
    <3>3. s[T] = f[Some(T)] * s[T \ {Some(T)}]
      BY <2>1, <2>3 DEF ProductStep
    <3> QED
      BY <3>2, <3>3
  <2> QED
    BY <2>2, <2>3
<1>3. \A T \in SUBSET S : T \in Q
  <2> HIDE DEF Q
  <2> QED
    BY <1>2, SubsetInduction
<1> QED
  BY <1>3 DEF s

LEMMA PowerType ==
    ASSUME NEW x \in Nat, NEW n \in Nat
    PROVE  Power(x, n) \in Nat
<1> DEFINE f == [k \in 1..n |-> x]
<1>1. DOMAIN f = 1..n /\ IsFiniteSet(1..n) /\ \A k \in 1..n : f[k] \in Nat
  BY FS_Interval
<1>2. Power(x, n) = FoldFunction( *, 1, f)
  BY DEF Power
<1> HIDE DEF f
<1>3. Power(x, n) = Products(f, 1..n)[1..n]
  BY <1>1, <1>2, ProductUnfolded
<1>4. Products(f, 1..n)[1..n] \in Nat
  BY <1>1, ProductsType
<1> QED
  BY <1>3, <1>4

\* Sums are numbers, the same whichever set they are computed within, and any
\* element can be taken out.
LEMMA SumsType ==
    ASSUME NEW S, IsFiniteSet(S), NEW f, \A x \in S : f[x] \in Nat
    PROVE  \A T \in SUBSET S : Sums(f, S)[T] \in Nat
<1> DEFINE s == Sums(f, S)
           Q == {T \in SUBSET S : s[T] \in Nat}
<1>1. s = [T \in SUBSET S |-> SumStep(f, s, T)]
  BY SumsDefined
<1> HIDE DEF s
<1>2. ASSUME NEW T \in SUBSET S, \A x \in T : T \ {x} \in Q
      PROVE  T \in Q
  <2>1. s[T] = SumStep(f, s, T)
    BY <1>1
  <2>2. CASE T = {}
    BY <2>1, <2>2 DEF SumStep
  <2>3. CASE T # {}
    <3>1. Some(T) \in T
      BY <2>3 DEF Some
    <3>2. f[Some(T)] \in Nat /\ s[T \ {Some(T)}] \in Nat
      BY <1>2, <3>1
    <3>3. s[T] = f[Some(T)] + s[T \ {Some(T)}]
      BY <2>1, <2>3 DEF SumStep
    <3> QED
      BY <3>2, <3>3
  <2> QED
    BY <2>2, <2>3
<1>3. \A T \in SUBSET S : T \in Q
  <2> HIDE DEF Q
  <2> QED
    BY <1>2, SubsetInduction
<1> QED
  BY <1>3 DEF s

LEMMA SumsRemove ==
    ASSUME NEW S, IsFiniteSet(S), NEW f, \A x \in S : f[x] \in Nat
    PROVE  \A T \in SUBSET S : \A x \in T :
              Sums(f, S)[T] = f[x] + Sums(f, S)[T \ {x}]
<1> DEFINE s == Sums(f, S)
           Q == {T \in SUBSET S : \A x \in T : s[T] = f[x] + s[T \ {x}]}
<1>1. s = [T \in SUBSET S |-> SumStep(f, s, T)]
  BY SumsDefined
<1>1a. \A T \in SUBSET S : s[T] \in Nat
  BY SumsType
<1> HIDE DEF s
<1>2. ASSUME NEW T \in SUBSET S, \A x \in T : T \ {x} \in Q
      PROVE  T \in Q
  <2> SUFFICES ASSUME NEW x \in T PROVE s[T] = f[x] + s[T \ {x}]
    OBVIOUS
  <2> DEFINE c == Some(T)
  <2>1. c \in T
    BY DEF Some
  <2>2. s[T] = f[c] + s[T \ {c}]
    BY <1>1 DEF SumStep
  <2> HIDE DEF c
  <2>3. CASE c = x
    BY <2>2, <2>3
  <2>4. CASE c # x
    <3>1. T \ {c} \in Q /\ T \ {x} \in Q /\ x \in T \ {c} /\ c \in T \ {x}
      BY <1>2, <2>1, <2>4
    <3>2. s[T \ {c}] = f[x] + s[(T \ {c}) \ {x}]
      BY <3>1
    <3>3. s[T \ {x}] = f[c] + s[(T \ {x}) \ {c}]
      BY <3>1
    <3>4. (T \ {c}) \ {x} = (T \ {x}) \ {c} /\ (T \ {x}) \ {c} \in SUBSET S
      OBVIOUS
    <3>5. f[c] \in Nat /\ f[x] \in Nat /\ s[(T \ {x}) \ {c}] \in Nat
      BY <1>1a, <2>1, <3>4
    <3>6. s[T] = f[c] + (f[x] + s[(T \ {x}) \ {c}])
      BY <2>2, <3>2, <3>4
    <3>7. f[c] + (f[x] + s[(T \ {x}) \ {c}]) = f[x] + (f[c] + s[(T \ {x}) \ {c}])
      BY <3>5
    <3> QED
      BY <3>3, <3>6, <3>7
  <2> QED
    BY <2>3, <2>4
<1>3. \A T \in SUBSET S : T \in Q
  <2> HIDE DEF Q
  <2> QED
    BY <1>2, SubsetInduction
<1> QED
  BY <1>3 DEF s

LEMMA SumsWithin ==
    ASSUME NEW S, IsFiniteSet(S), NEW f, \A x \in S : f[x] \in Nat, NEW U \in SUBSET S
    PROVE  \A T \in SUBSET U : Sums(f, U)[T] = Sums(f, S)[T]
<1> DEFINE s == Sums(f, S)
           u == Sums(f, U)
           Q == {T \in SUBSET U : u[T] = s[T]}
<1>0. IsFiniteSet(U) /\ \A x \in U : f[x] \in Nat
  BY FS_Subset
<1>1. /\ s = [T \in SUBSET S |-> SumStep(f, s, T)]
      /\ u = [T \in SUBSET U |-> SumStep(f, u, T)]
  BY <1>0, SumsDefined
<1> HIDE DEF s, u
<1>2. ASSUME NEW T \in SUBSET U, \A x \in T : T \ {x} \in Q
      PROVE  T \in Q
  <2>1. s[T] = SumStep(f, s, T) /\ u[T] = SumStep(f, u, T)
    BY <1>1
  <2>2. T # {} => Some(T) \in T
    BY DEF Some
  <2>3. T # {} => u[T \ {Some(T)}] = s[T \ {Some(T)}]
    BY <1>2, <2>2
  <2> QED
    BY <2>1, <2>3 DEF SumStep
<1>3. \A T \in SUBSET U : T \in Q
  <2> HIDE DEF Q
  <2> QED
    BY <1>0, <1>2, SubsetInduction
<1> QED
  BY <1>3 DEF s, u

LEMMA SumType ==
    ASSUME NEW S, IsFiniteSet(S), NEW f, \A x \in S : f[x] \in Nat
    PROVE  SumFunctionOnSet(f, S) \in Nat
<1>1. Sums(f, S)[S] \in Nat
  BY SumsType
<1> QED
  BY <1>1, SumUnfolded

LEMMA SumRemove ==
    ASSUME NEW S, IsFiniteSet(S), NEW f, \A x \in S : f[x] \in Nat, NEW x \in S
    PROVE  SumFunctionOnSet(f, S) = f[x] + SumFunctionOnSet(f, S \ {x})
<1>1. Sums(f, S)[S] = f[x] + Sums(f, S)[S \ {x}]
  BY SumsRemove
<1>2. Sums(f, S \ {x})[S \ {x}] = Sums(f, S)[S \ {x}]
  <2>1. S \ {x} \in SUBSET S /\ S \ {x} \in SUBSET (S \ {x})
    OBVIOUS
  <2> QED
    BY <2>1, SumsWithin
<1> QED
  BY <1>1, <1>2, SumUnfolded

LEMMA SumSingle ==
    ASSUME NEW x, NEW f, f[x] \in Nat
    PROVE  SumFunctionOnSet(f, {x}) = f[x]
<1>1. IsFiniteSet({x}) /\ IsFiniteSet({})
  BY FS_Singleton, FS_EmptySet
<1>2. SumFunctionOnSet(f, {x}) = f[x] + SumFunctionOnSet(f, {x} \ {x})
  BY <1>1, SumRemove
<1>3. SumFunctionOnSet(f, {}) = 0
  <2>1. Sums(f, {}) = [T \in SUBSET {} |-> SumStep(f, Sums(f, {}), T)]
    BY <1>1, SumsDefined
  <2>2. Sums(f, {})[{}] = SumStep(f, Sums(f, {}), {})
    BY <2>1
  <2> QED
    BY <2>2, SumUnfolded DEF SumStep
<1>4. {x} \ {x} = {}
  OBVIOUS
<1> QED
  BY <1>2, <1>3, <1>4

\* A sum over fewer, smaller numbers is no greater.
LEMMA SumMonotone ==
    ASSUME NEW S, IsFiniteSet(S), NEW P \in SUBSET S, NEW f, NEW g,
           \A x \in P : f[x] \in Nat, \A x \in S : g[x] \in Nat,
           \A x \in P : f[x] <= g[x]
    PROVE  SumFunctionOnSet(f, P) <= SumFunctionOnSet(g, S)
<1> DEFINE F(T) == SumFunctionOnSet(f, T)
           G(T) == SumFunctionOnSet(g, T)
           Q == {T \in SUBSET S : F(T \cap P) <= G(T)}
<1>1. ASSUME NEW T \in SUBSET S, \A x \in T : T \ {x} \in Q
      PROVE  T \in Q
  <2>1. /\ IsFiniteSet(T) /\ IsFiniteSet(T \cap P)
        /\ \A x \in T : g[x] \in Nat
        /\ \A x \in T \cap P : f[x] \in Nat
    BY FS_Subset
  <2>2. F(T \cap P) \in Nat /\ G(T) \in Nat
    BY <2>1, SumType
  <2>3. CASE T = {}
    <3>1. F({}) = 0
      <4>1. Sums(f, {}) = [U \in SUBSET {} |-> SumStep(f, Sums(f, {}), U)]
        BY FS_EmptySet, SumsDefined
      <4>2. Sums(f, {})[{}] = 0
        BY <4>1 DEF SumStep
      <4> QED
        BY <4>2, SumUnfolded
    <3>2. T \cap P = {}
      BY <2>3
    <3>3. F(T \cap P) = 0
      BY <3>1, <3>2
    <3> HIDE DEF F, G
    <3> QED
      BY <2>2, <3>3
  <2>4. CASE T # {}
    <3>1. PICK x \in T : TRUE
      BY <2>4
    <3>2. T \ {x} \in Q
      BY <1>1, <3>1
    <3>3. F((T \ {x}) \cap P) <= G(T \ {x})
      BY <3>2
    <3>4. G(T) = g[x] + G(T \ {x})
      BY <2>1, <3>1, SumRemove
    <3>5. /\ IsFiniteSet(T \ {x}) /\ IsFiniteSet((T \ {x}) \cap P)
          /\ \A y \in T \ {x} : g[y] \in Nat
          /\ \A y \in (T \ {x}) \cap P : f[y] \in Nat
      BY FS_Subset
    <3>6. G(T \ {x}) \in Nat /\ F((T \ {x}) \cap P) \in Nat /\ g[x] \in Nat
      BY <3>1, <3>5, SumType
    <3>7. CASE x \in P
      <4>1. (T \cap P) \ {x} = (T \ {x}) \cap P /\ x \in T \cap P
        BY <3>1, <3>7
      <4>2. F(T \cap P) = f[x] + F((T \cap P) \ {x})
        BY <2>1, <4>1, SumRemove
      <4>3. F(T \cap P) = f[x] + F((T \ {x}) \cap P)
        BY <4>1, <4>2
      <4>4. f[x] \in Nat /\ f[x] <= g[x]
        BY <3>7
      <4> HIDE DEF F, G
      <4> QED
        BY <3>3, <3>4, <3>6, <4>3, <4>4
    <3>8. CASE x \notin P
      <4>1. T \cap P = (T \ {x}) \cap P
        BY <3>8
      <4>2. F(T \cap P) = F((T \ {x}) \cap P)
        BY <4>1
      <4> HIDE DEF F, G
      <4> QED
        BY <3>3, <3>4, <3>6, <4>2
    <3> QED
      BY <3>7, <3>8
  <2> QED
    BY <2>3, <2>4
<1>2. S \in Q
  <2>1. S \in SUBSET S
    OBVIOUS
  <2> HIDE DEF Q
  <2> QED
    BY <1>1, <2>1, SubsetInduction
<1>3. S \cap P = P
  OBVIOUS
<1>4. F(S \cap P) <= G(S)
  BY <1>2
<1> QED
  BY <1>3, <1>4

-----------------------------------------------------------------------------
(* What a table holds, and that every operation on tables leaves it so *)

Cell(total) == [count : 1..MaxCount, touched : 0..total]

\* A table the engine can hold at sample total: of cells within the ranges, as
\* many as there is room for, none with more evidence than bound grants it.
Held(table, total, bound) ==
    /\ DOMAIN table \subseteq Ids /\ IsFiniteSet(DOMAIN table)
    /\ Cardinality(DOMAIN table) <= MaxEntries
    /\ \A i \in DOMAIN table : table[i] \in Cell(total) /\ table[i].count <= bound[i]

LEMMA BoundsAre ==
    /\ IsFiniteSet(Configs) /\ Fines \subseteq Nat \ {0}
    /\ Retired \in [Configs -> SUBSET Configs]
    /\ \A c \in Configs : c \notin Retired[c]
    /\ MaxEntries \in Nat \ {0} /\ FinePromotion \in Nat \ {0}
    /\ SurpriseAt \in Nat \ {0} /\ MaxCount \in Nat \ {0} /\ HalfLife \in Nat \ {0}
    /\ MaxSamples \in Nat /\ MaxRestarts \in Nat
  BY ModelBounds

\* What a key holds, and the keys made of it.
LEMMA IdFields ==
    ASSUME NEW i \in Ids
    PROVE  /\ i.config \in Configs /\ i.fine \in Nat /\ i.edge \in Edges
           /\ Parent(i) \in Ids /\ Parent(i).config = i.config /\ Parent(i).fine = 0
           /\ \A c \in Configs :
                 /\ Rehomed(i, c) \in Ids /\ Rehomed(i, c).config \notin Retired[c]
                 /\ Rehomed(i, c) = [config |-> Rehomed(i, c).config,
                                    fine |-> i.fine, edge |-> i.edge]
                 /\ Rehomed(i, c) = i \/ Rehomed(i, c).config = c
<1>1. i.config \in Configs /\ i.fine \in {0} \cup Fines /\ i.edge \in Edges
  BY DEF Ids
<1>2. {0} \cup Fines \subseteq Nat
  BY BoundsAre
<1>3. Parent(i) = [config |-> i.config, fine |-> 0, edge |-> i.edge]
  BY DEF Ids, Parent
<1>5. Parent(i) \in Ids
  BY <1>1, <1>3 DEF Ids
<1>6. i = [config |-> i.config, fine |-> i.fine, edge |-> i.edge]
  BY DEF Ids
<1>7. i.fine \in Nat
  BY <1>1, <1>2
<1>8. ASSUME NEW c \in Configs
      PROVE  /\ Rehomed(i, c) \in Ids /\ Rehomed(i, c).config \notin Retired[c]
             /\ Rehomed(i, c) = [config |-> Rehomed(i, c).config,
                                fine |-> i.fine, edge |-> i.edge]
             /\ Rehomed(i, c) = i \/ Rehomed(i, c).config = c
  <2>1. CASE i.config \in Retired[c]
    <3>1. Rehomed(i, c) = [config |-> c, fine |-> i.fine, edge |-> i.edge]
      BY <1>6, <2>1 DEF Rehomed
    <3>2. c \notin Retired[c]
      BY BoundsAre
    <3> QED
      BY <1>1, <3>1, <3>2 DEF Ids
  <2>2. CASE i.config \notin Retired[c]
    BY <1>6, <2>2 DEF Rehomed
  <2> QED
    BY <2>1, <2>2
<1> QED
  BY <1>1, <1>3, <1>5, <1>7, <1>8

LEMMA MinBelow ==
    ASSUME NEW a \in Int, NEW b \in Int
    PROVE  /\ Min({a, b}) \in {a, b}
           /\ Min({a, b}) <= a /\ Min({a, b}) <= b
<1>1. \E x \in {a, b} : \A y \in {a, b} : x <= y
  BY a <= b \/ b <= a
<1> QED
  BY <1>1 DEF Min

LEMMA LatestWithin ==
    ASSUME NEW total \in Nat, NEW S \in SUBSET (0..total), S # {}
    PROVE  Max(S) \in 0..total
<1>1. S \in SUBSET Nat /\ \A x \in S : x <= total
  OBVIOUS
<1>2. Max(S) \in S
  BY <1>1, MaxOfBounded
<1> QED
  BY <1>2

LEMMA WeightType ==
    ASSUME NEW total \in Nat, NEW e \in Cell(total)
    PROVE  Weight(e) \in Nat
<1>1. e.count \in Nat /\ e.touched \in Nat /\ HalfLife \in Nat
  BY BoundsAre DEF Cell
<1>2. Power(e.count, HalfLife) \in Nat /\ Power(2, e.touched) \in Nat
  BY <1>1, PowerType
<1> QED
  BY <1>2 DEF Weight

\* A full table has a weakest cell, so that an eviction makes room.
LEMMA WeakestThere ==
    ASSUME NEW table, NEW total \in Nat, NEW bound, Held(table, total, bound),
           DOMAIN table # {}
    PROVE  Weakest(table) \in DOMAIN table
<1> DEFINE D == DOMAIN table
           W == {Weight(table[i]) : i \in D}
<1>1. ASSUME NEW i \in D
      PROVE  Weight(table[i]) \in Nat /\ table[i].touched \in Nat /\ i.fine \in Nat
  <2>1. i \in Ids /\ table[i] \in Cell(total)
    BY DEF Held
  <2>2. i.fine \in Nat
    BY <2>1, IdFields
  <2>3. table[i].touched \in Nat
    BY <2>1 DEF Cell
  <2> QED
    BY <2>1, <2>2, <2>3, WeightType
<1>2. PICK w \in W : \A x \in W : w <= x
  BY <1>1, LeastOfNat, W \in SUBSET Nat, W # {}
<1> DEFINE E == {i \in D : Weight(table[i]) = w}
           T == {table[i].touched : i \in E}
<1>3. PICK t \in T : \A x \in T : t <= x
  <2>1. PICK i \in D : w = Weight(table[i])
    BY <1>2
  <2>2. table[i].touched \in T
    BY <2>1
  <2>3. T \in SUBSET Nat
    BY <1>1
  <2> QED
    BY <2>2, <2>3, LeastOfNat
<1> DEFINE G == {i \in E : table[i].touched = t}
           F == {i.fine : i \in G}
<1>4. PICK f \in F : \A x \in F : f <= x
  BY <1>1, <1>3, LeastOfNat, F \in SUBSET Nat, F # {}
<1>5. PICK i \in G : i.fine = f
  BY <1>4
<1>6. ASSUME NEW j \in D PROVE ~Before(table, j, i)
  <2>1. Weight(table[i]) = w /\ table[i].touched = t /\ i.fine = f
    BY <1>5
  <2>2. w <= Weight(table[j])
    BY <1>2
  <2>3. Weight(table[j]) = w => t <= table[j].touched
    BY <1>3
  <2>4. Weight(table[j]) = w /\ table[j].touched = t => f <= j.fine
    BY <1>4
  <2>5. /\ Weight(table[j]) \in Nat /\ table[j].touched \in Nat /\ j.fine \in Nat
        /\ w \in Nat /\ t \in Nat /\ f \in Nat
    BY <1>1, <1>5
  <2> HIDE DEF D, W, E, T, G, F
  <2> QED
    BY <2>1, <2>2, <2>3, <2>4, <2>5 DEF Before
<1>7. \E k \in DOMAIN table : \A j \in DOMAIN table : ~Before(table, j, k)
  BY <1>5, <1>6
<1> QED
  BY <1>7, Zenon DEF Weakest

LEMMA HeldLater ==
    ASSUME NEW table, NEW total \in Nat, NEW bound \in [Ids -> Nat], Held(table, total, bound),
           NEW later \in Nat, total <= later, NEW more \in [Ids -> Nat],
           \A i \in Ids : bound[i] <= more[i]
    PROVE  Held(table, later, more)
<1> SUFFICES ASSUME NEW i \in DOMAIN table
             PROVE  table[i] \in Cell(later) /\ table[i].count <= more[i]
  BY DEF Held
<1>1. i \in Ids /\ table[i] \in Cell(total) /\ table[i].count <= bound[i]
  BY DEF Held
<1>2. table[i] \in Cell(later)
  BY <1>1 DEF Cell
<1>3. /\ table[i].count \in Int /\ bound[i] \in Int /\ more[i] \in Int
      /\ bound[i] <= more[i]
  BY <1>1, BoundsAre DEF Cell
<1> QED
  BY <1>1, <1>2, <1>3

LEMMA RecordedHeld ==
    ASSUME NEW table, NEW total \in Nat, total > 0, NEW bound \in [Ids -> Nat],
           Held(table, total, bound), NEW id \in Ids,
           NEW more \in [Ids -> Nat], \A i \in Ids : bound[i] <= more[i],
           bound[id] + 1 <= more[id]
    PROVE  Held(Recorded(table, id, total), total, more)
<1> DEFINE full == id \notin DOMAIN table /\ Cardinality(DOMAIN table) >= MaxEntries
           room == IF full THEN Without(table, Weakest(table)) ELSE table
           had  == IF id \in DOMAIN room THEN room[id].count ELSE 0
           cell == [count |-> Min({MaxCount, had + 1}), touched |-> total]
           new  == Recorded(table, id, total)
<1>1. /\ DOMAIN new = DOMAIN room \cup {id}
      /\ \A i \in DOMAIN new : new[i] = IF i = id THEN cell ELSE room[i]
  BY DEF Recorded
<1>2. /\ DOMAIN table \subseteq Ids /\ IsFiniteSet(DOMAIN table)
      /\ Cardinality(DOMAIN table) \in Nat /\ Cardinality(DOMAIN table) <= MaxEntries
      /\ MaxEntries \in Nat \ {0} /\ MaxCount \in Nat \ {0}
  BY BoundsAre, FS_CardinalityType DEF Held
<1>3. /\ DOMAIN room \subseteq DOMAIN table
      /\ \A i \in DOMAIN room : room[i] = table[i]
  BY DEF Without
<1>4. /\ IsFiniteSet(DOMAIN room \cup {id})
      /\ Cardinality(DOMAIN room \cup {id}) <= MaxEntries
  <2>1. CASE full
    <3>1. DOMAIN table # {}
      BY <1>2, <2>1, FS_EmptySet
    <3>2. Weakest(table) \in DOMAIN table
      BY <3>1, WeakestThere
    <3>3. DOMAIN room = DOMAIN table \ {Weakest(table)}
      BY <2>1 DEF Without
    <3>4. /\ IsFiniteSet(DOMAIN room)
          /\ Cardinality(DOMAIN room) = Cardinality(DOMAIN table) - 1
      BY <1>2, <3>2, <3>3, FS_RemoveElement
    <3>5. id \notin DOMAIN room
      BY <2>1, <3>3
    <3>6. /\ IsFiniteSet(DOMAIN room \cup {id})
          /\ Cardinality(DOMAIN room \cup {id}) = Cardinality(DOMAIN room) + 1
      BY <3>4, <3>5, FS_AddElement
    <3> HIDE DEF room, full
    <3> QED
      BY <1>2, <3>4, <3>6
  <2>2. CASE ~full
    <3>1. DOMAIN room = DOMAIN table
      BY <2>2
    <3>2. CASE id \in DOMAIN table
      <4>1. DOMAIN room \cup {id} = DOMAIN table
        BY <3>1, <3>2
      <4> QED
        BY <1>2, <4>1
    <3>3. CASE id \notin DOMAIN table
      <4>1. ~(Cardinality(DOMAIN table) >= MaxEntries)
        BY <2>2, <3>3
      <4>2. /\ IsFiniteSet(DOMAIN room \cup {id})
            /\ Cardinality(DOMAIN room \cup {id}) = Cardinality(DOMAIN table) + 1
        BY <1>2, <3>1, <3>3, FS_AddElement
      <4> HIDE DEF room, full
      <4> QED
        BY <1>2, <4>1, <4>2
    <3> QED
      BY <3>2, <3>3
  <2> QED
    BY <2>1, <2>2
<1>5. had \in 0..MaxCount /\ had <= bound[id]
  <2>1. CASE id \in DOMAIN room
    <3>1. id \in DOMAIN table /\ had = table[id].count
      BY <1>3, <2>1
    <3>2. table[id] \in Cell(total) /\ table[id].count <= bound[id]
      BY <3>1 DEF Held
    <3>3. table[id].count \in 1..MaxCount
      BY <3>2 DEF Cell
    <3> HIDE DEF had
    <3> QED
      BY <1>2, <3>1, <3>2, <3>3
  <2>2. CASE id \notin DOMAIN room
    <3>1. had = 0
      BY <2>2
    <3> HIDE DEF had
    <3> QED
      BY <1>2, <3>1
  <2> QED
    BY <2>1, <2>2
<1>6. cell \in Cell(total) /\ cell.count <= more[id]
  <2> HIDE DEF had
  <2> DEFINE m == Min({MaxCount, had + 1})
  <2>1. m \in {MaxCount, had + 1} /\ m <= MaxCount /\ m <= had + 1
    <3>1. MaxCount \in Int /\ had + 1 \in Int
      BY <1>2, <1>5
    <3> QED
      BY <3>1, MinBelow, Zenon
  <2> HIDE DEF m
  <2>2. m \in 1..MaxCount
    BY <1>2, <1>5, <2>1
  <2>3. bound[id] \in Nat /\ more[id] \in Nat
    OBVIOUS
  <2>4. m <= more[id]
    BY <1>5, <2>1, <2>2, <2>3
  <2>5. cell = [count |-> m, touched |-> total]
    BY DEF m
  <2> HIDE DEF cell
  <2> QED
    BY <2>2, <2>4, <2>5 DEF Cell
<1> HIDE DEF cell, had, room, full, new
<1>7. ASSUME NEW i \in DOMAIN new PROVE new[i] \in Cell(total) /\ new[i].count <= more[i]
  <2>1. CASE i = id
    BY <1>1, <1>6, <2>1
  <2>2. CASE i # id
    <3>1. i \in DOMAIN table /\ new[i] = table[i]
      BY <1>1, <1>3, <2>2
    <3>2. i \in Ids /\ table[i] \in Cell(total) /\ table[i].count <= bound[i]
      BY <3>1 DEF Held
    <3>3. table[i].count \in Nat /\ bound[i] \in Nat /\ more[i] \in Nat /\ bound[i] <= more[i]
      BY <1>2, <3>2 DEF Cell
    <3> QED
      BY <3>1, <3>2, <3>3
  <2> QED
    BY <2>1, <2>2
<1>8. DOMAIN new \subseteq Ids
  BY <1>1, <1>2, <1>3
<1> QED
  BY <1>1, <1>4, <1>7, <1>8 DEF Held, new

LEMMA SurprisedHeld ==
    ASSUME NEW table, NEW total \in Nat, NEW bound \in [Ids -> Nat], Held(table, total, bound),
           NEW id \in Ids
    PROVE  Held(Surprised(table, id), total, bound)
<1> DEFINE new == Surprised(table, id)
<1>1. DOMAIN new = DOMAIN table
  BY DEF Surprised
<1>2. ASSUME NEW i \in DOMAIN table
      PROVE  new[i] \in Cell(total) /\ new[i].count <= bound[i]
  <2>1. /\ i \in Ids /\ bound[i] \in Nat
        /\ table[i] \in Cell(total) /\ table[i].count <= bound[i]
    BY DEF Held
  <2>2. CASE i.config = id.config
    <3> DEFINE c == table[i].count
               m == Min({c, 1})
    <3>1. c \in 1..MaxCount /\ c \in Int /\ MaxCount \in Nat
      BY <2>1, BoundsAre DEF Cell
    <3>2. m \in {c, 1} /\ m <= c
      <4>1. 1 \in Int
        OBVIOUS
      <4> QED
        BY <3>1, <4>1, MinBelow, Zenon
    <3>3. new[i] = [table[i] EXCEPT !.count = m]
      BY <2>2 DEF Surprised
    <3> HIDE DEF m, new
    <3>4. new[i] = [count |-> m, touched |-> table[i].touched]
      BY <2>1, <3>3 DEF Cell
    <3> HIDE DEF c
    <3>5. m \in 1..MaxCount
      BY <3>1, <3>2
    <3>6. m <= bound[i]
      BY <2>1, <3>1, <3>2 DEF c
    <3> QED
      BY <2>1, <3>4, <3>5, <3>6 DEF Cell
  <2>3. CASE i.config # id.config
    BY <2>1, <2>3 DEF Surprised
  <2> QED
    BY <2>2, <2>3
<1> HIDE DEF new
<1> QED
  BY <1>1, <1>2 DEF Held, new

\* The keys a fold brings together are finitely many.
Pool(i, b) == {j \in Ids : Rehomed(j, b) = i}

LEMMA ImageFinite ==
    ASSUME NEW S, IsFiniteSet(S), NEW f
    PROVE  /\ IsFiniteSet({f[x] : x \in S})
           /\ Cardinality({f[x] : x \in S}) <= Cardinality(S)
<1> DEFINE T == {f[x] : x \in S}
           g == [x \in S |-> f[x]]
<1>1. g \in Surjection(S, T)
  BY DEF Surjection
<1> HIDE DEF g
<1> QED
  BY <1>1, FS_Surjection

LEMMA PoolFinite ==
    ASSUME NEW i \in Ids, NEW b \in Configs
    PROVE  IsFiniteSet(Pool(i, b))
<1> DEFINE of == [c \in Configs |-> [i EXCEPT !.config = c]]
           All == {of[c] : c \in Configs}
<1>1. IsFiniteSet(All)
  <2> HIDE DEF of
  <2> QED
    BY BoundsAre, ImageFinite
<1>2. ASSUME NEW j \in Pool(i, b) PROVE j \in All
  <2>1. j \in Ids /\ Rehomed(j, b) = i
    BY DEF Pool
  <2>2. j = [config |-> j.config, fine |-> j.fine, edge |-> j.edge] /\ j.config \in Configs
    BY <2>1 DEF Ids
  <2>3. Rehomed(j, b).fine = j.fine /\ Rehomed(j, b).edge = j.edge
    BY <2>2 DEF Rehomed, Ids
  <2>4. of[j.config] = j
    BY <2>1, <2>2, <2>3 DEF Ids
  <2> QED
    BY <2>2, <2>4
<1>3. Pool(i, b) \subseteq All
  BY <1>2
<1> QED
  BY <1>1, <1>3, FS_Subset

\* A fold: what it brings together, and the evidence of each cell it makes.
LEMMA FoldedCell ==
    ASSUME NEW table, NEW total \in Nat, NEW bound \in [Ids -> Nat], Held(table, total, bound),
           NEW b \in Configs,
           NEW i \in DOMAIN Folded(table, b)
    PROVE  /\ i \in Ids /\ i.config \notin Retired[b]
           /\ Folded(table, b)[i] \in Cell(total)
           /\ Folded(table, b)[i].count <= SumFunctionOnSet(bound, Pool(i, b))
           /\ \A j \in DOMAIN table :
                 Rehomed(j, b) = i => Folded(table, b)[i].count >= table[j].count
<1> DEFINE pool == {j \in DOMAIN table : Rehomed(j, b) = i}
           f == [j \in pool |-> table[j].count]
           sum == SumFunctionOnSet(f, pool)
           c == Min({MaxCount, sum})
           t == Max({table[j].touched : j \in pool})
<1>1. PICK j \in DOMAIN table : i = Rehomed(j, b)
  BY DEF Folded
<1>2. /\ DOMAIN table \subseteq Ids /\ IsFiniteSet(DOMAIN table)
      /\ \A k \in DOMAIN table : table[k] \in Cell(total) /\ table[k].count <= bound[k]
  BY DEF Held
<1>3. i \in Ids /\ i.config \notin Retired[b]
  BY <1>1, <1>2, IdFields
<1>4. pool \subseteq DOMAIN table /\ pool # {} /\ IsFiniteSet(pool) /\ pool \subseteq Pool(i, b)
  BY <1>1, <1>2, FS_Subset DEF Pool
<1>5. ASSUME NEW k \in pool
      PROVE  /\ k \in Ids /\ table[k].count \in 1..MaxCount /\ table[k].touched \in 0..total
             /\ f[k] = table[k].count /\ f[k] \in Nat
             /\ table[k].count <= bound[k] /\ bound[k] \in Nat
  <2>1. k \in Ids /\ table[k] \in Cell(total) /\ table[k].count <= bound[k]
    BY <1>2
  <2>2. table[k].count \in 1..MaxCount /\ table[k].touched \in 0..total
    BY <2>1 DEF Cell
  <2> QED
    BY <2>1, <2>2, BoundsAre
<1>6. sum \in Nat
  <2> HIDE DEF f, pool
  <2> QED
    BY <1>4, <1>5, SumType
<1>7. ASSUME NEW k \in pool PROVE sum >= f[k]
  <2> HIDE DEF f, pool
  <2>1. SumFunctionOnSet(f, pool) = f[k] + SumFunctionOnSet(f, pool \ {k})
    BY <1>4, <1>5, SumRemove
  <2>2. SumFunctionOnSet(f, pool \ {k}) \in Nat
    <3>1. IsFiniteSet(pool \ {k}) /\ \A x \in pool \ {k} : f[x] \in Nat
      BY <1>4, <1>5, FS_Subset
    <3> QED
      BY <3>1, SumType
  <2>3. f[k] \in Nat
    BY <1>5
  <2> QED
    BY <2>1, <2>2, <2>3
<1>8. sum <= SumFunctionOnSet(bound, Pool(i, b)) /\ SumFunctionOnSet(bound, Pool(i, b)) \in Nat
  <2> HIDE DEF f, pool
  <2>1. IsFiniteSet(Pool(i, b))
    BY <1>3, PoolFinite
  <2>2. \A x \in Pool(i, b) : bound[x] \in Nat
    BY DEF Pool
  <2>3. \A x \in pool : f[x] \in Nat /\ f[x] <= bound[x]
    BY <1>5
  <2>4. pool \in SUBSET Pool(i, b)
    BY <1>4
  <2> QED
    BY <2>1, <2>2, <2>3, <2>4, SumMonotone, SumType
<1>9. c \in {MaxCount, sum} /\ c <= MaxCount /\ c <= sum
  <2> HIDE DEF sum
  <2>1. MaxCount \in Int /\ sum \in Int
    BY <1>6, BoundsAre
  <2> QED
    BY <2>1, MinBelow, Zenon
<1>10. t \in 0..total
  <2>1. {table[k].touched : k \in pool} \in SUBSET (0..total)
    BY <1>5
  <2>2. {table[k].touched : k \in pool} # {}
    BY <1>4
  <2> QED
    BY <2>1, <2>2, LatestWithin
<1>11. Folded(table, b)[i] = [count |-> c, touched |-> t]
  <2>1. DOMAIN f = pool
    OBVIOUS
  <2>2. SumFunction(f) = SumFunctionOnSet(f, DOMAIN f)
    BY DEF SumFunction
  <2>3. SumFunction(f) = sum
    BY <2>1, <2>2
  <2>4. Folded(table, b)[i] = [count |-> Min({MaxCount, SumFunction(f)}), touched |-> t]
    BY <1>1 DEF Folded
  <2> QED
    BY <2>3, <2>4
<1> HIDE DEF c, t, sum, f
<1>12. \A k \in pool : c >= table[k].count /\ c \in 1..MaxCount
  <2> SUFFICES ASSUME NEW k \in pool PROVE c >= table[k].count /\ c \in 1..MaxCount
    OBVIOUS
  <2>1. sum >= f[k] /\ f[k] = table[k].count /\ table[k].count \in 1..MaxCount
    BY <1>5, <1>7
  <2>2. MaxCount \in Nat
    BY BoundsAre
  <2> HIDE DEF pool
  <2> QED
    BY <1>6, <1>9, <2>1, <2>2
<1>13. c \in 1..MaxCount
  BY <1>4, <1>12
<1>14. Folded(table, b)[i] \in Cell(total) /\ Folded(table, b)[i].count = c
  BY <1>10, <1>11, <1>13 DEF Cell
<1>15. c <= SumFunctionOnSet(bound, Pool(i, b))
  <2>1. c \in Int
    BY <1>13
  <2> QED
    BY <1>6, <1>8, <1>9, <2>1
<1>16. \A k \in DOMAIN table : Rehomed(k, b) = i => c >= table[k].count
  BY <1>12
<1> QED
  BY <1>3, <1>14, <1>15, <1>16

LEMMA FoldedHeld ==
    ASSUME NEW table, NEW total \in Nat, NEW bound \in [Ids -> Nat], Held(table, total, bound),
           NEW b \in Configs,
           NEW pooled \in [Ids -> Nat],
           \A i \in Ids : pooled[i] = SumFunctionOnSet(bound, Pool(i, b))
    PROVE  Held(Folded(table, b), total, pooled)
<1>1. DOMAIN Folded(table, b) = {Rehomed(j, b) : j \in DOMAIN table}
  BY DEF Folded
<1>2. /\ IsFiniteSet(DOMAIN table) /\ Cardinality(DOMAIN table) \in Nat
      /\ Cardinality(DOMAIN table) <= MaxEntries /\ MaxEntries \in Nat
  BY BoundsAre, FS_CardinalityType DEF Held
<1>3. /\ IsFiniteSet(DOMAIN Folded(table, b))
      /\ Cardinality(DOMAIN Folded(table, b)) <= Cardinality(DOMAIN table)
  <2> DEFINE home == [j \in DOMAIN table |-> Rehomed(j, b)]
  <2>1. DOMAIN Folded(table, b) = {home[j] : j \in DOMAIN table}
    BY <1>1
  <2> HIDE DEF home
  <2> QED
    BY <1>2, <2>1, ImageFinite
<1>4. Cardinality(DOMAIN Folded(table, b)) \in Nat
  BY <1>3, FS_CardinalityType
<1>5. Cardinality(DOMAIN Folded(table, b)) <= MaxEntries
  BY <1>2, <1>3, <1>4
<1>6. \A i \in DOMAIN Folded(table, b) :
         /\ i \in Ids /\ Folded(table, b)[i] \in Cell(total)
         /\ Folded(table, b)[i].count <= pooled[i]
  <2> SUFFICES ASSUME NEW i \in DOMAIN Folded(table, b)
               PROVE  /\ i \in Ids /\ Folded(table, b)[i] \in Cell(total)
                      /\ Folded(table, b)[i].count <= pooled[i]
    OBVIOUS
  <2>1. /\ i \in Ids /\ Folded(table, b)[i] \in Cell(total)
        /\ Folded(table, b)[i].count <= SumFunctionOnSet(bound, Pool(i, b))
    BY FoldedCell
  <2>2. pooled[i] = SumFunctionOnSet(bound, Pool(i, b))
    BY <2>1
  <2> QED
    BY <2>1, <2>2
<1> QED
  BY <1>3, <1>5, <1>6 DEF Held

-----------------------------------------------------------------------------
(* The model *)

\* A table, the total it was measured at and what was measured on each key.
SoundTable(table, total, bound) ==
    /\ total \in Nat /\ bound \in [Ids -> Nat] /\ Held(table, total, bound)

\* What every step keeps. The save answers for itself: a restart makes the
\* table and the ghost of it.
ModelInv ==
    /\ boot \in Configs /\ restarts \in Nat
    /\ SoundTable(cells, samples, measured)
    /\ SoundTable(saved.cells, saved.samples, saved.measured)

LEMMA ModelInvInit == ModelInit => ModelInv
<1> SUFFICES ASSUME ModelInit PROVE ModelInv
  OBVIOUS
<1>1. /\ cells = <<>> /\ samples = 0 /\ measured = [i \in Ids |-> 0]
      /\ saved.cells = <<>> /\ saved.samples = 0 /\ saved.measured = measured
      /\ boot \in Configs /\ restarts = 0
  BY DEF ModelInit
<1>2. DOMAIN cells = {}
  BY <1>1
<1>3. Cardinality({}) = 0 /\ IsFiniteSet({}) /\ MaxEntries \in Nat
  BY BoundsAre, FS_EmptySet
<1>4. Held(cells, samples, measured)
  BY <1>2, <1>3 DEF Held
<1>5. saved.cells = cells /\ saved.samples = samples /\ saved.measured = measured
  BY <1>1
<1>7. SoundTable(cells, samples, measured)
  BY <1>1, <1>4 DEF SoundTable
<1>8. SoundTable(saved.cells, saved.samples, saved.measured)
  BY <1>5, <1>7
<1> QED
  BY <1>1, <1>7, <1>8 DEF ModelInv

LEMMA ObserveKeeps ==
    ASSUME ModelInv, NEW id \in Ids, NEW failed \in BOOLEAN, Observe(id, failed)
    PROVE  ModelInv'
<1> DEFINE s    == samples + 1
           base == IF failed THEN Surprised(cells, id) ELSE cells
           fine == IF Opens(base, id) THEN Recorded(base, id, s) ELSE base
           half == [measured EXCEPT ![id] = measured[id] + 1]
           up   == Parent(id)
           more == [i \in Ids |-> measured[i] + IF i \in {id, up} THEN 1 ELSE 0]
<1>1. /\ id.config \in InUse /\ id.fine # 0
      /\ samples' = s /\ cells' = Recorded(fine, up, s) /\ measured' = more
      /\ boot' = boot /\ saved' = saved /\ restarts' = restarts
  BY DEF Observe
<1>2. samples \in Nat /\ measured \in [Ids -> Nat] /\ Held(cells, samples, measured)
  BY DEF ModelInv, SoundTable
<1>3. up \in Ids /\ up.config = id.config /\ up # id
  BY <1>1, IdFields
<1>4. s \in Nat /\ s > 0 /\ samples <= s
  BY <1>2
<1>5. /\ half \in [Ids -> Nat] /\ \A i \in Ids : measured[i] <= half[i]
      /\ measured[id] + 1 <= half[id]
  BY <1>2
<1>6. more \in [Ids -> Nat]
  BY <1>2
<1>7. /\ \A i \in Ids : half[i] <= more[i]
      /\ half[up] + 1 <= more[up]
  BY <1>2, <1>3
<1> HIDE DEF s, half, up, more
<1>8. Held(base, samples, measured)
  BY <1>2, SurprisedHeld
<1> HIDE DEF base
<1>9. Held(base, s, measured) /\ Held(base, s, half)
  <2>1. \A i \in Ids : measured[i] <= measured[i]
    BY <1>2
  <2> QED
    BY <1>2, <1>4, <1>5, <1>8, <2>1, HeldLater
<1>10. Held(fine, s, half)
  <2>1. Held(Recorded(base, id, s), s, half)
    BY <1>2, <1>4, <1>5, <1>9, RecordedHeld
  <2> QED
    BY <1>9, <2>1
<1> HIDE DEF fine
<1>12. Held(cells', s, more)
  <2>1. Held(Recorded(fine, up, s), s, more)
    BY <1>3, <1>4, <1>5, <1>6, <1>7, <1>10, RecordedHeld
  <2> QED
    BY <1>1, <2>1
<1>13. SoundTable(cells', samples', measured')
  BY <1>1, <1>4, <1>6, <1>12 DEF SoundTable
<1> QED
  BY <1>1, <1>13 DEF ModelInv

LEMMA SaveKeeps == ModelInv /\ Save => ModelInv'
<1> SUFFICES ASSUME ModelInv, Save PROVE ModelInv'
  OBVIOUS
<1>1. /\ saved'.cells = cells /\ saved'.samples = samples /\ saved'.measured = measured
      /\ cells' = cells /\ samples' = samples /\ measured' = measured
      /\ boot' = boot /\ restarts' = restarts
  BY DEF Save
<1> QED
  BY <1>1 DEF ModelInv

LEMMA RestartKeeps ==
    ASSUME ModelInv, NEW c \in Configs, Restart(c)
    PROVE  ModelInv'
<1> DEFINE pooled == [i \in Ids |->
              SumFunctionOnSet(saved.measured, {j \in Ids : Rehomed(j, c) = i})]
<1>1. /\ boot' = c /\ restarts' = restarts + 1 /\ samples' = saved.samples
      /\ saved' = saved /\ cells' = Folded(saved.cells, c) /\ measured' = pooled
  BY DEF Restart
<1>2. SoundTable(saved.cells, saved.samples, saved.measured) /\ restarts \in Nat
  BY DEF ModelInv
<1>3. \A i \in Ids : pooled[i] = SumFunctionOnSet(saved.measured, Pool(i, c))
  BY DEF Pool
<1>4. \A i \in Ids : SumFunctionOnSet(saved.measured, Pool(i, c)) \in Nat
  <2> SUFFICES ASSUME NEW i \in Ids
               PROVE  SumFunctionOnSet(saved.measured, Pool(i, c)) \in Nat
    OBVIOUS
  <2>1. IsFiniteSet(Pool(i, c)) /\ \A x \in Pool(i, c) : saved.measured[x] \in Nat
    BY <1>2, PoolFinite DEF Pool, SoundTable
  <2> QED
    BY <2>1, SumType
<1>5. pooled \in [Ids -> Nat]
  BY <1>4 DEF Pool
<1> HIDE DEF pooled
<1>6. Held(Folded(saved.cells, c), saved.samples, pooled)
  BY <1>2, <1>3, <1>5, FoldedHeld DEF SoundTable
<1>7. SoundTable(cells', samples', measured')
  BY <1>1, <1>2, <1>5, <1>6 DEF SoundTable
<1> QED
  BY <1>1, <1>2, <1>7 DEF ModelInv

LEMMA ModelInvStep == ModelInv /\ [ModelNext]_modelVars => ModelInv'
<1> SUFFICES ASSUME ModelInv, [ModelNext]_modelVars PROVE ModelInv'
  OBVIOUS
<1>1. CASE \E id \in Ids : \E failed \in BOOLEAN : Observe(id, failed)
  BY <1>1, ObserveKeeps
<1>2. CASE Save
  BY <1>2, SaveKeeps
<1>3. CASE \E c \in Configs : Restart(c)
  BY <1>3, RestartKeeps
<1>4. CASE UNCHANGED modelVars
  BY <1>4 DEF modelVars, ModelInv, SoundTable, Held, Cell
<1> QED
  BY <1>1, <1>2, <1>3, <1>4 DEF ModelNext

LEMMA ModelInvAlways == ModelSpec => []ModelInv
  BY ModelInvInit, ModelInvStep, PTL DEF ModelSpec

-----------------------------------------------------------------------------
(* What it promises *)

LEMMA SoundAccepted ==
    ASSUME NEW table, NEW total, NEW bound, SoundTable(table, total, bound)
    PROVE  Acceptable(table, total) /\ \A i \in DOMAIN table : table[i].count <= bound[i]
  BY DEF SoundTable, Held, Cell, Acceptable

\* Over evictions, surprises, restarts and folds no cell claims more evidence
\* than was measured on its edge, and deserialize takes every table that can
\* be saved or made of a save (Model::observe, serialize, deserialize).
THEOREM EvidenceIsMeasured == ModelSpec => []EvidenceMeasured
<1>1. ModelInv => EvidenceMeasured
  BY SoundAccepted DEF ModelInv, EvidenceMeasured
<1> QED
  BY <1>1, ModelInvAlways, PTL

\* What a fold leaves under another identity than the one it folds onto is alone in
\* its pool, and comes out as it went in.
LEMMA FoldedElsewhere ==
    ASSUME NEW table, NEW total \in Nat, NEW bound \in [Ids -> Nat], Held(table, total, bound),
           NEW b \in Configs, NEW i \in DOMAIN Folded(table, b), i.config # b
    PROVE  i \in DOMAIN table /\ Folded(table, b)[i] = table[i]
<1> DEFINE pool == {j \in DOMAIN table : Rehomed(j, b) = i}
           f == [j \in pool |-> table[j].count]
<1>1. PICK j \in DOMAIN table : i = Rehomed(j, b)
  BY DEF Folded
<1>2. \A k \in DOMAIN table : k \in Ids /\ table[k] \in Cell(total)
  BY DEF Held
<1>3. \A k \in DOMAIN table : Rehomed(k, b) = i => k = i
  BY <1>2, IdFields
<1>4. i \in DOMAIN table /\ pool = {i} /\ table[i] \in Cell(total)
  BY <1>1, <1>2, <1>3
<1>5. /\ table[i].count \in 1..MaxCount /\ table[i].touched \in Nat
      /\ table[i] = [count |-> table[i].count, touched |-> table[i].touched]
      /\ table[i].count \in Nat /\ MaxCount \in Nat
  BY <1>4, BoundsAre DEF Cell
<1>6. Folded(table, b)[i] =
        [count |-> Min({MaxCount, SumFunction(f)}), touched |-> Max({table[k].touched : k \in pool})]
  BY <1>1 DEF Folded
<1>7. SumFunction(f) = table[i].count
  <2>1. f[i] = table[i].count /\ DOMAIN f = {i}
    BY <1>4
  <2> HIDE DEF f
  <2>2. SumFunctionOnSet(f, {i}) = f[i]
    BY <1>5, <2>1, SumSingle
  <2> QED
    BY <2>1, <2>2 DEF SumFunction
<1>8. Min({MaxCount, table[i].count}) = table[i].count
  BY <1>5, MinOfPair
<1>9. Max({table[k].touched : k \in pool}) = table[i].touched
  <2>1. {table[k].touched : k \in pool} = {table[i].touched}
    BY <1>4
  <2>2. {table[i].touched} \in SUBSET Nat /\ {table[i].touched} # {}
        /\ \A x \in {table[i].touched} : x <= table[i].touched
    BY <1>5
  <2>3. Max({table[i].touched}) \in {table[i].touched}
    BY <1>5, <2>2, MaxOfBounded
  <2> QED
    BY <2>1, <2>3
<1> QED
  BY <1>4, <1>5, <1>6, <1>7, <1>8, <1>9

LEMMA RestartLosesNothing ==
    ASSUME ModelInv, NEW c \in Configs, Restart(c)
    PROVE  /\ \A i \in DOMAIN saved.cells :
                 LET j == Rehomed(i, boot')
                 IN  j \in DOMAIN cells' /\ cells'[j].count >= saved.cells[i].count
           /\ \A i \in DOMAIN cells' :
                 /\ i.config \notin Retired[boot']
                 /\ i.config # boot' => i \in DOMAIN saved.cells /\ cells'[i] = saved.cells[i]
<1>1. /\ boot' = c /\ cells' = Folded(saved.cells, c)
      /\ Held(saved.cells, saved.samples, saved.measured)
      /\ saved.samples \in Nat /\ saved.measured \in [Ids -> Nat]
  BY DEF Restart, ModelInv, SoundTable
<1>2. ASSUME NEW i \in DOMAIN saved.cells
      PROVE  /\ Rehomed(i, c) \in DOMAIN cells'
             /\ cells'[Rehomed(i, c)].count >= saved.cells[i].count
  <2>1. Rehomed(i, c) \in DOMAIN Folded(saved.cells, c)
    BY DEF Folded
  <2> QED
    BY <1>1, <2>1, FoldedCell
<1>3. ASSUME NEW i \in DOMAIN cells'
      PROVE  /\ i.config \notin Retired[c]
             /\ i.config # c => i \in DOMAIN saved.cells /\ cells'[i] = saved.cells[i]
  BY <1>1, FoldedCell, FoldedElsewhere
<1> QED
  BY <1>1, <1>2, <1>3

\* A restart loses no cell and no evidence: what was measured under the identity the
\* daemon starts under, or under one legacyIdentities() offers for it, is where its
\* lookups find it, also where a retired key makes two cells one; a cell under any
\* other identity, among them those that are offered for none, is as it was saved
\* (Brain::deserialize, rehomeKey, legacyIdentities).
THEOREM RestartKeepsEvidence == ModelSpec => FoldKeeps
<1> DEFINE Restored ==
        restarts' # restarts =>
            /\ \A i \in DOMAIN saved.cells :
                  LET j == Rehomed(i, boot')
                  IN  j \in DOMAIN cells' /\ cells'[j].count >= saved.cells[i].count
            /\ \A i \in DOMAIN cells' :
                  /\ i.config \notin Retired[boot']
                  /\ i.config # boot' => i \in DOMAIN saved.cells /\ cells'[i] = saved.cells[i]
<1>1. ModelInv /\ [ModelNext]_modelVars => [Restored]_modelVars
  <2> SUFFICES ASSUME ModelInv, ModelNext, restarts' # restarts PROVE Restored
    BY DEF modelVars
  <2>1. CASE \E id \in Ids : \E failed \in BOOLEAN : Observe(id, failed)
    BY <2>1 DEF Observe
  <2>2. CASE Save
    BY <2>2 DEF Save
  <2>3. CASE \E c \in Configs : Restart(c)
    BY <2>3, RestartLosesNothing
  <2> QED
    BY <2>1, <2>2, <2>3 DEF ModelNext
<1>2. ModelInv /\ [][ModelNext]_modelVars => [][Restored]_modelVars
  BY <1>1, ModelInvStep, PTL
<1> QED
  BY <1>2, ModelInvAlways, PTL DEF ModelSpec, FoldKeeps

=============================================================================
