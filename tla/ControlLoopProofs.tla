-------------------------- MODULE ControlLoopProofs --------------------------
(***************************************************************************)
(* Proofs about the window loop, for every set of axes, sessions and        *)
(* windows.  Types first; then, by one inductive invariant, that the loop   *)
(* knows what the hardware is held at, raises only rested hardware and      *)
(* teaches its policy only undisturbed pairs.                               *)
(***************************************************************************)
EXTENDS ControlLoop, TLAPS

\* Saturated seconds stay within their cap.
LEMMA ElapsedBounds ==
    ASSUME NEW cap \in Nat, NEW seconds \in 0 .. cap, NEW dt \in Nat
    PROVE  Elapsed(seconds, dt, cap) \in 0 .. cap
BY DEF Elapsed

\* The clock and the decay keep the back-off's record well formed.
LEMMA RefusedType ==
    ASSUME NEW r \in RefusalState, NEW dt \in Nat
    PROVE  DecayRefusals(Elapse(r, dt)) \in RefusalState
<1> DEFINE e == Elapse(r, dt)
<1>1. e \in RefusalState
    <2> SUFFICES ASSUME NEW a \in Axis
                 PROVE  e[a] \in [count : 0 .. MaxRefusals, blocked : 0 .. BackoffSec,
                                  quiet : 0 .. DecaySec]
        BY DEF Elapse, RefusalState
    <2>1. r[a] \in [count : 0 .. MaxRefusals, blocked : 0 .. BackoffSec, quiet : 0 .. DecaySec]
        BY DEF RefusalState
    <2>2. Elapsed(r[a].quiet, dt, DecaySec) \in 0 .. DecaySec
        BY <2>1, RefusalsAssumption, ElapsedBounds
    <2>3. (IF r[a].blocked > dt THEN r[a].blocked - dt ELSE 0) \in 0 .. BackoffSec
        BY <2>1, RefusalsAssumption
    <2>4. e[a] = [r[a] EXCEPT !.blocked = IF r[a].blocked > dt THEN r[a].blocked - dt ELSE 0,
                              !.quiet = Elapsed(r[a].quiet, dt, DecaySec)]
        BY DEF Elapse
    <2> HIDE DEF e
    <2> QED BY <2>1, <2>2, <2>3, <2>4
<1>2. QED
    <2> HIDE DEF e
    <2> SUFFICES ASSUME NEW a \in Axis
                 PROVE  DecayRefusals(e)[a] \in
                            [count : 0 .. MaxRefusals, blocked : 0 .. BackoffSec,
                             quiet : 0 .. DecaySec]
        BY DEF DecayRefusals, RefusalState, e
    <2> QED BY <1>1, RefusalsAssumption DEF DecayRefusals, RefusalState

\* A refusal of an available axis is still counted within the bound.
LEMMA RejectedType ==
    ASSUME NEW r \in RefusalState, NEW a \in Axis, AxisAvailable(r, a)
    PROVE  AxisRejected(r, a) \in RefusalState
BY RefusalsAssumption DEF AxisRejected, RefusalState, AxisAvailable

\* Time alone never closes an axis.
LEMMA AvailableStays ==
    ASSUME NEW r \in RefusalState, NEW dt \in Nat, NEW a \in Axis, AxisAvailable(r, a)
    PROVE  AxisAvailable(DecayRefusals(Elapse(r, dt)), a)
<1>1. Elapse(r, dt)[a].count = r[a].count /\ Elapse(r, dt)[a].blocked = 0
    <2>1. r[a] \in [count : 0 .. MaxRefusals, blocked : 0 .. BackoffSec, quiet : 0 .. DecaySec]
        BY DEF RefusalState
    <2>2. Elapse(r, dt)[a] =
             [r[a] EXCEPT !.blocked = IF r[a].blocked > dt THEN r[a].blocked - dt ELSE 0,
                          !.quiet = Elapsed(r[a].quiet, dt, DecaySec)]
        BY DEF Elapse
    <2>3. r[a].blocked = 0 /\ ~(0 > dt)
        BY DEF AxisAvailable
    <2> QED BY <2>1, <2>2, <2>3
<1>2. QED
    BY <1>1, RefusalsAssumption DEF DecayRefusals, RefusalState, AxisAvailable
-----------------------------------------------------------------------------
(* Types.                                                                  *)

\* A window of the environment is a Scene.
LEMMA SceneType ==
    ASSUME NEW w \in Scenes
    PROVE  /\ w \in Scene
           /\ w.session \in Session /\ w.span \in Nat /\ w.slept \in Nat
           /\ w.trim \in BOOLEAN /\ w.bench \in BOOLEAN /\ w.ready \in BOOLEAN
           /\ w.frames \in BOOLEAN /\ w.usable \in BOOLEAN /\ w.steady \in BOOLEAN
           /\ w.open \subseteq Axis
BY LoopAssumption DEF Scene

\* What a window senses keeps its type.
LEMMA SenseTypes ==
    ASSUME TypeOK, NEW w \in Scenes, Sense(w)
    PROVE  cooling' \in BOOLEAN /\ ceiling' \in Level /\ trimmed' \in BOOLEAN
BY SceneType DEF TypeOK, Sense, Cooling, Allowances

\* What a pair may have been disturbed by.
LEMMA OverTypes ==
    ASSUME TypeOK, NEW w \in Scenes
    PROVE  Over(w) \subseteq Disturbance
BY DEF TypeOK, Over, Disturbance

\* The lesson recorded by a window.
LEMMA CreditTypes ==
    ASSUME TypeOK, NEW w \in Scenes, Credit(w)
    PROVE  lesson' \in [kind : {"none", "value", "policy"}, over : SUBSET Disturbance,
                        action : Action]
<1>1. Taught(w) \in {"none", "value", "policy"}
    BY DEF Taught
<1>2. Released \in Action /\ pair.action \in Action
    BY DEF TypeOK, Released, Action, Level, MaxLevel
<1>3. QED
    BY <1>1, <1>2, OverTypes DEF Credit, NoLesson

\* The pair's state after a window, whether it goes on or a new one opens.
PairTypes ==
    /\ eligible \in BOOLEAN
    /\ pair \in [action : Action, session : Session \cup {None}, passive : BOOLEAN,
                 seconds : 0 .. PairMax + 1]
    /\ eligible => pair.session \in Session /\ pair.seconds <= PairMax
    /\ stirred \subseteq Disturbance

\* The absence of a pair is a well formed pair.
LEMMA NoPairType ==
    NoPair \in [action : Action, session : Session \cup {None}, passive : BOOLEAN,
                seconds : 0 .. PairMax + 1]
BY DEF NoPair, Action, Released, Level, MaxLevel, PairMax

\* A pair that goes on stays within its thirty seconds.
LEMMA CarryTypes ==
    ASSUME TypeOK, NEW w \in Scenes, NEW events \in SUBSET Disturbance, Carry(w, events)
    PROVE  PairTypes'
<1>1. Holding(w) \in BOOLEAN
    BY DEF Holding
<1>2. PairSeconds(w) \in 0 .. PairMax + 1
    <2>1. w.span + w.slept \in Nat
        BY SceneType
    <2>2. pair.seconds \in 0 .. PairMax + 1 /\ PairMax + 1 \in Nat
        BY DEF TypeOK, PairMax
    <2>3. QED
        BY <2>1, <2>2, ElapsedBounds DEF PairSeconds
<1>3. NoPair \in [action : Action, session : Session \cup {None}, passive : BOOLEAN,
                  seconds : 0 .. PairMax + 1]
    BY NoPairType
<1>4. CASE Holding(w)
    BY <1>2, <1>4, OverTypes DEF Carry, PairTypes, Holding, TypeOK
<1>5. CASE ~Holding(w)
    <2>1. eligible' = FALSE /\ pair' = NoPair /\ stirred' = {}
        BY <1>1, <1>5 DEF Carry
    <2>2. QED
        BY <1>3, <2>1 DEF PairTypes
<1>6. QED
    BY <1>1, <1>4, <1>5

\* A new pair is well formed.
LEMMA ArmTypes ==
    ASSUME NEW w \in Scenes, NEW action \in Action, NEW passive \in BOOLEAN,
           Arm(w, action, passive)
    PROVE  PairTypes'
BY SceneType DEF Arm, PairTypes, PairMax, Disturbance

\* Writes keep the ghosts' types.
LEMMA HoldTypes ==
    ASSUME TypeOK, NEW w \in Scenes, NEW levels \in Action, Hold(levels, w)
    PROVE  held' \in Action /\ still' \in 0 .. Settle /\ rested' \in 0 .. Settle
<1>1. Elapsed(still, w.span, Settle) \in 0 .. Settle
    BY SceneType, ElapsedBounds DEF TypeOK, Settle
<1>2. 0 \in 0 .. Settle /\ rested \in 0 .. Settle
    BY DEF Settle, TypeOK
<1>3. QED
    BY <1>1, <1>2 DEF Hold

\* Levels merged with the baseline, or taken from two sources, are levels.
LEMMA OnTopType ==
    ASSUME baseline \in Action, NEW levels \in Action
    PROVE  OnTop(levels) \in Action
BY DEF OnTop, Action

\* What a restore leaves keeps the types, whatever stays behind.
LEMMA HandbackTypes ==
    ASSUME TypeOK, NEW w \in Scenes, NEW levels \in Action, NEW under \in Action,
           NEW kept \in SUBSET Axis, NEW altered \in SUBSET kept,
           Handback(levels, under, kept, altered, w)
    PROVE  /\ held' \in Action /\ still' \in 0 .. Settle /\ rested' \in 0 .. Settle
           /\ baseline' \in Action /\ owned' \subseteq Axis /\ moved' \subseteq owned'
           /\ sunk' \subseteq Axis
<1> DEFINE left == [a \in Axis |-> IF a \in kept THEN levels[a] ELSE under[a]]
           next == [a \in Axis |-> IF a \in altered THEN levels[a] ELSE under[a]]
<1>1. left \in Action /\ next \in Action
    BY DEF Action
<1>2. Hold(left, w) /\ baseline' = next /\ owned' = kept /\ moved' = altered /\ sunk' = {}
    BY DEF Handback
<1> HIDE DEF left, next
<1>3. QED
    BY <1>1, <1>2, HoldTypes

\* The back-off and the age after a window.
LEMMA AgeTypes ==
    ASSUME TypeOK, NEW w \in Scenes
    PROVE  /\ Refused(w) \in RefusalState /\ Aged(w) \in 0 .. Settle
           /\ ReleasedAge(w) \in 0 .. Settle
<1>1. Refused(w) \in RefusalState
    BY SceneType, RefusedType DEF TypeOK, Refused
<1>2. Aged(w) \in 0 .. Settle
    BY SceneType, ElapsedBounds DEF TypeOK, Aged, Settle
<1>3. 0 \in 0 .. Settle
    BY DEF Settle
<1>4. QED
    BY <1>1, <1>2, <1>3 DEF ReleasedAge

\* safe() and the moves of candidates() yield actions.
LEMMA ChosenTypes ==
    ASSUME TypeOK, NEW w \in Scenes, ceiling' \in Level
    PROVE  Chosen(w) \subseteq Action
<1>1. ASSUME NEW action \in Action PROVE Safe(action, w) \in Action
    BY LoopAssumption DEF Safe, Limit, Action, Level, MaxLevel
<1>2. ASSUME NEW a \in Axis, NEW b \in Action, NEW l \in Level
      PROVE  [b EXCEPT ![a] = l] \in Action
    BY DEF Action
<1>3. Safe(current, w) \in Action
    BY <1>1 DEF TypeOK
<1>4. ASSUME NEW a \in Axis
      PROVE  /\ (IF Safe(current, w)[a] < MaxLevel THEN Safe(current, w)[a] + 1
                 ELSE Safe(current, w)[a]) \in Level
             /\ (IF Safe(current, w)[a] > 0 THEN Safe(current, w)[a] - 1
                 ELSE Safe(current, w)[a]) \in Level
    <2>1. Safe(current, w)[a] \in Level
        BY <1>3 DEF Action
    <2> QED BY <2>1 DEF Level, MaxLevel
<1>5. Released \in Action
    BY DEF Released, Action, Level, MaxLevel
<1>6. Candidates(current, w) \subseteq Action
    <2> DEFINE stay == Safe(current, w)
               up(a) == [stay EXCEPT ![a] = IF @ < MaxLevel THEN @ + 1 ELSE @]
               down(a) == [stay EXCEPT ![a] = IF @ > 0 THEN @ - 1 ELSE @]
    <2>1. stay \in Action
        BY <1>3
    <2>2. ASSUME NEW a \in Axis PROVE up(a) \in Action /\ down(a) \in Action
        <3>1. up(a) = [stay EXCEPT ![a] = IF stay[a] < MaxLevel THEN stay[a] + 1 ELSE stay[a]]
            OBVIOUS
        <3>2. down(a) = [stay EXCEPT ![a] = IF stay[a] > 0 THEN stay[a] - 1 ELSE stay[a]]
            OBVIOUS
        <3> QED BY <1>2, <1>4, <2>1, <3>1, <3>2
    <2>3. ASSUME NEW a \in Axis PROVE Safe(up(a), w) \in Action
        BY <1>1, <2>2
    <2>4. Candidates(current, w) =
             {stay, Released} \cup {Safe(up(a), w) : a \in Axis} \cup {down(a) : a \in Axis}
        BY DEF Candidates
    <2> HIDE DEF stay, up, down
    <2> QED BY <1>5, <2>1, <2>2, <2>3, <2>4
<1>7. QED
    BY <1>6 DEF Chosen, TypeOK

\* Every action releases or keeps what it does not write.
LEMMA ReleasedType == Released \in Action
BY DEF Released, Action, Level, MaxLevel

\* A window the loop puts off, or cannot finish releasing in.
LEMMA PutOffTypes ==
    ASSUME TypeOK, NEW w \in Scenes, WindowPutOff(w) \/ WindowLocked(w)
    PROVE  TypeOK'
<1>1. /\ Sense(w) /\ Credit(w) /\ Carry(w, {}) /\ Hold(held, w)
      /\ refusals' = Refused(w) /\ age' = Aged(w) /\ reason' = "apply_busy"
      /\ UNCHANGED <<session, current, owned, moved, baseline, sunk>>
    BY DEF WindowPutOff, WindowLocked
<1>2. held' = held
    BY <1>1 DEF Hold
<1>3. held \in Action
    BY DEF TypeOK
<1>4. PairTypes'
    BY <1>1, CarryTypes
<1>5. QED
    BY <1>1, <1>2, <1>3, <1>4, SenseTypes, CreditTypes, HoldTypes, AgeTypes
    DEF TypeOK, PairTypes

\* A window whose restore fails breaks no type.
LEMMA StuckTypes ==
    ASSUME TypeOK, NEW w \in Scenes, WindowStuck(w)
    PROVE  TypeOK'
<1>1. PICK kept, altered :
          /\ kept \in Keepable(owned \ moved) /\ altered \in Alterable(kept)
          /\ Handback(held, baseline, kept, altered, w)
          /\ Carry(w, IF held' # held \/ altered # {} THEN {"written"} ELSE {})
    BY DEF WindowStuck
<1>2. kept \in SUBSET Axis /\ altered \in SUBSET kept
    BY <1>1 DEF TypeOK, Keepable, Alterable
<1>3. PairTypes'
    BY <1>1, CarryTypes DEF Disturbance
<1>4. held \in Action /\ baseline \in Action
    BY DEF TypeOK
<1>5. /\ held' \in Action /\ still' \in 0 .. Settle /\ rested' \in 0 .. Settle
      /\ baseline' \in Action /\ owned' \subseteq Axis /\ moved' \subseteq owned'
      /\ sunk' \subseteq Axis
    BY <1>1, <1>2, <1>4, HandbackTypes
<1>6. QED
    BY <1>3, <1>5, SenseTypes, CreditTypes, AgeTypes DEF WindowStuck, TypeOK, PairTypes

\* A window that releases everything breaks no type.
LEMMA ReleaseTypes ==
    ASSUME TypeOK, NEW w \in Scenes, WindowRelease(w)
    PROVE  TypeOK'
<1>1. PairTypes'
    BY CarryTypes, ArmTypes, ReleasedType DEF WindowRelease, Disturbance
<1>2. /\ held' \in Action /\ still' \in 0 .. Settle /\ rested' \in 0 .. Settle
      /\ baseline' \in Action /\ owned' \subseteq Axis /\ moved' \subseteq owned'
      /\ sunk' \subseteq Axis
    <2>1. held \in Action /\ baseline \in Action
        BY DEF TypeOK
    <2>2. QED
        BY <2>1, HandbackTypes DEF WindowRelease
<1>3. QED
    BY <1>1, <1>2, ReleasedType, SceneType, SenseTypes, CreditTypes, AgeTypes
    DEF WindowRelease, TypeOK, PairTypes

\* A window that applies what the search accepted breaks no type.
LEMMA ApplyTypes ==
    ASSUME TypeOK, NEW w \in Scenes, WindowApply(w)
    PROVE  TypeOK'
<1>1. PICK next \in Chosen(w) :
          /\ Hold(Applied(next, w), w)
          /\ owned' = Entered(next, Allowed(w))
          /\ current' = next
          /\ age' = IF next # current THEN 0 ELSE Aged(w)
          /\ IF next \in Candidates(current, w)
             THEN Arm(w, next, FALSE)
             ELSE eligible' = FALSE /\ pair' = NoPair /\ stirred' = {}
    BY DEF WindowApply
<1>2. ceiling' \in Level /\ next \in Action
    BY SenseTypes, ChosenTypes DEF WindowApply
<1>3. Applied(next, w) \in Action
    <2>1. OnTop(next) \in Action /\ held \in Action
        BY <1>2, OnTopType DEF TypeOK
    <2>2. QED
        BY <2>1 DEF Applied, Action
<1>4. held' \in Action /\ still' \in 0 .. Settle /\ rested' \in 0 .. Settle
    BY <1>1, <1>3, HoldTypes
<1>5. PairTypes'
    <2>1. CASE next \in Candidates(current, w)
        BY <1>1, <1>2, <2>1, ArmTypes
    <2>2. CASE next \notin Candidates(current, w)
        <3>1. eligible' = FALSE /\ pair' = NoPair /\ stirred' = {}
            BY <1>1, <2>2
        <3>2. QED
            BY <3>1, NoPairType DEF PairTypes
    <2>3. QED
        BY <2>1, <2>2
<1>6. age' \in 0 .. Settle
    BY <1>1, AgeTypes DEF Settle
<1>7. /\ moved' = {} /\ session' = session /\ baseline' = baseline
      /\ sunk' \subseteq sunk /\ owned' \subseteq Axis
    BY <1>1, SceneType DEF WindowApply, MaySearch, MustRelease, Verified, Entered, Allowed, TypeOK
<1>8. QED
    BY <1>1, <1>2, <1>4, <1>5, <1>6, <1>7, SenseTypes, CreditTypes, AgeTypes
    DEF WindowApply, TypeOK, PairTypes

\* A window whose apply is refused breaks no type: the axis blamed was available,
\* so its count stays within MaxRefusals.
LEMMA RejectTypes ==
    ASSUME TypeOK, NEW w \in Scenes, WindowReject(w)
    PROVE  TypeOK'
<1>0. /\ Sense(w) /\ Credit(w) /\ Carry(w, {"written", "refused"})
      /\ current' = Released /\ age' = 0 /\ session' = session
    BY DEF WindowReject
<1>1. PICK next, blamed, written, level, kept, altered :
          /\ next \in Chosen(w) /\ blamed \in Allowed(w)
          /\ written \subseteq Allowed(w) /\ level \in LeftBy(next, blamed)
          /\ kept \in Keepable(Entered(next, written) \ {blamed})
          /\ altered \in Alterable(kept)
          /\ Handback([a \in Axis |-> IF a \in written THEN OnTop(next)[a] ELSE held[a]],
                      [baseline EXCEPT ![blamed] = level], kept, altered, w)
          /\ refusals' = AxisRejected(Refused(w), blamed)
          /\ reason' \in {"write_rejected", "restore_pending"}
    BY DEF WindowReject
<1>2. blamed \in Axis /\ AxisAvailable(Refused(w), blamed)
    BY <1>1, SceneType DEF Allowed
<1>3. kept \in SUBSET Axis /\ altered \in SUBSET kept
    BY <1>1, <1>2, SceneType DEF TypeOK, Keepable, Alterable, Entered, Allowed
<1>4. next \in Action /\ held \in Action /\ baseline \in Action
    BY <1>0, <1>1, SenseTypes, ChosenTypes DEF TypeOK
<1>5. [a \in Axis |-> IF a \in written THEN OnTop(next)[a] ELSE held[a]] \in Action
    BY <1>4, OnTopType DEF Action
<1>6. [baseline EXCEPT ![blamed] = level] \in Action
    BY <1>1, <1>2, <1>4, LoopAssumption DEF LeftBy, Action, Level, MaxLevel
<1>7. /\ held' \in Action /\ still' \in 0 .. Settle /\ rested' \in 0 .. Settle
      /\ baseline' \in Action /\ owned' \subseteq Axis /\ moved' \subseteq owned'
      /\ sunk' \subseteq Axis
    <2> DEFINE midway == [a \in Axis |-> IF a \in written THEN OnTop(next)[a] ELSE held[a]]
               under == [baseline EXCEPT ![blamed] = level]
    <2>1. Handback(midway, under, kept, altered, w)
        BY <1>1
    <2> HIDE DEF midway, under
    <2>2. QED
        BY <1>3, <1>5, <1>6, <2>1, HandbackTypes DEF midway, under
<1>8. refusals' \in RefusalState
    BY <1>1, <1>2, AgeTypes, RejectedType
<1>9. PairTypes'
    BY <1>0, CarryTypes DEF Disturbance
<1>10. QED
    BY <1>0, <1>1, <1>7, <1>8, <1>9, ReleasedType, SenseTypes, CreditTypes
    DEF TypeOK, PairTypes, Settle

\* A settling window breaks no type.
LEMMA SettleTypes ==
    ASSUME TypeOK, NEW w \in Scenes, WindowSettle(w)
    PROVE  TypeOK'
<1>1. held \in Action /\ current \in Action
    BY DEF TypeOK
<1>2. PairTypes'
    BY <1>1, CarryTypes, ArmTypes DEF WindowSettle
<1>3. held' = held /\ still' \in 0 .. Settle /\ rested' \in 0 .. Settle
    BY <1>1, HoldTypes DEF WindowSettle, Hold
<1>4. QED
    BY <1>2, <1>3, SenseTypes, CreditTypes, AgeTypes DEF WindowSettle, TypeOK, PairTypes

\* Another writer breaks no type.
LEMMA ForeignTypes ==
    ASSUME TypeOK, Foreign
    PROVE  TypeOK'
<1>1. PICK a, v :
          /\ a \in Axis /\ v \in 0 .. Top[a]
          /\ held' = [held EXCEPT ![a] = v] /\ baseline' = [baseline EXCEPT ![a] = v]
          /\ IF a \in owned
             THEN /\ moved' = moved \cup {a} /\ still' = 0 /\ sunk' = sunk
                  /\ stirred' = IF eligible THEN stirred \cup {"moved"} ELSE stirred
             ELSE /\ sunk' = IF v < current[a] THEN sunk \cup {a} ELSE sunk \ {a}
                  /\ UNCHANGED <<moved, still, stirred>>
    BY DEF Foreign
<1>2. UNCHANGED <<loopVars, pairVars, owned, lesson, rested>>
    BY DEF Foreign
<1>3. v \in Level
    BY <1>1, LoopAssumption DEF Level, MaxLevel
<1>4. held' \in Action /\ baseline' \in Action
    BY <1>1, <1>3 DEF TypeOK, Action
<1>5. /\ moved' \subseteq owned /\ sunk' \subseteq Axis /\ stirred' \subseteq Disturbance
      /\ still' \in 0 .. Settle
    <2>1. CASE a \in owned
        <3>1. moved' = moved \cup {a} /\ still' = 0 /\ sunk' = sunk
              /\ stirred' = IF eligible THEN stirred \cup {"moved"} ELSE stirred
            BY <1>1, <2>1
        <3>2. stirred' \subseteq Disturbance
            BY <3>1 DEF TypeOK, Disturbance
        <3>3. moved' \subseteq owned /\ sunk' \subseteq Axis /\ still' \in 0 .. Settle
            BY <2>1, <3>1 DEF TypeOK, Settle
        <3>4. QED
            BY <3>2, <3>3
    <2>2. CASE a \notin owned
        BY <1>1, <2>2 DEF TypeOK
    <2>3. QED
        BY <2>1, <2>2
<1>6. QED
    BY <1>2, <1>4, <1>5 DEF TypeOK, loopVars, pairVars

\* The loop starts with its types.
LEMMA InitTypes == Init => TypeOK
<1> SUFFICES ASSUME Init PROVE TypeOK
    OBVIOUS
<1>1. eligible = FALSE /\ trimmed = FALSE /\ cooling = FALSE
      /\ pair \in [action : Action, session : Session \cup {None}, passive : BOOLEAN,
                   seconds : 0 .. PairMax + 1]
    BY NoPairType DEF Init
<1>2. refusals \in RefusalState
    BY RefusalsAssumption DEF Init, NoRefusals, RefusalState
<1>3. lesson \in [kind : {"none", "value", "policy"}, over : SUBSET Disturbance,
                  action : Action]
    BY ReleasedType DEF Init, NoLesson
<1>4. age \in 0 .. Settle /\ ceiling \in Level /\ still \in 0 .. Settle /\ rested \in 0 .. Settle
    BY DEF Init, Level, MaxLevel, Settle
<1>5. /\ session \in Session \cup {None} /\ current \in Action /\ held \in Action
      /\ baseline \in Action /\ owned = {} /\ moved = {} /\ sunk = {} /\ stirred \subseteq Disturbance
      /\ reason = "warming_up"
    BY ReleasedType DEF Init
<1>6. QED
    BY <1>1, <1>2, <1>3, <1>4, <1>5 DEF TypeOK

\* Each step keeps them.
LEMMA NextTypes ==
    ASSUME TypeOK, [Next]_vars
    PROVE  TypeOK'
<1>1. ASSUME NEW w \in Scenes, Window(w) PROVE TypeOK'
    BY <1>1, PutOffTypes, StuckTypes, ReleaseTypes, ApplyTypes, RejectTypes, SettleTypes
    DEF Window
<1>2. CASE UNCHANGED vars
    BY <1>2 DEF TypeOK, vars, loopVars, pairVars, hwVars, ghostVars
<1>3. QED
    BY <1>1, <1>2, ForeignTypes DEF Next

\* The loop's state keeps its types; in particular no axis is refused more than
\* MaxRefusals times, and an armed pair is never older than thirty seconds.
THEOREM TypeCorrect == Spec => []TypeOK
<1>1. Init => TypeOK
    BY InitTypes
<1>2. TypeOK /\ [Next]_vars => TypeOK'
    BY NextTypes
<1>3. QED
    BY <1>1, <1>2, PTL DEF Spec
-----------------------------------------------------------------------------
(* Value backups, whatever goes wrong.                                     *)

\* A pair that is still armed has seen no suspend and no trim; if a held node
\* was moved during it, it is still moved, so the next window drops the pair.
Clean ==
    /\ stirred \cap {"suspend", "trim"} = {}
    /\ "moved" \in stirred => moved # {}

\* A pair goes on only over a window that slept not, spanned no trim and found
\* every node as it was left.
LEMMA HoldingClean ==
    ASSUME Clean, NEW w \in Scenes, NEW events \in SUBSET {"written", "refused"},
           Carry(w, events)
    PROVE  stirred' \cap {"suspend", "trim", "moved"} = {}
<1>1. CASE Holding(w)
    <2>1. stirred' = Over(w) \cup events
        BY <1>1 DEF Carry
    <2>2. moved = {} /\ w.slept = 0 /\ ~trimmed
        BY <1>1 DEF Holding, CanLearn, Verified
    <2>3. QED
        BY <2>1, <2>2, SceneType DEF Over, Clean
<1>2. CASE ~Holding(w)
    BY <1>2 DEF Carry
<1>3. QED
    BY <1>1, <1>2

\* Whatever a window does with the pair, the armed pair stays clean.
LEMMA WindowClean ==
    ASSUME Clean, NEW w \in Scenes, Window(w)
    PROVE  stirred' \cap {"suspend", "trim", "moved"} = {}
<1>1. CASE WindowPutOff(w) \/ WindowLocked(w)
    BY <1>1, HoldingClean DEF WindowPutOff, WindowLocked
<1>2. CASE WindowStuck(w)
    <2>1. \E events \in SUBSET {"written"} : Carry(w, events)
        BY <1>2 DEF WindowStuck
    <2>2. QED
        BY <2>1, HoldingClean
<1>3. CASE WindowRelease(w)
    BY <1>3, HoldingClean DEF WindowRelease, Arm
<1>4. CASE WindowApply(w)
    BY <1>4 DEF WindowApply, Arm
<1>5. CASE WindowReject(w)
    BY <1>5, HoldingClean DEF WindowReject
<1>6. CASE WindowSettle(w)
    BY <1>6, HoldingClean DEF WindowSettle, Arm
<1>7. QED
    BY <1>1, <1>2, <1>3, <1>4, <1>5, <1>6 DEF Window

\* A pair that teaches anything was measured without a suspend, a trim or a
\* moved node in between.
LEMMA LessonUnbroken ==
    ASSUME Clean, NEW w \in Scenes, Credit(w)
    PROVE  ValueUnbroken'
<1>1. CASE Taught(w) = "none"
    BY <1>1 DEF Credit, ValueUnbroken, NoLesson
<1>2. CASE Taught(w) # "none"
    <2>1. lesson'.over = Over(w)
        BY <1>2 DEF Credit
    <2>2. moved = {} /\ ~(w.slept > 0) /\ ~trimmed
        BY <1>2 DEF Taught, CanLearn, Verified
    <2>3. QED
        BY <2>1, <2>2 DEF Over, Clean, ValueUnbroken
<1>3. QED
    BY <1>1, <1>2

\* Every value backup is of one unbroken transition of the device, whatever
\* other writers, the lock and the kernel do.
THEOREM BackupsUnbroken == Spec => []ValueUnbroken
<1>1. Init => Clean /\ ValueUnbroken
    BY DEF Init, Clean, ValueUnbroken, NoLesson
<1>2. ASSUME Clean, ValueUnbroken, [Next]_vars PROVE (Clean /\ ValueUnbroken)'
    <2>1. ASSUME NEW w \in Scenes, Window(w) PROVE (Clean /\ ValueUnbroken)'
        <3>1. Credit(w)
            BY <2>1 DEF Window, WindowPutOff, WindowStuck, WindowRelease, WindowApply,
                        WindowReject, WindowLocked, WindowSettle
        <3>2. QED
            BY <1>2, <2>1, <3>1, WindowClean, LessonUnbroken DEF Clean
    <2>2. CASE Foreign
        BY <1>2, <2>2 DEF Foreign, Clean, ValueUnbroken
    <2>3. CASE UNCHANGED vars
        BY <1>2, <2>3 DEF Clean, ValueUnbroken, vars, hwVars, ghostVars
    <2>4. QED
        BY <1>2, <2>1, <2>2, <2>3 DEF Next
<1>3. QED
    BY <1>1, <1>2, PTL DEF Spec
-----------------------------------------------------------------------------
(* What the loop knows of the hardware, where restores succeed and the      *)
(* configuration does not open or close an axis while the daemon runs.      *)

NeverStuck == "stuck" \notin Faults
OneSurface == \A v, w \in Scenes : v.open = w.open

\* Only axes the engine may write are believed raised: a refusal forgets them all.
HeldUsable ==
    \A w \in Scenes, a \in Axis :
        current[a] > 0 => a \in w.open /\ AxisAvailable(refusals, a)

\* Nobody changed the hardware since the loop last noted a change.
Rest == moved = {} => age <= still

\* A baseline is believed away only under an axis believed raised, which the next
\* apply writes again.
SunkInUse == \A a \in sunk : current[a] > 0

Knowledge == TypeOK /\ HeldMatches /\ HeldUsable /\ SunkInUse /\ Rest /\ RaisedRested

\* An axis in use stays available while no refusal comes in.
LEMMA StillUsable ==
    ASSUME TypeOK, HeldUsable, NEW w \in Scenes, NEW a \in Axis, current[a] > 0
    PROVE  a \in Allowed(w)
BY SceneType, AvailableStays DEF HeldUsable, Allowed, Refused, TypeOK

\* A candidate asks nothing of an axis that is not allowed.
LEMMA CandidateAllowed ==
    ASSUME NEW w \in Scenes, NEW next \in Candidates(current, w),
           NEW a \in Axis, a \notin Allowed(w)
    PROVE  next[a] = 0
<1> DEFINE stay == Safe(current, w)
           up(b) == [stay EXCEPT ![b] = IF @ < MaxLevel THEN @ + 1 ELSE @]
           down(b) == [stay EXCEPT ![b] = IF @ > 0 THEN @ - 1 ELSE @]
<1>1. ASSUME NEW action PROVE Safe(action, w)[a] = 0
    BY DEF Safe
<1>2. stay[a] = 0
    BY <1>1
<1>3. ASSUME NEW b \in Axis PROVE Safe(up(b), w)[a] = 0
    BY <1>1
<1>4. ASSUME NEW b \in Axis PROVE down(b)[a] = 0
    <2>1. stay = [x \in Axis |-> stay[x]]
        BY DEF Safe
    <2>2. QED
        BY <1>2, <2>1
<1>5. Released[a] = 0
    BY DEF Released
<1>6. next \in {stay, Released} \cup {Safe(up(b), w) : b \in Axis} \cup {down(b) : b \in Axis}
    BY DEF Candidates
<1> HIDE DEF stay, up, down
<1>7. QED
    BY <1>2, <1>3, <1>4, <1>5, <1>6

\* Saturated seconds grow in step.
LEMMA ElapsedMonotone ==
    ASSUME NEW s \in 0 .. Settle, NEW t \in 0 .. Settle, s <= t, NEW dt \in Nat
    PROVE  Elapsed(s, dt, Settle) <= Elapsed(t, dt, Settle)
BY DEF Elapsed, Settle

\* A window that writes nothing and forgets nothing.
LEMMA QuietKnows ==
    ASSUME OneSurface, Knowledge, NEW w \in Scenes, Hold(held, w), age' = Aged(w),
           refusals' = Refused(w), UNCHANGED <<current, moved, baseline, sunk>>
    PROVE  (HeldMatches /\ HeldUsable /\ SunkInUse /\ Rest /\ RaisedRested)'
<1>1. held' = held /\ still' = Elapsed(still, w.span, Settle)
    BY DEF Hold
<1>2. rested' = rested
    <2>1. ~\E a \in Axis : held[a] > held[a]
        BY DEF Knowledge, TypeOK, Action, Level, MaxLevel
    <2>2. QED
        BY <2>1 DEF Hold
<1>3. Rest'
    BY <1>1, SceneType, ElapsedMonotone DEF Knowledge, Rest, Aged, TypeOK
<1>4. HeldUsable'
    BY StillUsable DEF Knowledge, HeldUsable, Allowed, OneSurface
<1>5. QED
    BY <1>1, <1>2, <1>3, <1>4 DEF Knowledge, HeldMatches, SunkInUse, RaisedRested, OnTop

\* Asking for nothing shows the baseline.
LEMMA OnTopReleased ==
    ASSUME TypeOK
    PROVE  OnTop(Released) = baseline
BY DEF TypeOK, OnTop, Released, Action, Level, MaxLevel

\* What a level shows is never below the baseline.
LEMMA OnTopBounds ==
    ASSUME TypeOK, NEW levels \in Action, NEW a \in Axis
    PROVE  /\ OnTop(levels)[a] \in 0 .. MaxLevel /\ baseline[a] \in 0 .. MaxLevel
           /\ held[a] \in 0 .. MaxLevel /\ OnTop(levels)[a] >= baseline[a]
BY DEF TypeOK, OnTop, Action, Level, MaxLevel

\* When the kernel takes nodes back, a restore leaves each at its baseline.
LEMMA HandbackFree ==
    ASSUME NeverStuck, TypeOK, NEW w \in Scenes, NEW levels, NEW under \in Action,
           NEW entries, NEW kept \in Keepable(entries), NEW altered \in Alterable(kept),
           Handback(levels, under, kept, altered, w)
    PROVE  /\ Hold(under, w) /\ held' = under /\ baseline' = under
           /\ owned' = {} /\ moved' = {} /\ sunk' = {}
<1>1. kept = {} /\ altered = {}
    BY DEF Keepable, Alterable, NeverStuck
<1>2. under = [a \in Axis |-> under[a]]
    BY DEF Action
<1>3. QED
    BY <1>1, <1>2 DEF Handback, Hold

\* Once everything is at its baseline and nothing is believed in effect, belief and
\* hardware agree.
LEMMA FreeKnows ==
    ASSUME TypeOK', held' = baseline', current' = Released, moved' = {}, sunk' = {}
    PROVE  (HeldMatches /\ HeldUsable /\ SunkInUse)'
<1>1. \A a \in Axis : OnTop(Released)'[a] = baseline'[a]
    BY DEF TypeOK, OnTop, Released, Action, Level, MaxLevel
<1>2. \A a \in Axis : OnTop(current)'[a] = baseline'[a]
    BY <1>1 DEF OnTop
<1>3. QED
    BY <1>2 DEF HeldMatches, HeldUsable, SunkInUse, Released

\* After a release nothing is held over the baseline and nothing believed in effect.
LEMMA ReleaseKnows ==
    ASSUME Knowledge, NEW w \in Scenes, WindowRelease(w)
    PROVE  (HeldMatches /\ HeldUsable /\ SunkInUse /\ Rest /\ RaisedRested)'
<1>1. /\ Hold(baseline, w) /\ held' = baseline /\ baseline' = baseline
      /\ moved' = {} /\ sunk' = {} /\ current' = Released /\ age' = ReleasedAge(w)
    <2>1. baseline = [a \in Axis |-> baseline[a]]
        BY DEF Knowledge, TypeOK, Action
    <2>2. QED
        BY <2>1 DEF WindowRelease, Handback, Hold
<1>2. TypeOK'
    BY ReleaseTypes DEF Knowledge
<1>3. (HeldMatches /\ HeldUsable /\ SunkInUse)'
    BY <1>1, <1>2, FreeKnows
<1>4. RaisedRested'
    <2>1. ~\E a \in Axis : baseline[a] > held[a] /\ baseline[a] > OnTop(current)[a]
        <3>1. current \in Action /\ TypeOK
            BY DEF Knowledge, TypeOK
        <3>2. QED
            BY <3>1, OnTopBounds DEF MaxLevel
    <2>2. QED
        BY <1>1, <2>1 DEF Hold, Knowledge, RaisedRested
<1>5. age' <= still'
    <2>1. CASE Transition(w) \/ current # Released \/ ~Verified
        BY <1>1, <1>2, <2>1 DEF ReleasedAge, TypeOK
    <2>2. CASE ~(Transition(w) \/ current # Released \/ ~Verified)
        <3>1. \A a \in Axis : baseline[a] = OnTop(current)[a]
            BY <2>2, OnTopReleased DEF Knowledge
        <3>2. still' = Elapsed(still, w.span, Settle) /\ age' = Aged(w)
            BY <1>1, <2>2, <3>1 DEF Hold, ReleasedAge
        <3>3. QED
            BY <2>2, <3>2, SceneType, ElapsedMonotone
            DEF Knowledge, Rest, Aged, TypeOK, Verified
    <2>3. QED
        BY <2>1, <2>2
<1>6. QED
    BY <1>3, <1>4, <1>5 DEF Rest

\* Whenever the search may run, nobody changed the hardware for the settling time.
LEMMA SettledSearch ==
    ASSUME Knowledge, NEW w \in Scenes, MaySearch(w)
    PROVE  Elapsed(still, w.span, Settle) = Settle
<1>1. moved = {} /\ Aged(w) >= Settle
    BY DEF MaySearch, MustRelease, Verified
<1>2. Elapsed(age, w.span, Settle) <= Elapsed(still, w.span, Settle)
    BY <1>1, SceneType, ElapsedMonotone DEF Knowledge, Rest, TypeOK
<1>3. Elapsed(still, w.span, Settle) \in 0 .. Settle
      /\ Elapsed(age, w.span, Settle) \in 0 .. Settle
    BY SceneType, ElapsedBounds DEF Knowledge, TypeOK, Settle
<1>4. QED
    BY <1>1, <1>2, <1>3 DEF Aged, Settle

\* An apply writes every axis that is in use, so belief and hardware agree again on
\* all of them, and it raises one beyond the belief only after the settling time.
LEMMA ApplyKnows ==
    ASSUME OneSurface, Knowledge, NEW w \in Scenes, WindowApply(w)
    PROVE  (HeldMatches /\ HeldUsable /\ SunkInUse /\ Rest /\ RaisedRested)'
<1>1. PICK next \in Chosen(w) :
          /\ Hold(Applied(next, w), w)
          /\ current' = next
          /\ age' = IF next # current THEN 0 ELSE Aged(w)
    BY DEF WindowApply
<1>2. /\ moved = {} /\ Aged(w) >= Settle /\ refusals' = Refused(w)
      /\ moved' = {} /\ baseline' = baseline /\ sunk' = sunk \ Allowed(w)
    BY DEF WindowApply, MaySearch, MustRelease, Verified
<1>3. next \in Action /\ next \in {current} \cup Candidates(current, w)
    BY SenseTypes, ChosenTypes DEF Knowledge, WindowApply, Chosen
<1>4. ASSUME NEW a \in Axis, a \notin Allowed(w) PROVE current[a] = 0 /\ next[a] = 0
    <2>1. ~(current[a] > 0)
        BY <1>4, StillUsable DEF Knowledge
    <2>2. current[a] \in Level
        BY DEF Knowledge, TypeOK, Action
    <2>3. QED
        BY <1>3, <1>4, <2>1, <2>2, CandidateAllowed DEF Level, MaxLevel
<1>5. sunk' = {}
    BY <1>2, <1>4 DEF Knowledge, SunkInUse, TypeOK
<1>6. ASSUME NEW a \in Axis PROVE Applied(next, w)[a] = OnTop(next)[a]
    <2>1. CASE a \in Allowed(w)
        BY <2>1 DEF Applied
    <2>2. CASE a \notin Allowed(w)
        <3>1. current[a] = 0 /\ next[a] = 0 /\ a \notin sunk
            BY <1>4, <2>2 DEF Knowledge, SunkInUse
        <3>2. held[a] = OnTop(current)[a]
            BY <1>2, <3>1 DEF Knowledge, HeldMatches
        <3>3. QED
            BY <2>2, <3>1, <3>2 DEF Applied, OnTop
    <2>3. QED
        BY <2>1, <2>2
<1>7. HeldMatches'
    BY <1>1, <1>2, <1>6 DEF HeldMatches, Hold, OnTop
<1>8. HeldUsable'
    <2> SUFFICES ASSUME NEW v \in Scenes, NEW a \in Axis, next[a] > 0
                 PROVE  a \in v.open /\ AxisAvailable(refusals', a)
        BY <1>1 DEF HeldUsable
    <2>1. a \in Allowed(w)
        BY <1>4
    <2>2. QED
        BY <1>2, <2>1 DEF Allowed, OneSurface
<1>9. Elapsed(still, w.span, Settle) = Settle /\ Settle \in Nat
    BY SettledSearch DEF WindowApply, Settle
<1>10. RaisedRested'
    BY <1>1, <1>9 DEF Hold, Knowledge, RaisedRested
<1>11. age' <= still'
    <2>1. CASE next # current
        BY <1>1, <1>9, <2>1 DEF Hold
    <2>2. CASE next = current
        <3>1. still' = Settle
            BY <1>1, <1>6, <1>9, <2>2 DEF Hold
        <3>2. age' \in 0 .. Settle
            BY <1>1, <2>2, AgeTypes DEF Knowledge
        <3>3. QED
            BY <3>1, <3>2 DEF Settle
    <2>3. QED
        BY <2>1, <2>2
<1>12. QED
    BY <1>5, <1>7, <1>8, <1>10, <1>11 DEF Rest, SunkInUse

\* A refused apply whose restore succeeds leaves nothing with an entry: a floor the
\* restore did not take back is the baseline from then on.
LEMMA RejectKnows ==
    ASSUME NeverStuck, Knowledge, NEW w \in Scenes, WindowReject(w)
    PROVE  (HeldMatches /\ HeldUsable /\ SunkInUse /\ Rest /\ RaisedRested)'
<1>1. TypeOK' /\ TypeOK
    BY RejectTypes DEF Knowledge
<1>2. PICK blamed, next, level, midway, entries, kept, altered :
          /\ blamed \in Allowed(w) /\ level \in LeftBy(next, blamed)
          /\ kept \in Keepable(entries) /\ altered \in Alterable(kept)
          /\ Handback(midway, [baseline EXCEPT ![blamed] = level], kept, altered, w)
    BY DEF WindowReject
<1> DEFINE under == [baseline EXCEPT ![blamed] = level]
<1>3. under \in Action
    <2>1. blamed \in Axis
        BY <1>2, SceneType DEF Allowed
    <2>2. baseline \in Action /\ held \in Action
        BY <1>1 DEF TypeOK
    <2>3. level \in Level
        BY <1>2, <2>1, <2>2, LoopAssumption DEF LeftBy, Action, Level, MaxLevel
    <2>4. QED
        BY <2>2, <2>3 DEF Action
<1>4. Handback(midway, under, kept, altered, w)
    BY <1>2
<1>5. Hold(under, w) /\ held' = baseline' /\ moved' = {} /\ sunk' = {}
    <2> HIDE DEF under
    <2>1. QED
        BY <1>1, <1>2, <1>3, <1>4, HandbackFree
<1>6. (HeldMatches /\ HeldUsable /\ SunkInUse)'
    <2>1. current' = Released
        BY DEF WindowReject
    <2>2. QED
        BY <1>1, <1>5, <2>1, FreeKnows
<1>7. age' = 0 /\ still' \in Nat
    BY <1>1 DEF WindowReject, TypeOK
<1>8. RaisedRested'
    BY <1>1, <1>5, SettledSearch DEF Hold, Knowledge, RaisedRested, WindowReject
<1>9. QED
    BY <1>6, <1>7, <1>8 DEF Rest

\* Another writer takes an axis the engine owns out of what the loop claims to know;
\* on any other it moves the baseline.
LEMMA ForeignKnows ==
    ASSUME Knowledge, Foreign
    PROVE  (HeldMatches /\ HeldUsable /\ SunkInUse /\ Rest /\ RaisedRested)'
<1>1. UNCHANGED <<current, age, refusals, owned, rested>>
    BY DEF Foreign, loopVars
<1>2. PICK a, v :
          /\ a \in Axis /\ v \in 0 .. Top[a]
          /\ held' = [held EXCEPT ![a] = v] /\ baseline' = [baseline EXCEPT ![a] = v]
          /\ IF a \in owned
             THEN moved' = moved \cup {a} /\ still' = 0 /\ sunk' = sunk
             ELSE /\ sunk' = IF v < current[a] THEN sunk \cup {a} ELSE sunk \ {a}
                  /\ UNCHANGED <<moved, still>>
    BY DEF Foreign
<1>3. /\ held' \in Action /\ baseline' \in Action /\ current \in Action
      /\ v \in Level
    <2>1. TypeOK' /\ TypeOK
        BY ForeignTypes DEF Knowledge
    <2>2. QED
        BY <1>2, <2>1, LoopAssumption DEF TypeOK, Level, MaxLevel
<1>4. HeldMatches'
    <2> SUFFICES ASSUME NEW b \in Axis, b \notin moved', b \notin sunk'
                 PROVE  held'[b] = OnTop(current)'[b]
        BY <1>1 DEF HeldMatches, OnTop
    <2>1. held \in Action /\ baseline \in Action
        BY DEF Knowledge, TypeOK
    <2>2. CASE b = a
        <3>1. a \notin owned /\ ~(v < current[a])
            BY <1>2, <2>2
        <3>2. held'[a] = v /\ baseline'[a] = v
            BY <1>2, <2>1 DEF Action
        <3>3. QED
            BY <1>1, <1>3, <2>2, <3>1, <3>2 DEF OnTop, Action, Level, MaxLevel
    <2>3. CASE b # a
        <3>1. held'[b] = held[b] /\ baseline'[b] = baseline[b]
            BY <1>2, <2>1, <2>3 DEF Action
        <3>2. b \notin moved /\ b \notin sunk
            BY <1>2, <2>3
        <3>3. QED
            BY <1>1, <3>1, <3>2 DEF OnTop, Knowledge, HeldMatches
    <2>4. QED
        BY <2>2, <2>3
<1>5. SunkInUse'
    BY <1>1, <1>2, <1>3 DEF Knowledge, SunkInUse, Action, Level, MaxLevel
<1>6. HeldUsable' /\ RaisedRested'
    BY <1>1 DEF Knowledge, HeldUsable, RaisedRested
<1>7. Rest'
    BY <1>1, <1>2 DEF Knowledge, Rest
<1>8. QED
    BY <1>4, <1>5, <1>6, <1>7

\* The inductive step of both theorems below.
LEMMA NextKnows ==
    ASSUME NeverStuck, OneSurface, Knowledge, [Next]_vars
    PROVE  Knowledge'
<1>1. TypeOK'
    BY NextTypes DEF Knowledge
<1>2. (HeldMatches /\ HeldUsable /\ SunkInUse /\ Rest /\ RaisedRested)'
    <2>1. ASSUME NEW w \in Scenes, Window(w)
          PROVE  (HeldMatches /\ HeldUsable /\ SunkInUse /\ Rest /\ RaisedRested)'
        <3>1. CASE WindowPutOff(w) \/ WindowLocked(w) \/ WindowSettle(w)
            BY <3>1, QuietKnows DEF WindowPutOff, WindowLocked, WindowSettle
        <3>2. ~WindowStuck(w)
            BY DEF WindowStuck, NeverStuck
        <3>3. QED
            BY <2>1, <3>1, <3>2, ReleaseKnows, ApplyKnows, RejectKnows DEF Window
    <2>2. CASE UNCHANGED vars
        BY <2>2 DEF vars, loopVars, hwVars, ghostVars, Knowledge, HeldMatches, HeldUsable,
                    SunkInUse, Rest, RaisedRested, OnTop
    <2>3. QED
        BY <2>1, <2>2, ForeignKnows DEF Next
<1>3. QED
    BY <1>1, <1>2 DEF Knowledge

\* The loop starts with every axis at its baseline and nothing believed in effect.
LEMMA InitKnows == Init => Knowledge
<1> SUFFICES ASSUME Init PROVE Knowledge
    OBVIOUS
<1>1. TypeOK
    BY InitTypes
<1>2. \A a \in Axis : held[a] = OnTop(current)[a]
    <2>1. held = baseline /\ current = Released
        BY DEF Init
    <2>2. QED
        BY <1>1, <2>1, OnTopReleased
<1>3. HeldMatches /\ HeldUsable /\ SunkInUse /\ Rest /\ RaisedRested
    BY <1>2 DEF Init, HeldMatches, HeldUsable, SunkInUse, Rest, RaisedRested, Released, Settle
<1>4. QED
    BY <1>1, <1>3 DEF Knowledge

\* Where restores succeed and the surface is fixed, the loop's belief is what the
\* hardware is held at over its baseline, through busy locks, refused and altered
\* writes and other writers; a floor that a failed write strands is in the baseline.
THEOREM BeliefHeld ==
    ASSUME NeverStuck, OneSurface
    PROVE  Spec => []HeldMatches
<1>1. Knowledge /\ [Next]_vars => Knowledge'
    BY NextKnows
<1>2. Knowledge => HeldMatches
    BY DEF Knowledge
<1>3. QED
    BY <1>1, <1>2, InitKnows, PTL DEF Spec

\* Under the same conditions the engine raises only rested hardware.
THEOREM RaisesRested ==
    ASSUME NeverStuck, OneSurface
    PROVE  Spec => []RaisedRested
<1>1. Knowledge /\ [Next]_vars => Knowledge'
    BY NextKnows
<1>2. Knowledge => RaisedRested
    BY DEF Knowledge
<1>3. QED
    BY <1>1, <1>2, InitKnows, PTL DEF Spec
-----------------------------------------------------------------------------
(* Attribution.                                                            *)

\* Either nothing was written since the pair was armed and its action is still
\* in effect, or everything was let go: then the action is another one, unless it
\* was nothing and an apply over it was refused.
Effect ==
    eligible => \/ "written" \notin stirred /\ current = pair.action
                \/ /\ current = Released
                   /\ pair.action = Released => "refused" \in stirred

\* A window that writes nothing carries the pair on as it is.
LEMMA CarryEffect ==
    ASSUME Effect, NEW w \in Scenes, Carry(w, {}), current' = current
    PROVE  Effect'
<1>1. CASE Holding(w)
    <2>1. eligible /\ pair'.action = pair.action /\ stirred' = Over(w)
        BY <1>1 DEF Carry, Holding
    <2>2. /\ ("written" \in Over(w)) <=> ("written" \in stirred)
          /\ ("refused" \in Over(w)) <=> ("refused" \in stirred)
        BY DEF Over
    <2>3. QED
        BY <2>1, <2>2 DEF Effect
<1>2. CASE ~Holding(w)
    BY <1>2 DEF Carry, Effect, Holding
<1>3. QED
    BY <1>1, <1>2

\* The pair's record stays one.
LEMMA PairAction ==
    ASSUME TypeOK, NEW w \in Scenes
    PROVE  [pair EXCEPT !.seconds = PairSeconds(w)].action = pair.action
BY DEF TypeOK

\* A release ends the pair or arms a passive one under nothing.
LEMMA ReleaseEffect ==
    ASSUME Knowledge, Effect, NEW w \in Scenes, WindowRelease(w)
    PROVE  Effect'
<1>1. current' = Released
    BY DEF WindowRelease
<1>2. CASE Arm(w, Released, TRUE)
    BY <1>1, <1>2 DEF Arm, Effect
<1>3. CASE Carry(w, IF held' # held THEN {"written"} ELSE {}) /\ Holding(w)
    <2>1. eligible /\ moved = {}
        BY <1>3 DEF Holding, CanLearn, Verified
    <2>2. current = Released => held' = held
        <3> SUFFICES ASSUME current = Released PROVE held' = held
            OBVIOUS
        <3>1. sunk = {}
            BY DEF Knowledge, TypeOK, SunkInUse, Released
        <3>2. \A a \in Axis : held[a] = baseline[a]
            BY <2>1, <3>1, OnTopReleased DEF Knowledge, HeldMatches
        <3>3. held = [a \in Axis |-> baseline[a]]
            BY <3>2 DEF Knowledge, TypeOK, Action
        <3>4. held' = [a \in Axis |-> baseline[a]]
            BY DEF WindowRelease, Handback, Hold
        <3>5. QED
            BY <3>3, <3>4
    <2>3. pair'.action = pair.action
          /\ stirred' = Over(w) \cup IF held' # held THEN {"written"} ELSE {}
        BY <1>3, PairAction DEF Carry, Knowledge
    <2>4. /\ ("written" \in Over(w)) <=> ("written" \in stirred)
          /\ ("refused" \in Over(w)) <=> ("refused" \in stirred)
        BY DEF Over
    <2>5. QED
        BY <1>1, <2>1, <2>2, <2>3, <2>4 DEF Effect
<1>4. CASE Carry(w, IF held' # held THEN {"written"} ELSE {}) /\ ~Holding(w)
    <2>1. eligible' = FALSE
        BY <1>4 DEF Carry, Holding
    <2>2. QED
        BY <2>1 DEF Effect
<1>5. QED
    BY <1>2, <1>3, <1>4 DEF WindowRelease

\* A refused apply lets everything go, and says so.
LEMMA RejectEffect ==
    ASSUME NEW w \in Scenes, WindowReject(w)
    PROVE  Effect'
BY DEF WindowReject, Carry, Effect

\* An apply arms its pair under the action it has just put in effect.
LEMMA ApplyEffect ==
    ASSUME NEW w \in Scenes, WindowApply(w)
    PROVE  Effect'
<1>1. PICK next \in Chosen(w) :
          /\ current' = next
          /\ IF next \in Candidates(current, w)
             THEN Arm(w, next, FALSE)
             ELSE eligible' = FALSE /\ pair' = NoPair /\ stirred' = {}
    BY DEF WindowApply
<1>2. QED
    BY <1>1 DEF Arm, Effect

\* A window teaches the policy only over a pair the engine did not write in, or that
\* was armed under nothing when an apply was refused.
LEMMA LessonUndisturbed ==
    ASSUME Effect, NEW w \in Scenes, Credit(w)
    PROVE  CreditUndisturbed'
<1>1. CASE Taught(w) = "policy"
    <2>1. eligible /\ current = pair.action
        BY <1>1 DEF Taught
    <2>2. "written" \in Over(w) => pair.action = Released /\ "refused" \in Over(w)
        BY <2>1 DEF Effect, Over
    <2>3. lesson' = [kind |-> "policy", over |-> Over(w), action |-> pair.action]
        BY <1>1 DEF Credit
    <2>4. QED
        BY <2>2, <2>3 DEF CreditUndisturbed
<1>2. CASE Taught(w) # "policy"
    BY <1>2 DEF Credit, CreditUndisturbed, NoLesson
<1>3. QED
    BY <1>1, <1>2

\* Where restores succeed and the surface is fixed, the policy learns only from
\* pairs in which the engine wrote nothing, whatever the foreground, the lock, other
\* writers and refused or altered writes do meanwhile; the one exception is a pair
\* armed under nothing that outlives a refused apply.
THEOREM PolicyUndisturbed ==
    ASSUME NeverStuck, OneSurface
    PROVE  Spec => []CreditUndisturbed
<1>1. Init => Effect /\ CreditUndisturbed
    BY DEF Init, Effect, CreditUndisturbed, NoLesson
<1>2. ASSUME Knowledge, Effect, CreditUndisturbed, [Next]_vars
      PROVE  (Effect /\ CreditUndisturbed)'
    <2>1. ASSUME NEW w \in Scenes, Window(w) PROVE (Effect /\ CreditUndisturbed)'
        <3>1. Credit(w)
            BY <2>1 DEF Window, WindowPutOff, WindowStuck, WindowRelease, WindowApply,
                        WindowReject, WindowLocked, WindowSettle
        <3>2. CASE WindowPutOff(w) \/ WindowLocked(w)
            BY <1>2, <3>1, <3>2, CarryEffect, LessonUndisturbed DEF WindowPutOff, WindowLocked
        <3>3. CASE WindowSettle(w)
            BY <1>2, <3>1, <3>3, CarryEffect, LessonUndisturbed DEF WindowSettle, Arm, Effect
        <3>4. ~WindowStuck(w)
            BY DEF WindowStuck, NeverStuck
        <3>5. QED
            BY <1>2, <2>1, <3>1, <3>2, <3>3, <3>4, ReleaseEffect, ApplyEffect, RejectEffect,
               LessonUndisturbed
            DEF Window
    <2>2. CASE Foreign
        BY <1>2, <2>2 DEF Foreign, Effect, CreditUndisturbed, loopVars, pairVars
    <2>3. CASE UNCHANGED vars
        BY <1>2, <2>3 DEF Effect, CreditUndisturbed, vars, loopVars, pairVars, ghostVars
    <2>4. QED
        BY <1>2, <2>1, <2>2, <2>3 DEF Next
<1>3. Knowledge /\ [Next]_vars => Knowledge'
    BY NextKnows
<1>4. QED
    BY <1>1, <1>2, <1>3, InitKnows, PTL DEF Spec
-----------------------------------------------------------------------------
(* What the loop notes when it arms a pair.                                 *)

\* A pair that no window has closed over yet is armed under the action believed
\* in effect.
Noted == eligible /\ pair.seconds = 0 => current = pair.action

\* A window takes time: a pair that goes on is no longer fresh.
LEMMA CarryNoted ==
    ASSUME TypeOK, NEW w \in Scenes, NEW events, Carry(w, events)
    PROVE  Noted'
<1>1. CASE Holding(w)
    <2>1. pair' = [pair EXCEPT !.seconds = PairSeconds(w)]
        BY <1>1 DEF Carry
    <2>2. pair'.seconds = PairSeconds(w)
        BY <2>1 DEF TypeOK
    <2>3. w.span \in Nat \ {0} /\ w.slept \in Nat
        BY LoopAssumption DEF Scene
    <2>4. pair.seconds \in Nat
        BY DEF TypeOK, PairMax
    <2>5. PairSeconds(w) # 0
        BY <2>3, <2>4 DEF PairSeconds, Elapsed, PairMax
    <2>6. QED
        BY <2>2, <2>5 DEF Noted
<1>2. CASE ~Holding(w)
    <2>1. eligible' = FALSE
        BY <1>2 DEF Carry, Holding
    <2>2. QED
        BY <2>1 DEF Noted
<1>3. QED
    BY <1>1, <1>2

\* A pair is armed under what the window leaves in effect.
LEMMA ArmNoted ==
    ASSUME NEW w, NEW passive, Arm(w, current', passive)
    PROVE  Noted'
BY DEF Arm, Noted

\* No step notes another action than the one believed in effect.
LEMMA NextNoted ==
    ASSUME TypeOK, Noted, [Next]_vars
    PROVE  Noted'
<1>1. ASSUME NEW w \in Scenes, Window(w) PROVE Noted'
    <2>1. CASE WindowPutOff(w) \/ WindowLocked(w)
        BY <2>1, CarryNoted DEF WindowPutOff, WindowLocked
    <2>2. CASE WindowSettle(w)
        BY <2>2, CarryNoted, ArmNoted DEF WindowSettle
    <2>3. CASE WindowRelease(w)
        BY <2>3, CarryNoted, ArmNoted DEF WindowRelease
    <2>4. CASE WindowReject(w)
        BY <2>4, CarryNoted DEF WindowReject
    <2>5. CASE WindowStuck(w)
        BY <2>5, CarryNoted DEF WindowStuck
    <2>6. CASE WindowApply(w)
        <3>1. PICK next \in Chosen(w) :
                  /\ current' = next
                  /\ IF next \in Candidates(current, w)
                     THEN Arm(w, next, FALSE)
                     ELSE eligible' = FALSE /\ pair' = NoPair /\ stirred' = {}
            BY <2>6 DEF WindowApply
        <3>2. QED
            BY <3>1, ArmNoted DEF Noted
    <2>7. QED
        BY <1>1, <2>1, <2>2, <2>3, <2>4, <2>5, <2>6 DEF Window
<1>2. CASE Foreign
    BY <1>2 DEF Foreign, Noted, loopVars, pairVars
<1>3. CASE UNCHANGED vars
    BY <1>3 DEF Noted, vars, loopVars, pairVars
<1>4. QED
    BY <1>1, <1>2, <1>3 DEF Next

\* Where restores succeed and the surface is fixed, the comment on armedAction is
\* true of what the engine put over the baseline: through refused and altered
\* writes, busy locks and other writers, a pair is armed under what is held there.
\* A floor that a failed write strands is under it, with whatever else others set.
THEOREM ArmedUnderEffect ==
    ASSUME NeverStuck, OneSurface
    PROVE  Spec => []ArmedInEffect
<1>1. Init => Noted
    BY DEF Init, Noted
<1>2. Knowledge /\ Noted /\ [Next]_vars => (Knowledge /\ Noted)'
    BY NextKnows, NextNoted DEF Knowledge
<1>3. Knowledge /\ Noted => ArmedInEffect
    BY DEF Knowledge, HeldMatches, Noted, ArmedInEffect
<1>4. QED
    BY <1>1, <1>2, <1>3, InitKnows, PTL DEF Spec
=============================================================================
