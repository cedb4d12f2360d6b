----------------------------- MODULE ControlLoop -----------------------------
(***************************************************************************)
(* The window loop of main() (module/engine/main.cpp): what the daemon does *)
(* each time a measurement window closes.  It credits the pair of windows   *)
(* that ends here, releases every floor when it may not control the device, *)
(* or applies the action the search accepted, and arms the next pair.       *)
(*                                                                         *)
(* A window is summed up by the tests the loop makes on it (a Scene).  The  *)
(* actuator is seen from outside: the level of each axis the hardware is    *)
(* held at, the axes that no longer show what was written last, and what    *)
(* each shows without a journal entry.  Module Actuator models its inside.  *)
(* Learning itself (critic, prior, model) is left out: the loop decides     *)
(* only which pairs teach them.                                             *)
(***************************************************************************)
EXTENDS Refusals, FiniteSets

CONSTANTS
    Session,    \* what the foreground may be: app, configuration, conflict
    App,        \* session -> app
    Conflicted, \* sessions during which a conflicting tuner runs
    Top,        \* axis -> strongest level (4; 2 for PELT)
    Scenes,     \* the windows the environment offers
    Faults,     \* what may go wrong, see Fault
    None        \* no session yet

\* busy: .apply_lock is held, or the configuration changed under the search.
\* foreign: other writers move a held axis.  reject: a write of an apply is
\* refused, or the journal not saved before it.  stuck: the kernel refuses what
\* a restore returns, or the journal is not saved after it.  alter: it stores
\* another value than the one written.
Fault == {"busy", "foreign", "reject", "stuck", "alter"}

MaxLevel == 4               \* Levels - 1
Level == 0 .. MaxLevel
Action == [Axis -> Level]
Released == [a \in Axis |-> 0]

Settle == 18                \* seconds without a change before a search
Calm == 6                   \* ... before a window may open a pair
PairMin == 4
PairMax == 30

Scene == [session : Session,
          heat : {"cool", "warm", "hot", "blind"},
                            \* below the hysteresis, in it, at a limit, no sensor
          near : BOOLEAN,   \* die within 3 C of its limit, or charge below 20 %
          ready : BOOLEAN,  \* awake, load known, charge at least 10 %
          frames : BOOLEAN, \* a frame channel exists
          bench : BOOLEAN,  \* a benchmark runs
          mode : {"learn", "frozen", "observe"},
          usable : BOOLEAN, \* measurable(s)
          steady : BOOLEAN, \* charge path and cadence as at the pair's start
          trim : BOOLEAN,   \* the periodic trim is due, apart from the conditions below
          open : SUBSET Axis,   \* axes the device has and the configuration leaves to us
          span : Nat \ {0}, \* seconds the window was open
          slept : Nat]      \* seconds of suspend before it closed

ASSUME LoopAssumption ==
    /\ DOMAIN App = Session
    /\ Conflicted \subseteq Session
    /\ Top \in [Axis -> Level]
    /\ Scenes \subseteq Scene
    /\ Faults \subseteq Fault
    /\ None \notin Session

VARIABLES
    session,    \* the identity of the last window that was not put off
    current,    \* the action the loop believes in effect
    age,        \* seconds since changedAt, up to Settle
    cooling,    \* the thermal hysteresis
    ceiling,    \* allowance.ceiling()
    refusals,   \* refusalState
    trimmed,    \* a trim is armed (TrimGate::armed)
    eligible,   \* a pair is armed
    pair,       \* that pair: action in effect, session, passive, seconds since
    reason,     \* what the window did
    held,       \* axis -> level at which the hardware is held for the engine
    owned,      \* axes with a journal entry
    moved,      \* owned axes that show another value than the engine wrote last
    baseline,   \* axis -> level it shows, or falls back to, without a journal entry:
                \* the system's, another writer's, or one a failed write left behind
    sunk,       \* ghost: axes without an entry that fell below what is believed
    stirred,    \* ghost: what happened since the pair was armed
    lesson,     \* ghost: what the last pair taught, over what, under which action
    still,      \* ghost: seconds since anybody changed a held axis, up to Settle
    rested      \* ghost: `still` when the engine last raised an axis

loopVars == <<session, current, age, cooling, ceiling, refusals, trimmed, reason>>
pairVars == <<eligible, pair>>
hwVars == <<held, owned, moved, baseline>>
ghostVars == <<stirred, lesson, still, rested, sunk>>
vars == <<loopVars, pairVars, hwVars, ghostVars>>

Disturbance == {"switch", "suspend", "trim", "moved", "written", "refused"}
NoPair == [action |-> Released, session |-> None, passive |-> FALSE, seconds |-> 0]
NoLesson == [kind |-> "none", over |-> {}, action |-> Released]

Init ==
    /\ session = None /\ current = Released /\ age = Settle
    /\ cooling = FALSE /\ ceiling = MaxLevel /\ refusals = NoRefusals
    /\ trimmed = FALSE /\ eligible = FALSE /\ pair = NoPair /\ reason = "warming_up"
    /\ baseline \in {b \in Action : \A a \in Axis : b[a] <= Top[a]}
    /\ held = baseline /\ owned = {} /\ moved = {} /\ sunk = {}
    /\ stirred = {} /\ lesson = NoLesson /\ still = Settle /\ rested = Settle
-----------------------------------------------------------------------------
(* What a closing window w tells the loop, in the order it asks.           *)

Transition(w) == w.session # session
Conflict(w) == w.session \in Conflicted
Aged(w) == Elapsed(age, w.span, Settle)
PairSeconds(w) == Elapsed(pair.seconds, w.span + w.slept, PairMax + 1)

\* Hot sets the hysteresis, cool clears it; between the limits it stays.
Cooling(w) == IF w.heat = "hot" THEN TRUE ELSE IF w.heat = "cool" THEN FALSE ELSE cooling

SafeNow(w) == ~Cooling(w) /\ w.ready /\ w.heat \notin {"hot", "blind"}

\* Actuator::verified(): nobody moved a node the engine owns.
Verified == moved = {}

CanLearn(w) == w.mode = "learn" /\ Verified /\ ~w.bench /\ ~Conflict(w) /\ w.usable
CanControl(w) == SafeNow(w) /\ w.frames /\ ~Conflict(w) /\ ~w.bench /\ w.mode # "observe"

\* backupable(before, s): both windows sound, 4 to 30 seconds apart.
Backupable(w) == w.steady /\ PairMin <= PairSeconds(w) /\ PairSeconds(w) <= PairMax

\* Levels the allowance may stand at after the window.  It moves by less than
\* one level in a window, down only while an effort heats the device; a sleep
\* refills it.
Allowances(w) ==
    {c \in Level : /\ c >= ceiling - (IF current = Released THEN 0 ELSE 1)
                   /\ c <= ceiling + (IF w.slept > 0 THEN MaxLevel ELSE 1)}

\* decayRefusals() and the clock.
Refused(w) == DecayRefusals(Elapse(refusals, w.span))

\* withTransient(constrain()): axes the search and the actuator may use.
Allowed(w) == {a \in w.open : AxisAvailable(Refused(w), a)}

\* The sensing part common to every window.
Sense(w) ==
    /\ cooling' = Cooling(w)
    /\ ceiling' \in Allowances(w)
    /\ trimmed' \in {FALSE, /\ w.trim /\ w.mode # "observe" /\ ~w.bench
                            /\ ~Transition(w) /\ w.ready /\ w.frames}
-----------------------------------------------------------------------------
(* Credit of the pair that ends with window w.                             *)

\* What happened between the pair's two measurements.
Over(w) == stirred \cup (IF w.session # pair.session THEN {"switch"} ELSE {})
                   \cup (IF w.slept > 0 THEN {"suspend"} ELSE {})
                   \cup (IF trimmed THEN {"trim"} ELSE {})

\* MUTANT of Taught: a trim inside the pair is not looked at.
TaughtOverTrim(w) ==
    IF ~eligible \/ ~CanLearn(w) \/ w.slept > 0 \/ ~Backupable(w)
    THEN "none"
    ELSE IF ~pair.passive /\ current = pair.action /\ ~Transition(w)
            /\ App[pair.session] = App[w.session]
    THEN "policy"
    ELSE "value"

\* MUTANT of Taught: the action the pair was armed under is not compared.
TaughtAnyAction(w) ==
    IF ~eligible \/ ~CanLearn(w) \/ w.slept > 0 \/ trimmed \/ ~Backupable(w)
    THEN "none"
    ELSE IF ~pair.passive /\ ~Transition(w) /\ App[pair.session] = App[w.session]
    THEN "policy"
    ELSE "value"

\* Which parts of the brain learn from the pair.  Every sound pair without a
\* suspend or a trim is a value backup; policy and model learn only from an
\* action chosen, still in effect, within one app.
Taught(w) ==
    IF ~eligible \/ ~CanLearn(w) \/ w.slept > 0 \/ trimmed \/ ~Backupable(w)
    THEN "none"
    ELSE IF ~pair.passive /\ current = pair.action /\ ~Transition(w)
            /\ App[pair.session] = App[w.session]
    THEN "policy"
    ELSE "value"

\* "holding": the pair outlives a window it cannot be credited with.
Holding(w) ==
    /\ eligible /\ CanLearn(w) /\ w.slept = 0 /\ ~trimmed
    /\ ~Backupable(w) /\ PairSeconds(w) <= PairMax

Credit(w) ==
    lesson' = IF Taught(w) = "none" THEN NoLesson
              ELSE [kind |-> Taught(w), over |-> Over(w), action |-> pair.action]

\* The pair goes on to the next window, or it is over.  `events` is what this
\* window did to the hardware.
Carry(w, events) ==
    /\ eligible' = Holding(w)
    /\ pair' = IF Holding(w) THEN [pair EXCEPT !.seconds = PairSeconds(w)] ELSE NoPair
    /\ stirred' = IF Holding(w) THEN Over(w) \cup events ELSE {}

\* A new pair opens with window w as its first measurement.
Arm(w, action, passive) ==
    /\ eligible' = TRUE
    /\ pair' = [action |-> action, session |-> w.session, passive |-> passive, seconds |-> 0]
    /\ stirred' = {}

\* What an axis shows when the engine asks for a level: floors are only raised.
OnTop(levels) == [a \in Axis |-> IF levels[a] > baseline[a] THEN levels[a] ELSE baseline[a]]

\* The engine's writes change what the hardware is held at.  To take up again
\* what a baseline fell below is no new demand.
Hold(levels, w) ==
    /\ held' = levels
    /\ still' = IF \E a \in Axis : levels[a] \notin {held[a], OnTop(current)[a]}
                THEN 0 ELSE Elapsed(still, w.span, Settle)
    /\ rested' = IF \E a \in Axis : levels[a] > held[a] /\ levels[a] > OnTop(current)[a]
                 THEN Elapsed(still, w.span, Settle) ELSE rested

\* Entries a restore may fail to hand back, and which of those the kernel may have
\* changed in the attempt.
Keepable(entries) == {k \in SUBSET entries : k # {} => "stuck" \in Faults}
Alterable(kept) == {b \in SUBSET kept : b # {} => "alter" \in Faults}

\* restore(): the axes of `kept` stay at `levels`, the others go back to `under`.
\* The next restore takes an altered value for another writer's and leaves it.
Handback(levels, under, kept, altered, w) ==
    /\ Hold([a \in Axis |-> IF a \in kept THEN levels[a] ELSE under[a]], w)
    /\ baseline' = [a \in Axis |-> IF a \in altered THEN levels[a] ELSE under[a]]
    /\ owned' = kept /\ moved' = altered /\ sunk' = {}
-----------------------------------------------------------------------------
(* Windows in which the loop must let go: the foreground changed, it may    *)
(* not control the device, or another writer moved a node.                  *)

\* MUTANT of MustRelease: losing the permission to control releases nothing.
ReleaseOnSwitch(w) == Transition(w) \/ ~Verified

MustRelease(w) == Transition(w) \/ ~CanControl(w) \/ ~Verified

\* MUTANT of WindowPutOff: the action is forgotten although nothing was released.
PutOffForgetting(w) ==
    /\ MustRelease(w) /\ "busy" \in Faults
    /\ Sense(w) /\ Credit(w) /\ Carry(w, {}) /\ Hold(held, w)
    /\ refusals' = Refused(w) /\ age' = Aged(w) /\ reason' = "apply_busy"
    /\ current' = Released
    /\ UNCHANGED <<session, owned, moved, baseline, sunk>>

\* The lock is busy: the loop goes on to the next window, `session` kept.
WindowPutOff(w) ==
    /\ MustRelease(w) /\ "busy" \in Faults
    /\ Sense(w) /\ Credit(w) /\ Carry(w, {}) /\ Hold(held, w)
    /\ refusals' = Refused(w) /\ age' = Aged(w) /\ reason' = "apply_busy"
    /\ UNCHANGED <<session, current, owned, moved, baseline, sunk>>

\* restore() returned false: some axes stay held; what others moved is theirs.
WindowStuck(w) ==
    /\ MustRelease(w) /\ "stuck" \in Faults
    /\ \E kept \in Keepable(owned \ moved) : \E altered \in Alterable(kept) :
          /\ Handback(held, baseline, kept, altered, w)
          /\ Carry(w, IF held' # held \/ altered # {} THEN {"written"} ELSE {})
    /\ Sense(w) /\ Credit(w)
    /\ refusals' = Refused(w) /\ age' = Aged(w) /\ reason' = "restore_pending"
    /\ UNCHANGED <<session, current>>

\* Seconds since the last change, after a release: it is one itself if the
\* foreground changed, an action was in effect or a node had been moved.
ReleasedAge(w) ==
    IF Transition(w) \/ current # Released \/ ~Verified THEN 0 ELSE Aged(w)

\* restore() returned true.  A calm window may still open a passive pair: the
\* device is measured while the engine has nothing in effect.
WindowRelease(w) ==
    /\ MustRelease(w)
    /\ Sense(w) /\ Credit(w) /\ Handback(held, baseline, {}, {}, w)
    /\ IF CanLearn(w) /\ ~Holding(w) /\ ~Transition(w) /\ ReleasedAge(w) >= Calm
       THEN Arm(w, Released, TRUE)
       ELSE Carry(w, IF held' # held THEN {"written"} ELSE {})
    /\ session' = w.session /\ current' = Released
    /\ refusals' = Refused(w) /\ age' = ReleasedAge(w) /\ reason' = "standby"
-----------------------------------------------------------------------------
(* Windows in which the loop controls the device.                          *)

\* safe(): the strongest level of each axis under the allowance and the heat.
Limit(w, a) ==
    LET max == IF w.near /\ ceiling' > 1 THEN 1 ELSE ceiling'
    IN  IF max < Top[a] THEN max ELSE Top[a]

Safe(action, w) ==
    [a \in Axis |-> IF a \notin Allowed(w) THEN 0
                    ELSE IF action[a] > Limit(w, a) THEN Limit(w, a) ELSE action[a]]

\* candidates(): stay, one level up or down on one axis, release.
Candidates(action, w) ==
    LET stay == Safe(action, w)
        up(a) == [stay EXCEPT ![a] = IF @ < MaxLevel THEN @ + 1 ELSE @]
        down(a) == [stay EXCEPT ![a] = IF @ > 0 THEN @ - 1 ELSE @]
    IN  {stay, Released} \cup {Safe(up(a), w) : a \in Axis} \cup {down(a) : a \in Axis}

\* planner.search() proposes a candidate; accept() takes it or keeps `current`.
Chosen(w) == {current} \cup Candidates(current, w)

\* Actuator::apply(): an axis that is not allowed is left as it is; one with an
\* entry keeps it, at the lowest level too.
Applied(next, w) == [a \in Axis |-> IF a \in Allowed(w) THEN OnTop(next)[a] ELSE held[a]]

Entered(next, written) == owned \cup {a \in written : next[a] > baseline[a]}

\* MUTANT of MaySearch: the settling time is not waited for.
SearchUnsettled(w) == ~MustRelease(w) /\ Aged(w) >= Calm

MaySearch(w) == ~MustRelease(w) /\ Aged(w) >= Settle

\* apply() returned true: a pair opens, unless the move is none the search knows.
WindowApply(w) ==
    /\ MaySearch(w)
    /\ Sense(w) /\ Credit(w)
    /\ \E next \in Chosen(w) :
          /\ Hold(Applied(next, w), w)
          /\ owned' = Entered(next, Allowed(w))
          /\ current' = next
          /\ age' = IF next # current THEN 0 ELSE Aged(w)
          /\ IF next \in Candidates(current, w)
             THEN Arm(w, next, FALSE)
             ELSE eligible' = FALSE /\ pair' = NoPair /\ stirred' = {}
    /\ refusals' = Refused(w) /\ reason' = "mcts"
    /\ sunk' = sunk \ Allowed(w)
    /\ UNCHANGED <<session, moved, baseline>>

\* What an axis is left at by the write that failed.  A refused rewrite of an owned
\* axis has moved its entry on already, an altered value matches no entry: restore()
\* takes either for another writer's, drops the entry and leaves the value.
LeftBy(next, a) ==
    {baseline[a], held[a]}
    \cup {l \in 0 .. Top[a] : "alter" \in Faults /\ (a \in owned \/ next[a] > baseline[a])}

\* apply() returned false and blamed an axis: everything is handed back.
WindowReject(w) ==
    /\ MaySearch(w) /\ "reject" \in Faults
    /\ Sense(w) /\ Credit(w) /\ Carry(w, {"written", "refused"})
    /\ \E next \in Chosen(w), blamed \in Allowed(w) :
       \E written \in SUBSET (Allowed(w) \ {blamed}), level \in LeftBy(next, blamed) :
          LET midway == [a \in Axis |-> IF a \in written THEN OnTop(next)[a] ELSE held[a]]
              under == [baseline EXCEPT ![blamed] = level]
          IN  \E kept \in Keepable(Entered(next, written) \ {blamed}) :
              \E altered \in Alterable(kept) :
                /\ Handback(midway, under, kept, altered, w)
                /\ refusals' = AxisRejected(Refused(w), blamed)
                /\ \/ kept = {} /\ reason' = "write_rejected"
                   \/ "stuck" \in Faults /\ reason' = "restore_pending"
    /\ current' = Released /\ age' = 0
    /\ UNCHANGED session

\* The lock is busy, or the configuration changed while the search ran.
WindowLocked(w) ==
    /\ MaySearch(w) /\ "busy" \in Faults
    /\ Sense(w) /\ Credit(w) /\ Carry(w, {}) /\ Hold(held, w)
    /\ refusals' = Refused(w) /\ age' = Aged(w) /\ reason' = "apply_busy"
    /\ UNCHANGED <<session, current, owned, moved, baseline, sunk>>

\* Settling: holding still is a decision too, and opens a pair.
WindowSettle(w) ==
    /\ ~MustRelease(w) /\ Aged(w) < Settle
    /\ Sense(w) /\ Credit(w) /\ Hold(held, w)
    /\ IF Aged(w) >= Calm THEN Arm(w, current, FALSE) ELSE Carry(w, {})
    /\ refusals' = Refused(w) /\ age' = Aged(w) /\ reason' = "settling"
    /\ UNCHANGED <<session, current, owned, moved, baseline, sunk>>
-----------------------------------------------------------------------------
\* Another writer moves a node.  On one the engine owns verified() sees it; one
\* without an entry just has another baseline.  (A value equal to the one the
\* entry names is left to module Actuator.)
Foreign ==
    /\ "foreign" \in Faults
    /\ \E a \in Axis : \E v \in 0 .. Top[a] :
          /\ v # held[a]
          /\ held' = [held EXCEPT ![a] = v] /\ baseline' = [baseline EXCEPT ![a] = v]
          /\ IF a \in owned
             THEN /\ moved' = moved \cup {a} /\ still' = 0 /\ sunk' = sunk
                  /\ stirred' = IF eligible THEN stirred \cup {"moved"} ELSE stirred
             ELSE /\ sunk' = IF v < current[a] THEN sunk \cup {a} ELSE sunk \ {a}
                  /\ UNCHANGED <<moved, still, stirred>>
    /\ UNCHANGED <<loopVars, pairVars, owned, lesson, rested>>

Window(w) ==
    \/ WindowPutOff(w) \/ WindowStuck(w) \/ WindowRelease(w)
    \/ WindowApply(w) \/ WindowReject(w) \/ WindowLocked(w) \/ WindowSettle(w)

Next == (\E w \in Scenes : Window(w)) \/ Foreign

Spec == Init /\ [][Next]_vars
-----------------------------------------------------------------------------
TypeOK ==
    /\ session \in Session \cup {None} /\ current \in Action
    /\ age \in 0 .. Settle /\ cooling \in BOOLEAN /\ ceiling \in Level
    /\ refusals \in RefusalState /\ trimmed \in BOOLEAN /\ eligible \in BOOLEAN
    /\ pair \in [action : Action, session : Session \cup {None}, passive : BOOLEAN,
                 seconds : 0 .. PairMax + 1]
    /\ eligible => pair.session \in Session /\ pair.seconds <= PairMax
    /\ reason \in {"warming_up", "apply_busy", "restore_pending", "standby", "mcts",
                   "write_rejected", "settling"}
    /\ held \in Action /\ baseline \in Action
    /\ owned \subseteq Axis /\ moved \subseteq owned /\ sunk \subseteq Axis
    /\ stirred \subseteq Disturbance
    /\ lesson \in [kind : {"none", "value", "policy"}, over : SUBSET Disturbance,
                   action : Action]
    /\ still \in 0 .. Settle /\ rested \in 0 .. Settle

\* Attribution.  Policy and model learn from an action only if the engine wrote
\* no node between the pair's two measurements.  What slips through is a refused
\* apply under nothing: it leaves `current` as it was when the pair was armed, and
\* the credit compares nothing else (see README, section 3).
CreditUndisturbed ==
    lesson.kind = "policy" /\ "written" \in lesson.over =>
        lesson.action = Released /\ "refused" \in lesson.over

\* A value backup may span a change of app or of action, never a suspend, a
\* trim or another writer's move of a node the engine holds.
ValueUnbroken == lesson.kind # "none" => lesson.over \cap {"suspend", "trim", "moved"} = {}

\* What the loop believes is in effect is what the hardware is held at over its
\* baseline, on every axis that shows what was written last, or that had to be
\* written at all: a baseline at or above the level leaves nothing to own, and
\* when another writer lowers it nothing tells the loop.
HeldMatches == \A a \in Axis \ (moved \cup sunk) : held[a] = OnTop(current)[a]

\* The engine raises an axis beyond what it believes in effect only over hardware
\* it owned and nobody changed for the whole settling time.
RaisedRested == rested = Settle

\* When the lock is free and the kernel takes nodes back, heat ends every boost
\* that has a journal entry: the release is retried at each window until nothing
\* is held over the baseline.  (What a failed write left behind is the baseline
\* from then on: no release finds it, see NoFloorLeaks in module Actuator.)
HeatReleases ==
    <>[][reason' \notin {"apply_busy", "restore_pending"}]_vars
        => (cooling ~> (held = baseline \/ ~cooling))

\* A refused axis is never latched off: again and again it is available, or
\* has just been tried and refused anew.
NeverLatched ==
    \A a \in Axis : []<>(AxisAvailable(refusals, a) \/ refusals[a].blocked = BackoffSec)

\* Windows keep closing.
FairSpec == Spec /\ WF_vars(\E w \in Scenes : Window(w))
-----------------------------------------------------------------------------
(* What a comment says of the loop and it does not keep.                    *)

\* "What was actually in effect when the pair was armed" (armedAction), over the
\* baseline.
ArmedInEffect ==
    eligible /\ pair.seconds = 0 =>
        \A a \in Axis \ (moved \cup sunk) : held[a] = OnTop(pair.action)[a]
=============================================================================
