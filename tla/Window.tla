-------------------------------- MODULE Window --------------------------------
(***************************************************************************)
(* The daemon's polling loop and Sampler::read: when a window closes, and  *)
(* whose frames and whose run-queue delays it reports, while the user      *)
(* changes app, the screen goes off and the phone sleeps. Time is in half  *)
(* seconds; ages are kept, not dates. What is measured is left out: of the *)
(* frames their number in four bands and the app that drew them, of the    *)
(* delays the app whose threads were watched.                              *)
(***************************************************************************)
EXTENDS Naturals, FiniteSetsExt

CONSTANTS
    Apps,    \* apps
    Nobody,  \* no app: the screen is off, or the dump names none
    Polls,   \* how long one turn of the loop may take
    Sleeps   \* how long the phone may sleep within one, 0 for not at all

ASSUME WindowBounds ==
    Nobody \notin Apps /\ Polls \subseteq Nat \ {0} /\ Sleeps \subseteq Nat

WindowFloor == 9
WindowNominal == 12
WindowCeiling == 24
RefreshAfter == 12
WatchAfter == 12

\* Bands of the frame count: 0 below MinimumFrames, 1 below WindowFrames, 2 enough.
Bands == 0..2

VARIABLES
    user,    \* the app on the screen
    span,    \* since the window opened, on the clock that stops in sleep
    slept,   \* the phone has slept since it opened
    context, \* since contextAt, on the clock that counts sleep too
    watch,   \* since watchedAt, likewise
    app,     \* Sampler::app
    layer,   \* the app that owns Sampler::layer
    frames,  \* the tracker: band, and the apps that drew them
    threads, \* the app whose threads are in the probe's watch list
    queue,   \* the apps whose delays its accumulator holds
    closed,  \* of the last window closed: its app, the apps that drew its frames,
             \* and whether it and the one before it are as far apart as a pair is
    misread  \* ghost: windows in a row, app unchanged, that measured only another's threads

windowVars ==
    <<user, span, slept, context, watch, app, layer, frames, threads, queue, closed, misread>>

\* sound(): how far apart the two windows of a pair may be.
PairGate == 8..60

NoFrames == [band |-> 0, drew |-> {}]

\* contextAt, watchedAt and the last close are zero: long ago.
WindowInit ==
    /\ user \in Apps \cup {Nobody}
    /\ span = 0 /\ slept = FALSE /\ context = RefreshAfter /\ watch = WatchAfter
    /\ app = Nobody /\ layer = Nobody /\ frames = NoFrames
    /\ threads = Nobody /\ queue = {} /\ misread = 0
    /\ closed = [app |-> Nobody, drew |-> {}, paired |-> TRUE]

-----------------------------------------------------------------------------

\* MUTANT of windowComplete: the evidence is asked before the floor.
windowCompleteEager(s, band) == s >= WindowCeiling \/ band = 2 \/ (s >= WindowNominal /\ band = 0)

windowComplete(s, band) ==
    \/ s >= WindowCeiling
    \/ s >= WindowFloor /\ (band = 2 \/ (s >= WindowNominal /\ band = 0))

Republish(age) == age >= WatchAfter

\* MUTANT of WatchAge: watchedAt is stamped on every refresh.
WatchAgeStamped(age) == 0

WatchAge(age) == IF Republish(age) THEN 0 ELSE age

\* MUTANT of Tracked: a new app or layer keeps the tracker's frames.
TrackedStill(kept, changed) == kept

\* FrameTracker::reset
Tracked(kept, changed) == IF changed THEN NoFrames ELSE kept

\* What foreground() can name: the app on the screen, or nothing.
Named == IF user = Nobody THEN {Nobody} ELSE {user, Nobody}

\* The second half of Sampler::read on a refresh: the foreground, its layer,
\* and the watch list when it is old enough.
Refresh(kept, age) ==
    \E next \in Named : \E drawn \in {next, Nobody} :
        /\ app' = next /\ layer' = drawn
        /\ frames' = Tracked(kept, next # app \/ drawn # layer)
        /\ context' = 0
        /\ watch' = WatchAge(age)
        /\ threads' = IF Republish(age) THEN next ELSE threads

\* One turn of the loop: d long, asleep for another z.
Poll(d, z) ==
    LET open    == span + d
        end     == windowComplete(open, frames.band)
        refresh == end \/ context + d + z >= RefreshAfter
        lit     == app # Nobody /\ (refresh => user # Nobody)
        aged    == Min({watch + d + z, WatchAfter})
        drew    == IF lit /\ layer # Nobody THEN frames.drew \cup {layer} ELSE frames.drew
    IN  \E band \in Bands : \E ran \in BOOLEAN :
        LET seen  == [band |-> band, drew |-> drew]
            delay == IF ran THEN queue \cup {threads} ELSE queue
        IN  /\ band = frames.band \/ (band > frames.band /\ lit /\ layer # Nobody)
            /\ ran => threads # Nobody
            /\ span' = IF end THEN 0 ELSE open
            /\ slept' = (~end /\ (slept \/ z > 0))
            /\ IF end
               THEN /\ closed' = [app |-> app, drew |-> seen.drew,
                                  paired |-> slept \/ z > 0 \/ open \in PairGate]
                    /\ queue' = {}
               ELSE UNCHANGED closed /\ queue' = delay
            /\ IF refresh THEN Refresh(IF end THEN NoFrames ELSE seen, aged)
               ELSE /\ frames' = seen /\ watch' = aged
                    /\ context' = context + d + z
                    /\ UNCHANGED <<app, layer, threads>>
            /\ misread' = IF app' # app THEN 0
                          ELSE IF ~end THEN misread
                          ELSE IF app # Nobody /\ delay # {} /\ app \notin delay THEN misread + 1
                          ELSE 0
            /\ UNCHANGED user

\* The user opens another app, or the screen goes off.
Turn ==
    /\ user' \in (Apps \cup {Nobody}) \ {user}
    /\ UNCHANGED <<span, slept, context, watch, app, layer, frames, threads, queue, closed, misread>>

WindowNext == Turn \/ \E d \in Polls : \E z \in Sleeps : Poll(d, z)

WindowSpec == WindowInit /\ [][WindowNext]_windowVars

-----------------------------------------------------------------------------
(* Properties *)

\* "Close the window against the app whose layer actually produced these
\* frames": whatever the user does meanwhile, the frames a window reports were
\* drawn by the app it reports.
FramesOfApp == closed.drew \subseteq {closed.app}

\* "Both bounds are set by sound()'s pair gate": two windows closed in a row,
\* the phone awake, are a pair the gate takes (4 s to 30 s).
PairsInGate == closed.paired

\* The watch list lags the foreground, but not for long: however the user moves,
\* an app's windows do not go on being credited with another's run-queue delays.
QueueCatchesUp == misread <= 2

=============================================================================
