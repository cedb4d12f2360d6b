------------------------- MODULE MeasurementProofs --------------------------
(****************************************************************************)
(* What the daemon measures and the files it keeps of it: the window, the  *)
(* cadence, the run queue and the generations of a history, each for any   *)
(* values of its constants.                                                *)
(****************************************************************************)
EXTENDS Window, Cadence, Runqueue, Generations, FiniteSetTheorems, TLAPS

-----------------------------------------------------------------------------
(****************************************************************************)
(* Window.                                                                 *)
(* What is in the tracker was drawn by the app the sampler names, because the *)
(* tracker is emptied when either changes. The watch list falls behind only *)
(* at the end of a window, and every window adds its floor of 4.5 s to the *)
(* list's age: after two of them it is six seconds old, whatever the polls *)
(* were, and is published again.                                           *)
(****************************************************************************)

WindowTypes ==
    /\ span \in Nat /\ slept \in BOOLEAN /\ context \in Nat /\ watch \in Nat /\ misread \in Nat
    /\ frames \in [band : Bands, drew : SUBSET (Apps \cup {Nobody})]
    /\ {user, app, layer, threads} \subseteq Apps \cup {Nobody}
    /\ queue \subseteq Apps \cup {Nobody}

\* The tracker holds frames of the app the sampler names, of no other.
FramesOwned == layer \in {app, Nobody} /\ frames.drew \subseteq {app}

\* How far the list lags: a list of another app is older than the context, and
\* than this window together with those that were misread; after the second
\* such window it is this app's, and so is what has been measured since.
ListLags ==
    /\ watch >= context \/ watch >= WatchAfter
    /\ threads # app => watch >= span + WindowFloor * misread \/ watch >= WatchAfter
    /\ misread <= 2
    /\ misread = 2 => threads = app /\ queue \subseteq {app}

\* An open window is below the ceiling: past it the poll would have closed it.
StillOpen == span < WindowCeiling

Inv == WindowTypes /\ FramesOwned /\ FramesOfApp /\ ListLags /\ StillOpen

\* What Min makes of an age: it stops growing at the threshold.
LEMMA Capped ==
    ASSUME NEW n \in Nat
    PROVE  Min({n, WatchAfter}) = IF n <= WatchAfter THEN n ELSE WatchAfter
<1> DEFINE m == IF n <= WatchAfter THEN n ELSE WatchAfter
<1>1. m \in {n, WatchAfter} /\ \A y \in {n, WatchAfter} : m <= y
  BY DEF WatchAfter
<1>2. \A x \in {n, WatchAfter} : (\A y \in {n, WatchAfter} : x <= y) => x = m
  BY DEF WatchAfter
<1> QED BY <1>1, <1>2 DEF Min

\* When the daemon starts nothing has been measured.
LEMMA InvInit == WindowInit => Inv
<1> SUFFICES ASSUME WindowInit PROVE Inv
  OBVIOUS
<1> USE DEF WindowInit, NoFrames, Bands, WatchAfter, RefreshAfter, WindowFloor
<1>1. WindowTypes
  <2>1. frames \in [band : Bands, drew : SUBSET (Apps \cup {Nobody})]
    OBVIOUS
  <2>2. {user, app, layer, threads} \subseteq Apps \cup {Nobody} /\ queue = {}
    OBVIOUS
  <2> QED BY <2>1, <2>2 DEF WindowTypes
<1>2. FramesOwned /\ FramesOfApp
  BY DEF FramesOwned, FramesOfApp
<1>3. ListLags
  BY DEF ListLags
<1>4. StillOpen
  BY DEF StillOpen, WindowCeiling
<1> QED BY <1>1, <1>2, <1>3, <1>4 DEF Inv

\* What a refresh leaves: the foreground, its layer, the watch list if it is old.
LEMMA RefreshDone ==
    ASSUME Inv, NEW kept \in [band : Bands, drew : SUBSET (Apps \cup {Nobody})],
           NEW age \in Nat, Refresh(kept, age)
    PROVE  /\ app' \in Apps \cup {Nobody} /\ layer' \in {app', Nobody} /\ context' = 0
           /\ frames' = NoFrames \/ (frames' = kept /\ app' = app)
           /\ IF age >= WatchAfter THEN watch' = 0 /\ threads' = app'
              ELSE watch' = age /\ threads' = threads
<1>1. PICK next \in Named : \E drawn \in {next, Nobody} :
        /\ app' = next /\ layer' = drawn
        /\ frames' = Tracked(kept, next # app \/ drawn # layer)
        /\ context' = 0
        /\ watch' = WatchAge(age)
        /\ threads' = IF Republish(age) THEN next ELSE threads
  BY DEF Refresh
<1>2. next \in Apps \cup {Nobody}
  BY DEF Named, Inv, WindowTypes
<1>3. frames' = NoFrames \/ (frames' = kept /\ app' = app)
  BY <1>1 DEF Tracked
<1>4. IF age >= WatchAfter THEN watch' = 0 /\ threads' = app'
      ELSE watch' = age /\ threads' = threads
  BY <1>1 DEF WatchAge, Republish
<1> QED BY <1>1, <1>2, <1>3, <1>4

\* What a turn of the loop does, its refresh spelled out.
LEMMA PollDone ==
    ASSUME Inv, NEW d \in Polls, NEW z \in Sleeps, Poll(d, z)
    PROVE  \E end \in BOOLEAN, aged \in Nat, delay \in SUBSET (queue \cup {threads}),
              seen \in [band : Bands, drew : SUBSET (Apps \cup {Nobody})] :
              /\ d \in Nat /\ z \in Nat
              /\ aged = (IF watch + d + z <= WatchAfter THEN watch + d + z ELSE WatchAfter)
              /\ IF end THEN span + d >= WindowFloor ELSE span + d < WindowCeiling
              /\ seen.drew \subseteq {app}
              /\ span' = (IF end THEN 0 ELSE span + d) /\ slept' \in BOOLEAN
              /\ IF end THEN /\ closed'.app = app /\ closed'.drew = seen.drew /\ queue' = {}
                              /\ closed'.paired = (slept \/ z > 0 \/ span + d \in PairGate)
                 ELSE closed' = closed /\ queue' = delay
              /\ \/ /\ end \/ context + d + z >= RefreshAfter
                    /\ Refresh(IF end THEN NoFrames ELSE seen, aged)
                 \/ /\ ~end /\ context + d + z < RefreshAfter
                    /\ frames' = seen /\ watch' = aged /\ context' = context + d + z
                    /\ UNCHANGED <<app, layer, threads>>
              /\ misread' = (IF app' # app THEN 0
                             ELSE IF ~end THEN misread
                             ELSE IF app # Nobody /\ delay # {} /\ app \notin delay
                                  THEN misread + 1 ELSE 0)
              /\ user' = user
<1> DEFINE end == windowComplete(span + d, frames.band)
           refresh == end \/ context + d + z >= RefreshAfter
           lit == app # Nobody /\ (refresh => user # Nobody)
           aged == Min({watch + d + z, WatchAfter})
           drew == IF lit /\ layer # Nobody THEN frames.drew \cup {layer} ELSE frames.drew
<1>1. /\ d \in Nat /\ z \in Nat /\ watch + d + z \in Nat /\ context \in Nat
      /\ span \in Nat /\ slept \in BOOLEAN
  BY WindowBounds DEF Inv, WindowTypes
<1>2. aged = (IF watch + d + z <= WatchAfter THEN watch + d + z ELSE WatchAfter) /\ aged \in Nat
  BY <1>1, Capped DEF WatchAfter
<1>3. PICK band \in Bands, ran \in BOOLEAN :
        LET seen == [band |-> band, drew |-> drew]
            delay == IF ran THEN queue \cup {threads} ELSE queue
        IN  /\ span' = (IF end THEN 0 ELSE span + d)
            /\ slept' = (~end /\ (slept \/ z > 0))
            /\ IF end
               THEN /\ closed' = [app |-> app, drew |-> seen.drew,
                                  paired |-> slept \/ z > 0 \/ span + d \in PairGate]
                    /\ queue' = {}
               ELSE UNCHANGED closed /\ queue' = delay
            /\ IF refresh THEN Refresh(IF end THEN NoFrames ELSE seen, aged)
               ELSE /\ frames' = seen /\ watch' = aged
                    /\ context' = context + d + z
                    /\ UNCHANGED <<app, layer, threads>>
            /\ misread' = (IF app' # app THEN 0
                          ELSE IF ~end THEN misread
                          ELSE IF app # Nobody /\ delay # {} /\ app \notin delay THEN misread + 1
                          ELSE 0)
            /\ UNCHANGED user
  BY DEF Poll
<1> DEFINE seen == [band |-> band, drew |-> drew]
           delay == IF ran THEN queue \cup {threads} ELSE queue
<1>4. drew \subseteq {app} /\ drew \subseteq Apps \cup {Nobody}
  BY DEF Inv, FramesOwned, WindowTypes
<1>5. seen \in [band : Bands, drew : SUBSET (Apps \cup {Nobody})] /\ seen.drew \subseteq {app}
  BY <1>4
<1>6. end \in BOOLEAN /\ IF end THEN span + d >= WindowFloor ELSE span + d < WindowCeiling
  BY <1>1 DEF windowComplete, WindowFloor, WindowCeiling
<1>7. delay \in SUBSET (queue \cup {threads})
  OBVIOUS
<1>8. slept' \in BOOLEAN
  BY <1>3
<1>9. IF end THEN /\ closed'.app = app /\ closed'.drew = seen.drew /\ queue' = {}
                  /\ closed'.paired = (slept \/ z > 0 \/ span + d \in PairGate)
      ELSE closed' = closed /\ queue' = delay
  <2>1. CASE end
    <3>1. /\ closed' = [app |-> app, drew |-> seen.drew,
                        paired |-> slept \/ z > 0 \/ span + d \in PairGate]
          /\ queue' = {}
      BY <1>3, <2>1
    <3> QED BY <2>1, <3>1
  <2>2. CASE ~end
    BY <1>3, <2>2
  <2> QED BY <2>1, <2>2
<1>10. \/ /\ end \/ context + d + z >= RefreshAfter
          /\ Refresh(IF end THEN NoFrames ELSE seen, aged)
       \/ /\ ~end /\ context + d + z < RefreshAfter
          /\ frames' = seen /\ watch' = aged /\ context' = context + d + z
          /\ UNCHANGED <<app, layer, threads>>
  BY <1>1, <1>3 DEF RefreshAfter
<1> HIDE DEF end, aged, seen, delay, refresh, drew, lit
<1>11. span' = (IF end THEN 0 ELSE span + d) /\ user' = user
  BY <1>3
<1>12. misread' = (IF app' # app THEN 0
                   ELSE IF ~end THEN misread
                   ELSE IF app # Nobody /\ delay # {} /\ app \notin delay THEN misread + 1
                   ELSE 0)
  BY <1>3 DEF delay
<1> QED BY <1>1, <1>2, <1>5, <1>6, <1>7, <1>8, <1>9, <1>10, <1>11, <1>12

\* One turn of the loop keeps the invariant.
LEMMA PollKeeps ==
    ASSUME Inv, NEW d \in Polls, NEW z \in Sleeps, Poll(d, z)
    PROVE  Inv'
<1>1. PICK end \in BOOLEAN, aged \in Nat, delay \in SUBSET (queue \cup {threads}),
           seen \in [band : Bands, drew : SUBSET (Apps \cup {Nobody})] :
              /\ d \in Nat /\ z \in Nat
              /\ aged = (IF watch + d + z <= WatchAfter THEN watch + d + z ELSE WatchAfter)
              /\ IF end THEN span + d >= WindowFloor ELSE span + d < WindowCeiling
              /\ seen.drew \subseteq {app}
              /\ span' = (IF end THEN 0 ELSE span + d) /\ slept' \in BOOLEAN
              /\ IF end THEN /\ closed'.app = app /\ closed'.drew = seen.drew /\ queue' = {}
                              /\ closed'.paired = (slept \/ z > 0 \/ span + d \in PairGate)
                 ELSE closed' = closed /\ queue' = delay
              /\ \/ /\ end \/ context + d + z >= RefreshAfter
                    /\ Refresh(IF end THEN NoFrames ELSE seen, aged)
                 \/ /\ ~end /\ context + d + z < RefreshAfter
                    /\ frames' = seen /\ watch' = aged /\ context' = context + d + z
                    /\ UNCHANGED <<app, layer, threads>>
              /\ misread' = (IF app' # app THEN 0
                             ELSE IF ~end THEN misread
                             ELSE IF app # Nobody /\ delay # {} /\ app \notin delay
                                  THEN misread + 1 ELSE 0)
              /\ user' = user
  BY PollDone
<1>2. WindowTypes
  BY DEF Inv
<1>3. NoFrames \in [band : Bands, drew : SUBSET (Apps \cup {Nobody})] /\ NoFrames.drew = {}
  BY DEF NoFrames, Bands
<1>4. ASSUME Refresh(IF end THEN NoFrames ELSE seen, aged)
      PROVE  /\ app' \in Apps \cup {Nobody} /\ layer' \in {app', Nobody} /\ context' = 0
             /\ \/ frames' = NoFrames
                \/ frames' = (IF end THEN NoFrames ELSE seen) /\ app' = app
             /\ IF aged >= WatchAfter THEN watch' = 0 /\ threads' = app'
                ELSE watch' = aged /\ threads' = threads
  <2> DEFINE kept == IF end THEN NoFrames ELSE seen
  <2>1. kept \in [band : Bands, drew : SUBSET (Apps \cup {Nobody})]
    BY <1>3
  <2> QED BY <1>4, <2>1, RefreshDone
<1>5. FramesOwned' /\ frames' \in [band : Bands, drew : SUBSET (Apps \cup {Nobody})]
  <2>1. CASE Refresh(IF end THEN NoFrames ELSE seen, aged)
    BY <1>1, <1>3, <1>4, <2>1 DEF FramesOwned
  <2>2. CASE ~Refresh(IF end THEN NoFrames ELSE seen, aged)
    BY <1>1, <2>2 DEF FramesOwned, Inv
  <2> QED BY <2>1, <2>2
<1>6. FramesOfApp'
  BY <1>1 DEF Inv, FramesOfApp
<1>7. WindowTypes'
  <2>1. span' \in Nat /\ misread' \in Nat
    BY <1>1, <1>2 DEF WindowTypes
  <2>2. context' \in Nat /\ watch' \in Nat
    BY <1>1, <1>2, <1>4 DEF WindowTypes
  <2>3. {user', app', layer', threads'} \subseteq Apps \cup {Nobody}
    <3>1. CASE Refresh(IF end THEN NoFrames ELSE seen, aged)
      BY <1>1, <1>2, <1>4, <3>1 DEF WindowTypes
    <3>2. CASE ~Refresh(IF end THEN NoFrames ELSE seen, aged)
      BY <1>1, <1>2, <3>2 DEF WindowTypes
    <3> QED BY <3>1, <3>2
  <2>4. queue' \subseteq Apps \cup {Nobody}
    BY <1>1, <1>2 DEF WindowTypes
  <2> QED BY <1>1, <1>5, <2>1, <2>2, <2>3, <2>4 DEF WindowTypes
<1>8. ListLags'
  <2> USE DEF WatchAfter, RefreshAfter, WindowFloor
  <2> DEFINE refreshed == /\ end \/ context + d + z >= RefreshAfter
                          /\ Refresh(IF end THEN NoFrames ELSE seen, aged)
  <2>1. CASE refreshed /\ aged >= WatchAfter
    <3>1. context' = 0 /\ watch' = 0 /\ threads' = app'
      BY <1>4, <2>1
    <3>2. misread' <= 2
      BY <1>1, <1>2 DEF Inv, ListLags, WindowTypes
    <3>3. misread' = 2 => queue' \subseteq {app'}
      BY <1>1, <1>2 DEF Inv, ListLags, WindowTypes
    <3> QED BY <3>1, <3>2, <3>3 DEF ListLags
  <2>2. CASE refreshed /\ aged < WatchAfter
    <3>1. context' = 0 /\ watch' = aged /\ threads' = threads
      BY <1>4, <2>2
    <3>2. end /\ span' = 0 /\ queue' = {}
      <4>1. watch + d + z < WatchAfter
        BY <1>1, <1>2, <2>2 DEF WindowTypes
      <4>2. context + d + z < RefreshAfter
        BY <1>1, <1>2, <4>1 DEF Inv, ListLags, WindowTypes
      <4> QED BY <1>1, <1>2, <2>2, <4>2 DEF WindowTypes
    <3>3. aged = watch + d + z /\ span + d >= WindowFloor
      BY <1>1, <2>2, <3>2
    <3>4. CASE app' # app
      BY <1>1, <1>2, <3>1, <3>2, <3>4 DEF ListLags
    <3>5. CASE app' = app /\ threads # app
      <4>1. watch >= span + 9 * misread
        BY <1>1, <1>2, <2>2, <3>5, <3>3 DEF Inv, ListLags, WindowTypes
      <4>2. misread = 0
        BY <1>1, <1>2, <2>2, <3>3, <4>1 DEF WindowTypes
      <4>3. misread' \in {0, 1} /\ watch' >= 9
        BY <1>1, <1>2, <3>1, <3>3, <4>1, <4>2, <3>2, <3>5 DEF WindowTypes
      <4> QED BY <3>1, <3>2, <4>3, <1>2, <1>1 DEF ListLags
    <3>6. CASE app' = app /\ threads = app
      BY <1>1, <1>2, <3>1, <3>2, <3>6 DEF Inv, ListLags, WindowTypes
    <3> QED BY <3>4, <3>5, <3>6
  <2>3. CASE ~refreshed
    <3>1. /\ ~end /\ watch' = aged /\ context' = context + d + z /\ app' = app
          /\ threads' = threads /\ misread' = misread /\ span' = span + d
          /\ queue' = delay
      BY <1>1, <2>3
    <3>2. watch' >= context' \/ watch' >= WatchAfter
      BY <1>1, <1>2, <3>1 DEF Inv, ListLags, WindowTypes
    <3>3. threads' # app' => watch' >= span' + WindowFloor * misread' \/ watch' >= WatchAfter
      BY <1>1, <1>2, <3>1 DEF Inv, ListLags, WindowTypes
    <3>4. misread' <= 2 /\ (misread' = 2 => threads' = app' /\ queue' \subseteq {app'})
      BY <1>1, <1>2, <3>1 DEF Inv, ListLags, WindowTypes
    <3> QED BY <3>2, <3>3, <3>4 DEF ListLags
  <2> QED
    BY <1>1, <2>1, <2>2, <2>3
<1>9. StillOpen'
  BY <1>1 DEF StillOpen, WindowCeiling
<1> QED BY <1>5, <1>6, <1>7, <1>8, <1>9 DEF Inv

\* Every step keeps the invariant.
LEMMA InvNext == ASSUME Inv, [WindowNext]_windowVars PROVE Inv'
<1>1. ASSUME NEW d \in Polls, NEW z \in Sleeps, Poll(d, z) PROVE Inv'
  BY <1>1, PollKeeps
<1>2. CASE Turn
  BY <1>2 DEF Turn, Inv, WindowTypes, FramesOwned, FramesOfApp, ListLags, StillOpen
<1>3. CASE UNCHANGED windowVars
  BY <1>3 DEF windowVars, Inv, WindowTypes, FramesOwned, FramesOfApp, ListLags, StillOpen
<1> QED BY <1>1, <1>2, <1>3 DEF WindowNext

\* The invariant holds throughout.
LEMMA Invariance == WindowSpec => []Inv
BY InvInit, InvNext, PTL DEF WindowSpec

\* However the user moves between apps and screens, the frames a window reports
\* were drawn by the app it reports (Sampler::read, FrameTracker::reset).
THEOREM FramesReported == WindowSpec => []FramesOfApp
BY Invariance, PTL DEF Inv

\* However long polls and sleeps are, no more than two windows of an app in a
\* row carry only another app's run-queue delays (Sampler::read, the watch list).
THEOREM QueueFollows == WindowSpec => []QueueCatchesUp
<1>1. Inv => QueueCatchesUp
  BY DEF Inv, ListLags, QueueCatchesUp
<1> QED BY <1>1, Invariance, PTL

\* As long as no turn of the loop takes more than 18 s, two windows closed in a
\* row with the phone awake are as far apart as sound() asks of a pair: the floor
\* is above the gate's, and the ceiling and one more poll are within it.
THEOREM PairsFit ==
    ASSUME Polls \subseteq 1..36
    PROVE  WindowSpec => []PairsInGate
<1>1. WindowInit => PairsInGate
  BY DEF WindowInit, PairsInGate
<1>2. Inv /\ PairsInGate /\ [WindowNext]_windowVars => PairsInGate'
  <2> SUFFICES ASSUME Inv, PairsInGate, [WindowNext]_windowVars PROVE closed'.paired
    BY DEF PairsInGate
  <2>1. ASSUME NEW d \in Polls, NEW z \in Sleeps, Poll(d, z) PROVE closed'.paired
    <3>1. PICK end \in BOOLEAN, drew \in SUBSET {app} :
            /\ d \in Nat
            /\ end => span + d >= WindowFloor
            /\ end => closed'.paired = (slept \/ z > 0 \/ span + d \in PairGate)
            /\ ~end => closed' = closed
      BY <2>1, PollDone
    <3>2. end => span + d \in PairGate
      BY <3>1 DEF PairGate, WindowFloor, WindowCeiling, Inv, StillOpen, WindowTypes
    <3> QED BY <3>1, <3>2 DEF PairsInGate
  <2>2. CASE Turn \/ UNCHANGED windowVars
    BY <2>2 DEF Turn, windowVars, PairsInGate
  <2> QED BY <2>1, <2>2 DEF WindowNext
<1> QED BY <1>1, <1>2, Invariance, PTL DEF WindowSpec

-----------------------------------------------------------------------------
(****************************************************************************)
(* Cadence.                                                                *)
(* The counts that change the cadence are counts of windows in the log.    *)
(****************************************************************************)

Words == {"same", "faster", "held", "slower"}

CadenceTypes ==
    /\ cadence \in Nat /\ faster \in Nat /\ slower \in Nat /\ cap \in Nat
    /\ log \in Seq(Words)

\* The slower windows the count stands for: those since the last at the cadence.
SlowerSeen == {i \in SinceSame : log[i] = "slower"}

\* Each count is of windows in the log, whatever cadence they were compared
\* with: a cap below the cadence replaces it and leaves the counts standing.
CountsLogged ==
    /\ faster <= Len(log)
    /\ \A i \in Len(log) - faster + 1..Len(log) : log[i] = "faster"
    /\ IsFiniteSet(SlowerSeen) /\ slower <= Cardinality(SlowerSeen)

CadenceInv == CadenceTypes /\ CountsLogged

\* With an empty log the counts are nought.
LEMMA EmptyLog == ASSUME log = <<>> PROVE SlowerSeen = {}
BY DEF SlowerSeen, SinceSame

LEMMA CadenceInvInit == CadenceInit => CadenceInv
<1> SUFFICES ASSUME CadenceInit PROVE CadenceInv
  OBVIOUS
<1>1. CadenceTypes
  BY CadenceBounds DEF CadenceInit, CadenceTypes, Words
<1>2. SlowerSeen = {}
  BY EmptyLog DEF CadenceInit
<1> QED BY <1>1, <1>2, FS_EmptySet DEF CadenceInit, CadenceInv, CountsLogged

\* What one more word does to the slower windows seen.
LEMMA SlowerSaid ==
    ASSUME CadenceTypes, NEW word \in Words \ {"same"}, log' = Append(log, word)
    PROVE  SlowerSeen' = IF word = "slower" THEN SlowerSeen \cup {Len(log) + 1} ELSE SlowerSeen
<1>1. /\ Len(log') = Len(log) + 1 /\ Len(log) \in Nat
      /\ DOMAIN log = 1..Len(log) /\ DOMAIN log' = 1..Len(log) + 1
      /\ \A i \in 1..Len(log) : log'[i] = log[i]
      /\ log'[Len(log) + 1] = word
  BY DEF CadenceTypes, Words
<1>2. {i \in DOMAIN log' : log'[i] = "same"} = {i \in DOMAIN log : log[i] = "same"}
  BY <1>1
<1>3. SinceSame' = SinceSame \cup {Len(log) + 1}
  BY <1>1, <1>2 DEF SinceSame
<1>4. \A i \in SinceSame : i \in 1..Len(log)
  BY <1>1 DEF SinceSame
<1> QED BY <1>1, <1>3, <1>4 DEF SlowerSeen

\* The counts after one more word of the log.
LEMMA CountsSaid ==
    ASSUME CadenceInv, NEW word \in Words, log' = Append(log, word),
           faster' = IF word = "faster" THEN faster + 1 ELSE 0,
           slower' = IF word = "same" THEN 0
                     ELSE IF word = "slower" THEN slower + 1 ELSE slower
    PROVE  CountsLogged'
<1>1. /\ Len(log') = Len(log) + 1 /\ Len(log) \in Nat
      /\ \A i \in 1..Len(log) : log'[i] = log[i]
      /\ log'[Len(log) + 1] = word
  BY DEF CadenceInv, CadenceTypes, Words
<1>2. /\ faster' <= Len(log')
      /\ \A i \in Len(log') - faster' + 1..Len(log') : log'[i] = "faster"
  BY <1>1 DEF CadenceInv, CadenceTypes, CountsLogged
<1>3. IsFiniteSet(SlowerSeen') /\ slower' <= Cardinality(SlowerSeen')
  <2>1. CASE word = "same"
    <3>1. log'[Len(log) + 1] = "same" /\ DOMAIN log' = 1..Len(log) + 1
      BY <1>1, <2>1 DEF CadenceInv, CadenceTypes
    <3>2. SlowerSeen' = {}
      BY <1>1, <3>1 DEF SlowerSeen, SinceSame
    <3> QED BY <2>1, <3>2, FS_EmptySet
  <2>2. CASE word # "same"
    <3>1. SlowerSeen' = IF word = "slower" THEN SlowerSeen \cup {Len(log) + 1} ELSE SlowerSeen
      BY <2>2, SlowerSaid DEF CadenceInv
    <3>2. Len(log) + 1 \notin SlowerSeen
      BY <1>1 DEF SlowerSeen, SinceSame, CadenceInv, CadenceTypes
    <3>3. IsFiniteSet(SlowerSeen) /\ slower <= Cardinality(SlowerSeen) /\ slower \in Nat
      BY DEF CadenceInv, CountsLogged, CadenceTypes
    <3>4. /\ IsFiniteSet(SlowerSeen \cup {Len(log) + 1})
          /\ Cardinality(SlowerSeen \cup {Len(log) + 1}) = Cardinality(SlowerSeen) + 1
          /\ Cardinality(SlowerSeen) \in Nat
      BY <3>2, <3>3, FS_AddElement, FS_CardinalityType
    <3> QED BY <2>2, <3>1, <3>3, <3>4
  <2> QED BY <2>1, <2>2
<1> QED BY <1>2, <1>3 DEF CountsLogged

\* The counts after an adoption, and while the log stands.
LEMMA CountsCleared ==
    ASSUME faster' = 0, slower' = 0, log' = <<>> PROVE CountsLogged'
<1>1. SlowerSeen' = {}
  BY DEF SlowerSeen, SinceSame
<1> QED BY <1>1, FS_EmptySet DEF CountsLogged

LEMMA CountsStand ==
    ASSUME CadenceInv, UNCHANGED <<faster, slower, log>> PROVE CountsLogged'
BY DEF CadenceInv, CountsLogged, SlowerSeen, SinceSame

LEMMA CadenceInvNext ==
    ASSUME CadenceInv, [CadenceNext]_cadenceVars PROVE CadenceInv'
<1> USE DEF Say, Words
<1>1. CASE Same
  <2>1. CountsLogged'
    BY <1>1, CountsSaid DEF Same
  <2> QED BY <1>1, <2>1 DEF Same, CadenceInv, CadenceTypes
<1>2. CASE Reset
  <2>1. CountsLogged'
    BY <1>2, CountsCleared DEF Reset
  <2> QED BY <1>2, <2>1 DEF Reset, CadenceInv, CadenceTypes
<1>3. CASE Recap
  <2>1. CountsLogged'
    BY <1>3, CountsStand DEF Recap
  <2> QED BY <1>3, <2>1, CadenceBounds DEF Recap, CadenceInv, CadenceTypes
<1>4. ASSUME NEW best \in 1..Rates, Uncompared(best) PROVE CadenceInv'
  <2>1. CountsLogged'
    BY <1>4, CountsStand DEF Uncompared
  <2> QED BY <1>4, <2>1, CadenceBounds DEF Uncompared, CadenceInv, CadenceTypes
<1>5. ASSUME NEW best \in 1..Rates, Faster(best) PROVE CadenceInv'
  <2>1. CASE Believed(faster, RaiseAfter)
    <3>1. CountsLogged'
      BY <1>5, <2>1, CountsCleared DEF Faster, Adopt
    <3> QED BY <1>5, <2>1, <3>1, CadenceBounds DEF Faster, Adopt, CadenceInv, CadenceTypes
  <2>2. CASE ~Believed(faster, RaiseAfter)
    <3>1. CountsLogged'
      BY <1>5, <2>2, CountsSaid DEF Faster
    <3> QED BY <1>5, <2>2, <3>1 DEF Faster, CadenceInv, CadenceTypes
  <2> QED BY <2>1, <2>2
<1>6. ASSUME NEW best \in 1..Rates, NEW held \in BOOLEAN, Slower(best, held)
      PROVE  CadenceInv'
  <2>1. CASE Counts(held) /\ Believed(slower, LowerAfter)
    <3>1. CountsLogged'
      BY <1>6, <2>1, CountsCleared DEF Slower
    <3> QED BY <1>6, <2>1, <3>1, CadenceBounds DEF Slower, CadenceInv, CadenceTypes
  <2>2. CASE ~(Counts(held) /\ Believed(slower, LowerAfter))
    <3>1. CountsLogged'
      BY <1>6, <2>2, CountsSaid DEF Slower, Counts
    <3> QED BY <1>6, <2>2, <3>1 DEF Slower, Counts, CadenceInv, CadenceTypes
  <2> QED BY <2>1, <2>2
<1>7. CASE UNCHANGED cadenceVars
  <2>1. CountsLogged'
    BY <1>7, CountsStand DEF cadenceVars
  <2> QED BY <1>7, <2>1 DEF cadenceVars, CadenceInv, CadenceTypes
<1> QED BY <1>1, <1>2, <1>3, <1>4, <1>5, <1>6, <1>7 DEF CadenceNext

\* However the user moves the cap and the app changes: over a cadence the cap
\* allows, a faster rate is adopted only after RaiseAfter faster windows in a
\* row and a slower one only after LowerAfter windows that fell short of it with
\* none at it between (FrameTracker::finish).
THEOREM ChangesEarned == CadenceSpec => ChangeEarned
<1> DEFINE Earned ==
      Compared =>
         /\ cadence' > cadence =>
               /\ Len(log) >= RaiseAfter - 1
               /\ \A i \in Len(log) - RaiseAfter + 2..Len(log) : log[i] = "faster"
         /\ cadence' \in 1..cadence - 1 =>
               Cardinality({i \in SinceSame : log[i] = "slower"}) >= LowerAfter - 1
<1>1. ASSUME CadenceInv, CadenceNext PROVE Earned
  <2> SUFFICES ASSUME Compared PROVE Earned
    OBVIOUS
  <2>1. CadenceTypes /\ CountsLogged
    BY <1>1 DEF CadenceInv
  <2>2. cadence' # cadence =>
          \/ cadence' = 0
          \/ \E best \in 1..Rates : Faster(best)
          \/ \E best \in 1..Rates, held \in BOOLEAN : Slower(best, held)
    BY <1>1 DEF CadenceNext, Same, Reset, Recap, Uncompared
  <2>3. ASSUME cadence' > cadence
        PROVE  /\ Len(log) >= RaiseAfter - 1
               /\ \A i \in Len(log) - RaiseAfter + 2..Len(log) : log[i] = "faster"
    <3>1. PICK best \in 1..Rates : Faster(best)
      BY <2>1, <2>2, <2>3, CadenceBounds DEF Slower, Compared, CadenceTypes
    <3>2. faster + 1 >= RaiseAfter
      BY <2>1, <2>3, <3>1 DEF Faster, Believed, CadenceTypes
    <3> QED BY <2>1, <3>2, CadenceBounds DEF CountsLogged, CadenceTypes
  <2>4. ASSUME cadence' \in 1..cadence - 1
        PROVE  Cardinality(SlowerSeen) >= LowerAfter - 1
    <3>1. PICK best \in 1..Rates, held \in BOOLEAN : Slower(best, held)
      BY <2>1, <2>2, <2>4, CadenceBounds DEF Faster, Adopt, CadenceTypes
    <3>2. slower + 1 >= LowerAfter
      BY <2>1, <2>4, <3>1 DEF Slower, Believed, CadenceTypes
    <3>3. Cardinality(SlowerSeen) \in Nat
      BY <2>1, FS_CardinalityType DEF CountsLogged
    <3> QED BY <2>1, <3>2, <3>3, CadenceBounds DEF CountsLogged, CadenceTypes
  <2> QED BY <2>3, <2>4 DEF SlowerSeen
<1>2. CadenceInv /\ [CadenceNext]_cadenceVars => [Earned]_cadenceVars
  BY <1>1
<1> QED BY <1>2, CadenceInvInit, CadenceInvNext, PTL DEF CadenceSpec, ChangeEarned

-----------------------------------------------------------------------------
(****************************************************************************)
(* Runqueue.                                                               *)
(* A wait is in one place at a time: on record until a processor takes it, *)
(* that processor's until it is in both slots, drained from each once.     *)
(****************************************************************************)

Wakes == 1..MaxWakeups
DaemonAt == {"idle", "look", "clear", "watch"}

RunqueueTypes ==
    /\ probe \in [stage : {"off", "maps", "load", "on"}, maps : Nat,
                  programs : SUBSET Programs, links : SUBSET (Programs \X Cpus)]
    /\ {watched, watching} \subseteq SUBSET Threads
    /\ waking \in [Threads -> {None} \cup Wakes]
    /\ onCpu \in [Cpus -> [at : Slots \cup {"none"}, wake : {None} \cup Wakes]]
    /\ slots \in [Slots -> SUBSET Wakes]
    /\ daemon \in [at : DaemonAt, slot : Slots \cup {"none"},
                   tids : SUBSET Threads, left : SUBSET Threads]
    /\ daemon.at \in {"look", "clear"} => daemon.slot \in Slots
    /\ wakeups \in 0..MaxWakeups
    /\ truth \in [Threads -> [wake : {None} \cup Wakes, ran : BOOLEAN]]
    /\ tally \in [taken : [Wakes -> Nat], drained : [Slots -> SUBSET Wakes],
                  stray : [Threads -> Nat], first : BOOLEAN]

\* A wakeup on record is one that was given out, and no other thread's; it has
\* not been taken. One that was taken was taken once.
OnRecord ==
    /\ \A w \in Wakes : tally.taken[w] <= 1 /\ (w > wakeups => tally.taken[w] = 0)
    /\ \A t \in Threads : waking[t] # None =>
          /\ waking[t] <= wakeups /\ tally.taken[waking[t]] = 0
          /\ \A u \in Threads \ {t} : waking[u] # waking[t]

\* A delay being accounted is one processor's, and no slot still ahead of it has
\* it or has been read with it.
Ahead(slot) == IF slot = "total" THEN Slots ELSE {"count"}

Accounted ==
    /\ \A s \in Slots : \A w \in slots[s] \cup tally.drained[s] : tally.taken[w] = 1
    /\ \A cpu \in Cpus : onCpu[cpu].at # "none" =>
          /\ onCpu[cpu].wake \in Wakes /\ tally.taken[onCpu[cpu].wake] = 1
          /\ \A s \in Ahead(onCpu[cpu].at) : onCpu[cpu].wake \notin slots[s] \cup tally.drained[s]
          /\ \A other \in Cpus \ {cpu} :
                onCpu[other].at # "none" => onCpu[other].wake # onCpu[cpu].wake
    /\ \A s \in Slots :
          slots[s] \cap tally.drained[s] # {} => daemon.at = "clear" /\ daemon.slot = s

\* Until the probe is on nothing is watched; with both programs everywhere, what
\* is on record is the last wakeup of a thread that has not run since.
RecordLast ==
    /\ probe.stage # "on" => watched = {} /\ daemon = Resting /\ tally.first
                             /\ \A t \in Threads : waking[t] = None
    /\ probe.links = Programs \X Cpus =>
          /\ tally.first
          /\ \A t \in Threads : waking[t] # None => waking[t] = truth[t].wake /\ ~truth[t].ran
    /\ probe.stage = "off" => probe = Off

\* The map is what the daemon believes it is, but for what watch() has yet to
\* drop and has put already.
Watching ==
    IF daemon.at = "watch"
    THEN watched \ daemon.tids = daemon.left
    ELSE watched = watching

\* A thread off the list has either its one delay still on record or counted.
Strays ==
    daemon.at # "watch" =>
        \A t \in Threads \ watching :
            tally.stray[t] <= 1 /\ (waking[t] # None => tally.stray[t] = 0)

RunqueueInv == RunqueueTypes /\ OnRecord /\ Accounted /\ RecordLast /\ Watching /\ Strays

LEMMA RunqueueInvInit == RunqueueInit => RunqueueInv
<1> SUFFICES ASSUME RunqueueInit PROVE RunqueueInv
  OBVIOUS
<1> USE DEF RunqueueInit, Off, Resting, Nothing, None
<1>1. RunqueueTypes
  BY RunqueueBounds DEF RunqueueTypes, Wakes, DaemonAt, Slots, Programs
<1>2. OnRecord
  BY DEF OnRecord, Wakes
<1>3. Accounted
  BY DEF Accounted, Slots
<1>4. RecordLast
  BY RunqueueBounds DEF RecordLast, Programs
<1>5. Watching /\ Strays
  BY DEF Watching, Strays
<1> QED BY <1>1, <1>2, <1>3, <1>4, <1>5 DEF RunqueueInv

\* start() changes the descriptors alone, and before it ends nothing is watched.
LEMMA StartKeeps ==
    ASSUME RunqueueInv,
           \/ CreateMap \/ Refuse \/ Started \/ \E p \in Programs : LoadProgram(p)
    PROVE  RunqueueInv'
<1> USE DEF RunqueueInv, Kernel, Ghosts
<1>1. UNCHANGED <<watched, watching, waking, onCpu, slots, daemon, wakeups, truth, tally>>
  BY DEF CreateMap, Refuse, Started, LoadProgram
<1>2. probe.stage # "on"
  BY DEF CreateMap, Refuse, Started, LoadProgram
<1>3. /\ probe' \in [stage : {"off", "maps", "load", "on"}, maps : Nat,
                     programs : SUBSET Programs, links : SUBSET (Programs \X Cpus)]
      /\ probe'.stage = "off" => probe' = Off
  <2>1. CASE CreateMap
    <3>1. probe'.stage \in {"maps", "load"} /\ probe' \in [stage : {"maps", "load"}, maps : Nat,
                                 programs : SUBSET Programs, links : SUBSET (Programs \X Cpus)]
      <4>1. probe' = [stage |-> IF probe.maps = 2 THEN "load" ELSE "maps",
                      maps |-> probe.maps + 1, programs |-> probe.programs, links |-> probe.links]
        BY <2>1 DEF CreateMap, RunqueueTypes
      <4>2. probe.maps + 1 \in Nat /\ probe.programs \subseteq Programs
            /\ probe.links \subseteq Programs \X Cpus
        BY DEF RunqueueTypes
      <4> QED BY <4>1, <4>2
    <3> QED BY <3>1
  <2>2. CASE Refuse
    BY <2>2 DEF Refuse, Released, Off
  <2>3. CASE Started
    BY <2>3 DEF Started, RunqueueTypes
  <2>4. ASSUME NEW p \in Programs, LoadProgram(p)
        PROVE  probe' \in [stage : {"load"}, maps : Nat,
                           programs : SUBSET Programs, links : SUBSET (Programs \X Cpus)]
    <3>1. PICK cpus \in Attachable :
             probe' = [probe EXCEPT !.programs = @ \cup {p}, !.links = @ \cup ({p} \X cpus)]
      BY <2>4 DEF LoadProgram
    <3>2. {p} \X cpus \subseteq Programs \X Cpus
      BY RunqueueBounds
    <3> QED BY <2>4, <3>1, <3>2 DEF LoadProgram, RunqueueTypes
  <2> QED BY <2>1, <2>2, <2>3, <2>4
<1>4. RunqueueTypes' /\ OnRecord' /\ Accounted' /\ Watching' /\ Strays'
  BY <1>1, <1>3 DEF RunqueueTypes, OnRecord, Accounted, Watching, Strays
<1>5. RecordLast'
  BY <1>1, <1>2, <1>3 DEF RecordLast
<1> QED BY <1>4, <1>5

\* A wakeup goes on record once, under a number of its own.
LEMMA WakeupKeeps ==
    ASSUME RunqueueInv, NEW t \in Threads, NEW cpu \in Cpus, Wakeup(t, cpu)
    PROVE  RunqueueInv'
<1> USE DEF RunqueueInv, Wakeup, None, Wakes
<1>1. RunqueueTypes'
  BY RunqueueBounds DEF RunqueueTypes
<1>2. OnRecord'
  BY RunqueueBounds DEF OnRecord, RunqueueTypes
<1>3. Accounted' /\ Watching'
  BY DEF Accounted, Watching
<1>4. RecordLast'
  BY DEF RecordLast, RunqueueTypes
<1>5. Strays'
  BY DEF Strays, Watching, RunqueueTypes
<1> QED BY <1>1, <1>2, <1>3, <1>4, <1>5

\* A switch takes the record of its thread, and with it the only one.
LEMMA SwitchKeeps ==
    ASSUME RunqueueInv, NEW t \in Threads, NEW cpu \in Cpus, Switch(t, cpu)
    PROVE  RunqueueInv'
<1> USE DEF RunqueueInv, None, Wakes
<1>0. truth' = [truth EXCEPT ![t].ran = TRUE] /\ onCpu[cpu].at = "none"
      /\ UNCHANGED <<probe, watched, watching, slots, daemon, wakeups>>
  BY DEF Switch
<1>1. CASE Attached("switch", cpu) /\ waking[t] # None
  <2> DEFINE w == waking[t]
  <2>1. /\ waking' = [waking EXCEPT ![t] = None]
        /\ tally' = [tally EXCEPT
               !.taken[w] = @ + 1,
               !.stray[t] = IF t \in watching THEN @ ELSE @ + 1,
               !.first = @ /\ w = truth[t].wake /\ ~truth[t].ran]
        /\ \/ onCpu' = [onCpu EXCEPT ![cpu] = [at |-> "total", wake |-> w]]
           \/ UNCHANGED onCpu
    BY <1>1 DEF Switch, Taken
  <2>2. w \in 1..wakeups /\ w \in Wakes /\ tally.taken[w] = 0
    BY <1>1 DEF OnRecord, RunqueueTypes
  <2>3. /\ tally'.taken = [tally.taken EXCEPT ![w] = 1] /\ tally'.drained = tally.drained
        /\ tally'.stray = [tally.stray EXCEPT ![t] = IF t \in watching THEN @ ELSE @ + 1]
        /\ tally'.first = (tally.first /\ w = truth[t].wake /\ ~truth[t].ran)
    BY <2>1, <2>2 DEF RunqueueTypes
  <2>4. RunqueueTypes'
    <3>1. tally' \in [taken : [Wakes -> Nat], drained : [Slots -> SUBSET Wakes],
                      stray : [Threads -> Nat], first : BOOLEAN]
      <4>1. DOMAIN tally' = DOMAIN tally
        BY <2>1 DEF RunqueueTypes
      <4>2. /\ tally'.taken \in [Wakes -> Nat] /\ tally'.drained \in [Slots -> SUBSET Wakes]
            /\ tally'.stray \in [Threads -> Nat]
        BY <2>2, <2>3 DEF RunqueueTypes
      <4>3. tally'.first \in BOOLEAN
        BY <2>3
      <4> QED BY <2>1, <4>1, <4>2, <4>3 DEF RunqueueTypes
    <3>2. truth' \in [Threads -> [wake : {None} \cup Wakes, ran : BOOLEAN]]
      BY <1>0 DEF RunqueueTypes
    <3>3. onCpu' \in [Cpus -> [at : Slots \cup {"none"}, wake : {None} \cup Wakes]]
      <4>1. [at |-> "total", wake |-> w] \in [at : Slots \cup {"none"}, wake : {None} \cup Wakes]
        BY <2>2 DEF Slots
      <4> QED BY <2>1, <4>1 DEF RunqueueTypes
    <3>4. waking' \in [Threads -> {None} \cup Wakes]
      BY <2>1 DEF RunqueueTypes
    <3> QED BY <1>0, <3>1, <3>2, <3>3, <3>4 DEF RunqueueTypes
  <2>5. OnRecord'
    BY <1>0, <2>1, <2>2, <2>3 DEF OnRecord, RunqueueTypes
  <2>6. Accounted'
    <3>1. \A s \in Slots : \A v \in slots'[s] \cup tally'.drained[s] :
             v # w /\ tally'.taken[v] = 1
      BY <1>0, <2>2, <2>3 DEF Accounted, RunqueueTypes
    <3>2. ASSUME NEW c \in Cpus, onCpu'[c].at # "none"
          PROVE  /\ onCpu'[c].wake \in Wakes /\ tally'.taken[onCpu'[c].wake] = 1
                 /\ \A s \in Ahead(onCpu'[c].at) :
                       onCpu'[c].wake \notin slots'[s] \cup tally'.drained[s]
                 /\ \A other \in Cpus \ {c} :
                       onCpu'[other].at # "none" => onCpu'[other].wake # onCpu'[c].wake
      <4>1. \A d \in Cpus : onCpu[d].at # "none" => onCpu[d].wake # w
        BY <2>2 DEF Accounted
      <4>2. CASE c = cpu
        <5>1. /\ onCpu'[c] = [at |-> "total", wake |-> w]
              /\ \A d \in Cpus \ {c} : onCpu'[d] = onCpu[d]
          BY <1>0, <2>1, <3>2, <4>2 DEF RunqueueTypes
        <5>2. \A s \in Ahead(onCpu'[c].at) : w \notin slots'[s] \cup tally'.drained[s]
          BY <3>1, <5>1 DEF Ahead
        <5>3. \A other \in Cpus \ {c} :
                 onCpu'[other].at # "none" => onCpu'[other].wake # w
          BY <4>1, <5>1
        <5>4. tally'.taken[w] = 1
          BY <2>2, <2>3 DEF RunqueueTypes
        <5> QED BY <2>2, <5>1, <5>2, <5>3, <5>4
      <4>3. CASE c # cpu
        <5>1. onCpu'[c] = onCpu[c]
          BY <2>1, <4>3 DEF RunqueueTypes
        <5>2. \A d \in Cpus : onCpu'[d] = onCpu[d] \/ onCpu'[d].wake = w
          BY <2>1 DEF RunqueueTypes
        <5>3. onCpu[c].wake # w
          BY <3>2, <4>1, <5>1
        <5> QED BY <1>0, <2>2, <2>3, <3>2, <4>1, <5>1, <5>2, <5>3 DEF Accounted, RunqueueTypes
      <4> QED BY <4>2, <4>3
    <3>3. \A s \in Slots :
            slots'[s] \cap tally'.drained[s] # {} => daemon'.at = "clear" /\ daemon'.slot = s
      BY <1>0, <2>3 DEF Accounted
    <3> QED BY <3>1, <3>2, <3>3 DEF Accounted
  <2>7. RecordLast'
    <3>1. probe.stage = "on"
      BY <1>1 DEF RecordLast
    <3>2. ASSUME probe.links = Programs \X Cpus
          PROVE  tally'.first /\ \A u \in Threads :
                    waking'[u] # None => waking'[u] = truth'[u].wake /\ ~truth'[u].ran
      <4>1. tally'.first
        BY <1>1, <2>3, <3>2 DEF RecordLast
      <4>2. ASSUME NEW u \in Threads, waking'[u] # None
            PROVE  waking'[u] = truth'[u].wake /\ ~truth'[u].ran
        <5>1. u # t
          BY <2>1, <4>2 DEF RunqueueTypes
        <5>2. waking'[u] = waking[u] /\ truth'[u] = truth[u]
          BY <1>0, <2>1, <5>1 DEF RunqueueTypes
        <5> QED BY <3>2, <4>2, <5>2 DEF RecordLast
      <4> QED BY <4>1, <4>2
    <3> QED BY <1>0, <3>1, <3>2 DEF RecordLast
  <2>8. Watching' /\ Strays'
    <3>1. Watching'
      BY <1>0 DEF Watching
    <3>2. ASSUME daemon.at # "watch", NEW u \in Threads \ watching
          PROVE  tally'.stray[u] <= 1 /\ (waking'[u] # None => tally'.stray[u] = 0)
      <4>1. CASE u = t
        BY <1>1, <2>1, <2>3, <3>2, <4>1 DEF Strays, RunqueueTypes
      <4>2. CASE u # t
        <5>1. waking'[u] = waking[u] /\ tally'.stray[u] = tally.stray[u]
          BY <2>1, <2>3, <4>2 DEF RunqueueTypes
        <5> QED BY <3>2, <5>1 DEF Strays
      <4> QED BY <4>1, <4>2
    <3> QED BY <1>0, <3>1, <3>2 DEF Strays
  <2> QED BY <2>4, <2>5, <2>6, <2>7, <2>8
<1>2. CASE ~(Attached("switch", cpu) /\ waking[t] # None)
  <2>1. UNCHANGED <<waking, onCpu, tally>>
    BY <1>2 DEF Switch
  <2>2. truth' \in [Threads -> [wake : {None} \cup Wakes, ran : BOOLEAN]]
    BY <1>0 DEF RunqueueTypes
  <2>3. RunqueueTypes' /\ OnRecord' /\ Accounted' /\ Watching' /\ Strays'
    BY <1>0, <2>1, <2>2 DEF RunqueueTypes, OnRecord, Accounted, Watching, Strays
  <2>4. RecordLast'
    <3>1. ASSUME probe.links = Programs \X Cpus
          PROVE  \A u \in Threads :
                    waking[u] # None => waking[u] = truth'[u].wake /\ ~truth'[u].ran
      <4>1. waking[t] = None
        BY <1>2, <3>1 DEF Attached, Programs
      <4> QED BY <1>0, <3>1, <4>1 DEF RecordLast, RunqueueTypes
    <3> QED BY <1>0, <2>1, <3>1 DEF RecordLast
  <2> QED BY <2>3, <2>4
<1> QED BY <1>1, <1>2

\* A delay joins a slot it is still ahead of, and moves on.
LEMMA AccountKeeps ==
    ASSUME RunqueueInv, NEW cpu \in Cpus, Account(cpu)
    PROVE  RunqueueInv'
<1> USE DEF RunqueueInv, None, Wakes
<1> DEFINE w == onCpu[cpu].wake
           s == onCpu[cpu].at
<1>0. /\ UNCHANGED <<probe, watched, watching, waking, daemon, wakeups, truth, tally>>
      /\ s \in Slots /\ w \in Wakes /\ tally.taken[w] = 1
      /\ slots' = [slots EXCEPT ![s] = @ \cup {w}]
  BY DEF Account, RunqueueTypes, Accounted
<1>1. onCpu' = [onCpu EXCEPT ![cpu] = IF s = "total" THEN [at |-> "count", wake |-> w]
                                      ELSE [at |-> "none", wake |-> None]]
  <2>1. Succ[s] = IF s = "total" THEN "count" ELSE "none"
    BY <1>0 DEF Slots, Succ
  <2>2. Nothing[cpu] = [at |-> "none", wake |-> None]
    BY DEF Nothing
  <2>3. [onCpu[cpu] EXCEPT !.at = "count"] = [at |-> "count", wake |-> w]
    BY DEF RunqueueTypes
  <2>4. s = "count" => Succ[s] = "none"
    BY <2>1
  <2>5. s = "total" => Succ[s] = "count"
    BY <2>1
  <2>6. CASE s = "total"
    <3>1. Succ[s] # "none" /\ [onCpu[cpu] EXCEPT !.at = Succ[s]] = [at |-> "count", wake |-> w]
      BY <2>3, <2>5, <2>6
    <3>2. onCpu' = [onCpu EXCEPT ![cpu] = IF Succ[s] = "none" THEN Nothing[cpu]
                                          ELSE [onCpu[cpu] EXCEPT !.at = Succ[s]]]
      BY DEF Account
    <3> QED BY <2>6, <3>1, <3>2
  <2>7. CASE s = "count"
    BY <2>2, <2>4, <2>7 DEF Account
  <2> QED BY <1>0, <2>6, <2>7 DEF Slots
<1>2. RunqueueTypes'
  <2>1. onCpu' \in [Cpus -> [at : Slots \cup {"none"}, wake : {None} \cup Wakes]]
    BY <1>0, <1>1 DEF RunqueueTypes, Slots
  <2>2. slots' \in [Slots -> SUBSET Wakes]
    BY <1>0 DEF RunqueueTypes
  <2> QED BY <1>0, <2>1, <2>2 DEF RunqueueTypes
<1>3. OnRecord' /\ RecordLast' /\ Watching' /\ Strays'
  BY <1>0 DEF OnRecord, RecordLast, Watching, Strays
<1>4. Accounted'
  <2>1. w \notin slots[s] \cup tally.drained[s]
    BY <1>0 DEF Accounted, Ahead, Slots
  <2>2. \A q \in Slots : slots'[q] = IF q = s THEN slots[q] \cup {w} ELSE slots[q]
    BY <1>0 DEF RunqueueTypes
  <2>3. \A q \in Slots : \A v \in slots'[q] \cup tally'.drained[q] : tally'.taken[v] = 1
    BY <1>0, <2>2 DEF Accounted
  <2>4. \A q \in Slots :
          slots'[q] \cap tally'.drained[q] # {} => daemon'.at = "clear" /\ daemon'.slot = q
    BY <1>0, <2>1, <2>2 DEF Accounted
  <2>5. ASSUME NEW c \in Cpus, onCpu'[c].at # "none"
        PROVE  /\ onCpu'[c].wake \in Wakes /\ tally'.taken[onCpu'[c].wake] = 1
               /\ \A q \in Ahead(onCpu'[c].at) :
                     onCpu'[c].wake \notin slots'[q] \cup tally'.drained[q]
               /\ \A other \in Cpus \ {c} :
                     onCpu'[other].at # "none" => onCpu'[other].wake # onCpu'[c].wake
    <3>1. \A d \in Cpus : onCpu'[d].at # "none" =>
             onCpu[d].at # "none" /\ onCpu'[d].wake = onCpu[d].wake
      BY <1>0, <1>1 DEF RunqueueTypes
    <3>2. CASE c = cpu
      <4>1. s = "total" /\ onCpu'[c] = [at |-> "count", wake |-> w]
        BY <1>1, <2>5, <3>2 DEF RunqueueTypes
      <4>2. w \notin slots[ "count"] \cup tally.drained["count"]
        BY <4>1 DEF Accounted, Ahead, Slots
      <4> QED BY <1>0, <2>2, <2>5, <3>1, <3>2, <4>1, <4>2 DEF Accounted, Ahead, Slots
    <3>3. CASE c # cpu
      <4>1. onCpu'[c] = onCpu[c] /\ onCpu[c].wake # w /\ Ahead(onCpu[c].at) \subseteq Slots
        BY <1>0, <1>1, <2>5, <3>1, <3>3 DEF Accounted, RunqueueTypes, Ahead, Slots
      <4> QED BY <1>0, <2>2, <2>5, <3>1, <4>1 DEF Accounted
    <3> QED BY <3>2, <3>3
  <2> QED BY <2>3, <2>4, <2>5 DEF Accounted
<1> QED BY <1>2, <1>3, <1>4

\* sample() looks a slot up and empties it before it turns to the next.
LEMMA SampleKeeps ==
    ASSUME RunqueueInv, SampleLook \/ SampleClear
    PROVE  RunqueueInv'
<1> USE DEF RunqueueInv, None, Wakes
<1>1. CASE SampleLook
  <2>1. PICK s \in Slots :
          /\ \/ daemon.at = "idle" /\ s = "total"
             \/ daemon.at = "look" /\ s = daemon.slot
          /\ daemon' = [Resting EXCEPT !.at = "clear", !.slot = s]
          /\ tally' = [tally EXCEPT !.drained[s] = @ \cup slots[s]]
    BY <1>1 DEF SampleLook
  <2>2. /\ daemon' = [at |-> "clear", slot |-> s, tids |-> {}, left |-> {}]
        /\ tally'.drained = [tally.drained EXCEPT ![s] = @ \cup slots[s]]
        /\ tally'.taken = tally.taken /\ tally'.stray = tally.stray
        /\ tally'.first = tally.first
    BY <2>1 DEF RunqueueTypes, Resting
  <2>3. /\ UNCHANGED <<probe, watched, watching, waking, onCpu, slots, wakeups, truth>>
        /\ probe.stage = "on"
    BY <1>1 DEF SampleLook, Kernel
  <2>4. RunqueueTypes'
    <3>1. tally' \in [taken : [Wakes -> Nat], drained : [Slots -> SUBSET Wakes],
                      stray : [Threads -> Nat], first : BOOLEAN]
      BY <2>1 DEF RunqueueTypes
    <3>2. daemon' \in [at : DaemonAt, slot : Slots \cup {"none"},
                       tids : SUBSET Threads, left : SUBSET Threads]
      BY <2>1, <2>2 DEF DaemonAt
    <3>3. daemon'.at \in {"look", "clear"} => daemon'.slot \in Slots
      BY <2>2
    <3> QED BY <3>3, <2>3, <3>1, <3>2 DEF RunqueueTypes
  <2>5. OnRecord' /\ RecordLast'
    BY <2>2, <2>3 DEF OnRecord, RecordLast
  <2>6. Watching' /\ Strays'
    BY <2>1, <2>2, <2>3 DEF Watching, Strays
  <2>7. Accounted'
    <3>1. \A q \in Slots : tally'.drained[q] = IF q = s THEN tally.drained[q] \cup slots[q]
                                              ELSE tally.drained[q]
      BY <2>2 DEF RunqueueTypes
    <3>2. \A q \in Slots : tally'.drained[q] \cup slots'[q] = tally.drained[q] \cup slots[q]
      BY <2>3, <3>1
    <3>3. \A q \in Slots :
            slots'[q] \cap tally'.drained[q] # {} => daemon'.at = "clear" /\ daemon'.slot = q
      BY <2>1, <2>2, <2>3, <3>1 DEF Accounted
    <3>4. \A c \in Cpus : onCpu[c].at # "none" => Ahead(onCpu[c].at) \subseteq Slots
      BY DEF Ahead, Slots
    <3> QED BY <2>2, <2>3, <3>2, <3>3, <3>4 DEF Accounted
  <2> QED BY <2>4, <2>5, <2>6, <2>7
<1>2. CASE SampleClear
  <2>1. /\ slots' = [slots EXCEPT ![daemon.slot] = {}] /\ daemon.at = "clear"
        /\ daemon' = IF Succ[daemon.slot] = "none" THEN Resting
                     ELSE [Resting EXCEPT !.at = "look", !.slot = Succ[daemon.slot]]
        /\ UNCHANGED <<probe, watched, watching, waking, onCpu, wakeups, truth, tally>>
    BY <1>2 DEF SampleClear, Cleared, Ghosts
  <2>2. daemon.slot \in Slots
    BY <2>1 DEF RunqueueTypes
  <2>3. \/ daemon' = [at |-> "idle", slot |-> "none", tids |-> {}, left |-> {}]
        \/ daemon' = [at |-> "look", slot |-> "count", tids |-> {}, left |-> {}]
    <3>1. CASE daemon.slot = "total"
      <4>1. Succ[daemon.slot] = "count"
        BY <3>1 DEF Succ
      <4> QED BY <2>1, <4>1 DEF Resting
    <3>2. CASE daemon.slot = "count"
      <4>1. Succ[daemon.slot] = "none"
        BY <3>2 DEF Succ
      <4> QED BY <2>1, <4>1 DEF Resting
    <3> QED BY <2>2, <3>1, <3>2 DEF Slots
  <2>4. \A q \in Slots : slots'[q] = IF q = daemon.slot THEN {} ELSE slots[q]
    BY <2>1, <2>2 DEF RunqueueTypes
  <2>5. RunqueueTypes'
    <3>1. slots' \in [Slots -> SUBSET Wakes]
      BY <2>1 DEF RunqueueTypes
    <3>2. /\ daemon' \in [at : DaemonAt, slot : Slots \cup {"none"},
                          tids : SUBSET Threads, left : SUBSET Threads]
          /\ daemon'.at \in {"look", "clear"} => daemon'.slot \in Slots
      BY <2>3 DEF DaemonAt, Slots
    <3> QED BY <2>1, <3>1, <3>2 DEF RunqueueTypes
  <2>6. OnRecord'
    BY <2>1 DEF OnRecord
  <2>7. RecordLast'
    BY <2>1 DEF RecordLast, Resting
  <2>8. Watching' /\ Strays'
    BY <2>1, <2>3 DEF Watching, Strays
  <2>9. Accounted'
    <3>1. \A q \in Slots : slots'[q] \subseteq slots[q]
      BY <2>4
    <3>2. \A q \in Slots : slots'[q] \cap tally'.drained[q] = {}
      BY <2>1, <2>2, <2>4 DEF Accounted
    <3>3. \A c \in Cpus : onCpu[c].at # "none" => Ahead(onCpu[c].at) \subseteq Slots
      BY DEF Ahead, Slots
    <3> QED BY <2>1, <3>1, <3>2, <3>3 DEF Accounted
  <2> QED BY <2>5, <2>6, <2>7, <2>8, <2>9
<1> QED BY <1>1, <1>2

\* watch() moves the map to the new list thread by thread.
LEMMA WatchKeeps ==
    ASSUME RunqueueInv,
           WatchBegin \/ WatchEnd \/ \E t \in Threads : WatchDrop(t) \/ WatchPut(t)
    PROVE  RunqueueInv'
<1> USE DEF RunqueueInv, None, Wakes
<1>1. CASE WatchBegin
  <2>1. PICK tids \in Lists :
          daemon' = [Resting EXCEPT !.at = "watch", !.tids = tids, !.left = watching \ tids]
    BY <1>1 DEF WatchBegin
  <2>2. /\ daemon' = [at |-> "watch", slot |-> "none", tids |-> tids, left |-> watching \ tids]
        /\ tids \subseteq Threads
    BY <2>1, RunqueueBounds DEF Resting
  <2>3. /\ daemon.at = "idle" /\ probe.stage = "on"
        /\ UNCHANGED <<probe, watched, watching, waking, onCpu, slots, wakeups, truth, tally>>
    BY <1>1 DEF WatchBegin, Kernel, Ghosts
  <2>4. daemon' \in [at : DaemonAt, slot : Slots \cup {"none"},
                     tids : SUBSET Threads, left : SUBSET Threads]
    BY <2>2 DEF DaemonAt, RunqueueTypes
  <2> QED BY <2>2, <2>3, <2>4
          DEF RunqueueTypes, OnRecord, Accounted, RecordLast, Watching, Strays
<1>2. CASE WatchEnd
  <2>1. /\ daemon.at = "watch" /\ daemon.left = {} /\ daemon.tids \subseteq watched
        /\ watching' = daemon.tids
        /\ daemon' = [at |-> "idle", slot |-> "none", tids |-> {}, left |-> {}]
        /\ UNCHANGED <<probe, watched, waking, onCpu, slots, wakeups, truth>>
    BY <1>2 DEF WatchEnd, Kernel, Resting
  <2>2. tally' = [tally EXCEPT !.stray = [t \in Threads |-> 0]]
    BY <1>2 DEF WatchEnd
  <2>3. /\ tally'.taken = tally.taken /\ tally'.drained = tally.drained
        /\ tally'.first = tally.first /\ tally'.stray = [t \in Threads |-> 0]
        /\ tally' \in [taken : [Wakes -> Nat], drained : [Slots -> SUBSET Wakes],
                       stray : [Threads -> Nat], first : BOOLEAN]
    BY <2>2 DEF RunqueueTypes
  <2>4. RunqueueTypes'
    BY <2>1, <2>3 DEF RunqueueTypes, DaemonAt
  <2>5. probe.stage = "on"
    BY <2>1 DEF RecordLast, Resting
  <2>6. OnRecord' /\ Accounted'
    BY <2>1, <2>3 DEF OnRecord, Accounted
  <2>7. RecordLast'
    BY <2>1, <2>3, <2>5 DEF RecordLast
  <2>8. Watching'
    BY <2>1 DEF Watching
  <2>9. Strays'
    <3>1. \A t \in Threads : tally'.stray[t] = 0
      BY <2>3
    <3> QED BY <3>1 DEF Strays
  <2> QED BY <2>4, <2>6, <2>7, <2>8, <2>9
<1>3. ASSUME NEW t \in Threads, WatchDrop(t) \/ WatchPut(t) PROVE RunqueueInv'
  <2>1. /\ daemon.at = "watch" /\ daemon'.at = "watch"
        /\ UNCHANGED <<probe, watching, waking, onCpu, slots, wakeups, truth, tally>>
    BY <1>3 DEF WatchDrop, WatchPut, Ghosts, RunqueueTypes
  <2>2. /\ watched' \subseteq Threads
        /\ daemon' \in [at : DaemonAt, slot : Slots \cup {"none"},
                        tids : SUBSET Threads, left : SUBSET Threads]
    <3>1. CASE WatchDrop(t)
      BY <3>1 DEF WatchDrop, Unwatched, RunqueueTypes
    <3>2. CASE WatchPut(t)
      BY <3>2 DEF WatchPut, RunqueueTypes
    <3> QED BY <1>3, <3>1, <3>2
  <2>3. probe.stage = "on"
    BY <2>1 DEF RecordLast, Resting
  <2>4. Watching'
    <3>1. CASE WatchDrop(t)
      BY <2>1, <3>1 DEF WatchDrop, Unwatched, Watching, RunqueueTypes
    <3>2. CASE WatchPut(t)
      BY <2>1, <3>2 DEF WatchPut, Watching, RunqueueTypes
    <3> QED BY <1>3, <3>1, <3>2
  <2> QED BY <2>1, <2>2, <2>3, <2>4 DEF RunqueueTypes, OnRecord, Accounted, RecordLast, Strays
<1> QED BY <1>1, <1>2, <1>3

LEMMA RunqueueInvNext ==
    ASSUME RunqueueInv, [RunqueueNext]_runqueueVars PROVE RunqueueInv'
<1>1. CASE UNCHANGED runqueueVars
  BY <1>1 DEF runqueueVars, RunqueueInv, RunqueueTypes, OnRecord, Accounted, RecordLast,
              Watching, Strays
<1> QED
  BY <1>1, StartKeeps, WakeupKeeps, SwitchKeeps, AccountKeeps, SampleKeeps, WatchKeeps
  DEF RunqueueNext

LEMMA RunqueueInvariance == RunqueueSpec => []RunqueueInv
BY RunqueueInvInit, RunqueueInvNext, PTL DEF RunqueueSpec

\* However wakeups, switches, both programs and the daemon's drain interleave on
\* any number of threads and processors: no wait is taken twice, counted in two
\* windows or, with both programs everywhere, measured to any but the first turn
\* (m54_on_wakeup, m54_on_switch, RunqueueProbe::sample).
THEOREM WaitsOnce == RunqueueSpec => []WaitsCountedOnce
<1>1. RunqueueInv => WaitsCountedOnce
  BY DEF RunqueueInv, OnRecord, Accounted, RecordLast, WaitsCountedOnce, Wakes
<1> QED BY <1>1, RunqueueInvariance, PTL

\* However the foreground app changes while its threads wait: a thread that left
\* the list adds one more delay at most until the list changes again
\* (RunqueueProbe::watch).
THEOREM StraysOnce == RunqueueSpec => []StrayOnce
<1>1. RunqueueInv => StrayOnce
  BY DEF RunqueueInv, Strays, StrayOnce
<1> QED BY <1>1, RunqueueInvariance, PTL

-----------------------------------------------------------------------------
(****************************************************************************)
(* Generations.                                                            *)
(* Below any file of the chain there is one gap at most for every kill, and *)
(* one more for the file that is being moved or begun.                     *)
(****************************************************************************)

GenerationTypes ==
    /\ gens \in [0..Keep -> Nat] /\ state \in {"bare", "rows", "full"} /\ at \in 0..Keep + 2
    /\ begun \in Nat /\ whole \subseteq 1..begun /\ cuts \in Nat

\* The files are the newer the lower their number, none newer than the last begun.
Ordered ==
    /\ \A i, j \in 0..Keep : i < j /\ gens[i] # 0 /\ gens[j] # 0 => gens[j] < gens[i]
    /\ \A i \in 0..Keep : gens[i] <= begun

\* Where the daemon stands: a new file has no rows yet, a rotation starts from a
\* live file, and the next rename finds its place empty.
Standing ==
    /\ at = Header => gens[0] = begun /\ begun \notin whole /\ begun # 0
    /\ at = Drop => gens[0] # 0
    /\ at \in 1..Keep => gens[at] = 0

\* Places below k that hold no file with rows: as many as there were kills, and
\* the one a rotation moves down or a new file is about to fill.
Gaps(k) == {i \in 0..k - 1 : gens[i] \notin whole}

Moving(k) == at = Header \/ (at = Idle /\ gens[0] = 0) \/ (at \in 1..Keep /\ k > at)

FewGaps ==
    \A k \in 0..Keep : gens[k] # 0 =>
        Cardinality(Gaps(k)) <= IF Moving(k) THEN cuts + 1 ELSE cuts

GenerationInv == GenerationTypes /\ Ordered /\ Standing /\ FewGaps /\ NewestKept

\* The places below k are finitely many, so the gaps among them are.
LEMMA GapsFinite ==
    ASSUME GenerationTypes, NEW k \in 0..Keep
    PROVE  /\ IsFiniteSet(Gaps(k)) /\ Cardinality(Gaps(k)) \in Nat
           /\ \A S \in SUBSET Gaps(k) :
                 IsFiniteSet(S) /\ Cardinality(S) <= Cardinality(Gaps(k))
           /\ IsFiniteSet(0..k - 1) /\ Cardinality(0..k - 1) = k
<1>1. IsFiniteSet(0..k - 1) /\ Cardinality(0..k - 1) = k
  BY GenerationBounds, FS_Interval
<1>2. IsFiniteSet(Gaps(k))
  BY <1>1, FS_Subset DEF Gaps
<1> QED BY <1>1, <1>2, FS_Subset, FS_CardinalityType

\* A subset of the files that ever held rows is finite.
LEMMA WholeFinite ==
    ASSUME GenerationTypes, NEW f
    PROVE  /\ IsFiniteSet({g \in whole : g > f}) /\ Cardinality({g \in whole : g > f}) \in Nat
<1>1. IsFiniteSet(1..begun)
  BY FS_Interval DEF GenerationTypes
<1>2. IsFiniteSet({g \in whole : g > f})
  BY <1>1, FS_Subset DEF GenerationTypes
<1> QED BY <1>2, FS_CardinalityType

LEMMA GenerationInvInit == GenerationInit => GenerationInv
<1> SUFFICES ASSUME GenerationInit PROVE GenerationInv
  OBVIOUS
<1> USE GenerationBounds DEF GenerationInit, Idle, Header, Drop
<1>1. GenerationTypes /\ Ordered /\ Standing /\ FewGaps
  BY DEF GenerationTypes, Ordered, Standing, FewGaps
<1>2. NewestKept
  BY DEF NewestKept
<1> QED BY <1>1, <1>2 DEF GenerationInv

\* Kills and gaps only grow what NewestKept counts, while the files held stay.
LEMMA KeptStays ==
    ASSUME GenerationInv, GenerationTypes',
           whole \subseteq whole', cuts <= cuts', whole' \ Held' \subseteq whole \ Held
    PROVE  NewestKept'
<1> SUFFICES ASSUME NEW f \in whole' \ Held'
             PROVE  Cardinality({g \in whole' : g > f}) + cuts' >= Keep
  BY DEF NewestKept
<1>1. Cardinality({g \in whole : g > f}) + cuts >= Keep
  BY DEF GenerationInv, NewestKept
<1>2. /\ IsFiniteSet({g \in whole' : g > f}) /\ Cardinality({g \in whole' : g > f}) \in Nat
  <2>1. IsFiniteSet(1..begun')
    BY FS_Interval DEF GenerationTypes
  <2>2. IsFiniteSet({g \in whole' : g > f})
    BY <2>1, FS_Subset DEF GenerationTypes
  <2> QED BY <2>2, FS_CardinalityType
<1>3. Cardinality({g \in whole : g > f}) <= Cardinality({g \in whole' : g > f})
  BY <1>2, FS_Subset
<1>4. Cardinality({g \in whole : g > f}) \in Nat
  BY WholeFinite DEF GenerationInv
<1> QED BY <1>1, <1>2, <1>3, <1>4, GenerationBounds DEF GenerationInv, GenerationTypes

\* What a rotation drops has Keep newer files with rows but for the gaps.
LEMMA DropKeeps ==
    ASSUME GenerationInv, at = Drop, gens[Keep] # 0
    PROVE  Cardinality({g \in whole : g > gens[Keep]}) + cuts >= Keep
<1> DEFINE N == {g \in whole : g > gens[Keep]}
           G == 0..Keep - 1 \ Gaps(Keep)
           f == [i \in G |-> gens[i]]
<1> USE GenerationBounds
<1>1. Keep \in 0..Keep /\ ~Moving(Keep)
  BY DEF Moving, Drop, Header, Idle
<1>2. Cardinality(Gaps(Keep)) <= cuts /\ cuts \in Nat
  BY <1>1 DEF GenerationInv, FewGaps, GenerationTypes
<1>3. /\ IsFiniteSet(Gaps(Keep)) /\ Cardinality(Gaps(Keep)) \in Nat
      /\ IsFiniteSet(0..Keep - 1) /\ Cardinality(0..Keep - 1) = Keep
  BY <1>1, GapsFinite DEF GenerationInv
<1>4. Cardinality(G) = Keep - Cardinality(Gaps(Keep)) /\ IsFiniteSet(G)
  <2>1. Gaps(Keep) \in SUBSET (0..Keep - 1)
    BY DEF Gaps
  <2>2. IsFiniteSet(G)
    BY <1>3, FS_Subset
  <2>3. Cardinality(G) = Cardinality(0..Keep - 1) - Cardinality((0..Keep - 1) \cap Gaps(Keep))
    BY <1>3, FS_Difference
  <2>4. (0..Keep - 1) \cap Gaps(Keep) = Gaps(Keep)
    BY <2>1
  <2> QED BY <1>3, <2>2, <2>3, <2>4
<1>5. \A i \in G : gens[i] \in N
  BY DEF Gaps, GenerationInv, GenerationTypes, Ordered
<1>6. \A i, j \in G : gens[i] = gens[j] => i = j
  BY DEF Gaps, GenerationInv, GenerationTypes, Ordered
<1>7. f \in Injection(G, N)
  BY <1>5, <1>6 DEF Injection, IsInjective
<1>8. IsFiniteSet(N) /\ Cardinality(N) \in Nat
  BY WholeFinite DEF GenerationInv
<1> HIDE DEF N, G, f
<1>9. Cardinality(G) <= Cardinality(N)
  BY <1>7, <1>8, FS_Injection
<1> QED BY <1>2, <1>3, <1>4, <1>8, <1>9 DEF N

\* A rename into the empty place below it keeps every file, its order and the gaps.
LEMMA ShiftKeeps == ASSUME GenerationInv, RotateShift PROVE GenerationInv'
<1> USE GenerationBounds DEF GenerationInv, Idle, Header, Drop
<1> DEFINE i == at
<1>1. /\ i \in 1..Keep /\ at' = i - 1 /\ gens[i] = 0
      /\ UNCHANGED <<state, begun, whole, cuts>>
      /\ 0 \notin whole /\ gens \in [0..Keep -> Nat] /\ cuts \in Nat
  BY DEF RotateShift, Following, Standing, GenerationTypes
<1>2. /\ gens' \in [0..Keep -> Nat] /\ gens'[i - 1] = 0 /\ gens'[i] = gens[i - 1]
      /\ \A j \in 0..Keep \ {i, i - 1} : gens'[j] = gens[j]
  BY <1>1 DEF RotateShift, Shifted
<1>3. GenerationTypes'
  BY <1>1, <1>2 DEF GenerationTypes
<1>4. Ordered'
  <2>1. ASSUME NEW j \in 0..Keep, NEW k \in 0..Keep, j < k, gens'[j] # 0, gens'[k] # 0
        PROVE  gens'[k] < gens'[j]
    <3>1. j # i - 1 /\ k # i - 1
      BY <1>2, <2>1
    <3>2. CASE j = i
      <4>1. gens'[j] = gens[i - 1] /\ gens'[k] = gens[k]
        BY <1>1, <1>2, <2>1, <3>1, <3>2
      <4> QED BY <1>1, <2>1, <3>2, <4>1 DEF Ordered
    <3>3. CASE k = i
      <4>1. gens'[k] = gens[i - 1] /\ gens'[j] = gens[j] /\ j < i - 1
        BY <1>1, <1>2, <2>1, <3>1, <3>3
      <4> QED BY <1>1, <2>1, <3>3, <4>1 DEF Ordered
    <3>4. CASE j # i /\ k # i
      <4>1. gens'[k] = gens[k] /\ gens'[j] = gens[j]
        BY <1>1, <1>2, <2>1, <3>1, <3>4
      <4> QED BY <1>1, <2>1, <4>1 DEF Ordered
    <3> QED BY <3>2, <3>3, <3>4
  <2>2. \A j \in 0..Keep : gens'[j] <= begun'
    <3>1. begun \in Nat /\ \A j \in 0..Keep : gens[j] <= begun
      BY DEF Ordered, GenerationTypes
    <3>2. i - 1 \in 0..Keep
      BY <1>1
    <3>3. ASSUME NEW j \in 0..Keep PROVE gens'[j] \in {0, gens[j], gens[i - 1]}
      <4>1. CASE j \in {i, i - 1}
        BY <1>2, <4>1
      <4>2. CASE j \notin {i, i - 1}
        BY <1>2, <4>2
      <4> QED BY <4>1, <4>2
    <3>4. gens[i - 1] <= begun /\ 0 <= begun /\ begun' = begun
      BY <1>1, <3>1, <3>2
    <3> HIDE DEF GenerationInv, i
    <3>5. ASSUME NEW j \in 0..Keep PROVE gens'[j] <= begun'
      <4>1. gens[j] <= begun
        BY <3>1
      <4>2. gens'[j] = 0 \/ gens'[j] = gens[j] \/ gens'[j] = gens[i - 1]
        BY <3>3
      <4> QED BY <3>4, <4>1, <4>2
    <3> QED BY <3>5
  <2> QED BY <2>1, <2>2 DEF Ordered
<1>5. Standing'
  BY <1>1, <1>2 DEF Standing
<1>6. FewGaps'
  <2> SUFFICES ASSUME NEW k \in 0..Keep, gens'[k] # 0
               PROVE  Cardinality(Gaps(k)') <= IF Moving(k)' THEN cuts + 1 ELSE cuts
    BY <1>1 DEF FewGaps, Moving, Gaps
  <2>0. k # i - 1
    BY <1>2
  <2>g. /\ IsFiniteSet(Gaps(k)) /\ Cardinality(Gaps(k)) \in Nat
        /\ \A S \in SUBSET Gaps(k) :
              IsFiniteSet(S) /\ Cardinality(S) <= Cardinality(Gaps(k))
    BY GapsFinite
  <2>1. CASE k > i
    <3>1. Gaps(k)' = IF gens[i - 1] \in whole THEN (Gaps(k) \ {i}) \cup {i - 1} ELSE Gaps(k)
      <4>1. /\ i \in 0..k - 1 /\ i - 1 \in 0..k - 1 /\ i # i - 1
            /\ \A j \in 0..k - 1 : j \in 0..Keep
        BY <1>1, <2>1
      <4>2. /\ gens'[i - 1] = 0 /\ gens'[i] = gens[i - 1] /\ gens[i] = 0 /\ 0 \notin whole
            /\ \A j \in 0..k - 1 \ {i, i - 1} : gens'[j] = gens[j]
        BY <1>1, <1>2, <4>1
      <4>3. /\ Gaps(k)' = {j \in 0..k - 1 : gens'[j] \notin whole}
            /\ Gaps(k) = {j \in 0..k - 1 : gens[j] \notin whole}
        BY <1>1 DEF Gaps
      <4> HIDE DEF i, GenerationInv
      <4>4. ASSUME NEW j \in 0..k - 1
            PROVE  /\ gens[i - 1] \in whole =>
                         (gens'[j] \notin whole <=> j \in (Gaps(k) \ {i}) \cup {i - 1})
                   /\ gens[i - 1] \notin whole => (gens'[j] \notin whole <=> j \in Gaps(k))
        <5>1. CASE j = i
          BY <4>1, <4>2, <4>3, <5>1
        <5>2. CASE j = i - 1
          BY <4>1, <4>2, <4>3, <5>2
        <5>3. CASE j # i /\ j # i - 1
          BY <4>1, <4>2, <4>3, <5>3
        <5> QED BY <5>1, <5>2, <5>3
      <4> QED BY <4>1, <4>3, <4>4
    <3>2. i \in Gaps(k) /\ gens[k] # 0 /\ Moving(k) /\ Moving(k)'
      BY <1>1, <1>2, <2>1 DEF Gaps, Moving
    <3>3. /\ Cardinality((Gaps(k) \ {i}) \cup {i - 1}) <= Cardinality(Gaps(k))
          /\ Cardinality((Gaps(k) \ {i}) \cup {i - 1}) \in Nat
      <4>1. /\ IsFiniteSet(Gaps(k) \ {i})
            /\ Cardinality(Gaps(k) \ {i}) = Cardinality(Gaps(k)) - 1
            /\ Cardinality(Gaps(k) \ {i}) \in Nat
        BY <2>g, <3>2, FS_RemoveElement, FS_CardinalityType
      <4>2. /\ IsFiniteSet((Gaps(k) \ {i}) \cup {i - 1})
            /\ Cardinality((Gaps(k) \ {i}) \cup {i - 1}) <= Cardinality(Gaps(k) \ {i}) + 1
        <5> HIDE DEF GenerationInv
        <5> DEFINE S == Gaps(k) \ {i}
                   x == i - 1
        <5>1. IsFiniteSet(S) /\ Cardinality(S) \in Nat
          BY <4>1
        <5> HIDE DEF S, x
        <5>2. /\ IsFiniteSet(S \cup {x})
              /\ Cardinality(S \cup {x}) = IF x \in S THEN Cardinality(S) ELSE Cardinality(S) + 1
          BY <5>1, FS_AddElement
        <5>3. Cardinality(S \cup {x}) <= Cardinality(S) + 1
          BY <5>1, <5>2
        <5> QED BY <5>2, <5>3 DEF S, x
      <4> QED BY <2>g, <4>1, <4>2, FS_CardinalityType
    <3> QED BY <1>1, <2>g, <3>1, <3>2, <3>3 DEF FewGaps
  <2>2. CASE k = i
    <3>1. gens[i - 1] # 0 /\ i - 1 \in 0..Keep /\ Moving(k)' /\ ~Moving(i - 1)
      BY <1>1, <1>2, <2>2 DEF Moving
    <3>2. Gaps(k)' = Gaps(i - 1) \cup {i - 1}
      BY <1>1, <1>2, <2>2 DEF Gaps
    <3>3. IsFiniteSet(Gaps(i - 1)) /\ Cardinality(Gaps(i - 1)) \in Nat
      BY <3>1, GapsFinite
    <3>4. Cardinality(Gaps(i - 1) \cup {i - 1}) <= Cardinality(Gaps(i - 1)) + 1
      BY <3>3, FS_AddElement
    <3>5. Cardinality(Gaps(i - 1)) <= cuts
      BY <3>1 DEF FewGaps
    <3>6. Cardinality(Gaps(i - 1) \cup {i - 1}) \in Nat
      BY <3>3, FS_AddElement, FS_CardinalityType
    <3> QED BY <1>1, <3>1, <3>2, <3>3, <3>4, <3>5, <3>6
  <2>3. CASE k < i - 1
    <3>1. Gaps(k)' = Gaps(k) /\ gens[k] # 0 /\ ~Moving(k)
      BY <1>1, <1>2, <2>3 DEF Gaps, Moving
    <3> QED BY <1>1, <2>g, <3>1 DEF FewGaps
  <2> QED BY <1>1, <2>0, <2>1, <2>2, <2>3
<1>7. NewestKept'
  <2>1. Held' = Held
    <3>1. ASSUME NEW f, f \in Held PROVE f \in Held'
      <4>1. PICK j \in 0..Keep : f = gens[j] /\ f # 0
        BY <3>1 DEF Held
      <4>2. CASE j = i - 1
        BY <1>1, <1>2, <4>1, <4>2 DEF Held
      <4>3. CASE j # i - 1
        BY <1>1, <1>2, <4>1, <4>3 DEF Held
      <4> QED BY <4>2, <4>3
    <3>2. ASSUME NEW f, f \in Held' PROVE f \in Held
      <4>1. PICK j \in 0..Keep : f = gens'[j] /\ f # 0
        BY <3>2 DEF Held
      <4>2. CASE j = i
        BY <1>1, <1>2, <4>1, <4>2 DEF Held
      <4>3. CASE j # i
        BY <1>1, <1>2, <4>1, <4>3 DEF Held
      <4> QED BY <4>2, <4>3
    <3> QED BY <3>1, <3>2
  <2> QED BY <1>1, <1>3, <2>1, KeptStays
<1> QED BY <1>3, <1>4, <1>5, <1>6, <1>7

\* The unlink of a rotation lets the oldest go, which Keep newer ones replace.
LEMMA UnlinkKeeps == ASSUME GenerationInv, RotateDrop PROVE GenerationInv'
<1> USE GenerationBounds DEF GenerationInv, Idle, Header, Drop
<1>1. /\ at = Drop /\ at' = Keep /\ gens' = [gens EXCEPT ![Keep] = 0]
      /\ UNCHANGED <<state, begun, whole, cuts>>
      /\ gens \in [0..Keep -> Nat] /\ cuts \in Nat /\ Keep \in 0..Keep
  BY DEF RotateDrop, GenerationTypes
<1>2. GenerationTypes' /\ Ordered' /\ Standing'
  BY <1>1 DEF GenerationTypes, Ordered, Standing
<1>3. FewGaps'
  <2> SUFFICES ASSUME NEW k \in 0..Keep, gens'[k] # 0
               PROVE  Cardinality(Gaps(k)') <= IF Moving(k)' THEN cuts + 1 ELSE cuts
    BY <1>1 DEF FewGaps, Moving, Gaps
  <2>1. k < Keep /\ gens[k] # 0 /\ Gaps(k)' = Gaps(k) /\ ~Moving(k)
    BY <1>1 DEF Gaps, Moving
  <2>2. Cardinality(Gaps(k)) \in Nat
    BY GapsFinite
  <2> QED BY <1>1, <2>1, <2>2 DEF FewGaps
<1>4. NewestKept'
  <2> SUFFICES ASSUME NEW f \in whole \ Held'
               PROVE  Cardinality({g \in whole : g > f}) + cuts >= Keep
    BY <1>1 DEF NewestKept
  <2>1. CASE f \notin Held
    BY <2>1 DEF NewestKept
  <2>2. CASE f \in Held
    <3>1. f = gens[Keep] /\ gens[Keep] # 0
      BY <1>1, <2>2 DEF Held
    <3> QED BY <1>1, <3>1, DropKeeps
  <2> QED BY <2>1, <2>2
<1> QED BY <1>2, <1>3, <1>4

\* A file begun, and its first rows.
LEMMA NewFileKeeps == ASSUME GenerationInv, Begin \/ Flush PROVE GenerationInv'
<1> USE GenerationBounds DEF GenerationInv, Idle, Header, Drop
<1>0. 0 \in 0..Keep /\ gens \in [0..Keep -> Nat] /\ cuts \in Nat
  BY DEF GenerationTypes
<1>1. CASE Begin
  <2>1. /\ at = Idle /\ gens[0] = 0 /\ at' = Header /\ begun' = begun + 1
        /\ gens' = [gens EXCEPT ![0] = begun + 1] /\ state' = "bare"
        /\ UNCHANGED <<whole, cuts>>
    BY <1>1 DEF Begin
  <2>2. GenerationTypes'
    BY <1>0, <2>1 DEF GenerationTypes
  <2>3. Ordered' /\ Standing'
    BY <1>0, <2>1 DEF Ordered, Standing, GenerationTypes
  <2>4. FewGaps'
    <3> SUFFICES ASSUME NEW k \in 0..Keep, gens'[k] # 0
                 PROVE  Cardinality(Gaps(k)') <= cuts + 1
      BY <2>1 DEF FewGaps, Moving, Gaps
    <3>1. Gaps(k)' = Gaps(k)
      BY <1>0, <2>1 DEF Gaps, GenerationTypes
    <3>2. Cardinality(Gaps(k)) \in Nat
      BY GapsFinite
    <3>3. CASE k = 0
      BY <1>0, <3>1, <3>3, FS_EmptySet DEF Gaps
    <3>4. CASE k # 0
      <4>1. gens[k] # 0 /\ Moving(k)
        BY <1>0, <2>1, <3>4 DEF Moving
      <4> QED BY <1>0, <3>1, <3>2, <4>1 DEF FewGaps
    <3> QED BY <3>3, <3>4
  <2>5. Held \subseteq Held'
    BY <1>0, <2>1 DEF Held
  <2>6. NewestKept'
    BY <1>0, <2>1, <2>2, <2>5, KeptStays
  <2> QED BY <2>2, <2>3, <2>4, <2>6
<1>2. CASE Flush
  <2>1. /\ at = Header /\ at' = Idle /\ state' = "rows" /\ whole' = whole \cup {gens[0]}
        /\ gens[0] = begun /\ begun \notin whole /\ begun # 0
        /\ UNCHANGED <<gens, begun, cuts>>
    BY <1>2 DEF Flush, Standing
  <2>2. GenerationTypes' /\ Ordered' /\ Standing'
    BY <1>0, <2>1 DEF GenerationTypes, Ordered, Standing
  <2>3. FewGaps'
    <3> SUFFICES ASSUME NEW k \in 0..Keep, gens[k] # 0
                 PROVE  Cardinality(Gaps(k)') <= cuts /\ ~Moving(k)'
      BY <2>1 DEF FewGaps, Moving, Gaps
    <3>1. ~Moving(k)'
      BY <1>0, <2>1 DEF Moving
    <3>2. CASE k = 0
      <4>1. Gaps(k)' = {}
        BY <3>2 DEF Gaps
      <4> QED BY <1>0, <3>1, <4>1, FS_EmptySet
    <3>3. CASE k # 0
      <4>1. 0 \in Gaps(k) /\ Gaps(k)' \in SUBSET (Gaps(k) \ {0}) /\ Moving(k)
        BY <1>0, <2>1, <3>3 DEF Gaps, Moving
      <4>2. IsFiniteSet(Gaps(k)) /\ Cardinality(Gaps(k)) \in Nat /\ Cardinality(Gaps(k)) <= cuts + 1
        BY <4>1, GapsFinite DEF FewGaps
      <4>3. /\ IsFiniteSet(Gaps(k) \ {0})
            /\ Cardinality(Gaps(k) \ {0}) = Cardinality(Gaps(k)) - 1
        BY <4>1, <4>2, FS_RemoveElement
      <4>4. /\ Cardinality(Gaps(k)') <= Cardinality(Gaps(k) \ {0})
            /\ Cardinality(Gaps(k)') \in Nat
        BY <4>1, <4>3, FS_Subset, FS_CardinalityType
      <4> QED BY <1>0, <3>1, <4>2, <4>3, <4>4
    <3> QED BY <3>2, <3>3
  <2>4. whole' \ Held' \subseteq whole \ Held
    BY <1>0, <2>1 DEF Held
  <2>5. NewestKept'
    BY <1>0, <2>1, <2>2, <2>4, KeptStays
  <2> QED BY <2>2, <2>3, <2>5
<1> QED BY <1>1, <1>2

LEMMA GenerationInvNext ==
    ASSUME GenerationInv, [GenerationNext]_generationVars PROVE GenerationInv'
<1> USE GenerationBounds DEF GenerationInv, Idle, Header, Drop
<1>1. ASSUME AppendRow \/ RotateStart \/ Cut \/ UNCHANGED generationVars
      PROVE  GenerationInv'
  <2>1. /\ UNCHANGED <<gens, begun, whole>> /\ state' \in {"bare", "rows", "full"}
        /\ cuts' \in {cuts, cuts + 1} /\ cuts \in Nat
        /\ \/ at' = at /\ cuts' = cuts
           \/ at = Idle /\ at' = Drop /\ gens[0] # 0 /\ cuts' = cuts
           \/ at' = Idle /\ cuts' = cuts + 1
    BY <1>1 DEF AppendRow, RotateStart, Cut, generationVars, GenerationTypes
  <2>2. GenerationTypes' /\ Ordered' /\ Standing'
    BY <2>1 DEF GenerationTypes, Ordered, Standing
  <2>3. FewGaps'
    <3> SUFFICES ASSUME NEW k \in 0..Keep, gens[k] # 0
                 PROVE  Cardinality(Gaps(k)) <= IF Moving(k)' THEN cuts' + 1 ELSE cuts'
      BY <2>1 DEF FewGaps, Gaps
    <3>1. Cardinality(Gaps(k)) \in Nat
      BY GapsFinite
    <3> QED BY <2>1, <3>1 DEF FewGaps, Moving
  <2>4. Held' = Held
    BY <2>1 DEF Held
  <2>5. NewestKept'
    BY <2>1, <2>2, <2>4, KeptStays
  <2> QED BY <2>2, <2>3, <2>5
<1> QED BY <1>1, NewFileKeeps, UnlinkKeeps, ShiftKeeps DEF GenerationNext

\* Wherever SIGKILL cuts the header or the chain of renames, and however many
\* generations are kept: of the files that ever held rows the newest are there,
\* Keep of them less one for each kill (rotateGenerations, openHistory).
THEOREM NewestStay == GenerationSpec => []NewestKept
<1>1. GenerationInv => NewestKept
  BY DEF GenerationInv
<1> QED BY <1>1, GenerationInvInit, GenerationInvNext, PTL DEF GenerationSpec

=============================================================================
