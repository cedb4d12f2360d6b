----------------------------- MODULE AppProofs ------------------------------
(****************************************************************************)
(* The app and the life cycle of the daemon it starts and stops: Launch for *)
(* any number of scripts, launches and kills, AppConfig for any sets of axes *)
(* and values and any sequence of edits, saves and failures.               *)
(****************************************************************************)
EXTENDS AppConfig, Launch, TLAPS

-----------------------------------------------------------------------------
(****************************************************************************)
(* Launch.                                                                 *)
(* The flock leaves at most one daemon between its restore and its exit, so *)
(* the record, written after the flock was taken and removed before it is  *)
(* given up, names any daemon that may hold boosts. A script whose record has *)
(* no live process behind it therefore finds every daemon published before it *)
(* ended, and what those left behind has a journal, which --restore takes  *)
(* back or stops the script.                                               *)
(****************************************************************************)

Stages == {"launched", "restore", "publish", "run", "unlink", "close", "gone"}
Ended == {"close", "gone"}
Daemons == [at : Stages, term : BOOLEAN]

TypeOK ==
    /\ daemons \in Seq(Daemons)
    /\ record \in Nat /\ (record # 0 => record \in DOMAIN daemons)
    /\ raised \in Nat /\ journal \in BOOLEAN
    /\ scripts \in [Scripts -> [at : {"off", "check", "wait", "journal", "restore", "lock",
                                      "write", "start", "await"},
                                before : SUBSET (Nat \ {0})]]

FlockHeld ==
    /\ \A d \in DOMAIN daemons :
           daemons[d].at \in Stages \ {"launched", "gone"} => flock = {<<"run", d>>}
    /\ \A s \in Scripts : scripts[s].at = "restore" => flock = {<<"restore", s>>}

RecordNames == \A d \in DOMAIN daemons : daemons[d].at \in {"run", "unlink"} => record = d

JournalThere ==
    /\ \A d \in DOMAIN daemons : daemons[d].at \in {"publish", "run", "unlink"} => journal
    /\ raised # 0 => journal

\* The daemons published before a script began are still published, ended once
\* the script found no live record, and hold nothing once it may write.
BeforeOver ==
    \A s \in Scripts :
        /\ scripts[s].before \subseteq Published
        /\ scripts[s].at \in {"journal", "restore", "lock", "write"} =>
               \A d \in scripts[s].before : daemons[d].at \in Ended
        /\ scripts[s].at \in {"lock", "write"} => raised \notin scripts[s].before

Inv == TypeOK /\ FlockHeld /\ RecordNames /\ JournalThere /\ BeforeOver

\* Before the first launch nothing is held.
LEMMA InvInit == LaunchInit => Inv
<1> SUFFICES ASSUME LaunchInit PROVE Inv OBVIOUS
<1> USE DEF LaunchInit
<1>1. DOMAIN daemons = {} OBVIOUS
<1>2. TypeOK
  <2>1. daemons \in Seq(Daemons) OBVIOUS
  <2>2. scripts \in [Scripts -> [at : {"off", "check", "wait", "journal", "restore", "lock",
                                      "write", "start", "await"},
                                before : SUBSET (Nat \ {0})]]
    OBVIOUS
  <2> QED BY <2>1, <2>2 DEF TypeOK
<1>3. FlockHeld /\ RecordNames /\ JournalThere BY <1>1 DEF FlockHeld, RecordNames, JournalThere
<1>4. BeforeOver BY DEF BeforeOver
<1> QED BY <1>2, <1>3, <1>4 DEF Inv

-----------------------------------------------------------------------------
(* Steps of a daemon.                                                      *)

\* One daemon goes to another stage.
LEMMA Moves ==
    ASSUME TypeOK, NEW d \in DOMAIN daemons, NEW stage \in Stages, GoTo(d, stage)
    PROVE  /\ daemons' \in Seq(Daemons)
           /\ DOMAIN daemons' = DOMAIN daemons /\ daemons'[d].at = stage
           /\ \A e \in DOMAIN daemons : e # d => daemons'[e] = daemons[e]
<1>1. daemons \in Seq(Daemons) /\ daemons[d] \in Daemons BY DEF TypeOK
<1> DEFINE new == [daemons[d] EXCEPT !.at = stage]
<1>2. new \in Daemons /\ new.at = stage BY <1>1 DEF Daemons
<1>3. daemons' = [daemons EXCEPT ![d] = new] BY DEF GoTo
<1> HIDE DEF new
<1> QED BY <1>1, <1>2, <1>3

\* A daemon that ends early gives up no flock but its own.
LEMMA ExitKeeps ==
    ASSUME Inv, NEW d \in DOMAIN daemons, Exit(d),
           UNCHANGED <<record, journal, scripts>>, raised' = raised
    PROVE  Inv'
<1>1. /\ daemons' \in Seq(Daemons)
      /\ DOMAIN daemons' = DOMAIN daemons /\ daemons'[d].at = "gone"
      /\ \A e \in DOMAIN daemons : e # d => daemons'[e] = daemons[e]
      /\ flock' = flock \ {<<"run", d>>}
  BY Moves DEF Exit, Inv, Stages
<1>2. TypeOK' BY <1>1 DEF Inv, TypeOK
<1>3. FlockHeld'
  <2>1. \A e \in DOMAIN daemons : e # d => <<"run", e>> # <<"run", d>> OBVIOUS
  <2>2. \A s \in Scripts : <<"restore", s>> # <<"run", d>> OBVIOUS
  <2> QED BY <1>1, <2>1, <2>2 DEF Inv, FlockHeld
<1>4. RecordNames' /\ JournalThere' BY <1>1 DEF Inv, RecordNames, JournalThere
<1>5. BeforeOver'
  <2>1. Published \subseteq Published' BY <1>1 DEF Published
  <2>2. \A e \in DOMAIN daemons : daemons[e].at \in Ended => daemons'[e].at \in Ended
    BY <1>1 DEF Ended
  <2>3. Published \subseteq DOMAIN daemons BY DEF Published
  <2> QED BY <2>1, <2>2, <2>3 DEF Inv, BeforeOver
<1> QED BY <1>2, <1>3, <1>4, <1>5 DEF Inv

\* What any step of a daemon keeps of the scripts, when the daemon stays
\* published and what it raises is of no daemon that has ended.
LEMMA BeforeKept ==
    ASSUME Inv, UNCHANGED scripts, Published \subseteq Published',
           \A e \in DOMAIN daemons : daemons[e].at \in Ended => daemons'[e].at \in Ended,
           \/ raised' \in {0, raised}
           \/ raised' \in DOMAIN daemons /\ daemons[raised'].at \notin Ended
    PROVE  BeforeOver'
<1> SUFFICES ASSUME NEW s \in Scripts
             PROVE  /\ scripts[s].before \subseteq Published'
                    /\ scripts[s].at \in {"journal", "restore", "lock", "write"} =>
                           \A d \in scripts[s].before : daemons'[d].at \in Ended
                    /\ scripts[s].at \in {"lock", "write"} => raised' \notin scripts[s].before
  BY DEF BeforeOver
<1>1. /\ scripts[s].before \subseteq Published
      /\ scripts[s].at \in {"journal", "restore", "lock", "write"} =>
             \A d \in scripts[s].before : daemons[d].at \in Ended
      /\ scripts[s].at \in {"lock", "write"} => raised \notin scripts[s].before
  BY DEF Inv, BeforeOver
<1>2. Published \subseteq DOMAIN daemons BY DEF Published
<1>3. 0 \notin scripts[s].before BY DEF Inv, TypeOK
<1> QED BY <1>1, <1>2, <1>3

\* Every step of a daemon keeps the invariant.
LEMMA DaemonKeeps ==
    ASSUME Inv, NEW d \in DOMAIN daemons,
           \/ TakeFlock(d) \/ StartRestored(d) \/ Publish(d) \/ Boost(d)
           \/ EndRestored(d) \/ Unlink(d) \/ Close(d) \/ Slay(d)
    PROVE  Inv'
<1>1. TypeOK /\ FlockHeld /\ RecordNames /\ JournalThere BY DEF Inv
<1>2. d \in Nat \ {0} BY <1>1 DEF TypeOK
<1>3. CASE TakeFlock(d)
  <2>1. CASE flock # {} BY <1>3, <2>1, ExitKeeps DEF TakeFlock
  <2>2. CASE flock = {}
    <3>1. GoTo(d, "restore") /\ daemons[d].at = "launched" /\ flock' = {<<"run", d>>}
          /\ UNCHANGED <<record, journal, raised, scripts>>
      BY <1>3, <2>2 DEF TakeFlock, At
    <3>2. /\ daemons' \in Seq(Daemons) /\ DOMAIN daemons' = DOMAIN daemons
          /\ daemons'[d].at = "restore"
          /\ \A e \in DOMAIN daemons : e # d => daemons'[e] = daemons[e]
      BY <3>1, <1>1, Moves DEF Stages
    <3>3. TypeOK' BY <1>1, <3>1, <3>2 DEF TypeOK
    <3>4. FlockHeld' BY <1>1, <2>2, <3>1, <3>2 DEF FlockHeld
    <3>5. RecordNames' /\ JournalThere' BY <1>1, <3>1, <3>2 DEF RecordNames, JournalThere
    <3>6. BeforeOver' BY <3>1, <3>2, BeforeKept DEF Published, Ended
    <3> QED BY <3>3, <3>4, <3>5, <3>6 DEF Inv
  <2> QED BY <2>1, <2>2
<1>4. CASE StartRestored(d)
  <2>1. CASE Exit(d) /\ UNCHANGED raised /\ UNCHANGED journal
    BY <1>4, <2>1, ExitKeeps DEF StartRestored
  <2>2. CASE ~(Exit(d) /\ UNCHANGED raised /\ UNCHANGED journal)
    <3>1. GoTo(d, "publish") /\ daemons[d].at = "restore" /\ raised' = 0 /\ journal' = TRUE
          /\ UNCHANGED <<flock, record, scripts>>
      BY <1>4, <2>2 DEF StartRestored, At
    <3>2. /\ daemons' \in Seq(Daemons) /\ DOMAIN daemons' = DOMAIN daemons
          /\ daemons'[d].at = "publish"
          /\ \A e \in DOMAIN daemons : e # d => daemons'[e] = daemons[e]
      BY <3>1, <1>1, Moves DEF Stages
    <3>3. TypeOK' BY <1>1, <3>1, <3>2 DEF TypeOK
    <3>4. FlockHeld' BY <1>1, <3>1, <3>2 DEF FlockHeld, Stages
    <3>5. RecordNames' /\ JournalThere' BY <1>1, <3>1, <3>2 DEF RecordNames, JournalThere
    <3>6. BeforeOver' BY <3>1, <3>2, BeforeKept DEF Published, Ended
    <3> QED BY <3>3, <3>4, <3>5, <3>6 DEF Inv
  <2> QED BY <2>1, <2>2
<1>5. CASE Publish(d)
  <2>1. CASE Exit(d) /\ UNCHANGED record BY <1>5, <2>1, ExitKeeps DEF Publish
  <2>2. CASE ~(Exit(d) /\ UNCHANGED record)
    <3>1. GoTo(d, "run") /\ daemons[d].at = "publish" /\ record' = d
          /\ UNCHANGED <<flock, journal, raised, scripts>>
      BY <1>5, <2>2 DEF Publish, At
    <3>2. /\ daemons' \in Seq(Daemons) /\ DOMAIN daemons' = DOMAIN daemons
          /\ daemons'[d].at = "run"
          /\ \A e \in DOMAIN daemons : e # d => daemons'[e] = daemons[e]
      BY <3>1, <1>1, Moves DEF Stages
    <3>3. TypeOK' BY <1>1, <1>2, <3>1, <3>2 DEF TypeOK
    <3>4. FlockHeld' BY <1>1, <3>1, <3>2 DEF FlockHeld, Stages
    <3>5. RecordNames'
      <4>1. \A e \in DOMAIN daemons : daemons[e].at \in {"run", "unlink"} => e = d
        <5>1. flock = {<<"run", d>>} BY <1>1, <3>1 DEF FlockHeld, Stages
        <5>2. \A e \in DOMAIN daemons :
                  daemons[e].at \in {"run", "unlink"} => flock = {<<"run", e>>}
          BY <1>1 DEF FlockHeld, Stages
        <5>3. ASSUME NEW e \in DOMAIN daemons, daemons[e].at \in {"run", "unlink"}
              PROVE  e = d
          <6>1. {<<"run", d>>} = {<<"run", e>>} BY <5>1, <5>2, <5>3
          <6>2. <<"run", d>> = <<"run", e>> BY <6>1
          <6> QED BY <6>2
        <5> QED BY <5>3
      <4> QED BY <3>1, <3>2, <4>1 DEF RecordNames
    <3>6. JournalThere' BY <1>1, <3>1, <3>2 DEF JournalThere
    <3>7. BeforeOver' BY <3>1, <3>2, BeforeKept DEF Published, Ended
    <3> QED BY <3>3, <3>4, <3>5, <3>6, <3>7 DEF Inv
  <2> QED BY <2>1, <2>2
<1>6. CASE Boost(d)
  <2>1. daemons[d].at = "run" /\ raised' = d
        /\ UNCHANGED <<daemons, flock, record, journal, scripts>>
    BY <1>6 DEF Boost, At
  <2>2. TypeOK' BY <1>1, <1>2, <2>1 DEF TypeOK
  <2>3. FlockHeld' /\ RecordNames' BY <1>1, <2>1 DEF FlockHeld, RecordNames
  <2>4. JournalThere' BY <1>1, <2>1 DEF JournalThere
  <2>5. BeforeOver' BY <2>1, BeforeKept DEF Published, Ended
  <2> QED BY <2>2, <2>3, <2>4, <2>5 DEF Inv
<1>7. CASE EndRestored(d)
  <2>1. GoTo(d, "unlink") /\ daemons[d].at = "run" /\ raised' \in {0, raised}
        /\ UNCHANGED <<flock, record, journal, scripts>>
    BY <1>7 DEF EndRestored, At
  <2>2. /\ daemons' \in Seq(Daemons) /\ DOMAIN daemons' = DOMAIN daemons
        /\ daemons'[d].at = "unlink"
        /\ \A e \in DOMAIN daemons : e # d => daemons'[e] = daemons[e]
    BY <2>1, <1>1, Moves DEF Stages
  <2>3. TypeOK' BY <1>1, <2>1, <2>2 DEF TypeOK
  <2>4. FlockHeld' BY <1>1, <2>1, <2>2 DEF FlockHeld, Stages
  <2>5. RecordNames' /\ JournalThere' BY <1>1, <2>1, <2>2 DEF RecordNames, JournalThere
  <2>6. BeforeOver' BY <2>1, <2>2, BeforeKept DEF Published, Ended
  <2> QED BY <2>3, <2>4, <2>5, <2>6 DEF Inv
<1>8. CASE Unlink(d)
  <2>1. GoTo(d, "close") /\ daemons[d].at = "unlink" /\ record' = 0
        /\ UNCHANGED <<flock, journal, raised, scripts>>
    BY <1>8 DEF Unlink, At
  <2>2. /\ daemons' \in Seq(Daemons) /\ DOMAIN daemons' = DOMAIN daemons
        /\ daemons'[d].at = "close"
        /\ \A e \in DOMAIN daemons : e # d => daemons'[e] = daemons[e]
    BY <2>1, <1>1, Moves DEF Stages
  <2>3. TypeOK' BY <1>1, <2>1, <2>2 DEF TypeOK
  <2>4. FlockHeld' BY <1>1, <2>1, <2>2 DEF FlockHeld, Stages
  <2>5. RecordNames'
    <3>1. record = d BY <1>1, <2>1 DEF RecordNames
    <3>2. \A e \in DOMAIN daemons : daemons[e].at \in {"run", "unlink"} => e = d
      BY <1>1, <3>1 DEF RecordNames
    <3> QED BY <2>2, <3>2 DEF RecordNames
  <2>6. JournalThere' BY <1>1, <2>1, <2>2 DEF JournalThere
  <2>7. BeforeOver' BY <2>1, <2>2, BeforeKept DEF Published, Ended
  <2> QED BY <2>3, <2>4, <2>5, <2>6, <2>7 DEF Inv
<1>9. CASE Close(d) BY <1>9, ExitKeeps DEF Close
<1>10. CASE Slay(d) BY <1>10, ExitKeeps DEF Slay
<1> QED BY <1>3, <1>4, <1>5, <1>6, <1>7, <1>8, <1>9, <1>10

-----------------------------------------------------------------------------
(* Steps of a script.                                                      *)

ScriptStages ==
    {"off", "check", "wait", "journal", "restore", "lock", "write", "start", "await"}
ScriptStates == [at : ScriptStages, before : SUBSET (Nat \ {0})]

\* One script goes to another stage.
LEMMA Steps ==
    ASSUME TypeOK, NEW s \in Scripts, NEW stage \in ScriptStages, Step(s, stage)
    PROVE  /\ scripts' \in [Scripts -> ScriptStates]
           /\ scripts'[s].at = stage /\ scripts'[s].before = scripts[s].before
           /\ \A t \in Scripts : t # s => scripts'[t] = scripts[t]
<1>1. scripts \in [Scripts -> ScriptStates] /\ scripts[s] \in ScriptStates
  BY DEF TypeOK, ScriptStates, ScriptStages
<1> QED BY <1>1 DEF Step, ScriptStates

\* A step of a script that changes neither daemons nor what they hold, and does
\* not go where BeforeOver asks more of it than before.
LEMMA ScriptMoves ==
    ASSUME Inv, NEW s \in Scripts, NEW stage \in ScriptStages, Step(s, stage),
           UNCHANGED <<daemons, record, journal>>, raised' \in {0, raised},
           \/ stage \notin {"journal", "restore", "lock", "write"}
           \/ \A d \in scripts[s].before : daemons[d].at \in Ended,
           \/ stage \notin {"lock", "write"}
           \/ raised' \notin scripts[s].before
    PROVE  TypeOK' /\ RecordNames' /\ JournalThere' /\ BeforeOver'
<1>1. /\ scripts' \in [Scripts -> ScriptStates]
      /\ scripts'[s].at = stage /\ scripts'[s].before = scripts[s].before
      /\ \A t \in Scripts : t # s => scripts'[t] = scripts[t]
  BY Steps DEF Inv
<1>2. TypeOK' BY <1>1 DEF Inv, TypeOK, ScriptStates, ScriptStages
<1>3. RecordNames' /\ JournalThere' BY DEF Inv, RecordNames, JournalThere
<1>4. Published' = Published BY DEF Published
<1>5. \A t \in Scripts : 0 \notin scripts[t].before BY DEF Inv, TypeOK
<1>6. \A t \in Scripts :
         /\ scripts[t].before \subseteq Published
         /\ scripts[t].at \in {"journal", "restore", "lock", "write"} =>
                \A d \in scripts[t].before : daemons[d].at \in Ended
         /\ scripts[t].at \in {"lock", "write"} => raised \notin scripts[t].before
  BY DEF Inv, BeforeOver
<1>7. BeforeOver' BY <1>1, <1>4, <1>5, <1>6 DEF BeforeOver
<1> QED BY <1>2, <1>3, <1>7

\* The same step keeps the flock where it does not touch it.
LEMMA FlockStays ==
    ASSUME Inv, NEW s \in Scripts, NEW stage \in ScriptStages \ {"restore"}, Step(s, stage),
           UNCHANGED <<daemons, flock>>
    PROVE  FlockHeld'
<1>1. /\ scripts'[s].at = stage
      /\ \A t \in Scripts : t # s => scripts'[t] = scripts[t]
  BY Steps DEF Inv
<1> QED BY <1>1 DEF Inv, FlockHeld

\* With no live record, every daemon published before the script began is over.
LEMMA NoLiveRecord ==
    ASSUME Inv, ~RecordAlive, NEW s \in Scripts
    PROVE  \A d \in scripts[s].before : daemons[d].at \in Ended
<1> SUFFICES ASSUME NEW d \in scripts[s].before PROVE daemons[d].at \in Ended
  OBVIOUS
<1>1. d \in DOMAIN daemons /\ daemons[d].at \in {"run", "unlink", "close", "gone"}
  BY DEF Inv, BeforeOver, Published
<1>2. d # 0 BY DEF Inv, TypeOK
<1>3. CASE daemons[d].at \in {"run", "unlink"}
  <2>1. record = d BY <1>1, <1>3 DEF Inv, RecordNames
  <2> QED BY <1>2, <1>3, <2>1 DEF RecordAlive, At
<1> QED BY <1>1, <1>3 DEF Ended

\* adaptive_stop.sh, and the start of a profile.
LEMMA StopKeeps ==
    ASSUME Inv, NEW s \in Scripts,
           StopBegin(s) \/ StopCheck(s) \/ StopWait(s) \/ StopJournal(s) \/ StopRestored(s)
    PROVE  Inv'
<1>1. TypeOK /\ FlockHeld /\ RecordNames /\ JournalThere /\ BeforeOver BY DEF Inv
<1>2. CASE StopBegin(s)
  <2>1. /\ scripts' = [scripts EXCEPT ![s] = [at |-> "check", before |-> Published]]
        /\ UNCHANGED <<daemons, flock, record, journal, raised>>
    BY <1>2 DEF StopBegin
  <2>2. Published \in SUBSET (Nat \ {0}) BY <1>1 DEF Published, TypeOK
  <2>3. /\ scripts'[s].at = "check" /\ scripts'[s].before = Published
        /\ \A t \in Scripts : t # s => scripts'[t] = scripts[t]
    BY <1>1, <2>1 DEF TypeOK
  <2>4. TypeOK' BY <1>1, <2>1, <2>2 DEF TypeOK
  <2>5. FlockHeld' /\ RecordNames' /\ JournalThere'
    BY <1>1, <2>1, <2>3 DEF FlockHeld, RecordNames, JournalThere
  <2>6. Published' = Published BY <2>1 DEF Published
  <2>7. BeforeOver' BY <1>1, <2>1, <2>3, <2>6 DEF BeforeOver
  <2> QED BY <2>4, <2>5, <2>7 DEF Inv
<1>3. CASE StopCheck(s)
  <2>1. CASE ~RecordAlive
    <3>1. Step(s, "journal") /\ UNCHANGED <<daemons, flock, record, journal, raised>>
      BY <1>3, <2>1 DEF StopCheck
    <3>2. TypeOK' /\ RecordNames' /\ JournalThere' /\ BeforeOver'
      BY <2>1, <3>1, NoLiveRecord, ScriptMoves DEF ScriptStages
    <3> QED BY <3>1, <3>2, FlockStays DEF Inv, ScriptStages
  <2>2. CASE RecordAlive
    <3>1. /\ daemons' = [daemons EXCEPT ![record].term = TRUE] /\ Step(s, "wait")
          /\ UNCHANGED <<flock, record, journal, raised>>
      BY <1>3, <2>2 DEF StopCheck
    <3>2. record \in DOMAIN daemons BY <1>1, <2>2 DEF RecordAlive, TypeOK
    <3>3. /\ daemons' \in Seq(Daemons) /\ DOMAIN daemons' = DOMAIN daemons
          /\ \A d \in DOMAIN daemons : daemons'[d].at = daemons[d].at
      <4>1. daemons \in Seq(Daemons) /\ daemons[record] \in Daemons
        BY <1>1, <3>2 DEF TypeOK
      <4> DEFINE new == [daemons[record] EXCEPT !.term = TRUE]
      <4>2. new \in Daemons /\ new.at = daemons[record].at BY <4>1 DEF Daemons
      <4>3. daemons' = [daemons EXCEPT ![record] = new] BY <3>1
      <4> HIDE DEF new
      <4> QED BY <3>2, <4>1, <4>2, <4>3
    <3>4. /\ scripts' \in [Scripts -> ScriptStates]
          /\ scripts'[s].at = "wait" /\ scripts'[s].before = scripts[s].before
          /\ \A t \in Scripts : t # s => scripts'[t] = scripts[t]
      BY <1>1, <3>1, Steps DEF ScriptStages
    <3>5. TypeOK' BY <1>1, <3>1, <3>3, <3>4 DEF TypeOK, ScriptStates, ScriptStages
    <3>6. FlockHeld' BY <1>1, <3>1, <3>3, <3>4 DEF FlockHeld
    <3>7. RecordNames' /\ JournalThere' BY <1>1, <3>1, <3>3 DEF RecordNames, JournalThere
    <3>8. Published' = Published BY <3>3 DEF Published
    <3>9. Published \subseteq DOMAIN daemons BY DEF Published
    <3>10. BeforeOver' BY <1>1, <3>1, <3>3, <3>4, <3>8, <3>9 DEF BeforeOver
    <3> QED BY <3>5, <3>6, <3>7, <3>10 DEF Inv
  <2> QED BY <2>1, <2>2
<1>4. CASE StopWait(s)
  <2>1. UNCHANGED <<daemons, flock, record, journal, raised>> BY <1>4 DEF StopWait
  <2>2. CASE RecordAlive
    <3>1. Step(s, "off") BY <1>4, <2>2 DEF StopWait
    <3> QED BY <2>1, <3>1, ScriptMoves, FlockStays DEF Inv, ScriptStages
  <2>3. CASE ~RecordAlive
    <3>1. Step(s, "journal") BY <1>4, <2>3 DEF StopWait
    <3>2. TypeOK' /\ RecordNames' /\ JournalThere' /\ BeforeOver'
      BY <2>1, <2>3, <3>1, NoLiveRecord, ScriptMoves DEF ScriptStages
    <3> QED BY <2>1, <3>1, <3>2, FlockStays DEF Inv, ScriptStages
  <2> QED BY <2>2, <2>3
<1>5. CASE StopJournal(s)
  <2>1. scripts[s].at = "journal" /\ UNCHANGED <<daemons, record, journal, raised>>
    BY <1>5 DEF StopJournal, Standing
  <2>2. \A d \in scripts[s].before : daemons[d].at \in Ended
    BY <1>1, <2>1 DEF BeforeOver
  <2>3. CASE ~journal
    <3>1. Step(s, "lock") /\ UNCHANGED flock BY <1>5, <2>3 DEF StopJournal
    <3>2. raised = 0 BY <1>1, <2>3 DEF JournalThere
    <3>3. raised \notin scripts[s].before BY <1>1, <3>2 DEF TypeOK
    <3>4. TypeOK' /\ RecordNames' /\ JournalThere' /\ BeforeOver'
      BY <2>1, <2>2, <3>1, <3>3, ScriptMoves DEF ScriptStages
    <3> QED BY <2>1, <3>1, <3>4, FlockStays DEF Inv, ScriptStages
  <2>4. CASE journal /\ flock = {}
    <3>1. Step(s, "restore") /\ flock' = {<<"restore", s>>} BY <1>5, <2>4 DEF StopJournal
    <3>2. TypeOK' /\ RecordNames' /\ JournalThere' /\ BeforeOver'
      BY <2>1, <2>2, <3>1, ScriptMoves DEF ScriptStages
    <3>3. /\ scripts'[s].at = "restore"
          /\ \A t \in Scripts : t # s => scripts'[t] = scripts[t]
      BY <1>1, <3>1, Steps DEF ScriptStages
    <3>4. FlockHeld' BY <1>1, <2>1, <2>4, <3>1, <3>3 DEF FlockHeld
    <3> QED BY <3>2, <3>4 DEF Inv
  <2>5. CASE journal /\ flock # {}
    <3>1. Step(s, "off") /\ UNCHANGED flock BY <1>5, <2>5 DEF StopJournal
    <3> QED BY <2>1, <3>1, ScriptMoves, FlockStays DEF Inv, ScriptStages
  <2> QED BY <2>3, <2>4, <2>5
<1>6. CASE StopRestored(s)
  <2>1. /\ scripts[s].at = "restore" /\ flock' = {}
        /\ UNCHANGED <<daemons, record, journal>>
    BY <1>6 DEF StopRestored, Standing
  <2>2. flock = {<<"restore", s>>} BY <1>1, <2>1 DEF FlockHeld
  <2>3. \A d \in scripts[s].before : daemons[d].at \in Ended
    BY <1>1, <2>1 DEF BeforeOver
  <2>4. \E stage \in {"lock", "off"} :
            Step(s, stage) /\ \/ stage = "lock" /\ raised' = 0
                              \/ stage = "off" /\ raised' = raised
    <3>1. CASE Restoring(s, TRUE) /\ raised' = 0
      <4>1. Step(s, "lock") BY <3>1 DEF Restoring, Step
      <4> QED BY <3>1, <4>1
    <3>2. CASE Restoring(s, FALSE) /\ raised' = raised
      <4>1. Step(s, "off") BY <3>2 DEF Restoring, Step
      <4> QED BY <3>2, <4>1
    <3> QED BY <1>6, <3>1, <3>2 DEF StopRestored
  <2>5. PICK stage \in {"lock", "off"} :
            Step(s, stage) /\ \/ stage = "lock" /\ raised' = 0
                              \/ stage = "off" /\ raised' = raised
    BY <2>4
  <2>6. 0 \notin scripts[s].before BY <1>1 DEF TypeOK
  <2>7. TypeOK' /\ RecordNames' /\ JournalThere' /\ BeforeOver'
    BY <2>1, <2>3, <2>5, <2>6, ScriptMoves DEF ScriptStages
  <2>8. /\ scripts'[s].at = stage
        /\ \A t \in Scripts : t # s => scripts'[t] = scripts[t]
    BY <1>1, <2>5, Steps DEF ScriptStages
  <2>9. FlockHeld'
    <3>1. ASSUME NEW d \in DOMAIN daemons PROVE daemons[d].at \notin Stages \ {"launched", "gone"}
      <4>1. daemons[d].at \in Stages \ {"launched", "gone"} =>
                {<<"run", d>>} = {<<"restore", s>>}
        BY <1>1, <2>2 DEF FlockHeld
      <4>2. {<<"run", d>>} = {<<"restore", s>>} => <<"run", d>> = <<"restore", s>> OBVIOUS
      <4>3. <<"run", d>> # <<"restore", s>> OBVIOUS
      <4> QED BY <4>1, <4>2, <4>3
    <3>2. ASSUME NEW t \in Scripts PROVE scripts'[t].at # "restore"
      <4>1. CASE t = s BY <2>8, <4>1
      <4>2. CASE t # s
        <5>1. scripts[t].at = "restore" => {<<"restore", t>>} = {<<"restore", s>>}
          BY <1>1, <2>2 DEF FlockHeld
        <5>2. {<<"restore", t>>} = {<<"restore", s>>} => <<"restore", t>> = <<"restore", s>>
          OBVIOUS
        <5> QED BY <2>8, <4>2, <5>1, <5>2
      <4> QED BY <4>1, <4>2
    <3> QED BY <2>1, <3>1, <3>2 DEF FlockHeld
  <2> QED BY <2>7, <2>9 DEF Inv
<1> QED BY <1>2, <1>3, <1>4, <1>5, <1>6

\* The rest of the profile, and adaptive_start.sh.
LEMMA ProfileKeeps ==
    ASSUME Inv, NEW s \in Scripts, Locked(s) \/ Unlocks(s) \/ StartCheck(s) \/ StartWait(s)
    PROVE  Inv'
<1>1. TypeOK /\ FlockHeld /\ RecordNames /\ JournalThere /\ BeforeOver BY DEF Inv
<1>2. CASE Locked(s)
  <2>1. scripts[s].at = "lock" /\ UNCHANGED <<daemons, flock, record, journal, raised>>
    BY <1>2 DEF Locked, Standing
  <2>2. /\ \A d \in scripts[s].before : daemons[d].at \in Ended
        /\ raised \notin scripts[s].before
    BY <1>1, <2>1 DEF BeforeOver
  <2>3. Step(s, "write") \/ Step(s, "off") BY <1>2 DEF Locked
  <2>4. TypeOK' /\ RecordNames' /\ JournalThere' /\ BeforeOver'
    BY <2>1, <2>2, <2>3, ScriptMoves DEF ScriptStages
  <2> QED BY <2>1, <2>3, <2>4, FlockStays DEF Inv, ScriptStages
<1>3. CASE Unlocks(s)
  <2>1. Step(s, "start") /\ UNCHANGED <<daemons, flock, record, journal, raised>>
    BY <1>3 DEF Unlocks
  <2> QED BY <2>1, ScriptMoves, FlockStays DEF Inv, ScriptStages
<1>4. CASE StartCheck(s)
  <2>1. CASE Step(s, "off") /\ UNCHANGED daemons
    <3>1. UNCHANGED <<flock, record, journal, raised>> BY <1>4 DEF StartCheck
    <3> QED BY <2>1, <3>1, ScriptMoves, FlockStays DEF Inv, ScriptStages
  <2>2. CASE ~(Step(s, "off") /\ UNCHANGED daemons)
    <3> DEFINE new == [at |-> "launched", term |-> FALSE]
    <3>1. daemons' = Append(daemons, new) /\ Step(s, "await")
          /\ UNCHANGED <<flock, record, journal, raised>>
      BY <1>4, <2>2 DEF StartCheck
    <3>2. new \in Daemons /\ new.at = "launched" BY DEF Daemons, Stages
    <3>3. daemons \in Seq(Daemons) BY <1>1 DEF TypeOK
    <3>4. /\ daemons' \in Seq(Daemons) /\ Len(daemons') = Len(daemons) + 1
          /\ DOMAIN daemons' = DOMAIN daemons \cup {Len(daemons) + 1}
          /\ daemons'[Len(daemons) + 1].at = "launched"
          /\ \A d \in DOMAIN daemons : daemons'[d] = daemons[d]
      <4> HIDE DEF new
      <4> QED BY <3>1, <3>2, <3>3
    <3>5. /\ scripts' \in [Scripts -> ScriptStates]
          /\ scripts'[s].at = "await" /\ scripts'[s].before = scripts[s].before
          /\ \A t \in Scripts : t # s => scripts'[t] = scripts[t]
      BY <1>1, <3>1, Steps DEF ScriptStages
    <3>6. TypeOK' BY <1>1, <3>1, <3>4, <3>5 DEF TypeOK, ScriptStates, ScriptStages
    <3>7. FlockHeld' BY <1>1, <3>1, <3>4, <3>5 DEF FlockHeld
    <3>8. RecordNames' /\ JournalThere' BY <1>1, <3>1, <3>4 DEF RecordNames, JournalThere
    <3>9. Published' = Published BY <3>4 DEF Published
    <3>10. Published \subseteq DOMAIN daemons BY DEF Published
    <3>11. BeforeOver' BY <1>1, <3>1, <3>4, <3>5, <3>9, <3>10 DEF BeforeOver
    <3> QED BY <3>6, <3>7, <3>8, <3>11 DEF Inv
  <2> QED BY <2>1, <2>2
<1>5. CASE StartWait(s)
  <2>1. Step(s, "off") /\ UNCHANGED <<daemons, flock, record, journal, raised>>
    BY <1>5 DEF StartWait
  <2> QED BY <2>1, ScriptMoves, FlockStays DEF Inv, ScriptStages
<1> QED BY <1>2, <1>3, <1>4, <1>5

-----------------------------------------------------------------------------
(* Theorems.                                                               *)

\* The invariant is inductive.
LEMMA InvStep == Inv /\ [LaunchNext]_launchVars => Inv'
<1> SUFFICES ASSUME Inv, [LaunchNext]_launchVars PROVE Inv' OBVIOUS
<1>1. CASE UNCHANGED launchVars
  BY <1>1 DEF launchVars, Inv, TypeOK, FlockHeld, RecordNames, JournalThere, BeforeOver,
      Published
<1>2. CASE LaunchNext BY <1>2, DaemonKeeps, StopKeeps, ProfileKeeps DEF LaunchNext
<1> QED BY <1>1, <1>2

\* Whatever two profile runs, kills and failed restores do, a profile never
\* writes over a value raised by a daemon published before it began, and the
\* record names any daemon that may hold boosts.
THEOREM StopsRelease == LaunchSpec => []StopReleases
<1>1. Inv => StopReleases
  BY DEF Inv, RecordNames, BeforeOver, StopReleases, Standing
<1> QED BY <1>1, InvInit, InvStep, PTL DEF LaunchSpec

-----------------------------------------------------------------------------
(****************************************************************************)
(* AppConfig.                                                              *)
(* A slice of the configuration is in the hands of one call at most, but for *)
(* the lists, whose saves queue up: there it is the latest's. Whoever        *)
(* has it carries what is shown, and what nobody has is on file: an invariant *)
(* about every write still on its way, since the file is written whole.    *)
(****************************************************************************)

Owners == Slices \cup {"refresh"}
Calls == [who : Owners, op : {"write", "read", "tier"}, config : [Slices -> Values],
          done : BOOLEAN, ok : BOOLEAN]

AppTypes ==
    /\ {shown, persisted, file, chosen} \subseteq [Slices -> Values]
    /\ kernel \in [Tiers -> Values] /\ waiting \subseteq Tiers
    /\ section \in [tier : Tiers \cup {"none"}, alive : BOOLEAN]
    /\ shell \in Seq(Calls)
    /\ crossed \in BOOLEAN /\ acts \in Nat /\ troubles \in Nat

\* No call behind the i-th is of the same caller.
LatestIn(calls, i) == \A j \in DOMAIN calls : j > i => calls[j].who # calls[i].who

\* Of the calls that save a list one is the latest.
LastList(calls) ==
    (\E i \in DOMAIN calls : calls[i].who = "lists") =>
        \E i \in DOMAIN calls : calls[i].who = "lists" /\ LatestIn(calls, i)

\* Every caller but the lists has one call out at most; a tier's is that of the job in the
\* lock, which is cancelled only by an edit that waits behind it; a script runs
\* for a tier alone, and no refresh writes.
OneCall ==
    /\ \A i, j \in DOMAIN shell : shell[i].who = shell[j].who /\ shell[i].who # "lists" => i = j
    /\ LastList(shell)
    /\ \A i \in DOMAIN shell :
          /\ shell[i].who \in Tiers => shell[i].who = section.tier
          /\ shell[i].op = "tier" => shell[i].who \in Tiers
          /\ shell[i].op = "write" => shell[i].who # "refresh"
    /\ section.tier = "none" => section = Unlocked
    /\ section.tier \in waiting <=> section.tier # "none" /\ ~section.alive

\* The writes after the i-th call that have not run carry what is shown of s.
Ahead(i, s) ==
    \A j \in DOMAIN shell :
        j > i /\ shell[j].op = "write" /\ ~shell[j].done => shell[j].config[s] = shown[s]

\* What is shown of s is in the file, and no write on its way takes it out.
OnFile(s) == file[s] = shown[s] /\ Ahead(0, s)

\* s is in nobody's hands; its job has been entered and not cancelled.
Unheld(s) == IF s = "lists" THEN ~Calling(s) ELSE s \notin waiting /\ section.tier # s
Running(s) == s = "lists" \/ (section.tier = s /\ section.alive)

\* A slice nobody works on is on file; one that is being saved is in its own
\* (latest) write and in those after it, and on file once that write succeeded.
Carried ==
    /\ \A s \in Slices : Unheld(s) => OnFile(s)
    /\ \A i \in DOMAIN shell : \A s \in Slices :
          shell[i].who = s /\ Running(s) /\ LatestIn(shell, i) =>
             /\ shell[i].op = "write" =>
                   /\ shell[i].config[s] = shown[s]
                   /\ IF shell[i].done THEN shell[i].ok => OnFile(s) ELSE Ahead(i, s)
             /\ shell[i].op = "tier" => OnFile(s)

\* The screen is what was chosen, but for a list about to be taken back.
Chosen ==
    \A s \in Slices :
        \/ chosen[s] = shown[s]
        \/ s = "lists" /\ \E i \in DOMAIN shell : shell[i].who = s /\ shell[i].op = "read"

\* While no call failed, every tier nobody works on runs what is on file.
Applied ==
    troubles = 0 =>
        /\ \A i \in DOMAIN shell :
              /\ shell[i].done => shell[i].ok
              /\ shell[i].op = "read" => shell[i].who = "refresh"
              /\ shell[i].op = "tier" /\ shell[i].done /\ Running(shell[i].who) =>
                    kernel[shell[i].who] = shown[shell[i].who]
        /\ \A t \in Tiers : Unheld(t) => kernel[t] = shown[t]

AppInv == AppTypes /\ OneCall /\ (~crossed => Carried /\ Chosen /\ Applied)

LEMMA AppInvInit == AppInit => AppInv
<1> SUFFICES ASSUME AppInit PROVE AppInv
  OBVIOUS
<1> USE AppBounds DEF AppInit, Nothingness, Slices, Tiers, Unlocked
<1>1. AppTypes
  <2>1. [s \in Slices |-> 0] \in [Slices -> Values] /\ [t \in Tiers |-> 0] \in [Tiers -> Values]
    OBVIOUS
  <2>2. <<>> \in Seq(Calls)
    OBVIOUS
  <2>3. [tier |-> "none", alive |-> FALSE] \in [tier : Tiers \cup {"none"}, alive : BOOLEAN]
    OBVIOUS
  <2> QED BY <2>1, <2>2, <2>3 DEF AppTypes
<1>2. OneCall
  BY DEF OneCall, LastList
<1>3. Carried /\ Chosen /\ Applied
  BY DEF Carried, Chosen, Applied, OnFile, Ahead
<1> QED BY <1>1, <1>2, <1>3 DEF AppInv

\* The calls left when the first is answered, and when one more is made.
LEMMA Answered ==
    ASSUME AppTypes, shell # <<>>
    PROVE  /\ 1 \in DOMAIN shell /\ Head(shell) = shell[1] /\ Head(shell) \in Calls
           /\ Tail(shell) \in Seq(Calls)
           /\ \A i \in DOMAIN Tail(shell) :
                 i + 1 \in DOMAIN shell /\ Tail(shell)[i] = shell[i + 1] /\ i \in Nat
           /\ \A i \in DOMAIN shell : i \in Nat /\ (i # 1 => i - 1 \in DOMAIN Tail(shell))
BY DEF AppTypes

\* The calls behind the first: but for lists they are other callers', no two of one.
LEMMA Behind ==
    ASSUME AppTypes, OneCall, shell # <<>>
    PROVE  /\ \A i \in DOMAIN Tail(shell) :
                 /\ Head(shell).who # "lists" => Tail(shell)[i].who # Head(shell).who
                 /\ Tail(shell)[i].who \in Tiers => Tail(shell)[i].who = section.tier
                 /\ Tail(shell)[i].op = "tier" => Tail(shell)[i].who \in Tiers
                 /\ Tail(shell)[i].op = "write" => Tail(shell)[i].who # "refresh"
           /\ \A i, j \in DOMAIN Tail(shell) :
                 Tail(shell)[i].who = Tail(shell)[j].who /\ Tail(shell)[i].who # "lists" => i = j
           /\ \A i \in DOMAIN Tail(shell) : LatestIn(Tail(shell), i) => LatestIn(shell, i + 1)
           /\ LastList(Tail(shell))
           /\ \A i \in DOMAIN shell : i # 1 => \E j \in DOMAIN Tail(shell) : Tail(shell)[j] = shell[i]
<1> DEFINE rest == Tail(shell)
<1>1. /\ 1 \in DOMAIN shell /\ Head(shell) = shell[1]
      /\ \A i \in DOMAIN rest : i + 1 \in DOMAIN shell /\ rest[i] = shell[i + 1] /\ i \in Nat /\ i # 0
      /\ \A i \in DOMAIN shell : i \in Nat /\ (i # 1 => i - 1 \in DOMAIN rest)
  BY Answered DEF AppTypes
<1> HIDE DEF rest
<1>2. ASSUME NEW i \in DOMAIN rest
      PROVE  /\ Head(shell).who # "lists" => rest[i].who # Head(shell).who
             /\ rest[i].who \in Tiers => rest[i].who = section.tier
             /\ rest[i].op = "tier" => rest[i].who \in Tiers
             /\ rest[i].op = "write" => rest[i].who # "refresh"
  <2>1. i + 1 \in DOMAIN shell /\ i + 1 # 1 /\ rest[i] = shell[i + 1] /\ 1 \in DOMAIN shell
    BY <1>1
  <2> QED BY <1>1, <2>1 DEF OneCall
<1>3. ASSUME NEW i \in DOMAIN rest, NEW j \in DOMAIN rest, rest[i].who = rest[j].who,
             rest[i].who # "lists"
      PROVE  i = j
  <2>1. i + 1 \in DOMAIN shell /\ rest[i] = shell[i + 1] /\ j + 1 \in DOMAIN shell /\ rest[j] = shell[j + 1]
        /\ i \in Nat /\ j \in Nat
    BY <1>1
  <2>2. i + 1 = j + 1
    BY <1>3, <2>1 DEF OneCall
  <2> QED BY <2>1, <2>2
<1>4. ASSUME NEW i \in DOMAIN shell, i # 1
      PROVE  \E j \in DOMAIN rest : rest[j] = shell[i]
  <2>1. i - 1 \in DOMAIN rest /\ i \in Nat /\ (i - 1) + 1 = i
    BY <1>1, <1>4
  <2>2. rest[i - 1] = shell[(i - 1) + 1]
    BY <1>1, <2>1
  <2> QED BY <2>1, <2>2
<1>5. ASSUME NEW i \in DOMAIN rest, LatestIn(rest, i) PROVE LatestIn(shell, i + 1)
  <2> SUFFICES ASSUME NEW j \in DOMAIN shell, j > i + 1 PROVE shell[j].who # shell[i + 1].who
    BY DEF LatestIn
  <2>1. j - 1 \in DOMAIN rest /\ j \in Nat /\ i \in Nat /\ rest[i] = shell[i + 1]
    BY <1>1
  <2>2. rest[j - 1] = shell[(j - 1) + 1] /\ (j - 1) + 1 = j /\ j - 1 > i
    BY <1>1, <2>1
  <2> QED BY <1>5, <2>1, <2>2 DEF LatestIn
<1>6. LastList(rest)
  <2> SUFFICES ASSUME NEW k \in DOMAIN rest, rest[k].who = "lists"
               PROVE  \E i \in DOMAIN rest : rest[i].who = "lists" /\ LatestIn(rest, i)
    BY DEF LastList
  <2>1. k + 1 \in DOMAIN shell /\ shell[k + 1].who = "lists" /\ k \in Nat /\ k # 0
    BY <1>1
  <2>2. PICK m \in DOMAIN shell : shell[m].who = "lists" /\ LatestIn(shell, m)
    BY <2>1 DEF OneCall, LastList
  <2>3. m \in Nat /\ m # 1
    BY <1>1, <2>1, <2>2 DEF LatestIn
  <2>4. m - 1 \in DOMAIN rest /\ (m - 1) + 1 = m
    BY <1>1, <2>3
  <2>5. rest[m - 1] = shell[(m - 1) + 1]
    BY <1>1, <2>4
  <2>6. rest[m - 1] = shell[m]
    BY <2>4, <2>5
  <2>7. LatestIn(rest, m - 1)
    <3> SUFFICES ASSUME NEW j \in DOMAIN rest, j > m - 1 PROVE rest[j].who # rest[m - 1].who
      BY DEF LatestIn
    <3>1. j + 1 \in DOMAIN shell /\ j + 1 > m /\ rest[j] = shell[j + 1]
      BY <1>1, <2>3
    <3> QED BY <2>2, <2>6, <3>1 DEF LatestIn
  <2> QED BY <2>2, <2>4, <2>6, <2>7
<1> QED BY <1>2, <1>3, <1>4, <1>5, <1>6 DEF rest

LEMMA Made ==
    ASSUME NEW calls \in Seq(Calls), NEW c \in Calls
    PROVE  /\ Append(calls, c) \in Seq(Calls)
           /\ DOMAIN Append(calls, c) = DOMAIN calls \cup {Len(calls) + 1}
           /\ \A i \in DOMAIN calls : i \in Nat /\ i <= Len(calls) /\ Append(calls, c)[i] = calls[i]
           /\ Append(calls, c)[Len(calls) + 1] = c /\ Len(calls) \in Nat
OBVIOUS

\* One more call is the latest of its caller; of the others none becomes it.
LEMMA MadeLatest ==
    ASSUME NEW calls \in Seq(Calls), NEW c \in Calls
    PROVE  /\ LatestIn(Append(calls, c), Len(calls) + 1)
           /\ \A i \in DOMAIN calls : LatestIn(Append(calls, c), i) =>
                                        LatestIn(calls, i) /\ calls[i].who # c.who
           /\ LastList(calls) => LastList(Append(calls, c))
<1> DEFINE more == Append(calls, c)
           n == Len(calls) + 1
<1>1. /\ DOMAIN more = DOMAIN calls \cup {n} /\ more[n] = c /\ n \in Nat
      /\ \A i \in DOMAIN calls : i \in Nat /\ i < n /\ more[i] = calls[i]
  BY Made
<1> HIDE DEF more, n
<1>2. LatestIn(more, n)
  BY <1>1 DEF LatestIn
<1>3. ASSUME NEW i \in DOMAIN calls, LatestIn(more, i)
      PROVE  LatestIn(calls, i) /\ calls[i].who # c.who
  BY <1>1, <1>3 DEF LatestIn
<1>4. ASSUME LastList(calls) PROVE LastList(more)
  <2>1. CASE c.who = "lists"
    BY <1>1, <1>2, <2>1 DEF LastList
  <2>2. CASE c.who # "lists"
    <3> SUFFICES ASSUME NEW k \in DOMAIN more, more[k].who = "lists"
                 PROVE  \E i \in DOMAIN more : more[i].who = "lists" /\ LatestIn(more, i)
      BY DEF LastList
    <3>1. k \in DOMAIN calls /\ calls[k].who = "lists"
      BY <1>1, <2>2
    <3>2. PICK m \in DOMAIN calls : calls[m].who = "lists" /\ LatestIn(calls, m)
      BY <1>4, <3>1 DEF LastList
    <3>3. m \in DOMAIN more /\ more[m].who = "lists" /\ LatestIn(more, m)
      BY <1>1, <2>2, <3>2 DEF LatestIn
    <3> QED BY <3>3
  <2> QED BY <2>1, <2>2
<1> QED BY <1>2, <1>3, <1>4 DEF more, n

\* What is ahead of a call stays ahead of it, when the first call is answered
\* and when a write of what is shown is made.
LEMMA AheadAnswered ==
    ASSUME AppTypes, shell # <<>>, shell' = Tail(shell), NEW s \in Slices, shown'[s] = shown[s]
    PROVE  /\ \A i \in Nat : Ahead(i + 1, s) => Ahead(i, s)'
           /\ Ahead(0, s) => Ahead(0, s)'
<1>1. ASSUME NEW i \in Nat, Ahead(i + 1, s) PROVE Ahead(i, s)'
  BY <1>1, Answered DEF Ahead
<1>2. ASSUME Ahead(0, s) PROVE Ahead(0, s)'
  BY <1>2, Answered DEF Ahead
<1> QED BY <1>1, <1>2

LEMMA AheadMade ==
    ASSUME AppTypes, NEW c \in Calls, shell' = Append(shell, c), NEW s \in Slices,
           shown'[s] = shown[s], c.op = "write" => c.config[s] = shown[s]
    PROVE  \A i \in Nat : Ahead(i, s) => Ahead(i, s)'
<1> SUFFICES ASSUME NEW i \in Nat, Ahead(i, s) PROVE Ahead(i, s)'
  OBVIOUS
<1>1. /\ DOMAIN shell' = DOMAIN shell \cup {Len(shell) + 1}
      /\ \A j \in DOMAIN shell : shell'[j] = shell[j]
      /\ shell'[Len(shell) + 1] = c
  BY Made DEF AppTypes
<1> QED BY <1>1 DEF Ahead

LEMMA AheadTurned ==
    ASSUME AppTypes, shell # <<>>, NEW c \in Calls, c.op # "write",
           shell' = Append(Tail(shell), c), NEW s \in Slices, shown'[s] = shown[s]
    PROVE  /\ \A i \in Nat : Ahead(i + 1, s) => Ahead(i, s)'
           /\ Ahead(0, s) => Ahead(0, s)'
<1> DEFINE rest == Tail(shell)
<1>1. /\ DOMAIN shell' = DOMAIN rest \cup {Len(rest) + 1}
      /\ \A j \in DOMAIN rest : shell'[j] = rest[j]
      /\ shell'[Len(rest) + 1] = c
      /\ \A j \in DOMAIN rest : j \in Nat /\ j + 1 \in DOMAIN shell /\ rest[j] = shell[j + 1]
  BY Answered, Made
<1> HIDE DEF rest
<1>2. ASSUME NEW i \in Nat, Ahead(i + 1, s) PROVE Ahead(i, s)'
  BY <1>1, <1>2 DEF Ahead
<1>3. ASSUME Ahead(0, s) PROVE Ahead(0, s)'
  BY <1>1, <1>3 DEF Ahead
<1> QED BY <1>2, <1>3

\* The user's own operations change what is shown and chosen of one slice, which
\* is then in somebody's hands.
LEMMA AskKeeps ==
    ASSUME AppInv, NEW t \in Tiers, NEW v \in Values, Edit(t, v) \/ Operate(t, v)
    PROVE  AppInv'
<1> USE DEF AppInv
<1>1. /\ shown' = [shown EXCEPT ![t] = v] /\ chosen' = [chosen EXCEPT ![t] = v]
      /\ waiting' = waiting \cup {t}
      /\ section' = IF section.tier = t THEN [section EXCEPT !.alive = FALSE] ELSE section
      /\ UNCHANGED <<persisted, file, kernel, shell, crossed, troubles>> /\ acts' = acts + 1
  BY DEF Edit, Operate, Choose, Cancelled, Act
<1>2. section'.tier = section.tier /\ (section.tier # t => section' = section)
      /\ section' \in [tier : Tiers \cup {"none"}, alive : BOOLEAN]
      /\ (section.tier = t => ~section'.alive)
  BY <1>1 DEF AppTypes
<1>3. AppTypes'
  BY <1>1, <1>2 DEF AppTypes, Slices
<1>4. OneCall'
  <2>1. section.tier = "none" => section' = Unlocked
    BY <1>2, AppBounds DEF OneCall, Tiers
  <2>2. section'.tier \in waiting' <=> section'.tier # "none" /\ ~section'.alive
    BY <1>1, <1>2, AppBounds DEF OneCall, Tiers
  <2> QED BY <1>1, <1>2, <2>1, <2>2 DEF OneCall, Unlocked
<1>5. t \in Slices /\ t # "lists" /\ \A s \in Slices \ {t} : shown'[s] = shown[s] /\ chosen'[s] = chosen[s]
  BY <1>1, AppBounds DEF AppTypes, Slices, Tiers
<1>6. ~Unheld(t)' /\ ~Running(t)'
  BY <1>1, <1>2, <1>5 DEF Unheld, Running
<1>7. \A s \in Slices \ {t} : (Unheld(s)' <=> Unheld(s)) /\ (Running(s)' <=> Running(s))
  BY <1>1, <1>2 DEF Unheld, Running, Calling
<1>8. \A s \in Slices \ {t} : (OnFile(s)' <=> OnFile(s)) /\ \A i \in Nat : Ahead(i, s)' <=> Ahead(i, s)
  BY <1>1, <1>5 DEF OnFile, Ahead
<1>9. ASSUME ~crossed PROVE Carried' /\ Chosen' /\ Applied'
  <2>1. Carried'
    <3>1. \A i \in DOMAIN shell : i \in Nat
      BY DEF AppTypes
    <3> QED BY <1>1, <1>5, <1>6, <1>7, <1>8, <1>9, <3>1 DEF Carried
  <2>2. Chosen'
    BY <1>1, <1>5, <1>9 DEF Chosen, AppTypes
  <2>3. Applied'
    <3>1. \A i \in DOMAIN shell : Running(shell[i].who)' => shell[i].who # t
      BY <1>1, <1>6 DEF Running
    <3>2. \A i \in DOMAIN shell : shell[i].op = "tier" => shell[i].who \in Slices
      BY DEF OneCall, Slices
    <3>3. \A s \in Tiers : s \in Slices
      BY DEF Slices
    <3> QED BY <1>1, <1>5, <1>6, <1>7, <1>9, <3>1, <3>2, <3>3 DEF Applied
  <2> QED BY <2>1, <2>2, <2>3
<1> QED BY <1>1, <1>3, <1>4, <1>9

\* A list is saved at once: its write goes behind all others with what is shown.
LEMMA StoreKeeps ==
    ASSUME AppInv, NEW v \in Values, StoreList(v)
    PROVE  AppInv'
<1> USE DEF AppInv
<1> DEFINE c == [who |-> "lists", op |-> "write", config |-> shown', done |-> FALSE, ok |-> FALSE]
           n == Len(shell) + 1
<1>1. /\ shown' = [shown EXCEPT !["lists"] = v] /\ chosen' = [chosen EXCEPT !["lists"] = v]
      /\ shell' = Append(shell, c) /\ acts' = acts + 1
      /\ UNCHANGED <<persisted, file, kernel, waiting, section, crossed, troubles>>
  BY DEF StoreList, Choose, Call, Act
<1>2. "lists" \in Slices /\ shown' \in [Slices -> Values] /\ chosen' \in [Slices -> Values]
      /\ shown'["lists"] = v /\ chosen'["lists"] = v
      /\ \A s \in Slices \ {"lists"} : shown'[s] = shown[s] /\ chosen'[s] = chosen[s]
  BY <1>1 DEF AppTypes, Slices
<1>3. c \in Calls
  BY <1>2 DEF Calls, Owners
<1>4. /\ shell' \in Seq(Calls) /\ DOMAIN shell' = DOMAIN shell \cup {n} /\ shell'[n] = c
      /\ \A i \in DOMAIN shell : i \in Nat /\ i < n /\ shell'[i] = shell[i]
      /\ n \in Nat
  BY <1>1, <1>3, Made DEF AppTypes
<1>6. /\ \A i \in DOMAIN shell : LatestIn(shell', i) => LatestIn(shell, i) /\ shell[i].who # "lists"
      /\ LastList(shell) => LastList(shell')
  BY <1>1, <1>3, MadeLatest DEF AppTypes
<1> HIDE DEF n
<1>5. AppTypes'
  BY <1>1, <1>2, <1>4 DEF AppTypes
<1>7. OneCall'
  BY <1>1, <1>4, <1>6, AppBounds DEF OneCall, Tiers
<1>8. \A s \in Slices \ {"lists"} : (Unheld(s)' <=> Unheld(s)) /\ (Running(s)' <=> Running(s))
  BY <1>1 DEF Unheld, Running
<1>9. ~Unheld("lists")'
  BY <1>4 DEF Unheld, Calling
<1>10. \A s \in Slices \ {"lists"} :
         (OnFile(s) => OnFile(s)') /\ \A i \in Nat : Ahead(i, s) => Ahead(i, s)'
  <2> SUFFICES ASSUME NEW s \in Slices \ {"lists"}
               PROVE  \A i \in Nat : Ahead(i, s) => Ahead(i, s)'
    BY <1>1, <1>2 DEF OnFile
  <2>1. shown'[s] = shown[s] /\ c.config[s] = shown[s]
    BY <1>2
  <2> QED BY <1>1, <1>3, <2>1, AheadMade
<1>12. ASSUME ~crossed PROVE Carried' /\ Chosen' /\ Applied'
  <2>1. Carried'
    <3>1. \A s \in Slices : Unheld(s)' => OnFile(s)'
      BY <1>8, <1>9, <1>10, <1>12 DEF Carried
    <3>2. ASSUME NEW i \in DOMAIN shell', NEW s \in Slices, shell'[i].who = s, Running(s)',
                 LatestIn(shell', i)
          PROVE  /\ shell'[i].op = "write" =>
                      /\ shell'[i].config[s] = shown'[s]
                      /\ IF shell'[i].done THEN shell'[i].ok => OnFile(s)' ELSE Ahead(i, s)'
                 /\ shell'[i].op = "tier" => OnFile(s)'
      <4>1. CASE i = n
        <5>1. Ahead(i, s)'
          BY <1>4, <4>1 DEF Ahead
        <5> QED BY <1>4, <3>2, <4>1, <5>1
      <4>2. CASE i # n
        <5>1. /\ i \in DOMAIN shell /\ i \in Nat /\ shell'[i] = shell[i] /\ s # "lists" /\ Running(s)
              /\ LatestIn(shell, i)
          BY <1>4, <1>6, <1>8, <3>2, <4>2
        <5> QED BY <1>2, <1>10, <1>12, <3>2, <5>1 DEF Carried
      <4> QED BY <4>1, <4>2
    <3> QED BY <3>1, <3>2 DEF Carried
  <2>2. Chosen'
    BY <1>2, <1>12 DEF Chosen
  <2>3. Applied'
    <3>1. Tiers \subseteq Slices \ {"lists"}
      BY AppBounds DEF Slices, Tiers
    <3>2. \A i \in DOMAIN shell : shell[i].op = "tier" => shell[i].who \in Tiers
      BY DEF OneCall
    <3> QED BY <1>1, <1>2, <1>4, <1>8, <1>12, <3>1, <3>2 DEF Applied
  <2> QED BY <2>1, <2>2, <2>3
<1> QED BY <1>1, <1>5, <1>7, <1>12

\* A job enters the lock with a write of what is shown.
LEMMA EnterKeeps ==
    ASSUME AppInv, NEW t \in Tiers, Enter(t)
    PROVE  AppInv'
<1> USE DEF AppInv
<1> DEFINE c == [who |-> t, op |-> "write", config |-> shown, done |-> FALSE, ok |-> FALSE]
           n == Len(shell) + 1
<1>1. /\ shell' = Append(shell, c) /\ section = Unlocked /\ t \in waiting
      /\ waiting' = waiting \ {t} /\ section' = [tier |-> t, alive |-> TRUE]
      /\ UNCHANGED <<shown, persisted, file, kernel, chosen, crossed, acts, troubles>>
  BY DEF Enter, Call
<1>2. t \in Slices /\ t # "lists" /\ t # "none" /\ t # "refresh" /\ Tiers \subseteq Slices \ {"lists"}
  BY AppBounds DEF Slices, Tiers
<1>3. c \in Calls
  BY <1>2 DEF Calls, Owners, AppTypes
<1>4. /\ shell' \in Seq(Calls) /\ DOMAIN shell' = DOMAIN shell \cup {n} /\ shell'[n] = c
      /\ \A i \in DOMAIN shell : i \in Nat /\ i < n /\ shell'[i] = shell[i]
      /\ n \in Nat
  BY <1>1, <1>3, Made DEF AppTypes
<1> HIDE DEF n
<1>5. AppTypes'
  BY <1>1, <1>4 DEF AppTypes
<1>6. section.tier = "none" /\ \A i \in DOMAIN shell : shell[i].who \notin Tiers
  BY <1>1, AppBounds DEF OneCall, Unlocked, Tiers
<1>10. /\ \A i \in DOMAIN shell : LatestIn(shell', i) => LatestIn(shell, i)
       /\ LastList(shell) => LastList(shell')
  BY <1>1, <1>3, MadeLatest DEF AppTypes
<1>7. OneCall'
  BY <1>1, <1>2, <1>4, <1>6, <1>10 DEF OneCall
<1>8. \A s \in Slices : Unheld(s)' => Unheld(s)
  <2>1. Unheld("lists")' => Unheld("lists")
    BY <1>4 DEF Unheld, Calling
  <2>2. \A s \in Slices \ {"lists"} : Unheld(s)' => s \notin waiting /\ section.tier # s
    BY <1>1, <1>2, <1>6, AppBounds DEF Unheld, Slices, Tiers
  <2> QED BY <2>1, <2>2 DEF Unheld
<1>9. \A s \in Slices :
        (OnFile(s) => OnFile(s)') /\ \A i \in Nat : Ahead(i, s) => Ahead(i, s)'
  <2> SUFFICES ASSUME NEW s \in Slices
               PROVE  \A i \in Nat : Ahead(i, s) => Ahead(i, s)'
    BY <1>1 DEF OnFile
  <2> QED BY <1>1, <1>3, AheadMade
<1>11. ASSUME ~crossed PROVE Carried' /\ Chosen' /\ Applied'
  <2>1. Carried'
    <3>1. \A s \in Slices : Unheld(s)' => OnFile(s)'
      BY <1>8, <1>9, <1>11 DEF Carried
    <3>2. ASSUME NEW i \in DOMAIN shell', NEW s \in Slices, shell'[i].who = s, Running(s)',
                 LatestIn(shell', i)
          PROVE  /\ shell'[i].op = "write" =>
                      /\ shell'[i].config[s] = shown'[s]
                      /\ IF shell'[i].done THEN shell'[i].ok => OnFile(s)' ELSE Ahead(i, s)'
                 /\ shell'[i].op = "tier" => OnFile(s)'
      <4>1. CASE i = n
        <5>1. Ahead(i, s)'
          BY <1>4, <4>1 DEF Ahead
        <5> QED BY <1>1, <1>4, <3>2, <4>1, <5>1
      <4>2. CASE i # n
        <5>1. i \in DOMAIN shell /\ i \in Nat /\ shell'[i] = shell[i]
          BY <1>4, <3>2, <4>2
        <5>2. s = "lists" /\ Running(s) /\ LatestIn(shell, i)
          BY <1>6, <1>10, <3>2, <5>1 DEF Slices, Running
        <5> QED BY <1>1, <1>9, <1>11, <3>2, <5>1, <5>2 DEF Carried
      <4> QED BY <4>1, <4>2
    <3> QED BY <3>1, <3>2 DEF Carried
  <2>2. Chosen'
    BY <1>1, <1>4, <1>11 DEF Chosen
  <2>3. Applied'
    BY <1>1, <1>2, <1>4, <1>6, <1>8, <1>11 DEF Applied, OneCall
  <2> QED BY <2>1, <2>2, <2>3
<1> QED BY <1>1, <1>5, <1>7, <1>11

\* refresh() asks for the file.
LEMMA RereadKeeps == ASSUME AppInv, Reread PROVE AppInv'
<1> USE DEF AppInv
<1> DEFINE c == [who |-> "refresh", op |-> "read", config |-> shown, done |-> FALSE, ok |-> FALSE]
           n == Len(shell) + 1
<1>1. /\ shell' = Append(shell, c) /\ ~Calling("refresh") /\ acts' = acts + 1
      /\ UNCHANGED <<shown, persisted, file, kernel, waiting, section, chosen, crossed, troubles>>
  BY DEF Reread, Call, Act
<1>2. "refresh" \notin Slices /\ Tiers \subseteq Slices
  BY AppBounds DEF Slices, Tiers
<1>3. c \in Calls
  BY DEF Calls, Owners, AppTypes
<1>4. /\ shell' \in Seq(Calls) /\ DOMAIN shell' = DOMAIN shell \cup {n} /\ shell'[n] = c
      /\ \A i \in DOMAIN shell : i \in Nat /\ i < n /\ shell'[i] = shell[i]
      /\ n \in Nat
  BY <1>1, <1>3, Made DEF AppTypes
<1> HIDE DEF n
<1>5. AppTypes'
  BY <1>1, <1>4 DEF AppTypes
<1>10. /\ \A i \in DOMAIN shell : LatestIn(shell', i) => LatestIn(shell, i)
       /\ LastList(shell) => LastList(shell')
  BY <1>1, <1>3, MadeLatest DEF AppTypes
<1>6. OneCall'
  BY <1>1, <1>2, <1>4, <1>10 DEF OneCall, Calling
<1>7. \A s \in Slices : (Unheld(s)' <=> Unheld(s)) /\ (Running(s)' <=> Running(s))
  BY <1>1, <1>4 DEF Unheld, Running, Calling
<1>8. \A s \in Slices :
        (OnFile(s) => OnFile(s)') /\ \A i \in Nat : Ahead(i, s) => Ahead(i, s)'
  <2> SUFFICES ASSUME NEW s \in Slices
               PROVE  \A i \in Nat : Ahead(i, s) => Ahead(i, s)'
    BY <1>1 DEF OnFile
  <2> QED BY <1>1, <1>3, AheadMade
<1>9. ASSUME ~crossed PROVE Carried' /\ Chosen' /\ Applied'
  <2>1. Carried'
    <3>1. ASSUME NEW i \in DOMAIN shell', NEW s \in Slices, shell'[i].who = s, Running(s)',
                 LatestIn(shell', i)
          PROVE  /\ shell'[i].op = "write" =>
                      /\ shell'[i].config[s] = shown'[s]
                      /\ IF shell'[i].done THEN shell'[i].ok => OnFile(s)' ELSE Ahead(i, s)'
                 /\ shell'[i].op = "tier" => OnFile(s)'
      <4>1. /\ i # n /\ i \in DOMAIN shell /\ i \in Nat /\ shell'[i] = shell[i] /\ Running(s)
            /\ LatestIn(shell, i)
        BY <1>2, <1>4, <1>7, <1>10, <3>1
      <4> QED BY <1>1, <1>8, <1>9, <3>1, <4>1 DEF Carried
    <3> QED BY <1>7, <1>8, <1>9, <3>1 DEF Carried
  <2>2. Chosen'
    BY <1>1, <1>4, <1>9 DEF Chosen
  <2>3. Applied'
    BY <1>1, <1>2, <1>4, <1>7, <1>9 DEF Applied, OneCall
  <2> QED BY <2>1, <2>2, <2>3
<1> QED BY <1>1, <1>5, <1>6, <1>9

\* The shell runs the first call it has not run: a write that succeeds puts in
\* the file what its caller and every slice nobody works on show.
LEMMA RunKeeps ==
    ASSUME AppInv, NEW ok \in BOOLEAN, ShellRuns(ok)
    PROVE  AppInv'
<1> USE DEF AppInv
<1>1. PICK i \in DOMAIN shell :
        /\ ~shell[i].done /\ \A j \in 1..i - 1 : shell[j].done
        /\ troubles' = IF ok THEN troubles ELSE troubles + 1
        /\ shell' = [shell EXCEPT ![i] =
               [shell[i] EXCEPT !.done = TRUE, !.ok = ok,
                                !.config = IF shell[i].op = "read" THEN file ELSE @]]
        /\ file' = IF ok /\ shell[i].op = "write" THEN shell[i].config ELSE file
        /\ kernel' = IF ok /\ shell[i].op = "tier"
                     THEN [kernel EXCEPT ![shell[i].who] = file[shell[i].who]] ELSE kernel
        /\ UNCHANGED <<shown, persisted, waiting, section, chosen, crossed, acts>>
  BY DEF ShellRuns
<1>2. /\ shell[i] \in Calls /\ \A j \in DOMAIN shell : j \in Nat \ {0}
      /\ DOMAIN shell' = DOMAIN shell
      /\ \A j \in DOMAIN shell : j # i => shell'[j] = shell[j]
  BY <1>1 DEF AppTypes
<1>3. shell'[i] = [who |-> shell[i].who, op |-> shell[i].op,
                   config |-> IF shell[i].op = "read" THEN file ELSE shell[i].config,
                   done |-> TRUE, ok |-> ok]
  BY <1>1, <1>2 DEF Calls, AppTypes
<1>4. AppTypes'
  <2>1. shell'[i] \in Calls
    BY <1>2, <1>3 DEF Calls, AppTypes
  <2>2. shell' \in Seq(Calls)
    <3> DEFINE e == [shell[i] EXCEPT !.done = TRUE, !.ok = ok,
                                     !.config = IF shell[i].op = "read" THEN file ELSE @]
    <3>1. shell' = [shell EXCEPT ![i] = e] /\ shell'[i] = e
      BY <1>1 DEF AppTypes
    <3>2. e \in Calls
      BY <2>1, <3>1
    <3> HIDE DEF e
    <3> QED BY <3>1, <3>2, <1>1 DEF AppTypes
  <2>3. file' \in [Slices -> Values]
    BY <1>1, <1>2 DEF Calls, AppTypes
  <2>4. kernel' \in [Tiers -> Values]
    <3>1. CASE ok /\ shell[i].op = "tier"
      <4>1. shell[i].who \in Tiers /\ file[shell[i].who] \in Values
        BY <3>1 DEF OneCall, AppTypes, Slices
      <4> QED BY <1>1, <3>1, <4>1 DEF AppTypes
    <3> QED BY <1>1, <3>1 DEF AppTypes
  <2>5. troubles' \in Nat
    BY <1>1 DEF AppTypes
  <2> QED BY <1>1, <2>2, <2>3, <2>4, <2>5 DEF AppTypes
<1>5. \A j \in DOMAIN shell : shell'[j].who = shell[j].who /\ shell'[j].op = shell[j].op
  BY <1>2, <1>3
<1>11. /\ \A j \in DOMAIN shell : LatestIn(shell', j) <=> LatestIn(shell, j)
       /\ LastList(shell')
  <2>1. \A j \in DOMAIN shell : LatestIn(shell', j) <=> LatestIn(shell, j)
    BY <1>2, <1>5 DEF LatestIn
  <2> QED BY <1>2, <1>5, <2>1 DEF OneCall, LastList
<1>6. OneCall'
  BY <1>1, <1>2, <1>5, <1>11 DEF OneCall
<1>7. \A s \in Slices : (Unheld(s)' <=> Unheld(s)) /\ (Running(s)' <=> Running(s))
  BY <1>1, <1>2, <1>5 DEF Unheld, Running, Calling
<1>8. \A j \in Nat : \A s \in Slices : Ahead(j, s) => Ahead(j, s)'
  BY <1>1, <1>2, <1>3 DEF Ahead
<1>9. \A s \in Slices : OnFile(s) => OnFile(s)'
  BY <1>1, <1>2, <1>8 DEF OnFile, Ahead
<1>10. ASSUME ~crossed PROVE Carried' /\ Chosen' /\ Applied'
  <2>1. ASSUME NEW s \in Slices, shell[i].who = s, Running(s), LatestIn(shell, i),
               shell[i].op = "write", ok
        PROVE  OnFile(s)'
    <3>1. shell[i].config[s] = shown[s] /\ Ahead(i, s)
      BY <1>1, <1>10, <2>1 DEF Carried
    <3>2. \A j \in DOMAIN shell : j > i \/ shell'[j].done
      BY <1>1, <1>2, <1>3
    <3>3. Ahead(0, s)'
      BY <1>1, <1>2, <3>1, <3>2 DEF Ahead
    <3> QED BY <1>1, <2>1, <3>1, <3>3 DEF OnFile
  <2>2. Carried'
    <3>1. ASSUME NEW j \in DOMAIN shell, NEW s \in Slices, shell[j].who = s, Running(s),
                 LatestIn(shell, j)
          PROVE  /\ shell'[j].op = "write" =>
                      /\ shell'[j].config[s] = shown'[s]
                      /\ IF shell'[j].done THEN shell'[j].ok => OnFile(s)' ELSE Ahead(j, s)'
                 /\ shell'[j].op = "tier" => OnFile(s)'
      <4>1. CASE j = i
        BY <1>1, <1>3, <1>9, <1>10, <2>1, <3>1, <4>1 DEF Carried
      <4>2. CASE j # i
        BY <1>1, <1>2, <1>8, <1>9, <1>10, <3>1, <4>2 DEF Carried
      <4> QED BY <4>1, <4>2
    <3> QED BY <1>2, <1>5, <1>7, <1>9, <1>10, <1>11, <3>1 DEF Carried
  <2>3. Chosen'
    BY <1>1, <1>2, <1>5, <1>10 DEF Chosen
  <2>4. Applied'
    <3> SUFFICES ASSUME troubles' = 0
                 PROVE  /\ \A j \in DOMAIN shell :
                            /\ shell'[j].done => shell'[j].ok
                            /\ shell'[j].op = "read" => shell'[j].who = "refresh"
                            /\ shell'[j].op = "tier" /\ shell'[j].done /\ Running(shell[j].who)' =>
                                  kernel'[shell'[j].who] = shown'[shell'[j].who]
                        /\ \A t \in Tiers : Unheld(t)' => kernel'[t] = shown'[t]
      BY <1>2 DEF Applied
    <3>1. ok /\ troubles = 0
      BY <1>1 DEF AppTypes
    <3>2. Tiers \subseteq Slices /\ \A j \in DOMAIN shell : shell[j].op = "tier" => shell[j].who \in Tiers
      BY DEF OneCall, Slices
    <3>3. \A t \in Tiers : kernel'[t] = kernel[t] \/ (kernel'[t] = file[t] /\ shell[i].who = t
                                                      /\ shell[i].op = "tier")
      BY <1>1 DEF AppTypes
    <3>4. ASSUME NEW t \in Tiers, Unheld(t) PROVE kernel'[t] = shown[t]
      <4>1. kernel[t] = shown[t] /\ file[t] = shown[t]
        BY <1>10, <3>1, <3>2, <3>4 DEF Applied, Carried, OnFile
      <4> QED BY <3>3, <4>1
    <3>5. ASSUME NEW j \in DOMAIN shell, shell[j].op = "tier", shell'[j].done, Running(shell[j].who)
          PROVE  kernel'[shell[j].who] = shown[shell[j].who]
      <4>0. LatestIn(shell, j)
        BY <1>2, <3>2, <3>5, AppBounds DEF OneCall, LatestIn, Tiers
      <4>1. OnFile(shell[j].who)
        BY <1>10, <3>2, <3>5, <4>0 DEF Carried
      <4>2. CASE j = i
        BY <1>1, <3>1, <3>2, <3>5, <4>1, <4>2 DEF OnFile, AppTypes
      <4>3. CASE j # i
        BY <1>2, <1>10, <3>1, <3>2, <3>3, <3>5, <4>1, <4>3 DEF Applied, OnFile
      <4> QED BY <4>2, <4>3
    <3>6. \A j \in DOMAIN shell : Running(shell[j].who)' /\ shell[j].op = "tier" =>
             Running(shell[j].who)
      BY <1>1, <1>2, <1>5 DEF Running
    <3>7. \A j \in DOMAIN shell : shell'[j].done => shell'[j].ok
      BY <1>2, <1>3, <1>10, <3>1 DEF Applied
    <3>8. \A j \in DOMAIN shell : shell'[j].op = "read" => shell'[j].who = "refresh"
      BY <1>5, <1>10, <3>1 DEF Applied
    <3>9. \A t \in Tiers : Unheld(t)' => kernel'[t] = shown'[t]
      BY <1>1, <1>7, <3>2, <3>4
    <3>10. ASSUME NEW j \in DOMAIN shell, shell'[j].op = "tier", shell'[j].done,
                  Running(shell[j].who)'
           PROVE  kernel'[shell'[j].who] = shown'[shell'[j].who]
      BY <1>1, <1>5, <3>5, <3>6, <3>10
    <3> QED BY <3>7, <3>8, <3>9, <3>10
  <2> QED BY <2>2, <2>3, <2>4
<1> QED BY <1>1, <1>4, <1>6, <1>10

\* A job takes the answer to its save and makes the next call: the script, with
\* its slice on file, or a read.
LEMMA TurnKeeps ==
    ASSUME AppInv, shell # <<>>, Head(shell).done, Head(shell).op = "write",
           NEW c \in Calls, c.who = Head(shell).who, ~c.done,
           c.op = "read" \/ (c.op = "tier" /\ Head(shell).ok /\ Head(shell).who \in Tiers),
           c.op = "read" => ~Head(shell).ok,
           shell' = Append(Tail(shell), c), persisted' \in [Slices -> Values],
           UNCHANGED <<shown, file, kernel, waiting, section, chosen, crossed, acts, troubles>>
    PROVE  AppInv'
<1> USE DEF AppInv
<1> DEFINE rest == Tail(shell)
           n == Len(rest) + 1
<1>1. /\ 1 \in DOMAIN shell /\ Head(shell) = shell[1] /\ rest \in Seq(Calls)
      /\ \A i \in DOMAIN rest : i + 1 \in DOMAIN shell /\ rest[i] = shell[i + 1] /\ i \in Nat \ {0}
      /\ \A i \in DOMAIN shell : i \in Nat /\ (i # 1 => i - 1 \in DOMAIN rest)
  BY Answered DEF AppTypes
<1>2. /\ shell' \in Seq(Calls) /\ DOMAIN shell' = DOMAIN rest \cup {n} /\ shell'[n] = c
      /\ \A i \in DOMAIN rest : i < n /\ shell'[i] = rest[i]
      /\ n \in Nat
  BY <1>1, Made
<1>10. /\ \A i \in DOMAIN rest :
             /\ c.who # "lists" => rest[i].who # c.who
             /\ rest[i].who \in Tiers => rest[i].who = section.tier
             /\ rest[i].op = "tier" => rest[i].who \in Tiers
             /\ rest[i].op = "write" => rest[i].who # "refresh"
       /\ \A i, j \in DOMAIN rest : rest[i].who = rest[j].who /\ rest[i].who # "lists" => i = j
       /\ \A m \in DOMAIN shell : m # 1 => \E k \in DOMAIN rest : rest[k] = shell[m]
       /\ \A i \in DOMAIN rest : LatestIn(rest, i) => LatestIn(shell, i + 1)
       /\ LastList(rest)
  BY Behind
<1>11. /\ \A i \in DOMAIN rest : LatestIn(shell', i) => LatestIn(shell, i + 1)
       /\ LastList(shell')
  <2>1. /\ \A i \in DOMAIN rest : LatestIn(shell', i) => LatestIn(rest, i)
        /\ LastList(rest) => LastList(shell')
    BY <1>1, MadeLatest
  <2>2. /\ \A i \in DOMAIN rest : LatestIn(rest, i) => LatestIn(shell, i + 1)
        /\ LastList(rest)
    BY Behind
  <2> HIDE DEF rest
  <2>3. ASSUME NEW i \in DOMAIN rest, LatestIn(shell', i) PROVE LatestIn(shell, i + 1)
    BY <2>1, <2>2, <2>3
  <2> QED BY <2>1, <2>2, <2>3
<1> HIDE DEF n, rest
<1>3. AppTypes'
  BY <1>2 DEF AppTypes
<1>4. OneCall'
  <2>1. c.who \in Tiers => c.who = section.tier
    BY <1>1 DEF OneCall
  <2>2. \A i \in DOMAIN rest : i # n
    BY <1>1, <1>2
  <2>3. \A i, j \in DOMAIN shell' : shell'[i].who = shell'[j].who /\ shell'[i].who # "lists" => i = j
    <3> TAKE i, j \in DOMAIN shell'
    <3> HAVE shell'[i].who = shell'[j].who /\ shell'[i].who # "lists"
    <3>1. CASE i = n \/ j = n
      BY <1>2, <1>10, <2>2, <3>1
    <3>2. CASE i # n /\ j # n
      BY <1>2, <1>10, <3>2
    <3> QED BY <3>1, <3>2
  <2>4. \A i \in DOMAIN shell' : /\ shell'[i].who \in Tiers => shell'[i].who = section.tier
                                 /\ shell'[i].op = "tier" => shell'[i].who \in Tiers
                                 /\ shell'[i].op = "write" => shell'[i].who # "refresh"
    BY <1>1, <1>2, <1>10, <2>1
  <2> QED BY <1>11, <2>3, <2>4 DEF OneCall
<1>5. \A s \in Slices : (Unheld(s)' <=> Unheld(s)) /\ (Running(s)' <=> Running(s))
  <2>1. Calling("lists")' <=> Calling("lists")
    <3>1. ASSUME NEW i \in DOMAIN shell, shell[i].who = "lists"
          PROVE  \E j \in DOMAIN shell' : shell'[j].who = "lists"
      <4>1. CASE i = 1
        <5>1. n \in DOMAIN shell' /\ shell'[n].who = "lists"
          BY <1>1, <1>2, <3>1, <4>1
        <5> QED BY <5>1
      <4>2. CASE i # 1
        <5>0. i # 1 /\ shell[i].who = "lists"
          BY <3>1, <4>2
        <5>1. PICK j \in DOMAIN rest : rest[j] = shell[i]
          BY <1>1, <1>10, <5>0
        <5> QED BY <1>2, <3>1, <5>1
      <4> QED BY <4>1, <4>2
    <3>2. ASSUME NEW i \in DOMAIN shell', shell'[i].who = "lists"
          PROVE  \E j \in DOMAIN shell : shell[j].who = "lists"
      <4>1. CASE i = n
        BY <1>1, <1>2, <3>2, <4>1
      <4>2. CASE i # n
        <5>1. i + 1 \in DOMAIN shell /\ shell[i + 1] = shell'[i]
          BY <1>1, <1>2, <4>2
        <5> QED BY <3>2, <5>1
      <4> QED BY <4>1, <4>2
    <3> QED BY <3>1, <3>2 DEF Calling
  <2> QED BY <2>1 DEF Unheld, Running
<1>6. \A s \in Slices : /\ \A i \in Nat : Ahead(i + 1, s) => Ahead(i, s)'
                        /\ OnFile(s) => OnFile(s)'
  <2> SUFFICES ASSUME NEW s \in Slices
               PROVE  /\ \A i \in Nat : Ahead(i + 1, s) => Ahead(i, s)'
                      /\ Ahead(0, s) => Ahead(0, s)'
    BY DEF OnFile
  <2> QED BY AheadTurned
<1>7. ASSUME ~crossed PROVE Carried' /\ Chosen' /\ Applied'
  <2>1. Carried'
    <3>1. ASSUME NEW i \in DOMAIN shell', NEW s \in Slices, shell'[i].who = s, Running(s),
                 LatestIn(shell', i)
          PROVE  /\ shell'[i].op = "write" =>
                      /\ shell'[i].config[s] = shown'[s]
                      /\ IF shell'[i].done THEN shell'[i].ok => OnFile(s)' ELSE Ahead(i, s)'
                 /\ shell'[i].op = "tier" => OnFile(s)'
      <4>1. CASE i = n
        <5>0. c.op = "tier" => LatestIn(shell, 1)
          BY <1>1, AppBounds DEF OneCall, LatestIn, Tiers
        <5>1. c.op = "tier" => OnFile(s)
          BY <1>1, <1>2, <1>7, <3>1, <4>1, <5>0 DEF Carried
        <5> QED BY <1>2, <1>6, <4>1, <5>1
      <4>2. CASE i # n
        <5>0. i \in DOMAIN rest
          BY <1>2, <4>2
        <5>1. i \in Nat /\ i + 1 \in DOMAIN shell /\ shell'[i] = shell[i + 1]
          BY <1>1, <1>2, <5>0
        <5>2. LatestIn(shell, i + 1)
          BY <1>11, <3>1, <5>0
        <5> QED BY <1>6, <1>7, <3>1, <5>1, <5>2 DEF Carried
      <4> QED BY <4>1, <4>2
    <3> QED BY <1>5, <1>6, <1>7, <3>1 DEF Carried
  <2>2. Chosen'
    <3>1. ASSUME NEW i \in DOMAIN shell, shell[i].who = "lists", shell[i].op = "read"
          PROVE  \E j \in DOMAIN shell' : shell'[j].who = "lists" /\ shell'[j].op = "read"
      <4>1. PICK j \in DOMAIN rest : rest[j] = shell[i]
        BY <1>1, <1>10, <3>1
      <4> QED BY <1>2, <3>1, <4>1
    <3> QED BY <1>7, <3>1 DEF Chosen
  <2>3. Applied'
    <3> SUFFICES ASSUME troubles = 0
                 PROVE  /\ \A j \in DOMAIN shell' :
                            /\ shell'[j].done => shell'[j].ok
                            /\ shell'[j].op = "read" => shell'[j].who = "refresh"
                            /\ shell'[j].op = "tier" /\ shell'[j].done /\ Running(shell[j].who)' =>
                                  kernel[shell'[j].who] = shown[shell'[j].who]
                        /\ \A t \in Tiers : Unheld(t)' => kernel[t] = shown[t]
      BY DEF Applied
    <3>1. Head(shell).ok
      BY <1>1, <1>7 DEF Applied
    <3>2. \A t \in Tiers : Unheld(t)' => kernel[t] = shown[t]
      BY <1>5, <1>7 DEF Applied, Slices
    <3>3. ASSUME NEW j \in DOMAIN rest
          PROVE  /\ shell'[j] = shell[j + 1] /\ j + 1 \in DOMAIN shell
                 /\ Running(shell[j].who)' => Running(shell[j + 1].who)
      BY <1>1, <1>2 DEF Running
    <3> QED BY <1>2, <1>7, <3>1, <3>2, <3>3 DEF Applied
  <2> QED BY <2>1, <2>2, <2>3
<1> QED BY <1>3, <1>4, <1>7

LEMMA SavedKeeps ==
    ASSUME AppInv, NEW t \in Tiers, Saved(t)
    PROVE  AppInv'
<1> USE DEF AppInv
<1>1. shell # <<>> /\ Head(shell).done /\ Head(shell).op = "write" /\ Head(shell).who = t
      /\ persisted' = (IF Head(shell).ok THEN shown ELSE persisted)
      /\ shell' = Append(Tail(shell), NextCall(t, Head(shell).ok))
      /\ UNCHANGED <<shown, file, kernel, waiting, section, chosen, crossed, acts, troubles>>
  BY DEF Saved, Answers
<1>2. NextCall(t, Head(shell).ok) =
        [who |-> t, op |-> IF Head(shell).ok THEN "tier" ELSE "read", config |-> shown,
         done |-> FALSE, ok |-> FALSE]
  BY DEF NextCall, Call
<1>3. NextCall(t, Head(shell).ok) \in Calls
  <2>1. t \in Owners /\ shown \in [Slices -> Values]
    BY DEF Owners, Slices, AppTypes
  <2> DEFINE op == IF Head(shell).ok THEN "tier" ELSE "read"
  <2>2. op \in {"write", "read", "tier"}
    OBVIOUS
  <2> HIDE DEF op
  <2>3. [who |-> t, op |-> op, config |-> shown, done |-> FALSE, ok |-> FALSE] \in Calls
    BY <2>1, <2>2 DEF Calls
  <2> QED BY <1>2, <2>3 DEF op
<1>4. persisted' \in [Slices -> Values]
  BY <1>1 DEF AppTypes
<1> QED BY <1>1, <1>2, <1>3, <1>4, TurnKeeps

\* A call is answered, and a tier that made it leaves the lock.
LEMMA TakenKeeps ==
    ASSUME AppTypes, OneCall, shell # <<>>, shell' = Tail(shell),
           section' \in {section, Unlocked}, waiting' = waiting,
           section' = section => Head(shell).who \notin Tiers,
           section' # section => Head(shell).who = section.tier /\ Head(shell).who \in Tiers
    PROVE  /\ OneCall' /\ section' \in [tier : Tiers \cup {"none"}, alive : BOOLEAN]
           /\ shell' \in Seq(Calls)
<1>1. section' \in [tier : Tiers \cup {"none"}, alive : BOOLEAN]
  <2>1. section \in [tier : Tiers \cup {"none"}, alive : BOOLEAN]
    BY DEF AppTypes
  <2>2. Unlocked \in [tier : Tiers \cup {"none"}, alive : BOOLEAN]
    BY DEF Unlocked
  <2> QED BY <2>1, <2>2
<1>2. shell' \in Seq(Calls)
  BY Answered
<1>3. /\ \A i \in DOMAIN shell' :
            /\ Head(shell).who # "lists" => shell'[i].who # Head(shell).who
            /\ shell'[i].who \in Tiers => shell'[i].who = section.tier
            /\ shell'[i].op = "tier" => shell'[i].who \in Tiers
            /\ shell'[i].op = "write" => shell'[i].who # "refresh"
      /\ \A i, j \in DOMAIN shell' : shell'[i].who = shell'[j].who /\ shell'[i].who # "lists" => i = j
      /\ LastList(shell')
  BY Behind
<1>4. OneCall'
  <2>1. "none" \notin Tiers
    BY AppBounds DEF Tiers
  <2>4. section' # section => \A i \in DOMAIN shell' : shell'[i].who \notin Tiers
    BY <1>3, AppBounds DEF Tiers
  <2>5. section'.tier = "none" => section' = Unlocked
    BY DEF OneCall
  <2>6. section'.tier \in waiting' <=> section'.tier # "none" /\ ~section'.alive
    BY <2>1 DEF OneCall, Unlocked, AppTypes
  <2> QED BY <1>3, <2>4, <2>5, <2>6 DEF OneCall
<1> QED BY <1>1, <1>2, <1>4

\* A call that is answered and followed by none, where the caller lets go of its
\* slice only once it is on file, or waits for it already.
LEMMA DoneKeeps ==
    ASSUME AppInv, shell # <<>>, shell' = Tail(shell), persisted' \in [Slices -> Values],
           section' \in {section, Unlocked},
           section' # section => Head(shell).who = section.tier /\ Head(shell).who \in Tiers,
           section' = section => Head(shell).who \notin Tiers,
           ~crossed /\ ~(Head(shell).who = section.tier /\ section.tier \in waiting) =>
              /\ Head(shell).who \in Slices /\ LatestIn(shell, 1) => OnFile(Head(shell).who)
              /\ Head(shell).who = "lists" => Head(shell).op # "read"
              /\ troubles = 0 /\ Head(shell).who \in Tiers =>
                    kernel[Head(shell).who] = shown[Head(shell).who],
           UNCHANGED <<shown, file, kernel, waiting, chosen, crossed, acts, troubles>>
    PROVE  AppInv'
<1> USE DEF AppInv
<1> DEFINE who == Head(shell).who
<1>1. /\ 1 \in DOMAIN shell /\ Head(shell) = shell[1] /\ shell' \in Seq(Calls)
      /\ \A i \in DOMAIN shell' : i + 1 \in DOMAIN shell /\ shell'[i] = shell[i + 1] /\ i \in Nat \ {0}
      /\ \A i \in DOMAIN shell : i \in Nat /\ (i # 1 => i - 1 \in DOMAIN shell')
  BY Answered DEF AppTypes
<1>2. AppTypes'
  BY TakenKeeps DEF AppTypes
<1>3. /\ \A i \in DOMAIN shell' :
            /\ who # "lists" => shell'[i].who # who
            /\ LatestIn(shell', i) => LatestIn(shell, i + 1)
      /\ \A i \in DOMAIN shell : i # 1 => \E j \in DOMAIN shell' : shell'[j] = shell[i]
  BY Behind
<1>4. OneCall'
  BY TakenKeeps
<1>5. \A s \in Slices : Running(s)' => Running(s)
  BY DEF Running, Unlocked
<1>6. \A s \in Slices : Unheld(s)' => Unheld(s) \/ (s = who /\ ~(who = section.tier /\ who \in waiting))
  <2>1. ASSUME Unheld("lists")', who # "lists" PROVE Unheld("lists")
    <3>1. ASSUME NEW i \in DOMAIN shell, shell[i].who = "lists"
          PROVE  \E j \in DOMAIN shell' : shell'[j].who = "lists"
      <4>1. PICK j \in DOMAIN shell' : shell'[j] = shell[i]
        BY <1>1, <1>3, <2>1, <3>1
      <4> QED BY <3>1, <4>1
    <3> QED BY <2>1, <3>1 DEF Unheld, Calling
  <2>2. "lists" \notin Tiers /\ "none" \notin Tiers
    BY AppBounds DEF Tiers
  <2>3. ASSUME NEW t \in Tiers, Unheld(t)', ~Unheld(t)
        PROVE  t = who /\ ~(who = section.tier /\ who \in waiting)
    BY <2>2, <2>3 DEF Unheld
  <2>4. section.tier # "lists"
    BY <2>2 DEF AppTypes
  <2> QED BY <2>1, <2>3, <2>4 DEF Slices
<1>7. \A s \in Slices : /\ \A i \in Nat : Ahead(i + 1, s) => Ahead(i, s)'
                        /\ OnFile(s) => OnFile(s)'
  <2> SUFFICES ASSUME NEW s \in Slices
               PROVE  /\ \A i \in Nat : Ahead(i + 1, s) => Ahead(i, s)'
                      /\ Ahead(0, s) => Ahead(0, s)'
    BY DEF OnFile
  <2> QED BY AheadAnswered
<1>8. ASSUME ~crossed PROVE Carried' /\ Chosen' /\ Applied'
  <2>1. Carried'
    <3>1. ASSUME NEW i \in DOMAIN shell', NEW s \in Slices, shell'[i].who = s, Running(s),
                 LatestIn(shell', i)
          PROVE  /\ shell'[i].op = "write" =>
                      /\ shell'[i].config[s] = shown'[s]
                      /\ IF shell'[i].done THEN shell'[i].ok => OnFile(s)' ELSE Ahead(i, s)'
                 /\ shell'[i].op = "tier" => OnFile(s)'
      <4>1. i + 1 \in DOMAIN shell /\ shell'[i] = shell[i + 1] /\ i \in Nat
        BY <1>1
      <4>2. LatestIn(shell, i + 1)
        BY <1>3, <3>1
      <4> QED BY <1>7, <1>8, <3>1, <4>1, <4>2 DEF Carried
    <3>2. \A s \in Slices : Unheld(s)' => OnFile(s)
      <4>1. ASSUME NEW s \in Slices, Unheld(s)', s = who PROVE LatestIn(shell, 1)
        <5>1. \A i \in DOMAIN shell' : shell'[i].who # who
          BY <1>3, <4>1 DEF Unheld, Calling
        <5> QED BY <1>1, <1>3, <5>1 DEF LatestIn
      <4> QED BY <1>6, <1>8, <4>1 DEF Carried
    <3> QED BY <1>5, <1>7, <3>1, <3>2 DEF Carried
  <2>2. Chosen'
    <3>1. "lists" \notin Tiers
      BY AppBounds DEF Tiers
    <3>2. ASSUME NEW i \in DOMAIN shell, shell[i].who = "lists", shell[i].op = "read"
          PROVE  \E j \in DOMAIN shell' : shell'[j].who = "lists" /\ shell'[j].op = "read"
      <4>1. i # 1
        BY <1>1, <1>8, <3>1, <3>2 DEF OneCall, AppTypes
      <4>2. PICK j \in DOMAIN shell' : shell'[j] = shell[i]
        BY <1>3, <4>1
      <4> QED BY <3>2, <4>2
    <3> QED BY <1>8, <3>2 DEF Chosen
  <2>3. Applied'
    <3> SUFFICES ASSUME troubles = 0
                 PROVE  /\ \A j \in DOMAIN shell' :
                            /\ shell'[j].done => shell'[j].ok
                            /\ shell'[j].op = "read" => shell'[j].who = "refresh"
                            /\ shell'[j].op = "tier" /\ shell'[j].done /\ Running(shell[j].who)' =>
                                  kernel[shell'[j].who] = shown[shell'[j].who]
                        /\ \A t \in Tiers : Unheld(t)' => kernel[t] = shown[t]
      BY DEF Applied
    <3>1. \A t \in Tiers : Unheld(t)' => kernel[t] = shown[t]
      BY <1>6, <1>8 DEF Applied, Slices
    <3>2. ASSUME NEW j \in DOMAIN shell'
          PROVE  /\ shell'[j] = shell[j + 1] /\ j + 1 \in DOMAIN shell
                 /\ Running(shell[j].who)' => Running(shell[j + 1].who)
      BY <1>1 DEF Running, Unlocked
    <3> QED BY <1>8, <3>1, <3>2 DEF Applied
  <2> QED BY <2>1, <2>2, <2>3
<1> QED BY <1>2, <1>4, <1>8

LEMMA ListSavedKeeps == ASSUME AppInv, ListSaved PROVE AppInv'
<1> USE DEF AppInv
<1>1. shell # <<>> /\ Head(shell).done /\ Head(shell).op = "write" /\ Head(shell).who = "lists"
      /\ Head(shell) = shell[1] /\ Head(shell) \in Calls /\ 1 \in DOMAIN shell
      /\ UNCHANGED <<shown, file, kernel, waiting, section, chosen, crossed, acts, troubles>>
  BY Answered DEF ListSaved, Answers
<1>2. "lists" \notin Tiers /\ "lists" \in Slices
  BY AppBounds DEF Tiers, Slices
<1>3. CASE Head(shell).ok
  <2>1. shell' = Tail(shell) /\ persisted' = Head(shell).config
    BY <1>3 DEF ListSaved
  <2>2. persisted' \in [Slices -> Values]
    BY <1>1, <2>1 DEF Calls
  <2>3. ~crossed /\ LatestIn(shell, 1) => OnFile("lists")
    BY <1>1, <1>2, <1>3 DEF Carried, Running
  <2> QED BY <1>1, <1>2, <2>1, <2>2, <2>3, DoneKeeps
<1>4. CASE ~Head(shell).ok
  <2> DEFINE c == [who |-> "lists", op |-> "read", config |-> shown, done |-> FALSE, ok |-> FALSE]
  <2>1. shell' = Append(Tail(shell), c) /\ persisted' = persisted
    BY <1>4 DEF ListSaved, Call
  <2>2. c \in Calls
    BY DEF Calls, Owners, Slices, AppTypes
  <2>3. persisted' \in [Slices -> Values]
    BY <2>1 DEF AppTypes
  <2>4. c.who = Head(shell).who /\ ~c.done /\ c.op = "read"
    BY <1>1
  <2> HIDE DEF c
  <2> QED BY <1>1, <1>4, <2>1, <2>2, <2>3, <2>4, TurnKeeps
<1> QED BY <1>3, <1>4

LEMMA LeaveKeeps ==
    ASSUME AppInv, NEW t \in Tiers, Leave(t)
    PROVE  AppInv'
<1> USE DEF AppInv
<1>1. shell # <<>> /\ Head(shell).done /\ Head(shell).who = t
      /\ (section.alive => Head(shell).op = "tier")
      /\ section' = Unlocked /\ shell' = Tail(shell)
      /\ UNCHANGED <<shown, persisted, file, kernel, waiting, chosen, crossed, acts, troubles>>
  BY DEF Leave, Answers
<1>2. Head(shell) = shell[1] /\ 1 \in DOMAIN shell
  BY <1>1, Answered
<1>3. t # "lists" /\ t # "none" /\ t \in Slices
  BY AppBounds DEF Tiers, Slices
<1>4. section.tier = t /\ section # Unlocked
  BY <1>1, <1>2, <1>3 DEF OneCall, Unlocked
<1>5. t \notin waiting => section.alive
  BY <1>3, <1>4 DEF OneCall
<1>6. persisted' \in [Slices -> Values]
  BY <1>1 DEF AppTypes
<1>7. ASSUME ~crossed, t \notin waiting
      PROVE  OnFile(t) /\ (troubles = 0 => kernel[t] = shown[t])
  <2>1. shell[1].op = "tier" /\ Running(t) /\ shell[1].who = t /\ shell[1].done
    BY <1>1, <1>2, <1>4, <1>5, <1>7 DEF Running
  <2>2. LatestIn(shell, 1)
    BY <1>2, <1>3, <2>1 DEF OneCall, LatestIn, AppTypes
  <2> QED BY <1>2, <1>3, <1>7, <2>1, <2>2 DEF Carried, Applied
<1> QED BY <1>1, <1>3, <1>4, <1>6, <1>7, DoneKeeps

\* What was read takes the screen. Unless it crossed an edit, the file is what
\* every write on its way carries, and what the slices in other hands show.
LEMMA ShowsKeeps ==
    ASSUME AppInv, shell # <<>>, Head(shell).done, Head(shell).op = "read",
           NEW disk \in [Slices -> Values], Shows(disk, Head(shell).who),
           shell' = Tail(shell), persisted' \in [Slices -> Values],
           chosen' = [chosen EXCEPT ![Head(shell).who] = disk[Head(shell).who]],
           section' \in {section, Unlocked},
           section' # section => Head(shell).who = section.tier /\ Head(shell).who \in Tiers,
           section' = section => Head(shell).who \notin Tiers,
           UNCHANGED <<file, kernel, waiting, acts, troubles>>
    PROVE  AppInv'
<1> USE DEF AppInv
<1> DEFINE own == Head(shell).who
<1>1. /\ 1 \in DOMAIN shell /\ Head(shell) = shell[1] /\ own \in Owners
      /\ \A i \in DOMAIN shell' : i + 1 \in DOMAIN shell /\ shell'[i] = shell[i + 1] /\ i \in Nat \ {0}
  BY Answered DEF AppTypes, Calls
<1>2. /\ \A i \in DOMAIN shell' :
            shell'[i].op = "tier" => shell'[i].who \in Tiers
      /\ \A i \in DOMAIN shell : i # 1 => \E j \in DOMAIN shell' : shell'[j] = shell[i]
  BY Behind
<1>3. OneCall' /\ section' \in [tier : Tiers \cup {"none"}, alive : BOOLEAN] /\ shell' \in Seq(Calls)
  BY TakenKeeps
<1>4. /\ shown' = disk
      /\ crossed' = (\/ crossed \/ disk # file
                     \/ \E t \in waiting \cup ({section.tier} \cap Tiers) : t # own /\ disk[t] # shown[t]
                     \/ \E i \in DOMAIN shell : shell[i].op = "write" /\ shell[i].config # disk)
  BY DEF Shows
<1> HIDE DEF own
<1>5. chosen' \in [Slices -> Values] /\ \A s \in Slices : chosen'[s] = IF s = own THEN disk[s] ELSE chosen[s]
  <2>1. chosen \in [Slices -> Values] /\ chosen' = [chosen EXCEPT ![own] = disk[own]]
    BY DEF AppTypes, own
  <2> QED BY <2>1
<1>6. AppTypes'
  <2>1. crossed' \in BOOLEAN
    BY <1>4 DEF AppTypes
  <2> QED BY <1>3, <1>4, <1>5, <2>1 DEF AppTypes
<1>7. ASSUME ~crossed' PROVE Carried' /\ Chosen' /\ Applied'
  <2>1. ~crossed /\ disk = file
    BY <1>4, <1>7
  <2>2. \A t \in waiting \cup ({section.tier} \cap Tiers) : t # own => disk[t] = shown[t]
    BY <1>4, <1>7
  <2>3. \A i \in DOMAIN shell : shell[i].op = "write" => shell[i].config = disk
    BY <1>4, <1>7
  <2>4. \A i \in DOMAIN shell' : shell'[i].op = "write" => shell'[i].config = disk
    BY <1>1, <2>3
  <2>5. \A s \in Slices : OnFile(s)' /\ \A i \in Nat : Ahead(i, s)'
    BY <1>4, <2>1, <2>4 DEF OnFile, Ahead
  <2>6. Carried'
    BY <1>1, <1>4, <2>4, <2>5 DEF Carried
  <2>7. \A t \in Tiers : t # own => disk[t] = shown[t]
    <3>1. ASSUME NEW t \in Tiers, t \notin waiting, section.tier # t PROVE disk[t] = shown[t]
      <4>1. t \in Slices /\ Unheld(t)
        BY <3>1, AppBounds DEF Unheld, Tiers, Slices
      <4> QED BY <2>1, <4>1 DEF Carried, OnFile
    <3> QED BY <2>2, <3>1
  <2>8. Chosen'
    <3>1. ASSUME NEW s \in Slices, s # own, chosen'[s] # shown'[s]
          PROVE  s = "lists" /\ \E j \in DOMAIN shell' : shell'[j].who = s /\ shell'[j].op = "read"
      <4>1. s = "lists"
        <5>1. ASSUME s \in Tiers PROVE FALSE
          <6>1. s # "lists" /\ disk[s] = shown[s]
            BY <2>7, <3>1, <5>1, AppBounds DEF Tiers
          <6> QED BY <1>4, <1>5, <2>1, <3>1, <6>1 DEF Chosen
        <5> QED BY <5>1 DEF Slices
      <4>2. ASSUME NEW i \in DOMAIN shell, shell[i].who = s, shell[i].op = "read"
            PROVE  \E j \in DOMAIN shell' : shell'[j].who = s /\ shell'[j].op = "read"
        <5>1. i # 1
          BY <1>1, <3>1, <4>2 DEF own
        <5>2. PICK j \in DOMAIN shell' : shell'[j] = shell[i]
          BY <1>1, <1>2, <5>1
        <5> QED BY <4>2, <5>2
      <4>3. ASSUME \A i \in DOMAIN shell : ~(shell[i].who = s /\ shell[i].op = "read")
            PROVE  FALSE
        <5>1. chosen[s] = shown[s]
          BY <2>1, <4>3 DEF Chosen
        <5>2. CASE Calling(s)
          <6>1. PICK i \in DOMAIN shell : shell[i].who = s /\ LatestIn(shell, i)
            BY <4>1, <5>2 DEF Calling, OneCall, LastList
          <6>2. shell[i].op # "tier"
            BY <4>1, <6>1, AppBounds DEF OneCall, Tiers
          <6>3. shell[i].op = "write"
            <7>1. shell[i] \in Calls
              BY <6>1 DEF AppTypes
            <7>2. shell[i].op \in {"write", "read", "tier"}
              BY <7>1 DEF Calls
            <7> QED BY <4>3, <6>1, <6>2, <7>2
          <6>4. shell[i].config[s] = shown[s]
            BY <2>1, <4>1, <6>1, <6>3 DEF Carried, Running
          <6>5. shell[i].config = disk
            BY <2>3, <6>3
          <6> QED BY <1>4, <1>5, <3>1, <5>1, <6>4, <6>5
        <5>3. CASE ~Calling(s)
          <6>1. file[s] = shown[s]
            BY <2>1, <4>1, <5>3 DEF Carried, Unheld, OnFile
          <6> QED BY <1>4, <1>5, <2>1, <3>1, <5>1, <6>1
        <5> QED BY <5>2, <5>3
      <4> QED BY <4>1, <4>2, <4>3
    <3>2. \A s \in Slices : s = own => chosen'[s] = shown'[s]
      BY <1>4, <1>5
    <3> QED BY <3>1, <3>2 DEF Chosen
  <2>9. Applied'
    <3> SUFFICES ASSUME troubles = 0
                 PROVE  /\ \A j \in DOMAIN shell' :
                            /\ shell'[j].done => shell'[j].ok
                            /\ shell'[j].op = "read" => shell'[j].who = "refresh"
                            /\ shell'[j].op = "tier" /\ shell'[j].done /\ Running(shell[j].who)' =>
                                  kernel[shell'[j].who] = shown'[shell'[j].who]
                        /\ \A t \in Tiers : Unheld(t)' => kernel[t] = shown'[t]
      BY DEF Applied
    <3>1. own = "refresh"
      BY <1>1, <2>1 DEF Applied, own
    <3>2. section' = section /\ "refresh" \notin Tiers
      BY <3>1, AppBounds DEF Tiers, own
    <3>3. \A t \in Tiers : shown'[t] = shown[t]
      BY <1>4, <2>7, <3>1, <3>2
    <3>4. \A t \in Tiers : Unheld(t)' => kernel[t] = shown'[t]
      <4>1. \A t \in Tiers : t # "lists"
        BY AppBounds DEF Tiers
      <4> QED BY <2>1, <3>2, <3>3, <4>1 DEF Applied, Unheld
    <3>5. ASSUME NEW j \in DOMAIN shell'
          PROVE  /\ shell'[j] = shell[j + 1] /\ j + 1 \in DOMAIN shell
                 /\ shell'[j].op = "tier" => shell'[j].who \in Tiers
                 /\ Running(shell[j].who)' => Running(shell[j + 1].who)
      BY <1>1, <1>2, <3>2 DEF Running
    <3> QED BY <2>1, <3>3, <3>4, <3>5 DEF Applied
  <2> QED BY <2>6, <2>8, <2>9
<1> QED BY <1>3, <1>6, <1>7

LEMMA RevertedKeeps ==
    ASSUME AppInv, NEW own \in Slices,
           (own = "lists" /\ ListReverted) \/ (own \in Tiers /\ Reverted(own))
    PROVE  AppInv'
<1> USE DEF AppInv
<1> DEFINE disk == IF Head(shell).ok THEN Head(shell).config ELSE persisted
<1>1. /\ shell # <<>> /\ Head(shell).done /\ Head(shell).op = "read" /\ Head(shell).who = own
      /\ Shows(disk, own) /\ persisted' = disk /\ chosen' = [chosen EXCEPT ![own] = disk[own]]
      /\ shell' = Tail(shell) /\ UNCHANGED <<file, kernel, waiting, acts, troubles>>
      /\ IF own = "lists" THEN section' = section ELSE own \in Tiers /\ section' = Unlocked
  <2>1. "lists" \notin Tiers
    BY AppBounds DEF Tiers
  <2> QED BY <2>1 DEF Reverted, ListReverted, Reverts, Answers
<1>2. Head(shell) \in Calls /\ Head(shell) = shell[1] /\ 1 \in DOMAIN shell
  BY <1>1, Answered
<1>3. disk \in [Slices -> Values]
  BY <1>2 DEF Calls, AppTypes
<1> HIDE DEF disk
<1>4. "lists" \notin Tiers /\ "none" \notin Tiers
  BY AppBounds DEF Tiers
<1>5. own \in Tiers => own = section.tier /\ section # Unlocked
  BY <1>1, <1>2, <1>4 DEF OneCall, Unlocked
<1> QED BY <1>1, <1>3, <1>4, <1>5, ShowsKeeps

LEMMA RefreshedKeeps == ASSUME AppInv, Refreshed PROVE AppInv'
<1> USE DEF AppInv
<1>1. /\ shell # <<>> /\ Head(shell).done /\ Head(shell).op = "read" /\ Head(shell).who = "refresh"
      /\ shell' = Tail(shell) /\ UNCHANGED <<file, kernel, waiting, section, chosen, acts, troubles>>
  BY DEF Refreshed, Answers
<1>2. Head(shell) \in Calls
  BY <1>1, Answered
<1>3. "refresh" \notin Slices /\ "refresh" \notin Tiers
  BY AppBounds DEF Slices, Tiers
<1>4. CASE Head(shell).ok
  <2> DEFINE disk == Head(shell).config
  <2>1. Shows(disk, "refresh") /\ persisted' = disk
    BY <1>4 DEF Refreshed
  <2>2. disk \in [Slices -> Values]
    BY <1>2 DEF Calls
  <2> HIDE DEF disk
  <2>3. chosen' = [chosen EXCEPT !["refresh"] = disk["refresh"]]
    BY <1>1, <1>3 DEF AppTypes
  <2> QED BY <1>1, <1>3, <2>1, <2>2, <2>3, ShowsKeeps
<1>5. CASE ~Head(shell).ok
  <2>1. UNCHANGED <<shown, persisted, crossed>>
    BY <1>5 DEF Refreshed
  <2>2. persisted' \in [Slices -> Values]
    BY <2>1 DEF AppTypes
  <2>3. "refresh" # "lists"
    OBVIOUS
  <2> QED BY <1>1, <1>3, <2>1, <2>2, <2>3, DoneKeeps
<1> QED BY <1>4, <1>5

LEMMA AppInvNext == AppInv /\ [AppNext]_appVars => AppInv'
<1> SUFFICES ASSUME AppInv, [AppNext]_appVars PROVE AppInv'
  OBVIOUS
<1>1. ASSUME NEW t \in Tiers, NEW v \in Values, Edit(t, v) \/ Operate(t, v) PROVE AppInv'
  BY <1>1, AskKeeps
<1>2. ASSUME NEW v \in Values, StoreList(v) PROVE AppInv'
  BY <1>2, StoreKeeps
<1>3. CASE Reread
  BY <1>3, RereadKeeps
<1>4. CASE Refreshed
  BY <1>4, RefreshedKeeps
<1>5. CASE ListSaved
  BY <1>5, ListSavedKeeps
<1>6. CASE ListReverted
  <2>1. "lists" \in Slices
    BY DEF Slices
  <2> QED BY <1>6, <2>1, RevertedKeeps
<1>7. ASSUME NEW ok \in BOOLEAN, ShellRuns(ok) PROVE AppInv'
  BY <1>7, RunKeeps
<1>8. ASSUME NEW t \in Tiers, Enter(t) PROVE AppInv'
  BY <1>8, EnterKeeps
<1>9. ASSUME NEW t \in Tiers, Saved(t) PROVE AppInv'
  BY <1>9, SavedKeeps
<1>10. ASSUME NEW t \in Tiers, Reverted(t) PROVE AppInv'
  BY <1>10, RevertedKeeps DEF Slices
<1>11. ASSUME NEW t \in Tiers, Leave(t) PROVE AppInv'
  BY <1>11, LeaveKeeps
<1>12. CASE UNCHANGED appVars
  BY <1>12 DEF appVars, AppInv, AppTypes, OneCall, Carried, Chosen, Applied, OnFile, Ahead,
               Unheld, Running, Calling
<1> QED BY <1>1, <1>2, <1>3, <1>4, <1>5, <1>6, <1>7, <1>8, <1>9, <1>10, <1>11, <1>12 DEF AppNext

LEMMA AtRestSettled == AppInv => Settled
<1> SUFFICES ASSUME AppInv, AtRest, ~crossed
             PROVE  /\ shown = file /\ chosen = file
                    /\ troubles = 0 => \A t \in Tiers : kernel[t] = file[t]
  BY DEF Settled
<1> USE DEF AppInv
<1>1. waiting = {} /\ section = Unlocked /\ shell = <<>> /\ DOMAIN shell = {}
  BY DEF AtRest
<1>2. Tiers \subseteq Slices /\ \A s \in Slices : Unheld(s)
  BY <1>1, AppBounds DEF Unheld, Calling, Slices, Tiers, Unlocked
<1>3. \A s \in Slices : file[s] = shown[s] /\ chosen[s] = shown[s]
  BY <1>1, <1>2 DEF Carried, Chosen, OnFile
<1>4. shown = file /\ chosen = file
  BY <1>3 DEF AppTypes
<1>5. troubles = 0 => \A t \in Tiers : kernel[t] = file[t]
  BY <1>2, <1>3 DEF Applied
<1> QED BY <1>4, <1>5

\* Whatever the user taps while saves and scripts are on their way, and whichever
\* of them fail: when nothing is left to do and no read crossed an edit, the
\* screen, the file and what was chosen are one, and while no call failed the
\* kernel runs it (MainViewModel: persistOrRevert, edit, finish).
THEOREM AppSettled == AppSpec => []Settled
<1>1. AppSpec => []AppInv
  BY AppInvInit, AppInvNext, PTL DEF AppSpec
<1> QED BY <1>1, AtRestSettled, PTL

=============================================================================
