---------------------------- MODULE BrainStoreProofs ----------------------------
(***************************************************************************)
(* What BrainStore promises for any number of firmwares, process ids,      *)
(* lessons, kills and adoptions.  The argument: a name to set a brain      *)
(* aside under is always a new one, so the only file ever replaced is      *)
(* adaptive_model; and whoever replaces it either took up what it held or  *)
(* moved it aside first, under the flock that keeps the other out.         *)
(***************************************************************************)
EXTENDS BrainStore, FiniteSetTheorems, TLAPS

\* A daemon past loadBrain remembers what adaptive_model holds, unless it
\* warned; an adoption past its rename finds no adaptive_model.
ModelRemembered ==
    daemon # Off /\ daemon.at # "load" /\ Model \in DOMAIN files /\ ~warned =>
        files[Model].lessons \subseteq daemon.lessons
ModelMoved ==
    adopter # Off /\ adopter.at \in {"open", "commit"} => Model \notin DOMAIN files

\* A daemon starts with nothing in mind, and what is adopted is in a file.
LoadEmpty == daemon # Off /\ daemon.at = "load" => daemon.lessons = {}
AdopteeKept == adopter # Off => adopter.lessons \subseteq Kept

Inv ==
    TypeOK /\ ModelRemembered /\ ModelMoved /\ KeptUnlessUnmoved /\ LoadEmpty /\ AdopteeKept

-----------------------------------------------------------------------------
(* Names and contents.                                                     *)

\* unusedName finds a name nobody has taken among its first |files| + 1 tries.
LEMMA UnusedNameIsNew ==
    ASSUME FilesOK, NEW kind, NEW s
    PROVE  /\ UnusedName(kind, s) \notin DOMAIN files
           /\ \E n \in Nat : UnusedName(kind, s) = <<kind, s, n>>
<1> DEFINE C == Cardinality(DOMAIN files)
           taken == [n \in 0 .. C |-> <<kind, s, n>>]
<1>1. IsFiniteSet(DOMAIN files) /\ C \in Nat BY FS_CardinalityType DEF FilesOK
<1>2. \E n \in 0 .. C : <<kind, s, n>> \notin DOMAIN files
  <2> SUFFICES ASSUME \A n \in 0 .. C : <<kind, s, n>> \in DOMAIN files PROVE FALSE
    OBVIOUS
  <2>1. IsFiniteSet(0 .. C) /\ Cardinality(0 .. C) = C + 1
    <3>1. 0 \in Int /\ C \in Int /\ ~(0 > C) BY <1>1
    <3>2. Cardinality(0 .. C) = C - 0 + 1 BY <3>1, FS_Interval
    <3> QED BY <3>1, <3>2, <1>1, FS_Interval
  <2>2. taken \in [0 .. C -> DOMAIN files] OBVIOUS
  <2>3. \E x, y \in 0 .. C : x # y /\ taken[x] = taken[y]
    <3>1. C < Cardinality(0 .. C) BY <1>1, <2>1
    <3> HIDE DEF taken, C
    <3> QED BY <1>1, <2>1, <2>2, <3>1, FS_PigeonHole DEF C
  <2> QED BY <2>3
<1>3. \E n \in 0 .. C : <<kind, s, n>> \notin DOMAIN files
                        /\ UnusedName(kind, s) = <<kind, s, n>>
  BY <1>2 DEF UnusedName
<1> QED BY <1>1, <1>3

\* Moving adaptive_model aside changes no other file and loses no lesson.
LEMMA RenameAside ==
    ASSUME FilesOK, Model \in DOMAIN files, NEW kind \in {"rejected", "replaced"},
           NEW s \in Seconds, files' = Renamed(Model, UnusedName(kind, s))
    PROVE  /\ FilesOK' /\ Kept' = Kept /\ Model \notin DOMAIN files'
           /\ \A n \in DOMAIN files \ {Model} : n \in DOMAIN files' /\ files'[n] = files[n]
<1> DEFINE to == UnusedName(kind, s)
<1>1. to \notin DOMAIN files /\ to \in Aside BY UnusedNameIsNew DEF Aside
<1>2. to # Model BY <1>1
<1>3. DOMAIN files' = (DOMAIN files \ {Model}) \cup {to} BY DEF Renamed
<1>4. \A n \in DOMAIN files \ {Model} : files'[n] = files[n]
  BY <1>1, <1>3 DEF Renamed
<1>5. files'[to] = files[Model] BY <1>3 DEF Renamed
<1> HIDE DEF to
<1>6. FilesOK'
  <2>1. IsFiniteSet((DOMAIN files \ {Model}) \cup {to})
    <3>1. IsFiniteSet(DOMAIN files \ {Model})
      BY FS_RemoveElement DEF FilesOK
    <3> QED BY <3>1, FS_AddElement
  <2>2. DOMAIN files' \subseteq Names BY <1>1, <1>3 DEF FilesOK, Names
  <2>3. \A n \in DOMAIN files' : files'[n] \in Content BY <1>3, <1>4, <1>5 DEF FilesOK
  <2> QED BY <2>1, <2>2, <2>3, <1>3 DEF FilesOK
<1>7. Kept' = Kept BY <1>3, <1>4, <1>5 DEF Kept
<1> QED BY <1>2, <1>3, <1>4, <1>6, <1>7

\* A save replaces adaptive_model and nothing else; it costs a lesson only if
\* the one replaced held lessons the new one has not.
LEMMA SaveOver ==
    ASSUME FilesOK, NEW c \in Content, files' = Replaced(Model, c)
    PROVE  /\ FilesOK' /\ Model \in DOMAIN files' /\ files'[Model] = c
           /\ c.lessons \subseteq Kept' /\ Kept' \subseteq Kept \cup c.lessons
           /\ (Model \in DOMAIN files => files[Model].lessons \subseteq c.lessons)
                  => Kept \subseteq Kept'
           /\ \A n \in DOMAIN files \ {Model} : n \in DOMAIN files' /\ files'[n] = files[n]
<1>1. DOMAIN files' = DOMAIN files \cup {Model} BY DEF Replaced
<1>2. files'[Model] = c BY <1>1 DEF Replaced
<1>3. \A n \in DOMAIN files \ {Model} : files'[n] = files[n] BY <1>1 DEF Replaced
<1>4. FilesOK'
  <2>1. IsFiniteSet(DOMAIN files \cup {Model}) BY FS_AddElement DEF FilesOK
  <2> QED BY <1>1, <1>2, <1>3, <2>1 DEF FilesOK, Names
<1>5. Kept' \subseteq Kept \cup c.lessons BY <1>1, <1>2, <1>3 DEF Kept
<1>6. c.lessons \subseteq Kept' BY <1>1, <1>2 DEF Kept
<1>7. ASSUME Model \in DOMAIN files => files[Model].lessons \subseteq c.lessons
      PROVE  Kept \subseteq Kept'
  BY <1>1, <1>2, <1>3, <1>7 DEF Kept
<1> QED BY <1>1, <1>2, <1>3, <1>4, <1>5, <1>6, <1>7

-----------------------------------------------------------------------------
(* Types.                                                                  *)

\* The initial state satisfies the invariant.
LEMMA InvInit == Init => Inv
<1> SUFFICES ASSUME Init PROVE Inv OBVIOUS
<1>1. DOMAIN files \subseteq {Model} /\ \A n \in DOMAIN files : files[n] \in Content
  <2>1. CASE files = <<>> BY <2>1
  <2>2. CASE files \in [{Model} -> [id : Identities, sound : BOOLEAN, lessons : {{0}}]]
    <3>1. {0} \subseteq Lessons BY StoreBounds DEF Lessons
    <3> QED BY <2>2, <3>1 DEF Content
  <2> QED BY <2>1, <2>2 DEF Init
<1>2. IsFiniteSet(DOMAIN files)
  <2>1. DOMAIN files = {} \/ DOMAIN files = {Model} BY <1>1
  <2> QED BY <2>1, FS_EmptySet, FS_Singleton
<1>3. FilesOK BY <1>1, <1>2 DEF FilesOK, Names
<1>4. Kept \subseteq Lessons BY <1>1 DEF Kept, Content
<1>5. LockOK /\ CountsOK BY StoreBounds DEF Init, LockOK, CountsOK
<1>6. TypeOK BY <1>3, <1>4, <1>5 DEF Init, TypeOK, DaemonStates, AdopterStates
<1> QED BY <1>6 DEF Init, Inv, ModelRemembered, ModelMoved, KeptUnlessUnmoved, LoadEmpty,
                    AdopteeKept

-----------------------------------------------------------------------------
(* Types.                                                                  *)

\* What a daemon saves is a content of a file.
LEMMA DaemonSaves ==
    ASSUME TypeOK, DaemonCommit, ~full
    PROVE  \E c \in Content : /\ c.id = identity /\ c.sound /\ c.lessons = daemon.lessons
                              /\ files' = Replaced(Model, c)
<1> DEFINE c == [id |-> identity, sound |-> TRUE, lessons |-> daemon.lessons]
<1>1. daemon.lessons \subseteq Lessons BY DEF DaemonCommit, TypeOK, DaemonStates, Off
<1>2. c \in Content BY <1>1 DEF Content, TypeOK
<1>3. files' = Replaced(Model, c) BY DEF DaemonCommit
<1> QED BY <1>2, <1>3

\* The same of an adoption.
LEMMA AdopterSaves ==
    ASSUME TypeOK, AdoptCommit, ~full
    PROVE  \E c \in Content : /\ c.id = identity /\ c.sound /\ c.lessons = adopter.lessons
                              /\ files' = Replaced(Model, c)
<1> DEFINE c == [id |-> identity, sound |-> TRUE, lessons |-> adopter.lessons]
<1>1. adopter.lessons \subseteq Lessons BY DEF AdoptCommit, TypeOK, AdopterStates, Off
<1>2. c \in Content BY <1>1 DEF Content, TypeOK
<1>3. files' = Replaced(Model, c) BY DEF AdoptCommit
<1> QED BY <1>2, <1>3

\* Every way a step may change the files.
LEMMA FilesMove ==
    ASSUME TypeOK, [Next]_vars
    PROVE  \/ UNCHANGED files
           \/ /\ DaemonLoad \/ AdoptMove
              /\ Model \in DOMAIN files
              /\ \E kind \in {"rejected", "replaced"}, s \in Seconds :
                     files' = Renamed(Model, UnusedName(kind, s))
           \/ /\ DaemonCommit \/ AdoptCommit
              /\ \E c \in Content : files' = Replaced(Model, c)
<1>1. CASE DaemonLoad BY <1>1 DEF DaemonLoad
<1>2. CASE AdoptMove BY <1>2 DEF AdoptMove
<1>3. CASE DaemonCommit
  <2>1. CASE full BY <1>3, <2>1 DEF DaemonCommit
  <2>2. CASE ~full BY <1>3, <2>2, DaemonSaves
  <2> QED BY <2>1, <2>2
<1>4. CASE AdoptCommit
  <2>1. CASE full BY <1>4, <2>1 DEF AdoptCommit
  <2>2. CASE ~full BY <1>4, <2>2, AdopterSaves
  <2> QED BY <2>1, <2>2
<1>5. CASE UNCHANGED vars BY <1>5 DEF vars
<1>6. CASE Next /\ ~DaemonLoad /\ ~AdoptMove /\ ~DaemonCommit /\ ~AdoptCommit
  BY <1>6 DEF Next, Daemon, Adopter, Environment, DaemonStart, DaemonLearn, DaemonEnd,
      DaemonOpen, AdoptStart, AdoptOpen, AdoptVerify, AdoptEnd, KillDaemon, KillAdopter,
      Ota, DiskFills, DiskFrees
<1> QED BY <1>1, <1>2, <1>3, <1>4, <1>5, <1>6

\* What a start makes of the daemon.
LEMMA Started ==
    ASSUME NEW pid \in Pids, DaemonStart(pid)
    PROVE  \E b \in BOOLEAN :
               daemon' = [at |-> "load", pid |-> pid, lessons |-> {}, born |-> {},
                          rejected |-> {}, stale |-> b, gone |-> gone]
<1> DEFINE b == pid \in temps
<1>1. b \in BOOLEAN OBVIOUS
<1>2. daemon' = [at |-> "load", pid |-> pid, lessons |-> {}, born |-> {},
                 rejected |-> {}, stale |-> b, gone |-> gone]
  BY DEF DaemonStart
<1> HIDE DEF b
<1> QED BY <1>1, <1>2

\* What loadBrain makes of it.
LEMMA Loaded ==
    ASSUME TypeOK, DaemonLoad
    PROVE  daemon' \in DaemonStates /\ daemon'.at = "live"
<1>1. daemon \in DaemonStates /\ daemon # Off
  BY DEF TypeOK, DaemonLoad, Off
<1>2. CASE daemon' = [daemon EXCEPT !.at = "live"] BY <1>1, <1>2 DEF DaemonStates
<1>3. CASE /\ Model \in DOMAIN files
           /\ daemon' = [daemon EXCEPT !.at = "live", !.lessons = files[Model].lessons,
                                       !.born = files[Model].lessons]
  <2>1. files[Model].lessons \subseteq Lessons BY <1>3 DEF TypeOK, FilesOK, Content
  <2> QED BY <1>1, <1>3, <2>1 DEF DaemonStates
<1>4. ASSUME NEW moved \in BOOLEAN,
             daemon' = [daemon EXCEPT !.at = "live", !.rejected = Verdict(moved)]
      PROVE  daemon' \in DaemonStates /\ daemon'.at = "live"
  <2>1. Verdict(moved) \subseteq {"identity", "invalid", "unmoved"} BY DEF Verdict
  <2> QED BY <1>1, <1>4, <2>1 DEF DaemonStates
<1> QED BY <1>2, <1>3, <1>4 DEF DaemonLoad

\* Files keep their types.
LEMMA FilesStep == ASSUME TypeOK, [Next]_vars PROVE FilesOK'
<1>1. FilesOK BY DEF TypeOK
<1>2. CASE UNCHANGED files BY <1>1, <1>2 DEF FilesOK
<1> QED BY <1>1, <1>2, FilesMove, RenameAside, SaveOver

\* The flock has one holder and dies with it.
LEMMA LockStep == ASSUME TypeOK, [Next]_vars PROVE LockOK' /\ CountsOK'
<1> USE StoreBounds DEF TypeOK, LockOK, CountsOK, DaemonStates, AdopterStates, Off, Spend
<1>1. CASE UNCHANGED vars BY <1>1 DEF vars
<1>2. CASE Daemon
  <2>1. ASSUME NEW pid \in Pids, DaemonStart(pid) PROVE LockOK' /\ CountsOK'
    <3>1. daemon'.at = "load" BY <2>1, Started
    <3>2. lock = "none" /\ lock' = "daemon" /\ UNCHANGED <<adopter, used>>
      BY <2>1 DEF DaemonStart, Alone
    <3> QED BY <3>1, <3>2
  <2>2. CASE DaemonLoad
    <3>1. daemon'.at = "live" BY <2>2, Loaded
    <3>2. UNCHANGED <<lock, adopter, used>> /\ daemon.at = "load" BY <2>2 DEF DaemonLoad
    <3> QED BY <3>1, <3>2
  <2>3. CASE DaemonLearn BY <2>3 DEF DaemonLearn
  <2>4. CASE DaemonCommit BY <2>4 DEF DaemonCommit
  <2>5. CASE DaemonEnd BY <2>5 DEF DaemonEnd
  <2>6. ASSUME NEW then \in {"live", "end"}, DaemonOpen(then) PROVE LockOK' /\ CountsOK'
    BY <2>6 DEF DaemonOpen
  <2> QED BY <1>2, <2>1, <2>2, <2>3, <2>4, <2>5, <2>6 DEF Daemon
<1>3. CASE Adopter
  <2>1. ASSUME NEW pid \in Pids, NEW name \in DOMAIN files, AdoptStart(pid, name)
        PROVE  LockOK' /\ CountsOK'
    BY <2>1 DEF AdoptStart, Alone
  <2>2. CASE AdoptMove BY <2>2 DEF AdoptMove
  <2>3. CASE AdoptOpen BY <2>3 DEF AdoptOpen
  <2>4. CASE AdoptCommit BY <2>4 DEF AdoptCommit
  <2>5. CASE AdoptVerify BY <2>5 DEF AdoptVerify
  <2>6. CASE AdoptEnd BY <2>6 DEF AdoptEnd
  <2> QED BY <1>3, <2>1, <2>2, <2>3, <2>4, <2>5, <2>6 DEF Adopter
<1>4. CASE Environment
  BY <1>4 DEF Environment, KillDaemon, KillAdopter, Ota, DiskFills, DiskFrees
<1> QED BY <1>1, <1>2, <1>3, <1>4 DEF Next

\* Types of the daemon, of the adoption and of the other variables.
RestOK ==
    /\ daemon \in DaemonStates /\ adopter \in AdopterStates
    /\ temps \subseteq Pids /\ identity \in Identities
    /\ full \in BOOLEAN /\ warned \in BOOLEAN /\ gone \in {"none", "told", "cut"}
    /\ archived \subseteq Lessons /\ adopted \subseteq Lessons

\* So does everything else.
LEMMA RestStep == ASSUME TypeOK, [Next]_vars PROVE RestOK'
<1>1. \A n \in DOMAIN files : files[n].lessons \subseteq Lessons
  BY DEF TypeOK, FilesOK, Content
<1>2. used.lessons \in Nat BY DEF TypeOK, CountsOK
<1> USE DEF TypeOK, RestOK, DaemonStates, AdopterStates, Off
<1>3. CASE UNCHANGED vars BY <1>3 DEF vars
<1>4. CASE Daemon
  <2>1. ASSUME NEW pid \in Pids, DaemonStart(pid) PROVE RestOK'
    <3>1. daemon' \in DaemonStates BY <2>1, Started
    <3> QED BY <2>1, <3>1 DEF DaemonStart
  <2>2. CASE DaemonLoad
    <3>1. daemon' \in DaemonStates BY <2>2, Loaded
    <3> QED BY <2>2, <3>1 DEF DaemonLoad
  <2>3. CASE DaemonLearn
    <3>1. used.lessons + 1 \in Lessons BY <1>2, <2>3, StoreBounds DEF DaemonLearn, Lessons
    <3> QED BY <2>3, <3>1 DEF DaemonLearn
  <2>4. CASE DaemonCommit BY <2>4 DEF DaemonCommit
  <2>5. CASE DaemonEnd BY <2>5 DEF DaemonEnd
  <2>6. ASSUME NEW then \in {"live", "end"}, DaemonOpen(then) PROVE RestOK'
    BY <2>6 DEF DaemonOpen
  <2> QED BY <1>4, <2>1, <2>2, <2>3, <2>4, <2>5, <2>6 DEF Daemon
<1>5. CASE Adopter
  <2>1. ASSUME NEW pid \in Pids, NEW name \in DOMAIN files, AdoptStart(pid, name)
        PROVE  RestOK'
    BY <1>1, <2>1 DEF AdoptStart
  <2>2. CASE AdoptMove BY <2>2 DEF AdoptMove
  <2>3. CASE AdoptOpen BY <2>3 DEF AdoptOpen
  <2>4. CASE AdoptCommit BY <2>4 DEF AdoptCommit
  <2>5. CASE AdoptVerify BY <2>5 DEF AdoptVerify
  <2>6. CASE AdoptEnd BY <2>6 DEF AdoptEnd
  <2> QED BY <1>5, <2>1, <2>2, <2>3, <2>4, <2>5, <2>6 DEF Adopter
<1>6. CASE Environment
  BY <1>6 DEF Environment, KillDaemon, KillAdopter, Ota, DiskFills, DiskFrees
<1> QED BY <1>3, <1>4, <1>5, <1>6 DEF Next

\* Types are inductive.
LEMMA TypeStep == ASSUME TypeOK, [Next]_vars PROVE TypeOK'
BY FilesStep, LockStep, RestStep DEF TypeOK, RestOK

-----------------------------------------------------------------------------
(* What is kept.                                                           *)

\* A save takes up what adaptive_model held, or finds none.
LEMMA SaveKeeps ==
    ASSUME Inv, ~warned, NEW c \in Content, files' = Replaced(Model, c),
           \/ DaemonCommit /\ c.lessons = daemon.lessons
           \/ AdoptCommit
    PROVE  Kept \subseteq Kept'
<1>1. Model \in DOMAIN files => files[Model].lessons \subseteq c.lessons
  <2>1. CASE DaemonCommit /\ c.lessons = daemon.lessons
    BY <2>1 DEF DaemonCommit, Inv, ModelRemembered, Off
  <2>2. CASE AdoptCommit BY <2>2 DEF AdoptCommit, Inv, ModelMoved, Off
  <2> QED BY <2>1, <2>2
<1> QED BY <1>1, SaveOver DEF Inv, TypeOK

\* No step loses a kept lesson while nothing was reported unmoved.
LEMMA KeptStep == ASSUME Inv, [Next]_vars, ~warned PROVE Kept \subseteq Kept'
<1>1. CASE UNCHANGED files BY <1>1 DEF Kept
<1>2. CASE DaemonLoad \/ AdoptMove
  BY <1>1, <1>2, FilesMove, RenameAside DEF Inv, TypeOK, DaemonLoad, AdoptMove
<1>3. CASE DaemonCommit
  <2>1. CASE full BY <1>1, <1>3, <2>1 DEF DaemonCommit
  <2>2. CASE ~full BY <1>3, <2>2, DaemonSaves, SaveKeeps DEF Inv
  <2> QED BY <2>1, <2>2
<1>4. CASE AdoptCommit
  <2>1. CASE full BY <1>1, <1>4, <2>1 DEF AdoptCommit
  <2>2. CASE ~full BY <1>4, <2>2, AdopterSaves, SaveKeeps DEF Inv
  <2> QED BY <2>1, <2>2
<1> QED BY <1>1, <1>2, <1>3, <1>4, FilesMove DEF Inv

\* A step that saves puts what it saves in a file.
LEMMA SavedKept == ASSUME Inv, [Next]_vars PROVE archived' \subseteq archived \cup Kept'
<1>1. CASE DaemonCommit
  <2>1. CASE full BY <1>1, <2>1 DEF DaemonCommit
  <2>2. CASE ~full
    <3>1. archived' = archived \cup daemon.lessons BY <1>1, <2>2 DEF DaemonCommit
    <3>2. daemon.lessons \subseteq Kept' BY <1>1, <2>2, DaemonSaves, SaveOver DEF Inv, TypeOK
    <3> QED BY <3>1, <3>2
  <2> QED BY <2>1, <2>2
<1>2. CASE AdoptCommit
  <2>1. CASE full BY <1>2, <2>1 DEF AdoptCommit
  <2>2. CASE ~full
    <3>1. archived' = archived \cup adopter.lessons BY <1>2, <2>2 DEF AdoptCommit
    <3>2. adopter.lessons \subseteq Kept' BY <1>2, <2>2, AdopterSaves, SaveOver DEF Inv, TypeOK
    <3> QED BY <3>1, <3>2
  <2> QED BY <2>1, <2>2
<1>3. CASE UNCHANGED vars BY <1>3 DEF vars
<1>4. CASE Next /\ ~DaemonCommit /\ ~AdoptCommit
  BY <1>4 DEF Next, Daemon, Adopter, Environment, DaemonStart, DaemonLoad, DaemonLearn,
      DaemonEnd, DaemonOpen, AdoptStart, AdoptMove, AdoptOpen, AdoptVerify, AdoptEnd,
      KillDaemon, KillAdopter, Ota, DiskFills, DiskFrees
<1> QED BY <1>1, <1>2, <1>3, <1>4

\* A warning is never taken back.
LEMMA WarnedStays == ASSUME [Next]_vars, warned PROVE warned'
BY DEF Next, vars, Daemon, Adopter, Environment, DaemonStart, DaemonLoad, DaemonLearn,
       DaemonCommit, DaemonEnd, DaemonOpen, AdoptStart, AdoptMove, AdoptOpen, AdoptCommit,
       AdoptVerify, AdoptEnd, KillDaemon, KillAdopter, Ota, DiskFills, DiskFrees

\* What a step saves it keeps, and it loses nothing saved before.
LEMMA KeptUnlessStep == ASSUME Inv, [Next]_vars PROVE KeptUnlessUnmoved'
<1> SUFFICES ASSUME ~warned' PROVE archived' \subseteq Kept' BY DEF KeptUnlessUnmoved
<1>1. ~warned BY WarnedStays
<1> QED BY <1>1, KeptStep, SavedKept DEF Inv, KeptUnlessUnmoved

\* Only the daemon that loaded or saved it writes adaptive_model while it runs.
LEMMA RememberedStep == ASSUME Inv, [Next]_vars PROVE ModelRemembered'
<1> USE DEF ModelRemembered
<1>1. LockOK /\ ModelRemembered /\ TypeOK BY DEF Inv, TypeOK
<1>2. CASE UNCHANGED <<files, daemon, warned>> BY <1>1, <1>2
<1>3. CASE daemon' = Off BY <1>3
<1>4. ASSUME NEW pid \in Pids, DaemonStart(pid) PROVE ModelRemembered'
  BY <1>4, Started
<1>5. CASE DaemonLoad
  <2>1. CASE Model \notin DOMAIN files BY <1>5, <2>1 DEF DaemonLoad
  <2>2. CASE Model \in DOMAIN files /\ Loads(files[Model], identity)
    <3>1. files' = files BY <1>5, <2>2 DEF DaemonLoad
    <3>2. daemon' = [daemon EXCEPT !.at = "live", !.lessons = files[Model].lessons,
                                   !.born = files[Model].lessons]
      BY <1>5, <2>2 DEF DaemonLoad
    <3>3. daemon \in DaemonStates /\ daemon # Off BY <1>1, <1>5 DEF TypeOK, DaemonLoad, Off
    <3>4. daemon'.lessons = files[Model].lessons BY <3>2, <3>3 DEF DaemonStates
    <3> QED BY <3>1, <3>4
  <2>3. CASE Model \in DOMAIN files /\ ~Loads(files[Model], identity) /\ ~full
    <3>1. Model \notin DOMAIN files'
      BY <1>1, <1>5, <2>3, RenameAside DEF DaemonLoad, TypeOK
    <3> QED BY <3>1
  <2>4. CASE Model \in DOMAIN files /\ ~Loads(files[Model], identity) /\ full
    BY <1>5, <2>4 DEF DaemonLoad
  <2> QED BY <2>1, <2>2, <2>3, <2>4
<1>6. CASE DaemonLearn
  <2>1. daemon # Off /\ daemon \in DaemonStates BY <1>1, <1>6 DEF TypeOK, DaemonLearn, Off
  <2>2. daemon.lessons \subseteq daemon'.lessons BY <1>6, <2>1 DEF DaemonLearn, DaemonStates
  <2>3. UNCHANGED <<files, warned>> /\ daemon.at = "live" BY <1>6 DEF DaemonLearn
  <2> QED BY <1>1, <2>1, <2>2, <2>3
<1>7. ASSUME NEW then \in {"live", "end"}, DaemonOpen(then) PROVE ModelRemembered'
  <2>1. daemon # Off /\ daemon \in DaemonStates BY <1>1, <1>7 DEF TypeOK, DaemonOpen, Off
  <2>2. daemon'.lessons = daemon.lessons BY <1>7, <2>1 DEF DaemonOpen, DaemonStates
  <2>3. UNCHANGED <<files, warned>> /\ daemon.at = "live" BY <1>7 DEF DaemonOpen
  <2> QED BY <1>1, <2>1, <2>2, <2>3
<1>8. CASE DaemonCommit
  <2>1. daemon # Off /\ daemon \in DaemonStates /\ daemon.at # "load"
    BY <1>1, <1>8 DEF TypeOK, DaemonCommit, Off
  <2>2. daemon'.lessons = daemon.lessons BY <1>8, <2>1 DEF DaemonCommit, DaemonStates
  <2>3. UNCHANGED warned BY <1>8 DEF DaemonCommit
  <2>4. CASE full BY <1>1, <1>8, <2>1, <2>2, <2>3, <2>4 DEF DaemonCommit
  <2>5. CASE ~full
    <3>1. files'[Model].lessons = daemon.lessons
      BY <1>1, <1>8, <2>5, DaemonSaves, SaveOver DEF TypeOK
    <3> QED BY <2>2, <3>1
  <2> QED BY <2>4, <2>5
<1>9. CASE AdoptMove \/ AdoptCommit
  <2>1. adopter # Off /\ UNCHANGED daemon BY <1>9 DEF AdoptMove, AdoptCommit, Off
  <2>2. daemon = Off BY <1>1, <2>1 DEF LockOK
  <2> QED BY <2>1, <2>2
<1>10. CASE DaemonEnd \/ KillDaemon BY <1>3, <1>10 DEF DaemonEnd, KillDaemon
<1>11. CASE \/ \E pid \in Pids : \E name \in DOMAIN files : AdoptStart(pid, name)
            \/ AdoptOpen \/ AdoptVerify \/ AdoptEnd
            \/ KillAdopter \/ Ota \/ DiskFills \/ DiskFrees \/ UNCHANGED vars
  BY <1>2, <1>11 DEF AdoptStart, AdoptOpen, AdoptVerify, AdoptEnd, KillAdopter, Ota,
      DiskFills, DiskFrees, vars
<1> QED BY <1>4, <1>5, <1>6, <1>7, <1>8, <1>9, <1>10, <1>11
    DEF Next, Daemon, Adopter, Environment

\* Nobody puts an adaptive_model back between an adoption's rename and its save.
LEMMA MovedStep == ASSUME Inv, [Next]_vars PROVE ModelMoved'
<1> USE DEF ModelMoved
<1>1. LockOK /\ ModelMoved /\ TypeOK BY DEF Inv, TypeOK
<1>2. CASE UNCHANGED <<files, adopter>> BY <1>1, <1>2
<1>3. CASE DaemonLoad \/ DaemonCommit
  <2>1. daemon # Off /\ UNCHANGED adopter BY <1>3 DEF DaemonLoad, DaemonCommit, Off
  <2>2. adopter = Off BY <1>1, <2>1 DEF LockOK
  <2> QED BY <2>1, <2>2
<1>4. CASE AdoptMove
  <2>1. CASE Model \notin DOMAIN files BY <1>4, <2>1 DEF AdoptMove
  <2>2. CASE Model \in DOMAIN files /\ full
    <3>1. adopter' = [adopter EXCEPT !.at = "end"] BY <1>4, <2>2 DEF AdoptMove
    <3>2. adopter \in AdopterStates /\ adopter # Off BY <1>1, <1>4 DEF TypeOK, AdoptMove, Off
    <3>3. adopter'.at = "end" BY <3>1, <3>2 DEF AdopterStates
    <3> QED BY <3>3
  <2>3. CASE Model \in DOMAIN files /\ ~full
    BY <1>1, <1>4, <2>3, RenameAside DEF AdoptMove, TypeOK
  <2> QED BY <2>1, <2>2, <2>3
<1>5. CASE AdoptOpen
  <2>1. adopter # Off /\ adopter.at = "open" /\ UNCHANGED files BY <1>5 DEF AdoptOpen, Off
  <2> QED BY <1>1, <2>1
<1>6. CASE AdoptCommit \/ AdoptVerify
  <2>1. adopter \in AdopterStates /\ adopter # Off
    BY <1>1, <1>6 DEF TypeOK, AdoptCommit, AdoptVerify, Off
  <2>2. adopter'.at \in {"verify", "end"}
    BY <1>6, <2>1 DEF AdoptCommit, AdoptVerify, AdopterStates
  <2> QED BY <2>2
<1>7. ASSUME NEW pid \in Pids, NEW name \in DOMAIN files, AdoptStart(pid, name)
      PROVE  ModelMoved'
  <2>1. adopter'.at = "move" BY <1>7 DEF AdoptStart
  <2> QED BY <2>1
<1>8. CASE AdoptEnd \/ KillAdopter BY <1>8 DEF AdoptEnd, KillAdopter
<1>9. CASE \/ \E pid \in Pids : DaemonStart(pid)
           \/ \E then \in {"live", "end"} : DaemonOpen(then)
           \/ DaemonLearn \/ DaemonEnd \/ KillDaemon \/ Ota \/ DiskFills \/ DiskFrees
           \/ UNCHANGED vars
  BY <1>2, <1>9 DEF DaemonStart, DaemonOpen, DaemonLearn, DaemonEnd, KillDaemon, Ota,
      DiskFills, DiskFrees, vars
<1> QED BY <1>3, <1>4, <1>5, <1>6, <1>7, <1>8, <1>9 DEF Next, Daemon, Adopter, Environment

\* A start has nothing in mind before loadBrain answers.
LEMMA LoadEmptyStep == ASSUME Inv, [Next]_vars PROVE LoadEmpty'
<1> USE DEF LoadEmpty
<1>1. TypeOK /\ LoadEmpty BY DEF Inv
<1>2. CASE UNCHANGED daemon BY <1>1, <1>2
<1>3. ASSUME NEW pid \in Pids, DaemonStart(pid) PROVE LoadEmpty' BY <1>3, Started
<1>4. CASE DaemonLoad BY <1>1, <1>4, Loaded
<1>5. CASE DaemonLearn \/ DaemonCommit \/ \E then \in {"live", "end"} : DaemonOpen(then)
  <2>1. daemon # Off /\ daemon \in DaemonStates
    BY <1>1, <1>5 DEF TypeOK, DaemonLearn, DaemonCommit, DaemonOpen, Off
  <2>2. daemon.at # "load" /\ daemon'.at # "load"
    BY <1>5, <2>1 DEF DaemonLearn, DaemonCommit, DaemonOpen, DaemonStates
  <2> QED BY <2>2
<1>6. CASE DaemonEnd \/ KillDaemon BY <1>6 DEF DaemonEnd, KillDaemon
<1>7. CASE Adopter \/ KillAdopter \/ Ota \/ DiskFills \/ DiskFrees \/ UNCHANGED vars
  BY <1>2, <1>7 DEF Adopter, AdoptStart, AdoptMove, AdoptOpen, AdoptCommit, AdoptVerify,
      AdoptEnd, KillAdopter, Ota, DiskFills, DiskFrees, vars
<1> QED BY <1>3, <1>4, <1>5, <1>6, <1>7 DEF Next, Daemon, Environment

\* The file an adoption read stays where it is.
LEMMA AdopteeStep == ASSUME Inv, [Next]_vars PROVE AdopteeKept'
<1> USE DEF AdopteeKept
<1>1. LockOK /\ TypeOK /\ AdopteeKept BY DEF Inv, TypeOK
<1>2. CASE UNCHANGED <<files, adopter>> BY <1>1, <1>2 DEF Kept
<1>3. CASE DaemonLoad \/ DaemonCommit
  <2>1. daemon # Off /\ UNCHANGED adopter BY <1>3 DEF DaemonLoad, DaemonCommit, Off
  <2>2. adopter = Off BY <1>1, <2>1 DEF LockOK
  <2> QED BY <2>1, <2>2
<1>4. ASSUME NEW pid \in Pids, NEW name \in DOMAIN files, AdoptStart(pid, name)
      PROVE  AdopteeKept'
  <2>1. files' = files /\ adopter'.lessons = files[name].lessons BY <1>4 DEF AdoptStart
  <2> QED BY <2>1 DEF Kept
<1>5. CASE AdoptMove \/ AdoptOpen \/ AdoptCommit \/ AdoptVerify
  <2>1. adopter # Off /\ adopter \in AdopterStates
    BY <1>1, <1>5 DEF TypeOK, AdoptMove, AdoptOpen, AdoptCommit, AdoptVerify, Off
  <2>2. adopter'.lessons = adopter.lessons
    BY <1>5, <2>1 DEF AdopterStates, AdoptMove, AdoptOpen, AdoptCommit, AdoptVerify
  <2>3. Kept \subseteq Kept'
    <3>1. CASE UNCHANGED files BY <3>1 DEF Kept
    <3>2. CASE AdoptMove BY <1>1, <3>1, <3>2, RenameAside DEF AdoptMove, TypeOK
    <3>3. CASE AdoptCommit /\ ~full
      <4>1. Model \notin DOMAIN files BY <2>1, <3>3 DEF AdoptCommit, Inv, ModelMoved
      <4> QED BY <1>1, <3>3, <4>1, AdopterSaves, SaveOver DEF TypeOK
    <3>4. CASE AdoptCommit /\ full BY <3>1, <3>4 DEF AdoptCommit
    <3> QED BY <1>5, <3>1, <3>2, <3>3, <3>4 DEF AdoptOpen, AdoptVerify
  <2> QED BY <1>1, <2>1, <2>2, <2>3
<1>6. CASE AdoptEnd \/ KillAdopter BY <1>6 DEF AdoptEnd, KillAdopter
<1>7. CASE \/ \E pid \in Pids : DaemonStart(pid)
           \/ \E then \in {"live", "end"} : DaemonOpen(then)
           \/ DaemonLearn \/ DaemonEnd \/ KillDaemon \/ Ota \/ DiskFills \/ DiskFrees
           \/ UNCHANGED vars
  BY <1>2, <1>7 DEF DaemonStart, DaemonOpen, DaemonLearn, DaemonEnd, KillDaemon, Ota,
      DiskFills, DiskFrees, vars
<1> QED BY <1>3, <1>4, <1>5, <1>6, <1>7 DEF Next, Daemon, Adopter, Environment

\* The invariant is inductive.
LEMMA InvStep == Inv /\ [Next]_vars => Inv'
BY TypeStep, RememberedStep, MovedStep, KeptUnlessStep, LoadEmptyStep, AdopteeStep DEF Inv

-----------------------------------------------------------------------------
(* Theorems.                                                               *)

\* And so it always holds.
LEMMA InvHolds == Spec => []Inv
BY InvInit, InvStep, PTL DEF Spec

\* The state keeps its types, and a process that runs holds the flock.
THEOREM TypeCorrect == Spec => []TypeOK
<1>1. Inv => TypeOK BY DEF Inv
<1> QED BY <1>1, InvHolds, PTL

\* Whatever was ever saved is in some file, unless a daemon said that it could
\* not move a brain it rejected.
THEOREM NothingForgotten == Spec => []KeptUnlessUnmoved
<1>1. Inv => KeptUnlessUnmoved BY DEF Inv
<1> QED BY <1>1, InvHolds, PTL

\* A brain set aside is never changed, replaced or removed.
THEOREM AsideStays == Spec => AsideUntouched
<1>1. ASSUME Inv, [Next]_vars
      PROVE  \A n \in DOMAIN files \ {Model} : n \in DOMAIN files' /\ files'[n] = files[n]
  BY <1>1, FilesMove, RenameAside, SaveOver DEF Inv, TypeOK
<1>2. Inv /\ [Next]_vars =>
          [\A n \in DOMAIN files \ {Model} : n \in DOMAIN files' /\ files'[n] = files[n]]_vars
  BY <1>1
<1> QED BY <1>2, InvHolds, PTL DEF Spec, AsideUntouched

-----------------------------------------------------------------------------
(* Adoptions and resets.                                                   *)

\* What was adopted stands in a file that loads, so that no start moves it.
AdoptedSound == adopted # {} => files[Model].sound

\* No file is empty, and no process saves or adopts an empty brain.
NoneEmpty ==
    /\ \A n \in DOMAIN files : files[n].lessons # {}
    /\ daemon # Off /\ daemon.at \in {"save", "last"} => daemon.lessons # {}
    /\ adopter # Off => adopter.lessons # {}

\* The directory has lost its adaptive_model only where somebody moved it.
NeverGone == gone = "none" /\ Model \notin DOMAIN files => DOMAIN files = {}

\* A start knows nothing yet but whether somebody moved it.
AtLoad ==
    daemon # Off /\ daemon.at = "load" =>
        daemon.gone = gone /\ daemon.born = {} /\ daemon.rejected = {}

StoreInv ==
    Inv /\ AdoptedInUse /\ AdoptedSound /\ NoneEmpty /\ NeverGone /\ AtLoad /\ ResetSeen

\* Before the first start.
LEMMA StoreInvInit == Init => StoreInv
<1> SUFFICES ASSUME Init PROVE StoreInv OBVIOUS
<1>1. Inv BY InvInit
<1>2. DOMAIN files \subseteq {Model} /\ \A n \in DOMAIN files : files[n].lessons # {}
  <2>1. CASE files = <<>> BY <2>1
  <2>2. CASE files \in [{Model} -> [id : Identities, sound : BOOLEAN, lessons : {{0}}]] BY <2>2
  <2> QED BY <2>1, <2>2 DEF Init
<1>3. adopted = {} /\ daemon = Off /\ adopter = Off BY DEF Init
<1> QED BY <1>1, <1>2, <1>3 DEF StoreInv, AdoptedInUse, AdoptedSound, NoneEmpty, NeverGone, AtLoad,
                               ResetSeen

\* What the steps of the daemon past loadBrain do to it.
LEMMA DaemonGoesOn ==
    ASSUME TypeOK, DaemonLearn \/ DaemonCommit \/ \E then \in {"live", "end"} : DaemonOpen(then)
    PROVE  /\ daemon # Off /\ daemon \in DaemonStates /\ daemon.at # "load"
           /\ daemon' # Off /\ daemon'.at # "load" /\ daemon.lessons \subseteq daemon'.lessons
           /\ UNCHANGED <<adopter, identity, adopted>>
           /\ daemon'.born = daemon.born /\ daemon'.rejected = daemon.rejected
           /\ daemon'.gone = daemon.gone
<1>1. daemon # Off /\ daemon \in DaemonStates
  BY DEF TypeOK, DaemonLearn, DaemonCommit, DaemonOpen, Off
<1>2. CASE DaemonLearn BY <1>1, <1>2 DEF DaemonLearn, DaemonStates, Off
<1>3. CASE DaemonCommit BY <1>1, <1>3 DEF DaemonCommit, DaemonStates, Off
<1>4. ASSUME NEW then \in {"live", "end"}, DaemonOpen(then)
      PROVE  /\ daemon.at # "load" /\ daemon' # Off /\ daemon'.at # "load"
             /\ daemon.lessons \subseteq daemon'.lessons
             /\ UNCHANGED <<adopter, identity, adopted>>
             /\ daemon'.born = daemon.born /\ daemon'.rejected = daemon.rejected
             /\ daemon'.gone = daemon.gone
  BY <1>1, <1>4 DEF DaemonOpen, DaemonStates, Off
<1> QED BY <1>1, <1>2, <1>3, <1>4

\* The steps nobody's files, memory or verdicts change in.
Idle ==
    \/ DaemonEnd \/ KillDaemon \/ AdoptOpen \/ AdoptEnd \/ KillAdopter
    \/ DiskFills \/ DiskFrees \/ UNCHANGED vars

LEMMA IdleLeaves ==
    ASSUME TypeOK, Idle
    PROVE  /\ UNCHANGED <<files, identity, gone, adopted>>
           /\ daemon' = Off \/ daemon' = daemon
           /\ adopter' = Off \/ (/\ adopter # Off /\ adopter' # Off /\ adopter'.lessons = adopter.lessons)
                             \/ adopter' = adopter
<1>1. CASE AdoptOpen
  <2>1. adopter # Off /\ adopter \in AdopterStates BY <1>1 DEF TypeOK, AdoptOpen, Off
  <2> QED BY <1>1, <2>1 DEF AdoptOpen, AdopterStates, Off
<1> QED BY <1>1 DEF Idle, DaemonEnd, KillDaemon, AdoptEnd, KillAdopter, DiskFills, DiskFrees, vars

\* What an adoption that succeeded took into use stays there.
LEMMA AdoptedStep ==
    ASSUME Inv, AdoptedInUse, AdoptedSound, [Next]_vars
    PROVE  AdoptedInUse' /\ AdoptedSound'
<1> USE DEF AdoptedInUse, AdoptedSound
<1>1. TypeOK /\ LockOK /\ FilesOK BY DEF Inv, TypeOK
<1>2. CASE Idle BY <1>1, <1>2, IdleLeaves
<1>3. ASSUME NEW pid \in Pids, DaemonStart(pid) PROVE AdoptedInUse' /\ AdoptedSound'
  <2>1. daemon'.at = "load" BY <1>3, Started
  <2>2. UNCHANGED <<files, identity, adopted>> BY <1>3 DEF DaemonStart
  <2> QED BY <2>1, <2>2
<1>4. CASE DaemonLoad
  <2>1. UNCHANGED <<identity, adopted>> BY <1>4 DEF DaemonLoad
  <2>2. ASSUME adopted # {}
        PROVE  /\ UNCHANGED files /\ daemon'.lessons = files[Model].lessons
    <3>1. Model \in DOMAIN files /\ Loads(files[Model], identity) BY <2>2 DEF Loads
    <3>2. daemon # Off /\ daemon \in DaemonStates BY <1>1, <1>4 DEF DaemonLoad, TypeOK, Off
    <3> QED BY <1>4, <3>1, <3>2 DEF DaemonLoad, DaemonStates
  <2> QED BY <2>1, <2>2
<1>5. CASE DaemonCommit /\ ~full
  <2>1. PICK c \in Content : /\ c.id = identity /\ c.sound /\ c.lessons = daemon.lessons
                             /\ files' = Replaced(Model, c)
    BY <1>1, <1>5, DaemonSaves
  <2>2. Model \in DOMAIN files' /\ files'[Model] = c BY <1>1, <2>1, SaveOver
  <2> QED BY <1>1, <1>5, <2>1, <2>2, DaemonGoesOn
<1>6. CASE (DaemonCommit /\ full) \/ DaemonLearn \/ \E then \in {"live", "end"} : DaemonOpen(then)
  <2>1. UNCHANGED files BY <1>6 DEF DaemonCommit, DaemonLearn, DaemonOpen
  <2> QED BY <1>1, <1>6, <2>1, DaemonGoesOn
<1>7. ASSUME NEW pid \in Pids, NEW name \in DOMAIN files, AdoptStart(pid, name)
      PROVE  AdoptedInUse' /\ AdoptedSound'
  BY <1>7 DEF AdoptStart
<1>8. CASE AdoptMove \/ AdoptCommit \/ AdoptVerify
  <2>1. adopter # Off /\ UNCHANGED <<daemon, identity>>
    BY <1>8 DEF AdoptMove, AdoptCommit, AdoptVerify, Off
  <2>2. daemon = Off BY <1>1, <2>1 DEF LockOK
  <2>3. CASE AdoptMove
    <3>1. UNCHANGED <<files, adopted>> \/ adopted' = {} BY <2>3 DEF AdoptMove
    <3> QED BY <2>1, <2>2, <3>1
  <2>4. CASE AdoptCommit
    <3>1. Model \notin DOMAIN files BY <2>1, <2>4 DEF AdoptCommit, Inv, ModelMoved
    <3>2. adopted' = {} BY <2>4, <3>1 DEF AdoptCommit
    <3> QED BY <3>2
  <2>5. CASE AdoptVerify BY <2>1, <2>2, <2>5 DEF AdoptVerify, Loads
  <2> QED BY <1>8, <2>3, <2>4, <2>5
<1>9. CASE Ota BY <1>9 DEF Ota
<1> QED BY <1>2, <1>3, <1>4, <1>5, <1>6, <1>7, <1>8, <1>9
    DEF Next, Daemon, Adopter, Environment, Idle

\* No empty brain reaches a file.
LEMMA NoneEmptyStep == ASSUME Inv, NoneEmpty, [Next]_vars PROVE NoneEmpty'
<1> USE DEF NoneEmpty
<1>1. TypeOK /\ LockOK /\ FilesOK BY DEF Inv, TypeOK
<1>2. CASE Idle BY <1>1, <1>2, IdleLeaves
<1>3. ASSUME NEW pid \in Pids, DaemonStart(pid) PROVE NoneEmpty'
  <2>1. daemon'.at = "load" BY <1>3, Started
  <2>2. UNCHANGED <<files, adopter>> BY <1>3 DEF DaemonStart
  <2> QED BY <2>1, <2>2
<1>4. CASE DaemonLoad
  <2>1. daemon'.at = "live" /\ UNCHANGED adopter BY <1>1, <1>4, Loaded DEF DaemonLoad
  <2>2. \A n \in DOMAIN files' : \E m \in DOMAIN files : files'[n] = files[m]
    <3>1. CASE UNCHANGED files BY <3>1
    <3>2. CASE ~UNCHANGED files
      <4>1. PICK s \in Seconds : files' = Renamed(Model, UnusedName("rejected", s))
        BY <1>4, <3>2 DEF DaemonLoad
      <4>2. Model \in DOMAIN files BY <1>4, <3>2 DEF DaemonLoad
      <4> QED BY <4>1, <4>2 DEF Renamed
    <3> QED BY <3>1, <3>2
  <2> QED BY <2>1, <2>2
<1>5. CASE DaemonCommit /\ ~full
  <2>1. PICK c \in Content : c.lessons = daemon.lessons /\ files' = Replaced(Model, c)
    BY <1>1, <1>5, DaemonSaves
  <2>2. daemon.lessons # {} /\ daemon # Off /\ daemon \in DaemonStates
    BY <1>1, <1>5 DEF DaemonCommit, TypeOK, Off
  <2>3. daemon'.at \in {"live", "end"} /\ UNCHANGED adopter
    BY <1>5, <2>2 DEF DaemonCommit, DaemonStates
  <2>4. \A n \in DOMAIN files' : files'[n] = c \/ (n \in DOMAIN files /\ files'[n] = files[n])
    BY <2>1 DEF Replaced
  <2> QED BY <2>1, <2>2, <2>3, <2>4
<1>6. CASE (DaemonCommit /\ full) \/ DaemonLearn \/ \E then \in {"live", "end"} : DaemonOpen(then)
  <2>1. UNCHANGED <<files, adopter>> BY <1>6 DEF DaemonCommit, DaemonLearn, DaemonOpen
  <2>2. daemon'.lessons # {} \/ daemon'.at \notin {"save", "last"}
    <3>1. daemon # Off /\ daemon \in DaemonStates BY <1>1, <1>6, DaemonGoesOn
    <3> QED BY <1>6, <3>1 DEF DaemonCommit, DaemonLearn, DaemonOpen, DaemonStates
  <2> QED BY <2>1, <2>2
<1>7. ASSUME NEW pid \in Pids, NEW name \in DOMAIN files, AdoptStart(pid, name)
      PROVE  NoneEmpty'
  BY <1>7 DEF AdoptStart
<1>8. CASE AdoptMove \/ AdoptVerify \/ AdoptCommit
  <2>1. adopter # Off /\ adopter \in AdopterStates /\ UNCHANGED daemon
    BY <1>1, <1>8 DEF AdoptMove, AdoptVerify, AdoptCommit, TypeOK, Off
  <2>2. adopter'.lessons = adopter.lessons
    BY <1>8, <2>1 DEF AdoptMove, AdoptVerify, AdoptCommit, AdopterStates
  <2>3. CASE UNCHANGED files BY <2>1, <2>2, <2>3
  <2>4. CASE AdoptMove /\ ~UNCHANGED files
    <3>1. PICK s \in Seconds : files' = Renamed(Model, UnusedName("replaced", s))
      BY <2>4 DEF AdoptMove
    <3>2. Model \in DOMAIN files BY <2>4 DEF AdoptMove
    <3>3. \A n \in DOMAIN files' : \E m \in DOMAIN files : files'[n] = files[m]
      BY <3>1, <3>2 DEF Renamed
    <3> QED BY <2>1, <2>2, <3>3
  <2>5. CASE AdoptCommit /\ ~full
    <3>1. PICK c \in Content : c.lessons = adopter.lessons /\ files' = Replaced(Model, c)
      BY <1>1, <2>5, AdopterSaves
    <3>2. \A n \in DOMAIN files' : files'[n] = c \/ (n \in DOMAIN files /\ files'[n] = files[n])
      BY <3>1 DEF Replaced
    <3> QED BY <2>1, <2>2, <3>1, <3>2
  <2> QED BY <1>8, <2>3, <2>4, <2>5 DEF AdoptVerify, AdoptCommit
<1>9. CASE Ota BY <1>9 DEF Ota
<1> QED BY <1>2, <1>3, <1>4, <1>5, <1>6, <1>7, <1>8, <1>9
    DEF Next, Daemon, Adopter, Environment, Idle

\* A missing adaptive_model is a first boot, or somebody answers for it.
LEMMA NeverGoneStep == ASSUME Inv, NeverGone, [Next]_vars PROVE NeverGone'
<1> USE DEF NeverGone
<1>1. TypeOK /\ FilesOK BY DEF Inv, TypeOK
<1>2. CASE UNCHANGED <<files, gone>> BY <1>2
<1>3. CASE DaemonLoad BY <1>2, <1>3 DEF DaemonLoad
<1>4. CASE AdoptMove BY <1>2, <1>4 DEF AdoptMove
<1>5. CASE DaemonCommit /\ ~full BY <1>1, <1>5, DaemonSaves, SaveOver
<1>6. CASE AdoptCommit /\ ~full BY <1>1, <1>6, AdopterSaves, SaveOver
<1>7. CASE (DaemonCommit \/ AdoptCommit) /\ full BY <1>2, <1>7 DEF DaemonCommit, AdoptCommit
<1>8. CASE UNCHANGED vars BY <1>2, <1>8 DEF vars
<1> QED BY <1>2, <1>3, <1>4, <1>5, <1>6, <1>7, <1>8
    DEF Next, Daemon, Adopter, Environment, DaemonStart, DaemonLearn, DaemonEnd,
        DaemonOpen, AdoptStart, AdoptOpen, AdoptVerify, AdoptEnd, KillDaemon, KillAdopter,
        Ota, DiskFills, DiskFrees

\* While loadBrain runs nobody else is at the files.
LEMMA AtLoadStep == ASSUME Inv, AtLoad, [Next]_vars PROVE AtLoad'
<1> USE DEF AtLoad
<1>1. TypeOK /\ LockOK BY DEF Inv, TypeOK
<1>2. CASE Idle BY <1>1, <1>2, IdleLeaves
<1>3. ASSUME NEW pid \in Pids, DaemonStart(pid) PROVE AtLoad'
  <2>1. daemon'.gone = gone /\ daemon'.born = {} /\ daemon'.rejected = {} BY <1>3, Started
  <2> QED BY <1>3, <2>1 DEF DaemonStart
<1>4. CASE DaemonLoad BY <1>1, <1>4, Loaded
<1>5. CASE DaemonLearn \/ DaemonCommit \/ \E then \in {"live", "end"} : DaemonOpen(then)
  BY <1>1, <1>5, DaemonGoesOn
<1>6. CASE AdoptMove \/ AdoptVerify \/ AdoptCommit
  <2>1. adopter # Off /\ UNCHANGED daemon
    BY <1>6 DEF AdoptMove, AdoptVerify, AdoptCommit, Off
  <2> QED BY <1>1, <2>1 DEF LockOK
<1>7. ASSUME NEW pid \in Pids, NEW name \in DOMAIN files, AdoptStart(pid, name)
      PROVE  AtLoad'
  BY <1>7 DEF AdoptStart
<1>8. CASE Ota BY <1>8 DEF Ota
<1> QED BY <1>2, <1>3, <1>4, <1>5, <1>6, <1>7, <1>8
    DEF Next, Daemon, Adopter, Environment, Idle

\* A daemon that starts with nothing, and says nothing, found nothing.
LEMMA ResetStep ==
    ASSUME Inv, NoneEmpty, NeverGone, AtLoad, ResetSeen, [Next]_vars
    PROVE  ResetSeen'
<1> USE DEF ResetSeen
<1>1. TypeOK /\ LockOK /\ FilesOK BY DEF Inv, TypeOK
<1>2. CASE Idle
  <2>1. UNCHANGED files /\ (daemon' = Off \/ daemon' = daemon) BY <1>1, <1>2, IdleLeaves
  <2> QED BY <2>1 DEF Kept
<1>3. ASSUME NEW pid \in Pids, DaemonStart(pid) PROVE ResetSeen' BY <1>3, Started
<1>4. CASE DaemonLoad
  <2>1. daemon # Off /\ daemon \in DaemonStates /\ daemon.at = "load"
    BY <1>1, <1>4 DEF DaemonLoad, TypeOK, Off
  <2>2. CASE Model \notin DOMAIN files
    <3>1. UNCHANGED files /\ daemon'.gone = daemon.gone BY <1>4, <2>1, <2>2 DEF DaemonLoad, DaemonStates
    <3>2. daemon.gone = "none" => Kept = {} BY <2>1, <2>2 DEF AtLoad, NeverGone, Kept
    <3>3. daemon'.gone = "none" => Kept' = {} BY <3>1, <3>2 DEF Kept
    <3> QED BY <3>3
  <2>3. CASE Model \in DOMAIN files /\ Loads(files[Model], identity)
    <3>1. daemon'.born = files[Model].lessons BY <1>4, <2>1, <2>3 DEF DaemonLoad, DaemonStates
    <3>2. files[Model].lessons # {} BY <2>3 DEF NoneEmpty
    <3> QED BY <3>1, <3>2
  <2>4. CASE Model \in DOMAIN files /\ ~Loads(files[Model], identity)
    <3>1. PICK moved \in BOOLEAN : daemon' = [daemon EXCEPT !.at = "live", !.rejected = Verdict(moved)]
      BY <1>4, <2>4 DEF DaemonLoad
    <3>2. daemon'.rejected = Verdict(moved) /\ Verdict(moved) # {}
      BY <2>1, <3>1 DEF DaemonStates, Verdict
    <3> QED BY <3>2
  <2> QED BY <2>2, <2>3, <2>4
<1>5. CASE DaemonLearn \/ DaemonCommit \/ \E then \in {"live", "end"} : DaemonOpen(then)
  <2>1. /\ daemon # Off /\ daemon.at # "load" /\ daemon.lessons \subseteq daemon'.lessons
        /\ daemon'.born = daemon.born /\ daemon'.rejected = daemon.rejected
        /\ daemon'.gone = daemon.gone
    BY <1>1, <1>5, DaemonGoesOn
  <2>2. Kept' \subseteq Kept \cup daemon.lessons
    <3>1. CASE DaemonCommit /\ ~full BY <1>1, <3>1, DaemonSaves, SaveOver
    <3>2. CASE UNCHANGED files BY <3>2 DEF Kept
    <3> QED BY <1>5, <3>1, <3>2 DEF DaemonCommit, DaemonLearn, DaemonOpen
  <2> QED BY <2>1, <2>2
<1>6. CASE AdoptMove \/ AdoptVerify \/ AdoptCommit
  <2>1. adopter # Off /\ UNCHANGED daemon
    BY <1>6 DEF AdoptMove, AdoptVerify, AdoptCommit, Off
  <2> QED BY <1>1, <2>1 DEF LockOK
<1>7. ASSUME NEW pid \in Pids, NEW name \in DOMAIN files, AdoptStart(pid, name)
      PROVE  ResetSeen'
  BY <1>7 DEF AdoptStart, Kept
<1>8. CASE Ota BY <1>8 DEF Ota
<1> QED BY <1>2, <1>3, <1>4, <1>5, <1>6, <1>7, <1>8
    DEF Next, Daemon, Adopter, Environment, Idle

\* The two stand on the invariant of the files.
LEMMA StoreInvHolds == Spec => []StoreInv
<1>1. StoreInv /\ [Next]_vars => StoreInv'
  BY InvStep, AdoptedStep, NoneEmptyStep, NeverGoneStep, AtLoadStep, ResetStep DEF StoreInv
<1> QED BY <1>1, StoreInvInit, PTL DEF Spec

\* "no daemon can save over the file being replaced" (main.cpp): whatever saves,
\* kills, full disks and starts follow an adoption that answered success, what
\* it took into use is in adaptive_model and in every daemon that loaded since.
THEOREM AdoptionStays == Spec => []AdoptedInUse
<1>1. StoreInv => AdoptedInUse BY DEF StoreInv
<1> QED BY <1>1, StoreInvHolds, PTL

\* "so the reset is visible, not silent" (main.cpp): a daemon that knows less
\* than some file holds, and found nothing to load, has said why.
THEOREM ResetsSeen == Spec => []ResetSeen
<1>1. StoreInv => ResetSeen BY DEF StoreInv
<1> QED BY <1>1, StoreInvHolds, PTL

-----------------------------------------------------------------------------
(* The archive.                                                            *)

\* What the refinement mapping reads.
Mind == IF daemon = Off THEN {} ELSE daemon.lessons
Up == daemon # Off /\ daemon.at # "load"

\* A step that leaves the daemon alone leaves the archive as it is: what an
\* adoption saves was already kept.
LEMMA AdopterStutters ==
    ASSUME Inv, Adopter \/ KillAdopter \/ Ota \/ DiskFills \/ DiskFrees \/ UNCHANGED vars
    PROVE  UNCHANGED <<Kept, Mind, Up, warned>>
<1> USE DEF Mind, Up
<1>1. UNCHANGED <<daemon, warned>>
  BY DEF Adopter, AdoptStart, AdoptMove, AdoptOpen, AdoptCommit, AdoptVerify, AdoptEnd,
         KillAdopter, Ota, DiskFills, DiskFrees, vars
<1>2. Kept' = Kept
  <2>1. CASE UNCHANGED files BY <2>1 DEF Kept
  <2>2. CASE AdoptMove BY <2>1, <2>2, RenameAside DEF AdoptMove, Inv, TypeOK
  <2>3. CASE AdoptCommit /\ ~full
    <3>1. Model \notin DOMAIN files /\ adopter.lessons \subseteq Kept
      BY <2>3 DEF AdoptCommit, Inv, ModelMoved, AdopteeKept, Off
    <3>2. FilesOK BY DEF Inv, TypeOK
    <3>3. PICK c \in Content : c.lessons = adopter.lessons /\ files' = Replaced(Model, c)
      BY <2>3, AdopterSaves DEF Inv
    <3> QED BY <3>1, <3>2, <3>3, SaveOver
  <2>4. CASE AdoptCommit /\ full BY <2>1, <2>4 DEF AdoptCommit
  <2> QED BY <2>1, <2>2, <2>3, <2>4
      DEF Adopter, AdoptStart, AdoptOpen, AdoptVerify, AdoptEnd, KillAdopter, Ota,
          DiskFills, DiskFrees, vars
<1> QED BY <1>1, <1>2

\* loadBrain wakes the engine up.
LEMMA LoadWakes ==
    ASSUME Inv, DaemonLoad
    PROVE  /\ ~Up /\ Up' /\ Mind' \subseteq Kept /\ Kept' = Kept
           /\ warned' = warned \/ (Mind' = {} /\ warned')
<1>1. daemon # Off /\ daemon \in DaemonStates /\ daemon.at = "load" /\ daemon.lessons = {}
  BY DEF DaemonLoad, Inv, TypeOK, LoadEmpty, Off
<1>2. daemon' # Off /\ daemon'.at = "live" BY Loaded DEF Inv, Off
<1>3. FilesOK BY DEF Inv, TypeOK
<1>4. Up' /\ ~Up /\ Mind' = daemon'.lessons BY <1>1, <1>2 DEF Up, Mind
<1>5. CASE Model \notin DOMAIN files
  BY <1>1, <1>4, <1>5 DEF DaemonLoad, DaemonStates, Kept
<1>6. CASE Model \in DOMAIN files /\ Loads(files[Model], identity)
  <2>1. daemon'.lessons = files[Model].lessons /\ UNCHANGED <<files, warned>>
    BY <1>1, <1>6 DEF DaemonLoad, DaemonStates
  <2> QED BY <1>4, <1>6, <2>1 DEF Kept
<1>7. CASE Model \in DOMAIN files /\ ~Loads(files[Model], identity) /\ ~full
  <2>1. daemon'.lessons = {} /\ UNCHANGED warned
    BY <1>1, <1>7 DEF DaemonLoad, DaemonStates
  <2>2. Kept' = Kept BY <1>3, <1>7, RenameAside DEF DaemonLoad
  <2> QED BY <1>4, <2>1, <2>2
<1>8. CASE Model \in DOMAIN files /\ ~Loads(files[Model], identity) /\ full
  <2>1. daemon'.lessons = {} /\ UNCHANGED files
    BY <1>1, <1>8 DEF DaemonLoad, DaemonStates
  <2>2. warned' BY <1>8 DEF DaemonLoad
  <2> QED BY <1>4, <2>1, <2>2 DEF Kept
<1> QED BY <1>5, <1>6, <1>7, <1>8

\* Every step of the store is a step of the archive or leaves it as it is.
LEMMA ArchiveStep == ASSUME Inv, [Next]_vars PROVE [Archive!Next]_(Archive!vars)
<1>1. TypeOK BY DEF Inv
<1>2. CASE UNCHANGED <<Kept, Mind, Up, warned>>
  BY <1>2 DEF Archive!vars, Mind, Up
<1>3. CASE Adopter \/ KillAdopter \/ Ota \/ DiskFills \/ DiskFrees \/ UNCHANGED vars
  BY <1>2, <1>3, AdopterStutters
<1>4. ASSUME NEW pid \in Pids, DaemonStart(pid) PROVE UNCHANGED <<Kept, Mind, Up, warned>>
  <2>1. daemon = Off /\ UNCHANGED <<files, warned>> BY <1>4 DEF DaemonStart
  <2>2. daemon' # Off /\ daemon'.at = "load" /\ daemon'.lessons = {} BY <1>4, Started DEF Off
  <2> QED BY <2>1, <2>2 DEF Kept, Mind, Up
<1>5. CASE DaemonLoad
  <2>1. Archive!Wake BY <1>5, LoadWakes DEF Archive!Wake, Mind, Up
  <2> QED BY <2>1 DEF Archive!Next
<1>6. CASE DaemonLearn
  <2>1. daemon # Off /\ daemon \in DaemonStates /\ daemon.at = "live"
    BY <1>1, <1>6 DEF TypeOK, DaemonLearn, Off
  <2>2. /\ daemon'.lessons = daemon.lessons \cup {used.lessons + 1}
        /\ daemon' # Off /\ daemon'.at = "live"
    BY <1>6, <2>1 DEF DaemonLearn, DaemonStates, Off
  <2>3. used.lessons + 1 \in Lessons
    BY <1>1, <1>6, StoreBounds DEF TypeOK, CountsOK, DaemonLearn, Lessons
  <2>4. UNCHANGED <<files, warned>> BY <1>6 DEF DaemonLearn
  <2>5. Archive!Learn BY <2>1, <2>2, <2>3, <2>4 DEF Archive!Learn, Kept
  <2> QED BY <2>5 DEF Archive!Next
<1>7. ASSUME NEW then \in {"live", "end"}, DaemonOpen(then)
      PROVE  UNCHANGED <<Kept, Mind, Up, warned>>
  <2>1. daemon # Off /\ daemon \in DaemonStates /\ daemon.at = "live"
    BY <1>1, <1>7 DEF TypeOK, DaemonOpen, Off
  <2>2. /\ daemon'.lessons = daemon.lessons
        /\ daemon' # Off /\ daemon'.at # "load" /\ UNCHANGED <<files, warned>>
    BY <1>7, <2>1 DEF DaemonOpen, DaemonStates, Off
  <2> QED BY <2>1, <2>2 DEF Kept, Mind, Up
<1>8. CASE DaemonCommit
  <2>1. daemon # Off /\ daemon \in DaemonStates /\ daemon.at # "load"
    BY <1>1, <1>8 DEF TypeOK, DaemonCommit, Off
  <2>2. /\ daemon'.lessons = daemon.lessons
        /\ daemon' # Off /\ daemon'.at # "load" /\ UNCHANGED warned
    BY <1>8, <2>1 DEF DaemonCommit, DaemonStates, Off
  <2>3. CASE full
    <3>1. UNCHANGED files BY <1>8, <2>3 DEF DaemonCommit
    <3> QED BY <1>2, <2>1, <2>2, <3>1 DEF Kept, Mind, Up
  <2>4. CASE ~full
    <3>1. daemon.lessons \subseteq Kept' /\ Kept' \subseteq Kept \cup daemon.lessons
      BY <1>1, <1>8, <2>4, DaemonSaves, SaveOver DEF TypeOK
    <3>2. warned \/ Kept \subseteq Kept' BY <1>8, KeptStep DEF Next, Daemon
    <3>3. Archive!Save BY <2>1, <2>2, <3>1, <3>2 DEF Archive!Save
    <3> QED BY <3>3 DEF Archive!Next
  <2> QED BY <2>3, <2>4
<1>9. CASE DaemonEnd \/ KillDaemon
  <2>1. /\ daemon # Off /\ daemon' = Off /\ UNCHANGED <<files, warned>>
    BY <1>9 DEF DaemonEnd, KillDaemon, Off
  <2>2. CASE daemon.at = "load"
    <3>1. daemon.lessons = {} BY <2>1, <2>2 DEF Inv, LoadEmpty
    <3> QED BY <1>2, <2>1, <2>2, <3>1 DEF Kept, Mind, Up
  <2>3. CASE daemon.at # "load"
    <3>1. Archive!Sleep BY <2>1, <2>3 DEF Archive!Sleep, Kept
    <3> QED BY <3>1 DEF Archive!Next
  <2> QED BY <2>2, <2>3
<1> QED BY <1>2, <1>3, <1>4, <1>5, <1>6, <1>7, <1>8, <1>9 DEF Next, Daemon, Environment

\* The store implements the archive: the files, renames, kills, full disks and
\* adoptions look to a reader of the directory like one that only grows.
THEOREM StoreImplementsArchive == Spec => ImplementsArchive
<1>1. Init => Archive!Init
  <2> SUFFICES ASSUME Init PROVE Archive!Init OBVIOUS
  <2>1. FilesOK BY InvInit DEF Inv, TypeOK
  <2>2. Kept \subseteq Lessons BY <2>1 DEF FilesOK, Kept, Content
  <2>3. daemon = Off /\ warned = FALSE BY DEF Init
  <2> QED BY <2>2, <2>3 DEF Archive!Init
<1>2. Inv /\ [Next]_vars => [Archive!Next]_(Archive!vars) BY ArchiveStep
<1> QED BY <1>1, <1>2, InvHolds, PTL DEF Spec, ImplementsArchive, Archive!Spec

=============================================================================
