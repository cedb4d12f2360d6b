--------------------------- MODULE ApplyLockProofs ---------------------------
(***************************************************************************)
(* What ApplyLock promises for any number of scripts and of attempts, under *)
(* kills and a full filesystem: its types, and that no lock is left behind. *)
(* The argument: whatever is in the directory has a process that has not    *)
(* ended yet and will see to it.  A record's process holds the lock, a      *)
(* temporary file's is about to rename it, and an empty directory's is      *)
(* about to publish its record or to remove the directory.                  *)
(***************************************************************************)
EXTENDS ApplyLock, TLAPS

RecordHeld == \A p \in Proc : owner = p => pc[p] \in {"hold", "remove"}
TempPending == \A p \in temps : pc[p] = "rename"
EmptyTended ==
    dir /\ owner = Nobody /\ temps = {} =>
        \E p \in Proc : pc[p] \in {"publish", "rmdir", "drop"}

\* A script that may yet sleep has tries left.
TriesLeft == \A p \in Shell : pc[p] \in {"look", "wait", "check"} => tries[p] < MaxTries

Inv == TypeOK /\ TriesLeft /\ RecordHeld /\ TempPending /\ EmptyTended

\* The initial state satisfies the invariant.
LEMMA InvInit == Init => Inv
<1> SUFFICES ASSUME Init PROVE Inv OBVIOUS
<1> USE LockAssumption DEF Init, Proc
<1>1. TypeOK
  <2>1. alive \in [Proc -> BOOLEAN] /\ tries \in [Proc -> Nat] OBVIOUS
  <2>2. pc \in [Proc -> Step] BY DEF Step
  <2>3. seen \in [Proc -> Proc \cup {Nobody}] OBVIOUS
  <2>4. (\A p \in Shell : tries[p] <= MaxTries) /\ (\A n \in Native : tries[n] <= Rounds)
    OBVIOUS
  <2> QED BY <2>1, <2>2, <2>3, <2>4 DEF TypeOK
<1>2. TriesLeft BY DEF TriesLeft
<1>3. RecordHeld /\ TempPending /\ EmptyTended BY DEF RecordHeld, TempPending, EmptyTended
<1> QED BY <1>1, <1>2, <1>3 DEF Inv

-----------------------------------------------------------------------------
(* Types.                                                                  *)

\* Every script's step keeps the types.
LEMMA ShellTypes ==
    ASSUME TypeOK, TriesLeft, NEW p \in Shell, ShellStep(p)
    PROVE  TypeOK' /\ TriesLeft'
<1> USE LockAssumption DEF TypeOK, TriesLeft, Proc, Goto, At, Step
<1>1. CASE ShellMkdir(p) BY <1>1 DEF ShellMkdir, Mkdir
<1>2. CASE ShellBusy(p) BY <1>2 DEF ShellBusy, lock, Going
<1>3. CASE ShellGiveUp(p) BY <1>3 DEF ShellGiveUp, lock
<1>4. CASE WriteTemp(p) BY <1>4 DEF WriteTemp
<1>5. CASE Publish(p) BY <1>5 DEF Publish
<1>6. CASE PublishFails(p) BY <1>6 DEF PublishFails, Rmdir, Remove, Empty, lock
<1>7. CASE ShellLook(p) BY <1>7 DEF ShellLook, lock
<1>8. CASE ShellWait(p) BY <1>8 DEF ShellWait, lock, Sleep
<1>9. CASE ShellRmdir(p) BY <1>9 DEF ShellRmdir, Rmdir, Remove, Empty, lock
<1>10. CASE ShellCheck(p) BY <1>10 DEF ShellCheck, lock, Sleep
<1>11. CASE ShellReclaim(p) BY <1>11 DEF ShellReclaim, Remove
<1>12. CASE ShellEnd(p) BY <1>12 DEF ShellEnd, lock
<1>13. CASE ShellRemove(p) BY <1>13 DEF ShellRemove, Remove
<1>14. CASE Exit(p) BY <1>14 DEF Exit, lock
<1> QED BY <1>1, <1>2, <1>3, <1>4, <1>5, <1>6, <1>7, <1>8, <1>9, <1>10, <1>11,
           <1>12, <1>13, <1>14 DEF ShellStep

\* Every step of the daemon keeps the types.
LEMMA NativeTypes ==
    ASSUME TypeOK, TriesLeft, NEW n \in Native, NativeStep(n)
    PROVE  TypeOK' /\ TriesLeft'
<1> USE LockAssumption DEF TypeOK, TriesLeft, Proc, Goto, At, Step
<1>1. CASE NativeMkdir(n) BY <1>1 DEF NativeMkdir, Attempts, Mkdir, Sleep
<1>2. CASE NativeLook(n) BY <1>2 DEF NativeLook, Attempts, lock, Sleep
<1>3. CASE NativeStat(n) BY <1>3 DEF NativeStat, lock
<1>4. CASE NativeUnlink(n) BY <1>4 DEF NativeUnlink
<1>5. CASE NativeRmdir(n) BY <1>5 DEF NativeRmdir, Rmdir, Remove, Empty, lock
<1>6. CASE NativeAgain(n)
  <2>1. CASE Mkdir /\ Goto(n, "publish") BY <1>6, <2>1 DEF NativeAgain, Mkdir
  <2>2. CASE UNCHANGED lock /\ Goto(n, "ended") BY <1>6, <2>2 DEF NativeAgain, lock
  <2> QED BY <1>6, <2>1, <2>2 DEF NativeAgain
<1>7. CASE WriteTemp(n) BY <1>7 DEF WriteTemp
<1>8. CASE Publish(n) BY <1>8 DEF Publish
<1>9. CASE PublishFails(n) BY <1>9 DEF PublishFails, Rmdir, Remove, Empty, lock
<1>10. CASE NativeDrop(n) BY <1>10 DEF NativeDrop, Rmdir, Remove, Empty, lock
<1> QED BY <1>1, <1>2, <1>3, <1>4, <1>5, <1>6, <1>7, <1>8, <1>9, <1>10 DEF NativeStep

-----------------------------------------------------------------------------
(* Whatever is in the directory is somebody's.                             *)

Tended == RecordHeld /\ TempPending /\ EmptyTended

\* Every script's step keeps the directory tended.
LEMMA ShellTends ==
    ASSUME Inv, NEW p \in Shell, ShellStep(p)
    PROVE  Tended'
<1> USE LockAssumption DEF Inv, Tended, TypeOK, RecordHeld, TempPending, EmptyTended,
        Proc, Goto, At
<1>1. CASE ShellMkdir(p) BY <1>1 DEF ShellMkdir, Mkdir
<1>2. CASE ShellBusy(p) BY <1>2 DEF ShellBusy, lock
<1>3. CASE ShellGiveUp(p) BY <1>3 DEF ShellGiveUp, lock
<1>4. CASE WriteTemp(p) BY <1>4 DEF WriteTemp
<1>5. CASE Publish(p) BY <1>5 DEF Publish
<1>6. CASE PublishFails(p) BY <1>6 DEF PublishFails, Rmdir, Remove, Empty, lock
<1>7. CASE ShellLook(p) BY <1>7 DEF ShellLook, lock
<1>8. CASE ShellWait(p) BY <1>8 DEF ShellWait, lock
<1>9. CASE ShellRmdir(p) BY <1>9 DEF ShellRmdir, Rmdir, Remove, Empty, lock
<1>10. CASE ShellCheck(p) BY <1>10 DEF ShellCheck, lock
<1>11. CASE ShellReclaim(p) BY <1>11 DEF ShellReclaim, Remove
<1>12. CASE ShellEnd(p) BY <1>12 DEF ShellEnd, lock
<1>13. CASE ShellRemove(p) BY <1>13 DEF ShellRemove, Remove
<1>14. CASE Exit(p) BY <1>14 DEF Exit, lock
<1> QED BY <1>1, <1>2, <1>3, <1>4, <1>5, <1>6, <1>7, <1>8, <1>9, <1>10, <1>11,
           <1>12, <1>13, <1>14 DEF ShellStep

\* Every step of the daemon keeps the directory tended.
LEMMA NativeTends ==
    ASSUME Inv, NEW n \in Native, NativeStep(n)
    PROVE  Tended'
<1> USE LockAssumption DEF Inv, Tended, TypeOK, RecordHeld, TempPending, EmptyTended,
        Proc, Goto, At
<1>1. CASE NativeMkdir(n) BY <1>1 DEF NativeMkdir, Attempts, Mkdir
<1>2. CASE NativeLook(n) BY <1>2 DEF NativeLook, Attempts, lock
<1>3. CASE NativeStat(n) BY <1>3 DEF NativeStat, lock
<1>4. CASE NativeUnlink(n) BY <1>4 DEF NativeUnlink
<1>5. CASE NativeRmdir(n) BY <1>5 DEF NativeRmdir, Rmdir, Remove, Empty, lock
<1>6. CASE NativeAgain(n) BY <1>6 DEF NativeAgain, Mkdir, lock
<1>7. CASE WriteTemp(n) BY <1>7 DEF WriteTemp
<1>8. CASE Publish(n) BY <1>8 DEF Publish
<1>9. CASE PublishFails(n) BY <1>9 DEF PublishFails, Rmdir, Remove, Empty, lock
<1>10. CASE NativeDrop(n) BY <1>10 DEF NativeDrop, Rmdir, Remove, Empty, lock
<1> QED BY <1>1, <1>2, <1>3, <1>4, <1>5, <1>6, <1>7, <1>8, <1>9, <1>10 DEF NativeStep

\* Every step keeps the invariant.
LEMMA InvNext ==
    ASSUME Inv, [Next]_vars
    PROVE  Inv'
<1>1. ASSUME NEW p \in Shell, ShellStep(p) PROVE Inv'
  BY <1>1, ShellTypes, ShellTends DEF Inv, Tended
<1>2. ASSUME NEW n \in Native, NativeStep(n) PROVE Inv'
  BY <1>2, NativeTypes, NativeTends DEF Inv, Tended
<1>3. ASSUME NEW p \in Proc, Kill(p) PROVE Inv'
  BY <1>3 DEF Kill, lock, Inv, TypeOK, TriesLeft, RecordHeld, TempPending, EmptyTended
<1>4. CASE Age
  BY <1>4 DEF Age, Inv, TypeOK, TriesLeft, RecordHeld, TempPending, EmptyTended
<1>5. CASE UNCHANGED vars
  BY <1>5 DEF vars, Inv, TypeOK, TriesLeft, RecordHeld, TempPending, EmptyTended
<1> QED BY <1>1, <1>2, <1>3, <1>4, <1>5 DEF Next

\* In every reachable state the directory is tended.
LEMMA Invariance == Spec => []Inv
  BY InvInit, InvNext, PTL DEF Spec

-----------------------------------------------------------------------------
\* For any scripts, attempts and faults the lock's state keeps its types; a
\* script sleeps at most MaxTries times (lib.sh: while [ "$i" -lt 30 ]).
THEOREM TypeCorrect == Spec => []TypeOK
<1>1. Inv => TypeOK BY DEF Inv
<1> QED BY <1>1, Invariance, PTL

\* Once every process has run to its end no lock is left, however many scripts
\* there were and whoever reclaimed whose lock meanwhile (end_apply_lock,
\* publish failures, ApplyLock's destructor).
THEOREM NoLockLeft == Spec => []NothingLeftLocked
<1>1. Inv => NothingLeftLocked
  <2> SUFFICES ASSUME Inv, \A p \in Proc : pc[p] = "ended" PROVE ~dir
    BY DEF NothingLeftLocked
  <2>1. owner = Nobody BY DEF Inv, TypeOK, RecordHeld
  <2>2. temps = {} BY DEF Inv, TypeOK, TempPending
  <2> QED BY <2>1, <2>2 DEF Inv, EmptyTended
<1> QED BY <1>1, Invariance, PTL
=============================================================================
