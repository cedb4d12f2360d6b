----------------------------- MODULE BootProofs -----------------------------
(***************************************************************************)
(* What Boot promises for any number of runs, launches and faults: types,   *)
(* honest success and failure counts, and no boot lock left behind.         *)
(* Success rests on the marker: it, and every run past it, implies that     *)
(* some run was complete.  The count rests on the runs that failed and have *)
(* not written yet: each of them still has a failure of its own to add.     *)
(* The lock rests on a run that tends whatever is in it.                    *)
(***************************************************************************)
EXTENDS Boot, FiniteSetTheorems, TLAPS

\* Only launches are where an app waits.
AppStep == {"consume", "claim", "stamp", "prepare", "unprepared", "release"}
LaunchOnly == \A r \in Run : pc[r] \in AppStep => r \in Launch

Typed == TypeOK /\ LaunchOnly

\* Evidence of completeness: the marker, and every run that saw or makes it.
Earned ==
    /\ session \/ success => complete
    /\ \A r \in Run : pc[r] \in {"daemons", "mark", "protect"} => complete

\* Runs that failed and have not counted it yet.
Counting == {r \in Run : pc[r] \in {"count", "counted"}}

Honest ==
    /\ failures + Cardinality(Counting) <= failed
    /\ \A r \in Run : pc[r] = "counted" => seen[r] + Cardinality(Counting) <= failed

\* Nobody was killed.
Intact == \A r \in Run : alive[r]

Holds == {"again", "boot", "apply", "mark", "protect", "count", "counted", "unlock", "remove"}

Tended ==
    Intact =>
        /\ \A r \in Run : owner = r => pc[r] \in Holds
        /\ \A r \in temps : pc[r] = "rename"
        /\ lock /\ owner = Nobody /\ temps = {} => \E r \in Run : pc[r] = "record"

Inv == Typed /\ Earned /\ Honest /\ Tended

-----------------------------------------------------------------------------
(* Types.                                                                  *)

\* service.sh keeps the types.
LEMMA ServiceTypes ==
    ASSUME Typed, NEW r \in Run, ServiceStep(r)
    PROVE  Typed'
<1> USE BootAssumption DEF Typed, TypeOK, LaunchOnly, AppStep, Run, Goto, At, Step,
        devVars, claimVars, runVars, ghosts
<1>1. CASE CheckSession(r) BY <1>1 DEF CheckSession
<1>2. CASE EnsureDaemons(r) BY <1>2 DEF EnsureDaemons, Return, Returned
<1>3. CASE TakeLock(r)
  <2>1. CASE lock BY <1>3, <2>1 DEF TakeLock
  <2>2. CASE ~lock BY <1>3, <2>2 DEF TakeLock, MakeLock
  <2> QED BY <2>1, <2>2
<1>4. CASE WaitDone(r) BY <1>4 DEF WaitDone
<1>5. CASE WaitOut(r) BY <1>5 DEF WaitOut
<1>6. CASE Judge(r) BY <1>6 DEF Judge, Return, Returned
<1>7. CASE Reclaim(r) BY <1>7 DEF Reclaim, RemoveLock
<1>8. CASE Relock(r)
  <2>1. CASE lock
    <3>1. pc' = [pc EXCEPT ![r] = Returned(r)] /\ success' \in BOOLEAN
          /\ UNCHANGED <<lock, owner, temps>>
      BY <1>8, <2>1 DEF Relock, Return
    <3> QED BY <1>8, <3>1 DEF Relock, Returned
  <2>2. CASE ~lock BY <1>8, <2>2 DEF Relock, MakeLock
  <2> QED BY <2>1, <2>2
<1>9. CASE WriteRecord(r) BY <1>9 DEF WriteRecord
<1>10. CASE Record(r) BY <1>10 DEF Record
<1>11. CASE RecordFails(r) BY <1>11 DEF RecordFails, RmdirLock, RemoveLock, Return, Returned
<1>12. CASE CheckAgain(r) BY <1>12 DEF CheckAgain, Exit
<1>13. CASE AwaitBoot(r) BY <1>13 DEF AwaitBoot, Exit
<1>14. CASE Apply(r)
  <2>1. CASE Goto(r, "mark") /\ complete' = TRUE /\ UNCHANGED failed BY <1>14, <2>1 DEF Apply
  <2>2. CASE Goto(r, "count") /\ failed' = failed + 1 /\ UNCHANGED complete
    BY <1>14, <2>2 DEF Apply
  <2> QED BY <1>14, <2>1, <2>2 DEF Apply
<1>15. CASE Mark(r) BY <1>15 DEF Mark
<1>16. CASE Protect(r) BY <1>16 DEF Protect, Exit
<1>17. CASE MarkFails(r)
  <2>1. pc' = [pc EXCEPT ![r] = "count"] /\ UNCHANGED runVars BY <1>17 DEF MarkFails
  <2>2. UNCHANGED <<booted, lock, owner, temps, failures, claimVars, success, complete>>
    BY <1>17 DEF MarkFails
  <2>3. session' \in BOOLEAN /\ failed' \in Nat
    <3>1. session' \in BOOLEAN BY <1>17, Zenon DEF MarkFails
    <3>2. failed' \in Nat BY <1>17 DEF MarkFails
    <3> QED BY <3>1, <3>2
  <2>4. TypeOK' BY <2>1, <2>2, <2>3
  <2>5. LaunchOnly' BY <2>1
  <2> QED BY <2>4, <2>5 DEF Typed
<1>18. CASE ReadCount(r) BY <1>18 DEF ReadCount
<1>19. CASE WriteCount(r) BY <1>19 DEF WriteCount, Exit
<1>20. CASE UnlockCheck(r) BY <1>20 DEF UnlockCheck, Returned
<1>21. CASE Unlock(r) BY <1>21 DEF Unlock, RemoveLock, Returned
<1> QED BY <1>1, <1>2, <1>3, <1>4, <1>5, <1>6, <1>7, <1>8, <1>9, <1>10, <1>11,
           <1>12, <1>13, <1>14, <1>15, <1>16, <1>17, <1>18, <1>19, <1>20, <1>21 DEF ServiceStep

\* A launch keeps the types.
LEMMA LaunchTypes ==
    ASSUME Typed, NEW r \in Run, LaunchStep(r)
    PROVE  Typed'
<1> USE BootAssumption DEF Typed, TypeOK, LaunchOnly, AppStep, Run, Goto, At, Step,
        devVars, claimVars, runVars, ghosts
<1>1. CASE Consume(r) BY <1>1 DEF Consume, RemoveClaim
<1>2. CASE Claim(r) BY <1>2 DEF Claim
<1>3. CASE Stamp(r) BY <1>3 DEF Stamp
<1>4. CASE Prepare(r) BY <1>4 DEF Prepare
<1>5. CASE PrepareFails(r) BY <1>5 DEF PrepareFails
<1>6. CASE Release(r) BY <1>6 DEF Release, RemoveClaim
<1> QED BY <1>1, <1>2, <1>3, <1>4, <1>5, <1>6 DEF LaunchStep

-----------------------------------------------------------------------------
(* Success.                                                                *)

\* service.sh reports success, and makes the marker, only on evidence.
LEMMA ServiceEarns ==
    ASSUME Typed, Earned, NEW r \in Run, ServiceStep(r)
    PROVE  Earned'
<1> USE BootAssumption DEF Typed, TypeOK, Earned, Goto, At, devVars, claimVars, runVars, ghosts
<1>1. CASE CheckSession(r) BY <1>1 DEF CheckSession
<1>2. CASE EnsureDaemons(r) BY <1>2 DEF EnsureDaemons, Return, Returned
<1>3. CASE TakeLock(r) BY <1>3 DEF TakeLock, MakeLock
<1>4. CASE WaitDone(r) BY <1>4 DEF WaitDone
<1>5. CASE WaitOut(r) BY <1>5 DEF WaitOut
<1>6. CASE Judge(r) BY <1>6 DEF Judge, Return, Returned
<1>7. CASE Reclaim(r) BY <1>7 DEF Reclaim, RemoveLock
<1>8. CASE Relock(r) BY <1>8 DEF Relock, Return, Returned, MakeLock
<1>9. CASE WriteRecord(r) BY <1>9 DEF WriteRecord
<1>10. CASE Record(r) BY <1>10 DEF Record
<1>11. CASE RecordFails(r) BY <1>11 DEF RecordFails, RmdirLock, RemoveLock, Return, Returned
<1>12. CASE CheckAgain(r) BY <1>12 DEF CheckAgain, Exit
<1>13. CASE AwaitBoot(r) BY <1>13 DEF AwaitBoot, Exit
<1>14. CASE Apply(r) BY <1>14 DEF Apply
<1>15. CASE Mark(r) BY <1>15 DEF Mark
<1>16. CASE Protect(r) BY <1>16 DEF Protect, Exit
<1>17. CASE MarkFails(r) BY <1>17 DEF MarkFails
<1>18. CASE ReadCount(r) BY <1>18 DEF ReadCount
<1>19. CASE WriteCount(r) BY <1>19 DEF WriteCount, Exit
<1>20. CASE UnlockCheck(r) BY <1>20 DEF UnlockCheck, Returned
<1>21. CASE Unlock(r) BY <1>21 DEF Unlock, RemoveLock, Returned
<1> QED BY <1>1, <1>2, <1>3, <1>4, <1>5, <1>6, <1>7, <1>8, <1>9, <1>10, <1>11,
           <1>12, <1>13, <1>14, <1>15, <1>16, <1>17, <1>18, <1>19, <1>20, <1>21 DEF ServiceStep

\* A launch changes neither.
LEMMA LaunchEarns ==
    ASSUME Typed, Earned, NEW r \in Run, LaunchStep(r)
    PROVE  Earned'
<1> USE BootAssumption DEF Typed, TypeOK, Earned, Goto, At, devVars, claimVars, runVars, ghosts
<1>1. CASE Consume(r) BY <1>1 DEF Consume, RemoveClaim
<1>2. CASE Claim(r) BY <1>2 DEF Claim
<1>3. CASE Stamp(r) BY <1>3 DEF Stamp
<1>4. CASE Prepare(r) BY <1>4 DEF Prepare
<1>5. CASE PrepareFails(r) BY <1>5 DEF PrepareFails
<1>6. CASE Release(r) BY <1>6 DEF Release, RemoveClaim
<1> QED BY <1>1, <1>2, <1>3, <1>4, <1>5, <1>6 DEF LaunchStep

-----------------------------------------------------------------------------
(* Failures.                                                               *)

\* The size of Counting, when it changes by one run or not at all.
LEMMA CountingSize ==
    ASSUME Typed, Typed', NEW r \in Run, \A q \in Run \ {r} : pc'[q] = pc[q]
    PROVE  /\ Cardinality(Counting) \in Nat
           /\ r \notin Counting /\ r \in Counting' =>
                Cardinality(Counting') = Cardinality(Counting) + 1
           /\ r \in Counting /\ r \notin Counting' =>
                Cardinality(Counting') = Cardinality(Counting) - 1
           /\ (r \in Counting <=> r \in Counting') =>
                Cardinality(Counting') = Cardinality(Counting)
<1>1. IsFiniteSet(Run) BY BootAssumption
<1>2. IsFiniteSet(Counting) /\ IsFiniteSet(Counting')
  BY <1>1, FS_Subset DEF Counting
<1>3. Cardinality(Counting) \in Nat BY <1>2, FS_CardinalityType
<1>4. ASSUME r \notin Counting, r \in Counting'
      PROVE  Cardinality(Counting') = Cardinality(Counting) + 1
  <2>1. Counting' = Counting \cup {r} BY <1>4 DEF Counting
  <2> QED BY <1>2, <1>4, <2>1, FS_AddElement
<1>5. ASSUME r \in Counting, r \notin Counting'
      PROVE  Cardinality(Counting') = Cardinality(Counting) - 1
  <2>1. Counting' = Counting \ {r} BY <1>5 DEF Counting
  <2> QED BY <1>2, <1>5, <2>1, FS_RemoveElement
<1>6. ASSUME r \in Counting <=> r \in Counting'
      PROVE  Cardinality(Counting') = Cardinality(Counting)
  <2>1. Counting' = Counting BY <1>6 DEF Counting
  <2> QED BY <2>1
<1> QED BY <1>3, <1>4, <1>5, <1>6

\* A step of r that neither enters nor leaves the count keeps it honest.
LEMMA CountKept ==
    ASSUME Typed, Typed', Honest, NEW r \in Run,
           \A q \in Run \ {r} : pc'[q] = pc[q],
           pc[r] \notin {"count", "counted"}, pc'[r] \notin {"count", "counted"},
           UNCHANGED <<failures, seen, failed>>
    PROVE  Honest'
<1>1. r \notin Counting /\ r \notin Counting' BY DEF Counting
<1>2. Cardinality(Counting') = Cardinality(Counting) BY <1>1, CountingSize
<1> QED BY <1>2 DEF Honest

\* A failure is counted once, by the run that had it.
LEMMA ServiceCounts ==
    ASSUME Typed, Typed', Honest, NEW r \in Run, ServiceStep(r)
    PROVE  Honest'
<1> USE BootAssumption DEF Typed, TypeOK, Goto, At, devVars, claimVars, runVars, ghosts
<1>1. CASE CheckSession(r) BY <1>1, CountKept DEF CheckSession
<1>2. CASE EnsureDaemons(r) BY <1>2, CountKept DEF EnsureDaemons, Return, Returned
<1>3. CASE TakeLock(r) BY <1>3, CountKept DEF TakeLock, MakeLock
<1>4. CASE WaitDone(r) BY <1>4, CountKept DEF WaitDone
<1>5. CASE WaitOut(r) BY <1>5, CountKept DEF WaitOut
<1>6. CASE Judge(r) BY <1>6, CountKept DEF Judge, Return, Returned
<1>7. CASE Reclaim(r) BY <1>7, CountKept DEF Reclaim, RemoveLock
<1>8. CASE Relock(r) BY <1>8, CountKept DEF Relock, Return, Returned, MakeLock
<1>9. CASE WriteRecord(r) BY <1>9, CountKept DEF WriteRecord
<1>10. CASE Record(r) BY <1>10, CountKept DEF Record
<1>11. CASE RecordFails(r) BY <1>11, CountKept DEF RecordFails, RmdirLock, RemoveLock, Return, Returned
<1>12. CASE CheckAgain(r) BY <1>12, CountKept DEF CheckAgain, Exit
<1>13. CASE AwaitBoot(r) BY <1>13, CountKept DEF AwaitBoot, Exit
<1>14. CASE Apply(r)
  <2>1. CASE Goto(r, "mark") /\ UNCHANGED failed BY <1>14, <2>1, CountKept DEF Apply
  <2>2. CASE Goto(r, "count") /\ failed' = failed + 1
    <3>1. r \notin Counting /\ r \in Counting' BY <1>14, <2>2 DEF Apply, Counting
    <3>2. \A q \in Run \ {r} : pc'[q] = pc[q] BY <2>2
    <3>3. Cardinality(Counting') = Cardinality(Counting) + 1 BY <3>1, <3>2, CountingSize
    <3> QED BY <1>14, <2>2, <3>3, CountingSize, <3>2 DEF Apply, Honest
  <2> QED BY <1>14, <2>1, <2>2 DEF Apply
<1>15. CASE Mark(r) BY <1>15, CountKept DEF Mark
<1>16. CASE Protect(r) BY <1>16, CountKept DEF Protect, Exit
<1>17. CASE MarkFails(r)
  <2>1. r \notin Counting /\ r \in Counting' BY <1>17 DEF MarkFails, Counting
  <2>2. \A q \in Run \ {r} : pc'[q] = pc[q] BY <1>17 DEF MarkFails
  <2>3. Cardinality(Counting') = Cardinality(Counting) + 1 BY <2>1, <2>2, CountingSize
  <2> QED BY <1>17, <2>2, <2>3, CountingSize DEF MarkFails, Honest
<1>18. CASE ReadCount(r)
  <2>1. r \in Counting /\ r \in Counting' BY <1>18 DEF ReadCount, Counting
  <2>2. \A q \in Run \ {r} : pc'[q] = pc[q] BY <1>18 DEF ReadCount
  <2>3. Cardinality(Counting') = Cardinality(Counting) /\ Cardinality(Counting) \in Nat
    BY <2>1, <2>2, CountingSize
  <2>4. seen'[r] <= failures BY <1>18 DEF ReadCount
  <2>5. \A q \in Run \ {r} : seen'[q] = seen[q] BY <1>18 DEF ReadCount
  <2>6. failures' = failures /\ failed' = failed BY <1>18 DEF ReadCount
  <2> QED BY <2>2, <2>3, <2>4, <2>5, <2>6 DEF Honest
<1>19. CASE WriteCount(r)
  <2>1. r \in Counting /\ r \notin Counting' BY <1>19 DEF WriteCount, Exit, Counting
  <2>2. \A q \in Run \ {r} : pc'[q] = pc[q] BY <1>19 DEF WriteCount, Exit
  <2>3. Cardinality(Counting') = Cardinality(Counting) - 1 /\ Cardinality(Counting) \in Nat
    BY <2>1, <2>2, CountingSize
  <2>4. failures' = seen[r] + 1 /\ failed' = failed BY <1>19 DEF WriteCount
  <2>5. \A q \in Run \ {r} : seen'[q] = seen[q] BY <1>19 DEF WriteCount
  <2>6. pc[r] = "counted" /\ pc'[r] = "unlock" BY <1>19 DEF WriteCount, Exit
  <2> QED BY <2>2, <2>3, <2>4, <2>5, <2>6 DEF Honest
<1>20. CASE UnlockCheck(r) BY <1>20, CountKept DEF UnlockCheck, Returned
<1>21. CASE Unlock(r) BY <1>21, CountKept DEF Unlock, RemoveLock, Returned
<1> QED BY <1>1, <1>2, <1>3, <1>4, <1>5, <1>6, <1>7, <1>8, <1>9, <1>10, <1>11,
           <1>12, <1>13, <1>14, <1>15, <1>16, <1>17, <1>18, <1>19, <1>20, <1>21 DEF ServiceStep

\* A launch counts nothing.
LEMMA LaunchCounts ==
    ASSUME Typed, Typed', Honest, NEW r \in Run, LaunchStep(r)
    PROVE  Honest'
<1> USE BootAssumption DEF Typed, TypeOK, Goto, At, devVars, claimVars, runVars, ghosts
<1>1. CASE Consume(r) BY <1>1, CountKept DEF Consume, RemoveClaim
<1>2. CASE Claim(r) BY <1>2, CountKept DEF Claim
<1>3. CASE Stamp(r) BY <1>3, CountKept DEF Stamp
<1>4. CASE Prepare(r) BY <1>4, CountKept DEF Prepare
<1>5. CASE PrepareFails(r) BY <1>5, CountKept DEF PrepareFails
<1>6. CASE Release(r) BY <1>6, CountKept DEF Release, RemoveClaim
<1> QED BY <1>1, <1>2, <1>3, <1>4, <1>5, <1>6 DEF LaunchStep

-----------------------------------------------------------------------------
(* The boot lock.                                                          *)

\* service.sh keeps the lock tended.
LEMMA ServiceTends ==
    ASSUME Typed, Tended, NEW r \in Run, ServiceStep(r)
    PROVE  Tended'
<1> USE BootAssumption DEF Typed, TypeOK, Tended, Intact, Holds, Goto, At,
        devVars, claimVars, runVars, ghosts
<1>1. CASE CheckSession(r) BY <1>1 DEF CheckSession
<1>2. CASE EnsureDaemons(r) BY <1>2 DEF EnsureDaemons, Return, Returned
<1>3. CASE TakeLock(r) BY <1>3 DEF TakeLock, MakeLock
<1>4. CASE WaitDone(r) BY <1>4 DEF WaitDone
<1>5. CASE WaitOut(r) BY <1>5 DEF WaitOut
<1>6. CASE Judge(r) BY <1>6 DEF Judge, Return, Returned
<1>7. CASE Reclaim(r) BY <1>7 DEF Reclaim, RemoveLock
<1>8. CASE Relock(r) BY <1>8 DEF Relock, Return, Returned, MakeLock
<1>9. CASE WriteRecord(r) BY <1>9 DEF WriteRecord
<1>10. CASE Record(r) BY <1>10 DEF Record
<1>11. CASE RecordFails(r) BY <1>11 DEF RecordFails, RmdirLock, RemoveLock, Return, Returned
<1>12. CASE CheckAgain(r) BY <1>12 DEF CheckAgain, Exit
<1>13. CASE AwaitBoot(r) BY <1>13 DEF AwaitBoot, Exit
<1>14. CASE Apply(r) BY <1>14 DEF Apply
<1>15. CASE Mark(r) BY <1>15 DEF Mark
<1>16. CASE Protect(r) BY <1>16 DEF Protect, Exit
<1>17. CASE MarkFails(r) BY <1>17 DEF MarkFails
<1>18. CASE ReadCount(r) BY <1>18 DEF ReadCount
<1>19. CASE WriteCount(r) BY <1>19 DEF WriteCount, Exit
<1>20. CASE UnlockCheck(r) BY <1>20 DEF UnlockCheck, Returned
<1>21. CASE Unlock(r) BY <1>21 DEF Unlock, RemoveLock, Returned
<1> QED BY <1>1, <1>2, <1>3, <1>4, <1>5, <1>6, <1>7, <1>8, <1>9, <1>10, <1>11,
           <1>12, <1>13, <1>14, <1>15, <1>16, <1>17, <1>18, <1>19, <1>20, <1>21 DEF ServiceStep

\* A launch leaves it alone.
LEMMA LaunchTends ==
    ASSUME Typed, Tended, NEW r \in Run, LaunchStep(r)
    PROVE  Tended'
<1> USE BootAssumption DEF Typed, TypeOK, Tended, Intact, Holds, Goto, At,
        devVars, claimVars, runVars, ghosts
<1>1. CASE Consume(r) BY <1>1 DEF Consume, RemoveClaim
<1>2. CASE Claim(r) BY <1>2 DEF Claim
<1>3. CASE Stamp(r) BY <1>3 DEF Stamp
<1>4. CASE Prepare(r) BY <1>4 DEF Prepare
<1>5. CASE PrepareFails(r) BY <1>5 DEF PrepareFails
<1>6. CASE Release(r) BY <1>6 DEF Release, RemoveClaim
<1> QED BY <1>1, <1>2, <1>3, <1>4, <1>5, <1>6 DEF LaunchStep

-----------------------------------------------------------------------------
\* The initial state satisfies the invariant.
LEMMA InvInit == Init => Inv
<1> SUFFICES ASSUME Init PROVE Inv OBVIOUS
<1> USE BootAssumption DEF Init
<1>1. Typed
  <2>1. pc \in [Run -> Step] BY DEF Step
  <2>2. alive \in [Run -> BOOLEAN] /\ seen \in [Run -> Nat] OBVIOUS
  <2>3. LaunchOnly BY DEF LaunchOnly, AppStep
  <2> QED BY <2>1, <2>2, <2>3 DEF Typed, TypeOK
<1>2. Earned BY DEF Earned
<1>3. Honest
  <2>1. Counting = {} BY DEF Counting
  <2>2. Cardinality(Counting) = 0 BY <2>1, FS_EmptySet
  <2> QED BY <2>2 DEF Honest
<1>4. Tended BY DEF Tended
<1> QED BY <1>1, <1>2, <1>3, <1>4 DEF Inv

\* The environment's steps keep it: starts, kills and time.
LEMMA StartKeeps ==
    ASSUME Inv, NEW r \in Run, StartSystem(r) \/ StartLaunch(r)
    PROVE  Inv'
<1> USE BootAssumption DEF Inv, Typed, TypeOK, StartSystem, StartLaunch, At, Goto,
        devVars, claimVars, runVars, ghosts
<1>1. Typed' BY DEF LaunchOnly, AppStep, Step, Run
<1>2. Earned' BY DEF Earned
<1>3. Honest' BY <1>1, CountKept
<1>4. Tended' BY DEF Tended, Intact, Holds
<1> QED BY <1>1, <1>2, <1>3, <1>4

\* A kill, of a script or of the app, keeps the invariant.
LEMMA KillKeeps ==
    ASSUME Inv, NEW r \in Run, Kill(r)
    PROVE  Inv'
<1> USE BootAssumption DEF Inv, Typed, TypeOK, Kill, Goto, devVars, claimVars, ghosts
<1>1. pc' = [pc EXCEPT ![r] = Returned(r)] /\ Returned(r) \in {"release", "ended"}
  BY DEF Returned
<1>2. Typed'
  <2>1. LaunchOnly' BY <1>1 DEF LaunchOnly, AppStep, Returned
  <2> QED BY <1>1, <2>1 DEF Step
<1>3. Earned' BY <1>1 DEF Earned
<1>4. Honest'
  <2>1. r \notin Counting' BY <1>1 DEF Counting
  <2>2. \A q \in Run \ {r} : pc'[q] = pc[q] /\ seen'[q] = seen[q] BY <1>1
  <2>3. Cardinality(Counting) \in Nat /\ Cardinality(Counting') \in Nat
        /\ Cardinality(Counting') <= Cardinality(Counting)
    <3>1. Cardinality(Counting) \in Nat
          /\ (r \in Counting => Cardinality(Counting') = Cardinality(Counting) - 1)
          /\ (r \notin Counting => Cardinality(Counting') = Cardinality(Counting))
      BY <1>2, <2>1, <2>2, CountingSize DEF Inv
    <3>2. IsFiniteSet(Counting') BY FS_Subset DEF Counting
    <3> QED BY <3>1, <3>2, FS_CardinalityType
  <2>4. pc'[r] # "counted" BY <1>1
  <2> QED BY <1>2, <2>2, <2>3, <2>4 DEF Honest
<1>5. Tended' BY DEF Tended, Intact
<1> QED BY <1>2, <1>3, <1>4, <1>5

\* A step that leaves the runs, the lock and the counts alone keeps it.
LEMMA TimeKeeps ==
    ASSUME Inv, Typed', UNCHANGED <<devVars, pc, alive, seen, ghosts>>
    PROVE  Inv'
<1>1. Counting' = Counting BY DEF Counting
<1> QED BY <1>1 DEF Inv, Earned, Honest, Tended, Intact, devVars, ghosts

\* Every step keeps the invariant.
LEMMA InvNext ==
    ASSUME Inv, [Next]_vars
    PROVE  Inv'
<1>1. ASSUME NEW l \in Launch, StartLaunch(l) PROVE Inv'
  BY <1>1, StartKeeps DEF Run
<1>2. ASSUME NEW l \in Launch, Die(l) PROVE Inv'
  <2>1. Typed' BY <1>2 DEF Inv, Typed, TypeOK, LaunchOnly, Die, devVars, claimVars, ghosts
  <2> QED BY <1>2, <2>1, TimeKeeps DEF Die
<1>3. ASSUME NEW s \in System, StartSystem(s) PROVE Inv'
  BY <1>3, StartKeeps DEF Run
<1>4. ASSUME NEW r \in Run, ServiceStep(r) PROVE Inv'
  BY <1>4, ServiceTypes, ServiceEarns, ServiceCounts, ServiceTends DEF Inv
<1>5. ASSUME NEW r \in Run, LaunchStep(r) PROVE Inv'
  BY <1>5, LaunchTypes, LaunchEarns, LaunchCounts, LaunchTends DEF Inv
<1>6. ASSUME NEW r \in Run, Kill(r) PROVE Inv'
  BY <1>6, KillKeeps
<1>7. CASE BootCompletes \/ ClaimAges
  <2>1. Typed'
    <3> USE DEF Inv, Typed, TypeOK, LaunchOnly, devVars, claimVars, runVars, ghosts
    <3>1. CASE BootCompletes BY <3>1 DEF BootCompletes
    <3>2. CASE ClaimAges BY <3>2 DEF ClaimAges
    <3> QED BY <1>7, <3>1, <3>2
  <2> QED BY <1>7, <2>1, TimeKeeps DEF BootCompletes, ClaimAges, runVars
<1>8. CASE UNCHANGED vars
  <2>1. Typed'
    BY <1>8 DEF Inv, Typed, TypeOK, LaunchOnly, vars, devVars, claimVars, runVars, ghosts
  <2> QED BY <1>8, <2>1, TimeKeeps DEF vars, runVars
<1> QED BY <1>1, <1>2, <1>3, <1>4, <1>5, <1>6, <1>7, <1>8 DEF Next

\* The invariant holds in every reachable state.
LEMMA Invariance == Spec => []Inv
  BY InvInit, InvNext, PTL DEF Spec

-----------------------------------------------------------------------------
\* For any runs, launches and faults the files in /dev keep their types: no
\* record outside a lock, no token outside a claim.
THEOREM TypeCorrect == Spec => []TypeOK
<1>1. Inv => TypeOK BY DEF Inv, Typed
<1> QED BY <1>1, Invariance, PTL

\* No number of overlapping runs makes the failure count pass the sequences
\* that failed (count_failure() of service.sh, read and written in two steps).
THEOREM CountsHonest == Spec => []CountHonest
<1>1. Inv => CountHonest
  <2> SUFFICES ASSUME Inv PROVE CountHonest OBVIOUS
  <2>1. IsFiniteSet(Counting) BY BootAssumption, FS_Subset DEF Counting
  <2>2. Cardinality(Counting) \in Nat BY <2>1, FS_CardinalityType
  <2> QED BY <2>2 DEF Inv, Typed, TypeOK, Honest, CountHonest
<1> QED BY <1>1, Invariance, PTL

\* Whichever run reports success, the tiers and daemons of some run succeeded.
THEOREM SuccessIsEarned == Spec => []SuccessEarned
<1>1. Inv => SuccessEarned BY DEF Inv, Earned, SuccessEarned
<1> QED BY <1>1, Invariance, PTL

\* When all runs ended and none was killed, no boot lock is left, however many
\* ran and whoever reclaimed whose lock.
THEOREM NoLockLeft == Spec => []NothingLeftLocked
<1>1. Inv => NothingLeftLocked
  <2> SUFFICES ASSUME Inv, \A r \in Run : pc[r] \in {"off", "ended"} /\ alive[r] PROVE ~lock
    BY DEF NothingLeftLocked
  <2>1. Intact BY DEF Intact
  <2>2. owner = Nobody BY <2>1 DEF Inv, Typed, TypeOK, Tended, Holds
  <2>3. temps = {} BY <2>1 DEF Inv, Typed, TypeOK, Tended
  <2> QED BY <2>1, <2>2, <2>3 DEF Inv, Tended
<1> QED BY <1>1, Invariance, PTL
=============================================================================
