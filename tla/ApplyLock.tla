------------------------------ MODULE ApplyLock ------------------------------
(***************************************************************************)
(* .apply_lock, the directory that serialises everything which changes the  *)
(* device: the shell scripts (module/scripts/lib.sh) and the daemon         *)
(* (ApplyLock in module/engine/platform.cpp).  mkdir takes it, a file       *)
(* `owner` inside names the owner, and a lock whose owner is gone is        *)
(* reclaimed.  Scripts and daemon follow different protocols over the same  *)
(* directory; a step here is one command or system call on it.  The record   *)
(* is published by renaming a temporary file of the same directory.         *)
(***************************************************************************)
EXTENDS Naturals, FiniteSets

CONSTANTS
    Shell,      \* scripts: each takes the lock once, then ends
    Native,     \* the daemon: takes it again and again
    Nobody,     \* no process: an ownerless lock
    Faults,     \* subset of {"kill", "full"}: SIGKILL; no room for `owner`
    MaxTries,   \* sleeps a script spends on the lock (30)
    Patience,   \* sleeps before it reclaims an ownerless lock (3)
    Rounds      \* bound on the daemon's attempts

Proc == Shell \cup Native

ASSUME LockAssumption ==
    /\ Shell \cap Native = {} /\ Nobody \notin Proc
    /\ Faults \subseteq {"kill", "full"}
    /\ MaxTries \in Nat /\ Patience \in Nat /\ Patience < MaxTries /\ Rounds \in Nat

VARIABLES
    dir,        \* the directory exists
    owner,      \* process named by its file `owner`, Nobody if there is none
    temps,      \* processes whose temporary file is in it
    fresh,      \* it was modified less than two seconds ago
    alive,      \* process -> it runs
    pc,         \* process -> its next step
    seen,       \* process -> the owner it read
    tries       \* process -> sleeps, or for the daemon attempts, so far

vars == <<dir, owner, temps, fresh, alive, pc, seen, tries>>
lock == <<dir, owner, temps, fresh>>

Init ==
    /\ dir = FALSE /\ owner = Nobody /\ temps = {} /\ fresh = FALSE
    /\ alive = [p \in Proc |-> TRUE]
    /\ pc = [p \in Proc |-> "try"]
    /\ seen = [p \in Proc |-> Nobody]
    /\ tries = [p \in Proc |-> 0]

Goto(p, step) == pc' = [pc EXCEPT ![p] = step]
At(p, step) == alive[p] /\ pc[p] = step
Sleep(p) == tries' = [tries EXCEPT ![p] = @ + 1]

\* mkdir, rm -rf, and rmdir, which fails unless the directory is empty.
Mkdir == ~dir /\ dir' = TRUE /\ owner' = Nobody /\ temps' = {} /\ fresh' = TRUE
Remove == dir' = FALSE /\ owner' = Nobody /\ temps' = {} /\ fresh' = FALSE
Empty == dir /\ owner = Nobody /\ temps = {}
Rmdir == IF Empty THEN Remove ELSE UNCHANGED lock

\* The record names a process that runs, and it is the one that was read.
Live(q) == q # Nobody /\ alive[q] /\ owner = q
-----------------------------------------------------------------------------
(* begin_apply_lock() and end_apply_lock().                                *)

\* while [ "$i" -lt 30 ]
Going(p) == tries[p] < MaxTries

ShellMkdir(p) ==
    /\ At(p, "try") /\ Going(p) /\ Mkdir
    /\ Goto(p, "publish")
    /\ UNCHANGED <<alive, seen, tries>>

ShellBusy(p) ==
    /\ At(p, "try") /\ Going(p) /\ dir
    /\ Goto(p, "look")
    /\ UNCHANGED <<lock, alive, seen, tries>>

ShellGiveUp(p) ==
    /\ At(p, "try") /\ ~Going(p)
    /\ Goto(p, "ended")
    /\ UNCHANGED <<lock, alive, seen, tries>>

\* The temporary file is written into whatever directory has that name now.
WriteTemp(p) ==
    /\ At(p, "publish") /\ dir
    /\ temps' = temps \cup {p} /\ fresh' = TRUE
    /\ Goto(p, "rename")
    /\ UNCHANGED <<dir, owner, alive, seen, tries>>

Publish(p) ==
    /\ At(p, "rename") /\ p \in temps
    /\ owner' = p /\ temps' = temps \ {p} /\ fresh' = TRUE
    /\ Goto(p, "hold")
    /\ UNCHANGED <<dir, alive, seen, tries>>

\* The directory or the file is gone, or there is no room: not owned.
PublishFails(p) ==
    /\ \/ At(p, "publish") /\ (~dir \/ "full" \in Faults)
       \/ At(p, "rename") /\ p \notin temps
    /\ Rmdir
    /\ Goto(p, "ended")
    /\ UNCHANGED <<alive, seen, tries>>

ShellLook(p) ==
    /\ At(p, "look")
    /\ seen' = [seen EXCEPT ![p] = owner]
    /\ Goto(p, IF owner = Nobody THEN "wait" ELSE "check")
    /\ UNCHANGED <<lock, alive, tries>>

\* MUTANT of ShellWait: waiting for an owner record costs no try.
ShellWaitFree(p) ==
    /\ At(p, "wait")
    /\ Goto(p, "try")
    /\ UNCHANGED <<lock, alive, seen, tries>>

\* No owner: sleep; once out of patience, and still no owner, reclaim.
ShellWait(p) ==
    /\ At(p, "wait")
    /\ Sleep(p)
    /\ Goto(p, IF tries[p] + 1 < Patience \/ owner # Nobody THEN "try" ELSE "rmdir")
    /\ UNCHANGED <<lock, alive, seen>>

\* MUTANT of ShellRmdir: an ownerless lock is left alone.
ShellLeave(p) ==
    /\ At(p, "rmdir")
    /\ Goto(p, "try")
    /\ UNCHANGED <<lock, alive, seen, tries>>

ShellRmdir(p) ==
    /\ At(p, "rmdir")
    /\ Rmdir
    /\ Goto(p, "try")
    /\ UNCHANGED <<alive, seen, tries>>

\* An owner was read: its boot and start time are read from the file, its life
\* from /proc.  A record that is gone or another process's counts as stale.
ShellCheck(p) ==
    /\ At(p, "check")
    /\ IF Live(seen[p])
       THEN Sleep(p) /\ Goto(p, "try")
       ELSE tries' = tries /\ Goto(p, "reclaim")
    /\ UNCHANGED <<lock, alive, seen>>

ShellReclaim(p) ==
    /\ At(p, "reclaim")
    /\ Remove
    /\ Goto(p, "try")
    /\ UNCHANGED <<alive, seen, tries>>

\* MUTANT of ShellEnd: the lock is taken for somebody else's.
ShellEndForgets(p) ==
    /\ At(p, "hold")
    /\ Goto(p, "ended")
    /\ UNCHANGED <<lock, alive, seen, tries>>

\* Only a lock that still names this script is removed.
ShellEnd(p) ==
    /\ At(p, "hold")
    /\ Goto(p, IF owner = p THEN "remove" ELSE "ended")
    /\ UNCHANGED <<lock, alive, seen, tries>>

ShellRemove(p) ==
    /\ At(p, "remove")
    /\ Remove
    /\ Goto(p, "ended")
    /\ UNCHANGED <<alive, seen, tries>>

\* The script exits, with the lock or without.
Exit(p) ==
    /\ At(p, "ended")
    /\ alive' = [alive EXCEPT ![p] = FALSE]
    /\ UNCHANGED <<lock, pc, seen, tries>>
-----------------------------------------------------------------------------
(* ApplyLock's constructor and destructor in the daemon.                   *)

\* At start, or in the window after the last attempt.
Attempts(n) == (At(n, "try") \/ At(n, "ended")) /\ tries[n] < Rounds

NativeMkdir(n) ==
    /\ Attempts(n) /\ Mkdir
    /\ Sleep(n) /\ Goto(n, "publish")
    /\ UNCHANGED <<alive, seen>>

\* mkdir failed: the owner record is read.
NativeLook(n) ==
    /\ Attempts(n) /\ dir
    /\ Sleep(n)
    /\ seen' = [seen EXCEPT ![n] = owner]
    /\ Goto(n, "stat")
    /\ UNCHANGED <<lock, alive>>

\* A fresh lock is left alone, and so is one whose owner runs.
NativeStat(n) ==
    /\ At(n, "stat")
    /\ Goto(n, IF dir /\ ~fresh /\ (seen[n] = Nobody \/ ~alive[seen[n]])
               THEN "unlink" ELSE "ended")
    /\ UNCHANGED <<lock, alive, seen, tries>>

\* unlink(owner): also the first half of the destructor.
NativeUnlink(n) ==
    /\ At(n, "unlink") \/ At(n, "hold")
    /\ owner' = Nobody /\ fresh' = (fresh \/ owner # Nobody)
    /\ Goto(n, IF pc[n] = "hold" THEN "drop" ELSE "rmdir")
    /\ UNCHANGED <<dir, temps, alive, seen, tries>>

NativeRmdir(n) ==
    /\ At(n, "rmdir")
    /\ Rmdir
    /\ Goto(n, IF Empty THEN "again" ELSE "ended")
    /\ UNCHANGED <<alive, seen, tries>>

NativeAgain(n) ==
    /\ At(n, "again")
    /\ \/ Mkdir /\ Goto(n, "publish")
       \/ dir /\ UNCHANGED lock /\ Goto(n, "ended")
    /\ UNCHANGED <<alive, seen, tries>>

NativeDrop(n) ==
    /\ At(n, "drop")
    /\ Rmdir
    /\ Goto(n, "ended")
    /\ UNCHANGED <<alive, seen, tries>>
-----------------------------------------------------------------------------
\* Two seconds pass without a change of the directory.
Age ==
    /\ dir /\ fresh
    /\ fresh' = FALSE
    /\ UNCHANGED <<dir, owner, temps, alive, pc, seen, tries>>

Kill(p) ==
    /\ "kill" \in Faults /\ alive[p]
    /\ alive' = [alive EXCEPT ![p] = FALSE]
    /\ UNCHANGED <<lock, pc, seen, tries>>

ShellStep(p) ==
    \/ ShellMkdir(p) \/ ShellBusy(p) \/ ShellGiveUp(p)
    \/ WriteTemp(p) \/ Publish(p) \/ PublishFails(p)
    \/ ShellLook(p) \/ ShellWait(p) \/ ShellRmdir(p) \/ ShellCheck(p) \/ ShellReclaim(p)
    \/ ShellEnd(p) \/ ShellRemove(p) \/ Exit(p)

NativeStep(n) ==
    \/ NativeMkdir(n) \/ NativeLook(n) \/ NativeStat(n) \/ NativeUnlink(n) \/ NativeRmdir(n)
    \/ NativeAgain(n) \/ WriteTemp(n) \/ Publish(n) \/ PublishFails(n) \/ NativeDrop(n)

Next ==
    \/ \E p \in Shell : ShellStep(p)
    \/ \E n \in Native : NativeStep(n)
    \/ \E p \in Proc : Kill(p)
    \/ Age

Spec == Init /\ [][Next]_vars

\* Processes are scheduled, and two seconds pass.
FairSpec ==
    /\ Spec /\ WF_vars(Age)
    /\ \A p \in Shell : WF_vars(ShellStep(p))
    /\ \A n \in Native : WF_vars(NativeStep(n))
-----------------------------------------------------------------------------
Step == {"try", "publish", "rename", "look", "wait", "rmdir", "check", "reclaim", "hold", "remove",
         "ended", "stat", "unlink", "again", "drop"}

TypeOK ==
    /\ dir \in BOOLEAN /\ owner \in Proc \cup {Nobody} /\ fresh \in BOOLEAN
    /\ temps \subseteq Proc
    /\ ~dir => owner = Nobody /\ temps = {}
    /\ alive \in [Proc -> BOOLEAN] /\ pc \in [Proc -> Step]
    /\ seen \in [Proc -> Proc \cup {Nobody}]
    /\ tries \in [Proc -> Nat]
    /\ \A p \in Shell : tries[p] <= MaxTries
    /\ \A n \in Native : tries[n] <= Rounds

\* Once every script has run to its end and the daemon is between two windows,
\* no lock is left, whoever took whose away meanwhile.
NothingLeftLocked ==
    (\A p \in Proc : pc[p] = "ended") => ~dir

\* Every script's attempt ends: it gets the lock or gives up.
AttemptsEnd ==
    \A p \in Shell : []<>(pc[p] \in {"hold", "remove", "ended"} \/ ~alive[p])

\* p starts, and every other process is dead.
Alone(p) == pc[p] = "try" /\ tries[p] = 0 /\ \A q \in Proc \ {p} : ~alive[q]
Killed(p) == ~alive[p] /\ pc[p] # "ended"

\* A lock left by a killed process never stops the next script, whether or not
\* the killed one got as far as its record: alone, the script gets the directory.
\* Not so when the killed one left its temporary file: rmdir fails, for ever.
WreckTaken ==
    \A p \in Shell : (Alone(p) /\ temps = {}) ~> (pc[p] = "publish" \/ Killed(p))

\* "Serializes state-changing scripts": no two processes hold the lock.
MutualExclusion ==
    \A p, q \in Proc : At(p, "hold") /\ At(q, "hold") => p = q
=============================================================================
