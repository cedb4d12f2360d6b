-------------------------------- MODULE Boot --------------------------------
(***************************************************************************)
(* The once-per-boot sequence (module/service.sh) and the app's replay of   *)
(* it (consumeFirstOfSession, bootstrap).  KernelSU starts service.sh, and  *)
(* boot-completed.sh starts it again; an app launch that can claim the       *)
(* session starts it once more.  They meet in /dev: a session marker, a     *)
(* boot lock with the record of its owner, a count of failed sequences and  *)
(* the app's claim.  All of it is gone after a reboot, so one behaviour is  *)
(* one boot.  A step is one command on these files.                         *)
(***************************************************************************)
EXTENDS Naturals, FiniteSets

CONSTANTS
    System,     \* runs of service.sh that KernelSU starts
    Early,      \* those of them that may start before the boot completes
    Launch,     \* launches of the app: each starts service.sh at most once
    Nobody,
    ReplayLimit,    \* failed sequences after which the app gives up (3)
    Faults,     \* subset of Fault
    MaxDeaths   \* bound on kills, of scripts and apps together

\* tier: an apply script or a daemon fails.  marker: the session marker cannot
\* be written or protected.  prepare: post-fs-data.sh fails before service.sh.
\* kill: service.sh is killed.  die: the app is.
Fault == {"tier", "marker", "prepare", "kill", "die"}

Run == System \cup Launch

ASSUME BootAssumption ==
    /\ IsFiniteSet(Run) /\ System \cap Launch = {} /\ Early \subseteq System
    /\ Nobody \notin Run /\ ReplayLimit \in Nat /\ Faults \subseteq Fault
    /\ MaxDeaths \in Nat

VARIABLES
    booted,     \* sys.boot_completed
    session,    \* /dev/.m54tuner_session exists
    lock,       \* the boot lock exists
    owner,      \* run named by its record
    temps,      \* runs whose temporary record is in it
    failures,   \* /dev/.m54tuner_boot_failures
    claim,      \* the app's claim exists
    token,      \* launch named by its token
    stale,      \* it is older than 120 s
    pc,         \* run -> its next step
    alive,      \* run -> its script was not killed
    app,        \* launches whose app lives
    seen,       \* run -> the failure count it read
    success,    \* ghost: some run of service.sh returned 0
    complete,   \* ghost: all tiers and daemons of some run succeeded
    failed      \* ghost: runs that went through the sequence without a marker

devVars == <<session, lock, owner, temps, failures>>
claimVars == <<claim, token, stale>>
runVars == <<alive, app, seen>>
ghosts == <<success, complete, failed>>
vars == <<booted, devVars, claimVars, pc, runVars, ghosts>>

Init ==
    /\ booted = FALSE /\ session = FALSE /\ lock = FALSE /\ owner = Nobody /\ temps = {}
    /\ failures = 0 /\ claim = FALSE /\ token = Nobody /\ stale = FALSE
    /\ pc = [r \in Run |-> "off"] /\ alive = [r \in Run |-> TRUE] /\ app = Launch
    /\ seen = [r \in Run |-> 0]
    /\ success = FALSE /\ complete = FALSE /\ failed = 0

At(r, step) == alive[r] /\ pc[r] = step
Goto(r, step) == pc' = [pc EXCEPT ![r] = step]

\* Nothing of r will happen any more.
Over(r) == pc[r] = "ended"

\* mkdir, rm -rf and rmdir of the boot lock.
MakeLock == ~lock /\ lock' = TRUE /\ owner' = Nobody /\ temps' = {}
RemoveLock == lock' = FALSE /\ owner' = Nobody /\ temps' = {}
RmdirLock == IF owner = Nobody /\ temps = {} THEN RemoveLock ELSE UNCHANGED <<lock, owner, temps>>

\* service.sh of r returns; the app that waits for it releases its claim.
Returned(r) == IF r \in Launch /\ r \in app THEN "release" ELSE "ended"
Return(r, code) == Goto(r, Returned(r)) /\ success' = (success \/ code = "ok")
-----------------------------------------------------------------------------
(* The app: consumeFirstOfSession() and releaseFirstOfSession().           *)

\* One app at a time: a launch follows the end, or the death, of the one before.
StartLaunch(l) ==
    /\ At(l, "off") /\ booted /\ l \in Launch
    /\ \A m \in app : pc[m] \in {"off", "ended"}
    /\ Goto(l, "consume")
    /\ UNCHANGED <<booted, devVars, claimVars, runVars, ghosts>>

RemoveClaim == claim' = FALSE /\ token' = Nobody /\ stale' = FALSE

\* Nothing to do, or no more tries; else a claim older than 120 s is removed.
Consume(l) ==
    /\ At(l, "consume")
    /\ IF session \/ failures >= ReplayLimit
       THEN Goto(l, "ended") /\ UNCHANGED claimVars
       ELSE Goto(l, "claim") /\ (IF stale THEN RemoveClaim ELSE UNCHANGED claimVars)
    /\ UNCHANGED <<booted, devVars, runVars, ghosts>>

Claim(l) ==
    /\ At(l, "claim")
    /\ IF claim
       THEN Goto(l, "ended") /\ UNCHANGED claimVars
       ELSE Goto(l, "stamp") /\ claim' = TRUE /\ token' = Nobody /\ stale' = FALSE
    /\ UNCHANGED <<booted, devVars, runVars, ghosts>>

\* `at` and `token`, or neither if the claim was removed meanwhile.  Without its
\* app the claim stays behind and nothing is started.
Stamp(l) ==
    /\ At(l, "stamp")
    /\ IF claim THEN token' = l /\ stale' = FALSE ELSE UNCHANGED <<token, stale>>
    /\ Goto(l, IF claim /\ l \in app THEN "prepare" ELSE "ended")
    /\ UNCHANGED <<booted, devVars, claim, runVars, ghosts>>

\* applyBoot(): post-fs-data.sh && service.sh.
Prepare(l) ==
    /\ At(l, "prepare")
    /\ Goto(l, "session")
    /\ UNCHANGED <<booted, devVars, claimVars, runVars, ghosts>>

PrepareFails(l) ==
    /\ At(l, "prepare") /\ "prepare" \in Faults
    /\ Goto(l, "unprepared")
    /\ UNCHANGED <<booted, devVars, claimVars, runVars, ghosts>>

\* Only its own claim, if the app is still there to release it.
Release(l) ==
    /\ pc[l] \in {"release", "unprepared"}
    /\ IF l \in app /\ token = l THEN RemoveClaim ELSE UNCHANGED claimVars
    /\ Goto(l, "ended")
    /\ UNCHANGED <<booted, devVars, runVars, ghosts>>
-----------------------------------------------------------------------------
(* service.sh: taking the boot lock.                                       *)

StartSystem(s) ==
    /\ At(s, "off") /\ s \in System /\ (booted \/ s \in Early)
    /\ Goto(s, "session")
    /\ UNCHANGED <<booted, devVars, claimVars, runVars, ghosts>>

CheckSession(r) ==
    /\ At(r, "session")
    /\ Goto(r, IF session THEN "daemons" ELSE "lock")
    /\ UNCHANGED <<booted, devVars, claimVars, runVars, ghosts>>

\* The marker is there: only the daemons are looked after.
EnsureDaemons(r) ==
    /\ At(r, "daemons")
    /\ \E code \in {"ok"} \cup (IF "tier" \in Faults THEN {"failed"} ELSE {}) : Return(r, code)
    /\ UNCHANGED <<booted, devVars, claimVars, runVars, complete, failed>>

TakeLock(r) ==
    /\ At(r, "lock")
    /\ IF lock THEN Goto(r, "wait") /\ UNCHANGED <<lock, owner, temps>>
               ELSE Goto(r, "record") /\ MakeLock
    /\ UNCHANGED <<booted, session, failures, claimVars, runVars, ghosts>>

\* 30 s for the marker to appear.
WaitDone(r) ==
    /\ At(r, "wait") /\ session
    /\ Goto(r, "daemons")
    /\ UNCHANGED <<booted, devVars, claimVars, runVars, ghosts>>

WaitOut(r) ==
    /\ At(r, "wait") /\ ~session
    /\ Goto(r, "judge")
    /\ UNCHANGED <<booted, devVars, claimVars, runVars, ghosts>>

\* pid_record_alive(): the owner runs service.sh.
OwnerAlive == owner # Nobody /\ alive[owner] /\ pc[owner] \notin {"release", "ended"}

\* MUTANT of Judge: a timeout passes for success.
JudgeTimeout(r) ==
    /\ At(r, "judge")
    /\ IF OwnerAlive
       THEN Return(r, "ok")
       ELSE Goto(r, "reclaim") /\ UNCHANGED success
    /\ UNCHANGED <<booted, devVars, claimVars, runVars, complete, failed>>

\* A live owner: timing out is not success.
Judge(r) ==
    /\ At(r, "judge")
    /\ IF OwnerAlive
       THEN Return(r, "failed")
       ELSE Goto(r, "reclaim") /\ UNCHANGED success
    /\ UNCHANGED <<booted, devVars, claimVars, runVars, complete, failed>>

\* MUTANT of Reclaim: rmdir, which a record or a temporary file defeats.
ReclaimEmpty(r) ==
    /\ At(r, "reclaim")
    /\ RmdirLock
    /\ Goto(r, "relock")
    /\ UNCHANGED <<booted, session, failures, claimVars, runVars, ghosts>>

Reclaim(r) ==
    /\ At(r, "reclaim")
    /\ RemoveLock
    /\ Goto(r, "relock")
    /\ UNCHANGED <<booted, session, failures, claimVars, runVars, ghosts>>

Relock(r) ==
    /\ At(r, "relock")
    /\ IF lock THEN Return(r, "failed") /\ UNCHANGED <<lock, owner, temps>>
               ELSE Goto(r, "record") /\ MakeLock /\ UNCHANGED success
    /\ UNCHANGED <<booted, session, failures, claimVars, runVars, complete, failed>>

\* pid_record_write(): a temporary file in the lock, then its rename.
WriteRecord(r) ==
    /\ At(r, "record") /\ lock
    /\ temps' = temps \cup {r}
    /\ Goto(r, "rename")
    /\ UNCHANGED <<booted, session, lock, owner, failures, claimVars, runVars, ghosts>>

Record(r) ==
    /\ At(r, "rename") /\ r \in temps
    /\ owner' = r /\ temps' = temps \ {r}
    /\ Goto(r, "again")
    /\ UNCHANGED <<booted, session, lock, failures, claimVars, runVars, ghosts>>

\* The lock, or the temporary file with it, was removed meanwhile.
RecordFails(r) ==
    /\ \/ At(r, "record") /\ ~lock
       \/ At(r, "rename") /\ r \notin temps
    /\ RmdirLock
    /\ Return(r, "failed")
    /\ UNCHANGED <<booted, session, failures, claimVars, runVars, complete, failed>>
-----------------------------------------------------------------------------
(* service.sh under the lock.  From here on it leaves through boot_unlock.  *)

Exit(r, code) == Goto(r, "unlock") /\ success' = (success \/ code = "ok")

\* Somebody earned the marker since r looked first.
CheckAgain(r) ==
    /\ At(r, "again")
    /\ IF session THEN Exit(r, "ok") ELSE Goto(r, "boot") /\ UNCHANGED success
    /\ UNCHANGED <<booted, devVars, claimVars, runVars, complete, failed>>

\* Up to 120 s for the boot to complete; giving up is no failed sequence.
AwaitBoot(r) ==
    /\ At(r, "boot")
    /\ IF booted THEN Goto(r, "apply") /\ UNCHANGED success ELSE Exit(r, "failed")
    /\ UNCHANGED <<booted, devVars, claimVars, runVars, complete, failed>>

\* The four tiers and ensure_daemons().
Apply(r) ==
    /\ At(r, "apply")
    /\ \/ Goto(r, "mark") /\ complete' = TRUE /\ UNCHANGED failed
       \/ "tier" \in Faults /\ Goto(r, "count") /\ failed' = failed + 1 /\ UNCHANGED complete
    /\ UNCHANGED <<booted, devVars, claimVars, runVars, success>>

\* touch.
Mark(r) ==
    /\ At(r, "mark")
    /\ session' = TRUE /\ Goto(r, "protect")
    /\ UNCHANGED <<booted, lock, owner, temps, failures, claimVars, runVars, ghosts>>

\* chmod.
Protect(r) ==
    /\ At(r, "protect")
    /\ Exit(r, "ok")
    /\ UNCHANGED <<booted, devVars, claimVars, runVars, complete, failed>>

MarkFails(r) ==
    /\ (At(r, "mark") \/ At(r, "protect"))
    /\ "marker" \in Faults
    /\ session' = FALSE /\ Goto(r, "count")
    /\ failed' = failed + 1
    /\ UNCHANGED <<booted, lock, owner, temps, failures, claimVars, runVars, success, complete>>

\* count_failure() reads the count, nothing while another run rewrites the file,
\* and then writes it.
ReadCount(r) ==
    /\ At(r, "count")
    /\ \E n \in {failures} \cup {0 : q \in {q \in Run \ {r} : pc[q] = "counted"}} :
          seen' = [seen EXCEPT ![r] = n]
    /\ Goto(r, "counted")
    /\ UNCHANGED <<booted, devVars, claimVars, alive, app, ghosts>>

\* MUTANT of WriteCount: the count read is added to the one on file.
CountTwice(r) ==
    /\ At(r, "counted")
    /\ failures' = failures + seen[r] + 1
    /\ seen' = [seen EXCEPT ![r] = 0]
    /\ Exit(r, "failed")
    /\ UNCHANGED <<booted, session, lock, owner, temps, claimVars, alive, app, complete, failed>>

WriteCount(r) ==
    /\ At(r, "counted")
    /\ failures' = seen[r] + 1
    /\ seen' = [seen EXCEPT ![r] = 0]
    /\ Exit(r, "failed")
    /\ UNCHANGED <<booted, session, lock, owner, temps, claimVars, alive, app, complete, failed>>

\* boot_unlock(): only what r still owns.
UnlockCheck(r) ==
    /\ At(r, "unlock")
    /\ Goto(r, IF owner = r THEN "remove" ELSE Returned(r))
    /\ UNCHANGED <<booted, devVars, claimVars, runVars, ghosts>>

\* MUTANT of Unlock: only an empty lock is removed.
UnlockEmpty(r) ==
    /\ At(r, "remove")
    /\ RmdirLock
    /\ Goto(r, Returned(r))
    /\ UNCHANGED <<booted, session, failures, claimVars, runVars, ghosts>>

Unlock(r) ==
    /\ At(r, "remove")
    /\ RemoveLock
    /\ Goto(r, Returned(r))
    /\ UNCHANGED <<booted, session, failures, claimVars, runVars, ghosts>>
-----------------------------------------------------------------------------
(* The environment.                                                        *)

BootCompletes ==
    /\ ~booted /\ booted' = TRUE
    /\ UNCHANGED <<devVars, claimVars, pc, runVars, ghosts>>

\* 120 s pass over a claim.
ClaimAges ==
    /\ claim /\ ~stale /\ stale' = TRUE
    /\ UNCHANGED <<booted, devVars, claim, token, pc, runVars, ghosts>>

Deaths == Cardinality({r \in Run : ~alive[r]}) + Cardinality(Launch \ app)

\* service.sh is killed; an app that waits for it goes on.
Kill(r) ==
    /\ "kill" \in Faults /\ Deaths < MaxDeaths /\ alive[r]
    /\ pc[r] \notin {"off", "consume", "claim", "stamp", "prepare", "unprepared", "release", "ended"}
    /\ alive' = [alive EXCEPT ![r] = FALSE]
    /\ Goto(r, Returned(r)) /\ seen' = [seen EXCEPT ![r] = 0]
    /\ UNCHANGED <<booted, devVars, claimVars, app, ghosts>>

\* The app is killed; the command its root shell runs goes on.
Die(l) ==
    /\ "die" \in Faults /\ Deaths < MaxDeaths /\ l \in app /\ pc[l] \notin {"off", "ended"}
    /\ app' = app \ {l}
    /\ UNCHANGED <<booted, devVars, claimVars, pc, alive, seen, ghosts>>

LaunchStep(l) ==
    Consume(l) \/ Claim(l) \/ Stamp(l) \/ Prepare(l) \/ PrepareFails(l) \/ Release(l)

ServiceStep(r) ==
    \/ CheckSession(r) \/ EnsureDaemons(r) \/ TakeLock(r) \/ WaitDone(r) \/ WaitOut(r)
    \/ Judge(r) \/ Reclaim(r) \/ Relock(r) \/ WriteRecord(r) \/ Record(r) \/ RecordFails(r)
    \/ CheckAgain(r) \/ AwaitBoot(r) \/ Apply(r) \/ Mark(r) \/ Protect(r) \/ MarkFails(r)
    \/ ReadCount(r) \/ WriteCount(r) \/ UnlockCheck(r) \/ Unlock(r)

Next ==
    \/ \E l \in Launch : StartLaunch(l) \/ Die(l)
    \/ \E s \in System : StartSystem(s)
    \/ \E r \in Run : ServiceStep(r) \/ LaunchStep(r) \/ Kill(r)
    \/ BootCompletes \/ ClaimAges

Spec == Init /\ [][Next]_vars

\* Some run that was started goes on, which is all it takes, as every script is
\* finite; nobody need start anything.
FairSpec == Spec /\ WF_vars(\E r \in Run : ServiceStep(r) \/ LaunchStep(r))
-----------------------------------------------------------------------------
Step == {"off", "consume", "claim", "stamp", "prepare", "unprepared", "release", "session", "daemons",
         "lock", "wait", "judge", "reclaim", "relock", "record", "rename", "again", "boot",
         "apply", "mark", "protect", "count", "counted", "unlock", "remove", "ended"}

\* Types; a record or a temporary file is inside an existing lock, a token inside
\* an existing claim.
TypeOK ==
    /\ booted \in BOOLEAN /\ session \in BOOLEAN /\ lock \in BOOLEAN /\ claim \in BOOLEAN
    /\ stale \in BOOLEAN /\ failures \in Nat
    /\ owner \in Run \cup {Nobody} /\ temps \subseteq Run /\ token \in Launch \cup {Nobody}
    /\ ~lock => owner = Nobody /\ temps = {}
    /\ ~claim => token = Nobody /\ ~stale
    /\ pc \in [Run -> Step] /\ alive \in [Run -> BOOLEAN] /\ app \subseteq Launch
    /\ seen \in [Run -> Nat] /\ failed \in Nat
    /\ success \in BOOLEAN /\ complete \in BOOLEAN

\* Whoever reclaimed whose lock: when every run has come to its end and none was
\* killed, no boot lock is left to make the next one wait.
NothingLeftLocked ==
    (\A r \in Run : pc[r] \in {"off", "ended"} /\ alive[r]) => ~lock

\* The replay limit is spent only by sequences that really ran and failed, even
\* when two of them count at once.
CountHonest == failures <= failed

\* A run that reports success has evidence of it: some run, not necessarily
\* itself, went through all tiers and daemons.
SuccessEarned == success => complete

\* l may claim and run the sequence, and nothing else will run any more.
Last(l) ==
    /\ pc[l] = "consume" /\ \A r \in Run \ {l} : Over(r)
    /\ claim => stale

\* Whatever killed runs and apps left behind, the last launch decides the boot:
\* the marker is there, or a failure is counted.  (Not so when its preparation
\* fails: FailuresCounted.)
LaunchSettles ==
    \A l \in Launch, n \in 0 .. ReplayLimit - 1 :
        (Last(l) /\ failures = n)
            ~> (session \/ failures > n \/ ~alive[l] \/ l \notin app \/ pc[l] = "unprepared")

\* "A failure that repeats identically would otherwise re-run the whole boot on
\* every launch, forever. The app stops replaying once this count reaches its
\* limit": a launch that replays the boot without success counts as a failure.
FailuresCounted ==
    \A l \in Launch, n \in 0 .. ReplayLimit - 1 :
        (Last(l) /\ failures = n) ~> (session \/ failures > n \/ ~alive[l] \/ l \notin app)
=============================================================================
