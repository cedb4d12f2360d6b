--------------------------------- MODULE Launch ---------------------------------
(***************************************************************************)
(* Daemon start and stop. Two runs of apply_profile.sh (KernelSU's and the *)
(* app's, say) each stop the daemon, write static values under the apply   *)
(* lock and start it again; adaptive_stop.sh and adaptive_start.sh find it *)
(* through the PID record, the daemons keep each other out by the flock on *)
(* adaptive.lock. The apply lock is a mutex here (module ApplyLock says    *)
(* what it is); boosts are the daemon that raised them (module Actuator).  *)
(***************************************************************************)
EXTENDS Naturals, Sequences

CONSTANTS
    Scripts,      \* runs of apply_profile.sh
    MaxLaunches,  \* bound: daemons launched
    MaxRuns,      \* bound: times a script runs
    MaxSlain      \* bound: SIGKILLs of a daemon

ASSUME LaunchBounds == {MaxLaunches, MaxRuns, MaxSlain} \subseteq Nat

VARIABLES
    daemons,  \* every --run process so far: where it is, SIGTERM received
    flock,    \* who holds adaptive.lock, if anybody: a daemon or a script's --restore
    record,   \* the daemon adaptive_pid names, 0 when absent
    journal,  \* adaptive_journal exists
    raised,   \* the daemon whose values the nodes hold, 0 when released
    scripts,  \* where each script is, and the daemons published when it began
    apply,    \* the script that holds .apply_lock, if any
    runs,     \* bound
    slain     \* bound

launchVars == <<daemons, flock, record, journal, raised, scripts, apply, runs, slain>>

LaunchInit ==
    /\ daemons = <<>> /\ flock = {} /\ record = 0 /\ journal = FALSE /\ raised = 0
    /\ scripts = [s \in Scripts |-> [at |-> "off", before |-> {}]]
    /\ apply = {} /\ runs = 0 /\ slain = 0

At(d, stage) == daemons[d].at = stage
GoTo(d, stage) == daemons' = [daemons EXCEPT ![d].at = stage]
Exit(d) == GoTo(d, "gone") /\ flock' = flock \ {<<"run", d>>}

\* The daemons whose record has been written, now or earlier.
Published == {d \in DOMAIN daemons : daemons[d].at \in {"run", "unlink", "close", "gone"}}

\* pid_record_alive: boot, start time and name agree, so the process is that daemon.
RecordAlive == record # 0 /\ ~At(record, "gone")

-----------------------------------------------------------------------------
(* --run *)

\* A second one exits 3.
TakeFlock(d) ==
    /\ At(d, "launched")
    /\ IF flock = {} THEN flock' = {<<"run", d>>} /\ GoTo(d, "restore") ELSE Exit(d)
    /\ UNCHANGED <<record, journal, raised, scripts, apply, runs, slain>>

\* restore() under the apply lock, or exit 4; a failing one may leave the journal.
StartRestored(d) ==
    /\ At(d, "restore")
    /\ \/ /\ apply = {} /\ raised' = 0 /\ journal' = TRUE
          /\ GoTo(d, "publish") /\ UNCHANGED flock
       \/ Exit(d) /\ UNCHANGED <<raised, journal>>
    /\ UNCHANGED <<record, scripts, apply, runs, slain>>

\* atomicText of adaptive_pid, or exit 5.
Publish(d) ==
    /\ At(d, "publish")
    /\ \/ record' = d /\ GoTo(d, "run") /\ UNCHANGED flock
       \/ Exit(d) /\ UNCHANGED record
    /\ UNCHANGED <<journal, raised, scripts, apply, runs, slain>>

Boost(d) ==
    /\ At(d, "run") /\ apply = {}
    /\ raised' = d
    /\ UNCHANGED <<daemons, flock, record, journal, scripts, apply, runs, slain>>

\* After SIGTERM: restore, which may fail or find the lock busy for two seconds.
EndRestored(d) ==
    /\ At(d, "run") /\ daemons[d].term
    /\ \/ apply = {} /\ raised' = 0
       \/ UNCHANGED raised
    /\ GoTo(d, "unlink")
    /\ UNCHANGED <<flock, record, journal, scripts, apply, runs, slain>>

\* The record goes before the flock.
Unlink(d) ==
    /\ At(d, "unlink") /\ GoTo(d, "close")
    /\ record' = 0
    /\ UNCHANGED <<flock, journal, raised, scripts, apply, runs, slain>>

Close(d) ==
    /\ At(d, "close") /\ Exit(d)
    /\ UNCHANGED <<record, journal, raised, scripts, apply, runs, slain>>

Slay(d) ==
    /\ ~At(d, "gone") /\ slain < MaxSlain /\ slain' = slain + 1
    /\ Exit(d)
    /\ UNCHANGED <<record, journal, raised, scripts, apply, runs>>

-----------------------------------------------------------------------------
(* apply_profile.sh: adaptive_stop.sh, the lock, the values, adaptive_start.sh *)

Step(s, stage) == scripts' = [scripts EXCEPT ![s].at = stage]
Standing(s, stage) == scripts[s].at = stage

StopBegin(s) ==
    /\ Standing(s, "off") /\ runs < MaxRuns /\ runs' = runs + 1
    /\ scripts' = [scripts EXCEPT ![s] = [at |-> "check", before |-> Published]]
    /\ UNCHANGED <<daemons, flock, record, journal, raised, apply, slain>>

StopCheck(s) ==
    /\ Standing(s, "check")
    /\ IF RecordAlive
       THEN daemons' = [daemons EXCEPT ![record].term = TRUE] /\ Step(s, "wait")
       ELSE UNCHANGED daemons /\ Step(s, "journal")
    /\ UNCHANGED <<flock, record, journal, raised, apply, runs, slain>>

\* Five seconds, then it refuses to go on beside a live daemon.
StopWait(s) ==
    /\ Standing(s, "wait")
    /\ Step(s, IF RecordAlive THEN "off" ELSE "journal")
    /\ UNCHANGED <<daemons, flock, record, journal, raised, apply, runs, slain>>

\* --restore, when there is a journal: exits 3 beside a daemon.
StopJournal(s) ==
    /\ Standing(s, "journal")
    /\ IF ~journal THEN Step(s, "lock") /\ UNCHANGED flock
       ELSE IF flock = {} THEN Step(s, "restore") /\ flock' = {<<"restore", s>>}
       ELSE Step(s, "off") /\ UNCHANGED flock
    /\ UNCHANGED <<daemons, record, journal, raised, apply, runs, slain>>

\* MUTANT of Restoring: a --restore that failed is not noticed.
RestoringAnyway(s, ok) == Step(s, "lock")

Restoring(s, ok) == Step(s, IF ok THEN "lock" ELSE "off")

StopRestored(s) ==
    /\ Standing(s, "restore")
    /\ flock' = {}
    /\ \/ apply = {} /\ raised' = 0 /\ Restoring(s, TRUE)
       \/ UNCHANGED raised /\ Restoring(s, FALSE)
    /\ UNCHANGED <<daemons, record, journal, apply, runs, slain>>

\* begin_apply_lock, or the script ends.
Locked(s) ==
    /\ Standing(s, "lock")
    /\ IF apply = {} THEN apply' = {s} /\ Step(s, "write")
       ELSE UNCHANGED apply /\ Step(s, "off")
    /\ UNCHANGED <<daemons, flock, record, journal, raised, runs, slain>>

Unlocks(s) ==
    /\ Standing(s, "write")
    /\ apply' = {} /\ Step(s, "start")
    /\ UNCHANGED <<daemons, flock, record, journal, raised, runs, slain>>

\* A record alive is taken for a daemon that runs; nothing is to be started with
\* the mode off or beside a benchmark.
StartCheck(s) ==
    /\ Standing(s, "start")
    /\ \/ Step(s, "off") /\ UNCHANGED daemons
       \/ /\ ~RecordAlive /\ Len(daemons) < MaxLaunches
          /\ daemons' = Append(daemons, [at |-> "launched", term |-> FALSE])
          /\ Step(s, "await")
    /\ UNCHANGED <<flock, record, journal, raised, apply, runs, slain>>

\* Until the record is alive, or five seconds.
StartWait(s) ==
    /\ Standing(s, "await")
    /\ Step(s, "off")
    /\ UNCHANGED <<daemons, flock, record, journal, raised, apply, runs, slain>>

LaunchNext ==
    \/ \E d \in DOMAIN daemons :
          \/ TakeFlock(d) \/ StartRestored(d) \/ Publish(d) \/ Boost(d)
          \/ EndRestored(d) \/ Unlink(d) \/ Close(d) \/ Slay(d)
    \/ \E s \in Scripts :
          \/ StopBegin(s) \/ StopCheck(s) \/ StopWait(s) \/ StopJournal(s)
          \/ StopRestored(s) \/ Locked(s) \/ Unlocks(s) \/ StartCheck(s) \/ StartWait(s)

LaunchSpec == LaunchInit /\ [][LaunchNext]_launchVars

-----------------------------------------------------------------------------
(* Properties *)

\* "SIGKILL/crash recovery runs before any static profile can overwrite the
\* journal's values" (adaptive_stop.sh): while a profile writes, no node holds
\* a value raised by a daemon published before the profile began, however that
\* daemon ended and whatever the other script did meanwhile. It rests on the
\* record: it always names the daemon that may hold boosts.
StopReleases ==
    /\ \A d \in DOMAIN daemons : daemons[d].at \in {"run", "unlink"} => record = d
    /\ \A s \in Scripts : Standing(s, "write") => raised \notin scripts[s].before

=============================================================================
