# Verification of PUCTuner

TLA+ specifications of the parts of PUCTuner where an order of events matters: the native daemon
`m54-adaptive` that raises kernel frequency floors and must hand them back, the loop that decides
when it may, what the engine learns and the files it keeps it in, the probe and the windows it
measures with, the lock it shares with the shell scripts, how it is started and stopped, the
once-per-boot sequence, and the app's configuration. TLC checks small instances of every module;
TLAPS proves the safety properties that hold, all of them, for every value of the constants (some
under hypotheses on the faults or the configuration that section 4 names).

Paths below are relative to the repository; `platform.cpp`, `main.cpp` and `core.cpp` are in
`module/engine/`, `lib.sh` and the other scripts in `module/scripts/`.

    tlc -workers 2 -config MCActuator_environment.cfg MCActuator  # one run
    tlapm ActuatorProofs.tla                                     # one proof module (about 2 minutes)
    tlc -workers 2 -config MCParts.cfg MCParts                   # the parts that share no state

`PROJECT.json` lists every run, what each definition stands for in the source, the mutants (for each
property of each passing run a plausible bug that breaks it), the hazards and the theorems.

## 1. The system

| Component | State it keeps | Operations | Talks to |
|---|---|---|---|
| Actuator (`platform.cpp`) | node list with baselines, journal map, file `adaptive_journal`, `failureAxis` | construct/recover, `constrain`, `writeOwned`, `apply`, `verified`, `restore` | kernel nodes, journal file, called by `main` |
| Window loop (`main.cpp`) | `current`, `previous`, `session`, armed pair, `cooling`, `changedAt`, allowance, refusals, trim gate | one iteration per closed window; start, exit | sampler, actuator, brain, planner, apply lock, config file |
| Refusal back-off (`platform.cpp`) | count, blocked-until and last-change per axis | `axisAvailable`, `axisRejected`, `decayRefusals`, `withTransient` | window loop |
| Search and clamp (`core.cpp`) | none (brain is input) | `safe`, `candidates`, `Planner::search`, `accept`, `ambition` | window loop |
| Allowance (`core.cpp`, Budget) | level in [0,1] | `update`, `relax`, `ceiling` | window loop, brain file |
| Learners (`core.cpp`) | critic weights, prior, model cells, replay ring, accuracy | `learn`, `reinforce`, `observe`, `add`, `rehearse` | window loop |
| Brain store (`platform.cpp`, `main.cpp`) | `adaptive_model`, set-aside copies, history generations | `loadBrain`, periodic save, `adoptBrain`, `rotateGenerations` | file system, `adopt_brain.sh` |
| Sampler, frame tracker (`platform.cpp`, `bpf.cpp`) | windowed counters, seen frames, cadence | `read`, `finish`, `windowComplete` | /proc, /sys, dumpsys, BPF |
| Apply lock (`lib.sh`, `platform.cpp`) | directory `.apply_lock`, file `owner`, temporary files | `begin_apply_lock`, `end_apply_lock`, class `ApplyLock` | every script that changes state, the daemon |
| Daemon control (`adaptive_start.sh`, `adaptive_stop.sh`, `lib.sh`) | `adaptive_pid`, `adaptive.lock` (flock) | start, stop, `pid_record_*` | daemon, app, boot |
| Boot (`service.sh`, `boot-completed.sh`, `late-load.sh`) | session marker, boot lock, failure count in /dev | once-per-boot sequence | tiers, daemons, app |
| Profile tiers (`apply_*.sh`) | results, property and package ledgers | `apply_profile`, `apply_render`, `apply_mem`, `apply_art`, `apply_dexopt`, `apply_protect`, `apply_samsung` | kernel nodes, properties, apply lock |
| Guards (`thermal_guard.sh`, `keepalive.sh`, `bench*.sh`) | PID records, forced flag | detached loops | kernel nodes, config |
| Uninstall (`uninstall.sh`, `uninstall_finish.sh`, `restore_persistent.sh`) | ledgers | undo everything | tiers' ledgers |
| App (`MainViewModel.kt`, `ModuleBridge.kt`, ...) | UI state, in-memory config, pending edits | edit, apply, refresh, boot replay | scripts through a root shell |

What is hard about it:

* **Crashes.** The daemon may be killed between any two system calls, and what it did to the
  hardware outlives it. Only `adaptive_journal` tells the next start what to undo.
* **Other writers.** Samsung's QoS, the thermal driver and scripts write the same nodes; their
  values must survive, the engine's must not.
* **Partial failure.** The kernel refuses or alters single writes, saves fail, a lock stays busy;
  each in the middle of an operation over several nodes.
* **Order.** A window is measured under what an earlier one applied. What the loop credits to a
  choice must not span a release, a sleep, a trim, another app.
* **Two protocols on one lock.** Scripts and the daemon take, judge and reclaim `.apply_lock` in
  different steps, none of them atomic.

What makes each part correct: the Actuator hands every value back and preserves everyone else's;
the loop knows what the hardware is held at, lets go when it must and credits only undisturbed
pairs; the back-off never latches an axis; the lock excludes, is never left behind and always ends
an attempt; the boot sequence runs once, is retried a bounded number of times; the app's memory, its
file and the kernel agree once it is idle; a brain is set aside, never lost.

## 2. The modules

| Module | Models | Extends |
|---|---|---|
| `FloorTarget` | the value `apply()` asks for at a level: reachable prefix of the table, floor under the ceiling, PELT, powersave ceiling | |
| `Actuator` | the Actuator and `main()`'s calls of it | `FloorTarget` |
| `Refusals` | `RefusalState` and its four functions | |
| `ControlLoop` | the body of the window loop | `Refusals` |
| `Search` | `safe()`, `candidates()`, `moveIndex()`, the tree of one `Planner::search` | |
| `Learning` | critic, policy cells, replay buffer and pending scores: which window each has counted | |
| `ResidualModel` | the table of measured residuals: cells, counts, eviction, surprise, fold of a retired key | |
| `BrainStore` | `adaptive_model`, its set-aside copies, the daemon and the adoption that write them | |
| `BrainArchive` | what the store promises without naming a file: the abstract specification | |
| `Generations` | `adaptive_history.csv`, its header and `rotateGenerations` | |
| `Window` | the polling loop and `Sampler::read`: when a window closes, whose frames and delays it reports | |
| `Cadence` | when `FrameTracker::finish` believes a faster or slower cadence | |
| `Runqueue` | `RunqueueProbe`, its watch list, the two tracepoint programs | |
| `ApplyLock` | `.apply_lock` under both protocols | |
| `Launch` | `adaptive_start.sh`, `adaptive_stop.sh` around a profile; PID record, flock, `--restore` | |
| `Boot` | `service.sh` and the app's replay of it | |
| `AppConfig` | the app's configuration, its saves and the tier scripts, over the root shell | |
| `ActuatorProofs`, `ControlLoopProofs`, `ApplyLockProofs`, `BootProofs`, `BrainStoreProofs` | theorems | the module named |
| `AppProofs` | theorems | `AppConfig`, `Launch` |
| `MeasurementProofs` | theorems | `Window`, `Cadence`, `Runqueue`, `Generations` |
| `LearningProofs` | theorems | `Learning`, `Search`, `ResidualModel` |
| `MCActuator`, `MCControlLoop`, `MCApplyLock`, `MCBoot`, `MCBrainStore` | instances for TLC | the module named |
| `MCParts` | the nine parts that share no state: `ResidualModel`, `Learning`, `Search`, `Generations`, `Runqueue`, `Window`, `Cadence`, `AppConfig`, `Launch`. A behaviour picks one and the others rest | all nine |

How they meet. `ControlLoop` decides which pair of windows is credited; `Learning` and
`ResidualModel` are what a credited pair changes; `BrainStore` is what becomes of it on disk, as a set
of lessons. `Window`, `Cadence` and `Runqueue` produce what `ControlLoop` calls a scene. `Search`
produces the proposal that `ControlLoop` takes as any candidate. `Launch` sees the Actuator as "whose
values the nodes hold" and `.apply_lock` as a mutex; what the two really are is the subject of their own
modules, and what they really do that these summaries do not is said in section 3.

### Actuator

One daemon beside the environment. A step ends where something else can happen: `writeOwned()` is
cut into the comparison with the journal (`OwnMatch`, `OwnRefuse`, `OwnRecord`), the save
(`Save`, `SaveFails`: an fsync, the longest gap), the write (`Write`, `WriteRejected`) and the
read-back (`ReadBack`, `ReadBackFails`); `apply()` goes node by node (`PlanSkip`,
`PlanUnreachable`, `PlanNode`, `ApplyDone`, `ApplyUnverified`); `restore()` entry by entry and
then the save (`RestoreSaved`, `RestoreSaveFails`). The read, compare, write and read-back of one
entry of `restore()` are one step: there is no blocking call between them. `hw` is what the kernel
shows, `journal` the daemon's map, `disk` and `diskLive` the file and whether its boot id is the
running one.

The environment is the set `Faults`: kill, reboot, refused write (`reject`), altered write
(`clamp`), failed save, busy lock, other writers (`foreign`), and other writers inside the fsync
gap (`gap`). The levels asked for are every action `safe()` offers over the axes `constrain()`
leaves.

Ghosts: `author` (whose value a node shows; "either" when another writer sets exactly the value an
entry names), `base` (what the system had there before the engine), `unsettled` (paths whose entry
may not match the node: an altered write, a write in the gap, the rewrite of an owned entry while
it is under way or after it failed). `unsettled` is where `actuator_sigkill` lives; `Recoverable` and
`StoppedMeansReleased` exclude exactly these paths.

Deliberate simplifications: a start that finds the lock busy (`main.cpp:174`, exit 4) changes
nothing and is no step; `Stop` stands for SIGTERM and for `adaptive_mode=off` and the module's
disable and remove files (`main.cpp:266-267`), which all leave the loop; settings are positive
where the file exists (the loader drops entries with original 0, `platform.cpp:825`; no such node
exists among those the engine owns).

### ControlLoop

One action per outcome of a closing window: `WindowPutOff` (lock busy), `WindowStuck` (restore
failed), `WindowRelease`, `WindowApply`, `WindowReject`, `WindowLocked`, `WindowSettle`. Every one
contains the whole iteration: the sensing (`Sense`: hysteresis, allowance, trim), the credit of the
pair that ends (`Credit`), what becomes of the pair (`Carry` or `Arm`) and of the hardware (`Hold`).

A window is a *scene*: the outcome of each test the loop makes on its measurements (identity of the
foreground and configuration, heat band, readiness, frames, benchmark, mode, soundness, cadence,
due trim, open axes, length, sleep). The learners are reduced to which of them a pair teaches:
`lesson.kind` is "policy" (prior and model), "value" (critic only) or "none".

The Actuator is seen from outside: `held`, the level the hardware of each axis shows; `owned`, the axes
with a journal entry; `moved`, those of them that show another value than was written last; `baseline`,
what an axis shows or falls back to without an entry. Floors are only raised, so an action in effect shows
as `OnTop` of the baseline, and at the start or after another writer's move the baseline may already be as
high. A failed write leaves what the Actuator's own order of steps makes it leave (`LeftBy`): a refused
rewrite has moved the entry on before the write (`platform.cpp:841-844`), an altered value matches no
entry, so `restore()` takes either floor for another writer's and drops the entry
(`platform.cpp:937-942`). What stays raised is the baseline from then on. The same happens to a value the
kernel alters while a restore hands it back and then keeps (`Handback`). The steps inside one apply or
restore are module `Actuator`'s subject. The search is any choice among `candidates()`; `accept()`
may refuse any of them. The allowance moves by at most one level in a window (a window is at most
12 s, the rate at most .75/300 per second, so .03; the narrowest level is .15 wide), down only
under an effort, and by any amount upwards over a sleep.

Time saturates at the thresholds the code compares it with: 18 s of settling, 6 s of calm, pairs of
4 to 30 s. Windows and sleeps are 6 s long (windows 9 s in `loop_heat`). The refusal constants, 5
refusals, 120 s and 900 s in the code, are scaled: 1, 6 and 24 in `loop_credit`, 2, 9 and 27 in
`loop_heat`, 2, 24 and 48 in `loop_toggle`. What matters is that a refusal counts, blocks for at least a
window, and decays after a longer time than it blocks.

Ghosts: `stirred` (what happened since the pair was armed), `lesson` (what the last pair taught, over
what, under which action), `sunk` (axes without an entry that another writer lowered below what is
believed), `still` and `rested` (how long the hardware had been at rest when the engine last raised it).

### ApplyLock

Two kinds of process over one directory. A script (`Shell`) tries, looks, checks, reclaims and
gives up after `MaxTries` sleeps; the daemon (`Native`) makes one attempt per window. Each command
(`mkdir`, `grep` of the record, the temporary file, its rename, `rmdir`, `rm -rf`) or system call is
a step. `rm -rf` of the directory is one step: while it is under way nobody can take the lock. The
record names a process; that the process is alive and is the one recorded (start time, boot id) is
`Live`. Process ids are not reused. `fresh` is the two-second rule the daemon applies to a lock
without a readable owner.

### Boot

Runs of `service.sh` (`System`: KernelSU's; `Launch`: the one each app launch may start) over the files
in `/dev`: session marker, boot lock with its record, failure count, the app's claim. One command is one
step; where a script tests a file and acts on it later, another run's steps fit between. A reboot clears
`/dev`, so a behaviour is one boot. The four tiers and `ensure_daemons` are one step that succeeds or
fails (`Apply`); waiting 30 s for the marker and 120 s for the boot to complete may end at any moment.
A killed script leaves its files; an app that dies leaves its claim, while the command its root shell
runs goes on. Launches follow each other, as the app is one process: the next starts when the last one
has ended or its app has died. A count read while another run rewrites the file reads as nothing. The
handler of `trap` on INT and TERM, after which the script would continue, is left out: nothing sends
`service.sh` these signals. A preparation (`post-fs-data.sh`) that is killed is one that failed.

### BrainStore

A brain is the set of lessons it descends from; a file is the identity it was saved under, its lessons
and whether it is sound. The daemon's `loadBrain` is one step (a stat, a read and one rename under
the flock), its save two: the `O_EXCL` open of the temporary file, and the rest up to the rename.
`adoptBrain` is cut at its rename, its open and its commit. SIGKILL may fall anywhere and closes the
flock; a full filesystem refuses renames and saves; a firmware update changes the identity, and may
change it back; wall time need not move between two names; process ids come back.

Ghosts: `archived` (lessons that some file ever held), `warned` (a daemon reported ":unmoved"), `gone`
(why there may be no brain that nobody reports again), `adopted` (what an adoption that answered
success took into use), and in the daemon's record `born` and `stale`.

`Archive` is the refinement: kept lessons, lessons in mind, up or not, warned or not. Renames, saves
and kills are all either growth of what is kept or stutters.

### Learning, ResidualModel, Search

`Learning` keeps of the brain what counts windows: critic updates, `Brain::windows`, policy cells with
their touch, replay samples (a sample is the window it was taken from), and the predictions whose
returns are still being summed. `ResidualModel` keeps a cell's count and last touch; `freshEvidence`
(a count halved every `HalfLife` samples) is compared over integers by raising both sides to
`HalfLife`. Whether a measurement fails its prediction is an input. A daemon starts under one
configuration, `boot`; `rehomeKey()` brings a stored key onto it only if `legacyIdentities()`, which sees
that configuration alone, offers the key's identity for it (`Retired`), and leaves every other key as it was
stored (`core.cpp:781-782`, `962-963`). Such cells count against `MaxEntries`, may be evicted, and are found
again only by a start under their own surface. Policy keys are rehomed in the same way; there a key
that is offered folds and any other keeps its name. `Search` grows one tree; which
child PUCT descends to is any of them, a predicted state differs from the measured one in its heat
only, and the deadline may come at any simulation.

### Window, Cadence, Runqueue

`Window` has one action for one turn of the polling loop, with the refresh of foreground, layer and
watch list that falls into it; time is in half seconds on two clocks, one that stops in sleep. Frames
are three bands and the apps that drew them. `Cadence` has the counters of `finish()`; `log` is what
each window said since the cadence was adopted. `Runqueue` knows a delay by the wakeup it started
from; the programs' map updates, the daemon's drain (lookup, then clear, slot by slot) and the
publication of the watch list interleave. A map operation of the kernel is atomic; wakeups and switches
of one thread are serialised by its run queue.

### Launch

Two runs of `apply_profile.sh`, each stop, lock, write, unlock, start. The daemon's side is what
`main()` does from the flock to its release: `--restore` under the apply lock, the PID record, boosts,
the last restore, the unlink of the record and the close. `RecordAlive` is `pid_record_alive`: boot id,
start time and name agree, so a record is never taken for another process. The waits of five seconds
may end either way. A benchmark, or `adaptive_mode=off`, is the choice not to start.

### AppConfig

Every operation changes the screen at once and then suspends on calls of the root shell, one process
that runs them in order and answers in order (libsu; external). A job is debounced, waits for
`applyLock`, saves the whole configuration, then runs its tier's script, or on failure reads the file
and reverts. An edit of a tier cancels that tier's job, which stops at its next answer. `setGames` and `setProtectList` save outside the lock, several at once if the user is quick. A behaviour starts from a bootstrap that read the file.

Ghosts: `chosen`, what the user chose and was not told was not saved; `crossed`, that a configuration
read back took the screen over an edit or a list on its way to the file, or was stale by then.

## 3. The runs

All constants below; every run that passes finishes with the state space exhausted.

| Run | Instance | Shows |
|---|---|---|
| `actuator_environment` | one CPU floor (3 steps, ceiling 2 or 3); all eight faults; fair | `TypeOK`; `Recoverable`: at every instant the file takes every settled value back; `StoppedMeansReleased`: "stopped_restored" is the truth; `NeverPinned`; `StopTerminates` |
| `actuator_powersave` | GPU floor and ceiling of the powersave tier, a bus without a visible ceiling, PELT; other writers, busy | `NothingLeft`: without a failed write, nothing at all is left after a stop; `ForeignPreserved` |
| `actuator_sigkill` | the CPU floor; kill alone | violated: `NoFloorLeaks` |
| `loop_credit` | two apps and one beside a conflicting tuner, one axis; sleep, trim, usability and cadence in every combination, heat, charge, screen, benchmark and mode one at a time; busy, foreign, reject, alter | `CreditUndisturbed`, `ValueUnbroken`, `HeldMatches`, `RaisedRested` |
| `loop_heat` | one app, heat; busy, foreign, reject, stuck, alter; fair | `TypeOK`, `HeatReleases`, `NeverLatched` |
| `loop_toggle` | CPU and PELT, the PELT axis closed and opened by the configuration | violated: `ArmedInEffect` |
| `lock_faults` | two scripts, the daemon once; full disk, kills; fair | `NothingLeftLocked`, `AttemptsEnd`, `WreckTaken` |
| `lock_handoff` | one script, the daemon twice; no fault | violated: `MutualExclusion` |
| `boot_replay` | KernelSU's run and two app launches; tier, marker, preparation fail; one kill of a script or app; fair | `NothingLeftLocked`, `CountHonest`, `SuccessEarned`, `LaunchSettles` |
| `boot_prepare` | the same; preparation fails, nothing else | violated: `FailuresCounted` |
| `brain_store` | two firmware identities, two pids, one second; two lessons, two firmware changes, one kill, one full filesystem, one adoption; fair | `KeptUnlessUnmoved`: no saved lesson is lost but after a report; `ResetSeen`: no reset is silent; `AdoptedInUse`; `ImplementsArchive`: the refinement; `LessonsReachDisk` |
| `parts` | the nine parts of `MCParts`, one at a time, bounds below | see the next table |

The properties of `parts`:

| Part and bounds | Property |
|---|---|
| residual table: two retired identities offered for a new one, a third that is offered for none, another live surface; a coarse and a fine scope, one edge, room for 3 cells; 5 windows, two restarts, under any of them | `EvidenceMeasured`: no cell claims more observations than windows were measured on its edge, and no table is one the next start would refuse; `FoldKeeps`: a restart loses no cell, what is offered for the surface it starts under is folded onto it without loss, and any other cell stays as it was saved |
| learners: 3 policy keys, two of which a start may or may not fold, 2 cells, 2 samples, look-ahead 3; 4 windows, one restart | `CountsAgree`: what gates autonomy counts each window once; `ScoresUnbroken`: a score is made of one unbroken chain |
| search: 2 axes, depth 2, 3 simulations, every view | `AnswerHolds`: what the search answers may be held, and its move is the one credited |
| history: 3 generations, 7 files, 2 kills | `NewestKept` |
| probe: a thread of each of two apps, two processors, attach to one or both; 2 wakeups | `WaitsCountedOnce`, `StrayOnce` |
| windows: two apps, polls of 1 and 1.5 s, sleeps of 20 s | `FramesOfApp`, `PairsInGate`, `QueueCatchesUp` |
| cadence: 3 rates, raise after 3, lower after 4; 7 windows compared with one cadence | `ChangeEarned` |
| app: two debounced tiers, one direct, the lists; 3 operations, 2 failed calls | `Settled` |
| launch: two scripts, 3 daemons, 3 runs, one SIGKILL | `StopReleases` |

Why the bounds are enough. Nodes meet inside the Actuator only in the order of one apply, one restore
and one save. The safety of one node under every fault is `actuator_environment`, of a floor together
with its own ceiling and of three nodes in a row `actuator_powersave`; the proofs of
section 4 hold for any number of nodes. Tables of three entries separate "released", "raised" and "as
high as the ceiling allows". `MaxTries` is 2 for the exit loop's 20: the loop has a first, a repeated
and a last round. In the loop, one axis with two levels (one in `loop_heat`) has every move: up, down,
stay, release, clamped or not. `loop_credit` remembers one refusal, which blocks the axis for a window; `loop_heat`
two, and its back-off lasts a window and its decay three. Three processes are the fewest in
which a reclaim, its victim and a third party differ, and two already break exclusion; `MaxTries` 3 and
`Patience` 2 give a script that waits, may then remove a lock without a record, and tries once more.
In `boot_replay` one run is in the sequence, one follows it and one comes last; one death leaves each
kind of wreck, and a limit of one failure (3 in the code) is reached by one and by two counting runs.

In `brain_store` two firmware changes are an update and its rollback, with one adoption between or after
them; one second makes every two names of a kind collide; two pids let one come back while the other is in
use. In `parts` each table has room for fewer entries than the keys that may arise, so that eviction
happens, `SurpriseAt` and `FinePromotion` are met within the windows allowed, and 5 windows are more than two
half-lives; two restarts are one that folds and one under the other surface, in either order. A depth of two and three simulations give a root whose
children tie, a node that is pruned and one at the horizon. Two kills cut a rotation and the rotation
after it. A lowering after four windows has, as after ten, windows that count and windows that are held.
Two wakeups of one thread are the fewest of which one may be counted twice or in the other's place. Two scripts
and one SIGKILL are a stop beside another's start, with a daemon that dies in any stage; the theorem
removes these bounds.

**Fairness.** `Actuator`: weak fairness of the daemon's own steps, i.e. the process is scheduled;
nothing is assumed of starts, signals, kills or other writers. `ControlLoop`: windows keep closing.
`HeatReleases` says itself that the lock is free and the kernel takes nodes back from some time on; the
code retries and can promise no more. `ApplyLock`: each process is scheduled and two seconds pass; no
fairness between processes for the lock itself. `Boot`: while scripts or commands
are under way, one of them goes on; no launch need ever happen, tiers may fail for ever. `BrainStore`:
a live daemon goes on with its load and its periodic save, and a full filesystem is freed again;
nothing is assumed of starts. `MCParts` states none: its parts are checked for safety.

**Deadlock** is checked except in `ApplyLock` and `Boot`, whose scripts end, and in `MCParts`, whose
counters reach their bounds.

### Where the code does less than it says

* `actuator_sigkill`: rewriting an owned node (level 1 to 2) moves the entry's `last` and saves it
  before the write. Killed in between, the node still shows the previous floor, which the next start
  takes for another owner's and forgets. `Faults = {"reject"}` in the same configuration gives the
  same leak without a kill: the kernel refuses the rewrite, and the `restore()` that `main` runs next
  drops the entry.
* `loop_toggle`: `adaptive_pelt=0` closes the axis without releasing it; it is not part of the
  identity whose change releases everything. With `Faults = {"reject", "stuck"}` and no toggle,
  `ArmedInEffect` fails too: `current = {}` after a refused apply, also when the restore failed, and
  `verified()` is content with the node left raised.
* `lock_handoff`: both reclaim paths judge a record and remove the directory in separate steps.
* `boot_prepare`: the app runs `service.sh` only after a successful `post-fs-data.sh`, whose status is that
  of its last command, `apply_art.sh`. If that one fails, the memory and profile tiers never run, no
  failure is counted, and every later launch does the same again.

More behaviours of the code, all possible in the models, are worth a reader's attention and are not
runs of their own.

*Lock and boot.* A process killed between `owner.tmp.<pid>` and its rename leaves an `.apply_lock`
without `owner` that `rmdir` never removes, a reboot included; `WreckTaken` excludes it. In `Boot`, two
runs that both judged a dead lock can both go through the sequence, each removing the other's lock.

*Loop.* `main.cpp:241-243` says that a pair whose action was moved before its window closed has no edge
to credit. A refused apply wrote nodes and restored them, but leaves `eligible` and `armedAction` standing
and empties `current` (`main.cpp:482-489`); if the pair was armed under the empty action, the two compare
equal and the policy is credited with holding still over it. This is the exception in `CreditUndisturbed`,
and TLC finds it in `loop_credit` when the exception is taken out. A floor that a refused or altered write
left raised (above, `actuator_sigkill`) is nobody's: the loop believes nothing is held, heat releases
nothing, and it ends with the next writer or reboot. `HeatReleases` therefore speaks of boosts with a journal
entry. When a baseline made a floor unnecessary and another writer lowers it, `verified()` has no entry to
compare, so the loop believes in an effect that is gone until the next apply writes it again (`sunk`);
writing it does not count as a change (`main.cpp:476`), so nothing settles after it. A pair is kept "holding" over a window whose configuration changed if that window is not
comparable with the first (cadence, charge), and credited to the policy one window later. The allowance
clamps what the search proposes only: if `accept()` does not find enough advantage in it, the loop keeps
an action above the allowance. A journal's fsync lies between the check of an owned node and its write:
another writer's value may be overwritten there (fault `gap`).

*Brain store.* A reset is told by the first daemon after it only: the next one finds no
`adaptive_model` and calls it a first boot. A rejected brain that could not be renamed is overwritten by
the first save, after the daemon has said so. A temporary file left by a killed save refuses (`O_EXCL`)
every save of a later daemon that is given the same pid; it runs on unsaved. An adoption that crashes or
fails between its rename and its save leaves no brain in use, only the two that were set aside.

*Measurement.* The watch list is published again only when it is six seconds old, so up to two windows of an
app that has just come to the foreground carry the delays of the one before; nothing but the foreground
app is watched, though `runqueue.bpf.c:42` speaks of the compositor. The slots of the probe are read and
cleared one after the other: a delay added between lookup and clear is lost, and one may be counted in
one window and summed in the next, so the mean mixes windows. An attach that failed on some processors
is accepted. A change of the frame cap leaves `faster` and `slower` as they are, so one window after it
may complete a count begun before.

*Start and stop.* A start that finds a record still alive exits 0 although the daemon may be ending after
SIGTERM. A daemon launched and not yet published is not seen by `adaptive_stop.sh`, so a profile may
write beside it; `StopReleases` speaks of the daemons published when the profile began. A stop that is
not obeyed within five seconds ends the profile, and nothing starts the daemon again.

*App.* A refresh, or the revert of another operation's failed save, takes the screen over an edit that
still waits for its own save; that edit's job then saves what the screen shows and reports success under
its label. `Settled` excludes behaviours in which this happened (`crossed`). After a save,
`persistedConfig` becomes what the screen shows when the answer comes, not what was written.
`setGames` and `setProtectList` write the whole configuration outside `applyLock`, unsaved edits of
other tiers included. If a job's save fails after another one carried its slice to the file, its tier's
script never runs on it. After a bootstrap that could not read the file (not modelled) the first edit
saves the defaults over it.

## 4. What is proved

Eight modules of proofs, checked by TLAPS for every value of the constants that satisfies the named
assumptions. Every invariant and action property that a passing run checks is stated by a theorem; where
the theorem has hypotheses on the faults, they are said here.

**ActuatorProofs.** `FloorBelowCeiling`: a raised floor is strictly below the ceiling whenever the
ceiling leaves two reachable entries. The lemma `ReachIsPrefix` shows that the
entries under a ceiling are the first ones of the table, so an index among them is an index of it.

From `ConstantsAssumption` (tables are strictly increasing, floors exist, absent
files show 0) and for every set of faults: `TypeCorrect`, `AlwaysRecoverable`, `StoppedReleased`,
`FloorsBelowCeilings`. None of the invariants is inductive alone. `Recoverable` speaks of the file,
but the file is rewritten from the daemon's map, so the map must be right as well (`Remembered`); the
map is ahead of the node during a rewrite, so the order record, save, write must be known
(`Recorded`); the loader drops entries that are not positive, so no such entry may arise
(`Positive`); a restore that succeeded must have visited everything (`Visiting`), and the report of
it must be known to be such a restore's (`Handed`). Their conjunction with `TypeOK` is `IInv`; one
lemma per conjunct shows that every step keeps it.

Two more under hypotheses on the faults. `ForeignKept` (no failed save, nobody in the fsync gap): a step
that replaces another writer's value has it on disk as the original to give back. The file must then be
the journal but for the entry being recorded (`Filed`), must own nothing else outside a restore
(`Kept`), must not take a stranger's value for the engine's (`Distinct`), and what is about to be replaced
must be what was recorded (`Guarded`). `NothingLeftBehind` (no kill, no refused or altered write, no failed
save; other writers may move any node at any time): a daemon that reported "stopped_restored" left no
value of its own, settled or not. Every entry's original is the system's (`Based`), and an entry can be
unconfirmed only while its own rewrite is under way (`Unconfirmed`). The hypotheses are needed: each
fault they exclude, beside other writers, gives TLC a counterexample. With a failed save, for instance,
the file may keep an older original, which a later restart gives back over the stranger's value.
`FloorsRecorded`, from the same invariant (`NInv`), states `NoFloorLeaks` under the same hypotheses: what
the comment says of the journal is true of a daemon that is not killed and whose writes and saves succeed.
Each of the four faults alone lets a floor leak; `actuator_sigkill` shows it for a kill.

**ControlLoopProofs.** From `LoopAssumption` and `RefusalsAssumption`: `TypeCorrect` and, under all
faults, `BackupsUnbroken` (from `Clean`: what stirred an armed pair is never a sleep or a trim, and a
foreign move only while the moved axis is still there for `verified()` to see). With restores that do not fail (`NeverStuck`) and a
configuration that keeps the open axes (`OneSurface`): `BeliefHeld` and `RaisesRested`, from
`Knowledge` (belief over the baseline equals hardware; an axis believed raised is available; a baseline
is believed away only under such an axis; time since the last change bounds the hardware's rest). That holds
through refused and altered writes too, since what they leave is the baseline. Under the same
hypotheses, `PolicyUndisturbed` from `Effect` (a chosen pair's action is in effect, or it was the empty one
and outlived a refusal), and `ArmedUnderEffect`, which states `ArmedInEffect`: a pair
no window has closed over yet was armed under the believed action (`Noted`), and belief is the hardware's
(`Knowledge`). The run `loop_toggle` and its variant with stuck restores (section 3) show that the
hypotheses are needed.

**ApplyLockProofs.** For any scripts, attempts and faults: `TypeCorrect` (with `TriesLeft`: a script that
may yet sleep has tries left) and `NoLockLeft`. That no lock outlives its processes is not inductive:
who looks after the directory must be known at every step. A record names a process that still holds or
removes (`RecordHeld`), a temporary file one that is about to rename it (`TempPending`), and an empty
directory has somebody who will publish into it or remove it (`EmptyTended`).

**BootProofs.** `TypeCorrect`, `CountsHonest`, `SuccessIsEarned`, `NoLockLeft`. The count is read and
written in two steps, so the invariant counts the runs between them: the file plus those that have
failed and not counted yet never exceed the failed sequences (`Honest`). Success needs that every run
past the sequence, and the marker itself, is evidence of a complete one (`Earned`); the lock needs the
argument of `ApplyLock` again, as long as nobody was killed (`Tended`).

**BrainStoreProofs.** `TypeCorrect` (the flock has one holder and dies with it), `NothingForgotten`,
`AsideStays` and `StoreImplementsArchive`, for any number of lessons, updates, kills, adoptions and names. A save
replaces a file, so what that file held must be in the mind of who saves it: a daemon past its load
has taken up `adaptive_model` unless it warned (`ModelRemembered`), an adoption that saves has moved it
away (`ModelMoved`), and what it saves is in a file already (`AdopteeKept`). `UnusedNameIsNew` finds,
by counting, a free name among the first |files| + 1; so a rename never covers a file (`AsideStays`: no
step changes or removes a brain set aside before). The refinement follows step by step. `AdoptionStays`
and `ResetsSeen` stand on what a directory without `adaptive_model` means (`NeverGone`: unless somebody
moved it, there is no file at all), on adopted brains being sound (`AdoptedSound`) and on no file and
no daemon saving an empty brain (`NoneEmpty`).

**AppProofs.** `StopsRelease`: for any number of scripts, daemons and kills no profile writes while a
node holds a value of a daemon published before it began. It rests on who has the flock
(`FlockHeld`), on the record naming whoever may hold boosts (`RecordNames`), on the journal existing as
long as anything may be raised (`JournalThere`), and on what each stage of a script has established of
the daemons before it (`BeforeOver`).

`AppSettled`: for any axes, tiers and values, any edits and any failures. The properties speak of an app
at rest, so the invariant says who is responsible until then: every slice is in the hands of one caller
at most (`OneCall`), but for lists, of whose saves the latest counts (`LastList`); what nobody holds is on file, and what a job holds is in its own write and in every
write queued after it (`Carried`, since every write is of the whole file); the screen is what was
chosen but for a list about to be taken back (`Chosen`); and as long as no call failed a tier nobody works
on runs what is on file (`Applied`).

**MeasurementProofs.** *Window*, for any apps, polls and sleeps: `FramesReported` and `QueueFollows`; for polls of at most
18 s: `PairsFit`. The tracker is emptied whenever app or layer changes, so what it holds belongs to
the app named (`FramesOwned`). That the list lags two windows at most is arithmetic on ages
(`ListLags`): the foreground can change without a new list at the end of a window only, and a window adds
its floor of 4.5 s to the age of the list, so after two of them it is due. That a pair fits the gate needs
that an open window is below the ceiling (`StillOpen`).

*Cadence.* `ChangesEarned`: the counters are counts of windows in the log, those since the last window
at the cadence (`CountsLogged`), also when a cap replaced the cadence and left them standing.

*Runqueue.* `WaitsOnce` and `StraysOnce`, for any threads, processors and attaches. A wakeup on record has
been taken by nobody (`OnRecord`); a delay being added is one processor's and in no slot ahead of it
(`Accounted`); with both programs everywhere what is on record is the thread's last wakeup (`RecordLast`).
The map is what the daemon believes it is but for what `watch()` is about to change (`Watching`), so a
thread that left the list has one wakeup on record at most (`Strays`).

*Generations.* `NewestStay`, for any number of generations and kills. Below any file of the chain there
are no more places without rows than there were kills, and one more for a file being moved or begun
(`FewGaps`): a count of a finite set that a rename moves by one.

**LearningProofs.** *Search.* `AnswersHold`: for any axes, views, depth and simulations. The children of the
root and what it still has to expand are moves the root offers (`Rooted`); the lemmas show that what
`candidates()` offers is unchanged by `safe()` in the measured state (`safe()` is idempotent) and that
`moveIndex()` gives each offered action its own move, since none is offered twice.

*Learning.* `ScoresWhole`: the returns in progress are the last pairs of the chain, oldest first, each with
the pairs it has (`ScoreInv`), so what is due is in front and the loop that stops at the first return
not due misses none. `BrainCounts`: an invariant of one brain, in memory and on disk alike (`Sound`),
kept by a start that folds policies because folding never adds a cell.

*ResidualModel.* `EvidenceIsMeasured` and `RestartKeepsEvidence`. A table holds at most what was measured on
each key (`Held`, `ModelInv`): a record adds one observation where a window is added, and a fold adds up
counts over a subset of the keys over which it adds up windows, so the sum is no greater
(`SumMonotone`). The keys that meet in a cell of the surface started under are the retired ones offered for
it and its own (`FoldedCell`); under any other identity a cell is its own pool and is as saved
(`FoldedElsewhere`). A full table has a weakest cell, so an eviction makes room (`WeakestThere`).

*Induction.* The library's induction theorems take a predicate, which none of the provers here can
instantiate. `SubsetInduction` and `NumberInduction` take a set instead and come from the library's
well-founded orderings; from them the folds of the community modules are shown to exist (`FoldExists`),
and sums to be numbers, not to depend on the order and to be monotone. Recursion over sequences needed
no induction: the models state the loop's result (`DueInFront`, `Offered`).

**Only model-checked:** liveness (`StopTerminates`, `HeatReleases`, `NeverLatched`, `AttemptsEnd`,
`WreckTaken`, `LaunchSettles`, `LessonsReachDisk`), which the prover does not do. Of the four properties that
the code violates, two are proved under the hypotheses that exclude the violation (`FloorsRecorded`,
`ArmedUnderEffect`); `MutualExclusion` and `FailuresCounted` have their counterexample only.

## 5. Not modelled, and what is left

* **Floating point.** What critic, prior, residuals, `Budget` and PUCT compute; the rate a stream of
  intervals proposes. Their tables and counters are modelled, their values are choices. That a
  non-finite input drops the pending returns (`core.cpp:367`) is therefore left out.
* **Input.** What `Sampler` parses from /proc, /sys and dumpsys, and the de-duplication of present timestamps.
* **Old formats.** The readers of brain versions 2 to 4 and `warmStart`.
* **Straight-line scripts.** What the tiers write, `post-fs-data.sh` captures and the uninstaller
  replays: sequences of idempotent writes under a lock that is modelled.
* **Guards.** `thermal_guard.sh` and `keepalive.sh` follow the PID-record protocol of `Launch` without
  its flock: liveness check, removal and publication of the record are separate
  (`thermal_guard.sh:9-11`), so two started together may both run. Nothing else keeps them apart, and no
  property to the contrary would hold.
* **Presentation, reports, installer, diagnostics.** No state of their own.

Left for later: an abstract lease (held or handed back, per node) that `Actuator` implements and of which
the loop's `held` and the `raised` of `Launch` are clients; the ledgers of the uninstaller.
