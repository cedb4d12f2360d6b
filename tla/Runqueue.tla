------------------------------- MODULE Runqueue -------------------------------
(***************************************************************************)
(* The run-queue probe: RunqueueProbe::start and shutdown, the watch list, *)
(* the two tracepoint programs on every CPU, and sample(), which drains    *)
(* its slots one after the other while the programs keep adding to them.   *)
(* A delay is known by the wakeup it started from. Of the four slots only  *)
(* the two the mean is made of are kept.                                   *)
(***************************************************************************)
EXTENDS Naturals, FiniteSets

CONSTANTS
    Threads,    \* thread ids
    Cpus,       \* processors the programs attach to
    Attachable, \* sets of processors an attach may succeed on
    Lists,      \* what threadsOf() may return
    MaxWakeups  \* bound: sched_wakeup events

ASSUME RunqueueBounds ==
    /\ MaxWakeups \in Nat /\ Cpus # {}
    /\ Attachable \subseteq SUBSET Cpus /\ Lists \subseteq SUBSET Threads

Programs == {"wakeup", "switch"}
Slots == {"total", "count"}
Succ == [total |-> "count", count |-> "none"]
None == 0

VARIABLES
    probe,     \* the loader's descriptors: maps created, programs, links; its stage
    watched,   \* m54_watched
    watching,  \* RunqueueProbe::watching
    waking,    \* m54_waking: thread -> wakeup, None when absent
    onCpu,     \* cpu -> the delay m54_on_switch is accounting there, and where it is
    slots,     \* m54_delay: slot -> the delays in it
    daemon,    \* what the daemon is doing: idle, in sample() or in watch()
    wakeups,   \* wakeups so far
    truth,     \* ghost: thread -> its last wakeup, and switched in since
    tally      \* ghost: delays taken of a wakeup, and of a thread since it was dropped,
               \* whether each ended at the first switch, and what sample() has read

runqueueVars ==
    <<probe, watched, watching, waking, onCpu, slots, daemon, wakeups, truth, tally>>

Resting == [at |-> "idle", slot |-> "none", tids |-> {}, left |-> {}]
Off == [stage |-> "off", maps |-> 0, programs |-> {}, links |-> {}]
Nothing == [cpu \in Cpus |-> [at |-> "none", wake |-> None]]

RunqueueInit ==
    /\ probe = [Off EXCEPT !.stage = "maps"]
    /\ watched = {} /\ watching = {}
    /\ waking = [t \in Threads |-> None]
    /\ onCpu = Nothing
    /\ slots = [s \in Slots |-> {}]
    /\ daemon = Resting
    /\ wakeups = 0
    /\ truth = [t \in Threads |-> [wake |-> None, ran |-> TRUE]]
    /\ tally = [taken |-> [w \in 1..MaxWakeups |-> 0], drained |-> [s \in Slots |-> {}],
                stray |-> [t \in Threads |-> 0], first |-> TRUE]

Kernel == <<watched, waking, onCpu, slots>>
Ghosts == <<wakeups, truth, tally>>

-----------------------------------------------------------------------------
(* start(): three maps, then each program loaded and attached CPU by CPU. Any
   refusal but an attach that fails on one CPU gives everything back. *)

CreateMap ==
    /\ probe.stage = "maps"
    /\ probe' = [probe EXCEPT !.maps = @ + 1, !.stage = IF probe.maps = 2 THEN "load" ELSE @]
    /\ UNCHANGED <<Kernel, watching, daemon, Ghosts>>

LoadProgram(p) ==
    /\ probe.stage = "load" /\ p \notin probe.programs
    /\ \E cpus \in Attachable :
          probe' = [probe EXCEPT !.programs = @ \cup {p}, !.links = @ \cup ({p} \X cpus)]
    /\ UNCHANGED <<Kernel, watching, daemon, Ghosts>>

\* shutdown()
Released(p) == Off

\* The kernel refuses a map or a program, or too little is loaded at the end.
Refuse ==
    /\ probe.stage \in {"maps", "load"}
    /\ ~(probe.programs = Programs /\ probe.links # {})
    /\ probe' = Released(probe)
    /\ UNCHANGED <<Kernel, watching, daemon, Ghosts>>

Started ==
    /\ probe.stage = "load" /\ probe.programs = Programs /\ probe.links # {}
    /\ probe' = [probe EXCEPT !.stage = "on"]
    /\ UNCHANGED <<Kernel, watching, daemon, Ghosts>>

Attached(p, cpu) == <<p, cpu>> \in probe.links

-----------------------------------------------------------------------------
(* The kernel. Wakeups and switches of one thread are serialised by its run
   queue; those of two threads run on two CPUs at once. *)

InFlight(t) == \E cpu \in Cpus : onCpu[cpu].at # "none" /\ onCpu[cpu].wake = truth[t].wake

\* m54_on_wakeup on the CPU that wakes the thread, which has run since its last.
Wakeup(t, cpu) ==
    /\ wakeups < MaxWakeups /\ truth[t].ran /\ ~InFlight(t)
    /\ wakeups' = wakeups + 1
    /\ truth' = [truth EXCEPT ![t] = [wake |-> wakeups + 1, ran |-> FALSE]]
    /\ waking' = IF Attached("wakeup", cpu) /\ t \in watched
                 THEN [waking EXCEPT ![t] = wakeups + 1] ELSE waking
    /\ UNCHANGED <<probe, watched, watching, onCpu, slots, daemon, tally>>

\* MUTANT of Taken: the record is read and left.
TakenLeft(t) == waking

\* The record is deleted as it is read.
Taken(t) == [waking EXCEPT ![t] = None]

\* m54_on_switch, to the point where the delay is in hand. One over a second is
\* a wakeup from before a suspend, and is dropped.
Switch(t, cpu) ==
    /\ ~InFlight(t) /\ onCpu[cpu].at = "none" /\ truth[t].wake # None
    /\ truth' = [truth EXCEPT ![t].ran = TRUE]
    /\ IF Attached("switch", cpu) /\ waking[t] # None
       THEN /\ waking' = Taken(t)
            /\ tally' = [tally EXCEPT
                   !.taken[waking[t]] = @ + 1,
                   !.stray[t] = IF t \in watching THEN @ ELSE @ + 1,
                   !.first = @ /\ waking[t] = truth[t].wake /\ ~truth[t].ran]
            /\ \/ onCpu' = [onCpu EXCEPT ![cpu] = [at |-> "total", wake |-> waking[t]]]
               \/ UNCHANGED onCpu
       ELSE UNCHANGED <<waking, onCpu, tally>>
    /\ UNCHANGED <<probe, watched, watching, slots, daemon, wakeups>>

\* The rest of the program: the slots one after the other.
Account(cpu) ==
    /\ onCpu[cpu].at # "none"
    /\ slots' = [slots EXCEPT ![onCpu[cpu].at] = @ \cup {onCpu[cpu].wake}]
    /\ onCpu' = [onCpu EXCEPT ![cpu] = IF Succ[onCpu[cpu].at] = "none" THEN Nothing[cpu]
                                      ELSE [onCpu[cpu] EXCEPT !.at = Succ[@]]]
    /\ UNCHANGED <<probe, watched, watching, waking, daemon, wakeups, truth, tally>>

-----------------------------------------------------------------------------
(* The daemon *)

\* sample(): look a slot up, ...
SampleLook ==
    /\ probe.stage = "on"
    /\ \E s \in Slots :
          /\ \/ daemon.at = "idle" /\ s = "total"
             \/ daemon.at = "look" /\ s = daemon.slot
          /\ daemon' = [Resting EXCEPT !.at = "clear", !.slot = s]
          /\ tally' = [tally EXCEPT !.drained[s] = @ \cup slots[s]]
    /\ UNCHANGED <<Kernel, probe, watching, wakeups, truth>>

Cleared(s) == [slots EXCEPT ![s] = {}]

\* ... clear it, and go on to the next: a delay added in between is lost.
SampleClear ==
    /\ daemon.at = "clear"
    /\ slots' = Cleared(daemon.slot)
    /\ daemon' = IF Succ[daemon.slot] = "none" THEN Resting
                 ELSE [Resting EXCEPT !.at = "look", !.slot = Succ[daemon.slot]]
    /\ UNCHANGED <<probe, watched, watching, waking, onCpu, Ghosts>>

\* watch(): the threads of the foreground app, whatever /proc listed of them.
WatchBegin ==
    /\ probe.stage = "on" /\ daemon.at = "idle"
    /\ \E tids \in Lists :
          daemon' = [Resting EXCEPT !.at = "watch", !.tids = tids, !.left = watching \ tids]
    /\ UNCHANGED <<Kernel, probe, watching, Ghosts>>

\* MUTANT of Unwatched: the thread that left the list stays in the map.
UnwatchedNot(t) == watched

Unwatched(t) == watched \ {t}

WatchDrop(t) ==
    /\ daemon.at = "watch" /\ t \in daemon.left
    /\ watched' = Unwatched(t)
    /\ daemon' = [daemon EXCEPT !.left = @ \ {t}]
    /\ UNCHANGED <<probe, watching, waking, onCpu, slots, Ghosts>>

WatchPut(t) ==
    /\ daemon.at = "watch" /\ daemon.left = {} /\ t \in daemon.tids \ watched
    /\ watched' = watched \cup {t}
    /\ UNCHANGED <<probe, watching, waking, onCpu, slots, daemon, Ghosts>>

WatchEnd ==
    /\ daemon.at = "watch" /\ daemon.left = {} /\ daemon.tids \subseteq watched
    /\ watching' = daemon.tids /\ daemon' = Resting
    /\ tally' = [tally EXCEPT !.stray = [t \in Threads |-> 0]]
    /\ UNCHANGED <<Kernel, probe, wakeups, truth>>

RunqueueNext ==
    \/ CreateMap \/ Refuse \/ Started
    \/ \E p \in Programs : LoadProgram(p)
    \/ \E t \in Threads : \E cpu \in Cpus : Wakeup(t, cpu) \/ Switch(t, cpu)
    \/ \E cpu \in Cpus : Account(cpu)
    \/ SampleLook \/ SampleClear
    \/ WatchBegin \/ WatchEnd
    \/ \E t \in Threads : WatchDrop(t) \/ WatchPut(t)

RunqueueSpec == RunqueueInit /\ [][RunqueueNext]_runqueueVars

-----------------------------------------------------------------------------
(* Properties *)

\* No wait is counted twice, neither by the two programs nor by the drain of
\* two windows, however the slots are drained; where both programs are on every
\* CPU, what is counted is the wait from a thread's last wakeup to its first
\* turn; and a probe that could not start left nothing loaded behind it.
WaitsCountedOnce ==
    /\ \A w \in 1..MaxWakeups : tally.taken[w] <= 1
    /\ probe.links = Programs \X Cpus => tally.first
    /\ \A s \in Slots :
          slots[s] \cap tally.drained[s] # {} => daemon.at = "clear" /\ daemon.slot = s
    /\ probe.stage = "off" => probe = Off

\* A thread of the app that left the foreground adds one more delay at most to
\* the windows of the app that took its place.
StrayOnce ==
    daemon.at # "watch" => \A t \in Threads \ watching : tally.stray[t] <= 1

=============================================================================
