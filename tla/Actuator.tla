------------------------------ MODULE Actuator ------------------------------
(***************************************************************************)
(* The Actuator of m54-adaptive (module/engine/platform.cpp): the only part *)
(* of the daemon that writes kernel tuning nodes.  It raises frequency      *)
(* floors, keeps a journal of what each node held before it was touched,    *)
(* and hands every node back, also after it was killed.                     *)
(*                                                                         *)
(* One daemon at a time (adaptive.lock) runs beside the kernel and other    *)
(* writers of the same nodes (Samsung QoS, thermal, shell scripts).  A call *)
(* is cut where something else can happen in between: the fsync of the      *)
(* journal between the ownership check and the write, the write and its     *)
(* read-back, two nodes of one apply, two entries of one restore.           *)
(* Actuator calls appear in the order main() makes them.                    *)
(***************************************************************************)
EXTENDS FloorTarget

CONSTANTS
    NumNodes,   \* tuning nodes found at start
    Axis,       \* node -> 0 CPU, 1 GPU, 2 memory bus, 3 PELT
    Table,      \* node -> frequency table (<<>> for PELT)
    Settings,   \* path -> values the kernel may show there
    Tier,       \* "balanced" (production) or "powersave"
    Faults,     \* what the environment may do, see Fault
    MaxTries    \* bound on the exit loop's restore attempts (20 in main)

Node == 1 .. NumNodes
Floor(n) == <<n, "floor">>
Ceil(n) == <<n, "ceil">>      \* shows 0 when the node has no ceiling file
Path == Node \X {"floor", "ceil"}
Action == [0 .. 3 -> Level]
Released == [a \in 0 .. 3 |-> 0]
NoAxis == 4                   \* the code's -1

\* kill: SIGKILL between any two steps.  reboot: a kernel boot.  reject: the
\* kernel refuses a write.  clamp: it stores another value.  save: the journal
\* cannot be written.  busy: .apply_lock is held.  foreign: other writers;
\* gap: they also write between the ownership check and the write it guards.
Fault == {"kill", "reboot", "reject", "clamp", "save", "busy", "foreign", "gap"}

ASSUME ConstantsAssumption ==
    /\ NumNodes \in Nat
    /\ Axis \in [Node -> 0 .. 3]
    /\ DOMAIN Table = Node
    /\ \A n \in Node : IsTable(Table[n])
    /\ Settings \in [Path -> SUBSET Nat]
    /\ \A n \in Node : 0 \notin Settings[Floor(n)]
    /\ \A p \in Path : 0 \in Settings[p] => Settings[p] = {0}
    /\ Faults \subseteq Fault
    /\ MaxTries \in Nat \ {0}

VARIABLES
    hw,         \* path -> value the kernel shows
    journal,    \* path -> entry, the daemon's std::map; NoEntry if not owned
    disk,       \* path -> entry, the file adaptive_journal
    diskLive,   \* the file's boot id is the running boot's
    original,   \* path -> Node::original and Node::maxOriginal
    pc,         \* what the daemon is doing
    node,       \* apply(): the node being planned
    writes,     \* apply(): <<path, value>> pairs still to write for that node
    action,     \* apply(): the requested levels
    allowed,    \* apply(): limits.allowed
    failureAxis,\* Actuator::failureAxis
    todo,       \* restore(): entries not visited yet
    ok,         \* restore(): its local of that name
    why,        \* who called restore()
    tries,      \* exit loop counter
    stopping,   \* SIGTERM received
    status,     \* how the last run ended
    author,     \* ghost: path -> who set the value it shows; "either" for another
                \* writer's value that an entry names as the engine's last
    base,       \* ghost: path -> last value the system set before the engine
    unsettled   \* ghost: paths whose journal entry may not match the node

envVars == <<hw, author, base, unsettled>>
diskVars == <<disk, diskLive>>
applyVars == <<node, writes, action, allowed, failureAxis>>
restoreVars == <<todo, ok, why, tries>>
mainVars == <<stopping, status>>
vars == <<envVars, diskVars, applyVars, restoreVars, mainVars, journal, original, pc>>

Entry == [original : Nat, last : Nat]
NoEntry == [original |-> 0, last |-> 0]     \* a written value is never 0
Empty == [p \in Path |-> NoEntry]
Owns(j, p) == j[p] # NoEntry
Owned(j) == {p \in Path : Owns(j, p)}

\* Actuator::verified(): every owned node still shows what was written last.
Verified == \A p \in Owned(journal) : hw[p] = journal[p].last
-----------------------------------------------------------------------------
Init ==
    /\ hw \in [Path -> UNION {Settings[p] : p \in Path}]
    /\ \A p \in Path : hw[p] \in Settings[p]
    /\ journal = Empty /\ disk = Empty /\ diskLive = FALSE
    /\ original = [p \in Path |-> 0]
    /\ pc = "down" /\ node = 1 /\ writes = <<>>
    /\ action = Released /\ allowed = {} /\ failureAxis = NoAxis
    /\ todo = {} /\ ok = TRUE /\ why = "startup" /\ tries = 0
    /\ stopping = FALSE /\ status = "none"
    /\ author = [p \in Path |-> "system"] /\ base = hw /\ unsettled = {}

\* restore() begins: the loop visits every journal entry.
BeginRestore(caller) ==
    /\ pc' = "restore" /\ todo' = Owned(journal') /\ ok' = TRUE /\ why' = caller

\* The constructor reads the live values and recovers a journal of this boot;
\* main() restores it at once, under ApplyLock, before anything else.
Start ==
    /\ pc = "down"
    /\ original' = hw
    /\ journal' = [p \in Path |->
                     IF diskLive /\ disk[p].original > 0 /\ disk[p].last > 0
                     THEN disk[p] ELSE NoEntry]
    /\ BeginRestore("startup")
    /\ stopping' = FALSE /\ status' = "running" /\ tries' = 0
    /\ UNCHANGED <<envVars, diskVars, applyVars>>

\* The loop head: a window closes and main() reads verified().  An unverified
\* node always leads to restore(); otherwise the window may restore (context
\* change, no permission to control), hold, or apply an action.
Window ==
    /\ pc = "idle" /\ ~stopping
    /\ pc' = IF Verified THEN "window" ELSE "release"
    /\ UNCHANGED <<envVars, diskVars, applyVars, restoreVars, mainVars, journal, original>>

WindowHold ==
    /\ pc = "window"
    /\ pc' = "idle"
    /\ UNCHANGED <<envVars, diskVars, applyVars, restoreVars, mainVars, journal, original>>

WindowRelease ==
    /\ pc \in {"window", "release"}
    /\ journal' = journal
    /\ BeginRestore("window")
    /\ UNCHANGED <<envVars, diskVars, applyVars, mainVars, tries, original>>

\* .apply_lock is busy: main() goes on to the next window with nothing changed.
\* (From "window" a busy lock has the effect of WindowHold.)
WindowBusy ==
    /\ pc = "release" /\ "busy" \in Faults
    /\ pc' = "idle"
    /\ UNCHANGED <<envVars, diskVars, applyVars, restoreVars, mainVars, journal, original>>

\* Which paths the head of apply() re-reads as baselines: nothing of a node
\* whose floor is owned, and no owned ceiling.
Refreshed(p) == ~Owns(journal, Floor(p[1])) /\ ~Owns(journal, p)

\* constrain(): the axes that have something to choose from.
Capable == {Axis[n] : n \in {m \in Node :
                IF Axis[m] = 3 THEN original[Floor(m)] < 4 ELSE Len(Table[m]) > 1}}

\* What safe() lets through: nothing on a closed axis, PELT at most 2.
Offered(open) ==
    {a \in Action : a[3] <= 2 /\ \A x \in 0 .. 3 : x \notin open => a[x] = 0}

\* apply(next, limits): the baselines of nodes not owned follow the kernel.
WindowApply ==
    /\ pc = "window"
    /\ allowed' \in SUBSET Capable
    /\ action' \in Offered(allowed')
    /\ original' = [p \in Path |->
                      IF Refreshed(p) /\ hw[p] > 0 THEN hw[p] ELSE original[p]]
    /\ pc' = "plan" /\ node' = 1 /\ writes' = <<>> /\ failureAxis' = NoAxis
    /\ UNCHANGED <<envVars, diskVars, restoreVars, mainVars, journal>>
-----------------------------------------------------------------------------
(* One node of apply()'s loop.                                             *)

Powersaved(n) == Axis[n] = 1 /\ Tier = "powersave"

Desired(n) ==
    LET level == action[Axis[n]]
        floor == original[Floor(n)]
        cap == hw[Ceil(n)]
        ceiling == CeilingFor(Table[n], original[Ceil(n)], level)
    IN  IF Axis[n] = 3 THEN <<<<Floor(n), PeltFor(floor, level)>>>>
        ELSE IF Powersaved(n) /\ Len(Table[n]) >= 3
        THEN <<<<Floor(n), Lower(floor, ceiling)>>, <<Ceil(n), ceiling>>>>
        ELSE IF level = 0 /\ ~Owns(journal, Floor(n)) THEN <<>>
        ELSE <<<<Floor(n), FloorFor(Table[n], cap, floor, level,
                                    IF Powersaved(n) THEN 0 ELSE level)>>>>

Skipped(n) ==
    \/ Axis[n] \notin allowed
    \/ Axis[n] # 3 /\ Table[n] = <<>>
    \/ Axis[n] = 3 /\ action[3] = 0 /\ ~Owns(journal, Floor(n))

\* No table entry is reachable under the ceiling (or there is no ceiling).
Unreachable(n) ==
    Axis[n] # 3 /\ Table[n] # <<>> /\ Reach(Table[n], hw[Ceil(n)]) = 0

\* apply() returns; its parameters and loop variables are gone.
Return == node' = 1 /\ writes' = <<>> /\ action' = Released /\ allowed' = {}

\* apply() returned false: main() backs failureAxis off and releases everything.
Fail == BeginRestore("reject") /\ Return /\ UNCHANGED tries

\* The node loses no step to an axis not handed to us; failureAxis names the
\* last axis the loop entered.
PlanSkip ==
    /\ pc = "plan" /\ node \in Node /\ Skipped(node)
    /\ failureAxis' = IF Axis[node] \in allowed THEN Axis[node] ELSE failureAxis
    /\ node' = node + 1
    /\ UNCHANGED <<envVars, diskVars, restoreVars, mainVars, journal, original, pc,
                   writes, action, allowed>>

PlanUnreachable ==
    /\ pc = "plan" /\ node \in Node /\ ~Skipped(node) /\ Unreachable(node)
    /\ failureAxis' = Axis[node]
    /\ journal' = journal /\ Fail
    /\ UNCHANGED <<envVars, diskVars, mainVars, original>>

PlanNode ==
    /\ pc = "plan" /\ node \in Node /\ ~Skipped(node) /\ ~Unreachable(node)
    /\ failureAxis' = Axis[node]
    /\ writes' = Desired(node)
    /\ IF Desired(node) = <<>> THEN node' = node + 1 /\ pc' = pc
                               ELSE node' = node /\ pc' = "own"
    /\ UNCHANGED <<envVars, diskVars, restoreVars, mainVars, journal, original,
                   action, allowed>>

Target == writes[1][1]
Value == writes[1][2]

\* MUTANT of Written: the loop does not leave a node after its last write.
WrittenInPlace ==
    /\ writes' = Tail(writes) /\ node' = node /\ pc' = "own"
    /\ UNCHANGED <<action, allowed, failureAxis>>

\* writeOwned() returned true: the node's next write, or the next node.
Written ==
    /\ writes' = Tail(writes)
    /\ IF Len(writes) = 1 THEN node' = node + 1 /\ pc' = "plan"
                          ELSE node' = node /\ pc' = "own"
    /\ UNCHANGED <<action, allowed, failureAxis>>

\* The node already shows the value: nothing to own, nothing to write.
OwnMatch ==
    /\ pc = "own" /\ hw[Target] = Value
    /\ Written
    /\ UNCHANGED <<envVars, diskVars, restoreVars, mainVars, journal, original>>

\* An impossible value, or an owned node that somebody else moved.
OwnRefuse ==
    /\ pc = "own" /\ hw[Target] # Value
    /\ Value = 0 \/ (Owns(journal, Target) /\ hw[Target] # journal[Target].last)
    /\ journal' = journal /\ Fail
    /\ UNCHANGED <<envVars, diskVars, mainVars, original, failureAxis>>

\* MUTANT of OwnRecord: a rewrite takes the engine's own value for the original.
OwnRecordAfresh ==
    /\ pc = "own" /\ hw[Target] # Value /\ Value > 0
    /\ Owns(journal, Target) => hw[Target] = journal[Target].last
    /\ journal' = [journal EXCEPT ![Target] = [original |-> hw[Target], last |-> Value]]
    /\ unsettled' = IF Owns(journal, Target) THEN unsettled \cup {Target} ELSE unsettled
    /\ base' = IF Owns(journal, Target) \/ author[Target] = "engine" THEN base
               ELSE [base EXCEPT ![Target] = hw[Target]]
    /\ pc' = "save"
    /\ UNCHANGED <<hw, author, diskVars, applyVars, restoreVars, mainVars, original>>

\* The entry is made, or its `last` moved on, in memory.
OwnRecord ==
    /\ pc = "own" /\ hw[Target] # Value /\ Value > 0
    /\ Owns(journal, Target) => hw[Target] = journal[Target].last
    /\ journal' = [journal EXCEPT ![Target] =
                     [original |-> IF Owns(journal, Target) THEN @.original ELSE hw[Target],
                      last |-> Value]]
    /\ unsettled' = IF Owns(journal, Target) THEN unsettled \cup {Target} ELSE unsettled
    /\ base' = IF Owns(journal, Target) \/ author[Target] = "engine" THEN base
               ELSE [base EXCEPT ![Target] = hw[Target]]
    /\ pc' = "save"
    /\ UNCHANGED <<hw, author, diskVars, applyVars, restoreVars, mainVars, original>>

\* MUTANT of Save: the journal is not on disk before the node is written.
SaveDeferred ==
    /\ pc = "save" /\ pc' = "write"
    /\ UNCHANGED <<envVars, diskVars, applyVars, restoreVars, mainVars, journal, original>>

\* saveJournal(): atomicText replaces the file, or leaves it as it was.
Save ==
    /\ pc = "save"
    /\ disk' = journal /\ diskLive' = TRUE /\ pc' = "write"
    /\ UNCHANGED <<envVars, applyVars, restoreVars, mainVars, journal, original>>

SaveFails ==
    /\ pc = "save" /\ "save" \in Faults
    /\ journal' = journal /\ Fail
    /\ UNCHANGED <<envVars, diskVars, mainVars, original, failureAxis>>

\* writeText(): the kernel takes the value, stores another one, or refuses.
Write ==
    /\ pc = "write"
    /\ \E v \in {Value} \cup (IF "clamp" \in Faults THEN Settings[Target] ELSE {}) :
         /\ hw' = [hw EXCEPT ![Target] = v]
         /\ unsettled' = IF v = Value THEN unsettled ELSE unsettled \cup {Target}
    /\ author' = [author EXCEPT ![Target] = "engine"]
    /\ pc' = "readback"
    /\ UNCHANGED <<base, diskVars, applyVars, restoreVars, mainVars, journal, original>>

WriteRejected ==
    /\ pc = "write" /\ "reject" \in Faults
    /\ journal' = journal /\ Fail
    /\ UNCHANGED <<envVars, diskVars, mainVars, original, failureAxis>>

ReadBack ==
    /\ pc = "readback" /\ hw[Target] = Value
    /\ Written
    /\ unsettled' = IF journal[Target].original = base[Target]
                    THEN unsettled \ {Target} ELSE unsettled
    /\ UNCHANGED <<hw, author, base, diskVars, restoreVars, mainVars, journal, original>>

ReadBackFails ==
    /\ pc = "readback" /\ hw[Target] # Value
    /\ journal' = journal /\ Fail
    /\ UNCHANGED <<envVars, diskVars, mainVars, original, failureAxis>>

\* The closing verified() of apply().
ApplyDone ==
    /\ pc = "plan" /\ node = NumNodes + 1 /\ Verified
    /\ pc' = "idle" /\ Return /\ failureAxis' = NoAxis
    /\ UNCHANGED <<envVars, diskVars, restoreVars, mainVars, journal, original>>

ApplyUnverified ==
    /\ pc = "plan" /\ node = NumNodes + 1 /\ ~Verified
    /\ journal' = journal /\ Fail
    /\ UNCHANGED <<envVars, diskVars, mainVars, original, failureAxis>>
-----------------------------------------------------------------------------
(* restore(): one entry read, compared, written and read back.             *)

Erase(p) == journal' = [journal EXCEPT ![p] = NoEntry] /\ ok' = ok

\* The node still shows our value: the original is written back.
RestoreEntry ==
    /\ pc = "restore"
    /\ \E p \in todo :
         /\ hw[p] = journal[p].last
         /\ todo' = todo \ {p}
         /\ Erase(p)
         /\ hw' = [hw EXCEPT ![p] = journal[p].original]
         /\ author' = IF journal[p].original = base[p]
                      THEN [author EXCEPT ![p] = "system"] ELSE author
         /\ unsettled' = IF journal[p].original = base[p] THEN unsettled \ {p} ELSE unsettled
    /\ UNCHANGED <<base, diskVars, applyVars, mainVars, original, pc, why, tries>>

\* MUTANT of RestoreEntryFails: a refused restore is not reported.
RestoreEntryIgnored ==
    /\ pc = "restore" /\ "reject" \in Faults
    /\ \E p \in todo : hw[p] = journal[p].last /\ todo' = todo \ {p}
    /\ UNCHANGED <<envVars, ok, journal, diskVars, applyVars, mainVars, original, pc, why, tries>>

\* The write is refused or the node shows something else: the entry stays.
RestoreEntryFails ==
    /\ pc = "restore" /\ Faults \cap {"reject", "clamp"} # {}
    /\ \E p \in todo :
         /\ hw[p] = journal[p].last
         /\ todo' = todo \ {p} /\ ok' = FALSE /\ journal' = journal
         /\ \/ "reject" \in Faults /\ UNCHANGED envVars
            \/ /\ "clamp" \in Faults
               /\ \E v \in Settings[p] \ {journal[p].original} :
                    hw' = [hw EXCEPT ![p] = v]
               /\ author' = [author EXCEPT ![p] = "engine"]
               /\ unsettled' = unsettled \cup {p}
               /\ UNCHANGED base
    /\ UNCHANGED <<diskVars, applyVars, mainVars, original, pc, why, tries>>

\* MUTANT of RestoreForeign: the original is written whoever moved the node.
RestoreAnyway ==
    /\ pc = "restore"
    /\ \E p \in todo :
         /\ hw[p] # journal[p].last /\ todo' = todo \ {p} /\ Erase(p)
         /\ hw' = [hw EXCEPT ![p] = journal[p].original]
    /\ UNCHANGED <<author, base, unsettled, diskVars, applyVars, mainVars, original, pc, why, tries>>

\* Somebody else moved the node: the entry is dropped, the value left alone.
RestoreForeign ==
    /\ pc = "restore"
    /\ \E p \in todo : hw[p] # journal[p].last /\ todo' = todo \ {p} /\ Erase(p)
    /\ UNCHANGED <<envVars, diskVars, applyVars, mainVars, original, pc, why, tries>>

\* MUTANT of Returned: the exit loop does not count its attempts.
ReturnedUncounted(good) ==
    /\ UNCHANGED tries
    /\ CASE why = "startup" ->
              /\ pc' = IF good THEN "idle" ELSE "ended"
              /\ status' = IF good THEN status ELSE "restore_pending"
         [] why \in {"window", "reject"} -> pc' = "idle" /\ UNCHANGED status
         [] why = "exit" ->
              /\ pc' = IF good THEN "ended" ELSE "exit"
              /\ status' = IF good THEN "stopped_restored" ELSE status

\* restore() returned `good` (or the exit loop found the lock busy).
Returned(good) ==
    CASE why = "startup" ->                     \* the main loop, or exit code 4
           /\ pc' = IF good THEN "idle" ELSE "ended"
           /\ status' = IF good THEN status ELSE "restore_pending"
           /\ UNCHANGED tries
      [] why \in {"window", "reject"} ->        \* a later window tries again
           pc' = "idle" /\ UNCHANGED <<status, tries>>
      [] why = "exit" ->                        \* until restored, or MaxTries
           /\ tries' = tries + 1
           /\ pc' = IF good \/ tries' = MaxTries THEN "ended" ELSE "exit"
           /\ status' = IF good THEN "stopped_restored"
                        ELSE IF tries' = MaxTries THEN "restore_pending" ELSE status

\* The baselines of what is no longer owned are read again, the journal saved.
RestoreDone(saved) ==
    /\ pc = "restore" /\ todo = {}
    /\ original' = [p \in Path |-> IF Owns(journal, p) THEN original[p] ELSE hw[p]]
    /\ Returned(saved /\ ok)
    /\ ok' = TRUE /\ why' = IF pc' = "exit" THEN why ELSE "startup"
    /\ UNCHANGED <<envVars, applyVars, journal, todo, stopping>>

RestoreSaved == RestoreDone(TRUE) /\ disk' = journal /\ diskLive' = TRUE
RestoreSaveFails == "save" \in Faults /\ RestoreDone(FALSE) /\ UNCHANGED diskVars
-----------------------------------------------------------------------------
\* SIGTERM; the loop notices at its head and restores up to MaxTries times.
Stop ==
    /\ pc \notin {"down", "ended"} /\ ~stopping
    /\ stopping' = TRUE
    /\ UNCHANGED <<envVars, diskVars, applyVars, restoreVars, journal, original, pc, status>>

ExitLoop ==
    /\ pc = "idle" /\ stopping
    /\ pc' = "exit" /\ tries' = 0 /\ why' = "exit"
    /\ UNCHANGED <<envVars, diskVars, applyVars, mainVars, journal, original, todo, ok>>

ExitRestore ==
    /\ pc = "exit"
    /\ journal' = journal
    /\ BeginRestore("exit")
    /\ UNCHANGED <<envVars, diskVars, applyVars, mainVars, tries, original>>

ExitBusy ==
    /\ pc = "exit" /\ "busy" \in Faults
    /\ Returned(FALSE)
    /\ UNCHANGED <<envVars, diskVars, applyVars, journal, original, todo, ok, why, stopping>>

\* What a process loses when it dies; the kernel and the file keep theirs.
Forget ==
    /\ pc' = "down" /\ journal' = Empty /\ original' = [p \in Path |-> 0]
    /\ node' = 1 /\ writes' = <<>> /\ action' = Released /\ allowed' = {}
    /\ failureAxis' = NoAxis /\ todo' = {} /\ ok' = TRUE /\ why' = "startup" /\ tries' = 0
    /\ stopping' = FALSE

\* main() returns; `status` is what it left in adaptive_status.
Exit ==
    /\ pc = "ended"
    /\ Forget /\ UNCHANGED status
    /\ UNCHANGED <<envVars, diskVars>>

Kill ==
    /\ "kill" \in Faults /\ pc # "down"
    /\ Forget /\ status' = "killed"
    /\ UNCHANGED <<envVars, diskVars>>

\* A kernel boot: every node shows a value of the system's choice again.
Reboot ==
    /\ "reboot" \in Faults
    /\ Forget /\ status' = "none"
    /\ hw' \in [Path -> UNION {Settings[p] : p \in Path}]
    /\ \A p \in Path : hw'[p] \in Settings[p]
    /\ author' = [p \in Path |-> "system"] /\ base' = hw' /\ unsettled' = {}
    /\ diskLive' = FALSE /\ UNCHANGED disk

\* A value the engine cannot tell from its own: the one an entry names.
Mistakable(p, v) ==
    \/ Owns(journal, p) /\ v = journal[p].last
    \/ diskLive /\ Owns(disk, p) /\ v = disk[p].last

\* writeOwned() has compared p and has not written it yet.
InGap(p) == pc \in {"save", "write"} /\ p = Target

\* Another writer (thermal, QoS, a script) moves a node.
Foreign ==
    /\ "foreign" \in Faults
    /\ \E p \in Path : \E v \in Settings[p] :
         /\ v # hw[p]
         /\ InGap(p) => "gap" \in Faults
         /\ hw' = [hw EXCEPT ![p] = v]
         /\ author' = [author EXCEPT ![p] = IF Mistakable(p, v) THEN "either" ELSE "system"]
         /\ unsettled' = IF InGap(p) THEN unsettled \cup {p}
                         ELSE IF Mistakable(p, v) THEN unsettled ELSE unsettled \ {p}
    /\ UNCHANGED <<base, diskVars, applyVars, restoreVars, mainVars, journal, original, pc>>
-----------------------------------------------------------------------------
Apply ==
    \/ PlanSkip \/ PlanUnreachable \/ PlanNode
    \/ OwnMatch \/ OwnRefuse \/ OwnRecord \/ Save \/ SaveFails
    \/ Write \/ WriteRejected \/ ReadBack \/ ReadBackFails
    \/ ApplyDone \/ ApplyUnverified

Restore ==
    \/ RestoreEntry \/ RestoreEntryFails \/ RestoreForeign
    \/ RestoreSaved \/ RestoreSaveFails

Main ==
    \/ Window \/ WindowHold \/ WindowRelease \/ WindowBusy \/ WindowApply
    \/ ExitLoop \/ ExitRestore \/ ExitBusy \/ Exit

Daemon == Apply \/ Restore \/ Main
Environment == Start \/ Stop \/ Kill \/ Reboot \/ Foreign
Next == Daemon \/ Environment

Spec == Init /\ [][Next]_vars

\* The process runs until it ends: each of its steps is taken if it stays
\* possible.  Nothing promises that a killed daemon is started again.
FairSpec == Spec /\ WF_vars(Daemon)
-----------------------------------------------------------------------------
(* Properties.                                                             *)

PC == {"down", "idle", "window", "release", "plan", "own", "save", "write",
       "readback", "restore", "exit", "ended"}

\* Every variable keeps its type; in particular writes is never empty where
\* writeOwned() looks at its head.
TypeOK ==
    /\ hw \in [Path -> Nat]
    /\ journal \in [Path -> Entry] /\ disk \in [Path -> Entry] /\ diskLive \in BOOLEAN
    /\ original \in [Path -> Nat] /\ base \in [Path -> Nat]
    /\ author \in [Path -> {"system", "engine", "either"}] /\ unsettled \subseteq Path
    /\ pc \in PC /\ node \in 1 .. NumNodes + 1
    /\ writes \in Seq(Path \X Nat)
    /\ pc \in {"own", "save", "write", "readback"} => writes # <<>> /\ node \in Node
    /\ action \in Action /\ allowed \subseteq 0 .. 3 /\ failureAxis \in 0 .. NoAxis
    /\ todo \subseteq Path /\ ok \in BOOLEAN
    /\ why \in {"startup", "window", "reject", "exit"} /\ tries \in Nat
    /\ stopping \in BOOLEAN
    /\ status \in {"none", "running", "killed", "restore_pending", "stopped_restored"}

\* The journal's purpose.  At every instant, a kill included, a node that shows
\* a value of the engine has a record on disk, of this boot, that names that
\* value and what the system had there before; the only exceptions are nodes
\* whose owned entry was rewritten, or whose write the kernel altered, without
\* a read-back confirming the entry (`unsettled`).
Recoverable ==
    \A p \in Path : author[p] = "engine" /\ p \notin unsettled =>
        diskLive /\ disk[p] = [original |-> base[p], last |-> hw[p]]

\* The engine never destroys a value another writer set.  A step of the daemon
\* that replaces one takes the node over, with that very value already recorded
\* on disk as the original to give back.  (Another writer acting between the
\* ownership check and the write, fault "gap", is out of the code's reach.)
ForeignPreserved ==
    [][Daemon => \A p \in Path : author[p] = "system" /\ hw'[p] # hw[p] =>
          author'[p] = "engine" /\ diskLive /\ disk[p].original = hw[p]]_vars

\* "stopped_restored" in adaptive_status is true: after such an exit no node
\* shows a value of the engine, unless its entry was unsettled.
StoppedMeansReleased ==
    pc = "down" /\ status = "stopped_restored" =>
        \A p \in Path : author[p] = "engine" => p \in unsettled

\* Where no write fails and nobody is killed there is no exception: whatever
\* other writers do, a stopped daemon has given back every node it holds, each
\* with the value the system had there before the first of its rewrites.
NothingLeft ==
    pc = "down" /\ status = "stopped_restored" => \A p \in Path : author[p] # "engine"

\* A raised floor is planned strictly below the ceiling in force whenever two
\* settings are reachable: the engine never pins min = max.
NeverPinned ==
    [][\A n \in Node :
         pc = "plan" /\ pc' = "own" /\ node = n /\ Axis[n] # 3 /\ ~Powersaved(n)
         /\ action[Axis[n]] > 0 /\ Reach(Table[n], hw[Ceil(n)]) > 1
         => writes'[1][2] < hw[Ceil(n)]]_vars

\* SIGTERM ends the daemon: whatever the kernel, the disk and the lock do, the
\* exit loop gives up after MaxTries attempts and the process ends.
StopTerminates == stopping ~> pc = "down"

\* What platform.cpp:842 says of the journal: no value of the engine is ever
\* left on a node without a record to take it back.
NoFloorLeaks ==
    \A p \in Path : author[p] = "engine" => Owns(journal, p) \/ (diskLive /\ Owns(disk, p))
=============================================================================
