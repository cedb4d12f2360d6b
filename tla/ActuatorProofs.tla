--------------------------- MODULE ActuatorProofs ---------------------------
(* Theorems about the Actuator for every set of nodes, tables, settings and *)
(* faults.  The invariant is IInv: Recoverable speaks of the file, and the   *)
(* file is only as good as the journal it was written from (Remembered) and *)
(* as the order of check, record, save, write and read-back (Recorded).     *)
EXTENDS Actuator, FiniteSetTheorems, SequenceTheorems, TLAPS

(* The frequency that a level stands for: FloorTarget, what apply() writes.  *)
\* The entries a ceiling leaves reachable are the first Reach of the table.
LEMMA ReachIsPrefix ==
    ASSUME NEW table, IsTable(table), NEW cap \in Nat
    PROVE  /\ Reach(table, cap) \in 0 .. Len(table)
           /\ \A i \in 1 .. Len(table) : (table[i] <= cap) <=> (i <= Reach(table, cap))
<1> DEFINE n == Len(table)
           S == {i \in 1 .. n : table[i] <= cap}
           k == Cardinality(S)
<1>1. n \in Nat /\ \A i \in 1 .. n : table[i] \in Nat
  BY DEF IsTable
<1>2. \A a \in Nat : IsFiniteSet(1 .. a) /\ Cardinality(1 .. a) = a
  BY FS_Interval
<1>3. IsFiniteSet(S) /\ k <= n
  BY <1>1, <1>2, FS_Subset
<1>4. k \in Nat
  BY <1>3, FS_CardinalityType
<1>5. ASSUME NEW i \in S
      PROVE  i <= k
  <2>1. \A j \in 1 .. i : j < i => table[j] < table[i]
    BY <1>1 DEF IsTable
  <2>2. \A j \in 1 .. i : table[j] <= cap
    BY <2>1, <1>1
  <2>3. 1 .. i \subseteq S
    BY <2>2, <1>1
  <2>4. Cardinality(1 .. i) <= k
    BY <2>3, <1>3, FS_Subset
  <2>5. QED
    BY <2>4, <1>2
<1>6. ASSUME NEW i \in 1 .. n, i \notin S
      PROVE  k < i
  <2>1. ASSUME NEW j \in S
        PROVE  j < i
    <3>1. CASE j > i
      <4>1. table[i] < table[j]
        BY <3>1, <1>1 DEF IsTable
      <4>2. QED
        BY <4>1, <1>1, <1>6, <2>1
    <3>2. QED
      BY <3>1, <1>6, <1>1
  <2>2. S \subseteq 1 .. (i - 1)
    BY <2>1, <1>1
  <2>3. k <= Cardinality(1 .. (i - 1))
    BY <2>2, <1>2, FS_Subset
  <2>4. QED
    BY <2>3, <1>2, <1>4
<1>7. Reach(table, cap) = k
  BY DEF Reach
<1>8. k \in 0 .. n
  BY <1>1, <1>3, <1>4
<1>9. ASSUME NEW i \in 1 .. n
      PROVE  (table[i] <= cap) <=> (i <= k)
  <2>1. CASE i \in S
    BY <2>1, <1>5
  <2>2. CASE i \notin S
    <3>1. k < i
      BY <2>2, <1>6
    <3>2. QED
      BY <3>1, <2>2, <1>8, <1>1
  <2>3. QED
    BY <2>1, <2>2
<1> HIDE DEF k
<1>10. QED
  BY <1>7, <1>8, <1>9

\* The floor a raised level asks for lies strictly below the ceiling it was
\* computed under, whenever two settings are reachable: "Never pin min==max".
THEOREM FloorBelowCeiling ==
    ASSUME NEW table, IsTable(table), NEW cap \in Nat, NEW stock \in Nat,
           NEW level \in Level \ {0}, NEW step \in Level,
           Reach(table, cap) > 1
    PROVE  FloorFor(table, cap, stock, level, step) < cap
<1> DEFINE r == Reach(table, cap)
           raised == Higher(stock, LevelFrequency(table, r, step))
<1>0. Len(table) \in Nat /\ r \in 0 .. Len(table) /\ r > 1
  BY ReachIsPrefix DEF IsTable
<1>1. r \in 2 .. Len(table) /\ Len(table) \in Nat
      /\ \A i \in 1 .. Len(table) : (table[i] <= cap) <=> (i <= r)
  <2>1. \A i \in 1 .. Len(table) : (table[i] <= cap) <=> (i <= r)
    BY ReachIsPrefix
  <2>2. QED
    BY <1>0, <2>1
<1>2. level # 0
  BY DEF Level
<1>3. CASE raised < cap
  BY <1>2, <1>3 DEF FloorFor
<1>4. CASE ~(raised < cap)
  <2>1. table[r] <= cap /\ table[r - 1] < table[r]
    BY <1>1 DEF IsTable
  <2>2. table[r] \in Nat /\ table[r - 1] \in Nat
    BY <1>1 DEF IsTable
  <2>3. FloorFor(table, cap, stock, level, step) = table[r - 1]
    BY <1>1, <1>2, <1>4 DEF FloorFor
  <2>4. QED
    BY <2>1, <2>2, <2>3
<1>5. QED
  BY <1>3, <1>4
-----------------------------------------------------------------------------
(* The invariant.                                                           *)

Up == pc # "down"
Writing == pc \in {"own", "save", "write", "readback"}

\* A path whose file exists shows positive values.
Present(p) == 0 \notin Settings[p]

\* What a node shows and what the system had there is positive where the file
\* exists; where it does not, nobody writes.
Shown ==
    \A p \in Path : IF Present(p) THEN hw[p] > 0 /\ base[p] > 0
                    ELSE hw[p] = 0 /\ author[p] = "system"

\* Entries exist for present paths only and name positive values, so that the
\* loader accepts every entry that was saved.
Accepted(j) == \A p \in Path : Owns(j, p) => Present(p) /\ j[p].original > 0 /\ j[p].last > 0

\* writeOwned() is called for present paths only.
Targeted == Writing => \A i \in 1 .. Len(writes) : Present(writes[i][1])

Positive == Shown /\ Accepted(journal) /\ Accepted(disk) /\ Targeted

\* What Recoverable says of the file holds of the daemon's own journal too.
Remembered ==
    Up => \A p \in Path : author[p] = "engine" /\ p \notin unsettled =>
        journal[p] = [original |-> base[p], last |-> hw[p]]

\* Between the record and the read-back the entry names the value about to be
\* written, and from the save on the file agrees with the journal.
Recorded ==
    /\ pc \in {"save", "write", "readback"} =>
         Value > 0 /\ journal[Target].last = Value
    /\ pc \in {"save", "write"} /\ Target \notin unsettled =>
         journal[Target].original = base[Target]
    /\ pc \in {"write", "readback"} => diskLive /\ disk = journal

\* A restore that has met no failure still owns only what it has to visit.
Visiting == pc = "restore" /\ ok => Owned(journal) \subseteq todo

\* A daemon that said "stopped_restored" has nothing left on the nodes.
Handed ==
    status = "stopped_restored" =>
        /\ pc \in {"ended", "down"}
        /\ \A p \in Path : author[p] = "engine" => p \in unsettled

IInv == TypeOK /\ Positive /\ Recoverable /\ Remembered /\ Recorded /\ Visiting /\ Handed
-----------------------------------------------------------------------------
(* Types.                                                                   *)

USE DEF Node, Path, Floor, Ceil, Action, Level, Levels, NoAxis, Entry

\* The constants have the types the definitions of the Actuator use them at.
LEMMA ConstantTypes ==
    /\ NumNodes \in Nat /\ Axis \in [Node -> 0 .. 3] /\ MaxTries \in Nat \ {0}
    /\ \A n \in Node : IsTable(Table[n]) /\ Floor(n) \in Path /\ Ceil(n) \in Path
    /\ \A p \in Path : Settings[p] \subseteq Nat
  BY ConstantsAssumption

\* A level picks an entry of the reachable prefix.
LEMMA LevelFrequencyType ==
    ASSUME NEW table, IsTable(table), NEW reach \in 1 .. Len(table), NEW level \in Level
    PROVE  LevelFrequency(table, reach, level) \in Nat
<1>1. Len(table) \in Nat /\ \A i \in 1 .. Len(table) : table[i] \in Nat
  BY DEF IsTable
<1>2. (level * (reach - 1)) \div 4 \in 0 .. reach - 1
  <2>1. level \in {0, 1, 2, 3, 4}
    OBVIOUS
  <2>2. QED
    BY <2>1, <1>1
<1>3. QED
  BY <1>1, <1>2 DEF LevelFrequency

\* Actuator::apply() asks for a natural number at every level.
LEMMA FloorForType ==
    ASSUME NEW table, IsTable(table), NEW cap \in Nat, NEW floor \in Nat,
           NEW level \in Level, NEW step \in Level, Reach(table, cap) # 0
    PROVE  FloorFor(table, cap, floor, level, step) \in Nat
<1>1. Reach(table, cap) \in 1 .. Len(table) /\ Len(table) \in Nat
  BY ReachIsPrefix DEF IsTable
<1>2. \A i \in 1 .. Len(table) : table[i] \in Nat
  BY DEF IsTable
<1>3. LevelFrequency(table, Reach(table, cap), step) \in Nat
  BY <1>1, LevelFrequencyType
<1>4. QED
  BY <1>1, <1>2, <1>3 DEF FloorFor, Higher, Lower

\* What a node is asked to hold: at most two writes, to its own paths, the
\* ceiling only where it has one.
LEMMA DesiredType ==
    ASSUME NEW n \in Node, hw \in [Path -> Nat], original \in [Path -> Nat],
           action \in Action, ~Skipped(n), ~Unreachable(n)
    PROVE  /\ Desired(n) \in Seq(Path \X Nat)
           /\ \A i \in 1 .. Len(Desired(n)) :
                Desired(n)[i][1] = Floor(n) \/ (Desired(n)[i][1] = Ceil(n) /\ hw[Ceil(n)] > 0)
<1> DEFINE level == action[Axis[n]]
           floor == original[Floor(n)]
           cap == hw[Ceil(n)]
           ceiling == CeilingFor(Table[n], original[Ceil(n)], level)
<1>1. level \in Level /\ floor \in Nat /\ cap \in Nat /\ original[Ceil(n)] \in Nat
      /\ IsTable(Table[n]) /\ Floor(n) \in Path /\ Ceil(n) \in Path
  BY ConstantTypes
<1>2. CASE Axis[n] = 3
  <2>1. PeltFor(floor, level) \in Nat
    BY <1>1 DEF PeltFor, Higher
  <2>2. Desired(n) = <<<<Floor(n), PeltFor(floor, level)>>>>
    BY <1>2 DEF Desired
  <2>3. QED
    BY <2>1, <2>2, <1>1
<1>3. CASE Axis[n] # 3
  <2>1. Reach(Table[n], cap) # 0 /\ Table[n] # <<>>
    BY <1>3 DEF Skipped, Unreachable
  <2>2. cap > 0
    <3> DEFINE k == Reach(Table[n], cap)
    <3>1. Table[n] \in Seq(Nat \ {0})
      BY <1>1 DEF IsTable
    <3>2. k \in 0 .. Len(Table[n])
          /\ \A i \in 1 .. Len(Table[n]) : (Table[n][i] <= cap) <=> (i <= k)
      BY <1>1, ReachIsPrefix
    <3>3. 1 \in 1 .. Len(Table[n]) /\ 1 <= k
      BY <3>1, <3>2, <2>1
    <3> HIDE DEF k, cap
    <3>4. Table[n][1] <= cap
      BY <3>2, <3>3
    <3>5. Table[n][1] \in Nat \ {0}
      BY <3>1, <3>3
    <3>6. QED
      BY <3>4, <3>5, <1>1
  <2>3. CASE Powersaved(n) /\ Len(Table[n]) >= 3
    <3>1. ceiling \in Nat
      <4>1. Len(Table[n]) \in Nat /\ \A i \in 1 .. Len(Table[n]) : Table[n][i] \in Nat
        BY <1>1 DEF IsTable
      <4>2. Len(Table[n]) - 2 + Lower(2, level) \in 1 .. Len(Table[n])
        BY <4>1, <2>3, <1>1 DEF Lower
      <4>3. QED
        BY <4>1, <4>2, <1>1 DEF CeilingFor, Lower
    <3>2. Lower(floor, ceiling) \in Nat
      BY <3>1, <1>1 DEF Lower
    <3>3. Desired(n) = <<<<Floor(n), Lower(floor, ceiling)>>, <<Ceil(n), ceiling>>>>
      BY <1>3, <2>3 DEF Desired
    <3> HIDE DEF ceiling, floor
    <3>4. <<Floor(n), Lower(floor, ceiling)>> \in Path \X Nat
          /\ <<Ceil(n), ceiling>> \in Path \X Nat
      BY <3>1, <3>2, <1>1
    <3>5. Desired(n) \in Seq(Path \X Nat) /\ Len(Desired(n)) = 2
          /\ Desired(n)[1][1] = Floor(n) /\ Desired(n)[2][1] = Ceil(n)
      BY <3>3, <3>4
    <3>6. QED
      BY <3>5, <2>2
  <2>4. CASE ~(Powersaved(n) /\ Len(Table[n]) >= 3) /\ level = 0 /\ ~Owns(journal, Floor(n))
    <3>1. Desired(n) = <<>>
      BY <1>3, <2>4 DEF Desired
    <3>2. QED
      BY <3>1
  <2>5. CASE /\ ~(Powersaved(n) /\ Len(Table[n]) >= 3)
             /\ ~(level = 0 /\ ~Owns(journal, Floor(n)))
    <3> DEFINE step == IF Powersaved(n) THEN 0 ELSE level
               value == FloorFor(Table[n], cap, floor, level, step)
    <3>1. step \in Level
      BY <1>1
    <3>2. value \in Nat
      BY <3>1, <2>1, <1>1, FloorForType
    <3>3. Desired(n) = <<<<Floor(n), value>>>>
      BY <1>3, <2>5 DEF Desired
    <3> HIDE DEF value
    <3>4. QED
      BY <3>2, <3>3, <1>1
  <2>6. QED
    BY <2>3, <2>4, <2>5
<1>4. QED
  BY <1>2, <1>3

\* While writeOwned() runs, the write at hand is a path and a value, and
\* advancing to the next write keeps the list well formed.
LEMMA TargetType ==
    ASSUME TypeOK, Writing
    PROVE  /\ Target \in Path /\ Value \in Nat
           /\ Tail(writes) \in Seq(Path \X Nat)
           /\ Len(writes) \in Nat \ {0} /\ Len(Tail(writes)) = Len(writes) - 1
           /\ \A i \in 1 .. Len(Tail(writes)) : Tail(writes)[i] = writes[i + 1]
           /\ node \in Node
<1>1. writes \in Seq(Path \X Nat) /\ writes # <<>> /\ node \in Node
  BY DEF TypeOK, Writing
<1>2. Len(writes) \in Nat \ {0} /\ writes[1] \in Path \X Nat
  BY <1>1
<1>3. QED
  BY <1>1, <1>2, HeadTailProperties DEF Target, Value

\* The parts of a step that most actions share.
LEMMA WrittenType ==
    ASSUME TypeOK, pc \in {"own", "readback"}, Written
    PROVE  /\ writes' \in Seq(Path \X Nat) /\ node' \in 1 .. NumNodes + 1 /\ pc' \in {"own", "plan"}
           /\ pc' = "own" => writes' # <<>> /\ node' \in Node
           /\ UNCHANGED <<action, allowed, failureAxis>>
<1>1. writes' = Tail(writes) /\ UNCHANGED <<action, allowed, failureAxis>>
  BY DEF Written
<1>2. CASE Len(writes) = 1
  BY <1>1, <1>2, TargetType, ConstantTypes DEF Written, Writing, TypeOK
<1>3. CASE Len(writes) # 1
  <2>1. writes' # <<>>
    <3>1. Len(writes') \in Nat \ {0}
      BY <1>1, <1>3, TargetType DEF Writing
    <3>2. Len(<<>>) = 0
      OBVIOUS
    <3>3. QED
      BY <3>1, <3>2
  <2>2. QED
    BY <2>1, <1>1, <1>3, TargetType, ConstantTypes DEF Written, Writing, TypeOK
<1>4. QED
  BY <1>2, <1>3

\* main() answers a failed apply with a well-typed restore.
LEMMA FailType ==
    ASSUME TypeOK, Fail, journal' \in [Path -> Entry]
    PROVE  /\ pc' = "restore" /\ todo' \subseteq Path /\ ok' \in BOOLEAN /\ why' = "reject"
           /\ tries' = tries /\ node' \in 1 .. NumNodes + 1 /\ writes' \in Seq(Path \X Nat)
           /\ action' \in Action /\ allowed' \subseteq 0 .. 3
<1>1. <<>> \in Seq(Path \X Nat) /\ 1 \in 1 .. NumNodes + 1 /\ Released \in Action
  BY ConstantTypes DEF Released
<1>2. QED
  BY <1>1 DEF Fail, BeginRestore, Return, Owned

\* What a Forget leaves has its type.
LEMMA ForgetType ==
    ASSUME Forget
    PROVE  /\ pc' = "down" /\ journal' \in [Path -> Entry] /\ original' \in [Path -> Nat]
           /\ node' \in 1 .. NumNodes + 1 /\ writes' \in Seq(Path \X Nat)
           /\ action' \in Action /\ allowed' \subseteq 0 .. 3 /\ failureAxis' \in 0 .. NoAxis
           /\ todo' \subseteq Path /\ ok' \in BOOLEAN /\ why' = "startup" /\ tries' \in Nat
           /\ stopping' \in BOOLEAN
<1>1. <<>> \in Seq(Path \X Nat) /\ 1 \in 1 .. NumNodes + 1 /\ Released \in Action
  BY ConstantTypes DEF Released
<1>2. Empty \in [Path -> Entry] /\ [p \in Path |-> 0] \in [Path -> Nat]
  BY DEF Empty, NoEntry
<1>3. failureAxis' \in 0 .. NoAxis /\ tries' \in Nat
  BY DEF Forget
<1>4. QED
  BY <1>1, <1>2, <1>3 DEF Forget

\* Every node belongs to an axis.
LEMMA AxisType == \A n \in Node : Axis[n] \in 0 .. NoAxis
<1>1. ASSUME NEW n \in Node PROVE Axis[n] \in 0 .. 3
  BY ConstantTypes
<1>2. 0 .. 3 \subseteq 0 .. 4
  OBVIOUS
<1>3. QED
  BY <1>1, <1>2

\* No step of Actuator::apply() or writeOwned() breaks a type.
LEMMA ApplyTypes ==
    ASSUME TypeOK, Apply
    PROVE  TypeOK'
<1>1. CASE PlanSkip
  <2>1. node \in Node /\ node' = node + 1 /\ NumNodes \in Nat
        /\ failureAxis' = IF Axis[node] \in allowed THEN Axis[node] ELSE failureAxis
    BY <1>1, ConstantTypes DEF PlanSkip
  <2>2. node' \in 1 .. NumNodes + 1
    BY <2>1
  <2>3. failureAxis' \in 0 .. NoAxis
    BY <2>1, AxisType DEF TypeOK
  <2>4. QED
    BY <1>1, <2>2, <2>3 DEF PlanSkip, TypeOK, envVars, diskVars, restoreVars, mainVars, PC
<1>2. CASE PlanUnreachable
  <2>1. failureAxis' \in 0 .. NoAxis
    BY <1>2, AxisType DEF PlanUnreachable
  <2>2. QED
    BY <1>2, <2>1, FailType DEF PlanUnreachable, TypeOK, envVars, diskVars, mainVars, PC
<1>3. CASE PlanNode
  <2>1. Desired(node) \in Seq(Path \X Nat)
    BY <1>3, DesiredType DEF PlanNode, TypeOK
  <2>2. failureAxis' \in 0 .. NoAxis /\ node \in Node
    BY <1>3, ConstantTypes DEF PlanNode, TypeOK
  <2>3. writes' \in Seq(Path \X Nat) /\ node' \in 1 .. NumNodes + 1
        /\ (pc' = "plan" \/ (pc' = "own" /\ writes' # <<>> /\ node' \in Node))
    BY <1>3, <2>1, <2>2, ConstantTypes DEF PlanNode
  <2>4. QED
    BY <1>3, <2>2, <2>3 DEF PlanNode, TypeOK, envVars, diskVars, restoreVars, mainVars, PC
<1>4. CASE OwnMatch
  BY <1>4, WrittenType DEF OwnMatch, TypeOK, envVars, diskVars, restoreVars, mainVars, PC
<1>5. CASE OwnRefuse
  BY <1>5, FailType DEF OwnRefuse, TypeOK, envVars, diskVars, mainVars, PC
<1>6. CASE OwnRecord
  <2>1. Target \in Path /\ Value \in Nat
    BY <1>6, TargetType DEF OwnRecord, Writing
  <2>2. journal' \in [Path -> Entry] /\ base' \in [Path -> Nat] /\ unsettled' \subseteq Path
    BY <1>6, <2>1 DEF OwnRecord, TypeOK
  <2>3. QED
    BY <1>6, <2>2 DEF OwnRecord, TypeOK, diskVars, applyVars, restoreVars, mainVars, PC
<1>7. CASE Save
  BY <1>7 DEF Save, TypeOK, envVars, applyVars, restoreVars, mainVars, PC
<1>8. CASE SaveFails
  BY <1>8, FailType DEF SaveFails, TypeOK, envVars, diskVars, mainVars, PC
<1>9. CASE Write
  <2>1. Target \in Path /\ Value \in Nat
    BY <1>9, TargetType DEF Write, Writing
  <2>2. PICK v \in Nat :
            /\ hw' = [hw EXCEPT ![Target] = v]
            /\ unsettled' = IF v = Value THEN unsettled ELSE unsettled \cup {Target}
    BY <1>9, <2>1, ConstantTypes DEF Write
  <2>3. hw' \in [Path -> Nat] /\ unsettled' \subseteq Path
    BY <2>1, <2>2 DEF TypeOK
  <2>4. author' \in [Path -> {"system", "engine", "either"}]
    BY <1>9, <2>1 DEF Write, TypeOK
  <2>5. QED
    BY <1>9, <2>3, <2>4 DEF Write, TypeOK, diskVars, applyVars, restoreVars, mainVars, PC
<1>10. CASE WriteRejected
  BY <1>10, FailType DEF WriteRejected, TypeOK, envVars, diskVars, mainVars, PC
<1>11. CASE ReadBack
  BY <1>11, WrittenType DEF ReadBack, TypeOK, diskVars, restoreVars, mainVars, PC
<1>12. CASE ReadBackFails
  BY <1>12, FailType DEF ReadBackFails, TypeOK, envVars, diskVars, mainVars, PC
<1>13. CASE ApplyDone
  <2>1. <<>> \in Seq(Path \X Nat) /\ 1 \in 1 .. NumNodes + 1 /\ Released \in Action
    BY ConstantTypes DEF Released
  <2>2. failureAxis' \in 0 .. NoAxis
    BY <1>13 DEF ApplyDone
  <2>3. writes' \in Seq(Path \X Nat) /\ node' \in 1 .. NumNodes + 1 /\ action' \in Action
        /\ allowed' = {} /\ pc' = "idle"
    BY <1>13, <2>1 DEF ApplyDone, Return
  <2>4. QED
    BY <1>13, <2>2, <2>3 DEF ApplyDone, TypeOK, envVars, diskVars, restoreVars, mainVars, PC
<1>14. CASE ApplyUnverified
  BY <1>14, FailType DEF ApplyUnverified, TypeOK, envVars, diskVars, mainVars, PC
<1>15. QED
  BY <1>1, <1>2, <1>3, <1>4, <1>5, <1>6, <1>7, <1>8, <1>9, <1>10, <1>11, <1>12,
     <1>13, <1>14 DEF Apply

\* Whoever called restore(), its return leaves a step and a status of main().
LEMMA ReturnedType ==
    ASSUME TypeOK, NEW good \in BOOLEAN, Returned(good)
    PROVE  /\ pc' \in {"idle", "ended", "exit"} /\ tries' \in Nat
           /\ status' \in {"none", "running", "killed", "restore_pending", "stopped_restored"}
<1>1. why \in {"startup", "window", "reject", "exit"} /\ tries \in Nat
      /\ status \in {"none", "running", "killed", "restore_pending", "stopped_restored"}
  BY DEF TypeOK
<1>2. CASE why = "startup"
  BY <1>1, <1>2 DEF Returned
<1>3. CASE why \in {"window", "reject"}
  BY <1>1, <1>3 DEF Returned
<1>4. CASE why = "exit"
  BY <1>1, <1>4 DEF Returned
<1>5. QED
  BY <1>1, <1>2, <1>3, <1>4

\* No step of Actuator::restore() breaks a type.
LEMMA RestoreTypes ==
    ASSUME TypeOK, Restore
    PROVE  TypeOK'
<1>1. CASE RestoreEntry
  <2>1. PICK p \in todo :
            /\ todo' = todo \ {p} /\ Erase(p)
            /\ hw' = [hw EXCEPT ![p] = journal[p].original]
            /\ author' = IF journal[p].original = base[p]
                         THEN [author EXCEPT ![p] = "system"] ELSE author
            /\ unsettled' = IF journal[p].original = base[p] THEN unsettled \ {p} ELSE unsettled
    BY <1>1 DEF RestoreEntry
  <2>2. p \in Path /\ journal[p] \in Entry
    BY <2>1 DEF TypeOK
  <2>3. hw' \in [Path -> Nat] /\ journal' \in [Path -> Entry] /\ ok' = ok
    BY <2>1, <2>2 DEF TypeOK, Erase, NoEntry
  <2>4. author' \in [Path -> {"system", "engine", "either"}] /\ unsettled' \subseteq Path
        /\ todo' \subseteq Path
    BY <2>1, <2>2 DEF TypeOK
  <2>5. QED
    BY <1>1, <2>3, <2>4 DEF RestoreEntry, TypeOK, diskVars, applyVars, mainVars
<1>2. CASE RestoreEntryFails
  <2>1. PICK p \in todo :
            /\ todo' = todo \ {p} /\ ok' = FALSE /\ journal' = journal
            /\ \/ UNCHANGED envVars
               \/ /\ \E v \in Settings[p] \ {journal[p].original} : hw' = [hw EXCEPT ![p] = v]
                  /\ author' = [author EXCEPT ![p] = "engine"]
                  /\ unsettled' = unsettled \cup {p}
                  /\ UNCHANGED base
    BY <1>2 DEF RestoreEntryFails
  <2>2. p \in Path /\ Settings[p] \subseteq Nat
    BY <2>1, ConstantTypes DEF TypeOK
  <2>3. hw' \in [Path -> Nat] /\ author' \in [Path -> {"system", "engine", "either"}]
        /\ unsettled' \subseteq Path /\ base' = base
    <3>1. CASE UNCHANGED envVars
      BY <3>1 DEF TypeOK, envVars
    <3>2. CASE ~UNCHANGED envVars
      <4>1. PICK v \in Nat : hw' = [hw EXCEPT ![p] = v]
        BY <2>1, <2>2, <3>2
      <4>2. author' = [author EXCEPT ![p] = "engine"] /\ unsettled' = unsettled \cup {p}
            /\ base' = base
        BY <2>1, <3>2
      <4>3. QED
        BY <2>2, <4>1, <4>2 DEF TypeOK
    <3>3. QED
      BY <3>1, <3>2
  <2>4. QED
    BY <1>2, <2>1, <2>3 DEF RestoreEntryFails, TypeOK, diskVars, applyVars, mainVars
<1>3. CASE RestoreForeign
  <2>1. PICK p \in todo : todo' = todo \ {p} /\ Erase(p)
    BY <1>3 DEF RestoreForeign
  <2>2. journal' \in [Path -> Entry] /\ ok' = ok /\ todo' \subseteq Path
    BY <2>1 DEF TypeOK, Erase, NoEntry
  <2>3. QED
    BY <1>3, <2>2 DEF RestoreForeign, TypeOK, envVars, diskVars, applyVars, mainVars
<1>4. ASSUME NEW saved \in BOOLEAN, RestoreDone(saved), disk' \in [Path -> Entry],
             diskLive' \in BOOLEAN
      PROVE  TypeOK'
  <2>1. original' \in [Path -> Nat]
    BY <1>4 DEF RestoreDone, TypeOK
  <2>2. /\ pc' \in {"idle", "ended", "exit"} /\ tries' \in Nat
        /\ status' \in {"none", "running", "killed", "restore_pending", "stopped_restored"}
    <3>1. (saved /\ ok) \in BOOLEAN
      BY <1>4 DEF TypeOK
    <3>2. QED
      BY <1>4, <3>1, ReturnedType DEF RestoreDone
  <2>3. QED
    BY <1>4, <2>1, <2>2 DEF RestoreDone, TypeOK, envVars, applyVars, PC
<1>5. CASE RestoreSaved
  BY <1>4, <1>5 DEF RestoreSaved, TypeOK
<1>6. CASE RestoreSaveFails
  BY <1>4, <1>6 DEF RestoreSaveFails, TypeOK, diskVars
<1>7. QED
  BY <1>1, <1>2, <1>3, <1>5, <1>6 DEF Restore

\* No step of main() breaks a type.
LEMMA MainTypes ==
    ASSUME TypeOK, Main
    PROVE  TypeOK'
<1>1. CASE Window \/ WindowHold \/ WindowBusy
  BY <1>1 DEF Window, WindowHold, WindowBusy, TypeOK, envVars, diskVars, applyVars,
     restoreVars, mainVars, PC
<1>2. CASE WindowRelease \/ ExitRestore
  BY <1>2 DEF WindowRelease, ExitRestore, BeginRestore, Owned, TypeOK, envVars, diskVars,
     applyVars, mainVars, PC
<1>3. CASE WindowApply
  <2>1. allowed' \subseteq 0 .. 3
    <3>1. Capable \subseteq 0 .. 3
      BY ConstantTypes DEF Capable
    <3>2. QED
      BY <1>3, <3>1 DEF WindowApply
  <2>2. action' \in Action /\ failureAxis' \in 0 .. NoAxis
    BY <1>3 DEF WindowApply, Offered
  <2>3. original' \in [Path -> Nat]
    BY <1>3 DEF WindowApply, TypeOK
  <2>4. writes' \in Seq(Path \X Nat) /\ node' \in 1 .. NumNodes + 1 /\ pc' = "plan"
    <3>1. <<>> \in Seq(Path \X Nat) /\ 1 \in 1 .. NumNodes + 1
      BY ConstantTypes
    <3>2. QED
      BY <1>3, <3>1 DEF WindowApply
  <2>5. QED
    BY <1>3, <2>1, <2>2, <2>3, <2>4 DEF WindowApply, TypeOK, envVars, diskVars, restoreVars,
       mainVars, PC
<1>4. CASE ExitLoop
  BY <1>4 DEF ExitLoop, TypeOK, envVars, diskVars, applyVars, mainVars, PC
<1>5. CASE ExitBusy
  <2>1. /\ pc' \in {"idle", "ended", "exit"} /\ tries' \in Nat
        /\ status' \in {"none", "running", "killed", "restore_pending", "stopped_restored"}
    BY <1>5, ReturnedType DEF ExitBusy
  <2>2. QED
    BY <1>5, <2>1 DEF ExitBusy, TypeOK, envVars, diskVars, applyVars, PC
<1>6. CASE Exit
  BY <1>6, ForgetType DEF Exit, TypeOK, envVars, diskVars, PC
<1>7. QED
  BY <1>1, <1>2, <1>3, <1>4, <1>5, <1>6 DEF Main

\* Start, kill, reboot and other writers break no type.
LEMMA EnvironmentTypes ==
    ASSUME TypeOK, Environment
    PROVE  TypeOK'
<1>1. CASE Start
  <2>1. journal' \in [Path -> Entry] /\ original' \in [Path -> Nat]
    BY <1>1 DEF Start, TypeOK, NoEntry
  <2>2. QED
    BY <1>1, <2>1 DEF Start, BeginRestore, Owned, TypeOK, envVars, diskVars, applyVars, PC
<1>2. CASE Stop
  BY <1>2 DEF Stop, TypeOK, envVars, diskVars, applyVars, restoreVars
<1>3. CASE Kill
  BY <1>3, ForgetType DEF Kill, TypeOK, envVars, diskVars, PC
<1>4. CASE Reboot
  <2>1. hw' \in [Path -> Nat]
    BY <1>4, ConstantTypes DEF Reboot
  <2>2. author' \in [Path -> {"system", "engine", "either"}] /\ base' = hw' /\ unsettled' = {}
    BY <1>4 DEF Reboot
  <2>3. QED
    BY <1>4, <2>1, <2>2, ForgetType DEF Reboot, TypeOK, PC
<1>5. CASE Foreign
  <2>1. PICK p \in Path, v \in Nat :
            /\ hw' = [hw EXCEPT ![p] = v]
            /\ author' = [author EXCEPT ![p] = IF Mistakable(p, v) THEN "either" ELSE "system"]
            /\ unsettled' = IF InGap(p) THEN unsettled \cup {p}
                            ELSE IF Mistakable(p, v) THEN unsettled ELSE unsettled \ {p}
    BY <1>5, ConstantTypes DEF Foreign
  <2>3. hw' \in [Path -> Nat] /\ author' \in [Path -> {"system", "engine", "either"}]
        /\ unsettled' \subseteq Path
    BY <2>1 DEF TypeOK
  <2>4. QED
    BY <1>5, <2>3 DEF Foreign, TypeOK, diskVars, applyVars, restoreVars, mainVars
<1>6. QED
  BY <1>1, <1>2, <1>3, <1>4, <1>5 DEF Environment

\* Every step keeps the types; so does a step that changes nothing.
LEMMA TypeStep == TypeOK /\ [Next]_vars => TypeOK'
<1>1. ASSUME TypeOK, UNCHANGED vars
      PROVE  TypeOK'
  BY <1>1 DEF TypeOK, vars, envVars, diskVars, applyVars, restoreVars, mainVars
<1>2. QED
  BY <1>1, ApplyTypes, RestoreTypes, MainTypes, EnvironmentTypes DEF Next, Daemon

\* Before the first start the state has its types.
LEMMA TypeInit == Init => TypeOK
<1>1. ASSUME Init
      PROVE  TypeOK
  <2>1. hw \in [Path -> Nat] /\ base \in [Path -> Nat]
    BY <1>1, ConstantTypes DEF Init
  <2>2. <<>> \in Seq(Path \X Nat) /\ 1 \in 1 .. NumNodes + 1 /\ Released \in Action
    BY ConstantTypes DEF Released
  <2>3. journal \in [Path -> Entry] /\ disk \in [Path -> Entry] /\ original \in [Path -> Nat]
        /\ author \in [Path -> {"system", "engine", "either"}]
    BY <1>1 DEF Init, Empty, NoEntry
  <2>4. failureAxis \in 0 .. NoAxis /\ tries \in Nat
    BY <1>1 DEF Init
  <2>5. QED
    BY <1>1, <2>1, <2>2, <2>3, <2>4 DEF Init, TypeOK, PC
<1>2. QED
  BY <1>1

\* The Actuator's state keeps its types whatever the device, the faults and
\* the order of steps: in particular writeOwned() always has a write before it,
\* and every planned value is a table entry, a baseline or a ceiling.
THEOREM TypeCorrect == Spec => []TypeOK
  BY TypeInit, TypeStep, PTL DEF Spec
-----------------------------------------------------------------------------
(* Positive is kept.                                                        *)

\* A path without a file shows nothing but zero.
LEMMA AbsentSetting == \A p \in Path : ~Present(p) => Settings[p] = {0}
  BY ConstantsAssumption DEF Present

\* Every node the Actuator keeps has a floor file.
LEMMA FloorPresent == \A n \in Node : Present(Floor(n))
  BY ConstantsAssumption DEF Present

\* apply() plans writes to files that exist only, and keeps them so.
LEMMA TargetedStep ==
    ASSUME TypeOK, Positive, Next
    PROVE  Targeted'
<1>1. CASE PlanNode
  <2>1. ASSUME NEW i \in 1 .. Len(Desired(node))
        PROVE  Present(Desired(node)[i][1])
    <3>1. node \in Node /\ Ceil(node) \in Path
      BY <1>1, ConstantTypes DEF PlanNode
    <3>2. Desired(node)[i][1] = Floor(node)
          \/ (Desired(node)[i][1] = Ceil(node) /\ hw[Ceil(node)] > 0)
      BY <1>1, <3>1, DesiredType DEF PlanNode, TypeOK
    <3>3. hw[Ceil(node)] > 0 => Present(Ceil(node))
      BY <3>1 DEF Positive, Shown
    <3>4. QED
      BY <3>1, <3>2, <3>3, FloorPresent
  <2>2. writes' = Desired(node)
    BY <1>1 DEF PlanNode
  <2>3. QED
    BY <2>1, <2>2 DEF Targeted, Present
<1>2. CASE OwnMatch \/ ReadBack
  <2>1. Writing /\ writes' = Tail(writes)
    BY <1>2 DEF OwnMatch, ReadBack, Written, Writing
  <2>2. ASSUME NEW i \in 1 .. Len(writes')
        PROVE  Present(writes'[i][1])
    <3>1. i + 1 \in 1 .. Len(writes) /\ writes'[i] = writes[i + 1]
      BY <2>1, <2>2, TargetType
    <3>2. QED
      BY <3>1, <2>1 DEF Positive, Targeted
  <2>3. QED
    BY <2>2 DEF Targeted, Present
<1>3. CASE OwnRecord \/ Save \/ Write
  <2>1. Writing /\ writes' = writes
    BY <1>3 DEF OwnRecord, Save, Write, Writing, applyVars
  <2>2. QED
    BY <2>1 DEF Positive, Targeted, Present
<1>4. CASE Stop \/ Foreign
  BY <1>4 DEF Stop, Foreign, applyVars, Positive, Targeted, Writing, Present
<1>5. CASE Fail \/ PlanSkip \/ ApplyDone
  BY <1>5 DEF Fail, BeginRestore, PlanSkip, ApplyDone, Targeted, Writing
<1>6. CASE Restore
  <2>1. CASE RestoreSaved \/ RestoreSaveFails
    <3>1. PICK saved \in BOOLEAN : RestoreDone(saved)
      BY <2>1 DEF RestoreSaved, RestoreSaveFails
    <3>2. (saved /\ ok) \in BOOLEAN
      BY DEF TypeOK
    <3>3. pc' \in {"idle", "ended", "exit"}
      BY <3>1, <3>2, ReturnedType DEF RestoreDone
    <3>4. QED
      BY <3>3 DEF Targeted, Writing
  <2>2. QED
    BY <1>6, <2>1 DEF Restore, RestoreEntry, RestoreEntryFails, RestoreForeign, Targeted, Writing
<1>7. CASE Main
  <2>1. CASE ExitBusy
    BY <2>1, ReturnedType DEF ExitBusy, Targeted, Writing
  <2>2. QED
    BY <1>7, <2>1 DEF Main, Window, WindowHold, WindowRelease, WindowBusy, WindowApply, ExitLoop,
       ExitRestore, Exit, Forget, BeginRestore, Targeted, Writing
<1>8. CASE Start \/ Kill \/ Reboot
  BY <1>8 DEF Start, BeginRestore, Kill, Reboot, Forget, Targeted, Writing
<1>9. QED
  BY <1>1, <1>2, <1>3, <1>4, <1>5, <1>6, <1>7, <1>8 DEF Next, Daemon, Environment, Apply,
     PlanUnreachable, OwnRefuse, SaveFails, WriteRejected, ReadBackFails, ApplyUnverified

\* What a record puts into the journal, and what it does not touch.
LEMMA RecordFacts ==
    ASSUME TypeOK, Positive, OwnRecord
    PROVE  /\ Target \in Path /\ Value > 0 /\ Present(Target) /\ hw[Target] > 0
           /\ journal'[Target].last = Value
           /\ journal'[Target].original =
                IF Owns(journal, Target) THEN journal[Target].original ELSE hw[Target]
           /\ \A p \in Path : p # Target => journal'[p] = journal[p] /\ base'[p] = base[p]
           /\ base'[Target] = IF Owns(journal, Target) \/ author[Target] = "engine"
                              THEN base[Target] ELSE hw[Target]
<1>1. Target \in Path /\ Value \in Nat /\ 1 \in 1 .. Len(writes)
  BY TargetType DEF OwnRecord, Writing
<1>2. Present(Target)
  BY <1>1 DEF Positive, Targeted, Writing, OwnRecord, Target
<1>3. hw[Target] > 0
  BY <1>1, <1>2 DEF Positive, Shown
<1>4. QED
  BY <1>1, <1>2, <1>3 DEF OwnRecord, TypeOK

\* No write, of the engine or of others, makes an existing file show zero.
LEMMA ShownStep ==
    ASSUME TypeOK, Positive, Recorded, Next
    PROVE  Shown'
<1>1. CASE OwnRecord
  <2>1. hw' = hw /\ author' = author
    BY <1>1 DEF OwnRecord
  <2>2. ASSUME NEW p \in Path
        PROVE  IF Present(p) THEN hw'[p] > 0 /\ base'[p] > 0
               ELSE hw'[p] = 0 /\ author'[p] = "system"
    BY <1>1, <2>1, RecordFacts DEF Positive, Shown
  <2>3. QED
    BY <2>2 DEF Shown, Present
<1>2. CASE Write
  <2>1. Target \in Path /\ 1 \in 1 .. Len(writes) /\ Value > 0
    BY <1>2, TargetType DEF Write, Writing, Recorded
  <2>2. Present(Target)
    BY <1>2, <2>1 DEF Positive, Targeted, Writing, Write, Target
  <2>3. PICK v \in Nat : v > 0 /\ hw' = [hw EXCEPT ![Target] = v]
    <3>1. \A v \in Settings[Target] : v \in Nat /\ v > 0
      BY <2>1, <2>2, ConstantTypes DEF Present
    <3>2. Value \in Nat
      BY <1>2, TargetType DEF Write, Writing
    <3>3. QED
      BY <1>2, <2>1, <3>1, <3>2 DEF Write
  <2>4. base' = base /\ author' = [author EXCEPT ![Target] = "engine"]
    BY <1>2 DEF Write
  <2>5. QED
    BY <2>1, <2>2, <2>3, <2>4 DEF Positive, Shown, Present, TypeOK
<1>3. CASE RestoreEntry
  <2>1. PICK p \in todo :
            /\ hw[p] = journal[p].last
            /\ hw' = [hw EXCEPT ![p] = journal[p].original]
            /\ author' = IF journal[p].original = base[p]
                         THEN [author EXCEPT ![p] = "system"] ELSE author
    BY <1>3 DEF RestoreEntry
  <2>2. p \in Path /\ base' = base
    BY <1>3 DEF TypeOK, RestoreEntry
  <2>3. Present(p) => journal[p].original > 0
    BY <2>1, <2>2 DEF Positive, Shown, Accepted, Owns, NoEntry
  <2>4. ~Present(p) => journal[p].original = 0
    BY <2>2 DEF Positive, Accepted, Owns, NoEntry
  <2>5. QED
    BY <2>1, <2>2, <2>3, <2>4 DEF Positive, Shown, Present, TypeOK
<1>4. CASE RestoreEntryFails
  <2>1. CASE UNCHANGED envVars
    BY <2>1 DEF Positive, Shown, Present, envVars
  <2>2. CASE ~UNCHANGED envVars
    <3>1. PICK p \in todo :
            /\ \E v \in Settings[p] \ {journal[p].original} : hw' = [hw EXCEPT ![p] = v]
            /\ author' = [author EXCEPT ![p] = "engine"]
            /\ base' = base
      BY <1>4, <2>2 DEF RestoreEntryFails
    <3>2. PICK v \in Settings[p] \ {journal[p].original} : hw' = [hw EXCEPT ![p] = v]
      BY <3>1
    <3>3. p \in Path /\ v \in Nat
      BY <3>1, <3>2, ConstantTypes DEF TypeOK
    <3>4. Present(p)
      BY <3>2, <3>3, AbsentSetting DEF Positive, Accepted, Owns, NoEntry
    <3>5. v > 0
      BY <3>2, <3>3, <3>4 DEF Present
    <3>6. QED
      BY <3>1, <3>2, <3>3, <3>4, <3>5 DEF Positive, Shown, Present, TypeOK
  <2>3. QED
    BY <2>1, <2>2
<1>5. CASE Foreign
  <2>1. PICK p \in Path : \E v \in Settings[p] :
            /\ v # hw[p]
            /\ hw' = [hw EXCEPT ![p] = v]
            /\ author' = [author EXCEPT ![p] = IF Mistakable(p, v) THEN "either" ELSE "system"]
    BY <1>5 DEF Foreign
  <2>2. PICK v \in Settings[p] : v # hw[p] /\ hw' = [hw EXCEPT ![p] = v]
    BY <2>1
  <2>3. \A q \in Path : q # p => hw'[q] = hw[q] /\ author'[q] = author[q]
    BY <2>1 DEF TypeOK
  <2>4. Present(p) /\ hw'[p] > 0
    <3>1. v \in Nat /\ hw'[p] = v
      BY <2>2, ConstantTypes DEF TypeOK
    <3>2. Present(p)
      BY <2>2, AbsentSetting DEF Positive, Shown
    <3>3. v # 0
      BY <2>2, <3>2 DEF Present
    <3>4. QED
      BY <3>1, <3>2, <3>3
  <2>5. base' = base
    BY <1>5 DEF Foreign
  <2>6. QED
    BY <2>3, <2>4, <2>5 DEF Positive, Shown, Present
<1>6. CASE Reboot
  <2>1. ASSUME NEW p \in Path
        PROVE  IF Present(p) THEN hw'[p] > 0 /\ base'[p] > 0
               ELSE hw'[p] = 0 /\ author'[p] = "system"
    <3>1. hw'[p] \in Settings[p] /\ hw'[p] \in Nat /\ base' = hw' /\ author'[p] = "system"
      BY <1>6, ConstantTypes DEF Reboot
    <3>2. QED
      BY <3>1, AbsentSetting DEF Present
  <2>2. QED
    BY <2>1 DEF Shown, Present
<1>7. CASE UNCHANGED <<hw, author, base>>
  BY <1>7 DEF Positive, Shown, Present
<1>8. QED
  BY <1>1, <1>2, <1>3, <1>4, <1>5, <1>6, <1>7 DEF Next, Daemon, Environment, Apply, Restore, Main,
     PlanSkip, PlanUnreachable, PlanNode, OwnMatch, OwnRefuse, Save, SaveFails,
     WriteRejected, ReadBack, ReadBackFails, ApplyDone, ApplyUnverified, RestoreForeign,
     RestoreSaved, RestoreSaveFails, RestoreDone, Window, WindowHold, WindowRelease, WindowBusy,
     WindowApply, ExitLoop, ExitRestore, ExitBusy, Exit, Start, Stop, Kill, envVars

\* Erasing an entry removes it and touches no other.
LEMMA EraseFacts ==
    ASSUME TypeOK, NEW p \in Path, Erase(p)
    PROVE  /\ ~Owns(journal', p) /\ \A q \in Path : q # p => journal'[q] = journal[q]
           /\ journal' \in [Path -> Entry] /\ ok' = ok
  BY DEF Erase, Owns, NoEntry, TypeOK

\* writeOwned() records, and saveJournal() saves, positive values of existing
\* files only, so that a start accepts every entry it finds.
LEMMA AcceptedStep ==
    ASSUME TypeOK, Positive, Next
    PROVE  Accepted(journal') /\ Accepted(disk')
<1>1. CASE UNCHANGED <<journal, disk>>
  BY <1>1 DEF Positive
<1>2. CASE OwnRecord
  <2>1. disk' = disk
    BY <1>2 DEF OwnRecord, diskVars
  <2>2. ASSUME NEW p \in Path, Owns(journal', p)
        PROVE  Present(p) /\ journal'[p].original > 0 /\ journal'[p].last > 0
    BY <1>2, <2>2, RecordFacts DEF Positive, Accepted, Owns
  <2>3. QED
    BY <2>1, <2>2 DEF Positive, Accepted
<1>3. CASE Save \/ RestoreSaved
  BY <1>3 DEF Save, RestoreSaved, RestoreDone, Positive
<1>4. CASE RestoreEntry \/ RestoreForeign
  <2>1. PICK p \in Path : Erase(p)
    BY <1>4 DEF RestoreEntry, RestoreForeign, TypeOK
  <2>2. disk' = disk
    BY <1>4 DEF RestoreEntry, RestoreForeign, diskVars
  <2>3. QED
    BY <2>1, <2>2, EraseFacts DEF Positive, Accepted, Owns
<1>5. CASE Start
  <2>1. disk' = disk
    BY <1>5 DEF Start, diskVars
  <2>2. ASSUME NEW p \in Path, Owns(journal', p)
        PROVE  journal'[p] = disk[p]
    BY <1>5, <2>2 DEF Start, Owns, NoEntry
  <2>3. QED
    BY <2>1, <2>2 DEF Positive, Accepted, Owns
<1>6. CASE Exit \/ Kill \/ Reboot
  <2>1. journal' = Empty /\ disk' = disk
    BY <1>6 DEF Exit, Kill, Reboot, Forget, diskVars
  <2>2. QED
    BY <2>1 DEF Positive, Accepted, Owns, Empty
<1>7. QED
  BY <1>1, <1>2, <1>3, <1>4, <1>5, <1>6 DEF Next, Daemon, Environment, Apply, Restore, Main,
     PlanSkip, PlanUnreachable, PlanNode, OwnMatch, OwnRefuse, SaveFails, Write, Fail,
     WriteRejected, ReadBack, ReadBackFails, ApplyDone, ApplyUnverified, RestoreEntryFails,
     RestoreSaveFails, RestoreDone, Window, WindowHold, WindowRelease, WindowBusy,
     WindowApply, ExitLoop, ExitRestore, ExitBusy, Stop, Foreign, diskVars

\* Every step keeps Positive: its three parts together.
LEMMA PositiveStep ==
    ASSUME TypeOK, Positive, Recorded, Next
    PROVE  Positive'
  BY TargetedStep, ShownStep, AcceptedStep DEF Positive, Accepted, Present, Owns
-----------------------------------------------------------------------------
(* The record on disk and the record in memory.                             *)

\* A value of the engine that both records may be asked about.
Settled(p) == author[p] = "engine" /\ p \notin unsettled

\* The entry that takes p back to what the system had there.
Faithful(j, p) == j[p] = [original |-> base[p], last |-> hw[p]]

\* What a foreign writer does to one path, and to no other.
LEMMA ForeignFacts ==
    ASSUME TypeOK, Foreign
    PROVE  \E p \in Path :
             /\ \A q \in Path : q # p =>
                  hw'[q] = hw[q] /\ author'[q] = author[q]
                  /\ (q \in unsettled' <=> q \in unsettled)
             /\ author'[p] # "engine"
             /\ base' = base
             /\ InGap(p) => p \in unsettled'
<1>1. PICK p \in Path : \E v \in Settings[p] :
            /\ hw' = [hw EXCEPT ![p] = v]
            /\ author' = [author EXCEPT ![p] = IF Mistakable(p, v) THEN "either" ELSE "system"]
            /\ unsettled' = IF InGap(p) THEN unsettled \cup {p}
                            ELSE IF Mistakable(p, v) THEN unsettled ELSE unsettled \ {p}
  BY DEF Foreign
<1>2. PICK v \in Settings[p] :
            /\ hw' = [hw EXCEPT ![p] = v]
            /\ author' = [author EXCEPT ![p] = IF Mistakable(p, v) THEN "either" ELSE "system"]
            /\ unsettled' = IF InGap(p) THEN unsettled \cup {p}
                            ELSE IF Mistakable(p, v) THEN unsettled ELSE unsettled \ {p}
  BY <1>1
<1>3. author'[p] # "engine"
  BY <1>2 DEF TypeOK
<1>4. base' = base
  BY DEF Foreign
<1>5. QED
  BY <1>2, <1>3, <1>4 DEF TypeOK

\* A settled path is owned, because what it shows is positive.
LEMMA SettledOwned ==
    ASSUME Positive, Remembered, Up, NEW p \in Path, Settled(p)
    PROVE  Owns(journal, p) /\ hw[p] = journal[p].last /\ journal[p].original = base[p]
<1>1. journal[p] = [original |-> base[p], last |-> hw[p]]
  BY DEF Remembered, Settled
<1>2. hw[p] > 0
  BY DEF Positive, Shown, Settled
<1>3. QED
  BY <1>1, <1>2 DEF Owns, NoEntry

\* OwnRecord: a new entry for a path nobody settled, or an owned entry set aside.
LEMMA OwnRecordKeeps ==
    ASSUME TypeOK, Positive, Remembered, OwnRecord, NEW p \in Path, Settled(p)'
    PROVE  /\ Settled(p) /\ p # Target
           /\ hw' = hw /\ base'[p] = base[p] /\ journal'[p] = journal[p] /\ disk' = disk
           /\ diskLive' = diskLive
<1>1. hw' = hw /\ author' = author /\ disk' = disk /\ diskLive' = diskLive /\ Up
  BY DEF OwnRecord, diskVars, Up
<1>2. p \notin unsettled
  BY DEF OwnRecord, Settled
<1>3. Settled(p)
  BY <1>1, <1>2 DEF Settled
<1>4. p # Target
  BY <1>1, <1>3, SettledOwned DEF OwnRecord, Settled
<1>5. QED
  BY <1>1, <1>3, <1>4, RecordFacts

\* A write that reaches the node leaves both records able to take it back: the
\* entry was moved to that value and saved before.
LEMMA WriteKeeps ==
    ASSUME TypeOK, Positive, Recoverable, Remembered, Recorded, Write
    PROVE  \A p \in Path : Settled(p)' =>
             diskLive' /\ Faithful(disk, p)' /\ Faithful(journal, p)'
<1>1. Target \in Path /\ Value \in Nat /\ Up
  BY TargetType DEF Write, Writing, Up
<1>2. PICK v : /\ hw' = [hw EXCEPT ![Target] = v]
               /\ unsettled' = IF v = Value THEN unsettled ELSE unsettled \cup {Target}
  BY DEF Write
<1>3. /\ author' = [author EXCEPT ![Target] = "engine"] /\ base' = base
      /\ journal' = journal /\ disk' = disk /\ diskLive' = diskLive
      /\ diskLive /\ disk = journal /\ journal[Target].last = Value
      /\ Target \notin unsettled => journal[Target].original = base[Target]
  BY DEF Write, Recorded, diskVars
<1>4. ASSUME NEW p \in Path, p # Target, Settled(p)'
      PROVE  Settled(p) /\ hw'[p] = hw[p]
  BY <1>1, <1>2, <1>3, <1>4 DEF Settled, TypeOK
<1>5. ASSUME NEW p \in Path, p # Target, Settled(p)'
      PROVE  Faithful(journal, p)'
  BY <1>1, <1>3, <1>4, <1>5 DEF Remembered, Settled, Faithful
<1>6. ASSUME NEW p \in Path, p = Target, Settled(p)'
      PROVE  Faithful(journal, p)'
  <2>1. v = Value /\ p \notin unsettled
    BY <1>2, <1>6 DEF Settled
  <2>2. hw'[p] = Value
    BY <1>1, <1>2, <1>6, <2>1 DEF TypeOK
  <2>3. journal[p] = [original |-> base[p], last |-> Value]
    BY <1>1, <1>3, <1>6, <2>1 DEF TypeOK
  <2>4. QED
    BY <1>3, <2>2, <2>3 DEF Faithful
<1>7. ASSUME NEW p \in Path, Settled(p)'
      PROVE  diskLive' /\ Faithful(disk, p)' /\ Faithful(journal, p)'
  BY <1>3, <1>5, <1>6, <1>7 DEF Faithful
<1>8. QED
  BY <1>7

\* Reading the value back changes nothing a record is asked about.
LEMMA ReadBackKeeps ==
    ASSUME TypeOK, Positive, Recoverable, Remembered, Recorded, ReadBack
    PROVE  \A p \in Path : Settled(p)' =>
             diskLive' /\ Faithful(disk, p)' /\ Faithful(journal, p)'
<1>1. Target \in Path /\ Up /\ hw[Target] = Value
  BY TargetType DEF ReadBack, Writing, Up
<1>2. /\ UNCHANGED <<hw, author, base, journal, disk, diskLive>>
      /\ diskLive /\ disk = journal /\ journal[Target].last = Value
      /\ unsettled' = IF journal[Target].original = base[Target]
                      THEN unsettled \ {Target} ELSE unsettled
  BY DEF ReadBack, Recorded, diskVars
<1>3. ASSUME NEW p \in Path, Settled(p)'
      PROVE  Faithful(journal, p)
  <2>1. CASE Settled(p)
    BY <1>1, <2>1 DEF Remembered, Settled, Faithful
  <2>2. CASE ~Settled(p)
    <3>1. p = Target /\ journal[p].original = base[p]
      BY <1>2, <1>3, <2>2 DEF Settled
    <3>2. QED
      BY <1>1, <1>2, <3>1 DEF Faithful, TypeOK
  <2>3. QED
    BY <2>1, <2>2
<1>4. QED
  BY <1>2, <1>3 DEF Faithful

\* restore() writing one original back: either the system's value is there
\* again, or the path was unsettled before and stays so.
LEMMA RestoreEntryKeeps ==
    ASSUME TypeOK, Positive, Remembered, RestoreEntry, NEW p \in Path, Settled(p)'
    PROVE  /\ Settled(p) /\ hw'[p] = hw[p] /\ base' = base /\ journal'[p] = journal[p]
           /\ disk' = disk /\ diskLive' = diskLive
<1>1. PICK q \in todo :
        /\ hw[q] = journal[q].last
        /\ Erase(q)
        /\ hw' = [hw EXCEPT ![q] = journal[q].original]
        /\ author' = IF journal[q].original = base[q]
                     THEN [author EXCEPT ![q] = "system"] ELSE author
        /\ unsettled' = IF journal[q].original = base[q] THEN unsettled \ {q} ELSE unsettled
  BY DEF RestoreEntry
<1>2. q \in Path /\ Up /\ base' = base /\ disk' = disk /\ diskLive' = diskLive
  BY DEF TypeOK, RestoreEntry, Up, diskVars
<1>3. p # q
  <2>1. CASE journal[q].original = base[q]
    BY <1>1, <1>2, <2>1 DEF Settled, TypeOK
  <2>2. CASE journal[q].original # base[q]
    BY <1>1, <1>2, <2>2, SettledOwned DEF Settled
  <2>3. QED
    BY <2>1, <2>2
<1>4. Settled(p) /\ hw'[p] = hw[p]
  BY <1>1, <1>2, <1>3 DEF Settled, TypeOK
<1>5. QED
  BY <1>1, <1>2, <1>3, <1>4, EraseFacts

\* A node that refuses its original value keeps its entry on both sides, and no
\* other node is touched.
LEMMA RestoreEntryFailsKeeps ==
    ASSUME TypeOK, RestoreEntryFails, NEW p \in Path, Settled(p)'
    PROVE  /\ Settled(p) /\ hw'[p] = hw[p] /\ base' = base /\ journal' = journal
           /\ disk' = disk /\ diskLive' = diskLive
<1>1. journal' = journal /\ disk' = disk /\ diskLive' = diskLive
  BY DEF RestoreEntryFails, diskVars
<1>2. CASE UNCHANGED envVars
  BY <1>1, <1>2 DEF envVars, Settled
<1>3. CASE ~UNCHANGED envVars
  <2>1. PICK q \in todo :
          /\ \E v \in Settings[q] \ {journal[q].original} : hw' = [hw EXCEPT ![q] = v]
          /\ author' = [author EXCEPT ![q] = "engine"]
          /\ unsettled' = unsettled \cup {q} /\ base' = base
    BY <1>3 DEF RestoreEntryFails
  <2>2. p # q
    BY <2>1 DEF Settled
  <2>3. QED
    BY <1>1, <2>1, <2>2 DEF Settled, TypeOK
<1>4. QED
  BY <1>2, <1>3

\* Dropping the entry of a node another writer has taken drops no entry of a
\* settled value of the engine.
LEMMA RestoreForeignKeeps ==
    ASSUME TypeOK, Positive, Remembered, RestoreForeign, NEW p \in Path, Settled(p)'
    PROVE  /\ Settled(p) /\ hw' = hw /\ base' = base /\ journal'[p] = journal[p]
           /\ disk' = disk /\ diskLive' = diskLive
<1>1. PICK q \in todo : hw[q] # journal[q].last /\ Erase(q)
  BY DEF RestoreForeign
<1>2. q \in Path /\ Up /\ UNCHANGED <<hw, author, base, unsettled, disk, diskLive>>
  BY DEF TypeOK, RestoreForeign, Up, diskVars, envVars
<1>3. Settled(p)
  BY <1>2 DEF Settled
<1>4. p # q
  BY <1>1, <1>2, <1>3, SettledOwned
<1>5. QED
  BY <1>1, <1>2, <1>3, <1>4, EraseFacts

\* The loader takes over every entry that answers for a settled path.
LEMMA StartKeeps ==
    ASSUME TypeOK, Positive, Recoverable, Start, NEW p \in Path, Settled(p)'
    PROVE  /\ Settled(p) /\ hw' = hw /\ base' = base /\ journal'[p] = disk[p]
           /\ disk' = disk /\ diskLive' = diskLive
<1>1. UNCHANGED <<hw, author, base, unsettled, disk, diskLive>>
  BY DEF Start, envVars, diskVars
<1>2. Settled(p) /\ diskLive /\ disk[p] = [original |-> base[p], last |-> hw[p]]
  BY <1>1 DEF Settled, Recoverable
<1>3. hw[p] > 0 /\ base[p] > 0
  BY <1>2 DEF Positive, Shown, Settled
<1>4. disk[p].original > 0 /\ disk[p].last > 0
  BY <1>2, <1>3
<1>5. journal'[p] = disk[p]
  BY <1>2, <1>4 DEF Start
<1>6. QED
  BY <1>1, <1>2, <1>5

\* One step keeps both records.
LEMMA RecordsStep ==
    ASSUME TypeOK, Positive, Recoverable, Remembered, Recorded, Next
    PROVE  Recoverable' /\ Remembered'
<1> SUFFICES ASSUME NEW p \in Path, Settled(p)'
             PROVE  diskLive' /\ Faithful(disk, p)' /\ (Up' => Faithful(journal, p)')
  BY DEF Recoverable, Remembered, Settled, Faithful, Up
<1>0. ASSUME Settled(p), Up, hw'[p] = hw[p], base'[p] = base[p], journal'[p] = journal[p],
             disk' = disk, diskLive' = diskLive
      PROVE  diskLive' /\ Faithful(disk, p)' /\ Faithful(journal, p)'
  BY <1>0 DEF Recoverable, Remembered, Settled, Faithful
<1>1. CASE UNCHANGED <<hw, author, base, unsettled, disk, diskLive, journal>> /\ (Up' => Up)
  BY <1>1 DEF Recoverable, Remembered, Settled, Faithful
<1>2. CASE OwnRecord
  <2>1. Up
    BY <1>2 DEF OwnRecord, Up
  <2>2. QED
    BY <1>2, <1>0, <2>1, OwnRecordKeeps
<1>3. CASE Save
  <2>1. Up /\ UNCHANGED <<hw, author, base, unsettled, journal>> /\ disk' = journal /\ diskLive' = TRUE
    BY <1>3 DEF Save, Up, envVars
  <2>2. QED
    BY <2>1 DEF Remembered, Settled, Faithful
<1>4. CASE Write
  BY <1>4, WriteKeeps
<1>5. CASE ReadBack
  BY <1>5, ReadBackKeeps
<1>6. CASE RestoreEntry
  <2>1. Up
    BY <1>6 DEF RestoreEntry, Up
  <2>2. QED
    BY <1>6, <1>0, <2>1, RestoreEntryKeeps
<1>7. CASE RestoreEntryFails
  <2>1. Up
    BY <1>7 DEF RestoreEntryFails, Up
  <2>2. QED
    BY <1>7, <1>0, <2>1, RestoreEntryFailsKeeps
<1>8. CASE RestoreForeign
  <2>1. Up
    BY <1>8 DEF RestoreForeign, Up
  <2>2. QED
    BY <1>8, <1>0, <2>1, RestoreForeignKeeps
<1>9. CASE RestoreSaved
  <2>1. Up /\ UNCHANGED <<hw, author, base, unsettled, journal>> /\ disk' = journal /\ diskLive' = TRUE
    BY <1>9 DEF RestoreSaved, RestoreDone, Up, envVars
  <2>2. QED
    BY <2>1 DEF Remembered, Settled, Faithful
<1>10. CASE RestoreSaveFails
  <2>1. Up /\ UNCHANGED <<hw, author, base, unsettled, journal, disk, diskLive>>
    BY <1>10 DEF RestoreSaveFails, RestoreDone, Up, envVars, diskVars
  <2>2. QED
    BY <2>1 DEF Recoverable, Remembered, Settled, Faithful
<1>11. CASE Start
  BY <1>11, StartKeeps DEF Recoverable, Settled, Faithful
<1>12. CASE Exit \/ Kill
  <2>1. ~Up' /\ UNCHANGED <<hw, author, base, unsettled, disk, diskLive>>
    BY <1>12 DEF Exit, Kill, Forget, Up, envVars, diskVars
  <2>2. QED
    BY <2>1 DEF Recoverable, Settled, Faithful
<1>13. CASE Reboot
  BY <1>13 DEF Reboot, Settled
<1>14. CASE Foreign
  <2>1. UNCHANGED <<disk, diskLive, journal, pc>>
    BY <1>14 DEF Foreign, diskVars
  <2>2. PICK q \in Path :
          /\ \A r \in Path : r # q =>
               hw'[r] = hw[r] /\ author'[r] = author[r]
               /\ (r \in unsettled' <=> r \in unsettled)
          /\ author'[q] # "engine" /\ base' = base
    BY <1>14, ForeignFacts
  <2>3. Settled(p) /\ hw'[p] = hw[p] /\ base' = base
    BY <2>2 DEF Settled
  <2>4. QED
    BY <2>1, <2>3 DEF Recoverable, Remembered, Settled, Faithful, Up
<1>15. QED
  BY <1>1, <1>2, <1>3, <1>4, <1>5, <1>6, <1>7, <1>8, <1>9, <1>10, <1>11, <1>12, <1>13, <1>14
     DEF Next, Daemon, Environment, Apply, Restore, Main, Up,
     PlanSkip, PlanUnreachable, PlanNode, OwnMatch, OwnRefuse, SaveFails, Fail,
     WriteRejected, ReadBackFails, ApplyDone, ApplyUnverified, Window, WindowHold,
     WindowRelease, WindowBusy, WindowApply, ExitLoop, ExitRestore, ExitBusy, Stop,
     envVars, diskVars
-----------------------------------------------------------------------------
(* The order of record, save, write and read-back; the restore's progress.  *)

\* writeOwned() reaches the write only with its value recorded, and saved.
LEMMA RecordedStep ==
    ASSUME TypeOK, Positive, Remembered, Recorded, Next
    PROVE  Recorded'
<1>1. CASE OwnRecord
  <2>1. writes' = writes /\ pc' = "save" /\ author' = author /\ Up /\ pc = "own"
    BY <1>1 DEF OwnRecord, applyVars, Up
  <2>2. Target' = Target /\ Value' = Value
    BY <2>1 DEF Target, Value
  <2>3. Value > 0 /\ journal'[Target].last = Value
    BY <1>1, RecordFacts
  <2>4. ASSUME Target \notin unsettled'
        PROVE  journal'[Target].original = base'[Target]
    <3>1. ~Owns(journal, Target) /\ Target \notin unsettled
      BY <1>1, <2>4 DEF OwnRecord
    <3>2. author[Target] # "engine"
      BY <1>1, <2>1, <3>1, RecordFacts, SettledOwned DEF Settled
    <3>3. QED
      BY <1>1, <3>1, <3>2, RecordFacts
  <2>5. QED
    BY <2>1, <2>2, <2>3, <2>4 DEF Recorded
<1>2. CASE Save
  BY <1>2 DEF Save, applyVars, envVars, Recorded, Target, Value
<1>3. CASE Write
  BY <1>3 DEF Write, applyVars, diskVars, Recorded, Target, Value
<1>4. CASE Stop
  BY <1>4 DEF Stop, applyVars, envVars, diskVars, Recorded, Target, Value
<1>5. CASE Foreign
  <2>1. PICK q \in Path :
          /\ \A r \in Path : r # q => (r \in unsettled' <=> r \in unsettled)
          /\ base' = base
          /\ InGap(q) => q \in unsettled'
    BY <1>5, ForeignFacts
  <2>2. UNCHANGED <<writes, pc, journal, disk, diskLive>>
    BY <1>5 DEF Foreign, applyVars, diskVars
  <2>3. Target' = Target /\ Value' = Value
    BY <2>2 DEF Target, Value
  <2>4. ASSUME pc \in {"save", "write"}, Target \notin unsettled'
        PROVE  Target \notin unsettled
    BY <2>1, <2>4, TargetType DEF InGap, Writing
  <2>5. QED
    BY <2>1, <2>2, <2>3, <2>4 DEF Recorded
<1>6. CASE OwnMatch \/ ReadBack
  BY <1>6, WrittenType DEF OwnMatch, ReadBack, Recorded
<1>7. CASE RestoreSaved \/ RestoreSaveFails
  <2>1. PICK saved \in BOOLEAN : RestoreDone(saved)
    BY <1>7 DEF RestoreSaved, RestoreSaveFails
  <2>2. (saved /\ ok) \in BOOLEAN
    BY DEF TypeOK
  <2>3. pc' \in {"idle", "ended", "exit"}
    BY <2>1, <2>2, ReturnedType DEF RestoreDone
  <2>4. QED
    BY <2>3 DEF Recorded
<1>8. CASE ExitBusy
  BY <1>8, ReturnedType DEF ExitBusy, Recorded
<1>9. CASE pc' \notin {"save", "write", "readback"}
  BY <1>9 DEF Recorded
<1>10. QED
  BY <1>1, <1>2, <1>3, <1>4, <1>5, <1>6, <1>7, <1>8, <1>9
     DEF Next, Daemon, Environment, Apply, Restore, Main,
     PlanSkip, PlanUnreachable, PlanNode, OwnRefuse, SaveFails, Fail, BeginRestore,
     WriteRejected, ReadBackFails, ApplyDone, ApplyUnverified, RestoreEntry, RestoreEntryFails,
     RestoreForeign, Window, WindowHold, WindowRelease, WindowBusy, WindowApply, ExitLoop,
     ExitRestore, Exit, Start, Kill, Reboot, Forget

\* restore() still has every owned node before it until it succeeds on it.
LEMMA VisitingStep ==
    ASSUME TypeOK, Visiting, Next
    PROVE  Visiting'
<1>1. CASE RestoreEntry \/ RestoreForeign
  <2>1. PICK p \in todo : todo' = todo \ {p} /\ Erase(p)
    BY <1>1 DEF RestoreEntry, RestoreForeign
  <2>2. p \in Path
    BY <2>1 DEF TypeOK
  <2>3. Owned(journal') = Owned(journal) \ {p} /\ ok' = ok
    BY <2>1, <2>2, EraseFacts DEF Owned, Owns
  <2>4. pc = "restore"
    BY <1>1 DEF RestoreEntry, RestoreForeign
  <2>5. QED
    BY <2>1, <2>3, <2>4 DEF Visiting
<1>2. CASE RestoreEntryFails
  BY <1>2 DEF RestoreEntryFails, Visiting
<1>3. CASE Stop \/ Foreign
  BY <1>3 DEF Stop, Foreign, restoreVars, Visiting, Owned, Owns
<1>4. CASE todo' = Owned(journal')
  BY <1>4 DEF Visiting
<1>5. CASE OwnMatch \/ ReadBack
  BY <1>5, WrittenType DEF OwnMatch, ReadBack, Visiting
<1>6. CASE RestoreSaved \/ RestoreSaveFails
  <2>1. PICK saved \in BOOLEAN : RestoreDone(saved)
    BY <1>6 DEF RestoreSaved, RestoreSaveFails
  <2>2. (saved /\ ok) \in BOOLEAN
    BY DEF TypeOK
  <2>3. pc' \in {"idle", "ended", "exit"}
    BY <2>1, <2>2, ReturnedType DEF RestoreDone
  <2>4. QED
    BY <2>3 DEF Visiting
<1>7. CASE ExitBusy
  BY <1>7, ReturnedType DEF ExitBusy, Visiting
<1>8. CASE pc' # "restore"
  BY <1>8 DEF Visiting
<1>9. QED
  BY <1>1, <1>2, <1>3, <1>4, <1>5, <1>6, <1>7, <1>8
     DEF Next, Daemon, Environment, Apply, Restore, Main,
     PlanSkip, PlanUnreachable, PlanNode, OwnRefuse, OwnRecord, Save, SaveFails, Fail,
     BeginRestore, Write, WriteRejected, ReadBackFails, ApplyDone, ApplyUnverified, Window,
     WindowHold, WindowRelease, WindowBusy, WindowApply, ExitLoop,
     ExitRestore, Exit, Start, Kill, Reboot, Forget

\* stopped_restored is reported only with nothing settled left on a node.
LEMMA HandedStep ==
    ASSUME TypeOK, Positive, Remembered, Visiting, Handed, Next
    PROVE  Handed'
<1>1. CASE RestoreSaved \/ RestoreSaveFails
  <2>1. PICK saved \in BOOLEAN : RestoreDone(saved)
    BY <1>1 DEF RestoreSaved, RestoreSaveFails
  <2>2. pc = "restore" /\ todo = {} /\ Up /\ UNCHANGED <<author, unsettled>>
    BY <2>1 DEF RestoreDone, Up, envVars
  <2>3. status # "stopped_restored"
    BY <2>2 DEF Handed
  <2>4. CASE why = "exit" /\ saved /\ ok
    <3>1. pc' = "ended"
      BY <2>1, <2>4 DEF RestoreDone, Returned
    <3>2. ASSUME NEW p \in Path
          PROVE  ~Settled(p)
      BY <2>2, <2>4, SettledOwned DEF Visiting, Owned
    <3>3. QED
      BY <2>2, <3>1, <3>2 DEF Handed, Settled
  <2>5. CASE ~(why = "exit" /\ saved /\ ok)
    <3>1. why \in {"startup", "window", "reject", "exit"}
      BY DEF TypeOK
    <3>2. status' # "stopped_restored"
      BY <2>1, <2>3, <2>5, <3>1 DEF RestoreDone, Returned
    <3>3. QED
      BY <3>2 DEF Handed
  <2>6. QED
    BY <2>4, <2>5
<1>2. CASE ExitBusy
  <2>1. status # "stopped_restored"
    BY <1>2 DEF ExitBusy, Handed
  <2>2. why \in {"startup", "window", "reject", "exit"}
    BY DEF TypeOK
  <2>3. status' # "stopped_restored"
    BY <1>2, <2>1, <2>2 DEF ExitBusy, Returned
  <2>4. QED
    BY <2>3 DEF Handed
<1>3. CASE Exit
  BY <1>3 DEF Exit, Forget, envVars, Handed
<1>4. CASE Start \/ Kill \/ Reboot
  BY <1>4 DEF Start, Kill, Reboot, Handed
<1>5. CASE Foreign
  <2>1. UNCHANGED <<pc, status>>
    BY <1>5 DEF Foreign, mainVars
  <2>2. PICK q \in Path :
          /\ \A r \in Path : r # q =>
               author'[r] = author[r] /\ (r \in unsettled' <=> r \in unsettled)
          /\ author'[q] # "engine"
    BY <1>5, ForeignFacts
  <2>3. QED
    BY <2>1, <2>2 DEF Handed
<1>6. CASE pc \notin {"ended", "down"} /\ status' = status
  BY <1>6 DEF Handed
<1>7. QED
  BY <1>1, <1>2, <1>3, <1>4, <1>5, <1>6
     DEF Next, Daemon, Environment, Apply, Restore, Main,
     PlanSkip, PlanUnreachable, PlanNode, OwnMatch, OwnRefuse, OwnRecord, Save, SaveFails,
     Write, WriteRejected, ReadBack, ReadBackFails, ApplyDone, ApplyUnverified,
     RestoreEntry, RestoreEntryFails, RestoreForeign, Window,
     WindowHold, WindowRelease, WindowBusy, WindowApply, ExitLoop,
     ExitRestore, Stop, mainVars
-----------------------------------------------------------------------------
(* Where the journal is always saved and nobody writes in the gap, the file  *)
(* tells the values of others from those of the engine.                      *)

\* But for the entry being recorded, the journal is in the file.
Filed ==
    Up => \A p \in Path :
        Owns(journal, p) /\ ~(pc = "save" /\ p = Target) => diskLive /\ disk[p] = journal[p]

\* Outside restore() the file owns nothing that the journal does not.
Kept ==
    Up /\ pc # "restore" /\ diskLive => \A p \in Path :
        Owns(disk, p) => Owns(journal, p) /\ journal[p].original = disk[p].original

\* A value of others that an entry names as the engine's last is its original.
Distinct ==
    diskLive => \A p \in Path :
        author[p] = "system" /\ Owns(disk, p) /\ hw[p] = disk[p].last => disk[p].original = hw[p]

\* The value of others that is about to be replaced is recorded.
Guarded ==
    pc \in {"save", "write"} /\ author[Target] = "system" => journal[Target].original = hw[Target]

\* What another writer does, and between a check and its write does not.
LEMMA ForeignMove ==
    ASSUME TypeOK, Foreign
    PROVE  \E p \in Path : \E v \in Nat :
             /\ v # hw[p] /\ (InGap(p) => "gap" \in Faults)
             /\ hw'[p] = v /\ author'[p] = IF Mistakable(p, v) THEN "either" ELSE "system"
             /\ unsettled' = IF InGap(p) THEN unsettled \cup {p}
                             ELSE IF Mistakable(p, v) THEN unsettled ELSE unsettled \ {p}
             /\ \A q \in Path : q # p => hw'[q] = hw[q] /\ author'[q] = author[q]
<1>1. PICK p \in Path : \E v \in Settings[p] :
            /\ v # hw[p] /\ (InGap(p) => "gap" \in Faults)
            /\ hw' = [hw EXCEPT ![p] = v]
            /\ author' = [author EXCEPT ![p] = IF Mistakable(p, v) THEN "either" ELSE "system"]
            /\ unsettled' = IF InGap(p) THEN unsettled \cup {p}
                            ELSE IF Mistakable(p, v) THEN unsettled ELSE unsettled \ {p}
  BY DEF Foreign
<1>2. PICK v \in Settings[p] :
            /\ v # hw[p] /\ (InGap(p) => "gap" \in Faults)
            /\ hw' = [hw EXCEPT ![p] = v]
            /\ author' = [author EXCEPT ![p] = IF Mistakable(p, v) THEN "either" ELSE "system"]
            /\ unsettled' = IF InGap(p) THEN unsettled \cup {p}
                            ELSE IF Mistakable(p, v) THEN unsettled ELSE unsettled \ {p}
  BY <1>1
<1>3. v \in Nat
  BY <1>2, ConstantTypes
<1>4. QED
  BY <1>2, <1>3 DEF TypeOK

\* atomicText() keeps the file and the std::map together.
LEMMA FiledStep ==
    ASSUME "save" \notin Faults, TypeOK, Filed, Kept, Next
    PROVE  Filed' /\ Kept'
<1>1. CASE /\ UNCHANGED <<journal, disk, diskLive>> /\ Up /\ (pc = "restore" => pc' = "restore")
           /\ pc # "save" \/ (pc' = "save" /\ writes' = writes)
  BY <1>1 DEF Filed, Kept, Owns, Target
<1>2. CASE OwnRecord
  <2>1. /\ disk' = disk /\ diskLive' = diskLive /\ pc = "own" /\ pc' = "save" /\ Target' = Target
        /\ Target \in Path
    BY <1>2, TargetType DEF OwnRecord, diskVars, applyVars, Target, Writing
  <2>2. journal' = [journal EXCEPT ![Target] =
                      [original |-> IF Owns(journal, Target) THEN journal[Target].original
                                    ELSE hw[Target],
                       last |-> Value]] /\ Value > 0
    BY <1>2 DEF OwnRecord
  <2>3. /\ \A p \in Path : p # Target => journal'[p] = journal[p]
        /\ journal'[Target].last > 0
        /\ Owns(journal, Target) => journal'[Target].original = journal[Target].original
    BY <2>1, <2>2 DEF TypeOK
  <2>4. Owns(journal', Target)
    BY <2>3 DEF Owns, NoEntry
  <2>5. Filed'
    BY <2>1, <2>3 DEF Filed, Owns, Up
  <2>6. Kept'
    <3> SUFFICES ASSUME diskLive, NEW p \in Path, Owns(disk, p)
                 PROVE  Owns(journal', p) /\ journal'[p].original = disk[p].original
      BY <2>1 DEF Kept, Owns
    <3>1. Owns(journal, p) /\ journal[p].original = disk[p].original
      BY <2>1 DEF Kept, Up
    <3>2. QED
      BY <2>1, <2>3, <2>4, <3>1 DEF Owns
  <2>7. QED
    BY <2>5, <2>6
<1>3. CASE Save \/ RestoreSaved
  <2>1. journal' = journal /\ disk' = journal /\ diskLive' = TRUE
    BY <1>3 DEF Save, RestoreSaved, RestoreDone
  <2>2. QED
    BY <2>1 DEF Filed, Kept, Owns
<1>4. CASE RestoreEntry \/ RestoreForeign
  <2>1. PICK p \in Path : Erase(p)
    BY <1>4 DEF RestoreEntry, RestoreForeign, TypeOK
  <2>2. UNCHANGED <<disk, diskLive>> /\ pc = "restore" /\ pc' = "restore"
    BY <1>4 DEF RestoreEntry, RestoreForeign, diskVars
  <2>3. ~Owns(journal', p) /\ \A q \in Path : q # p => journal'[q] = journal[q]
    BY <2>1, EraseFacts
  <2>4. QED
    BY <2>2, <2>3 DEF Filed, Kept, Owns, Up
<1>5. CASE Start
  <2>1. disk' = disk /\ diskLive' = diskLive /\ pc' = "restore"
    BY <1>5 DEF Start, diskVars, BeginRestore
  <2>2. ASSUME NEW p \in Path, Owns(journal', p)
        PROVE  diskLive /\ journal'[p] = disk[p]
    BY <1>5, <2>2 DEF Start, Owns, NoEntry
  <2>3. QED
    BY <2>1, <2>2 DEF Filed, Kept, Owns
<1>6. CASE Exit \/ Kill \/ Reboot
  BY <1>6 DEF Exit, Kill, Reboot, Forget, Filed, Kept, Up
<1>7. CASE OwnMatch \/ ReadBack
  <2>1. UNCHANGED <<journal, disk, diskLive>> /\ pc \in {"own", "readback"}
    BY <1>7 DEF OwnMatch, ReadBack, diskVars
  <2>2. QED
    BY <1>1, <2>1 DEF Up
<1>8. CASE Stop \/ Foreign
  BY <1>1, <1>8 DEF Stop, Foreign, diskVars, applyVars, Filed, Kept, Owns, Target, Up
<1>9. QED
  BY <1>1, <1>2, <1>3, <1>4, <1>5, <1>6, <1>7, <1>8
     DEF Next, Daemon, Environment, Apply, Restore, Main, Up,
     PlanSkip, PlanUnreachable, PlanNode, OwnRefuse, SaveFails, Fail, BeginRestore, Write,
     WriteRejected, ReadBackFails, ApplyDone, ApplyUnverified, RestoreEntryFails,
     RestoreSaveFails, Window, WindowHold, WindowRelease, WindowBusy, WindowApply, ExitLoop,
     ExitRestore, ExitBusy, diskVars

\* What restore() gives back is in the file already: an entry that names what
\* the node shows is owned, because what it shows is positive.
LEMMA RestoredOwned ==
    ASSUME TypeOK, Positive, NEW p \in Path, hw[p] = journal[p].last, Owns(disk, p)
    PROVE  Owns(journal, p)
<1>1. hw[p] > 0
  BY DEF Positive, Accepted, Shown
<1>2. QED
  BY <1>1 DEF Owns, NoEntry, TypeOK

\* No step makes an entry of the file name a value of others as the engine's.
LEMMA DistinctStep ==
    ASSUME "save" \notin Faults, TypeOK, Positive, Filed, Distinct, Guarded, Next
    PROVE  Distinct'
<1>1. CASE UNCHANGED <<hw, author, disk, diskLive>>
  BY <1>1 DEF Distinct, Owns
<1>2. CASE Save \/ RestoreSaved
  <2>1. UNCHANGED <<hw, author, journal>> /\ disk' = journal /\ diskLive' = TRUE /\ Up
        /\ pc \in {"save", "restore"}
    BY <1>2 DEF Save, RestoreSaved, RestoreDone, envVars, Up
  <2>2. ASSUME NEW p \in Path, author[p] = "system", Owns(journal, p), hw[p] = journal[p].last
        PROVE  journal[p].original = hw[p]
    <3>1. CASE pc = "save" /\ p = Target
      BY <2>2, <3>1 DEF Guarded
    <3>2. CASE ~(pc = "save" /\ p = Target)
      <4>1. diskLive /\ disk[p] = journal[p]
        BY <2>1, <2>2, <3>2 DEF Filed
      <4>2. QED
        BY <2>2, <4>1 DEF Distinct, Owns
    <3>3. QED
      BY <3>1, <3>2
  <2>3. QED
    BY <2>1, <2>2 DEF Distinct, Owns
<1>3. CASE Write
  <2>1. Target \in Path /\ disk' = disk /\ diskLive' = diskLive
    BY <1>3, TargetType DEF Write, Writing, diskVars
  <2>2. author'[Target] = "engine" /\ \A p \in Path : p # Target => hw'[p] = hw[p] /\ author'[p] = author[p]
    <3>1. PICK v : hw' = [hw EXCEPT ![Target] = v] /\ author' = [author EXCEPT ![Target] = "engine"]
      BY <1>3 DEF Write
    <3>2. QED
      BY <2>1, <3>1 DEF TypeOK
  <2>3. QED
    BY <2>1, <2>2 DEF Distinct, Owns
<1>4. CASE RestoreEntry
  <2>1. PICK p \in todo : hw[p] = journal[p].last /\ hw' = [hw EXCEPT ![p] = journal[p].original]
            /\ author' = IF journal[p].original = base[p]
                         THEN [author EXCEPT ![p] = "system"] ELSE author
    BY <1>4 DEF RestoreEntry
  <2>2. p \in Path /\ disk' = disk /\ diskLive' = diskLive /\ Up /\ pc # "save"
    BY <1>4 DEF RestoreEntry, TypeOK, diskVars, Up
  <2>3. \A q \in Path : q # p => hw'[q] = hw[q] /\ author'[q] = author[q]
    BY <2>1, <2>2 DEF TypeOK
  <2>4. ASSUME Owns(disk, p)
        PROVE  disk[p].original = hw'[p]
    <3>1. disk[p] = journal[p]
      BY <2>1, <2>2, <2>4, RestoredOwned DEF Filed
    <3>2. QED
      BY <2>1, <2>2, <3>1 DEF TypeOK
  <2>5. QED
    BY <2>2, <2>3, <2>4 DEF Distinct, Owns
<1>5. CASE RestoreEntryFails
  <2>1. PICK p \in todo : \/ UNCHANGED envVars
                          \/ /\ \E v \in Settings[p] \ {journal[p].original} : hw' = [hw EXCEPT ![p] = v]
                             /\ author' = [author EXCEPT ![p] = "engine"]
    BY <1>5 DEF RestoreEntryFails
  <2>2. p \in Path /\ disk' = disk /\ diskLive' = diskLive
    BY <1>5 DEF RestoreEntryFails, TypeOK, diskVars
  <2>3. CASE UNCHANGED envVars
    BY <1>1, <2>2, <2>3 DEF envVars
  <2>4. CASE \E v \in Settings[p] \ {journal[p].original} :
               hw' = [hw EXCEPT ![p] = v] /\ author' = [author EXCEPT ![p] = "engine"]
    <3>1. author'[p] = "engine" /\ \A q \in Path : q # p => hw'[q] = hw[q] /\ author'[q] = author[q]
      BY <2>2, <2>4 DEF TypeOK
    <3>2. QED
      BY <2>2, <3>1 DEF Distinct, Owns
  <2>5. QED
    BY <2>1, <2>3, <2>4
<1>6. CASE Reboot
  BY <1>6 DEF Reboot, Distinct
<1>7. CASE Foreign
  <2>1. PICK p \in Path, v \in Nat :
             /\ hw'[p] = v /\ author'[p] = IF Mistakable(p, v) THEN "either" ELSE "system"
             /\ \A q \in Path : q # p => hw'[q] = hw[q] /\ author'[q] = author[q]
    BY <1>7, ForeignMove
  <2>2. disk' = disk /\ diskLive' = diskLive
    BY <1>7 DEF Foreign, diskVars
  <2>3. ASSUME diskLive, Owns(disk, p), hw'[p] = disk[p].last
        PROVE  author'[p] # "system"
    BY <2>1, <2>3 DEF Mistakable
  <2>4. QED
    BY <2>1, <2>2, <2>3 DEF Distinct, Owns
<1>8. QED
  BY <1>1, <1>2, <1>3, <1>4, <1>5, <1>6, <1>7
     DEF Next, Daemon, Environment, Apply, Restore, Main,
     PlanSkip, PlanUnreachable, PlanNode, OwnMatch, OwnRefuse, OwnRecord, SaveFails,
     WriteRejected, ReadBack, ReadBackFails, ApplyDone, ApplyUnverified, RestoreForeign,
     RestoreSaveFails, Window, WindowHold, WindowRelease, WindowBusy, WindowApply, ExitLoop,
     ExitRestore, ExitBusy, Exit, Start, Stop, Kill, envVars, diskVars

\* From the check to the write, the value checked stays and is the original.
LEMMA GuardedStep ==
    ASSUME "gap" \notin Faults, TypeOK, Positive, Filed, Kept, Distinct, Guarded, Next
    PROVE  Guarded'
<1>1. CASE OwnRecord
  <2>1. UNCHANGED <<hw, author>> /\ Target' = Target /\ pc = "own" /\ Target \in Path
        /\ (Owns(journal, Target) => hw[Target] = journal[Target].last)
    BY <1>1, TargetType DEF OwnRecord, applyVars, Target, Writing
  <2>2. ASSUME author[Target] = "system", Owns(journal, Target)
        PROVE  journal[Target].original = hw[Target]
    <3>1. diskLive /\ disk[Target] = journal[Target]
      BY <2>1, <2>2 DEF Filed, Up
    <3>2. QED
      BY <2>1, <2>2, <3>1 DEF Distinct, Owns
  <2>3. QED
    BY <1>1, <2>1, <2>2, RecordFacts DEF Guarded
<1>2. CASE Save \/ Stop
  BY <1>2 DEF Save, Stop, envVars, applyVars, Guarded, Target
<1>3. CASE Foreign
  <2>1. PICK p \in Path, v \in Nat :
             /\ (InGap(p) => "gap" \in Faults)
             /\ \A q \in Path : q # p => hw'[q] = hw[q] /\ author'[q] = author[q]
    BY <1>3, ForeignMove
  <2>2. UNCHANGED <<pc, journal>> /\ Target' = Target
    BY <1>3 DEF Foreign, applyVars, Target
  <2>3. ASSUME pc \in {"save", "write"}
        PROVE  Target \in Path /\ p # Target
    BY <2>1, <2>3, TargetType DEF InGap, Writing
  <2>4. QED
    BY <2>1, <2>2, <2>3 DEF Guarded
<1>4. CASE pc' \notin {"save", "write"}
  BY <1>4 DEF Guarded
<1>5. CASE OwnMatch \/ ReadBack
  BY <1>5, WrittenType DEF OwnMatch, ReadBack, Guarded
<1>6. CASE RestoreSaved \/ RestoreSaveFails
  <2>1. PICK saved \in BOOLEAN : RestoreDone(saved)
    BY <1>6 DEF RestoreSaved, RestoreSaveFails
  <2>2. (saved /\ ok) \in BOOLEAN
    BY DEF TypeOK
  <2>3. pc' \in {"idle", "ended", "exit"}
    BY <2>1, <2>2, ReturnedType DEF RestoreDone
  <2>4. QED
    BY <2>3 DEF Guarded
<1>7. CASE ExitBusy
  BY <1>7, ReturnedType DEF ExitBusy, Guarded
<1>8. QED
  BY <1>1, <1>2, <1>3, <1>4, <1>5, <1>6, <1>7
     DEF Next, Daemon, Environment, Apply, Restore, Main,
     PlanSkip, PlanUnreachable, PlanNode, OwnRefuse, SaveFails, Fail, BeginRestore, Write,
     WriteRejected, ReadBackFails, ApplyDone, ApplyUnverified, RestoreEntry, RestoreEntryFails,
     RestoreForeign, Window, WindowHold, WindowRelease, WindowBusy, WindowApply, ExitLoop,
     ExitRestore, Exit, Start, Kill, Reboot, Forget
-----------------------------------------------------------------------------
(* Where no write fails and nobody is killed, no entry stays unconfirmed.    *)

\* Every entry takes its node back to what the system had there.
Based ==
    \A p \in Path : /\ Owns(journal, p) => journal[p].original = base[p]
                    /\ diskLive /\ Owns(disk, p) => disk[p].original = base[p]

\* An entry may not match its node while it is being rewritten, and only then.
Unconfirmed ==
    \A p \in unsettled : /\ pc \in {"save", "write", "readback"} /\ p = Target
                         /\ pc = "readback" => hw[p] = Value

\* The faults left: a held lock, other writers also in the gap, a new boot.
Undisturbed == {"kill", "reject", "clamp", "save"} \cap Faults = {}

\* The base of a node moves only when it is recorded afresh.
LEMMA BasedStep ==
    ASSUME Undisturbed, TypeOK, Positive, Remembered, Filed, Kept, Based, Unconfirmed, Next
    PROVE  Based'
<1>1. CASE UNCHANGED <<base, journal, disk, diskLive>>
  BY <1>1 DEF Based, Owns
<1>2. CASE OwnRecord
  <2>1. UNCHANGED <<disk, diskLive>> /\ Up /\ pc = "own"
    BY <1>2 DEF OwnRecord, diskVars, Up
  <2>2. ASSUME ~Owns(journal, Target)
        PROVE  journal'[Target].original = base'[Target]
    <3>1. Target \notin unsettled
      BY <2>1 DEF Unconfirmed
    <3>2. author[Target] # "engine"
      BY <1>2, <2>1, <2>2, <3>1, RecordFacts, SettledOwned DEF Settled
    <3>3. QED
      BY <1>2, <2>2, <3>2, RecordFacts
  <2>3. ASSUME Owns(journal, Target)
        PROVE  journal'[Target].original = base'[Target] /\ base'[Target] = base[Target]
    BY <1>2, <2>3, RecordFacts DEF Based
  <2>4. diskLive /\ Owns(disk, Target) => Owns(journal, Target)
    BY <1>2, <2>1, RecordFacts DEF Kept
  <2>5. ASSUME NEW p \in Path
        PROVE  /\ Owns(journal', p) => journal'[p].original = base'[p]
               /\ diskLive' /\ Owns(disk', p) => disk'[p].original = base'[p]
    <3>1. CASE p = Target
      BY <2>1, <2>2, <2>3, <2>4, <3>1 DEF Based, Owns
    <3>2. CASE p # Target
      BY <1>2, <2>1, <3>2, RecordFacts DEF Based, Owns
    <3>3. QED
      BY <3>1, <3>2
  <2>6. QED
    BY <2>5 DEF Based
<1>3. CASE Save \/ RestoreSaved
  BY <1>3 DEF Save, RestoreSaved, RestoreDone, envVars, Based, Owns
<1>4. CASE RestoreEntry \/ RestoreForeign
  <2>1. PICK p \in Path : Erase(p)
    BY <1>4 DEF RestoreEntry, RestoreForeign, TypeOK
  <2>2. UNCHANGED <<base, disk, diskLive>>
    BY <1>4 DEF RestoreEntry, RestoreForeign, diskVars, envVars
  <2>3. QED
    BY <2>1, <2>2, EraseFacts DEF Based, Owns
<1>5. CASE Start
  <2>1. UNCHANGED <<base, disk, diskLive>>
    BY <1>5 DEF Start, diskVars, envVars
  <2>2. ASSUME NEW p \in Path, Owns(journal', p)
        PROVE  diskLive /\ journal'[p] = disk[p]
    BY <1>5, <2>2 DEF Start, Owns, NoEntry
  <2>3. QED
    BY <2>1, <2>2 DEF Based, Owns
<1>6. CASE Exit \/ Kill \/ Reboot
  <2>1. journal' = Empty /\ (UNCHANGED <<base, disk, diskLive>> \/ diskLive' = FALSE)
    BY <1>6 DEF Exit, Kill, Reboot, Forget, diskVars, envVars
  <2>2. \A p \in Path : ~Owns(journal', p)
    BY <2>1 DEF Owns, Empty
  <2>3. QED
    BY <2>1, <2>2 DEF Based, Owns
<1>7. CASE RestoreEntryFails
  BY <1>7 DEF RestoreEntryFails, Undisturbed
<1>8. QED
  BY <1>1, <1>2, <1>3, <1>4, <1>5, <1>6, <1>7
     DEF Next, Daemon, Environment, Apply, Restore, Main,
     PlanSkip, PlanUnreachable, PlanNode, OwnMatch, OwnRefuse, SaveFails, Write,
     WriteRejected, ReadBack, ReadBackFails, ApplyDone, ApplyUnverified,
     RestoreSaveFails, RestoreDone, Window, WindowHold, WindowRelease, WindowBusy, WindowApply,
     ExitLoop, ExitRestore, ExitBusy, Stop, Foreign, envVars, diskVars

\* A write that is read back settles its entry; one that is not was another
\* writer's before the read-back came.
LEMMA UnconfirmedStep ==
    ASSUME Undisturbed, TypeOK, Positive, Recorded, Based, Unconfirmed, Next
    PROVE  Unconfirmed'
<1>1. CASE OwnRecord
  <2>1. unsettled = {} /\ pc' = "save" /\ Target' = Target
    BY <1>1 DEF OwnRecord, Unconfirmed, applyVars, Target
  <2>2. unsettled' \subseteq {Target}
    BY <1>1, <2>1 DEF OwnRecord
  <2>3. QED
    BY <2>1, <2>2 DEF Unconfirmed
<1>2. CASE Save
  BY <1>2 DEF Save, envVars, applyVars, Unconfirmed, Target
<1>3. CASE Write
  <2>1. hw' = [hw EXCEPT ![Target] = Value] /\ unsettled' = unsettled
    BY <1>3 DEF Write, Undisturbed
  <2>2. pc' = "readback" /\ writes' = writes /\ pc = "write" /\ Target \in Path
    BY <1>3, TargetType DEF Write, applyVars, Writing
  <2>3. hw'[Target] = Value /\ Target' = Target /\ Value' = Value
    BY <2>1, <2>2 DEF TypeOK, Target, Value
  <2>4. QED
    BY <2>1, <2>2, <2>3 DEF Unconfirmed
<1>4. CASE ReadBack
  <2>1. pc = "readback" /\ Target \in Path
        /\ unsettled' = IF journal[Target].original = base[Target]
                        THEN unsettled \ {Target} ELSE unsettled
    BY <1>4, TargetType DEF ReadBack, Writing
  <2>2. journal[Target].last > 0
    BY <2>1 DEF Recorded
  <2>3. Owns(journal, Target)
    BY <2>2 DEF Owns, NoEntry
  <2>4. unsettled' = {}
    BY <2>1, <2>3 DEF Based, Unconfirmed
  <2>5. QED
    BY <2>4 DEF Unconfirmed
<1>5. CASE Foreign
  <2>1. PICK p \in Path, v \in Nat :
             /\ v # hw[p] /\ (InGap(p) => "gap" \in Faults)
             /\ unsettled' = IF InGap(p) THEN unsettled \cup {p}
                             ELSE IF Mistakable(p, v) THEN unsettled ELSE unsettled \ {p}
             /\ \A q \in Path : q # p => hw'[q] = hw[q]
    BY <1>5, ForeignMove
  <2>2. UNCHANGED <<pc, journal, disk, diskLive, writes>> /\ Target' = Target /\ Value' = Value
    BY <1>5 DEF Foreign, applyVars, diskVars, Target, Value
  <2>3. CASE InGap(p)
    <3>1. unsettled' = unsettled \cup {p} /\ pc \in {"save", "write"} /\ p = Target
      BY <2>1, <2>3 DEF InGap
    <3>2. QED
      BY <2>2, <3>1 DEF Unconfirmed
  <2>4. ASSUME ~InGap(p)
        PROVE  unsettled' \subseteq unsettled /\ unsettled \subseteq Path
    BY <2>1, <2>4 DEF TypeOK
  <2>5. ASSUME ~InGap(p), pc = "readback", p \in unsettled'
        PROVE  FALSE
    <3>1. p = Target /\ hw[p] = Value
      BY <2>4, <2>5 DEF Unconfirmed
    <3>2. journal[p].last = Value /\ disk[p].last = Value
      BY <2>5, <3>1 DEF Recorded
    <3>3. ~Mistakable(p, v)
      BY <2>1, <2>5, <3>1, <3>2 DEF Mistakable
    <3>4. QED
      BY <2>1, <2>4, <2>5, <3>3
  <2>6. CASE ~InGap(p)
    BY <2>1, <2>2, <2>4, <2>5, <2>6 DEF Unconfirmed
  <2>7. QED
    BY <2>3, <2>6
<1>6. CASE Stop
  BY <1>6 DEF Stop, envVars, applyVars, Unconfirmed, Target, Value
<1>7. CASE Reboot
  BY <1>7 DEF Reboot, Unconfirmed
<1>8. CASE SaveFails \/ WriteRejected \/ RestoreEntryFails \/ Kill
  BY <1>8 DEF SaveFails, WriteRejected, RestoreEntryFails, Kill, Undisturbed
<1>9. CASE ReadBackFails
  <2>1. pc = "readback" /\ hw[Target] # Value /\ unsettled' = unsettled
    BY <1>9 DEF ReadBackFails, envVars
  <2>2. unsettled' = {}
    BY <2>1 DEF Unconfirmed
  <2>3. QED
    BY <2>2 DEF Unconfirmed
<1>10. CASE pc \notin {"save", "write", "readback"} /\ unsettled' \subseteq unsettled
  BY <1>10 DEF Unconfirmed
<1>11. CASE RestoreEntry
  <2>1. unsettled' \subseteq unsettled /\ pc = "restore"
    BY <1>11 DEF RestoreEntry
  <2>2. QED
    BY <1>10, <2>1
<1>12. QED
  BY <1>1, <1>2, <1>3, <1>4, <1>5, <1>6, <1>7, <1>8, <1>9, <1>10, <1>11
     DEF Next, Daemon, Environment, Apply, Restore, Main,
     PlanSkip, PlanUnreachable, PlanNode, OwnMatch, OwnRefuse,
     ApplyDone, ApplyUnverified, RestoreForeign, RestoreSaved,
     RestoreSaveFails, RestoreDone, Window, WindowHold, WindowRelease, WindowBusy, WindowApply,
     ExitLoop, ExitRestore, ExitBusy, Exit, Start, envVars
-----------------------------------------------------------------------------
(* The theorems.                                                            *)

\* The inductive invariant holds before the first start.
LEMMA IInvInit == Init => IInv
<1>1. ASSUME Init
      PROVE  Positive /\ Recoverable /\ Remembered /\ Recorded /\ Visiting /\ Handed
  <2>1. Shown
    BY <1>1, ConstantTypes, AbsentSetting DEF Init, Shown, Present
  <2>2. Accepted(journal) /\ Accepted(disk)
    BY <1>1 DEF Init, Accepted, Owns, Empty
  <2>3. QED
    BY <1>1, <2>1, <2>2 DEF Init, Positive, Targeted, Writing, Recoverable, Remembered, Recorded,
       Visiting, Handed, Up
<1>2. QED
  BY <1>1, TypeInit DEF IInv

\* Every step keeps the invariant; so does a step that changes nothing.
LEMMA IInvStep == IInv /\ [Next]_vars => IInv'
<1>1. ASSUME IInv, Next
      PROVE  IInv'
  BY <1>1, TypeStep, PositiveStep, RecordsStep, RecordedStep, VisitingStep, HandedStep DEF IInv
<1>2. ASSUME IInv, UNCHANGED vars
      PROVE  IInv'
  <2>1. UNCHANGED <<hw, author, base, unsettled, disk, diskLive, journal, pc, writes, todo, ok,
                    status>>
    BY <1>2 DEF vars, envVars, diskVars, applyVars, restoreVars, mainVars
  <2>2. TypeOK'
    BY <1>2, TypeStep DEF IInv
  <2>3. Positive' /\ Recoverable' /\ Remembered'
    BY <1>2, <2>1 DEF IInv, Positive, Shown, Accepted, Owns, Targeted, Writing, Present,
       Recoverable, Remembered, Up
  <2>4. Recorded' /\ Visiting' /\ Handed'
    BY <1>2, <2>1 DEF IInv, Recorded, Target, Value, Visiting, Owned, Owns, Handed
  <2>5. QED
    BY <2>2, <2>3, <2>4 DEF IInv
<1>3. QED
  BY <1>1, <1>2

\* The inductive invariant holds in every reachable state.
LEMMA Invariance == Spec => []IInv
  BY IInvInit, IInvStep, PTL DEF Spec

\* Whatever the kernel, the disk, other writers and kills do: a node that shows
\* a value of the engine has a live record on disk that takes it back, unless
\* its entry was being rewritten or the kernel altered the write.
THEOREM AlwaysRecoverable == Spec => []Recoverable
<1>1. IInv => Recoverable
  BY DEF IInv
<1>2. QED
  BY Invariance, <1>1, PTL

\* A daemon that ended with "stopped_restored" has handed back every node
\* whose entry was settled.
THEOREM StoppedReleased == Spec => []StoppedMeansReleased
<1>1. IInv => StoppedMeansReleased
  BY DEF IInv, Handed, StoppedMeansReleased
<1>2. QED
  BY Invariance, <1>1, PTL

\* No raised floor is ever planned at or above the ceiling it was computed
\* under, for every table, ceiling, baseline and level.
THEOREM FloorsBelowCeilings == Spec => NeverPinned
<1> DEFINE Below ==
      \A n \in Node :
         pc = "plan" /\ pc' = "own" /\ node = n /\ Axis[n] # 3 /\ ~Powersaved(n)
         /\ action[Axis[n]] > 0 /\ Reach(Table[n], hw[Ceil(n)]) > 1
         => writes'[1][2] < hw[Ceil(n)]
<1>1. ASSUME TypeOK, Next
      PROVE  Below
  <2> SUFFICES ASSUME NEW n \in Node, pc = "plan", pc' = "own", node = n, Axis[n] # 3,
                      ~Powersaved(n), action[Axis[n]] > 0, Reach(Table[n], hw[Ceil(n)]) > 1
               PROVE  writes'[1][2] < hw[Ceil(n)]
    OBVIOUS
  <2> DEFINE level == action[Axis[n]]
             value == FloorFor(Table[n], hw[Ceil(n)], original[Floor(n)], level, level)
  <2>1. PlanNode
    BY <1>1 DEF Next, Daemon, Environment, Apply, Restore, Main,
       PlanSkip, PlanUnreachable, OwnMatch, OwnRefuse, OwnRecord, Save, SaveFails, Fail,
       BeginRestore, Write, WriteRejected, ReadBack, ReadBackFails, ApplyDone, ApplyUnverified,
       RestoreEntry, RestoreEntryFails, RestoreForeign, RestoreSaved, RestoreSaveFails,
       RestoreDone, Window, WindowHold, WindowRelease, WindowBusy, WindowApply, ExitLoop,
       ExitRestore, ExitBusy, Exit, Start, Kill, Reboot, Forget, Stop, Foreign
  <2>2. level \in Level \ {0} /\ hw[Ceil(n)] \in Nat /\ original[Floor(n)] \in Nat
        /\ IsTable(Table[n])
    <3>1. Floor(n) \in Path /\ Ceil(n) \in Path /\ IsTable(Table[n]) /\ Axis[n] \in 0 .. 3
      BY ConstantTypes
    <3>2. hw \in [Path -> Nat] /\ original \in [Path -> Nat] /\ action \in Action
      BY <1>1 DEF TypeOK
    <3>3. action[Axis[n]] \in Level
      BY <3>1, <3>2
    <3>4. QED
      BY <3>1, <3>2, <3>3
  <2>3. value < hw[Ceil(n)]
    BY <2>2, FloorBelowCeiling
  <2>4. writes' = <<<<Floor(n), value>>>>
    BY <2>1, <2>2 DEF PlanNode, Desired
  <2> HIDE DEF value
  <2>5. QED
    BY <2>3, <2>4
<1>2. ASSUME UNCHANGED vars
      PROVE  Below
  BY <1>2 DEF vars
<1>3. TypeOK /\ [Next]_vars => [Below]_vars
  BY <1>1, <1>2
<1>4. QED
  BY TypeCorrect, <1>3, PTL DEF Spec, NeverPinned

\* While every save of the journal succeeds and nobody writes in the gap, the
\* engine never destroys a value another writer set, whatever the kernel, kills
\* and reboots do: a step of the daemon that replaces one has it on disk as the
\* original to give back (writeOwned, restore).  A save that fails can leave an
\* older original in the file, which a restart then gives back over that value.
THEOREM ForeignKept ==
    ASSUME {"gap", "save"} \cap Faults = {}
    PROVE  Spec => ForeignPreserved
<1> DEFINE FInv == IInv /\ Filed /\ Kept /\ Distinct /\ Guarded
           Preserved ==
             Daemon => \A p \in Path : author[p] = "system" /\ hw'[p] # hw[p] =>
                author'[p] = "engine" /\ diskLive /\ disk[p].original = hw[p]
<1>1. Init => FInv
  <2>1. Init => \A p \in Path : ~Owns(journal, p)
    BY DEF Init, Owns, Empty
  <2>2. QED
    BY <2>1, IInvInit DEF Init, Filed, Kept, Distinct, Guarded
<1>2. FInv /\ [Next]_vars => FInv'
  <2>1. ASSUME FInv, Next
        PROVE  FInv'
    BY <2>1, IInvStep, FiledStep, DistinctStep, GuardedStep DEF IInv
  <2>2. ASSUME FInv, UNCHANGED vars
        PROVE  FInv'
    <3>1. UNCHANGED <<hw, author, disk, diskLive, journal, pc, writes>>
      BY <2>2 DEF vars, envVars, diskVars, applyVars
    <3>2. QED
      BY <2>2, <3>1, IInvStep DEF Filed, Kept, Distinct, Guarded, Owns, Target, Up
  <2>3. QED
    BY <2>1, <2>2
<1>3. ASSUME FInv
      PROVE  Preserved
  <2> SUFFICES ASSUME Daemon, NEW p \in Path, author[p] = "system", hw'[p] # hw[p]
               PROVE  author'[p] = "engine" /\ diskLive /\ disk[p].original = hw[p]
    OBVIOUS
  <2>0. FInv /\ TypeOK /\ Positive /\ Recorded
    BY <1>3 DEF IInv
  <2>1. CASE Write
    <3>1. Target \in Path /\ pc = "write"
      BY <2>0, <2>1, TargetType DEF Write, Writing
    <3>2. PICK v : hw' = [hw EXCEPT ![Target] = v] /\ author' = [author EXCEPT ![Target] = "engine"]
      BY <2>1 DEF Write
    <3>3. p = Target /\ author'[p] = "engine"
      BY <2>0, <3>1, <3>2 DEF TypeOK
    <3>4. QED
      BY <2>0, <3>1, <3>3 DEF Guarded, Recorded
  <2>2. ASSUME pc = "restore", hw[p] = journal[p].last
        PROVE  Owns(journal, p) => diskLive /\ disk[p].original = hw[p] /\ journal[p].original = hw[p]
    <3>1. Owns(journal, p) => diskLive /\ disk[p] = journal[p]
      BY <2>0, <2>2 DEF Filed, Up
    <3>2. QED
      BY <2>0, <2>2, <3>1 DEF Distinct, Owns
  <2>3. CASE RestoreEntry
    <3>1. PICK q \in todo : hw[q] = journal[q].last /\ hw' = [hw EXCEPT ![q] = journal[q].original]
      BY <2>3 DEF RestoreEntry
    <3>2. p = q /\ hw'[p] = journal[p].original /\ pc = "restore"
      BY <2>0, <2>3, <3>1 DEF RestoreEntry, TypeOK
    <3>3. ~Owns(journal, p) => journal[p].original = journal[p].last
      BY DEF Owns, NoEntry
    <3>4. QED
      BY <2>2, <3>1, <3>2, <3>3
  <2>4. CASE RestoreEntryFails
    <3>1. PICK q \in todo : /\ hw[q] = journal[q].last
                            /\ \/ UNCHANGED envVars
                               \/ /\ \E v \in Settings[q] \ {journal[q].original} :
                                        hw' = [hw EXCEPT ![q] = v]
                                  /\ author' = [author EXCEPT ![q] = "engine"]
      BY <2>4 DEF RestoreEntryFails
    <3>2. hw' # hw /\ pc = "restore"
      BY <2>4 DEF RestoreEntryFails
    <3>3. PICK v \in Settings[q] \ {journal[q].original} : hw' = [hw EXCEPT ![q] = v]
      BY <3>1, <3>2 DEF envVars
    <3>4. p = q /\ author'[p] = "engine" /\ hw'[p] \in Settings[p] \ {journal[p].original}
      BY <2>0, <3>1, <3>2, <3>3 DEF TypeOK, envVars
    <3>5. Owns(journal, p)
      <4>1. ASSUME ~Owns(journal, p)
            PROVE  FALSE
        <5>1. hw[p] = 0 /\ journal[p].original = 0
          BY <3>1, <3>4, <4>1 DEF Owns, NoEntry
        <5>2. ~Present(p)
          BY <2>0, <5>1 DEF Positive, Shown
        <5>3. QED
          BY <3>4, <5>1, <5>2, AbsentSetting
      <4>2. QED
        BY <4>1
    <3>6. QED
      BY <2>2, <3>1, <3>2, <3>4, <3>5
  <2>5. QED
    BY <2>1, <2>3, <2>4 DEF Daemon, Apply, Restore, Main,
       PlanSkip, PlanUnreachable, PlanNode, OwnMatch, OwnRefuse, OwnRecord, Save, SaveFails,
       WriteRejected, ReadBack, ReadBackFails, ApplyDone, ApplyUnverified, RestoreForeign,
       RestoreSaved, RestoreSaveFails, RestoreDone, Window, WindowHold, WindowRelease, WindowBusy,
       WindowApply, ExitLoop, ExitRestore, ExitBusy, Exit, envVars
<1>4. FInv => [Preserved]_vars
  BY <1>3
<1>5. QED
  BY <1>1, <1>2, <1>4, PTL DEF Spec, ForeignPreserved

\* Every entry takes its node back, and none stays unconfirmed.
NInv == IInv /\ Filed /\ Kept /\ Based /\ Unconfirmed

\* It is inductive where no write fails and nobody is killed.
LEMMA Confirmed ==
    ASSUME Undisturbed
    PROVE  Spec => []NInv
<1>0. "save" \notin Faults
  BY DEF Undisturbed
<1>1. Init => NInv
  <2>1. Init => \A p \in Path : ~Owns(journal, p)
    BY DEF Init, Owns, Empty
  <2>2. QED
    BY <2>1, IInvInit DEF Init, NInv, Filed, Kept, Based, Unconfirmed
<1>2. NInv /\ [Next]_vars => NInv'
  <2>1. ASSUME NInv, Next
        PROVE  NInv'
    BY <1>0, <2>1, IInvStep, FiledStep, BasedStep, UnconfirmedStep DEF NInv, IInv
  <2>2. ASSUME NInv, UNCHANGED vars
        PROVE  NInv'
    <3>1. UNCHANGED <<hw, author, base, unsettled, disk, diskLive, journal, pc, writes>>
      BY <2>2 DEF vars, envVars, diskVars, applyVars
    <3>2. QED
      BY <2>2, <3>1, IInvStep DEF NInv, Filed, Kept, Based, Unconfirmed, Owns, Target, Value, Up
  <2>3. QED
    BY <2>1, <2>2
<1>3. QED
  BY <1>1, <1>2, PTL DEF Spec

\* Where no write fails and nobody is killed, a daemon that reported
\* "stopped_restored" holds nothing: no entry is left unconfirmed, whatever
\* other writers, also between a check and its write, a held lock and reboots
\* do meanwhile (restore, main's exit).
THEOREM NothingLeftBehind ==
    ASSUME {"kill", "reject", "clamp", "save"} \cap Faults = {}
    PROVE  Spec => []NothingLeft
<1>1. NInv => NothingLeft
  BY DEF NInv, IInv, Handed, Unconfirmed, NothingLeft
<1>2. Spec => []NInv
  BY Confirmed DEF Undisturbed
<1>3. QED
  BY <1>1, <1>2, PTL

\* Under the same conditions the code keeps what it says of its journal: a node
\* that shows a value of the engine has a record, in the std::map or the file.
\* Each of the four faults alone refutes it.
THEOREM FloorsRecorded ==
    ASSUME {"kill", "reject", "clamp", "save"} \cap Faults = {}
    PROVE  Spec => []NoFloorLeaks
<1>1. ASSUME NInv, NEW p \in Path, author[p] = "engine"
      PROVE  Owns(journal, p) \/ (diskLive /\ Owns(disk, p))
  <2>1. CASE p \in unsettled
    <3>1. journal[p].last > 0
      BY <1>1, <2>1 DEF NInv, IInv, Unconfirmed, Recorded
    <3>2. QED
      BY <3>1 DEF Owns, NoEntry
  <2>2. CASE p \notin unsettled
    <3>1. diskLive /\ disk[p] = [original |-> base[p], last |-> hw[p]]
      BY <1>1, <2>2 DEF NInv, IInv, Recoverable
    <3>2. hw[p] > 0
      BY <1>1 DEF NInv, IInv, Positive, Shown
    <3>3. QED
      BY <3>1, <3>2 DEF Owns, NoEntry
  <2>3. QED
    BY <2>1, <2>2
<1>2. NInv => NoFloorLeaks
  BY <1>1 DEF NoFloorLeaks
<1>3. Spec => []NInv
  BY Confirmed DEF Undisturbed
<1>4. QED
  BY <1>2, <1>3, PTL
=============================================================================
