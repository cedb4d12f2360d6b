------------------------------- MODULE AppConfig -------------------------------
(***************************************************************************)
(* MainViewModel: the configuration on the screen, its saves, and the tier *)
(* scripts that apply it. Every operation changes the screen at once and   *)
(* then suspends on root-shell calls, between which any other may run. A   *)
(* setting is known by the slice of the configuration it belongs to: the   *)
(* script that applies it and how its operations are run. Starts from a    *)
(* bootstrap that has read the file.                                       *)
(***************************************************************************)
EXTENDS Naturals, Sequences

CONSTANTS
    Debounced,   \* slices edit() changes: one cancellable job each
    Direct,      \* slices of toggleProtect, applySamsung, ...: never cancelled
    Values,      \* values of a slice
    MaxActs,     \* bound: operations of the user
    MaxTroubles  \* bound: root-shell calls that fail

ASSUME AppBounds ==
    /\ Debounced \cap Direct = {} /\ {"lists", "refresh", "none"} \cap (Debounced \cup Direct) = {}
    /\ 0 \in Values /\ {MaxActs, MaxTroubles} \subseteq Nat

Tiers == Debounced \cup Direct
Slices == Tiers \cup {"lists"}
Nothingness == [s \in Slices |-> 0]

VARIABLES
    shown,      \* uiState.config
    persisted,  \* persistedConfig
    file,       \* /data/adb/m54tuner/config
    kernel,     \* what the last successful script of each tier applied
    waiting,    \* tiers with a job before applyLock (debounce or queue)
    section,    \* the tier whose job holds applyLock, and whether it is uncancelled
    shell,      \* calls made of the root shell, in order, and their results
    chosen,     \* ghost: what the user chose and was not told was not saved
    crossed,    \* ghost: a read replaced an edit not yet saved, or was stale
    acts,       \* bound
    troubles    \* bound

appVars == <<shown, persisted, file, kernel, waiting, section, shell, chosen,
             crossed, acts, troubles>>

Unlocked == [tier |-> "none", alive |-> FALSE]

AppInit ==
    /\ shown = Nothingness /\ persisted = Nothingness /\ file = Nothingness
    /\ kernel = [t \in Tiers |-> 0] /\ chosen = Nothingness
    /\ waiting = {} /\ section = Unlocked /\ shell = <<>>
    /\ crossed = FALSE /\ acts = 0 /\ troubles = 0

-----------------------------------------------------------------------------
(* The root shell: one process that runs the calls in the order they were made
   and answers in that order. *)

Call(who, op, config) ==
    [who |-> who, op |-> op, config |-> config, done |-> FALSE, ok |-> FALSE]

Calling(who) == \E i \in DOMAIN shell : shell[i].who = who

ShellRuns(ok) ==
    \E i \in DOMAIN shell :
        LET call == shell[i]
        IN  /\ ~call.done /\ \A j \in 1..i - 1 : shell[j].done
            /\ ok \/ troubles < MaxTroubles
            /\ troubles' = IF ok THEN troubles ELSE troubles + 1
            /\ shell' = [shell EXCEPT ![i] =
                   [call EXCEPT !.done = TRUE, !.ok = ok,
                                !.config = IF call.op = "read" THEN file ELSE @]]
            /\ file' = IF ok /\ call.op = "write" THEN call.config ELSE file
            /\ kernel' = IF ok /\ call.op = "tier"
                         THEN [kernel EXCEPT ![call.who] = file[call.who]] ELSE kernel
            /\ UNCHANGED <<shown, persisted, waiting, section, chosen, crossed, acts>>

\* The answer of a call reaches the coroutine that made it.
Answers(op, who) == shell # <<>> /\ Head(shell).done /\ Head(shell).op = op /\ Head(shell).who = who

-----------------------------------------------------------------------------
(* The user *)

Act == acts < MaxActs /\ acts' = acts + 1

Choose(s, v) ==
    /\ shown' = [shown EXCEPT ![s] = v]
    /\ chosen' = [chosen EXCEPT ![s] = v]

\* pending.remove(tier)?.cancel(): a job inside the lock stops at its next answer.
Cancelled(t) == IF section.tier = t THEN [section EXCEPT !.alive = FALSE] ELSE section

\* edit(): on the screen now, saved and applied after the debounce, the last
\* edit of a tier only.
Edit(t, v) ==
    /\ Act /\ t \in Debounced /\ v # shown[t]
    /\ Choose(t, v)
    /\ section' = Cancelled(t)
    /\ waiting' = waiting \cup {t}
    /\ UNCHANGED <<persisted, file, kernel, shell, crossed, troubles>>

\* toggleProtect, applyProtectTier, applySamsung; confirmSoftReboot and
\* runDexopt, which change nothing. Their switches are off while they are busy.
Operate(t, v) ==
    /\ Act /\ t \in Direct \ (waiting \cup {section.tier})
    /\ Choose(t, v)
    /\ waiting' = waiting \cup {t}
    /\ UNCHANGED <<persisted, file, kernel, section, shell, crossed, troubles>>

\* setGames, setProtectList: saved at once, outside applyLock, also behind another
\* list that is being saved.
StoreList(v) ==
    /\ Act
    /\ Choose("lists", v)
    /\ shell' = Append(shell, Call("lists", "write", shown'))
    /\ UNCHANGED <<persisted, file, kernel, waiting, section, crossed, troubles>>

\* refresh(), from its readConfig on.
Reread ==
    /\ Act /\ ~Calling("refresh")
    /\ shell' = Append(shell, Call("refresh", "read", shown))
    /\ UNCHANGED <<shown, persisted, file, kernel, waiting, section, chosen, crossed, troubles>>

-----------------------------------------------------------------------------
(* The jobs *)

\* applyLock.withLock, and the first call of persistOrRevert.
Enter(t) ==
    /\ section = Unlocked /\ t \in waiting
    /\ waiting' = waiting \ {t}
    /\ section' = [tier |-> t, alive |-> TRUE]
    /\ shell' = Append(shell, Call(t, "write", shown))
    /\ UNCHANGED <<shown, persisted, file, kernel, chosen, crossed, acts, troubles>>

\* A configuration read back takes the screen: over edits still to be saved, or
\* with another one on its way to the file, or in it by now.
Shows(disk, own) ==
    /\ shown' = disk
    /\ crossed' = (\/ crossed \/ disk # file
                   \/ \E t \in waiting \cup ({section.tier} \cap Tiers) :
                         t # own /\ disk[t] # shown[t]
                   \/ \E i \in DOMAIN shell :
                         shell[i].op = "write" /\ shell[i].config # disk)

\* What a failed save puts on the screen: the file, or what was saved last when
\* that cannot be read either.
Reverts(own) ==
    LET answer == Head(shell)
        disk == IF answer.ok THEN answer.config ELSE persisted
    IN  /\ Shows(disk, own)
        /\ persisted' = disk
        /\ chosen' = [chosen EXCEPT ![own] = disk[own]]
        /\ shell' = Tail(shell)

\* MUTANT of NextCall: a failed save goes on to the tier's script.
NextCallAnyway(t, saved) == Call(t, "tier", shown)

\* After the save: the tier's script, or the file as it is.
NextCall(t, saved) == Call(t, IF saved THEN "tier" ELSE "read", shown)

Saved(t) ==
    /\ Answers("write", t) /\ section.alive
    /\ persisted' = IF Head(shell).ok THEN shown ELSE persisted
    /\ shell' = Append(Tail(shell), NextCall(t, Head(shell).ok))
    /\ UNCHANGED <<shown, file, kernel, waiting, section, chosen, crossed, acts, troubles>>

Reverted(t) ==
    /\ Answers("read", t) /\ section.alive
    /\ Reverts(t)
    /\ section' = Unlocked
    /\ UNCHANGED <<file, kernel, waiting, acts, troubles>>

\* finish(); and a cancelled job at the first answer it gets.
Leave(t) ==
    /\ \/ Answers("tier", t)
       \/ ~section.alive /\ \E op \in {"write", "read"} : Answers(op, t)
    /\ section' = Unlocked
    /\ shell' = Tail(shell)
    /\ UNCHANGED <<shown, persisted, file, kernel, waiting, chosen, crossed, acts, troubles>>

ListSaved ==
    /\ Answers("write", "lists")
    /\ IF Head(shell).ok
       THEN persisted' = Head(shell).config /\ shell' = Tail(shell)
       ELSE /\ shell' = Append(Tail(shell), Call("lists", "read", shown))
            /\ UNCHANGED persisted
    /\ UNCHANGED <<shown, file, kernel, waiting, section, chosen, crossed, acts, troubles>>

ListReverted ==
    /\ Answers("read", "lists")
    /\ Reverts("lists")
    /\ UNCHANGED <<file, kernel, waiting, section, acts, troubles>>

Refreshed ==
    /\ Answers("read", "refresh")
    /\ shell' = Tail(shell)
    /\ IF Head(shell).ok
       THEN Shows(Head(shell).config, "refresh") /\ persisted' = Head(shell).config
       ELSE UNCHANGED <<shown, persisted, crossed>>
    /\ UNCHANGED <<file, kernel, waiting, section, chosen, acts, troubles>>

AppNext ==
    \/ \E t \in Tiers : \E v \in Values : Edit(t, v) \/ Operate(t, v)
    \/ \E v \in Values : StoreList(v)
    \/ Reread \/ Refreshed \/ ListSaved \/ ListReverted
    \/ \E ok \in BOOLEAN : ShellRuns(ok)
    \/ \E t \in Tiers : Enter(t) \/ Saved(t) \/ Reverted(t) \/ Leave(t)

AppSpec == AppInit /\ [][AppNext]_appVars

-----------------------------------------------------------------------------
(* Properties *)

AtRest == waiting = {} /\ section = Unlocked /\ shell = <<>>

\* "running a tier script against the stale file and then snacking success would
\* assert a state that exists nowhere" (persistOrRevert): whatever was tapped
\* meanwhile, when no operation is left the screen, the file and what the user
\* chose are one, and while no call failed every tier runs what the file says.
\* But for a read that took the screen over an edit not yet saved: see README.
Settled ==
    AtRest /\ ~crossed =>
        /\ shown = file /\ chosen = file
        /\ troubles = 0 => \A t \in Tiers : kernel[t] = file[t]

=============================================================================
