------------------------------ MODULE BrainStore ------------------------------
(***************************************************************************)
(* The files a learned brain lives in, and the two processes that write    *)
(* them: the daemon (--run) and the adoption the user asks for (--adopt).  *)
(*                                                                         *)
(* A brain is the set of the lessons it descends from; what it computes    *)
(* from them is in modules Learning and ResidualModel. A file is the       *)
(* identity it was saved under, its lessons, and whether its checksum and  *)
(* bounds hold.                                                            *)
(*                                                                         *)
(* Both processes hold the flock on adaptive.lock from start to end; a     *)
(* second one exits 3 and changes nothing. SIGKILL may come anywhere.      *)
(* Wall time may stand still or step back between two names.               *)
(***************************************************************************)
EXTENDS Naturals, FiniteSets

CONSTANTS
    Identities,   \* firmware-and-kernel identities (engineIdentity)
    Pids,         \* process ids the two programs may be given
    Seconds,      \* wall-clock seconds a set-aside name may carry
    MaxLessons,   \* bound: windows learned in one behaviour
    MaxMoves,     \* bound: firmware changes
    MaxKills,     \* bound: SIGKILLs of either process
    MaxFull,      \* bound: times the file system runs out of room
    MaxAdopt      \* bound: adoptions asked for

ASSUME StoreBounds ==
    /\ Identities # {} /\ Pids # {} /\ Seconds \subseteq Nat
    /\ {MaxLessons, MaxMoves, MaxKills, MaxFull, MaxAdopt} \subseteq Nat

VARIABLES
    files,      \* what the directory holds: name -> content
    temps,      \* pids whose adaptive_model.tmp.<pid> exists
    lock,       \* holder of the flock: "daemon", "adopter" or "none"
    daemon,     \* the --run process
    adopter,    \* the --adopt process
    identity,   \* the identity of the running firmware
    full,       \* TRUE: the file system refuses new entries and data
    used,       \* how much of each bound is spent
    archived,   \* ghost: lessons some completed save has put on disk
    warned,     \* ghost: a daemon has reported brain_rejected=<why>:unmoved
    gone,       \* ghost: who moved adaptive_model aside since it was last saved:
                \* "told" a daemon that reported it, "cut" an adoption, or "none"
    adopted     \* ghost: lessons of the last adoption that answered success

vars == <<files, temps, lock, daemon, adopter, identity, full, used,
          archived, warned, gone, adopted>>

-----------------------------------------------------------------------------
(* Names and contents *)

\* Lesson 0 is a stored brain's, the others are learned here.
Lessons == 0..MaxLessons

Model == <<"model", 0, 0>>

\* adaptive_model.<kind>.<second>, then .<second>.<n>
Aside == {"rejected", "replaced"} \X Seconds \X Nat

Names == {Model} \cup Aside

Content == [id : Identities, sound : BOOLEAN, lessons : SUBSET Lessons]

\* A name of that kind and second nobody has taken (unusedName counts up to it).
UnusedName(kind, s) ==
    <<kind, s, CHOOSE n \in 0..Cardinality(DOMAIN files) :
                   <<kind, s, n>> \notin DOMAIN files>>

\* The directory after rename(from, to): to's old content, if any, is gone.
Renamed(from, to) ==
    [n \in (DOMAIN files \ {from}) \cup {to} |->
        IF n = to THEN files[from] ELSE files[n]]

\* The directory after a whole file is renamed over n.
Replaced(n, content) ==
    [m \in DOMAIN files \cup {n} |-> IF m = n THEN content ELSE files[m]]

\* Brain::deserialize accepts the file under the identity id.
Loads(content, id) == content.sound /\ content.id = id

\* Every lesson some file still holds.
Kept == UNION {files[n].lessons : n \in DOMAIN files}

Off == [at |-> "off"]

PidsInUse == {p.pid : p \in {daemon, adopter} \ {Off}}

Spend(bound) == used' = [used EXCEPT ![bound] = @ + 1]

Init ==
    /\ identity \in Identities
    /\ files \in {<<>>} \cup [{Model} -> [id : Identities, sound : BOOLEAN,
                                         lessons : {{0}}]]
    /\ temps = {} /\ lock = "none" /\ daemon = Off /\ adopter = Off
    /\ full = FALSE
    /\ used = [lessons |-> 0, moves |-> 0, kills |-> 0, full |-> 0, adopt |-> 0]
    /\ archived = Kept /\ warned = FALSE /\ gone = "none" /\ adopted = {}

-----------------------------------------------------------------------------
(* The daemon *)

\* MUTANT: a start that does not ask for the flock.
AloneUnchecked == TRUE

Alone == lock = "none"

\* main up to loadBrain: the flock, then the pid.
DaemonStart(pid) ==
    /\ daemon = Off /\ Alone /\ pid \notin PidsInUse
    /\ lock' = "daemon"
    /\ daemon' = [at |-> "load", pid |-> pid, lessons |-> {}, born |-> {},
                  rejected |-> {}, stale |-> pid \in temps, gone |-> gone]
    /\ UNCHANGED <<files, temps, adopter, identity, full, used, archived,
                   warned, gone, adopted>>

\* MUTANT: another firmware is not an error, so nothing is said.
VerdictSilent(moved) == IF files[Model].id # identity THEN {} ELSE {"invalid"}

\* What loadBrain answers for a file that does not load.
Verdict(moved) ==
    {IF files[Model].id # identity THEN "identity" ELSE "invalid"}
        \cup (IF moved THEN {} ELSE {"unmoved"})

\* MUTANT: a brain that does not load stays where the first save lands.
DaemonLoadInPlace ==
    /\ daemon.at = "load"
    /\ daemon' = [daemon EXCEPT !.at = "live",
                      !.lessons = IF Model \in DOMAIN files /\ Loads(files[Model], identity)
                                  THEN files[Model].lessons ELSE {}]
    /\ UNCHANGED <<files, temps, lock, adopter, identity, full, used, archived,
                   warned, gone, adopted>>

\* loadBrain. Nothing stored is a first boot; a brain that loads is taken up;
\* one that does not is set aside under a name of its own, or, where rename
\* fails, left where it is.
DaemonLoad ==
    /\ daemon.at = "load"
    /\ \/ /\ Model \notin DOMAIN files
          /\ daemon' = [daemon EXCEPT !.at = "live"]
          /\ UNCHANGED <<files, warned, gone>>
       \/ /\ Model \in DOMAIN files /\ Loads(files[Model], identity)
          /\ daemon' = [daemon EXCEPT !.at = "live",
                                      !.lessons = files[Model].lessons,
                                      !.born = files[Model].lessons]
          /\ UNCHANGED <<files, warned, gone>>
       \/ /\ Model \in DOMAIN files /\ ~Loads(files[Model], identity) /\ ~full
          /\ \E s \in Seconds : files' = Renamed(Model, UnusedName("rejected", s))
          /\ daemon' = [daemon EXCEPT !.at = "live",
                                      !.rejected = Verdict(TRUE)]
          /\ gone' = "told"
          /\ UNCHANGED warned
       \/ /\ Model \in DOMAIN files /\ ~Loads(files[Model], identity) /\ full
          /\ daemon' = [daemon EXCEPT !.at = "live",
                                      !.rejected = Verdict(FALSE)]
          /\ warned' = TRUE
          /\ UNCHANGED <<files, gone>>
    /\ UNCHANGED <<temps, lock, adopter, identity, full, used, archived, adopted>>

\* A credited window (module ControlLoop says which ones are).
DaemonLearn ==
    /\ daemon.at = "live" /\ used.lessons < MaxLessons
    /\ daemon' = [daemon EXCEPT !.lessons = @ \cup {used.lessons + 1}]
    /\ Spend("lessons")
    /\ UNCHANGED <<files, temps, lock, adopter, identity, full, archived,
                   warned, gone, adopted>>

\* The save of a brain that holds anything, every minute while the daemon
\* runs (then "live" again) and once at its end (then "end"). atomicText
\* opens its temporary with O_EXCL: one left by an earlier process of the same
\* pid refuses it, and the daemon goes on unsaved.
DaemonOpen(then) ==
    /\ daemon.at = "live" /\ daemon.lessons # {}
    /\ IF daemon.pid \in temps \/ full
       THEN /\ daemon' = [daemon EXCEPT !.at = then]
            /\ temps' = temps
       ELSE /\ daemon' = [daemon EXCEPT !.at = IF then = "live" THEN "save" ELSE "last"]
            /\ temps' = temps \cup {daemon.pid}
    /\ UNCHANGED <<files, lock, adopter, identity, full, used, archived,
                   warned, gone, adopted>>

\* MUTANT: a failed write does not unlink its temporary.
CommitLeavingTemp ==
    /\ daemon.at \in {"save", "last"}
    /\ daemon' = [daemon EXCEPT !.at = IF @ = "save" THEN "live" ELSE "end"]
    /\ IF full
       THEN UNCHANGED <<files, temps, archived, gone>>
       ELSE /\ files' = Replaced(Model, [id |-> identity, sound |-> TRUE,
                                         lessons |-> daemon.lessons])
            /\ temps' = temps \ {daemon.pid}
            /\ archived' = archived \cup daemon.lessons
            /\ gone' = "none"
    /\ UNCHANGED <<lock, adopter, identity, full, used, warned, adopted>>

\* The rest of atomicText: data, fsync and rename, or on any failure unlink.
DaemonCommit ==
    /\ daemon.at \in {"save", "last"}
    /\ daemon' = [daemon EXCEPT !.at = IF @ = "save" THEN "live" ELSE "end"]
    /\ temps' = temps \ {daemon.pid}
    /\ IF full
       THEN UNCHANGED <<files, archived, gone>>
       ELSE /\ files' = Replaced(Model, [id |-> identity, sound |-> TRUE,
                                         lessons |-> daemon.lessons])
            /\ archived' = archived \cup daemon.lessons
            /\ gone' = "none"
    /\ UNCHANGED <<lock, adopter, identity, full, used, warned, adopted>>

\* The end of main after SIGTERM; an empty brain was never saved.
DaemonEnd ==
    /\ \/ daemon.at = "end"
       \/ daemon.at = "live" /\ daemon.lessons = {}
    /\ daemon' = Off /\ lock' = "none"
    /\ UNCHANGED <<files, temps, adopter, identity, full, used, archived,
                   warned, gone, adopted>>

-----------------------------------------------------------------------------
(* The adoption *)

\* --adopt up to the first change adoptBrain makes. A name outside the
\* rejected ones, a file that does not load under the identity in its own
\* header: the answer says so and nothing changes.
AdoptStart(pid, name) ==
    /\ adopter = Off /\ Alone /\ pid \notin PidsInUse
    /\ used.adopt < MaxAdopt /\ Spend("adopt")
    /\ name[1] = "rejected" /\ files[name].sound
    /\ lock' = "adopter"
    /\ adopter' = [at |-> "move", pid |-> pid, lessons |-> files[name].lessons]
    /\ UNCHANGED <<files, temps, daemon, identity, full, archived, warned,
                   gone, adopted>>

\* MUTANT: adopts over the brain in use.
AdoptOver ==
    /\ adopter.at = "move"
    /\ adopter' = [adopter EXCEPT !.at = "open"]
    /\ UNCHANGED <<files, temps, lock, daemon, identity, full, used, archived,
                   warned, gone, adopted>>

\* Sets the brain in use aside ("unmoved" when it cannot be).
AdoptMove ==
    /\ adopter.at = "move"
    /\ \/ /\ Model \notin DOMAIN files
          /\ adopter' = [adopter EXCEPT !.at = "open"]
          /\ UNCHANGED <<files, gone, adopted>>
       \/ /\ Model \in DOMAIN files /\ full
          /\ adopter' = [adopter EXCEPT !.at = "end"]
          /\ UNCHANGED <<files, gone, adopted>>
       \/ /\ Model \in DOMAIN files /\ ~full
          /\ \E s \in Seconds : files' = Renamed(Model, UnusedName("replaced", s))
          /\ adopter' = [adopter EXCEPT !.at = "open"]
          /\ gone' = "cut" /\ adopted' = {}
    /\ UNCHANGED <<temps, lock, daemon, identity, full, used, archived, warned>>

\* atomicText of the adopted brain under this firmware's identity: the O_EXCL
\* open, then the rest ("save" when either fails).
AdoptOpen ==
    /\ adopter.at = "open"
    /\ IF adopter.pid \in temps \/ full
       THEN adopter' = [adopter EXCEPT !.at = "end"] /\ temps' = temps
       ELSE /\ adopter' = [adopter EXCEPT !.at = "commit"]
            /\ temps' = temps \cup {adopter.pid}
    /\ UNCHANGED <<files, lock, daemon, identity, full, used, archived, warned,
                   gone, adopted>>

AdoptCommit ==
    /\ adopter.at = "commit"
    /\ temps' = temps \ {adopter.pid}
    /\ IF full
       THEN /\ adopter' = [adopter EXCEPT !.at = "end"]
            /\ UNCHANGED <<files, archived, gone>>
       ELSE /\ adopter' = [adopter EXCEPT !.at = "verify"]
            /\ files' = Replaced(Model, [id |-> identity, sound |-> TRUE,
                                         lessons |-> adopter.lessons])
            /\ archived' = archived \cup adopter.lessons
            /\ gone' = "none"
    /\ UNCHANGED <<lock, daemon, identity, full, used, warned, adopted>>

\* Reads back what was saved; "verify" unless it loads with the same counts.
AdoptVerify ==
    /\ adopter.at = "verify"
    /\ adopter' = [adopter EXCEPT !.at = "end"]
    /\ adopted' = IF /\ Model \in DOMAIN files /\ Loads(files[Model], identity)
                     /\ files[Model].lessons = adopter.lessons
                  THEN adopter.lessons ELSE adopted
    /\ UNCHANGED <<files, temps, lock, daemon, identity, full, used, archived,
                   warned, gone>>

AdoptEnd ==
    /\ adopter.at = "end"
    /\ adopter' = Off /\ lock' = "none"
    /\ UNCHANGED <<files, temps, daemon, identity, full, used, archived,
                   warned, gone, adopted>>

-----------------------------------------------------------------------------
(* The environment *)

\* SIGKILL closes the descriptor, and with it the flock; a temporary stays.
KillDaemon ==
    /\ daemon # Off /\ used.kills < MaxKills /\ Spend("kills")
    /\ daemon' = Off /\ lock' = "none"
    /\ UNCHANGED <<files, temps, adopter, identity, full, archived, warned,
                   gone, adopted>>

KillAdopter ==
    /\ adopter # Off /\ used.kills < MaxKills /\ Spend("kills")
    /\ adopter' = Off /\ lock' = "none"
    /\ UNCHANGED <<files, temps, daemon, identity, full, archived, warned,
                   gone, adopted>>

\* A firmware update or rollback, over a reboot.
Ota ==
    /\ daemon = Off /\ adopter = Off
    /\ used.moves < MaxMoves /\ Spend("moves")
    /\ identity' \in Identities \ {identity}
    /\ adopted' = {}
    /\ UNCHANGED <<files, temps, lock, daemon, adopter, full, archived, warned, gone>>

DiskFills ==
    /\ ~full /\ used.full < MaxFull /\ Spend("full")
    /\ full' = TRUE
    /\ UNCHANGED <<files, temps, lock, daemon, adopter, identity, archived,
                   warned, gone, adopted>>

DiskFrees ==
    /\ full /\ full' = FALSE
    /\ UNCHANGED <<files, temps, lock, daemon, adopter, identity, used,
                   archived, warned, gone, adopted>>

Daemon ==
    \/ \E pid \in Pids : DaemonStart(pid)
    \/ DaemonLoad \/ DaemonLearn \/ DaemonCommit \/ DaemonEnd
    \/ \E then \in {"live", "end"} : DaemonOpen(then)

Adopter ==
    \/ \E pid \in Pids : \E name \in DOMAIN files : AdoptStart(pid, name)
    \/ AdoptMove \/ AdoptOpen \/ AdoptCommit \/ AdoptVerify \/ AdoptEnd

Environment ==
    \/ KillDaemon \/ KillAdopter \/ Ota \/ DiskFills \/ DiskFrees

Next == Daemon \/ Adopter \/ Environment

Spec == Init /\ [][Next]_vars

\* The daemon saves every minute it is alive and every system call returns;
\* room on the file system comes back.
Fairness ==
    /\ WF_vars(DaemonLoad) /\ WF_vars(DaemonOpen("live")) /\ WF_vars(DaemonCommit)
    /\ WF_vars(DiskFrees)

FairSpec == Spec /\ Fairness

-----------------------------------------------------------------------------
(* Properties *)

DaemonStates ==
    {Off} \cup [at : {"load", "live", "save", "last", "end"}, pid : Pids,
                lessons : SUBSET Lessons, born : SUBSET Lessons,
                rejected : SUBSET {"identity", "invalid", "unmoved"}, stale : BOOLEAN,
                gone : {"none", "told", "cut"}]

AdopterStates ==
    {Off} \cup [at : {"move", "open", "commit", "verify", "end"}, pid : Pids,
                lessons : SUBSET Lessons]

FilesOK ==
    /\ DOMAIN files \subseteq Names /\ IsFiniteSet(DOMAIN files)
    /\ \A n \in DOMAIN files : files[n] \in Content

LockOK ==
    /\ lock \in {"none", "daemon", "adopter"}
    /\ daemon = Off <=> lock # "daemon"
    /\ adopter = Off <=> lock # "adopter"

CountsOK ==
    /\ used \in [{"lessons", "moves", "kills", "full", "adopt"} -> Nat]
    /\ used.lessons <= MaxLessons

\* The types of the state, and who may hold the lock: loadBrain and adoptBrain
\* run under the flock of main, so a live process is its holder.
TypeOK ==
    /\ FilesOK /\ LockOK /\ CountsOK
    /\ daemon \in DaemonStates /\ adopter \in AdopterStates
    /\ temps \subseteq Pids /\ identity \in Identities
    /\ full \in BOOLEAN /\ warned \in BOOLEAN /\ gone \in {"none", "told", "cut"}
    /\ archived \subseteq Lessons /\ adopted \subseteq Lessons

\* "A brain that does not load is set aside, never overwritten" (main.cpp): a
\* lesson once saved stays in some file of the directory, over updates,
\* rollbacks, adoptions, kills and a full file system, unless a daemon has
\* reported that it could not move a brain it rejected.
KeptUnlessUnmoved == ~warned => archived \subseteq Kept

\* unusedName: rename replaces its target, so no step ever changes or removes
\* a brain set aside before, whatever the wall clock does between two names.
AsideUntouched ==
    [][\A n \in DOMAIN files \ {Model} :
           n \in DOMAIN files' /\ files'[n] = files[n]]_vars

\* "so the reset is visible, not silent" (main.cpp): a daemon that starts with
\* nothing while some file holds lessons says why, unless an earlier daemon has
\* said it and nothing was saved since, or an adoption moved the brain aside
\* and ended before it saved its own.
ResetSeen ==
    daemon # Off /\ daemon.at # "load" /\ daemon.born = {}
            /\ daemon.gone = "none"
        /\ Kept \ daemon.lessons # {} =>
        daemon.rejected # {}

\* "no daemon can save over the file being replaced" (main.cpp): what an
\* adoption that answered success took into use stays in adaptive_model, and
\* with it in every daemon that has loaded since, until the firmware changes
\* or the next adoption moves it aside.
AdoptedInUse ==
    adopted # {} =>
        /\ Model \in DOMAIN files
        /\ files[Model].id = identity /\ adopted \subseteq files[Model].lessons
        /\ daemon # Off /\ daemon.at # "load" => adopted \subseteq daemon.lessons

\* The periodic save: a lesson reaches a file unless its daemon is ending, or
\* was given a pid whose temporary an earlier kill left behind.
LessonsReachDisk ==
    \A l \in 1..MaxLessons :
        (daemon # Off /\ l \in daemon.lessons)
            ~> (l \in Kept \/ daemon.at \in {"off", "last", "end"} \/ daemon.stale)

-----------------------------------------------------------------------------
(* What the store promises, without files *)

Archive == INSTANCE BrainArchive WITH
               kept <- Kept,
               mind <- IF daemon = Off THEN {} ELSE daemon.lessons,
               up <- daemon # Off /\ daemon.at # "load"

\* The files, renames, kills and adoptions implement an archive that only
\* grows while nothing was reported unmoved.
ImplementsArchive == Archive!Spec

=============================================================================
