------------------------------- MODULE MCParts --------------------------------
(* The parts of the system that share no state with each other, explored one *)
(* at a time: a behaviour picks its part at the start and the others rest.   *)
EXTENDS ResidualModel, Learning, Search, Generations, Runqueue, Window, Cadence,
        AppConfig, Launch

CONSTANTS t1, t2, c1, c2, s1, s2

\* Two surfaces: the retired key told two identities of the first apart; what the
\* old build called the second can not be reconstructed.
OldIdentities ==
    [c \in {"old0", "old1", "lost", "new", "other"} |->
        IF c = "new" THEN {"old0", "old1"} ELSE {}]

\* The policies of two old configurations meet in a daemon that starts under their
\* surface; one that starts under another leaves them as they are.
OldPolicies == {[k \in {"old0", "old1"} |-> "new"], <<>>}

\* Every reason to release, a near limit, two allowances, an axis closed; held
\* nothing, or more than the state still allows.
SearchScenes ==
    [view : [ok : BOOLEAN, near : BOOLEAN, ceiling : {1, 2}, open : {{1, 2}, {1}}],
     held : {<<0, 0>>, <<2, 1>>}]

\* One thread of each of two apps; an attach that fails on one of two CPUs.
ThreadLists == {{t1}, {t2}}
CpuSets == {{c1}, {c1, c2}}

VARIABLE part

Parts == {"model", "learning", "search", "history", "probe", "window", "cadence",
          "app", "launch"}

vars == <<part, modelVars, learningVars, searchVars, generationVars, runqueueVars,
          windowVars, cadenceVars, appVars, launchVars>>

Init ==
    /\ part \in Parts
    /\ ModelInit
    /\ LearningInit
    /\ SearchInit
    /\ GenerationInit
    /\ RunqueueInit
    /\ WindowInit
    /\ CadenceInit
    /\ AppInit
    /\ LaunchInit
    /\ part # "model" => boot = "new"
    /\ part # "search" => scene = CHOOSE s \in SearchScenes : TRUE
    /\ part # "window" => user = Nobody
    /\ part # "cadence" => cap = Rates

Rest(moving) ==
    /\ UNCHANGED part
    /\ moving # "model" => UNCHANGED modelVars
    /\ moving # "learning" => UNCHANGED learningVars
    /\ moving # "search" => UNCHANGED searchVars
    /\ moving # "history" => UNCHANGED generationVars
    /\ moving # "probe" => UNCHANGED runqueueVars
    /\ moving # "window" => UNCHANGED windowVars
    /\ moving # "cadence" => UNCHANGED cadenceVars
    /\ moving # "app" => UNCHANGED appVars
    /\ moving # "launch" => UNCHANGED launchVars

Next ==
    \/ part = "model" /\ ModelNext /\ Rest("model")
    \/ part = "learning" /\ LearningNext /\ Rest("learning")
    \/ part = "search" /\ SearchNext /\ Rest("search")
    \/ part = "history" /\ GenerationNext /\ Rest("history")
    \/ part = "probe" /\ RunqueueNext /\ Rest("probe")
    \/ part = "window" /\ WindowNext /\ Rest("window")
    \/ part = "cadence" /\ CadenceNext /\ Rest("cadence")
    \/ part = "app" /\ AppNext /\ Rest("app")
    \/ part = "launch" /\ LaunchNext /\ Rest("launch")

Spec == Init /\ [][Next]_vars
=============================================================================
