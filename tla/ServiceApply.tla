---------------------------- MODULE ServiceApply ----------------------------
(***************************************************************************)
(* What deploy.Apply promises of one service, whatever Docker does: the    *)
(* abstract specification that DockerApply implements.                     *)
(***************************************************************************)
CONSTANTS
    Specs,      \* container specs, as far as their hash tells them apart
    Absent      \* stands for "no running container" and "no Apply under way"

VARIABLES
    running,    \* the spec of the running container, or Absent
    want,       \* the spec the Apply under way was asked for, or Absent
    force,      \* it must replace the container, and has not done so yet
    disturbed,  \* something else stopped the container since it began
    answer      \* what the last Apply returned

vars == <<running, want, force, disturbed, answer>>

Init ==
    /\ running = Absent /\ want = Absent /\ force = FALSE
    /\ disturbed = FALSE /\ answer = "none"

Return(a) == want' = Absent /\ answer' = a

Begin ==
    /\ want = Absent
    /\ want' \in Specs /\ force' \in BOOLEAN /\ disturbed' = FALSE
    /\ answer' = "none"
    /\ UNCHANGED running

(* A running container goes only if it is not the one asked for, or if the *)
(* Apply is forced.  If Docker does not confirm it, the Apply ends there.  *)
Replace ==
    /\ want # Absent /\ (force \/ running # want)
    /\ running' = Absent /\ force' = FALSE
    /\ UNCHANGED <<want, answer>> \/ Return("error")
    /\ UNCHANGED disturbed

(* Starting the container is the last call; its answer may be lost. *)
Start ==
    /\ want # Absent /\ ~force /\ running = Absent
    /\ running' = want /\ (Return("ok") \/ Return("error"))
    /\ UNCHANGED <<force, disturbed>>

(* Nothing was left to do. *)
Succeed ==
    /\ want # Absent /\ ~force /\ (running = want \/ disturbed)
    /\ Return("ok")
    /\ UNCHANGED <<running, force, disturbed>>

GiveUp ==
    /\ want # Absent /\ Return("error") /\ force' = FALSE
    /\ UNCHANGED <<running, disturbed>>

Stop ==
    /\ running' = Absent /\ disturbed' = TRUE
    /\ UNCHANGED <<want, force, answer>>

Next == Begin \/ Replace \/ Start \/ Succeed \/ GiveUp \/ Stop

Spec == Init /\ [][Next]_vars
=============================================================================
