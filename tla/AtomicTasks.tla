---------------------------- MODULE AtomicTasks -----------------------------
(***************************************************************************)
(* What the aggregation service promises its callers: a map of tasks whose *)
(* mutations are atomic.  A mutation ends with all of its target in place  *)
(* (Ok) or with nothing changed (an error).  A crash settles each task at  *)
(* its old or its new value; only a task for which restoring the old value *)
(* was reported to have failed (a suspect) may come back otherwise.        *)
(***************************************************************************)
CONSTANTS TaskId, Task, NoTask

VARIABLES
    settled,    \* the outcome of every mutation that ended
    target,     \* what the mutation under way wants to establish
    visible,    \* what readers see
    suspect,    \* tasks whose restore failed
    up

vars == <<settled, target, visible, suspect, up>>

Map == [TaskId -> Task \cup {NoTask}]

Nothing == [id \in TaskId |-> NoTask]

Init ==
    /\ settled = Nothing
    /\ target = Nothing
    /\ visible = Nothing
    /\ suspect = {}
    /\ up = TRUE

Quiet == target = settled /\ visible = settled

\* A mutation starts; readers see its target at once or only at the end.
Begin ==
    /\ up
    /\ Quiet
    /\ target' \in Map
    /\ visible' \in {settled, target'}
    /\ UNCHANGED <<settled, suspect, up>>

Commit ==
    /\ up
    /\ settled' = target
    /\ visible' = target
    /\ UNCHANGED <<target, suspect, up>>

Abort ==
    /\ up
    /\ target' = settled
    /\ visible' = settled
    /\ UNCHANGED <<settled, suspect, up>>

\* Restoring one task is reported to have failed, or a later write repairs it.
Suspect ==
    /\ up
    /\ \E id \in TaskId : suspect' \in {suspect \cup {id}, suspect \ {id}}
    /\ UNCHANGED <<settled, target, visible, up>>

Crash ==
    /\ up
    /\ up' = FALSE
    /\ visible' = Nothing
    /\ settled' \in Map
    /\ \A id \in TaskId \ suspect : settled'[id] \in {settled[id], target[id]}
    /\ target' = settled'
    /\ UNCHANGED suspect

Restart ==
    /\ ~ up
    /\ up' = TRUE
    /\ visible' = settled
    /\ suspect' = {}
    /\ UNCHANGED <<settled, target>>

Next == Begin \/ Commit \/ Abort \/ Suspect \/ Crash \/ Restart

Spec == Init /\ [][Next]_vars
=============================================================================
