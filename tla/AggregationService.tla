------------------------ MODULE AggregationService --------------------------
(***************************************************************************)
(* The BLS signature aggregation service of                                *)
(* crates/tangle-aggregation-svc: tasks in memory (state.rs), their copy   *)
(* in a persistence backend (persistence.rs) and the operations that keep  *)
(* the two together (service.rs).                                          *)
(*                                                                         *)
(* Every mutation holds mutation_lock from its first read to its return,   *)
(* so at most one is under way: `op' is its program counter and locals.    *)
(* It changes memory, then the store, then flushes; a failing store call   *)
(* makes it write the old copies back ("undo") and restore memory          *)
(* ("rollback").  Readers take only the RwLock of the task map and can run *)
(* between any two of these steps; the process can crash between them.     *)
(***************************************************************************)
EXTENDS Threshold

CONSTANTS
    TaskId,             \* pairs (service_id, call_id)
    Contexts,           \* what init_task fixes: output, message, operators, threshold
    MaxIndex,           \* operator indices a request may name: 0..MaxIndex
    BitmapBits,         \* width of signer_bitmap (256)
    Routes,             \* how tasks are created: "library" and/or "http"
    DefaultTtl,         \* ServiceConfig.default_task_ttl
    Retention,          \* ServiceConfig.submitted_task_retention
    AutoCleanup,        \* ServiceConfig.auto_cleanup_submitted
    ManualCleanup,      \* cleanup entry points the embedding program calls
    ValidateOutput,     \* ServiceConfig.validate_output
    VerifyOnSubmit,     \* ServiceConfig.verify_on_submit
    NoTask, NoSig, Never,
    MaxTime,            \* bound: the clock stops here
    MaxFaults           \* bound: failing backend calls and crashes together

Indices == 0..MaxIndex
Outputs == {c.output : c \in Contexts}
Messages == {c.message : c \in Contexts}

ASSUME ContextsAssumption ==
    \A c \in Contexts : /\ c.operator_count \in Nat
                        /\ c.operator_count <= MaxIndex + 1
                        /\ c.threshold \in ThresholdType
ASSUME NumbersAssumption ==
    /\ MaxIndex \in Nat
    /\ BitmapBits \in Nat
    /\ DefaultTtl \in Nat
    /\ Retention \in Nat
    /\ MaxTime \in Nat
    /\ MaxFaults \in Nat
ASSUME FlagsAssumption ==
    /\ AutoCleanup \in BOOLEAN
    /\ ValidateOutput \in BOOLEAN
    /\ VerifyOnSubmit \in BOOLEAN
    /\ Routes \subseteq {"library", "http"}
    /\ ManualCleanup \subseteq {"All", "Expired", "Submitted"}
ASSUME SentinelsAssumption ==
    /\ Never \notin Nat
    /\ NoSig \notin Messages

VARIABLES
    (* Implementation *)
    tasks,          \* AggregationState.tasks
    store,          \* what the backend would load after a restart
    op,             \* the mutation under way
    up,             \* is the process running?
    now,            \* the clock
    (* Bound *)
    faults,         \* failing backend calls and crashes so far
    (* History: what callers and operators were told *)
    promised,       \* per task, its state when a mutation of it last returned Ok
    unrepaired      \* tasks whose undo failed ("failed to restore persisted ...")

vars == <<tasks, store, op, up, now, faults, promised, unrepaired>>

-----------------------------------------------------------------------------
(***************************************************************************)
(* TaskState.  Signatures are kept per index with their public keys; a     *)
(* signature is what it signs.  created_at is written and never read.      *)
(***************************************************************************)
Instants == Nat \cup {Never}

TaskState ==
    [ctx          : Contexts,
     sigs         : [Indices -> Messages \cup {NoSig}],
     bitmap       : SUBSET (0..(BitmapBits - 1)),
     submitted    : BOOLEAN,
     submitted_at : Instants,
     expires_at   : Instants]

ASSUME NoTaskAssumption == NoTask \notin TaskState

Signers(t) == {i \in Indices : t.sigs[i] # NoSig}

\* Mutant: the deadline is computed backwards.
with_message_config_backwards(c, ttl) ==
    [ctx          |-> c,
     sigs         |-> [i \in Indices |-> NoSig],
     bitmap       |-> {},
     submitted    |-> FALSE,
     submitted_at |-> Never,
     expires_at   |-> IF ttl = Never THEN Never ELSE now - ttl]

with_message_config(c, ttl) ==
    [ctx          |-> c,
     sigs         |-> [i \in Indices |-> NoSig],
     bitmap       |-> {},
     submitted    |-> FALSE,
     submitted_at |-> Never,
     expires_at   |-> IF ttl = Never THEN Never ELSE now + ttl]

is_expired(t) == t.expires_at # Never /\ now > t.expires_at

\* Shifting a 256-bit word by its width or more leaves zero.
Bit(i) == IF i < BitmapBits THEN {i} ELSE {}

has_signed(t, i) == i \in t.bitmap

\* Mutant: the bitmap is left alone.
add_signature_no_bit(t, i, m) == [t EXCEPT !.sigs[i] = m]

add_signature(t, i, m) ==
    [t EXCEPT !.bitmap = @ \cup Bit(i), !.sigs[i] = m]

ThresholdMet(t) == threshold_met(t.ctx.threshold, t.ctx.stakes, Signers(t))

get_non_signers(t) == {i \in 0..(t.ctx.operator_count - 1) : ~ has_signed(t, i)}

\* Which tasks a cleanup of each kind keeps (state.rs, the three `retain's).
KeepsSubmitted(t) == t.submitted_at # Never /\ now - t.submitted_at < Retention

\* Mutant: a submitted task is also dropped once its TTL has passed.
Keeps_ttl_first(kind, t) ==
    CASE kind = "All" -> ~ is_expired(t) /\ (t.submitted => KeepsSubmitted(t))
      [] kind = "Expired" -> ~ is_expired(t)
      [] kind = "Submitted" -> ~ t.submitted \/ KeepsSubmitted(t)

\* Mutant: a submitted task is kept for ever.
Keeps_submitted_forever(kind, t) ==
    CASE kind = "All" -> t.submitted \/ ~ is_expired(t)
      [] kind = "Expired" -> t.submitted \/ ~ is_expired(t)
      [] kind = "Submitted" -> TRUE

Keeps(kind, t) ==
    CASE kind = "All" -> IF t.submitted THEN KeepsSubmitted(t) ELSE ~ is_expired(t)
      [] kind = "Expired" -> ~ is_expired(t)
      [] kind = "Submitted" -> ~ t.submitted \/ KeepsSubmitted(t)

-----------------------------------------------------------------------------
(***************************************************************************)
(* The mutation under way.                                                 *)
(*   save     persist_task: save_task of op.id                             *)
(*   delete   delete_task of each task in op.todo                          *)
(*   flush    flush, then return Ok                                        *)
(*   undo     write the copies in op.before of the tasks in op.undo back   *)
(*   rollback restore_snapshot(op.before), then return the error           *)
(***************************************************************************)
NoTasks == [id \in TaskId |-> NoTask]

TaskMap == [TaskId -> TaskState \cup {NoTask}]

OpState ==
    [pc     : {"idle", "save", "delete", "flush", "undo", "rollback"},
     kind   : {"none", "init", "submit", "mark", "remove", "cleanup"},
     ids    : SUBSET TaskId,        \* the tasks it changes
     todo   : SUBSET TaskId,        \* still to be deleted from the store
     undo   : SUBSET TaskId,        \* still to be written back
     before : TaskMap]

Idle == [pc |-> "idle", kind |-> "none", ids |-> {}, todo |-> {}, undo |-> {},
         before |-> NoTasks]

Mutation(pc, kind, ids) ==
    [pc |-> pc, kind |-> kind, ids |-> ids, todo |-> ids, undo |-> {},
     before |-> tasks]

Removes == op.kind \in {"remove", "cleanup"}

Removing(id) == Removes /\ id \in op.ids

TypeOK ==
    /\ tasks \in TaskMap
    /\ store \in TaskMap
    /\ op \in OpState
    /\ up \in BOOLEAN
    /\ now \in Nat
    /\ faults \in Nat
    /\ promised \in TaskMap
    /\ unrepaired \in SUBSET TaskId

Init ==
    /\ tasks = NoTasks
    /\ store = NoTasks
    /\ op = Idle
    /\ up = TRUE
    /\ now = 0
    /\ faults = 0
    /\ promised = NoTasks
    /\ unrepaired = {}

CanMutate == up /\ op.pc = "idle"

\* The clock of a bounded model must still be able to pass a deadline d from now.
InHorizon(d) == now + d < MaxTime

-----------------------------------------------------------------------------
(***************************************************************************)
(* init_task_with_message_config.  A second initialisation with the same   *)
(* context changes nothing but is persisted again; with another context it *)
(* is refused.  The HTTP handler passes no TTL, the library's init_task    *)
(* passes the configured default.                                          *)
(***************************************************************************)
Ttl(route) == IF route = "http" THEN Never ELSE DefaultTtl

\* Mutant: the later initialisation replaces the task.
InitTask_replaces(id, c, route) ==
    /\ CanMutate
    /\ InHorizon(DefaultTtl)
    /\ tasks' = [tasks EXCEPT ![id] = with_message_config(c, Ttl(route))]
    /\ op' = Mutation("save", "init", {id})
    /\ UNCHANGED <<store, up, now, faults, promised, unrepaired>>

InitTask(id, c, route) ==
    /\ CanMutate
    /\ InHorizon(DefaultTtl)
    /\ \/ /\ tasks[id] = NoTask
          /\ tasks' = [tasks EXCEPT ![id] = with_message_config(c, Ttl(route))]
       \/ /\ tasks[id] # NoTask
          /\ tasks[id].ctx = c
          /\ UNCHANGED tasks
    /\ op' = Mutation("save", "init", {id})
    /\ UNCHANGED <<store, up, now, faults, promised, unrepaired>>

(***************************************************************************)
(* submit_signature from operator i, which computed context c: it sends    *)
(* c.output and a signature of c.message.  Every early return leaves the   *)
(* state alone.                                                            *)
(***************************************************************************)
\* Mutant: the signature is not verified.
Accepts_unverified(t, i, c) ==
    /\ ValidateOutput => c.output = t.ctx.output
    /\ ~ t.submitted
    /\ ~ is_expired(t)
    /\ i < t.ctx.operator_count
    /\ ~ has_signed(t, i)

Accepts(t, i, c) ==
    /\ ValidateOutput => c.output = t.ctx.output
    /\ VerifyOnSubmit => c.message = t.ctx.message
    /\ ~ t.submitted
    /\ ~ is_expired(t)
    /\ i < t.ctx.operator_count
    /\ ~ has_signed(t, i)

SubmitSignature(id, i, c) ==
    /\ CanMutate
    /\ tasks[id] # NoTask
    /\ Accepts(tasks[id], i, c)
    /\ tasks' = [tasks EXCEPT ![id] = add_signature(@, i, c.message)]
    /\ op' = Mutation("save", "submit", {id})
    /\ UNCHANGED <<store, up, now, faults, promised, unrepaired>>

(***************************************************************************)
(* mark_submitted: no condition but that the task exists; a repeated call  *)
(* restarts the retention period.                                          *)
(***************************************************************************)
MarkSubmitted(id) ==
    /\ CanMutate
    /\ InHorizon(Retention)
    /\ tasks[id] # NoTask
    /\ tasks' = [tasks EXCEPT ![id].submitted = TRUE, ![id].submitted_at = now]
    /\ op' = Mutation("save", "mark", {id})
    /\ UNCHANGED <<store, up, now, faults, promised, unrepaired>>

(***************************************************************************)
(* remove_task deletes from the store first and from memory last.          *)
(***************************************************************************)
RemoveTask(id) ==
    /\ CanMutate
    /\ tasks[id] # NoTask
    /\ op' = Mutation("delete", "remove", {id})
    /\ UNCHANGED <<tasks, store, up, now, faults, promised, unrepaired>>

(***************************************************************************)
(* cleanup_with_persistence removes from memory first, then deletes one    *)
(* task after the other from the store.                                    *)
(***************************************************************************)
Cleanup(kind) ==
    LET removed == {id \in TaskId : tasks[id] # NoTask /\ ~ Keeps(kind, tasks[id])}
    IN  /\ CanMutate
        /\ removed # {}
        /\ tasks' = [id \in TaskId |-> IF id \in removed THEN NoTask ELSE tasks[id]]
        /\ op' = Mutation("delete", "cleanup", removed)
        /\ UNCHANGED <<store, up, now, faults, promised, unrepaired>>

\* The background worker's tick and the calls of the embedding program.
CleanupWorker == Cleanup(IF AutoCleanup THEN "All" ELSE "Expired")

CleanupCall == \E kind \in ManualCleanup : Cleanup(kind)

-----------------------------------------------------------------------------
(***************************************************************************)
(* The steps of the mutation under way.                                    *)
(***************************************************************************)
Fails == faults < MaxFaults /\ faults' = faults + 1

\* A failing backend call may or may not have reached the storage.
MayReach(id, t) == store' \in {store, [store EXCEPT ![id] = t]}

\* save_task replaces one copy atomically (a temporary file and a rename).
Save ==
    /\ op.pc = "save"
    /\ \E id \in op.ids :
         /\ store' = [store EXCEPT ![id] = tasks[id]]
         /\ unrepaired' = unrepaired \ {id}
    /\ op' = [op EXCEPT !.pc = "flush"]
    /\ UNCHANGED <<tasks, up, now, faults, promised>>

\* Mutant: a failing save returns the error without undoing the mutation.
SaveFails_no_rollback ==
    /\ op.pc = "save"
    /\ Fails
    /\ op' = Idle
    /\ UNCHANGED <<tasks, store, up, now, promised, unrepaired>>

SaveFails ==
    /\ op.pc = "save"
    /\ Fails
    /\ \E id \in op.ids : MayReach(id, tasks[id])
    /\ op' = [op EXCEPT !.pc = "undo", !.undo = op.ids]
    /\ UNCHANGED <<tasks, up, now, promised, unrepaired>>

Delete(id) ==
    /\ op.pc = "delete"
    /\ id \in op.todo
    /\ store' = [store EXCEPT ![id] = NoTask]
    /\ unrepaired' = unrepaired \ {id}
    /\ op' = [op EXCEPT !.todo = @ \ {id},
                        !.pc = IF op.todo = {id} THEN "flush" ELSE "delete"]
    /\ UNCHANGED <<tasks, up, now, faults, promised>>

\* Mutant: removed_tasks[..index], without the tasks already deleted.
DeleteFails_forgets_deleted(id) ==
    /\ op.pc = "delete"
    /\ id \in op.todo
    /\ Fails
    /\ op' = [op EXCEPT !.pc = "undo", !.undo = {id}]
    /\ UNCHANGED <<tasks, store, up, now, promised, unrepaired>>

\* The tasks deleted so far and the one that failed are written back.
DeleteFails(id) ==
    /\ op.pc = "delete"
    /\ id \in op.todo
    /\ Fails
    /\ MayReach(id, NoTask)
    /\ op' = [op EXCEPT !.pc = "undo", !.undo = (op.ids \ op.todo) \cup {id}]
    /\ UNCHANGED <<tasks, up, now, promised, unrepaired>>

\* The mutation returns: what it did is now promised to its caller.
Flush ==
    /\ op.pc = "flush"
    /\ tasks' = [id \in TaskId |->
                   IF Removing(id) THEN NoTask ELSE tasks[id]]
    /\ promised' = [id \in TaskId |->
                      IF id \in op.ids THEN tasks'[id] ELSE promised[id]]
    /\ op' = Idle
    /\ UNCHANGED <<store, up, now, faults, unrepaired>>

FlushFails ==
    /\ op.pc = "flush"
    /\ Fails
    /\ op' = [op EXCEPT !.pc = "undo", !.undo = op.ids]
    /\ UNCHANGED <<tasks, store, up, now, promised, unrepaired>>

NextUndo(id) ==
    op' = [op EXCEPT !.undo = @ \ {id},
                     !.pc = IF op.undo = {id} THEN "rollback" ELSE "undo"]

\* restore_persisted_task(s): save the old copy, or delete the new one.
Undo(id) ==
    /\ op.pc = "undo"
    /\ id \in op.undo
    /\ store' = [store EXCEPT ![id] = op.before[id]]
    /\ unrepaired' = unrepaired \ {id}
    /\ NextUndo(id)
    /\ UNCHANGED <<tasks, up, now, faults, promised>>

\* An error while restoring is only logged.  The flush that ends a restore is part of
\* each task's step: the task is as suspect when that flush fails.
UndoFails(id) ==
    /\ op.pc = "undo"
    /\ id \in op.undo
    /\ Fails
    /\ MayReach(id, op.before[id])
    /\ unrepaired' = unrepaired \cup {id}
    /\ NextUndo(id)
    /\ UNCHANGED <<tasks, up, now, promised>>

\* Mutant: restore_snapshot is not called.
Rollback_memory_kept ==
    /\ op.pc = "rollback"
    /\ op' = Idle
    /\ UNCHANGED <<tasks, store, up, now, faults, promised, unrepaired>>

Rollback ==
    /\ op.pc = "rollback"
    /\ tasks' = op.before
    /\ op' = Idle
    /\ UNCHANGED <<store, up, now, faults, promised, unrepaired>>

-----------------------------------------------------------------------------
(***************************************************************************)
(* get_aggregated_result is a reader: at any time it hands out the         *)
(* aggregate of the task in memory when the task is one of these.          *)
(***************************************************************************)
\* Mutant: the check for a submitted task is missing.
get_for_aggregation_submitted(t) == ThresholdMet(t) /\ ~ is_expired(t)

get_for_aggregation(t) == ThresholdMet(t) /\ ~ t.submitted /\ ~ is_expired(t)

(***************************************************************************)
(* The process dies; with_persistence loads the store before serving.  A   *)
(* removal that was interrupted may have reached the store already: its    *)
(* caller got no answer, so nothing is promised about the task any more.   *)
(***************************************************************************)
Crash ==
    /\ up
    /\ Fails
    /\ up' = FALSE
    /\ tasks' = NoTasks
    /\ op' = Idle
    /\ promised' = [id \in TaskId |->
                      IF Removing(id) /\ store[id] = NoTask THEN NoTask ELSE promised[id]]
    /\ UNCHANGED <<store, now, unrepaired>>

Restart ==
    /\ ~ up
    /\ up' = TRUE
    /\ tasks' = store
    /\ promised' = [id \in TaskId |-> IF id \in unrepaired THEN store[id] ELSE promised[id]]
    /\ unrepaired' = {}
    /\ UNCHANGED <<store, op, now, faults>>

Tick ==
    /\ now < MaxTime
    /\ now' = now + 1
    /\ UNCHANGED <<tasks, store, op, up, faults, promised, unrepaired>>

-----------------------------------------------------------------------------
Request ==
    \E id \in TaskId :
      \/ \E c \in Contexts, route \in Routes : InitTask(id, c, route)
      \/ \E i \in Indices, c \in Contexts : SubmitSignature(id, i, c)
      \/ MarkSubmitted(id)
      \/ RemoveTask(id)

\* A mutation under way runs to its end; it never waits for anything else.
Progress ==
    \/ Save
    \/ \E id \in TaskId : Delete(id)
    \/ Flush
    \/ \E id \in TaskId : Undo(id)
    \/ Rollback

BackendFailure ==
    \/ SaveFails
    \/ \E id \in TaskId : DeleteFails(id)
    \/ FlushFails
    \/ \E id \in TaskId : UndoFails(id)

Next ==
    \/ Request
    \/ CleanupWorker
    \/ CleanupCall
    \/ Progress
    \/ BackendFailure
    \/ Crash
    \/ Restart
    \/ Tick

Spec == Init /\ [][Next]_vars

(***************************************************************************)
(* Fairness.  A mutation under way is synchronous code holding the lock; a *)
(* dead process is restarted; time passes; and the worker's tick competes  *)
(* for a parking_lot mutex, which is eventually fair: it is not starved by *)
(* requests that keep taking the lock.                                     *)
(***************************************************************************)
Fairness ==
    /\ WF_vars(Progress)
    /\ WF_vars(Restart)
    /\ WF_vars(Tick)
    /\ SF_vars(CleanupWorker)

FairSpec == Spec /\ Fairness

-----------------------------------------------------------------------------
(***************************************************************************)
(* Properties.                                                             *)
(***************************************************************************)

\* Between mutations the store holds exactly what memory holds, whichever of
\* save, delete, flush or restore failed before, except for the tasks whose
\* restore itself was logged as failed (service.rs, the rollback paths).
StoreMatchesMemory ==
    CanMutate => \A id \in TaskId \ unrepaired : store[id] = tasks[id]

\* t still holds everything p promised: the context, every accepted signature
\* and the fact that the result was submitted.
Extends(t, p) ==
    /\ t # NoTask
    /\ t.ctx = p.ctx
    /\ Signers(p) \subseteq Signers(t)
    /\ p.submitted => t.submitted

\* What a caller was told with Ok is in the store from then on, through every
\* later failure, crash and restart, until a removal of the task begins.
AckedSurvives ==
    \A id \in TaskId \ unrepaired :
        promised[id] # NoTask => Extends(store[id], promised[id]) \/ Removing(id)

\* Once mark_submitted returned Ok the task never again hands out an aggregate
\* nor gains a signature, also after a failed mutation or a restart put it back
\* from a copy (client.rs: "A submitted task no longer exposes aggregate bytes").
SubmittedIsFinal ==
    \A id \in TaskId \ unrepaired :
        (up /\ promised[id] # NoTask /\ promised[id].submitted /\ tasks[id] # NoTask)
            => /\ ~ get_for_aggregation(tasks[id])
               /\ Signers(tasks[id]) = Signers(promised[id])

\* signer_bitmap names exactly the operators whose signatures are held: "bit i =
\* operator i signed" (state.rs, TaskState::signer_bitmap), in memory and store.
BitmapMatchesSignatures ==
    \A id \in TaskId :
        /\ tasks[id] # NoTask => tasks[id].bitmap = Signers(tasks[id])
        /\ store[id] # NoTask => store[id].bitmap = Signers(store[id])

\* Whatever aggregate a reader is handed verifies on chain, also in the middle of
\* a mutation: its signers and non-signers split the operator set and every
\* signature in it signs the task's message.
AggregateVerifies ==
    \A id \in TaskId :
        (tasks[id] # NoTask /\ get_for_aggregation(tasks[id])) =>
            LET t == tasks[id]
            IN  /\ Signers(t) = (0..(t.ctx.operator_count - 1)) \ get_non_signers(t)
                /\ VerifyOnSubmit => \A i \in Signers(t) : t.sigs[i] = t.ctx.message

\* Two copies of a task agree on what init_task fixed: output, message, operators and
\* threshold.
SameContext(t, u) == (t # NoTask /\ u # NoTask) => t.ctx = u.ctx

\* A task's context never changes while the task is in memory: a conflicting
\* initialisation is refused, and no rollback brings another context back.  And once
\* init_task returned Ok, nobody meets another context, in memory, in the store or in
\* an answer, until the task is removed: neither after a crash and a restart from the
\* store, nor after an undo that failed half way.
ContextIsStable ==
    [][\A id \in TaskId :
          /\ SameContext(tasks[id], tasks'[id])
          /\ \A t \in {tasks'[id], store'[id], promised'[id]} :
               SameContext(promised[id], t)]_vars

\* A task reported as submitted stays observable for the retention period: cleanup
\* takes it only afterwards (service.rs: "How long submitted tasks remain observable
\* before cleanup").  This needs auto_cleanup_submitted and no cleanup_expired from
\* the embedding program: that cleanup looks at the TTL alone.
SubmittedStaysObservable ==
    [][\A id \in TaskId :
          (/\ promised[id] # NoTask /\ promised[id].submitted
           /\ tasks[id] # NoTask /\ tasks'[id] = NoTask
           /\ op.kind = "none" /\ op'.kind = "cleanup")
              => now - promised[id].submitted_at >= Retention]_vars

(***************************************************************************)
(* The service implements AtomicTasks.                                     *)
(***************************************************************************)
Settled == IF ~ up THEN store
           ELSE IF op.pc = "idle" THEN tasks ELSE op.before

Target == IF ~ up THEN store
          ELSE [id \in TaskId |-> IF Removing(id) THEN NoTask ELSE tasks[id]]

Abstract == INSTANCE AtomicTasks
              WITH Task <- TaskState, settled <- Settled, target <- Target,
                   visible <- tasks, suspect <- unrepaired

\* Seen from outside, every mutation of the service is atomic: after any failure
\* it either took effect as a whole or left no trace, and a crash in the middle of
\* one settles each task at its old or its new state (service.rs, rollback paths;
\* with_persistence).
MutationsAreAtomic == Abstract!Spec

\* A task leaves memory and store by itself when its TTL or its retention is over.
Ends(t) == t # NoTask /\ (t.expires_at # Never \/ t.submitted)

\* Every task that has a TTL, or is submitted, is eventually gone from memory and from
\* the store, whatever fails meanwhile (service.rs: "Default TTL for tasks", "Cleanup
\* interval for expired/submitted tasks").  The default does not reach every task: the
\* HTTP route passes no TTL (api.rs, ..Default::default()), so that a task created there
\* stays for ever unless it is submitted or removed.
TasksEventuallyForgotten ==
    \A id \in TaskId :
        (CanMutate /\ Ends(tasks[id]))
            ~> (up /\ tasks[id] = NoTask /\ (store[id] = NoTask \/ id \in unrepaired))

-----------------------------------------------------------------------------
(***************************************************************************)
(* The inductive invariant behind StoreMatchesMemory and AckedSurvives: it *)
(* says, for every step of a mutation, which tasks the store already holds *)
(* in their new state, which still in their old one, and that both are no  *)
(* less than what was promised.                                            *)
(***************************************************************************)
Writes == op.kind \in {"init", "submit", "mark"}

OpInv ==
    /\ op.pc = "idle" <=> op.kind = "none"
    /\ op.pc # "idle" => up
    /\ op.pc = "save" => Writes
    /\ op.pc = "delete" => Removes
    /\ Writes => \E id \in TaskId : op.ids = {id}
    /\ op.todo \subseteq op.ids
    /\ op.undo \subseteq op.ids
    /\ op.pc = "rollback" => op.undo = {}
    /\ op.pc # "idle" => \A id \in TaskId \ op.ids : tasks[id] = op.before[id]

OldInStore(S) == \A id \in S \ unrepaired : store[id] = op.before[id]

StoreInv ==
    /\ StoreMatchesMemory
    /\ op.pc # "idle" => OldInStore(TaskId \ op.ids)
    /\ op.pc = "save" => OldInStore(op.ids)
    /\ op.pc = "delete" =>
         /\ OldInStore(op.todo)
         /\ \A id \in op.ids \ op.todo : store[id] = NoTask /\ id \notin unrepaired
    /\ op.pc = "flush" =>
         \A id \in op.ids : /\ id \notin unrepaired
                            /\ store[id] = IF Removes THEN NoTask ELSE tasks[id]
    /\ op.pc \in {"undo", "rollback"} => OldInStore(op.ids \ op.undo)

KeepsPromise(t, id) == promised[id] # NoTask => Extends(t, promised[id])

PromiseInv ==
    \A id \in TaskId :
        /\ up /\ ~ Removing(id) => KeepsPromise(tasks[id], id)
        /\ op.pc # "idle" => KeepsPromise(op.before[id], id)
        /\ id \notin unrepaired =>
             KeepsPromise(store[id], id) \/ (Removing(id) /\ store[id] = NoTask)

\* Between and during mutations: OpInv, StoreInv and PromiseInv together are
\* preserved by every step of the service (service.rs, every mutation).
DurabilityInv == OpInv /\ StoreInv /\ PromiseInv

(***************************************************************************)
(* What a crash in the middle of an undo can leave of a task: its old or   *)
(* its new state.                                                          *)
(***************************************************************************)
UndoInv ==
    op.pc = "undo" => \A id \in op.undo \ unrepaired : store[id] \in {Settled[id], Target[id]}

(***************************************************************************)
(* What holds of a task wherever a copy of it is kept: in memory, in the   *)
(* store, in the snapshot of the mutation under way and in what callers    *)
(* were told.  Mutations make new copies only from such copies; all other  *)
(* steps move them.                                                        *)
(***************************************************************************)
SoundCopy(t) ==
    /\ \A i \in Signers(t) : i < t.ctx.operator_count
    /\ t.bitmap = {i \in Signers(t) : i < BitmapBits}
    /\ VerifyOnSubmit => \A i \in Signers(t) : t.sigs[i] = t.ctx.message
    /\ t.submitted => t.submitted_at \in Nat /\ t.submitted_at <= now

CopiesInv ==
    \A id \in TaskId : \A t \in {tasks[id], store[id], op.before[id], promised[id]} :
        t # NoTask => SoundCopy(t)

(***************************************************************************)
(* A copy of a task that was reported as submitted is final: no signature  *)
(* was added to it, and its retention period starts no earlier.            *)
(***************************************************************************)
FinalCopy(t, id) ==
    (promised[id] # NoTask /\ promised[id].submitted /\ t # NoTask)
        => /\ t.submitted
           /\ Signers(t) = Signers(promised[id])
           /\ promised[id].submitted_at <= t.submitted_at

FinalInv ==
    \A id \in TaskId :
        /\ up => FinalCopy(tasks[id], id)
        /\ op.pc # "idle" => FinalCopy(op.before[id], id)
        /\ id \notin unrepaired => FinalCopy(store[id], id)

(***************************************************************************)
(* A rollback brings back the context a task has, a dead process has none, *)
(* every copy of a task has the context that was promised, and between     *)
(* mutations there is no snapshot.                                         *)
(***************************************************************************)
ContextInv ==
    /\ op.pc # "idle" => \A id \in TaskId : SameContext(tasks[id], op.before[id])
    /\ ~ up => tasks = NoTasks
    /\ \A id \in TaskId : \A t \in {tasks[id], store[id], op.before[id]} :
         SameContext(promised[id], t)
    /\ op.pc = "idle" => op.before = NoTasks
=============================================================================
