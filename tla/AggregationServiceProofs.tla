--------------------- MODULE AggregationServiceProofs -----------------------
(***************************************************************************)
(* Proofs about AggregationService, for every set of tasks and contexts,   *)
(* every configuration and any number of failures.                         *)
(***************************************************************************)
EXTENDS AggregationService, TLAPS

\* A fresh task is a task (TaskState::with_message_config).
LEMMA NewTaskType ==
    ASSUME NEW c \in Contexts, NEW ttl \in Instants, now \in Nat
    PROVE  with_message_config(c, ttl) \in TaskState
<1>1. ttl # Never => now + ttl \in Nat
  BY SentinelsAssumption DEF Instants
<1> QED
  BY <1>1 DEF with_message_config, TaskState, Instants

\* Adding a signature keeps the shape of a task: a shift past the width of the
\* bitmap sets no bit (TaskState::add_signature).
LEMMA AddSignatureType ==
    ASSUME NEW t \in TaskState, NEW i \in Indices, NEW m \in Messages
    PROVE  add_signature(t, i, m) \in TaskState
<1>1. Bit(i) \subseteq 0..(BitmapBits - 1)
  BY NumbersAssumption DEF Bit, Indices
<1>2. [t.sigs EXCEPT ![i] = m] \in [Indices -> Messages \cup {NoSig}]
  BY DEF TaskState
<1> QED
  BY <1>1, <1>2 DEF add_signature, TaskState

\* Every step keeps the types of the variables.
LEMMA TypeStep == TypeOK /\ [Next]_vars => TypeOK'
<1> SUFFICES ASSUME TypeOK, [Next]_vars PROVE TypeOK'
  OBVIOUS
<1> USE DEF TypeOK
<1>1. NoTasks \in TaskMap
  BY DEF NoTasks, TaskMap
<1>2. Idle \in OpState
  BY <1>1 DEF Idle, OpState
<1>3. ASSUME NEW pc \in {"save", "delete"}, NEW kind \in {"init", "submit", "mark", "remove", "cleanup"},
             NEW ids \in SUBSET TaskId
      PROVE  Mutation(pc, kind, ids) \in OpState
  BY <1>3 DEF Mutation, OpState
<1>3a. ASSUME NEW pc \in {"flush", "delete", "undo", "rollback"},
              NEW todo \in SUBSET TaskId, NEW undo \in SUBSET TaskId
       PROVE  /\ [op EXCEPT !.pc = pc] \in OpState
              /\ [op EXCEPT !.todo = todo, !.pc = pc] \in OpState
              /\ [op EXCEPT !.undo = undo, !.pc = pc] \in OpState
              /\ [op EXCEPT !.pc = pc, !.undo = undo] \in OpState
  BY DEF OpState
<1>3b. op.ids \in SUBSET TaskId /\ op.todo \in SUBSET TaskId /\ op.undo \in SUBSET TaskId
  BY DEF OpState
<1>4. ASSUME NEW id \in TaskId, NEW c \in Contexts, NEW route \in Routes, InitTask(id, c, route)
      PROVE  TypeOK'
  <2>1. Ttl(route) \in Instants
    BY NumbersAssumption DEF Ttl, Instants
  <2>2. with_message_config(c, Ttl(route)) \in TaskState
    BY <2>1, NewTaskType
  <2>3. tasks' \in TaskMap
    BY <1>4, <2>2 DEF InitTask, TaskMap
  <2>4. op' \in OpState
    BY <1>4, <1>3 DEF InitTask
  <2> QED
    BY <1>4, <2>3, <2>4 DEF InitTask
<1>5. ASSUME NEW id \in TaskId, NEW i \in Indices, NEW c \in Contexts, SubmitSignature(id, i, c)
      PROVE  TypeOK'
  <2>1. tasks[id] \in TaskState /\ c.message \in Messages
    BY <1>5 DEF SubmitSignature, TaskMap, Messages
  <2>2. add_signature(tasks[id], i, c.message) \in TaskState
    BY <2>1, AddSignatureType
  <2>3. tasks' \in TaskMap
    BY <1>5, <2>2 DEF SubmitSignature, TaskMap
  <2>4. op' \in OpState
    BY <1>5, <1>3 DEF SubmitSignature
  <2> QED
    BY <1>5, <2>3, <2>4 DEF SubmitSignature
<1>6. ASSUME NEW id \in TaskId, MarkSubmitted(id)
      PROVE  TypeOK'
  <2>1. tasks[id] \in TaskState
    BY <1>6 DEF MarkSubmitted, TaskMap
  <2>2. [tasks[id] EXCEPT !.submitted = TRUE, !.submitted_at = now] \in TaskState
    BY <2>1 DEF TaskState, Instants
  <2>3. tasks' = [tasks EXCEPT ![id] = [tasks[id] EXCEPT !.submitted = TRUE, !.submitted_at = now]]
    BY <1>6 DEF MarkSubmitted, TaskMap
  <2>4. tasks' \in TaskMap
    BY <2>2, <2>3 DEF TaskMap
  <2>5. op' \in OpState
    BY <1>6, <1>3 DEF MarkSubmitted
  <2> QED
    BY <1>6, <2>4, <2>5 DEF MarkSubmitted
<1>7. ASSUME NEW id \in TaskId, RemoveTask(id)
      PROVE  TypeOK'
  <2>1. op' \in OpState
    BY <1>7, <1>3 DEF RemoveTask
  <2> QED
    BY <1>7, <2>1 DEF RemoveTask
<1>8. ASSUME NEW kind \in {"All", "Expired", "Submitted"}, Cleanup(kind)
      PROVE  TypeOK'
  <2> DEFINE removed == {id \in TaskId : tasks[id] # NoTask /\ ~ Keeps(kind, tasks[id])}
  <2>1. tasks' \in TaskMap
    BY <1>8 DEF Cleanup, TaskMap
  <2>2. op' = Mutation("delete", "cleanup", removed)
    BY <1>8 DEF Cleanup
  <2>3. op' \in OpState
    BY <2>2, <1>3
  <2> QED
    BY <1>8, <2>1, <2>3 DEF Cleanup
<1>9. CASE Save
  <2>1. op' \in OpState
    BY <1>9, <1>3a DEF Save
  <2>2. store' \in TaskMap /\ unrepaired' \in SUBSET TaskId
    BY <1>9 DEF Save, TaskMap
  <2> QED
    BY <1>9, <2>1, <2>2 DEF Save
<1>10. CASE SaveFails
  <2>1. op' \in OpState
    BY <1>10, <1>3a, <1>3b DEF SaveFails
  <2>2. store' \in TaskMap
    BY <1>10 DEF SaveFails, MayReach, TaskMap
  <2> QED
    BY <1>10, <2>1, <2>2 DEF SaveFails, Fails
<1>11. ASSUME NEW id \in TaskId, Delete(id) PROVE TypeOK'
  <2>1. op' \in OpState
    BY <1>11, <1>3a, <1>3b DEF Delete
  <2>2. store' \in TaskMap /\ unrepaired' \in SUBSET TaskId
    BY <1>11 DEF Delete, TaskMap
  <2> QED
    BY <1>11, <2>1, <2>2 DEF Delete
<1>12. ASSUME NEW id \in TaskId, DeleteFails(id) PROVE TypeOK'
  <2>1. op' \in OpState
    BY <1>12, <1>3a, <1>3b DEF DeleteFails
  <2>2. store' \in TaskMap
    BY <1>12 DEF DeleteFails, MayReach, TaskMap
  <2> QED
    BY <1>12, <2>1, <2>2 DEF DeleteFails, Fails
<1>13. CASE Flush
  <2>1. tasks' \in TaskMap
    BY <1>13 DEF Flush, TaskMap
  <2>2. promised' \in TaskMap
    BY <1>13, <2>1 DEF Flush, TaskMap
  <2>3. op' = Idle /\ UNCHANGED <<store, up, now, faults, unrepaired>>
    BY <1>13 DEF Flush
  <2> QED
    BY <1>2, <2>1, <2>2, <2>3
<1>14. CASE FlushFails
  <2>1. op' \in OpState
    BY <1>14, <1>3a, <1>3b DEF FlushFails
  <2> QED
    BY <1>14, <2>1 DEF FlushFails, Fails
<1>15. ASSUME NEW id \in TaskId, Undo(id) PROVE TypeOK'
  <2>1. op' \in OpState
    BY <1>15, <1>3a, <1>3b DEF Undo, NextUndo
  <2>2. store' \in TaskMap
    BY <1>15 DEF Undo, TaskMap, OpState
  <2> QED
    BY <1>15, <2>1, <2>2 DEF Undo
<1>16. ASSUME NEW id \in TaskId, UndoFails(id) PROVE TypeOK'
  <2>1. op' \in OpState
    BY <1>16, <1>3a, <1>3b DEF UndoFails, NextUndo
  <2>2. store' \in TaskMap
    BY <1>16 DEF UndoFails, MayReach, TaskMap, OpState
  <2> QED
    BY <1>16, <2>1, <2>2 DEF UndoFails, Fails
<1>17. CASE Rollback
  BY <1>17, <1>2 DEF Rollback, OpState
<1>18. CASE Crash
  <2>1. promised' \in TaskMap
    BY <1>18 DEF Crash, TaskMap
  <2>2. up' = FALSE /\ tasks' = NoTasks /\ op' = Idle /\ UNCHANGED <<store, now, unrepaired>>
    BY <1>18 DEF Crash
  <2>3. faults' \in Nat
    BY <1>18 DEF Crash, Fails
  <2> QED
    BY <1>1, <1>2, <2>1, <2>2, <2>3
<1>19. CASE Restart
  <2>1. promised' \in TaskMap
    BY <1>19 DEF Restart, TaskMap
  <2> QED
    BY <1>19, <2>1 DEF Restart
<1>20. CASE Tick
  BY <1>20 DEF Tick
<1>21. CASE UNCHANGED vars
  BY <1>21 DEF vars
<1>22. CASE CleanupWorker
  BY <1>22, <1>8 DEF CleanupWorker
<1>23. CASE CleanupCall
  BY <1>23, <1>8, FlagsAssumption DEF CleanupCall
<1> QED
  BY <1>4, <1>5, <1>6, <1>7, <1>9, <1>10, <1>11, <1>12, <1>13, <1>14, <1>15, <1>16, <1>17,
     <1>18, <1>19, <1>20, <1>21, <1>22, <1>23 DEF Next, Request, Progress, BackendFailure

\* The variables always have their types, in every configuration.
THEOREM TypeCorrect == Spec => []TypeOK
<1>1. Init => TypeOK
  BY DEF Init, TypeOK, NoTasks, TaskMap, Idle, OpState
<1> QED
  BY <1>1, TypeStep, PTL DEF Spec

-----------------------------------------------------------------------------
(***************************************************************************)
(* Durability.  DurabilityInv is inductive: first the start of a mutation, *)
(* then each of its steps, then crash, restart and the clock.              *)
(***************************************************************************)

\* A mutation that writes one task starts with the store in its old state
\* (init_task, submit_signature and mark_submitted up to persist_task).
LEMMA BeginWrite ==
    ASSUME TypeOK, DurabilityInv, CanMutate,
           NEW id \in TaskId, NEW kind \in {"init", "submit", "mark"},
           op' = Mutation("save", kind, {id}),
           UNCHANGED <<store, up, promised, unrepaired>>,
           \A x \in TaskId \ {id} : tasks'[x] = tasks[x],
           KeepsPromise(tasks[id], id) => KeepsPromise(tasks[id], id)'
    PROVE  DurabilityInv'
<1>1. /\ op'.pc = "save" /\ op'.kind = kind /\ op'.ids = {id}
      /\ op'.todo = {id} /\ op'.undo = {} /\ op'.before = tasks
  BY DEF Mutation
<1>2. up /\ up' /\ op.pc = "idle" /\ op.kind = "none"
  BY DEF CanMutate, DurabilityInv, OpInv
<1>3. ~ Removes /\ ~ Removes'
  BY <1>1, <1>2 DEF Removes
<1>4. \A x \in TaskId : KeepsPromise(tasks[x], x)
  BY <1>2, <1>3 DEF DurabilityInv, PromiseInv, Removing
<1>5. \A x \in TaskId \ unrepaired : store[x] = tasks[x]
  BY DEF DurabilityInv, StoreInv, StoreMatchesMemory
<1>6. OpInv'
  BY <1>1, <1>2 DEF OpInv, Writes, Removes
<1>7. StoreInv'
  BY <1>1, <1>5 DEF StoreInv, StoreMatchesMemory, CanMutate, OldInStore
<1>8. \A x \in TaskId : KeepsPromise(tasks[x], x)'
  BY <1>4 DEF KeepsPromise
<1>9. PromiseInv'
  BY <1>1, <1>4, <1>5, <1>8 DEF PromiseInv, KeepsPromise
<1> QED
  BY <1>6, <1>7, <1>9 DEF DurabilityInv

\* A removal starts with all of its tasks still in the store (remove_task and
\* cleanup_with_persistence up to the first delete_task).
LEMMA BeginRemoval ==
    ASSUME TypeOK, DurabilityInv, CanMutate,
           NEW ids \in SUBSET TaskId, NEW kind \in {"remove", "cleanup"},
           op' = Mutation("delete", kind, ids),
           UNCHANGED <<store, up, promised, unrepaired>>,
           \A x \in TaskId \ ids : tasks'[x] = tasks[x]
    PROVE  DurabilityInv'
<1>1. /\ op'.pc = "delete" /\ op'.kind = kind /\ op'.ids = ids
      /\ op'.todo = ids /\ op'.undo = {} /\ op'.before = tasks
  BY DEF Mutation
<1>2. up /\ up' /\ op.pc = "idle" /\ op.kind = "none"
  BY DEF CanMutate, DurabilityInv, OpInv
<1>3. \A x \in TaskId : KeepsPromise(tasks[x], x)
  BY <1>2 DEF DurabilityInv, PromiseInv, Removing, Removes
<1>4. \A x \in TaskId \ unrepaired : store[x] = tasks[x]
  BY DEF DurabilityInv, StoreInv, StoreMatchesMemory
<1>5. OpInv'
  BY <1>1, <1>2 DEF OpInv, Writes, Removes
<1>6. StoreInv'
  BY <1>1, <1>4 DEF StoreInv, StoreMatchesMemory, CanMutate, OldInStore
<1>7. \A x \in TaskId : ~ Removing(x)' => x \notin ids
  BY <1>1 DEF Removing, Removes
<1>8. PromiseInv'
  BY <1>1, <1>3, <1>4, <1>7 DEF PromiseInv, KeepsPromise
<1> QED
  BY <1>5, <1>6, <1>8 DEF DurabilityInv

\* Adding a signature keeps all that was promised (TaskState::add_signature).
LEMMA MoreKeepsPromise ==
    ASSUME NEW t \in TaskState, NEW p, Extends(t, p), NEW i \in Indices, NEW m \in Messages
    PROVE  Extends(add_signature(t, i, m), p)
<1>1. m # NoSig
  BY SentinelsAssumption
<1>2. add_signature(t, i, m) \in TaskState
  BY AddSignatureType
<1>3. /\ add_signature(t, i, m).ctx = t.ctx
      /\ add_signature(t, i, m).submitted = t.submitted
      /\ add_signature(t, i, m).sigs = [t.sigs EXCEPT ![i] = m]
  BY DEF add_signature, TaskState
<1>4. t.sigs \in [Indices -> Messages \cup {NoSig}]
  BY DEF TaskState
<1>5. Signers(t) \subseteq Signers(add_signature(t, i, m))
  BY <1>1, <1>3, <1>4 DEF Signers
<1> QED
  BY <1>2, <1>3, <1>5, NoTaskAssumption DEF Extends

\* So does marking the task as submitted (AggregationState::mark_submitted).
LEMMA MarkKeepsPromise ==
    ASSUME NEW t \in TaskState, NEW p, Extends(t, p), now \in Nat
    PROVE  Extends([t EXCEPT !.submitted = TRUE, !.submitted_at = now], p)
<1> DEFINE u == [t EXCEPT !.submitted = TRUE, !.submitted_at = now]
<1>1. u.ctx = t.ctx /\ u.sigs = t.sigs /\ u.submitted = TRUE
  BY DEF TaskState
<1>2. u \in TaskState
  BY DEF TaskState, Instants
<1>3. Signers(u) = Signers(t)
  BY <1>1 DEF Signers
<1> QED
  BY <1>1, <1>2, <1>3, NoTaskAssumption DEF Extends

\* Writing forward: the store receives the new state of the mutated task, or
\* loses a removed one (persist_task; the loop of cleanup_with_persistence).
LEMMA ForwardStep ==
    ASSUME TypeOK, DurabilityInv, Save \/ \E id \in TaskId : Delete(id)
    PROVE  DurabilityInv'
<1>1. CASE Save
  <2>1. /\ op.pc = "save" /\ op'.pc = "flush" /\ op'.kind = op.kind /\ op'.ids = op.ids
        /\ op'.todo = op.todo /\ op'.undo = op.undo /\ op'.before = op.before
        /\ UNCHANGED <<tasks, up, promised>>
    BY <1>1 DEF Save, TypeOK, OpState
  <2>2. PICK id \in TaskId : /\ op.ids = {id}
                             /\ store' = [store EXCEPT ![id] = tasks[id]]
                             /\ unrepaired' = unrepaired \ {id}
    <3>1. PICK id \in TaskId : op.ids = {id}
      BY <2>1 DEF DurabilityInv, OpInv
    <3> QED
      BY <1>1, <3>1 DEF Save
  <2>3. Writes /\ ~ Removes /\ ~ Removes' /\ Writes'
    BY <2>1 DEF DurabilityInv, OpInv, Writes, Removes
  <2>4. store'[id] = tasks[id] /\ \A x \in TaskId \ {id} : store'[x] = store[x]
    BY <2>2 DEF TypeOK, TaskMap
  <2>5. OpInv'
    BY <2>1, <2>3 DEF DurabilityInv, OpInv, Writes, Removes
  <2>6. StoreInv'
    BY <2>1, <2>2, <2>3, <2>4
    DEF DurabilityInv, StoreInv, StoreMatchesMemory, CanMutate, OldInStore
  <2>7. \A x \in TaskId : KeepsPromise(store[x], x)' \/ x \in unrepaired'
    BY <2>1, <2>2, <2>3, <2>4 DEF DurabilityInv, OpInv, PromiseInv, KeepsPromise, Removing
  <2>8. PromiseInv'
    BY <2>1, <2>3, <2>7 DEF DurabilityInv, PromiseInv, KeepsPromise, Removing
  <2> QED
    BY <2>5, <2>6, <2>8 DEF DurabilityInv
<1>2. ASSUME NEW id \in TaskId, Delete(id) PROVE DurabilityInv'
  <2>1. /\ op.pc = "delete" /\ op'.kind = op.kind
        /\ op'.pc = IF op.todo = {id} THEN "flush" ELSE "delete"
        /\ op'.ids = op.ids /\ op'.todo = op.todo \ {id} /\ op'.undo = op.undo
        /\ op'.before = op.before /\ UNCHANGED <<tasks, up, promised>>
    BY <1>2 DEF Delete, TypeOK, OpState
  <2>2. id \in op.todo /\ id \in op.ids /\ (op'.pc = "flush" => op'.todo = {})
    BY <1>2, <2>1 DEF Delete, DurabilityInv, OpInv
  <2>3. Removes /\ Removes' /\ ~ Writes /\ ~ Writes'
    BY <2>1 DEF DurabilityInv, OpInv, Writes, Removes
  <2>4. /\ store'[id] = NoTask /\ \A x \in TaskId \ {id} : store'[x] = store[x]
        /\ unrepaired' = unrepaired \ {id}
    BY <1>2 DEF Delete, TypeOK, TaskMap
  <2>5. op.ids \in SUBSET TaskId
    BY DEF TypeOK, OpState
  <2>6. OpInv'
    BY <2>1, <2>3 DEF DurabilityInv, OpInv, Writes, Removes
  <2>7. StoreInv'
    <3>1. \A x \in op.ids \ op'.todo : store'[x] = NoTask /\ x \notin unrepaired'
      BY <2>1, <2>2, <2>4, <2>5 DEF DurabilityInv, StoreInv
    <3>2. OldInStore(op.todo)' /\ OldInStore(TaskId \ op.ids)'
      BY <2>1, <2>2, <2>4, <2>5 DEF DurabilityInv, OpInv, StoreInv, OldInStore
    <3>3. op'.pc = "delete" \/ (op'.pc = "flush" /\ op'.todo = {})
      BY <2>1, <2>2
    <3> QED
      BY <2>1, <2>3, <3>1, <3>2, <3>3 DEF StoreInv, StoreMatchesMemory, CanMutate
  <2>8. \A x \in TaskId : Removing(x)' = Removing(x)
    BY <2>1, <2>3 DEF Removing
  <2>9. PromiseInv'
    BY <2>1, <2>2, <2>3, <2>4, <2>8 DEF DurabilityInv, PromiseInv, KeepsPromise, Removing
  <2> QED
    BY <2>6, <2>7, <2>9 DEF DurabilityInv
<1> QED
  BY <1>1, <1>2

\* A failing call starts the undo with every task the mutation may have touched in
\* the store: the one written, or those deleted so far and the one that failed.
LEMMA FailureStep ==
    ASSUME TypeOK, DurabilityInv, SaveFails \/ FlushFails \/ \E id \in TaskId : DeleteFails(id)
    PROVE  DurabilityInv'
<1>1. CASE SaveFails
  <2>1. /\ op.pc = "save" /\ op'.pc = "undo" /\ op'.kind = op.kind /\ op'.ids = op.ids
        /\ op'.todo = op.todo /\ op'.undo = op.ids /\ op'.before = op.before
        /\ UNCHANGED <<tasks, up, promised, unrepaired>>
    BY <1>1 DEF SaveFails, TypeOK, OpState
  <2>2. PICK id \in TaskId : op.ids = {id} /\ MayReach(id, tasks[id])
    BY <1>1, <2>1 DEF SaveFails, DurabilityInv, OpInv
  <2>3. Writes /\ ~ Removes /\ ~ Removes' /\ Writes'
    BY <2>1 DEF DurabilityInv, OpInv, Writes, Removes
  <2>4. /\ store'[id] \in {store[id], tasks[id]}
        /\ \A x \in TaskId \ {id} : store'[x] = store[x]
    BY <2>2 DEF MayReach, TypeOK, TaskMap
  <2>5. OpInv'
    BY <2>1, <2>3 DEF DurabilityInv, OpInv, Writes, Removes
  <2>6. StoreInv'
    BY <2>1, <2>2, <2>4 DEF DurabilityInv, StoreInv, StoreMatchesMemory, CanMutate, OldInStore
  <2>7. \A x \in TaskId : KeepsPromise(store[x], x)' \/ x \in unrepaired'
    BY <2>1, <2>2, <2>3, <2>4 DEF DurabilityInv, OpInv, PromiseInv, KeepsPromise, Removing
  <2>8. PromiseInv'
    BY <2>1, <2>3, <2>7 DEF DurabilityInv, PromiseInv, KeepsPromise, Removing
  <2> QED
    BY <2>5, <2>6, <2>8 DEF DurabilityInv
<1>2. CASE FlushFails
  <2>1. /\ op.pc = "flush" /\ op'.pc = "undo" /\ op'.kind = op.kind /\ op'.ids = op.ids
        /\ op'.todo = op.todo /\ op'.undo = op.ids /\ op'.before = op.before
        /\ UNCHANGED <<tasks, store, up, promised, unrepaired>>
    BY <1>2 DEF FlushFails, TypeOK, OpState
  <2>2. OpInv'
    BY <2>1 DEF DurabilityInv, OpInv, Writes, Removes
  <2>3. StoreInv'
    BY <2>1 DEF DurabilityInv, StoreInv, StoreMatchesMemory, CanMutate, OldInStore
  <2>4. PromiseInv'
    BY <2>1 DEF DurabilityInv, PromiseInv, KeepsPromise, Removing, Removes
  <2> QED
    BY <2>2, <2>3, <2>4 DEF DurabilityInv
<1>3. ASSUME NEW id \in TaskId, DeleteFails(id) PROVE DurabilityInv'
  <2>1. /\ op.pc = "delete" /\ op'.pc = "undo" /\ op'.kind = op.kind /\ op'.ids = op.ids
        /\ op'.todo = op.todo /\ op'.undo = (op.ids \ op.todo) \cup {id}
        /\ op'.before = op.before /\ UNCHANGED <<tasks, up, promised, unrepaired>>
    BY <1>3 DEF DeleteFails, TypeOK, OpState
  <2>2. id \in op.todo /\ id \in op.ids /\ op.ids \in SUBSET TaskId
    BY <1>3, <2>1 DEF DeleteFails, DurabilityInv, OpInv, TypeOK, OpState
  <2>3. Removes /\ Removes' /\ ~ Writes /\ ~ Writes'
    BY <2>1 DEF DurabilityInv, OpInv, Writes, Removes
  <2>4. /\ store'[id] \in {store[id], NoTask}
        /\ \A x \in TaskId \ {id} : store'[x] = store[x]
    BY <1>3 DEF DeleteFails, MayReach, TypeOK, TaskMap
  <2>5. OpInv'
    BY <2>1, <2>2, <2>3 DEF DurabilityInv, OpInv, Writes, Removes
  <2>6. StoreInv'
    BY <2>1, <2>2, <2>4 DEF DurabilityInv, StoreInv, StoreMatchesMemory, CanMutate, OldInStore
  <2>7. \A x \in TaskId : Removing(x)' = Removing(x)
    BY <2>1, <2>3 DEF Removing
  <2>8. PromiseInv'
    BY <2>1, <2>2, <2>3, <2>4, <2>7 DEF DurabilityInv, PromiseInv, KeepsPromise, Removing
  <2> QED
    BY <2>5, <2>6, <2>8 DEF DurabilityInv
<1> QED
  BY <1>1, <1>2, <1>3

\* The undo writes old copies back one by one; a task whose old copy could not be
\* written is set aside (restore_persisted_task, restore_persisted_tasks).
LEMMA UndoStep ==
    ASSUME TypeOK, DurabilityInv, NEW id \in TaskId, Undo(id) \/ UndoFails(id)
    PROVE  DurabilityInv'
<1>1. /\ op.pc = "undo" /\ op'.kind = op.kind /\ op'.ids = op.ids /\ op'.todo = op.todo
      /\ op'.pc = IF op.undo = {id} THEN "rollback" ELSE "undo"
      /\ op'.undo = op.undo \ {id} /\ op'.before = op.before
      /\ UNCHANGED <<tasks, up, promised>>
  BY DEF Undo, UndoFails, NextUndo, TypeOK, OpState
<1>2. id \in op.undo /\ id \in op.ids /\ op.ids \in SUBSET TaskId
  BY DEF Undo, UndoFails, DurabilityInv, OpInv, TypeOK, OpState
<1>3. /\ \A x \in TaskId \ {id} : store'[x] = store[x]
      /\ \A x \in TaskId \ {id} : x \in unrepaired <=> x \in unrepaired'
      /\ id \in unrepaired' \/ store'[id] = op.before[id]
  BY DEF Undo, UndoFails, MayReach, TypeOK, TaskMap
<1>4. op'.pc \in {"undo", "rollback"} /\ (op'.pc = "rollback" => op'.undo = {})
  BY <1>1, <1>2
<1>5. OpInv'
  BY <1>1, <1>4 DEF DurabilityInv, OpInv, Writes, Removes
<1>6. OldInStore(op.ids \ op.undo)' /\ OldInStore(TaskId \ op.ids)'
  BY <1>1, <1>2, <1>3 DEF DurabilityInv, StoreInv, OldInStore
<1>7. StoreInv'
  BY <1>4, <1>6 DEF StoreInv, StoreMatchesMemory, CanMutate
<1>8. \A x \in TaskId : Removing(x)' = Removing(x)
  BY <1>1 DEF Removing, Removes
<1>9. PromiseInv'
  BY <1>1, <1>3, <1>8 DEF DurabilityInv, PromiseInv, KeepsPromise
<1> QED
  BY <1>5, <1>7, <1>9 DEF DurabilityInv

\* A mutation ends, with Ok (Flush) or with its error (Rollback): store and memory
\* agree again, and what Ok promises is in both.
LEMMA EndStep ==
    ASSUME TypeOK, DurabilityInv, Flush \/ Rollback
    PROVE  DurabilityInv'
<1>1. /\ op'.pc = "idle" /\ op'.kind = "none" /\ op'.ids = {} /\ op'.todo = {} /\ op'.undo = {}
      /\ UNCHANGED <<store, up, unrepaired>>
  BY DEF Flush, Rollback, Idle
<1>2. ~ Writes' /\ ~ Removes' /\ \A x \in TaskId : ~ Removing(x)'
  BY <1>1 DEF Writes, Removes, Removing
<1>3. OpInv'
  BY <1>1, <1>2 DEF OpInv
<1>4. CASE Flush
  <2>1. /\ op.pc = "flush"
        /\ \A x \in TaskId : tasks'[x] = IF Removing(x) THEN NoTask ELSE tasks[x]
        /\ \A x \in TaskId : promised'[x] = IF x \in op.ids THEN tasks'[x] ELSE promised[x]
    BY <1>4 DEF Flush
  <2>2. \A x \in op.ids : x \notin unrepaired /\ store[x] = tasks'[x]
    BY <2>1 DEF DurabilityInv, StoreInv, Removing, TypeOK, OpState
  <2>3. \A x \in TaskId \ op.ids :
          /\ tasks'[x] = tasks[x] /\ tasks[x] = op.before[x]
          /\ x \notin unrepaired => store[x] = op.before[x]
    BY <2>1 DEF DurabilityInv, OpInv, StoreInv, OldInStore, Removing
  <2>3a. ASSUME NEW x \in TaskId, x \notin unrepaired' PROVE store'[x] = tasks'[x]
    <3>1. store' = store /\ unrepaired' = unrepaired
      BY <1>1
    <3>2. CASE x \in op.ids
      BY <2>2, <3>1, <3>2
    <3>3. CASE x \notin op.ids
      BY <2>3, <2>3a, <3>1, <3>3
    <3> QED
      BY <3>2, <3>3
  <2>4. StoreInv'
    BY <1>1, <2>3a DEF StoreInv, StoreMatchesMemory
  <2>5. up
    BY <2>1 DEF DurabilityInv, OpInv
  <2>6. ASSUME NEW x \in TaskId PROVE KeepsPromise(tasks[x], x)'
    <3>1. CASE x \in op.ids
      BY <2>1, <3>1 DEF KeepsPromise, Extends
    <3>2. CASE x \notin op.ids
      <4>1. ~ Removing(x)
        BY <3>2 DEF Removing
      <4>2. tasks'[x] = tasks[x] /\ promised'[x] = promised[x]
        BY <2>1, <3>2, <4>1
      <4>3. KeepsPromise(tasks[x], x)
        BY <2>5, <4>1 DEF DurabilityInv, PromiseInv
      <4> QED
        BY <4>2, <4>3 DEF KeepsPromise
    <3> QED
      BY <3>1, <3>2
  <2>7. PromiseInv'
    <3>1. ASSUME NEW x \in TaskId, x \notin unrepaired' PROVE KeepsPromise(store[x], x)'
      BY <2>3a, <2>6, <3>1 DEF KeepsPromise
    <3> QED
      BY <1>1, <2>6, <3>1 DEF PromiseInv
  <2> QED
    BY <1>3, <2>4, <2>7 DEF DurabilityInv
<1>5. CASE Rollback
  <2>1. op.pc = "rollback" /\ tasks' = op.before /\ promised' = promised
    BY <1>5 DEF Rollback
  <2>2. op.undo = {} /\ up
    BY <2>1 DEF DurabilityInv, OpInv
  <2>3. OldInStore(op.ids) /\ OldInStore(TaskId \ op.ids)
    BY <2>1, <2>2 DEF DurabilityInv, StoreInv, OldInStore
  <2>4. StoreInv'
    BY <1>1, <2>1, <2>3 DEF StoreInv, StoreMatchesMemory, OldInStore
  <2>5. \A x \in TaskId : KeepsPromise(tasks[x], x)'
    BY <2>1 DEF DurabilityInv, PromiseInv, KeepsPromise
  <2>6. PromiseInv'
    BY <1>1, <1>2, <2>1, <2>3, <2>5 DEF PromiseInv, KeepsPromise, OldInStore
  <2> QED
    BY <1>3, <2>4, <2>6 DEF DurabilityInv
<1> QED
  BY <1>4, <1>5

\* A crash loses memory and the mutation under way; the next start loads the store.
LEMMA CrashRestartStep ==
    ASSUME TypeOK, DurabilityInv, Crash \/ Restart
    PROVE  DurabilityInv'
<1>1. CASE Crash
  <2>1. /\ op'.pc = "idle" /\ op'.kind = "none" /\ op'.ids = {} /\ op'.todo = {} /\ op'.undo = {}
        /\ ~ up' /\ UNCHANGED <<store, unrepaired>>
    BY <1>1 DEF Crash, Idle
  <2>2. ~ Writes' /\ ~ Removes' /\ \A x \in TaskId : ~ Removing(x)'
    BY <2>1 DEF Writes, Removes, Removing
  <2>3. OpInv'
    BY <2>1, <2>2 DEF OpInv
  <2>4. StoreInv'
    BY <2>1 DEF StoreInv, StoreMatchesMemory, CanMutate
  <2>5. \A x \in TaskId : promised'[x] = IF Removing(x) /\ store[x] = NoTask
                                          THEN NoTask ELSE promised[x]
    BY <1>1 DEF Crash
  <2>6. PromiseInv'
    BY <2>1, <2>2, <2>5 DEF DurabilityInv, PromiseInv, KeepsPromise
  <2> QED
    BY <2>3, <2>4, <2>6 DEF DurabilityInv
<1>2. CASE Restart
  <2>1. tasks' = store /\ store' = store /\ op' = op /\ unrepaired' = {} /\ ~ up /\ up'
    BY <1>2 DEF Restart
  <2>2. op.pc = "idle" /\ op.kind = "none"
    BY <2>1 DEF DurabilityInv, OpInv
  <2>3. ~ Writes' /\ ~ Removes' /\ \A x \in TaskId : ~ Removing(x)' /\ ~ Removing(x)
    BY <2>1, <2>2 DEF Writes, Removes, Removing
  <2>4. OpInv'
    BY <2>1, <2>2, <2>3 DEF DurabilityInv, OpInv, Writes, Removes
  <2>5. StoreInv'
    BY <2>1, <2>2 DEF StoreInv, StoreMatchesMemory
  <2>6. \A x \in TaskId : promised'[x] = IF x \in unrepaired THEN store[x] ELSE promised[x]
    BY <1>2 DEF Restart
  <2>7. \A x \in TaskId : KeepsPromise(store[x], x)'
    BY <2>1, <2>3, <2>6 DEF DurabilityInv, PromiseInv, KeepsPromise, Extends, Signers
  <2>8. PromiseInv'
    BY <2>1, <2>2, <2>7 DEF PromiseInv, KeepsPromise
  <2> QED
    BY <2>4, <2>5, <2>8 DEF DurabilityInv
<1> QED
  BY <1>1, <1>2

\* The requests, each up to its first call of the persistence backend.
LEMMA RequestStep ==
    ASSUME TypeOK, DurabilityInv, Request \/ CleanupWorker \/ CleanupCall
    PROVE  DurabilityInv'
<1>1. ASSUME NEW id \in TaskId, NEW c \in Contexts, NEW route \in Routes, InitTask(id, c, route)
      PROVE  DurabilityInv'
  <2>1. /\ CanMutate /\ op' = Mutation("save", "init", {id})
        /\ UNCHANGED <<store, up, promised, unrepaired>>
    BY <1>1 DEF InitTask
  <2>2. \A x \in TaskId \ {id} : tasks'[x] = tasks[x]
    BY <1>1 DEF InitTask, TypeOK, TaskMap
  <2>3. tasks[id] = NoTask \/ tasks'[id] = tasks[id]
    BY <1>1 DEF InitTask
  <2>4. KeepsPromise(tasks[id], id) => KeepsPromise(tasks[id], id)'
    BY <2>1, <2>3 DEF KeepsPromise, Extends
  <2> QED
    BY <2>1, <2>2, <2>4, BeginWrite
<1>2. ASSUME NEW id \in TaskId, NEW i \in Indices, NEW c \in Contexts, SubmitSignature(id, i, c)
      PROVE  DurabilityInv'
  <2>1. /\ CanMutate /\ op' = Mutation("save", "submit", {id})
        /\ UNCHANGED <<store, up, promised, unrepaired>>
    BY <1>2 DEF SubmitSignature
  <2>2. /\ \A x \in TaskId \ {id} : tasks'[x] = tasks[x]
        /\ tasks'[id] = add_signature(tasks[id], i, c.message)
    BY <1>2 DEF SubmitSignature, TypeOK, TaskMap
  <2>3. tasks[id] \in TaskState /\ c.message \in Messages /\ now \in Nat
    BY <1>2 DEF SubmitSignature, TypeOK, TaskMap, Messages
  <2>4. Extends(tasks[id], promised[id]) => Extends(tasks'[id], promised[id])
    BY <2>2, <2>3, MoreKeepsPromise
  <2>5. KeepsPromise(tasks[id], id) => KeepsPromise(tasks[id], id)'
    BY <2>1, <2>4 DEF KeepsPromise
  <2> QED
    BY <2>1, <2>2, <2>5, BeginWrite
<1>3. ASSUME NEW id \in TaskId, MarkSubmitted(id)
      PROVE  DurabilityInv'
  <2>1. /\ CanMutate /\ op' = Mutation("save", "mark", {id})
        /\ UNCHANGED <<store, up, promised, unrepaired>>
    BY <1>3 DEF MarkSubmitted
  <2>2. /\ \A x \in TaskId \ {id} : tasks'[x] = tasks[x]
        /\ tasks'[id] = [tasks[id] EXCEPT !.submitted = TRUE, !.submitted_at = now]
    BY <1>3 DEF MarkSubmitted, TypeOK, TaskMap
  <2>3. tasks[id] \in TaskState /\ now \in Nat
    BY <1>3 DEF MarkSubmitted, TypeOK, TaskMap
  <2>4. Extends(tasks[id], promised[id]) => Extends(tasks'[id], promised[id])
    BY <2>2, <2>3, MarkKeepsPromise
  <2>5. KeepsPromise(tasks[id], id) => KeepsPromise(tasks[id], id)'
    BY <2>1, <2>4 DEF KeepsPromise
  <2> QED
    BY <2>1, <2>2, <2>5, BeginWrite
<1>4. ASSUME NEW id \in TaskId, RemoveTask(id)
      PROVE  DurabilityInv'
  <2>1. /\ CanMutate /\ op' = Mutation("delete", "remove", {id})
        /\ UNCHANGED <<tasks, store, up, promised, unrepaired>>
    BY <1>4 DEF RemoveTask
  <2> QED
    BY <2>1, BeginRemoval
<1>5. ASSUME NEW kind, Cleanup(kind)
      PROVE  DurabilityInv'
  <2> DEFINE removed == {id \in TaskId : tasks[id] # NoTask /\ ~ Keeps(kind, tasks[id])}
  <2>1. /\ CanMutate /\ op' = Mutation("delete", "cleanup", removed)
        /\ UNCHANGED <<store, up, promised, unrepaired>>
        /\ \A x \in TaskId \ removed : tasks'[x] = tasks[x]
    BY <1>5 DEF Cleanup
  <2>2. removed \in SUBSET TaskId
    OBVIOUS
  <2> HIDE DEF removed
  <2> QED
    BY <2>1, <2>2, BeginRemoval
<1> QED
  BY <1>1, <1>2, <1>3, <1>4, <1>5 DEF Request, CleanupWorker, CleanupCall

\* DurabilityInv is preserved by every step of the service.
LEMMA DurabilityStep == TypeOK /\ DurabilityInv /\ [Next]_vars => DurabilityInv'
<1> SUFFICES ASSUME TypeOK, DurabilityInv, [Next]_vars PROVE DurabilityInv'
  OBVIOUS
<1>1. CASE Tick \/ UNCHANGED vars
  <2>1. UNCHANGED <<tasks, store, op, up, promised, unrepaired>>
    BY <1>1 DEF Tick, vars
  <2>2. OpInv'
    BY <2>1 DEF DurabilityInv, OpInv, Writes, Removes
  <2>3. StoreInv'
    BY <2>1 DEF DurabilityInv, StoreInv, StoreMatchesMemory, CanMutate, OldInStore, Removes
  <2>4. PromiseInv'
    BY <2>1 DEF DurabilityInv, PromiseInv, KeepsPromise, Removing, Removes
  <2> QED
    BY <2>2, <2>3, <2>4 DEF DurabilityInv
<1>2. CASE Request \/ CleanupWorker \/ CleanupCall
  BY <1>2, RequestStep
<1>3. CASE Progress
  BY <1>3, ForwardStep, EndStep, UndoStep DEF Progress
<1>4. CASE BackendFailure
  BY <1>4, FailureStep, UndoStep DEF BackendFailure
<1>5. CASE Crash \/ Restart
  BY <1>5, CrashRestartStep
<1> QED
  BY <1>1, <1>2, <1>3, <1>4, <1>5 DEF Next

\* The inductive invariant holds in every reachable state, for any number of tasks,
\* operators, failing backend calls and crashes.
THEOREM Durability == Spec => []DurabilityInv
<1>1. Init => DurabilityInv
  <2> SUFFICES ASSUME Init PROVE DurabilityInv
    OBVIOUS
  <2>1. OpInv
    BY DEF Init, Idle, OpInv, Writes, Removes
  <2>2. StoreInv
    BY DEF Init, Idle, StoreInv, StoreMatchesMemory, OldInStore
  <2>3. PromiseInv
    BY DEF Init, Idle, NoTasks, PromiseInv, KeepsPromise
  <2> QED
    BY <2>1, <2>2, <2>3 DEF DurabilityInv
<1> QED
  BY <1>1, DurabilityStep, TypeCorrect, PTL DEF Spec

\* Between mutations the store holds exactly what memory holds, except for tasks
\* whose restore was logged as failed (service.rs, the rollback paths).
THEOREM StoreAlwaysMatchesMemory == Spec => []StoreMatchesMemory
<1>1. DurabilityInv => StoreMatchesMemory
  BY DEF DurabilityInv, StoreInv
<1> QED
  BY <1>1, Durability, PTL

\* What a caller was told with Ok is in the store until a removal of it begins,
\* through every failure, crash and restart (persist_task, with_persistence).
THEOREM AckedAlwaysSurvives == Spec => []AckedSurvives
<1>1. DurabilityInv => AckedSurvives
  BY DEF DurabilityInv, PromiseInv, KeepsPromise, AckedSurvives
<1> QED
  BY <1>1, Durability, PTL
-----------------------------------------------------------------------------
(***************************************************************************)
(* Atomicity.  The service implements AtomicTasks under the mapping of     *)
(* AggregationService: the start of a mutation is Begin, its flush Commit, *)
(* its rollback Abort; the writes in between change at most which tasks    *)
(* are suspect.  Crash needs UndoInv beside DurabilityInv.                 *)
(***************************************************************************)

\* The steps of a mutation between its start and its end.
MiddleOfMutation ==
    \/ Save \/ SaveFails \/ FlushFails
    \/ \E id \in TaskId : Delete(id) \/ DeleteFails(id) \/ Undo(id) \/ UndoFails(id)

\* They change neither what it
\* started from nor what it aims at (save_task, delete_task, flush and restore).
LEMMA MiddleStep ==
    ASSUME TypeOK, DurabilityInv, MiddleOfMutation
    PROVE  /\ op.pc # "idle" /\ op'.pc # "idle" /\ up
           /\ op'.before = op.before /\ op'.ids = op.ids /\ op'.kind = op.kind
           /\ UNCHANGED <<tasks, up, now, promised>>
           /\ UNCHANGED <<Settled, Target>>
<1> DEFINE Frame ==
             /\ op.pc # "idle" /\ op'.pc # "idle"
             /\ op'.before = op.before /\ op'.ids = op.ids /\ op'.kind = op.kind
             /\ UNCHANGED <<tasks, up, now, promised>>
<1>1. Frame
  <2>1. CASE Save \/ SaveFails \/ FlushFails
    BY <2>1 DEF Save, SaveFails, FlushFails, TypeOK, OpState
  <2>2. ASSUME NEW id \in TaskId, Delete(id) \/ DeleteFails(id) PROVE Frame
    BY <2>2 DEF Delete, DeleteFails, TypeOK, OpState
  <2>3. ASSUME NEW id \in TaskId, Undo(id) \/ UndoFails(id) PROVE Frame
    BY <2>3 DEF Undo, UndoFails, NextUndo, TypeOK, OpState
  <2> QED
    BY <2>1, <2>2, <2>3 DEF MiddleOfMutation
<1>2. up
  BY <1>1 DEF DurabilityInv, OpInv
<1>3. Settled' = Settled
  BY <1>1, <1>2 DEF Settled
<1>4. Target' = Target
  BY <1>1, <1>2 DEF Target, Removing, Removes
<1> QED
  BY <1>1, <1>2, <1>3, <1>4

\* While an undo runs, each task still to be restored is in the store in its old or
\* in its new state (the error paths of persist_task and cleanup_with_persistence).
LEMMA UndoInvStep == TypeOK /\ DurabilityInv /\ UndoInv /\ [Next]_vars => UndoInv'
<1> SUFFICES ASSUME TypeOK, DurabilityInv, UndoInv, [Next]_vars, op'.pc = "undo"
             PROVE  \A id \in op'.undo \ unrepaired' : store'[id] \in {Settled'[id], Target'[id]}
  BY DEF UndoInv
<1>0. op.ids \in SUBSET TaskId /\ op.todo \subseteq op.ids /\ op.undo \subseteq op.ids
  BY DEF TypeOK, OpState, DurabilityInv, OpInv
<1>0a. op.pc # "idle" => /\ up /\ Settled = op.before
                         /\ \A id \in TaskId : Target[id] = IF Removing(id) THEN NoTask ELSE tasks[id]
  BY DEF DurabilityInv, OpInv, Settled, Target
<1>1. CASE SaveFails
  <2>0. MiddleOfMutation
    BY <1>1 DEF MiddleOfMutation
  <2>1. UNCHANGED <<Settled, Target, unrepaired>> /\ op.pc = "save"
    BY <1>1, <2>0, MiddleStep DEF SaveFails
  <2>2. PICK id \in TaskId : op.ids = {id} /\ MayReach(id, tasks[id])
    BY <1>1, <2>1 DEF SaveFails, DurabilityInv, OpInv
  <2>3. op'.undo = {id} /\ ~ Removing(id)
    BY <1>1, <2>1, <2>2 DEF SaveFails, TypeOK, OpState, DurabilityInv, OpInv, Writes, Removing, Removes
  <2>4. store'[id] \in {store[id], tasks[id]}
    BY <2>2 DEF MayReach, TypeOK, TaskMap
  <2>5. id \notin unrepaired => store[id] = op.before[id]
    BY <2>1, <2>2 DEF DurabilityInv, StoreInv, OldInStore
  <2> QED
    BY <1>0a, <2>1, <2>3, <2>4, <2>5
<1>2. CASE FlushFails
  <2>0. MiddleOfMutation
    BY <1>2 DEF MiddleOfMutation
  <2>1. UNCHANGED <<Settled, Target, unrepaired, store>> /\ op.pc = "flush" /\ op'.undo = op.ids
    BY <1>2, <2>0, MiddleStep DEF FlushFails, TypeOK, OpState
  <2>2. \A id \in op.ids : store[id] = Target[id]
    BY <1>0, <1>0a, <2>1 DEF DurabilityInv, StoreInv, Removing
  <2> QED
    BY <2>1, <2>2
<1>3. ASSUME NEW id \in TaskId, DeleteFails(id)
      PROVE  \A x \in op'.undo \ unrepaired' : store'[x] \in {Settled'[x], Target'[x]}
  <2>0. MiddleOfMutation
    BY <1>3 DEF MiddleOfMutation
  <2>1. /\ UNCHANGED <<Settled, Target, unrepaired>> /\ op.pc = "delete"
        /\ op'.undo = (op.ids \ op.todo) \cup {id} /\ id \in op.todo
    BY <1>3, <2>0, MiddleStep DEF DeleteFails, TypeOK, OpState
  <2>2. /\ store'[id] \in {store[id], NoTask}
        /\ \A x \in TaskId \ {id} : store'[x] = store[x]
    BY <1>3 DEF DeleteFails, MayReach, TypeOK, TaskMap
  <2>3. \A x \in op.ids : Target[x] = NoTask
    BY <1>0, <1>0a, <2>1 DEF DurabilityInv, OpInv, Removing
  <2>4. id \notin unrepaired => store[id] = op.before[id]
    BY <2>1 DEF DurabilityInv, StoreInv, OldInStore
  <2>5. \A x \in op.ids \ op.todo : store[x] = NoTask
    BY <2>1 DEF DurabilityInv, StoreInv
  <2> QED
    BY <1>0, <1>0a, <2>1, <2>2, <2>3, <2>4, <2>5
<1>4. ASSUME NEW id \in TaskId, Undo(id) \/ UndoFails(id)
      PROVE  \A x \in op'.undo \ unrepaired' : store'[x] \in {Settled'[x], Target'[x]}
  <2>0. MiddleOfMutation
    BY <1>4 DEF MiddleOfMutation
  <2>1. UNCHANGED <<Settled, Target>> /\ op.pc = "undo" /\ op'.undo = op.undo \ {id}
    BY <1>4, <2>0, MiddleStep DEF Undo, UndoFails, NextUndo, TypeOK, OpState
  <2>2. \A x \in TaskId \ {id} : store'[x] = store[x] /\ (x \in unrepaired <=> x \in unrepaired')
    BY <1>4 DEF Undo, UndoFails, MayReach, TypeOK, TaskMap
  <2> QED
    BY <1>0, <2>1, <2>2 DEF UndoInv
<1>5. CASE Tick \/ UNCHANGED vars
  <2>1. UNCHANGED <<tasks, store, op, up, unrepaired>>
    BY <1>5 DEF Tick, vars
  <2>2. UNCHANGED <<Settled, Target>>
    BY <2>1 DEF Settled, Target, Removing, Removes
  <2> QED
    BY <2>1, <2>2 DEF UndoInv
<1>6. ~ (Request \/ CleanupWorker \/ CleanupCall)
  <2>1. \A id \in TaskId, c \in Contexts, route \in Routes : ~ InitTask(id, c, route)
    BY DEF InitTask, Mutation
  <2>2. \A id \in TaskId, i \in Indices, c \in Contexts : ~ SubmitSignature(id, i, c)
    BY DEF SubmitSignature, Mutation
  <2>3. \A id \in TaskId : ~ MarkSubmitted(id) /\ ~ RemoveTask(id)
    BY DEF MarkSubmitted, RemoveTask, Mutation
  <2>4. ASSUME NEW kind, Cleanup(kind) PROVE FALSE
    BY <2>4 DEF Cleanup, Mutation
  <2> QED
    BY <2>1, <2>2, <2>3, <2>4 DEF Request, CleanupWorker, CleanupCall
<1>7. ~ Save /\ \A id \in TaskId : ~ Delete(id)
  <2>1. ~ Save
    BY DEF Save, TypeOK, OpState
  <2>2. ASSUME NEW id \in TaskId, Delete(id) PROVE FALSE
    BY <2>2 DEF Delete, TypeOK, OpState
  <2> QED
    BY <2>1, <2>2
<1>8. Flush \/ Rollback \/ Crash => op'.pc = "idle"
  BY DEF Flush, Rollback, Crash, Idle
<1>9. Restart => op'.pc = "idle"
  BY DEF Restart, DurabilityInv, OpInv
<1> QED
  BY <1>1, <1>2, <1>3, <1>4, <1>5, <1>6, <1>7, <1>8, <1>9 DEF Next, Progress, BackendFailure

\* A request starts a mutation: what it aims at is visible at once, or, for
\* remove_task, nothing of it is (the parts of service.rs before the first backend call).
LEMMA RequestIsBegin ==
    ASSUME TypeOK, DurabilityInv, Request \/ CleanupWorker \/ CleanupCall, TypeOK'
    PROVE  Abstract!Begin
<1> DEFINE Starts ==
             /\ CanMutate /\ op'.pc # "idle" /\ op'.before = tasks
             /\ UNCHANGED <<store, up, unrepaired>>
             /\ tasks' = tasks \/ \A id \in TaskId : Removing(id)' => tasks'[id] = NoTask
<1>1. Starts
  <2>1. ASSUME NEW id \in TaskId, NEW c \in Contexts, NEW route \in Routes, InitTask(id, c, route)
        PROVE  Starts
    BY <2>1 DEF InitTask, Mutation, Removing, Removes
  <2>2. ASSUME NEW id \in TaskId, NEW i \in Indices, NEW c \in Contexts, SubmitSignature(id, i, c)
        PROVE  Starts
    BY <2>2 DEF SubmitSignature, Mutation, Removing, Removes
  <2>3. ASSUME NEW id \in TaskId, MarkSubmitted(id)
        PROVE  Starts
    BY <2>3 DEF MarkSubmitted, Mutation, Removing, Removes
  <2>4. ASSUME NEW id \in TaskId, RemoveTask(id)
        PROVE  Starts
    BY <2>4 DEF RemoveTask, Mutation
  <2>5. ASSUME NEW kind, Cleanup(kind)
        PROVE  Starts
    BY <2>5 DEF Cleanup, Mutation, Removing, Removes
  <2> QED
    BY <2>1, <2>2, <2>3, <2>4, <2>5 DEF Request, CleanupWorker, CleanupCall
<1>2. up /\ up' /\ op.pc = "idle" /\ op.kind = "none"
  BY <1>1 DEF CanMutate, DurabilityInv, OpInv
<1>3. Settled = tasks /\ Settled' = tasks
  BY <1>1, <1>2 DEF Settled
<1>4. tasks \in TaskMap /\ tasks' \in TaskMap
  BY DEF TypeOK
<1>5. Target = tasks
  BY <1>2, <1>4 DEF Target, Removing, Removes, TaskMap
<1>6. Target' = [id \in TaskId |-> IF Removing(id)' THEN NoTask ELSE tasks'[id]]
  BY <1>2 DEF Target
<1>7. Target' \in TaskMap
  BY <1>4, <1>6 DEF TaskMap
<1>8. tasks' \in {Settled, Target'}
  BY <1>1, <1>3, <1>4, <1>6 DEF TaskMap
<1> QED
  BY <1>1, <1>2, <1>3, <1>5, <1>7, <1>8 DEF Abstract!Begin, Abstract!Quiet, Abstract!Map, TaskMap

\* The backend calls of a mutation are invisible, but that a task whose restore
\* failed becomes suspect and a written one no longer is.
LEMMA MiddleIsSuspect ==
    ASSUME TypeOK, DurabilityInv, MiddleOfMutation
    PROVE  Abstract!Suspect \/ UNCHANGED Abstract!vars
<1>1. up /\ UNCHANGED <<Settled, Target, tasks, up>>
  BY MiddleStep
<1>2. \/ unrepaired' = unrepaired
      \/ \E id \in TaskId : unrepaired' \in {unrepaired \cup {id}, unrepaired \ {id}}
  <2>1. op.ids \in SUBSET TaskId
    BY DEF TypeOK, OpState
  <2>2. CASE Save \/ SaveFails \/ FlushFails
    BY <2>1, <2>2 DEF Save, SaveFails, FlushFails
  <2>3. ASSUME NEW id \in TaskId, Delete(id) \/ DeleteFails(id) \/ Undo(id) \/ UndoFails(id)
        PROVE  unrepaired' \in {unrepaired, unrepaired \cup {id}, unrepaired \ {id}}
    BY <2>3 DEF Delete, DeleteFails, Undo, UndoFails
  <2> QED
    BY <2>2, <2>3 DEF MiddleOfMutation
<1> QED
  BY <1>1, <1>2 DEF Abstract!Suspect, Abstract!vars

\* Wherever a crash falls, each task that is not suspect is in the store in the
\* state before or the state after the mutation under way.
LEMMA CrashSettles ==
    ASSUME TypeOK, DurabilityInv, UndoInv, up, NEW id \in TaskId \ unrepaired
    PROVE  store[id] \in {Settled[id], Target[id]}
<1>1. /\ Settled = IF op.pc = "idle" THEN tasks ELSE op.before
      /\ Target[id] = IF Removing(id) THEN NoTask ELSE tasks[id]
  BY DEF Settled, Target
<1>2. CASE op.pc = "idle"
  BY <1>1, <1>2 DEF DurabilityInv, StoreInv, StoreMatchesMemory, CanMutate
<1>3. CASE op.pc # "idle" /\ id \notin op.ids
  BY <1>1, <1>3 DEF DurabilityInv, StoreInv, OldInStore
<1>4. CASE op.pc # "idle" /\ id \in op.ids
  <2>1. CASE op.pc = "save"
    BY <1>1, <1>4, <2>1 DEF DurabilityInv, StoreInv, OldInStore
  <2>2. CASE op.pc = "delete"
    BY <1>1, <1>4, <2>2 DEF DurabilityInv, OpInv, StoreInv, OldInStore, Removing
  <2>3. CASE op.pc = "flush"
    BY <1>1, <1>4, <2>3 DEF DurabilityInv, StoreInv, Removing
  <2>4. CASE op.pc = "undo"
    BY <1>1, <1>4, <2>4 DEF DurabilityInv, StoreInv, OldInStore, UndoInv
  <2>5. CASE op.pc = "rollback"
    BY <1>1, <1>4, <2>5 DEF DurabilityInv, OpInv, StoreInv, OldInStore
  <2>6. op.pc \in {"idle", "save", "delete", "flush", "undo", "rollback"}
    BY DEF TypeOK, OpState
  <2> QED
    BY <1>4, <2>1, <2>2, <2>3, <2>4, <2>5, <2>6
<1> QED
  BY <1>2, <1>3, <1>4

\* Every step of the service is a step of AtomicTasks, or invisible there.
LEMMA AtomicStep ==
    TypeOK /\ TypeOK' /\ DurabilityInv /\ UndoInv /\ [Next]_vars => [Abstract!Next]_Abstract!vars
<1> SUFFICES ASSUME TypeOK, TypeOK', DurabilityInv, UndoInv, [Next]_vars
             PROVE  Abstract!Next \/ UNCHANGED Abstract!vars
  OBVIOUS
<1>1. tasks \in TaskMap /\ tasks' \in TaskMap /\ store \in TaskMap /\ op.before \in TaskMap
  BY DEF TypeOK, OpState
<1>2. CASE Request \/ CleanupWorker \/ CleanupCall
  BY <1>2, RequestIsBegin DEF Abstract!Next
<1>3. CASE MiddleOfMutation
  BY <1>3, MiddleIsSuspect DEF Abstract!Next
<1>4. CASE Flush
  <2>1. /\ op.pc # "idle" /\ up /\ op'.pc = "idle" /\ op'.kind = "none"
        /\ UNCHANGED <<up, unrepaired>>
        /\ tasks' = [id \in TaskId |-> IF Removing(id) THEN NoTask ELSE tasks[id]]
    BY <1>4 DEF Flush, Idle, DurabilityInv, OpInv
  <2>2. Target = tasks' /\ Settled' = tasks'
    BY <2>1 DEF Target, Settled
  <2>3. Target' = tasks'
    BY <1>1, <2>1 DEF Target, Removing, Removes, TaskMap
  <2> QED
    BY <2>1, <2>2, <2>3 DEF Abstract!Next, Abstract!Commit
<1>5. CASE Rollback
  <2>1. /\ op.pc # "idle" /\ up /\ op'.pc = "idle" /\ op'.kind = "none"
        /\ UNCHANGED <<up, unrepaired>> /\ tasks' = op.before
    BY <1>5 DEF Rollback, Idle, DurabilityInv, OpInv
  <2>2. Settled = tasks' /\ Settled' = tasks'
    BY <2>1 DEF Settled
  <2>3. Target' = tasks'
    BY <1>1, <2>1 DEF Target, Removing, Removes, TaskMap
  <2> QED
    BY <2>1, <2>2, <2>3 DEF Abstract!Next, Abstract!Abort
<1>6. CASE Crash
  <2>1. up /\ ~ up' /\ up' = FALSE /\ tasks' = NoTasks /\ UNCHANGED <<store, unrepaired>>
    BY <1>6 DEF Crash
  <2>2. Settled' = store /\ Target' = store
    BY <2>1 DEF Settled, Target
  <2>3. \A id \in TaskId \ unrepaired : store[id] \in {Settled[id], Target[id]}
    BY <2>1, CrashSettles
  <2>4. Settled' \in Abstract!Map /\ tasks' = Abstract!Nothing
    BY <1>1, <2>1, <2>2 DEF Abstract!Map, TaskMap, NoTasks, Abstract!Nothing
  <2> QED
    BY <2>1, <2>2, <2>3, <2>4 DEF Abstract!Next, Abstract!Crash
<1>7. CASE Restart
  <2>1. /\ ~ up /\ up' = TRUE /\ tasks' = store /\ op' = op /\ store' = store /\ unrepaired' = {}
        /\ op.pc = "idle" /\ op.kind = "none"
    BY <1>7 DEF Restart, DurabilityInv, OpInv
  <2>2. Settled = store /\ Target = store /\ Settled' = store
    BY <2>1 DEF Settled, Target
  <2>3. Target' = tasks'
    BY <1>1, <2>1 DEF Target, Removing, Removes, TaskMap
  <2> QED
    BY <2>1, <2>2, <2>3 DEF Abstract!Next, Abstract!Restart
<1>8. CASE Tick \/ UNCHANGED vars
  <2>1. UNCHANGED <<tasks, store, op, up, unrepaired>>
    BY <1>8 DEF Tick, vars
  <2> QED
    BY <2>1 DEF Abstract!vars, Settled, Target, Removing, Removes
<1> QED
  BY <1>2, <1>3, <1>4, <1>5, <1>6, <1>7, <1>8 DEF Next, Progress, BackendFailure, MiddleOfMutation

\* Seen from outside every mutation of the service is atomic, through failing backend
\* calls, failing restores, crashes and restarts: the service implements AtomicTasks
\* (service.rs: mutation_lock, the rollback paths, with_persistence).
THEOREM ServiceIsAtomic == Spec => MutationsAreAtomic
<1>1. Init => UndoInv
  BY DEF Init, Idle, UndoInv
<1>2. Init => Abstract!Init
  BY DEF Init, Idle, NoTasks, Abstract!Init, Abstract!Nothing, Settled, Target, Removing, Removes
<1> QED
  BY <1>1, <1>2, UndoInvStep, AtomicStep, TypeCorrect, Durability, PTL
  DEF Spec, MutationsAreAtomic, Abstract!Spec

-----------------------------------------------------------------------------
(***************************************************************************)
(* Copies of tasks.  CopiesInv says what holds of every copy of a task;    *)
(* only requests make new copies.                                          *)
(***************************************************************************)

\* Between requests no task changes: whatever memory, the store, the snapshot or a
\* promise holds afterwards was one of these copies before (service.rs, state.rs).
LEMMA CopiesMove ==
    ASSUME TypeOK, NEW id \in TaskId,
           \/ Progress \/ BackendFailure \/ Crash \/ Restart \/ Tick \/ UNCHANGED vars,
           NEW t \in {tasks'[id], store'[id], op'.before[id], promised'[id]}
    PROVE  t \in {NoTask, tasks[id], store[id], op.before[id], promised[id]}
<1> DEFINE Old == {NoTask, tasks[id], store[id], op.before[id], promised[id]}
           Moves == {tasks'[id], store'[id], op'.before[id], promised'[id]} \subseteq Old
<1> USE DEF TypeOK, TaskMap, OpState
<1>1. CASE Save
  <2>1. op'.before = op.before /\ UNCHANGED <<tasks, promised>>
    BY <1>1 DEF Save
  <2>2. store'[id] \in Old
    BY <1>1 DEF Save
  <2> QED
    BY <2>1, <2>2
<1>2. CASE SaveFails
  <2>1. op'.before = op.before /\ UNCHANGED <<tasks, promised>>
    BY <1>2 DEF SaveFails
  <2>2. store'[id] \in Old
    BY <1>2 DEF SaveFails, MayReach
  <2> QED
    BY <2>1, <2>2
<1>3. CASE FlushFails
  BY <1>3 DEF FlushFails
<1>4. ASSUME NEW x \in TaskId, Delete(x) \/ DeleteFails(x) PROVE Moves
  <2>1. op'.before = op.before /\ UNCHANGED <<tasks, promised>>
    BY <1>4 DEF Delete, DeleteFails
  <2>2. store'[id] \in Old
    BY <1>4 DEF Delete, DeleteFails, MayReach
  <2> QED
    BY <2>1, <2>2
<1>5. ASSUME NEW x \in TaskId, Undo(x) \/ UndoFails(x) PROVE Moves
  <2>1. op'.before = op.before /\ UNCHANGED <<tasks, promised>>
    BY <1>5 DEF Undo, UndoFails, NextUndo
  <2>2. store'[id] \in Old
    BY <1>5 DEF Undo, UndoFails, MayReach
  <2> QED
    BY <2>1, <2>2
<1>6. CASE Flush
  <2>1. tasks'[id] \in Old /\ store' = store /\ op'.before = NoTasks
    BY <1>6 DEF Flush, Idle
  <2>2. promised'[id] \in {tasks'[id], promised[id]}
    BY <1>6 DEF Flush
  <2> QED
    BY <2>1, <2>2 DEF NoTasks
<1>7. CASE Rollback
  BY <1>7 DEF Rollback, Idle, NoTasks
<1>8. CASE Crash
  BY <1>8 DEF Crash, Idle, NoTasks
<1>9. CASE Restart
  BY <1>9 DEF Restart
<1>10. CASE Tick \/ UNCHANGED vars
  BY <1>10 DEF Tick, vars
<1> QED
  BY <1>1, <1>2, <1>3, <1>4, <1>5, <1>6, <1>7, <1>8, <1>9, <1>10 DEF Progress, BackendFailure

\* Time only adds to what a copy satisfies.
LEMMA SoundLater ==
    ASSUME NEW t \in TaskState, SoundCopy(t), now \in Nat, now' \in Nat, now <= now'
    PROVE  SoundCopy(t)'
BY DEF SoundCopy

\* A fresh task is sound (TaskState::with_message_config).
LEMMA NewTaskSound ==
    ASSUME NEW c \in Contexts, NEW ttl
    PROVE  SoundCopy(with_message_config(c, ttl))
<1>1. Signers(with_message_config(c, ttl)) = {}
  BY DEF with_message_config, Signers
<1> QED
  BY <1>1 DEF with_message_config, SoundCopy

\* An accepted signature keeps a task sound, also when it replaces one that the bitmap
\* cannot record (submit_signature, TaskState::add_signature).
LEMMA AddSignatureSound ==
    ASSUME NEW t \in TaskState, SoundCopy(t), NEW i \in Indices, NEW c \in Contexts, Accepts(t, i, c)
    PROVE  SoundCopy(add_signature(t, i, c.message))
<1> DEFINE u == add_signature(t, i, c.message)
<1>1. /\ u.ctx = t.ctx /\ u.submitted = t.submitted /\ u.submitted_at = t.submitted_at
      /\ u.bitmap = t.bitmap \cup Bit(i) /\ u.sigs = [t.sigs EXCEPT ![i] = c.message]
  BY DEF add_signature, TaskState
<1>2. t.sigs \in [Indices -> Messages \cup {NoSig}] /\ c.message \in Messages /\ c.message # NoSig
  BY SentinelsAssumption DEF TaskState, Messages
<1>3. Signers(u) = Signers(t) \cup {i}
  BY <1>1, <1>2 DEF Signers
<1> HIDE DEF u
<1>4. \A j \in Signers(u) : j < u.ctx.operator_count
  BY <1>1, <1>3 DEF SoundCopy, Accepts
<1>5. u.bitmap = {j \in Signers(u) : j < BitmapBits}
  BY <1>1, <1>3 DEF SoundCopy, Bit
<1>6. VerifyOnSubmit => \A j \in Signers(u) : u.sigs[j] = u.ctx.message
  BY <1>1, <1>2, <1>3 DEF SoundCopy, Accepts, Signers
<1> QED
  BY <1>1, <1>4, <1>5, <1>6 DEF SoundCopy, u

\* Marking a task as submitted keeps it sound (AggregationState::mark_submitted).
LEMMA MarkSound ==
    ASSUME NEW t \in TaskState, SoundCopy(t), now \in Nat,
           NEW u, u = [t EXCEPT !.submitted = TRUE, !.submitted_at = now]
    PROVE  SoundCopy(u)
<1>1. u.ctx = t.ctx /\ u.sigs = t.sigs /\ u.bitmap = t.bitmap /\ u.submitted_at = now
  BY DEF TaskState
<1>2. Signers(u) = Signers(t)
  BY <1>1 DEF Signers
<1> QED
  BY <1>1, <1>2 DEF SoundCopy

\* What a request may do to a task in memory: nothing, drop it, create it, add one
\* signature to it, or mark it as submitted (state.rs, AggregationState).
RequestChanges(id) ==
    \/ tasks'[id] \in {tasks[id], NoTask}
    \/ /\ tasks[id] = NoTask
       /\ \E c \in Contexts, route \in Routes :
            tasks'[id] = with_message_config(c, Ttl(route))
    \/ /\ tasks[id] # NoTask
       /\ \E i \in Indices, c \in Contexts :
            /\ Accepts(tasks[id], i, c)
            /\ tasks'[id] = add_signature(tasks[id], i, c.message)
    \/ /\ tasks[id] # NoTask
       /\ tasks'[id] = [tasks[id] EXCEPT !.submitted = TRUE, !.submitted_at = now]

\* A request takes a snapshot and leaves all other copies as they are (service.rs,
\* every mutation up to its first backend call).
LEMMA RequestCopies ==
    ASSUME TypeOK, Request \/ CleanupWorker \/ CleanupCall, NEW id \in TaskId
    PROVE  /\ CanMutate /\ op'.pc # "idle" /\ op'.before = tasks
           /\ UNCHANGED <<store, up, now, promised, unrepaired>>
           /\ RequestChanges(id)
<1> DEFINE Starts ==
             /\ CanMutate /\ op'.pc # "idle" /\ op'.before = tasks
             /\ UNCHANGED <<store, up, now, promised, unrepaired>>
<1>1. ASSUME NEW x \in TaskId, NEW c \in Contexts, NEW route \in Routes, InitTask(x, c, route)
      PROVE  Starts /\ RequestChanges(id)
  <2>1. Starts
    BY <1>1 DEF InitTask, Mutation
  <2>2. \/ tasks'[id] = tasks[id]
        \/ tasks[id] = NoTask /\ tasks'[id] = with_message_config(c, Ttl(route))
    BY <1>1 DEF RequestChanges, InitTask, TypeOK, TaskMap
  <2> QED
    BY <2>1, <2>2 DEF RequestChanges
<1>2. ASSUME NEW x \in TaskId, NEW i \in Indices, NEW c \in Contexts, SubmitSignature(x, i, c)
      PROVE  Starts /\ RequestChanges(id)
  <2>1. Starts
    BY <1>2 DEF SubmitSignature, Mutation
  <2>2. CASE id # x
    BY <1>2, <2>1, <2>2 DEF RequestChanges, SubmitSignature, TypeOK, TaskMap
  <2>3. CASE id = x
    BY <1>2, <2>1, <2>3 DEF RequestChanges, SubmitSignature, TypeOK, TaskMap
  <2> QED
    BY <2>2, <2>3
<1>3. ASSUME NEW x \in TaskId, MarkSubmitted(x)
      PROVE  Starts /\ RequestChanges(id)
  <2>1. Starts
    BY <1>3 DEF MarkSubmitted, Mutation
  <2>2. CASE id # x
    BY <1>3, <2>1, <2>2 DEF RequestChanges, MarkSubmitted, TypeOK, TaskMap
  <2>3. CASE id = x
    BY <1>3, <2>1, <2>3 DEF RequestChanges, MarkSubmitted, TypeOK, TaskMap
  <2> QED
    BY <2>2, <2>3
<1>4. ASSUME NEW x \in TaskId, RemoveTask(x)
      PROVE  Starts /\ RequestChanges(id)
  BY <1>4 DEF RemoveTask, Mutation, RequestChanges
<1>5. ASSUME NEW kind, Cleanup(kind)
      PROVE  Starts /\ RequestChanges(id)
  BY <1>5 DEF Cleanup, Mutation, RequestChanges
<1> QED
  BY <1>1, <1>2, <1>3, <1>4, <1>5 DEF Request, CleanupWorker, CleanupCall

\* The clock never runs backwards.
LEMMA TimeStep == TypeOK /\ [Next]_vars => now' \in Nat /\ now <= now'
<1> SUFFICES ASSUME TypeOK, [Next]_vars PROVE now' \in Nat /\ now <= now'
  OBVIOUS
<1>1. now' = now \/ now' = now + 1
  <2>1. CASE Request \/ CleanupWorker \/ CleanupCall
    BY <2>1 DEF Request, InitTask, SubmitSignature, MarkSubmitted, RemoveTask, CleanupWorker,
                CleanupCall, Cleanup
  <2>2. CASE Progress \/ BackendFailure
    <3>1. ASSUME NEW id \in TaskId, Delete(id) \/ DeleteFails(id) \/ Undo(id) \/ UndoFails(id)
          PROVE  now' = now
      BY <3>1 DEF Delete, DeleteFails, Undo, UndoFails
    <3>2. Save \/ SaveFails \/ Flush \/ FlushFails \/ Rollback => now' = now
      BY DEF Save, SaveFails, Flush, FlushFails, Rollback
    <3> QED
      BY <2>2, <3>1, <3>2 DEF Progress, BackendFailure
  <2>3. CASE Crash \/ Restart \/ Tick \/ UNCHANGED vars
    BY <2>3 DEF Crash, Restart, Tick, vars
  <2> QED
    BY <2>1, <2>2, <2>3 DEF Next
<1> QED
  BY <1>1 DEF TypeOK

\* Every copy of every task stays sound.
LEMMA CopiesStep == TypeOK /\ TypeOK' /\ CopiesInv /\ [Next]_vars => CopiesInv'
<1> SUFFICES ASSUME TypeOK, TypeOK', CopiesInv, [Next]_vars, NEW id \in TaskId,
                    NEW t \in {tasks'[id], store'[id], op'.before[id], promised'[id]}, t # NoTask
             PROVE  SoundCopy(t)'
  BY DEF CopiesInv
<1>1. now \in Nat /\ now' \in Nat /\ now <= now'
  BY TimeStep DEF TypeOK
<1>2. \A u \in {tasks[id], store[id], op.before[id], promised[id]} : u # NoTask =>
        u \in TaskState /\ SoundCopy(u)
  BY DEF CopiesInv, TypeOK, TaskMap, OpState
<1>3. CASE Progress \/ BackendFailure \/ Crash \/ Restart \/ Tick \/ UNCHANGED vars
  <2>1. t \in {NoTask, tasks[id], store[id], op.before[id], promised[id]}
    BY <1>3, CopiesMove
  <2> QED
    BY <1>1, <1>2, <2>1, SoundLater
<1>4. CASE Request \/ CleanupWorker \/ CleanupCall
  <2>1. t \in TaskState
    BY DEF TypeOK, TaskMap, OpState
  <2>2. /\ op'.before = tasks /\ UNCHANGED <<store, promised>>
        /\ RequestChanges(id)
    BY <1>4, RequestCopies
  <2>3. SoundCopy(t)
    <3>1. CASE t \in {tasks[id], store[id], promised[id]}
      BY <1>2, <3>1
    <3>2. CASE t = tasks'[id] /\ t # tasks[id]
      <4>1. ASSUME NEW c \in Contexts, NEW route \in Routes,
                   t = with_message_config(c, Ttl(route))
            PROVE  SoundCopy(t)
        BY <4>1, NewTaskSound
      <4>2. ASSUME NEW i \in Indices, NEW c \in Contexts, tasks[id] # NoTask,
                   Accepts(tasks[id], i, c), t = add_signature(tasks[id], i, c.message)
            PROVE  SoundCopy(t)
        BY <1>2, <4>2, AddSignatureSound
      <4>3. ASSUME tasks[id] # NoTask,
                   t = [tasks[id] EXCEPT !.submitted = TRUE, !.submitted_at = now]
            PROVE  SoundCopy(t)
        <5>1. tasks[id] \in TaskState /\ SoundCopy(tasks[id])
          BY <1>2, <4>3
        <5> QED
          BY <1>1, <4>3, <5>1, MarkSound, Zenon
      <4> QED
        BY <2>2, <3>2, <4>1, <4>2, <4>3 DEF RequestChanges
    <3> QED
      BY <2>2, <3>1, <3>2
  <2> QED
    BY <1>1, <2>1, <2>3, SoundLater
<1> QED
  BY <1>3, <1>4 DEF Next

\* In every reachable state every copy of a task is sound: only operators of the task
\* have signed it, the bitmap holds the bits of those it has bits for, and with
\* verify_on_submit every signature is one of the task's message (submit_signature).
THEOREM CopiesAreSound == Spec => []CopiesInv
<1>1. Init => CopiesInv
  BY DEF Init, Idle, NoTasks, CopiesInv
<1> QED
  BY <1>1, CopiesStep, TypeCorrect, PTL DEF Spec

\* The bitmap has a bit for every operator of every task.
BitmapCovers == \A c \in Contexts : c.operator_count <= BitmapBits

\* Under BitmapCovers the bitmap names exactly the operators that signed.
LEMMA BitmapIsSigners ==
    ASSUME BitmapCovers, NEW t \in TaskState, SoundCopy(t)
    PROVE  t.bitmap = Signers(t)
<1>1. \A i \in Signers(t) : i \in Nat /\ i < t.ctx.operator_count
  BY NumbersAssumption DEF SoundCopy, Signers, Indices
<1>2. t.ctx.operator_count \in Nat /\ t.ctx.operator_count <= BitmapBits /\ BitmapBits \in Nat
  BY ContextsAssumption, NumbersAssumption DEF TaskState, BitmapCovers
<1>3. \A i \in Signers(t) : i < BitmapBits
  BY <1>1, <1>2
<1> QED
  BY <1>3 DEF SoundCopy

\* With a bit for every operator, signer_bitmap names exactly the operators whose
\* signatures are held, in memory and in the store (state.rs, TaskState::signer_bitmap).
THEOREM BitmapAlwaysMatches == ASSUME BitmapCovers PROVE Spec => []BitmapMatchesSignatures
<1>1. TypeOK /\ CopiesInv => BitmapMatchesSignatures
  BY BitmapIsSigners DEF CopiesInv, BitmapMatchesSignatures, TypeOK, TaskMap
<1> QED
  BY <1>1, CopiesAreSound, TypeCorrect, PTL

\* With a bit for every operator, every aggregate handed out splits the operators into
\* signers and non-signers, and signs the task's message (state.rs, get_for_aggregation,
\* get_non_signers).
THEOREM AggregateAlwaysVerifies == ASSUME BitmapCovers PROVE Spec => []AggregateVerifies
<1>1. TypeOK /\ CopiesInv => AggregateVerifies
  <2> SUFFICES ASSUME TypeOK, CopiesInv, NEW id \in TaskId, tasks[id] # NoTask
               PROVE  LET t == tasks[id]
                      IN  /\ Signers(t) = (0..(t.ctx.operator_count - 1)) \ get_non_signers(t)
                          /\ VerifyOnSubmit => \A i \in Signers(t) : t.sigs[i] = t.ctx.message
    BY DEF AggregateVerifies
  <2> DEFINE t == tasks[id]
  <2>1. t \in TaskState /\ SoundCopy(t)
    BY DEF TypeOK, TaskMap, CopiesInv
  <2>2. t.bitmap = Signers(t)
    BY <2>1, BitmapIsSigners
  <2>3. \A i \in Signers(t) : i \in Nat /\ i < t.ctx.operator_count
    BY <2>1, NumbersAssumption DEF SoundCopy, Signers, Indices
  <2>4. t.ctx.operator_count \in Nat
    BY <2>1, ContextsAssumption DEF TaskState
  <2>5. Signers(t) = (0..(t.ctx.operator_count - 1)) \ get_non_signers(t)
    BY <2>2, <2>3, <2>4 DEF get_non_signers, has_signed
  <2> QED
    BY <2>1, <2>5 DEF SoundCopy
<1> QED
  BY <1>1, CopiesAreSound, TypeCorrect, PTL

-----------------------------------------------------------------------------
(***************************************************************************)
(* Submitted tasks are final.  FinalInv is preserved together with         *)
(* DurabilityInv, which says that a promised task exists, and CopiesInv,   *)
(* which says when it was submitted.                                       *)
(***************************************************************************)

\* A request leaves a task that was reported as submitted as it is, drops it, or marks
\* it again (submit_signature refuses it: "task already submitted").
LEMMA RequestKeepsFinal ==
    ASSUME TypeOK, DurabilityInv, CopiesInv, FinalInv,
           Request \/ CleanupWorker \/ CleanupCall
    PROVE  FinalInv'
<1>1. CanMutate /\ up /\ op.pc = "idle" /\ op.kind = "none"
  <2>1. CASE \E id \in TaskId : TRUE
    BY <2>1, RequestCopies DEF CanMutate, DurabilityInv, OpInv
  <2>2. CASE TaskId = {}
    BY <2>2 DEF Request, CleanupWorker, CleanupCall, Cleanup
  <2> QED
    BY <2>1, <2>2
<1> SUFFICES ASSUME NEW id \in TaskId
             PROVE  /\ FinalCopy(tasks[id], id)'
                    /\ op'.pc # "idle" => FinalCopy(op.before[id], id)'
                    /\ id \notin unrepaired' => FinalCopy(store[id], id)'
  BY DEF FinalInv
<1>2. /\ op'.before = tasks /\ UNCHANGED <<store, promised, unrepaired, now>>
      /\ RequestChanges(id)
  BY RequestCopies
<1>3. FinalCopy(tasks[id], id) /\ (id \notin unrepaired => FinalCopy(store[id], id))
  BY <1>1 DEF FinalInv
<1>4. FinalCopy(tasks[id], id)'
  <2> SUFFICES ASSUME promised[id] # NoTask, promised[id].submitted,
                      tasks'[id] # NoTask, tasks'[id] # tasks[id]
               PROVE  /\ tasks'[id].submitted
                      /\ Signers(tasks'[id]) = Signers(promised[id])
                      /\ promised[id].submitted_at <= tasks'[id].submitted_at
    BY <1>2, <1>3 DEF FinalCopy
  <2>1. tasks[id] # NoTask
    BY <1>1 DEF DurabilityInv, PromiseInv, KeepsPromise, Extends, Removing, Removes
  <2>2. tasks[id] \in TaskState
    BY <2>1 DEF TypeOK, TaskMap
  <2>3. tasks[id].submitted /\ Signers(tasks[id]) = Signers(promised[id])
    BY <1>3, <2>1 DEF FinalCopy
  <2>4. promised[id].submitted_at \in Nat /\ promised[id].submitted_at <= now
    BY DEF CopiesInv, SoundCopy
  <2>5. \A i \in Indices, c \in Contexts : ~ Accepts(tasks[id], i, c)
    BY <2>3 DEF Accepts
  <2>6. tasks'[id] = [tasks[id] EXCEPT !.submitted = TRUE, !.submitted_at = now]
    BY <1>2, <2>1, <2>5 DEF RequestChanges
  <2>7. /\ tasks'[id].submitted /\ tasks'[id].submitted_at = now
        /\ tasks'[id].sigs = tasks[id].sigs
    BY <2>2, <2>6 DEF TaskState
  <2>8. Signers(tasks'[id]) = Signers(tasks[id])
    BY <2>7 DEF Signers
  <2> QED
    BY <2>3, <2>4, <2>7, <2>8
<1> QED
  BY <1>2, <1>3, <1>4 DEF FinalCopy

\* The backend calls of a mutation move final copies (save_task, restore).
LEMMA MiddleKeepsFinal ==
    ASSUME TypeOK, DurabilityInv, FinalInv, MiddleOfMutation
    PROVE  FinalInv'
<1>1. /\ op.pc # "idle" /\ up /\ op'.before = op.before
      /\ UNCHANGED <<tasks, up, promised>>
  BY MiddleStep
<1> SUFFICES ASSUME NEW id \in TaskId, id \notin unrepaired'
             PROVE  FinalCopy(store[id], id)'
  BY <1>1 DEF FinalInv, FinalCopy
<1> DEFINE Moves ==
             \/ store'[id] \in {tasks[id], op.before[id], NoTask}
             \/ store'[id] = store[id] /\ id \notin unrepaired
<1>2. Moves
  <2> USE DEF TypeOK, TaskMap, OpState
  <2>1. CASE Save
    BY <2>1 DEF Save
  <2>2. CASE SaveFails
    BY <2>2 DEF SaveFails, MayReach
  <2>3. CASE FlushFails
    BY <2>3 DEF FlushFails
  <2>4. ASSUME NEW x \in TaskId, Delete(x) PROVE Moves
    BY <2>4 DEF Delete
  <2>5. ASSUME NEW x \in TaskId, DeleteFails(x) PROVE Moves
    BY <2>5 DEF DeleteFails, MayReach
  <2>6. ASSUME NEW x \in TaskId, Undo(x) PROVE Moves
    BY <2>6 DEF Undo
  <2>7. ASSUME NEW x \in TaskId, UndoFails(x) PROVE Moves
    BY <2>7 DEF UndoFails, MayReach
  <2> QED
    BY <2>1, <2>2, <2>3, <2>4, <2>5, <2>6, <2>7 DEF MiddleOfMutation
<1> QED
  BY <1>1, <1>2 DEF FinalInv, FinalCopy

\* FinalInv is preserved by every step.
LEMMA FinalStep ==
    TypeOK /\ DurabilityInv /\ DurabilityInv' /\ CopiesInv /\ CopiesInv' /\ FinalInv /\ [Next]_vars
        => FinalInv'
<1> SUFFICES ASSUME TypeOK, DurabilityInv, DurabilityInv', CopiesInv, CopiesInv', FinalInv, [Next]_vars
             PROVE  FinalInv'
  OBVIOUS
<1>1. CASE Request \/ CleanupWorker \/ CleanupCall
  BY <1>1, RequestKeepsFinal
<1>2. CASE MiddleOfMutation
  BY <1>2, MiddleKeepsFinal
<1>3. CASE Flush
  <2>1. /\ op.pc = "flush" /\ op'.pc = "idle" /\ UNCHANGED <<store, up, unrepaired>> /\ up
        /\ \A id \in TaskId : tasks'[id] = IF Removing(id) THEN NoTask ELSE tasks[id]
        /\ \A id \in TaskId : promised'[id] = IF id \in op.ids THEN tasks'[id] ELSE promised[id]
    BY <1>3 DEF Flush, Idle, DurabilityInv, OpInv
  <2> SUFFICES ASSUME NEW id \in TaskId
               PROVE  /\ FinalCopy(tasks[id], id)'
                      /\ id \notin unrepaired => FinalCopy(store[id], id)'
    BY <2>1 DEF FinalInv
  <2>2. CASE id \in op.ids
    <3>1. promised'[id] = tasks'[id]
      BY <2>1, <2>2
    <3>2. store'[id] = tasks'[id]
      BY <2>1, <2>2 DEF DurabilityInv, StoreInv, Removing
    <3>3. tasks'[id] # NoTask /\ tasks'[id].submitted => tasks'[id].submitted_at \in Nat
      BY DEF CopiesInv, SoundCopy
    <3> QED
      BY <3>1, <3>2, <3>3 DEF FinalCopy
  <2>3. CASE id \notin op.ids
    <3>1. promised'[id] = promised[id] /\ tasks'[id] = tasks[id] /\ store'[id] = store[id]
      BY <2>1, <2>3 DEF Removing
    <3> QED
      BY <2>1, <3>1 DEF FinalInv, FinalCopy
  <2> QED
    BY <2>2, <2>3
<1>4. CASE Rollback
  <2>1. /\ op.pc = "rollback" /\ op'.pc = "idle" /\ UNCHANGED <<store, up, unrepaired, promised>>
        /\ tasks' = op.before
    BY <1>4 DEF Rollback, Idle
  <2> QED
    BY <2>1 DEF FinalInv, FinalCopy
<1>5. CASE Crash
  <2>1. /\ ~ up' /\ op'.pc = "idle" /\ UNCHANGED <<store, unrepaired>>
        /\ \A id \in TaskId : promised'[id] \in {promised[id], NoTask}
    BY <1>5 DEF Crash, Idle
  <2> QED
    BY <2>1 DEF FinalInv, FinalCopy
<1>6. CASE Restart
  <2>1. /\ ~ up /\ op.pc = "idle" /\ op' = op /\ tasks' = store /\ store' = store /\ unrepaired' = {}
        /\ \A id \in TaskId : promised'[id] = IF id \in unrepaired THEN store[id] ELSE promised[id]
    BY <1>6 DEF Restart, DurabilityInv, OpInv
  <2>2. ASSUME NEW id \in TaskId PROVE FinalCopy(store[id], id)'
    <3>1. CASE id \in unrepaired
      <4>1. promised'[id] = store'[id]
        BY <2>1, <3>1
      <4>2. store'[id] # NoTask /\ store'[id].submitted => store'[id].submitted_at \in Nat
        BY DEF CopiesInv, SoundCopy
      <4> QED
        BY <4>1, <4>2 DEF FinalCopy
    <3>2. CASE id \notin unrepaired
      BY <2>1, <3>2 DEF FinalInv, FinalCopy
    <3> QED
      BY <3>1, <3>2
  <2> QED
    BY <2>1, <2>2 DEF FinalInv, FinalCopy
<1>7. CASE Tick \/ UNCHANGED vars
  <2>1. UNCHANGED <<tasks, store, op, up, promised, unrepaired>>
    BY <1>7 DEF Tick, vars
  <2> QED
    BY <2>1 DEF FinalInv, FinalCopy
<1> QED
  BY <1>1, <1>2, <1>3, <1>4, <1>5, <1>6, <1>7 DEF Next, Progress, BackendFailure, MiddleOfMutation

\* Every copy of a task reported as submitted stays final.
THEOREM FinalAlways == Spec => []FinalInv
<1>1. Init => FinalInv
  BY DEF Init, Idle, NoTasks, FinalInv, FinalCopy
<1> QED
  BY <1>1, FinalStep, TypeCorrect, Durability, CopiesAreSound, PTL DEF Spec

\* A task reported as submitted never again hands out an aggregate nor gains a
\* signature, through failed mutations, crashes and restarts (submit_signature,
\* get_for_aggregation; client.rs: "A submitted task no longer exposes aggregate bytes").
THEOREM SubmittedIsAlwaysFinal == Spec => []SubmittedIsFinal
<1>1. FinalInv => SubmittedIsFinal
  BY DEF FinalInv, FinalCopy, SubmittedIsFinal, get_for_aggregation
<1> QED
  BY <1>1, FinalAlways, PTL

\* The cleanups that look at more than the TTL.
CleanupsKeepSubmitted == AutoCleanup /\ "Expired" \notin ManualCleanup

\* With auto_cleanup_submitted and without cleanup_expired calls, a cleanup takes a task
\* reported as submitted only after its retention period (state.rs, the `retain's).
THEOREM SubmittedAlwaysObservable ==
    ASSUME CleanupsKeepSubmitted PROVE Spec => SubmittedStaysObservable
<1>1. ASSUME TypeOK, CopiesInv, FinalInv, [Next]_vars, NEW id \in TaskId,
             promised[id] # NoTask, promised[id].submitted,
             tasks[id] # NoTask, tasks'[id] = NoTask, op.kind = "none", op'.kind = "cleanup"
      PROVE  now - promised[id].submitted_at >= Retention
  <2>1. PICK kind \in {"All", "Submitted"} : Cleanup(kind)
    <3>1. \A x \in TaskId, c \in Contexts, route \in Routes : ~ InitTask(x, c, route)
      BY <1>1 DEF InitTask, Mutation
    <3>2. \A x \in TaskId, i \in Indices, c \in Contexts : ~ SubmitSignature(x, i, c)
      BY <1>1 DEF SubmitSignature, Mutation
    <3>3. \A x \in TaskId : ~ MarkSubmitted(x) /\ ~ RemoveTask(x)
      BY <1>1 DEF MarkSubmitted, RemoveTask, Mutation
    <3>4. ~ Request
      BY <3>1, <3>2, <3>3 DEF Request
    <3>5. ASSUME NEW x \in TaskId, Delete(x) \/ DeleteFails(x) \/ Undo(x) \/ UndoFails(x)
          PROVE  tasks' = tasks
      BY <3>5 DEF Delete, DeleteFails, Undo, UndoFails
    <3>6. ~ (Progress \/ BackendFailure)
      <4>1. Save \/ SaveFails \/ FlushFails => tasks' = tasks
        BY DEF Save, SaveFails, FlushFails
      <4>2. Flush \/ Rollback => op'.kind = "none"
        BY DEF Flush, Rollback, Idle
      <4> QED
        BY <1>1, <3>5, <4>1, <4>2 DEF Progress, BackendFailure
    <3>7. ~ (Crash \/ Restart \/ Tick \/ UNCHANGED vars)
      BY <1>1 DEF Crash, Idle, Restart, Tick, vars
    <3> QED
      BY <1>1, <3>4, <3>6, <3>7, FlagsAssumption
      DEF Next, CleanupWorker, CleanupCall, CleanupsKeepSubmitted
  <2>2. ~ Keeps(kind, tasks[id]) /\ up
    BY <1>1, <2>1 DEF Cleanup, CanMutate
  <2>3. tasks[id].submitted /\ promised[id].submitted_at <= tasks[id].submitted_at
    BY <1>1, <2>2 DEF FinalInv, FinalCopy
  <2>4. ~ KeepsSubmitted(tasks[id])
    BY <2>2, <2>3 DEF Keeps
  <2>5. /\ tasks[id].submitted_at \in Nat /\ promised[id].submitted_at \in Nat
        /\ now \in Nat /\ Retention \in Nat
    BY <1>1, <2>3, NumbersAssumption DEF CopiesInv, SoundCopy, TypeOK
  <2>6. now - tasks[id].submitted_at >= Retention
    BY <2>4, <2>5, SentinelsAssumption DEF KeepsSubmitted
  <2> QED
    BY <2>3, <2>5, <2>6
<1>2. TypeOK /\ CopiesInv /\ FinalInv /\ [Next]_vars =>
        [\A id \in TaskId :
          (/\ promised[id] # NoTask /\ promised[id].submitted
           /\ tasks[id] # NoTask /\ tasks'[id] = NoTask
           /\ op.kind = "none" /\ op'.kind = "cleanup")
              => now - promised[id].submitted_at >= Retention]_vars
  BY <1>1
<1> QED
  BY <1>2, TypeCorrect, CopiesAreSound, FinalAlways, PTL DEF Spec, SubmittedStaysObservable

-----------------------------------------------------------------------------
(***************************************************************************)
(* Contexts.                                                               *)
(***************************************************************************)

\* A request never changes the context of a task (init_task refuses a conflicting one).
LEMMA RequestKeepsContext ==
    ASSUME TypeOK, NEW id \in TaskId, RequestChanges(id)
    PROVE  SameContext(tasks[id], tasks'[id])
<1> SUFFICES ASSUME tasks[id] # NoTask, tasks'[id] # NoTask PROVE tasks'[id].ctx = tasks[id].ctx
  BY DEF SameContext
<1>1. tasks[id] \in TaskState
  BY DEF TypeOK, TaskMap
<1>2. ASSUME NEW i \in Indices, NEW m, tasks'[id] = add_signature(tasks[id], i, m)
      PROVE  tasks'[id].ctx = tasks[id].ctx
  BY <1>1, <1>2 DEF add_signature, TaskState
<1>3. ASSUME tasks'[id] = [tasks[id] EXCEPT !.submitted = TRUE, !.submitted_at = now]
      PROVE  tasks'[id].ctx = tasks[id].ctx
  BY <1>1, <1>3 DEF TaskState
<1> QED
  BY <1>2, <1>3 DEF RequestChanges

\* Every step keeps the context of every task in memory and that of every task a caller
\* was told of, and ContextInv with them.
ContextKept(id) ==
    /\ SameContext(tasks[id], tasks'[id])
    /\ \A t \in {tasks'[id], store'[id], promised'[id]} : SameContext(promised[id], t)

LEMMA RequestContext ==
    ASSUME TypeOK, DurabilityInv, ContextInv, Request \/ CleanupWorker \/ CleanupCall,
           NEW id \in TaskId
    PROVE  /\ up' /\ ContextKept(id)
           /\ SameContext(tasks'[id], op'.before[id])
           /\ \A t \in {tasks'[id], store'[id], op'.before[id]} : SameContext(promised'[id], t)
<1>1. /\ CanMutate /\ op'.before = tasks /\ UNCHANGED <<store, up, promised>>
      /\ RequestChanges(id)
  BY RequestCopies
<1>2. SameContext(tasks[id], tasks'[id])
  BY <1>1, RequestKeepsContext
<1>3. promised[id] # NoTask => tasks[id] # NoTask
  BY <1>1 DEF CanMutate, DurabilityInv, OpInv, PromiseInv, KeepsPromise, Extends, Removing, Removes
<1>4. SameContext(promised[id], tasks'[id])
  BY <1>2, <1>3 DEF ContextInv, SameContext
<1> QED
  BY <1>1, <1>2, <1>4 DEF CanMutate, ContextInv, ContextKept, SameContext

\* Steps that only move copies keep what was promised; those that promise something
\* anew, the end of a mutation and a restart, promise what memory and store hold.
LEMMA MoveContext ==
    ASSUME TypeOK, DurabilityInv, ContextInv, NEW id \in TaskId,
           \/ Progress \/ BackendFailure \/ Crash \/ Restart \/ Tick \/ UNCHANGED vars
    PROVE  /\ \A t \in {tasks'[id], store'[id], promised'[id]} : SameContext(promised[id], t)
           /\ \A t \in {tasks'[id], store'[id], op'.before[id]} : SameContext(promised'[id], t)
<1> DEFINE New == {tasks'[id], store'[id], op'.before[id], promised'[id]}
<1>1. \A t \in New : t \in {NoTask, tasks[id], store[id], op.before[id], promised[id]}
  BY CopiesMove
<1>2. \A t \in New : SameContext(promised[id], t)
  BY <1>1 DEF ContextInv, SameContext
<1>3. ASSUME promised'[id] \in {promised[id], NoTask}
      PROVE  \A t \in New : SameContext(promised'[id], t)
  BY <1>2, <1>3 DEF SameContext
<1>4. CASE Flush
  <2>1. /\ promised'[id] \in {promised[id], tasks'[id]} /\ store' = store
        /\ op'.before[id] = NoTask
    BY <1>4 DEF Flush, Idle, NoTasks
  <2>2. CASE promised'[id] # promised[id]
    <3>1. id \in op.ids /\ promised'[id] = tasks'[id]
      BY <1>4, <2>1, <2>2 DEF Flush, TypeOK, TaskMap
    <3>2. store[id] \in {NoTask, tasks'[id]}
      BY <1>4, <3>1 DEF Flush, Removing, DurabilityInv, StoreInv
    <3> QED
      BY <1>2, <2>1, <3>1, <3>2 DEF SameContext
  <2> QED
    BY <1>2, <1>3, <2>2
<1>5. CASE Restart
  <2>1. /\ promised'[id] \in {promised[id], store[id]} /\ store' = store
        /\ tasks' = store /\ op' = op /\ op.pc = "idle" /\ ~ up
    BY <1>5 DEF Restart, DurabilityInv, OpInv
  <2>2. op.before[id] = NoTask
    BY <2>1 DEF ContextInv, NoTasks
  <2> QED
    BY <1>2, <1>3, <2>1, <2>2 DEF SameContext
<1>6. CASE Crash
  BY <1>2, <1>3, <1>6 DEF Crash
<1>7. CASE MiddleOfMutation
  BY <1>2, <1>3, <1>7, MiddleStep
<1>8. CASE Rollback \/ Tick \/ UNCHANGED vars
  BY <1>2, <1>3, <1>8 DEF Rollback, Tick, vars
<1> QED
  BY <1>2, <1>4, <1>5, <1>6, <1>7, <1>8 DEF Progress, BackendFailure, MiddleOfMutation

LEMMA ContextStep ==
    TypeOK /\ DurabilityInv /\ ContextInv /\ [Next]_vars
        => ContextInv' /\ \A id \in TaskId : ContextKept(id)
<1> DEFINE Kept == \A id \in TaskId : ContextKept(id)
           Moving == Progress \/ BackendFailure \/ Crash \/ Restart \/ Tick \/ UNCHANGED vars
           Memory == \A id \in TaskId : SameContext(tasks[id], tasks'[id])
           Rest == /\ op'.pc # "idle" => \A id \in TaskId : SameContext(tasks'[id], op'.before[id])
                   /\ op'.pc = "idle" => op'.before = NoTasks
                   /\ ~ up' => tasks' = NoTasks
<1> SUFFICES ASSUME TypeOK, DurabilityInv, ContextInv, [Next]_vars PROVE ContextInv' /\ Kept
  OBVIOUS
<1>1. CASE Request \/ CleanupWorker \/ CleanupCall
  <2>1. \A id \in TaskId : op'.pc # "idle"
    BY <1>1, RequestCopies
  <2>2. ASSUME TaskId = {} PROVE FALSE
    BY <1>1, <2>2 DEF Request, CleanupWorker, CleanupCall, Cleanup
  <2> QED
    BY <1>1, <2>1, <2>2, RequestContext DEF ContextInv
<1>2. ASSUME Moving, Memory, Rest PROVE ContextInv' /\ Kept
  BY <1>2, MoveContext DEF ContextInv, ContextKept
<1>3. CASE MiddleOfMutation
  <2>1. /\ op.pc # "idle" /\ op'.pc # "idle" /\ op'.before = op.before /\ up
        /\ UNCHANGED <<tasks, up>>
    BY <1>3, MiddleStep
  <2>2. Memory /\ Rest
    BY <2>1 DEF ContextInv, SameContext
  <2> QED
    BY <1>2, <1>3, <2>2 DEF MiddleOfMutation, Progress, BackendFailure
<1>4. CASE Flush
  <2>1. op' = Idle /\ up' /\ \A id \in TaskId : tasks'[id] \in {tasks[id], NoTask}
    BY <1>4 DEF Flush, DurabilityInv, OpInv
  <2>2. Memory /\ Rest
    BY <2>1 DEF Idle, SameContext
  <2> QED
    BY <1>2, <1>4, <2>2 DEF Progress
<1>5. CASE Rollback
  <2>1. op.pc # "idle" /\ op' = Idle /\ up' /\ tasks' = op.before
    BY <1>5 DEF Rollback, DurabilityInv, OpInv
  <2>2. Memory /\ Rest
    BY <2>1 DEF Idle, ContextInv, SameContext
  <2> QED
    BY <1>2, <1>5, <2>2 DEF Progress
<1>6. CASE Crash
  <2>1. Memory /\ Rest
    BY <1>6 DEF Crash, Idle, NoTasks, SameContext
  <2> QED
    BY <1>2, <1>6, <2>1
<1>7. CASE Restart
  <2>1. ~ up /\ up' /\ op' = op /\ op.pc = "idle" /\ tasks = NoTasks
    BY <1>7 DEF Restart, DurabilityInv, OpInv, ContextInv
  <2>2. Memory /\ Rest
    BY <2>1 DEF SameContext, NoTasks, ContextInv
  <2> QED
    BY <1>2, <1>7, <2>2
<1>8. CASE Tick \/ UNCHANGED vars
  <2>1. UNCHANGED <<tasks, op, up>>
    BY <1>8 DEF Tick, vars
  <2>2. Memory /\ Rest
    BY <2>1 DEF ContextInv, SameContext
  <2> QED
    BY <1>2, <1>8, <2>2
<1> QED
  BY <1>1, <1>3, <1>4, <1>5, <1>6, <1>7, <1>8
     DEF Next, Progress, BackendFailure, MiddleOfMutation

\* Nobody meets another context than the one a task was opened with: not in memory, and,
\* once a caller was told of it, not in the store, not after a crash and a restart and not
\* after an undo that failed (init_task_with_message_config, restore_snapshot,
\* with_persistence).
THEOREM ContextIsAlwaysStable == Spec => ContextIsStable
<1>1. Init => ContextInv
  BY DEF Init, Idle, NoTasks, ContextInv, SameContext
<1>2. TypeOK /\ DurabilityInv /\ ContextInv /\ [Next]_vars =>
        ContextInv' /\ [\A id \in TaskId :
            /\ SameContext(tasks[id], tasks'[id])
            /\ \A t \in {tasks'[id], store'[id], promised'[id]} :
                 SameContext(promised[id], t)]_vars
  BY ContextStep DEF ContextKept
<1> QED
  BY <1>1, <1>2, TypeCorrect, Durability, PTL DEF Spec, ContextIsStable
=============================================================================
