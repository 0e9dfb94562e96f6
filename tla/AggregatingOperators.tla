----------------------- MODULE AggregatingOperators -------------------------
(***************************************************************************)
(* The operators of one service finish one job call.  Each runs            *)
(* submit_aggregated_result of crates/tangle-extra (its AggregatingConsumer*)
(* ): it sends its signature to every aggregation service in turn, and     *)
(* whoever learns that the threshold is met races to put the aggregate on  *)
(* chain and then tells the services.                                      *)
(*                                                                         *)
(* The aggregation services are used through their HTTP API; every request *)
(* is one atomic step, which is what AggregationService implements         *)
(* (MutationsAreAtomic there).  Tasks created over HTTP never expire.      *)
(* The chain is external: a contract that completes a call once.           *)
(***************************************************************************)
EXTENDS Threshold, Integers, Functions

CONSTANTS
    Operators,          \* operator indices
    Services,           \* agg.clients: services 1..Services, asked in this order
    Outputs,            \* the outputs, with all of the task context an operator derives
    TaskThreshold,      \* prepare_aggregation_task
    Stakes,
    WaitForThreshold,   \* AggregationServiceConfig.wait_for_threshold
    SubmitToChain,      \* the operators with submit_to_chain
    FaultKinds,         \* which faults may happen
    MaxFaults,          \* bound: faults altogether
    NoTask, NoResult

ASSUME OperatorsAssumption ==
    /\ Operators \subseteq Nat
    /\ SubmitToChain \subseteq Operators
    /\ Services \in Nat \ {0}
    /\ WaitForThreshold \in BOOLEAN
    /\ TaskThreshold \in ThresholdType
    /\ MaxFaults \in Nat
    /\ FaultKinds \subseteq {"request", "reply", "timeout", "transport", "crash", "amnesia"}

VARIABLES
    output,     \* what each operator computed
    task,       \* per service, its task for this call
    chain,      \* the result the contract accepted
    pc,         \* where each operator is in submit_aggregated_result
    svc,        \* the service it talks to
    last,       \* last_response: "none", or whether the threshold was met
    result,     \* the aggregate it fetched
    tx,         \* what the gas estimate saw: an open or a completed call
    faults      \* how often each kind of fault happened

vars == <<output, task, chain, pc, svc, last, result, tx, faults>>

-----------------------------------------------------------------------------
Met(signers) == threshold_met(TaskThreshold, Stakes, signers)

Task == [output : Outputs, signers : SUBSET Operators, submitted : BOOLEAN]

\* What get_aggregated returns and submit_aggregated_result sends to the contract.
Aggregate == [output : Outputs, signers : SUBSET Operators]

ASSUME SentinelsAssumption == NoTask \notin Task /\ NoResult \notin Aggregate

Failed == {"no_service", "unavailable", "timed_out", "reverted", "transport"}

Ended == {"ok", "crashed"} \cup Failed

PC == {"init", "submit", "fetch", "fetch_status", "poll", "poll_status", "final_status",
       "estimate", "mine", "mark"} \cup Ended

TypeOK ==
    /\ output \in [Operators -> Outputs]
    /\ task \in [1..Services -> Task \cup {NoTask}]
    /\ chain \in Aggregate \cup {NoResult}
    /\ pc \in [Operators -> PC]
    /\ svc \in [Operators -> 1..Services]
    /\ last \in [Operators -> {"none", "met", "unmet"}]
    /\ result \in [Operators -> Aggregate \cup {NoResult}]
    /\ tx \in [Operators -> {"none", "open", "completed"}]
    /\ faults \in [FaultKinds -> Nat]

Init ==
    /\ output \in [Operators -> Outputs]
    /\ task = [s \in 1..Services |-> NoTask]
    /\ chain = NoResult
    /\ pc = [o \in Operators |-> "init"]
    /\ svc = [o \in Operators |-> 1]
    /\ last = [o \in Operators |-> "none"]
    /\ result = [o \in Operators |-> NoResult]
    /\ tx = [o \in Operators |-> "none"]
    /\ faults = [k \in FaultKinds |-> 0]

Fault(k) ==
    /\ k \in FaultKinds
    /\ SumFunction(faults) < MaxFaults
    /\ faults' = [faults EXCEPT ![k] = @ + 1]

Goto(o, p) == pc' = [pc EXCEPT ![o] = p] /\ UNCHANGED svc

\* The next loop over agg.clients starts at the first.
GotoFirst(o, p) == pc' = [pc EXCEPT ![o] = p] /\ svc' = [svc EXCEPT ![o] = 1]

\* Mutant: one service too many.
NextService_past_end(o, p, end) ==
    IF svc[o] <= Services
    THEN /\ svc' = [svc EXCEPT ![o] = @ + 1]
         /\ pc' = [pc EXCEPT ![o] = p]
    ELSE /\ svc' = [svc EXCEPT ![o] = 1]
         /\ pc' = [pc EXCEPT ![o] = end]

\* On to the next service with step p, or to step `end' after the last one.
NextService(o, p, end) ==
    IF svc[o] < Services
    THEN /\ svc' = [svc EXCEPT ![o] = @ + 1]
         /\ pc' = [pc EXCEPT ![o] = p]
    ELSE /\ svc' = [svc EXCEPT ![o] = 1]
         /\ pc' = [pc EXCEPT ![o] = end]

-----------------------------------------------------------------------------
(***************************************************************************)
(* The services' side of each request.                                     *)
(***************************************************************************)
InitAccepted(o, s) == task[s] # NoTask => task[s].output = output[o]

TaskInit(o, s) ==
    IF task[s] = NoTask
    THEN [task EXCEPT ![s] = [output |-> output[o], signers |-> {}, submitted |-> FALSE]]
    ELSE task

\* Mutant: the output is not compared with the task's.
SubmitAccepted_any_output(o, s) ==
    /\ task[s] # NoTask
    /\ ~ task[s].submitted
    /\ o \notin task[s].signers

SubmitAccepted(o, s) ==
    /\ task[s] # NoTask
    /\ task[s].output = output[o]
    /\ ~ task[s].submitted
    /\ o \notin task[s].signers

TaskSubmit(o, s) == [task EXCEPT ![s].signers = @ \cup {o}]

\* get_aggregated answers with the aggregate, or 404.
Available(s) == task[s] # NoTask /\ ~ task[s].submitted /\ Met(task[s].signers)

AggregateOf(s) == [output |-> task[s].output, signers |-> task[s].signers]

\* Mutant: a task that met its threshold is taken for a submitted one.
IsSubmitted_met(s) == task[s] # NoTask /\ (task[s].submitted \/ Met(task[s].signers))

IsSubmitted(s) == task[s] # NoTask /\ task[s].submitted

TaskMark(s) == IF task[s] = NoTask THEN task ELSE [task EXCEPT ![s].submitted = TRUE]

-----------------------------------------------------------------------------
(***************************************************************************)
(* submit_aggregated_result: initialise and submit at every service.       *)
(***************************************************************************)
\* Mutant: an operator leaves without looking for the aggregate.
Decision_never_submits(o, response) == IF response = "none" THEN "no_service" ELSE "ok"

\* After the last service, only the last accepted response decides what follows.
Decision(o, response) ==
    CASE response = "none" -> "no_service"
      [] response # "none" /\ o \notin SubmitToChain -> "ok"
      [] response = "met" /\ o \in SubmitToChain -> "fetch"
      [] response = "unmet" /\ o \in SubmitToChain -> IF WaitForThreshold THEN "poll" ELSE "ok"

InitTask(o) ==
    /\ pc[o] = "init"
    /\ \/ /\ InitAccepted(o, svc[o])
          /\ task' = TaskInit(o, svc[o])
          /\ Goto(o, "submit")
          /\ UNCHANGED faults
       \/ /\ ~ InitAccepted(o, svc[o])
          /\ NextService(o, "init", Decision(o, last[o]))
          /\ UNCHANGED <<task, faults>>
       \/ /\ \/ Fault("request") /\ UNCHANGED task
             \/ Fault("reply") /\ InitAccepted(o, svc[o]) /\ task' = TaskInit(o, svc[o])
          /\ NextService(o, "init", Decision(o, last[o]))
    /\ UNCHANGED <<output, chain, last, result, tx>>

SubmitSignature(o) ==
    /\ pc[o] = "submit"
    /\ \/ /\ SubmitAccepted(o, svc[o])
          /\ task' = TaskSubmit(o, svc[o])
          /\ last' = [last EXCEPT ![o] = IF Met(task'[svc[o]].signers) THEN "met" ELSE "unmet"]
          /\ UNCHANGED faults
       \/ ~ SubmitAccepted(o, svc[o]) /\ UNCHANGED <<task, last, faults>>
       \/ Fault("request") /\ UNCHANGED <<task, last>>
       \/ /\ Fault("reply")
          /\ SubmitAccepted(o, svc[o])
          /\ task' = TaskSubmit(o, svc[o])
          /\ UNCHANGED last
    /\ NextService(o, "init", Decision(o, last'[o]))
    /\ UNCHANGED <<output, chain, result, tx>>

-----------------------------------------------------------------------------
(***************************************************************************)
(* try_submit_aggregated_to_chain: get_aggregated_or_submitted at each     *)
(* service until one has an aggregate or knows of the submission.  Two     *)
(* requests: the answer to the first can be stale at the second.           *)
(***************************************************************************)
Fetch(o) ==
    /\ pc[o] = "fetch"
    /\ \/ /\ Available(svc[o])
          /\ result' = [result EXCEPT ![o] = AggregateOf(svc[o])]
          /\ Goto(o, "estimate")
          /\ UNCHANGED faults
       \/ ~ Available(svc[o]) /\ Goto(o, "fetch_status") /\ UNCHANGED <<result, faults>>
       \/ Fault("request") /\ NextService(o, "fetch", "unavailable") /\ UNCHANGED result
    /\ UNCHANGED <<output, task, chain, last, tx>>

FetchStatus(o) ==
    /\ pc[o] = "fetch_status"
    /\ \/ IsSubmitted(svc[o]) /\ Goto(o, "ok") /\ UNCHANGED faults
       \/ ~ IsSubmitted(svc[o]) /\ NextService(o, "fetch", "unavailable") /\ UNCHANGED faults
       \/ Fault("request") /\ NextService(o, "fetch", "unavailable")
    /\ UNCHANGED <<output, task, chain, last, result, tx>>

(***************************************************************************)
(* wait_for_threshold_any_service: the same two requests in a loop; the    *)
(* timeout is noticed before a round and followed by one more status round.*)
(***************************************************************************)
Poll(o) ==
    /\ pc[o] = "poll"
    /\ \/ /\ Available(svc[o])
          /\ result' = [result EXCEPT ![o] = AggregateOf(svc[o])]
          /\ Goto(o, "estimate")
          /\ UNCHANGED faults
       \/ ~ Available(svc[o]) /\ Goto(o, "poll_status") /\ UNCHANGED <<result, faults>>
       \/ Fault("request") /\ Goto(o, "poll_status") /\ UNCHANGED result
    /\ UNCHANGED <<output, task, chain, last, tx>>

PollStatus(o) ==
    /\ pc[o] = "poll_status"
    /\ \/ IsSubmitted(svc[o]) /\ Goto(o, "ok") /\ UNCHANGED faults
       \/ ~ IsSubmitted(svc[o]) /\ NextService(o, "poll", "poll") /\ UNCHANGED faults
       \/ Fault("request") /\ NextService(o, "poll", "poll")
    /\ UNCHANGED <<output, task, chain, last, result, tx>>

Timeout(o) ==
    /\ pc[o] = "poll"
    /\ svc[o] = 1
    /\ Fault("timeout")
    /\ Goto(o, "final_status")
    /\ UNCHANGED <<output, task, chain, last, result, tx>>

FinalStatus(o) ==
    /\ pc[o] = "final_status"
    /\ \/ IsSubmitted(svc[o]) /\ Goto(o, "ok") /\ UNCHANGED faults
       \/ /\ ~ IsSubmitted(svc[o])
          /\ NextService(o, "final_status", "timed_out")
          /\ UNCHANGED faults
       \/ Fault("request") /\ NextService(o, "final_status", "timed_out")
    /\ UNCHANGED <<output, task, chain, last, result, tx>>

-----------------------------------------------------------------------------
(***************************************************************************)
(* submit_aggregated_to_chain_with_result.  send_transaction_with_fallback_*)
(* gas first estimates, and keeps the estimator's revert reason; then it   *)
(* sends anyway and waits for the receipt.  A reverted receipt carries that*)
(* reason and nothing else, so is_job_already_completed recognises the     *)
(* revert only when the call was completed before the estimate.            *)
(***************************************************************************)
Estimate(o) ==
    /\ pc[o] = "estimate"
    /\ \/ /\ tx' = [tx EXCEPT ![o] = IF chain = NoResult THEN "open" ELSE "completed"]
          /\ Goto(o, "mine")
          /\ UNCHANGED faults
       \/ Fault("transport") /\ Goto(o, "mine") /\ UNCHANGED tx
       \/ Fault("transport") /\ Goto(o, "transport") /\ UNCHANGED tx
    /\ UNCHANGED <<output, task, chain, last, result>>

is_job_already_completed(o) == tx[o] = "completed"

\* The contract (external): it accepts one aggregate with a quorum.
ContractAccepts(a) == chain = NoResult /\ Met(a.signers)

\* The receipt of a mined transaction can be lost: its sender reports an error.
Mine(o) ==
    /\ pc[o] = "mine"
    /\ chain' = IF ContractAccepts(result[o]) THEN result[o] ELSE chain
    /\ \/ /\ GotoFirst(o, IF ContractAccepts(result[o]) THEN "mark"
                          ELSE IF is_job_already_completed(o) THEN "ok" ELSE "reverted")
          /\ UNCHANGED faults
       \/ Fault("transport") /\ Goto(o, "transport")
    /\ UNCHANGED <<output, task, last, result, tx>>

\* Every service is told, from the first; errors of mark_submitted are ignored.
Mark(o) ==
    /\ pc[o] = "mark"
    /\ \/ task' = TaskMark(svc[o]) /\ UNCHANGED faults
       \/ Fault("request") /\ UNCHANGED task
    /\ NextService(o, "mark", "ok")
    /\ UNCHANGED <<output, chain, last, result, tx>>

-----------------------------------------------------------------------------
\* The operator's process dies.
Crash(o) ==
    /\ pc[o] \notin Ended
    /\ Fault("crash")
    /\ Goto(o, "crashed")
    /\ UNCHANGED <<output, task, chain, last, result, tx>>

\* The service drops a submitted task after its retention period, and any task
\* when it restarts without a persistence backend.
Forget(s) ==
    /\ task[s] # NoTask
    /\ \/ task[s].submitted /\ UNCHANGED faults
       \/ Fault("amnesia")
    /\ task' = [task EXCEPT ![s] = NoTask]
    /\ UNCHANGED <<output, chain, pc, svc, last, result, tx>>

Step(o) ==
    \/ InitTask(o) \/ SubmitSignature(o)
    \/ Fetch(o) \/ FetchStatus(o)
    \/ Poll(o) \/ PollStatus(o) \/ FinalStatus(o)
    \/ Estimate(o) \/ Mine(o) \/ Mark(o)

\* Every operator is done.
Done == (\A o \in Operators : pc[o] \in Ended) /\ UNCHANGED vars

Next ==
    \/ \E o \in Operators : Step(o) \/ Timeout(o) \/ Crash(o)
    \/ \E s \in 1..Services : Forget(s)
    \/ Done

Spec == Init /\ [][Next]_vars

(***************************************************************************)
(* Fairness.  submit_aggregated_result is polled until it returns; its     *)
(* requests and transactions are answered or fail.                         *)
(***************************************************************************)
FairSpec == Spec /\ \A o \in Operators : WF_vars(Step(o))

-----------------------------------------------------------------------------
(***************************************************************************)
(* Properties.                                                             *)
(***************************************************************************)

\* The result on chain is what a quorum of operators computed themselves, even when
\* operators disagree, a service loses its tasks and collects again, and requests
\* and answers are lost (submit_signature; get_aggregated_result).
ChainResultIsAgreed ==
    chain # NoResult =>
        /\ Met(chain.signers)
        /\ \A o \in chain.signers : output[o] = chain.output

\* An operator that waits for the threshold and reports Ok leaves a completed call
\* behind, whether it submitted itself, was told so by a service or lost the race
\* (submit_aggregated_result; wait_for_threshold_any_service).
OkMeansCompleted ==
    WaitForThreshold =>
        \A o \in SubmitToChain : pc[o] = "ok" => chain # NoResult

\* All operators computed the same, and fewer messages were lost than there are
\* services.
Benign ==
    /\ \A o, p \in Operators : output[o] = output[p]
    /\ SumFunction(faults) < Services
    /\ \A k \in FaultKinds \ {"request", "reply"} : faults[k] = 0

\* Several aggregation services give redundancy: as long as one of them works, the
\* result reaches the chain ("any can achieve threshold",
\* tangle-aggregation-svc/tests/integration.rs), provided that operators wait for the
\* threshold.  Without wait_for_threshold an operator decides on the answer of the last
\* service alone (aggregating_consumer.rs, last_response), so that one message lost there
\* leaves a threshold met at the first service that nobody submits.
ResultReachesChain == (WaitForThreshold /\ []Benign) => <>(chain # NoResult)

-----------------------------------------------------------------------------
(***************************************************************************)
(* The inductive invariants behind ChainResultIsAgreed and OkMeansCompleted*)
(***************************************************************************)

\* Signatures agree with the task, the aggregate or the chain entry that holds them.
Agreed(x) == \A o \in x.signers : output[o] = x.output

AgreementInv ==
    /\ \A s \in 1..Services : task[s] # NoTask => Agreed(task[s])
    /\ \A o \in Operators : result[o] # NoResult => Met(result[o].signers) /\ Agreed(result[o])
    /\ \A o \in Operators : pc[o] \in {"estimate", "mine"} => result[o] # NoResult
    /\ chain # NoResult => Met(chain.signers) /\ Agreed(chain)

\* Whoever acts on the call being completed has seen it completed.
CompletionInv ==
    /\ \A s \in 1..Services : IsSubmitted(s) => chain # NoResult
    /\ \A o \in Operators : pc[o] = "mark" \/ tx[o] = "completed" => chain # NoResult
    /\ OkMeansCompleted
=============================================================================
