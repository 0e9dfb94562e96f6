-------------------- MODULE AggregatingOperatorsProofs ----------------------
(***************************************************************************)
(* Proofs about AggregatingOperators, for any operators, services,         *)
(* thresholds and faults.  What a threshold means is not needed: Met stays *)
(* unexpanded throughout.                                                  *)
(***************************************************************************)
EXTENDS AggregatingOperators, TLAPS

\* A step of an operator along the services leaves the variables well typed.
LEMMA GotoType ==
    ASSUME TypeOK, NEW o \in Operators, NEW p \in PC, NEW end \in PC,
           Goto(o, p) \/ GotoFirst(o, p) \/ NextService(o, p, end)
    PROVE  /\ pc' \in [Operators -> PC]
           /\ svc' \in [Operators -> 1..Services]
           /\ \A x \in Operators : x # o => pc'[x] = pc[x]
           /\ pc'[o] \in {p, end}
<1>1. svc[o] \in 1..Services /\ Services \in Nat /\ 1 \in 1..Services
  BY OperatorsAssumption DEF TypeOK
<1>2. svc[o] < Services => svc[o] + 1 \in 1..Services
  BY <1>1
<1>3. CASE Goto(o, p)
  BY <1>3 DEF Goto, TypeOK
<1>4. CASE GotoFirst(o, p)
  BY <1>1, <1>4 DEF GotoFirst, TypeOK
<1>5. CASE NextService(o, p, end) /\ svc[o] < Services
  BY <1>1, <1>2, <1>5 DEF NextService, TypeOK
<1>6. CASE NextService(o, p, end) /\ ~ svc[o] < Services
  BY <1>1, <1>6 DEF NextService, TypeOK
<1> QED
  BY <1>3, <1>4, <1>5, <1>6

\* Counting a fault keeps the type of the counters.
LEMMA FaultType ==
    ASSUME TypeOK, NEW k, Fault(k) \/ UNCHANGED faults
    PROVE  faults' \in [FaultKinds -> Nat]
BY DEF Fault, TypeOK

\* What follows the last service is a step of its own (submit_aggregated_result).
LEMMA DecisionType ==
    ASSUME NEW o \in Operators, NEW r \in {"none", "met", "unmet"}
    PROVE  /\ Decision(o, r) \in {"no_service", "ok", "fetch", "poll"}
           /\ WaitForThreshold /\ o \in SubmitToChain => Decision(o, r) # "ok"
BY OperatorsAssumption DEF Decision

\* The services' answers keep the tasks well typed.
LEMMA TaskType ==
    ASSUME TypeOK, NEW o \in Operators, NEW s \in 1..Services
    PROVE  /\ TaskInit(o, s) \in [1..Services -> Task \cup {NoTask}]
           /\ task[s] # NoTask => TaskSubmit(o, s) \in [1..Services -> Task \cup {NoTask}]
           /\ TaskMark(s) \in [1..Services -> Task \cup {NoTask}]
           /\ task[s] # NoTask => AggregateOf(s) \in Aggregate
<1>1. [output |-> output[o], signers |-> {}, submitted |-> FALSE] \in Task
  BY DEF TypeOK, Task
<1>2. TaskInit(o, s) \in [1..Services -> Task \cup {NoTask}]
  BY <1>1 DEF TaskInit, TypeOK
<1>3. CASE task[s] # NoTask
  <2>1. task[s] \in Task
    BY <1>3 DEF TypeOK
  <2>2. [task[s] EXCEPT !.signers = @ \cup {o}] \in Task
    BY <2>1 DEF Task
  <2>3. [task[s] EXCEPT !.submitted = TRUE] \in Task
    BY <2>1 DEF Task
  <2>4. TaskSubmit(o, s) = [task EXCEPT ![s] = [task[s] EXCEPT !.signers = @ \cup {o}]]
    BY DEF TaskSubmit, TypeOK
  <2>5. TaskMark(s) = [task EXCEPT ![s] = [task[s] EXCEPT !.submitted = TRUE]]
    BY <1>3 DEF TaskMark, TypeOK
  <2>6. AggregateOf(s) \in Aggregate
    BY <2>1 DEF AggregateOf, Aggregate, Task
  <2> QED
    BY <1>2, <2>2, <2>3, <2>4, <2>5, <2>6 DEF TypeOK
<1>4. CASE task[s] = NoTask
  BY <1>2, <1>4 DEF TaskMark, TypeOK
<1> QED
  BY <1>3, <1>4

\* Every step keeps the types of the variables.
LEMMA TypeStep == TypeOK /\ [Next]_vars => TypeOK'
<1> SUFFICES ASSUME TypeOK, [Next]_vars PROVE TypeOK'
  OBVIOUS
<1>1. ASSUME NEW o \in Operators, InitTask(o) PROVE TypeOK'
  <2>1. svc[o] \in 1..Services /\ last[o] \in {"none", "met", "unmet"}
    BY DEF TypeOK
  <2>2. Decision(o, last[o]) \in PC /\ "init" \in PC /\ "submit" \in PC
    BY <2>1, DecisionType DEF PC, Ended, Failed
  <2>3. pc' \in [Operators -> PC] /\ svc' \in [Operators -> 1..Services]
    BY <1>1, <2>2, GotoType DEF InitTask
  <2>4. faults' \in [FaultKinds -> Nat]
    BY <1>1, FaultType DEF InitTask
  <2>5. task' \in [1..Services -> Task \cup {NoTask}]
    BY <1>1, <2>1, TaskType DEF InitTask, TypeOK
  <2> QED
    BY <1>1, <2>3, <2>4, <2>5 DEF InitTask, TypeOK
<1>2. ASSUME NEW o \in Operators, SubmitSignature(o) PROVE TypeOK'
  <2>1. svc[o] \in 1..Services
    BY DEF TypeOK
  <2>2. last' \in [Operators -> {"none", "met", "unmet"}]
    BY <1>2 DEF SubmitSignature, TypeOK
  <2>3. Decision(o, last'[o]) \in PC /\ "init" \in PC
    BY <2>2, DecisionType DEF PC, Ended, Failed
  <2>4. pc' \in [Operators -> PC] /\ svc' \in [Operators -> 1..Services]
    BY <1>2, <2>3, GotoType DEF SubmitSignature
  <2>5. faults' \in [FaultKinds -> Nat]
    BY <1>2, FaultType DEF SubmitSignature
  <2>6. task' \in [1..Services -> Task \cup {NoTask}]
    BY <1>2, <2>1, TaskType DEF SubmitSignature, SubmitAccepted, TypeOK
  <2>7. UNCHANGED <<output, chain, result, tx>>
    BY <1>2 DEF SubmitSignature
  <2> QED
    BY <2>2, <2>4, <2>5, <2>6, <2>7 DEF TypeOK
<1>3. ASSUME NEW o \in Operators, Fetch(o) \/ Poll(o) PROVE TypeOK'
  <2>1. svc[o] \in 1..Services
    BY DEF TypeOK
  <2>2. {"fetch", "estimate", "fetch_status", "poll_status", "unavailable"} \subseteq PC
    BY DEF PC, Ended, Failed
  <2>3. pc' \in [Operators -> PC] /\ svc' \in [Operators -> 1..Services]
    BY <1>3, <2>2, GotoType DEF Fetch, Poll
  <2>4. faults' \in [FaultKinds -> Nat]
    BY <1>3, FaultType DEF Fetch, Poll
  <2>5. result' \in [Operators -> Aggregate \cup {NoResult}]
    BY <1>3, <2>1, TaskType DEF Fetch, Poll, Available, TypeOK
  <2>6. UNCHANGED <<output, task, chain, last, tx>>
    BY <1>3 DEF Fetch, Poll
  <2> QED
    BY <2>3, <2>4, <2>5, <2>6 DEF TypeOK
<1>4. ASSUME NEW o \in Operators,
             FetchStatus(o) \/ PollStatus(o) \/ FinalStatus(o) \/ Timeout(o) \/ Crash(o)
      PROVE  TypeOK'
  <2>1. {"fetch", "poll", "ok", "unavailable", "final_status", "timed_out", "crashed"} \subseteq PC
    BY DEF PC, Ended, Failed
  <2>2. pc' \in [Operators -> PC] /\ svc' \in [Operators -> 1..Services]
    BY <1>4, <2>1, GotoType DEF FetchStatus, PollStatus, FinalStatus, Timeout, Crash
  <2>3. faults' \in [FaultKinds -> Nat]
    BY <1>4, FaultType DEF FetchStatus, PollStatus, FinalStatus, Timeout, Crash
  <2>4. UNCHANGED <<output, task, chain, last, result, tx>>
    BY <1>4 DEF FetchStatus, PollStatus, FinalStatus, Timeout, Crash
  <2> QED
    BY <2>2, <2>3, <2>4 DEF TypeOK
<1>5. ASSUME NEW o \in Operators, Estimate(o) PROVE TypeOK'
  <2>1. {"mine", "transport"} \subseteq PC
    BY DEF PC, Ended, Failed
  <2>2. pc' \in [Operators -> PC] /\ svc' \in [Operators -> 1..Services]
    BY <1>5, <2>1, GotoType DEF Estimate
  <2>3. faults' \in [FaultKinds -> Nat]
    BY <1>5, FaultType DEF Estimate
  <2>4. tx' \in [Operators -> {"none", "open", "completed"}]
    BY <1>5 DEF Estimate, TypeOK
  <2>5. UNCHANGED <<output, task, chain, last, result>>
    BY <1>5 DEF Estimate
  <2> QED
    BY <2>2, <2>3, <2>4, <2>5 DEF TypeOK
<1>6. ASSUME NEW o \in Operators, Mine(o) PROVE TypeOK'
  <2>1. {"mark", "ok", "reverted", "transport"} \subseteq PC
    BY DEF PC, Ended, Failed
  <2>2. pc' \in [Operators -> PC] /\ svc' \in [Operators -> 1..Services]
    BY <1>6, <2>1, GotoType DEF Mine
  <2>3. faults' \in [FaultKinds -> Nat]
    BY <1>6, FaultType DEF Mine
  <2>4. chain' \in Aggregate \cup {NoResult}
    BY <1>6 DEF Mine, TypeOK
  <2>5. UNCHANGED <<output, task, last, result, tx>>
    BY <1>6 DEF Mine
  <2> QED
    BY <2>2, <2>3, <2>4, <2>5 DEF TypeOK
<1>7. ASSUME NEW o \in Operators, Mark(o) PROVE TypeOK'
  <2>1. svc[o] \in 1..Services /\ {"mark", "ok"} \subseteq PC
    BY DEF TypeOK, PC, Ended
  <2>2. pc' \in [Operators -> PC] /\ svc' \in [Operators -> 1..Services]
    BY <1>7, <2>1, GotoType DEF Mark
  <2>3. faults' \in [FaultKinds -> Nat]
    BY <1>7, FaultType DEF Mark
  <2>4. task' \in [1..Services -> Task \cup {NoTask}]
    BY <1>7, <2>1, TaskType DEF Mark, TypeOK
  <2>5. UNCHANGED <<output, chain, last, result, tx>>
    BY <1>7 DEF Mark
  <2> QED
    BY <2>2, <2>3, <2>4, <2>5 DEF TypeOK
<1>8. ASSUME NEW s \in 1..Services, Forget(s) PROVE TypeOK'
  <2>1. faults' \in [FaultKinds -> Nat]
    BY <1>8, FaultType DEF Forget
  <2>2. task' \in [1..Services -> Task \cup {NoTask}]
    BY <1>8 DEF Forget, TypeOK
  <2> QED
    BY <1>8, <2>1, <2>2 DEF Forget, TypeOK
<1>9. CASE UNCHANGED vars
  BY <1>9 DEF vars, TypeOK
<1> QED
  BY <1>1, <1>2, <1>3, <1>4, <1>5, <1>6, <1>7, <1>8, <1>9 DEF Next, Step, Done

\* The variables always have their types.
THEOREM TypeCorrect == Spec => []TypeOK
<1>1. Init => TypeOK
  BY OperatorsAssumption DEF Init, TypeOK, PC
<1> QED
  BY <1>1, TypeStep, PTL DEF Spec

-----------------------------------------------------------------------------
(***************************************************************************)
(* Agreement: a signature never ends up under another operator's output.   *)
(***************************************************************************)
LEMMA AgreementStep == TypeOK /\ AgreementInv /\ [Next]_vars => AgreementInv'
<1> SUFFICES ASSUME TypeOK, AgreementInv, [Next]_vars PROVE AgreementInv'
  OBVIOUS
<1>1. output' = output
  BY DEF Next, Step, Done, InitTask, SubmitSignature, Fetch, FetchStatus, Poll, PollStatus,
         FinalStatus, Timeout, Estimate, Mine, Mark, Crash, Forget, vars
\* A step of one operator that moves it to p or end and changes tasks only.
<1>2. ASSUME NEW o \in Operators, NEW p \in PC, NEW end \in PC,
             Goto(o, p) \/ NextService(o, p, end),
             {p, end} \cap {"estimate", "mine"} = {},
             UNCHANGED <<chain, result>>,
             \A s \in 1..Services : task'[s] # NoTask => Agreed(task[s])'
      PROVE  AgreementInv'
  <2>1. \A x \in Operators : pc'[x] \in {"estimate", "mine"} => pc[x] \in {"estimate", "mine"}
    BY <1>2, GotoType
  <2> QED
    BY <1>1, <1>2, <2>1 DEF AgreementInv, Agreed
<1>3. ASSUME NEW o \in Operators, InitTask(o) PROVE AgreementInv'
  <2>1. svc[o] \in 1..Services /\ last[o] \in {"none", "met", "unmet"}
    BY DEF TypeOK
  <2>2. Decision(o, last[o]) \in PC \ {"estimate", "mine"} /\ "init" \in PC /\ "submit" \in PC
    BY <2>1, DecisionType DEF PC, Ended, Failed
  <2>3. task' = task \/ task' = TaskInit(o, svc[o])
    BY <1>3 DEF InitTask
  <2>4. \A s \in 1..Services : task'[s] = task[s] \/ task'[s].signers = {}
    <3>1. CASE task' = task
      BY <3>1
    <3>2. CASE task' = [task EXCEPT ![svc[o]] =
                          [output |-> output[o], signers |-> {}, submitted |-> FALSE]]
      BY <2>1, <3>2 DEF TypeOK
    <3> QED
      BY <2>3, <3>1, <3>2 DEF TaskInit
  <2>5. \A s \in 1..Services : task'[s] # NoTask => Agreed(task[s])'
    BY <1>1, <2>4 DEF AgreementInv, Agreed
  <2> QED
    BY <1>2, <1>3, <2>2, <2>5 DEF InitTask
<1>4. ASSUME NEW o \in Operators, SubmitSignature(o) PROVE AgreementInv'
  <2>1. svc[o] \in 1..Services
    BY DEF TypeOK
  <2>2. last' \in [Operators -> {"none", "met", "unmet"}]
    BY <1>4 DEF SubmitSignature, TypeOK
  <2>3. Decision(o, last'[o]) \in PC \ {"estimate", "mine"} /\ "init" \in PC
    BY <2>2, DecisionType DEF PC, Ended, Failed
  <2>4. task' = task \/ (SubmitAccepted(o, svc[o]) /\ task' = TaskSubmit(o, svc[o]))
    BY <1>4 DEF SubmitSignature
  <2>5. CASE SubmitAccepted(o, svc[o]) /\ task' = TaskSubmit(o, svc[o])
    <3>1. task[svc[o]] \in Task /\ task[svc[o]].output = output[o]
      BY <2>1, <2>5 DEF SubmitAccepted, TypeOK
    <3>2. /\ task'[svc[o]].output = task[svc[o]].output
          /\ task'[svc[o]].signers = task[svc[o]].signers \cup {o}
          /\ \A s \in 1..Services : s # svc[o] => task'[s] = task[s]
      BY <2>1, <2>5, <3>1 DEF TaskSubmit, TypeOK, Task
    <3>3. Agreed(task[svc[o]])
      BY <2>1, <3>1, SentinelsAssumption DEF AgreementInv
    <3>4. Agreed(task'[svc[o]])
      BY <3>1, <3>2, <3>3 DEF Agreed
    <3>5. \A s \in 1..Services : task'[s] # NoTask => Agreed(task'[s])
      BY <3>2, <3>4 DEF AgreementInv
    <3>6. \A s \in 1..Services : task'[s] # NoTask => Agreed(task[s])'
      BY <1>1, <3>5 DEF Agreed
    <3> QED
      BY <1>2, <1>4, <2>3, <3>6 DEF SubmitSignature
  <2>6. CASE task' = task
    <3>1. \A s \in 1..Services : task'[s] # NoTask => Agreed(task[s])'
      BY <1>1, <2>6 DEF AgreementInv, Agreed
    <3> QED
      BY <1>2, <1>4, <2>3, <3>1 DEF SubmitSignature
  <2> QED
    BY <2>4, <2>5, <2>6
<1>5. ASSUME NEW o \in Operators, Fetch(o) \/ Poll(o) PROVE AgreementInv'
  <2>1. svc[o] \in 1..Services /\ UNCHANGED <<output, task, chain>>
    BY <1>5 DEF TypeOK, Fetch, Poll
  <2>2. CASE UNCHANGED result
    <3>1. \A s \in 1..Services : task'[s] # NoTask => Agreed(task[s])'
      BY <2>1 DEF AgreementInv, Agreed
    <3>2. {"fetch", "fetch_status", "poll_status", "unavailable"} \subseteq PC \ {"estimate", "mine"}
      BY DEF PC, Ended, Failed
    <3>3. CASE \/ Goto(o, "fetch_status") \/ Goto(o, "poll_status")
               \/ NextService(o, "fetch", "unavailable")
      BY <1>2, <2>1, <2>2, <3>1, <3>2, <3>3
    <3>4. CASE Goto(o, "estimate") /\ Available(svc[o])
               /\ result' = [result EXCEPT ![o] = AggregateOf(svc[o])]
      <4>1. result[o] # NoResult
        BY <2>1, <2>2, <3>4, TaskType, SentinelsAssumption DEF Available, TypeOK
      <4>2. \A x \in Operators : x # o => pc'[x] = pc[x]
        BY <3>4 DEF Goto, TypeOK
      <4> QED
        BY <2>1, <2>2, <4>1, <4>2 DEF AgreementInv, Agreed
    <3> QED
      BY <1>5, <3>3, <3>4 DEF Fetch, Poll
  <2>3. CASE /\ Goto(o, "estimate") /\ Available(svc[o])
             /\ result' = [result EXCEPT ![o] = AggregateOf(svc[o])]
    <3>1. result'[o] = AggregateOf(svc[o]) /\ \A x \in Operators : x # o => result'[x] = result[x]
      BY <2>3 DEF TypeOK
    <3>2. AggregateOf(svc[o]) \in Aggregate /\ AggregateOf(svc[o]) # NoResult
      BY <2>1, <2>3, TaskType, SentinelsAssumption DEF Available
    <3>3. Met(AggregateOf(svc[o]).signers)
      BY <2>3 DEF Available, AggregateOf
    <3>4. Agreed(AggregateOf(svc[o]))
      BY <2>1, <2>3 DEF Available, AggregateOf, AgreementInv, Agreed
    <3>5. \A x \in Operators : x # o => pc'[x] = pc[x]
      BY <2>3 DEF Goto, TypeOK
    <3>6. \A x \in Operators : result'[x] # NoResult => Met(result'[x].signers) /\ Agreed(result'[x])
      BY <3>1, <3>3, <3>4 DEF AgreementInv
    <3>7. \A x \in Operators : pc'[x] \in {"estimate", "mine"} => result'[x] # NoResult
      BY <3>1, <3>2, <3>5 DEF AgreementInv
    <3> QED
      BY <2>1, <3>6, <3>7 DEF AgreementInv, Agreed
  <2> QED
    BY <1>5, <2>2, <2>3 DEF Fetch, Poll
<1>6. ASSUME NEW o \in Operators,
             FetchStatus(o) \/ PollStatus(o) \/ FinalStatus(o) \/ Timeout(o) \/ Crash(o)
      PROVE  AgreementInv'
  <2>1. {"fetch", "poll", "ok", "unavailable", "final_status", "timed_out", "crashed"}
           \subseteq PC \ {"estimate", "mine"}
    BY DEF PC, Ended, Failed
  <2>2. UNCHANGED <<output, task, chain, result>>
    BY <1>6 DEF FetchStatus, PollStatus, FinalStatus, Timeout, Crash
  <2>3. \A s \in 1..Services : task'[s] # NoTask => Agreed(task[s])'
    BY <2>2 DEF AgreementInv, Agreed
  <2>4. \E p, end \in PC \ {"estimate", "mine"} : Goto(o, p) \/ NextService(o, p, end)
    BY <1>6, <2>1 DEF FetchStatus, PollStatus, FinalStatus, Timeout, Crash
  <2> QED
    BY <1>2, <2>2, <2>3, <2>4
<1>7. ASSUME NEW o \in Operators, Estimate(o) \/ Mine(o) PROVE AgreementInv'
  <2>1. pc[o] \in {"estimate", "mine"} /\ UNCHANGED <<output, task, result>>
    BY <1>7 DEF Estimate, Mine
  <2>2. \A x \in Operators : x # o => pc'[x] = pc[x]
    BY <1>7 DEF Estimate, Mine, Goto, GotoFirst, TypeOK
  <2>3. result[o] # NoResult
    BY <2>1 DEF AgreementInv
  <2>4. chain' = chain \/ chain' = result[o]
    BY <1>7 DEF Estimate, Mine
  <2> QED
    BY <2>1, <2>2, <2>3, <2>4 DEF AgreementInv, Agreed
<1>8. ASSUME NEW o \in Operators, Mark(o) PROVE AgreementInv'
  <2>1. svc[o] \in 1..Services /\ {"mark", "ok"} \subseteq PC \ {"estimate", "mine"}
    BY DEF TypeOK, PC, Ended
  <2>2. task' = task \/ task' = TaskMark(svc[o])
    BY <1>8 DEF Mark
  <2>3. \A s \in 1..Services : task'[s] # NoTask => Agreed(task[s])'
    <3>1. CASE task' = task
      BY <1>1, <3>1 DEF AgreementInv, Agreed
    <3>2. CASE task' = TaskMark(svc[o]) /\ task[svc[o]] # NoTask
      <4>1. task[svc[o]] \in Task
        BY <2>1, <3>2 DEF TypeOK
      <4>2. /\ task'[svc[o]].output = task[svc[o]].output
            /\ task'[svc[o]].signers = task[svc[o]].signers
            /\ \A s \in 1..Services : s # svc[o] => task'[s] = task[s]
        BY <2>1, <3>2, <4>1 DEF TaskMark, TypeOK, Task
      <4> QED
        BY <1>1, <3>2, <4>2 DEF AgreementInv, Agreed
    <3> QED
      BY <2>2, <3>1, <3>2 DEF TaskMark
  <2> QED
    BY <1>2, <1>8, <2>1, <2>3 DEF Mark
<1>9. ASSUME NEW s \in 1..Services, Forget(s) PROVE AgreementInv'
  <2>1. UNCHANGED <<output, chain, pc, result>>
    BY <1>9 DEF Forget
  <2>2. \A x \in 1..Services : task'[x] = NoTask \/ task'[x] = task[x]
    BY <1>9 DEF Forget, TypeOK
  <2> QED
    BY <2>1, <2>2 DEF AgreementInv, Agreed
<1>10. CASE UNCHANGED vars
  BY <1>10 DEF vars, AgreementInv, Agreed
<1> QED
  BY <1>3, <1>4, <1>5, <1>6, <1>7, <1>8, <1>9, <1>10 DEF Next, Step, Done

\* The result on chain is what a quorum of operators computed themselves, for any
\* operators, services and faults (submit_signature; get_aggregated_result).
THEOREM ChainResultAlwaysAgreed == Spec => []ChainResultIsAgreed
<1>1. Init => AgreementInv
  BY DEF Init, AgreementInv
<1>2. AgreementInv => ChainResultIsAgreed
  BY DEF AgreementInv, Agreed, ChainResultIsAgreed
<1> QED
  BY <1>1, <1>2, AgreementStep, TypeCorrect, PTL DEF Spec

-----------------------------------------------------------------------------
(***************************************************************************)
(* Completion: the services and the operators believe the call completed   *)
(* only when it is.                                                        *)
(***************************************************************************)
LEMMA CompletionStep == TypeOK /\ AgreementInv /\ CompletionInv /\ [Next]_vars => CompletionInv'
<1> SUFFICES ASSUME TypeOK, AgreementInv, CompletionInv, [Next]_vars PROVE CompletionInv'
  OBVIOUS
\* The chain keeps its result, so only what is newly believed has to be shown.
<1>1. ASSUME chain # NoResult => chain' # NoResult,
             \A s \in 1..Services : IsSubmitted(s)' => IsSubmitted(s) \/ chain' # NoResult,
             \A o \in Operators : pc'[o] = "mark" => pc[o] = "mark" \/ chain' # NoResult,
             \A o \in Operators : tx'[o] = "completed" => tx[o] = "completed" \/ chain' # NoResult,
             WaitForThreshold => \A o \in SubmitToChain : pc'[o] = "ok" => pc[o] = "ok" \/ chain' # NoResult
      PROVE  CompletionInv'
  BY <1>1 DEF CompletionInv, OkMeansCompleted
<1>2. ASSUME NEW o \in Operators, InitTask(o) PROVE CompletionInv'
  <2>1. svc[o] \in 1..Services /\ last[o] \in {"none", "met", "unmet"}
    BY DEF TypeOK
  <2>2. UNCHANGED <<chain, tx>>
    BY <1>2 DEF InitTask
  <2>3. Decision(o, last[o]) \in PC \ {"mark"} /\ "init" \in PC /\ "submit" \in PC
    BY <2>1, DecisionType DEF PC, Ended, Failed
  <2>4. /\ \A x \in Operators : x # o => pc'[x] = pc[x]
        /\ pc'[o] \in {"init", "submit", Decision(o, last[o])}
    BY <1>2, <2>3, GotoType DEF InitTask
  <2>5. WaitForThreshold /\ o \in SubmitToChain => pc'[o] # "ok"
    BY <2>1, <2>4, DecisionType
  <2>6. task' = task \/ task' = TaskInit(o, svc[o])
    BY <1>2 DEF InitTask
  <2>7. \A s \in 1..Services : IsSubmitted(s)' => IsSubmitted(s)
    <3>1. CASE task' = task
      BY <3>1 DEF IsSubmitted
    <3>2. CASE task' = [task EXCEPT ![svc[o]] =
                          [output |-> output[o], signers |-> {}, submitted |-> FALSE]]
      BY <2>1, <3>2 DEF IsSubmitted, TypeOK
    <3> QED
      BY <2>6, <3>1, <3>2 DEF TaskInit
  <2> QED
    BY <1>1, <2>2, <2>3, <2>4, <2>5, <2>7, OperatorsAssumption
<1>3. ASSUME NEW o \in Operators, SubmitSignature(o) PROVE CompletionInv'
  <2>1. svc[o] \in 1..Services
    BY DEF TypeOK
  <2>2. last'[o] \in {"none", "met", "unmet"}
    BY <1>3 DEF SubmitSignature, TypeOK
  <2>3. Decision(o, last'[o]) \in PC \ {"mark"} /\ "init" \in PC
    BY <2>2, DecisionType DEF PC, Ended, Failed
  <2>4. UNCHANGED <<chain, tx>>
    BY <1>3 DEF SubmitSignature
  <2>5. /\ \A x \in Operators : x # o => pc'[x] = pc[x]
        /\ pc'[o] \in {"init", Decision(o, last'[o])}
    BY <1>3, <2>3, GotoType DEF SubmitSignature
  <2>6. WaitForThreshold /\ o \in SubmitToChain => pc'[o] # "ok"
    BY <2>2, <2>5, DecisionType
  <2>7. task' = task \/ (task[svc[o]] # NoTask /\ task' = TaskSubmit(o, svc[o]))
    BY <1>3 DEF SubmitSignature, SubmitAccepted
  <2>8. \A s \in 1..Services : IsSubmitted(s)' => IsSubmitted(s)
    <3>1. CASE task' = task
      BY <3>1 DEF IsSubmitted
    <3>2. CASE task[svc[o]] # NoTask /\ task' = TaskSubmit(o, svc[o])
      <4>1. task[svc[o]] \in Task
        BY <2>1, <3>2 DEF TypeOK
      <4>2. /\ task'[svc[o]].submitted = task[svc[o]].submitted
            /\ \A s \in 1..Services : s # svc[o] => task'[s] = task[s]
        BY <2>1, <3>2, <4>1 DEF TaskSubmit, TypeOK, Task
      <4> QED
        BY <3>2, <4>2 DEF IsSubmitted
    <3> QED
      BY <2>7, <3>1, <3>2
  <2> QED
    BY <1>1, <2>3, <2>4, <2>5, <2>6, <2>8, OperatorsAssumption
<1>4. ASSUME NEW o \in Operators, Fetch(o) \/ Poll(o) \/ Timeout(o) \/ Crash(o)
      PROVE  CompletionInv'
  <2>1. UNCHANGED <<chain, task, tx>>
    BY <1>4 DEF Fetch, Poll, Timeout, Crash
  <2>2. {"fetch", "estimate", "fetch_status", "poll_status", "unavailable", "final_status", "crashed"}
           \subseteq PC \ {"mark", "ok"}
    BY DEF PC, Ended, Failed
  <2>3. PICK p, end \in PC \ {"mark", "ok"} : Goto(o, p) \/ NextService(o, p, end)
    BY <1>4, <2>2 DEF Fetch, Poll, Timeout, Crash
  <2>4. (\A x \in Operators : x # o => pc'[x] = pc[x]) /\ pc'[o] \notin {"mark", "ok"}
    BY <2>3, GotoType
  <2>5. \A s \in 1..Services : IsSubmitted(s)' = IsSubmitted(s)
    BY <2>1 DEF IsSubmitted
  <2> QED
    BY <1>1, <2>1, <2>4, <2>5, OperatorsAssumption
<1>5. ASSUME NEW o \in Operators, FetchStatus(o) \/ PollStatus(o) \/ FinalStatus(o)
      PROVE  CompletionInv'
  <2>1. UNCHANGED <<chain, task, tx>> /\ svc[o] \in 1..Services
    BY <1>5 DEF FetchStatus, PollStatus, FinalStatus, TypeOK
  <2>2. {"fetch", "poll", "unavailable", "final_status", "timed_out"} \subseteq PC \ {"mark", "ok"}
        /\ "ok" \in PC
    BY DEF PC, Ended, Failed
  <2>3. \/ IsSubmitted(svc[o]) /\ Goto(o, "ok")
        \/ \E p, end \in PC \ {"mark", "ok"} : NextService(o, p, end)
    BY <1>5, <2>2 DEF FetchStatus, PollStatus, FinalStatus
  <2>4. IsSubmitted(svc[o]) => chain' # NoResult
    BY <2>1 DEF CompletionInv
  <2>5. /\ \A x \in Operators : x # o => pc'[x] = pc[x]
        /\ pc'[o] # "mark" /\ (pc'[o] = "ok" => IsSubmitted(svc[o]))
    BY <2>2, <2>3, GotoType
  <2>6. \A s \in 1..Services : IsSubmitted(s)' = IsSubmitted(s)
    BY <2>1 DEF IsSubmitted
  <2> QED
    BY <1>1, <2>1, <2>4, <2>5, <2>6, OperatorsAssumption
<1>6. ASSUME NEW o \in Operators, Estimate(o) PROVE CompletionInv'
  <2>1. UNCHANGED <<chain, task>>
    BY <1>6 DEF Estimate
  <2>2. (\A x \in Operators : x # o => pc'[x] = pc[x]) /\ pc'[o] \in {"mine", "transport"}
    BY <1>6 DEF Estimate, Goto, TypeOK
  <2>3. \A x \in Operators : tx'[x] = "completed" => tx[x] = "completed" \/ chain # NoResult
    BY <1>6 DEF Estimate, TypeOK
  <2>4. \A s \in 1..Services : IsSubmitted(s)' = IsSubmitted(s)
    BY <2>1 DEF IsSubmitted
  <2> QED
    BY <1>1, <2>1, <2>2, <2>3, <2>4, OperatorsAssumption
<1>7. ASSUME NEW o \in Operators, Mine(o) PROVE CompletionInv'
  <2>1. pc[o] = "mine" /\ UNCHANGED <<task, tx>>
        /\ chain' = IF ContractAccepts(result[o]) THEN result[o] ELSE chain
    BY <1>7 DEF Mine
  <2>2. result[o] # NoResult /\ Met(result[o].signers)
    BY <2>1 DEF AgreementInv
  <2>3. chain' # NoResult
    BY <2>1, <2>2 DEF ContractAccepts
  <2>4. \A x \in Operators : x # o => pc'[x] = pc[x]
    BY <1>7 DEF Mine, Goto, GotoFirst, TypeOK
  <2>5. \A s \in 1..Services : IsSubmitted(s)' = IsSubmitted(s)
    BY <2>1 DEF IsSubmitted
  <2> QED
    BY <1>1, <2>1, <2>3, <2>4, <2>5, OperatorsAssumption
<1>8. ASSUME NEW o \in Operators, Mark(o) PROVE CompletionInv'
  <2>1. pc[o] = "mark" /\ UNCHANGED <<chain, tx>>
    BY <1>8 DEF Mark
  <2>2. chain # NoResult
    BY <2>1 DEF CompletionInv
  <2> QED
    BY <1>1, <2>1, <2>2
<1>9. ASSUME NEW s \in 1..Services, Forget(s) PROVE CompletionInv'
  <2>1. UNCHANGED <<chain, pc, tx>>
    BY <1>9 DEF Forget
  <2>2. \A x \in 1..Services : task'[x] = NoTask \/ task'[x] = task[x]
    BY <1>9 DEF Forget, TypeOK
  <2>3. \A x \in 1..Services : IsSubmitted(x)' => IsSubmitted(x)
    BY <2>2 DEF IsSubmitted
  <2> QED
    BY <1>1, <2>1, <2>3
<1>10. CASE UNCHANGED vars
  BY <1>10 DEF vars, CompletionInv, IsSubmitted, OkMeansCompleted
<1> QED
  BY <1>2, <1>3, <1>4, <1>5, <1>6, <1>7, <1>8, <1>9, <1>10 DEF Next, Step, Done

\* An operator that waits for the threshold and reports Ok leaves a completed call
\* behind, for any operators, services and faults (submit_aggregated_result).
THEOREM OkAlwaysMeansCompleted == Spec => []OkMeansCompleted
<1>1. Init => AgreementInv /\ CompletionInv
  BY OperatorsAssumption DEF Init, AgreementInv, CompletionInv, IsSubmitted, OkMeansCompleted
<1>2. CompletionInv => OkMeansCompleted
  BY DEF CompletionInv
<1> QED
  BY <1>1, <1>2, AgreementStep, CompletionStep, TypeCorrect, PTL DEF Spec
=============================================================================
