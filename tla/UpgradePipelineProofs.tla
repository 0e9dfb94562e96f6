----------------------- MODULE UpgradePipelineProofs ------------------------
(***************************************************************************)
(* Proofs about UpgradePipeline, for every finite set of services, every   *)
(* capacity of the two channels and every scenario.                        *)
(***************************************************************************)
EXTENDS UpgradePipeline, FiniteSetTheorems, TLAPS

-----------------------------------------------------------------------------
\* What the two tasks hold while they are in the middle of a service.
HandlerHolds ==
    /\ handler.at = "started" => handler.block.start \in Services
    /\ handler.at = "stopped" => handler.block.stop \in Services
    /\ handler.at = "drained" => handler.swap \in Request

WatcherHolds ==
    /\ watcher.at \notin {"idle", "next"} => watcher.service \in Services
    /\ watcher.at \in {"target", "compare", "decide", "download", "send"} =>
         watcher.service \in watcher.todo
    /\ watcher.at \in {"compare", "decide", "download", "send", "consume"} =>
         watcher.target \in Versions

(***************************************************************************)
(* What the contract and the operator allow now was allowed at some time,  *)
(* and so was what the watcher has in hand.                                *)
(***************************************************************************)
ConsentIsRecorded ==
    \A s \in Services :
      /\ ByPolicy(s, policy[s]) \in consented
      /\ acked[s] # None => ByVersion(s, acked[s], "ack") \in consented
      /\ \A v \in Allowed(authz[s]) : ByVersion(s, v, "authz") \in consented

Consented(s, v, p) ==
    /\ ByPolicy(s, p) \in consented
    /\ p = "Approve" => ByVersion(s, v, "ack") \in consented
    /\ p = "Manual" => ByVersion(s, v, "authz") \in consented
    /\ p # "Approve" => Gated(v)

WatcherIsConsented ==
    /\ watcher.at \in {"target", "compare", "decide", "download", "send"} =>
         ByPolicy(watcher.service, watcher.policy) \in consented
    /\ watcher.at \in {"download", "send"} =>
         Consented(watcher.service, watcher.target, watcher.policy)

ConsentInv ==
    ConsentIsRecorded /\ WatcherIsConsented /\ SwapsAreConsented /\ UnackedSwapsAreGated

(***************************************************************************)
(* A pin that is set, or that the watcher works on, has not been used: and *)
(* if both, and they differ, there are two.                                *)
(***************************************************************************)
PinInHand(s) ==
    watcher.at \in {"download", "send"} /\ watcher.clear_pinned /\ watcher.service = s

PinUsedUp(s) ==
    watcher.at = "consume" /\ watcher.service = s /\ authz[s].pinned = watcher.target

PinsAreCounted ==
    \A s \in Services :
      /\ pins[s] >= 0
      /\ authz[s].pinned # None /\ ~ PinUsedUp(s) => pins[s] >= 1
      /\ PinInHand(s) => pins[s] >= 1
      /\ PinInHand(s) /\ authz[s].pinned \notin {None, watcher.target} => pins[s] >= 2

(***************************************************************************)
(* Until the handler drains again, a signal channel that is full has been  *)
(* full since the swap channel was empty: all that may still be in it are  *)
(* the services of one reconcile.                                          *)
(***************************************************************************)
OneReconcile ==
    handler.at \in {"idle", "logs", "started", "stopped", "notify"} =>
      \/ Len(signals) < SIGNALS
      \/ Len(swaps) + Cardinality(watcher.todo) <= Cardinality(Services)

IInv ==
    TypeOK /\ HandlerHolds /\ WatcherHolds /\ ConsentInv /\ PinsAreCounted /\ OneReconcile

-----------------------------------------------------------------------------
(***************************************************************************)
(* What each of the four actors leaves alone.                              *)
(***************************************************************************)
LEMMA ChainLeaves ==
    ASSUME Chain
    PROVE  /\ UNCHANGED <<handlerVars, stateVars, signals, swaps, watcher, authz, pins, missed, scenario>>
           /\ consented \subseteq consented'
BY DEF Chain, VersionChanges, PolicySet, VersionAcked, ServiceActivated, ServiceTerminated, NewBlock,
       operatorVars

LEMMA OperatorLeaves ==
    ASSUME OperatorStep
    PROVE  /\ UNCHANGED <<chainVars, handlerVars, stateVars, signals, swaps, watcher, missed>>
           /\ consented \subseteq consented'
BY DEF OperatorStep, set_pin, set_whitelist, add_skip, clear_skip, Operator

LEMMA HandlerLeaves ==
    ASSUME HandlerStep
    PROVE  UNCHANGED <<effective, policy, acked, scenario, authz, consented, pins, watcher>>
BY DEF HandlerStep, NextBlock, Tick, StartService, RecordStarted, StartFails, StopService, RecordStopped, StopIsMissed, HandlerFails, NoService, Notify, DrainService, RecordSwap, BlockDone, Outside, operatorVars, historyVars

LEMMA WatcherLeaves ==
    ASSUME WatcherStep
    PROVE  UNCHANGED <<effective, policy, acked, scenario, consented, missed, blocks, handlerVars>>
<1> USE DEF Outside, operatorVars, historyVars
<1>1. CASE Receive
  BY <1>1 DEF Receive
<1>2. ASSUME NEW s \in Services, ReadPolicy(s)
      PROVE  UNCHANGED <<effective, policy, acked, scenario, consented, missed, blocks, handlerVars>>
  BY <1>2 DEF ReadPolicy
<1>3. CASE Reconciled \/ ReadTarget \/ ReadFails \/ Compare \/ Decide
  BY <1>3 DEF Reconciled, ReadTarget, ReadFails, Compare, Decide
<1>4. CASE Download \/ DownloadFails \/ SendSwap \/ ConsumePin
  BY <1>4 DEF Download, DownloadFails, SendSwap, ConsumePin
<1> QED
  BY <1>1, <1>2, <1>3, <1>4 DEF WatcherStep

-----------------------------------------------------------------------------
\* The records that steps build.
LEMMA Records ==
    ASSUME TypeOK
    PROVE  /\ NoLogs \in Block
           /\ Return \in Watcher
           /\ \A s \in Services, p \in Policies : ByPolicy(s, p) \in Consent
           /\ \A s \in Services, v \in Versions, how \in {"ack", "authz"} :
                ByVersion(s, v, how) \in Consent
<1>1. NoLogs \in Block
  BY DEF NoLogs, Block
<1>2. Return \in Watcher
  BY DEF TypeOK, Return, Watcher, OptVersion, Policies
<1>3. \A s \in Services, p \in Policies : ByPolicy(s, p) \in Consent
  BY DEF ByPolicy, Consent, OptVersion
<1>4. \A s \in Services, v \in Versions, how \in {"ack", "authz"} : ByVersion(s, v, how) \in Consent
  BY DEF ByVersion, Consent, OptVersion
<1> QED
  BY <1>1, <1>2, <1>3, <1>4

LEMMA TypeInit == Init => TypeOK
<1> SUFFICES ASSUME Init PROVE TypeOK
  OBVIOUS
<1> USE UpgradeAssumption, ScenarioAssumption
<1>1. effective \in [Services -> OptVersion] /\ policy \in [Services -> Policies]
  BY DEF Init, IsScenario
<1>2. NoLogs \in Block
  BY DEF NoLogs, Block
<1>3. handler \in Handler
  BY <1>2 DEF Init, Handler
<1>4. watcher \in Watcher
  BY DEF Init, Watcher, OptVersion, Policies
<1>5. authz \in [Services -> LocalAuthz]
  BY DEF Init, LocalAuthz, OptVersion
<1>6. consented \subseteq Consent
  BY <1>1 DEF Init, ByPolicy, Consent, OptVersion
<1>7. active \subseteq Services
  BY DEF Init, IsScenario
<1>8. running \in [Services -> OptVersion]
  BY <1>1 DEF Init, OptVersion
<1>9. /\ acked \in [Services -> OptVersion] /\ pending \in [Services -> OptVersion]
      /\ pins \in [Services -> Int] /\ missed \subseteq Blueprints
  BY DEF Init, OptVersion
<1>10. /\ blocks \in Seq(Block) /\ signals \in Seq(SUBSET Blueprints) /\ swaps \in Seq(Request)
       /\ Len(signals) <= SIGNALS /\ Len(swaps) <= SWAPS
  BY DEF Init
<1> QED
  BY <1>1, <1>3, <1>4, <1>5, <1>6, <1>7, <1>8, <1>9, <1>10 DEF Init, TypeOK

\* A block of the chain.
LEMMA TypeChain ==
    ASSUME TypeOK, Chain
    PROVE  TypeOK'
<1> USE UpgradeAssumption
<1>1. UNCHANGED <<handlerVars, stateVars, signals, swaps, watcher, authz, pins, missed, scenario>>
  BY ChainLeaves
<1>2. /\ effective' \in [Services -> OptVersion] /\ policy' \in [Services -> Policies]
      /\ acked' \in [Services -> OptVersion] /\ consented' \subseteq Consent
  <2> DEFINE Goal ==
        /\ effective' \in [Services -> OptVersion] /\ policy' \in [Services -> Policies]
        /\ acked' \in [Services -> OptVersion] /\ consented' \subseteq Consent
  <2>1. ASSUME NEW b \in Blueprints, NEW v \in Versions, VersionChanges(b, v) PROVE Goal
    BY <2>1 DEF VersionChanges, TypeOK, OptVersion
  <2>2. ASSUME NEW s \in Services, NEW p \in Policies, PolicySet(s, p) PROVE Goal
    BY <2>2, Records DEF PolicySet, TypeOK
  <2>3. ASSUME NEW s \in Services, NEW v \in Versions, VersionAcked(s, v) PROVE Goal
    BY <2>3, Records DEF VersionAcked, TypeOK, OptVersion
  <2>4. ASSUME NEW s \in Services, ServiceActivated(s) \/ ServiceTerminated(s) PROVE Goal
    BY <2>4 DEF ServiceActivated, ServiceTerminated, TypeOK
  <2> QED
    BY <2>1, <2>2, <2>3, <2>4 DEF Chain
<1>4. ASSUME NEW b \in Block, NEW c, NewBlock(b, c) PROVE blocks' \in Seq(Block)
  BY <1>4 DEF NewBlock, TypeOK
<1>5. blocks' \in Seq(Block)
  <2>1. ASSUME NEW b \in Blueprints PROVE [NoLogs EXCEPT !.blueprints = {b}] \in Block
    BY <2>1 DEF NoLogs, Block
  <2>2. [NoLogs EXCEPT !.policy_changed = TRUE] \in Block
    BY DEF NoLogs, Block
  <2>3. ASSUME NEW s \in Services
        PROVE  [NoLogs EXCEPT !.start = s] \in Block /\ [NoLogs EXCEPT !.stop = s] \in Block
    BY <2>3 DEF NoLogs, Block
  <2> QED
    BY <2>1, <2>2, <2>3, <1>4 DEF Chain, VersionChanges, PolicySet, VersionAcked, ServiceActivated,
                                  ServiceTerminated
<1> QED
  BY <1>1, <1>2, <1>5 DEF TypeOK, handlerVars, stateVars

\* An act of the operator.
LEMMA TypeOperator ==
    ASSUME TypeOK, OperatorStep
    PROVE  TypeOK'
<1>1. UNCHANGED <<chainVars, handlerVars, stateVars, signals, swaps, watcher, missed>>
  BY OperatorLeaves
<1>2. ASSUME NEW s \in Services, NEW a \in LocalAuthz, NEW c, Operator(s, a, c)
      PROVE  authz' \in [Services -> LocalAuthz] /\ consented' \subseteq Consent
  <2>1. Allowed(a) \subseteq Versions
    BY <1>2 DEF Allowed, LocalAuthz, OptVersion
  <2> QED
    BY <1>2, <2>1, Records DEF Operator, TypeOK
<1>3. ASSUME NEW s \in Services
      PROVE  /\ \A v \in OptVersion : [authz[s] EXCEPT !.pinned = v] \in LocalAuthz
             /\ \A W \in SUBSET Versions : [authz[s] EXCEPT !.whitelisted = W] \in LocalAuthz
             /\ \A v \in Versions : /\ [authz[s] EXCEPT !.skipped = @ \cup {v}] \in LocalAuthz
                                    /\ [authz[s] EXCEPT !.skipped = @ \ {v}] \in LocalAuthz
  BY <1>3 DEF TypeOK, LocalAuthz
<1>4. authz' \in [Services -> LocalAuthz] /\ consented' \subseteq Consent
  BY <1>2, <1>3 DEF OperatorStep, set_pin, set_whitelist, add_skip, clear_skip
<1>5. pins' \in [Services -> Int]
  <2>1. ASSUME NEW s \in Services, NEW v \in OptVersion, set_pin(s, v)
        PROVE  pins' \in [Services -> Int]
    <3>1. pins' = [pins EXCEPT ![s] = IF v = None THEN @ ELSE @ + 1]
      BY <2>1 DEF set_pin
    <3> QED
      BY <3>1 DEF TypeOK
  <2>2. ASSUME UNCHANGED pins PROVE pins' \in [Services -> Int]
    BY <2>2 DEF TypeOK
  <2> QED
    BY <2>1, <2>2 DEF OperatorStep, set_whitelist, add_skip, clear_skip
<1> QED
  BY <1>1, <1>4, <1>5 DEF TypeOK, chainVars, handlerVars, stateVars

\* A step of the handler.
LEMMA TypeHandler ==
    ASSUME TypeOK, HandlerHolds, HandlerStep
    PROVE  TypeOK' /\ HandlerHolds'
<1> USE UpgradeAssumption
<1>1. UNCHANGED <<effective, policy, acked, scenario, authz, consented, pins, watcher>>
  BY HandlerLeaves
<1>2. ASSUME handler' \in Handler, HandlerHolds', active' \subseteq Services,
             tracked' \subseteq Services, running' \in [Services -> OptVersion],
             pending' \in [Services -> OptVersion], blocks' \in Seq(Block),
             signals' \in Seq(SUBSET Blueprints), Len(signals') <= SIGNALS,
             swaps' \in Seq(Request), Len(swaps') <= SWAPS, missed' \subseteq Blueprints
      PROVE  TypeOK' /\ HandlerHolds'
  BY <1>1, <1>2 DEF TypeOK
<1> USE DEF TypeOK, Handler, HandlerHolds, HandlerAt, stateVars, Outside, historyVars
<1>3. CASE NextBlock
  <2>1. Head(blocks) \in Block /\ Tail(blocks) \in Seq(Block)
    BY <1>3 DEF NextBlock
  <2> QED
    BY <1>2, <1>3, <2>1 DEF NextBlock
<1>4. CASE Tick
  BY <1>2, <1>4, Records DEF Tick
<1>5. CASE StartService
  BY <1>2, <1>5 DEF StartService, Block
<1>6. CASE RecordStarted
  BY <1>2, <1>6 DEF RecordStarted
<1>7. CASE StartFails
  BY <1>2, <1>7 DEF StartFails
<1>8. CASE StopService
  BY <1>2, <1>8 DEF StopService, Block
<1>9. CASE RecordStopped
  BY <1>2, <1>9 DEF RecordStopped, OptVersion
<1>10. CASE StopIsMissed
  BY <1>2, <1>10 DEF StopIsMissed
<1>11. CASE HandlerFails
  BY <1>2, <1>11 DEF HandlerFails
<1>12. CASE NoService
  BY <1>2, <1>12 DEF NoService
<1>13. CASE Notify
  <2>1. \A x \in SUBSET Blueprints : Len(signals) < SIGNALS =>
          /\ Append(signals, x) \in Seq(SUBSET Blueprints)
          /\ Len(Append(signals, x)) <= SIGNALS
    OBVIOUS
  <2>2. handler.block.blueprints \in SUBSET Blueprints /\ {} \in SUBSET Blueprints
    BY DEF Block
  <2>3. \/ signals' = signals
        \/ \E x \in SUBSET Blueprints : Len(signals) < SIGNALS /\ signals' = Append(signals, x)
    BY <1>13, <2>2 DEF Notify
  <2>4. signals' \in Seq(SUBSET Blueprints) /\ Len(signals') <= SIGNALS
    <3>1. CASE signals' = signals
      BY <3>1
    <3>2. ASSUME NEW x \in SUBSET Blueprints, Len(signals) < SIGNALS, signals' = Append(signals, x)
          PROVE  signals' \in Seq(SUBSET Blueprints) /\ Len(signals') <= SIGNALS
      BY <3>2, <2>1, Zenon
    <3> QED
      BY <3>1, <3>2, <2>3
  <2>5. missed' \subseteq Blueprints
    BY <1>13, <2>2 DEF Notify, Heard, Unheard
  <2> QED
    BY <1>2, <1>13, <2>4, <2>5 DEF Notify, AfterLogs
<1>14. CASE DrainService
  <2>1. Head(swaps) \in Request /\ Tail(swaps) \in Seq(Request) /\ Len(Tail(swaps)) <= SWAPS
    BY <1>14 DEF DrainService
  <2>2. handler' \in Handler /\ HandlerHolds'
    BY <1>14, <2>1 DEF DrainService, DrainAgain
  <2> QED
    BY <1>2, <1>14, <2>1, <2>2 DEF DrainService
<1>15. CASE RecordSwap
  <2>1. handler.swap.service \in Services /\ handler.swap.target \in Versions
    BY <1>15 DEF RecordSwap, Request
  <2> QED
    BY <1>2, <1>15, <2>1 DEF RecordSwap, OptVersion, DrainAgain
<1>16. CASE BlockDone
  BY <1>2, <1>16, Records DEF BlockDone
<1> QED
  BY <1>3, <1>4, <1>5, <1>6, <1>7, <1>8, <1>9, <1>10, <1>11, <1>12, <1>13, <1>14, <1>15, <1>16
     DEF HandlerStep

\* A step of the watcher.
LEMMA TypeWatcher ==
    ASSUME TypeOK, WatcherHolds, WatcherStep
    PROVE  TypeOK' /\ WatcherHolds'
<1> USE UpgradeAssumption
<1>1. UNCHANGED <<effective, policy, acked, scenario, consented, missed, blocks, handlerVars>>
  BY WatcherLeaves
<1>2. ASSUME watcher' \in Watcher, WatcherHolds', running' = running,
             pending' \in [Services -> OptVersion],
             signals' \in Seq(SUBSET Blueprints), Len(signals') <= SIGNALS,
             swaps' \in Seq(Request), Len(swaps') <= SWAPS,
             authz' \in [Services -> LocalAuthz], pins' \in [Services -> Int]
      PROVE  TypeOK' /\ WatcherHolds'
  BY <1>1, <1>2 DEF TypeOK, handlerVars
<1>3. Return \in Watcher /\ Return.at = "next"
  BY Records DEF Return, TypeOK, Watcher
<1>4. watcher' = Return => WatcherHolds'
  BY <1>3 DEF WatcherHolds
<1> USE DEF TypeOK, stateVars, Outside, operatorVars, historyVars
<1>5. CASE Receive
  <2>1. Tail(signals) \in Seq(SUBSET Blueprints) /\ Len(Tail(signals)) <= SIGNALS
    BY <1>5 DEF Receive
  <2>2. watcher' \in Watcher /\ WatcherHolds'
    <3>1. Concerned(Head(signals)) \subseteq Services
      BY DEF Concerned
    <3>2. watcher' = [watcher EXCEPT !.at = "next", !.todo = Concerned(Head(signals))]
      BY <1>5 DEF Receive
    <3> QED
      BY <3>1, <3>2 DEF Watcher, WatcherHolds
  <2> QED
    BY <1>2, <1>5, <2>1, <2>2 DEF Receive
<1>6. CASE Reconciled
  BY <1>2, <1>6 DEF Reconciled, Watcher, WatcherHolds
<1>7. ASSUME NEW s \in Services, ReadPolicy(s) PROVE TypeOK' /\ WatcherHolds'
  <2>1. watcher' \in Watcher /\ WatcherHolds'
    BY <1>7 DEF ReadPolicy, Watcher, WatcherHolds
  <2> QED
    BY <1>2, <1>7, <2>1 DEF ReadPolicy
<1>8. CASE ReadTarget
  <2>1. watcher' \in Watcher /\ WatcherHolds'
    BY <1>3, <1>4, <1>8 DEF ReadTarget, Watcher, WatcherHolds, OptVersion
  <2> QED
    BY <1>2, <1>8, <2>1 DEF ReadTarget
<1>9. CASE ReadFails
  BY <1>2, <1>3, <1>4, <1>9 DEF ReadFails
<1>10. CASE Compare
  <2>1. watcher' \in Watcher /\ WatcherHolds'
    BY <1>3, <1>4, <1>10, ZenonT(60) DEF Compare, Watcher, WatcherHolds
  <2>2. pending' \in [Services -> OptVersion]
    BY <1>10 DEF Compare, SetPending, OptVersion
  <2> QED
    BY <1>2, <1>10, <2>1, <2>2 DEF Compare
<1>11. CASE Decide
  <2>1. watcher' \in Watcher /\ WatcherHolds'
    <3>1. (Decision = "Pin") \in BOOLEAN
      OBVIOUS
    <3> QED
      BY <3>1, <1>3, <1>4, <1>11, ZenonT(60) DEF Decide, Watcher, WatcherHolds
  <2>2. pending' \in [Services -> OptVersion]
    BY <1>11 DEF Decide, SetPending, OptVersion, WatcherHolds
  <2> QED
    BY <1>2, <1>11, <2>1, <2>2 DEF Decide
<1>12. CASE Download
  BY <1>2, <1>12 DEF Download, Watcher, WatcherHolds
<1>13. CASE DownloadFails
  <2>1. watcher' \in Watcher /\ WatcherHolds'
    BY <1>3, <1>4, <1>13 DEF DownloadFails, Watcher, WatcherHolds
  <2> QED
    BY <1>2, <1>13, <2>1 DEF DownloadFails
<1>14. CASE SendSwap
  <2> DEFINE r == [service |-> watcher.service, target |-> watcher.target,
                   policy |-> watcher.policy]
  <2>1. r \in Request
    BY <1>14 DEF SendSwap, WatcherHolds, Request, Watcher
  <2>2. Append(swaps, r) \in Seq(Request) /\ Len(Append(swaps, r)) <= SWAPS
    BY <2>1, <1>14 DEF SendSwap, Room
  <2>3. watcher' \in Watcher /\ WatcherHolds'
    <3>1. CASE watcher.clear_pinned
      <4>1. watcher' = [watcher EXCEPT !.at = "consume", !.todo = @ \ {watcher.service}]
        BY <3>1, <1>14 DEF SendSwap
      <4>2. watcher.service \in Services /\ watcher.target \in Versions
        BY <1>14 DEF SendSwap, WatcherHolds
      <4> QED
        BY <4>1, <4>2 DEF Watcher, WatcherHolds
    <3>2. CASE ~ watcher.clear_pinned
      BY <3>2, <1>3, <1>4, <1>14 DEF SendSwap
    <3> QED
      BY <3>1, <3>2
  <2>4. pins' \in [Services -> Int]
    BY <1>14 DEF SendSwap
  <2> QED
    BY <1>2, <1>14, <2>2, <2>3, <2>4 DEF SendSwap
<1>15. CASE ConsumePin
  <2>1. authz' \in [Services -> LocalAuthz]
    <3>1. watcher.service \in Services
      BY <1>15 DEF ConsumePin, WatcherHolds
    <3>2. Unpinned(authz[watcher.service], watcher.target) \in LocalAuthz
      <4> DEFINE a == authz[watcher.service]
      <4>1. a \in LocalAuthz
        BY <3>1
      <4>2. [a EXCEPT !.pinned = None] \in LocalAuthz
        BY <4>1 DEF LocalAuthz, OptVersion
      <4> QED
        BY <4>1, <4>2 DEF Unpinned
    <3>3. authz' = [authz EXCEPT ![watcher.service] =
                      Unpinned(authz[watcher.service], watcher.target)]
      BY <1>15 DEF ConsumePin
    <3> QED
      BY <3>1, <3>2, <3>3
  <2> QED
    BY <1>2, <1>3, <1>4, <1>15, <2>1 DEF ConsumePin
<1> QED
  BY <1>5, <1>6, <1>7, <1>8, <1>9, <1>10, <1>11, <1>12, <1>13, <1>14, <1>15 DEF WatcherStep

-----------------------------------------------------------------------------
(***************************************************************************)
(* Consent is never forgotten, and requests are only made with it.         *)
(***************************************************************************)
LEMMA ConsentGrows ==
    ASSUME ConsentInv, consented \subseteq consented', UNCHANGED <<handler, swaps, watcher>>
    PROVE  WatcherIsConsented' /\ SwapsAreConsented' /\ UnackedSwapsAreGated'
<1>1. Underway' = Underway
  BY DEF Underway
<1>2. WatcherIsConsented'
  BY DEF ConsentInv, WatcherIsConsented, Consented
<1>3. SwapsAreConsented'
  BY <1>1 DEF ConsentInv, SwapsAreConsented
<1>4. UnackedSwapsAreGated'
  BY <1>1 DEF ConsentInv, UnackedSwapsAreGated
<1> QED
  BY <1>2, <1>3, <1>4

LEMMA ConsentChain ==
    ASSUME TypeOK, ConsentInv, Chain
    PROVE  ConsentInv'
<1>1. /\ handler' = handler /\ swaps' = swaps /\ watcher' = watcher /\ authz' = authz
      /\ consented \subseteq consented'
  BY ChainLeaves DEF handlerVars
<1>2. ConsentIsRecorded'
  <2> SUFFICES ASSUME NEW t \in Services
               PROVE  /\ ByPolicy(t, policy'[t]) \in consented'
                      /\ acked'[t] # None => ByVersion(t, acked'[t], "ack") \in consented'
                      /\ \A v \in Allowed(authz[t]) : ByVersion(t, v, "authz") \in consented'
    BY <1>1 DEF ConsentIsRecorded
  <2>1. /\ ByPolicy(t, policy[t]) \in consented'
        /\ acked[t] # None => ByVersion(t, acked[t], "ack") \in consented'
        /\ \A v \in Allowed(authz[t]) : ByVersion(t, v, "authz") \in consented'
    BY <1>1 DEF ConsentInv, ConsentIsRecorded
  <2>3. ASSUME NEW s \in Services, NEW p \in Policies, PolicySet(s, p)
        PROVE  ByPolicy(t, policy'[t]) \in consented' /\ acked' = acked
    BY <2>1, <2>3 DEF PolicySet, TypeOK
  <2>4. ASSUME NEW s \in Services, NEW v \in Versions, VersionAcked(s, v)
        PROVE  /\ policy' = policy
               /\ acked'[t] # None => ByVersion(t, acked'[t], "ack") \in consented'
    BY <2>1, <2>4 DEF VersionAcked, TypeOK
  <2> QED
    BY <2>1, <2>3, <2>4 DEF Chain, VersionChanges, ServiceActivated, ServiceTerminated
<1> QED
  BY <1>1, <1>2, ConsentGrows DEF ConsentInv

LEMMA ConsentOperator ==
    ASSUME TypeOK, ConsentInv, OperatorStep
    PROVE  ConsentInv'
<1>1. /\ handler' = handler /\ swaps' = swaps /\ watcher' = watcher
      /\ policy' = policy /\ acked' = acked /\ consented \subseteq consented'
  BY OperatorLeaves DEF handlerVars, chainVars
<1>2. ASSUME NEW s \in Services, NEW a, NEW c, Operator(s, a, c)
      PROVE  ConsentIsRecorded'
  <2>1. authz' = [authz EXCEPT ![s] = a]
        /\ consented' = consented \cup {ByVersion(s, v, "authz") : v \in Allowed(a)}
    BY <1>2 DEF Operator
  <2>2. ASSUME NEW t \in Services, NEW v \in Allowed(authz'[t])
        PROVE  ByVersion(t, v, "authz") \in consented'
    BY <2>1, <2>2 DEF ConsentInv, ConsentIsRecorded, TypeOK
  <2> QED
    BY <1>1, <2>2 DEF ConsentInv, ConsentIsRecorded
<1>3. ConsentIsRecorded'
  BY <1>2 DEF OperatorStep, set_pin, set_whitelist, add_skip, clear_skip
<1> QED
  BY <1>1, <1>3, ConsentGrows DEF ConsentInv

LEMMA ConsentHandler ==
    ASSUME TypeOK, ConsentInv, HandlerStep
    PROVE  ConsentInv'
<1>1. UNCHANGED <<policy, acked, authz, consented, watcher>>
  BY HandlerLeaves
<1>2. ConsentIsRecorded' /\ WatcherIsConsented'
  BY <1>1 DEF ConsentInv, ConsentIsRecorded, WatcherIsConsented, Consented
<1>3. Underway' \subseteq Underway
  <2> USE DEF TypeOK, Handler
  <2>1. CASE DrainService
    <3>1. \A i \in DOMAIN Tail(swaps) : i + 1 \in DOMAIN swaps /\ Tail(swaps)[i] = swaps[i + 1]
      BY <2>1 DEF DrainService
    <3>2. Head(swaps) = swaps[1] /\ 1 \in DOMAIN swaps
      BY <2>1 DEF DrainService
    <3>3. swaps' = Tail(swaps) /\ handler'.swap \in {handler.swap, Head(swaps)}
      BY <2>1 DEF DrainService, HandlerAt
    <3> QED
      BY <3>1, <3>2, <3>3 DEF Underway
  <2>2. CASE RecordSwap
    <3>1. swaps' = swaps /\ handler'.swap = None
      BY <2>2 DEF RecordSwap
    <3> QED
      BY <3>1 DEF Underway
  <2>3. ASSUME swaps' = swaps, handler'.swap = handler.swap
        PROVE  Underway' \subseteq Underway
    BY <2>3 DEF Underway
  <2> QED
    BY <2>1, <2>2, <2>3 DEF HandlerStep, HandlerAt, NextBlock, Tick, StartService, RecordStarted,
       StartFails, StopService, RecordStopped, StopIsMissed, HandlerFails, NoService, Notify, BlockDone
<1>5. SwapsAreConsented' /\ UnackedSwapsAreGated'
  BY <1>1, <1>3 DEF ConsentInv, SwapsAreConsented, UnackedSwapsAreGated
<1> QED
  BY <1>2, <1>5 DEF ConsentInv

\* reconcile_one only goes on to download what the policy it has read allows.
LEMMA DecisionIsConsented ==
    ASSUME TypeOK, WatcherHolds, ConsentInv, watcher.at = "decide", Decision \in {"Pin", "Swap"}
    PROVE  Consented(watcher.service, watcher.target, watcher.policy)
<1> DEFINE s == watcher.service
           v == watcher.target
<1> USE UpgradeAssumption
<1>1. s \in Services /\ v \in Versions /\ v # None /\ ByPolicy(s, watcher.policy) \in consented
  BY DEF WatcherHolds, ConsentInv, WatcherIsConsented
<1>2. CASE watcher.policy = "Manual"
  <2>1. decide(authz[s], v) \in {"Pin", "Swap"} /\ AttestationPasses(v)
    BY <1>2 DEF Decision
  <2>2. v \in Allowed(authz[s])
    BY <2>1, <1>1 DEF decide, Allowed
  <2>3. ByVersion(s, v, "authz") \in consented
    BY <2>2, <1>1 DEF ConsentInv, ConsentIsRecorded
  <2> QED
    BY <1>1, <1>2, <2>1, <2>3 DEF Consented, AttestationPasses, Gated
<1>3. CASE watcher.policy = "Approve"
  <2>1. acked[s] = v
    BY <1>3 DEF Decision
  <2>2. ByVersion(s, v, "ack") \in consented
    BY <2>1, <1>1 DEF ConsentInv, ConsentIsRecorded
  <2> QED
    BY <1>1, <1>3, <2>2 DEF Consented
<1>4. CASE watcher.policy = "Auto"
  <2>1. AttestationPasses(v)
    BY <1>4 DEF Decision
  <2> QED
    BY <1>1, <1>4, <2>1 DEF Consented, AttestationPasses, Gated
<1> QED
  BY <1>2, <1>3, <1>4 DEF TypeOK, Watcher, Policies

LEMMA ConsentWatcher ==
    ASSUME TypeOK, WatcherHolds, ConsentInv, WatcherStep
    PROVE  ConsentInv'
<1>1. UNCHANGED <<policy, acked, consented, handler>>
  BY WatcherLeaves DEF handlerVars
<1>2. ConsentIsRecorded'
  <2>1. CASE ConsumePin
    <3>1. ASSUME NEW s \in Services PROVE Allowed(authz'[s]) \subseteq Allowed(authz[s])
      <4>1. authz'[s] = IF s = watcher.service THEN Unpinned(authz[s], watcher.target) ELSE authz[s]
        BY <2>1, <3>1 DEF ConsumePin, TypeOK
      <4>2. Allowed(Unpinned(authz[s], watcher.target)) \subseteq Allowed(authz[s])
        <5> DEFINE a == authz[s]
        <5>1. a \in LocalAuthz
          BY <3>1 DEF TypeOK
        <5>2. Allowed([a EXCEPT !.pinned = None]) \subseteq Allowed(a)
          BY <5>1 DEF Allowed, LocalAuthz
        <5> QED
          BY <5>2 DEF Unpinned
      <4> QED
        BY <4>1, <4>2
    <3> QED
      BY <1>1, <3>1 DEF ConsentInv, ConsentIsRecorded
  <2>2. CASE authz' = authz
    BY <1>1, <2>2 DEF ConsentInv, ConsentIsRecorded
  <2>3. authz' = authz \/ ConsumePin
    <3> USE DEF Outside, operatorVars
    <3>1. CASE Receive
      BY <3>1 DEF Receive
    <3>2. ASSUME NEW s \in Services, ReadPolicy(s) PROVE authz' = authz
      BY <3>2 DEF ReadPolicy
    <3>3. CASE Reconciled \/ ReadTarget \/ ReadFails \/ Compare \/ Decide
      BY <3>3 DEF Reconciled, ReadTarget, ReadFails, Compare, Decide
    <3>4. CASE Download \/ DownloadFails \/ SendSwap
      BY <3>4 DEF Download, DownloadFails, SendSwap
    <3> QED
      BY <3>1, <3>2, <3>3, <3>4 DEF WatcherStep
  <2> QED
    BY <2>1, <2>2, <2>3
<1>3. watcher'.at \in {"idle", "next", "consume"} => WatcherIsConsented'
  BY DEF WatcherIsConsented
<1>4. Return.at = "next"
  BY DEF Return, TypeOK, Watcher
<1>5. ASSUME swaps' = swaps PROVE SwapsAreConsented' /\ UnackedSwapsAreGated'
  BY <1>1, <1>5 DEF ConsentInv, SwapsAreConsented, UnackedSwapsAreGated, Underway
<1> USE DEF ConsentInv, TypeOK, Watcher
<1>6. CASE Receive
  BY <1>2, <1>3, <1>5, <1>6 DEF Receive
<1>7. CASE Reconciled
  BY <1>2, <1>3, <1>5, <1>7 DEF Reconciled
<1>8. ASSUME NEW s \in Services, ReadPolicy(s) PROVE ConsentInv'
  <2>1. WatcherIsConsented'
    BY <1>1, <1>8 DEF ReadPolicy, WatcherIsConsented, ConsentIsRecorded
  <2> QED
    BY <1>2, <1>5, <1>8, <2>1 DEF ReadPolicy
<1>9. CASE ReadTarget
  <2>1. WatcherIsConsented'
    BY <1>1, <1>3, <1>4, <1>9 DEF ReadTarget, WatcherIsConsented
  <2> QED
    BY <1>2, <1>5, <1>9, <2>1 DEF ReadTarget
<1>10. CASE ReadFails
  BY <1>2, <1>3, <1>4, <1>5, <1>10 DEF ReadFails
<1>11. CASE Compare
  <2>1. WatcherIsConsented'
    BY <1>1, <1>3, <1>4, <1>11 DEF Compare, WatcherIsConsented
  <2> QED
    BY <1>2, <1>5, <1>11, <2>1 DEF Compare
<1>12. CASE Decide
  <2>1. CASE Decision \in {"Pin", "Swap"}
    <3>1. Consented(watcher.service, watcher.target, watcher.policy)
      BY <1>12, <2>1, DecisionIsConsented DEF Decide
    <3>2. watcher' = [watcher EXCEPT !.at = "download", !.clear_pinned = (Decision = "Pin")]
      BY <1>12, <2>1 DEF Decide
    <3>3. WatcherIsConsented'
      BY <1>1, <3>1, <3>2 DEF WatcherIsConsented, Consented
    <3> QED
      BY <1>2, <1>5, <1>12, <3>3 DEF Decide
  <2>2. CASE Decision \notin {"Pin", "Swap"}
    BY <1>2, <1>3, <1>4, <1>5, <1>12, <2>2 DEF Decide
  <2> QED
    BY <2>1, <2>2
<1>13. CASE Download
  <2>1. WatcherIsConsented'
    BY <1>1, <1>13 DEF Download, WatcherIsConsented, Consented
  <2> QED
    BY <1>2, <1>5, <1>13, <2>1 DEF Download
<1>14. CASE DownloadFails
  <2>1. watcher'.at \in {"next", "consume"}
    BY <1>4, <1>14 DEF DownloadFails
  <2> QED
    BY <1>2, <1>3, <1>5, <1>14, <2>1 DEF DownloadFails
<1>15. CASE SendSwap
  <2> DEFINE r == [service |-> watcher.service, target |-> watcher.target,
                   policy |-> watcher.policy]
  <2>1. watcher'.at \in {"next", "consume"}
    BY <1>4, <1>15 DEF SendSwap
  <2>2. swaps' = Append(swaps, r) /\ Consented(r.service, r.target, r.policy)
    BY <1>15 DEF SendSwap, WatcherIsConsented
  <2>3. \A x \in Underway' : x \in Underway \/ x = r
    BY <1>1, <2>2 DEF Underway
  <2>4. SwapsAreConsented'
    BY <1>1, <2>2, <2>3 DEF SwapsAreConsented, Consented
  <2>5. UnackedSwapsAreGated'
    BY <2>2, <2>3 DEF UnackedSwapsAreGated, Consented
  <2> QED
    BY <1>2, <1>3, <2>1, <2>4, <2>5
<1>16. CASE ConsumePin
  BY <1>2, <1>3, <1>4, <1>5, <1>16 DEF ConsumePin
<1> QED
  BY <1>6, <1>7, <1>8, <1>9, <1>10, <1>11, <1>12, <1>13, <1>14, <1>15, <1>16 DEF WatcherStep

-----------------------------------------------------------------------------
(***************************************************************************)
(* Pins.                                                                   *)
(***************************************************************************)
LEMMA PinsOperator ==
    ASSUME TypeOK, PinsAreCounted, OperatorStep
    PROVE  PinsAreCounted'
<1>1. watcher' = watcher
  BY OperatorLeaves
<1>2. ASSUME NEW s \in Services, NEW v \in OptVersion, set_pin(s, v)
      PROVE  PinsAreCounted'
  <2>1. authz' = [authz EXCEPT ![s] = [authz[s] EXCEPT !.pinned = v]]
    BY <1>2 DEF set_pin, Operator
  <2>2. pins' = [pins EXCEPT ![s] = IF v = None THEN @ ELSE @ + 1]
    BY <1>2 DEF set_pin
  <2>3. ASSUME NEW t \in Services
        PROVE  /\ t # s => pins'[t] = pins[t] /\ authz'[t] = authz[t]
               /\ authz'[s].pinned = v
               /\ v = None => pins'[s] = pins[s]
               /\ v # None => pins'[s] = pins[s] + 1
               /\ pins[t] \in Int
    BY <2>1, <2>2, <2>3 DEF TypeOK, LocalAuthz
  <2> QED
    BY <1>1, <2>3 DEF PinsAreCounted, PinInHand, PinUsedUp
<1>3. ASSUME NEW s \in Services, NEW a, NEW c, Operator(s, a, c), a.pinned = authz[s].pinned,
             pins' = pins
      PROVE  PinsAreCounted'
  <2>1. \A t \in Services : authz'[t].pinned = authz[t].pinned
    BY <1>3 DEF Operator, TypeOK
  <2> QED
    BY <1>1, <1>3, <2>1 DEF PinsAreCounted, PinInHand, PinUsedUp
<1>4. ASSUME NEW s \in Services, NEW W \in SUBSET Versions, set_whitelist(s, W)
      PROVE  PinsAreCounted'
  BY <1>3, <1>4 DEF set_whitelist, TypeOK, LocalAuthz
<1>5. ASSUME NEW s \in Services, NEW v \in Versions, add_skip(s, v) \/ clear_skip(s, v)
      PROVE  PinsAreCounted'
  BY <1>3, <1>5 DEF add_skip, clear_skip, TypeOK, LocalAuthz
<1> QED
  BY <1>2, <1>4, <1>5 DEF OperatorStep

LEMMA PinsWatcher ==
    ASSUME TypeOK, WatcherHolds, PinsAreCounted, WatcherStep
    PROVE  PinsAreCounted'
<1> USE UpgradeAssumption
<1>1. Return.at = "next"
  BY DEF Return, TypeOK, Watcher
\* Steps that leave pins and authorizations alone.
<1>2. ASSUME pins' = pins, authz' = authz, watcher.at # "consume",
             watcher'.at \in {"download", "send"} /\ watcher'.clear_pinned =>
               \A s \in Services : watcher'.service = s =>
                  PinInHand(s) /\ watcher'.target = watcher.target
      PROVE  PinsAreCounted'
  BY <1>2 DEF PinsAreCounted, PinInHand, PinUsedUp
<1> USE DEF TypeOK, Watcher, Outside, historyVars, operatorVars
<1>3. CASE Receive \/ Reconciled
  BY <1>2, <1>3 DEF Receive, Reconciled
<1>4. ASSUME NEW s \in Services, ReadPolicy(s) PROVE PinsAreCounted'
  BY <1>2, <1>4 DEF ReadPolicy
<1>5. CASE ReadTarget \/ ReadFails \/ Compare
  <2>1. CASE ReadTarget
    BY <1>1, <1>2, <2>1, SMTT(30) DEF ReadTarget
  <2>2. CASE ReadFails
    BY <1>1, <1>2, <2>2, SMTT(30) DEF ReadFails
  <2>3. CASE Compare
    BY <1>1, <1>2, <2>3, SMTT(30) DEF Compare
  <2> QED
    BY <1>5, <2>1, <2>2, <2>3
<1>6. CASE Decide
  <2>1. CASE Decision = "Pin"
    <3>1. authz[watcher.service].pinned = watcher.target
      <4>1. watcher.policy = "Manual" /\ decide(authz[watcher.service], watcher.target) = "Pin"
        BY <2>1 DEF Decision, Policies
      <4> QED
        BY <4>1 DEF decide
    <3>2. watcher' = [watcher EXCEPT !.at = "download", !.clear_pinned = TRUE]
      BY <1>6, <2>1 DEF Decide
    <3>3. watcher.service \in Services /\ watcher.target # None
      BY <1>6 DEF Decide, WatcherHolds
    <3>4. pins' = pins /\ authz' = authz /\ watcher.at = "decide"
      BY <1>6 DEF Decide
    <3> QED
      BY <3>1, <3>2, <3>3, <3>4 DEF PinsAreCounted, PinInHand, PinUsedUp
  <2>2. CASE Decision # "Pin"
    <3>1. watcher'.at = "next" \/ watcher'.clear_pinned = FALSE
      BY <1>1, <1>6, <2>2 DEF Decide
    <3> QED
      BY <1>2, <1>6, <3>1 DEF Decide
  <2> QED
    BY <2>1, <2>2
<1>7. CASE Download
  BY <1>2, <1>7 DEF Download, PinInHand
<1>8. CASE DownloadFails
  <2>1. watcher'.at \in {"next", "consume"}
    BY <1>1, <1>8 DEF DownloadFails
  <2> QED
    BY <1>2, <1>8, <2>1 DEF DownloadFails
<1>9. CASE SendSwap
  <2>1. CASE watcher.clear_pinned
    <3>1. watcher' = [watcher EXCEPT !.at = "consume", !.todo = @ \ {watcher.service}]
          /\ pins' = [pins EXCEPT ![watcher.service] = @ - 1]
      BY <1>9, <2>1 DEF SendSwap
    <3>2. PinInHand(watcher.service) /\ watcher.service \in Services /\ authz' = authz
      BY <1>9, <2>1 DEF SendSwap, PinInHand, WatcherHolds
    <3>3. ASSUME NEW s \in Services
          PROVE  /\ pins[s] \in Int
                 /\ s = watcher.service => pins'[s] = pins[s] - 1
                 /\ s # watcher.service => pins'[s] = pins[s]
      BY <3>1, <3>3
    <3>4. watcher'.at = "consume" /\ watcher'.service = watcher.service
          /\ watcher'.target = watcher.target
      BY <3>1
    <3>5. watcher.at = "send"
      BY <1>9 DEF SendSwap
    <3> QED
      <4>1. ASSUME NEW s \in Services, s # watcher.service
            PROVE  /\ ~ PinUsedUp(s) /\ ~ PinUsedUp(s)' /\ ~ PinInHand(s)' /\ pins'[s] = pins[s]
                   /\ authz'[s] = authz[s]
        BY <4>1, <3>2, <3>3, <3>4, <3>5 DEF PinInHand, PinUsedUp
      <4>2. ASSUME NEW s \in Services, s = watcher.service
            PROVE  /\ ~ PinInHand(s)' /\ pins'[s] >= 0
                   /\ authz'[s].pinned # None /\ ~ PinUsedUp(s)' => pins'[s] >= 1
        <5>1. ~ PinInHand(s)' /\ PinInHand(s)
          BY <4>2, <3>2, <3>4 DEF PinInHand
        <5>2. PinUsedUp(s)' <=> authz[s].pinned = watcher.target
          BY <4>2, <3>2, <3>4 DEF PinUsedUp
        <5> QED
          BY <4>2, <5>1, <5>2, <3>2, <3>3 DEF PinsAreCounted
      <4> QED
        BY <4>1, <4>2 DEF PinsAreCounted
  <2>2. CASE ~ watcher.clear_pinned
    BY <1>1, <1>2, <1>9, <2>2 DEF SendSwap
  <2> QED
    BY <2>1, <2>2
<1>10. CASE ConsumePin
  <2>1. watcher'.at = "next" /\ pins' = pins
    BY <1>1, <1>10 DEF ConsumePin
  <2>2. ASSUME NEW s \in Services
        PROVE  authz'[s].pinned # None => authz'[s].pinned = authz[s].pinned /\ ~ PinUsedUp(s)
    <3>1. CASE s = watcher.service
      <4>1. authz'[s] = Unpinned(authz[s], watcher.target)
        BY <1>10, <3>1 DEF ConsumePin
      <4>2. authz[s] \in LocalAuthz
        BY <2>2
      <4> QED
        BY <4>1, <4>2 DEF Unpinned, PinUsedUp, LocalAuthz
    <3>2. CASE s # watcher.service
      BY <1>10, <3>2 DEF ConsumePin, PinUsedUp
    <3> QED
      BY <3>1, <3>2
  <2> QED
    BY <2>1, <2>2 DEF PinsAreCounted, PinInHand, PinUsedUp
<1> QED
  BY <1>3, <1>4, <1>5, <1>6, <1>7, <1>8, <1>9, <1>10 DEF WatcherStep

-----------------------------------------------------------------------------
(***************************************************************************)
(* The two channels.                                                       *)
(***************************************************************************)
LEMMA TodoIsFinite ==
    ASSUME TypeOK
    PROVE  /\ IsFiniteSet(watcher.todo)
           /\ Cardinality(watcher.todo) \in Nat
           /\ Cardinality(Services) \in Nat
           /\ Cardinality(watcher.todo) <= Cardinality(Services)
BY UpgradeAssumption, FS_Subset, FS_CardinalityType DEF TypeOK, Watcher

LEMMA RoomHandler ==
    ASSUME TypeOK, OneReconcile, HandlerStep
    PROVE  OneReconcile'
<1> DEFINE Busy == {"idle", "logs", "started", "stopped", "notify"}
<1>1. watcher' = watcher
  BY HandlerLeaves
<1>2. ASSUME handler.at \in Busy, signals' = signals, swaps' = swaps PROVE OneReconcile'
  BY <1>1, <1>2 DEF OneReconcile
<1> USE DEF TypeOK, Handler, HandlerAt
<1>3. CASE BlockDone
  BY <1>1, <1>3, TodoIsFinite DEF BlockDone, OneReconcile
<1>4. CASE DrainService \/ RecordSwap
  <2>1. handler'.at \in {"drain", "drained"}
    BY <1>4 DEF DrainService, RecordSwap, DrainAgain
  <2> QED
    BY <2>1 DEF OneReconcile
<1>5. CASE Notify \/ Tick
  <2>1. handler'.at = "drain"
    BY <1>5 DEF Notify, Tick, AfterLogs
  <2> QED
    BY <2>1 DEF OneReconcile
<1> QED
  BY <1>2, <1>3, <1>4, <1>5 DEF HandlerStep, NextBlock, StartService, RecordStarted, StartFails,
     StopService, RecordStopped, StopIsMissed, HandlerFails, NoService

LEMMA RoomWatcher ==
    ASSUME TypeOK, WatcherHolds, OneReconcile, WatcherStep
    PROVE  OneReconcile'
<1> USE UpgradeAssumption
<1>1. handler' = handler
  BY WatcherLeaves DEF handlerVars
<1>2. IsFiniteSet(watcher.todo) /\ Cardinality(watcher.todo) \in Nat
      /\ Len(swaps) \in Nat /\ Len(signals) \in Nat /\ Cardinality(Services) \in Nat
  BY TodoIsFinite DEF TypeOK
<1>3. ASSUME signals' = signals, swaps' = swaps, watcher'.todo \subseteq watcher.todo
      PROVE  OneReconcile'
  <2>1. Cardinality(watcher'.todo) \in Nat /\ Cardinality(watcher'.todo) <= Cardinality(watcher.todo)
    BY <1>2, <1>3, FS_Subset, FS_CardinalityType
  <2> QED
    BY <1>1, <1>2, <1>3, <2>1 DEF OneReconcile
<1>4. Return.todo = watcher.todo \ {watcher.service}
  BY DEF Return, TypeOK, Watcher
<1> USE DEF TypeOK, Watcher
<1>5. CASE Receive
  <2>1. signals' = Tail(signals) /\ signals # <<>>
    BY <1>5 DEF Receive
  <2>2. Len(signals') < SIGNALS
    BY <2>1
  <2> QED
    BY <2>2 DEF OneReconcile
<1>6. CASE SendSwap
  <2>1. watcher'.todo = watcher.todo \ {watcher.service}
    BY <1>4, <1>6 DEF SendSwap
  <2>2. watcher.service \in watcher.todo
    BY <1>6 DEF SendSwap, WatcherHolds
  <2>3. Cardinality(watcher'.todo) = Cardinality(watcher.todo) - 1
    <3> HIDE DEF TypeOK, Watcher
    <3>1. Cardinality(watcher.todo \ {watcher.service}) = Cardinality(watcher.todo) - 1
      <4>1. \A S, x : IsFiniteSet(S) /\ x \in S => Cardinality(S \ {x}) = Cardinality(S) - 1
        BY FS_RemoveElement
      <4> QED
        BY <4>1, <1>2, <2>2
    <3> QED
      BY <3>1, <2>1
  <2>4. Len(swaps') = Len(swaps) + 1 /\ signals' = signals
    BY <1>6 DEF SendSwap
  <2> QED
    BY <1>1, <1>2, <2>3, <2>4 DEF OneReconcile
<1>7. CASE Reconciled \/ ReadTarget \/ ReadFails \/ Compare
  BY <1>3, <1>4, <1>7 DEF Reconciled, ReadTarget, ReadFails, Compare
<1>8. CASE Decide \/ Download \/ DownloadFails \/ ConsumePin
  BY <1>3, <1>4, <1>8 DEF Decide, Download, DownloadFails, ConsumePin
<1>9. ASSUME NEW s \in Services, ReadPolicy(s) PROVE OneReconcile'
  BY <1>3, <1>9 DEF ReadPolicy
<1> QED
  BY <1>5, <1>6, <1>7, <1>8, <1>9 DEF WatcherStep

-----------------------------------------------------------------------------
LEMMA InvInit == Init => IInv
<1> SUFFICES ASSUME Init PROVE IInv
  OBVIOUS
<1> USE UpgradeAssumption
<1>1. TypeOK
  BY TypeInit
<1>2. handler.at = "idle" /\ handler.swap = None /\ watcher.at = "idle"
  BY DEF Init
<1>3. HandlerHolds /\ WatcherHolds /\ WatcherIsConsented
  BY <1>2 DEF HandlerHolds, WatcherHolds, WatcherIsConsented
<1>4. SwapsAreConsented /\ UnackedSwapsAreGated
  <2>1. swaps = <<>>
    BY DEF Init
  <2> QED
    BY <1>2, <2>1 DEF SwapsAreConsented, UnackedSwapsAreGated, Underway
<1>5. ConsentIsRecorded
  BY DEF Init, ConsentIsRecorded, Allowed
<1>6. PinsAreCounted
  BY <1>2 DEF Init, PinsAreCounted, PinInHand
<1>7. OneReconcile
  BY DEF Init, OneReconcile
<1> QED
  BY <1>1, <1>3, <1>4, <1>5, <1>6, <1>7 DEF IInv, ConsentInv

LEMMA InvStep == IInv /\ [Next]_vars => IInv'
<1> SUFFICES ASSUME IInv, [Next]_vars PROVE IInv'
  OBVIOUS
<1> USE DEF IInv
<1>1. CASE Chain
  <2>1. /\ handler' = handler /\ watcher' = watcher /\ authz' = authz /\ pins' = pins
        /\ signals' = signals /\ swaps' = swaps
    BY <1>1, ChainLeaves DEF handlerVars
  <2>2. HandlerHolds' /\ WatcherHolds' /\ PinsAreCounted' /\ OneReconcile'
    BY <2>1 DEF HandlerHolds, WatcherHolds, PinsAreCounted, PinInHand, PinUsedUp, OneReconcile
  <2> QED
    BY <1>1, <2>2, TypeChain, ConsentChain
<1>2. CASE OperatorStep
  <2>1. handler' = handler /\ watcher' = watcher /\ signals' = signals /\ swaps' = swaps
    BY <1>2, OperatorLeaves DEF handlerVars
  <2>2. HandlerHolds' /\ WatcherHolds' /\ OneReconcile'
    BY <2>1 DEF HandlerHolds, WatcherHolds, OneReconcile
  <2> QED
    BY <1>2, <2>2, TypeOperator, ConsentOperator, PinsOperator
<1>3. CASE HandlerStep
  <2>1. watcher' = watcher /\ authz' = authz /\ pins' = pins
    BY <1>3, HandlerLeaves
  <2>2. WatcherHolds' /\ PinsAreCounted'
    BY <2>1 DEF WatcherHolds, PinsAreCounted, PinInHand, PinUsedUp
  <2> QED
    BY <1>3, <2>2, TypeHandler, ConsentHandler, RoomHandler
<1>4. CASE WatcherStep
  <2>1. handler' = handler
    BY <1>4, WatcherLeaves DEF handlerVars
  <2>2. HandlerHolds'
    BY <2>1 DEF HandlerHolds
  <2> QED
    BY <1>4, <2>2, TypeWatcher, ConsentWatcher, PinsWatcher, RoomWatcher
<1>5. CASE UNCHANGED vars
  <2> USE <1>5 DEF vars, chainVars, handlerVars, stateVars, operatorVars, historyVars
  <2>1. TypeOK'
    BY DEF TypeOK
  <2>2. HandlerHolds' /\ WatcherHolds'
    BY DEF HandlerHolds, WatcherHolds
  <2>3. ConsentInv'
    BY DEF ConsentInv, ConsentIsRecorded, WatcherIsConsented, Consented, SwapsAreConsented,
           UnackedSwapsAreGated, Underway
  <2>4. PinsAreCounted' /\ OneReconcile'
    BY DEF PinsAreCounted, PinInHand, PinUsedUp, OneReconcile
  <2> QED
    BY <2>1, <2>2, <2>3, <2>4
<1> QED
  BY <1>1, <1>2, <1>3, <1>4, <1>5 DEF Next, Quiet

\* Every part of IInv holds in every reachable state of the pipeline.
THEOREM Invariance == Spec => []IInv
<1>1. Init => IInv
  BY InvInit
<1>2. IInv /\ [Next]_vars => IInv'
  BY InvStep
<1> QED
  BY <1>1, <1>2, PTL DEF Spec

\* Both channels stay within their capacity and every variable has its type.
THEOREM TypeCorrect == Spec => []TypeOK
<1>1. IInv => TypeOK
  BY DEF IInv
<1> QED
  BY <1>1, Invariance, PTL

(***************************************************************************)
(* With no more services than the swap channel has room for, the event     *)
(* handler in notify_reconcile_all and the watcher in execute_swap never   *)
(* wait for each other.                                                    *)
(***************************************************************************)
THEOREM NoDeadlock == Spec => []NobodyWaitsForever
<1>1. IInv => NobodyWaitsForever
  <2> SUFFICES ASSUME IInv, Cardinality(Services) <= SWAPS, HandlerWaits, WatcherWaits
               PROVE  FALSE
    BY DEF NobodyWaitsForever
  <2>1. watcher.service \in watcher.todo
    BY DEF IInv, WatcherHolds, WatcherWaits
  <2>2. IsFiniteSet(watcher.todo) /\ Cardinality(watcher.todo) \in Nat
        /\ Cardinality(Services) \in Nat
    BY TodoIsFinite DEF IInv
  <2>3. Cardinality(watcher.todo) # 0
    BY <2>1, <2>2, FS_EmptySet
  <2>4. Len(swaps) + Cardinality(watcher.todo) <= Cardinality(Services)
    BY UpgradeAssumption DEF IInv, OneReconcile, HandlerWaits
  <2> QED
    BY <2>2, <2>3, <2>4, UpgradeAssumption DEF WatcherWaits
<1> QED
  BY <1>1, Invariance, PTL

(***************************************************************************)
(* No service is drained for a version its policy did not let in.          *)
(***************************************************************************)
THEOREM OnlyConsentedSwaps == Spec => []SwapsAreConsented
<1>1. IInv => SwapsAreConsented
  BY DEF IInv, ConsentInv
<1> QED
  BY <1>1, Invariance, PTL

(***************************************************************************)
(* Whatever is drained by policy Auto or on a local authorization has      *)
(* passed the attestation gate.                                            *)
(***************************************************************************)
THEOREM UnackedSwapsAlwaysGated == Spec => []UnackedSwapsAreGated
<1>1. IInv => UnackedSwapsAreGated
  BY DEF IInv, ConsentInv
<1> QED
  BY <1>1, Invariance, PTL

(***************************************************************************)
(* However the operator changes pins while the watcher works, no pin leads *)
(* to two swaps.                                                           *)
(***************************************************************************)
THEOREM PinsAreOneShot == Spec => []PinsFireOnce
<1>1. IInv => PinsFireOnce
  BY DEF IInv, PinsAreCounted, PinsFireOnce
<1> QED
  BY <1>1, Invariance, PTL
=============================================================================
