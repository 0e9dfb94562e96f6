--------------------------- MODULE UpgradePipeline --------------------------
(***************************************************************************)
(* Binary upgrades in crates/manager: the protocol event handler starts    *)
(* and stops services as the chain says and tells the upgrade watcher of   *)
(* blocks with binary-version events; the watcher compares every service   *)
(* with the version the chain wants, and sends what it may swap to the     *)
(* handler, which drains the old service.  The two tasks share             *)
(* TrackedServices and UpgradeState, and wait for each other on two        *)
(* bounded channels.                                                       *)
(*                                                                         *)
(* Left out: the cached policies and the history, which are only shown to  *)
(* the operator, and the files of LocalAuthzStore.                         *)
(***************************************************************************)
EXTENDS Integers, Sequences, FiniteSets

CONSTANTS
    Services,
    Blueprints,
    BlueprintOf,        \* [Services -> Blueprints]
    Versions,
    Sha,                \* sha256 of a version
    Attested,           \* the versions with an attestation hash
    allow_unchecked,    \* --allow-unchecked-attestations
    SIGNALS,            \* capacity of the watcher's channel, 64
    SWAPS,              \* capacity of the swap channel, 32
    Scenarios,          \* bound: what the environment may do, see Scenario
    None

ASSUME UpgradeAssumption ==
    /\ IsFiniteSet(Services)
    /\ BlueprintOf \in [Services -> Blueprints]
    /\ Attested \subseteq Versions
    /\ allow_unchecked \in BOOLEAN
    /\ SIGNALS \in Nat \ {0} /\ SWAPS \in Nat \ {0}
    /\ None \notin Versions /\ None \notin Services

VARIABLES
    effective, policy, acked,   \* per service, what the contract says
    blocks,                     \* blocks the handler has not seen yet
    handler,                    \* where handle_event is, and in which block
    active,                     \* active_blueprints
    tracked,                    \* TrackedServices
    running, pending,           \* UpgradeState, per service
    signals, swaps,             \* the two channels
    watcher,                    \* where reconcile is
    authz,                      \* LocalAuthz, per service
    scenario,                   \* the bounds, chosen at the start
    block_count, acts, faults,  \* what they count
    consented,                  \* history: what was allowed at some time
    pins,                       \* history: pins set and not yet used, per service
    missed                      \* history: blueprints whose last event nobody will look at

chainVars == <<effective, policy, acked, blocks, block_count, scenario>>
handlerVars == <<handler, active, tracked>>
stateVars == <<running, pending>>
operatorVars == <<authz, acts>>
historyVars == <<consented, pins, missed>>
vars == <<chainVars, handlerVars, stateVars, signals, swaps, watcher, operatorVars, faults,
          historyVars>>

-----------------------------------------------------------------------------
Policies == {"Manual", "Approve", "Auto"}

(***************************************************************************)
(* The policies and services to start with, the changes of the contract    *)
(* and of LocalAuthz that may happen, and how many blocks with events,     *)
(* acts of the operator and failures there are.                            *)
(***************************************************************************)
IsScenario(sc) ==
    /\ sc.policy \in [Services -> Policies]
    /\ sc.active \subseteq Services
    /\ sc.max_blocks \in Nat /\ sc.max_acts \in Nat /\ sc.max_faults \in Nat

ASSUME ScenarioAssumption == \A sc \in Scenarios : IsScenario(sc)

OptVersion == Versions \cup {None}

\* A block: the service it starts or stops, the blueprints with a version event,
\* and whether a policy was set or a version acknowledged.
Block == [start : Services \cup {None}, stop : Services \cup {None},
          blueprints : SUBSET Blueprints, policy_changed : BOOLEAN]

NoLogs == [start |-> None, stop |-> None, blueprints |-> {}, policy_changed |-> FALSE]

Request == [service : Services, target : Versions, policy : Policies]

LocalAuthz == [whitelisted : SUBSET Versions, pinned : OptVersion, skipped : SUBSET Versions]

Handler == [at : {"idle", "logs", "started", "stopped", "notify", "drain", "drained", "ended"},
            block : Block, swap : Request \cup {None}]

Watcher == [at : {"idle", "next", "target", "compare", "decide", "download", "send", "consume"},
            todo : SUBSET Services, service : Services \cup {None}, policy : Policies,
            target : OptVersion, clear_pinned : BOOLEAN]

\* What allows a swap: a policy the service had, an ack, a local authorization.
Consent == [service : Services, policy : Policies \cup {None}, version : OptVersion,
            by : {"policy", "ack", "authz"}]

TypeOK ==
    /\ effective \in [Services -> OptVersion]
    /\ policy \in [Services -> Policies]
    /\ acked \in [Services -> OptVersion]
    /\ blocks \in Seq(Block)
    /\ handler \in Handler
    /\ active \subseteq Services
    /\ tracked \subseteq Services
    /\ running \in [Services -> OptVersion]
    /\ pending \in [Services -> OptVersion]
    /\ signals \in Seq(SUBSET Blueprints)
    /\ swaps \in Seq(Request)
    /\ watcher \in Watcher
    /\ authz \in [Services -> LocalAuthz]
    /\ Len(signals) <= SIGNALS
    /\ Len(swaps) <= SWAPS
    /\ consented \subseteq Consent
    /\ pins \in [Services -> Int]
    /\ missed \subseteq Blueprints
    /\ scenario \in Scenarios

ByPolicy(s, p) == [service |-> s, policy |-> p, version |-> None, by |-> "policy"]
ByVersion(s, v, how) == [service |-> s, policy |-> None, version |-> v, by |-> how]

Init ==
    /\ scenario \in Scenarios
    /\ \E first \in [Blueprints -> OptVersion] :
         effective = [s \in Services |-> first[BlueprintOf[s]]]
    /\ policy = scenario.policy
    /\ acked = [s \in Services |-> None]
    /\ blocks = <<>>
    /\ handler = [at |-> "idle", block |-> NoLogs, swap |-> None]
    /\ active = scenario.active
    /\ tracked = active
    /\ running = [s \in Services |-> IF s \in active THEN effective[s] ELSE None]
    /\ pending = [s \in Services |-> None]
    /\ signals = <<>>
    /\ swaps = <<>>
    /\ watcher = [at |-> "idle", todo |-> {}, service |-> None, policy |-> "Approve",
                  target |-> None, clear_pinned |-> FALSE]
    /\ authz = [s \in Services |-> [whitelisted |-> {}, pinned |-> None, skipped |-> {}]]
    /\ block_count = 0 /\ acts = 0 /\ faults = 0
    /\ consented = {ByPolicy(s, policy[s]) : s \in Services}
    /\ pins = [s \in Services |-> 0]
    /\ missed = {}

-----------------------------------------------------------------------------
(***************************************************************************)
(* External: the contract, and the block that tells of a change.           *)
(***************************************************************************)
NewBlock(b, change) ==
    /\ change \in scenario.changes
    /\ block_count < scenario.max_blocks
    /\ block_count' = block_count + 1
    /\ blocks' = Append(blocks, b)
    /\ UNCHANGED <<scenario, handlerVars, stateVars, signals, swaps, watcher, operatorVars, faults,
                   pins, missed>>

\* A version is published, made active or deprecated.
VersionChanges(b, v) ==
    /\ effective' = [s \in Services |-> IF BlueprintOf[s] = b THEN v ELSE effective[s]]
    /\ NewBlock([NoLogs EXCEPT !.blueprints = {b}], <<"version", b, v>>)
    /\ UNCHANGED <<policy, acked, consented>>

PolicySet(s, p) ==
    /\ policy' = [policy EXCEPT ![s] = p]
    /\ consented' = consented \cup {ByPolicy(s, p)}
    /\ NewBlock([NoLogs EXCEPT !.policy_changed = TRUE], <<"policy", s, p>>)
    /\ UNCHANGED <<effective, acked>>

VersionAcked(s, v) ==
    /\ acked' = [acked EXCEPT ![s] = v]
    /\ consented' = consented \cup {ByVersion(s, v, "ack")}
    /\ NewBlock([NoLogs EXCEPT !.policy_changed = TRUE], <<"ack", s, v>>)
    /\ UNCHANGED <<effective, policy>>

ServiceActivated(s) ==
    /\ NewBlock([NoLogs EXCEPT !.start = s], <<"start", s>>)
    /\ UNCHANGED <<effective, policy, acked, consented>>

ServiceTerminated(s) ==
    /\ NewBlock([NoLogs EXCEPT !.stop = s], <<"stop", s>>)
    /\ UNCHANGED <<effective, policy, acked, consented>>

Chain ==
    \/ \E b \in Blueprints, v \in Versions : VersionChanges(b, v)
    \/ \E s \in Services :
         \/ \E p \in Policies : PolicySet(s, p)
         \/ \E v \in Versions : VersionAcked(s, v)
         \/ ServiceActivated(s)
         \/ ServiceTerminated(s)

-----------------------------------------------------------------------------
(***************************************************************************)
(* LocalAuthzStore, driven by the local HTTP routes.                       *)
(***************************************************************************)
Allowed(a) == (a.whitelisted \cup {a.pinned}) \ {None}

Operator(s, a, act) ==
    /\ act \in scenario.changes
    /\ acts < scenario.max_acts
    /\ acts' = acts + 1
    /\ authz' = [authz EXCEPT ![s] = a]
    /\ consented' = consented \cup {ByVersion(s, v, "authz") : v \in Allowed(a)}
    /\ UNCHANGED <<chainVars, handlerVars, stateVars, signals, swaps, watcher, faults, missed>>

set_pin(s, v) ==
    /\ Operator(s, [authz[s] EXCEPT !.pinned = v], <<"pin", s, v>>)
    /\ pins' = [pins EXCEPT ![s] = IF v = None THEN @ ELSE @ + 1]

set_whitelist(s, W) ==
    /\ Operator(s, [authz[s] EXCEPT !.whitelisted = W], <<"whitelist", s, W>>)
    /\ UNCHANGED pins

add_skip(s, v) ==
    /\ Operator(s, [authz[s] EXCEPT !.skipped = @ \cup {v}], <<"skip", s, v>>)
    /\ UNCHANGED pins

clear_skip(s, v) ==
    /\ Operator(s, [authz[s] EXCEPT !.skipped = @ \ {v}], <<"unskip", s, v>>)
    /\ UNCHANGED pins

OperatorStep ==
    \E s \in Services :
      \/ \E v \in OptVersion : set_pin(s, v)
      \/ \E W \in SUBSET Versions : set_whitelist(s, W)
      \/ \E v \in Versions : add_skip(s, v) \/ clear_skip(s, v)

-----------------------------------------------------------------------------
(***************************************************************************)
(* The handler: one block after the other.                                 *)
(***************************************************************************)
HandlerAt(at) == handler' = [handler EXCEPT !.at = at]

Fault == faults < scenario.max_faults /\ faults' = faults + 1

\* What a step of the handler or of the watcher leaves alone unless it says otherwise.
Outside == <<effective, policy, acked, block_count, scenario, operatorVars, historyVars>>

NextBlock ==
    /\ handler.at = "idle" /\ blocks # <<>>
    /\ handler' = [handler EXCEPT !.at = "logs", !.block = Head(blocks)]
    /\ blocks' = Tail(blocks)
    /\ UNCHANGED <<Outside, active, tracked, stateVars, signals, swaps, watcher, faults>>

\* A block, or a range of blocks, without any event of interest.
Tick ==
    /\ handler.at = "idle" /\ blocks = <<>> /\ swaps # <<>>
    /\ handler' = [handler EXCEPT !.at = "drain", !.block = NoLogs]
    /\ UNCHANGED <<Outside, blocks, active, tracked, stateVars, signals, swaps, watcher, faults>>

\* ensure_service_running and the first half of on_service_started.
StartService ==
    /\ handler.at = "logs" /\ handler.block.start \notin active \cup {None}
    /\ active' = active \cup {handler.block.start}
    /\ tracked' = tracked \cup {handler.block.start}
    /\ HandlerAt("started")
    /\ UNCHANGED <<Outside, blocks, stateVars, signals, swaps, watcher, faults>>

\* The rest of on_service_started: the effective version is taken for the running one.
RecordStarted ==
    /\ handler.at = "started"
    /\ LET s == handler.block.start IN
         running' = IF effective[s] # None THEN [running EXCEPT ![s] = effective[s]] ELSE running
    /\ HandlerAt("notify")
    /\ UNCHANGED <<Outside, blocks, active, tracked, pending, signals, swaps, watcher, faults>>

\* No source could be launched, or the running version could not be read.
StartFails ==
    /\ \/ handler.at = "logs" /\ handler.block.start \notin active \cup {None}
       \/ handler.at = "started"
    /\ Fault
    /\ HandlerAt("notify")
    /\ UNCHANGED <<Outside, blocks, active, tracked, stateVars, signals, swaps, watcher>>

\* stop_service and the first half of on_service_stopped.
StopService ==
    /\ handler.at = "logs" /\ handler.block.stop # None
    /\ active' = active \ {handler.block.stop}
    /\ tracked' = tracked \ {handler.block.stop}
    /\ HandlerAt("stopped")
    /\ UNCHANGED <<Outside, blocks, stateVars, signals, swaps, watcher, faults>>

RecordStopped ==
    /\ handler.at = "stopped"
    /\ running' = [running EXCEPT ![handler.block.stop] = None]
    /\ pending' = [pending EXCEPT ![handler.block.stop] = None]
    /\ HandlerAt("notify")
    /\ UNCHANGED <<Outside, blocks, active, tracked, signals, swaps, watcher, faults>>

\* get_service fails: the event is passed over and the service goes on.
StopIsMissed ==
    /\ handler.at = "logs" /\ handler.block.stop # None
    /\ Fault
    /\ HandlerAt("notify")
    /\ UNCHANGED <<Outside, blocks, active, tracked, stateVars, signals, swaps, watcher>>

\* resolve_service or the shutdown of a service fails: handle_event, and with it the
\* manager, ends.
HandlerFails ==
    /\ handler.at = "logs"
    /\ handler.block.start # None \/ handler.block.stop \in active
    /\ Fault
    /\ active' = active \ {handler.block.stop}
    /\ HandlerAt("ended")
    /\ UNCHANGED <<Outside, blocks, tracked, stateVars, signals, swaps, watcher>>

NoService ==
    /\ handler.at = "logs"
    /\ handler.block.start \in active \cup {None} /\ handler.block.stop = None
    /\ HandlerAt("notify")
    /\ UNCHANGED <<Outside, blocks, active, tracked, stateVars, signals, swaps, watcher, faults>>

\* Mutant: a block that concerns the watcher is done once the watcher knows.
AfterLogs_idle ==
    IF handler.block.policy_changed \/ handler.block.blueprints # {} THEN "idle" ELSE "drain"

\* handle_event looks for swaps at the end of every block.
AfterLogs == "drain"

\* Whether a signal is about blueprint b; the empty set is about all.
Covers(signal, b) == signal = {} \/ b \in signal

\* The blueprints of the block's version events, when the channel is full of signals
\* that are not about them.
Unheard ==
    {b \in handler.block.blueprints :
        Len(signals) = SIGNALS /\ \A i \in DOMAIN signals : ~ Covers(signals[i], b)}

\* The signal that was sent makes up for what was missed before.
Heard(signal) == {b \in Blueprints : Covers(signal, b)}

\* Mutant: a watcher that is busy is not told of new versions.
Notify_when_idle ==
    /\ handler.at = "notify"
    /\ \/ /\ handler.block.policy_changed
          /\ Len(signals) < SIGNALS
          /\ signals' = Append(signals, {})
          /\ missed' = missed \ Heard({})
       \/ /\ ~ handler.block.policy_changed
          /\ IF handler.block.blueprints # {} /\ Len(signals) < SIGNALS
             THEN /\ signals' = IF watcher.at = "idle"
                                THEN Append(signals, handler.block.blueprints) ELSE signals
                  /\ missed' = missed \ Heard(handler.block.blueprints)
             ELSE /\ missed' = missed \cup Unheard
                  /\ UNCHANGED signals
    /\ HandlerAt(AfterLogs)
    /\ UNCHANGED <<effective, policy, acked, block_count, scenario, operatorVars, consented, pins,
                   blocks, active, tracked, stateVars, swaps, watcher, faults>>

(***************************************************************************)
(* maybe_notify_upgrade_watcher: a policy change waits for room in the     *)
(* channel, a version event is dropped when there is none.                 *)
(***************************************************************************)
Notify ==
    /\ handler.at = "notify"
    /\ \/ /\ handler.block.policy_changed
          /\ Len(signals) < SIGNALS
          /\ signals' = Append(signals, {})
          /\ missed' = missed \ Heard({})
       \/ /\ ~ handler.block.policy_changed
          /\ IF handler.block.blueprints # {} /\ Len(signals) < SIGNALS
             THEN /\ signals' = Append(signals, handler.block.blueprints)
                  /\ missed' = missed \ Heard(handler.block.blueprints)
             ELSE /\ missed' = missed \cup Unheard
                  /\ UNCHANGED signals
    /\ HandlerAt(AfterLogs)
    /\ UNCHANGED <<effective, policy, acked, block_count, scenario, operatorVars, consented, pins,
                   blocks, active, tracked, stateVars, swaps, watcher, faults>>

-----------------------------------------------------------------------------
\* After a swap the channel is looked at again, until it is empty.
DrainAgain == "drain"

\* apply_swap, up to the shutdown of the old service.
DrainService ==
    /\ handler.at = "drain" /\ swaps # <<>>
    /\ swaps' = Tail(swaps)
    /\ LET r == Head(swaps) IN
         IF r.service \in active
         THEN /\ active' = active \ {r.service}
              /\ handler' = [handler EXCEPT !.at = "drained", !.swap = r]
         ELSE /\ HandlerAt(DrainAgain)
              /\ UNCHANGED active
    /\ UNCHANGED <<Outside, blocks, tracked, stateVars, signals, watcher, faults>>

\* The rest of apply_swap; nothing starts the service again.
RecordSwap ==
    /\ handler.at = "drained"
    /\ running' = [running EXCEPT ![handler.swap.service] = handler.swap.target]
    /\ pending' = [pending EXCEPT ![handler.swap.service] = None]
    /\ handler' = [handler EXCEPT !.at = DrainAgain, !.swap = None]
    /\ UNCHANGED <<Outside, blocks, active, tracked, signals, swaps, watcher, faults>>

BlockDone ==
    /\ handler.at = "drain" /\ swaps = <<>>
    /\ handler' = [handler EXCEPT !.at = "idle", !.block = NoLogs]
    /\ UNCHANGED <<Outside, blocks, active, tracked, stateVars, signals, swaps, watcher, faults>>

-----------------------------------------------------------------------------
(***************************************************************************)
(* The watcher: reconcile and reconcile_one.  A service leaves todo when   *)
(* its reconcile_one returns.                                              *)
(***************************************************************************)
Alive == handler.at # "ended"

\* The services a signal is about.
Concerned(signal) == {s \in tracked : Covers(signal, BlueprintOf[s])}

Receive ==
    /\ Alive /\ watcher.at = "idle" /\ signals # <<>>
    /\ watcher' = [watcher EXCEPT !.at = "next", !.todo = Concerned(Head(signals))]
    /\ signals' = Tail(signals)
    /\ UNCHANGED <<Outside, blocks, handlerVars, stateVars, swaps, faults>>

Reconciled ==
    /\ Alive /\ watcher.at = "next" /\ watcher.todo = {}
    /\ watcher' = [watcher EXCEPT !.at = "idle"]
    /\ UNCHANGED <<Outside, blocks, handlerVars, stateVars, signals, swaps, faults>>

Return == [watcher EXCEPT !.at = "next", !.todo = @ \ {watcher.service}, !.service = None,
                          !.policy = "Approve", !.target = None, !.clear_pinned = FALSE]

ReadPolicy(s) ==
    /\ Alive /\ watcher.at = "next" /\ s \in watcher.todo
    /\ watcher' = [watcher EXCEPT !.at = "target", !.service = s, !.policy = policy[s]]
    /\ UNCHANGED <<Outside, blocks, handlerVars, stateVars, signals, swaps, faults>>

ReadTarget ==
    /\ Alive /\ watcher.at = "target"
    /\ watcher' = IF effective[watcher.service] = None
                  THEN Return
                  ELSE [watcher EXCEPT !.at = "compare", !.target = effective[watcher.service]]
    /\ UNCHANGED <<Outside, blocks, handlerVars, stateVars, signals, swaps, faults>>

\* A call to the node fails; the service waits for the next signal.
ReadFails ==
    /\ Alive
    /\ \/ watcher.at = "target"
       \/ watcher.at = "decide" /\ watcher.policy = "Approve"
    /\ Fault
    /\ watcher' = Return
    /\ UNCHANGED <<Outside, blocks, handlerVars, stateVars, signals, swaps>>

NeedsSwap == LET r == running[watcher.service] IN r = None \/ Sha[r] # Sha[watcher.target]

SetPending(v) == pending' = [pending EXCEPT ![watcher.service] = v]

Compare ==
    /\ Alive /\ watcher.at = "compare"
    /\ IF NeedsSwap
       THEN watcher' = [watcher EXCEPT !.at = "decide"] /\ UNCHANGED pending
       ELSE watcher' = Return /\ SetPending(None)
    /\ UNCHANGED <<Outside, blocks, handlerVars, running, signals, swaps, faults>>

-----------------------------------------------------------------------------
\* Mutant: the gate is left open.
AttestationPasses_open(v) == TRUE

\* AttestationVerifier::verify.
AttestationPasses(v) == v \notin Attested \/ allow_unchecked

\* LocalAuthz::decide: pinned > skipped > whitelisted > hold.
decide(a, v) ==
    CASE a.pinned = v         -> "Pin"
      [] a.pinned # v /\ v \in a.skipped -> "Skip"
      [] a.pinned # v /\ v \notin a.skipped /\ v \in a.whitelisted -> "Swap"
      [] OTHER                -> "Hold"

\* Mutant: the version on offer is taken for the acknowledged one.
Decision_any_ack ==
    LET d == decide(authz[watcher.service], watcher.target) IN
    CASE watcher.policy = "Manual" ->
           IF d \in {"Pin", "Swap"} /\ ~ AttestationPasses(watcher.target) THEN "Hold" ELSE d
      [] watcher.policy = "Approve" ->
           IF acked[watcher.service] # None THEN "Swap" ELSE "Hold"
      [] watcher.policy = "Auto" ->
           IF AttestationPasses(watcher.target) THEN "Swap" ELSE "Hold"

\* What reconcile_one does with a service that needs a swap.  Only two of the three
\* policies ask for the attestation.
Decision ==
    LET d == decide(authz[watcher.service], watcher.target) IN
    CASE watcher.policy = "Manual" ->
           IF d \in {"Pin", "Swap"} /\ ~ AttestationPasses(watcher.target) THEN "Hold" ELSE d
      [] watcher.policy = "Approve" ->
           IF acked[watcher.service] = watcher.target THEN "Swap" ELSE "Hold"
      [] watcher.policy = "Auto" ->
           IF AttestationPasses(watcher.target) THEN "Swap" ELSE "Hold"

Decide ==
    /\ Alive /\ watcher.at = "decide"
    /\ \/ /\ Decision \in {"Pin", "Swap"}
          /\ watcher' = [watcher EXCEPT !.at = "download", !.clear_pinned = (Decision = "Pin")]
          /\ UNCHANGED pending
       \/ /\ Decision = "Skip"
          /\ SetPending(None)
          /\ watcher' = Return
       \/ /\ Decision = "Hold"
          /\ SetPending(watcher.target)
          /\ watcher' = Return
    /\ UNCHANGED <<Outside, blocks, handlerVars, running, signals, swaps, faults>>

\* download_and_verify: only bytes with the digest of the chain get through.
Download ==
    /\ Alive /\ watcher.at = "download"
    /\ watcher' = [watcher EXCEPT !.at = "send"]
    /\ UNCHANGED <<Outside, blocks, handlerVars, stateVars, signals, swaps, faults>>

\* No bytes, or others than the chain says; a pin is used up all the same.
DownloadFails ==
    /\ Alive /\ watcher.at = "download"
    /\ Fault
    /\ watcher' = IF watcher.clear_pinned THEN [watcher EXCEPT !.at = "consume"] ELSE Return
    /\ UNCHANGED <<Outside, blocks, handlerVars, stateVars, signals, swaps>>

\* Mutant: one request too many.
Room_off_by_one == Len(swaps) <= SWAPS

\* The swap channel takes another request.
Room == Len(swaps) < SWAPS

\* execute_swap waits for room in the swap channel.
SendSwap ==
    /\ Alive /\ watcher.at = "send" /\ Room
    /\ swaps' = Append(swaps, [service |-> watcher.service, target |-> watcher.target,
                               policy |-> watcher.policy])
    /\ IF watcher.clear_pinned
       THEN /\ watcher' = [watcher EXCEPT !.at = "consume", !.todo = @ \ {watcher.service}]
            /\ pins' = [pins EXCEPT ![watcher.service] = @ - 1]
       ELSE /\ watcher' = Return
            /\ UNCHANGED pins
    /\ UNCHANGED <<effective, policy, acked, block_count, scenario, operatorVars, consented, missed,
                   blocks, handlerVars, stateVars, signals, faults>>

\* Mutant: the pin is only given up when the operator takes it back.
Unpinned_kept(a, v) == a

\* consume_pin_if.
Unpinned(a, v) == IF a.pinned = v THEN [a EXCEPT !.pinned = None] ELSE a

ConsumePin ==
    /\ Alive /\ watcher.at = "consume"
    /\ authz' = [authz EXCEPT ![watcher.service] = Unpinned(@, watcher.target)]
    /\ watcher' = Return
    /\ UNCHANGED <<effective, policy, acked, block_count, scenario, acts, historyVars, blocks,
                   handlerVars, stateVars, signals, swaps, faults>>

-----------------------------------------------------------------------------
HandlerStep ==
    \/ NextBlock \/ Tick
    \/ StartService \/ RecordStarted \/ StartFails
    \/ StopService \/ RecordStopped \/ StopIsMissed
    \/ HandlerFails \/ NoService
    \/ Notify
    \/ DrainService \/ RecordSwap \/ BlockDone

WatcherStep ==
    \/ Receive \/ Reconciled
    \/ \E s \in Services : ReadPolicy(s)
    \/ ReadTarget \/ ReadFails \/ Compare \/ Decide
    \/ Download \/ DownloadFails
    \/ SendSwap \/ ConsumePin

\* Nothing is left to do, or the manager has ended.
Quiet ==
    /\ \/ /\ handler.at = "idle" /\ blocks = <<>> /\ swaps = <<>>
          /\ watcher.at = "idle" /\ signals = <<>>
       \/ handler.at = "ended"
    /\ UNCHANGED vars

Next ==
    \/ Chain
    \/ OperatorStep
    \/ HandlerStep
    \/ WatcherStep
    \/ Quiet

Spec == Init /\ [][Next]_vars

\* Both tasks are polled by the runtime as long as they are not waiting.
FairSpec == Spec /\ WF_vars(HandlerStep) /\ WF_vars(WatcherStep)

-----------------------------------------------------------------------------
HandlerWaits ==
    handler.at = "notify" /\ handler.block.policy_changed /\ Len(signals) = SIGNALS

WatcherWaits == watcher.at = "send" /\ Len(swaps) = SWAPS

(***************************************************************************)
(* notify_reconcile_all waits for the watcher, execute_swap waits for the  *)
(* handler, and neither has a timeout.  With no more services than the     *)
(* swap channel has room for they never wait for each other: the handler   *)
(* empties the swap channel after every block, so a full signal channel    *)
(* means that the watcher is still in the reconcile it was in then.        *)
(***************************************************************************)
NobodyWaitsForever ==
    Cardinality(Services) <= SWAPS => ~ (HandlerWaits /\ WatcherWaits)

\* The swap requests on their way to a drain.
Underway == {swaps[i] : i \in DOMAIN swaps} \cup ({handler.swap} \ {None})

(***************************************************************************)
(* "Safety contract" of upgrade/mod.rs: every service that is about to be  *)
(* drained has, or had, the policy the request names, and what that policy *)
(* asks for: an acknowledgement of this version on the chain, or a local   *)
(* authorization of it, or nothing more, although policy, version and      *)
(* authorization change while the request is prepared and waits.           *)
(***************************************************************************)
SwapsAreConsented ==
    \A r \in Underway :
      /\ ByPolicy(r.service, r.policy) \in consented
      /\ r.policy = "Approve" => ByVersion(r.service, r.target, "ack") \in consented
      /\ r.policy = "Manual" => ByVersion(r.service, r.target, "authz") \in consented

\* A version has passed the attestation gate: AttestationVerifier::verify accepts it.
Gated(v) == v \in Attested => allow_unchecked

(***************************************************************************)
(* What is sent without an acknowledgement on the chain, by policy or by a *)
(* local authorization, has passed the gate (watcher.rs, Auto and Manual). *)
(***************************************************************************)
UnackedSwapsAreGated == \A r \in Underway : r.policy # "Approve" => Gated(r.target)

(***************************************************************************)
(* swap.rs:3-14 lists "4. Verify attestation" in a sequence that "is       *)
(* identical for both entrypoints", AUTO and APPROVE; watcher.rs:95-97     *)
(* says of every SwapRequest that "the attestation gate has passed".       *)
(***************************************************************************)
EverySwapIsGated == \A r \in Underway : Gated(r.target)

\* A pin is good for one swap, whatever is pinned while the swap is prepared
\* ("one-shot" in local_authz.rs).
PinsFireOnce == \A s \in Services : pins[s] >= 0

\* What the watcher would leave alone: the service runs the version of the chain, or it
\* may not be upgraded.
UpToDate(s) ==
    \/ s \notin active \cap tracked
    \/ policy[s] # "Auto" \/ effective[s] = None \/ ~ Gated(effective[s])
    \/ running[s] # None /\ Sha[running[s]] = Sha[effective[s]]

(***************************************************************************)
(* Once the chain is quiet, a service with policy Auto still runs another  *)
(* version than the chain's only if a call failed, or if the last version  *)
(* event of its blueprint met a channel full of signals about other        *)
(* blueprints (watcher.rs:124-130).  Whatever else happens while signals   *)
(* are queued, dropped and worked off, the service is found.  The comment  *)
(* there claims it without the second exception.                           *)
(***************************************************************************)
OutdatedWasMissed ==
    <>[](faults > 0 \/ \A s \in Services : UpToDate(s) \/ BlueprintOf[s] \in missed)

(***************************************************************************)
(* "The cost is one block of downtime between drain and respawn": a        *)
(* service that was drained for a swap runs again, or is terminated.       *)
(***************************************************************************)
SwappedServicesRun ==
    \A s \in Services :
      (s \in tracked /\ s \notin active) ~> (s \in active \/ s \notin tracked)
=============================================================================
