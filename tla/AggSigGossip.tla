---------------------------- MODULE AggSigGossip ----------------------------
(***************************************************************************)
(* Signature aggregation without an aggregation service: the gossip        *)
(* protocol of crates/networking/extensions/agg-sig-gossip, one instance   *)
(* per participant, as aggregate_via_p2p of crates/tangle-extra runs it.   *)
(*                                                                         *)
(* A signature is what it verifies for: its owner and message, or nobody   *)
(* for bytes that are no signature.  BLS aggregates add up, so an          *)
(* aggregate verifies for a set of keys when the signatures in it are, in  *)
(* any order, one of each key on the one message.                          *)
(*                                                                         *)
(* The network is external (libp2p gossip): whatever was sent may reach    *)
(* any other participant, late, in any order, more than once or never.     *)
(* A faulty participant sends shares, reports and completions of its own   *)
(* making.  It can use its own signatures, those it has seen and bytes that*)
(* are none; and it can put anyone's name into a message's routing, which  *)
(* no code compares with the peer the message came from.                   *)
(***************************************************************************)
EXTENDS Naturals, FiniteSets, Functions

CONSTANTS
    Peers,              \* the keys of participant_public_keys
    Messages,
    Nobody,             \* the owner of bytes that are no signature
    Faulty,             \* participants that do not follow the protocol
    LocalMessages,      \* what participants may be asked to sign: hashes of their job's output
    Aggregators,        \* per message, who AggregatorSelector::is_aggregator selects
    threshold_type,     \* "CountBased" or "StakeWeighted"
    threshold_bps,
    operator_weights,   \* a function from peers to Nat, possibly empty
    FaultyMessages,     \* what faulty participants may send, once they can
    MaxFaultyMessages,  \* bound: messages sent by faulty participants
    NoResult

ASSUME GossipAssumption ==
    /\ IsFiniteSet(Peers)
    /\ Faulty \subseteq Peers
    /\ Nobody \notin Peers
    /\ LocalMessages \subseteq [Peers -> Messages]
    /\ Aggregators \in [Messages -> SUBSET Peers]
    /\ MaxFaultyMessages \in Nat

ASSUME WeightsAssumption ==
    /\ threshold_bps \in Nat
    /\ IsFiniteSet(DOMAIN operator_weights)
    /\ \A p \in DOMAIN operator_weights : operator_weights[p] \in Nat

Honest == Peers \ Faulty

VARIABLES
    local_message,          \* state.local_message
    round,                  \* state.round
    signatures_by_message,  \* per message, the participants recorded for it
    seen_signatures,        \* per participant, the signature last recorded for it
    malicious,              \* state.malicious
    regossiped,             \* dedup_cache: the messages of which one share was passed on
    draining,               \* an aggregator is in its loop over next_protocol_message
    outcome,                \* "running" or how run returned
    result,                 \* the AggregationResult it returned
    sent                    \* everything broadcast so far

vars == <<local_message, round, signatures_by_message, seen_signatures, malicious,
          regossiped, draining, outcome, result, sent>>

local == <<local_message, round, signatures_by_message, seen_signatures, malicious, regossiped>>

-----------------------------------------------------------------------------
Signature == [owner : Peers \cup {Nobody}, message : Messages]

Sign(p, m) == [owner |-> p, message |-> m]

verify(p, m, signature) == signature = Sign(p, m)

\* AggSigMessage.  `source' is the participant the message comes from, `sender' the
\* one its routing names; no code compares them.
SignatureShare ==
    [type : {"share"}, source : Peers, sender : Peers, signer : Peers,
     signature : Signature, message : Messages]

MaliciousEvidence ==
    [kind : {"InvalidSignature"}, signature : Signature, message : Messages]
    \cup
    [kind : {"Equivocation"}, signature1 : Signature, message1 : Messages,
     signature2 : Signature, message2 : Messages]

MaliciousReport ==
    [type : {"report"}, source : Peers, operator : Peers, evidence : MaliciousEvidence]

\* `signers' is the aggregated signature: whose signatures on message it adds up.
AggregationResult ==
    [message : Messages, signers : SUBSET Peers, contributors : SUBSET Peers]

ProtocolComplete == [type : {"complete"}, source : Peers, result : AggregationResult]

AggSigMessage == SignatureShare \cup MaliciousReport \cup ProtocolComplete

ASSUME SentinelAssumption ==
    NoResult \notin AggregationResult \cup Signature

ASSUME FaultyMessagesAssumption ==
    \A x \in FaultyMessages : x \in AggSigMessage /\ x.source \in Faulty

Rounds == {"Initialization", "SignatureCollection", "Completion"}

TypeOK ==
    /\ local_message \in [Peers -> Messages]
    /\ round \in [Honest -> Rounds]
    /\ signatures_by_message \in [Honest -> [Messages -> SUBSET Peers]]
    /\ seen_signatures \in [Honest -> [Peers -> Signature \cup {NoResult}]]
    /\ malicious \in [Honest -> SUBSET Peers]
    /\ regossiped \in [Honest -> SUBSET Messages]
    /\ draining \in [Honest -> BOOLEAN]
    /\ outcome \in [Honest -> {"running", "ok", "Timeout", "ThresholdNotMet", "MissingData"}]
    /\ result \in [Honest -> AggregationResult \cup {NoResult}]
    /\ \A x \in sent : x \in AggSigMessage

Init ==
    /\ local_message \in LocalMessages
    /\ round = [n \in Honest |-> "Initialization"]
    /\ signatures_by_message = [n \in Honest |-> [m \in Messages |-> {}]]
    /\ seen_signatures = [n \in Honest |-> [p \in Peers |-> NoResult]]
    /\ malicious = [n \in Honest |-> {}]
    /\ regossiped = [n \in Honest |-> {}]
    /\ draining = [n \in Honest |-> FALSE]
    /\ outcome = [n \in Honest |-> "running"]
    /\ result = [n \in Honest |-> NoResult]
    /\ sent = {}

-----------------------------------------------------------------------------
(***************************************************************************)
(* The weight scheme aggregate_via_p2p chooses.  Percentages and weights   *)
(* are rounded down; the sums saturate at 2^64 in the code, which weights  *)
(* of at most 10000 do not reach.                                          *)
(***************************************************************************)
ByStake == threshold_type = "StakeWeighted" /\ DOMAIN operator_weights # {}

weight(p) ==
    IF ~ ByStake THEN 1
    ELSE IF p \in DOMAIN operator_weights THEN operator_weights[p] ELSE 0

calculate_weight(participants) == SumFunctionOnSet([p \in Peers |-> weight(p)], participants)

threshold_weight ==
    IF ByStake
    THEN (SumFunction(operator_weights) * threshold_bps) \div 10000
    ELSE (Cardinality(Peers) * ((threshold_bps \div 100) % 256)) \div 100

meets_threshold(participants) == calculate_weight(participants) >= threshold_weight

-----------------------------------------------------------------------------
(***************************************************************************)
(* build_result: check_threshold, collect_signatures_and_public_keys and   *)
(* aggregate_and_verify over the state of participant n.                   *)
(***************************************************************************)
NotMalicious(n, contributors) == contributors \ malicious[n]

HonestContributors(n, m) == NotMalicious(n, signatures_by_message[n][m])

\* Mutant: the aggregate is handed out without being verified.
Verifies_always(n, m, contributors) == contributors # {}

\* Mutant: the last signature of a contributor counts, whatever message it is for.
Verifies_any_message(n, m, contributors) ==
    /\ contributors # {}
    /\ {seen_signatures[n][c].owner : c \in contributors} = contributors

\* The signatures recorded for the contributors, added up, verify for their keys.
Verifies(n, m, contributors) ==
    /\ contributors # {}
    /\ \A c \in contributors : seen_signatures[n][c].message = m
    /\ {seen_signatures[n][c].owner : c \in contributors} = contributors

check_threshold(n, m) ==
    /\ signatures_by_message[n][m] # {}
    /\ meets_threshold(HonestContributors(n, m))

Buildable(n, m) == check_threshold(n, m) /\ Verifies(n, m, HonestContributors(n, m))

build_result(n, m) ==
    [message      |-> m,
     signers      |-> HonestContributors(n, m),
     contributors |-> signatures_by_message[n][m]]

\* What a participant that must end without a result reports.
BuildError(n, m) ==
    IF check_threshold(n, m) /\ HonestContributors(n, m) = {}
    THEN "MissingData" ELSE "ThresholdNotMet"

is_aggregator(n) == n \in Aggregators[local_message[n]]

\* The map is iterated in no particular order: any of the heaviest messages.
get_highest_weight_message(n) ==
    {m \in Messages :
        /\ signatures_by_message[n][m] # {}
        /\ \A o \in Messages : calculate_weight(signatures_by_message[n][o])
                                  <= calculate_weight(signatures_by_message[n][m])}

-----------------------------------------------------------------------------
Return(n, how) ==
    /\ outcome' = [outcome EXCEPT ![n] = how]
    /\ draining' = [draining EXCEPT ![n] = FALSE]

ReturnResult(n, m) ==
    /\ Return(n, "ok")
    /\ result' = [result EXCEPT ![n] = build_result(n, m)]

Complete(n, m) == [type |-> "complete", source |-> n, result |-> build_result(n, m)]

\* Whether participant n is in the main loop of run.
Running(n) == round[n] # "Initialization" /\ outcome[n] = "running"

\* Mutant: the pair recorded for a peer loses its signature.
add_signature_message_only(n, peer, signature, m) ==
    /\ signatures_by_message' = [signatures_by_message EXCEPT ![n][m] = @ \cup {peer}]
    /\ seen_signatures' = [seen_signatures EXCEPT ![n][peer] = m]

\* add_signature: the signature replaces the one recorded for the peer before.
add_signature(n, peer, signature, m) ==
    /\ signatures_by_message' = [signatures_by_message EXCEPT ![n][m] = @ \cup {peer}]
    /\ seen_signatures' = [seen_signatures EXCEPT ![n][peer] = signature]

\* run, up to its main loop: sign_and_broadcast
Start(n) ==
    /\ round[n] = "Initialization"
    /\ round' = [round EXCEPT ![n] = "SignatureCollection"]
    /\ add_signature(n, n, Sign(n, local_message[n]), local_message[n])
    /\ sent' = sent \cup
          {[type |-> "share", source |-> n, sender |-> n, signer |-> n,
            signature |-> Sign(n, local_message[n]), message |-> local_message[n]]}
    /\ UNCHANGED <<local_message, malicious, regossiped, draining, outcome, result>>

-----------------------------------------------------------------------------
(***************************************************************************)
(* handle_signature_share.  A share is verified for its signer and         *)
(* recorded for its sender; check_for_equivocation is called for its       *)
(* result, which nobody looks at.                                          *)
(***************************************************************************)
Seen(n, s) == s.signer \in signatures_by_message[n][s.message]

IgnoreShare(n, s) ==
    /\ Seen(n, s)
    /\ UNCHANGED <<local, sent>>

\* mark_participant_malicious
MarkMalicious(n, peer, s) ==
    /\ malicious' = [malicious EXCEPT ![n] = @ \cup {peer}]
    /\ sent' = sent \cup
          {[type |-> "report", source |-> n, operator |-> peer,
            evidence |-> [kind |-> "InvalidSignature",
                          signature |-> s.signature, message |-> s.message]]}
    /\ UNCHANGED <<local_message, round, signatures_by_message, seen_signatures, regossiped>>

\* Mutant: the claimed signer is blamed for a share that does not verify.
RejectShare_blames_signer(n, s) ==
    /\ ~ Seen(n, s)
    /\ ~ verify(s.signer, s.message, s.signature)
    /\ MarkMalicious(n, s.signer, s)

RejectShare(n, s) ==
    /\ ~ Seen(n, s)
    /\ ~ verify(s.signer, s.message, s.signature)
    /\ MarkMalicious(n, s.sender, s)

AcceptShare(n, s) ==
    /\ ~ Seen(n, s)
    /\ verify(s.signer, s.message, s.signature)
    /\ add_signature(n, s.sender, s.signature, s.message)
    /\ regossiped' = [regossiped EXCEPT ![n] = @ \cup {s.message}]
    /\ sent' = IF s.message \in regossiped[n] THEN sent
               ELSE sent \cup {[s EXCEPT !.source = n, !.sender = n]}
    /\ UNCHANGED <<local_message, round, malicious>>

(***************************************************************************)
(* handle_malicious_report.  Any bytes that do not verify for the accused  *)
(* are evidence against it, whoever made them.  The protocol itself sends  *)
(* no evidence of equivocation.                                            *)
(***************************************************************************)
verify_malicious_evidence(operator, e) ==
    CASE e.kind = "InvalidSignature" -> ~ verify(operator, e.message, e.signature)
      [] e.kind = "Equivocation" ->
           /\ e.message1 # e.message2
           /\ verify(operator, e.message1, e.signature1)
           /\ verify(operator, e.message2, e.signature2)

handle_malicious_report(n, r) ==
    /\ malicious' = IF verify_malicious_evidence(r.operator, r.evidence)
                    THEN [malicious EXCEPT ![n] = @ \cup {r.operator}]
                    ELSE malicious
    /\ UNCHANGED <<local_message, round, signatures_by_message, seen_signatures, regossiped, sent>>

(***************************************************************************)
(* handle_protocol_complete: verify_result needs a recorded signature, of  *)
(* whatever message, of every contributor that is not malicious; the local *)
(* threshold is computed and not required.                                 *)
(***************************************************************************)
verify_result(n, r) ==
    LET keys == NotMalicious(n, r.contributors)
    IN  /\ keys # {}
        /\ \A c \in keys : seen_signatures[n][c] # NoResult
        /\ r.signers = keys

handle_protocol_complete(n, c) ==
    /\ round' = IF round[n] # "Completion" /\ verify_result(n, c.result)
                THEN [round EXCEPT ![n] = "Completion"] ELSE round
    /\ UNCHANGED <<local_message, signatures_by_message, seen_signatures, malicious, regossiped, sent>>

\* One turn of the loop over next_protocol_message.
Receive(n, msg) ==
    /\ Running(n)
    /\ msg.source # n
    /\ CASE msg.type = "share" ->
              IgnoreShare(n, msg) \/ RejectShare(n, msg) \/ AcceptShare(n, msg)
         [] msg.type = "report" -> handle_malicious_report(n, msg)
         [] msg.type = "complete" -> handle_protocol_complete(n, msg)
    /\ draining' = [draining EXCEPT ![n] = is_aggregator(n)]
    /\ UNCHANGED <<outcome, result>>

\* No more messages: an aggregator tries at once, the others go on.
Drained(n) ==
    /\ Running(n) /\ draining[n]
    /\ \E m \in get_highest_weight_message(n) :
         IF /\ meets_threshold(signatures_by_message[n][m])
            /\ Buildable(n, m)
         THEN /\ ReturnResult(n, m)
              /\ sent' = sent \cup {Complete(n, m)}
         ELSE /\ draining' = [draining EXCEPT ![n] = FALSE]
              /\ UNCHANGED <<outcome, result, sent>>
    /\ UNCHANGED local

\* A tick of check_interval while signatures are collected; an aggregator that
\* cannot build a result goes on.
CheckTick(n) ==
    /\ Running(n) /\ ~ draining[n] /\ round[n] = "SignatureCollection"
    /\ is_aggregator(n)
    /\ \E m \in get_highest_weight_message(n) :
         /\ Buildable(n, m)
         /\ ReturnResult(n, m)
         /\ sent' = sent \cup {Complete(n, m)}
    /\ UNCHANGED local

\* A tick of check_interval after a completion message was verified.
CompletionTick(n) ==
    /\ Running(n) /\ ~ draining[n] /\ round[n] = "Completion"
    /\ IF Buildable(n, local_message[n])
       THEN ReturnResult(n, local_message[n])
       ELSE Return(n, BuildError(n, local_message[n])) /\ UNCHANGED result
    /\ UNCHANGED <<local, sent>>

Timeout(n) ==
    /\ Running(n) /\ ~ draining[n]
    /\ round' = [round EXCEPT ![n] = "Completion"]
    /\ IF Buildable(n, local_message[n])
       THEN ReturnResult(n, local_message[n])
       ELSE Return(n, "Timeout") /\ UNCHANGED result
    /\ UNCHANGED <<local_message, signatures_by_message, seen_signatures, malicious, regossiped, sent>>

-----------------------------------------------------------------------------
\* Signature g is known: its owner put it on the network, or is faulty and gives it
\* to the other faulty ones.
Known(g) ==
    \/ g.owner \in Faulty \cup {Nobody}
    \/ \E s \in sent : s.type = "share" /\ s.signature = g

SignaturesIn(x) ==
    CASE x.type = "share" -> {x.signature}
      [] x.type = "complete" -> {Sign(p, x.result.message) : p \in x.result.signers}
      [] x.type = "report" /\ x.evidence.kind = "InvalidSignature" -> {x.evidence.signature}
      [] x.type = "report" /\ x.evidence.kind = "Equivocation" ->
           {x.evidence.signature1, x.evidence.signature2}

FaultySent == {x \in sent : x.source \in Faulty}

\* A faulty participant sends any message it has the signatures for.
FaultySend(x) ==
    /\ Cardinality(FaultySent) < MaxFaultyMessages
    /\ \A g \in SignaturesIn(x) : Known(g)
    /\ sent' = sent \cup {x}
    /\ UNCHANGED <<local, draining, outcome, result>>

Next ==
    \/ \E n \in Honest :
         \/ Start(n)
         \/ \E msg \in sent : Receive(n, msg)
         \/ Drained(n)
         \/ CheckTick(n)
         \/ CompletionTick(n)
         \/ Timeout(n)
    \/ \E x \in FaultyMessages : FaultySend(x)

Spec == Init /\ [][Next]_vars

-----------------------------------------------------------------------------
\* Participant p's signature of m is on the network, and p put it there itself unless
\* it is faulty.
Signed(p, m) ==
    \E s \in sent : /\ s.type = "share"
                    /\ s.signature = Sign(p, m)
                    /\ p \in Honest => s.source = p

(***************************************************************************)
(* Although shares are recorded for whoever passed them on and are         *)
(* overwritten by later ones (protocol.rs:249, 561), a result that run     *)
(* returns is an aggregate of genuine signatures of its message by         *)
(* distinct participants that are enough for the threshold.                *)
(***************************************************************************)
ResultIsBacked ==
    \A n \in Honest : result[n] # NoResult =>
        /\ meets_threshold(result[n].signers)
        /\ \A p \in result[n].signers : Signed(p, result[n].message)

(***************************************************************************)
(* Every two sets that meet the threshold share a participant that follows *)
(* the protocol.                                                           *)
(***************************************************************************)
QuorumsOverlap ==
    \A P, Q \in SUBSET Peers :
        meets_threshold(P) /\ meets_threshold(Q) => P \cap Q \cap Honest # {}

(***************************************************************************)
(* They do when the threshold is more than half of all the weight and the  *)
(* faulty weight together.                                                 *)
(***************************************************************************)
FaultyMinority ==
    calculate_weight(Peers) + calculate_weight(Faulty) < 2 * threshold_weight

(***************************************************************************)
(* When quorums overlap, participants that return a result return one for  *)
(* the same message, although an equivocating participant is counted for   *)
(* each message it signed (protocol.rs:246 ignores the evidence).          *)
(***************************************************************************)
Agreement ==
    \A n, o \in Honest :
        result[n] # NoResult /\ result[o] # NoResult => result[n].message = result[o].message

(***************************************************************************)
(* A faulty participant sent a share that does not verify in p's name, or  *)
(* accused p with bytes that are not p's signature.                        *)
(***************************************************************************)
Framed(p) ==
    \E x \in FaultySent :
        \/ x.type = "share" /\ x.sender = p /\ ~ verify(x.signer, x.message, x.signature)
        \/ /\ x.type = "report" /\ x.operator = p
           /\ x.evidence.kind = "InvalidSignature"
           /\ verify_malicious_evidence(p, x.evidence)

(***************************************************************************)
(* Participants that follow the protocol do not get each other held to be  *)
(* malicious, however their shares, relays and accusations cross: a share  *)
(* is verified before it is passed on, the blame for one that does not     *)
(* verify falls on its sender (protocol.rs:230), and nobody who signs once *)
(* is convicted of equivocation.  It takes a faulty participant that frames*)
(* one of them, which it can (malicious.rs:73-80).                         *)
(***************************************************************************)
AccusedWereFramed ==
    \A n \in Honest : \A p \in malicious[n] \cap Honest : Framed(p)

(***************************************************************************)
(* What README.md:11 of the crate says, "Selected aggregator nodes combine *)
(* signatures when threshold is met": once the participants recorded for a *)
(* message are enough, their signatures aggregate.  Stated for a run in    *)
(* which nobody is faulty and all sign the same message.                   *)
(***************************************************************************)
AggregatesWhenMet ==
    \A n \in Honest, m \in Messages :
        check_threshold(n, m) => Verifies(n, m, HonestContributors(n, m))
=============================================================================
