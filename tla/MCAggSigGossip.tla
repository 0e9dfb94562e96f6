--------------------------- MODULE MCAggSigGossip ---------------------------
(* Instances of AggSigGossip for TLC. *)
EXTENDS AggSigGossip, TLC

CONSTANTS p1, p2, p3, a, b

NoWeights == [p \in {} |-> 0]
Uneven == (p1 :> 2) @@ (p2 :> 1) @@ (p3 :> 1)

\* p1 and p2 computed different outputs.
Split == [p \in Peers |-> IF p = p1 THEN a ELSE b]
Same == [p \in Peers |-> a]

SplitOrSame == {Split, Same}
AllSame == {Same}

\* p2 is selected for b only.
Selected == [m \in Messages |-> IF m = a THEN {p1} ELSE {p1, p2}]

\* Messages of p3: its own signatures and those it has seen, and bytes that are none,
\* as its own, for another or under another's name; reports against each participant;
\* completions for each set of contributors.
NoMessages == {}

FaultyShare(sender, signer, owner, m) ==
    [type |-> "share", source |-> p3, sender |-> sender, signer |-> signer,
     signature |-> Sign(owner, m), message |-> m]

FaultyReport(operator, evidence) ==
    [type |-> "report", source |-> p3, operator |-> operator, evidence |-> evidence]

NoSignature == [kind |-> "InvalidSignature", signature |-> Sign(Nobody, a), message |-> a]

SignedBoth(p) ==
    [kind |-> "Equivocation", signature1 |-> Sign(p, a), message1 |-> a,
     signature2 |-> Sign(p, b), message2 |-> b]

FaultyComplete(P) ==
    [type |-> "complete", source |-> p3,
     result |-> [message |-> a, signers |-> P, contributors |-> P]]

AnyMessage ==
    {FaultyShare(sender, signer, signer, m) : sender \in Peers, signer \in Peers, m \in Messages}
    \cup {FaultyShare(sender, signer, Nobody, m) :
            sender \in Peers, signer \in Peers, m \in Messages}
    \cup {FaultyShare(p3, p1, p3, a)}
    \cup {FaultyReport(p, NoSignature) : p \in Peers}
    \cup {FaultyReport(p, SignedBoth(p)) : p \in {p1, p3}}
    \cup {FaultyComplete(P) : P \in SUBSET Peers \ {{}}}

ASSUME OverlapAssumption == FaultyMinority /\ QuorumsOverlap
=============================================================================
