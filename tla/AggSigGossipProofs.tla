------------------------- MODULE AggSigGossipProofs -------------------------
(***************************************************************************)
(* Proofs about the gossip protocol for every number of participants, any  *)
(* weights and any number of faulty participants: its type invariant,      *)
(* AccusedWereFramed, ResultIsBacked and, when quorums overlap, Agreement. *)
(* FaultyMessages is any set: nothing restricts what faulty participants   *)
(* send but the signatures they can have.                                  *)
(*                                                                         *)
(* A result is checked by adding up whatever is recorded for the           *)
(* contributors.  What makes that sound is that every signature recorded   *)
(* anywhere was put on the network by its owner (SharesAreGenuine,         *)
(* RecordsAreGenuine), although it may be recorded for somebody else.      *)
(***************************************************************************)
EXTENDS AggSigGossip, SumProofs

IsShare(s) == s.type = "share"

\* A signature on the network was first sent by its owner.
SharesAreGenuine ==
    \A s \in sent : IsShare(s) /\ s.signature.owner # Nobody =>
        Signed(s.signature.owner, s.signature.message)

\* A participant that follows the protocol sends only shares that verify ...
HonestSharesVerify ==
    \A s \in sent : IsShare(s) /\ s.source \in Honest =>
        verify(s.signer, s.message, s.signature)

\* ... and signs only its own message.
HonestSignOnce ==
    \A p \in Honest, m \in Messages : Signed(p, m) => m = local_message[p]

\* A report that convicts a participant that follows the protocol goes back to a
\* faulty one.
ReportsAreJust ==
    \A r \in sent : r.type = "report" /\ r.operator \in Honest
                     /\ verify_malicious_evidence(r.operator, r.evidence) => Framed(r.operator)

RecordsAreGenuine ==
    /\ \A n \in Honest, p \in Peers : seen_signatures[n][p] # NoResult =>
         /\ seen_signatures[n][p].owner # Nobody
         /\ Signed(seen_signatures[n][p].owner, seen_signatures[n][p].message)
    /\ \A n \in Honest, m \in Messages : \A p \in signatures_by_message[n][m] :
         seen_signatures[n][p] # NoResult

IInv ==
    /\ TypeOK
    /\ SharesAreGenuine
    /\ HonestSharesVerify
    /\ HonestSignOnce
    /\ ReportsAreJust
    /\ RecordsAreGenuine
    /\ AccusedWereFramed
    /\ ResultIsBacked

-----------------------------------------------------------------------------
LEMMA InitIInv == Init => IInv
BY GossipAssumption, SentinelAssumption
   DEF Init, IInv, TypeOK, SharesAreGenuine, HonestSharesVerify, HonestSignOnce, ReportsAreJust,
       RecordsAreGenuine, AccusedWereFramed, ResultIsBacked, Rounds, Signed, Honest

\* Signing cannot be taken back: nothing is ever removed from the network.
LEMMA SignedStays ==
    ASSUME sent \subseteq sent', NEW p, NEW m, Signed(p, m)
    PROVE  Signed(p, m)'
BY DEF Signed

\* Buildable makes build_result a backed result.
LEMMA BuiltIsBacked ==
    ASSUME IInv, NEW n \in Honest, NEW m \in Messages, Buildable(n, m)
    PROVE  /\ build_result(n, m) \in AggregationResult
           /\ meets_threshold(build_result(n, m).signers)
           /\ \A p \in build_result(n, m).signers : Signed(p, m)
<1> DEFINE H == HonestContributors(n, m)
<1>1. H \subseteq Peers /\ signatures_by_message[n][m] \subseteq Peers
  BY DEF IInv, TypeOK, HonestContributors, NotMalicious
<1>2. build_result(n, m) \in AggregationResult /\ build_result(n, m).signers = H
  BY <1>1 DEF build_result, AggregationResult
<1>3. meets_threshold(H)
  BY DEF Buildable, check_threshold
<1>4. ASSUME NEW p \in H PROVE Signed(p, m)
  <2>1. PICK c \in H : seen_signatures[n][c].owner = p /\ seen_signatures[n][c].message = m
    BY <1>4 DEF Buildable, Verifies
  <2>2. c \in signatures_by_message[n][m] /\ c \in Peers
    BY <1>1, <2>1 DEF HonestContributors, NotMalicious
  <2>3. seen_signatures[n][c] # NoResult
    BY <2>2 DEF IInv, RecordsAreGenuine
  <2> QED BY <2>1, <2>2, <2>3 DEF IInv, RecordsAreGenuine
<1> QED BY <1>2, <1>3, <1>4

-----------------------------------------------------------------------------
\* Nor can framing be.
LEMMA FramedStays ==
    ASSUME sent \subseteq sent', NEW p, Framed(p)
    PROVE  Framed(p)'
BY DEF Framed, FaultySent

LEMMA ReportsKept ==
    ASSUME IInv, NEW x, sent' = sent \/ sent' = sent \cup {x},
           x.type = "report" /\ x.operator \in Honest
              /\ verify_malicious_evidence(x.operator, x.evidence) => Framed(x.operator)'
    PROVE  ReportsAreJust'
<1> SUFFICES ASSUME NEW r \in sent', r.type = "report", r.operator \in Honest,
                    verify_malicious_evidence(r.operator, r.evidence)
             PROVE  Framed(r.operator)'
  BY DEF ReportsAreJust
<1>1. CASE r \in sent
  BY <1>1, FramedStays DEF IInv, ReportsAreJust
<1> QED BY <1>1

\* What a step leaves alone when it only adds messages that are neither shares nor unjust.
LEMMA SentGrows ==
    ASSUME IInv, NEW x, sent' = sent \/ sent' = sent \cup {x},
           x.type # "share",
           x.type = "report" /\ x.operator \in Honest
              /\ verify_malicious_evidence(x.operator, x.evidence) => Framed(x.operator)',
           UNCHANGED local_message
    PROVE  /\ SharesAreGenuine' /\ HonestSharesVerify' /\ HonestSignOnce' /\ ReportsAreJust'
<1>1. \A p, m : Signed(p, m)' <=> Signed(p, m)
  BY DEF Signed
<1>2. ReportsAreJust'
  BY ReportsKept
<1> QED
  BY <1>1, <1>2 DEF IInv, SharesAreGenuine, HonestSharesVerify, HonestSignOnce, IsShare,
                    verify, Sign

\* The signature of a share that participant n sends or accepts.
LEMMA ShareSent ==
    ASSUME IInv, NEW s \in SignatureShare, sent' = sent \cup {s},
           UNCHANGED local_message,
           verify(s.signer, s.message, s.signature),
           \/ s.source = s.signer
           \/ Signed(s.signer, s.message),
           s.source = s.signer /\ s.source \in Honest =>
               s.message = local_message[s.source] \/ Signed(s.signer, s.message)
    PROVE  SharesAreGenuine' /\ HonestSharesVerify' /\ HonestSignOnce' /\ ReportsAreJust'
<1>0. s.signature = [owner |-> s.signer, message |-> s.message] /\ IsShare(s)
  BY DEF verify, Sign, SignatureShare, IsShare
<1>1. Signed(s.signer, s.message)'
  BY <1>0, SignedStays DEF Signed, Sign, IsShare
<1>2. SharesAreGenuine'
  BY <1>0, <1>1, SignedStays DEF IInv, SharesAreGenuine, IsShare
<1>3. HonestSharesVerify'
  BY DEF IInv, HonestSharesVerify, verify, Sign, IsShare
<1>4. HonestSignOnce'
  <2> SUFFICES ASSUME NEW p \in Honest, NEW m \in Messages, Signed(p, m)'
               PROVE  m = local_message[p]
    BY DEF HonestSignOnce
  <2>1. Signed(p, m) => m = local_message[p]
    BY DEF IInv, HonestSignOnce
  <2>2. CASE ~ Signed(p, m)
    <3>1. s.source = p /\ s.signature = Sign(p, m)
      BY <2>2 DEF Signed
    <3>2. s.signer = p /\ s.message = m
      BY <3>1, <1>0 DEF Sign
    <3> QED BY <3>1, <3>2, <2>2
  <2> QED BY <2>1, <2>2
<1>5. ReportsAreJust'
  BY <1>0, ReportsKept DEF IsShare
<1> QED BY <1>2, <1>3, <1>4, <1>5

\* A signature a faulty participant can have is one of its kind's or was sent by its owner.
LEMMA KnownIsSigned ==
    ASSUME IInv, NEW g, Known(g), g.owner \in Honest
    PROVE  Signed(g.owner, g.message)
<1>1. g.owner \notin Faulty \cup {Nobody}
  BY GossipAssumption DEF Honest
<1>2. PICK s \in sent : s.type = "share" /\ s.signature = g
  BY <1>1 DEF Known
<1> QED BY <1>1, <1>2 DEF IInv, SharesAreGenuine, IsShare

LEMMA FaultyShareSent ==
    ASSUME IInv, NEW s \in SignatureShare, sent' = sent \cup {s}, s.source \in Faulty,
           UNCHANGED local_message, Known(s.signature)
    PROVE  SharesAreGenuine' /\ HonestSharesVerify' /\ HonestSignOnce' /\ ReportsAreJust'
<1>0. IsShare(s) /\ s.source \notin Honest /\ s.signature \in Signature /\ s \in sent'
  BY GossipAssumption DEF SignatureShare, IsShare, Honest
<1>1. ASSUME s.signature.owner # Nobody
      PROVE  Signed(s.signature.owner, s.signature.message)'
  <2>1. CASE s.signature.owner \in Honest
    <3>1. Signed(s.signature.owner, s.signature.message)
      BY <2>1, KnownIsSigned
    <3> QED BY <3>1, SignedStays
  <2>2. CASE s.signature.owner \notin Honest
    <3>1. s.signature = Sign(s.signature.owner, s.signature.message)
      BY <1>0 DEF Sign, Signature
    <3> QED BY <1>0, <2>2, <3>1 DEF Signed, IsShare
  <2> QED BY <2>1, <2>2
<1>2. SharesAreGenuine'
  BY <1>0, <1>1, SignedStays DEF IInv, SharesAreGenuine, IsShare
<1>3. HonestSharesVerify'
  BY <1>0 DEF IInv, HonestSharesVerify, verify, Sign, IsShare
<1>4. HonestSignOnce'
  BY <1>0 DEF IInv, HonestSignOnce, Signed
<1>5. ReportsAreJust'
  BY <1>0, ReportsKept DEF IsShare
<1> QED BY <1>2, <1>3, <1>4, <1>5

\* Nobody that signs once can be shown to have equivocated; other evidence of a faulty
\* participant is framing.
LEMMA FaultyReportSent ==
    ASSUME IInv, NEW x \in MaliciousReport, sent' = sent \cup {x}, x.source \in Faulty,
           \A g \in SignaturesIn(x) : Known(g),
           x.operator \in Honest, verify_malicious_evidence(x.operator, x.evidence)
    PROVE  Framed(x.operator)'
<1>0. x.type = "report" /\ x.evidence \in MaliciousEvidence /\ x \in sent'
  BY DEF MaliciousReport
<1>1. CASE x.evidence.kind = "InvalidSignature"
  BY <1>0, <1>1 DEF Framed, FaultySent, verify_malicious_evidence, verify, Sign
<1>2. CASE x.evidence.kind = "Equivocation"
  <2> DEFINE g == x.evidence.signature1
             h == x.evidence.signature2
  <2>1. /\ g = Sign(x.operator, x.evidence.message1) /\ h = Sign(x.operator, x.evidence.message2)
        /\ x.evidence.message1 # x.evidence.message2
    BY <1>2 DEF verify_malicious_evidence, verify
  <2>2. Known(g) /\ Known(h)
    BY <1>0, <1>2 DEF SignaturesIn
  <2>3. x.evidence.message1 \in Messages /\ x.evidence.message2 \in Messages
    BY <1>0, <1>2 DEF MaliciousEvidence
  <2>4. /\ g.owner = x.operator /\ g.message = x.evidence.message1
        /\ h.owner = x.operator /\ h.message = x.evidence.message2
    BY <2>1 DEF Sign
  <2> HIDE DEF g, h
  <2>5. Signed(x.operator, x.evidence.message1) /\ Signed(x.operator, x.evidence.message2)
    BY <2>2, <2>4, KnownIsSigned
  <2> QED BY <2>1, <2>3, <2>5 DEF IInv, HonestSignOnce
<1> QED BY <1>0, <1>1, <1>2 DEF MaliciousEvidence

\* Who was accused before was framed before; who is accused now is framed.
LEMMA AccusedStep ==
    ASSUME IInv, sent \subseteq sent', NEW n \in Honest, NEW p \in Peers,
           malicious' = malicious \/ malicious' = [malicious EXCEPT ![n] = @ \cup {p}],
           malicious' # malicious /\ p \in Honest => Framed(p)'
    PROVE  AccusedWereFramed'
<1> SUFFICES ASSUME NEW q \in Honest, NEW r \in malicious'[q], r \in Honest PROVE Framed(r)'
  BY DEF AccusedWereFramed
<1>1. CASE r \in malicious[q]
  BY <1>1, FramedStays DEF IInv, AccusedWereFramed
<1>2. CASE r \notin malicious[q]
  <2>0. malicious' # malicious
    BY <1>2
  <2>1. r = p
    <3>1. malicious'[q] = IF q = n THEN malicious[q] \cup {p} ELSE malicious[q]
      BY <2>0 DEF IInv, TypeOK
    <3> QED BY <1>2, <3>1
  <2>2. Framed(p)'
    BY <2>0, <2>1
  <2> QED BY <2>1, <2>2 DEF Framed
<1> QED BY <1>1, <1>2

LEMMA AccusedKept ==
    ASSUME IInv, sent \subseteq sent', UNCHANGED malicious
    PROVE  AccusedWereFramed'
<1> SUFFICES ASSUME NEW q \in Honest, NEW r \in malicious[q], r \in Honest PROVE Framed(r)'
  BY DEF AccusedWereFramed
<1> QED BY FramedStays DEF IInv, AccusedWereFramed

\* Records that do not change, or one more genuine one, stay genuine.
LEMMA RecordAdded ==
    ASSUME IInv, NEW n \in Honest, NEW peer \in Peers, NEW signer \in Peers, NEW m \in Messages,
           add_signature(n, peer, Sign(signer, m), m),
           sent \subseteq sent', Signed(signer, m)'
    PROVE  /\ RecordsAreGenuine'
           /\ signatures_by_message' \in [Honest -> [Messages -> SUBSET Peers]]
           /\ seen_signatures' \in [Honest -> [Peers -> Signature \cup {NoResult}]]
<1>0. Sign(signer, m) \in Signature /\ Sign(signer, m).owner = signer
      /\ Sign(signer, m).message = m /\ signer # Nobody /\ Sign(signer, m) # NoResult
  BY GossipAssumption, SentinelAssumption DEF Sign, Signature
<1>1. /\ signatures_by_message' \in [Honest -> [Messages -> SUBSET Peers]]
      /\ seen_signatures' \in [Honest -> [Peers -> Signature \cup {NoResult}]]
  BY <1>0 DEF IInv, TypeOK, add_signature
<1>2. \A q \in Honest, p \in Peers :
         seen_signatures'[q][p] = IF q = n /\ p = peer THEN Sign(signer, m)
                                  ELSE seen_signatures[q][p]
  BY DEF IInv, TypeOK, add_signature
<1>3. \A q \in Honest, o \in Messages : \A p \in signatures_by_message'[q][o] :
         p \in Peers /\ (p \in signatures_by_message[q][o] \/ (q = n /\ p = peer))
  BY DEF IInv, TypeOK, add_signature
<1>4. ASSUME NEW q \in Honest, NEW p \in Peers, seen_signatures'[q][p] # NoResult
      PROVE  /\ seen_signatures'[q][p].owner # Nobody
             /\ Signed(seen_signatures[q][p].owner, seen_signatures[q][p].message)'
  <2>1. CASE q = n /\ p = peer
    BY <1>0, <1>2, <2>1 DEF Signed
  <2>2. CASE ~ (q = n /\ p = peer)
    <3>1. seen_signatures'[q][p] = seen_signatures[q][p]
      BY <1>2, <2>2
    <3>2. Signed(seen_signatures[q][p].owner, seen_signatures[q][p].message)
      BY <3>1, <1>4 DEF IInv, RecordsAreGenuine
    <3> QED BY <3>1, <3>2, <1>4 DEF IInv, RecordsAreGenuine, Signed
  <2> QED BY <2>1, <2>2
<1>5. ASSUME NEW q \in Honest, NEW o \in Messages, NEW p \in signatures_by_message'[q][o]
      PROVE  seen_signatures'[q][p] # NoResult
  BY <1>0, <1>2, <1>3 DEF IInv, RecordsAreGenuine
<1> QED BY <1>1, <1>4, <1>5 DEF RecordsAreGenuine

LEMMA RecordsKept ==
    ASSUME IInv, UNCHANGED <<signatures_by_message, seen_signatures>>, sent \subseteq sent'
    PROVE  RecordsAreGenuine'
<1>1. ASSUME NEW n \in Honest, NEW p \in Peers, seen_signatures[n][p] # NoResult
      PROVE  /\ seen_signatures[n][p].owner # Nobody
             /\ Signed(seen_signatures[n][p].owner, seen_signatures[n][p].message)'
  <2>1. Signed(seen_signatures[n][p].owner, seen_signatures[n][p].message)
    BY <1>1 DEF IInv, RecordsAreGenuine
  <2> QED BY <2>1, <1>1 DEF IInv, RecordsAreGenuine, Signed
<1>2. \A n \in Honest, m \in Messages : \A p \in signatures_by_message[n][m] :
         seen_signatures[n][p] # NoResult
  BY DEF IInv, RecordsAreGenuine
<1> QED BY <1>1, <1>2 DEF RecordsAreGenuine, Signed

LEMMA ResultsKept ==
    ASSUME IInv, UNCHANGED result, sent \subseteq sent'
    PROVE  ResultIsBacked'
<1> SUFFICES ASSUME NEW n \in Honest, result[n] # NoResult
             PROVE  /\ meets_threshold(result[n].signers)
                    /\ \A p \in result[n].signers : Signed(p, result[n].message)'
  BY DEF ResultIsBacked, Signed
<1>1. /\ meets_threshold(result[n].signers)
      /\ \A p \in result[n].signers : Signed(p, result[n].message)
  BY DEF IInv, ResultIsBacked
<1> QED BY <1>1, SignedStays

LEMMA ResultAdded ==
    ASSUME IInv, NEW n \in Honest, NEW m \in Messages, Buildable(n, m), ReturnResult(n, m),
           sent \subseteq sent'
    PROVE  /\ ResultIsBacked'
           /\ result' \in [Honest -> AggregationResult \cup {NoResult}]
<1>1. /\ build_result(n, m) \in AggregationResult
      /\ meets_threshold(build_result(n, m).signers)
      /\ \A p \in build_result(n, m).signers : Signed(p, m)
  BY BuiltIsBacked
<1>2. build_result(n, m).message = m
  BY DEF build_result
<1>3. result' = [result EXCEPT ![n] = build_result(n, m)]
  BY DEF ReturnResult
<1>4. result' \in [Honest -> AggregationResult \cup {NoResult}]
  BY <1>1, <1>3 DEF IInv, TypeOK
<1>5. ASSUME NEW q \in Honest, result'[q] # NoResult
      PROVE  /\ meets_threshold(result'[q].signers)
             /\ \A p \in result'[q].signers : Signed(p, result[q].message)'
  <2>1. CASE q = n
    <3>1. result'[q] = build_result(n, m)
      BY <1>3, <2>1 DEF IInv, TypeOK
    <3>2. \A p \in build_result(n, m).signers : Signed(p, m)'
      BY <1>1, SignedStays
    <3> QED BY <1>1, <1>2, <3>1, <3>2 DEF Signed
  <2>2. CASE q # n
    <3>1. result'[q] = result[q]
      BY <1>3, <2>2 DEF IInv, TypeOK
    <3>2. /\ meets_threshold(result[q].signers)
          /\ \A p \in result[q].signers : Signed(p, result[q].message)
      BY <1>5, <3>1 DEF IInv, ResultIsBacked
    <3> QED BY <3>1, <3>2 DEF Signed
  <2> QED BY <2>1, <2>2
<1>6. ResultIsBacked'
  BY <1>5 DEF ResultIsBacked
<1> QED BY <1>4, <1>6

-----------------------------------------------------------------------------
(***************************************************************************)
(* One lemma per kind of step.                                             *)
(***************************************************************************)
LEMMA StartStep ==
    ASSUME IInv, NEW n \in Honest, Start(n)
    PROVE  IInv'
<1>m. PICK m \in Messages : m = local_message[n]
  BY DEF IInv, TypeOK, Honest
<1> DEFINE s == [type |-> "share", source |-> n, sender |-> n, signer |-> n,
                 signature |-> Sign(n, m), message |-> m]
<1>0. n \in Peers /\ m \in Messages /\ sent' = sent \cup {s} /\ UNCHANGED local_message
  BY <1>m DEF Start, Honest, IInv, TypeOK
<1>1. s \in SignatureShare
  BY <1>0 DEF SignatureShare, Sign, Signature
<1>2. SharesAreGenuine' /\ HonestSharesVerify' /\ HonestSignOnce' /\ ReportsAreJust'
  <2>1. verify(s.signer, s.message, s.signature) /\ s.source = s.signer /\ s.message = m
    BY DEF verify
  <2> HIDE DEF s
  <2>2. s.source = s.signer /\ s.source \in Honest => s.message = local_message[s.source]
    BY <1>m, <2>1 DEF s
  <2> QED BY <1>0, <1>1, <2>1, <2>2, ShareSent
<1>3. Signed(n, m)'
  <2>1. s \in sent' /\ s.type = "share" /\ s.source = n /\ s.signature = Sign(n, m)
    BY <1>0
  <2> QED BY <2>1 DEF Signed
<1>4. /\ RecordsAreGenuine'
      /\ signatures_by_message' \in [Honest -> [Messages -> SUBSET Peers]]
      /\ seen_signatures' \in [Honest -> [Peers -> Signature \cup {NoResult}]]
  <2>1. Signed(n, m)' /\ sent \subseteq sent' /\ add_signature(n, n, Sign(n, m), m)
    BY <1>m, <1>0, <1>3 DEF Start
  <2> QED BY <1>0, <2>1, RecordAdded
<1>5. ResultIsBacked'
  BY <1>0, ResultsKept DEF Start
<1>6. AccusedWereFramed'
  BY <1>0, AccusedKept DEF Start
<1>7. TypeOK'
  BY <1>0, <1>1, <1>4 DEF IInv, TypeOK, Start, Rounds, AggSigMessage
<1> QED BY <1>2, <1>4, <1>5, <1>6, <1>7 DEF IInv

LEMMA AcceptStep ==
    ASSUME IInv, NEW n \in Honest, NEW s \in sent, s.type = "share",
           AcceptShare(n, s), draining' \in [Honest -> BOOLEAN],
           UNCHANGED <<outcome, result>>
    PROVE  IInv'
<1> DEFINE t == [s EXCEPT !.source = n, !.sender = n]
<1>0. /\ s \in SignatureShare /\ n \in Peers
      /\ s.signer \in Peers /\ s.sender \in Peers /\ s.message \in Messages
      /\ s.signature = Sign(s.signer, s.message)
      /\ UNCHANGED local_message
  BY DEF IInv, TypeOK, AggSigMessage, SignatureShare, MaliciousReport, ProtocolComplete,
         AcceptShare, verify, Honest
<1>1. Signed(s.signer, s.message)
  BY <1>0, GossipAssumption DEF IInv, SharesAreGenuine, IsShare, Sign
<1>2. /\ t \in SignatureShare /\ t.source = n /\ t.signer = s.signer
      /\ t.message = s.message /\ t.signature = s.signature
  BY <1>0 DEF SignatureShare
<1>3. sent' = sent \/ sent' = sent \cup {t}
  BY DEF AcceptShare
<1>4. SharesAreGenuine' /\ HonestSharesVerify' /\ HonestSignOnce' /\ ReportsAreJust'
  <2>1. CASE sent' = sent
    BY <1>0, <2>1 DEF IInv, SharesAreGenuine, HonestSharesVerify, HonestSignOnce, ReportsAreJust,
                      Signed, IsShare, verify, Sign, Framed, FaultySent
  <2>2. CASE sent' = sent \cup {t}
    <3>1. verify(t.signer, t.message, t.signature) /\ Signed(t.signer, t.message)
      BY <1>0, <1>1, <1>2 DEF verify
    <3> HIDE DEF t
    <3> QED BY <1>0, <1>2, <2>2, <3>1, ShareSent
  <2> QED BY <1>3, <2>1, <2>2
<1>5. sent \subseteq sent'
  BY <1>3
<1>6. /\ RecordsAreGenuine'
      /\ signatures_by_message' \in [Honest -> [Messages -> SUBSET Peers]]
      /\ seen_signatures' \in [Honest -> [Peers -> Signature \cup {NoResult}]]
  <2>1. Signed(s.signer, s.message)'
    BY <1>1, <1>5, SignedStays
  <2>2. add_signature(n, s.sender, Sign(s.signer, s.message), s.message)
    BY <1>0 DEF AcceptShare
  <2> QED BY <1>0, <1>5, <2>1, <2>2, RecordAdded
<1>7. ResultIsBacked'
  BY <1>5, ResultsKept
<1>8. AccusedWereFramed'
  BY <1>5, AccusedKept DEF AcceptShare
<1>9. TypeOK'
  BY <1>0, <1>2, <1>3, <1>6 DEF IInv, TypeOK, AcceptShare, AggSigMessage
<1> QED BY <1>4, <1>6, <1>7, <1>8, <1>9 DEF IInv

LEMMA RejectStep ==
    ASSUME IInv, NEW n \in Honest, NEW s \in sent, s.type = "share",
           RejectShare(n, s), draining' \in [Honest -> BOOLEAN],
           UNCHANGED <<outcome, result>>
    PROVE  IInv'
<1> DEFINE r == [type |-> "report", source |-> n, operator |-> s.sender,
                 evidence |-> [kind |-> "InvalidSignature",
                               signature |-> s.signature, message |-> s.message]]
<1>0. s \in SignatureShare /\ s.sender \in Peers /\ r \in MaliciousReport
  BY DEF IInv, TypeOK, AggSigMessage, SignatureShare, MaliciousReport, ProtocolComplete,
         MaliciousEvidence, Honest
<1>1. s.source \in Faulty /\ ~ verify(s.signer, s.message, s.signature)
  BY <1>0 DEF IInv, HonestSharesVerify, IsShare, RejectShare, Honest, SignatureShare
<1>2. /\ sent' = sent \cup {r}
      /\ malicious' = [malicious EXCEPT ![n] = @ \cup {s.sender}]
      /\ UNCHANGED <<local_message, round, signatures_by_message, seen_signatures, regossiped>>
  BY DEF RejectShare, MarkMalicious
<1>3. Framed(s.sender)'
  <2>1. Framed(s.sender)
    BY <1>1 DEF Framed, FaultySent
  <2> QED BY <1>2, <2>1, FramedStays
<1>4. SharesAreGenuine' /\ HonestSharesVerify' /\ HonestSignOnce' /\ ReportsAreJust'
  <2>1. r.type # "share" /\ r.operator = s.sender
    OBVIOUS
  <2> HIDE DEF r
  <2> QED BY <1>2, <1>3, <2>1, SentGrows
<1>5. RecordsAreGenuine' /\ ResultIsBacked'
  BY <1>2, RecordsKept, ResultsKept
<1>6. AccusedWereFramed'
  BY <1>0, <1>2, <1>3, AccusedStep
<1>7. TypeOK'
  BY <1>0, <1>2 DEF IInv, TypeOK, AggSigMessage
<1> QED BY <1>4, <1>5, <1>6, <1>7 DEF IInv

\* A step that neither records, accuses, sends a share nor returns a result.
LEMMA QuietStep ==
    ASSUME IInv, TypeOK', UNCHANGED <<local_message, signatures_by_message, seen_signatures, result>>,
           UNCHANGED sent, AccusedWereFramed'
    PROVE  IInv'
<1>1. RecordsAreGenuine' /\ ResultIsBacked'
  BY RecordsKept, ResultsKept
<1>2. SharesAreGenuine' /\ HonestSharesVerify' /\ HonestSignOnce' /\ ReportsAreJust'
  BY DEF IInv, SharesAreGenuine, HonestSharesVerify, HonestSignOnce, ReportsAreJust, Signed,
         IsShare, verify, Sign, Framed, FaultySent
<1> QED BY <1>1, <1>2 DEF IInv

LEMMA ReceiveStep ==
    ASSUME IInv, NEW n \in Honest, NEW msg \in sent, Receive(n, msg)
    PROVE  IInv'
<1>0. draining' \in [Honest -> BOOLEAN] /\ UNCHANGED <<outcome, result>>
  BY DEF IInv, TypeOK, Receive, is_aggregator
<1>1. CASE msg.type = "share" /\ IgnoreShare(n, msg)
  <2>1. TypeOK'
    BY <1>0, <1>1 DEF IInv, TypeOK, IgnoreShare, local
  <2>2. AccusedWereFramed' /\ UNCHANGED <<local_message, signatures_by_message, seen_signatures, sent>>
    BY <1>1, AccusedKept DEF IgnoreShare, local
  <2> QED BY <1>0, <2>1, <2>2, QuietStep
<1>2. CASE msg.type = "share" /\ RejectShare(n, msg)
  BY <1>0, <1>2, RejectStep
<1>3. CASE msg.type = "share" /\ AcceptShare(n, msg)
  BY <1>0, <1>3, AcceptStep
<1>4. CASE msg.type = "report" /\ handle_malicious_report(n, msg)
  <2>1. msg.operator \in Peers
    BY <1>4 DEF IInv, TypeOK, AggSigMessage, SignatureShare, MaliciousReport, ProtocolComplete
  <2>2. TypeOK'
    BY <1>0, <1>4, <2>1 DEF IInv, TypeOK, handle_malicious_report
  <2>3. malicious' # malicious /\ msg.operator \in Honest => Framed(msg.operator)'
    BY <1>4, FramedStays DEF IInv, ReportsAreJust, handle_malicious_report
  <2>4. AccusedWereFramed'
    BY <1>4, <2>1, <2>3, AccusedStep DEF handle_malicious_report
  <2> QED BY <1>0, <1>4, <2>2, <2>4, QuietStep DEF handle_malicious_report
<1>5. CASE msg.type = "complete" /\ handle_protocol_complete(n, msg)
  <2>1. TypeOK' /\ AccusedWereFramed'
    BY <1>0, <1>5, AccusedKept DEF IInv, TypeOK, handle_protocol_complete, Rounds
  <2> QED BY <1>0, <1>5, <2>1, QuietStep DEF handle_protocol_complete
<1>6. msg.type \in {"share", "report", "complete"}
  BY DEF IInv, TypeOK, AggSigMessage, SignatureShare, MaliciousReport, ProtocolComplete
<1> QED BY <1>1, <1>2, <1>3, <1>4, <1>5, <1>6 DEF Receive

\* Returning a result, with or without a completion message.
LEMMA ReturnStep ==
    ASSUME IInv, NEW n \in Honest, NEW m \in Messages, Buildable(n, m), ReturnResult(n, m),
           UNCHANGED <<local_message, signatures_by_message, seen_signatures, malicious, regossiped>>,
           round' \in [Honest -> Rounds],
           sent' = sent \/ sent' = sent \cup {Complete(n, m)}
    PROVE  IInv'
<1>1. /\ Complete(n, m) \in ProtocolComplete
      /\ Complete(n, m).type = "complete"
  BY BuiltIsBacked DEF Complete, ProtocolComplete, Honest
<1>2. SharesAreGenuine' /\ HonestSharesVerify' /\ HonestSignOnce' /\ ReportsAreJust'
  BY <1>1, SentGrows
<1>3. RecordsAreGenuine'
  BY RecordsKept
<1>4. ResultIsBacked' /\ result' \in [Honest -> AggregationResult \cup {NoResult}]
  BY ResultAdded
<1>5. AccusedWereFramed'
  BY AccusedKept
<1>6. TypeOK'
  BY <1>1, <1>4 DEF IInv, TypeOK, ReturnResult, Return, AggSigMessage
<1> QED BY <1>2, <1>3, <1>4, <1>5, <1>6 DEF IInv

LEMMA HighestIsMessage ==
    ASSUME NEW n, NEW m \in get_highest_weight_message(n) PROVE m \in Messages
BY DEF get_highest_weight_message

LEMMA TickStep ==
    ASSUME IInv, NEW n \in Honest, Drained(n) \/ CheckTick(n)
    PROVE  IInv'
<1>0. UNCHANGED <<local_message, round, signatures_by_message, seen_signatures, malicious, regossiped>>
      /\ round' \in [Honest -> Rounds]
  BY DEF Drained, CheckTick, local, IInv, TypeOK
<1>1. ASSUME NEW m \in get_highest_weight_message(n), Buildable(n, m), ReturnResult(n, m),
             sent' = sent \cup {Complete(n, m)}
      PROVE  IInv'
  BY <1>0, <1>1, HighestIsMessage, ReturnStep
<1>2. CASE draining' = [draining EXCEPT ![n] = FALSE] /\ UNCHANGED <<outcome, result, sent>>
  <2>1. TypeOK' /\ AccusedWereFramed'
    BY <1>0, <1>2, AccusedKept DEF IInv, TypeOK
  <2> QED BY <1>0, <1>2, <2>1, QuietStep
<1> QED BY <1>1, <1>2 DEF Drained, CheckTick

LEMMA EndStep ==
    ASSUME IInv, NEW n \in Honest, CompletionTick(n) \/ Timeout(n)
    PROVE  IInv'
<1>0. /\ UNCHANGED <<local_message, signatures_by_message, seen_signatures, malicious, regossiped, sent>>
      /\ round' \in [Honest -> Rounds] /\ local_message[n] \in Messages
  BY DEF CompletionTick, Timeout, local, IInv, TypeOK, Rounds, Honest
<1>1. CASE Buildable(n, local_message[n]) /\ ReturnResult(n, local_message[n])
  BY <1>0, <1>1, ReturnStep
<1>2. CASE /\ Return(n, BuildError(n, local_message[n])) \/ Return(n, "Timeout")
           /\ UNCHANGED result
  <2>1. TypeOK' /\ AccusedWereFramed'
    BY <1>0, <1>2, AccusedKept DEF IInv, TypeOK, Return, BuildError
  <2> QED BY <1>0, <1>2, <2>1, QuietStep
<1> QED BY <1>1, <1>2 DEF CompletionTick, Timeout

LEMMA FaultyStep ==
    ASSUME IInv, NEW x \in FaultyMessages, FaultySend(x)
    PROVE  IInv'
<1>0. x \in AggSigMessage /\ x.source \in Faulty
  BY FaultyMessagesAssumption
<1>1. /\ sent' = sent \cup {x} /\ UNCHANGED <<draining, outcome, result>>
      /\ UNCHANGED <<local_message, round, signatures_by_message, seen_signatures, malicious, regossiped>>
      /\ \A g \in SignaturesIn(x) : Known(g)
  BY DEF FaultySend, local
<1>2. TypeOK' /\ AccusedWereFramed'
  BY <1>0, <1>1, AccusedKept DEF IInv, TypeOK
<1>3. RecordsAreGenuine' /\ ResultIsBacked'
  BY <1>1, RecordsKept, ResultsKept
<1>4. SharesAreGenuine' /\ HonestSharesVerify' /\ HonestSignOnce' /\ ReportsAreJust'
  <2>1. CASE x \in SignatureShare
    <3>1. Known(x.signature)
      BY <1>1, <2>1 DEF SignaturesIn, SignatureShare
    <3> QED BY <1>0, <1>1, <2>1, <3>1, FaultyShareSent
  <2>2. CASE x \in MaliciousReport
    <3>1. x.type # "share"
      BY <2>2 DEF MaliciousReport
    <3>2. ASSUME x.operator \in Honest, verify_malicious_evidence(x.operator, x.evidence)
          PROVE  Framed(x.operator)'
      BY <1>0, <1>1, <2>2, <3>2, FaultyReportSent
    <3> QED BY <1>1, <3>1, <3>2, SentGrows
  <2>3. CASE x \in ProtocolComplete
    <3>1. x.type = "complete"
      BY <2>3 DEF ProtocolComplete
    <3> QED BY <1>1, <3>1, SentGrows
  <2> QED BY <1>0, <2>1, <2>2, <2>3 DEF AggSigMessage
<1> QED BY <1>2, <1>3, <1>4 DEF IInv

LEMMA NextIInv == IInv /\ [Next]_vars => IInv'
<1> SUFFICES ASSUME IInv, [Next]_vars PROVE IInv'
  OBVIOUS
<1>1. CASE UNCHANGED vars
  <2>1. TypeOK' /\ AccusedWereFramed'
    BY <1>1, AccusedKept DEF IInv, TypeOK, vars
  <2> QED BY <1>1, <2>1, QuietStep DEF vars
<1>2. ASSUME NEW n \in Honest, Start(n) PROVE IInv'
  BY <1>2, StartStep
<1>3. ASSUME NEW n \in Honest, NEW msg \in sent, Receive(n, msg) PROVE IInv'
  BY <1>3, ReceiveStep
<1>4. ASSUME NEW n \in Honest, Drained(n) \/ CheckTick(n) PROVE IInv'
  BY <1>4, TickStep
<1>5. ASSUME NEW n \in Honest, CompletionTick(n) \/ Timeout(n) PROVE IInv'
  BY <1>5, EndStep
<1>6. ASSUME NEW x \in FaultyMessages, FaultySend(x) PROVE IInv'
  BY <1>6, FaultyStep
<1> QED BY <1>1, <1>2, <1>3, <1>4, <1>5, <1>6 DEF Next

-----------------------------------------------------------------------------
\* The inductive invariant holds throughout.
THEOREM Invariance == Spec => []IInv
BY InitIInv, NextIInv, PTL DEF Spec

\* Every field keeps its type.
THEOREM TypeCorrect == Spec => []TypeOK
<1>1. IInv => TypeOK
  BY DEF IInv
<1> QED BY <1>1, Invariance, PTL

\* A participant that follows the protocol is held to be malicious only after a faulty
\* participant framed it: by a share in its name that does not verify, or a report with
\* bytes that are not its signature (protocol.rs:230; malicious.rs:73-80).
THEOREM OnlyTheFaultyFrame == Spec => []AccusedWereFramed
<1>1. IInv => AccusedWereFramed
  BY DEF IInv
<1> QED BY <1>1, Invariance, PTL

\* A result aggregates genuine signatures of its message by enough participants.
THEOREM ResultsAreBacked == Spec => []ResultIsBacked
<1>1. IInv => ResultIsBacked
  BY DEF IInv
<1> QED BY <1>1, Invariance, PTL

\* When any two quorums share a participant that follows the protocol, all results are
\* for one message: that participant signed both messages, and it signs only its own.
THEOREM ResultsAgree ==
    ASSUME QuorumsOverlap
    PROVE  Spec => []Agreement
<1>1. IInv => Agreement
  <2> SUFFICES ASSUME IInv, NEW n \in Honest, NEW o \in Honest,
                      result[n] # NoResult, result[o] # NoResult
               PROVE  result[n].message = result[o].message
    BY DEF Agreement
  <2>1. result[n] \in AggregationResult /\ result[o] \in AggregationResult
    BY DEF IInv, TypeOK
  <2>2. /\ result[n].signers \in SUBSET Peers /\ result[o].signers \in SUBSET Peers
        /\ result[n].message \in Messages /\ result[o].message \in Messages
    BY <2>1 DEF AggregationResult
  <2>3. PICK p \in result[n].signers \cap result[o].signers : p \in Honest
    BY <2>2 DEF QuorumsOverlap, IInv, ResultIsBacked
  <2>4. Signed(p, result[n].message) /\ Signed(p, result[o].message)
    BY <2>3 DEF IInv, ResultIsBacked
  <2> QED BY <2>2, <2>3, <2>4 DEF IInv, HonestSignOnce
<1> QED BY <1>1, Invariance, PTL

-----------------------------------------------------------------------------
(***************************************************************************)
(* When do quorums overlap?                                                *)
(***************************************************************************)

\* The weight of a set of participants is a natural number, and does not shrink when
\* participants are added (protocol.rs, calculate_weight).
LEMMA WeightMonotone ==
    ASSUME NEW Q \in SUBSET Peers, NEW P \in SUBSET Q
    PROVE  /\ calculate_weight(P) \in Nat /\ calculate_weight(Q) \in Nat
           /\ calculate_weight(P) <= calculate_weight(Q)
<1> DEFINE w == [p \in Peers |-> weight(p)]
<1>1. \A p \in Peers : w[p] \in Nat
  BY WeightsAssumption DEF weight
<1>2. IsFiniteSet(Q)
  BY GossipAssumption, FS_Subset
<1> HIDE DEF w
<1>3. /\ SumFunctionOnSet(w, P) \in Nat /\ SumFunctionOnSet(w, Q) \in Nat
      /\ SumFunctionOnSet(w, P) <= SumFunctionOnSet(w, Q)
  BY <1>1, <1>2, SumMonotone
<1> QED
  BY <1>3 DEF calculate_weight, w

\* What two sets share is counted twice.
LEMMA WeightOfUnion ==
    ASSUME NEW P \in SUBSET Peers, NEW Q \in SUBSET Peers
    PROVE  calculate_weight(P) + calculate_weight(Q)
             = calculate_weight(P \cup Q) + calculate_weight(P \cap Q)
<1> DEFINE w == [p \in Peers |-> weight(p)]
           R == Q \ P
           I == P \cap Q
<1>1. \A p \in Peers : w[p] \in Nat
  BY WeightsAssumption DEF weight
<1>2. /\ IsFiniteSet(P) /\ IsFiniteSet(R) /\ IsFiniteSet(I)
      /\ P \cap R = {} /\ I \cap R = {} /\ P \cup R = P \cup Q /\ I \cup R = Q
  BY GossipAssumption, FS_Subset
<1>3. (\A p \in P \cup R : w[p] \in Nat) /\ (\A p \in I \cup R : w[p] \in Nat)
  BY <1>1
<1> HIDE DEF w, R, I
<1>4. /\ SumFunctionOnSet(w, P \cup Q) = SumFunctionOnSet(w, P) + SumFunctionOnSet(w, R)
      /\ SumFunctionOnSet(w, Q) = SumFunctionOnSet(w, I) + SumFunctionOnSet(w, R)
  BY <1>2, <1>3, SumUnion
<1>5. /\ SumFunctionOnSet(w, P) \in Nat /\ SumFunctionOnSet(w, R) \in Nat
      /\ SumFunctionOnSet(w, I) \in Nat
  BY <1>2, <1>3, SumType
<1>6. SumFunctionOnSet(w, P) + SumFunctionOnSet(w, Q)
        = SumFunctionOnSet(w, P \cup Q) + SumFunctionOnSet(w, I)
  BY <1>4, <1>5
<1> QED
  BY <1>6 DEF calculate_weight, w, I

\* When the threshold exceeds half of the whole weight and the faulty weight together,
\* any two quorums share a participant that follows the protocol (check_threshold).
THEOREM HeavyQuorumsOverlap == ASSUME FaultyMinority PROVE QuorumsOverlap
<1> SUFFICES ASSUME NEW P \in SUBSET Peers, NEW Q \in SUBSET Peers,
                    meets_threshold(P), meets_threshold(Q), P \cap Q \cap Honest = {}
             PROVE  FALSE
  BY DEF QuorumsOverlap
<1>1. P \cap Q \subseteq Faulty /\ Faulty \subseteq Peers /\ P \cup Q \subseteq Peers
  BY GossipAssumption DEF Honest
<1>2. /\ calculate_weight(P \cap Q) \in Nat /\ calculate_weight(Faulty) \in Nat
      /\ calculate_weight(P \cap Q) <= calculate_weight(Faulty)
  BY <1>1, WeightMonotone
<1>3. /\ calculate_weight(P \cup Q) \in Nat /\ calculate_weight(Peers) \in Nat
      /\ calculate_weight(P \cup Q) <= calculate_weight(Peers)
  BY <1>1, WeightMonotone
<1>4. calculate_weight(P) + calculate_weight(Q)
        = calculate_weight(P \cup Q) + calculate_weight(P \cap Q)
  BY WeightOfUnion
<1>5. calculate_weight(P) \in Nat /\ calculate_weight(Q) \in Nat /\ threshold_weight \in Nat
  <2>1. calculate_weight(P) \in Nat /\ calculate_weight(Q) \in Nat
    BY WeightMonotone
  <2>2. threshold_weight \in Nat
    <3>1. CASE ByStake
      <4>1. IsFiniteSet(DOMAIN operator_weights)
        BY WeightsAssumption
      <4>2. SumFunction(operator_weights) \in Nat
        BY <4>1, WeightsAssumption, SumType DEF SumFunction
      <4>3. SumFunction(operator_weights) * threshold_bps \in Nat
        BY <4>2, WeightsAssumption
      <4> QED
        BY <3>1, <4>3 DEF threshold_weight
    <3>2. CASE ~ ByStake
      <4>1. Cardinality(Peers) \in Nat
        BY GossipAssumption, FS_CardinalityType
      <4>2. (threshold_bps \div 100) % 256 \in Nat
        BY WeightsAssumption
      <4>3. Cardinality(Peers) * ((threshold_bps \div 100) % 256) \in Nat
        BY <4>1, <4>2
      <4> QED
        BY <3>2, <4>3 DEF threshold_weight
    <3> QED
      BY <3>1, <3>2
  <2> QED
    BY <2>1, <2>2
<1>6. calculate_weight(P) >= threshold_weight /\ calculate_weight(Q) >= threshold_weight
  BY DEF meets_threshold
<1> QED
  BY <1>2, <1>3, <1>4, <1>5, <1>6 DEF FaultyMinority

\* With such a threshold all results are for one message, although an equivocating
\* participant counts for every message it signs (protocol.rs, check_for_equivocation).
THEOREM HeavyResultsAgree == ASSUME FaultyMinority PROVE Spec => []Agreement
<1>1. QuorumsOverlap
  BY HeavyQuorumsOverlap
<1> QED
  BY <1>1, ResultsAgree
=============================================================================
