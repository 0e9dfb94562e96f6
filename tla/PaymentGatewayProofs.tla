------------------------ MODULE PaymentGatewayProofs ------------------------
(***************************************************************************)
(* Proofs about PaymentGateway, for every set of requests, jobs, payments  *)
(* and nonces, every policy and every time limit.                          *)
(***************************************************************************)
EXTENDS PaymentGateway, TLAPS

-----------------------------------------------------------------------------
\* The steps of a request after its payment was settled.
Working == {"drain", "policy", "reserve", "permission", "quote", "consume", "send", "accepted"}

(***************************************************************************)
(* A request past settlement is the one its payment was settled for, and   *)
(* an MPP request that was let in answers a challenge for its own job.     *)
(***************************************************************************)
PaidInv ==
    /\ \A r \in Requests : at[r] \in Working => Payment(r) \in settled
    /\ \A r, q \in Requests :
         at[r] \in Working /\ at[q] \in Working /\ Payment(r) = Payment(q) => r = q

AnswersOwnJob(r) ==
    /\ at[r] = "challenged" => challenge[r] \in Challenges
    /\ at[r] = "drain" => Request(r).protocol = "mpp"
    /\ Request(r).protocol = "mpp" /\ at[r] \in Working \cup {"verify", "settle"} =>
         challenge[r] \in Challenges /\ challenge[r].job = Route(r)

ChallengeInv == \A r \in Requests : AnswersOwnJob(r)

(***************************************************************************)
(* A payer is in one place at most, the cache or a request, and its        *)
(* payment was settled for the job of that place.                          *)
(***************************************************************************)
PaidFor(p, j) == p \in settled /\ \E q \in Requests : Payment(q) = p /\ Route(q) = j

PayersHavePaid ==
    \A r \in Requests : payer[r] # None => PaidFor(payer[r], Route(r))

CachedHavePaid ==
    \A id \in DOMAIN verified_payers : PaidFor(verified_payers[id].payment, id.job)

OnePlace ==
    /\ \A r, q \in Requests : payer[r] # None /\ payer[r] = payer[q] => r = q
    /\ \A id, jd \in DOMAIN verified_payers :
         verified_payers[id].payment = verified_payers[jd].payment => id = jd
    /\ \A id \in DOMAIN verified_payers, r \in Requests :
         verified_payers[id].payment # payer[r]

PayerInv == PayersHavePaid /\ CachedHavePaid /\ OnePlace

(***************************************************************************)
(* Whose payer a request, or an entry of the cache, can hold: an entry     *)
(* that of a request with the entry's challenge, a request its own or what *)
(* it found under its challenge.  Challenges are given to idle requests    *)
(* only, so that nobody's id changes later.                                *)
(***************************************************************************)
IdleInv == \A r \in Requests : at[r] = "idle" => challenge[r] = None

PayersAreNear ==
    \A r \in Requests :
      payer[r] # None =>
        \/ payer[r] = Payment(r)
        \/ \E q \in Requests : SharesChallenge(q, r) /\ Payment(q) = payer[r]

CachedAreNear ==
    \A id \in DOMAIN verified_payers :
      \E q \in Requests : challenge[q] = id /\ Payment(q) = verified_payers[id].payment

OwnerInv == IdleInv /\ PayersAreNear /\ CachedAreNear

CallerInv ==
    \A r \in Requests :
      /\ at[r] = "reserve" => Policy(Route(r)) = "delegated"
      /\ Policy(Route(r)) = "payer_is_caller"
           /\ at[r] \in {"permission", "quote", "consume", "send", "accepted"} =>
             payer[r] # None

(***************************************************************************)
(* A nonce that was reserved is remembered until it expires.               *)
(***************************************************************************)
NonceStepInv ==
    \A r \in Requests :
      /\ at[r] \in {"idle", "challenged", "verify", "settle", "drain", "policy", "reserve"} =>
           reserved_at[r] = None
      /\ at[r] = "reserve" => Sig(r) \in Signature

NoncesAreSeen ==
    \A r \in Requests :
      reserved_at[r] # None =>
        /\ Sig(r) \in Signature
        /\ Nonce(r) \in seen_nonces \/ Sig(r).expiry <= clock

NonceInv == NonceStepInv /\ NoncesAreSeen /\ NoncesStayTaken

ChannelInv ==
    /\ \A i \in DOMAIN payments : at[payments[i]] = "accepted"
    /\ \A r \in produced : at[r] = "accepted"

IInv ==
    /\ TypeOK /\ PaidInv /\ ChallengeInv /\ PayerInv /\ CallerInv /\ NonceInv /\ ChannelInv
    /\ NoPayerLeftBehind /\ OwnerInv

-----------------------------------------------------------------------------
\* What a scenario says of a request has its type.
LEMMA RequestType ==
    ASSUME TypeOK, NEW r \in Requests
    PROVE  /\ Route(r) \in Jobs /\ Request(r).asks \in Jobs
           /\ Payment(r) \in Payments /\ Payment(r) # None
           /\ Sig(r) \in Signature \cup {None}
           /\ Request(r).protocol \in {"x402", "mpp"}
           /\ Policy(Route(r)) \in Policies
  BY GatewayAssumption DEF TypeOK, IsScenario, Route, Request, Payment, Sig, Policy

\* Types; and that a job is sent once, for which the channel holds only accepted requests.
LEMMA TypeStep ==
    IInv /\ Next => TypeOK'
<1> SUFFICES ASSUME IInv, Next PROVE TypeOK'
  OBVIOUS
<1> USE RequestType
        DEF IInv, Goes, Route, Request, Payment, Sig, Policy, requestVars, channelVars
<1>1. ASSUME NEW r \in Requests, Client(r) \/ Handle(r)
      PROVE  TypeOK'
  <2>1. CASE IssueChallenge(r)
    <3>1. clock + challenge_ttl_secs \in Nat /\ Request(r).asks \in Jobs
      BY GatewayAssumption DEF TypeOK
    <3>2. challenge' \in [Requests -> Challenges \cup {None}]
      BY <2>1, <3>1 DEF IssueChallenge, TypeOK, Challenges
    <3> QED
      BY <2>1, <3>2 DEF IssueChallenge, TypeOK, Steps, Ends
  <2>2. CASE RefuseChallenge(r)
    BY <2>2 DEF RefuseChallenge, Reject, TypeOK, Steps, Ends, Challenges
  <2>3. CASE Post(r)
    BY <2>3 DEF Post, Pays, Payable, CredentialFits, TypeOK, Steps, Ends, Challenges
  <2>4. CASE RefusePayment(r)
    BY <2>4 DEF RefusePayment, Reject, Pays, TypeOK, Steps, Ends, Challenges
  <2>5. CASE Verify(r)
    BY <2>5 DEF Verify, TypeOK, Steps, Ends, Challenges
  <2>6. CASE VerifyFails(r)
    BY <2>6 DEF VerifyFails, Reject, TypeOK, Steps, Ends, Challenges
  <2>7. CASE Settle(r)
    <3>1. clock \in Nat
      BY GatewayAssumption DEF TypeOK
    <3>2. CASE Request(r).protocol = "mpp"
      <4>1. challenge[r] \in Challenges
        BY <2>7, <3>2 DEF Settle, ChallengeInv, AnswersOwnJob
      <4> QED
        BY <2>7, <3>1, <3>2, <4>1, SMTT(30)
        DEF Settle, PaymentSettled, With, TypeOK, Steps, Ends
    <3>3. CASE Request(r).protocol # "mpp"
      BY <2>7, <3>3, SMTT(30) DEF Settle, PaymentSettled, TypeOK, Steps, Ends
    <3> QED
      BY <3>2, <3>3
  <2>8. CASE SettleFails(r)
    BY <2>8 DEF SettleFails, TypeOK, Steps, Ends, Challenges
  <2>9. CASE Drain(r)
    BY <2>9 DEF Drain, Cached, Without, TypeOK, Steps, Ends, Challenges
  <2>10. CASE CheckPolicy(r)
    BY <2>10
    DEF CheckPolicy, resolve_job_policy, SignatureHolds, Policies, TypeOK, Steps, Ends, Challenges
  <2>11. CASE reserve(r)
    <3>1. clock \in Nat /\ Nonce(r) \in NonceEntry
      BY <2>11, GatewayAssumption
      DEF TypeOK, reserve, NonceInv, NonceStepInv, Signature, Nonce, NonceEntry
    <3>2. seen_nonces' \subseteq NonceEntry
      BY <2>11, <3>1 DEF reserve, Unexpired, TypeOK
    <3>3. reserved_at' \in [Requests -> Nat \cup {None}]
      BY <2>11, <3>1 DEF reserve, TypeOK
    <3>4. at' \in [Requests -> Steps \cup Ends]
      BY <2>11 DEF reserve, TypeOK, Steps, Ends
    <3> QED
      BY <2>11, <3>2, <3>3, <3>4 DEF reserve, TypeOK
  <2>12. CASE Permitted(r)
    BY <2>12 DEF Permitted, TypeOK, Steps, Ends, Challenges
  <2>13. CASE NotPermitted(r)
    BY <2>13 DEF NotPermitted, Reject, TypeOK, Steps, Ends, Challenges
  <2>14. CASE insert_dynamic(r)
    <3>1. PICK f \in Fractions :
            LET d == [job |-> Route(r), second |-> clock, fraction |-> f]
            IN  /\ digest' = [digest EXCEPT ![r] = d]
                /\ entries' = With(entries, d, [expires |-> clock + quote_ttl_secs,
                                                consumed |-> FALSE])
      BY <2>14 DEF insert_dynamic
    <3>2. clock \in Nat /\ clock + quote_ttl_secs \in Nat
      BY GatewayAssumption DEF TypeOK
    <3> DEFINE d == [job |-> Route(r), second |-> clock, fraction |-> f]
    <3>3. d \in Digests
      BY <3>2 DEF Digests
    <3> HIDE DEF d
    <3> QED
      BY <2>14, <3>1, <3>2, <3>3 DEF insert_dynamic, d, With, TypeOK, Steps, Ends
  <2>15. CASE consume(r)
    BY <2>15 DEF consume, Consumable, TypeOK, Steps, Ends, Challenges
  <2>16. CASE QuoteConflict(r)
    BY <2>16 DEF QuoteConflict, Reject, TypeOK, Steps, Ends, Challenges
  <2>17. CASE Send(r)
    <3>1. \A i \in DOMAIN payments : payments[i] # r
      BY <2>17 DEF Send, ChannelInv
    <3>2. r \notin produced
      BY <2>17 DEF Send, ChannelInv
    <3>3. /\ payments' = Append(payments, r) /\ payments \in Seq(Requests)
          /\ produced' = produced /\ produced \subseteq Requests
      BY <2>17 DEF Send, TypeOK
    <3>4. /\ payments' \in Seq(Requests) /\ Len(payments') = Len(payments) + 1
          /\ DOMAIN payments' = 1 .. Len(payments')
          /\ DOMAIN payments = 1 .. Len(payments)
          /\ payments'[Len(payments')] = r
          /\ \A i \in 1 .. Len(payments) : payments'[i] = payments[i]
      BY <3>3
    <3>5. /\ \A i, k \in DOMAIN payments' : payments'[i] = payments'[k] => i = k
          /\ \A i \in DOMAIN payments' : payments'[i] \notin produced'
      BY <3>1, <3>2, <3>3, <3>4 DEF TypeOK
    <3> QED
      BY <2>17, <3>4, <3>5 DEF Send, TypeOK, Steps, Ends
  <2>18. CASE ShuttingDown(r)
    BY <2>18 DEF ShuttingDown, Reject, TypeOK, Steps, Ends, Challenges
  <2>19. CASE Disconnect(r)
    BY <2>19 DEF Disconnect, TypeOK, Steps, Ends, Challenges
  <2> QED
    BY <1>1, <2>1, <2>2, <2>3, <2>4, <2>5, <2>6, <2>7, <2>8, <2>9, <2>10, <2>11, <2>12, <2>13,
       <2>14, <2>15, <2>16, <2>17, <2>18, <2>19 DEF Client, Handle
<1>2. CASE Yield
  BY <1>2 DEF Yield, TypeOK, Steps, Ends, Challenges
<1>3. CASE RunnerEnds
  BY <1>3 DEF RunnerEnds, TypeOK, Steps, Ends, Challenges
<1>4. CASE gc
  BY <1>4 DEF gc, Without, TypeOK, Steps, Ends, Challenges
<1>5. CASE run_payer_cache_gc
  BY <1>5 DEF run_payer_cache_gc, Without, TypeOK, Steps, Ends, Challenges
<1>6. CASE Tick
  BY <1>6, GatewayAssumption DEF Tick, TypeOK
<1> QED
  BY <1>1, <1>2, <1>3, <1>4, <1>5, <1>6 DEF Next

\* Only a first settlement lets a request work.
LEMMA PaidStep ==
    IInv /\ Next => PaidInv'
<1> SUFFICES ASSUME IInv, Next PROVE PaidInv'
  OBVIOUS
<1> USE RequestType
        DEF IInv, Goes, Route, Request, Payment, Sig, Policy, requestVars, channelVars
<1>1. ASSUME NEW r \in Requests, Client(r) \/ Handle(r)
      PROVE  PaidInv'
  <2>1. CASE IssueChallenge(r)
    BY <2>1 DEF IssueChallenge, Challenges, TypeOK, PaidInv, Working
  <2>2. CASE RefuseChallenge(r)
    BY <2>2 DEF RefuseChallenge, Reject, TypeOK, PaidInv, Working
  <2>3. CASE Post(r)
    BY <2>3 DEF Post, Pays, Payable, CredentialFits, TypeOK, PaidInv, Working
  <2>4. CASE RefusePayment(r)
    BY <2>4 DEF RefusePayment, Reject, Pays, TypeOK, PaidInv, Working
  <2>5. CASE Verify(r)
    BY <2>5 DEF Verify, TypeOK, PaidInv, Working
  <2>6. CASE VerifyFails(r)
    BY <2>6 DEF VerifyFails, Reject, TypeOK, PaidInv, Working
  <2>7. CASE Settle(r)
    BY <2>7 DEF Settle, PaymentSettled, With, TypeOK, PaidInv, Working
  <2>8. CASE SettleFails(r)
    BY <2>8 DEF SettleFails, TypeOK, PaidInv, Working
  <2>9. CASE Drain(r)
    BY <2>9 DEF Drain, Cached, Without, TypeOK, PaidInv, Working
  <2>10. CASE CheckPolicy(r)
    <3>1. /\ UNCHANGED <<scenario, settled>> /\ at[r] = "policy"
          /\ \A q \in Requests : q # r => at'[q] = at[q]
      BY <2>10 DEF CheckPolicy, TypeOK
    <3> QED
      BY <3>1 DEF PaidInv, Working
  <2>11. CASE reserve(r)
    BY <2>11 DEF reserve, Unexpired, Nonce, TypeOK, PaidInv, Working
  <2>12. CASE Permitted(r)
    BY <2>12 DEF Permitted, TypeOK, PaidInv, Working
  <2>13. CASE NotPermitted(r)
    BY <2>13 DEF NotPermitted, Reject, TypeOK, PaidInv, Working
  <2>14. CASE insert_dynamic(r)
    BY <2>14 DEF insert_dynamic, With, Digests, TypeOK, PaidInv, Working
  <2>15. CASE consume(r)
    BY <2>15 DEF consume, Consumable, TypeOK, PaidInv, Working
  <2>16. CASE QuoteConflict(r)
    BY <2>16 DEF QuoteConflict, Reject, TypeOK, PaidInv, Working
  <2>17. CASE Send(r)
    BY <2>17 DEF Send, TypeOK, PaidInv, Working
  <2>18. CASE ShuttingDown(r)
    BY <2>18 DEF ShuttingDown, Reject, TypeOK, PaidInv, Working
  <2>19. CASE Disconnect(r)
    BY <2>19 DEF Disconnect, TypeOK, PaidInv, Working
  <2> QED
    BY <1>1, <2>1, <2>2, <2>3, <2>4, <2>5, <2>6, <2>7, <2>8, <2>9, <2>10, <2>11, <2>12, <2>13,
       <2>14, <2>15, <2>16, <2>17, <2>18, <2>19 DEF Client, Handle
<1>2. CASE Yield
  BY <1>2 DEF Yield, TypeOK, PaidInv, Working
<1>3. CASE RunnerEnds
  BY <1>3 DEF RunnerEnds, TypeOK, PaidInv, Working
<1>4. CASE gc
  BY <1>4 DEF gc, Without, TypeOK, PaidInv, Working
<1>5. CASE run_payer_cache_gc
  BY <1>5 DEF run_payer_cache_gc, Without, TypeOK, PaidInv, Working
<1>6. CASE Tick
  BY <1>6 DEF Tick, TypeOK, PaidInv, Working
<1> QED
  BY <1>1, <1>2, <1>3, <1>4, <1>5, <1>6 DEF Next

\* A challenge is not changed once it is answered.
LEMMA ChallengeStep ==
    IInv /\ Next => ChallengeInv'
<1> SUFFICES ASSUME IInv, Next PROVE ChallengeInv'
  OBVIOUS
<1> USE RequestType
        DEF IInv, Goes, Route, Request, Payment, Sig, Policy, requestVars, channelVars
<1>1. ASSUME NEW r \in Requests, Client(r) \/ Handle(r)
      PROVE  ChallengeInv'
  <2>1. CASE IssueChallenge(r)
    <3>1. [job |-> Request(r).asks, expires |-> clock + challenge_ttl_secs] \in Challenges
      BY GatewayAssumption DEF TypeOK, Challenges
    <3> QED
      BY <2>1, <3>1 DEF IssueChallenge, TypeOK, ChallengeInv, AnswersOwnJob, Working
  <2>2. CASE RefuseChallenge(r)
    BY <2>2 DEF RefuseChallenge, Reject, TypeOK, ChallengeInv, AnswersOwnJob, Working
  <2>3. CASE Post(r)
    BY <2>3 DEF Post, Pays, Payable, CredentialFits, TypeOK, ChallengeInv, AnswersOwnJob, Working
  <2>4. CASE RefusePayment(r)
    BY <2>4 DEF RefusePayment, Reject, Pays, TypeOK, ChallengeInv, AnswersOwnJob, Working
  <2>5. CASE Verify(r)
    BY <2>5 DEF Verify, TypeOK, ChallengeInv, AnswersOwnJob, Working
  <2>6. CASE VerifyFails(r)
    BY <2>6 DEF VerifyFails, Reject, TypeOK, ChallengeInv, AnswersOwnJob, Working
  <2>7. CASE Settle(r)
    BY <2>7 DEF Settle, PaymentSettled, With, TypeOK, ChallengeInv, AnswersOwnJob, Working
  <2>8. CASE SettleFails(r)
    BY <2>8 DEF SettleFails, TypeOK, ChallengeInv, AnswersOwnJob, Working
  <2>9. CASE Drain(r)
    BY <2>9 DEF Drain, Cached, Without, TypeOK, ChallengeInv, AnswersOwnJob, Working
  <2>10. CASE CheckPolicy(r)
    BY <2>10
    DEF CheckPolicy, resolve_job_policy, SignatureHolds, Policies, TypeOK, ChallengeInv,
        AnswersOwnJob, Working
  <2>11. CASE reserve(r)
    BY <2>11 DEF reserve, Unexpired, Nonce, TypeOK, ChallengeInv, AnswersOwnJob, Working
  <2>12. CASE Permitted(r)
    BY <2>12 DEF Permitted, TypeOK, ChallengeInv, AnswersOwnJob, Working
  <2>13. CASE NotPermitted(r)
    BY <2>13 DEF NotPermitted, Reject, TypeOK, ChallengeInv, AnswersOwnJob, Working
  <2>14. CASE insert_dynamic(r)
    BY <2>14 DEF insert_dynamic, With, Digests, TypeOK, ChallengeInv, AnswersOwnJob, Working
  <2>15. CASE consume(r)
    BY <2>15 DEF consume, Consumable, TypeOK, ChallengeInv, AnswersOwnJob, Working
  <2>16. CASE QuoteConflict(r)
    BY <2>16 DEF QuoteConflict, Reject, TypeOK, ChallengeInv, AnswersOwnJob, Working
  <2>17. CASE Send(r)
    BY <2>17 DEF Send, TypeOK, ChallengeInv, AnswersOwnJob, Working
  <2>18. CASE ShuttingDown(r)
    BY <2>18 DEF ShuttingDown, Reject, TypeOK, ChallengeInv, AnswersOwnJob, Working
  <2>19. CASE Disconnect(r)
    BY <2>19 DEF Disconnect, TypeOK, ChallengeInv, AnswersOwnJob, Working
  <2> QED
    BY <1>1, <2>1, <2>2, <2>3, <2>4, <2>5, <2>6, <2>7, <2>8, <2>9, <2>10, <2>11, <2>12, <2>13,
       <2>14, <2>15, <2>16, <2>17, <2>18, <2>19 DEF Client, Handle
<1>2. CASE Yield
  BY <1>2 DEF Yield, TypeOK, ChallengeInv, AnswersOwnJob, Working
<1>3. CASE RunnerEnds
  BY <1>3 DEF RunnerEnds, TypeOK, ChallengeInv, AnswersOwnJob, Working
<1>4. CASE gc
  BY <1>4 DEF gc, Without, TypeOK, ChallengeInv, AnswersOwnJob, Working
<1>5. CASE run_payer_cache_gc
  BY <1>5 DEF run_payer_cache_gc, Without, TypeOK, ChallengeInv, AnswersOwnJob, Working
<1>6. CASE Tick
  BY <1>6 DEF Tick, TypeOK, ChallengeInv, AnswersOwnJob, Working
<1> QED
  BY <1>1, <1>2, <1>3, <1>4, <1>5, <1>6 DEF Next

\* A payer enters the cache at settlement, and leaves it for one request.
LEMMA PayerStep ==
    IInv /\ Next => PayerInv'
<1> SUFFICES ASSUME IInv, Next PROVE PayerInv'
  OBVIOUS
<1> USE RequestType
        DEF IInv, Goes, Route, Request, Payment, Sig, Policy, requestVars, channelVars
<1>1. ASSUME NEW r \in Requests, Client(r) \/ Handle(r)
      PROVE  PayerInv'
  <2>1. CASE IssueChallenge(r)
    BY <2>1
    DEF IssueChallenge, Challenges, TypeOK, PayerInv, PayersHavePaid, CachedHavePaid, OnePlace,
        PaidFor
  <2>2. CASE RefuseChallenge(r)
    BY <2>2
    DEF RefuseChallenge, Reject, TypeOK, PayerInv, PayersHavePaid, CachedHavePaid, OnePlace, PaidFor
  <2>3. CASE Post(r)
    BY <2>3
    DEF Post, Pays, Payable, CredentialFits, TypeOK, PayerInv, PayersHavePaid, CachedHavePaid,
        OnePlace, PaidFor
  <2>4. CASE RefusePayment(r)
    BY <2>4
    DEF RefusePayment, Reject, Pays, TypeOK, PayerInv, PayersHavePaid, CachedHavePaid, OnePlace,
        PaidFor
  <2>5. CASE Verify(r)
    BY <2>5 DEF Verify, TypeOK, PayerInv, PayersHavePaid, CachedHavePaid, OnePlace, PaidFor
  <2>6. CASE VerifyFails(r)
    BY <2>6
    DEF VerifyFails, Reject, TypeOK, PayerInv, PayersHavePaid, CachedHavePaid, OnePlace, PaidFor
  <2>7. CASE Settle(r)
    <3>1. Payment(r) \notin settled /\ settled' = settled \cup {Payment(r)}
          /\ scenario' = scenario
      BY <2>7 DEF Settle
    <3>2. /\ \A id \in DOMAIN verified_payers :
               verified_payers[id].payment \notin {Payment(r), None}
          /\ \A q \in Requests : payer[q] # Payment(r)
      BY <3>1, GatewayAssumption DEF PayerInv, PayersHavePaid, CachedHavePaid, PaidFor, TypeOK
    <3>3. CASE Request(r).protocol = "mpp"
      <4>1. /\ challenge[r].job = Route(r)
            /\ payer' = payer
            /\ DOMAIN verified_payers' = DOMAIN verified_payers \cup {challenge[r]}
            /\ verified_payers'[challenge[r]].payment = Payment(r)
            /\ \A id \in DOMAIN verified_payers :
                 id # challenge[r] => verified_payers'[id] = verified_payers[id]
        BY <2>7, <3>3 DEF Settle, PaymentSettled, With, ChallengeInv, AnswersOwnJob
      <4>2. PayersHavePaid'
        BY <3>1, <4>1 DEF PayerInv, PayersHavePaid, PaidFor
      <4>3. CachedHavePaid'
        BY <3>1, <4>1 DEF PayerInv, CachedHavePaid, PaidFor
      <4>4. OnePlace'
        <5>1. OnePlace
          BY DEF PayerInv
        <5>2. /\ \A p, q \in Requests : payer'[p] # None /\ payer'[p] = payer'[q] => p = q
              /\ \A id \in DOMAIN verified_payers', q \in Requests :
                   verified_payers'[id].payment # payer'[q]
          BY <3>2, <4>1, <5>1 DEF OnePlace
        <5>3. \A id, jd \in DOMAIN verified_payers' :
                verified_payers'[id].payment = verified_payers'[jd].payment => id = jd
          BY <3>2, <4>1, <5>1 DEF OnePlace
        <5> QED
          BY <5>2, <5>3 DEF OnePlace
      <4> QED
        BY <4>2, <4>3, <4>4 DEF PayerInv
    <3>4. CASE Request(r).protocol # "mpp"
      <4>1. PICK paid \in {Payment(r), None} : payer' = [payer EXCEPT ![r] = paid]
        BY <2>7, <3>4 DEF Settle, PaymentSettled
      <4>2. verified_payers' = verified_payers
        BY <2>7, <3>4 DEF Settle, PaymentSettled
      <4>3. payer'[r] = paid /\ \A q \in Requests : q # r => payer'[q] = payer[q]
        BY <4>1 DEF TypeOK
      <4>4. PayersHavePaid'
        BY <3>1, <4>3 DEF PayerInv, PayersHavePaid, PaidFor
      <4>5. CachedHavePaid'
        BY <3>1, <4>2 DEF PayerInv, CachedHavePaid, PaidFor
      <4>6. OnePlace'
        <5>1. OnePlace
          BY DEF PayerInv
        <5>2. /\ \A p, q \in Requests : payer'[p] # None /\ payer'[p] = payer'[q] => p = q
              /\ \A id \in DOMAIN verified_payers', q \in Requests :
                   verified_payers'[id].payment # payer'[q]
          BY <3>2, <4>1, <4>2, <4>3, <5>1 DEF OnePlace
        <5>3. \A id, jd \in DOMAIN verified_payers' :
                verified_payers'[id].payment = verified_payers'[jd].payment => id = jd
          BY <3>2, <4>1, <4>2, <4>3, <5>1 DEF OnePlace
        <5> QED
          BY <5>2, <5>3 DEF OnePlace
      <4> QED
        BY <4>4, <4>5, <4>6 DEF PayerInv
    <3> QED
      BY <3>3, <3>4
  <2>8. CASE SettleFails(r)
    BY <2>8 DEF SettleFails, TypeOK, PayerInv, PayersHavePaid, CachedHavePaid, OnePlace, PaidFor
  <2>9. CASE Drain(r)
    <3>1. /\ settled' = settled /\ scenario' = scenario
          /\ payer' = [payer EXCEPT ![r] = Cached(r)]
          /\ verified_payers' = Without(verified_payers, {challenge[r]})
          /\ challenge[r].job = Route(r)
      BY <2>9 DEF Drain, ChallengeInv, AnswersOwnJob, Working
    <3>2. /\ DOMAIN verified_payers' = DOMAIN verified_payers \ {challenge[r]}
          /\ \A id \in DOMAIN verified_payers' : verified_payers'[id] = verified_payers[id]
      BY <3>1 DEF Without
    <3>3. /\ payer'[r] = Cached(r)
          /\ \A q \in Requests : q # r => payer'[q] = payer[q]
      BY <3>1 DEF TypeOK
    <3>4. Cached(r) # None =>
            /\ challenge[r] \in DOMAIN verified_payers
            /\ Cached(r) = verified_payers[challenge[r]].payment
      BY DEF Cached
    <3>5. \A id \in DOMAIN verified_payers : verified_payers[id].payment # None
      BY GatewayAssumption DEF TypeOK
    <3>6. PayersHavePaid'
      BY <3>1, <3>3, <3>4 DEF PayerInv, PayersHavePaid, CachedHavePaid, PaidFor
    <3>7. CachedHavePaid'
      <4> SUFFICES ASSUME NEW id \in DOMAIN verified_payers'
                   PROVE  PaidFor(verified_payers[id].payment, id.job)'
        BY DEF CachedHavePaid
      <4>1. id \in DOMAIN verified_payers /\ verified_payers'[id] = verified_payers[id]
        BY <3>2
      <4>2. PaidFor(verified_payers[id].payment, id.job)
        BY <4>1 DEF PayerInv, CachedHavePaid
      <4> QED
        BY <3>1, <4>1, <4>2 DEF PaidFor
    <3>8. OnePlace'
      BY <3>2, <3>3, <3>4, <3>5 DEF PayerInv, OnePlace
    <3> QED
      BY <3>6, <3>7, <3>8 DEF PayerInv
  <2>10. CASE CheckPolicy(r)
    BY <2>10
    DEF CheckPolicy, resolve_job_policy, SignatureHolds, Policies, TypeOK, PayerInv,
        PayersHavePaid, CachedHavePaid, OnePlace, PaidFor
  <2>11. CASE reserve(r)
    BY <2>11
    DEF reserve, Unexpired, Nonce, TypeOK, PayerInv, PayersHavePaid, CachedHavePaid, OnePlace,
        PaidFor
  <2>12. CASE Permitted(r)
    BY <2>12 DEF Permitted, TypeOK, PayerInv, PayersHavePaid, CachedHavePaid, OnePlace, PaidFor
  <2>13. CASE NotPermitted(r)
    BY <2>13
    DEF NotPermitted, Reject, TypeOK, PayerInv, PayersHavePaid, CachedHavePaid, OnePlace, PaidFor
  <2>14. CASE insert_dynamic(r)
    BY <2>14
    DEF insert_dynamic, With, Digests, TypeOK, PayerInv, PayersHavePaid, CachedHavePaid,
        OnePlace, PaidFor
  <2>15. CASE consume(r)
    BY <2>15
    DEF consume, Consumable, TypeOK, PayerInv, PayersHavePaid, CachedHavePaid, OnePlace, PaidFor
  <2>16. CASE QuoteConflict(r)
    BY <2>16
    DEF QuoteConflict, Reject, TypeOK, PayerInv, PayersHavePaid, CachedHavePaid, OnePlace, PaidFor
  <2>17. CASE Send(r)
    BY <2>17 DEF Send, TypeOK, PayerInv, PayersHavePaid, CachedHavePaid, OnePlace, PaidFor
  <2>18. CASE ShuttingDown(r)
    BY <2>18
    DEF ShuttingDown, Reject, TypeOK, PayerInv, PayersHavePaid, CachedHavePaid, OnePlace, PaidFor
  <2>19. CASE Disconnect(r)
    BY <2>19 DEF Disconnect, TypeOK, PayerInv, PayersHavePaid, CachedHavePaid, OnePlace, PaidFor
  <2> QED
    BY <1>1, <2>1, <2>2, <2>3, <2>4, <2>5, <2>6, <2>7, <2>8, <2>9, <2>10, <2>11, <2>12, <2>13,
       <2>14, <2>15, <2>16, <2>17, <2>18, <2>19 DEF Client, Handle
<1>2. CASE Yield
  BY <1>2 DEF Yield, TypeOK, PayerInv, PayersHavePaid, CachedHavePaid, OnePlace, PaidFor
<1>3. CASE RunnerEnds
  BY <1>3 DEF RunnerEnds, TypeOK, PayerInv, PayersHavePaid, CachedHavePaid, OnePlace, PaidFor
<1>4. CASE gc
  BY <1>4 DEF gc, Without, TypeOK, PayerInv, PayersHavePaid, CachedHavePaid, OnePlace, PaidFor
<1>5. CASE run_payer_cache_gc
  BY <1>5
  DEF run_payer_cache_gc, Without, TypeOK, PayerInv, PayersHavePaid, CachedHavePaid, OnePlace,
      PaidFor
<1>6. CASE Tick
  BY <1>6 DEF Tick, TypeOK, PayerInv, PayersHavePaid, CachedHavePaid, OnePlace, PaidFor
<1> QED
  BY <1>1, <1>2, <1>3, <1>4, <1>5, <1>6 DEF Next

\* A request whose payer is its caller has one when it is authorized.
\* A request that has begun is not idle again.
LEMMA IdleOnce ==
    ASSUME TypeOK, Next, NEW q \in Requests, at'[q] = "idle"
    PROVE  at[q] = "idle"
<1>1. ASSUME NEW r \in Requests, NEW to, Goes(r, to), to # "idle" PROVE at[q] = "idle"
  BY <1>1 DEF Goes, TypeOK
<1>2. ASSUME NEW r \in Requests, Client(r) PROVE at[q] = "idle"
  BY <1>1, <1>2 DEF Client, IssueChallenge, RefuseChallenge, Post, RefusePayment, Disconnect, Reject
<1>3. ASSUME NEW r \in Requests, Handle(r) PROVE at[q] = "idle"
  <2>1. CASE Verify(r) \/ VerifyFails(r) \/ Settle(r) \/ SettleFails(r)
    BY <1>1, <2>1 DEF Verify, VerifyFails, Reject, Settle, SettleFails, PaymentSettled
  <2>2. CASE Drain(r)
    BY <1>1, <2>2 DEF Drain
  <2>3. CASE CheckPolicy(r)
    <3>1. resolve_job_policy(r) # "idle"
      BY DEF resolve_job_policy
    <3> QED
      BY <1>1, <2>3, <3>1 DEF CheckPolicy
  <2>4. CASE reserve(r) \/ Permitted(r) \/ NotPermitted(r)
    BY <1>1, <2>4 DEF reserve, Permitted, NotPermitted, Reject
  <2>5. CASE insert_dynamic(r) \/ consume(r) \/ QuoteConflict(r) \/ Send(r) \/ ShuttingDown(r)
    BY <1>1, <2>5 DEF insert_dynamic, consume, QuoteConflict, Send, ShuttingDown, Reject
  <2> QED
    BY <1>3, <2>1, <2>2, <2>3, <2>4, <2>5 DEF Handle
<1>4. CASE Yield \/ RunnerEnds \/ gc \/ run_payer_cache_gc \/ Tick
  BY <1>4 DEF Yield, RunnerEnds, gc, run_payer_cache_gc, Tick, requestVars
<1> QED
  BY <1>2, <1>3, <1>4 DEF Next

LEMMA OwnerStep ==
    IInv /\ Next => OwnerInv'
<1> SUFFICES ASSUME IInv, Next PROVE OwnerInv'
  OBVIOUS
<1>1. TypeOK /\ IdleInv /\ PayersAreNear /\ CachedAreNear
  BY DEF IInv, OwnerInv
<1>2. challenge' = challenge => IdleInv'
  BY <1>1, IdleOnce DEF IdleInv
<1>3. ASSUME UNCHANGED <<scenario, challenge, payer>>,
             DOMAIN verified_payers' \subseteq DOMAIN verified_payers,
             \A id \in DOMAIN verified_payers' : verified_payers'[id] = verified_payers[id]
      PROVE  OwnerInv'
  BY <1>1, <1>2, <1>3 DEF OwnerInv, PayersAreNear, CachedAreNear, SharesChallenge, Payment, Request
<1>4. ASSUME NEW r \in Requests, IssueChallenge(r) PROVE OwnerInv'
  <2>1. /\ at[r] = "idle" /\ challenge[r] = None
        /\ UNCHANGED <<scenario, payer, verified_payers>>
    BY <1>1, <1>4 DEF IssueChallenge, IdleInv
  <2>2. \A q \in Requests : q # r => challenge'[q] = challenge[q]
    BY <1>1, <1>4 DEF IssueChallenge, TypeOK
  <2>3. IdleInv'
    <3>1. at'[r] # "idle"
      BY <1>1, <1>4 DEF IssueChallenge, Goes, TypeOK
    <3> QED
      BY <1>1, <2>2, <3>1, IdleOnce DEF IdleInv
  <2>4. PayersAreNear'
    BY <1>1, <2>1, <2>2 DEF PayersAreNear, SharesChallenge, Payment, Request
  <2>5. CachedAreNear'
    <3>1. \A id \in DOMAIN verified_payers : id # None
      BY <1>1, NoneAssumption DEF TypeOK
    <3> QED
      BY <1>1, <2>1, <2>2, <3>1 DEF CachedAreNear, Payment, Request
  <2> QED
    BY <2>3, <2>4, <2>5 DEF OwnerInv
<1>5. ASSUME NEW r \in Requests, Settle(r) PROVE OwnerInv'
  <2>1. UNCHANGED <<scenario, challenge>>
    BY <1>5 DEF Settle
  <2>2. CASE Request(r).protocol = "mpp"
    <3>1. /\ payer' = payer
          /\ DOMAIN verified_payers' = DOMAIN verified_payers \cup {challenge[r]}
          /\ verified_payers'[challenge[r]].payment = Payment(r)
          /\ \A id \in DOMAIN verified_payers :
               id # challenge[r] => verified_payers'[id] = verified_payers[id]
      BY <1>5, <2>2 DEF Settle, PaymentSettled, With
    <3>2. PayersAreNear'
      BY <1>1, <2>1, <3>1 DEF PayersAreNear, SharesChallenge, Payment, Request
    <3>3. CachedAreNear'
      BY <1>1, <2>1, <3>1 DEF CachedAreNear, Payment, Request
    <3> QED
      BY <1>2, <2>1, <3>2, <3>3 DEF OwnerInv
  <2>3. CASE Request(r).protocol # "mpp"
    <3>1. /\ verified_payers' = verified_payers
          /\ payer'[r] \in {Payment(r), None}
          /\ \A q \in Requests : q # r => payer'[q] = payer[q]
      BY <1>1, <1>5, <2>3 DEF Settle, PaymentSettled, TypeOK
    <3>2. PayersAreNear'
      BY <1>1, <2>1, <3>1 DEF PayersAreNear, SharesChallenge, Payment, Request
    <3>3. CachedAreNear'
      BY <1>1, <2>1, <3>1 DEF CachedAreNear, Payment, Request
    <3> QED
      BY <1>2, <2>1, <3>2, <3>3 DEF OwnerInv
  <2> QED
    BY <2>2, <2>3
<1>6. ASSUME NEW r \in Requests, Drain(r) PROVE OwnerInv'
  <2>1. /\ UNCHANGED <<scenario, challenge>>
        /\ payer'[r] = Cached(r)
        /\ \A q \in Requests : q # r => payer'[q] = payer[q]
    BY <1>1, <1>6 DEF Drain, TypeOK
  <2>2. /\ DOMAIN verified_payers' \subseteq DOMAIN verified_payers
        /\ \A id \in DOMAIN verified_payers' : verified_payers'[id] = verified_payers[id]
    BY <1>6 DEF Drain, Without
  <2>3. challenge[r] # None
    <3>1. challenge[r] \in Challenges
      BY <1>6 DEF Drain, IInv, ChallengeInv, AnswersOwnJob, Working
    <3> QED
      BY <3>1, NoneAssumption
  <2>4. Cached(r) # None => \E q \in Requests : SharesChallenge(q, r) /\ Payment(q) = Cached(r)
    BY <1>1, <2>3 DEF Cached, CachedAreNear, SharesChallenge
  <2>5. PayersAreNear'
    BY <1>1, <2>1, <2>4 DEF PayersAreNear, SharesChallenge, Payment, Request
  <2>6. CachedAreNear'
    BY <1>1, <2>1, <2>2 DEF CachedAreNear, Payment, Request
  <2> QED
    BY <1>2, <2>1, <2>5, <2>6 DEF OwnerInv
<1>7. CASE run_payer_cache_gc
  <2>1. UNCHANGED <<scenario, challenge, payer>>
    BY <1>7 DEF run_payer_cache_gc, requestVars
  <2>2. /\ DOMAIN verified_payers' \subseteq DOMAIN verified_payers
        /\ \A id \in DOMAIN verified_payers' : verified_payers'[id] = verified_payers[id]
    BY <1>7 DEF run_payer_cache_gc, Without
  <2> QED
    BY <1>3, <2>1, <2>2
<1>8. ASSUME UNCHANGED <<scenario, challenge, payer, verified_payers>> PROVE OwnerInv'
  BY <1>3, <1>8
<1>9. ASSUME NEW r \in Requests, Client(r) PROVE OwnerInv'
  BY <1>4, <1>8, <1>9 DEF Client, RefuseChallenge, Post, RefusePayment, Disconnect, Reject
<1>10. ASSUME NEW r \in Requests, Handle(r) PROVE OwnerInv'
  <2>1. CASE Verify(r) \/ VerifyFails(r) \/ SettleFails(r) \/ CheckPolicy(r) \/ reserve(r)
    BY <1>8, <2>1 DEF Verify, VerifyFails, Reject, SettleFails, CheckPolicy, reserve
  <2>2. CASE Permitted(r) \/ NotPermitted(r) \/ insert_dynamic(r) \/ consume(r)
    BY <1>8, <2>2 DEF Permitted, NotPermitted, Reject, insert_dynamic, consume
  <2>3. CASE QuoteConflict(r) \/ Send(r) \/ ShuttingDown(r)
    BY <1>8, <2>3 DEF QuoteConflict, Send, ShuttingDown, Reject
  <2> QED
    BY <1>5, <1>6, <1>10, <2>1, <2>2, <2>3 DEF Handle
<1>11. CASE Yield \/ RunnerEnds \/ gc \/ Tick
  BY <1>8, <1>11 DEF Yield, RunnerEnds, gc, Tick, requestVars
<1> QED
  BY <1>7, <1>9, <1>10, <1>11 DEF Next

LEMMA CallerStep ==
    IInv /\ Next => CallerInv'
<1> SUFFICES ASSUME IInv, Next PROVE CallerInv'
  OBVIOUS
<1> USE RequestType
        DEF IInv, Goes, Route, Request, Payment, Sig, Policy, requestVars, channelVars
<1>1. ASSUME NEW r \in Requests, Client(r) \/ Handle(r)
      PROVE  CallerInv'
  <2>1. CASE IssueChallenge(r)
    BY <2>1 DEF IssueChallenge, Challenges, TypeOK, CallerInv
  <2>2. CASE RefuseChallenge(r)
    BY <2>2 DEF RefuseChallenge, Reject, TypeOK, CallerInv
  <2>3. CASE Post(r)
    BY <2>3 DEF Post, Pays, Payable, CredentialFits, TypeOK, CallerInv
  <2>4. CASE RefusePayment(r)
    BY <2>4 DEF RefusePayment, Reject, Pays, TypeOK, CallerInv
  <2>5. CASE Verify(r)
    BY <2>5 DEF Verify, TypeOK, CallerInv
  <2>6. CASE VerifyFails(r)
    BY <2>6 DEF VerifyFails, Reject, TypeOK, CallerInv
  <2>7. CASE Settle(r)
    BY <2>7 DEF Settle, PaymentSettled, With, TypeOK, CallerInv
  <2>8. CASE SettleFails(r)
    BY <2>8 DEF SettleFails, TypeOK, CallerInv
  <2>9. CASE Drain(r)
    BY <2>9 DEF Drain, Cached, Without, TypeOK, CallerInv
  <2>10. CASE CheckPolicy(r)
    BY <2>10 DEF CheckPolicy, resolve_job_policy, SignatureHolds, Policies, TypeOK, CallerInv
  <2>11. CASE reserve(r)
    <3>1. Policy(Route(r)) # "payer_is_caller"
      BY <2>11 DEF reserve, CallerInv, Policies
    <3> QED
      BY <2>11, <3>1 DEF reserve, TypeOK, CallerInv
  <2>12. CASE Permitted(r)
    BY <2>12 DEF Permitted, TypeOK, CallerInv
  <2>13. CASE NotPermitted(r)
    BY <2>13 DEF NotPermitted, Reject, TypeOK, CallerInv
  <2>14. CASE insert_dynamic(r)
    BY <2>14 DEF insert_dynamic, With, Digests, TypeOK, CallerInv
  <2>15. CASE consume(r)
    BY <2>15 DEF consume, Consumable, TypeOK, CallerInv
  <2>16. CASE QuoteConflict(r)
    BY <2>16 DEF QuoteConflict, Reject, TypeOK, CallerInv
  <2>17. CASE Send(r)
    BY <2>17 DEF Send, TypeOK, CallerInv
  <2>18. CASE ShuttingDown(r)
    BY <2>18 DEF ShuttingDown, Reject, TypeOK, CallerInv
  <2>19. CASE Disconnect(r)
    BY <2>19 DEF Disconnect, TypeOK, CallerInv
  <2> QED
    BY <1>1, <2>1, <2>2, <2>3, <2>4, <2>5, <2>6, <2>7, <2>8, <2>9, <2>10, <2>11, <2>12, <2>13,
       <2>14, <2>15, <2>16, <2>17, <2>18, <2>19 DEF Client, Handle
<1>2. CASE Yield
  BY <1>2 DEF Yield, TypeOK, CallerInv
<1>3. CASE RunnerEnds
  BY <1>3 DEF RunnerEnds, TypeOK, CallerInv
<1>4. CASE gc
  BY <1>4 DEF gc, Without, TypeOK, CallerInv
<1>5. CASE run_payer_cache_gc
  BY <1>5 DEF run_payer_cache_gc, Without, TypeOK, CallerInv
<1>6. CASE Tick
  BY <1>6 DEF Tick, TypeOK, CallerInv
<1> QED
  BY <1>1, <1>2, <1>3, <1>4, <1>5, <1>6 DEF Next

\* A request reserves its nonce once.
LEMMA NonceStepStep ==
    IInv /\ Next => NonceStepInv'
<1> SUFFICES ASSUME IInv, Next PROVE NonceStepInv'
  OBVIOUS
<1> USE RequestType
        DEF IInv, Goes, Route, Request, Payment, Sig, Policy, requestVars, channelVars
<1>1. ASSUME NEW r \in Requests, Client(r) \/ Handle(r)
      PROVE  NonceStepInv'
  <2>1. CASE IssueChallenge(r)
    BY <2>1 DEF IssueChallenge, Challenges, TypeOK, NonceInv, NonceStepInv
  <2>2. CASE RefuseChallenge(r)
    BY <2>2 DEF RefuseChallenge, Reject, TypeOK, NonceInv, NonceStepInv
  <2>3. CASE Post(r)
    BY <2>3 DEF Post, Pays, Payable, CredentialFits, TypeOK, NonceInv, NonceStepInv
  <2>4. CASE RefusePayment(r)
    BY <2>4 DEF RefusePayment, Reject, Pays, TypeOK, NonceInv, NonceStepInv
  <2>5. CASE Verify(r)
    BY <2>5 DEF Verify, TypeOK, NonceInv, NonceStepInv
  <2>6. CASE VerifyFails(r)
    BY <2>6 DEF VerifyFails, Reject, TypeOK, NonceInv, NonceStepInv
  <2>7. CASE Settle(r)
    BY <2>7 DEF Settle, PaymentSettled, With, TypeOK, NonceInv, NonceStepInv
  <2>8. CASE SettleFails(r)
    BY <2>8 DEF SettleFails, TypeOK, NonceInv, NonceStepInv
  <2>9. CASE Drain(r)
    BY <2>9 DEF Drain, Cached, Without, TypeOK, NonceInv, NonceStepInv
  <2>10. CASE CheckPolicy(r)
    BY <2>10
    DEF CheckPolicy, resolve_job_policy, SignatureHolds, Policies, TypeOK, NonceInv, NonceStepInv
  <2>11. CASE reserve(r)
    BY <2>11 DEF reserve, Unexpired, Nonce, TypeOK, NonceInv, NonceStepInv
  <2>12. CASE Permitted(r)
    BY <2>12 DEF Permitted, TypeOK, NonceInv, NonceStepInv
  <2>13. CASE NotPermitted(r)
    BY <2>13 DEF NotPermitted, Reject, TypeOK, NonceInv, NonceStepInv
  <2>14. CASE insert_dynamic(r)
    BY <2>14 DEF insert_dynamic, With, Digests, TypeOK, NonceInv, NonceStepInv
  <2>15. CASE consume(r)
    BY <2>15 DEF consume, Consumable, TypeOK, NonceInv, NonceStepInv
  <2>16. CASE QuoteConflict(r)
    BY <2>16 DEF QuoteConflict, Reject, TypeOK, NonceInv, NonceStepInv
  <2>17. CASE Send(r)
    BY <2>17 DEF Send, TypeOK, NonceInv, NonceStepInv
  <2>18. CASE ShuttingDown(r)
    BY <2>18 DEF ShuttingDown, Reject, TypeOK, NonceInv, NonceStepInv
  <2>19. CASE Disconnect(r)
    BY <2>19 DEF Disconnect, TypeOK, NonceInv, NonceStepInv
  <2> QED
    BY <1>1, <2>1, <2>2, <2>3, <2>4, <2>5, <2>6, <2>7, <2>8, <2>9, <2>10, <2>11, <2>12, <2>13,
       <2>14, <2>15, <2>16, <2>17, <2>18, <2>19 DEF Client, Handle
<1>2. CASE Yield
  BY <1>2 DEF Yield, TypeOK, NonceInv, NonceStepInv
<1>3. CASE RunnerEnds
  BY <1>3 DEF RunnerEnds, TypeOK, NonceInv, NonceStepInv
<1>4. CASE gc
  BY <1>4 DEF gc, Without, TypeOK, NonceInv, NonceStepInv
<1>5. CASE run_payer_cache_gc
  BY <1>5 DEF run_payer_cache_gc, Without, TypeOK, NonceInv, NonceStepInv
<1>6. CASE Tick
  BY <1>6 DEF Tick, TypeOK, NonceInv, NonceStepInv
<1> QED
  BY <1>1, <1>2, <1>3, <1>4, <1>5, <1>6 DEF Next

\* What was accepted stays accepted.
LEMMA ChannelStep ==
    IInv /\ Next => ChannelInv'
<1> SUFFICES ASSUME IInv, Next PROVE ChannelInv'
  OBVIOUS
<1> USE RequestType
        DEF IInv, Goes, Route, Request, Payment, Sig, Policy, requestVars, channelVars
<1>1. ASSUME NEW r \in Requests, Client(r) \/ Handle(r)
      PROVE  ChannelInv'
  <2>1. CASE IssueChallenge(r)
    BY <2>1 DEF IssueChallenge, Challenges, TypeOK, ChannelInv
  <2>2. CASE RefuseChallenge(r)
    BY <2>2 DEF RefuseChallenge, Reject, TypeOK, ChannelInv
  <2>3. CASE Post(r)
    BY <2>3 DEF Post, Pays, Payable, CredentialFits, TypeOK, ChannelInv
  <2>4. CASE RefusePayment(r)
    BY <2>4 DEF RefusePayment, Reject, Pays, TypeOK, ChannelInv
  <2>5. CASE Verify(r)
    BY <2>5 DEF Verify, TypeOK, ChannelInv
  <2>6. CASE VerifyFails(r)
    BY <2>6 DEF VerifyFails, Reject, TypeOK, ChannelInv
  <2>7. CASE Settle(r)
    BY <2>7 DEF Settle, PaymentSettled, With, TypeOK, ChannelInv
  <2>8. CASE SettleFails(r)
    BY <2>8 DEF SettleFails, TypeOK, ChannelInv
  <2>9. CASE Drain(r)
    BY <2>9 DEF Drain, Cached, Without, TypeOK, ChannelInv
  <2>10. CASE CheckPolicy(r)
    BY <2>10 DEF CheckPolicy, resolve_job_policy, SignatureHolds, Policies, TypeOK, ChannelInv
  <2>11. CASE reserve(r)
    BY <2>11 DEF reserve, Unexpired, Nonce, TypeOK, ChannelInv
  <2>12. CASE Permitted(r)
    BY <2>12 DEF Permitted, TypeOK, ChannelInv
  <2>13. CASE NotPermitted(r)
    BY <2>13 DEF NotPermitted, Reject, TypeOK, ChannelInv
  <2>14. CASE insert_dynamic(r)
    BY <2>14 DEF insert_dynamic, With, Digests, TypeOK, ChannelInv
  <2>15. CASE consume(r)
    BY <2>15 DEF consume, Consumable, TypeOK, ChannelInv
  <2>16. CASE QuoteConflict(r)
    BY <2>16 DEF QuoteConflict, Reject, TypeOK, ChannelInv
  <2>17. CASE Send(r)
    BY <2>17 DEF Send, TypeOK, ChannelInv
  <2>18. CASE ShuttingDown(r)
    BY <2>18 DEF ShuttingDown, Reject, TypeOK, ChannelInv
  <2>19. CASE Disconnect(r)
    BY <2>19 DEF Disconnect, TypeOK, ChannelInv
  <2> QED
    BY <1>1, <2>1, <2>2, <2>3, <2>4, <2>5, <2>6, <2>7, <2>8, <2>9, <2>10, <2>11, <2>12, <2>13,
       <2>14, <2>15, <2>16, <2>17, <2>18, <2>19 DEF Client, Handle
<1>2. CASE Yield
  BY <1>2 DEF Yield, TypeOK, ChannelInv
<1>3. CASE RunnerEnds
  BY <1>3 DEF RunnerEnds, TypeOK, ChannelInv
<1>4. CASE gc
  BY <1>4 DEF gc, Without, TypeOK, ChannelInv
<1>5. CASE run_payer_cache_gc
  BY <1>5 DEF run_payer_cache_gc, Without, TypeOK, ChannelInv
<1>6. CASE Tick
  BY <1>6 DEF Tick, TypeOK, ChannelInv
<1> QED
  BY <1>1, <1>2, <1>3, <1>4, <1>5, <1>6 DEF Next

\* An entry is inserted by a request that takes it next.
LEMMA CacheStep ==
    IInv /\ Next => NoPayerLeftBehind'
<1> SUFFICES ASSUME IInv, Next PROVE NoPayerLeftBehind'
  OBVIOUS
<1> USE RequestType
        DEF IInv, Goes, Route, Request, Payment, Sig, Policy, requestVars, channelVars
<1>1. ASSUME NEW r \in Requests, Client(r) \/ Handle(r)
      PROVE  NoPayerLeftBehind'
  <2>1. CASE IssueChallenge(r)
    BY <2>1 DEF IssueChallenge, Challenges, TypeOK, NoPayerLeftBehind
  <2>2. CASE RefuseChallenge(r)
    BY <2>2 DEF RefuseChallenge, Reject, TypeOK, NoPayerLeftBehind
  <2>3. CASE Post(r)
    BY <2>3 DEF Post, Pays, Payable, CredentialFits, TypeOK, NoPayerLeftBehind
  <2>4. CASE RefusePayment(r)
    BY <2>4 DEF RefusePayment, Reject, Pays, TypeOK, NoPayerLeftBehind
  <2>5. CASE Verify(r)
    BY <2>5 DEF Verify, TypeOK, NoPayerLeftBehind
  <2>6. CASE VerifyFails(r)
    BY <2>6 DEF VerifyFails, Reject, TypeOK, NoPayerLeftBehind
  <2>7. CASE Settle(r)
    BY <2>7 DEF Settle, PaymentSettled, With, TypeOK, NoPayerLeftBehind
  <2>8. CASE SettleFails(r)
    BY <2>8 DEF SettleFails, TypeOK, NoPayerLeftBehind
  <2>9. CASE Drain(r)
    BY <2>9 DEF Drain, Cached, Without, TypeOK, NoPayerLeftBehind
  <2>10. CASE CheckPolicy(r)
    BY <2>10
    DEF CheckPolicy, resolve_job_policy, SignatureHolds, Policies, TypeOK, NoPayerLeftBehind
  <2>11. CASE reserve(r)
    BY <2>11 DEF reserve, Unexpired, Nonce, TypeOK, NoPayerLeftBehind
  <2>12. CASE Permitted(r)
    BY <2>12 DEF Permitted, TypeOK, NoPayerLeftBehind
  <2>13. CASE NotPermitted(r)
    BY <2>13 DEF NotPermitted, Reject, TypeOK, NoPayerLeftBehind
  <2>14. CASE insert_dynamic(r)
    BY <2>14 DEF insert_dynamic, With, Digests, TypeOK, NoPayerLeftBehind
  <2>15. CASE consume(r)
    BY <2>15 DEF consume, Consumable, TypeOK, NoPayerLeftBehind
  <2>16. CASE QuoteConflict(r)
    BY <2>16 DEF QuoteConflict, Reject, TypeOK, NoPayerLeftBehind
  <2>17. CASE Send(r)
    BY <2>17 DEF Send, TypeOK, NoPayerLeftBehind
  <2>18. CASE ShuttingDown(r)
    BY <2>18 DEF ShuttingDown, Reject, TypeOK, NoPayerLeftBehind
  <2>19. CASE Disconnect(r)
    BY <2>19 DEF Disconnect, TypeOK, NoPayerLeftBehind
  <2> QED
    BY <1>1, <2>1, <2>2, <2>3, <2>4, <2>5, <2>6, <2>7, <2>8, <2>9, <2>10, <2>11, <2>12, <2>13,
       <2>14, <2>15, <2>16, <2>17, <2>18, <2>19 DEF Client, Handle
<1>2. CASE Yield
  BY <1>2 DEF Yield, TypeOK, NoPayerLeftBehind
<1>3. CASE RunnerEnds
  BY <1>3 DEF RunnerEnds, TypeOK, NoPayerLeftBehind
<1>4. CASE gc
  BY <1>4 DEF gc, Without, TypeOK, NoPayerLeftBehind
<1>5. CASE run_payer_cache_gc
  BY <1>5 DEF run_payer_cache_gc, Without, TypeOK, NoPayerLeftBehind
<1>6. CASE Tick
  BY <1>6 DEF Tick, TypeOK, NoPayerLeftBehind
<1> QED
  BY <1>1, <1>2, <1>3, <1>4, <1>5, <1>6 DEF Next

-----------------------------------------------------------------------------
\* All but reserve leave the nonces alone, and time does not go back.
LEMMA NoncesLeft ==
    ASSUME IInv, Next
    PROVE  \/ \E r \in Requests : reserve(r)
           \/ UNCHANGED <<scenario, reserved_at, seen_nonces>> /\ clock <= clock'
<1>1. clock <= clock
  BY GatewayAssumption DEF IInv, TypeOK
<1>2. ASSUME NEW r \in Requests, Client(r)
      PROVE  UNCHANGED <<scenario, reserved_at, seen_nonces, clock>>
  BY <1>2 DEF Client, IssueChallenge, RefuseChallenge, Post, RefusePayment, Disconnect, Reject
<1>3. ASSUME NEW r \in Requests, Handle(r)
      PROVE  reserve(r) \/ UNCHANGED <<scenario, reserved_at, seen_nonces, clock>>
  BY <1>3
  DEF Handle, Reject, Verify, VerifyFails, Settle, SettleFails, Drain, CheckPolicy, Permitted,
      NotPermitted, insert_dynamic, consume, QuoteConflict, Send, ShuttingDown
<1>4. CASE Yield \/ RunnerEnds \/ gc \/ run_payer_cache_gc
  BY <1>1, <1>4 DEF Yield, RunnerEnds, gc, run_payer_cache_gc, requestVars
<1>5. CASE Tick
  BY <1>5, GatewayAssumption DEF Tick, IInv, TypeOK, requestVars
<1> QED
  BY <1>1, <1>2, <1>3, <1>4, <1>5 DEF Next

(***************************************************************************)
(* The sweep of reserve forgets what has expired; what has not makes       *)
(* another request with the same nonce fail.                               *)
(***************************************************************************)
LEMMA NonceStep ==
    IInv /\ Next => NoncesAreSeen' /\ NoncesStayTaken'
<1> SUFFICES ASSUME IInv, Next PROVE NoncesAreSeen' /\ NoncesStayTaken'
  OBVIOUS
<1>1. clock \in Nat
  BY GatewayAssumption DEF IInv, TypeOK
<1>2. CASE UNCHANGED <<scenario, reserved_at, seen_nonces>> /\ clock <= clock'
  <2>1. NoncesAreSeen'
    <3>1. clock' \in Nat
      BY TypeStep, GatewayAssumption DEF TypeOK
    <3> SUFFICES ASSUME NEW q \in Requests, reserved_at[q] # None
                 PROVE  /\ Sig(q) \in Signature
                        /\ Nonce(q) \in seen_nonces \/ Sig(q).expiry <= clock'
      BY <1>2 DEF NoncesAreSeen, Nonce, Sig, Route, Request
    <3>2. Sig(q) \in Signature /\ (Nonce(q) \in seen_nonces \/ Sig(q).expiry <= clock)
      BY DEF IInv, NonceInv, NoncesAreSeen
    <3>3. Sig(q).expiry \in Nat
      BY <3>2 DEF Signature
    <3> QED
      BY <1>1, <1>2, <3>1, <3>2, <3>3
  <2>2. NoncesStayTaken'
    BY <1>2 DEF IInv, NonceInv, NoncesStayTaken, Delegated, Sig, Route, Request
  <2> QED
    BY <2>1, <2>2
<1>3. ASSUME NEW r \in Requests, reserve(r)
      PROVE  NoncesAreSeen' /\ NoncesStayTaken'
  <2>1. /\ scenario' = scenario /\ clock' = clock
        /\ Unexpired \subseteq seen_nonces'
        /\ at[r] = "reserve"
    BY <1>3 DEF reserve
  <2>2. reserved_at[r] = None /\ Sig(r) \in Signature
    BY <2>1 DEF IInv, NonceInv, NonceStepInv
  <2>3. ASSUME NEW q \in Requests, reserved_at[q] # None
        PROVE  /\ Sig(q) \in Signature
               /\ Nonce(q) \in Unexpired \/ Sig(q).expiry <= clock
    <3>1. Sig(q) \in Signature /\ (Nonce(q) \in seen_nonces \/ Sig(q).expiry <= clock)
      BY <2>3 DEF IInv, NonceInv, NoncesAreSeen
    <3>2. Sig(q).expiry \in Nat /\ Nonce(q).expiry = Sig(q).expiry
      BY <3>1 DEF Signature, Nonce
    <3> QED
      BY <1>1, <3>1, <3>2 DEF Unexpired
  <2>4. CASE InUse(Nonce(r), Unexpired)
    <3>1. reserved_at' = reserved_at
      BY <1>3, <2>4 DEF reserve
    <3>2. NoncesAreSeen'
      BY <2>1, <2>3, <3>1 DEF NoncesAreSeen, Nonce, Sig, Route, Request
    <3>3. NoncesStayTaken'
      BY <2>1, <3>1 DEF IInv, NonceInv, NoncesStayTaken, Delegated, Sig, Route, Request
    <3> QED
      BY <3>2, <3>3
  <2>5. CASE ~ InUse(Nonce(r), Unexpired)
    <3>1. /\ reserved_at' = [reserved_at EXCEPT ![r] = clock]
          /\ Nonce(r) \in seen_nonces'
      BY <1>3, <2>5 DEF reserve
    <3>2. /\ reserved_at'[r] = clock
          /\ \A q \in Requests : q # r => reserved_at'[q] = reserved_at[q]
      BY <3>1 DEF IInv, TypeOK
    <3>3. NoncesAreSeen'
      BY <2>1, <2>2, <2>3, <3>1, <3>2 DEF NoncesAreSeen, Nonce, Sig, Route, Request
    <3>4. ASSUME NEW q \in Requests, q # r, reserved_at[q] # None,
                 Sig(q).caller = Sig(r).caller, Route(q) = Route(r), Sig(q).nonce = Sig(r).nonce
          PROVE  clock >= Sig(q).expiry
      <4>1. Nonce(q) \notin Unexpired
        BY <2>5, <3>4 DEF InUse, Nonce
      <4>2. Sig(q).expiry \in Nat /\ Sig(q).expiry <= clock
        BY <2>3, <3>4, <4>1 DEF Signature
      <4> QED
        BY <1>1, <4>2
    <3>5. NoncesStayTaken'
      <4> SUFFICES ASSUME NEW p \in Requests, NEW q \in Requests, p # q,
                          reserved_at'[p] # None, reserved_at'[q] # None,
                          Sig(p).caller = Sig(q).caller, Route(p) = Route(q),
                          Sig(p).nonce = Sig(q).nonce
                   PROVE  reserved_at'[p] >= Sig(q).expiry \/ reserved_at'[q] >= Sig(p).expiry
        BY <2>1 DEF NoncesStayTaken, Delegated, Sig, Route, Request
      <4>1. CASE p = r
        BY <3>2, <3>4, <4>1
      <4>2. CASE q = r
        BY <3>2, <3>4, <4>2
      <4>3. CASE p # r /\ q # r
        BY <3>2, <4>3 DEF IInv, NonceInv, NoncesStayTaken, Delegated
      <4> QED
        BY <4>1, <4>2, <4>3
    <3> QED
      BY <3>3, <3>5
  <2> QED
    BY <2>4, <2>5
<1> QED
  BY <1>2, <1>3, NoncesLeft

-----------------------------------------------------------------------------
\* Nothing has happened at the start.
LEMMA InitInv ==
    Init => IInv
<1> SUFFICES ASSUME Init PROVE IInv
  OBVIOUS
<1>1. TypeOK
  <2>1. /\ DOMAIN verified_payers = {} /\ DOMAIN entries = {} /\ DOMAIN payments = {}
        /\ payments \in Seq(Requests)
    BY DEF Init
  <2>2. clock \in 0 .. MaxClock
    BY GatewayAssumption DEF Init
  <2> QED
    BY <2>1, <2>2 DEF Init, TypeOK, Steps, Ends
<1>2. PaidInv /\ ChallengeInv /\ CallerInv /\ ChannelInv /\ NoPayerLeftBehind
  BY DEF Init, PaidInv, ChallengeInv, AnswersOwnJob, Working, CallerInv, ChannelInv,
         NoPayerLeftBehind
<1>3. PayerInv
  BY DEF Init, PayerInv, PayersHavePaid, CachedHavePaid, OnePlace
<1>4. NonceInv
  BY DEF Init, NonceInv, NonceStepInv, NoncesAreSeen, NoncesStayTaken, Delegated
<1>5. OwnerInv
  BY DEF Init, OwnerInv, IdleInv, PayersAreNear, CachedAreNear
<1> QED
  BY <1>1, <1>2, <1>3, <1>4, <1>5 DEF IInv

(***************************************************************************)
(* The inductive invariant: whatever requests, sweeps, failures of the     *)
(* facilitator and hang-ups interleave.                                    *)
(***************************************************************************)
THEOREM Invariance == Spec => []IInv
<1>1. ASSUME IInv, UNCHANGED vars
      PROVE  IInv'
  <2> USE <1>1 DEF vars, requestVars, channelVars, Route, Request, Payment, Sig, Policy
  <2>1. TypeOK' /\ PaidInv' /\ CallerInv' /\ ChannelInv' /\ NoPayerLeftBehind'
    BY DEF IInv, TypeOK, PaidInv, CallerInv, ChannelInv, NoPayerLeftBehind
  <2>2. ChallengeInv' /\ PayerInv'
    BY DEF IInv, ChallengeInv, AnswersOwnJob, PayerInv, PayersHavePaid, CachedHavePaid,
           OnePlace, PaidFor
  <2>3. NonceInv'
    BY DEF IInv, NonceInv, NonceStepInv, NoncesAreSeen, Nonce, NoncesStayTaken, Delegated
  <2>4. OwnerInv'
    BY DEF IInv, OwnerInv, IdleInv, PayersAreNear, SharesChallenge, CachedAreNear
  <2> QED
    BY <2>1, <2>2, <2>3, <2>4 DEF IInv
<1>2. IInv /\ Next => IInv'
  BY TypeStep, PaidStep, ChallengeStep, PayerStep, CallerStep, NonceStepStep, NonceStep,
     ChannelStep, CacheStep, OwnerStep
  DEF IInv, NonceInv
<1> QED
  BY <1>1, <1>2, InitInv, PTL DEF Spec

\* Types, and one job per accepted request.
THEOREM TypeCorrect == Spec => []TypeOK
<1>1. IInv => TypeOK
  BY DEF IInv
<1> QED
  BY <1>1, Invariance, PTL

\* A job stands for a settled payment that stands for no other job.
THEOREM EveryJobIsPaid == Spec => []JobsArePaid
<1>1. IInv => JobsArePaid
  BY DEF IInv, PaidInv, ChallengeInv, AnswersOwnJob, Working, JobsArePaid, Accepted
<1> QED
  BY <1>1, Invariance, PTL

\* The caller of a job has paid, once per job, for the request itself or for one that
\* answers a challenge with the same id.
THEOREM EveryCallerHasPaid == Spec => []CallersHavePaid
<1>1. IInv => CallersHavePaid
  BY DEF IInv, CallerInv, PayerInv, PayersHavePaid, OnePlace, PaidFor, OwnerInv, PayersAreNear,
         CallersHavePaid, ByPayer, Accepted
<1> QED
  BY <1>1, Invariance, PTL

\* The payer cache holds nothing that no request is about to take.
THEOREM CacheIsDrained == Spec => []NoPayerLeftBehind
<1>1. IInv => NoPayerLeftBehind
  BY DEF IInv
<1> QED
  BY <1>1, Invariance, PTL

\* A reserved nonce is not reserved again before it expires.
THEOREM NoncesAreReserved == Spec => []NoncesStayTaken
<1>1. IInv => NoncesStayTaken
  BY DEF IInv, NonceInv
<1> QED
  BY <1>1, Invariance, PTL
=============================================================================
